---------------------------- MODULE AgentRuntime ----------------------------
(***************************************************************************)
(* What an agent runtime promises to the control plane that sends it runs, *)
(* without queues, native turns, notifications, files or restarts.  A run  *)
(* is named by the key its requests repeat.  It is taken on once, while    *)
(* nothing else is at work in its session; a stop that was asked for is    *)
(* never taken back; it ends once.  A run that ended makes room for a new  *)
(* one and its key is refused from then on; only when MaxTombstones keys   *)
(* are refused already is one of them forgotten.                           *)
(*                                                                         *)
(* CodexBridge implements this module: see Promised there, and the theorem *)
(* KeepsItsPromise of CodexRecords_proofs.                                 *)
(***************************************************************************)
EXTENDS Naturals, FiniteSets

CONSTANTS
    Keys,           \* client run keys
    SessionOf,      \* the session a key is submitted for
    MaxRetained,    \* how many runs are kept
    MaxTombstones   \* how many keys of runs no longer kept are refused

VARIABLE
    exec            \* what is known of each key

AtWork == {"active", "halting"}
Over   == {"completed", "failed", "cancelled"}

KeptKeys == {k \in Keys : exec[k] \in AtWork \cup Over}
Refused  == {k \in Keys : exec[k] = "expired"}

Init == exec = [k \in Keys |-> "unknown"]

\* A key nothing is known of may be taken on, when its session is free.
MayTakeOn(k) ==
    /\ exec[k] = "unknown"
    /\ \A l \in Keys : SessionOf[l] = SessionOf[k] => exec[l] \notin AtWork

TakeOn(k) ==
    /\ MayTakeOn(k) /\ Cardinality(KeptKeys) < MaxRetained
    /\ exec' = [exec EXCEPT ![k] = "active"]

\* A run that is over, j, makes room for it, and is refused from now on; only when too many are
\* refused already does one of them become unknown again.
TakeOnFor(k, j) ==
    /\ MayTakeOn(k) /\ exec[j] \in Over /\ Cardinality(KeptKeys) >= MaxRetained
    /\ LET dropped == [exec EXCEPT ![k] = "active", ![j] = "expired"] IN
       IF Cardinality(Refused) < MaxTombstones
       THEN exec' = dropped
       ELSE \E l \in Refused : exec' = [dropped EXCEPT ![l] = "unknown"]

AskStop(k) ==
    /\ exec[k] \in AtWork
    /\ exec' = [exec EXCEPT ![k] = "halting"]

End(k, how) ==
    /\ exec[k] \in AtWork
    /\ exec' = [exec EXCEPT ![k] = how]

\* The agent has gone: whatever was at work has failed.
Fail == exec' = [k \in Keys |-> IF exec[k] \in AtWork THEN "failed" ELSE exec[k]]

Next ==
    \/ \E k \in Keys :
          \/ TakeOn(k)
          \/ \E j \in Keys : TakeOnFor(k, j)
          \/ AskStop(k)
          \/ \E how \in Over : End(k, how)
    \/ Fail

Spec == Init /\ [][Next]_exec
=============================================================================
