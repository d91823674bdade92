---------------------------- MODULE RunLifecycle ----------------------------
(***************************************************************************)
(* What the chat run service promises to a conversation, without leases,   *)
(* reconcilers, runtimes or retries.  A run is accepted only while its     *)
(* instance has no other active run; it may be bound to one execution of   *)
(* the agent runtime, once; the user may ask it to stop, and that request  *)
(* is never forgotten; it is concluded once, and the conclusion and the    *)
(* single answer written to the conversation are one step.                 *)
(*                                                                         *)
(* ChatRuns implements this module: see Lifecycle there, and the theorem   *)
(* RefinesLifecycle of ChatRuns_proofs.                                    *)
(***************************************************************************)
EXTENDS Sequences

CONSTANTS
    Runs,        \* the runs users may ask for
    InstanceOf,  \* the agent instance each run is for
    Backlog,     \* the runs that are already waiting when the service starts
    Executions,  \* the executions the runtime can start for one run
    Batch,       \* stands for a synchronous completion, which has no execution
    None

Active    == {"queued", "running", "stopping"}
Decisions == {"completed", "failed", "cancelled", "expired"}

VARIABLES
    phase,       \* where each run is
    bound,       \* the execution each run is bound to, or None
    answers      \* the assistant messages written for each run

lifecycle == <<phase, bound, answers>>

Init ==
    /\ phase = [r \in Runs |-> IF r \in Backlog THEN "queued" ELSE "none"]
    /\ bound = [r \in Runs |-> None]
    /\ answers = [r \in Runs |-> << >>]

Accept(r) ==
    /\ phase[r] = "none"
    /\ \A s \in Runs : InstanceOf[s] = InstanceOf[r] => phase[s] \notin Active
    /\ phase' = [phase EXCEPT ![r] = "queued"]
    /\ UNCHANGED <<bound, answers>>

\* The execution is recorded.  A queued run starts running; a run the user has
\* asked to stop keeps stopping.
Bind(r, x) ==
    /\ phase[r] \in {"queued", "stopping"}
    /\ bound[r] = None
    /\ phase' = [phase EXCEPT ![r] = IF @ = "queued" THEN "running" ELSE @]
    /\ bound' = [bound EXCEPT ![r] = x]
    /\ UNCHANGED answers

AskStop(r) ==
    /\ phase[r] \in Active
    /\ phase' = [phase EXCEPT ![r] = "stopping"]
    /\ UNCHANGED <<bound, answers>>

\* A completed run carries the answer of the execution it is bound to, or of a
\* synchronous completion; any other conclusion carries no execution's answer.
Conclude(r, decision, source) ==
    /\ phase[r] \in Active
    /\ IF decision = "completed" THEN source \in {bound[r], Batch} \ {None}
                                 ELSE source = None
    /\ phase' = [phase EXCEPT ![r] = decision]
    /\ answers' = [answers EXCEPT ![r] = Append(@, [status |-> decision, from |-> source])]
    /\ UNCHANGED bound

\* Deleting the conversation removes the run and its messages.
Remove(r) ==
    /\ phase[r] # "none"
    /\ phase' = [phase EXCEPT ![r] = "deleted"]
    /\ bound' = [bound EXCEPT ![r] = None]
    /\ answers' = [answers EXCEPT ![r] = << >>]

Next ==
    \E r \in Runs :
        \/ Accept(r)
        \/ \E x \in Executions : Bind(r, x)
        \/ AskStop(r)
        \/ \E decision \in Decisions, source \in Executions \cup {Batch, None} :
               Conclude(r, decision, source)
        \/ Remove(r)

Spec == Init /\ [][Next]_lifecycle

=============================================================================
