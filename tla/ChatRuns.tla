------------------------------ MODULE ChatRuns ------------------------------
(***************************************************************************)
(* The chat run service of the control plane: how a user's message becomes *)
(* one run, is dispatched to the agent runtime under a lease, observed,    *)
(* stopped, recovered after a crash, and concluded exactly once.           *)
(*                                                                         *)
(* A reconciler is one server process (its RECONCILER_ID is drawn at boot, *)
(* so a restart is another reconciler).  Each has two ways to work on a    *)
(* run: the periodic cycle, one at a time for all the runs it claimed, and *)
(* the targeted handler that a new run wakes.  Each way of working on each *)
(* run is a job.  Every step of a job is what the code does between two    *)
(* awaits: at most one transaction of the store and the decision taken     *)
(* from it; what a job read before an await stays in job[j].seen.          *)
(*                                                                         *)
(* The runtime behind the HTTP API (Hermes, or the Pi and Codex bridges)   *)
(* is modelled from how this code uses it: it starts one execution for     *)
(* each idempotency key, refuses a session it does not know, and a request *)
(* may be answered, refused, lost, or carried out after its caller gave up.*)
(***************************************************************************)
EXTENDS Naturals, Sequences, FiniteSets

CONSTANTS
    Runs,         \* the run identifiers users may create
    Reconcilers,  \* the server processes that may run, one after another or at once
    InstanceOf,   \* the user's agent instance each run is for
    None,         \* null
    Outcomes,     \* how an execution may end by itself
    ListsRuns,    \* whether GET /v1/runs names a run by our identifier
    BatchModes,   \* whether the runtime may be asked for a synchronous completion
    Entries,      \* where messages come from: "chat" requests, managed "channel"s
    Backlog,      \* the runs an earlier process left queued
    Rebinds,      \* whether a run refused for its session is sent with a new one
    StaleRuns,    \* the runs whose conversation's session the runtime has lost
    Deletable,    \* the runs whose conversation the user may delete
    MaxAttempts,  \* dispatch attempts, and unconfirmed stop attempts: 3 in the code
    MaxResubmits, \* how often one attempt sends the run again: 2 in the code
    MaxClicks,    \* bound: how often users ask for a stop
    MaxStalls     \* bound: how often a lease expires under a job still at work

Keys      == {"main", "rebind"}    \* Idempotency-Key: run.id, run.id:session-rebind:1
Batch     == "batch"               \* an answer that is a synchronous completion
Active    == {"queued", "running", "stopping"}
Decisions == {"completed", "failed", "cancelled", "expired"}
Endings   == {"completed", "empty", "leaked", "failed"}

ASSUME NoneAssumption == None \notin Reconcilers \cup Keys \cup {Batch} \cup Decisions
ASSUME OutcomesAssumption == Outcomes \subseteq Endings \cup {"gone"}
ASSUME FlagsAssumption == {ListsRuns, BatchModes, Rebinds} \subseteq BOOLEAN
ASSUME EntriesAssumption == Entries \subseteq {"chat", "channel"}
ASSUME RunsAssumption == StaleRuns \subseteq Runs /\ Deletable \subseteq Runs /\ Backlog \subseteq Runs
ASSUME BacklogAssumption == \A r, s \in Backlog : InstanceOf[r] = InstanceOf[s] => r = s
ASSUME LimitsAssumption == MaxAttempts \in Nat \ {0} /\ MaxResubmits \in Nat
ASSUME BoundsAssumption == MaxClicks \in Nat /\ MaxStalls \in Nat

Kinds == {"cycle", "targeted"}
Jobs  == Reconcilers \X Runs \X Kinds
Proc(j)  == j[1]
RunOf(j) == j[2]

VARIABLES
    run,      \* the chatRuns row of each run
    job,      \* what each job is doing, and what it read
    streams,  \* the event streams each process has open: <<process, run, key>>
    up,       \* the runtime: the execution of each run under each key
    posts,    \* submissions the runtime has not processed yet: <<run, key>>
    stale,    \* the runs whose bound session the runtime does not know
    started,  \* the processes whose run scheduler has started
    alive,    \* the processes that have not crashed
    overdue,  \* the runs older than the longest runtime allowed
    clicks,   \* stop requests made so far
    stalls    \* leases that expired under a job still at work

runtime == <<up, posts, stale>>
world   == <<started, alive, overdue, clicks, stalls>>
vars    == <<run, job, streams, up, posts, stale, started, alive, overdue, clicks, stalls>>

-----------------------------------------------------------------------------
(* The row of a run, and what each transaction of the store makes of it.   *)

NoRow == [status |-> "none", upstream |-> None, owner |-> None, live |-> FALSE,
          attempts |-> 0, stops |-> 0, stopAged |-> FALSE, accepted |-> FALSE,
          answers |-> << >>]

QueuedRow == [NoRow EXCEPT !.status = "queued"]

\* live stands for lease_expires_at > now, stopAged for stop_requested_at being
\* more than 300 s old.  Both counters are only compared with 0, 1 and the limit, so
\* they are kept up to MaxAttempts.
Row == [status : {"none", "deleted"} \cup Active \cup Decisions,
        upstream : Keys \cup {None},
        owner : Reconcilers \cup {None},
        live : BOOLEAN,
        attempts : 0 .. MaxAttempts,
        stops : 0 .. MaxAttempts,
        stopAged : BOOLEAN,
        accepted : BOOLEAN,
        answers : Seq([status : Decisions, from : Keys \cup {Batch, None}])]

Counted(n) == IF n < MaxAttempts THEN n + 1 ELSE n

Holds(row, p)   == row.owner = p /\ row.live
Claimable(row)  == row.status \in Active /\ ~(row.owner # None /\ row.live)
Claimed(row, p) == [row EXCEPT !.owner = p, !.live = TRUE]
Released(row)   == [row EXCEPT !.owner = None, !.live = FALSE]
Stopped(row)    == [row EXCEPT !.status = "stopping", !.stops = Counted(@), !.stopAged = FALSE]

\* Mutated: the record of the execution forgets that the user asked for a stop.
DispatchedOverStop(row, key) == [row EXCEPT !.upstream = key, !.status = "running"]

\* Mutated: the record of the execution leaves the run queued.
DispatchedQueued(row, key) == [row EXCEPT !.upstream = key]

Dispatched(row, key) ==
    [row EXCEPT !.upstream = key, !.status = IF row.status = "queued" THEN "running" ELSE row.status]

\* Mutated: the end of the run leaves its lease.
FinishedOwned(row, decision, source) ==
    [row EXCEPT !.status = decision,
                !.answers = Append(@, [status |-> decision, from |-> source])]

Finished(row, decision, source) ==
    [row EXCEPT !.status = decision, !.owner = None, !.live = FALSE,
                !.answers = Append(@, [status |-> decision, from |-> source])]

\* finishChatRun without a fence, fenced by the lease, fenced by the execution.
FinishedUnfenced(row, decision) ==
    IF row.status \in Active THEN Finished(row, decision, None) ELSE row

FinishedByOwner(row, p, decision, source) ==
    IF row.status \in Active /\ Holds(row, p) THEN Finished(row, decision, source) ELSE row

\* Mutated: the end observed on the execution is not fenced by the status.
FinishedAgain(row, key, decision) ==
    IF row.upstream = key
    THEN Finished(row, decision, IF decision = "completed" THEN key ELSE None)
    ELSE row

FinishedByExecution(row, key, decision) ==
    IF row.status \in {"running", "stopping"} /\ row.upstream = key
    THEN Finished(row, decision, IF decision = "completed" THEN key ELSE None)
    ELSE row

\* Mutated: the attempt is not counted before the dispatch.
AttemptUncounted(row, seen) == row

\* The next attempt, and the next unconfirmed stop, are written from the row
\* the job read when it claimed the run, not from the row as it is now.
AttemptCounted(row, seen) == [row EXCEPT !.attempts = Counted(seen.attempts)]
StopCounted(row, seen)    ==
    [row EXCEPT !.stops = Counted(IF seen.accepted THEN 0 ELSE seen.stops)]

\* Mutated: the age of the stop request is not looked at.
TimedOutByCount(seen) == ~seen.accepted /\ seen.stops >= MaxAttempts

\* resolveStopRecoveryWindow: too many unconfirmed stops, or too long ago.  An
\* accepted stop is only bounded by its age.
TimedOut(seen) == (~seen.accepted /\ seen.stops >= MaxAttempts) \/ seen.stopAged

-----------------------------------------------------------------------------
(* Jobs.                                                                   *)

IdleJob == [pc |-> "idle", seen |-> NoRow, tries |-> 0, lost |-> FALSE,
            stale |-> FALSE, verdict |-> None]

Waiting  == {"idle", "accept", "wake"}
Working  == {"claimed", "search", "prepare", "check", "snapshot", "posted", "lookup",
             "resubmit", "rebind", "rebound", "record", "batch", "batched", "probe",
             "expire", "stopSearch", "stopProbe", "stopPost", "finish", "finishBound",
             "release"}

Job == [pc : Waiting \cup Working, seen : Row, tries : 0 .. MaxResubmits,
        lost : BOOLEAN, stale : BOOLEAN, verdict : Decisions \cup {None}]

Busy(j)       == job[j].pc \in Working
At(j, pc)     == job[j].pc = pc
RowOf(j)      == run[RunOf(j)]
Fresh(j)      == Holds(RowOf(j), Proc(j))
Goes(j, pc)   == job' = [job EXCEPT ![j].pc = pc]

\* A job that has decided keeps nothing of what it read but what it needs.
Ends(j)       == job' = [job EXCEPT ![j] = [IdleJob EXCEPT !.pc = "release", !.lost = job[j].lost]]
Loses(j)      == job' = [job EXCEPT ![j] = [IdleJob EXCEPT !.pc = "release", !.lost = TRUE]]
Decides(j, d) ==
    job' = [job EXCEPT ![j] = [IdleJob EXCEPT !.pc = "finish", !.lost = job[j].lost, !.verdict = d]]
DecidesBound(j, d) == job' = [job EXCEPT ![j].pc = "finishBound", ![j].verdict = d]
Writes(j, row) == run' = [run EXCEPT ![RunOf(j)] = row]

\* updateChatRun with the owner's fence: a write that finds the lease gone
\* marks it lost and gives the run up.
WritesOwned(j, row, pc) ==
    \/ Fresh(j) /\ Writes(j, row) /\ Goes(j, pc)
    \/ ~Fresh(j) /\ Loses(j) /\ UNCHANGED run

\* The job of process p that takes a run it has claimed.
Holding(row) == [IdleJob EXCEPT !.pc = "claimed", !.seen = row]

\* recordDispatchedChatRun and what the dispatcher makes of its result.
Records(j, key) ==
    \/ /\ Fresh(j) /\ RowOf(j).upstream \in {None, key}
       /\ Writes(j, Dispatched(RowOf(j), key))
       /\ streams' = IF RowOf(j).status = "stopping" THEN streams
                     ELSE streams \cup {<<Proc(j), RunOf(j), key>>}
       /\ Ends(j)
    \/ /\ Fresh(j) /\ RowOf(j).upstream \notin {None, key}
       /\ Decides(j, "failed")
       /\ UNCHANGED <<run, streams>>
    \/ /\ ~Fresh(j)
       /\ IF RowOf(j).status = "deleted" THEN Ends(j) ELSE Loses(j)
       /\ UNCHANGED <<run, streams>>

\* GET /v1/runs names the execution of this run.
Listed(r) == ListsRuns /\ up[r]["main"] \notin {"absent", "gone"}

\* A dispatch that failed: ask for a synchronous completion where the provider
\* needs it, give up after the last attempt, or leave the run to a later claim.
GivesUpDispatch(j) ==
    \/ BatchModes /\ Goes(j, "batch")
    \/ IF Counted(job[j].seen.attempts) >= MaxAttempts THEN Decides(j, "failed") ELSE Ends(j)

-----------------------------------------------------------------------------
Init ==
    /\ run = [r \in Runs |-> IF r \in Backlog THEN QueuedRow ELSE NoRow]
    /\ job = [j \in Jobs |-> IdleJob]
    /\ streams = {}
    /\ up = [r \in Runs |-> [k \in Keys |-> "absent"]]
    /\ posts = {}
    /\ stale = StaleRuns
    /\ started = {}
    /\ alive = Reconcilers
    /\ overdue = {}
    /\ clicks = 0
    /\ stalls = 0

-----------------------------------------------------------------------------
(* Requests of users.                                                      *)

\* Mutated: a run is accepted while another run of the instance is active.
AcceptsAnyway(r) == run[r].status = "none"

Accepts(r) ==
    /\ run[r].status = "none"
    /\ \A s \in Runs : InstanceOf[s] = InstanceOf[r] => run[s].status \notin Active

\* POST chat/runs: the run is created together with a lease of this process.
BeginChatRun(p, r) ==
    /\ "chat" \in Entries
    /\ p \in alive /\ At(<<p, r, "targeted">>, "idle") /\ Accepts(r)
    /\ run' = [run EXCEPT ![r] = Claimed(QueuedRow, p)]
    /\ Goes(<<p, r, "targeted">>, "accept")
    /\ UNCHANGED <<streams, runtime, world>>

\* A message of a managed channel: no lease; the wake is refused, and left to
\* the cycle, until the scheduler has started.
BeginManagedRun(p, r) ==
    /\ "channel" \in Entries
    /\ p \in alive /\ At(<<p, r, "targeted">>, "idle") /\ Accepts(r)
    /\ run' = [run EXCEPT ![r] = QueuedRow]
    /\ Goes(<<p, r, "targeted">>, IF p \in started THEN "wake" ELSE "idle")
    /\ UNCHANGED <<streams, runtime, world>>

\* The rest of the request: attaching the files fails and the run is failed
\* with no fence at all; or the targeted handler is woken; or the scheduler has
\* not started and the lease is given back.
Accept(j) ==
    /\ At(j, "accept")
    /\ \/ Writes(j, FinishedUnfenced(RowOf(j), "failed")) /\ Goes(j, "idle")
       \/ Proc(j) \in started /\ Goes(j, "wake") /\ UNCHANGED run
       \/ /\ Proc(j) \notin started
          /\ Writes(j, IF RowOf(j).owner = Proc(j) THEN Released(RowOf(j)) ELSE RowOf(j))
          /\ Goes(j, "idle")
    /\ UNCHANGED <<streams, runtime, world>>

RequestStop(r) ==
    /\ run[r].status \in Active
    /\ clicks < MaxClicks
    /\ run' = [run EXCEPT ![r] = Stopped(@)]
    /\ clicks' = clicks + 1
    /\ UNCHANGED <<job, streams, runtime, started, alive, overdue, stalls>>

\* Deleting a conversation deletes its runs, whatever they are doing.
DeleteConversation(r) ==
    /\ r \in Deletable /\ run[r].status \notin {"none", "deleted"}
    /\ run' = [run EXCEPT ![r] = [NoRow EXCEPT !.status = "deleted"]]
    /\ UNCHANGED <<job, streams, runtime, world>>

-----------------------------------------------------------------------------
(* Leases.                                                                 *)

\* The server starts its run scheduler; from then on there are cycles and wakes.
StartScheduler(p) ==
    /\ p \in alive /\ p \notin started
    /\ started' = started \cup {p}
    /\ UNCHANGED <<run, job, streams, runtime, alive, overdue, clicks, stalls>>

\* A cycle claims every run it can, and is not repeated before all are released.
Cycle(p) ==
    LET found == {r \in Runs : Claimable(run[r])}
    IN  /\ p \in alive /\ p \in started /\ found # {}
        /\ \A r \in Runs : At(<<p, r, "cycle">>, "idle")
        /\ run' = [r \in Runs |-> IF r \in found THEN Claimed(run[r], p) ELSE run[r]]
        /\ job' = [j \in Jobs |->
                     IF j[1] = p /\ j[3] = "cycle" /\ j[2] \in found
                     THEN Holding(Claimed(run[j[2]], p)) ELSE job[j]]
        /\ UNCHANGED <<streams, runtime, world>>

\* The targeted claim also takes a run this process already holds.
ClaimTargeted(j) ==
    /\ At(j, "wake")
    /\ LET row == RowOf(j)
           own == row.status \in Active /\ Holds(row, Proc(j))
           got == Claimed(row, Proc(j))
       IN  \/ /\ own \/ Claimable(row)
              /\ Writes(j, got)
              /\ job' = [job EXCEPT ![j] = Holding(got)]
           \/ /\ ~(own \/ Claimable(row))
              /\ Goes(j, "idle")
              /\ UNCHANGED run
    /\ UNCHANGED <<streams, runtime, world>>

\* The renewal timer renews by owner alone, an expired lease included, and a
\* refused renewal marks the lease lost.
Renew(j) ==
    LET mine == RowOf(j).owner = Proc(j) /\ RowOf(j).status \in Active
    IN  /\ Busy(j) /\ ~job[j].lost
        /\ \/ /\ mine /\ ~RowOf(j).live
              /\ Writes(j, Claimed(RowOf(j), Proc(j)))
              /\ UNCHANGED job
           \/ /\ ~mine
              /\ job' = [job EXCEPT ![j].lost = TRUE]
              /\ UNCHANGED run
        /\ UNCHANGED <<streams, runtime, world>>

Renewed(r) == \E j \in Jobs :
    RunOf(j) = r /\ Proc(j) = run[r].owner /\ Busy(j) /\ ~job[j].lost

Expires(r) == run[r].live /\ run' = [run EXCEPT ![r].live = FALSE]

\* Nobody renews the lease: its process crashed, or no job took it up.
OrphanLeaseExpires(r) ==
    /\ ~Renewed(r)
    /\ Expires(r)
    /\ UNCHANGED <<job, streams, runtime, world>>

\* The process is stalled past its renewals while a job holds the run.
StalledLeaseExpires(r) ==
    /\ Renewed(r) /\ stalls < MaxStalls
    /\ Expires(r)
    /\ stalls' = stalls + 1
    /\ UNCHANGED <<job, streams, runtime, started, alive, overdue, clicks>>

\* The end of a job, however it ended: the lease is released unless it is known
\* to be lost.
Release(j) ==
    /\ At(j, "release")
    /\ Writes(j, IF ~job[j].lost /\ RowOf(j).owner = Proc(j) THEN Released(RowOf(j)) ELSE RowOf(j))
    /\ job' = [job EXCEPT ![j] = IdleJob]
    /\ UNCHANGED <<streams, runtime, world>>

-----------------------------------------------------------------------------
(* processSingleRun: what a claimed run needs next.                        *)

\* The lease was lost while the run waited for its turn in the cycle.
SkipLost(j) ==
    /\ At(j, "claimed") /\ job[j].lost
    /\ Ends(j)
    /\ UNCHANGED <<run, streams, runtime, world>>

\* The instance, its runtime binding, the message or its files are not there.
Refuse(j) ==
    /\ \/ At(j, "claimed") /\ ~job[j].lost
       \/ At(j, "prepare")
    /\ Decides(j, "failed")
    /\ UNCHANGED <<run, streams, runtime, world>>

BeginDispatch(j) ==
    /\ At(j, "claimed") /\ ~job[j].lost /\ job[j].seen.status = "queued"
    /\ WritesOwned(j, AttemptCounted(RowOf(j), job[j].seen),
                   IF job[j].seen.attempts = 0 THEN "prepare" ELSE "search")
    /\ UNCHANGED <<streams, runtime, world>>

BeginProbe(j) ==
    /\ At(j, "claimed") /\ ~job[j].lost /\ job[j].seen.status = "running"
    /\ streams' = streams \cup {<<Proc(j), RunOf(j), job[j].seen.upstream>>}
    /\ Goes(j, IF RunOf(j) \in overdue THEN "expire" ELSE "probe")
    /\ UNCHANGED <<run, runtime, world>>

BeginStopRecovery(j) ==
    /\ At(j, "claimed") /\ ~job[j].lost /\ job[j].seen.status = "stopping"
    /\ IF job[j].seen.upstream # None THEN Goes(j, "stopProbe")
       ELSE IF job[j].seen.attempts = 0 THEN Decides(j, "cancelled")
       ELSE Goes(j, "stopSearch")
    /\ UNCHANGED <<run, streams, runtime, world>>

-----------------------------------------------------------------------------
(* Dispatch.                                                               *)

\* A later attempt first looks for the execution of an earlier one.
Search(j) ==
    /\ At(j, "search")
    /\ \/ Listed(RunOf(j)) /\ Records(j, "main")
       \/ Goes(j, "prepare") /\ UNCHANGED <<run, streams>>
    /\ UNCHANGED <<runtime, world>>

\* The session bound to the conversation is read here and used by the POST.
Prepare(j) ==
    /\ At(j, "prepare")
    /\ \/ job' = [job EXCEPT ![j].pc = "check", ![j].stale = RunOf(j) \in stale]
       \/ BatchModes /\ Goes(j, "batch")
    /\ UNCHANGED <<run, streams, runtime, world>>

\* The check before the dispatch: still ours, still queued; a stop that came
\* meanwhile cancels the run here.
CheckDispatch(j) ==
    /\ At(j, "check")
    /\ \/ RowOf(j).status = "deleted" /\ Ends(j)
       \/ RowOf(j).status # "deleted" /\ ~Fresh(j) /\ Loses(j)
       \/ /\ Fresh(j) /\ RowOf(j).status = "stopping"
          /\ IF RowOf(j).upstream = None THEN Decides(j, "cancelled") ELSE Ends(j)
       \/ Fresh(j) /\ RowOf(j).status = "running" /\ Ends(j)
       \/ Fresh(j) /\ RowOf(j).status = "queued" /\ Goes(j, "snapshot")
    /\ UNCHANGED <<run, streams, runtime, world>>

\* POST /v1/runs.  A session the runtime does not know starts nothing.
Posts(j, key, known) ==
    posts' = IF known THEN posts \cup {<<RunOf(j), key>>} ELSE posts

\* The check is repeated when the file snapshot is done, in the turn of the POST.
SubmitRun(j) ==
    /\ At(j, "snapshot")
    /\ \/ /\ Fresh(j) /\ RowOf(j).status = "queued"
          /\ Posts(j, "main", ~job[j].stale) /\ Goes(j, "posted")
       \/ ~(Fresh(j) /\ RowOf(j).status = "queued") /\ Ends(j) /\ UNCHANGED posts
    /\ UNCHANGED <<run, streams, up, stale, world>>

\* Sent again after a pause, and not checked after it.
Resubmit(j) ==
    /\ At(j, "resubmit")
    /\ Posts(j, "main", ~job[j].stale)
    /\ job' = [job EXCEPT ![j].pc = "posted", ![j].tries = @ + 1]
    /\ UNCHANGED <<run, streams, up, stale, world>>

\* isValidUpstreamRunId refused the reply; the run fails if it is still ours.
Misnamed(j) == IF Fresh(j) THEN Decides(j, "failed") ELSE Ends(j)

\* The reply names the execution of this key, and the execution is recorded.
SubmitAnswered(j) ==
    /\ At(j, "posted")
    /\ up[RunOf(j)]["main"] # "absent" /\ ~job[j].stale
    /\ Records(j, "main")
    /\ UNCHANGED <<runtime, world>>

\* The reply names an execution by an identifier this code does not accept.
SubmitMalformed(j) ==
    /\ At(j, "posted")
    /\ up[RunOf(j)]["main"] # "absent" /\ ~job[j].stale
    /\ Misnamed(j)
    /\ UNCHANGED <<run, streams, runtime, world>>

\* Mutated: one resubmission too many.
SubmitTransientOnceMore(j) ==
    /\ At(j, "posted")
    /\ IF job[j].tries <= MaxResubmits THEN Goes(j, "lookup") ELSE GivesUpDispatch(j)
    /\ UNCHANGED <<run, streams, runtime, world>>

\* No reply, or a gateway error: whether the runtime has the run is unknown.
SubmitTransient(j) ==
    /\ At(j, "posted")
    /\ IF job[j].tries < MaxResubmits THEN Goes(j, "lookup") ELSE GivesUpDispatch(j)
    /\ UNCHANGED <<run, streams, runtime, world>>

\* The runtime refuses the run: busy, or the key was used for another body.
SubmitRejected(j) ==
    /\ At(j, "posted")
    /\ ~(job[j].stale /\ Rebinds)
    /\ posts' = posts \ {<<RunOf(j), "main">>}
    /\ GivesUpDispatch(j)
    /\ UNCHANGED <<run, streams, up, stale, world>>

\* The runtime does not know the session: send the run again with a new one.
SubmitStale(j) ==
    /\ At(j, "posted") /\ job[j].stale /\ Rebinds
    /\ Goes(j, "rebind")
    /\ UNCHANGED <<run, streams, runtime, world>>

\* After a transient failure: ask whether the run is there before sending it
\* again, as long as it is still queued and ours.
Lookup(j) ==
    LET wanted == Fresh(j) /\ RowOf(j).status = "queued"
    IN  /\ At(j, "lookup")
        /\ \/ wanted /\ Listed(RunOf(j)) /\ Records(j, "main")
           \/ wanted /\ ~Listed(RunOf(j)) /\ Goes(j, "resubmit") /\ UNCHANGED <<run, streams>>
           \/ GivesUpDispatch(j) /\ UNCHANGED <<run, streams>>
        /\ UNCHANGED <<runtime, world>>

\* A new session is created and the run is sent to it under a second key,
\* without a look at the row.
Rebind(j) ==
    /\ At(j, "rebind")
    /\ \/ Posts(j, "rebind", TRUE) /\ Goes(j, "rebound")
       \/ Decides(j, "failed") /\ UNCHANGED posts
    /\ UNCHANGED <<run, streams, up, stale, world>>

\* The new session is bound to the conversation; the execution is recorded by
\* a transaction of its own.
RebindAnswered(j) ==
    /\ At(j, "rebound") /\ up[RunOf(j)]["rebind"] # "absent"
    /\ stale' = stale \ {RunOf(j)}
    /\ Goes(j, "record") \/ Misnamed(j)
    /\ UNCHANGED <<run, streams, up, posts, world>>

RebindFailed(j) ==
    /\ At(j, "rebound")
    /\ GivesUpDispatch(j)
    /\ UNCHANGED <<run, streams, runtime, world>>

RecordRebound(j) ==
    /\ At(j, "record")
    /\ Records(j, "rebind")
    /\ UNCHANGED <<runtime, world>>

\* executeBatch: a synchronous completion, sent without a look at the row.
BatchPost(j) ==
    /\ At(j, "batch")
    /\ Goes(j, "batched")
    /\ UNCHANGED <<run, streams, runtime, world>>

BatchAnswered(j) ==
    /\ At(j, "batched")
    /\ \E d \in {"completed", "failed"} : Decides(j, d)
    /\ UNCHANGED <<run, streams, runtime, world>>

-----------------------------------------------------------------------------
(* Observation.                                                            *)

Observed(j) == up[RunOf(j)][job[j].seen.upstream]

\* Mutated: an empty answer is accepted as the completion of the run.
ConvergesUnverified(j) ==
    \/ Observed(j) \in {"completed", "empty"} /\ DecidesBound(j, "completed")
    \/ Observed(j) = "leaked" /\ DecidesBound(j, "failed")
    \/ Observed(j) \in {"failed", "cancelled"} /\ Decides(j, Observed(j))

\* convergeRunTerminalProbe.  A completion is fenced by the execution it came
\* from, other ends by the lease; an empty answer is refused by the verifier.
Converges(j) ==
    \/ Observed(j) = "completed" /\ DecidesBound(j, "completed")
    \/ Observed(j) = "leaked" /\ DecidesBound(j, "failed")
    \/ Observed(j) = "empty" /\ Ends(j)
    \/ Observed(j) \in {"failed", "cancelled"} /\ Decides(j, Observed(j))

\* GET /v1/runs/:id, the heartbeat, and the end if there is one.
Probe(j) ==
    /\ At(j, "probe")
    /\ \/ /\ Observed(j) \notin {"absent", "gone"}
          /\ \/ ~Fresh(j) /\ Loses(j)
             \/ Fresh(j) /\ Converges(j)
             \/ Fresh(j) /\ Observed(j) \in {"active", "halting"} /\ Ends(j)
             \/ Fresh(j) /\ Observed(j) = "failed" /\ BatchModes /\ Goes(j, "batch")
       \/ Observed(j) = "gone" /\ Decides(j, "failed")
    /\ UNCHANGED <<run, streams, runtime, world>>

\* The probe is not answered; after three silent minutes the run is failed.
ProbeUnanswered(j) ==
    /\ At(j, "probe")
    /\ Ends(j) \/ Decides(j, "failed")
    /\ UNCHANGED <<run, streams, runtime, world>>

\* What a stop does to an execution at work: nothing, if the request is lost.
Halts(j, states) ==
    LET key == job[j].seen.upstream
    IN  \E s \in states :
            up' = [up EXCEPT ![RunOf(j)][key] = IF @ \in {"active", "halting"} THEN s ELSE @]

\* The run is older than the limit: the execution is asked to stop, whatever it
\* answers, and the run expires.
Expire(j) ==
    /\ At(j, "expire")
    /\ Halts(j, {"active", "halting", "cancelled"})
    /\ Decides(j, "expired")
    /\ UNCHANGED <<run, streams, posts, stale, world>>

-----------------------------------------------------------------------------
(* Stop recovery.                                                          *)

\* An attempt was made and its execution is not known: look for it.
StopSearch(j) ==
    /\ At(j, "stopSearch")
    /\ \/ /\ Listed(RunOf(j)) /\ Fresh(j) /\ RowOf(j).upstream \in {None, "main"}
          /\ Writes(j, Dispatched(RowOf(j), "main"))
          /\ Ends(j)
       \/ TimedOut(job[j].seen) /\ Decides(j, "failed") /\ UNCHANGED run
       \/ /\ ~TimedOut(job[j].seen)
          /\ WritesOwned(j, StopCounted(RowOf(j), job[j].seen), "release")
    /\ UNCHANGED <<streams, runtime, world>>

\* The execution is known: has it ended?  If not, or if it cannot be asked, and
\* the window is open, the attempt to stop it is recorded before it is made.
StopProbe(j) ==
    LET seen == job[j].seen
        counted == StopCounted(RowOf(j), seen)
    IN  /\ At(j, "stopProbe")
        /\ \/ Converges(j) /\ UNCHANGED run
           \/ TimedOut(seen) /\ Decides(j, "failed") /\ UNCHANGED run
           \/ ~TimedOut(seen) /\ Observed(j) = "gone" /\ WritesOwned(j, counted, "release")
           \/ ~TimedOut(seen) /\ seen.accepted /\ Ends(j) /\ UNCHANGED run
           \/ ~TimedOut(seen) /\ ~seen.accepted /\ WritesOwned(j, counted, "stopPost")
        /\ UNCHANGED <<streams, runtime, world>>

\* POST /v1/runs/:id/stop is answered with the end of the execution, ...
StopConfirmed(j) ==
    /\ At(j, "stopPost")
    /\ Observed(j) \in {"active", "halting", "cancelled"}
    /\ Halts(j, {"cancelled"})
    /\ IF job[j].lost THEN Ends(j) ELSE Decides(j, "cancelled")
    /\ UNCHANGED <<run, streams, posts, stale, world>>

\* ... or with a promise, after which only the age of the request bounds it, ...
StopAccepted(j) ==
    /\ At(j, "stopPost")
    /\ Observed(j) # "gone"
    /\ Halts(j, {"halting"})
    /\ WritesOwned(j, [RowOf(j) EXCEPT !.accepted = TRUE], "release")
    /\ UNCHANGED <<streams, posts, stale, world>>

\* ... or not at all.
StopUnanswered(j) ==
    /\ At(j, "stopPost")
    /\ Halts(j, {"active", "halting"})
    /\ Ends(j)
    /\ UNCHANGED <<run, streams, posts, stale, world>>

-----------------------------------------------------------------------------
(* The end of a run.                                                       *)

\* finishChatRun with this reconciler's lease.
Finish(j) ==
    /\ At(j, "finish")
    /\ Writes(j, FinishedByOwner(RowOf(j), Proc(j), job[j].verdict,
                     IF job[j].verdict = "completed" THEN Batch ELSE None))
    /\ Ends(j)
    /\ UNCHANGED <<streams, runtime, world>>

\* finishChatRun with the execution it was observed on.
FinishBound(j) ==
    /\ At(j, "finishBound")
    /\ Writes(j, FinishedByExecution(RowOf(j), job[j].seen.upstream, job[j].verdict))
    /\ Ends(j)
    /\ UNCHANGED <<streams, runtime, world>>

\* The event stream ends.  Its terminal event concludes the run whoever holds
\* the lease; an empty answer does not, and a connection may just be lost.
StreamEnds(s) ==
    LET r == s[2]
        key == s[3]
    IN  /\ s \in streams
        /\ streams' = streams \ {s}
        /\ \/ /\ up[r][key] \in {"completed", "failed", "cancelled", "leaked"}
              /\ run' = [run EXCEPT ![r] = FinishedByExecution(@, key,
                            IF up[r][key] = "leaked" THEN "failed" ELSE up[r][key])]
           \/ UNCHANGED run
        /\ UNCHANGED <<job, runtime, world>>

-----------------------------------------------------------------------------
(* The runtime, time and crashes.                                          *)

\* A submission takes effect: the key is remembered, and a session runs one
\* execution at a time.  One that is lost is one that is never delivered.
Deliver(r, key) ==
    /\ <<r, key>> \in posts
    /\ \A k \in Keys : up[r][k] \notin {"active", "halting"}
    /\ posts' = posts \ {<<r, key>>}
    /\ up' = [up EXCEPT ![r][key] = IF @ = "absent" THEN "active" ELSE @]
    /\ UNCHANGED <<run, job, streams, stale, world>>

EndExecution(r, key) ==
    /\ \/ /\ up[r][key] \in {"active", "halting"}
          /\ \E o \in Outcomes \ {"gone"} : up' = [up EXCEPT ![r][key] = o]
       \/ /\ up[r][key] = "halting"
          /\ up' = [up EXCEPT ![r][key] = "cancelled"]
       \/ /\ "gone" \in Outcomes /\ up[r][key] \notin {"absent", "gone"}
          /\ up' = [up EXCEPT ![r][key] = "gone"]
    /\ UNCHANGED <<run, job, streams, posts, stale, world>>

\* 300 s have passed since the last request to stop.
StopAges(r) ==
    /\ run[r].status = "stopping" /\ ~run[r].stopAged
    /\ run' = [run EXCEPT ![r].stopAged = TRUE]
    /\ UNCHANGED <<job, streams, runtime, world>>

\* The age of a run is only looked at while it is running.
RunAges(r) ==
    /\ run[r].status = "running" /\ r \notin overdue
    /\ overdue' = overdue \cup {r}
    /\ UNCHANGED <<run, job, streams, runtime, started, alive, clicks, stalls>>

\* A process is gone with its jobs and streams; what it sent is not.
Crash(p) ==
    /\ p \in alive /\ alive # {p}
    /\ alive' = alive \ {p}
    /\ job' = [j \in Jobs |-> IF j[1] = p THEN IdleJob ELSE job[j]]
    /\ streams' = {s \in streams : s[1] # p}
    /\ UNCHANGED <<run, runtime, started, overdue, clicks, stalls>>

-----------------------------------------------------------------------------
Dispatch(j) ==
    \/ BeginDispatch(j) \/ Search(j) \/ Prepare(j) \/ CheckDispatch(j)
    \/ SubmitRun(j) \/ Resubmit(j) \/ SubmitAnswered(j) \/ SubmitMalformed(j)
    \/ SubmitTransient(j) \/ SubmitRejected(j) \/ SubmitStale(j) \/ Lookup(j)
    \/ Rebind(j) \/ RebindAnswered(j) \/ RebindFailed(j) \/ RecordRebound(j)
    \/ BatchPost(j) \/ BatchAnswered(j)

Observe(j) == BeginProbe(j) \/ Probe(j) \/ ProbeUnanswered(j) \/ Expire(j)

RecoverStop(j) ==
    \/ BeginStopRecovery(j) \/ StopSearch(j) \/ StopProbe(j)
    \/ StopConfirmed(j) \/ StopAccepted(j) \/ StopUnanswered(j)

\* What a job does next by itself.
Work(j) ==
    \/ Accept(j) \/ ClaimTargeted(j) \/ SkipLost(j) \/ Refuse(j)
    \/ Dispatch(j) \/ Observe(j) \/ RecoverStop(j)
    \/ Finish(j) \/ FinishBound(j) \/ Release(j)

Next ==
    \/ \E p \in Reconcilers : StartScheduler(p) \/ Cycle(p) \/ Crash(p)
    \/ \E p \in Reconcilers, r \in Runs : BeginChatRun(p, r) \/ BeginManagedRun(p, r)
    \/ \E j \in Jobs : Work(j) \/ Renew(j)
    \/ \E r \in Runs : \/ RequestStop(r) \/ DeleteConversation(r)
                       \/ OrphanLeaseExpires(r) \/ StalledLeaseExpires(r)
                       \/ StopAges(r) \/ RunAges(r)
    \/ \E r \in Runs, key \in Keys : Deliver(r, key) \/ EndExecution(r, key)
    \/ \E s \in streams : StreamEnds(s)

Spec == Init /\ [][Next]_vars

-----------------------------------------------------------------------------
(* What the scheduling of the code justifies: an interval starts a cycle in *)
(* every process that lives, a job's next callback comes, and time passes.  *)
(* Nothing is assumed of users, crashes, renewals, streams or the runtime.  *)

Fairness ==
    /\ \A p \in Reconcilers : WF_vars(StartScheduler(p)) /\ WF_vars(Cycle(p))
    /\ \A j \in Jobs : WF_vars(Work(j))
    /\ \A r \in Runs : /\ WF_vars(OrphanLeaseExpires(r))
                      /\ WF_vars(StopAges(r))
                      /\ WF_vars(RunAges(r))

FairSpec == Spec /\ Fairness

-----------------------------------------------------------------------------
(* Properties.                                                             *)

TypeOK ==
    /\ run \in [Runs -> Row]
    /\ job \in [Jobs -> Job]
    /\ streams \subseteq Reconcilers \X Runs \X Keys
    /\ up \in [Runs -> [Keys -> Endings \cup {"absent", "active", "halting", "cancelled", "gone"}]]
    /\ posts \subseteq Runs \X Keys
    /\ stale \subseteq Runs
    /\ started \subseteq Reconcilers
    /\ alive \subseteq Reconcilers
    /\ overdue \subseteq Runs
    /\ clicks \in 0 .. MaxClicks
    /\ stalls \in 0 .. MaxStalls

\* A run that ended has exactly one answer in its conversation, and the answer
\* says how it ended; a run that has not ended has none.  Probes, event streams,
\* stop recovery, the failing request and two processes may all try to end it.
OneAnswer ==
    \A r \in Runs :
        IF run[r].status \in Decisions
        THEN Len(run[r].answers) = 1 /\ run[r].answers[1].status = run[r].status
        ELSE run[r].answers = << >>

\* Only a run at work has an owner: updateChatRun looks at the owner and its lease
\* and not at the status, so an owner left on a finished run would let it be written.
EndedRunsAreUnowned ==
    \A r \in Runs : run[r].status \notin Active => run[r].owner = None /\ ~run[r].live

\* A running run names its execution and a queued run has none, so neither the
\* dispatch of a queued run that has one nor the repair of a running run that
\* has none (INCONSISTENT_STATE) is ever taken.
BoundWhenRunning ==
    \A r \in Runs : /\ run[r].status = "queued" => run[r].upstream = None
                    /\ run[r].status = "running" => run[r].upstream # None

\* The answer of a completed run is the answer of the execution recorded on its
\* row, and that execution did complete; it is never the other execution's.
AnswerOfTheBoundExecution ==
    \A r \in Runs : run[r].status = "completed" =>
        LET from == run[r].answers[1].from
        IN  from # Batch => /\ from = run[r].upstream
                            /\ up[r][from] \in {"completed", "gone"}

\* The attempt is on the row before anything is sent, whichever job sends it and
\* whatever crashed: a run with no attempt may be cancelled without asking the
\* runtime, and the first attempt need not search.
AttemptWrittenAhead ==
    \A r \in Runs, k \in Keys :
        up[r][k] # "absent" \/ <<r, k>> \in posts
            => run[r].attempts > 0 \/ run[r].status = "deleted"

\* One run at a time for the instance of a user.
OneActivePerInstance ==
    \A r, s \in Runs :
        r # s /\ InstanceOf[r] = InstanceOf[s]
            => ~(run[r].status \in Active /\ run[s].status \in Active)

\* The service as its users see it.
Lifecycle == INSTANCE RunLifecycle WITH
    Executions <- Keys,
    phase   <- [r \in Runs |-> run[r].status],
    bound   <- [r \in Runs |-> run[r].upstream],
    answers <- [r \in Runs |-> run[r].answers]

\* The run service implements its lifecycle: a stop is never forgotten, a binding
\* never changes, an end is final and comes with its one answer.
ImplementsLifecycle == Lifecycle!Spec

\* Every run that was accepted ends, whatever crashes, stalls or is not answered.
RunSettles == \A r \in Runs : run[r].status \in Active ~> run[r].status \notin Active

=============================================================================
