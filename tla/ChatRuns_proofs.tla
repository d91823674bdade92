--------------------------- MODULE ChatRuns_proofs ---------------------------
(***************************************************************************)
(* Proofs about ChatRuns, for every set of runs, processes and instances,  *)
(* every kind of runtime and every bound.                                  *)
(*                                                                         *)
(* The rows of the store change only through the operators that stand for  *)
(* its transactions, so the argument has three layers: what each of those  *)
(* operators makes of one good row; what each action does to the rows and  *)
(* to the jobs; and the theorems, which follow from the two.               *)
(* A last section traces what is sent and what is answered to what was     *)
(* written before: an attempt to its count, an answer to its execution.    *)
(***************************************************************************)
EXTENDS ChatRuns, TLAPS

\* A row as the transactions leave it.
GoodRow(row) ==
    /\ row \in Row
    /\ row.status \notin Active => row.owner = None /\ row.live = FALSE
    /\ row.status \in {"none", "queued"} => row.upstream = None
    /\ row.status = "running" => row.upstream # None
    /\ IF row.status \in Decisions
       THEN Len(row.answers) = 1 /\ row.answers[1].status = row.status
       ELSE row.answers = << >>

\* What a job may be trusted with: the row it read was good, and it observes an
\* execution, or ends a run, only when it has one and knows how.
GoodJob(jb) ==
    /\ jb \in Job
    /\ GoodRow(jb.seen)
    /\ jb.pc \in {"probe", "expire", "stopProbe", "stopPost", "finishBound"} => jb.seen.upstream \in Keys
    /\ jb.pc = "finish" => jb.verdict \in Decisions
    /\ jb.pc = "finishBound" => jb.verdict \in {"completed", "failed"}
    /\ jb.pc \in {"lookup", "resubmit"} => jb.tries < MaxResubmits

\* How a row may move, as its user sees it.
Same(a, b)    == b.status = a.status /\ b.upstream = a.upstream /\ b.answers = a.answers
Begun(a, b)   == /\ a.status = "none" /\ b.status = "queued"
                 /\ b.upstream = a.upstream /\ b.answers = a.answers
Bound(a, b)   == /\ a.status \in {"queued", "stopping"} /\ a.upstream = None
                 /\ b.status = (IF a.status = "queued" THEN "running" ELSE a.status)
                 /\ b.upstream \in Keys /\ b.answers = a.answers
Asked(a, b)   == /\ a.status \in Active /\ b.status = "stopping"
                 /\ b.upstream = a.upstream /\ b.answers = a.answers
Concluded(a, b) ==
    /\ a.status \in Active
    /\ b.status \in Decisions
    /\ b.upstream = a.upstream
    /\ \E source \in Keys \cup {Batch, None} :
          /\ b.answers = Append(a.answers, [status |-> b.status, from |-> source])
          /\ IF b.status = "completed" THEN source \in {a.upstream, Batch} \ {None}
                                       ELSE source = None
Removed(a, b) == /\ a.status # "none" /\ b.status = "deleted"
                 /\ b.upstream = None /\ b.answers = << >>

-----------------------------------------------------------------------------
(* The transactions of the store, one row at a time.                       *)

LEMMA CountedInRange ==
    ASSUME NEW n \in 0 .. MaxAttempts
    PROVE  Counted(n) \in 0 .. MaxAttempts
  BY LimitsAssumption DEF Counted

LEMMA RowsAtRest ==
    /\ GoodRow(NoRow)
    /\ GoodRow(QueuedRow)
    /\ GoodRow([NoRow EXCEPT !.status = "deleted"])
<1>1. 0 \in 0 .. MaxAttempts
  BY LimitsAssumption
<1>2. << >> \in Seq([status : Decisions, from : Keys \cup {Batch, None}])
  OBVIOUS
<1>3. NoRow \in Row
  BY <1>1, <1>2 DEF NoRow, Row
<1>4. QueuedRow \in Row /\ [NoRow EXCEPT !.status = "deleted"] \in Row
  BY <1>3 DEF NoRow, QueuedRow, Row, Active
<1>5. QED
  BY <1>3, <1>4 DEF GoodRow, NoRow, QueuedRow, Active, Decisions

LEMMA ClaimedRow ==
    ASSUME NEW row, GoodRow(row), row.status \in Active, NEW p \in Reconcilers
    PROVE  GoodRow(Claimed(row, p)) /\ Same(row, Claimed(row, p)) /\ Claimed(row, p).status \in Active
  BY DEF GoodRow, Claimed, Same, Row, Active, Decisions

LEMMA ReleasedRow ==
    ASSUME NEW row, GoodRow(row)
    PROVE  GoodRow(Released(row)) /\ Same(row, Released(row))
  BY DEF GoodRow, Released, Same, Row, Active, Decisions

LEMMA StoppedRow ==
    ASSUME NEW row, GoodRow(row), row.status \in Active
    PROVE  GoodRow(Stopped(row)) /\ Asked(row, Stopped(row))
<1>1. Counted(row.stops) \in 0 .. MaxAttempts
  BY CountedInRange DEF GoodRow, Row
<1>2. QED
  BY <1>1 DEF GoodRow, Stopped, Asked, Row, Active, Decisions

LEMMA DispatchedRow ==
    ASSUME NEW row, GoodRow(row), row.status \in Active, NEW key \in Keys, row.upstream \in {None, key}
    PROVE  /\ GoodRow(Dispatched(row, key))
           /\ Same(row, Dispatched(row, key)) \/ Bound(row, Dispatched(row, key))
<1>1. None \notin Keys
  BY NoneAssumption
<1>2. GoodRow(Dispatched(row, key))
  BY <1>1 DEF GoodRow, Dispatched, Row, Active, Decisions
<1>3. CASE row.upstream = None
  BY <1>1, <1>3 DEF GoodRow, Dispatched, Bound, Row, Active, Decisions
<1>4. CASE row.upstream = key
  BY <1>1, <1>4 DEF GoodRow, Dispatched, Same, Row, Active, Decisions
<1>5. QED
  BY <1>2, <1>3, <1>4

LEMMA FinishedRow ==
    ASSUME NEW row, GoodRow(row), row.status \in Active,
           NEW decision \in Decisions, NEW source \in Keys \cup {Batch, None},
           IF decision = "completed" THEN source \in {row.upstream, Batch} \ {None} ELSE source = None
    PROVE  GoodRow(Finished(row, decision, source)) /\ Concluded(row, Finished(row, decision, source))
<1> DEFINE answer == [status |-> decision, from |-> source]
           ended  == Finished(row, decision, source)
<1>1. row \in Row /\ row.answers = << >> /\ decision \notin Active
  BY DEF GoodRow, Active, Decisions
<1>2. answer \in [status : Decisions, from : Keys \cup {Batch, None}]
  OBVIOUS
<1>3. Append(row.answers, answer) = <<answer>>
  BY <1>1
<1>4. ended = [row EXCEPT !.status = decision, !.owner = None, !.live = FALSE, !.answers = <<answer>>]
  BY <1>3 DEF Finished
<1>5. <<answer>> \in Seq([status : Decisions, from : Keys \cup {Batch, None}])
  BY <1>2
<1>6. ended \in Row
  BY <1>1, <1>4, <1>5 DEF Row
<1>7. /\ ended.status = decision /\ ended.owner = None /\ ended.live = FALSE
      /\ ended.upstream = row.upstream /\ ended.answers = <<answer>>
  BY <1>1, <1>4 DEF Row
<1>8. Len(ended.answers) = 1 /\ ended.answers[1].status = decision
  BY <1>7
<1>9. GoodRow(ended)
  BY <1>1, <1>6, <1>7, <1>8 DEF GoodRow, Active, Decisions
<1>10. Concluded(row, ended)
  BY <1>3, <1>7 DEF Concluded
<1>11. QED
  BY <1>9, <1>10

\* The three fences of finishChatRun.
LEMMA FinishedRows ==
    ASSUME NEW row, GoodRow(row)
    PROVE  /\ \A decision \in Decisions \ {"completed"} :
                LET new == FinishedUnfenced(row, decision)
                IN  GoodRow(new) /\ (Same(row, new) \/ Concluded(row, new))
           /\ \A p \in Reconcilers, decision \in Decisions :
                LET new == FinishedByOwner(row, p, decision, IF decision = "completed" THEN Batch ELSE None)
                IN  GoodRow(new) /\ (Same(row, new) \/ Concluded(row, new))
           /\ \A key \in Keys, decision \in Decisions :
                LET new == FinishedByExecution(row, key, decision)
                IN  GoodRow(new) /\ (Same(row, new) \/ Concluded(row, new))
<1>1. None \notin Keys \cup {Batch}
  BY NoneAssumption
<1>2. Same(row, row)
  BY DEF Same
<1>3. ASSUME NEW decision \in Decisions \ {"completed"}
      PROVE  LET new == FinishedUnfenced(row, decision)
             IN  GoodRow(new) /\ (Same(row, new) \/ Concluded(row, new))
  BY <1>2, FinishedRow DEF FinishedUnfenced
<1>4. ASSUME NEW p \in Reconcilers, NEW decision \in Decisions
      PROVE  LET new == FinishedByOwner(row, p, decision, IF decision = "completed" THEN Batch ELSE None)
             IN  GoodRow(new) /\ (Same(row, new) \/ Concluded(row, new))
  <2> DEFINE source == IF decision = "completed" THEN Batch ELSE None
  <2>1. CASE row.status \in Active /\ Holds(row, p)
    <3>1. GoodRow(Finished(row, decision, source)) /\ Concluded(row, Finished(row, decision, source))
      BY <1>1, <2>1, FinishedRow
    <3>2. QED
      BY <2>1, <3>1 DEF FinishedByOwner
  <2>2. CASE ~(row.status \in Active /\ Holds(row, p))
    BY <1>2, <2>2 DEF FinishedByOwner
  <2>3. QED
    BY <2>1, <2>2
<1>5. ASSUME NEW key \in Keys, NEW decision \in Decisions
      PROVE  LET new == FinishedByExecution(row, key, decision)
             IN  GoodRow(new) /\ (Same(row, new) \/ Concluded(row, new))
  <2> DEFINE source == IF decision = "completed" THEN key ELSE None
  <2>1. CASE row.status \in {"running", "stopping"} /\ row.upstream = key
    <3>1. GoodRow(Finished(row, decision, source)) /\ Concluded(row, Finished(row, decision, source))
      BY <1>1, <2>1, FinishedRow DEF Active
    <3>2. QED
      BY <2>1, <3>1 DEF FinishedByExecution
  <2>2. CASE ~(row.status \in {"running", "stopping"} /\ row.upstream = key)
    BY <1>2, <2>2 DEF FinishedByExecution
  <2>3. QED
    BY <2>1, <2>2
<1>6. QED
  BY <1>3, <1>4, <1>5

LEMMA CountedRows ==
    ASSUME NEW row, GoodRow(row), NEW seen, GoodRow(seen)
    PROVE  /\ GoodRow(AttemptCounted(row, seen)) /\ Same(row, AttemptCounted(row, seen))
           /\ GoodRow(StopCounted(row, seen)) /\ Same(row, StopCounted(row, seen))
           /\ GoodRow([row EXCEPT !.accepted = TRUE]) /\ Same(row, [row EXCEPT !.accepted = TRUE])
           /\ GoodRow([row EXCEPT !.stopAged = TRUE]) /\ Same(row, [row EXCEPT !.stopAged = TRUE])
<1>1. /\ Counted(seen.attempts) \in 0 .. MaxAttempts
      /\ Counted(IF seen.accepted THEN 0 ELSE seen.stops) \in 0 .. MaxAttempts
  <2>1. seen.attempts \in 0 .. MaxAttempts /\ seen.stops \in 0 .. MaxAttempts
    BY DEF GoodRow, Row
  <2>2. 0 \in 0 .. MaxAttempts
    BY LimitsAssumption
  <2>3. QED
    BY <2>1, <2>2, CountedInRange
<1>2. QED
  BY <1>1 DEF GoodRow, AttemptCounted, StopCounted, Same, Row, Active, Decisions

-----------------------------------------------------------------------------
(* The invariant, and what one step does to the rows.                      *)

GoodRows == run \in [Runs -> Row] /\ \A r \in Runs : GoodRow(run[r])
GoodJobs == job \in [Jobs -> Job] /\ \A j \in Jobs : GoodJob(job[j])

UpStates == Endings \cup {"absent", "active", "halting", "cancelled", "gone"}

GoodWorld ==
    /\ streams \subseteq Reconcilers \X Runs \X Keys
    /\ up \in [Runs -> [Keys -> UpStates]]
    /\ posts \subseteq Runs \X Keys
    /\ stale \subseteq Runs
    /\ started \subseteq Reconcilers
    /\ alive \subseteq Reconcilers
    /\ overdue \subseteq Runs
    /\ clicks \in 0 .. MaxClicks
    /\ stalls \in 0 .. MaxStalls

\* The inductive invariant.  TypeOK alone is not inductive: that a job may end a
\* run or observe an execution rests on what it read, and that an answer is the
\* first one rests on finished rows having no owner.
Inv == GoodRows /\ GoodJobs /\ GoodWorld /\ OneActivePerInstance

Moved(r) ==
    \/ Accepts(r) /\ Begun(run[r], run'[r])
    \/ Bound(run[r], run'[r])
    \/ Asked(run[r], run'[r])
    \/ Concluded(run[r], run'[r])
    \/ Removed(run[r], run'[r])

\* Every row stays good, and at most one moves.
RowsMove ==
    /\ GoodRows'
    /\ \/ \A s \in Runs : Same(run[s], run'[s])
       \/ \E r \in Runs : Moved(r) /\ \A s \in Runs \ {r} : Same(run[s], run'[s])

Step == RowsMove /\ GoodJobs' /\ GoodWorld'

LEMMA RowsStay ==
    ASSUME GoodRows, UNCHANGED run
    PROVE  RowsMove
  BY DEF GoodRows, RowsMove, Same

LEMMA OneRowMoves ==
    ASSUME GoodRows, NEW r \in Runs, NEW row, GoodRow(row), run' = [run EXCEPT ![r] = row],
           \/ Same(run[r], row)
           \/ Accepts(r) /\ Begun(run[r], row)
           \/ Bound(run[r], row)
           \/ Asked(run[r], row)
           \/ Concluded(run[r], row)
           \/ Removed(run[r], row)
    PROVE  RowsMove
<1>1. run'[r] = row /\ \A s \in Runs \ {r} : run'[s] = run[s]
  BY DEF GoodRows
<1>2. row \in Row
  BY DEF GoodRow
<1>3. GoodRows'
  BY <1>1, <1>2 DEF GoodRows
<1>4. \A s \in Runs \ {r} : Same(run[s], run'[s])
  BY <1>1 DEF Same
<1>5. CASE Same(run[r], row)
  BY <1>1, <1>3, <1>4, <1>5 DEF RowsMove
<1>6. CASE ~Same(run[r], row)
  <2>1. Moved(r)
    BY <1>1, <1>6 DEF Moved
  <2>2. QED
    BY <1>3, <1>4, <2>1 DEF RowsMove
<1>7. QED
  BY <1>5, <1>6

-----------------------------------------------------------------------------
(* What a job becomes.                                                     *)

LEMMA JobParts ==
    ASSUME NEW j \in Jobs
    PROVE  Proc(j) \in Reconcilers /\ RunOf(j) \in Runs
  BY DEF Jobs, Proc, RunOf

LEMMA IdleIsGood == GoodJob(IdleJob) /\ IdleJob \in Job
<1>1. GoodRow(NoRow) /\ NoRow \in Row /\ 0 \in 0 .. MaxResubmits
  BY RowsAtRest, LimitsAssumption DEF GoodRow
<1>2. IdleJob \in Job
  BY <1>1 DEF IdleJob, Job, Waiting, Working
<1>3. QED
  BY <1>1, <1>2 DEF GoodJob, IdleJob

LEMMA OneJob ==
    ASSUME GoodJobs, NEW j \in Jobs, NEW jb, GoodJob(jb), job' = [job EXCEPT ![j] = jb]
    PROVE  GoodJobs'
<1>1. jb \in Job
  BY DEF GoodJob
<1>2. QED
  BY <1>1 DEF GoodJobs

\* The program counters that promise nothing.
Plain == (Waiting \cup Working) \ {"probe", "expire", "stopProbe", "stopPost", "finish",
                                   "finishBound", "lookup", "resubmit"}

LEMMA JobGoes ==
    ASSUME GoodJobs, NEW j \in Jobs, NEW pc, Goes(j, pc),
           \/ pc \in Plain
           \/ pc \in {"probe", "expire", "stopProbe", "stopPost"} /\ job[j].seen.upstream \in Keys
           \/ pc \in {"lookup", "resubmit"} /\ job[j].tries < MaxResubmits
    PROVE  GoodJobs'
<1> DEFINE jb == [job[j] EXCEPT !.pc = pc]
<1>1. job[j] \in Job /\ GoodJob(job[j])
  BY DEF GoodJobs
<1>2. GoodJob(jb)
  BY <1>1 DEF GoodJob, Job, Plain, Waiting, Working
<1>3. job' = [job EXCEPT ![j] = jb]
  BY DEF Goes
<1>4. QED
  BY <1>2, <1>3, OneJob

LEMMA JobEnds ==
    ASSUME GoodJobs, NEW j \in Jobs, Ends(j) \/ Loses(j)
    PROVE  GoodJobs'
<1>1. PICK lost \in BOOLEAN :
          job' = [job EXCEPT ![j] = [IdleJob EXCEPT !.pc = "release", !.lost = lost]]
  BY DEF Ends, Loses, GoodJobs, Job
<1>2. GoodJob([IdleJob EXCEPT !.pc = "release", !.lost = lost])
  BY IdleIsGood DEF GoodJob, IdleJob, Job, Working
<1>3. QED
  BY <1>1, <1>2, OneJob

LEMMA JobDecides ==
    ASSUME GoodJobs, NEW j \in Jobs, NEW d \in Decisions, Decides(j, d)
    PROVE  GoodJobs'
<1> DEFINE jb == [IdleJob EXCEPT !.pc = "finish", !.lost = job[j].lost, !.verdict = d]
<1>1. job[j].lost \in BOOLEAN
  BY DEF GoodJobs, Job
<1>2. GoodJob(jb)
  BY <1>1, IdleIsGood DEF GoodJob, IdleJob, Job, Working
<1>3. job' = [job EXCEPT ![j] = jb]
  BY DEF Decides
<1>4. QED
  BY <1>2, <1>3, OneJob

LEMMA JobDecidesBound ==
    ASSUME GoodJobs, NEW j \in Jobs, NEW d \in {"completed", "failed"}, DecidesBound(j, d),
           job[j].seen.upstream \in Keys
    PROVE  GoodJobs'
<1> DEFINE jb == [job[j] EXCEPT !.pc = "finishBound", !.verdict = d]
<1>1. job[j] \in Job /\ GoodJob(job[j])
  BY DEF GoodJobs
<1>2. GoodJob(jb)
  BY <1>1 DEF GoodJob, Job, Working, Decisions
<1>3. job' = [job EXCEPT ![j] = jb]
  BY DEF DecidesBound
<1>4. QED
  BY <1>2, <1>3, OneJob

LEMMA JobStays ==
    ASSUME GoodJobs, UNCHANGED job
    PROVE  GoodJobs'
  BY DEF GoodJobs

LEMMA WorldStays ==
    ASSUME GoodWorld, UNCHANGED <<streams, runtime, world>>
    PROVE  GoodWorld'
  BY DEF GoodWorld, runtime, world

LEMMA OnlyJobsMove ==
    ASSUME Inv, UNCHANGED run, GoodJobs', GoodWorld'
    PROVE  Step
  BY RowsStay DEF Inv, Step

LEMMA WritesRow ==
    ASSUME GoodRows, NEW j \in Jobs, NEW row, GoodRow(row), Writes(j, row),
           \/ Same(RowOf(j), row)
           \/ Bound(RowOf(j), row)
           \/ Concluded(RowOf(j), row)
    PROVE  RowsMove
<1>1. RunOf(j) \in Runs
  BY JobParts
<1>2. QED
  BY <1>1, OneRowMoves DEF Writes, RowOf

LEMMA WritesOwnedStep ==
    ASSUME GoodRows, GoodJobs, NEW j \in Jobs, NEW row, GoodRow(row), Same(RowOf(j), row), NEW pc,
           pc \in Plain \/ (pc = "stopPost" /\ job[j].seen.upstream \in Keys),
           WritesOwned(j, row, pc)
    PROVE  RowsMove /\ GoodJobs'
<1>1. CASE Writes(j, row) /\ Goes(j, pc)
  BY <1>1, WritesRow, JobGoes
<1>2. CASE Loses(j) /\ UNCHANGED run
  BY <1>2, RowsStay, JobEnds
<1>3. QED
  BY <1>1, <1>2 DEF WritesOwned

\* An owner is on the row of a run at work only.
LEMMA FreshIsActive ==
    ASSUME GoodRows, NEW j \in Jobs, Fresh(j)
    PROVE  GoodRow(RowOf(j)) /\ RowOf(j).status \in Active
<1>1. GoodRow(RowOf(j)) /\ Proc(j) # None
  BY JobParts, NoneAssumption DEF GoodRows, RowOf
<1>2. QED
  BY <1>1 DEF Fresh, Holds, GoodRow

LEMMA RecordsStep ==
    ASSUME GoodRows, GoodJobs, GoodWorld, NEW j \in Jobs, NEW key \in Keys, Records(j, key)
    PROVE  RowsMove /\ GoodJobs' /\ streams' \subseteq Reconcilers \X Runs \X Keys
<1>1. <<Proc(j), RunOf(j), key>> \in Reconcilers \X Runs \X Keys
      /\ streams \subseteq Reconcilers \X Runs \X Keys
  BY JobParts DEF GoodWorld
<1>2. CASE /\ Fresh(j) /\ RowOf(j).upstream \in {None, key}
           /\ Writes(j, Dispatched(RowOf(j), key))
           /\ streams' = IF RowOf(j).status = "stopping" THEN streams
                         ELSE streams \cup {<<Proc(j), RunOf(j), key>>}
           /\ Ends(j)
  BY <1>1, <1>2, FreshIsActive, DispatchedRow, WritesRow, JobEnds
<1>3. CASE Decides(j, "failed") /\ UNCHANGED <<run, streams>>
  BY <1>1, <1>3, RowsStay, JobDecides DEF Decisions
<1>4. CASE (Ends(j) \/ Loses(j)) /\ UNCHANGED <<run, streams>>
  BY <1>1, <1>4, RowsStay, JobEnds
<1>5. QED
  BY <1>2, <1>3, <1>4 DEF Records

LEMMA GivesUpStep ==
    ASSUME GoodJobs, NEW j \in Jobs, GivesUpDispatch(j)
    PROVE  GoodJobs'
<1>1. CASE Goes(j, "batch")
  BY <1>1, JobGoes DEF Plain, Waiting, Working
<1>2. CASE Decides(j, "failed")
  BY <1>2, JobDecides DEF Decisions
<1>3. CASE Ends(j)
  BY <1>3, JobEnds
<1>4. QED
  BY <1>1, <1>2, <1>3 DEF GivesUpDispatch

LEMMA ConvergesStep ==
    ASSUME GoodJobs, NEW j \in Jobs, job[j].seen.upstream \in Keys, Converges(j)
    PROVE  GoodJobs'
<1>1. CASE DecidesBound(j, "completed") \/ DecidesBound(j, "failed")
  BY <1>1, JobDecidesBound
<1>2. CASE Ends(j)
  BY <1>2, JobEnds
<1>3. CASE Observed(j) \in {"failed", "cancelled"} /\ Decides(j, Observed(j))
  BY <1>3, JobDecides DEF Decisions
<1>4. QED
  BY <1>1, <1>2, <1>3 DEF Converges

LEMMA HaltsStep ==
    ASSUME GoodWorld, NEW j \in Jobs, NEW states, states \subseteq UpStates, Halts(j, states),
           UNCHANGED <<streams, posts, stale, world>>
    PROVE  GoodWorld'
<1> DEFINE r   == RunOf(j)
           key == job[j].seen.upstream
<1>1. up \in [Runs -> [Keys -> UpStates]]
  BY DEF GoodWorld
<1>2. PICK s \in UpStates :
          up' = [up EXCEPT ![r][key] = IF up[r][key] \in {"active", "halting"} THEN s ELSE up[r][key]]
  BY DEF Halts
<1>3. up' \in [Runs -> [Keys -> UpStates]]
  BY <1>1, <1>2
<1>4. QED
  BY <1>3 DEF GoodWorld, world

\* The kinds of GoodJob, by the program counter of the job.
LEMMA JobFacts ==
    ASSUME GoodJobs, NEW j \in Jobs
    PROVE  /\ job[j] \in Job /\ GoodRow(job[j].seen)
           /\ job[j].pc \in {"probe", "expire", "stopProbe", "stopPost", "finishBound"}
                  => job[j].seen.upstream \in Keys
           /\ job[j].pc = "finish" => job[j].verdict \in Decisions
           /\ job[j].pc = "finishBound" => job[j].verdict \in {"completed", "failed"}
           /\ job[j].pc \in {"lookup", "resubmit"} => job[j].tries < MaxResubmits
  BY DEF GoodJobs, GoodJob

-----------------------------------------------------------------------------
(* Every action of a job leaves every row good and moves at most one.      *)

LEMMA DispatchStep ==
    ASSUME Inv, NEW j \in Jobs, Dispatch(j)
    PROVE  Step
<1> USE DEF Inv
<1>1. /\ RunOf(j) \in Runs /\ GoodRow(RowOf(j)) /\ GoodRow(job[j].seen)
      /\ \A key \in Keys : <<RunOf(j), key>> \in Runs \X Keys
  BY JobParts, JobFacts DEF GoodRows, RowOf
<1>2. "main" \in Keys /\ "rebind" \in Keys
  BY DEF Keys
<1>3. {"prepare", "search", "batch", "batched", "snapshot", "posted", "rebind", "rebound", "record"}
          \subseteq Plain
  BY DEF Plain, Waiting, Working
<1>4. CASE BeginDispatch(j)
  <2> DEFINE row == AttemptCounted(RowOf(j), job[j].seen)
             pc  == IF job[j].seen.attempts = 0 THEN "prepare" ELSE "search"
  <2>1. GoodRow(row) /\ Same(RowOf(j), row)
    BY <1>1, CountedRows
  <2>2. pc \in Plain /\ WritesOwned(j, row, pc)
    BY <1>3, <1>4 DEF BeginDispatch
  <2>3. RowsMove /\ GoodJobs'
    BY <2>1, <2>2, WritesOwnedStep
  <2>4. QED
    BY <1>4, <2>3, WorldStays DEF BeginDispatch, Step
<1>5. CASE Search(j)
  <2>1. CASE Records(j, "main") /\ UNCHANGED <<runtime, world>>
    BY <1>2, <2>1, RecordsStep DEF Step, GoodWorld, runtime, world
  <2>2. CASE Goes(j, "prepare") /\ UNCHANGED <<run, streams, runtime, world>>
    BY <1>3, <2>2, JobGoes, WorldStays, OnlyJobsMove
  <2>3. QED
    BY <1>5, <2>1, <2>2 DEF Search
<1>6. CASE Prepare(j)
  <2>1. GoodJobs'
    <3>1. CASE job' = [job EXCEPT ![j].pc = "check", ![j].stale = RunOf(j) \in stale]
      <4> DEFINE old == RunOf(j) \in stale
      <4>1. old \in BOOLEAN /\ job' = [job EXCEPT ![j].pc = "check", ![j].stale = old]
        BY <3>1
      <4> HIDE DEF old
      <4> DEFINE jb == [job[j] EXCEPT !.pc = "check", !.stale = old]
      <4>2. GoodJob(jb)
        BY <4>1, JobFacts DEF GoodJob, Job, Working
      <4>3. job' = [job EXCEPT ![j] = jb]
        BY <4>1
      <4>4. QED
        BY <4>2, <4>3, OneJob
    <3>2. CASE Goes(j, "batch")
      BY <1>3, <3>2, JobGoes
    <3>3. QED
      BY <1>6, <3>1, <3>2 DEF Prepare
  <2>2. QED
    BY <1>6, <2>1, WorldStays, OnlyJobsMove DEF Prepare
<1>7. CASE CheckDispatch(j)
  <2>1. Ends(j) \/ Loses(j) \/ Decides(j, "cancelled") \/ Goes(j, "snapshot")
    BY <1>7 DEF CheckDispatch
  <2>2. GoodJobs'
    BY <1>3, <2>1, JobEnds, JobDecides, JobGoes DEF Decisions
  <2>3. QED
    BY <1>7, <2>2, WorldStays, OnlyJobsMove DEF CheckDispatch
<1>8. CASE SubmitRun(j)
  <2>1. GoodJobs'
    BY <1>3, <1>8, JobGoes, JobEnds DEF SubmitRun
  <2>2. GoodWorld'
    BY <1>1, <1>2, <1>8 DEF SubmitRun, Posts, GoodWorld, world
  <2>3. QED
    BY <1>8, <2>1, <2>2, OnlyJobsMove DEF SubmitRun
<1>9. CASE Resubmit(j)
  <2> DEFINE jb == [job[j] EXCEPT !.pc = "posted", !.tries = @ + 1]
  <2>1. job[j].tries < MaxResubmits /\ job[j].tries \in 0 .. MaxResubmits /\ job[j] \in Job
    BY <1>9, JobFacts DEF Resubmit, At, Job
  <2>2. job[j].tries + 1 \in 0 .. MaxResubmits
    BY <2>1, LimitsAssumption
  <2>3. GoodJob(jb)
    BY <2>1, <2>2, JobFacts DEF GoodJob, Job, Working
  <2>4. GoodJobs'
    BY <1>9, <2>3, OneJob DEF Resubmit
  <2>5. GoodWorld'
    BY <1>1, <1>2, <1>9 DEF Resubmit, Posts, GoodWorld, world
  <2>6. QED
    BY <1>9, <2>4, <2>5, OnlyJobsMove DEF Resubmit
<1>10. CASE SubmitAnswered(j)
  BY <1>2, <1>10, RecordsStep DEF SubmitAnswered, Step, GoodWorld, runtime, world
<1>11. CASE SubmitMalformed(j)
  <2>1. GoodJobs'
    BY <1>11, JobEnds, JobDecides DEF SubmitMalformed, Misnamed, Decisions
  <2>2. QED
    BY <1>11, <2>1, WorldStays, OnlyJobsMove DEF SubmitMalformed
<1>12. CASE SubmitTransient(j)
  <2>1. GoodJobs'
    BY <1>12, JobGoes, GivesUpStep DEF SubmitTransient
  <2>2. QED
    BY <1>12, <2>1, WorldStays, OnlyJobsMove DEF SubmitTransient
<1>13. CASE SubmitRejected(j)
  <2>1. GoodJobs'
    BY <1>13, GivesUpStep DEF SubmitRejected
  <2>2. GoodWorld'
    BY <1>13 DEF SubmitRejected, GoodWorld, world
  <2>3. QED
    BY <1>13, <2>1, <2>2, OnlyJobsMove DEF SubmitRejected
<1>14. CASE SubmitStale(j)
  BY <1>3, <1>14, JobGoes, WorldStays, OnlyJobsMove DEF SubmitStale
<1>15. CASE Lookup(j)
  <2>1. CASE Records(j, "main") /\ UNCHANGED <<runtime, world>>
    BY <1>2, <2>1, RecordsStep DEF Step, GoodWorld, runtime, world
  <2>2. CASE Goes(j, "resubmit") /\ UNCHANGED <<run, streams, runtime, world>>
    <3>1. job[j].tries < MaxResubmits
      BY <1>15, JobFacts DEF Lookup, At
    <3>2. QED
      BY <2>2, <3>1, JobGoes, WorldStays, OnlyJobsMove
  <2>3. CASE GivesUpDispatch(j) /\ UNCHANGED <<run, streams, runtime, world>>
    BY <2>3, GivesUpStep, WorldStays, OnlyJobsMove
  <2>4. QED
    BY <1>15, <2>1, <2>2, <2>3 DEF Lookup
<1>16. CASE Rebind(j)
  <2>1. GoodJobs'
    BY <1>3, <1>16, JobGoes, JobDecides DEF Rebind, Decisions
  <2>2. GoodWorld'
    BY <1>1, <1>2, <1>16 DEF Rebind, Posts, GoodWorld, world
  <2>3. QED
    BY <1>16, <2>1, <2>2, OnlyJobsMove DEF Rebind
<1>17. CASE RebindAnswered(j)
  <2>1. GoodJobs'
    BY <1>3, <1>17, JobGoes, JobEnds, JobDecides DEF RebindAnswered, Misnamed, Decisions
  <2>2. GoodWorld'
    BY <1>17 DEF RebindAnswered, GoodWorld, world
  <2>3. QED
    BY <1>17, <2>1, <2>2, OnlyJobsMove DEF RebindAnswered
<1>18. CASE RebindFailed(j)
  BY <1>18, GivesUpStep, WorldStays, OnlyJobsMove DEF RebindFailed
<1>19. CASE RecordRebound(j)
  BY <1>2, <1>19, RecordsStep DEF RecordRebound, Step, GoodWorld, runtime, world
<1>20. CASE BatchPost(j)
  BY <1>3, <1>20, JobGoes, WorldStays, OnlyJobsMove DEF BatchPost
<1>21. CASE BatchAnswered(j)
  <2>1. GoodJobs'
    BY <1>21, JobDecides DEF BatchAnswered, Decisions
  <2>2. QED
    BY <1>21, <2>1, WorldStays, OnlyJobsMove DEF BatchAnswered
<1>22. QED
  BY <1>4, <1>5, <1>6, <1>7, <1>8, <1>9, <1>10, <1>11, <1>12, <1>13, <1>14, <1>15, <1>16,
     <1>17, <1>18, <1>19, <1>20, <1>21 DEF Dispatch

LEMMA ObserveStep ==
    ASSUME Inv, NEW j \in Jobs, Observe(j)
    PROVE  Step
<1> USE DEF Inv
<1>1. "failed" \in Decisions /\ "expired" \in Decisions
  BY DEF Decisions
<1>2. CASE BeginProbe(j)
  <2>1. job[j].seen.upstream \in Keys
    BY <1>2, JobFacts DEF BeginProbe, GoodRow, Row
  <2>2. GoodJobs'
    BY <1>2, <2>1, JobGoes DEF BeginProbe
  <2>3. GoodWorld'
    BY <1>2, <2>1, JobParts DEF BeginProbe, GoodWorld, runtime, world
  <2>4. QED
    BY <1>2, <2>2, <2>3, OnlyJobsMove DEF BeginProbe
<1>3. CASE Probe(j)
  <2>1. job[j].seen.upstream \in Keys
    BY <1>3, JobFacts DEF Probe, At
  <2>2. Loses(j) \/ Converges(j) \/ Ends(j) \/ Goes(j, "batch") \/ Decides(j, "failed")
    BY <1>3 DEF Probe
  <2>3. GoodJobs'
    BY <1>1, <2>1, <2>2, ConvergesStep, JobEnds, JobDecides, JobGoes DEF Plain, Waiting, Working
  <2>4. QED
    BY <1>3, <2>3, WorldStays, OnlyJobsMove DEF Probe
<1>4. CASE ProbeUnanswered(j)
  <2>1. GoodJobs'
    BY <1>1, <1>4, JobEnds, JobDecides DEF ProbeUnanswered
  <2>2. QED
    BY <1>4, <2>1, WorldStays, OnlyJobsMove DEF ProbeUnanswered
<1>5. CASE Expire(j)
  <2>1. GoodJobs'
    BY <1>1, <1>5, JobDecides DEF Expire
  <2>2. GoodWorld'
    BY <1>5, HaltsStep DEF Expire, UpStates
  <2>3. QED
    BY <1>5, <2>1, <2>2, OnlyJobsMove DEF Expire
<1>6. QED
  BY <1>2, <1>3, <1>4, <1>5 DEF Observe

LEMMA RecoverStopStep ==
    ASSUME Inv, NEW j \in Jobs, RecoverStop(j)
    PROVE  Step
<1> USE DEF Inv
<1>1. GoodRow(RowOf(j)) /\ GoodRow(job[j].seen)
  BY JobParts, JobFacts DEF GoodRows, RowOf
<1>2. "failed" \in Decisions /\ "cancelled" \in Decisions /\ "main" \in Keys
      /\ "stopSearch" \in Plain /\ "release" \in Plain
  BY DEF Decisions, Keys, Plain, Waiting, Working
<1>9. GoodRow(StopCounted(RowOf(j), job[j].seen)) /\ Same(RowOf(j), StopCounted(RowOf(j), job[j].seen))
  BY <1>1, CountedRows
<1>3. CASE BeginStopRecovery(j)
  <2>1. CASE job[j].seen.upstream # None /\ Goes(j, "stopProbe")
    <3>1. job[j].seen.upstream \in Keys
      BY <1>1, <2>1 DEF GoodRow, Row
    <3>2. QED
      BY <1>3, <2>1, <3>1, JobGoes, WorldStays, OnlyJobsMove DEF BeginStopRecovery
  <2>2. CASE Decides(j, "cancelled") \/ Goes(j, "stopSearch")
    <3>1. GoodJobs'
      BY <1>2, <2>2, JobDecides, JobGoes
    <3>2. QED
      BY <1>3, <3>1, WorldStays, OnlyJobsMove DEF BeginStopRecovery
  <2>3. QED
    BY <1>3, <2>1, <2>2 DEF BeginStopRecovery
<1>4. CASE StopSearch(j)
  <2>1. CASE /\ Fresh(j) /\ RowOf(j).upstream \in {None, "main"}
             /\ Writes(j, Dispatched(RowOf(j), "main"))
             /\ Ends(j)
    BY <1>2, <2>1, FreshIsActive, DispatchedRow, WritesRow, JobEnds, <1>4, WorldStays DEF StopSearch, Step
  <2>2. CASE Decides(j, "failed") /\ UNCHANGED run
    BY <1>2, <1>4, <2>2, JobDecides, WorldStays, OnlyJobsMove DEF StopSearch
  <2>3. CASE WritesOwned(j, StopCounted(RowOf(j), job[j].seen), "release")
    <3>1. RowsMove /\ GoodJobs'
      BY <1>2, <1>9, <2>3, WritesOwnedStep
    <3>2. QED
      BY <1>4, <3>1, WorldStays DEF StopSearch, Step
  <2>4. QED
    BY <1>4, <2>1, <2>2, <2>3 DEF StopSearch
<1>5. CASE StopProbe(j)
  <2>1. job[j].seen.upstream \in Keys
    BY <1>5, JobFacts DEF StopProbe, At
  <2>2. CASE (Converges(j) \/ Decides(j, "failed") \/ Ends(j)) /\ UNCHANGED run
    <3>1. GoodJobs'
      BY <1>2, <2>1, <2>2, ConvergesStep, JobDecides, JobEnds
    <3>2. QED
      BY <1>5, <2>2, <3>1, WorldStays, OnlyJobsMove DEF StopProbe
  <2>3. CASE \E pc \in {"release", "stopPost"} : WritesOwned(j, StopCounted(RowOf(j), job[j].seen), pc)
    <3>1. PICK pc \in {"release", "stopPost"} : WritesOwned(j, StopCounted(RowOf(j), job[j].seen), pc)
      BY <2>3
    <3>2. RowsMove /\ GoodJobs'
      BY <1>2, <1>9, <2>1, <3>1, WritesOwnedStep
    <3>3. QED
      BY <1>5, <3>2, WorldStays DEF StopProbe, Step
  <2>4. QED
    BY <1>5, <2>2, <2>3 DEF StopProbe
<1>6. CASE StopConfirmed(j)
  <2>1. GoodJobs'
    BY <1>2, <1>6, JobEnds, JobDecides DEF StopConfirmed
  <2>2. GoodWorld'
    BY <1>6, HaltsStep DEF StopConfirmed, UpStates
  <2>3. QED
    BY <1>6, <2>1, <2>2, OnlyJobsMove DEF StopConfirmed
<1>7. CASE StopAccepted(j)
  <2>1. RowsMove /\ GoodJobs'
    <3> DEFINE row == [RowOf(j) EXCEPT !.accepted = TRUE]
    <3>1. GoodRow(row) /\ Same(RowOf(j), row)
      BY <1>1, CountedRows
    <3>2. QED
      BY <1>2, <1>7, <3>1, WritesOwnedStep DEF StopAccepted
  <2>2. GoodWorld'
    BY <1>7, HaltsStep DEF StopAccepted, UpStates
  <2>3. QED
    BY <2>1, <2>2 DEF Step
<1>8. CASE StopUnanswered(j)
  <2>1. GoodJobs'
    BY <1>8, JobEnds DEF StopUnanswered
  <2>2. GoodWorld'
    BY <1>8, HaltsStep DEF StopUnanswered, UpStates
  <2>3. QED
    BY <1>8, <2>1, <2>2, OnlyJobsMove DEF StopUnanswered
<1>10. QED
  BY <1>3, <1>4, <1>5, <1>6, <1>7, <1>8 DEF RecoverStop

LEMMA WorkStep ==
    ASSUME Inv, NEW j \in Jobs, Work(j)
    PROVE  Step
<1> USE DEF Inv
<1>1. /\ RunOf(j) \in Runs /\ Proc(j) \in Reconcilers
      /\ GoodRow(RowOf(j)) /\ Same(RowOf(j), RowOf(j))
  BY JobParts DEF GoodRows, RowOf, Same
<1>2. "failed" \in Decisions \ {"completed"} /\ "idle" \in Plain /\ "wake" \in Plain
  BY DEF Decisions, Plain, Waiting, Working
<1>3. CASE Accept(j)
  <2>1. CASE Writes(j, FinishedUnfenced(RowOf(j), "failed")) /\ Goes(j, "idle")
    <3> DEFINE row == FinishedUnfenced(RowOf(j), "failed")
    <3>1. GoodRow(row) /\ (Same(RowOf(j), row) \/ Concluded(RowOf(j), row))
      BY <1>1, <1>2, FinishedRows
    <3>2. RowsMove /\ GoodJobs'
      BY <1>2, <2>1, <3>1, WritesRow, JobGoes
    <3>3. QED
      BY <1>3, <3>2, WorldStays DEF Accept, Step
  <2>2. CASE Goes(j, "wake") /\ UNCHANGED run
    BY <1>2, <1>3, <2>2, JobGoes, WorldStays, OnlyJobsMove DEF Accept
  <2>3. CASE /\ Writes(j, IF RowOf(j).owner = Proc(j) THEN Released(RowOf(j)) ELSE RowOf(j))
             /\ Goes(j, "idle")
    <3> DEFINE row == IF RowOf(j).owner = Proc(j) THEN Released(RowOf(j)) ELSE RowOf(j)
    <3>1. GoodRow(row) /\ Same(RowOf(j), row)
      BY <1>1, ReleasedRow
    <3>2. RowsMove /\ GoodJobs'
      BY <1>2, <2>3, <3>1, WritesRow, JobGoes
    <3>3. QED
      BY <1>3, <3>2, WorldStays DEF Accept, Step
  <2>4. QED
    BY <1>3, <2>1, <2>2, <2>3 DEF Accept
<1>4. CASE ClaimTargeted(j)
  <2> DEFINE row == Claimed(RowOf(j), Proc(j))
  <2>1. CASE RowOf(j).status \in Active /\ Writes(j, row) /\ job' = [job EXCEPT ![j] = Holding(row)]
    <3>1. GoodRow(row) /\ Same(RowOf(j), row)
      BY <1>1, <2>1, ClaimedRow
    <3>2. GoodJob(Holding(row))
      BY <3>1, IdleIsGood DEF GoodJob, Holding, IdleJob, GoodRow, Job, Working
    <3>3. RowsMove /\ GoodJobs'
      BY <2>1, <3>1, <3>2, WritesRow, OneJob
    <3>4. QED
      BY <1>4, <3>3, WorldStays DEF ClaimTargeted, Step
  <2>2. CASE Goes(j, "idle") /\ UNCHANGED run
    BY <1>2, <1>4, <2>2, JobGoes, WorldStays, OnlyJobsMove DEF ClaimTargeted
  <2>3. QED
    BY <1>4, <2>1, <2>2 DEF ClaimTargeted, Claimable
<1>5. CASE SkipLost(j)
  BY <1>5, JobEnds, WorldStays, OnlyJobsMove DEF SkipLost
<1>6. CASE Refuse(j)
  BY <1>2, <1>6, JobDecides, WorldStays, OnlyJobsMove DEF Refuse
<1>7. CASE Finish(j)
  <2> DEFINE row == FinishedByOwner(RowOf(j), Proc(j), job[j].verdict,
                        IF job[j].verdict = "completed" THEN Batch ELSE None)
  <2>1. job[j].verdict \in Decisions
    BY <1>7, JobFacts DEF Finish, At
  <2>2. GoodRow(row) /\ (Same(RowOf(j), row) \/ Concluded(RowOf(j), row))
    BY <1>1, <2>1, FinishedRows
  <2>3. Writes(j, row) /\ Ends(j)
    BY <1>7 DEF Finish
  <2>4. RowsMove /\ GoodJobs'
    BY <2>2, <2>3, WritesRow, JobEnds
  <2>5. QED
    BY <1>7, <2>4, WorldStays DEF Finish, Step
<1>8. CASE FinishBound(j)
  <2> DEFINE row == FinishedByExecution(RowOf(j), job[j].seen.upstream, job[j].verdict)
  <2>1. job[j].seen.upstream \in Keys /\ job[j].verdict \in Decisions
    BY <1>8, JobFacts DEF FinishBound, At, Decisions
  <2>2. GoodRow(row) /\ (Same(RowOf(j), row) \/ Concluded(RowOf(j), row))
    BY <1>1, <2>1, FinishedRows
  <2>3. Writes(j, row) /\ Ends(j)
    BY <1>8 DEF FinishBound
  <2>4. RowsMove /\ GoodJobs'
    BY <2>2, <2>3, WritesRow, JobEnds
  <2>5. QED
    BY <1>8, <2>4, WorldStays DEF FinishBound, Step
<1>9. CASE Release(j)
  <2> DEFINE row == IF ~job[j].lost /\ RowOf(j).owner = Proc(j) THEN Released(RowOf(j)) ELSE RowOf(j)
  <2>1. GoodRow(row) /\ Same(RowOf(j), row)
    BY <1>1, ReleasedRow
  <2>2. Writes(j, row) /\ job' = [job EXCEPT ![j] = IdleJob]
    BY <1>9 DEF Release
  <2>3. RowsMove /\ GoodJobs'
    BY <2>1, <2>2, IdleIsGood, WritesRow, OneJob
  <2>4. QED
    BY <1>9, <2>3, WorldStays DEF Release, Step
<1>10. QED
  BY <1>3, <1>4, <1>5, <1>6, <1>7, <1>8, <1>9, DispatchStep, ObserveStep, RecoverStopStep DEF Work

LEMMA RenewStep ==
    ASSUME Inv, NEW j \in Jobs, Renew(j)
    PROVE  Step
<1> USE DEF Inv
<1>1. GoodRow(RowOf(j)) /\ Proc(j) \in Reconcilers
  BY JobParts DEF GoodRows, RowOf
<1>2. CASE RowOf(j).status \in Active /\ Writes(j, Claimed(RowOf(j), Proc(j))) /\ UNCHANGED job
  <2>1. RowsMove /\ GoodJobs'
    BY <1>1, <1>2, ClaimedRow, WritesRow, JobStays
  <2>2. QED
    BY <2>1, WorldStays DEF Renew, Step
<1>3. CASE job' = [job EXCEPT ![j].lost = TRUE] /\ UNCHANGED run
  <2> DEFINE jb == [job[j] EXCEPT !.lost = TRUE]
  <2>1. GoodJob(jb)
    BY JobFacts DEF GoodJob, Job
  <2>2. job' = [job EXCEPT ![j] = jb]
    BY <1>3
  <2>3. GoodJobs'
    BY <2>1, <2>2, OneJob
  <2>4. QED
    BY <1>3, <2>3, WorldStays, OnlyJobsMove DEF Renew
<1>4. QED
  BY <1>2, <1>3 DEF Renew

-----------------------------------------------------------------------------
(* The processes, the users, the runtime and time.                         *)

LEMMA ProcessStep ==
    ASSUME Inv, NEW p \in Reconcilers, StartScheduler(p) \/ Cycle(p) \/ Crash(p)
    PROVE  Step
<1> USE DEF Inv
<1>1. CASE StartScheduler(p)
  <2>1. GoodWorld'
    BY <1>1 DEF StartScheduler, GoodWorld, runtime
  <2>2. QED
    BY <1>1, <2>1, JobStays, OnlyJobsMove DEF StartScheduler
<1>2. CASE Cycle(p)
  <2> DEFINE found == {r \in Runs : Claimable(run[r])}
  <2>1. \A r \in found : /\ GoodRow(Claimed(run[r], p)) /\ Same(run[r], Claimed(run[r], p))
                         /\ Claimed(run[r], p) \in Row
    BY ClaimedRow DEF GoodRows, Claimable, GoodRow
  <2>2. \A r \in Runs : run[r] \in Row /\ GoodRow(run[r]) /\ Same(run[r], run[r])
    BY DEF GoodRows, Same
  <2>3. run' = [r \in Runs |-> IF r \in found THEN Claimed(run[r], p) ELSE run[r]]
    BY <1>2 DEF Cycle
  <2>4. RowsMove
    BY <2>1, <2>2, <2>3 DEF RowsMove, GoodRows
  <2>5. job' = [j \in Jobs |-> IF j[1] = p /\ j[3] = "cycle" /\ j[2] \in found
                               THEN Holding(Claimed(run[j[2]], p)) ELSE job[j]]
    BY <1>2 DEF Cycle
  <2>6. ASSUME NEW j \in Jobs
        PROVE  job'[j] \in Job /\ GoodJob(job'[j])
    <3>1. CASE j[2] \in found
      <4>1. GoodJob(Holding(Claimed(run[j[2]], p))) /\ Holding(Claimed(run[j[2]], p)) \in Job
        BY <2>1, <3>1, IdleIsGood DEF GoodJob, Holding, IdleJob, Job, Working
      <4>2. QED
        BY <2>5, <4>1 DEF GoodJobs
    <3>2. CASE j[2] \notin found
      BY <2>5, <3>2 DEF GoodJobs
    <3>3. QED
      BY <3>1, <3>2
  <2>7. GoodJobs'
    BY <2>5, <2>6 DEF GoodJobs
  <2>8. QED
    BY <1>2, <2>4, <2>7, WorldStays DEF Cycle, Step
<1>3. CASE Crash(p)
  <2>1. GoodJobs'
    BY <1>3, IdleIsGood DEF Crash, GoodJobs
  <2>2. GoodWorld'
    BY <1>3 DEF Crash, GoodWorld, runtime
  <2>3. QED
    BY <1>3, <2>1, <2>2, OnlyJobsMove DEF Crash
<1>4. QED
  BY <1>1, <1>2, <1>3

LEMMA BeginStep ==
    ASSUME Inv, NEW p \in Reconcilers, NEW r \in Runs, BeginChatRun(p, r) \/ BeginManagedRun(p, r)
    PROVE  Step
<1> USE DEF Inv
<1> DEFINE j == <<p, r, "targeted">>
<1>1. j \in Jobs /\ {"accept", "wake", "idle"} \subseteq Plain
  BY DEF Jobs, Kinds, Plain, Waiting, Working
<1>2. Accepts(r) /\ run[r].upstream = None /\ run[r].answers = << >>
  BY DEF BeginChatRun, BeginManagedRun, Accepts, GoodRows, GoodRow, Decisions
<1>3. /\ GoodRow(QueuedRow) /\ QueuedRow.status = "queued"
      /\ QueuedRow.upstream = None /\ QueuedRow.answers = << >>
  BY RowsAtRest DEF QueuedRow, NoRow
<1>4. GoodRow(Claimed(QueuedRow, p)) /\ Same(QueuedRow, Claimed(QueuedRow, p))
  BY <1>3, ClaimedRow DEF Active
<1>5. PICK row : /\ GoodRow(row) /\ Begun(run[r], row)
                 /\ run' = [run EXCEPT ![r] = row]
  <2>1. CASE BeginChatRun(p, r)
    BY <1>2, <1>3, <1>4, <2>1 DEF BeginChatRun, Begun, Same, Accepts
  <2>2. CASE BeginManagedRun(p, r)
    BY <1>2, <1>3, <2>2 DEF BeginManagedRun, Begun, Accepts
  <2>3. QED
    BY <2>1, <2>2
<1>6. RowsMove
  BY <1>2, <1>5, OneRowMoves
<1>7. GoodJobs'
  BY <1>1, JobGoes DEF BeginChatRun, BeginManagedRun
<1>8. QED
  BY <1>6, <1>7, WorldStays DEF BeginChatRun, BeginManagedRun, Step

LEMMA RunStep ==
    ASSUME Inv, NEW r \in Runs,
           \/ RequestStop(r) \/ DeleteConversation(r)
           \/ OrphanLeaseExpires(r) \/ StalledLeaseExpires(r)
           \/ StopAges(r) \/ RunAges(r)
    PROVE  Step
<1> USE DEF Inv
<1>1. GoodRow(run[r])
  BY DEF GoodRows
<1>2. CASE RequestStop(r)
  <2>1. RowsMove
    BY <1>1, <1>2, StoppedRow, OneRowMoves DEF RequestStop
  <2>2. GoodWorld'
    BY <1>2, BoundsAssumption DEF RequestStop, GoodWorld, runtime
  <2>3. QED
    BY <1>2, <2>1, <2>2, JobStays DEF RequestStop, Step
<1>3. CASE DeleteConversation(r)
  <2> DEFINE row == [NoRow EXCEPT !.status = "deleted"]
  <2>1. GoodRow(row) /\ Removed(run[r], row) /\ run' = [run EXCEPT ![r] = row]
    BY <1>3, RowsAtRest DEF DeleteConversation, Removed, NoRow
  <2>2. RowsMove
    BY <2>1, OneRowMoves
  <2>3. QED
    BY <1>3, <2>2, JobStays, WorldStays DEF DeleteConversation, Step
<1>4. ASSUME Expires(r)
      PROVE  RowsMove
  <2>1. GoodRow([run[r] EXCEPT !.live = FALSE]) /\ Same(run[r], [run[r] EXCEPT !.live = FALSE])
    BY <1>1 DEF GoodRow, Same, Row
  <2>2. run' = [run EXCEPT ![r] = [run[r] EXCEPT !.live = FALSE]]
    BY <1>4 DEF Expires
  <2>3. QED
    BY <2>1, <2>2, OneRowMoves
<1>5. CASE OrphanLeaseExpires(r)
  BY <1>4, <1>5, JobStays, WorldStays DEF OrphanLeaseExpires, Step
<1>6. CASE StalledLeaseExpires(r)
  <2>1. GoodWorld'
    BY <1>6, BoundsAssumption DEF StalledLeaseExpires, GoodWorld, runtime
  <2>2. QED
    BY <1>4, <1>6, <2>1, JobStays DEF StalledLeaseExpires, Step
<1>7. CASE StopAges(r)
  <2> DEFINE row == [run[r] EXCEPT !.stopAged = TRUE]
  <2>1. GoodRow(row) /\ Same(run[r], row)
    BY <1>1, CountedRows
  <2>2. run' = [run EXCEPT ![r] = row]
    BY <1>7 DEF StopAges
  <2>3. RowsMove
    BY <2>1, <2>2, OneRowMoves
  <2>4. QED
    BY <1>7, <2>3, JobStays, WorldStays DEF StopAges, Step
<1>8. CASE RunAges(r)
  <2>1. GoodWorld'
    BY <1>8 DEF RunAges, GoodWorld, runtime
  <2>2. QED
    BY <1>8, <2>1, JobStays, OnlyJobsMove DEF RunAges
<1>9. QED
  BY <1>2, <1>3, <1>5, <1>6, <1>7, <1>8

LEMMA RuntimeStep ==
    ASSUME Inv, NEW r \in Runs, NEW key \in Keys, Deliver(r, key) \/ EndExecution(r, key)
    PROVE  Step
<1> USE DEF Inv
<1>1. up' \in [Runs -> [Keys -> UpStates]]
  <2>1. up \in [Runs -> [Keys -> UpStates]] /\ Outcomes \subseteq UpStates
    BY OutcomesAssumption DEF GoodWorld, UpStates
  <2>2. \E states \in [Runs -> [Keys -> UpStates]], s \in UpStates : up' = [states EXCEPT ![r][key] = s]
    BY <2>1 DEF Deliver, EndExecution, UpStates
  <2>3. QED
    BY <2>2
<1>2. GoodWorld'
  BY <1>1 DEF Deliver, EndExecution, GoodWorld, world
<1>3. QED
  BY <1>2, JobStays, OnlyJobsMove DEF Deliver, EndExecution

LEMMA StreamStep ==
    ASSUME Inv, NEW s \in streams, StreamEnds(s)
    PROVE  Step
<1> USE DEF Inv
<1> DEFINE r   == s[2]
           key == s[3]
<1>1. r \in Runs /\ key \in Keys /\ GoodRow(run[r])
  BY DEF GoodWorld, GoodRows
<1>2. RowsMove
  <2>1. CASE UNCHANGED run
    BY <2>1, RowsStay
  <2>2. CASE /\ up[r][key] \in {"completed", "failed", "cancelled", "leaked"}
             /\ run' = [run EXCEPT ![r] = FinishedByExecution(@, key,
                           IF up[r][key] = "leaked" THEN "failed" ELSE up[r][key])]
    <3> DEFINE decision == IF up[r][key] = "leaked" THEN "failed" ELSE up[r][key]
               row == FinishedByExecution(run[r], key, decision)
    <3>1. decision \in Decisions
      BY <2>2 DEF Decisions
    <3>2. GoodRow(row) /\ (Same(run[r], row) \/ Concluded(run[r], row))
      BY <1>1, <3>1, FinishedRows
    <3>3. run' = [run EXCEPT ![r] = row]
      BY <2>2
    <3>4. QED
      BY <1>1, <3>2, <3>3, OneRowMoves
  <2>3. QED
    BY <2>1, <2>2 DEF StreamEnds
<1>3. GoodWorld'
  BY DEF StreamEnds, GoodWorld, runtime, world
<1>4. QED
  BY <1>2, <1>3, JobStays DEF StreamEnds, Step

-----------------------------------------------------------------------------
(* The invariant is inductive.                                             *)

LEMMA InitIsGood == Init => Inv
<1> SUFFICES ASSUME Init PROVE Inv
  OBVIOUS
<1>1. \A r \in Runs : run[r] \in Row /\ GoodRow(run[r])
                      /\ run[r].status = IF r \in Backlog THEN "queued" ELSE "none"
  BY RowsAtRest DEF Init, GoodRow, QueuedRow, NoRow
<1>2. GoodRows
  BY <1>1 DEF Init, GoodRows
<1>3. GoodJobs
  BY IdleIsGood DEF Init, GoodJobs
<1>4. GoodWorld
  BY BoundsAssumption, RunsAssumption DEF Init, GoodWorld, UpStates
<1>5. OneActivePerInstance
  BY <1>1, BacklogAssumption DEF OneActivePerInstance, Active
<1>6. QED
  BY <1>2, <1>3, <1>4, <1>5 DEF Inv

LEMMA NextIsStep ==
    ASSUME Inv, [Next]_vars
    PROVE  Step
<1>1. CASE Next
  BY <1>1, ProcessStep, BeginStep, WorkStep, RenewStep, RunStep, RuntimeStep, StreamStep DEF Next
<1>2. CASE UNCHANGED vars
  BY <1>2, JobStays, WorldStays, OnlyJobsMove DEF vars, runtime, world, Inv
<1>3. QED
  BY <1>1, <1>2

\* A run becomes active only when no other run of its instance is.
LEMMA RowsMoveKeepOneActive ==
    ASSUME OneActivePerInstance, RowsMove
    PROVE  OneActivePerInstance'
<1>1. ASSUME NEW r \in Runs, NEW s \in Runs, r # s, InstanceOf[r] = InstanceOf[s],
             run'[r].status \in Active, run'[s].status \in Active
      PROVE  FALSE
  <2>1. CASE \A t \in Runs : Same(run[t], run'[t])
    BY <1>1, <2>1 DEF Same, OneActivePerInstance
  <2>2. CASE \E t \in Runs : Moved(t) /\ \A u \in Runs \ {t} : Same(run[u], run'[u])
    <3>1. PICK t \in Runs : Moved(t) /\ \A u \in Runs \ {t} : Same(run[u], run'[u])
      BY <2>2
    <3>2. CASE Accepts(t)
      BY <1>1, <3>1, <3>2 DEF Accepts, Same, OneActivePerInstance
    <3>3. CASE ~Accepts(t)
      <4>1. run'[t].status \in Active => run[t].status \in Active
        BY <3>1, <3>3 DEF Moved, Bound, Asked, Concluded, Removed, Active, Decisions
      <4>2. QED
        BY <1>1, <3>1, <4>1 DEF Same, OneActivePerInstance
    <3>4. QED
      BY <3>2, <3>3
  <2>3. QED
    BY <2>1, <2>2 DEF RowsMove
<1>2. QED
  BY <1>1 DEF OneActivePerInstance

LEMMA Inductive == Inv /\ [Next]_vars => Inv'
<1> SUFFICES ASSUME Inv, [Next]_vars PROVE Inv'
  OBVIOUS
<1>1. RowsMove /\ GoodJobs' /\ GoodWorld'
  BY NextIsStep DEF Step
<1>2. GoodRows'
  BY <1>1 DEF RowsMove
<1>3. OneActivePerInstance'
  BY <1>1, RowsMoveKeepOneActive DEF Inv
<1>4. QED
  BY <1>1, <1>2, <1>3 DEF Inv

LEMMA Invariance == Spec => []Inv
<1>1. Init => Inv
  BY InitIsGood
<1>2. Inv /\ [Next]_vars => Inv'
  BY Inductive
<1>3. QED
  BY <1>1, <1>2, PTL DEF Spec

-----------------------------------------------------------------------------
(* The theorems.                                                           *)

\* Every variable keeps its type, whatever is interleaved.
THEOREM TypeCorrect == Spec => []TypeOK
<1>1. Inv => TypeOK
  BY DEF Inv, GoodRows, GoodJobs, GoodWorld, UpStates, TypeOK
<1>2. QED
  BY <1>1, Invariance, PTL

\* A run that ended has exactly one answer, which says how it ended; a run that
\* has not ended has none (finishChatRun and its fences).
THEOREM OneAnswerHolds == Spec => []OneAnswer
<1>1. Inv => OneAnswer
  BY DEF Inv, GoodRows, GoodRow, OneAnswer
<1>2. QED
  BY <1>1, Invariance, PTL

\* Only a run at work has an owner (claims, renewals and finishChatRun).
THEOREM EndedRunsHaveNoOwner == Spec => []EndedRunsAreUnowned
<1>1. Inv => EndedRunsAreUnowned
  BY DEF Inv, GoodRows, GoodRow, EndedRunsAreUnowned
<1>2. QED
  BY <1>1, Invariance, PTL

\* A running run names its execution and a queued run has none
\* (recordDispatchedChatRun).
THEOREM RunningMeansBound == Spec => []BoundWhenRunning
<1>1. Inv => BoundWhenRunning
  BY DEF Inv, GoodRows, GoodRow, BoundWhenRunning
<1>2. QED
  BY <1>1, Invariance, PTL

\* The instance of a user has at most one active run (beginChatRun).
THEOREM OneActiveHolds == Spec => []OneActivePerInstance
<1>1. Inv => OneActivePerInstance
  BY DEF Inv
<1>2. QED
  BY <1>1, Invariance, PTL

LEMMA InitRefines == Init => Lifecycle!Init
  BY DEF Init, Lifecycle!Init, QueuedRow, NoRow

LEMMA MoveRefines ==
    ASSUME NEW r \in Runs, Moved(r), \A s \in Runs \ {r} : Same(run[s], run'[s])
    PROVE  Lifecycle!Next
<1>1. CASE Accepts(r) /\ Begun(run[r], run'[r])
  <2>1. Lifecycle!Accept(r)
    BY <1>1 DEF Lifecycle!Accept, Lifecycle!Active, Accepts, Active, Begun, Same
  <2>2. QED
    BY <2>1 DEF Lifecycle!Next
<1>2. CASE Bound(run[r], run'[r])
  <2>1. PICK x \in Keys : x = run'[r].upstream
    BY <1>2 DEF Bound
  <2>2. Lifecycle!Bind(r, x)
    BY <1>2, <2>1 DEF Lifecycle!Bind, Bound, Same
  <2>3. QED
    BY <2>2 DEF Lifecycle!Next
<1>3. CASE Asked(run[r], run'[r])
  <2>1. Lifecycle!AskStop(r)
    BY <1>3 DEF Lifecycle!AskStop, Lifecycle!Active, Active, Asked, Same
  <2>2. QED
    BY <2>1 DEF Lifecycle!Next
<1>4. CASE Concluded(run[r], run'[r])
  <2>1. PICK source \in Keys \cup {Batch, None} :
            /\ run'[r].answers = Append(run[r].answers, [status |-> run'[r].status, from |-> source])
            /\ IF run'[r].status = "completed" THEN source \in {run[r].upstream, Batch} \ {None}
                                               ELSE source = None
    BY <1>4 DEF Concluded
  <2>2. Lifecycle!Conclude(r, run'[r].status, source)
    BY <1>4, <2>1 DEF Lifecycle!Conclude, Lifecycle!Active, Active, Concluded, Same
  <2>3. run'[r].status \in Lifecycle!Decisions
    BY <1>4 DEF Concluded, Decisions, Lifecycle!Decisions
  <2>4. QED
    BY <2>2, <2>3 DEF Lifecycle!Next
<1>5. CASE Removed(run[r], run'[r])
  <2>1. Lifecycle!Remove(r)
    BY <1>5 DEF Lifecycle!Remove, Removed, Same
  <2>2. QED
    BY <2>1 DEF Lifecycle!Next
<1>6. QED
  BY <1>1, <1>2, <1>3, <1>4, <1>5 DEF Moved

LEMMA StepRefines == RowsMove => [Lifecycle!Next]_(Lifecycle!lifecycle)
<1> SUFFICES ASSUME RowsMove PROVE [Lifecycle!Next]_(Lifecycle!lifecycle)
  OBVIOUS
<1>1. CASE \A s \in Runs : Same(run[s], run'[s])
  BY <1>1 DEF Lifecycle!lifecycle, Same
<1>2. CASE \E r \in Runs : Moved(r) /\ \A s \in Runs \ {r} : Same(run[s], run'[s])
  BY <1>2, MoveRefines
<1>3. QED
  BY <1>1, <1>2 DEF RowsMove

\* The run service, with its leases, crashes and retries, implements the
\* lifecycle its users see.
THEOREM RefinesLifecycle == Spec => ImplementsLifecycle
<1>1. Init => Lifecycle!Init
  BY InitRefines
<1>2. Inv /\ [Next]_vars => [Lifecycle!Next]_(Lifecycle!lifecycle)
  BY NextIsStep, StepRefines DEF Step
<1>3. QED
  BY <1>1, <1>2, Invariance, PTL DEF Spec, ImplementsLifecycle, Lifecycle!Spec

-----------------------------------------------------------------------------
(* What is written ahead, and whose answer it is.                          *)

\* The places of a job that has counted an attempt and may send the run.
Sending(jb) == jb.pc \in {"search", "prepare", "check", "snapshot", "posted", "lookup", "resubmit",
                          "rebind", "rebound", "record"}

\* An execution that completed, whatever became of it after.
Done == {"completed", "gone"}

Ahead(row) == row.attempts > 0 \/ row.status = "deleted"
Early(row) == row.status = "none" => row.attempts = 0

\* The answer of a completed run is that of the execution on its row, which did complete.
Sound(r, row) ==
    row.status = "completed" => LET from == row.answers[1].from
                                IN  from # Batch => from \in Keys /\ from = row.upstream /\ up[r][from] \in Done

\* A job about to complete a run has seen the execution that it read from the row complete.
Sealed(j, jb) ==
    jb.pc = "finishBound" /\ jb.verdict = "completed" => up[RunOf(j)][jb.seen.upstream] \in Done

\* What is sent and what is answered can be traced to what was written or seen before.
Traced ==
    /\ \A r \in Runs : Early(run[r]) /\ Sound(r, run[r])
    /\ AttemptWrittenAhead
    /\ \A j \in Jobs : Sealed(j, job[j]) /\ (Sending(job[j]) => Ahead(RowOf(j)))

\* What a step does to a row, to the jobs and to the runtime.
RowFollows(r, a, b) ==
    Early(a) /\ Sound(r, a) => (Ahead(a) => Ahead(b)) /\ Early(b) /\ Sound(r, b)

RowsFollow == \A r \in Runs : RowFollows(r, run[r], run'[r])

JobsFollow ==
    \A j \in Jobs : /\ Sending(job'[j]) => Sending(job[j]) \/ Ahead(run'[RunOf(j)])
                    /\ Sealed(j, job[j]) => Sealed(j, job'[j])

RuntimeFollows ==
    /\ \A r \in Runs, k \in Keys :
          /\ up'[r][k] # "absent" => up[r][k] # "absent" \/ <<r, k>> \in posts
          /\ up[r][k] \in Done => up'[r][k] \in Done
    /\ \A r \in Runs, k \in Keys :
          <<r, k>> \in posts' => <<r, k>> \in posts \/ \E j \in Jobs : RunOf(j) = r /\ Sending(job[j])

Follows == RowsFollow /\ JobsFollow /\ RuntimeFollows

LEMMA FollowsKeeps ==
    ASSUME Inv, Inv', Traced, Follows
    PROVE  Traced'
<1>1. \A r \in Runs : /\ Ahead(run[r]) => Ahead(run'[r])
                      /\ Early(run'[r]) /\ Sound(r, run'[r])
  BY DEF Traced, Follows, RowsFollow, RowFollows
<1>2. ASSUME NEW r \in Runs
      PROVE  (Early(run[r]) /\ Sound(r, run[r]))'
  BY <1>1 DEF Sound, Early, Follows, RuntimeFollows
<1>3. \A j \in Jobs : Sending(job[j]) => Ahead(run[RunOf(j)])
  BY DEF Traced, RowOf
<1>4. ASSUME NEW j \in Jobs
      PROVE  (Sealed(j, job[j]) /\ (Sending(job[j]) => Ahead(RowOf(j))))'
  <2>1. Sealed(j, job'[j])
    BY DEF Traced, Follows, JobsFollow
  <2>2. RunOf(j) \in Runs
    BY JobParts
  <2>3. job'[j].pc = "finishBound" => job'[j].seen.upstream \in Keys
    BY DEF Inv, GoodJobs, GoodJob
  <2>4. Sealed(j, job[j])'
    BY <2>1, <2>2, <2>3 DEF Sealed, Follows, RuntimeFollows
  <2>5. Sending(job'[j]) => Ahead(run'[RunOf(j)])
    BY <1>1, <1>3, <2>2 DEF Follows, JobsFollow
  <2> QED
    BY <2>4, <2>5 DEF RowOf, Sending, Ahead
<1>5. AttemptWrittenAhead'
  <2> SUFFICES ASSUME NEW r \in Runs, NEW k \in Keys, up'[r][k] # "absent" \/ <<r, k>> \in posts'
               PROVE  Ahead(run'[r])
    BY DEF AttemptWrittenAhead, Ahead
  <2>1. \/ up[r][k] # "absent" \/ <<r, k>> \in posts
        \/ \E j \in Jobs : RunOf(j) = r /\ Sending(job[j])
    BY DEF Follows, RuntimeFollows
  <2>2. Ahead(run[r])
    BY <1>3, <2>1 DEF Traced, AttemptWrittenAhead, Ahead
  <2> QED
    BY <1>1, <2>2
<1> QED
  BY <1>2, <1>4, <1>5 DEF Traced

-----------------------------------------------------------------------------
(* The transactions, one row at a time.                                    *)

LEMMA StaysFollows ==
    ASSUME NEW r, NEW row
    PROVE  RowFollows(r, row, row)
  BY DEF RowFollows

\* Whatever leaves the attempts, the end and the answers of a row alone.
LEMMA QuietFollows ==
    ASSUME NEW r, NEW a, NEW b, b.attempts = a.attempts, b.answers = a.answers,
           \/ b.status = a.status /\ b.upstream = a.upstream
           \/ b.status \notin {"none", "completed"} /\ a.status # "deleted"
    PROVE  RowFollows(r, a, b)
  BY DEF RowFollows, Ahead, Early, Sound

LEMMA ClaimFollows ==
    ASSUME NEW r, NEW row, GoodRow(row), NEW p
    PROVE  /\ RowFollows(r, row, Claimed(row, p)) /\ RowFollows(r, row, Released(row))
           /\ RowFollows(r, row, [row EXCEPT !.live = FALSE])
           /\ RowFollows(r, row, [row EXCEPT !.accepted = TRUE])
           /\ RowFollows(r, row, [row EXCEPT !.stopAged = TRUE])
           /\ \A seen : RowFollows(r, row, StopCounted(row, seen))
           /\ row.status \in Active => RowFollows(r, row, Stopped(row))
<1>1. row \in Row
  BY DEF GoodRow
<1> QED
  BY <1>1, QuietFollows DEF Row, Claimed, Released, StopCounted, Stopped, Active

LEMMA CountFollows ==
    ASSUME NEW r, NEW row, GoodRow(row), row.status \in Active, NEW seen, GoodRow(seen)
    PROVE  RowFollows(r, row, AttemptCounted(row, seen)) /\ Ahead(AttemptCounted(row, seen))
<1>1. Counted(seen.attempts) > 0
  BY LimitsAssumption DEF Counted, GoodRow, Row
<1>2. row \in Row
  BY DEF GoodRow
<1>3. PICK new : new = AttemptCounted(row, seen)
  OBVIOUS
<1>4. /\ new.attempts > 0 /\ new.status = row.status /\ new.upstream = row.upstream
      /\ new.answers = row.answers
  BY <1>1, <1>2, <1>3 DEF AttemptCounted, Row
<1> QED
  BY <1>3, <1>4 DEF RowFollows, Ahead, Early, Sound, Active

LEMMA DispatchFollows ==
    ASSUME NEW r, NEW row, GoodRow(row), row.status \in Active, NEW key
    PROVE  RowFollows(r, row, Dispatched(row, key))
<1>1. row \in Row
  BY DEF GoodRow
<1> QED
  BY <1>1, QuietFollows DEF Row, Dispatched, Active

LEMMA FinishFollows ==
    ASSUME NEW r, NEW row, GoodRow(row), row.status \in Active, NEW decision \in Decisions,
           NEW source \in Keys \cup {Batch, None},
           decision = "completed" => \/ source = Batch
                                     \/ source \in Keys /\ source = row.upstream /\ up[r][source] \in Done
    PROVE  RowFollows(r, row, Finished(row, decision, source))
<1>1. row \in Row /\ row.answers = << >>
  BY DEF GoodRow, Active, Decisions
<1>2. PICK answer : answer = [status |-> decision, from |-> source]
  OBVIOUS
<1>3. Append(row.answers, answer) = <<answer>>
  BY <1>1
<1>4. PICK new : new = [row EXCEPT !.status = decision, !.owner = None, !.live = FALSE, !.answers = <<answer>>]
  OBVIOUS
<1>5. new = Finished(row, decision, source)
  BY <1>2, <1>3, <1>4 DEF Finished
<1>6. /\ new.status = decision /\ new.attempts = row.attempts
      /\ new.upstream = row.upstream /\ new.answers[1].from = source
  BY <1>1, <1>2, <1>4 DEF Row
<1> HIDE <1>4
<1>7. decision # "none" /\ decision # "deleted" /\ row.status # "deleted"
  BY DEF Decisions, Active
<1> QED
  BY <1>5, <1>6, <1>7 DEF RowFollows, Ahead, Early, Sound

\* The three fences of finishChatRun: no fence completes a run, the lease completes it by a
\* synchronous answer, the execution by its own.
LEMMA FencesFollow ==
    ASSUME NEW r, NEW row, GoodRow(row)
    PROVE  /\ RowFollows(r, row, FinishedUnfenced(row, "failed"))
           /\ \A p : \A decision \in Decisions :
                RowFollows(r, row, FinishedByOwner(row, p, decision, IF decision = "completed" THEN Batch ELSE None))
           /\ \A key \in Keys, decision \in Decisions :
                (decision = "completed" => up[r][key] \in Done) =>
                    RowFollows(r, row, FinishedByExecution(row, key, decision))
<1>1. RowFollows(r, row, row)
  BY StaysFollows
<1>2. RowFollows(r, row, FinishedUnfenced(row, "failed"))
  BY <1>1, FinishFollows DEF FinishedUnfenced, Decisions
<1>3. ASSUME NEW p, NEW decision \in Decisions
      PROVE  RowFollows(r, row, FinishedByOwner(row, p, decision, IF decision = "completed" THEN Batch ELSE None))
  BY <1>1, FinishFollows DEF FinishedByOwner
<1>4. ASSUME NEW key \in Keys, NEW decision \in Decisions, decision = "completed" => up[r][key] \in Done
      PROVE  RowFollows(r, row, FinishedByExecution(row, key, decision))
  BY <1>1, <1>4, FinishFollows DEF FinishedByExecution, Active
<1> QED
  BY <1>2, <1>3, <1>4


-----------------------------------------------------------------------------
(* What the steps share.                                                   *)

LEMMA RowsAlone ==
    ASSUME UNCHANGED run
    PROVE  RowsFollow
  BY StaysFollows DEF RowsFollow

LEMMA OneRowFollows ==
    ASSUME GoodRows, NEW r \in Runs, NEW row, RowFollows(r, run[r], row), run' = [run EXCEPT ![r] = row]
    PROVE  RowsFollow
<1>1. run'[r] = row /\ \A s \in Runs \ {r} : run'[s] = run[s]
  BY DEF GoodRows
<1> QED
  BY <1>1, StaysFollows DEF RowsFollow

LEMMA WriteFollows ==
    ASSUME GoodRows, NEW j \in Jobs, NEW row, RowFollows(RunOf(j), RowOf(j), row), Writes(j, row)
    PROVE  RowsFollow /\ run'[RunOf(j)] = row
<1>1. RunOf(j) \in Runs
  BY JobParts
<1> QED
  BY <1>1, OneRowFollows DEF Writes, RowOf, GoodRows

LEMMA JobsAlone ==
    ASSUME UNCHANGED job
    PROVE  JobsFollow
  BY DEF JobsFollow

LEMMA OneJobFollows ==
    ASSUME GoodJobs, NEW j \in Jobs, NEW jb, job' = [job EXCEPT ![j] = jb],
           Sending(jb) => Sending(job[j]) \/ Ahead(run'[RunOf(j)]),
           Sealed(j, job[j]) => Sealed(j, jb)
    PROVE  JobsFollow
<1>1. job'[j] = jb /\ \A i \in Jobs \ {j} : job'[i] = job[i]
  BY DEF GoodJobs
<1> QED
  BY <1>1 DEF JobsFollow

LEMMA GoFollows ==
    ASSUME GoodJobs, NEW j \in Jobs, NEW pc, Goes(j, pc), pc # "finishBound",
           \/ Sending(job[j]) \/ Ahead(run'[RunOf(j)])
           \/ pc \in {"idle", "wake", "accept", "batch", "batched", "probe", "expire", "stopSearch",
                      "stopProbe", "stopPost", "release"}
    PROVE  JobsFollow
<1>1. PICK jb : jb = [job[j] EXCEPT !.pc = pc]
  OBVIOUS
<1>2. jb.pc = pc
  BY <1>1 DEF GoodJobs, Job
<1>3. job' = [job EXCEPT ![j] = jb]
  BY <1>1 DEF Goes
<1> QED
  BY <1>2, <1>3, OneJobFollows DEF Sending, Sealed

\* A job that has decided, or gives up, sends nothing and seals nothing.
LEMMA EndFollows ==
    ASSUME GoodJobs, NEW j \in Jobs, Ends(j) \/ Loses(j) \/ \E d : Decides(j, d)
    PROVE  JobsFollow
<1>1. PICK jb : job' = [job EXCEPT ![j] = jb] /\ jb.pc \in {"release", "finish"}
  <2>1. CASE \E lost : job' = [job EXCEPT ![j] = [IdleJob EXCEPT !.pc = "release", !.lost = lost]]
    <3>1. PICK lost : job' = [job EXCEPT ![j] = [IdleJob EXCEPT !.pc = "release", !.lost = lost]]
      BY <2>1
    <3>2. [IdleJob EXCEPT !.pc = "release", !.lost = lost].pc = "release"
      BY DEF IdleJob
    <3> QED
      BY <3>1, <3>2
  <2>2. CASE \E d : Decides(j, d)
    <3>1. PICK d : job' = [job EXCEPT ![j] = [IdleJob EXCEPT !.pc = "finish", !.lost = job[j].lost, !.verdict = d]]
      BY <2>2 DEF Decides
    <3>2. [IdleJob EXCEPT !.pc = "finish", !.lost = job[j].lost, !.verdict = d].pc = "finish"
      BY DEF IdleJob
    <3> QED
      BY <3>1, <3>2
  <2> QED
    BY <2>1, <2>2 DEF Ends, Loses
<1> QED
  BY <1>1, OneJobFollows DEF Sending, Sealed

LEMMA BoundFollows ==
    ASSUME GoodJobs, NEW j \in Jobs, NEW d, DecidesBound(j, d), d = "completed" => Observed(j) \in Done
    PROVE  JobsFollow
<1>1. PICK jb : jb = [job[j] EXCEPT !.pc = "finishBound", !.verdict = d]
  OBVIOUS
<1>2. jb.pc = "finishBound" /\ jb.verdict = d /\ jb.seen = job[j].seen
  BY <1>1 DEF GoodJobs, Job
<1>3. job' = [job EXCEPT ![j] = jb]
  BY <1>1 DEF DecidesBound
<1> QED
  BY <1>2, <1>3, OneJobFollows DEF Sending, Sealed, Observed

LEMMA ConvergeFollows ==
    ASSUME GoodJobs, NEW j \in Jobs, Converges(j)
    PROVE  JobsFollow
<1>1. CASE Observed(j) = "completed" /\ DecidesBound(j, "completed")
  BY <1>1, BoundFollows DEF Done
<1>2. CASE DecidesBound(j, "failed")
  BY <1>2, BoundFollows
<1>3. CASE Ends(j) \/ \E d : Decides(j, d)
  BY <1>3, EndFollows
<1> QED
  BY <1>1, <1>2, <1>3 DEF Converges

LEMMA RuntimeAlone ==
    ASSUME UNCHANGED runtime
    PROVE  RuntimeFollows
  BY DEF RuntimeFollows, runtime

LEMMA PostFollows ==
    ASSUME NEW j \in Jobs, Sending(job[j]), NEW key, NEW known, Posts(j, key, known), UNCHANGED up
    PROVE  RuntimeFollows
  BY DEF Posts, RuntimeFollows

LEMMA HaltFollows ==
    ASSUME GoodWorld, NEW j \in Jobs, NEW states, Halts(j, states), UNCHANGED posts
    PROVE  RuntimeFollows
<1>1. PICK s : up' = [up EXCEPT ![RunOf(j)][job[j].seen.upstream] =
                          IF @ \in {"active", "halting"} THEN s ELSE @]
  BY DEF Halts
<1>2. \A r \in Runs, k \in Keys : up'[r][k] = up[r][k] \/ up[r][k] \in {"active", "halting"}
  BY <1>1 DEF GoodWorld
<1> QED
  BY <1>2 DEF RuntimeFollows, Done

LEMMA WriteOwnedFollows ==
    ASSUME GoodRows, GoodJobs, NEW j \in Jobs, NEW row, NEW pc, WritesOwned(j, row, pc),
           Fresh(j) => RowFollows(RunOf(j), RowOf(j), row),
           (Ahead(row) /\ pc # "finishBound") \/ pc \in {"release", "stopPost"}
    PROVE  RowsFollow /\ JobsFollow
<1>1. CASE Fresh(j) /\ Writes(j, row) /\ Goes(j, pc)
  <2>1. RowsFollow /\ run'[RunOf(j)] = row
    BY <1>1, WriteFollows
  <2> QED
    BY <1>1, <2>1, GoFollows
<1>2. CASE Loses(j) /\ UNCHANGED run
  BY <1>2, RowsAlone, EndFollows
<1> QED
  BY <1>1, <1>2 DEF WritesOwned

LEMMA RecordFollows ==
    ASSUME GoodRows, GoodJobs, NEW j \in Jobs, NEW key, Records(j, key)
    PROVE  RowsFollow /\ JobsFollow
<1>1. CASE Fresh(j) /\ Writes(j, Dispatched(RowOf(j), key)) /\ Ends(j)
  BY <1>1, FreshIsActive, DispatchFollows, WriteFollows, EndFollows
<1>2. CASE (Ends(j) \/ Loses(j) \/ Decides(j, "failed")) /\ UNCHANGED run
  BY <1>2, RowsAlone, EndFollows
<1> QED
  BY <1>1, <1>2 DEF Records

LEMMA GiveUpFollows ==
    ASSUME GoodJobs, NEW j \in Jobs, GivesUpDispatch(j)
    PROVE  JobsFollow
<1>1. CASE Goes(j, "batch")
  BY <1>1, GoFollows
<1>2. CASE Decides(j, "failed") \/ Ends(j)
  BY <1>2, EndFollows
<1> QED
  BY <1>1, <1>2 DEF GivesUpDispatch


-----------------------------------------------------------------------------
(* Every action.                                                           *)

LEMMA DispatchTraced ==
    ASSUME Inv, NEW j \in Jobs, Dispatch(j)
    PROVE  Follows
<1> USE DEF Inv, Follows
<1>1. RunOf(j) \in Runs /\ GoodRow(RowOf(j)) /\ GoodRow(job[j].seen)
  BY JobParts, JobFacts DEF GoodRows, RowOf
<1>2. UNCHANGED runtime => RuntimeFollows
  BY RuntimeAlone
<1>3. UNCHANGED run => RowsFollow
  BY RowsAlone
<1>4. CASE BeginDispatch(j)
  <2> DEFINE row == AttemptCounted(RowOf(j), job[j].seen)
             pc  == IF job[j].seen.attempts = 0 THEN "prepare" ELSE "search"
  <2>1. WritesOwned(j, row, pc) /\ pc # "finishBound"
    BY <1>4 DEF BeginDispatch
  <2>2. Fresh(j) => RowFollows(RunOf(j), RowOf(j), row) /\ Ahead(row)
    BY <1>1, FreshIsActive, CountFollows
  <2>3. CASE Fresh(j)
    BY <1>2, <1>4, <2>1, <2>2, <2>3, WriteOwnedFollows DEF BeginDispatch
  <2>4. CASE ~Fresh(j)
    BY <1>2, <1>3, <1>4, <2>1, <2>4, EndFollows DEF BeginDispatch, WritesOwned
  <2> QED
    BY <2>3, <2>4
<1>6. CASE \E key : Records(j, key) /\ UNCHANGED runtime
  BY <1>2, <1>6, RecordFollows
<1>7. CASE /\ Sending(job[j]) /\ UNCHANGED <<run, runtime>>
           /\ \E pc : pc # "finishBound" /\ Goes(j, pc)
  BY <1>2, <1>3, <1>7, GoFollows
<1>8. CASE Prepare(j)
  <2>1. Sending(job[j])
    BY <1>8 DEF Prepare, At, Sending
  <2>2. JobsFollow
    <3>1. CASE job' = [job EXCEPT ![j].pc = "check", ![j].stale = RunOf(j) \in stale]
      <4>1. PICK jb : jb = [job[j] EXCEPT !.pc = "check", !.stale = RunOf(j) \in stale]
        OBVIOUS
      <4>2. jb.pc = "check"
        BY <4>1 DEF GoodJobs, Job
      <4>3. job' = [job EXCEPT ![j] = jb]
        BY <3>1, <4>1
      <4> QED
        BY <2>1, <4>2, <4>3, OneJobFollows DEF Sealed
    <3>2. CASE Goes(j, "batch")
      BY <2>1, <3>2, GoFollows
    <3> QED
      BY <1>8, <3>1, <3>2 DEF Prepare
  <2> QED
    BY <1>2, <1>3, <1>8, <2>2 DEF Prepare
<1>9. CASE CheckDispatch(j)
  <2>1. Sending(job[j])
    BY <1>9 DEF CheckDispatch, At, Sending
  <2>2. Ends(j) \/ Loses(j) \/ Decides(j, "cancelled") \/ Goes(j, "snapshot")
    BY <1>9 DEF CheckDispatch
  <2> QED
    BY <1>2, <1>3, <1>9, <2>1, <2>2, EndFollows, GoFollows DEF CheckDispatch
<1>10. CASE SubmitRun(j)
  <2>1. Sending(job[j])
    BY <1>10 DEF SubmitRun, At, Sending
  <2>2. JobsFollow
    BY <1>10, <2>1, GoFollows, EndFollows DEF SubmitRun
  <2>3. RuntimeFollows
    <3>1. CASE Posts(j, "main", ~job[j].stale)
      BY <1>10, <2>1, <3>1, PostFollows DEF SubmitRun
    <3>2. CASE UNCHANGED posts
      BY <1>2, <1>10, <3>2 DEF SubmitRun, runtime
    <3> QED
      BY <1>10, <3>1, <3>2 DEF SubmitRun
  <2> QED
    BY <1>3, <1>10, <2>2, <2>3 DEF SubmitRun
<1>11. CASE Resubmit(j)
  <2>1. Sending(job[j])
    BY <1>11 DEF Resubmit, At, Sending
  <2>2. JobsFollow
    <3>1. PICK jb : jb = [job[j] EXCEPT !.pc = "posted", !.tries = job[j].tries + 1]
      OBVIOUS
    <3>2. jb.pc = "posted"
      BY <3>1 DEF GoodJobs, Job
    <3>3. job' = [job EXCEPT ![j] = jb]
      BY <1>11, <3>1 DEF Resubmit
    <3> QED
      BY <2>1, <3>2, <3>3, OneJobFollows DEF Sealed
  <2>3. RuntimeFollows
    BY <1>11, <2>1, PostFollows DEF Resubmit
  <2> QED
    BY <1>3, <1>11, <2>2, <2>3 DEF Resubmit
<1>12. CASE SubmitMalformed(j)
  BY <1>2, <1>3, <1>12, EndFollows DEF SubmitMalformed, Misnamed
<1>13. CASE SubmitTransient(j)
  <2>1. Sending(job[j])
    BY <1>13 DEF SubmitTransient, At, Sending
  <2>2. JobsFollow
    BY <1>13, <2>1, GoFollows, GiveUpFollows DEF SubmitTransient
  <2> QED
    BY <1>2, <1>3, <1>13, <2>2 DEF SubmitTransient
<1>14. CASE SubmitRejected(j)
  <2>1. JobsFollow
    BY <1>14, GiveUpFollows DEF SubmitRejected
  <2>2. RuntimeFollows
    BY <1>14 DEF SubmitRejected, RuntimeFollows
  <2> QED
    BY <1>3, <1>14, <2>1, <2>2 DEF SubmitRejected
<1>15. CASE Lookup(j)
  <2>1. Sending(job[j])
    BY <1>15 DEF Lookup, At, Sending
  <2>2. CASE Records(j, "main")
    BY <1>2, <1>15, <2>2, RecordFollows DEF Lookup
  <2>3. CASE (Goes(j, "resubmit") \/ GivesUpDispatch(j)) /\ UNCHANGED run
    BY <1>2, <1>3, <1>15, <2>1, <2>3, GoFollows, GiveUpFollows DEF Lookup
  <2> QED
    BY <1>15, <2>2, <2>3 DEF Lookup
<1>16. CASE Rebind(j)
  <2>1. Sending(job[j])
    BY <1>16 DEF Rebind, At, Sending
  <2>2. JobsFollow
    BY <1>16, <2>1, GoFollows, EndFollows DEF Rebind
  <2>3. RuntimeFollows
    <3>1. CASE Posts(j, "rebind", TRUE)
      BY <1>16, <2>1, <3>1, PostFollows DEF Rebind
    <3>2. CASE UNCHANGED posts
      BY <1>2, <1>16, <3>2 DEF Rebind, runtime
    <3> QED
      BY <1>16, <3>1, <3>2 DEF Rebind
  <2> QED
    BY <1>3, <1>16, <2>2, <2>3 DEF Rebind
<1>17. CASE RebindAnswered(j)
  <2>1. Sending(job[j])
    BY <1>17 DEF RebindAnswered, At, Sending
  <2>2. JobsFollow
    BY <1>17, <2>1, GoFollows, EndFollows DEF RebindAnswered, Misnamed
  <2>3. RuntimeFollows
    BY <1>17 DEF RebindAnswered, RuntimeFollows
  <2> QED
    BY <1>3, <1>17, <2>2, <2>3 DEF RebindAnswered
<1>18. CASE RebindFailed(j)
  BY <1>2, <1>3, <1>18, GiveUpFollows DEF RebindFailed
<1>19. CASE BatchPost(j)
  BY <1>2, <1>3, <1>19, GoFollows DEF BatchPost
<1>20. CASE BatchAnswered(j)
  BY <1>2, <1>3, <1>20, EndFollows DEF BatchAnswered
<1>21. CASE Search(j)
  <2>1. Sending(job[j])
    BY <1>21 DEF Search, At, Sending
  <2>2. CASE Records(j, "main")
    BY <1>6, <1>21, <2>2 DEF Search
  <2>3. CASE Goes(j, "prepare") /\ UNCHANGED run
    BY <1>7, <1>21, <2>1, <2>3 DEF Search
  <2> QED
    BY <1>21, <2>2, <2>3 DEF Search
<1>22. CASE SubmitStale(j)
  BY <1>7, <1>22 DEF SubmitStale, At, Sending
<1>23. CASE SubmitAnswered(j) \/ RecordRebound(j)
  BY <1>6, <1>23 DEF SubmitAnswered, RecordRebound
<1> QED
  BY <1>4, <1>8, <1>9, <1>10, <1>11, <1>12, <1>13, <1>14, <1>15, <1>16, <1>17, <1>18, <1>19, <1>20,
     <1>21, <1>22, <1>23 DEF Dispatch


LEMMA ObserveTraced ==
    ASSUME Inv, NEW j \in Jobs, Observe(j)
    PROVE  Follows
<1> USE DEF Inv, Follows
<1>1. UNCHANGED runtime => RuntimeFollows
  BY RuntimeAlone
<1>2. UNCHANGED run => RowsFollow
  BY RowsAlone
<1>3. CASE BeginProbe(j)
  BY <1>1, <1>2, <1>3, GoFollows DEF BeginProbe
<1>4. CASE Probe(j)
  <2>1. Loses(j) \/ Converges(j) \/ Ends(j) \/ Goes(j, "batch") \/ Decides(j, "failed")
    BY <1>4 DEF Probe
  <2>2. JobsFollow
    BY <2>1, ConvergeFollows, EndFollows, GoFollows
  <2> QED
    BY <1>1, <1>2, <1>4, <2>2 DEF Probe
<1>5. CASE ProbeUnanswered(j)
  BY <1>1, <1>2, <1>5, EndFollows DEF ProbeUnanswered
<1>6. CASE Expire(j)
  BY <1>2, <1>6, EndFollows, HaltFollows DEF Expire
<1> QED
  BY <1>3, <1>4, <1>5, <1>6 DEF Observe

LEMMA RecoverStopTraced ==
    ASSUME Inv, NEW j \in Jobs, RecoverStop(j)
    PROVE  Follows
<1> USE DEF Inv, Follows
<1>1. GoodRow(RowOf(j))
  BY JobParts DEF GoodRows, RowOf
<1>2. UNCHANGED runtime => RuntimeFollows
  BY RuntimeAlone
<1>3. UNCHANGED run => RowsFollow
  BY RowsAlone
<1>4. ASSUME NEW pc \in {"release", "stopPost"}, WritesOwned(j, StopCounted(RowOf(j), job[j].seen), pc)
      PROVE  RowsFollow /\ JobsFollow
  BY <1>1, <1>4, ClaimFollows, WriteOwnedFollows
<1>5. CASE BeginStopRecovery(j)
  <2>1. Goes(j, "stopProbe") \/ Goes(j, "stopSearch") \/ Decides(j, "cancelled")
    BY <1>5 DEF BeginStopRecovery
  <2> QED
    BY <1>2, <1>3, <1>5, <2>1, GoFollows, EndFollows DEF BeginStopRecovery
<1>6. CASE StopSearch(j)
  <2>1. CASE Fresh(j) /\ Writes(j, Dispatched(RowOf(j), "main")) /\ Ends(j)
    BY <1>2, <1>6, <2>1, FreshIsActive, DispatchFollows, WriteFollows, EndFollows DEF StopSearch
  <2>2. CASE Decides(j, "failed") /\ UNCHANGED run
    BY <1>2, <1>3, <1>6, <2>2, EndFollows DEF StopSearch
  <2>3. CASE WritesOwned(j, StopCounted(RowOf(j), job[j].seen), "release")
    BY <1>2, <1>4, <1>6, <2>3 DEF StopSearch
  <2> QED
    BY <1>6, <2>1, <2>2, <2>3 DEF StopSearch
<1>7. CASE StopProbe(j)
  <2>1. CASE (Converges(j) \/ Decides(j, "failed") \/ Ends(j)) /\ UNCHANGED run
    BY <1>2, <1>3, <1>7, <2>1, ConvergeFollows, EndFollows DEF StopProbe
  <2>2. CASE \E pc \in {"release", "stopPost"} : WritesOwned(j, StopCounted(RowOf(j), job[j].seen), pc)
    BY <1>2, <1>4, <1>7, <2>2 DEF StopProbe
  <2> QED
    BY <1>7, <2>1, <2>2 DEF StopProbe
<1>8. CASE StopConfirmed(j)
  BY <1>3, <1>8, EndFollows, HaltFollows DEF StopConfirmed
<1>9. CASE StopAccepted(j)
  <2>1. RowFollows(RunOf(j), RowOf(j), [RowOf(j) EXCEPT !.accepted = TRUE])
    BY <1>1, ClaimFollows
  <2>2. RowsFollow /\ JobsFollow
    BY <1>9, <2>1, WriteOwnedFollows DEF StopAccepted
  <2> QED
    BY <1>9, <2>2, HaltFollows DEF StopAccepted
<1>10. CASE StopUnanswered(j)
  BY <1>3, <1>10, EndFollows, HaltFollows DEF StopUnanswered
<1> QED
  BY <1>5, <1>6, <1>7, <1>8, <1>9, <1>10 DEF RecoverStop

LEMMA WorkTraced ==
    ASSUME Inv, Traced, NEW j \in Jobs, Work(j)
    PROVE  Follows
<1> USE DEF Inv, Follows
<1>1. /\ RunOf(j) \in Runs /\ GoodRow(RowOf(j))
      /\ RowFollows(RunOf(j), RowOf(j), RowOf(j))
  BY JobParts, StaysFollows DEF GoodRows, RowOf
<1>2. UNCHANGED runtime => RuntimeFollows
  BY RuntimeAlone
<1>3. UNCHANGED run => RowsFollow
  BY RowsAlone
<1>4. CASE Accept(j)
  <2>1. Goes(j, "idle") \/ Goes(j, "wake")
    BY <1>4 DEF Accept
  <2>2. JobsFollow
    BY <2>1, GoFollows
  <2>3. CASE UNCHANGED run
    BY <1>2, <1>3, <1>4, <2>2, <2>3 DEF Accept
  <2>4. CASE Writes(j, FinishedUnfenced(RowOf(j), "failed"))
    BY <1>1, <1>2, <1>4, <2>2, <2>4, FencesFollow, WriteFollows DEF Accept
  <2>5. CASE Writes(j, IF RowOf(j).owner = Proc(j) THEN Released(RowOf(j)) ELSE RowOf(j))
    BY <1>1, <1>2, <1>4, <2>2, <2>5, ClaimFollows, WriteFollows DEF Accept
  <2> QED
    BY <1>4, <2>3, <2>4, <2>5 DEF Accept
<1>5. CASE ClaimTargeted(j)
  <2> DEFINE got == Claimed(RowOf(j), Proc(j))
  <2>1. CASE Writes(j, got) /\ job' = [job EXCEPT ![j] = Holding(got)]
    <3>1. RowsFollow
      BY <1>1, <2>1, ClaimFollows, WriteFollows
    <3>2. Holding(got).pc = "claimed"
      BY DEF Holding, IdleJob
    <3>3. JobsFollow
      BY <2>1, <3>2, OneJobFollows DEF Sending, Sealed
    <3> QED
      BY <1>2, <1>5, <3>1, <3>3 DEF ClaimTargeted
  <2>2. CASE Goes(j, "idle") /\ UNCHANGED run
    BY <1>2, <1>3, <1>5, <2>2, GoFollows DEF ClaimTargeted
  <2> QED
    BY <1>5, <2>1, <2>2 DEF ClaimTargeted
<1>6. CASE SkipLost(j) \/ Refuse(j)
  BY <1>2, <1>3, <1>6, EndFollows DEF SkipLost, Refuse
<1>7. CASE Finish(j)
  <2>1. job[j].verdict \in Decisions
    BY <1>7, JobFacts DEF Finish, At
  <2> DEFINE row == FinishedByOwner(RowOf(j), Proc(j), job[j].verdict,
                        IF job[j].verdict = "completed" THEN Batch ELSE None)
  <2>2. RowFollows(RunOf(j), RowOf(j), row)
    BY <1>1, <2>1, FencesFollow
  <2> QED
    BY <1>2, <1>7, <2>2, WriteFollows, EndFollows DEF Finish
<1>8. CASE FinishBound(j)
  <2>1. /\ job[j].verdict \in Decisions /\ job[j].seen.upstream \in Keys
        /\ job[j].verdict = "completed" => up[RunOf(j)][job[j].seen.upstream] \in Done
    BY <1>8, JobFacts DEF FinishBound, At, Traced, Sealed, Decisions
  <2> DEFINE row == FinishedByExecution(RowOf(j), job[j].seen.upstream, job[j].verdict)
  <2>2. RowFollows(RunOf(j), RowOf(j), row)
    BY <1>1, <2>1, FencesFollow
  <2> QED
    BY <1>2, <1>8, <2>2, WriteFollows, EndFollows DEF FinishBound
<1>9. CASE Release(j)
  <2>1. JobsFollow
    <3>1. IdleJob.pc = "idle"
      BY DEF IdleJob
    <3> QED
      BY <1>9, <3>1, OneJobFollows DEF Release, Sending, Sealed
  <2>2. RowsFollow
    BY <1>1, <1>9, ClaimFollows, WriteFollows DEF Release
  <2> QED
    BY <1>2, <1>9, <2>1, <2>2 DEF Release
<1> QED
  BY <1>4, <1>5, <1>6, <1>7, <1>8, <1>9, DispatchTraced, ObserveTraced, RecoverStopTraced DEF Work

LEMMA RenewTraced ==
    ASSUME Inv, NEW j \in Jobs, Renew(j)
    PROVE  Follows
<1> USE DEF Inv, Follows
<1>1. RuntimeFollows
  BY RuntimeAlone DEF Renew
<1>2. GoodRow(RowOf(j))
  BY JobParts DEF GoodRows, RowOf
<1>3. CASE Writes(j, Claimed(RowOf(j), Proc(j))) /\ UNCHANGED job
  BY <1>1, <1>2, <1>3, ClaimFollows, WriteFollows, JobsAlone
<1>4. CASE job' = [job EXCEPT ![j].lost = TRUE] /\ UNCHANGED run
  <2>1. PICK jb : jb = [job[j] EXCEPT !.lost = TRUE]
    OBVIOUS
  <2>2. jb.pc = job[j].pc /\ jb.verdict = job[j].verdict /\ jb.seen = job[j].seen
    BY <2>1 DEF GoodJobs, Job
  <2>3. job' = [job EXCEPT ![j] = jb]
    BY <1>4, <2>1
  <2>4. JobsFollow
    BY <2>2, <2>3, OneJobFollows DEF Sending, Sealed
  <2> QED
    BY <1>1, <1>4, <2>4, RowsAlone
<1> QED
  BY <1>3, <1>4 DEF Renew

LEMMA ProcessTraced ==
    ASSUME Inv, NEW p \in Reconcilers, StartScheduler(p) \/ Cycle(p) \/ Crash(p)
    PROVE  Follows
<1> USE DEF Inv, Follows
<1>1. RuntimeFollows
  BY RuntimeAlone DEF StartScheduler, Cycle, Crash
<1>2. CASE StartScheduler(p)
  BY <1>1, <1>2, RowsAlone, JobsAlone DEF StartScheduler
<1>3. CASE Cycle(p)
  <2> DEFINE found == {r \in Runs : Claimable(run[r])}
  <2>1. run' = [r \in Runs |-> IF r \in found THEN Claimed(run[r], p) ELSE run[r]]
    BY <1>3 DEF Cycle
  <2>2. RowsFollow
    BY <2>1, ClaimFollows, StaysFollows DEF RowsFollow, GoodRows
  <2>3. job' = [j \in Jobs |-> IF j[1] = p /\ j[3] = "cycle" /\ j[2] \in found
                               THEN Holding(Claimed(run[j[2]], p)) ELSE job[j]]
    BY <1>3 DEF Cycle
  <2>4. \A row : Holding(row).pc = "claimed"
    BY DEF Holding, IdleJob
  <2>5. \A j \in Jobs : job'[j] = job[j] \/ job'[j].pc = "claimed"
    BY <2>3, <2>4
  <2>6. JobsFollow
    BY <2>5 DEF JobsFollow, Sending, Sealed
  <2> QED
    BY <1>1, <2>2, <2>6
<1>4. CASE Crash(p)
  <2>1. \A j \in Jobs : job'[j] = job[j] \/ job'[j].pc = "idle"
    BY <1>4 DEF Crash, IdleJob
  <2>2. JobsFollow
    BY <2>1 DEF JobsFollow, Sending, Sealed
  <2> QED
    BY <1>1, <1>4, <2>2, RowsAlone DEF Crash
<1> QED
  BY <1>2, <1>3, <1>4

\* A run that is begun had no attempt, so nothing of it is sent.
LEMMA BeginTraced ==
    ASSUME Inv, NEW p \in Reconcilers, NEW r \in Runs, BeginChatRun(p, r) \/ BeginManagedRun(p, r)
    PROVE  Follows
<1> USE DEF Inv, Follows
<1> DEFINE j == <<p, r, "targeted">>
<1>1. j \in Jobs
  BY DEF Jobs, Kinds
<1>2. JobsFollow
  BY <1>1, GoFollows DEF BeginChatRun, BeginManagedRun
<1>3. PICK row : /\ run' = [run EXCEPT ![r] = row]
                 /\ row.status = "queued"
  <2>1. QueuedRow.status = "queued" /\ Claimed(QueuedRow, p).status = "queued"
    BY DEF Claimed, QueuedRow, NoRow
  <2> QED
    BY <2>1 DEF BeginChatRun, BeginManagedRun
<1>4. run[r].status = "none" /\ run[r].attempts \in 0 .. MaxAttempts
  BY DEF BeginChatRun, BeginManagedRun, Accepts, GoodRows, Row
<1>5. RowFollows(r, run[r], row)
  BY <1>3, <1>4, LimitsAssumption DEF RowFollows, Ahead, Early, Sound
<1>6. RowsFollow
  BY <1>3, <1>5, OneRowFollows
<1>7. RuntimeFollows
  BY RuntimeAlone DEF BeginChatRun, BeginManagedRun
<1> QED
  BY <1>2, <1>6, <1>7

LEMMA RunTraced ==
    ASSUME Inv, NEW r \in Runs,
           \/ RequestStop(r) \/ DeleteConversation(r)
           \/ OrphanLeaseExpires(r) \/ StalledLeaseExpires(r)
           \/ StopAges(r) \/ RunAges(r)
    PROVE  Follows
<1> USE DEF Inv, Follows
<1>1. GoodRow(run[r])
  BY DEF GoodRows
<1>2. JobsFollow /\ RuntimeFollows
  BY JobsAlone, RuntimeAlone
     DEF RequestStop, DeleteConversation, OrphanLeaseExpires, StalledLeaseExpires, StopAges, RunAges
<1>3. CASE RequestStop(r)
  BY <1>1, <1>2, <1>3, ClaimFollows, OneRowFollows DEF RequestStop
<1>4. CASE DeleteConversation(r)
  <2>1. PICK row : row = [NoRow EXCEPT !.status = "deleted"]
    OBVIOUS
  <2>2. row.status = "deleted"
    BY <2>1 DEF NoRow
  <2>3. RowFollows(r, run[r], row)
    BY <2>2 DEF RowFollows, Ahead, Early, Sound
  <2> QED
    BY <1>2, <1>4, <2>1, <2>3, OneRowFollows DEF DeleteConversation
<1>5. CASE Expires(r)
  <2>1. run' = [run EXCEPT ![r] = [run[r] EXCEPT !.live = FALSE]]
    BY <1>5 DEF Expires
  <2> QED
    BY <1>1, <1>2, <2>1, ClaimFollows, OneRowFollows
<1>6. CASE StopAges(r)
  <2>1. run' = [run EXCEPT ![r] = [run[r] EXCEPT !.stopAged = TRUE]]
    BY <1>6 DEF StopAges
  <2> QED
    BY <1>1, <1>2, <2>1, ClaimFollows, OneRowFollows
<1>7. CASE RunAges(r)
  BY <1>2, <1>7, RowsAlone DEF RunAges
<1> QED
  BY <1>3, <1>4, <1>5, <1>6, <1>7 DEF OrphanLeaseExpires, StalledLeaseExpires

LEMMA RuntimeTraced ==
    ASSUME Inv, NEW r \in Runs, NEW key \in Keys, Deliver(r, key) \/ EndExecution(r, key)
    PROVE  Follows
<1> USE DEF Inv, Follows
<1>1. RowsFollow /\ JobsFollow
  BY RowsAlone, JobsAlone DEF Deliver, EndExecution
<1>2. up \in [Runs -> [Keys -> UpStates]]
  BY DEF GoodWorld
<1>3. CASE Deliver(r, key)
  <2>1. up' = [up EXCEPT ![r][key] = IF @ = "absent" THEN "active" ELSE @]
    BY <1>3 DEF Deliver
  <2>2. \A s \in Runs, k \in Keys : up'[s][k] = up[s][k] \/ (s = r /\ k = key /\ up[r][key] = "absent")
    BY <1>2, <2>1
  <2>3. RuntimeFollows
    BY <1>3, <2>2 DEF Deliver, RuntimeFollows, Done
  <2> QED
    BY <1>1, <2>3
<1>4. CASE EndExecution(r, key)
  <2>1. PICK s : /\ up' = [up EXCEPT ![r][key] = s]
                 /\ up[r][key] # "absent" /\ (up[r][key] \in Done => s = "gone")
    BY <1>4 DEF EndExecution, Done
  <2>2. \A q \in Runs, k \in Keys : up'[q][k] = IF q = r /\ k = key THEN s ELSE up[q][k]
    BY <1>2, <2>1
  <2>3. RuntimeFollows
    BY <1>4, <2>1, <2>2 DEF EndExecution, RuntimeFollows, Done
  <2> QED
    BY <1>1, <2>3
<1> QED
  BY <1>3, <1>4

\* An event stream completes a run by the end of its execution.
LEMMA StreamTraced ==
    ASSUME Inv, NEW s \in streams, StreamEnds(s)
    PROVE  Follows
<1> USE DEF Inv, Follows
<1> DEFINE r   == s[2]
           key == s[3]
<1>1. r \in Runs /\ key \in Keys /\ GoodRow(run[r])
  BY DEF GoodWorld, GoodRows
<1>2. JobsFollow /\ RuntimeFollows
  BY JobsAlone, RuntimeAlone DEF StreamEnds
<1>3. CASE UNCHANGED run
  BY <1>2, <1>3, RowsAlone
<1>4. CASE /\ up[r][key] \in {"completed", "failed", "cancelled", "leaked"}
           /\ run' = [run EXCEPT ![r] = FinishedByExecution(@, key,
                         IF up[r][key] = "leaked" THEN "failed" ELSE up[r][key])]
  <2> DEFINE decision == IF up[r][key] = "leaked" THEN "failed" ELSE up[r][key]
             row == FinishedByExecution(run[r], key, decision)
  <2>1. decision \in Decisions /\ (decision = "completed" => up[r][key] \in Done)
    BY <1>4 DEF Decisions, Done
  <2>2. RowFollows(r, run[r], row)
    BY <1>1, <2>1, FencesFollow
  <2>3. run' = [run EXCEPT ![r] = row]
    BY <1>4
  <2> QED
    BY <1>1, <1>2, <2>2, <2>3, OneRowFollows
<1> QED
  BY <1>3, <1>4 DEF StreamEnds

LEMMA TracedInit == Init => Traced
<1> SUFFICES ASSUME Init PROVE Traced
  OBVIOUS
<1>1. \A r \in Runs : run[r].attempts = 0 /\ run[r].status \in {"none", "queued"}
  BY DEF Init, QueuedRow, NoRow
<1>2. \A j \in Jobs : job[j].pc = "idle"
  BY DEF Init, IdleJob
<1>3. \A r \in Runs, k \in Keys : up[r][k] = "absent" /\ <<r, k>> \notin posts
  BY DEF Init
<1> QED
  BY <1>1, <1>2, <1>3 DEF Traced, Early, Sound, AttemptWrittenAhead, Sealed, Sending

LEMMA TracedNext == Inv /\ Traced /\ [Next]_vars => Traced'
<1> SUFFICES ASSUME Inv, Traced, [Next]_vars PROVE Traced'
  OBVIOUS
<1>1. CASE Next
  BY <1>1, ProcessTraced, BeginTraced, WorkTraced, RenewTraced, RunTraced, RuntimeTraced, StreamTraced,
     FollowsKeeps, Inductive DEF Next
<1>2. CASE UNCHANGED vars
  <2>1. Follows
    BY <1>2, RowsAlone, JobsAlone, RuntimeAlone DEF vars, runtime, Follows
  <2> QED
    BY <2>1, FollowsKeeps, Inductive
<1> QED
  BY <1>1, <1>2

LEMMA AlwaysTraced == Spec => []Traced
<1>1. Init => Traced
  BY TracedInit
<1>2. Inv /\ Traced /\ [Next]_vars => Traced'
  BY TracedNext
<1> QED
  BY <1>1, <1>2, Invariance, PTL DEF Spec

\* The attempt is on the row before anything is sent, whichever job sends it and whatever crashed or
\* was deleted: a run without an attempt has nothing at the runtime (processSingleRun).
THEOREM AttemptsAreWrittenAhead == Spec => []AttemptWrittenAhead
<1>1. Traced => AttemptWrittenAhead
  BY DEF Traced
<1> QED
  BY <1>1, AlwaysTraced, PTL

\* The answer of a completed run is that of the execution on its row, which did complete, or a
\* synchronous one: no stream, probe or late handler brings another's (finishChatRun).
THEOREM AnswersAreBound == Spec => []AnswerOfTheBoundExecution
<1>1. Traced => AnswerOfTheBoundExecution
  BY DEF Traced, Sound, Done, AnswerOfTheBoundExecution
<1> QED
  BY <1>1, AlwaysTraced, PTL

=============================================================================
