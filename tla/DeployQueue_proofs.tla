-------------------------- MODULE DeployQueue_proofs --------------------------
(***************************************************************************)
(* Proofs about DeployQueue, for every set of instances and ports, every   *)
(* mode of removal and every bound: one deployment at a time, the attempt  *)
(* the worker listens to is the current one, a deletion is always queued,  *)
(* a success stays and is served, a waiting task has its port.             *)
(*                                                                         *)
(* None of these is inductive.  A task, its attempts, the worker's lock,   *)
(* the clean-ups and the reconciler's reading are different pieces of      *)
(* state, written by different parts of the server at different times, so  *)
(* the invariant (Inv) says which of them may be at work together: the     *)
(* lock is held for one thing, what goes on unheard is cancelled, what is  *)
(* being removed is settled.                                               *)
(*                                                                         *)
(* The actions are many and their formulas long, the rows they change few: *)
(* first each action is shown to have one of some thirty effects (Effect), *)
(* stated field by field; then, row by row, which effects change it (the   *)
(* lemmas ...Changes); then every part of the invariant is shown to be     *)
(* kept by the effects that change what it is about (the lemmas ...Next).  *)
(***************************************************************************)
EXTENDS DeployQueue, FiniteSetTheorems, TLAPS

\* A compensation that the worker runs itself, with the lock still held.
Own(u) == u.for \in WorkersOwn
\* The call of the deployment has begun and has not returned.
Running(a) == attempt[a].at \notin {"none", "ended"}
\* Provisioned: there is a row, and it has a port.
Housed(i) == inst[i].status # "none" /\ inst[i].port \in Ports
\* Nothing more is to be deployed: the task is over, or its user has asked to cancel it.
Settled(i) == task[i].cancel \/ task[i].status \in {"none", "success", "failed", "cancelled"}

\* Rows that users, attempts and clean-ups refer to are those of provisioned instances.
Housing ==
    /\ \A i \in Instances :
          /\ inst[i].status # "none" => Housed(i)
          /\ inst[i].status = "none" => inst[i].desired = "running"
          /\ cycle[i].at = "idle" => cycle[i].row = NoInstance
          /\ task[i].status = "none" \/ Housed(i)
          /\ cycle[i].at = "idle" \/ Housed(i)
          /\ \A m \in Modes : clean[i][m].status = "none" \/ Housed(i)
    /\ \A a \in Attempts : /\ attempt[a].at = "none" \/ Housed(a[1])
                           /\ attempt[a].active => attempt[a].at # "none"
                           /\ Running(a) => attempt[a].port \in Ports
    /\ \A u \in undoing : Housed(u.inst)

\* No task has been claimed more often than it was granted, whatever was granted by retries.
Limited ==
    \A i \in Instances : /\ task[i].attempt <= task[i].max
                         /\ task[i].max <= MaxAttempts + retries * ExtraAttempts

\* The lock is held for one thing at a time: an attempt the worker listens to, or the compensation
\* that follows it.
LockIsHeld ==
    /\ \A a, b \in Attempts : attempt[a].active /\ attempt[b].active => a = b
    /\ \A u, v \in undoing : Own(u) /\ Own(v) => u = v
    /\ \A a \in Attempts, u \in undoing : ~(attempt[a].active /\ Own(u))
    /\ lock = "attempt" <=> \/ \E a \in Attempts : attempt[a].active
                            \/ \E u \in undoing : Own(u)

\* The attempt the worker listens to is the last claim of its task, by this server and with its lease;
\* it is for the port its instance has, and no other attempt of that instance is at work.
Current ==
    \A a \in Attempts : attempt[a].active /\ retries = 0 =>
        /\ task[a[1]].status = "deploying" /\ task[a[1]].attempt = a[2]
        /\ task[a[1]].worker = boot /\ (task[a[1]].cancel \/ task[a[1]].live)
        /\ attempt[a].port = inst[a[1]].port
        /\ \A b \in Attempts : b[1] = a[1] /\ Running(b) => b = a
        /\ attempt[a].at = "health" => containers[a[1]] \in {attempt[a].port, "none", "residue"}

\* An attempt that goes on unheard is one whose task was cancelled: it cannot succeed any more.
Stale ==
    \A a \in Attempts : Running(a) /\ ~attempt[a].active /\ retries = 0 =>
        task[a[1]].cancel /\ task[a[1]].status # "success"

\* While the worker compensates, or the tick fails what is exhausted, nobody else settles the task.
Compensating ==
    \A u \in undoing :
        /\ Own(u) /\ retries = 0 =>
              /\ task[u.inst].status \in {"deploying", "failed"}
              /\ u.for = "retry" => task[u.inst].status = "deploying" \/ task[u.inst].cancel
        /\ u.for = "exhausted" =>
              lock = "tick" /\ (retries = 0 => task[u.inst].status = "failed")

\* Whoever has been asked to remove an instance, or has read that it is to be removed, finds its
\* task settled.
Withdrawal ==
    retries = 0 =>
    /\ \A i \in Instances :
          /\ inst[i].desired # "running" \/ inst[i].status \in Gone => Settled(i)
          /\ cycle[i].row.desired # "running" \/ cycle[i].row.status \in Gone => Settled(i)
          /\ \A m \in Modes : clean[i][m].status # "none" => Settled(i)
    /\ \A u \in undoing : u.for \in Modes \cup {"verified"} => Settled(u.inst)

\* Nothing is deleted where nobody can ask for it.
Deletable ==
    "delete" \in Modes \/
    \A i \in Instances : /\ inst[i].desired # "deleted" /\ inst[i].status \notin Gone
                         /\ cycle[i].row.desired # "deleted" /\ cycle[i].row.status \notin Gone

\* Retries are granted to tasks whose compensation may still be at work, so what relates a task to
\* its attempts and clean-ups is claimed until the first of them (retries = 0).
Inv == /\ TypeOK /\ Housing /\ Limited /\ LockIsHeld /\ Current /\ Stale /\ Compensating
       /\ Withdrawal /\ Deletable /\ DeletingIsQueued

-----------------------------------------------------------------------------
(* Effects of the steps of an attempt.                                     *)

\* The statuses that deploymentService and the health check write.
Written == {"failed", "gateway_starting", "running", "unhealthy", "frontend_missing_build"}

\* Nothing of the instance changes but its status.
InstStatus(i) ==
    /\ inst' \in [Instances -> Rows]
    /\ \A j \in Instances : j # i => inst'[j] = inst[j]
    /\ inst'[i].desired = inst[i].desired /\ inst'[i].port = inst[i].port
    /\ inst'[i].status = inst[i].status \/ inst'[i].status \in Written

\* Nothing of the attempt changes but where it is and whether the worker listens.
Moves(a) ==
    /\ attempt' \in [Attempts -> AttemptRows]
    /\ \A b \in Attempts : b # a => attempt'[b] = attempt[b]
    /\ attempt'[a].at # "none" /\ attempt'[a].port = attempt[a].port

\* The task of this server is failed, and may be cancelled with that.
TaskFailed(i) ==
    /\ task' \in [Instances -> TaskRows]
    /\ \A j \in Instances : j # i => task'[j] = task[j]
    /\ task'[i].status = "failed" /\ task'[i].cancel \in {task[i].cancel, TRUE}
    /\ task'[i].attempt = task[i].attempt /\ task'[i].max = task[i].max
    /\ task[i].worker = boot

\* What every step of an attempt leaves alone.
Frame(a) ==
    /\ UNCHANGED <<clean, reserved, cycle, op, boot, removals, retries>>
    /\ InstStatus(a[1]) /\ Moves(a)
    /\ \/ containers' = containers
       \/ /\ containers' \in [Instances -> Ports \cup {"none", "residue"}]
          /\ \A j \in Instances : j # a[1] => containers'[j] = containers[j]
          /\ attempt[a].at = "create"

\* The attempt goes on, or ends without a word to the worker, which may not be listening.
Goes(a) ==
    /\ Frame(a)
    /\ Running(a) /\ attempt'[a].active = attempt[a].active
    /\ attempt'[a].at = "health" => containers'[a[1]] = attempt[a].port
    /\ UNCHANGED <<undoing, lock>>
    /\ \/ task' = task
       \/ ~attempt[a].active /\ attempt[a].at = "ping" /\ TaskFailed(a[1])

\* The worker stops listening and compensates.
Gives(a) ==
    /\ Frame(a)
    /\ attempt[a].active /\ ~attempt'[a].active /\ UNCHANGED lock
    /\ task' = task \/ TaskFailed(a[1])
    /\ \E for \in WorkersOwn : /\ undoing' = undoing \cup {Undo(a[1], a[2], for)}
                               /\ for = "retry" => task' = task /\ ~task[a[1]].cancel
    /\ \/ attempt'[a].at = "ended"
       \/ attempt'[a].at = attempt[a].at /\ (task'[a[1]].cancel \/ task[a[1]].worker # boot)

\* The worker takes the deployment for a success.
Succeeds(a) ==
    /\ Frame(a)
    /\ attempt[a].active /\ ~attempt'[a].active /\ attempt'[a].at = "ended"
    /\ attempt[a].at = "health" /\ containers[a[1]] \in Ports /\ ~Withdrawn(a[1])
    /\ UNCHANGED <<undoing, containers>> /\ lock' = "free"
    /\ task' \in [Instances -> TaskRows]
    /\ \A j \in Instances : j # a[1] => task'[j] = task[j]
    /\ task'[a[1]].status = "success" /\ task'[a[1]].cancel = task[a[1]].cancel
    /\ task'[a[1]].attempt = task[a[1]].attempt /\ task'[a[1]].max = task[a[1]].max

\* What a write of the status, with or without its compensation mark, does.
LEMMA StatusWritten ==
    ASSUME TypeOK, NEW i \in Instances, NEW s \in Written
    PROVE  /\ inst' = [inst EXCEPT ![i].status = s] => InstStatus(i)
           /\ inst' = [inst EXCEPT ![i].status = s, ![i].compensated = FALSE] => InstStatus(i)
           /\ inst' = inst => InstStatus(i)
<1>0. s \in Statuses
  BY DEF Written, Statuses
<1>1. ASSUME inst' = [inst EXCEPT ![i].status = s] PROVE InstStatus(i)
  BY <1>0, <1>1 DEF TypeOK, InstStatus, Rows
<1>2. ASSUME inst' = [inst EXCEPT ![i].status = s, ![i].compensated = FALSE] PROVE InstStatus(i)
  <2>1. PICK e : e = [inst[i] EXCEPT !.status = s, !.compensated = FALSE]
    OBVIOUS
  <2>2. inst[i] \in Rows
    BY DEF TypeOK
  <2>3. e \in Rows /\ e.status = s /\ e.desired = inst[i].desired /\ e.port = inst[i].port
    BY <1>0, <2>1, <2>2 DEF Rows
  <2>4. inst' = [inst EXCEPT ![i] = e]
    BY <1>2, <2>1
  <2> QED
    BY <2>3, <2>4 DEF TypeOK, InstStatus
<1>3. ASSUME inst' = inst PROVE InstStatus(i)
  BY <1>3 DEF TypeOK, InstStatus
<1> QED
  BY <1>1, <1>2, <1>3

\* What the two ways of moving an attempt do.
LEMMA AttemptMoved ==
    ASSUME TypeOK, NEW a \in Attempts,
           NEW at \in {"ping", "files", "engine", "network", "image", "create", "health", "ended"}
    PROVE  /\ attempt' = [attempt EXCEPT ![a].at = at] =>
                  Moves(a) /\ attempt'[a].at = at /\ attempt'[a].active = attempt[a].active
           /\ attempt' = [attempt EXCEPT ![a].at = at, ![a].active = FALSE] =>
                  Moves(a) /\ attempt'[a].at = at /\ attempt'[a].active = FALSE
<1>1. ASSUME attempt' = [attempt EXCEPT ![a].at = at]
      PROVE  Moves(a) /\ attempt'[a].at = at /\ attempt'[a].active = attempt[a].active
  BY <1>1 DEF TypeOK, AttemptRows, Moves
<1>2. ASSUME attempt' = [attempt EXCEPT ![a].at = at, ![a].active = FALSE]
      PROVE  Moves(a) /\ attempt'[a].at = at /\ attempt'[a].active = FALSE
  BY <1>2 DEF TypeOK, AttemptRows, Moves
<1> QED
  BY <1>1, <1>2

\* One row of the tasks is replaced.
Replaced(i, e) ==
    /\ task' \in [Instances -> TaskRows]
    /\ \A j \in Instances : j # i => task'[j] = task[j]
    /\ task'[i] = e

\* A typed row in the place of another.
LEMMA TaskReplaced ==
    ASSUME TypeOK, NEW i \in Instances, NEW e \in TaskRows, task' = [task EXCEPT ![i] = e]
    PROVE  Replaced(i, e)
  BY DEF TypeOK, Replaced

\* The two ways of failing a task.
LEMMA TaskFails ==
    ASSUME TypeOK, NEW i \in Instances, task[i].worker = boot
    PROVE  /\ task' = [task EXCEPT ![i].status = "failed", ![i].live = FALSE] => TaskFailed(i)
           /\ task' = [task EXCEPT ![i].status = "failed", ![i].cancel = TRUE] => TaskFailed(i) /\ task'[i].cancel
<1>0. task[i] \in TaskRows
  BY DEF TypeOK
<1>1. ASSUME task' = [task EXCEPT ![i].status = "failed", ![i].live = FALSE] PROVE TaskFailed(i)
  <2>1. PICK e : e = [task[i] EXCEPT !.status = "failed", !.live = FALSE]
    OBVIOUS
  <2>2. /\ e \in TaskRows /\ e.status = "failed" /\ e.cancel = task[i].cancel
        /\ e.attempt = task[i].attempt /\ e.max = task[i].max
    BY <1>0, <2>1 DEF TaskRows
  <2>3. task' = [task EXCEPT ![i] = e]
    BY <1>1, <2>1
  <2> QED
    BY <2>2, <2>3, TaskReplaced DEF TaskFailed, Replaced
<1>2. ASSUME task' = [task EXCEPT ![i].status = "failed", ![i].cancel = TRUE] PROVE TaskFailed(i) /\ task'[i].cancel
  <2>1. PICK e : e = [task[i] EXCEPT !.status = "failed", !.cancel = TRUE]
    OBVIOUS
  <2>2. /\ e \in TaskRows /\ e.status = "failed" /\ e.cancel = TRUE
        /\ e.attempt = task[i].attempt /\ e.max = task[i].max
    BY <1>0, <2>1 DEF TaskRows
  <2>3. task' = [task EXCEPT ![i] = e]
    BY <1>2, <2>1
  <2> QED
    BY <2>2, <2>3, TaskReplaced DEF TaskFailed, Replaced
<1> QED
  BY <1>1, <1>2

\* An attempt is named by its instance and its number.
LEMMA AttemptInstance ==
    ASSUME NEW a \in Attempts
    PROVE  a[1] \in Instances /\ a[2] \in 1 .. AttemptLimit /\ a = <<a[1], a[2]>>
  BY DEF Attempts

\* The catch of an attempt that throws: nothing more comes of it, or the worker compensates.
LEMMA ThrowsStep ==
    ASSUME TypeOK, NEW a \in Attempts, NEW code, Running(a), Throws(a, "ended", code),
           UNCHANGED <<clean, reserved, cycle, op, boot, removals, retries, lock>>,
           InstStatus(a[1]),
           \/ containers' = containers
           \/ /\ containers' \in [Instances -> Ports \cup {"none", "residue"}]
              /\ \A j \in Instances : j # a[1] => containers'[j] = containers[j]
              /\ attempt[a].at = "create",
           \/ task' = task
           \/ attempt[a].at = "ping" /\ TaskFailed(a[1]) /\ code # "port"
    PROVE  Goes(a) \/ Gives(a)
<1>1. CASE attempt[a].active
  <2>1. /\ attempt' = [attempt EXCEPT ![a].at = "ended", ![a].active = FALSE]
        /\ undoing' = undoing \cup {Undo(a[1], a[2], Verdict(a, code))}
    BY <1>1 DEF Throws, GivesUp
  <2>2. Moves(a) /\ attempt'[a].at = "ended" /\ attempt'[a].active = FALSE
    BY <2>1, AttemptMoved
  <2>3. /\ Verdict(a, code) \in WorkersOwn
        /\ Verdict(a, code) = "retry" => code = "port" /\ ~task'[a[1]].cancel
    BY DEF Verdict, WorkersOwn, Withdrawn
  <2>4. PICK for : for = Verdict(a, code)
    OBVIOUS
  <2>5. /\ for \in WorkersOwn /\ undoing' = undoing \cup {Undo(a[1], a[2], for)}
        /\ for = "retry" => task' = task /\ ~task[a[1]].cancel
    BY <2>1, <2>3, <2>4
  <2> QED
    BY <1>1, <2>2, <2>5 DEF Gives, Frame
<1>2. CASE ~attempt[a].active
  <2>1. attempt' = [attempt EXCEPT ![a].at = "ended"] /\ UNCHANGED undoing
    BY <1>2 DEF Throws
  <2>2. Moves(a) /\ attempt'[a].at = "ended" /\ attempt'[a].active = attempt[a].active
    BY <2>1, AttemptMoved
  <2> QED
    BY <1>2, <2>1, <2>2 DEF Goes, Frame
<1> QED
  BY <1>1, <1>2

\* A step of the deployment that fails reports to the instance and throws.
LEMMA ReportsStep ==
    ASSUME TypeOK, NEW a \in Attempts, NEW code, Running(a), Reports(a, code),
           \/ containers' = containers
           \/ /\ containers' \in [Instances -> Ports \cup {"none", "residue"}]
              /\ \A j \in Instances : j # a[1] => containers'[j] = containers[j]
              /\ attempt[a].at = "create"
    PROVE  Goes(a) \/ Gives(a)
<1>1. InstStatus(a[1])
  BY AttemptInstance, StatusWritten DEF Reports, Written
<1> QED
  BY <1>1, ThrowsStep DEF Reports, asked

\* A step that succeeds leads to the next one.
LEMMA GoesOnStep ==
    ASSUME TypeOK, NEW a \in Attempts, Running(a), UNCHANGED containers,
           NEW at \in {"files", "engine", "network", "image", "create", "ended"}, GoesOn(a, at)
    PROVE  Goes(a)
<1>1. InstStatus(a[1])
  BY AttemptInstance, StatusWritten DEF GoesOn, Written
<1>2. Moves(a) /\ attempt'[a].at = at /\ attempt'[a].active = attempt[a].active
  BY AttemptMoved DEF GoesOn
<1> QED
  BY <1>1, <1>2 DEF Goes, Frame, GoesOn, asked, server

\* What an attempt tells of its instance is its status.
LEMMA TellsStep ==
    ASSUME TypeOK, NEW a \in Attempts, NEW s \in Written, Tells(a, s)
    PROVE  InstStatus(a[1])
  BY AttemptInstance, StatusWritten DEF Tells

\* Whatever the call in progress answers, the attempt goes on, is given up or succeeds.
LEMMA AnswersStep ==
    ASSUME TypeOK, Housing, NEW a \in Attempts, AttemptAnswers(a)
    PROVE  Goes(a) \/ Gives(a) \/ Succeeds(a)
<1> USE DEF Running
<1>i. InstStatus(a[1]) \/ inst' # inst
  BY AttemptInstance, StatusWritten DEF Written
<1>1. CASE DockerAnswers(a)
  BY <1>1, GoesOnStep DEF DockerAnswers
<1>2. CASE DockerDown(a)
  <2>1. InstStatus(a[1])
    BY <1>2, AttemptInstance, StatusWritten DEF DockerDown, Written
  <2>2. task' = task \/ TaskFailed(a[1])
    BY <1>2, AttemptInstance, TaskFails DEF DockerDown
  <2> QED
    BY <1>2, <2>1, <2>2, ThrowsStep DEF DockerDown, asked
<1>3. CASE FilesWritten(a)
  BY <1>3, GoesOnStep DEF FilesWritten
<1>4. CASE FilesFail(a)
  <2>1. InstStatus(a[1])
    BY <1>4, <1>i, TellsStep DEF FilesFail, Written
  <2> QED
    BY <1>4, <2>1, ThrowsStep DEF FilesFail, asked
<1>5. CASE EngineAnswers(a)
  BY <1>5, GoesOnStep DEF EngineAnswers
<1>6. CASE EngineDown(a)
  BY <1>6, ReportsStep DEF EngineDown
<1>7. CASE NetworkReady(a)
  BY <1>7, GoesOnStep DEF NetworkReady
<1>8. CASE NetworkFails(a)
  BY <1>8, ReportsStep DEF NetworkFails
<1>9. CASE ImageReady(a)
  BY <1>9, GoesOnStep, ReportsStep DEF ImageReady
<1>10. CASE ImageFails(a)
  BY <1>10, ReportsStep DEF ImageFails
<1>11. CASE ContainersStart(a)
  <2>1. /\ containers' \in [Instances -> Ports \cup {"none", "residue"}]
        /\ \A j \in Instances : j # a[1] => containers'[j] = containers[j]
        /\ containers'[a[1]] = attempt[a].port /\ attempt[a].at = "create"
    BY <1>11, AttemptInstance DEF ContainersStart, Housing, TypeOK
  <2>2. CASE MayProceed(a[1])
    <3>1. Moves(a) /\ attempt'[a].at = "health" /\ attempt'[a].active = attempt[a].active
      BY <1>11, <2>2, AttemptMoved DEF ContainersStart
    <3>2. InstStatus(a[1])
      BY <1>11, <2>2, AttemptInstance, StatusWritten DEF ContainersStart, Written
    <3> QED
      BY <1>11, <2>1, <2>2, <3>1, <3>2 DEF ContainersStart, Goes, Frame, server, asked
  <2>3. CASE ~MayProceed(a[1])
    BY <1>11, <2>1, <2>3, ReportsStep DEF ContainersStart
  <2> QED
    BY <2>2, <2>3
<1>12. CASE ContainersFail(a)
  <2>1. /\ containers' \in [Instances -> Ports \cup {"none", "residue"}]
        /\ \A j \in Instances : j # a[1] => containers'[j] = containers[j]
        /\ attempt[a].at = "create"
    BY <1>12, AttemptInstance DEF ContainersFail, TypeOK
  <2> QED
    BY <1>12, <2>1, ReportsStep DEF ContainersFail
<1>13. CASE VerificationFails(a)
  BY <1>13, ReportsStep DEF VerificationFails
<1>14. CASE HealthUndecided(a)
  <2>1. InstStatus(a[1])
    BY <1>14, TellsStep DEF HealthUndecided, Written
  <2>2. CASE attempt[a].active /\ Withdrawn(a[1])
    <3>1. Moves(a) /\ attempt'[a].at = "ended" /\ attempt'[a].active = FALSE
      BY <1>14, <2>2, AttemptMoved DEF HealthUndecided, GivesUp
    <3>2. "cancelled" \in WorkersOwn
      BY DEF WorkersOwn
    <3> QED
      BY <1>14, <2>1, <2>2, <3>1, <3>2 DEF HealthUndecided, GivesUp, Gives, Frame, asked
  <2>3. CASE ~(attempt[a].active /\ Withdrawn(a[1]))
    <3>1. Moves(a) /\ attempt'[a].at = "ended" /\ attempt'[a].active = attempt[a].active
      BY <1>14, <2>3, AttemptMoved DEF HealthUndecided
    <3> QED
      BY <1>14, <2>1, <2>3, <3>1 DEF HealthUndecided, Goes, Frame, asked
  <2> QED
    BY <2>2, <2>3
<1>15. CASE Healthy(a)
  <2>1. CASE ~attempt[a].active \/ Withdrawn(a[1])
    BY <1>15, <2>1, <1>i, ThrowsStep DEF Healthy, asked
  <2>2. CASE ~(~attempt[a].active \/ Withdrawn(a[1]))
    <3>1. Moves(a) /\ attempt'[a].at = "ended" /\ attempt'[a].active = FALSE
      BY <1>15, <2>2, AttemptMoved DEF Healthy
    <3>2. InstStatus(a[1])
      BY <1>15, <2>2, AttemptInstance, StatusWritten DEF Healthy, Written
    <3>3. /\ task' \in [Instances -> TaskRows]
          /\ \A j \in Instances : j # a[1] => task'[j] = task[j]
          /\ task'[a[1]].status = "success" /\ task'[a[1]].cancel = task[a[1]].cancel
          /\ task'[a[1]].attempt = task[a[1]].attempt /\ task'[a[1]].max = task[a[1]].max
      <4>1. task[a[1]] \in TaskRows /\ a[1] \in Instances
        BY AttemptInstance DEF TypeOK
      <4>2. PICK e : e = [task[a[1]] EXCEPT !.status = "success"]
        OBVIOUS
      <4>3. /\ e \in TaskRows /\ e.status = "success" /\ e.cancel = task[a[1]].cancel
            /\ e.attempt = task[a[1]].attempt /\ e.max = task[a[1]].max
        BY <4>1, <4>2 DEF TaskRows
      <4>4. task' = [task EXCEPT ![a[1]] = e]
        BY <1>15, <2>2, <4>2 DEF Healthy
      <4> QED
        BY <4>1, <4>3, <4>4, TaskReplaced DEF Replaced
    <3> QED
      BY <1>15, <2>2, <3>1, <3>2, <3>3 DEF Healthy, Succeeds, Frame, asked
  <2> QED
    BY <2>1, <2>2
<1>16. ASSUME NEW s \in {"failed", "unhealthy"}, Unhealthy(a, s)
       PROVE  Goes(a) \/ Gives(a)
  <2>1. InstStatus(a[1])
    BY <1>16, TellsStep DEF Unhealthy, Written
  <2> QED
    BY <1>16, <2>1, ThrowsStep DEF Unhealthy, asked
<1> QED
  BY <1>1, <1>2, <1>3, <1>4, <1>5, <1>6, <1>7, <1>8, <1>9, <1>10, <1>11, <1>12, <1>13, <1>14, <1>15, <1>16
     DEF AttemptAnswers

\* A cancellation that is seen, and the watchdog, give the attempt up.
LEMMA GivenUpStep ==
    ASSUME TypeOK, Housing, NEW a \in Attempts, CancellationSeen(a) \/ WatchdogFires(a)
    PROVE  Gives(a)
<1>1. attempt[a].active /\ attempt[a].at # "none" /\ UNCHANGED containers
  BY DEF Housing, CancellationSeen, WatchdogFires
<1>2. attempt[a].at \in {"ping", "files", "engine", "network", "image", "create", "health", "ended"}
  BY <1>1 DEF TypeOK, AttemptRows
<1>3. Moves(a) /\ attempt'[a].at = attempt[a].at /\ attempt'[a].active = FALSE
  BY <1>2, AttemptMoved DEF CancellationSeen, WatchdogFires, GivesUp
<1>4. InstStatus(a[1])
  BY AttemptInstance, StatusWritten DEF Written, CancellationSeen, WatchdogFires
<1>5. {"cancelled", "timeout"} \subseteq WorkersOwn
  BY DEF WorkersOwn
<1>6. CASE CancellationSeen(a)
  BY <1>1, <1>3, <1>4, <1>5, <1>6 DEF CancellationSeen, GivesUp, Gives, Frame, asked
<1>7. CASE WatchdogFires(a)
  <2>1. \/ task' = task /\ task[a[1]].worker # boot
        \/ TaskFailed(a[1]) /\ task'[a[1]].cancel
    BY <1>7, AttemptInstance, TaskFails DEF WatchdogFires
  <2> QED
    BY <1>1, <1>3, <1>4, <1>5, <1>7, <2>1 DEF WatchdogFires, GivesUp, Gives, Frame, asked
<1> QED
  BY <1>6, <1>7

-----------------------------------------------------------------------------
(* Effects of the clean-ups.                                               *)

\* One row of the instances is replaced.
InstIs(i, e) ==
    /\ inst' \in [Instances -> Rows]
    /\ \A j \in Instances : j # i => inst'[j] = inst[j]
    /\ inst'[i] = e

\* A typed row in the place of another.
LEMMA InstReplaced ==
    ASSUME TypeOK, NEW i \in Instances, NEW e \in Rows, inst' = [inst EXCEPT ![i] = e]
    PROVE  InstIs(i, e)
  BY DEF TypeOK, InstIs

\* The reasons of a clean-up do not overlap.
LEMMA ModesAreRemovals ==
    /\ \A m \in Modes : m \in {"delete", "archive"} /\ m \notin Compensations \cup {"verified"}
    /\ WorkersOwn \subseteq Compensations
  BY ModesAssumption DEF Compensations, WorkersOwn

\* What the end of a clean-up does to the worker and to the ports.
Ended(u) ==
    /\ undoing' = undoing \ {u} /\ lock' = IF Own(u) THEN "free" ELSE lock
    /\ UNCHANGED <<containers, attempt, cycle, boot, removals, retries>>
    /\ reserved' = reserved \/ reserved' = Unreserved(u.inst)

\* What the end of a clean-up writes of its instance.
EndedInst(u) ==
    LET i == u.inst
    IN  /\ inst' \in [Instances -> Rows]
        /\ \A j \in Instances : j # i => inst'[j] = inst[j]
        /\ inst'[i].port = inst[i].port
        /\ \/ inst'[i].status \in {inst[i].status, "failed"} /\ inst'[i].desired = inst[i].desired
           \/ u.for = "delete" /\ inst'[i].status \in {"deleted", "cleanup_failed", "deleting"}
              /\ inst'[i].desired \in {inst[i].desired, "deleted"}
           \/ u.for = "archive" /\ inst'[i].status \in {"archived", "cleanup_failed", "archiving"}
              /\ inst'[i].desired \in {inst[i].desired, "archived"}

\* What it writes of the task: a compensation of the worker settles it, the others leave it alone.
EndedTask(u) ==
    LET i == u.inst
    IN  /\ task' \in [Instances -> TaskRows]
        /\ \A j \in Instances : j # i => task'[j] = task[j]
        /\ task'[i].cancel = task[i].cancel /\ task'[i].live = task[i].live
        /\ task'[i].attempt = task[i].attempt /\ task'[i].max = task[i].max
        /\ task'[i].worker = task[i].worker
        /\ \/ task'[i].status = task[i].status
           \/ Own(u) /\ task'[i].status \in {"failed", "cancelled"}

\* What it writes of the queued clean-ups: its own row, if it has one.
EndedClean(u) ==
    LET i == u.inst
    IN  /\ clean' \in [Instances -> [Modes -> CleanRows]] /\ op' \in [Instances -> Modes \cup {None}]
        /\ \A j \in Instances, m \in Modes : j # i \/ m # u.for => clean'[j][m] = clean[j][m]
        /\ u.for = "delete" /\ inst'[i].status = "deleting" => clean'[i]["delete"].status = "retry_wait"

\* TaskAfter writes no more than that.
LEMMA TaskAfterStep ==
    ASSUME TypeOK, NEW u \in undoing, task' = [task EXCEPT ![u.inst] = TaskAfter(@, u.for)]
    PROVE  EndedTask(u)
<1> DEFINE e == TaskAfter(task[u.inst], u.for)
<1>0. u.inst \in Instances /\ task[u.inst] \in TaskRows
  BY DEF TypeOK, Undos
<1>1. CASE u.for \in {"cancelled", "failed"}
  <2>1. e = [task[u.inst] EXCEPT !.status = u.for]
    BY <1>1 DEF TaskAfter
  <2>2. /\ e \in TaskRows /\ e.status = u.for /\ e.cancel = task[u.inst].cancel /\ e.live = task[u.inst].live
        /\ e.attempt = task[u.inst].attempt /\ e.max = task[u.inst].max /\ e.worker = task[u.inst].worker
    BY <1>0, <1>1, <2>1 DEF TaskRows
  <2>3. Own(u)
    BY <1>1 DEF Own, WorkersOwn
  <2>4. task' = [task EXCEPT ![u.inst] = e]
    BY DEF TaskAfter
  <2>5. Replaced(u.inst, e)
    BY <1>0, <2>2, <2>4, TaskReplaced
  <2> HIDE DEF e
  <2> QED
    BY <1>1, <2>2, <2>3, <2>5 DEF EndedTask, Replaced
<1>2. CASE u.for \notin {"cancelled", "failed"}
  <2>1. task' = task
    BY <1>0, <1>2 DEF TaskAfter, TypeOK
  <2> QED
    BY <1>0, <2>1 DEF EndedTask, TypeOK
<1> QED
  BY <1>1, <1>2

\* InstAfter gives a typed row that keeps its port.
LEMMA InstAfterRow ==
    ASSUME NEW row \in Rows, NEW for \in Compensations \cup Modes \cup {"verified"}
    PROVE  LET e == InstAfter(row, for)
           IN  /\ e \in Rows /\ e.port = row.port
               /\ \/ e.status \in {row.status, "failed"} /\ e.desired = row.desired
                  \/ for = "delete" /\ e.status = "deleted" /\ e.desired = "deleted"
                  \/ for = "archive" /\ e.status = "archived" /\ e.desired = "archived"
<1>1. CASE for \in {"failed", "timeout", "exhausted"}
  <2>1. InstAfter(row, for) = [row EXCEPT !.status = "failed"]
    BY <1>1 DEF InstAfter
  <2> QED
    BY <2>1 DEF Rows, Statuses
<1>2. CASE for = "verified"
  <2>1. InstAfter(row, for) = [row EXCEPT !.verified = TRUE]
    BY <1>2 DEF InstAfter
  <2> QED
    BY <2>1 DEF Rows
<1>3. CASE for = "delete"
  <2>1. InstAfter(row, for) = [row EXCEPT !.status = "deleted", !.desired = "deleted", !.verified = TRUE]
    BY <1>3 DEF InstAfter
  <2> QED
    BY <1>3, <2>1 DEF Rows, Statuses
<1>4. CASE for = "archive"
  <2>1. InstAfter(row, for) = [row EXCEPT !.status = "archived", !.desired = "archived", !.verified = TRUE]
    BY <1>4 DEF InstAfter
  <2> QED
    BY <1>4, <2>1 DEF Rows, Statuses
<1>5. CASE for \in {"cancelled", "retry", "reconciled"}
  <2>1. InstAfter(row, for) = row
    BY <1>5 DEF InstAfter
  <2> QED
    BY <2>1 DEF Rows
<1> QED
  BY <1>1, <1>2, <1>3, <1>4, <1>5, ModesAreRemovals DEF Compensations

\* InstAfter writes no more than EndedInst allows.
LEMMA InstAfterStep ==
    ASSUME TypeOK, NEW u \in undoing, NEW row \in Rows,
           row.status = inst[u.inst].status, row.desired = inst[u.inst].desired, row.port = inst[u.inst].port,
           inst' = [inst EXCEPT ![u.inst] = InstAfter(row, u.for)]
    PROVE  EndedInst(u)
<1> DEFINE e == InstAfter(row, u.for)
<1>0. u.inst \in Instances /\ u.for \in Compensations \cup Modes \cup {"verified"}
  BY DEF TypeOK, Undos
<1>1. /\ e \in Rows /\ e.port = row.port
      /\ \/ e.status \in {row.status, "failed"} /\ e.desired = row.desired
         \/ u.for = "delete" /\ e.status = "deleted" /\ e.desired = "deleted"
         \/ u.for = "archive" /\ e.status = "archived" /\ e.desired = "archived"
  BY <1>0, InstAfterRow
<1>2. InstIs(u.inst, e)
  BY <1>0, <1>1, InstReplaced
<1> HIDE DEF e
<1> QED
  BY <1>1, <1>2 DEF EndedInst, InstIs

\* The end of a queued clean-up changes its own row and the operation of its instance.
LEMMA CleanupEndsStep ==
    ASSUME TypeOK, NEW u \in undoing, u.for \in Modes, NEW s \in {"success", "failed", "retry_wait"},
           CleanupEnds(u.inst, u.for, s)
    PROVE  /\ clean' \in [Instances -> [Modes -> CleanRows]] /\ op' \in [Instances -> Modes \cup {None}]
           /\ \A j \in Instances, m \in Modes : j # u.inst \/ m # u.for => clean'[j][m] = clean[j][m]
           /\ clean'[u.inst][u.for].status = s
<1>0. u.inst \in Instances /\ clean[u.inst][u.for] \in CleanRows
  BY DEF TypeOK, Undos
<1>1. PICK e : e = [clean[u.inst][u.for] EXCEPT !.status = s, !.live = FALSE]
  OBVIOUS
<1>2. e \in CleanRows /\ e.status = s
  BY <1>0, <1>1 DEF CleanRows
<1>3. clean' = [clean EXCEPT ![u.inst][u.for] = e]
  BY <1>1 DEF CleanupEnds
<1>4. op' \in [Instances -> Modes \cup {None}]
  BY DEF CleanupEnds, TypeOK
<1> QED
  BY <1>0, <1>2, <1>3, <1>4 DEF TypeOK

\* The last step of a clean-up, for every reason it can have.
LEMMA ReleasesStep ==
    ASSUME TypeOK, NEW u \in undoing, Releases(u)
    PROVE  Ended(u) /\ EndedInst(u) /\ EndedTask(u) /\ EndedClean(u)
<1>0. /\ u.inst \in Instances /\ u.for \in Compensations \cup Modes \cup {"verified"}
      /\ inst[u.inst] \in Rows
  BY DEF TypeOK, Undos
<1>1. Ended(u)
  BY DEF Releases, Ended, LockAfter, Own, WorkersOwn, asked
<1>2. PICK row \in Rows :
          /\ row.status = inst[u.inst].status /\ row.desired = inst[u.inst].desired
          /\ row.port = inst[u.inst].port
          /\ inst' = [inst EXCEPT ![u.inst] = InstAfter(row, u.for)]
  <2>1. PICK e : e = Compensated(inst[u.inst], u.for)
    OBVIOUS
  <2>2. /\ e \in Rows /\ e.status = inst[u.inst].status /\ e.desired = inst[u.inst].desired
        /\ e.port = inst[u.inst].port
    BY <1>0, <2>1 DEF Rows, Compensated
  <2>3. inst' = [inst EXCEPT ![u.inst] = InstAfter(e, u.for)]
    BY <2>1 DEF Releases
  <2> QED
    BY <2>2, <2>3
<1>5. EndedInst(u)
  BY <1>2, InstAfterStep
<1>3. EndedTask(u)
  BY TaskAfterStep DEF Releases
<1>4. EndedClean(u)
  <2>1. CASE u.for \in Modes
    <3>1. u.for = "delete" => inst'[u.inst].status = "deleted"
      <4>4. u.for = "delete" => InstAfter(row, u.for).status = "deleted"
        BY <1>2 DEF InstAfter, Rows
      <4>5. inst'[u.inst] = InstAfter(row, u.for)
        BY <1>0, <1>2 DEF TypeOK
      <4> QED
        BY <4>4, <4>5
    <3> QED
      BY <2>1, <3>1, CleanupEndsStep DEF Releases, EndedClean
  <2>2. CASE u.for \notin Modes
    <3>1. clean' = clean /\ op' = op
      BY <2>2 DEF Releases
    <3>2. u.for # "delete" \/ inst'[u.inst].status # "deleting"
      BY <1>0, <2>2 DEF Compensations
    <3> QED
      BY <3>1, <3>2 DEF EndedClean, TypeOK
  <2> QED
    BY <2>1, <2>2
<1> QED
  BY <1>1, <1>5, <1>3, <1>4

\* The end of a clean-up that Docker refused, for every reason it can have.
LEMMA RefusesStep ==
    ASSUME TypeOK, NEW u \in undoing, DockerRefuses(u)
    PROVE  Ended(u) /\ EndedInst(u) /\ EndedTask(u) /\ EndedClean(u)
<1>0. /\ u.inst \in Instances /\ u.for \in Compensations \cup Modes \cup {"verified"}
      /\ inst[u.inst] \in Rows
  BY DEF TypeOK, Undos
<1>1. CASE u.for \in Modes
  <2>0. /\ u.for \in {"delete", "archive"} /\ ~Own(u)
    BY <1>1, ModesAreRemovals DEF Own
  <2>1. Ended(u)
    BY <1>1, <2>0 DEF DockerRefuses, Ended, asked
  <2>2. PICK s \in {"failed", "retry_wait"}, st \in {"cleanup_failed", "archiving", "deleting"} :
            /\ CleanupEnds(u.inst, u.for, s) /\ inst' = [inst EXCEPT ![u.inst].status = st]
            /\ u.for = "archive" => st # "deleting"
            /\ u.for = "delete" => st # "archiving"
            /\ st = "deleting" => s = "retry_wait"
    BY <1>1, <2>0 DEF DockerRefuses
  <2>3. /\ inst' \in [Instances -> Rows]
        /\ \A j \in Instances : j # u.inst => inst'[j] = inst[j]
        /\ inst'[u.inst].port = inst[u.inst].port /\ inst'[u.inst].desired = inst[u.inst].desired
        /\ inst'[u.inst].status = st
    BY <1>0, <2>2 DEF TypeOK, Rows, Statuses
  <2>4. EndedInst(u)
    BY <2>0, <2>2, <2>3 DEF EndedInst
  <2>5. EndedTask(u)
    BY <1>1, <1>0 DEF DockerRefuses, EndedTask, TypeOK
  <2>6. EndedClean(u)
    BY <1>1, <2>2, <2>3, CleanupEndsStep DEF EndedClean
  <2> QED
    BY <2>1, <2>4, <2>5, <2>6
<1>2. CASE u.for \notin Modes
  <2>1. Ended(u)
    BY <1>2 DEF DockerRefuses, Ended, LockAfter, Own, WorkersOwn, asked
  <2>2. EndedInst(u)
    <3>1. CASE u.for = "verified"
      BY <1>0, <1>2, <3>1 DEF DockerRefuses, EndedInst, TypeOK
    <3>2. CASE u.for # "verified"
      BY <1>0, <1>2, <3>2, InstAfterStep DEF DockerRefuses
    <3> QED
      BY <3>1, <3>2
  <2>3. EndedTask(u)
    BY <1>2, TaskAfterStep DEF DockerRefuses
  <2>4. EndedClean(u)
    <3>1. u.for # "delete"
      BY <1>0, <1>2 DEF Compensations
    <3> QED
      BY <1>2, <3>1 DEF DockerRefuses, EndedClean, TypeOK
  <2> QED
    BY <2>1, <2>2, <2>3, <2>4
<1> QED
  BY <1>1, <1>2

-----------------------------------------------------------------------------
(* Effects of what users, the tick, leases and the reconciler do.          *)

\* One retry more grants as many attempts more, and no more than the bound.
LEMMA ProductGrows ==
    ASSUME NEW e \in Nat, NEW r \in Nat, NEW s \in Nat, r < s
    PROVE  /\ (r + 1) * e = r * e + e
           /\ (r + 1) * e <= s * e
<1>1. (r + 1) * e = r * e + e
  OBVIOUS
<1>2. PICK k \in Nat : s = r + 1 + k
  <2>1. s - r - 1 \in Nat /\ s = r + 1 + (s - r - 1)
    OBVIOUS
  <2> QED
    BY <2>1
<1>3. s * e = (r + 1) * e + k * e
  BY <1>2
<1>4. k * e \in Nat
  OBVIOUS
<1> QED
  BY <1>1, <1>3, <1>4

\* The attempts a task may be granted are those that TypeOK bounds.
LEMMA LimitBounds ==
    ASSUME NEW r \in 0 .. MaxRetries
    PROVE  /\ MaxAttempts + r * ExtraAttempts \in Nat \ {0}
           /\ MaxAttempts + r * ExtraAttempts <= AttemptLimit
           /\ AttemptLimit \in Nat \ {0}
<1>1. MaxAttempts \in Nat \ {0} /\ ExtraAttempts \in Nat \ {0} /\ MaxRetries \in Nat
  BY LimitsAssumption, BoundsAssumption
<1>2. r * ExtraAttempts \in Nat /\ MaxRetries * ExtraAttempts \in Nat
  BY <1>1
<1>3. r * ExtraAttempts <= MaxRetries * ExtraAttempts
  <2>1. CASE r = MaxRetries
    BY <1>2, <2>1
  <2>2. CASE r < MaxRetries
    BY <1>1, <1>2, <2>2, ProductGrows
  <2> QED
    BY <1>1, <2>1, <2>2
<1> QED
  BY <1>1, <1>2, <1>3 DEF AttemptLimit

\* A task's row changes, but not what it was granted.
TaskKeeps(i) ==
    /\ task' \in [Instances -> TaskRows]
    /\ \A j \in Instances : j # i => task'[j] = task[j]
    /\ task'[i].attempt = task[i].attempt /\ task'[i].max = task[i].max

\* One row of the instances changes.
InstKeeps(i) ==
    /\ inst' \in [Instances -> Rows]
    /\ \A j \in Instances : j # i => inst'[j] = inst[j]

\* An instance is provisioned: its port is reserved and its task queued.
Provisioned(i) ==
    /\ InstKeeps(i) /\ inst[i].status = "none" /\ inst'[i].status = "provisioning"
    /\ inst'[i].desired = inst[i].desired /\ inst'[i].port \in Ports
    /\ TaskKeeps(i) /\ task'[i].status = "queued"
    /\ reserved' \subseteq Ports \X Instances /\ <<inst'[i].port, i>> \in reserved'
    /\ \A j \in Instances \ {i}, p \in Ports : <<p, j>> \in reserved => <<p, j>> \in reserved'
    /\ UNCHANGED <<clean, containers, attempt, lock, undoing, cycle, op, boot, removals, retries>>

\* Provision does that.
LEMMA ProvisionStep ==
    ASSUME TypeOK, NEW i \in Instances, Provision(i)
    PROVE  Provisioned(i)
<1>1. PICK p \in Free(i) : Reserves(i, p) /\ inst' = [inst EXCEPT ![i].status = "provisioning", ![i].port = p]
  BY DEF Provision
<1>2. p \in Ports /\ inst[i] \in Rows
  BY DEF Free, TypeOK
<1>3. PICK e : e = [inst[i] EXCEPT !.status = "provisioning", !.port = p]
  OBVIOUS
<1>4. e \in Rows /\ e.status = "provisioning" /\ e.desired = inst[i].desired /\ e.port = p
  BY <1>2, <1>3 DEF Rows, Statuses
<1>5. InstIs(i, e)
  <2>1. inst' = [inst EXCEPT ![i] = e]
    BY <1>1, <1>3
  <2> QED
    BY <1>4, <2>1, InstReplaced
<1>6. TaskKeeps(i) /\ task'[i].status = "queued"
  <2>0. task[i] \in TaskRows
    BY DEF TypeOK
  <2>1. PICK t : t = [task[i] EXCEPT !.status = "queued"]
    OBVIOUS
  <2>2. t \in TaskRows /\ t.status = "queued" /\ t.attempt = task[i].attempt /\ t.max = task[i].max
    BY <2>0, <2>1 DEF TaskRows
  <2>3. task' = [task EXCEPT ![i] = t]
    BY <2>1 DEF Provision
  <2> QED
    BY <2>2, <2>3, TaskReplaced DEF Replaced, TaskKeeps
<1>7. /\ reserved' \subseteq Ports \X Instances /\ <<p, i>> \in reserved'
      /\ \A j \in Instances \ {i}, q \in Ports : <<q, j>> \in reserved => <<q, j>> \in reserved'
  BY <1>1, <1>2 DEF Reserves, TypeOK
<1> QED
  BY <1>2, <1>4, <1>5, <1>6, <1>7 DEF InstIs, InstKeeps, Provision, server, asked, Provisioned

\* A cancelled task is settled, and one that waits for the worker is over at once.
LEMMA CancelledRow ==
    ASSUME NEW row \in TaskRows
    PROVE  LET e == Cancelled(row)
           IN  /\ e \in TaskRows /\ e.attempt = row.attempt /\ e.max = row.max /\ e.worker = row.worker
               /\ e.live = row.live
               /\ row.cancel => e.cancel
               /\ IF row.status \in {"queued", "retry_wait"} THEN e.status = "cancelled" ELSE e.status = row.status
               /\ e.cancel \/ e.status \in {"none", "success", "failed", "cancelled"}
<1>1. CASE row.status \in {"queued", "retry_wait"}
  <2>1. Cancelled(row) = [row EXCEPT !.cancel = TRUE, !.status = "cancelled"]
    BY <1>1 DEF Cancelled
  <2> QED
    BY <1>1, <2>1 DEF TaskRows
<1>2. CASE row.status = "deploying"
  <2>1. Cancelled(row) = [row EXCEPT !.cancel = TRUE, !.status = "deploying"]
    BY <1>2 DEF Cancelled
  <2> QED
    BY <1>2, <2>1 DEF TaskRows
<1>3. CASE row.status \notin {"queued", "retry_wait", "deploying"}
  <2>1. Cancelled(row) = row
    BY <1>3 DEF Cancelled
  <2> QED
    BY <1>3, <2>1 DEF TaskRows
<1> QED
  BY <1>1, <1>2, <1>3

\* A clean-up that is asked for is queued, unless it already is.
LEMMA CleanupQueuedRow ==
    ASSUME NEW row \in CleanRows
    PROVE  CleanupQueued(row) \in CleanRows /\ CleanupQueued(row).status \in {"queued", "cleaning", "retry_wait"}
<1>1. NoClean \in CleanRows
  BY LimitsAssumption DEF NoClean, CleanRows
<1>2. /\ [NoClean EXCEPT !.status = "queued"] \in CleanRows
      /\ [NoClean EXCEPT !.status = "queued"].status = "queued"
  BY <1>1 DEF CleanRows
<1> QED
  BY <1>2 DEF CleanupQueued

\* One row of the queued clean-ups changes.
CleanKeeps(i, m) ==
    /\ clean' \in [Instances -> [Modes -> CleanRows]]
    /\ \A j \in Instances, n \in Modes : j # i \/ n # m => clean'[j][n] = clean[j][n]

\* A typed row in the place of another.
LEMMA CleanReplaced ==
    ASSUME TypeOK, NEW i \in Instances, NEW m \in Modes, NEW e \in CleanRows, clean' = [clean EXCEPT ![i][m] = e]
    PROVE  CleanKeeps(i, m) /\ clean'[i][m] = e
  BY DEF TypeOK, CleanKeeps

\* A removal is asked for: the task is settled and the clean-up queued.
RemovalAsked(i, m) ==
    /\ InstKeeps(i) /\ inst[i].status # "none" /\ inst'[i].port = inst[i].port
    /\ IF m = "delete" THEN inst'[i].status = "deleting" /\ inst'[i].desired = "deleted"
                       ELSE inst'[i].status = "archiving" /\ inst'[i].desired = "archived"
    /\ TaskKeeps(i) /\ task'[i].worker = task[i].worker /\ task'[i].live = task[i].live
    /\ task[i].cancel => task'[i].cancel
    /\ IF task[i].status \in {"queued", "retry_wait"} THEN task'[i].status = "cancelled"
                                                     ELSE task'[i].status = task[i].status
    /\ Settled(i)'
    /\ CleanKeeps(i, m) /\ clean'[i][m].status \in {"queued", "cleaning", "retry_wait"}
    /\ op' \in [Instances -> Modes \cup {None}] /\ removals' \in 0 .. MaxRemovals
    /\ UNCHANGED <<reserved, containers, attempt, lock, undoing, cycle, boot, retries>>

\* RequestRemoval does that.
LEMMA RemovalStep ==
    ASSUME TypeOK, NEW i \in Instances, NEW m \in Modes, RequestRemoval(i, m)
    PROVE  RemovalAsked(i, m)
<1>0. inst[i] \in Rows /\ task[i] \in TaskRows /\ clean[i][m] \in CleanRows
  BY DEF TypeOK
<1>1. PICK e : e = [inst[i] EXCEPT !.desired = IF m = "delete" THEN "deleted" ELSE "archived",
                                   !.status  = IF m = "delete" THEN "deleting" ELSE "archiving"]
  OBVIOUS
<1>2. /\ e \in Rows /\ e.port = inst[i].port
      /\ IF m = "delete" THEN e.status = "deleting" /\ e.desired = "deleted"
                         ELSE e.status = "archiving" /\ e.desired = "archived"
  BY <1>0, <1>1 DEF Rows, Statuses
<1>3. InstIs(i, e)
  <2>1. inst' = [inst EXCEPT ![i] = e]
    BY <1>1 DEF RequestRemoval, RemovalRequested
  <2> QED
    BY <1>2, <2>1, InstReplaced
<1>4. PICK t \in TaskRows : t = Cancelled(task[i]) /\ Replaced(i, t)
  <2>1. PICK t : t = Cancelled(task[i])
    OBVIOUS
  <2>2. task' = [task EXCEPT ![i] = t]
    BY <2>1 DEF RequestRemoval
  <2>3. t \in TaskRows
    BY <1>0, <2>1, CancelledRow
  <2> QED
    BY <2>1, <2>2, <2>3, TaskReplaced
<1>8. /\ t.attempt = task[i].attempt /\ t.max = task[i].max /\ t.worker = task[i].worker
      /\ t.live = task[i].live
      /\ task[i].cancel => t.cancel
      /\ IF task[i].status \in {"queued", "retry_wait"} THEN t.status = "cancelled" ELSE t.status = task[i].status
      /\ t.cancel \/ t.status \in {"none", "success", "failed", "cancelled"}
  BY <1>0, <1>4, CancelledRow
<1>5. CleanKeeps(i, m) /\ clean'[i][m].status \in {"queued", "cleaning", "retry_wait"}
  <2>1. PICK c : c = CleanupQueued(clean[i][m])
    OBVIOUS
  <2>2. clean' = [clean EXCEPT ![i][m] = c]
    BY <2>1 DEF RequestRemoval
  <2> QED
    BY <1>0, <2>1, <2>2, CleanupQueuedRow, CleanReplaced
<1>6. op' \in [Instances -> Modes \cup {None}] /\ removals' \in 0 .. MaxRemovals
  BY BoundsAssumption DEF RequestRemoval, TypeOK
<1>7. /\ TaskKeeps(i) /\ task'[i].worker = task[i].worker /\ task'[i].live = task[i].live
      /\ task[i].cancel => task'[i].cancel
      /\ IF task[i].status \in {"queued", "retry_wait"} THEN task'[i].status = "cancelled"
                                                       ELSE task'[i].status = task[i].status
      /\ Settled(i)'
  <2>1. task'[i] = t
    BY <1>4 DEF Replaced
  <2>2. TaskKeeps(i)
    BY <1>4, <1>8 DEF Replaced, TaskKeeps
  <2>3. Settled(i)'
    BY <1>8, <2>1 DEF Settled
  <2> QED
    BY <1>8, <2>1, <2>2, <2>3
<1> QED
  BY <1>2, <1>3, <1>5, <1>6, <1>7 DEF InstIs, InstKeeps, RequestRemoval, RemovalAsked

\* A user retries a failed task, which is granted ExtraAttempts beyond those it has used.
Retried(i) ==
    /\ task[i].status = "failed" /\ retries' = retries + 1 /\ retries' \in 1 .. MaxRetries
    /\ InstKeeps(i) /\ inst'[i].port \in {inst[i].port} \cup Ports
    /\ inst'[i].status \in {inst[i].status, "provisioning"}
    /\ inst'[i].desired \in {inst[i].desired, "running"}
    /\ task' \in [Instances -> TaskRows]
    /\ \A j \in Instances : j # i => task'[j] = task[j]
    /\ task'[i].status \in {"failed", "retry_wait"}
    /\ task'[i].attempt <= task'[i].max /\ task'[i].max <= MaxAttempts + retries' * ExtraAttempts
    /\ reserved' \subseteq Ports \X Instances
    /\ UNCHANGED <<clean, containers, attempt, lock, undoing, cycle, op, boot, removals>>

\* RequestRetry does that.
LEMMA RetryStep ==
    ASSUME TypeOK, Limited, NEW i \in Instances, RequestRetry(i)
    PROVE  Retried(i)
<1>0. /\ inst[i] \in Rows /\ task[i] \in TaskRows /\ retries \in 0 .. MaxRetries
      /\ ExtraAttempts \in Nat \ {0} /\ MaxAttempts \in Nat \ {0} /\ MaxRetries \in Nat
  BY LimitsAssumption, BoundsAssumption DEF TypeOK
<1>1. retries < MaxRetries /\ retries' = retries + 1 /\ retries' \in 1 .. MaxRetries /\ task[i].status = "failed"
  <2>1. retries < MaxRetries /\ retries' = retries + 1 /\ task[i].status = "failed"
    BY DEF RequestRetry
  <2> QED
    BY <1>0, <2>1
<1>2. /\ retries * ExtraAttempts \in Nat
      /\ retries' * ExtraAttempts = retries * ExtraAttempts + ExtraAttempts
  BY <1>0, <1>1, ProductGrows
<1>3. /\ task[i].attempt \in 0 .. AttemptLimit /\ task[i].max \in 1 .. AttemptLimit
      /\ task[i].attempt <= task[i].max /\ task[i].max <= MaxAttempts + retries * ExtraAttempts
  BY <1>0 DEF TaskRows, Limited
<1>4. PICK limit : limit = IF task[i].max > task[i].attempt + ExtraAttempts
                          THEN task[i].max ELSE task[i].attempt + ExtraAttempts
  OBVIOUS
<1>5. /\ task[i].attempt <= limit /\ limit <= MaxAttempts + retries' * ExtraAttempts
      /\ limit \in 1 .. AttemptLimit
  <2>1. AttemptLimit \in Nat /\ MaxAttempts + retries' * ExtraAttempts <= AttemptLimit
    BY <1>1, LimitBounds
  <2> QED
    BY <1>0, <1>2, <1>3, <1>4, <2>1
<1>6. ASSUME NEW p \in Free(i), Reserves(i, p),
             inst' = [inst EXCEPT ![i] = [@ EXCEPT !.status = "provisioning",
                               !.desired = "running", !.port = p, !.compensated = FALSE]],
             task' = [task EXCEPT ![i] = [@ EXCEPT !.status = "retry_wait", !.cancel = FALSE, !.max = limit]]
      PROVE  /\ InstKeeps(i) /\ inst'[i].port \in Ports
             /\ inst'[i].status = "provisioning" /\ inst'[i].desired = "running"
             /\ task' \in [Instances -> TaskRows]
             /\ \A j \in Instances : j # i => task'[j] = task[j]
             /\ task'[i].status = "retry_wait" /\ task'[i].attempt = task[i].attempt /\ task'[i].max = limit
             /\ reserved' \subseteq Ports \X Instances
  <2>1. p \in Ports
    BY DEF Free
  <2>2. PICK e : e = [inst[i] EXCEPT !.status = "provisioning", !.desired = "running", !.port = p, !.compensated = FALSE]
    OBVIOUS
  <2>3. e \in Rows /\ e.status = "provisioning" /\ e.desired = "running" /\ e.port = p
    BY <1>0, <2>1, <2>2 DEF Rows, Statuses
  <2>4. InstIs(i, e)
    <3>1. inst' = [inst EXCEPT ![i] = e]
      BY <1>6, <2>2
    <3> QED
      BY <2>3, <3>1, InstReplaced
  <2>5. PICK t : t = [task[i] EXCEPT !.status = "retry_wait", !.cancel = FALSE, !.max = limit]
    OBVIOUS
  <2>6. t \in TaskRows /\ t.status = "retry_wait" /\ t.attempt = task[i].attempt /\ t.max = limit
    BY <1>0, <1>5, <2>5 DEF TaskRows
  <2>7. Replaced(i, t)
    <3>1. task' = [task EXCEPT ![i] = t]
      BY <1>6, <2>5
    <3> QED
      BY <2>6, <3>1, TaskReplaced
  <2>8. reserved' \subseteq Ports \X Instances
    BY <1>6, <2>1 DEF Reserves, TypeOK
  <2> QED
    BY <2>1, <2>3, <2>4, <2>6, <2>7, <2>8 DEF InstIs, InstKeeps, Replaced
<1>7. CASE \E p \in Free(i) :
             /\ Reserves(i, p)
             /\ inst' = [inst EXCEPT ![i] = [@ EXCEPT !.status = "provisioning",
                               !.desired = "running", !.port = p, !.compensated = FALSE]]
             /\ task' = [task EXCEPT ![i] = [@ EXCEPT !.status = "retry_wait", !.cancel = FALSE, !.max = limit]]
  BY <1>1, <1>3, <1>5, <1>6, <1>7 DEF RequestRetry, server, Retried
<1>8. CASE reserved' = Unreserved(i) /\ UNCHANGED <<inst, task>>
  <2>1. reserved' \subseteq Ports \X Instances
    BY <1>8 DEF Unreserved, TypeOK
  <2>2. retries * ExtraAttempts <= retries' * ExtraAttempts
    BY <1>0, <1>2
  <2>3. task'[i].max <= MaxAttempts + retries' * ExtraAttempts
    BY <1>0, <1>2, <1>3, <1>8, <2>2
  <2> QED
    BY <1>0, <1>1, <1>3, <1>8, <2>1, <2>3 DEF RequestRetry, server, TypeOK, InstKeeps, Retried
<1> QED
  BY <1>4, <1>7, <1>8 DEF RequestRetry, Retried

\* The worker claims a task, and listens to the attempt or refuses it at once.
Claims(i) ==
    /\ \E a \in Attempts, refused \in BOOLEAN :
          /\ a[1] = i /\ a[2] = task[i].attempt + 1 /\ Housed(i)
          /\ refused => inst[i].desired = "deleted"
          /\ lock' = "attempt"
          /\ task' \in [Instances -> TaskRows]
          /\ \A j \in Instances : j # i => task'[j] = task[j]
          /\ task'[i].attempt = a[2] /\ task'[i].max = task[i].max /\ a[2] <= task[i].max
          /\ task'[i].worker = boot /\ task'[i].live = ~refused /\ task'[i].cancel = task[i].cancel
          /\ task'[i].status = IF refused THEN "failed" ELSE "deploying"
          /\ InstKeeps(i) /\ inst'[i].port = inst[i].port /\ inst'[i].desired = inst[i].desired
          /\ inst'[i].status \in {"failed", "deploying"}
          /\ attempt' \in [Attempts -> AttemptRows]
          /\ \A b \in Attempts : b # a => attempt'[b] = attempt[b]
          /\ attempt'[a].at = IF refused THEN "ended" ELSE "ping"
          /\ attempt'[a].active = ~refused /\ attempt'[a].port = inst[i].port
          /\ undoing' = IF refused THEN undoing \cup {Undo(i, a[2], "cancelled")} ELSE undoing
    /\ TickMayClaim /\ Claimable(i)
    /\ UNCHANGED <<clean, reserved, containers, cycle, op, boot, removals, retries>>

\* ClaimTask does that.
LEMMA ClaimStep ==
    ASSUME TypeOK, Housing, Limited, NEW i \in Instances, ClaimTask(i)
    PROVE  Claims(i)
<1> DEFINE n == task[i].attempt + 1
           refused == inst[i].desired = "deleted"
           a == <<i, n>>
<1>0. /\ inst[i] \in Rows /\ task[i] \in TaskRows /\ boot \in 0 .. MaxCrashes
  BY DEF TypeOK
<1>1. Claimable(i)
  BY DEF ClaimTask
<1>2. /\ n <= task[i].max /\ n \in 1 .. AttemptLimit /\ task[i].status # "none"
  <2>1. /\ task[i].attempt \in 0 .. AttemptLimit /\ task[i].max \in 1 .. AttemptLimit
        /\ task[i].attempt < task[i].max /\ task[i].status # "none"
    BY <1>0, <1>1 DEF Claimable, TaskRows
  <2>2. AttemptLimit \in Nat
    BY LimitBounds, BoundsAssumption
  <2> QED
    BY <2>1, <2>2
<1>3. a \in Attempts /\ a[1] = i /\ a[2] = n /\ Housed(i)
  BY <1>2 DEF Attempts, Housing
<1>4. PICK t : t = [task[i] EXCEPT !.status = IF refused THEN "failed" ELSE "deploying",
                                   !.worker = boot, !.live = ~refused, !.attempt = n]
  OBVIOUS
<1>5. /\ t \in TaskRows /\ t.attempt = n /\ t.max = task[i].max /\ t.worker = boot
      /\ t.live = ~refused /\ t.cancel = task[i].cancel /\ t.status = IF refused THEN "failed" ELSE "deploying"
  <2>1. PICK lives \in BOOLEAN : lives = ~refused
    OBVIOUS
  <2>2. PICK st \in {"failed", "deploying"} : st = IF refused THEN "failed" ELSE "deploying"
    OBVIOUS
  <2>3. PICK k \in 0 .. AttemptLimit : k = n
    BY <1>2
  <2>4. t = [task[i] EXCEPT !.status = st, !.worker = boot, !.live = lives, !.attempt = k]
    BY <1>4, <2>1, <2>2, <2>3
  <2>5. /\ t \in TaskRows /\ t.attempt = k /\ t.max = task[i].max /\ t.worker = boot
        /\ t.live = lives /\ t.cancel = task[i].cancel /\ t.status = st
    BY <1>0, <2>4 DEF TaskRows
  <2> QED
    BY <2>1, <2>2, <2>3, <2>5
<1>6. Replaced(i, t)
  <2>1. task' = [task EXCEPT ![i] = t]
    BY <1>4 DEF ClaimTask
  <2> QED
    BY <1>5, <2>1, TaskReplaced
<1>7. /\ InstKeeps(i) /\ inst'[i].port = inst[i].port /\ inst'[i].desired = inst[i].desired
      /\ inst'[i].status \in {"failed", "deploying"}
  <2>1. PICK s \in {"failed", "deploying"} : inst' = [inst EXCEPT ![i].status = s]
    BY DEF ClaimTask
  <2>2. PICK e : e = [inst[i] EXCEPT !.status = s]
    OBVIOUS
  <2>3. e \in Rows /\ e.port = inst[i].port /\ e.desired = inst[i].desired /\ e.status = s
    BY <1>0, <2>2 DEF Rows, Statuses
  <2>4. inst' = [inst EXCEPT ![i] = e]
    BY <2>1, <2>2
  <2> QED
    BY <2>3, <2>4, InstReplaced DEF InstIs, InstKeeps
<1>8. /\ attempt' \in [Attempts -> AttemptRows]
      /\ \A b \in Attempts : b # a => attempt'[b] = attempt[b]
      /\ attempt'[a].at = IF refused THEN "ended" ELSE "ping"
      /\ attempt'[a].active = ~refused /\ attempt'[a].port = inst[i].port
  <2>1. PICK e : e = [at |-> IF refused THEN "ended" ELSE "ping", active |-> ~refused, port |-> inst[i].port]
    OBVIOUS
  <2>2. /\ e \in AttemptRows /\ e.at = IF refused THEN "ended" ELSE "ping"
        /\ e.active = ~refused /\ e.port = inst[i].port
    BY <1>0, <2>1 DEF AttemptRows, Rows
  <2>3. attempt' = [attempt EXCEPT ![a] = e]
    BY <2>1 DEF ClaimTask
  <2> HIDE DEF a
  <2> QED
    BY <1>3, <2>2, <2>3 DEF TypeOK
<1>9. /\ lock' = "attempt"
      /\ undoing' = IF refused THEN undoing \cup {Undo(i, n, "cancelled")} ELSE undoing
  BY DEF ClaimTask
<1> HIDE DEF a, n
<1>10. refused \in BOOLEAN
  OBVIOUS
<1>20. /\ TickMayClaim /\ Claimable(i)
       /\ UNCHANGED <<clean, reserved, containers, cycle, op, boot, removals, retries>>
  BY DEF ClaimTask, asked
<1> QED
  <2>1. PICK r \in BOOLEAN : r = refused
    BY <1>10
  <2>2. /\ a[1] = i /\ a[2] = task[i].attempt + 1 /\ Housed(i)
        /\ r => inst[i].desired = "deleted"
        /\ lock' = "attempt"
        /\ undoing' = IF r THEN undoing \cup {Undo(i, a[2], "cancelled")} ELSE undoing
    BY <1>3, <1>9, <2>1 DEF n
  <2>3. /\ task' \in [Instances -> TaskRows]
        /\ \A j \in Instances : j # i => task'[j] = task[j]
        /\ task'[i].attempt = a[2] /\ task'[i].max = task[i].max /\ a[2] <= task[i].max
        /\ task'[i].worker = boot /\ task'[i].live = ~r /\ task'[i].cancel = task[i].cancel
        /\ task'[i].status = IF r THEN "failed" ELSE "deploying"
    BY <1>2, <1>3, <1>5, <1>6, <2>1 DEF Replaced
  <2>4. /\ attempt' \in [Attempts -> AttemptRows]
        /\ \A b \in Attempts : b # a => attempt'[b] = attempt[b]
        /\ attempt'[a].at = IF r THEN "ended" ELSE "ping"
        /\ attempt'[a].active = ~r /\ attempt'[a].port = inst[i].port
    BY <1>8, <2>1
  <2> QED
    BY <1>20, <1>3, <1>7, <2>2, <2>3, <2>4 DEF Claims

\* The tick fails the tasks that have no attempt left, and compensates them.
Exhausts ==
    /\ task' \in [Instances -> TaskRows]
    /\ \A i \in Instances :
          /\ task'[i].attempt = task[i].attempt /\ task'[i].max = task[i].max
          /\ task'[i].cancel = task[i].cancel
          /\ \/ task'[i] = task[i] /\ i \notin Exhausted
             \/ task[i].status = "deploying" /\ task'[i].status = "failed" /\ i \in Exhausted
    /\ lock = "free" /\ lock' = "tick" /\ undoing' = undoing \cup {Undo(i, 0, "exhausted") : i \in Exhausted}
    /\ UNCHANGED <<inst, clean, reserved, containers, attempt, cycle, op, boot, removals, retries>>

\* FailExhausted does that.
LEMMA ExhaustedStep ==
    ASSUME TypeOK, FailExhausted
    PROVE  Exhausts
<1> DEFINE new(i) == IF i \in Exhausted THEN [task[i] EXCEPT !.status = "failed", !.worker = None] ELSE task[i]
<1>1. ASSUME NEW i \in Instances
      PROVE  /\ new(i) \in TaskRows /\ new(i).attempt = task[i].attempt /\ new(i).max = task[i].max
             /\ new(i).cancel = task[i].cancel
             /\ \/ new(i) = task[i] /\ i \notin Exhausted
                \/ task[i].status = "deploying" /\ new(i).status = "failed" /\ i \in Exhausted
  <2>0. task[i] \in TaskRows
    BY DEF TypeOK
  <2>1. CASE i \in Exhausted
    <3>1. PICK e : e = [task[i] EXCEPT !.status = "failed", !.worker = None]
      OBVIOUS
    <3>2. /\ e \in TaskRows /\ e.attempt = task[i].attempt /\ e.max = task[i].max
          /\ e.cancel = task[i].cancel /\ e.status = "failed"
      BY <2>0, <3>1 DEF TaskRows
    <3>3. new(i) = e /\ task[i].status = "deploying"
      BY <2>1, <3>1 DEF Exhausted
    <3> QED
      BY <2>1, <3>2, <3>3
  <2>2. CASE i \notin Exhausted
    BY <2>0, <2>2
  <2> QED
    BY <2>1, <2>2
<1>2. task' = [i \in Instances |-> new(i)]
  BY DEF FailExhausted
<1> HIDE DEF new
<1>20. /\ lock = "free" /\ lock' = "tick" /\ undoing' = undoing \cup {Undo(i, 0, "exhausted") : i \in Exhausted}
       /\ UNCHANGED <<inst, clean, reserved, containers, attempt, cycle, op, boot, removals, retries>>
  BY DEF FailExhausted, asked
<1> QED
  BY <1>20, <1>1, <1>2 DEF Exhausts

\* The lease of a task expires: nobody is listening to an attempt of it, or it is cancelled.
LeaseGone(i) ==
    /\ TaskKeeps(i) /\ task'[i].status = task[i].status /\ task'[i].cancel = task[i].cancel
    /\ task'[i].worker = task[i].worker
    /\ task[i].cancel \/ ~\E n \in 1 .. AttemptLimit : attempt[<<i, n>>].active
    /\ UNCHANGED <<inst, clean, reserved, containers, attempt, lock, undoing, cycle, op, boot, removals, retries>>

\* LeaseExpires does that.
LEMMA LeaseStep ==
    ASSUME TypeOK, NEW i \in Instances, LeaseExpires(i)
    PROVE  LeaseGone(i)
<1>0. task[i] \in TaskRows
  BY DEF TypeOK
<1>1. PICK e : e = [task[i] EXCEPT !.live = FALSE]
  OBVIOUS
<1>2. /\ e \in TaskRows /\ e.attempt = task[i].attempt /\ e.max = task[i].max /\ e.cancel = task[i].cancel
      /\ e.status = task[i].status /\ e.worker = task[i].worker
  BY <1>0, <1>1 DEF TaskRows
<1>3. task' = [task EXCEPT ![i] = e]
  BY <1>1 DEF LeaseExpires
<1>20. /\ task[i].cancel \/ ~\E n \in 1 .. AttemptLimit : attempt[<<i, n>>].active
       /\ UNCHANGED <<inst, clean, reserved, containers, attempt, lock, undoing, cycle, op, boot, removals, retries>>
  BY DEF LeaseExpires, server, asked
<1> QED
  BY <1>20, <1>2, <1>3, TaskReplaced DEF Replaced, TaskKeeps, LeaseGone

\* The lease of a queued clean-up expires.
CleanupLeaseGone(i, m) ==
    /\ CleanKeeps(i, m) /\ clean[i][m].status = "cleaning" /\ clean'[i][m].status = "cleaning"
    /\ UNCHANGED <<inst, task, reserved, containers, attempt, lock, undoing, cycle, op, boot, removals, retries>>

\* CleanupLeaseExpires does that.
LEMMA CleanupLeaseStep ==
    ASSUME TypeOK, NEW i \in Instances, NEW m \in Modes, CleanupLeaseExpires(i, m)
    PROVE  CleanupLeaseGone(i, m)
<1>0. clean[i][m] \in CleanRows
  BY DEF TypeOK
<1>1. PICK e : e = [clean[i][m] EXCEPT !.live = FALSE]
  OBVIOUS
<1>2. e \in CleanRows /\ e.status = clean[i][m].status
  BY <1>0, <1>1 DEF CleanRows
<1>3. clean' = [clean EXCEPT ![i][m] = e]
  BY <1>1 DEF CleanupLeaseExpires
<1>4. CleanKeeps(i, m) /\ clean'[i][m] = e
  BY <1>2, <1>3, CleanReplaced
<1>5. clean[i][m].status = "cleaning"
  BY DEF CleanupLeaseExpires
<1>20. UNCHANGED <<inst, task, reserved, containers, attempt, lock, undoing, cycle, op, boot, removals, retries>>
  BY DEF CleanupLeaseExpires, server, asked
<1> QED
  BY <1>20, <1>2, <1>4, <1>5 DEF CleanupLeaseGone

\* A queued clean-up is begun.
CleanupTaken(i, m) ==
    /\ CleanKeeps(i, m) /\ clean[i][m].status # "none" /\ clean'[i][m].status = "cleaning"
    /\ \E u \in Undos : u.inst = i /\ u.for = m /\ undoing' = undoing \cup {u}
    /\ UNCHANGED <<inst, task, reserved, containers, attempt, lock, cycle, op, boot, removals, retries>>

\* ClaimCleanup does that.
LEMMA ClaimCleanupStep ==
    ASSUME TypeOK, NEW i \in Instances, NEW m \in Modes, ClaimCleanup(i, m)
    PROVE  CleanupTaken(i, m)
<1>0. /\ clean[i][m] \in CleanRows /\ MaxCleanups \in Nat \ {0} /\ AttemptLimit \in Nat
  BY LimitsAssumption, LimitBounds, BoundsAssumption DEF TypeOK
<1>1. PICK e : e = CleanupClaimed(clean[i][m])
  OBVIOUS
<1>2. e \in CleanRows /\ e.status = "cleaning" /\ e.attempt \in 0 .. MaxCleanups
  <2>1. PICK k : k = IF clean[i][m].attempt < MaxCleanups THEN clean[i][m].attempt + 1 ELSE clean[i][m].attempt
    OBVIOUS
  <2>2. clean[i][m].attempt \in 0 .. MaxCleanups
    BY <1>0 DEF CleanRows
  <2>3. k \in 0 .. MaxCleanups
    BY <1>0, <2>1, <2>2
  <2>4. e = [clean[i][m] EXCEPT !.status = "cleaning", !.live = TRUE, !.attempt = k]
    BY <1>1, <2>1 DEF CleanupClaimed
  <2> QED
    BY <1>0, <2>3, <2>4 DEF CleanRows
<1>3. clean' = [clean EXCEPT ![i][m] = e]
  BY <1>1 DEF ClaimCleanup
<1>4. CleanKeeps(i, m) /\ clean'[i][m] = e
  BY <1>2, <1>3, CleanReplaced
<1>5. PICK u : u = Undo(i, e.attempt, m)
  OBVIOUS
<1>6. u \in Undos /\ u.inst = i /\ u.for = m
  BY <1>2, <1>5 DEF Undo, Undos
<1>7. undoing' = undoing \cup {u}
  BY <1>4, <1>5 DEF ClaimCleanup
<1>8. clean[i][m].status # "none"
  BY DEF ClaimCleanup
<1>20. UNCHANGED <<inst, task, reserved, containers, attempt, lock, cycle, op, boot, removals, retries>>
  BY DEF ClaimCleanup, asked
<1> QED
  BY <1>20, <1>2, <1>4, <1>6, <1>7, <1>8 DEF CleanupTaken

\* The server starts again: what is stored stays, what it was doing is gone.
Crashed ==
    /\ attempt' \in [Attempts -> AttemptRows]
    /\ \A a \in Attempts :
          /\ ~attempt'[a].active /\ attempt'[a].at = IF attempt[a].at = "none" THEN "none" ELSE "ended"
    /\ cycle' \in [Instances -> CycleRows]
    /\ \A i \in Instances : cycle'[i] = Unread
    /\ boot' \in 0 .. MaxCrashes
    /\ lock' = "free" /\ undoing' = {} /\ op' = [i \in Instances |-> None]
    /\ UNCHANGED <<inst, task, clean, reserved, containers, removals, retries>>

\* Crash does that.
LEMMA CrashStep ==
    ASSUME TypeOK, Crash
    PROVE  Crashed
<1>1. /\ Idle \in AttemptRows /\ Idle.at = "none" /\ ~Idle.active
      /\ [Idle EXCEPT !.at = "ended"] \in AttemptRows
      /\ [Idle EXCEPT !.at = "ended"].at = "ended" /\ ~[Idle EXCEPT !.at = "ended"].active
  BY DEF Idle, AttemptRows
<1>2. Unread \in CycleRows
  BY DEF Unread, CycleRows, NoInstance, Rows, Statuses
<1>3. boot' \in 0 .. MaxCrashes
  BY BoundsAssumption DEF Crash, TypeOK
<1>20. /\ lock' = "free" /\ undoing' = {} /\ op' = [i \in Instances |-> None]
       /\ UNCHANGED <<inst, task, clean, reserved, containers, removals, retries>>
  BY DEF Crash, asked
<1> QED
  BY <1>20, <1>1, <1>2, <1>3 DEF Crash, Crashed

\* The reconciler reads a row, lists the containers of one it has read, or reads its status again.
Looked(i) ==
    /\ cycle' \in [Instances -> CycleRows] /\ cycle'[i].at # "idle"
    /\ \A j \in Instances : j # i => cycle'[j] = cycle[j]
    /\ cycle'[i].row = cycle[i].row \/ (cycle'[i].row = inst[i] /\ inst[i].status # "none")
    /\ cycle[i].at # "idle" \/ (Reconciles /\ inst[i].status # "none")
    /\ UNCHANGED <<inst, task, clean, reserved, containers, attempt, lock, undoing, op, boot,
                   removals, retries>>

\* Reads, Lists and ReadsAgain do that.
LEMMA ReadsStep ==
    ASSUME TypeOK, NEW i \in Instances, Reads(i) \/ Lists(i) \/ ReadsAgain(i)
    PROVE  Looked(i)
<1>0. inst[i] \in Rows /\ cycle[i] \in CycleRows /\ containers[i] \in Ports \cup {"none", "residue"}
  BY DEF TypeOK
<1>1. CASE Reads(i)
  <2>1. PICK e : e = [Unread EXCEPT !.at = "list", !.row = inst[i],
                         !.owned = task[i].status \in {"queued", "deploying", "retry_wait"}]
    OBVIOUS
  <2>2. e \in CycleRows /\ e.at = "list" /\ e.row = inst[i]
    <3>0. (task[i].status \in {"queued", "deploying", "retry_wait"}) \in BOOLEAN
      OBVIOUS
    <3>1. PICK owned \in BOOLEAN : owned = (task[i].status \in {"queued", "deploying", "retry_wait"})
      BY <3>0, Zenon
    <3>2. e = [Unread EXCEPT !.at = "list", !.row = inst[i], !.owned = owned]
      BY <2>1, <3>1
    <3> QED
      BY <1>0, <3>2 DEF Unread, CycleRows
  <2>3. cycle' = [cycle EXCEPT ![i] = e]
    BY <1>1, <2>1 DEF Reads
  <2> QED
    BY <1>1, <2>2, <2>3 DEF Reads, TypeOK, asked, Looked
<1>2. CASE Lists(i)
  <2>1. PICK e : e = [cycle[i] EXCEPT !.at = "act", !.found = containers[i]]
    OBVIOUS
  <2>2. e \in CycleRows /\ e.at = "act" /\ e.row = cycle[i].row
    BY <1>0, <2>1 DEF CycleRows
  <2>3. cycle' = [cycle EXCEPT ![i] = e]
    BY <1>2, <2>1 DEF Lists
  <2> QED
    BY <1>2, <2>2, <2>3 DEF Lists, TypeOK, asked, Looked
<1>3. CASE ReadsAgain(i)
  <2>1. PICK e : e = [cycle[i] EXCEPT !.at = "promote"]
    OBVIOUS
  <2>2. e \in CycleRows /\ e.at = "promote" /\ e.row = cycle[i].row
    BY <1>0, <2>1 DEF CycleRows
  <2>3. cycle' = [cycle EXCEPT ![i] = e]
    BY <1>3, <2>1 DEF ReadsAgain
  <2> QED
    BY <1>3, <2>2, <2>3 DEF ReadsAgain, TypeOK, asked, Looked
<1> QED
  BY <1>1, <1>2, <1>3 DEF Looked

\* What the reconciler does with what it read.
Acted(i) ==
    /\ cycle[i].at \in {"act", "promote"}
    /\ cycle' \in [Instances -> CycleRows] /\ cycle'[i] = Unread
    /\ \A j \in Instances : j # i => cycle'[j] = cycle[j]
    /\ UNCHANGED <<task, reserved, containers, attempt, lock, op, boot, removals, retries>>
    /\ InstKeeps(i) /\ inst'[i].port = inst[i].port

\* It queues the clean-up of an instance that was being deleted when it read it.
Requeued(i) ==
    /\ cycle[i].row.status \in Gone \/ cycle[i].row.desired = "deleted"
    /\ inst'[i].status = "deleting" /\ inst'[i].desired = "deleted"
    /\ UNCHANGED undoing
    /\ "delete" \in Modes =>
          CleanKeeps(i, "delete") /\ clean'[i]["delete"].status \in {"queued", "cleaning", "retry_wait"}

\* It removes containers itself.
Removing(i) ==
    /\ UNCHANGED <<inst, clean>>
    /\ \E u \in Undos : /\ u.inst = i /\ undoing' = undoing \cup {u}
                        /\ u.for = "reconciled" \/ (u.for = "verified" /\ cycle[i].row.status \in Gone)

\* It corrects the status, or does nothing.
Adjusted(i) ==
    /\ inst'[i].status \in {inst[i].status, "gateway_starting", "degraded", "restarting", "running"}
    /\ inst'[i].desired = inst[i].desired /\ UNCHANGED <<clean, undoing>>

\* What Acts and Promotes have in common.
LEMMA ActsStep ==
    ASSUME TypeOK, NEW i \in Instances, Acts(i) \/ Promotes(i)
    PROVE  /\ cycle[i].at \in {"act", "promote"}
           /\ cycle' \in [Instances -> CycleRows] /\ cycle'[i] = Unread
           /\ \A j \in Instances : j # i => cycle'[j] = cycle[j]
           /\ UNCHANGED <<task, reserved, containers, attempt, lock, op, boot, removals, retries>>
<1>1. Unread \in CycleRows
  BY DEF Unread, CycleRows, NoInstance, Rows, Statuses
<1>2. cycle' = [cycle EXCEPT ![i] = Unread]
  BY DEF Acts, Promotes
<1> QED
  BY <1>1, <1>2 DEF Acts, Promotes, TypeOK, asked

\* Each of those cases requeues, removes or adjusts.
LEMMA ReconcilerActs ==
    ASSUME TypeOK, NEW i \in Instances,
           \/ RequeuesDeletion(i) \/ RemovesResidue(i) \/ RecoversTransition(i)
           \/ Degrades(i) \/ Promotes(i) \/ Passes(i)
    PROVE  Acted(i) /\ (Requeued(i) \/ Removing(i) \/ Adjusted(i))
<1>0. /\ inst[i] \in Rows
      /\ "delete" \in Modes => clean[i]["delete"] \in CleanRows
  BY DEF TypeOK
<1>1. ASSUME Acts(i) \/ Promotes(i), InstKeeps(i), inst'[i].port = inst[i].port PROVE Acted(i)
  BY <1>1, ActsStep DEF Acted
<1>2. CASE RequeuesDeletion(i)
  <2>1. PICK e : e = [inst[i] EXCEPT !.status = "deleting", !.desired = "deleted"]
    OBVIOUS
  <2>2. e \in Rows /\ e.status = "deleting" /\ e.desired = "deleted" /\ e.port = inst[i].port
    BY <1>0, <2>1 DEF Rows, Statuses
  <2>3. InstIs(i, e)
    <3>1. inst' = [inst EXCEPT ![i] = e]
      BY <1>2, <2>1 DEF RequeuesDeletion
    <3> QED
      BY <2>2, <3>1, InstReplaced
  <2>4. Acted(i)
    BY <1>1, <1>2, <2>2, <2>3 DEF RequeuesDeletion, InstIs, InstKeeps
  <2>5. cycle[i].row.status \in Gone \/ cycle[i].row.desired = "deleted"
    BY <1>2 DEF RequeuesDeletion, BeingDeleted, Row, Gone
  <2>6. ASSUME "delete" \in Modes
        PROVE  CleanKeeps(i, "delete") /\ clean'[i]["delete"].status \in {"queued", "cleaning", "retry_wait"}
    <3>1. PICK c : c = CleanupQueued(clean[i]["delete"])
      OBVIOUS
    <3>2. clean' = [clean EXCEPT ![i]["delete"] = c]
      BY <1>2, <3>1 DEF RequeuesDeletion
    <3> QED
      BY <1>0, <2>6, <3>1, <3>2, CleanupQueuedRow, CleanReplaced
  <2> QED
    BY <1>2, <2>2, <2>3, <2>4, <2>5, <2>6 DEF RequeuesDeletion, Requeued, InstIs
<1>3. CASE RemovesResidue(i)
  <2>1. Acted(i)
    BY <1>1, <1>3 DEF RemovesResidue, InstKeeps, TypeOK
  <2>2. PICK u : u = Undo(i, 0, IF Row(i).status = "deleted" THEN "verified" ELSE "reconciled")
    OBVIOUS
  <2>3. /\ u \in Undos /\ u.inst = i
        /\ u.for = "reconciled" \/ (u.for = "verified" /\ cycle[i].row.status \in Gone)
    <3>1. MaxCleanups \in Nat
      BY LimitsAssumption
    <3> QED
      BY <2>2, <3>1 DEF Undo, Undos, Compensations, Row, Gone
  <2>4. undoing' = undoing \cup {u} /\ UNCHANGED <<inst, clean>>
    BY <1>3, <2>2 DEF RemovesResidue
  <2> QED
    BY <2>1, <2>3, <2>4 DEF Removing
<1>4. CASE RecoversTransition(i) \/ Degrades(i) \/ Promotes(i)
  <2>1. PICK s \in {"gateway_starting", "degraded", "restarting", "running"} :
            inst' = [inst EXCEPT ![i].status = s] /\ (Acts(i) \/ Promotes(i)) /\ UNCHANGED <<clean, undoing>>
    BY <1>4 DEF RecoversTransition, Degrades, Promotes
  <2>2. PICK e : e = [inst[i] EXCEPT !.status = s]
    OBVIOUS
  <2>3. e \in Rows /\ e.status = s /\ e.desired = inst[i].desired /\ e.port = inst[i].port
    BY <1>0, <2>2 DEF Rows, Statuses
  <2>4. InstIs(i, e)
    <3>1. inst' = [inst EXCEPT ![i] = e]
      BY <2>1, <2>2
    <3> QED
      BY <2>3, <3>1, InstReplaced
  <2> QED
    BY <1>1, <2>1, <2>3, <2>4 DEF InstIs, InstKeeps, Adjusted
<1>5. CASE Passes(i)
  BY <1>1, <1>5 DEF Passes, InstKeeps, TypeOK, Adjusted
<1> QED
  BY <1>2, <1>3, <1>4, <1>5

\* A clean-up has removed the containers or could not, and has yet to write what follows from it.
Removed(u) ==
    /\ \E v \in Undos : /\ v.inst = u.inst /\ v.for = u.for /\ v.no = u.no
                        /\ undoing' = (undoing \ {u}) \cup {v}
    /\ containers' \in [Instances -> Ports \cup {"none", "residue"}]
    /\ containers'[u.inst] \in {containers[u.inst], "none"}
    /\ \A j \in Instances : j # u.inst => containers'[j] = containers[j]
    /\ UNCHANGED <<inst, task, clean, reserved, attempt, lock, cycle, op, boot, removals, retries>>

\* Removes and LeavesContainers do that.
LEMMA RemovesStep ==
    ASSUME TypeOK, NEW u \in undoing, Removes(u) \/ LeavesContainers(u)
    PROVE  Removed(u)
<1>0. u \in Undos /\ u.inst \in Instances
  BY DEF TypeOK, Undos
<1>1. PICK v : v = [u EXCEPT !.stage = "release"]
  OBVIOUS
<1>2. v \in Undos /\ v.inst = u.inst /\ v.for = u.for /\ v.no = u.no
  BY <1>0, <1>1 DEF Undos
<1>3. undoing' = (undoing \ {u}) \cup {v}
  BY <1>1 DEF Removes, LeavesContainers
<1> QED
  BY <1>0, <1>2, <1>3 DEF Removes, LeavesContainers, TypeOK, asked, Removed

\* A compensation for a busy port finds no other one, and turns into that of a failure.
NoPort(u) ==
    /\ Own(u) /\ reserved' = Unreserved(u.inst)
    /\ \E v \in Undos : /\ v.inst = u.inst /\ v.for = "failed" /\ v.no = u.no
                        /\ undoing' = (undoing \ {u}) \cup {v}
    /\ InstKeeps(u.inst) /\ inst'[u.inst].port = inst[u.inst].port
    /\ inst'[u.inst].status = inst[u.inst].status /\ inst'[u.inst].desired = inst[u.inst].desired
    /\ UNCHANGED <<task, clean, containers, attempt, lock, cycle, op, boot, removals, retries>>

\* FindsNoPort does that.
LEMMA NoPortStep ==
    ASSUME TypeOK, NEW u \in undoing, FindsNoPort(u)
    PROVE  NoPort(u)
<1>0. u \in Undos /\ u.inst \in Instances /\ inst[u.inst] \in Rows
  BY DEF TypeOK, Undos
<1>1. PICK v : v = Undo(u.inst, u.no, "failed")
  OBVIOUS
<1>2. v \in Undos /\ v.inst = u.inst /\ v.for = "failed" /\ v.no = u.no
  BY <1>0, <1>1 DEF Undos, Undo, Compensations
<1>3. PICK e : e = [inst[u.inst] EXCEPT !.compensated = TRUE]
  OBVIOUS
<1>4. /\ e \in Rows /\ e.port = inst[u.inst].port /\ e.status = inst[u.inst].status
      /\ e.desired = inst[u.inst].desired
  BY <1>0, <1>3 DEF Rows
<1>5. inst' = [inst EXCEPT ![u.inst] = e]
  BY <1>3 DEF FindsNoPort
<1>6. InstIs(u.inst, e)
  BY <1>0, <1>4, <1>5, InstReplaced
<1>7. undoing' = (undoing \ {u}) \cup {v} /\ Own(u)
  BY <1>1 DEF FindsNoPort, Own, WorkersOwn
<1> QED
  BY <1>2, <1>4, <1>6, <1>7 DEF FindsNoPort, InstIs, InstKeeps, asked, NoPort

\* A compensation for a busy port ends with another port, and the task waits again.
AnotherPort(u, p) ==
    /\ Own(u) /\ u.for = "retry" /\ lock' = "free" /\ undoing' = undoing \ {u}
    /\ reserved' \subseteq Ports \X Instances /\ <<p, u.inst>> \in reserved'
    /\ \A j \in Instances \ {u.inst}, q \in Ports : <<q, j>> \in reserved => <<q, j>> \in reserved'
    /\ InstKeeps(u.inst) /\ inst'[u.inst].port = p
    /\ inst'[u.inst].status = "provisioning" /\ inst'[u.inst].desired = "running"
    /\ TaskKeeps(u.inst) /\ task'[u.inst].status = "retry_wait"
    /\ task'[u.inst].cancel = task[u.inst].cancel
    /\ UNCHANGED <<clean, containers, attempt, cycle, op, boot, removals, retries>>

\* RetriesOnAnotherPort does that.
LEMMA AnotherPortStep ==
    ASSUME TypeOK, NEW u \in undoing, NEW p \in Ports, RetriesOnAnotherPort(u, p)
    PROVE  AnotherPort(u, p)
<1> DEFINE i == u.inst
<1>0. i \in Instances /\ inst[i] \in Rows /\ task[i] \in TaskRows
  BY DEF TypeOK, Undos
<1>1. PICK e : e = [inst[i] EXCEPT !.status = "provisioning", !.desired = "running", !.port = p, !.compensated = FALSE]
  OBVIOUS
<1>2. e \in Rows /\ e.status = "provisioning" /\ e.desired = "running" /\ e.port = p
  BY <1>0, <1>1 DEF Rows, Statuses
<1>3. inst' = [inst EXCEPT ![i] = e]
  BY <1>1 DEF RetriesOnAnotherPort
<1>4. PICK t : t = [task[i] EXCEPT !.status = "retry_wait", !.worker = None, !.live = FALSE]
  OBVIOUS
<1>5. /\ t \in TaskRows /\ t.status = "retry_wait" /\ t.cancel = task[i].cancel
      /\ t.attempt = task[i].attempt /\ t.max = task[i].max
  BY <1>0, <1>4 DEF TaskRows
<1>6. task' = [task EXCEPT ![i] = t]
  BY <1>4 DEF RetriesOnAnotherPort
<1>7. InstIs(i, e) /\ Replaced(i, t)
  BY <1>0, <1>2, <1>3, <1>5, <1>6, InstReplaced, TaskReplaced
<1>8. /\ reserved' \subseteq Ports \X Instances /\ <<p, i>> \in reserved'
      /\ \A j \in Instances \ {i}, q \in Ports : <<q, j>> \in reserved => <<q, j>> \in reserved'
  BY <1>0 DEF RetriesOnAnotherPort, Reserves, TypeOK
<1>9. Own(u) /\ u.for = "retry" /\ lock' = "free" /\ undoing' = undoing \ {u}
  BY DEF RetriesOnAnotherPort, Own, WorkersOwn
<1> QED
  BY <1>2, <1>5, <1>7, <1>8, <1>9 DEF RetriesOnAnotherPort, InstIs, InstKeeps, Replaced, TaskKeeps, asked, AnotherPort

\* A clean-up is over.
Ends(u) == Ended(u) /\ EndedInst(u) /\ EndedTask(u) /\ EndedClean(u)

\* Every step of the specification, by what it does to the rows.
Effect ==
    \/ \E a \in Attempts : Goes(a) \/ Gives(a) \/ Succeeds(a)
    \/ \E i \in Instances :
          \/ Provisioned(i) \/ Retried(i) \/ OperationExpires(i) \/ Claims(i)
          \/ LeaseGone(i) \/ Looked(i) \/ (Acted(i) /\ (Requeued(i) \/ Removing(i) \/ Adjusted(i)))
          \/ \E m \in Modes : RemovalAsked(i, m) \/ CleanupTaken(i, m) \/ CleanupLeaseGone(i, m)
    \/ Exhausts \/ NothingToClaim \/ Crashed \/ UNCHANGED vars
    \/ \E u \in undoing : Removed(u) \/ Ends(u) \/ NoPort(u) \/ \E p \in Ports : AnotherPort(u, p)

\* Every step has one of these effects.
LEMMA EveryStep ==
    ASSUME TypeOK, Housing, Limited, [Next]_vars
    PROVE  Effect
<1> USE DEF Effect
<1>1. ASSUME NEW i \in Instances, Provision(i) PROVE Effect
  BY <1>1, ProvisionStep
<1>2. ASSUME NEW i \in Instances, RequestRetry(i) PROVE Effect
  BY <1>2, RetryStep
<1>3. ASSUME NEW i \in Instances, OperationExpires(i) PROVE Effect
  BY <1>3
<1>4. ASSUME NEW i \in Instances, ClaimTask(i) PROVE Effect
  BY <1>4, ClaimStep
<1>5. ASSUME NEW i \in Instances, LeaseExpires(i) PROVE Effect
  BY <1>5, LeaseStep
<1>6. ASSUME NEW i \in Instances, Reconcile(i) PROVE Effect
  BY <1>6, ReadsStep, ReconcilerActs DEF Reconcile
<1>7. ASSUME NEW i \in Instances, NEW m \in Modes, RequestRemoval(i, m) PROVE Effect
  BY <1>7, RemovalStep
<1>8. ASSUME NEW i \in Instances, NEW m \in Modes, ClaimCleanup(i, m) PROVE Effect
  BY <1>8, ClaimCleanupStep
<1>9. ASSUME NEW i \in Instances, NEW m \in Modes, CleanupLeaseExpires(i, m) PROVE Effect
  BY <1>9, CleanupLeaseStep
<1>10. ASSUME FailExhausted \/ NothingToClaim \/ Crash PROVE Effect
  BY <1>10, ExhaustedStep, CrashStep
<1>11. ASSUME NEW a \in Attempts, AttemptAnswers(a) PROVE Effect
  BY <1>11, AnswersStep
<1>12. ASSUME NEW a \in Attempts, CancellationSeen(a) \/ WatchdogFires(a) PROVE Effect
  BY <1>12, GivenUpStep
<1>13. ASSUME NEW u \in undoing, UndoAdvances(u) \/ DockerRefuses(u) PROVE Effect
  <2>1. CASE Removes(u) \/ LeavesContainers(u)
    BY <2>1, RemovesStep
  <2>2. CASE Releases(u) \/ DockerRefuses(u)
    BY <2>2, ReleasesStep, RefusesStep DEF Ends
  <2>3. CASE FindsNoPort(u)
    BY <2>3, NoPortStep
  <2>4. ASSUME NEW p \in Ports, RetriesOnAnotherPort(u, p) PROVE Effect
    BY <2>4, AnotherPortStep
  <2> QED
    BY <1>13, <2>1, <2>2, <2>3, <2>4 DEF UndoAdvances
<1> HIDE DEF Effect
<1>14. CASE UNCHANGED vars
  BY <1>14 DEF Effect
<1>15. CASE Next
  BY <1>1, <1>2, <1>3, <1>4, <1>5, <1>6, <1>7, <1>8, <1>9, <1>10, <1>11, <1>12, <1>13, <1>15 DEF Next
<1> QED
  BY <1>14, <1>15

-----------------------------------------------------------------------------
(* Every step preserves every part of the invariant.                       *)

\* The fields of a clean-up.
LEMMA UndoFields ==
    ASSUME NEW i, NEW n, NEW for
    PROVE  /\ Undo(i, n, for).inst = i /\ Undo(i, n, for).no = n /\ Undo(i, n, for).for = for
           /\ i \in Instances /\ n \in 0 .. AttemptLimit /\ for \in Compensations => Undo(i, n, for) \in Undos
  BY DEF Undo, Undos

\* The types are kept; that a requeued delete is a mode rests on Deletable.
LEMMA TypeNext ==
    ASSUME TypeOK, Deletable, Effect
    PROVE  TypeOK'
<1>1. ASSUME NEW a \in Attempts, Goes(a) \/ Gives(a) \/ Succeeds(a) PROVE TypeOK'
  <2>0. a[1] \in Instances /\ a[2] \in 0 .. AttemptLimit
    BY AttemptInstance
  <2>1. Frame(a) /\ task' \in [Instances -> TaskRows] /\ lock' \in {"free", "tick", "attempt"}
    BY <1>1 DEF Goes, Gives, Succeeds, TaskFailed, TypeOK
  <2>2. undoing' \subseteq Undos
    <3>1. CASE Goes(a) \/ Succeeds(a)
      BY <3>1 DEF Goes, Succeeds, TypeOK
    <3>2. CASE Gives(a)
      <4>1. PICK for \in WorkersOwn : undoing' = undoing \cup {Undo(a[1], a[2], for)}
        BY <3>2 DEF Gives
      <4> QED
        BY <2>0, <4>1, UndoFields, ModesAreRemovals DEF TypeOK
    <3> QED
      BY <1>1, <3>1, <3>2
  <2> QED
    BY <2>1, <2>2 DEF Frame, InstStatus, Moves, TypeOK
<1>2. ASSUME NEW i \in Instances, Provisioned(i) PROVE TypeOK'
  BY <1>2 DEF Provisioned, InstKeeps, TaskKeeps, TypeOK
<1>3. ASSUME NEW i \in Instances, Retried(i) PROVE TypeOK'
  <2>1. retries' \in 0 .. MaxRetries
    BY <1>3, BoundsAssumption DEF Retried
  <2> QED
    BY <1>3, <2>1 DEF Retried, InstKeeps, TypeOK
<1>4. ASSUME NEW i \in Instances, OperationExpires(i) PROVE TypeOK'
  BY <1>4 DEF OperationExpires, asked, TypeOK
<1>5. ASSUME NEW i \in Instances, Claims(i) PROVE TypeOK'
  <2>1. PICK a \in Attempts, refused \in BOOLEAN :
            undoing' = IF refused THEN undoing \cup {Undo(i, a[2], "cancelled")} ELSE undoing
    BY <1>5 DEF Claims
  <2>2. "cancelled" \in Compensations
    BY DEF Compensations
  <2>3. undoing' \subseteq Undos
    BY <2>1, <2>2, AttemptInstance, UndoFields DEF TypeOK
  <2> QED
    BY <1>5, <2>3 DEF Claims, InstKeeps, TypeOK
<1>6. ASSUME NEW i \in Instances, LeaseGone(i) PROVE TypeOK'
  BY <1>6 DEF LeaseGone, TaskKeeps, TypeOK
<1>7. ASSUME NEW i \in Instances, Looked(i) PROVE TypeOK'
  BY <1>7 DEF Looked, TypeOK
<1>8. ASSUME NEW i \in Instances, Acted(i), Requeued(i) \/ Removing(i) \/ Adjusted(i) PROVE TypeOK'
  <2>1. clean' \in [Instances -> [Modes -> CleanRows]] /\ undoing' \subseteq Undos
    <3>1. CASE Requeued(i)
      BY <3>1 DEF Requeued, CleanKeeps, Deletable, TypeOK
    <3>2. CASE Removing(i) \/ Adjusted(i)
      BY <3>2 DEF Removing, Adjusted, TypeOK
    <3> QED
      BY <1>8, <3>1, <3>2
  <2> QED
    BY <1>8, <2>1 DEF Acted, InstKeeps, TypeOK
<1>9. ASSUME NEW i \in Instances, NEW m \in Modes, RemovalAsked(i, m) PROVE TypeOK'
  BY <1>9 DEF RemovalAsked, InstKeeps, TaskKeeps, CleanKeeps, TypeOK
<1>10. ASSUME NEW i \in Instances, NEW m \in Modes, CleanupTaken(i, m) PROVE TypeOK'
  BY <1>10 DEF CleanupTaken, CleanKeeps, TypeOK
<1>11. ASSUME NEW i \in Instances, NEW m \in Modes, CleanupLeaseGone(i, m) PROVE TypeOK'
  BY <1>11 DEF CleanupLeaseGone, CleanKeeps, TypeOK
<1>12. CASE Exhausts
  <2>1. AttemptLimit \in Nat /\ "exhausted" \in Compensations
    BY LimitBounds, BoundsAssumption DEF Compensations
  <2>2. undoing' \subseteq Undos
    BY <1>12, <2>1, UndoFields DEF Exhausts, Exhausted, TypeOK
  <2> QED
    BY <1>12, <2>2 DEF Exhausts, TypeOK
<1>13. CASE NothingToClaim
  BY <1>13 DEF NothingToClaim, asked, TypeOK
<1>14. CASE Crashed
  BY <1>14 DEF Crashed, TypeOK
<1>15. CASE UNCHANGED vars
  BY <1>15 DEF vars, TypeOK
<1>16. ASSUME NEW u \in undoing, Removed(u) PROVE TypeOK'
  BY <1>16 DEF Removed, TypeOK
<1>17. ASSUME NEW u \in undoing, Ends(u) PROVE TypeOK'
  <2>1. u.inst \in Instances
    BY DEF TypeOK, Undos
  <2>2. reserved' \subseteq Ports \X Instances /\ undoing' \subseteq Undos /\ lock' \in {"free", "tick", "attempt"}
    BY <1>17 DEF Ends, Ended, Unreserved, TypeOK
  <2> QED
    BY <1>17, <2>2 DEF Ends, Ended, EndedInst, EndedTask, EndedClean, TypeOK
<1>18. ASSUME NEW u \in undoing, NoPort(u) PROVE TypeOK'
  <2>1. reserved' \subseteq Ports \X Instances
    BY <1>18 DEF NoPort, Unreserved, TypeOK
  <2> QED
    BY <1>18, <2>1 DEF NoPort, InstKeeps, TypeOK
<1>19. ASSUME NEW u \in undoing, NEW p \in Ports, AnotherPort(u, p) PROVE TypeOK'
  BY <1>19 DEF AnotherPort, InstKeeps, TaskKeeps, TypeOK
<1> QED
  BY <1>1, <1>2, <1>3, <1>4, <1>5, <1>6, <1>7, <1>8, <1>9, <1>10, <1>11, <1>12, <1>13, <1>14, <1>15,
     <1>16, <1>17, <1>18, <1>19 DEF Effect

\* Attempts are counted up by claims alone, and granted by retries alone.
LEMMA LimitedNext ==
    ASSUME TypeOK, Limited, Effect
    PROVE  Limited'
<1>1. ASSUME NEW a \in Attempts, Goes(a) \/ Gives(a) \/ Succeeds(a) PROVE Limited'
  <2>1. UNCHANGED retries /\ \A j \in Instances : task'[j].attempt = task[j].attempt /\ task'[j].max = task[j].max
    BY <1>1, AttemptInstance DEF Goes, Gives, Succeeds, Frame, TaskFailed
  <2> QED
    BY <2>1 DEF Limited
<1>2. ASSUME NEW i \in Instances,
             Provisioned(i) \/ LeaseGone(i) \/ \E m \in Modes : RemovalAsked(i, m)
      PROVE  Limited'
  <2>1. UNCHANGED retries /\ TaskKeeps(i)
    BY <1>2 DEF Provisioned, LeaseGone, RemovalAsked
  <2>2. \A j \in Instances : task'[j].attempt = task[j].attempt /\ task'[j].max = task[j].max
    BY <2>1 DEF TaskKeeps
  <2> QED
    BY <2>1, <2>2 DEF Limited
<1>3. ASSUME NEW i \in Instances, Retried(i) PROVE Limited'
  <2>1. ASSUME NEW j \in Instances \ {i}
        PROVE  task'[j].attempt <= task'[j].max /\ task'[j].max <= MaxAttempts + retries' * ExtraAttempts
    <3>1. task'[j] = task[j] /\ task[j] \in TaskRows /\ retries \in Nat /\ retries' = retries + 1
      BY <1>3, BoundsAssumption DEF Retried, TypeOK
    <3>2. MaxAttempts \in Nat /\ ExtraAttempts \in Nat
      BY LimitsAssumption
    <3>3. /\ retries * ExtraAttempts \in Nat
          /\ retries' * ExtraAttempts = retries * ExtraAttempts + ExtraAttempts
      BY <3>1, <3>2, ProductGrows
    <3>4. task[j].max \in Nat /\ task[j].attempt <= task[j].max /\ task[j].max <= MaxAttempts + retries * ExtraAttempts
      BY <3>1 DEF Limited, TaskRows
    <3> QED
      BY <3>1, <3>2, <3>3, <3>4
  <2> QED
    BY <1>3, <2>1 DEF Retried, Limited
<1>4. ASSUME NEW i \in Instances, Claims(i) PROVE Limited'
  <2>1. /\ UNCHANGED retries /\ \A j \in Instances : j # i => task'[j] = task[j]
        /\ task'[i].attempt <= task[i].max /\ task'[i].max = task[i].max
    BY <1>4 DEF Claims
  <2> QED
    BY <2>1 DEF Limited
<1>5. CASE UNCHANGED <<task, retries>>
  BY <1>5 DEF Limited
<1>6. CASE Exhausts
  BY <1>6 DEF Exhausts, Limited
<1>7. ASSUME NEW u \in undoing, Ends(u) PROVE Limited'
  BY <1>7 DEF Ends, Ended, EndedTask, Limited
<1>8. ASSUME NEW u \in undoing, NEW p \in Ports, AnotherPort(u, p) PROVE Limited'
  BY <1>8 DEF AnotherPort, TaskKeeps, Limited
<1>9. ASSUME NEW i \in Instances,
             \/ OperationExpires(i) \/ Looked(i) \/ Acted(i)
             \/ \E m \in Modes : CleanupTaken(i, m) \/ CleanupLeaseGone(i, m)
      PROVE  UNCHANGED <<task, retries>>
  BY <1>9 DEF OperationExpires, asked, Looked, Acted, CleanupTaken, CleanupLeaseGone
<1>10. ASSUME NothingToClaim \/ Crashed \/ UNCHANGED vars PROVE UNCHANGED <<task, retries>>
  BY <1>10 DEF NothingToClaim, asked, Crashed, vars
<1>11. ASSUME NEW u \in undoing, Removed(u) \/ NoPort(u) PROVE UNCHANGED <<task, retries>>
  BY <1>11 DEF Removed, NoPort
<1> QED
  BY <1>1, <1>2, <1>3, <1>4, <1>5, <1>6, <1>7, <1>8, <1>9, <1>10, <1>11 DEF Effect

\* Whoever takes the lock finds it free, and whoever gives it back held it.
LEMMA LockNext ==
    ASSUME TypeOK, Housing, LockIsHeld, Effect
    PROVE  LockIsHeld'
<1>0. \A u \in Undos : u.for \in Modes \cup {"verified", "reconciled", "exhausted"} => ~Own(u)
  BY ModesAreRemovals DEF Own, WorkersOwn
<1>1. ASSUME NEW a \in Attempts, Goes(a) PROVE LockIsHeld'
  <2>1. UNCHANGED <<undoing, lock>> /\ \A b \in Attempts : attempt'[b].active = attempt[b].active
    BY <1>1 DEF Goes, Frame, Moves
  <2> QED
    BY <2>1 DEF LockIsHeld, Own
<1>2. ASSUME NEW a \in Attempts, Gives(a) PROVE LockIsHeld'
  <2>1. PICK for \in WorkersOwn : undoing' = undoing \cup {Undo(a[1], a[2], for)}
    BY <1>2 DEF Gives
  <2>2. \A u \in undoing : ~Own(u)
    BY <1>2 DEF Gives, LockIsHeld
  <2>3. lock' = "attempt" /\ \A b \in Attempts : ~attempt'[b].active
    BY <1>2 DEF Gives, Frame, Moves, LockIsHeld
  <2>4. Own(Undo(a[1], a[2], for)) /\ \A u \in undoing' : Own(u) => u = Undo(a[1], a[2], for)
    BY <2>1, <2>2, UndoFields DEF Own
  <2> QED
    BY <2>1, <2>3, <2>4 DEF LockIsHeld, Own
<1>3. ASSUME NEW a \in Attempts, Succeeds(a) PROVE LockIsHeld'
  <2>1. \A u \in undoing' : ~Own(u)
    BY <1>3 DEF Succeeds, LockIsHeld
  <2>2. lock' = "free" /\ \A b \in Attempts : ~attempt'[b].active
    BY <1>3 DEF Succeeds, Frame, Moves, LockIsHeld
  <2> QED
    BY <2>1, <2>2 DEF LockIsHeld, Own
<1>4. ASSUME NEW i \in Instances, Claims(i) PROVE LockIsHeld'
  <2>1. lock \in {"free", "tick"}
    BY <1>4 DEF Claims, TickMayClaim
  <2>2. (\A u \in undoing : ~Own(u)) /\ (\A b \in Attempts : ~attempt[b].active)
    BY <2>1 DEF LockIsHeld
  <2>3. PICK a \in Attempts, refused \in BOOLEAN :
            /\ lock' = "attempt" /\ attempt'[a].active = ~refused
            /\ \A b \in Attempts : b # a => attempt'[b] = attempt[b]
            /\ undoing' = IF refused THEN undoing \cup {Undo(i, a[2], "cancelled")} ELSE undoing
    BY <1>4 DEF Claims
  <2>4. Own(Undo(i, a[2], "cancelled"))
    BY UndoFields DEF Own, WorkersOwn
  <2>5. CASE refused
    <3>1. /\ lock' = "attempt" /\ \A b \in Attempts : ~attempt'[b].active
          /\ Undo(i, a[2], "cancelled") \in undoing'
          /\ \A u \in undoing' : Own(u) => u = Undo(i, a[2], "cancelled")
      BY <2>2, <2>3, <2>5
    <3> QED
      BY <2>4, <3>1 DEF LockIsHeld, Own
  <2>6. CASE ~refused
    <3>1. /\ lock' = "attempt" /\ attempt'[a].active /\ \A b \in Attempts : attempt'[b].active => b = a
          /\ \A u \in undoing' : ~Own(u)
      BY <2>2, <2>3, <2>6
    <3> QED
      BY <3>1 DEF LockIsHeld, Own
  <2> QED
    BY <2>5, <2>6
<1>5. CASE Exhausts
  <2>1. (\A u \in undoing : ~Own(u)) /\ (\A b \in Attempts : ~attempt'[b].active) /\ lock' = "tick"
    BY <1>5 DEF Exhausts, LockIsHeld
  <2>2. \A u \in undoing' : ~Own(u)
    BY <1>5, <2>1, UndoFields DEF Exhausts, Own, WorkersOwn
  <2> QED
    BY <2>1, <2>2 DEF LockIsHeld, Own
<1>6. CASE NothingToClaim
  BY <1>6 DEF NothingToClaim, LockIsHeld, Own
<1>7. CASE Crashed
  BY <1>7 DEF Crashed, LockIsHeld, Own
<1>8. ASSUME NEW u \in undoing, Removed(u) \/ NoPort(u) PROVE LockIsHeld'
  <2>1. PICK v \in Undos : undoing' = (undoing \ {u}) \cup {v} /\ (Own(v) <=> Own(u))
    BY <1>8 DEF Removed, NoPort, Own, WorkersOwn
  <2>2. UNCHANGED <<attempt, lock>>
    BY <1>8 DEF Removed, NoPort
  <2>3. \A x, y \in undoing' : Own(x) /\ Own(y) => x = y
    BY <2>1 DEF LockIsHeld
  <2>4. (\E x \in undoing' : Own(x)) <=> (\E x \in undoing : Own(x))
    BY <2>1
  <2> QED
    BY <2>2, <2>3, <2>4 DEF LockIsHeld, Own
<1>9. ASSUME NEW u \in undoing, Ends(u) \/ \E p \in Ports : AnotherPort(u, p) PROVE LockIsHeld'
  <2>1. undoing' = undoing \ {u} /\ UNCHANGED attempt /\ lock' = IF Own(u) THEN "free" ELSE lock
    BY <1>9 DEF Ends, Ended, AnotherPort
  <2>2. CASE Own(u)
    <3>1. (\A v \in undoing' : ~Own(v)) /\ (\A b \in Attempts : ~attempt'[b].active) /\ lock' = "free"
      BY <2>1, <2>2 DEF LockIsHeld
    <3> QED
      BY <3>1 DEF LockIsHeld, Own
  <2>3. CASE ~Own(u)
    <3>1. (\E x \in undoing' : Own(x)) <=> (\E x \in undoing : Own(x))
      BY <2>1, <2>3
    <3> QED
      BY <2>1, <2>3, <3>1 DEF LockIsHeld, Own
  <2> QED
    BY <2>2, <2>3
<1>10. ASSUME NEW v \in Undos, ~Own(v), undoing' = undoing \cup {v}, UNCHANGED <<attempt, lock>> PROVE LockIsHeld'
  <2>1. (\E x \in undoing' : Own(x)) <=> (\E x \in undoing : Own(x))
    BY <1>10
  <2>2. \A x, y \in undoing' : Own(x) /\ Own(y) => x = y
    BY <1>10 DEF LockIsHeld
  <2> QED
    BY <1>10, <2>1, <2>2 DEF LockIsHeld, Own
<1>11. ASSUME NEW i \in Instances, NEW m \in Modes, CleanupTaken(i, m) PROVE LockIsHeld'
  BY <1>0, <1>10, <1>11 DEF CleanupTaken
<1>12. ASSUME NEW i \in Instances, Acted(i), Removing(i) PROVE LockIsHeld'
  BY <1>0, <1>10, <1>12 DEF Acted, Removing
<1>13. CASE UNCHANGED <<attempt, undoing, lock>>
  BY <1>13 DEF LockIsHeld, Own
<1>14. ASSUME NEW i \in Instances,
              \/ Provisioned(i) \/ Retried(i) \/ OperationExpires(i) \/ LeaseGone(i) \/ Looked(i)
              \/ Acted(i) /\ (Requeued(i) \/ Adjusted(i))
              \/ \E m \in Modes : RemovalAsked(i, m) \/ CleanupLeaseGone(i, m)
       PROVE  UNCHANGED <<attempt, undoing, lock>>
  BY <1>14 DEF Provisioned, Retried, OperationExpires, asked, LeaseGone, Looked, Acted, Requeued, Adjusted,
               RemovalAsked, CleanupLeaseGone
<1>15. ASSUME UNCHANGED vars PROVE UNCHANGED <<attempt, undoing, lock>>
  BY <1>15 DEF vars
<1> QED
  BY <1>1, <1>2, <1>3, <1>4, <1>5, <1>6, <1>7, <1>8, <1>9, <1>11, <1>12, <1>13, <1>14, <1>15 DEF Effect

-----------------------------------------------------------------------------
(* What changes a row of an instance is a step of that instance.           *)

\* A step of an attempt of i.
StepOfAttempt(i) == \E a \in Attempts : a[1] = i /\ (Goes(a) \/ Gives(a) \/ Succeeds(a))

\* A step of a clean-up of i.
StepOfUndo(i) ==
    \E u \in undoing : u.inst = i /\ (Ends(u) \/ NoPort(u) \/ \E p \in Ports : AnotherPort(u, p))

\* What changes the row of an instance.
LEMMA InstChanges ==
    ASSUME TypeOK, Effect, NEW i \in Instances
    PROVE  \/ inst'[i] = inst[i]
           \/ StepOfAttempt(i) \/ Provisioned(i) \/ Retried(i) \/ Claims(i)
           \/ Acted(i) /\ (Requeued(i) \/ Adjusted(i))
           \/ \E m \in Modes : RemovalAsked(i, m)
           \/ StepOfUndo(i)
<1>1. ASSUME NEW a \in Attempts, Goes(a) \/ Gives(a) \/ Succeeds(a)
      PROVE  inst'[i] = inst[i] \/ StepOfAttempt(i)
  BY <1>1 DEF Goes, Gives, Succeeds, Frame, InstStatus, StepOfAttempt
<1>2. ASSUME NEW j \in Instances,
             \/ Provisioned(j) \/ Retried(j) \/ Claims(j) \/ \E m \in Modes : RemovalAsked(j, m)
      PROVE  inst'[i] = inst[i] \/ j = i
  BY <1>2 DEF Provisioned, Retried, Claims, RemovalAsked, InstKeeps
<1>3. ASSUME NEW j \in Instances, Acted(j), Requeued(j) \/ Removing(j) \/ Adjusted(j)
      PROVE  inst'[i] = inst[i] \/ (j = i /\ (Requeued(j) \/ Adjusted(j)))
  BY <1>3 DEF Acted, InstKeeps, Removing
<1>4. ASSUME NEW u \in undoing, Ends(u) \/ NoPort(u) \/ \E p \in Ports : AnotherPort(u, p)
      PROVE  inst'[i] = inst[i] \/ StepOfUndo(i)
  BY <1>4 DEF Ends, EndedInst, NoPort, AnotherPort, InstKeeps, StepOfUndo
<1>5. ASSUME \/ Exhausts \/ NothingToClaim \/ Crashed \/ UNCHANGED vars
             \/ \E u \in undoing : Removed(u)
             \/ \E j \in Instances :
                   \/ OperationExpires(j) \/ LeaseGone(j) \/ Looked(j)
                   \/ \E m \in Modes : CleanupTaken(j, m) \/ CleanupLeaseGone(j, m)
      PROVE  inst'[i] = inst[i]
  BY <1>5 DEF Exhausts, NothingToClaim, Crashed, vars, Removed, OperationExpires, LeaseGone, Looked,
              CleanupTaken, CleanupLeaseGone
<1> QED
  BY <1>1, <1>2, <1>3, <1>4, <1>5 DEF Effect

\* What changes the row of a task.
LEMMA TaskChanges ==
    ASSUME TypeOK, Effect, NEW i \in Instances
    PROVE  \/ task'[i] = task[i]
           \/ StepOfAttempt(i) \/ Provisioned(i) \/ Retried(i) \/ Claims(i) \/ LeaseGone(i)
           \/ \E m \in Modes : RemovalAsked(i, m)
           \/ Exhausts /\ i \in Exhausted
           \/ StepOfUndo(i)
<1>1. ASSUME NEW a \in Attempts, Goes(a) \/ Gives(a) \/ Succeeds(a)
      PROVE  task'[i] = task[i] \/ StepOfAttempt(i)
  BY <1>1 DEF Goes, Gives, Succeeds, TaskFailed, StepOfAttempt
<1>2. ASSUME NEW j \in Instances,
             \/ Provisioned(j) \/ Retried(j) \/ Claims(j) \/ LeaseGone(j)
             \/ \E m \in Modes : RemovalAsked(j, m)
      PROVE  task'[i] = task[i] \/ j = i
  BY <1>2 DEF Provisioned, Retried, Claims, LeaseGone, RemovalAsked, TaskKeeps
<1>3. ASSUME Exhausts PROVE task'[i] = task[i] \/ i \in Exhausted
  BY <1>3 DEF Exhausts
<1>4. ASSUME NEW u \in undoing, Ends(u) \/ NoPort(u) \/ \E p \in Ports : AnotherPort(u, p)
      PROVE  task'[i] = task[i] \/ StepOfUndo(i)
  BY <1>4 DEF Ends, EndedTask, NoPort, AnotherPort, TaskKeeps, StepOfUndo
<1>5. ASSUME \/ NothingToClaim \/ Crashed \/ UNCHANGED vars
             \/ \E u \in undoing : Removed(u)
             \/ \E j \in Instances :
                   \/ OperationExpires(j) \/ Looked(j) \/ Acted(j)
                   \/ \E m \in Modes : CleanupTaken(j, m) \/ CleanupLeaseGone(j, m)
      PROVE  task'[i] = task[i]
  BY <1>5 DEF NothingToClaim, Crashed, vars, Removed, OperationExpires, Looked, Acted, CleanupTaken, CleanupLeaseGone
<1> QED
  BY <1>1, <1>2, <1>3, <1>4, <1>5 DEF Effect

\* What changes the row of a queued clean-up.
LEMMA CleanChanges ==
    ASSUME TypeOK, Deletable, Effect, NEW i \in Instances, NEW m \in Modes
    PROVE  \/ clean'[i][m] = clean[i][m]
           \/ RemovalAsked(i, m) \/ CleanupTaken(i, m) \/ CleanupLeaseGone(i, m)
           \/ Acted(i) /\ Requeued(i) /\ m = "delete"
           \/ \E u \in undoing : u.inst = i /\ u.for = m /\ Ends(u)
<1>1. ASSUME NEW j \in Instances, NEW n \in Modes,
             RemovalAsked(j, n) \/ CleanupTaken(j, n) \/ CleanupLeaseGone(j, n)
      PROVE  clean'[i][m] = clean[i][m] \/ (j = i /\ n = m)
  BY <1>1 DEF RemovalAsked, CleanupTaken, CleanupLeaseGone, CleanKeeps
<1>2. ASSUME NEW j \in Instances, Acted(j), Requeued(j) \/ Removing(j) \/ Adjusted(j)
      PROVE  clean'[i][m] = clean[i][m] \/ (j = i /\ m = "delete" /\ Requeued(i))
  <2>1. CASE Requeued(j)
    BY <2>1 DEF Requeued, CleanKeeps, Deletable
  <2>2. CASE Removing(j) \/ Adjusted(j)
    BY <2>2 DEF Removing, Adjusted
  <2> QED
    BY <1>2, <2>1, <2>2
<1>3. ASSUME NEW u \in undoing, Ends(u)
      PROVE  clean'[i][m] = clean[i][m] \/ (u.inst = i /\ u.for = m)
  BY <1>3 DEF Ends, EndedClean
<1>4. ASSUME \/ \E a \in Attempts : Goes(a) \/ Gives(a) \/ Succeeds(a)
             \/ Exhausts \/ NothingToClaim \/ Crashed \/ UNCHANGED vars
             \/ \E u \in undoing : Removed(u) \/ NoPort(u) \/ \E p \in Ports : AnotherPort(u, p)
             \/ \E j \in Instances :
                   \/ Provisioned(j) \/ Retried(j) \/ OperationExpires(j) \/ Claims(j) \/ LeaseGone(j) \/ Looked(j)
      PROVE  clean'[i][m] = clean[i][m]
  BY <1>4 DEF Goes, Gives, Succeeds, Frame, Exhausts, NothingToClaim, Crashed, vars, Removed, NoPort, AnotherPort,
              Provisioned, Retried, OperationExpires, Claims, LeaseGone, Looked
<1> QED
  BY <1>1, <1>2, <1>3, <1>4 DEF Effect

\* What changes what the reconciler has read of an instance.
LEMMA CycleChanges ==
    ASSUME TypeOK, Effect, NEW i \in Instances
    PROVE  \/ cycle'[i] = cycle[i]
           \/ Looked(i)
           \/ cycle'[i] = Unread
<1>1. ASSUME NEW j \in Instances, Looked(j) PROVE cycle'[i] = cycle[i] \/ j = i
  BY <1>1 DEF Looked
<1>2. ASSUME Crashed \/ \E j \in Instances : Acted(j) PROVE cycle'[i] = cycle[i] \/ cycle'[i] = Unread
  BY <1>2 DEF Crashed, Acted
<1>3. ASSUME \/ \E a \in Attempts : Goes(a) \/ Gives(a) \/ Succeeds(a)
             \/ Exhausts \/ NothingToClaim \/ UNCHANGED vars
             \/ \E u \in undoing : Removed(u) \/ Ends(u) \/ NoPort(u) \/ \E p \in Ports : AnotherPort(u, p)
      PROVE  cycle' = cycle
  BY <1>3 DEF Goes, Gives, Succeeds, Frame, Exhausts, NothingToClaim, vars, Removed, Ends, Ended, NoPort, AnotherPort
<1>4. ASSUME NEW j \in Instances,
             \/ Provisioned(j) \/ Retried(j) \/ OperationExpires(j) \/ Claims(j) \/ LeaseGone(j)
             \/ \E m \in Modes : RemovalAsked(j, m) \/ CleanupTaken(j, m) \/ CleanupLeaseGone(j, m)
      PROVE  cycle' = cycle
  BY <1>4 DEF Provisioned, Retried, OperationExpires, Claims, LeaseGone, RemovalAsked, CleanupTaken, CleanupLeaseGone
<1> QED
  BY <1>1, <1>2, <1>3, <1>4 DEF Effect

\* A clean-up that is under way after a step was so before it, or the step began it.
LEMMA UndoChanges ==
    ASSUME TypeOK, Effect, NEW v \in undoing'
    PROVE  \/ v \in undoing
           \/ \E u \in undoing : v.inst = u.inst /\ v.for = u.for /\ Removed(u)
           \/ \E u \in undoing : v.inst = u.inst /\ v.for = "failed" /\ NoPort(u)
           \/ \E a \in Attempts : v.inst = a[1] /\ Gives(a) /\ Own(v) /\ (v.for = "retry" => task' = task)
           \/ v.for = "cancelled" /\ Claims(v.inst) /\ v.inst \in Instances /\ task'[v.inst].status = "failed"
           \/ v.for = "exhausted" /\ Exhausts /\ v.inst \in Exhausted
           \/ v.inst \in Instances /\ v.for \in Modes /\ CleanupTaken(v.inst, v.for)
           \/ v.inst \in Instances /\ Acted(v.inst) /\ v.for = "reconciled"
           \/ v.inst \in Instances /\ Acted(v.inst) /\ v.for = "verified" /\ cycle[v.inst].row.status \in Gone
<1>1. ASSUME NEW a \in Attempts, Gives(a) 
      PROVE  v \in undoing \/ (v.inst = a[1] /\ Own(v) /\ (v.for = "retry" => task' = task))
  BY <1>1, UndoFields DEF Gives, Own
<1>2. ASSUME NEW i \in Instances, Claims(i)
      PROVE  v \in undoing \/ (v.for = "cancelled" /\ v.inst = i /\ task'[v.inst].status = "failed")
  BY <1>2, UndoFields DEF Claims
<1>3. ASSUME NEW i \in Instances, Acted(i), Requeued(i) \/ Removing(i) \/ Adjusted(i)
      PROVE  \/ v \in undoing
             \/ v.inst = i /\ v.for = "reconciled"
             \/ v.inst = i /\ v.for = "verified" /\ cycle[i].row.status \in Gone
  BY <1>3 DEF Requeued, Removing, Adjusted
<1>4. ASSUME NEW i \in Instances, NEW m \in Modes, CleanupTaken(i, m)
      PROVE  v \in undoing \/ (v.inst = i /\ v.for = m)
  BY <1>4 DEF CleanupTaken
<1>5. ASSUME Exhausts PROVE v \in undoing \/ (v.for = "exhausted" /\ v.inst \in Exhausted)
  BY <1>5, UndoFields DEF Exhausts
<1>6. ASSUME NEW u \in undoing, Removed(u) PROVE v \in undoing \/ (v.inst = u.inst /\ v.for = u.for)
  BY <1>6 DEF Removed
<1>7. ASSUME NEW u \in undoing, NoPort(u) PROVE v \in undoing \/ (v.inst = u.inst /\ v.for = "failed")
  BY <1>7 DEF NoPort
<1>8. ASSUME \/ \E a \in Attempts : Goes(a) \/ Succeeds(a)
             \/ NothingToClaim \/ Crashed \/ UNCHANGED vars
             \/ \E u \in undoing : Ends(u) \/ \E p \in Ports : AnotherPort(u, p)
             \/ \E j \in Instances :
                   \/ Provisioned(j) \/ Retried(j) \/ OperationExpires(j) \/ LeaseGone(j) \/ Looked(j)
                   \/ \E m \in Modes : RemovalAsked(j, m) \/ CleanupLeaseGone(j, m)
      PROVE  v \in undoing
  BY <1>8 DEF Goes, Succeeds, NothingToClaim, Crashed, vars, Ends, Ended, AnotherPort,
              Provisioned, Retried, OperationExpires, LeaseGone, Looked, RemovalAsked, CleanupLeaseGone
<1> QED
  BY <1>1, <1>2, <1>3, <1>4, <1>5, <1>6, <1>7, <1>8 DEF Effect

\* An attempt that is under way, or that the worker listens to, after a step was so before
\* it: or the step claimed its task.
LEMMA AttemptChanges ==
    ASSUME TypeOK, Effect, NEW a \in Attempts
    PROVE  \/ attempt'[a] = attempt[a]
           \/ Goes(a) \/ Gives(a) \/ Succeeds(a) \/ Claims(a[1])
           \/ ~attempt'[a].active /\ attempt'[a].at \in {"none", "ended"} /\ (attempt'[a].at = "none" <=> attempt[a].at = "none")
<1>1. ASSUME NEW b \in Attempts, Goes(b) \/ Gives(b) \/ Succeeds(b) PROVE attempt'[a] = attempt[a] \/ b = a
  BY <1>1 DEF Goes, Gives, Succeeds, Frame, Moves
<1>2. ASSUME NEW i \in Instances, Claims(i) PROVE attempt'[a] = attempt[a] \/ a[1] = i
  BY <1>2 DEF Claims
<1>3. ASSUME Crashed
      PROVE  /\ ~attempt'[a].active /\ attempt'[a].at \in {"none", "ended"}
             /\ attempt'[a].at = "none" <=> attempt[a].at = "none"
  BY <1>3 DEF Crashed
<1>4. ASSUME \/ Exhausts \/ NothingToClaim \/ UNCHANGED vars
             \/ \E u \in undoing : Removed(u) \/ Ends(u) \/ NoPort(u) \/ \E p \in Ports : AnotherPort(u, p)
      PROVE  attempt'[a] = attempt[a]
  BY <1>4 DEF Exhausts, NothingToClaim, vars, Removed, Ends, Ended, NoPort, AnotherPort
<1>5. ASSUME NEW j \in Instances,
             \/ Provisioned(j) \/ Retried(j) \/ OperationExpires(j) \/ LeaseGone(j) \/ Looked(j) \/ Acted(j)
             \/ \E m \in Modes : RemovalAsked(j, m) \/ CleanupTaken(j, m) \/ CleanupLeaseGone(j, m)
      PROVE  attempt'[a] = attempt[a]
  BY <1>5 DEF Provisioned, Retried, OperationExpires, LeaseGone, Looked, Acted, RemovalAsked, CleanupTaken, CleanupLeaseGone
<1> QED
  BY <1>1, <1>2, <1>3, <1>4, <1>5 DEF Effect

\* A provisioned instance stays so, and whatever is written is written of one.
LEMMA HousedStays ==
    ASSUME TypeOK, Housing, Effect, NEW i \in Instances
    PROVE  /\ Housed(i) => Housed(i)'
           /\ inst'[i].status # "none" => Housed(i)'
           /\ inst'[i].status = "none" => inst'[i].desired = "running"
<1>1. CASE Provisioned(i)
  BY <1>1 DEF Provisioned, Housed
<1>2. CASE inst'[i] = inst[i]
  BY <1>2 DEF Housing, Housed
<1>3. CASE StepOfAttempt(i)
  <2>1. PICK a \in Attempts : a[1] = i /\ (Running(a) \/ attempt[a].active)
    BY <1>3 DEF StepOfAttempt, Goes, Gives, Succeeds
  <2>2. Housed(i)
    BY <2>1 DEF Housing, Running
  <2>3. InstStatus(i)
    BY <1>3 DEF StepOfAttempt, Goes, Gives, Succeeds, Frame
  <2> QED
    BY <2>2, <2>3 DEF InstStatus, Written, Housed
<1>4. CASE Retried(i) \/ Claims(i)
  <2>1. Housed(i)
    BY <1>4 DEF Retried, Claims, Housing
  <2> QED
    BY <1>4, <2>1 DEF Retried, Claims, Housed
<1>5. CASE Acted(i) /\ (Requeued(i) \/ Adjusted(i))
  <2>1. Housed(i)
    BY <1>5 DEF Acted, Housing
  <2> QED
    BY <1>5, <2>1 DEF Acted, Requeued, Adjusted, Housed
<1>6. ASSUME NEW m \in Modes, RemovalAsked(i, m)
      PROVE  Housed(i) /\ Housed(i)'
  <2>1. Housed(i)
    BY <1>6 DEF RemovalAsked, Housing
  <2> QED
    BY <1>6, <2>1 DEF RemovalAsked, Housed
<1>7. CASE StepOfUndo(i)
  <2>1. PICK u \in undoing : u.inst = i /\ (Ends(u) \/ NoPort(u) \/ \E p \in Ports : AnotherPort(u, p))
    BY <1>7 DEF StepOfUndo
  <2>2. Housed(i)
    BY <2>1 DEF Housing
  <2> QED
    BY <2>1, <2>2 DEF Ends, EndedInst, NoPort, AnotherPort, Housed
<1>8. ASSUME Housed(i)' PROVE inst'[i].status # "none"
  BY <1>8 DEF Housed
<1> QED
  BY <1>1, <1>2, <1>3, <1>4, <1>5, <1>6, <1>7, <1>8, InstChanges

\* Whatever is begun for an instance is begun when it is provisioned.
LEMMA HousingNext ==
    ASSUME TypeOK, Housing, Deletable, Effect
    PROVE  Housing'
<1>1. ASSUME NEW i \in Instances PROVE task'[i].status # "none" => Housed(i)'
  <2>1. CASE Housed(i)
    BY <2>1, HousedStays
  <2>2. CASE Provisioned(i)
    BY <2>2, HousedStays DEF Provisioned
  <2>3. CASE ~Housed(i) /\ ~Provisioned(i)
    <3>1. inst[i].status = "none" /\ task[i].status = "none"
      BY <2>3 DEF Housing
    <3>2. \A a \in Attempts : a[1] = i => attempt[a].at = "none" /\ ~attempt[a].active
      BY <2>3 DEF Housing
    <3>3. ~StepOfAttempt(i)
      BY <3>2 DEF StepOfAttempt, Goes, Gives, Succeeds, Running
    <3>4. ~StepOfUndo(i)
      BY <2>3 DEF StepOfUndo, Housing
    <3>5. ~Retried(i) /\ ~Claims(i) /\ i \notin Exhausted /\ \A m \in Modes : ~RemovalAsked(i, m)
      BY <2>3, <3>1 DEF Retried, Claims, Exhausted, RemovalAsked
    <3>6. task'[i].status = "none"
      BY <2>3, <3>1, <3>3, <3>4, <3>5, TaskChanges DEF LeaseGone
    <3> QED
      BY <3>6
  <2> QED
    BY <2>1, <2>2, <2>3
<1>2. ASSUME NEW i \in Instances
      PROVE  /\ cycle'[i].at # "idle" => Housed(i)'
             /\ cycle'[i].at = "idle" => cycle'[i].row = NoInstance
  <2>1. Unread.at = "idle" /\ Unread.row = NoInstance
    BY DEF Unread
  <2>2. CASE Looked(i)
    BY <2>2, HousedStays DEF Looked, Housing
  <2>3. CASE cycle'[i] = cycle[i] \/ cycle'[i] = Unread
    BY <2>1, <2>3, HousedStays DEF Housing
  <2> QED
    BY <2>2, <2>3, CycleChanges
<1>3. ASSUME NEW i \in Instances, NEW m \in Modes PROVE clean'[i][m].status # "none" => Housed(i)'
  <2>1. CASE clean'[i][m] = clean[i][m]
    BY <2>1, HousedStays DEF Housing
  <2>2. CASE RemovalAsked(i, m) \/ CleanupTaken(i, m) \/ CleanupLeaseGone(i, m)
    <3>1. Housed(i)
      BY <2>2 DEF RemovalAsked, CleanupTaken, CleanupLeaseGone, Housing
    <3> QED
      BY <3>1, HousedStays
  <2>3. CASE Acted(i)
    BY <2>3, HousedStays DEF Acted, Housing
  <2>4. CASE \E u \in undoing : u.inst = i
    BY <2>4, HousedStays DEF Housing
  <2> QED
    BY <2>1, <2>2, <2>3, <2>4, CleanChanges
<1>4. ASSUME NEW a \in Attempts
      PROVE  /\ attempt'[a].at = "none" \/ Housed(a[1])'
             /\ attempt'[a].active => attempt'[a].at # "none"
             /\ Running(a)' => attempt'[a].port \in Ports
  <2>0. a[1] \in Instances
    BY AttemptInstance
  <2>1. CASE attempt'[a] = attempt[a]
    BY <2>0, <2>1, HousedStays DEF Housing, Running
  <2>2. CASE Goes(a) \/ Gives(a) \/ Succeeds(a)
    <3>1. attempt[a].at # "none" /\ Moves(a)
      BY <2>2 DEF Goes, Gives, Succeeds, Frame, Running, Housing
    <3>2. Housed(a[1])'
      BY <2>0, <3>1, HousedStays DEF Housing
    <3>3. Running(a)' => Running(a)
      BY <2>2, <3>1 DEF Goes, Gives, Succeeds, Running
    <3> QED
      BY <3>1, <3>2, <3>3 DEF Moves, Housing
  <2>3. CASE Claims(a[1])
    <3>1. PICK b \in Attempts, refused \in BOOLEAN :
              /\ b[1] = a[1] /\ Housed(a[1])
              /\ \A c \in Attempts : c # b => attempt'[c] = attempt[c]
              /\ attempt'[b].at = IF refused THEN "ended" ELSE "ping"
              /\ attempt'[b].active = ~refused /\ attempt'[b].port = inst[a[1]].port
      BY <2>3 DEF Claims
    <3>2. CASE a = b
      BY <2>0, <3>1, <3>2, HousedStays DEF Housed
    <3>3. CASE a # b
      BY <2>1, <3>1, <3>3
    <3> QED
      BY <3>2, <3>3
  <2>4. CASE /\ ~attempt'[a].active /\ attempt'[a].at \in {"none", "ended"}
             /\ attempt'[a].at = "none" <=> attempt[a].at = "none"
    BY <2>0, <2>4, HousedStays DEF Housing, Running
  <2> QED
    BY <2>1, <2>2, <2>3, <2>4, AttemptChanges
<1>5. ASSUME NEW v \in undoing' PROVE Housed(v.inst)'
  <2>1. CASE v \in undoing \/ \E u \in undoing : v.inst = u.inst
    <3>1. v.inst \in Instances /\ Housed(v.inst)
      BY <2>1 DEF TypeOK, Undos, Housing
    <3> QED
      BY <3>1, HousedStays
  <2>2. CASE \E a \in Attempts : v.inst = a[1] /\ Gives(a)
    <3>1. v.inst \in Instances /\ Housed(v.inst)
      BY <2>2, AttemptInstance DEF Gives, Housing
    <3> QED
      BY <3>1, HousedStays
  <2>3. CASE v.inst \in Instances /\ Claims(v.inst)
    <3>1. Housed(v.inst)
      BY <2>3 DEF Claims
    <3> QED
      BY <2>3, <3>1, HousedStays
  <2>4. CASE v.inst \in Exhausted
    <3>1. v.inst \in Instances /\ Housed(v.inst)
      BY <2>4 DEF Exhausted, Housing
    <3> QED
      BY <3>1, HousedStays
  <2>5. CASE v.inst \in Instances /\ v.for \in Modes /\ CleanupTaken(v.inst, v.for)
    <3>1. Housed(v.inst)
      BY <2>5 DEF CleanupTaken, Housing
    <3> QED
      BY <2>5, <3>1, HousedStays
  <2>6. CASE v.inst \in Instances /\ Acted(v.inst)
    BY <2>6, HousedStays DEF Acted, Housing
  <2> QED
    BY <2>1, <2>2, <2>3, <2>4, <2>5, <2>6, UndoChanges
<1> QED
  BY <1>1, <1>2, <1>3, <1>4, <1>5, HousedStays DEF Housing

\* Until a user retries, nobody has retried.
LEMMA RetriesGrow ==
    ASSUME TypeOK, Effect, retries' = 0
    PROVE  retries = 0 /\ \A i \in Instances : ~Retried(i)
<1>0. \A i \in Instances : ~Retried(i)
  BY BoundsAssumption DEF Retried
<1>1. ASSUME \/ \E a \in Attempts : Goes(a) \/ Gives(a) \/ Succeeds(a)
             \/ Exhausts \/ NothingToClaim \/ Crashed \/ UNCHANGED vars
             \/ \E u \in undoing : Removed(u) \/ Ends(u) \/ NoPort(u) \/ \E p \in Ports : AnotherPort(u, p)
      PROVE  UNCHANGED retries
  BY <1>1 DEF Goes, Gives, Succeeds, Frame, Exhausts, NothingToClaim, asked, Crashed, vars, Removed, Ends, Ended,
              NoPort, AnotherPort
<1>2. ASSUME NEW j \in Instances,
             \/ Provisioned(j) \/ OperationExpires(j) \/ Claims(j) \/ LeaseGone(j) \/ Looked(j) \/ Acted(j)
             \/ \E m \in Modes : RemovalAsked(j, m) \/ CleanupTaken(j, m) \/ CleanupLeaseGone(j, m)
      PROVE  UNCHANGED retries
  BY <1>2 DEF Provisioned, OperationExpires, asked, Claims, LeaseGone, Looked, Acted, RemovalAsked, CleanupTaken,
              CleanupLeaseGone
<1> QED
  BY <1>0, <1>1, <1>2 DEF Effect

\* A deployment that was settled or cancelled stays so, until a user retries.
LEMMA SettledStays ==
    ASSUME TypeOK, Compensating, Effect, retries' = 0, NEW i \in Instances, Settled(i)
    PROVE  Provisioned(i) \/ Settled(i)'
<1>0. retries = 0 /\ ~Retried(i)
  BY RetriesGrow
<1>1. CASE task'[i] = task[i]
  BY <1>1 DEF Settled
<1>2. CASE StepOfAttempt(i)
  BY <1>2 DEF StepOfAttempt, Goes, Gives, Succeeds, TaskFailed, Settled
<1>3. CASE Claims(i)
  BY <1>3 DEF Claims, Claimable, Settled
<1>4. CASE LeaseGone(i)
  BY <1>4 DEF LeaseGone, Settled
<1>5. CASE \E m \in Modes : RemovalAsked(i, m)
  BY <1>5 DEF RemovalAsked
<1>6. CASE Exhausts
  BY <1>6 DEF Exhausts, Settled
<1>7. CASE StepOfUndo(i)
  <2>1. PICK u \in undoing : u.inst = i /\ (Ends(u) \/ NoPort(u) \/ \E p \in Ports : AnotherPort(u, p))
    BY <1>7 DEF StepOfUndo
  <2>2. CASE Ends(u)
    BY <2>1, <2>2 DEF Ends, EndedTask, Settled
  <2>3. CASE NoPort(u)
    BY <1>1, <2>3 DEF NoPort
  <2>4. ASSUME NEW p \in Ports, AnotherPort(u, p) PROVE Settled(i)'
    <3>1. task[i].cancel
      BY <1>0, <2>1, <2>4 DEF AnotherPort, Compensating, Settled
    <3> QED
      BY <2>1, <2>4, <3>1 DEF AnotherPort, Settled
  <2> QED
    BY <2>1, <2>2, <2>3, <2>4
<1> QED
  BY <1>0, <1>1, <1>2, <1>3, <1>4, <1>5, <1>6, <1>7, TaskChanges

\* A settled task stays settled until a retry, and whoever begins a removal settles it.
LEMMA WithdrawalNext ==
    ASSUME TypeOK, Housing, Compensating, Withdrawal, Deletable, Effect
    PROVE  Withdrawal'
<1> SUFFICES ASSUME retries' = 0
             PROVE  /\ \A i \in Instances :
                          /\ inst'[i].desired # "running" \/ inst'[i].status \in Gone => Settled(i)'
                          /\ cycle'[i].row.desired # "running" \/ cycle'[i].row.status \in Gone => Settled(i)'
                          /\ \A m \in Modes : clean'[i][m].status # "none" => Settled(i)'
                    /\ \A u \in undoing' : u.for \in Modes \cup {"verified"} => Settled(u.inst)'
  BY DEF Withdrawal
<1>0. retries = 0 /\ \A i \in Instances : ~Retried(i)
  BY RetriesGrow
<1>1. ASSUME NEW i \in Instances, Provisioned(i)
      PROVE  /\ ~Housed(i) /\ cycle'[i].row.desired = "running" /\ cycle'[i].row.status = "none"
             /\ inst'[i].desired = "running" /\ inst'[i].status = "provisioning"
             /\ (\A m \in Modes : clean'[i][m].status = "none") /\ \A u \in undoing' : u.inst # i
  <2>1. ~Housed(i) /\ inst[i].status = "none" /\ inst[i].desired = "running"
    BY <1>1 DEF Provisioned, Housing, Housed
  <2>2. cycle'[i].row = NoInstance
    BY <1>1, <2>1 DEF Provisioned, Housing
  <2>3. NoInstance.desired = "running" /\ NoInstance.status = "none"
    BY DEF NoInstance
  <2> QED
    BY <1>1, <2>1, <2>2, <2>3 DEF Provisioned, Housing
<1>2. ASSUME NEW i \in Instances, inst'[i].desired # "running" \/ inst'[i].status \in Gone PROVE Settled(i)'
  <2>0. ~Provisioned(i)
    BY <1>1, <1>2 DEF Gone
  <2>1. CASE inst[i].desired # "running" \/ inst[i].status \in Gone
    BY <1>0, <2>0, <2>1, SettledStays DEF Withdrawal
  <2>2. CASE inst[i].desired = "running" /\ inst[i].status \notin Gone
    <3>1. inst'[i] # inst[i]
      BY <1>2, <2>2
    <3>2. ~StepOfAttempt(i)
      BY <1>2, <2>2 DEF StepOfAttempt, Goes, Gives, Succeeds, Frame, InstStatus, Written, Gone
    <3>3. ~Claims(i)
      BY <1>2, <2>2 DEF Claims, Gone
    <3>4. CASE Acted(i) /\ (Requeued(i) \/ Adjusted(i))
      <4>1. Requeued(i)
        BY <1>2, <2>2, <3>4 DEF Adjusted, Gone
      <4>2. Settled(i)
        BY <1>0, <4>1 DEF Requeued, Withdrawal
      <4> QED
        BY <2>0, <4>2, SettledStays
    <3>5. CASE \E m \in Modes : RemovalAsked(i, m)
      BY <3>5 DEF RemovalAsked
    <3>6. CASE StepOfUndo(i)
      <4>1. PICK u \in undoing : u.inst = i /\ (Ends(u) \/ NoPort(u) \/ \E p \in Ports : AnotherPort(u, p))
        BY <3>6 DEF StepOfUndo
      <4>2. ~NoPort(u) /\ ~\E p \in Ports : AnotherPort(u, p)
        BY <1>2, <2>2, <4>1 DEF NoPort, AnotherPort, Gone
      <4>3. u.for = "delete" \/ u.for = "archive"
        BY <1>2, <2>2, <4>1, <4>2 DEF Ends, EndedInst, Gone
      <4>4. u.for \in Modes
        BY <4>3 DEF TypeOK, Undos, Compensations
      <4>5. Settled(i)
        BY <1>0, <4>1, <4>4 DEF Withdrawal
      <4> QED
        BY <2>0, <4>5, SettledStays
    <3> QED
      BY <1>0, <2>0, <3>1, <3>2, <3>3, <3>4, <3>5, <3>6, InstChanges
  <2> QED
    BY <2>1, <2>2
<1>3. ASSUME NEW i \in Instances, cycle'[i].row.desired # "running" \/ cycle'[i].row.status \in Gone PROVE Settled(i)'
  <2>0. ~Provisioned(i)
    BY <1>1, <1>3 DEF Gone
  <2>1. cycle'[i] # Unread
    BY <1>3 DEF Unread, NoInstance, Gone
  <2>2. CASE cycle'[i].row = cycle[i].row
    BY <1>0, <1>3, <2>0, <2>2, SettledStays DEF Withdrawal
  <2>3. CASE Looked(i) /\ cycle'[i].row = inst[i]
    BY <1>0, <1>3, <2>0, <2>3, SettledStays DEF Withdrawal
  <2> QED
    BY <2>1, <2>2, <2>3, CycleChanges DEF Looked
<1>4. ASSUME NEW i \in Instances, NEW m \in Modes, clean'[i][m].status # "none" PROVE Settled(i)'
  <2>0. ~Provisioned(i)
    BY <1>1, <1>4
  <2>1. CASE clean[i][m].status # "none"
    BY <1>0, <2>0, <2>1, SettledStays DEF Withdrawal
  <2>2. CASE clean[i][m].status = "none"
    <3>1. clean'[i][m] # clean[i][m] /\ ~CleanupTaken(i, m) /\ ~CleanupLeaseGone(i, m)
      BY <1>4, <2>2 DEF CleanupTaken, CleanupLeaseGone
    <3>2. CASE RemovalAsked(i, m)
      BY <3>2 DEF RemovalAsked
    <3>3. CASE Requeued(i)
      <4>1. Settled(i)
        BY <1>0, <3>3 DEF Requeued, Withdrawal
      <4> QED
        BY <2>0, <4>1, SettledStays
    <3>4. CASE \E u \in undoing : u.inst = i /\ u.for = m
      <4>1. Settled(i)
        BY <1>0, <3>4 DEF Withdrawal
      <4> QED
        BY <2>0, <4>1, SettledStays
    <3> QED
      BY <3>1, <3>2, <3>3, <3>4, CleanChanges
  <2> QED
    BY <2>1, <2>2
<1>5. ASSUME NEW v \in undoing', v.for \in Modes \cup {"verified"} PROVE Settled(v.inst)'
  <2>0. /\ v.for \notin WorkersOwn \cup {"failed", "cancelled", "exhausted", "reconciled"}
        /\ v.for \in {"delete", "archive", "verified"}
    BY <1>5, ModesAreRemovals DEF WorkersOwn
  <2>1. v.inst \in Instances /\ Settled(v.inst)
    <3>1. CASE v \in undoing \/ \E u \in undoing : v.inst = u.inst /\ v.for = u.for
      BY <1>0, <1>5, <3>1 DEF Withdrawal, TypeOK, Undos
    <3>2. CASE v.inst \in Instances /\ v.for \in Modes /\ CleanupTaken(v.inst, v.for)
      BY <1>0, <3>2 DEF CleanupTaken, Withdrawal
    <3>3. CASE v.inst \in Instances /\ cycle[v.inst].row.status \in Gone
      BY <1>0, <3>3 DEF Withdrawal
    <3> QED
      BY <2>0, <3>1, <3>2, <3>3, UndoChanges DEF Own
  <2>2. ~Provisioned(v.inst)
    BY <1>1, <2>1
  <2> QED
    BY <2>1, <2>2, SettledStays
<1> QED
  BY <1>2, <1>3, <1>4, <1>5

\* A delete comes from a user, directly or through what the reconciler read.
LEMMA DeletableNext ==
    ASSUME TypeOK, Deletable, Effect
    PROVE  Deletable'
<1> SUFFICES ASSUME "delete" \notin Modes, NEW i \in Instances
             PROVE  /\ inst'[i].desired # "deleted" /\ inst'[i].status \notin Gone
                    /\ cycle'[i].row.desired # "deleted" /\ cycle'[i].row.status \notin Gone
  BY DEF Deletable
<1>0. /\ inst[i].desired # "deleted" /\ inst[i].status \notin Gone
      /\ cycle[i].row.desired # "deleted" /\ cycle[i].row.status \notin Gone
  BY DEF Deletable
<1>1. inst'[i].desired # "deleted" /\ inst'[i].status \notin Gone
  <2>1. CASE inst'[i] = inst[i]
    BY <1>0, <2>1
  <2>2. CASE StepOfAttempt(i)
    BY <1>0, <2>2 DEF StepOfAttempt, Goes, Gives, Succeeds, Frame, InstStatus, Written, Gone
  <2>3. CASE Provisioned(i) \/ Retried(i) \/ Claims(i)
    BY <1>0, <2>3 DEF Provisioned, Retried, Claims, Gone
  <2>4. CASE Requeued(i) \/ Adjusted(i)
    BY <1>0, <2>4 DEF Requeued, Adjusted, Gone
  <2>5. CASE \E m \in Modes : RemovalAsked(i, m)
    BY <2>5, ModesAreRemovals DEF RemovalAsked, Gone
  <2>6. CASE StepOfUndo(i)
    <3>1. PICK u \in undoing : u.inst = i /\ (Ends(u) \/ NoPort(u) \/ \E p \in Ports : AnotherPort(u, p))
      BY <2>6 DEF StepOfUndo
    <3>2. u.for # "delete"
      BY DEF TypeOK, Undos, Compensations
    <3> QED
      BY <1>0, <3>1, <3>2 DEF Ends, EndedInst, NoPort, AnotherPort, Gone
  <2> QED
    BY <2>1, <2>2, <2>3, <2>4, <2>5, <2>6, InstChanges
<1>2. Unread.row.desired = "running" /\ Unread.row.status = "none"
  BY DEF Unread, NoInstance
<1>3. cycle'[i].row.desired # "deleted" /\ cycle'[i].row.status \notin Gone
  BY <1>0, <1>2, CycleChanges DEF Looked, Gone
<1> QED
  BY <1>1, <1>3

\* Who writes deleting queues the clean-up, and its end takes the instance out of deleting or retries.
LEMMA DeletingNext ==
    ASSUME TypeOK, Deletable, DeletingIsQueued, Effect
    PROVE  DeletingIsQueued'
<1> DEFINE Unfinished == {"queued", "cleaning", "retry_wait"}
<1> SUFFICES ASSUME NEW i \in Instances, inst'[i].status = "deleting"
             PROVE  clean'[i]["delete"].status \in Unfinished
  BY DEF DeletingIsQueued
<1>0. "delete" \in Modes
  BY DeletableNext DEF Deletable, Gone
<1>1. CASE Requeued(i)
  BY <1>0, <1>1 DEF Requeued
<1>2. CASE \E m \in Modes : RemovalAsked(i, m)
  BY <1>2 DEF RemovalAsked
<1>3. ASSUME NEW u \in undoing, u.inst = i, Ends(u) PROVE clean'[i]["delete"].status \in Unfinished
  <2>1. CASE u.for = "delete"
    BY <1>3, <2>1 DEF Ends, EndedClean
  <2>2. CASE u.for # "delete"
    <3>1. clean'[i]["delete"] = clean[i]["delete"]
      BY <1>0, <1>3, <2>2 DEF Ends, EndedClean, TypeOK, Undos
    <3>2. inst[i].status = "deleting"
      BY <1>3, <2>2 DEF Ends, EndedInst
    <3> QED
      BY <3>1, <3>2 DEF DeletingIsQueued
  <2> QED
    BY <2>1, <2>2
<1>4. CASE /\ ~Requeued(i) /\ ~\E m \in Modes : RemovalAsked(i, m)
           /\ ~\E u \in undoing : u.inst = i /\ Ends(u)
  <2>1. inst[i].status = "deleting"
    <3>1. CASE StepOfAttempt(i)
      BY <3>1 DEF StepOfAttempt, Goes, Gives, Succeeds, Frame, InstStatus, Written
    <3>2. CASE Provisioned(i) \/ Retried(i) \/ Claims(i) \/ Adjusted(i)
      BY <3>2 DEF Provisioned, Retried, Claims, Adjusted
    <3>3. CASE StepOfUndo(i)
      BY <1>4, <3>3 DEF StepOfUndo, NoPort, AnotherPort
    <3> QED
      BY <1>4, <3>1, <3>2, <3>3, InstChanges
  <2>2. CASE clean'[i]["delete"] = clean[i]["delete"]
    BY <2>1, <2>2 DEF DeletingIsQueued
  <2>3. CASE CleanupTaken(i, "delete") \/ CleanupLeaseGone(i, "delete")
    BY <2>3 DEF CleanupTaken, CleanupLeaseGone
  <2> QED
    BY <1>0, <1>4, <2>2, <2>3, CleanChanges
<1> QED
  BY <1>1, <1>2, <1>3, <1>4

\* What changes the boot, the containers, the lock and the ports.
LEMMA OtherChanges ==
    ASSUME TypeOK, Effect, NEW i \in Instances
    PROVE  /\ boot' = boot \/ Crashed
           /\ containers'[i] = containers[i] \/ StepOfAttempt(i) \/ containers'[i] = "none"
           /\ \/ lock' = lock \/ (\E a \in Attempts : Succeeds(a)) \/ (\E j \in Instances : Claims(j))
              \/ Exhausts \/ NothingToClaim \/ Crashed
              \/ \E u \in undoing : Own(u)
           /\ \/ \A p \in Ports : <<p, i>> \in reserved => <<p, i>> \in reserved'
              \/ Provisioned(i) \/ (\E j \in Instances : Retried(j)) \/ StepOfUndo(i)
<1> DEFINE Boot == boot' = boot \/ Crashed
           Containers == containers'[i] = containers[i] \/ StepOfAttempt(i) \/ containers'[i] = "none"
           Lock == \/ lock' = lock \/ (\E a \in Attempts : Succeeds(a)) \/ (\E j \in Instances : Claims(j))
                   \/ Exhausts \/ NothingToClaim \/ Crashed
                   \/ \E u \in undoing : Own(u)
           Reserved == \/ \A p \in Ports : <<p, i>> \in reserved => <<p, i>> \in reserved'
                       \/ Provisioned(i) \/ (\E j \in Instances : Retried(j)) \/ StepOfUndo(i)
<1>1. ASSUME NEW a \in Attempts, Goes(a) \/ Gives(a) \/ Succeeds(a) PROVE Boot /\ Containers /\ Lock /\ Reserved
  <2>1. Frame(a)
    BY <1>1 DEF Goes, Gives, Succeeds
  <2>2. a[1] = i => StepOfAttempt(i)
    BY <1>1 DEF StepOfAttempt
  <2>3. Boot /\ Containers /\ Reserved
    BY <2>1, <2>2 DEF Frame
  <2>4. Lock
    BY <1>1 DEF Goes, Gives
  <2> QED
    BY <2>3, <2>4
<1>2. ASSUME NEW j \in Instances, Provisioned(j) PROVE Boot /\ Containers /\ Lock /\ Reserved
  BY <1>2 DEF Provisioned
<1>3. ASSUME NEW j \in Instances, Retried(j) PROVE Boot /\ Containers /\ Lock /\ Reserved
  BY <1>3 DEF Retried
<1>4. ASSUME NEW j \in Instances,
             \/ OperationExpires(j) \/ Claims(j) \/ LeaseGone(j) \/ Looked(j) \/ Acted(j)
             \/ \E m \in Modes : RemovalAsked(j, m) \/ CleanupTaken(j, m) \/ CleanupLeaseGone(j, m)
      PROVE  UNCHANGED <<boot, containers, reserved>> /\ Lock
  BY <1>4 DEF OperationExpires, Claims, LeaseGone, Looked, Acted, RemovalAsked, CleanupTaken, CleanupLeaseGone
<1>5. ASSUME Exhausts \/ NothingToClaim \/ Crashed \/ UNCHANGED vars
      PROVE  Boot /\ UNCHANGED <<containers, reserved>> /\ Lock
  BY <1>5 DEF Exhausts, NothingToClaim, Crashed, vars
<1>6. ASSUME NEW u \in undoing, Removed(u) PROVE Boot /\ Containers /\ Lock /\ Reserved
  BY <1>6 DEF Removed
<1>7. ASSUME NEW u \in undoing, Ends(u) PROVE Boot /\ Containers /\ Lock /\ Reserved
  BY <1>7 DEF Ends, Ended, Unreserved, StepOfUndo
<1>8. ASSUME NEW u \in undoing, NoPort(u) PROVE Boot /\ Containers /\ Lock /\ Reserved
  BY <1>8 DEF NoPort, Unreserved, StepOfUndo
<1>9. ASSUME NEW u \in undoing, NEW p \in Ports, AnotherPort(u, p) PROVE Boot /\ Containers /\ Lock /\ Reserved
  BY <1>9 DEF AnotherPort, StepOfUndo
<1> HIDE DEF Lock
<1>10. Boot /\ Containers /\ Lock /\ Reserved
  BY <1>1, <1>2, <1>3, <1>4, <1>5, <1>6, <1>7, <1>8, <1>9 DEF Effect
<1> QED
  BY <1>10 DEF Lock

\* While the worker listens to an attempt, no other attempt of the instance is under way
\* and no compensation of the worker; nothing else writes its task.
LEMMA CurrentNext ==
    ASSUME TypeOK, Housing, LockIsHeld, Current, Stale, Effect
    PROVE  Current'
<1> SUFFICES ASSUME NEW a \in Attempts, attempt'[a].active, retries' = 0
             PROVE  /\ task'[a[1]].status = "deploying" /\ task'[a[1]].attempt = a[2]
                    /\ task'[a[1]].worker = boot' /\ (task'[a[1]].cancel \/ task'[a[1]].live)
                    /\ attempt'[a].port = inst'[a[1]].port
                    /\ \A b \in Attempts : b[1] = a[1] /\ Running(b)' => b = a
                    /\ attempt'[a].at = "health" => containers'[a[1]] \in {attempt'[a].port, "none", "residue"}
  BY DEF Current
<1> DEFINE i == a[1]
<1>0. retries = 0 /\ (\A j \in Instances : ~Retried(j)) /\ i \in Instances
  BY RetriesGrow, AttemptInstance
<1>1. CASE Claims(i)
  <2>1. lock \in {"free", "tick"} /\ ~task[i].cancel /\ UNCHANGED <<boot, containers>>
    BY <1>1 DEF Claims, TickMayClaim, Claimable
  <2>2. \A b \in Attempts : ~attempt[b].active
    BY <2>1 DEF LockIsHeld
  <2>3. PICK b \in Attempts, refused \in BOOLEAN :
            /\ b[1] = i /\ b[2] = task[i].attempt + 1
            /\ task'[i].attempt = b[2] /\ task'[i].worker = boot /\ task'[i].live = ~refused
            /\ task'[i].status = IF refused THEN "failed" ELSE "deploying"
            /\ inst'[i].port = inst[i].port
            /\ \A c \in Attempts : c # b => attempt'[c] = attempt[c]
            /\ attempt'[b].at = IF refused THEN "ended" ELSE "ping"
            /\ attempt'[b].active = ~refused /\ attempt'[b].port = inst[i].port
    BY <1>1 DEF Claims
  <2>4. a = b /\ ~refused
    BY <2>2, <2>3
  <2>5. ASSUME NEW c \in Attempts, c[1] = i, Running(c)' PROVE c = a
    BY <1>0, <2>1, <2>2, <2>3, <2>4, <2>5 DEF Running, Stale
  <2> QED
    BY <2>1, <2>3, <2>4, <2>5
<1>2. CASE ~Claims(i)
  <2>1. attempt[a].active /\ (attempt'[a] = attempt[a] \/ Goes(a))
    BY <1>2, AttemptChanges DEF Goes, Gives, Succeeds
  <2>2. /\ lock = "attempt" /\ (\A u \in undoing : ~Own(u))
        /\ \A b \in Attempts : attempt[b].active => b = a
    BY <2>1 DEF LockIsHeld
  <2>3. /\ (\A j \in Instances : ~Claims(j)) /\ ~Exhausts /\ ~Crashed /\ Housed(i)
    BY <2>1, <2>2 DEF Claims, TickMayClaim, Exhausts, Crashed, Housing
  <2>4. ~Provisioned(i)
    BY <2>3 DEF Provisioned, Housed
  <2>5. /\ task[i].status = "deploying" /\ task[i].attempt = a[2]
        /\ task[i].worker = boot /\ (task[i].cancel \/ task[i].live)
        /\ attempt[a].port = inst[i].port
        /\ \A b \in Attempts : b[1] = i /\ Running(b) => b = a
        /\ attempt[a].at = "health" => containers[i] \in {attempt[a].port, "none", "residue"}
    BY <1>0, <2>1 DEF Current
  <2>6. StepOfAttempt(i) => Goes(a)
    <3>1. ASSUME NEW b \in Attempts, b[1] = i, Goes(b) \/ Gives(b) \/ Succeeds(b) PROVE Goes(a)
      <4>1. b = a
        BY <2>2, <2>5, <3>1 DEF Goes, Gives, Succeeds
      <4> QED
        BY <3>1, <4>1 DEF Gives, Succeeds
    <3> QED
      BY <3>1 DEF StepOfAttempt
  <2>7. ASSUME StepOfUndo(i) PROVE \E u \in undoing : u.inst = i /\ Ends(u) /\ ~Own(u)
    BY <2>2, <2>7 DEF StepOfUndo, NoPort, AnotherPort
  <2>8. /\ task'[i].status = "deploying" /\ task'[i].attempt = a[2]
        /\ task'[i].worker = boot /\ (task'[i].cancel \/ task'[i].live)
    <3>1. CASE task'[i] = task[i]
      BY <2>5, <3>1
    <3>2. CASE StepOfAttempt(i)
      BY <2>1, <2>5, <2>6, <3>2 DEF Goes
    <3>3. CASE LeaseGone(i)
      <4>1. a[2] \in 1 .. AttemptLimit /\ a = <<i, a[2]>>
        BY AttemptInstance
      <4>2. task[i].cancel
        BY <2>1, <3>3, <4>1 DEF LeaseGone
      <4> QED
        BY <2>5, <3>3, <4>2 DEF LeaseGone, TaskKeeps
    <3>4. CASE \E m \in Modes : RemovalAsked(i, m)
      BY <2>5, <3>4 DEF RemovalAsked, TaskKeeps, Settled
    <3>5. CASE StepOfUndo(i)
      <4>1. PICK u \in undoing : u.inst = i /\ Ends(u) /\ ~Own(u)
        BY <2>7, <3>5
      <4> QED
        BY <2>5, <4>1 DEF Ends, EndedTask
    <3> QED
      BY <1>0, <2>3, <2>4, <3>1, <3>2, <3>3, <3>4, <3>5, TaskChanges
  <2>9. boot' = boot
    BY <1>0, <2>3, OtherChanges
  <2>10. attempt'[a].port = inst'[i].port
    <3>1. attempt'[a].port = attempt[a].port
      BY <2>1 DEF Goes, Frame, Moves
    <3>2. CASE inst'[i] = inst[i]
      BY <2>5, <3>1, <3>2
    <3>3. CASE StepOfAttempt(i)
      BY <2>5, <2>6, <3>1, <3>3 DEF Goes, Frame, InstStatus
    <3>4. CASE Acted(i) \/ \E m \in Modes : RemovalAsked(i, m)
      BY <2>5, <3>1, <3>4 DEF Acted, RemovalAsked
    <3>5. CASE StepOfUndo(i)
      BY <2>5, <2>7, <3>1, <3>5 DEF Ends, EndedInst
    <3> QED
      BY <1>0, <2>3, <2>4, <3>2, <3>3, <3>4, <3>5, InstChanges
  <2>11. ASSUME NEW b \in Attempts, b[1] = i, Running(b)' PROVE b = a
    <3>1. CASE Running(b) \/ attempt[b].active
      BY <2>2, <2>5, <2>11, <3>1
    <3>2. CASE ~Running(b) /\ ~attempt[b].active
      <4>1. ~Goes(b) /\ ~Gives(b) /\ ~Succeeds(b) /\ ~Claims(b[1])
        BY <1>2, <2>11, <3>2 DEF Goes, Gives, Succeeds
      <4> QED
        BY <2>11, <3>2, <4>1, AttemptChanges DEF Running
    <3> QED
      BY <3>1, <3>2
  <2>12. ASSUME attempt'[a].at = "health" PROVE containers'[i] \in {attempt'[a].port, "none", "residue"}
    <3>1. attempt'[a].port = attempt[a].port
      BY <2>1 DEF Goes, Frame, Moves
    <3>2. CASE Goes(a)
      BY <2>12, <3>1, <3>2 DEF Goes
    <3>3. CASE ~Goes(a)
      BY <1>0, <2>1, <2>5, <2>6, <2>12, <3>3, OtherChanges
    <3> QED
      BY <3>2, <3>3
  <2> QED
    BY <2>8, <2>9, <2>10, <2>11, <2>12
<1> QED
  BY <1>1, <1>2

\* A cancellation stays, until a user retries.
LEMMA CancelStays ==
    ASSUME TypeOK, Effect, retries' = 0, NEW i \in Instances, task[i].cancel, ~Provisioned(i)
    PROVE  task'[i].cancel
<1>0. ~Retried(i)
  BY RetriesGrow
<1>1. CASE StepOfAttempt(i)
  BY <1>1 DEF StepOfAttempt, Goes, Gives, Succeeds, TaskFailed
<1>2. CASE Claims(i) \/ LeaseGone(i) \/ \E m \in Modes : RemovalAsked(i, m)
  BY <1>2 DEF Claims, Claimable, LeaseGone, RemovalAsked
<1>3. CASE Exhausts
  BY <1>3 DEF Exhausts
<1>4. CASE StepOfUndo(i)
  BY <1>4 DEF StepOfUndo, Ends, EndedTask, NoPort, AnotherPort
<1> QED
  BY <1>0, <1>1, <1>2, <1>3, <1>4, TaskChanges

\* Only an attempt that the worker listens to makes a task succeed.
LEMMA SuccessIsReported ==
    ASSUME TypeOK, Effect, NEW i \in Instances, task'[i].status = "success"
    PROVE  task[i].status = "success" \/ \E a \in Attempts : a[1] = i /\ Succeeds(a)
<1>1. CASE StepOfAttempt(i)
  BY <1>1 DEF StepOfAttempt, Goes, Gives, TaskFailed
<1>2. CASE Provisioned(i) \/ Retried(i) \/ Claims(i) \/ LeaseGone(i) \/ \E m \in Modes : RemovalAsked(i, m)
  BY <1>2 DEF Provisioned, Retried, Claims, LeaseGone, RemovalAsked
<1>3. CASE Exhausts
  BY <1>3 DEF Exhausts
<1>4. CASE StepOfUndo(i)
  BY <1>4 DEF StepOfUndo, Ends, EndedTask, NoPort, AnotherPort
<1> QED
  BY <1>1, <1>2, <1>3, <1>4, TaskChanges

\* An attempt is left running unheard only with its task cancelled.
LEMMA StaleNext ==
    ASSUME TypeOK, Housing, LockIsHeld, Current, Stale, Effect
    PROVE  Stale'
<1> SUFFICES ASSUME NEW a \in Attempts, Running(a)', ~attempt'[a].active, retries' = 0
             PROVE  task'[a[1]].cancel /\ task'[a[1]].status # "success"
  BY DEF Stale
<1> DEFINE i == a[1]
<1>0. retries = 0 /\ i \in Instances
  BY RetriesGrow, AttemptInstance
<1>1. CASE Running(a) /\ ~attempt[a].active
  <2>1. task[i].cancel /\ task[i].status # "success" /\ Housed(i)
    BY <1>0, <1>1 DEF Stale, Housing, Running
  <2>2. ~Provisioned(i)
    BY <2>1 DEF Provisioned, Housed
  <2>3. ASSUME NEW b \in Attempts, b[1] = i, Succeeds(b) PROVE FALSE
    BY <1>0, <1>1, <2>3 DEF Succeeds, Current
  <2> QED
    BY <1>0, <2>1, <2>2, <2>3, CancelStays, SuccessIsReported
<1>2. CASE attempt[a].active
  <2>1. Gives(a)
    <3>1. lock = "attempt"
      BY <1>2 DEF LockIsHeld
    <3>2. ~Claims(i)
      BY <3>1 DEF Claims, TickMayClaim
    <3> QED
      BY <1>2, <3>2, AttemptChanges DEF Goes, Succeeds, Running
  <2>2. task[i].status = "deploying" /\ task[i].worker = boot
    BY <1>0, <1>2 DEF Current
  <2>3. task'[i].cancel
    BY <2>1, <2>2 DEF Gives, Running
  <2>4. task'[i].status # "success"
    BY <2>1, <2>2 DEF Gives, TaskFailed
  <2> QED
    BY <2>3, <2>4
<1>3. CASE ~Running(a) /\ ~attempt[a].active
  <2>1. Claims(i) /\ attempt'[a] # attempt[a]
    BY <1>3, AttemptChanges DEF Goes, Gives, Succeeds, Running
  <2> QED
    BY <2>1 DEF Claims, Running
<1> QED
  BY <1>1, <1>2, <1>3

\* While the lock is held for a compensation nobody claims, and nobody else ends its task.
LEMMA CompensatingNext ==
    ASSUME TypeOK, Housing, LockIsHeld, Current, Stale, Compensating, Effect
    PROVE  Compensating'
<1>1. ASSUME NEW v \in undoing', Own(v), retries' = 0
      PROVE  /\ task'[v.inst].status \in {"deploying", "failed"}
             /\ v.for = "retry" => task'[v.inst].status = "deploying" \/ task'[v.inst].cancel
  <2>0. retries = 0 /\ \A j \in Instances : ~Retried(j)
    BY <1>1, RetriesGrow
  <2>1. CASE v \in undoing
    <3> DEFINE i == v.inst
    <3>1. /\ task[i].status \in {"deploying", "failed"} /\ Housed(i) /\ i \in Instances
          /\ v.for = "retry" => task[i].status = "deploying" \/ task[i].cancel
      BY <1>1, <2>0, <2>1 DEF Compensating, Housing, TypeOK, Undos
    <3>2. lock = "attempt" /\ (\A a \in Attempts : ~attempt[a].active) /\ \A u \in undoing : Own(u) => u = v
      BY <1>1, <2>1 DEF LockIsHeld
    <3>3. ~Claims(i) /\ ~Exhausts /\ ~Provisioned(i)
      BY <3>1, <3>2 DEF Claims, TickMayClaim, Exhausts, Provisioned, Housed
    <3>4. CASE task'[i] = task[i]
      BY <3>1, <3>4
    <3>5. CASE StepOfAttempt(i)
      <4>1. PICK a \in Attempts : a[1] = i /\ Goes(a)
        BY <3>2, <3>5 DEF StepOfAttempt, Gives, Succeeds
      <4>2. CASE task' = task
        BY <3>1, <4>2
      <4>3. CASE TaskFailed(i)
        <5>1. task[i].cancel
          BY <2>0, <3>2, <4>1 DEF Goes, Stale
        <5> QED
          BY <4>3, <5>1 DEF TaskFailed
      <4> QED
        BY <4>1, <4>2, <4>3 DEF Goes
    <3>6. CASE LeaseGone(i)
      BY <3>1, <3>6 DEF LeaseGone
    <3>7. CASE \E m \in Modes : RemovalAsked(i, m)
      BY <3>1, <3>7 DEF RemovalAsked
    <3>8. CASE StepOfUndo(i)
      <4>1. PICK u \in undoing : u.inst = i /\ (Ends(u) \/ NoPort(u) \/ \E p \in Ports : AnotherPort(u, p))
        BY <3>8 DEF StepOfUndo
      <4>2. CASE NoPort(u)
        BY <3>4, <4>2 DEF NoPort
      <4>3. CASE ~NoPort(u)
        <5>1. undoing' = undoing \ {u}
          BY <4>1, <4>3 DEF Ends, Ended, AnotherPort
        <5>2. u # v /\ ~Own(u)
          BY <3>2, <5>1
        <5>3. Ends(u)
          BY <4>1, <4>3, <5>2 DEF AnotherPort
        <5> QED
          BY <3>1, <4>1, <5>2, <5>3 DEF Ends, EndedTask
      <4> QED
        BY <4>2, <4>3
    <3> QED
      BY <2>0, <3>1, <3>3, <3>4, <3>5, <3>6, <3>7, <3>8, TaskChanges
  <2>2. CASE \E u \in undoing : v.inst = u.inst /\ v.for = u.for /\ Removed(u)
    BY <1>1, <2>0, <2>2 DEF Removed, Compensating, Own
  <2>3. CASE \E u \in undoing : v.inst = u.inst /\ v.for = "failed" /\ NoPort(u)
    BY <2>0, <2>3 DEF NoPort, Compensating
  <2>4. CASE \E a \in Attempts : v.inst = a[1] /\ Gives(a) /\ Own(v) /\ (v.for = "retry" => task' = task)
    <3>1. PICK a \in Attempts : v.inst = a[1] /\ Gives(a) /\ (v.for = "retry" => task' = task)
      BY <2>4
    <3>2. task[v.inst].status = "deploying"
      BY <2>0, <3>1 DEF Gives, Current
    <3> QED
      BY <3>1, <3>2 DEF Gives, TaskFailed
  <2>5. CASE v.for = "cancelled" /\ task'[v.inst].status = "failed"
    BY <2>5
  <2>6. v.for \notin {"exhausted", "reconciled", "verified"} \cup Modes
    BY <1>1, ModesAreRemovals DEF Own, WorkersOwn
  <2> QED
    BY <2>1, <2>2, <2>3, <2>4, <2>5, <2>6, UndoChanges
<1>2. ASSUME NEW v \in undoing', v.for = "exhausted"
      PROVE  lock' = "tick" /\ (retries' = 0 => task'[v.inst].status = "failed")
  <2>0. ~Own(v) /\ v.for \notin {"failed", "cancelled", "reconciled", "verified"} \cup Modes
    BY <1>2, ModesAreRemovals DEF Own, WorkersOwn, Compensations
  <2>1. CASE v \in undoing
    <3> DEFINE i == v.inst
    <3>1. lock = "tick" /\ (retries = 0 => task[i].status = "failed") /\ Housed(i) /\ i \in Instances
      BY <1>2, <2>1 DEF Compensating, Housing, TypeOK, Undos
    <3>2. (\A a \in Attempts : ~attempt[a].active) /\ \A u \in undoing : ~Own(u)
      BY <3>1 DEF LockIsHeld
    <3>3. (\A j \in Instances : ~Claims(j)) /\ ~Exhausts /\ ~NothingToClaim /\ ~Crashed /\ ~Provisioned(i)
      BY <1>2, <2>1, <3>1 DEF Claims, TickMayClaim, Exhausts, NothingToClaim, Crashed, Provisioned, Housed
    <3>4. lock' = "tick"
      BY <3>1, <3>2, <3>3, OtherChanges DEF Succeeds
    <3>5. ASSUME retries' = 0 PROVE task'[i].status = "failed"
      <4>1. task[i].status = "failed" /\ ~Retried(i)
        BY <3>1, <3>5, RetriesGrow
      <4>2. CASE StepOfAttempt(i)
        BY <3>2, <4>1, <4>2 DEF StepOfAttempt, Goes, Gives, Succeeds, TaskFailed
      <4>3. CASE LeaseGone(i) \/ \E m \in Modes : RemovalAsked(i, m)
        BY <4>1, <4>3 DEF LeaseGone, RemovalAsked
      <4>4. CASE StepOfUndo(i)
        BY <3>2, <4>1, <4>4 DEF StepOfUndo, Ends, EndedTask, NoPort, AnotherPort
      <4> QED
        BY <3>1, <3>3, <4>1, <4>2, <4>3, <4>4, TaskChanges
    <3> QED
      BY <3>4, <3>5
  <2>2. CASE \E u \in undoing : v.inst = u.inst /\ v.for = u.for /\ Removed(u)
    BY <1>2, <2>2 DEF Removed, Compensating
  <2>3. CASE Exhausts /\ v.inst \in Exhausted
    BY <2>3 DEF Exhausts, Exhausted
  <2> QED
    BY <2>0, <2>1, <2>2, <2>3, UndoChanges
<1> QED
  BY <1>1, <1>2 DEF Compensating, Own

-----------------------------------------------------------------------------
(* The invariant.                                                          *)

\* The invariant holds at the start.
LEMMA Starts ==
    ASSUME Init
    PROVE  Inv
<1>0. /\ MaxAttempts \in Nat \ {0} /\ MaxCleanups \in Nat \ {0} /\ AttemptLimit \in Nat \ {0} /\ MaxAttempts <= AttemptLimit
      /\ MaxCrashes \in Nat /\ MaxRemovals \in Nat /\ MaxRetries \in Nat /\ 0 * ExtraAttempts = 0
  BY LimitsAssumption, BoundsAssumption, LimitBounds
<1>1. NoInstance \in Rows
  BY DEF NoInstance, Rows, Statuses
<1>2. NoTask \in TaskRows
  BY <1>0 DEF NoTask, TaskRows
<1>3. NoClean \in CleanRows
  BY <1>0 DEF NoClean, CleanRows
<1>4. Idle \in AttemptRows
  BY DEF Idle, AttemptRows
<1>5. Unread \in CycleRows
  BY <1>1 DEF Unread, CycleRows
<1>6. TypeOK
  BY <1>0, <1>1, <1>2, <1>3, <1>4, <1>5 DEF Init, TypeOK
<1>7. Housing
  BY DEF Init, Housing, NoInstance, NoTask, NoClean, Idle, Unread, Housed, Running
<1>8. Limited
  BY <1>0 DEF Init, Limited, NoTask
<1>9. LockIsHeld /\ Current /\ Stale /\ Compensating
  BY DEF Init, LockIsHeld, Current, Stale, Compensating, Idle, Running
<1>10. Withdrawal /\ Deletable /\ DeletingIsQueued
  BY DEF Init, Withdrawal, Deletable, DeletingIsQueued, NoInstance, NoTask, NoClean, Unread, Gone, Settled
<1> QED
  BY <1>6, <1>7, <1>8, <1>9, <1>10 DEF Inv

\* Every step keeps it.
LEMMA Preserved ==
    ASSUME Inv, [Next]_vars
    PROVE  Inv'
<1>1. Effect
  BY EveryStep DEF Inv
<1> QED
  BY <1>1, TypeNext, HousingNext, LimitedNext, LockNext, CurrentNext, StaleNext, CompensatingNext,
     WithdrawalNext, DeletableNext, DeletingNext DEF Inv

\* Inv is an inductive invariant of the queue.
THEOREM Invariance == Spec => []Inv
  BY Starts, Preserved, PTL DEF Spec

\* The type of every row, of the worker, of the clean-ups and of the reconciler.
THEOREM TypeInvariance == Spec => []TypeOK
<1>1. Inv => TypeOK
  BY DEF Inv
<1> QED
  BY <1>1, Invariance, PTL

\* A set whose members are equal has one at most.
LEMMA AtMostOne ==
    ASSUME NEW S, \A x, y \in S : x = y
    PROVE  Cardinality(S) <= 1
<1>1. CASE S = {}
  BY <1>1, FS_EmptySet
<1>2. CASE S # {}
  <2>1. PICK x \in S : TRUE
    BY <1>2
  <2>2. S = {x}
    BY <2>1
  <2> QED
    BY <2>2, FS_Singleton
<1> QED
  BY <1>1, <1>2

\* isProcessingTask is held exactly while the worker handles an attempt, and it handles
\* one at a time: every way an attempt ends gives the lock back, and once.
THEOREM OneAtATime == Spec => []OneDeploymentAtATime
<1>1. ASSUME Inv PROVE OneDeploymentAtATime
  <2>0. LockIsHeld
    BY <1>1 DEF Inv
  <2>1. ASSUME NEW x \in Handled
        PROVE  \/ x \in Attempts /\ attempt[x].active
               \/ \E u \in undoing : Own(u) /\ x = <<u.inst, u.no>>
    BY DEF Handled, Own
  <2>2. \A x, y \in Handled : x = y
    BY <2>0, <2>1 DEF LockIsHeld
  <2>3. Cardinality(Handled) <= 1
    BY <2>2, AtMostOne
  <2>4. Handled # {} <=> (\E a \in Attempts : attempt[a].active) \/ \E u \in undoing : Own(u)
    BY DEF Handled, Own
  <2>5. Handled # {} <=> lock = "attempt"
    BY <2>0, <2>4 DEF LockIsHeld
  <2> QED
    BY <2>3, <2>5 DEF OneDeploymentAtATime
<1> QED
  BY <1>1, Invariance, PTL

\* The attempt that the worker listens to is the last claim of its task, by this server,
\* and holds its lease: nothing has settled the task behind its back.
THEOREM ActiveAttemptIsCurrent == Spec => []ActiveIsCurrent
<1>1. Inv => ActiveIsCurrent
  BY DEF Inv, Current, ActiveIsCurrent
<1> QED
  BY <1>1, Invariance, PTL

\* Whoever wrote "deleting", the instance has a cleanup that is not over.
THEOREM DeletionIsQueued == Spec => []DeletingIsQueued
<1>1. Inv => DeletingIsQueued
  BY DEF Inv
<1> QED
  BY <1>1, Invariance, PTL

\* No compensation, cleanup or late callback gives back the port that a waiting task is to
\* be deployed on, until a user retries: only the reconciler does.
THEOREM WaitingTaskHoldsItsPort == Spec => WaitingHoldsItsPort
<1>1. ASSUME Inv, [Next]_vars, NEW i \in Instances, Waits(i)', retries' = 0
      PROVE  HoldsItsPort(i)' \/ (Waits(i) /\ (HoldsItsPort(i) => ReconcilerCleans(i)))
  <2>0. TypeOK /\ Housing /\ Compensating /\ Withdrawal /\ Effect
    BY <1>1, EveryStep DEF Inv
  <2>1. /\ retries = 0 /\ retries' = 0 /\ (\A j \in Instances : ~Retried(j)) /\ ~Settled(i)'
        /\ task'[i].status \in {"queued", "retry_wait"} /\ ~task'[i].cancel
    BY <1>1, <2>0, RetriesGrow DEF Waits, Settled
  <2>2. CASE Provisioned(i)
    BY <2>2 DEF Provisioned, HoldsItsPort
  <2>3. CASE \E u \in undoing, p \in Ports : u.inst = i /\ AnotherPort(u, p)
    BY <2>3 DEF AnotherPort, HoldsItsPort
  <2>4. CASE ~Provisioned(i) /\ ~\E u \in undoing, p \in Ports : u.inst = i /\ AnotherPort(u, p)
    <3>1. ~Settled(i)
      BY <2>0, <2>1, <2>4, SettledStays
    <3>2. ASSUME NEW u \in undoing, u.inst = i, Ends(u), u.for # "reconciled" PROVE FALSE
      <4>1. u.for \notin Modes \cup {"verified"}
        BY <2>0, <2>1, <3>1, <3>2 DEF Withdrawal
      <4>2. u.for \in WorkersOwn \cup {"exhausted"}
        BY <2>0, <3>2, <4>1 DEF TypeOK, Undos, Compensations, WorkersOwn
      <4>3. task[i].status \in {"deploying", "failed"}
        BY <2>0, <2>1, <3>2, <4>2 DEF Compensating, Own
      <4> QED
        BY <2>1, <3>2, <4>3 DEF Ends, EndedTask
    <3>3. ASSUME NEW u \in undoing, u.inst = i, NoPort(u) PROVE FALSE
      BY <2>0, <2>1, <3>3 DEF NoPort, Compensating
    <3>4. ASSUME StepOfUndo(i) PROVE ReconcilerCleans(i) /\ task'[i].status = task[i].status
                                   /\ task'[i].cancel = task[i].cancel
      <4>1. PICK u \in undoing : u.inst = i /\ Ends(u) /\ u.for = "reconciled"
        BY <2>4, <3>2, <3>3, <3>4 DEF StepOfUndo
      <4>2. ~Own(u)
        BY <4>1 DEF Own, WorkersOwn
      <4> QED
        BY <4>1, <4>2 DEF Ends, Ended, EndedTask, ReconcilerCleans
    <3>5. Waits(i)
      <4>1. CASE StepOfAttempt(i)
        BY <2>1, <4>1 DEF StepOfAttempt, Goes, Gives, Succeeds, TaskFailed, Waits
      <4>2. CASE Claims(i)
        BY <2>1, <4>2 DEF Claims
      <4>3. CASE LeaseGone(i)
        BY <2>1, <4>3 DEF LeaseGone, Waits
      <4>4. CASE \E m \in Modes : RemovalAsked(i, m)
        BY <2>1, <4>4 DEF RemovalAsked
      <4>5. CASE Exhausts /\ i \in Exhausted
        BY <2>1, <4>5 DEF Exhausts
      <4> QED
        BY <2>0, <2>1, <2>4, <3>4, <4>1, <4>2, <4>3, <4>4, <4>5, TaskChanges DEF Waits
    <3>6. ASSUME HoldsItsPort(i), ~StepOfUndo(i) PROVE HoldsItsPort(i)'
      <4>1. inst'[i].port = inst[i].port
        <5>1. CASE StepOfAttempt(i)
          BY <5>1 DEF StepOfAttempt, Goes, Gives, Succeeds, Frame, InstStatus
        <5>2. CASE Claims(i) \/ Acted(i) \/ \E m \in Modes : RemovalAsked(i, m)
          BY <5>2 DEF Claims, Acted, RemovalAsked
        <5> QED
          BY <2>0, <2>1, <2>4, <3>6, <5>1, <5>2, InstChanges
      <4>2. inst[i].port \in Ports
        BY <2>0, <3>5 DEF Housing, Housed, Waits
      <4> QED
        BY <2>0, <2>1, <2>4, <3>6, <4>1, <4>2, OtherChanges DEF HoldsItsPort
    <3> QED
      BY <3>4, <3>5, <3>6
  <2> QED
    BY <2>2, <2>3, <2>4
<1>2. ASSUME Inv, [Next]_vars
      PROVE  [\A i \in Instances : Waits(i)' /\ retries' = 0 =>
                 \/ HoldsItsPort(i)'
                 \/ Waits(i) /\ (HoldsItsPort(i) => ReconcilerCleans(i))]_vars
  BY <1>1, <1>2
<1> QED
  BY <1>2, Invariance, PTL DEF Spec, WaitingHoldsItsPort

\* No watchdog, compensation or late callback overwrites a deployment that succeeded,
\* until a user retries.
THEOREM SuccessStays == Spec => SuccessIsFinal
<1>1. ASSUME Inv, [Next]_vars
      PROVE  [\A i \in Instances : task[i].status = "success" /\ retries = 0 => task'[i].status = "success"]_vars
  <2>0. /\ TypeOK /\ Housing /\ Current /\ Stale /\ Compensating /\ Effect
    BY <1>1, EveryStep DEF Inv
  <2>1. ASSUME NEW i \in Instances, task[i].status = "success", retries = 0 PROVE task'[i].status = "success"
    <3>1. CASE StepOfAttempt(i)
      <4>1. PICK a \in Attempts : a[1] = i /\ (Goes(a) \/ Gives(a) \/ Succeeds(a))
        BY <3>1 DEF StepOfAttempt
      <4>2. ~attempt[a].active
        BY <2>0, <2>1, <4>1 DEF Current
      <4>3. Goes(a)
        BY <4>1, <4>2 DEF Gives, Succeeds
      <4>4. FALSE
        BY <2>0, <2>1, <4>1, <4>2, <4>3 DEF Goes, Stale
      <4> QED
        BY <4>4
    <3>2. ~Provisioned(i)
      BY <2>0, <2>1 DEF Provisioned, Housing, Housed
    <3>3. ~Retried(i) /\ ~Claims(i) /\ i \notin Exhausted
      BY <2>1 DEF Retried, Claims, Claimable, Exhausted
    <3>4. CASE LeaseGone(i) \/ \E m \in Modes : RemovalAsked(i, m)
      BY <2>1, <3>4 DEF LeaseGone, RemovalAsked
    <3>5. CASE StepOfUndo(i)
      <4>1. PICK u \in undoing : u.inst = i /\ (Ends(u) \/ NoPort(u) \/ \E p \in Ports : AnotherPort(u, p))
        BY <3>5 DEF StepOfUndo
      <4>2. ~Own(u)
        BY <2>0, <2>1, <4>1 DEF Compensating
      <4> QED
        BY <2>1, <4>1, <4>2 DEF Ends, EndedTask, NoPort, AnotherPort
    <3> QED
      BY <2>0, <2>1, <3>1, <3>2, <3>3, <3>4, <3>5, TaskChanges
  <2> QED
    BY <2>1
<1> QED
  BY <1>1, Invariance, PTL DEF Spec, SuccessIsFinal

\* A deployment succeeds with the containers of its own attempt, on the port its instance
\* is configured with, and never for an instance that users have asked to remove, until a
\* user retries.
THEOREM SuccessIsServed == Spec => SuccessServes
<1>1. ASSUME Inv, [Next]_vars, retries = 0,
             NEW i \in Instances, task[i].status # "success", task'[i].status = "success"
      PROVE  /\ containers[i] = inst[i].port
             /\ ~task[i].cancel /\ inst[i].status \notin Gone /\ inst[i].desired = "running"
  <2>0. TypeOK /\ Current /\ Withdrawal /\ Effect
    BY <1>1, EveryStep DEF Inv
  <2>1. PICK a \in Attempts : a[1] = i /\ Succeeds(a)
    BY <1>1, <2>0, SuccessIsReported
  <2>2. /\ task[i].status = "deploying" /\ attempt[a].port = inst[i].port
        /\ containers[i] \in {attempt[a].port, "none", "residue"} /\ containers[i] \in Ports
        /\ ~task[i].cancel /\ inst[i].status \notin Gone
    BY <1>1, <2>0, <2>1 DEF Succeeds, Current, Withdrawn
  <2>3. containers[i] = inst[i].port
    BY <2>2, PortsAssumption
  <2>4. inst[i].desired = "running"
    BY <1>1, <2>0, <2>2 DEF Withdrawal, Settled
  <2> QED
    BY <2>2, <2>3, <2>4
<1>2. ASSUME Inv, [Next]_vars
      PROVE  [\A i \in Instances :
                 task[i].status # "success" /\ task'[i].status = "success" /\ retries = 0 =>
                    /\ containers[i] = inst[i].port
                    /\ ~task[i].cancel /\ inst[i].status \notin Gone /\ inst[i].desired = "running"]_vars
  BY <1>1, <1>2
<1> QED
  BY <1>2, Invariance, PTL DEF Spec, SuccessServes

=============================================================================
