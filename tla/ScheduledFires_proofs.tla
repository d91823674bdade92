------------------------ MODULE ScheduledFires_proofs ------------------------
(***************************************************************************)
(* Proofs about ScheduledFires, for every set of jobs, every order and     *)
(* page of the store, every set of bad jobs and every bound: a time of a   *)
(* job is claimed once, and a fire has one task.                           *)
(*                                                                         *)
(* A task is made in two places.  A tick that recovers looks for the one   *)
(* the fire has.  A tick that claims does not, so the fire in its hand     *)
(* must have none: it is new when it is claimed, and until the task is     *)
(* made nobody else makes tasks for fires.                                 *)
(***************************************************************************)
EXTENDS ScheduledFires, SequenceTheorems, TLAPS

TaskStatus == {"queued", "processing", "config_required", "success", "failed"}
FireStatus == {"claimed", "dispatched", "completed", "failed"}

TaskRows    == Seq([fire : 0 .. Len(fires), fresh : BOOLEAN, status : TaskStatus])
FireRows(J, K) == Seq([job : J, key : K, status : FireStatus])

\* What the proofs need of the types.  The due jobs are whatever the store lists.
Typing ==
    /\ \E J, K : fires \in FireRows(J, K)
    /\ tasks \in TaskRows
    /\ tick = [at |-> tick.at, fires |-> tick.fires, jobs |-> tick.jobs, fire |-> tick.fire]
    /\ tick.fires \subseteq DOMAIN fires /\ tick.fire \in 0 .. Len(fires)

\* A fire that a tick has claimed has no task yet.
Untasked ==
    /\ tick.at \in {"advance", "create"} /\ tick.fire # 0 => TasksOf(tick.fire) = {}
    /\ tick.at = "create" => tick.fire # 0

Inv == Typing /\ Untasked /\ OneTaskPerFire /\ OneFirePerTime

-----------------------------------------------------------------------------
(* What the helpers leave alone.                                           *)

SameFires == /\ Len(fires') = Len(fires) /\ DOMAIN fires' = DOMAIN fires
             /\ \A J, K : fires \in FireRows(J, K) => fires' \in FireRows(J, K)
             /\ \A f \in DOMAIN fires : fires'[f].job = fires[f].job /\ fires'[f].key = fires[f].key
SameTasks == /\ tasks' \in TaskRows
             /\ DOMAIN tasks' = DOMAIN tasks /\ \A t \in DOMAIN tasks : tasks'[t].fire = tasks[t].fire

LEMMA Widens ==
    ASSUME NEW S, NEW T, S \subseteq T, NEW q \in Seq(S)
    PROVE  q \in Seq(T)
<1>1. q \in [1 .. Len(q) -> T] /\ Len(q) \in Nat
  BY LenProperties
<1> QED
  BY <1>1, SeqDef

LEMMA MarksKeeps ==
    ASSUME Typing, NEW f, NEW s \in FireStatus, fires' = [fires EXCEPT ![f].status = s]
    PROVE  SameFires
<1>1. ASSUME NEW J, NEW K, fires \in FireRows(J, K)
      PROVE  /\ Len(fires') = Len(fires) /\ DOMAIN fires' = DOMAIN fires /\ fires' \in FireRows(J, K)
             /\ \A i \in DOMAIN fires : fires'[i].job = fires[i].job /\ fires'[i].key = fires[i].key
  <2>2. fires \in Seq([job : J, key : K, status : FireStatus])
    BY <1>1 DEF FireRows
  <2>a. fires \in [1 .. Len(fires) -> [job : J, key : K, status : FireStatus]] /\ DOMAIN fires = 1 .. Len(fires)
    BY <2>2, LenProperties
  <2>3. CASE f \notin DOMAIN fires
    <3>1. fires' = fires
      BY <2>a, <2>3
    <3> QED
      BY <2>2, <3>1 DEF FireRows
  <2>4. CASE f \in DOMAIN fires
    <3>1. PICK e : e = [fires[f] EXCEPT !.status = s]
      OBVIOUS
    <3>a. fires[f] \in [job : J, key : K, status : FireStatus] /\ f \in 1 .. Len(fires)
      BY <2>a, <2>4
    <3>b. e \in [job : J, key : K, status : FireStatus] /\ e.job = fires[f].job /\ e.key = fires[f].key
      BY <3>1, <3>a
    <3>c. fires' = [fires EXCEPT ![f] = e]
      BY <2>a, <2>4, <3>1
    <3>2. /\ e \in [job : J, key : K, status : FireStatus] /\ e.job = fires[f].job /\ e.key = fires[f].key
          /\ fires' = [fires EXCEPT ![f] = e] /\ f \in 1 .. Len(fires)
      BY <3>a, <3>b, <3>c
    <3>3. fires' \in Seq([job : J, key : K, status : FireStatus]) /\ Len(fires') = Len(fires)
      BY <2>2, <3>2, ExceptSeq
    <3>4. \A i \in DOMAIN fires : fires'[i].job = fires[i].job /\ fires'[i].key = fires[i].key
      BY <2>2, <3>2
    <3> QED
      BY <2>2, <3>3, <3>4 DEF FireRows
  <2> QED
    BY <2>3, <2>4
<1>2. \E J, K : fires \in FireRows(J, K)
  BY DEF Typing
<1> QED
  BY <1>1, <1>2 DEF SameFires

LEMMA TellsKeeps ==
    ASSUME Typing, NEW t, NEW s \in FireStatus, Tells(t, s)
    PROVE  SameFires
<1>1. CASE fires' = fires
  BY <1>1 DEF SameFires, Typing
<1>2. CASE fires' = [fires EXCEPT ![tasks[t].fire].status = s]
  <2>1. PICK f : f = tasks[t].fire
    OBVIOUS
  <2> QED
    BY <1>2, <2>1, MarksKeeps
<1> QED
  BY <1>1, <1>2 DEF Tells

LEMMA TaskKeeps ==
    ASSUME Typing, NEW t, NEW s \in TaskStatus, NEW b \in BOOLEAN,
           \/ tasks' = [tasks EXCEPT ![t].status = s]
           \/ tasks' = [tasks EXCEPT ![t].status = s, ![t].fresh = b]
           \/ tasks' = [tasks EXCEPT ![t].fresh = b],
           Len(fires') = Len(fires)
    PROVE  SameTasks
<1>1. tasks \in Seq([fire : 0 .. Len(fires), fresh : BOOLEAN, status : TaskStatus])
  BY DEF Typing, TaskRows
<1>a. tasks \in [1 .. Len(tasks) -> [fire : 0 .. Len(fires), fresh : BOOLEAN, status : TaskStatus]]
  BY <1>1, LenProperties
<1>2. CASE t \notin DOMAIN tasks
  <2>1. tasks' = tasks
    <3>1. CASE tasks' = [tasks EXCEPT ![t].status = s]
      BY <1>a, <1>2, <3>1
    <3>2. CASE tasks' = [tasks EXCEPT ![t].status = s, ![t].fresh = b]
      BY <1>a, <1>2, <3>2
    <3>3. CASE tasks' = [tasks EXCEPT ![t].fresh = b]
      BY <1>a, <1>2, <3>3
    <3> QED
      BY <3>1, <3>2, <3>3
  <2> QED
    BY <1>1, <2>1 DEF SameTasks, TaskRows
<1>3. CASE t \in DOMAIN tasks
  <2>1. tasks[t] \in [fire : 0 .. Len(fires), fresh : BOOLEAN, status : TaskStatus] /\ t \in 1 .. Len(tasks)
    BY <1>a, <1>3
  <2>2. PICK e \in [fire : 0 .. Len(fires), fresh : BOOLEAN, status : TaskStatus] :
          e.fire = tasks[t].fire /\ tasks' = [tasks EXCEPT ![t] = e]
    <3>1. CASE tasks' = [tasks EXCEPT ![t].status = s]
      <4>1. tasks' = [tasks EXCEPT ![t] = [tasks[t] EXCEPT !.status = s]]
        BY <1>1, <1>3, <3>1
      <4>2. /\ [tasks[t] EXCEPT !.status = s] \in [fire : 0 .. Len(fires), fresh : BOOLEAN, status : TaskStatus]
            /\ [tasks[t] EXCEPT !.status = s].fire = tasks[t].fire
        BY <2>1
      <4> QED
        BY <4>1, <4>2
    <3>2. CASE tasks' = [tasks EXCEPT ![t].status = s, ![t].fresh = b]
      <4>1. tasks' = [tasks EXCEPT ![t] = [tasks[t] EXCEPT !.status = s, !.fresh = b]]
        BY <1>1, <1>3, <3>2
      <4>2. /\ [tasks[t] EXCEPT !.status = s, !.fresh = b] \in [fire : 0 .. Len(fires), fresh : BOOLEAN, status : TaskStatus]
            /\ [tasks[t] EXCEPT !.status = s, !.fresh = b].fire = tasks[t].fire
        BY <2>1
      <4> QED
        BY <4>1, <4>2
    <3>3. CASE tasks' = [tasks EXCEPT ![t].fresh = b]
      <4>1. tasks' = [tasks EXCEPT ![t] = [tasks[t] EXCEPT !.fresh = b]]
        BY <1>1, <1>3, <3>3
      <4>2. /\ [tasks[t] EXCEPT !.fresh = b] \in [fire : 0 .. Len(fires), fresh : BOOLEAN, status : TaskStatus]
            /\ [tasks[t] EXCEPT !.fresh = b].fire = tasks[t].fire
        BY <2>1
      <4> QED
        BY <4>1, <4>2
    <3> QED
      BY <3>1, <3>2, <3>3
  <2>3. tasks' \in Seq([fire : 0 .. Len(fires), fresh : BOOLEAN, status : TaskStatus]) /\ Len(tasks') = Len(tasks)
    BY <1>1, <2>1, <2>2, ExceptSeq
  <2>4. \A u \in DOMAIN tasks : tasks'[u].fire = tasks[u].fire
    BY <1>1, <2>2
  <2> QED
    BY <1>1, <2>3, <2>4 DEF SameTasks, TaskRows
<1> QED
  BY <1>2, <1>3

LEMMA NothingMoves ==
    ASSUME Typing
    PROVE  /\ fires' = fires => SameFires
           /\ tasks' = tasks => SameTasks
  BY DEF Typing, SameFires, SameTasks

LEMMA ExecutesKeeps ==
    ASSUME Typing, NEW t, NEW s, Executes(t, s)
    PROVE  SameFires /\ SameTasks
<1>1. {"completed", "failed"} \subseteq FireStatus /\ {"processing", "config_required"} \subseteq TaskStatus
      /\ TRUE \in BOOLEAN
  BY DEF FireStatus, TaskStatus
<1>2. CASE UNCHANGED tasks /\ (Tells(t, "completed") \/ Tells(t, "failed") \/ UNCHANGED fires)
  BY <1>1, <1>2, TellsKeeps, NothingMoves
<1>3. CASE tasks' = [tasks EXCEPT ![t].status = "processing", ![t].fresh = TRUE] /\ UNCHANGED fires
  <2>1. SameFires
    BY <1>3, NothingMoves
  <2> QED
    BY <1>1, <1>3, <2>1, TaskKeeps DEF SameFires
<1>4. CASE tasks' = [tasks EXCEPT ![t].status = "config_required", ![t].fresh = TRUE] /\ Tells(t, "failed")
  <2>1. SameFires
    BY <1>1, <1>4, TellsKeeps
  <2> QED
    BY <1>1, <1>4, <2>1, TaskKeeps DEF SameFires
<1> QED
  BY <1>2, <1>3, <1>4 DEF Executes

\* A task that is made is the last, and of the fire it is made for.
LEMMA CreatesOne ==
    ASSUME Typing, NEW f \in 0 .. Len(fires), NEW q \in TaskStatus,
           tasks' = Append(tasks, [fire |-> f, status |-> q, fresh |-> TRUE])
    PROVE  /\ tasks' \in TaskRows
           /\ DOMAIN tasks' = DOMAIN tasks \cup {Len(tasks) + 1} /\ Len(tasks) + 1 \notin DOMAIN tasks
           /\ \A t \in DOMAIN tasks : tasks'[t].fire = tasks[t].fire
           /\ tasks'[Len(tasks) + 1].fire = f
<1> DEFINE S == [fire : 0 .. Len(fires), fresh : BOOLEAN, status : TaskStatus]
           e == [fire |-> f, status |-> q, fresh |-> TRUE]
<1>1. tasks \in Seq(S) /\ e \in S /\ e.fire = f
  BY DEF Typing, TaskRows
<1>2. PICK x \in S : x = e
  BY <1>1
<1>3. tasks' = Append(tasks, x) /\ x.fire = f
  BY <1>1, <1>2
<1> HIDE DEF S, e
<1>4. /\ tasks' \in Seq(S) /\ Len(tasks') = Len(tasks) + 1 /\ tasks'[Len(tasks) + 1] = x
      /\ \A t \in 1 .. Len(tasks) : tasks'[t] = tasks[t]
  BY <1>1, <1>3, AppendProperties
<1>5. DOMAIN tasks = 1 .. Len(tasks) /\ DOMAIN tasks' = 1 .. Len(tasks') /\ Len(tasks) \in Nat
  BY <1>1, <1>4, LenProperties
<1> QED
  BY <1>3, <1>4, <1>5 DEF S, TaskRows

-----------------------------------------------------------------------------
(* The steps.                                                              *)

TickRecord == tick' = [at |-> tick'.at, fires |-> tick'.fires, jobs |-> tick'.jobs, fire |-> tick'.fire]
TickType   == TickRecord /\ tick'.fires \subseteq DOMAIN fires /\ tick'.fire \in 0 .. Len(fires)

\* Nothing is claimed and no task is made.
LEMMA Quietly ==
    ASSUME Inv, SameFires, SameTasks, TickType,
           \/ tick' = tick
           \/ tick'.at \notin {"advance", "create"}
           \/ tick'.at = "advance" /\ tick'.fire = 0
           \/ tick'.at = "create" /\ tick.at = "advance" /\ tick'.fire = tick.fire /\ tick.fire # 0
    PROVE  Inv'
<1>1. Typing'
  BY DEF Inv, Typing, TickType, TickRecord, SameFires, SameTasks, TaskRows
<1>2. \A f : TasksOf(f)' = TasksOf(f)
  BY DEF TasksOf, SameTasks
<1>3. Untasked'
  BY <1>2 DEF Inv, Untasked
<1>4. OneTaskPerFire'
  BY DEF Inv, OneTaskPerFire, SameTasks
<1>5. OneFirePerTime'
  BY DEF Inv, OneFirePerTime, SameFires
<1> QED
  BY <1>1, <1>3, <1>4, <1>5 DEF Inv

\* A task is made for a fire that has none, or for none, while no other fire waits for its task.
LEMMA Creating ==
    ASSUME Inv, NEW f \in 0 .. Len(fires), NEW q \in TaskStatus,
           tasks' = Append(tasks, [fire |-> f, status |-> q, fresh |-> TRUE]),
           UNCHANGED fires, TickType,
           f # 0 => TasksOf(f) = {} /\ tick'.at \notin {"advance", "create"},
           f = 0 => tick' = tick
    PROVE  Inv'
<1>1. /\ tasks' \in TaskRows
      /\ DOMAIN tasks' = DOMAIN tasks \cup {Len(tasks) + 1} /\ Len(tasks) + 1 \notin DOMAIN tasks
      /\ \A t \in DOMAIN tasks : tasks'[t].fire = tasks[t].fire
      /\ tasks'[Len(tasks) + 1].fire = f
  BY CreatesOne DEF Inv
<1>2. Typing'
  BY <1>1 DEF Inv, Typing, TickType, TickRecord, TaskRows
<1>3. Untasked'
  BY <1>1 DEF Inv, Untasked, TasksOf
<1>4. OneTaskPerFire'
  BY <1>1 DEF Inv, OneTaskPerFire, TasksOf
<1>5. OneFirePerTime'
  BY DEF Inv, OneFirePerTime
<1> QED
  BY <1>2, <1>3, <1>4, <1>5 DEF Inv

LEMMA TickIs ==
    ASSUME Typing, NEW a, NEW F \in SUBSET DOMAIN fires, NEW q, NEW f \in 0 .. Len(fires),
           tick' = [at |-> a, fires |-> F, jobs |-> q, fire |-> f]
    PROVE  TickType /\ tick'.at = a /\ tick'.fire = f
  BY DEF TickType, TickRecord

LEMMA NoneInHand ==
    ASSUME Typing
    PROVE  0 \in 0 .. Len(fires) /\ {} \in SUBSET DOMAIN fires
<1>1. PICK J, K : fires \in Seq([job : J, key : K, status : FireStatus])
  BY DEF Typing, FireRows
<1>2. Len(fires) \in Nat
  BY <1>1, LenProperties
<1> QED
  BY <1>2

\* The tick moves on to another fire or job, or ends, and has none in hand that waits for a task.
LEMMA MovesOn ==
    ASSUME Typing, \/ tick' = NextFire
                   \/ \E d : tick' = NextJob(d)
                   \/ tick' = NoTick
    PROVE  TickType /\ tick'.at \notin {"advance", "create"}
<1>1. CASE tick' = NextFire
  <2>1. PICK F \in SUBSET DOMAIN fires : F = tick.fires \ {tick.fire}
    BY DEF Typing
  <2>2. tick' = [at |-> "recover", fires |-> F, jobs |-> tick.jobs, fire |-> 0]
    BY <1>1, <2>1 DEF Typing, NextFire
  <2> QED
    BY <2>2, TickIs, NoneInHand
<1>2. CASE tick' = NoTick
  BY <1>2, TickIs, NoneInHand DEF NoTick
<1>3. ASSUME NEW d, tick' = [tick EXCEPT !.at = "jobs", !.jobs = @ \ {d}, !.fire = 0]
      PROVE  TickType /\ tick'.at \notin {"advance", "create"}
  <2>1. PICK q : q = tick.jobs \ {d}
    OBVIOUS
  <2>2. tick' = [at |-> "jobs", fires |-> tick.fires, jobs |-> q, fire |-> 0]
    BY <1>3, <2>1 DEF Typing
  <2> QED
    BY <2>2, TickIs, NoneInHand DEF Typing
<1> QED
  BY <1>1, <1>2, <1>3 DEF NextJob

LEMMA Stays ==
    ASSUME Typing, NEW a
    PROVE  /\ tick' = tick => TickType
           /\ tick' = [tick EXCEPT !.at = a] => TickType /\ tick'.at = a /\ tick'.fire = tick.fire
  BY DEF Typing, TickType, TickRecord

LEMMA TickStartKeeps ==
    ASSUME Inv, TickStart
    PROVE  Inv'
<1>1. Recoverable \subseteq DOMAIN fires
  BY DEF Recoverable, FirstPage, Unfinished
<1>2. PICK R : R = Recoverable
  OBVIOUS
<1>3. tick' = [tick EXCEPT !.at = "recover", !.fires = R]
  BY <1>2 DEF TickStart
<1>4. TickType /\ tick'.at = "recover"
  BY <1>1, <1>2, <1>3 DEF Inv, Typing, TickType, TickRecord
<1> QED
  BY <1>4, NothingMoves, Quietly DEF TickStart, store, Inv

LEMMA RecoverKeeps ==
    ASSUME Inv, Recover
    PROVE  Inv'
<1>1. PICK f \in tick.fires : /\ TakesUp(f)
                              /\ (TasksOf(f) = {} /\ Creates(f)) \/ UNCHANGED tasks
  BY DEF Recover
<1>2. f \in DOMAIN fires /\ f \in 1 .. Len(fires)
  BY DEF Inv, Typing, FireRows
<1>a. tick' = [at |-> "settle", fires |-> tick.fires, jobs |-> tick.jobs, fire |-> f]
  BY <1>1 DEF Inv, Typing, TakesUp
<1>3. TickType /\ tick'.at = "settle"
  BY <1>a, <1>2, TickIs DEF Inv, Typing
<1>4. CASE TasksOf(f) = {} /\ Creates(f)
  <2>1. tasks' = Append(tasks, [fire |-> f, status |-> "queued", fresh |-> TRUE])
    BY <1>4 DEF Creates, NewTask
  <2>2. f \in 0 .. Len(fires) /\ f # 0 /\ "queued" \in TaskStatus
    BY <1>2 DEF TaskStatus
  <2> QED
    BY <1>3, <1>4, <2>1, <2>2, Creating DEF Recover
<1>5. CASE UNCHANGED tasks
  BY <1>3, <1>5, NothingMoves, Quietly DEF Recover, Inv
<1> QED
  BY <1>1, <1>4, <1>5

LEMMA SettleKeeps ==
    ASSUME Inv, Settle
    PROVE  Inv'
<1>1. SameTasks
  BY NothingMoves DEF Settle, Inv
<1>2. {"completed", "failed", "dispatched"} \subseteq FireStatus
  BY DEF FireStatus
<1>3. SameFires
  BY <1>2, MarksKeeps DEF Settle, Marks, Inv
<1>4. tick' = NextFire \/ tick' = [tick EXCEPT !.at = "restart"]
  BY DEF Settle
<1>5. TickType /\ tick'.at \notin {"advance", "create"}
  BY <1>4, MovesOn, Stays DEF Inv
<1> QED
  BY <1>1, <1>3, <1>5, Quietly

LEMMA WorksOn ==
    ASSUME Inv, Restart \/ Start
    PROVE  Inv'
<1>1. PICK t, s : Executes(t, s)
  BY DEF Restart, Start
<1>2. SameFires /\ SameTasks
  BY <1>1, ExecutesKeeps DEF Inv
<1>3. TickType /\ tick'.at \notin {"advance", "create"}
  BY MovesOn DEF Inv, Restart, Start
<1> QED
  BY <1>2, <1>3, Quietly

LEMMA ListDueKeeps ==
    ASSUME Inv, ListDue
    PROVE  Inv'
<1>1. PICK q : q = {<<n, job[Listed[n]].next>> : n \in DueJobs}
  OBVIOUS
<1>2. tick' = NoTick \/ tick' = [NoTick EXCEPT !.at = "jobs", !.jobs = q]
  BY <1>1 DEF ListDue
<1>a. tick' = NoTick \/ tick' = [at |-> "jobs", fires |-> {}, jobs |-> q, fire |-> 0]
  BY <1>2 DEF NoTick
<1>3. TickType /\ tick'.at \notin {"advance", "create"}
  BY <1>a, TickIs, NoneInHand, MovesOn DEF Inv
<1> QED
  BY <1>3, NothingMoves, Quietly DEF ListDue, store, Inv

LEMMA BlockKeeps ==
    ASSUME Inv, Block
    PROVE  Inv'
<1>1. TickType /\ tick'.at \notin {"advance", "create"}
  BY MovesOn DEF Inv, Block
<1> QED
  BY <1>1, NothingMoves, Quietly DEF Block, Inv

\* A fire is new when it is claimed: no task speaks of its number.
LEMMA ClaimKeeps ==
    ASSUME Inv, Claim
    PROVE  Inv'
<1>1. tasks' = tasks
  BY DEF Claim
<1>2. CASE UNCHANGED fires /\ tick' = [tick EXCEPT !.at = "advance", !.fire = 0]
  <2>1. tick' = [at |-> "advance", fires |-> tick.fires, jobs |-> tick.jobs, fire |-> 0]
    BY <1>2 DEF Inv, Typing
  <2>2. TickType /\ tick'.at = "advance" /\ tick'.fire = 0
    BY <2>1, TickIs, NoneInHand DEF Inv, Typing
  <2> QED
    BY <1>1, <1>2, <2>2, NothingMoves, Quietly DEF Inv
<1>3. ASSUME NEW j, NEW at, ~Claims(j, at),
             fires' = Append(fires, [job |-> j, key |-> at, status |-> "claimed"]),
             tick' = [tick EXCEPT !.at = "advance", !.fire = Len(fires) + 1]
      PROVE  Inv'
  <2>1. PICK J, K : fires \in Seq([job : J, key : K, status : FireStatus])
    BY DEF Inv, Typing, FireRows
  <2> DEFINE S == [job : J \cup {j}, key : K \cup {at}, status : FireStatus]
  <2>n. PICK n : n = Len(fires) + 1
    OBVIOUS
  <2>2. [job : J, key : K, status : FireStatus] \subseteq S
    OBVIOUS
  <2>3. fires \in Seq(S)
    BY <2>1, <2>2, Widens
  <2>4. PICK x \in S : x = [job |-> j, key |-> at, status |-> "claimed"]
    BY DEF FireStatus
  <2>5. x.job = j /\ x.key = at /\ fires' = Append(fires, x)
    BY <1>3, <2>4
  <2>6. fires' \in FireRows(J \cup {j}, K \cup {at})
        /\ Len(fires') = n /\ fires'[n] = x /\ \A f \in 1 .. Len(fires) : fires'[f] = fires[f]
    <3> HIDE DEF S
    <3>1. /\ fires' \in Seq(S)
          /\ Len(fires') = n /\ fires'[n] = x /\ \A f \in 1 .. Len(fires) : fires'[f] = fires[f]
      BY <2>n, <2>3, <2>5, AppendProperties
    <3> QED
      BY <3>1 DEF S, FireRows
  <2>7. /\ DOMAIN fires = 1 .. Len(fires) /\ DOMAIN fires' = 1 .. n /\ Len(fires) \in Nat
        /\ DOMAIN fires' = DOMAIN fires \cup {n} /\ n \notin DOMAIN fires
    <3>1. DOMAIN fires = 1 .. Len(fires) /\ Len(fires) \in Nat
      BY <2>1, LenProperties
    <3>2. DOMAIN fires' = 1 .. n
      BY <2>6, LenProperties DEF FireRows
    <3> QED
      BY <2>n, <3>1, <3>2
  <2>8. tick' = [at |-> "advance", fires |-> tick.fires, jobs |-> tick.jobs, fire |-> n]
    BY <2>n, <1>3 DEF Inv, Typing
  <2>a. tasks \in Seq([fire : 0 .. Len(fires), fresh : BOOLEAN, status : TaskStatus])
    BY DEF Inv, Typing, TaskRows
  <2>9. \A t \in DOMAIN tasks : tasks[t].fire \in 0 .. Len(fires)
    <3>1. /\ tasks \in [1 .. Len(tasks) -> [fire : 0 .. Len(fires), fresh : BOOLEAN, status : TaskStatus]]
          /\ DOMAIN tasks = 1 .. Len(tasks)
      BY <2>a, LenProperties
    <3> QED
      BY <3>1
  <2>10. tasks \in Seq([fire : 0 .. n, fresh : BOOLEAN, status : TaskStatus])
    <3> DEFINE A == [fire : 0 .. Len(fires), fresh : BOOLEAN, status : TaskStatus]
               B == [fire : 0 .. n, fresh : BOOLEAN, status : TaskStatus]
    <3>1. A \subseteq B /\ tasks \in Seq(A)
      BY <2>n, <2>7, <2>a
    <3> HIDE DEF A, B
    <3>2. tasks \in Seq(B)
      BY <3>1, Widens
    <3> QED
      BY <3>2 DEF B
  <2>11. Typing'
    <3>1. \E L, M : fires' \in FireRows(L, M)
      BY <2>6
    <3>2. tasks' \in TaskRows'
      BY <1>1, <2>6, <2>10 DEF TaskRows
    <3>3. /\ tick' = [at |-> tick'.at, fires |-> tick'.fires, jobs |-> tick'.jobs, fire |-> tick'.fire]
          /\ tick'.fires = tick.fires /\ tick'.fire = n
      BY <2>8
    <3>4. tick'.fires \subseteq DOMAIN fires' /\ tick'.fire \in 0 .. Len(fires')
      <4>1. tick'.fires \subseteq DOMAIN fires'
        BY <2>7, <3>3 DEF Inv, Typing
      <4>2. n \in 0 .. n
        BY <2>n, <2>7
      <4> QED
        BY <2>6, <3>3, <4>1, <4>2
    <3> QED
      BY <3>1, <3>2, <3>3, <3>4 DEF Typing
  <2>12. Untasked'
    <3>1. n \notin 0 .. Len(fires) /\ n # 0
      BY <2>n, <2>7
    <3>2. tick'.fire = n /\ tick'.at = "advance"
      BY <2>8
    <3>3. \A t \in DOMAIN tasks' : tasks'[t].fire # n
      BY <1>1, <2>9, <3>1
    <3> QED
      BY <3>1, <3>2, <3>3 DEF Untasked, TasksOf
  <2>13. OneTaskPerFire'
    BY <1>1 DEF Inv, OneTaskPerFire
  <2>14. OneFirePerTime'
    BY <1>3, <2>5, <2>6, <2>7 DEF Inv, OneFirePerTime, Claims
  <2> QED
    BY <2>11, <2>12, <2>13, <2>14 DEF Inv
<1> QED
  BY <1>2, <1>3 DEF Claim

LEMMA AdvanceKeeps ==
    ASSUME Inv, Advance
    PROVE  Inv'
<1>1. SameFires /\ SameTasks /\ tick.at = "advance"
  BY NothingMoves DEF Advance, Inv
<1>2. CASE \E d : tick' = NextJob(d)
  BY <1>1, <1>2, MovesOn, Quietly DEF Inv
<1>3. CASE tick.fire # 0 /\ tick' = [tick EXCEPT !.at = "create"]
  BY <1>1, <1>3, Stays, Quietly DEF Inv
<1> QED
  BY <1>2, <1>3 DEF Advance

LEMMA CreateKeeps ==
    ASSUME Inv, Create
    PROVE  Inv'
<1>1. TickType /\ tick'.at = "dispatch"
  BY Stays DEF Inv, Create
<1>2. tick.fire \in 0 .. Len(fires) /\ tick.fire # 0 /\ TasksOf(tick.fire) = {}
  BY DEF Inv, Typing, Untasked, Create
<1>3. tasks' = Append(tasks, [fire |-> tick.fire, status |-> "queued", fresh |-> TRUE]) /\ UNCHANGED fires
  BY DEF Create, Creates, NewTask
<1>4. "queued" \in TaskStatus
  BY DEF TaskStatus
<1>5. PICK f \in 0 .. Len(fires) : f = tick.fire
  BY <1>2
<1> QED
  BY <1>1, <1>2, <1>3, <1>4, <1>5, Creating

LEMMA DispatchKeeps ==
    ASSUME Inv, Dispatch
    PROVE  Inv'
<1>1. SameTasks
  BY NothingMoves DEF Dispatch, Inv
<1>2. PICK f : f = tick.fire
  OBVIOUS
<1>3. SameFires
  BY <1>2, MarksKeeps DEF Dispatch, Marks, Inv, FireStatus
<1>4. TickType /\ tick'.at = "start"
  BY Stays DEF Dispatch, Inv
<1> QED
  BY <1>1, <1>3, <1>4, Quietly

\* Users, webhooks, time, the ends of executions and the death of the server.

LEMMA Outside ==
    ASSUME Inv, SameFires, SameTasks, UNCHANGED tick
    PROVE  Inv'
  BY Stays, Quietly DEF Inv

LEMMA WorkStepKeeps ==
    ASSUME Inv, WorkStep
    PROVE  Inv'
<1>1. ASSUME NEW t, NEW s \in {"success", "failed"}, Ends(t, s)
      PROVE  Inv'
  <2>1. Verdict(s) \in FireStatus /\ s \in TaskStatus /\ TRUE \in BOOLEAN
    BY DEF Verdict, FireStatus, TaskStatus
  <2>2. PICK v \in FireStatus : v = Verdict(s)
    BY <2>1
  <2>3. SameFires
    BY <1>1, <2>2, TellsKeeps DEF Ends, Inv
  <2>4. SameTasks
    BY <1>1, <2>1, <2>3, TaskKeeps DEF Ends, Inv, SameFires
  <2> QED
    BY <1>1, <2>3, <2>4, Outside DEF Ends
<1>2. ASSUME NEW t, Ages(t)
      PROVE  Inv'
  <2>1. SameFires
    BY <1>2, NothingMoves DEF Ages, Inv
  <2>2. "queued" \in TaskStatus /\ FALSE \in BOOLEAN
    BY DEF TaskStatus
  <2>3. SameTasks
    BY <1>2, <2>1, <2>2, TaskKeeps DEF Ages, Inv, SameFires
  <2> QED
    BY <1>2, <2>1, <2>3, Outside DEF Ages, memory
<1> QED
  BY <1>1, <1>2 DEF WorkStep

LEMMA TriggerKeeps ==
    ASSUME Inv, NEW t, Trigger(t)
    PROVE  Inv'
<1>1. PICK s : Executes(t, s)
  BY DEF Trigger
<1> QED
  BY <1>1, ExecutesKeeps, Outside DEF Trigger, Inv

LEMMA HookKeeps ==
    ASSUME Inv, Hook
    PROVE  Inv'
<1>1. tasks' = Append(tasks, [fire |-> 0, status |-> "processing", fresh |-> TRUE])
  BY DEF Hook, NewTask
<1>a. 0 \in 0 .. Len(fires)
  BY NoneInHand DEF Inv
<1>2. "processing" \in TaskStatus /\ 0 \in 0 .. Len(fires)
  BY <1>a DEF TaskStatus
<1>3. TickType
  BY Stays DEF Hook, Inv
<1> QED
  BY <1>1, <1>2, <1>3, Creating DEF Hook

LEMMA RowsKeep ==
    ASSUME Inv, UNCHANGED <<fires, tasks, tick>>
    PROVE  Inv'
  BY NothingMoves, Outside DEF Inv

LEMMA SaveKeeps ==
    ASSUME Inv, NEW r \in BOOLEAN, Save(r)
    PROVE  Inv'
<1> DEFINE S == [fire : 0 .. Len(fires), fresh : BOOLEAN, status : TaskStatus]
<1>1. tasks \in Seq(S)
  BY DEF Inv, Typing, TaskRows
<1>2. tasks \in [1 .. Len(tasks) -> S] /\ DOMAIN tasks = 1 .. Len(tasks) /\ Len(tasks) \in Nat
  BY <1>1, LenProperties
<1>3. PICK q \in TaskStatus : q = Refreshed(r)
  BY DEF Refreshed, TaskStatus
<1>4. /\ DOMAIN tasks' = DOMAIN tasks
      /\ \A t \in DOMAIN tasks : \/ tasks'[t] = tasks[t]
                                 \/ tasks'[t] = [tasks[t] EXCEPT !.status = q]
      /\ tasks' = [t \in DOMAIN tasks |-> tasks'[t]]
  <2>1. tasks' = [t \in DOMAIN tasks |->
                    IF tasks[t].status \in Waiting THEN [tasks[t] EXCEPT !.status = q] ELSE tasks[t]]
    BY <1>3 DEF Save
  <2> QED
    BY <2>1
<1>5. \A t \in DOMAIN tasks : tasks'[t] \in S /\ tasks'[t].fire = tasks[t].fire
  BY <1>2, <1>4
<1>6. tasks' \in [1 .. Len(tasks) -> S]
  <2> HIDE DEF S
  <2> QED
    BY <1>2, <1>4, <1>5
<1>7. tasks' \in Seq(S)
  <2> HIDE DEF S
  <2> QED
    BY <1>2, <1>6, SeqDef
<1>8. SameTasks
  BY <1>4, <1>5, <1>7 DEF SameTasks, TaskRows
<1>9. SameFires /\ UNCHANGED tick
  BY NothingMoves DEF Save, Inv, memory
<1> QED
  BY <1>8, <1>9, Outside

LEMMA CrashKeeps ==
    ASSUME Inv, Crash
    PROVE  Inv'
<1>1. SameFires
  BY NothingMoves DEF Crash, Inv
<1>2. Len(fires') = Len(fires) /\ {"success", "failed", "config_required"} \subseteq TaskStatus /\ TRUE \in BOOLEAN
  BY <1>1 DEF SameFires, TaskStatus
<1>3. SameTasks
  <2>1. CASE UNCHANGED tasks
    BY <2>1, NothingMoves DEF Inv
  <2>2. ASSUME NEW t, NEW s \in {"success", "failed"}, tasks' = [tasks EXCEPT ![t].status = s]
        PROVE  SameTasks
    BY <1>2, <2>2, TaskKeeps DEF Inv
  <2>3. ASSUME NEW s \in {"processing", "config_required"},
               tasks' = [tasks EXCEPT ![TaskOf(tick.fire)].status = s, ![TaskOf(tick.fire)].fresh = TRUE]
        PROVE  SameTasks
    <3>1. PICK t : t = TaskOf(tick.fire)
      OBVIOUS
    <3>2. s \in TaskStatus
      BY DEF TaskStatus
    <3> QED
      BY <1>2, <2>3, <3>1, <3>2, TaskKeeps DEF Inv
  <2> QED
    BY <2>1, <2>2, <2>3 DEF Crash
<1>4. TickType /\ tick'.at \notin {"advance", "create"}
  BY MovesOn DEF Crash, Inv
<1> QED
  BY <1>1, <1>3, <1>4, Quietly

LEMMA TickStepKeeps ==
    ASSUME Inv, TickStep
    PROVE  Inv'
  BY TickStartKeeps, RecoverKeeps, SettleKeeps, WorksOn, ListDueKeeps, BlockKeeps, ClaimKeeps,
     AdvanceKeeps, CreateKeeps, DispatchKeeps DEF TickStep

LEMMA InvInit ==
    ASSUME Init
    PROVE  Inv
<1>1. fires = <<>> /\ tasks = <<>> /\ tick = [at |-> "idle", fires |-> {}, jobs |-> {}, fire |-> 0]
  BY DEF Init, NoTick
<1>2. fires \in FireRows({}, {}) /\ tasks \in TaskRows /\ Len(fires) = 0
      /\ DOMAIN fires = {} /\ DOMAIN tasks = {}
  BY <1>1 DEF FireRows, TaskRows
<1>3. Typing
  BY <1>1, <1>2 DEF Typing
<1>4. Untasked /\ OneTaskPerFire /\ OneFirePerTime
  BY <1>1, <1>2 DEF Untasked, OneTaskPerFire, OneFirePerTime
<1> QED
  BY <1>3, <1>4 DEF Inv

LEMMA InvNext ==
    ASSUME Inv, [Next]_vars
    PROVE  Inv'
<1>1. CASE TickStep
  BY <1>1, TickStepKeeps
<1>2. CASE WorkStep
  BY <1>2, WorkStepKeeps
<1>3. ASSUME NEW t, Trigger(t)
      PROVE  Inv'
  BY <1>3, TriggerKeeps
<1>4. ASSUME NEW j, Toggle(j) \/ ComesDue(j)
      PROVE  Inv'
  BY <1>4, RowsKeep DEF Toggle, ComesDue, memory
<1>5. ASSUME NEW r \in BOOLEAN, Save(r)
      PROVE  Inv'
  BY <1>5, SaveKeeps
<1>6. CASE Hook
  BY <1>6, HookKeeps
<1>7. CASE Archive
  BY <1>7, RowsKeep DEF Archive, memory
<1>8. CASE Crash
  BY <1>8, CrashKeeps
<1>9. CASE UNCHANGED vars
  BY <1>9, RowsKeep DEF vars
<1> QED
  BY <1>1, <1>2, <1>3, <1>4, <1>5, <1>6, <1>7, <1>8, <1>9 DEF Next

LEMMA Invariance == Spec => []Inv
<1>1. Init => Inv
  BY InvInit
<1>2. Inv /\ [Next]_vars => Inv'
  BY InvNext
<1> QED
  BY <1>1, <1>2, PTL DEF Spec

\* A fire is worked off by one task: a tick that recovers makes one only where the store has none, and
\* the fire a tick has claimed is new until its task is made, whatever the server dies of in between.
THEOREM OneTaskPerFireAlways == Spec => []OneTaskPerFire
<1>1. Inv => OneTaskPerFire
  BY DEF Inv
<1> QED
  BY <1>1, Invariance, PTL

\* A time of a job is fired once: claimScheduledFire finds the fire of an earlier server, and neither
\* the recovery nor a mark changes what a fire was claimed for.
THEOREM OneFirePerTimeAlways == Spec => []OneFirePerTime
<1>1. Inv => OneFirePerTime
  BY DEF Inv
<1> QED
  BY <1>1, Invariance, PTL

-----------------------------------------------------------------------------
(* The result of a task.  A task has one runner at most, and while it has  *)
(* one it is processing and recent: so nobody starts another, nobody else  *)
(* ends it, and when its runner does no result is there yet.               *)

AtWork(t) == live[t] = 1 /\ tasks[t].status = "processing" /\ tasks[t].fresh = TRUE

OneRunner ==
    /\ live \in Seq(Nat) /\ Len(live) = Len(tasks)
    /\ \A t \in DOMAIN tasks : live[t] > 0 => AtWork(t)

\* The tasks stay, and those that succeeded keep their result.
Keeps == \A t \in DOMAIN tasks : t \in DOMAIN tasks' /\ (tasks[t].status = "success" => tasks'[t].status = "success")

TaskRow == [fire : 0 .. Len(fires), fresh : BOOLEAN, status : TaskStatus]

LEMMA Rows ==
    ASSUME Inv, OneRunner
    PROVE  /\ tasks \in [1 .. Len(tasks) -> TaskRow] /\ tasks \in Seq(TaskRow)
           /\ live \in [1 .. Len(tasks) -> Nat]
           /\ DOMAIN tasks = 1 .. Len(tasks) /\ DOMAIN live = 1 .. Len(tasks) /\ Len(tasks) \in Nat
  BY LenProperties DEF Inv, Typing, TaskRows, TaskRow, OneRunner

\* Neither the tasks nor their runners change.
LEMMA NoneWorks ==
    ASSUME OneRunner, UNCHANGED <<tasks, live>>
    PROVE  OneRunner' /\ Keeps
  BY DEF OneRunner, Keeps, AtWork

LEMMA SameLength ==
    ASSUME Inv, Inv', OneRunner, DOMAIN tasks' = DOMAIN tasks
    PROVE  Len(tasks') = Len(tasks)
<1>1. DOMAIN tasks' = 1 .. Len(tasks') /\ Len(tasks') \in Nat
  BY LenProperties DEF Inv, Typing, TaskRows
<1>2. DOMAIN tasks = 1 .. Len(tasks) /\ Len(tasks) \in Nat
  BY Rows
<1>3. \A m, n \in Nat : 1 .. m = 1 .. n => m = n
  <2> TAKE m, n \in Nat
  <2> HAVE 1 .. m = 1 .. n
  <2>1. (m # 0 => m \in 1 .. n) /\ (n # 0 => n \in 1 .. m)
    OBVIOUS
  <2> QED
    BY <2>1
<1> QED
  BY <1>1, <1>2, <1>3

\* One row changes, and its runner.
LEMMA OneWorks ==
    ASSUME Inv, Inv', OneRunner, NEW t \in DOMAIN tasks, NEW e, tasks' = [tasks EXCEPT ![t] = e],
           NEW n \in Nat, live' = [live EXCEPT ![t] = n],
           tasks[t].status = "success" => e.status = "success",
           n > 0 => n = 1 /\ e.status = "processing" /\ e.fresh = TRUE
    PROVE  OneRunner' /\ Keeps
<1>1. DOMAIN tasks' = DOMAIN tasks /\ tasks'[t] = e /\ \A u \in DOMAIN tasks \ {t} : tasks'[u] = tasks[u]
  BY Rows
<1>2. live'[t] = n /\ \A u \in DOMAIN tasks \ {t} : live'[u] = live[u]
  BY Rows
<1>3. Len(tasks') = Len(tasks)
  BY <1>1, SameLength
<1>4. live' \in Seq(Nat) /\ Len(live') = Len(live)
  <2>1. t \in 1 .. Len(live) /\ live \in Seq(Nat)
    BY Rows DEF OneRunner
  <2> QED
    BY <2>1, ExceptSeq
<1>5. Keeps
  BY <1>1 DEF Keeps
<1>6. \A u \in DOMAIN tasks' : live'[u] > 0 => AtWork(u)'
  BY <1>1, <1>2 DEF OneRunner, AtWork
<1> QED
  BY <1>3, <1>4, <1>5, <1>6 DEF OneRunner

\* One row changes whose task no runner is at.
LEMMA OneRests ==
    ASSUME Inv, Inv', OneRunner, NEW t, t \in DOMAIN tasks => live[t] = 0 /\ tasks[t].status # "success",
           UNCHANGED live, NEW s, NEW b,
           \/ tasks' = [tasks EXCEPT ![t].status = s, ![t].fresh = b]
           \/ tasks' = [tasks EXCEPT ![t].fresh = b]
           \/ tasks' = [tasks EXCEPT ![t].status = s]
    PROVE  OneRunner' /\ Keeps
<1>1. CASE t \notin DOMAIN tasks
  <2>0. tasks \in [1 .. Len(tasks) -> TaskRow] /\ DOMAIN tasks = 1 .. Len(tasks)
    BY Rows
  <2>1. tasks' = tasks
    <3>1. CASE tasks' = [tasks EXCEPT ![t].status = s]
      BY <1>1, <2>0, <3>1
    <3>2. CASE tasks' = [tasks EXCEPT ![t].status = s, ![t].fresh = b]
      BY <1>1, <2>0, <3>2
    <3>3. CASE tasks' = [tasks EXCEPT ![t].fresh = b]
      BY <1>1, <2>0, <3>3
    <3> QED
      BY <3>1, <3>2, <3>3
  <2> QED
    BY <2>1, NoneWorks
<1>2. CASE t \in DOMAIN tasks
  <2>1. PICK e : tasks' = [tasks EXCEPT ![t] = e]
    <3>1. CASE tasks' = [tasks EXCEPT ![t].status = s]
      <4>1. tasks' = [tasks EXCEPT ![t] = [tasks[t] EXCEPT !.status = s]]
        BY <1>2, <3>1, Rows
      <4> QED
        BY <4>1
    <3>2. CASE tasks' = [tasks EXCEPT ![t].status = s, ![t].fresh = b]
      <4>1. tasks' = [tasks EXCEPT ![t] = [tasks[t] EXCEPT !.status = s, !.fresh = b]]
        BY <1>2, <3>2, Rows
      <4> QED
        BY <4>1
    <3>3. CASE tasks' = [tasks EXCEPT ![t].fresh = b]
      <4>1. tasks' = [tasks EXCEPT ![t] = [tasks[t] EXCEPT !.fresh = b]]
        BY <1>2, <3>3, Rows
      <4> QED
        BY <4>1
    <3> QED
      BY <3>1, <3>2, <3>3
  <2>2. live' = [live EXCEPT ![t] = 0] /\ 0 \in Nat /\ ~(0 > 0)
    BY <1>2, Rows
  <2> QED
    BY <1>2, <2>1, <2>2, OneWorks
<1> QED
  BY <1>1, <1>2

\* A task joins the others, with its runner when it is processing.
LEMMA OneJoins ==
    ASSUME Inv, Inv', OneRunner, NEW e, tasks' = Append(tasks, e), NEW n \in Nat, live' = Append(live, n),
           e \in TaskRow, n > 0 => n = 1 /\ e.status = "processing" /\ e.fresh = TRUE
    PROVE  OneRunner' /\ Keeps
<1>1. /\ Len(tasks') = Len(tasks) + 1 /\ tasks'[Len(tasks) + 1] = e
      /\ \A t \in 1 .. Len(tasks) : tasks'[t] = tasks[t]
  BY Rows, AppendProperties
<1>2. /\ live' \in Seq(Nat) /\ Len(live') = Len(live) + 1 /\ live'[Len(live) + 1] = n
      /\ \A t \in 1 .. Len(live) : live'[t] = live[t]
  BY AppendProperties DEF OneRunner
<1>3. DOMAIN tasks' = 1 .. Len(tasks')
  BY LenProperties DEF Inv, Typing, TaskRows
<1>4. DOMAIN tasks = 1 .. Len(tasks) /\ Len(tasks) \in Nat /\ Len(live) = Len(tasks)
  BY Rows DEF OneRunner
<1>5. Keeps
  BY <1>1, <1>3, <1>4 DEF Keeps
<1>6. ASSUME NEW t \in DOMAIN tasks', live'[t] > 0 PROVE AtWork(t)'
  <2>1. CASE t = Len(tasks) + 1
    BY <1>1, <1>2, <1>4, <1>6, <2>1 DEF AtWork
  <2>2. CASE t \in 1 .. Len(tasks)
    BY <1>1, <1>2, <1>4, <1>6, <2>2 DEF AtWork, OneRunner
  <2> QED
    BY <1>1, <1>3, <1>4, <2>1, <2>2
<1> QED
  BY <1>1, <1>2, <1>4, <1>5, <1>6 DEF OneRunner

LEMMA CreatesKeeps ==
    ASSUME Inv, Inv', OneRunner, NEW f \in 0 .. Len(fires), NEW s \in TaskStatus, NEW n \in {0, 1},
           tasks' = Append(tasks, NewTask(f, s)), live' = Append(live, n), n = 1 => s = "processing"
    PROVE  OneRunner' /\ Keeps
<1>1. PICK e \in TaskRow : e = NewTask(f, s)
  BY DEF NewTask, TaskRow
<1>2. tasks' = Append(tasks, e) /\ e.status = s /\ e.fresh = TRUE
  BY <1>1 DEF NewTask
<1>3. n \in Nat /\ (n > 0 => n = 1)
  OBVIOUS
<1> QED
  BY <1>2, <1>3, OneJoins

\* An execution starts a runner only at a task that has none, and leaves a result alone.
LEMMA ExecutesOne ==
    ASSUME Inv, Inv', OneRunner, NEW t, NEW s, Executes(t, s),
           t \in DOMAIN tasks => s = tasks[t].status \/ (s = "queued" /\ tasks[t].status = "config_required")
    PROVE  OneRunner' /\ Keeps
<1>1. CASE UNCHANGED <<tasks, live>>
  BY <1>1, NoneWorks
<1>2. CASE ~(UNCHANGED <<tasks, live>>)
  <2>1. s = "queued" \/ MayStart(t)
    BY <1>2 DEF Executes
  <2>2. t \in DOMAIN tasks => live[t] = 0 /\ tasks[t].status # "success"
    <3>1. t \in DOMAIN tasks => live[t] \in Nat
      BY Rows
    <3>2. t \in DOMAIN tasks => ~AtWork(t) /\ tasks[t].status # "success"
      BY <2>1 DEF MayStart, AtWork
    <3> QED
      BY <3>1, <3>2 DEF OneRunner
  <2>3. CASE tasks' = [tasks EXCEPT ![t].status = "config_required", ![t].fresh = TRUE] /\ UNCHANGED live
    BY <2>2, <2>3, OneRests
  <2>4. CASE /\ tasks' = [tasks EXCEPT ![t].status = "processing", ![t].fresh = TRUE]
             /\ live' = [live EXCEPT ![t] = @ + 1]
    <3>1. CASE t \in DOMAIN tasks
      <4>1. PICK e : e = [tasks[t] EXCEPT !.status = "processing", !.fresh = TRUE]
        OBVIOUS
      <4>2. tasks' = [tasks EXCEPT ![t] = e]
        BY <2>4, <3>1, <4>1, Rows
      <4>3. e.status = "processing" /\ e.fresh = TRUE
        <5>1. tasks[t] \in TaskRow
          BY <3>1, Rows
        <5> QED
          BY <4>1, <5>1 DEF TaskRow
      <4>4. live' = [live EXCEPT ![t] = 1] /\ 1 \in Nat
        BY <2>2, <2>4, <3>1, Rows
      <4> QED
        BY <2>2, <3>1, <4>2, <4>3, <4>4, OneWorks
    <3>2. CASE t \notin DOMAIN tasks
      <4>1. live' = live
        BY <2>4, <3>2, Rows
      <4> QED
        BY <2>4, <3>2, <4>1, OneRests
    <3> QED
      BY <3>1, <3>2
  <2> QED
    BY <1>2, <2>3, <2>4 DEF Executes
<1> QED
  BY <1>1, <1>2

LEMMA TickKeeps ==
    ASSUME Inv, Inv', OneRunner, TickStep
    PROVE  OneRunner' /\ Keeps
<1>0. "queued" \in TaskStatus
  BY DEF TaskStatus
<1>1. CASE TickStart \/ Settle \/ ListDue \/ Block \/ Claim \/ Advance \/ Dispatch
  BY <1>1, NoneWorks DEF TickStart, store, Settle, ListDue, Block, Claim, Advance, Dispatch
<1>2. CASE Recover
  <2>1. PICK f \in tick.fires : Creates(f) \/ UNCHANGED <<tasks, live>>
    BY <1>2 DEF Recover
  <2>2. f \in 0 .. Len(fires)
    BY DEF Inv, Typing, FireRows
  <2> QED
    BY <1>0, <2>1, <2>2, NoneWorks, CreatesKeeps DEF Creates
<1>3. CASE Create
  <2>1. PICK f \in 0 .. Len(fires) : f = tick.fire
    BY DEF Inv, Typing
  <2> QED
    BY <1>0, <1>3, <2>1, CreatesKeeps DEF Create, Creates
<1>4. CASE Restart \/ Start
  <2>1. PICK t, s : Executes(t, s) /\ s = tasks[t].status
    BY <1>4 DEF Restart, Start
  <2> QED
    BY <2>1, ExecutesOne
<1> QED
  BY <1>1, <1>2, <1>3, <1>4 DEF TickStep

LEMMA WorkKeeps ==
    ASSUME Inv, Inv', OneRunner, WorkStep
    PROVE  OneRunner' /\ Keeps
<1>1. ASSUME NEW t \in DOMAIN tasks, NEW s \in {"success", "failed"}, Ends(t, s)
      PROVE  OneRunner' /\ Keeps
  <2>1. live[t] = 1 /\ tasks[t].status = "processing"
    BY <1>1 DEF Ends, OneRunner, AtWork
  <2>2. live' = [live EXCEPT ![t] = 0] /\ 0 \in Nat /\ ~(0 > 0)
    BY <1>1, <2>1, Rows DEF Ends
  <2>3. PICK e : e = [tasks[t] EXCEPT !.status = s]
    OBVIOUS
  <2>4. tasks' = [tasks EXCEPT ![t] = e]
    BY <1>1, <2>3, Rows DEF Ends
  <2> QED
    BY <2>1, <2>2, <2>4, OneWorks
<1>2. ASSUME NEW t \in DOMAIN tasks, Ages(t)
      PROVE  OneRunner' /\ Keeps
  <2>1. live[t] = 0 /\ tasks[t].status = "processing" /\ UNCHANGED live /\ tasks' = [tasks EXCEPT ![t].fresh = FALSE]
    BY <1>2 DEF Ages, memory
  <2> QED
    BY <2>1, OneRests
<1> QED
  BY <1>1, <1>2 DEF WorkStep

\* A saved configuration changes tasks that wait.
LEMMA SavesKeep ==
    ASSUME Inv, Inv', OneRunner, NEW r \in BOOLEAN, Save(r)
    PROVE  OneRunner' /\ Keeps
<1>1. PICK q : q = Refreshed(r)
  OBVIOUS
<1>2. tasks' = [t \in DOMAIN tasks |->
                  IF tasks[t].status \in Waiting THEN [tasks[t] EXCEPT !.status = q] ELSE tasks[t]]
      /\ live' = live
  BY <1>1 DEF Save, memory
<1>3. /\ DOMAIN tasks' = DOMAIN tasks
      /\ \A t \in DOMAIN tasks : tasks'[t] = tasks[t] \/ tasks[t].status \in {"queued", "config_required"}
  BY <1>2 DEF Waiting
<1>4. Len(tasks') = Len(tasks)
  BY <1>3, SameLength
<1>5. Keeps
  BY <1>3 DEF Keeps
<1>6. \A t \in DOMAIN tasks' : live'[t] > 0 => AtWork(t)'
  BY <1>2, <1>3 DEF OneRunner, AtWork
<1> QED
  BY <1>2, <1>4, <1>5, <1>6 DEF OneRunner

\* After a crash nobody is at work, and a result that was written stays.
LEMMA CrashesKeep ==
    ASSUME Inv, Inv', OneRunner, Crash
    PROVE  OneRunner' /\ Keeps
<1>1. live' = [t \in 1 .. Len(tasks) |-> 0]
  BY Rows DEF Crash
<1>2. DOMAIN tasks' = DOMAIN tasks /\ \A t \in DOMAIN tasks : tasks[t].status = "success" => tasks'[t].status = "success"
  <2>0. DOMAIN tasks = 1 .. Len(tasks) /\ tasks \in [1 .. Len(tasks) -> TaskRow]
    BY Rows
  <2>1. CASE UNCHANGED tasks
    BY <2>1
  <2>2. ASSUME NEW t \in DOMAIN tasks, NEW s, live[t] > 0, tasks' = [tasks EXCEPT ![t].status = s]
        PROVE  DOMAIN tasks' = DOMAIN tasks /\ \A u \in DOMAIN tasks : tasks[u].status = "success" => tasks'[u].status = "success"
    <3>1. tasks[t].status = "processing"
      BY <2>2 DEF OneRunner, AtWork
    <3> QED
      BY <2>2, <3>1
  <2>3. ASSUME NEW t, NEW s, MayStart(t), tasks' = [tasks EXCEPT ![t].status = s, ![t].fresh = TRUE]
        PROVE  DOMAIN tasks' = DOMAIN tasks /\ \A u \in DOMAIN tasks : tasks[u].status = "success" => tasks'[u].status = "success"
    <3>1. tasks[t].status # "success"
      BY <2>3 DEF MayStart
    <3>2. \A u \in DOMAIN tasks \ {t} : tasks'[u] = tasks[u]
      BY <2>3
    <3> QED
      BY <2>3, <3>1, <3>2
  <2> QED
    BY <2>1, <2>2, <2>3 DEF Crash
<1>3. Len(tasks') = Len(tasks) /\ Len(tasks) \in Nat
  BY <1>2, SameLength, Rows
<1>4. live' \in Seq(Nat) /\ Len(live') = Len(tasks')
  <2>1. live' \in [1 .. Len(tasks) -> Nat]
    BY <1>1
  <2>2. live' \in Seq(Nat)
    BY <1>3, <2>1, SeqDef
  <2>3. DOMAIN live' = 1 .. Len(live') /\ Len(live') \in Nat
    BY <2>2, LenProperties
  <2> QED
    BY <1>1, <1>3, <2>2, <2>3
<1>5. \A t \in DOMAIN tasks' : ~(live'[t] > 0)
  BY <1>1, <1>2, Rows
<1> QED
  BY <1>2, <1>4, <1>5 DEF OneRunner, Keeps

LEMMA RunnerInit == Init => OneRunner
<1> SUFFICES ASSUME Init PROVE OneRunner
  OBVIOUS
<1>1. live = <<>> /\ tasks = <<>>
  BY DEF Init
<1>2. live \in Seq(Nat) /\ Len(live) = 0 /\ Len(tasks) = 0 /\ DOMAIN tasks = {}
  BY <1>1
<1> QED
  BY <1>2 DEF OneRunner

LEMMA RunnerNext ==
    ASSUME Inv, OneRunner, [Next]_vars
    PROVE  OneRunner' /\ Keeps
<1>0. Inv'
  BY InvNext
<1>1. CASE TickStep
  BY <1>0, <1>1, TickKeeps
<1>2. CASE WorkStep
  BY <1>0, <1>2, WorkKeeps
<1>3. ASSUME NEW t \in DOMAIN tasks, Trigger(t)
      PROVE  OneRunner' /\ Keeps
  <2>1. PICK s : /\ Executes(t, s)
                 /\ s = tasks[t].status \/ (s = "queued" /\ tasks[t].status = "config_required")
    BY <1>3 DEF Trigger
  <2> QED
    BY <1>0, <2>1, ExecutesOne
<1>4. ASSUME NEW j, Toggle(j) \/ ComesDue(j)
      PROVE  OneRunner' /\ Keeps
  BY <1>4, NoneWorks DEF Toggle, ComesDue, memory
<1>5. ASSUME NEW r \in BOOLEAN, Save(r)
      PROVE  OneRunner' /\ Keeps
  BY <1>0, <1>5, SavesKeep
<1>6. CASE Hook
  <2>1. 0 \in 0 .. Len(fires) /\ "processing" \in TaskStatus
    BY NoneInHand DEF Inv, TaskStatus
  <2> QED
    BY <1>0, <1>6, <2>1, CreatesKeeps DEF Hook
<1>7. CASE Archive \/ UNCHANGED vars
  BY <1>7, NoneWorks DEF Archive, memory, vars
<1>8. CASE Crash
  BY <1>0, <1>8, CrashesKeep
<1> QED
  BY <1>1, <1>2, <1>3, <1>4, <1>5, <1>6, <1>7, <1>8 DEF Next

\* The result of a task that succeeded is not overwritten: whatever executes a task reads its status
\* in the same step, and a task that has a runner is processing until that runner ends.
THEOREM SuccessStays == Spec => SuccessIsKept
<1>1. Init => OneRunner
  BY RunnerInit
<1>2. Inv /\ OneRunner /\ [Next]_vars => OneRunner'
  BY RunnerNext
<1>3. Inv /\ OneRunner /\ [Next]_vars =>
        [\A t \in DOMAIN tasks : tasks[t].status = "success" => tasks'[t].status = "success"]_vars
  BY RunnerNext DEF Keeps
<1> QED
  BY <1>1, <1>2, <1>3, Invariance, PTL DEF Spec, SuccessIsKept

-----------------------------------------------------------------------------
(* The types: a job's next time and the times of fires and of the due jobs *)
(* a tick has read are among those that were given, and the places a tick  *)
(* holds are places of the store.                                          *)

JobRow(m) == [active : BOOLEAN, next : 0 .. m, late : BOOLEAN]
Places    == {"idle", "recover", "settle", "restart", "jobs", "advance", "create", "dispatch", "start"}

Times ==
    /\ moment \in Nat /\ job \in [Jobs -> JobRow(moment)] /\ ready \in BOOLEAN
    /\ tick.at \in Places /\ tick.jobs \subseteq (DOMAIN Listed) \X (0 .. moment)
    /\ fires \in FireRows(Jobs, 1 .. moment)

Counts == asked \in [DOMAIN Limits -> Nat] /\ \A k \in DOMAIN Limits : asked[k] <= Limits[k]

\* Time goes on by one at most, and no other is given to a job.
Goes ==
    /\ moment' \in {moment, moment + 1}
    /\ job' \in [Jobs -> JobRow(moment')] /\ ready' \in BOOLEAN

LEMMA SameJobs ==
    ASSUME Times, moment' \in {moment, moment + 1}, UNCHANGED <<job, ready>>
    PROVE  Goes
<1>1. \A r \in JobRow(moment) : r \in JobRow(moment')
  BY DEF Times, JobRow
<1> QED
  BY <1>1 DEF Times, Goes

LEMMA OneJob ==
    ASSUME Times, moment' \in {moment, moment + 1}, UNCHANGED ready,
           NEW j, NEW r, job' = [job EXCEPT ![j] = r], j \in Jobs => r \in JobRow(moment')
    PROVE  Goes
<1>1. \A q \in JobRow(moment) : q \in JobRow(moment')
  BY DEF Times, JobRow
<1> QED
  BY <1>1 DEF Times, Goes

LEMMA TickGoes ==
    ASSUME Times, TickStep
    PROVE  Goes
<1>0. moment \in Nat /\ job \in [Jobs -> JobRow(moment)]
  BY DEF Times
<1>1. CASE UNCHANGED <<job, ready, moment>>
  BY <1>1, SameJobs
<1>2. CASE Block
  <2>1. PICK j : job' = [job EXCEPT ![j].active = FALSE] /\ UNCHANGED <<ready, moment>>
    BY <1>2 DEF Block
  <2>2. PICK r : r = [job[j] EXCEPT !.active = FALSE]
    OBVIOUS
  <2>3. job' = [job EXCEPT ![j] = r]
    BY <2>1, <2>2
  <2>4. j \in Jobs => r \in JobRow(moment')
    BY <1>0, <2>1, <2>2 DEF JobRow
  <2> QED
    BY <2>1, <2>3, <2>4, OneJob
<1>3. CASE Claim
  BY <1>3, SameJobs DEF Claim
<1>4. CASE Advance
  <2>1. CASE UNCHANGED <<job, moment, ready>>
    BY <2>1, SameJobs
  <2>2. ASSUME NEW j, job' = [job EXCEPT ![j].next = moment + 1, ![j].late = FALSE], moment' = moment + 1,
               UNCHANGED ready
        PROVE  Goes
    <3>1. PICK r : r = [job[j] EXCEPT !.next = moment + 1, !.late = FALSE]
      OBVIOUS
    <3>2. job' = [job EXCEPT ![j] = r]
      BY <2>2, <3>1
    <3>3. ASSUME j \in Jobs PROVE r \in JobRow(moment')
      <4>1. job[j] \in JobRow(moment) /\ moment + 1 \in 0 .. moment' /\ 0 .. moment \subseteq 0 .. moment'
        BY <1>0, <2>2, <3>3
      <4> QED
        BY <3>1, <4>1 DEF JobRow
    <3> QED
      BY <2>2, <3>2, <3>3, OneJob
  <2> QED
    BY <1>4, <2>1, <2>2 DEF Advance
<1> QED
  BY <1>1, <1>2, <1>3, <1>4 DEF TickStep, TickStart, Recover, Settle, Restart, ListDue, Create, Dispatch, Start, store

LEMMA ToggleGoes ==
    ASSUME Times, NEW j \in Jobs, Toggle(j) \/ ComesDue(j)
    PROVE  Goes
<1>0. moment \in Nat /\ job \in [Jobs -> JobRow(moment)] /\ moment' = moment /\ ready' = ready
  BY DEF Times, Toggle, ComesDue
<1>1. job[j] \in JobRow(moment)
  BY <1>0
<1>2. PICK r : r \in JobRow(moment) /\ job' = [job EXCEPT ![j] = r]
  <2>1. CASE Toggle(j)
    <3>1. job' = [job EXCEPT ![j] = [job[j] EXCEPT !.active = ~job[j].active]]
      BY <1>0, <2>1 DEF Toggle
    <3>2. [job[j] EXCEPT !.active = ~job[j].active] \in JobRow(moment)
      BY <1>1 DEF JobRow
    <3> QED
      BY <3>1, <3>2
  <2>2. CASE ComesDue(j)
    <3>1. job' = [job EXCEPT ![j] = [job[j] EXCEPT !.late = TRUE]]
      BY <1>0, <2>2 DEF ComesDue
    <3>2. [job[j] EXCEPT !.late = TRUE] \in JobRow(moment)
      BY <1>1 DEF JobRow
    <3> QED
      BY <3>1, <3>2
  <2> QED
    BY <2>1, <2>2
<1> QED
  BY <1>0, <1>2, OneJob

LEMMA SaveGoes ==
    ASSUME Times, NEW r \in BOOLEAN, Save(r)
    PROVE  Goes
<1>0. /\ moment \in Nat /\ job \in [Jobs -> JobRow(moment)] /\ ready' = r
      /\ moment' = IF r /\ \E j \in Jobs : job[j].next = 0 THEN moment + 1 ELSE moment
      /\ job' = [j \in Jobs |->
                   IF r /\ job[j].next = 0 THEN [active |-> TRUE, next |-> moment + 1, late |-> FALSE]
                   ELSE [job[j] EXCEPT !.active = r]]
  BY DEF Times, Save
<1>1. ASSUME NEW j \in Jobs
      PROVE  (IF r /\ job[j].next = 0 THEN [active |-> TRUE, next |-> moment + 1, late |-> FALSE]
              ELSE [job[j] EXCEPT !.active = r]) \in JobRow(moment')
  <2>1. CASE r /\ job[j].next = 0
    <3>1. moment' = moment + 1
      BY <1>0, <2>1
    <3>2. [active |-> TRUE, next |-> moment + 1, late |-> FALSE] \in JobRow(moment')
      BY <1>0, <3>1 DEF JobRow
    <3> QED
      BY <2>1, <3>2
  <2>2. CASE ~(r /\ job[j].next = 0)
    <3>1. job[j] \in JobRow(moment) /\ moment' \in Nat /\ moment <= moment'
      BY <1>0
    <3>2. [job[j] EXCEPT !.active = r] \in JobRow(moment')
      BY <1>0, <3>1 DEF JobRow
    <3> QED
      BY <2>2, <3>2
  <2> QED
    BY <2>1, <2>2
<1>2. job' \in [Jobs -> JobRow(moment')]
  BY <1>0, <1>1
<1>3. moment' \in {moment, moment + 1}
  BY <1>0
<1> QED
  BY <1>0, <1>2, <1>3 DEF Goes

LEMMA NextGoes ==
    ASSUME Times, [Next]_vars
    PROVE  Goes
<1>1. CASE UNCHANGED <<job, ready, moment>>
  BY <1>1, SameJobs
<1>2. CASE Archive
  <2>1. [active |-> FALSE, next |-> 0, late |-> FALSE] \in JobRow(moment)
    BY DEF Times, JobRow
  <2> QED
    BY <1>2, <2>1 DEF Archive, Times, Goes
<1>3. CASE TickStep
  BY <1>3, TickGoes
<1>4. ASSUME NEW j \in Jobs, Toggle(j) \/ ComesDue(j)
      PROVE  Goes
  BY <1>4, ToggleGoes
<1>5. ASSUME NEW r \in BOOLEAN, Save(r)
      PROVE  Goes
  BY <1>5, SaveGoes
<1> QED
  BY <1>1, <1>2, <1>3, <1>4, <1>5 DEF Next, WorkStep, Ends, Ages, Trigger, Hook, Crash, vars

\* A fire changes in its status only, unless a tick claims one.
LEMMA FiresGo ==
    ASSUME Inv, [Next]_vars
    PROVE  SameFires \/ Claim
<1>1. CASE UNCHANGED fires
  BY <1>1, NothingMoves DEF Inv
<1>2. ASSUME NEW f, NEW s \in FireStatus, Marks(f, s)
      PROVE  SameFires
  BY <1>2, MarksKeeps DEF Inv, Marks
<1>3. ASSUME NEW t, NEW s, Executes(t, s)
      PROVE  SameFires
  BY <1>3, ExecutesKeeps DEF Inv
<1>4. "completed" \in FireStatus /\ "failed" \in FireStatus /\ "dispatched" \in FireStatus
  BY DEF FireStatus
<1>5. CASE TickStep
  <2>1. CASE Settle \/ Dispatch
    BY <1>2, <1>4, <2>1 DEF Settle, Dispatch
  <2>2. CASE Restart \/ Start
    BY <1>3, <2>2 DEF Restart, Start
  <2> QED
    BY <1>1, <1>5, <2>1, <2>2 DEF TickStep, TickStart, Recover, ListDue, Block, Advance, Create, store
<1>6. CASE WorkStep
  <2>1. ASSUME NEW t, NEW s, Ends(t, s)
        PROVE  SameFires
    <3>1. PICK v \in FireStatus : v = Verdict(s)
      BY <1>4 DEF Verdict
    <3> QED
      BY <2>1, <3>1, TellsKeeps DEF Ends, Inv
  <2> QED
    BY <1>1, <1>6, <2>1 DEF WorkStep, Ages
<1>7. ASSUME NEW t, Trigger(t)
      PROVE  SameFires
  BY <1>3, <1>7 DEF Trigger
<1> QED
  BY <1>1, <1>5, <1>6, <1>7 DEF Next, Toggle, ComesDue, Save, Hook, Archive, Crash, vars

\* A tick holds places of the store, with the times it read when it listed them.
LEMMA TickAt ==
    ASSUME Inv, Times, TickStep
    PROVE  /\ tick'.at \in Places
           /\ tick'.jobs \subseteq tick.jobs \/ tick'.jobs \subseteq (DOMAIN Listed) \X (0 .. moment)
<1>0. /\ tick = [at |-> tick.at, fires |-> tick.fires, jobs |-> tick.jobs, fire |-> tick.fire]
      /\ tick.at \in Places
  BY DEF Inv, Typing, Times
<1>1. ASSUME NEW a, NEW f, tick' = [tick EXCEPT !.at = a] \/ tick' = [tick EXCEPT !.at = a, !.fire = f]
      PROVE  tick'.at = a /\ tick'.jobs = tick.jobs
  BY <1>0, <1>1
<1>2. NoTick.at = "idle" /\ NoTick.jobs = {}
  BY DEF NoTick
<1>3. ASSUME NEW d, tick' = NextJob(d)
      PROVE  tick'.at \in Places /\ tick'.jobs \subseteq tick.jobs
  BY <1>0, <1>2, <1>3 DEF NextJob, Places
<1>4. ASSUME tick' = NextFire
      PROVE  tick'.at \in Places /\ tick'.jobs = tick.jobs
  BY <1>0, <1>4 DEF NextFire, Places
<1>5. CASE TickStart
  BY <1>0, <1>5 DEF TickStart, Places
<1>6. CASE Recover
  BY <1>1, <1>6 DEF Recover, TakesUp, Places
<1>7. CASE Settle
  BY <1>1, <1>4, <1>7 DEF Settle, Places
<1>8. CASE Restart
  BY <1>4, <1>8 DEF Restart
<1>9. CASE ListDue
  <2>1. \A n \in DueJobs : n \in DOMAIN Listed /\ job[Listed[n]].next \in 0 .. moment
    <3>1. \A n \in DOMAIN Listed : Listed[n] \in Jobs
      BY ListedAssumption
    <3>2. \A n \in DueJobs : n \in DOMAIN Listed
      BY DEF DueJobs, FirstPage
    <3>3. \A j \in Jobs : job[j].next \in 0 .. moment
      BY DEF Times, JobRow
    <3> QED
      BY <3>1, <3>2, <3>3
  <2>2. PICK q : q = {<<n, job[Listed[n]].next>> : n \in DueJobs}
    OBVIOUS
  <2>3. q \subseteq (DOMAIN Listed) \X (0 .. moment)
    BY <2>1, <2>2
  <2>4. tick' = NoTick \/ tick' = [NoTick EXCEPT !.at = "jobs", !.jobs = q]
    BY <1>9, <2>2 DEF ListDue
  <2> QED
    BY <1>2, <2>3, <2>4 DEF NoTick, Places
<1>10. CASE Block \/ Start
  BY <1>3, <1>10 DEF Block, Start
<1>11. CASE Claim
  BY <1>1, <1>11 DEF Claim, Places
<1>12. CASE Advance
  BY <1>1, <1>3, <1>12 DEF Advance, Places
<1>13. CASE Create \/ Dispatch
  BY <1>1, <1>13 DEF Create, Dispatch, Places
<1> QED
  BY <1>5, <1>6, <1>7, <1>8, <1>9, <1>10, <1>11, <1>12, <1>13 DEF TickStep

\* A claimed fire is one of a job of the instance, for a time that was given.
LEMMA ClaimedTyped ==
    ASSUME Times, Claim
    PROVE  fires' \in FireRows(Jobs, 1 .. moment')
<1>0. /\ moment \in Nat /\ moment' \in Nat /\ moment <= moment'
      /\ fires \in Seq([job : Jobs, key : 1 .. moment, status : FireStatus])
  BY DEF Times, Claim, FireRows
<1>1. [job : Jobs, key : 1 .. moment, status : FireStatus] \subseteq [job : Jobs, key : 1 .. moment', status : FireStatus]
  BY <1>0
<1>2. fires \in Seq([job : Jobs, key : 1 .. moment', status : FireStatus])
  BY <1>0, <1>1, Widens
<1>3. PICK d \in tick.jobs :
         LET at == IF d[2] = 0 THEN moment + 1 ELSE d[2] IN
         /\ moment' = IF d[2] = 0 THEN moment + 1 ELSE moment
         /\ \/ UNCHANGED fires
            \/ fires' = Append(fires, [job |-> Listed[d[1]], key |-> at, status |-> "claimed"])
  BY DEF Claim
<1> DEFINE at == IF d[2] = 0 THEN moment + 1 ELSE d[2]
<1>4. Listed[d[1]] \in Jobs /\ d[2] \in 0 .. moment
  BY ListedAssumption DEF Times
<1>5. at \in 1 .. moment'
  BY <1>0, <1>3, <1>4
<1>6. PICK e \in [job : Jobs, key : 1 .. moment', status : FireStatus] :
         e = [job |-> Listed[d[1]], key |-> at, status |-> "claimed"]
  BY <1>4, <1>5 DEF FireStatus
<1>7. CASE UNCHANGED fires
  BY <1>2, <1>7 DEF FireRows
<1>8. CASE fires' = Append(fires, e)
  BY <1>2, <1>8, AppendProperties DEF FireRows
<1> QED
  BY <1>3, <1>6, <1>7, <1>8

LEMMA TimesNext ==
    ASSUME Inv, Times, [Next]_vars
    PROVE  Times'
<1>1. Goes /\ moment \in Nat /\ moment' \in Nat /\ moment <= moment'
  BY NextGoes DEF Goes, Times
<1>2. tick'.at \in Places /\ tick'.jobs \subseteq (DOMAIN Listed) \X (0 .. moment')
  <2>1. (DOMAIN Listed) \X (0 .. moment) \subseteq (DOMAIN Listed) \X (0 .. moment')
    BY <1>1
  <2>2. CASE TickStep
    BY <2>1, <2>2, TickAt DEF Times
  <2>3. CASE tick' = tick
    BY <2>1, <2>3 DEF Times
  <2>4. CASE tick' = NoTick
    BY <2>4 DEF NoTick, Places
  <2> QED
    BY <2>2, <2>3, <2>4 DEF Next, WorkStep, Ends, Ages, Trigger, Toggle, ComesDue, Save, Hook, Archive, Crash, memory,
                            vars
<1>3. fires' \in FireRows(Jobs, 1 .. moment')
  <2>1. CASE Claim
    BY <2>1, ClaimedTyped
  <2>2. CASE SameFires
    <3>1. fires' \in FireRows(Jobs, 1 .. moment)
      BY <2>2 DEF SameFires, Times
    <3>2. [job : Jobs, key : 1 .. moment, status : FireStatus] \subseteq [job : Jobs, key : 1 .. moment', status : FireStatus]
      BY <1>1
    <3> QED
      BY <3>1, <3>2, Widens DEF FireRows
  <2> QED
    BY <2>1, <2>2, FiresGo
<1> QED
  BY <1>1, <1>2, <1>3 DEF Times, Goes

\* What happens outside is counted up to its bound.
LEMMA CountsNext ==
    ASSUME Counts, [Next]_vars
    PROVE  Counts'
<1>1. CASE UNCHANGED asked
  BY <1>1 DEF Counts
<1>2. ASSUME NEW k \in DOMAIN Limits, Happens(k)
      PROVE  Counts'
  <2>1. Limits[k] \in Nat /\ asked[k] \in Nat /\ asked[k] < Limits[k]
    BY <1>2, BoundsAssumption DEF Limits, Counts, Happens
  <2> QED
    BY <1>2, <2>1 DEF Counts, Happens
<1>3. "events" \in DOMAIN Limits /\ "crashes" \in DOMAIN Limits
  BY DEF Limits
<1> QED
  BY <1>1, <1>2, <1>3 DEF Next, TickStep, TickStart, Recover, Settle, Restart, ListDue, Block, Claim, Advance, Create,
                          Dispatch, Start, WorkStep, Ends, Ages, Trigger, Toggle, ComesDue, Save, Hook, Archive, Crash, vars

LEMMA TypesInit == Init => Times /\ Counts
<1> SUFFICES ASSUME Init PROVE Times /\ Counts
  OBVIOUS
<1>1. Times
  <2>1. fires \in FireRows(Jobs, 1 .. moment)
    BY DEF Init, FireRows
  <2> QED
    BY <2>1 DEF Init, Times, JobRow, NoTick, Places
<1>2. Counts
  BY BoundsAssumption DEF Init, Counts, Limits
<1> QED
  BY <1>1, <1>2

\* The times of jobs and fires are among those that were given, every fire is of a job of the
\* instance, every task of a fire that exists or of none, and a tick goes by places of the store
\* and times it read there, also when jobs are rescheduled, switched off or archived while it
\* looks at them (schedulerRunner.ts: processDueJobs, recoverScheduledFires).
THEOREM TypeCorrect == Spec => []TypeOK
<1>1. Inv /\ Times /\ [Next]_vars => Times'
  BY TimesNext
<1>2. Counts /\ [Next]_vars => Counts'
  BY CountsNext
<1>3. Init => OneRunner
  BY RunnerInit
<1>4. Inv /\ OneRunner /\ [Next]_vars => OneRunner'
  BY RunnerNext
<1>5. Inv /\ Times /\ Counts /\ OneRunner => TypeOK
  <2> SUFFICES ASSUME Inv, Times, Counts, OneRunner PROVE TypeOK
    OBVIOUS
  <2>1. tasks \in TaskRows /\ tick.fires \subseteq DOMAIN fires /\ tick.fire \in 0 .. Len(fires)
    BY DEF Inv, Typing
  <2>2. \A k \in DOMAIN Limits : asked[k] \in 0 .. Limits[k]
    BY BoundsAssumption DEF Counts, Limits
  <2>3. job \in [Jobs -> [active : BOOLEAN, next : 0 .. moment, late : BOOLEAN]]
    BY DEF Times, JobRow
  <2> QED
    BY <2>1, <2>2, <2>3 DEF Times, OneRunner, TypeOK, TaskRows, FireRows, TaskStatus, FireStatus, Places
<1> QED
  BY <1>1, <1>2, <1>3, <1>4, <1>5, TypesInit, Invariance, PTL DEF Spec
=============================================================================
