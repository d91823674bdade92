--------------------------- MODULE ScheduledFires ---------------------------
(***************************************************************************)
(* Scheduled jobs and background tasks: how the tick of the scheduler      *)
(* recovers what an earlier server left, claims a fire of each due job and *)
(* makes it a task, and how the task runner executes a task and marks its  *)
(* fire, while users trigger tasks, switch jobs on and off, save the       *)
(* configuration of the instance or archive it, and the server dies.       *)
(*                                                                         *)
(* One instance, one server.  The store outlives the server; the tick and  *)
(* the runners at work do not.  The steps of a tick are what it does       *)
(* between two writes, so that a crash may fall between any two of them.   *)
(***************************************************************************)
EXTENDS Integers, Sequences, FiniteSets

CONSTANTS
    Jobs,        \* the scheduled jobs of the instance
    Listed,      \* the order in which the store lists them: a sequence
    Bad,         \* jobs whose cron expression cannot be parsed
    Page,        \* fires and jobs one tick looks at: 20 in the code
    MaxEvents,   \* bound: what users and webhooks do, and times that come
    MaxCrashes   \* bound: how often the server dies

ASSUME ListedAssumption == /\ \A j \in Jobs : \E i \in DOMAIN Listed : Listed[i] = j
                           /\ Listed \in Seq(Jobs)
ASSUME BadAssumption == Bad \subseteq Jobs
ASSUME PageAssumption == Page \in Nat \ {0}
ASSUME BoundsAssumption == {MaxEvents, MaxCrashes} \subseteq Nat

VARIABLES
    job,     \* the jobs: is_active, next_run_at by number (0: null), and whether that time has come
    fires,   \* the fires, in the order of the store: job, fire_at, status
    tasks,   \* the tasks, in the order of the store: fire (0: none), status, and whether updated_at is recent
    ready,   \* whether the workflow of the instance has the configuration it needs
    live,    \* the runners at work on each task
    tick,    \* where the tick is: the fires it read, the due jobs by their places with the time of
             \* each when it read them, the fire in hand
    moment,  \* the latest time given to a job
    asked    \* how often each thing of the outside has happened

store  == <<job, fires, tasks, ready, moment>>
memory == <<live, tick>>
vars   == <<job, fires, tasks, ready, moment, live, tick, asked>>

NoTick == [at |-> "idle", fires |-> {}, jobs |-> {}, fire |-> 0]
Limits == [events |-> MaxEvents, crashes |-> MaxCrashes]

\* The jobs were made with the instance, and their first time has come.
Init ==
    /\ job = [j \in Jobs |-> [active |-> TRUE, next |-> 1, late |-> TRUE]]
    /\ fires = <<>> /\ tasks = <<>> /\ ready = TRUE /\ moment = 1
    /\ live = <<>> /\ tick = NoTick
    /\ asked = [k \in DOMAIN Limits |-> 0]

Happens(k) == asked[k] < Limits[k] /\ asked' = [asked EXCEPT ![k] = @ + 1]

-----------------------------------------------------------------------------
(* What the store answers.                                                 *)

\* The first page of what has the numbers S, in the order of the store.
FirstPage(S) == {n \in S : Cardinality({m \in S : m < n}) < Page}

Unfinished == {f \in DOMAIN fires : fires[f].status \in {"claimed", "dispatched"}}

\* Mutant: a fire that was dispatched is not looked at again.
RecoverableClaimed == {f \in DOMAIN fires : fires[f].status = "claimed"}

Recoverable == FirstPage(Unfinished)

Due(j)  == job[j].active /\ (job[j].next = 0 \/ job[j].late)
DueJobs == FirstPage({n \in DOMAIN Listed : Due(Listed[n])})

\* The task of a fire, 0 when it has none: the first the store finds.
TasksOf(f) == {t \in DOMAIN tasks : tasks[t].fire = f}
TaskOf(f)  == IF TasksOf(f) = {} THEN 0 ELSE CHOOSE t \in TasksOf(f) : \A u \in TasksOf(f) : t <= u

Claims(j, at) == \E f \in DOMAIN fires : fires[f].job = j /\ fires[f].key = at

NewTask(f, s) == [fire |-> f, status |-> s, fresh |-> TRUE]
Creates(f) == tasks' = Append(tasks, NewTask(f, "queued")) /\ live' = Append(live, 0)
Marks(f, s) == fires' = [fires EXCEPT ![f].status = s]

-----------------------------------------------------------------------------
(* The task runner, executeTaskInBackground: it reads the task and decides *)
(* without waiting, then works.                                            *)

\* The task is written, and then its fire.
Tells(t, s) == fires' = IF tasks[t].fire = 0 THEN fires ELSE [fires EXCEPT ![tasks[t].fire].status = s]

MayStart(t) == \/ tasks[t].status = "queued"
               \/ tasks[t].status = "processing" /\ ~tasks[t].fresh

\* What becomes of task t, of row tasks[t] with the status s it is executed with.
Executes(t, s) ==
    \/ s = "success" /\ Tells(t, "completed") /\ UNCHANGED <<tasks, live>>
    \/ s \in {"failed", "config_required"} /\ Tells(t, "failed") /\ UNCHANGED <<tasks, live>>
    \/ s = "processing" /\ ~MayStart(t) /\ UNCHANGED <<tasks, live, fires>>
    \/ /\ s = "queued" \/ MayStart(t)
       /\ \/ /\ ready
             /\ tasks' = [tasks EXCEPT ![t].status = "processing", ![t].fresh = TRUE]
             /\ live' = [live EXCEPT ![t] = @ + 1]
             /\ UNCHANGED fires
          \/ /\ ~ready
             /\ tasks' = [tasks EXCEPT ![t].status = "config_required", ![t].fresh = TRUE]
             /\ Tells(t, "failed") /\ UNCHANGED live

\* What the fire is told of a task that ended with status s.
Verdict(s) == IF s = "success" THEN "completed" ELSE "failed"

\* The runner answers, or fails: at its own time limit at the latest.
Ends(t, s) ==
    /\ live[t] > 0
    /\ live' = [live EXCEPT ![t] = @ - 1]
    /\ tasks' = [tasks EXCEPT ![t].status = s]
    /\ Tells(t, Verdict(s))
    /\ UNCHANGED <<job, ready, moment, tick, asked>>

-----------------------------------------------------------------------------
(* The tick, part one: the fires an earlier tick or server left behind.    *)

TickStart ==
    /\ tick.at = "idle"
    /\ tick' = [tick EXCEPT !.at = "recover", !.fires = Recoverable]
    /\ UNCHANGED <<store, live, asked>>

\* The fire in hand: the first that is left.
TakesUp(f) ==
    /\ tick.at = "recover" /\ f \in tick.fires /\ \A g \in tick.fires : f <= g
    /\ tick' = [tick EXCEPT !.at = "settle", !.fire = f]

\* Mutant: the task of a fire is made without looking for the one it has.
RecoverBlindly ==
    /\ \E f \in tick.fires : TakesUp(f) /\ Creates(f)
    /\ UNCHANGED <<job, fires, ready, moment, asked>>

Recover ==
    /\ \E f \in tick.fires :
         /\ TakesUp(f)
         /\ \/ TasksOf(f) = {} /\ Creates(f)
            \/ TasksOf(f) # {} /\ UNCHANGED <<tasks, live>>
    /\ UNCHANGED <<job, fires, ready, moment, asked>>

NextFire == [tick EXCEPT !.at = "recover", !.fires = @ \ {tick.fire}, !.fire = 0]

Settle ==
    /\ tick.at = "settle"
    /\ LET s == tasks[TaskOf(tick.fire)].status
       IN  \/ s = "success" /\ Marks(tick.fire, "completed") /\ tick' = NextFire
           \/ s \in {"failed", "config_required"} /\ Marks(tick.fire, "failed") /\ tick' = NextFire
           \/ /\ s \in {"queued", "processing"} /\ Marks(tick.fire, "dispatched")
              /\ tick' = [tick EXCEPT !.at = "restart"]
    /\ UNCHANGED <<job, tasks, ready, moment, live, asked>>

Restart ==
    /\ tick.at = "restart"
    /\ Executes(TaskOf(tick.fire), tasks[TaskOf(tick.fire)].status)
    /\ tick' = NextFire
    /\ UNCHANGED <<job, ready, moment, asked>>

-----------------------------------------------------------------------------
(* The tick, part two: the due jobs, on the rows read when they were       *)
(* listed.                                                                 *)

ListDue ==
    /\ tick.at = "recover" /\ tick.fires = {}
    /\ tick' = IF DueJobs = {} THEN NoTick
               ELSE [NoTick EXCEPT !.at = "jobs", !.jobs = {<<n, job[Listed[n]].next>> : n \in DueJobs}]
    /\ UNCHANGED <<store, live, asked>>

\* The job in hand: the first that is left.
InHand(d) == d \in tick.jobs /\ \A e \in tick.jobs : d[1] <= e[1]
NextJob(d) == IF tick.jobs = {d} THEN NoTick
              ELSE [tick EXCEPT !.at = "jobs", !.jobs = @ \ {d}, !.fire = 0]

\* The job is switched off when the instance is not configured.
Block ==
    /\ tick.at = "jobs" /\ ~ready
    /\ \E d \in tick.jobs :
         /\ InHand(d)
         /\ job' = [job EXCEPT ![Listed[d[1]]].active = FALSE]
         /\ tick' = NextJob(d)
    /\ UNCHANGED <<fires, tasks, ready, moment, live, asked>>

\* Mutant: a fire is claimed whether there is one or not.
ClaimAlways ==
    /\ tick.at = "jobs" /\ ready
    /\ \E d \in tick.jobs :
       LET j == Listed[d[1]]  n == d[2]
           at == IF n = 0 THEN moment + 1 ELSE n
       IN  /\ InHand(d)
           /\ moment' = IF n = 0 THEN moment + 1 ELSE moment
           /\ fires' = Append(fires, [job |-> j, key |-> at, status |-> "claimed"])
           /\ tick' = [tick EXCEPT !.at = "advance", !.fire = Len(fires) + 1]
    /\ UNCHANGED <<job, tasks, ready, live, asked>>

\* claimScheduledFire: one fire for a job and a time.  A job without a time is claimed for this very moment.
Claim ==
    /\ tick.at = "jobs" /\ ready
    /\ \E d \in tick.jobs :
       LET j == Listed[d[1]]  n == d[2]
           at == IF n = 0 THEN moment + 1 ELSE n
       IN  /\ InHand(d)
           /\ moment' = IF n = 0 THEN moment + 1 ELSE moment
           /\ \/ /\ Claims(j, at)
                 /\ tick' = [tick EXCEPT !.at = "advance", !.fire = 0]
                 /\ UNCHANGED fires
              \/ /\ ~Claims(j, at)
                 /\ fires' = Append(fires, [job |-> j, key |-> at, status |-> "claimed"])
                 /\ tick' = [tick EXCEPT !.at = "advance", !.fire = Len(fires) + 1]
    /\ UNCHANGED <<job, tasks, ready, live, asked>>

\* Mutant: a bad expression ends the tick.
AdvanceOrStop ==
    /\ tick.at = "advance"
    /\ \E d \in tick.jobs :
       LET j == Listed[d[1]]
       IN  /\ InHand(d)
           /\ \/ /\ j \in Bad
                 /\ tick' = NoTick
                 /\ UNCHANGED <<job, moment>>
              \/ /\ j \notin Bad
                 /\ job' = [job EXCEPT ![j].next = moment + 1, ![j].late = FALSE]
                 /\ moment' = moment + 1
                 /\ tick' = IF tick.fire = 0 THEN NextJob(d) ELSE [tick EXCEPT !.at = "create"]
    /\ UNCHANGED <<fires, tasks, ready, live, asked>>

\* The cron expression is parsed after the claim.  A bad one is caught: the next job is looked at.
Advance ==
    /\ tick.at = "advance"
    /\ \E d \in tick.jobs :
       LET j == Listed[d[1]]
       IN  /\ InHand(d)
           /\ \/ /\ j \in Bad
                 /\ tick' = NextJob(d)
                 /\ UNCHANGED <<job, moment>>
              \/ /\ j \notin Bad
                 /\ job' = [job EXCEPT ![j].next = moment + 1, ![j].late = FALSE]
                 /\ moment' = moment + 1
                 /\ tick' = IF tick.fire = 0 THEN NextJob(d) ELSE [tick EXCEPT !.at = "create"]
    /\ UNCHANGED <<fires, tasks, ready, live, asked>>

Create ==
    /\ tick.at = "create"
    /\ Creates(tick.fire)
    /\ tick' = [tick EXCEPT !.at = "dispatch"]
    /\ UNCHANGED <<job, fires, ready, moment, asked>>

Dispatch ==
    /\ tick.at = "dispatch"
    /\ Marks(tick.fire, "dispatched")
    /\ tick' = [tick EXCEPT !.at = "start"]
    /\ UNCHANGED <<job, tasks, ready, moment, live, asked>>

Start ==
    /\ tick.at = "start"
    /\ Executes(TaskOf(tick.fire), tasks[TaskOf(tick.fire)].status)
    /\ \E d \in tick.jobs : InHand(d) /\ tick' = NextJob(d)
    /\ UNCHANGED <<job, ready, moment, asked>>

-----------------------------------------------------------------------------
(* Users, webhooks, time and the death of the server.                      *)

\* A user runs a task now: one that waits for the configuration is queued again first.
Trigger(t) ==
    /\ Happens("events")
    /\ ready /\ tasks[t].status # "success"
    /\ tasks[t].status = "processing" => ~tasks[t].fresh
    /\ Executes(t, IF tasks[t].status = "config_required" THEN "queued" ELSE tasks[t].status)
    /\ UNCHANGED <<job, ready, moment, tick>>

\* A webhook, or a user with a task of its own: no fire stands behind the task.
\* Bound: before the scheduler makes a task.
Hook ==
    /\ Happens("events") /\ ready /\ tasks = <<>>
    /\ tasks' = Append(tasks, NewTask(0, "processing"))
    /\ live' = Append(live, 1)
    /\ UNCHANGED <<job, fires, ready, moment, tick>>

\* Bound: a bad job without a time, which claims a fire at every tick, is not switched on.
Toggle(j) ==
    /\ Happens("events")
    /\ \/ job[j].active
       \/ ready /\ (job[j].next = 0 => j \notin Bad)
    /\ job' = [job EXCEPT ![j].active = ~@]
    /\ UNCHANGED <<fires, tasks, ready, moment, memory>>

\* Mutant: tasks that have ended are queued again.
WaitingOrEnded == {"queued", "config_required", "success", "failed"}

Waiting == {"queued", "config_required"}

\* Mutant: the task is given the state of the readiness.
RefreshedState(r) == IF r THEN "ready" ELSE "config_required"

Refreshed(r) == IF r THEN "queued" ELSE "config_required"

\* refreshInstanceWorkflowReadiness after a configuration is saved: every job follows the readiness,
\* and so does every task that has neither ended nor begun.
Save(r) ==
    /\ Happens("events")
    /\ ready' = r
    /\ tasks' = [t \in DOMAIN tasks |->
                   IF tasks[t].status \in Waiting
                   THEN [tasks[t] EXCEPT !.status = Refreshed(r)]
                   ELSE tasks[t]]
    /\ job' = [j \in Jobs |->
                 IF r /\ job[j].next = 0 THEN [active |-> TRUE, next |-> moment + 1, late |-> FALSE]
                 ELSE [job[j] EXCEPT !.active = r]]
    /\ moment' = IF r /\ \E j \in Jobs : job[j].next = 0 THEN moment + 1 ELSE moment
    /\ UNCHANGED <<fires, memory>>

\* The cleanup of an instance that is archived or deleted: its row stays.
Archive ==
    /\ Happens("events")
    /\ job' = [j \in Jobs |-> [active |-> FALSE, next |-> 0, late |-> FALSE]]
    /\ UNCHANGED <<fires, tasks, ready, moment, memory>>

ComesDue(j) ==
    /\ Happens("events")
    /\ job[j].next # 0 /\ ~job[j].late
    /\ job' = [job EXCEPT ![j].late = TRUE]
    /\ UNCHANGED <<fires, tasks, ready, moment, memory>>

\* Ten minutes without an update.  A runner at work ends before: its one call of the model has 80 seconds.
Ages(t) ==
    /\ tasks[t].status = "processing" /\ tasks[t].fresh /\ live[t] = 0
    /\ tasks' = [tasks EXCEPT ![t].fresh = FALSE]
    /\ UNCHANGED <<job, fires, ready, moment, memory, asked>>

\* The server dies: at rest, between the end of a task and the mark on its fire, or when the runner has
\* begun a task that is not ready, or has put it back, and its fire is not marked yet.
Crash ==
    /\ Happens("crashes")
    /\ live' = [t \in DOMAIN live |-> 0] /\ tick' = NoTick
    /\ \/ UNCHANGED tasks
       \/ \E t \in DOMAIN tasks, s \in {"success", "failed"} :
            live[t] > 0 /\ tasks' = [tasks EXCEPT ![t].status = s]
       \/ /\ tick.at \in {"restart", "start"} /\ MayStart(TaskOf(tick.fire)) /\ ~ready
          /\ \E s \in {"processing", "config_required"} :
               tasks' = [tasks EXCEPT ![TaskOf(tick.fire)].status = s, ![TaskOf(tick.fire)].fresh = TRUE]
    /\ UNCHANGED <<job, fires, ready, moment>>

TickStep == \/ TickStart \/ Recover \/ Settle \/ Restart \/ ListDue
            \/ Block \/ Claim \/ Advance \/ Create \/ Dispatch \/ Start

\* What goes on without the tick: a runner ends by its time limit, ten minutes pass.
WorkStep == \E t \in DOMAIN tasks : (\E s \in {"success", "failed"} : Ends(t, s)) \/ Ages(t)

Next ==
    \/ TickStep
    \/ WorkStep
    \/ \E t \in DOMAIN tasks : Trigger(t)
    \/ \E j \in Jobs : Toggle(j) \/ ComesDue(j)
    \/ \E r \in BOOLEAN : Save(r)
    \/ Hook \/ Archive \/ Crash

Spec == Init /\ [][Next]_vars

\* The timer ticks again and again.
FairSpec == Spec /\ []<><<TickStep>>_vars /\ WF_vars(WorkStep)

-----------------------------------------------------------------------------
(* Properties.                                                             *)

TypeOK ==
    /\ job \in [Jobs -> [active : BOOLEAN, next : 0 .. moment, late : BOOLEAN]]
    /\ fires \in Seq([job : Jobs, key : 1 .. moment,
                      status : {"claimed", "dispatched", "completed", "failed"}])
    /\ tasks \in Seq([fire : 0 .. Len(fires), fresh : BOOLEAN,
                      status : {"queued", "processing", "config_required", "success", "failed"}])
    /\ ready \in BOOLEAN /\ moment \in Nat
    /\ live \in Seq(Nat) /\ Len(live) = Len(tasks)
    /\ tick.at \in {"idle", "recover", "settle", "restart", "jobs", "advance", "create", "dispatch", "start"}
    /\ tick.fires \subseteq DOMAIN fires /\ tick.jobs \subseteq (DOMAIN Listed) \X (0 .. moment)
    /\ tick.fire \in 0 .. Len(fires)
    /\ \A k \in DOMAIN Limits : asked[k] \in 0 .. Limits[k]

\* A fire is worked off by one task, however often the server dies between the claim, the task and
\* the mark, and however often it is recovered ("without creating duplicates", schedulerFireRecovery test).
OneTaskPerFire ==
    \A t, u \in DOMAIN tasks : tasks[t].fire = tasks[u].fire /\ tasks[t].fire # 0 => t = u

\* A time of a job is fired once ("dispatches due jobs once"): also when the server dies after the
\* claim and before the job is given its next time, and the job is found due once more.
OneFirePerTime ==
    \A f, g \in DOMAIN fires : fires[f].job = fires[g].job /\ fires[f].key = fires[g].key => f = g

\* The result of a task that succeeded is not overwritten: not by a late execution, a recovery,
\* a trigger or a saved configuration.
SuccessIsKept ==
    [][\A t \in DOMAIN tasks : tasks[t].status = "success" => tasks'[t].status = "success"]_vars

\* Every fire that was claimed ends completed or failed, also when the server dies in the middle.
FireSettles ==
    \A f \in 1 .. (Len(Listed) + MaxEvents + MaxCrashes) :
        (f \in DOMAIN fires /\ fires[f].status \in {"claimed", "dispatched"})
            ~> (f \in DOMAIN fires /\ fires[f].status \in {"completed", "failed"})

\* A job that is due is fired, or switched off: the bad jobs of the same page do not hold it up.
DueJobIsServed == \A j \in Jobs \ Bad : Due(j) ~> ~Due(j)

=============================================================================
