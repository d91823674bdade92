# A TLA+ model of MyBay

MyBay is a control plane for AI agents. A user creates *instances* (an agent runtime in
containers), talks to them through the web chat or a messaging channel, schedules work
for them, and upgrades, archives and deletes them. The server is one Node process with
a SQLite store; nothing but that store survives a restart, and the agent runtimes go on
running while it is down. What is hard about it is what happens between two awaits:
leases that expire under a handler, requests that are carried out after their caller
gave up, crashes between two writes, and several paths that may each end the same thing.

This directory models those parts in TLA+, checks the models with TLC on small instances,
and proves the main safety properties for all instances with TLAPS.

## 1. The system

| Component | State | Operations | Modelled in |
|---|---|---|---|
| Chat run service (`runsReconciler.ts`, `services/runs/*`, `chatRepo.ts`, `runs.routes.ts`) | `chatRuns` rows with a lease, conversations and their runtime session | accept, claim, dispatch, resubmit, rebind, probe, stop, terminalize | `RunLifecycle`, `ChatRuns` |
| Reconcile scheduler (`runReconcileScheduler.ts`) | active handlers, the cycle in flight, pending wake-ups | start, cycle, targeted wake, renewal, stop | `ChatRuns` (wake coalescing: planned) |
| Run events and SSE (`NormalizedRunEvents.ts`, `runEvents.routes.ts`) | event cache, sequence numbers, partial output, client lists | stream, persist progress, replay, terminal event | terminal events in `ChatRuns`; the cache: planned |
| Managed channels (`managedChannelRuns.ts`, `managedFeishuWorker.ts`) | `channelMessages` with a lease and a run identity | receive, begin run, deliver | begin run in `ChatRuns` |
| Deployment queue (`deployWorker.ts`, `localStore.ts`) | `deploymentTasksCore`, port reservations, instance status | provision, claim, renew, progress, cancel, port retry, watchdog, exhaust | `DeployQueue` |
| Cleanup (`instanceCleanup.ts`) | `cleanupTasks` | claim, clean, retry, finish | `DeployQueue` |
| Scheduler (`schedulerRunner.ts`, `scheduledFiresRepo.ts`) | jobs with `next_run_at`, fires | tick, claim a fire, recover, switch, trigger | `ScheduledFires` |
| Task runner (`taskRunner.ts`) | tasks | execute in background, recover stale | `ScheduledFires` |
| Codex bridge (`runtime/codex-bridge`) | runs, tombstones, sessions, a queue, `state.json` | submit, dispatch, stop, approve, answer native requests, restart | `CodexBridge` |
| Pi bridge (`runtime/pi-bridge`) | runs, sessions | submit, interrupt, restart | external in `ChatRuns`; later |
| Instance reconciler, lifecycle routes (`reconciler.ts`, `lifecycle.routes.ts`, `actions.routes.ts`) | instance status and desired state, operation coordinator | delete, archive, reconcile, start, stop, redeploy | delete, archive and reconciling in `DeployQueue`; stop, redeploy and reconciling in `Upgrades` |
| Upgrades (`upgradeManager.ts`, `versions.routes.ts`) | `upgrade_status`, tags, containers with backups, `activeUpgrades` | upgrade, upgrade in bulk, roll back | `Upgrades` |
| A2A networks, question bridge of the server | task links, questions | cancel a group, ask and answer | later |
| Store (`localStore.ts`) | SQLite | IMMEDIATE transactions | the grain of atomicity of every model |
| Health checks, auth, credentials, quotas, configuration writers, templates, proxy, frontend, scripts | | | not modelled: sequential code, text generation or I/O |

**How they interact.** A chat request or a channel message inserts a run in the store and
wakes the scheduler of its process. The scheduler's cycle and its targeted handlers claim
runs under a lease and call the runtime over HTTP, opening an event stream when the runtime
accepts. The stream, a probe of the cycle, and stop recovery all conclude runs through
`finishChatRun`. Instances come from the deployment queue: a route inserts a task and
reserves a port in one transaction, the worker claims the task, runs docker steps that ask
the store at five points whether they may go on, and compensates when they may not. Deleting
an instance cancels its deployments and queues a cleanup. Scheduled jobs create fires and
tasks, and the task runner executes them in the background. Upgrades exchange the container of an
instance under a lease they share with the other operations on it, which the reconciler does not
take. An instance with the Codex runtime has a bridge in its container, which is the runtime
`ChatRuns` sends its runs to.

**What makes each correct.** A run has one answer, and that of its own execution; a stop is
never forgotten; no run stays active for ever. A deployment task ends once, a deleted
instance leaves no containers and no port behind. A fire creates one task, and a job that is
due fires. An upgrade that fails gives back what it found. A run of a bridge is dispatched once, ends
once and by its own turn, and no request of a turn is left without an answer. An event stream shown
to a client has no gap and ends.

## 2. Plan

1. `RunLifecycle` (what users see of a run) and `ChatRuns` (the service), the refinement
   between them, and the proofs `ChatRuns_proofs`. *Done.*
2. `DeployQueue`: deployment and cleanup tasks, ports, the instance's status, containers,
   the reconciler, and the theorems of `DeployQueue_proofs`. *Done.*
3. `ScheduledFires`: scheduler tick, recovery, background tasks, and the theorems of
   `ScheduledFires_proofs`. *Done*, for one instance.
4. `Upgrades`: upgrades and rollbacks beside users and the reconciler, and the theorems of
   `Upgrades_proofs` and `UpgradeService_proofs`. *Done.*
5. `CodexBridge`: the bridge's queue, dispatch and restarts, the theorems of
   `CodexBridge_proofs`, `CodexTurns_proofs` and `CodexRecords_proofs`, and the refinement of
   `AgentRuntime`, which says what a runtime promises. *Done.*
6. `RunEvents`: event cache, replay and clients of one run, with the streams of the bridge.
7. The other half of the composition of `ChatRuns` with `CodexBridge`: that what `ChatRuns` assumes of
   a runtime follows from `AgentRuntime` (one execution per key, final states).
8. `ReconcileScheduler`: wake-ups are not lost by coalescing; a refinement of the scheduler
   part of `ChatRuns`.
9. Message leases of the Feishu worker, A2A group cancellation, the question bridge of the
   server, the Pi bridge.

Every invariant and every action property of the runs is a theorem, for every value of the
constants. What is only model-checked are the nine liveness properties. A module that is proved about selects from an order by
its places or by a relation, never with `SelectSeq`, whose recursive definition the provers cannot
expand.

## 3. The chat run service

### 3.1 `RunLifecycle`

The abstract specification: a run is accepted, may be bound to one execution, may be asked
to stop, and is concluded once with one answer that says how it ended, or is removed with its
conversation. A stop that was asked for is not undone, a binding does not change, and an end is final.

### 3.2 `ChatRuns`

| State | In the code |
|---|---|
| `run[r]` | the row of `chatRuns`: `status`, `reconcile_owner` (`owner`), an unexpired `lease_until` (`live`), `dispatch_attempts`, `stop_attempts`, `stop_accepted_at` (`accepted`), `stop_requested_at` older than 300 s (`stopAged`), `upstream_run_id`, and the assistant messages it got (`answers`) |
| `job[j]` | one handler at work on one run: its place (`pc`), the row it read (`seen`), what it decided (`verdict`) |
| `streams` | event streams open in a process |
| `up`, `posts`, `stale` | the runtime: executions by idempotency key, submissions under way, lost sessions |
| `started`, `alive` | processes; a restart is a new process, as `RECONCILER_ID` is drawn at boot |
| `overdue` | runs older than the longest runtime |

A *job* is one of the two ways a process works on a run: the periodic cycle, which handles
the runs it claimed, and the targeted handler of a new run. Both use the same owner
identity, so the lease does not keep them apart; their rows do. A step of a job is what the
code does between two awaits, with at most one transaction of the store. `seen` is the row
as it was read: the code keeps using it after later awaits, and so does the model.

`Dispatch` groups the steps for a queued run (`processSingleRun`, 613-1009), `Observe` those
for a running one (1010-1189), `RecoverStop` those for a stopping one (`runStopRecovery.ts`).
Every terminal path ends in `Finished`, in its three forms: unfenced (the request that could
not be started), by the owner (`completeRun`), and by the execution (event streams and
probes). A runtime's answer is chosen by the runtime's state: accepted, refused, refused for
its session (`SubmitStale`), malformed, or none at all (`SubmitTransient`), and a submission
that was not answered may be carried out later, or never.

Abstractions, each conservative unless it says that something is left out:

- time is three facts: a lease expired, a stop is 300 s old, a run is too old. A lease may
  expire under a job at work (`StalledLeaseExpires`), at most `MaxStalls` times;
- counters that are only compared with a limit saturate there;
- the session a run uses is part of the key it was sent under: `main`, or `rebind` after a
  new session was bound;
- a lost request is one that is never delivered; a session runs one execution at a time
  (the bridges answer 409);
- Codex and Pi name runs by identifiers of their own, so a search by ours never finds one:
  `ListsRuns = FALSE`;
- a shutdown of the scheduler is a crash: both leave leases to expire;
- branches that no state reaches are left out: the dispatch of a queued run that has an
  execution (999-1009) and the repair of a running run without one (1011-1019).
  `BoundWhenRunning`, checked and proved, is what justifies it;
- a claim takes every claimable run, while the code takes the 10 to 50 oldest; partial
  output, events' sequence numbers, approvals, attachments and workflow follow-ups are left out.

### 3.3 Runs

| Run | Question | Bounds |
|---|---|---|
| `chat_dispatch` | May the cycle and the targeted handler of one process work on the same run at once, however its execution completes? `TypeOK`, `AttemptWrittenAhead`, `AnswerOfTheBoundExecution` | one run, one process, two attempts, completions (verified, empty, leaked), batch mode, rebind, deletion, no stop |
| `chat_takeover` | What if the lease moves to another process in the middle of any step? `OneAnswer`, `EndedRunsAreUnowned`, `BoundWhenRunning`, `ImplementsLifecycle` | one run, two processes (symmetric), a crash, one stop, one stall, no resubmission |
| `chat_instance` | Can an instance have two active runs? `OneActivePerInstance` | two runs of one instance, one from a channel, one process, deletion |
| `chat_live` | Does every run end? `RunSettles` | two processes, a crash, a stop, an inert runtime |

Two attempts and one resubmission (in `chat_dispatch`) are enough to pass through every branch that compares a
counter with its limit on both sides; one run is enough where properties speak of one row,
since jobs of different runs share nothing but the process; two processes are enough for a
takeover, since a third one can do nothing the second cannot. `MaxClicks` and `MaxStalls`
bound users and stalled leases, which the code does not. Deadlock is not checked: a service
without work stops.

Seen in the code and part of the model, without a run of its own:

- Stop recovery returns on any terminal state of the execution before it looks at the window
  (`runStopRecovery.ts:112`), and a completion with empty output is terminal without ending the run.
  Such a run stays `stopping` and is polled for ever, although the comment at line 101 speaks of
  polling within the time window. `chat_live` leaves that outcome out, and there every run ends.
- A crash after the new session is bound (`runsReconciler.ts:896`) and before the execution is
  recorded makes the next process send the run again under its first key, in the new session: a
  second execution, although `managedChannelRuns.ts:28` says that crash recovery never starts "a
  fresh model operation".
- The submission under the rebind key (`runsReconciler.ts:884`) follows two awaits without another
  look at the lease, so an expired lease may authorize work there, against the comment at line 103.

### 3.4 Fairness

`FairSpec` assumes that the scheduler of a live process starts, that its interval starts
cycles, that the next callback of a job comes (every request has a timeout), and that time
passes (an abandoned lease, a stop and a run grow old). Nothing is assumed of users, crashes,
lease renewals, event streams or the runtime: a run ends although the runtime never answers.

### 3.5 Proofs

`ChatRuns_proofs` proves, for any sets of runs and processes and any limits, type correctness,
`OneAnswer`, `EndedRunsAreUnowned`, `BoundWhenRunning`, `OneActivePerInstance`,
`AttemptWrittenAhead`, `AnswerOfTheBoundExecution` and that `ChatRuns` implements `RunLifecycle`. The assumptions are those of the module: the limits are
positive, and `None` is not one of the other values.

`TypeOK` is not inductive: what a job writes depends on what it read, possibly long ago. The
invariant is

    Inv == GoodRows /\ GoodJobs /\ GoodWorld /\ OneActivePerInstance

`GoodRows` says of each row what the transactions of `chatRepo.ts` keep (an ended row has one
answer and no owner, a running row an execution, a queued row none), `GoodJobs` that a job at a
place that needs one holds a decision or an execution of the right kind, `GoodWorld` the types
of the rest. The proof has three layers: a lemma for each transaction (`ClaimedRow`, ...,
`FinishedRows`); for each group of actions, that it moves rows only by those transactions and
keeps `GoodJobs` and `GoodWorld` (`DispatchStep`, `ObserveStep`, `RecoverStopStep`, ...); and the
induction. The refinement uses the same middle layer: each transaction is a step of
`RunLifecycle` or leaves its state unchanged.

`AttemptWrittenAhead` and `AnswerOfTheBoundExecution` relate the row to the runtime, across what a
job knows and what is on its way. Their invariant, `Traced`, adds to them that a job at a place after
the count of an attempt (`Sending`) works on a row that has one, or was deleted, and that a job about to
complete a run read from its row an execution that has completed by now (`Sealed`). A step
`Follows` when rows keep their attempts and sound answers, a job gets to `Sending` only through the
count, a request leaves only from `Sending`, and an execution that completed is never anything else
but gone. Each action is shown to follow, and `FollowsKeeps` does the induction once.

Only model-checked: the liveness properties, which TLAPS cannot prove under fairness here.

## 4. The deployment queue

### 4.1 `DeployQueue`

| State | In the code |
|---|---|
| `inst[i]` | the row of `instances`: `status`, `desired_state` (`desired`), `host_port` of its configuration (`port`), `compensated_at` and `cleanup_verified_at` as flags |
| `task[i]` | its row of `deploymentTasksCore`: `status`, `worker_id`, an unexpired `lease_until` (`live`), `attempt`, `max_attempts`, `cancel_requested` |
| `clean[i][m]` | its latest row of `cleanupTasks` for deleting or archiving |
| `reserved` | `instancePortReservations` |
| `containers[i]` | what docker has of it: nothing, residue (networks, half of the containers), or containers that serve a port |
| `attempt[a]` | one run of the worker on a task: the answer of docker it waits for (`at`), the worker's `isCurrentTaskActive` (`active`), the port it read |
| `lock` | `isProcessingTask`, and which part of the tick set it |
| `undoing` | calls of `cleanupInstanceResources` under way, and what the caller does after them (`for`) |
| `cycle[i]` | what the reconciler read of an instance, before and after it asked docker |
| `op[i]` | the operation lease of `instanceOperationCoordinator` (in memory) |
| `boot` | the server's `workerId`, drawn at boot |

The store is synchronous and the server is one process. A step is therefore what the code
does between two answers of docker or two timers, however many rows it writes in between.
What may interleave is attempts: `executeDeployment` goes on in docker's callbacks after the
watchdog, a cancellation or a failure made the worker give the attempt up. `active` says whether the
worker still listens. An attempt nobody listens to still creates containers, still writes
`failed` on the instance (`reportDeploymentFailure`) and on the task (`DockerDown`), and may
do so while the next attempt is under way.

The places of an attempt are the answers it waits for: the first ping, its files, the second ping,
the network, the image, the containers, the health checks. At five of them `assertActive`
asks the store whether the attempt may go on (`MayProceed`); what a refusal does depends on
whether the code is in a promise somebody awaits (it is reported) or in a callback of docker
(it is lost, and the cancellation poll or the watchdog ends the attempt).

A clean-up has two steps, since docker is asked twice: the containers, then the network and the
port. An error of the first is swallowed (`dockerDeployment.ts:80`, `116`), so that a clean-up may go on and
succeed with the containers still there (`LeavesContainers`); one of the second is seen
(`DockerRefuses`). What happens at its end (`InstAfter`, `TaskAfter`, `LockAfter`, a retry on another port)
is the code after the call, for each caller.

The reconciler handles instances one after the other with rows it read at the start of the
cycle. In the model each instance has a cycle of its own, which allows more interleavings than the code.

Abstractions, each conservative unless it says that something is left out:

- leases are flags. A deployment's is renewed while the worker listens and the task is not
  cancelled; a cleanup's lasts while its server works on it (in the code it may expire sooner,
  and two clean-ups of one instance may then overlap);
- a transition is stale when its reconciler finds nobody owning it; that it must be ten
  minutes old is left out, and `Passes` is the young one;
- containers do not exit on their own, and the reconciler's restarts of exited containers and
  its other statuses (`stopped`, `partial_running`, `container_starting`) are left out;
- the requests of a removal are one step (the code's awaits there are of the synchronous store);
- cleanup tasks are claimed in any order, deployment tasks too;
- simulated deployments and other callers of `executeDeployment` are left out.

### 4.2 Runs

| Run | Question | Bounds |
|---|---|---|
| `deploy_worker` | Does the worker handle one attempt at a time, its task's last, and lose no success? `TypeOK`, `OneDeploymentAtATime`, `ActiveIsCurrent`, `SuccessIsFinal` | two instances for one port; two attempts, a retry by the user, a crash, watchdogs, docker that refuses |
| `deploy_removal` | What if users delete or archive in the middle of anything? `DeletingIsQueued`, `SuccessServes` | one instance, two ports, one of them taken by another program; two removals, a crash |
| `deploy_deletes` | Does a deletion end? `DeletingEnds` | one removal, a crash, one attempt of the deployment, two of a cleanup, the reconciler |
| `deploy_settles` | Does every deployment end, does its instance show it, is nothing left of it in docker if it failed, and who takes the port of a waiting task? `DeploymentSettles`, `InstanceSettles`, `FailedLeavesNothing`, `WaitingHoldsItsPort` | no removals; a port conflict, a crash, watchdogs, docker that refuses, the reconciler |
| `deploy_orphan` (violated) | Does a cancelled deployment end after a crash? | one deletion, one crash |

Two attempts of three (one where only the deletion is in question), two clean-ups of three and one more attempt by retry reach both sides of
each limit: one attempt that may be tried again, one that may not. A single crash suffices
because nothing but the store and docker survives it. Two instances matter for the worker's
lock and for ports only, and are used there.
`MaxRemovals`, `MaxRetries` and `MaxCrashes` bound users and crashes; `Stalls` and
`Reconciles` switch the watchdog and the reconciler on; with the
reconciler, `deploy_removal` has more than nine million states, so the reconciler meets removals in `deploy_deletes`, and
in the proofs. Deadlock is not checked: a system whose tasks are
done stops.

The violation: a task cancelled while it was deploying is neither claimed nor finalized after
a crash, since both ask for `cancel_requested = 0`, and stays deploying for ever. Without removals
every deployment settles (`deploy_settles`).

Seen in the code and part of the model, without a run of its own; each is why a property is stated
or checked with a condition:

- "Docker unavailable" is written to the task under the worker's identity
  (`dockerDeployment.ts:563`), which all attempts of a server share. A late one fails a task that
  a user has retried, so `ActiveIsCurrent` and `SuccessIsFinal` are stated up to the first retry.
- A user may retry while the failed attempt is still compensated, which then releases the port the
  retry reserved; and a failing attempt writes `failed` on the instance before it is compensated
  (`dockerDeployment.ts:1089`), so that the reconciler compensates it too, with the deployment's
  lease live (`reconciler.ts:448`). `WaitingHoldsItsPort` names the reconciler as the only one that takes the
  port of a waiting task, and is stated up to the first retry; it is checked with the reconciler at work.
- An instance deleted while docker creates its containers ends `failed` and wanted `deleted`,
  which is in none of the reconciler's cases (`reconciler.ts:430`, `448`): its containers stay.
  `FailedLeavesNothing` is checked without removals.
- A retry is accepted for an instance that is being deleted (`deployments.ts:58`); a deletion during the
  compensation before a port retry is overwritten by `desired_state` running (`deployWorker.ts:61`); an
  archive retried after a deletion writes `archived` over `deleted` (`instanceCleanup.ts:95`). The
  repository does not say which should win.

### 4.3 Fairness

`FairSpec` assumes that timers fire (the tick, the cleanup timer, the cancellation poll, the
watchdog, leases, the reconciler's interval), and that a clean-up of docker that was begun ends or
fails; a docker that the reconciler asks again and again removes the containers in the end. Nothing is assumed of users, crashes or docker's answers to an attempt: a
deployment settles because the watchdog fires. Strong fairness of `RecoversTransition` says
that a transition which stays becomes stale while the reconciler looks at it again and again;
the code's threshold is a length of time the model does not have.

### 4.4 Proofs

`DeployQueue_proofs` proves every invariant the runs check, and the action properties, for any
instances, ports, modes of removal and bounds: `TypeOK`, `OneDeploymentAtATime`, `ActiveIsCurrent`,
`DeletingIsQueued`, `WaitingHoldsItsPort`, `SuccessIsFinal`, `SuccessServes`. The assumptions are
those of the module: there is a port, the words for what is no port are not ports, the limits are
numbers. The invariant is

    Inv == TypeOK /\ Housing /\ Limited /\ LockIsHeld /\ Current /\ Stale /\ Compensating
           /\ Withdrawal /\ Deletable /\ DeletingIsQueued

`LockIsHeld`: the worker's lock is held for one thing, an attempt it listens to or the compensation
that follows. `Current`: that attempt is the last claim of its task, for the instance's port, and no other of the
instance is at work. `Stale`: an attempt that goes on unheard is one whose task was cancelled, so it
cannot succeed. `Compensating` and `Withdrawal`: while something is compensated or removed, its task is
settled by nobody else. The rest says that rows refer to provisioned instances.

`Current`, `Stale`, `Compensating` and `Withdrawal` are claimed until the first retry: a user may retry
while the failed attempt still compensates (see the divergences above), after which they are false.
What follows from them is stated accordingly: `ActiveIsCurrent`, `SuccessIsFinal`, `SuccessServes` and
`WaitingHoldsItsPort` say so themselves. No theorem has a hypothesis: `WaitingTaskHoldsItsPort` holds with the
reconciler at work, since it is a property of steps. A task that begins to wait has its port, and the step
that takes it away while it waits is the end of a clean-up of the reconciler's; every other clean-up at work is
for an instance whose task is not waiting (`Compensating`, `Withdrawal`).

The actions are many and the rows they change few: each action is first shown to have one of
some thirty effects, stated field by field; the induction is over the effects.

Only model-checked: the liveness properties.

## 5. Scheduled jobs and background tasks

### 5.1 `ScheduledFires`

| State | In the code |
|---|---|
| `job[j]` | the row of `scheduledJobs`: `is_active`, `next_run_at` by its number (0 for null), and whether that time has come (`late`) |
| `fires` | `scheduledFires` in the order of the store: job, `fire_at`, `status` |
| `tasks` | the tasks in the order of the store: the fire they were made for (0 for a webhook or a user), `status`, and whether `updated_at` is less than ten minutes old (`fresh`) |
| `ready` | whether the workflow of the instance has the configuration it needs |
| `live[t]` | runners at work on a task (in memory) |
| `tick` | where the scheduler's tick is, the fires and due jobs it read, the fire in hand (in memory) |
| `moment` | the latest time that was given to a job |

A tick first recovers the fires an earlier server left: it looks for the task of each, makes
one if there is none, marks the fire by it and executes the task again if it has not ended
(`Recover`, `Settle`, `Restart`). Then it takes the due jobs, from the rows it listed: it claims a fire
for the job's time, gives the job its next time, makes the task, marks the fire and starts the
task (`Claim`, `Advance`, `Create`, `Dispatch`, `Start`). Each is one write of the store, so that
the server may die between any two. `Executes` is `executeTaskInBackground`, which a tick, a
recovery and a user (`Trigger`) call; `Ends` is the end of its runner. `Save`, `Toggle` and `Archive`
are what users do to jobs and their configuration meanwhile.

Abstractions: one instance; a cron expression is good or cannot be parsed (`Bad`); a runner ends in
success or failure; the evidence that readiness is judged by is a flag. A task at work does not
grow old: the one call a runner makes ends within 80 seconds, the threshold is ten minutes
(`Ages`). A job without a time that is also bad is not switched on (it would claim a fire at every
tick).

Seen in the code, and not covered by a property: 20 bad jobs fill the page of a tick and starve the
jobs after them (`schedulerRunner.ts:49`; `DueJobIsServed` is checked with fewer than a page holds),
as 20 unfinished fires do the page of a recovery (`db/index.ts:311`); a job without a time fires again
after a crash (`schedulerRunner.ts:121`); a refresh makes jobs active again that the user had switched off
(`workflowReadinessService.ts:114`), and the switch does not ask whether the instance is archived
(`server.ts:650`); the task of a webhook has no fire, so that a crash before it runs leaves it
(`webhooks.ts:195`).

### 5.2 Run and fairness

`fires`: two jobs, one of them bad, a page of two, two events of users or times, one crash. A page of
two holds the bad job and a good one; a crash may fall into the tick and into its recovery; two
events reach every pair of a user's actions. `TypeOK`, `OneTaskPerFire`, `OneFirePerTime`,
`SuccessIsKept`, and under `FairSpec`: `FireSettles`, `DueJobIsServed`. `FairSpec` assumes that the timer of the scheduler ticks again and again (an
interval of the process, which a restart sets again) and that runners end and time passes. Nothing
is assumed of users and crashes. Deadlock is checked: a tick is always possible.

### 5.3 Proofs

`ScheduledFires_proofs` proves `OneTaskPerFire` and `OneFirePerTime` for any jobs, order of the store,
page and bounds. A task is made in two places. A tick that recovers looks for the task of the
fire first; a tick that claims does not, so what must be shown is that the fire in its hand has no
task yet. The invariant is

    Inv == Typing /\ Untasked /\ OneTaskPerFire /\ OneFirePerTime

where `Untasked` says just that. It is kept because a fire is new when it is claimed, and because
nothing else makes tasks of fires while the tick is between its claim and its task.

It also proves `SuccessIsKept`: the result of a task is not overwritten. A runner writes its result
without looking at the row, so nobody else may have ended the task meanwhile: `OneRunner` says that
a task has one runner at most, and that while it has one it is processing and recent, so that
neither a recovery nor a user starts it again or gives it up.

`TypeCorrect` proves `TypeOK`. What a type says beyond its shape follows from `Inv` and three more
invariants: the times a job has, a fire has and a tick has read were all given before (`Times`), the
runners are counted for the tasks there are (`Counts`), and `OneRunner`. The due jobs of a tick are a
set of places in the list, each with the time it was read with, and the page is the first `Page`
of them, which is what `slice` leaves of the filtered list.

Only model-checked: the two liveness properties.

## 6. Upgrades

### 6.1 `Upgrades`

| State | In the code |
|---|---|
| `row` | the row of `instances`: `status`, `upgrade_status` (`up`), the image tag, the previous tag, compensated with its network gone (`clean`) |
| `boxes` | its containers in docker: id, name (its own, or the backup of a flow), tag, whether they run |
| `lease` | the lease of `instanceOperationCoordinator` (in memory) |
| `active` | whether the instance is in `activeUpgrades` (in memory) |
| `flow[r]` | an upgrade, a bulk upgrade or a rollback: its place, what it read of the row, whether it kept a backup |
| `user` | a stop or a redeployment at work |
| `cycle` | a pass of the reconciler: the row and the container it read |
| `mishaps` | history: an error of docker or the proxy in the exchange (`docker`), a user at work on it as well, from the moment a flow reads the row (`intruded`), a pass of the reconciler on what was no longer so (`stale`), a crash (`died`) |

A flow is cut at its awaits: `Request`, `Check`, then pulling (`FailEarly`), `StopOld`, `SetAside`,
`Create`, `Prove`, `DropBackup`, `Announce`; a failure after the stop goes to `Restore` and `Confirm`;
`End` releases. A bulk upgrade writes its mark before it has the lease (`BulkTurn`), and a refusal writes
over it. An error in stopping the old container is swallowed, and the container set aside then still
runs (`StopOld`, a mishap of docker). The lease lasts fifteen minutes and is not renewed, so it may expire during a long pull
(`Expire`). The reconciler takes no lease: it reads the row, lists the containers, and acts on both
later (`Compensate`, `Adopt`, `Heal`, `Miss`, `Probe`, `Promote`).

The properties hold of a service that nothing else befell, and `mishaps` is how they say so:
`ServiceKept` and `FailureGivesBack` except every mishap, `UpgradingIsAtWork` and `UpgradeSettles` a
crash alone, `OneFlow` none. `UpgradeSettles` excuses besides a flow that waits for ever. What each mishap leads to in this code: a crash leaves
`upgrading` on the row and the reconciler skips it for ever; a pass on an older row heals or clears
an instance that is being upgraded, although `reconciler.ts:458` says it does not; an old container
that cannot be renamed is removed; a proxy that fails after the backup was removed leaves nothing to
give back; a bulk upgrade that is refused writes the status it read over that of the one at work
(`upgradeManager.ts:1009`).

### 6.2 Run and fairness

`upgrades`: two flows of any kind and three requests, stops, redeployments, passes and crashes
together. Two flows are needed for one to meet the other's lease, mark or containers; three events
allow a flow, something beside it and a crash, or two flows and a pass. Hardly anything may be assumed of a
flow's awaits: the client of docker has no time limit (`lib/docker.ts:4`), nor has a pull
(`upgradeManager.ts:525`) or the queue for it (`utils.ts:21`). `FairSpec` assumes only that a flow that waits for
none of them ends (`End`), and `UpgradeSettles` says that a row leaves `upgrading` unless the server died
or some flow stays at one of its awaits (`Awaits`) for ever. A pull that stalls is such a flow: it leaves
`upgrading` on the row without a crash, and the reconciler skips it (`reconciler.ts:489`). Deadlock is not checked: a
system that used up its bounds stops.

### 6.3 Proofs

`Upgrades_proofs` proves `OneFlow` and `UpgradingIsAtWork` for any tags and bounds, from

    Inv == Typing /\ Exclusive /\ Answered

`Exclusive`: a flow between its entry and its mark holds the lease, which cannot expire there; from its
mark to its end the instance is in `activeUpgrades`; so whoever enters finds nobody. `Answered`: whenever
the row says upgrading, a flow is answerable for it, and no flow remembers `upgrading` as the status
it must give back, which is what makes the induction go through.

`UpgradeService_proofs` proves `TypeOK`, `ServiceKept` and `FailureGivesBack` for any tags and
bounds, from

    Service == Tidy /\ Promotes /\ (mishaps = {} => Account)

`Tidy` adds to `Inv` the types and the uniqueness of ids and names of containers: a flow makes its own
container once, under a name that is free by then. `Account` is an account of the containers at every
stage of a flow: which are aside as backup, which bear the instance's name, of what tag, and what
the flow has to give back. It is kept by two facts that the code arranges for: the user and the flow
are apart (`Apart`), since both take the lease, and a pass of the reconciler that sees what is so
leaves alone an instance whose row says upgrading. `Promotes` says what a pass about to promote has seen.

The proof found a gap in the model. A redeployment whose lease expired is still at work when a flow
begins, and reads a row that the redeployment is about to change; the flow then gives back `running`
for an instance without a container. That takes seven events, more than the run has: it had been taken
for safe because `intruded` was recorded only when a user *began* beside a flow or the flow checked its request.
It is now recorded when the flow reads the row. `Service` was checked with TLC up to seven events
that no mishap is among.

Only model-checked: `UpgradeSettles`.

## 7. The Codex bridge

### 7.1 `CodexBridge`

| State | In the code |
|---|---|
| `runs[k]` | the record of the run with that client key: `status`, whether it has the thread (`bound`), `turnId`, `stopRequested`, `approvals` (`asks`); `by` is history: the turn whose end ended it |
| `older`, `tombs` | which record has older news than which (`updatedAt`), and the order of the tombstones |
| `thread`, `loaded` | sessions with a native thread, and those this app-server has loaded |
| `disk`, `writing` | `state.json`, and an item of the queue that waits for its write |
| `start[k]` | how far the dispatch of a run has got |
| `open`, `inbox`, `turns` | the app-server: whether it is there, its notifications, its turns |
| `held` | native requests that are answered beside the queue: calls of another agent, questions |

Everything that changes a record is an item of one queue, and an item ends with the write of the
whole state: `Idle` is the beginning of an item, `Write` its change, `Persisted` its end. Two things go
on beside the queue, and they are what is hard: the dispatch of a run, which awaits answers of
the app-server between its items (`ThreadAnswer`, `Send`, `TurnAnswer`), and the native requests
held open. A crash gives back what was written last and drops the rest (`Restart`).

The app-server is external, modelled by what the bridge relies on: it answers, refuses, or is
silent until the 30 seconds of a request have passed (`GivesUp`); a turn begins, may ask for something and
waits for the answer, ends by itself or when it is interrupted; its exit ends all. A denial goes to it as `decline`, or as `cancel` where
it offers no `decline` (`approvalDecision`), and a turn that is cancelled so ends as an interrupted one does
(`Cancelled`, `denied`): its run is then recorded as cancelled although nobody stopped it.

Abstractions: a run's output, its usage and model, streams, and sessions that are created are left out, as
is a write that fails; two items of the dispatch that record the thread are one (`Bind`); a turn asks
for one thing at a time.

Three things in the code shape the properties. A failed dispatch ends the run and leaves its turn at
work; the notifications of that turn are matched by thread, so they may end the *next* run of the
session as long as that knows no turn of its own: `EndedByItsTurn` says that nothing else can, though
`runtime.test.mjs` speaks of "exact native identity"; it says too that a run is cancelled only if it was asked to stop
or an approval of its turn was denied. A key whose tombstone was dropped starts its run
again: `NeverReplayed` says that no other does. A question that cannot be refused because the
app-server has gone ends the bridge by an unhandled rejection (`QuestionKills`). Outside the model, a write that
fails keeps the change in memory only (`runtime.mjs:79`), a status read before the write shows what a
crash takes back (`server.mjs:75`), and a stream opened between the recording of an event and its
announcement sends it twice (`server.mjs:86`).

`AgentRuntime` is what the bridge promises to whoever sends it runs, without queue, turns, notifications
and file. Its only variable says of each key whether it is unknown, at work (`active`, or `halting`
once a stop was asked for), over (`completed`, `failed`, `cancelled`) or refused (`expired`). A key is
taken on when nothing is known of it and its session is free; if as many runs are kept as may be,
one that is over makes room and is refused from then on, and only when as many are refused as may be is one of
those forgotten. A stop is not taken back, an end is final, and when the agent is gone everything at work
has failed. `ImplementsRuntime` says that `state.json` is a behaviour of that, through `Standing`, what
the file tells of a key. It is stated of the file because the memory is not what survives: a restart goes
back to the file, and would take an end back that was never written.

### 7.2 Run and fairness

`codex`: two runs of one session, one record kept, two tombstones, two turns, one of which asks for
something, and a crash or an exit. Two runs of a session are what a late notification needs; one
record kept makes every second run prune. With two keys no tombstone is ever dropped: that step of
`AgentRuntime` was simulated with three keys and one tombstone, and is proved. Beyond that, safety was checked without finding a
violation, though not to the end, on more than nine million states each of three keys with one tombstone (so
that keys are forgotten) and of two sessions. `FairSpec` assumes that the queue goes on, that
requests and questions reach their time limits, and of the app-server that it takes its requests and
that a turn that waits for nothing, or was asked to stop, ends. Nothing is assumed of users.
Deadlock is not checked: a bridge without runs stops.

### 7.3 Proofs

`CodexBridge_proofs` proves `StopReachesTheTurn` and `EndsOnce` for any keys, sessions and limits, from

    Inv == Typing /\ StopReachesTheTurn /\ Filed

`StopReachesTheTurn` is inductive once it is known that a step never takes a turn's mark from it
before the turn ends (`Keeps`), and that records and notifications name turns that exist
(`Typing`). `EndsOnce` speaks of the file, which changes by the end of an item and by a restart
only: `Filed` says that while no item waits for its write the file is what the memory is, and that
otherwise the memory is one step further in the allowed direction. The refinement
below implies it, and has taken its place in the run.

`CodexTurns_proofs` proves `NeverReplayed`, `EndedByItsTurn`, `EndIsConfirmed` and
`NothingWaitsSilently`, from

    Orderly == Inv /\ Talk /\ Book /\ NothingWaitsSilently

`Talk` ties turns to runs: whatever the app-server still does, or has said and is not yet heard,
belongs to a turn that the end of its run left behind, or to a run at work that takes it for its own. It
rests on a session having one run at work, and on the order of notifications, which announce a turn
first and its end last. `Book` ties keys to what is remembered of them: a key with a dispatch or a
turn has a record or a tombstone, in memory and, once the first write is done, in the file, and a
dispatch that has not asked for a turn has none. A step of the bridge is shown to be `Handled` and to keep
the books; what that does to the invariant is shown once.

`CodexRecords_proofs` proves `TypeOK`: the records kept are in one order and at most `MaxRetained`,
the tombstones are distinct, have no record and are at most `MaxTombstones`. The invariant is

    Kempt == Orderly /\ Bounded /\ HeldTyped /\ Resuming /\ Sound(memory) /\ Sound(disk) /\ ...

`Sound` says of the memory what `TypeOK` does, and has to say it of the file too, which a restart makes the
memory again. `Resuming`: a session that is about to be resumed has a thread. `Bounded`: the turns
there are and those a dispatch is about to ask for are at most `MaxTurns`, which is why a turn can be asked for
whenever a dispatch gets that far. The order is a relation, so that the lemmas say of a set of records what an action
does to it: news of one puts it last, a record dropped leaves the rest as it was, an exit puts the runs it
ends after those it does not (`RestartOrder`). The run keeps one record, where an order is trivial; that
several records stay in one order was simulated with three keys, and is proved.

The same module proves `ImplementsRuntime` (`KeepsItsPromise`), for any keys, sessions and limits, from

    Promise == Kempt /\ Ahead

`Ahead` says that what the file tells and what the memory tells are the same, or one step of `AgentRuntime`
apart (`Goes`), and that no tombstone is there twice. An item of the queue changes the memory by at most one such
step (`Tells`: one lemma per action), and only when the file has caught up; its write then makes the file take
that step; an item that only touches a turn or an approval takes none. A restart makes both what the file
told with everything at work failed. The number of keys refused is the length of the tombstones because they are
distinct (`Counting`), which is where the refusal of known keys is needed.

Only model-checked: the liveness property.

## 8. Not modelled

- The web frontend, the proxy's and the runtimes' configuration writers, templates, credentials,
  scripts and installers: sequential code over text, files and docker, with no interleaving that a
  model checker could say something about. They are most of the repository's lines.
- Health checks and probes: they read, and what they write is modelled where it is read (the
  reconciler, the deployment's last step, an upgrade's `Prove`).
- Bytes and words: attachments, uploads, event payloads, usage, answers of a model.
- On the plan and within reach: event caches and streams (`RunEvents`), the scheduler's wake-ups,
  message leases of the Feishu worker, group cancellation between agents, the question bridge of the
  server, the Pi bridge, and start, restart and proxy rebuilds of an instance.
- Liveness stays with TLC everywhere: the proof system has no backend for fairness.
