---------------------------- MODULE DeployQueue ----------------------------
(***************************************************************************)
(* The deployment queue of the control plane: how a new instance reserves  *)
(* a port and becomes a task, is deployed by the worker of the server,     *)
(* compensated when that fails, tried again on another port, cancelled by  *)
(* a removal, cleaned up, and reconciled with what docker really runs.     *)
(*                                                                         *)
(* One server runs at a time; its store survives it, and so do the         *)
(* containers.  The store is synchronous, so a step is what the code does  *)
(* between two answers of docker or two timers, however many rows it       *)
(* writes.  An attempt (instance, number) is one run of the worker on a    *)
(* task.  It goes on in docker's callbacks after the worker gave it up:    *)
(* attempt[a].active is whether the worker still listens to it.            *)
(***************************************************************************)
EXTENDS Integers, FiniteSets

CONSTANTS
    Instances,
    Ports,        \* the host ports instances may be given
    None,         \* null
    Occupied,     \* the ports some other program of the host listens on
    MaxAttempts,  \* max_attempts of a new task: 3 in the code
    ExtraAttempts,\* attempts a retry by the user grants: 3 in the code
    MaxCleanups,  \* attempts of a cleanup: 3 in the code
    DockerFails,  \* whether docker may refuse to remove containers
    Modes,        \* how users may remove an instance: "delete", "archive"
    MaxRemovals,  \* bound: removals users ask for
    MaxRetries,   \* bound: failed deployments users retry
    MaxCrashes,   \* bound: how often the server dies
    Stalls,       \* bound: whether an attempt may last until its watchdog
    Reconciles    \* bound: whether the reconciler runs

ASSUME NoneAssumption == None \notin Ports \cup Nat
ASSUME PortsAssumption == Occupied \subseteq Ports /\ {"none", "residue"} \cap Ports = {}
ASSUME ModesAssumption == Modes \subseteq {"delete", "archive"}
ASSUME SwitchesAssumption == {DockerFails, Stalls, Reconciles} \subseteq BOOLEAN
ASSUME LimitsAssumption == {MaxAttempts, ExtraAttempts, MaxCleanups} \subseteq Nat \ {0}
ASSUME BoundsAssumption == {MaxRemovals, MaxRetries, MaxCrashes} \subseteq Nat
ASSUME RemovalAssumption == MaxRemovals > 0 => Modes # {}

VARIABLES
    inst,       \* the instances: status, desired_state, host_port, compensated_at, cleanup_verified_at
    task,       \* the deployment task of each instance
    clean,      \* the latest cleanup task of each instance, by mode
    reserved,   \* the rows of instancePortReservations: <<port, instance>>
    containers, \* what docker has of each instance: "none", "residue", or the port it serves
    attempt,    \* where each attempt is, in docker's callbacks
    lock,       \* isProcessingTask: "free", or held by a "tick" or an "attempt"
    undoing,    \* the clean-ups of docker under way, and what each is for
    cycle,      \* the reconciler's cycle: what it read of each instance
    op,         \* the removal that holds the operation of each instance
    boot,       \* the server, by number: its worker identity
    removals,   \* removals asked for so far
    retries     \* retries asked for so far

server == <<lock, undoing, cycle, op, boot>>
asked  == <<removals, retries>>
vars   == <<inst, task, clean, reserved, containers, attempt,
            lock, undoing, cycle, op, boot, removals, retries>>

AttemptLimit == MaxAttempts + MaxRetries * ExtraAttempts
Attempts == Instances \X (1 .. AttemptLimit)
Gone     == {"deleting", "deleted"}

-----------------------------------------------------------------------------
(* Rows.                                                                   *)

NoInstance == [status |-> "none", desired |-> "running", port |-> None,
               compensated |-> FALSE, verified |-> FALSE]
NoTask  == [status |-> "none", worker |-> None, live |-> FALSE,
            attempt |-> 0, max |-> MaxAttempts, cancel |-> FALSE]
NoClean == [status |-> "none", live |-> FALSE, attempt |-> 0]
Idle    == [at |-> "none", active |-> FALSE, port |-> None]
Unread  == [at |-> "idle", row |-> NoInstance, owned |-> FALSE, found |-> "none"]

Init ==
    /\ inst = [i \in Instances |-> NoInstance]
    /\ task = [i \in Instances |-> NoTask]
    /\ clean = [i \in Instances |-> [m \in Modes |-> NoClean]]
    /\ reserved = {}
    /\ containers = [i \in Instances |-> "none"]
    /\ attempt = [a \in Attempts |-> Idle]
    /\ lock = "free" /\ undoing = {} /\ op = [i \in Instances |-> None]
    /\ cycle = [i \in Instances |-> Unread]
    /\ boot = 0 /\ removals = 0 /\ retries = 0

\* reservePortForInstance: the instance's row is replaced, and no two rows share a port.
Free(i) == {p \in Ports : \A r \in reserved : r[1] = p => r[2] = i}
Reserves(i, p) == reserved' = {r \in reserved : r[2] # i} \cup {<<p, i>>}
Unreserved(i) == {r \in reserved : r[2] # i}

\* cancelDeploymentTasksForInstance
Cancelled(row) ==
    IF row.status \in {"queued", "retry_wait", "deploying"}
    THEN [row EXCEPT !.cancel = TRUE,
                     !.status = IF row.status = "deploying" THEN "deploying" ELSE "cancelled"]
    ELSE row

\* Mutant: only what was attempted more than allowed is exhausted.
ExhaustedTooLate == {i \in Instances : /\ task[i].status = "deploying" /\ ~task[i].cancel
                                       /\ ~task[i].live /\ task[i].attempt > task[i].max}

Exhausted == {i \in Instances : /\ task[i].status = "deploying" /\ ~task[i].cancel
                                /\ ~task[i].live /\ task[i].attempt >= task[i].max}

Claimable(i) ==
    /\ ~task[i].cancel /\ task[i].attempt < task[i].max
    /\ \/ task[i].status \in {"queued", "retry_wait"}
       \/ task[i].status = "deploying" /\ ~task[i].live

\* assertActive: may an attempt of this server go on?
MayProceed(i) ==
    /\ task[i].worker = boot /\ ~task[i].cancel
    /\ inst[i].desired # "deleted" /\ inst[i].status \notin Gone

\* Mutant: only a deletion ends a deployment.
WithdrawnIfDeleted(i) == inst[i].desired = "deleted"

\* Was the deployment cancelled, for a worker that is about to end it?
Withdrawn(i) == task[i].cancel \/ inst[i].desired = "deleted" \/ inst[i].status \in Gone

Undo(i, n, for) == [inst |-> i, no |-> n, stage |-> "remove", for |-> for]

-----------------------------------------------------------------------------
(* Users.                                                                  *)

\* createProvisioningBundle: instance, port and task in one transaction.
Provision(i) ==
    /\ inst[i].status = "none"
    /\ \E p \in Free(i) :
          /\ Reserves(i, p)
          /\ inst' = [inst EXCEPT ![i].status = "provisioning", ![i].port = p]
    /\ task' = [task EXCEPT ![i].status = "queued"]
    /\ UNCHANGED <<clean, containers, attempt, server, asked>>

\* Mutant: an instance has one cleanup task ever.
CleanupQueuedOnce(row) ==
    IF row.status # "none" THEN row ELSE [NoClean EXCEPT !.status = "queued"]

\* The row that createCleanupTask leaves: an unfinished task is not doubled.
CleanupQueued(row) ==
    IF row.status \in {"queued", "cleaning", "retry_wait"}
    THEN row ELSE [NoClean EXCEPT !.status = "queued"]

RemovalRequested(i, m) ==
    [inst EXCEPT ![i].desired = IF m = "delete" THEN "deleted" ELSE "archived",
                 ![i].status  = IF m = "delete" THEN "deleting" ELSE "archiving"]

\* DELETE /:id, unless an operation of the instance is under way.
RequestRemoval(i, m) ==
    /\ inst[i].status # "none" /\ op[i] = None
    /\ removals < MaxRemovals /\ removals' = removals + 1
    /\ inst' = RemovalRequested(i, m)
    /\ task' = [task EXCEPT ![i] = Cancelled(@)]
    /\ clean' = [clean EXCEPT ![i][m] = CleanupQueued(@)]
    /\ op' = [op EXCEPT ![i] = m]
    /\ UNCHANGED <<reserved, containers, attempt, lock, undoing, cycle, boot, retries>>

\* POST /:taskId/retry: another port, more attempts, and no longer cancelled.
RequestRetry(i) ==
    /\ task[i].status = "failed"
    /\ retries < MaxRetries /\ retries' = retries + 1
    /\ \/ \E p \in Free(i) :
             /\ Reserves(i, p)
             /\ inst' = [inst EXCEPT ![i] = [@ EXCEPT !.status = "provisioning",
                               !.desired = "running", !.port = p, !.compensated = FALSE]]
             /\ task' = [task EXCEPT ![i] = [@ EXCEPT !.status = "retry_wait", !.cancel = FALSE,
                               !.max = IF task[i].max > task[i].attempt + ExtraAttempts
                                       THEN task[i].max ELSE task[i].attempt + ExtraAttempts]]
       \/ /\ Free(i) = {}
          /\ reserved' = Unreserved(i)
          /\ UNCHANGED <<inst, task>>
    /\ UNCHANGED <<clean, containers, attempt, server, removals>>

\* An operation lease of the coordinator lasts 15 minutes.
OperationExpires(i) ==
    /\ op[i] # None
    /\ op' = [op EXCEPT ![i] = None]
    /\ UNCHANGED <<inst, task, clean, reserved, containers, attempt,
                   lock, undoing, cycle, boot, asked>>

-----------------------------------------------------------------------------
(* The worker's tick.                                                      *)

\* failExhaustedDeploymentTasks, then the compensation of each.
FailExhausted ==
    /\ lock = "free" /\ Exhausted # {}
    /\ lock' = "tick"
    /\ task' = [i \in Instances |->
                  IF i \in Exhausted
                  THEN [task[i] EXCEPT !.status = "failed", !.worker = None]
                  ELSE task[i]]
    /\ undoing' = undoing \cup {Undo(i, 0, "exhausted") : i \in Exhausted}
    /\ UNCHANGED <<inst, clean, reserved, containers, attempt, cycle, op, boot, asked>>

\* Mutant: a tick does not look at isProcessingTask.
TickAlwaysClaims == \A u \in undoing : u.for # "exhausted"

TickMayClaim ==
    \/ lock = "free" /\ Exhausted = {}
    \/ lock = "tick" /\ \A u \in undoing : u.for # "exhausted"

\* claimNextDeploymentTask and the start of its attempt.  An instance that was
\* deleted is refused by the first assertActive, whose handler reads the refusal as
\* a docker that does not answer.
ClaimTask(i) ==
    /\ TickMayClaim /\ Claimable(i)
    /\ LET n == task[i].attempt + 1
           refused == inst[i].desired = "deleted"
       IN  /\ lock' = "attempt"
           /\ task' = [task EXCEPT ![i] =
                  [@ EXCEPT !.status = IF refused THEN "failed" ELSE "deploying",
                            !.worker = boot, !.live = ~refused, !.attempt = n]]
           /\ inst' = [inst EXCEPT ![i].status = IF refused THEN "failed" ELSE "deploying"]
           /\ attempt' = [attempt EXCEPT ![<<i, n>>] =
                  [at |-> IF refused THEN "ended" ELSE "ping",
                   active |-> ~refused, port |-> inst[i].port]]
           /\ undoing' = IF refused THEN undoing \cup {Undo(i, n, "cancelled")} ELSE undoing
    /\ UNCHANGED <<clean, reserved, containers, cycle, op, boot, asked>>

\* A tick that compensated finds nothing to claim.
NothingToClaim ==
    /\ lock = "tick" /\ TickMayClaim /\ ~\E i \in Instances : Claimable(i)
    /\ lock' = "free"
    /\ UNCHANGED <<inst, task, clean, reserved, containers, attempt,
                   undoing, cycle, op, boot, asked>>

-----------------------------------------------------------------------------
(* How the worker ends an attempt.                                         *)

\* Whether a port conflict is tried again (schedulePortConflictRetry).  The rows are
\* read after what the failure has written.
Verdict(a, code) ==
    IF Withdrawn(a[1])' THEN "cancelled"
    ELSE IF code = "port" /\ a[2] < task[a[1]].max THEN "retry"
    ELSE "failed"

\* The worker no longer listens, and compensates.
GivesUp(a, at, verdict) ==
    /\ attempt' = [attempt EXCEPT ![a].at = at, ![a].active = FALSE]
    /\ undoing' = undoing \cup {Undo(a[1], a[2], verdict)}

\* executeDeployment throws: the worker's catch, for an attempt it listens to.
Throws(a, at, code) ==
    IF attempt[a].active
    THEN GivesUp(a, at, Verdict(a, code))
    ELSE attempt' = [attempt EXCEPT ![a].at = at] /\ UNCHANGED undoing

\* reportDeploymentFailure: the instance fails whoever listens, then the worker is told.
Reports(a, code) ==
    /\ inst' = [inst EXCEPT ![a[1]].status = "failed"]
    /\ UNCHANGED <<task, clean, reserved, lock, cycle, op, boot, asked>>
    /\ Throws(a, "ended", code)

\* A status the worker writes if it listens and the deployment was not withdrawn.
Tells(a, status) ==
    inst' = IF attempt[a].active /\ ~Withdrawn(a[1])
            THEN [inst EXCEPT ![a[1]].status = status] ELSE inst

\* A callback goes on to the next request to docker.
GoesOn(a, at) ==
    /\ attempt' = [attempt EXCEPT ![a].at = at]
    /\ UNCHANGED <<inst, task, clean, reserved, server, asked>>

-----------------------------------------------------------------------------
(* The steps of executeDeployment: each is an answer of docker, then the   *)
(* check before the next step.                                             *)

DockerAnswers(a) ==
    /\ attempt[a].at = "ping"
    /\ GoesOn(a, "files")
    /\ UNCHANGED containers

DockerDown(a) ==
    /\ attempt[a].at = "ping"
    /\ inst' = [inst EXCEPT ![a[1]].status = "failed"]
    /\ task' = IF task[a[1]].worker = boot
               THEN [task EXCEPT ![a[1]].status = "failed", ![a[1]].live = FALSE] ELSE task
    /\ Throws(a, "ended", "docker")
    /\ UNCHANGED <<clean, reserved, containers, lock, cycle, op, boot, asked>>

FilesWritten(a) ==
    /\ attempt[a].at = "files"
    /\ GoesOn(a, "engine")
    /\ UNCHANGED containers

\* The files, or the mode of deployment, which the worker is told of as of a failure.
FilesFail(a) ==
    /\ attempt[a].at = "files"
    /\ \/ UNCHANGED inst
       \/ Tells(a, "failed")
    /\ UNCHANGED <<task, clean, reserved, containers, lock, cycle, op, boot, asked>>
    /\ Throws(a, "ended", "files")

\* Docker is asked again.  A refusal of this check and of the next is thrown in a
\* callback nobody awaits.
EngineAnswers(a) ==
    /\ attempt[a].at = "engine"
    /\ GoesOn(a, IF MayProceed(a[1]) THEN "network" ELSE "ended")
    /\ UNCHANGED containers

EngineDown(a) ==
    /\ attempt[a].at = "engine"
    /\ Reports(a, "docker")
    /\ UNCHANGED containers

NetworkReady(a) ==
    /\ attempt[a].at = "network"
    /\ GoesOn(a, IF MayProceed(a[1]) THEN "image" ELSE "ended")
    /\ UNCHANGED containers

NetworkFails(a) ==
    /\ attempt[a].at = "network"
    /\ Reports(a, "network")
    /\ UNCHANGED containers

ImageReady(a) ==
    /\ attempt[a].at = "image"
    /\ IF MayProceed(a[1]) THEN GoesOn(a, "create") ELSE Reports(a, "cancelled")
    /\ UNCHANGED containers

ImageFails(a) ==
    /\ attempt[a].at = "image"
    /\ Reports(a, "image")
    /\ UNCHANGED containers

Taken(i) == Occupied \cup {containers[j] : j \in Instances \ {i}}

\* recreateInstance: the containers serve the port the attempt read when it began.
ContainersStart(a) ==
    /\ attempt[a].at = "create" /\ attempt[a].port \notin Taken(a[1])
    /\ containers' = [containers EXCEPT ![a[1]] = attempt[a].port]
    /\ \/ /\ MayProceed(a[1])
          /\ attempt' = [attempt EXCEPT ![a].at = "health"]
          /\ inst' = IF attempt[a].active
                     THEN [inst EXCEPT ![a[1]].status = "gateway_starting"] ELSE inst
          /\ UNCHANGED <<task, clean, reserved, server, asked>>
       \/ ~MayProceed(a[1]) /\ Reports(a, "cancelled")

ContainersFail(a) ==
    /\ attempt[a].at = "create"
    /\ \E left \in {"none", "residue"} : containers' = [containers EXCEPT ![a[1]] = left]
    /\ Reports(a, IF attempt[a].port \in Taken(a[1]) THEN "port" ELSE "create")

\* The containers run, but on the wrong networks, or docker cannot inspect them.
VerificationFails(a) ==
    /\ attempt[a].at = "health"
    /\ Reports(a, "create")
    /\ UNCHANGED containers

\* Mutant: a success does not stop the watchdog.
HealthyAndWatched(a) ==
    /\ attempt[a].at = "health" /\ containers[a[1]] \in Ports
    /\ IF ~attempt[a].active \/ Withdrawn(a[1])
       THEN UNCHANGED <<inst, task, lock>> /\ Throws(a, "ended", "cancelled")
       ELSE /\ attempt' = [attempt EXCEPT ![a].at = "ended"]
            /\ inst' = [inst EXCEPT ![a[1]].status = "running", ![a[1]].compensated = FALSE]
            /\ task' = [task EXCEPT ![a[1]].status = "success"]
            /\ lock' = "free"
            /\ UNCHANGED undoing
    /\ UNCHANGED <<clean, reserved, containers, cycle, op, boot, asked>>

\* The health checks pass: they need the containers.
Healthy(a) ==
    /\ attempt[a].at = "health" /\ containers[a[1]] \in Ports
    /\ IF ~attempt[a].active \/ Withdrawn(a[1])
       THEN UNCHANGED <<inst, task, lock>> /\ Throws(a, "ended", "cancelled")
       ELSE /\ attempt' = [attempt EXCEPT ![a].at = "ended", ![a].active = FALSE]
            /\ inst' = [inst EXCEPT ![a[1]].status = "running", ![a[1]].compensated = FALSE]
            /\ task' = [task EXCEPT ![a[1]].status = "success"]
            /\ lock' = "free"
            /\ UNCHANGED undoing
    /\ UNCHANGED <<clean, reserved, containers, cycle, op, boot, asked>>

\* They end as "failed" or "unhealthy", which the worker records if it listens.
Unhealthy(a, status) ==
    /\ attempt[a].at = "health"
    /\ Tells(a, status)
    /\ UNCHANGED <<task, clean, reserved, containers, lock, cycle, op, boot, asked>>
    /\ Throws(a, "ended", "health")

\* They end in a status the worker takes for progress: nothing more comes.
HealthUndecided(a) ==
    /\ attempt[a].at = "health" /\ containers[a[1]] \in Ports
    /\ Tells(a, "frontend_missing_build")
    /\ IF attempt[a].active /\ Withdrawn(a[1])
       THEN GivesUp(a, "ended", "cancelled")
       ELSE attempt' = [attempt EXCEPT ![a].at = "ended"] /\ UNCHANGED undoing
    /\ UNCHANGED <<task, clean, reserved, containers, lock, cycle, op, boot, asked>>

\* Once it has sent its first request, an attempt looks every second whether it
\* was cancelled; what docker is doing for it goes on.
CancellationSeen(a) ==
    /\ attempt[a].active /\ attempt[a].at \notin {"ping", "files"} /\ task[a[1]].cancel
    /\ GivesUp(a, attempt[a].at, "cancelled")
    /\ UNCHANGED <<inst, task, clean, reserved, containers, lock, cycle, op, boot, asked>>

\* The five minutes of an attempt are over; what docker is doing for it goes on.
WatchdogFires(a) ==
    /\ Stalls /\ attempt[a].active
    /\ task' = IF task[a[1]].worker = boot
               THEN [task EXCEPT ![a[1]].status = "failed", ![a[1]].cancel = TRUE] ELSE task
    /\ GivesUp(a, attempt[a].at, "timeout")
    /\ UNCHANGED <<inst, clean, reserved, containers, lock, cycle, op, boot, asked>>

-----------------------------------------------------------------------------
(* Cleaning up: the containers, then the network and the port, then what   *)
(* the clean-up was for.                                                   *)

Removes(u) ==
    /\ u.stage = "remove"
    /\ containers' = [containers EXCEPT ![u.inst] = "none"]
    /\ undoing' = (undoing \ {u}) \cup {[u EXCEPT !.stage = "release"]}
    /\ UNCHANGED <<inst, task, clean, reserved, attempt, lock, cycle, op, boot, asked>>

\* Docker does not list, stop or remove the containers, and nobody is told.
LeavesContainers(u) ==
    /\ DockerFails /\ u.stage = "remove"
    /\ undoing' = (undoing \ {u}) \cup {[u EXCEPT !.stage = "release"]}
    /\ UNCHANGED <<inst, task, clean, reserved, containers, attempt, lock, cycle, op, boot, asked>>

Compensations == {"cancelled", "failed", "timeout", "retry", "exhausted", "reconciled"}

Compensated(row, for) ==
    IF for \in Compensations THEN [row EXCEPT !.compensated = TRUE] ELSE row

\* What is written of the instance, of its task and of the lock when a clean-up ends.
InstAfter(row, for) ==
    CASE for \in {"failed", "timeout", "exhausted"} -> [row EXCEPT !.status = "failed"]
      [] for = "verified" -> [row EXCEPT !.verified = TRUE]
      [] for = "delete"  -> [row EXCEPT !.status = "deleted", !.desired = "deleted", !.verified = TRUE]
      [] for = "archive" -> [row EXCEPT !.status = "archived", !.desired = "archived", !.verified = TRUE]
      [] OTHER -> row

\* Mutant: why a clean-up was made is taken for how its task ended.
TaskAfterAny(row, for) == [row EXCEPT !.status = for]

TaskAfter(row, for) ==
    IF for \in {"cancelled", "failed"} THEN [row EXCEPT !.status = for] ELSE row

LockAfter(for) == IF for \in {"cancelled", "failed", "timeout"} THEN "free" ELSE lock

CleanupEnds(i, m, status) ==
    /\ clean' = [clean EXCEPT ![i][m].status = status, ![i][m].live = FALSE]
    /\ op' = IF status = "retry_wait" THEN op ELSE [op EXCEPT ![i] = None]

\* The port goes back, and the attempt, the cleanup or the reconciler concludes.
Releases(u) ==
    /\ u.stage = "release" /\ u.for # "retry"
    /\ reserved' = Unreserved(u.inst)
    /\ inst' = [inst EXCEPT ![u.inst] =
          InstAfter(Compensated(@, u.for), u.for)]
    /\ task' = [task EXCEPT ![u.inst] = TaskAfter(@, u.for)]
    /\ lock' = LockAfter(u.for)
    /\ undoing' = undoing \ {u}
    /\ IF u.for \in Modes THEN CleanupEnds(u.inst, u.for, "success") ELSE UNCHANGED <<clean, op>>
    /\ UNCHANGED <<containers, attempt, cycle, boot, asked>>

\* Mutant: the port is reserved before the compensation, which releases it.
ReservesBeforeCompensating(u, p) ==
    /\ u.stage = "release" /\ u.for = "retry" /\ p \in Free(u.inst) \ {inst[u.inst].port}
    /\ reserved' = Unreserved(u.inst)
    /\ inst' = [inst EXCEPT ![u.inst] = [@ EXCEPT !.status = "provisioning",
                   !.desired = "running", !.port = p, !.compensated = FALSE]]
    /\ task' = [task EXCEPT ![u.inst] = [@ EXCEPT !.status = "retry_wait",
                   !.worker = None, !.live = FALSE]]
    /\ lock' = "free"
    /\ undoing' = undoing \ {u}
    /\ UNCHANGED <<clean, containers, attempt, cycle, op, boot, asked>>

\* schedulePortConflictRetry after its compensation: another port than the one that
\* conflicted, whatever happened to the instance meanwhile.
RetriesOnAnotherPort(u, p) ==
    /\ u.stage = "release" /\ u.for = "retry" /\ p \in Free(u.inst) \ {inst[u.inst].port}
    /\ Reserves(u.inst, p)
    /\ inst' = [inst EXCEPT ![u.inst] = [@ EXCEPT !.status = "provisioning",
                   !.desired = "running", !.port = p, !.compensated = FALSE]]
    /\ task' = [task EXCEPT ![u.inst] = [@ EXCEPT !.status = "retry_wait",
                   !.worker = None, !.live = FALSE]]
    /\ lock' = "free"
    /\ undoing' = undoing \ {u}
    /\ UNCHANGED <<clean, containers, attempt, cycle, op, boot, asked>>

\* No port is left: the attempt fails after all, and is compensated once more.
FindsNoPort(u) ==
    /\ u.stage = "release" /\ u.for = "retry" /\ Free(u.inst) \subseteq {inst[u.inst].port}
    /\ reserved' = Unreserved(u.inst)
    /\ inst' = [inst EXCEPT ![u.inst].compensated = TRUE]
    /\ undoing' = (undoing \ {u}) \cup {Undo(u.inst, u.no, "failed")}
    /\ UNCHANGED <<task, clean, containers, attempt, lock, cycle, op, boot, asked>>

\* Docker refuses the network.  The worker goes on as if it had not; a cleanup is tried again; a
\* port conflict leaves its task to the lease; the reconciler comes back.
DockerRefuses(u) ==
    /\ DockerFails
    /\ undoing' = undoing \ {u}
    /\ IF u.for \in Modes
       THEN LET last == u.no >= MaxCleanups
            IN  /\ CleanupEnds(u.inst, u.for, IF last THEN "failed" ELSE "retry_wait")
                /\ inst' = [inst EXCEPT ![u.inst].status =
                      IF last THEN "cleanup_failed" ELSE IF u.for = "archive" THEN "archiving" ELSE "deleting"]
                /\ UNCHANGED <<task, lock>>
       ELSE /\ inst' = IF u.for = "verified" THEN inst
                       ELSE [inst EXCEPT ![u.inst] = InstAfter(@, u.for)]
            /\ task' = [task EXCEPT ![u.inst] = TaskAfter(@, u.for)]
            /\ lock' = IF u.for = "retry" THEN "free" ELSE LockAfter(u.for)
            /\ UNCHANGED <<clean, op>>
    /\ UNCHANGED <<reserved, containers, attempt, cycle, boot, asked>>

CleanupClaimed(row) ==
    [row EXCEPT !.status = "cleaning", !.live = TRUE,
                !.attempt = IF row.attempt < MaxCleanups THEN row.attempt + 1 ELSE row.attempt]

\* Mutant: a cleanup whose server died is not claimed again.
ClaimCleanupOnce(i, m) ==
    /\ clean[i][m].status \in {"queued", "retry_wait"}
    /\ clean' = [clean EXCEPT ![i][m] = CleanupClaimed(@)]
    /\ undoing' = undoing \cup {Undo(i, clean'[i][m].attempt, m)}
    /\ UNCHANGED <<inst, task, reserved, containers, attempt, lock, cycle, op, boot, asked>>

\* claimNextCleanupTask and executeCleanupTask up to its first request to docker.
ClaimCleanup(i, m) ==
    /\ \/ clean[i][m].status \in {"queued", "retry_wait"}
       \/ clean[i][m].status = "cleaning" /\ ~clean[i][m].live
    /\ clean' = [clean EXCEPT ![i][m] = CleanupClaimed(@)]
    /\ undoing' = undoing \cup {Undo(i, clean'[i][m].attempt, m)}
    /\ UNCHANGED <<inst, task, reserved, containers, attempt, lock, cycle, op, boot, asked>>

-----------------------------------------------------------------------------
(* Leases and crashes.                                                     *)

\* Mutant: nobody renews the lease while the worker waits for docker.
LeaseExpiresWithoutHeartbeat(i) ==
    /\ task[i].status = "deploying" /\ task[i].live
    /\ task' = [task EXCEPT ![i].live = FALSE]
    /\ UNCHANGED <<inst, clean, reserved, containers, attempt, server, asked>>

\* A heartbeat renews the lease of a task for as long as the worker listens.
LeaseExpires(i) ==
    /\ task[i].status = "deploying" /\ task[i].live
    /\ task[i].cancel \/ ~\E n \in 1 .. AttemptLimit : attempt[<<i, n>>].active
    /\ task' = [task EXCEPT ![i].live = FALSE]
    /\ UNCHANGED <<inst, clean, reserved, containers, attempt, server, asked>>

\* Nothing renews the lease of a cleanup; here it lasts as long as the server works on it.
CleanupLeaseExpires(i, m) ==
    /\ clean[i][m].status = "cleaning" /\ clean[i][m].live
    /\ ~\E u \in undoing : u.inst = i /\ u.for = m
    /\ clean' = [clean EXCEPT ![i][m].live = FALSE]
    /\ UNCHANGED <<inst, task, reserved, containers, attempt, server, asked>>

\* The server dies and another starts: rows and containers survive.
Crash ==
    /\ boot < MaxCrashes /\ boot' = boot + 1
    /\ attempt' = [a \in Attempts |-> IF attempt[a].at = "none" THEN Idle
                                      ELSE [Idle EXCEPT !.at = "ended"]]
    /\ lock' = "free" /\ undoing' = {}
    /\ op' = [i \in Instances |-> None]
    /\ cycle' = [i \in Instances |-> Unread]
    /\ UNCHANGED <<inst, task, clean, reserved, containers, asked>>

-----------------------------------------------------------------------------
(* The reconciler: it reads the rows, asks docker, then acts on what it    *)
(* read, one instance after the other.                                     *)

Expected    == {"running", "degraded", "restarting", "gateway_starting"}
Recoverable == {"gateway_starting", "degraded", "unhealthy"}

\* Mutant: an interrupted deployment is not taken over.
InterruptedRestarts == {"restarting"}

Interrupted == {"deploying", "restarting"}

Reads(i) ==
    /\ Reconciles /\ cycle[i].at = "idle" /\ inst[i].status # "none"
    /\ ~\E u \in undoing : u.inst = i /\ u.for \in {"verified", "reconciled"}
    /\ cycle' = [cycle EXCEPT ![i] =
          [Unread EXCEPT !.at = "list", !.row = inst[i],
                         !.owned = task[i].status \in {"queued", "deploying", "retry_wait"}]]
    /\ UNCHANGED <<inst, task, clean, reserved, containers, attempt, lock, undoing, op, boot, asked>>

Lists(i) ==
    /\ cycle[i].at = "list"
    /\ cycle' = [cycle EXCEPT ![i].at = "act", ![i].found = containers[i]]
    /\ UNCHANGED <<inst, task, clean, reserved, containers, attempt, lock, undoing, op, boot, asked>>

Row(i) == cycle[i].row

BeingDeleted(row) ==
    row.status = "deleting" \/ (row.desired = "deleted" /\ row.status \notin {"deleted", "failed"})

\* Mutant: an instance that was compensated is not looked at again.
HasResidueUncompensated(row, found) ==
    \/ row.status = "deleted" /\ (found # "none" \/ ~row.verified)
    \/ row.status = "failed" /\ row.desired # "deleted" /\ ~row.compensated

HasResidue(row, found) ==
    \/ row.status = "deleted" /\ (found # "none" \/ ~row.verified)
    \/ row.status = "failed" /\ row.desired # "deleted" /\ (found # "none" \/ ~row.compensated)

\* Left to be compared with docker.
Compared(i) ==
    /\ ~BeingDeleted(Row(i)) /\ Row(i).status # "deleted" /\ ~HasResidue(Row(i), cycle[i].found)

Acts(i) ==
    /\ cycle[i].at = "act"
    /\ cycle' = [cycle EXCEPT ![i] = Unread]
    /\ UNCHANGED <<task, reserved, containers, attempt, lock, op, boot, asked>>

\* A deletion that was asked for is queued again until it is done.
RequeuesDeletion(i) ==
    /\ Acts(i) /\ BeingDeleted(Row(i))
    /\ inst' = [inst EXCEPT ![i].status = "deleting", ![i].desired = "deleted"]
    /\ clean' = [clean EXCEPT ![i]["delete"] = CleanupQueued(@)]
    /\ UNCHANGED undoing

\* What a deleted or a failed instance left in docker is removed.
RemovesResidue(i) ==
    /\ Acts(i) /\ ~BeingDeleted(Row(i)) /\ HasResidue(Row(i), cycle[i].found)
    /\ undoing' = undoing \cup
          {Undo(i, 0, IF Row(i).status = "deleted" THEN "verified" ELSE "reconciled")}
    /\ UNCHANGED <<inst, clean>>

\* A deployment that nobody has worked on for long is taken for started, or for lost.
RecoversTransition(i) ==
    /\ Acts(i) /\ Compared(i)
    /\ Row(i).status \in Interrupted /\ ~cycle[i].owned /\ op[i] = None
    /\ inst' = [inst EXCEPT ![i].status =
          IF cycle[i].found \in Ports THEN "gateway_starting"
          ELSE IF cycle[i].found = "none" THEN "degraded" ELSE "restarting"]
    /\ UNCHANGED <<clean, undoing>>

Degrades(i) ==
    /\ Acts(i) /\ Compared(i)
    /\ Row(i).status \in Expected \ Interrupted /\ cycle[i].found = "none"
    /\ inst' = [inst EXCEPT ![i].status = "degraded"]
    /\ UNCHANGED <<clean, undoing>>

\* The gateway answers: the status is read again, and whether the way to it is open is
\* asked before it is replaced.
ReadsAgain(i) ==
    /\ cycle[i].at = "act" /\ Compared(i)
    /\ Row(i).status \notin Interrupted /\ cycle[i].found \in Ports
    /\ inst[i].status \in Recoverable
    /\ cycle' = [cycle EXCEPT ![i].at = "promote"]
    /\ UNCHANGED <<inst, task, clean, reserved, containers, attempt, lock, undoing, op, boot, asked>>

Promotes(i) ==
    /\ cycle[i].at = "promote"
    /\ inst' = [inst EXCEPT ![i].status = "running"]
    /\ cycle' = [cycle EXCEPT ![i] = Unread]
    /\ UNCHANGED <<task, clean, reserved, containers, attempt, lock, undoing, op, boot, asked>>

\* Nothing to do: or the transition is young, or the gateway does not answer.
Passes(i) ==
    /\ Acts(i) /\ ~BeingDeleted(Row(i)) /\ ~HasResidue(Row(i), cycle[i].found)
    /\ ~(Row(i).status \in Expected \ Interrupted /\ cycle[i].found = "none")
    /\ UNCHANGED <<inst, clean, undoing>>

-----------------------------------------------------------------------------

AttemptAnswers(a) ==
    \/ DockerAnswers(a) \/ DockerDown(a) \/ FilesWritten(a) \/ FilesFail(a)
    \/ EngineAnswers(a) \/ EngineDown(a)
    \/ NetworkReady(a) \/ NetworkFails(a) \/ ImageReady(a) \/ ImageFails(a)
    \/ ContainersStart(a) \/ ContainersFail(a) \/ VerificationFails(a)
    \/ HealthUndecided(a) \/ Healthy(a) \/ \E status \in {"failed", "unhealthy"} : Unhealthy(a, status)

UndoAdvances(u) ==
    Removes(u) \/ LeavesContainers(u) \/ Releases(u) \/ FindsNoPort(u) \/ \E p \in Ports : RetriesOnAnotherPort(u, p)

Reconcile(i) ==
    \/ Reads(i) \/ Lists(i) \/ RequeuesDeletion(i) \/ RemovesResidue(i)
    \/ RecoversTransition(i) \/ Degrades(i) \/ ReadsAgain(i) \/ Promotes(i) \/ Passes(i)

Next ==
    \/ \E i \in Instances :
          \/ Provision(i) \/ RequestRetry(i) \/ OperationExpires(i) \/ ClaimTask(i)
          \/ LeaseExpires(i) \/ Reconcile(i)
          \/ \E m \in Modes : RequestRemoval(i, m) \/ ClaimCleanup(i, m) \/ CleanupLeaseExpires(i, m)
    \/ FailExhausted \/ NothingToClaim \/ Crash
    \/ \E a \in Attempts : AttemptAnswers(a) \/ CancellationSeen(a) \/ WatchdogFires(a)
    \/ \E u \in undoing : UndoAdvances(u) \/ DockerRefuses(u)

Spec == Init /\ [][Next]_vars

\* The timers of the server fire, and the clean-ups of docker end; nothing says that
\* docker answers an attempt.  A transition that lasts becomes stale, and a docker that
\* the reconciler asks again and again removes the containers in the end.
Fairness ==
    /\ WF_vars(FailExhausted) /\ WF_vars(NothingToClaim)
    /\ WF_vars(\E i \in Instances : ClaimTask(i))
    /\ \A i \in Instances, for \in Compensations \cup Modes \cup {"verified"} :
          WF_vars(\E u \in undoing : u.inst = i /\ u.for = for /\ (UndoAdvances(u) \/ DockerRefuses(u)))
    /\ \A a \in Attempts : WF_vars(CancellationSeen(a)) /\ WF_vars(WatchdogFires(a))
    /\ \A i \in Instances :
          /\ WF_vars(LeaseExpires(i)) /\ WF_vars(OperationExpires(i))
          /\ WF_vars(Reconcile(i)) /\ SF_vars(RecoversTransition(i))
          /\ SF_vars(\E u \in undoing : u.inst = i /\ u.for = "reconciled" /\ Removes(u))
          /\ \A m \in Modes : WF_vars(ClaimCleanup(i, m)) /\ WF_vars(CleanupLeaseExpires(i, m))

FairSpec == Spec /\ Fairness

-----------------------------------------------------------------------------
Statuses == {"none", "provisioning", "deploying", "gateway_starting", "running", "unhealthy",
             "failed", "restarting", "degraded", "archiving", "archived", "deleting", "deleted",
             "cleanup_failed", "frontend_missing_build"}

Rows == [status : Statuses, desired : {"running", "archived", "deleted"}, port : Ports \cup {None},
         compensated : BOOLEAN, verified : BOOLEAN]

TaskRows == [status : {"none", "queued", "retry_wait", "deploying", "success", "failed", "cancelled"},
             worker : 0 .. MaxCrashes \cup {None}, live : BOOLEAN, attempt : 0 .. AttemptLimit,
             max : 1 .. AttemptLimit, cancel : BOOLEAN]

CleanRows == [status : {"none", "queued", "cleaning", "retry_wait", "success", "failed"},
              live : BOOLEAN, attempt : 0 .. MaxCleanups]

AttemptRows ==
    [at : {"none", "ping", "files", "engine", "network", "image", "create", "health", "ended"},
     active : BOOLEAN, port : Ports \cup {None}]

Undos == [inst : Instances, no : 0 .. AttemptLimit \cup 0 .. MaxCleanups,
          stage : {"remove", "release"}, for : Compensations \cup Modes \cup {"verified"}]

CycleRows == [at : {"idle", "list", "act", "promote"}, row : Rows, owned : BOOLEAN,
              found : Ports \cup {"none", "residue"}]

\* The type of every row, of the worker, of the clean-ups and of the reconciler.
TypeOK ==
    /\ inst \in [Instances -> Rows]
    /\ task \in [Instances -> TaskRows]
    /\ clean \in [Instances -> [Modes -> CleanRows]]
    /\ reserved \subseteq Ports \X Instances
    /\ containers \in [Instances -> Ports \cup {"none", "residue"}]
    /\ attempt \in [Attempts -> AttemptRows]
    /\ lock \in {"free", "tick", "attempt"}
    /\ undoing \subseteq Undos
    /\ cycle \in [Instances -> CycleRows]
    /\ op \in [Instances -> Modes \cup {None}]
    /\ boot \in 0 .. MaxCrashes /\ removals \in 0 .. MaxRemovals /\ retries \in 0 .. MaxRetries

-----------------------------------------------------------------------------
WorkersOwn == {"cancelled", "failed", "timeout", "retry"}

\* The attempts the worker listens to or compensates.
Handled == {a \in Attempts : attempt[a].active}
           \cup {<<u.inst, u.no>> : u \in {v \in undoing : v.for \in WorkersOwn}}

\* The worker handles one attempt at a time, from its claim to the end of its
\* compensation, and isProcessingTask is held exactly then: however an attempt ends (in
\* a callback, thrown, cancelled, timed out), it gives the lock back, and once.
OneDeploymentAtATime ==
    /\ Cardinality(Handled) <= 1
    /\ Handled # {} <=> lock = "attempt"

\* An attempt that the worker listens to is the last claim of its task, by this server,
\* and nothing has settled the task behind its back or let its lease run out.  (A user who
\* retries revives a task that earlier attempts may still write to: DockerDown.)
ActiveIsCurrent ==
    \A a \in Attempts : attempt[a].active /\ retries = 0 =>
        /\ task[a[1]].status = "deploying" /\ task[a[1]].attempt = a[2]
        /\ task[a[1]].worker = boot /\ (task[a[1]].cancel \/ task[a[1]].live)

Waits(i) == task[i].status \in {"queued", "retry_wait"} /\ ~task[i].cancel
HoldsItsPort(i) == <<inst[i].port, i>> \in reserved

\* The reconciler ends a clean-up of an instance that it had read as failed.
ReconcilerCleans(i) == \E u \in undoing \ undoing' : u.inst = i /\ u.for = "reconciled"

\* A task that begins to wait for its next attempt has its instance's port reserved, and
\* as long as it waits nobody gives that port back but the reconciler: no compensation,
\* cleanup or late callback of an earlier attempt does.  (One does after a user has
\* retried while it was at work.)
WaitingHoldsItsPort ==
    [][\A i \in Instances : Waits(i)' /\ retries' = 0 =>
          \/ HoldsItsPort(i)'
          \/ Waits(i) /\ (HoldsItsPort(i) => ReconcilerCleans(i))]_vars

\* A deployment that succeeded is not overwritten by a watchdog, a compensation or a
\* late callback, although no write of a task's status looks at the status it replaces.
\* (After a retry by the user an earlier attempt's DockerDown may overwrite it.)
SuccessIsFinal ==
    [][\A i \in Instances : task[i].status = "success" /\ retries = 0 => task'[i].status = "success"]_vars

\* A deployment succeeds on the port its instance is configured with, whatever earlier
\* attempts left in docker, and never for an instance that is being removed.  (After a
\* retry by the user, earlier attempts and their compensations may still be at work.)
SuccessServes ==
    [][\A i \in Instances :
          task[i].status # "success" /\ task'[i].status = "success" /\ retries = 0 =>
          /\ containers[i] = inst[i].port
          /\ ~task[i].cancel /\ inst[i].status \notin Gone /\ inst[i].desired = "running"]_vars

\* An instance in "deleting" always has a cleanup that is not over: whoever wrote the
\* status, users, failing cleanups or a reconciler that had read it earlier.
DeletingIsQueued ==
    \A i \in Instances : inst[i].status = "deleting" =>
        clean[i]["delete"].status \in {"queued", "cleaning", "retry_wait"}

\* A deployment ends: a crash, a conflict of ports or a docker that hangs or refuses
\* leaves no task deploying forever.
DeploymentSettles ==
    \A i \in Instances :
        task[i].status \in {"queued", "retry_wait", "deploying"} ~>
            task[i].status \in {"success", "failed", "cancelled"}

\* No instance is shown as deploying forever, wherever the server died.
InstanceSettles ==
    \A i \in Instances :
        inst[i].status \in {"provisioning", "deploying"} ~>
            inst[i].status \notin {"provisioning", "deploying"}

\* What a failed deployment left in docker is removed, even what appears after its
\* compensation.
FailedLeavesNothing ==
    \A i \in Instances :
        inst[i].status = "failed" /\ containers[i] # "none" ~>
            inst[i].status # "failed" \/ containers[i] = "none"

\* A deletion does not hang: it is done, or reported as failed.
DeletingEnds ==
    \A i \in Instances : inst[i].status = "deleting" ~> inst[i].status # "deleting"
=============================================================================
