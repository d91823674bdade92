------------------------------ MODULE Upgrades ------------------------------
(***************************************************************************)
(* Upgrades and rollbacks of one instance: the flow that pulls an image,   *)
(* sets the running container aside under a backup name, starts a new one, *)
(* proves it and removes the backup, or puts the backup back; the lease of *)
(* the instance operation that keeps users out; a user who stops or        *)
(* redeploys; and the reconciler, which acts on a row and a list of        *)
(* containers it read earlier.                                             *)
(*                                                                         *)
(* The row and the containers outlive the server.  The lease, the set of   *)
(* active upgrades, the flows, the user's action and the reconciler's pass *)
(* do not.  A flow is cut where it awaits docker or the store, so that     *)
(* other actors and a crash fall between any two of its effects.           *)
(***************************************************************************)
EXTENDS Integers, FiniteSets

CONSTANTS
    Tags,         \* the image tags a user may ask for
    First,        \* the tag the instance runs at first
    MaxRequests,  \* bound: upgrades, bulk upgrades and rollbacks
    MaxEvents     \* bound: requests, stops, redeployments, passes of the reconciler and crashes together

ASSUME TagsAssumption == {"none", "latest"} \cap (Tags \cup {First}) = {}
ASSUME BoundsAssumption == {MaxRequests, MaxEvents} \subseteq Nat

VARIABLES
    row,      \* the instance: status, upgrade_status, image tag, previous tag, compensated with its network gone
    boxes,    \* its containers: id, name (0: its own, r: the backup of flow r), tag, whether it runs
    lease,    \* who holds the instance operation, Nobody when it is free
    active,   \* whether the instance is in activeUpgrades
    flow,     \* each upgrade or rollback: where it is, what it read of the row, whether it kept a backup
    user,     \* the stop or the redeployment at work, and the tag it read
    cycle,    \* the pass of the reconciler: the row and the container it read
    mishaps,  \* history: an error of docker or the proxy in the exchange of containers (docker), a user
              \* (intruded) or a late reconciler (stale) at work on it, a crash (died)
    asked     \* how many requests, stops, redeployments, passes and crashes there were

vars    == <<row, boxes, lease, active, flow, user, cycle, mishaps, asked>>
outside == <<user, cycle, asked>>

Reqs   == 1 .. MaxRequests
User   == MaxRequests + 1
Nobody == 0

NoFlow  == [at |-> "none", kind |-> "none", target |-> "none", kept |-> FALSE,
            seen |-> [status |-> "none", tag |-> "none", prev |-> "none"]]
Done    == [NoFlow EXCEPT !.at = "done"]
NoUser  == [at |-> "idle", tag |-> "none"]
NoBox   == [id |-> -1, up |-> FALSE]
NoCycle == [at |-> "idle", row |-> [status |-> "none", up |-> "none", clean |-> FALSE], box |-> NoBox]

\* A deployed instance at work.
Init ==
    /\ row = [status |-> "running", up |-> "none", tag |-> First, prev |-> "none", clean |-> FALSE]
    /\ boxes = {[id |-> 0, name |-> 0, tag |-> First, up |-> TRUE]}
    /\ lease = Nobody /\ active = FALSE
    /\ flow = [r \in Reqs |-> NoFlow]
    /\ user = NoUser /\ cycle = NoCycle
    /\ mishaps = {} /\ asked = 0

Happens == asked < MaxEvents /\ asked' = asked + 1

-----------------------------------------------------------------------------
(* The containers.  Names are unique, and so are the ports: a container    *)
(* starts only while no other of the instance runs.                        *)

Named(n)   == {b \in boxes : b.name = n}
Is(i)      == {b \in boxes : b.id = i}
MainUp     == \E b \in Named(0) : b.up
Without(S) == boxes' = boxes \ S
Sets(b, c) == boxes' = (boxes \ {b}) \cup {c}
Stops(S)   == boxes' = (boxes \ S) \cup {[b EXCEPT !.up = FALSE] : b \in S}
MayRun(b)  == \A c \in boxes \ {b} : ~c.up

Creates(i, t) ==
    LET b == [id |-> i, name |-> 0, tag |-> t, up |-> TRUE]
    IN  Named(0) = {} /\ MayRun(b) /\ boxes' = boxes \cup {b}

Writes(s, u) == row' = [row EXCEPT !.status = s, !.up = u]
Free(r)      == IF lease = r THEN Nobody ELSE lease
Befalls(m)   == mishaps' = mishaps \cup {m}

-----------------------------------------------------------------------------
(* A flow: from the request to the mark on the row.                        *)

AtRest   == {"none", "queued", "checking", "won", "lost", "done"}
Works(r) == flow[r].at \notin AtRest

At(r, a)   == flow[r].at = a
Goes(r, a) == flow' = [flow EXCEPT ![r].at = a]

\* The user and a flow are at work on the instance at the same time: a redeployment whose lease
\* expired is still at work when a flow reads the row, or the lease of a flow expired.
UserAt(a)   == user.at = a
Intrudes(p) == mishaps' = mishaps \cup (IF p THEN {"intruded"} ELSE {})

\* Mutant: a bulk upgrade that is refused leaves the row as it wrote it.
RefusesSilently(r, kind) ==
    /\ flow' = [flow EXCEPT ![r] = Done]
    /\ lease' = Free(r)
    /\ UNCHANGED <<row, boxes, active, mishaps>>

\* A bulk upgrade that is refused has already written upgrading, and writes failed.
Refuses(r, kind) ==
    /\ flow' = [flow EXCEPT ![r] = Done]
    /\ lease' = Free(r)
    /\ row' = IF kind = "bulk" THEN [row EXCEPT !.up = "failed"] ELSE row
    /\ UNCHANGED <<boxes, active, mishaps>>

\* A rollback goes to the tag recorded at the mark of the last flow.
Target(kind, t) == IF kind # "rollback" THEN t ELSE IF row.prev = "none" THEN "latest" ELSE row.prev

\* Mutant: the set of active upgrades is not looked at.
EntersAnyway(r, kind, t) ==
    /\ lease' = r
    /\ flow' = [flow EXCEPT ![r] =
         [NoFlow EXCEPT !.at = "checking", !.kind = kind, !.target = Target(kind, t),
                        !.seen = [status |-> row.status, tag |-> row.tag, prev |-> row.prev]]]
    /\ Intrudes(~UserAt("idle"))
    /\ UNCHANGED <<row, boxes, active>>

Enters(r, kind, t) ==
    \/ active /\ Refuses(r, kind)
    \/ /\ ~active /\ lease' = r
       /\ flow' = [flow EXCEPT ![r] =
            [NoFlow EXCEPT !.at = "checking", !.kind = kind, !.target = Target(kind, t),
                           !.seen = [status |-> row.status, tag |-> row.tag, prev |-> row.prev]]]
       /\ Intrudes(~UserAt("idle"))
       /\ UNCHANGED <<row, boxes, active>>

\* The routes answer 409 while the lease is held; a bulk upgrade writes the row before it has it.
Request(r) ==
    /\ At(r, "none") /\ \A q \in 1 .. r - 1 : ~At(q, "none")
    /\ lease = Nobody /\ Happens
    /\ \E kind \in {"upgrade", "bulk", "rollback"}, t \in Tags :
         \/ kind # "bulk" /\ Enters(r, kind, t)
         \/ /\ kind = "bulk"
            /\ row' = [row EXCEPT !.up = "upgrading"]
            /\ flow' = [flow EXCEPT ![r] = [NoFlow EXCEPT !.at = "queued", !.kind = kind, !.target = t]]
            /\ UNCHANGED <<boxes, lease, active, mishaps>>
    /\ UNCHANGED <<user, cycle>>

BulkTurn(r) ==
    /\ At(r, "queued")
    /\ \/ lease # Nobody /\ Refuses(r, "bulk")
       \/ lease = Nobody /\ Enters(r, "bulk", flow[r].target)
    /\ UNCHANGED outside

\* An upgrade needs a running container, a rollback of some runtimes a recorded tag.
Check(r) ==
    /\ At(r, "checking")
    /\ \/ /\ flow[r].kind = "rollback" \/ MainUp
          /\ row' = [row EXCEPT !.status = "upgrading", !.up = "upgrading", !.prev = flow[r].seen.tag]
          /\ active' = TRUE /\ Goes(r, "pulling")
          /\ UNCHANGED <<boxes, lease, mishaps>>
       \/ /\ \/ flow[r].kind # "rollback" /\ ~MainUp
             \/ flow[r].kind = "rollback" /\ flow[r].seen.prev = "none"
          /\ Refuses(r, flow[r].kind)
    /\ UNCHANGED outside

-----------------------------------------------------------------------------
(* A flow: pulling and building, while the old container still runs.       *)

\* Mutant: the row of a pull that failed stays as the mark left it.
FailEarlyUnwritten(r) ==
    /\ At(r, "pulling")
    /\ Goes(r, "lost")
    /\ UNCHANGED <<row, boxes, lease, active, mishaps, outside>>

\* The image cannot be pulled or built: the row is as it was, and a rollback keeps its point.
\* The configuration cannot be written: the error leaves the flow, and the point is lost.
FailEarly(r) ==
    /\ At(r, "pulling")
    /\ \E p \in {row.prev} \cup (IF flow[r].kind = "rollback" THEN {flow[r].seen.prev} ELSE {}) :
         row' = [row EXCEPT !.status = flow[r].seen.status, !.up = "failed", !.prev = p]
    /\ Goes(r, "lost")
    /\ UNCHANGED <<boxes, lease, active, mishaps, outside>>

\* The image is there: the old container is stopped, if there is one.  An error is swallowed: the
\* container that is set aside then still runs.
StopOld(r) ==
    /\ At(r, "pulling") /\ Goes(r, "renaming")
    /\ \/ Stops(Named(0)) /\ UNCHANGED mishaps
       \/ MainUp /\ Befalls("docker") /\ UNCHANGED boxes
    /\ UNCHANGED <<row, lease, active, outside>>

\* Mutant: the flow does not record that it kept the old container.
SetAsideForgotten(r) ==
    /\ At(r, "renaming") /\ Goes(r, "creating")
    /\ \/ \E b \in Named(0) : Sets(b, [b EXCEPT !.name = r]) /\ UNCHANGED mishaps
       \/ Named(0) # {} /\ Befalls("docker") /\ UNCHANGED boxes
       \/ Named(0) = {} /\ UNCHANGED <<boxes, mishaps>>
    /\ UNCHANGED <<row, lease, active, outside>>

\* The old container takes the backup name; when that fails the flow goes on without a backup.
SetAside(r) ==
    /\ At(r, "renaming")
    /\ \/ /\ \E b \in Named(0) : Sets(b, [b EXCEPT !.name = r])
          /\ flow' = [flow EXCEPT ![r].at = "creating", ![r].kept = TRUE]
          /\ UNCHANGED mishaps
       \/ Named(0) # {} /\ Befalls("docker") /\ Goes(r, "creating") /\ UNCHANGED boxes
       \/ Named(0) = {} /\ Goes(r, "creating") /\ UNCHANGED <<boxes, mishaps>>
    /\ UNCHANGED <<row, lease, active, outside>>

-----------------------------------------------------------------------------
(* A flow: the new container.                                              *)

Create(r) ==
    /\ At(r, "creating")
    /\ row' = [row EXCEPT !.clean = FALSE]
    /\ \/ Creates(r, flow[r].target) /\ Goes(r, "proving")
       \/ UNCHANGED boxes /\ Goes(r, "restoring")
    /\ UNCHANGED <<lease, active, mishaps, outside>>

\* Five seconds later it must run, and within half a minute its chat must answer.
Prove(r) ==
    /\ At(r, "proving")
    /\ \/ (\E b \in Is(r) : b.up /\ b.name = 0) /\ Goes(r, "proven") /\ UNCHANGED boxes
       \/ Without(Is(r)) /\ Goes(r, "restoring")
    /\ UNCHANGED <<row, lease, active, mishaps, outside>>

\* An error of the removal is swallowed: the backup stays.
DropBackup(r) ==
    /\ At(r, "proven") /\ Goes(r, "announcing")
    /\ \/ Without(Named(r)) /\ UNCHANGED mishaps
       \/ Named(r) # {} /\ Befalls("docker") /\ UNCHANGED boxes
    /\ UNCHANGED <<row, lease, active, outside>>

\* Mutant: the new tag is not recorded.
AnnounceUntagged(r) ==
    /\ At(r, "announcing")
    /\ \/ /\ row' = [row EXCEPT !.status = "running", !.up = "success"]
          /\ Goes(r, "won") /\ UNCHANGED <<boxes, mishaps>>
       \/ Befalls("docker") /\ Without(Is(r)) /\ Goes(r, "restoring") /\ UNCHANGED row
    /\ UNCHANGED <<lease, active, outside>>

\* The proxy is rebuilt after the backup is gone; an error of it ends the new container too.
Announce(r) ==
    /\ At(r, "announcing")
    /\ \/ /\ row' = [row EXCEPT !.status = "running", !.up = "success", !.tag = flow[r].target]
          /\ Goes(r, "won") /\ UNCHANGED <<boxes, mishaps>>
       \/ Befalls("docker") /\ Without(Is(r)) /\ Goes(r, "restoring") /\ UNCHANGED row
    /\ UNCHANGED <<lease, active, outside>>

-----------------------------------------------------------------------------
(* A flow: rollbackFlow, and the end.                                      *)

Fatal(r) == Writes("failed", "failed") /\ Goes(r, "lost")

\* Whatever has the name is removed, and the backup takes it and starts, if there is one.
Restore(r) ==
    /\ At(r, "restoring")
    /\ LET others == boxes \ Named(0)
       IN  \/ /\ flow[r].kept
              /\ \E b \in Named(r) :
                   /\ \A c \in others \ {b} : ~c.up
                   /\ boxes' = (others \ {b}) \cup {[b EXCEPT !.name = 0, !.up = TRUE]}
              /\ Goes(r, "restored") /\ UNCHANGED <<row, mishaps>>
           \/ /\ flow[r].kept /\ Fatal(r) /\ boxes' = others
              /\ mishaps' = mishaps \cup (IF Named(r) = {} THEN {} ELSE {"docker"})
           \/ ~flow[r].kept /\ boxes' = others /\ Goes(r, "restored") /\ UNCHANGED <<row, mishaps>>
    /\ UNCHANGED <<lease, active, outside>>

\* The restored container must run and its chat must answer.
Confirm(r) ==
    /\ At(r, "restored")
    /\ \/ MainUp /\ Writes("running", "failed") /\ Goes(r, "lost") /\ UNCHANGED mishaps
       \/ MainUp /\ Befalls("docker") /\ Fatal(r)
       \/ ~MainUp /\ Fatal(r) /\ UNCHANGED mishaps
    /\ UNCHANGED <<boxes, lease, active, outside>>

\* Mutant: the lease is left to expire.
EndsHolding(r) ==
    /\ flow[r].at \in {"won", "lost"}
    /\ flow' = [flow EXCEPT ![r] = Done]
    /\ active' = FALSE
    /\ UNCHANGED <<row, boxes, lease, mishaps, outside>>

\* The lease is released by its token; a bulk upgrade writes its failure once more.
End(r) ==
    /\ flow[r].at \in {"won", "lost"}
    /\ row' = IF At(r, "lost") /\ flow[r].kind = "bulk" THEN [row EXCEPT !.up = "failed"] ELSE row
    /\ flow' = [flow EXCEPT ![r] = Done]
    /\ active' = FALSE /\ lease' = Free(r)
    /\ UNCHANGED <<boxes, mishaps, outside>>

FlowStep(r) ==
    \/ BulkTurn(r) \/ Check(r) \/ FailEarly(r) \/ StopOld(r) \/ SetAside(r) \/ Create(r) \/ Prove(r)
    \/ DropBackup(r) \/ Announce(r) \/ Restore(r) \/ Confirm(r) \/ End(r)

-----------------------------------------------------------------------------
(* The user: stop and redeploy, each under the lease.                      *)

UserIdle == user' = NoUser /\ lease' = Free(User)

Asks ==
    /\ UserAt("idle") /\ lease = Nobody /\ Happens
    /\ lease' = User /\ Intrudes(active)
    /\ \/ user' = [at |-> "stopping", tag |-> row.tag] /\ UNCHANGED row
       \/ user' = [at |-> "clearing", tag |-> row.tag] /\ row' = [row EXCEPT !.status = "deploying"]
    /\ UNCHANGED <<boxes, active, flow, cycle>>

\* The container is stopped; docker refuses when there is none or it does not run.
Stop ==
    /\ UserAt("stopping")
    /\ \/ MainUp /\ Stops(Named(0)) /\ user' = [user EXCEPT !.at = "stopped"] /\ UNCHANGED lease
       \/ ~MainUp /\ UserIdle /\ UNCHANGED boxes
    /\ UNCHANGED <<row, active, flow, cycle, mishaps, asked>>

Stopped ==
    /\ UserAt("stopped")
    /\ row' = [row EXCEPT !.status = "stopped"] /\ UserIdle
    /\ UNCHANGED <<boxes, active, flow, cycle, mishaps, asked>>

\* cleanOldContainersOfInstance removes the backups with the rest.
Clear ==
    /\ UserAt("clearing")
    /\ boxes' = {} /\ user' = [user EXCEPT !.at = "deploying"]
    /\ UNCHANGED <<row, lease, active, flow, cycle, mishaps, asked>>

Deploy ==
    /\ UserAt("deploying")
    /\ \/ /\ Creates(User, user.tag) /\ row' = [row EXCEPT !.clean = FALSE]
          /\ user' = [user EXCEPT !.at = "checking"] /\ UNCHANGED lease
       \/ row' = [row EXCEPT !.status = "failed", !.clean = FALSE] /\ UserIdle /\ UNCHANGED boxes
    /\ UNCHANGED <<active, flow, cycle, mishaps, asked>>

Deployed ==
    /\ UserAt("checking")
    /\ \/ MainUp /\ row' = [row EXCEPT !.status = "running"]
       \/ row' = [row EXCEPT !.status = "failed"]
    /\ UserIdle
    /\ UNCHANGED <<boxes, active, flow, cycle, mishaps, asked>>

UserStep == Stop \/ Stopped \/ Clear \/ Deploy \/ Deployed

-----------------------------------------------------------------------------
(* The reconciler: it reads the row, then lists the containers, then acts. *)

ExpectedToRun == {"running", "degraded", "restarting", "gateway_starting"}
Recoverable   == {"gateway_starting", "stopped", "degraded"}

CycleAt(a) == cycle.at = a
RowRead    == [status |-> row.status, up |-> row.up, clean |-> row.clean]
BoxSeen    == IF Named(0) = {} THEN NoBox ELSE LET b == CHOOSE b \in Named(0) : TRUE IN [id |-> b.id, up |-> b.up]

\* It acts on what is no longer so.
Acts == mishaps' = mishaps \cup (IF cycle.row # RowRead \/ cycle.box # BoxSeen THEN {"stale"} ELSE {})

ReadRow ==
    /\ CycleAt("idle") /\ Happens
    /\ cycle' = [NoCycle EXCEPT !.at = "read", !.row = RowRead]
    /\ UNCHANGED <<row, boxes, lease, active, flow, user, mishaps>>

List ==
    /\ CycleAt("read")
    /\ cycle' = [cycle EXCEPT !.at = "listed", !.box = BoxSeen]
    /\ UNCHANGED <<row, boxes, lease, active, flow, user, mishaps, asked>>

Found    == cycle.box # NoBox
Failed   == cycle.row.status = "failed" /\ (Found \/ ~cycle.row.clean)
Skipped  == cycle.row.status \in {"deploying", "restarting"} \/ cycle.row.up = "upgrading"
Expected == cycle.row.status \in ExpectedToRun

\* A failed instance is cleared before it is asked whether an upgrade is at work.
Compensate ==
    /\ CycleAt("listed") /\ Failed /\ Acts
    /\ boxes' = {} /\ row' = [row EXCEPT !.clean = TRUE] /\ cycle' = NoCycle
    /\ UNCHANGED <<lease, active, flow, user, asked>>

\* A transition nobody owns and that is old is taken over, and the pass goes on with it.
Adopt ==
    /\ CycleAt("listed") /\ cycle.row.status \in {"deploying", "restarting"} /\ lease = Nobody /\ Acts
    /\ LET s == IF cycle.box.up THEN "gateway_starting" ELSE "restarting"
       IN  row' = [row EXCEPT !.status = s] /\ cycle' = [cycle EXCEPT !.at = "adopted", !.row.status = s]
    /\ UNCHANGED <<boxes, lease, active, flow, user, asked>>

Compares == \/ CycleAt("listed") /\ ~Failed /\ ~Skipped
            \/ CycleAt("adopted") /\ cycle.row.up # "upgrading"

\* By the id it listed, whatever name that container has now.
Heal ==
    /\ Compares /\ Found /\ ~cycle.box.up /\ Expected
    /\ \/ /\ \E b \in Is(cycle.box.id) : MayRun(b) /\ Sets(b, [b EXCEPT !.up = TRUE])
          /\ row' = [row EXCEPT !.status = "gateway_starting"] /\ Acts
       \/ UNCHANGED <<row, boxes, mishaps>>
    /\ cycle' = NoCycle
    /\ UNCHANGED <<lease, active, flow, user, asked>>

Miss ==
    /\ Compares /\ ~Found /\ Expected /\ Acts
    /\ row' = [row EXCEPT !.status = "degraded"] /\ cycle' = NoCycle
    /\ UNCHANGED <<boxes, lease, active, flow, user, asked>>

\* The row is read again, then the proxy is probed, then running is written.
Probe ==
    /\ Compares /\ cycle.box.up /\ row.status \in Recoverable
    /\ cycle' = [cycle EXCEPT !.at = "promoting", !.row = RowRead]
    /\ UNCHANGED <<row, boxes, lease, active, flow, user, mishaps, asked>>

Promote ==
    /\ CycleAt("promoting") /\ Acts
    /\ row' = [row EXCEPT !.status = "running"] /\ cycle' = NoCycle
    /\ UNCHANGED <<boxes, lease, active, flow, user, asked>>

\* Nothing to do, or a probe that did not succeed.
Leave ==
    /\ \/ CycleAt("listed") /\ ~Failed /\ Skipped
       \/ CycleAt("adopted") /\ cycle.row.up = "upgrading"
       \/ Compares /\ (cycle.box.up \/ ~Expected)
       \/ CycleAt("promoting")
    /\ cycle' = NoCycle
    /\ UNCHANGED <<row, boxes, lease, active, flow, user, mishaps, asked>>

CycleStep == ReadRow \/ List \/ Compensate \/ Adopt \/ Heal \/ Miss \/ Probe \/ Promote \/ Leave

-----------------------------------------------------------------------------
(* Time and crashes.                                                       *)

\* A lease lasts fifteen minutes and is not renewed; a pull may take longer, for an upgrade as for a
\* redeployment.
Expire ==
    /\ \/ lease \in Reqs /\ At(lease, "pulling")
       \/ lease = User /\ UserAt("deploying")
    /\ lease' = Nobody
    /\ UNCHANGED <<row, boxes, active, flow, user, cycle, mishaps, asked>>

Crash ==
    /\ Happens
    /\ flow' = [r \in Reqs |-> IF At(r, "none") THEN NoFlow ELSE Done]
    /\ lease' = Nobody /\ active' = FALSE /\ user' = NoUser /\ cycle' = NoCycle
    /\ Befalls("died")
    /\ UNCHANGED <<row, boxes>>

Next ==
    \/ \E r \in Reqs : Request(r) \/ FlowStep(r)
    \/ Asks \/ UserStep
    \/ CycleStep
    \/ Expire \/ Crash

Spec == Init /\ [][Next]_vars

\* Where a flow awaits docker, the proxy or, queued, the upgrades of other instances.  No limit is
\* set on any of these: the client of docker has no timeout, nor has a pull or the queue for it.
Awaits == {"queued", "checking", "pulling", "renaming", "creating", "proving", "proven", "announcing",
           "restoring", "restored"}

\* All that goes on for certain is a flow that waits for none of them.
FairSpec == Spec /\ \A r \in Reqs : WF_vars(End(r))

-----------------------------------------------------------------------------
(* What makes it correct.                                                  *)

Statuses == {"running", "stopped", "deploying", "restarting", "gateway_starting", "degraded",
             "upgrading", "failed"}
Versions == Tags \cup {First, "none", "latest"}

Quiet == user.at = "idle" /\ \A r \in Reqs : flow[r].at \in {"none", "queued", "checking", "done"}

\* The variables have their types, names and ids of containers are unique, and the lease is held
\* by a flow or a handler that is at work.
TypeOK ==
    /\ row \in [status : Statuses, up : {"none", "upgrading", "failed", "success"},
               tag : Versions, prev : Versions, clean : BOOLEAN]
    /\ boxes \subseteq [id : 0 .. User, name : 0 .. MaxRequests, tag : Versions, up : BOOLEAN]
    /\ \A b, c \in boxes : (b.id = c.id \/ b.name = c.name) => b = c
    /\ lease \in 0 .. User
    /\ lease \in Reqs => flow[lease].at \notin {"none", "queued", "done"}
    /\ lease = User => ~UserAt("idle")
    /\ active \in BOOLEAN /\ asked \in 0 .. MaxEvents

\* At most one upgrade or rollback is past its mark, also when the lease of the first expired
\* during a long pull (activeUpgrades).
OneFlow == \A q, r \in Reqs : Works(q) /\ Works(r) => q = r

\* While nothing else went wrong, an instance at rest that is called running has one container,
\* under its own name, at work, of the recorded tag: no backup is left and no tag is ahead.
ServiceKept ==
    Quiet /\ mishaps = {} /\ row.status = "running" =>
        \E b \in boxes : boxes = {b} /\ b.name = 0 /\ b.up /\ b.tag = row.tag

\* While nothing else went wrong, a flow that failed has given back the service it found: the old
\* container of the old tag runs under its name (buildPreStopUpgradeFailureState, rollbackFlow).
FailureGivesBack ==
    \A r \in Reqs : At(r, "lost") /\ mishaps = {} /\ flow[r].seen.status = "running" =>
        /\ row.status = "running"
        /\ \E b \in Named(0) : b.up /\ b.tag = flow[r].seen.tag

\* A row that says upgrading has a flow at work on it, unless the server died: the reconciler skips
\* such a row (reconciler.ts:489), so nothing else would bring it back.
UpgradingIsAtWork ==
    "died" \notin mishaps /\ "upgrading" \in {row.status, row.up} =>
        \E r \in Reqs : flow[r].at \notin {"none", "done"}

\* Every upgrade that is written down, a refused bulk upgrade and one that failed at any point
\* included, comes to an end on its row, unless the server died or a flow waits for ever: for docker,
\* or in the queue of a bulk upgrade.
UpgradeSettles ==
    \/ \E r \in Reqs : <>[](flow[r].at \in Awaits)
    \/ row.up = "upgrading" ~> (row.up # "upgrading" \/ "died" \in mishaps)

=============================================================================
