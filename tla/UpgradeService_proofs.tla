------------------------ MODULE UpgradeService_proofs ------------------------
(***************************************************************************)
(* Proofs about the service an upgrade leaves behind, for every set of     *)
(* tags and every bound: the types, that an instance at rest has one       *)
(* container of the recorded tag, and that a flow that failed has given    *)
(* back what it found.                                                     *)
(*                                                                         *)
(* The types need no more than who creates a container when: a flow makes  *)
(* its own once, and the user after clearing everything.  The service is   *)
(* an account of the containers at every stage of a flow.  It holds while  *)
(* nothing else befell the exchange (mishaps is empty): then the user and  *)
(* the flow are apart, the row of a flow at work says upgrading, and so a  *)
(* pass of the reconciler that sees what is so lets the instance be.       *)
(***************************************************************************)
EXTENDS Upgrades_proofs

BoxType   == [id : 0 .. User, name : 0 .. MaxRequests, tag : Versions, up : BOOLEAN]
RowType   == [status : Words, up : {"none", "upgrading", "failed", "success"},
              tag : Versions, prev : Versions, clean : BOOLEAN]
FlowType  == [at : Stages, kind : {"none", "upgrade", "bulk", "rollback"}, target : Versions,
              kept : BOOLEAN, seen : [status : Words, tag : Versions, prev : Versions]]
UserType  == [at : {"idle", "stopping", "stopped", "clearing", "deploying", "checking"}, tag : Versions]
CycleType == [at : {"idle", "read", "listed", "adopted", "promoting"},
              row : [status : Words, up : {"none", "upgrading", "failed", "success"}, clean : BOOLEAN],
              box : [id : -1 .. User, up : BOOLEAN]]

\* The types that Typing leaves out.
Shapes ==
    /\ boxes \subseteq BoxType
    /\ user \in UserType /\ cycle \in CycleType
    /\ active \in BOOLEAN /\ asked \in 0 .. MaxEvents

\* Ids and names are unique, as whoever is about to use one finds it free.
Unkept == {"none", "queued", "checking", "pulling", "renaming"}
Unmade == Unkept \cup {"creating"}

Unused(r) ==
    /\ flow[r].at \in Unmade => Is(r) = {}
    /\ flow[r].at \in Unkept => Named(r) = {}

Unique ==
    /\ \A b, c \in boxes : (b.id = c.id \/ b.name = c.name) => b = c
    /\ \A r \in Reqs : Unused(r)
    /\ UserAt("deploying") => Is(User) = {}

\* The words a row takes, also back from what a flow read, and the owner of a lease.
Worded ==
    /\ row.status \in Statuses
    /\ \A r \in Reqs : Busy(r) => flow[r].seen.status \in Statuses

Held ==
    /\ lease \in Reqs => Busy(lease)
    /\ lease = User => ~UserAt("idle")

Tidy == Inv /\ Shapes /\ Unique /\ Worded /\ Held

-----------------------------------------------------------------------------
(* The account of the containers, while nothing else went wrong.           *)

\* Under its own name, of the recorded tag; one that runs.
Plain  == \A b \in boxes : b.name = 0 /\ b.tag = row.tag
Served == \E b \in boxes : b.name = 0 /\ b.up

FoundRunning(r) == flow[r].seen.status = "running"
Moving(r)       == flow[r].at \in {"creating", "proving", "proven", "announcing", "restoring"}

\* At most the old container is there, under its backup name and at rest.
Aside(r, S) ==
    /\ \A b \in S : b.name = r /\ b.tag = row.tag /\ ~b.up
    /\ flow[r].kept <=> S # {}

Begun(r) ==
    /\ Busy(r) /\ ~At(r, "won") => flow[r].seen.tag = row.tag
    /\ flow[r].at \in {"checking", "lost"} /\ FoundRunning(r) => row.status = "running"
    /\ flow[r].at \in {"checking", "pulling", "renaming"} => ~flow[r].kept
    /\ flow[r].at \in {"pulling", "restored"} /\ FoundRunning(r) => Served
    /\ At(r, "renaming") => (FoundRunning(r) => boxes # {}) /\ \A b \in boxes : ~b.up

Exchanged(r) ==
    /\ Moving(r) /\ ~At(r, "announcing") /\ FoundRunning(r) => flow[r].kept
    /\ flow[r].at \in {"creating", "restoring"} => Aside(r, boxes)
    /\ flow[r].at \in {"proving", "proven"} =>
         /\ Aside(r, boxes \ Named(0))
         /\ Named(0) # {} /\ \A b \in Named(0) : b.id = r /\ b.tag = flow[r].target /\ b.up
    /\ At(r, "announcing") => Served /\ \A b \in boxes : b.name = 0 /\ b.tag = flow[r].target

\* The user and the flow are apart, and the row says that a flow is at work.
Apart ==
    /\ ~UserAt("idle") => user.tag = row.tag /\ \A r \in Reqs : ~Busy(r)
    /\ \A r \in Reqs : Works(r) => row.status = "upgrading"

\* An instance that is called running runs, and it has no backup unless a flow is in the exchange.
Runs ==
    /\ user.at \in {"idle", "stopping"} /\ row.status = "running" => Served
    /\ (\A r \in Reqs : ~Moving(r)) => Plain

\* A pass that is about to promote has seen a container at work and a row that may recover.
Promotes == CycleAt("promoting") => cycle.box.up /\ cycle.row.status \in Recoverable

Account == Apart /\ Runs /\ \A r \in Reqs : Begun(r) /\ Exchanged(r)

Service == Tidy /\ Promotes /\ (mishaps = {} => Account)

-----------------------------------------------------------------------------
(* What a step does to the containers.                                     *)

Apiece(S) == \A b, c \in S : (b.id = c.id \/ b.name = c.name) => b = c

\* The containers stay of their type and apart; no id but i and no name but 0 and n is new.
Alters(i, n) ==
    /\ boxes' \subseteq BoxType /\ Apiece(boxes')
    /\ \A c \in boxes' : c.id = i \/ \E b \in boxes : b.id = c.id
    /\ \A c \in boxes' : c.name \in {0, n} \/ \E b \in boxes : b.name = c.name

\* Some of them are left.
LEMMA Fewer ==
    ASSUME Tidy, NEW i, NEW n, boxes' \subseteq boxes
    PROVE  Alters(i, n)
  BY DEF Tidy, Shapes, Unique, Alters, Apiece

\* Some of them are left and one joins them, whose id and name none of those has.
LEMMA Joined ==
    ASSUME Tidy, NEW S, S \subseteq boxes, NEW c \in BoxType, boxes' = S \cup {c},
           \A d \in S : d.id # c.id /\ d.name # c.name
    PROVE  Alters(c.id, c.name)
  BY DEF Tidy, Shapes, Unique, Alters, Apiece

\* One of them is changed, and keeps its id.
LEMMA Changed ==
    ASSUME Tidy, NEW S, S \subseteq boxes, NEW b \in boxes, b \notin S, NEW c \in BoxType, c.id = b.id,
           boxes' = S \cup {c}, \A d \in S : d.name # c.name, NEW i
    PROVE  Alters(i, c.name)
  BY DEF Tidy, Shapes, Unique, Alters, Apiece

\* A name has one container at most.
LEMMA TheOnlyOne ==
    ASSUME Tidy, NEW n, NEW b \in Named(n)
    PROVE  Named(n) = {b} /\ b \in boxes /\ b.name = n
  BY DEF Tidy, Unique, Named

\* Those that are stopped are the same containers.
LEMMA Stilled ==
    ASSUME Tidy, NEW i, NEW n, Stops(Named(0))
    PROVE  /\ Alters(i, n)
           /\ \A c \in boxes' : \E b \in boxes : b.id = c.id /\ b.name = c.name /\ b.tag = c.tag
           /\ \A c \in boxes' : c.name = 0 => ~c.up
           /\ boxes # {} => boxes' # {}
<1>0. boxes \subseteq BoxType /\ \A b, c \in boxes : (b.id = c.id \/ b.name = c.name) => b = c
  BY DEF Tidy, Shapes, Unique
<1>1. CASE Named(0) = {}
  <2>1. boxes' = boxes
    BY <1>1 DEF Stops
  <2> QED
    BY <1>0, <1>1, <2>1 DEF Alters, Apiece, Named
<1>2. ASSUME NEW b \in Named(0) PROVE Alters(i, n) /\ boxes' # {}
         /\ (\A c \in boxes' : \E d \in boxes : d.id = c.id /\ d.name = c.name /\ d.tag = c.tag)
         /\ (\A c \in boxes' : c.name = 0 => ~c.up)
  <2>1. Named(0) = {b} /\ b \in boxes /\ b.name = 0
    BY TheOnlyOne
  <2>2. PICK c \in BoxType : c = [b EXCEPT !.up = FALSE]
    BY <1>0, <2>1 DEF BoxType
  <2>3. c.id = b.id /\ c.name = b.name /\ c.tag = b.tag /\ c.up = FALSE
    BY <1>0, <2>1, <2>2 DEF BoxType
  <2>4. boxes' = (boxes \ {b}) \cup {c}
    BY <2>1, <2>2 DEF Stops
  <2>5. Alters(i, n)
    BY <1>0, <2>1, <2>3, <2>4 DEF Alters, Apiece
  <2> QED
    BY <1>0, <2>1, <2>3, <2>4, <2>5
<1> QED
  BY <1>1, <1>2

\* A new container has the name and runs beside none.
LEMMA Created ==
    ASSUME Tidy, NEW i \in 0 .. User, NEW t \in Versions, Is(i) = {}, Creates(i, t)
    PROVE  /\ Alters(i, 0)
           /\ boxes' = boxes \cup {[id |-> i, name |-> 0, tag |-> t, up |-> TRUE]}
           /\ \A b \in boxes : b.name # 0 /\ b.id # i /\ ~b.up
<1>1. PICK c \in BoxType : c = [id |-> i, name |-> 0, tag |-> t, up |-> TRUE]
  <2>1. MaxRequests \in Nat
    BY BoundsAssumption
  <2>2. 0 \in 0 .. MaxRequests
    BY <2>1
  <2>3. PICK n \in 0 .. MaxRequests : n = 0
    BY <2>2
  <2> QED
    BY <2>3 DEF BoxType
<1>2. \A b \in boxes : b.name # 0 /\ b.id # i
  BY DEF Creates, Named, Is
<1>3. boxes' = boxes \cup {c} /\ \A b \in boxes \ {c} : ~b.up
  BY <1>1 DEF Creates, MayRun
<1>4. Alters(c.id, c.name)
  BY <1>1, <1>2, <1>3, Joined
<1> QED
  BY <1>1, <1>2, <1>3, <1>4

-----------------------------------------------------------------------------
(* The types: a step of one flow, and a step of anybody else.              *)

LEMMA FlowTidy ==
    ASSUME Tidy, Inv', NEW r \in Reqs, NEW i \in {-1, r}, NEW n \in {0, r}, Alters(i, n),
           flow'[r].at \in Unmade => flow[r].at \in Unmade /\ i # r,
           flow'[r].at \in Unkept => flow[r].at \in Unkept /\ n # r,
           \A q \in Reqs \ {r} : flow'[q] = flow[q],
           UNCHANGED <<user, cycle>>, active' \in BOOLEAN, asked' \in 0 .. MaxEvents,
           row'.status \in Statuses, Busy(r)' => flow'[r].seen.status \in Statuses,
           \/ lease' = lease /\ (Busy(r) => Busy(r)')
           \/ lease' = r /\ Busy(r)'
           \/ lease' = Free(r)
    PROVE  Tidy'
<1>0. \A q \in Reqs : q # 0 /\ q # -1 /\ q # User /\ q # Nobody
  BY BoundsAssumption DEF Reqs, User, Nobody
<1>1. Shapes'
  BY DEF Tidy, Shapes, Alters, UserType, CycleType, BoxType
<1>2. ASSUME NEW q \in Reqs PROVE Unused(q)'
  <2>1. flow'[q].at \in Unmade => flow[q].at \in Unmade /\ i # q
    BY <1>0
  <2>2. flow'[q].at \in Unkept => flow[q].at \in Unkept /\ n # q
    BY <1>0
  <2>3. Unused(q)
    BY DEF Tidy, Unique
  <2>4. flow'[q].at \in Unmade => Is(q)' = {}
    BY <2>1, <2>3 DEF Alters, Unused, Is
  <2>5. flow'[q].at \in Unkept => Named(q)' = {}
    BY <1>0, <2>2, <2>3 DEF Alters, Unused, Named
  <2> QED
    BY <2>4, <2>5 DEF Unused
<1>3. UserAt("deploying")' => Is(User)' = {}
  BY <1>0, BoundsAssumption DEF Tidy, Unique, Alters, Is, UserAt, User, Reqs
<1>4. Unique'
  BY <1>2, <1>3 DEF Unique, Alters, Apiece
<1>5. Worded'
  BY DEF Tidy, Worded, Busy
<1>6. Held'
  <2>1. User # Nobody
    BY BoundsAssumption DEF User, Nobody
  <2>2. UserAt("idle")' = UserAt("idle")
    BY DEF UserAt
  <2>3. \A q \in Reqs \ {r} : Busy(q)' = Busy(q)
    BY DEF Busy
  <2>4. Held
    BY DEF Tidy
  <2> QED
    BY <1>0, <2>1, <2>2, <2>3, <2>4 DEF Held, Free
<1> QED
  BY <1>1, <1>4, <1>5, <1>6 DEF Tidy

LEMMA ElsewhereTidy ==
    ASSUME Tidy, Inv', UNCHANGED flow, NEW i \in {-1, User}, Alters(i, 0),
           UserAt("deploying")' => i = -1 /\ (UserAt("deploying") \/ boxes' = {}),
           user' \in UserType, cycle' \in CycleType, active' \in BOOLEAN, asked' \in 0 .. MaxEvents,
           row'.status \in Statuses,
           \/ lease' = lease /\ (UserAt("idle")' => UserAt("idle"))
           \/ lease' = User /\ ~UserAt("idle")'
           \/ lease' = Free(User)
           \/ lease' = Nobody
    PROVE  Tidy'
<1>0. \A q \in Reqs : q # 0 /\ q # -1 /\ q # User /\ q # Nobody
  BY BoundsAssumption DEF Reqs, User, Nobody
<1>u. User # Nobody /\ User # -1
  BY BoundsAssumption DEF User, Nobody
<1>1. Shapes'
  BY DEF Shapes, Alters
<1>2. ASSUME NEW q \in Reqs PROVE Unused(q)'
  <2>1. Unused(q) /\ i # q
    BY <1>0 DEF Tidy, Unique
  <2>2. flow'[q].at \in Unmade => Is(q)' = {}
    BY <2>1 DEF Alters, Unused, Is
  <2>3. flow'[q].at \in Unkept => Named(q)' = {}
    BY <1>0, <2>1 DEF Alters, Unused, Named
  <2> QED
    BY <2>2, <2>3 DEF Unused
<1>3. UserAt("deploying")' => Is(User)' = {}
  BY <1>u DEF Tidy, Unique, Alters, Is
<1>4. Unique'
  BY <1>2, <1>3 DEF Unique, Alters, Apiece
<1>5. Worded'
  BY DEF Tidy, Worded, Busy
<1>6. Held'
  BY <1>0, <1>u DEF Tidy, Held, Busy, Free, UserAt
<1> QED
  BY <1>1, <1>4, <1>5, <1>6 DEF Tidy

\* A flow that goes from one stage to another.
LEMMA GoesTidy ==
    ASSUME Tidy, Inv', NEW r \in Reqs, NEW a \in Stages \ {"none", "queued", "done"}, Goes(r, a), Busy(r),
           NEW i \in {-1, r}, NEW n \in {0, r}, Alters(i, n),
           a \in Unmade => flow[r].at \in Unmade /\ i # r,
           a \in Unkept => flow[r].at \in Unkept /\ n # r,
           UNCHANGED <<lease, outside>>, active' \in BOOLEAN, row'.status \in Statuses
    PROVE  Tidy'
<1>1. flow'[r].at = a /\ flow'[r].seen = flow[r].seen /\ \A q \in Reqs \ {r} : flow'[q] = flow[q]
  BY Moves DEF Tidy, Inv
<1>2. Busy(r)'
  BY <1>1 DEF Busy
<1>3. flow'[r].seen.status \in Statuses
  BY <1>1 DEF Tidy, Worded
<1>4. UNCHANGED <<user, cycle, asked>> /\ asked \in 0 .. MaxEvents
  BY DEF outside, Tidy, Shapes
<1> QED
  BY <1>1, <1>2, <1>3, <1>4, FlowTidy

\* A flow that is over.
LEMMA DoneTidy ==
    ASSUME Tidy, Inv', NEW r \in Reqs, flow' = [flow EXCEPT ![r] = Done], lease' = Free(r),
           UNCHANGED <<boxes, outside>>, active' \in BOOLEAN,
           row' = row \/ row' = [row EXCEPT !.up = "failed"]
    PROVE  Tidy'
<1>1. flow'[r].at = "done" /\ \A q \in Reqs \ {r} : flow'[q] = flow[q]
  BY Ends DEF Tidy, Inv
<1>2. ~Busy(r)' /\ flow'[r].at \notin Unmade /\ flow'[r].at \notin Unkept
  BY <1>1 DEF Busy, Unmade, Unkept
<1>3. UNCHANGED <<user, cycle, asked>> /\ asked \in 0 .. MaxEvents
  BY DEF outside, Tidy, Shapes
<1>4. row'.status \in Statuses
  BY DEF Tidy, Inv, Typing, Worded
<1>5. Alters(-1, 0)
  BY Fewer
<1> QED
  BY <1>1, <1>2, <1>3, <1>4, <1>5, FlowTidy

\* A flow that enters, or is refused.
LEMMA EntersTidy ==
    ASSUME Tidy, Inv', NEW r \in Reqs, flow[r].at \in {"none", "queued"}, lease = Nobody,
           NEW kind \in {"upgrade", "bulk", "rollback"}, NEW t \in Versions, Enters(r, kind, t),
           UNCHANGED <<user, cycle>>, asked' \in 0 .. MaxEvents
    PROVE  Tidy'
<1>0. /\ flow \in [Reqs -> FlowType] /\ row \in RowType /\ row.status \in Statuses /\ active \in BOOLEAN
      /\ flow[r].at \in Unmade /\ flow[r].at \in Unkept
  BY DEF Tidy, Inv, Typing, FlowType, RowType, Worded, Shapes, Unmade, Unkept
<1>0a. Alters(-1, 0)
  BY Fewer DEF Enters, Refuses
<1>0b. r # -1 /\ r # 0
  BY BoundsAssumption DEF Reqs
<1>1. CASE active /\ Refuses(r, kind)
  <2>1. /\ flow' = [flow EXCEPT ![r] = Done] /\ lease' = Free(r) /\ UNCHANGED <<boxes, active>>
        /\ row' = row \/ row' = [row EXCEPT !.up = "failed"]
    BY <1>1 DEF Refuses
  <2>2. flow'[r].at = "done" /\ \A q \in Reqs \ {r} : flow'[q] = flow[q]
    BY <2>1, Ends DEF Tidy, Inv
  <2>3. ~Busy(r)' /\ flow'[r].at \notin Unmade /\ flow'[r].at \notin Unkept
    BY <2>2 DEF Busy, Unmade, Unkept
  <2>4. row'.status \in Statuses
    BY <1>0, <2>1 DEF RowType
  <2> QED
    BY <1>0, <1>0a, <2>1, <2>2, <2>3, <2>4, FlowTidy
<1>2. CASE ~active /\ ~(active /\ Refuses(r, kind))
  <2>1. PICK f : /\ f = [at |-> "checking", kind |-> kind, target |-> Target(kind, t), kept |-> FALSE,
                         seen |-> [status |-> row.status, tag |-> row.tag, prev |-> row.prev]]
                 /\ flow' = [flow EXCEPT ![r] = f]
    BY <1>2 DEF Enters, NoFlow
  <2>2. flow'[r] = f /\ \A q \in Reqs \ {r} : flow'[q] = flow[q]
    BY <1>0, <2>1
  <2>3. Busy(r)' /\ flow'[r].seen.status \in Statuses
    BY <1>0, <2>1, <2>2 DEF Busy
  <2>4. lease' = r /\ UNCHANGED <<row, active>>
    BY <1>2 DEF Enters
  <2> QED
    BY <1>0, <1>0a, <1>0b, <2>2, <2>3, <2>4, FlowTidy
<1> QED
  BY <1>1, <1>2 DEF Enters

\* The steps of a flow.
LEMMA FlowsTidy ==
    ASSUME Tidy, Inv', NEW r \in Reqs, Request(r) \/ FlowStep(r)
    PROVE  Tidy'
<1> USE DEF At
<1>0. /\ flow \in [Reqs -> FlowType] /\ row \in RowType /\ row.status \in Statuses /\ active \in BOOLEAN
      /\ asked \in 0 .. MaxEvents /\ boxes \subseteq BoxType /\ Unused(r)
      /\ \A b, c \in boxes : (b.id = c.id \/ b.name = c.name) => b = c
  BY DEF Tidy, Inv, Typing, FlowType, RowType, Worded, Shapes, Unique
<1>r. r \in 0 .. User /\ r \in 0 .. MaxRequests /\ r # -1 /\ r # 0
  BY BoundsAssumption DEF Reqs, User
<1>a. \A a \in Stages \ {"none", "queued", "done"} : flow[r].at = a => Busy(r)
  BY DEF Busy
<1>b. boxes' \subseteq boxes => Alters(-1, 0)
  BY Fewer
<1>1. CASE Request(r)
  <2>1. PICK kind \in {"upgrade", "bulk", "rollback"}, t \in Tags :
          \/ kind # "bulk" /\ Enters(r, kind, t)
          \/ /\ kind = "bulk"
             /\ row' = [row EXCEPT !.up = "upgrading"]
             /\ flow' = [flow EXCEPT ![r] = [NoFlow EXCEPT !.at = "queued", !.kind = kind, !.target = t]]
             /\ UNCHANGED <<boxes, lease, active, mishaps>>
    BY <1>1 DEF Request
  <2>2. /\ flow[r].at = "none" /\ lease = Nobody /\ t \in Versions
        /\ UNCHANGED <<user, cycle>> /\ asked' \in 0 .. MaxEvents
    <3>1. asked < MaxEvents /\ asked' = asked + 1 /\ MaxEvents \in Nat
      BY <1>1, BoundsAssumption DEF Request, Happens
    <3>2. asked' \in 0 .. MaxEvents
      BY <1>0, <3>1
    <3> QED
      BY <1>1, <3>2 DEF Request, Versions
  <2>3. CASE kind # "bulk" /\ Enters(r, kind, t)
    BY <2>2, <2>3, EntersTidy
  <2>4. CASE /\ row' = [row EXCEPT !.up = "upgrading"]
             /\ flow' = [flow EXCEPT ![r] = [NoFlow EXCEPT !.at = "queued", !.kind = kind, !.target = t]]
             /\ UNCHANGED <<boxes, lease, active, mishaps>>
    <3>1. /\ flow'[r].at = "queued" /\ \A q \in Reqs \ {r} : flow'[q] = flow[q]
          /\ row'.status = row.status
      BY <1>0, <2>4 DEF NoFlow, RowType
    <3>2. ~Busy(r)' /\ ~Busy(r) /\ flow[r].at \in Unmade /\ flow[r].at \in Unkept
      BY <2>2, <3>1 DEF Busy, Unmade, Unkept
    <3> QED
      BY <1>0, <1>b, <1>r, <2>2, <2>4, <3>1, <3>2, FlowTidy
  <2> QED
    BY <2>1, <2>3, <2>4
<1>2. CASE BulkTurn(r)
  <2>1. CASE lease # Nobody /\ Refuses(r, "bulk")
    BY <1>0, <1>2, <2>1, DoneTidy DEF BulkTurn, Refuses
  <2>2. CASE lease = Nobody /\ Enters(r, "bulk", flow[r].target)
    <3>1. PICK t \in Versions : t = flow[r].target
      BY <1>0 DEF FlowType
    <3>2. UNCHANGED <<user, cycle, asked>>
      BY <1>2 DEF BulkTurn, outside
    <3> QED
      BY <1>0, <1>2, <2>2, <3>1, <3>2, EntersTidy DEF BulkTurn
  <2> QED
    BY <1>2, <2>1, <2>2 DEF BulkTurn
<1>3. CASE Check(r)
  <2>1. CASE Refuses(r, flow[r].kind)
    BY <1>0, <1>3, <2>1, DoneTidy DEF Check, Refuses
  <2>2. CASE /\ row' = [row EXCEPT !.status = "upgrading", !.up = "upgrading", !.prev = flow[r].seen.tag]
             /\ active' = TRUE /\ Goes(r, "pulling")
             /\ UNCHANGED <<boxes, lease, mishaps>>
    <3>1. "pulling" \in Stages /\ flow[r].at \in Unmade /\ flow[r].at \in Unkept /\ UNCHANGED outside
      BY <1>3 DEF Check, Stages, Unmade, Unkept
    <3>2. row'.status \in Statuses
      BY <1>0, <2>2 DEF RowType, Statuses
    <3>3. Busy(r)
      BY <1>3 DEF Check, Busy
    <3> QED
      BY <1>b, <1>r, <2>2, <3>1, <3>2, <3>3, GoesTidy
  <2> QED
    BY <1>3, <2>1, <2>2 DEF Check
<1>4. CASE FailEarly(r)
  <2>1. /\ Busy(r) /\ Goes(r, "lost") /\ UNCHANGED <<boxes, lease, active, outside>> /\ "lost" \in Stages
        /\ "lost" \notin Unmade /\ "lost" \notin Unkept
    BY <1>4 DEF FailEarly, Busy, Stages, Unmade, Unkept
  <2>2. row'.status = flow[r].seen.status
    BY <1>0, <1>4 DEF FailEarly, RowType
  <2>3. row'.status \in Statuses
    BY <2>1, <2>2 DEF Tidy, Worded
  <2> QED
    BY <1>0, <1>b, <2>1, <2>3, GoesTidy
<1>5. CASE StopOld(r)
  <2>1. /\ Busy(r) /\ Goes(r, "renaming") /\ UNCHANGED <<row, lease, active, outside>> /\ "renaming" \in Stages
        /\ flow[r].at \in Unmade /\ flow[r].at \in Unkept
    BY <1>5 DEF StopOld, Busy, Stages, Unmade, Unkept
  <2>2. Alters(-1, 0)
    BY <1>5, Stilled, Fewer DEF StopOld
  <2> QED
    BY <1>0, <1>r, <2>1, <2>2, GoesTidy
<1>6. CASE SetAside(r)
  <2>1. /\ Busy(r) /\ UNCHANGED <<row, lease, active, outside>>
        /\ "creating" \in Stages \ {"none", "queued", "done"} /\ flow[r].at \in Unmade
        /\ flow[r].at \in Unkept /\ "creating" \notin Unkept
    BY <1>6 DEF SetAside, Busy, Stages, Unmade, Unkept
  <2>2. CASE Goes(r, "creating") /\ UNCHANGED boxes
    BY <1>0, <1>b, <1>r, <2>1, <2>2, GoesTidy
  <2>3. CASE /\ \E b \in Named(0) : Sets(b, [b EXCEPT !.name = r])
             /\ flow' = [flow EXCEPT ![r].at = "creating", ![r].kept = TRUE]
    <3>0. PICK b \in Named(0) : Sets(b, [b EXCEPT !.name = r])
      BY <2>3
    <3>1. boxes' = (boxes \ {b}) \cup {[b EXCEPT !.name = r]}
      BY <3>0 DEF Sets
    <3>2. b \in boxes /\ b \in BoxType
      BY <1>0, <3>0 DEF Named
    <3>3. PICK c \in BoxType : c = [b EXCEPT !.name = r]
      BY <1>r, <3>2 DEF BoxType
    <3>4. c.id = b.id /\ c.name = r
      BY <3>2, <3>3 DEF BoxType
    <3>5. \A d \in boxes \ {b} : d.name # c.name
      BY <1>0, <2>1, <3>4 DEF Unused, Named
    <3>6. Alters(-1, r)
      BY <3>1, <3>2, <3>3, <3>4, <3>5, Changed
    <3>7. /\ flow'[r].at = "creating" /\ flow'[r].seen = flow[r].seen
          /\ \A q \in Reqs \ {r} : flow'[q] = flow[q]
      BY <1>0, <2>3 DEF FlowType
    <3>8. Busy(r)' /\ flow'[r].seen.status \in Statuses /\ UNCHANGED <<user, cycle, asked>>
      BY <2>1, <3>7 DEF Busy, Tidy, Worded, outside
    <3> QED
      BY <1>0, <1>r, <2>1, <3>6, <3>7, <3>8, FlowTidy
  <2> QED
    BY <1>6, <2>2, <2>3 DEF SetAside
<1>7. CASE Create(r)
  <2>1. /\ Busy(r) /\ row' = [row EXCEPT !.clean = FALSE] /\ UNCHANGED <<lease, active, outside>>
        /\ {"proving", "restoring"} \subseteq Stages \ (Unmade \cup Unkept \cup {"done"}) /\ Is(r) = {}
    BY <1>0, <1>7 DEF Create, Busy, Stages, Unmade, Unkept, Unused
  <2>2. row'.status \in Statuses
    BY <1>0, <2>1 DEF RowType
  <2>3. CASE Creates(r, flow[r].target) /\ Goes(r, "proving")
    <3>1. PICK t \in Versions : t = flow[r].target
      BY <1>0 DEF FlowType
    <3>2. Alters(r, 0)
      BY <1>r, <2>1, <2>3, <3>1, Created
    <3> QED
      BY <1>0, <2>1, <2>2, <2>3, <3>2, GoesTidy DEF Unmade, Unkept
  <2>4. CASE UNCHANGED boxes /\ Goes(r, "restoring")
    BY <1>0, <1>b, <2>1, <2>2, <2>4, GoesTidy DEF Unmade, Unkept
  <2> QED
    BY <1>7, <2>3, <2>4 DEF Create
<1>8. CASE Prove(r)
  <2>1. /\ Busy(r) /\ UNCHANGED <<row, lease, active, outside>> /\ boxes' \subseteq boxes
        /\ Goes(r, "proven") \/ Goes(r, "restoring")
    BY <1>8 DEF Prove, Busy, Without
  <2> QED
    BY <1>0, <1>b, <2>1, GoesTidy DEF Stages, Unmade, Unkept
<1>9. CASE DropBackup(r)
  <2>1. /\ Busy(r) /\ UNCHANGED <<row, lease, active, outside>> /\ boxes' \subseteq boxes
        /\ Goes(r, "announcing")
    BY <1>9 DEF DropBackup, Busy, Without
  <2> QED
    BY <1>0, <1>b, <2>1, GoesTidy DEF Stages, Unmade, Unkept
<1>10. CASE Announce(r)
  <2>1. /\ Busy(r) /\ UNCHANGED <<lease, active, outside>> /\ boxes' \subseteq boxes
        /\ Goes(r, "won") \/ Goes(r, "restoring")
        /\ row' = row \/ row' = [row EXCEPT !.status = "running", !.up = "success", !.tag = flow[r].target]
    BY <1>10 DEF Announce, Busy, Without
  <2>2. row'.status \in Statuses
    BY <1>0, <2>1 DEF RowType, Statuses
  <2> QED
    BY <1>0, <1>b, <2>1, <2>2, GoesTidy DEF Stages, Unmade, Unkept
<1>11. CASE Restore(r)
  <2>1. /\ Busy(r) /\ UNCHANGED <<lease, active, outside>>
        /\ Goes(r, "lost") \/ Goes(r, "restored")
        /\ row' = row \/ row' = [row EXCEPT !.status = "failed", !.up = "failed"]
    BY <1>11 DEF Restore, Busy, Fatal, Writes
  <2>2. row'.status \in Statuses
    BY <1>0, <2>1 DEF RowType, Statuses
  <2>3. Alters(-1, 0)
    <3>1. CASE boxes' = boxes \ Named(0)
      BY <1>b, <3>1
    <3>2. CASE \E b \in Named(r) : boxes' = ((boxes \ Named(0)) \ {b}) \cup {[b EXCEPT !.name = 0, !.up = TRUE]}
      <4>1. PICK b \in Named(r) : boxes' = ((boxes \ Named(0)) \ {b}) \cup {[b EXCEPT !.name = 0, !.up = TRUE]}
        BY <3>2
      <4>2. b \in boxes /\ b \in BoxType
        BY <1>0, <4>1 DEF Named
      <4>3. 0 \in 0 .. MaxRequests
        BY BoundsAssumption
      <4>4. PICK c \in BoxType : c = [b EXCEPT !.name = 0, !.up = TRUE]
        BY <4>2, <4>3 DEF BoxType
      <4>5. c.id = b.id /\ c.name = 0
        BY <4>2, <4>4 DEF BoxType
      <4>6. \A d \in (boxes \ Named(0)) \ {b} : d.name # c.name
        BY <4>5 DEF Named
      <4>7. (boxes \ Named(0)) \ {b} \subseteq boxes /\ b \notin (boxes \ Named(0)) \ {b}
        OBVIOUS
      <4>8. Alters(-1, c.name)
        BY <4>1, <4>2, <4>4, <4>5, <4>6, <4>7, Changed
      <4> QED
        BY <4>5, <4>8
    <3> QED
      BY <1>11, <3>1, <3>2 DEF Restore
  <2> QED
    BY <1>0, <2>1, <2>2, <2>3, GoesTidy DEF Stages, Unmade, Unkept
<1>12. CASE Confirm(r)
  <2>1. /\ Busy(r) /\ UNCHANGED <<boxes, lease, active, outside>> /\ Goes(r, "lost")
        /\ \/ row' = [row EXCEPT !.status = "running", !.up = "failed"]
           \/ row' = [row EXCEPT !.status = "failed", !.up = "failed"]
    BY <1>12 DEF Confirm, Busy, Fatal, Writes
  <2>2. row'.status \in Statuses
    BY <1>0, <2>1 DEF RowType, Statuses
  <2> QED
    BY <1>0, <1>b, <2>1, <2>2, GoesTidy DEF Stages, Unmade, Unkept
<1>13. CASE End(r)
  <2>1. row' = row \/ row' = [row EXCEPT !.up = "failed"]
    BY <1>13 DEF End
  <2> QED
    BY <1>13, <2>1, DoneTidy DEF End
<1> QED
  BY <1>1, <1>2, <1>3, <1>4, <1>5, <1>6, <1>7, <1>8, <1>9, <1>10, <1>11, <1>12, <1>13 DEF FlowStep

\* What the reconciler remembers of what it reads.
LEMMA CycleTyped ==
    ASSUME Tidy, CycleStep
    PROVE  cycle' \in CycleType
<1> DEFINE Row == [status : Words, up : {"none", "upgrading", "failed", "success"}, clean : BOOLEAN]
           Box == [id : -1 .. User, up : BOOLEAN]
<1>1. cycle \in [at : {"idle", "read", "listed", "adopted", "promoting"}, row : Row, box : Box]
  BY DEF Tidy, Shapes, CycleType
<1>2. RowRead \in Row /\ NoCycle.row \in Row
  BY DEF RowRead, NoCycle, Tidy, Inv, Typing, Words
<1>3. NoBox \in Box
  BY BoundsAssumption DEF NoBox, User
<1>4. BoxSeen \in Box
  <2>1. CASE Named(0) = {}
    BY <1>3, <2>1 DEF BoxSeen
  <2>2. ASSUME NEW b \in Named(0) PROVE BoxSeen \in Box
    <3>1. Named(0) = {b} /\ b \in boxes
      BY TheOnlyOne
    <3>2. BoxSeen = [id |-> b.id, up |-> b.up]
      BY <3>1 DEF BoxSeen
    <3>3. b.id \in 0 .. User /\ b.up \in BOOLEAN
      BY <3>1 DEF Tidy, Shapes, BoxType
    <3>4. b.id \in -1 .. User
      BY <3>3, BoundsAssumption DEF User
    <3> QED
      BY <3>2, <3>3, <3>4
  <2> QED
    BY <2>1, <2>2
<1>c. NoCycle \in [at : {"idle"}, row : Row, box : Box]
  BY <1>2, <1>3 DEF NoCycle
<1> HIDE DEF Row, Box
<1>5. CASE ReadRow
  BY <1>2, <1>c, <1>5 DEF ReadRow, CycleType, Row, Box
<1>6. CASE List
  BY <1>1, <1>4, <1>6 DEF List, CycleType, Row, Box
<1>7. CASE Adopt
  <2>1. PICK s \in Words : cycle' = [cycle EXCEPT !.at = "adopted", !.row.status = s]
    BY <1>7 DEF Adopt, Words, Statuses
  <2>2. PICK w \in Row : w = [cycle.row EXCEPT !.status = s]
    BY <1>1 DEF Row
  <2>3. cycle' = [cycle EXCEPT !.at = "adopted", !.row = w]
    BY <1>1, <2>1, <2>2
  <2> QED
    BY <1>1, <2>3 DEF CycleType, Row, Box
<1>8. CASE Probe
  BY <1>1, <1>2, <1>8 DEF Probe, CycleType, Row, Box
<1>9. CASE cycle' = NoCycle
  BY <1>c, <1>9 DEF CycleType, Row, Box
<1> QED
  BY <1>5, <1>6, <1>7, <1>8, <1>9 DEF CycleStep, Compensate, Heal, Miss, Promote, Leave

\* The steps of the user, of the reconciler, of time, and a crash.
LEMMA OthersTidy ==
    ASSUME Tidy, Inv', Asks \/ UserStep \/ CycleStep \/ Expire
    PROVE  Tidy'
<1>0. /\ row \in RowType /\ row.status \in Statuses /\ active \in BOOLEAN
      /\ asked \in 0 .. MaxEvents /\ boxes \subseteq BoxType /\ user \in UserType /\ cycle \in CycleType
      /\ \A b, c \in boxes : (b.id = c.id \/ b.name = c.name) => b = c
  BY DEF Tidy, Inv, Typing, RowType, Worded, Shapes, Unique
<1>u. User \in 0 .. User /\ User # -1
  BY BoundsAssumption DEF User
<1>b. boxes' \subseteq boxes => \A i \in {-1, User} : Alters(i, 0)
  BY Fewer
<1>h. Happens => asked' \in 0 .. MaxEvents
  <2>1. MaxEvents \in Nat
    BY BoundsAssumption
  <2> QED
    BY <1>0, <2>1 DEF Happens
<1>s. /\ {"running", "stopped", "deploying", "restarting", "gateway_starting", "degraded", "failed"} \subseteq Statuses
      /\ \A s \in Statuses : row' = [row EXCEPT !.status = s] => row'.status \in Statuses
      /\ \A c \in BOOLEAN : row' = [row EXCEPT !.clean = c] => row'.status \in Statuses
      /\ \A s \in Statuses, c \in BOOLEAN :
           row' = [row EXCEPT !.status = s, !.clean = c] => row'.status \in Statuses
  BY <1>0 DEF RowType, Statuses
<1>n. NoUser \in UserType /\ NoUser.at = "idle"
  BY DEF NoUser, UserType, Versions
<1>t. row.tag \in Versions /\ user.tag \in Versions
  BY <1>0 DEF RowType, UserType
<1>1. CASE Asks
  <2>1. \/ user' = [at |-> "stopping", tag |-> row.tag] /\ UNCHANGED row
        \/ user' = [at |-> "clearing", tag |-> row.tag] /\ row' = [row EXCEPT !.status = "deploying"]
    BY <1>1 DEF Asks
  <2>t. PICK t \in Versions : t = row.tag
    BY <1>t
  <2>s. row'.status \in Statuses
    BY <1>0, <1>s, <2>1
  <2>2. user' \in UserType /\ user'.at \in {"stopping", "clearing"}
    BY <2>1, <2>t DEF UserType
  <2> QED
    BY <1>0, <1>1, <1>b, <1>h, <2>2, <2>s, ElsewhereTidy DEF Asks, UserAt
<1>2. CASE UserStep
  <2>0. UNCHANGED <<flow, cycle, active, asked>>
    BY <1>2 DEF UserStep, Stop, Stopped, Clear, Deploy, Deployed
  <2>1. CASE Stop
    <3>1. CASE MainUp /\ Stops(Named(0)) /\ user' = [user EXCEPT !.at = "stopped"] /\ UNCHANGED lease
      <4>1. user' \in UserType /\ user'.at = "stopped"
        BY <1>0, <3>1 DEF UserType
      <4>2. Alters(-1, 0)
        BY <3>1, Stilled
      <4> QED
        BY <1>0, <2>0, <2>1, <3>1, <4>1, <4>2, ElsewhereTidy DEF Stop, UserAt
    <3>2. CASE UserIdle /\ UNCHANGED boxes
      BY <1>0, <1>b, <1>n, <2>0, <2>1, <3>2, ElsewhereTidy DEF Stop, UserIdle, UserAt
    <3> QED
      BY <2>1, <3>1, <3>2 DEF Stop
  <2>2. CASE Stopped
    BY <1>0, <1>b, <1>n, <1>s, <2>0, <2>2, ElsewhereTidy DEF Stopped, UserIdle, UserAt
  <2>3. CASE Clear
    <3>1. user' \in UserType /\ user'.at = "deploying" /\ boxes' = {} /\ lease' = lease /\ row' = row
      BY <1>0, <2>3 DEF Clear, UserType
    <3>2. UserAt("idle")' => UserAt("idle")
      BY <3>1 DEF UserAt
    <3> QED
      BY <1>0, <1>b, <2>0, <3>1, <3>2, ElsewhereTidy
  <2>4. CASE Deploy
    <3>1. CASE Creates(User, user.tag) /\ row' = [row EXCEPT !.clean = FALSE]
               /\ user' = [user EXCEPT !.at = "checking"] /\ UNCHANGED lease
      <4>1. user' \in UserType /\ user'.at = "checking"
        BY <1>0, <3>1 DEF UserType
      <4>2. Is(User) = {}
        BY <2>4 DEF Deploy, Tidy, Unique
      <4>3. Alters(User, 0)
        BY <1>t, <1>u, <3>1, <4>2, Created
      <4>4. row'.status \in Statuses
        BY <1>s, <3>1
      <4>5. ~UserAt("idle")' /\ ~UserAt("deploying")'
        BY <4>1 DEF UserAt
      <4> QED
        BY <1>0, <2>0, <3>1, <4>1, <4>3, <4>4, <4>5, ElsewhereTidy
    <3>2. CASE row' = [row EXCEPT !.status = "failed", !.clean = FALSE] /\ UserIdle /\ UNCHANGED boxes
      BY <1>0, <1>b, <1>n, <1>s, <2>0, <3>2, ElsewhereTidy DEF UserIdle, UserAt
    <3> QED
      BY <2>4, <3>1, <3>2 DEF Deploy
  <2>5. CASE Deployed
    <3>1. row'.status \in Statuses /\ UserIdle /\ UNCHANGED boxes
      BY <1>s, <2>5 DEF Deployed
    <3> QED
      BY <1>0, <1>b, <1>n, <2>0, <3>1, ElsewhereTidy DEF UserIdle, UserAt
  <2> QED
    BY <1>2, <2>1, <2>2, <2>3, <2>4, <2>5 DEF UserStep
<1>3. CASE CycleStep
  <2>0. UNCHANGED <<flow, user, active, lease>> /\ asked' \in 0 .. MaxEvents
    BY <1>0, <1>3, <1>h DEF CycleStep, ReadRow, List, Compensate, Adopt, Heal, Miss, Probe, Promote, Leave
  <2>1. cycle' \in CycleType
    BY <1>3, CycleTyped
  <2>2. row'.status \in Statuses
    <3>1. CASE ReadRow \/ List \/ Probe \/ Leave
      BY <1>0, <3>1 DEF ReadRow, List, Probe, Leave
    <3>2. CASE Compensate
      BY <1>s, <3>2 DEF Compensate
    <3>3. CASE Adopt
      BY <1>s, <3>3 DEF Adopt
    <3>4. CASE Heal
      BY <1>0, <1>s, <3>4 DEF Heal
    <3>5. CASE Miss \/ Promote
      BY <1>s, <3>5 DEF Miss, Promote
    <3> QED
      BY <1>3, <3>1, <3>2, <3>3, <3>4, <3>5 DEF CycleStep
  <2>3. Alters(-1, 0)
    <3>1. CASE boxes' \subseteq boxes
      BY <1>b, <3>1
    <3>2. CASE Heal /\ ~(boxes' \subseteq boxes)
      <4>1. PICK b \in Is(cycle.box.id) : Sets(b, [b EXCEPT !.up = TRUE])
        BY <3>2 DEF Heal
      <4>2. b \in boxes /\ b \in BoxType /\ boxes' = (boxes \ {b}) \cup {[b EXCEPT !.up = TRUE]}
        BY <1>0, <4>1 DEF Is, Sets
      <4>3. PICK c \in BoxType : c = [b EXCEPT !.up = TRUE]
        BY <4>2 DEF BoxType
      <4>4. c.id = b.id /\ c.name = b.name
        BY <4>2, <4>3 DEF BoxType
      <4>5. \A d \in boxes \ {b} : d.name # c.name
        BY <1>0, <4>2, <4>4
      <4>6. Alters(-1, c.name)
        BY <4>2, <4>3, <4>4, <4>5, Changed
      <4>7. \A d \in boxes' : \E e \in boxes : e.name = d.name
        BY <4>2, <4>3, <4>4
      <4> QED
        BY <4>6, <4>7 DEF Alters
    <3>3. CASE ~Heal
      <4>1. boxes' \subseteq boxes
        BY <1>3, <3>3 DEF CycleStep, ReadRow, List, Compensate, Adopt, Miss, Probe, Promote, Leave
      <4> QED
        BY <1>b, <4>1
    <3> QED
      BY <3>1, <3>2, <3>3
  <2>4. UserAt("deploying")' => UserAt("deploying")
    BY <2>0 DEF UserAt
  <2>5. UserAt("idle")' => UserAt("idle")
    BY <2>0 DEF UserAt
  <2> QED
    BY <1>0, <2>0, <2>1, <2>2, <2>3, <2>4, <2>5, ElsewhereTidy
<1>4. CASE Expire
  <2>1. lease' = Nobody /\ UNCHANGED <<row, boxes, active, flow, user, cycle, asked>>
    BY <1>4 DEF Expire
  <2>2. UserAt("deploying")' => UserAt("deploying")
    BY <2>1 DEF UserAt
  <2> QED
    BY <1>0, <1>b, <2>1, <2>2, ElsewhereTidy
<1> QED
  BY <1>1, <1>2, <1>3, <1>4

LEMMA CrashTidy ==
    ASSUME Tidy, Inv', Crash
    PROVE  Tidy'
<1>1. \A r \in Reqs : flow'[r] = IF At(r, "none") THEN NoFlow ELSE Done
  BY DEF Crash
<1>2. /\ lease' = Nobody /\ active' = FALSE /\ user' = NoUser /\ cycle' = NoCycle
      /\ UNCHANGED <<row, boxes>> /\ Happens
  BY DEF Crash
<1>3. Shapes'
  <2>1. NoUser \in UserType
    BY DEF NoUser, UserType, Versions
  <2>2. NoCycle \in CycleType
    <3>1. -1 \in -1 .. User
      BY BoundsAssumption DEF User
    <3> QED
      BY <3>1 DEF NoCycle, NoBox, CycleType, Words
  <2>3. asked' \in 0 .. MaxEvents
    <3>1. MaxEvents \in Nat /\ asked \in 0 .. MaxEvents
      BY BoundsAssumption DEF Tidy, Shapes
    <3> QED
      BY <1>2, <3>1 DEF Happens
  <2> QED
    BY <1>2, <2>1, <2>2, <2>3 DEF Tidy, Shapes
<1>4. Unique'
  <2>1. ASSUME NEW r \in Reqs PROVE Unused(r)'
    <3>1. CASE At(r, "none")
      <4>1. Unused(r) /\ flow[r].at \in Unmade /\ flow[r].at \in Unkept
        BY <3>1 DEF Tidy, Unique, At, Unmade, Unkept
      <4> QED
        BY <1>2, <4>1 DEF Unused, Is, Named
    <3>2. CASE ~At(r, "none")
      BY <1>1, <3>2 DEF Unused, Done, NoFlow, Unmade, Unkept
    <3> QED
      BY <3>1, <3>2
  <2>2. ~UserAt("deploying")'
    BY <1>2 DEF UserAt, NoUser
  <2> QED
    BY <1>2, <2>1, <2>2 DEF Tidy, Unique
<1>5. Worded'
  BY <1>1, <1>2 DEF Tidy, Worded, Busy, NoFlow, Done
<1>6. Held'
  BY <1>2, BoundsAssumption DEF Held, Nobody, Reqs, User
<1> QED
  BY <1>3, <1>4, <1>5, <1>6 DEF Tidy

LEMMA InitTidy == Init => Tidy
<1> SUFFICES ASSUME Init PROVE Tidy
  OBVIOUS
<1>1. Inv
  BY InitInv
<1>2. /\ row.status = "running" /\ lease = Nobody /\ active = FALSE /\ asked = 0
      /\ user = NoUser /\ cycle = NoCycle
      /\ boxes = {[id |-> 0, name |-> 0, tag |-> First, up |-> TRUE]}
      /\ \A r \in Reqs : flow[r] = NoFlow
  BY DEF Init
<1>3. MaxEvents \in Nat /\ MaxRequests \in Nat
  BY BoundsAssumption
<1>4. Shapes
  <2>1. PICK b \in BoxType : b = [id |-> 0, name |-> 0, tag |-> First, up |-> TRUE]
    <3>1. 0 \in 0 .. MaxRequests /\ 0 \in 0 .. User /\ First \in Versions
      BY <1>3 DEF User, Versions
    <3> QED
      BY <3>1 DEF BoxType
  <2>2. NoUser \in UserType
    BY DEF NoUser, UserType, Versions
  <2>3. NoCycle \in CycleType
    <3>1. -1 \in -1 .. User
      BY <1>3 DEF User
    <3> QED
      BY <3>1 DEF NoCycle, NoBox, CycleType, Words
  <2>4. asked \in 0 .. MaxEvents
    BY <1>2, <1>3
  <2> QED
    BY <1>2, <2>1, <2>2, <2>3, <2>4 DEF Shapes
<1>5. Unique
  BY <1>2, <1>3 DEF Unique, Unused, Is, Named, Reqs, NoUser, UserAt
<1>6. Worded
  BY <1>2 DEF Worded, Busy, NoFlow, Statuses
<1>7. Held
  BY <1>2, <1>3 DEF Held, Nobody, Reqs, User
<1> QED
  BY <1>1, <1>4, <1>5, <1>6, <1>7 DEF Tidy

LEMMA NextTidy == Tidy /\ [Next]_vars => Tidy'
<1> SUFFICES ASSUME Tidy, [Next]_vars PROVE Tidy'
  OBVIOUS
<1>1. Inv'
  BY NextInv DEF Tidy
<1>2. CASE UNCHANGED vars
  <2>1. Shapes' /\ Worded' /\ Held'
    BY <1>2 DEF vars, Tidy, Shapes, Worded, Held, Busy, UserAt, UserType, CycleType
  <2>2. Unique'
    BY <1>2 DEF vars, Tidy, Unique, Unused, Is, Named, UserAt
  <2> QED
    BY <1>1, <2>1, <2>2 DEF Tidy
<1> QED
  BY <1>1, <1>2, FlowsTidy, OthersTidy, CrashTidy DEF Next

LEMMA AlwaysTidy == Spec => []Tidy
  BY InitTidy, NextTidy, PTL DEF Spec

\* The variables have their types, every name and every id is that of one container, and whoever
\* holds the lease is at work.
THEOREM TypeInvariance == Spec => []TypeOK
<1>1. Tidy => TypeOK
  <2> SUFFICES ASSUME Tidy PROVE TypeOK
    OBVIOUS
  <2>1. row \in [status : Statuses, up : {"none", "upgrading", "failed", "success"},
                 tag : Versions, prev : Versions, clean : BOOLEAN]
    BY DEF Tidy, Inv, Typing, Worded
  <2>2. /\ lease \in 0 .. User
        /\ lease \in Reqs => Busy(lease)
        /\ lease = User => ~UserAt("idle")
    BY DEF Tidy, Inv, Typing, Held
  <2>3. /\ boxes \subseteq [id : 0 .. User, name : 0 .. MaxRequests, tag : Versions, up : BOOLEAN]
        /\ active \in BOOLEAN /\ asked \in 0 .. MaxEvents
    BY DEF Tidy, Shapes, BoxType
  <2>4. \A b, c \in boxes : (b.id = c.id \/ b.name = c.name) => b = c
    BY DEF Tidy, Unique
  <2> QED
    BY <2>1, <2>2, <2>3, <2>4 DEF TypeOK, Busy
<1> QED
  BY <1>1, AlwaysTidy, PTL

-----------------------------------------------------------------------------
(* The account: a step of one flow, while nobody else is at work.          *)

LEMMA Resting ==
    ASSUME NEW q \in Reqs, ~Busy(q)'
    PROVE  Begun(q)' /\ Exchanged(q)' /\ ~Works(q)' /\ ~Moving(q)'
  BY DEF Busy, Begun, Exchanged, Works, AtRest, Moving, At

LEMMA FlowAccount ==
    ASSUME NEW r \in Reqs, \A q \in Reqs \ {r} : ~Busy(q) /\ flow'[q] = flow[q],
           UserAt("idle"), user' = user,
           Works(r)' => row'.status = "upgrading",
           Begun(r)', Exchanged(r)',
           row'.status = "running" => Served',
           ~Moving(r)' => Plain'
    PROVE  Account'
<1>1. ASSUME NEW q \in Reqs \ {r} PROVE ~Busy(q)'
  BY DEF Busy
<1>2. UserAt("idle")'
  BY DEF UserAt
<1>3. Apart'
  BY <1>1, <1>2, Resting DEF Apart
<1>4. Runs'
  BY DEF Runs
<1>5. \A q \in Reqs : Begun(q)' /\ Exchanged(q)'
  BY <1>1, Resting
<1> QED
  BY <1>3, <1>4, <1>5 DEF Account

\* A flow that is at work is alone.
LEMMA Alone ==
    ASSUME Tidy, Account, NEW r \in Reqs, Busy(r)
    PROVE  /\ UserAt("idle") /\ \A q \in Reqs \ {r} : ~Busy(q)
           /\ Begun(r) /\ Exchanged(r)
           /\ Works(r) => row.status = "upgrading"
           /\ row.status = "running" => Served
           /\ ~Moving(r) => Plain
<1>1. UserAt("idle") /\ \A q \in Reqs \ {r} : ~Busy(q)
  BY DEF Account, Apart, Tidy, Inv, Exclusive
<1>2. \A q \in Reqs \ {r} : ~Moving(q)
  BY <1>1 DEF Moving, Busy
<1>3. row.status = "running" => Served
  BY <1>1 DEF Account, Runs, UserAt
<1> QED
  BY <1>1, <1>2, <1>3 DEF Account, Apart, Runs

\* A flow that is not at work and stays so, and a row that is called the same.
LEMMA SameAccount ==
    ASSUME Account, NEW r \in Reqs, ~Busy(r), ~Busy(r)', \A q \in Reqs \ {r} : flow'[q] = flow[q],
           UNCHANGED <<boxes, user>>, row'.status = row.status, row'.tag = row.tag
    PROVE  Account'
<1>1. Begun(r)' /\ Exchanged(r)' /\ ~Works(r)' /\ ~Moving(r)' /\ ~Moving(r)
  BY Resting DEF Moving, Busy
<1>2. Plain' = Plain /\ Served' = Served
  BY DEF Plain, Served
<1>3. ASSUME NEW q \in Reqs \ {r}
      PROVE  /\ Begun(q)' /\ Exchanged(q)'
             /\ Works(q)' = Works(q) /\ Moving(q)' = Moving(q) /\ Busy(q)' = Busy(q)
  <2>1. Begun(q) /\ Exchanged(q)
    BY DEF Account
  <2>2. Begun(q)'
    BY <1>2, <2>1 DEF Begun, Busy, At, FoundRunning
  <2>3. Exchanged(q)'
    BY <1>2, <2>1 DEF Exchanged, Moving, At, FoundRunning, Aside, Named
  <2> QED
    BY <2>2, <2>3 DEF Works, Moving, Busy
<1>4. Apart'
  BY <1>1, <1>3 DEF Account, Apart, UserAt
<1>5. Runs'
  BY <1>1, <1>2, <1>3 DEF Account, Runs
<1> QED
  BY <1>1, <1>3, <1>4, <1>5 DEF Account

\* A flow that is over, or refused.
LEMMA DoneAccount ==
    ASSUME Tidy, Account, NEW r \in Reqs, flow' = [flow EXCEPT ![r] = Done], ~Works(r),
           UNCHANGED <<boxes, user>>, row' = row \/ row' = [row EXCEPT !.up = "failed"]
    PROVE  Account'
<1>1. flow'[r].at = "done" /\ \A q \in Reqs \ {r} : flow'[q] = flow[q]
  BY Ends DEF Tidy, Inv
<1>2. row'.status = row.status /\ row'.tag = row.tag
  BY DEF Tidy, Inv, Typing
<1>3. ~Busy(r)'
  BY <1>1 DEF Busy
<1>4. CASE ~Busy(r)
  BY <1>1, <1>2, <1>3, <1>4, SameAccount
<1>5. CASE Busy(r)
  <2>1. ~Moving(r) /\ Plain' = Plain /\ Served' = Served
    BY <1>2 DEF Moving, Works, AtRest, Plain, Served
  <2> QED
    BY <1>1, <1>2, <1>3, <1>5, <2>1, Alone, Resting, FlowAccount
<1> QED
  BY <1>4, <1>5

\* A flow that enters has read the row as it is.
LEMMA EntersAccount ==
    ASSUME Tidy, Account, NEW r \in Reqs, flow[r].at \in {"none", "queued"}, lease = Nobody,
           NEW kind \in {"upgrade", "bulk", "rollback"}, NEW t \in Versions, Enters(r, kind, t),
           user' = user, mishaps' = {}
    PROVE  Account'
<1>1. CASE active /\ Refuses(r, kind)
  <2>1. /\ flow' = [flow EXCEPT ![r] = Done] /\ UNCHANGED boxes
        /\ row' = row \/ row' = [row EXCEPT !.up = "failed"]
    BY <1>1 DEF Refuses
  <2> QED
    BY <2>1, DoneAccount DEF Works, AtRest
<1>2. CASE ~active /\ ~(active /\ Refuses(r, kind))
  <2>1. PICK f : /\ f = [at |-> "checking", kind |-> kind, target |-> Target(kind, t), kept |-> FALSE,
                         seen |-> [status |-> row.status, tag |-> row.tag, prev |-> row.prev]]
                 /\ flow' = [flow EXCEPT ![r] = f]
    BY <1>2 DEF Enters, NoFlow
  <2>2. flow'[r] = f /\ \A q \in Reqs \ {r} : flow'[q] = flow[q]
    BY <2>1 DEF Tidy, Inv, Typing
  <2>3. /\ flow'[r].at = "checking" /\ flow'[r].kept = FALSE
        /\ flow'[r].seen.tag = row.tag /\ flow'[r].seen.status = row.status
    BY <2>1, <2>2
  <2>4. UNCHANGED <<row, boxes>> /\ UserAt("idle")
    BY <1>2 DEF Enters, Intrudes
  <2>5. \A q \in Reqs : ~Busy(q)
    <3>1. \A q \in Reqs : q # Nobody
      BY BoundsAssumption DEF Reqs, Nobody
    <3> QED
      BY <1>2, <3>1 DEF Tidy, Inv, Exclusive, Busy, Marked, At
  <2>6. Begun(r)' /\ Exchanged(r)' /\ ~Works(r)'
    BY <2>3, <2>4 DEF Begun, Exchanged, Works, AtRest, Moving, At, FoundRunning
  <2>7. Plain' /\ (row'.status = "running" => Served')
    <3>1. \A q \in Reqs : ~Moving(q)
      BY <2>5 DEF Moving, Busy
    <3> QED
      BY <2>4, <3>1 DEF Account, Runs, UserAt, Plain, Served
  <2> QED
    BY <2>2, <2>4, <2>5, <2>6, <2>7, FlowAccount
<1> QED
  BY <1>1, <1>2 DEF Enters

\* A flow that goes on remembers everything.
LEMMA GoesOn ==
    ASSUME Tidy, NEW r \in Reqs, NEW a, Goes(r, a)
    PROVE  /\ flow'[r].at = a /\ flow'[r].kept = flow[r].kept /\ flow'[r].target = flow[r].target
           /\ flow'[r].seen = flow[r].seen
           /\ \A q \in Reqs \ {r} : flow'[q] = flow[q]
  BY DEF Goes, Tidy, Inv, Typing

\* The steps of a flow until the old container has its backup name.
LEMMA EarlyAccount ==
    ASSUME Tidy, Account, NEW r \in Reqs, mishaps' = {},
           Request(r) \/ BulkTurn(r) \/ Check(r) \/ FailEarly(r) \/ StopOld(r) \/ SetAside(r)
    PROVE  Account'
<1> USE DEF At
<1>0. /\ row \in RowType /\ boxes \subseteq BoxType /\ flow \in [Reqs -> FlowType]
      /\ \A b, c \in boxes : (b.id = c.id \/ b.name = c.name) => b = c
  BY DEF Tidy, Inv, Typing, Shapes, Unique, RowType, FlowType
<1>1. CASE Request(r)
  <2>1. PICK kind \in {"upgrade", "bulk", "rollback"}, t \in Tags :
          \/ kind # "bulk" /\ Enters(r, kind, t)
          \/ /\ kind = "bulk"
             /\ row' = [row EXCEPT !.up = "upgrading"]
             /\ flow' = [flow EXCEPT ![r] = [NoFlow EXCEPT !.at = "queued", !.kind = kind, !.target = t]]
             /\ UNCHANGED <<boxes, lease, active, mishaps>>
    BY <1>1 DEF Request
  <2>2. flow[r].at = "none" /\ lease = Nobody /\ t \in Versions /\ user' = user
    BY <1>1 DEF Request, Versions
  <2>3. CASE kind # "bulk" /\ Enters(r, kind, t)
    BY <2>2, <2>3, EntersAccount
  <2>4. CASE /\ row' = [row EXCEPT !.up = "upgrading"]
             /\ flow' = [flow EXCEPT ![r] = [NoFlow EXCEPT !.at = "queued", !.kind = kind, !.target = t]]
             /\ UNCHANGED <<boxes, lease, active, mishaps>>
    <3>1. /\ flow'[r].at = "queued" /\ \A q \in Reqs \ {r} : flow'[q] = flow[q]
          /\ row'.status = row.status /\ row'.tag = row.tag
      BY <1>0, <2>4 DEF NoFlow, RowType
    <3>2. ~Busy(r)' /\ ~Busy(r)
      BY <2>2, <3>1 DEF Busy
    <3> QED
      BY <2>2, <2>4, <3>1, <3>2, SameAccount
  <2> QED
    BY <2>1, <2>3, <2>4
<1>2. CASE BulkTurn(r)
  <2>0. user' = user /\ flow[r].at = "queued"
    BY <1>2 DEF BulkTurn, outside
  <2>1. CASE lease # Nobody /\ Refuses(r, "bulk")
    BY <2>0, <2>1, DoneAccount DEF Refuses, Works, AtRest
  <2>2. CASE lease = Nobody /\ Enters(r, "bulk", flow[r].target)
    <3>1. PICK t \in Versions : t = flow[r].target
      BY <1>0 DEF FlowType
    <3> QED
      BY <2>0, <2>2, <3>1, EntersAccount
  <2> QED
    BY <1>2, <2>1, <2>2 DEF BulkTurn
<1>3. CASE Check(r)
  <2>0. user' = user /\ flow[r].at = "checking" /\ Busy(r) /\ ~Works(r) /\ ~Moving(r)
    BY <1>3 DEF Check, outside, Busy, Works, AtRest, Moving
  <2>1. CASE Refuses(r, flow[r].kind)
    BY <2>0, <2>1, DoneAccount DEF Refuses
  <2>2. CASE /\ row' = [row EXCEPT !.status = "upgrading", !.up = "upgrading", !.prev = flow[r].seen.tag]
             /\ active' = TRUE /\ Goes(r, "pulling")
             /\ UNCHANGED <<boxes, lease, mishaps>>
    <3>1. row'.status = "upgrading" /\ row'.tag = row.tag
      BY <1>0, <2>2 DEF RowType
    <3>2. /\ flow'[r].at = "pulling" /\ flow'[r].kept = flow[r].kept /\ flow'[r].seen = flow[r].seen
          /\ \A q \in Reqs \ {r} : flow'[q] = flow[q]
      BY <2>2, GoesOn
    <3>3. Begun(r) /\ Plain /\ (row.status = "running" => Served)
      BY <2>0, Alone
    <3>4. Plain' /\ Served' = Served
      BY <2>2, <3>1, <3>3 DEF Plain, Served
    <3>5. Begun(r)'
      BY <2>0, <3>1, <3>2, <3>3, <3>4 DEF Begun, FoundRunning, Busy
    <3>6. Exchanged(r)'
      BY <3>2 DEF Exchanged, Moving
    <3> QED
      BY <2>0, <3>1, <3>2, <3>4, <3>5, <3>6, Alone, FlowAccount
  <2> QED
    BY <1>3, <2>1, <2>2 DEF Check
<1>4. CASE FailEarly(r)
  <2>0. user' = user /\ flow[r].at = "pulling" /\ Busy(r) /\ ~Moving(r) /\ Goes(r, "lost") /\ boxes' = boxes
    BY <1>4 DEF FailEarly, outside, Busy, Moving
  <2>1. row'.status = flow[r].seen.status /\ row'.tag = row.tag
    BY <1>0, <1>4 DEF FailEarly, RowType
  <2>2. /\ flow'[r].at = "lost" /\ flow'[r].seen = flow[r].seen
        /\ \A q \in Reqs \ {r} : flow'[q] = flow[q]
    BY <2>0, GoesOn
  <2>3. Begun(r) /\ Plain
    BY <2>0, Alone
  <2>4. Plain' /\ Served' = Served
    BY <2>0, <2>1, <2>3 DEF Plain, Served
  <2>5. Begun(r)' /\ ~Works(r)' /\ Exchanged(r)'
    BY <2>0, <2>1, <2>2, <2>3 DEF Begun, FoundRunning, Busy, Works, AtRest, Exchanged, Moving
  <2>6. row'.status = "running" => Served'
    BY <2>0, <2>1, <2>3, <2>4 DEF Begun, FoundRunning
  <2> QED
    BY <2>0, <2>2, <2>4, <2>5, <2>6, Alone, FlowAccount
<1>5. CASE StopOld(r)
  <2>0. /\ user' = user /\ flow[r].at = "pulling" /\ Busy(r) /\ Works(r) /\ ~Moving(r) /\ Goes(r, "renaming")
        /\ row' = row /\ Stops(Named(0))
    BY <1>5 DEF StopOld, Befalls, outside, Busy, Moving, Works, AtRest
  <2>1. Begun(r) /\ Plain /\ row.status = "upgrading"
    BY <2>0, Alone
  <2>2. /\ flow'[r].at = "renaming" /\ flow'[r].kept = flow[r].kept /\ flow'[r].seen = flow[r].seen
        /\ \A q \in Reqs \ {r} : flow'[q] = flow[q]
    BY <2>0, GoesOn
  <2>3. /\ \A c \in boxes' : \E b \in boxes : b.id = c.id /\ b.name = c.name /\ b.tag = c.tag
        /\ \A c \in boxes' : c.name = 0 => ~c.up
        /\ boxes # {} => boxes' # {}
    BY <2>0, Stilled
  <2>4. Plain' /\ \A c \in boxes' : ~c.up
    BY <2>0, <2>1, <2>3 DEF Plain
  <2>5. Begun(r)'
    BY <2>0, <2>1, <2>2, <2>3, <2>4 DEF Begun, FoundRunning, Busy, Served
  <2>6. Exchanged(r)'
    BY <2>2 DEF Exchanged, Moving
  <2> QED
    BY <2>0, <2>1, <2>2, <2>4, <2>5, <2>6, Alone, FlowAccount
<1>6. CASE SetAside(r)
  <2>0. user' = user /\ flow[r].at = "renaming" /\ Busy(r) /\ Works(r) /\ ~Moving(r) /\ row' = row
    BY <1>6 DEF SetAside, outside, Busy, Moving, Works, AtRest
  <2>1. Begun(r) /\ Plain /\ row.status = "upgrading"
    BY <2>0, Alone
  <2>2. CASE Named(0) = {} /\ Goes(r, "creating") /\ UNCHANGED <<boxes, mishaps>>
    <3>1. boxes = {}
      BY <2>1, <2>2 DEF Plain, Named
    <3>2. /\ flow'[r].at = "creating" /\ flow'[r].kept = flow[r].kept /\ flow'[r].seen = flow[r].seen
          /\ \A q \in Reqs \ {r} : flow'[q] = flow[q]
      BY <2>2, GoesOn
    <3>3. ~flow[r].kept /\ ~FoundRunning(r)
      BY <2>0, <2>1, <3>1 DEF Begun
    <3>4. Begun(r)' /\ Exchanged(r)' /\ Moving(r)'
      BY <2>0, <2>1, <2>2, <3>1, <3>2, <3>3 DEF Begun, Exchanged, Moving, Aside, FoundRunning, Busy
    <3> QED
      BY <2>0, <2>1, <3>2, <3>4, Alone, FlowAccount
  <2>3. CASE /\ \E b \in Named(0) : Sets(b, [b EXCEPT !.name = r])
             /\ flow' = [flow EXCEPT ![r].at = "creating", ![r].kept = TRUE]
    <3>0. PICK b \in Named(0) : Sets(b, [b EXCEPT !.name = r])
      BY <2>3
    <3>1. Named(0) = {b} /\ b \in boxes /\ b.name = 0
      BY <3>0, TheOnlyOne
    <3>2. boxes = {b}
      BY <2>1, <3>1 DEF Plain, Named
    <3>3. PICK c : c = [b EXCEPT !.name = r]
      OBVIOUS
    <3>4. boxes' = {c}
      BY <3>0, <3>2, <3>3 DEF Sets
    <3>5. c.name = r /\ c.tag = b.tag /\ c.up = b.up
      BY <1>0, <3>1, <3>3 DEF BoxType
    <3>6. b.tag = row.tag /\ ~b.up
      BY <2>0, <2>1, <3>1 DEF Plain, Begun
    <3>7. /\ flow'[r].at = "creating" /\ flow'[r].kept = TRUE /\ flow'[r].seen = flow[r].seen
          /\ \A q \in Reqs \ {r} : flow'[q] = flow[q]
      BY <1>0, <2>3 DEF FlowType
    <3>8. Aside(r, boxes)'
      BY <2>0, <3>4, <3>5, <3>6, <3>7 DEF Aside
    <3>9. Begun(r)' /\ Exchanged(r)' /\ Moving(r)'
      BY <2>0, <2>1, <3>7, <3>8 DEF Begun, Exchanged, Moving, FoundRunning, Busy
    <3> QED
      BY <2>0, <2>1, <3>7, <3>9, Alone, FlowAccount
  <2> QED
    BY <1>6, <2>2, <2>3 DEF SetAside, Befalls
<1> QED
  BY <1>1, <1>2, <1>3, <1>4, <1>5, <1>6

\* The steps of a flow from the new container on.
LEMMA LateAccount ==
    ASSUME Tidy, Account, NEW r \in Reqs, mishaps' = {},
           Create(r) \/ Prove(r) \/ DropBackup(r) \/ Announce(r) \/ Restore(r) \/ Confirm(r) \/ End(r)
    PROVE  Account'
<1> USE DEF At
<1>0. /\ row \in RowType /\ boxes \subseteq BoxType /\ flow \in [Reqs -> FlowType]
      /\ \A b, c \in boxes : (b.id = c.id \/ b.name = c.name) => b = c
  BY DEF Tidy, Inv, Typing, Shapes, Unique, RowType, FlowType
<1>r. r # 0 /\ r \in 0 .. User
  BY BoundsAssumption DEF Reqs, User
<1>1. CASE Create(r)
  <2>0. user' = user /\ flow[r].at = "creating" /\ Busy(r) /\ Works(r)
    BY <1>1 DEF Create, outside, Busy, Works, AtRest
  <2>1. Begun(r) /\ row.status = "upgrading" /\ Aside(r, boxes) /\ (FoundRunning(r) => flow[r].kept)
    BY <2>0, Alone DEF Exchanged, Moving
  <2>2. row'.status = row.status /\ row'.tag = row.tag
    BY <1>0, <1>1 DEF Create, RowType
  <2>3. CASE UNCHANGED boxes /\ Goes(r, "restoring")
    <3>1. /\ flow'[r].at = "restoring" /\ flow'[r].kept = flow[r].kept /\ flow'[r].seen = flow[r].seen
          /\ \A q \in Reqs \ {r} : flow'[q] = flow[q]
      BY <2>3, GoesOn
    <3>2. Aside(r, boxes)'
      BY <2>1, <2>2, <2>3, <3>1 DEF Aside
    <3>3. Begun(r)' /\ Exchanged(r)' /\ Moving(r)'
      BY <2>0, <2>1, <2>2, <3>1, <3>2 DEF Begun, Exchanged, Moving, FoundRunning, Busy
    <3> QED
      BY <2>0, <2>1, <2>2, <3>1, <3>3, Alone, FlowAccount
  <2>4. CASE Creates(r, flow[r].target) /\ Goes(r, "proving")
    <3>1. /\ flow'[r].at = "proving" /\ flow'[r].kept = flow[r].kept /\ flow'[r].seen = flow[r].seen
          /\ flow'[r].target = flow[r].target
          /\ \A q \in Reqs \ {r} : flow'[q] = flow[q]
      BY <2>4, GoesOn
    <3>2. PICK t \in Versions : t = flow[r].target
      BY <1>0 DEF FlowType
    <3>3. Is(r) = {}
      BY <2>0 DEF Tidy, Unique, Unused, Unmade
    <3>4. PICK c : /\ c = [id |-> r, name |-> 0, tag |-> t, up |-> TRUE]
                   /\ boxes' = boxes \cup {c} /\ \A b \in boxes : b.name # 0
      BY <1>r, <2>4, <3>2, <3>3, Created
    <3>5. Named(0)' = {c} /\ boxes' \ Named(0)' = boxes
      BY <3>4 DEF Named
    <3>6. Aside(r, boxes \ Named(0))'
      BY <2>1, <2>2, <3>1, <3>5 DEF Aside
    <3>7. \A b \in Named(0)' : b.id = r /\ b.tag = flow'[r].target /\ b.up
      BY <3>1, <3>2, <3>4, <3>5
    <3>8. Begun(r)' /\ Exchanged(r)' /\ Moving(r)'
      BY <2>0, <2>1, <2>2, <3>1, <3>5, <3>6, <3>7 DEF Begun, Exchanged, Moving, FoundRunning, Busy
    <3> QED
      BY <2>0, <2>1, <2>2, <3>1, <3>8, Alone, FlowAccount
  <2> QED
    BY <1>1, <2>3, <2>4 DEF Create
<1>2. CASE Prove(r)
  <2>0. user' = user /\ row' = row /\ flow[r].at = "proving" /\ Busy(r) /\ Works(r)
    BY <1>2 DEF Prove, outside, Busy, Works, AtRest
  <2>1. /\ Begun(r) /\ row.status = "upgrading" /\ Aside(r, boxes \ Named(0)) /\ (FoundRunning(r) => flow[r].kept)
        /\ Named(0) # {} /\ \A b \in Named(0) : b.id = r /\ b.tag = flow[r].target /\ b.up
    BY <2>0, Alone DEF Exchanged, Moving
  <2>2. CASE UNCHANGED boxes /\ Goes(r, "proven")
    <3>1. /\ flow'[r].at = "proven" /\ flow'[r].kept = flow[r].kept /\ flow'[r].seen = flow[r].seen
          /\ flow'[r].target = flow[r].target
          /\ \A q \in Reqs \ {r} : flow'[q] = flow[q]
      BY <2>2, GoesOn
    <3>2. Named(0)' = Named(0) /\ Aside(r, boxes \ Named(0))'
      BY <2>0, <2>1, <2>2, <3>1 DEF Aside, Named
    <3>3. Begun(r)' /\ Exchanged(r)' /\ Moving(r)'
      BY <2>0, <2>1, <3>1, <3>2 DEF Begun, Exchanged, Moving, FoundRunning, Busy
    <3> QED
      BY <2>0, <2>1, <3>1, <3>3, Alone, FlowAccount
  <2>3. CASE Without(Is(r)) /\ Goes(r, "restoring")
    <3>1. /\ flow'[r].at = "restoring" /\ flow'[r].kept = flow[r].kept /\ flow'[r].seen = flow[r].seen
          /\ \A q \in Reqs \ {r} : flow'[q] = flow[q]
      BY <2>3, GoesOn
    <3>2. Is(r) = Named(0)
      BY <1>0, <2>1 DEF Is, Named
    <3>3. boxes' = boxes \ Named(0)
      BY <2>3, <3>2 DEF Without
    <3>4. Aside(r, boxes)'
      BY <2>0, <2>1, <3>1, <3>3 DEF Aside
    <3>5. Begun(r)' /\ Exchanged(r)' /\ Moving(r)'
      BY <2>0, <2>1, <3>1, <3>4 DEF Begun, Exchanged, Moving, FoundRunning, Busy
    <3> QED
      BY <2>0, <2>1, <3>1, <3>5, Alone, FlowAccount
  <2> QED
    BY <1>2, <2>2, <2>3 DEF Prove
<1>3. CASE DropBackup(r)
  <2>0. user' = user /\ row' = row /\ flow[r].at = "proven" /\ Busy(r) /\ Works(r) /\ Goes(r, "announcing")
    BY <1>3 DEF DropBackup, outside, Busy, Works, AtRest
  <2>1. /\ Begun(r) /\ row.status = "upgrading" /\ Aside(r, boxes \ Named(0))
        /\ Named(0) # {} /\ \A b \in Named(0) : b.id = r /\ b.tag = flow[r].target /\ b.up
    BY <2>0, Alone DEF Exchanged
  <2>2. boxes' = boxes \ Named(r)
    BY <1>3 DEF DropBackup, Befalls, Without
  <2>3. boxes' = Named(0)
    BY <1>r, <2>1, <2>2 DEF Aside, Named
  <2>4. /\ flow'[r].at = "announcing" /\ flow'[r].seen = flow[r].seen /\ flow'[r].target = flow[r].target
        /\ \A q \in Reqs \ {r} : flow'[q] = flow[q]
    BY <2>0, GoesOn
  <2>5. Served' /\ \A b \in boxes' : b.name = 0 /\ b.tag = flow'[r].target
    BY <2>1, <2>3, <2>4 DEF Served, Named
  <2>6. Begun(r)' /\ Exchanged(r)' /\ Moving(r)'
    BY <2>0, <2>1, <2>4, <2>5 DEF Begun, Exchanged, Moving, FoundRunning, Busy
  <2> QED
    BY <2>0, <2>1, <2>4, <2>6, Alone, FlowAccount
<1>4. CASE Announce(r)
  <2>0. user' = user /\ flow[r].at = "announcing" /\ Busy(r)
    BY <1>4 DEF Announce, outside, Busy
  <2>1. row' = [row EXCEPT !.status = "running", !.up = "success", !.tag = flow[r].target] /\ Goes(r, "won") /\ boxes' = boxes
    BY <1>4 DEF Announce, Befalls
  <2>2. Served /\ \A b \in boxes : b.name = 0 /\ b.tag = flow[r].target
    BY <2>0, Alone DEF Exchanged
  <2>3. row'.tag = flow[r].target
    BY <1>0, <2>1 DEF RowType
  <2>4. flow'[r].at = "won" /\ \A q \in Reqs \ {r} : flow'[q] = flow[q]
    BY <2>1, GoesOn
  <2>5. Plain' /\ Served'
    BY <2>1, <2>2, <2>3 DEF Plain, Served
  <2>6. Begun(r)' /\ Exchanged(r)' /\ ~Works(r)'
    BY <2>4 DEF Begun, Exchanged, Moving, Works, AtRest
  <2> QED
    BY <2>0, <2>4, <2>5, <2>6, Alone, FlowAccount
<1>5. CASE Restore(r)
  <2>0. user' = user /\ flow[r].at = "restoring" /\ Busy(r) /\ Works(r)
    BY <1>5 DEF Restore, outside, Busy, Works, AtRest
  <2>1. Begun(r) /\ row.status = "upgrading" /\ Aside(r, boxes) /\ (FoundRunning(r) => flow[r].kept)
    BY <2>0, Alone DEF Exchanged, Moving
  <2>2. Named(r) = boxes /\ Named(0) = {}
    BY <1>r, <2>1 DEF Aside, Named
  <2>3. CASE flow[r].kept /\ mishaps' = mishaps \cup (IF Named(r) = {} THEN {} ELSE {"docker"})
    <3>1. Named(r) # {}
      BY <2>1, <2>2, <2>3 DEF Aside
    <3> QED
      BY <2>3, <3>1
  <2>4. CASE /\ \E b \in Named(r) : boxes' = ((boxes \ Named(0)) \ {b}) \cup {[b EXCEPT !.name = 0, !.up = TRUE]}
             /\ Goes(r, "restored") /\ UNCHANGED <<row, mishaps>>
    <3>1. PICK b \in Named(r) : boxes' = ((boxes \ Named(0)) \ {b}) \cup {[b EXCEPT !.name = 0, !.up = TRUE]}
      BY <2>4
    <3>2. b \in boxes /\ Named(r) = {b}
      BY <3>1, TheOnlyOne
    <3>3. PICK c : c = [b EXCEPT !.name = 0, !.up = TRUE]
      OBVIOUS
    <3>4. boxes' = {c}
      BY <2>2, <3>1, <3>2, <3>3
    <3>5. c.name = 0 /\ c.up = TRUE /\ c.tag = b.tag
      BY <1>0, <3>2, <3>3 DEF BoxType
    <3>6. b.tag = row.tag
      BY <2>1, <3>2 DEF Aside
    <3>7. Plain' /\ Served'
      BY <2>4, <3>4, <3>5, <3>6 DEF Plain, Served
    <3>8. /\ flow'[r].at = "restored" /\ flow'[r].seen = flow[r].seen
          /\ \A q \in Reqs \ {r} : flow'[q] = flow[q]
      BY <2>4, GoesOn
    <3>9. Begun(r)' /\ Exchanged(r)'
      BY <2>0, <2>1, <2>4, <3>7, <3>8 DEF Begun, Exchanged, Moving, FoundRunning, Busy
    <3> QED
      BY <2>0, <2>1, <2>4, <3>7, <3>8, <3>9, Alone, FlowAccount
  <2>5. CASE ~flow[r].kept /\ boxes' = boxes \ Named(0) /\ Goes(r, "restored") /\ UNCHANGED <<row, mishaps>>
    <3>1. boxes' = {} /\ ~FoundRunning(r)
      BY <2>1, <2>2, <2>5 DEF Aside
    <3>2. /\ flow'[r].at = "restored" /\ flow'[r].seen = flow[r].seen
          /\ \A q \in Reqs \ {r} : flow'[q] = flow[q]
      BY <2>5, GoesOn
    <3>3. Begun(r)' /\ Exchanged(r)' /\ Plain'
      BY <2>0, <2>1, <2>5, <3>1, <3>2 DEF Begun, Exchanged, Moving, FoundRunning, Busy, Plain
    <3> QED
      BY <2>0, <2>1, <2>5, <3>2, <3>3, Alone, FlowAccount
  <2> QED
    BY <1>5, <2>3, <2>4, <2>5 DEF Restore
<1>6. CASE Confirm(r)
  <2>0. /\ user' = user /\ flow[r].at = "restored" /\ Busy(r) /\ ~Moving(r) /\ Goes(r, "lost") /\ boxes' = boxes
        /\ \/ MainUp /\ row' = [row EXCEPT !.status = "running", !.up = "failed"]
           \/ ~MainUp /\ row' = [row EXCEPT !.status = "failed", !.up = "failed"]
    BY <1>6 DEF Confirm, outside, Busy, Moving, Fatal, Writes, Befalls
  <2>1. Begun(r) /\ Plain
    BY <2>0, Alone
  <2>2. /\ row'.tag = row.tag
        /\ \/ MainUp /\ row'.status = "running"
           \/ ~MainUp /\ row'.status = "failed"
    BY <1>0, <2>0 DEF RowType
  <2>3. MainUp <=> Served
    BY DEF MainUp, Served, Named
  <2>4. /\ flow'[r].at = "lost" /\ flow'[r].seen = flow[r].seen
        /\ \A q \in Reqs \ {r} : flow'[q] = flow[q]
    BY <2>0, GoesOn
  <2>5. Plain' /\ Served' = Served
    BY <2>0, <2>1, <2>2 DEF Plain, Served
  <2>6. Begun(r)' /\ Exchanged(r)' /\ ~Works(r)'
    BY <2>0, <2>1, <2>2, <2>3, <2>4 DEF Begun, FoundRunning, Busy, Works, AtRest, Exchanged, Moving
  <2> QED
    BY <2>0, <2>2, <2>3, <2>4, <2>5, <2>6, Alone, FlowAccount
<1>7. CASE End(r)
  <2>1. row' = row \/ row' = [row EXCEPT !.up = "failed"]
    BY <1>7 DEF End
  <2>2. ~Works(r) /\ user' = user
    BY <1>7 DEF End, Works, AtRest, outside
  <2> QED
    BY <1>7, <2>1, <2>2, DoneAccount DEF End
<1> QED
  BY <1>1, <1>2, <1>3, <1>4, <1>5, <1>6, <1>7

-----------------------------------------------------------------------------
(* The account: a step of the user, while no flow is at work.              *)

LEMMA UserAccount ==
    ASSUME Account, UNCHANGED flow, \A q \in Reqs : ~Busy(q),
           ~UserAt("idle")' => user'.tag = row'.tag,
           user'.at \in {"idle", "stopping"} /\ row'.status = "running" => Served',
           Plain'
    PROVE  Account'
<1>1. \A q \in Reqs : ~Busy(q)' /\ Begun(q)' /\ Exchanged(q)' /\ ~Works(q)'
  <2> TAKE q \in Reqs
  <2>1. ~Busy(q)'
    BY DEF Busy
  <2> QED
    BY <2>1, Resting
<1> QED
  BY <1>1 DEF Account, Apart, Runs

LEMMA UsersAccount ==
    ASSUME Tidy, Account, Asks \/ UserStep, mishaps' = {}
    PROVE  Account'
<1>0. /\ row \in RowType /\ boxes \subseteq BoxType /\ user \in UserType
      /\ NoUser.at = "idle" /\ UNCHANGED flow
  <2>1. UNCHANGED flow
    BY DEF Asks, UserStep, Stop, Stopped, Clear, Deploy, Deployed
  <2> QED
    BY <2>1 DEF Tidy, Inv, Typing, Shapes, RowType, NoUser
<1>1. \A q \in Reqs : ~Busy(q)
  <2>1. CASE Asks
    <3>1. lease = Nobody /\ ~active
      BY <2>1 DEF Asks, Intrudes
    <3>2. \A q \in Reqs : q # Nobody
      BY BoundsAssumption DEF Reqs, Nobody
    <3> QED
      BY <3>1, <3>2 DEF Tidy, Inv, Exclusive, Busy, Marked, At
  <2>2. CASE UserStep
    <3>1. ~UserAt("idle")
      BY <2>2 DEF UserStep, Stop, Stopped, Clear, Deploy, Deployed, UserAt
    <3> QED
      BY <3>1 DEF Account, Apart
  <2> QED
    BY <2>1, <2>2
<1>2. Plain
  BY <1>1 DEF Account, Runs, Moving, Busy
<1>3. MainUp <=> Served
  BY DEF MainUp, Served, Named
<1>s. \A w : row' = [row EXCEPT !.status = w] => row'.status = w /\ row'.tag = row.tag
  BY <1>0 DEF RowType
<1>p. boxes' = boxes /\ row'.tag = row.tag => Plain' /\ Served' = Served
  BY <1>2 DEF Plain, Served
<1>4. CASE Asks
  <2>0. boxes' = boxes /\ UserAt("idle")
    BY <1>4 DEF Asks
  <2>1. \/ user' = [at |-> "stopping", tag |-> row.tag] /\ UNCHANGED row
        \/ user' = [at |-> "clearing", tag |-> row.tag] /\ row' = [row EXCEPT !.status = "deploying"]
    BY <1>4 DEF Asks
  <2>2. /\ user'.tag = row'.tag /\ row'.tag = row.tag
        /\ user'.at \in {"idle", "stopping"} => row'.status = row.status
    BY <1>s, <2>1
  <2>3. row.status = "running" => Served
    BY <2>0 DEF Account, Runs, UserAt
  <2> QED
    BY <1>0, <1>1, <1>p, <2>0, <2>2, <2>3, UserAccount
<1>5. CASE Stop
  <2>1. CASE Stops(Named(0)) /\ user' = [user EXCEPT !.at = "stopped"]
    <3>1. user'.at = "stopped" /\ user'.tag = user.tag /\ row' = row
      BY <1>0, <1>5, <2>1 DEF UserType, Stop
    <3>2. \A c \in boxes' : \E b \in boxes : b.id = c.id /\ b.name = c.name /\ b.tag = c.tag
      BY <2>1, Stilled
    <3>3. Plain'
      BY <1>2, <3>1, <3>2 DEF Plain
    <3>4. user'.tag = row'.tag
      BY <1>5, <3>1 DEF Stop, UserAt, Account, Apart
    <3> QED
      BY <1>0, <1>1, <3>1, <3>3, <3>4, UserAccount
  <2>2. CASE ~MainUp /\ UserIdle /\ UNCHANGED boxes
    <3>1. user' = NoUser /\ row' = row /\ user.at = "stopping"
      BY <1>5, <2>2 DEF Stop, UserIdle, UserAt
    <3>2. row.status = "running" => Served
      BY <3>1 DEF Account, Runs
    <3> QED
      BY <1>0, <1>1, <1>p, <2>2, <3>1, <3>2, UserAccount DEF UserAt
  <2> QED
    BY <1>5, <2>1, <2>2 DEF Stop
<1>6. CASE Stopped
  <2>1. row' = [row EXCEPT !.status = "stopped"] /\ user' = NoUser /\ boxes' = boxes
    BY <1>6 DEF Stopped, UserIdle
  <2> QED
    BY <1>0, <1>1, <1>p, <1>s, <2>1, UserAccount DEF UserAt
<1>7. CASE Clear
  <2>1. boxes' = {} /\ user'.at = "deploying" /\ user'.tag = user.tag /\ row' = row
    BY <1>0, <1>7 DEF Clear, UserType
  <2>2. user'.tag = row'.tag
    BY <1>7, <2>1 DEF Clear, UserAt, Account, Apart
  <2>3. Plain'
    BY <2>1 DEF Plain
  <2> QED
    BY <1>0, <1>1, <2>1, <2>2, <2>3, UserAccount
<1>8. CASE Deploy
  <2>0. user.tag = row.tag
    BY <1>8 DEF Deploy, UserAt, Account, Apart
  <2>1. CASE /\ Creates(User, user.tag) /\ row' = [row EXCEPT !.clean = FALSE]
             /\ user' = [user EXCEPT !.at = "checking"]
    <3>1. user'.at = "checking" /\ user'.tag = user.tag /\ row'.tag = row.tag
      BY <1>0, <2>1 DEF UserType, RowType
    <3>2. boxes = {}
      BY <1>2, <2>1 DEF Plain, Creates, Named
    <3>3. PICK c : c = [id |-> User, name |-> 0, tag |-> user.tag, up |-> TRUE] /\ boxes' = boxes \cup {c}
      BY <2>1 DEF Creates
    <3>4. Plain'
      BY <2>0, <3>1, <3>2, <3>3 DEF Plain
    <3> QED
      BY <1>0, <1>1, <2>0, <3>1, <3>4, UserAccount
  <2>2. CASE row' = [row EXCEPT !.status = "failed", !.clean = FALSE] /\ UserIdle /\ UNCHANGED boxes
    <3>1. row'.status = "failed" /\ row'.tag = row.tag /\ user' = NoUser
      BY <1>0, <2>2 DEF RowType, UserIdle
    <3> QED
      BY <1>0, <1>1, <1>p, <2>2, <3>1, UserAccount DEF UserAt
  <2> QED
    BY <1>8, <2>1, <2>2 DEF Deploy
<1>9. CASE Deployed
  <2>1. /\ user' = NoUser /\ boxes' = boxes
        /\ \/ MainUp /\ row' = [row EXCEPT !.status = "running"]
           \/ row' = [row EXCEPT !.status = "failed"]
    BY <1>9 DEF Deployed, UserIdle
  <2> QED
    BY <1>0, <1>1, <1>3, <1>p, <1>s, <2>1, UserAccount DEF UserAt
<1> QED
  BY <1>4, <1>5, <1>6, <1>7, <1>8, <1>9 DEF UserStep

-----------------------------------------------------------------------------
(* The account: a pass of the reconciler that acts on what is so.          *)

\* What the reconciler sees when there is a container, and when it runs.
LEMMA Sees ==
    ASSUME Tidy, Served
    PROVE  BoxSeen.up /\ BoxSeen # NoBox
<1>1. PICK b \in Named(0) : b.up
  BY DEF Served, Named
<1>2. Named(0) = {b}
  BY <1>1, TheOnlyOne
<1>3. BoxSeen = [id |-> b.id, up |-> b.up]
  BY <1>2 DEF BoxSeen
<1> QED
  BY <1>1, <1>3 DEF NoBox

LEMMA Seen ==
    ASSUME Tidy, BoxSeen.up
    PROVE  Served
<1>1. Named(0) # {}
  BY DEF BoxSeen, NoBox
<1>2. PICK b \in Named(0) : TRUE
  BY <1>1
<1>3. Named(0) = {b} /\ b \in boxes /\ b.name = 0
  BY <1>2, TheOnlyOne
<1>4. BoxSeen = [id |-> b.id, up |-> b.up]
  BY <1>3 DEF BoxSeen
<1> QED
  BY <1>3, <1>4 DEF Served

\* It lets an instance be that a flow is at work on, and one that runs as it is called.
LetsBe ==
    /\ \A r \in Reqs : ~Works(r)
    /\ row'.tag = row.tag
    /\ \A c \in boxes' : \E b \in boxes : b.name = c.name /\ b.tag = c.tag
    /\ row.status = "running" /\ Served => row'.status = "running"
    /\ row'.status = "running" => Served'

LEMMA PassLetsBe ==
    ASSUME Tidy, Account, Promotes, CycleStep, mishaps' = {}
    PROVE  (row' = row /\ boxes' = boxes) \/ LetsBe
<1>0. /\ row \in RowType /\ boxes \subseteq BoxType
      /\ \A r \in Reqs : Works(r) => row.status = "upgrading"
  BY DEF Tidy, Inv, Typing, Shapes, RowType, Account, Apart
<1>a. Acts => cycle.row.status = row.status /\ cycle.box = BoxSeen
  BY DEF Acts, RowRead
<1>s. \A w : row' = [row EXCEPT !.status = w] => row'.status = w /\ row'.tag = row.tag
  BY <1>0 DEF RowType
<1>1. CASE ReadRow \/ List \/ Probe \/ Leave
  BY <1>1 DEF ReadRow, List, Probe, Leave
<1>2. CASE Compensate
  <2>1. row.status = "failed" /\ boxes' = {} /\ row' = [row EXCEPT !.clean = TRUE]
    BY <1>2, <1>a DEF Compensate, Failed
  <2>2. row'.status = "failed" /\ row'.tag = row.tag
    BY <1>0, <2>1 DEF RowType
  <2> QED
    BY <1>0, <2>1, <2>2 DEF LetsBe
<1>3. CASE Adopt
  <2>1. /\ row.status \in {"deploying", "restarting"} /\ boxes' = boxes
        /\ \E w \in {"gateway_starting", "restarting"} : row' = [row EXCEPT !.status = w]
    BY <1>3, <1>a DEF Adopt
  <2> QED
    BY <1>0, <1>s, <2>1 DEF LetsBe
<1>4. CASE Heal /\ ~(row' = row /\ boxes' = boxes)
  <2>1. /\ row' = [row EXCEPT !.status = "gateway_starting"] /\ Acts
        /\ ~cycle.box.up /\ cycle.row.status \in ExpectedToRun
    BY <1>4 DEF Heal, Expected
  <2>2. PICK b \in Is(cycle.box.id) : Sets(b, [b EXCEPT !.up = TRUE])
    BY <1>4 DEF Heal
  <2>3. b \in boxes /\ boxes' = (boxes \ {b}) \cup {[b EXCEPT !.up = TRUE]}
    BY <2>2 DEF Is, Sets
  <2>4. \A c \in boxes' : \E d \in boxes : d.name = c.name /\ d.tag = c.tag
    <3>1. PICK c : c = [b EXCEPT !.up = TRUE]
      OBVIOUS
    <3>2. c.name = b.name /\ c.tag = b.tag
      BY <1>0, <2>3, <3>1 DEF BoxType
    <3> QED
      BY <2>3, <3>1, <3>2
  <2>5. ~Served
    BY <1>a, <2>1, Sees
  <2> QED
    BY <1>0, <1>a, <1>s, <2>1, <2>4, <2>5 DEF LetsBe, ExpectedToRun
<1>5. CASE Miss
  <2>1. /\ row' = [row EXCEPT !.status = "degraded"] /\ Acts /\ boxes' = boxes
        /\ cycle.box = NoBox /\ cycle.row.status \in ExpectedToRun
    BY <1>5 DEF Miss, Expected, Found
  <2>2. ~Served
    BY <1>a, <2>1, Sees
  <2> QED
    BY <1>0, <1>a, <1>s, <2>1, <2>2 DEF LetsBe, ExpectedToRun
<1>6. CASE Promote
  <2>1. /\ row' = [row EXCEPT !.status = "running"] /\ Acts /\ boxes' = boxes
        /\ cycle.box.up /\ cycle.row.status \in Recoverable
    BY <1>6 DEF Promote, Promotes
  <2>2. Served'
    BY <1>a, <2>1, Seen DEF Served
  <2> QED
    BY <1>0, <1>a, <1>s, <2>1, <2>2 DEF LetsBe, Recoverable
<1> QED
  BY <1>1, <1>2, <1>3, <1>4, <1>5, <1>6 DEF CycleStep

LEMMA ElsewhereAccount ==
    ASSUME Account, UNCHANGED <<flow, user>>, (row' = row /\ boxes' = boxes) \/ LetsBe
    PROVE  Account'
<1>1. CASE row' = row /\ boxes' = boxes
  BY <1>1 DEF Account, Apart, Runs, Begun, Exchanged, Plain, Served, FoundRunning, Moving, Aside, Busy, Works,
              At, UserAt, Named
<1>2. CASE LetsBe
  <2>0. \A r \in Reqs : ~Works(r) /\ ~Works(r)' /\ ~Moving(r) /\ ~Moving(r)' /\ Busy(r)' = Busy(r)
    BY <1>2 DEF LetsBe, Works, Moving, Busy, AtRest
  <2>1. Plain'
    BY <1>2, <2>0 DEF LetsBe, Account, Runs, Plain
  <2>2. row.status = "running" /\ UserAt("idle") => row'.status = "running"
    BY <1>2 DEF LetsBe, Account, Runs, UserAt
  <2>3. Apart' /\ Runs'
    BY <1>2, <2>0, <2>1 DEF LetsBe, Account, Apart, Runs, UserAt
  <2>4. ASSUME NEW r \in Reqs PROVE Begun(r)' /\ Exchanged(r)'
    <3>1. Begun(r) /\ (Busy(r) => UserAt("idle"))
      BY DEF Account, Apart
    <3>2. row'.tag = row.tag
      BY <1>2 DEF LetsBe
    <3>3. flow[r].at \notin {"pulling", "renaming", "restored", "creating", "proving", "proven", "announcing", "restoring"}
      BY <2>0 DEF Works, AtRest
    <3> QED
      BY <2>2, <3>1, <3>2, <3>3 DEF Begun, Exchanged, Moving, At, Busy, FoundRunning
  <2> QED
    BY <2>3, <2>4 DEF Account
<1> QED
  BY <1>1, <1>2

-----------------------------------------------------------------------------
(* The account always holds while nothing else went wrong.                 *)

LEMMA PromotesStep == Tidy /\ Promotes /\ [Next]_vars => Promotes'
<1> SUFFICES ASSUME Tidy, Promotes, [Next]_vars PROVE Promotes'
  OBVIOUS
<1>1. cycle \in CycleType
  BY DEF Tidy, Shapes
<1>2. CASE cycle' = cycle
  BY <1>2 DEF Promotes, CycleAt
<1>3. CASE cycle' = NoCycle
  BY <1>3 DEF Promotes, CycleAt, NoCycle
<1>4. CASE ReadRow \/ List \/ Adopt
  <2>1. cycle'.at \in {"read", "listed", "adopted"}
    BY <1>1, <1>4 DEF ReadRow, List, Adopt, NoCycle, CycleType
  <2> QED
    BY <2>1 DEF Promotes, CycleAt
<1>5. CASE Probe
  <2>1. cycle' = [cycle EXCEPT !.at = "promoting", !.row = RowRead] /\ cycle.box.up /\ row.status \in Recoverable
    BY <1>5 DEF Probe
  <2>2. cycle'.box = cycle.box /\ cycle'.row = RowRead
    BY <1>1, <2>1 DEF CycleType
  <2> QED
    BY <2>1, <2>2 DEF Promotes, RowRead
<1>6. CASE CycleStep
  BY <1>3, <1>4, <1>5, <1>6 DEF CycleStep, Compensate, Heal, Miss, Promote, Leave
<1>7. CASE Crash
  BY <1>3, <1>7 DEF Crash
<1>8. ASSUME NEW r \in Reqs, Request(r) PROVE Promotes'
  BY <1>2, <1>8 DEF Request
<1>9. ASSUME NEW r \in Reqs, FlowStep(r) PROVE Promotes'
  <2>1. UNCHANGED outside
    BY <1>9 DEF FlowStep, BulkTurn, Check, FailEarly, StopOld, SetAside, Create, Prove, DropBackup, Announce,
                Restore, Confirm, End
  <2> QED
    BY <1>2, <2>1 DEF outside
<1>10. CASE Asks \/ UserStep \/ Expire \/ UNCHANGED vars
  BY <1>2, <1>10 DEF Asks, UserStep, Stop, Stopped, Clear, Deploy, Deployed, Expire, vars
<1> QED
  BY <1>6, <1>7, <1>8, <1>9, <1>10 DEF Next

\* Mishaps are remembered.
LEMMA Remembered == [Next]_vars => mishaps \subseteq mishaps'
<1> SUFFICES ASSUME [Next]_vars PROVE mishaps \subseteq mishaps'
  OBVIOUS
<1>1. ASSUME NEW r \in Reqs, Request(r) PROVE mishaps \subseteq mishaps'
  BY <1>1 DEF Request, Enters, Refuses, Intrudes
<1>2. ASSUME NEW r \in Reqs, FlowStep(r) PROVE mishaps \subseteq mishaps'
  <2>1. CASE BulkTurn(r) \/ Check(r)
    BY <2>1 DEF BulkTurn, Check, Enters, Refuses, Intrudes
  <2>2. CASE FailEarly(r) \/ StopOld(r) \/ SetAside(r) \/ Create(r) \/ Prove(r) \/ DropBackup(r)
    BY <2>2 DEF FailEarly, StopOld, SetAside, Create, Prove, DropBackup, Befalls
  <2>3. CASE Announce(r) \/ Restore(r) \/ Confirm(r) \/ End(r)
    BY <2>3 DEF Announce, Restore, Confirm, End, Befalls
  <2> QED
    BY <1>2, <2>1, <2>2, <2>3 DEF FlowStep
<1>3. CASE Asks \/ UserStep
  BY <1>3 DEF Asks, UserStep, Stop, Stopped, Clear, Deploy, Deployed, Intrudes
<1>4. CASE CycleStep
  BY <1>4 DEF CycleStep, ReadRow, List, Compensate, Adopt, Heal, Miss, Probe, Promote, Leave, Acts
<1>5. CASE Expire \/ Crash \/ UNCHANGED vars
  BY <1>5 DEF Expire, Crash, Befalls, vars
<1> QED
  BY <1>1, <1>2, <1>3, <1>4, <1>5 DEF Next

LEMMA AccountStep == Tidy /\ Promotes /\ Account /\ [Next]_vars /\ mishaps' = {} => Account'
<1> SUFFICES ASSUME Tidy, Promotes, Account, [Next]_vars, mishaps' = {} PROVE Account'
  OBVIOUS
<1>1. ASSUME NEW r \in Reqs, Request(r) \/ FlowStep(r) PROVE Account'
  BY <1>1, EarlyAccount, LateAccount DEF FlowStep
<1>2. CASE Asks \/ UserStep
  BY <1>2, UsersAccount
<1>3. CASE CycleStep
  <2>1. UNCHANGED <<flow, user>>
    BY <1>3 DEF CycleStep, ReadRow, List, Compensate, Adopt, Heal, Miss, Probe, Promote, Leave
  <2> QED
    BY <1>3, <2>1, PassLetsBe, ElsewhereAccount
<1>4. CASE Expire \/ UNCHANGED vars
  BY <1>4, ElsewhereAccount DEF Expire, vars
<1>5. ~Crash
  BY DEF Crash, Befalls
<1> QED
  BY <1>1, <1>2, <1>3, <1>4, <1>5 DEF Next

LEMMA InitAccount == Init => Account /\ Promotes
<1> SUFFICES ASSUME Init PROVE Account /\ Promotes
  OBVIOUS
<1>1. /\ row.status = "running" /\ row.tag = First /\ user = NoUser /\ cycle = NoCycle
      /\ boxes = {[id |-> 0, name |-> 0, tag |-> First, up |-> TRUE]}
      /\ \A r \in Reqs : flow[r].at = "none"
  BY DEF Init, NoFlow
<1>2. Plain /\ Served
  BY <1>1 DEF Plain, Served
<1>3. \A r \in Reqs : ~Works(r) /\ Begun(r) /\ Exchanged(r)
  BY <1>1 DEF Works, AtRest, Begun, Exchanged, Busy, Moving, At
<1>4. UserAt("idle") /\ ~CycleAt("promoting")
  BY <1>1 DEF UserAt, CycleAt, NoUser, NoCycle
<1> QED
  BY <1>2, <1>3, <1>4 DEF Account, Apart, Runs, Promotes

LEMMA AlwaysService == Spec => []Service
<1>1. Init => Service
  BY InitTidy, InitAccount DEF Service
<1>2. Service /\ [Next]_vars => Service'
  BY NextTidy, PromotesStep, Remembered, AccountStep DEF Service
<1> QED
  BY <1>1, <1>2, PTL DEF Spec

\* An instance at rest that is called running has one container, under its own name, at work, of the
\* recorded tag, unless one of the mishaps befell it: no upgrade or rollback that won or failed, and
\* no stop, redeployment or pass of the reconciler, leaves a backup behind or a tag ahead.
THEOREM ServiceIsKept == Spec => []ServiceKept
<1>1. Service => ServiceKept
  <2> SUFFICES ASSUME Tidy, Account, Quiet, row.status = "running"
               PROVE  \E b \in boxes : boxes = {b} /\ b.name = 0 /\ b.up /\ b.tag = row.tag
    BY DEF Service, ServiceKept
  <2>1. user.at = "idle" /\ \A r \in Reqs : ~Moving(r)
    BY DEF Quiet, Moving
  <2>2. Plain /\ Served
    BY <2>1 DEF Account, Runs
  <2>3. PICK b \in boxes : b.name = 0 /\ b.up
    BY <2>2 DEF Served
  <2>4. \A c \in boxes : c = b
    BY <2>2, <2>3 DEF Plain, Tidy, Unique
  <2> QED
    BY <2>2, <2>3, <2>4 DEF Plain
<1> QED
  BY <1>1, AlwaysService, PTL

\* A flow that failed on an instance it found running has left it running, with the container and
\* the tag it found, unless one of the mishaps befell it (rollbackFlow, and the early failures).
THEOREM FailureHasGivenBack == Spec => []FailureGivesBack
<1>1. Service => FailureGivesBack
  <2> SUFFICES ASSUME Tidy, Account, NEW r \in Reqs, At(r, "lost"), flow[r].seen.status = "running"
               PROVE  /\ row.status = "running"
                      /\ \E b \in Named(0) : b.up /\ b.tag = flow[r].seen.tag
    BY DEF Service, FailureGivesBack
  <2>1. Busy(r) /\ ~Moving(r) /\ ~At(r, "won")
    BY DEF At, Busy, Moving
  <2>2. Begun(r) /\ Plain /\ (row.status = "running" => Served)
    BY <2>1, Alone
  <2>3. row.status = "running" /\ flow[r].seen.tag = row.tag
    BY <2>1, <2>2 DEF Begun, FoundRunning, At
  <2> QED
    BY <2>2, <2>3 DEF Plain, Served, Named
<1> QED
  BY <1>1, AlwaysService, PTL

=============================================================================
