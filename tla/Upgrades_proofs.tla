--------------------------- MODULE Upgrades_proofs ---------------------------
(***************************************************************************)
(* Proofs about Upgrades, for every set of tags and every bound: one flow  *)
(* at a time, and no row left in upgrading.                                *)
(*                                                                         *)
(* Both rest on who may be busy: a flow between its entry and its mark     *)
(* holds the lease, which cannot expire there, and from its mark to its    *)
(* end the instance is in activeUpgrades; so whoever enters finds nobody.  *)
(***************************************************************************)
EXTENDS Upgrades, TLAPS

Stages == {"none", "queued", "checking", "pulling", "renaming", "creating", "proving", "proven",
           "announcing", "restoring", "restored", "won", "lost", "done"}
Words  == Statuses \cup {"none"}

\* What the proofs need of the types.
Typing ==
    /\ row \in [status : Words, up : {"none", "upgrading", "failed", "success"},
               tag : Versions, prev : Versions, clean : BOOLEAN]
    /\ flow \in [Reqs -> [at : Stages, kind : {"none", "upgrade", "bulk", "rollback"}, target : Versions,
                          kept : BOOLEAN, seen : [status : Words, tag : Versions, prev : Versions]]]
    /\ lease \in 0 .. User

Busy(r)   == flow[r].at \notin {"none", "queued", "done"}
Marked(r) == flow[r].at \notin {"none", "queued", "checking", "done"}

Exclusive ==
    /\ \A r \in Reqs : At(r, "checking") => lease = r
    /\ \A r \in Reqs : Marked(r) => active
    /\ \A q, r \in Reqs : Busy(q) /\ Busy(r) => q = r

\* Who is answerable for a row that says upgrading.
Answers(r) == At(r, "queued") \/ (At(r, "checking") /\ flow[r].kind = "bulk") \/ Works(r)

Answered ==
    "died" \in mishaps \/
        /\ row.status = "upgrading" => \E r \in Reqs : Works(r)
        /\ row.up = "upgrading" => \E r \in Reqs : Answers(r)
        /\ \A r \in Reqs : Busy(r) => flow[r].seen.status # "upgrading"

Inv == Typing /\ Exclusive /\ Answered

-----------------------------------------------------------------------------
(* What the helpers do to a flow.                                          *)

\* Only the stage of the flow that moves changes.
LEMMA Moves ==
    ASSUME Typing, NEW r \in Reqs, NEW a \in Stages, Goes(r, a)
    PROVE  /\ flow' \in [Reqs -> [at : Stages, kind : {"none", "upgrade", "bulk", "rollback"},
                                  target : Versions, kept : BOOLEAN,
                                  seen : [status : Words, tag : Versions, prev : Versions]]]
           /\ flow'[r].at = a /\ flow'[r].kind = flow[r].kind /\ flow'[r].seen = flow[r].seen
           /\ \A q \in Reqs \ {r} : flow'[q] = flow[q]
  BY DEF Typing, Goes

\* A flow that is over has forgotten what it was.
LEMMA Ends ==
    ASSUME Typing, NEW r \in Reqs, flow' = [flow EXCEPT ![r] = Done]
    PROVE  /\ flow' \in [Reqs -> [at : Stages, kind : {"none", "upgrade", "bulk", "rollback"},
                                  target : Versions, kept : BOOLEAN,
                                  seen : [status : Words, tag : Versions, prev : Versions]]]
           /\ flow'[r].at = "done"
           /\ \A q \in Reqs \ {r} : flow'[q] = flow[q]
  BY DEF Typing, Done, NoFlow, Stages, Words, Versions

-----------------------------------------------------------------------------
(* The steps.                                                              *)

\* A flow that goes from one stage past its mark to another, while the row stays clear of upgrading
\* or as it was.
LEMMA MarkedMoves ==
    ASSUME Inv, NEW r \in Reqs, NEW a \in Stages, Works(r), Goes(r, a), a \notin {"none", "queued", "checking", "done"},
           UNCHANGED <<lease, active>>, mishaps \subseteq mishaps',
           row' \in [status : Words, up : {"none", "upgrading", "failed", "success"},
                    tag : Versions, prev : Versions, clean : BOOLEAN],
           \/ row'.status = row.status /\ row'.up = row.up /\ a \notin AtRest
           \/ row'.up # "upgrading" /\ (row'.status # "upgrading" \/ "died" \in mishaps)
    PROVE  Inv'
<1>1. /\ flow'[r].at = a /\ flow'[r].kind = flow[r].kind /\ flow'[r].seen = flow[r].seen
      /\ \A q \in Reqs \ {r} : flow'[q] = flow[q]
  BY Moves DEF Inv
<1>2. Typing'
  BY Moves DEF Inv, Typing
<1>3. Exclusive'
  BY <1>1 DEF Inv, Exclusive, Busy, Marked, At, Works, AtRest
<1>4. Answered'
  BY <1>1 DEF Inv, Exclusive, Answered, Answers, Busy, Marked, At, Works, AtRest
<1> QED
  BY <1>2, <1>3, <1>4 DEF Inv

\* A flow that is over, and answers for the row no more.
LEMMA OverMoves ==
    ASSUME Inv, NEW r \in Reqs, flow' = [flow EXCEPT ![r] = Done], lease' = Free(r),
           UNCHANGED mishaps,
           \/ row' = row /\ ~Answers(r)
           \/ row' = [row EXCEPT !.up = "failed"],
           ~Works(r),
           \/ Marked(r) /\ active' = FALSE
           \/ ~Marked(r) /\ UNCHANGED active
    PROVE  Inv'
<1>1. flow'[r].at = "done" /\ \A q \in Reqs \ {r} : flow'[q] = flow[q]
  BY Ends DEF Inv
<1>2. Typing'
  <2>1. lease' \in 0 .. User
    BY BoundsAssumption DEF Inv, Typing, Free, Nobody, User
  <2>2. row' \in [status : Words, up : {"none", "upgrading", "failed", "success"},
                 tag : Versions, prev : Versions, clean : BOOLEAN]
    BY DEF Inv, Typing
  <2> QED
    BY <2>1, <2>2, Ends DEF Inv, Typing
<1>3. Exclusive'
  BY <1>1 DEF Inv, Exclusive, Busy, Marked, At, Free
<1>4. Answered'
  BY <1>1 DEF Inv, Typing, Exclusive, Answered, Answers, Busy, Marked, At, Works, AtRest
<1> QED
  BY <1>2, <1>3, <1>4 DEF Inv

\* A flow that enters finds nobody busy, so the row it reads says no upgrading.
LEMMA EnterMoves ==
    ASSUME Inv, NEW r \in Reqs, flow[r].at \in {"none", "queued"}, lease = Nobody,
           NEW kind \in {"upgrade", "bulk", "rollback"}, NEW t \in Versions,
           kind = "bulk" <=> flow[r].at = "queued",
           Enters(r, kind, t)
    PROVE  Inv'
<1>1. CASE active /\ Refuses(r, kind)
  <2>1. lease' = Free(r) /\ ~Works(r) /\ ~Marked(r) /\ UNCHANGED <<active, mishaps>>
    BY <1>1 DEF Refuses, Works, AtRest, Marked
  <2>2. (row' = row /\ ~Answers(r)) \/ row' = [row EXCEPT !.up = "failed"]
    BY <1>1 DEF Refuses, Answers, At, Works, AtRest
  <2> QED
    BY <1>1, <2>1, <2>2, OverMoves DEF Refuses
<1>2. CASE ~active /\ ~(active /\ Refuses(r, kind))
  <2>a. Target(kind, t) \in Versions
    BY DEF Inv, Typing, Target, Versions
  <2>b. [status |-> row.status, tag |-> row.tag, prev |-> row.prev]
          \in [status : Words, tag : Versions, prev : Versions]
    BY DEF Inv, Typing
  <2>c. PICK v \in Versions : v = Target(kind, t)
    BY <2>a
  <2>d. PICK s \in [status : Words, tag : Versions, prev : Versions] :
                s = [status |-> row.status, tag |-> row.tag, prev |-> row.prev]
    BY <2>b
  <2>1. /\ flow' = [flow EXCEPT ![r] = [at |-> "checking", kind |-> kind, target |-> v, kept |-> FALSE, seen |-> s]]
        /\ lease' = r /\ UNCHANGED <<row, active>> /\ mishaps \subseteq mishaps'
    BY <1>2, <2>c, <2>d DEF Enters, NoFlow, Intrudes
  <2>3. /\ flow' \in [Reqs -> [at : Stages, kind : {"none", "upgrade", "bulk", "rollback"},
                               target : Versions, kept : BOOLEAN,
                               seen : [status : Words, tag : Versions, prev : Versions]]]
        /\ flow'[r].at = "checking" /\ flow'[r].kind = kind /\ flow'[r].seen = s
        /\ \A q \in Reqs \ {r} : flow'[q] = flow[q]
    <3>1. "checking" \in Stages /\ Typing
      BY DEF Stages, Inv
    <3> QED
      BY <2>1, <3>1 DEF Typing
  <2>4. \A q \in Reqs : ~Busy(q)
    <3>1. \A q \in Reqs : q # Nobody
      BY BoundsAssumption DEF Reqs, Nobody
    <3> QED
      BY <1>2, <3>1 DEF Inv, Exclusive, Busy, Marked, At
  <2>5. Typing'
    <3>1. r \in 0 .. User
      BY BoundsAssumption DEF Reqs, User
    <3> QED
      BY <2>1, <2>3, <3>1 DEF Inv, Typing
  <2>6. Exclusive'
    BY <2>1, <2>3, <2>4 DEF Exclusive, Busy, Marked, At
  <2>7. Answered'
    <3>1. "died" \in mishaps \/ row.status # "upgrading"
      BY <2>4 DEF Inv, Answered, Works, AtRest, Busy
    <3>2. \A q \in Reqs : ~Works(q)
      BY <2>4 DEF Works, AtRest, Busy
    <3>3. s.status = row.status
      BY <2>d
    <3> QED
      BY <2>1, <2>3, <2>4, <3>1, <3>2, <3>3 DEF Inv, Answered, Answers, At, Works, AtRest, Busy
  <2> QED
    BY <2>5, <2>6, <2>7 DEF Inv
<1> QED
  BY <1>1, <1>2 DEF Enters

\* A step that leaves flows, lease and set alone, and writes no upgrading.
LEMMA ElsewhereMoves ==
    ASSUME Inv, UNCHANGED <<flow, active>>, mishaps \subseteq mishaps',
           \/ lease' = lease
           \/ lease = Nobody /\ lease' = User
           \/ lease = User /\ lease' = Nobody
           \/ lease \in Reqs /\ At(lease, "pulling") /\ lease' = Nobody,
           row' \in [status : Words, up : {"none", "upgrading", "failed", "success"},
                    tag : Versions, prev : Versions, clean : BOOLEAN],
           row'.up = row.up, row'.status = row.status \/ row'.status # "upgrading"
    PROVE  Inv'
<1>1. \A r \in Reqs : r # Nobody /\ r # User
  BY BoundsAssumption DEF Reqs, Nobody, User
<1>2. Typing'
  <2>1. Nobody \in 0 .. User /\ User \in 0 .. User
    BY BoundsAssumption DEF Nobody, User
  <2> QED
    BY <2>1 DEF Inv, Typing
<1>3. Exclusive'
  BY <1>1 DEF Inv, Exclusive, Busy, Marked, At
<1>4. Answered'
  BY DEF Inv, Answered, Answers, Busy, At, Works, AtRest
<1> QED
  BY <1>2, <1>3, <1>4 DEF Inv

\* The steps of one flow.
LEMMA FlowSteps ==
    ASSUME Inv, NEW r \in Reqs, Request(r) \/ FlowStep(r)
    PROVE  Inv'
<1> USE DEF At
<1>0. Typing /\ (\A a \in Stages : a \notin AtRest => (flow[r].at = a => Works(r)))
  BY DEF Inv, Works
<1>1. CASE Request(r)
  <2>1. PICK kind \in {"upgrade", "bulk", "rollback"}, t \in Tags :
          \/ kind # "bulk" /\ Enters(r, kind, t)
          \/ /\ kind = "bulk"
             /\ row' = [row EXCEPT !.up = "upgrading"]
             /\ flow' = [flow EXCEPT ![r] = [NoFlow EXCEPT !.at = "queued", !.kind = kind, !.target = t]]
             /\ UNCHANGED <<boxes, lease, active, mishaps>>
    BY <1>1 DEF Request
  <2>2. flow[r].at = "none" /\ lease = Nobody /\ t \in Versions
    BY <1>1 DEF Request, Versions
  <2>3. CASE kind # "bulk" /\ Enters(r, kind, t)
    BY <2>2, <2>3, EnterMoves
  <2>4. CASE /\ row' = [row EXCEPT !.up = "upgrading"]
             /\ flow' = [flow EXCEPT ![r] = [NoFlow EXCEPT !.at = "queued", !.kind = kind, !.target = t]]
             /\ UNCHANGED <<boxes, lease, active, mishaps>>
    <3>1. /\ flow'[r].at = "queued" /\ \A q \in Reqs \ {r} : flow'[q] = flow[q]
          /\ row'.up = "upgrading" /\ row'.status = row.status
      BY <1>0, <2>4 DEF Typing, NoFlow
    <3>2. Typing'
      BY <1>0, <2>2, <2>4 DEF Typing, NoFlow, Stages, Words, Versions
    <3>3. Exclusive'
      BY <2>4, <3>1 DEF Inv, Exclusive, Busy, Marked
    <3>4. Answered'
      BY <2>2, <2>4, <3>1 DEF Inv, Answered, Answers, Busy, Works, AtRest
    <3> QED
      BY <3>2, <3>3, <3>4 DEF Inv
  <2> QED
    BY <2>1, <2>3, <2>4
<1>2. CASE BulkTurn(r)
  <2>1. CASE lease # Nobody /\ Refuses(r, "bulk")
    BY <1>2, <2>1, OverMoves DEF BulkTurn, Refuses, Works, AtRest, Marked
  <2>2. CASE lease = Nobody /\ Enters(r, "bulk", flow[r].target)
    <3>1. PICK t \in Versions : t = flow[r].target
      BY <1>0 DEF Typing
    <3> QED
      BY <1>2, <2>2, <3>1, EnterMoves DEF BulkTurn
  <2> QED
    BY <1>2, <2>1, <2>2 DEF BulkTurn
<1>3. CASE Check(r)
  <2>1. CASE Refuses(r, flow[r].kind)
    <3>1. (row' = row /\ ~Answers(r)) \/ row' = [row EXCEPT !.up = "failed"]
      BY <1>3, <2>1 DEF Check, Refuses, Answers, Works, AtRest
    <3> QED
      BY <1>3, <2>1, <3>1, OverMoves DEF Check, Refuses, Works, AtRest, Marked
  <2>2. CASE /\ row' = [row EXCEPT !.status = "upgrading", !.up = "upgrading", !.prev = flow[r].seen.tag]
             /\ active' = TRUE /\ Goes(r, "pulling")
             /\ UNCHANGED <<boxes, lease, mishaps>>
    <3>1. "pulling" \in Stages
      BY DEF Stages
    <3>2. /\ flow'[r].at = "pulling" /\ flow'[r].kind = flow[r].kind /\ flow'[r].seen = flow[r].seen
          /\ \A q \in Reqs \ {r} : flow'[q] = flow[q]
      BY <1>0, <2>2, <3>1, Moves
    <3>3. Typing'
      <4>1. flow[r].seen.tag \in Versions
        BY <1>0 DEF Typing
      <4>2. row' \in [status : Words, up : {"none", "upgrading", "failed", "success"},
                      tag : Versions, prev : Versions, clean : BOOLEAN]
        BY <1>0, <2>2, <4>1 DEF Typing, Statuses, Words
      <4> QED
        BY <1>0, <2>2, <3>1, <4>2, Moves DEF Typing
    <3>4. Exclusive'
      BY <1>3, <2>2, <3>2 DEF Check, Inv, Exclusive, Busy, Marked
    <3>5. Answered'
      BY <1>3, <2>2, <3>2 DEF Check, Inv, Answered, Answers, Busy, Works, AtRest
    <3> QED
      BY <3>3, <3>4, <3>5 DEF Inv
  <2> QED
    BY <1>3, <2>1, <2>2 DEF Check
<1>4. CASE FailEarly(r)
  <2>1. /\ Works(r) /\ Goes(r, "lost") /\ UNCHANGED <<lease, active, mishaps>> /\ "lost" \in Stages
    BY <1>4 DEF FailEarly, Works, AtRest, Stages
  <2>2. PICK p \in {row.prev} \cup (IF flow[r].kind = "rollback" THEN {flow[r].seen.prev} ELSE {}) :
          row' = [row EXCEPT !.status = flow[r].seen.status, !.up = "failed", !.prev = p]
    BY <1>4 DEF FailEarly
  <2>3. p \in Versions /\ flow[r].seen.status \in Words
    BY <1>0, <2>2 DEF Typing
  <2>4. row'.up = "failed" /\ row'.status = flow[r].seen.status
        /\ row' \in [status : Words, up : {"none", "upgrading", "failed", "success"},
                      tag : Versions, prev : Versions, clean : BOOLEAN]
    BY <1>0, <2>2, <2>3 DEF Typing
  <2>5. row'.status # "upgrading" \/ "died" \in mishaps
    BY <2>1, <2>4 DEF Inv, Answered, Busy, Works, AtRest
  <2> QED
    BY <2>1, <2>4, <2>5, MarkedMoves
<1>5. CASE StopOld(r)
  <2>1. /\ Works(r) /\ Goes(r, "renaming") /\ "renaming" \in Stages \ AtRest
        /\ UNCHANGED <<row, lease, active>> /\ mishaps \subseteq mishaps'
    BY <1>5 DEF StopOld, Works, AtRest, Stages, Befalls
  <2> QED
    BY <1>0, <2>1, MarkedMoves DEF Typing, AtRest
<1>6. CASE SetAside(r)
  <2>1. /\ Works(r) /\ UNCHANGED <<row, lease, active>> /\ mishaps \subseteq mishaps'
        /\ Goes(r, "creating") \/ flow' = [flow EXCEPT ![r].at = "creating", ![r].kept = TRUE]
    BY <1>6 DEF SetAside, Works, AtRest, Befalls
  <2>2. CASE Goes(r, "creating")
    BY <1>0, <2>1, <2>2, MarkedMoves DEF Typing, AtRest, Stages
  <2>3. CASE flow' = [flow EXCEPT ![r].at = "creating", ![r].kept = TRUE]
    <3>1. /\ flow'[r].at = "creating" /\ flow'[r].kind = flow[r].kind /\ flow'[r].seen = flow[r].seen
          /\ \A q \in Reqs \ {r} : flow'[q] = flow[q]
      BY <1>0, <2>3 DEF Typing
    <3>2. Typing'
      <4>1. "creating" \in Stages
        BY DEF Stages
      <4>2. flow' = [flow EXCEPT ![r] = [flow[r] EXCEPT !.at = "creating", !.kept = TRUE]]
        BY <1>0, <2>3 DEF Typing
      <4> QED
        BY <1>0, <2>1, <4>1, <4>2 DEF Typing
    <3>3. Exclusive'
      BY <2>1, <3>1 DEF Inv, Exclusive, Busy, Marked, Works, AtRest
    <3>4. Answered'
      BY <2>1, <3>1 DEF Inv, Answered, Answers, Busy, Works, AtRest
    <3> QED
      BY <3>2, <3>3, <3>4 DEF Inv
  <2> QED
    BY <2>1, <2>2, <2>3
<1>7. CASE Create(r)
  <2>1. /\ Works(r) /\ row' = [row EXCEPT !.clean = FALSE] /\ UNCHANGED <<lease, active, mishaps>>
        /\ Goes(r, "proving") \/ Goes(r, "restoring")
    BY <1>7 DEF Create, Works, AtRest
  <2>2. /\ row'.up = row.up /\ row'.status = row.status
        /\ row' \in [status : Words, up : {"none", "upgrading", "failed", "success"},
                      tag : Versions, prev : Versions, clean : BOOLEAN]
    BY <1>0, <2>1 DEF Typing
  <2> QED
    BY <2>1, <2>2, MarkedMoves DEF AtRest, Stages
<1>8. CASE Prove(r)
  <2>1. /\ Works(r) /\ UNCHANGED <<row, lease, active, mishaps>>
        /\ Goes(r, "proven") \/ Goes(r, "restoring")
    BY <1>8 DEF Prove, Works, AtRest
  <2> QED
    BY <1>0, <2>1, MarkedMoves DEF Typing, AtRest, Stages
<1>9. CASE DropBackup(r)
  <2>1. /\ Works(r) /\ UNCHANGED <<row, lease, active>> /\ mishaps \subseteq mishaps' /\ Goes(r, "announcing")
    BY <1>9 DEF DropBackup, Works, AtRest, Befalls
  <2> QED
    BY <1>0, <2>1, MarkedMoves DEF Typing, AtRest, Stages
<1>10. CASE Announce(r)
  <2>1. /\ Works(r) /\ UNCHANGED <<lease, active>> /\ mishaps \subseteq mishaps'
        /\ \/ row' = [row EXCEPT !.status = "running", !.up = "success", !.tag = flow[r].target] /\ Goes(r, "won")
           \/ row' = row /\ Goes(r, "restoring")
    BY <1>10 DEF Announce, Works, AtRest, Befalls
  <2>2. CASE row' = [row EXCEPT !.status = "running", !.up = "success", !.tag = flow[r].target] /\ Goes(r, "won")
    <3>1. /\ row'.up = "success" /\ row'.status = "running"
          /\ row' \in [status : Words, up : {"none", "upgrading", "failed", "success"},
                      tag : Versions, prev : Versions, clean : BOOLEAN]
      BY <1>0, <2>2 DEF Typing, Words, Statuses
    <3> QED
      BY <2>1, <2>2, <3>1, MarkedMoves DEF Stages
  <2>3. CASE row' = row /\ Goes(r, "restoring")
    BY <1>0, <2>1, <2>3, MarkedMoves DEF Typing, AtRest, Stages
  <2> QED
    BY <2>1, <2>2, <2>3
<1>11. CASE Restore(r)
  <2>1. /\ Works(r) /\ UNCHANGED <<lease, active>> /\ mishaps \subseteq mishaps'
        /\ \/ Writes("failed", "failed") /\ Goes(r, "lost")
           \/ row' = row /\ Goes(r, "restored")
    BY <1>11 DEF Restore, Works, AtRest, Fatal
  <2>2. CASE Writes("failed", "failed") /\ Goes(r, "lost")
    <3>1. /\ row'.up = "failed" /\ row'.status = "failed"
          /\ row' \in [status : Words, up : {"none", "upgrading", "failed", "success"},
                      tag : Versions, prev : Versions, clean : BOOLEAN]
      BY <1>0, <2>2 DEF Typing, Writes, Words, Statuses
    <3> QED
      BY <2>1, <2>2, <3>1, MarkedMoves DEF Stages
  <2>3. CASE row' = row /\ Goes(r, "restored")
    BY <1>0, <2>1, <2>3, MarkedMoves DEF Typing, AtRest, Stages
  <2> QED
    BY <2>1, <2>2, <2>3
<1>12. CASE Confirm(r)
  <2>1. /\ Works(r) /\ UNCHANGED <<lease, active>> /\ mishaps \subseteq mishaps' /\ Goes(r, "lost")
        /\ Writes("running", "failed") \/ Writes("failed", "failed")
    BY <1>12 DEF Confirm, Works, AtRest, Befalls, Fatal
  <2>2. /\ row'.up = "failed" /\ row'.status # "upgrading"
        /\ row' \in [status : Words, up : {"none", "upgrading", "failed", "success"},
                      tag : Versions, prev : Versions, clean : BOOLEAN]
    BY <1>0, <2>1 DEF Typing, Writes, Words, Statuses
  <2> QED
    BY <2>1, <2>2, MarkedMoves DEF Stages
<1>13. CASE End(r)
  <2>1. (row' = row /\ ~Answers(r)) \/ row' = [row EXCEPT !.up = "failed"]
    BY <1>13 DEF End, Answers, Works, AtRest
  <2> QED
    BY <1>13, <2>1, OverMoves DEF End, Works, AtRest, Marked
<1> QED
  BY <1>1, <1>2, <1>3, <1>4, <1>5, <1>6, <1>7, <1>8, <1>9, <1>10, <1>11, <1>12, <1>13 DEF FlowStep

\* The steps of everybody else.
LEMMA OtherSteps ==
    ASSUME Inv, Asks \/ UserStep \/ CycleStep \/ Expire
    PROVE  Inv'
<1> DEFINE RowType == [status : Words, up : {"none", "upgrading", "failed", "success"},
                       tag : Versions, prev : Versions, clean : BOOLEAN]
<1>0. row \in RowType
  BY DEF Inv, Typing
<1>2. {"running", "stopped", "deploying", "restarting", "gateway_starting", "degraded", "failed"}
        \subseteq Words \ {"upgrading"}
  BY DEF Words, Statuses
<1> DEFINE Harmless == /\ row' \in RowType /\ row'.up = row.up
                       /\ row'.status = row.status \/ row'.status # "upgrading"
<1>a. row' = row => Harmless
  BY <1>0
<1>b. \A s \in Words \ {"upgrading"} : row' = [row EXCEPT !.status = s] => Harmless
  BY <1>0
<1>c. \A c \in BOOLEAN : row' = [row EXCEPT !.clean = c] => Harmless
  BY <1>0
<1>d. \A s \in Words \ {"upgrading"}, c \in BOOLEAN : row' = [row EXCEPT !.status = s, !.clean = c] => Harmless
  BY <1>0
<1> HIDE DEF Harmless
<1>4. CASE Asks
  <2>1. row' = row \/ row' = [row EXCEPT !.status = "deploying"]
    BY <1>4 DEF Asks
  <2>2. Harmless
    BY <1>2, <1>a, <1>b, <2>1
  <2> QED
    BY <1>4, <2>2, ElsewhereMoves DEF Asks, Intrudes, Harmless, RowType
<1>5. CASE UserStep
  <2>1. Harmless
    <3>1. CASE Stop \/ Clear
      BY <1>a, <3>1 DEF Stop, Clear
    <3>2. CASE Stopped
      BY <1>2, <1>b, <3>2 DEF Stopped
    <3>3. CASE Deploy
      <4>1. row' = [row EXCEPT !.clean = FALSE] \/ row' = [row EXCEPT !.status = "failed", !.clean = FALSE]
        BY <3>3 DEF Deploy
      <4> QED
        BY <1>2, <1>c, <1>d, <4>1
    <3>4. CASE Deployed
      <4>1. row' = [row EXCEPT !.status = "running"] \/ row' = [row EXCEPT !.status = "failed"]
        BY <3>4 DEF Deployed
      <4> QED
        BY <1>2, <1>b, <4>1
    <3> QED
      BY <1>5, <3>1, <3>2, <3>3, <3>4 DEF UserStep
  <2>2. lease' = lease \/ (lease = User /\ lease' = Nobody)
    BY <1>5 DEF UserStep, Stop, Stopped, Clear, Deploy, Deployed, UserIdle, Free
  <2>3. UNCHANGED <<flow, active, mishaps>>
    BY <1>5 DEF UserStep, Stop, Stopped, Clear, Deploy, Deployed
  <2> QED
    BY <2>1, <2>2, <2>3, ElsewhereMoves DEF Harmless, RowType
<1>6. CASE CycleStep
  <2>1. Harmless
    <3>1. CASE ReadRow \/ List \/ Probe \/ Leave
      BY <1>a, <3>1 DEF ReadRow, List, Probe, Leave
    <3>2. CASE Compensate
      BY <1>c, <3>2 DEF Compensate
    <3>3. CASE Adopt
      BY <1>2, <1>b, <3>3 DEF Adopt
    <3>4. CASE Heal
      BY <1>2, <1>a, <1>b, <3>4 DEF Heal
    <3>5. CASE Miss \/ Promote
      BY <1>2, <1>b, <3>5 DEF Miss, Promote
    <3> QED
      BY <1>6, <3>1, <3>2, <3>3, <3>4, <3>5 DEF CycleStep
  <2>2. UNCHANGED <<flow, lease, active>> /\ mishaps \subseteq mishaps'
    BY <1>6 DEF CycleStep, ReadRow, List, Compensate, Adopt, Heal, Miss, Probe, Promote, Leave, Acts
  <2> QED
    BY <2>1, <2>2, ElsewhereMoves DEF Harmless, RowType
<1>7. CASE Expire
  <2>1. Harmless
    BY <1>a, <1>7 DEF Expire
  <2> QED
    BY <1>7, <2>1, ElsewhereMoves DEF Expire, Harmless, RowType
<1> QED
  BY <1>4, <1>5, <1>6, <1>7

\* After a crash nothing is busy, and nobody answers for the row.
LEMMA CrashStep ==
    ASSUME Inv, Crash
    PROVE  Inv'
<1>1. \A r \in Reqs : flow'[r].at \in {"none", "done"}
  BY DEF Crash, At, NoFlow, Done
<1>2. Typing'
  <2> DEFINE FlowType == [at : Stages, kind : {"none", "upgrade", "bulk", "rollback"}, target : Versions,
                          kept : BOOLEAN, seen : [status : Words, tag : Versions, prev : Versions]]
  <2>1. NoFlow \in FlowType /\ Done \in FlowType
    BY DEF NoFlow, Done, Stages, Words, Versions
  <2> HIDE DEF FlowType
  <2>2. flow' \in [Reqs -> FlowType]
    BY <2>1 DEF Crash
  <2>3. lease' \in 0 .. User
    BY BoundsAssumption DEF Crash, Nobody, User
  <2> QED
    BY <2>2, <2>3 DEF FlowType, Inv, Typing, Crash
<1>3. Exclusive'
  BY <1>1 DEF Exclusive, Busy, Marked, At
<1>4. Answered'
  BY DEF Crash, Befalls, Answered
<1> QED
  BY <1>2, <1>3, <1>4 DEF Inv

LEMMA InitInv == Init => Inv
<1> SUFFICES ASSUME Init PROVE Inv
  OBVIOUS
<1>1. Typing
  BY BoundsAssumption DEF Init, Typing, NoFlow, Stages, Words, Statuses, Versions, Nobody, User
<1>2. \A r \in Reqs : flow[r].at = "none"
  BY DEF Init, NoFlow
<1>3. Exclusive
  BY <1>2 DEF Exclusive, Busy, Marked, At
<1>4. Answered
  BY <1>2 DEF Init, Answered, Busy
<1> QED
  BY <1>1, <1>3, <1>4 DEF Inv

LEMMA NextInv == Inv /\ [Next]_vars => Inv'
<1> SUFFICES ASSUME Inv, [Next]_vars PROVE Inv'
  OBVIOUS
<1>1. CASE UNCHANGED vars
  BY <1>1 DEF vars, Inv, Typing, Exclusive, Answered, Answers, Busy, Marked, Works, At
<1> QED
  BY <1>1, FlowSteps, OtherSteps, CrashStep DEF Next

LEMMA Invariance == Spec => []Inv
  BY InitInv, NextInv, PTL DEF Spec

-----------------------------------------------------------------------------
(* The theorems.                                                           *)

\* At most one upgrade or rollback is past its mark, for every number of requests, although a lease
\* may expire during a pull (activeUpgrades in upgradeManager.ts).
THEOREM OneFlowAlways == Spec => []OneFlow
<1>1. Inv => OneFlow
  BY DEF Inv, Exclusive, OneFlow, Works, AtRest, Busy
<1> QED
  BY <1>1, Invariance, PTL

\* As long as the server has not died, a row that says upgrading has a flow that is at work on it or
\* waits its turn: the reconciler may skip it.
THEOREM UpgradingIsAtWorkAlways == Spec => []UpgradingIsAtWork
<1>1. Inv => UpgradingIsAtWork
  BY DEF Inv, Answered, UpgradingIsAtWork, Answers, Works, AtRest, At
<1> QED
  BY <1>1, Invariance, PTL

=============================================================================
