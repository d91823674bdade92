------------------------- MODULE CodexBridge_proofs -------------------------
(***************************************************************************)
(* Proofs about CodexBridge, for every set of keys and sessions and every  *)
(* limit: a stop reaches the turn whichever way the bridge learns of it,   *)
(* and what the file says of a run goes one way.                           *)
(*                                                                         *)
(* The first rests on turns that never lose their mark before they end     *)
(* (Keeps), the second on the queue: as long as no item waits for its      *)
(* write, the file says what the memory says (Filed).                      *)
(***************************************************************************)
EXTENDS CodexBridge, SequenceTheorems, TLAPS

Statuses == {"none"} \cup Work \cup Ended
Kinds    == {"started", "completed", "failed", "interrupted", "closed"} \cup Requests

\* Records and notifications that name one of the first n turns.
Records(n) == [st : Statuses, bound : BOOLEAN, turn : 0 .. n, stop : BOOLEAN, asks : SUBSET (1 .. n), by : 0 .. n]
Notices(n) == [kind : Kinds, turn : 0 .. n]

Queue(ms, n) ==
    /\ ms \in Seq(Notices(n))
    /\ \A j \in 1 .. Len(ms) : ms[j].kind # "closed" => ms[j].turn # 0
Jobs(hs, n) == \A h \in hs : h.turn \in 1 .. n /\ h.run \in Keys

Typing ==
    /\ turns \in Seq(Turns)
    /\ runs \in [Keys -> Records(Len(turns))]
    /\ disk.runs \in [Keys -> Records(Len(turns))]
    /\ Queue(inbox, Len(turns)) /\ Jobs(held, Len(turns))
    /\ writing \in BOOLEAN /\ open \in BOOLEAN

\* How the status of a record may change.
OneWay(was, is) ==
    /\ was \in Work => is # "none"
    /\ was \in Ended => is \in {was, "none"}

Filed ==
    /\ ~writing => disk.runs = runs
    /\ \A k \in Keys : OneWay(disk.runs[k].st, runs[k].st)

Inv == Typing /\ StopReachesTheTurn /\ Filed

-----------------------------------------------------------------------------
(* What the operations on turns keep.                                      *)

Keeps(ts, us) ==
    /\ us \in Seq(Turns) /\ Len(us) = Len(ts)
    /\ \A i \in 1 .. Len(ts) :
        /\ ts[i].cut => us[i].cut \/ us[i].st = "ended"
        /\ ts[i].st = "ended" => us[i].st = "ended"

LEMMA OneKeeps ==
    ASSUME NEW ts \in Seq(Turns), NEW i \in 1 .. Len(ts), NEW t \in Turns,
           ts[i].cut => t.cut \/ t.st = "ended", ts[i].st = "ended" => t.st = "ended"
    PROVE  Keeps(ts, [ts EXCEPT ![i] = t])
<1>1. /\ [ts EXCEPT ![i] = t] \in Seq(Turns) /\ Len([ts EXCEPT ![i] = t]) = Len(ts)
      /\ \A j \in 1 .. Len(ts) : [ts EXCEPT ![i] = t][j] = IF j = i THEN t ELSE ts[j]
  BY ExceptSeq
<1> QED
  BY <1>1 DEF Keeps

LEMMA SameKeeps ==
    ASSUME NEW ts \in Seq(Turns)
    PROVE  Keeps(ts, ts)
  BY DEF Keeps

LEMMA CancelledKeeps ==
    ASSUME NEW ts \in Seq(Turns), NEW i \in 1 .. Len(ts)
    PROVE  Keeps(ts, Cancelled(ts, i))
<1>1. ts[i] \in Turns
  OBVIOUS
<1>2. PICK t : t = [ts[i] EXCEPT !.wants = "nothing", !.denied = TRUE]
  OBVIOUS
<1>3. t \in Turns /\ t.cut = ts[i].cut /\ t.st = ts[i].st
  BY <1>1, <1>2 DEF Turns
<1>4. Cancelled(ts, i) = [ts EXCEPT ![i] = t]
  BY <1>2 DEF Cancelled
<1> QED
  BY <1>3, <1>4, OneKeeps

LEMMA AnsweredKeeps ==
    ASSUME NEW ts \in Seq(Turns), NEW i \in 1 .. Len(ts)
    PROVE  Keeps(ts, Answered(ts, i))
<1>1. ts[i] \in Turns
  OBVIOUS
<1>2. PICK t : t = [ts[i] EXCEPT !.wants = "nothing"]
  OBVIOUS
<1>3. t \in Turns /\ t.cut = ts[i].cut /\ t.st = ts[i].st
  BY <1>1, <1>2 DEF Turns
<1>4. Answered(ts, i) = [ts EXCEPT ![i] = t]
  BY <1>2 DEF Answered
<1> QED
  BY <1>3, <1>4, OneKeeps

\* Whoever is interrupted is marked, unless it has ended or nobody is there to hear it.
LEMMA InterruptedKeeps ==
    ASSUME NEW ts \in Seq(Turns), NEW i \in 0 .. Len(ts)
    PROVE  /\ Keeps(ts, Interrupted(ts, i))
           /\ i # 0 /\ open => Interrupted(ts, i)[i].cut \/ Interrupted(ts, i)[i].st = "ended"
<1>1. CASE i # 0 /\ open /\ ts[i].st # "ended"
  <2>1. i \in 1 .. Len(ts) /\ ts[i] \in Turns
    BY <1>1
  <2>2. PICK t : t = [ts[i] EXCEPT !.cut = TRUE]
    OBVIOUS
  <2>3. t \in Turns /\ t.cut /\ t.st = ts[i].st
    BY <2>1, <2>2 DEF Turns
  <2>4. Interrupted(ts, i) = [ts EXCEPT ![i] = t]
    BY <1>1, <2>2 DEF Interrupted
  <2>5. [ts EXCEPT ![i] = t][i] = t
    BY <2>1
  <2> QED
    BY <2>1, <2>3, <2>4, <2>5, OneKeeps
<1>2. CASE ~(i # 0 /\ open /\ ts[i].st # "ended")
  BY <1>2, SameKeeps DEF Interrupted
<1> QED
  BY <1>1, <1>2

LEMMA LeavesKeeps ==
    ASSUME Typing, NEW ks, NEW by
    PROVE  Keeps(turns, Leaves(ks, by))
<1> DEFINE L(i) == [turns[i] EXCEPT !.left = @ \/ (turns[i].for \in ks /\ i # by /\ ~Reported(i))]
<1>1. \A i \in 1 .. Len(turns) : turns[i] \in Turns
  BY DEF Typing
<1>2. ASSUME NEW i \in 1 .. Len(turns)
      PROVE  L(i) \in Turns /\ L(i).cut = turns[i].cut /\ L(i).st = turns[i].st
  BY <1>1 DEF Turns
<1>3. Leaves(ks, by) = [i \in 1 .. Len(turns) |-> L(i)]
  BY DEF Leaves
<1> HIDE DEF L
<1>4. Len(turns) \in Nat
  BY DEF Typing
<1> QED
  BY <1>2, <1>3, <1>4 DEF Keeps

LEMMA OverKeeps ==
    ASSUME NEW t \in Turns
    PROVE  Over(t) \in Turns /\ Over(t).st = "ended"
  BY DEF Over, Turns

LEMMA AllEndedKeeps ==
    ASSUME Typing
    PROVE  /\ Keeps(turns, AllEnded)
           /\ \A i \in 1 .. Len(turns) : AllEnded[i].st = "ended"
<1>1. \A i \in 1 .. Len(turns) : Over(turns[i]) \in Turns /\ Over(turns[i]).st = "ended"
  BY OverKeeps DEF Typing
<1>2. Len(turns) \in Nat
  BY DEF Typing
<1> QED
  BY <1>1, <1>2 DEF AllEnded, Keeps

-----------------------------------------------------------------------------
(* What a step must do to keep Inv.                                        *)

\* The run k is no less stopped than before, or its turn has been told.
Hears(k) ==
    \/ runs[k].st \in Work /\ runs[k].stop /\ runs[k].turn = runs'[k].turn
    \/ runs'[k].st \in Work /\ runs'[k].stop /\ runs'[k].turn # 0 =>
          turns'[runs'[k].turn].cut \/ turns'[runs'[k].turn].st = "ended" \/ ~open'

LEMMA StillHeard ==
    ASSUME Typing, StopReachesTheTurn, Keeps(turns, turns'),
           runs' \in [Keys -> Records(Len(turns))], open' => open, \A k \in Keys : Hears(k)
    PROVE  StopReachesTheTurn'
<1> SUFFICES ASSUME NEW k \in Keys, runs'[k].st \in Work, runs'[k].stop, runs'[k].turn # 0
             PROVE  \/ turns'[runs'[k].turn].cut
                    \/ turns'[runs'[k].turn].st = "ended" \/ ~open'
  BY DEF StopReachesTheTurn, Active, Live
<1>1. runs'[k].turn \in 1 .. Len(turns)
  BY DEF Typing, Records
<1> QED
  BY <1>1 DEF StopReachesTheTurn, Active, Live, Keeps, Hears

\* A record that stays as it is has gone no way.
LEMMA SameWay == \A s \in Statuses : OneWay(s, s)
  BY DEF OneWay, Statuses, Work, Ended

\* An item of the queue.
Item ==
    /\ Idle
    /\ Write \/ (NoWrite /\ UNCHANGED runs)
    /\ Keeps(turns, turns')
    /\ runs' \in [Keys -> Records(Len(turns))]
    /\ \A k \in Keys : OneWay(runs[k].st, runs'[k].st) /\ Hears(k)

LEMMA ItemInv ==
    ASSUME Inv, Item, open' = open, Queue(inbox', Len(turns)), Jobs(held', Len(turns))
    PROVE  Inv'
<1>1. Typing /\ StopReachesTheTurn /\ Filed
  BY DEF Inv
<1>2. UNCHANGED disk /\ writing' \in BOOLEAN
  BY <1>1 DEF Item, Write, NoWrite, Typing
<1>3. Typing'
  BY <1>1, <1>2 DEF Typing, Item, Keeps
<1>4. StopReachesTheTurn'
  BY <1>1, StillHeard DEF Item
<1>5. Filed'
  BY <1>1 DEF Filed, Item, Idle, Write, NoWrite
<1> QED
  BY <1>3, <1>4, <1>5 DEF Inv

\* A step beside the queue.
LEMMA BesideInv ==
    ASSUME Inv, UNCHANGED <<runs, disk, writing>>, Keeps(turns, turns'), open' \in BOOLEAN, open' => open,
           Queue(inbox', Len(turns)), Jobs(held', Len(turns))
    PROVE  Inv'
<1>1. Typing /\ StopReachesTheTurn /\ Filed
  BY DEF Inv
<1>2. Typing'
  BY <1>1 DEF Typing, Keeps
<1>3. \A k \in Keys : runs[k].turn \in 0 .. Len(turns)
  BY <1>1 DEF Typing, Records
<1>4. StopReachesTheTurn'
  BY <1>1, <1>3 DEF StopReachesTheTurn, Active, Live, Keeps
<1>5. Filed'
  BY <1>1 DEF Filed
<1> QED
  BY <1>2, <1>4, <1>5 DEF Inv

\* What is known of the memory before a step.
LEMMA Before ==
    ASSUME Inv
    PROVE  /\ turns \in Seq(Turns) /\ Len(turns) \in Nat /\ runs \in [Keys -> Records(Len(turns))]
           /\ Queue(inbox, Len(turns)) /\ Jobs(held, Len(turns))
           /\ Keeps(turns, turns)
           /\ \A k \in Keys : /\ runs[k].turn \in 0 .. Len(turns) /\ runs[k].asks \subseteq 1 .. Len(turns)
                              /\ runs[k].st \in Statuses /\ OneWay(runs[k].st, runs[k].st)
  BY SameKeeps, SameWay DEF Inv, Typing, Records

\* An item that changes one record.
LEMMA OneRun ==
    ASSUME Inv, Idle, Write, Keeps(turns, turns'), open' = open,
           NEW k \in Keys, NEW r \in Records(Len(turns)), runs' = [runs EXCEPT ![k] = r],
           OneWay(runs[k].st, r.st),
           \/ runs[k].st \in Work /\ runs[k].stop /\ runs[k].turn = r.turn
           \/ r.st \in Work /\ r.stop /\ r.turn # 0 =>
                 turns'[r.turn].cut \/ turns'[r.turn].st = "ended" \/ ~open
    PROVE  Item
<1>1. /\ runs' \in [Keys -> Records(Len(turns))]
      /\ runs'[k] = r /\ \A l \in Keys \ {k} : runs'[l] = runs[l]
  BY Before
<1>2. Hears(k) /\ OneWay(runs[k].st, runs'[k].st)
  BY <1>1 DEF Hears
<1>3. \A l \in Keys \ {k} : Hears(l) /\ OneWay(runs[l].st, runs'[l].st)
  BY <1>1, Before DEF Hears
<1> QED
  BY <1>1, <1>2, <1>3 DEF Item

\* An item that changes none.
LEMMA NoRun ==
    ASSUME Inv, Idle, Write \/ NoWrite, Keeps(turns, turns'), open' = open, UNCHANGED runs
    PROVE  Item
<1>1. \A l \in Keys : Hears(l)
  BY Before, StillHeard DEF Hears, Inv, StopReachesTheTurn, Active, Live, Keeps, Typing, Records
<1> QED
  BY <1>1, Before DEF Item

LEMMA EndedTyped ==
    ASSUME Inv, NEW k \in Keys, NEW st \in Ended, NEW i \in 0 .. Len(turns)
    PROVE  EndedAs(k, st, i) \in Records(Len(turns)) /\ EndedAs(k, st, i).st = st
<1>1. runs[k] \in Records(Len(turns)) /\ st \in Statuses /\ Len(turns) \in Nat
  BY Before DEF Statuses
<1> QED
  BY <1>1 DEF EndedAs, Records

\* The end of a run is an item; so is an end that comes after the end.
LEMMA FinishItem ==
    ASSUME Inv, Idle, NEW k \in Keys, NEW st \in Ended, NEW i \in 0 .. Len(turns), Finish(k, st, i), open' = open
    PROVE  Item
<1>1. CASE Active(k) /\ Write /\ runs' = [runs EXCEPT ![k] = EndedAs(k, st, i)] /\ turns' = Leaves({k}, i)
  <2>1. EndedAs(k, st, i) \in Records(Len(turns)) /\ EndedAs(k, st, i).st = st
    BY EndedTyped
  <2>2. OneWay(runs[k].st, st) /\ st \notin Work
    BY <1>1 DEF Active, OneWay, Work, Ended
  <2> QED
    BY <1>1, <2>1, <2>2, LeavesKeeps, OneRun DEF Inv
<1>2. CASE NoWrite /\ UNCHANGED <<runs, turns>>
  BY <1>2, NoRun, Before
<1> QED
  BY <1>1, <1>2 DEF Finish

-----------------------------------------------------------------------------
(* The beginning and the items of the control plane.                       *)

LEMMA InitInv == Init => Inv
<1> SUFFICES ASSUME Init PROVE Inv
  OBVIOUS
<1>1. NewRun \in Records(0)
  BY DEF NewRun, Records, Statuses
<1>2. disk.runs = runs
  BY DEF Init, Image
<1>3. /\ turns = <<>> /\ inbox = <<>> /\ Len(turns) = 0 /\ Len(inbox) = 0
      /\ runs \in [Keys -> Records(Len(turns))]
  BY <1>1 DEF Init
<1>4. turns \in Seq(Turns) /\ Queue(inbox, Len(turns))
  BY <1>3 DEF Queue
<1>5. Typing
  BY <1>2, <1>3, <1>4 DEF Init, Typing, Jobs
<1>6. StopReachesTheTurn
  BY DEF Init, NewRun, StopReachesTheTurn
<1>7. Filed
  BY <1>2 DEF Init, NewRun, Filed, OneWay, Work, Ended
<1> QED
  BY <1>5, <1>6, <1>7 DEF Inv

LEMMA FreshTyped ==
    ASSUME Inv
    PROVE  /\ Queued \in Records(Len(turns)) /\ Queued.st = "queued" /\ ~Queued.stop
           /\ \A k \in Keys : Dropped(k) \in Records(Len(turns)) /\ Dropped(k).st = "none"
<1>1. NewRun \in Records(Len(turns)) /\ NewRun.st = "none" /\ ~NewRun.stop
  BY Before DEF NewRun, Records, Statuses
<1>2. Queued \in Records(Len(turns)) /\ Queued.st = "queued" /\ ~Queued.stop
  BY <1>1, Before DEF Queued, Records, Statuses, Work
<1>3. ASSUME NEW k \in Keys
      PROVE  Dropped(k) \in Records(Len(turns)) /\ Dropped(k).st = "none"
  <2>1. runs[k] \in Records(Len(turns))
    BY Before
  <2>2. [runs[k] EXCEPT !.st = "none"] \in Records(Len(turns)) /\ [runs[k] EXCEPT !.st = "none"].st = "none"
    BY <2>1 DEF Records, Statuses
  <2> QED
    BY <1>1, <2>2 DEF Dropped
<1> QED
  BY <1>2, <1>3

LEMMA SubmitInv == ASSUME Inv, NEW k \in Keys, Submit(k) PROVE Inv'
<1>1. /\ Idle /\ Write /\ runs[k].st = "none" /\ UNCHANGED <<turns, open, inbox, held>>
      /\ Keeps(turns, turns')
  BY Before DEF Submit, Known, native
<1>2. CASE runs' = [runs EXCEPT ![k] = Queued]
  <2>1. OneWay(runs[k].st, Queued.st)
    BY <1>1 DEF OneWay, Work, Ended
  <2> QED
    BY <1>1, <1>2, <2>1, FreshTyped, OneRun, ItemInv, Before
<1>3. ASSUME NEW j \in Keys, Oldest(j), runs' = [runs EXCEPT ![j] = Dropped(j), ![k] = Queued]
      PROVE  Item
  <2>1. /\ runs' \in [Keys -> Records(Len(turns))] /\ runs'[k] = Queued
        /\ j # k => runs'[j] = Dropped(j)
        /\ \A l \in Keys \ {j, k} : runs'[l] = runs[l]
    BY <1>3, FreshTyped, Before
  <2>2. OneWay(runs[k].st, runs'[k].st) /\ Hears(k)
    BY <1>1, <2>1, FreshTyped DEF OneWay, Work, Ended, Hears
  <2>3. j # k => OneWay(runs[j].st, runs'[j].st) /\ Hears(j)
    BY <1>3, <2>1, FreshTyped DEF Oldest, Active, OneWay, Hears, Work
  <2>4. \A l \in Keys \ {j, k} : OneWay(runs[l].st, runs'[l].st) /\ Hears(l)
    BY <2>1, Before DEF Hears
  <2> QED
    BY <1>1, <2>1, <2>2, <2>3, <2>4 DEF Item
<1> QED
  BY <1>1, <1>2, <1>3, ItemInv, Before DEF Submit, Adds, Replaces

LEMMA StopInv == ASSUME Inv, NEW k \in Keys, Stop(k) PROVE Inv'
<1>1. /\ Idle /\ Write /\ UNCHANGED <<open, inbox, held>>
      /\ turns' = Interrupted(turns, runs[k].turn)
      /\ runs' = [runs EXCEPT ![k] = [runs[k] EXCEPT !.stop = TRUE]]
  BY DEF Stop
<1>2. runs[k] \in Records(Len(turns))
  BY Before
<1>3. /\ [runs[k] EXCEPT !.stop = TRUE] \in Records(Len(turns))
      /\ [runs[k] EXCEPT !.stop = TRUE].st = runs[k].st /\ [runs[k] EXCEPT !.stop = TRUE].turn = runs[k].turn
  BY <1>2 DEF Records
<1>4. /\ Keeps(turns, turns')
      /\ runs[k].turn # 0 /\ open => turns'[runs[k].turn].cut \/ turns'[runs[k].turn].st = "ended"
  BY <1>1, Before, InterruptedKeeps
<1>5. Item
  BY <1>1, <1>3, <1>4, Before, OneRun
<1> QED
  BY <1>1, <1>5, ItemInv, Before

LEMMA ApproveInv == ASSUME Inv, NEW k \in Keys, NEW i \in runs[k].asks, Approve(k, i) PROVE Inv'
<1> DEFINE st == IF runs[k].asks = {i} THEN "running" ELSE "waiting"
           r == [runs[k] EXCEPT !.asks = @ \ {i}, !.st = st]
<1>1. /\ Idle /\ Write /\ runs[k].st \in Work /\ UNCHANGED <<open, inbox, held>>
      /\ turns' = Answered(turns, i) \/ turns' = Cancelled(turns, i)
      /\ runs' = [runs EXCEPT ![k] = r]
  BY DEF Approve, Active
<1>2. runs[k] \in Records(Len(turns)) /\ st \in Work
  BY Before DEF Work
<1>3. r \in Records(Len(turns)) /\ r.st \in Work /\ r.stop = runs[k].stop /\ r.turn = runs[k].turn
  BY <1>2 DEF Records, Statuses
<1>4. Keeps(turns, turns')
  BY <1>1, Before, AnsweredKeeps, CancelledKeeps
<1>5. OneWay(runs[k].st, r.st)
  BY <1>1, <1>3 DEF OneWay, Work, Ended
<1> HIDE DEF r
<1>6. Item
  BY <1>1, <1>3, <1>4, <1>5, OneRun
<1> QED
  BY <1>1, <1>6, ItemInv, Before

\* The write of an item: the file says what the memory says.
LEMMA PersistedInv == ASSUME Inv, Persisted PROVE Inv'
<1>1. Typing /\ StopReachesTheTurn
  BY DEF Inv
<1>2. disk'.runs = runs /\ writing' = FALSE /\ UNCHANGED <<runs, turns, open, inbox, held>>
  BY DEF Persisted, Image, memory, native
<1>3. Typing' /\ StopReachesTheTurn'
  BY <1>1, <1>2 DEF Typing, StopReachesTheTurn, Active, Live
<1>4. Filed'
  BY <1>2, Before DEF Filed
<1> QED
  BY <1>3, <1>4 DEF Inv

-----------------------------------------------------------------------------
(* The dispatch.                                                           *)

LEMMA QuietDispatchInv ==
    ASSUME Inv, NEW k \in Keys, ThreadAnswer(k) \/ GivesUp(k) \/ TurnAnswer(k)
    PROVE  Inv'
<1>1. UNCHANGED <<runs, disk, writing, turns, open, inbox, held>>
  BY DEF ThreadAnswer, GivesUp, TurnAnswer, memory, native
<1> QED
  BY <1>1, Before, BesideInv DEF Inv, Typing

LEMMA BindInv == ASSUME Inv, NEW k \in Keys, Bind(k) PROVE Inv'
<1> DEFINE r == [runs[k] EXCEPT !.bound = TRUE]
<1>1. Idle /\ Write /\ runs' = [runs EXCEPT ![k] = r] /\ UNCHANGED <<turns, open, inbox, held>>
  BY DEF Bind, native
<1>2. runs[k] \in Records(Len(turns))
  BY Before
<1>3. r \in Records(Len(turns)) /\ r.st = runs[k].st /\ r.stop = runs[k].stop /\ r.turn = runs[k].turn
  BY <1>2 DEF Records
<1>4. Keeps(turns, turns') /\ OneWay(runs[k].st, r.st)
  BY <1>1, <1>3, Before
<1>5. r.st \in Work /\ r.stop => runs[k].st \in Work /\ runs[k].stop /\ runs[k].turn = r.turn
  BY <1>3
<1> HIDE DEF r
<1>6. Item
  BY <1>1, <1>3, <1>4, <1>5, OneRun
<1> QED
  BY <1>1, <1>6, ItemInv, Before

\* The one step that adds a turn.
LEMMA SendInv == ASSUME Inv, NEW k \in Keys, Send(k) PROVE Inv'
<1>1. UNCHANGED <<runs, disk, writing, open, inbox, held>>
  BY DEF Send, memory
<1>2. CASE UNCHANGED turns
  BY <1>1, <1>2, Before, BesideInv DEF Inv, Typing
<1>3. ASSUME NEW l \in BOOLEAN, turns' = Append(turns, [NewTurn(k) EXCEPT !.left = l])
      PROVE  Inv'
  <2> DEFINE t == [NewTurn(k) EXCEPT !.left = l]
             n == Len(turns)
  <2>1. NewTurn(k) \in Turns
    BY DEF NewTurn, Turns
  <2>2. t \in Turns
    BY <2>1 DEF Turns
  <2> HIDE DEF t
  <2>3. /\ turns' \in Seq(Turns) /\ Len(turns') = n + 1
        /\ \A i \in 1 .. n : turns'[i] = turns[i]
    BY <1>3, <2>2, Before DEF t
  <2>4. n \in Nat /\ Records(n) \subseteq Records(n + 1) /\ Notices(n) \subseteq Notices(n + 1)
    BY Before DEF Records, Notices
  <2>5. Queue(inbox, n + 1)
    BY <2>4, Before DEF Queue
  <2>6. Jobs(held, n + 1)
    BY <2>4, Before DEF Jobs
  <2>7. runs \in [Keys -> Records(n + 1)] /\ disk.runs \in [Keys -> Records(n + 1)]
    BY <2>4 DEF Inv, Typing
  <2>8. Typing'
    BY <1>1, <2>3, <2>5, <2>6, <2>7 DEF Inv, Typing
  <2>9. StopReachesTheTurn'
    BY <1>1, <2>3, Before DEF Inv, StopReachesTheTurn, Active, Live
  <2>10. Filed'
    BY <1>1 DEF Inv, Filed
  <2> QED
    BY <2>8, <2>9, <2>10 DEF Inv
<1> QED
  BY <1>2, <1>3 DEF Send

\* What a turn becomes when its run learns of it.
LEMMA OvertakenKeeps ==
    ASSUME Inv, NEW k \in Keys, NEW i \in 0 .. Len(turns)
    PROVE  /\ Keeps(turns, Overtaken(k, i))
           /\ i # 0 /\ open /\ runs[k].stop /\ runs[k].st \in Work =>
                 Overtaken(k, i)[i].cut \/ Overtaken(k, i)[i].st = "ended"
  BY Before, InterruptedKeeps DEF Overtaken, Active

LEMMA RecordInv == ASSUME Inv, NEW k \in Keys, Record(k) PROVE Inv'
<1>1. PICK i \in 1 .. Len(turns) : Takes(k, i)
  BY DEF Record, TurnsOf
<1>2. Idle /\ UNCHANGED <<open, inbox, held>>
  BY DEF Record
<1>3. CASE NoWrite /\ UNCHANGED <<runs, turns>>
  BY <1>2, <1>3, NoRun, ItemInv, Before
<1>4. CASE Write /\ runs' = [runs EXCEPT ![k].turn = i] /\ turns' = Overtaken(k, i)
  <2> DEFINE r == [runs[k] EXCEPT !.turn = i]
  <2>1. runs' = [runs EXCEPT ![k] = r] /\ runs[k] \in Records(Len(turns))
    BY <1>4, Before
  <2>2. r \in Records(Len(turns)) /\ r.st = runs[k].st /\ r.stop = runs[k].stop /\ r.turn = i
    BY <2>1, <1>1, Before DEF Records
  <2>3. OneWay(runs[k].st, r.st)
    BY <2>2, Before
  <2> HIDE DEF r
  <2>4. i \in 0 .. Len(turns) /\ i # 0
    BY <1>1, Before
  <2>5. /\ Keeps(turns, turns')
        /\ r.st \in Work /\ r.stop => turns'[i].cut \/ turns'[i].st = "ended" \/ ~open
    BY <1>4, <2>2, <2>4, OvertakenKeeps
  <2>6. Item
    BY <1>2, <1>4, <2>1, <2>2, <2>3, <2>5, OneRun
  <2> QED
    BY <1>2, <2>6, ItemInv, Before
<1> QED
  BY <1>1, <1>3, <1>4 DEF Takes

LEMMA ConcludeInv == ASSUME Inv, NEW k \in Keys, Conclude(k) PROVE Inv'
<1>1. PICK st \in Ended : Finish(k, st, 0)
  BY DEF Conclude, Ended
<1>2. Idle /\ UNCHANGED <<open, inbox, held>>
  BY DEF Conclude
<1>3. Item
  BY <1>1, <1>2, FinishItem, Before
<1> QED
  BY <1>2, <1>3, ItemInv, Before

-----------------------------------------------------------------------------
(* The notifications.                                                      *)

LEMMA QueueTail ==
    ASSUME NEW n \in Nat, NEW ms, Queue(ms, n), ms # <<>>
    PROVE  /\ Queue(Tail(ms), n)
           /\ Head(ms) \in Notices(n)
           /\ Head(ms).kind # "closed" => Head(ms).turn \in 1 .. n
<1>1. ms \in Seq(Notices(n)) /\ Len(ms) \in Nat \ {0} /\ Head(ms) = ms[1]
  BY DEF Queue
<1>2. /\ Tail(ms) \in Seq(Notices(n)) /\ Len(Tail(ms)) = Len(ms) - 1
      /\ \A j \in 1 .. Len(Tail(ms)) : Tail(ms)[j] = ms[j + 1]
  BY <1>1
<1>3. ms[1] \in Notices(n)
  BY <1>1
<1> QED
  BY <1>1, <1>2, <1>3 DEF Queue, Notices

LEMMA QueueAppend ==
    ASSUME NEW n \in Nat, NEW ms, Queue(ms, n), NEW m \in Notices(n), m.kind # "closed" => m.turn # 0
    PROVE  Queue(Append(ms, m), n)
<1>1. ms \in Seq(Notices(n)) /\ Len(ms) \in Nat
  BY DEF Queue
<1>2. /\ Append(ms, m) \in Seq(Notices(n)) /\ Len(Append(ms, m)) = Len(ms) + 1
      /\ \A j \in 1 .. Len(ms) + 1 : Append(ms, m)[j] = IF j = Len(ms) + 1 THEN m ELSE ms[j]
  BY <1>1
<1> QED
  BY <1>1, <1>2 DEF Queue

LEMMA RefusedKeeps ==
    ASSUME Inv, NEW i \in 1 .. Len(turns), NEW j \in 0 .. Len(turns)
    PROVE  LET us == Interrupted(Answered(turns, i), j)
           IN  Keeps(turns, us) /\ (j # 0 /\ open => us[j].cut \/ us[j].st = "ended")
<1>1. Keeps(turns, Answered(turns, i))
  BY Before, AnsweredKeeps
<1>2. PICK ts : ts = Answered(turns, i)
  OBVIOUS
<1>3. ts \in Seq(Turns) /\ Len(ts) = Len(turns)
  BY <1>1, <1>2 DEF Keeps
<1>4. Keeps(ts, Interrupted(ts, j)) /\ (j # 0 /\ open => Interrupted(ts, j)[j].cut \/ Interrupted(ts, j)[j].st = "ended")
  BY <1>3, InterruptedKeeps
<1> QED
  BY <1>1, <1>2, <1>4, Before DEF Keeps

\* The notification m for the run k.
LEMMA StartedItem ==
    ASSUME Inv, Idle, open' = open, NEW k \in Keys, Active(k),
           NEW m, m.turn \in 1 .. Len(turns), Started(m, k)
    PROVE  Item
<1> DEFINE r == [runs[k] EXCEPT !.turn = m.turn, !.st = "running"]
<1>1. /\ Write /\ runs[k] \in Records(Len(turns)) /\ runs[k].st \in Work
      /\ turns' = Overtaken(k, m.turn)
      /\ runs' = [runs EXCEPT ![k] = r]
  BY Before DEF Started, Active
<1>2. m.turn \in 0 .. Len(turns) /\ m.turn # 0
  BY Before
<1>3. r \in Records(Len(turns)) /\ r.st \in Work /\ r.stop = runs[k].stop /\ r.turn = m.turn
  BY <1>1, <1>2 DEF Records, Statuses, Work
<1>4. OneWay(runs[k].st, r.st)
  BY <1>1, <1>3 DEF OneWay, Work, Ended
<1> HIDE DEF r
<1>5. /\ Keeps(turns, turns')
      /\ r.stop => turns'[r.turn].cut \/ turns'[r.turn].st = "ended" \/ ~open
  BY <1>1, <1>2, <1>3, OvertakenKeeps
<1> QED
  BY <1>1, <1>3, <1>4, <1>5, OneRun

LEMMA AsksApprovalItem ==
    ASSUME Inv, Idle, open' = open, NEW k \in Keys, Active(k),
           NEW m, m.turn \in 1 .. Len(turns), AsksApproval(m, k)
    PROVE  Item
<1> DEFINE r == [runs[k] EXCEPT !.asks = @ \cup {m.turn}, !.st = "waiting"]
<1>1. /\ Write /\ runs[k] \in Records(Len(turns)) /\ runs[k].st \in Work
      /\ UNCHANGED turns /\ runs' = [runs EXCEPT ![k] = r]
  BY Before DEF AsksApproval, Active
<1>2. r \in Records(Len(turns)) /\ r.st \in Work /\ r.stop = runs[k].stop /\ r.turn = runs[k].turn
  BY <1>1 DEF Records, Statuses, Work
<1>3. OneWay(runs[k].st, r.st) /\ Keeps(turns, turns')
  BY <1>1, <1>2, Before DEF OneWay, Work, Ended
<1> HIDE DEF r
<1> QED
  BY <1>1, <1>2, <1>3, OneRun

\* The run is stopped because of a request that is refused.
LEMMA RefusedItem ==
    ASSUME Inv, Idle, open' = open, NEW k \in Keys, NEW i \in 1 .. Len(turns), Write,
           runs' = [runs EXCEPT ![k].stop = TRUE],
           turns' = Interrupted(Answered(turns, i), runs[k].turn)
    PROVE  Item
<1> DEFINE r == [runs[k] EXCEPT !.stop = TRUE]
<1>1. runs[k] \in Records(Len(turns)) /\ runs' = [runs EXCEPT ![k] = r]
  BY Before
<1>2. r \in Records(Len(turns)) /\ r.st = runs[k].st /\ r.turn = runs[k].turn
  BY <1>1 DEF Records
<1> HIDE DEF r
<1>3. OneWay(runs[k].st, r.st)
  BY <1>2, Before
<1>4. /\ Keeps(turns, turns')
      /\ r.turn # 0 => turns'[r.turn].cut \/ turns'[r.turn].st = "ended" \/ ~open
  BY <1>2, RefusedKeeps, Before
<1> QED
  BY <1>1, <1>2, <1>3, <1>4, OneRun

\* The exit of the app-server.
LEMMA ClosedItem ==
    ASSUME Inv, Idle, open' = open, NEW m, Closed(m)
    PROVE  Item
<1>1. /\ Write \/ (NoWrite /\ Lost = {})
      /\ turns' = Leaves(Lost, 0)
      /\ runs' = [k \in Keys |-> IF k \in Lost THEN EndedAs(k, "failed", 0) ELSE runs[k]]
  BY DEF Closed
<1>2. ASSUME NEW k \in Keys
      PROVE  EndedAs(k, "failed", 0) \in Records(Len(turns)) /\ EndedAs(k, "failed", 0).st = "failed"
  BY EndedTyped, Before DEF Ended
<1>3. runs' \in [Keys -> Records(Len(turns))]
  BY <1>1, <1>2, Before
<1>4. ASSUME NEW k \in Keys
      PROVE  OneWay(runs[k].st, runs'[k].st) /\ Hears(k)
  <2>1. CASE k \in Lost
    BY <1>1, <1>2, <2>1 DEF Lost, Active, OneWay, Work, Ended, Hears
  <2>2. CASE k \notin Lost
    BY <1>1, <2>2, Before DEF Hears
  <2> QED
    BY <2>1, <2>2
<1>5. NoWrite /\ Lost = {} => UNCHANGED runs
  BY <1>1, Before
<1>6. Keeps(turns, turns')
  BY <1>1, LeavesKeeps DEF Inv
<1> QED
  BY <1>1, <1>3, <1>4, <1>5, <1>6 DEF Item

LEMMA ReceiveInv == ASSUME Inv, Receive PROVE Inv'
<1> DEFINE m == Head(inbox)
<1>1. Idle /\ inbox # <<>> /\ inbox' = Tail(inbox) /\ open' = open
  BY DEF Receive
<1>2. Queue(inbox', Len(turns)) /\ m \in Notices(Len(turns)) /\ (m.kind # "closed" => m.turn \in 1 .. Len(turns))
  BY <1>1, Before, QueueTail
<1>3. \/ Closed(m)
      \/ m.kind # "closed" /\ Unmatched(m)
      \/ m.kind # "closed" /\ \E k \in HitBy(m.turn) :
             \/ Started(m, k) \/ Completed(m, k)
             \/ AsksApproval(m, k) \/ AsksTool(m, k) \/ AsksQuestion(m, k) \/ AsksForeign(m, k)
  BY DEF Receive
<1> HIDE DEF m
<1>4. CASE Closed(m)
  <2>1. Item
    BY <1>1, <1>4, ClosedItem
  <2>2. held' = held
    BY <1>4 DEF Closed
  <2> QED
    BY <1>1, <1>2, <2>1, <2>2, ItemInv, Before
<1>5. CASE m.kind # "closed" /\ Unmatched(m)
  <2>1. Keeps(turns, turns') /\ NoWrite /\ UNCHANGED <<runs, held>>
    BY <1>2, <1>5, AnsweredKeeps, Before DEF Unmatched
  <2>2. Item
    BY <1>1, <2>1, NoRun
  <2> QED
    BY <1>1, <1>2, <2>1, <2>2, ItemInv, Before
<1>6. ASSUME m.kind # "closed", NEW k \in HitBy(m.turn)
      PROVE  /\ k \in Keys /\ Active(k) /\ m.turn \in 1 .. Len(turns)
             /\ held' \subseteq held \cup {[turn |-> m.turn, run |-> k, what |-> w] : w \in {"tool", "question"}}
                   => Jobs(held', Len(turns))
  BY <1>2, <1>6, Before DEF HitBy, InSession, Jobs
<1>7. ASSUME m.kind # "closed", NEW k \in HitBy(m.turn), Started(m, k)
      PROVE  Inv'
  <2>1. Item /\ held' = held
    BY <1>1, <1>6, <1>7, StartedItem DEF Started
  <2> QED
    BY <1>1, <1>2, <2>1, ItemInv, Before
<1>8. ASSUME m.kind # "closed", NEW k \in HitBy(m.turn), Completed(m, k)
      PROVE  Inv'
  <2>1. PICK st \in Ended : Finish(k, st, m.turn) /\ held' = held
    BY <1>8 DEF Completed, EndOf, Ended
  <2>2. m.turn \in 0 .. Len(turns) /\ k \in Keys
    BY <1>6, <1>8, Before
  <2>3. Item
    BY <1>1, <2>1, <2>2, FinishItem
  <2> QED
    BY <1>1, <1>2, <2>1, <2>3, ItemInv, Before
<1>9. ASSUME m.kind # "closed", NEW k \in HitBy(m.turn), AsksApproval(m, k)
      PROVE  Inv'
  <2>1. Item /\ held' = held
    BY <1>1, <1>6, <1>9, AsksApprovalItem DEF AsksApproval
  <2> QED
    BY <1>1, <1>2, <2>1, ItemInv, Before
<1>10. ASSUME m.kind # "closed", NEW k \in HitBy(m.turn), AsksTool(m, k) \/ AsksQuestion(m, k)
       PROVE  Inv'
  <2>1. /\ Write \/ NoWrite
        /\ UNCHANGED <<runs, turns>>
        /\ held' \subseteq held \cup {[turn |-> m.turn, run |-> k, what |-> w] : w \in {"tool", "question"}}
    BY <1>10 DEF AsksTool, AsksQuestion
  <2>2. Item
    BY <1>1, <2>1, NoRun, Before
  <2> QED
    BY <1>1, <1>2, <1>6, <1>10, <2>1, <2>2, ItemInv
<1>11. ASSUME m.kind # "closed", NEW k \in HitBy(m.turn), AsksForeign(m, k)
       PROVE  Inv'
  <2>1. held' = held /\ k \in Keys /\ m.turn \in 1 .. Len(turns)
    BY <1>6, <1>11 DEF AsksForeign
  <2>2. CASE open
    <3>1. Item
      BY <1>1, <1>11, <2>1, <2>2, RefusedItem DEF AsksForeign
    <3> QED
      BY <1>1, <1>2, <2>1, <3>1, ItemInv, Before
  <2>3. CASE ~open
    <3>1. NoWrite /\ UNCHANGED <<runs, turns>>
      BY <1>11, <2>3 DEF AsksForeign
    <3>2. Item
      BY <1>1, <3>1, NoRun, Before
    <3> QED
      BY <1>1, <1>2, <2>1, <3>2, ItemInv, Before
  <2> QED
    BY <2>2, <2>3
<1> QED
  BY <1>3, <1>4, <1>5, <1>7, <1>8, <1>9, <1>10, <1>11

LEMMA ReplyInv ==
    ASSUME Inv, NEW h \in held, ToolReply(h) \/ QuestionReply(h) \/ QuestionFails(h)
    PROVE  Inv'
<1>1. h.turn \in 1 .. Len(turns) /\ h.run \in Keys /\ Keeps(turns, Answered(turns, h.turn))
  BY Before, AnsweredKeeps DEF Jobs
<1>2. inbox' = inbox /\ open' = open /\ held' \subseteq held
  BY DEF ToolReply, QuestionReply, QuestionFails
<1>3. Queue(inbox', Len(turns)) /\ Jobs(held', Len(turns))
  BY <1>2, Before DEF Jobs
<1>4. CASE ToolReply(h)
  <2>1. Idle /\ (Write \/ NoWrite) /\ UNCHANGED runs /\ turns' = Answered(turns, h.turn)
    BY <1>4 DEF ToolReply
  <2>2. Item
    BY <1>1, <1>2, <2>1, NoRun
  <2> QED
    BY <1>2, <1>3, <2>2, ItemInv
<1>5. CASE QuestionReply(h)
  <2>1. UNCHANGED <<runs, disk, writing>> /\ turns' = Answered(turns, h.turn)
    BY <1>5 DEF QuestionReply, memory
  <2> QED
    BY <1>1, <1>2, <1>3, <2>1, BesideInv DEF Inv, Typing
<1>6. CASE QuestionFails(h) /\ Active(h.run)
  <2>1. /\ Idle /\ Write /\ runs' = [runs EXCEPT ![h.run].stop = TRUE]
        /\ turns' = Interrupted(Answered(turns, h.turn), runs[h.run].turn)
    BY <1>6 DEF QuestionFails
  <2>2. Item
    BY <1>1, <1>2, <2>1, RefusedItem
  <2> QED
    BY <1>2, <1>3, <2>2, ItemInv
<1>7. CASE QuestionFails(h) /\ ~Active(h.run)
  <2>1. Idle /\ NoWrite /\ UNCHANGED runs /\ turns' = Answered(turns, h.turn)
    BY <1>7 DEF QuestionFails
  <2>2. Item
    BY <1>1, <1>2, <2>1, NoRun
  <2> QED
    BY <1>2, <1>3, <2>2, ItemInv
<1> QED
  BY <1>4, <1>5, <1>6, <1>7

-----------------------------------------------------------------------------
(* The app-server and the restart.                                         *)

LEMMA TurnInv ==
    ASSUME Inv, NEW i \in 1 .. Len(turns), TurnStep(i) \/ \E what \in Requests : TurnAsks(i, what)
    PROVE  Inv'
<1>1. UNCHANGED <<runs, disk, writing, open, held>>
  BY DEF TurnStep, TurnBegins, TurnEnds, TurnAsks, memory
<1>2. turns[i] \in Turns /\ turns[i].st # "ended"
  <2>1. turns[i] \in Turns
    BY Before
  <2>2. turns[i].st # "ended"
    BY DEF TurnStep, TurnBegins, TurnEnds, TurnAsks
  <2> QED
    BY <2>1, <2>2
<1>3. ASSUME NEW kind \in Kinds, inbox' = Append(inbox, [kind |-> kind, turn |-> i])
      PROVE  Queue(inbox', Len(turns))
  <2>1. [kind |-> kind, turn |-> i] \in Notices(Len(turns)) /\ i # 0
    BY Before DEF Notices
  <2> QED
    BY <1>3, <2>1, QueueAppend, Before
<1>4. CASE TurnBegins(i)
  <2> DEFINE t == [turns[i] EXCEPT !.st = "working"]
  <2>1. turns' = [turns EXCEPT ![i] = t] /\ "started" \in Kinds
    BY <1>4 DEF TurnBegins, Kinds
  <2>2. t \in Turns /\ t.cut = turns[i].cut
    BY <1>2 DEF Turns
  <2> HIDE DEF t
  <2>3. Keeps(turns, turns')
    BY <1>2, <2>1, <2>2, OneKeeps, Before
  <2> QED
    BY <1>1, <1>3, <1>4, <2>1, <2>3, BesideInv, Before DEF TurnBegins, Inv, Typing
<1>5. ASSUME NEW what \in Requests, TurnAsks(i, what)
      PROVE  Inv'
  <2> DEFINE t == [turns[i] EXCEPT !.wants = what, !.asked = TRUE]
  <2>1. turns' = [turns EXCEPT ![i] = t] /\ what \in Kinds
    BY <1>5 DEF TurnAsks, Kinds
  <2>2. t \in Turns /\ t.cut = turns[i].cut
    BY <1>2 DEF Turns
  <2> HIDE DEF t
  <2>3. Keeps(turns, turns')
    BY <1>2, <2>1, <2>2, OneKeeps, Before
  <2> QED
    BY <1>1, <1>3, <1>5, <2>1, <2>3, BesideInv, Before DEF TurnAsks, Inv, Typing
<1>6. ASSUME NEW how \in {"completed", "failed", "interrupted"}, TurnEnds(i, how)
      PROVE  Inv'
  <2>1. turns' = [turns EXCEPT ![i] = Over(turns[i])] /\ how \in Kinds
    BY <1>6 DEF TurnEnds, Kinds
  <2>2. Over(turns[i]) \in Turns /\ Over(turns[i]).st = "ended"
    BY <1>2, OverKeeps
  <2>3. Keeps(turns, turns')
    BY <2>1, <2>2, OneKeeps, Before
  <2> QED
    BY <1>1, <1>3, <1>6, <2>1, <2>3, BesideInv, Before DEF TurnEnds, Inv, Typing
<1> QED
  BY <1>4, <1>5, <1>6 DEF TurnStep

LEMMA ExitsInv == ASSUME Inv, Exits PROVE Inv'
<1>1. UNCHANGED <<runs, disk, writing, held>> /\ open' = FALSE /\ turns' = AllEnded
  BY DEF Exits, memory
<1>2. [kind |-> "closed", turn |-> 0] \in Notices(Len(turns))
  BY Before DEF Notices, Kinds
<1>3. Queue(inbox', Len(turns))
  BY <1>2, QueueAppend, Before DEF Exits
<1> QED
  BY <1>1, <1>3, AllEndedKeeps, BesideInv, Before DEF Inv

\* Every turn has ended, and the records of the file lose what was at work.
LEMMA RestartInv == ASSUME Inv, Restart PROVE Inv'
<1>1. /\ runs' = [k \in Keys |-> Resumed(disk.runs[k])] /\ disk'.runs = runs'
      /\ inbox' = <<>> /\ held' = {} /\ open' = TRUE /\ writing' = FALSE /\ turns' = AllEnded
  BY DEF Restart, Image
<1>2. Keeps(turns, turns') /\ \A i \in 1 .. Len(turns) : turns'[i].st = "ended"
  BY <1>1, AllEndedKeeps DEF Inv
<1>3. ASSUME NEW k \in Keys
      PROVE  Resumed(disk.runs[k]) \in Records(Len(turns))
  <2>1. disk.runs[k] \in Records(Len(turns))
    BY DEF Inv, Typing
  <2> QED
    BY <2>1 DEF Resumed, Records, Statuses, Ended
<1>4. runs' \in [Keys -> Records(Len(turns))]
  BY <1>1, <1>3
<1>5. Queue(inbox', Len(turns)) /\ Jobs(held', Len(turns))
  BY <1>1, Before DEF Queue, Jobs
<1>6. Typing'
  BY <1>1, <1>2, <1>4, <1>5 DEF Typing, Keeps
<1>7. \A k \in Keys : runs'[k].turn \in 0 .. Len(turns) /\ OneWay(runs'[k].st, runs'[k].st)
  BY <1>4, SameWay DEF Records
<1>8. StopReachesTheTurn'
  BY <1>2, <1>7, Before DEF StopReachesTheTurn, Live
<1>9. Filed'
  BY <1>1, <1>7 DEF Filed
<1> QED
  BY <1>6, <1>8, <1>9 DEF Inv

-----------------------------------------------------------------------------
(* The theorems.                                                           *)

LEMMA NextInv == ASSUME Inv, [Next]_vars PROVE Inv'
<1>1. ASSUME NEW k \in Keys, Submit(k) \/ Stop(k) \/ DispatchStep(k)
      PROVE  Inv'
  BY <1>1, SubmitInv, StopInv, QuietDispatchInv, BindInv, SendInv, RecordInv, ConcludeInv DEF DispatchStep
<1>2. ASSUME NEW h \in held, ReplyStep(h)
      PROVE  Inv'
  BY <1>2, ReplyInv, RestartInv DEF ReplyStep, QuestionKills
<1>3. CASE Crash
  BY <1>3, RestartInv DEF Crash
<1>4. CASE UNCHANGED vars
  BY <1>4 DEF vars, memory, native, Inv, Typing, StopReachesTheTurn, Active, Live, Filed
<1> QED
  BY <1>1, <1>2, <1>3, <1>4, ApproveInv, PersistedInv, ReceiveInv, TurnInv, ExitsInv DEF Next

LEMMA Invariance == Spec => []Inv
  BY InitInv, NextInv, PTL DEF Spec

\* Whichever comes first of a stop, the answer to turn/start and turn/started, a stopped run whose
\* turn is known has asked it to stop (runtime.mjs: stop, start, onMessage).
THEOREM StopReachesAlways == Spec => []StopReachesTheTurn
<1>1. Inv => StopReachesTheTurn
  BY DEF Inv
<1> QED
  BY <1>1, Invariance, PTL

\* The file changes by the write of an item and by a restart only.
LEMMA FileStep ==
    ASSUME Inv, [Next]_vars
    PROVE  \/ UNCHANGED disk
           \/ disk'.runs = runs
           \/ disk'.runs = [k \in Keys |-> Resumed(disk.runs[k])]
<1>1. CASE Persisted
  BY <1>1 DEF Persisted, Image
<1>2. CASE Restart
  BY <1>2 DEF Restart, Image
<1>3. ASSUME Write \/ NoWrite
      PROVE  UNCHANGED disk
  BY <1>3 DEF Write, NoWrite
<1>4. ASSUME NEW k \in Keys, Submit(k) \/ Stop(k) \/ DispatchStep(k)
      PROVE  UNCHANGED disk
  BY <1>3, <1>4 DEF Submit, Stop, DispatchStep, ThreadAnswer, GivesUp, Bind, Send, TurnAnswer, Record, Takes,
                    Conclude, Finish
<1>5. ASSUME NEW k \in Keys, NEW i \in runs[k].asks, Approve(k, i)
      PROVE  UNCHANGED disk
  BY <1>3, <1>5 DEF Approve
<1>6. ASSUME Receive
      PROVE  UNCHANGED disk
  BY <1>3, <1>6 DEF Receive, Closed, Unmatched, Started, Completed, Finish, AsksApproval, AsksTool,
                    AsksQuestion, AsksForeign
<1>7. ASSUME NEW i \in 1 .. Len(turns), TurnStep(i) \/ \E what \in Requests : TurnAsks(i, what)
      PROVE  UNCHANGED disk
  BY <1>7 DEF TurnStep, TurnBegins, TurnEnds, TurnAsks
<1>8. ASSUME NEW h \in held, ReplyStep(h)
      PROVE  UNCHANGED disk \/ Restart
  BY <1>3, <1>8 DEF ReplyStep, ToolReply, QuestionReply, QuestionFails, QuestionKills
<1>9. CASE Exits \/ Crash \/ UNCHANGED vars
  BY <1>2, <1>9 DEF Exits, Crash, vars
<1> QED
  BY <1>1, <1>2, <1>4, <1>5, <1>6, <1>7, <1>8, <1>9 DEF Next

\* How the status of a record in the file may change, with a step of any kind.
EndsOnce ==
    [][\A k \in Keys :
        LET was == disk.runs[k].st  is == disk'.runs[k].st IN
        /\ was \in Work => is # "none"
        /\ was \in Ended => is \in {was, "none"}]_vars

\* What the file says of a run goes one way: a run at work is kept, one that ended does not change
\* until it is pruned (runtime.mjs: mutate, finish, initialize, submit).
THEOREM EndsOnceAlways == Spec => EndsOnce
<1> DEFINE Step == \A k \in Keys : OneWay(disk.runs[k].st, disk'.runs[k].st)
<1>1. ASSUME Inv, [Next]_vars
      PROVE  Step
  <2>1. \A k \in Keys : disk.runs[k].st \in Statuses /\ OneWay(disk.runs[k].st, runs[k].st)
    BY <1>1 DEF Inv, Typing, Records, Filed
  <2>2. \A k \in Keys : OneWay(disk.runs[k].st, Resumed(disk.runs[k]).st)
    BY <1>1, <2>1 DEF Inv, Typing, Records, Resumed, OneWay, Statuses, Work, Ended
  <2> QED
    BY <1>1, <2>1, <2>2, FileStep, SameWay
<1>2. Step => \A k \in Keys :
                 LET was == disk.runs[k].st  is == disk'.runs[k].st IN
                 /\ was \in Work => is # "none"
                 /\ was \in Ended => is \in {was, "none"}
  BY DEF OneWay
<1> QED
  BY <1>1, <1>2, Invariance, PTL DEF Spec, EndsOnce
=============================================================================
