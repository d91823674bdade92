-------------------------- MODULE CodexTurns_proofs --------------------------
(***************************************************************************)
(* More proofs about CodexBridge, for every set of keys and sessions and   *)
(* every limit: a key asks for one native turn, a run ends by the end of   *)
(* its own turn and is confirmed by it, and no request of a turn waits     *)
(* silently.                                                               *)
(*                                                                         *)
(* The invariant has three parts beside that of CodexBridge_proofs.        *)
(*                                                                         *)
(* Talk ties the turns to the runs: whatever the app-server still does or  *)
(* has said about a turn, that turn was left behind by the end of its run, *)
(* or its run is at work and takes what is said as its own.  It needs that *)
(* a session has one run at work, and the order of the notifications: a    *)
(* turn is announced first and its end comes last.                         *)
(*                                                                         *)
(* Book ties the keys to what the bridge remembers of them: whoever has a  *)
(* dispatch or a turn has a record or a tombstone, in memory and, once the *)
(* first write is done, in the file; a dispatch that has not asked for its *)
(* turn has none, and its record does not say that the run was completed.  *)
(*                                                                         *)
(* The third part is NothingWaitsSilently itself.                          *)
(*                                                                         *)
(* A step of the bridge is shown to be Handled and to keep the Books; what *)
(* that does to the invariant is shown once (HandledTalk, HandledBook,     *)
(* HandledWaits).  The steps of the app-server, a request for a turn, a    *)
(* write and a restart are shown one by one.                               *)
(***************************************************************************)
EXTENDS CodexBridge_proofs, FiniteSetTheorems

\* The turns there are, and what the queue holds about them.
Ids == 1 .. Len(turns)
Said(i, kind) == \E n \in 1 .. Len(inbox) : inbox[n].turn = i /\ inbox[n].kind = kind
Told(i) == \E n \in 1 .. Len(inbox) : inbox[n].turn = i

\* The app-server is not done with the turn, or the bridge has not heard all of it.
Unreported(i) == Live(i) \/ Told(i)

\* The bridge has heard of the turn's start.
Heard(i) == turns[i].st # "asked" /\ ~Said(i, "started")

\* The turn is k's, or was left behind by the end of its own run.
Owns(k, i) == turns[i].for = k \/ turns[i].left

\* The notifications that end a turn.
Terminal == {"completed", "failed", "interrupted"}

\* How far a dispatch gets, and the stages before it has asked for a turn.
Stages == {"none", "created", "thread", "resume", "bind", "binding", "bound", "turn", "answered",
           "failing", "cancelling"}
Early == {"created", "thread", "resume", "bind", "binding", "bound", "cancelling"}

\* The types Typing leaves out.
Listing == /\ tombs \in Seq(Keys) /\ disk.tombs \in Seq(Keys)
           /\ start \in [Keys -> Stages]

\* What the queue says of a turn is in order: its start first and its end last.
Ordered ==
    \A n \in 1 .. Len(inbox) :
        /\ inbox[n].kind = "closed" <=> inbox[n].turn = 0
        /\ inbox[n].turn # 0 => turns[inbox[n].turn].st # "asked"
        /\ inbox[n].kind \in Terminal =>
              /\ turns[inbox[n].turn].st = "ended"
              /\ \A p \in 1 .. Len(inbox) : p > n => inbox[p].turn # inbox[n].turn
        /\ inbox[n].kind = "started" => \A p \in 1 .. Len(inbox) : p < n => inbox[p].turn # inbox[n].turn

\* A turn that is asked to stop, waits for something or outlives the app-server has not ended.
Stilled ==
    \A i \in Ids : /\ turns[i].cut => turns[i].st # "ended"
                   /\ turns[i].wants # "nothing" => turns[i].st = "working"
                   /\ ~open => turns[i].st = "ended"

\* A turn that is not done, or not all heard of, is left behind or has its run at work.
Attended ==
    \A i \in Ids : Unreported(i) /\ ~turns[i].left => Active(turns[i].for) /\ runs[turns[i].for].bound

\* A session has one run at work.
OneAtWork == \A k, l \in Keys : SessionOf[k] = SessionOf[l] /\ Active(k) /\ Active(l) => k = l

\* A turn is asked to stop, and ends as interrupted, for a stop of its run or a denial.
CutForStop ==
    \A i \in Ids :
        turns[i].cut \/ Said(i, "interrupted") =>
            turns[i].left \/ turns[i].denied \/ runs[turns[i].for].stop

\* What a run has taken for its turn, and shows to the user, is its own or was left behind.
Taken ==
    \A k \in Keys : Active(k) =>
        /\ runs[k].turn # 0 => Owns(k, runs[k].turn)
        /\ \A i \in runs[k].asks : Owns(k, i) /\ Heard(i) /\ (~turns[i].left => runs[k].turn = i)

\* A run whose turn has been heard of knows it.
Introduced ==
    \A i \in Ids : Heard(i) /\ Unreported(i) /\ ~turns[i].left => runs[turns[i].for].turn # 0

\* The conversation with the app-server is in order.
Talk == Ordered /\ Stilled /\ Attended /\ OneAtWork /\ CutForStop /\ Taken /\ Introduced

-----------------------------------------------------------------------------
(* What the steps of the bridge do to turns and runs.                      *)

\* The bridge asks turns to stop, leaves them or answers them, and nothing else.
TurnsKept ==
    /\ turns' \in Seq(Turns) /\ Len(turns') = Len(turns)
    /\ \A i \in Ids : /\ turns'[i].for = turns[i].for /\ turns'[i].st = turns[i].st
                      /\ turns[i].left => turns'[i].left
                      /\ turns[i].denied => turns'[i].denied
                      /\ turns'[i].wants \in {turns[i].wants, "nothing"}

\* It takes at most the first notification.
News == inbox' = inbox \/ (inbox # <<>> /\ inbox' = Tail(inbox))

\* A run at work goes on.
Works(l) ==
    /\ Active(l) /\ Active(l)'
    /\ runs[l].stop => runs'[l].stop
    /\ runs[l].bound => runs'[l].bound
    /\ \/ runs'[l].turn = runs[l].turn
       \/ runs[l].turn = 0 /\ runs'[l].turn \in Ids /\ Owns(l, runs'[l].turn)
    /\ \A i \in runs'[l].asks : \/ i \in runs[l].asks
                                \/ i \in Ids /\ Owns(l, i) /\ Heard(i) /\ (~turns[i].left => runs'[l].turn = i)
    /\ runs'[l].by = runs[l].by
    /\ \A i \in runs[l].asks :
          runs[l].st = "waiting" =>
             \/ turns[i].left
             \/ turns'[i].wants = "nothing"
             \/ runs'[l].st = "waiting" /\ i \in runs'[l].asks

\* A record that is not at work changes in what does not matter, or is dropped.
Idles(l) ==
    /\ ~Active(l) /\ ~Active(l)'
    /\ \/ runs'[l].st = "none" /\ runs'[l].by \in {0, runs[l].by}
       \/ runs'[l].st = runs[l].st /\ runs'[l].stop = runs[l].stop /\ runs'[l].by = runs[l].by

\* A run at work ends, and leaves the turns that are not done.
Closes(l) ==
    /\ Active(l) /\ runs'[l].st \in Ended /\ runs'[l].stop = runs[l].stop
    /\ \A i \in TurnsOf(l) : Unreported(i)' => turns'[i].left
    /\ LET i == runs'[l].by
       IN  /\ i # 0 /\ turns[i].for # l => turns[i].left
           /\ runs'[l].st = "cancelled" /\ ~runs'[l].stop =>
                 i # 0 /\ (turns[i].left \/ turns[i].denied)
           /\ runs'[l].st \in {"completed", "cancelled"} =>
                 \/ i \in Ids /\ turns[i].st = "ended"
                 \/ i = 0 /\ start[l] = "cancelling" /\ start'[l] = "none"

\* A run begins.
Begins(l) ==
    /\ ~Active(l) /\ runs'[l] = Queued
    /\ start[l] = "none" /\ start'[l] = "created"
    /\ \A k \in Keys \ {l} : SessionOf[k] = SessionOf[l] => ~Active(k) /\ ~Active(k)'

\* The turn waits for a job beside the queue or for the user.
Pends(i) ==
    \/ \E h \in held : h.turn = i
    \/ \E k \in Keys : Active(k) /\ runs[k].st = "waiting" /\ i \in runs[k].asks

\* What every step of the bridge does that asks for no turn.
Handled ==
    /\ TurnsKept /\ News /\ open' = open
    /\ \A l \in Keys : runs'[l] = runs[l] \/ Works(l) \/ Idles(l) \/ Closes(l) \/ Begins(l)
    /\ \A i \in Ids : turns'[i].cut =>
          turns[i].cut \/ (turns[i].st # "ended" /\ (turns[i].left \/ runs'[turns[i].for].stop))
    /\ \A i \in Ids :
          Said(i, "started") /\ ~Said(i, "started")' => turns[i].left \/ runs'[turns[i].for].turn # 0
    /\ \A i \in Ids : \A w \in Requests :
          turns'[i].wants = w /\ Said(i, w) /\ ~Said(i, w)' => Pends(i)'
    /\ \A h \in held : h \in held' \/ turns'[h.turn].wants = "nothing"

\* Taking a notification makes nothing new of the queue, and loses the first only.
LEMMA NewsTold ==
    ASSUME Typing, News
    PROVE  /\ \A i : Told(i)' => Told(i)
           /\ \A i, kind : Said(i, kind)' => Said(i, kind)
           /\ \A i, kind : Said(i, kind) =>
                 \/ Said(i, kind)'
                 \/ Head(inbox).turn = i /\ Head(inbox).kind = kind /\ inbox' = Tail(inbox)
<1>0. inbox \in Seq(Notices(Len(turns))) /\ Len(inbox) \in Nat
  BY DEF Typing, Queue
<1>1. CASE inbox' = inbox
  BY <1>1 DEF Told, Said
<1>2. CASE inbox # <<>> /\ inbox' = Tail(inbox)
  <2>1. /\ Len(inbox') = Len(inbox) - 1 /\ \A n \in 1 .. Len(inbox') : inbox'[n] = inbox[n + 1]
        /\ Head(inbox) = inbox[1] /\ Len(inbox) # 0
    BY <1>0, <1>2
  <2>2. \A n \in 1 .. Len(inbox') : n + 1 \in 1 .. Len(inbox) /\ inbox'[n] = inbox[n + 1]
    BY <1>0, <2>1
  <2>3. \A n \in 1 .. Len(inbox) : n = 1 \/ (n - 1 \in 1 .. Len(inbox') /\ inbox'[n - 1] = inbox[n])
    BY <1>0, <2>1
  <2>4. \A i : Told(i)' => Told(i)
    BY <2>2 DEF Told
  <2>5. \A i, kind : Said(i, kind)' => Said(i, kind)
    BY <2>2 DEF Said
  <2>6. ASSUME NEW i, NEW kind, Said(i, kind)
        PROVE  Said(i, kind)' \/ (Head(inbox).turn = i /\ Head(inbox).kind = kind)
    <3>1. PICK n \in 1 .. Len(inbox) : inbox[n].turn = i /\ inbox[n].kind = kind
      BY <2>6 DEF Said
    <3> QED
      BY <2>1, <2>3, <3>1 DEF Said
  <2> QED
    BY <1>2, <2>4, <2>5, <2>6
<1> QED
  BY <1>1, <1>2 DEF News

\* ... and keeps its order.
LEMMA OrderedNews ==
    ASSUME Typing, Ordered, TurnsKept, News
    PROVE  Ordered'
<1>0. inbox \in Seq(Notices(Len(turns))) /\ Len(inbox) \in Nat
  BY DEF Typing, Queue
<1>1. Len(turns) \in Nat /\ \A n \in 1 .. Len(inbox) : inbox[n].turn \in 0 .. Len(turns)
  <2>1. \A n \in 1 .. Len(inbox) : inbox[n] \in Notices(Len(turns))
    BY <1>0
  <2> QED
    BY <2>1 DEF Notices, Typing
<1>2. CASE inbox' = inbox
  <2>1. \A n \in 1 .. Len(inbox) : inbox[n].kind \in Terminal => inbox[n].turn # 0
    BY DEF Ordered, Terminal
  <2>2. \A n \in 1 .. Len(inbox) : inbox[n].turn # 0 => turns'[inbox[n].turn].st = turns[inbox[n].turn].st
    BY <1>1 DEF TurnsKept, Ids
  <2> QED
    BY <1>2, <2>1, <2>2 DEF Ordered
<1>3. CASE inbox # <<>> /\ inbox' = Tail(inbox)
  <2>1. Len(inbox') = Len(inbox) - 1 /\ \A n \in 1 .. Len(inbox') : inbox'[n] = inbox[n + 1]
    BY <1>0, <1>3
  <2>2. \A n \in 1 .. Len(inbox') : n + 1 \in 1 .. Len(inbox) /\ inbox'[n] = inbox[n + 1]
    BY <1>0, <2>1
  <2>3. SUFFICES ASSUME NEW n \in 1 .. Len(inbox')
                 PROVE  /\ inbox'[n].kind = "closed" <=> inbox'[n].turn = 0
                        /\ inbox'[n].turn # 0 => turns'[inbox'[n].turn].st # "asked"
                        /\ inbox'[n].kind \in Terminal =>
                              /\ turns'[inbox'[n].turn].st = "ended"
                              /\ \A p \in 1 .. Len(inbox') : p > n => inbox'[p].turn # inbox'[n].turn
                        /\ inbox'[n].kind = "started" =>
                              \A p \in 1 .. Len(inbox') : p < n => inbox'[p].turn # inbox'[n].turn
    BY DEF Ordered
  <2>4. \A p \in 1 .. Len(inbox') : (p > n => p + 1 > n + 1) /\ (p < n => p + 1 < n + 1)
    BY <1>0, <2>1
  <2>5. inbox'[n] = inbox[n + 1] /\ n + 1 \in 1 .. Len(inbox) /\ inbox[n + 1].turn \in 0 .. Len(turns)
    BY <1>1, <2>2
  <2>6. inbox[n + 1].turn # 0 => turns'[inbox[n + 1].turn].st = turns[inbox[n + 1].turn].st
    BY <1>1, <2>5 DEF TurnsKept, Ids
  <2>7. inbox[n + 1].kind \in Terminal => inbox[n + 1].turn # 0
    BY <2>5 DEF Ordered, Terminal
  <2>8. /\ inbox[n + 1].kind = "closed" <=> inbox[n + 1].turn = 0
        /\ inbox[n + 1].turn # 0 => turns[inbox[n + 1].turn].st # "asked"
        /\ inbox[n + 1].kind \in Terminal => turns[inbox[n + 1].turn].st = "ended"
    BY <2>5 DEF Ordered
  <2>9. ASSUME NEW p \in 1 .. Len(inbox')
        PROVE  /\ inbox[n + 1].kind \in Terminal /\ p > n => inbox'[p].turn # inbox[n + 1].turn
               /\ inbox[n + 1].kind = "started" /\ p < n => inbox'[p].turn # inbox[n + 1].turn
    BY <2>2, <2>4, <2>5 DEF Ordered
  <2> QED
    BY <2>5, <2>6, <2>7, <2>8, <2>9
<1> QED
  BY <1>2, <1>3 DEF News

\* A step of the bridge starts no turn and hears of what there is to hear.
LEMMA UnreportedNews ==
    ASSUME Typing, TurnsKept, News, NEW i \in Ids, Unreported(i)'
    PROVE  Unreported(i)
  BY NewsTold DEF Unreported, Live, TurnsKept, Ids

\* What was heard of stays so.
LEMMA HeardNews ==
    ASSUME Typing, TurnsKept, News, NEW i \in Ids, Heard(i)
    PROVE  Heard(i)'
  BY NewsTold DEF Heard, TurnsKept, Ids

\* A step of the bridge keeps the conversation in order.
LEMMA HandledTalk ==
    ASSUME Typing, Talk, Handled
    PROVE  Talk'
<1>0. /\ TurnsKept /\ News /\ open' = open /\ Len(turns) \in Nat /\ Ids' = Ids
      /\ \A i \in Ids : turns[i] \in Turns /\ turns[i].for \in Keys /\ i # 0
      /\ Ordered /\ Stilled /\ Attended /\ OneAtWork /\ CutForStop /\ Taken /\ Introduced
  <2>1. Len(turns) \in Nat /\ \A i \in Ids : turns[i] \in Turns
    BY DEF Typing, Ids
  <2>2. \A i \in Ids : turns[i].for \in Keys /\ i # 0
    BY <2>1 DEF Turns, Ids
  <2> QED
    BY <2>1, <2>2 DEF Handled, Talk, TurnsKept, Ids
<1>1. Ordered'
  BY <1>0, OrderedNews
<1>2. Stilled'
  BY <1>0 DEF Stilled, Handled, TurnsKept
<1>3. \A l \in Keys : runs'[l] = runs[l] \/ Works(l) \/ Idles(l) \/ Closes(l) \/ Begins(l)
  BY DEF Handled
<1>4. Attended'
  <2> SUFFICES ASSUME NEW i \in Ids, Unreported(i)', ~turns'[i].left
               PROVE  runs'[turns'[i].for].st \in Work /\ runs'[turns'[i].for].bound
    BY <1>0 DEF Attended, Active
  <2>0. PICK l : l = turns[i].for
    OBVIOUS
  <2>1. turns[i].for = l /\ turns'[i].for = l /\ l \in Keys /\ Unreported(i) /\ ~turns[i].left
    BY <1>0, <2>0, UnreportedNews DEF TurnsKept
  <2>2. Active(l) /\ runs[l].bound
    BY <1>0, <2>1 DEF Attended
  <2>3. i \in TurnsOf(l)
    BY <2>1 DEF TurnsOf, Ids
  <2>4. ~Closes(l)
    BY <2>3 DEF Closes
  <2>5. ~Idles(l) /\ ~Begins(l)
    BY <2>2 DEF Idles, Begins
  <2> QED
    BY <1>3, <2>1, <2>2, <2>4, <2>5 DEF Works, Active
<1>5. OneAtWork'
  <2> SUFFICES ASSUME NEW k \in Keys, NEW l \in Keys, SessionOf[k] = SessionOf[l], Active(k)', Active(l)', k # l
               PROVE  FALSE
    BY DEF OneAtWork
  <2>1. ~Begins(k) /\ ~Begins(l)
    BY DEF Begins
  <2>2. Active(k) /\ Active(l)
    BY <1>3, <2>1 DEF Works, Idles, Closes, Active, Work, Ended
  <2> QED
    BY <1>0, <2>2 DEF OneAtWork
<1>6. CutForStop'
  <2> SUFFICES ASSUME NEW i \in Ids, turns'[i].cut \/ Said(i, "interrupted")', ~turns'[i].left
               PROVE  turns'[i].denied \/ runs'[turns'[i].for].stop
    BY <1>0 DEF CutForStop
  <2>0. PICK l : l = turns[i].for
    OBVIOUS
  <2>1. turns[i].for = l /\ turns'[i].for = l /\ l \in Keys /\ ~turns[i].left
    BY <1>0, <2>0 DEF TurnsKept
  <2>2. CASE turns[i].cut \/ Said(i, "interrupted")
    <3>1. Unreported(i) /\ (turns[i].denied \/ runs[l].stop)
      BY <1>0, <2>1, <2>2 DEF Stilled, CutForStop, Unreported, Live, Told, Said
    <3>2. Active(l)
      BY <1>0, <2>1, <3>1 DEF Attended
    <3> QED
      BY <1>0, <1>3, <2>1, <3>1, <3>2 DEF TurnsKept, Works, Idles, Closes, Begins
  <2>3. CASE ~(turns[i].cut \/ Said(i, "interrupted"))
    BY <1>0, <2>1, <2>3, NewsTold DEF Handled
  <2> QED
    BY <2>2, <2>3
<1>7. ASSUME NEW k \in Keys, NEW i \in Ids, Owns(k, i)
      PROVE  Owns(k, i)'
  BY <1>0, <1>7 DEF Owns, TurnsKept
<1>8. Taken'
  <2> SUFFICES ASSUME NEW k \in Keys, Active(k)'
               PROVE  /\ \A j : j = runs'[k].turn /\ j # 0 => Owns(k, j)'
                      /\ \A i \in runs'[k].asks :
                            Owns(k, i)' /\ Heard(i)' /\ (~turns'[i].left => runs'[k].turn = i)
    BY DEF Taken, Owns
  <2>1. runs[k].turn \in 0 .. Len(turns) /\ runs[k].asks \subseteq Ids
    BY DEF Typing, Records, Ids
  <2>2. CASE runs'[k] = runs[k]
    <3>1. Active(k)
      BY <2>2 DEF Active
    <3>2. runs[k].turn # 0 => runs[k].turn \in Ids
      BY <1>0, <2>1 DEF Ids
    <3> QED
      BY <1>0, <1>7, <2>1, <2>2, <3>1, <3>2, HeardNews DEF Taken, TurnsKept
  <2>3. CASE Works(k)
    <3>1. Active(k)
      BY <2>3 DEF Works
    <3>2. runs'[k].turn # 0 => Owns(k, runs'[k].turn)
      BY <1>0, <2>3, <3>1 DEF Works, Taken
    <3>5. runs'[k].turn # 0 => runs'[k].turn \in Ids
      BY <1>0, <2>1, <2>3 DEF Works, Ids
    <3>3. ASSUME NEW i \in runs'[k].asks
          PROVE  i \in Ids /\ Owns(k, i) /\ Heard(i) /\ (~turns[i].left => runs'[k].turn = i)
      <4>1. CASE i \in runs[k].asks
        BY <1>0, <2>1, <2>3, <3>1, <4>1 DEF Works, Taken
      <4>2. CASE i \notin runs[k].asks
        BY <2>3, <4>2 DEF Works
      <4> QED
        BY <4>1, <4>2
    <3>4. ASSUME NEW j, j = runs'[k].turn, j # 0
          PROVE  Owns(k, j)'
      BY <1>7, <3>2, <3>4, <3>5
    <3> QED
      BY <1>0, <1>7, <3>3, <3>4, HeardNews DEF TurnsKept
  <2>4. CASE Begins(k)
    BY <2>4 DEF Begins, Queued, NewRun
  <2> QED
    BY <1>3, <2>2, <2>3, <2>4 DEF Idles, Closes, Active, Work, Ended
<1>9. Introduced'
  <2> SUFFICES ASSUME NEW i \in Ids, Heard(i)', Unreported(i)', ~turns'[i].left
               PROVE  runs'[turns'[i].for].turn # 0
    BY <1>0 DEF Introduced
  <2>0. PICK l : l = turns[i].for
    OBVIOUS
  <2>1. turns[i].for = l /\ turns'[i].for = l /\ l \in Keys /\ ~turns[i].left /\ Unreported(i)
    BY <1>0, <2>0, UnreportedNews DEF TurnsKept
  <2>2. CASE Said(i, "started")
    BY <2>1, <2>2 DEF Handled, Heard
  <2>3. CASE ~Said(i, "started")
    <3>1. Heard(i)
      BY <1>0, <2>3 DEF Heard, TurnsKept
    <3>2. Active(l) /\ runs[l].turn # 0
      BY <1>0, <2>1, <3>1 DEF Introduced, Attended
    <3>3. i \in TurnsOf(l)
      BY <2>1 DEF TurnsOf, Ids
    <3>4. ~Closes(l) /\ ~Idles(l) /\ ~Begins(l)
      BY <3>2, <3>3 DEF Closes, Idles, Begins
    <3> QED
      BY <1>3, <2>1, <3>2, <3>4 DEF Works
  <2> QED
    BY <2>2, <2>3
<1> QED
  BY <1>1, <1>2, <1>4, <1>5, <1>6, <1>8, <1>9 DEF Talk

-----------------------------------------------------------------------------
(* What the steps of the app-server do to them.                            *)

\* What is added to the queue is told, and nothing else.
LEMMA AppendTold ==
    ASSUME Typing, NEW m, inbox' = Append(inbox, m)
    PROVE  /\ \A i : Told(i)' <=> Told(i) \/ m.turn = i
           /\ \A i, kind : Said(i, kind)' <=> Said(i, kind) \/ (m.turn = i /\ m.kind = kind)
<1>0. Len(inbox) \in Nat
  BY DEF Typing, Queue
<1>1. /\ Len(inbox') = Len(inbox) + 1 /\ inbox'[Len(inbox) + 1] = m
      /\ \A n \in 1 .. Len(inbox) : inbox'[n] = inbox[n]
  BY DEF Typing, Queue
<1>2. \A n \in 1 .. Len(inbox') : n \in 1 .. Len(inbox) \/ n = Len(inbox) + 1
  BY <1>0, <1>1
<1>3. Len(inbox) + 1 \in 1 .. Len(inbox') /\ \A n \in 1 .. Len(inbox) : n \in 1 .. Len(inbox')
  BY <1>0, <1>1
<1> QED
  BY <1>1, <1>2, <1>3 DEF Told, Said

\* The queue stays in order when a turn says what it does.
LEMMA OrderedAppend ==
    ASSUME Typing, Ordered, NEW m, m.turn \in 0 .. Len(turns), inbox' = Append(inbox, m),
           \A j \in Ids : /\ turns[j].st # "asked" => turns'[j].st # "asked"
                          /\ turns[j].st = "ended" => turns'[j].st = "ended",
           m.kind = "closed" <=> m.turn = 0,
           m.turn # 0 => turns[m.turn].st # "ended" /\ turns'[m.turn].st # "asked",
           m.kind \in Terminal => turns'[m.turn].st = "ended",
           m.kind = "started" => ~Told(m.turn)
    PROVE  Ordered'
<1>0. Len(inbox) \in Nat /\ Len(turns) \in Nat /\ inbox \in Seq(Notices(Len(turns)))
  BY DEF Typing, Queue
<1>1. \A n \in 1 .. Len(inbox) : inbox[n].turn \in 0 .. Len(turns)
  <2>1. \A n \in 1 .. Len(inbox) : inbox[n] \in Notices(Len(turns))
    BY <1>0
  <2> QED
    BY <2>1 DEF Notices
<1>2. /\ Len(inbox') = Len(inbox) + 1 /\ inbox'[Len(inbox) + 1] = m
      /\ \A n \in 1 .. Len(inbox) : inbox'[n] = inbox[n]
  BY <1>0
<1>3. \A n \in 1 .. Len(inbox') :
         n \in 1 .. Len(inbox) \/ (n = Len(inbox) + 1 /\ \A p \in 1 .. Len(inbox') : ~(p > n))
  BY <1>0, <1>2
<1>4. ASSUME NEW n \in 1 .. Len(inbox)
      PROVE  /\ inbox[n].kind = "closed" <=> inbox[n].turn = 0
             /\ inbox[n].turn # 0 => turns'[inbox[n].turn].st # "asked"
             /\ inbox[n].kind \in Terminal => turns'[inbox[n].turn].st = "ended" /\ inbox[n].turn # m.turn
  <2>1. inbox[n].turn \in 0 .. Len(turns) /\ (inbox[n].turn # 0 => inbox[n].turn \in Ids)
    BY <1>0, <1>1 DEF Ids
  <2>2. inbox[n].kind \in Terminal => inbox[n].turn # 0 /\ turns[inbox[n].turn].st = "ended"
    BY DEF Ordered, Terminal
  <2> QED
    BY <2>1, <2>2 DEF Ordered
<1>5. ASSUME NEW n \in 1 .. Len(inbox), NEW p \in 1 .. Len(inbox')
      PROVE  /\ inbox[n].kind \in Terminal /\ p > n => inbox'[p].turn # inbox[n].turn
             /\ inbox[n].kind = "started" /\ p < n => inbox'[p].turn # inbox[n].turn
  <2>1. CASE p \in 1 .. Len(inbox)
    BY <1>2, <2>1 DEF Ordered
  <2>2. CASE p = Len(inbox) + 1
    BY <1>0, <1>2, <1>4, <2>2
  <2> QED
    BY <1>3, <2>1, <2>2
<1>6. m.kind = "started" => \A p \in 1 .. Len(inbox') : p < Len(inbox) + 1 => inbox'[p].turn # m.turn
  BY <1>0, <1>2 DEF Told
<1>7. ASSUME NEW n \in 1 .. Len(inbox')
      PROVE  /\ inbox'[n].kind = "closed" <=> inbox'[n].turn = 0
             /\ inbox'[n].turn # 0 => turns'[inbox'[n].turn].st # "asked"
             /\ inbox'[n].kind \in Terminal =>
                   /\ turns'[inbox'[n].turn].st = "ended"
                   /\ \A p \in 1 .. Len(inbox') : p > n => inbox'[p].turn # inbox'[n].turn
             /\ inbox'[n].kind = "started" =>
                   \A p \in 1 .. Len(inbox') : p < n => inbox'[p].turn # inbox'[n].turn
  <2>1. CASE n \in 1 .. Len(inbox)
    BY <1>2, <1>4, <1>5, <2>1
  <2>2. CASE n = Len(inbox) + 1
    BY <1>2, <1>3, <1>6, <2>2, <1>0
  <2> QED
    BY <1>3, <2>1, <2>2
<1> QED
  BY <1>7 DEF Ordered

\* A turn begins, asks for something or ends, and says so.
Speaks(i, kind) ==
    /\ i \in Ids /\ open /\ open' /\ runs' = runs
    /\ turns' \in Seq(Turns) /\ Len(turns') = Len(turns)
    /\ \A j \in Ids : j # i => turns'[j] = turns[j]
    /\ inbox' = Append(inbox, [kind |-> kind, turn |-> i])
    /\ turns'[i].for = turns[i].for /\ turns'[i].left = turns[i].left /\ turns'[i].denied = turns[i].denied
    /\ turns'[i].cut => turns[i].cut /\ turns'[i].st # "ended"
    /\ turns'[i].wants # "nothing" => turns'[i].st = "working"
    /\ IF kind = "started" THEN turns[i].st = "asked" /\ turns'[i].st = "working"
                           ELSE turns[i].st = "working"
    /\ IF kind \in Terminal THEN turns'[i].st = "ended" ELSE turns'[i].st = "working"
    /\ kind = "interrupted" => turns[i].cut \/ turns[i].denied
    /\ kind # "closed"

\* A turn that says what it does keeps the conversation in order.
LEMMA SpeaksTalk ==
    ASSUME Typing, Talk, NEW i, NEW kind, Speaks(i, kind)
    PROVE  Talk'
<1>0. /\ Len(turns) \in Nat /\ Ids' = Ids /\ i \in Ids /\ i # 0
      /\ \A j \in Ids : /\ turns'[j].for = turns[j].for /\ turns'[j].left = turns[j].left
                        /\ turns'[j].denied = turns[j].denied
      /\ Ordered /\ Stilled /\ Attended /\ OneAtWork /\ CutForStop /\ Taken /\ Introduced
  <2>1. Len(turns) \in Nat
    BY DEF Typing
  <2>2. Ids' = Ids /\ i \in Ids /\ i # 0
    BY <2>1 DEF Speaks, Ids
  <2>3. \A j \in Ids : /\ turns'[j].for = turns[j].for /\ turns'[j].left = turns[j].left
                       /\ turns'[j].denied = turns[j].denied
    BY DEF Speaks
  <2> QED
    BY <2>1, <2>2, <2>3 DEF Talk
<1>1. PICK m : m = [kind |-> kind, turn |-> i]
  OBVIOUS
<1>2. m.kind = kind /\ m.turn = i /\ inbox' = Append(inbox, m)
  BY <1>1 DEF Speaks
<1>3. turns[i].st # "ended" /\ (kind = "started" => ~Told(i))
  BY <1>0 DEF Speaks, Told, Ordered
<1>4. /\ \A j : Told(j)' <=> Told(j) \/ j = i
      /\ \A j, w : Said(j, w)' <=> Said(j, w) \/ (j = i /\ w = kind)
  BY <1>2, AppendTold
<1>5. Ordered'
  <2>1. m.turn \in 0 .. Len(turns)
    BY <1>0, <1>2 DEF Ids
  <2>2. \A j \in Ids : /\ turns[j].st # "asked" => turns'[j].st # "asked"
                       /\ turns[j].st = "ended" => turns'[j].st = "ended"
    BY <1>3 DEF Speaks
  <2>3. m.kind = "closed" <=> m.turn = 0
    BY <1>0, <1>2 DEF Speaks
  <2>4. turns'[i].st # "asked" /\ (kind \in Terminal => turns'[i].st = "ended")
    BY DEF Speaks
  <2> QED
    BY <1>0, <1>2, <1>3, <2>1, <2>2, <2>3, <2>4, OrderedAppend
<1>6. Stilled'
  BY <1>0 DEF Stilled, Speaks
<1>7. ASSUME NEW j \in Ids
      PROVE  (Unreported(j)' => Unreported(j)) /\ (Heard(j)' <=> Heard(j))
  <2>1. Unreported(j)' => Unreported(j)
    BY <1>3, <1>4 DEF Unreported, Live, Speaks
  <2>2. Heard(j)' <=> Heard(j)
    BY <1>3, <1>4 DEF Heard, Speaks, Terminal
  <2> QED
    BY <2>1, <2>2
<1>8. Attended' /\ OneAtWork'
  BY <1>0, <1>7 DEF Attended, OneAtWork, Active, Speaks
<1>9. CutForStop'
  BY <1>0, <1>4 DEF CutForStop, Speaks
<1>10. Taken'
  <2>1. \A k \in Keys : (runs[k].turn # 0 => runs[k].turn \in Ids) /\ runs[k].asks \subseteq Ids
    BY DEF Typing, Records, Ids
  <2> QED
    BY <1>0, <1>7, <2>1 DEF Taken, Active, Owns, Speaks
<1>11. Introduced'
  BY <1>0, <1>7 DEF Introduced, Speaks
<1> QED
  BY <1>5, <1>6, <1>8, <1>9, <1>10, <1>11 DEF Talk

\* All turns end at once.
AllOver ==
    /\ turns' \in Seq(Turns) /\ Len(turns') = Len(turns)
    /\ \A j \in Ids : /\ turns'[j].for = turns[j].for /\ turns'[j].left = turns[j].left
                      /\ turns'[j].denied = turns[j].denied
                      /\ turns'[j].st = "ended" /\ ~turns'[j].cut /\ turns'[j].wants = "nothing"

\* The end of all turns is such an end of each.
LEMMA AllEndedOver ==
    ASSUME Typing, turns' = AllEnded
    PROVE  AllOver
<1>1. Len(turns) \in Nat /\ \A i \in 1 .. Len(turns) : turns[i] \in Turns
  BY DEF Typing
<1>2. ASSUME NEW t \in Turns
      PROVE  /\ Over(t) \in Turns /\ Over(t).for = t.for /\ Over(t).left = t.left /\ Over(t).denied = t.denied
             /\ Over(t).st = "ended" /\ ~Over(t).cut /\ Over(t).wants = "nothing"
  BY DEF Over, Turns
<1>3. turns' \in Seq(Turns) /\ Len(turns') = Len(turns) /\ \A j \in 1 .. Len(turns) : turns'[j] = Over(turns[j])
  BY <1>1, <1>2 DEF AllEnded
<1> QED
  BY <1>1, <1>2, <1>3 DEF AllOver, Ids

\* The exit of the app-server keeps the conversation in order.
LEMMA ExitsTalk ==
    ASSUME Typing, Talk, Exits
    PROVE  Talk'
<1>0. /\ Len(turns) \in Nat /\ Ids' = Ids /\ AllOver /\ runs' = runs
      /\ \A j \in Ids : /\ turns'[j].for = turns[j].for /\ turns'[j].left = turns[j].left
                        /\ turns'[j].denied = turns[j].denied
      /\ Ordered /\ Stilled /\ Attended /\ OneAtWork /\ CutForStop /\ Taken /\ Introduced
  <2>1. AllOver /\ runs' = runs
    BY AllEndedOver DEF Exits, memory
  <2> QED
    BY <2>1 DEF Typing, Talk, AllOver, Ids
<1>1. PICK m : m = [kind |-> "closed", turn |-> 0]
  OBVIOUS
<1>2. m.kind = "closed" /\ m.turn = 0 /\ inbox' = Append(inbox, m)
  BY <1>1 DEF Exits
<1>3. \A j \in Ids : Told(j)' => Told(j)
  BY <1>0, <1>2, AppendTold DEF Ids
<1>4. \A j \in Ids : \A w : Said(j, w)' <=> Said(j, w)
  BY <1>0, <1>2, AppendTold DEF Ids
<1>5. Ordered'
  BY <1>0, <1>2, OrderedAppend DEF AllOver, Terminal
<1>6. Stilled'
  BY <1>0 DEF Stilled, AllOver
<1>7. ASSUME NEW j \in Ids
      PROVE  /\ Unreported(j)' => Unreported(j) /\ turns[j].st # "asked"
             /\ Heard(j)' => turns[j].st = "asked" \/ Heard(j)
             /\ Heard(j) => Heard(j)'
  <2>1. Unreported(j)' => Told(j)
    BY <1>0, <1>3 DEF Unreported, Live, AllOver
  <2>2. Told(j) => turns[j].st # "asked"
    BY <1>0 DEF Told, Ordered, Ids
  <2>3. Heard(j)' => turns[j].st = "asked" \/ Heard(j)
    BY <1>4 DEF Heard
  <2>4. Heard(j) => Heard(j)'
    BY <1>0, <1>4 DEF Heard, AllOver
  <2> QED
    BY <2>1, <2>2, <2>3, <2>4 DEF Unreported
<1>8. Attended' /\ OneAtWork'
  BY <1>0, <1>7 DEF Attended, OneAtWork, Active
<1>9. CutForStop'
  BY <1>0, <1>4 DEF CutForStop, AllOver
<1>10. Taken'
  <2>1. \A k \in Keys : (runs[k].turn # 0 => runs[k].turn \in Ids) /\ runs[k].asks \subseteq Ids
    BY DEF Typing, Records, Ids
  <2> QED
    BY <1>0, <1>7, <2>1 DEF Taken, Active, Owns
<1>11. Introduced'
  BY <1>0, <1>7 DEF Introduced
<1> QED
  BY <1>5, <1>6, <1>8, <1>9, <1>10, <1>11 DEF Talk

\* A dispatch asks for its turn.
Asks(k, t) ==
    /\ open /\ start[k] = "bound" /\ start' = [start EXCEPT ![k] = "turn"]
    /\ turns' = Append(turns, t) /\ t \in Turns
    /\ t.for = k /\ t.st = "asked" /\ t.wants = "nothing" /\ ~t.cut /\ t.left = ~Active(k)
    /\ UNCHANGED <<memory, disk, writing, open, inbox, held, forgot>>

\* A turn that is asked for is its run's own, or left from the start.
LEMMA AsksTalk ==
    ASSUME Typing, Talk, NEW k \in Keys, NEW t, Asks(k, t), Active(k) => runs[k].bound
    PROVE  Talk'
<1>0. /\ Len(turns) \in Nat /\ runs' = runs /\ inbox' = inbox /\ open' = open /\ open
      /\ Ordered /\ Stilled /\ Attended /\ OneAtWork /\ CutForStop /\ Taken /\ Introduced
  BY DEF Typing, Talk, Asks, memory
<1>1. PICK n : n = Len(turns) + 1
  OBVIOUS
<1>2. /\ turns' \in Seq(Turns) /\ Len(turns') = n /\ turns'[n] = t
      /\ \A j \in Ids : turns'[j] = turns[j]
  BY <1>0, <1>1 DEF Asks, Typing, Ids
<1>3. /\ Ids' = Ids \cup {n} /\ n \notin Ids
  BY <1>0, <1>1, <1>2 DEF Ids
<1>4. \A j, w : (Told(j)' <=> Told(j)) /\ (Said(j, w)' <=> Said(j, w))
  BY <1>0 DEF Told, Said
<1>5. \A p \in 1 .. Len(inbox) : inbox[p].turn # 0 => inbox[p].turn \in Ids
  <2>1. \A p \in 1 .. Len(inbox) : inbox[p] \in Notices(Len(turns))
    BY DEF Typing, Queue
  <2> QED
    BY <1>0, <2>1 DEF Notices, Ids
<1>6. n # 0 /\ ~Told(n) /\ \A w : ~Said(n, w)
  BY <1>0, <1>1, <1>3, <1>5 DEF Told, Said
<1>13. /\ t.for = k /\ t.st = "asked" /\ t.wants = "nothing" /\ ~t.cut
       /\ ~t.left => Active(k) /\ runs[k].bound
  BY DEF Asks
<1>7. Ordered'
  <2>1. \A p \in 1 .. Len(inbox) : inbox[p].kind \in Terminal => inbox[p].turn # 0
    BY <1>0 DEF Ordered, Terminal
  <2> QED
    BY <1>0, <1>2, <1>5, <2>1 DEF Ordered
<1>8. Stilled'
  BY <1>0, <1>2, <1>3, <1>13 DEF Stilled
<1>9. Attended' /\ OneAtWork'
  <2>1. Attended'
    BY <1>0, <1>2, <1>3, <1>4, <1>13 DEF Attended, Active, Unreported, Live
  <2> QED
    BY <1>0, <2>1 DEF OneAtWork, Active
<1>10. CutForStop'
  BY <1>0, <1>2, <1>3, <1>4, <1>6, <1>13 DEF CutForStop
<1>11. Taken'
  <2>1. \A l \in Keys : (runs[l].turn # 0 => runs[l].turn \in Ids) /\ runs[l].asks \subseteq Ids
    BY DEF Typing, Records, Ids
  <2> QED
    BY <1>0, <1>2, <1>4, <2>1 DEF Taken, Active, Owns, Heard
<1>12. Introduced'
  BY <1>0, <1>2, <1>3, <1>4, <1>13 DEF Introduced, Heard, Unreported, Live
<1> QED
  BY <1>7, <1>8, <1>9, <1>10, <1>11, <1>12 DEF Talk

\* Nothing is at work after a restart.
LEMMA RestartTalk ==
    ASSUME Typing, Restart
    PROVE  /\ Talk' /\ AllOver
           /\ \A k \in Keys : ~Active(k)'
<1>1. AllOver /\ inbox' = <<>> /\ open' = TRUE /\ Len(turns) \in Nat /\ Ids' = Ids
  <2>1. AllOver
    BY AllEndedOver DEF Restart
  <2> QED
    BY <2>1 DEF Restart, Typing, AllOver, Ids
<1>2. ASSUME NEW k \in Keys PROVE ~Active(k)'
  <2>1. PICK r \in Records(Len(turns)) : r = disk.runs[k]
    BY DEF Typing
  <2>2. Resumed(r).st \notin Work
    BY <2>1 DEF Resumed, Records, Statuses, Work
  <2> QED
    BY <2>1, <2>2 DEF Restart, Active
<1>3. Len(inbox') = 0 /\ \A j, w : ~Told(j)' /\ ~Said(j, w)'
  BY <1>1 DEF Told, Said
<1>4. Ordered'
  BY <1>3 DEF Ordered
<1>5. Stilled' /\ Attended' /\ CutForStop' /\ Introduced'
  BY <1>1, <1>3 DEF AllOver, Stilled, Attended, CutForStop, Introduced, Unreported, Live
<1>6. OneAtWork' /\ Taken'
  BY <1>2 DEF OneAtWork, Taken
<1> QED
  BY <1>1, <1>2, <1>4, <1>5, <1>6 DEF Talk

-----------------------------------------------------------------------------
(* What is remembered of the keys.                                         *)

\* The record says that the run was completed or cancelled, and by no turn but its own.
Final(k) == runs[k].st \in {"completed", "cancelled"} /\ (runs[k].by = 0 \/ turns[runs[k].by].for = k)

\* The file has a record or a tombstone of the key.
KnownOnDisk(k) == disk.runs[k].st # "none" \/ \E n \in 1 .. Len(disk.tombs) : disk.tombs[n] = k

\* The dispatch gives up a run at work only if that is to stop.
Cancelling == \A k \in Keys : start[k] = "cancelling" /\ Active(k) => runs[k].stop

\* A run at work has been bound before its turn is asked for.
Prepared == \A k \in Keys : start[k] \in {"binding", "bound"} /\ Active(k) => runs[k].bound

\* Before its turn is asked for no run is completed or cancelled.
Confirmed == \A k \in Keys \ forgot : Final(k) => start[k] \notin Early

\* A key with a dispatch or a turn is known, in memory and, from the first write on, in the file;
\* a dispatch that has not asked for its turn has none.
Remembered ==
    \A k \in Keys \ forgot :
        /\ TurnsOf(k) # {} \/ start[k] # "none" => Known(k)
        /\ TurnsOf(k) # {} \/ start[k] \notin {"none", "created"} => KnownOnDisk(k)
        /\ start[k] \in Early => TurnsOf(k) = {}

\* A key has asked for one turn.
OneTurn == \A k \in Keys \ forgot : \A i, j \in TurnsOf(k) : i = j

\* EndedByItsTurn, of the records in memory and of those in the file.
ByItsTurn(rs) ==
    \A k \in Keys : LET i == rs[k].by IN
        /\ i # 0 /\ turns[i].for # k => turns[i].left
        /\ rs[k].st = "cancelled" /\ ~rs[k].stop => i # 0 /\ (turns[i].left \/ turns[i].denied)

\* What is remembered of the keys is in order.
Book == /\ Listing /\ Cancelling /\ Prepared /\ Confirmed /\ Remembered /\ OneTurn
        /\ ByItsTurn(runs) /\ ByItsTurn(disk.runs) /\ EndIsConfirmed

\* How a dispatch goes on.
Moves(k) ==
    \/ start'[k] = start[k]
    \/ start'[k] \in {"none", "failing", "answered"} /\ start[k] \notin {"none", "created"}
    \/ start'[k] = "bind" /\ start[k] \in {"thread", "resume"}
    \/ start'[k] = "binding" /\ start[k] = "bind" /\ runs'[k].bound
    \/ start'[k] = "cancelling" /\ start[k] = "bound" /\ runs'[k].stop
    \/ start'[k] = "created" /\ start[k] = "none" /\ ~Known(k) /\ runs'[k] = Queued

\* What every step of the bridge does to what it remembers, but for writes and restarts.
Books ==
    /\ disk' = disk /\ tombs' \in Seq(Keys) /\ start' \in [Keys -> Stages] /\ forgot \subseteq forgot'
    /\ \A k \in Keys : Moves(k) /\ (Known(k) => Known(k)' \/ k \in forgot')

\* A step of the bridge keeps what is remembered in order.
LEMMA HandledBook ==
    ASSUME Typing, Typing', Book, Handled, Books
    PROVE  Book'
<1>0. /\ Len(turns) \in Nat /\ Ids' = Ids /\ disk' = disk
      /\ \A i \in Ids : /\ turns'[i].for = turns[i].for /\ turns'[i].st = turns[i].st
                        /\ turns[i].left => turns'[i].left
                        /\ turns[i].denied => turns'[i].denied
      /\ \A k : TurnsOf(k)' = TurnsOf(k)
      /\ Cancelling /\ Prepared /\ Confirmed /\ Remembered /\ OneTurn
      /\ ByItsTurn(runs) /\ ByItsTurn(disk.runs) /\ EndIsConfirmed
  <2>1. /\ Len(turns) \in Nat /\ Ids' = Ids /\ disk' = disk
        /\ \A i \in Ids : /\ turns'[i].for = turns[i].for /\ turns'[i].st = turns[i].st
                          /\ turns[i].left => turns'[i].left
                          /\ turns[i].denied => turns'[i].denied
    BY DEF Typing, Handled, TurnsKept, Books, Ids
  <2>2. \A k : TurnsOf(k)' = TurnsOf(k)
    BY <2>1 DEF TurnsOf, Ids
  <2> QED
    BY <2>1, <2>2 DEF Book
<1>1. \A l \in Keys : runs'[l] = runs[l] \/ Works(l) \/ Idles(l) \/ Closes(l) \/ Begins(l)
  BY DEF Handled
<1>2. \A k \in Keys : /\ Moves(k) /\ (Known(k) => Known(k)' \/ k \in forgot')
                      /\ k \notin forgot' => k \notin forgot
  BY DEF Books
<1>3. \A k \in Keys : /\ runs[k].by \in 0 .. Len(turns) /\ disk.runs[k].by \in 0 .. Len(turns)
                      /\ runs[k].by # 0 => runs[k].by \in Ids
                      /\ disk.runs[k].by # 0 => disk.runs[k].by \in Ids
                      /\ runs'[k].by # 0 => runs'[k].by \in Ids
  <2>1. \A k \in Keys : /\ runs[k].by \in 0 .. Len(turns) /\ disk.runs[k].by \in 0 .. Len(turns)
                        /\ runs'[k].by \in 0 .. Len(turns')
    BY DEF Typing, Records
  <2> QED
    BY <1>0, <2>1 DEF Ids
<1>4. Listing'
  BY <1>0 DEF Listing, Books, Book
<1>5. Cancelling'
  BY <1>0, <1>1, <1>2 DEF Cancelling, Moves, Works, Idles, Closes, Begins, Active, Work, Ended
<1>6. Prepared'
  BY <1>0, <1>1, <1>2 DEF Prepared, Moves, Works, Idles, Closes, Begins, Active, Work, Ended
<1>7. ASSUME NEW k \in Keys, k \notin forgot', Final(k)'
      PROVE  \/ Final(k)
             \/ \E i \in TurnsOf(k) : turns[i].st = "ended"
             \/ start[k] = "cancelling" /\ start'[k] = "none"
  <2>0. PICK i : i = runs'[k].by
    OBVIOUS
  <2>1. runs'[k].st \in {"completed", "cancelled"} /\ (i = 0 \/ turns'[i].for = k) /\ runs'[k].by = i
    BY <1>7, <2>0 DEF Final
  <2>2. i = 0 \/ (i \in Ids /\ turns[i].for = k /\ i \in TurnsOf(k))
    BY <1>0, <1>3, <2>0, <2>1 DEF TurnsOf, Ids
  <2>3. CASE Closes(k)
    BY <2>1, <2>2, <2>3, <1>3 DEF Closes, Ids
  <2>4. CASE runs'[k] = runs[k] \/ Idles(k)
    <3>1. runs'[k].st = runs[k].st /\ runs[k].by = i
      BY <2>1, <2>4 DEF Idles
    <3> QED
      BY <2>1, <2>2, <3>1 DEF Final
  <2>5. ~Works(k) /\ ~Begins(k)
    BY <2>1 DEF Works, Begins, Active, Work, Queued, NewRun
  <2> QED
    BY <1>1, <2>3, <2>4, <2>5
<1>8. ASSUME NEW k \in Keys, k \notin forgot', Final(k)'
      PROVE  start'[k] \notin Early
  <2>1. (start[k] = "cancelling" /\ start'[k] = "none") \/ start[k] \notin Early
    BY <1>0, <1>2, <1>7, <1>8 DEF Confirmed, Remembered
  <2>2. ~(runs'[k] = Queued)
    BY <1>8 DEF Final, Queued, NewRun
  <2> QED
    BY <1>2, <2>1, <2>2 DEF Moves, Early
<1>9. Confirmed'
  BY <1>8 DEF Confirmed
<1>10. ASSUME NEW k \in Keys, k \notin forgot'
       PROVE  /\ TurnsOf(k) # {} \/ start'[k] # "none" => Known(k)'
              /\ TurnsOf(k) # {} \/ start'[k] \notin {"none", "created"} => KnownOnDisk(k)
              /\ start'[k] \in Early => TurnsOf(k) = {}
  <2>1. /\ TurnsOf(k) # {} \/ start[k] # "none" => Known(k)
        /\ TurnsOf(k) # {} \/ start[k] \notin {"none", "created"} => KnownOnDisk(k)
        /\ start[k] \in Early => TurnsOf(k) = {}
    BY <1>2, <1>0, <1>10 DEF Remembered
  <2>2. Known(k) => Known(k)'
    BY <1>2, <1>10
  <2>3. runs'[k] = Queued => Known(k)'
    BY DEF Known, Queued, NewRun
  <2> QED
    BY <1>2, <2>1, <2>2, <2>3 DEF Moves, Early
<1>11. Remembered'
  BY <1>0, <1>10 DEF Remembered, KnownOnDisk
<1>12. OneTurn'
  BY <1>0, <1>2 DEF OneTurn
<1>13. ByItsTurn(disk.runs)'
  BY <1>0, <1>3 DEF ByItsTurn
<1>14. ASSUME NEW k \in Keys
       PROVE  /\ runs'[k].by # 0 /\ turns'[runs'[k].by].for # k => turns'[runs'[k].by].left
              /\ runs'[k].st = "cancelled" /\ ~runs'[k].stop =>
                    runs'[k].by # 0 /\ (turns'[runs'[k].by].left \/ turns'[runs'[k].by].denied)
  <2>1. CASE Closes(k)
    BY <1>0, <1>3, <2>1 DEF Closes
  <2>2. CASE runs'[k] = runs[k] \/ Works(k) \/ Idles(k)
    <3>1. runs'[k].by = 0 \/ runs'[k].by = runs[k].by
      BY <2>2 DEF Works, Idles
    <3>2. runs'[k].st = "cancelled" /\ ~runs'[k].stop =>
             runs[k].st = "cancelled" /\ ~runs[k].stop /\ runs'[k].by = runs[k].by
      BY <2>2 DEF Works, Idles, Active, Work
    <3> QED
      BY <1>0, <1>3, <3>1, <3>2 DEF ByItsTurn
  <2>3. CASE Begins(k)
    BY <2>3 DEF Begins, Queued, NewRun
  <2> QED
    BY <1>1, <2>1, <2>2, <2>3
<1>15. ByItsTurn(runs)'
  BY <1>14 DEF ByItsTurn
<1>16. ASSUME NEW k \in Keys, k \notin forgot', Final(k)', NEW j \in TurnsOf(k)
       PROVE  turns'[j].st = "ended"
  <2>1. j \in Ids /\ k \notin forgot
    BY <1>2, <1>16 DEF TurnsOf, Ids
  <2>2. start[k] # "cancelling"
    BY <1>0, <2>1 DEF Remembered, Early
  <2>3. turns[j].st = "ended"
    BY <1>0, <1>7, <1>16, <2>1, <2>2 DEF EndIsConfirmed, OneTurn, Final, Live
  <2> QED
    BY <1>0, <2>1, <2>3
<1>17. EndIsConfirmed'
  BY <1>0, <1>16 DEF EndIsConfirmed, Final, Live
<1> QED
  BY <1>4, <1>5, <1>6, <1>9, <1>11, <1>12, <1>13, <1>15, <1>17 DEF Book

\* The app-server changes no record, no dispatch and nothing that is remembered.
Apart ==
    /\ UNCHANGED <<runs, start, tombs, disk, forgot>>
    /\ turns' \in Seq(Turns) /\ Len(turns') = Len(turns)
    /\ \A i \in Ids : /\ turns'[i].for = turns[i].for /\ turns'[i].left = turns[i].left
                      /\ turns'[i].denied = turns[i].denied
                      /\ turns[i].st = "ended" => turns'[i].st = "ended"

\* ... so what is remembered stays in order.
LEMMA ApartBook ==
    ASSUME Typing, Book, Apart
    PROVE  Book'
<1>0. /\ Len(turns) \in Nat /\ Ids' = Ids
      /\ \A k : TurnsOf(k)' = TurnsOf(k)
      /\ \A k \in Keys : /\ runs[k].by # 0 => runs[k].by \in Ids
                         /\ disk.runs[k].by # 0 => disk.runs[k].by \in Ids
  <2>1. Len(turns) \in Nat /\ Ids' = Ids
    BY DEF Typing, Apart, Ids
  <2>2. \A k : TurnsOf(k)' = TurnsOf(k)
    BY <2>1 DEF TurnsOf, Ids, Apart
  <2>3. \A k \in Keys : runs[k].by \in 0 .. Len(turns) /\ disk.runs[k].by \in 0 .. Len(turns)
    BY DEF Typing, Records
  <2> QED
    BY <2>1, <2>2, <2>3 DEF Ids
<1>1. Listing' /\ Cancelling' /\ Prepared'
  BY <1>0 DEF Apart, Book, Listing, Cancelling, Prepared, Active
<1>2. \A k \in Keys : Final(k)' => Final(k)
  BY <1>0 DEF Apart, Final
<1>3. Confirmed'
  BY <1>2 DEF Apart, Book, Confirmed
<1>4. Remembered' /\ OneTurn'
  BY <1>0 DEF Apart, Book, Remembered, OneTurn, Known, KnownOnDisk
<1>5. ByItsTurn(runs)' /\ ByItsTurn(disk.runs)'
  BY <1>0 DEF Apart, Book, ByItsTurn
<1>6. EndIsConfirmed'
  <2>1. ASSUME NEW k \in Keys, k \notin forgot, Final(k)', NEW j \in TurnsOf(k)
        PROVE  turns'[j].st = "ended"
    BY <1>0, <1>2, <2>1 DEF Apart, Book, EndIsConfirmed, Final, Live, TurnsOf, Ids
  <2> QED
    BY <1>0, <2>1 DEF Apart, EndIsConfirmed, Final, Live
<1> QED
  BY <1>1, <1>3, <1>4, <1>5, <1>6 DEF Book

\* A dispatch that asks for a turn has not asked for one before, nor has its key.
LEMMA AsksBook ==
    ASSUME Typing, Book, NEW k \in Keys, NEW t, Asks(k, t)
    PROVE  Book'
<1>0. /\ Len(turns) \in Nat /\ UNCHANGED <<runs, tombs, disk, forgot>>
      /\ Listing /\ start[k] = "bound" /\ t.for = k
  BY DEF Typing, Asks, memory, Book
<1>1. PICK n : n = Len(turns) + 1
  OBVIOUS
<1>2. /\ Len(turns') = n /\ turns'[n] = t
      /\ \A j \in Ids : turns'[j] = turns[j]
  BY <1>0, <1>1 DEF Asks, Typing, Ids
<1>3. Ids' = Ids \cup {n} /\ n \notin Ids
  BY <1>0, <1>1, <1>2 DEF Ids
<1>4. /\ start' \in [Keys -> Stages] /\ start'[k] = "turn"
      /\ \A l \in Keys \ {k} : start'[l] = start[l]
  BY <1>0 DEF Asks, Listing, Stages
<1>5. /\ TurnsOf(k)' = TurnsOf(k) \cup {n}
      /\ \A l \in Keys \ {k} : TurnsOf(l)' = TurnsOf(l)
  BY <1>0, <1>2, <1>3 DEF TurnsOf, Ids
<1>6. \A l \in Keys : /\ runs[l].by # 0 => runs[l].by \in Ids
                      /\ disk.runs[l].by # 0 => disk.runs[l].by \in Ids
  <2>1. \A l \in Keys : runs[l].by \in 0 .. Len(turns) /\ disk.runs[l].by \in 0 .. Len(turns)
    BY DEF Typing, Records
  <2> QED
    BY <1>0, <2>1 DEF Ids
<1>7. \A l \in Keys : Final(l)' <=> Final(l)
  BY <1>0, <1>2, <1>6 DEF Final
<1>8. k \notin forgot => TurnsOf(k) = {} /\ ~Final(k) /\ Known(k) /\ KnownOnDisk(k)
  BY <1>0 DEF Book, Remembered, Confirmed, Early
<1>9. Listing' /\ Cancelling' /\ Prepared'
  BY <1>0, <1>4 DEF Book, Listing, Cancelling, Prepared, Active
<1>10. Confirmed'
  BY <1>0, <1>4, <1>7, <1>8 DEF Book, Confirmed
<1>11. Remembered'
  BY <1>0, <1>4, <1>5, <1>8 DEF Book, Remembered, Known, KnownOnDisk, Early
<1>12. OneTurn'
  BY <1>0, <1>5, <1>8 DEF Book, OneTurn
<1>13. ByItsTurn(runs)' /\ ByItsTurn(disk.runs)'
  BY <1>0, <1>2, <1>6 DEF Book, ByItsTurn
<1>14. EndIsConfirmed'
  <2>1. ASSUME NEW l \in Keys, l \notin forgot, Final(l)', NEW j \in TurnsOf(l)'
        PROVE  turns'[j].st = "ended"
    <3>1. l # k /\ Final(l) /\ j \in TurnsOf(l) /\ j \in Ids
      BY <1>5, <1>7, <1>8, <2>1 DEF TurnsOf, Ids
    <3> QED
      BY <1>2, <2>1, <3>1 DEF Book, EndIsConfirmed, Final, Live
  <2> QED
    BY <1>0, <2>1 DEF EndIsConfirmed, Final, Live
<1> QED
  BY <1>9, <1>10, <1>11, <1>12, <1>13, <1>14 DEF Book

\* Once an item is written the file knows what the memory knows.
LEMMA PersistedBook ==
    ASSUME Typing, Book, Persisted
    PROVE  Book'
<1>0. /\ UNCHANGED <<runs, turns, tombs, forgot>> /\ disk'.runs = runs /\ disk'.tombs = tombs
      /\ start' = [k \in Keys |-> CASE start[k] = "created" -> Begun(k)
                                    [] start[k] = "binding" -> "bound"
                                    [] OTHER -> start[k]]
  BY DEF Persisted, Image, memory, native
<1>1. \A k \in Keys : Begun(k) \in {"thread", "resume", "bind"}
  <2>1. ASSUME NEW k \in Keys PROVE Begun(k) \in {"thread", "resume", "bind"}
    <3>1. CASE SessionOf[k] \notin thread
      BY <3>1 DEF Begun
    <3>2. CASE SessionOf[k] \in thread /\ SessionOf[k] \notin loaded
      BY <3>2 DEF Begun
    <3>3. CASE SessionOf[k] \in thread /\ SessionOf[k] \in loaded
      BY <3>3 DEF Begun
    <3> QED
      BY <3>1, <3>2, <3>3
  <2> QED
    BY <2>1
<1>2. ASSUME NEW k \in Keys
      PROVE  \/ start[k] = "created" /\ start'[k] \in {"thread", "resume", "bind"}
             \/ start[k] = "binding" /\ start'[k] = "bound"
             \/ start'[k] = start[k] /\ start[k] \notin {"created", "binding"}
  BY <1>0, <1>1
<1>3. start' \in [Keys -> Stages]
  <2>1. \A k \in Keys : start[k] \in Stages
    BY DEF Book, Listing
  <2>2. \A k \in Keys : start'[k] \in Stages
    BY <1>2, <2>1 DEF Stages
  <2> QED
    BY <1>0, <2>2
<1>4. \A k : TurnsOf(k)' = TurnsOf(k)
  BY <1>0 DEF TurnsOf
<1>5. Listing' /\ Cancelling' /\ Prepared'
  BY <1>0, <1>2, <1>3 DEF Book, Listing, Cancelling, Prepared, Active
<1>6. Confirmed'
  BY <1>0, <1>2 DEF Book, Confirmed, Final, Early
<1>7. \A k \in Keys : Known(k)' = Known(k) /\ KnownOnDisk(k)' = Known(k)
  BY <1>0 DEF Known, KnownOnDisk
<1>8. Remembered'
  BY <1>0, <1>2, <1>4, <1>7 DEF Book, Remembered, Early
<1>9. OneTurn' /\ EndIsConfirmed'
  BY <1>0, <1>4 DEF Book, OneTurn, EndIsConfirmed, Live
<1>10. ByItsTurn(runs)' /\ ByItsTurn(disk.runs)'
  BY <1>0 DEF Book, ByItsTurn
<1> QED
  BY <1>5, <1>6, <1>8, <1>9, <1>10 DEF Book

\* After a restart the memory knows what the file knew.
LEMMA RestartBook ==
    ASSUME Typing, Book, Restart
    PROVE  Book'
<1>0. /\ runs' = [k \in Keys |-> Resumed(disk.runs[k])] /\ tombs' = disk.tombs /\ forgot' = forgot
      /\ disk'.runs = runs' /\ disk'.tombs = tombs' /\ start' = [k \in Keys |-> "none"]
  BY DEF Restart, Image
<1>1. AllOver /\ Len(turns) \in Nat /\ Ids' = Ids
  <2>1. AllOver
    BY AllEndedOver DEF Restart
  <2> QED
    BY <2>1 DEF Typing, AllOver, Ids
<1>2. ASSUME NEW k \in Keys
      PROVE  /\ runs'[k].st = "none" <=> disk.runs[k].st = "none"
             /\ runs'[k].by = disk.runs[k].by /\ runs'[k].stop = disk.runs[k].stop
             /\ runs'[k].st = "cancelled" => disk.runs[k].st = "cancelled"
             /\ disk.runs[k].by # 0 => disk.runs[k].by \in Ids
  <2>1. PICK r \in Records(Len(turns)) : r = disk.runs[k]
    BY DEF Typing
  <2>2. runs'[k] = Resumed(r)
    BY <1>0, <2>1
  <2>3. /\ Resumed(r).st = "none" <=> r.st = "none"
        /\ Resumed(r).by = r.by /\ Resumed(r).stop = r.stop
        /\ Resumed(r).st = "cancelled" => r.st = "cancelled"
    BY <2>1 DEF Resumed, Records, Statuses, Work, Ended
  <2>4. r.by # 0 => r.by \in Ids
    BY <1>1, <2>1 DEF Records, Ids
  <2> QED
    BY <2>1, <2>2, <2>3, <2>4
<1>3. \A k : TurnsOf(k)' = TurnsOf(k)
  BY <1>1 DEF TurnsOf, AllOver, Ids
<1>4. \A k \in Keys : start'[k] = "none"
  BY <1>0
<1>5. Listing'
  BY <1>0 DEF Book, Listing, Stages
<1>6. Cancelling' /\ Prepared' /\ Confirmed'
  BY <1>4 DEF Cancelling, Prepared, Confirmed, Early
<1>7. \A k \in Keys : (Known(k)' <=> KnownOnDisk(k)) /\ (KnownOnDisk(k)' <=> KnownOnDisk(k))
  BY <1>0, <1>2 DEF Known, KnownOnDisk
<1>8. Remembered' /\ OneTurn'
  BY <1>0, <1>3, <1>4, <1>7 DEF Book, Remembered, OneTurn, Early
<1>9. \A k \in Keys : /\ runs'[k].by # 0 /\ turns'[runs'[k].by].for # k => turns'[runs'[k].by].left
                      /\ runs'[k].st = "cancelled" /\ ~runs'[k].stop =>
                            runs'[k].by # 0 /\ (turns'[runs'[k].by].left \/ turns'[runs'[k].by].denied)
  BY <1>1, <1>2 DEF Book, ByItsTurn, AllOver
<1>10. ByItsTurn(runs)' /\ ByItsTurn(disk.runs)'
  BY <1>0, <1>9 DEF ByItsTurn
<1>11. EndIsConfirmed'
  BY <1>1 DEF EndIsConfirmed, Live, AllOver, TurnsOf, Ids
<1> QED
  BY <1>5, <1>6, <1>8, <1>10, <1>11 DEF Book

-----------------------------------------------------------------------------
(* Whatever waits for an answer is waited for.                             *)

\* What a turn may wait for.
LEMMA WaitingTyped ==
    ASSUME Typing
    PROVE  \A i \in Ids : turns[i].wants \in {"nothing"} \cup Requests /\ i # 0
<1>1. Len(turns) \in Nat /\ \A i \in Ids : turns[i] \in Turns
  BY DEF Typing, Ids
<1> QED
  BY <1>1 DEF Turns, Ids

\* A step of the bridge leaves nobody waiting silently.
LEMMA HandledWaits ==
    ASSUME Typing, Typing', Talk, Talk', Handled, NothingWaitsSilently
    PROVE  NothingWaitsSilently'
<1>0. /\ Ids' = Ids
      /\ \A i \in Ids : /\ turns'[i].for = turns[i].for /\ turns'[i].st = turns[i].st
                        /\ turns[i].left => turns'[i].left
                        /\ turns'[i].wants \in {turns[i].wants, "nothing"}
                        /\ turns'[i].wants # "nothing" => turns'[i].st = "working"
  <2>1. Stilled' /\ Len(turns) \in Nat
    BY DEF Talk, Typing
  <2> QED
    BY <2>1 DEF Handled, TurnsKept, Ids, Stilled
<1> SUFFICES ASSUME NEW i \in Ids, NEW w, w = turns'[i].wants, w # "nothing", ~turns'[i].left
             PROVE  Said(i, w)' \/ Pends(i)'
  BY <1>0 DEF NothingWaitsSilently, Said, Pends, Ids
<1>1. w \in Requests /\ w = turns'[i].wants
  BY <1>0, WaitingTyped
<1>2. turns[i].wants = w /\ ~turns[i].left
  BY <1>0, <1>1
<1>3. CASE Said(i, w)
  BY <1>1, <1>3 DEF Handled
<1>4. ASSUME NEW h \in held, h.turn = i
      PROVE  Pends(i)'
  <2>1. h \in held'
    BY <1>4 DEF Handled
  <2> QED
    BY <1>4, <2>1 DEF Pends
<1>5. ASSUME NEW k \in Keys, Active(k), runs[k].st = "waiting", i \in runs[k].asks
      PROVE  Pends(i)'
  <2>1. runs'[k] = runs[k] \/ Works(k) \/ Closes(k)
    BY <1>5 DEF Handled, Idles, Begins
  <2>2. CASE runs'[k] = runs[k]
    BY <1>5, <2>2 DEF Pends, Active
  <2>3. CASE Works(k)
    BY <1>1, <1>2, <1>5, <2>3 DEF Works, Pends
  <2>4. CASE Closes(k)
    <3>1. turns[i].for = k
      BY <1>2, <1>5 DEF Talk, Taken, Owns
    <3>2. i \in TurnsOf(k) /\ Unreported(i)'
      BY <1>0, <3>1 DEF TurnsOf, Ids, Unreported, Live
    <3> QED
      BY <2>4, <3>2 DEF Closes
  <2> QED
    BY <2>1, <2>2, <2>3, <2>4
<1>6. Said(i, w) \/ (\E h \in held : h.turn = i)
      \/ \E k \in Keys : Active(k) /\ runs[k].st = "waiting" /\ i \in runs[k].asks
  BY <1>1, <1>2 DEF NothingWaitsSilently, Said, Ids
<1> QED
  BY <1>3, <1>4, <1>5, <1>6

\* A turn that waits has said what for.
LEMMA SpeaksWaits ==
    ASSUME Typing, NothingWaitsSilently, NEW i, NEW kind, Speaks(i, kind), held' = held,
           turns'[i].wants \in {"nothing", kind}
    PROVE  NothingWaitsSilently'
<1>0. Ids' = Ids /\ i \in Ids /\ \A j \in Ids : turns'[j].left = turns[j].left
  BY DEF Speaks, Typing, Ids
<1>1. PICK m : m = [kind |-> kind, turn |-> i]
  OBVIOUS
<1>2. \A j, w : Said(j, w)' <=> Said(j, w) \/ (j = i /\ w = kind)
  BY <1>1, AppendTold DEF Speaks
<1> SUFFICES ASSUME NEW j \in Ids, NEW w, w = turns'[j].wants, w # "nothing", ~turns'[j].left
             PROVE  Said(j, w)' \/ Pends(j)'
  BY <1>0 DEF NothingWaitsSilently, Said, Pends, Ids
<1>3. CASE j = i
  BY <1>2, <1>3
<1>4. CASE j # i
  <2>1. turns[j] = turns'[j]
    BY <1>4 DEF Speaks
  <2>2. Said(j, w) \/ Pends(j)
    BY <2>1 DEF NothingWaitsSilently, Said, Pends, Ids
  <2>3. Pends(j) => Pends(j)'
    BY DEF Pends, Active, Speaks
  <2> QED
    BY <1>2, <2>2, <2>3
<1> QED
  BY <1>3, <1>4

\* A turn that is asked for waits for nothing.
LEMMA AsksWaits ==
    ASSUME Typing, NothingWaitsSilently, NEW k \in Keys, NEW t, Asks(k, t)
    PROVE  NothingWaitsSilently'
<1>0. /\ Len(turns) \in Nat /\ UNCHANGED <<runs, inbox, held>> /\ t.wants = "nothing"
  BY DEF Typing, Asks, memory
<1>1. /\ Len(turns') = Len(turns) + 1 /\ turns'[Len(turns) + 1] = t
      /\ \A j \in 1 .. Len(turns) : turns'[j] = turns[j]
  BY <1>0 DEF Asks, Typing
<1>2. \A j \in 1 .. Len(turns') : j \in 1 .. Len(turns) \/ turns'[j].wants = "nothing"
  BY <1>0, <1>1
<1> QED
  BY <1>0, <1>1, <1>2 DEF NothingWaitsSilently, Active

\* Nor does one that has ended.
LEMMA OverWaits ==
    ASSUME AllOver
    PROVE  NothingWaitsSilently'
  BY DEF AllOver, NothingWaitsSilently, Ids

-----------------------------------------------------------------------------
(* What the operators on turns change.                                     *)

\* The same turns, of which some are left or answered, or asked to stop.
Like(ts, us) ==
    /\ us \in Seq(Turns) /\ Len(us) = Len(ts)
    /\ \A i \in 1 .. Len(ts) :
          /\ us[i].for = ts[i].for /\ us[i].st = ts[i].st
          /\ ts[i].left => us[i].left
          /\ ts[i].denied => us[i].denied
          /\ us[i].wants \in {ts[i].wants, "nothing"}

\* Turns are like themselves,
LEMMA SameLike ==
    ASSUME NEW ts \in Seq(Turns)
    PROVE  Like(ts, ts)
  BY DEF Like

\* ... like those that are like others like them,
LEMMA LikeLike ==
    ASSUME NEW ts, NEW us, NEW vs, Like(ts, us), Like(us, vs)
    PROVE  Like(ts, vs)
  BY DEF Like

\* ... and like those of which one is so changed.
LEMMA OneLike ==
    ASSUME NEW ts \in Seq(Turns), NEW i \in 1 .. Len(ts), NEW t \in Turns,
           t.for = ts[i].for, t.st = ts[i].st, t.left = ts[i].left, ts[i].denied => t.denied,
           t.wants \in {ts[i].wants, "nothing"}
    PROVE  Like(ts, [ts EXCEPT ![i] = t])
<1>1. /\ [ts EXCEPT ![i] = t] \in Seq(Turns) /\ Len([ts EXCEPT ![i] = t]) = Len(ts)
      /\ \A j \in 1 .. Len(ts) : [ts EXCEPT ![i] = t][j] = IF j = i THEN t ELSE ts[j]
  BY ExceptSeq
<1> QED
  BY <1>1 DEF Like

\* An answer is for one turn, and marks none.
LEMMA AnsweredLike ==
    ASSUME NEW ts \in Seq(Turns), NEW i \in 1 .. Len(ts), NEW us, us = Answered(ts, i)
    PROVE  /\ Like(ts, us)
           /\ us[i].wants = "nothing" /\ \A j \in 1 .. Len(ts) : us[j].cut = ts[j].cut
<1>1. ts[i] \in Turns
  OBVIOUS
<1>2. PICK t : t = [ts[i] EXCEPT !.wants = "nothing"]
  OBVIOUS
<1>3. /\ t \in Turns /\ t.cut = ts[i].cut /\ t.st = ts[i].st /\ t.for = ts[i].for /\ t.left = ts[i].left
      /\ t.denied = ts[i].denied /\ t.wants = "nothing"
  BY <1>1, <1>2 DEF Turns
<1>4. us = [ts EXCEPT ![i] = t]
  BY <1>2 DEF Answered
<1>5. Like(ts, us)
  BY <1>3, <1>4, OneLike
<1>6. \A j \in 1 .. Len(ts) : us[j] = IF j = i THEN t ELSE ts[j]
  BY <1>4
<1> QED
  BY <1>3, <1>5, <1>6

\* Nor does a denial, which answers and may cancel.
LEMMA CancelledLike ==
    ASSUME NEW ts \in Seq(Turns), NEW i \in 1 .. Len(ts), NEW us, us = Cancelled(ts, i)
    PROVE  /\ Like(ts, us)
           /\ us[i].wants = "nothing" /\ \A j \in 1 .. Len(ts) : us[j].cut = ts[j].cut
<1>1. ts[i] \in Turns
  OBVIOUS
<1>2. PICK t : t = [ts[i] EXCEPT !.wants = "nothing", !.denied = TRUE]
  OBVIOUS
<1>3. /\ t \in Turns /\ t.cut = ts[i].cut /\ t.st = ts[i].st /\ t.for = ts[i].for /\ t.left = ts[i].left
      /\ t.denied /\ t.wants = "nothing"
  BY <1>1, <1>2 DEF Turns
<1>4. us = [ts EXCEPT ![i] = t]
  BY <1>2 DEF Cancelled
<1>5. Like(ts, us)
  BY <1>3, <1>4, OneLike
<1>6. \A j \in 1 .. Len(ts) : us[j] = IF j = i THEN t ELSE ts[j]
  BY <1>4
<1> QED
  BY <1>3, <1>5, <1>6

\* Only the turn that is named is marked, and only before it has ended.
LEMMA InterruptedLike ==
    ASSUME NEW ts \in Seq(Turns), NEW i \in 0 .. Len(ts), NEW us, us = Interrupted(ts, i)
    PROVE  /\ Like(ts, us)
           /\ \A j \in 1 .. Len(ts) : /\ us[j].wants = ts[j].wants
                                      /\ us[j].cut => ts[j].cut \/ (j = i /\ ts[j].st # "ended")
<1>1. CASE i # 0 /\ open /\ ts[i].st # "ended"
  <2>1. i \in 1 .. Len(ts) /\ ts[i] \in Turns
    BY <1>1
  <2>2. PICK t : t = [ts[i] EXCEPT !.cut = TRUE]
    OBVIOUS
  <2>3. /\ t \in Turns /\ t.st = ts[i].st /\ t.for = ts[i].for /\ t.left = ts[i].left
        /\ t.denied = ts[i].denied /\ t.wants = ts[i].wants
    BY <2>1, <2>2 DEF Turns
  <2>4. us = [ts EXCEPT ![i] = t]
    BY <1>1, <2>2 DEF Interrupted
  <2>5. Like(ts, us)
    BY <2>1, <2>3, <2>4, OneLike
  <2>6. \A j \in 1 .. Len(ts) : us[j] = IF j = i THEN t ELSE ts[j]
    BY <2>4
  <2> QED
    BY <1>1, <2>3, <2>5, <2>6
<1>2. CASE ~(i # 0 /\ open /\ ts[i].st # "ended")
  BY <1>2, SameLike DEF Interrupted
<1> QED
  BY <1>1, <1>2

\* The end of a record leaves the turns of its key that are at work or unreported.
LEMMA LeavesLike ==
    ASSUME Typing, NEW ks, NEW by, turns' = Leaves(ks, by)
    PROVE  /\ Like(turns, turns')
           /\ \A i \in Ids : /\ turns'[i].cut = turns[i].cut /\ turns'[i].wants = turns[i].wants
                             /\ turns[i].for \in ks /\ i # by /\ Unreported(i) => turns'[i].left
<1> DEFINE L(i) == [turns[i] EXCEPT !.left = @ \/ (turns[i].for \in ks /\ i # by /\ ~Reported(i))]
<1>1. Len(turns) \in Nat /\ \A i \in 1 .. Len(turns) : turns[i] \in Turns
  BY DEF Typing
<1>2. ASSUME NEW i \in 1 .. Len(turns)
      PROVE  /\ L(i) \in Turns /\ L(i).cut = turns[i].cut /\ L(i).st = turns[i].st
             /\ L(i).for = turns[i].for /\ L(i).wants = turns[i].wants
             /\ L(i).denied = turns[i].denied
             /\ turns[i].left => L(i).left
             /\ turns[i].for \in ks /\ i # by /\ ~Reported(i) => L(i).left
  BY <1>1 DEF Turns
<1>3. turns' = [i \in 1 .. Len(turns) |-> L(i)]
  BY DEF Leaves
<1> HIDE DEF L
<1>4. \A i \in Ids : Unreported(i) => ~Reported(i)
  BY DEF Unreported, Reported, Told
<1>5. /\ turns' \in Seq(Turns) /\ Len(turns') = Len(turns)
      /\ \A i \in 1 .. Len(turns) : turns'[i] = L(i)
  BY <1>1, <1>2, <1>3
<1> QED
  BY <1>2, <1>4, <1>5 DEF Like, Ids

-----------------------------------------------------------------------------
(* The steps of the bridge, one by one.                                    *)

\* Nothing is taken out of the queue.
LEMMA KeepsHandled ==
    ASSUME Typing, Like(turns, turns'), UNCHANGED <<inbox, open>>,
           \A l \in Keys : runs'[l] = runs[l] \/ Works(l) \/ Idles(l) \/ Closes(l) \/ Begins(l),
           \A i \in Ids : turns'[i].cut =>
               turns[i].cut \/ (turns[i].st # "ended" /\ (turns[i].left \/ runs'[turns[i].for].stop)),
           \A h \in held : h \in held' \/ turns'[h.turn].wants = "nothing"
    PROVE  Handled
<1>1. TurnsKept /\ News
  BY DEF Like, TurnsKept, News, Ids
<1>2. \A i, w : Said(i, w)' <=> Said(i, w)
  BY DEF Said
<1> QED
  BY <1>1, <1>2 DEF Handled

\* No record changes but that of k.
LEMMA OneHandled ==
    ASSUME Typing, Like(turns, turns'), UNCHANGED <<inbox, open>>, held' = held,
           NEW k \in Keys, NEW r, runs' = [runs EXCEPT ![k] = r],
           runs'[k] = runs[k] \/ Works(k) \/ Idles(k) \/ Closes(k),
           \A i \in Ids : turns'[i].cut =>
               turns[i].cut \/ (turns[i].st # "ended" /\ (turns[i].left \/ runs'[turns[i].for].stop))
    PROVE  Handled
<1>1. \A l \in Keys : l # k => runs'[l] = runs[l]
  BY DEF Typing
<1> QED
  BY <1>1, KeepsHandled

\* Nothing changes but the dispatches and what is written.
LEMMA QuietHandled ==
    ASSUME Typing, UNCHANGED <<runs, turns, inbox, open>>, held' = held
    PROVE  Handled
<1>1. Like(turns, turns')
  BY SameLike DEF Typing
<1> QED
  BY <1>1, KeepsHandled

\* What may be recorded of a run whose dispatch goes on.
LEMMA SameRun ==
    ASSUME Typing, NEW k \in Keys, runs'[k].st = runs[k].st, runs[k].stop => runs'[k].stop,
           runs'[k].stop = runs[k].stop \/ Active(k),
           runs[k].bound => runs'[k].bound, runs'[k].asks = runs[k].asks, runs'[k].by = runs[k].by,
           \/ runs'[k].turn = runs[k].turn
           \/ runs[k].turn = 0 /\ runs'[k].turn \in Ids /\ Owns(k, runs'[k].turn)
    PROVE  Works(k) \/ Idles(k)
  BY DEF Works, Idles, Active

\* A run begins; the one that makes room for it is remembered, and forgotten only if it says so.
LEMMA SubmitStep ==
    ASSUME Typing, Book, NEW k \in Keys, Submit(k)
    PROVE  Handled /\ Books
<1>0. /\ UNCHANGED <<disk, turns, open, inbox, held>> /\ ~Known(k) /\ start[k] = "none"
      /\ start' = [start EXCEPT ![k] = "created"] /\ ~Active(k)
      /\ \A l \in Keys : SessionOf[l] = SessionOf[k] => ~Active(l)
  BY DEF Submit, Write, native, Busy, InSession, Active, Known, Work
<1>1. \E j \in Keys :
         /\ j = k \/ ~Active(j)
         /\ runs'[k] = Queued /\ (j # k => runs'[j] = Dropped(j))
         /\ \A l \in Keys \ {j, k} : runs'[l] = runs[l]
         /\ tombs' \in Seq(Keys) /\ forgot \subseteq forgot'
         /\ \A l \in Keys \ {j} : (\E n \in 1 .. Len(tombs) : tombs[n] = l) =>
               l \in forgot' \/ \E n \in 1 .. Len(tombs') : tombs'[n] = l
         /\ j = k \/ \E n \in 1 .. Len(tombs') : tombs'[n] = j
  <2>0. tombs \in Seq(Keys) /\ Len(tombs) \in Nat
    BY DEF Book, Listing
  <2>1. CASE Adds(k)
    BY <2>0, <2>1 DEF Adds, Typing
  <2>2. ASSUME NEW j \in Keys, Oldest(j), Replaces(j, k)
        PROVE  /\ ~Active(j)
               /\ runs'[k] = Queued /\ (j # k => runs'[j] = Dropped(j))
               /\ \A l \in Keys \ {j, k} : runs'[l] = runs[l]
               /\ tombs' \in Seq(Keys) /\ forgot \subseteq forgot'
               /\ \A l \in Keys \ {j} : (\E n \in 1 .. Len(tombs) : tombs[n] = l) =>
                     l \in forgot' \/ \E n \in 1 .. Len(tombs') : tombs'[n] = l
               /\ \E n \in 1 .. Len(tombs') : tombs'[n] = j
    <3>1. /\ ~Active(j) /\ runs'[k] = Queued /\ (j # k => runs'[j] = Dropped(j))
          /\ \A l \in Keys \ {j, k} : runs'[l] = runs[l]
      BY <2>2 DEF Oldest, Replaces, Typing
    <3>2. PICK all : all = Append(tombs, j)
      OBVIOUS
    <3>3. /\ all \in Seq(Keys) /\ Len(all) = Len(tombs) + 1 /\ all[Len(tombs) + 1] = j
          /\ \A n \in 1 .. Len(tombs) : all[n] = tombs[n]
      BY <2>0, <3>2
    <3>4. CASE Len(all) > MaxTombstones
      <4>1. tombs' = Tail(all) /\ forgot' = forgot \cup {Head(all)}
        BY <2>2, <3>2, <3>4 DEF Replaces
      <4>2. Len(tombs) # 0 /\ Head(all) = all[1]
        BY <2>0, <3>3, <3>4, LimitsAssumption
      <4>3. /\ tombs' \in Seq(Keys) /\ Len(tombs') = Len(tombs)
            /\ \A n \in 1 .. Len(tombs) : tombs'[n] = all[n + 1]
        BY <2>0, <3>3, <4>1, <4>2
      <4>4. tombs'[Len(tombs)] = j /\ Len(tombs) \in 1 .. Len(tombs')
        BY <2>0, <3>3, <4>2, <4>3
      <4>5. ASSUME NEW n \in 1 .. Len(tombs)
            PROVE  tombs[n] \in forgot' \/ \E m \in 1 .. Len(tombs') : tombs'[m] = tombs[n]
        <5>1. CASE n = 1
          BY <3>3, <4>1, <4>2, <5>1
        <5>2. CASE n # 1
          <6>1. n - 1 \in 1 .. Len(tombs) /\ (n - 1) + 1 = n
            BY <2>0, <5>2
          <6> QED
            BY <3>3, <4>3, <6>1
        <5> QED
          BY <5>1, <5>2
      <4> QED
        BY <3>1, <4>1, <4>3, <4>4, <4>5
    <3>5. CASE ~(Len(all) > MaxTombstones)
      <4>1. tombs' = all /\ forgot' = forgot
        BY <2>2, <3>2, <3>5 DEF Replaces
      <4>2. \A n \in 1 .. Len(tombs) : n \in 1 .. Len(tombs')
        BY <2>0, <3>3, <4>1
      <4>3. Len(tombs) + 1 \in 1 .. Len(tombs')
        BY <2>0, <3>3, <4>1
      <4> QED
        BY <3>1, <3>3, <4>1, <4>2, <4>3
    <3> QED
      BY <3>4, <3>5
  <2> QED
    BY <2>1, <2>2 DEF Submit
<1>2. PICK j \in Keys :
         /\ j = k \/ ~Active(j)
         /\ runs'[k] = Queued /\ (j # k => runs'[j] = Dropped(j))
         /\ \A l \in Keys \ {j, k} : runs'[l] = runs[l]
         /\ tombs' \in Seq(Keys) /\ forgot \subseteq forgot'
         /\ \A l \in Keys \ {j} : (\E n \in 1 .. Len(tombs) : tombs[n] = l) =>
               l \in forgot' \/ \E n \in 1 .. Len(tombs') : tombs'[n] = l
         /\ j = k \/ \E n \in 1 .. Len(tombs') : tombs'[n] = j
  BY <1>1
<1>3. j # k => Idles(j) /\ ~Active(j)'
  <2>1. Dropped(j).st = "none" /\ Dropped(j).by \in {0, runs[j].by}
    <3>1. PICK r \in Records(Len(turns)) : r = runs[j]
      BY DEF Typing
    <3>2. /\ [r EXCEPT !.st = "none"].st = "none" /\ [r EXCEPT !.st = "none"].by = r.by
          /\ NewRun.st = "none" /\ NewRun.by = 0
      BY <3>1 DEF Records, NewRun
    <3> QED
      BY <3>1, <3>2 DEF Dropped
  <2> QED
    BY <1>2, <2>1 DEF Idles, Active, Work
<1>4. Begins(k)
  <2>1. start'[k] = "created"
    BY <1>0 DEF Book, Listing
  <2>2. \A l \in Keys \ {k} : SessionOf[k] = SessionOf[l] => ~Active(l) /\ ~Active(l)'
    BY <1>0, <1>2, <1>3 DEF Active
  <2> QED
    BY <1>0, <1>2, <2>1, <2>2 DEF Begins
<1>5. Handled
  <2>1. Like(turns, turns')
    BY <1>0, SameLike DEF Typing
  <2>2. \A l \in Keys : runs'[l] = runs[l] \/ Works(l) \/ Idles(l) \/ Closes(l) \/ Begins(l)
    BY <1>2, <1>3, <1>4
  <2> QED
    BY <1>0, <2>1, <2>2, KeepsHandled
<1>6. Books
  <2>1. start' \in [Keys -> Stages] /\ \A l \in Keys : Moves(l)
    BY <1>0, <1>2 DEF Book, Listing, Stages, Moves
  <2>2. ASSUME NEW l \in Keys, Known(l)
        PROVE  Known(l)' \/ l \in forgot'
    <3>1. l # k
      BY <1>0, <2>2
    <3>2. CASE l = j
      BY <1>2, <3>1, <3>2 DEF Known
    <3>3. CASE l # j
      BY <1>2, <2>2, <3>1, <3>3 DEF Known
    <3> QED
      BY <3>2, <3>3
  <2> QED
    BY <1>0, <1>2, <2>1, <2>2 DEF Books
<1> QED
  BY <1>5, <1>6

\* No key is forgotten.
LEMMA MovesBooks ==
    ASSUME Book, UNCHANGED <<disk, tombs, forgot>>, NEW k \in Keys, NEW s \in Stages,
           start' = [start EXCEPT ![k] = s], Moves(k),
           \A l \in Keys : runs[l].st # "none" => runs'[l].st # "none"
    PROVE  Books
<1>1. tombs \in Seq(Keys) /\ start' \in [Keys -> Stages] /\ \A l \in Keys : l # k => start'[l] = start[l]
  BY DEF Book, Listing
<1>2. \A l \in Keys : Moves(l)
  BY <1>1 DEF Moves
<1>3. \A l \in Keys : Known(l) => Known(l)'
  BY DEF Known
<1> QED
  BY <1>1, <1>2, <1>3 DEF Books

\* No dispatch goes on, and no record is dropped.
LEMMA SameBooks ==
    ASSUME Book, UNCHANGED <<disk, tombs, forgot, start>>,
           \A l \in Keys : runs[l].st # "none" => runs'[l].st # "none"
    PROVE  Books
<1>1. tombs \in Seq(Keys) /\ start \in [Keys -> Stages]
  BY DEF Book, Listing
<1>2. \A l \in Keys : Moves(l) /\ (Known(l) => Known(l)')
  BY DEF Moves, Known
<1> QED
  BY <1>1, <1>2 DEF Books

\* One record is replaced by one that is kept as well.
LEMMA OneBooks ==
    ASSUME Typing, Book, UNCHANGED <<disk, tombs, forgot, start>>, NEW k \in Keys, NEW r,
           runs' = [runs EXCEPT ![k] = r], r.st # "none"
    PROVE  Books
<1>1. \A l \in Keys : runs[l].st # "none" => runs'[l].st # "none"
  BY DEF Typing
<1> QED
  BY <1>1, SameBooks

\* A turn its run has taken is the run's own or has been left.
LEMMA TurnTyped ==
    ASSUME Typing, NEW k \in Keys
    PROVE  /\ turns \in Seq(Turns) /\ Len(turns) \in Nat /\ runs[k] \in Records(Len(turns))
           /\ runs[k].turn \in 0 .. Len(turns) /\ runs[k].asks \subseteq Ids
           /\ runs[k].st \in Statuses
<1>1. turns \in Seq(Turns) /\ Len(turns) \in Nat /\ runs[k] \in Records(Len(turns))
  BY DEF Typing
<1> QED
  BY <1>1 DEF Records, Ids

\* A stop is told to a turn of the run, or to one that was left.
LEMMA StopStep ==
    ASSUME Typing, Talk, Book, NEW k \in Keys, Stop(k)
    PROVE  Handled /\ Books
<1>1. PICK r : r = [runs[k] EXCEPT !.stop = TRUE]
  OBVIOUS
<1>2. /\ UNCHANGED <<inbox, open, disk, tombs, forgot, start>> /\ held' = held
      /\ Active(k) /\ runs' = [runs EXCEPT ![k] = r]
      /\ turns' = Interrupted(turns, runs[k].turn)
  BY <1>1 DEF Stop, Write
<1>3. /\ r.stop /\ r.st = runs[k].st /\ r.turn = runs[k].turn /\ r.asks = runs[k].asks
      /\ r.by = runs[k].by /\ r.bound = runs[k].bound /\ runs'[k] = r
  <2>1. runs[k] \in Records(Len(turns)) /\ runs'[k] = r
    BY <1>2, TurnTyped DEF Typing
  <2> QED
    BY <1>1, <2>1 DEF Records
<1>4. Works(k)
  BY <1>2, <1>3 DEF Works, Active
<1>5. /\ Like(turns, turns')
      /\ \A j \in Ids : turns'[j].cut => turns[j].cut \/ (j = runs[k].turn /\ turns[j].st # "ended")
  BY <1>2, TurnTyped, InterruptedLike DEF Ids
<1>6. \A i \in Ids : turns'[i].cut =>
         turns[i].cut \/ (turns[i].st # "ended" /\ (turns[i].left \/ runs'[turns[i].for].stop))
  BY <1>2, <1>3, <1>5, WaitingTyped DEF Talk, Taken, Owns
<1>7. Handled
  BY <1>2, <1>4, <1>5, <1>6, OneHandled
<1>8. r.st # "none"
  BY <1>2, <1>3 DEF Active, Work
<1> QED
  BY <1>2, <1>7, <1>8, OneBooks

\* An approval answers the turn that asked for it; the others still wait.
LEMMA ApproveStep ==
    ASSUME Typing, Talk, Book, NEW k \in Keys, NEW i \in runs[k].asks, Approve(k, i)
    PROVE  Handled /\ Books
<1>0. PICK s : s = IF runs[k].asks = {i} THEN "running" ELSE "waiting"
  OBVIOUS
<1>1. PICK r : r = [runs[k] EXCEPT !.asks = runs[k].asks \ {i}, !.st = s]
  OBVIOUS
<1>2. /\ UNCHANGED <<inbox, open, disk, tombs, forgot, start>> /\ held' = held
      /\ Active(k) /\ runs' = [runs EXCEPT ![k] = r]
      /\ turns' = Answered(turns, i) \/ turns' = Cancelled(turns, i)
  BY <1>0, <1>1 DEF Approve, Write
<1>3. /\ r.stop = runs[k].stop /\ r.st = s /\ r.turn = runs[k].turn /\ r.asks = runs[k].asks \ {i}
      /\ r.by = runs[k].by /\ r.bound = runs[k].bound /\ runs'[k] = r
  <2>1. runs[k] \in Records(Len(turns)) /\ runs'[k] = r
    BY <1>2, TurnTyped DEF Typing
  <2> QED
    BY <1>1, <2>1 DEF Records
<1>4. i \in 1 .. Len(turns) /\ turns \in Seq(Turns)
  BY TurnTyped DEF Ids
<1>5. /\ Like(turns, turns') /\ turns'[i].wants = "nothing"
      /\ \A j \in Ids : turns'[j].cut = turns[j].cut
  BY <1>2, <1>4, AnsweredLike, CancelledLike DEF Ids
<1>6. Works(k)
  <2>1. s \in Work /\ (s = "waiting" \/ runs[k].asks = {i})
    BY <1>0 DEF Work
  <2>2. Active(k)'
    BY <1>3, <2>1 DEF Active
  <2>3. \A j \in runs[k].asks : j = i \/ (runs'[k].st = "waiting" /\ j \in runs'[k].asks)
    BY <1>3, <2>1
  <2> QED
    BY <1>2, <1>3, <1>5, <2>2, <2>3 DEF Works
<1>7. Handled
  BY <1>2, <1>5, <1>6, OneHandled
<1>8. r.st # "none"
  BY <1>0, <1>3
<1> QED
  BY <1>2, <1>7, <1>8, OneBooks

\* A write changes no run and no turn.
LEMMA PersistedHandled ==
    ASSUME Typing, Persisted
    PROVE  Handled
<1>1. UNCHANGED <<runs, turns, inbox, open>> /\ held' = held
  BY DEF Persisted, memory, native
<1> QED
  BY <1>1, QuietHandled

\* The dispatch goes on, and asks for nothing.
LEMMA QuietStep ==
    ASSUME Typing, Book, NEW k \in Keys,
           ThreadAnswer(k) \/ GivesUp(k) \/ TurnAnswer(k) \/ (Send(k) /\ turns' = turns)
    PROVE  Handled /\ Books
<1>1. UNCHANGED <<runs, turns, inbox, open, tombs, disk, forgot>> /\ held' = held
  BY DEF ThreadAnswer, GivesUp, TurnAnswer, Send, memory, native
<1>2. Handled
  BY <1>1, QuietHandled
<1>3. start \in [Keys -> Stages]
  BY DEF Book, Listing
<1>4. CASE ThreadAnswer(k)
  <2>1. start[k] \in {"thread", "resume"} /\ start' = [start EXCEPT ![k] = "bind"]
    BY <1>4 DEF ThreadAnswer
  <2>2. Moves(k) /\ "bind" \in Stages
    BY <1>3, <2>1 DEF Moves, Stages
  <2> QED
    BY <1>1, <1>2, <2>1, <2>2, MovesBooks
<1>5. CASE GivesUp(k)
  <2>1. start[k] \in {"thread", "resume", "turn"} /\ start' = [start EXCEPT ![k] = "failing"]
    BY <1>5 DEF GivesUp
  <2>2. Moves(k) /\ "failing" \in Stages
    BY <1>3, <2>1 DEF Moves, Stages
  <2> QED
    BY <1>1, <1>2, <2>1, <2>2, MovesBooks
<1>6. CASE TurnAnswer(k)
  <2>1. start[k] = "turn" /\ start' = [start EXCEPT ![k] = "answered"]
    BY <1>6 DEF TurnAnswer
  <2>2. Moves(k) /\ "answered" \in Stages
    BY <1>3, <2>1 DEF Moves, Stages
  <2> QED
    BY <1>1, <1>2, <2>1, <2>2, MovesBooks
<1>7. CASE Send(k) /\ runs[k].stop
  <2>1. start[k] = "bound" /\ start' = [start EXCEPT ![k] = "cancelling"]
    BY <1>7 DEF Send
  <2>2. Moves(k) /\ "cancelling" \in Stages
    BY <1>1, <1>3, <1>7, <2>1 DEF Moves, Stages
  <2> QED
    BY <1>1, <1>2, <2>1, <2>2, MovesBooks
<1>8. CASE Send(k) /\ ~runs[k].stop /\ turns' = turns
  <2>1. turns' # Append(turns, [NewTurn(k) EXCEPT !.left = ~Active(k)])
    <3>1. PICK t : t = [NewTurn(k) EXCEPT !.left = ~Active(k)]
      OBVIOUS
    <3>2. turns \in Seq(Turns) /\ Len(turns) \in Nat
      BY TurnTyped
    <3>3. Len(Append(turns, t)) = Len(turns) + 1
      BY <3>2
    <3> QED
      BY <1>8, <3>1, <3>2, <3>3
  <2>2. start[k] = "bound" /\ start' = [start EXCEPT ![k] = "failing"]
    BY <1>8, <2>1 DEF Send
  <2>3. Moves(k) /\ "failing" \in Stages
    BY <1>3, <2>2 DEF Moves, Stages
  <2> QED
    BY <1>1, <1>2, <2>2, <2>3, MovesBooks
<1> QED
  BY <1>4, <1>5, <1>6, <1>7, <1>8

\* ... or it asks for its turn.
LEMMA SendAsks ==
    ASSUME Typing, Book, NEW k \in Keys, Send(k), turns' # turns
    PROVE  /\ \E t : Asks(k, t)
           /\ Active(k) => runs[k].bound
<1>1. PICK t : t = [NewTurn(k) EXCEPT !.left = ~Active(k)]
  OBVIOUS
<1>2. /\ t \in Turns /\ t.for = k /\ t.st = "asked" /\ t.wants = "nothing" /\ ~t.cut /\ t.left = ~Active(k)
  <2>1. Active(k) \in BOOLEAN
    BY DEF Active
  <2> QED
    BY <1>1, <2>1 DEF NewTurn, Turns
<1>3. Asks(k, t)
  BY <1>1, <1>2 DEF Send, Asks
<1>4. Active(k) => runs[k].bound
  BY DEF Send, Book, Prepared
<1> QED
  BY <1>3, <1>4

\* A run is bound.
LEMMA BindStep ==
    ASSUME Typing, Book, NEW k \in Keys, Bind(k)
    PROVE  Handled /\ Books
<1>1. PICK r : r = [runs[k] EXCEPT !.bound = TRUE]
  OBVIOUS
<1>2. /\ UNCHANGED <<turns, inbox, open, disk, tombs, forgot>> /\ held' = held
      /\ runs' = [runs EXCEPT ![k] = r]
      /\ start[k] = "bind" /\ start' = [start EXCEPT ![k] = "binding"]
  BY <1>1 DEF Bind, Write, native
<1>3. /\ r.stop = runs[k].stop /\ r.st = runs[k].st /\ r.turn = runs[k].turn /\ r.asks = runs[k].asks
      /\ r.by = runs[k].by /\ r.bound /\ runs'[k] = r
  <2>1. runs[k] \in Records(Len(turns)) /\ runs'[k] = r
    BY <1>2, TurnTyped DEF Typing
  <2> QED
    BY <1>1, <2>1 DEF Records
<1>4. Works(k) \/ Idles(k)
  BY <1>3, SameRun
<1>5. Like(turns, turns') /\ \A i \in Ids : turns'[i].cut = turns[i].cut
  BY <1>2, SameLike DEF Typing
<1>6. Handled
  BY <1>2, <1>4, <1>5, OneHandled
<1>7. Moves(k) /\ "binding" \in Stages
  BY <1>2, <1>3 DEF Moves, Stages, Book, Listing
<1>8. \A l \in Keys : runs[l].st # "none" => runs'[l].st # "none"
  BY <1>2, <1>3 DEF Typing
<1> QED
  BY <1>2, <1>6, <1>7, <1>8, MovesBooks

\* A run takes the turn it asked for, which is its own.
LEMMA RecordStep ==
    ASSUME Typing, Book, NEW k \in Keys, Record(k)
    PROVE  Handled /\ Books
<1>0. PICK i \in TurnsOf(k) : Takes(k, i)
  BY DEF Record
<1>1. /\ UNCHANGED <<inbox, open, disk, tombs, forgot>> /\ held' = held /\ start[k] = "answered"
  BY <1>0 DEF Record, Takes, Write, NoWrite
<1>2. i \in Ids /\ i # 0 /\ turns[i].for = k /\ start \in [Keys -> Stages] /\ i \in 0 .. Len(turns)
  BY TurnTyped DEF TurnsOf, Ids, Book, Listing
<1>3. CASE runs[k].turn \notin {0, i}
  <2>1. start' = [start EXCEPT ![k] = "failing"] /\ UNCHANGED <<runs, turns>>
    BY <1>0, <1>3 DEF Takes
  <2>2. Moves(k) /\ "failing" \in Stages
    BY <1>1, <1>2, <2>1 DEF Moves, Stages
  <2>3. Handled
    BY <1>1, <2>1, QuietHandled
  <2> QED
    BY <1>1, <2>1, <2>2, <2>3, MovesBooks
<1>4. CASE runs[k].turn \in {0, i}
  <2>1. PICK r : r = [runs[k] EXCEPT !.turn = i]
    OBVIOUS
  <2>2. /\ start' = [start EXCEPT ![k] = "none"] /\ runs' = [runs EXCEPT ![k] = r]
        /\ turns' = Overtaken(k, i)
    BY <1>0, <1>4, <2>1 DEF Takes
  <2>3. /\ r.stop = runs[k].stop /\ r.st = runs[k].st /\ r.turn = i /\ r.asks = runs[k].asks
        /\ r.by = runs[k].by /\ r.bound = runs[k].bound /\ runs'[k] = r
    <3>1. runs[k] \in Records(Len(turns)) /\ runs'[k] = r
      BY <2>2, TurnTyped DEF Typing
    <3> QED
      BY <2>1, <3>1 DEF Records
  <2>4. Works(k) \/ Idles(k)
    BY <1>2, <1>4, <2>3, SameRun DEF Owns
  <2>5. /\ Like(turns, turns')
        /\ \A j \in Ids : turns'[j].cut => turns[j].cut \/ (j = i /\ turns[j].st # "ended" /\ runs[k].stop)
    <3>1. CASE runs[k].stop /\ Active(k)
      BY <1>2, <2>2, <3>1, TurnTyped, InterruptedLike DEF Overtaken, Ids
    <3>2. CASE ~(runs[k].stop /\ Active(k))
      BY <2>2, <3>2, TurnTyped, SameLike DEF Overtaken
    <3> QED
      BY <3>1, <3>2
  <2>9. \A j \in Ids : turns'[j].cut =>
           turns[j].cut \/ (turns[j].st # "ended" /\ (turns[j].left \/ runs'[turns[j].for].stop))
    BY <1>2, <2>3, <2>5
  <2>6. Handled
    BY <1>1, <2>2, <2>4, <2>5, <2>9, OneHandled
  <2>7. Moves(k) /\ "none" \in Stages
    BY <1>1, <1>2, <2>2 DEF Moves, Stages
  <2>8. \A l \in Keys : runs[l].st # "none" => runs'[l].st # "none"
    BY <2>2, <2>3 DEF Typing
  <2> QED
    BY <1>1, <2>2, <2>6, <2>7, <2>8, MovesBooks
<1> QED
  BY <1>3, <1>4

\* What a notification gives the run that takes it.
LEMMA HitOwned ==
    ASSUME Typing, Talk, NEW i \in Ids, Told(i), NEW k \in HitBy(i)
    PROVE  k \in Keys /\ Active(k) /\ runs[k].turn \in {0, i} /\ Owns(k, i)
<1>1. k \in Keys /\ Active(k) /\ runs[k].turn \in {0, i} /\ SessionOf[k] = SessionOf[turns[i].for]
  BY DEF HitBy, InSession
<1>2. turns[i].for \in Keys
  <2>1. turns[i] \in Turns
    BY DEF Typing, Ids
  <2> QED
    BY <2>1 DEF Turns
<1>3. ~turns[i].left => Active(turns[i].for)
  BY DEF Talk, Attended, Unreported
<1> QED
  BY <1>1, <1>2, <1>3 DEF Talk, OneAtWork, Owns

\* The end of a run, by its turn (i # 0) or without one.
LEMMA FinishCloses ==
    ASSUME Typing, TurnsKept, News, NEW k \in Keys, NEW st \in Ended, NEW i \in 0 .. Len(turns), Active(k),
           runs'[k] = EndedAs(k, st, i),
           \A j \in Ids : turns[j].for = k /\ j # i /\ Unreported(j) => turns'[j].left,
           i # 0 => Owns(k, i) /\ turns[i].st = "ended" /\ ~Told(i)',
           st = "cancelled" /\ ~runs[k].stop =>
               i # 0 /\ (turns[i].left \/ turns[i].denied),
           i = 0 /\ st \in {"completed", "cancelled"} => start[k] = "cancelling" /\ start'[k] = "none"
    PROVE  Closes(k)
<1>1. Len(turns) \in Nat /\ (i # 0 => i \in Ids)
  BY DEF Typing, Ids
<1>2. PICK r : r = runs'[k]
  OBVIOUS
<1>3. r.st = st /\ r.by = i /\ r.stop = runs[k].stop
  <2>1. PICK q \in Records(Len(turns)) : q = runs[k]
    BY DEF Typing
  <2> QED
    BY <1>2, <2>1 DEF EndedAs, Records
<1>4. ASSUME NEW j \in TurnsOf(k), Unreported(j)'
      PROVE  turns'[j].left
  <2>1. j \in Ids /\ turns[j].for = k
    BY DEF TurnsOf, Ids
  <2>2. j # i
    <3>1. CASE j = i
      <4>1. turns[i].st = "ended" /\ ~Told(i)' /\ turns'[i].st = turns[i].st
        BY <1>1, <2>1, <3>1 DEF TurnsKept, Ids
      <4>2. ~Unreported(i)'
        BY <4>1 DEF Unreported, Live
      <4> QED
        BY <1>4, <3>1, <4>2
    <3> QED
      BY <3>1
  <2> QED
    BY <1>4, <2>1, <2>2, UnreportedNews
<1>5. i # 0 /\ turns[i].for # k => turns[i].left
  BY DEF Owns
<1> QED
  BY <1>1, <1>2, <1>3, <1>4, <1>5 DEF Closes

\* A dispatch that ends its run at work has failed, or has nothing to leave.
LEMMA ConcludeStep ==
    ASSUME Typing, Book, NEW k \in Keys, Conclude(k)
    PROVE  Handled /\ Books
<1>1. PICK st : st = IF start[k] = "failing" THEN "failed" ELSE "cancelled"
  OBVIOUS
<1>2. /\ UNCHANGED <<inbox, open, disk, tombs, forgot>> /\ held' = held
      /\ start[k] \in {"failing", "cancelling"} /\ start' = [start EXCEPT ![k] = "none"]
      /\ Finish(k, st, 0)
  BY <1>1 DEF Conclude, Finish, Write, NoWrite
<1>3. /\ start \in [Keys -> Stages] /\ st \in Ended /\ st # "completed" /\ start'[k] = "none"
      /\ st = "cancelled" => start[k] = "cancelling"
  BY <1>1, <1>2 DEF Book, Listing, Ended
<1>4. Moves(k) /\ "none" \in Stages
  BY <1>2, <1>3 DEF Moves, Stages
<1>5. CASE ~Active(k) /\ UNCHANGED <<runs, turns>>
  <2>1. Handled
    BY <1>2, <1>5, QuietHandled
  <2> QED
    BY <1>2, <1>4, <1>5, <2>1, MovesBooks
<1>6. CASE Active(k) /\ runs' = [runs EXCEPT ![k] = EndedAs(k, st, 0)] /\ turns' = Leaves({k}, 0)
  <2>1. /\ Like(turns, turns')
        /\ \A i \in Ids : /\ turns'[i].cut = turns[i].cut
                          /\ turns[i].for = k /\ i # 0 /\ Unreported(i) => turns'[i].left
    BY <1>6, LeavesLike
  <2>2. TurnsKept /\ News
    BY <1>2, <2>1 DEF Like, TurnsKept, News, Ids
  <2>3. runs'[k] = EndedAs(k, st, 0)
    BY <1>6 DEF Typing
  <2>4. st = "cancelled" => runs[k].stop
    BY <1>3, <1>6 DEF Book, Cancelling
  <2>5. st \in {"completed", "cancelled"} => start[k] = "cancelling" /\ start'[k] = "none"
    BY <1>3
  <2>7. Closes(k)
    <3>1. 0 \in 0 .. Len(turns)
      BY DEF Typing
    <3>2. \A j \in Ids : turns[j].for = k /\ j # 0 /\ Unreported(j) => turns'[j].left
      BY <2>1
    <3> QED
      BY <1>3, <1>6, <2>2, <2>3, <2>4, <2>5, <3>1, <3>2, FinishCloses
  <2>8. Handled
    BY <1>2, <1>6, <2>1, <2>7, OneHandled
  <2>9. \A l \in Keys : runs[l].st # "none" => runs'[l].st # "none"
    <3>1. runs'[k].st \in Ended
      BY <2>7 DEF Closes
    <3> QED
      BY <1>6, <3>1 DEF Typing, Ended
  <2> QED
    BY <1>2, <1>4, <2>8, <2>9, MovesBooks
<1> QED
  BY <1>2, <1>5, <1>6 DEF Finish

\* What a turn asked for beside the queue is answered or refused.
LEMMA ReplyStepHandled ==
    ASSUME Typing, Talk, Book, NEW h \in held, ToolReply(h) \/ QuestionReply(h) \/ QuestionFails(h)
    PROVE  Handled /\ Books
<1>0. /\ h.turn \in 1 .. Len(turns) /\ h.run \in Keys /\ turns \in Seq(Turns)
      /\ UNCHANGED <<inbox, open, disk, tombs, forgot, start>> /\ held' = held \ {h}
  <2>1. h.turn \in 1 .. Len(turns) /\ h.run \in Keys /\ turns \in Seq(Turns)
    BY DEF Typing, Jobs
  <2> QED
    BY <2>1 DEF ToolReply, QuestionReply, QuestionFails, Write, NoWrite, memory
<1>1. PICK us : us = Answered(turns, h.turn)
  OBVIOUS
<1>2. /\ Like(turns, us) /\ us[h.turn].wants = "nothing"
      /\ \A j \in Ids : us[j].cut = turns[j].cut
  BY <1>0, <1>1, AnsweredLike DEF Ids
<1>3. CASE UNCHANGED runs /\ turns' = us
  <2>1. \A g \in held : g \in held' \/ turns'[g.turn].wants = "nothing"
    BY <1>0, <1>2, <1>3
  <2>2. Handled
    BY <1>0, <1>2, <1>3, <2>1, KeepsHandled
  <2> QED
    BY <1>0, <1>3, <2>2, SameBooks
<1>4. CASE QuestionFails(h) /\ Active(h.run)
  <2>0. PICK k \in Keys : k = h.run
    BY <1>0
  <2>1. PICK r : r = [runs[k] EXCEPT !.stop = TRUE]
    OBVIOUS
  <2>2. /\ Active(k) /\ runs' = [runs EXCEPT ![k] = r]
        /\ turns' = Interrupted(us, runs[k].turn)
    BY <1>1, <1>4, <2>0, <2>1 DEF QuestionFails
  <2>3. /\ r.stop /\ r.st = runs[k].st /\ r.turn = runs[k].turn /\ r.asks = runs[k].asks
        /\ r.by = runs[k].by /\ r.bound = runs[k].bound /\ runs'[k] = r
    <3>1. runs[k] \in Records(Len(turns)) /\ runs'[k] = r
      BY <2>2, TurnTyped DEF Typing
    <3> QED
      BY <2>1, <3>1 DEF Records
  <2>4. Works(k)
    BY <2>2, <2>3 DEF Works, Active
  <2>5. us \in Seq(Turns) /\ Len(us) = Len(turns) /\ runs[k].turn \in 0 .. Len(us)
    BY <1>2, TurnTyped DEF Like
  <2>6. /\ Like(us, turns')
        /\ \A j \in Ids : /\ turns'[j].wants = us[j].wants
                          /\ turns'[j].cut => us[j].cut \/ (j = runs[k].turn /\ us[j].st # "ended")
    BY <2>2, <2>5, InterruptedLike DEF Ids
  <2>7. /\ Like(turns, turns') /\ turns'[h.turn].wants = "nothing"
        /\ \A j \in Ids : turns'[j].cut => turns[j].cut \/ (j = runs[k].turn /\ turns[j].st # "ended")
    <3>1. Like(turns, turns')
      BY <1>2, <2>6, LikeLike
    <3> QED
      BY <1>0, <1>2, <2>6, <3>1 DEF Ids, Like
  <2>8. \A i \in Ids : turns'[i].cut =>
           turns[i].cut \/ (turns[i].st # "ended" /\ (turns[i].left \/ runs'[turns[i].for].stop))
    BY <2>2, <2>3, <2>7, WaitingTyped DEF Talk, Taken, Owns
  <2>9. \A l \in Keys : runs'[l] = runs[l] \/ Works(l)
    BY <2>2, <2>4 DEF Typing
  <2>10. \A g \in held : g \in held' \/ turns'[g.turn].wants = "nothing"
    BY <1>0, <2>7
  <2>11. Handled
    BY <1>0, <2>7, <2>8, <2>9, <2>10, KeepsHandled
  <2>12. r.st # "none"
    BY <2>2, <2>3 DEF Active, Work
  <2> QED
    BY <1>0, <2>2, <2>11, <2>12, OneBooks
<1> QED
  BY <1>1, <1>3, <1>4 DEF ToolReply, QuestionReply, QuestionFails, memory

-----------------------------------------------------------------------------
(* The notifications, one by one.                                          *)

\* The first notification is taken out of the queue.
Taking(m) == inbox # <<>> /\ m = Head(inbox) /\ inbox' = Tail(inbox) /\ open' = open

\* What is known of the first notification.
LEMMA FirstNotice ==
    ASSUME Typing, Talk, NEW m, Taking(m)
    PROVE  /\ News /\ Len(inbox) \in Nat /\ 1 \in 1 .. Len(inbox) /\ inbox[1] = m
           /\ m.turn \in 0 .. Len(turns) /\ m.kind \in Kinds
           /\ m.kind = "closed" <=> m.turn = 0
           /\ m.kind # "closed" =>
                 /\ m.turn \in Ids /\ Told(m.turn) /\ Said(m.turn, m.kind) /\ turns[m.turn].st # "asked"
           /\ m.kind \in Terminal => turns[m.turn].st = "ended" /\ ~Told(m.turn)'
           /\ m.kind # "started" => ~Said(m.turn, "started")
<1>1. /\ inbox \in Seq(Notices(Len(turns))) /\ Len(inbox) \in Nat /\ Len(inbox) # 0
      /\ Len(turns) \in Nat
  BY DEF Typing, Queue, Taking
<1>2. News /\ 1 \in 1 .. Len(inbox) /\ inbox[1] = m
  BY <1>1 DEF News, Taking
<1>3. m \in Notices(Len(turns))
  BY <1>1, <1>2
<1>4. m.turn \in 0 .. Len(turns) /\ m.kind \in Kinds
  BY <1>3 DEF Notices
<1>5. m.kind = "closed" <=> m.turn = 0
  BY <1>2 DEF Talk, Ordered
<1>6. m.kind # "closed" =>
         m.turn \in Ids /\ Told(m.turn) /\ Said(m.turn, m.kind) /\ turns[m.turn].st # "asked"
  BY <1>1, <1>2, <1>4, <1>5 DEF Talk, Ordered, Told, Said, Ids
<1>7. m.kind \in Terminal => turns[m.turn].st = "ended" /\ ~Told(m.turn)'
  <2>1. ASSUME m.kind \in Terminal, NEW n \in 1 .. Len(inbox')
        PROVE  inbox'[n].turn # m.turn
    <3>1. n + 1 \in 1 .. Len(inbox) /\ n + 1 > 1 /\ inbox'[n] = inbox[n + 1]
      BY <1>1 DEF Taking
    <3> QED
      BY <1>2, <2>1, <3>1 DEF Talk, Ordered
  <2> QED
    BY <1>2, <2>1 DEF Talk, Ordered, Told
<1>8. m.kind # "started" => ~Said(m.turn, "started")
  <2>1. ASSUME m.kind # "started", NEW n \in 1 .. Len(inbox), inbox[n].kind = "started"
        PROVE  inbox[n].turn # m.turn
    <3>1. n > 1
      BY <1>1, <1>2, <2>1
    <3> QED
      BY <1>2, <2>1, <3>1 DEF Talk, Ordered
  <2> QED
    BY <2>1 DEF Said
<1> QED
  BY <1>1, <1>2, <1>4, <1>5, <1>6, <1>7, <1>8

\* Taking a notification loses nothing but that one.
LEMMA TakingHandled ==
    ASSUME Typing, Talk, NEW m, Taking(m), Like(turns, turns'), held \subseteq held',
           \A l \in Keys : runs'[l] = runs[l] \/ Works(l) \/ Idles(l) \/ Closes(l) \/ Begins(l),
           \A i \in Ids : turns'[i].cut =>
               turns[i].cut \/ (turns[i].st # "ended" /\ (turns[i].left \/ runs'[turns[i].for].stop)),
           m.kind = "started" => turns[m.turn].left \/ runs'[turns[m.turn].for].turn # 0,
           m.kind \in Requests /\ turns'[m.turn].wants = m.kind => Pends(m.turn)'
    PROVE  Handled
<1>1. TurnsKept /\ News
  BY FirstNotice DEF Like, TurnsKept, Ids
<1>2. ASSUME NEW i, NEW w, Said(i, w), ~Said(i, w)'
      PROVE  m.turn = i /\ m.kind = w
  BY <1>1, <1>2, NewsTold DEF Taking
<1>3. \A i \in Ids : Said(i, "started") /\ ~Said(i, "started")' => turns[i].left \/ runs'[turns[i].for].turn # 0
  BY <1>2
<1>4. \A i \in Ids : \A w \in Requests : turns'[i].wants = w /\ Said(i, w) /\ ~Said(i, w)' => Pends(i)'
  BY <1>2
<1> QED
  BY <1>1, <1>3, <1>4 DEF Handled, Taking

\* Nothing that changes a record or a turn.
LEMMA TakingSame ==
    ASSUME Typing, UNCHANGED <<runs, turns>>
    PROVE  /\ Like(turns, turns')
           /\ \A l \in Keys : runs'[l] = runs[l]
           /\ \A i \in Ids : turns'[i].cut => turns[i].cut
  BY SameLike DEF Typing

\* No notification of a run's progress is a request.
LEMMA NoRequests == \A w \in Requests : w \notin {"started", "closed"} \cup Terminal
  BY RequestsAssumption DEF Terminal

\* The end of the app-server ends every run at work, and leaves their turns.
LEMMA ClosedHandled ==
    ASSUME Typing, Talk, NEW m, Taking(m), Closed(m)
    PROVE  /\ Handled
           /\ \A l \in Keys : runs[l].st # "none" => runs'[l].st # "none"
<1>1. /\ m.kind = "closed" /\ held' = held /\ News
      /\ \A k \in Keys : runs'[k] = IF Active(k) THEN EndedAs(k, "failed", 0) ELSE runs[k]
      /\ turns' = Leaves(Lost, 0)
  BY FirstNotice DEF Closed, Lost
<1>2. /\ Like(turns, turns')
      /\ \A i \in Ids : /\ turns'[i].cut = turns[i].cut
                        /\ turns[i].for \in Lost /\ i # 0 /\ Unreported(i) => turns'[i].left
  BY <1>1, LeavesLike
<1>3. TurnsKept
  BY <1>2 DEF Like, TurnsKept, Ids
<1>4. ASSUME NEW k \in Keys, Active(k)
      PROVE  Closes(k)
  <2>1. 0 \in 0 .. Len(turns) /\ "failed" \in Ended
    BY DEF Typing, Ended
  <2>2. runs'[k] = EndedAs(k, "failed", 0)
    BY <1>1, <1>4
  <2>3. \A j \in Ids : turns[j].for = k /\ j # 0 /\ Unreported(j) => turns'[j].left
    BY <1>2, <1>4 DEF Lost
  <2> QED
    BY <1>1, <1>3, <1>4, <2>1, <2>2, <2>3, FinishCloses
<1>5. \A k \in Keys : runs'[k] = runs[k] \/ Closes(k)
  BY <1>1, <1>4
<1>6. m.kind \notin Requests /\ m.kind # "started"
  BY <1>1, NoRequests
<1>7. Handled
  BY <1>1, <1>2, <1>5, <1>6, TakingHandled
<1>8. \A k \in Keys : runs[k].st # "none" => runs'[k].st # "none"
  BY <1>5 DEF Closes, Ended
<1> QED
  BY <1>7, <1>8

\* What is nobody's is refused; its turn was left, or its run knows the turn.
LEMMA UnmatchedHandled ==
    ASSUME Typing, Talk, NEW m, Taking(m), m.kind # "closed", Unmatched(m)
    PROVE  Handled /\ runs' = runs
<1>1. /\ m.turn \in Ids /\ Told(m.turn) /\ runs' = runs /\ held' = held
      /\ HitBy(m.turn) = {} /\ turns' = Answered(turns, m.turn) /\ turns \in Seq(Turns)
  BY FirstNotice DEF Unmatched, Typing
<1>2. /\ Like(turns, turns') /\ turns'[m.turn].wants = "nothing"
      /\ \A j \in Ids : turns'[j].cut = turns[j].cut
  BY <1>1, AnsweredLike DEF Ids
<1>3. turns[m.turn].left \/ runs[turns[m.turn].for].turn # 0
  <2>0. PICK k : k = turns[m.turn].for
    OBVIOUS
  <2>1. k \in Keys
    <3>1. turns[m.turn] \in Turns
      BY <1>1 DEF Ids
    <3> QED
      BY <2>0, <3>1 DEF Turns
  <2>2. ~turns[m.turn].left => Active(k) /\ runs[k].bound
    BY <1>1, <2>0 DEF Talk, Attended, Unreported
  <2>3. Active(k) /\ runs[k].bound => runs[k].turn # 0
    BY <1>1, <2>0, <2>1 DEF HitBy, InSession
  <2> QED
    BY <2>0, <2>2, <2>3
<1>4. "nothing" \notin Requests
  BY RequestsAssumption
<1>5. \A l \in Keys : runs'[l] = runs[l]
  BY <1>1
<1>6. m.kind = "started" => turns[m.turn].left \/ runs'[turns[m.turn].for].turn # 0
  BY <1>1, <1>3
<1>7. Handled
  BY <1>1, <1>2, <1>4, <1>5, <1>6, TakingHandled
<1> QED
  BY <1>1, <1>7

\* The start of a turn is told to its run, or is one that was left; nobody waits in a run that starts.
LEMMA StartedHandled ==
    ASSUME Typing, Talk, NEW m, Taking(m), m.kind # "closed", NEW k \in HitBy(m.turn), Started(m, k)
    PROVE  /\ Handled
           /\ \A l \in Keys : runs[l].st # "none" => runs'[l].st # "none"
<1>1. PICK r : r = [runs[k] EXCEPT !.turn = m.turn, !.st = "running"]
  OBVIOUS
<1>2. /\ k \in Keys /\ Active(k) /\ runs[k].turn \in {0, m.turn} /\ Owns(k, m.turn)
      /\ m.turn \in Ids /\ m.kind = "started" /\ Said(m.turn, "started") /\ held' = held /\ m.turn # 0
      /\ runs' = [runs EXCEPT ![k] = r] /\ turns' = Overtaken(k, m.turn)
  <2>1. m.turn \in Ids /\ Told(m.turn) /\ m.kind = "started" /\ Said(m.turn, m.kind) /\ m.turn # 0
    BY FirstNotice DEF Started
  <2>2. k \in Keys /\ Active(k) /\ runs[k].turn \in {0, m.turn} /\ Owns(k, m.turn)
    BY <2>1, HitOwned
  <2> QED
    BY <1>1, <2>1, <2>2 DEF Started
<1>3. /\ r.stop = runs[k].stop /\ r.st = "running" /\ r.turn = m.turn /\ r.asks = runs[k].asks
      /\ r.by = runs[k].by /\ r.bound = runs[k].bound /\ runs'[k] = r
  <2>1. runs[k] \in Records(Len(turns)) /\ runs'[k] = r
    BY <1>2, TurnTyped DEF Typing
  <2> QED
    BY <1>1, <2>1 DEF Records
<1>4. \A i \in runs[k].asks : turns[i].left
  <2>1. ASSUME NEW i \in runs[k].asks, ~turns[i].left
        PROVE  FALSE
    <3>1. Heard(i) /\ runs[k].turn = i /\ i \in Ids
      BY <1>2, <2>1, TurnTyped DEF Talk, Taken
    <3>2. i # m.turn
      BY <1>2, <3>1 DEF Heard
    <3> QED
      BY <1>2, <3>1, <3>2, WaitingTyped
  <2> QED
    BY <2>1
<1>5. Works(k)
  <2>1. Active(k)'
    BY <1>3 DEF Active, Work
  <2> QED
    BY <1>2, <1>3, <1>4, <2>1 DEF Works
<1>6. /\ Like(turns, turns')
      /\ \A j \in Ids : turns'[j].cut => turns[j].cut \/ (j = m.turn /\ turns[j].st # "ended" /\ runs[k].stop)
  <2>0. m.turn \in 0 .. Len(turns) /\ turns \in Seq(Turns)
    BY FirstNotice DEF Typing
  <2>1. CASE runs[k].stop /\ Active(k)
    BY <1>2, <2>0, <2>1, InterruptedLike DEF Overtaken, Ids
  <2>2. CASE ~(runs[k].stop /\ Active(k))
    BY <1>2, <2>0, <2>2, SameLike DEF Overtaken
  <2> QED
    BY <2>1, <2>2
<1>7. \A j \in Ids : turns'[j].cut =>
         turns[j].cut \/ (turns[j].st # "ended" /\ (turns[j].left \/ runs'[turns[j].for].stop))
  BY <1>2, <1>3, <1>6 DEF Owns
<1>8. turns[m.turn].left \/ runs'[turns[m.turn].for].turn # 0
  BY <1>2, <1>3 DEF Owns
<1>9. \A l \in Keys : runs'[l] = runs[l] \/ Works(l)
  BY <1>2, <1>5 DEF Typing
<1>10. m.kind \notin Requests
  BY <1>2, NoRequests
<1>11. Handled
  BY <1>2, <1>6, <1>7, <1>8, <1>9, <1>10, TakingHandled
<1>12. \A l \in Keys : runs[l].st # "none" => runs'[l].st # "none"
  BY <1>9, <1>3, <1>2 DEF Typing
<1> QED
  BY <1>11, <1>12


\* The end of a turn ends its run, or is the end of a turn that was left.
LEMMA CompletedHandled ==
    ASSUME Typing, Talk, NEW m, Taking(m), m.kind # "closed", NEW k \in HitBy(m.turn), Completed(m, k)
    PROVE  /\ Handled
           /\ \A l \in Keys : runs[l].st # "none" => runs'[l].st # "none"
<1>1. PICK st : st = EndOf(m.kind)
  OBVIOUS
<1>2. /\ k \in Keys /\ Active(k) /\ Owns(k, m.turn) /\ held' = held /\ News
      /\ m.turn \in Ids /\ m.kind \in Terminal /\ Said(m.turn, m.kind) /\ m.turn # 0
      /\ turns[m.turn].st = "ended" /\ ~Told(m.turn)'
      /\ Finish(k, st, m.turn)
  <2>1. m.kind \in Terminal /\ held' = held /\ Finish(k, st, m.turn)
    BY <1>1 DEF Completed, Terminal
  <2>2. /\ m.turn \in Ids /\ Told(m.turn) /\ Said(m.turn, m.kind) /\ m.turn # 0
        /\ turns[m.turn].st = "ended" /\ ~Told(m.turn)' /\ News
    BY <2>1, FirstNotice
  <2>3. k \in Keys /\ Active(k) /\ Owns(k, m.turn)
    BY <2>2, HitOwned
  <2> QED
    BY <2>1, <2>2, <2>3
<1>3. st \in Ended /\ (st = "cancelled" => m.kind = "interrupted")
  BY <1>1, <1>2 DEF EndOf, Ended, Terminal
<1>4. runs' = [runs EXCEPT ![k] = EndedAs(k, st, m.turn)] /\ turns' = Leaves({k}, m.turn)
  BY <1>2 DEF Finish
<1>5. /\ Like(turns, turns')
      /\ \A i \in Ids : /\ turns'[i].cut = turns[i].cut
                        /\ turns[i].for = k /\ i # m.turn /\ Unreported(i) => turns'[i].left
  BY <1>4, LeavesLike
<1>6. Closes(k)
  <2>1. m.turn \in 0 .. Len(turns) /\ TurnsKept
    BY <1>5, FirstNotice DEF Like, TurnsKept, Ids
  <2>2. runs'[k] = EndedAs(k, st, m.turn)
    BY <1>2, <1>4 DEF Typing
  <2>3. st = "cancelled" /\ ~runs[k].stop => turns[m.turn].left \/ turns[m.turn].denied
    BY <1>2, <1>3 DEF Talk, CutForStop, Owns
  <2>4. \A j \in Ids : turns[j].for = k /\ j # m.turn /\ Unreported(j) => turns'[j].left
    BY <1>5
  <2> QED
    BY <1>2, <1>3, <2>1, <2>2, <2>3, <2>4, FinishCloses
<1>7. \A l \in Keys : runs'[l] = runs[l] \/ Closes(l)
  BY <1>4, <1>6 DEF Typing
<1>8. m.kind \notin Requests /\ m.kind # "started"
  BY <1>2, NoRequests DEF Terminal
<1>9. Handled
  BY <1>2, <1>5, <1>7, <1>8, TakingHandled
<1>10. \A l \in Keys : runs[l].st # "none" => runs'[l].st # "none"
  BY <1>7 DEF Closes, Ended
<1> QED
  BY <1>9, <1>10

\* A run shows the user what its turn asks.
LEMMA ApprovalHandled ==
    ASSUME Typing, Talk, NEW m, Taking(m), m.kind # "closed", NEW k \in HitBy(m.turn), AsksApproval(m, k)
    PROVE  /\ Handled
           /\ \A l \in Keys : runs[l].st # "none" => runs'[l].st # "none"
<1>1. PICK r : r = [runs[k] EXCEPT !.asks = runs[k].asks \cup {m.turn}, !.st = "waiting"]
  OBVIOUS
<1>2. /\ k \in Keys /\ Active(k) /\ runs[k].turn \in {0, m.turn} /\ Owns(k, m.turn)
      /\ m.turn \in Ids /\ Told(m.turn) /\ Heard(m.turn) /\ m.kind = "approval" /\ m.kind # "started"
      /\ held' = held /\ runs' = [runs EXCEPT ![k] = r] /\ turns' = turns
  <2>1. m.kind = "approval" /\ held' = held /\ runs' = [runs EXCEPT ![k] = r] /\ turns' = turns
    BY <1>1 DEF AsksApproval
  <2>2. m.turn \in Ids /\ Told(m.turn) /\ turns[m.turn].st # "asked" /\ ~Said(m.turn, "started")
    BY <2>1, FirstNotice
  <2>3. k \in Keys /\ Active(k) /\ runs[k].turn \in {0, m.turn} /\ Owns(k, m.turn)
    BY <2>2, HitOwned
  <2> QED
    BY <2>1, <2>2, <2>3 DEF Heard
<1>3. /\ r.stop = runs[k].stop /\ r.st = "waiting" /\ r.turn = runs[k].turn
      /\ r.asks = runs[k].asks \cup {m.turn}
      /\ r.by = runs[k].by /\ r.bound = runs[k].bound /\ runs'[k] = r
  <2>1. runs[k] \in Records(Len(turns)) /\ runs'[k] = r
    BY <1>2, TurnTyped DEF Typing
  <2> QED
    BY <1>1, <2>1 DEF Records
<1>4. ~turns[m.turn].left => runs[k].turn = m.turn
  BY <1>2 DEF Talk, Introduced, Unreported, Owns
<1>5. Active(k)' /\ runs'[k].st = "waiting" /\ m.turn \in runs'[k].asks
  BY <1>3 DEF Active, Work
<1>6. Works(k)
  BY <1>2, <1>3, <1>4, <1>5 DEF Works
<1>7. Pends(m.turn)'
  <2>1. PICK i : i = m.turn
    OBVIOUS
  <2>2. Pends(i)'
    BY <1>2, <1>5, <2>1 DEF Pends
  <2> QED
    BY <2>1, <2>2
<1>8. \A l \in Keys : runs'[l] = runs[l] \/ Works(l)
  BY <1>2, <1>6 DEF Typing
<1>9. Like(turns, turns') /\ \A i \in Ids : turns'[i].cut => turns[i].cut
  BY <1>2, SameLike DEF Typing
<1>10. Handled
  BY <1>2, <1>7, <1>8, <1>9, TakingHandled
<1>11. \A l \in Keys : runs[l].st # "none" => runs'[l].st # "none"
  BY <1>2, <1>3 DEF Typing
<1> QED
  BY <1>10, <1>11

\* A question or the call of another agent goes on beside the queue.
LEMMA BesideHandled ==
    ASSUME Typing, Talk, NEW m, Taking(m), m.kind # "closed", NEW k \in HitBy(m.turn),
           AsksTool(m, k) \/ AsksQuestion(m, k)
    PROVE  Handled /\ runs' = runs
<1>1. /\ UNCHANGED <<runs, turns>> /\ m.kind # "started" /\ held \subseteq held'
      /\ \E h \in held' : h.turn = m.turn
  <2>1. ASSUME NEW w, AsksTool(m, k) \/ AsksQuestion(m, k),
               held' = held \cup {[turn |-> m.turn, run |-> k, what |-> w]}
        PROVE  held \subseteq held' /\ \E h \in held' : h.turn = m.turn
    <3>1. PICK h : h = [turn |-> m.turn, run |-> k, what |-> w]
      OBVIOUS
    <3> QED
      BY <2>1, <3>1
  <2>2. UNCHANGED <<runs, turns>> /\ m.kind # "started"
    BY DEF AsksTool, AsksQuestion
  <2>3. \E w : held' = held \cup {[turn |-> m.turn, run |-> k, what |-> w]}
    BY DEF AsksTool, AsksQuestion
  <2> QED
    BY <2>1, <2>2, <2>3
<1>2. Pends(m.turn)'
  <2>1. PICK i : i = m.turn
    OBVIOUS
  <2>2. Pends(i)'
    BY <1>1, <2>1 DEF Pends
  <2> QED
    BY <2>1, <2>2
<1>3. Handled
  BY <1>1, <1>2, TakingSame, TakingHandled
<1> QED
  BY <1>1, <1>3

\* A request the bridge does not know is refused.
LEMMA ForeignHandled ==
    ASSUME Typing, Talk, NEW m, Taking(m), m.kind # "closed", NEW k \in HitBy(m.turn), AsksForeign(m, k)
    PROVE  /\ Handled
           /\ \A l \in Keys : runs[l].st # "none" => runs'[l].st # "none"
<1>0. /\ k \in Keys /\ Active(k) /\ m.turn \in Ids /\ m.kind = "foreign" /\ m.kind # "started"
      /\ held' = held /\ turns \in Seq(Turns)
  <2>1. m.turn \in Ids /\ Told(m.turn) /\ m.kind = "foreign" /\ held' = held
    BY FirstNotice DEF AsksForeign
  <2>2. k \in Keys /\ Active(k)
    BY <2>1, HitOwned
  <2> QED
    BY <2>1, <2>2 DEF Typing
<1>1. CASE ~open
  <2>1. UNCHANGED <<runs, turns>>
    BY <1>1 DEF AsksForeign
  <2>2. turns'[m.turn].wants = "nothing"
    BY <1>0, <1>1, <2>1 DEF Talk, Stilled
  <2>3. Handled
    BY <1>0, <2>1, <2>2, TakingSame, TakingHandled
  <2> QED
    BY <2>1, <2>3
<1>2. CASE open
  <2>0. PICK us : us = Answered(turns, m.turn)
    OBVIOUS
  <2>1. PICK r : r = [runs[k] EXCEPT !.stop = TRUE]
    OBVIOUS
  <2>2. runs' = [runs EXCEPT ![k] = r] /\ turns' = Interrupted(us, runs[k].turn)
    BY <1>2, <2>0, <2>1 DEF AsksForeign
  <2>3. /\ r.stop /\ r.st = runs[k].st /\ r.turn = runs[k].turn /\ r.asks = runs[k].asks
        /\ r.by = runs[k].by /\ r.bound = runs[k].bound /\ runs'[k] = r
    <3>1. runs[k] \in Records(Len(turns)) /\ runs'[k] = r
      BY <1>0, <2>2, TurnTyped DEF Typing
    <3> QED
      BY <2>1, <3>1 DEF Records
  <2>4. Works(k)
    BY <1>0, <2>3 DEF Works, Active
  <2>5. /\ Like(turns, us) /\ us[m.turn].wants = "nothing"
        /\ \A j \in Ids : us[j].cut = turns[j].cut
    BY <1>0, <2>0, AnsweredLike DEF Ids
  <2>6. us \in Seq(Turns) /\ Len(us) = Len(turns) /\ runs[k].turn \in 0 .. Len(us)
    BY <1>0, <2>5, TurnTyped DEF Like
  <2>7. /\ Like(us, turns')
        /\ \A j \in Ids : /\ turns'[j].wants = us[j].wants
                          /\ turns'[j].cut => us[j].cut \/ (j = runs[k].turn /\ us[j].st # "ended")
    BY <2>2, <2>6, InterruptedLike DEF Ids
  <2>8. /\ Like(turns, turns') /\ turns'[m.turn].wants = "nothing"
        /\ \A j \in Ids : turns'[j].cut => turns[j].cut \/ (j = runs[k].turn /\ turns[j].st # "ended")
    <3>1. Like(turns, turns')
      BY <2>5, <2>7, LikeLike
    <3>2. turns'[m.turn].wants = "nothing"
      BY <1>0, <2>5, <2>7
    <3>3. \A j \in Ids : us[j].st = turns[j].st
      BY <2>5 DEF Like, Ids
    <3> QED
      BY <2>5, <2>7, <3>1, <3>2, <3>3
  <2>9. \A i \in Ids : turns'[i].cut =>
           turns[i].cut \/ (turns[i].st # "ended" /\ (turns[i].left \/ runs'[turns[i].for].stop))
    BY <1>0, <2>3, <2>8, WaitingTyped DEF Talk, Taken, Owns
  <2>10. \A l \in Keys : runs'[l] = runs[l] \/ Works(l)
    BY <2>2, <2>4 DEF Typing
  <2>11. "nothing" \notin Requests
    BY RequestsAssumption
  <2>12. Handled
    BY <1>0, <2>8, <2>9, <2>10, <2>11, TakingHandled
  <2>13. \A l \in Keys : runs[l].st # "none" => runs'[l].st # "none"
    BY <1>0, <2>2, <2>3 DEF Typing
  <2> QED
    BY <2>12, <2>13
<1> QED
  BY <1>1, <1>2

\* Whatever the notification, it is handled.
LEMMA ReceiveStep ==
    ASSUME Typing, Talk, Book, Receive
    PROVE  Handled /\ Books
<1>1. PICK m : m = Head(inbox)
  OBVIOUS
<1>2. /\ Taking(m) /\ UNCHANGED <<tombs, start, forgot>>
      /\ \/ Closed(m)
         \/ m.kind # "closed" /\ Unmatched(m)
         \/ m.kind # "closed" /\ \E k \in HitBy(m.turn) :
                \/ Started(m, k) \/ Completed(m, k)
                \/ AsksApproval(m, k) \/ AsksTool(m, k) \/ AsksQuestion(m, k) \/ AsksForeign(m, k)
  BY <1>1 DEF Receive, Taking
<1>3. disk' = disk
  BY <1>2 DEF Closed, Unmatched, Started, Completed, Finish, AsksApproval, AsksTool, AsksQuestion,
              AsksForeign, Write, NoWrite
<1>4. /\ Handled
      /\ \A l \in Keys : runs[l].st # "none" => runs'[l].st # "none"
  BY <1>2, ClosedHandled, UnmatchedHandled, StartedHandled, CompletedHandled, ApprovalHandled,
     BesideHandled, ForeignHandled
<1> QED
  BY <1>2, <1>3, <1>4, SameBooks

\* What a turn does, it says.
LEMMA TurnSpeaks ==
    ASSUME Typing, Talk, NEW i \in Ids, TurnStep(i) \/ \E what \in Requests : TurnAsks(i, what)
    PROVE  /\ Apart /\ held' = held
           /\ \E kind : Speaks(i, kind) /\ turns'[i].wants \in {"nothing", kind}
<1>1. /\ open /\ open' = open /\ turns[i] \in Turns /\ turns \in Seq(Turns) /\ i \in 1 .. Len(turns)
      /\ UNCHANGED <<runs, start, tombs, disk, forgot>> /\ held' = held
  <2>1. turns[i] \in Turns /\ turns \in Seq(Turns) /\ i \in 1 .. Len(turns)
    BY DEF Typing, Ids
  <2> QED
    BY <2>1 DEF TurnStep, TurnBegins, TurnEnds, TurnAsks, memory
<1>2. ASSUME NEW t \in Turns, turns' = [turns EXCEPT ![i] = t], t.for = turns[i].for, t.left = turns[i].left,
             t.denied = turns[i].denied, turns[i].st # "ended"
      PROVE  /\ Apart /\ turns'[i] = t
             /\ turns' \in Seq(Turns) /\ Len(turns') = Len(turns)
             /\ \A j \in Ids : j # i => turns'[j] = turns[j]
  <2>1. /\ turns' \in Seq(Turns) /\ Len(turns') = Len(turns)
        /\ \A j \in 1 .. Len(turns) : turns'[j] = IF j = i THEN t ELSE turns[j]
    BY <1>1, <1>2, ExceptSeq
  <2> QED
    BY <1>1, <1>2, <2>1 DEF Apart, Ids
<1>3. turns[i].cut => turns[i].st # "ended"
  BY DEF Talk, Stilled
<1>4. CASE TurnBegins(i)
  <2>1. PICK t : t = [turns[i] EXCEPT !.st = "working"]
    OBVIOUS
  <2>2. /\ t \in Turns /\ t.for = turns[i].for /\ t.left = turns[i].left /\ t.cut = turns[i].cut
        /\ t.denied = turns[i].denied
        /\ t.st = "working" /\ t.wants = turns[i].wants
    BY <1>1, <2>1 DEF Turns
  <2>3. /\ turns' = [turns EXCEPT ![i] = t] /\ turns[i].st = "asked"
        /\ inbox' = Append(inbox, [kind |-> "started", turn |-> i])
    BY <1>4, <2>1 DEF TurnBegins
  <2>4. turns[i].wants = "nothing"
    BY <2>3 DEF Talk, Stilled
  <2>5. Speaks(i, "started")
    BY <1>1, <1>2, <2>2, <2>3, <2>4 DEF Speaks, Terminal
  <2> QED
    BY <1>1, <1>2, <2>2, <2>3, <2>4, <2>5
<1>5. ASSUME NEW what \in Requests, TurnAsks(i, what)
      PROVE  Apart /\ Speaks(i, what) /\ turns'[i].wants = what
  <2>1. PICK t : t = [turns[i] EXCEPT !.wants = what, !.asked = TRUE]
    OBVIOUS
  <2>2. /\ t \in Turns /\ t.for = turns[i].for /\ t.left = turns[i].left /\ t.cut = turns[i].cut
        /\ t.denied = turns[i].denied
        /\ t.st = turns[i].st /\ t.wants = what
    BY <1>1, <2>1 DEF Turns
  <2>3. /\ turns' = [turns EXCEPT ![i] = t] /\ turns[i].st = "working"
        /\ inbox' = Append(inbox, [kind |-> what, turn |-> i])
    BY <1>5, <2>1 DEF TurnAsks
  <2>4. what # "started" /\ what \notin Terminal /\ what # "interrupted" /\ what # "closed"
    BY NoRequests DEF Terminal
  <2>5. Speaks(i, what)
    BY <1>1, <1>2, <2>2, <2>3, <2>4 DEF Speaks
  <2> QED
    BY <1>2, <2>2, <2>3, <2>5
<1>6. ASSUME NEW how \in Terminal, TurnEnds(i, how)
      PROVE  Apart /\ Speaks(i, how) /\ turns'[i].wants = "nothing"
  <2>1. PICK t : t = Over(turns[i])
    OBVIOUS
  <2>2. /\ t \in Turns /\ t.for = turns[i].for /\ t.left = turns[i].left /\ ~t.cut
        /\ t.denied = turns[i].denied
        /\ t.st = "ended" /\ t.wants = "nothing"
    BY <1>1, <2>1 DEF Over, Turns
  <2>3. /\ turns' = [turns EXCEPT ![i] = t] /\ turns[i].st = "working"
        /\ inbox' = Append(inbox, [kind |-> how, turn |-> i])
        /\ how = "interrupted" => turns[i].cut \/ turns[i].denied
    BY <1>6, <2>1 DEF TurnEnds
  <2>4. how # "started" /\ how # "closed"
    BY <1>6 DEF Terminal
  <2>5. Speaks(i, how)
    BY <1>1, <1>2, <1>6, <2>2, <2>3, <2>4 DEF Speaks
  <2> QED
    BY <1>2, <2>2, <2>3, <2>5
<1> QED
  BY <1>1, <1>4, <1>5, <1>6 DEF TurnStep, Terminal

-----------------------------------------------------------------------------
(* The invariant and the theorems.                                         *)

\* The inductive invariant.
Orderly == Inv /\ Talk /\ Book /\ NothingWaitsSilently

\* It holds at the start,
LEMMA InitOrderly == Init => Orderly
<1> SUFFICES ASSUME Init PROVE Orderly
  OBVIOUS
<1>1. Inv
  BY InitInv
<1>2. /\ turns = <<>> /\ inbox = <<>> /\ Len(turns) = 0 /\ Len(inbox) = 0 /\ tombs = <<>>
      /\ disk.tombs = tombs /\ disk.runs = runs
      /\ \A k \in Keys : runs[k] = NewRun /\ start[k] = "none"
  BY DEF Init, Image
<1>3. Ids = {} /\ (\A i, w : ~Told(i) /\ ~Said(i, w)) /\ \A k : TurnsOf(k) = {}
  BY <1>2 DEF Ids, Told, Said, TurnsOf
<1>4. \A k \in Keys : runs[k].st = "none" /\ runs[k].by = 0 /\ ~Active(k)
  BY <1>2 DEF NewRun, Active, Work
<1>5. Talk
  <2>1. Ordered /\ Stilled /\ Attended /\ CutForStop /\ Introduced
    BY <1>2, <1>3 DEF Ordered, Stilled, Attended, CutForStop, Introduced
  <2>2. OneAtWork /\ Taken
    BY <1>4 DEF OneAtWork, Taken
  <2> QED
    BY <2>1, <2>2 DEF Talk
<1>6. Book
  <2>1. tombs \in Seq(Keys) /\ start \in [Keys -> Stages]
    BY DEF Init, Stages
  <2>2. Listing /\ Cancelling /\ Prepared /\ Confirmed
    BY <1>2, <1>4, <2>1 DEF Listing, Cancelling, Prepared, Confirmed, Final
  <2>3. Remembered /\ OneTurn /\ EndIsConfirmed
    BY <1>2, <1>3, <1>4 DEF Remembered, OneTurn, EndIsConfirmed, Early
  <2>4. ByItsTurn(runs) /\ ByItsTurn(disk.runs)
    BY <1>2, <1>4 DEF ByItsTurn
  <2> QED
    BY <2>2, <2>3, <2>4 DEF Book
<1>7. NothingWaitsSilently
  BY <1>2, <1>3 DEF NothingWaitsSilently, Ids
<1> QED
  BY <1>1, <1>5, <1>6, <1>7 DEF Orderly

\* ... every step keeps it,
LEMMA NextOrderly == ASSUME Orderly, [Next]_vars PROVE Orderly'
<1>0. /\ Inv /\ Typing /\ Talk /\ Book /\ NothingWaitsSilently /\ Inv' /\ Typing'
  BY NextInv DEF Orderly, Inv
<1>1. ASSUME Handled, Books PROVE Orderly'
  <2>1. Talk' /\ Book'
    BY <1>0, <1>1, HandledTalk, HandledBook
  <2> QED
    BY <1>0, <1>1, <2>1, HandledWaits DEF Orderly
<1>2. ASSUME NEW k \in Keys, Submit(k) \/ Stop(k) \/ DispatchStep(k)
      PROVE  Orderly'
  <2>1. CASE Send(k) /\ turns' # turns
    <3>1. PICK t : Asks(k, t)
      BY <1>0, <2>1, SendAsks
    <3>2. Talk'
      BY <1>0, <2>1, <3>1, SendAsks, AsksTalk
    <3> QED
      BY <1>0, <3>1, <3>2, AsksBook, AsksWaits DEF Orderly
  <2>2. CASE ThreadAnswer(k) \/ GivesUp(k) \/ TurnAnswer(k) \/ (Send(k) /\ turns' = turns)
    BY <1>0, <1>1, <2>2, QuietStep
  <2>3. CASE Submit(k)
    BY <1>0, <1>1, <2>3, SubmitStep
  <2>4. CASE Stop(k)
    BY <1>0, <1>1, <2>4, StopStep
  <2>5. CASE Bind(k)
    BY <1>0, <1>1, <2>5, BindStep
  <2>6. CASE Record(k)
    BY <1>0, <1>1, <2>6, RecordStep
  <2>7. CASE Conclude(k)
    BY <1>0, <1>1, <2>7, ConcludeStep
  <2> QED
    BY <1>2, <2>1, <2>2, <2>3, <2>4, <2>5, <2>6, <2>7 DEF DispatchStep
<1>3. ASSUME NEW k \in Keys, NEW i \in runs[k].asks, Approve(k, i)
      PROVE  Orderly'
  BY <1>0, <1>1, <1>3, ApproveStep
<1>4. CASE Persisted
  <2>1. Handled
    BY <1>0, <1>4, PersistedHandled
  <2>2. Talk' /\ Book'
    BY <1>0, <1>4, <2>1, HandledTalk, PersistedBook
  <2> QED
    BY <1>0, <2>1, <2>2, HandledWaits DEF Orderly
<1>5. CASE Receive
  BY <1>0, <1>1, <1>5, ReceiveStep
<1>6. ASSUME NEW i \in Ids, TurnStep(i) \/ \E what \in Requests : TurnAsks(i, what)
      PROVE  Orderly'
  <2>1. Apart /\ held' = held
    BY <1>0, <1>6, TurnSpeaks
  <2>2. PICK kind : Speaks(i, kind) /\ turns'[i].wants \in {"nothing", kind}
    BY <1>0, <1>6, TurnSpeaks
  <2>3. Talk' /\ Book'
    BY <1>0, <2>1, <2>2, SpeaksTalk, ApartBook
  <2>4. NothingWaitsSilently'
    BY <1>0, <2>1, <2>2, SpeaksWaits
  <2> QED
    BY <1>0, <2>3, <2>4 DEF Orderly
<1>7. CASE Exits
  <2>1. AllOver /\ UNCHANGED <<runs, start, tombs, disk, forgot>>
    BY <1>0, <1>7, AllEndedOver DEF Exits, memory
  <2>2. Apart
    BY <2>1 DEF Apart, AllOver
  <2> QED
    BY <1>0, <1>7, <2>1, <2>2, ExitsTalk, ApartBook, OverWaits DEF Orderly
<1>8. CASE Restart
  BY <1>0, <1>8, RestartTalk, RestartBook, OverWaits DEF Orderly
<1>9. ASSUME NEW h \in held, ReplyStep(h)
      PROVE  Orderly'
  <2>1. CASE ToolReply(h) \/ QuestionReply(h) \/ QuestionFails(h)
    BY <1>0, <1>1, <2>1, ReplyStepHandled
  <2> QED
    BY <1>8, <1>9, <2>1 DEF ReplyStep, QuestionKills
<1>10. CASE UNCHANGED vars
  <2>1. UNCHANGED <<runs, turns, inbox, open, disk, tombs, forgot, start>> /\ held' = held
    BY <1>10 DEF vars, memory, native
  <2> QED
    BY <1>0, <1>1, <2>1, QuietHandled, SameBooks
<1> QED
  BY <1>2, <1>3, <1>4, <1>5, <1>6, <1>7, <1>8, <1>9, <1>10 DEF Next, Crash, Ids

\* ... and so it holds in every state.
LEMMA OrderlyAlways == Spec => []Orderly
<1>1. Orderly /\ [Next]_vars => Orderly'
  BY NextOrderly
<1> QED
  BY <1>1, InitOrderly, PTL DEF Spec

\* A set whose members are all equal has at most one.
LEMMA AtMostOne ==
    ASSUME NEW S, \A x, y \in S : x = y
    PROVE  ~(Cardinality(S) > 1)
<1>1. CASE S = {}
  BY <1>1, FS_EmptySet
<1>2. ASSUME NEW x \in S
      PROVE  Cardinality(S) = 1
  <2>1. S = {x}
    BY <1>2
  <2> QED
    BY <2>1, FS_Singleton
<1>3. S = {} \/ \E x \in S : TRUE
  OBVIOUS
<1>4. ~(0 > 1) /\ ~(1 > 1)
  OBVIOUS
<1> QED
  BY <1>1, <1>2, <1>3, <1>4, FS_EmptySet

\* A key asks for one native turn, however often it is submitted and the bridge is restarted, unless
\* its tombstone was dropped to make room (runtime.mjs: submit, initialize, pruneRunTombstones).
THEOREM OneTurnForAKey == Spec => []NeverReplayed
<1>1. Orderly => NeverReplayed
  <2>1. ASSUME Orderly, NEW k \in Keys, k \notin forgot
        PROVE  ~(Cardinality(TurnsOf(k)) > 1)
    <3>1. \A i, j \in TurnsOf(k) : i = j
      BY <2>1 DEF Orderly, Book, OneTurn
    <3> QED
      BY <3>1, AtMostOne
  <2> QED
    BY <2>1 DEF NeverReplayed
<1> QED
  BY <1>1, OrderlyAlways, PTL

\* A run ends by the end of its own turn, and is cancelled only if it was asked to stop or an
\* approval of its turn was denied, unless the turn that ended it was left behind by its own run
\* (runtime.mjs: onMessage, finish, start, approvalDecision).
THEOREM ItsTurnEndsIt == Spec => []EndedByItsTurn
<1>1. Orderly => EndedByItsTurn
  BY DEF Orderly, Book, ByItsTurn, EndedByItsTurn
<1> QED
  BY <1>1, OrderlyAlways, PTL

\* A run that ended as completed or cancelled leaves no turn of its own at work, unless a stray turn
\* ended it or its key was used again (codex-bridge/README.md:18; runtime.mjs: finish, start, stop).
THEOREM ConfirmedEnds == Spec => []EndIsConfirmed
<1>1. Orderly => EndIsConfirmed
  BY DEF Orderly, Book
<1> QED
  BY <1>1, OrderlyAlways, PTL

\* A native request that is not answered is in the queue, with a job beside it or shown to the user,
\* unless its run ended without its turn (runtime.mjs:323: onMessage, approve, requestUserInput).
THEOREM RequestsAreAttended == Spec => []NothingWaitsSilently
<1>1. Orderly => NothingWaitsSilently
  BY DEF Orderly
<1> QED
  BY <1>1, OrderlyAlways, PTL

=============================================================================
