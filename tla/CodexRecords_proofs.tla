------------------------- MODULE CodexRecords_proofs -------------------------
(***************************************************************************)
(* More proofs about CodexBridge, for every set of keys and sessions and   *)
(* every limit: the records kept are in one order and no more than the     *)
(* limit, in memory and in the file, and so are the keys remembered; and   *)
(* what the file says of the runs is a behaviour of AgentRuntime.          *)
(***************************************************************************)
EXTENDS CodexTurns_proofs

\* The keys that have a record, and what is kept of them: Sound of the memory, and of the file.
KeptIn(rs) == {k \in Keys : rs[k].st # "none"}
Sound(rs, o, ts, th) ==
    /\ InOrder(o, KeptIn(rs))
    /\ IsFiniteSet(KeptIn(rs)) /\ Cardinality(KeptIn(rs)) <= MaxRetained
    /\ ts \in Seq(Keys) /\ Len(ts) <= MaxTombstones
    /\ \A n \in 1 .. Len(ts) : ts[n] \notin KeptIn(rs)
    /\ th \subseteq Sessions

\* The dispatches that have not asked for their turn: each may add one.
Waiting == {"created", "thread", "resume", "bind", "binding", "bound"}
Unsent  == {k \in Keys : start[k] \in Waiting}

Bounded ==
    /\ IsFiniteSet(InDispatch)
    /\ Len(turns) + Cardinality(Unsent) <= MaxTurns

HeldTyped == \A h \in held : h \in [turn : Ids, run : Keys, what : {"tool", "question"}]

\* A thread is resumed in a session that has one.
Resuming == \A k \in Keys : start[k] = "resume" => SessionOf[k] \in thread

\* The inductive invariant.
Kempt ==
    /\ Orderly /\ Bounded /\ HeldTyped /\ Resuming
    /\ Sound(runs, older, tombs, thread)
    /\ Sound(disk.runs, disk.older, disk.tombs, disk.thread)
    /\ loaded \subseteq thread /\ forgot \subseteq Keys

-----------------------------------------------------------------------------
(* Orders.                                                                 *)

LEMMA OrderDropped ==
    ASSUME NEW o, NEW S, InOrder(o, S), NEW j
    PROVE  InOrder({p \in o : p[1] # j /\ p[2] # j}, S \ {j})
<1> DEFINE q == {p \in o : p[1] # j /\ p[2] # j}
<1>1. \A a, b : <<a, b>> \in q <=> <<a, b>> \in o /\ a # j /\ b # j
  OBVIOUS
<1>2. q \subseteq (S \ {j}) \X (S \ {j})
  BY DEF InOrder
<1> HIDE DEF q
<1> QED
  BY <1>1, <1>2 DEF InOrder

LEMMA OrderAdded ==
    ASSUME NEW o, NEW S, InOrder(o, S), NEW k, k \notin S
    PROVE  InOrder(o \cup (S \X {k}), S \cup {k})
<1> DEFINE q == o \cup (S \X {k})
<1>1. \A a, b : <<a, b>> \in q <=> <<a, b>> \in o \/ (a \in S /\ b = k)
  OBVIOUS
<1>2. q \subseteq (S \cup {k}) \X (S \cup {k})
  BY DEF InOrder
<1>3. \A a, b : <<a, b>> \in o => a \in S /\ b \in S
  BY DEF InOrder
<1> HIDE DEF q
<1> QED
  BY <1>1, <1>2, <1>3 DEF InOrder

\* The part L goes behind the rest.
LEMMA OrderMoved ==
    ASSUME NEW o, NEW S, InOrder(o, S), NEW L
    PROVE  InOrder({p \in S \X S : IF (p[1] \in L) = (p[2] \in L) THEN p \in o ELSE p[2] \in L}, S)
<1> DEFINE q == {p \in S \X S : IF (p[1] \in L) = (p[2] \in L) THEN p \in o ELSE p[2] \in L}
<1>1. \A a, b \in S : <<a, b>> \in q <=> \/ (a \in L <=> b \in L) /\ <<a, b>> \in o
                                         \/ a \notin L /\ b \in L
  OBVIOUS
<1>2. q \subseteq S \X S
  OBVIOUS
<1> HIDE DEF q
<1> QED
  BY <1>1, <1>2 DEF InOrder

\* The record with the latest news is the last.
LEMMA OrderTouched ==
    ASSUME NEW k \in Kept, InOrder(older, Kept)
    PROVE  InOrder(Touched(k), Kept)
<1>1. InOrder(Without(k), Kept \ {k})
  BY OrderDropped DEF Without
<1>2. (Kept \ {k}) \cup {k} = Kept /\ k \notin Kept \ {k}
  OBVIOUS
<1>3. InOrder(Without(k) \cup ((Kept \ {k}) \X {k}), (Kept \ {k}) \cup {k})
  BY <1>1, <1>2, OrderAdded
<1> QED
  BY <1>2, <1>3 DEF Touched

-----------------------------------------------------------------------------
(* What the steps do that neither keep a new record nor drop one.          *)

\* A dispatch does not begin, and does not go back.
StartsOn ==
    \A k \in Keys : /\ start'[k] \in Waiting => start[k] \in Waiting
                    /\ start'[k] # "none" => start[k] # "none"
                    /\ start'[k] = "resume" => start[k] = "resume" \/ SessionOf[k] \in thread

SameKept == \A k \in Keys : runs'[k].st = "none" <=> runs[k].st = "none"

Regular ==
    /\ SameKept /\ InOrder(older', Kept) /\ UNCHANGED <<tombs, forgot>>
    /\ thread \subseteq thread' /\ thread' \subseteq Sessions /\ loaded' \subseteq thread'
    /\ disk' = disk \/ disk' = Image
    /\ Len(turns') = Len(turns) /\ StartsOn
    /\ \A h \in held' : h \in held \/ h \in [turn : Ids, run : Keys, what : {"tool", "question"}]

LEMMA RegularKempt ==
    ASSUME Kempt, Orderly', Regular
    PROVE  Kempt'
<1>1. KeptIn(runs)' = KeptIn(runs) /\ Kept = KeptIn(runs)
  BY DEF Regular, SameKept, KeptIn, Kept
<1>2. Sound(runs, older, tombs, thread)'
  BY <1>1 DEF Kempt, Sound, Regular
<1>3. Sound(disk.runs, disk.older, disk.tombs, disk.thread)'
  <2>1. CASE disk' = disk
    BY <2>1 DEF Kempt
  <2>2. CASE disk' = Image
    <3>1. disk'.runs = runs /\ disk'.older = older /\ disk'.tombs = tombs /\ disk'.thread = thread
      BY <2>2 DEF Image
    <3> QED
      BY <3>1 DEF Kempt
  <2> QED
    BY <2>1, <2>2 DEF Regular
<1>4. Bounded'
  <2>1. InDispatch' \in SUBSET InDispatch /\ IsFiniteSet(InDispatch)
    BY DEF Regular, StartsOn, InDispatch, Kempt, Bounded
  <2>2. IsFiniteSet(InDispatch)'
    BY <2>1, FS_Subset
  <2>3. Unsent \in SUBSET InDispatch /\ Unsent' \in SUBSET Unsent
    BY DEF Regular, StartsOn, InDispatch, Unsent, Waiting
  <2>4. IsFiniteSet(Unsent) /\ Cardinality(Unsent') <= Cardinality(Unsent) /\ IsFiniteSet(Unsent')
    BY <2>1, <2>3, FS_Subset
  <2>5. Cardinality(Unsent') \in Nat /\ Cardinality(Unsent) \in Nat
    BY <2>4, FS_CardinalityType
  <2>6. Len(turns') = Len(turns) /\ Len(turns) \in Nat /\ Len(turns) + Cardinality(Unsent) <= MaxTurns /\ MaxTurns \in Nat
    BY LimitsAssumption DEF Regular, Kempt, Bounded, Orderly, Inv, Typing
  <2>7. Len(turns') + Cardinality(Unsent') <= MaxTurns
    BY <2>4, <2>5, <2>6
  <2> QED
    BY <2>2, <2>7 DEF Bounded
<1>5. HeldTyped'
  BY DEF Regular, Kempt, HeldTyped, Ids
<1>6. Resuming'
  BY DEF Regular, StartsOn, Kempt, Resuming
<1> QED
  BY <1>2, <1>3, <1>4, <1>5, <1>6 DEF Kempt, Regular

\* What is known before a step.
LEMMA Known0 ==
    ASSUME Kempt
    PROVE  /\ runs \in [Keys -> Records(Len(turns))] /\ start \in [Keys -> Stages]
           /\ InOrder(older, Kept) /\ thread \subseteq Sessions /\ loaded \subseteq thread
           /\ \A k \in Keys : SessionOf[k] \in Sessions
           /\ \A k \in Keys : start[k] = "resume" => SessionOf[k] \in thread
           /\ turns \in Seq(Turns) /\ Len(turns) \in Nat
           /\ \A k \in Keys : Active(k) => k \in Kept
           /\ Inv /\ Typing /\ Talk /\ Book
<1>1. Inv /\ Typing /\ Talk /\ Book /\ Sound(runs, older, tombs, thread)
  BY DEF Kempt, Orderly, Inv
<1>2. KeptIn(runs) = Kept
  BY DEF KeptIn, Kept
<1>3. \A k \in Keys : Active(k) => k \in Kept
  BY DEF Active, Work, Kept
<1> QED
  BY <1>1, <1>2, <1>3, SessionsAssumption DEF Typing, Book, Listing, Sound, Kempt, Resuming

\* A step that is Handled adds no turn.
LEMMA HandledLength ==
    ASSUME Handled
    PROVE  Len(turns') = Len(turns)
  BY DEF Handled, TurnsKept

\* A record that changes, but for its end.
LEMMA OneKept ==
    ASSUME Kempt, NEW k \in Keys, NEW r, runs' = [runs EXCEPT ![k] = r], r.st = "none" <=> runs[k].st = "none"
    PROVE  SameKept
  BY Known0 DEF SameKept

LEMMA FinishRegular ==
    ASSUME Kempt, NEW k \in Keys, NEW s \in Ended, NEW i, Finish(k, s, i)
    PROVE  SameKept /\ InOrder(older', Kept) /\ disk' = disk
<1>1. CASE Active(k) /\ runs' = [runs EXCEPT ![k] = EndedAs(k, s, i)] /\ older' = Touched(k) /\ Write
  <2>1. PICK r : r = EndedAs(k, s, i)
    OBVIOUS
  <2>2. r.st = s
    BY <2>1, Known0 DEF EndedAs, Records
  <2>3. r.st # "none" /\ runs[k].st # "none"
    BY <1>1, <2>2 DEF Ended, Active, Work
  <2> QED
    BY <1>1, <2>1, <2>3, Known0, OneKept, OrderTouched DEF Write
<1>2. CASE UNCHANGED <<runs, older>> /\ NoWrite
  BY <1>2, Known0 DEF NoWrite, SameKept
<1> QED
  BY <1>1, <1>2 DEF Finish

\* What a step does that has been shown to be Handled and to keep the Books.
LEMMA BooksRegular ==
    ASSUME Kempt, Handled, Books,
           \A k \in Keys : start'[k] = "created" => start[k] = "created",
           SameKept, InOrder(older', Kept), UNCHANGED <<tombs, forgot>>,
           thread \subseteq thread', thread' \subseteq Sessions, loaded' \subseteq thread',
           \A h \in held' : h \in held \/ h \in [turn : Ids, run : Keys, what : {"tool", "question"}]
    PROVE  Regular
<1>1. StartsOn
  <2>1. \A k \in Keys : Moves(k)
    BY DEF Books
  <2> QED
    BY <2>1 DEF StartsOn, Moves, Waiting
<1> QED
  BY <1>1, HandledLength DEF Regular, Books

\* ... and touches no session.
LEMMA ItemRegular ==
    ASSUME Kempt, Handled, Books, UNCHANGED <<tombs, forgot, thread, loaded>>,
           \A k \in Keys : start'[k] = "created" => start[k] = "created",
           SameKept, InOrder(older', Kept), held' \subseteq held
    PROVE  Regular
  BY BooksRegular, Known0

-----------------------------------------------------------------------------
(* The steps of the control plane and of the dispatch.                     *)

LEMMA StopRegular ==
    ASSUME Kempt, NEW k \in Keys, Stop(k)
    PROVE  Regular
<1>1. PICK r : r = [runs[k] EXCEPT !.stop = TRUE]
  OBVIOUS
<1>2. r.st = runs[k].st
  BY <1>1, Known0 DEF Records
<1>3. SameKept
  BY <1>1, <1>2, OneKept DEF Stop
<1>4. Handled /\ Books
  BY Known0, StopStep
<1> QED
  BY <1>3, <1>4, Known0, ItemRegular DEF Stop

LEMMA ApproveRegular ==
    ASSUME Kempt, NEW k \in Keys, NEW i \in runs[k].asks, Approve(k, i)
    PROVE  Regular
<1>0. PICK s : s = IF runs[k].asks = {i} THEN "running" ELSE "waiting"
  OBVIOUS
<1>1. PICK r : r = [runs[k] EXCEPT !.asks = runs[k].asks \ {i}, !.st = s]
  OBVIOUS
<1>2. runs' = [runs EXCEPT ![k] = r]
  BY <1>0, <1>1 DEF Approve
<1>3. r.st = s
  BY <1>1, Known0 DEF Records
<1>4. SameKept
  BY <1>0, <1>2, <1>3, OneKept DEF Approve, Active, Work
<1>5. Handled /\ Books
  BY Known0, ApproveStep
<1>6. InOrder(older', Kept)
  BY Known0, OrderTouched DEF Approve
<1> QED
  BY <1>4, <1>5, <1>6, ItemRegular DEF Approve

LEMMA PersistedRegular ==
    ASSUME Kempt, Persisted
    PROVE  Regular
<1>1. Len(turns') = Len(turns)
  BY DEF Persisted, native
<1>2. StartsOn
  BY Known0 DEF Persisted, StartsOn, Waiting, Begun, Stages
<1> QED
  BY <1>1, <1>2, Known0 DEF Persisted, memory, Regular, SameKept

LEMMA QuietRegular ==
    ASSUME Kempt, NEW k \in Keys,
           ThreadAnswer(k) \/ GivesUp(k) \/ TurnAnswer(k) \/ (Send(k) /\ turns' = turns)
    PROVE  Regular
<1>1. Handled /\ Books
  BY Known0, QuietStep
<1>2. UNCHANGED <<runs, older, tombs, thread, forgot>> /\ held' = held
  BY DEF ThreadAnswer, GivesUp, TurnAnswer, Send, memory
<1>3. SameKept
  BY <1>2 DEF SameKept
<1>4. \A l \in Keys : start'[l] = "created" => start[l] = "created"
  BY Known0 DEF ThreadAnswer, GivesUp, TurnAnswer, Send
<1>5. loaded' \subseteq thread'
  <2>1. CASE ThreadAnswer(k)
    BY <2>1, <1>2, Known0 DEF ThreadAnswer, memory
  <2>2. CASE loaded' = loaded
    BY <2>2, <1>2, Known0
  <2> QED
    BY <2>1, <2>2 DEF GivesUp, TurnAnswer, Send
<1> QED
  BY <1>1, <1>2, <1>3, <1>4, <1>5, Known0, BooksRegular

LEMMA BindRegular ==
    ASSUME Kempt, NEW k \in Keys, Bind(k)
    PROVE  Regular
<1>1. PICK r : r = [runs[k] EXCEPT !.bound = TRUE]
  OBVIOUS
<1>2. r.st = runs[k].st
  BY <1>1, Known0 DEF Records
<1>3. SameKept
  BY <1>1, <1>2, OneKept DEF Bind
<1>4. Handled /\ Books
  BY Known0, BindStep
<1>5. thread' = thread \cup {SessionOf[k]} /\ loaded' = loaded \cup {SessionOf[k]}
  BY DEF Bind
<1>6. thread \subseteq thread' /\ thread' \subseteq Sessions /\ loaded' \subseteq thread'
  BY <1>5, Known0
<1>7. \A l \in Keys : start'[l] = "created" => start[l] = "created"
  BY Known0 DEF Bind
<1> QED
  BY <1>3, <1>4, <1>6, <1>7, Known0, BooksRegular DEF Bind

LEMMA RecordRegular ==
    ASSUME Kempt, NEW k \in Keys, Record(k)
    PROVE  Regular
<1>0. PICK i : Takes(k, i)
  BY DEF Record
<1>1. PICK r : r = [runs[k] EXCEPT !.turn = i]
  OBVIOUS
<1>2. r.st = runs[k].st
  BY <1>1, Known0 DEF Records
<1>3. SameKept
  <2>1. CASE runs' = runs
    BY <2>1 DEF SameKept
  <2>2. CASE runs' = [runs EXCEPT ![k] = r]
    BY <1>2, <2>2, OneKept
  <2> QED
    BY <1>0, <1>1, <2>1, <2>2 DEF Takes
<1>4. Handled /\ Books
  BY Known0, RecordStep
<1>5. \A l \in Keys : start'[l] = "created" => start[l] = "created"
  BY <1>0, Known0 DEF Takes
<1> QED
  BY <1>3, <1>4, <1>5, Known0, ItemRegular DEF Record

LEMMA ConcludeRegular ==
    ASSUME Kempt, NEW k \in Keys, Conclude(k)
    PROVE  Regular
<1>1. PICK st : st = IF start[k] = "failing" THEN "failed" ELSE "cancelled"
  OBVIOUS
<1>2. st \in Ended /\ Finish(k, st, 0)
  BY <1>1 DEF Conclude, Ended
<1>3. SameKept /\ InOrder(older', Kept)
  BY <1>2, FinishRegular
<1>4. Handled /\ Books
  BY Known0, ConcludeStep
<1>5. \A l \in Keys : start'[l] = "created" => start[l] = "created"
  BY Known0 DEF Conclude
<1> QED
  BY <1>3, <1>4, <1>5, ItemRegular DEF Conclude

LEMMA ReplyRegular ==
    ASSUME Kempt, NEW h \in held, ToolReply(h) \/ QuestionReply(h) \/ QuestionFails(h)
    PROVE  Regular
<1>1. Handled /\ Books
  BY Known0, ReplyStepHandled
<1>2. h.run \in Keys
  BY Known0 DEF Typing, Jobs
<1>3. SameKept /\ InOrder(older', Kept)
  <2>1. CASE ToolReply(h)
    BY <1>2, <2>1, Known0, OrderTouched DEF ToolReply, SameKept
  <2>2. CASE QuestionReply(h)
    BY <2>2, Known0 DEF QuestionReply, memory, SameKept
  <2>3. CASE QuestionFails(h)
    <3>1. PICK r : r = [runs[h.run] EXCEPT !.stop = TRUE]
      OBVIOUS
    <3>2. r.st = runs[h.run].st
      BY <1>2, <3>1, Known0 DEF Records
    <3>3. runs' = [runs EXCEPT ![h.run] = r] => SameKept
      BY <1>2, <3>2, OneKept
    <3>4. runs' = runs => SameKept
      BY DEF SameKept
    <3> QED
      BY <2>3, <3>1, <3>3, <3>4, Known0 DEF QuestionFails
  <2> QED
    BY <2>1, <2>2, <2>3
<1>4. UNCHANGED <<tombs, forgot, thread, loaded, start>> /\ held' \subseteq held
  BY DEF ToolReply, QuestionReply, QuestionFails, memory
<1> QED
  BY <1>1, <1>3, <1>4, ItemRegular

-----------------------------------------------------------------------------
(* The notifications.                                                      *)

\* A record that goes on, and has the latest news.
LEMMA GoesOn ==
    ASSUME Kempt, NEW k \in Keys, Active(k), NEW r, runs' = [runs EXCEPT ![k] = r], r.st \in Work
    PROVE  SameKept
  BY OneKept DEF Active, Work

LEMMA ReceiveRegular ==
    ASSUME Kempt, Receive
    PROVE  Regular
<1>1. PICK m : m = Head(inbox)
  OBVIOUS
<1>2. /\ Taking(m) /\ UNCHANGED <<tombs, thread, loaded, start, forgot>>
      /\ \/ Closed(m)
         \/ m.kind # "closed" /\ Unmatched(m)
         \/ m.kind # "closed" /\ \E k \in HitBy(m.turn) :
                \/ Started(m, k) \/ Completed(m, k)
                \/ AsksApproval(m, k) \/ AsksTool(m, k) \/ AsksQuestion(m, k) \/ AsksForeign(m, k)
  BY <1>1 DEF Receive, Taking
<1>3. Handled /\ Books
  BY Known0, ReceiveStep
<1>4. Typing /\ Talk
  BY Known0
<1>5. SUFFICES /\ SameKept /\ InOrder(older', Kept)
               /\ \A h \in held' : h \in held \/ h \in [turn : Ids, run : Keys, what : {"tool", "question"}]
  BY <1>2, <1>3, Known0, BooksRegular
<1>6. CASE Closed(m)
  <2>1. InOrder(older', Kept)
    <3>1. PICK L : L = Lost
      OBVIOUS
    <3>2. PICK S : S = Kept
      OBVIOUS
    <3>3. PICK o : o = older
      OBVIOUS
    <3>4. older' = {p \in S \X S : IF (p[1] \in L) = (p[2] \in L) THEN p \in o ELSE p[2] \in L}
      BY <1>6, <3>1, <3>2, <3>3 DEF Closed
    <3>5. InOrder(o, S)
      BY <3>2, <3>3, Known0
    <3>6. InOrder({p \in S \X S : IF (p[1] \in L) = (p[2] \in L) THEN p \in o ELSE p[2] \in L}, S)
      BY <3>5, OrderMoved
    <3> QED
      BY <3>2, <3>4, <3>6
  <2>2. ASSUME NEW k \in Keys
        PROVE  runs'[k].st = "none" <=> runs[k].st = "none"
    <3>1. CASE k \in Lost
      <4>1. EndedAs(k, "failed", 0).st = "failed"
        BY Known0 DEF EndedAs, Records
      <4> QED
        BY <1>6, <3>1, <4>1 DEF Closed, Lost, Active, Work
    <3>2. CASE k \notin Lost
      BY <1>6, <3>2 DEF Closed
    <3> QED
      BY <3>1, <3>2
  <2> QED
    BY <1>6, <2>1, <2>2 DEF Closed, SameKept
<1>7. CASE Unmatched(m)
  BY <1>7, Known0 DEF Unmatched, SameKept
<1>8. ASSUME NEW k \in HitBy(m.turn), m.kind # "closed",
             \/ Started(m, k) \/ Completed(m, k)
             \/ AsksApproval(m, k) \/ AsksTool(m, k) \/ AsksQuestion(m, k) \/ AsksForeign(m, k)
      PROVE  /\ SameKept /\ InOrder(older', Kept)
             /\ \A h \in held' : h \in held \/ h \in [turn : Ids, run : Keys, what : {"tool", "question"}]
  <2>1. k \in Keys /\ Active(k) /\ k \in Kept /\ runs[k] \in Records(Len(turns))
    BY Known0 DEF HitBy, InSession
  <2>2. InOrder(Touched(k), Kept) /\ InOrder(older, Kept)
    BY <2>1, Known0, OrderTouched
  <2>3. m.turn \in Ids
    BY <1>2, <1>4, <1>8, FirstNotice
  <2>4. CASE Started(m, k)
    <3>1. PICK r : r = [runs[k] EXCEPT !.turn = m.turn, !.st = "running"]
      OBVIOUS
    <3>2. r.st \in Work /\ runs' = [runs EXCEPT ![k] = r]
      BY <2>1, <2>4, <3>1 DEF Started, Records, Work
    <3> QED
      BY <2>1, <2>2, <2>4, <3>2, GoesOn DEF Started
  <2>5. CASE AsksApproval(m, k)
    <3>1. PICK r : r = [runs[k] EXCEPT !.asks = runs[k].asks \cup {m.turn}, !.st = "waiting"]
      OBVIOUS
    <3>2. r.st \in Work /\ runs' = [runs EXCEPT ![k] = r]
      BY <2>1, <2>5, <3>1 DEF AsksApproval, Records, Work
    <3> QED
      BY <2>1, <2>2, <2>5, <3>2, GoesOn DEF AsksApproval
  <2>6. CASE AsksForeign(m, k)
    <3>1. PICK r : r = [runs[k] EXCEPT !.stop = TRUE]
      OBVIOUS
    <3>2. r.st \in Work
      BY <2>1, <3>1 DEF Records, Active
    <3>3. runs' = [runs EXCEPT ![k] = r] => SameKept
      BY <2>1, <3>2, GoesOn
    <3>4. runs' = runs => SameKept
      BY DEF SameKept
    <3> QED
      BY <2>2, <2>6, <3>1, <3>3, <3>4 DEF AsksForeign
  <2>7. CASE AsksTool(m, k)
    BY <2>1, <2>2, <2>3, <2>7 DEF AsksTool, SameKept
  <2>8. CASE AsksQuestion(m, k)
    BY <2>1, <2>2, <2>3, <2>8 DEF AsksQuestion, SameKept
  <2>9. CASE Completed(m, k)
    <3>1. EndOf(m.kind) \in Ended
      BY <2>9 DEF Completed, EndOf, Ended
    <3> QED
      BY <2>1, <2>9, <3>1, FinishRegular DEF Completed
  <2> QED
    BY <1>8, <2>4, <2>5, <2>6, <2>7, <2>8, <2>9
<1> QED
  BY <1>2, <1>6, <1>7, <1>8

-----------------------------------------------------------------------------
(* The app-server, and nothing.                                            *)

LEMMA NativeRegular ==
    ASSUME Kempt, Len(turns') = Len(turns),
           UNCHANGED <<runs, older, tombs, thread, loaded, disk, start, held, forgot>>
    PROVE  Regular
  BY Known0 DEF Regular, SameKept, StartsOn

LEMMA TurnRegular ==
    ASSUME Kempt, NEW i \in 1 .. Len(turns), TurnStep(i) \/ \E what \in Requests : TurnAsks(i, what)
    PROVE  Regular
<1>0. turns \in Seq(Turns)
  BY Known0
<1>1. Len(turns') = Len(turns)
  <2>1. \A t : Len([turns EXCEPT ![i] = t]) = Len(turns)
    BY <1>0
  <2>2. CASE TurnBegins(i)
    BY <1>0, <2>2 DEF TurnBegins
  <2>3. ASSUME NEW how, TurnEnds(i, how) PROVE Len(turns') = Len(turns)
    BY <2>1, <2>3 DEF TurnEnds
  <2>4. ASSUME NEW what, TurnAsks(i, what) PROVE Len(turns') = Len(turns)
    BY <1>0, <2>4 DEF TurnAsks
  <2> QED
    BY <2>2, <2>3, <2>4 DEF TurnStep
<1> QED
  BY <1>1, NativeRegular DEF TurnStep, TurnBegins, TurnEnds, TurnAsks, memory

LEMMA ExitsRegular ==
    ASSUME Kempt, Exits
    PROVE  Regular
<1>1. Len(turns') = Len(turns)
  BY Known0 DEF Exits, AllEnded
<1> QED
  BY <1>1, NativeRegular DEF Exits, memory

-----------------------------------------------------------------------------
(* A run begins, and the oldest record makes room for it.                  *)

\* One record goes or none, and k's comes.
LEMMA OneIn ==
    ASSUME NEW S, IsFiniteSet(S), NEW k, k \notin S
    PROVE  IsFiniteSet(S \cup {k}) /\ Cardinality(S \cup {k}) = Cardinality(S) + 1
  BY FS_AddElement

LEMMA OneOut ==
    ASSUME NEW S, IsFiniteSet(S), NEW j \in S
    PROVE  IsFiniteSet(S \ {j}) /\ Cardinality(S \ {j}) = Cardinality(S) - 1 /\ Cardinality(S) \in Nat
  BY FS_RemoveElement, FS_CardinalityType

LEMMA AddsSound ==
    ASSUME Kempt, NEW k \in Keys, ~Known(k), ~Full, Adds(k), UNCHANGED thread
    PROVE  Sound(runs, older, tombs, thread)'
<1>1. k \notin Kept /\ \A n \in 1 .. Len(tombs) : tombs[n] # k
  BY DEF Known, Kept
<1>2. KeptIn(runs) = Kept /\ Sound(runs, older, tombs, thread)
  BY DEF Kempt, KeptIn, Kept
<1>3. KeptIn(runs') = Kept \cup {k}
  BY Known0 DEF Adds, KeptIn, Kept, Queued, NewRun
<1>4. InOrder(older', Kept \cup {k})
  BY <1>1, Known0, OrderAdded DEF Adds
<1>5. IsFiniteSet(Kept \cup {k}) /\ Cardinality(Kept \cup {k}) = Cardinality(Kept) + 1
  BY <1>1, <1>2, OneIn DEF Sound
<1>6. Cardinality(Kept) \in Nat /\ MaxRetained \in Nat
  BY <1>2, FS_CardinalityType, LimitsAssumption DEF Sound
<1>7. Cardinality(Kept \cup {k}) <= MaxRetained
  BY <1>5, <1>6 DEF Full
<1> QED
  BY <1>1, <1>2, <1>3, <1>4, <1>5, <1>7 DEF Sound, Adds

LEMMA ReplacesSound ==
    ASSUME Kempt, NEW k \in Keys, ~Known(k), NEW j \in Keys, Oldest(j), Replaces(j, k), UNCHANGED thread
    PROVE  Sound(runs, older, tombs, thread)' /\ forgot' \subseteq Keys
<1>1. k \notin Kept /\ (\A n \in 1 .. Len(tombs) : tombs[n] # k) /\ j \in Kept /\ j # k
  BY DEF Known, Kept, Oldest
<1>2. KeptIn(runs) = Kept /\ Sound(runs, older, tombs, thread) /\ forgot \subseteq Keys
  BY DEF Kempt, KeptIn, Kept
<1>3. KeptIn(runs') = (Kept \ {j}) \cup {k}
  <2>1. Dropped(j).st = "none" /\ Queued.st = "queued"
    BY Known0, FreshTyped
  <2>2. runs'[j] = Dropped(j) /\ runs'[k] = Queued /\ \A l \in Keys \ {j, k} : runs'[l] = runs[l]
    BY <1>1, Known0 DEF Replaces
  <2> QED
    BY <1>1, <2>1, <2>2 DEF KeptIn, Kept
<1>4. InOrder(older', (Kept \ {j}) \cup {k})
  <2>1. InOrder(Without(j), Kept \ {j})
    BY Known0, OrderDropped DEF Without
  <2>2. k \notin Kept \ {j}
    BY <1>1
  <2> QED
    BY <2>1, <2>2, OrderAdded DEF Replaces
<1>5. /\ IsFiniteSet((Kept \ {j}) \cup {k})
      /\ Cardinality((Kept \ {j}) \cup {k}) <= MaxRetained
  <2>1. IsFiniteSet(Kept) /\ Cardinality(Kept) <= MaxRetained /\ MaxRetained \in Nat
    BY <1>2, LimitsAssumption DEF Sound
  <2>2. IsFiniteSet(Kept \ {j}) /\ Cardinality(Kept \ {j}) = Cardinality(Kept) - 1 /\ Cardinality(Kept) \in Nat
    BY <1>1, <2>1, OneOut
  <2>3. k \notin Kept \ {j}
    BY <1>1
  <2>4. /\ IsFiniteSet((Kept \ {j}) \cup {k})
        /\ Cardinality((Kept \ {j}) \cup {k}) = Cardinality(Kept \ {j}) + 1
    BY <2>2, <2>3, OneIn
  <2> QED
    BY <2>1, <2>2, <2>4
<1>6. PICK all : all = Append(tombs, j)
  OBVIOUS
<1>7. /\ tombs \in Seq(Keys) /\ Len(tombs) \in Nat /\ Len(tombs) <= MaxTombstones /\ MaxTombstones \in Nat
      /\ \A n \in 1 .. Len(tombs) : tombs[n] \notin Kept
  BY <1>2, LimitsAssumption DEF Sound
<1>8. /\ all \in Seq(Keys) /\ Len(all) = Len(tombs) + 1 /\ all[Len(tombs) + 1] = j
      /\ \A n \in 1 .. Len(tombs) : all[n] = tombs[n]
  BY <1>6, <1>7
<1>9. \A n \in 1 .. Len(all) : all[n] \notin (Kept \ {j}) \cup {k}
  <2>1. ASSUME NEW n \in 1 .. Len(all)
        PROVE  n \in 1 .. Len(tombs) \/ n = Len(tombs) + 1
    BY <1>7, <1>8
  <2> QED
    BY <1>1, <1>7, <1>8, <2>1
<1>10. /\ tombs' \in Seq(Keys) /\ Len(tombs') <= MaxTombstones /\ forgot' \subseteq Keys
       /\ \A n \in 1 .. Len(tombs') : \E p \in 1 .. Len(all) : tombs'[n] = all[p]
  <2>1. CASE Len(all) > MaxTombstones
    <3>1. tombs' = Tail(all) /\ forgot' = forgot \cup {Head(all)}
      BY <1>6, <2>1 DEF Replaces
    <3>2. all # <<>> /\ Head(all) \in Keys
      BY <1>7, <1>8
    <3>3. /\ tombs' \in Seq(Keys) /\ Len(tombs') = Len(tombs)
          /\ \A n \in 1 .. Len(tombs') : tombs'[n] = all[n + 1]
      BY <1>7, <1>8, <3>1, <3>2
    <3>4. \A n \in 1 .. Len(tombs') : n + 1 \in 1 .. Len(all)
      BY <1>7, <1>8, <3>3
    <3> QED
      BY <1>2, <1>7, <3>1, <3>2, <3>3, <3>4
  <2>2. CASE ~(Len(all) > MaxTombstones)
    <3>1. tombs' = all /\ forgot' = forgot
      BY <1>6, <2>2 DEF Replaces
    <3>2. Len(all) <= MaxTombstones
      BY <1>7, <1>8, <2>2
    <3> QED
      BY <1>2, <1>8, <3>1, <3>2
  <2> QED
    BY <2>1, <2>2
<1>11. \A n \in 1 .. Len(tombs') : tombs'[n] \notin (Kept \ {j}) \cup {k}
  BY <1>9, <1>10
<1> QED
  BY <1>2, <1>3, <1>4, <1>5, <1>10, <1>11 DEF Sound

LEMMA SubmitKempt ==
    ASSUME Kempt, NEW k \in Keys, Submit(k), Orderly'
    PROVE  Kempt'
<1>1. /\ UNCHANGED <<thread, loaded, disk, turns, held>> /\ start' = [start EXCEPT ![k] = "created"]
      /\ ~Known(k) /\ start[k] = "none" /\ Len(turns) + Cardinality(InDispatch) < MaxTurns
      /\ (~Full /\ Adds(k)) \/ (\E j \in Keys : Oldest(j) /\ Replaces(j, k))
  BY DEF Submit, Write, native
<1>2. Sound(runs, older, tombs, thread)' /\ forgot' \subseteq Keys
  <2>1. CASE ~Full /\ Adds(k)
    BY <1>1, <2>1, AddsSound DEF Adds, Kempt
  <2>2. ASSUME NEW j \in Keys, Oldest(j), Replaces(j, k)
        PROVE  Sound(runs, older, tombs, thread)' /\ forgot' \subseteq Keys
    BY <1>1, <2>2, ReplacesSound
  <2> QED
    BY <1>1, <2>1, <2>2
<1>3. \A l \in Keys : start'[l] = IF l = k THEN "created" ELSE start[l]
  BY <1>1, Known0
<1>4. Bounded'
  <2>1. InDispatch' = InDispatch \cup {k} /\ k \notin InDispatch /\ IsFiniteSet(InDispatch)
    BY <1>1, <1>3 DEF InDispatch, Kempt, Bounded
  <2>2. IsFiniteSet(InDispatch') /\ Cardinality(InDispatch) \in Nat
    BY <2>1, OneIn, FS_CardinalityType
  <2>3. Unsent \in SUBSET InDispatch /\ Unsent' = Unsent \cup {k} /\ k \notin Unsent
    BY <1>1, <1>3 DEF Unsent, InDispatch, Waiting
  <2>4. IsFiniteSet(Unsent) /\ Cardinality(Unsent) <= Cardinality(InDispatch) /\ Cardinality(Unsent) \in Nat
    BY <2>1, <2>3, FS_Subset, FS_CardinalityType
  <2>5. Cardinality(Unsent') = Cardinality(Unsent) + 1
    BY <2>3, <2>4, OneIn
  <2>6. Len(turns) \in Nat /\ MaxTurns \in Nat
    BY Known0, LimitsAssumption
  <2>7. Len(turns') + Cardinality(Unsent') <= MaxTurns
    BY <1>1, <2>2, <2>4, <2>5, <2>6
  <2> QED
    BY <2>2, <2>7 DEF Bounded
<1>5. HeldTyped' /\ Resuming'
  BY <1>1, <1>3 DEF Kempt, HeldTyped, Resuming, Ids
<1> QED
  BY <1>1, <1>2, <1>4, <1>5 DEF Kempt

-----------------------------------------------------------------------------
(* A turn is asked for, and a restart.                                     *)

LEMMA SendKempt ==
    ASSUME Kempt, NEW k \in Keys, Send(k), turns' # turns, Orderly'
    PROVE  Kempt'
<1>1. /\ UNCHANGED <<runs, older, tombs, thread, loaded, disk, held, forgot>>
      /\ start[k] = "bound" /\ start' = [start EXCEPT ![k] = "turn"]
      /\ \E t : turns' = Append(turns, t)
  BY DEF Send, memory
<1>2. Len(turns') = Len(turns) + 1
  BY <1>1, Known0
<1>3. \A l \in Keys : start'[l] = IF l = k THEN "turn" ELSE start[l]
  BY <1>1, Known0
<1>4. Bounded'
  <2>1. InDispatch' = InDispatch /\ IsFiniteSet(InDispatch)
    BY <1>1, <1>3 DEF InDispatch, Kempt, Bounded
  <2>2. Unsent \in SUBSET InDispatch /\ Unsent' = Unsent \ {k} /\ k \in Unsent
    BY <1>1, <1>3 DEF Unsent, InDispatch, Waiting
  <2>3. IsFiniteSet(Unsent)
    BY <2>1, <2>2, FS_Subset
  <2>4. Cardinality(Unsent') = Cardinality(Unsent) - 1 /\ Cardinality(Unsent) \in Nat
    BY <2>2, <2>3, OneOut
  <2>5. Len(turns) + Cardinality(Unsent) <= MaxTurns /\ Len(turns) \in Nat /\ MaxTurns \in Nat
    BY Known0, LimitsAssumption DEF Kempt, Bounded
  <2>6. Len(turns') + Cardinality(Unsent') <= MaxTurns
    BY <1>2, <2>4, <2>5
  <2> QED
    BY <2>1, <2>6 DEF Bounded
<1>5. Resuming'
  BY <1>1, <1>3 DEF Kempt, Resuming
<1>6. HeldTyped'
  <2>1. \A i \in Ids : i \in Ids'
    BY <1>2, Known0 DEF Ids
  <2>2. ASSUME NEW h \in held'
        PROVE  h \in [turn : Ids', run : Keys, what : {"tool", "question"}]
    <3>1. h \in [turn : Ids, run : Keys, what : {"tool", "question"}]
      BY <1>1 DEF Kempt, HeldTyped
    <3> QED
      BY <2>1, <3>1
  <2> QED
    BY <2>2 DEF HeldTyped
<1>7. Sound(runs, older, tombs, thread)' /\ Sound(disk.runs, disk.older, disk.tombs, disk.thread)'
  BY <1>1 DEF Kempt
<1> QED
  BY <1>1, <1>4, <1>5, <1>6, <1>7 DEF Kempt

LEMMA RestartKempt ==
    ASSUME Kempt, Restart, Orderly'
    PROVE  Kempt'
<1>1. /\ runs' = [k \in Keys |-> Resumed(disk.runs[k])]
      /\ older' = disk.older /\ tombs' = disk.tombs /\ thread' = disk.thread
      /\ disk'.runs = runs' /\ disk'.older = older' /\ disk'.tombs = tombs' /\ disk'.thread = thread'
      /\ loaded' = {} /\ held' = {} /\ forgot' = forgot /\ start' = [k \in Keys |-> "none"]
      /\ Len(turns') = Len(turns)
  BY Known0 DEF Restart, Image, AllEnded
<1>2. KeptIn(runs') = KeptIn(disk.runs)
  <2>1. ASSUME NEW k \in Keys
        PROVE  Resumed(disk.runs[k]).st = "none" <=> disk.runs[k].st = "none"
    <3>1. disk.runs[k] \in Records(Len(turns))
      BY Known0 DEF Typing
    <3> QED
      BY <3>1 DEF Resumed, Records, Work
  <2> QED
    BY <1>1, <2>1 DEF KeptIn
<1>3. Sound(disk.runs, disk.older, disk.tombs, disk.thread)
  BY DEF Kempt
<1>4. Sound(runs', older', tombs', thread')
  BY <1>1, <1>2, <1>3 DEF Sound
<1>5. Sound(disk'.runs, disk'.older, disk'.tombs, disk'.thread)
  BY <1>1, <1>4
<1>6. Bounded'
  <2>1. InDispatch' = {} /\ Unsent' = {}
    BY <1>1 DEF InDispatch, Unsent, Waiting
  <2>2. IsFiniteSet(Unsent) /\ IsFiniteSet(InDispatch)
    <3>1. Unsent \in SUBSET InDispatch /\ IsFiniteSet(InDispatch)
      BY DEF Unsent, InDispatch, Waiting, Kempt, Bounded
    <3> QED
      BY <3>1, FS_Subset
  <2>3. Len(turns) + Cardinality(Unsent) <= MaxTurns /\ Cardinality(Unsent) \in Nat
    BY <2>2, FS_CardinalityType DEF Kempt, Bounded
  <2>4. Cardinality({}) = 0 /\ IsFiniteSet({})
    BY FS_EmptySet
  <2>5. Len(turns) \in Nat /\ MaxTurns \in Nat
    BY Known0, LimitsAssumption
  <2> QED
    BY <1>1, <2>1, <2>3, <2>4, <2>5 DEF Bounded
<1>7. HeldTyped' /\ Resuming'
  BY <1>1 DEF HeldTyped, Resuming
<1> QED
  BY <1>1, <1>4, <1>5, <1>6, <1>7 DEF Kempt

-----------------------------------------------------------------------------
(* The theorem.                                                            *)

LEMMA InitKempt == Init => Kempt
<1> SUFFICES ASSUME Init PROVE Kempt
  OBVIOUS
<1>1. Orderly
  BY InitOrderly
<1>2. /\ older = {} /\ tombs = <<>> /\ thread = {} /\ loaded = {} /\ held = {} /\ forgot = {}
      /\ turns = <<>> /\ disk.runs = runs /\ disk.older = older /\ disk.tombs = tombs /\ disk.thread = thread
      /\ \A k \in Keys : runs[k].st = "none" /\ start[k] = "none"
  BY DEF Init, Image, NewRun
<1>3. KeptIn(runs) = {} /\ InDispatch = {} /\ Unsent = {}
  BY <1>2 DEF KeptIn, InDispatch, Unsent, Waiting
<1>4. IsFiniteSet({}) /\ Cardinality({}) = 0
  BY FS_EmptySet
<1>5. Sound(runs, older, tombs, thread)
  <2>1. InOrder(older, KeptIn(runs))
    BY <1>2, <1>3 DEF InOrder
  <2>2. tombs \in Seq(Keys) /\ Len(tombs) = 0
    BY <1>2
  <2> QED
    BY <1>2, <1>3, <1>4, <2>1, <2>2, LimitsAssumption DEF Sound
<1>6. Bounded
  BY <1>2, <1>3, <1>4, LimitsAssumption DEF Bounded
<1>7. HeldTyped /\ Resuming
  BY <1>2 DEF HeldTyped, Resuming
<1> QED
  BY <1>1, <1>2, <1>5, <1>6, <1>7 DEF Kempt

LEMMA NextKempt == ASSUME Kempt, [Next]_vars PROVE Kempt'
<1>0. Orderly'
  BY NextOrderly DEF Kempt
<1>1. ASSUME NEW k \in Keys, Submit(k) \/ Stop(k) \/ DispatchStep(k)
      PROVE  Kempt'
  BY <1>0, <1>1, RegularKempt, SubmitKempt, SendKempt, StopRegular, QuietRegular, BindRegular, RecordRegular,
     ConcludeRegular DEF DispatchStep
<1>2. ASSUME NEW k \in Keys, NEW i \in runs[k].asks, Approve(k, i)
      PROVE  Kempt'
  BY <1>0, <1>2, RegularKempt, ApproveRegular
<1>3. CASE Persisted \/ Receive \/ Exits
  BY <1>0, <1>3, RegularKempt, PersistedRegular, ReceiveRegular, ExitsRegular
<1>4. ASSUME NEW i \in 1 .. Len(turns), TurnStep(i) \/ \E what \in Requests : TurnAsks(i, what)
      PROVE  Kempt'
  BY <1>0, <1>4, RegularKempt, TurnRegular
<1>5. CASE Restart
  BY <1>0, <1>5, RestartKempt
<1>6. ASSUME NEW h \in held, ReplyStep(h)
      PROVE  Kempt'
  BY <1>0, <1>5, <1>6, RegularKempt, ReplyRegular DEF ReplyStep, QuestionKills
<1>7. CASE UNCHANGED vars
  <2>1. Regular
    BY <1>7, NativeRegular DEF vars, memory, native
  <2> QED
    BY <1>0, <2>1, RegularKempt
<1> QED
  BY <1>1, <1>2, <1>3, <1>4, <1>5, <1>6, <1>7 DEF Next, Crash

\* The records the bridge keeps are in one order, the order of their latest news, and never more
\* than the limit; no key is both kept and remembered as no longer kept, and no more keys are
\* remembered than the limit, through every submission, prune and restart (runtime.mjs: submit,
\* pruneTerminalRuns, pruneRunTombstones, initialize); the other variables have their types.
THEOREM RecordsAreKept == Spec => []TypeOK
<1>1. Spec => []Kempt
  <2>1. Kempt /\ [Next]_vars => Kempt'
    BY NextKempt
  <2> QED
    BY <2>1, InitKempt, PTL DEF Spec
<1>2. ASSUME Kempt PROVE TypeOK
  <2>0. KeptIn(runs) = Kept /\ Sound(runs, older, tombs, thread)
    BY <1>2 DEF KeptIn, Kept, Kempt
  <2>1. Len(turns) <= MaxTurns /\ Len(turns) \in Nat /\ MaxTurns \in Nat
    <3>1. Unsent \in SUBSET InDispatch /\ IsFiniteSet(InDispatch)
      BY <1>2 DEF Unsent, InDispatch, Waiting, Kempt, Bounded
    <3>2. Cardinality(Unsent) \in Nat
      BY <3>1, FS_Subset, FS_CardinalityType
    <3> QED
      BY <1>2, <3>2, Known0, LimitsAssumption DEF Kempt, Bounded
  <2>2. \A i \in Ids : i \in TurnIds
    BY <2>1 DEF Ids, TurnIds
  <2>3. runs \in [Keys -> Runs]
    <3>1. ASSUME NEW r \in Records(Len(turns)) PROVE r \in Runs
      BY <2>2 DEF Records, Runs, Statuses, Ids
    <3> QED
      BY <1>2, <3>1, Known0
  <2>4. held \subseteq [turn : TurnIds, run : Keys, what : {"tool", "question"}]
    <3>1. ASSUME NEW h \in held PROVE h \in [turn : TurnIds, run : Keys, what : {"tool", "question"}]
      <4>1. h \in [turn : Ids, run : Keys, what : {"tool", "question"}]
        BY <1>2 DEF Kempt, HeldTyped
      <4> QED
        BY <2>2, <4>1
    <3> QED
      BY <3>1
  <2>5. {tombs[n] : n \in 1..Len(tombs)} \subseteq Keys \ Kept /\ Len(tombs) <= MaxTombstones
    BY <2>0 DEF Sound
  <2>6. start \in [Keys -> {"none", "created", "thread", "resume", "bind", "binding", "bound", "turn",
                            "answered", "failing", "cancelling"}]
    BY <1>2, Known0 DEF Stages
  <2> QED
    BY <1>2, <2>0, <2>1, <2>3, <2>4, <2>5, <2>6, Known0 DEF TypeOK, Sound, Kempt, Typing
<1> QED
  BY <1>1, <1>2, PTL
-----------------------------------------------------------------------------
(* The bridge is a runtime.  Its file tells one of every key, its memory   *)
(* another that is at most one step further.                               *)

View(rs, ts) == [k \in Keys |-> Standing(rs, ts, k)]
Now  == View(runs, tombs)
File == View(disk.runs, disk.tombs)

Busied == Promised!AtWork
Gone   == Promised!Over
Held(e)   == {k \in Keys : e[k] \in Busied \cup Gone}
Denied(e) == {k \in Keys : e[k] = "expired"}

\* A step of the runtime from e to f.
TakesOn(e, f, k) ==
    /\ e[k] = "unknown"
    /\ \A l \in Keys : SessionOf[l] = SessionOf[k] => e[l] \notin Busied
    /\ \/ Cardinality(Held(e)) < MaxRetained /\ f = [e EXCEPT ![k] = "active"]
       \/ /\ Cardinality(Held(e)) >= MaxRetained
          /\ \E j \in Keys :
               /\ e[j] \in Gone
               /\ \/ /\ Cardinality(Denied(e)) < MaxTombstones
                     /\ f = [e EXCEPT ![k] = "active", ![j] = "expired"]
                  \/ /\ ~(Cardinality(Denied(e)) < MaxTombstones)
                     /\ \E l \in Denied(e) : f = [[e EXCEPT ![k] = "active", ![j] = "expired"] EXCEPT ![l] = "unknown"]
GoesFor(e, f, k) == e[k] \in Busied /\ \E how \in Gone \cup {"halting"} : f = [e EXCEPT ![k] = how]
Fails(e) == [k \in Keys |-> IF e[k] \in Busied THEN "failed" ELSE e[k]]
Goes(e, f) ==
    \/ f = e
    \/ \E k \in Keys : TakesOn(e, f, k) \/ GoesFor(e, f, k)
    \/ f = Fails(e)

\* No key is remembered twice.
Distinct(ts) == \A m, n \in 1 .. Len(ts) : ts[m] = ts[n] => m = n

Ahead ==
    /\ ~writing => disk.tombs = tombs
    /\ Goes(File, Now)
    /\ Distinct(tombs) /\ Distinct(disk.tombs)

Promise == Kempt /\ Ahead

LEMMA SameCount == \A S : Promised!Cardinality(S) = Cardinality(S)
  BY DEF Promised!Cardinality, Cardinality

LEMMA GoesIsNext ==
    ASSUME Goes(File, File')
    PROVE  [Promised!Next]_([k \in Keys |-> Standing(disk.runs, disk.tombs, k)])
<1> DEFINE e == [k \in Keys |-> Standing(disk.runs, disk.tombs, k)]
<1>1. File = e /\ File' = e'
  BY DEF File, View
<1>2. ASSUME NEW k \in Keys, TakesOn(e, e', k)
      PROVE  Promised!Next
  <2>1. Promised!MayTakeOn(k) /\ Held(e) = Promised!KeptKeys /\ Denied(e) = Promised!Refused
    BY <1>2 DEF TakesOn, Promised!MayTakeOn, Held, Denied, Promised!KeptKeys, Promised!Refused, Busied, Gone
  <2>2. CASE Cardinality(Held(e)) < MaxRetained /\ e' = [e EXCEPT ![k] = "active"]
    <3>1. Promised!TakeOn(k)
      BY <2>1, <2>2, SameCount DEF Promised!TakeOn
    <3> QED
      BY <3>1 DEF Promised!Next
  <2>3. ASSUME NEW j \in Keys, e[j] \in Gone, Cardinality(Held(e)) >= MaxRetained,
               \/ /\ Cardinality(Denied(e)) < MaxTombstones
                  /\ e' = [e EXCEPT ![k] = "active", ![j] = "expired"]
               \/ /\ ~(Cardinality(Denied(e)) < MaxTombstones)
                  /\ \E l \in Denied(e) : e' = [[e EXCEPT ![k] = "active", ![j] = "expired"] EXCEPT ![l] = "unknown"]
        PROVE  Promised!Next
    <3>1. Promised!TakeOnFor(k, j)
      BY <2>1, <2>3, SameCount DEF Promised!TakeOnFor, Gone
    <3> QED
      BY <3>1 DEF Promised!Next
  <2> QED
    BY <1>2, <2>2, <2>3 DEF TakesOn
<1>3. ASSUME NEW k \in Keys, GoesFor(e, e', k)
      PROVE  Promised!Next
  <2>1. PICK how \in Gone \cup {"halting"} : e' = [e EXCEPT ![k] = how]
    BY <1>3 DEF GoesFor
  <2>2. e[k] \in Promised!AtWork
    BY <1>3 DEF GoesFor, Busied
  <2>3. Promised!AskStop(k) \/ \E x \in Promised!Over : Promised!End(k, x)
    BY <2>1, <2>2 DEF Promised!AskStop, Promised!End, Gone
  <2> QED
    BY <2>3 DEF Promised!Next
<1>4. ASSUME e' = Fails(e)
      PROVE  Promised!Next
  BY <1>4 DEF Fails, Promised!Next, Promised!Fail, Busied
<1> HIDE DEF e
<1> QED
  BY <1>1, <1>2, <1>3, <1>4 DEF Goes, e

-----------------------------------------------------------------------------
(* What is told of a record.                                               *)

\* The statuses, told of a record that is there.
LEMMA StandsAs ==
    ASSUME NEW rs, NEW ts, NEW k \in Keys, rs[k].st \in Statuses
    PROVE  /\ rs[k].st \in Work => Standing(rs, ts, k) \in Busied
           /\ rs[k].st \in Work /\ rs[k].stop => Standing(rs, ts, k) = "halting"
           /\ rs[k].st \in Work /\ ~rs[k].stop => Standing(rs, ts, k) = "active"
           /\ rs[k].st \in Ended => Standing(rs, ts, k) = rs[k].st /\ Standing(rs, ts, k) \in Gone
           /\ rs[k].st = "none" => /\ Standing(rs, ts, k) \notin Busied \cup Gone
                                   /\ Standing(rs, ts, k) = "expired" <=> \E n \in 1 .. Len(ts) : ts[n] = k
                                   /\ Standing(rs, ts, k) = "unknown" <=> \A n \in 1 .. Len(ts) : ts[n] # k
           /\ Standing(rs, ts, k) \in Busied <=> rs[k].st \in Work
           /\ Standing(rs, ts, k) \in Gone <=> rs[k].st \in Ended
           /\ Standing(rs, ts, k) = "expired" => rs[k].st = "none"
<1>1. CASE rs[k].st \in Work
  <2>1. Standing(rs, ts, k) = (IF rs[k].stop THEN "halting" ELSE "active") /\ rs[k].st \notin Ended /\ rs[k].st # "none"
    BY <1>1 DEF Standing, Work, Ended
  <2> QED
    BY <1>1, <2>1 DEF Busied, Gone, Promised!AtWork, Promised!Over
<1>2. CASE rs[k].st \in Ended
  <2>1. Standing(rs, ts, k) = rs[k].st /\ rs[k].st \notin Work /\ rs[k].st # "none"
    BY <1>2 DEF Standing, Work, Ended
  <2> QED
    BY <1>2, <2>1 DEF Ended, Busied, Gone, Promised!AtWork, Promised!Over
<1>3. CASE rs[k].st = "none"
  <2>1. /\ Standing(rs, ts, k) = IF \E n \in 1 .. Len(ts) : ts[n] = k THEN "expired" ELSE "unknown"
        /\ rs[k].st \notin Work /\ rs[k].st \notin Ended
    BY <1>3 DEF Standing, Work, Ended
  <2> QED
    BY <1>3, <2>1 DEF Busied, Gone, Promised!AtWork, Promised!Over
<1> QED
  BY <1>1, <1>2, <1>3 DEF Statuses, Work, Ended

LEMMA NowTyped ==
    ASSUME Kempt
    PROVE  /\ \A k \in Keys : runs[k].st \in Statuses /\ disk.runs[k].st \in Statuses /\ runs[k].stop \in BOOLEAN
           /\ \A k \in Keys : Now[k] = Standing(runs, tombs, k) /\ File[k] = Standing(disk.runs, disk.tombs, k)
  BY Known0 DEF Typing, Records, Now, File, View

\* One record changes: it keeps what is told of it, is asked to stop, or ends.
LEMMA OneStands ==
    ASSUME Kempt, UNCHANGED tombs, NEW k \in Keys, NEW r, runs' = [runs EXCEPT ![k] = r],
           \/ r.st = runs[k].st /\ r.stop = runs[k].stop
           \/ runs[k].st \in Work /\ r.st \in Work /\ r.stop \in BOOLEAN /\ (runs[k].stop => r.stop)
           \/ runs[k].st \in Work /\ r.st \in Ended
    PROVE  Goes(Now, Now')
<1>1. runs'[k] = r /\ \A l \in Keys \ {k} : runs'[l] = runs[l]
  BY Known0
<1>2. Now' = [Now EXCEPT ![k] = Standing(runs', tombs, k)]
  <2>1. /\ Now = [l \in Keys |-> Standing(runs, tombs, l)]
        /\ Now' = [l \in Keys |-> Standing(runs', tombs, l)]
    BY DEF Now, View
  <2>2. \A l \in Keys \ {k} : Standing(runs', tombs, l) = Standing(runs, tombs, l)
    BY <1>1 DEF Standing
  <2> QED
    BY <2>1, <2>2
<1>3. runs[k].st \in Statuses /\ Now[k] = Standing(runs, tombs, k) /\ runs[k].stop \in BOOLEAN
  BY NowTyped
<1>4. CASE Standing(runs', tombs, k) = Standing(runs, tombs, k)
  BY <1>2, <1>3, <1>4 DEF Goes, Now, View
<1>5. CASE Now[k] \in Busied /\ Standing(runs', tombs, k) \in Gone \cup {"halting"}
  BY <1>2, <1>5 DEF Goes, GoesFor
<1>6. CASE r.st = runs[k].st /\ r.stop = runs[k].stop
  BY <1>1, <1>4, <1>6 DEF Standing
<1>7. CASE runs[k].st \in Work /\ r.st \in Work /\ r.stop \in BOOLEAN /\ (runs[k].stop => r.stop)
  <2>1. Now[k] \in Busied /\ r.st \in Statuses
    BY <1>3, <1>7, StandsAs DEF Statuses
  <2>2. Standing(runs', tombs, k) = "halting" \/ (~r.stop /\ Standing(runs', tombs, k) = "active")
    BY <1>1, <1>7, <2>1, StandsAs
  <2>3. ~r.stop => Standing(runs, tombs, k) = "active"
    BY <1>3, <1>7, StandsAs
  <2> QED
    BY <1>4, <1>5, <2>1, <2>2, <2>3
<1>8. CASE runs[k].st \in Work /\ r.st \in Ended
  <2>1. Now[k] \in Busied /\ r.st \in Statuses
    BY <1>3, <1>8, StandsAs DEF Statuses
  <2>2. Standing(runs', tombs, k) \in Gone
    BY <1>1, <1>8, <2>1, StandsAs
  <2> QED
    BY <1>5, <2>1, <2>2
<1> QED
  BY <1>6, <1>7, <1>8
\* Nothing that is told changes.
LEMMA SameStands ==
    ASSUME UNCHANGED <<runs, tombs>>
    PROVE  Now' = Now
  BY DEF Now, View, Standing

\* The step changes the memory alone, and by a step of the runtime.
Tells ==
    /\ disk' = disk
    /\ \/ UNCHANGED <<runs, tombs>> /\ (~writing' => ~writing)
       \/ ~writing /\ writing' /\ Goes(Now, Now') /\ (Distinct(tombs) => Distinct(tombs'))

LEMMA TellsAhead ==
    ASSUME Promise, Tells
    PROVE  Ahead' /\ Goes(File, File')
<1>1. File' = File /\ disk'.tombs = disk.tombs
  BY DEF Tells, File, View, Standing
<1>2. CASE UNCHANGED <<runs, tombs>> /\ (~writing' => ~writing)
  BY <1>1, <1>2, SameStands DEF Ahead, Promise, Distinct, Goes
<1>3. CASE ~writing /\ writing' /\ Goes(Now, Now') /\ (Distinct(tombs) => Distinct(tombs'))
  <2>1. disk.runs = runs /\ disk.tombs = tombs
    BY <1>3, Known0 DEF Promise, Ahead, Filed, Inv
  <2>2. File' = Now
    BY <1>1, <2>1 DEF File, Now
  <2> QED
    BY <1>1, <1>3, <2>1, <2>2 DEF Ahead, Promise, Distinct, Goes
<1> QED
  BY <1>2, <1>3 DEF Tells
-----------------------------------------------------------------------------
(* A run is taken on.                                                      *)

\* Without repetitions, a sequence has as many members as places.
LEMMA Counting ==
    ASSUME NEW ts \in Seq(Keys), Distinct(ts), NEW S,
           \A k \in Keys : k \in S <=> \E n \in 1 .. Len(ts) : ts[n] = k, S \subseteq Keys
    PROVE  IsFiniteSet(S) /\ Cardinality(S) = Len(ts)
<1>1. Len(ts) \in Nat /\ ts \in [1 .. Len(ts) -> S]
  OBVIOUS
<1>2. /\ \A m, n \in 1 .. Len(ts) : ts[m] = ts[n] => m = n
      /\ \A k \in S : \E n \in 1 .. Len(ts) : ts[n] = k
  BY DEF Distinct
<1>3. ts \in Bijection(1 .. Len(ts), S)
  BY <1>1, <1>2 DEF Bijection, Injection, Surjection, IsInjective
<1>4. ExistsBijection(1 .. Len(ts), S)
  BY <1>3 DEF ExistsBijection
<1>5. Cardinality(S) = Len(ts)
  BY <1>1, <1>4, FS_CountingElements
<1>6. IsFiniteSet(1 .. Len(ts))
  BY <1>1, FS_Interval, 1 \in Int, Len(ts) \in Int
<1> QED
  BY <1>4, <1>5, <1>6, FS_Bijection

\* A key nothing is known of, in a free session, as the runtime sees it.
LEMMA Free ==
    ASSUME Kempt, Distinct(tombs), NEW k \in Keys, ~Known(k), ~Busy(SessionOf[k])
    PROVE  /\ Now[k] = "unknown" /\ \A l \in Keys : SessionOf[l] = SessionOf[k] => Now[l] \notin Busied
           /\ Held(Now) = Kept
           /\ \A l \in Keys : l \in Denied(Now) <=> \E n \in 1 .. Len(tombs) : tombs[n] = l
           /\ Cardinality(Denied(Now)) = Len(tombs)
<1>1. \A l \in Keys : runs[l].st \in Statuses /\ Now[l] = Standing(runs, tombs, l)
  BY NowTyped
<1>2. Now[k] = "unknown"
  BY <1>1, StandsAs DEF Known
<1>3. \A l \in Keys : SessionOf[l] = SessionOf[k] => Now[l] \notin Busied
  BY <1>1, StandsAs DEF Busy, InSession, Active
<1>4. \A l \in Keys : Now[l] \in Busied \cup Gone <=> runs[l].st # "none"
  BY <1>1, StandsAs DEF Statuses
<1>5. Held(Now) = Kept
  BY <1>4 DEF Held, Kept
<1>6. /\ tombs \in Seq(Keys) /\ \A n \in 1 .. Len(tombs) : tombs[n] \in Keys /\ runs[tombs[n]].st = "none"
  BY DEF Kempt, Sound, KeptIn
<1>7. \A l \in Keys : l \in Denied(Now) <=> \E n \in 1 .. Len(tombs) : tombs[n] = l
  BY <1>1, <1>6, StandsAs DEF Denied
<1>8. Denied(Now) \subseteq Keys
  BY DEF Denied
<1>9. Cardinality(Denied(Now)) = Len(tombs)
  BY <1>6, <1>7, <1>8, Counting
<1> QED
  BY <1>2, <1>3, <1>5, <1>7, <1>9

LEMMA AddsGoes ==
    ASSUME Kempt, Distinct(tombs), NEW k \in Keys, ~Known(k), ~Busy(SessionOf[k]), ~Full, Adds(k)
    PROVE  Goes(Now, Now') /\ Distinct(tombs')
<1>1. tombs' = tombs /\ runs'[k] = Queued /\ \A l \in Keys \ {k} : runs'[l] = runs[l]
  BY Known0 DEF Adds
<1>2. Queued.st = "queued" /\ ~Queued.stop
  BY Known0, FreshTyped
<1>3. Standing(runs', tombs, k) = "active"
  BY <1>1, <1>2 DEF Standing, Work, Ended
<1>4. Now' = [Now EXCEPT ![k] = "active"]
  <2>1. /\ Now = [l \in Keys |-> Standing(runs, tombs, l)]
        /\ Now' = [l \in Keys |-> Standing(runs', tombs, l)]
    BY <1>1 DEF Now, View
  <2>2. \A l \in Keys \ {k} : Standing(runs', tombs, l) = Standing(runs, tombs, l)
    BY <1>1 DEF Standing
  <2> QED
    BY <1>3, <2>1, <2>2
<1>5. Cardinality(Kept) < MaxRetained
  <2>1. IsFiniteSet(Kept)
    BY DEF Kempt, Sound, KeptIn, Kept
  <2> QED
    BY <2>1, FS_CardinalityType, LimitsAssumption DEF Full
<1>6. TakesOn(Now, Now', k)
  BY <1>4, <1>5, Free DEF TakesOn
<1> QED
  BY <1>1, <1>6 DEF Goes, Distinct

\* The tombstones after a record is dropped: the new one, and the old ones but for the oldest if
\* there would be too many.
LEMMA TombsAfter ==
    ASSUME Kempt, Distinct(tombs), NEW j \in Kept, NEW k \in Keys, Replaces(j, k)
    PROVE  /\ Distinct(tombs')
           /\ Len(tombs) < MaxTombstones =>
                 \A l \in Keys : (\E n \in 1 .. Len(tombs') : tombs'[n] = l)
                                     <=> l = j \/ \E n \in 1 .. Len(tombs) : tombs[n] = l
           /\ ~(Len(tombs) < MaxTombstones) =>
                 /\ 1 \in 1 .. Len(tombs)
                 /\ \A l \in Keys : (\E n \in 1 .. Len(tombs') : tombs'[n] = l)
                                     <=> l = j \/ (l # tombs[1] /\ \E n \in 1 .. Len(tombs) : tombs[n] = l)
<1>1. /\ tombs \in Seq(Keys) /\ Len(tombs) \in Nat /\ MaxTombstones \in Nat \ {0}
      /\ \A n \in 1 .. Len(tombs) : tombs[n] \notin Kept
  BY LimitsAssumption DEF Kempt, Sound, KeptIn, Kept
<1>2. PICK all : all = Append(tombs, j)
  OBVIOUS
<1>3. /\ all \in Seq(Keys) /\ Len(all) = Len(tombs) + 1 /\ all[Len(tombs) + 1] = j
      /\ \A n \in 1 .. Len(tombs) : all[n] = tombs[n]
  BY <1>1, <1>2 DEF Kept
<1>4. tombs' = IF Len(all) > MaxTombstones THEN Tail(all) ELSE all
  BY <1>2 DEF Replaces
<1>5. \A n \in 1 .. Len(all) : n \in 1 .. Len(tombs) \/ n = Len(tombs) + 1
  BY <1>1, <1>3
<1>6. Distinct(all)
  BY <1>1, <1>3, <1>5 DEF Distinct
<1>7. CASE Len(tombs) < MaxTombstones
  <2>1. tombs' = all
    BY <1>1, <1>3, <1>4, <1>7
  <2>2. Len(tombs) + 1 \in 1 .. Len(all) /\ \A n \in 1 .. Len(tombs) : n \in 1 .. Len(all)
    BY <1>1, <1>3
  <2>3. \A l \in Keys : (\E n \in 1 .. Len(all) : all[n] = l)
                            <=> l = j \/ \E n \in 1 .. Len(tombs) : tombs[n] = l
    BY <1>3, <1>5, <2>2
  <2> QED
    BY <1>6, <1>7, <2>1, <2>3
<1>8. CASE ~(Len(tombs) < MaxTombstones)
  <2>1. tombs' = Tail(all) /\ all # <<>> /\ 1 \in 1 .. Len(tombs)
    BY <1>1, <1>3, <1>4, <1>8
  <2>2. Len(tombs') = Len(tombs) /\ \A n \in 1 .. Len(tombs) : tombs'[n] = all[n + 1] /\ n + 1 \in 1 .. Len(all)
    BY <1>1, <1>3, <2>1
  <2>3. Distinct(tombs')
    BY <1>1, <1>6, <2>2 DEF Distinct
  <2>4. ASSUME NEW l \in Keys
        PROVE  (\E n \in 1 .. Len(tombs) : tombs'[n] = l)
                   <=> l = j \/ (l # tombs[1] /\ \E n \in 1 .. Len(tombs) : tombs[n] = l)
    <3>1. ASSUME NEW n \in 1 .. Len(tombs), tombs'[n] = l
          PROVE  l = j \/ (l # tombs[1] /\ \E m \in 1 .. Len(tombs) : tombs[m] = l)
      <4>1. all[n + 1] = l /\ n + 1 \in 1 .. Len(all) /\ n + 1 # 1 /\ 1 \in 1 .. Len(all) /\ all[1] = tombs[1]
        BY <1>1, <1>3, <2>1, <2>2, <3>1
      <4>2. l # tombs[1]
        BY <1>6, <4>1 DEF Distinct
      <4> QED
        BY <1>3, <1>5, <4>1, <4>2
    <3>2. ASSUME l = j
          PROVE  \E n \in 1 .. Len(tombs) : tombs'[n] = l
      <4>1. Len(tombs) \in 1 .. Len(tombs) /\ tombs'[Len(tombs)] = all[Len(tombs) + 1]
        BY <1>1, <2>1, <2>2
      <4> QED
        BY <1>3, <3>2, <4>1
    <3>3. ASSUME l # tombs[1], NEW n \in 1 .. Len(tombs), tombs[n] = l
          PROVE  \E m \in 1 .. Len(tombs) : tombs'[m] = l
      <4>1. n # 1
        BY <3>3
      <4>2. PICK m \in 1 .. Len(tombs) : m + 1 = n
        <5>1. n - 1 \in 1 .. Len(tombs) /\ (n - 1) + 1 = n
          BY <1>1, <4>1
        <5> QED
          BY <5>1
      <4>3. tombs'[m] = l
        BY <1>3, <2>2, <3>3, <4>2
      <4> QED
        BY <4>3
    <3> QED
      BY <3>1, <3>2, <3>3
  <2> QED
    BY <1>8, <2>1, <2>2, <2>3, <2>4
<1> QED
  BY <1>7, <1>8
LEMMA ReplacesGoes ==
    ASSUME Kempt, Distinct(tombs), NEW k \in Keys, ~Known(k), ~Busy(SessionOf[k]), Full,
           NEW j \in Keys, Oldest(j), Replaces(j, k)
    PROVE  Goes(Now, Now') /\ Distinct(tombs')
<1>1. k \notin Kept /\ (\A n \in 1 .. Len(tombs) : tombs[n] # k) /\ j \in Kept /\ j # k
  BY DEF Known, Kept, Oldest
<1>2. /\ runs'[k] = Queued /\ runs'[j] = Dropped(j) /\ \A l \in Keys \ {j, k} : runs'[l] = runs[l]
      /\ Queued.st = "queued" /\ ~Queued.stop /\ Dropped(j).st = "none"
  BY <1>1, Known0, FreshTyped DEF Replaces
<1>3. \A l \in Keys : runs[l].st \in Statuses /\ Now[l] = Standing(runs, tombs, l)
  BY NowTyped
<1>4. Now[j] \in Gone
  BY <1>1, <1>3, StandsAs DEF Oldest, Active, Kept, Statuses
<1>5. Standing(runs', tombs', k) = "active"
  BY <1>2 DEF Standing, Work, Ended
<1>6. (\E n \in 1 .. Len(tombs') : tombs'[n] = j) => Standing(runs', tombs', j) = "expired"
  BY <1>2 DEF Standing, Work, Ended
<1>7. /\ Now[k] = "unknown" /\ \A l \in Keys : SessionOf[l] = SessionOf[k] => Now[l] \notin Busied
      /\ Held(Now) = Kept /\ Cardinality(Denied(Now)) = Len(tombs)
      /\ \A l \in Keys : l \in Denied(Now) <=> \E n \in 1 .. Len(tombs) : tombs[n] = l
  BY Free
<1>8. Cardinality(Held(Now)) >= MaxRetained
  BY <1>7 DEF Full
<1>9. /\ Distinct(tombs')
      /\ Len(tombs) < MaxTombstones =>
            \A l \in Keys : (\E n \in 1 .. Len(tombs') : tombs'[n] = l)
                                <=> l = j \/ \E n \in 1 .. Len(tombs) : tombs[n] = l
      /\ ~(Len(tombs) < MaxTombstones) =>
            /\ 1 \in 1 .. Len(tombs)
            /\ \A l \in Keys : (\E n \in 1 .. Len(tombs') : tombs'[n] = l)
                                <=> l = j \/ (l # tombs[1] /\ \E n \in 1 .. Len(tombs) : tombs[n] = l)
  BY <1>1, TombsAfter
<1>10. ASSUME NEW l \in Keys \ {j, k}, (\E n \in 1 .. Len(tombs') : tombs'[n] = l)
                                           <=> \E n \in 1 .. Len(tombs) : tombs[n] = l
       PROVE  Now'[l] = Now[l]
  BY <1>2, <1>10 DEF Now, View, Standing
<1>11. Now'[k] = "active" /\ ((\E n \in 1 .. Len(tombs') : tombs'[n] = j) => Now'[j] = "expired")
  BY <1>5, <1>6 DEF Now, View
<1>12. Now \in [Keys -> {Now[l] : l \in Keys}] /\ DOMAIN Now' = Keys /\ DOMAIN Now = Keys
  BY DEF Now, View
<1>13. CASE Len(tombs) < MaxTombstones
  <2>1. \A l \in Keys \ {j, k} : Now'[l] = Now[l]
    BY <1>9, <1>10, <1>13
  <2>2. Now'[j] = "expired"
    BY <1>9, <1>11, <1>13
  <2>3. Now' = [Now EXCEPT ![k] = "active", ![j] = "expired"]
    <3>1. PICK g : g = [Now EXCEPT ![k] = "active", ![j] = "expired"]
      OBVIOUS
    <3>2. /\ g = [l \in Keys |-> g[l]] /\ g[j] = "expired" /\ g[k] = "active"
          /\ \A l \in Keys \ {j, k} : g[l] = Now[l]
      BY <1>1, <1>12, <3>1
    <3>3. Now' = [l \in Keys |-> Now'[l]]
      BY DEF Now, View
    <3> QED
      BY <1>11, <2>1, <2>2, <3>1, <3>2, <3>3
  <2>4. Cardinality(Denied(Now)) < MaxTombstones
    BY <1>7, <1>13
  <2>5. TakesOn(Now, Now', k)
    BY <1>4, <1>7, <1>8, <2>3, <2>4 DEF TakesOn
  <2> QED
    BY <1>9, <2>5 DEF Goes
<1>14. CASE ~(Len(tombs) < MaxTombstones)
  <2>1. PICK h \in Denied(Now) : h = tombs[1]
    <3>1. tombs[1] \in Keys
      BY <1>9, <1>14 DEF Kempt, Sound
    <3> QED
      BY <1>7, <1>9, <1>14, <3>1
  <2>2. h \in Keys /\ h # k /\ h # j
    BY <1>4, <1>7, <2>1 DEF Denied, Gone, Promised!Over
  <2>3. \A l \in Keys \ {j, k, h} : Now'[l] = Now[l]
    BY <1>9, <1>10, <1>14, <2>1
  <2>4. Now'[j] = "expired"
    BY <1>9, <1>11, <1>14
  <2>5. Now'[h] = "unknown"
    <3>1. runs[h].st = "none" /\ runs'[h] = runs[h]
      BY <1>2, <1>3, <2>1, <2>2, StandsAs DEF Denied
    <3>2. ~\E n \in 1 .. Len(tombs') : tombs'[n] = h
      BY <1>9, <1>14, <2>1, <2>2
    <3>3. Standing(runs', tombs', h) = "unknown"
      BY <3>1, <3>2 DEF Standing, Work, Ended
    <3> QED
      BY <2>2, <3>3 DEF Now, View
  <2>6. Now' = [[Now EXCEPT ![k] = "active", ![j] = "expired"] EXCEPT ![h] = "unknown"]
    <3>1. PICK g : g = [Now EXCEPT ![k] = "active", ![j] = "expired"]
      OBVIOUS
    <3>2. /\ g = [l \in Keys |-> g[l]] /\ g[j] = "expired" /\ g[k] = "active"
          /\ \A l \in Keys \ {j, k} : g[l] = Now[l]
      BY <1>1, <1>12, <3>1
    <3>3. PICK f : f = [g EXCEPT ![h] = "unknown"]
      OBVIOUS
    <3>4. /\ f = [l \in Keys |-> f[l]] /\ f[h] = "unknown"
          /\ \A l \in Keys \ {h} : f[l] = g[l]
      BY <2>2, <3>2, <3>3
    <3>5. Now' = [l \in Keys |-> Now'[l]]
      BY DEF Now, View
    <3>6. \A l \in Keys : Now'[l] = f[l]
      BY <1>11, <2>2, <2>3, <2>4, <2>5, <3>2, <3>4
    <3>7. Now' = f
      BY <3>4, <3>5, <3>6
    <3> QED
      BY <3>1, <3>3, <3>7
  <2>7. ~(Cardinality(Denied(Now)) < MaxTombstones)
    BY <1>7, <1>14
  <2>8. TakesOn(Now, Now', k)
    BY <1>4, <1>7, <1>8, <2>1, <2>6, <2>7 DEF TakesOn
  <2> QED
    BY <1>9, <2>8 DEF Goes
<1> QED
  BY <1>13, <1>14

LEMMA SubmitTells ==
    ASSUME Promise, NEW k \in Keys, Submit(k)
    PROVE  Tells
<1>1. /\ ~writing /\ writing' /\ disk' = disk /\ ~Known(k) /\ ~Busy(SessionOf[k])
      /\ (~Full /\ Adds(k)) \/ (Full /\ \E j \in Keys : Oldest(j) /\ Replaces(j, k))
  BY DEF Submit, Idle, Write
<1>2. Kempt /\ Distinct(tombs)
  BY DEF Promise, Ahead
<1>3. Goes(Now, Now') /\ Distinct(tombs')
  BY <1>1, <1>2, AddsGoes, ReplacesGoes
<1> QED
  BY <1>1, <1>3 DEF Tells

-----------------------------------------------------------------------------
(* The other steps.                                                        *)

\* An item that writes one record, as OneStands says, or nothing.
LEMMA OneTells ==
    ASSUME Promise, Idle, Write, UNCHANGED tombs, NEW k \in Keys, NEW r, runs' = [runs EXCEPT ![k] = r],
           \/ r.st = runs[k].st /\ r.stop = runs[k].stop
           \/ runs[k].st \in Work /\ r.st \in Work /\ r.stop \in BOOLEAN /\ (runs[k].stop => r.stop)
           \/ runs[k].st \in Work /\ r.st \in Ended
    PROVE  Tells
<1>1. Goes(Now, Now')
  BY OneStands DEF Promise
<1> QED
  BY <1>1 DEF Tells, Idle, Write, Distinct

LEMMA NoneTells ==
    ASSUME UNCHANGED <<runs, tombs>>, (Idle /\ (Write \/ NoWrite)) \/ UNCHANGED <<disk, writing>>
    PROVE  Tells
  BY DEF Tells, Idle, Write, NoWrite

LEMMA FinishTells ==
    ASSUME Promise, Idle, NEW k \in Keys, NEW st \in Ended, NEW i, Finish(k, st, i), UNCHANGED tombs
    PROVE  Tells
<1>1. CASE Active(k) /\ runs' = [runs EXCEPT ![k] = EndedAs(k, st, i)] /\ Write
  <2>1. PICK r : r = EndedAs(k, st, i)
    OBVIOUS
  <2>2. r.st = st /\ runs[k].st \in Work
    BY <1>1, <2>1, Known0 DEF EndedAs, Records, Promise, Active
  <2> QED
    BY <1>1, <2>1, <2>2, OneTells
<1>2. CASE UNCHANGED runs /\ NoWrite
  BY <1>2, NoneTells
<1> QED
  BY <1>1, <1>2 DEF Finish

\* A record that is asked to stop.
LEMMA StopTells ==
    ASSUME Promise, Idle, Write, UNCHANGED tombs, NEW k \in Keys, Active(k), runs' = [runs EXCEPT ![k].stop = TRUE]
    PROVE  Tells
<1>1. PICK r : r = [runs[k] EXCEPT !.stop = TRUE]
  OBVIOUS
<1>2. r.st = runs[k].st /\ r.stop = TRUE /\ runs[k].st \in Work
  BY <1>1, Known0 DEF Promise, Records, Active
<1> QED
  BY <1>1, <1>2, OneTells

LEMMA ApproveTells ==
    ASSUME Promise, NEW k \in Keys, NEW i \in runs[k].asks, Approve(k, i)
    PROVE  Tells
<1> DEFINE st == IF runs[k].asks = {i} THEN "running" ELSE "waiting"
<1>1. PICK r : r = [runs[k] EXCEPT !.asks = runs[k].asks \ {i}, !.st = st]
  OBVIOUS
<1>2. /\ Idle /\ Write /\ UNCHANGED tombs /\ runs[k].st \in Work /\ runs' = [runs EXCEPT ![k] = r]
  BY <1>1 DEF Approve, Active
<1>3. r.st \in Work /\ r.stop = runs[k].stop /\ r.stop \in BOOLEAN
  BY <1>1, Known0 DEF Promise, Records, Work
<1> QED
  BY <1>2, <1>3, OneTells

LEMMA DispatchTells ==
    ASSUME Promise, NEW k \in Keys, DispatchStep(k)
    PROVE  Tells
<1>0. runs[k] \in Records(Len(turns)) /\ runs \in [Keys -> Records(Len(turns))]
  BY Known0 DEF Promise
<1>1. CASE ThreadAnswer(k) \/ GivesUp(k) \/ Send(k) \/ TurnAnswer(k)
  <2>1. UNCHANGED <<runs, tombs, disk, writing>>
    BY <1>1 DEF ThreadAnswer, GivesUp, Send, TurnAnswer, memory
  <2> QED
    BY <2>1, NoneTells
<1>2. CASE Bind(k)
  <2>1. PICK r : r = [runs[k] EXCEPT !.bound = TRUE]
    OBVIOUS
  <2>2. /\ Idle /\ Write /\ UNCHANGED tombs /\ runs' = [runs EXCEPT ![k] = r]
        /\ r.st = runs[k].st /\ r.stop = runs[k].stop
    BY <1>0, <1>2, <2>1 DEF Bind, Records
  <2> QED
    BY <2>2, OneTells
<1>3. CASE Record(k)
  <2>1. PICK i : Takes(k, i)
    BY <1>3 DEF Record
  <2>2. Idle /\ UNCHANGED tombs
    BY <1>3 DEF Record
  <2>3. CASE NoWrite /\ UNCHANGED runs
    BY <2>2, <2>3, NoneTells
  <2>4. CASE Write /\ runs' = [runs EXCEPT ![k].turn = i]
    <3>1. PICK r : r = [runs[k] EXCEPT !.turn = i]
      OBVIOUS
    <3>2. runs' = [runs EXCEPT ![k] = r] /\ r.st = runs[k].st /\ r.stop = runs[k].stop
      BY <1>0, <2>4, <3>1 DEF Records
    <3> QED
      BY <2>2, <2>4, <3>2, OneTells
  <2> QED
    BY <2>1, <2>3, <2>4 DEF Takes
<1>4. CASE Conclude(k)
  <2>1. Idle /\ UNCHANGED tombs /\ \E st \in Ended : Finish(k, st, 0)
    BY <1>4 DEF Conclude, Ended
  <2> QED
    BY <2>1, FinishTells
<1> QED
  BY <1>1, <1>2, <1>3, <1>4 DEF DispatchStep
LEMMA ReceiveTells ==
    ASSUME Promise, Receive
    PROVE  Tells
<1>1. PICK m : m = Head(inbox)
  OBVIOUS
<1>2. /\ Idle /\ UNCHANGED tombs
      /\ \/ Closed(m)
         \/ Unmatched(m)
         \/ \E k \in HitBy(m.turn) :
                \/ Started(m, k) \/ Completed(m, k)
                \/ AsksApproval(m, k) \/ AsksTool(m, k) \/ AsksQuestion(m, k) \/ AsksForeign(m, k)
  BY <1>1 DEF Receive
<1>3. CASE Closed(m)
  <2>1. /\ \A k \in Keys : runs[k].st \in Statuses /\ Now[k] = Standing(runs, tombs, k)
        /\ \A k \in Keys : EndedAs(k, "failed", 0).st = "failed"
    BY NowTyped, Known0 DEF EndedAs, Records, Promise
  <2>2. ASSUME NEW k \in Keys
        PROVE  Now'[k] = IF Now[k] \in Busied THEN "failed" ELSE Now[k]
    <3>1. CASE k \in Lost
      <4>1. runs'[k].st = "failed" /\ Now[k] \in Busied
        BY <1>3, <2>1, <3>1, StandsAs DEF Closed, Lost, Active
      <4>2. Now'[k] = "failed"
        BY <4>1 DEF Now, View, Standing, Work, Ended
      <4> QED
        BY <4>1, <4>2
    <3>2. CASE k \notin Lost
      <4>1. runs'[k] = runs[k] /\ Now[k] \notin Busied
        BY <1>3, <2>1, <3>2, StandsAs DEF Closed, Lost, Active
      <4>2. Now'[k] = Now[k]
        BY <1>2, <4>1 DEF Now, View, Standing
      <4> QED
        BY <4>1, <4>2
    <3> QED
      BY <3>1, <3>2
  <2>3. Now' = Fails(Now)
    <3>1. Now' = [k \in Keys |-> Now'[k]]
      BY DEF Now, View
    <3> QED
      BY <2>2, <3>1 DEF Fails
  <2>4. CASE Write
    BY <1>2, <2>3, <2>4 DEF Tells, Goes, Idle, Write, Distinct
  <2>5. CASE NoWrite /\ Lost = {}
    <3>1. runs' = runs
      BY <1>3, <2>5, Known0 DEF Closed, Promise
    <3> QED
      BY <1>2, <2>5, <3>1, NoneTells
  <2> QED
    BY <1>3, <2>4, <2>5 DEF Closed
<1>4. CASE Unmatched(m)
  BY <1>2, <1>4, NoneTells DEF Unmatched
<1>5. ASSUME NEW k \in HitBy(m.turn),
             \/ Started(m, k) \/ Completed(m, k)
             \/ AsksApproval(m, k) \/ AsksTool(m, k) \/ AsksQuestion(m, k) \/ AsksForeign(m, k)
      PROVE  Tells
  <2>1. k \in Keys /\ Active(k) /\ runs[k].st \in Work /\ runs[k] \in Records(Len(turns))
    BY Known0 DEF HitBy, InSession, Active, Promise
  <2>2. CASE Started(m, k)
    <3>1. PICK r : r = [runs[k] EXCEPT !.turn = m.turn, !.st = "running"]
      OBVIOUS
    <3>2. r.st \in Work /\ r.stop = runs[k].stop /\ r.stop \in BOOLEAN /\ runs' = [runs EXCEPT ![k] = r] /\ Write
      BY <2>1, <2>2, <3>1 DEF Started, Records, Work
    <3> QED
      BY <1>2, <2>1, <3>2, OneTells
  <2>3. CASE AsksApproval(m, k)
    <3>1. PICK r : r = [runs[k] EXCEPT !.asks = runs[k].asks \cup {m.turn}, !.st = "waiting"]
      OBVIOUS
    <3>2. r.st \in Work /\ r.stop = runs[k].stop /\ r.stop \in BOOLEAN /\ runs' = [runs EXCEPT ![k] = r] /\ Write
      BY <2>1, <2>3, <3>1 DEF AsksApproval, Records, Work
    <3> QED
      BY <1>2, <2>1, <3>2, OneTells
  <2>4. CASE AsksForeign(m, k)
    <3>1. CASE open
      BY <1>2, <2>1, <2>4, <3>1, StopTells DEF AsksForeign
    <3>2. CASE ~open
      BY <1>2, <2>4, <3>2, NoneTells DEF AsksForeign
    <3> QED
      BY <3>1, <3>2
  <2>5. CASE AsksTool(m, k) \/ AsksQuestion(m, k)
    BY <1>2, <2>5, NoneTells DEF AsksTool, AsksQuestion
  <2>6. CASE Completed(m, k)
    <3>1. EndOf(m.kind) \in Ended
      BY <2>6 DEF Completed, EndOf, Ended
    <3> QED
      BY <1>2, <2>1, <2>6, <3>1, FinishTells DEF Completed
  <2> QED
    BY <1>5, <2>2, <2>3, <2>4, <2>5, <2>6
<1> QED
  BY <1>2, <1>3, <1>4, <1>5

LEMMA ReplyTells ==
    ASSUME Promise, NEW h \in held, ToolReply(h) \/ QuestionReply(h) \/ QuestionFails(h)
    PROVE  Tells
<1>1. CASE ToolReply(h)
  BY <1>1, NoneTells DEF ToolReply
<1>2. CASE QuestionReply(h)
  BY <1>2, NoneTells DEF QuestionReply, memory
<1>3. CASE QuestionFails(h)
  <2>1. h.run \in Keys
    BY Known0 DEF Promise, Typing, Jobs
  <2>2. CASE Active(h.run)
    BY <1>3, <2>1, <2>2, StopTells DEF QuestionFails
  <2>3. CASE ~Active(h.run)
    BY <1>3, <2>3, NoneTells DEF QuestionFails
  <2> QED
    BY <2>2, <2>3
<1> QED
  BY <1>1, <1>2, <1>3

\* The file becomes what the memory is.
LEMMA PersistedAhead ==
    ASSUME Promise, Persisted
    PROVE  Ahead' /\ Goes(File, File')
<1>1. /\ UNCHANGED <<runs, tombs>> /\ disk'.runs = runs /\ disk'.tombs = tombs
  BY DEF Persisted, Image, memory
<1>2. File' = Now /\ Now' = Now
  BY <1>1 DEF File, Now, View, Standing
<1> QED
  BY <1>1, <1>2 DEF Promise, Ahead, Distinct, Goes

\* After a restart both are what the file was, but for what was at work.
LEMMA RestartAhead ==
    ASSUME Promise, Restart
    PROVE  Ahead' /\ Goes(File, File')
<1>1. /\ runs' = [k \in Keys |-> Resumed(disk.runs[k])] /\ tombs' = disk.tombs
      /\ disk'.runs = runs' /\ disk'.tombs = tombs'
  BY DEF Restart, Image
<1>2. \A k \in Keys : /\ disk.runs[k] \in Records(Len(turns))
                      /\ disk.runs[k].st \in Statuses /\ File[k] = Standing(disk.runs, disk.tombs, k)
  <2>1. Kempt
    BY DEF Promise
  <2> QED
    BY <2>1, NowTyped, Known0 DEF Typing
<1>3. ASSUME NEW k \in Keys
      PROVE  Now'[k] = IF File[k] \in Busied THEN "failed" ELSE File[k]
  <2>1. CASE disk.runs[k].st \in Work
    <3>1. File[k] \in Busied
      <4>1. PICK rs : rs = disk.runs
        OBVIOUS
      <4>2. PICK ts : ts = disk.tombs
        OBVIOUS
      <4> QED
        BY <1>2, <2>1, <4>1, <4>2, StandsAs
    <3>3. runs'[k].st = "failed"
      BY <1>1, <1>2, <2>1 DEF Resumed, Records
    <3>2. Now'[k] = "failed"
      BY <3>3 DEF Now, View, Standing, Work, Ended
    <3> QED
      BY <3>1, <3>2
  <2>2. CASE disk.runs[k].st \notin Work
    <3>1. runs'[k] = disk.runs[k]
      BY <1>1, <1>2, <2>2 DEF Resumed
    <3>3. File[k] \notin Busied
      <4>1. PICK rs : rs = disk.runs
        OBVIOUS
      <4>2. PICK ts : ts = disk.tombs
        OBVIOUS
      <4> QED
        BY <1>2, <2>2, <4>1, <4>2, StandsAs
    <3>2. Now'[k] = File[k]
      BY <1>1, <3>1 DEF Now, File, View, Standing
    <3> QED
      BY <3>2, <3>3
  <2> QED
    BY <2>1, <2>2
<1>4. Now' = Fails(File)
  <2>1. Now' = [k \in Keys |-> Now'[k]]
    BY DEF Now, View
  <2> QED
    BY <1>3, <2>1 DEF Fails
<1>5. File' = Now'
  BY <1>1 DEF File, Now, View, Standing
<1> QED
  BY <1>1, <1>4, <1>5 DEF Promise, Ahead, Distinct, Goes

LEMMA NextAhead ==
    ASSUME Promise, [Next]_vars
    PROVE  Ahead' /\ Goes(File, File')
<1>1. ASSUME NEW k \in Keys, Submit(k) \/ DispatchStep(k)
      PROVE  Tells
  BY <1>1, SubmitTells, DispatchTells
<1>2. ASSUME NEW k \in Keys, Stop(k)
      PROVE  Tells
  BY <1>2, StopTells DEF Stop
<1>3. ASSUME NEW i \in 1 .. Len(turns), TurnStep(i) \/ \E what \in Requests : TurnAsks(i, what)
      PROVE  Tells
  BY <1>3, NoneTells DEF TurnStep, TurnBegins, TurnEnds, TurnAsks, memory
<1>4. ASSUME Exits \/ UNCHANGED vars
      PROVE  Tells
  <2>1. UNCHANGED <<runs, tombs, disk, writing>>
    BY <1>4 DEF Exits, vars, memory
  <2> QED
    BY <2>1, NoneTells
<1>5. ASSUME NEW h \in held, ReplyStep(h)
      PROVE  Tells \/ Restart
  BY <1>5, ReplyTells DEF ReplyStep, QuestionKills
<1>6. CASE Tells
  BY <1>6, TellsAhead
<1>7. CASE Restart
  BY <1>7, RestartAhead
<1>8. CASE Persisted
  BY <1>8, PersistedAhead
<1>9. ASSUME NEW k \in Keys, NEW i \in runs[k].asks, Approve(k, i)
      PROVE  Tells
  BY <1>9, ApproveTells
<1> QED
  BY <1>1, <1>2, <1>3, <1>4, <1>5, <1>6, <1>7, <1>8, <1>9, ReceiveTells DEF Next, Crash

\* What the file says keeps the promises of a runtime: a key is taken on once, in a free session,
\* and again only after its tombstone made room for another; a stop is not taken back; an end is
\* final; no run at work is dropped (runtime.mjs: submit, stop, finish, pruneTerminalRuns, initialize).
THEOREM KeepsItsPromise == Spec => ImplementsRuntime
<1>1. Init => Promised!Init /\ Promise
  <2> SUFFICES ASSUME Init PROVE Promised!Init /\ Promise
    OBVIOUS
  <2>1. /\ tombs = <<>> /\ disk.tombs = tombs /\ disk.runs = runs /\ Len(tombs) = 0
        /\ \A k \in Keys : runs[k].st = "none"
    BY DEF Init, Image, NewRun
  <2>2. \A k \in Keys : Standing(disk.runs, disk.tombs, k) = "unknown"
    BY <2>1 DEF Standing, Work, Ended
  <2>3. Promised!Init
    BY <2>2 DEF Promised!Init
  <2>4. Ahead
    BY <2>1 DEF Ahead, File, Now, Goes, Distinct
  <2> QED
    BY <2>3, <2>4, InitKempt DEF Promise
<1>2. Promise /\ [Next]_vars => Promise' /\ [Promised!Next]_([k \in Keys |-> Standing(disk.runs, disk.tombs, k)])
  BY NextKempt, NextAhead, GoesIsNext DEF Promise
<1> QED
  BY <1>1, <1>2, PTL DEF Spec, ImplementsRuntime, Promised!Spec
=============================================================================
