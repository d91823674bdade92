---------------------------- MODULE CodexBridge ----------------------------
(***************************************************************************)
(* The bridge between the runs of the control plane and a Codex app-server *)
(* (src/runtime/codex-bridge): runtime.mjs keeps runs, sessions and the    *)
(* tombstones of the runs it no longer keeps, server.mjs takes requests,   *)
(* app-server.mjs talks to the native process.                             *)
(*                                                                         *)
(* What changes runs is put in one queue and done one item at a time, each *)
(* with the write of the whole state to its file (writing); the dispatch   *)
(* of a run (start) goes on beside the queue between two of its items, and *)
(* the notifications of the app-server (inbox) become items in their       *)
(* order.  A crash gives back what was written last.                       *)
(*                                                                         *)
(* A run is named by its client run key, which is what a retry repeats; a  *)
(* native turn by the number of its turn/start request.                    *)
(***************************************************************************)
EXTENDS Naturals, Sequences, FiniteSets

CONSTANTS
    Keys,           \* client run keys
    Sessions,       \* sessions, already created
    SessionOf,      \* the session a key is submitted for
    MaxRetained,    \* how many runs are kept
    MaxTombstones,  \* how many keys of runs no longer kept are remembered
    Requests,       \* what a turn may ask of the bridge
    MaxTurns,       \* bound: turn/start requests
    MaxRequests,    \* bound: turns that ask for something, each once
    MaxMishaps      \* bound: crashes of the bridge and exits of the app-server

ASSUME SessionsAssumption == SessionOf \in [Keys -> Sessions]
ASSUME LimitsAssumption ==
    /\ MaxRetained \in Nat \ {0} /\ MaxTombstones \in Nat \ {0}
    /\ MaxTurns \in Nat /\ MaxRequests \in Nat /\ MaxMishaps \in Nat
ASSUME RequestsAssumption == Requests \subseteq {"approval", "question", "tool", "foreign"}

VARIABLES
    runs,       \* the record of each key's run ("none": no record is kept)
    older,      \* <<j, k>>: both have a record, and the latest news of j came before that of k
    tombs,      \* the keys remembered of records no longer kept, oldest first
    thread,     \* sessions that have a native thread
    loaded,     \* those whose thread this app-server has started or resumed
    disk,       \* what was written last
    writing,    \* an item of the queue waits for its write
    start,      \* how far the dispatch of each run has got
    open,       \* the app-server is there
    inbox,      \* its notifications, in the queue
    turns,      \* the native turns
    held,       \* native requests being answered beside the queue
    mishaps,    \* bound: crashes and exits so far
    forgot      \* history: keys whose tombstone was dropped

memory == <<runs, older, tombs, thread>>
native == <<open, turns>>
vars == <<memory, loaded, disk, writing, start, native, inbox, held, mishaps, forgot>>

Work  == {"queued", "running", "waiting"}
Ended == {"completed", "failed", "cancelled"}

NewRun == [st |-> "none", bound |-> FALSE, turn |-> 0, stop |-> FALSE, asks |-> {}, by |-> 0]

\* What is written to the file.
Image == [runs |-> runs, older |-> older, tombs |-> tombs, thread |-> thread]

NewTurn(k) ==
    [for |-> k, st |-> "asked", wants |-> "nothing", asked |-> FALSE, cut |-> FALSE,
     denied |-> FALSE, left |-> FALSE]

Init ==
    /\ runs = [k \in Keys |-> NewRun] /\ older = {} /\ tombs = <<>>
    /\ thread = {} /\ loaded = {}
    /\ disk = Image
    /\ writing = FALSE
    /\ start = [k \in Keys |-> "none"]
    /\ open = TRUE /\ inbox = <<>> /\ turns = <<>> /\ held = {}
    /\ mishaps = 0 /\ forgot = {}

(***************************************************************************)
(* Runs, turns and the queue.                                              *)
(***************************************************************************)
Active(k) == runs[k].st \in Work
InSession(s) == {k \in Keys : SessionOf[k] = s}
TurnsOf(k) == {i \in 1..Len(turns) : turns[i].for = k}
LastTurn(k, i) == i \in TurnsOf(k) /\ \A j \in TurnsOf(k) : j <= i
Live(i) == turns[i].st # "ended"

\* The records kept, and their order (pruneTerminalRuns sorts by updatedAt) when j's is left out.
Kept == {k \in Keys : runs[k].st # "none"}
Without(j) == {p \in older : p[1] # j /\ p[2] # j}

\* An event of k: its record is the one with the latest news.
Touched(k) == Without(k) \cup ((Kept \ {k}) \X {k})

\* An item of the queue, whose changes are then written, or that changes nothing.
Idle == ~writing
Write == writing' = TRUE /\ UNCHANGED disk
NoWrite == UNCHANGED <<writing, disk>>

\* The end of k's record, and the turns it leaves at work or unreported: `by` is the turn whose
\* end this is.
EndedAs(k, status, i) == [runs[k] EXCEPT !.st = status, !.asks = {}, !.by = i]
Reported(i) == ~Live(i) /\ \A n \in 1..Len(inbox) : inbox[n].turn # i
Leaves(ks, by) ==
    [i \in 1..Len(turns) |->
        [turns[i] EXCEPT !.left = @ \/ (turns[i].for \in ks /\ i # by /\ ~Reported(i))]]

\* Mutant: an end that comes after the end is written all the same.
FinishAnyway(k, status, i) ==
    /\ runs' = [runs EXCEPT ![k] = EndedAs(k, status, i)]
    /\ older' = Touched(k)
    /\ turns' = Leaves({k}, i)
    /\ Write

Finish(k, status, i) ==
    \/ /\ Active(k)
       /\ runs' = [runs EXCEPT ![k] = EndedAs(k, status, i)]
       /\ older' = Touched(k)
       /\ turns' = Leaves({k}, i)
       /\ Write
    \/ ~Active(k) /\ NoWrite /\ UNCHANGED <<runs, older, turns>>

\* The turn is asked to stop, or gets the answer it waits for.
Interrupted(ts, i) == IF i # 0 /\ open /\ ts[i].st # "ended" THEN [ts EXCEPT ![i].cut = TRUE] ELSE ts
Answered(ts, i) == [ts EXCEPT ![i].wants = "nothing"]

\* A denial is an answer too; where the app-server takes no "decline" it cancels the turn.
Cancelled(ts, i) == [ts EXCEPT ![i].wants = "nothing", ![i].denied = TRUE]

\* Mutant: a stop is passed on by the request alone.
OvertakenNot(k, i) == turns

\* The turn of k becomes known after a stop.
Overtaken(k, i) == IF runs[k].stop /\ Active(k) THEN Interrupted(turns, i) ELSE turns

(***************************************************************************)
(* The requests of the control plane.                                      *)
(***************************************************************************)
\* Mutants: only records kept are looked up; the limit is passed by one.
KnownKept(k) == runs[k].st # "none"
FullLate == Cardinality(Kept) > MaxRetained

\* A key that is known, kept or remembered, starts nothing; nor does a busy session.
Busy(s) == \E k \in InSession(s) : Active(k)
Known(k) == runs[k].st # "none" \/ \E n \in 1..Len(tombs) : tombs[n] = k
Oldest(j) ==
    j \in Kept /\ ~Active(j) /\ \A l \in Kept \ {j} : Active(l) \/ <<j, l>> \in older
Full == Cardinality(Kept) >= MaxRetained

\* A record that is no longer kept, except for a dispatch that still works on it.
Dropped(k) == IF start[k] = "none" THEN NewRun ELSE [runs[k] EXCEPT !.st = "none"]

\* The oldest ended run j makes room for k and leaves a tombstone; the oldest tombstone makes room
\* for that.
Queued == [NewRun EXCEPT !.st = "queued"]
Adds(k) ==
    /\ runs' = [runs EXCEPT ![k] = Queued]
    /\ older' = older \cup (Kept \X {k})
    /\ UNCHANGED <<tombs, forgot>>
Replaces(j, k) ==
    LET all == Append(tombs, j)
        over == Len(all) > MaxTombstones
    IN  /\ runs' = [runs EXCEPT ![j] = Dropped(j), ![k] = Queued]
        /\ older' = Without(j) \cup ((Kept \ {j}) \X {k})
        /\ tombs' = IF over THEN Tail(all) ELSE all
        /\ forgot' = IF over THEN forgot \cup {Head(all)} ELSE forgot

InDispatch == {j \in Keys : start[j] # "none"}

Submit(k) ==
    /\ Idle
    /\ ~Known(k) /\ ~Busy(SessionOf[k])
    /\ start[k] = "none" /\ Len(turns) + Cardinality(InDispatch) < MaxTurns    \* bounds
    /\ \/ ~Full /\ Adds(k)
       \/ Full /\ \E j \in Keys : Oldest(j) /\ Replaces(j, k)
    /\ start' = [start EXCEPT ![k] = "created"]
    /\ Write
    /\ UNCHANGED <<thread, loaded, native, inbox, held, mishaps>>

\* Mutant: a stop is an end.
StopAtOnce(k) ==
    /\ Idle
    /\ Active(k)
    /\ Finish(k, "cancelled", 0)
    /\ UNCHANGED <<tombs, thread, loaded, start, open, inbox, held, mishaps, forgot>>

Stop(k) ==
    /\ Idle
    /\ Active(k) /\ ~runs[k].stop
    /\ runs' = [runs EXCEPT ![k].stop = TRUE]
    /\ turns' = Interrupted(turns, runs[k].turn)
    /\ Write
    /\ UNCHANGED <<older, tombs, thread, loaded, start, open, inbox, held, mishaps, forgot>>

Approve(k, i) ==
    /\ Idle /\ open
    /\ Active(k) /\ i \in runs[k].asks
    /\ turns' = Answered(turns, i) \/ turns' = Cancelled(turns, i)
    /\ runs' = [runs EXCEPT ![k].asks = @ \ {i},
                            ![k].st = IF runs[k].asks = {i} THEN "running" ELSE "waiting"]
    /\ older' = Touched(k)
    /\ Write
    /\ UNCHANGED <<tombs, thread, loaded, start, open, inbox, held, mishaps, forgot>>

\* The write of an item is done: the file is replaced, and the dispatch that waited for it goes on.
Begun(k) ==
    CASE SessionOf[k] \notin thread -> "thread"
      [] SessionOf[k] \in thread \ loaded -> "resume"
      [] OTHER -> "bind"
Persisted ==
    /\ writing /\ writing' = FALSE
    /\ disk' = Image
    /\ start' = [k \in Keys |-> CASE start[k] = "created" -> Begun(k)
                                  [] start[k] = "binding" -> "bound"
                                  [] OTHER -> start[k]]
    /\ UNCHANGED <<memory, loaded, native, inbox, held, mishaps, forgot>>

(***************************************************************************)
(* The dispatch of a run.                                                  *)
(***************************************************************************)
\* thread/start or thread/resume is answered.
ThreadAnswer(k) ==
    /\ open /\ start[k] \in {"thread", "resume"}
    /\ start' = [start EXCEPT ![k] = "bind"]
    /\ loaded' = IF start[k] = "resume" THEN loaded \cup {SessionOf[k]} ELSE loaded
    /\ UNCHANGED <<memory, disk, writing, native, inbox, held, mishaps, forgot>>

\* A request is refused, is not answered within 30 s, or the app-server has gone.
GivesUp(k) ==
    /\ start[k] \in {"thread", "resume", "turn"}
    /\ start' = [start EXCEPT ![k] = "failing"]
    /\ UNCHANGED <<memory, loaded, disk, writing, native, inbox, held, mishaps, forgot>>

Bind(k) ==
    /\ Idle /\ start[k] = "bind"
    /\ thread' = thread \cup {SessionOf[k]} /\ loaded' = loaded \cup {SessionOf[k]}
    /\ runs' = [runs EXCEPT ![k].bound = TRUE]
    /\ start' = [start EXCEPT ![k] = "binding"]
    /\ Write
    /\ UNCHANGED <<older, tombs, native, inbox, held, mishaps, forgot>>

\* The turn is asked for, unless the run was stopped.
Send(k) ==
    /\ start[k] = "bound"
    /\ \/ /\ runs[k].stop
          /\ start' = [start EXCEPT ![k] = "cancelling"]
          /\ UNCHANGED turns
       \/ /\ ~runs[k].stop /\ open
          /\ start' = [start EXCEPT ![k] = "turn"]
          /\ turns' = Append(turns, [NewTurn(k) EXCEPT !.left = ~Active(k)])
       \/ /\ ~runs[k].stop /\ ~open
          /\ start' = [start EXCEPT ![k] = "failing"]
          /\ UNCHANGED turns
    /\ UNCHANGED <<memory, loaded, disk, writing, open, inbox, held, mishaps, forgot>>

\* turn/start is answered, before or after what the turn notifies.
TurnAnswer(k) ==
    /\ open /\ start[k] = "turn"
    /\ \E i \in TurnsOf(k) : LastTurn(k, i) /\ turns[i].st # "asked"
    /\ start' = [start EXCEPT ![k] = "answered"]
    /\ UNCHANGED <<memory, loaded, disk, writing, native, inbox, held, mishaps, forgot>>

\* The run takes the turn of the answer, unless it has already taken another one.
Takes(k, i) ==
    \/ /\ runs[k].turn \notin {0, i}
       /\ start' = [start EXCEPT ![k] = "failing"]
       /\ NoWrite /\ UNCHANGED <<runs, turns>>
    \/ /\ runs[k].turn \in {0, i}
       /\ runs' = [runs EXCEPT ![k].turn = i]
       /\ turns' = Overtaken(k, i)
       /\ start' = [start EXCEPT ![k] = "none"]
       /\ Write
Record(k) ==
    /\ Idle /\ start[k] = "answered"
    /\ \E i \in TurnsOf(k) : LastTurn(k, i) /\ Takes(k, i)
    /\ UNCHANGED <<older, tombs, thread, loaded, open, inbox, held, mishaps, forgot>>

\* The dispatch ends the run: it failed, or was stopped before it asked for a turn.
Conclude(k) ==
    /\ Idle /\ start[k] \in {"failing", "cancelling"}
    /\ start' = [start EXCEPT ![k] = "none"]
    /\ Finish(k, IF start[k] = "failing" THEN "failed" ELSE "cancelled", 0)
    /\ UNCHANGED <<tombs, thread, loaded, open, inbox, held, mishaps, forgot>>

(***************************************************************************)
(* The notifications of the app-server.                                    *)
(***************************************************************************)
\* The run a notification is for: the active one of its thread, unless it has another turn.
HitBy(i) ==
    {k \in InSession(SessionOf[turns[i].for]) :
        Active(k) /\ runs[k].bound /\ runs[k].turn \in {0, i}}

\* Mutant: a request that is nobody's is dropped.
UnmatchedDropped(m) == HitBy(m.turn) = {} /\ NoWrite /\ UNCHANGED <<runs, older, turns, held>>

\* Nobody's: requests are refused, everything else is dropped.
Unmatched(m) ==
    /\ HitBy(m.turn) = {}
    /\ turns' = Answered(turns, m.turn)
    /\ NoWrite /\ UNCHANGED <<runs, older, held>>

Started(m, k) ==
    /\ m.kind = "started"
    /\ runs' = [runs EXCEPT ![k].turn = m.turn, ![k].st = "running"]
    /\ older' = Touched(k)
    /\ turns' = Overtaken(k, m.turn)
    /\ Write /\ UNCHANGED held

AsksApproval(m, k) ==
    /\ m.kind = "approval"
    /\ runs' = [runs EXCEPT ![k].asks = @ \cup {m.turn}, ![k].st = "waiting"]
    /\ older' = Touched(k)
    /\ Write /\ UNCHANGED <<turns, held>>

\* A call of another agent and a question to the user are answered beside the queue.
AsksTool(m, k) ==
    /\ m.kind = "tool"
    /\ held' = held \cup {[turn |-> m.turn, run |-> k, what |-> "tool"]}
    /\ older' = Touched(k)
    /\ Write /\ UNCHANGED <<runs, turns>>

AsksQuestion(m, k) ==
    /\ m.kind = "question"
    /\ held' = held \cup {[turn |-> m.turn, run |-> k, what |-> "question"]}
    /\ NoWrite /\ UNCHANGED <<runs, older, turns>>

\* A request the bridge does not know is refused and stops the run.
AsksForeign(m, k) ==
    /\ m.kind = "foreign"
    /\ IF open
       THEN /\ runs' = [runs EXCEPT ![k].stop = TRUE]
            /\ turns' = Interrupted(Answered(turns, m.turn), runs[k].turn)
            /\ Write
       ELSE NoWrite /\ UNCHANGED <<runs, turns>>
    /\ UNCHANGED <<older, held>>

\* Mutant: whatever did not complete was cancelled.
EndOfAny(kind) == IF kind = "completed" THEN "completed" ELSE "cancelled"

EndOf(kind) == IF kind = "interrupted" THEN "cancelled" ELSE kind

Completed(m, k) ==
    /\ m.kind \in {"completed", "failed", "interrupted"}
    /\ Finish(k, EndOf(m.kind), m.turn)
    /\ UNCHANGED held

\* Mutant: a run that is queued or waits for the user is not taken for lost.
LostRunning == {k \in Keys : runs[k].st = "running"}

Lost == {k \in Keys : Active(k)}

\* The app-server has gone: what is at work has failed.
Closed(m) ==
    /\ m.kind = "closed"
    /\ runs' = [k \in Keys |-> IF k \in Lost THEN EndedAs(k, "failed", 0) ELSE runs[k]]
    /\ older' = {p \in Kept \X Kept : IF (p[1] \in Lost) = (p[2] \in Lost) THEN p \in older ELSE p[2] \in Lost}
    /\ turns' = Leaves(Lost, 0)
    /\ IF Lost = {} THEN NoWrite ELSE Write
    /\ UNCHANGED held

Receive ==
    /\ Idle /\ inbox # <<>>
    /\ inbox' = Tail(inbox)
    /\ LET m == Head(inbox) IN
       \/ Closed(m)
       \/ m.kind # "closed" /\ Unmatched(m)
       \/ /\ m.kind # "closed"
          /\ \E k \in HitBy(m.turn) :
                \/ Started(m, k) \/ Completed(m, k)
                \/ AsksApproval(m, k) \/ AsksTool(m, k) \/ AsksQuestion(m, k) \/ AsksForeign(m, k)
    /\ UNCHANGED <<tombs, thread, loaded, start, open, mishaps, forgot>>

\* The call of another agent has returned, failed or was aborted.
ToolReply(h) ==
    /\ Idle /\ h \in held /\ h.what = "tool"
    /\ held' = held \ {h}
    /\ turns' = Answered(turns, h.turn)
    /\ IF open /\ Active(h.run) THEN older' = Touched(h.run) /\ Write ELSE NoWrite /\ UNCHANGED older
    /\ UNCHANGED <<runs, tombs, thread, loaded, start, open, inbox, mishaps, forgot>>

\* The question is answered, by the user or by its deadline.
QuestionReply(h) ==
    /\ h \in held /\ h.what = "question" /\ open
    /\ Active(h.run) /\ ~runs[h.run].stop
    /\ held' = held \ {h}
    /\ turns' = Answered(turns, h.turn)
    /\ UNCHANGED <<memory, loaded, disk, writing, start, open, inbox, mishaps, forgot>>

\* The question was aborted or could not be asked: it is refused, and the run is stopped.
QuestionFails(h) ==
    /\ Idle /\ h \in held /\ h.what = "question" /\ open
    /\ held' = held \ {h}
    /\ IF Active(h.run)
       THEN /\ runs' = [runs EXCEPT ![h.run].stop = TRUE]
            /\ turns' = Interrupted(Answered(turns, h.turn), runs[h.run].turn)
            /\ Write
       ELSE turns' = Answered(turns, h.turn) /\ NoWrite /\ UNCHANGED runs
    /\ UNCHANGED <<older, tombs, thread, loaded, start, open, inbox, mishaps, forgot>>

(***************************************************************************)
(* The app-server, as the bridge uses it.                                  *)
(***************************************************************************)
TurnBegins(i) ==
    /\ open /\ turns[i].st = "asked"
    /\ turns' = [turns EXCEPT ![i].st = "working"]
    /\ inbox' = Append(inbox, [kind |-> "started", turn |-> i])
    /\ UNCHANGED <<memory, loaded, disk, writing, start, open, held, mishaps, forgot>>

\* A turn asks for something, and waits for its answer.
TurnAsks(i, what) ==
    /\ open /\ turns[i].st = "working" /\ ~turns[i].asked
    /\ Cardinality({j \in 1..Len(turns) : turns[j].asked}) < MaxRequests    \* bound
    /\ turns' = [turns EXCEPT ![i].wants = what, ![i].asked = TRUE]
    /\ inbox' = Append(inbox, [kind |-> what, turn |-> i])
    /\ UNCHANGED <<memory, loaded, disk, writing, start, open, held, mishaps, forgot>>

\* A turn ends as interrupted after turn/interrupt, or cancelled by a denial.
Over(t) == [t EXCEPT !.st = "ended", !.wants = "nothing", !.cut = FALSE]
TurnEnds(i, how) ==
    /\ open /\ turns[i].st = "working"
    /\ \/ how = "interrupted" /\ (turns[i].cut \/ turns[i].denied)
       \/ how # "interrupted" /\ turns[i].wants = "nothing"
    /\ turns' = [turns EXCEPT ![i] = Over(turns[i])]
    /\ inbox' = Append(inbox, [kind |-> how, turn |-> i])
    /\ UNCHANGED <<memory, loaded, disk, writing, start, open, held, mishaps, forgot>>

AllEnded == [i \in 1..Len(turns) |-> Over(turns[i])]

Exits ==
    /\ open /\ mishaps < MaxMishaps
    /\ open' = FALSE /\ mishaps' = mishaps + 1
    /\ turns' = AllEnded
    /\ inbox' = Append(inbox, [kind |-> "closed", turn |-> 0])
    /\ UNCHANGED <<memory, loaded, disk, writing, start, held, forgot>>

(***************************************************************************)
(* The bridge starts again from its file: what was at work has failed.     *)
(***************************************************************************)
Resumed(r) == IF r.st \in Work THEN [r EXCEPT !.st = "failed", !.asks = {}] ELSE r
Restart ==
    /\ runs' = [k \in Keys |-> Resumed(disk.runs[k])]
    /\ older' = disk.older /\ tombs' = disk.tombs /\ thread' = disk.thread
    /\ disk' = Image'
    /\ loaded' = {} /\ writing' = FALSE
    /\ start' = [k \in Keys |-> "none"]
    /\ open' = TRUE /\ inbox' = <<>> /\ held' = {}
    /\ turns' = AllEnded
    /\ UNCHANGED forgot

Crash ==
    /\ mishaps < MaxMishaps /\ mishaps' = mishaps + 1
    /\ Restart

\* A question that cannot be refused, the app-server being gone, ends the process.
QuestionKills(h) ==
    /\ h \in held /\ h.what = "question" /\ ~open
    /\ Restart /\ UNCHANGED mishaps

DispatchStep(k) ==
    \/ ThreadAnswer(k) \/ GivesUp(k) \/ Bind(k) \/ Send(k) \/ TurnAnswer(k) \/ Record(k) \/ Conclude(k)
TurnStep(i) ==
    \/ TurnBegins(i)
    \/ \E how \in {"completed", "failed", "interrupted"} : TurnEnds(i, how)
ReplyStep(h) == ToolReply(h) \/ QuestionReply(h) \/ QuestionFails(h) \/ QuestionKills(h)

Next ==
    \/ \E k \in Keys : Submit(k) \/ Stop(k) \/ DispatchStep(k)
    \/ \E k \in Keys : \E i \in runs[k].asks : Approve(k, i)
    \/ Persisted \/ Receive
    \/ \E i \in 1..Len(turns) : TurnStep(i) \/ \E what \in Requests : TurnAsks(i, what)
    \/ \E h \in held : ReplyStep(h)
    \/ Exits \/ Crash

Spec == Init /\ [][Next]_vars

\* The queue, the timeouts of requests and the deadlines of questions go on; of the app-server it
\* is assumed that it takes its requests and that a turn that waits for nothing, or is asked to
\* stop, ends.  Nothing is assumed of users, and nothing of crashes.
FairSpec ==
    /\ Spec
    /\ WF_vars(Persisted) /\ WF_vars(Receive)
    /\ \A k \in Keys : WF_vars(DispatchStep(k))
    /\ \A i \in 1..MaxTurns : WF_vars(i <= Len(turns) /\ TurnStep(i))
    /\ WF_vars(\E h \in held : ReplyStep(h))

(***************************************************************************)
(* Properties.                                                             *)
(***************************************************************************)
TurnIds == 1..MaxTurns
InOrder(o, S) ==
    /\ o \subseteq S \X S
    /\ \A j, k \in S : (<<j, k>> \in o) <=> (j # k /\ <<k, j>> \notin o)
    /\ \A j, k, l \in S : <<j, k>> \in o /\ <<k, l>> \in o => <<j, l>> \in o
Runs == [st : {"none"} \cup Work \cup Ended, bound : BOOLEAN, turn : TurnIds \cup {0},
         stop : BOOLEAN, asks : SUBSET TurnIds, by : TurnIds \cup {0}]
Turns == [for : Keys, st : {"asked", "working", "ended"}, wants : {"nothing"} \cup Requests,
          asked : BOOLEAN, cut : BOOLEAN, denied : BOOLEAN, left : BOOLEAN]

\* The variables have the types their uses rely on; the records kept, no more than MaxRetained, are
\* in one order, and no more than MaxTombstones keys are remembered besides.
TypeOK ==
    /\ runs \in [Keys -> Runs]
    /\ turns \in Seq(Turns) /\ Len(turns) <= MaxTurns
    /\ InOrder(older, Kept) /\ IsFiniteSet(Kept) /\ Cardinality(Kept) <= MaxRetained
    /\ {tombs[n] : n \in 1..Len(tombs)} \subseteq Keys \ Kept /\ Len(tombs) <= MaxTombstones
    /\ loaded \subseteq thread /\ thread \subseteq Sessions
    /\ start \in [Keys -> {"none", "created", "thread", "resume", "bind", "binding", "bound", "turn",
                           "answered", "failing", "cancelling"}]
    /\ held \subseteq [turn : TurnIds, run : Keys, what : {"tool", "question"}]
    /\ writing \in BOOLEAN /\ open \in BOOLEAN /\ forgot \subseteq Keys

\* A key asks for one native turn, however often it is submitted and the bridge is restarted,
\* unless its tombstone was dropped to make room (submit, initialize, pruneRunTombstones).
NeverReplayed ==
    \A k \in Keys : Cardinality(TurnsOf(k)) > 1 => k \in forgot

\* A run ends by its own turn's end, and is cancelled only if it was asked to stop or an approval
\* that its turn asked for was denied: only a turn whose run ended without it can end another run
\* of the session (onMessage goes by the thread).
EndedByItsTurn ==
    \A k \in Keys :
        LET i == runs[k].by
            stray == i # 0 /\ turns[i].left IN
        /\ i # 0 /\ turns[i].for # k => stray
        /\ runs[k].st = "cancelled" /\ ~runs[k].stop => stray \/ (i # 0 /\ turns[i].denied)

\* "only the native terminal event confirms it" (codex-bridge/README.md:18): a run that ended as
\* completed or cancelled leaves no turn of its own at work, unless a stray one ended it or its key was used again.
EndIsConfirmed ==
    \A k \in Keys :
        LET i == runs[k].by IN
        /\ runs[k].st \in {"completed", "cancelled"} /\ k \notin forgot
        /\ i = 0 \/ turns[i].for = k
        =>
            \A j \in TurnsOf(k) : ~Live(j)

\* Whichever comes first of the stop, the answer to turn/start and turn/started: a stopped run
\* whose turn is known has asked it to stop.
StopReachesTheTurn ==
    \A k \in Keys :
        LET i == runs[k].turn IN
        Active(k) /\ runs[k].stop /\ i # 0 => turns[i].cut \/ ~Live(i) \/ ~open

\* "Unknown native requests are never auto-approved or left silently waiting" (runtime.mjs:323),
\* nor is any other: the queue or a job beside it has the request, or the run shows it to the
\* user, unless the run ended without its turn.
NothingWaitsSilently ==
    \A i \in 1..Len(turns) :
        turns[i].wants # "nothing" =>
            \/ turns[i].left
            \/ \E n \in 1..Len(inbox) : inbox[n].turn = i /\ inbox[n].kind = turns[i].wants
            \/ \E h \in held : h.turn = i
            \/ \E k \in Keys : Active(k) /\ runs[k].st = "waiting" /\ i \in runs[k].asks

\* What a key is to the control plane, as the file tells it.
Standing(rs, ts, k) ==
    CASE rs[k].st \in Work -> IF rs[k].stop THEN "halting" ELSE "active"
      [] rs[k].st \in Ended -> rs[k].st
      [] OTHER -> IF \E n \in 1..Len(ts) : ts[n] = k THEN "expired" ELSE "unknown"

Promised == INSTANCE AgentRuntime WITH exec <- [k \in Keys |-> Standing(disk.runs, disk.tombs, k)]

\* What the file says keeps the promises of a runtime, restarts and late notifications included: a
\* run at work is kept, with its stop; one that ended does not change; a key is taken on again only
\* after its tombstone made room for another (mutate, submit, stop, finish, pruneTerminalRuns, initialize).
ImplementsRuntime == Promised!Spec

\* A run ends, or waits for the user, although the app-server may exit and its answers be lost;
\* once it was asked to stop it ends, whatever it was waiting for.
RunSettles ==
    \A k \in Keys : Active(k) ~> ~Active(k) \/ (runs[k].st = "waiting" /\ ~runs[k].stop)
=============================================================================
