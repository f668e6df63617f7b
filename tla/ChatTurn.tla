------------------------------ MODULE ChatTurn ------------------------------
(***************************************************************************)
(* One conversational turn: the task that produces it                      *)
(* (src/ceynex/api/turn_runner.py), the log it writes                      *)
(* (src/ceynex/api/turn_log.py), the copy of the log kept in Redis for the *)
(* other worker, the readers that follow it over HTTP, and the Stop button *)
(* (src/ceynex/api/routes/chat.py).                                        *)
(*                                                                         *)
(* The task is a coroutine of a single-threaded event loop.  `pc' names    *)
(* the await it is parked at, or the straight-line code it is about to     *)
(* run; only a parked task (Parked) lets the loop run anything else, and   *)
(* only there is a CancelledError delivered.  Worker threads (the          *)
(* `asyncio.to_thread' calls that write rows), Redis and the readers of    *)
(* the other worker run at any time.                                       *)
(*                                                                         *)
(* A frame is the name of its SSE event; a `done' frame is named for what  *)
(* it reports.  Every turn is signed in, as every HTTP route requires.     *)
(***************************************************************************)
EXTENDS Integers, Sequences, FiniteSets

CONSTANTS
  Clients,     \* the browser tabs that may follow the turn
  Creator,     \* the one whose request started it
  Mirrored,    \* TRUE when REDIS_URL is set and a mirror exists
  MayCrash,    \* TRUE to let the worker running the turn die
  MaxEvents,   \* bound: trace events a turn emits
  MaxDrops,    \* bound: connections lost
  MaxStops     \* bound: presses of Stop

ASSUME ChatTurnAssumption ==
  /\ Creator \in Clients
  /\ Mirrored \in BOOLEAN /\ MayCrash \in BOOLEAN
  /\ MaxEvents \in Nat /\ MaxDrops \in Nat /\ MaxStops \in Nat

VARIABLES
  request,   \* TurnRequest: is it a regenerate, is there a conversation, may the
             \* gate ask
  mode,      \* the regenerate plan's mode, or the classifier's
  pc,        \* where the task of _run is
  after,     \* the pc to continue at once a publish has been mirrored
  then,      \* the pc to continue at once a _flush has drained the sink
  exit,      \* how _produce is being left: "normal", "failed", "cancelled"
  inner,     \* the task awaited by _pump
  innerStop, \* inner.cancel() was called and has not been delivered
  stop,      \* task.cancel() was called and has not been delivered
  events,    \* trace events waiting in the sink's queue
  emitted,   \* trace events emitted so far
  writing,   \* rows a worker thread is writing
  saved,     \* rows committed
  lost,      \* rows whose write failed
  frames,    \* LocalTurn.frames
  done,      \* LocalTurn.done
  opened,    \* the mirror's :meta hash, with the owner, exists
  mirror,    \* the seqs present in the mirror's stream
  flag,      \* the mirror's :cancel key is set
  conn,      \* client -> how it is following
  got,       \* client -> the ids of the frames it received, in order
  via,       \* the clients that were ever served by the other worker
  drops, stops

task   == <<request, mode, pc, after, then, exit>>
pumped == <<inner, innerStop, events, emitted>>
rows   == <<writing, saved, lost>>
turn   == <<frames, done>>
redis  == <<opened, mirror, flag>>
tabs   == <<conn, got, via, drops>>
vars   == <<task, pumped, rows, turn, redis, tabs, stop, stops>>

Modes  == {"analyse", "discuss"}
Dones  == {"answered", "failed", "cancelled", "clarified"}
Events == {"start", "turn", "step", "clarify", "error"} \cup Dones
Rows   == {"history", "transcript"}

InnerDone == {"answer", "refused", "raised", "cancelled"}

Handlers == {"stopped", "crashed", "crashedDone", "finish", "close", "exit", "dead"}
Awaits == {"open", "mirrored", "instructions", "resolve", "gate", "flush", "pump",
           "ask", "reap", "persisting", "extras", "ledger", "close"}
PCs == Awaits \cup Handlers \cup
       {"start", "planned", "turn", "clarify", "clarifyDone", "drain", "launch",
        "head", "result", "errored", "erroredDone", "answerDone"}

\* Where a _flush leads.
FlushThen == {"start", "turn", "clarify", "launch", "result"}

\* Without a conversation there is no transcript to read and nothing to clarify.
Parked ==
  /\ pc \in Awaits
  /\ pc \in {"resolve", "gate"} => request.conversation
  /\ pc = "gate" => ~request.skipClarify
Alive  == pc # "dead"

\* The last id a client received: what it reports as `after' when it resumes.
LastId(c) == IF got[c] = <<>> THEN 0 ELSE got[c][Len(got[c])]

-----------------------------------------------------------------------------
Init ==
  /\ request \in [regenerate : BOOLEAN, conversation : BOOLEAN, skipClarify : BOOLEAN]
  /\ mode \in Modes
  /\ IF request.regenerate THEN request.conversation /\ ~request.skipClarify
                           ELSE mode = "analyse"
  /\ pc = IF Mirrored THEN "open" ELSE "start"
  /\ after = "start" /\ then = "start" /\ exit = "normal"
  /\ inner = "none" /\ innerStop = FALSE
  /\ events = 0 /\ emitted = 0
  /\ writing = {} /\ saved = {} /\ lost = {}
  /\ frames = <<>> /\ done = FALSE
  /\ opened = FALSE /\ mirror = {} /\ flag = FALSE
  /\ conn = [c \in Clients |-> IF c = Creator THEN "local" ELSE "away"]
  /\ got = [c \in Clients |-> <<>>]
  /\ via = {} /\ drops = 0
  /\ stop = FALSE /\ stops = 0

-----------------------------------------------------------------------------
(* The log.                                                                *)

\* LocalTurn.append: next seq, and the log is done once a `done' is in it.
LogAppend(f) ==
  /\ frames' = Append(frames, f)
  /\ done' = (done \/ f \in Dones)

\* _run.publish: the log first, then the mirror, which may be awaited.
Publish(f, next) ==
  /\ LogAppend(f)
  /\ IF Mirrored THEN pc' = "mirrored" /\ after' = next
                 ELSE pc' = next /\ after' = after

\* Mutant: the stream id is the next seq, not the frame's own.
MirrorAppend_NextSeq ==
  /\ pc = "mirrored" /\ ~stop
  /\ mirror' = mirror \cup {Len(frames) + 1}
  /\ pc' = after
  /\ UNCHANGED <<request, mode, after, then, exit, pumped, rows, turn, opened, flag,
                 tabs, stop, stops>>

\* RedisTurnMirror.append: best effort, an error is logged and dropped.
MirrorAppend ==
  /\ pc = "mirrored" /\ ~stop
  /\ mirror' \in {mirror, mirror \cup {Len(frames)}}
  /\ pc' = after
  /\ UNCHANGED <<request, mode, after, then, exit, pumped, rows, turn, opened, flag,
                 tabs, stop, stops>>

\* RedisTurnMirror.open: the owner is recorded, or Redis was down.
MirrorOpen ==
  /\ pc = "open" /\ ~stop
  /\ opened' \in BOOLEAN
  /\ pc' = "start"
  /\ UNCHANGED <<request, mode, after, then, exit, pumped, rows, turn, mirror, flag,
                 tabs, stop, stops>>

-----------------------------------------------------------------------------
(* _produce up to the answering task.                                      *)

PublishStart ==
  /\ pc = "start"
  /\ Publish("start", "instructions")
  /\ UNCHANGED <<request, mode, then, exit, pumped, rows, redis, tabs, stop, stops>>

\* `await instructions.get', then the regenerate branch or classification.
Instructions ==
  /\ pc = "instructions" /\ ~stop
  /\ pc' = IF request.regenerate THEN "planned" ELSE "resolve"
  /\ UNCHANGED <<request, mode, after, then, exit, pumped, rows, turn, redis, tabs,
                 stop, stops>>

\* _regenerate names the mode of the answer it replaces, and runs it again.
PublishPlan ==
  /\ pc = "planned"
  /\ Publish("turn", "launch")
  /\ UNCHANGED <<request, mode, then, exit, pumped, rows, redis, tabs, stop, stops>>

\* A model call made outside the answering task may leave an event in the sink.
MayEmit ==
  \E n \in {0, 1} :
    /\ emitted + n <= MaxEvents
    /\ emitted' = emitted + n /\ events' = events + n

\* _resolve_turn: no decision for a first exchange, a stateless question or a
\* transcript that could not be read; otherwise the classifier's.
Resolve ==
  /\ pc = "resolve" /\ ~stop
  /\ \/ /\ pc' = "gate"
        /\ mode' = "analyse"
        /\ UNCHANGED <<then, emitted, events>>
     \/ /\ request.conversation
        /\ mode' \in Modes
        /\ MayEmit
        /\ pc' = "flush" /\ then' = "turn"
  /\ UNCHANGED <<request, after, exit, inner, innerStop, rows, turn, redis, tabs,
                 stop, stops>>

PublishTurn ==
  /\ pc = "turn"
  /\ Publish("turn", IF mode = "discuss" THEN "launch" ELSE "gate")
  /\ UNCHANGED <<request, mode, then, exit, pumped, rows, redis, tabs, stop, stops>>

\* _maybe_clarify, then a flush: one question back, or the answer as asked.
Gate ==
  /\ pc = "gate" /\ ~stop
  /\ IF request.skipClarify
     THEN pc' = "launch" /\ UNCHANGED <<then, emitted, events>>
     ELSE /\ MayEmit
          /\ then' \in IF request.conversation THEN {"clarify", "launch"} ELSE {"launch"}
          /\ pc' = "flush"
  /\ UNCHANGED <<request, mode, after, exit, inner, innerStop, rows, turn, redis, tabs,
                 stop, stops>>

\* Mutant: the `return' after the clarifying question is missing.
PublishClarify_NoReturn ==
  /\ \/ pc = "clarify" /\ Publish("clarify", "clarifyDone")
     \/ pc = "clarifyDone" /\ Publish("clarified", "launch")
  /\ UNCHANGED <<request, mode, then, exit, pumped, rows, redis, tabs, stop, stops>>

\* The question back ends the turn.
PublishClarify ==
  /\ \/ pc = "clarify" /\ Publish("clarify", "clarifyDone")
     \/ pc = "clarifyDone" /\ Publish("clarified", "ledger")
  /\ UNCHANGED <<request, mode, then, exit, pumped, rows, redis, tabs, stop, stops>>

\* _flush: a yield, then whatever the sink holds, one publish at a time.
Flush ==
  /\ pc = "flush" /\ ~stop
  /\ pc' = "drain"
  /\ UNCHANGED <<request, mode, after, then, exit, pumped, rows, turn, redis, tabs,
                 stop, stops>>

Drain ==
  /\ pc = "drain"
  /\ IF events > 0
     THEN Publish("step", "drain") /\ events' = events - 1
     ELSE pc' = then /\ UNCHANGED <<after, turn, events>>
  /\ UNCHANGED <<request, mode, then, exit, inner, innerStop, emitted, rows, redis,
                 tabs, stop, stops>>

-----------------------------------------------------------------------------
(* The answering task: run_query for an analysis, turn.discuss otherwise.  *)

Launch ==
  /\ pc = "launch"
  /\ inner' = "running" /\ pc' = "pump"
  /\ UNCHANGED <<request, mode, after, then, exit, innerStop, events, emitted, rows,
                 turn, redis, tabs, stop, stops>>

InnerEmit ==
  /\ inner = "running" /\ ~innerStop /\ Parked
  /\ emitted < MaxEvents
  /\ emitted' = emitted + 1 /\ events' = events + 1
  /\ UNCHANGED <<task, inner, innerStop, rows, turn, redis, tabs, stop, stops>>

\* The graph is through.  An analysis goes on to write its history row in a
\* worker thread; OrchestrationError is "refused", any other exception "raised".
InnerEnds ==
  /\ inner = "running" /\ ~innerStop /\ Parked
  /\ IF mode = "discuss"
     THEN inner' \in {"answer", "raised"} /\ writing' = writing
     ELSE \/ inner' \in {"refused", "raised"} /\ writing' = writing
          \/ inner' = "recording" /\ writing' = writing \cup {"history"}
  /\ UNCHANGED <<task, innerStop, events, emitted, saved, lost, turn, redis, tabs,
                 stop, stops>>

InnerRecorded ==
  /\ inner = "recording" /\ ~innerStop /\ Parked
  /\ "history" \notin writing
  /\ inner' = "answer"
  /\ UNCHANGED <<task, innerStop, events, emitted, rows, turn, redis, tabs, stop,
                 stops>>

\* The CancelledError reaches the answering task.  A thread it was waiting
\* for is not interrupted.
InnerCancelled ==
  /\ inner \in {"running", "recording"} /\ innerStop /\ Parked
  /\ inner' = "cancelled" /\ innerStop' = FALSE
  /\ UNCHANGED <<task, events, emitted, rows, turn, redis, tabs, stop, stops>>

\* A worker thread commits its row, or the database refused it.
ThreadEnds ==
  /\ \E r \in writing :
       /\ writing' = writing \ {r}
       /\ \/ saved' = saved \cup {r} /\ lost' = lost
          \/ lost' = lost \cup {r} /\ saved' = saved
  /\ UNCHANGED <<task, pumped, turn, redis, tabs, stop, stops>>

-----------------------------------------------------------------------------
(* _pump.                                                                  *)

\* Mutant: the loop waits for an answer, and never sees the task fail.
LoopHead_AnswerOnly ==
  IF inner = "answer" THEN pc' = "flush" /\ then' = "result"
                      ELSE pc' = "pump" /\ then' = then

\* `while not task.done()'.
LoopHead ==
  IF inner \in InnerDone THEN pc' = "flush" /\ then' = "result"
                         ELSE pc' = "pump" /\ then' = then

\* Back at the head of the loop once an event has been published.
PumpHead ==
  /\ pc = "head"
  /\ LoopHead
  /\ UNCHANGED <<request, mode, after, exit, pumped, rows, turn, redis, tabs, stop, stops>>

\* Mutant: wait_for in place of asyncio.timeout: an event that arrives as Stop
\* does swallows the cancellation (the comment at turn_runner.py:510-515).
PumpEvent_WaitFor ==
  /\ pc = "pump"
  /\ events > 0
  /\ events' = events - 1
  /\ stop' = FALSE
  /\ Publish("step", "head")
  /\ UNCHANGED <<request, mode, then, exit, inner, innerStop, emitted, rows, redis, tabs,
                 stops>>

\* The sink had an event within the poll interval: it is published.
PumpEvent ==
  /\ pc = "pump" /\ ~stop
  /\ events > 0
  /\ events' = events - 1
  /\ Publish("step", "head")
  /\ UNCHANGED <<request, mode, then, exit, inner, innerStop, emitted, rows, redis, tabs,
                 stop, stops>>

\* A quarter of a second without an event: ask the mirror about a remote Stop.
PumpTimeout ==
  /\ pc = "pump" /\ ~stop
  /\ events = 0
  /\ IF Mirrored THEN pc' = "ask" /\ then' = then ELSE LoopHead
  /\ UNCHANGED <<request, mode, after, exit, pumped, rows, turn, redis, tabs, stop,
                 stops>>

\* cancel_requested: FALSE too when Redis did not answer.  Cancelling a task
\* that has just finished does nothing.
PumpAsk ==
  /\ pc = "ask" /\ ~stop
  /\ innerStop' \in {innerStop, innerStop \/ (flag /\ inner \notin InnerDone)}
  /\ LoopHead
  /\ UNCHANGED <<request, mode, after, exit, inner, events, emitted, rows, turn, redis,
                 tabs, stop, stops>>

\* Mutant: the row is written behind the reader's back, after `done'.
Result_DoneFirst ==
  /\ pc = "result"
  /\ \/ /\ inner = "answer"
        /\ writing' = IF request.conversation THEN writing \cup {"transcript"} ELSE writing
        /\ pc' = "answerDone" /\ exit' = exit
     \/ /\ inner # "answer"
        /\ pc' = "ledger" /\ exit' = "failed" /\ writing' = writing
  /\ UNCHANGED <<request, mode, after, then, pumped, saved, lost, turn, redis, tabs,
                 stop, stops>>

\* `return task.result()', and what the caller does with it.
Result ==
  /\ pc = "result"
  /\ \/ /\ inner = "answer" /\ request.conversation
        /\ writing' = writing \cup {"transcript"}
        /\ pc' = "persisting" /\ exit' = exit
     \/ /\ inner = "answer" /\ ~request.conversation
        /\ pc' = "answerDone" /\ UNCHANGED <<writing, exit>>
     \/ /\ inner = "refused"
        /\ pc' = "errored" /\ UNCHANGED <<writing, exit>>
     \/ /\ inner = "raised"
        /\ pc' = "ledger" /\ exit' = "failed" /\ writing' = writing
     \/ /\ inner = "cancelled"
        /\ pc' = "ledger" /\ exit' = "cancelled" /\ writing' = writing
  /\ UNCHANGED <<request, mode, after, then, pumped, saved, lost, turn, redis, tabs,
                 stop, stops>>

\* A CancelledError inside _pump: the answering task has been cancelled too and
\* is waited out; a second one that lands here is suppressed.
Reap ==
  /\ pc = "reap" /\ inner \in InnerDone
  /\ stop' = FALSE
  /\ pc' = "ledger" /\ exit' = "cancelled"
  /\ UNCHANGED <<request, mode, after, then, pumped, rows, turn, redis, tabs, stops>>

-----------------------------------------------------------------------------
(* After the answer.                                                       *)

\* _persist_turn: store.append came back.  The trace and the title follow a
\* stored turn only.
Persisted ==
  /\ pc = "persisting" /\ ~stop
  /\ "transcript" \notin writing
  /\ pc' = IF "transcript" \in saved THEN "extras" ELSE "answerDone"
  /\ UNCHANGED <<request, mode, after, then, exit, pumped, rows, turn, redis, tabs, stop,
                 stops>>

Extras ==
  /\ pc = "extras" /\ ~stop
  /\ pc' = "answerDone"
  /\ UNCHANGED <<request, mode, after, then, exit, pumped, rows, turn, redis, tabs, stop,
                 stops>>

PublishOutcome ==
  /\ \/ pc = "answerDone" /\ Publish("answered", "ledger")
     \/ pc = "errored" /\ Publish("error", "erroredDone")
     \/ pc = "erroredDone" /\ Publish("failed", "ledger")
  /\ UNCHANGED <<request, mode, then, exit, pumped, rows, redis, tabs, stop, stops>>

\* The `finally' of _produce, then the handlers of _run.
Ledger ==
  /\ pc = "ledger" /\ ~stop
  /\ pc' = CASE exit = "normal" -> "finish"
             [] exit = "failed" -> "crashed"
             [] exit = "cancelled" -> "stopped"
  /\ UNCHANGED <<request, mode, after, then, exit, pumped, rows, turn, redis, tabs, stop,
                 stops>>

PublishStopped ==
  /\ pc = "stopped"
  /\ Publish("cancelled", "finish")
  /\ UNCHANGED <<request, mode, then, exit, pumped, rows, redis, tabs, stop, stops>>

PublishCrashed ==
  /\ \/ pc = "crashed" /\ Publish("error", "crashedDone")
     \/ pc = "crashedDone" /\ Publish("failed", "finish")
  /\ UNCHANGED <<request, mode, then, exit, pumped, rows, redis, tabs, stop, stops>>

\* Mutant: the log is closed by a `done' frame only.
Finish_Open ==
  /\ pc = "finish"
  /\ pc' = IF Mirrored THEN "close" ELSE "exit"
  /\ UNCHANGED <<request, mode, after, then, exit, pumped, rows, turn, redis, tabs,
                 stop, stops>>

\* LocalTurn.finish, whether or not a `done' frame was ever written.
Finish ==
  /\ pc = "finish"
  /\ done' = TRUE
  /\ pc' = IF Mirrored THEN "close" ELSE "exit"
  /\ UNCHANGED <<request, mode, after, then, exit, pumped, rows, frames, redis, tabs,
                 stop, stops>>

Close ==
  /\ pc = "close"
  /\ pc' = "exit" /\ stop' = FALSE
  /\ UNCHANGED <<request, mode, after, then, exit, pumped, rows, turn, redis, tabs, stops>>

-----------------------------------------------------------------------------
(* Cancellation.                                                           *)

\* What the task was in the middle of: a publish awaits for its continuation.
Doing == IF pc = "mirrored" THEN after ELSE pc

InPump ==
  \/ Doing \in {"pump", "ask", "head"}
  \/ Doing \in {"flush", "drain"} /\ then = "result"

\* Mutant: the answering task is neither cancelled nor waited for.
CancelDelivered_Orphan ==
  /\ stop /\ pc \notin {"reap", "close"}
  /\ stop' = FALSE
  /\ pc' = "stopped"
  /\ UNCHANGED <<request, mode, after, then, exit, pumped, rows, turn, redis, tabs, stops>>

\* The CancelledError of task.cancel() is thrown at the await the task is
\* parked at: a frame being mirrored is mirrored or not, and the code that was
\* running decides where the exception goes.
CancelDelivered ==
  /\ stop /\ pc \notin {"reap", "close"}
  /\ stop' = FALSE
  /\ mirror' \in IF pc = "mirrored" THEN {mirror, mirror \cup {Len(frames)}}
                                    ELSE {mirror}
  /\ IF InPump
     THEN /\ innerStop' = (inner \notin InnerDone)
          /\ IF inner \in InnerDone THEN pc' = "ledger" /\ exit' = "cancelled"
                                    ELSE pc' = "reap" /\ exit' = exit
     ELSE /\ innerStop' = innerStop
          /\ CASE Doing = "instructions" -> pc' = "stopped" /\ exit' = exit
               [] Doing \in {"finish", "crashedDone"} -> pc' = "finish" /\ exit' = exit
               [] pc = "ledger" -> pc' = "stopped" /\ exit' = "cancelled"
               [] OTHER -> pc' = "ledger" /\ exit' = "cancelled"
  /\ UNCHANGED <<request, mode, after, then, inner, events, emitted, rows, turn, opened,
                 flag, tabs, stops>>

\* A client names the turn by the request id its first frame carried.
Knows(c) == got[c] # <<>>

\* cancel_turn on the worker running the turn; refused once its task is over.
StopLocal(c) ==
  /\ Knows(c) /\ Parked
  /\ stops < MaxStops /\ stops' = stops + 1
  /\ stop' = TRUE
  /\ UNCHANGED <<task, pumped, rows, turn, redis, tabs>>

\* cancel_turn on the other worker: acknowledged once the key is set.
StopRemote(c) ==
  /\ Knows(c) /\ Mirrored /\ opened
  /\ stops < MaxStops /\ stops' = stops + 1
  /\ flag' = TRUE
  /\ UNCHANGED <<task, pumped, rows, turn, opened, mirror, tabs, stop>>

\* The worker process dies with the turn in it.  A write in flight has
\* reached the database or not; the log and its local readers are gone.
Crash ==
  /\ MayCrash /\ pc \notin {"exit", "dead"}
  /\ pc' = "dead"
  /\ writing' = {}
  /\ saved' \in {saved, saved \cup writing}
  /\ stop' = FALSE
  /\ conn' = [c \in Clients |-> IF conn[c] = "local" THEN "away" ELSE conn[c]]
  /\ UNCHANGED <<request, mode, after, then, exit, pumped, lost, turn, redis, got, via,
                 drops, stops>>

-----------------------------------------------------------------------------
(* follow: a reader of the log, on this worker or on the other one.        *)

\* Mutant: the reader is not let go at its `done' frame.
Receive_NoEnd(c, n) ==
  /\ got' = [got EXCEPT ![c] = Append(@, n)]
  /\ conn' = conn

\* The reader is let go at its `done' frame.
Receive(c, n) ==
  /\ got' = [got EXCEPT ![c] = Append(@, n)]
  /\ conn' = [conn EXCEPT ![c] = IF frames[n] \in Dones THEN "done" ELSE @]

\* Mutant: `frames[seq + 1:]', as if seq were 0-based.
FollowLocal_ZeroBased(c) ==
  /\ conn[c] = "local" /\ (Parked \/ pc = "exit")
  /\ LastId(c) + 1 < Len(frames)
  /\ Receive(c, LastId(c) + 2)
  /\ UNCHANGED <<task, pumped, rows, turn, redis, via, drops, stop, stops>>

\* wait_after returns frames[seq:]; they are yielded one by one.
FollowLocal(c) ==
  /\ conn[c] = "local" /\ (Parked \/ pc = "exit")
  /\ LastId(c) < Len(frames)
  /\ Receive(c, LastId(c) + 1)
  /\ UNCHANGED <<task, pumped, rows, turn, redis, via, drops, stop, stops>>

\* Mutant: a closed log is taken for a read one.
SynthesiseLocal_Unread(c) ==
  /\ conn[c] = "local" /\ (Parked \/ pc = "exit")
  /\ done
  /\ conn' = [conn EXCEPT ![c] = "synthetic"]
  /\ UNCHANGED <<task, pumped, rows, turn, redis, got, via, drops, stop, stops>>

\* The log is closed and read to its end, and its last frame was not a `done'.
SynthesiseLocal(c) ==
  /\ conn[c] = "local" /\ (Parked \/ pc = "exit")
  /\ done /\ Len(frames) <= LastId(c)
  /\ conn' = [conn EXCEPT ![c] = "synthetic"]
  /\ UNCHANGED <<task, pumped, rows, turn, redis, got, via, drops, stop, stops>>

\* Mutant: the range read from the stream includes the last id.
Unread_Inclusive(c) == {n \in mirror : n >= LastId(c)}

\* The range (id, +] of the stream.
Unread(c) == {n \in mirror : n > LastId(c)}

\* XREAD after the last id: the entries the stream has, in id order.
FollowRemote(c) ==
  /\ conn[c] = "remote"
  /\ \E n \in Unread(c) :
       /\ \A m \in Unread(c) : n <= m
       /\ Receive(c, n)
  /\ UNCHANGED <<task, pumped, rows, turn, redis, via, drops, stop, stops>>

\* REMOTE_IDLE_LIMIT_S without a frame: the reader is told the turn is over.
GiveUpRemote(c) ==
  /\ conn[c] = "remote"
  /\ Unread(c) = {}
  /\ conn' = [conn EXCEPT ![c] = "synthetic"]
  /\ UNCHANGED <<task, pumped, rows, turn, redis, got, via, drops, stop, stops>>

Drop(c) ==
  /\ conn[c] \in {"local", "remote"}
  /\ drops < MaxDrops /\ drops' = drops + 1
  /\ conn' = [conn EXCEPT ![c] = "away"]
  /\ UNCHANGED <<task, pumped, rows, turn, redis, got, via, stop, stops>>

\* resume_turn, on whichever worker the connection landed.  A client that has
\* seen no frame can still learn the id from another tab of the same user.
Resume(c) ==
  /\ conn[c] = "away"
  /\ \E b \in Clients : Knows(b)
  /\ \/ /\ Parked \/ pc = "exit"
        /\ conn' = [conn EXCEPT ![c] = "local"] /\ via' = via
     \/ /\ Mirrored /\ opened
        /\ conn' = [conn EXCEPT ![c] = "remote"] /\ via' = via \cup {c}
  /\ UNCHANGED <<task, pumped, rows, turn, redis, got, drops, stop, stops>>

-----------------------------------------------------------------------------
Produce ==
  \/ MirrorOpen \/ MirrorAppend \/ PublishStart \/ Instructions \/ PublishPlan
  \/ Resolve \/ PublishTurn \/ Gate \/ PublishClarify \/ Flush \/ Drain \/ Launch
  \/ PumpHead \/ PumpEvent \/ PumpTimeout \/ PumpAsk \/ Result \/ Reap
  \/ Persisted \/ Extras \/ PublishOutcome \/ Ledger \/ PublishStopped
  \/ PublishCrashed \/ Finish \/ Close \/ CancelDelivered

Answer == InnerEmit \/ InnerEnds \/ InnerRecorded \/ InnerCancelled

Follow(c) ==
  FollowLocal(c) \/ SynthesiseLocal(c) \/ FollowRemote(c) \/ GiveUpRemote(c)

Press(c) == StopLocal(c) \/ StopRemote(c)

Next ==
  \/ Produce \/ Answer \/ ThreadEnds \/ Crash
  \/ \E c \in Clients : Follow(c) \/ Press(c) \/ Drop(c) \/ Resume(c)

Spec == Init /\ [][Next]_vars

\* Every await of the task is bounded by a timeout (STREAM_BUDGET_S, the model
\* client's, the driver's), and a connected reader's loop keeps running.
Fairness ==
  /\ WF_vars(Produce) /\ WF_vars(Answer) /\ WF_vars(ThreadEnds)
  /\ \A c \in Clients : WF_vars(Follow(c))

FairSpec == Spec /\ Fairness

-----------------------------------------------------------------------------
(* Properties.                                                             *)

\* Every variable has its type.
TypeOK ==
  /\ request \in [regenerate : BOOLEAN, conversation : BOOLEAN, skipClarify : BOOLEAN]
  /\ mode \in Modes
  /\ pc \in PCs /\ after \in PCs /\ then \in FlushThen
  /\ exit \in {"normal", "failed", "cancelled"}
  /\ inner \in {"none", "running", "recording"} \cup InnerDone
  /\ innerStop \in BOOLEAN /\ stop \in BOOLEAN
  /\ events \in 0..MaxEvents /\ emitted \in 0..MaxEvents
  /\ writing \subseteq Rows /\ saved \subseteq Rows /\ lost \subseteq Rows
  /\ frames \in Seq(Events) /\ done \in BOOLEAN
  /\ opened \in BOOLEAN /\ flag \in BOOLEAN
  /\ mirror \subseteq 1..Len(frames)
  /\ conn \in [Clients -> {"away", "local", "remote", "done", "synthetic"}]
  /\ got \in [Clients -> Seq(Nat)]
  /\ via \subseteq Clients
  /\ drops \in 0..MaxDrops /\ stops \in 0..MaxStops

Published(f) == \E i \in 1..Len(frames) : frames[i] = f

\* A `done' frame is the last word of a turn, whichever of the error, cancel
\* and success paths wrote it, with one exception: a Stop that lands while the
\* spend is being recorded adds a `cancelled' after it.  A third never comes.
LastWord ==
  \A i, j \in 1..Len(frames) :
    (i < j /\ frames[i] \in Dones) => (j = i + 1 /\ frames[j] = "cancelled")

\* A client served only by the worker running the turn has, across any number
\* of dropped connections, received exactly the first frames of the log, each
\* once and in order (turn_log.py:117-139, turn_runner.py:168-215).
ExactlyOnce ==
  \A c \in Clients \ via :
    /\ \A i \in 1..Len(got[c]) : got[c][i] = i
    /\ Len(got[c]) <= Len(frames)

\* Also through the mirror, which may have lost frames, a client is never shown
\* a frame twice, out of order or before it was published.
NeverTwice ==
  \A c \in Clients : \A i \in 1..Len(got[c]) :
    /\ got[c][i] \in 1..Len(frames)
    /\ \A j \in 1..(i - 1) : got[c][j] < got[c][i]

\* A local reader is told that the turn ended without finishing only when no
\* `done' frame was ever written (turn_runner.py:207-211).
ToldTheTruth ==
  \A c \in Clients \ via :
    conn[c] = "synthetic" => \A i \in 1..Len(frames) : frames[i] \notin Dones

\* "a client that reloads immediately finds the turn already there": when the
\* answer's `done' is in the log its transcript row has been committed, unless
\* the database refused it (turn_runner.py:400-413).
AnswerIsStored ==
  (Published("answered") /\ request.conversation) => "transcript" \in saved \cup lost

\* Only a finished answer is ever written to the transcript: no interleaving
\* of Stop with the answering task leaves a half-written turn, "a record of
\* something that did not happen" (turn_runner.py:240-242).
NoHalfTurn ==
  "transcript" \in writing \cup saved \cup lost => inner = "answer"

\* No reader is told that a stored turn failed, or that it was a question back,
\* however its Stops and failures met.  What a reader may be told of a stored
\* turn is that it was cancelled: a Stop that lands while its rows are being
\* written does not take them back (see CancelledStoresNothing).
NoFalseFailure ==
  "transcript" \in writing \cup saved => ~Published("failed") /\ ~Published("clarified")

\* AnswerIsStored, NoHalfTurn and NoFalseFailure: an answer that was announced has
\* its row, only a finished answer ever has one, and a turn that has one is never
\* reported as failed.
TranscriptTrue == AnswerIsStored /\ NoHalfTurn /\ NoFalseFailure

\* A Stop has been delivered, to the turn or to its answering task.
Stopping ==
  \/ innerStop \/ inner = "cancelled" \/ exit = "cancelled"
  \/ pc \in {"reap", "stopped"}
  \/ Published("cancelled")

\* Outside the answering task, the code that asks the model: the classifier, the
\* gate and the title; and the creation of the answering task.
Asks == {"resolve", "gate", "extras", "launch"}

\* From the moment a Stop is delivered the turn begins no write, asks the model
\* nothing and starts no answering task, and the one it had goes nowhere but to
\* its own cancellation: not to its answer, nor to its history row.  What an
\* interrupted await had already handed to a thread may still commit.
NothingBegunAfterStop ==
  [][Stopping => /\ writing' \subseteq writing
                 /\ Doing' \notin Asks
                 /\ inner' \in {inner, "cancelled"}]_vars

\* A local Stop accepted while _produce runs ends in a `cancelled' frame,
\* wherever the task was parked and however many more Stops follow.
StopIsHeard ==
  (stop /\ Doing \notin {"finish", "crashedDone", "close"})
     ~> (Published("cancelled") \/ ~Alive)

\* No reader waits for ever: not for a task that died, nor for a worker that
\* did (turn_log.py:109-110, turn_runner.py:73-77).
EveryReaderLeaves ==
  \A c \in Clients : (conn[c] \in {"local", "remote"}) ~> (conn[c] \notin {"local", "remote"})

\* The turn's log is closed in the end, Stop or no Stop.
TurnEnds == <>(pc \in {"exit", "dead"})

-----------------------------------------------------------------------------
(* The turn keeps its promise to the readers of its own worker.            *)

Sealed == pc \in {"close", "exit", "dead"}

Promise == INSTANCE TurnPromise WITH
  Readers <- Clients, Frames <- Events, Finals <- Dones,
  log <- frames, sealed <- Sealed,
  shown <- [c \in Clients |-> LastId(c)],
  left <- [c \in Clients |-> CASE conn[c] = "done" -> "finished"
                               [] conn[c] = "synthetic" -> "told"
                               [] OTHER -> IF c \in via THEN "elsewhere" ELSE "no"]

\* Every behaviour of the code is one the promise allows, the other worker's readers
\* included (turn_log.py:11-15, turn_runner.py:12-19).
KeepsPromise == Promise!Spec

-----------------------------------------------------------------------------
(* What the repository says of a turn, and the code does not do.           *)

\* "A cancelled turn [...] ends with `done' and `cancelled: true'", "served by
\* either worker" (routes/chat.py:350-355): a Stop the other worker has flagged,
\* and answered with `cancelled: true', before the turn is done is heard.
RemoteStopIsHeard == (flag /\ ~done) ~> (Published("cancelled") \/ ~Alive)

\* "A cancelled turn persists nothing" (routes/chat.py:350, turn_runner.py:240): no
\* turn whose readers are told `cancelled', and are shown no answer, is stored.
CancelledStoresNothing ==
  (Published("cancelled") /\ ~Published("answered")) => "transcript" \notin saved
=============================================================================
