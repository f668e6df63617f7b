---------------------------- MODULE Conversation ----------------------------
(***************************************************************************)
(* One stored conversation and the turns that race on it from several tabs *)
(* and both workers: the statements of src/ceynex/chat/store.py and        *)
(* src/ceynex/observability/ledger.py, in the order the routes of          *)
(* src/ceynex/api/routes/chat.py and src/ceynex/api/turn_runner.py issue   *)
(* them.  An action is one statement or one transaction of PostgreSQL      *)
(* (read committed); between two of them anything else may run.  The       *)
(* database itself is up.                                                  *)
(***************************************************************************)
EXTENDS Integers, FiniteSets

CONSTANTS
  Turns,        \* requests that start a turn in this conversation
  NoTurn,
  MayClarify    \* TRUE when the gate is enabled

ASSUME ConversationAssumption ==
  IsFiniteSet(Turns) /\ NoTurn \notin Turns /\ MayClarify \in BOOLEAN

VARIABLES
  exists,    \* the chat_conversation row
  title,     \* its title: none, one the model gave it, one its owner chose
  nextId,    \* the serial of chat_message
  messages,  \* the chat_message rows
  traces,    \* the turns whose chat_trace_event rows are stored
  pending,   \* turn -> the state of the question it asked back
  spend,     \* the llm_usage rows, by turn and by who recorded them
  pc,        \* turn -> where it is
  from,      \* turn -> the message it regenerates; 0 for none
  answers,   \* turn -> the turn whose question back it answers
  saw,       \* turn -> the ids in the transcript it read
  base       \* turn -> the max(seq) its append read

db   == <<exists, title, nextId, messages, traces, pending, spend>>
vars == <<db, pc, from, answers, saw, base>>

PCs == {"new", "refused", "reading", "gate", "answering", "append", "appending",
        "trace", "title", "ledger", "over", "lost"}

Init ==
  /\ exists = TRUE /\ title = "none"
  /\ nextId = 1 /\ messages = {} /\ traces = {} /\ spend = {}
  /\ pending = [t \in Turns |-> "none"]
  /\ pc = [t \in Turns |-> "new"]
  /\ from = [t \in Turns |-> 0]
  /\ answers = [t \in Turns |-> NoTurn]
  /\ saw = [t \in Turns |-> {}]
  /\ base = [t \in Turns |-> 0]

Goto(t, where) == pc' = [pc EXCEPT ![t] = where]

\* A turn adds two rows at most.
Limit == 2 * Cardinality(Turns)

IsAnswer(m) == m.role = "assistant"
Ids         == {m.id : m \in messages}

\* The answer a transcript ordered by seq ends with; rows of one seq are in any
\* order.
LatestAnswer(m) ==
  m \in messages /\ IsAnswer(m) /\ \A n \in messages : IsAnswer(n) => n.seq <= m.seq

\* coalesce(max(seq), 0) of the conversation's rows is s.
IsMaxSeq(s) ==
  /\ \A m \in messages : m.seq <= s
  /\ s = 0 \/ \E m \in messages : m.seq = s

-----------------------------------------------------------------------------
(* The routes.                                                             *)

\* chat_stream: `owns', then the turn's task.
Ask(t) ==
  /\ pc[t] = "new"
  /\ Goto(t, IF exists THEN "reading" ELSE "refused")
  /\ UNCHANGED <<db, from, answers, saw, base>>

\* answer_clarification: the pending row is claimed by a conditional UPDATE.
Claim(t) ==
  /\ pc[t] = "new"
  /\ \E p \in Turns :
       /\ pending[p] = "open"
       /\ pending' = [pending EXCEPT ![p] = "resolved"]
       /\ answers' = [answers EXCEPT ![t] = p]
  /\ Goto(t, "reading")
  /\ UNCHANGED <<exists, title, nextId, messages, traces, spend, from, saw, base>>

\* regenerate: the transcript is read and only its latest answer accepted.
Regenerate(t) ==
  /\ pc[t] = "new"
  /\ \E m \in messages :
       /\ IsAnswer(m)
       /\ IF LatestAnswer(m)
          THEN /\ from' = [from EXCEPT ![t] = m.id]
               /\ saw' = [saw EXCEPT ![t] = Ids]
               /\ Goto(t, "answering")
          ELSE /\ UNCHANGED <<from, saw>>
               /\ Goto(t, "refused")
  /\ UNCHANGED <<db, answers, base>>

-----------------------------------------------------------------------------
(* The turn.                                                               *)

\* The first exchange of a conversation, the only one it is named from.
First(t) == from[t] = 0 /\ \A m \in messages : ~(m.id \in saw[t] /\ IsAnswer(m))

\* _resolve_turn reads the transcript.  A discussion skips the gate, and so
\* does the answer to a question back.
Read(t) ==
  /\ pc[t] = "reading"
  /\ saw' = [saw EXCEPT ![t] = Ids]
  /\ \/ answers[t] = NoTurn /\ Goto(t, "gate")
     \/ answers[t] # NoTurn /\ Goto(t, "answering")
     \/ (\E m \in messages : IsAnswer(m)) /\ Goto(t, "answering")
  /\ UNCHANGED <<db, from, answers, base>>

\* _maybe_clarify: a question back is stored and ends the turn; if it cannot be
\* stored, or the model vetoes it, the turn answers as asked.
Gate(t) ==
  /\ pc[t] = "gate"
  /\ \/ /\ MayClarify /\ exists
        /\ pending' = [pending EXCEPT ![t] = "open"]
        /\ Goto(t, "ledger")
     \/ /\ pending' = pending
        /\ Goto(t, "answering")
  /\ UNCHANGED <<exists, title, nextId, messages, traces, spend, from, answers, saw, base>>

\* An INSERT that names the conversation fails once it is gone.
Charge(t, by) == spend' = IF exists THEN spend \cup {<<t, by>>} ELSE spend

\* The answer is there.  An analysis has recorded the graph's model calls; a
\* discussion, which needs an answer to discuss, leaves that to its turn.
Answer(t) ==
  /\ pc[t] = "answering"
  /\ \/ Charge(t, "graph")
     \/ /\ from[t] # 0 \/ ~First(t)
        /\ spend' = spend
  /\ Goto(t, "append")
  /\ UNCHANGED <<exists, title, nextId, messages, traces, pending, from, answers, saw, base>>

\* Mutant: the sequence goes on from the number of questions.
AppendRead_Questions(t) ==
  /\ pc[t] = "append"
  /\ base' = [base EXCEPT ![t] = Cardinality({m \in messages : ~IsAnswer(m)})]
  /\ Goto(t, IF exists THEN "appending" ELSE "trace")
  /\ UNCHANGED <<db, from, answers, saw>>

\* _append_sync: the conversation is looked up and max(seq) read.
AppendRead(t) ==
  /\ pc[t] = "append"
  /\ \E s \in 0..Limit : IsMaxSeq(s) /\ base' = [base EXCEPT ![t] = s]
  /\ Goto(t, IF exists THEN "appending" ELSE "trace")
  /\ UNCHANGED <<db, from, answers, saw>>

Row(t, role, n) ==
  [id |-> nextId + n, seq |-> base[t] + 1 + n, role |-> role, of |-> t,
   from |-> IF role = "assistant" THEN from[t] ELSE 0]

\* ... and the rows are inserted and committed, the question's only when it is
\* new.  The foreign key refuses them if the conversation is gone by now.
AppendCommit(t) ==
  /\ pc[t] = "appending"
  /\ IF exists
     THEN LET rows == IF from[t] # 0 THEN {Row(t, "assistant", 0)}
                                     ELSE {Row(t, "user", 0), Row(t, "assistant", 1)}
          IN  /\ messages' = messages \cup rows
              /\ nextId' = nextId + Cardinality(rows)
              /\ Goto(t, "trace")
     ELSE /\ UNCHANGED <<messages, nextId>>
          /\ Goto(t, "ledger")
  /\ UNCHANGED <<exists, title, traces, pending, spend, from, answers, saw, base>>

\* save_trace, also when `append' found the conversation gone.
SaveTrace(t) ==
  /\ pc[t] = "trace"
  /\ traces' = IF exists THEN traces \cup {t} ELSE traces
  /\ Goto(t, IF First(t) THEN "title" ELSE "ledger")
  /\ UNCHANGED <<exists, title, nextId, messages, pending, spend, from, answers, saw, base>>

\* Mutant: the title that was unset when the turn began is written.
SetTitle_Over(t) ==
  /\ pc[t] = "title"
  /\ title' = IF exists THEN "generated" ELSE title
  /\ Goto(t, "ledger")
  /\ UNCHANGED <<exists, nextId, messages, traces, pending, spend, from, answers, saw, base>>

\* set_title_if_unset: `WHERE title IS NULL', in the statement.
SetTitle(t) ==
  /\ pc[t] = "title"
  /\ title' = IF exists /\ title = "none" THEN "generated" ELSE title
  /\ Goto(t, "ledger")
  /\ UNCHANGED <<exists, nextId, messages, traces, pending, spend, from, answers, saw, base>>

\* The turn's own model calls, in the `finally' of _produce.
Ledger(t) ==
  /\ pc[t] = "ledger"
  /\ Charge(t, "turn")
  /\ Goto(t, "over")
  /\ UNCHANGED <<exists, title, nextId, messages, traces, pending, from, answers, saw, base>>

\* The worker dies: an open transaction is rolled back.
Crash(t) ==
  /\ pc[t] \notin {"new", "refused", "over", "lost"}
  /\ Goto(t, "lost")
  /\ UNCHANGED <<db, from, answers, saw, base>>

-----------------------------------------------------------------------------
(* The owner, in the sidebar.                                              *)

Rename ==
  /\ exists
  /\ title' = "chosen"
  /\ UNCHANGED <<exists, nextId, messages, traces, pending, spend, pc, from, answers,
                 saw, base>>

\* The row goes; its messages, traces and questions go with it by ON DELETE
\* CASCADE, its spend stays by ON DELETE SET NULL.
Delete ==
  /\ exists
  /\ exists' = FALSE
  /\ messages' = {} /\ traces' = {}
  /\ pending' = [t \in Turns |-> IF pending[t] = "none" THEN "none" ELSE "deleted"]
  /\ UNCHANGED <<title, nextId, spend, pc, from, answers, saw, base>>

\* A question back is stale within the hour.
Expire(p) ==
  /\ pending[p] = "open"
  /\ pending' = [pending EXCEPT ![p] = "expired"]
  /\ UNCHANGED <<exists, title, nextId, messages, traces, spend, pc, from, answers,
                 saw, base>>

Next ==
  \/ Rename \/ Delete
  \/ \E t \in Turns :
       \/ Ask(t) \/ Claim(t) \/ Regenerate(t) \/ Read(t) \/ Gate(t) \/ Answer(t)
       \/ AppendRead(t) \/ AppendCommit(t) \/ SaveTrace(t) \/ SetTitle(t) \/ Ledger(t)
       \/ Crash(t) \/ Expire(t)

Spec == Init /\ [][Next]_vars

-----------------------------------------------------------------------------
\* Every variable has its type.
TypeOK ==
  /\ exists \in BOOLEAN /\ title \in {"none", "generated", "chosen"}
  /\ nextId \in 1..(Limit + 1)
  /\ \A m \in messages :
       /\ m.id \in 1..(nextId - 1) /\ m.seq \in 1..Limit
       /\ m.role \in {"user", "assistant"} /\ m.of \in Turns /\ m.from \in 0..Limit
  /\ traces \subseteq Turns
  /\ pending \in [Turns -> {"none", "open", "resolved", "expired", "deleted"}]
  /\ spend \subseteq Turns \X {"graph", "turn"}
  /\ pc \in [Turns -> PCs]
  /\ from \in [Turns -> 0..Limit] /\ base \in [Turns -> 0..Limit]
  /\ answers \in [Turns -> Turns \cup {NoTurn}]
  /\ saw \in [Turns -> SUBSET (1..Limit)]

\* A message stands after every message its turn had read, however the appends
\* interleave: a follow-up after the answer it follows up, a new version after
\* the one it replaces (store.py:478-484).
AfterWhatItRead ==
  \A m, n \in messages : n.id \in saw[m.of] => n.seq < m.seq

\* What is deleted is gone, and no turn still under way brings any of it back
\* (store.py:400-406, 96-103).
NothingAfterDelete ==
  ~exists => /\ messages = {} /\ traces = {}
             /\ \A t \in Turns : pending[t] # "open"

\* One question back per turn: it is answered by one turn at most, on whichever
\* worker, and that turn asks none itself (routes/chat.py:208-212).
OneRound ==
  \A t \in Turns : answers[t] # NoTurn =>
    /\ pending[t] = "none"
    /\ \A u \in Turns \ {t} : answers[u] # answers[t]

\* A name the owner chose is never replaced by a generated one, whatever the
\* turn had read before (store.py:373-380).
ChosenTitleKept == [][title = "chosen" => title' = "chosen"]_vars
=============================================================================
