---------------------------- MODULE AnswerStream ----------------------------
(***************************************************************************)
(* The merge call and the draft it shows while the model writes: the call  *)
(* with its cache, retries and failsafe (src/ceynex/llm/client.py), the    *)
(* gate that lets whole grounded sentences through                         *)
(* (src/ceynex/orchestrator/answer_stream.py), the bounded queue they      *)
(* travel in (src/ceynex/observability/trace.py) and the reader's draft.   *)
(* A text is a sequence of sentences; a piece of a streamed text is one    *)
(* sentence, whose end shows when the next one begins.                     *)
(***************************************************************************)
EXTENDS Integers, Sequences, SequencesExt

CONSTANTS
  Attempts,    \* calls to the primary model: max_retries + 1
  MaxPieces,   \* sentences of one text
  QueueLimit   \* DEFAULT_MAX_QUEUED

ASSUME StreamAssumption ==
  Attempts \in Nat \ {0} /\ MaxPieces \in Nat \ {0} /\ QueueLimit \in Nat \ {0}

VARIABLES
  step,        \* where generate and merge are
  keys,        \* the providers that are configured
  source,      \* whose text is being read: 0 the cache, 1..Attempts, then the failsafe
  parts,       \* the text read so far from it
  cached,      \* the prompt cache's entry
  buffer, released, held,   \* SentenceGate
  prose,       \* what generate returned; empty for None
  queue,       \* TraceSink.queue
  dropped,     \* TraceSink.dropped > 0
  draft        \* what the reader has on screen

gate == <<buffer, released, held>>
live == <<queue, dropped>>
call == <<keys, source, parts, cached>>
vars == <<step, call, gate, prose, live, draft>>

Failsafe == Attempts + 1
Sources == 0..Failsafe
Kinds == {"grounded", "ungrounded", "verdict"}
Sentence == [from : Sources, kind : Kinds]
Reset == [event |-> "reset"]
Delta(s) == [event |-> "delta", text |-> s]

TypeOK ==
  /\ step \in {"start", "primary", "failsafe", "merge", "closed", "stopped", "done"}
  /\ keys \subseteq {"primary", "failsafe"} /\ source \in Sources
  /\ parts \in Seq(Sentence) /\ Len(parts) <= MaxPieces
  /\ cached \in Seq(Sentence) /\ Len(cached) <= MaxPieces
  /\ buffer \in Seq(Sentence) /\ released \in Seq(Sentence) /\ held \in BOOLEAN
  /\ Len(buffer) + Len(released) <= MaxPieces
  /\ prose \in Seq(Sentence) /\ dropped \in BOOLEAN /\ draft \in Seq(Sentence)
  /\ Len(queue) <= QueueLimit /\ \A i \in DOMAIN queue :
       queue[i] = Reset \/ \E s \in Sentence : queue[i] = Delta(s)

Init ==
  /\ step = "start" /\ keys \in SUBSET {"primary", "failsafe"}
  /\ source = 0 /\ parts = <<>>
  /\ cached \in {<<>>} \cup [1..1 -> [from : {0}, kind : Kinds]]
  /\ buffer = <<>> /\ released = <<>> /\ held = FALSE
  /\ prose = <<>> /\ queue = <<>> /\ dropped = FALSE /\ draft = <<>>

-----------------------------------------------------------------------------
(* The gate and the queue behind it.                                       *)

\* ungrounded_figures found none.
Grounded(s) == s.kind # "ungrounded"
FirstBad(t) == {i \in DOMAIN t : ~Grounded(t[i]) /\ \A j \in 1..(i - 1) : Grounded(t[j])}

\* Events on a full queue are dropped and counted.
Emit(events) ==
  LET fits == QueueLimit - Len(queue)
  IN /\ queue' = queue \o SubSeq(events, 1, IF fits < Len(events) THEN fits ELSE Len(events))
     /\ dropped' = (dropped \/ Len(events) > fits)

Shown(t) == [i \in DOMAIN t |-> Delta(t[i])]

\* Sentences of `whole' are released up to the first that fails its check, which is
\* held with everything after it; `rest' has no end yet.
Release(whole, rest) ==
  LET bad == FirstBad(whole)
      good == IF bad = {} THEN whole ELSE SubSeq(whole, 1, (CHOOSE i \in bad : TRUE) - 1)
  IN /\ released' = released \o good
     /\ held' = (bad # {})
     /\ buffer' = IF bad = {} THEN rest ELSE SubSeq(whole \o rest, Len(good) + 1, Len(whole \o rest))
     /\ Emit(Shown(good))

\* SentenceGate.feed.
Feed(text) ==
  LET all == buffer \o text
  IN IF held THEN UNCHANGED <<gate, live>> ELSE Release(Front(all), <<Last(all)>>)

Empty == released' = <<>> /\ buffer' = <<>> /\ held' = FALSE

\* SentenceGate.restart: what the last attempt showed is withdrawn.
Restart == Empty /\ Emit(IF released = <<>> THEN <<>> ELSE <<Reset>>)

\* restart, then feed of a whole text (the failsafe's, without its verdict).
Replace(text) ==
  LET whole == IF text = <<>> THEN <<>> ELSE Front(text)
      bad == FirstBad(whole)
      good == IF bad = {} THEN whole ELSE SubSeq(whole, 1, (CHOOSE i \in bad : TRUE) - 1)
  IN /\ released' = good /\ held' = (bad # {})
     /\ buffer' = SubSeq(text, Len(good) + 1, Len(text))
     /\ Emit((IF released = <<>> THEN <<>> ELSE <<Reset>>) \o Shown(good))

-----------------------------------------------------------------------------
(* LLMClient.generate.                                                     *)

\* _without_verdict: the verdict lines a text begins with are taken off.
WithoutVerdict(t) ==
  LET kept == {i \in DOMAIN t : t[i].kind # "verdict"}
  IN IF kept = {} THEN <<>>
     ELSE SubSeq(t, CHOOSE i \in kept : \A j \in kept : i <= j, Len(t))

\* An entry of the cache, unless this role bypasses it; one with a verdict goes.
Hit ==
  /\ step = "start" /\ cached # <<>> /\ WithoutVerdict(cached) = cached
  /\ Feed(cached)
  /\ prose' = cached /\ step' = "merge"
  /\ UNCHANGED <<call, draft>>

\* Past the cache, which a retried turn bypasses: no provider, one over its budget, or the
\* first attempt.
Miss ==
  /\ step = "start"
  /\ cached' \in IF WithoutVerdict(cached) = cached THEN {cached} ELSE {<<>>, cached}
  /\ \/ /\ keys = {} /\ step' = "merge" /\ UNCHANGED <<source, gate, live>>
     \/ /\ "primary" \in keys
        /\ step' = "primary" /\ source' = 1 /\ Restart
     \/ /\ "failsafe" \in keys
        /\ step' = "failsafe" /\ source' = Failsafe /\ Restart
     \/ /\ keys = {"primary"}   \* over budget and no failsafe
        /\ step' = "merge" /\ UNCHANGED <<source, gate, live>>
  /\ UNCHANGED <<keys, parts, prose, draft>>

\* A piece of the text is read and fed; a verdict is only ever how a text begins.
Piece ==
  /\ step \in {"primary", "failsafe"} /\ Len(parts) < MaxPieces
  /\ \E kind \in Kinds :
       LET s == [from |-> source, kind |-> kind]
       IN /\ kind = "verdict" => step = "failsafe" /\ WithoutVerdict(parts) = <<>>
          /\ parts' = Append(parts, s) /\ Feed(<<s>>)
  /\ UNCHANGED <<step, keys, source, cached, prose, draft>>

\* The primary's text is whole: returned as it is, and cached unless empty.
Answered ==
  /\ step = "primary"
  /\ prose' = parts /\ step' = "merge"
  /\ cached' = IF parts = <<>> THEN cached ELSE parts
  /\ UNCHANGED <<keys, source, parts, gate, live, draft>>

\* Mutant: attempts are made for as long as they fail.
Broken_Again ==
  /\ step = "primary" /\ parts' = <<>> /\ Restart
  /\ UNCHANGED <<step, keys, source, cached, prose, draft>>

\* An error or a timeout: another attempt, the failsafe, or nothing.
Broken ==
  /\ step = "primary" /\ parts' = <<>>
  /\ \/ /\ source < Attempts
        /\ source' = source + 1 /\ step' = step /\ Restart
     \/ /\ source = Attempts /\ "failsafe" \in keys
        /\ source' = Failsafe /\ step' = "failsafe" /\ Restart
     \/ /\ source = Attempts /\ "failsafe" \notin keys
        /\ step' = "merge" /\ UNCHANGED <<source, gate, live>>
  /\ UNCHANGED <<keys, cached, prose, draft>>

\* The failsafe's text, without the verdict it may begin with; a verdict and
\* nothing else is a failure.
FailsafeAnswered ==
  LET text == WithoutVerdict(parts)
  IN /\ step = "failsafe" /\ step' = "merge"
     /\ prose' = text
     /\ cached' = IF text = <<>> THEN cached ELSE text
     /\ IF text # parts THEN Replace(text) ELSE UNCHANGED <<gate, live>>
     /\ UNCHANGED <<keys, source, parts, draft>>

FailsafeBroken ==
  /\ step = "failsafe" /\ step' = "merge"
  /\ UNCHANGED <<call, gate, prose, live, draft>>

-----------------------------------------------------------------------------
(* merge, the reader and Stop.                                             *)

\* _reject_ungrounded_prose: the same check over the whole text.
Accepted == prose # <<>> /\ FirstBad(prose) = {}

\* Mutant: the last sentence, which has no end, is left in the buffer.
Close_Buffered ==
  /\ step = "merge" /\ step' = "closed"
  /\ IF Accepted THEN UNCHANGED live
     ELSE Emit(IF released = <<>> THEN <<>> ELSE <<Reset>>)
  /\ buffer' = <<>> /\ UNCHANGED <<call, released, held, prose, draft>>

\* SentenceGate.close with the verdict on the prose.
Close ==
  /\ step = "merge" /\ step' = "closed"
  /\ IF Accepted
     THEN IF held THEN Emit(<<Reset>>) /\ buffer' = <<>> /\ UNCHANGED <<released, held>>
                  ELSE Release(buffer, <<>>)
     ELSE /\ Emit(IF released = <<>> THEN <<>> ELSE <<Reset>>)
          /\ buffer' = <<>> /\ UNCHANGED <<released, held>>
  /\ UNCHANGED <<call, prose, draft>>

\* The pump takes an event of the queue to the reader.
Read ==
  /\ queue # <<>> /\ step # "done"
  /\ queue' = Tail(queue)
  /\ draft' = IF Head(queue) = Reset THEN <<>> ELSE Append(draft, Head(queue).text)
  /\ UNCHANGED <<step, call, gate, prose, dropped>>

\* The done frame comes when the queue is drained and replaces the draft.
Served ==
  /\ step = "closed" /\ queue = <<>>
  /\ step' = "done" /\ draft' = IF Accepted THEN prose ELSE <<>>
  /\ UNCHANGED <<call, gate, prose, live>>

\* Stop, or the deadline of the run: the call is cancelled and the gate not closed.
Cancel ==
  /\ step \in {"start", "primary", "failsafe"}
  /\ step' = "stopped"
  /\ UNCHANGED <<call, gate, prose, live, draft>>

Call == Hit \/ Miss \/ Piece \/ Answered \/ Broken \/ FailsafeAnswered \/ FailsafeBroken \/ Close

Next == Call \/ Read \/ Served \/ Cancel

\* The call is bounded by its timeout and the pump drains the queue.
Fair == WF_vars(Call) /\ WF_vars(Read) /\ WF_vars(Served)

Spec == Init /\ [][Next]_vars /\ Fair

-----------------------------------------------------------------------------
(* Properties.                                                             *)

OnTheWay == {queue[i].text : i \in {j \in DOMAIN queue : queue[j] # Reset}}

\* No sentence with a figure the findings do not support is ever shown or on its way
\* to the reader, whatever was dropped, retried or replaced.
NothingUngroundedShown ==
  step # "done" => \A s \in OnTheWay \cup ToSet(draft) : Grounded(s)

\* While no event was dropped the draft never mixes two attempts of the model.
OneAttemptShown == ~dropped => \A s, t \in ToSet(draft) : s.from = t.from

\* Once the merge is over and the queue drained, and no event was dropped, the draft
\* is the prose that will be served, or nothing when it will not be: what the done
\* frame puts in its place takes nothing back and adds no sentence of the model's.
DraftIsTheAnswer ==
  step = "closed" /\ queue = <<>> /\ ~dropped => draft = (IF Accepted THEN prose ELSE <<>>)

\* An answer or its withdrawal comes in the end, or the turn was stopped.
MergeEnds == step = "start" ~> step \in {"done", "stopped"}
=============================================================================
