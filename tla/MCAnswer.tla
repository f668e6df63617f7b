------------------------------ MODULE MCAnswer ------------------------------
(***************************************************************************)
(* Small instances of AnswerStream and QueryRun for TLC: what a reader     *)
(* sees while the merge writes, and the run around it.  The two share no   *)
(* state: a behaviour of this module is one of either, with the other at   *)
(* rest.                                                                   *)
(***************************************************************************)
EXTENDS AnswerStream

CONSTANTS a1, a2, Agents, MissingAgents, MaxRuns

ASSUME RunAssumption == MaxRuns \in Nat

VARIABLES
  part, phase, runs, method, scope, plan, route, status, degraded, web, served, reply, calls,
  history, ledger

Run == INSTANCE QueryRun WITH cached <- reply

runVars ==
  <<phase, runs, method, scope, plan, route, status, degraded, web, served, reply, calls, history,
    ledger>>

MCInit ==
  /\ part \in {"stream", "run"}
  /\ Init /\ Run!Init
  /\ part = "run" => keys = {} /\ cached = <<>>
  /\ part = "stream" => ~reply

MCNext ==
  /\ part' = part
  /\ \/ part = "stream" /\ Next /\ UNCHANGED runVars
     \/ part = "run" /\ Run!Next /\ UNCHANGED vars

AnswerFairness ==
  /\ WF_vars(part = "stream" /\ Call) /\ WF_vars(part = "stream" /\ Read)
  /\ WF_vars(part = "stream" /\ Served)
  /\ WF_runVars(part = "run" /\ Run!RunStep) /\ WF_runVars(part = "run" /\ Run!WebEnds)

MCSpec == MCInit /\ [][MCNext]_<<part, vars, runVars>> /\ AnswerFairness

\* TypeOK of both, and NothingUngroundedShown, OneAttemptShown and DraftIsTheAnswer of the
\* stream: what a reader sees is grounded, of one attempt, and what is served in the end.
OneAnswerShown ==
  /\ TypeOK /\ Run!TypeOK
  /\ NothingUngroundedShown /\ OneAttemptShown /\ DraftIsTheAnswer
\* NothingLeftRunning and LossIsMarked of the run: an answer or a failure leaves no work
\* behind, and a lost agent shows and costs the others nothing.
RunSettled == Run!NothingLeftRunning /\ Run!LossIsMarked
\* RunEnds of the run and MergeEnds of the stream: every question is answered, fails or is
\* stopped, and the stream of its answer with it.
QuestionsEnd ==
  /\ part = "run" /\ phase = "routing" ~> phase \in Run!Over
  /\ part = "stream" /\ step = "start" ~> step \in {"done", "stopped"}
=============================================================================
