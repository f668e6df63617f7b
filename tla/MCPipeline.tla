----------------------------- MODULE MCPipeline -----------------------------
(***************************************************************************)
(* The small instance of MCChatTurn and the inputs of MCAlgorithms side by *)
(* side: a turn, and what is computed in one.  A behaviour of this module  *)
(* is a behaviour of one of them, with the other at rest.                  *)
(***************************************************************************)
EXTENDS MCChatTurn, MCAlgorithms

VARIABLE instance

inputVars == <<algorithm, input>>

PipelineInit ==
  /\ instance \in {"turn", "algorithms"}
  /\ Init /\ AlgorithmsInit
  /\ instance = "turn" => algorithm = "route"
  /\ instance = "algorithms" =>
       request = [regenerate |-> FALSE, conversation |-> TRUE, skipClarify |-> FALSE]

PipelineNext ==
  /\ instance' = instance
  /\ \/ instance = "turn" /\ MCNext /\ UNCHANGED inputVars
     \/ instance = "algorithms" /\ AlgorithmsNext /\ UNCHANGED vars

PipelineSpec == PipelineInit /\ [][PipelineNext]_<<instance, vars, inputVars>>
=============================================================================
