----------------------------- MODULE MCRequest -----------------------------
(***************************************************************************)
(* The small instances of MCRateLimit and MCAnswer side by side: the limit *)
(* a request meets, and the run and the stream of its answer.  A behaviour *)
(* of this module is a behaviour of one of them, with the other at rest.   *)
(***************************************************************************)
EXTENDS MCAnswer, MCRateLimit

VARIABLE instance

answerVars == <<part, vars, runVars>>
limitsVars == <<limitPart, limitVars, registryVars>>

\* The first of them have begun, whichever are interchangeable.
FirstOf(begun, all) == \A a, b \in all : a < b /\ b \in begun => a \in begun

\* Requests, turns and the counters not yet in use are interchangeable: they are numbers
\* that come in their order.
InOrder ==
  /\ FirstOf({r \in Requests : stage[r] # "new"}, Requests)
  /\ FirstOf(used, Counters)
  /\ FirstOf({t \in Turns : t \in running \/ finished[t] # 0}, Turns)

RequestInit ==
  /\ instance \in {"answer", "limits"}
  /\ MCInit /\ LimitsInit /\ redis = 1 /\ InOrder
  /\ instance = "limits" => part = "run" /\ ~reply
  /\ instance = "answer" => limitPart = "limit"

RequestNext ==
  /\ instance' = instance
  /\ \/ instance = "answer" /\ MCNext /\ UNCHANGED limitsVars
     \/ instance = "limits" /\ LimitsNext /\ InOrder' /\ UNCHANGED answerVars

RequestSpec ==
  /\ RequestInit /\ [][RequestNext]_<<instance, answerVars, limitsVars>>
  /\ AnswerFairness
=============================================================================
