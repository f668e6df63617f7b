------------------------------ MODULE QueryRun ------------------------------
(***************************************************************************)
(* One question after another through the graph: the route and the plan    *)
(* side by side, the routed agents in parallel, each in its own slice of   *)
(* the time, the merge, the web search beside them, and what is written    *)
(* when the answer is there (src/ceynex/orchestrator/graph.py, planner.py, *)
(* src/ceynex/api/query_runner.py).  The question is always the same one,  *)
(* so the router's cached reply is read again.                             *)
(***************************************************************************)
EXTENDS Integers, FiniteSets

CONSTANTS
  Agents,     \* ALL_AGENTS
  MissingAgents,   \* those of EXTERNAL_AGENTS whose module is not there
  MaxRuns     \* bound: questions asked

VARIABLES
  phase,      \* where run_query is
  runs,       \* questions asked so far
  method,     \* how the route was decided
  scope,      \* "in", "mixed" (out_of_scope) or "none" (nothing in scope)
  plan,       \* who wrote the plan shown
  route, status,   \* the routed agents, and how each came out
  degraded,   \* AgentState.degraded, an or-reducer
  web,        \* the web search's task
  served,     \* the response
  cached,     \* the prompt cache holds the router's reply to this question
  calls,      \* observation.usage.calls
  history, ledger    \* the rows of this run

decision == <<method, scope, plan, route>>
agents == <<status, degraded>>
written == <<history, ledger>>
vars == <<phase, runs, decision, agents, web, served, cached, calls, written>>

Answers == {"ok", "partial", "bare", "declined"}   \* partial: degraded; bare: no evidence
Losses == {"failed", "timeout", "raised"}
Over == {"answered", "failed", "stopped"}
InGraph == {"routing", "running", "merging"}
Working == InGraph \cup {"searching", "assembling", "saving", "charging"}
Nothing == [answer |-> "nothing"]
Responses ==
  [answer : {"prose", "rules", "nothing"}, agents : SUBSET Agents, evidence : BOOLEAN,
   web : BOOLEAN, graph : BOOLEAN, degraded : BOOLEAN, mergeFailed : BOOLEAN]

TypeOK ==
  /\ phase \in {"idle"} \cup Working \cup Over /\ runs \in 0..MaxRuns
  /\ method \in {"none", "keyword", "llm", "cached", "llm->keyword"}
  /\ scope \in {"in", "mixed", "none"} /\ plan \in {"none", "deterministic", "llm"}
  /\ route \subseteq Agents
  /\ status \in [Agents -> {"idle", "running", "cancelled"} \cup Answers \cup Losses]
  /\ {a \in Agents : status[a] # "idle"} \subseteq route
  /\ degraded \in BOOLEAN /\ web \in {"none", "running", "results", "failed", "cancelled"}
  /\ served \in Responses \cup {Nothing}
  /\ served # Nothing <=> phase \in {"searching", "assembling", "saving", "charging", "answered"}
  /\ cached \in BOOLEAN /\ calls \subseteq {"router", "merge"} \cup Agents
  /\ history \in BOOLEAN /\ ledger \subseteq {"router", "merge"} \cup Agents

Init ==
  /\ phase = "idle" /\ runs = 0 /\ method = "none" /\ scope = "in" /\ plan = "none"
  /\ route = {} /\ status = [a \in Agents |-> "idle"] /\ degraded = FALSE /\ web = "none"
  /\ served = Nothing /\ cached \in BOOLEAN /\ calls = {} /\ history = FALSE /\ ledger = {}

\* run_query: a new state, and the web search when the question wants current context.
Ask ==
  /\ phase \in {"idle"} \cup Over /\ runs < MaxRuns
  /\ runs' = runs + 1 /\ phase' = "routing"
  /\ web' \in {"none", "running"}
  /\ method' = "none" /\ scope' = "in" /\ plan' = "none" /\ route' = {}
  /\ status' = [a \in Agents |-> "idle"] /\ degraded' = FALSE
  /\ served' = Nothing /\ calls' = {} /\ history' = FALSE /\ ledger' = {}
  /\ UNCHANGED cached

\* _decide_route and _plan_steps together, then _fan_out.  A new reply is cached,
\* unless it cannot be used: then it is distrusted and the keywords decide.
Route ==
  /\ phase = "routing" /\ phase' = "running"
  /\ plan' \in {"none", "deterministic", "llm"}
  /\ \/ method' = "cached" /\ cached /\ UNCHANGED <<cached, calls>>
     \/ method' = "llm" /\ ~cached /\ cached' = TRUE /\ calls' = calls \cup {"router"}
     \/ method' = "llm->keyword" /\ cached' = FALSE /\ calls' = calls \cup {"router"}
     \/ method' = "keyword" /\ ~cached /\ UNCHANGED <<cached, calls>>
  /\ scope' \in {"in", "mixed", "none"}
  /\ route' \in SUBSET Agents \ {{}}
  /\ status' = [a \in Agents |-> IF a \in route' THEN "running" ELSE "idle"]
  /\ UNCHANGED <<runs, degraded, web, served, written>>

\* Mutant: an agent that was cut off leaves no mark on the answer.
AgentLost_Unmarked(a) ==
  /\ phase = "running" /\ status[a] = "running"
  /\ \E end \in {"timeout", "raised"} : status' = [status EXCEPT ![a] = end]
  /\ UNCHANGED <<phase, runs, decision, degraded, web, served, cached, calls, written>>

\* _wrap: the slice ran out, or the node raised.
AgentLost(a) ==
  /\ phase = "running" /\ status[a] = "running"
  /\ \E end \in {"timeout", "raised"} : status' = [status EXCEPT ![a] = end]
  /\ degraded' = TRUE
  /\ UNCHANGED <<phase, runs, decision, web, served, cached, calls, written>>

\* The node's own patch; an agent that is not implemented fails at once.
AgentReports(a) ==
  /\ phase = "running" /\ status[a] = "running"
  /\ \E end \in IF a \in MissingAgents THEN {"failed"} ELSE Answers \cup {"failed"} :
       /\ status' = [status EXCEPT ![a] = end]
       /\ degraded' \in CASE end = "partial" -> {TRUE}
                           [] end \in {"failed", "declined"} -> {degraded, TRUE}
                           [] end \in {"ok", "bare"} -> {degraded}
  /\ calls' \in IF a \in MissingAgents THEN {calls} ELSE {calls, calls \cup {a}}
  /\ UNCHANGED <<phase, runs, decision, web, served, cached, written>>

\* The edges into merge: every routed agent has come back.
AllBack ==
  /\ phase = "running" /\ \A a \in route : status[a] # "running"
  /\ phase' = "merging"
  /\ UNCHANGED <<runs, decision, agents, web, served, cached, calls, written>>

Succeeded == IF scope = "none" THEN {} ELSE {a \in route : status[a] \in Answers}

\* merge: prose, or the composition by rules when the model gave none that is grounded.
\* MergeResult.as_state_patch takes the answer along, and not the merge's `degraded'.
MergeDone ==
  /\ phase = "merging"
  /\ \E prose \in BOOLEAN :
       /\ served' = [answer |-> CASE Succeeded = {} -> "nothing"
                                   [] Succeeded # {} /\ prose -> "prose"
                                   [] OTHER -> "rules",
                     agents |-> Succeeded,
                     evidence |-> \E a \in Succeeded : status[a] # "bare",
                     web |-> FALSE, graph |-> FALSE, degraded |-> degraded,
                     mergeFailed |-> Succeeded # {} /\ ~prose]
       /\ calls' = IF Succeeded # {} THEN calls \cup {"merge"} ELSE calls
  /\ phase' = IF web = "none" THEN "assembling" ELSE "searching"
  /\ UNCHANGED <<runs, decision, agents, web, cached, written>>

\* safe_search: at any time, whatever the run is doing.
WebEnds ==
  /\ web = "running" /\ web' \in {"results", "failed"}
  /\ UNCHANGED <<phase, runs, decision, agents, served, cached, calls, written>>

\* The run waits for it after the merge, and takes what it found.
WebTaken ==
  /\ phase = "searching" /\ web # "running"
  /\ phase' = "assembling" /\ served' = [served EXCEPT !.web = (web = "results")]
  /\ UNCHANGED <<runs, decision, agents, web, cached, calls, written>>

\* _assemble, within the graph's budget; the graph is drawn for evidence from it, and a
\* route that brought no evidence is dropped from the prompt cache.
Assemble ==
  /\ phase = "assembling" /\ phase' = "saving"
  /\ \E graph \in {FALSE, served.evidence} : served' = [served EXCEPT !.graph = graph]
  /\ cached' = (cached /\ served.evidence)
  /\ UNCHANGED <<runs, decision, agents, web, calls, written>>

\* The history row is opportunistic and only for a signed-in POST /query.
Save ==
  /\ phase = "saving" /\ phase' = "charging"
  /\ history' \in BOOLEAN
  /\ UNCHANGED <<runs, decision, agents, web, served, cached, calls, ledger>>

\* One row per call.
Charge ==
  /\ phase = "charging" /\ phase' = "answered"
  /\ ledger' = calls
  /\ UNCHANGED <<runs, decision, agents, web, served, cached, calls, history>>

Cut == [a \in Agents |-> IF status[a] = "running" THEN "cancelled" ELSE status[a]]

\* The overall deadline, or the graph raised: the run and the search are cancelled and
\* OrchestrationError is raised.
Fail ==
  /\ phase \in InGraph /\ phase' = "failed"
  /\ status' = Cut /\ web' = IF web = "running" THEN "cancelled" ELSE web
  /\ UNCHANGED <<runs, decision, degraded, served, cached, calls, written>>

\* Stop: a CancelledError at any await.  The search's own task is cancelled where it
\* is awaited and nowhere else; a write in a thread is finished.
Stop ==
  /\ phase \in Working /\ phase' = "stopped" /\ served' = Nothing
  /\ status' = Cut
  /\ web' = IF web = "running" /\ phase = "searching" THEN "cancelled" ELSE web
  /\ ledger' = IF phase = "charging" THEN calls ELSE ledger
  /\ history' \in IF phase = "saving" THEN BOOLEAN ELSE {history}
  /\ UNCHANGED <<runs, decision, degraded, cached, calls>>

RunStep ==
  \/ Route \/ AllBack \/ MergeDone \/ WebTaken \/ Assemble \/ Save \/ Charge
  \/ \E a \in Agents : AgentLost(a) \/ AgentReports(a)

Next == Ask \/ RunStep \/ WebEnds \/ Fail \/ Stop

\* Each await ends by itself or by its timeout: NODE_TIMEOUT_S, GRAPH_BUDGET_S, the
\* search's and the database's own.
Fair == WF_vars(RunStep) /\ WF_vars(WebEnds)

Spec == Init /\ [][Next]_vars /\ Fair

-----------------------------------------------------------------------------
(* Properties.                                                             *)

\* Nothing of a run is left at work once it has answered or failed: neither an agent,
\* whose calls would be paid for, nor the search.
NothingLeftRunning ==
  phase \in {"answered", "failed"} => web # "running" /\ \A a \in Agents : status[a] # "running"

\* An agent lost to its slice or to an exception marks the response as degraded, and
\* costs it none of the other agents' findings.
LossIsMarked ==
  phase = "answered" =>
    /\ (\E a \in route : status[a] \in {"timeout", "raised", "partial"}) => served.degraded
    /\ scope # "none" => {a \in route : status[a] \in Answers} = served.agents

\* Every question is answered, fails or is stopped, whatever hangs.
RunEnds == phase = "routing" ~> phase \in Over

\* ledger.py: a request that times out halfway has its spend recorded.
PartialSpendRecorded == phase = "failed" => ledger = calls
=============================================================================
