------------------------------- MODULE Router -------------------------------
(***************************************************************************)
(* Which agents a question goes to (src/ceynex/orchestrator/router.py):    *)
(* the keyword router, and the model's choice with the corrections the     *)
(* code makes to it.  A question is what the keyword lists find in it; the *)
(* weights are in tenths.                                                  *)
(***************************************************************************)
EXTENDS Integers, Sequences, FiniteSets

Agents == {"export_analytics", "agriculture_commodity", "apparel_manufacturing",
           "trade_economics", "forecast"}
SectorAgents == {"agriculture_commodity", "apparel_manufacturing"}
Sectors == {"agriculture", "apparel", "cross_sector", "macro"}

\* What the word lists match, and whether every year named is past.  A question
\* about the past has no FORECAST_WORDS in it (asks_only_about_the_past).
Questions ==
  {q \in [agriculture : BOOLEAN, apparel : BOOLEAN, cross : BOOLEAN, simulation : BOOLEAN,
          future : BOOLEAN, analytics : BOOLEAN, excluded : BOOLEAN, past : BOOLEAN] :
     q.past => ~q.future}

NamesSector(q) == q.agriculture \/ q.apparel
Signal(q) == NamesSector(q) \/ q.cross \/ q.simulation \/ q.future \/ q.analytics \/ q.excluded

\* The sector agent's weight, 0 for none: `named' is its own word, `other' the other's.
SectorWeight(q, named, other) ==
  CASE named -> IF q.simulation THEN 8 ELSE 10
    [] ~named /\ ~other /\ q.simulation -> 6
    [] ~named /\ ~other /\ ~q.simulation /\ q.cross -> 7
    [] OTHER -> 0

ForecastWeight(q) ==
  IF ~q.future THEN 0 ELSE IF NamesSector(q) \/ q.cross THEN 9 ELSE 7

AnalyticsWeight(q) ==
  CASE q.analytics -> 10
    [] ~q.analytics /\ (NamesSector(q) \/ q.cross) /\ ~q.simulation -> 7
    [] ~q.analytics /\ ~NamesSector(q) /\ ~q.cross /\ ~q.simulation /\ ~q.future -> 6
    [] OTHER -> 0

KeywordWeights(q) ==
  [a \in Agents |->
     CASE a = "trade_economics" -> IF q.simulation THEN 10 ELSE 0
       [] a = "agriculture_commodity" -> SectorWeight(q, q.agriculture, q.apparel)
       [] a = "apparel_manufacturing" -> SectorWeight(q, q.apparel, q.agriculture)
       [] a = "forecast" -> ForecastWeight(q)
       [] a = "export_analytics" -> AnalyticsWeight(q)]

KeywordSectors(q) ==
  LET named == {s \in {"agriculture", "apparel"} : q[s]}
      spans == Cardinality(named) = 2 \/ (q.cross /\ named = {})
      found == (IF spans THEN {"cross_sector", "agriculture", "apparel"} ELSE named)
                 \cup (IF q.simulation THEN {"macro"} ELSE {})
  IN IF found = {} THEN {"cross_sector"} ELSE found

Restricted(f, S) == [x \in S |-> f[x]]

\* The notes are named for what they say; graph.py shows the first.
KeywordRoute(q) ==
  LET weights == KeywordWeights(q)
      route == {a \in Agents : weights[a] > 0}
  IN [route |-> route, relevance |-> Restricted(weights, route),
      sectors |-> KeywordSectors(q), method |-> "keyword",
      outOfScope |-> q.excluded \/ ~Signal(q),
      noTopic |-> ~Signal(q),
      nothingInScope |-> (q.excluded \/ ~Signal(q)) /\ ~NamesSector(q) /\ ~q.cross,
      notes |-> CASE q.excluded -> <<"excluded topic">>
                  [] ~Signal(q) -> <<"no topic">>
                  [] OTHER -> <<>>,
      distrusted |-> FALSE]

\* What the model may reply: nothing, text that is not JSON, JSON that is not the
\* object asked for (using it raises), or a choice.
Choices ==
  [route : SUBSET {"export_analytics", "agriculture_commodity", "forecast", "unknown"},
   weighed : BOOLEAN, sectors : SUBSET {"agriculture", "cross_sector", "macro", "unknown"},
   outOfScope : BOOLEAN]

Fallback(q, method, why, distrusted) ==
  [KeywordRoute(q) EXCEPT !.method = method, !.notes = Append(@, why), !.distrusted = distrusted]

\* Every year asked about is past: a forecast is replaced by analytics, which takes
\* the larger of the two weights.
WithoutForecast(weights) ==
  LET route == (DOMAIN weights \ {"forecast"}) \cup {"export_analytics"}
      old == IF "export_analytics" \in DOMAIN weights THEN weights["export_analytics"] ELSE 0
      moved == IF weights["forecast"] > old THEN weights["forecast"] ELSE old
  IN [a \in route |-> IF a = "export_analytics" THEN moved ELSE weights[a]]

\* A weight the model left out is 1; one it gave is whatever it gave (here 3 or 0).
ModelWeights(c) ==
  [a \in c.route \cap Agents |->
     IF ~c.weighed THEN 10 ELSE IF a = "forecast" THEN 3 ELSE 0]

ScopeNotes(excluded, outOfScope, noTopic) ==
  CASE excluded -> <<"excluded topic">>
    [] ~excluded /\ outOfScope -> <<IF noTopic THEN "no topic" ELSE "mixed scope">>
    [] OTHER -> <<>>

ModelRoute(q, c) ==
  LET weights == IF "forecast" \in c.route /\ q.past
                 THEN WithoutForecast(ModelWeights(c)) ELSE ModelWeights(c)
      sectors == c.sectors \cap Sectors
      partly == sectors \cap {"agriculture", "apparel", "cross_sector"} # {}
      noTopic == IF q.excluded THEN ~partly
                 ELSE c.outOfScope /\ sectors \cap {"agriculture", "apparel"} = {}
  IN [route |-> DOMAIN weights, relevance |-> weights,
      sectors |-> IF sectors = {} THEN KeywordSectors(q) ELSE sectors, method |-> "llm",
      outOfScope |-> q.excluded \/ c.outOfScope, noTopic |-> noTopic,
      nothingInScope |-> noTopic,
      notes |-> ScopeNotes(q.excluded, c.outOfScope, noTopic),
      distrusted |-> FALSE]

Replies == [kind : {"nothing", "garbage", "no object"}] \cup [kind : {"choice"}, choice : Choices]

LlmRoute(q, reply) ==
  CASE reply.kind = "nothing" -> Fallback(q, "keyword", "llm unavailable", FALSE)
    [] reply.kind = "garbage" -> Fallback(q, "llm->keyword", "not valid JSON", TRUE)
    [] reply.kind = "no object" -> [KeywordRoute(q) EXCEPT !.method = "llm->keyword"]
    [] reply.kind = "choice" ->
         IF reply.choice.route \cap Agents = {}
         THEN Fallback(q, "llm->keyword", "no valid agent", TRUE)
         ELSE ModelRoute(q, reply.choice)

-----------------------------------------------------------------------------
\* However the route was decided, some agent is asked, each has a weight, and a
\* question about past years alone is not answered with a forecast.
RouteUsable(q, d) ==
  /\ d.route # {} /\ d.route \subseteq Agents /\ DOMAIN d.relevance = d.route
  /\ q.past => "forecast" \notin d.route

\* A question outside the scope says so in its first note, the only one the merge shows;
\* one with an excluded topic always does, whatever the model says of it.  A question that
\* names a sector is only called out of scope altogether by a model that names none.
ScopeStated(q, reply) ==
  LET d == LlmRoute(q, reply)
  IN /\ d.outOfScope => d.notes # <<>> /\ Head(d.notes) \in {"excluded topic", "no topic", "mixed scope"}
     /\ q.excluded => d.outOfScope /\ Head(d.notes) = "excluded topic"
     /\ d.noTopic => d.nothingInScope
     /\ d.nothingInScope => d.outOfScope
     /\ d.nothingInScope /\ NamesSector(q) =>
          reply.kind = "choice" /\ reply.choice.sectors \cap {"agriculture", "apparel"} = {}

\* Where the model chooses no agent, every sector named by the question is asked, and so is
\* the graph, unless a simulation brings its own figures.  An agent the model chooses is
\* asked and no other, a named sector's agent included, but for the forecast of past years.
SectorAnswered(q, reply) ==
  LET d == LlmRoute(q, reply)
      chosen == IF reply.kind = "choice" THEN reply.choice.route \cap Agents ELSE {}
  IN IF chosen # {}
     THEN /\ chosen \ {"forecast"} \subseteq d.route
          /\ d.route \subseteq chosen \cup {"export_analytics"}
          /\ d.route # chosen => q.past /\ "forecast" \in chosen
     ELSE /\ q.agriculture => "agriculture_commodity" \in d.route /\ "agriculture" \in d.sectors
          /\ q.apparel => "apparel_manufacturing" \in d.route /\ "apparel" \in d.sectors
          /\ q.cross /\ ~NamesSector(q) => SectorAgents \subseteq d.route
          /\ ~q.simulation /\ (NamesSector(q) \/ q.cross) => "export_analytics" \in d.route
=============================================================================
