---------------------------- MODULE MCAlgorithms ----------------------------
(***************************************************************************)
(* Bounded inputs of the pure modules: a state is one of them, and each    *)
(* invariant a property of the definitions over every input of its part.   *)
(***************************************************************************)
EXTENDS Integers, Sequences, FiniteSets, FiniteSetsExt, TLC

VARIABLES algorithm, input

R == INSTANCE Router
M == INSTANCE Merge
F == INSTANCE Findings
I == INSTANCE Intent
C == INSTANCE Sources
S == INSTANCE Series
X == INSTANCE Forecasts
E == INSTANCE Simulation
P == INSTANCE PolicyAnswer
-----------------------------------------------------------------------------
(* The route.                                                              *)

Routing == [q : R!Questions, reply : R!Replies]

-----------------------------------------------------------------------------
(* The merge.                                                              *)

Now == [year |-> 2026, month |-> 5]
Fixed == [sectorOf |-> [tea |-> "agriculture", knit |-> "apparel", none |-> "none"],
          directional |-> {"growth"}]
KG(years) == [source |-> "KG", years |-> years, severity |-> "none"]
Flag(severity) == [source |-> "DQ_FLAG", years |-> {}, severity |-> severity]
Output(confidence, figures, evidence, text, first) ==
  [error |-> FALSE, degraded |-> FALSE, forecast |-> FALSE, confidence |-> confidence,
   figures |-> figures, evidence |-> evidence, text |-> text, first |-> first]
Nowhere == M!Text({}, {}, {}, {})
TeaValue == M!Text({"tea", "value"}, {"tea"}, {"agriculture"}, {})

Outputs == {
  Output(90, [growth |-> 10, share |-> 50], {KG({2024})}, TeaValue, "tea"),
  [Output(60, [growth |-> -10], {KG({2022, 2024})}, TeaValue, "tea") EXCEPT !.degraded = TRUE],
  [Output(70, [growth |-> 11, share |-> 55], {KG({2027})}, M!Text({"knit"}, {"knit"}, {}, {}), "knit")
     EXCEPT !.forecast = TRUE],
  Output(25, [share |-> -1], {KG({2024}), Flag("severe"), Flag("material")}, Nowhere, "none"),
  Output(20, <<>>, {KG({2024})}, M!Text({"tea", "volume"}, {"tea"}, {}, {"volume"}), "tea"),
  Output(20, <<>>, {Flag("severe")}, M!Text({"tea", "knit"}, {"tea", "knit"}, {}, {}), "tea"),
  [Output(0, <<>>, {}, Nowhere, "none") EXCEPT !.error = TRUE]}
Asked == {
  [words |-> {"tea", "value"}, items |-> {"tea"}, sectors |-> {}, metrics |-> {}, past |-> TRUE,
   years |-> {2023}],
  [words |-> {"knit", "tea"}, items |-> {"tea"}, sectors |-> {}, metrics |-> {"volume"},
   past |-> FALSE, years |-> {}],
  [words |-> {"compare"}, items |-> {}, sectors |-> {"agriculture"}, metrics |-> {}, past |-> FALSE,
   years |-> {}]}
Proses == {M!NoProse} \cup [gaps : {{}}, hedged : BOOLEAN, grounded : {TRUE}]
            \cup {[gaps |-> {}, hedged |-> FALSE, grounded |-> FALSE]}
Routed == {"export_analytics", "agriculture_commodity", "forecast"}
Merging ==
  {[s |-> [query |-> q, outputs |-> o, route |-> Routed, relevance |-> w, notes |-> n,
           noTopic |-> t], prose |-> p] :
     q \in Asked, o \in UNION {[back -> Outputs] : back \in SUBSET Routed},
     w \in {<<>>, [forecast |-> 3]}, n \in {{"note"}}, t \in BOOLEAN, p \in Proses}

-----------------------------------------------------------------------------
(* The score.                                                              *)

Scoring ==
  [outputs : [Routed -> [confidence : {0, 40, 65, 95}, error : {FALSE}, degraded : BOOLEAN]],
   months : {0, 9, 10}, material : {0, 2, 5}, severe : {0, 1}]

-----------------------------------------------------------------------------
(* The findings.                                                           *)

Values ==
  {F!Figure(FALSE, 412600000, 0, 0), F!Figure(TRUE, 161815198, 0, 0), F!Figure(FALSE, 1374229478, 0, 0),
   F!Figure(FALSE, 999996000, 0, 0), F!Figure(TRUE, 4, 1, 100), F!Figure(FALSE, 7, 3, 996)}
Stated == {F!Figure(FALSE, 412, 1, 600), F!Figure(FALSE, 161, 2, 820), F!Figure(FALSE, 2024, 0, 0),
           F!Figure(TRUE, 413, 0, 0)}
Sentences == [figures : {{}} \cup {{f} : f \in Stated} \cup {Stated}, fell : BOOLEAN]
Finding ==
  [values : {{}} \cup {{v, w} : v, w \in Values}, asked : {{}, {F!Figure(FALSE, 2024, 0, 0)}}, evidence : 0..2,
   prose : {t \in SUBSET Sentences : Cardinality(t) <= 2}, weight : {0, 3}, own : {F!NoScore, 35}]
\* An agent's own 20 is its refusal, without a figure.
Refusing ==
  [values : {{}}, asked : {{}}, evidence : 1..2, prose : {{}}, weight : {3}, own : {20}]
ItemOutput == [figures : SUBSET {"value", "volume"}, confidence : {5, 60, 95}, degraded : BOOLEAN]
Combining == [outs : UNION {[1..n -> ItemOutput] : n \in 1..2}]

-----------------------------------------------------------------------------
(* The question.                                                           *)

Worded == UNION {[1..n -> I!Vocabulary] : n \in 0..3}
Cued(w, c) == [I!Question(w) EXCEPT !.cues = c]
Asking ==
  {[Cued(w, c) EXCEPT !.partner = p] :
     w \in Worded, c \in {{}, {"compare"}, {"policy", "vague"}}, p \in {"none", "USA"}}
Earlier ==
  {I!Question(<<"tea">>), [I!Question(<<"apparel">>) EXCEPT !.years = {2023}, !.partner = "USA", !.region = "asia"]}
Following ==
  {[Cued(w, c) EXCEPT !.years = y, !.partner = p, !.region = r] :
     w \in UNION {[1..n -> I!Vocabulary] : n \in 0..1}, c \in SUBSET {"discuss", "analyse", "discourse only"},
     y \in {{}, {2023}, {2023, 2024}}, p \in {"none", "USA"}, r \in {"none", "asia"}}
\* `unusable' is a verdict without a mode of the two, or to analyse without the question rewritten.
Verdicts == {"none", "unusable", "discuss", "analyse"}
Worder == {[kind |-> k, options |-> {"rubber"}] : k \in {"asks", "veto", "unusable"}}

-----------------------------------------------------------------------------
(* The sources.                                                            *)

\* One code and year of Comtrade: some countries, under either code, the world and the EU.
ByPrimary(partner, n) ==
  [code |-> <<9, 0, 2>>, year |-> 2023, partner |-> partner, primary |-> n, fob |-> 0, net |-> 0, qty |-> 4]
ByFob(partner, n) ==
  [code |-> <<0, 9, 0, 2>>, year |-> 2023, partner |-> partner, primary |-> 0, fob |-> n, net |-> 2, qty |-> 0]
Members == {{}, {250}, {251}, {380}, {250, 380}, {251, 380}}
Total(of) == C!SumFunction(of)
Reported(of, eu, rest) ==
  {ByPrimary(c, of[c]) : c \in eu} \cup {ByFob(c, of[c]) : c \in rest}
    \cup {ByPrimary(0, Total(of)), ByPrimary(97, Total([c \in eu |-> of[c]]))}
PulledOf(eu, rest) == {[rows |-> Reported(of, eu, rest)] : of \in [eu \cup rest -> 1..3]}
Pulled == UNION {PulledOf(eu, rest) : eu \in Members, rest \in {{840}, {842, 826}}}
Digits == UNION {[1..n -> {0, 9, 2, 6}] : n \in 2..5}
Caching ==
  [cache : UNION {[days -> {{}, {1}}] : days \in SUBSET {3, 7, 9, 10}}, offline : BOOLEAN,
   maxAge : {-1, 1, 4}, today : {10}, remote : {{}, {2}}]
Edition == [edition : {2024, 2025}, latest : {2023, 2024}, product : {"apparel", "apprel"},
            market : {"france", "italy", "nowhere"}, values : {<<1, 2>>, <<3, -1>>, <<-1, 4>>}]
Reports == [1..2 -> Edition]
Cells == [market : {"us", "uk"}, month : {1}, year : 2023..2024, amount : {3, 9}]
           \cup [market : {"us"}, month : {2}, year : {2023}, amount : {0, 4}]
Pies == UNION {[labels -> {3, 4, 9}] : labels \in {{"usa", "uk"}, {"us", "france"}, {"italy", "usa"}}}
Markets == [cells : SUBSET Cells, pie : Pies]
Sheets ==
  [tea : SUBSET [year : {2023}, metric : {"export"}, category : {"total", "bulk"}, amount : {-1, 5}],
   fao : SUBSET [area : {"LKA", "IND"}, item : {"tea"}, year : {2023}, element : {"USD/tonne"},
                 annual : BOOLEAN, amount : {6}]]

-----------------------------------------------------------------------------
(* The series.                                                             *)

Observed == [source : {"a"}, partner : {"USA", "FRA", S!World}, year : {2023, 2024}, amount : {-1, 1, 4},
             weight : {-1, 3}]
Tables == [1..3 -> Observed]
Daily == UNION {[days -> {-1, 2, 5}] : days \in {x \in SUBSET (1..6) : Cardinality(x) > 3}}
Paces == {x \in SUBSET {1, 2, 5, 32, 63, 94, 366} : x # {}}
Figures == [a : {0, 20, 100}, b : {0, 19, 21, 24, 25, 100, 104, 105, 120, 121}, c : {19, 22, 100, 106, 121, 130}]

-----------------------------------------------------------------------------
(* The forecasts.                                                          *)

Years == {2019, 2020, 2021, 2023}
Histories == UNION {[years -> {0, 11}] : years \in {y \in SUBSET Years : Cardinality(y) > 1}}
Quantiles == [1..2 -> [1..3 -> {-3, 2}]]
Projecting == [series : Histories, quantiles : Quantiles, spread : {0, 3}]
Folding == [n : 0..14, folds : 1..4, horizon : 1..3]
Points == {<<>>, <<[point |-> 3, lower |-> 1, upper |-> 5]>>, <<[point |-> -3, lower |-> 0, upper |-> 0]>>}
Filed == [target : {"export_value_usd", "price_usd"}, mape : {-1, 95, 96, 100}, complex : BOOLEAN, at : {1, 2},
          points : Points]
Choosing ==
  [models : {{}} \cup {{m} : m \in Filed} \cup {{m, n} : m, n \in Filed},
   a : [target : {"none", "export_value_usd", "price_usd", "volume_kg"}, partner : {"none", "USA"}, horizon : {0, 7}],
   down : BOOLEAN]
OneHistory == [y \in 2019..2022 |-> 2023 - y]
Ranked == [outs : UNION {[items -> [next : {-1, 0, 6}, last : {-1, 0, 4, 5}]] :
                           items \in {{"tea"}, {"tea", "knit"}, {"tea", "knit", "rubber"}}}]

-----------------------------------------------------------------------------
(* The simulations and the policy documents.                               *)

Elasticities ==
  [key \in {<<"fx_pass_through", "agriculture">>, <<"fx_pass_through", "apparel">>,
            <<"export_demand_elasticity", "agriculture">>, <<"export_demand_elasticity", "apparel">>,
            <<"tariff_incidence", "default">>, <<"agreement_loss_mfn_tariff", "apparel">>} |->
     CASE key[1] = "fx_pass_through" -> IF key[2] = "apparel" THEN 3 ELSE 1
       [] key[1] = "export_demand_elasticity" -> IF key[2] = "apparel" THEN -12 ELSE -8
       [] key[1] = "tariff_incidence" -> 5
       [] key[1] = "agreement_loss_mfn_tariff" -> 12]
Graphs ==
  [up : BOOLEAN, baseline : [{"tea", "knit"} -> {E!Null, 1000}], covered : {{}, {"tea", "knit"}},
   bought : [{"tea", "knit"} -> {300}] \cup [{"tea", "knit"} -> {E!Null}]]
Shocked ==
  {[cues |-> c, descriptive |-> d, change |-> h, falls |-> m = "falls", appreciates |-> m = "gains",
    pct |-> n, item |-> i, sectors |-> s, words |-> {}, market |-> k] :
     c \in {{}, {"agreement", "fx"}, {"tariff", "demand"}}
            \cup {{k} : k \in {"agreement", "tariff", "fx", "market_loss", "demand"}},
     d \in BOOLEAN, h \in BOOLEAN, m \in {"none", "falls", "gains"}, n \in {E!Null, 10},
     i \in {"none", "tea"}, s \in {{}, {"apparel"}}, k \in {"none", "USA"}}
Passage == [tariff : BOOLEAN, goods : BOOLEAN, rates : SUBSET {0, 5, 12, 70}]
StatesOne == <<[tariff |-> TRUE, goods |-> TRUE, rates |-> {12}]>>
Shocking ==
  [q : Shocked, graph : Graphs, passages : {<<>>, StatesOne}]
Tariffs == [sector : {"agriculture", "apparel"}, tariff : 0..12]
Documents ==
  [d1 : [issuers : {{"EU"}, {"LKA"}}, goods : {{}, {"tea"}}, indexed : BOOLEAN],
   d2 : [issuers : {{"LKA"}}, goods : {{"tea"}}, indexed : BOOLEAN]]
PassagesOf(documents) ==
  UNION {{f \in [ds -> [goods : {{}, {"tea"}}, measure : {"tariff", "fta"}, score : {-1, 1}]] : TRUE} :
           ds \in SUBSET DOMAIN documents}
Described ==
  {[q |-> [countries |-> c, partner |-> "none", goods |-> g, measures |-> m], documents |-> d,
    passages |-> p, trouble |-> t] :
     c \in {{}, {"EU"}, {"EU", "JPN"}}, g \in {{}, {"tea"}}, m \in {{}, {"tariff"}},
     d \in Documents, p \in PassagesOf([d1 |-> 0, d2 |-> 0]), t \in {0, 2, 3}}
Stored(i) ==
  {[doc |-> d, issuers |-> i.documents[d].issuers, goods |-> i.passages[d].goods, n |-> 1,
    measure |-> i.passages[d].measure, score |-> i.passages[d].score] : d \in DOMAIN i.passages}

-----------------------------------------------------------------------------
Start == [part |-> "start"]
Inputs ==
  [route |-> Routing, question |-> Asking, follow |-> Following,
   merge |-> Merging, score |-> Scoring, readable |-> [value : Values],
   finding |-> Finding \cup Refusing, combine |-> Combining,
   comtrade |-> Pulled, digits |-> [code : Digits], cache |-> Caching,
   edb |-> [editions : Reports], jaaf |-> Markets, sheets |-> Sheets,
   table |-> [rows : Tables], daily |-> [rates : Daily], pace |-> [days : Paces],
   figures |-> Figures, project |-> Projecting, fold |-> Folding, choose |-> Choosing,
   rank |-> Ranked, shock |-> Shocking, tariff |-> Tariffs,
   rates |-> [passages : [1..2 -> Passage]], policy |-> Described]

AlgorithmsInit == algorithm \in DOMAIN Inputs /\ input = Start
AlgorithmsNext == input = Start /\ input' \in Inputs[algorithm] /\ UNCHANGED algorithm
AlgorithmsSpec == AlgorithmsInit /\ [][AlgorithmsNext]_<<algorithm, input>>

\* What holds of the inputs of p, once one was taken.
Of(p, Holds(_)) == algorithm = p => Holds(input)

\* A question is taken for what it asks.  Whatever the model replies, a route exists, what is
\* left out of scope is said to be and only what the question names is offered as a choice;
\* what is chosen is what is answered, and a comparison is of every product named.  Every
\* sector named is asked where the model chose no agent, and its choice is followed where it
\* did; another subject is answered from old evidence only when the model says so.
QuestionRouted == input # Start =>
  /\ Of("route", LAMBDA i :
       R!RouteUsable(i.q, R!LlmRoute(i.q, i.reply)) /\ R!ScopeStated(i.q, i.reply)
         /\ R!SectorAnswered(i.q, i.reply))
  /\ Of("question", LAMBDA i : /\ I!ChoiceIsAnswered(i) /\ I!ComparisonComplete(i)
                               /\ \A r \in Worder : I!OptionsAreNamed(i, r))
  /\ Of("follow", LAMBDA i : \A old \in Earlier, v \in Verdicts : I!NewSubjectIsAnalysed(i, old, v))

\* The merge loses nothing in silence: every agent that was asked is accounted for, the API's
\* own list of gaps agrees with the merge's, exactly the disputed figures are called disputed,
\* and an agent that declines costs an answered question nothing.
AnswerAccounted == input # Start =>
  Of("merge", LAMBDA i :
       LET r == M!MergeOf(i.s, i.prose, Now, Fixed)
       IN  /\ M!EveryAgentAccounted(i.s, r, Fixed) /\ M!ApiAgrees(i.s, r, Fixed)
           /\ M!ConflictsStated(i.s, r) /\ M!DeclineIsNeutral(i.s, i.prose, Now, Fixed))

\* A score is bounded by the best agent's and the loss of an agent, older data or disputed
\* data never raise it; what readers are shown of a finding is never called ungrounded.  Of
\* the agents that leave their score to the formula, the figures of one the router gave a
\* weight are never taken for a refusal and nothing is heard of one it gave none.  Several
\* items' findings are trusted as the least of them.
FindingsWeighed == input # Start =>
  /\ Of("score", LAMBDA i :
       /\ M!Bounded(i.outputs,
            M!Aggregate(i.outputs, Routed, <<>>, i.months, i.material, i.severe, FALSE))
       /\ \A lost \in Routed : M!LossNeverHelps(i.outputs, Routed, lost)
       /\ M!PenaltiesMonotone(i.outputs, i.months, i.material, i.severe))
  /\ Of("readable", LAMBDA i : F!ReadableIsGrounded(i.value))
  /\ Of("finding", LAMBDA i : F!FindingsAreHeard(i, i.prose))
  /\ Of("combine", LAMBDA i : F!CombinedIsWeakest(i.outs))

\* Every source is counted once and read alike: no aggregate beside its members, one edition
\* and one table of each figure, codes and prices made comparable, and a cached answer no
\* older than was allowed.
SourcesAgree == input # Start =>
  /\ Of("comtrade", LAMBDA i : C!CountedOnce(i.rows))
  /\ Of("edb", LAMBDA i : C!NewestEditionWins(i.editions))
  /\ Of("jaaf", LAMBDA i : C!OneTableOfAMarket(i.cells, i.pie))
  /\ Of("digits", LAMBDA i : C!HsRestored(i.code))
  /\ Of("cache", LAMBDA i : C!CacheIsFresh(i))
  /\ Of("sheets", LAMBDA i : C!OnePriceUnit(C!TeaBoardFacts(i.tea) \cup C!FaostatFacts(i.fao)))

\* A series is what its rows are: no double count, a price weighed over every row, figures
\* carried only from near, rates and flows aligned each in its way, no invented frequency,
\* and a disagreement named by its size.
SeriesHonest == input # Start =>
  /\ Of("table", LAMBDA i : S!NoDoubleCount(i.rows) /\ S!PriceOfEveryRow(i.rows))
  /\ Of("daily", LAMBDA i : /\ S!FilledFromNear(i.rates)
                            /\ S!AlignedLikeItsKind(i.rates,
                                     <<DOMAIN i.rates \cap (1..3), DOMAIN i.rates \ (1..3)>>))
  /\ Of("pace", LAMBDA i : S!NeverInvented(i.days))
  /\ Of("figures", LAMBDA i : S!SeverityMonotone(i.a, i.b, i.c))

\* A forecast is of what was asked and by the better model, its band holds its point and
\* widens, a backtest never sees the future, and items are ranked on what was measured.
ForecastsSound == input # Start =>
  /\ Of("project", LAMBDA i : /\ X!BandHoldsItsPoint(i.series, i.quantiles, i.spread)
                              /\ X!BaselinesAgree(i.series))
  /\ Of("fold", LAMBDA i : X!NoLeak(i.n, i.folds, i.horizon))
  /\ Of("choose", LAMBDA i : /\ X!OneMargin(i.models)
                             /\ X!AnswersTheQuestion(i.a, i.models, i.down, OneHistory, 2))
  /\ Of("rank", LAMBDA i : X!RankedOnMeasured(i.outs))

\* The workbench and the agent simulate one outcome of one shock, each side pays its share of
\* a tariff, no figure is without its ground in the graph or the documents, and no document
\* is cited for a market it is not of.
EconomicsGrounded == input # Start =>
  /\ Of("shock", LAMBDA i : /\ E!WorkbenchAgrees(i.q, Elasticities, i.graph)
                            /\ E!FiguresHaveGround(i.q, Elasticities, i.graph, i.passages))
  /\ Of("tariff", LAMBDA i : E!TariffIsShared(Elasticities, i.sector, i.tariff))
  /\ Of("rates", LAMBDA i : E!DocumentsAgree(i.passages))
  /\ Of("policy", LAMBDA i : P!CitesWhatWasAsked(i.q, i.documents, Stored(i), i.trouble))
=============================================================================
