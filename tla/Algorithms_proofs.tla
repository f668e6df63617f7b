------------------------- MODULE Algorithms_proofs --------------------------
(***************************************************************************)
(* What the pure parts compute, for every input and not only for those of  *)
(* the run: the merge of any outputs of any agents, the simulation of any  *)
(* shock over any graph, the citation of any documents, the route and the  *)
(* items of any question, the series of any table, the rows of the         *)
(* sources, the forecasts of any series, the score of any answers and the  *)
(* prose about any figure.  The run's inputs are some of these, which      *)
(* gives its invariants.                                                   *)
(*                                                                         *)
(* Documents: what the search returns passed its filter, whichever of its  *)
(* two filters it was, and the filter holds the documents of the market.   *)
(* Simulations: the agent and the workbench reach the formulas with the    *)
(* same parameters; of a loss, more is less, so a tariff is never won.     *)
(* The merge: what it makes of the outputs is three sets of agents, those  *)
(* that answered, declined and failed (PartsOfARun), and each of its parts *)
(* is a function of them; a figure is disputed when its greatest and its   *)
(* least are far apart, and no two values are farther (SpreadIsAPair).     *)
(* The question: a comparison's items are in order because the members of  *)
(* a finite ordered set have its first numbers for places (Places).        *)
(* Series, sources, forecasts: the folds over functions are the sums of    *)
(* Sums (SeriesTotal, SourcesTotal, ForecastTotal, ScoreTotal), which are  *)
(* regrouped, compared member by member or divided.                        *)
(* Scores: a mean of agents that count alike is their sum over their       *)
(* number, less what is missed (MeanLessMissed), and clamping keeps the    *)
(* order of two scores (ClampKeeps).                                       *)
(***************************************************************************)
EXTENDS MCAlgorithms, Sums, SequenceTheorems

-----------------------------------------------------------------------------
(* Policy documents.                                                       *)

LEMMA FoundSound ==
  ASSUME NEW passages, NEW filter, NEW limit, NEW p \in P!Found(passages, filter, limit)
  PROVE  /\ p \in passages /\ p.score >= P!MIN_RERANK_SCORE
         /\ P!Matches(filter, p)
BY DEF P!Found, P!Rerank

LEMMA SearchSound ==
  ASSUME NEW passages, NEW partner, NEW goods, NEW measures, NEW docs, NEW limit,
         NEW p \in P!Search(passages, [partner |-> partner, goods |-> goods, measures |-> measures,
                                       docs |-> docs], limit)
  PROVE  /\ p \in passages /\ p.score >= P!MIN_RERANK_SCORE
         /\ partner # P!Anywhere => partner \in p.issuers
         /\ measures # {} => p.measure \in measures
         /\ docs # {} => p.doc \in docs
<1> DEFINE wide == [partner |-> partner, goods |-> goods, measures |-> measures, docs |-> docs]
           loose == [partner |-> partner, goods |-> {}, measures |-> measures, docs |-> docs]
<1>1. [wide EXCEPT !.goods = {}] = loose
  OBVIOUS
<1>2. p \in P!Found(passages, wide, limit) \/ p \in P!Found(passages, loose, limit)
  BY <1>1 DEF P!Search
<1>3. PICK f \in {wide, loose} : p \in P!Found(passages, f, limit)
  BY <1>2
<1>4. p \in passages /\ p.score >= P!MIN_RERANK_SCORE /\ P!Matches(f, p)
  BY <1>3, FoundSound
<1>5. f.partner = partner /\ f.measures = measures /\ f.docs = docs
  OBVIOUS
<1> HIDE DEF wide, loose
<1> QED
  BY <1>4, <1>5 DEF P!Matches

LEMMA RetrieveSound ==
  ASSUME NEW documents, NEW passages, NEW partner, NEW goods, NEW measures, NEW limit,
         NEW trouble \in Nat
  PROVE  LET c == P!RetrievePolicy(documents, passages, partner, goods, measures, limit, trouble)
         IN /\ c.held \subseteq {d \in DOMAIN documents : documents[d].indexed}
            /\ c.passages # {} => trouble < P!MAX_ATTEMPTS
            /\ \A p \in c.passages :
                 /\ p \in passages /\ p.score >= P!MIN_RERANK_SCORE /\ p.doc \in c.held
                 /\ partner # P!Anywhere => partner \in p.issuers
                 /\ measures # {} => p.measure \in measures
<1> DEFINE docs == P!PolicyDocumentsFor(documents, partner, goods)
           filter == [partner |-> partner, goods |-> goods, measures |-> measures, docs |-> docs]
           c == P!RetrievePolicy(documents, passages, partner, goods, measures, limit, trouble)
<1>1. docs \subseteq {d \in DOMAIN documents : documents[d].indexed}
  BY DEF P!PolicyDocumentsFor
<1>2. c.held \in {{}, docs}
  BY DEF P!RetrievePolicy, P!Context
<1>3. ASSUME c.passages # {}
      PROVE  /\ trouble < P!MAX_ATTEMPTS /\ c.held = docs /\ docs # {}
             /\ c.passages = P!Search(passages, filter, limit)
  BY <1>3 DEF P!RetrievePolicy, P!Context, P!Answers
<1>4. ASSUME NEW p \in c.passages
      PROVE  /\ p \in passages /\ p.score >= P!MIN_RERANK_SCORE /\ p.doc \in c.held
             /\ partner # P!Anywhere => partner \in p.issuers
             /\ measures # {} => p.measure \in measures
  <2>1. p \in P!Search(passages, filter, limit) /\ c.held = docs /\ docs # {}
    BY <1>3
  <2> HIDE DEF docs, c
  <2> QED
    BY <2>1, SearchSound
<1> HIDE DEF docs, c
<1> QED
  BY <1>1, <1>2, <1>3, <1>4 DEF c

\* Nothing is cited that does not bear on what was asked (_describe_policy): for any question,
\* any documents and any passages of them, however many attempts the search takes.
THEOREM CitedIsAsked ==
  ASSUME NEW q, NEW documents, NEW passages, NEW trouble \in Nat,
         \A p \in passages : p.doc \in DOMAIN documents /\ p.issuers = documents[p.doc].issuers
  PROVE  P!CitesWhatWasAsked(q, documents, passages, trouble)
<1> DEFINE out == P!DescribePolicy(q, documents, passages, TRUE, trouble)
           markets == IF P!Destinations(q) = {} THEN {P!Anywhere} ELSE P!Destinations(q)
           measures == P!DescriptiveMeasures(q.measures)
           theirs(m) == {d \in DOMAIN documents : m \in documents[d].issuers /\ documents[d].indexed}
           of(m) == P!OfMarket(q, documents, passages, m, trouble)
<1>1. /\ DOMAIN out.of = markets /\ \A m \in markets : out.of[m] = of(m)
      /\ \A m \in out.answered : m \in markets /\ of(m).answered
  BY DEF P!DescribePolicy
<1>2. ASSUME NEW m \in markets
      PROVE  /\ m # P!Anywhere /\ of(m).answered => theirs(m) # {} /\ trouble < P!MAX_ATTEMPTS
             /\ \A p \in of(m).cited :
                  /\ p.doc \in DOMAIN documents /\ documents[p.doc].indexed
                  /\ m # P!Anywhere => p.doc \in theirs(m)
                  /\ measures # {} => p.measure \in measures
                  /\ p.score >= P!MIN_RERANK_SCORE
  <2> DEFINE limit == IF P!Cardinality(P!Destinations(q)) > 1 THEN 2 ELSE 4
             c == P!RetrievePolicy(documents, passages, m, q.goods, measures, limit, trouble)
             own == m = P!Anywhere \/ \E d \in c.held : m \in documents[d].issuers
  <2>1. /\ of(m).cited = IF own THEN c.passages ELSE {}
        /\ of(m).answered = (own /\ c.passages # {})
    BY DEF P!OfMarket
  <2>2. /\ c.held \subseteq {d \in DOMAIN documents : documents[d].indexed}
        /\ c.passages # {} => trouble < P!MAX_ATTEMPTS
        /\ \A p \in c.passages :
             /\ p \in passages /\ p.score >= P!MIN_RERANK_SCORE /\ p.doc \in c.held
             /\ m # P!Anywhere => m \in p.issuers
             /\ measures # {} => p.measure \in measures
    BY RetrieveSound
  <2> HIDE DEF of, c, measures
  <2> QED
    BY <2>1, <2>2
<1> HIDE DEF of, out, markets, measures
<1>3. \A m \in DOMAIN out.of :
        /\ m \in out.answered \ {P!Anywhere} => theirs(m) # {} /\ trouble < P!MAX_ATTEMPTS
        /\ \A p \in out.of[m].cited :
             /\ p.doc \in DOMAIN documents /\ documents[p.doc].indexed
             /\ m # P!Anywhere => p.doc \in theirs(m)
             /\ measures # {} => p.measure \in measures
             /\ p.score >= P!MIN_RERANK_SCORE
  BY <1>1, <1>2
<1> QED
  BY <1>3 DEF P!CitesWhatWasAsked, out, measures

-----------------------------------------------------------------------------
(* Simulations.                                                            *)

Sectors == {"agriculture", "apparel"}
\* A question as it is parsed: of sectors and items that are known.
Parsed(q) ==
  /\ q.sectors \subseteq Sectors /\ q.words \subseteq Sectors
  /\ q.item = E!None \/ q.item \in DOMAIN E!SECTOR_OF_ITEM

LEMMA SectorsKnown ==
  ASSUME NEW q, Parsed(q) PROVE E!SectorsFor(q) \subseteq Sectors
BY DEF Parsed, Sectors, E!SectorsFor, E!SECTOR_OF_ITEM, E!None

LEMMA ItemOfSector ==
  ASSUME NEW q, Parsed(q), NEW s \in Sectors
  PROVE  /\ E!SECTOR_OF_ITEM[E!RepresentativeItem(s, q.item)] = s
         /\ E!RepresentativeItem(s, q.item) # E!None
BY DEF Parsed, Sectors, E!RepresentativeItem, E!SECTOR_OF_ITEM, E!None

\* What an outcome of a sector stands on.
LEMMA OutcomeGrounded ==
  ASSUME NEW q, NEW config, NEW s, NEW graph, NEW passages,
         E!SectorOutcome(q, config, s, graph, passages) # {}
  PROVE  LET item == E!RepresentativeItem(s, q.item)
         IN /\ graph.baseline[item] # E!Null
            /\ E!Shock(q) = "agreement" => item \in graph.covered
            /\ E!Shock(q) = "market_loss" => graph.bought[item] # E!Null
BY DEF E!SectorOutcome, E!BaselineValue, E!AgreementOutcome

\* No figure of a simulation is without its ground (trade_economics_node): for any question of
\* known sectors and items, any elasticities, any graph and any passages.
THEOREM FiguresAreGrounded ==
  ASSUME NEW q, NEW config, NEW graph, NEW passages, Parsed(q)
  PROVE  E!FiguresHaveGround(q, config, graph, passages)
<1> DEFINE out == E!TradeEconomics(q, config, graph, passages)
           sim == E!Simulated(q, config, graph, passages)
           done == {s \in E!SectorsFor(q) : E!SectorOutcome(q, config, s, graph, passages) # {}}
<1>1. E!Shock(q) = "tariff" => q.pct # E!Null \/ q.change
  BY DEF E!Shock
<1>2. /\ DOMAIN sim.figures = done /\ sim.cited = done /\ sim.kind = "simulated"
      /\ sim.assumed = {"shock", "form", "elasticities"} \cup (E!SectorsFor(q) \ done)
      /\ sim.gap # {} => E!Cardinality(done) = 2
  BY DEF E!Simulated
<1>3. \/ out = sim
      \/ out.kind # "simulated" /\ out.figures = <<>>
  BY DEF E!TradeEconomics, E!NoFigures
<1>4. ASSUME NEW s \in done
      PROVE  LET item == E!RepresentativeItem(s, q.item)
             IN /\ graph.baseline[item] # E!Null
                /\ E!Shock(q) = "agreement" => item \in graph.covered
                /\ E!Shock(q) = "market_loss" => graph.bought[item] # E!Null
  BY OutcomeGrounded
<1>5. done \subseteq E!SectorsFor(q) /\ done \cap {"shock", "form", "elasticities"} = {}
  BY SectorsKnown DEF Sectors
<1>6. DOMAIN <<>> = {}
  OBVIOUS
<1> HIDE DEF out, sim, done
<1>7. CASE out = sim
  BY <1>1, <1>2, <1>4, <1>5, <1>7 DEF E!FiguresHaveGround, out
<1>8. CASE out.kind # "simulated" /\ out.figures = <<>>
  BY <1>1, <1>6, <1>8 DEF E!FiguresHaveGround, out
<1> QED
  BY <1>3, <1>7, <1>8

\* The workbench and the agent tell one story (run_scenario, _simulate): for any question,
\* elasticities and graph.
THEOREM OneStory ==
  ASSUME NEW q, NEW config, NEW graph, Parsed(q)
  PROVE  E!WorkbenchAgrees(q, config, graph)
<1> SUFFICES ASSUME NEW s \in E!SectorsFor(q), E!Shock(q) \in {"fx", "tariff", "agreement"}
             PROVE  LET request == [shock |-> E!Shock(q), sector |-> s, magnitude |-> E!Magnitude(q),
                                    overrides |-> <<>>, item |-> E!RepresentativeItem(s, q.item)]
                        asked == E!SectorOutcome(q, config, s, graph, <<>>)
                        run == E!RunScenario(request, config, graph)
                    IN IF asked = {} THEN run = {[refused |-> TRUE]} ELSE run = asked
  BY DEF E!WorkbenchAgrees
<1> DEFINE item == E!RepresentativeItem(s, q.item)
           request == [shock |-> E!Shock(q), sector |-> s, magnitude |-> E!Magnitude(q),
                       overrides |-> <<>>, item |-> item]
           asked == E!SectorOutcome(q, config, s, graph, <<>>)
           run == E!RunScenario(request, config, graph)
<1>1. E!SECTOR_OF_ITEM[item] = s /\ item # E!None
  BY SectorsKnown, ItemOfSector
<1>2. E!SourcedRate(<<>>) = {}
  BY DEF E!SourcedRate
<1> HIDE DEF item
<1>3. CASE E!BaselineValue(graph, item) = E!Null
  BY <1>1, <1>3 DEF E!SectorOutcome, E!RunScenario, item
<1>4. CASE E!BaselineValue(graph, item) # E!Null /\ E!Shock(q) = "fx"
  BY <1>1, <1>4 DEF E!SectorOutcome, E!RunScenario, item
<1>5. CASE E!BaselineValue(graph, item) # E!Null /\ E!Shock(q) = "tariff"
  BY <1>1, <1>5 DEF E!SectorOutcome, E!RunScenario, item
<1>6. CASE E!BaselineValue(graph, item) # E!Null /\ E!Shock(q) = "agreement"
  BY <1>1, <1>2, <1>6 DEF E!SectorOutcome, E!RunScenario, E!AgreementOutcome, item
<1> QED
  BY <1>3, <1>4, <1>5, <1>6 DEF item

LEMMA LessOfALoss ==
  ASSUME NEW e \in Int, e < 0, NEW a \in Int, NEW b \in Int, a <= b PROVE e * a >= e * b
OBVIOUS

\* A tariff is paid by the buyer and the exporter between them (_tariff_split): for any sector
\* and tariff, and any elasticity by which demand falls as prices rise.
THEOREM TariffShared ==
  ASSUME NEW config, NEW sector, NEW tariff \in Nat,
         E!Parameter(config, "export_demand_elasticity", sector, <<>>).value \in Int,
         E!Parameter(config, "export_demand_elasticity", sector, <<>>).value < 0
  PROVE  E!TariffIsShared(config, sector, tariff)
<1> DEFINE e == E!Parameter(config, "export_demand_elasticity", sector, <<>>).value
           at(s) == E!TariffShock(config, sector, tariff, [tariff_incidence |-> s])
           borne(s) == E!Parameter(config, "tariff_incidence", sector, [tariff_incidence |-> s])
<1>1. ASSUME NEW s \in 0..10
      PROVE  /\ borne(s).value = s
             /\ at(s).price = ((10 - s) * tariff) * 10
             /\ at(s).volume = e * ((10 - s) * tariff)
             /\ at(s).revenue = e * ((10 - s) * tariff) - s * tariff * 10
  <2>1. borne(s).value = s
    BY DEF E!Parameter
  <2>2. E!Parameter(config, "export_demand_elasticity", sector, [tariff_incidence |-> s]).value = e
    BY DEF E!Parameter
  <2> HIDE DEF e
  <2> QED
    BY <2>1, <2>2 DEF E!TariffShock, E!Split, E!TariffSplit, E!Outcome
<1>2. ASSUME NEW s \in 0..10
      PROVE  /\ at(s).price + borne(s).value * tariff * 10 = tariff * 100
             /\ tariff > 0 => at(s).revenue < 0
             /\ s > 0 => at(s).volume >= at(s - 1).volume
  <2>1. (10 - s) * tariff \in Int /\ s * tariff \in Int /\ s * tariff >= 0 /\ (10 - s) * tariff >= 0
        /\ (10 - s) * tariff + s * tariff = 10 * tariff
    OBVIOUS
  <2>2. e \in Int /\ e < 0 /\ e * 0 = 0
    OBVIOUS
  <2> HIDE DEF e, at, borne
  <2>3. at(s).price + borne(s).value * tariff * 10 = tariff * 100
    <3>1. at(s).price = ((10 - s) * tariff) * 10 /\ borne(s).value = s
      BY <1>1
    <3>2. s * tariff * 10 = (s * tariff) * 10
      OBVIOUS
    <3>3. \A a, b \in Int : a + b = 10 * tariff => a * 10 + b * 10 = tariff * 100
      OBVIOUS
    <3> QED
      BY ONLY <2>1, <3>1, <3>2, <3>3
  <2>4. ASSUME tariff > 0 PROVE at(s).revenue < 0
    <3>1. e * ((10 - s) * tariff) <= 0
      BY <2>1, <2>2, LessOfALoss
    <3>2. CASE s = 0
      <4>1. (10 - s) * tariff >= 1
        BY <3>2, <2>4
      <4>2. e * ((10 - s) * tariff) <= e * 1
        BY <2>1, <2>2, <4>1, LessOfALoss
      <4>3. at(s).revenue = e * ((10 - s) * tariff) - 0
        <5>1. s * tariff * 10 = 0
          BY <3>2
        <5> QED
          BY <1>1, <5>1
      <4>4. e * 1 = e /\ e * ((10 - s) * tariff) \in Int
        BY <2>1, <2>2
      <4> QED
        BY ONLY <2>2, <4>2, <4>3, <4>4
    <3>3. CASE s > 0
      <4>1. s * tariff >= 1
        BY <3>3, <2>4
      <4>2. at(s).revenue = e * ((10 - s) * tariff) - s * tariff * 10
        BY <1>1
      <4>3. e * ((10 - s) * tariff) \in Int /\ s * tariff * 10 \in Int /\ s * tariff * 10 >= 1
        BY <2>1, <2>2, <4>1
      <4> QED
        BY ONLY <3>1, <4>2, <4>3
    <3> QED
      BY <3>2, <3>3
  <2>5. ASSUME s > 0 PROVE at(s).volume >= at(s - 1).volume
    <3>1. s - 1 \in 0..10 /\ (10 - (s - 1)) * tariff \in Int
      BY <2>5
    <3>2. (10 - s) * tariff <= (10 - (s - 1)) * tariff
      BY <2>5
    <3> QED
      BY <1>1, <2>1, <2>2, <3>1, <3>2, LessOfALoss
  <2> QED
    BY <2>3, <2>4, <2>5
<1> DEFINE shock == E!TariffShock(config, sector, tariff, <<>>)
           rate == [E!Parameter(config, "agreement_loss_mfn_tariff", sector, <<>>)
                      EXCEPT !.value = tariff]
           loss == E!AgreementLoss(config, sector, rate, <<>>)
<1>3. shock.revenue = loss.revenue /\ shock.price = loss.price
  <2>1. rate.value = tariff
    BY DEF E!Parameter
  <2> HIDE DEF rate
  <2> QED
    BY <2>1 DEF E!TariffShock, E!AgreementLoss, E!Split, E!Outcome
<1> HIDE DEF at, borne, shock, loss
<1> QED
  BY <1>2, <1>3 DEF E!TariffIsShared, at, borne, shock, rate, loss

LEMMA OneCount ==
  ASSUME NEW T PROVE E!Cardinality(T) = Cardinality(T)
BY DEF E!Cardinality, Cardinality

\* A documents' rate is one they agree on (extract_tariff_rate): for any passages in any order.
THEOREM RateAgreed ==
  ASSUME NEW passages, passages \in Seq([tariff : BOOLEAN, goods : BOOLEAN, rates : SUBSET Nat])
  PROVE  E!DocumentsAgree(passages)
<1> DEFINE n == Len(passages)
           reversed == [i \in 1..n |-> passages[n + 1 - i]]
           found == UNION {E!Rates(passages[i]) : i \in DOMAIN passages}
<1>1. n \in Nat /\ DOMAIN passages = 1..n /\ DOMAIN reversed = 1..n
  OBVIOUS
<1>2. UNION {E!Rates(reversed[i]) : i \in DOMAIN reversed} = found
  <2>1. ASSUME NEW i \in 1..n PROVE n + 1 - i \in 1..n /\ reversed[n + 1 - i] = passages[i]
                                    /\ reversed[i] = passages[n + 1 - i]
    <3>1. n + 1 - i \in 1..n /\ n + 1 - (n + 1 - i) = i
      BY <1>1
    <3> QED
      BY <1>1, <3>1
  <2>2. \A i \in 1..n : E!Rates(reversed[i]) \subseteq found
    BY <1>1, <2>1
  <2>3. \A i \in 1..n : \E j \in 1..n : E!Rates(passages[i]) = E!Rates(reversed[j])
    BY <2>1
  <2> HIDE DEF n, reversed
  <2> QED
    BY <1>1, <2>2, <2>3
<1>3. found \subseteq 1..60
  <2>1. ASSUME NEW i \in 1..n PROVE passages[i].rates \subseteq Nat
    <3>1. passages[i] \in [tariff : BOOLEAN, goods : BOOLEAN, rates : SUBSET Nat]
      BY ElementOfSeq
    <3> QED
      BY <3>1
  <2>2. ASSUME NEW i \in 1..n PROVE E!Rates(passages[i]) \subseteq 1..60
    <3> SUFFICES ASSUME NEW r \in E!Rates(passages[i]) PROVE r \in 1..60
      OBVIOUS
    <3>1. r \in passages[i].rates /\ 1 <= r /\ r <= 60
      BY DEF E!Rates, E!MIN_PLAUSIBLE_RATE, E!MAX_PLAUSIBLE_RATE
    <3>2. passages[i].rates \subseteq Nat
      BY <2>1
    <3>3. r \in Nat
      BY ONLY <3>1, <3>2
    <3> QED
      BY ONLY <3>1, <3>3
  <2> HIDE DEF n
  <2> QED
    BY <1>1, <2>2
<1>4. IsFiniteSet(found)
  <2> HIDE DEF found
  <2>1. IsFiniteSet(1..60)
    <3>1. 1 \in Int /\ 60 \in Int
      OBVIOUS
    <3> QED
      BY <3>1, FS_Interval
  <2> QED
    BY <1>3, <2>1, FS_Subset
<1>5. ASSUME NEW r \in E!SourcedRate(passages), NEW i \in 1..n
      PROVE  E!Rates(passages[i]) \subseteq {r}
  <2>1. E!Cardinality(found) = 1 /\ r \in found
    BY DEF E!SourcedRate
  <2>2. Cardinality(found) = 1
    BY <2>1, OneCount
  <2>3. PICK x : found = {x}
    BY <1>4, <2>2, FS_Singleton
  <2>4. E!Rates(passages[i]) \subseteq found
    BY <1>1
  <2> HIDE DEF found
  <2> QED
    BY <2>1, <2>3, <2>4
<1>6. E!SourcedRate(passages) = E!SourcedRate(reversed)
  <2> HIDE DEF reversed
  <2> QED
    BY <1>2 DEF E!SourcedRate
<1> QED
  BY <1>5, <1>6 DEF E!DocumentsAgree

-----------------------------------------------------------------------------
(* The merge.                                                              *)

\* A run's state as the merge is given it: finitely many outputs, of whole confidences and
\* figures.
WholeRun(s) ==
  /\ s = [query |-> s.query, outputs |-> s.outputs, route |-> s.route, relevance |-> s.relevance,
          notes |-> s.notes, noTopic |-> s.noTopic]
  /\ s.outputs = [a \in DOMAIN s.outputs |-> s.outputs[a]] /\ IsFiniteSet(DOMAIN s.outputs)
  /\ \A a \in DOMAIN s.outputs :
       /\ s.outputs[a].confidence \in Int
       /\ \A f \in DOMAIN s.outputs[a].figures : s.outputs[a].figures[f] \in Int

\* The agents that succeeded, those of them that answered and those that declined.
Sound(s) == {a \in DOMAIN s.outputs : ~s.outputs[a].error}
Heard(s) == {a \in Sound(s) : s.outputs[a].confidence >= M!DECLINE_CONFIDENCE_CEILING}
Shy(s) == {a \in Sound(s) : s.outputs[a].confidence < M!DECLINE_CONFIDENCE_CEILING}

LEMMA PartsOfARun ==
  ASSUME NEW s
  PROVE  /\ M!Succeeded(s) = [a \in Sound(s) |-> s.outputs[a]]
         /\ M!Contributing(M!Succeeded(s)) = [a \in Heard(s) |-> s.outputs[a]]
         /\ M!Declined(M!Succeeded(s)) = [a \in Shy(s) |-> s.outputs[a]]
         /\ DOMAIN M!Failed(s) = {a \in DOMAIN s.outputs : s.outputs[a].error}
<1>1. M!Succeeded(s) = [a \in Sound(s) |-> s.outputs[a]]
  BY DEF M!Succeeded, M!Part, Sound
<1>2. DOMAIN M!Failed(s) = {a \in DOMAIN s.outputs : s.outputs[a].error}
  BY DEF M!Failed, M!Part
<1> DEFINE got == [a \in Sound(s) |-> s.outputs[a]]
<1>3. DOMAIN got = Sound(s) /\ \A a \in Sound(s) : got[a] = s.outputs[a]
  OBVIOUS
<1> HIDE DEF got
<1>4. M!Contributing(got) = [a \in Heard(s) |-> s.outputs[a]]
  BY <1>3 DEF M!Contributing, M!Part, Heard
<1>5. M!Declined(got) = [a \in Shy(s) |-> s.outputs[a]]
  BY <1>3 DEF M!Declined, M!Part, Shy
<1> QED
  BY <1>1, <1>2, <1>4, <1>5 DEF got

\* The gaps of a question with a topic.
LEMMA GapsOfARun ==
  ASSUME NEW s, NEW prose, NEW now, NEW c, ~s.noTopic
  PROVE  LET r == M!MergeOf(s, prose, now, c)
         IN /\ DOMAIN M!Succeeded(s) = r.agentsUsed
            /\ r.unanswered = M!DescribeGaps(M!Failed(s), M!NeverReported(s))
                 \cup M!DescribeDeclines(s.query, M!Declined(M!Succeeded(s)),
                                         M!Contributing(M!Succeeded(s)), c.sectorOf)
                 \cup M!OutOfScopeGaps(s)
            /\ r.unanswered \subseteq r.answer.gaps \/ r.answer.hedged
<1> DEFINE gaps == M!DescribeGaps(M!Failed(s), M!NeverReported(s))
                     \cup M!DescribeDeclines(s.query, M!Declined(M!Succeeded(s)),
                                             M!Contributing(M!Succeeded(s)), c.sectorOf)
                     \cup M!OutOfScopeGaps(s)
           r == M!MergeOf(s, prose, now, c)
           conflicts == M!DetectConflicts(M!Contributing(M!Succeeded(s)), c.directional)
<1>1. /\ DOMAIN M!Succeeded(s) = r.agentsUsed /\ r.unanswered = gaps
      /\ r.answer \in {M!NothingSucceeded(gaps), M!Complete(prose, conflicts, gaps),
                       M!Deterministic(M!Contributing(M!Succeeded(s)), conflicts, gaps)}
  BY DEF M!MergeOf
<1> HIDE DEF gaps, r, conflicts
<1>2. gaps \subseteq r.answer.gaps \/ r.answer.hedged
  BY <1>1 DEF M!NothingSucceeded, M!Complete, M!Deterministic
<1> QED
  BY <1>1, <1>2 DEF gaps, r

\* Every agent that was asked is accounted for in the answer (merge): for any agents, outputs,
\* question and prose.
THEOREM AgentsAccounted ==
  ASSUME NEW s, NEW prose, NEW now, NEW c, WholeRun(s)
  PROVE  M!EveryAgentAccounted(s, M!MergeOf(s, prose, now, c), c)
<1> DEFINE r == M!MergeOf(s, prose, now, c)
           gap(a) == {g \in r.unanswered : g.agent = a}
           missing(a) == gap(a) # {} /\ (gap(a) \subseteq r.answer.gaps \/ r.answer.hedged)
<1> SUFFICES ASSUME ~s.noTopic, NEW a \in s.route
             PROVE  \/ a \in DOMAIN s.outputs /\ ~s.outputs[a].error
                         /\ s.outputs[a].confidence >= M!DECLINE_CONFIDENCE_CEILING
                    \/ missing(a)
                    \/ /\ a \in DOMAIN s.outputs /\ ~s.outputs[a].error
                       /\ \E b \in r.agentsUsed \ {a} :
                            \/ LET subject == s.query.words \cap s.outputs[a].text.words
                               IN subject # {} /\ subject \subseteq s.outputs[b].text.words
                            \/ M!Names(s.outputs[b].text, s.outputs[a].first, c.sectorOf)
  BY DEF M!EveryAgentAccounted
<1>1. /\ r.unanswered = M!DescribeGaps(M!Failed(s), M!NeverReported(s))
           \cup M!DescribeDeclines(s.query, M!Declined(M!Succeeded(s)),
                                   M!Contributing(M!Succeeded(s)), c.sectorOf)
           \cup M!OutOfScopeGaps(s)
      /\ r.unanswered \subseteq r.answer.gaps \/ r.answer.hedged
      /\ r.agentsUsed = Sound(s)
  <2>1. DOMAIN M!Succeeded(s) = Sound(s)
    <3>1. DOMAIN [b \in Sound(s) |-> s.outputs[b]] = Sound(s)
      OBVIOUS
    <3> QED
      BY <3>1, PartsOfARun
  <2> QED
    BY <2>1, GapsOfARun
<1> HIDE DEF r
<1>2. ASSUME NEW why, [agent |-> a, why |-> why] \in r.unanswered PROVE missing(a)
  BY <1>1, <1>2
<1>3. CASE a \notin DOMAIN s.outputs
  <2>1. [agent |-> a, why |-> "late"] \in r.unanswered
    BY <1>1, <1>3 DEF M!DescribeGaps, M!NeverReported
  <2> QED
    BY <1>2, <2>1
<1>4. CASE a \in DOMAIN s.outputs /\ s.outputs[a].error
  <2>1. [agent |-> a, why |-> "failed"] \in r.unanswered
    BY <1>1, <1>4, PartsOfARun DEF M!DescribeGaps
  <2> QED
    BY <1>2, <2>1
<1>5. CASE a \in Heard(s)
  BY <1>5 DEF Heard, Sound
<1>6. CASE a \in Shy(s)
  <2> DEFINE declined == M!Declined(M!Succeeded(s))
             contributing == M!Contributing(M!Succeeded(s))
  <2>1. /\ a \in DOMAIN declined /\ declined[a] = s.outputs[a] /\ DOMAIN contributing = Heard(s)
        /\ \A b \in Heard(s) : contributing[b] = s.outputs[b]
    <3>1. declined = [b \in Shy(s) |-> s.outputs[b]] /\ contributing = [b \in Heard(s) |-> s.outputs[b]]
      BY PartsOfARun
    <3> HIDE DEF declined, contributing
    <3> QED
      BY <1>6, <3>1
  <2>2. a \notin Heard(s) /\ Heard(s) \subseteq Sound(s) /\ a \in Sound(s)
    BY <1>6 DEF WholeRun, Heard, Shy, Sound, M!DECLINE_CONFIDENCE_CEILING
  <2> HIDE DEF declined, contributing
  <2>3. CASE M!Covered(s.query, declined[a], contributing, c.sectorOf)
    BY <1>1, <2>1, <2>2, <2>3 DEF M!Covered, M!SameItemAnswered, Sound
  <2>4. CASE ~M!Covered(s.query, declined[a], contributing, c.sectorOf)
    <3>1. [agent |-> a, why |-> "declined"] \in r.unanswered
      BY <1>1, <2>1, <2>4 DEF M!DescribeDeclines, declined, contributing
    <3> QED
      BY <1>2, <3>1
  <2> QED
    BY <2>3, <2>4
<1> QED
  BY <1>3, <1>4, <1>5, <1>6 DEF WholeRun, Heard, Shy, Sound, M!DECLINE_CONFIDENCE_CEILING

\* What the API works out again is what the merge worked with: for any state of a run.
THEOREM ApiReadsTheSame ==
  ASSUME NEW s, NEW prose, NEW now, NEW c
  PROVE  M!ApiAgrees(s, M!MergeOf(s, prose, now, c), c)
<1> DEFINE r == M!MergeOf(s, prose, now, c)
<1>1. CASE ~s.noTopic
  <2>1. r.agentsUsed = M!AgentsUsed(s) /\ r.unanswered = M!Unanswered(s, c)
    BY <1>1, GapsOfARun DEF M!AgentsUsed, M!Unanswered
  <2> HIDE DEF r
  <2> QED
    BY <1>1, <2>1 DEF M!ApiAgrees, r
<1>2. CASE s.noTopic
  <2> DEFINE none == <<>>
  <2>1. DOMAIN none = {}
    OBVIOUS
  <2> HIDE DEF none
  <2>2. DOMAIN M!Contributing(none) = {}
    BY <2>1 DEF M!Contributing, M!Part
  <2> DEFINE scored == M!Scored(s, none, FALSE)
  <2>3. scored.evidence = none
    BY <2>2 DEF M!Scored
  <2> HIDE DEF scored
  <2>4. M!DedupeEvidence(scored.evidence) = {} /\ ~M!HasForecast(none)
    BY <2>1, <2>3 DEF M!DedupeEvidence, M!HasForecast
  <2>5. /\ r.agentsUsed = {} /\ M!OutOfScopeGaps(s) \subseteq r.unanswered
        /\ r.evidence = M!DedupeEvidence(scored.evidence) /\ r.forecast = M!HasForecast(none)
    BY <1>2, <2>1, <2>2 DEF M!MergeOf, none, scored
  <2>6. M!AgentsUsed(s) = {} /\ M!Unanswered(s, c) = M!OutOfScopeGaps(s)
    BY <1>2 DEF M!AgentsUsed, M!Unanswered
  <2> HIDE DEF r
  <2> QED
    BY <1>2, <2>4, <2>5, <2>6 DEF M!ApiAgrees, r
<1> QED
  BY <1>1, <1>2

\* A finite set of numbers has a greatest and a least.
LEMMA Extremes ==
  ASSUME NEW T, IsFiniteSet(T), T # {}, T \subseteq Int
  PROVE  /\ M!Max(T) \in T /\ \A x \in T : M!Max(T) >= x
         /\ M!Min(T) \in T /\ \A x \in T : M!Min(T) <= x
<1> DEFINE Good == {t \in SUBSET T : t # {} => /\ \E x \in t : \A y \in t : x >= y
                                               /\ \E x \in t : \A y \in t : x <= y}
<1>1. ASSUME NEW t \in SUBSET T, t # {} => t \ {Chosen(t)} \in Good
      PROVE  t \in Good
  <2>1. CASE t = {} \/ t \ {Chosen(t)} = {}
    <3>1. CASE t = {}
      BY <3>1
    <3>2. CASE t # {} /\ t \ {Chosen(t)} = {}
      <4>1. t = {Chosen(t)} /\ Chosen(t) \in Int
        BY <3>2, ChosenOne
      <4> DEFINE x == Chosen(t)
      <4>2. t = {x} /\ x \in Int
        BY <4>1
      <4> HIDE DEF x
      <4>3. x >= x /\ x <= x
        BY <4>2
      <4> QED
        BY <4>2, <4>3
    <3> QED
      BY <2>1, <3>1, <3>2
  <2>2. CASE t # {} /\ t \ {Chosen(t)} # {}
    <3> DEFINE rest == t \ {Chosen(t)}
               c == Chosen(t)
    <3>1. t = rest \cup {c} /\ c \in Int /\ rest \subseteq Int
      BY <2>2, ChosenOne
    <3>2. /\ \E x \in rest : \A y \in rest : x >= y
          /\ \E x \in rest : \A y \in rest : x <= y
      BY <1>1, <2>2
    <3> HIDE DEF rest, c
    <3>3. \E x \in t : \A y \in t : x >= y
      <4>1. PICK x \in rest : \A y \in rest : x >= y
        BY <3>2
      <4>2. CASE c >= x
        <5>1. \A y \in t : c >= y
          BY <3>1, <4>1, <4>2
        <5> QED
          BY <3>1, <5>1
      <4>3. CASE ~(c >= x)
        <5>1. \A y \in t : x >= y
          BY <3>1, <4>1, <4>3
        <5> QED
          BY <3>1, <5>1
      <4> QED
        BY <4>2, <4>3
    <3>4. \E x \in t : \A y \in t : x <= y
      <4>1. PICK x \in rest : \A y \in rest : x <= y
        BY <3>2
      <4>2. CASE c <= x
        <5>1. \A y \in t : c <= y
          BY <3>1, <4>1, <4>2
        <5> QED
          BY <3>1, <5>1
      <4>3. CASE ~(c <= x)
        <5>1. \A y \in t : x <= y
          BY <3>1, <4>1, <4>3
        <5> QED
          BY <3>1, <5>1
      <4> QED
        BY <4>2, <4>3
    <3> QED
      BY <3>3, <3>4
  <2> QED
    BY <2>1, <2>2
<1> HIDE DEF Good
<1>2. SUBSET T \subseteq Good
  BY <1>1, OneByOne
<1>3. /\ \E x \in T : \A y \in T : x >= y
      /\ \E x \in T : \A y \in T : x <= y
  BY <1>2 DEF Good
<1> QED
  BY <1>3 DEF M!Max, M!Min

LEMMA GreaterOfTwo ==
  ASSUME NEW x \in Int, NEW y \in Int
  PROVE  M!Max({x, y}) \in {x, y} /\ M!Max({x, y}) >= x /\ M!Max({x, y}) >= y
<1>1. IsFiniteSet({x, y})
  <2>1. IsFiniteSet({x})
    BY FS_Singleton
  <2>2. IsFiniteSet({x} \cup {y})
    BY ONLY <2>1, FS_AddElement
  <2>3. {x, y} = {x} \cup {y}
    OBVIOUS
  <2> QED
    BY <2>2, <2>3
<1> QED
  BY <1>1, Extremes

\* Two numbers are a tenth of the larger apart, or of opposite signs; so are the extremes of
\* any numbers that hold them.
Apart(x, y) == 10 * M!Big(x - y) > M!Max({M!Big(x), M!Big(y)})

LEMMA ApartIs ==
  ASSUME NEW x \in Int, NEW y \in Int
  PROVE  Apart(x, y) <=> 10 * M!Big(x - y) > M!Big(x) /\ 10 * M!Big(x - y) > M!Big(y)
<1>1. M!Big(x) \in Int /\ M!Big(y) \in Int /\ M!Big(x - y) \in Int
  BY DEF M!Big
<1>2. /\ M!Max({M!Big(x), M!Big(y)}) \in {M!Big(x), M!Big(y)}
      /\ M!Max({M!Big(x), M!Big(y)}) >= M!Big(x) /\ M!Max({M!Big(x), M!Big(y)}) >= M!Big(y)
  BY <1>1, GreaterOfTwo
<1> QED
  BY <1>1, <1>2 DEF Apart

LEMMA WiderApart ==
  ASSUME NEW x \in Int, NEW y \in Int, NEW low \in Int, NEW high \in Int, Apart(x, y),
         low <= x, x <= high, low <= y, y <= high
  PROVE  Apart(high, low)
BY ApartIs DEF M!Big

\* What DetectConflicts compares: one figure's values over finitely many analyses.
LEMMA SpreadIsAPair ==
  ASSUME NEW V, IsFiniteSet(V), V # {}, V \subseteq Int
  PROVE  LET scale == M!Max({M!Big(M!Min(V)), M!Big(M!Max(V))})
             apart == scale > 0 /\ 10 * (M!Max(V) - M!Min(V)) > scale
             opposed == (\E v \in V : v > 0) /\ \E v \in V : v < 0
         IN /\ apart \/ opposed => \E x, y \in V : Apart(x, y)
            /\ (\E x, y \in V : Apart(x, y)) => apart
<1> DEFINE low == M!Min(V)
           high == M!Max(V)
           scale == M!Max({M!Big(low), M!Big(high)})
           apart == scale > 0 /\ 10 * (high - low) > scale
           opposed == (\E v \in V : v > 0) /\ \E v \in V : v < 0
<1>1. /\ low \in V /\ high \in V /\ low \in Int /\ high \in Int
      /\ \A x \in V : low <= x /\ x <= high
  BY Extremes
<1> HIDE DEF low, high
<1>2. /\ M!Big(low) \in Int /\ M!Big(high) \in Int /\ high - low >= 0 /\ M!Big(high - low) = high - low
      /\ M!Big(low) >= 0 /\ M!Big(high) >= 0
  BY <1>1 DEF M!Big
<1>3. scale \in {M!Big(low), M!Big(high)} /\ scale >= M!Big(low) /\ scale >= M!Big(high)
  BY <1>2, GreaterOfTwo
<1>4. Apart(high, low) <=> 10 * (high - low) > M!Big(high) /\ 10 * (high - low) > M!Big(low)
  BY <1>1, <1>2, ApartIs
<1> HIDE DEF scale
<1>5. apart <=> Apart(high, low)
  <2>1. scale \in Int
    BY <1>2, <1>3
  <2>2. Apart(high, low) => scale > 0
    <3> SUFFICES ASSUME Apart(high, low), scale = 0 PROVE FALSE
      BY <1>2, <1>3, <2>1
    <3>1. low = 0 /\ high = 0
      BY <1>1, <1>2, <1>3 DEF M!Big
    <3> QED
      BY <1>2, <1>4, <3>1
  <2>3. 10 * (high - low) > scale <=> Apart(high, low)
    BY <1>1, <1>2, <1>3, <1>4
  <2> QED
    BY <2>2, <2>3
<1>6. ASSUME opposed PROVE Apart(high, low)
  <2>1. low < 0 /\ high > 0
    <3>1. PICK v \in V, w \in V : v > 0 /\ w < 0
      BY <1>6
    <3>2. v \in Int /\ w \in Int /\ v <= high /\ low <= w
      BY <1>1
    <3> QED
      BY ONLY <1>1, <3>1, <3>2
  <2> QED
    BY <1>1, <1>4, <2>1 DEF M!Big
<1>7. ASSUME NEW x \in V, NEW y \in V, Apart(x, y) PROVE Apart(high, low)
  <2>1. x \in Int /\ y \in Int
    OBVIOUS
  <2> QED
    BY <1>1, <1>7, <2>1, WiderApart
<1> HIDE DEF apart, opposed
<1>8. (apart \/ opposed => \E x, y \in V : Apart(x, y)) /\ ((\E x, y \in V : Apart(x, y)) => apart)
  BY <1>1, <1>5, <1>6, <1>7
<1> QED
  BY <1>8 DEF apart, opposed, scale, low, high

\* The figures that are called disputed are those that two analyses dispute.
LEMMA DisputedIs ==
  ASSUME NEW outputs, NEW directional, IsFiniteSet(DOMAIN outputs),
         \A a \in DOMAIN outputs : \A f \in DOMAIN outputs[a].figures : outputs[a].figures[f] \in Int,
         NEW f
  PROVE  (\E k \in M!DetectConflicts(outputs, directional) : k.figure = f) <=>
           \E a, b \in DOMAIN outputs :
             /\ f \in DOMAIN outputs[a].figures /\ f \in DOMAIN outputs[b].figures
             /\ Apart(outputs[a].figures[f], outputs[b].figures[f])
<1> DEFINE Holders(g) == {a \in DOMAIN outputs : g \in DOMAIN outputs[a].figures}
           Vals(g) == {outputs[a].figures[g] : a \in Holders(g)}
           Opposed(g) == g \in directional /\ (\E v \in Vals(g) : v > 0) /\ \E v \in Vals(g) : v < 0
           Scale(g) == M!Max({M!Big(M!Min(Vals(g))), M!Big(M!Max(Vals(g)))})
           Wide(g) == Scale(g) > 0 /\ 10 * (M!Max(Vals(g)) - M!Min(Vals(g))) > Scale(g)
           shared == {g \in UNION {DOMAIN outputs[a].figures : a \in DOMAIN outputs} :
                        M!Cardinality(Holders(g)) >= 2}
           pair == \E x, y \in Vals(f) : Apart(x, y)
<1>1. (\E k \in M!DetectConflicts(outputs, directional) : k.figure = f)
        <=> f \in shared /\ (Opposed(f) \/ Wide(f))
  <2>1. M!DetectConflicts(outputs, directional) =
          {[figure |-> g, kind |-> IF Opposed(g) THEN "direction" ELSE "magnitude"] :
             g \in {h \in shared : Opposed(h) \/ Wide(h)}}
    BY DEF M!DetectConflicts
  <2> DEFINE told(g) == [figure |-> g, kind |-> IF Opposed(g) THEN "direction" ELSE "magnitude"]
  <2>2. \A g : told(g).figure = g
    OBVIOUS
  <2> HIDE DEF shared, Opposed, Wide, told
  <2>3. M!DetectConflicts(outputs, directional) =
          {told(g) : g \in {h \in shared : Opposed(h) \/ Wide(h)}}
    BY <2>1 DEF told
  <2> QED
    BY <2>2, <2>3
<1>2. IsFiniteSet(Holders(f)) /\ IsFiniteSet(Vals(f)) /\ Vals(f) \subseteq Int
  <2>1. IsFiniteSet(Holders(f))
    BY FS_Subset
  <2>2. IsFiniteSet(Vals(f))
    <3> DEFINE value == [a \in Holders(f) |-> outputs[a].figures[f]]
    <3>1. value \in Surjection(Holders(f), Vals(f))
      BY DEF Surjection
    <3> HIDE DEF value
    <3> QED
      BY <2>1, <3>1, FS_Surjection
  <2> QED
    BY <2>1, <2>2
<1>3. pair <=> \E a, b \in DOMAIN outputs :
             /\ f \in DOMAIN outputs[a].figures /\ f \in DOMAIN outputs[b].figures
             /\ Apart(outputs[a].figures[f], outputs[b].figures[f])
  OBVIOUS
<1>4. ASSUME f \in shared, Opposed(f) \/ Wide(f) PROVE pair
  <2>1. Vals(f) # {}
    BY <1>4
  <2> HIDE DEF Vals
  <2> QED
    BY <1>2, <1>4, <2>1, SpreadIsAPair
<1>5. ASSUME pair PROVE f \in shared /\ Wide(f)
  <2>1. PICK a \in Holders(f), b \in Holders(f) : Apart(outputs[a].figures[f], outputs[b].figures[f])
    BY <1>5
  <2>2. a # b
    <3> SUFFICES ASSUME a = b PROVE FALSE
      OBVIOUS
    <3>1. outputs[a].figures[f] \in Int
      OBVIOUS
    <3>2. \A x \in Int : ~Apart(x, x)
      BY ApartIs DEF M!Big
    <3> QED
      BY <2>1, <3>1, <3>2
  <2>3. M!Cardinality(Holders(f)) >= 2
    <3> HIDE DEF Holders
    <3>1. IsFiniteSet({a}) /\ Cardinality({a}) = 1
      BY FS_Singleton
    <3>2. Cardinality({a} \cup {b}) = 2
      BY <2>2, <3>1, FS_AddElement
    <3>3. Cardinality({a} \cup {b}) <= Cardinality(Holders(f))
      <4>1. {a} \cup {b} \subseteq Holders(f)
        OBVIOUS
      <4> QED
        BY <1>2, <4>1, FS_Subset
    <3>4. M!Cardinality(Holders(f)) = Cardinality(Holders(f)) /\ Cardinality(Holders(f)) \in Nat
      BY <1>2, FS_CardinalityType DEF M!Cardinality, Cardinality
    <3> QED
      BY <3>2, <3>3, <3>4
  <2>4. f \in shared
    BY <2>3
  <2>5. Vals(f) # {}
    BY <1>5
  <2>6. Wide(f)
    <3> HIDE DEF Vals
    <3> QED
      BY <1>2, <1>5, <2>5, SpreadIsAPair
  <2> QED
    BY <2>4, <2>6
<1> HIDE DEF shared, Opposed, Wide, pair
<1> QED
  BY <1>1, <1>3, <1>4, <1>5

\* Exactly the disputed figures are called disputed, and no answer leaves them out
\* (detect_conflicts): for any finite number of agents and any whole figures.
THEOREM DisputesStated ==
  ASSUME NEW s, NEW prose, NEW now, NEW c, WholeRun(s)
  PROVE  M!ConflictsStated(s, M!MergeOf(s, prose, now, c))
<1> DEFINE r == M!MergeOf(s, prose, now, c)
           K == M!Contributing(M!Succeeded(s))
           heard == {a \in r.agentsUsed : s.outputs[a].confidence >= M!DECLINE_CONFIDENCE_CEILING}
           disagree(a, b, f) ==
             10 * M!Big(s.outputs[a].figures[f] - s.outputs[b].figures[f])
               > M!Max({M!Big(s.outputs[a].figures[f]), M!Big(s.outputs[b].figures[f])})
<1> SUFFICES ASSUME ~s.noTopic
             PROVE  /\ {k.figure : k \in r.conflicts} =
                         {f \in UNION {DOMAIN s.outputs[a].figures : a \in heard} :
                            \E a, b \in heard :
                              /\ f \in DOMAIN s.outputs[a].figures \cap DOMAIN s.outputs[b].figures
                              /\ disagree(a, b, f)}
                    /\ r.agentsUsed # {} => r.answer.conflicts = r.conflicts
  BY DEF M!ConflictsStated
<1>1. /\ r.conflicts = M!DetectConflicts(K, c.directional) /\ r.agentsUsed = DOMAIN M!Succeeded(s)
      /\ r.agentsUsed # {} => r.answer.conflicts = r.conflicts
  BY DEF M!MergeOf, M!Complete, M!Deterministic
<1>2. /\ DOMAIN K = Heard(s) /\ (\A a \in Heard(s) : K[a] = s.outputs[a])
      /\ DOMAIN M!Succeeded(s) = Sound(s)
  <2> DEFINE got == [a \in Sound(s) |-> s.outputs[a]]
             held == [a \in Heard(s) |-> s.outputs[a]]
  <2>1. M!Succeeded(s) = got /\ K = held
    BY PartsOfARun
  <2>2. DOMAIN got = Sound(s) /\ DOMAIN held = Heard(s) /\ \A a \in Heard(s) : held[a] = s.outputs[a]
    OBVIOUS
  <2> HIDE DEF got, held, K
  <2> QED
    BY <2>1, <2>2
<1> HIDE DEF r, K
<1>3. heard = Heard(s)
  BY <1>1, <1>2 DEF Heard
<1>4. Heard(s) \subseteq DOMAIN s.outputs /\ IsFiniteSet(DOMAIN K)
  BY <1>2, FS_Subset DEF WholeRun, Heard, Sound
<1>5. \A a \in DOMAIN K : \A f \in DOMAIN K[a].figures : K[a].figures[f] \in Int
  BY <1>2, <1>4 DEF WholeRun
<1>6. ASSUME NEW f
      PROVE  f \in {k.figure : k \in r.conflicts} <=>
               \E a, b \in heard : /\ f \in DOMAIN s.outputs[a].figures \cap DOMAIN s.outputs[b].figures
                                   /\ disagree(a, b, f)
  <2>1. (\E k \in M!DetectConflicts(K, c.directional) : k.figure = f) <=>
           \E a, b \in DOMAIN K :
             /\ f \in DOMAIN K[a].figures /\ f \in DOMAIN K[b].figures
             /\ Apart(K[a].figures[f], K[b].figures[f])
    BY <1>4, <1>5, DisputedIs
  <2> QED
    BY <1>1, <1>2, <1>3, <2>1 DEF Apart
<1> HIDE DEF heard, disagree
<1> QED
  BY <1>1, <1>6

\* An agent that declines costs an answered question nothing (merge): for any agents and
\* outputs, with the dates of the evidence as the property has them.
THEOREM DeclinesAreFree ==
  ASSUME NEW s, NEW prose, NEW now, NEW c, WholeRun(s)
  PROVE  M!DeclineIsNeutral(s, prose, now, c)
<1> DEFINE D == {a \in DOMAIN M!Succeeded(s) :
                   s.outputs[a].confidence < M!DECLINE_CONFIDENCE_CEILING}
           without == [s EXCEPT !.outputs = [a \in DOMAIN s.outputs \ D |-> s.outputs[a]],
                                !.route = @ \ D]
           whole == M!MergeOf(s, prose, now, c)
           less == M!MergeOf(without, prose, now, c)
           K == M!Contributing(M!Succeeded(s))
           missed == M!MissesTheAskedPeriod(s.query, K)
<1> SUFFICES ASSUME ~s.noTopic, DOMAIN K # {}, ~missed,
                    M!StalenessMonths(s, now) = M!StalenessMonths(without, now)
             PROVE  whole.confidence = less.confidence /\ whole.evidence = less.evidence
  BY DEF M!DeclineIsNeutral, M!SameScore
<1> DEFINE left == [a \in DOMAIN s.outputs \ D |-> s.outputs[a]]
           others == [query |-> s.query, outputs |-> left, route |-> s.route \ D,
                      relevance |-> s.relevance, notes |-> s.notes, noTopic |-> s.noTopic]
<1>1. without = others
  <2>1. s = [query |-> s.query, outputs |-> s.outputs, route |-> s.route, relevance |-> s.relevance,
             notes |-> s.notes, noTopic |-> s.noTopic]
    BY DEF WholeRun
  <2> HIDE DEF left, D
  <2> DEFINE half == [query |-> s.query, outputs |-> left, route |-> s.route, relevance |-> s.relevance,
                      notes |-> s.notes, noTopic |-> s.noTopic]
  <2>2. [s EXCEPT !.outputs = left, !.route = @ \ D] = others
    <3>1. [s EXCEPT !.outputs = left, !.route = @ \ D]
            = [[s EXCEPT !.outputs = left] EXCEPT !.route = @ \ D]
      BY ONLY TRUE
    <3>2. [s EXCEPT !.outputs = left] = half
      BY ONLY <2>1
    <3>3. [half EXCEPT !.route = @ \ D] = others
      BY ONLY TRUE
    <3> HIDE DEF half, others
    <3> QED
      BY ONLY <3>1, <3>2, <3>3
  <2> QED
    BY <2>2 DEF left
<1>2. D = Shy(s)
  <2>1. DOMAIN [a \in Sound(s) |-> s.outputs[a]] = Sound(s)
    OBVIOUS
  <2> QED
    BY <2>1, PartsOfARun DEF Shy
<1>3. /\ others.outputs = left /\ others.route = s.route \ D /\ others.query = s.query
      /\ others.relevance = s.relevance /\ others.noTopic = s.noTopic
      /\ DOMAIN left = DOMAIN s.outputs \ D /\ \A a \in DOMAIN left : left[a] = s.outputs[a]
  OBVIOUS
<1> HIDE DEF D, without, others, left
<1>4. Sound(others) = Sound(s) \ D /\ Heard(others) = Heard(s) /\ Shy(others) = {}
      /\ Heard(s) = Sound(s) \ D
  BY <1>2, <1>3 DEF WholeRun, Sound, Heard, Shy, M!DECLINE_CONFIDENCE_CEILING
<1>5. M!Contributing(M!Succeeded(others)) = K /\ M!Succeeded(others) = K
  <2>1. \A a \in Heard(s) : others.outputs[a] = s.outputs[a]
    BY <1>3, <1>4 DEF Sound
  <2>2. [a \in Heard(s) |-> others.outputs[a]] = [a \in Heard(s) |-> s.outputs[a]]
    BY <2>1
  <2>3. /\ M!Contributing(M!Succeeded(others)) = [a \in Heard(others) |-> others.outputs[a]]
        /\ M!Succeeded(others) = [a \in Sound(others) |-> others.outputs[a]]
        /\ K = [a \in Heard(s) |-> s.outputs[a]]
    BY PartsOfARun
  <2>4. Sound(others) = Heard(s) /\ Heard(others) = Heard(s)
    BY <1>4
  <2> QED
    BY ONLY <2>2, <2>3, <2>4
<1>6. DOMAIN M!Declined(M!Succeeded(s)) = D /\ DOMAIN M!Declined(M!Succeeded(others)) = {}
  <2>1. /\ DOMAIN [a \in Shy(s) |-> s.outputs[a]] = Shy(s)
        /\ DOMAIN [a \in Shy(others) |-> others.outputs[a]] = Shy(others)
    OBVIOUS
  <2> QED
    BY <1>2, <1>4, <2>1, PartsOfARun
<1>7. D = {} => left = s.outputs /\ s.route \ D = s.route /\ M!Succeeded(s) = K
  <2>1. ASSUME D = {} PROVE left = s.outputs
    BY <2>1 DEF left, WholeRun
  <2>2. ASSUME D = {} PROVE M!Succeeded(s) = K
    <3>1. M!Succeeded(s) = [a \in Sound(s) |-> s.outputs[a]] /\ K = [a \in Heard(s) |-> s.outputs[a]]
      BY PartsOfARun
    <3>2. Sound(s) = Heard(s)
      BY <1>4, <2>2
    <3> QED
      BY ONLY <3>1, <3>2
  <2> QED
    BY <2>1, <2>2
<1> DEFINE scored == M!Scored(s, M!Succeeded(s), FALSE)
           scoredOthers == M!Scored(others, M!Succeeded(others), FALSE)
           target == [outputs |-> left, route |-> s.route \ D, evidence |-> K]
<1> HIDE DEF K, missed
<1>8. scored = target
  <2>1. CASE D = {}
    BY <1>6, <1>7, <2>1 DEF M!Scored
  <2>2. CASE D # {}
    BY <1>6, <2>2 DEF M!Scored, K, left
  <2> QED
    BY <2>1, <2>2
<1>9. scoredOthers = target
  BY <1>3, <1>5, <1>6 DEF M!Scored
<1>10. missed = M!MissesTheAskedPeriod(others.query, K) /\ ~missed
  BY <1>3 DEF missed
<1> HIDE DEF scored, scoredOthers, target
<1> DEFINE evidence == M!DedupeEvidence(target.evidence)
           score == M!Aggregate(target.outputs, target.route, s.relevance, M!StalenessMonths(s, now),
                                M!Flags(evidence, "material"), M!Flags(evidence, "severe"), FALSE)
<1>11. whole.confidence = score /\ whole.evidence = evidence
  BY <1>8, <1>10 DEF M!MergeOf, scored, K, missed
<1>12. less.confidence = score /\ less.evidence = evidence
  <2>1. less = M!MergeOf(others, prose, now, c)
    BY <1>1
  <2>2. ~others.noTopic
    BY <1>3
  <2> HIDE DEF less
  <2> QED
    BY <1>1, <1>3, <1>5, <1>9, <1>10, <2>1, <2>2 DEF M!MergeOf, scoredOthers
<1> HIDE DEF whole, less, score, evidence
<1> QED
  BY <1>11, <1>12

-----------------------------------------------------------------------------
(* The route.                                                              *)

\* What the keyword route asks, as R!SectorAnswered has it.
KeywordAnswered(q, d) ==
  /\ q.agriculture => "agriculture_commodity" \in d.route /\ "agriculture" \in d.sectors
  /\ q.apparel => "apparel_manufacturing" \in d.route /\ "apparel" \in d.sectors
  /\ q.cross /\ ~R!NamesSector(q) => R!SectorAgents \subseteq d.route
  /\ ~q.simulation /\ (R!NamesSector(q) \/ q.cross) => "export_analytics" \in d.route

LEMMA KeywordFacts ==
  ASSUME NEW q \in R!Questions
  PROVE  LET d == R!KeywordRoute(q)
         IN /\ R!RouteUsable(q, d) /\ KeywordAnswered(q, d)
            /\ q.excluded => d.outOfScope /\ d.notes = <<"excluded topic">>
            /\ d.outOfScope => \E note \in {"excluded topic", "no topic"} : d.notes = <<note>>
            /\ d.noTopic => d.nothingInScope
            /\ d.nothingInScope => d.outOfScope
            /\ R!NamesSector(q) => ~d.nothingInScope
<1> DEFINE d == R!KeywordRoute(q)
           weights == R!KeywordWeights(q)
<1>1. /\ q.agriculture \in BOOLEAN /\ q.apparel \in BOOLEAN /\ q.cross \in BOOLEAN
      /\ q.simulation \in BOOLEAN /\ q.future \in BOOLEAN /\ q.analytics \in BOOLEAN
      /\ q.excluded \in BOOLEAN /\ q.past \in BOOLEAN /\ (q.past => ~q.future)
  BY DEF R!Questions
<1>2. /\ DOMAIN weights = R!Agents
      /\ weights["trade_economics"] = IF q.simulation THEN 10 ELSE 0
      /\ weights["agriculture_commodity"] = R!SectorWeight(q, q.agriculture, q.apparel)
      /\ weights["apparel_manufacturing"] = R!SectorWeight(q, q.apparel, q.agriculture)
      /\ weights["forecast"] = R!ForecastWeight(q)
      /\ weights["export_analytics"] = R!AnalyticsWeight(q)
  BY DEF R!KeywordWeights, R!Agents
<1> HIDE DEF weights
<1>3. /\ d.route = {a \in R!Agents : weights[a] > 0} /\ DOMAIN d.relevance = d.route
      /\ d.sectors = R!KeywordSectors(q)
      /\ d.outOfScope = (q.excluded \/ ~R!Signal(q)) /\ d.noTopic = ~R!Signal(q)
      /\ d.nothingInScope = ((q.excluded \/ ~R!Signal(q)) /\ ~R!NamesSector(q) /\ ~q.cross)
      /\ d.notes = CASE q.excluded -> <<"excluded topic">>
                     [] ~R!Signal(q) -> <<"no topic">>
                     [] OTHER -> <<>>
  BY DEF R!KeywordRoute, R!Restricted, weights
<1> HIDE DEF d
<1>4. \E a \in R!Agents : weights[a] > 0
  <2>1. CASE q.simulation
    BY <1>2, <2>1 DEF R!Agents
  <2>2. CASE ~q.simulation /\ q.future
    BY <1>2, <2>2 DEF R!Agents, R!ForecastWeight
  <2>3. CASE ~q.simulation /\ ~q.future
    BY <1>1, <1>2, <2>3 DEF R!Agents, R!AnalyticsWeight, R!NamesSector
  <2> QED
    BY <2>1, <2>2, <2>3
<1>5. R!RouteUsable(q, d)
  <2>1. q.past => ~(weights["forecast"] > 0)
    BY <1>1, <1>2 DEF R!ForecastWeight
  <2>2. d.route # {} /\ d.route \subseteq R!Agents /\ (q.past => "forecast" \notin d.route)
    BY <1>3, <1>4, <2>1
  <2> QED
    BY <1>3, <2>2 DEF R!RouteUsable
<1>6. /\ q.agriculture => "agriculture" \in R!KeywordSectors(q)
      /\ q.apparel => "apparel" \in R!KeywordSectors(q)
  BY DEF R!KeywordSectors
<1>7. /\ q.agriculture => weights["agriculture_commodity"] > 0
      /\ q.apparel => weights["apparel_manufacturing"] > 0
      /\ q.cross /\ ~R!NamesSector(q) =>
           weights["agriculture_commodity"] > 0 /\ weights["apparel_manufacturing"] > 0
      /\ ~q.simulation /\ (R!NamesSector(q) \/ q.cross) => weights["export_analytics"] > 0
  BY <1>1, <1>2 DEF R!SectorWeight, R!AnalyticsWeight, R!NamesSector
<1>8. KeywordAnswered(q, d)
  BY <1>3, <1>6, <1>7 DEF KeywordAnswered, R!SectorAgents, R!Agents
<1>9. /\ q.excluded => d.outOfScope /\ d.notes = <<"excluded topic">>
      /\ d.outOfScope => \E note \in {"excluded topic", "no topic"} : d.notes = <<note>>
      /\ d.noTopic => d.nothingInScope
      /\ d.nothingInScope => d.outOfScope
      /\ R!NamesSector(q) => ~d.nothingInScope
  BY <1>1, <1>3 DEF R!Signal, R!NamesSector
<1> QED
  BY <1>5, <1>8, <1>9 DEF d

\* Whatever is added to a note, the first is read first.
LEMMA FirstNote ==
  ASSUME NEW note, NEW why
  PROVE  /\ <<note>> # <<>> /\ Head(<<note>>) = note
         /\ Append(<<note>>, why) # <<>> /\ Head(Append(<<note>>, why)) = note
OBVIOUS

\* Of a route that keeps what the keyword route says, whatever else it adds to the notes.
LEMMA KeywordStated ==
  ASSUME NEW q \in R!Questions, NEW reply,
         NEW d, d = R!LlmRoute(q, reply),
         reply.kind = "choice" => reply.choice.route \cap R!Agents = {},
         d.route = R!KeywordRoute(q).route, d.sectors = R!KeywordRoute(q).sectors,
         d.relevance = R!KeywordRoute(q).relevance,
         d.outOfScope = R!KeywordRoute(q).outOfScope, d.noTopic = R!KeywordRoute(q).noTopic,
         d.nothingInScope = R!KeywordRoute(q).nothingInScope,
         \/ d.notes = R!KeywordRoute(q).notes
         \/ \E why : d.notes = Append(R!KeywordRoute(q).notes, why)
  PROVE  R!RouteUsable(q, d) /\ R!ScopeStated(q, reply) /\ R!SectorAnswered(q, reply)
<1> DEFINE k == R!KeywordRoute(q)
<1>1. /\ d.route = k.route /\ d.sectors = k.sectors /\ d.relevance = k.relevance
      /\ d.outOfScope = k.outOfScope
      /\ d.noTopic = k.noTopic /\ d.nothingInScope = k.nothingInScope
      /\ d.notes = k.notes \/ \E why : d.notes = Append(k.notes, why)
  OBVIOUS
<1> HIDE DEF k
<1>2. /\ R!RouteUsable(q, k) /\ KeywordAnswered(q, k)
      /\ q.excluded => k.outOfScope /\ k.notes = <<"excluded topic">>
      /\ k.outOfScope => \E note \in {"excluded topic", "no topic"} : k.notes = <<note>>
      /\ k.noTopic => k.nothingInScope
      /\ k.nothingInScope => k.outOfScope
      /\ R!NamesSector(q) => ~k.nothingInScope
  BY KeywordFacts DEF k
<1>3. R!RouteUsable(q, d)
  BY <1>1, <1>2 DEF R!RouteUsable
<1>4. ASSUME NEW note, k.notes = <<note>> PROVE d.notes # <<>> /\ Head(d.notes) = note
  BY <1>1, <1>4, FirstNote
<1>5. R!ScopeStated(q, reply)
  <2>1. d.outOfScope => /\ d.notes # <<>>
                        /\ Head(d.notes) \in {"excluded topic", "no topic", "mixed scope"}
    BY <1>1, <1>2, <1>4
  <2>2. q.excluded => d.outOfScope /\ Head(d.notes) = "excluded topic"
    BY <1>1, <1>2, <1>4
  <2>3. (d.noTopic => d.nothingInScope) /\ (d.nothingInScope => d.outOfScope)
        /\ ~(d.nothingInScope /\ R!NamesSector(q))
    BY <1>1, <1>2
  <2> QED
    BY <2>1, <2>2, <2>3 DEF R!ScopeStated
<1>6. R!SectorAnswered(q, reply)
  <2>1. KeywordAnswered(q, d)
    BY <1>1, <1>2 DEF KeywordAnswered
  <2> QED
    BY <2>1 DEF KeywordAnswered, R!SectorAnswered
<1> QED
  BY <1>3, <1>5, <1>6

LEMMA ModelRouteStated ==
  ASSUME NEW q \in R!Questions, NEW reply, reply.kind = "choice",
         reply.choice.route \cap R!Agents # {}, reply.choice.outOfScope \in BOOLEAN,
         R!LlmRoute(q, reply) = R!ModelRoute(q, reply.choice)
  PROVE  /\ R!RouteUsable(q, R!LlmRoute(q, reply)) /\ R!ScopeStated(q, reply)
         /\ R!SectorAnswered(q, reply)
<1> DEFINE choice == reply.choice
           chosen == choice.route \cap R!Agents
           d == R!ModelRoute(q, choice)
           weights == IF "forecast" \in choice.route /\ q.past
                      THEN R!WithoutForecast(R!ModelWeights(choice)) ELSE R!ModelWeights(choice)
<1>1. DOMAIN R!ModelWeights(choice) = chosen
  BY DEF R!ModelWeights
<1>2. DOMAIN R!WithoutForecast(R!ModelWeights(choice)) = (chosen \ {"forecast"}) \cup {"export_analytics"}
  BY <1>1 DEF R!WithoutForecast
<1>3. chosen # {} /\ chosen \subseteq R!Agents /\ ("forecast" \in choice.route => "forecast" \in chosen)
  BY DEF R!Agents
<1>4. /\ DOMAIN weights # {} /\ DOMAIN weights \subseteq R!Agents
      /\ q.past => "forecast" \notin DOMAIN weights
      /\ chosen \ {"forecast"} \subseteq DOMAIN weights
      /\ DOMAIN weights \subseteq chosen \cup {"export_analytics"}
      /\ DOMAIN weights # chosen => q.past /\ "forecast" \in chosen
  <2> HIDE DEF chosen
  <2>1. CASE "forecast" \in choice.route /\ q.past
    <3>1. DOMAIN weights = (chosen \ {"forecast"}) \cup {"export_analytics"}
      BY <1>2, <2>1
    <3>2. "export_analytics" \in R!Agents /\ "forecast" # "export_analytics"
      BY DEF R!Agents
    <3> HIDE DEF weights
    <3> QED
      BY <1>3, <2>1, <3>1, <3>2
  <2>2. CASE ~("forecast" \in choice.route /\ q.past)
    <3>1. DOMAIN weights = chosen
      BY <1>1, <2>2
    <3>2. q.past => "forecast" \notin chosen
      BY <2>2 DEF chosen
    <3> HIDE DEF weights
    <3> QED
      BY <1>3, <3>1, <3>2
  <2> QED
    BY <2>1, <2>2
<1> HIDE DEF weights
<1>5. d.route = DOMAIN weights /\ d.relevance = weights
  BY DEF R!ModelRoute, weights
<1>6. R!RouteUsable(q, d)
  <2> HIDE DEF d
  <2> QED
    BY <1>4, <1>5 DEF R!RouteUsable
<1>7. R!ScopeStated(q, reply)
  <2> DEFINE sectors == choice.sectors \cap R!Sectors
             partly == sectors \cap {"agriculture", "apparel", "cross_sector"} # {}
             noTopic == IF q.excluded THEN ~partly
                        ELSE choice.outOfScope /\ sectors \cap {"agriculture", "apparel"} = {}
  <2>1. /\ d.outOfScope = (q.excluded \/ choice.outOfScope)
        /\ d.noTopic = noTopic /\ d.nothingInScope = noTopic
        /\ d.notes = R!ScopeNotes(q.excluded, choice.outOfScope, noTopic)
    BY DEF R!ModelRoute
  <2>2. q.excluded \in BOOLEAN /\ noTopic \in BOOLEAN /\ (noTopic => q.excluded \/ choice.outOfScope)
    BY DEF R!Questions
  <2>3. noTopic => choice.sectors \cap {"agriculture", "apparel"} = {}
    BY DEF R!Sectors
  <2> HIDE DEF d, noTopic
  <2>4. d.outOfScope => \E note \in {"excluded topic", "no topic", "mixed scope"} : d.notes = <<note>>
    BY <2>1, <2>2 DEF R!ScopeNotes
  <2>5. q.excluded => d.outOfScope /\ d.notes = <<"excluded topic">>
    BY <2>1, <2>2 DEF R!ScopeNotes
  <2>6. d.outOfScope => /\ d.notes # <<>>
                        /\ Head(d.notes) \in {"excluded topic", "no topic", "mixed scope"}
    BY <2>4, FirstNote
  <2>7. q.excluded => d.outOfScope /\ Head(d.notes) = "excluded topic"
    BY <2>5, FirstNote
  <2>8. R!LlmRoute(q, reply) = d
    BY DEF d
  <2> QED
    BY <2>1, <2>2, <2>3, <2>6, <2>7, <2>8 DEF R!ScopeStated
<1>8. R!SectorAnswered(q, reply)
  <2>1. R!LlmRoute(q, reply) = d
    OBVIOUS
  <2> HIDE DEF d
  <2> QED
    BY <1>3, <1>4, <1>5, <2>1 DEF R!SectorAnswered
<1> QED
  BY <1>6, <1>7, <1>8

\* llm_route, for any question and reply: a route has an agent and says what it leaves out of
\* scope; where the model chose no agent every sector that is named is asked, and where it
\* did its choice is what is asked.
THEOREM RoutesAreUsable ==
  ASSUME NEW q \in R!Questions, NEW reply \in R!Replies
  PROVE  /\ R!RouteUsable(q, R!LlmRoute(q, reply)) /\ R!ScopeStated(q, reply)
         /\ R!SectorAnswered(q, reply)
<1> DEFINE d == R!LlmRoute(q, reply)
           k == R!KeywordRoute(q)
           Kept(e) == /\ e.route = k.route /\ e.sectors = k.sectors /\ e.relevance = k.relevance
                      /\ e.outOfScope = k.outOfScope /\ e.noTopic = k.noTopic
                      /\ e.nothingInScope = k.nothingInScope
                      /\ e.notes = k.notes \/ \E why : e.notes = Append(k.notes, why)
<1>1. ASSUME NEW method, NEW why, NEW distrusted PROVE Kept(R!Fallback(q, method, why, distrusted))
  BY DEF R!Fallback, R!KeywordRoute
<1>2. ASSUME NEW method PROVE Kept([k EXCEPT !.method = method])
  BY DEF R!KeywordRoute
<1>3. ASSUME Kept(d), reply.kind = "choice" => reply.choice.route \cap R!Agents = {}
      PROVE  R!RouteUsable(q, d) /\ R!ScopeStated(q, reply) /\ R!SectorAnswered(q, reply)
  BY <1>3, KeywordStated
<1> HIDE DEF Kept, k
<1>4. CASE reply.kind = "nothing"
  <2>1. d = R!Fallback(q, "keyword", "llm unavailable", FALSE)
    BY <1>4 DEF R!LlmRoute
  <2> HIDE DEF d
  <2>2. R!RouteUsable(q, d) /\ R!ScopeStated(q, reply) /\ R!SectorAnswered(q, reply)
    BY <1>1, <1>3, <1>4, <2>1
  <2> QED
    BY <2>2 DEF d
<1>5. CASE reply.kind = "garbage"
  <2>1. d = R!Fallback(q, "llm->keyword", "not valid JSON", TRUE)
    BY <1>5 DEF R!LlmRoute
  <2> HIDE DEF d
  <2>2. R!RouteUsable(q, d) /\ R!ScopeStated(q, reply) /\ R!SectorAnswered(q, reply)
    BY <1>1, <1>3, <1>5, <2>1
  <2> QED
    BY <2>2 DEF d
<1>6. CASE reply.kind = "no object"
  <2>1. d = [k EXCEPT !.method = "llm->keyword"]
    BY <1>6 DEF R!LlmRoute, k
  <2> HIDE DEF d
  <2>2. R!RouteUsable(q, d) /\ R!ScopeStated(q, reply) /\ R!SectorAnswered(q, reply)
    BY <1>2, <1>3, <1>6, <2>1
  <2> QED
    BY <2>2 DEF d
<1>7. CASE reply.kind = "choice" /\ reply.choice.route \cap R!Agents = {}
  <2>1. d = R!Fallback(q, "llm->keyword", "no valid agent", TRUE)
    BY <1>7 DEF R!LlmRoute
  <2> HIDE DEF d
  <2>2. R!RouteUsable(q, d) /\ R!ScopeStated(q, reply) /\ R!SectorAnswered(q, reply)
    BY <1>1, <1>3, <1>7, <2>1
  <2> QED
    BY <2>2 DEF d
<1>8. CASE reply.kind = "choice" /\ reply.choice.route \cap R!Agents # {}
  <2>1. d = R!ModelRoute(q, reply.choice)
    BY <1>8 DEF R!LlmRoute
  <2>2. reply.choice.outOfScope \in BOOLEAN
    BY <1>8 DEF R!Replies, R!Choices
  <2> QED
    BY <1>8, <2>1, <2>2, ModelRouteStated
<1> QED
  BY <1>4, <1>5, <1>6, <1>7, <1>8 DEF R!Replies

-----------------------------------------------------------------------------
(* The question.                                                           *)

\* The items, in the order of ITEM_KEYWORDS.
Known == {"tea", "cinnamon", "rubber", "coconut", "apparel_knit", "apparel_woven"}

LEMMA ItemsKnown ==
  /\ DOMAIN I!ItemOrder = 1..6 /\ I!Range(I!ItemOrder) = Known
  /\ \A i \in Known : /\ I!Rank(i) \in 1..6 /\ I!ItemOrder[I!Rank(i)] = i
                      /\ I!Holds(i) = {i} /\ i # "none"
<1>1. DOMAIN I!ItemOrder = 1..6 /\ I!Range(I!ItemOrder) = Known
  <2>1. DOMAIN I!ItemOrder = 1..6
    BY DEF I!ItemOrder
  <2>2. 1..6 = {1, 2, 3, 4, 5, 6}
    OBVIOUS
  <2>3. /\ I!ItemOrder[1] = "tea" /\ I!ItemOrder[2] = "cinnamon" /\ I!ItemOrder[3] = "rubber"
        /\ I!ItemOrder[4] = "coconut" /\ I!ItemOrder[5] = "apparel_knit"
        /\ I!ItemOrder[6] = "apparel_woven"
    BY DEF I!ItemOrder
  <2> QED
    BY <2>1, <2>2, <2>3 DEF I!Range, Known
<1>2. ASSUME NEW i \in Known PROVE I!Rank(i) \in 1..6 /\ I!ItemOrder[I!Rank(i)] = i
  <2>1. \E n \in DOMAIN I!ItemOrder : I!ItemOrder[n] = i
    BY <1>1 DEF I!Range
  <2> QED
    BY <1>1, <2>1 DEF I!Rank
<1>3. ASSUME NEW i \in Known PROVE I!Holds(i) = {i} /\ i # "none"
  BY DEF I!Holds, I!AGRICULTURE_ITEMS, I!APPAREL_ITEMS, Known
<1> QED
  BY <1>1, <1>2, <1>3

LEMMA KnownFinite == IsFiniteSet(Known)
<1>1. 1 \in Int /\ 6 \in Int
  OBVIOUS
<1>2. IsFiniteSet(1..6)
  BY <1>1, FS_Interval
<1> DEFINE g == [n \in 1..6 |-> I!ItemOrder[n]]
<1>3. g \in Surjection(1..6, Known)
  <2>1. \A i \in Known : \E n \in 1..6 : I!ItemOrder[n] = i
    BY ItemsKnown
  <2>2. \A n \in 1..6 : I!ItemOrder[n] \in Known
    BY ItemsKnown DEF I!Range
  <2> QED
    BY <2>1, <2>2 DEF Surjection
<1> HIDE DEF g
<1> QED
  BY <1>2, <1>3, FS_Surjection

LEMMA LeastIn ==
  ASSUME NEW T, T \subseteq Nat, T # {}
  PROVE  I!Min(T) \in T /\ \A x \in T : I!Min(T) <= x
BY LeastOf DEF I!Min

LEMMA ChosenIsParsed ==
  ASSUME NEW q, "chosen" \in DOMAIN q, NEW i \in Known
  PROVE  I!ParseItem(I!ChooseItem(q, i)) = i /\ I!ComparedItems(I!ChooseItem(q, i)) = <<>>
<1> DEFINE p == I!ChooseItem(q, i)
<1>1. p.chosen = <<i>>
  BY DEF I!ChooseItem
<1>2. I!FirstItem(<<i>>) = i
  <2> DEFINE ws == <<i>>
             named == UNION {I!Holds(w) : w \in I!Range(ws)}
             at == {k \in DOMAIN I!ItemOrder : I!ItemOrder[k] \in named}
  <2>1. I!Range(ws) = {i}
    BY DEF I!Range
  <2>2. named = {i}
    BY <2>1, ItemsKnown
  <2>3. at # {} /\ at \subseteq Nat /\ \A k \in at : I!ItemOrder[k] = i
    BY <2>2, ItemsKnown
  <2> HIDE DEF named, at, ws
  <2>4. I!ItemOrder[I!Min(at)] = i
    BY <2>3, LeastIn
  <2> QED
    BY <2>3, <2>4 DEF I!FirstItem, named, at, ws
<1> HIDE DEF p
<1>3. I!ParseItem(p) = i
  BY <1>1, <1>2, ItemsKnown DEF I!ParseItem
<1>4. I!ComparedItems(p) = <<>>
  <2>1. <<i>> # <<>>
    OBVIOUS
  <2> QED
    BY <1>1, <2>1 DEF I!ComparedItems
<1> QED
  BY <1>3, <1>4 DEF p

\* In a finite set that is ordered, each member has the place of those before it.
LEMMA Places ==
  ASSUME NEW H, IsFiniteSet(H), NEW lt,
         \A x \in H : <<x, x>> \notin lt,
         \A x, y, z \in H : <<x, y>> \in lt /\ <<y, z>> \in lt => <<x, z>> \in lt,
         \A x, y \in H : x # y => <<x, y>> \in lt \/ <<y, x>> \in lt
  PROVE  LET place(h) == Cardinality({g \in H : <<g, h>> \in lt})
         IN /\ Cardinality(H) \in Nat
            /\ \A h \in H : place(h) \in 0..(Cardinality(H) - 1)
            /\ \A g, h \in H : <<g, h>> \in lt <=> place(g) < place(h)
            /\ \A g, h \in H : place(g) = place(h) => g = h
            /\ \A n \in 0..(Cardinality(H) - 1) : \E h \in H : place(h) = n
<1> DEFINE lower(h) == {g \in H : <<g, h>> \in lt}
           place(h) == Cardinality(lower(h))
           n == Cardinality(H)
<1>1. n \in Nat /\ \A h \in H : IsFiniteSet(lower(h)) /\ place(h) \in Nat
  <2>1. \A h \in H : IsFiniteSet(lower(h))
    BY FS_Subset
  <2> QED
    BY <2>1, FS_CardinalityType
<1>2. ASSUME NEW h \in H PROVE place(h) \in 0..(n - 1)
  <2>1. lower(h) \in SUBSET (H \ {h}) /\ IsFiniteSet(H \ {h})
    BY FS_Subset
  <2>2. Cardinality(H \ {h}) = n - 1
    BY FS_RemoveElement
  <2>3. place(h) <= Cardinality(H \ {h})
    BY <2>1, FS_Subset
  <2> QED
    BY <1>1, <2>2, <2>3
<1>3. ASSUME NEW g \in H, NEW h \in H, <<g, h>> \in lt PROVE place(g) < place(h)
  <2>1. lower(g) \cup {g} \in SUBSET lower(h) /\ g \notin lower(g)
    BY <1>3
  <2>2. Cardinality(lower(g) \cup {g}) = place(g) + 1
    BY <1>1, <2>1, FS_AddElement
  <2>3. Cardinality(lower(g) \cup {g}) <= place(h)
    BY <1>1, <2>1, FS_Subset
  <2> QED
    BY <1>1, <2>2, <2>3
<1> HIDE DEF place, n
<1>4. ASSUME NEW g \in H, NEW h \in H, place(g) < place(h) PROVE <<g, h>> \in lt
  <2>1. place(g) \in Nat /\ place(h) \in Nat
    BY <1>1
  <2>2. g # h
    <3> SUFFICES ASSUME g = h PROVE FALSE
      OBVIOUS
    <3>1. place(g) < place(g) /\ place(g) \in Nat
      BY <1>4, <2>1
    <3> QED
      BY ONLY <3>1
  <2>3. ~(<<h, g>> \in lt)
    <3> SUFFICES ASSUME <<h, g>> \in lt PROVE FALSE
      OBVIOUS
    <3>1. place(h) < place(g)
      BY <1>3
    <3> QED
      BY ONLY <1>4, <2>1, <3>1
  <2> QED
    BY <2>2, <2>3
<1>5. ASSUME NEW g \in H, NEW h \in H, place(g) = place(h) PROVE g = h
  <2>1. place(g) \in Nat /\ place(h) \in Nat
    BY <1>1
  <2>2. ~(place(g) < place(h)) /\ ~(place(h) < place(g))
    BY ONLY <1>5, <2>1
  <2>3. ~(<<g, h>> \in lt) /\ ~(<<h, g>> \in lt)
    BY <1>3, <2>2
  <2> QED
    BY <2>3
<1>6. 0..(n - 1) = {place(h) : h \in H}
  <2> DEFINE places == {place(h) : h \in H}
             f == [h \in H |-> place(h)]
  <2>1. f \in Bijection(H, places)
    BY <1>5 DEF Bijection, Injection, Surjection, IsInjective
  <2>2. Cardinality(places) = n
    BY <2>1, FS_Bijection DEF ExistsBijection, n
  <2>3. places \in SUBSET (0..(n - 1))
    BY <1>2
  <2>4. IsFiniteSet(0..(n - 1)) /\ Cardinality(0..(n - 1)) = n
    <3>1. 0 \in Int /\ n - 1 \in Int
      BY <1>1
    <3>2. IsFiniteSet(0..(n - 1)) /\ Cardinality(0..(n - 1)) = IF 0 > n - 1 THEN 0 ELSE (n - 1) - 0 + 1
      BY <3>1, FS_Interval
    <3> QED
      BY <1>1, <3>2
  <2> HIDE DEF places
  <2> QED
    BY <2>2, <2>3, <2>4, FS_Subset DEF places
<1>7. \A m \in 0..(n - 1) : \E h \in H : place(h) = m
  BY <1>6
<1>8. /\ n \in Nat
      /\ \A h \in H : place(h) \in 0..(n - 1)
      /\ \A g, h \in H : <<g, h>> \in lt <=> place(g) < place(h)
      /\ \A g, h \in H : place(g) = place(h) => g = h
      /\ \A m \in 0..(n - 1) : \E h \in H : place(h) = m
  <2>1. \A g, h \in H : <<g, h>> \in lt <=> place(g) < place(h)
    BY <1>3, <1>4
  <2> QED
    BY <1>1, <1>2, <1>5, <1>7, <2>1
<1> QED
  BY <1>8 DEF place, n

LEMMA SameCount ==
  ASSUME NEW T PROVE I!Cardinality(T) = Cardinality(T)
BY DEF I!Cardinality, Cardinality

\* Where a word is, is a place in the question, or 0.
LEMMA WhereItIs ==
  ASSUME NEW q, DOMAIN q.words \subseteq Nat \ {0}
  PROVE  /\ \A items : I!At(q, items) \in Nat
         /\ \A w : I!AtWord(q, w) \in Nat
<1>1. ASSUME NEW items PROVE I!At(q, items) \in Nat
  <2> DEFINE at == {i \in DOMAIN q.words : items \cap I!Starts(q.words[i]) # {}}
  <2>1. at \subseteq Nat
    OBVIOUS
  <2> HIDE DEF at
  <2>2. at # {} => I!Min(at) \in Nat
    BY <2>1, LeastIn
  <2> QED
    BY <2>2 DEF I!At, at
<1>2. ASSUME NEW w PROVE I!AtWord(q, w) \in Nat
  <2> DEFINE at == {i \in DOMAIN q.words : q.words[i] \in w}
  <2>1. at \subseteq Nat
    OBVIOUS
  <2> HIDE DEF at
  <2>2. at # {} => I!Min(at) \in Nat
    BY <2>1, LeastIn
  <2> QED
    BY <2>2 DEF I!AtWord, at
<1> QED
  BY <1>1, <1>2

Named(q) == {i \in Known : I!At(q, {i}) > 0}

\* The hits of a question: each product that is named, and what stands for a sector.
LEMMA HitsAre ==
  ASSUME NEW q, DOMAIN q.words \subseteq Nat \ {0}
  PROVE  /\ I!Hits(q) \subseteq [at : Nat, item : Known] /\ IsFiniteSet(I!Hits(q))
         /\ \A g, h \in I!Hits(q) : g.item = h.item => g = h
         /\ \A i \in Named(q) : [at |-> I!At(q, {i}), item |-> i] \in I!Hits(q)
         /\ \A h \in I!Hits(q) : \/ h.item \in Named(q)
                                 \/ h.item = "tea" /\ Named(q) \cap I!AGRICULTURE_ITEMS = {}
                                 \/ h.item = "apparel_knit" /\ Named(q) \cap I!APPAREL_ITEMS = {}
<1> DEFINE ofNamed == {[at |-> I!At(q, {i}), item |-> i] : i \in Named(q)}
           knit == [at |-> I!AtWord(q, I!SECTOR_FALLBACK), item |-> "apparel_knit"]
           tea == [at |-> I!AtWord(q, {"agriculture"}), item |-> "tea"]
<1>1. I!Hits(q) = ofNamed
        \cup (IF I!AtWord(q, I!SECTOR_FALLBACK) > 0 /\ Named(q) \cap I!APPAREL_ITEMS = {}
              THEN {knit} ELSE {})
        \cup (IF I!AtWord(q, {"agriculture"}) > 0 /\ Named(q) \cap I!AGRICULTURE_ITEMS = {}
              THEN {tea} ELSE {})
  <2>1. {i \in I!Range(I!ItemOrder) : I!At(q, {i}) > 0} = Named(q)
    BY ItemsKnown DEF Named
  <2> QED
    BY <2>1 DEF I!Hits
<1>2. ASSUME NEW h \in I!Hits(q)
      PROVE  \/ h.item \in Named(q) /\ h = [at |-> I!At(q, {h.item}), item |-> h.item]
             \/ h = tea /\ Named(q) \cap I!AGRICULTURE_ITEMS = {}
             \/ h = knit /\ Named(q) \cap I!APPAREL_ITEMS = {}
  <2>1. \/ h \in ofNamed
        \/ h = tea /\ Named(q) \cap I!AGRICULTURE_ITEMS = {}
        \/ h = knit /\ Named(q) \cap I!APPAREL_ITEMS = {}
    BY <1>1
  <2>2. ASSUME h \in ofNamed
        PROVE  h.item \in Named(q) /\ h = [at |-> I!At(q, {h.item}), item |-> h.item]
    <3>1. PICK i \in Named(q) : h = [at |-> I!At(q, {i}), item |-> i]
      BY <2>2
    <3>2. h.item = i
      BY <3>1
    <3> QED
      BY <3>1, <3>2
  <2> QED
    BY <2>1, <2>2
<1>3. /\ "tea" \in I!AGRICULTURE_ITEMS /\ "apparel_knit" \in I!APPAREL_ITEMS
      /\ "tea" \in Known /\ "apparel_knit" \in Known /\ Named(q) \subseteq Known
      /\ tea.item = "tea" /\ knit.item = "apparel_knit"
      /\ tea \in [at : Nat, item : Known] /\ knit \in [at : Nat, item : Known]
      /\ \A i \in Named(q) : [at |-> I!At(q, {i}), item |-> i] \in [at : Nat, item : Known]
  BY WhereItIs DEF I!AGRICULTURE_ITEMS, I!APPAREL_ITEMS, Known, Named
<1>4. \A i \in Named(q) : [at |-> I!At(q, {i}), item |-> i] \in I!Hits(q)
  BY <1>1
<1> HIDE DEF ofNamed, tea, knit
<1>5. I!Hits(q) \subseteq [at : Nat, item : Known]
  BY <1>2, <1>3
<1>6. ASSUME NEW g \in I!Hits(q), NEW h \in I!Hits(q), g.item = h.item PROVE g = h
  <2>1. "tea" # "apparel_knit" /\ g.item = h.item
    BY <1>6
  <2>2. CASE g = tea /\ Named(q) \cap I!AGRICULTURE_ITEMS = {}
    <3>1. h.item = "tea" /\ "tea" \notin Named(q)
      BY <1>3, <2>1, <2>2
    <3> QED
      BY <1>2, <1>3, <2>1, <2>2, <3>1
  <2>3. CASE g = knit /\ Named(q) \cap I!APPAREL_ITEMS = {}
    <3>1. h.item = "apparel_knit" /\ "apparel_knit" \notin Named(q)
      BY <1>3, <2>1, <2>3
    <3> QED
      BY <1>2, <1>3, <2>1, <2>3, <3>1
  <2>4. CASE g.item \in Named(q) /\ g = [at |-> I!At(q, {g.item}), item |-> g.item]
    <3>1. h.item \in Named(q)
      BY <2>1, <2>4
    <3>2. h = [at |-> I!At(q, {h.item}), item |-> h.item]
      BY <1>2, <1>3, <3>1
    <3> QED
      BY <2>1, <2>4, <3>2
  <2> QED
    BY <1>2, <2>2, <2>3, <2>4
<1>7. IsFiniteSet(I!Hits(q))
  <2> DEFINE f == [h \in I!Hits(q) |-> h.item]
  <2>1. f \in Injection(I!Hits(q), Known)
    BY <1>5, <1>6 DEF Injection, IsInjective
  <2>2. IsFiniteSet(Known)
    BY KnownFinite
  <2> HIDE DEF f
  <2> QED
    BY <2>1, <2>2, FS_Injection DEF ExistsInjection
<1>8. \A h \in I!Hits(q) : \/ h.item \in Named(q)
                           \/ h.item = "tea" /\ Named(q) \cap I!AGRICULTURE_ITEMS = {}
                           \/ h.item = "apparel_knit" /\ Named(q) \cap I!APPAREL_ITEMS = {}
  BY <1>2, <1>3
<1> QED
  BY <1>4, <1>5, <1>6, <1>7, <1>8

\* Hits in order: each once, and those before others before them.
LEMMA InOrderIs ==
  ASSUME NEW H, H \subseteq [at : Nat, item : Known], IsFiniteSet(H),
         \A g, h \in H : g.item = h.item => g = h
  PROVE  LET s == I!InOrder(H)
         IN /\ s \in Seq(Known) /\ I!Range(s) = {h.item : h \in H}
            /\ \A m, n \in DOMAIN s : s[m] = s[n] => m = n
            /\ \A g, h \in H : g.at < h.at =>
                 \E m, n \in DOMAIN s : m < n /\ s[m] = g.item /\ s[n] = h.item
<1> DEFINE lt == {p \in H \X H : I!Before(p[1], p[2])}
           place(h) == Cardinality({g \in H : <<g, h>> \in lt})
           size == Cardinality(H)
           s == I!InOrder(H)
<1>1. ASSUME NEW h \in H
      PROVE  /\ h.at \in Nat /\ h.item \in Known /\ I!Rank(h.item) \in Nat
             /\ h = [at |-> h.at, item |-> h.item]
  BY ItemsKnown
<1>2. \A g, h \in H : <<g, h>> \in lt <=> I!Before(g, h)
  OBVIOUS
<1>3. \A g, h \in H : g # h => I!Rank(g.item) # I!Rank(h.item)
  <2>1. \A g, h \in H : g # h => g.item # h.item
    OBVIOUS
  <2> QED
    BY <1>1, <2>1, ItemsKnown
<1> HIDE DEF lt
<1>4. \A x \in H : <<x, x>> \notin lt
  BY <1>1, <1>2 DEF I!Before
<1>5. ASSUME NEW x \in H, NEW y \in H, NEW z \in H, <<x, y>> \in lt, <<y, z>> \in lt
      PROVE  <<x, z>> \in lt
  BY <1>1, <1>2, <1>5 DEF I!Before
<1>6. ASSUME NEW x \in H, NEW y \in H, x # y PROVE <<x, y>> \in lt \/ <<y, x>> \in lt
  BY <1>1, <1>2, <1>3, <1>6 DEF I!Before
<1>7. /\ size \in Nat
      /\ \A h \in H : place(h) \in 0..(size - 1)
      /\ \A g, h \in H : <<g, h>> \in lt <=> place(g) < place(h)
      /\ \A g, h \in H : place(g) = place(h) => g = h
      /\ \A n \in 0..(size - 1) : \E h \in H : place(h) = n
  BY <1>4, <1>5, <1>6, Places
<1>8. \A h \in H : I!Cardinality({g \in H : I!Before(g, h)}) = place(h)
  <2> SUFFICES ASSUME NEW h \in H PROVE I!Cardinality({g \in H : I!Before(g, h)}) = place(h)
    OBVIOUS
  <2>1. {g \in H : I!Before(g, h)} = {g \in H : <<g, h>> \in lt}
    BY <1>2
  <2> QED
    BY <2>1, SameCount
<1>9. I!Cardinality(H) = size
  BY SameCount
<1> DEFINE at(n) == CHOOSE h \in H : I!Cardinality({g \in H : I!Before(g, h)}) = n - 1
<1> HIDE DEF place, size
<1>10. ASSUME NEW n \in 1..size PROVE at(n) \in H /\ place(at(n)) = n - 1
  <2>1. n - 1 \in 0..(size - 1)
    BY <1>7
  <2>2. \E h \in H : I!Cardinality({g \in H : I!Before(g, h)}) = n - 1
    BY <1>7, <1>8, <2>1
  <2>3. at(n) \in H /\ I!Cardinality({g \in H : I!Before(g, at(n))}) = n - 1
    BY <2>2
  <2> HIDE DEF at
  <2> QED
    BY <1>8, <2>3
<1>11. s = [n \in 1..size |-> at(n).item]
  BY <1>9 DEF I!InOrder
<1> HIDE DEF s, at
<1>12. DOMAIN s = 1..size /\ \A n \in 1..size : s[n] = at(n).item
  BY <1>11
<1>13. s \in Seq(Known)
  <2>1. s \in [1..size -> Known]
    BY <1>1, <1>10, <1>11
  <2> QED
    BY <1>7, <2>1
<1>14. ASSUME NEW h \in H PROVE place(h) + 1 \in 1..size /\ at(place(h) + 1) = h
  <2>1. place(h) \in 0..(size - 1) /\ size \in Nat
    BY <1>7
  <2>2. place(h) + 1 \in 1..size /\ (place(h) + 1) - 1 = place(h)
    BY <2>1
  <2>3. at(place(h) + 1) \in H /\ place(at(place(h) + 1)) = place(h)
    BY <1>10, <2>2
  <2> QED
    BY <1>7, <2>2, <2>3
<1>15. I!Range(s) = {h.item : h \in H}
  BY <1>10, <1>12, <1>14 DEF I!Range
<1>16. ASSUME NEW m \in DOMAIN s, NEW n \in DOMAIN s, s[m] = s[n] PROVE m = n
  <2>1. m \in 1..size /\ n \in 1..size /\ at(m).item = at(n).item
    BY <1>12, <1>16
  <2>2. at(m) = at(n)
    BY <1>10, <2>1
  <2>3. m - 1 = n - 1
    BY <1>10, <2>1, <2>2
  <2> QED
    BY <1>7, <2>1, <2>3
<1>17. ASSUME NEW g \in H, NEW h \in H, g.at < h.at
       PROVE  \E m, n \in DOMAIN s : m < n /\ s[m] = g.item /\ s[n] = h.item
  <2>1. <<g, h>> \in lt
    BY <1>2, <1>17 DEF I!Before
  <2>2. place(g) < place(h) /\ place(g) \in Int /\ place(h) \in Int
    BY <1>7, <2>1
  <2>3. place(g) + 1 < place(h) + 1
    BY ONLY <2>2
  <2>4. /\ place(g) + 1 \in DOMAIN s /\ place(h) + 1 \in DOMAIN s
        /\ s[place(g) + 1] = g.item /\ s[place(h) + 1] = h.item
    BY <1>12, <1>14
  <2> QED
    BY <2>3, <2>4
<1> QED
  BY <1>13, <1>15, <1>16, <1>17 DEF s

\* What is added once at the end of a sequence changes nothing before it.
LEMMA Extended ==
  ASSUME NEW T, NEW s \in Seq(T), NEW e, e = <<>> \/ \E x \in T : e = <<x>> /\ x \notin I!Range(s),
         \A m, n \in DOMAIN s : s[m] = s[n] => m = n
  PROVE  LET r == s \o e
         IN /\ r \in Seq(T) /\ I!Range(r) = I!Range(s) \cup I!Range(e)
            /\ \A m, n \in DOMAIN r : r[m] = r[n] => m = n
            /\ \A n \in DOMAIN s : n \in DOMAIN r /\ r[n] = s[n]
<1> DEFINE r == s \o e
<1>1. CASE e = <<>>
  <2>1. r = s
    BY <1>1
  <2>2. I!Range(e) = {}
    BY <1>1 DEF I!Range
  <2> QED
    BY <2>1, <2>2
<1>2. CASE \E x \in T : e = <<x>> /\ x \notin I!Range(s)
  <2>1. PICK x \in T : e = <<x>> /\ x \notin I!Range(s)
    BY <1>2
  <2>2. /\ r \in Seq(T) /\ Len(s) \in Nat /\ DOMAIN s = 1..Len(s) /\ DOMAIN r = 1..(Len(s) + 1)
        /\ \A n \in 1..Len(s) : r[n] = s[n]
        /\ r[Len(s) + 1] = x
    BY <2>1
  <2>3. I!Range(e) = {x}
    BY <2>1 DEF I!Range
  <2>4. \A n \in 1..Len(s) : s[n] # x
    BY <2>1, <2>2 DEF I!Range
  <2> HIDE DEF r
  <2>5. \A n \in DOMAIN r : n \in 1..Len(s) \/ n = Len(s) + 1
    BY <2>2
  <2>6. I!Range(r) = I!Range(s) \cup {x}
    <3>1. \A n \in 1..Len(s) : n \in DOMAIN r
      BY <2>2
    <3>2. Len(s) + 1 \in DOMAIN r
      BY <2>2
    <3> QED
      BY <2>2, <2>5, <3>1, <3>2 DEF I!Range
  <2>7. ASSUME NEW m \in DOMAIN r, NEW n \in DOMAIN r, r[m] = r[n] PROVE m = n
    BY <2>2, <2>4, <2>5, <2>7
  <2>8. \A n \in DOMAIN s : n \in DOMAIN r /\ r[n] = s[n]
    BY <2>2
  <2> QED
    BY <2>2, <2>3, <2>6, <2>7, <2>8 DEF r
<1> QED
  BY <1>1, <1>2

LEMMA EachOnce ==
  ASSUME NEW T, NEW s \in Seq(T), \A m, n \in DOMAIN s : s[m] = s[n] => m = n
  PROVE  I!Cardinality(I!Range(s)) = Len(s)
<1>1. DOMAIN s = 1..Len(s) /\ Len(s) \in Nat
  OBVIOUS
<1>2. s \in Bijection(1..Len(s), I!Range(s))
  BY <1>1 DEF Bijection, Injection, Surjection, IsInjective, I!Range
<1>3. IsFiniteSet(1..Len(s)) /\ Cardinality(1..Len(s)) = Len(s)
  <2>1. 1 \in Int /\ Len(s) \in Int
    BY <1>1
  <2>2. IsFiniteSet(1..Len(s)) /\ Cardinality(1..Len(s)) = IF 1 > Len(s) THEN 0 ELSE Len(s) - 1 + 1
    BY <2>1, FS_Interval
  <2> QED
    BY <1>1, <2>2
<1>4. Cardinality(I!Range(s)) = Len(s)
  BY <1>2, <1>3, FS_Bijection DEF ExistsBijection
<1> QED
  BY <1>4, SameCount

\* A comparison's items, before it is known whether there are two.
LEMMA ItemsInOrder ==
  ASSUME NEW q, DOMAIN q.words \subseteq Nat \ {0}
  PROVE  LET s == I!InOrder(I!Hits(q))
         IN /\ s \in Seq(Known) /\ Named(q) \subseteq I!Range(s)
            /\ \A m, n \in DOMAIN s : s[m] = s[n] => m = n
            /\ \A i, j \in Named(q) : I!At(q, {i}) < I!At(q, {j}) =>
                 \E m, n \in DOMAIN s : m < n /\ s[m] = i /\ s[n] = j
            /\ \A i \in I!Range(s) \ Named(q) :
                 \/ i = "tea" /\ Named(q) \cap I!AGRICULTURE_ITEMS = {}
                 \/ i = "apparel_knit" /\ Named(q) \cap I!APPAREL_ITEMS = {}
<1> DEFINE H == I!Hits(q)
           s == I!InOrder(H)
           hit(i) == [at |-> I!At(q, {i}), item |-> i]
<1>1. /\ H \subseteq [at : Nat, item : Known] /\ IsFiniteSet(H)
      /\ \A g, h \in H : g.item = h.item => g = h
      /\ \A i \in Named(q) : hit(i) \in H
      /\ \A h \in H : \/ h.item \in Named(q)
                      \/ h.item = "tea" /\ Named(q) \cap I!AGRICULTURE_ITEMS = {}
                      \/ h.item = "apparel_knit" /\ Named(q) \cap I!APPAREL_ITEMS = {}
  BY HitsAre
<1> HIDE DEF H
<1>2. /\ s \in Seq(Known) /\ I!Range(s) = {h.item : h \in H}
      /\ \A m, n \in DOMAIN s : s[m] = s[n] => m = n
      /\ \A g, h \in H : g.at < h.at =>
           \E m, n \in DOMAIN s : m < n /\ s[m] = g.item /\ s[n] = h.item
  BY <1>1, InOrderIs
<1> HIDE DEF s
<1>3. \A i \in Named(q) : hit(i).item = i /\ hit(i).at = I!At(q, {i})
  OBVIOUS
<1>4. Named(q) \subseteq I!Range(s)
  <2> SUFFICES ASSUME NEW i \in Named(q) PROVE i \in I!Range(s)
    OBVIOUS
  <2>1. \E h \in H : h.item = i
    BY <1>1, <1>3
  <2> QED
    BY <1>2, <2>1
<1>5. ASSUME NEW i \in Named(q), NEW j \in Named(q), I!At(q, {i}) < I!At(q, {j})
      PROVE  \E m, n \in DOMAIN s : m < n /\ s[m] = i /\ s[n] = j
  <2>1. hit(i) \in H /\ hit(j) \in H /\ hit(i).at < hit(j).at
    BY <1>1, <1>3, <1>5
  <2>2. \E m, n \in DOMAIN s : m < n /\ s[m] = hit(i).item /\ s[n] = hit(j).item
    BY <1>2, <2>1
  <2> QED
    BY <1>3, <2>2
<1>6. ASSUME NEW i \in I!Range(s) \ Named(q)
      PROVE  \/ i = "tea" /\ Named(q) \cap I!AGRICULTURE_ITEMS = {}
             \/ i = "apparel_knit" /\ Named(q) \cap I!APPAREL_ITEMS = {}
  BY <1>1, <1>2
<1> QED
  BY <1>2, <1>4, <1>5, <1>6 DEF s, H

\* compared_items is every product named, each once and in the order of the question.
THEOREM ComparedOnce ==
  ASSUME NEW q, DOMAIN q.words \subseteq Nat \ {0}
  PROVE  I!ComparisonComplete(q) /\ I!Range(I!ComparedItems(q)) \subseteq Known
<1> DEFINE s == I!InOrder(I!Hits(q))
           across == I!Range(q.words) \cap I!CROSS_SECTOR # {}
           tea == IF across /\ I!Range(s) \cap I!AGRICULTURE_ITEMS = {} THEN <<"tea">> ELSE <<>>
           knit == IF across /\ I!Range(s) \cap I!APPAREL_ITEMS = {}
                   THEN <<"apparel_knit">> ELSE <<>>
           one == s \o tea
           all == one \o knit
<1>1. /\ s \in Seq(Known) /\ Named(q) \subseteq I!Range(s)
      /\ \A m, n \in DOMAIN s : s[m] = s[n] => m = n
      /\ \A i, j \in Named(q) : I!At(q, {i}) < I!At(q, {j}) =>
           \E m, n \in DOMAIN s : m < n /\ s[m] = i /\ s[n] = j
      /\ \A i \in I!Range(s) \ Named(q) :
           \/ i = "tea" /\ Named(q) \cap I!AGRICULTURE_ITEMS = {}
           \/ i = "apparel_knit" /\ Named(q) \cap I!APPAREL_ITEMS = {}
  BY ItemsInOrder
<1>2. I!ComparedItems(q) = IF q.chosen # <<>> \/ Len(all) < 2 THEN <<>> ELSE all
  BY DEF I!ComparedItems
<1>3. /\ "tea" \in I!AGRICULTURE_ITEMS /\ "apparel_knit" \in I!APPAREL_ITEMS
      /\ "tea" \in Known /\ "apparel_knit" \in Known /\ "tea" \notin I!APPAREL_ITEMS
      /\ "apparel_knit" # "tea"
  BY DEF I!AGRICULTURE_ITEMS, I!APPAREL_ITEMS, Known
<1>4. /\ tea = <<>> \/ (tea = <<"tea">> /\ I!Range(s) \cap I!AGRICULTURE_ITEMS = {})
      /\ knit = <<>> \/ (knit = <<"apparel_knit">> /\ I!Range(s) \cap I!APPAREL_ITEMS = {})
  OBVIOUS
<1>5. /\ I!Range(<<>>) = {} /\ I!Range(<<"tea">>) = {"tea"}
      /\ I!Range(<<"apparel_knit">>) = {"apparel_knit"}
  BY DEF I!Range
<1> HIDE DEF s, tea, knit
<1>6. tea = <<>> \/ \E x \in Known : tea = <<x>> /\ x \notin I!Range(s)
  BY <1>3, <1>4
<1>7. /\ one \in Seq(Known) /\ I!Range(one) = I!Range(s) \cup I!Range(tea)
      /\ \A m, n \in DOMAIN one : one[m] = one[n] => m = n
      /\ \A n \in DOMAIN s : n \in DOMAIN one /\ one[n] = s[n]
  BY <1>1, <1>6, Extended
<1> HIDE DEF one
<1>8. knit = <<>> \/ \E x \in Known : knit = <<x>> /\ x \notin I!Range(one)
  BY <1>3, <1>4, <1>5, <1>7
<1>9. /\ all \in Seq(Known) /\ I!Range(all) = I!Range(one) \cup I!Range(knit)
      /\ \A m, n \in DOMAIN all : all[m] = all[n] => m = n
      /\ \A n \in DOMAIN one : n \in DOMAIN all /\ all[n] = one[n]
  BY <1>7, <1>8, Extended
<1>10. I!Cardinality(I!Range(all)) = Len(all)
  BY <1>9, EachOnce
<1> HIDE DEF all
<1>11. \A n \in DOMAIN s : n \in DOMAIN all /\ all[n] = s[n]
  BY <1>7, <1>9
<1>12. Named(q) \subseteq I!Range(all)
  BY <1>1, <1>7, <1>9
<1>13. ASSUME NEW i \in Named(q), NEW j \in Named(q), I!At(q, {i}) < I!At(q, {j})
       PROVE  \E m, n \in DOMAIN all : m < n /\ all[m] = i /\ all[n] = j
  <2>1. PICK m \in DOMAIN s, n \in DOMAIN s : m < n /\ s[m] = i /\ s[n] = j
    BY <1>1, <1>13
  <2> QED
    BY <1>11, <2>1
<1>14. ASSUME NEW i \in I!Range(all) \ Named(q)
       PROVE  \/ i = "tea" /\ Named(q) \cap I!AGRICULTURE_ITEMS = {}
              \/ i = "apparel_knit" /\ Named(q) \cap I!APPAREL_ITEMS = {}
  <2>1. \/ i \in I!Range(s)
        \/ i = "tea" /\ I!Range(s) \cap I!AGRICULTURE_ITEMS = {}
        \/ i = "apparel_knit" /\ I!Range(s) \cap I!APPAREL_ITEMS = {}
    BY <1>4, <1>5, <1>7, <1>9
  <2> QED
    BY <1>1, <2>1
<1>15. {i \in I!Range(I!ItemOrder) : I!At(q, {i}) > 0} = Named(q)
  BY ItemsKnown DEF Named
<1>16. I!ComparedItems(q) # <<>> => I!ComparedItems(q) = all
  BY <1>2
<1>17. I!ComparisonComplete(q)
  <2> SUFFICES ASSUME I!ComparedItems(q) # <<>>
               PROVE  /\ Named(q) \subseteq I!Range(all)
                      /\ I!Cardinality(I!Range(all)) = Len(all)
                      /\ \A i, j \in Named(q) : I!At(q, {i}) < I!At(q, {j}) =>
                           \E m, n \in DOMAIN all : m < n /\ all[m] = i /\ all[n] = j
                      /\ \A i \in I!Range(all) \ Named(q) :
                           \/ i = "tea" /\ Named(q) \cap I!AGRICULTURE_ITEMS = {}
                           \/ i = "apparel_knit" /\ Named(q) \cap I!APPAREL_ITEMS = {}
    <3> DEFINE c == I!ComparedItems(q)
               named == {i \in I!Range(I!ItemOrder) : I!At(q, {i}) > 0}
    <3>1. I!ComparisonComplete(q) <=>
            (c # <<>> => /\ named \subseteq I!Range(c) /\ I!Cardinality(I!Range(c)) = Len(c)
                         /\ \A i, j \in named : I!At(q, {i}) < I!At(q, {j}) =>
                              \E m, n \in DOMAIN c : m < n /\ c[m] = i /\ c[n] = j
                         /\ \A i \in I!Range(c) \ named :
                              \/ i = "tea" /\ named \cap I!AGRICULTURE_ITEMS = {}
                              \/ i = "apparel_knit" /\ named \cap I!APPAREL_ITEMS = {})
      BY DEF I!ComparisonComplete
    <3>2. named = Named(q) /\ (c # <<>> => c = all)
      BY <1>15, <1>16
    <3> HIDE DEF c, named
    <3> QED
      BY <3>1, <3>2 DEF c
  <2> QED
    BY <1>10, <1>12, <1>13, <1>14
<1>18. I!Range(I!ComparedItems(q)) \subseteq Known
  <2>1. I!Range(all) \subseteq Known
    BY <1>9 DEF I!Range
  <2> QED
    BY <1>2, <1>5, <2>1
<1> QED
  BY <1>17, <1>18

\* What a reader is offered: the first of those that are named, two at least.
LEMMA OfferedAre ==
  ASSUME NEW items, items \subseteq Known
  PROVE  /\ I!Offered(items) \subseteq items
         /\ I!Cardinality(items) > 1 => I!Cardinality(I!Offered(items)) >= 2
<1>1. IsFiniteSet(items) /\ I!Offered(items) \subseteq items
  BY KnownFinite, FS_Subset DEF I!Offered
<1>2. ASSUME I!Cardinality(items) > 1 PROVE I!Cardinality(I!Offered(items)) >= 2
  <2> DEFINE lt == {p \in items \X items : I!Rank(p[1]) < I!Rank(p[2])}
             place(h) == Cardinality({g \in items : <<g, h>> \in lt})
             size == Cardinality(items)
  <2>1. \A g, h \in items : <<g, h>> \in lt <=> I!Rank(g) < I!Rank(h)
    OBVIOUS
  <2> HIDE DEF lt
  <2>2. \A i \in items : I!Rank(i) \in Nat /\ I!ItemOrder[I!Rank(i)] = i
    BY ItemsKnown
  <2>3. \A x \in items : <<x, x>> \notin lt
    BY <2>1, <2>2
  <2>4. \A x, y, z \in items : <<x, y>> \in lt /\ <<y, z>> \in lt => <<x, z>> \in lt
    BY <2>1, <2>2
  <2>5. \A x, y \in items : x # y => <<x, y>> \in lt \/ <<y, x>> \in lt
    BY <2>1, <2>2
  <2>6. /\ size \in Nat /\ \A g, h \in items : place(g) = place(h) => g = h
        /\ \A n \in 0..(size - 1) : \E h \in items : place(h) = n
    BY <1>1, <2>3, <2>4, <2>5, Places
  <2>7. size > 1
    BY <1>2, SameCount
  <2>8. \A h \in items : I!Cardinality({j \in items : I!Rank(j) < I!Rank(h)}) = place(h)
    <3> SUFFICES ASSUME NEW h \in items
                 PROVE  I!Cardinality({j \in items : I!Rank(j) < I!Rank(h)}) = place(h)
      OBVIOUS
    <3>1. {j \in items : I!Rank(j) < I!Rank(h)} = {g \in items : <<g, h>> \in lt}
      BY <2>1
    <3> QED
      BY <3>1, SameCount
  <2> HIDE DEF place, size
  <2>9. 0 \in 0..(size - 1) /\ 1 \in 0..(size - 1)
    BY <2>6, <2>7
  <2>10. PICK a \in items : place(a) = 0
    BY <2>6, <2>9
  <2>11. PICK b \in items : place(b) = 1
    BY <2>6, <2>9
  <2>12. a # b /\ a \in I!Offered(items) /\ b \in I!Offered(items)
    BY <2>8, <2>10, <2>11 DEF I!Offered, I!MAX_OPTIONS
  <2>13. IsFiniteSet(I!Offered(items))
    BY <1>1, FS_Subset
  <2>14. Cardinality({a} \cup {b}) = 2 /\ IsFiniteSet({a} \cup {b})
    <3>1. IsFiniteSet({a}) /\ Cardinality({a}) = 1
      BY FS_Singleton
    <3>2. b \notin {a}
      BY <2>12
    <3>3. IsFiniteSet({a} \cup {b}) /\ Cardinality({a} \cup {b}) = Cardinality({a}) + 1
      BY ONLY <3>1, <3>2, FS_AddElement
    <3> QED
      BY ONLY <3>1, <3>3
  <2>15. Cardinality({a} \cup {b}) <= Cardinality(I!Offered(items))
        /\ Cardinality(I!Offered(items)) \in Nat
    <3>1. {a} \cup {b} \in SUBSET I!Offered(items)
      BY <2>12
    <3> QED
      BY <2>13, <3>1, FS_Subset, FS_CardinalityType
  <2> QED
    BY <2>14, <2>15, SameCount
<1> QED
  BY <1>1, <1>2

\* compare_items and clarify.needed: what is offered is named, and a choice is answered.
THEOREM ChoicesAreAnswered ==
  ASSUME NEW q, DOMAIN q.words \subseteq Nat \ {0}, "chosen" \in DOMAIN q
  PROVE  I!ChoiceIsAnswered(q) /\ \A reply : I!OptionsAreNamed(q, reply)
<1> DEFINE t == I!ClarificationNeeded(q, TRUE)
           items == I!MatchingItems(q)
<1>1. items \subseteq Known
  BY ItemsKnown DEF I!MatchingItems
<1>2. \/ t.kind # "multi_item" /\ t.options = {}
      \/ /\ t.kind = "multi_item" /\ t.options = I!Offered(items)
         /\ I!Cardinality(items) > 1 /\ "compare" \notin q.cues
  BY DEF I!ClarificationNeeded, I!NoTrigger
<1> HIDE DEF t, items
<1>3. t.options \subseteq Known
  BY <1>1, <1>2, OfferedAre
<1>4. I!ChoiceIsAnswered(q)
  <2>1. \A i \in t.options \cup I!Range(I!ComparedItems(q)) : i \in Known
    BY <1>3, ComparedOnce
  <2> QED
    BY <2>1, ChosenIsParsed DEF I!ChoiceIsAnswered, t
<1>5. ASSUME NEW reply PROVE I!OptionsAreNamed(q, reply)
  <2> DEFINE u == I!LlmClarify(t, reply)
  <2>1. u = t \/ u.kind = "none"
    BY DEF I!LlmClarify, I!NoTrigger
  <2> HIDE DEF u
  <2>2. u.kind = "multi_item" =>
          /\ u.options \subseteq items /\ I!Cardinality(u.options) >= 2
          /\ "compare" \notin q.cues
    BY <1>1, <1>2, <2>1, OfferedAre
  <2> QED
    BY <2>2 DEF I!OptionsAreNamed, t, u, items
<1> QED
  BY <1>4, <1>5

\* classify.llm_turn: another item, market, year or region is only answered from what was
\* found before when the model itself says so.
THEOREM NewSubjectsAreAnalysed ==
  ASSUME NEW new, NEW old, NEW reply
  PROVE  I!NewSubjectIsAnalysed(new, old, reply)
<1>1. I!NewSubject(new, old) => I!KeywordTurn(new, old) = "analyse"
  BY DEF I!KeywordTurn
<1>2. reply # "discuss" =>
        I!LlmTurn(new, old, reply) = "analyse" \/ I!LlmTurn(new, old, reply) = I!KeywordTurn(new, old)
  BY DEF I!LlmTurn
<1>3. /\ I!ParseItem(new) # "none" /\ I!ParseItem(new) # I!ParseItem(old) => I!NewSubject(new, old)
      /\ new.partner # "none" /\ new.partner # old.partner => I!NewSubject(new, old)
      /\ I!Year(new) # 0 /\ I!Year(new) # I!Year(old) => I!NewSubject(new, old)
      /\ new.region # "none" /\ new.region # old.region => I!NewSubject(new, old)
  BY DEF I!NewSubject
<1> QED
  BY <1>1, <1>2, <1>3 DEF I!NewSubjectIsAnalysed

-----------------------------------------------------------------------------
(* The series.                                                             *)

LEMMA UpTo ==
  ASSUME NEW n \in Nat PROVE IsFiniteSet(1..n)
<1>1. 1 \in Int /\ n \in Int
  OBVIOUS
<1> QED
  BY <1>1, FS_Interval

LEMMA ListOf ==
  ASSUME NEW T, NEW n \in Nat, NEW f \in [1..n -> T] PROVE f \in Seq(T)
OBVIOUS

LEMMA SeriesTotal ==
  ASSUME NEW f, NEW T, IsFiniteSet(T), \A x \in T : f[x] \in Int
  PROVE  S!SumFunction([x \in T |-> f[x]]) = Sum(f, T) /\ Sum(f, T) \in Int
<1> DEFINE h == [x \in T |-> f[x]]
           Rec(g) == g = [t \in SUBSET T |-> IF t = {} THEN 0 ELSE h[Chosen(t)] + g[t \ {Chosen(t)}]]
<1> HIDE DEF h
<1>1. \A g : SumsOf(g, h, T) <=> Rec(g)
  BY DEF SumsOf
<1>2. \E g : Rec(g)
  BY <1>1, SumsExist
<1>3. Rec(CHOOSE g : Rec(g))
  BY <1>2
<1>4. Sum(h, T) = (CHOOSE g : Rec(g))[T]
  BY <1>1, <1>3, SumIs
<1>5. DOMAIN h = T /\ \A x \in T : f[x] \in Int /\ h[x] = f[x]
  BY DEF h
<1>6. S!SumFunction(h) = (CHOOSE g : Rec(g))[T]
  BY <1>5 DEF S!SumFunction, S!SumFunctionOnSet, S!FoldFunctionOnSet, S!MapThenFoldSet, Chosen
<1>7. Sum(f, T) \in Int /\ Sum(h, T) = Sum(f, T)
  BY <1>5, SumSame
<1> QED
  BY <1>4, <1>6, <1>7 DEF h

\* Rows of one item and column: amounts are whole numbers, weights too where they are known.
TableRows(rows) ==
  /\ IsFiniteSet(DOMAIN rows)
  /\ \A i \in DOMAIN rows : /\ rows[i].amount \in Int /\ rows[i].weight \in Nat \cup {S!Null}
                            /\ rows[i].partner # S!Any
Amounts(rows) == [i \in DOMAIN rows |-> rows[i].amount]

Drawn(rows, partner) == S!Chosen(rows, S!Matched(rows, partner, S!Any))
Flows(rows, partner) == S!AnnualSeries(rows, TRUE, partner, S!Any)
InYear(rows, ids, y) == {i \in ids : rows[i].year = y}

LEMMA FlowsOf ==
  ASSUME NEW rows, TableRows(rows), NEW partner
  PROVE  LET ids == Drawn(rows, partner)
             all == Flows(rows, partner)
         IN /\ ids \subseteq DOMAIN rows /\ DOMAIN all = {rows[i].year : i \in ids}
            /\ \A y \in DOMAIN all : all[y].of = Sum(Amounts(rows), InYear(rows, ids, y))
            /\ \A y : Sum(Amounts(rows), InYear(rows, ids, y)) \in Int
<1> DEFINE ids == Drawn(rows, partner)
           all == Flows(rows, partner)
           of(y) == InYear(rows, ids, y)
<1>1. ids \subseteq DOMAIN rows
  BY DEF S!Chosen, S!Matched, Drawn
<1>2. all = [y \in {rows[i].year : i \in ids} |->
               [of |-> S!SumFunction([i \in of(y) |-> rows[i].amount]), by |-> 1]]
  BY DEF S!AnnualSeries, S!Sum, Flows, Drawn, InYear
<1> HIDE DEF ids, all
<1>3. ASSUME NEW y
      PROVE  /\ S!SumFunction([i \in of(y) |-> rows[i].amount]) = Sum(Amounts(rows), of(y))
             /\ Sum(Amounts(rows), of(y)) \in Int
  <2>1. IsFiniteSet(of(y)) /\ of(y) \subseteq DOMAIN rows
    BY <1>1, FS_Subset DEF TableRows, InYear
  <2> HIDE DEF of
  <2>2. \A i \in of(y) : Amounts(rows)[i] = rows[i].amount /\ Amounts(rows)[i] \in Int
    BY <2>1 DEF Amounts, TableRows
  <2>3. [i \in of(y) |-> rows[i].amount] = [i \in of(y) |-> Amounts(rows)[i]]
    BY <2>2
  <2> QED
    BY <2>1, <2>2, <2>3, SeriesTotal
<1> HIDE DEF of
<1>4. DOMAIN all = {rows[i].year : i \in ids}
  BY <1>2
<1>5. \A y \in DOMAIN all : all[y].of = Sum(Amounts(rows), of(y))
  BY <1>2, <1>3, <1>4
<1>6. \A y : Sum(Amounts(rows), of(y)) \in Int
  BY <1>3
<1> QED
  BY <1>1, <1>4, <1>5, <1>6 DEF ids, all, of

\* annual_series: a national series is of its partners' rows, or of the world's, never both.
THEOREM NothingTwice ==
  ASSUME NEW rows, TableRows(rows)
  PROVE  S!NoDoubleCount(rows)
<1> DEFINE K == {i \in DOMAIN rows : rows[i].amount # S!Null}
           per == {i \in K : rows[i].partner # S!World}
           all == S!AnnualSeries(rows, TRUE, S!Any, S!Any)
           partners == {rows[i].partner : i \in DOMAIN rows} \ {S!World}
           parts == [p \in partners |-> S!AnnualSeries(rows, TRUE, p, S!Any)]
           stated == {p \in partners : DOMAIN parts[p] # {}}
           of(T, y) == {i \in T : rows[i].year = y}
           by(p) == {i \in K : rows[i].partner = p}
           a == Amounts(rows)
<1>1. S!NoDoubleCount(rows) <=>
        IF stated = {} THEN all = S!AnnualSeries(rows, TRUE, S!World, S!Any)
        ELSE /\ DOMAIN all = UNION {DOMAIN parts[p] : p \in stated}
             /\ \A y \in DOMAIN all :
                  all[y].of =
                    S!SumFunction([p \in {q \in stated : y \in DOMAIN parts[q]} |-> parts[p][y].of])
  BY DEF S!NoDoubleCount
<1>2. S!Matched(rows, S!Any, S!Any) = K
  BY DEF S!Matched
<1>3. ASSUME NEW p, p # S!Any PROVE S!Matched(rows, p, S!Any) = by(p)
  BY <1>3 DEF S!Matched
<1>4. S!World # S!Any /\ \A i \in DOMAIN rows : rows[i].partner # S!Any
  BY DEF S!World, S!Any, TableRows
<1>5. S!Chosen(rows, K) = IF per = {} THEN K ELSE per
  BY DEF S!Chosen
<1>6. \A p \in partners : S!Chosen(rows, by(p)) = by(p)
  <2> SUFFICES ASSUME NEW p \in partners PROVE S!Chosen(rows, by(p)) = by(p)
    OBVIOUS
  <2>1. {i \in by(p) : rows[i].partner # S!World} = by(p)
    OBVIOUS
  <2> HIDE DEF by
  <2> QED
    BY <2>1 DEF S!Chosen
<1>7. S!Chosen(rows, by(S!World)) = by(S!World)
  <2>1. {i \in by(S!World) : rows[i].partner # S!World} = {}
    OBVIOUS
  <2> HIDE DEF by
  <2> QED
    BY <2>1 DEF S!Chosen
<1>8. ASSUME NEW p \in partners
      PROVE  /\ DOMAIN parts[p] = {rows[i].year : i \in by(p)}
             /\ \A y \in DOMAIN parts[p] : parts[p][y].of = Sum(a, of(by(p), y))
  <2>1. p # S!Any /\ parts[p] = S!AnnualSeries(rows, TRUE, p, S!Any)
    BY <1>4
  <2>2. S!Chosen(rows, S!Matched(rows, p, S!Any)) = by(p)
    BY <1>3, <1>6, <2>1
  <2>3. parts[p] = Flows(rows, p) /\ Drawn(rows, p) = by(p)
    BY <2>1, <2>2 DEF Flows, Drawn
  <2>4. \A y : of(by(p), y) = InYear(rows, by(p), y)
    BY DEF InYear
  <2>5. /\ DOMAIN Flows(rows, p) = {rows[i].year : i \in Drawn(rows, p)}
        /\ \A y \in DOMAIN Flows(rows, p) :
             Flows(rows, p)[y].of = Sum(a, InYear(rows, Drawn(rows, p), y))
    BY FlowsOf
  <2> HIDE DEF by, of, parts, a
  <2> QED
    BY <2>3, <2>4, <2>5
<1>9. stated = {} <=> per = {}
  <2>1. \A p \in partners : DOMAIN parts[p] # {} <=> by(p) # {}
    <3> SUFFICES ASSUME NEW p \in partners PROVE DOMAIN parts[p] # {} <=> by(p) # {}
      OBVIOUS
    <3>1. DOMAIN parts[p] = {rows[i].year : i \in by(p)}
      BY <1>8
    <3> HIDE DEF by, parts
    <3> QED
      BY <3>1
  <2>2. ASSUME NEW i \in per PROVE rows[i].partner \in partners /\ i \in by(rows[i].partner)
    OBVIOUS
  <2>3. ASSUME NEW p \in partners, NEW i \in by(p) PROVE i \in per
    OBVIOUS
  <2> HIDE DEF partners, parts, by, per
  <2> QED
    BY <2>1, <2>2, <2>3
<1>10. CASE per = {}
  <2>1. by(S!World) = K
    BY <1>10
  <2>2. S!Chosen(rows, S!Matched(rows, S!World, S!Any)) = K
    BY <1>3, <1>4, <1>7, <2>1
  <2>3. S!Chosen(rows, S!Matched(rows, S!Any, S!Any)) = K
    BY <1>2, <1>5, <1>10
  <2>4. all = S!AnnualSeries(rows, TRUE, S!World, S!Any)
    BY <2>2, <2>3 DEF S!AnnualSeries
  <2> QED
    BY <1>1, <1>9, <1>10, <2>4
<1>11. CASE per # {}
  <2>1. /\ DOMAIN all = {rows[i].year : i \in per}
        /\ \A y \in DOMAIN all : all[y].of = Sum(a, of(per, y))
    <3>1. S!Chosen(rows, S!Matched(rows, S!Any, S!Any)) = per
      BY <1>2, <1>5, <1>11
    <3>2. Drawn(rows, S!Any) = per /\ all = Flows(rows, S!Any)
      BY <3>1 DEF Drawn, Flows
    <3>3. \A y : of(per, y) = InYear(rows, per, y)
      BY DEF InYear
    <3>4. /\ DOMAIN Flows(rows, S!Any) = {rows[i].year : i \in Drawn(rows, S!Any)}
          /\ \A y \in DOMAIN Flows(rows, S!Any) :
               Flows(rows, S!Any)[y].of = Sum(a, InYear(rows, Drawn(rows, S!Any), y))
      BY FlowsOf
    <3> HIDE DEF all, of, per, a
    <3> QED
      BY <3>2, <3>3, <3>4
  <2>2. \A i \in per : rows[i].partner \in partners /\ i \in by(rows[i].partner) /\ i \in K
    OBVIOUS
  <2>3. \A p \in partners : by(p) \subseteq per
    OBVIOUS
  <2>4. IsFiniteSet(DOMAIN rows) /\ per \subseteq DOMAIN rows /\ \A i \in DOMAIN rows : a[i] \in Int
    BY DEF TableRows, Amounts
  <2>5. \A p, y : of(by(p), y) \subseteq DOMAIN rows
    OBVIOUS
  <2>6. \A i \in DOMAIN rows : \A p : i \in by(p) <=> i \in K /\ rows[i].partner = p
    OBVIOUS
  <2> HIDE DEF per, K, by, partners, parts
  <2>7. \A p \in partners : p \in stated <=> by(p) # {}
    BY <1>8
  <2>8. DOMAIN all = UNION {DOMAIN parts[p] : p \in stated}
    <3>1. \A y \in DOMAIN all : \E p \in stated : y \in DOMAIN parts[p]
      <4> SUFFICES ASSUME NEW i \in per PROVE \E p \in stated : rows[i].year \in DOMAIN parts[p]
        BY <2>1
      <4>1. rows[i].partner \in stated
        BY <2>2, <2>7
      <4>2. rows[i].year \in DOMAIN parts[rows[i].partner]
        BY <1>8, <2>2
      <4> QED
        BY <4>1, <4>2
    <3>2. \A p \in stated : DOMAIN parts[p] \subseteq DOMAIN all
      <4> SUFFICES ASSUME NEW p \in stated PROVE DOMAIN parts[p] \subseteq DOMAIN all
        OBVIOUS
      <4>1. p \in partners
        OBVIOUS
      <4>2. DOMAIN parts[p] = {rows[i].year : i \in by(p)} /\ by(p) \subseteq per
        BY <1>8, <2>3, <4>1
      <4> HIDE DEF all
      <4> QED
        BY <2>1, <4>2
    <3> QED
      BY <3>1, <3>2
  <2>9. ASSUME NEW y \in DOMAIN all
        PROVE  all[y].of =
                 S!SumFunction([p \in {q \in stated : y \in DOMAIN parts[q]} |-> parts[p][y].of])
    <3> DEFINE Q == {q \in stated : y \in DOMAIN parts[q]}
               T == of(per, y)
               whose == [i \in DOMAIN rows |-> rows[i].partner]
               g == [p \in Q |-> parts[p][y].of]
    <3>1. IsFiniteSet(T) /\ T \subseteq DOMAIN rows /\ T \subseteq per
      BY <2>4, FS_Subset
    <3>2. Q \subseteq partners /\ \A p \in partners : p \in Q <=> y \in DOMAIN parts[p] /\ p \in stated
      OBVIOUS
    <3>3. IsFiniteSet(Q)
      <4>1. IsFiniteSet({whose[i] : i \in DOMAIN rows})
        BY <2>4, ImageFinite
      <4>2. Q \subseteq {whose[i] : i \in DOMAIN rows}
        BY <3>2 DEF partners
      <4> HIDE DEF Q
      <4> QED
        BY <4>1, <4>2, FS_Subset
    <3>4. \A i \in T : whose[i] \in Q
      <4> SUFFICES ASSUME NEW i \in T PROVE whose[i] \in Q
        OBVIOUS
      <4>1. i \in per /\ rows[i].year = y /\ whose[i] = rows[i].partner
        BY <3>1
      <4>2. whose[i] \in partners /\ i \in by(whose[i])
        BY <2>2, <4>1
      <4>3. y \in DOMAIN parts[whose[i]] /\ whose[i] \in stated
        BY <1>8, <2>7, <4>1, <4>2
      <4> QED
        BY <4>3
    <3>5. \A p \in Q : g[p] = Sum(a, {i \in T : whose[i] = p}) /\ g[p] = parts[p][y].of
      <4> SUFFICES ASSUME NEW p \in Q PROVE g[p] = Sum(a, {i \in T : whose[i] = p})
        OBVIOUS
      <4>1. p \in partners /\ y \in DOMAIN parts[p] /\ g[p] = parts[p][y].of
        BY <3>2
      <4>2. parts[p][y].of = Sum(a, of(by(p), y))
        BY <1>8, <4>1
      <4>3. of(by(p), y) = {i \in T : whose[i] = p}
        <5>1. \A i : i \in of(by(p), y) <=> i \in by(p) /\ rows[i].year = y
          OBVIOUS
        <5>2. \A i : i \in T <=> i \in per /\ rows[i].year = y
          OBVIOUS
        <5>3. \A i \in by(p) : i \in per /\ i \in DOMAIN rows /\ rows[i].partner = p
          BY <2>3, <2>4, <2>6, <4>1
        <5>4. \A i \in per : i \in DOMAIN rows /\ (rows[i].partner = p => i \in by(p))
          BY <2>2, <2>4, <2>6
        <5> HIDE DEF of, T
        <5> QED
          BY <3>1, <5>1, <5>2, <5>3, <5>4
      <4> QED
        BY <4>1, <4>2, <4>3
    <3> HIDE DEF Q, T, whose, g
    <3>6. \A i \in T : a[i] \in Int
      BY <2>4, <3>1
    <3>7. Sum(a, T) = Sum(g, Q)
      BY <3>1, <3>3, <3>4, <3>5, <3>6, SumParts
    <3>8. \A p \in Q : g[p] \in Int
      <4> SUFFICES ASSUME NEW p \in Q PROVE Sum(a, {i \in T : whose[i] = p}) \in Int
        BY <3>5
      <4>1. IsFiniteSet({i \in T : whose[i] = p}) /\ \A i \in {i \in T : whose[i] = p} : a[i] \in Int
        BY <3>1, <3>6, FS_Subset
      <4> QED
        BY <4>1, SumSame
    <3>9. S!SumFunction([p \in Q |-> g[p]]) = Sum(g, Q)
      BY <3>3, <3>8, SeriesTotal
    <3>10. [p \in Q |-> g[p]] = [p \in Q |-> parts[p][y].of]
      BY <3>5
    <3>11. all[y].of = Sum(a, T)
      BY <2>1 DEF T
    <3> QED
      BY <3>7, <3>9, <3>10, <3>11 DEF Q
  <2> QED
    BY <1>1, <1>9, <1>11, <2>8, <2>9
<1> QED
  BY <1>10, <1>11
LEMMA SeriesBasics ==
  ASSUME NEW T, IsFiniteSet(T)
  PROVE  /\ S!Cardinality(T) = Cardinality(T) /\ Cardinality(T) \in Nat
         /\ T # {} => Cardinality(T) > 0
         /\ T # {} /\ T \subseteq Int => /\ S!Max(T) \in T /\ \A x \in T : S!Max(T) >= x
                                         /\ S!Min(T) \in T /\ \A x \in T : S!Min(T) <= x
<1>1. S!Cardinality(T) = Cardinality(T)
  BY DEF S!Cardinality, Cardinality
<1>2. S!Max(T) = M!Max(T) /\ S!Min(T) = M!Min(T)
  BY DEF S!Max, S!Min, M!Max, M!Min
<1>3. Cardinality(T) \in Nat /\ (T # {} => Cardinality(T) > 0)
  BY FS_CardinalityType, FS_EmptySet
<1> QED
  BY <1>1, <1>2, <1>3, Extremes

\* A mean of whole numbers lies between two that bound them all.
LEMMA MeanIsBetween ==
  ASSUME NEW T, IsFiniteSet(T), NEW f, NEW lo \in Int, NEW hi \in Int,
         \A x \in T : f[x] \in Int /\ lo <= f[x] /\ f[x] <= hi
  PROVE  /\ Sum(f, T) \in Int /\ Cardinality(T) \in Nat
         /\ lo * Cardinality(T) <= Sum(f, T) /\ Sum(f, T) <= hi * Cardinality(T)
         /\ (\E x \in T : f[x] > lo) => lo * Cardinality(T) < Sum(f, T)
<1> DEFINE g == [x \in T |-> f[x]]
           low == [x \in T |-> lo]
           high == [x \in T |-> hi]
           n == Cardinality(T)
<1>1. /\ g \in [T -> Int] /\ low \in [T -> Int] /\ high \in [T -> Int]
      /\ \A x \in T : g[x] = f[x] /\ low[x] = lo /\ high[x] = hi
  OBVIOUS
<1>2. Sum(f, T) \in Int /\ Sum(g, T) = Sum(f, T)
  BY SumSame
<1> HIDE DEF g, low, high
<1>3. Sum(low, T) = lo * n /\ Sum(high, T) = hi * n
  BY <1>1, SumConstant
<1>4. Sum(low, T) <= Sum(g, T) /\ Sum(g, T) <= Sum(high, T)
  BY <1>1, SumMonotone
<1>5. n \in Nat
  BY FS_CardinalityType
<1>6. ASSUME NEW x \in T, f[x] > lo PROVE lo * n < Sum(f, T)
  <2> DEFINE h == [g EXCEPT ![x] = lo]
  <2>1. h \in [T -> Int] /\ h[x] = lo /\ \A y \in T \ {x} : h[y] = g[y]
    BY <1>1
  <2>2. \A y \in T : low[y] <= h[y]
    BY <1>1, <2>1
  <2> HIDE DEF h
  <2>3. Sum(low, T) <= Sum(h, T)
    BY <1>1, <2>1, <2>2, SumMonotone
  <2>4. Sum(g, T) = Sum(h, T) + (g[x] - h[x])
    BY <1>1, <2>1, SumChange
  <2>5. Sum(h, T) \in Int /\ Sum(low, T) \in Int /\ Sum(g, T) \in Int
    BY <1>1, <1>2, <2>1, SumType
  <2>6. g[x] = f[x] /\ h[x] = lo /\ f[x] \in Int
    BY <1>1, <2>1
  <2>7. Sum(low, T) < Sum(g, T)
    BY ONLY <1>6, <2>3, <2>4, <2>5, <2>6, lo \in Int
  <2> QED
    BY <1>2, <1>3, <2>7
<1> QED
  BY <1>2, <1>3, <1>4, <1>5, <1>6

\* And a weighted one.
LEMMA WeightedIsBetween ==
  ASSUME NEW T, IsFiniteSet(T), NEW f, NEW w, NEW p, NEW lo \in Int, NEW hi \in Int,
         \A x \in T : /\ f[x] \in Int /\ lo <= f[x] /\ f[x] <= hi /\ w[x] \in Nat
                      /\ p[x] = f[x] * w[x]
  PROVE  /\ Sum(p, T) \in Int /\ Sum(w, T) \in Int
         /\ lo * Sum(w, T) <= Sum(p, T) /\ Sum(p, T) <= hi * Sum(w, T)
<1> DEFINE g == [x \in T |-> p[x]]
           low == [x \in T |-> lo * w[x]]
           high == [x \in T |-> hi * w[x]]
<1>1. \A x \in T : w[x] \in Int /\ p[x] \in Int /\ lo * w[x] \in Int /\ hi * w[x] \in Int
  OBVIOUS
<1>2. /\ g \in [T -> Int] /\ low \in [T -> Int] /\ high \in [T -> Int]
      /\ \A x \in T : g[x] = p[x] /\ low[x] = lo * w[x] /\ high[x] = hi * w[x]
  BY <1>1
<1>3. Sum(p, T) \in Int /\ Sum(g, T) = Sum(p, T) /\ Sum(w, T) \in Int
  BY <1>1, SumSame
<1> HIDE DEF g, low, high
<1>4. Sum(low, T) = lo * Sum(w, T) /\ Sum(high, T) = hi * Sum(w, T)
  BY <1>1, <1>2, SumScaled
<1>5. \A m, n \in Int, k \in Nat : m <= n => m * k <= n * k
  OBVIOUS
<1>6. \A x \in T : low[x] <= g[x] /\ g[x] <= high[x]
  <2> SUFFICES ASSUME NEW x \in T PROVE lo * w[x] <= f[x] * w[x] /\ f[x] * w[x] <= hi * w[x]
    BY <1>2
  <2> QED
    BY <1>5
<1>7. Sum(low, T) <= Sum(g, T) /\ Sum(g, T) <= Sum(high, T)
  BY <1>2, <1>6, SumMonotone
<1> QED
  BY <1>3, <1>4, <1>7

LEMMA PriceIsBetween ==
  ASSUME NEW rows, NEW T, IsFiniteSet(T), NEW lo \in Int, NEW hi \in Int,
         \A i \in T : /\ rows[i].amount \in Int /\ lo <= rows[i].amount /\ rows[i].amount <= hi
                      /\ rows[i].weight \in Nat \cup {S!Null}
  PROVE  LET p == S!Price(rows, T)
         IN /\ lo * p.by <= p.of /\ p.of <= hi * p.by
            /\ (\E i \in T : rows[i].weight = S!Null /\ rows[i].amount > lo) => lo * p.by < p.of
<1> DEFINE a == [i \in T |-> rows[i].amount]
           w == [i \in T |-> rows[i].weight]
           aw == [i \in T |-> rows[i].amount * rows[i].weight]
           weights == S!SumFunction(w)
           known == \A i \in T : rows[i].weight # S!Null
           price == S!Price(rows, T)
<1>1. price = IF known /\ weights > 0 THEN [of |-> S!SumFunction(aw), by |-> weights]
              ELSE [of |-> S!SumFunction(a), by |-> S!Cardinality(T)]
  BY DEF S!Price, S!Sum
<1>2. S!Null \in Int
  BY DEF S!Null
<1>3. \A i \in T : /\ a[i] = rows[i].amount /\ w[i] = rows[i].weight /\ aw[i] = a[i] * w[i]
                   /\ a[i] \in Int /\ w[i] \in Int /\ aw[i] \in Int
  BY <1>2
<1>4. a = [i \in T |-> a[i]] /\ w = [i \in T |-> w[i]] /\ aw = [i \in T |-> aw[i]]
  OBVIOUS
<1> HIDE DEF a, w, aw, price
<1>5. S!SumFunction(a) = Sum(a, T) /\ S!SumFunction(w) = Sum(w, T) /\ S!SumFunction(aw) = Sum(aw, T)
  <2>1. /\ S!SumFunction([i \in T |-> a[i]]) = Sum(a, T)
        /\ S!SumFunction([i \in T |-> w[i]]) = Sum(w, T)
        /\ S!SumFunction([i \in T |-> aw[i]]) = Sum(aw, T)
    BY <1>3, SeriesTotal
  <2> QED
    BY <1>4, <2>1
<1>6. CASE known /\ weights > 0
  <2>1. price.of = Sum(aw, T) /\ price.by = Sum(w, T)
    BY <1>1, <1>5, <1>6
  <2>2. \A i \in T : /\ a[i] \in Int /\ lo <= a[i] /\ a[i] <= hi /\ w[i] \in Nat
                     /\ aw[i] = a[i] * w[i]
    BY <1>3, <1>6
  <2>3. lo * Sum(w, T) <= Sum(aw, T) /\ Sum(aw, T) <= hi * Sum(w, T)
    BY <2>2, WeightedIsBetween
  <2> QED
    BY <1>6, <2>1, <2>3 DEF price
<1>7. CASE ~(known /\ weights > 0)
  <2>1. price.of = Sum(a, T) /\ price.by = Cardinality(T)
    BY <1>1, <1>5, <1>7, SeriesBasics
  <2>2. \A i \in T : a[i] \in Int /\ lo <= a[i] /\ a[i] <= hi
    BY <1>3
  <2>3. /\ lo * Cardinality(T) <= Sum(a, T) /\ Sum(a, T) <= hi * Cardinality(T)
        /\ (\E i \in T : a[i] > lo) => lo * Cardinality(T) < Sum(a, T)
    BY <2>2, MeanIsBetween
  <2>4. (\E i \in T : rows[i].weight = S!Null /\ rows[i].amount > lo) => \E i \in T : a[i] > lo
    BY <1>3
  <2> QED
    BY <2>1, <2>3, <2>4 DEF price
<1> QED
  BY <1>6, <1>7

\* annual_series of a price: between the lowest and the highest of its rows, each of which counts.
THEOREM PricesAreMeans ==
  ASSUME NEW rows, TableRows(rows)
  PROVE  S!PriceOfEveryRow(rows)
<1> DEFINE ids == S!Chosen(rows, S!Matched(rows, S!Any, S!Any))
           series == S!AnnualSeries(rows, FALSE, S!Any, S!Any)
           of(y) == {i \in ids : rows[i].year = y}
<1>1. ids \subseteq DOMAIN rows
  BY DEF S!Chosen, S!Matched
<1>2. series = [y \in {rows[i].year : i \in ids} |-> S!Price(rows, of(y))]
  BY DEF S!AnnualSeries
<1>3. ASSUME NEW y \in DOMAIN series
      PROVE  LET lowest == S!Min({rows[i].amount : i \in of(y)})
                 highest == S!Max({rows[i].amount : i \in of(y)})
             IN /\ lowest * series[y].by <= series[y].of /\ series[y].of <= highest * series[y].by
                /\ \A i \in of(y) :
                     rows[i].weight = S!Null /\ rows[i].amount = highest /\ lowest < highest =>
                       series[y].of > lowest * series[y].by
  <2> DEFINE T == of(y)
             amount == [i \in T |-> rows[i].amount]
             A == {amount[i] : i \in T}
             lowest == S!Min(A)
             highest == S!Max(A)
             p == S!Price(rows, T)
  <2>1. A = {rows[i].amount : i \in T}
    OBVIOUS
  <2>2. T \subseteq DOMAIN rows /\ IsFiniteSet(T) /\ T # {}
    BY <1>1, <1>2, FS_Subset DEF TableRows
  <2>3. \A i \in T : rows[i].amount \in Int /\ rows[i].weight \in Nat \cup {S!Null}
    BY <2>2 DEF TableRows
  <2>4. IsFiniteSet(A) /\ A # {} /\ A \subseteq Int /\ \A i \in T : rows[i].amount \in A
    <3>1. IsFiniteSet(A)
      BY <2>2, ImageFinite
    <3> QED
      BY <2>1, <2>2, <2>3, <3>1
  <2>5. series[y] = p
    BY <1>2
  <2> HIDE DEF T, A, p
  <2>6. /\ lowest \in Int /\ highest \in Int
        /\ \A i \in T : lowest <= rows[i].amount /\ rows[i].amount <= highest
    <3>1. /\ highest \in A /\ \A x \in A : highest >= x
          /\ lowest \in A /\ \A x \in A : lowest <= x
      BY <2>4, SeriesBasics
    <3> HIDE DEF lowest, highest
    <3> QED
      BY <2>3, <2>4, <3>1
  <2> HIDE DEF lowest, highest
  <2>7. /\ lowest * p.by <= p.of /\ p.of <= highest * p.by
        /\ (\E i \in T : rows[i].weight = S!Null /\ rows[i].amount > lowest) => lowest * p.by < p.of
    BY <2>2, <2>3, <2>6, PriceIsBetween DEF p
  <2>8. \A i \in T : rows[i].weight = S!Null /\ rows[i].amount = highest /\ lowest < highest =>
                       lowest * p.by < p.of
    BY <2>6, <2>7
  <2>9. /\ lowest = S!Min({rows[i].amount : i \in of(y)})
        /\ highest = S!Max({rows[i].amount : i \in of(y)})
    BY <2>1 DEF lowest, highest, T
  <2>10. \A m, n : m < n <=> n > m
    OBVIOUS
  <2> HIDE DEF series, of
  <2> QED
    BY <2>5, <2>7, <2>8, <2>9, <2>10 DEF T
<1> QED
  BY <1>3 DEF S!PriceOfEveryRow

\* cross_validate: the further apart two figures are, the worse what that is called.
LEMMA WorseIsNotBetter ==
  ASSUME NEW a \in Int, NEW b \in Int, NEW c \in Int
  PROVE  S!SeverityMonotone(a, b, c)
<1> DEFINE rank == [none |-> 0, minor |-> 1, material |-> 2, severe |-> 3]
<1> SUFFICES ASSUME a <= b, b <= c PROVE rank[S!Severity(a, b)] <= rank[S!Severity(a, c)]
  BY DEF S!SeverityMonotone
<1>1. rank["none"] = 0 /\ rank["minor"] = 1 /\ rank["material"] = 2 /\ rank["severe"] = 3
  OBVIOUS
<1>2. ASSUME NEW d \in Int, a <= d
      PROVE  rank[S!Severity(a, d)] = IF a = d THEN 0 ELSE IF a = 0 THEN 3
                                      ELSE IF (d - a) * 100 < 5 * a THEN 1
                                      ELSE IF (d - a) * 100 <= 20 * a THEN 2 ELSE 3
  <2>1. (IF a > d THEN a - d ELSE d - a) = d - a
    BY <1>2
  <2> QED
    BY <1>1, <1>2, <2>1 DEF S!Severity
<1> HIDE DEF rank
<1>3. a <= c /\ c - a >= b - a
  OBVIOUS
<1> QED
  BY <1>2, <1>3

\* Observations: a function from finitely many days to whole numbers.
Daybook(obs) ==
  IsFiniteSet(DOMAIN obs) /\ DOMAIN obs \subseteq Int /\ \A d \in DOMAIN obs : obs[d] \in Int

\* forward_fill_fx: a figure is carried forward over the rows that follow it, and not far.
LEMMA CarriedFromNear ==
  ASSUME NEW obs, Daybook(obs)
  PROVE  S!FilledFromNear(obs)
<1> DEFINE filled == S!ForwardFill(obs)
           after(e, d) == {k \in DOMAIN obs : e < k /\ k <= d}
<1> SUFFICES ASSUME NEW d \in DOMAIN obs
             PROVE  /\ obs[d] # S!Null => filled[d] = obs[d]
                    /\ filled[d] # S!Null =>
                         \E e \in DOMAIN obs : /\ e <= d /\ obs[e] = filled[d]
                                               /\ S!Cardinality(after(e, d)) <= S!FILL_LIMIT
  BY DEF S!FilledFromNear
<1> DEFINE seen == {e \in DOMAIN obs : e < d /\ obs[e] # S!Null}
<1>1. filled[d] = IF obs[d] # S!Null \/ seen = {} THEN obs[d]
                  ELSE IF S!Cardinality(after(S!Max(seen), d)) > S!FILL_LIMIT THEN S!Null
                  ELSE obs[S!Max(seen)]
  BY DEF S!ForwardFill
<1>2. d \in Int /\ \A e \in DOMAIN obs : e \in Int
  BY DEF Daybook
<1>3. IsFiniteSet(seen) /\ seen \subseteq Int
  BY <1>2, FS_Subset DEF Daybook
<1>4. \A e : IsFiniteSet(after(e, d))
  BY FS_Subset DEF Daybook
<1>5. \A e : S!Cardinality(after(e, d)) = Cardinality(after(e, d)) /\ Cardinality(after(e, d)) \in Nat
  BY <1>4, SeriesBasics
<1>6. S!FILL_LIMIT = 2
  BY DEF S!FILL_LIMIT
<1>7. after(d, d) = {}
  BY <1>2
<1>8. S!Cardinality(after(d, d)) <= S!FILL_LIMIT
  BY <1>5, <1>6, <1>7, FS_EmptySet
<1>9. CASE obs[d] # S!Null
  <2> HIDE DEF filled, after, seen
  <2> QED
    BY <1>1, <1>2, <1>8, <1>9
<1>10. CASE obs[d] = S!Null /\ seen = {}
  <2> HIDE DEF filled, after, seen
  <2> QED
    BY <1>1, <1>10
<1>11. CASE obs[d] = S!Null /\ seen # {}
  <2>1. S!Max(seen) \in seen
    BY <1>3, <1>11, SeriesBasics
  <2>2. S!Max(seen) \in DOMAIN obs /\ S!Max(seen) < d
    BY <2>1
  <2> HIDE DEF filled, after, seen
  <2> QED
    BY <1>1, <1>2, <1>5, <1>6, <1>11, <2>2
<1> QED
  BY <1>9, <1>10, <1>11

\* Aggregate: what a period's figures come to.
LEMMA PeriodOf ==
  ASSUME NEW obs, Daybook(obs), NEW period \in SUBSET DOMAIN obs
  PROVE  LET known == {d \in period : obs[d] # S!Null} IN
         /\ IsFiniteSet(known) /\ known \in SUBSET DOMAIN obs
         /\ S!Aggregate("sum", obs, period) = [of |-> Sum(obs, known), by |-> 1]
         /\ S!Aggregate("mean", obs, period) = [of |-> Sum(obs, known), by |-> Cardinality(known)]
         /\ S!Aggregate("last", obs, period) =
              [of |-> IF known = {} THEN S!Null ELSE obs[S!Max(known)], by |-> 1]
<1> DEFINE known == {d \in period : obs[d] # S!Null}
<1>1. IsFiniteSet(known) /\ known \in SUBSET DOMAIN obs
  BY FS_Subset DEF Daybook
<1>2. S!SumFunction([d \in known |-> obs[d]]) = Sum(obs, known)
  BY <1>1, SeriesTotal DEF Daybook
<1>3. S!Cardinality(known) = Cardinality(known)
  BY <1>1, SeriesBasics
<1>4. "sum" # "mean" /\ "sum" # "last" /\ "mean" # "last"
  OBVIOUS
<1>5. /\ S!Aggregate("sum", obs, period) = [of |-> S!SumFunction([d \in known |-> obs[d]]), by |-> 1]
      /\ S!Aggregate("mean", obs, period) =
           [of |-> S!SumFunction([d \in known |-> obs[d]]), by |-> S!Cardinality(known)]
      /\ S!Aggregate("last", obs, period) =
           [of |-> IF known = {} THEN S!Null ELSE obs[S!Max(known)], by |-> 1]
  BY <1>4 DEF S!Aggregate
<1> HIDE DEF known
<1>6. S!Aggregate("sum", obs, period) = [of |-> Sum(obs, known), by |-> 1]
  BY <1>2, <1>5
<1>7. S!Aggregate("mean", obs, period) = [of |-> Sum(obs, known), by |-> Cardinality(known)]
  BY <1>2, <1>3, <1>5
<1> QED
  BY <1>1, <1>5, <1>6, <1>7 DEF known

\* align.resample: rates stay within what was observed, flows add up.
LEMMA EachAlignedItsWay ==
  ASSUME NEW obs, Daybook(obs), NEW halves,
         halves[1] \cup halves[2] = DOMAIN obs, halves[1] \cap halves[2] = {}
  PROVE  S!AlignedLikeItsKind(obs, halves)
<1> DEFINE whole == DOMAIN obs
           known == {obs[d] : d \in whole} \ {S!Null}
           days == {d \in whole : obs[d] # S!Null}
           of(c, p) == S!Aggregate(S!AggregationFor(c), obs, p)
           lo == S!Min(known)
           hi == S!Max(known)
           in(T) == {d \in T : obs[d] # S!Null}
<1>1. /\ S!AggregationFor("price") = "mean" /\ S!AggregationFor("fx_usd_lkr") = "last"
      /\ S!AggregationFor("export_volume") = "sum"
  BY DEF S!AggregationFor
<1>2. IsFiniteSet(whole) /\ whole \subseteq Int /\ \A d \in whole : obs[d] \in Int
  BY DEF Daybook
<1>3. /\ IsFiniteSet(days) /\ days \in SUBSET whole
      /\ S!Aggregate("mean", obs, whole) = [of |-> Sum(obs, days), by |-> Cardinality(days)]
      /\ S!Aggregate("last", obs, whole) =
           [of |-> IF days = {} THEN S!Null ELSE obs[S!Max(days)], by |-> 1]
  BY PeriodOf
<1>4. IsFiniteSet(known) /\ known \subseteq Int
  <2>1. IsFiniteSet({obs[d] : d \in whole})
    BY <1>2, ImageFinite
  <2> QED
    BY <1>2, <2>1, FS_Subset
<1>5. (\A d \in days : obs[d] \in known) /\ (known # {} => days # {})
  OBVIOUS
<1>6. ASSUME known # {}, NEW c \in {"price", "fx_usd_lkr"}
      PROVE  lo * of(c, whole).by <= of(c, whole).of /\ of(c, whole).of <= hi * of(c, whole).by
  <2>1. lo \in Int /\ hi \in Int /\ \A x \in known : lo <= x /\ x <= hi
    <3>1. /\ hi \in known /\ \A x \in known : hi >= x
          /\ lo \in known /\ \A x \in known : lo <= x
      BY <1>4, <1>6, SeriesBasics
    <3> HIDE DEF lo, hi, known
    <3> QED
      BY <1>4, <3>1
  <2>2. \A d \in days : obs[d] \in Int /\ lo <= obs[d] /\ obs[d] <= hi
    <3> HIDE DEF known, lo, hi
    <3> QED
      BY <1>2, <1>3, <1>5, <2>1
  <2> HIDE DEF lo, hi, known, days
  <2>3. /\ Sum(obs, days) \in Int /\ Cardinality(days) \in Nat
        /\ lo * Cardinality(days) <= Sum(obs, days) /\ Sum(obs, days) <= hi * Cardinality(days)
    BY <1>3, <2>1, <2>2, MeanIsBetween
  <2>4. CASE c = "price"
    <3>1. of(c, whole).of = Sum(obs, days) /\ of(c, whole).by = Cardinality(days)
      BY <1>1, <1>3, <2>4
    <3> HIDE DEF of
    <3> QED
      BY <2>3, <3>1
  <2>5. CASE c = "fx_usd_lkr"
    <3>1. of(c, whole).of = obs[S!Max(days)] /\ of(c, whole).by = 1 /\ S!Max(days) \in days
      <4>1. S!Max(days) \in days
        <5>1. days \subseteq Int /\ days # {}
          BY <1>2, <1>3, <1>5, <1>6
        <5> QED
          BY <1>3, <5>1, SeriesBasics
      <4> QED
        BY <1>1, <1>3, <2>5, <4>1
    <3>2. lo * 1 = lo /\ hi * 1 = hi
      BY <2>1
    <3> HIDE DEF of
    <3> QED
      BY <2>2, <3>1, <3>2
  <2> QED
    BY <1>6, <2>4, <2>5
<1>7. of("export_volume", whole).of =
        of("export_volume", halves[1]).of + of("export_volume", halves[2]).of
  <2>1. /\ in(halves[1]) \in SUBSET whole /\ in(halves[2]) \in SUBSET whole
        /\ in(halves[1]) \cup in(halves[2]) = in(whole) /\ in(halves[1]) \cap in(halves[2]) = {}
    OBVIOUS
  <2>2. ASSUME NEW p \in SUBSET whole PROVE of("export_volume", p).of = Sum(obs, in(p))
    <3>1. S!Aggregate("sum", obs, p) = [of |-> Sum(obs, in(p)), by |-> 1]
      BY PeriodOf
    <3> HIDE DEF in
    <3> QED
      BY <1>1, <3>1
  <2>3. halves[1] \in SUBSET whole /\ halves[2] \in SUBSET whole /\ whole \in SUBSET whole
    OBVIOUS
  <2> DEFINE A == in(halves[1])
             B == in(halves[2])
  <2>4. A \in SUBSET whole /\ B \in SUBSET whole /\ A \cap B = {} /\ A \cup B = in(whole)
    BY <2>1
  <2>5. /\ of("export_volume", halves[1]).of = Sum(obs, A)
        /\ of("export_volume", halves[2]).of = Sum(obs, B)
        /\ of("export_volume", whole).of = Sum(obs, in(whole))
    BY <2>2, <2>3
  <2> HIDE DEF A, B, in, of
  <2>6. Sum(obs, A \cup B) = Sum(obs, A) + Sum(obs, B)
    BY <1>2, <2>4, SumUnion
  <2> QED
    BY <2>4, <2>5, <2>6
<1> HIDE DEF of, lo, hi
<1>8. S!AlignedLikeItsKind(obs, halves) <=>
        /\ known # {} => \A c \in {"price", "fx_usd_lkr"} :
              lo * of(c, whole).by <= of(c, whole).of /\ of(c, whole).of <= hi * of(c, whole).by
        /\ of("export_volume", whole).of =
             of("export_volume", halves[1]).of + of("export_volume", halves[2]).of
  BY DEF S!AlignedLikeItsKind, of, lo, hi
<1> QED
  BY <1>6, <1>7, <1>8

\* The distance to the next day.
GapTo(days) == [d \in days \ {S!Max(days)} |-> S!Min({e \in days : e > d}) - d]

LEMMA GapsAre ==
  ASSUME NEW days, IsFiniteSet(days), days \subseteq Int, Cardinality(days) > 1
  PROVE  LET gap == GapTo(days)
         IN /\ IsFiniteSet(DOMAIN gap) /\ DOMAIN gap # {} /\ \A d \in DOMAIN gap : gap[d] \in Int
            /\ \A d \in DOMAIN gap : \E e \in days : d \in days /\ d < e /\ e - d = gap[d]
<1> DEFINE last == S!Max(days)
           later(d) == {e \in days : e > d}
           gap == [d \in days \ {last} |-> S!Min(later(d)) - d]
<1>1. days # {} /\ last \in days /\ \A x \in days : last >= x
  <2>1. days # {}
    BY FS_EmptySet
  <2> QED
    BY <2>1, SeriesBasics
<1>2. IsFiniteSet(DOMAIN gap) /\ DOMAIN gap = days \ {last}
  BY FS_Subset
<1>3. days \ {last} # {}
  <2>1. Cardinality({last}) = 1
    BY FS_Singleton
  <2>2. days # {last}
    BY <2>1
  <2> HIDE DEF last
  <2> QED
    BY <1>1, <2>2
<1>4. ASSUME NEW d \in days \ {last}
      PROVE  \E e \in days : d < e /\ e - d = gap[d] /\ gap[d] \in Int
  <2>1. last \in later(d) /\ IsFiniteSet(later(d)) /\ later(d) \subseteq days
    <3>1. last > d
      <4> HIDE DEF last
      <4> QED
        BY <1>1
    <3> QED
      BY <1>1, <3>1, FS_Subset
  <2>2. S!Min(later(d)) \in later(d)
    BY <2>1, SeriesBasics
  <2>3. gap[d] = S!Min(later(d)) - d
    OBVIOUS
  <2>4. S!Min(later(d)) \in days /\ S!Min(later(d)) > d
    BY <2>2
  <2> DEFINE m == S!Min(later(d))
  <2>5. m \in days /\ d < m /\ gap[d] = m - d /\ m - d \in Int
    <3>1. d \in Int /\ m \in Int /\ m \in days
      BY <2>4
    <3>2. gap[d] = m - d /\ m > d
      BY <2>3, <2>4
    <3> HIDE DEF m, gap
    <3> QED
      BY <3>1, <3>2
  <2> HIDE DEF m, gap
  <2> QED
    BY <2>5
<1>5. gap = GapTo(days)
  BY DEF GapTo
<1> HIDE DEF gap, last
<1> QED
  BY <1>2, <1>3, <1>4, <1>5

\* The middle of some numbers is between two of them.
LEMMA MiddleIsBetween ==
  ASSUME NEW g, IsFiniteSet(DOMAIN g), DOMAIN g # {}, \A d \in DOMAIN g : g[d] \in Int
  PROVE  LET atMost(n) == S!Cardinality({d \in DOMAIN g : g[d] <= n})
             below(n) == S!Cardinality({d \in DOMAIN g : g[d] < n})
             all == S!Cardinality(DOMAIN g)
             low == S!Min({g[d] : d \in {e \in DOMAIN g : 2 * atMost(g[e]) >= all}})
             high == S!Max({g[d] : d \in {e \in DOMAIN g : 2 * below(g[e]) <= all}})
         IN \E d, e \in DOMAIN g : low = g[d] /\ high = g[e]
<1> DEFINE D == DOMAIN g
           atMost(n) == S!Cardinality({d \in D : g[d] <= n})
           below(n) == S!Cardinality({d \in D : g[d] < n})
           all == S!Cardinality(D)
           lows == {e \in D : 2 * atMost(g[e]) >= all}
           highs == {e \in D : 2 * below(g[e]) <= all}
           low == S!Min({g[d] : d \in lows})
           high == S!Max({g[d] : d \in highs})
           numbers == {g[d] : d \in D}
<1>1. IsFiniteSet(numbers) /\ numbers # {} /\ numbers \subseteq Int
  BY ImageFinite
<1>2. PICK t \in D, b \in D : \A d \in D : g[b] <= g[d] /\ g[d] <= g[t]
  <2>1. /\ S!Max(numbers) \in numbers /\ \A x \in numbers : S!Max(numbers) >= x
        /\ S!Min(numbers) \in numbers /\ \A x \in numbers : S!Min(numbers) <= x
    BY <1>1, SeriesBasics
  <2>2. PICK t \in D, b \in D : S!Max(numbers) = g[t] /\ S!Min(numbers) = g[b]
    BY <2>1
  <2>3. \A d \in D : g[d] \in numbers /\ g[d] \in Int
    OBVIOUS
  <2> HIDE DEF numbers, D
  <2>4. \A d \in D : g[b] <= g[d] /\ g[d] <= g[t]
    BY <2>1, <2>2, <2>3
  <2> QED
    BY <2>4
<1>3. all \in Nat
  BY SeriesBasics
<1>4. t \in lows
  <2>1. {d \in D : g[d] <= g[t]} = D
    BY <1>2
  <2>2. atMost(g[t]) = all
    BY <2>1
  <2> HIDE DEF atMost, all, D
  <2> QED
    BY <1>3, <2>2
<1>5. b \in highs
  <2>1. {d \in D : g[d] < g[b]} = {}
    BY <1>2
  <2>2. S!Cardinality({}) = 0
    BY FS_EmptySet, SeriesBasics
  <2>3. below(g[b]) = 0
    BY <2>1, <2>2
  <2> HIDE DEF below, all, D
  <2> QED
    BY <1>3, <2>3
<1>6. ASSUME NEW T \in SUBSET D, T # {}
      PROVE  /\ \E d \in D : S!Min({g[x] : x \in T}) = g[d]
             /\ \E d \in D : S!Max({g[x] : x \in T}) = g[d]
  <2> DEFINE Q == {g[x] : x \in T}
  <2>1. IsFiniteSet(T)
    BY FS_Subset
  <2>2. IsFiniteSet(Q) /\ Q # {} /\ Q \subseteq Int
    BY <1>6, <2>1, ImageFinite
  <2>3. S!Max(Q) \in Q /\ S!Min(Q) \in Q
    BY <2>2, SeriesBasics
  <2> QED
    BY <2>3
<1>7. (\E d \in D : low = g[d]) /\ (\E e \in D : high = g[e])
  <2>1. lows \in SUBSET D /\ highs \in SUBSET D
    OBVIOUS
  <2> HIDE DEF lows, highs
  <2> QED
    BY <1>4, <1>5, <1>6, <2>1
<1> HIDE DEF low, high
<1>8. \E d, e \in DOMAIN g : low = g[d] /\ high = g[e]
  BY <1>7
<1> QED
  BY <1>8 DEF low, high

LEMMA RankOf ==
  /\ S!Rank("D") = 1 /\ S!Rank("W") = 2 /\ S!Rank("M") = 3 /\ S!Rank("Q") = 4 /\ S!Rank("A") = 5
  /\ \A k \in 1..4 : S!Rank(S!Frequencies[k]) = k
<1>1. /\ S!Frequencies[1] = "D" /\ S!Frequencies[2] = "W" /\ S!Frequencies[3] = "M"
      /\ S!Frequencies[4] = "Q" /\ S!Frequencies[5] = "A"
  BY DEF S!Frequencies
<1>2. ASSUME NEW k \in 1..5 PROVE S!Rank(S!Frequencies[k]) = k
  <2>1. \A i \in 1..5 : S!Frequencies[i] = S!Frequencies[k] <=> i = k
    BY <1>1
  <2> QED
    BY <2>1 DEF S!Rank
<1>3. \A k \in 1..4 : k \in 1..5
  OBVIOUS
<1>4. 1 \in 1..5 /\ 2 \in 1..5 /\ 3 \in 1..5 /\ 4 \in 1..5 /\ 5 \in 1..5
  OBVIOUS
<1>5. /\ S!Rank(S!Frequencies[1]) = 1 /\ S!Rank(S!Frequencies[2]) = 2 /\ S!Rank(S!Frequencies[3]) = 3
      /\ S!Rank(S!Frequencies[4]) = 4 /\ S!Rank(S!Frequencies[5]) = 5
  BY <1>2, <1>4
<1> QED
  BY <1>1, <1>2, <1>3, <1>5

\* _native_frequency and resample: a frequency that is given is one the data have somewhere.
LEMMA NothingInvented ==
  ASSUME NEW days, IsFiniteSet(days), days \subseteq Int
  PROVE  S!NeverInvented(days)
<1> DEFINE upper == <<3, 10, 45, 130>>
           gap == GapTo(days)
           D == DOMAIN gap
           atMost(n) == S!Cardinality({d \in D : gap[d] <= n})
           below(n) == S!Cardinality({d \in D : gap[d] < n})
           low == S!Min({gap[d] : d \in {e \in D : 2 * atMost(gap[e]) >= S!Cardinality(D)}})
           high == S!Max({gap[d] : d \in {e \in D : 2 * below(gap[e]) <= S!Cardinality(D)}})
           twice == low + high
<1> SUFFICES ASSUME NEW k \in 1..4, S!Cardinality(days) > 1, ~S!Refused(days, S!Frequencies[k])
             PROVE  \E d, e \in days : d < e /\ e - d <= upper[k]
  BY DEF S!NeverInvented
<1>1. S!Cardinality(days) = Cardinality(days) /\ Cardinality(days) \in Nat
  BY SeriesBasics
<1>2. /\ IsFiniteSet(D) /\ D # {} /\ \A d \in D : gap[d] \in Int
      /\ \A d \in D : \E e \in days : d \in days /\ d < e /\ e - d = gap[d]
  BY <1>1, GapsAre
<1>3. S!NativeFrequency(days) =
        CASE S!Cardinality(days) < 2 -> "none"
          [] twice <= 6 -> "D" [] twice > 6 /\ twice <= 20 -> "W"
          [] twice > 20 /\ twice <= 90 -> "M" [] twice > 90 /\ twice <= 260 -> "Q"
          [] OTHER -> "A"
  BY DEF S!NativeFrequency, GapTo
<1> HIDE DEF gap
<1>4. \E d, e \in D : low = gap[d] /\ high = gap[e]
  BY <1>2, MiddleIsBetween
<1> HIDE DEF D, low, high
<1>5. PICK d \in D, e \in D : low = gap[d] /\ high = gap[e]
  BY <1>4
<1>6. low \in Int /\ high \in Int
  BY <1>2, <1>5
<1>7. S!NativeFrequency(days) = IF twice <= 6 THEN "D" ELSE IF twice <= 20 THEN "W"
                                ELSE IF twice <= 90 THEN "M" ELSE IF twice <= 260 THEN "Q" ELSE "A"
  <2>1. twice \in Int /\ ~(S!Cardinality(days) < 2)
    BY <1>1, <1>6
  <2> HIDE DEF twice
  <2> QED
    BY <1>3, <2>1
<1>8. S!Rank(S!NativeFrequency(days)) <= k
  <2>1. S!NativeFrequency(days) # "none"
    BY <1>7
  <2>2. ~(S!Rank(S!NativeFrequency(days)) > S!Rank(S!Frequencies[k]))
    BY <2>1 DEF S!Refused
  <2>3. S!Rank(S!Frequencies[k]) = k
    BY RankOf
  <2>4. S!Rank(S!NativeFrequency(days)) \in Int
    BY <1>7, RankOf
  <2> QED
    BY <2>2, <2>3, <2>4
<1>9. twice <= 2 * upper[k]
  <2>1. upper[1] = 3 /\ upper[2] = 10 /\ upper[3] = 45 /\ upper[4] = 130
    OBVIOUS
  <2>2. twice \in Int
    BY <1>6
  <2> HIDE DEF twice, upper
  <2> QED
    BY <1>7, <1>8, <2>1, <2>2, RankOf
<1>10. low <= upper[k] \/ high <= upper[k]
  <2>1. upper[k] \in Int
    OBVIOUS
  <2> HIDE DEF upper
  <2> QED
    BY <1>6, <1>9, <2>1
<1>11. PICK x \in D : gap[x] <= upper[k]
  BY <1>5, <1>10
<1> HIDE DEF upper
<1> QED
  BY <1>2, <1>11

-----------------------------------------------------------------------------
(* The sources.                                                            *)

\* normalize_hs, hs_sector: a code and what is left of it without its leading zero are padded
\* to the same digits.
THEOREM ZerosComeBack ==
  ASSUME NEW D, NEW code \in Seq(D)
  PROVE  C!HsRestored(code)
<1> SUFFICES ASSUME code # <<>>, Head(code) = 0, Len(code) % 2 = 0
             PROVE  /\ C!HsSector(Tail(code)) = C!HsSector(code)
                    /\ C!DigitsOf(Tail(code)) = C!DigitsOf(code)
  BY DEF C!HsRestored, C!NoCode
<1>1. C!Padded(code) = code
  BY DEF C!Padded
<1>2. C!Padded(Tail(code)) = code
  <2>1. Len(Tail(code)) = Len(code) - 1 /\ Len(code) \in Nat /\ Len(code) > 0
    BY EmptySeq, LenProperties, HeadTailProperties
  <2>2. Len(Tail(code)) % 2 = 1
    <3> DEFINE n == Len(code)
    <3>1. n \in Nat /\ n % 2 = 0
      BY <2>1
    <3> HIDE DEF n
    <3>2. (n - 1) % 2 = 1
      BY ONLY <3>1
    <3> QED
      BY <2>1, <3>2 DEF n
  <2>3. <<0>> \o Tail(code) = code
    BY HeadTailProperties
  <2> QED
    BY <2>2, <2>3 DEF C!Padded
<1>3. \A d : C!NormalizeHs(Tail(code), d) = C!NormalizeHs(code, d)
  BY <1>1, <1>2 DEF C!NormalizeHs
<1>4. C!HsLevels(Tail(code)) = C!HsLevels(code)
  BY <1>3 DEF C!HsLevels
<1> QED
  BY <1>1, <1>2, <1>3, <1>4 DEF C!HsSector, C!DigitsOf

\* normalize_units: the prices and volumes of the sources come to one unit, and stay there.
Plain(f) ==
  /\ f = [k \in DOMAIN f |-> f[k]] /\ {"price", "volume", "vunit"} \subseteq DOMAIN f
  /\ f.vunit \in {"kg", "none"} /\ f.volume \in Int
        /\ f.price.unit \in {"none", "USD/kg", "USD/tonne"}

LEMMA UnitsSettle ==
  ASSUME NEW f, Plain(f)
  PROVE  LET g == C!NormalizeUnits(f)
         IN g.price.unit \in {"none", "USD/kg"} /\ C!NormalizeUnits(g) = g
<1> DEFINE p == C!PriceToPerKg(f.price)
           g == C!NormalizeUnits(f)
<1>1. p.unit \in {"none", "USD/kg"} /\ C!PriceToPerKg(p) = p
  BY DEF C!PriceToPerKg, Plain
<1>2. C!VolumeToKg["kg"] = 1 /\ "kg" \in DOMAIN C!VolumeToKg /\ "none" \notin DOMAIN C!VolumeToKg
  BY DEF C!VolumeToKg
<1>3. \A n \in Int : n * 1 = n
  OBVIOUS
<1> HIDE DEF p
<1>4. ASSUME NEW h, Plain(h)
      PROVE  C!NormalizeUnits(h) = [h EXCEPT !.price = C!PriceToPerKg(h.price)]
  <2> DEFINE volume == IF h.vunit \in DOMAIN C!VolumeToKg /\ h.volume # C!Null
                       THEN h.volume * C!VolumeToKg[h.vunit] ELSE h.volume
             vunit == IF h.vunit \in DOMAIN C!VolumeToKg /\ h.volume # C!Null THEN "kg" ELSE h.vunit
             q == C!PriceToPerKg(h.price)
  <2>1. h = [k \in DOMAIN h |-> h[k]] /\ {"price", "volume", "vunit"} \subseteq DOMAIN h
    BY <1>4 DEF Plain
  <2>2. C!NormalizeUnits(h) = [h EXCEPT !.price = q, !.volume = volume, !.vunit = vunit]
    BY <2>1 DEF C!NormalizeUnits
  <2>3. volume = h.volume /\ vunit = h.vunit
    BY <1>2, <1>3, <1>4 DEF Plain
  <2> HIDE DEF volume, vunit, q
  <2>4. [h EXCEPT !.price = q, !.volume = volume, !.vunit = vunit] = [h EXCEPT !.price = q]
    BY <2>1, <2>3
  <2> QED
    BY <2>2, <2>4 DEF q
<1>5. g = [f EXCEPT !.price = p]
  BY <1>4 DEF p
<1> HIDE DEF g
<1>6. Plain(g) /\ g.price = p
  <2>1. /\ g = [k \in DOMAIN g |-> g[k]] /\ DOMAIN g = DOMAIN f /\ g.price = p
        /\ g.volume = f.volume /\ g.vunit = f.vunit
    BY <1>5 DEF Plain
  <2> QED
    BY <1>1, <2>1 DEF Plain
<1>7. [g EXCEPT !.price = C!PriceToPerKg(g.price)] = g
  BY <1>1, <1>6 DEF Plain
<1> QED
  BY <1>1, <1>4, <1>6, <1>7 DEF g

LEMMA PricesCompare ==
  ASSUME NEW tea, \A r \in tea : r.amount \in Int, NEW fao
  PROVE  C!OnePriceUnit(C!TeaBoardFacts(tea) \cup C!FaostatFacts(fao))
<1>1. ASSUME NEW f \in C!TeaBoardFacts(tea) PROVE Plain(f)
  <2> DEFINE made(r) ==
               [C!Fact("TEA_BOARD", "tea", r.year) EXCEPT !.volume = r.amount * 1000, !.vunit = "kg"]
             kept == {q \in tea : q.metric = "export" /\ q.category = "total" /\ q.amount # C!Null}
  <2>0. C!TeaBoardFacts(tea) = {made(r) : r \in kept} /\ kept \subseteq tea
    BY DEF C!TeaBoardFacts
  <2> HIDE DEF made, kept
  <2>1. PICK r \in tea : f = made(r)
    BY <2>0
  <2> USE DEF made
  <2> DEFINE n == r.amount * 1000
             base == C!Fact("TEA_BOARD", "tea", r.year)
  <2>2. n \in Int
    OBVIOUS
  <2>3. /\ base = [k \in DOMAIN base |-> base[k]]
              /\ {"price", "volume", "vunit"} \subseteq DOMAIN base
        /\ base.price.unit = "none"
    BY DEF C!Fact, C!NoPrice
  <2>4. f = [base EXCEPT !.volume = n, !.vunit = "kg"]
    BY <2>1
  <2> HIDE DEF n, base
  <2>5. /\ f = [k \in DOMAIN f |-> f[k]] /\ DOMAIN f = DOMAIN base
        /\ f.volume = n /\ f.vunit = "kg" /\ f.price = base.price
    BY <2>3, <2>4
  <2> QED
    BY <2>2, <2>3, <2>5 DEF Plain
<1>2. ASSUME NEW f \in C!FaostatFacts(fao) PROVE Plain(f)
  <2>1. PICK r \in fao : f = [C!Fact("FAOSTAT", r.item, r.year) EXCEPT
                                !.price = [of |-> r.amount, by |-> 1, unit |-> "USD/tonne"]]
    BY DEF C!FaostatFacts
  <2> DEFINE p == [of |-> r.amount, by |-> 1, unit |-> "USD/tonne"]
             base == C!Fact("FAOSTAT", r.item, r.year)
  <2>2. p.unit = "USD/tonne"
    OBVIOUS
  <2>3. /\ base = [k \in DOMAIN base |-> base[k]]
              /\ {"price", "volume", "vunit"} \subseteq DOMAIN base
        /\ base.volume = -1 /\ base.vunit = "none"
    BY DEF C!Fact, C!Null
  <2>4. f = [base EXCEPT !.price = p]
    BY <2>1
  <2> HIDE DEF p, base
  <2>5. /\ f = [k \in DOMAIN f |-> f[k]] /\ DOMAIN f = DOMAIN base
        /\ f.volume = -1 /\ f.vunit = "none" /\ f.price = p
    BY <2>3, <2>4
  <2> QED
    BY <2>2, <2>3, <2>5 DEF Plain
<1> QED
  BY <1>1, <1>2, UnitsSettle DEF C!OnePriceUnit

\* load_or_fetch: what is used is fresh or fetched, and the next run finds it again.
THEOREM CacheKeepsFresh ==
  ASSUME NEW c, IsFiniteSet(DOMAIN c.cache), DOMAIN c.cache \subseteq Nat, c.today \in Nat,
         c.maxAge \in Int, c.offline \in BOOLEAN
  PROVE  C!CacheIsFresh(c)
<1> DEFINE age == IF c.offline THEN C!Null ELSE c.maxAge
           recent == {d \in DOMAIN c.cache : C!RecentEnough(d, age, c.today)}
           got == C!LoadOrFetch(c.cache, c.offline, c.maxAge, c.today, c.remote)
           kept == [d \in DOMAIN c.cache \cup {c.today} |->
                      IF d = c.today THEN c.remote ELSE c.cache[d]]
           again == {d \in DOMAIN kept : C!RecentEnough(d, age, c.today)}
<1>1. recent # {} => S!Max(recent) \in recent
  <2>1. IsFiniteSet(recent) /\ recent \subseteq Int
    BY FS_Subset
  <2> QED
    BY <2>1, SeriesBasics
<1>2. C!NewestCached(c.cache, age, c.today) = IF recent = {} THEN C!Null ELSE S!Max(recent)
  BY DEF C!NewestCached, C!Max, S!Max
<1>3. C!Null = -1
  BY DEF C!Null
<1>4. CASE recent # {}
  <2>1. C!NewestCached(c.cache, age, c.today) = S!Max(recent) /\ S!Max(recent) \in DOMAIN c.cache
    BY <1>1, <1>2, <1>4
  <2>2. C!NewestCached(c.cache, age, c.today) # C!Null
    BY <1>3, <2>1
  <2>3. got = [rows |-> c.cache[S!Max(recent)], cache |-> c.cache]
    BY <2>1, <2>2 DEF C!LoadOrFetch
  <2>4. ~(~c.offline /\ \A d \in DOMAIN c.cache : ~C!RecentEnough(d, c.maxAge, c.today))
    BY <1>4
  <2> HIDE DEF got
  <2>5. got.cache = c.cache /\ got.rows = c.cache[S!Max(recent)]
    BY <2>3
  <2> QED
    BY <2>3, <2>4, <2>5 DEF C!CacheIsFresh, got
<1>5. CASE recent = {} /\ c.offline
  <2>1. got = [rows |-> {}, cache |-> c.cache]
    BY <1>2, <1>5 DEF C!LoadOrFetch
  <2> HIDE DEF got
  <2>2. got.cache = c.cache
    BY <2>1
  <2> QED
    BY <1>5, <2>1, <2>2 DEF C!CacheIsFresh, got
<1>6. CASE recent = {} /\ ~c.offline
  <2>1. got = [rows |-> c.remote, cache |-> kept]
    BY <1>2, <1>6 DEF C!LoadOrFetch
  <2>2. \A d \in again : d = c.today
    BY <1>6
  <2>3. IsFiniteSet(again) /\ again \subseteq Int
    <3>1. IsFiniteSet(DOMAIN c.cache \cup {c.today})
      BY FS_AddElement
    <3> QED
      BY <3>1, FS_Subset
  <2>4. C!NewestCached(kept, age, c.today) = IF again = {} THEN C!Null ELSE S!Max(again)
    BY DEF C!NewestCached, C!Max, S!Max
  <2>5. again # {} => S!Max(again) = c.today
    BY <2>2, <2>3, SeriesBasics
  <2>6. C!LoadOrFetch(kept, c.offline, c.maxAge, c.today, c.remote).rows = c.remote
    <3>1. CASE again = {}
      BY <1>6, <2>4, <3>1 DEF C!LoadOrFetch
    <3>2. CASE again # {}
      <4>1. C!NewestCached(kept, age, c.today) = c.today /\ c.today # C!Null
        BY <1>3, <2>4, <2>5, <3>2
      <4>2. kept[c.today] = c.remote
        OBVIOUS
      <4> HIDE DEF kept
      <4> QED
        BY <4>1, <4>2 DEF C!LoadOrFetch
    <3> QED
      BY <3>1, <3>2
  <2>7. \A d \in DOMAIN c.cache : kept[d] = c.cache[d] \/ d = c.today
    OBVIOUS
  <2>8. got.cache = kept /\ got.rows = c.remote
    BY <2>1
  <2> HIDE DEF got, kept
  <2> QED
    BY <2>6, <2>7, <2>8 DEF C!CacheIsFresh, got
<1> QED
  BY <1>4, <1>5, <1>6

\* EDB.fetch: of an item, a market and a year one figure is left, of the newest edition.
Editions(report) ==
  /\ DOMAIN report \subseteq Int
  /\ \A i \in DOMAIN report : /\ report[i].edition \in Int /\ report[i].latest \in Int
                              /\ Len(report[i].values) \in Int
                              /\ DOMAIN report[i].values \subseteq Int

THEOREM NewestIsKept ==
  ASSUME NEW report, Editions(report)
  PROVE  C!NewestEditionWins(report)
<1> DEFINE cells == C!EdbCells(report)
           at(c) == C!Cell(report, c)
           Last(c) == \A d \in cells : C!SameFact(at(c), at(d)) => ~C!Later(report, c, d)
<1>1. ASSUME NEW c \in cells
      PROVE  /\ c = <<c[1], c[2]>> /\ c[1] \in Int /\ c[2] \in Int
             /\ report[c[1]].edition \in Int /\ report[c[1]].latest \in Int
             /\ Len(report[c[1]].values) \in Int
             /\ at(c).year = report[c[1]].latest - (Len(report[c[1]].values) - c[2])
  <2>1. PICK i \in DOMAIN report : \E k \in DOMAIN report[i].values : c = <<i, k>>
    BY DEF C!EdbCells
  <2>4. PICK k \in DOMAIN report[i].values : c = <<i, k>>
    BY <2>1
  <2>2. c[1] = i /\ c[2] = k
    BY <2>4
  <2>3. at(c).year = report[c[1]].latest - (Len(report[c[1]].values) - c[2])
    BY DEF C!Cell, C!EdbFact, C!Fact
  <2> QED
    BY <2>4, <2>2, <2>3 DEF Editions
<1>2. \A f \in C!EdbFacts(report) : \E c \in cells : f = at(c) /\ Last(c)
  BY DEF C!EdbFacts
<1>3. \A f, g, h : /\ C!SameFact(f, g) => C!SameFact(g, f)
                   /\ C!SameFact(f, g) /\ C!SameFact(g, h) => C!SameFact(f, h)
  BY DEF C!SameFact
<1>4. ASSUME NEW c \in cells, Last(c), NEW d \in cells, Last(d), C!SameFact(at(c), at(d))
      PROVE  c = d
  <2>1. ~C!Later(report, c, d) /\ ~C!Later(report, d, c)
    BY <1>3, <1>4
  <2> HIDE DEF cells, at, Last
  <2>2. c[1] = d[1]
    BY <1>1, <2>1 DEF C!Later
  <2>3. at(c).year = at(d).year
    BY <1>4 DEF C!SameFact
  <2>4. c[2] = d[2]
    BY <1>1, <2>2, <2>3
  <2> QED
    BY <1>1, <2>2, <2>4
<1>5. ASSUME NEW c \in cells, Last(c), NEW d \in cells, C!SameFact(at(c), at(d))
      PROVE  report[c[1]].edition >= report[d[1]].edition
  <2>1. ~C!Later(report, c, d)
    BY <1>5
  <2> HIDE DEF cells, at, Last
  <2> QED
    BY <1>1, <2>1 DEF C!Later
<1> SUFFICES ASSUME NEW f \in C!EdbFacts(report), NEW g \in C!EdbFacts(report), C!SameFact(f, g)
             PROVE  /\ f = g
                    /\ \A c \in cells : C!SameFact(f, at(c)) =>
                         \E d \in cells : at(d) = f /\ report[d[1]].edition >= report[c[1]].edition
  BY DEF C!NewestEditionWins
<1>6. PICK c \in cells : f = at(c) /\ Last(c)
  BY <1>2
<1>7. PICK d \in cells : g = at(d) /\ Last(d)
  BY <1>2
<1> HIDE DEF cells, at, Last
<1> QED
  BY <1>4, <1>5, <1>6, <1>7

\* JAAF: a market of the tables is not one of the pie's.
THEOREM TablesApart ==
  ASSUME NEW cells, \A r \in cells : r.month # 0, NEW pie
  PROVE  C!OneTableOfAMarket(cells, pie)
<1> DEFINE Tabled(f) == f.month # 0 /\ f.partner \in {"world", "USA", "GBR"}
           Slice(f) == f.month = 0 /\ f.partner \in {"FRA", "ITA"}
<1>1. ASSUME NEW f \in C!JaafFacts(cells, pie) PROVE Tabled(f) \/ Slice(f)
  <2> DEFINE year == C!MarketWiseYear(C!AnnualRecords(cells), pie)
  <2>1. CASE \E r \in C!AnnualRecords(cells) :
               /\ r.market \in DOMAIN C!JaafPartners
               /\ f = [C!Fact("JAAF", "apparel_textiles", r.year) EXCEPT
                         !.month = r.month, !.partner = C!JaafPartners[r.market], !.value = r.amount]
    <3>1. PICK r \in C!AnnualRecords(cells) :
               /\ r.market \in DOMAIN C!JaafPartners
               /\ f = [C!Fact("JAAF", "apparel_textiles", r.year) EXCEPT
                         !.month = r.month, !.partner = C!JaafPartners[r.market], !.value = r.amount]
      BY <2>1
    <3>2. r.month # 0
      BY DEF C!AnnualRecords
    <3>3. C!JaafPartners[r.market] \in {"world", "USA", "GBR"}
      BY <3>1 DEF C!JaafPartners, C!World
    <3>4. f.month = r.month /\ f.partner = C!JaafPartners[r.market]
      BY <3>1 DEF C!Fact
    <3> QED
      BY <3>2, <3>3, <3>4
  <2>2. CASE \E l \in DOMAIN pie :
               /\ ~C!MarketWiseExcluded(l) /\ C!MarketToIso3(l) # "none"
               /\ f = [C!Fact("JAAF", "apparel_textiles", year) EXCEPT
                         !.partner = C!MarketToIso3(l), !.value = pie[l]]
    <3>1. PICK l \in DOMAIN pie :
               /\ ~C!MarketWiseExcluded(l) /\ C!MarketToIso3(l) # "none"
               /\ f = [C!Fact("JAAF", "apparel_textiles", year) EXCEPT
                         !.partner = C!MarketToIso3(l), !.value = pie[l]]
      BY <2>2
    <3>2. C!MarketToIso3(l) \in {"FRA", "ITA"}
      <4>1. /\ DOMAIN C!Markets = {"us", "usa", "uk", "france", "italy"}
            /\ C!Markets["france"] = "FRA" /\ C!Markets["italy"] = "ITA"
        BY DEF C!Markets
      <4>2. l \in DOMAIN C!Markets /\ l \notin {"us", "usa", "uk"}
        BY <3>1 DEF C!MarketToIso3, C!MarketWiseExcluded
      <4> QED
        BY <4>1, <4>2 DEF C!MarketToIso3
    <3>3. f.month = 0 /\ f.partner = C!MarketToIso3(l)
      BY <3>1 DEF C!Fact
    <3> QED
      BY <3>2, <3>3
  <2> QED
    BY <2>1, <2>2 DEF C!JaafFacts
<1> SUFFICES ASSUME NEW f \in C!JaafFacts(cells, pie), NEW g \in C!JaafFacts(cells, pie),
                    f.partner = g.partner
             PROVE  f.month = 0 <=> g.month = 0
  BY DEF C!OneTableOfAMarket
<1>2. ~(Tabled(f) /\ Slice(g)) /\ ~(Slice(f) /\ Tabled(g))
  OBVIOUS
<1> QED
  BY <1>1, <1>2

LEMMA SourcesTotal ==
  ASSUME NEW f, NEW T, IsFiniteSet(T), \A x \in T : f[x] \in Int
  PROVE  C!SumFunction([x \in T |-> f[x]]) = Sum(f, T)
<1>1. \A h : C!SumFunction(h) = S!SumFunction(h)
  BY DEF C!SumFunction, C!SumFunctionOnSet, C!FoldFunctionOnSet, C!MapThenFoldSet,
         S!SumFunction, S!SumFunctionOnSet, S!FoldFunctionOnSet, S!MapThenFoldSet
<1>2. S!SumFunction([x \in T |-> f[x]]) = Sum(f, T)
  BY SeriesTotal
<1> QED
  BY <1>1, <1>2

\* The rows of one code: a country has one in a year, and the world's is what they come to.
Worth(rows) == [r \in rows |-> C!Either(r.primary, r.fob)]
Countries(rows, year) == {r \in C!DropAggregates(rows) : r.year = year}
OneCode(rows) ==
  /\ IsFiniteSet(rows)
  /\ \A r \in C!DropAggregates(rows) :
       C!ToIso3(r.partner) # "none" /\ Worth(rows)[r] \in Int /\ Worth(rows)[r] # C!Null
  /\ \A q, r \in C!DropAggregates(rows) :
       q.year = r.year /\ C!ToIso3(q.partner) = C!ToIso3(r.partner) => q = r
  /\ \A w \in rows : w.partner = 0 => w.primary = Sum(Worth(rows), Countries(rows, w.year))

\* Comtrade: a year's facts come to the world's row, whatever codes its countries are under.
THEOREM EachCountryOnce ==
  ASSUME NEW rows, OneCode(rows)
  PROVE  C!CountedOnce(rows)
<1> SUFFICES ASSUME NEW w \in rows, w.partner = 0
             PROVE  C!Amount({f \in C!ComtradeFacts(rows) : f.year = w.year
                   /\ f.value # C!Null}) = w.primary
  BY DEF C!CountedOnce
<1> DEFINE all == C!DropAggregates(rows)
           T == Countries(rows, w.year)
           fact == [r \in T |-> C!ComtradeFact(r)]
           facts == {f \in C!ComtradeFacts(rows) : f.year = w.year /\ f.value # C!Null}
           value == [f \in facts |-> f.value]
           worth == Worth(rows)
<1>1. all \subseteq rows /\ T \subseteq all /\ \A r \in all : r \in T <=> r.year = w.year
  BY DEF C!DropAggregates, Countries
<1>2. IsFiniteSet(T)
  BY <1>1, FS_Subset DEF OneCode
<1>3. ASSUME NEW r \in all
      PROVE  LET f == C!ComtradeFact(r)
             IN f.year = r.year /\ f.value = worth[r] /\ f.partner = C!ToIso3(r.partner)
  <2>1. r \in rows
    BY <1>1
  <2> QED
    BY <2>1 DEF C!ComtradeFact, C!Fact, Worth
<1>4. \A r \in all : /\ C!ToIso3(r.partner) # "none" /\ worth[r] \in Int /\ worth[r] # C!Null
  BY DEF OneCode
<1>5. C!ComtradeFacts(rows) = {C!ComtradeFact(r) : r \in all}
  BY <1>4 DEF C!ComtradeFacts
<1> HIDE DEF all, T, worth
<1>6. facts = {fact[r] : r \in T}
  <2>1. \A r \in T : fact[r] = C!ComtradeFact(r) /\ fact[r] \in facts
    BY <1>1, <1>3, <1>4, <1>5
  <2>2. \A f \in facts : \E r \in T : f = fact[r]
    <3> SUFFICES ASSUME NEW f \in facts PROVE \E r \in T : f = fact[r]
      OBVIOUS
    <3>1. PICK r \in all : f = C!ComtradeFact(r)
      BY <1>5
    <3>2. r \in T
      BY <1>1, <1>3, <3>1
    <3> QED
      BY <3>1, <3>2
  <2> HIDE DEF facts, fact
  <2> QED
    BY <2>1, <2>2
<1>7. \A r \in T : worth[r] \in Int /\ value[fact[r]] = worth[r]
  <2> SUFFICES ASSUME NEW r \in T PROVE worth[r] \in Int /\ value[fact[r]] = worth[r]
    OBVIOUS
  <2>1. fact[r] \in facts /\ fact[r] = C!ComtradeFact(r)
    BY <1>6
  <2> HIDE DEF facts, fact
  <2> QED
    BY <1>1, <1>3, <1>4, <2>1
<1>8. \A q, r \in T : fact[q] = fact[r] => q = r
  <2> SUFFICES ASSUME NEW q \in T, NEW r \in T, fact[q] = fact[r] PROVE q = r
    OBVIOUS
  <2>1. q.year = r.year /\ C!ToIso3(q.partner) = C!ToIso3(r.partner) /\ q \in all /\ r \in all
    BY <1>1, <1>3
  <2> QED
    BY <2>1 DEF OneCode, all
<1>9. IsFiniteSet(facts) /\ \A f \in facts : value[f] \in Int
  <2>1. IsFiniteSet({fact[r] : r \in T})
    BY <1>2, ImageFinite
  <2>2. \A r \in T : value[fact[r]] \in Int
    BY <1>7
  <2> HIDE DEF facts, value, fact
  <2> QED
    BY <1>6, <2>1, <2>2
<1> HIDE DEF fact
<1>10. Sum(worth, T) = Sum(value, facts)
  <2> HIDE DEF facts, value
  <2>1. Sum(worth, T) = Sum(value, {fact[r] : r \in T})
    BY <1>2, <1>7, <1>8, SumRenamed
  <2> QED
    BY <1>6, <2>1
<1>11. C!Amount(facts) = Sum(value, facts)
  <2>1. C!Amount(facts) = C!SumFunction(value)
    BY DEF C!Amount
  <2>2. value = [f \in facts |-> value[f]]
    OBVIOUS
  <2> HIDE DEF facts, value
  <2>3. C!SumFunction([f \in facts |-> value[f]]) = Sum(value, facts)
    BY <1>9, SourcesTotal
  <2> QED
    BY <2>1, <2>2, <2>3
<1>12. w.primary = Sum(worth, T)
  BY DEF OneCode, worth, T
<1> HIDE DEF facts
<1> QED
  BY <1>10, <1>11, <1>12 DEF facts

-----------------------------------------------------------------------------
(* The forecasts.                                                          *)

LEMMA ForecastBasics ==
  ASSUME NEW T, IsFiniteSet(T)
  PROVE  /\ X!Cardinality(T) = Cardinality(T) /\ Cardinality(T) \in Nat
         /\ T = {} => Cardinality(T) = 0
         /\ T # {} => Cardinality(T) > 0
         /\ T # {} /\ T \subseteq Int => /\ X!Max(T) \in T /\ \A x \in T : X!Max(T) >= x
                                         /\ X!Min(T) \in T /\ \A x \in T : X!Min(T) <= x
<1>1. X!Cardinality(T) = S!Cardinality(T) /\ X!Max(T) = S!Max(T) /\ X!Min(T) = S!Min(T)
  BY DEF X!Cardinality, S!Cardinality, X!Max, S!Max, X!Min, S!Min
<1> QED
  BY <1>1, SeriesBasics, FS_EmptySet

LEMMA ForecastTotal ==
  ASSUME NEW f, NEW T, IsFiniteSet(T), \A x \in T : f[x] \in Int
  PROVE  X!SumFunction([x \in T |-> f[x]]) = Sum(f, T) /\ Sum(f, T) \in Int
<1>1. \A h : X!SumFunction(h) = S!SumFunction(h)
  BY DEF X!SumFunction, X!SumFunctionOnSet, X!FoldFunctionOnSet, X!MapThenFoldSet,
         S!SumFunction, S!SumFunctionOnSet, S!FoldFunctionOnSet, S!MapThenFoldSet
<1>2. S!SumFunction([x \in T |-> f[x]]) = Sum(f, T) /\ Sum(f, T) \in Int
  BY SeriesTotal
<1> QED
  BY <1>1, <1>2

LEMMA WinnerWins ==
  ASSUME NEW T, IsFiniteSet(T), T # {}, \A m \in T : m.mape \in Int
  PROVE  X!Winner(T) \in T /\ \A o \in T : X!Winner(T).mape <= o.mape
<1> DEFINE mape == [m \in T |-> m.mape]
           A == {mape[m] : m \in T}
<1>1. IsFiniteSet(A)
  BY ImageFinite
<1>2. A # {} /\ A \subseteq Int
  OBVIOUS
<1>3. X!Min(A) \in A /\ \A x \in A : X!Min(A) <= x
  BY <1>1, <1>2, ForecastBasics
<1>4. PICK m \in T : m.mape = X!Min(A)
  BY <1>3
<1>5. \A o \in T : o.mape \in A
  OBVIOUS
<1> HIDE DEF A
<1>6. \E w \in T : \A o \in T : w.mape <= o.mape
  BY <1>3, <1>4, <1>5
<1> QED
  BY <1>6 DEF X!Winner

\* Models on file: finitely many, with an error measured or none.
Library(models) ==
  IsFiniteSet(models) /\ \A m \in models : m.mape \in Int /\ m.complex \in BOOLEAN

\* load_best and _should_select_gbm: one margin, wherever it is applied.
THEOREM MarginIsOne ==
  ASSUME NEW models, Library(models)
  PROVE  X!OneMargin(models)
<1> DEFINE all == X!Scored(models)
           simple == {m \in X!Scored(models) : ~m.complex}
           complex == {m \in X!Scored(models) : m.complex}
           best == X!Winner(X!Scored(models))
           s == X!Winner(simple)
           c == X!Winner(complex)
<1> SUFFICES ASSUME simple # {}, complex # {}
             PROVE  /\ (\E m \in X!LoadBest(models) : m.complex) => X!SelectsGbm(c, simple)
                    /\ X!SelectsGbm(c, simple) /\ c.mape < s.mape =>
                         \E m \in X!LoadBest(models) : m.complex
  BY DEF X!OneMargin
<1>1. all \subseteq models /\ simple \subseteq all /\ complex \subseteq all /\ all # {}
  BY DEF X!Scored
<1>2. IsFiniteSet(all) /\ IsFiniteSet(simple) /\ IsFiniteSet(complex)
  BY <1>1, FS_Subset DEF Library
<1>3. \A m \in all : m.mape \in Int /\ m.complex \in BOOLEAN
  BY <1>1 DEF Library
<1>4. best \in all /\ \A o \in all : best.mape <= o.mape
  BY <1>1, <1>2, <1>3, WinnerWins
<1>5. s \in simple /\ \A o \in simple : s.mape <= o.mape
  BY <1>1, <1>2, <1>3, WinnerWins
<1>6. c \in complex /\ \A o \in complex : c.mape <= o.mape
  BY <1>1, <1>2, <1>3, WinnerWins
<1>7. X!LoadBest(models) = IF best.complex /\ best.mape * 100 > s.mape * 95 THEN {s} ELSE {best}
  BY <1>1 DEF X!LoadBest, X!MARGIN
<1>8. X!SelectsGbm(c, simple) <=> c.mape * 100 <= s.mape * 95
  BY DEF X!SelectsGbm, X!MARGIN
<1>9. /\ \A m \in simple : ~m.complex
      /\ \A m \in complex : m.complex
      /\ \A m \in all : IF m.complex THEN m \in complex ELSE m \in simple
  BY <1>3
<1> HIDE DEF all, simple, complex, best, s, c
<1>10. best.mape \in Int /\ s.mape \in Int /\ c.mape \in Int
  BY <1>1, <1>3, <1>4, <1>5, <1>6
<1>11. ASSUME \E m \in X!LoadBest(models) : m.complex PROVE c.mape * 100 <= s.mape * 95
  <2>1. ~s.complex /\ s \in all
    BY <1>1, <1>5, <1>9
  <2>2. best.complex /\ best.mape * 100 <= s.mape * 95
    BY <1>7, <1>10, <1>11, <2>1
  <2>3. c.mape <= best.mape
    BY <1>4, <1>6, <1>9, <2>2
  <2> QED
    BY <1>10, <2>2, <2>3
<1>12. ASSUME c.mape * 100 <= s.mape * 95, c.mape < s.mape
       PROVE  \E m \in X!LoadBest(models) : m.complex
  <2>1. best.mape <= c.mape
    BY <1>1, <1>4, <1>6
  <2>2. best.complex
    <3>1. ~best.complex => s.mape <= best.mape
      BY <1>4, <1>5, <1>9
    <3> QED
      BY <1>3, <1>4, <1>10, <1>12, <2>1, <3>1
  <2>3. best.mape * 100 <= s.mape * 95
    BY <1>10, <1>12, <2>1
  <2>4. X!LoadBest(models) = {best}
    BY <1>7, <1>10, <2>3
  <2> QED
    BY <2>2, <2>4
<1> QED
  BY <1>8, <1>11, <1>12

\* Growths are compared as fractions: of finitely many with a positive base one is greatest.
LEMMA FasterIsTransitive ==
  ASSUME NEW a \in Int, NEW b \in Int, NEW c \in Int,
         NEW x \in Nat \ {0}, NEW y \in Nat \ {0}, NEW z \in Nat \ {0},
         ~(a * y > b * x), c * y > b * z
  PROVE  ~(a * z > c * x)
<1>1. a * y <= b * x /\ b * z < c * y
  OBVIOUS
<1>2. (a * y) * z <= (b * x) * z
  <2>1. \A l, m \in Int : l <= m => l * z <= m * z
    OBVIOUS
  <2>2. a * y \in Int /\ b * x \in Int
    OBVIOUS
  <2> QED
    BY <1>1, <2>1, <2>2
<1>3. (b * z) * x < (c * y) * x
  <2>1. \A l, m \in Int : l < m => l * x < m * x
    OBVIOUS
  <2>2. b * z \in Int /\ c * y \in Int
    OBVIOUS
  <2> QED
    BY <1>1, <2>1, <2>2
<1>4. (a * z) * y < (c * x) * y
  <2>1. (a * y) * z = (a * z) * y /\ (b * x) * z = (b * z) * x /\ (c * y) * x = (c * x) * y
    OBVIOUS
  <2> DEFINE p == (a * z) * y
             q == (b * z) * x
             r == (c * x) * y
  <2>2. p \in Int /\ q \in Int /\ r \in Int /\ p <= q /\ q < r
    BY <1>2, <1>3, <2>1
  <2> HIDE DEF p, q, r
  <2>3. p < r
    BY <2>2
  <2> QED
    BY <2>3 DEF p, r
<1>5. \A l, m \in Int : l > m => l * y > m * y
  OBVIOUS
<1>6. a * z \in Int /\ c * x \in Int
  OBVIOUS
<1>7. (a * z) * y \in Int /\ (c * x) * y \in Int
  BY <1>6
<1> QED
  BY <1>4, <1>5, <1>6, <1>7

\* _forecast_each: what could be measured is ranked, by what was measured.
THEOREM RankedIsMeasured ==
  ASSUME NEW outs, IsFiniteSet(DOMAIN outs),
         \A i \in DOMAIN outs : outs[i].next \in Int /\ outs[i].last \in Nat \cup {X!Null}
  PROVE  X!RankedOnMeasured(outs)
<1> DEFINE G == X!Growth(outs)
           top(T) == {i \in T : \A j \in T : ~X!Faster(outs, j, i)}
           r == X!Ranking(outs)
<1>1. G \subseteq DOMAIN outs /\ \A i \in G : /\ outs[i].next \in Int /\ outs[i].next # X!Null
                                              /\ outs[i].last \in Nat \ {0}
  BY DEF X!Growth
<1>2. IsFiniteSet(G)
  BY <1>1, FS_Subset
<1>3. X!Cardinality(G) = Cardinality(G) /\ Cardinality(G) \in Nat /\ (G = {} => Cardinality(G) = 0)
  BY <1>2, ForecastBasics
<1>4. r.ranked = IF X!Cardinality(G) < 2 THEN {} ELSE top(G)
  BY DEF X!Ranking
<1>5. r.lacking = DOMAIN outs \ G
  BY DEF X!Ranking
<1> HIDE DEF r, G
<1>6. G # {} => top(G) # {}
  <2> DEFINE Good == {T \in SUBSET G : T # {} => top(T) # {}}
  <2>1. ASSUME NEW T \in SUBSET G, T # {} => T \ {Chosen(T)} \in Good PROVE T \in Good
    <3> SUFFICES ASSUME T # {} PROVE top(T) # {}
      OBVIOUS
    <3> DEFINE x == Chosen(T)
               U == T \ {x}
    <3>1. x \in T /\ U \in Good
      BY <2>1, ChosenOne
    <3> HIDE DEF x
    <3>2. \A i, j \in T :
            X!Faster(outs, i, j) <=> outs[i].next * outs[j].last > outs[j].next * outs[i].last
      BY DEF X!Faster
    <3>3. \A i \in T : outs[i].next \in Int /\ outs[i].last \in Nat \ {0}
      BY <1>1
    <3>4. \A i \in T : ~X!Faster(outs, i, i)
      <4>1. \A i \in T : outs[i].next * outs[i].last \in Int
        BY <3>3
      <4> QED
        BY <3>2, <4>1
    <3>5. CASE U = {}
      BY <3>1, <3>4, <3>5
    <3>6. CASE U # {}
      <4>1. PICK i \in U : \A j \in U : ~X!Faster(outs, j, i)
        BY <3>1, <3>6
      <4>2. CASE X!Faster(outs, x, i)
        <5>1. \A j \in U : ~X!Faster(outs, j, x)
          <6> SUFFICES ASSUME NEW j \in U PROVE ~X!Faster(outs, j, x)
            OBVIOUS
          <6>1. ~X!Faster(outs, j, i)
            BY <4>1
          <6> QED
            BY <3>1, <3>2, <3>3, <4>2, <6>1, FasterIsTransitive
        <5> QED
          BY <3>1, <3>4, <5>1
      <4>3. CASE ~X!Faster(outs, x, i)
        BY <3>1, <4>1, <4>3
      <4> QED
        BY <4>2, <4>3
    <3> QED
      BY <3>5, <3>6
  <2> HIDE DEF Good
  <2>2. SUBSET G \subseteq Good
    BY ONLY <1>2, <2>1, OneByOne
  <2> QED
    BY <2>2 DEF Good
<1>7. \A i \in r.ranked : i \in G
  BY <1>4
<1>8. \A i \in r.ranked : outs[i].last > 0 /\ outs[i].next # X!Null
  BY <1>1, <1>7
<1>9. r.ranked \cap r.lacking = {}
  BY <1>5, <1>7
<1>10. r.ranked = {} => X!Cardinality(DOMAIN outs \ r.lacking) < 2
  <2>1. DOMAIN outs \ r.lacking = G
    BY <1>1, <1>5
  <2>2. ASSUME r.ranked = {} PROVE X!Cardinality(G) < 2
    <3> HIDE DEF top
    <3>1. CASE G = {}
      <4>1. X!Cardinality(G) = 0
        BY <1>3, <3>1
      <4> QED
        BY <4>1
    <3>2. CASE G # {}
      <4>1. top(G) # {}
        BY <1>6, <3>2
      <4> QED
        BY <1>4, <2>2, <4>1
    <3> QED
      BY <3>1, <3>2
  <2> QED
    BY <2>1, <2>2
<1> QED
  BY <1>8, <1>9, <1>10 DEF X!RankedOnMeasured, r

\* A fold k of a backtest is the h years before the k - 1 folds after it.
Fold(n, k, h) == [train |-> n - k * h, test |-> n - (k - 1) * h]
Fits(n, folds, h) == {k \in 1..folds : n - k * h >= 5}

LEMMA FoldsAre ==
  ASSUME NEW n \in Nat, NEW folds \in Nat, NEW h \in Nat \ {0}
  PROVE  /\ X!Folds(n, folds, h) = {Fold(n, k, h) : k \in Fits(n, folds, h)}
         /\ \A k \in Fits(n, folds, h) :
              /\ Fold(n, k, h).train \in Int /\ Fold(n, k, h).test \in Int
              /\ 5 <= Fold(n, k, h).train /\ Fold(n, k, h).test = Fold(n, k, h).train + h
              /\ Fold(n, k, h).test <= n
         /\ \A k, l \in Fits(n, folds, h) : k < l => Fold(n, l, h).test <= Fold(n, k, h).train
         /\ Fits(n, folds, h) # {} => 1 \in Fits(n, folds, h) /\ Fold(n, 1, h).test = n
<1> DEFINE K == Fits(n, folds, h)
<1>1. X!Folds(n, folds, h) = {Fold(n, k, h) : k \in K}
  BY DEF X!Folds, X!MIN_TRAIN, Fold, Fits
<1>2. ASSUME NEW k \in K
      PROVE  /\ k \in 1..folds /\ k * h \in Int /\ (k - 1) * h = k * h - h /\ h <= k * h
             /\ Fold(n, k, h).train = n - k * h /\ Fold(n, k, h).test = n - k * h + h
             /\ n - k * h >= 5
  <2>1. k \in 1..folds /\ n - k * h >= 5
    BY DEF Fits
  <2>2. k \in Int /\ k >= 1
    BY <2>1
  <2>3. k * h \in Int /\ (k - 1) * h = k * h - h
    BY <2>2
  <2>4. (k - 1) * h >= 0
    <3>1. k - 1 \in Nat
      BY <2>2
    <3>2. \A l, m \in Nat : l * m >= 0
      OBVIOUS
    <3> QED
      BY <3>1, <3>2
  <2>5. Fold(n, k, h).train = n - k * h /\ Fold(n, k, h).test = n - (k - 1) * h
    BY DEF Fold
  <2> DEFINE p == k * h
  <2>6. p \in Int /\ (k - 1) * h = p - h /\ p - h >= 0
    BY <2>3, <2>4
  <2> HIDE DEF p
  <2>7. h <= p /\ n - (p - h) = n - p + h
    BY <2>6
  <2> QED
    BY <2>1, <2>3, <2>5, <2>6, <2>7 DEF p
<1> HIDE DEF K
<1>3. ASSUME NEW k \in K
      PROVE  /\ Fold(n, k, h).train \in Int /\ Fold(n, k, h).test \in Int
             /\ 5 <= Fold(n, k, h).train /\ Fold(n, k, h).test = Fold(n, k, h).train + h
             /\ Fold(n, k, h).test <= n
  <2> DEFINE p == k * h
  <2>1. p \in Int /\ h <= p /\ n - p >= 5 /\ Fold(n, k, h).train = n - p
          /\ Fold(n, k, h).test = n - p + h
    BY <1>2
  <2> HIDE DEF p
  <2> QED
    BY <2>1
<1>4. ASSUME NEW k \in K, NEW l \in K, k < l PROVE Fold(n, l, h).test <= Fold(n, k, h).train
  <2>1. k * h <= (l - 1) * h
    <3>1. k \in Int /\ l - 1 \in Int /\ k <= l - 1
      BY <1>2, <1>4
    <3>2. \A i, j \in Int : i <= j => i * h <= j * h
      OBVIOUS
    <3> QED
      BY <3>1, <3>2
  <2> DEFINE p == k * h
             q == l * h
  <2>2. p \in Int /\ q \in Int /\ p <= q - h /\ Fold(n, l, h).test = n - q + h
          /\ Fold(n, k, h).train = n - p
    BY <1>2, <2>1
  <2> HIDE DEF p, q
  <2> QED
    BY <2>2
<1>5. ASSUME K # {} PROVE 1 \in K /\ Fold(n, 1, h).test = n
  <2>1. PICK k \in K : TRUE
    BY <1>5
  <2>2. 1 \in 1..folds
    BY <1>2
  <2>3. n - 1 * h >= 5
    <3> DEFINE p == k * h
    <3>1. p \in Int /\ h <= p /\ n - p >= 5
      BY <1>2
    <3> HIDE DEF p
    <3> QED
      BY <3>1
  <2>4. n - (1 - 1) * h = n
    OBVIOUS
  <2> QED
    BY <2>2, <2>3, <2>4 DEF K, Fits, Fold
<1> QED
  BY <1>1, <1>3, <1>4, <1>5 DEF K

\* _folds, summarize: no fold sees what it is tested on, and each year is tested once.
THEOREM FoldsDoNotLeak ==
  ASSUME NEW n \in Nat, NEW folds \in Nat, NEW h \in Nat \ {0}
  PROVE  X!NoLeak(n, folds, h)
<1> DEFINE K == Fits(n, folds, h)
           f(k) == Fold(n, k, h)
           all == X!Folds(n, folds, h)
           tested == X!Tested(n, folds, h, all)
           one == [y \in tested |-> 1]
           size == [g \in all |-> h]
           its(g) == (g.train + 1)..g.test
           fold == [y \in tested |-> CHOOSE g \in all : y \in its(g)]
<1>1. /\ all = {f(k) : k \in K}
      /\ \A k \in K : /\ f(k).train \in Int /\ f(k).test \in Int /\ 5 <= f(k).train
                      /\ f(k).test = f(k).train + h /\ f(k).test <= n
      /\ \A k, l \in K : k < l => f(l).test <= f(k).train
      /\ K # {} => 1 \in K /\ f(1).test = n
  BY FoldsAre
<1>2. K \in SUBSET (1..folds) /\ K \subseteq Int
  BY DEF Fits
<1>3. IsFiniteSet(K)
  <2> DEFINE U == 1..folds
  <2>1. IsFiniteSet(U)
    BY UpTo
  <2>2. K \in SUBSET U
    BY <1>2
  <2> HIDE DEF U, K
  <2> QED
    BY <2>1, <2>2, FS_Subset
<1>4. tested = {y \in 1..n : \E g \in all : g.train < y /\ y <= g.test}
  BY DEF X!Tested
<1> HIDE DEF K, f, all, tested
<1>5. \A g \in all : /\ g.train \in Int /\ g.test \in Int /\ 5 <= g.train
                     /\ g.test = g.train + h /\ g.test <= n
  BY <1>1
<1>6. \A g, e \in all : g # e => g.test <= e.train \/ e.test <= g.train
  <2> SUFFICES ASSUME NEW k \in K, NEW l \in K, f(k) # f(l)
               PROVE  f(k).test <= f(l).train \/ f(l).test <= f(k).train
    BY <1>1
  <2>1. k # l /\ k \in Int /\ l \in Int
    BY <1>2
  <2>2. k < l \/ l < k
    BY <2>1
  <2> QED
    BY <1>1, <2>2
<1>7. IsFiniteSet(all)
  <2> DEFINE F1 == [k \in K |-> f(k)]
  <2>1. IsFiniteSet({F1[k] : k \in K})
    BY <1>3, ImageFinite
  <2>2. all = {F1[k] : k \in K}
    BY <1>1
  <2> QED
    BY <2>1, <2>2
<1>8. all # {} => \E g \in all : g.test = n
  BY <1>1
<1>9. \A g \in all : IsFiniteSet(its(g)) /\ Cardinality(its(g)) = h
  <2> SUFFICES ASSUME NEW g \in all PROVE IsFiniteSet(its(g)) /\ Cardinality(its(g)) = h
    OBVIOUS
  <2>1. g.train + 1 \in Int /\ g.test \in Int
    BY <1>5
  <2>2. /\ IsFiniteSet(its(g))
        /\ Cardinality(its(g)) = IF g.train + 1 > g.test THEN 0 ELSE g.test - (g.train + 1) + 1
    BY <2>1, FS_Interval
  <2> HIDE DEF its
  <2> QED
    BY <1>5, <2>2
<1>10. \A g \in all : \A y : y \in its(g) <=> y \in Int /\ g.train < y /\ y <= g.test
  BY <1>5
<1> HIDE DEF its
<1>11. \A y : y \in tested <=> \E g \in all : y \in its(g)
  <2>1. ASSUME NEW y \in tested PROVE \E g \in all : y \in its(g)
    BY <1>4, <1>10
  <2>2. ASSUME NEW g \in all, NEW y \in its(g) PROVE y \in tested
    <3>1. y \in 1..n
      BY <1>5, <1>10
    <3> QED
      BY <1>4, <1>10, <3>1
  <2> QED
    BY <2>1, <2>2
<1>12. \A y \in tested : fold[y] \in all /\ y \in its(fold[y])
  BY <1>11
<1>13. \A y \in tested : \A g \in all : y \in its(g) => fold[y] = g
  <2> SUFFICES ASSUME NEW y \in tested, NEW g \in all, y \in its(g), fold[y] # g PROVE FALSE
    OBVIOUS
  <2>1. fold[y] \in all /\ y \in its(fold[y])
    BY <1>12
  <2> HIDE DEF fold
  <2>2. fold[y].test <= g.train \/ g.test <= fold[y].train
    BY <1>6, <2>1
  <2> QED
    BY <1>5, <1>10, <2>1, <2>2
<1>14. \A g \in all : {y \in tested : fold[y] = g} = its(g)
  BY <1>11, <1>12, <1>13
<1> HIDE DEF fold
<1>15. IsFiniteSet(tested)
  <2> DEFINE U == 1..n
  <2>1. IsFiniteSet(U)
    BY UpTo
  <2>2. tested \in SUBSET U
    BY <1>4
  <2> HIDE DEF U
  <2> QED
    BY <2>1, <2>2, FS_Subset
<1>16. Cardinality(tested) = h * Cardinality(all)
  <2>1. \A y \in tested : one[y] \in Int /\ one[y] = 1
    OBVIOUS
  <2>2. \A g \in all : size[g] \in Int /\ size[g] = h
    OBVIOUS
  <2> HIDE DEF one, size
  <2>3. \A g \in all : size[g] = Sum(one, {y \in tested : fold[y] = g})
    <3> SUFFICES ASSUME NEW g \in all PROVE h = Sum(one, its(g))
      BY <1>14, <2>2
    <3>1. \A y \in its(g) : one[y] = 1
      BY <1>11, <2>1
    <3>2. Sum(one, its(g)) = 1 * Cardinality(its(g))
      BY <1>9, <3>1, SumConstant
    <3> QED
      BY <1>9, <3>2
  <2>4. Sum(one, tested) = Sum(size, all)
    BY <1>7, <1>12, <1>15, <2>1, <2>3, SumParts
  <2>5. Sum(one, tested) = 1 * Cardinality(tested)
    BY <1>15, <2>1, SumConstant
  <2>6. Sum(size, all) = h * Cardinality(all)
    BY <1>7, <2>2, SumConstant
  <2>7. Cardinality(tested) \in Nat
    BY <1>15, ForecastBasics
  <2>8. 1 * Cardinality(tested) = Cardinality(tested)
    BY <2>7
  <2> QED
    BY ONLY <2>4, <2>5, <2>6, <2>8
<1>17. X!Cardinality(tested) = Cardinality(tested) /\ X!Cardinality(all) = Cardinality(all)
  BY <1>7, <1>15, ForecastBasics
<1>18. \A g \in all : X!MIN_TRAIN <= g.train /\ g.train < g.test /\ g.test <= n
  <2>1. X!MIN_TRAIN = 5
    BY DEF X!MIN_TRAIN
  <2> QED
    BY <1>5, <2>1
<1> QED
  BY <1>6, <1>8, <1>16, <1>17, <1>18 DEF X!NoLeak, all, tested

\* Series: finitely many years, at least two, of whole numbers.
YearSeries(series) ==
  /\ IsFiniteSet(DOMAIN series) /\ DOMAIN series \subseteq Int
  /\ \A y \in DOMAIN series : series[y] \in Int

LEMMA StepsAre ==
  ASSUME NEW series, YearSeries(series), DOMAIN series # {}
  PROVE  /\ IsFiniteSet(X!Steps(series)) /\ X!Steps(series) \subseteq DOMAIN series
         /\ X!Last(series) \in DOMAIN series /\ \A y \in DOMAIN series : X!Last(series) >= y
         /\ X!Cardinality(X!Steps(series)) = Cardinality(X!Steps(series))
         /\ \A y \in X!Steps(series) :
              /\ X!NextYear(series, y) \in DOMAIN series /\ X!NextYear(series, y) > y
              /\ \A z \in DOMAIN series : z > y => X!NextYear(series, y) <= z
<1> DEFINE D == DOMAIN series
           last == X!Last(series)
           later(y) == {z \in D : z > y}
<1>1. IsFiniteSet(D) /\ D \subseteq Int
  BY DEF YearSeries
<1>2. last \in D /\ \A y \in D : last >= y
  BY <1>1, ForecastBasics DEF X!Last
<1> HIDE DEF last
<1>3. X!Steps(series) = D \ {last}
  BY DEF X!Steps, last
<1>4. IsFiniteSet(X!Steps(series)) /\ X!Steps(series) \subseteq D
  BY <1>1, <1>3, FS_Subset
<1>5. ASSUME NEW y \in X!Steps(series)
      PROVE  /\ X!NextYear(series, y) \in D /\ X!NextYear(series, y) > y
             /\ \A z \in D : z > y => X!NextYear(series, y) <= z
  <2>1. y \in D /\ y # last
    BY <1>3
  <2>2. last > y
    BY <1>1, <1>2, <2>1
  <2>3. last \in later(y) /\ IsFiniteSet(later(y)) /\ later(y) \subseteq Int
    BY <1>1, <1>2, <2>2, FS_Subset
  <2>4. X!Min(later(y)) \in later(y) /\ \A z \in later(y) : X!Min(later(y)) <= z
    BY <2>3, ForecastBasics
  <2>5. X!NextYear(series, y) = X!Min(later(y))
    BY DEF X!NextYear
  <2> QED
    BY <2>4, <2>5
<1>6. X!Cardinality(X!Steps(series)) = Cardinality(X!Steps(series))
  BY <1>4, ForecastBasics
<1> QED
  BY <1>2, <1>4, <1>5, <1>6 DEF last

\* _Drift and _drift_forecast: without a gap a year is an observation.
LEMMA DriftsAgree ==
  ASSUME NEW series, YearSeries(series), DOMAIN series # {}
  PROVE  X!BaselinesAgree(series)
<1> DEFINE steps == X!Steps(series)
           gap == [y \in steps |-> X!NextYear(series, y) - y]
<1> SUFFICES ASSUME \A y \in X!First(series)..X!Last(series) : y \in DOMAIN series
             PROVE  X!YearlyChange(series) = X!ChangeOfObservations(series)
  BY DEF X!BaselinesAgree
<1>1. X!First(series) \in DOMAIN series /\ \A y \in DOMAIN series : X!First(series) <= y
  BY ForecastBasics DEF X!First, YearSeries
<1>2. \A y \in DOMAIN series : y \in Int
  BY DEF YearSeries
<1>3. /\ IsFiniteSet(steps) /\ steps \subseteq DOMAIN series
      /\ X!Last(series) \in DOMAIN series /\ \A y \in DOMAIN series : X!Last(series) >= y
      /\ X!Cardinality(steps) = Cardinality(steps)
      /\ \A y \in steps : /\ X!NextYear(series, y) \in DOMAIN series /\ X!NextYear(series, y) > y
                          /\ \A z \in DOMAIN series : z > y => X!NextYear(series, y) <= z
  BY StepsAre
<1>4. \A y \in steps : X!NextYear(series, y) - y = 1
  <2> SUFFICES ASSUME NEW y \in steps PROVE X!NextYear(series, y) - y = 1
    OBVIOUS
  <2> DEFINE next == X!NextYear(series, y)
             first == X!First(series)
             last == X!Last(series)
  <2>1. /\ next \in DOMAIN series /\ next > y /\ y \in DOMAIN series
        /\ \A z \in DOMAIN series : z > y => next <= z
    BY <1>3
  <2>2. first \in Int /\ last \in Int /\ first <= y /\ next <= last /\ next \in Int /\ y \in Int
    BY <1>1, <1>2, <1>3, <2>1
  <2> HIDE DEF next, first, last
  <2>3. y + 1 \in first..last
    BY <2>1, <2>2
  <2>4. y + 1 \in DOMAIN series
    BY <2>3 DEF first, last
  <2> QED
    BY <2>1, <2>2, <2>4 DEF next
<1> HIDE DEF steps
<1>5. \A y \in steps : gap[y] = 1 /\ gap[y] \in Int
  BY <1>4
<1>6. gap = [y \in steps |-> gap[y]]
  OBVIOUS
<1>7. X!YearlyChange(series).by = X!SumFunction(gap)
  BY DEF X!YearlyChange, steps
<1> HIDE DEF gap
<1>8. X!SumFunction([y \in steps |-> gap[y]]) = Sum(gap, steps)
  BY <1>3, <1>5, ForecastTotal
<1>9. Sum(gap, steps) = 1 * Cardinality(steps) /\ Cardinality(steps) \in Nat
  BY <1>3, <1>5, SumConstant, FS_CardinalityType
<1>10. X!YearlyChange(series).by = X!Cardinality(steps)
  BY <1>3, <1>6, <1>7, <1>8, <1>9
<1> QED
  BY <1>10 DEF X!YearlyChange, X!ChangeOfObservations, steps

LEMMA RootGrows ==
  ASSUME NEW n \in Nat, NEW m \in Nat, n <= m
  PROVE  X!Root(n) \in Nat /\ X!Root(m) \in Nat /\ X!Root(n) <= X!Root(m)
<1> DEFINE small(k) == {r \in 0..k : r * r <= k}
<1>1. ASSUME NEW k \in Nat
      PROVE  X!Root(k) = X!Max(small(k)) /\ X!Max(small(k)) \in small(k)
            /\ \A r \in small(k) : X!Max(small(k)) >= r
  <2>1. 0 \in small(k)
    OBVIOUS
  <2>2. IsFiniteSet(small(k)) /\ small(k) \subseteq Int
    <3>1. 0 \in Int /\ k \in Int
      OBVIOUS
    <3>2. IsFiniteSet(0..k)
      BY <3>1, FS_Interval
    <3> QED
      BY <3>2, FS_Subset
  <2>3. X!Max(small(k)) \in small(k) /\ \A r \in small(k) : X!Max(small(k)) >= r
    BY <2>1, <2>2, ForecastBasics
  <2> QED
    BY <2>3 DEF X!Root
<1>2. small(n) \subseteq small(m)
  <2> SUFFICES ASSUME NEW r \in 0..n, r * r <= n PROVE r \in 0..m /\ r * r <= m
    OBVIOUS
  <2>1. r * r \in Int
    OBVIOUS
  <2> QED
    BY <2>1
<1>3. \A k \in Nat : small(k) \subseteq Nat
  OBVIOUS
<1> HIDE DEF small
<1> QED
  BY <1>1, <1>2, <1>3

\* A band of any width around whole numbers holds them, and a wider one later.
Holds(points, n) ==
  /\ DOMAIN points = 1..n
  /\ \A h \in 1..n : /\ points[h].point \in Int /\ points[h].lower \in Int
        /\ points[h].upper \in Int
                     /\ points[h].lower <= points[h].point /\ points[h].point <= points[h].upper
Widens(points, n) ==
  \A h \in 1..(n - 1) : points[h].upper - points[h].lower <= points[h + 1].upper - points[h + 1].lower

LEMMA BandsHold ==
  ASSUME NEW n \in Nat, NEW points \in [1..n -> Int], NEW spread \in Nat
  PROVE  LET b == X!Banded(points, spread) IN Holds(b, n) /\ Widens(b, n)
<1> DEFINE b == X!Banded(points, spread)
           w(h) == X!Root(spread * spread * h)
<1>1. ASSUME NEW h \in 1..n, NEW k \in 1..n, h <= k
      PROVE  w(h) \in Nat /\ w(h) <= w(k) /\ w(k) \in Nat
  <2> DEFINE s == spread * spread
  <2>1. s \in Nat
    OBVIOUS
  <2> HIDE DEF s
  <2>2. s * h \in Nat /\ s * k \in Nat /\ s * h <= s * k
    <3>1. \A i, j, l \in Nat : i * j \in Nat /\ (j <= l => i * j <= i * l)
      OBVIOUS
    <3>2. h \in Nat /\ k \in Nat
      OBVIOUS
    <3> QED
      BY ONLY <1>1, <2>1, <3>1, <3>2
  <2> QED
    BY <2>2, RootGrows DEF s
<1>2. /\ DOMAIN b = 1..n
      /\ \A h \in 1..n :
           b[h] = [point |-> points[h], lower |-> points[h] - w(h), upper |-> points[h] + w(h)]
  BY DEF X!Banded
<1>3. \A h \in 1..n : w(h) \in Nat /\ points[h] \in Int
  BY <1>1
<1> HIDE DEF b, w
<1>4. Holds(b, n)
  BY <1>2, <1>3 DEF Holds
<1>5. Widens(b, n)
  <2> SUFFICES ASSUME NEW h \in 1..(n - 1)
               PROVE  b[h].upper - b[h].lower <= b[h + 1].upper - b[h + 1].lower
    BY DEF Widens
  <2>1. h \in 1..n /\ h + 1 \in 1..n /\ h <= h + 1
    OBVIOUS
  <2>2. w(h) <= w(h + 1)
    BY <1>1, <2>1
  <2> QED
    BY <1>2, <1>3, <2>1, <2>2
<1> QED
  BY <1>4, <1>5 DEF b

LEMMA PredictedSurrounds ==
  ASSUME NEW n \in Nat, NEW p, Holds(p, n), \A h \in 1..n : p[h] = [k \in DOMAIN p[h] |-> p[h][k]]
  PROVE  X!Surround(X!Predicted(p))
<1>1. DOMAIN X!Predicted(p) = 1..n
  BY DEF X!Predicted, Holds
<1>2. ASSUME NEW h \in 1..n
      PROVE  LET q == X!Predicted(p)[h]
             IN (q.lower <= q.point \/ q.point < 0) /\ q.point <= q.upper
  <2> DEFINE q == X!Predicted(p)[h]
  <2>1. q = [p[h] EXCEPT !.lower = X!Most(0, @)]
    BY <1>1 DEF X!Predicted, Holds
  <2>2. /\ p[h].point \in Int /\ p[h].lower \in Int /\ p[h].upper \in Int
        /\ p[h].lower <= p[h].point /\ p[h].point <= p[h].upper
    BY DEF Holds
  <2>3. q.point = p[h].point /\ q.upper = p[h].upper
          /\ (q.lower = p[h].lower \/ q.lower = X!Most(0, p[h].lower))
    BY <2>1
  <2> HIDE DEF q
  <2>4. q.lower <= q.point \/ q.point < 0
    BY <2>2, <2>3 DEF X!Most
  <2> QED
    BY <2>2, <2>3, <2>4 DEF q
<1> QED
  BY <1>1, <1>2 DEF X!Surround

LEMMA Divided ==
  ASSUME NEW s \in Int, NEW n \in Nat \ {0}, NEW a \in Int, NEW b \in Int,
         a * n <= s, s <= b * n
  PROVE  s \div n \in Int /\ a <= s \div n /\ s \div n <= b
<1> DEFINE q == s \div n
<1>1. q \in Int /\ q * n <= s /\ s < (q + 1) * n
  OBVIOUS
<1> HIDE DEF q
<1>2. \A i, j \in Int : i < j => i * n + n <= j * n
  OBVIOUS
<1>3. a * n \in Int /\ b * n \in Int /\ q * n \in Int /\ (q + 1) * n \in Int
  BY <1>1
<1>4. a <= q
  <2> SUFFICES ASSUME q < a PROVE FALSE
    BY <1>1
  <2>1. (q + 1) * n <= a * n
    <3>1. \A i, j \in Int : i <= j => i * n <= j * n
      OBVIOUS
    <3>2. q + 1 \in Int /\ q + 1 <= a
      BY <1>1
    <3> QED
      BY <3>1, <3>2
  <2> DEFINE x == (q + 1) * n
             y == a * n
  <2>2. x \in Int /\ y \in Int /\ x <= y /\ y <= s /\ s < x
    BY <1>1, <1>3, <2>1
  <2> HIDE DEF x, y
  <2> QED
    BY <2>2
<1>5. q <= b
  <2> SUFFICES ASSUME b < q PROVE FALSE
    BY <1>1
  <2>1. b * n + n <= q * n
    BY <1>1, <1>2
  <2> DEFINE x == q * n
             y == b * n
  <2>2. x \in Int /\ y \in Int /\ y + n <= x /\ s <= y /\ x <= s
    BY <1>1, <1>3, <2>1
  <2> HIDE DEF x, y
  <2> QED
    BY <2>2
<1> QED
  BY <1>1, <1>4, <1>5 DEF q

LEMMA FirstNumbers ==
  ASSUME NEW n \in Nat
  PROVE  IsFiniteSet(1..n) /\ Cardinality(1..n) = n
<1>1. 1 \in Int /\ n \in Int
  OBVIOUS
<1>2. IsFiniteSet(1..n) /\ Cardinality(1..n) = IF 1 > n THEN 0 ELSE n - 1 + 1
  BY <1>1, FS_Interval
<1> QED
  BY <1>2

\* The year's change of a series and the observation's: whole numbers, over at least one.
LEMMA ChangesTyped ==
  ASSUME NEW series, YearSeries(series), Cardinality(DOMAIN series) > 1
  PROVE  /\ X!YearlyChange(series).of \in Int /\ X!YearlyChange(series).by \in Nat \ {0}
         /\ X!ChangeOfObservations(series).of \in Int
         /\ X!ChangeOfObservations(series).by \in Nat \ {0}
         /\ X!Last(series) \in DOMAIN series
<1> DEFINE steps == X!Steps(series)
           last == X!Last(series)
           change == [y \in steps |-> series[X!NextYear(series, y)] - series[y]]
           gap == [y \in steps |-> X!NextYear(series, y) - y]
           one == [y \in steps |-> 1]
<1>1. DOMAIN series # {}
  BY FS_EmptySet
<1>2. /\ IsFiniteSet(steps) /\ steps \subseteq DOMAIN series
      /\ last \in DOMAIN series
      /\ X!Cardinality(steps) = Cardinality(steps)
      /\ \A y \in steps : X!NextYear(series, y) \in DOMAIN series /\ X!NextYear(series, y) > y
  BY <1>1, StepsAre
<1>3. steps = DOMAIN series \ {last}
  BY DEF X!Steps
<1>4. \A y \in DOMAIN series : y \in Int /\ series[y] \in Int
  BY DEF YearSeries
<1> HIDE DEF steps, last
<1>5. steps # {}
  <2>1. Cardinality({last}) = 1
    BY FS_Singleton
  <2>2. DOMAIN series # {last}
    BY <2>1
  <2> QED
    BY <1>1, <1>3, <2>2
<1>6. \A y \in steps : change[y] \in Int /\ gap[y] \in Int /\ 1 <= gap[y]
  BY <1>2, <1>4
<1>7. change = [y \in steps |-> change[y]] /\ gap = [y \in steps |-> gap[y]]
  OBVIOUS
<1>8. /\ X!YearlyChange(series).of = X!SumFunction(change)
      /\ X!YearlyChange(series).by = X!SumFunction(gap)
      /\ X!ChangeOfObservations(series).of = X!SumFunction(change)
      /\ X!ChangeOfObservations(series).by = X!Cardinality(steps)
  BY DEF X!YearlyChange, X!ChangeOfObservations, steps
<1>9. one \in [steps -> Int] /\ gap \in [steps -> Int] /\ \A y \in steps : one[y] = 1
        /\ one[y] <= gap[y]
  BY <1>6
<1> HIDE DEF change, gap, one
<1>10. X!SumFunction([y \in steps |-> change[y]]) \in Int
  BY <1>2, <1>6, ForecastTotal
<1>11. X!SumFunction([y \in steps |-> gap[y]]) = Sum(gap, steps) /\ Sum(gap, steps) \in Int
  BY <1>2, <1>6, ForecastTotal
<1>12. Sum(one, steps) <= Sum(gap, steps)
  BY <1>2, <1>9, SumMonotone
<1>13. Sum(one, steps) = 1 * Cardinality(steps)
  BY <1>2, <1>9, SumConstant
<1>14. Cardinality(steps) \in Nat /\ Cardinality(steps) > 0
  BY <1>2, <1>5, ForecastBasics
<1>15. Sum(gap, steps) \in Nat \ {0}
  BY <1>11, <1>12, <1>13, <1>14
<1>16. X!YearlyChange(series).of \in Int /\ X!ChangeOfObservations(series).of \in Int
  BY <1>7, <1>8, <1>10
<1>17. X!YearlyChange(series).by \in Nat \ {0}
  BY <1>7, <1>8, <1>11, <1>15
<1>18. X!ChangeOfObservations(series).by \in Nat \ {0}
  BY <1>2, <1>8, <1>14
<1> QED
  BY <1>2, <1>16, <1>17, <1>18 DEF last

LEMMA DriftedTyped ==
  ASSUME NEW series, YearSeries(series), X!Last(series) \in DOMAIN series, NEW n \in Nat,
         NEW change, change.of \in Int, change.by \in Nat \ {0}
  PROVE  X!Drifted(series, change, n) \in [1..n -> Int] /\ X!Naive(series, n) \in [1..n -> Int]
<1>1. series[X!Last(series)] \in Int
  BY DEF YearSeries
<1>2. \A h \in 1..n : (change.of * h) \div change.by \in Int
  OBVIOUS
<1>3. X!Drifted(series, change, n) \in [1..n -> Int]
  <2>1. \A h \in 1..n : series[X!Last(series)] + (change.of * h) \div change.by \in Int
    BY <1>1, <1>2
  <2> QED
    BY <2>1 DEF X!Drifted
<1>4. X!Naive(series, n) \in [1..n -> Int]
  BY <1>1 DEF X!Naive
<1> QED
  BY <1>3, <1>4

\* GradientBoostedModel: steps that hold their median, added up.
LEMMA BoostedHolds ==
  ASSUME NEW last \in Int, NEW n \in Nat, NEW q, DOMAIN q = 1..n,
         \A i \in 1..n : q[i][1] \in Int /\ q[i][2] \in Int /\ q[i][3] \in Int
  PROVE  LET b == X!Boosted(last, q)
         IN /\ Holds(b, n) /\ Widens(b, n)
            /\ \A h \in 1..n : b[h] = [point |-> b[h].point, lower |-> b[h].lower, upper |-> b[h].upper]
<1> DEFINE N == 1..n
           middle == [i \in DOMAIN q |-> q[i][2]]
           low == [i \in DOMAIN q |-> X!Least(q[i][1], q[i][2])]
           high == [i \in DOMAIN q |-> X!Most(q[i][3], q[i][2])]
           b == X!Boosted(last, q)
<1>1. \A i \in N : /\ low[i] \in Int /\ middle[i] \in Int /\ high[i] \in Int
                   /\ low[i] <= middle[i] /\ middle[i] <= high[i]
  BY DEF X!Least, X!Most
<1>2. /\ DOMAIN b = N
      /\ \A h \in N : b[h] = [point |-> last + X!SumFunction([i \in 1..h |-> middle[i]]),
                              lower |-> last + X!SumFunction([i \in 1..h |-> low[i]]),
                              upper |-> last + X!SumFunction([i \in 1..h |-> high[i]])]
  BY DEF X!Boosted
<1>3. low \in [N -> Int] /\ middle \in [N -> Int] /\ high \in [N -> Int]
  BY <1>1
<1> HIDE DEF low, middle, high, b
<1>4. ASSUME NEW h \in N
      PROVE  /\ IsFiniteSet(1..h)
             /\ \A i \in 1..h : i \in N
             /\ X!SumFunction([i \in 1..h |-> middle[i]]) = Sum(middle, 1..h)
                   /\ Sum(middle, 1..h) \in Int
             /\ X!SumFunction([i \in 1..h |-> low[i]]) = Sum(low, 1..h) /\ Sum(low, 1..h) \in Int
             /\ X!SumFunction([i \in 1..h |-> high[i]]) = Sum(high, 1..h) /\ Sum(high, 1..h) \in Int
             /\ Sum(low, 1..h) <= Sum(middle, 1..h) /\ Sum(middle, 1..h) <= Sum(high, 1..h)
  <2> DEFINE U == 1..h
             l1 == [i \in U |-> low[i]]
             m1 == [i \in U |-> middle[i]]
             h1 == [i \in U |-> high[i]]
  <2>1. IsFiniteSet(U) /\ \A i \in U : i \in N
    BY FirstNumbers
  <2> HIDE DEF U
  <2>2. /\ l1 \in [U -> Int] /\ m1 \in [U -> Int] /\ h1 \in [U -> Int]
        /\ \A i \in U : l1[i] = low[i] /\ m1[i] = middle[i] /\ h1[i] = high[i]
        /\ \A i \in U : l1[i] <= m1[i] /\ m1[i] <= h1[i]
        /\ \A i \in U : low[i] \in Int /\ middle[i] \in Int /\ high[i] \in Int
    BY <1>1, <2>1
  <2> HIDE DEF l1, m1, h1
  <2>3. /\ X!SumFunction([i \in U |-> middle[i]]) = Sum(middle, U) /\ Sum(middle, U) \in Int
        /\ X!SumFunction([i \in U |-> low[i]]) = Sum(low, U) /\ Sum(low, U) \in Int
        /\ X!SumFunction([i \in U |-> high[i]]) = Sum(high, U) /\ Sum(high, U) \in Int
    BY <2>1, <2>2, ForecastTotal
  <2>4. Sum(l1, U) <= Sum(m1, U) /\ Sum(m1, U) <= Sum(h1, U)
    BY <2>1, <2>2, SumMonotone
  <2>5. Sum(l1, U) = Sum(low, U) /\ Sum(m1, U) = Sum(middle, U) /\ Sum(h1, U) = Sum(high, U)
    BY <2>1, <2>2, SumSame
  <2> QED
    BY <2>1, <2>3, <2>4, <2>5 DEF U
<1>5. \A h \in N : /\ b[h].point = last + Sum(middle, 1..h) /\ b[h].lower = last + Sum(low, 1..h)
                   /\ b[h].upper = last + Sum(high, 1..h)
                   /\ b[h] = [point |-> b[h].point, lower |-> b[h].lower, upper |-> b[h].upper]
  <2> SUFFICES ASSUME NEW h \in N
               PROVE  /\ b[h].point = last + Sum(middle, 1..h) /\ b[h].lower = last + Sum(low, 1..h)
                      /\ b[h].upper = last + Sum(high, 1..h)
                      /\ b[h] = [point |-> b[h].point, lower |-> b[h].lower, upper |-> b[h].upper]
    OBVIOUS
  <2> DEFINE m2 == X!SumFunction([i \in 1..h |-> middle[i]])
             l2 == X!SumFunction([i \in 1..h |-> low[i]])
             h2 == X!SumFunction([i \in 1..h |-> high[i]])
  <2>1. b[h] = [point |-> last + m2, lower |-> last + l2, upper |-> last + h2]
    BY <1>2
  <2>2. m2 = Sum(middle, 1..h) /\ l2 = Sum(low, 1..h) /\ h2 = Sum(high, 1..h)
    BY <1>4
  <2> HIDE DEF m2, l2, h2
  <2> QED
    BY ONLY <2>1, <2>2
<1>6. Holds(b, n)
  <2>1. ASSUME NEW h \in N
        PROVE /\ b[h].point \in Int /\ b[h].lower \in Int /\ b[h].upper \in Int
              /\ b[h].lower <= b[h].point /\ b[h].point <= b[h].upper
    <3> DEFINE m2 == Sum(middle, 1..h)
               l2 == Sum(low, 1..h)
               h2 == Sum(high, 1..h)
    <3>1. b[h].point = last + m2 /\ b[h].lower = last + l2 /\ b[h].upper = last + h2
      BY <1>5
    <3>2. m2 \in Int /\ l2 \in Int /\ h2 \in Int /\ l2 <= m2 /\ m2 <= h2
      BY <1>4
    <3> HIDE DEF m2, l2, h2
    <3> QED
      BY ONLY <3>1, <3>2, last \in Int
  <2> QED
    BY <1>2, <2>1 DEF Holds
<1>7. Widens(b, n)
  <2> SUFFICES ASSUME NEW h \in 1..(n - 1)
               PROVE  b[h].upper - b[h].lower <= b[h + 1].upper - b[h + 1].lower
    BY DEF Widens
  <2>1. h \in N /\ h + 1 \in N
    OBVIOUS
  <2>2. ASSUME NEW f, \A i \in N : f[i] \in Int
        PROVE  Sum(f, 1..(h + 1)) = Sum(f, 1..h) + f[h + 1]
    <3> DEFINE A == 1..h
               B == {h + 1}
               U == 1..(h + 1)
    <3>1. A \in SUBSET U /\ B \in SUBSET U /\ A \cap B = {} /\ A \cup B = U
      BY <2>1
    <3>2. IsFiniteSet(U)
      BY <1>4, <2>1
    <3>3. \A i \in U : f[i] \in Int
      BY <1>4, <2>1, <2>2
    <3>4. Sum(f, B) = f[h + 1]
      BY <2>1, <2>2, SumSingle
    <3> HIDE DEF A, B, U
    <3>5. Sum(f, A \cup B) = Sum(f, A) + Sum(f, B)
      BY ONLY <3>1, <3>2, <3>3, SumUnion
    <3>6. Sum(f, U) = Sum(f, A) + f[h + 1]
      BY <3>1, <3>4, <3>5
    <3> QED
      BY <3>6 DEF A, U
  <2>3. Sum(low, 1..(h + 1)) = Sum(low, 1..h) + low[h + 1]
          /\ Sum(high, 1..(h + 1)) = Sum(high, 1..h) + high[h + 1]
    BY <1>1, <2>2
  <2>4. /\ b[h].upper = last + Sum(high, 1..h) /\ b[h].lower = last + Sum(low, 1..h)
        /\ b[h + 1].upper = last + Sum(high, 1..(h + 1))
              /\ b[h + 1].lower = last + Sum(low, 1..(h + 1))
    BY <1>5, <2>1
  <2>5. Sum(high, 1..h) \in Int /\ Sum(low, 1..h) \in Int /\ low[h + 1] \in Int
          /\ high[h + 1] \in Int
        /\ low[h + 1] <= high[h + 1]
    <3>1. ASSUME NEW i \in N PROVE low[i] \in Int /\ high[i] \in Int /\ low[i] <= high[i]
      BY ONLY <1>1, i \in N
    <3>2. Sum(high, 1..h) \in Int /\ Sum(low, 1..h) \in Int
      BY <1>4, <2>1
    <3> QED
      BY <2>1, <3>1, <3>2
  <2> QED
    BY ONLY <2>3, <2>4, <2>5, last \in Int
<1> QED
  BY <1>5, <1>6, <1>7 DEF b

\* CombinationModel: a mean between the widest bounds.
LEMMA CombinedHolds ==
  ASSUME NEW k \in Nat, k > 1, NEW members, Len(members) = k, DOMAIN members = 1..k,
         NEW n \in Nat, \A m \in 1..k : Holds(members[m], n)
  PROVE  LET c == X!Combined(members)
         IN /\ Holds(c, n)
            /\ \A h \in 1..n : c[h] = [point |-> c[h].point, lower |-> c[h].lower, upper |-> c[h].upper]
<1> DEFINE U == 1..k
           c == X!Combined(members)
           point(h) == [m \in DOMAIN members |-> members[m][h].point]
           lows(h) == {members[m][h].lower : m \in DOMAIN members}
           highs(h) == {members[m][h].upper : m \in DOMAIN members}
<1>1. IsFiniteSet(U) /\ Cardinality(U) = k /\ 1 \in U
  BY FirstNumbers
<1>2. DOMAIN members[1] = 1..n
  BY <1>1 DEF Holds
<1>3. /\ DOMAIN c = 1..n
      /\ \A h \in 1..n : c[h] = [point |-> X!SumFunction(point(h)) \div k,
                                 lower |-> X!Min(lows(h)), upper |-> X!Max(highs(h))]
  <2>1. ~(Len(members) < 2)
    OBVIOUS
  <2> QED
    BY <1>2, <2>1 DEF X!Combined
<1>4. ASSUME NEW h \in 1..n
      PROVE  /\ X!Min(lows(h)) \in Int /\ X!Max(highs(h)) \in Int
            /\ X!SumFunction(point(h)) \div k \in Int
             /\ X!Min(lows(h)) <= X!SumFunction(point(h)) \div k
             /\ X!SumFunction(point(h)) \div k <= X!Max(highs(h))
  <2>1. \A m \in U : /\ members[m][h].point \in Int /\ members[m][h].lower \in Int
                     /\ members[m][h].upper \in Int
                     /\ members[m][h].lower <= members[m][h].point
                     /\ members[m][h].point <= members[m][h].upper
    BY DEF Holds
  <2> DEFINE lower == [m \in U |-> members[m][h].lower]
             upper == [m \in U |-> members[m][h].upper]
             lo == X!Min(lows(h))
             hi == X!Max(highs(h))
             p == point(h)
  <2>2. IsFiniteSet({lower[m] : m \in U}) /\ IsFiniteSet({upper[m] : m \in U})
    <3> HIDE DEF lower, upper, U
    <3> QED
      BY <1>1, ImageFinite
  <2>3. lows(h) = {lower[m] : m \in U} /\ highs(h) = {upper[m] : m \in U}
    OBVIOUS
  <2>4. lows(h) # {} /\ lows(h) \subseteq Int /\ highs(h) # {} /\ highs(h) \subseteq Int
    BY <1>1, <2>1
  <2>5. /\ lo \in lows(h) /\ \A x \in lows(h) : lo <= x
        /\ hi \in highs(h) /\ \A x \in highs(h) : hi >= x
    BY <2>2, <2>3, <2>4, ForecastBasics
  <2>6. lo \in Int /\ hi \in Int
    BY <2>4, <2>5
  <2>7. \A m \in U : p[m] \in Int /\ p[m] = members[m][h].point /\ lower[m] \in lows(h)
          /\ upper[m] \in highs(h)
    BY <2>1, <2>3
  <2>8. p = [m \in U |-> p[m]]
    OBVIOUS
  <2>9. \A m \in U : lower[m] = members[m][h].lower /\ upper[m] = members[m][h].upper
    OBVIOUS
  <2> HIDE DEF lower, upper, lo, hi, p, U
  <2>10. \A m \in U : p[m] \in Int /\ lo <= p[m] /\ p[m] <= hi
    <3> SUFFICES ASSUME NEW m \in U PROVE p[m] \in Int /\ lo <= p[m] /\ p[m] <= hi
      OBVIOUS
    <3>1. lo <= lower[m] /\ upper[m] <= hi
      BY <2>1, <2>5, <2>6, <2>7, <2>9
    <3> QED
      BY <2>1, <2>6, <2>7, <2>9, <3>1
  <2>11. X!SumFunction([m \in U |-> p[m]]) = Sum(p, U) /\ Sum(p, U) \in Int
    BY <1>1, <2>7, ForecastTotal
  <2>12. lo * k <= Sum(p, U) /\ Sum(p, U) <= hi * k
    <3>1. lo * Cardinality(U) <= Sum(p, U) /\ Sum(p, U) <= hi * Cardinality(U)
      BY <1>1, <2>6, <2>10, MeanIsBetween
    <3> QED
      BY <1>1, <3>1
  <2>13. k \in Nat \ {0}
    OBVIOUS
  <2>14. Sum(p, U) \div k \in Int /\ lo <= Sum(p, U) \div k /\ Sum(p, U) \div k <= hi
    BY ONLY <2>6, <2>11, <2>12, <2>13, Divided
  <2>15. X!SumFunction(p) = Sum(p, U)
    BY <2>8, <2>11
  <2> QED
    BY <2>6, <2>14, <2>15 DEF lo, hi, p
<1> HIDE DEF c, point, lows, highs
<1>5. Holds(c, n)
  BY <1>3, <1>4 DEF Holds
<1>6. \A h \in 1..n : c[h] = [point |-> c[h].point, lower |-> c[h].lower, upper |-> c[h].upper]
  BY <1>3
<1> QED
  BY <1>5, <1>6 DEF c

\* _bootstrap_interval: the spread of some residuals is never below nothing.
LEMMA SpreadTyped ==
  ASSUME NEW points, NEW n \in Nat, n > 1, NEW residuals \in [1..n -> Int], Len(residuals) = n
  PROVE  X!Spread(points, residuals) \in Nat
<1> DEFINE apart == {residuals[i] - residuals[j] : i, j \in DOMAIN residuals}
           pairs == (1..n) \X (1..n)
           of == [p \in pairs |-> residuals[p[1]] - residuals[p[2]]]
<1>1. X!Spread(points, residuals) = X!Max({0} \cup apart)
  BY DEF X!Spread
<1>2. DOMAIN residuals = 1..n
  OBVIOUS
<1>3. apart = {of[p] : p \in pairs}
  <2>1. ASSUME NEW i \in 1..n, NEW j \in 1..n
        PROVE  <<i, j>> \in pairs /\ of[<<i, j>>] = residuals[i] - residuals[j]
    OBVIOUS
  <2>2. ASSUME NEW p \in pairs
        PROVE  p[1] \in 1..n /\ p[2] \in 1..n /\ of[p] = residuals[p[1]] - residuals[p[2]]
    OBVIOUS
  <2> HIDE DEF of, pairs
  <2>3. ASSUME NEW x \in apart PROVE x \in {of[p] : p \in pairs}
    <3>1. PICK i \in 1..n, j \in 1..n : x = residuals[i] - residuals[j]
      BY <1>2
    <3>2. <<i, j>> \in pairs /\ x = of[<<i, j>>]
      BY <2>1, <3>1
    <3> QED
      BY ONLY <3>2
  <2>4. ASSUME NEW p \in pairs PROVE of[p] \in apart
    BY <1>2, <2>2
  <2> HIDE DEF apart
  <2> QED
    BY <2>3, <2>4
<1>4. apart \subseteq Int
  BY <1>2
<1>5. IsFiniteSet(pairs)
  BY FirstNumbers, FS_Product
<1> HIDE DEF of, pairs, apart
<1>6. IsFiniteSet(apart)
  BY <1>3, <1>5, ImageFinite
<1>7. IsFiniteSet({0} \cup apart)
  BY <1>6, FS_Singleton, FS_Union
<1>8. {0} \cup apart # {} /\ {0} \cup apart \subseteq Int /\ 0 \in {0} \cup apart
  BY <1>4
<1> DEFINE T == {0} \cup apart
<1> HIDE DEF T
<1>9. X!Max(T) \in T /\ X!Max(T) >= 0 /\ T \subseteq Int
  BY <1>7, <1>8, ForecastBasics DEF T
<1> QED
  BY <1>1, <1>9 DEF T

\* predict, whatever the member: a band holds its own point and a later year is no surer.
THEOREM BandsAreHonest ==
  ASSUME NEW series, YearSeries(series), Cardinality(DOMAIN series) > 1,
         NEW n \in Nat, NEW quantiles \in [1..n -> [1..3 -> Int]], Len(quantiles) = n,
           NEW spread \in Nat
  PROVE  X!BandHoldsItsPoint(series, quantiles, spread)
<1> DEFINE drift == X!Banded(X!Drifted(series, X!YearlyChange(series), n), spread)
           boosted == X!Boosted(series[X!Last(series)], quantiles)
           steady == X!Naive(series, n)
           naive == X!Intervals(X!Fitted(FALSE, TRUE), <<>>, steady, <<spread, 0>>)
           two == X!Combined(<<drift, boosted>>)
           three == X!Combined(<<drift, boosted, naive>>)
           Formed(p) ==
             \A h \in 1..n : p[h] = [point |-> p[h].point, lower |-> p[h].lower, upper |-> p[h].upper]
<1>1. /\ X!YearlyChange(series).of \in Int /\ X!YearlyChange(series).by \in Nat \ {0}
      /\ X!Last(series) \in DOMAIN series /\ series[X!Last(series)] \in Int
  BY ChangesTyped DEF YearSeries
<1>2. X!Drifted(series, X!YearlyChange(series), n) \in [1..n -> Int] /\ steady \in [1..n -> Int]
  BY <1>1, DriftedTyped
<1>3. ASSUME NEW points \in [1..n -> Int], NEW s \in Nat
      PROVE  Holds(X!Banded(points, s), n) /\ Widens(X!Banded(points, s), n)
            /\ Formed(X!Banded(points, s))
  <2>1. Holds(X!Banded(points, s), n) /\ Widens(X!Banded(points, s), n)
    BY BandsHold
  <2>2. Formed(X!Banded(points, s))
    BY DEF X!Banded
  <2> QED
    BY <2>1, <2>2
<1>4. Holds(drift, n) /\ Widens(drift, n) /\ Formed(drift)
  BY <1>2, <1>3
<1>5. naive = X!Banded(steady, X!Spread(steady, <<spread, 0>>))
  BY DEF X!Intervals, X!Fitted
<1>6. X!Spread(steady, <<spread, 0>>) \in Nat
  <2>1. <<spread, 0>> \in [1..2 -> Int] /\ Len(<<spread, 0>>) = 2
    OBVIOUS
  <2>2. ASSUME NEW k \in Nat, k = 2, NEW r \in [1..k -> Int], Len(r) = k
        PROVE  X!Spread(steady, r) \in Nat
    <3>1. k > 1
      BY <2>2
    <3> QED
      BY ONLY <2>2, <3>1, SpreadTyped
  <2> QED
    BY <2>1, <2>2
<1>7. Holds(naive, n) /\ Widens(naive, n) /\ Formed(naive)
  <2> DEFINE s == X!Spread(steady, <<spread, 0>>)
  <2>1. s \in Nat /\ steady \in [1..n -> Int] /\ naive = X!Banded(steady, s)
    BY <1>2, <1>5, <1>6
  <2> HIDE DEF s, steady, naive
  <2>2. /\ Holds(X!Banded(steady, s), n) /\ Widens(X!Banded(steady, s), n)
        /\ Formed(X!Banded(steady, s))
    BY <1>3, <2>1
  <2> QED
    BY <2>1, <2>2
<1>8. Holds(boosted, n) /\ Widens(boosted, n) /\ Formed(boosted)
  <2>1. DOMAIN quantiles = 1..n
    OBVIOUS
  <2>2. \A i \in 1..n : quantiles[i][1] \in Int /\ quantiles[i][2] \in Int
          /\ quantiles[i][3] \in Int
    OBVIOUS
  <2> DEFINE last == series[X!Last(series)]
             b == X!Boosted(last, quantiles)
  <2>3. last \in Int
    BY <1>1
  <2> HIDE DEF last
  <2>4. /\ Holds(b, n) /\ Widens(b, n)
        /\ \A h \in 1..n : b[h] = [point |-> b[h].point, lower |-> b[h].lower, upper |-> b[h].upper]
    BY ONLY <2>1, <2>2, <2>3, n \in Nat, BoostedHolds
  <2> QED
    BY <2>4 DEF last
<1> HIDE DEF drift, boosted, naive, steady
<1>9. ASSUME NEW k \in Nat, k > 1, NEW members, Len(members) = k, DOMAIN members = 1..k,
             \A m \in 1..k : Holds(members[m], n)
      PROVE  Holds(X!Combined(members), n) /\ Formed(X!Combined(members))
  BY <1>9, CombinedHolds
<1>10. Holds(two, n) /\ Formed(two)
  <2> DEFINE members == <<drift, boosted>>
  <2>1. Len(members) = 2 /\ DOMAIN members = 1..2 /\ \A m \in 1..2 : Holds(members[m], n)
    BY <1>4, <1>8
  <2>2. ASSUME NEW k \in Nat, k = 2
        PROVE  Holds(X!Combined(members), n) /\ Formed(X!Combined(members))
    <3>1. Len(members) = k /\ DOMAIN members = 1..k /\ (\A m \in 1..k : Holds(members[m], n))
            /\ k > 1
      BY <2>1, <2>2
    <3> HIDE DEF members
    <3> QED
      BY <1>9, <3>1
  <2>3. PICK k \in Nat : k = 2
    OBVIOUS
  <2> QED
    BY ONLY <2>2, <2>3 DEF two
<1>11. Holds(three, n) /\ Formed(three)
  <2> DEFINE members == <<drift, boosted, naive>>
  <2>1. Len(members) = 3 /\ DOMAIN members = 1..3 /\ \A m \in 1..3 : Holds(members[m], n)
    BY <1>4, <1>7, <1>8
  <2>2. ASSUME NEW k \in Nat, k = 3
        PROVE  Holds(X!Combined(members), n) /\ Formed(X!Combined(members))
    <3>1. Len(members) = k /\ DOMAIN members = 1..k /\ (\A m \in 1..k : Holds(members[m], n))
            /\ k > 1
      BY <2>1, <2>2
    <3> HIDE DEF members
    <3> QED
      BY <1>9, <3>1
  <2>3. PICK k \in Nat : k = 3
    OBVIOUS
  <2> QED
    BY ONLY <2>2, <2>3 DEF three
<1> HIDE DEF two, three
<1>12. ASSUME NEW p, Holds(p, n), Formed(p) PROVE X!Surround(X!Predicted(p))
  <2>1. ASSUME NEW h \in 1..n PROVE p[h] = [k \in DOMAIN p[h] |-> p[h][k]]
    <3> DEFINE a == p[h].point
               b == p[h].lower
               c == p[h].upper
    <3>1. p[h] = [point |-> a, lower |-> b, upper |-> c]
      BY <1>12
    <3> HIDE DEF a, b, c
    <3> QED
      BY <3>1
  <2> QED
    BY <1>12, <2>1, PredictedSurrounds
<1>13. \A p \in {drift, boosted, naive, two, three} : X!Surround(X!Predicted(p))
  BY <1>4, <1>7, <1>8, <1>10, <1>11, <1>12
<1>14. \A p \in {drift, boosted, naive} :
         \A h \in 1..(n - 1) : p[h].upper - p[h].lower <= p[h + 1].upper - p[h + 1].lower
  BY <1>4, <1>7, <1>8 DEF Widens
<1>15. X!BandHoldsItsPoint(series, quantiles, spread)
         <=> \A p \in {drift, boosted, naive, two, three} :
               /\ X!Surround(X!Predicted(p))
               /\ p \in {drift, boosted, naive} =>
                    \A h \in 1..(n - 1) : p[h].upper - p[h].lower <= p[h + 1].upper - p[h + 1].lower
  BY DEF X!BandHoldsItsPoint, drift, boosted, naive, steady, two, three
<1> QED
  BY <1>13, <1>14, <1>15

LEMMA BestIsFiled ==
  ASSUME NEW models, Library(models)
  PROVE  X!LoadBest(models) \subseteq models
<1> DEFINE all == X!Scored(models)
           simple == {m \in X!Scored(models) : ~m.complex}
<1>1. /\ all \subseteq models /\ IsFiniteSet(all) /\ simple \subseteq all /\ IsFiniteSet(simple)
      /\ \A m \in all : m.mape \in Int
  BY FS_Subset DEF Library, X!Scored
<1>2. all # {} => X!Winner(all) \in all
  BY <1>1, WinnerWins
<1>3. simple # {} => X!Winner(simple) \in simple
  BY <1>1, WinnerWins
<1>4. \/ X!LoadBest(models) = {}
      \/ all # {} /\ X!LoadBest(models) = {X!Winner(all)}
      \/ simple # {} /\ X!LoadBest(models) = {X!Winner(simple)}
  BY DEF X!LoadBest
<1> HIDE DEF all, simple
<1> QED
  BY <1>1, <1>2, <1>3, <1>4

\* An agent's baseline: one to five years, each in its band but for a value below nothing.
LEMMA BaselineHolds ==
  ASSUME NEW history, YearSeries(history), Cardinality(DOMAIN history) > 1,
         NEW n \in 1..5, NEW spread \in Nat
  PROVE  LET b == X!Baseline(history, n, spread) IN Len(b) \in 1..5 /\ X!Surround(b)
<1> DEFINE drift == X!Banded(X!Drifted(history, X!ChangeOfObservations(history), n), spread)
           b == X!Predicted(drift)
<1>1. /\ X!ChangeOfObservations(history).of \in Int
            /\ X!ChangeOfObservations(history).by \in Nat \ {0}
      /\ X!Last(history) \in DOMAIN history /\ n \in Nat
  BY ChangesTyped
<1>2. X!Drifted(history, X!ChangeOfObservations(history), n) \in [1..n -> Int]
  BY <1>1, DriftedTyped
<1>3. Holds(drift, n)
  BY <1>1, <1>2, BandsHold
<1>4. \A h \in 1..n : drift[h] = [k \in DOMAIN drift[h] |-> drift[h][k]]
  BY <1>2 DEF X!Banded
<1> HIDE DEF drift
<1>5. X!Surround(b)
  BY <1>1, <1>3, <1>4, PredictedSurrounds
<1>6. b \in [1..n -> {b[h] : h \in 1..n}]
  BY <1>3 DEF X!Predicted, Holds
<1> HIDE DEF b
<1>7. b \in Seq({b[h] : h \in 1..n}) /\ DOMAIN b = 1..n
  BY <1>1, <1>6, ListOf
<1>8. Len(b) \in Nat /\ 1..Len(b) = 1..n
  BY <1>7, LenProperties
<1>9. Len(b) = n
  <2> DEFINE m == Len(b)
  <2>1. m \in Nat /\ 1..m = 1..n
    BY <1>8
  <2> HIDE DEF m
  <2>2. m = n
    BY ONLY <1>1, <2>1
  <2> QED
    BY <2>2 DEF m
<1> QED
  BY <1>5, <1>9 DEF b, drift, X!Baseline

\* run of the forecast agent: what it answers with is of what was asked.
THEOREM AnswersAreAsked ==
  ASSUME NEW a, NEW models, NEW down, NEW history, NEW spread \in Nat,
         a.horizon \in Int, Library(models), YearSeries(history)
  PROVE  X!AnswersTheQuestion(a, models, down, history, spread)
<1> DEFINE f == X!Forecast(a, models, down, history, spread)
           model == X!Registered(a, models)
           chosen == CHOOSE m \in model : TRUE
           filed == {m \in models : m.target = X!TargetOf(a)}
<1> SUFFICES ASSUME f.points # <<>>
             PROVE  /\ f.target = X!TargetOf(a) /\ f.scope = a.partner
                    /\ f.kind = "registered" => X!Valid(f.points)
                    /\ f.kind = "baseline" => Len(f.points) \in 1..5 /\ X!Surround(f.points)
  BY DEF X!AnswersTheQuestion
<1>1. Library(filed)
  BY FS_Subset DEF Library
<1>2. X!LoadBest(filed) \subseteq filed /\ X!LoadLatest(filed) \subseteq filed
  BY <1>1, BestIsFiled DEF X!LoadLatest
<1>3. model \subseteq filed /\ (model # {} => a.partner = "none")
  BY <1>2 DEF X!Registered
<1>4. model # {} => chosen \in model
  OBVIOUS
<1> HIDE DEF model, chosen, filed
<1>5. ASSUME model # {}
      PROVE  X!Valid(chosen.points)
            /\ f = X!Answer("registered", chosen.target, "none", chosen.points)
  <2>1. X!Valid(chosen.points) => f = X!Answer("registered", chosen.target, "none", chosen.points)
    BY <1>5 DEF X!Forecast, model, chosen
  <2>2. ~X!Valid(chosen.points) => f = X!Answer("failed", "none", "none", <<>>)
    BY <1>5 DEF X!Forecast, model, chosen
  <2>3. X!Answer("failed", "none", "none", <<>>).points = <<>>
    BY DEF X!Answer
  <2> HIDE DEF f
  <2> QED
    BY <2>1, <2>2, <2>3
<1>6. ASSUME model = {}
      PROVE  /\ a.target = "none" /\ ~(X!Cardinality(DOMAIN history) < X!AGENT_MIN)
             /\ f = X!Answer("baseline", X!EXPORT_VALUE, a.partner,
                             X!Baseline(history, X!Horizon(a), spread))
  <2>1. a.target # "none" => f = X!Answer("withheld", "none", "none", <<>>)
    BY <1>6 DEF X!Forecast, model
  <2>2. a.target = "none" /\ down => f = X!Answer("failed", "none", "none", <<>>)
    BY <1>6 DEF X!Forecast, model
  <2>3. a.target = "none" /\ ~down /\ X!Cardinality(DOMAIN history) < X!AGENT_MIN
          => f = X!Answer("too few", "none", "none", <<>>)
    BY <1>6 DEF X!Forecast, model
  <2>4. a.target = "none" /\ ~down /\ ~(X!Cardinality(DOMAIN history) < X!AGENT_MIN)
          => f = X!Answer("baseline", X!EXPORT_VALUE, a.partner,
                          X!Baseline(history, X!Horizon(a), spread))
    BY <1>6 DEF X!Forecast, model
  <2>5. \A kind : X!Answer(kind, "none", "none", <<>>).points = <<>>
    BY DEF X!Answer
  <2> HIDE DEF f
  <2> QED
    BY <2>1, <2>2, <2>3, <2>4, <2>5
<1> HIDE DEF f
<1>7. CASE model # {}
  <2>1. /\ f.kind = "registered" /\ f.target = chosen.target /\ f.scope = "none"
        /\ f.points = chosen.points /\ X!Valid(chosen.points)
    BY <1>5, <1>7 DEF X!Answer
  <2>2. chosen.target = X!TargetOf(a) /\ a.partner = "none"
    BY <1>3, <1>4, <1>7 DEF filed
  <2> QED
    BY <2>1, <2>2
<1>8. CASE model = {}
  <2> DEFINE n == X!Horizon(a)
             b == X!Baseline(history, n, spread)
  <2>1. f.kind = "baseline" /\ f.target = X!EXPORT_VALUE /\ f.scope = a.partner /\ f.points = b
    BY <1>6, <1>8 DEF X!Answer
  <2>2. n \in 1..5
    BY DEF X!Horizon, X!Most, X!Least
  <2>3. Cardinality(DOMAIN history) > 1
    <3>1. /\ X!Cardinality(DOMAIN history) = Cardinality(DOMAIN history)
          /\ Cardinality(DOMAIN history) \in Nat
      BY ForecastBasics DEF YearSeries
    <3> QED
      BY <1>6, <1>8, <3>1 DEF X!AGENT_MIN
  <2>4. X!TargetOf(a) = X!EXPORT_VALUE
    BY <1>6, <1>8 DEF X!TargetOf
  <2> HIDE DEF n
  <2>5. Len(b) \in 1..5 /\ X!Surround(b)
    BY <2>2, <2>3, BaselineHolds
  <2> HIDE DEF b
  <2> QED
    BY <2>1, <2>4, <2>5
<1> QED
  BY <1>7, <1>8

-----------------------------------------------------------------------------
(* The score and the findings.                                             *)

LEMMA ScoreTotal ==
  ASSUME NEW f, NEW T, IsFiniteSet(T), \A x \in T : f[x] \in Int
  PROVE  /\ M!SumFunction([x \in T |-> f[x]]) = Sum(f, T)
        /\ F!SumFunction([x \in T |-> f[x]]) = Sum(f, T)
         /\ Sum(f, T) \in Int
<1>1. \A h : M!SumFunction(h) = S!SumFunction(h)
  BY DEF M!SumFunction, M!SumFunctionOnSet, M!FoldFunctionOnSet, M!MapThenFoldSet,
         S!SumFunction, S!SumFunctionOnSet, S!FoldFunctionOnSet, S!MapThenFoldSet
<1>2. \A h : F!SumFunction(h) = S!SumFunction(h)
  BY DEF F!SumFunction, F!SumFunctionOnSet, F!FoldFunctionOnSet, F!MapThenFoldSet,
         S!SumFunction, S!SumFunctionOnSet, S!FoldFunctionOnSet, S!MapThenFoldSet
<1>3. S!SumFunction([x \in T |-> f[x]]) = Sum(f, T) /\ Sum(f, T) \in Int
  BY SeriesTotal
<1> QED
  BY <1>1, <1>2, <1>3

\* What agents answer: a confidence in hundredths, and whether it failed or is degraded.
Answers(outputs) ==
  /\ IsFiniteSet(DOMAIN outputs)
  /\ \A a \in DOMAIN outputs : /\ outputs[a].confidence \in 0..100
                               /\ outputs[a].error \in BOOLEAN /\ outputs[a].degraded \in BOOLEAN
Confidences(outputs) == [a \in DOMAIN outputs |-> outputs[a].confidence]

\* A mean over agents that count alike is their sum over their number.
LEMMA WeighedAlike ==
  ASSUME NEW outputs, Answers(outputs), DOMAIN outputs # {}
  PROVE  LET w == M!Weighted(outputs, <<>>)
         IN /\ w.of = Sum(Confidences(outputs), DOMAIN outputs) /\ w.of \in Nat
            /\ w.by = Cardinality(DOMAIN outputs) /\ w.by \in Nat \ {0}
            /\ w.of <= 100 * w.by
<1> DEFINE D == DOMAIN outputs
           counted == {a \in D : M!WeightOf(<<>>, a) > 0}
           f == [a \in D |-> M!WeightOf(<<>>, a)]
           g == [a \in D |-> M!WeightOf(<<>>, a) * outputs[a].confidence]
           c == Confidences(outputs)
           all == [a \in D |-> 100]
           none == [a \in D |-> 0]
           w == M!Weighted(outputs, <<>>)
<1>1. \A a : M!WeightOf(<<>>, a) = 1
  BY DEF M!WeightOf
<1>2. IsFiniteSet(D) /\ D # {} /\ counted = D
  BY <1>1 DEF Answers
<1>3. \A a \in D : /\ c[a] \in 0..100 /\ c[a] = outputs[a].confidence /\ f[a] = 1 /\ g[a] = c[a]
                   /\ all[a] = 100 /\ none[a] = 0
  <2> SUFFICES ASSUME NEW a \in D
               PROVE  /\ c[a] \in 0..100 /\ c[a] = outputs[a].confidence /\ f[a] = 1 /\ g[a] = c[a]
                      /\ all[a] = 100 /\ none[a] = 0
    OBVIOUS
  <2>1. c[a] \in 0..100 /\ c[a] = outputs[a].confidence
    BY DEF Answers, Confidences
  <2>2. f[a] = 1 /\ g[a] = 1 * outputs[a].confidence /\ all[a] = 100 /\ none[a] = 0
    BY <1>1
  <2> HIDE DEF c, f, g, all, none
  <2> QED
    BY <2>1, <2>2
<1>4. c \in [D -> Int] /\ all \in [D -> Int] /\ none \in [D -> Int]
  <2>1. c = [a \in D |-> c[a]]
    BY DEF Confidences
  <2>2. all \in [D -> Int] /\ none \in [D -> Int]
    OBVIOUS
  <2> HIDE DEF c, D
  <2>3. ASSUME NEW a \in D PROVE c[a] \in Int
    <3>1. c[a] \in 0..100
      BY <1>3
    <3> QED
      BY ONLY <3>1
  <2> QED
    BY <2>1, <2>2, <2>3
<1>5. w = LET total == M!SumFunction([a \in counted |-> M!WeightOf(<<>>, a) * outputs[a].confidence])
              weight == M!SumFunction([a \in counted |-> M!WeightOf(<<>>, a)])
          IN IF weight = 0 THEN [of |-> 0, by |-> 1] ELSE [of |-> total, by |-> weight]
  BY DEF M!Weighted
<1>6. /\ [a \in counted |-> M!WeightOf(<<>>, a) * outputs[a].confidence] = [a \in D |-> g[a]]
      /\ [a \in counted |-> M!WeightOf(<<>>, a)] = [a \in D |-> f[a]]
  BY <1>2
<1> HIDE DEF D, counted, f, g, c, all, none, w
<1>7. /\ M!SumFunction([a \in D |-> g[a]]) = Sum(g, D) /\ Sum(g, D) = Sum(c, D) /\ Sum(c, D) \in Int
      /\ M!SumFunction([a \in D |-> f[a]]) = Sum(f, D)
  <2>1. \A a \in D : f[a] \in Int /\ g[a] \in Int /\ c[a] \in Int
    BY <1>3
  <2>2. M!SumFunction([a \in D |-> g[a]]) = Sum(g, D) /\ M!SumFunction([a \in D |-> f[a]]) = Sum(f, D)
    BY <1>2, <2>1, ScoreTotal
  <2>3. Sum(g, D) = Sum(c, D) /\ Sum(c, D) \in Int
    BY <1>2, <1>3, <2>1, SumSame
  <2> QED
    BY <2>2, <2>3
<1>8. Sum(f, D) = 1 * Cardinality(D) /\ Sum(all, D) = 100 * Cardinality(D)
        /\ Sum(none, D) = 0 * Cardinality(D)
  BY <1>2, <1>3, SumConstant
<1>9. Cardinality(D) \in Nat \ {0}
  BY <1>2, FS_CardinalityType, FS_EmptySet
<1>10. Sum(none, D) <= Sum(c, D) /\ Sum(c, D) <= Sum(all, D)
  BY <1>2, <1>3, <1>4, SumMonotone
<1>11. w = [of |-> Sum(c, D), by |-> Cardinality(D)]
  BY <1>5, <1>6, <1>7, <1>8, <1>9
<1> QED
  BY <1>7, <1>8, <1>9, <1>10, <1>11 DEF w, c, D

LEMMA RatiosCompare ==
  ASSUME NEW p \in Int, NEW q \in Int, NEW n \in Nat \ {0}, NEW m \in Nat \ {0}, p * m <= q * n,
         NEW c \in Int
  PROVE  /\ c * n < p => c * m < q
         /\ c * n <= p => c * m <= q
<1> DEFINE a == c * n
           b == c * m
           x == p * m
           y == q * n
           z == b * n
<1>1. a \in Int /\ b \in Int /\ x \in Int /\ y \in Int /\ z \in Int /\ x <= y
  OBVIOUS
<1>2. a * m = z
  <2>1. (c * n) * m = (c * m) * n
    OBVIOUS
  <2> QED
    BY <2>1
<1>3. \A i, j \in Int : /\ i < j => i * m < j * m /\ i * n < j * n
                        /\ i <= j => i * m <= j * m /\ i * n <= j * n
  <2> SUFFICES ASSUME NEW i \in Int, NEW j \in Int
               PROVE  /\ i < j => i * m < j * m /\ i * n < j * n
                      /\ i <= j => i * m <= j * m /\ i * n <= j * n
    OBVIOUS
  <2>1. i < j => i * m < j * m
    OBVIOUS
  <2>2. i < j => i * n < j * n
    OBVIOUS
  <2> QED
    BY <2>1, <2>2
<1> HIDE DEF a, b
<1>4. a < p => z < x
  BY <1>1, <1>2, <1>3
<1>5. a <= p => z <= x
  BY <1>1, <1>2, <1>3
<1>6. q < b => y < z
  BY <1>1, <1>3
<1>7. q <= b => y <= z
  BY <1>1, <1>3
<1> HIDE DEF x, y, z
<1> QED
  BY <1>1, <1>4, <1>5, <1>6, <1>7 DEF a, b

\* A score that is clamped keeps its order.
LEMMA ClampKeeps ==
  ASSUME NEW p \in Int, NEW q \in Int, NEW n \in Nat \ {0}, NEW m \in Nat \ {0}, p * m <= q * n
  PROVE  M!LessEq(M!Clamp([of |-> p, by |-> n]), M!Clamp([of |-> q, by |-> m]))
<1> DEFINE cp == M!Clamp([of |-> p, by |-> n])
           cq == M!Clamp([of |-> q, by |-> m])
<1>1. \/ p < 5 * n /\ cp = [of |-> 5, by |-> 1]
      \/ 95 * n < p /\ cp = [of |-> 95, by |-> 1]
      \/ 5 * n <= p /\ p <= 95 * n /\ cp = [of |-> p, by |-> n]
  BY DEF M!Clamp, M!FLOOR, M!CEILING
<1>2. \/ q < 5 * m /\ cq = [of |-> 5, by |-> 1]
      \/ 95 * m < q /\ cq = [of |-> 95, by |-> 1]
      \/ 5 * m <= q /\ q <= 95 * m /\ cq = [of |-> q, by |-> m]
  BY DEF M!Clamp, M!FLOOR, M!CEILING
<1>3. /\ 95 * n < p => 95 * m < q
      /\ 5 * n <= p => 5 * m <= q
  BY RatiosCompare
<1> HIDE DEF cp, cq
<1> SUFFICES cp.of * cq.by <= cq.of * cp.by
  BY DEF M!LessEq, cp, cq
<1>4. CASE p < 5 * n
  BY <1>1, <1>2, <1>4
<1>5. CASE 95 * n < p
  BY <1>1, <1>2, <1>3, <1>5
<1>6. CASE 5 * n <= p /\ p <= 95 * n
  BY <1>1, <1>2, <1>3, <1>6
<1> QED
  BY <1>4, <1>5, <1>6

\* A mean with weights is no more than the best that has a weight.
LEMMA WeighedUnderBest ==
  ASSUME NEW outputs, Answers(outputs), DOMAIN outputs # {},
         NEW relevance, \A a \in DOMAIN relevance : relevance[a] \in Nat
  PROVE  LET w == M!Weighted(outputs, relevance)
         IN /\ w.of \in Int /\ w.by \in Nat \ {0}
            /\ \E a \in DOMAIN outputs : w.of <= outputs[a].confidence * w.by
<1> DEFINE D == DOMAIN outputs
           K == {a \in D : M!WeightOf(relevance, a) > 0}
           f == [a \in D |-> M!WeightOf(relevance, a)]
           g == [a \in D |-> M!WeightOf(relevance, a) * outputs[a].confidence]
           c == Confidences(outputs)
           one == [a \in K |-> 1]
           w == M!Weighted(outputs, relevance)
<1>1. \A a : M!WeightOf(relevance, a) \in Nat
  BY DEF M!WeightOf
<1>2. IsFiniteSet(D) /\ D # {} /\ K \subseteq D /\ IsFiniteSet(K)
  BY FS_Subset DEF Answers
<1>3. \A a \in D : c[a] \in 0..100 /\ c[a] = outputs[a].confidence
  BY DEF Answers, Confidences
<1>4. \A a \in K : f[a] \in Nat /\ 1 <= f[a] /\ g[a] = f[a] * c[a] /\ one[a] = 1
  BY <1>1, <1>3
<1>5. /\ w = LET total == M!SumFunction([a \in K |-> M!WeightOf(relevance, a) * outputs[a].confidence])
                 weight == M!SumFunction([a \in K |-> M!WeightOf(relevance, a)])
             IN IF weight = 0 THEN [of |-> 0, by |-> 1] ELSE [of |-> total, by |-> weight]
      /\ [a \in K |-> M!WeightOf(relevance, a) * outputs[a].confidence] = [a \in K |-> g[a]]
      /\ [a \in K |-> M!WeightOf(relevance, a)] = [a \in K |-> f[a]]
  BY DEF M!Weighted
<1>6. one \in [K -> Int]
  OBVIOUS
<1> HIDE DEF D, K, f, g, c, one, w
<1>7. \A a \in D : c[a] \in Int
  <2> SUFFICES ASSUME NEW a \in D PROVE c[a] \in Int
    OBVIOUS
  <2>1. c[a] \in 0..100
    BY <1>3
  <2> QED
    BY ONLY <2>1
<1>8. \A a \in K : f[a] \in Int /\ g[a] \in Int
  BY <1>2, <1>4, <1>7
<1>9. /\ M!SumFunction([a \in K |-> g[a]]) = Sum(g, K) /\ Sum(g, K) \in Int
      /\ M!SumFunction([a \in K |-> f[a]]) = Sum(f, K) /\ Sum(f, K) \in Int
  BY <1>2, <1>8, ScoreTotal
<1>10. w = IF Sum(f, K) = 0 THEN [of |-> 0, by |-> 1] ELSE [of |-> Sum(g, K), by |-> Sum(f, K)]
  BY <1>5, <1>9
<1>11. CASE K = {}
  <2>1. Sum(f, K) = 0
    <3>1. Sum(f, K) = 0 * Cardinality(K)
      BY <1>2, <1>11, SumConstant
    <3>2. Cardinality(K) \in Int
      BY <1>2, FS_CardinalityType
    <3> QED
      BY <3>1, <3>2
  <2>2. PICK a \in D : TRUE
    BY <1>2
  <2>3. w.of = 0 /\ w.by = 1
    BY <1>10, <2>1
  <2>4. 0 <= outputs[a].confidence
    BY <1>3, <2>2
  <2> QED
    BY <1>3, <1>7, <2>2, <2>3, <2>4 DEF D, w
<1>12. CASE K # {}
  <2> DEFINE C1 == {c[a] : a \in K}
  <2>1. IsFiniteSet(C1) /\ C1 # {} /\ C1 \subseteq Int
    BY <1>2, <1>7, <1>12, ImageFinite
  <2>2. PICK best \in K : \A a \in K : c[a] <= c[best]
    <3>1. X!Max(C1) \in C1 /\ \A x \in C1 : X!Max(C1) >= x
      BY <2>1, ForecastBasics
    <3>2. PICK b \in K : X!Max(C1) = c[b]
      BY <3>1
    <3>3. \A a \in K : c[b] >= c[a]
      BY <3>1, <3>2
    <3> QED
      BY <1>2, <1>7, <3>3
  <2> DEFINE top == c[best]
             h == [a \in K |-> top * f[a]]
             f1 == [a \in K |-> f[a]]
             g1 == [a \in K |-> g[a]]
  <2>3. top \in Int
    BY <1>2, <1>7
  <2>4. \A a \in K : f[a] * c[a] <= top * f[a] /\ top * f[a] \in Int
    <3> SUFFICES ASSUME NEW a \in K PROVE f[a] * c[a] <= top * f[a] /\ top * f[a] \in Int
      OBVIOUS
    <3>1. c[a] \in Int /\ c[a] <= top /\ f[a] \in Nat
      BY <1>2, <1>4, <1>7, <2>2
    <3> HIDE DEF top
    <3>2. \A i \in Nat : \A j, k \in Int : j <= k => i * j <= k * i
      OBVIOUS
    <3> QED
      BY <2>3, <3>1, <3>2
  <2> HIDE DEF top
  <2>5. /\ h \in [K -> Int] /\ f1 \in [K -> Int] /\ g1 \in [K -> Int]
        /\ \A a \in K : h[a] = top * f[a] /\ f1[a] = f[a] /\ g1[a] = g[a] /\ g1[a] <= h[a]
              /\ one[a] <= f1[a]
    BY <1>4, <1>8, <2>4
  <2> HIDE DEF h, f1, g1
  <2>6. Sum(h, K) = top * Sum(f, K)
    BY <1>2, <1>8, <2>3, <2>5, SumScaled
  <2>7. Sum(g1, K) <= Sum(h, K) /\ Sum(one, K) <= Sum(f1, K)
    BY <1>2, <1>6, <2>5, SumMonotone
  <2>8. Sum(g1, K) = Sum(g, K) /\ Sum(f1, K) = Sum(f, K)
    BY <1>2, <1>8, <2>5, SumSame
  <2>9. Sum(one, K) = 1 * Cardinality(K)
    BY <1>2, <1>4, SumConstant
  <2>10. Cardinality(K) \in Nat \ {0}
    BY <1>2, <1>12, FS_CardinalityType, FS_EmptySet
  <2>11. Sum(f, K) \in Nat \ {0} /\ Sum(g, K) <= top * Sum(f, K)
    BY <1>9, <2>6, <2>7, <2>8, <2>9, <2>10
  <2>12. w.of = Sum(g, K) /\ w.by = Sum(f, K)
    BY <1>10, <2>11
  <2>13. best \in D /\ outputs[best].confidence = top
    BY <1>2, <1>3 DEF top
  <2> QED
    BY <1>9, <2>11, <2>12, <2>13 DEF D, w
<1> QED
  BY <1>11, <1>12

\* aggregate: inside its bounds and never above the best agent, whatever the weights.
THEOREM ScoreIsBounded ==
  ASSUME NEW outputs, Answers(outputs), DOMAIN outputs # {},
         NEW relevance, \A a \in DOMAIN relevance : relevance[a] \in Nat,
         NEW route, NEW months \in Int, NEW material \in Nat, NEW severe \in Nat,
           NEW missed \in BOOLEAN
  PROVE  M!Bounded(outputs, M!Aggregate(outputs, route, relevance, months, material, severe, missed))
<1> DEFINE w == M!Weighted(outputs, relevance)
           s == M!Aggregate(outputs, route, relevance, months, material, severe, missed)
           asked == IF route = {} THEN DOMAIN outputs ELSE route
           penalty == M!Staleness(months) + M!DqPenalty(material, severe)
                        + M!Coverage(asked, outputs, missed)
<1>1. w.of \in Int /\ w.by \in Nat \ {0}
  BY WeighedUnderBest
<1>2. PICK a \in DOMAIN outputs : w.of <= outputs[a].confidence * w.by
  BY WeighedUnderBest
<1>3. penalty \in Nat
  BY DEF M!Staleness, M!DqPenalty, M!Coverage, M!AtMost, M!STALENESS_CAP, M!STALENESS_PER_MONTH,
         M!DQ_CAP, M!DQ_MATERIAL_PENALTY, M!DQ_SEVERE_PENALTY, M!COVERAGE_PENALTY
<1>4. s = M!Clamp([of |-> w.of - penalty * w.by, by |-> w.by])
  BY DEF M!Aggregate
<1> DEFINE p == w.of - penalty * w.by
           n == w.by
           top == outputs[a].confidence
<1>5. top \in Int
  <2>1. top \in 0..100
    BY DEF Answers
  <2> HIDE DEF top
  <2> QED
    BY <2>1
<1>6. p \in Int /\ n \in Nat \ {0} /\ p <= top * n
  <2> DEFINE x == penalty * n
             y == top * n
  <2>1. x \in Nat /\ y \in Int /\ w.of <= y
    BY <1>1, <1>2, <1>3, <1>5
  <2> HIDE DEF x, y, n, penalty, top, w
  <2>2. p = w.of - x
    BY DEF x, n
  <2> QED
    BY <1>1, <2>1, <2>2 DEF y, n
<1>7. s = M!Clamp([of |-> p, by |-> n])
  BY <1>4
<1> HIDE DEF s, p, n, top, w, penalty
<1>8. \/ p < 5 * n /\ s = [of |-> 5, by |-> 1]
      \/ 95 * n < p /\ s = [of |-> 95, by |-> 1]
      \/ 5 * n <= p /\ p <= 95 * n /\ s = [of |-> p, by |-> n]
  BY <1>6, <1>7 DEF M!Clamp, M!FLOOR, M!CEILING
<1>9. 95 * n < p => 95 <= top
  <2> SUFFICES ASSUME 95 * n < p, top < 95 PROVE FALSE
    BY <1>5
  <2>1. \A i, j \in Int : i < j => i * n <= j * n
    BY <1>6
  <2>2. top * n <= 95 * n
    BY <1>5, <2>1
  <2> DEFINE y == top * n
  <2>3. y \in Int
    BY <1>5, <1>6
  <2> HIDE DEF y
  <2> QED
    BY <1>6, <2>2, <2>3 DEF y
<1>10. /\ M!LessEq([of |-> 5, by |-> 1], s) /\ M!LessEq(s, [of |-> 95, by |-> 1])
  BY <1>6, <1>8 DEF M!LessEq
<1>11. M!LessEq(s, [of |-> top, by |-> 1]) \/ s.of = 5 * s.by
  BY <1>5, <1>6, <1>8, <1>9 DEF M!LessEq
<1> QED
  BY <1>2, <1>10, <1>11 DEF M!Bounded, M!FLOOR, M!CEILING, s, top

\* Older data and more flagged data never raise a score.
THEOREM PenaltiesOnlyLower ==
  ASSUME NEW outputs, Answers(outputs), DOMAIN outputs # {},
         NEW months \in Nat, NEW material \in Nat, NEW severe \in Nat
  PROVE  M!PenaltiesMonotone(outputs, months, material, severe)
<1> DEFINE w == M!Weighted(outputs, <<>>)
           missed == M!Coverage(DOMAIN outputs, outputs, FALSE)
           Off(m, f, v) == M!Staleness(m) + M!DqPenalty(f, v) + missed
           S1(m, f, v) == M!Aggregate(outputs, {}, <<>>, m, f, v, FALSE)
<1>1. w.of \in Nat /\ w.by \in Nat \ {0}
  BY WeighedAlike
<1>2. \A m, f, v : S1(m, f, v) = M!Clamp([of |-> w.of - Off(m, f, v) * w.by, by |-> w.by])
  BY DEF M!Aggregate
<1>3. \A m, f, v \in Nat : Off(m, f, v) \in Nat
  BY DEF M!Staleness, M!DqPenalty, M!Coverage, M!AtMost, M!STALENESS_CAP, M!STALENESS_PER_MONTH,
         M!DQ_CAP, M!DQ_MATERIAL_PENALTY, M!DQ_SEVERE_PENALTY, M!COVERAGE_PENALTY
<1>4. missed \in Int
  BY DEF M!Coverage, M!COVERAGE_PENALTY
<1>5. M!Staleness(months) \in Nat /\ M!Staleness(months) <= M!Staleness(months + 1)
        /\ M!Staleness(months + 1) \in Nat
  BY DEF M!Staleness, M!AtMost, M!STALENESS_CAP, M!STALENESS_PER_MONTH
<1>6. /\ \A f, v \in Nat : M!DqPenalty(f, v) \in Nat
      /\ M!DqPenalty(material, severe) <= M!DqPenalty(material + 1, severe)
      /\ M!DqPenalty(material + 1, severe) <= M!DqPenalty(material, severe + 1)
  BY DEF M!DqPenalty, M!AtMost, M!DQ_CAP, M!DQ_MATERIAL_PENALTY, M!DQ_SEVERE_PENALTY
<1>7. /\ Off(months, material, severe) <= Off(months + 1, material, severe)
      /\ Off(months, material, severe) <= Off(months, material + 1, severe)
      /\ Off(months, material + 1, severe) <= Off(months, material, severe + 1)
  <2> DEFINE a1 == M!Staleness(months)
             a2 == M!Staleness(months + 1)
             b1 == M!DqPenalty(material, severe)
             b2 == M!DqPenalty(material + 1, severe)
             b3 == M!DqPenalty(material, severe + 1)
  <2>1. a1 \in Nat /\ a2 \in Nat /\ a1 <= a2
    BY <1>5
  <2>2. b1 \in Nat /\ b2 \in Nat /\ b3 \in Nat /\ b1 <= b2 /\ b2 <= b3
    BY <1>6
  <2> HIDE DEF a1, a2, b1, b2, b3, missed
  <2>3. a1 + b1 + missed <= a2 + b1 + missed /\ a1 + b1 + missed <= a1 + b2 + missed
        /\ a1 + b2 + missed <= a1 + b3 + missed
    BY <1>4, <2>1, <2>2
  <2> QED
    BY <2>3 DEF a1, a2, b1, b2, b3
<1> HIDE DEF w, Off, missed
<1>8. ASSUME NEW i \in Nat, NEW j \in Nat, i <= j
      PROVE  M!LessEq(M!Clamp([of |-> w.of - j * w.by, by |-> w.by]),
                      M!Clamp([of |-> w.of - i * w.by, by |-> w.by]))
  <2> DEFINE n == w.by
             p == w.of - j * n
             q == w.of - i * n
  <2>1. p \in Int /\ q \in Int /\ p <= q
    <3>1. i * n \in Int /\ j * n \in Int /\ i * n <= j * n
      BY <1>1, <1>8
    <3> QED
      BY <1>1, <3>1
  <2> HIDE DEF p, q, n
  <2>2. n \in Nat \ {0}
    BY <1>1 DEF n
  <2>3. p * n <= q * n
    BY <2>1, <2>2
  <2>4. M!LessEq(M!Clamp([of |-> p, by |-> n]), M!Clamp([of |-> q, by |-> n]))
    BY <2>1, <2>2, <2>3, ClampKeeps
  <2> QED
    BY <2>4 DEF p, q, n
<1>9. \A m, f, v, k, g, u \in Nat : Off(m, f, v) <= Off(k, g, u) => M!LessEq(S1(k, g, u), S1(m, f, v))
  <2> SUFFICES ASSUME NEW m \in Nat, NEW f \in Nat, NEW v \in Nat, NEW k \in Nat, NEW g \in Nat,
        NEW u \in Nat,
                      Off(m, f, v) <= Off(k, g, u)
               PROVE  M!LessEq(S1(k, g, u), S1(m, f, v))
    OBVIOUS
  <2> HIDE DEF S1
  <2>1. Off(m, f, v) \in Nat /\ Off(k, g, u) \in Nat
    BY <1>3
  <2> QED
    BY <1>2, <1>8, <2>1
<1>10. months + 1 \in Nat /\ material + 1 \in Nat /\ severe + 1 \in Nat
  OBVIOUS
<1> HIDE DEF S1
<1>11. /\ M!LessEq(S1(months + 1, material, severe), S1(months, material, severe))
       /\ M!LessEq(S1(months, material + 1, severe), S1(months, material, severe))
       /\ M!LessEq(S1(months, material, severe + 1), S1(months, material + 1, severe))
  BY <1>7, <1>9, <1>10
<1> QED
  BY <1>11 DEF M!PenaltiesMonotone, S1

\* The confidence of an answer on which nothing is old or flagged: the mean less what is missed.
LEMMA MeanLessMissed ==
  ASSUME NEW outputs, Answers(outputs), DOMAIN outputs # {}, NEW route
  PROVE  LET s == Sum(Confidences(outputs), DOMAIN outputs)
             n == Cardinality(DOMAIN outputs)
             missed == M!Coverage(IF route = {} THEN DOMAIN outputs ELSE route, outputs, FALSE)
         IN /\ s \in Nat /\ n \in Nat \ {0} /\ s <= 100 * n /\ missed \in {0, 15}
            /\ M!Aggregate(outputs, route, <<>>, M!NoDate, 0, 0, FALSE)
                 = M!Clamp([of |-> s - missed * n, by |-> n])
<1> DEFINE s == Sum(Confidences(outputs), DOMAIN outputs)
           n == Cardinality(DOMAIN outputs)
           asked == IF route = {} THEN DOMAIN outputs ELSE route
           missed == M!Coverage(asked, outputs, FALSE)
           w == M!Weighted(outputs, <<>>)
<1>1. w.of = s /\ s \in Nat /\ w.by = n /\ n \in Nat \ {0} /\ s <= 100 * n
  BY WeighedAlike
<1>2. missed \in {0, 15}
  BY DEF M!Coverage, M!COVERAGE_PENALTY
<1>3. M!Staleness(M!NoDate) = 0 /\ M!DqPenalty(0, 0) = 0
  BY DEF M!Staleness, M!NoDate, M!DqPenalty, M!AtMost, M!DQ_CAP,
         M!DQ_MATERIAL_PENALTY, M!DQ_SEVERE_PENALTY
<1>4. M!Aggregate(outputs, route, <<>>, M!NoDate, 0, 0, FALSE)
        = M!Clamp([of |-> w.of - (M!Staleness(M!NoDate) + M!DqPenalty(0, 0) + missed) * w.by,
                   by |-> w.by])
  BY DEF M!Aggregate
<1> HIDE DEF missed, w, s, n
<1>5. M!Staleness(M!NoDate) + M!DqPenalty(0, 0) + missed = missed
  BY <1>2, <1>3
<1>6. M!Aggregate(outputs, route, <<>>, M!NoDate, 0, 0, FALSE)
        = M!Clamp([of |-> s - missed * n, by |-> n])
  BY <1>1, <1>4, <1>5
<1> QED
  BY <1>1, <1>2, <1>6 DEF s, n, missed

\* One agent more that is sure of nothing takes a mean down, and what is missed takes it down further.
LEMMA LowerMean ==
  ASSUME NEW s \in Nat, NEW n \in Nat \ {0}, NEW c \in {0, 15}, NEW d \in {0, 15}, c <= d
  PROVE  /\ (s - d * n) * n <= (s - c * n) * n
         /\ (s - d * (n + 1)) * n <= (s - c * n) * (n + 1)
<1> DEFINE sn == s * n
           nn == n * n
<1>1. sn \in Nat /\ nn \in Nat
  OBVIOUS
<1>2. /\ (s - d * n) * n = sn - d * nn /\ (s - c * n) * n = sn - c * nn
      /\ (s - d * (n + 1)) * n = sn - d * nn - d * n
      /\ (s - c * n) * (n + 1) = sn - c * nn + s - c * n
  BY DEF sn, nn
<1> HIDE DEF sn, nn
<1>3. CASE c = 0 /\ d = 0
  BY <1>1, <1>2, <1>3
<1>4. CASE c = 0 /\ d = 15
  BY <1>1, <1>2, <1>4
<1>5. CASE c = 15 /\ d = 15
  BY <1>1, <1>2, <1>5
<1> QED
  BY <1>3, <1>4, <1>5

\* A mean above the floor is lower once something is missed.
LEMMA MissedIsLower ==
  ASSUME NEW s \in Nat, NEW n \in Nat \ {0}, s <= 100 * n,
         M!FLOOR * M!Clamp([of |-> s, by |-> n]).by < M!Clamp([of |-> s, by |-> n]).of
  PROVE  ~M!LessEq(M!Clamp([of |-> s, by |-> n]), M!Clamp([of |-> s - 15 * n, by |-> n]))
<1> DEFINE whole == M!Clamp([of |-> s, by |-> n])
           t == s - 15 * n
           less == M!Clamp([of |-> t, by |-> n])
           tn == t * n
           sn == s * n
           nn == n * n
<1>1. \/ s < 5 * n /\ whole = [of |-> 5, by |-> 1]
      \/ 95 * n < s /\ whole = [of |-> 95, by |-> 1]
      \/ 5 * n <= s /\ s <= 95 * n /\ whole = [of |-> s, by |-> n]
  BY DEF M!Clamp, M!FLOOR, M!CEILING
<1>2. \/ t < 5 * n /\ less = [of |-> 5, by |-> 1]
      \/ 95 * n < t /\ less = [of |-> 95, by |-> 1]
      \/ 5 * n <= t /\ t <= 95 * n /\ less = [of |-> t, by |-> n]
  BY DEF M!Clamp, M!FLOOR, M!CEILING
<1>3. 5 * whole.by < whole.of
  BY DEF M!FLOOR
<1>4. t \in Int /\ t = s - 15 * n /\ tn \in Int /\ sn \in Int
  OBVIOUS
<1>5. tn < sn
  <2>1. (s - 15 * n) * n = s * n - 15 * (n * n)
    OBVIOUS
  <2>2. n * n > 0
    OBVIOUS
  <2>3. nn \in Int /\ nn > 0 /\ tn = sn - 15 * nn
    BY <2>1, <2>2
  <2> HIDE DEF tn, sn, nn
  <2> QED
    BY <1>4, <2>3
<1> HIDE DEF whole, t, less
<1> SUFFICES less.of * whole.by < whole.of * less.by
  <2>1. less.of \in Int /\ less.by \in Int /\ whole.of \in Int /\ whole.by \in Int
    BY <1>1, <1>2, <1>4
  <2>2. less.of * whole.by \in Int /\ whole.of * less.by \in Int
    BY <2>1
  <2> QED
    BY <2>2 DEF M!LessEq, whole, less, t
<1>6. CASE 95 * n < s /\ whole = [of |-> 95, by |-> 1]
  <2>1. less = [of |-> t, by |-> n]
    BY <1>2, <1>4, <1>6
  <2> QED
    BY <1>4, <1>6, <2>1
<1>7. CASE 5 * n <= s /\ s <= 95 * n /\ whole = [of |-> s, by |-> n]
  <2>1. CASE less = [of |-> 5, by |-> 1]
    BY <1>3, <1>7, <2>1
  <2>2. CASE less = [of |-> t, by |-> n]
    BY <1>5, <1>7, <2>2
  <2>3. t <= 95 * n
    BY <1>4, <1>7
  <2> QED
    BY <1>2, <1>4, <2>1, <2>2, <2>3
<1>8. CASE whole = [of |-> 5, by |-> 1]
  BY <1>3, <1>8
<1> QED
  BY <1>1, <1>6, <1>7, <1>8

\* aggregate: an answer that is lost never helps, whichever agents were asked.
THEOREM LossOnlyLowers ==
  ASSUME NEW outputs, Answers(outputs), NEW route, NEW lost
  PROVE  M!LossNeverHelps(outputs, route, lost)
<1> DEFINE D == DOMAIN outputs
           B == D \ {lost}
           others == [a \in B |-> outputs[a]]
           gone == [confidence |-> 0, error |-> TRUE, degraded |-> TRUE]
           failed == [a \in D |-> IF a = lost THEN gone ELSE outputs[a]]
           whole == M!Aggregate(others, route \ {lost}, <<>>, M!NoDate, 0, 0, FALSE)
           silent == M!Aggregate(others, route, <<>>, M!NoDate, 0, 0, FALSE)
           broken == M!Aggregate(failed, route, <<>>, M!NoDate, 0, 0, FALSE)
           Agents(T, r) == IF r = {} THEN T ELSE r
           cw == M!Coverage(Agents(B, route \ {lost}), others, FALSE)
           cs == M!Coverage(Agents(B, route), others, FALSE)
           cb == M!Coverage(Agents(D, route), failed, FALSE)
           so == Sum(Confidences(others), B)
           n == Cardinality(B)
           sf == Sum(Confidences(failed), D)
           m == Cardinality(D)
<1> SUFFICES ASSUME B # {}
             PROVE  /\ M!LessEq(silent, whole) /\ M!LessEq(broken, silent)
                    /\ /\ lost \in route /\ M!FLOOR * whole.by < whole.of
                       /\ route \ {lost} \subseteq B
                       /\ \A a \in B : ~others[a].error /\ ~others[a].degraded
                       => ~M!LessEq(whole, silent)
  BY Zenon DEF M!LossNeverHelps
<1>1. DOMAIN others = B /\ DOMAIN failed = D /\ D # {} /\ IsFiniteSet(D) /\ IsFiniteSet(B)
  BY FS_Subset DEF Answers
<1>2. Answers(others) /\ Answers(failed)
  <2>1. \A a \in B : others[a] = outputs[a] /\ a \in D /\ failed[a] = outputs[a]
    OBVIOUS
  <2>2. \A a \in D : failed[a] = outputs[a] \/ failed[a] = gone
    OBVIOUS
  <2>3. gone.confidence \in 0..100 /\ gone.error \in BOOLEAN /\ gone.degraded \in BOOLEAN
    OBVIOUS
  <2>4. \A a \in D : /\ outputs[a].confidence \in 0..100
                     /\ outputs[a].error \in BOOLEAN /\ outputs[a].degraded \in BOOLEAN
    BY DEF Answers
  <2> HIDE DEF others, failed, gone, D, B
  <2> QED
    BY <1>1, <2>1, <2>2, <2>3, <2>4 DEF Answers
<1>3. /\ so \in Nat /\ n \in Nat \ {0} /\ so <= 100 * n /\ cw \in {0, 15} /\ cs \in {0, 15}
      /\ whole = M!Clamp([of |-> so - cw * n, by |-> n])
      /\ silent = M!Clamp([of |-> so - cs * n, by |-> n])
  <2>1. /\ so \in Nat /\ n \in Nat \ {0} /\ so <= 100 * n /\ cw \in {0, 15}
        /\ whole = M!Clamp([of |-> so - cw * n, by |-> n])
    <3> HIDE DEF others
    <3> QED
      BY <1>1, <1>2, MeanLessMissed
  <2>2. cs \in {0, 15} /\ silent = M!Clamp([of |-> so - cs * n, by |-> n])
    <3> HIDE DEF others
    <3> QED
      BY <1>1, <1>2, MeanLessMissed
  <2> QED
    BY <2>1, <2>2
<1>4. /\ sf \in Nat /\ m \in Nat \ {0} /\ cb \in {0, 15}
      /\ broken = M!Clamp([of |-> sf - cb * m, by |-> m])
  <2> HIDE DEF failed
  <2> QED
    BY <1>1, <1>2, MeanLessMissed
<1>5. /\ lost \in D => sf = so /\ m = n + 1
      /\ lost \notin D => sf = so /\ m = n
  <2> DEFINE cf == Confidences(failed)
             co == Confidences(others)
  <2>1. \A a \in D : cf[a] \in Int
    <3> SUFFICES ASSUME NEW a \in D PROVE cf[a] \in Int
      OBVIOUS
    <3>1. cf[a] \in 0..100
      BY <1>1, <1>2 DEF Confidences, Answers
    <3> HIDE DEF cf
    <3> QED
      BY <3>1
  <2>2. \A a \in B : cf[a] = co[a] /\ cf[a] \in Int /\ co[a] \in Int
    <3> SUFFICES ASSUME NEW a \in B PROVE cf[a] = co[a] /\ cf[a] \in Int
      OBVIOUS
    <3>1. cf[a] = co[a]
      BY DEF Confidences
    <3> QED
      BY <2>1, <3>1
  <2>3. lost \in D => cf[lost] = 0
    BY DEF Confidences
  <2> HIDE DEF cf, co, D
  <2>4. Sum(cf, B) = so /\ so \in Int
    BY <1>1, <2>2, SumSame DEF co
  <2>5. lost \notin D => D = B
    OBVIOUS
  <2>6. ASSUME lost \in D PROVE sf = so /\ m = n + 1
    <3>1. D = B \cup {lost} /\ B \cap {lost} = {} /\ B \in SUBSET D /\ {lost} \in SUBSET D
      BY <2>6
    <3>2. Sum(cf, D) = Sum(cf, B) + Sum(cf, {lost})
      BY <1>1, <2>1, <3>1, SumUnion
    <3>3. Sum(cf, {lost}) = 0 * Cardinality({lost}) /\ Cardinality({lost}) = 1
      <4>1. IsFiniteSet({lost}) /\ Cardinality({lost}) = 1 /\ \A x \in {lost} : cf[x] = 0
        BY <2>3, <2>6, FS_Singleton
      <4> QED
        BY ONLY <4>1, SumConstant
    <3>4. m = n + 1
      BY <1>1, <3>1, <2>6, FS_AddElement
    <3> QED
      BY <2>4, <3>2, <3>3, <3>4 DEF cf
  <2> QED
    BY <2>4, <2>5, <2>6 DEF cf
<1>6. cw <= cs /\ cs <= cb
  <2> DEFINE Missed(r, out) == \E a \in r : a \notin DOMAIN out \/ out[a].error \/ out[a].degraded
  <2>1. \A r, out : M!Coverage(r, out, FALSE) = IF Missed(r, out) THEN 15 ELSE 0
    BY DEF M!Coverage, M!COVERAGE_PENALTY
  <2>2. Missed(Agents(B, route \ {lost}), others) => Missed(Agents(B, route), others)
    OBVIOUS
  <2>3. Missed(Agents(B, route), others) => Missed(Agents(D, route), failed)
    <3> SUFFICES ASSUME NEW a \in Agents(B, route),
                        a \notin B \/ outputs[a].error \/ outputs[a].degraded
                 PROVE  a \in Agents(D, route) /\ (a \notin D \/ failed[a].error \/ failed[a].degraded)
      BY <1>1
    <3>1. a \in Agents(D, route)
      OBVIOUS
    <3> QED
      BY <3>1
  <2> HIDE DEF Missed, Agents, others, failed, B, D
  <2>4. cw = IF Missed(Agents(B, route \ {lost}), others) THEN 15 ELSE 0
    BY <2>1
  <2>5. cs = IF Missed(Agents(B, route), others) THEN 15 ELSE 0
    BY <2>1
  <2>6. cb = IF Missed(Agents(D, route), failed) THEN 15 ELSE 0
    BY <2>1
  <2> HIDE DEF cw, cs, cb
  <2> QED
    BY <2>2, <2>3, <2>4, <2>5, <2>6
<1>7. M!LessEq(silent, whole)
  <2> HIDE DEF silent, whole, cw, cs, so, n
  <2>1. (so - cs * n) * n <= (so - cw * n) * n
    BY <1>3, <1>6, LowerMean
  <2>2. so - cs * n \in Int /\ so - cw * n \in Int
    BY <1>3
  <2> QED
    BY <1>3, <2>1, <2>2, ClampKeeps
<1>8. M!LessEq(broken, silent)
  <2> HIDE DEF silent, broken, cb, cs, so, n, sf, m, D
  <2>1. (sf - cb * m) * n <= (so - cs * n) * m
    <3>1. (so - cb * n) * n <= (so - cs * n) * n /\ (so - cb * (n + 1)) * n <= (so - cs * n) * (n + 1)
      BY <1>3, <1>4, <1>6, LowerMean
    <3> QED
      BY <1>5, <3>1
  <2>2. sf - cb * m \in Int /\ so - cs * n \in Int
    BY <1>3, <1>4
  <2> QED
    BY <1>3, <1>4, <2>1, <2>2, ClampKeeps
<1>9. ASSUME lost \in route, M!FLOOR * whole.by < whole.of, route \ {lost} \subseteq B,
             \A a \in B : ~others[a].error /\ ~others[a].degraded
      PROVE  ~M!LessEq(whole, silent)
  <2>1. cw = 0
    BY <1>1, <1>9 DEF M!Coverage
  <2>2. cs = 15
    BY <1>1, <1>9 DEF M!Coverage, M!COVERAGE_PENALTY
  <2> HIDE DEF silent, whole, cw, cs, so, n
  <2>3. whole = M!Clamp([of |-> so, by |-> n]) /\ silent = M!Clamp([of |-> so - 15 * n, by |-> n])
    BY <1>3, <2>1, <2>2
  <2> QED
    BY <1>3, <1>9, <2>3, MissedIsLower
<1> QED
  BY <1>7, <1>8, <1>9

LEMMA FindingBasics ==
  ASSUME NEW T, IsFiniteSet(T)
  PROVE  /\ F!Cardinality(T) = Cardinality(T) /\ Cardinality(T) \in Nat
         /\ T = {} => Cardinality(T) = 0
         /\ T # {} => Cardinality(T) > 0
         /\ T # {} /\ T \subseteq Int => F!Min(T) \in T /\ \A x \in T : F!Min(T) <= x
<1>1. F!Cardinality(T) = S!Cardinality(T) /\ F!Min(T) = S!Min(T)
  BY DEF F!Cardinality, S!Cardinality, F!Min, S!Min
<1> QED
  BY <1>1, SeriesBasics, FS_EmptySet

LEMMA DigitsCount ==
  ASSUME NEW n
  PROVE  F!Digits(n) \in Nat \ {0}
<1> DEFINE T == {k \in 1..9 : n \div F!Power(k) > 0}
<1>1. IsFiniteSet(T)
  <2>1. PICK i, j \in Int : i = 1 /\ j = 9
    OBVIOUS
  <2>2. IsFiniteSet(1..9)
    BY <2>1, FS_Interval
  <2>3. T \subseteq 1..9
    OBVIOUS
  <2> HIDE DEF T
  <2> QED
    BY <2>2, <2>3, FS_Subset
<1>2. F!Cardinality(T) \in Nat
  BY <1>1, FindingBasics
<1> QED
  BY <1>2 DEF F!Digits

FigureTexts == [neg : BOOLEAN, int : Nat, decimals : Nat, milli : 0..999]

\* What readers are shown of a figure: one of the ways it is written, with its sign and two decimals.
LEMMA ShownIsWritten ==
  ASSUME NEW v \in FigureTexts
  PROVE  LET shown == F!ReadableAmount(v)
         IN /\ shown \in F!Corpus({v}) /\ shown.neg = v.neg /\ shown.decimals = 2
            /\ v.int >= 10000 => shown.int >= 1
            /\ shown = [neg |-> v.neg, int |-> shown.int, decimals |-> 2, milli |-> 0]
<1> DEFINE shown == F!ReadableAmount(v)
           Hundredths(scale) == (v.int + scale \div 200) \div (scale \div 100)
           In(scale) == F!Figure(v.neg, Hundredths(scale) \div 100, 2, 0)
<1>0. v.int \in Nat /\ v.milli \in 0..999 /\ v.neg \in BOOLEAN
  BY DEF FigureTexts
<1>1. F!Corpus({v}) = {v, F!Rounded(v)} \cup F!Significant(v) \cup F!ScaledForms(v)
  BY DEF F!Corpus
<1>2. ASSUME NEW scale \in {F!Million, F!Billion}, v.int >= scale, shown = In(scale)
      PROVE  /\ shown \in F!Corpus({v}) /\ shown.neg = v.neg /\ shown.decimals = 2
             /\ shown = [neg |-> v.neg, int |-> shown.int, decimals |-> 2, milli |-> 0]
             /\ shown.int >= 1
  <2>1. In(scale) \in {F!Figure(v.neg, ((v.int + scale \div (2 * d)) \div (scale \div d)) \div d,
                                2, 0) : d \in {1, 10, 100}}
    <3>1. 2 * 100 = 200
      OBVIOUS
    <3> QED
      BY <3>1
  <2>2. In(scale) \in F!ScaledForms(v)
    BY <1>2, <2>1 DEF F!ScaledForms
  <2>3. ((v.int + scale \div 200) \div (scale \div 100)) \div 100 >= 1
    <3>1. CASE scale = 1000000
      BY <1>0, <1>2, <3>1
    <3>2. CASE scale = 1000000000
      BY <1>0, <1>2, <3>2
    <3> QED
      BY <3>1, <3>2 DEF F!Million, F!Billion
  <2> DEFINE n == ((v.int + scale \div 200) \div (scale \div 100)) \div 100
  <2>4. shown = [neg |-> v.neg, int |-> n, decimals |-> 2, milli |-> 0] /\ n >= 1
    BY <1>2, <2>3 DEF F!Figure
  <2>5. shown \in F!Corpus({v})
    BY <1>1, <1>2, <2>2
  <2> HIDE DEF n, shown
  <2> QED
    BY <2>4, <2>5
<1>3. CASE v.int >= F!Billion
  BY <1>2, <1>3 DEF F!ReadableAmount
<1>4. CASE v.int < F!Billion /\ v.int >= F!Million
  BY <1>2, <1>4 DEF F!ReadableAmount, F!Billion, F!Million
<1>5. CASE v.int < F!Million
  <2> DEFINE n == IF v.milli >= 995 THEN v.int + 1 ELSE v.int
  <2>1. shown = F!Rounded(v)
    BY <1>0, <1>5 DEF F!ReadableAmount, F!Billion, F!Million
  <2>2. F!Rounded(v) = [neg |-> v.neg, int |-> n, decimals |-> 2, milli |-> 0]
    BY DEF F!Rounded, F!Figure
  <2>3. v.int >= 10000 => n >= 1
    BY <1>0
  <2>4. F!Rounded(v) \in F!Corpus({v})
    BY <1>1
  <2> HIDE DEF n, shown
  <2>5. shown = [neg |-> v.neg, int |-> n, decimals |-> 2, milli |-> 0]
    BY <2>1, <2>2
  <2>6. shown \in F!Corpus({v}) /\ shown.neg = v.neg /\ shown.decimals = 2 /\ shown.int = n
    BY <2>1, <2>4, <2>5
  <2> QED
    BY <2>3, <2>5, <2>6 DEF shown
<1> QED
  BY <1>0, <1>3, <1>4, <1>5 DEF F!Billion, F!Million

\* Every way a figure is written has its sign, but the exponent of a large one, which is 0.
LEMMA WrittenWithItsSign ==
  ASSUME NEW v \in FigureTexts, NEW g \in F!Corpus({v})
  PROVE  g.neg = v.neg \/ (v.int >= 10000 /\ g.int = 0)
<1>1. g \in {v, F!Rounded(v)} \cup F!Significant(v) \cup F!ScaledForms(v)
  BY DEF F!Corpus
<1>2. CASE g \in {v, F!Rounded(v)}
  BY <1>2 DEF F!Rounded, F!Figure
<1>3. CASE g \in F!ScaledForms(v)
  BY <1>3 DEF F!ScaledForms, F!Figure
<1>4. CASE g \in F!Significant(v)
  <2> DEFINE lead == F!Max({k \in 0..9 : v.int \div F!Power(k) > 0})
             unit == F!Power(lead - 3)
             head == IF (v.int + unit \div 2) \div unit >= F!Power(4) THEN 1
                     ELSE v.int \div F!Power(lead)
             many == {F!Figure(v.neg, head, 3, 0), F!Figure(FALSE, 0, 1, 0)}
             four == {F!Figure(v.neg, IF v.milli > 500 THEN v.int + 1 ELSE v.int, 0, 0)}
  <2>1. F!Significant(v) = CASE v.int >= F!Power(4) -> many
                              [] v.int < F!Power(4) /\ v.int >= F!Power(3) -> four
                              [] OTHER -> {}
    BY Zenon DEF F!Significant
  <2>2. \A f \in four : f.neg = v.neg
    BY DEF F!Figure
  <2>3. \A f \in many : f.neg = v.neg \/ f.int = 0
    <3> HIDE DEF head
    <3> QED
      BY DEF F!Figure
  <2> HIDE DEF many, four
  <2>0. F!Power(4) = 10000
    BY DEF F!Power
  <2>4. CASE v.int >= F!Power(4)
    <3>1. ~(v.int < F!Power(4) /\ v.int >= F!Power(3))
      BY <2>0, <2>4 DEF FigureTexts
    <3>2. F!Significant(v) = many
      BY <2>1, <2>4, <3>1
    <3> QED
      BY <1>4, <2>0, <2>3, <2>4, <3>2
  <2>5. CASE ~(v.int >= F!Power(4))
    <3>1. F!Significant(v) \subseteq four
      BY <2>1, <2>5
    <3> QED
      BY <1>4, <2>2, <3>1
  <2> QED
    BY <2>4, <2>5
<1> QED
  BY <1>1, <1>2, <1>3, <1>4

LEMMA PowersCount == \A k \in 1..9 : F!Power(k) \in Nat \ {0}
<1> SUFFICES ASSUME NEW k \in 1..9 PROVE F!Power(k) \in Nat \ {0}
  OBVIOUS
<1> DEFINE p == <<1, 10, 100, 1000, 10000, 100000, 1000000, 10000000, 100000000, 1000000000>>
<1>1. \/ k = 1 \/ k = 2 \/ k = 3 \/ k = 4 \/ k = 5 \/ k = 6 \/ k = 7 \/ k = 8 \/ k = 9
  OBVIOUS
<1>2. F!Power(k) = p[k + 1]
  BY DEF F!Power, F!Million, F!Billion
<1> QED
  BY <1>1, <1>2

\* readable_amount and ungrounded_figures: what readers are shown of a finding is never
\* rejected, and with the other sign it is, unless its sentence says that it fell.
THEOREM ReadablesAreGrounded ==
  ASSUME NEW v \in FigureTexts
  PROVE  F!ReadableIsGrounded(v)
<1> DEFINE shown == F!ReadableAmount(v)
           flipped == [shown EXCEPT !.neg = ~v.neg]
           pool == F!Corpus({v})
           Said(f, fell) == F!UngroundedFigures({[figures |-> {f}, fell |-> fell]}, pool, TRUE)
<1>1. /\ shown \in pool /\ shown.neg = v.neg /\ shown.decimals = 2
      /\ v.int >= 10000 => shown.int >= 1
      /\ shown = [neg |-> v.neg, int |-> shown.int, decimals |-> 2, milli |-> 0]
  BY ShownIsWritten
<1>2. flipped = [neg |-> ~v.neg, int |-> shown.int, decimals |-> 2, milli |-> 0]
  BY <1>1
<1>3. v.neg \in BOOLEAN /\ v.int \in Nat
  BY DEF FigureTexts
<1>4. \A g \in pool : g.neg = v.neg \/ (v.int >= 10000 /\ g.int = 0)
  BY WrittenWithItsSign
<1> HIDE DEF shown, flipped, pool
<1>5. \A f, fell : Said(f, fell) = {} <=>
         \/ F!Structural(f) \/ F!GroundedBy(f, pool)
         \/ fell /\ ~f.neg /\ F!GroundedBy(f, F!Fallen(pool))
  BY DEF F!UngroundedFigures, F!Ungrounded
<1>6. F!GroundedBy(shown, pool)
  BY <1>1 DEF F!GroundedBy, F!StartsWith
<1>7. ~F!Structural(flipped)
  <2>1. F!Digits(flipped.int) \in Nat \ {0} /\ flipped.decimals = 2
    BY <1>2, DigitsCount
  <2> QED
    BY <2>1 DEF F!Structural, F!STRUCTURAL_DIGIT_LIMIT
<1>8. ~F!GroundedBy(flipped, pool)
  <2> SUFFICES ASSUME NEW g \in pool, F!StartsWith(g, flipped) PROVE FALSE
    BY DEF F!GroundedBy
  <2>1. g.neg = ~v.neg
    BY <1>2 DEF F!StartsWith
  <2>2. v.int >= 10000 /\ g.int = 0 /\ shown.int >= 1
    BY <1>1, <1>3, <1>4, <2>1
  <2>3. \/ shown.int = 0
        \/ \E k \in 1..9 : 0 \div F!Power(k) = shown.int
    BY <1>2, <2>2 DEF F!StartsWith
  <2>4. \A k \in 1..9 : 0 \div F!Power(k) = 0
    BY PowersCount
  <2> QED
    BY <2>2, <2>3, <2>4
<1>9. v.neg => F!GroundedBy(flipped, F!Fallen(pool))
  <2> SUFFICES ASSUME v.neg PROVE F!GroundedBy(flipped, F!Fallen(pool))
    OBVIOUS
  <2>1. [shown EXCEPT !.neg = FALSE] \in F!Fallen(pool)
    BY <1>1 DEF F!Fallen
  <2>2. [shown EXCEPT !.neg = FALSE] = flipped
    BY <1>3 DEF flipped
  <2> QED
    BY <2>1, <2>2 DEF F!GroundedBy, F!StartsWith
<1>10. flipped.neg = ~v.neg
  BY <1>2
<1> HIDE DEF Said
<1>11. /\ \A fell \in BOOLEAN : Said(shown, fell) = {}
       /\ \A fell \in BOOLEAN : Said(flipped, fell) = {} <=> (fell /\ v.neg)
  BY <1>3, <1>5, <1>6, <1>7, <1>8, <1>9, <1>10
<1> QED
  BY <1>11 DEF F!ReadableIsGrounded, Said, shown, flipped, pool

LEMMA AggregateIsOne ==
  ASSUME NEW outputs, NEW route, NEW relevance, NEW months, NEW material, NEW severe, NEW missed
  PROVE  F!Aggregate(outputs, route, relevance, months, material, severe, missed)
           = M!Aggregate(outputs, route, relevance, months, material, severe, missed)
<1>1. \A h : M!SumFunction(h) = F!SumFunction(h)
  BY DEF M!SumFunction, M!SumFunctionOnSet, M!FoldFunctionOnSet, M!MapThenFoldSet,
         F!SumFunction, F!SumFunctionOnSet, F!FoldFunctionOnSet, F!MapThenFoldSet
<1>2. \A r, a : F!WeightOf(r, a) = M!WeightOf(r, a)
  BY DEF F!WeightOf, M!WeightOf
<1>3. F!Weighted(outputs, relevance) = M!Weighted(outputs, relevance)
  BY <1>1, <1>2 DEF F!Weighted, M!Weighted
<1>4. F!Staleness(months) = M!Staleness(months)
  BY DEF F!Staleness, M!Staleness, F!AtMost, M!AtMost, F!STALENESS_CAP, M!STALENESS_CAP,
         F!STALENESS_PER_MONTH, M!STALENESS_PER_MONTH
<1>5. F!DqPenalty(material, severe) = M!DqPenalty(material, severe)
  BY DEF F!DqPenalty, M!DqPenalty, F!AtMost, M!AtMost, F!DQ_CAP, M!DQ_CAP,
         F!DQ_MATERIAL_PENALTY, M!DQ_MATERIAL_PENALTY, F!DQ_SEVERE_PENALTY, M!DQ_SEVERE_PENALTY
<1>6. \A r : F!Coverage(r, outputs, missed) = M!Coverage(r, outputs, missed)
  BY DEF F!Coverage, M!Coverage, F!COVERAGE_PENALTY, M!COVERAGE_PENALTY
<1>7. \A s : F!Clamp(s) = M!Clamp(s)
  BY DEF F!Clamp, M!Clamp, F!FLOOR, M!FLOOR, F!CEILING, M!CEILING
<1> QED
  BY <1>3, <1>4, <1>5, <1>6, <1>7 DEF F!Aggregate, M!Aggregate

\* One agent's mean is its own score, unless it counts for nothing.
LEMMA WeighedAlone ==
  ASSUME NEW k \in Nat, NEW outputs, DOMAIN outputs = {"self"}, outputs["self"].confidence = k,
         NEW weight \in Int
  PROVE  M!Weighted(outputs, [self |-> weight])
           = IF weight > 0 THEN [of |-> weight * k, by |-> weight] ELSE [of |-> 0, by |-> 1]
<1> DEFINE relevance == [self |-> weight]
           counted == {a \in DOMAIN outputs : M!WeightOf(relevance, a) > 0}
           f == [a \in counted |-> M!WeightOf(relevance, a)]
           g == [a \in counted |-> M!WeightOf(relevance, a) * outputs[a].confidence]
           w == M!Weighted(outputs, relevance)
           wk == weight * k
<1>1. M!WeightOf(relevance, "self") = weight
  BY DEF M!WeightOf
<1>2. w = IF M!SumFunction(f) = 0 THEN [of |-> 0, by |-> 1]
          ELSE [of |-> M!SumFunction(g), by |-> M!SumFunction(f)]
  BY DEF M!Weighted
<1>3. wk \in Int
  OBVIOUS
<1> HIDE DEF w, relevance, wk
<1>4. counted = IF weight > 0 THEN {"self"} ELSE {}
  BY <1>1
<1>5. \A a \in counted : f[a] = weight /\ g[a] = wk
  BY <1>1, <1>4 DEF wk
<1>6. f = [a \in counted |-> f[a]] /\ g = [a \in counted |-> g[a]]
  OBVIOUS
<1>7. /\ IsFiniteSet({"self"}) /\ Cardinality({"self"}) = 1
      /\ IsFiniteSet({}) /\ Cardinality({}) = 0
  BY FS_Singleton, FS_EmptySet
<1>8. IsFiniteSet(counted) /\ Cardinality(counted) = IF weight > 0 THEN 1 ELSE 0
  BY <1>4, <1>7
<1> HIDE DEF f, g, counted
<1>9. M!SumFunction(f) = Sum(f, counted) /\ M!SumFunction(g) = Sum(g, counted)
  <2>1. \A a \in counted : f[a] \in Int /\ g[a] \in Int
    BY <1>3, <1>5
  <2>2. /\ M!SumFunction([a \in counted |-> f[a]]) = Sum(f, counted)
        /\ M!SumFunction([a \in counted |-> g[a]]) = Sum(g, counted)
    BY <1>8, <2>1, ScoreTotal
  <2> QED
    BY <1>6, <2>2
<1>10. Sum(f, counted) = weight * Cardinality(counted) /\ Sum(g, counted) = wk * Cardinality(counted)
  BY <1>3, <1>5, <1>8, SumConstant
<1>11. CASE weight > 0
  <2>1. Sum(f, counted) = weight /\ Sum(g, counted) = wk
    BY <1>3, <1>8, <1>10, <1>11
  <2> QED
    BY <1>2, <1>9, <1>11, <2>1 DEF w, relevance, wk
<1>12. CASE ~(weight > 0)
  <2>1. Sum(f, counted) = 0
    BY <1>8, <1>10, <1>12
  <2> QED
    BY <1>2, <1>9, <1>12, <2>1 DEF w, relevance
<1> QED
  BY <1>11, <1>12

\* _confidence: of figures, evidence and whether the prose was kept, by the router's weight.
LEMMA SelfScores ==
  ASSUME NEW figures \in Nat, NEW evidence \in Nat, NEW degraded \in BOOLEAN, NEW weight \in Int
  PROVE  LET s == F!SelfScore(figures, evidence, degraded, weight)
         IN /\ weight > 0 /\ figures > 0 => ~F!Declines(s)
            /\ figures = 0 /\ evidence <= 1 => F!Declines(s)
            /\ weight <= 0 => F!Declines(s)
<1> DEFINE base == (IF figures > 0 THEN 90 ELSE 30) - (IF evidence < 2 THEN (2 - evidence) * 15 ELSE 0)
           k == IF base < 0 THEN 0 ELSE base
           mine == [confidence |-> k, error |-> FALSE, degraded |-> degraded]
           outputs == [self |-> mine]
           relevance == [self |-> weight]
           s == F!SelfScore(figures, evidence, degraded, weight)
           w == M!Weighted(outputs, relevance)
           missed == M!Coverage({"self"}, outputs, FALSE)
           d == k - missed
<1>1. /\ k \in Nat /\ k <= 90 /\ (figures > 0 => k >= 60)
      /\ figures = 0 /\ evidence <= 1 => k <= 15
  OBVIOUS
<1>2. s = M!Aggregate(outputs, {"self"}, relevance, M!NoDate, 0, 0, FALSE)
  <2>1. F!NoDate = M!NoDate
    BY DEF F!NoDate, M!NoDate
  <2>2. s = F!Aggregate(outputs, {"self"}, relevance, F!NoDate, 0, 0, FALSE)
    BY DEF F!SelfScore
  <2> HIDE DEF s, outputs, relevance
  <2> QED
    BY <2>1, <2>2, AggregateIsOne
<1> HIDE DEF k, base
<1>3. DOMAIN outputs = {"self"} /\ outputs["self"].confidence = k
  OBVIOUS
<1>4. w = IF weight > 0 THEN [of |-> weight * k, by |-> weight] ELSE [of |-> 0, by |-> 1]
  BY <1>1, <1>3, WeighedAlone
<1> HIDE DEF mine, outputs, relevance
<1>5. missed \in {0, 15}
  BY DEF M!Coverage, M!COVERAGE_PENALTY
<1>6. M!Staleness(M!NoDate) = 0 /\ M!DqPenalty(0, 0) = 0
  BY DEF M!Staleness, M!NoDate, M!DqPenalty, M!AtMost, M!DQ_CAP,
         M!DQ_MATERIAL_PENALTY, M!DQ_SEVERE_PENALTY
<1>7. s = M!Clamp([of |-> w.of - missed * w.by, by |-> w.by])
  <2>1. (IF {"self"} = {} THEN DOMAIN outputs ELSE {"self"}) = {"self"}
    OBVIOUS
  <2>2. s = M!Clamp([of |-> w.of - (M!Staleness(M!NoDate) + M!DqPenalty(0, 0) + missed) * w.by,
                     by |-> w.by])
    BY <1>2, <2>1 DEF M!Aggregate
  <2> HIDE DEF s, w, missed
  <2>3. M!Staleness(M!NoDate) + M!DqPenalty(0, 0) + missed = missed
    BY <1>5, <1>6
  <2> QED
    BY <2>2, <2>3
<1> HIDE DEF s, w, missed
<1>8. CASE weight <= 0
  <2>1. w = [of |-> 0, by |-> 1]
    BY <1>4, <1>8
  <2>2. s = M!Clamp([of |-> 0 - missed, by |-> 1])
    BY <1>5, <1>7, <2>1
  <2>3. s = [of |-> 5, by |-> 1]
    BY <1>5, <2>2 DEF M!Clamp, M!FLOOR, M!CEILING
  <2>4. F!Declines(s)
    BY <2>3 DEF F!Declines
  <2> QED
    BY <1>8, <2>4 DEF s
<1>9. CASE weight > 0
  <2> DEFINE dw == d * weight
  <2>1. d \in Int /\ -15 <= d /\ d <= 90
        /\ (figures > 0 => d >= 45) /\ (figures = 0 /\ evidence <= 1 => d <= 15)
    BY <1>1, <1>5
  <2>2. weight * k - missed * weight = dw
    BY <1>1, <1>5
  <2>3. s = M!Clamp([of |-> dw, by |-> weight])
    <3>1. w = [of |-> weight * k, by |-> weight]
      BY <1>4, <1>9
    <3> HIDE DEF dw, d
    <3> QED
      BY <1>7, <2>2, <3>1
  <2>4. \A i, j \in Int : i <= j => i * weight <= j * weight
    BY <1>9
  <2>5. dw \in Int
    BY <2>1
  <2> HIDE DEF d
  <2>6. /\ figures > 0 => 45 * weight <= dw
        /\ figures = 0 /\ evidence <= 1 => dw <= 15 * weight
        /\ dw <= 90 * weight
    BY <2>1, <2>4
  <2> HIDE DEF dw
  <2>7. \/ dw < 5 * weight /\ s = [of |-> 5, by |-> 1]
        \/ 5 * weight <= dw /\ s = [of |-> dw, by |-> weight]
    BY <1>9, <2>3, <2>5, <2>6 DEF M!Clamp, M!FLOOR, M!CEILING
  <2>8. figures > 0 => ~(s.of < 25 * s.by)
    BY <1>9, <2>5, <2>6, <2>7
  <2>9. figures = 0 /\ evidence <= 1 => s.of < 25 * s.by
    BY <1>9, <2>5, <2>6, <2>7
  <2> QED
    BY <1>9, <2>8, <2>9 DEF F!Declines, s
<1> QED
  BY <1>8, <1>9

\* finish and the merge, for any findings, prose and weight: an agent scored by the formula is
\* heard with figures and a weight, and is a refusal with nothing or with no weight; a score
\* of its own decides for itself.
THEOREM FindingsHeard ==
  ASSUME NEW findings, IsFiniteSet(findings.values), findings.evidence \in Nat,
         findings.weight \in Int, findings.own \in -1..100, NEW prose
  PROVE  F!FindingsAreHeard(findings, prose)
<1> DEFINE pool == F!Corpus(findings.values \cup findings.asked)
           kept == prose # {} /\ F!UngroundedFigures(prose, pool, TRUE) = {}
           figures == F!Cardinality(findings.values)
           score == F!Finish(findings, prose, TRUE).confidence
           s == F!SelfScore(figures, findings.evidence, ~kept, findings.weight)
           own == F!Clamp([of |-> findings.own, by |-> 1])
<1>1. score = IF findings.own # F!NoScore THEN own ELSE s
  BY DEF F!Finish
<1>2. /\ figures \in Nat
      /\ findings.values # {} => figures > 0
      /\ findings.values = {} => figures = 0
  BY FindingBasics
<1>3. (~kept) \in BOOLEAN
  OBVIOUS
<1> HIDE DEF figures, kept
<1>4. /\ findings.weight > 0 /\ figures > 0 => ~F!Declines(s)
      /\ figures = 0 /\ findings.evidence <= 1 => F!Declines(s)
      /\ findings.weight <= 0 => F!Declines(s)
  BY <1>2, <1>3, SelfScores
<1>5. F!Declines(own) <=> findings.own < 25
  BY DEF F!Declines, F!Clamp, F!FLOOR, F!CEILING
<1> HIDE DEF s, score, own
<1> QED
  BY <1>1, <1>2, <1>4, <1>5 DEF F!FindingsAreHeard, score

\* What several items found, each figure under its item's name: as many as they found.
LEMMA NamedApart ==
  ASSUME NEW T, IsFiniteSet(T), NEW found, \A i \in T : IsFiniteSet(found[i]),
         NEW count, \A i \in T : count[i] = Cardinality(found[i])
  PROVE  LET under == UNION {{<<i, x>> : x \in found[i]} : i \in T}
         IN IsFiniteSet(under) /\ Cardinality(under) = Sum(count, T)
<1> DEFINE Tagged(i) == {<<i, x>> : x \in found[i]}
           Under(t) == UNION {Tagged(i) : i \in t}
<1>1. \A i \in T : IsFiniteSet(Tagged(i)) /\ Cardinality(Tagged(i)) = count[i] /\ count[i] \in Int
  <2> SUFFICES ASSUME NEW i \in T
               PROVE  IsFiniteSet(Tagged(i)) /\ Cardinality(Tagged(i)) = count[i] /\ count[i] \in Int
    OBVIOUS
  <2> DEFINE D == found[i]
             E1 == Tagged(i)
             f == [x \in D |-> <<i, x>>]
  <2>1. f \in Bijection(D, E1)
    BY DEF Bijection, Injection, Surjection, IsInjective
  <2>2. IsFiniteSet(D) /\ count[i] = Cardinality(D) /\ Cardinality(D) \in Nat
    BY FS_CardinalityType
  <2> HIDE DEF f, D, E1
  <2>3. IsFiniteSet(E1) /\ Cardinality(E1) = Cardinality(D)
    BY <2>1, <2>2, FS_Bijection DEF ExistsBijection
  <2> QED
    BY <2>2, <2>3 DEF E1
<1>2. PICK g : Additive(g, count, T)
  BY <1>1, SumAdds
<1> DEFINE Good == {t \in SUBSET T : IsFiniteSet(Under(t)) /\ Cardinality(Under(t)) = g[t]}
<1>3. ASSUME NEW t \in SUBSET T, t # {} => t \ {Chosen(t)} \in Good PROVE t \in Good
  <2>1. CASE t = {}
    <3>1. Under({}) = {}
      OBVIOUS
    <3> HIDE DEF Under
    <3> QED
      BY <1>2, <2>1, <3>1, FS_EmptySet DEF Additive
  <2>2. CASE t # {}
    <3> DEFINE i == Chosen(t)
               rest == t \ {i}
    <3>1. i \in t /\ IsFiniteSet(Under(rest)) /\ Cardinality(Under(rest)) = g[rest]
      BY <1>3, <2>2, ChosenOne
    <3> HIDE DEF i
    <3>2. Under(t) = Tagged(i) \cup Under(rest) /\ Tagged(i) \cap Under(rest) = {}
      <4>1. Under(t) \subseteq Tagged(i) \cup Under(rest)
        OBVIOUS
      <4>2. Tagged(i) \cup Under(rest) \subseteq Under(t)
        BY <3>1
      <4>3. Tagged(i) \cap Under(rest) = {}
        OBVIOUS
      <4> QED
        BY <4>1, <4>2, <4>3
    <3>3. g[t] = count[i] + g[rest] /\ g[rest] \in Int
      BY <1>2, <3>1 DEF Additive
    <3> HIDE DEF Under, Tagged, rest
    <3>4. IsFiniteSet(Tagged(i)) /\ Cardinality(Tagged(i)) = count[i] /\ count[i] \in Int
      BY <1>1, <3>1
    <3>5. /\ IsFiniteSet(Under(t))
          /\ Cardinality(Under(t)) = Cardinality(Tagged(i)) + Cardinality(Under(rest))
                                         - Cardinality({})
      BY <3>1, <3>2, <3>4, FS_Union
    <3>6. Cardinality({}) = 0
      BY FS_EmptySet
    <3> QED
      BY <3>1, <3>3, <3>4, <3>5, <3>6
  <2> QED
    BY <2>1, <2>2
<1> HIDE DEF Good
<1>4. SUBSET T \subseteq Good
  BY ONLY <1>3, OneByOne, IsFiniteSet(T)
<1> QED
  BY <1>2, <1>4 DEF Good, Additive

\* combine_outputs: no figure is lost and the least of the items is what is trusted.
THEOREM LeastIsTrusted ==
  ASSUME NEW outs, IsFiniteSet(DOMAIN outs), DOMAIN outs # {},
         \A i \in DOMAIN outs : IsFiniteSet(outs[i].figures) /\ outs[i].confidence \in Int
  PROVE  F!CombinedIsWeakest(outs)
<1> DEFINE D == DOMAIN outs
           found == [i \in D |-> outs[i].figures]
           count == [i \in D |-> F!Cardinality(outs[i].figures)]
           scores == {outs[i].confidence : i \in D}
           all == F!CombineOutputs(outs)
<1>1. \A i \in D : IsFiniteSet(found[i]) /\ count[i] = Cardinality(found[i]) /\ count[i] \in Int
  <2> SUFFICES ASSUME NEW i \in D
               PROVE  IsFiniteSet(found[i]) /\ count[i] = Cardinality(found[i]) /\ count[i] \in Int
    OBVIOUS
  <2>1. found[i] = outs[i].figures /\ count[i] = F!Cardinality(outs[i].figures)
    OBVIOUS
  <2> HIDE DEF found, count
  <2>2. IsFiniteSet(found[i])
    BY <2>1
  <2> QED
    BY <2>1, <2>2, FindingBasics
<1>2. all.figures = UNION {{<<i, x>> : x \in found[i]} : i \in D}
  BY DEF F!CombineOutputs, F!Under
<1>3. all.confidence = F!Min(scores) /\ all.degraded = \E i \in DOMAIN outs : outs[i].degraded
  BY DEF F!CombineOutputs
<1>4. \A i \in D : outs[i].confidence \in scores
  OBVIOUS
<1>5. scores # {} /\ scores \subseteq Int /\ IsFiniteSet(scores)
  <2> DEFINE conf == [i \in D |-> outs[i].confidence]
  <2>1. scores = {conf[i] : i \in D}
    OBVIOUS
  <2>2. scores # {} /\ scores \subseteq Int
    OBVIOUS
  <2> HIDE DEF conf, D, scores
  <2> QED
    BY <2>1, <2>2, ImageFinite DEF D
<1> HIDE DEF scores, found, count, all
<1>6. \A i \in D : all.confidence <= outs[i].confidence
  BY <1>3, <1>4, <1>5, FindingBasics
<1>7. F!Cardinality(all.figures) = Sum(count, D)
  <2> DEFINE under == UNION {{<<i, x>> : x \in found[i]} : i \in D}
  <2>0. IsFiniteSet(D) /\ (\A i \in D : IsFiniteSet(found[i]))
          /\ \A i \in D : count[i] = Cardinality(found[i])
    BY <1>1
  <2> HIDE DEF D
  <2>2. IsFiniteSet(under) /\ Cardinality(under) = Sum(count, D)
    BY ONLY <2>0, NamedApart
  <2> HIDE DEF under
  <2>1. IsFiniteSet(all.figures) /\ Cardinality(all.figures) = Sum(count, D)
    BY <1>2, <2>2 DEF under
  <2> QED
    BY <2>1, FindingBasics
<1>8. F!SumFunction([i \in D |-> count[i]]) = Sum(count, D)
  BY <1>1, ScoreTotal
<1>9. [i \in D |-> count[i]] = [i \in D |-> F!Cardinality(outs[i].figures)]
  BY DEF count
<1>10. ~all.degraded => \A i \in D : ~outs[i].degraded
  BY <1>3
<1> QED
  BY <1>6, <1>7, <1>8, <1>9, <1>10 DEF F!CombinedIsWeakest, all, D

-----------------------------------------------------------------------------
(* The inputs of the runs are inputs of the theorems.                      *)

Given == algorithm \in DOMAIN Inputs /\ (input = Start \/ input \in Inputs[algorithm])

LEMMA GivenInput == AlgorithmsSpec => []Given
<1>1. AlgorithmsInit => Given
  BY DEF AlgorithmsInit, Given
<1>2. Given /\ [AlgorithmsNext]_<<algorithm, input>> => Given'
  <2> SUFFICES ASSUME Given, [AlgorithmsNext]_<<algorithm, input>> PROVE Given'
    OBVIOUS
  <2>1. CASE AlgorithmsNext
    <3>1. algorithm' = algorithm /\ input' \in Inputs[algorithm]
      BY <2>1 DEF AlgorithmsNext
    <3>2. algorithm' \in DOMAIN Inputs /\ input' \in Inputs[algorithm']
      BY <3>1 DEF Given
    <3>3. Given' = (algorithm' \in DOMAIN Inputs /\ (input' = Start \/ input' \in Inputs[algorithm']))
      BY DEF Given, Inputs, Start
    <3> QED
      BY <3>2 DEF Given
  <2>2. CASE UNCHANGED <<algorithm, input>>
    BY <2>2 DEF Given
  <2> QED
    BY <2>1, <2>2
<1> QED
  BY <1>1, <1>2, PTL DEF AlgorithmsSpec

LEMMA ShockInputs ==
  ASSUME NEW i \in Shocking PROVE Parsed(i.q)
BY DEF Shocking, Shocked, Parsed, Sectors, E!None, E!SECTOR_OF_ITEM

LEMMA TariffInputs ==
  ASSUME NEW i \in Tariffs
  PROVE  /\ i.tariff \in Nat
         /\ E!Parameter(Elasticities, "export_demand_elasticity", i.sector, <<>>).value \in {-8, -12}
BY DEF Tariffs, Elasticities, E!Parameter

LEMMA RateInputs ==
  ASSUME NEW i \in [passages : [1..2 -> Passage]]
  PROVE  i.passages \in Seq([tariff : BOOLEAN, goods : BOOLEAN, rates : SUBSET Nat])
<1>1. Passage \subseteq [tariff : BOOLEAN, goods : BOOLEAN, rates : SUBSET Nat]
  <2>1. SUBSET {0, 5, 12, 70} \subseteq SUBSET Nat
    OBVIOUS
  <2> QED
    BY <2>1 DEF Passage
<1> DEFINE All == [tariff : BOOLEAN, goods : BOOLEAN, rates : SUBSET Nat]
<1>2. i.passages \in [1..2 -> All]
  BY <1>1
<1> HIDE DEF All
<1>3. i.passages \in Seq(All)
  BY ONLY <1>2, ListOf
<1> QED
  BY <1>3 DEF All

LEMMA PolicyInputs ==
  ASSUME NEW i \in Described
  PROVE  /\ i.trouble \in Nat
         /\ \A p \in Stored(i) : /\ p.doc \in DOMAIN i.documents
                                 /\ p.issuers = i.documents[p.doc].issuers
<1>1. /\ i.trouble \in {0, 2, 3} /\ i.documents \in Documents
      /\ i.passages \in PassagesOf([d1 |-> 0, d2 |-> 0])
  BY DEF Described
<1>2. DOMAIN i.documents = {"d1", "d2"}
  BY <1>1 DEF Documents
<1>3. DOMAIN i.passages \subseteq {"d1", "d2"}
  <2>1. DOMAIN [d1 |-> 0, d2 |-> 0] = {"d1", "d2"}
    OBVIOUS
  <2> QED
    BY <1>1, <2>1 DEF PassagesOf
<1>4. \A p \in Stored(i) : p.doc \in DOMAIN i.passages /\ p.issuers = i.documents[p.doc].issuers
  BY DEF Stored
<1> QED
  BY <1>1, <1>2, <1>3, <1>4

LEMMA OutputsTyped ==
  ASSUME NEW o \in Outputs
  PROVE  o.confidence \in Int /\ \A f \in DOMAIN o.figures : o.figures[f] \in Int
BY DEF Outputs, Output

LEMMA MergeInputs ==
  ASSUME NEW i \in Merging PROVE WholeRun(i.s)
<1>1. /\ i.s.outputs \in UNION {[back -> Outputs] : back \in SUBSET Routed}
      /\ i.s = [query |-> i.s.query, outputs |-> i.s.outputs, route |-> i.s.route,
                relevance |-> i.s.relevance, notes |-> i.s.notes, noTopic |-> i.s.noTopic]
  BY DEF Merging
<1> DEFINE o == i.s.outputs
<1>2. PICK back \in SUBSET Routed : o \in [back -> Outputs]
  BY <1>1
<1>3. IsFiniteSet(back)
  <2>1. IsFiniteSet({"export_analytics"} \cup {"agriculture_commodity"})
    BY FS_Singleton, FS_AddElement
  <2>2. IsFiniteSet(({"export_analytics"} \cup {"agriculture_commodity"}) \cup {"forecast"})
    BY ONLY <2>1, FS_AddElement
  <2>3. Routed = ({"export_analytics"} \cup {"agriculture_commodity"}) \cup {"forecast"}
    BY DEF Routed
  <2> QED
    BY <2>2, <2>3, FS_Subset
<1>4. /\ o = [a \in DOMAIN o |-> o[a]] /\ IsFiniteSet(DOMAIN o)
      /\ \A a \in DOMAIN o : o[a] \in Outputs
  BY <1>2, <1>3
<1> QED
  BY <1>1, <1>4, OutputsTyped DEF WholeRun

LEMMA QuestionInputs ==
  ASSUME NEW q \in Asking
  PROVE  DOMAIN q.words \subseteq Nat \ {0} /\ "chosen" \in DOMAIN q
<1>1. PICK w \in Worded, c \in {{}, {"compare"}, {"policy", "vague"}}, p \in {"none", "USA"} :
        q = [Cued(w, c) EXCEPT !.partner = p]
  BY DEF Asking
<1>2. q.words = w /\ "chosen" \in DOMAIN q
  BY <1>1 DEF I!Question, Cued
<1>3. PICK n \in 0..3 : w \in [1..n -> I!Vocabulary]
  BY DEF Worded
<1> QED
  BY <1>2, <1>3

LEMMA TableInputs ==
  ASSUME NEW i \in Tables PROVE TableRows(i)
<1>1. DOMAIN i = 1..3 /\ \A n \in 1..3 : i[n] \in Observed
  BY DEF Tables
<1>2. IsFiniteSet(1..3)
  <2>1. 3 \in Nat
    OBVIOUS
  <2> QED
    BY ONLY <2>1, UpTo
<1>3. ASSUME NEW r \in Observed
      PROVE  r.amount \in Int /\ r.weight \in Nat \cup {S!Null} /\ r.partner # S!Any
  BY DEF Observed, S!Null, S!Any, S!World
<1> QED
  BY <1>1, <1>2, <1>3 DEF TableRows

LEMMA DailyInputs == \A i \in Daily : Daybook(i)
<1> SUFFICES ASSUME NEW i \in Daily PROVE Daybook(i)
  OBVIOUS
<1>1. PICK days \in SUBSET (1..6) : i \in [days -> {-1, 2, 5}]
  BY DEF Daily
<1>2. IsFiniteSet(1..6)
  <2>1. 6 \in Nat
    OBVIOUS
  <2> QED
    BY ONLY <2>1, UpTo
<1>3. IsFiniteSet(days)
  BY <1>2, FS_Subset
<1> QED
  BY <1>1, <1>3 DEF Daybook

LEMMA PaceInputs == \A days \in Paces : IsFiniteSet(days) /\ days \subseteq Int
<1>1. IsFiniteSet(1..366)
  <2>1. 366 \in Nat
    OBVIOUS
  <2> QED
    BY ONLY <2>1, UpTo
<1>2. \A days \in Paces : days \subseteq 1..366
  BY DEF Paces
<1> QED
  BY <1>1, <1>2, FS_Subset

LEMMA SomeCodes ==
  ASSUME NEW T \in SUBSET (1..842) PROVE IsFiniteSet(T)
<1>1. 842 \in Nat
  OBVIOUS
<1> DEFINE U == 1..842
<1>2. IsFiniteSet(U)
  BY ONLY <1>1, UpTo
<1>3. T \in SUBSET U
  OBVIOUS
<1> HIDE DEF U
<1> QED
  BY ONLY <1>2, <1>3, FS_Subset

LEMMA AmountsAdd ==
  ASSUME NEW T, IsFiniteSet(T), NEW f, \A c \in T : f[c] \in 1..3
  PROVE  Total([c \in T |-> f[c]]) = Sum(f, T) /\ Sum(f, T) \in Nat /\ (T # {} => Sum(f, T) # 0)
<1>1. \A c \in T : f[c] \in Int /\ 1 <= f[c] /\ f[c] <= 3
  OBVIOUS
<1>2. Total([c \in T |-> f[c]]) = Sum(f, T)
  BY <1>1, SourcesTotal DEF Total
<1>3. 1 * Cardinality(T) <= Sum(f, T) /\ Sum(f, T) \in Int /\ Cardinality(T) \in Nat
  <2>1. ASSUME NEW lo \in Int, NEW hi \in Int, \A c \in T : f[c] \in Int /\ lo <= f[c] /\ f[c] <= hi
        PROVE  lo * Cardinality(T) <= Sum(f, T) /\ Sum(f, T) \in Int /\ Cardinality(T) \in Nat
    BY <2>1, MeanIsBetween
  <2>2. 1 \in Int /\ 3 \in Int
    OBVIOUS
  <2> QED
    BY ONLY <1>1, <2>1, <2>2
<1>4. T # {} => Cardinality(T) > 0
  BY SeriesBasics
<1> QED
  BY <1>2, <1>3, <1>4

LEMMA ComtradeInputs ==
  ASSUME NEW i \in Pulled PROVE OneCode(i.rows)
<1>1. PICK eu \in Members, rest \in {{840}, {842, 826}} :
        i \in PulledOf(eu, rest)
  BY DEF Pulled
<1>2. PICK of \in [eu \cup rest -> 1..3] : i = [rows |-> Reported(of, eu, rest)]
  BY <1>1 DEF PulledOf
<1> DEFINE Cs == eu \cup rest
           rows == i.rows
           total == Total(of)
           own == [c \in Cs |-> IF c \in eu THEN ByPrimary(c, of[c]) ELSE ByFob(c, of[c])]
           its == {own[c] : c \in Cs}
           worth == Worth(rows)
           all == C!DropAggregates(rows)
           union == ByPrimary(97, Total([c \in eu |-> of[c]]))
<1>3. /\ Cs \subseteq {250, 251, 380, 840, 842, 826} /\ eu \cap rest = {} /\ Cs # {}
      /\ ~(250 \in Cs /\ 251 \in Cs) /\ ~(840 \in Cs /\ 842 \in Cs)
  BY DEF Members
<1>4. IsFiniteSet(Cs)
  <2>1. Cs \in SUBSET (1..842)
    BY <1>3
  <2> QED
    BY ONLY <2>1, SomeCodes
<1>5. \A c \in Cs : of[c] \in 1..3
  BY <1>2
<1>6. ASSUME NEW T \in SUBSET Cs
      PROVE  Total([c \in T |-> of[c]]) = Sum(of, T) /\ Sum(of, T) \in Nat /\ (T # {}
            => Sum(of, T) # 0)
  <2>1. IsFiniteSet(T) /\ \A c \in T : of[c] \in 1..3
    BY <1>4, <1>5, FS_Subset
  <2> QED
    BY <2>1, AmountsAdd
<1>7. total = Sum(of, Cs) /\ total \in Nat /\ total # 0
  <2>1. of = [c \in Cs |-> of[c]]
    BY <1>2
  <2> QED
    BY <1>3, <1>6, <2>1
<1> HIDE DEF total, Cs
<1>8. union.partner = 97
  BY DEF ByPrimary
<1>9. rows = its \cup {ByPrimary(0, total)} \cup {union}
  <2>1. rows = {ByPrimary(c, of[c]) : c \in eu} \cup {ByFob(c, of[c]) : c \in rest}
                 \cup {ByPrimary(0, total), union}
    BY <1>2 DEF Reported, total
  <2>2. /\ \A c \in eu : c \in Cs /\ own[c] = ByPrimary(c, of[c])
        /\ \A c \in rest : c \in Cs /\ own[c] = ByFob(c, of[c])
        /\ \A c \in Cs : c \in eu \/ c \in rest
    BY <1>3 DEF Cs
  <2> HIDE DEF own, rows, union
  <2>3. its = {ByPrimary(c, of[c]) : c \in eu} \cup {ByFob(c, of[c]) : c \in rest}
    BY <2>2
  <2> HIDE DEF its
  <2> QED
    BY <2>1, <2>3
<1> HIDE DEF union
<1>11. ASSUME NEW c, NEW n
       PROVE  /\ ByPrimary(c, n).partner = c /\ ByFob(c, n).partner = c
              /\ ByPrimary(c, n).year = 2023 /\ ByFob(c, n).year = 2023
              /\ ByPrimary(c, n).primary = n /\ ByPrimary(c, n).fob = 0
              /\ ByFob(c, n).primary = 0 /\ ByFob(c, n).fob = n
  BY DEF ByPrimary, ByFob
<1>12. \A c \in Cs : /\ own[c].partner = c /\ own[c].year = 2023
                     /\ C!Either(own[c].primary, own[c].fob) = of[c]
  <2> SUFFICES ASSUME NEW c \in Cs
               PROVE  /\ own[c].partner = c /\ own[c].year = 2023
                      /\ C!Either(own[c].primary, own[c].fob) = of[c]
    OBVIOUS
  <2>1. own[c] = ByPrimary(c, of[c]) \/ own[c] = ByFob(c, of[c])
    OBVIOUS
  <2>2. of[c] \in 1..3
    BY <1>5
  <2> HIDE DEF own
  <2> QED
    BY <1>11, <2>1, <2>2 DEF C!Either, C!Number, C!Null
<1> HIDE DEF own
<1>13. all = its /\ its \subseteq rows
  <2>1. \A c \in Cs : own[c].partner \notin {0, 97}
    BY <1>3, <1>12
  <2>2. \A r \in its : r.partner \notin {0, 97}
    BY <2>1
  <2>3. ByPrimary(0, total).partner = 0
    BY <1>11
  <2> HIDE DEF its, rows
  <2> QED
    BY <1>9, <1>8, <2>2, <2>3 DEF C!DropAggregates, C!AggregatePartners
<1>14. \A c \in Cs : own[c] \in its /\ worth[own[c]] = of[c]
  <2> SUFFICES ASSUME NEW c \in Cs PROVE own[c] \in its /\ worth[own[c]] = of[c]
    OBVIOUS
  <2>1. own[c] \in its
    OBVIOUS
  <2>2. own[c] \in rows
    BY <1>13, <2>1
  <2> HIDE DEF its, rows
  <2> QED
    BY <1>12, <2>1, <2>2 DEF Worth
<1>15. IsFiniteSet(its) /\ IsFiniteSet(rows)
  <2>1. IsFiniteSet(its)
    BY <1>4, ImageFinite
  <2>2. IsFiniteSet(its \cup {ByPrimary(0, total)})
    BY <2>1, FS_AddElement
  <2>3. IsFiniteSet((its \cup {ByPrimary(0, total)}) \cup {union})
    BY ONLY <2>2, FS_AddElement
  <2> QED
    BY <1>9, <2>1, <2>3
<1>16. \A c \in Cs : C!ToIso3(c) # "none"
  <2>1. DOMAIN C!Countries = {840, 826, 250, 380} /\ DOMAIN C!PartnerAliases = {842, 251}
    BY DEF C!Countries, C!PartnerAliases
  <2>2. /\ C!Countries[840] = "USA" /\ C!Countries[826] = "GBR" /\ C!Countries[250] = "FRA"
        /\ C!Countries[380] = "ITA" /\ C!PartnerAliases[842] = "USA"
              /\ C!PartnerAliases[251] = "FRA"
    BY DEF C!Countries, C!PartnerAliases
  <2> QED
    BY <1>3, <2>1, <2>2 DEF C!ToIso3
<1>17. \A c, d \in Cs : C!ToIso3(c) = C!ToIso3(d) => c = d
  <2>1. DOMAIN C!Countries = {840, 826, 250, 380} /\ DOMAIN C!PartnerAliases = {842, 251}
    BY DEF C!Countries, C!PartnerAliases
  <2>2. /\ C!Countries[840] = "USA" /\ C!Countries[826] = "GBR" /\ C!Countries[250] = "FRA"
        /\ C!Countries[380] = "ITA" /\ C!PartnerAliases[842] = "USA"
              /\ C!PartnerAliases[251] = "FRA"
    BY DEF C!Countries, C!PartnerAliases
  <2> QED
    BY <1>3, <2>1, <2>2 DEF C!ToIso3
<1>18. ASSUME NEW w \in rows, w.partner = 0
       PROVE  w.primary = Sum(worth, Countries(rows, w.year))
  <2>1. w = ByPrimary(0, total)
    <3>1. \A r \in its : r.partner # 0
      BY <1>3, <1>12
    <3> HIDE DEF its, rows
    <3> QED
      BY <1>9, <1>8, <1>18, <3>1
  <2>2. w.year = 2023 /\ w.primary = total
    BY <1>11, <2>1
  <2>3. Countries(rows, 2023) = its
    <3>1. \A r \in its : r.year = 2023
      BY <1>12
    <3> HIDE DEF its, rows
    <3> QED
      BY <1>13, <3>1 DEF Countries
  <2>4. Sum(of, Cs) = Sum(worth, {own[c] : c \in Cs})
    <3>1. \A c \in Cs : of[c] \in Int /\ worth[own[c]] = of[c]
      BY <1>5, <1>14
    <3>2. \A c, d \in Cs : own[c] = own[d] => c = d
      BY <1>12
    <3> HIDE DEF worth
    <3> QED
      BY <1>4, <3>1, <3>2, SumRenamed
  <2> QED
    BY <1>7, <2>2, <2>3, <2>4
<1>19. \A r \in its : C!ToIso3(r.partner) # "none" /\ worth[r] \in Int /\ worth[r] # C!Null
  <2> SUFFICES ASSUME NEW c \in Cs
               PROVE C!ToIso3(own[c].partner) # "none" /\ worth[own[c]] \in Int
                     /\ worth[own[c]] # C!Null
    OBVIOUS
  <2>1. own[c].partner = c /\ worth[own[c]] = of[c] /\ of[c] \in 1..3
    BY <1>5, <1>12, <1>14
  <2> QED
    BY <1>16, <2>1 DEF C!Null
<1>20. \A q, r \in its : C!ToIso3(q.partner) = C!ToIso3(r.partner) => q = r
  <2> SUFFICES ASSUME NEW c \in Cs,
        NEW d \in Cs, C!ToIso3(own[c].partner) = C!ToIso3(own[d].partner)
               PROVE  own[c] = own[d]
    OBVIOUS
  <2> QED
    BY <1>12, <1>17
<1> HIDE DEF its, rows, worth
<1> QED
  BY <1>13, <1>15, <1>18, <1>19, <1>20 DEF OneCode, rows, worth

LEMMA SourceInputs ==
  /\ \A code \in Digits : code \in Seq({0, 9, 2, 6})
  /\ \A c \in Caching : /\ IsFiniteSet(DOMAIN c.cache) /\ DOMAIN c.cache \subseteq Nat
                        /\ c.today \in Nat /\ c.maxAge \in Int /\ c.offline \in BOOLEAN
  /\ \A report \in Reports : Editions(report)
  /\ \A i \in Markets : \A r \in i.cells : r.month # 0
  /\ \A i \in Sheets : \A r \in i.tea : r.amount \in Int
<1>1. ASSUME NEW code \in Digits PROVE code \in Seq({0, 9, 2, 6})
  <2>1. PICK n \in 2..5 : code \in [1..n -> {0, 9, 2, 6}]
    BY DEF Digits
  <2> QED
    BY <2>1, ListOf
<1>2. ASSUME NEW c \in Caching
      PROVE  /\ IsFiniteSet(DOMAIN c.cache) /\ DOMAIN c.cache \subseteq Nat
             /\ c.today \in Nat /\ c.maxAge \in Int /\ c.offline \in BOOLEAN
  <2>1. /\ c.cache \in UNION {[days -> {{}, {1}}] : days \in SUBSET {3, 7, 9, 10}}
        /\ c.today \in {10} /\ c.maxAge \in {-1, 1, 4} /\ c.offline \in BOOLEAN
    BY DEF Caching
  <2>2. DOMAIN c.cache \subseteq {3, 7, 9, 10}
    BY <2>1
  <2>3. DOMAIN c.cache \subseteq 1..10 /\ 10 \in Nat
    BY <2>2
  <2>4. IsFiniteSet(1..10)
    BY ONLY <2>3, UpTo
  <2> QED
    BY <2>1, <2>3, <2>4, FS_Subset
<1>3. ASSUME NEW report \in Reports PROVE Editions(report)
  <2>1. report \in [1..2 -> Edition]
    BY DEF Reports
  <2>2. ASSUME NEW e \in Edition
        PROVE /\ e.edition \in Int /\ e.latest \in Int /\ Len(e.values) \in Int
              /\ DOMAIN e.values \subseteq Int
    <3>1. e.edition \in {2024, 2025} /\ e.latest \in {2023, 2024}
      BY DEF Edition
    <3>2. e.values \in {<<1, 2>>, <<3, -1>>, <<-1, 4>>}
      BY DEF Edition
    <3> DEFINE v == e.values
    <3>3. v = <<1, 2>> \/ v = <<3, -1>> \/ v = <<-1, 4>>
      BY <3>2
    <3> HIDE DEF v
    <3>4. DOMAIN v \subseteq Int /\ Len(v) \in Int
      BY ONLY <3>3
    <3> QED
      BY <3>1, <3>4 DEF v
  <2> QED
    BY <2>1, <2>2 DEF Editions
<1>4. ASSUME NEW i \in Markets, NEW r \in i.cells PROVE r.month # 0
  <2>1. i.cells \subseteq Cells
    BY DEF Markets
  <2>2. \A c \in Cells : c.month \in {1, 2}
    BY DEF Cells
  <2> QED
    BY <2>1, <2>2
<1>5. ASSUME NEW i \in Sheets, NEW r \in i.tea PROVE r.amount \in Int
  <2>1. r \in [year : {2023}, metric : {"export"}, category : {"total", "bulk"}, amount : {-1, 5}]
    BY DEF Sheets
  <2> QED
    BY <2>1
<1> QED
  BY <1>1, <1>2, <1>3, <1>4, <1>5

LEMMA FewAreFinite ==
  ASSUME NEW a, NEW b, NEW c, NEW T, T = {} \/ T = {a} \/ T = {a, b} \/ T = {a, b, c}
  PROVE  IsFiniteSet(T)
<1>1. PICK first : first = {a} /\ IsFiniteSet(first)
  BY FS_Singleton
<1>2. PICK second : second = first \cup {b} /\ IsFiniteSet(second)
  BY <1>1, FS_AddElement
<1>3. PICK third : third = second \cup {c} /\ IsFiniteSet(third)
  BY <1>2, FS_AddElement
<1>4. T = {} \/ T = first \/ T = second \/ T = third
  BY <1>1, <1>2, <1>3
<1> QED
  BY <1>1, <1>2, <1>3, <1>4, FS_EmptySet

LEMMA YearsCounted ==
  ASSUME NEW n \in Nat, NEW years, \A y \in years : y \in 1..n
  PROVE  IsFiniteSet(years)
<1> DEFINE U == 1..n
<1>1. IsFiniteSet(U)
  BY ONLY n \in Nat, UpTo
<1>2. \A y \in years : y \in U
  OBVIOUS
<1> HIDE DEF U
<1> QED
  BY <1>1, <1>2, FS_Subset

LEMMA OneHistoryTyped == YearSeries(OneHistory)
<1>1. OneHistory \in [2019..2022 -> Int]
  BY DEF OneHistory
<1>2. IsFiniteSet(2019..2022) /\ 2019..2022 \subseteq Int
  <2> DEFINE D == 2019..2022
  <2>1. PICK n \in Nat : n = 2023
    OBVIOUS
  <2>2. D \subseteq Int /\ \A y \in D : y \in 1..n
    BY <2>1
  <2> HIDE DEF D
  <2>3. IsFiniteSet(D)
    BY ONLY <2>2, n \in Nat, YearsCounted
  <2> QED
    BY <2>2, <2>3 DEF D
<1> DEFINE D == 2019..2022
<1>3. OneHistory \in [D -> Int] /\ IsFiniteSet(D) /\ D \subseteq Int
  BY <1>1, <1>2
<1> HIDE DEF D
<1> QED
  BY <1>3 DEF YearSeries

LEMMA ProjectingInputs ==
  ASSUME NEW i \in Projecting
  PROVE  /\ YearSeries(i.series) /\ Cardinality(DOMAIN i.series) > 1
         /\ i.quantiles \in [1..2 -> [1..3 -> Int]] /\ Len(i.quantiles) = 2 /\ i.spread \in Nat
<1>1. i.series \in Histories /\ i.quantiles \in Quantiles /\ i.spread \in {0, 3}
  BY DEF Projecting
<1>2. PICK years \in {y \in SUBSET Years : Cardinality(y) > 1} : i.series \in [years -> {0, 11}]
  BY <1>1 DEF Histories
<1>3. years \subseteq Int /\ IsFiniteSet(years)
  <2> DEFINE Y == years
  <2>1. PICK n \in Nat : n = 2023
    OBVIOUS
  <2>2. Y \subseteq Int /\ \A y \in Y : y \in 1..n
    BY <2>1 DEF Years
  <2> HIDE DEF Y
  <2>3. IsFiniteSet(Y)
    BY ONLY <2>2, n \in Nat, YearsCounted
  <2> QED
    BY <2>2, <2>3 DEF Y
<1>4. YearSeries(i.series) /\ DOMAIN i.series = years
  <2> DEFINE f == i.series
             Y == years
  <2>1. f \in [Y -> {0, 11}] /\ Y \subseteq Int /\ IsFiniteSet(Y)
    BY <1>2, <1>3
  <2> HIDE DEF f, Y
  <2>2. YearSeries(f) /\ DOMAIN f = Y
    BY <2>1 DEF YearSeries
  <2> QED
    BY <2>2 DEF f, Y
<1>5. i.quantiles \in [1..2 -> [1..3 -> Int]]
  BY <1>1 DEF Quantiles
<1>6. Len(i.quantiles) = 2
  BY <1>1 DEF Quantiles
<1> QED
  BY <1>1, <1>2, <1>4, <1>5, <1>6

LEMMA ChoosingInputs ==
  ASSUME NEW i \in Choosing
  PROVE  Library(i.models) /\ i.a.horizon \in Int
<1>1. i.models \in {{}} \cup {{m} : m \in Filed} \cup {{m, n} : m, n \in Filed}
  BY DEF Choosing
<1>2. i.a.horizon \in Int
  BY DEF Choosing
<1>3. \A m \in Filed : m.mape \in Int /\ m.complex \in BOOLEAN
  BY DEF Filed
<1>4. i.models \subseteq Filed
  BY <1>1
<1>5. IsFiniteSet(i.models)
  <2> DEFINE T == i.models
  <2>1. \E a, b : T = {} \/ T = {a} \/ T = {a, b}
    BY <1>1
  <2> HIDE DEF T
  <2>2. IsFiniteSet(T)
    BY <2>1, FewAreFinite
  <2> QED
    BY <2>2 DEF T
<1> QED
  BY <1>2, <1>3, <1>4, <1>5 DEF Library

LEMMA RankedInputs ==
  ASSUME NEW i \in Ranked
  PROVE  /\ IsFiniteSet(DOMAIN i.outs)
         /\ \A k \in DOMAIN i.outs : i.outs[k].next \in Int /\ i.outs[k].last \in Nat \cup {X!Null}
<1>1. PICK items \in {{"tea"}, {"tea", "knit"}, {"tea", "knit", "rubber"}} :
        i.outs \in [items -> [next : {-1, 0, 6}, last : {-1, 0, 4, 5}]]
  BY DEF Ranked
<1>2. IsFiniteSet(items)
  <2>1. \E a, b, c : items = {a} \/ items = {a, b} \/ items = {a, b, c}
    BY <1>1
  <2> QED
    BY <2>1, FewAreFinite
<1>3. ASSUME NEW k \in DOMAIN i.outs
      PROVE i.outs[k].next \in {-1, 0, 6} /\ i.outs[k].last \in {-1, 0, 4, 5}
  BY <1>1
<1> QED
  BY <1>1, <1>2, <1>3 DEF X!Null

LEMMA ScoringInputs ==
  \A i \in Scoring : /\ Answers(i.outputs) /\ DOMAIN i.outputs = Routed /\ Routed # {}
                     /\ i.months \in Nat /\ i.material \in Nat /\ i.severe \in Nat
<1> SUFFICES ASSUME NEW i \in Scoring
             PROVE  /\ Answers(i.outputs) /\ DOMAIN i.outputs = Routed /\ Routed # {}
                    /\ i.months \in Nat /\ i.material \in Nat /\ i.severe \in Nat
  OBVIOUS
<1> DEFINE Outcomes == [confidence : {0, 40, 65, 95}, error : {FALSE}, degraded : BOOLEAN]
<1>1. i.outputs \in [Routed -> Outcomes] /\ i.months \in {0, 9, 10} /\ i.material \in {0, 2, 5}
        /\ i.severe \in {0, 1}
  BY DEF Scoring
<1>2. \A o \in Outcomes : /\ o.confidence \in {0, 40, 65, 95}
                        /\ o.error \in BOOLEAN /\ o.degraded \in BOOLEAN
  BY Zenon
<1>3. {0, 40, 65, 95} \subseteq 0..100
  OBVIOUS
<1>4. IsFiniteSet(Routed) /\ Routed # {}
  <2>1. Routed = ({"export_analytics"} \cup {"agriculture_commodity"}) \cup {"forecast"}
    BY DEF Routed
  <2>2. /\ IsFiniteSet({"export_analytics"}) /\ IsFiniteSet({"agriculture_commodity"})
        /\ IsFiniteSet({"forecast"})
    BY FS_Singleton
  <2>3. IsFiniteSet({"export_analytics"} \cup {"agriculture_commodity"})
    BY ONLY <2>2, FS_Union
  <2>4. IsFiniteSet(({"export_analytics"} \cup {"agriculture_commodity"}) \cup {"forecast"})
    BY ONLY <2>2, <2>3, FS_Union
  <2> QED
    BY <2>1, <2>4
<1>5. i.months \in Nat /\ i.material \in Nat /\ i.severe \in Nat
  BY <1>1
<1> HIDE DEF Outcomes
<1>6. DOMAIN i.outputs = Routed /\ \A a \in Routed : i.outputs[a] \in Outcomes
  BY <1>1
<1>7. Answers(i.outputs)
  BY <1>2, <1>3, <1>4, <1>6 DEF Answers
<1> QED
  BY <1>4, <1>5, <1>6, <1>7

\* The figures of the instance are figures.
LEMMA ValuesAreTexts == Values \subseteq FigureTexts
<1> DEFINE a1 == F!Figure(FALSE, 412600000, 0, 0)
           a2 == F!Figure(TRUE, 161815198, 0, 0)
           a3 == F!Figure(FALSE, 1374229478, 0, 0)
           a4 == F!Figure(FALSE, 999996000, 0, 0)
           a5 == F!Figure(TRUE, 4, 1, 100)
           a6 == F!Figure(FALSE, 7, 3, 996)
<1>1. Values = {a1, a2, a3, a4, a5, a6}
  BY DEF Values
<1>2. a1 \in FigureTexts /\ a2 \in FigureTexts
  BY DEF F!Figure, FigureTexts
<1>3. a3 \in FigureTexts /\ a4 \in FigureTexts
  BY DEF F!Figure, FigureTexts
<1>4. a5 \in FigureTexts /\ a6 \in FigureTexts
  BY DEF F!Figure, FigureTexts
<1> HIDE DEF a1, a2, a3, a4, a5, a6
<1> QED
  BY <1>1, <1>2, <1>3, <1>4

LEMMA FindingInputs ==
  \A i \in Finding \cup Refusing :
    /\ i.values \subseteq FigureTexts /\ IsFiniteSet(i.values) /\ i.evidence \in Nat
    /\ i.weight \in Int /\ i.own \in -1..100
<1> SUFFICES ASSUME NEW i \in Finding \cup Refusing
             PROVE  /\ i.values \subseteq FigureTexts /\ IsFiniteSet(i.values) /\ i.evidence \in Nat
                    /\ i.weight \in Int /\ i.own \in -1..100
  OBVIOUS
<1>1. /\ i.values \in {{}} \cup {{v, w} : v, w \in Values} /\ i.evidence \in 0..2
      /\ i.weight \in Int /\ i.own \in -1..100
  <2>1. CASE i \in Finding
    BY <2>1 DEF Finding, F!NoScore
  <2>2. CASE i \in Refusing
    BY <2>2 DEF Refusing
  <2> QED
    BY <2>1, <2>2
<1>2. Values \subseteq FigureTexts
  BY ValuesAreTexts
<1> HIDE DEF Values, FigureTexts
<1>3. i.values \subseteq FigureTexts
  BY <1>1, <1>2
<1>4. IsFiniteSet(i.values)
  <2>1. CASE i.values = {}
    BY <2>1, FS_EmptySet
  <2>2. CASE i.values # {}
    <3>1. PICK v, w \in Values : i.values = {v} \cup {w}
      BY <1>1, <2>2
    <3>2. IsFiniteSet({v}) /\ IsFiniteSet({w})
      BY FS_Singleton
    <3>3. IsFiniteSet({v} \cup {w})
      BY ONLY <3>2, FS_Union
    <3> QED
      BY <3>1, <3>3
  <2> QED
    BY <2>1, <2>2
<1> QED
  BY <1>1, <1>3, <1>4

LEMMA CombiningInputs ==
  \A i \in Combining : /\ IsFiniteSet(DOMAIN i.outs) /\ DOMAIN i.outs # {}
                       /\ \A k \in DOMAIN i.outs : /\ IsFiniteSet(i.outs[k].figures)
                                                   /\ i.outs[k].confidence \in Int
<1> SUFFICES ASSUME NEW i \in Combining
             PROVE  /\ IsFiniteSet(DOMAIN i.outs) /\ DOMAIN i.outs # {}
                    /\ \A k \in DOMAIN i.outs : /\ IsFiniteSet(i.outs[k].figures)
                                                /\ i.outs[k].confidence \in Int
  OBVIOUS
<1>1. PICK n \in 1..2 : i.outs \in [1..n -> ItemOutput]
  BY DEF Combining
<1>2. IsFiniteSet(1..n) /\ 1..n # {}
  <2>1. n \in Nat /\ n >= 1
    BY <1>1
  <2>2. \A m \in Nat : IsFiniteSet(1..m)
    BY UpTo
  <2>3. 1 \in 1..n
    BY <2>1
  <2>4. 1..n # {}
    BY <2>3, Zenon
  <2>5. n \in Nat => IsFiniteSet(1..n)
    BY <2>2
  <2> QED
    BY <2>1, <2>4, <2>5
<1>3. \A o \in ItemOutput : o.figures \in SUBSET {"value", "volume"} /\ o.confidence \in Int
  BY DEF ItemOutput
<1>4. ASSUME NEW t \in SUBSET {"value", "volume"} PROVE IsFiniteSet(t)
  <2>1. IsFiniteSet({"value"}) /\ IsFiniteSet({"volume"})
    BY FS_Singleton
  <2>2. IsFiniteSet({"value"} \cup {"volume"})
    BY ONLY <2>1, FS_Union
  <2>3. t \in SUBSET ({"value"} \cup {"volume"})
    BY <1>4
  <2> QED
    BY ONLY <2>2, <2>3, FS_Subset
<1>5. DOMAIN i.outs = 1..n /\ \A k \in 1..n : i.outs[k] \in ItemOutput
  BY <1>1
<1> QED
  BY <1>2, <1>3, <1>4, <1>5

\* A question is taken for what it asks, for the inputs of the run.
THEOREM QuestionsAreRouted == AlgorithmsSpec => []QuestionRouted
<1>1. Given => QuestionRouted
  <2> SUFFICES ASSUME Given, input # Start PROVE QuestionRouted
    BY DEF QuestionRouted, Of
  <2>1. ASSUME algorithm = "route"
        PROVE  /\ R!RouteUsable(input.q, R!LlmRoute(input.q, input.reply))
               /\ R!ScopeStated(input.q, input.reply) /\ R!SectorAnswered(input.q, input.reply)
    <3>1. input \in Routing
      BY <2>1 DEF Given, Inputs
    <3>2. input.q \in R!Questions /\ input.reply \in R!Replies
      BY <3>1 DEF Routing
    <3> QED
      BY <3>2, RoutesAreUsable
  <2>2. ASSUME algorithm = "question"
        PROVE  /\ I!ChoiceIsAnswered(input) /\ I!ComparisonComplete(input)
               /\ \A r \in Worder : I!OptionsAreNamed(input, r)
    <3>1. input \in Asking
      BY <2>2 DEF Given, Inputs
    <3> QED
      BY <3>1, QuestionInputs, ChoicesAreAnswered, ComparedOnce
  <2>3. ASSUME algorithm = "follow"
        PROVE  \A old \in Earlier, v \in Verdicts : I!NewSubjectIsAnalysed(input, old, v)
    BY NewSubjectsAreAnalysed
  <2> QED
    BY <2>1, <2>2, <2>3 DEF QuestionRouted, Of
<1> QED
  BY <1>1, GivenInput, PTL

\* The merge loses nothing in silence, for the inputs of the run.
THEOREM AnswersAreAccounted == AlgorithmsSpec => []AnswerAccounted
<1>1. Given => AnswerAccounted
  <2> SUFFICES ASSUME Given, input # Start, algorithm = "merge"
               PROVE  LET r == M!MergeOf(input.s, input.prose, Now, Fixed)
                      IN  /\ M!EveryAgentAccounted(input.s, r, Fixed) /\ M!ApiAgrees(input.s, r, Fixed)
                          /\ M!ConflictsStated(input.s, r)
                          /\ M!DeclineIsNeutral(input.s, input.prose, Now, Fixed)
    BY DEF AnswerAccounted, Of
  <2>1. input \in Merging
    BY DEF Given, Inputs
  <2>2. WholeRun(input.s)
    BY <2>1, MergeInputs
  <2> QED
    BY <2>2, AgentsAccounted, ApiReadsTheSame, DisputesStated, DeclinesAreFree
<1> QED
  BY <1>1, GivenInput, PTL

\* A series is what its rows are, for the inputs of the run.
THEOREM SeriesAreHonest == AlgorithmsSpec => []SeriesHonest
<1>1. Given => SeriesHonest
  <2> SUFFICES ASSUME Given, input # Start PROVE SeriesHonest
    BY DEF SeriesHonest, Of
  <2>1. ASSUME algorithm = "table" PROVE S!NoDoubleCount(input.rows) /\ S!PriceOfEveryRow(input.rows)
    <3>1. input.rows \in Tables
      BY <2>1 DEF Given, Inputs
    <3>2. TableRows(input.rows)
      BY <3>1, TableInputs
    <3> QED
      BY <3>2, NothingTwice, PricesAreMeans
  <2>2. ASSUME algorithm = "daily"
        PROVE  /\ S!FilledFromNear(input.rates)
               /\ S!AlignedLikeItsKind(input.rates,
                                     <<DOMAIN input.rates \cap (1..3), DOMAIN input.rates \ (1..3)>>)
    <3>1. input.rates \in Daily
      BY <2>2 DEF Given, Inputs
    <3>2. Daybook(input.rates)
      BY <3>1, DailyInputs
    <3> DEFINE halves == <<DOMAIN input.rates \cap (1..3), DOMAIN input.rates \ (1..3)>>
    <3>3. halves[1] \cup halves[2] = DOMAIN input.rates /\ halves[1] \cap halves[2] = {}
      OBVIOUS
    <3> HIDE DEF halves
    <3>4. S!AlignedLikeItsKind(input.rates, halves)
      BY <3>2, <3>3, EachAlignedItsWay
    <3> QED
      BY <3>2, <3>4, CarriedFromNear DEF halves
  <2>3. ASSUME algorithm = "pace" PROVE S!NeverInvented(input.days)
    <3>1. input \in [days : Paces]
      BY <2>3 DEF Given, Inputs
    <3> QED
      BY <3>1, PaceInputs, NothingInvented
  <2>4. ASSUME algorithm = "figures" PROVE S!SeverityMonotone(input.a, input.b, input.c)
    <3>1. input \in Figures
      BY <2>4 DEF Given, Inputs
    <3>2. input.a \in Int /\ input.b \in Int /\ input.c \in Int
      BY <3>1 DEF Figures
    <3> QED
      BY <3>2, WorseIsNotBetter
  <2> QED
    BY <2>1, <2>2, <2>3, <2>4 DEF SeriesHonest, Of
<1> QED
  BY <1>1, GivenInput, PTL

\* Simulations and policy answers have their ground, for the inputs of the run.
THEOREM EconomicsHold == AlgorithmsSpec => []EconomicsGrounded
<1>1. Given => EconomicsGrounded
  <2> SUFFICES ASSUME Given, input # Start PROVE EconomicsGrounded
    BY DEF EconomicsGrounded, Of
  <2>1. ASSUME algorithm = "shock"
        PROVE  /\ E!WorkbenchAgrees(input.q, Elasticities, input.graph)
               /\ E!FiguresHaveGround(input.q, Elasticities, input.graph, input.passages)
    <3>1. input \in Shocking
      BY <2>1 DEF Given, Inputs
    <3> QED
      BY <3>1, ShockInputs, OneStory, FiguresAreGrounded
  <2>2. ASSUME algorithm = "tariff" PROVE E!TariffIsShared(Elasticities, input.sector, input.tariff)
    <3>1. input \in Tariffs
      BY <2>2 DEF Given, Inputs
    <3> QED
      BY <3>1, TariffInputs, TariffShared
  <2>3. ASSUME algorithm = "rates" PROVE E!DocumentsAgree(input.passages)
    <3>1. input \in [passages : [1..2 -> Passage]]
      BY <2>3 DEF Given, Inputs
    <3> QED
      BY <3>1, RateInputs, RateAgreed
  <2>4. ASSUME algorithm = "policy"
        PROVE  P!CitesWhatWasAsked(input.q, input.documents, Stored(input), input.trouble)
    <3>1. input \in Described
      BY <2>4 DEF Given, Inputs
    <3> QED
      BY <3>1, PolicyInputs, CitedIsAsked
  <2> QED
    BY <2>1, <2>2, <2>3, <2>4 DEF EconomicsGrounded, Of
<1> QED
  BY <1>1, GivenInput, PTL

\* Every source is counted once and read alike, for the inputs of the run.
THEOREM SourcesDoAgree == AlgorithmsSpec => []SourcesAgree
<1>1. Given => SourcesAgree
  <2> SUFFICES ASSUME Given, input # Start PROVE SourcesAgree
    BY DEF SourcesAgree, Of
  <2>1. ASSUME algorithm = "comtrade" PROVE C!CountedOnce(input.rows)
    <3>1. input \in Pulled
      BY <2>1 DEF Given, Inputs
    <3> QED
      BY <3>1, ComtradeInputs, EachCountryOnce
  <2>2. ASSUME algorithm = "edb" PROVE C!NewestEditionWins(input.editions)
    <3>1. input.editions \in Reports
      BY <2>2 DEF Given, Inputs
    <3> QED
      BY <3>1, SourceInputs, NewestIsKept
  <2>3. ASSUME algorithm = "jaaf" PROVE C!OneTableOfAMarket(input.cells, input.pie)
    <3>1. input \in Markets
      BY <2>3 DEF Given, Inputs
    <3> QED
      BY <3>1, SourceInputs, TablesApart
  <2>4. ASSUME algorithm = "digits" PROVE C!HsRestored(input.code)
    <3>1. input.code \in Digits
      BY <2>4 DEF Given, Inputs
    <3> QED
      BY <3>1, SourceInputs, ZerosComeBack
  <2>5. ASSUME algorithm = "cache" PROVE C!CacheIsFresh(input)
    <3>1. input \in Caching
      BY <2>5 DEF Given, Inputs
    <3> QED
      BY <3>1, SourceInputs, CacheKeepsFresh
  <2>6. ASSUME algorithm = "sheets"
        PROVE  C!OnePriceUnit(C!TeaBoardFacts(input.tea) \cup C!FaostatFacts(input.fao))
    <3>1. input \in Sheets
      BY <2>6 DEF Given, Inputs
    <3> QED
      BY <3>1, SourceInputs, PricesCompare
  <2> QED
    BY <2>1, <2>2, <2>3, <2>4, <2>5, <2>6 DEF SourcesAgree, Of
<1> QED
  BY <1>1, GivenInput, PTL

\* A forecast is of what was asked and holds its own point, for the inputs of the run.
THEOREM ForecastsAreSound == AlgorithmsSpec => []ForecastsSound
<1>1. Given => ForecastsSound
  <2> SUFFICES ASSUME Given, input # Start PROVE ForecastsSound
    BY DEF ForecastsSound, Of
  <2>1. ASSUME algorithm = "project"
        PROVE  /\ X!BandHoldsItsPoint(input.series, input.quantiles, input.spread)
               /\ X!BaselinesAgree(input.series)
    <3>1. input \in Projecting
      BY <2>1 DEF Given, Inputs
    <3>2. /\ YearSeries(input.series) /\ Cardinality(DOMAIN input.series) > 1
          /\ input.quantiles \in [1..2 -> [1..3 -> Int]] /\ Len(input.quantiles) = 2
                /\ input.spread \in Nat
      BY <3>1, ProjectingInputs
    <3>3. DOMAIN input.series # {}
      BY <3>2, FS_EmptySet
    <3>4. ASSUME NEW n \in Nat, n = 2
          PROVE  X!BandHoldsItsPoint(input.series, input.quantiles, input.spread)
      <4>1. input.quantiles \in [1..n -> [1..3 -> Int]] /\ Len(input.quantiles) = n
        BY <3>2, <3>4
      <4> QED
        BY <3>2, <4>1, BandsAreHonest
    <3> QED
      BY <3>2, <3>3, <3>4, DriftsAgree
  <2>2. ASSUME algorithm = "fold" PROVE X!NoLeak(input.n, input.folds, input.horizon)
    <3>1. input \in Folding
      BY <2>2 DEF Given, Inputs
    <3>2. input.n \in Nat /\ input.folds \in Nat /\ input.horizon \in Nat \ {0}
      BY <3>1 DEF Folding
    <3> QED
      BY <3>2, FoldsDoNotLeak
  <2>3. ASSUME algorithm = "choose"
        PROVE  /\ X!OneMargin(input.models)
               /\ X!AnswersTheQuestion(input.a, input.models, input.down, OneHistory, 2)
    <3>1. input \in Choosing
      BY <2>3 DEF Given, Inputs
    <3>2. Library(input.models) /\ input.a.horizon \in Int /\ 2 \in Nat
      BY <3>1, ChoosingInputs
    <3> QED
      BY <3>2, OneHistoryTyped, MarginIsOne, AnswersAreAsked
  <2>4. ASSUME algorithm = "rank" PROVE X!RankedOnMeasured(input.outs)
    <3>1. input \in Ranked
      BY <2>4 DEF Given, Inputs
    <3> QED
      BY <3>1, RankedInputs, RankedIsMeasured
  <2> QED
    BY <2>1, <2>2, <2>3, <2>4 DEF ForecastsSound, Of
<1> QED
  BY <1>1, GivenInput, PTL

\* A score, a finding and several items' findings are weighed as they are meant to be, for the
\* inputs of the run.
THEOREM FindingsAreWeighed == AlgorithmsSpec => []FindingsWeighed
<1>1. Given => FindingsWeighed
  <2> SUFFICES ASSUME Given, input # Start PROVE FindingsWeighed
    BY DEF FindingsWeighed, Of
  <2>1. ASSUME algorithm = "score"
        PROVE  /\ M!Bounded(input.outputs, M!Aggregate(input.outputs, Routed, <<>>,
                                             input.months, input.material, input.severe, FALSE))
               /\ \A lost \in Routed : M!LossNeverHelps(input.outputs, Routed, lost)
               /\ M!PenaltiesMonotone(input.outputs, input.months, input.material, input.severe)
    <3>1. input \in Scoring
      BY <2>1 DEF Given, Inputs
    <3>2. /\ Answers(input.outputs) /\ DOMAIN input.outputs # {}
          /\ input.months \in Nat /\ input.material \in Nat /\ input.severe \in Nat
      BY <3>1, ScoringInputs
    <3>3. DOMAIN <<>> = {} /\ input.months \in Int /\ FALSE \in BOOLEAN
      BY <3>2
    <3>4. \A a \in DOMAIN <<>> : <<>>[a] \in Nat
      BY <3>3
    <3>5. M!Bounded(input.outputs, M!Aggregate(input.outputs, Routed, <<>>,
                      input.months, input.material, input.severe, FALSE))
      BY <3>2, <3>3, <3>4, ScoreIsBounded
    <3>6. \A lost \in Routed : M!LossNeverHelps(input.outputs, Routed, lost)
      BY <3>2, LossOnlyLowers
    <3>7. M!PenaltiesMonotone(input.outputs, input.months, input.material, input.severe)
      BY <3>2, PenaltiesOnlyLower
    <3> QED
      BY <3>5, <3>6, <3>7
  <2>2. ASSUME algorithm = "finding" PROVE F!FindingsAreHeard(input, input.prose)
    <3>1. input \in Finding \cup Refusing
      BY <2>2 DEF Given, Inputs
    <3>2. /\ input.values \subseteq FigureTexts /\ IsFiniteSet(input.values) /\ input.evidence \in Nat
          /\ input.weight \in Int /\ input.own \in -1..100
      BY <3>1, FindingInputs
    <3> QED
      BY <3>2, FindingsHeard
  <2>3. ASSUME algorithm = "combine" PROVE F!CombinedIsWeakest(input.outs)
    <3>1. input \in Combining
      BY <2>3 DEF Given, Inputs
    <3> QED
      BY <3>1, CombiningInputs, LeastIsTrusted
  <2>4. ASSUME algorithm = "readable" PROVE F!ReadableIsGrounded(input.value)
    <3>1. input.value \in Values
      BY <2>4 DEF Given, Inputs
    <3> QED
      BY <3>1, ValuesAreTexts, ReadablesAreGrounded
  <2> QED
    BY <2>1, <2>2, <2>3, <2>4 DEF FindingsWeighed, Of
<1> QED
  BY <1>1, GivenInput, PTL
=============================================================================
