----------------------------- MODULE Simulation -----------------------------
(***************************************************************************)
(* What a shock does to export revenue: the formulas                       *)
(* (src/ceynex/models/shocks.py), the agent that asks them                 *)
(* (src/ceynex/agents/trade_economics.py) and the scenario workbench       *)
(* (src/ceynex/api/routes/scenario.py).  Elasticities are in tenths, a     *)
(* magnitude in percent, a change in hundredths of a percent.              *)
(* A question is [cues, descriptive, change, falls, appreciates, pct,      *)
(* item, sectors, words, market]: the shock words and markers it has.      *)
(***************************************************************************)
EXTENDS Integers, Sequences, FiniteSets, FiniteSetsExt

None == "none"
Null == -1000

-----------------------------------------------------------------------------
(* The formulas.                                                           *)

Groups == {"fx_pass_through", "export_demand_elasticity", "tariff_incidence", "agreement_loss_mfn_tariff"}
DEFAULTS == [fx_pass_through |-> 5, export_demand_elasticity |-> -10, tariff_incidence |-> 5,
             agreement_loss_mfn_tariff |-> 10]
\* parameter: the configured value or the fallback, unless the caller overrides the group.
Parameter(config, group, sector, overrides) ==
  LET key == IF group = "tariff_incidence" THEN "default" ELSE sector
      known == <<group, key>> \in DOMAIN config
      configured == IF known THEN config[<<group, key>>] ELSE DEFAULTS[group]
  IN IF group \in DOMAIN overrides
     THEN [name |-> group, value |-> overrides[group], default |-> configured, basis |-> "override"]
     ELSE [name |-> group, value |-> configured, default |-> configured,
           basis |-> IF known THEN "config" ELSE "fallback"]

Outcome(shock, price, volume, revenue, parameters) ==
  [shock |-> shock, price |-> price, volume |-> volume, revenue |-> revenue, parameters |-> parameters]

FxShock(config, sector, depreciation, overrides) ==
  LET pass == Parameter(config, "fx_pass_through", sector, overrides)
      elasticity == Parameter(config, "export_demand_elasticity", sector, overrides)
      price == -pass.value * depreciation
      volume == elasticity.value * price
  IN Outcome("fx", price * 10, volume, volume + price * 10, {pass, elasticity})

\* _tariff_split: the buyer's price rises by what the exporter does not bear.
TariffSplit(tariff, incidence, elasticity) ==
  LET buyer == (10 - incidence) * tariff
      volume == elasticity * buyer
  IN [price |-> buyer * 10, volume |-> volume, revenue |-> volume - incidence * tariff * 10]
Split(shock, rate, config, sector, overrides, more) ==
  LET incidence == Parameter(config, "tariff_incidence", sector, overrides)
      elasticity == Parameter(config, "export_demand_elasticity", sector, overrides)
      s == TariffSplit(rate, incidence.value, elasticity.value)
  IN Outcome(shock, s.price, s.volume, s.revenue, more \cup {incidence, elasticity})
TariffShock(config, sector, tariff, overrides) == Split("tariff", tariff, config, sector, overrides, {})
AgreementLoss(config, sector, rate, overrides) ==
  Split("agreement", rate.value, config, sector, overrides, {rate})
DemandShock(change) == Outcome("demand", 0, change * 100, change * 100, {})
\* market_loss_shock: the market's share of the baseline.
MarketLoss(baseline, bought) ==
  LET share == (bought * 10000) \div baseline IN Outcome("market_loss", 0, -share, -share, {})

-----------------------------------------------------------------------------
(* The question.                                                           *)

SHOCKS == <<"agreement", "tariff", "fx", "market_loss", "demand">>
\* _classify_shock: what asks for the rules and posits no change describes; the first cue wins.
Classify(q) ==
  LET at == {i \in DOMAIN SHOCKS : SHOCKS[i] \in q.cues}
  IN CASE q.descriptive /\ ~q.change -> "policy"
       [] at # {} /\ ~(q.descriptive /\ ~q.change) -> SHOCKS[Min(at)]
       [] OTHER -> "unsupported"
\* _simulate: a tariff that nobody proposes is described.
Shock(q) ==
  IF Classify(q) = "tariff" /\ q.pct = Null /\ ~q.change THEN "policy" ELSE Classify(q)
Magnitude(q) ==
  LET stated == IF q.pct = Null THEN 5 ELSE q.pct
  IN IF Shock(q) = "demand" /\ q.falls THEN -stated ELSE stated

SECTOR_OF_ITEM == [tea |-> "agriculture", knit |-> "apparel", woven |-> "apparel"]
\* _sectors_for: the route's, the words', the item's, or both.
SectorsFor(q) ==
  CASE q.sectors # {} -> q.sectors
    [] q.sectors = {} /\ q.words # {} -> q.words
    [] q.sectors = {} /\ q.words = {} /\ q.item # None -> {SECTOR_OF_ITEM[q.item]}
    [] OTHER -> {"agriculture", "apparel"}
\* _representative_item.
RepresentativeItem(sector, item) ==
  IF item # None /\ SECTOR_OF_ITEM[item] = sector THEN item
  ELSE IF sector = "agriculture" THEN "tea" ELSE "knit"

-----------------------------------------------------------------------------
(* A rate that documents state: passages of [tariff, goods, rates].        *)

MIN_PLAUSIBLE_RATE == 1
MAX_PLAUSIBLE_RATE == 60
Rates(passage) ==
  IF passage.tariff /\ passage.goods
  THEN {r \in passage.rates : MIN_PLAUSIBLE_RATE <= r /\ r <= MAX_PLAUSIBLE_RATE} ELSE {}
\* extract_tariff_rate: a rate only when the passages state one.
SourcedRate(passages) ==
  LET found == UNION {Rates(passages[i]) : i \in DOMAIN passages}
  IN IF Cardinality(found) = 1 THEN found ELSE {}

-----------------------------------------------------------------------------
(* The agent.  graph: [up, baseline, covered, bought], by item.            *)

\* baseline_value: the latest year's total of the item, or none.
BaselineValue(graph, item) == graph.baseline[item]

\* _simulate_agreement_loss: coverage by a unilateral preference, at the documents' rate or the
\* configured one.
AgreementOutcome(config, sector, item, graph, sourced) ==
  LET configured == Parameter(config, "agreement_loss_mfn_tariff", sector, <<>>)
      rate == IF sourced = {} THEN configured
              ELSE [configured EXCEPT !.value = CHOOSE r \in sourced : TRUE, !.basis = "sourced"]
  IN IF item \notin graph.covered THEN {} ELSE {AgreementLoss(config, sector, rate, <<>>)}

\* One sector's outcome: none when the shock has nothing to stand on.
SectorOutcome(q, config, sector, graph, passages) ==
  LET item == RepresentativeItem(sector, q.item)
      baseline == BaselineValue(graph, item)
      bought == IF q.market = None THEN Null ELSE graph.bought[item]
  IN IF baseline = Null THEN {}
     ELSE CASE Shock(q) = "agreement" ->
                 AgreementOutcome(config, sector, item, graph, SourcedRate(passages))
            [] Shock(q) = "tariff" -> {TariffShock(config, sector, Magnitude(q), <<>>)}
            [] Shock(q) = "demand" -> {DemandShock(Magnitude(q))}
            [] Shock(q) = "market_loss" -> IF bought = Null THEN {} ELSE {MarketLoss(baseline, bought)}
            [] Shock(q) = "fx" -> {FxShock(config, sector, Magnitude(q), <<>>)}

\* _simulate: figures, their evidence and what is said for each sector; the gap when two are.
Simulated(q, config, graph, passages) ==
  LET of == [s \in SectorsFor(q) |-> SectorOutcome(q, config, s, graph, passages)]
      done == {s \in DOMAIN of : of[s] # {}}
      pct(s) == (CHOOSE o \in of[s] : TRUE).revenue
  IN [kind |-> "simulated", figures |-> [s \in done |-> pct(s)],
      assumed |-> {"shock", "form", "elasticities"} \cup (DOMAIN of \ done), cited |-> done,
      gap |-> IF Cardinality(done) = 2 THEN {pct("agriculture") - pct("apparel")} ELSE {}]
\* _describe_policy and _decline_unsupported: no figure of either.
NoFigures(kind, cited) ==
  [kind |-> kind, figures |-> <<>>, assumed |-> {kind}, cited |-> cited, gap |-> {}]
\* trade_economics_node.
TradeEconomics(q, config, graph, passages) ==
  CASE ~graph.up -> NoFigures("failed", {})
    [] graph.up /\ Shock(q) = "policy" -> NoFigures("policy", {})
    [] graph.up /\ Shock(q) = "unsupported" ->
         NoFigures("declined", {s \in SectorsFor(q) :
           BaselineValue(graph, RepresentativeItem(s, q.item)) # Null})
    [] OTHER -> Simulated(q, config, graph, passages)

\* finish and _confidence of common.py: prose or the findings; a score for what supports it.
Finished(findings, figures, evidence, prose, grounded) ==
  [text |-> IF findings /\ prose /\ grounded THEN "prose" ELSE IF findings THEN "findings" ELSE None,
   degraded |-> ~(findings /\ prose /\ grounded),
   confidence |-> Max({0, (IF figures > 0 THEN 90 ELSE 30) - 15 * Max({0, 2 - evidence})})]

\* run_scenario: the same formulas over the same baseline, with no document.
RunScenario(request, config, graph) ==
  LET item == IF request.item = None THEN RepresentativeItem(request.sector, None) ELSE request.item
      baseline == BaselineValue(graph, item)
      rate == Parameter(config, "agreement_loss_mfn_tariff", request.sector, request.overrides)
  IN IF SECTOR_OF_ITEM[item] # request.sector THEN {}
     ELSE IF baseline = Null \/ (request.shock = "agreement" /\ item \notin graph.covered)
     THEN {[refused |-> TRUE]}
     ELSE {CASE request.shock = "fx" ->
                  FxShock(config, request.sector, request.magnitude, request.overrides)
             [] request.shock = "tariff" ->
                  TariffShock(config, request.sector, request.magnitude, request.overrides)
             [] request.shock = "agreement" ->
                  AgreementLoss(config, request.sector, rate, request.overrides)}

-----------------------------------------------------------------------------
(* Properties.                                                             *)

\* The workbench and the agent tell one story: the same outcome of the same shock over the
\* same graph, and a refusal of one is a refusal of the other.
WorkbenchAgrees(q, config, graph) ==
  \A s \in SectorsFor(q) :
    LET request == [shock |-> Shock(q), sector |-> s, magnitude |-> Magnitude(q), overrides |-> <<>>,
                    item |-> RepresentativeItem(s, q.item)]
        asked == SectorOutcome(q, config, s, graph, <<>>)
        run == RunScenario(request, config, graph)
    IN Shock(q) \in {"fx", "tariff", "agreement"} =>
         IF asked = {} THEN run = {[refused |-> TRUE]} ELSE run = asked

\* A tariff is paid by the buyer and the exporter between them and never pays; the more the
\* exporter bears the less volume is lost; and a lost preference is a tariff at its rate.
TariffIsShared(config, sector, tariff) ==
  LET shock(more) == TariffShock(config, sector, tariff, more)
      borne(s) == Parameter(config, "tariff_incidence", sector, [tariff_incidence |-> s])
      at(s) == shock([tariff_incidence |-> s])
      loss == AgreementLoss(config, sector, [Parameter(config, "agreement_loss_mfn_tariff", sector, <<>>)
                                               EXCEPT !.value = tariff], <<>>)
  IN /\ \A s \in 0..10 : /\ at(s).price + borne(s).value * tariff * 10 = tariff * 100
                         /\ tariff > 0 => at(s).revenue < 0
                         /\ s > 0 => at(s).volume >= at(s - 1).volume
     /\ shock(<<>>).revenue = loss.revenue /\ shock(<<>>).price = loss.price

\* No figure without its ground: a description or a refusal has none, a sector has one exactly
\* when its baseline, its coverage or its market is known and else is said to have none, and
\* a gap is between two.
FiguresHaveGround(q, config, graph, passages) ==
  LET out == TradeEconomics(q, config, graph, passages)
  IN /\ out.kind # "simulated" => out.figures = <<>>
     /\ out.kind = "simulated" =>
          /\ DOMAIN out.figures \cup (out.assumed \cap SectorsFor(q)) = SectorsFor(q)
          /\ DOMAIN out.figures \cap out.assumed = {} /\ out.cited = DOMAIN out.figures
          /\ out.gap # {} => Cardinality(DOMAIN out.figures) = 2
     /\ \A s \in DOMAIN out.figures :
          LET item == RepresentativeItem(s, q.item)
          IN /\ graph.baseline[item] # Null
             /\ Shock(q) = "agreement" => item \in graph.covered
             /\ Shock(q) = "market_loss" => graph.bought[item] # Null
     /\ Shock(q) = "tariff" => q.pct # Null \/ q.change

\* A documents' rate is used when they agree on it: in whatever order they were found.
DocumentsAgree(passages) ==
  LET n == Len(passages)
      reversed == [i \in 1..n |-> passages[n + 1 - i]]
  IN /\ SourcedRate(passages) = SourcedRate(reversed)
     /\ \A r \in SourcedRate(passages) : \A i \in 1..n : Rates(passages[i]) \subseteq {r}
=============================================================================
