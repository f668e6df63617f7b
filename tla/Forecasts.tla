------------------------------ MODULE Forecasts ------------------------------
(***************************************************************************)
(* The forecasting models (src/ceynex/models/), how they are tested        *)
(* (src/eval/backtest.py) and chosen, and what the forecast agent answers  *)
(* with (src/ceynex/agents/forecast.py).  A series is a function from      *)
(* years to values, a point [point, lower, upper]; what a library computes *)
(* (a spread, a quantile, another member's points) is an input.            *)
(***************************************************************************)
EXTENDS Integers, Sequences, FiniteSets, FiniteSetsExt, Functions

Null == -1
MIN_OBSERVATIONS == 5
MIN_TRAIN == 5
Least(a, b) == IF a < b THEN a ELSE b
Most(a, b) == IF a > b THEN a ELSE b
First(series) == Min(DOMAIN series)
Last(series) == Max(DOMAIN series)
NextYear(series, y) == Min({z \in DOMAIN series : z > y})
Steps(series) == DOMAIN series \ {Last(series)}

-----------------------------------------------------------------------------
(* SeriesForecastModel.                                                    *)

\* _series: rows without a year or a value are dropped, those of one year added up.
SeriesOf(rows) ==
  LET known == {i \in DOMAIN rows : rows[i].year # Null /\ rows[i].value # Null}
  IN [y \in {rows[i].year : i \in known} |->
        SumFunction([i \in {k \in known : rows[k].year = y} |-> rows[i].value])]
Fits(series) == Cardinality(DOMAIN series) >= MIN_OBSERVATIONS

\* predict: a lower bound below nothing is nothing; the point is left as it is.
Predicted(points) == [h \in DOMAIN points |-> [points[h] EXCEPT !.lower = Most(0, @)]]

Root(n) == Max({r \in 0..n : r * r <= n})
\* _bootstrap_interval: the spread of the residuals, or a quarter of the first point.
Spread(points, residuals) ==
  IF Len(residuals) < 2 THEN Most(points[1], -points[1]) \div 4
  ELSE Max({0} \cup {residuals[i] - residuals[j] : i, j \in DOMAIN residuals})
Banded(points, spread) ==
  [h \in DOMAIN points |->
     [point |-> points[h], lower |-> points[h] - Root(spread * spread * h),
      upper |-> points[h] + Root(spread * spread * h)]]

\* _Drift: the change of a year, over the years a gap spans.
YearlyChange(series) ==
  [of |-> SumFunction([y \in Steps(series) |-> series[NextYear(series, y)] - series[y]]),
   by |-> SumFunction([y \in Steps(series) |-> NextYear(series, y) - y])]
\* _drift_forecast of the agent: the change from one observation to the next.
ChangeOfObservations(series) ==
  [of |-> SumFunction([y \in Steps(series) |-> series[NextYear(series, y)] - series[y]]),
   by |-> Cardinality(Steps(series))]
Drifted(series, change, horizon) ==
  [h \in 1..horizon |-> series[Last(series)] + (change.of * h) \div change.by]
\* AnnualNaiveModel and NaiveApparelForecastModel: the last value again.
Naive(series, horizon) == [h \in 1..horizon |-> series[Last(series)]]

\* CombinationModel: the mean of the members that fitted, the widest of their bands.
Combined(members) ==
  IF Len(members) < 2 THEN <<>>
  ELSE [h \in DOMAIN members[1] |->
          [point |-> SumFunction([m \in DOMAIN members |-> members[m][h].point]) \div Len(members),
           lower |-> Min({members[m][h].lower : m \in DOMAIN members}),
           upper |-> Max({members[m][h].upper : m \in DOMAIN members})]]

\* GradientBoostedModel: changes add up; a quantile beyond the median is the median.
Boosted(last, quantiles) ==
  LET middle == [i \in DOMAIN quantiles |-> quantiles[i][2]]
      low == [i \in DOMAIN quantiles |-> Least(quantiles[i][1], quantiles[i][2])]
      high == [i \in DOMAIN quantiles |-> Most(quantiles[i][3], quantiles[i][2])]
      upTo(h, changes) == last + SumFunction([i \in 1..h |-> changes[i]])
  IN [h \in DOMAIN quantiles |->
        [point |-> upTo(h, middle), lower |-> upTo(h, low), upper |-> upTo(h, high)]]

\* TimeSeriesModel: SARIMA, or smoothing, or nothing; its own interval or a bootstrapped one.
Fitted(sarima, ets) == IF sarima THEN "SARIMA" ELSE IF ets THEN "ETS" ELSE "none"
Intervals(fitted, analytic, points, residuals) ==
  IF fitted = "SARIMA" /\ analytic # <<>> THEN analytic ELSE Banded(points, Spread(points, residuals))

-----------------------------------------------------------------------------
(* Backtests.                                                              *)

\* Mutant: a fold trains up to the end of what it is tested on.
Folds_Leak(n, folds, horizon) ==
  {[train |-> n - (k - 1) * horizon, test |-> n - (k - 1) * horizon] :
     k \in {j \in 1..folds : n - j * horizon >= MIN_TRAIN}}
\* _folds: origins that expand, where there is enough to train on.
Folds(n, folds, horizon) ==
  {[train |-> n - k * horizon, test |-> n - (k - 1) * horizon] :
     k \in {j \in 1..folds : n - j * horizon >= MIN_TRAIN}}
\* summarize: every fold that fitted; periods whose actual is zero have no percentage.
Tested(n, folds, horizon, fitted) ==
  {y \in 1..n : \E f \in Folds(n, folds, horizon) \cap fitted : f.train < y /\ y <= f.test}

\* load_best: the least error; one of the complex families only when it wins by a margin.
MARGIN == 5
Scored(models) == {m \in models : m.mape # Null}
Winner(models) == CHOOSE m \in models : \A o \in models : m.mape <= o.mape
LoadBest(models) ==
  LET best == Winner(Scored(models))
      simple == {m \in Scored(models) : ~m.complex}
  IN IF Scored(models) = {} THEN {}
     ELSE IF best.complex /\ simple # {} /\ best.mape * 100 > Winner(simple).mape * (100 - MARGIN)
          THEN {Winner(simple)} ELSE {best}
LoadLatest(models) == {m \in models : \A o \in models : m.at >= o.at}
\* _should_select_gbm, before a model is registered.
SelectsGbm(gbm, simple) == gbm.mape * 100 <= Winner(simple).mape * (100 - MARGIN)

-----------------------------------------------------------------------------
(* The agent.  a: [target ("none" when the question names none), partner,  *)
(* horizon]; history: the years the graph holds, or "down".                *)

EXPORT_VALUE == "export_value_usd"
AGENT_MIN == 4
Horizon(a) == Most(1, Least(a.horizon, 5))
TargetOf(a) == IF a.target = "none" THEN EXPORT_VALUE ELSE a.target

\* _load_registered_model: any error of the registry is no model.
Registered(a, models) ==
  LET filed == {m \in models : m.target = TargetOf(a)}
      best == LoadBest(filed)
  IN IF a.partner # "none" THEN {} ELSE IF best # {} THEN best ELSE LoadLatest(filed)

Valid(points) == points # <<>> /\ \A h \in DOMAIN points : points[h].lower <= points[h].point
                                                   /\ points[h].point <= points[h].upper
Answer(kind, target, scope, points) == [kind |-> kind, target |-> target, scope |-> scope, points |-> points]
Baseline(history, horizon, spread) ==
  Predicted(Banded(Drifted(history, ChangeOfObservations(history), horizon), spread))
Forecast(a, models, down, history, spread) ==
  LET model == Registered(a, models)
      chosen == CHOOSE m \in model : TRUE
  IN CASE model # {} /\ Valid(chosen.points) -> Answer("registered", chosen.target, "none", chosen.points)
       [] model # {} /\ ~Valid(chosen.points) -> Answer("failed", "none", "none", <<>>)
       [] model = {} /\ a.target # "none" -> Answer("withheld", "none", "none", <<>>)
       [] model = {} /\ a.target = "none" /\ down -> Answer("failed", "none", "none", <<>>)
       [] model = {} /\ a.target = "none" /\ ~down /\ Cardinality(DOMAIN history) < AGENT_MIN ->
            Answer("too few", "none", "none", <<>>)
       [] OTHER -> Answer("baseline", EXPORT_VALUE, a.partner, Baseline(history, Horizon(a), spread))

\* _forecast_each: a growth for each item with a first point and a last value that is not zero.
Growth(outs) == {i \in DOMAIN outs : outs[i].next # Null /\ outs[i].last \notin {Null, 0}}
Faster(outs, i, j) == outs[i].next * outs[j].last > outs[j].next * outs[i].last
Ranking(outs) ==
  [ranked |-> IF Cardinality(Growth(outs)) < 2 THEN {}
              ELSE {i \in Growth(outs) : \A j \in Growth(outs) : ~Faster(outs, j, i)},
   lacking |-> DOMAIN outs \ Growth(outs)]

-----------------------------------------------------------------------------
(* Properties.                                                             *)

Surround(points) == \A h \in DOMAIN points :
  (points[h].lower <= points[h].point \/ points[h].point < 0) /\ points[h].point <= points[h].upper

\* Whatever the quantiles, members and residuals, a band holds its own point, but for a point
\* below zero, and no band ends before it begins to widen: a later year is no surer.
BandHoldsItsPoint(series, quantiles, spread) ==
  LET horizon == Len(quantiles)
      drift == Banded(Drifted(series, YearlyChange(series), horizon), spread)
      boosted == Boosted(series[Last(series)], quantiles)
      naive == Intervals(Fitted(FALSE, TRUE), <<>>, Naive(series, horizon), <<spread, 0>>)
      all == {drift, boosted, naive, Combined(<<drift, boosted>>), Combined(<<drift, boosted, naive>>)}
  IN \A p \in all : /\ Surround(Predicted(p))
                    /\ p \in {drift, boosted, naive} =>
                         \A h \in 1..(horizon - 1) :
                           p[h].upper - p[h].lower <= p[h + 1].upper - p[h + 1].lower

\* The agent's baseline and the registered drift model see one drift in a series without gaps.
BaselinesAgree(series) ==
  Steps(series) # {} /\ (\A y \in First(series)..Last(series) : y \in DOMAIN series) =>
    YearlyChange(series) = ChangeOfObservations(series)

\* No fold is tested on what it was trained on, no year is tested twice, and the folds end at
\* the last year there is.
NoLeak(n, folds, horizon) ==
  LET all == Folds(n, folds, horizon) IN
  /\ \A f \in all : MIN_TRAIN <= f.train /\ f.train < f.test /\ f.test <= n
  /\ \A f, g \in all : f # g => f.test <= g.train \/ g.test <= f.train
  /\ all # {} => \E f \in all : f.test = n
  /\ Cardinality(Tested(n, folds, horizon, all)) = horizon * Cardinality(all)

\* The two places that choose between a boosted model and a simple one decide alike.
OneMargin(models) ==
  LET simple == {m \in Scored(models) : ~m.complex}
      complex == {m \in Scored(models) : m.complex}
  IN simple # {} /\ complex # {} =>
       /\ (\E m \in LoadBest(models) : m.complex) => SelectsGbm(Winner(complex), simple)
       /\ SelectsGbm(Winner(complex), simple) /\ Winner(complex).mape < Winner(simple).mape =>
            \E m \in LoadBest(models) : m.complex

\* An answer is a forecast of what was asked: of the target, of the partner, and never a
\* national model's where a partner was asked or dollars where tonnes were.
AnswersTheQuestion(a, models, down, history, spread) ==
  LET f == Forecast(a, models, down, history, spread)
  IN f.points # <<>> =>
       /\ f.target = TargetOf(a) /\ f.scope = a.partner
       /\ f.kind = "registered" => Valid(f.points)
       /\ f.kind = "baseline" => Len(f.points) \in 1..5 /\ Surround(f.points)

\* Items are ranked on growths that were measured; what could not be ranked is named.
RankedOnMeasured(outs) ==
  LET r == Ranking(outs) IN
  /\ \A i \in r.ranked : outs[i].last > 0 /\ outs[i].next # Null
  /\ r.ranked \cap r.lacking = {}
  /\ r.ranked = {} => Cardinality(DOMAIN outs \ r.lacking) < 2
=============================================================================
