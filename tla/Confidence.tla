----------------------------- MODULE Confidence -----------------------------
(***************************************************************************)
(* The confidence of an answer (src/ceynex/orchestrator/confidence.py).    *)
(* Scores and penalties are in hundredths and weights are whole numbers; a *)
(* score is kept exact as a fraction, `of' over `by'.                      *)
(***************************************************************************)
EXTENDS Integers, FiniteSets, FiniteSetsExt, Functions

STALENESS_PER_MONTH == 2
STALENESS_CAP == 20
DQ_MATERIAL_PENALTY == 5
DQ_SEVERE_PENALTY == 10
DQ_CAP == 25
COVERAGE_PENALTY == 15
FLOOR == 5
CEILING == 95

AtMost(cap, n) == IF n > cap THEN cap ELSE n

\* outputs: agent -> [confidence, error, degraded]; relevance: agent -> weight, 1 for
\* those it does not name.  Nothing weighed gives 0.
WeightOf(relevance, a) == IF a \in DOMAIN relevance THEN relevance[a] ELSE 1
Weighted(outputs, relevance) ==
  LET counted == {a \in DOMAIN outputs : WeightOf(relevance, a) > 0}
      total == SumFunction([a \in counted |-> WeightOf(relevance, a) * outputs[a].confidence])
      weight == SumFunction([a \in counted |-> WeightOf(relevance, a)])
  IN IF weight = 0 THEN [of |-> 0, by |-> 1] ELSE [of |-> total, by |-> weight]

NoDate == -1
Staleness(months) ==
  IF months <= 0 THEN 0 ELSE AtMost(STALENESS_CAP, STALENESS_PER_MONTH * months)

DqPenalty(material, severe) ==
  AtMost(DQ_CAP, DQ_MATERIAL_PENALTY * material + DQ_SEVERE_PENALTY * severe)

\* Mutant: an agent that never reported is not missed.
Coverage_Reported(route, outputs, periodMissed) ==
  IF periodMissed \/ \E a \in route \cap DOMAIN outputs : outputs[a].error \/ outputs[a].degraded
  THEN COVERAGE_PENALTY ELSE 0

\* One penalty however many routed agents are missing, failed or degraded.
Coverage(route, outputs, periodMissed) ==
  IF periodMissed \/ \E a \in route :
       a \notin DOMAIN outputs \/ outputs[a].error \/ outputs[a].degraded
  THEN COVERAGE_PENALTY ELSE 0

Clamp(s) ==
  CASE s.of < FLOOR * s.by -> [of |-> FLOOR, by |-> 1]
    [] s.of > CEILING * s.by -> [of |-> CEILING, by |-> 1]
    [] OTHER -> s

Aggregate(outputs, route, relevance, months, material, severe, periodMissed) ==
  LET w == Weighted(outputs, relevance)
      asked == IF route = {} THEN DOMAIN outputs ELSE route
      penalty == Staleness(months) + DqPenalty(material, severe)
                   + Coverage(asked, outputs, periodMissed)
  IN Clamp([of |-> w.of - penalty * w.by, by |-> w.by])

-----------------------------------------------------------------------------
LessEq(s, t) == s.of * t.by <= t.of * s.by

\* The score stays inside its bounds and is never above the best agent's.
Bounded(outputs, s) ==
  /\ LessEq([of |-> FLOOR, by |-> 1], s) /\ LessEq(s, [of |-> CEILING, by |-> 1])
  /\ \E a \in DOMAIN outputs :
       LessEq(s, [of |-> outputs[a].confidence, by |-> 1]) \/ s.of = FLOOR * s.by

\* Losing one routed agent's answer, to an error or to silence, never raises the score
\* above what the others alone would have had, and lowers one above the floor where they came in whole.
LossNeverHelps(outputs, route, lost) ==
  LET others == [a \in DOMAIN outputs \ {lost} |-> outputs[a]]
      failed == [a \in DOMAIN outputs |-> IF a = lost
                   THEN [confidence |-> 0, error |-> TRUE, degraded |-> TRUE] ELSE outputs[a]]
      whole == Aggregate(others, route \ {lost}, <<>>, NoDate, 0, 0, FALSE)
      silent == Aggregate(others, route, <<>>, NoDate, 0, 0, FALSE)
      broken == Aggregate(failed, route, <<>>, NoDate, 0, 0, FALSE)
  IN DOMAIN others # {} =>
       /\ LessEq(silent, whole) /\ LessEq(broken, silent)
       /\ /\ lost \in route /\ FLOOR * whole.by < whole.of
          /\ route \ {lost} \subseteq DOMAIN others
          /\ \A a \in DOMAIN others : ~others[a].error /\ ~others[a].degraded
          => ~LessEq(whole, silent)

\* Older data and more flagged data never raise it.
PenaltiesMonotone(outputs, months, material, severe) ==
  LET s(m, f, v) == Aggregate(outputs, {}, <<>>, m, f, v, FALSE)
  IN /\ LessEq(s(months + 1, material, severe), s(months, material, severe))
     /\ LessEq(s(months, material + 1, severe), s(months, material, severe))
     /\ LessEq(s(months, material, severe + 1), s(months, material + 1, severe))
=============================================================================
