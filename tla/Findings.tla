------------------------------ MODULE Findings ------------------------------
(***************************************************************************)
(* What every agent does with what it found: the prose about it, checked   *)
(* figure by figure against the findings (src/ceynex/orchestrator/         *)
(* grounding.py), the score it gives itself, and several items' findings   *)
(* made one output (src/ceynex/agents/common.py).  A figure is the text of *)
(* a number: its sign, the digits before the point and how many follow it; *)
(* `milli' is what follows it, in thousandths.                             *)
(***************************************************************************)
EXTENDS Confidence, Sequences

STRUCTURAL_DIGIT_LIMIT == 2
YEAR_RANGE == 1900..2099
Million == 1000000
Billion == 1000000000

Figure(neg, int, decimals, milli) == [neg |-> neg, int |-> int, decimals |-> decimals, milli |-> milli]

-----------------------------------------------------------------------------
(* Figures.                                                                *)

Power(k) == <<1, 10, 100, 1000, 10000, 100000, Million, 10 * Million, 100 * Million, Billion>>[k + 1]
Digits(n) == 1 + Cardinality({k \in 1..9 : n \div Power(k) > 0})

\* The text of g begins with the integer part of v.
StartsWith(g, v) ==
  /\ g.neg = v.neg
  /\ \/ v.int = g.int
     \/ v.int > 0 /\ \E k \in 1..9 : g.int \div Power(k) = v.int

\* The ways a large value is rounded: to billions and millions, with 0 to 2 decimals.
ScaledForms(v) ==
  UNION {{Figure(v.neg, ((v.int + scale \div (2 * d)) \div (scale \div d)) \div d, 2, 0) :
            d \in {1, 10, 100}} : scale \in {s \in {Million, Billion} : v.int >= s}}

\* With two decimals.
Rounded(v) == Figure(v.neg, IF v.milli >= 995 THEN v.int + 1 ELSE v.int, 2, 0)

\* With four significant digits: those above 9999 with an exponent, which reads as 0.
Significant(v) ==
  LET lead == Max({k \in 0..9 : v.int \div Power(k) > 0})
      unit == Power(lead - 3)
  IN CASE v.int >= Power(4) ->
            {Figure(v.neg, IF (v.int + unit \div 2) \div unit >= Power(4) THEN 1
                           ELSE v.int \div Power(lead), 3, 0),
             Figure(FALSE, 0, 1, 0)}
       [] v.int < Power(4) /\ v.int >= Power(3) ->
            {Figure(v.neg, IF v.milli > 500 THEN v.int + 1 ELSE v.int, 0, 0)}
       [] OTHER -> {}

\* corpus_texts: a value as it is and rounded.
Corpus(values) == UNION {{v, Rounded(v)} \cup Significant(v) \cup ScaledForms(v) : v \in values}

\* Too short to be a claim, or a year.
Structural(f) ==
  \/ Digits(f.int) + f.decimals <= STRUCTURAL_DIGIT_LIMIT
  \/ f.int \in YEAR_RANGE /\ f.decimals = 0 /\ ~f.neg

GroundedBy(f, pool) == \E g \in pool : StartsWith(g, f)

\* A fall states a negative figure without its sign.
Fallen(pool) == {[g EXCEPT !.neg = FALSE] : g \in {h \in pool : h.neg}}

Ungrounded(sentence, pool, aware) ==
  {f \in sentence.figures :
     /\ ~Structural(f) /\ ~GroundedBy(f, pool)
     /\ ~(aware /\ sentence.fell /\ ~f.neg /\ GroundedBy(f, Fallen(pool)))}

\* ungrounded_figures, sentence by sentence.
UngroundedFigures(prose, pool, aware) == UNION {Ungrounded(s, pool, aware) : s \in prose}

\* readable_amount, of which `million' and `billion' are words.
ReadableAmount(v) ==
  LET In(scale) == Figure(v.neg, ((v.int + scale \div 200) \div (scale \div 100)) \div 100, 2, 0)
  IN CASE v.int >= Billion -> In(Billion)
       [] v.int < Billion /\ v.int >= Million -> In(Million)
       [] OTHER -> Rounded(v)

-----------------------------------------------------------------------------
(* An agent's output.                                                      *)

\* _confidence: figures, and at least two items of evidence, by the weight the router gave.
SelfScore(figures, evidence, degraded, weight) ==
  LET base == (IF figures > 0 THEN 90 ELSE 30) - (IF evidence < 2 THEN (2 - evidence) * 15 ELSE 0)
  IN Aggregate([self |-> [confidence |-> IF base < 0 THEN 0 ELSE base, error |-> FALSE,
                          degraded |-> degraded]],
               {"self"}, [self |-> weight], NoDate, 0, 0, FALSE)

\* The score an agent gives finish() itself, if it does.
NoScore == -1

\* finish: prose with a figure that is not in the findings is dropped for the summary.
Finish(findings, prose, aware) ==
  LET pool == Corpus(findings.values \cup findings.asked)
      kept == prose # {} /\ UngroundedFigures(prose, pool, aware) = {}
  IN [text |-> IF kept THEN prose ELSE {},
      degraded |-> ~kept,
      confidence |->
        IF findings.own # NoScore THEN Clamp([of |-> findings.own, by |-> 1])
        ELSE SelfScore(Cardinality(findings.values), findings.evidence, ~kept, findings.weight)]

Under(outs) == UNION {{<<i, f>> : f \in outs[i].figures} : i \in DOMAIN outs}

\* combine_outputs: figures under their item's name, the lowest score.
CombineOutputs(outs) ==
  [figures |-> Under(outs),
   confidence |-> Min({outs[i].confidence : i \in DOMAIN outs}),
   degraded |-> \E i \in DOMAIN outs : outs[i].degraded]

-----------------------------------------------------------------------------
(* Properties.                                                             *)

\* A figure of the findings written the way readers are shown it is never rejected, and
\* with the other sign it is, unless its sentence says that it fell.
ReadableIsGrounded(v) ==
  LET shown == ReadableAmount(v)
      flipped == [shown EXCEPT !.neg = ~v.neg]
  IN /\ \A fell \in BOOLEAN :
          UngroundedFigures({[figures |-> {shown}, fell |-> fell]}, Corpus({v}), TRUE) = {}
     /\ \A fell \in BOOLEAN :
          UngroundedFigures({[figures |-> {flipped}, fell |-> fell]}, Corpus({v}), TRUE) = {}
            <=> (fell /\ v.neg)

\* DECLINE_CONFIDENCE_CEILING: a score below it is taken for a refusal by the merge.
Declines(score) == score.of < 25 * score.by

\* An agent that leaves its score to the formula is heard when it has figures and the router
\* gave it a weight, and is taken for a refusal when it has neither figures nor evidence, or
\* no weight.  A score of its own is taken as it is, with or without prose.
FindingsAreHeard(findings, prose) ==
  LET declines == Declines(Finish(findings, prose, TRUE).confidence)
      scored == findings.own # NoScore
  IN /\ ~scored /\ findings.weight > 0 /\ findings.values # {} => ~declines
     /\ ~scored /\ findings.values = {} /\ findings.evidence <= 1 => declines
     /\ ~scored /\ findings.weight <= 0 => declines
     /\ scored => (declines <=> findings.own < 25)

\* Several items' findings lose no figure and are trusted no more than the least of them.
CombinedIsWeakest(outs) ==
  LET all == CombineOutputs(outs)
  IN /\ Cardinality(all.figures) = SumFunction([i \in DOMAIN outs |-> Cardinality(outs[i].figures)])
     /\ \A i \in DOMAIN outs : all.confidence <= outs[i].confidence
     /\ ~all.degraded => \A i \in DOMAIN outs : ~outs[i].degraded
=============================================================================
