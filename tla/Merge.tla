------------------------------- MODULE Merge --------------------------------
(***************************************************************************)
(* How the agents' outputs become one answer (src/ceynex/orchestrator/     *)
(* merger.py) and what the API reads back from the run's state.  A text is *)
(* what is looked for in it: its words, the items, sectors and measures it *)
(* names.  An output is                                                    *)
(*   [error, degraded, forecast : BOOLEAN, confidence : 0..100,            *)
(*    figures : name -> number, evidence : set of items, text : a text,    *)
(*    first : the item its text names first],                              *)
(* an evidence item [source, years, severity] and a state                  *)
(*   [query, outputs, route, relevance, notes, noTopic].                   *)
(***************************************************************************)
EXTENDS Confidence, Sequences

DECLINE_CONFIDENCE_CEILING == 25
NO_TOPIC_CONFIDENCE == 15
PUBLICATION_LAG == 18
Text(words, items, sectors, metrics) ==
  [words |-> words, items |-> items, sectors |-> sectors, metrics |-> metrics]

-----------------------------------------------------------------------------
(* Who answered, who declined, who failed.                                 *)

Part(outputs, P(_)) ==
  LET names == {a \in DOMAIN outputs : P(outputs[a])} IN [a \in names |-> outputs[a]]

Succeeded(s) == Part(s.outputs, LAMBDA o : ~o.error)
Failed(s) == Part(s.outputs, LAMBDA o : o.error)
NeverReported(s) == s.route \ DOMAIN s.outputs

Contributing(outputs) == Part(outputs, LAMBDA o : o.confidence >= DECLINE_CONFIDENCE_CEILING)
Declined(outputs) == Part(outputs, LAMBDA o : o.confidence < DECLINE_CONFIDENCE_CEILING)

-----------------------------------------------------------------------------
(* What could not be answered.                                             *)

DescribeGaps(failed, never) ==
  {[agent |-> a, why |-> "failed"] : a \in DOMAIN failed}
    \cup {[agent |-> a, why |-> "late"] : a \in never}

\* An item, or the sector of one, is named by a text.
Names(text, item, sectorOf) == item \in text.items \/ sectorOf[item] \in text.sectors

\* The decline refuses one measure of an item that the question did not ask for, and
\* a finding reports the item by another.  `first' is the item it names first.
SameItemAnswered(query, decline, contributing, sectorOf) ==
  /\ decline.text.metrics # {} /\ decline.first # "none"
  /\ query.items \cup query.sectors # {} => Names(query, decline.first, sectorOf)
  /\ decline.text.metrics \cap query.metrics = {}
  /\ \E a \in DOMAIN contributing :
       /\ DOMAIN contributing[a].figures # {} \/ contributing[a].evidence # {}
       /\ Names(contributing[a].text, decline.first, sectorOf)

Covered(query, decline, contributing, sectorOf) ==
  LET subject == query.words \cap decline.text.words
  IN \/ subject # {} /\ \E a \in DOMAIN contributing : subject \subseteq contributing[a].text.words
     \/ SameItemAnswered(query, decline, contributing, sectorOf)

DescribeDeclines(query, declined, contributing, sectorOf) ==
  {[agent |-> a, why |-> "declined"] : a \in
     {d \in DOMAIN declined : ~Covered(query, declined[d], contributing, sectorOf)}}

OutOfScopeGaps(s) == {[agent |-> n, why |-> "scope"] : n \in s.notes}

-----------------------------------------------------------------------------
(* Conflicts, evidence and the forecast.                                   *)

Big(n) == IF n < 0 THEN -n ELSE n

\* Mutant: the gap is measured against the smaller value.
DetectConflicts_Highest(outputs, directional) ==
  LET Values(f) == {outputs[a].figures[f] : a \in {b \in DOMAIN outputs : f \in DOMAIN outputs[b].figures}}
  IN {[figure |-> f, kind |-> "magnitude"] :
        f \in {g \in UNION {DOMAIN outputs[a].figures : a \in DOMAIN outputs} :
                 10 * (Max(Values(g)) - Min(Values(g))) > Max(Values(g))}}

\* Figures of which two analyses give values of opposite signs, when the figure has a
\* direction, or values more than a tenth of the larger apart.
DetectConflicts(outputs, directional) ==
  LET Holders(f) == {a \in DOMAIN outputs : f \in DOMAIN outputs[a].figures}
      Values(f) == {outputs[a].figures[f] : a \in Holders(f)}
      Opposed(f) == f \in directional /\ (\E v \in Values(f) : v > 0) /\ \E v \in Values(f) : v < 0
      Scale(f) == Max({Big(Min(Values(f))), Big(Max(Values(f)))})
      Apart(f) == Scale(f) > 0 /\ 10 * (Max(Values(f)) - Min(Values(f))) > Scale(f)
      shared == {f \in UNION {DOMAIN outputs[a].figures : a \in DOMAIN outputs} :
                   Cardinality(Holders(f)) >= 2}
  IN {[figure |-> f, kind |-> IF Opposed(f) THEN "direction" ELSE "magnitude"] :
        f \in {g \in shared : Opposed(g) \/ Apart(g)}}

\* The same claim from several agents is one item.
DedupeEvidence(outputs) == UNION {outputs[a].evidence : a \in DOMAIN outputs}
Flags(evidence, severity) ==
  Cardinality({e \in evidence : e.source = "DQ_FLAG" /\ e.severity = severity})

HasForecast(outputs) == \E a \in DOMAIN outputs : outputs[a].forecast

\* No year asked about lies inside the period of a finding that states one.
MissesTheAskedPeriod(query, contributing) ==
  LET periods == {e.years : e \in DedupeEvidence(contributing)} \ {{}}
  IN /\ query.past /\ periods # {}
     /\ \A p \in periods, y \in query.years : ~(Min(p) <= y /\ y <= Max(p))

\* Months from the end of the latest year any output cites, less what an annual
\* series takes to appear.
StalenessMonths(s, now) ==
  LET years == UNION {e.years : e \in DedupeEvidence(s.outputs)}
      since == (now.year - Max(years)) * 12 + (now.month - 12) - PUBLICATION_LAG
  IN IF years = {} THEN NoDate ELSE IF since < 0 THEN 0 ELSE since

-----------------------------------------------------------------------------
(* merge.                                                                  *)

\* The declines leave the score and the evidence when a finding answered.
Scored(s, succeeded, missed) ==
  LET contributing == Contributing(succeeded)
      declined == DOMAIN Declined(succeeded)
      drop == DOMAIN contributing # {} /\ declined # {} /\ ~missed
  IN IF drop THEN [outputs |-> [a \in DOMAIN s.outputs \ declined |-> s.outputs[a]],
                   route |-> s.route \ declined, evidence |-> contributing]
     ELSE [outputs |-> s.outputs, route |-> s.route, evidence |-> succeeded]

\* The prose states what it mentions, and the guards add the rest; `hedged' is one of
\* the marker phrases that count for every gap.
Complete(prose, conflicts, gaps) ==
  [by |-> "model", findings |-> {}, conflicts |-> conflicts,
   gaps |-> IF prose.hedged THEN prose.gaps \cap gaps ELSE gaps, hedged |-> prose.hedged]

Deterministic(contributing, conflicts, gaps) ==
  [by |-> "rules", findings |-> DOMAIN contributing, conflicts |-> conflicts, gaps |-> gaps,
   hedged |-> TRUE]
NothingSucceeded(gaps) ==
  [by |-> "nothing", findings |-> {}, conflicts |-> {}, gaps |-> gaps, hedged |-> TRUE]

NoProse == [none |-> TRUE]
Usable(prose) == prose # NoProse /\ prose.grounded

MergeOf(s, prose, now, c) ==
  LET succeeded == IF s.noTopic THEN <<>> ELSE Succeeded(s)
      contributing == Contributing(succeeded)
      gaps == DescribeGaps(Failed(s), NeverReported(s))
                \cup DescribeDeclines(s.query, Declined(succeeded), contributing, c.sectorOf)
                \cup OutOfScopeGaps(s)
      conflicts == DetectConflicts(contributing, c.directional)
      missed == DOMAIN contributing # {} /\ MissesTheAskedPeriod(s.query, contributing)
      scored == Scored(s, succeeded, missed)
      evidence == DedupeEvidence(scored.evidence)
      score == IF s.noTopic THEN [of |-> NO_TOPIC_CONFIDENCE, by |-> 1]
               ELSE Aggregate(scored.outputs, scored.route, s.relevance, StalenessMonths(s, now),
                              Flags(evidence, "material"), Flags(evidence, "severe"), missed)
  IN [confidence |-> score, evidence |-> evidence, unanswered |-> gaps, conflicts |-> conflicts,
      agentsUsed |-> DOMAIN succeeded, forecast |-> HasForecast(succeeded),
      degraded |-> \/ DOMAIN succeeded = {} \/ ~Usable(prose)
                   \/ \E a \in DOMAIN succeeded : succeeded[a].degraded,
      answer |-> CASE DOMAIN succeeded = {} -> NothingSucceeded(gaps)
                   [] DOMAIN succeeded # {} /\ Usable(prose) -> Complete(prose, conflicts, gaps)
                   [] OTHER -> Deterministic(contributing, conflicts, gaps)]

\* What the API works out again from the state the run left.
AgentsUsed(s) == IF s.noTopic THEN {} ELSE DOMAIN Succeeded(s)
Unanswered(s, c) ==
  IF s.noTopic THEN OutOfScopeGaps(s)
  ELSE DescribeGaps(Failed(s), NeverReported(s))
         \cup DescribeDeclines(s.query, Declined(Succeeded(s)), Contributing(Succeeded(s)), c.sectorOf)
         \cup OutOfScopeGaps(s)

-----------------------------------------------------------------------------
(* Properties.  r is what the merge made of s.                             *)

\* Every routed agent of a question with a topic is accounted for: it contributed, a
\* finding shares with it all the question shares with it, or the answer (which hedges,
\* when it does not name the gap) says that its part is missing.
EveryAgentAccounted(s, r, c) ==
  LET gap(a) == {g \in r.unanswered : g.agent = a}
  IN ~s.noTopic => \A a \in s.route :
       \/ a \in DOMAIN s.outputs /\ ~s.outputs[a].error
            /\ s.outputs[a].confidence >= DECLINE_CONFIDENCE_CEILING
       \/ gap(a) # {} /\ (gap(a) \subseteq r.answer.gaps \/ r.answer.hedged)
       \/ /\ a \in DOMAIN s.outputs /\ ~s.outputs[a].error
          /\ \E b \in r.agentsUsed \ {a} :
               \/ LET subject == s.query.words \cap s.outputs[a].text.words
                  IN subject # {} /\ subject \subseteq s.outputs[b].text.words
               \/ Names(s.outputs[b].text, s.outputs[a].first, c.sectorOf)

\* The list of gaps and the agents the API shows are those the merge worked with.
ApiAgrees(s, r, c) ==
  /\ r.agentsUsed = AgentsUsed(s)
  /\ ~s.noTopic => r.unanswered = Unanswered(s, c)
  /\ s.noTopic => Unanswered(s, c) \subseteq r.unanswered /\ r.evidence = {} /\ ~r.forecast

\* A figure is reported as disputed exactly when some two contributing analyses are
\* more than a tenth of the larger of the two apart, or one of them has it rising and
\* the other falling; and no served answer leaves it out.
ConflictsStated(s, r) ==
  LET disagree(a, b, f) ==
        LET x == s.outputs[a].figures[f]
            y == s.outputs[b].figures[f]
        IN 10 * Big(x - y) > Max({Big(x), Big(y)})
      heard == {a \in r.agentsUsed : s.outputs[a].confidence >= DECLINE_CONFIDENCE_CEILING}
  IN ~s.noTopic =>
       /\ {k.figure : k \in r.conflicts} =
            {f \in UNION {DOMAIN s.outputs[a].figures : a \in heard} :
               \E a, b \in heard : /\ f \in DOMAIN s.outputs[a].figures \cap DOMAIN s.outputs[b].figures
                                   /\ disagree(a, b, f)}
       /\ r.agentsUsed # {} => r.answer.conflicts = r.conflicts

SameScore(r, q) == r.confidence = q.confidence /\ r.evidence = q.evidence

\* An agent that declined costs an answered question nothing: the score and the
\* evidence are those of the run without it.
DeclineIsNeutral(s, prose, now, c) ==
  LET declined == {a \in DOMAIN Succeeded(s) : s.outputs[a].confidence < DECLINE_CONFIDENCE_CEILING}
      without == [s EXCEPT !.outputs = [a \in DOMAIN s.outputs \ declined |-> s.outputs[a]],
                           !.route = @ \ declined]
      missed == MissesTheAskedPeriod(s.query, Contributing(Succeeded(s)))
  IN ~s.noTopic /\ DOMAIN Contributing(Succeeded(s)) # {} /\ ~missed
       /\ StalenessMonths(s, now) = StalenessMonths(without, now) =>
         SameScore(MergeOf(s, prose, now, c), MergeOf(without, prose, now, c))
=============================================================================
