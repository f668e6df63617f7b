---------------------------- MODULE PolicyAnswer ----------------------------
(***************************************************************************)
(* How a question about policy is answered from documents: the graph names *)
(* the documents (src/ceynex/kg/queries.py), the vector store finds        *)
(* passages of them (src/ceynex/retrieval/client.py), and the agent says   *)
(* what they say of each market (src/ceynex/agents/trade_economics.py).    *)
(* A document is [issuers, goods, indexed], a passage                      *)
(* [doc, issuers, goods, measure, score, n].                               *)
(***************************************************************************)
EXTENDS Integers, Sequences, FiniteSets, FiniteSetsExt

Anywhere == "none"
MIN_RERANK_SCORE == 0
MAX_ATTEMPTS == 2

\* policy_documents_for: indexed, and issued by the market or covering the goods.
PolicyDocumentsFor(documents, partner, goods) ==
  {d \in DOMAIN documents :
     /\ documents[d].indexed
     /\ \/ partner = Anywhere /\ goods = {}
        \/ partner \in documents[d].issuers
        \/ goods \cap documents[d].goods # {}}

\* _build_filter: an empty part of the filter filters nothing.
Matches(filter, p) ==
  /\ filter.partner # Anywhere => filter.partner \in p.issuers
  /\ filter.goods # {} => filter.goods \cap p.goods # {}
  /\ filter.measures # {} => p.measure \in filter.measures
  /\ filter.docs # {} => p.doc \in filter.docs

Better(p, q) == p.score > q.score \/ (p.score = q.score /\ p.n < q.n)
\* _rerank: the best of those above the floor.
Rerank(candidates, limit) ==
  LET kept == {p \in candidates : p.score >= MIN_RERANK_SCORE}
  IN {p \in kept : Cardinality({o \in kept : Better(o, p)}) < limit}
Found(passages, filter, limit) == Rerank({p \in passages : Matches(filter, p)}, limit)
\* search: nothing of the goods is looked for again without them.
Search(passages, filter, limit) ==
  LET first == Found(passages, filter, limit)
  IN IF first = {} /\ filter.goods # {} THEN Found(passages, [filter EXCEPT !.goods = {}], limit)
     ELSE first
\* _search: an attempt that fails is made again, and then the search has failed.
Answers(failures) == failures < MAX_ATTEMPTS

\* _retrieve_policy: documents by the graph first, and none is an end.  trouble: the graph is
\* down, or the attempts that fail.
Context(passages, held, why) == [passages |-> passages, held |-> held, why |-> why]
\* Mutant: without a document the passages are searched all the same.
RetrievePolicy_Unanchored(documents, passages, partner, goods, measures, limit, trouble) ==
  LET docs == PolicyDocumentsFor(documents, partner, goods)
      filter == [partner |-> partner, goods |-> goods, measures |-> measures, docs |-> docs]
  IN IF trouble = MAX_ATTEMPTS + 1 THEN Context({}, {}, "no graph")
     ELSE IF ~Answers(trouble) THEN Context({}, docs, "no search")
     ELSE Context(Search(passages, filter, limit), docs, "searched")
RetrievePolicy(documents, passages, partner, goods, measures, limit, trouble) ==
  LET docs == PolicyDocumentsFor(documents, partner, goods)
      filter == [partner |-> partner, goods |-> goods, measures |-> measures, docs |-> docs]
  IN IF trouble = MAX_ATTEMPTS + 1 THEN Context({}, {}, "no graph")
     ELSE IF docs = {} THEN Context({}, {}, "no document")
     ELSE IF ~Answers(trouble) THEN Context({}, docs, "no search")
     ELSE Context(Search(passages, filter, limit), docs, "searched")

\* _descriptive_measures: the first measure that is named.
MEASURES == <<"ntm", "tariff", "fta", "export_promotion", "investment">>
DescriptiveMeasures(named) ==
  LET at == {i \in DOMAIN MEASURES : MEASURES[i] \in named} IN IF at = {} THEN {} ELSE {MEASURES[Min(at)]}
\* _destinations: the partner that was parsed, then the countries named, the reporter left out.
Destinations(q) == (q.countries \cup {q.partner}) \ {"LKA", Anywhere}

\* One market: answered by passages when a document of its own is among those the graph holds.
OfMarket(q, documents, passages, market, trouble) ==
  LET markets == Destinations(q)
      limit == IF Cardinality(markets) > 1 THEN 2 ELSE 4
      c == RetrievePolicy(documents, passages, market, q.goods, DescriptiveMeasures(q.measures), limit, trouble)
      own == market = Anywhere \/ \E d \in c.held : market \in documents[d].issuers
  IN [cited |-> IF own THEN c.passages ELSE {}, answered |-> own /\ c.passages # {},
      why |-> IF own /\ c.passages # {} THEN "answered"
              ELSE IF c.passages = {} THEN c.why ELSE "not their own"]
\* _describe_policy: each market in turn, what is held against what is not, and the coverage
\* of the item by Sri Lanka's own agreements when a market was answered or none was named.
DescribePolicy(q, documents, passages, covered, trouble) ==
  LET markets == IF Destinations(q) = {} THEN {Anywhere} ELSE Destinations(q)
      of == [m \in markets |-> OfMarket(q, documents, passages, m, trouble)]
      answered == {m \in markets : of[m].answered}
  IN [of |-> of, figures |-> {}, answered |-> answered, unheld |-> markets \ answered,
      oneSided |-> answered # {} /\ answered # markets,
      coverage |-> q.goods # {} /\ covered /\ (markets = {Anywhere} \/ answered # {})]

-----------------------------------------------------------------------------
(* Properties.                                                             *)

\* Nothing is cited that does not bear on what was asked: a passage is of a document the graph
\* holds as indexed, issued by the market it is cited for, of the measure that was asked about
\* and better than not; a market is answered only from a document of its own.
CitesWhatWasAsked(q, documents, passages, trouble) ==
  LET out == DescribePolicy(q, documents, passages, TRUE, trouble)
      theirs(m) == {d \in DOMAIN documents : m \in documents[d].issuers /\ documents[d].indexed}
  IN \A m \in DOMAIN out.of :
       /\ m \in out.answered \ {Anywhere} => theirs(m) # {} /\ trouble < MAX_ATTEMPTS
       /\ \A p \in out.of[m].cited :
            /\ p.doc \in DOMAIN documents /\ documents[p.doc].indexed
            /\ m # Anywhere => p.doc \in theirs(m)
            /\ DescriptiveMeasures(q.measures) # {} => p.measure \in DescriptiveMeasures(q.measures)
            /\ p.score >= MIN_RERANK_SCORE
=============================================================================
