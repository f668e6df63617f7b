------------------------------- MODULE Intent -------------------------------
(***************************************************************************)
(* What a question is taken to be about: the item, and the items of a      *)
(* comparison (src/ceynex/agents/common.py), whether it is too ambiguous   *)
(* to answer and what is asked back (src/ceynex/chat/clarify.py), and      *)
(* whether a follow-up needs new data (src/ceynex/chat/classify.py).  A    *)
(* question is                                                             *)
(*   [words, chosen : Seq(Word), partner, region : a name or "none",       *)
(*    years : a set, cues : what the cue lists find in it],                *)
(* `chosen' being what follows CHOSEN_MARKER.                              *)
(***************************************************************************)
EXTENDS Integers, Sequences, SequencesExt, FiniteSets, FiniteSetsExt

\* ITEM_KEYWORDS, in the order it is searched.
ItemOrder == <<"tea", "cinnamon", "rubber", "coconut", "apparel_knit", "apparel_woven">>
AGRICULTURE_ITEMS == {"tea", "cinnamon", "rubber", "coconut"}
APPAREL_ITEMS == {"apparel_knit", "apparel_woven"}
MAX_OPTIONS == 4

\* The items of which a word holds a keyword; an item's first keyword is the item's name.
Holds(w) ==
  CASE w \in AGRICULTURE_ITEMS \cup APPAREL_ITEMS -> {w}
    [] w = "instead" -> {"tea"}
    [] w = "not knitted" -> {"apparel_knit", "apparel_woven"}
    [] OTHER -> {}
\* Those of which a keyword starts a word of it.
Starts(w) == IF w = "instead" THEN {} ELSE Holds(w)
SECTOR_FALLBACK == {"apparel"}
CROSS_SECTOR == {"sectors"}
Vocabulary ==
  Range(ItemOrder) \cup {"instead", "not knitted", "apparel", "agriculture", "sectors", "exports"}

Question(words) ==
  [words |-> words, chosen |-> <<>>, partner |-> "none", region |-> "none", years |-> {},
   cues |-> {}]

-----------------------------------------------------------------------------
(* parse_intent.                                                           *)

FirstItem(ws) ==
  LET named == UNION {Holds(w) : w \in Range(ws)}
      at == {i \in DOMAIN ItemOrder : ItemOrder[i] \in named}
  IN IF at = {} THEN "none" ELSE ItemOrder[Min(at)]

\* What was chosen, then the whole question, then a sector's word.
ParseItem(q) ==
  CASE FirstItem(q.chosen) # "none" -> FirstItem(q.chosen)
    [] FirstItem(q.chosen) = "none" /\ FirstItem(q.words) # "none" -> FirstItem(q.words)
    [] OTHER -> IF Range(q.words) \cap SECTOR_FALLBACK # {} THEN "apparel_knit" ELSE "none"

Year(q) == IF q.years = {} THEN 0 ELSE Max(q.years)

-----------------------------------------------------------------------------
(* Comparisons.                                                            *)

\* Where an item is first named at the start of a word; 0 when it is not.
At(q, items) ==
  LET at == {i \in DOMAIN q.words : items \cap Starts(q.words[i]) # {}}
  IN IF at = {} THEN 0 ELSE Min(at)
AtWord(q, w) == LET at == {i \in DOMAIN q.words : q.words[i] \in w} IN IF at = {} THEN 0 ELSE Min(at)

\* The products, and for a sector none of whose products is named, the one it stands for.
Hits(q) ==
  LET named == {i \in Range(ItemOrder) : At(q, {i}) > 0}
      word(w, items, i) ==
        IF AtWord(q, w) > 0 /\ named \cap items = {} THEN {[at |-> AtWord(q, w), item |-> i]} ELSE {}
  IN {[at |-> At(q, {i}), item |-> i] : i \in named}
       \cup word(SECTOR_FALLBACK, APPAREL_ITEMS, "apparel_knit")
       \cup word({"agriculture"}, AGRICULTURE_ITEMS, "tea")

Rank(i) == CHOOSE n \in DOMAIN ItemOrder : ItemOrder[n] = i
\* Hits at one place are of one word of apparel's, whose items' names are in this order.
Before(a, b) == a.at < b.at \/ (a.at = b.at /\ Rank(a.item) < Rank(b.item))
InOrder(hits) ==
  [n \in 1..Cardinality(hits) |->
     (CHOOSE h \in hits : Cardinality({g \in hits : Before(g, h)}) = n - 1).item]

\* compared_items.
ComparedItems(q) ==
  LET items == InOrder(Hits(q))
      across == Range(q.words) \cap CROSS_SECTOR # {}
      tea == IF across /\ Range(items) \cap AGRICULTURE_ITEMS = {} THEN <<"tea">> ELSE <<>>
      knit == IF across /\ Range(items) \cap APPAREL_ITEMS = {} THEN <<"apparel_knit">> ELSE <<>>
      all == items \o tea \o knit
  IN IF q.chosen # <<>> \/ Len(all) < 2 THEN <<>> ELSE all

\* choose_item, and Clarification.compose with the reader's choice.
ChooseItem(q, i) == [q EXCEPT !.chosen = <<i>>]

-----------------------------------------------------------------------------
(* The clarifying question.                                                *)

MatchingItems(q) ==
  {i \in Range(ItemOrder) : \E w \in Range(q.words) \cup Range(q.chosen) : i \in Holds(w)}
\* Those that are offered: the first in the order of ITEM_KEYWORDS.
Offered(items) == {i \in items : Cardinality({j \in items : Rank(j) < Rank(i)}) < MAX_OPTIONS}

NoTrigger == [kind |-> "none", options |-> {}]
ClarificationNeeded(q, routed) ==
  LET items == MatchingItems(q)
      vague == "policy" \in q.cues /\ "vague" \in q.cues /\ q.partner = "none" /\ q.region = "none"
  IN CASE ~routed -> NoTrigger
       [] routed /\ Cardinality(items) > 1 /\ "compare" \notin q.cues ->
            [kind |-> "multi_item", options |-> Offered(items)]
       [] routed /\ (Cardinality(items) <= 1 \/ "compare" \in q.cues) /\ vague ->
            [kind |-> "vague_destination", options |-> {}]
       [] OTHER -> NoTrigger

\* The model words it or takes it back; without a usable reply the template asks.
LlmClarify(trigger, reply) == IF reply.kind = "veto" THEN NoTrigger ELSE trigger

-----------------------------------------------------------------------------
(* Follow-ups.                                                             *)

NewSubject(new, old) ==
  \/ ParseItem(new) \notin {"none", ParseItem(old)}
  \/ new.partner \notin {"none", old.partner}
  \/ Year(new) \notin {0, Year(old)}
  \/ new.region \notin {"none", old.region}

\* Mutant: a word of discussion decides.
KeywordTurn_CueFirst(new, old) ==
  CASE "discuss" \in new.cues -> "discuss"
    [] OTHER -> "analyse"

\* Discussed when it says so, or says nothing of its own; analysed when in doubt.
KeywordTurn(new, old) ==
  CASE NewSubject(new, old) \/ "analyse" \in new.cues -> "analyse"
    [] ~NewSubject(new, old) /\ "analyse" \notin new.cues
         /\ ("discuss" \in new.cues \/ "discourse only" \in new.cues) -> "discuss"
    [] OTHER -> "analyse"

\* llm_turn: a usable verdict of the model's, or the keywords'.
LlmTurn(new, old, reply) ==
  IF reply \in {"discuss", "analyse"} THEN reply ELSE KeywordTurn(new, old)

-----------------------------------------------------------------------------
(* Properties.                                                             *)

\* What a reader chooses, or a comparison asks of one item at a time, is what the agents
\* then answer about, and nothing is compared again.
ChoiceIsAnswered(q) ==
  LET offered == ClarificationNeeded(q, TRUE).options \cup Range(ComparedItems(q))
  IN \A i \in offered : ParseItem(ChooseItem(q, i)) = i /\ ComparedItems(ChooseItem(q, i)) = <<>>

\* A comparison has every product that is named, each once, in the order of the
\* question; one sector's word stands for a product only where none of its own is named.
ComparisonComplete(q) ==
  LET all == ComparedItems(q)
      named == {i \in Range(ItemOrder) : At(q, {i}) > 0}
  IN all # <<>> =>
       /\ named \subseteq Range(all) /\ Cardinality(Range(all)) = Len(all)
       /\ \A i, j \in named : At(q, {i}) < At(q, {j}) => \E m, n \in DOMAIN all : m < n /\ all[m] = i /\ all[n] = j
       /\ \A i \in Range(all) \ named :
            \/ i = "tea" /\ named \cap AGRICULTURE_ITEMS = {}
            \/ i = "apparel_knit" /\ named \cap APPAREL_ITEMS = {}

\* Whatever the model replies, a reader is only offered items the question names, at
\* least two of them, and asked nothing when it names one or compares.
OptionsAreNamed(q, reply) ==
  LET t == LlmClarify(ClarificationNeeded(q, TRUE), reply)
  IN t.kind = "multi_item" =>
       /\ t.options \subseteq MatchingItems(q) /\ Cardinality(t.options) >= 2
       /\ "compare" \notin q.cues

\* A follow-up that names another item, market, year or region than the question before is
\* answered from the old evidence only when the model itself says `discuss': without a
\* model, or with a reply of it that cannot be used, it is analysed.
NewSubjectIsAnalysed(new, old, reply) ==
  LET another == \/ ParseItem(new) # "none" /\ ParseItem(new) # ParseItem(old)
                 \/ new.partner # "none" /\ new.partner # old.partner
                 \/ Year(new) # 0 /\ Year(new) # Year(old)
                 \/ new.region # "none" /\ new.region # old.region
  IN another /\ reply # "discuss" => LlmTurn(new, old, reply) = "analyse"
=============================================================================
