------------------------------- MODULE Sources -------------------------------
(***************************************************************************)
(* What the connectors make of the rows of each source                     *)
(* (src/ceynex/data/connectors/) and the crosswalk they share              *)
(* (src/ceynex/data/crosswalk.py), up to the cleaner                       *)
(* (src/ceynex/data/cleaning/cleaner.py).  A code is the tuple of its      *)
(* digits, a market or a product the name a report gives it, a partner an  *)
(* ISO-3 code or World, where fact_trade has NULL.                         *)
(***************************************************************************)
EXTENDS Integers, Sequences, FiniteSets, FiniteSetsExt, Functions

Null == -1
World == "world"
NoPrice == [of |-> 0, by |-> 0, unit |-> "none"]
Fact(source, item, year) ==
  [source |-> source, item |-> item, hs |-> <<>>, partner |-> World, year |-> year, month |-> 0,
   volume |-> Null, vunit |-> "none", value |-> Null, price |-> NoPrice, fx |-> Null]

-----------------------------------------------------------------------------
(* The crosswalk.                                                          *)

Countries ==
  [c \in {840, 826, 250, 380} |->
     CASE c = 840 -> "USA" [] c = 826 -> "GBR" [] c = 250 -> "FRA" [] c = 380 -> "ITA"]
PartnerAliases == [c \in {842, 251} |-> IF c = 842 THEN "USA" ELSE "FRA"]
AggregatePartners == {0, 97}
ToIso3(code) ==
  IF code \in DOMAIN Countries THEN Countries[code]
  ELSE IF code \in DOMAIN PartnerAliases THEN PartnerAliases[code] ELSE "none"

DropAggregates(rows) == {r \in rows : r.partner \notin AggregatePartners}

HsTable ==
  [hs \in {<<0, 9, 0, 2>>, <<0, 9, 0, 6>>, <<6, 1>>} |->
     IF hs = <<6, 1>> THEN "apparel" ELSE "agriculture"]
NoCode == <<>>
Padded(code) == IF Len(code) % 2 = 1 THEN <<0>> \o code ELSE code
NormalizeHs(code, digits) ==
  IF Len(Padded(code)) < digits THEN NoCode ELSE SubSeq(Padded(code), 1, digits)
HsLevels(code) == {d \in {2, 4, 6} : NormalizeHs(code, d) \in DOMAIN HsTable}
HsSector(code) ==
  IF HsLevels(code) = {} THEN "unknown" ELSE HsTable[NormalizeHs(code, Max(HsLevels(code)))]

\* _ALIASES and item_vocabulary: what the reports call them.
Markets == [us |-> "USA", usa |-> "USA", uk |-> "GBR", france |-> "FRA", italy |-> "ITA"]
MarketToIso3(name) == IF name \in DOMAIN Markets THEN Markets[name] ELSE "none"
Vocabulary == [apparel |-> "apparel_edb", apprel |-> "apparel_edb", hosiery |-> "hosiery"]
CanonicalItem(product) == Vocabulary[product]

-----------------------------------------------------------------------------
(* Answers kept on disk: a day -> the answer kept on it.                   *)

RecentEnough(day, maxAge, today) == maxAge = Null \/ today - day < maxAge

NewestCached(cache, maxAge, today) ==
  LET recent == {d \in DOMAIN cache : RecentEnough(d, maxAge, today)}
  IN IF recent = {} THEN Null ELSE Max(recent)

\* What is used, and what is kept then: an empty answer is kept like any other.
LoadOrFetch(cache, offline, maxAge, today, remote) ==
  LET day == NewestCached(cache, IF offline THEN Null ELSE maxAge, today)
  IN CASE day # Null -> [rows |-> cache[day], cache |-> cache]
       [] day = Null /\ offline -> [rows |-> {}, cache |-> cache]
       [] OTHER -> [rows |-> remote, cache |-> [d \in DOMAIN cache \cup {today} |-> IF d = today THEN remote ELSE cache[d]]]

\* Years of which no code had a row.
FullyMissingYears(empty, codes) ==
  {y \in {e[2] : e \in empty} : \A c \in codes : <<c, y>> \in empty}

-----------------------------------------------------------------------------
(* UN Comtrade: one row per code, year and partner, and per aggregate.     *)

\* _number: nothing is said by a zero; `a or b' then takes the other column.
Number(n) == IF n = 0 THEN Null ELSE n
Either(a, b) == IF Number(a) = Null THEN Number(b) ELSE a
ItemByHs ==
  [hs \in DOMAIN HsTable |->
     CASE hs = <<0, 9, 0, 2>> -> "tea" [] hs = <<0, 9, 0, 6>> -> "cinnamon" [] hs = <<6, 1>> -> "apparel_knit"]
ItemOf(hs) ==
  LET levels == {n \in {Len(hs), 4, 2} : n <= Len(hs) /\ SubSeq(hs, 1, n) \in DOMAIN ItemByHs}
  IN IF levels = {} THEN "unknown" ELSE ItemByHs[SubSeq(hs, 1, Max(levels))]
UnitPrice(value, volume) ==
  IF value = Null \/ volume = Null THEN NoPrice ELSE [of |-> value, by |-> volume, unit |-> "USD/kg"]
DigitsOf(code) == Min({6, Max({2, Len(Padded(code))})})

ComtradeFact(r) ==
  LET hs == NormalizeHs(r.code, DigitsOf(r.code))
      value == Either(r.primary, r.fob)
      volume == Either(r.net, r.qty)
  IN [Fact("UN_COMTRADE", ItemOf(hs), r.year) EXCEPT
        !.hs = hs, !.partner = ToIso3(r.partner), !.volume = volume, !.vunit = "kg",
        !.value = value, !.price = UnitPrice(value, volume)]
ComtradeFacts(rows) ==
  {ComtradeFact(r) : r \in {q \in DropAggregates(rows) : ToIso3(q.partner) # "none"}}

-----------------------------------------------------------------------------
(* The sheets that state Sri Lanka's own totals, prices and rate.          *)

TeaBoardFacts(rows) ==
  {[Fact("TEA_BOARD", "tea", r.year) EXCEPT !.volume = r.amount * 1000, !.vunit = "kg"] :
     r \in {q \in rows : q.metric = "export" /\ q.category = "total" /\ q.amount # Null}}
CinnamonFacts(rows) ==
  {[Fact("CINNAMON", "cinnamon", r.year) EXCEPT !.volume = r.amount * 1000, !.vunit = "kg"] :
     r \in {q \in rows : /\ q.publisher = "DEA_EAC" /\ q.metric = "export" /\ q.category = "total"
                         /\ q.unit = "MT" /\ q.amount # Null}}
FaostatFacts(rows) ==
  {[Fact("FAOSTAT", r.item, r.year) EXCEPT !.price = [of |-> r.amount, by |-> 1, unit |-> "USD/tonne"]] :
     r \in {q \in rows : /\ q.area = "LKA" /\ q.element = "USD/tonne" /\ q.annual /\ q.amount # Null
                         /\ q.item \in {"tea", "cinnamon", "rubber", "coconut"}}}
PinkSheetFacts(rows) ==
  {[Fact("PINK_SHEET", "tea", r.year) EXCEPT
      !.month = r.month, !.price = [of |-> r.amount, by |-> 1, unit |-> "USD/kg"]] :
     r \in {q \in rows : q.amount # Null}}
FxFacts(rows, years) ==
  {[Fact("WB_FX", "usd_lkr", r.year) EXCEPT !.fx = r.amount] :
     r \in {q \in rows : q.amount # Null
                         /\ (years = {} \/ (Min(years) <= q.year /\ q.year <= Max(years)))}}

\* normalize_units: what is not a unit of the table stays as it is.
VolumeToKg == [kg |-> 1, tonne |-> 1000]
PriceToPerKg(p) ==
  IF p.unit = "USD/tonne" THEN [of |-> p.of, by |-> p.by * 1000, unit |-> "USD/kg"] ELSE p
NormalizeUnits(f) ==
  [f EXCEPT !.price = PriceToPerKg(@),
            !.volume = IF f.vunit \in DOMAIN VolumeToKg /\ @ # Null THEN @ * VolumeToKg[f.vunit] ELSE @,
            !.vunit = IF f.vunit \in DOMAIN VolumeToKg /\ f.volume # Null THEN "kg" ELSE @]

-----------------------------------------------------------------------------
(* EDB: editions of a report, each with the five years up to its own.      *)

EdbFact(row, k) ==
  [Fact("EDB", CanonicalItem(row.product), row.latest - (Len(row.values) - k)) EXCEPT
     !.partner = MarketToIso3(row.market), !.value = row.values[k]]
EdbCells(report) ==
  {c \in UNION {{<<i, k>> : k \in DOMAIN report[i].values} : i \in DOMAIN report} :
     report[c[1]].values[c[2]] # Null /\ MarketToIso3(report[c[1]].market) # "none"}
Cell(report, c) == EdbFact(report[c[1]], c[2])
SameFact(f, g) == f.item = g.item /\ f.partner = g.partner /\ f.year = g.year

\* A stable sort by edition, then the last of each item, partner and year.
Later(report, c, d) ==
  \/ report[d[1]].edition > report[c[1]].edition
  \/ report[d[1]].edition = report[c[1]].edition /\ d[1] > c[1]
EdbFacts(report) ==
  LET cells == EdbCells(report)
      last == {c \in cells : \A d \in cells :
                 SameFact(Cell(report, c), Cell(report, d)) => ~Later(report, c, d)}
  IN {Cell(report, c) : c \in last}

-----------------------------------------------------------------------------
(* JAAF: months of a few markets, and a pie of one year that names none.   *)

YEAR_MATCH_TOLERANCE == 1
\* A zero is a month not reported yet.
AnnualRecords(cells) == {r \in cells : r.amount \notin {Null, 0}}
UsTotal(records, year) ==
  SumFunction([r \in {q \in records : q.market = "us" /\ q.year = year} |-> r.amount])
Apart(a, b) == IF a > b THEN a - b ELSE b - a
MarketWiseYear(records, pie) ==
  LET shown == {l \in {"us", "usa"} : l \in DOMAIN pie}
      us == pie[CHOOSE l \in shown : TRUE]
      years == {r.year : r \in {q \in records : q.market = "us"}}
      best == CHOOSE y \in years : \A z \in years :
                Apart(UsTotal(records, y), us) <= Apart(UsTotal(records, z), us)
  IN IF shown = {} \/ years = {} THEN Null
     ELSE IF Apart(UsTotal(records, best), us) > YEAR_MATCH_TOLERANCE THEN Null ELSE best

\* Mutant: the slices that the tables hold too are kept.
MarketWiseExcluded_Usa(label) == label \in {"us", "other markets"}
MarketWiseExcluded(label) == label \in {"us", "usa", "uk", "other markets"}
JaafPartners == [total |-> World, us |-> "USA", uk |-> "GBR"]
JaafFacts(cells, pie) ==
  LET records == AnnualRecords(cells)
      year == MarketWiseYear(records, pie)
      slices == {l \in DOMAIN pie : year # Null /\ ~MarketWiseExcluded(l) /\ MarketToIso3(l) # "none"}
  IN {[Fact("JAAF", "apparel_textiles", r.year) EXCEPT
         !.month = r.month, !.partner = JaafPartners[r.market], !.value = r.amount] :
        r \in {q \in records : q.market \in DOMAIN JaafPartners}}
     \cup {[Fact("JAAF", "apparel_textiles", year) EXCEPT !.partner = MarketToIso3(l), !.value = pie[l]] :
             l \in slices}

-----------------------------------------------------------------------------
(* Properties.                                                             *)

Amount(facts) == SumFunction([f \in facts |-> f.value])

\* Rows of a year that state the world and the EU beside their members come to the world's
\* total: no country is lost under a code of Comtrade's own, no aggregate added to its members.
CountedOnce(rows) ==
  \A w \in {r \in rows : r.partner = 0} :
    LET facts == {f \in ComtradeFacts(rows) : f.year = w.year /\ f.value # Null}
    IN Amount(facts) = w.primary

\* However a code lost its leading zero on the way, it is of the same sector and item.
HsRestored(code) ==
  code # NoCode /\ Head(code) = 0 /\ Len(code) % 2 = 0 =>
    HsSector(Tail(code)) = HsSector(code) /\ DigitsOf(Tail(code)) = DigitsOf(code)

\* What a connector uses is today's answer or one younger than it was allowed, the newest of
\* those, and never one that a later run would not find again.
CacheIsFresh(c) ==
  LET got == LoadOrFetch(c.cache, c.offline, c.maxAge, c.today, c.remote)
  IN /\ ~c.offline /\ (\A d \in DOMAIN c.cache : ~RecentEnough(d, c.maxAge, c.today)) => got.rows = c.remote
     /\ \A d \in DOMAIN c.cache : got.cache[d] = c.cache[d] \/ d = c.today
     /\ LoadOrFetch(got.cache, c.offline, c.maxAge, c.today, c.remote).rows = got.rows

\* Of an item, a country and a year that several editions state, fact_trade gets one figure,
\* and that is the newest edition's which states it, whatever order they were read in.
NewestEditionWins(report) ==
  \A f, g \in EdbFacts(report) : SameFact(f, g) => f = g
    /\ \A c \in EdbCells(report) : SameFact(f, Cell(report, c)) =>
         \E d \in EdbCells(report) :
           Cell(report, d) = f /\ report[d[1]].edition >= report[c[1]].edition

\* A market that JAAF states twice, by month and as a slice, is counted from one of them.
OneTableOfAMarket(cells, pie) ==
  \A f, g \in JaafFacts(cells, pie) : f.partner = g.partner /\ f.year = g.year =>
    (f.month = 0 <=> g.month = 0)

\* Prices of one item can be compared: behind the cleaner all are dollars per kilogram, also
\* when it cleans what it has cleaned.
OnePriceUnit(facts) ==
  \A f \in {NormalizeUnits(g) : g \in facts} :
    f.price.unit \in {"USD/kg", "none"} /\ NormalizeUnits(f) = f
=============================================================================
