------------------------------- MODULE Series -------------------------------
(***************************************************************************)
(* What is read of fact_trade (src/ceynex/data/reader.py), brought to one  *)
(* frequency (src/ceynex/data/align.py, cleaner.py) and compared between   *)
(* sources (src/ceynex/data/cleaning/cross_validator.py).  Rows are a      *)
(* function from positions to [source, partner, year, month, amount,       *)
(* weight]; amount is the column asked for, weight export_volume.          *)
(***************************************************************************)
EXTENDS Integers, Sequences, FiniteSets, FiniteSetsExt, Functions

Null == -1
World == "world"
Any == "any"
Sum(rows, ids, Of(_)) == SumFunction([i \in ids |-> Of(rows[i])])

-----------------------------------------------------------------------------
(* annual_series.                                                          *)

Matched(rows, partner, source) ==
  {i \in DOMAIN rows :
     /\ rows[i].amount # Null
     /\ partner = Any \/ rows[i].partner = partner
     /\ source = Any \/ rows[i].source = source}

\* The rows by partner; the world's rows only where the whole series has none of those.
Chosen(rows, matched) ==
  LET perPartner == {i \in matched : rows[i].partner # World}
  IN IF perPartner = {} THEN matched ELSE perPartner

\* Mutant: the rows that have a weight are weighted.
Price_Subset(rows, ids) ==
  LET heavy == {i \in ids : rows[i].weight # Null}
      weights == Sum(rows, heavy, LAMBDA r : r.weight)
  IN IF weights > 0
     THEN [of |-> Sum(rows, heavy, LAMBDA r : r.amount * r.weight), by |-> weights]
     ELSE [of |-> Sum(rows, ids, LAMBDA r : r.amount), by |-> Cardinality(ids)]

\* A price is weighted by volume where every row of the year has one.
Price(rows, ids) ==
  LET weights == Sum(rows, ids, LAMBDA r : r.weight)
  IN IF (\A i \in ids : rows[i].weight # Null) /\ weights > 0
     THEN [of |-> Sum(rows, ids, LAMBDA r : r.amount * r.weight), by |-> weights]
     ELSE [of |-> Sum(rows, ids, LAMBDA r : r.amount), by |-> Cardinality(ids)]

AnnualSeries(rows, extensive, partner, source) ==
  LET ids == Chosen(rows, Matched(rows, partner, source))
      of(y) == {i \in ids : rows[i].year = y}
  IN [y \in {rows[i].year : i \in ids} |->
        IF extensive THEN [of |-> Sum(rows, of(y), LAMBDA r : r.amount), by |-> 1]
        ELSE Price(rows, of(y))]

-----------------------------------------------------------------------------
(* One frequency.  Observations: a function from days, NULL where the      *)
(* source has a day and no figure.                                         *)

FILL_LIMIT == 2   \* 5 in the code
\* forward_fill_fx: the last figure, over FILL_LIMIT rows without one.
ForwardFill(obs) ==
  [d \in DOMAIN obs |->
     LET seen == {e \in DOMAIN obs : e < d /\ obs[e] # Null}
         rows == {e \in DOMAIN obs : Max(seen) < e /\ e <= d}
     IN IF obs[d] # Null \/ seen = {} THEN obs[d]
        ELSE IF Cardinality(rows) > FILL_LIMIT THEN Null ELSE obs[Max(seen)]]

Frequencies == <<"D", "W", "M", "Q", "A">>
Rank(f) == CHOOSE i \in 1..5 : Frequencies[i] = f
\* _native_frequency: by the median of the gaps in days, twice that for an even number.
NativeFrequency(days) ==
  LET next(d) == Min({e \in days : e > d})
      gaps == [d \in days \ {Max(days)} |-> next(d) - d]
      atMost(n) == Cardinality({d \in DOMAIN gaps : gaps[d] <= n})
      below(n) == Cardinality({d \in DOMAIN gaps : gaps[d] < n})
      low == Min({gaps[d] : d \in {e \in DOMAIN gaps : 2 * atMost(gaps[e]) >= Cardinality(DOMAIN gaps)}})
      high == Max({gaps[d] : d \in {e \in DOMAIN gaps : 2 * below(gaps[e]) <= Cardinality(DOMAIN gaps)}})
      twice == low + high
  IN CASE Cardinality(days) < 2 -> "none"
       [] twice <= 6 -> "D" [] twice > 6 /\ twice <= 20 -> "W"
       [] twice > 20 /\ twice <= 90 -> "M" [] twice > 90 /\ twice <= 260 -> "Q"
       [] OTHER -> "A"
\* resample refuses to invent observations.
Refused(days, target) ==
  LET native == NativeFrequency(days) IN native # "none" /\ Rank(native) > Rank(target)

AggregationFor(column) ==
  CASE column = "fx_usd_lkr" -> "last" [] column = "price" -> "mean" [] OTHER -> "sum"
\* A period's figures come to one; a sum of none is zero, as pandas has it.
Aggregate(rule, obs, period) ==
  LET known == {d \in period : obs[d] # Null}
      total == SumFunction([d \in known |-> obs[d]])
  IN CASE rule = "sum" -> [of |-> total, by |-> 1]
       [] rule = "mean" -> [of |-> total, by |-> Cardinality(known)]
       [] rule = "last" -> [of |-> IF known = {} THEN Null ELSE obs[Max(known)], by |-> 1]

-----------------------------------------------------------------------------
(* cross_validate, of two figures of one observation.                      *)

Severity(a, b) ==
  LET apart == IF a > b THEN a - b ELSE b - a
  IN CASE a = b -> "none"
       [] a = 0 /\ b # 0 -> "severe"
       [] a # 0 /\ a # b /\ apart * 100 < 5 * a -> "minor"
       [] a # 0 /\ apart * 100 >= 5 * a /\ apart * 100 <= 20 * a -> "material"
       [] OTHER -> "severe"
\* relevant_dq_flags: what an answer over these years is told of.
RelevantFlags(flags, from, to) ==
  {f \in flags : f.severity \in {"material", "severe"} /\ f.year >= from /\ f.year <= to}

-----------------------------------------------------------------------------
(* Properties.                                                             *)

\* A national series is the sum of its partners' series, or the world's own where no partner
\* is stated in any year; the two are never added.
NoDoubleCount(rows) ==
  LET all == AnnualSeries(rows, TRUE, Any, Any)
      partners == {rows[i].partner : i \in DOMAIN rows} \ {World}
      parts == [p \in partners |-> AnnualSeries(rows, TRUE, p, Any)]
      stated == {p \in partners : DOMAIN parts[p] # {}}
  IN IF stated = {} THEN all = AnnualSeries(rows, TRUE, World, Any)
     ELSE /\ DOMAIN all = UNION {DOMAIN parts[p] : p \in stated}
          /\ \A y \in DOMAIN all :
               all[y].of = SumFunction([p \in {q \in stated : y \in DOMAIN parts[q]} |-> parts[p][y].of])

\* A year's price lies between the lowest and the highest that its rows state, and a row of
\* no known volume counts in it: it is between the price without that row and the row's own.
PriceOfEveryRow(rows) ==
  LET ids == Chosen(rows, Matched(rows, Any, Any))
      series == AnnualSeries(rows, FALSE, Any, Any)
  IN \A y \in DOMAIN series :
       LET of == {i \in ids : rows[i].year = y}
           lowest == Min({rows[i].amount : i \in of})
           highest == Max({rows[i].amount : i \in of})
       IN /\ lowest * series[y].by <= series[y].of /\ series[y].of <= highest * series[y].by
          /\ \A i \in of : rows[i].weight = Null /\ rows[i].amount = highest /\ lowest < highest =>
               series[y].of > lowest * series[y].by

\* A figure that is carried forward was stated at most FILL_LIMIT rows before, and none that
\* was stated is changed.
FilledFromNear(obs) ==
  LET filled == ForwardFill(obs) IN
  \A d \in DOMAIN obs :
    /\ obs[d] # Null => filled[d] = obs[d]
    /\ filled[d] # Null => \E e \in DOMAIN obs :
         e <= d /\ obs[e] = filled[d] /\ Cardinality({k \in DOMAIN obs : e < k /\ k <= d}) <= FILL_LIMIT

\* A rate or a price never leaves the range of what was observed in the period, and a flow
\* over two halves is that over the whole.
AlignedLikeItsKind(obs, halves) ==
  LET whole == DOMAIN obs
      of(c, p) == Aggregate(AggregationFor(c), obs, p)
      known == {obs[d] : d \in whole} \ {Null}
  IN /\ known # {} => \A c \in {"price", "fx_usd_lkr"} :
          LET a == of(c, whole) IN Min(known) * a.by <= a.of /\ a.of <= Max(known) * a.by
     /\ of("export_volume", whole).of = of("export_volume", halves[1]).of + of("export_volume", halves[2]).of

\* Observations are never invented: a frequency that is given is one at which some of the
\* data really are that close together.
NeverInvented(days) ==
  LET upper == <<3, 10, 45, 130>>
  IN \A k \in 1..4 : Cardinality(days) > 1 /\ ~Refused(days, Frequencies[k]) =>
       \E d, e \in days : d < e /\ e - d <= upper[k]

\* The worse the disagreement, the worse its name, in the direction it is measured in.
SeverityMonotone(a, b, c) ==
  LET rank == [none |-> 0, minor |-> 1, material |-> 2, severe |-> 3]
  IN a <= b /\ b <= c => rank[Severity(a, b)] <= rank[Severity(a, c)]
=============================================================================
