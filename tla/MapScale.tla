------------------------------- MODULE MapScale -------------------------------
(***************************************************************************)
(* The scale of a map of cells, as dqm-hists.js fits it: from the lowest   *)
(* value, or zero, up to the highest, unless a few cells lie past a fence. *)
(* v is a function from cells to values.  The fence may be half a unit, so *)
(* it is kept twice as large.                                              *)
(***************************************************************************)
EXTENDS Integers, FiniteSets

\* The value with index i, from zero, in the sorted list of the values of v.
AtIndex(v, i) ==
  CHOOSE x \in {v[c] : c \in DOMAIN v} :
    /\ Cardinality({c \in DOMAIN v : v[c] < x}) <= i
    /\ Cardinality({c \in DOMAIN v : v[c] <= x}) > i

\* quantile() at 0.25 and at 0.75: Math.round(q * (n - 1)) in whole numbers.
LowerQuartile(v) == AtIndex(v, (Cardinality(DOMAIN v) + 1) \div 4)
UpperQuartile(v) == AtIndex(v, (3 * Cardinality(DOMAIN v) - 1) \div 4)

\* Slip: the fence stands on the lower quartile.
TwiceLowFence(v) == 2 * LowerQuartile(v) + 3 * (UpperQuartile(v) - LowerQuartile(v))

\* fenceTop(): NOISE_FENCE interquartile ranges above the upper quartile.
TwiceFence(v) == 2 * UpperQuartile(v) + 3 * (UpperQuartile(v) - LowerQuartile(v))

\* span()
Lowest(v) == AtIndex(v, 0)
Highest(v) == AtIndex(v, Cardinality(DOMAIN v) - 1)

\* The cells past the end of a scale that ends at half of `twice`.
Outlined(v, twice) == {c \in DOMAIN v : 2 * v[c] > twice}

\* "A fence the bulk of a well-behaved population sits entirely below": no more
\* than a quarter of the cells lie past it.
FewOutlined(v, twice) == 4 * Cardinality(Outlined(v, twice)) <= Cardinality(DOMAIN v)
=============================================================================
