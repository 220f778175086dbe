-------------------------- MODULE StatisticsProofs --------------------------
(* The nearest rank that the percentiles of statistics.go use.             *)
EXTENDS Statistics, TLAPS

\* For every number of samples and the two percentages the benchmark uses,
\* the rank is a position of the sorted values, at least that part of the
\* samples lies at or below it, and no smaller rank has that property: the
\* rounding of (n*percent + 99) / 100 is exactly nearest rank.
THEOREM NearestRank ==
    ASSUME NEW n \in Nat \ {0}, NEW percent \in {50, 95}
    PROVE  /\ Rank(n, percent) \in 1..n
           /\ 100 * Rank(n, percent) >= n * percent
           /\ \A r \in Nat : r < Rank(n, percent) => 100 * r < n * percent
<1>1. CASE percent = 50
  BY <1>1 DEF Rank
<1>2. CASE percent = 95
  BY <1>2 DEF Rank
<1> QED BY <1>1, <1>2
=============================================================================
