----------------------------- MODULE Statistics -----------------------------
(***************************************************************************)
(* internal/benchmark/statistics.go and counters.go: the summary of a      *)
(* series of measurements, with percentiles by nearest rank.               *)
(***************************************************************************)
EXTENDS Integers, Sequences, TLC

\* Mutant: the division rounds down.
RankDown(n, percent) == LET index == (n * percent) \div 100
                        IN  IF index < 1 THEN 1 ELSE index

\* The rank of a percentile among n sorted values: n*percent/100 rounded up,
\* but at least 1.
Rank(n, percent) == LET index == (n * percent + 99) \div 100
                    IN  IF index < 1 THEN 1 ELSE index

percentile(sorted, percent) == sorted[Rank(Len(sorted), percent)]

summarizeSorted(sorted) ==
    [samples |-> Len(sorted), min |-> sorted[1],
     p50 |-> percentile(sorted, 50), p95 |-> percentile(sorted, 95),
     max |-> sorted[Len(sorted)]]

NoSamples == [samples |-> 0, min |-> 0, p50 |-> 0, p95 |-> 0, max |-> 0]

summarize(values) ==
    IF values = <<>> THEN NoSamples
    ELSE summarizeSorted(SortSeq(values, LAMBDA x, y : x < y))

\* The client's cost of a text of so many bytes.
approxTokensBytes4(bytes) == (bytes + 3) \div 4
=============================================================================
