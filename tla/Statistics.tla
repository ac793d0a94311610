----------------------------- MODULE Statistics ------------------------------
(***************************************************************************)
(* LatencyStats::from_values and FieldStats::from_values                   *)
(* (serving/metrics.rs, trace/stats.rs), which are the same but for the    *)
(* width of the numbers.  The values are those of a function, by request.  *)
(* A mean is kept as the sum it is computed from.                          *)
(***************************************************************************)
EXTENDS Naturals, FiniteSets, FiniteSetsExt, Functions

\* Mutant of Rank: rounded down.
RankDown(n, percent) == ((n - 1) * percent) \div 100

\* The index, from 0, of a percentile among n sorted values.
Rank(n, percent) == ((n - 1) * percent + 99) \div 100

\* The value that stands at that index when the values are sorted.
Percentile(values, percent) ==
    LET i == Rank(Cardinality(DOMAIN values), percent)
    IN  CHOOSE v \in Range(values) :
            /\ Cardinality({x \in DOMAIN values : values[x] < v}) <= i
            /\ Cardinality({x \in DOMAIN values : values[x] <= v}) > i

\* from_values, for at least one value.
StatsOf(values) ==
    [min |-> Min(Range(values)), max |-> Max(Range(values)),
     sum |-> SumFunction(values),
     p50 |-> Percentile(values, 50), p95 |-> Percentile(values, 95),
     p99 |-> Percentile(values, 99)]
=============================================================================
