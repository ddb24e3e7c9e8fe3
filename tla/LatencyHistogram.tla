-------------------------- MODULE LatencyHistogram --------------------------
(***************************************************************************)
(* Common::LatencyHistogram (include/utils/perf/latency_tracker.hpp): a    *)
(* histogram of powers of two and the percentiles report() takes from it.  *)
(* Percentiles are given in tenths of a percent.                           *)
(***************************************************************************)
EXTENDS Integers, FiniteSets, FiniteSetsExt

CONSTANT NumBuckets   \* 64

ASSUME BucketsAssumption == NumBuckets \in Nat \ {0}

Buckets == 0 .. NumBuckets - 1

EmptyHistogram == [buckets |-> [b \in Buckets |-> 0], total_samples |-> 0]

\* 1ULL << b.
Pow2 ==
  LET pow[b \in 0 .. NumBuckets] == IF b = 0 THEN 1 ELSE 2 * pow[b - 1]
  IN  pow

\* Mutant of BucketOf: rounds up.
BucketOfCeiling(cycles) ==
  IF cycles = 0 THEN 0 ELSE CHOOSE b \in Buckets : Pow2[b] >= cycles /\ (b = 0 \/ Pow2[b - 1] < cycles)

\* The position of the highest bit, 0 for 0.
BucketOf(cycles) ==
  IF cycles = 0 THEN 0 ELSE CHOOSE b \in Buckets : Pow2[b] <= cycles /\ cycles < Pow2[b + 1]

record(h, cycles) ==
  [buckets |-> [h.buckets EXCEPT ![BucketOf(cycles)] = @ + 1],
   total_samples |-> h.total_samples + 1]

\* How many samples a percentile has to reach: rounded to nearest, at least 1.
Threshold(total, pct) ==
  LET rounded == (2 * total * pct + 1000) \div 2000
  IN  IF rounded = 0 THEN 1 ELSE rounded

\* acc, after each of the buckets.
Accumulated(h) ==
  LET acc[b \in Buckets] == IF b = 0 THEN h.buckets[0] ELSE acc[b - 1] + h.buckets[b]
  IN  acc

\* percentile_ns, in cycles: the lower bound of the first bucket that reaches
\* the threshold.
percentile(h, pct) ==
  Pow2[Min({b \in Buckets : Accumulated(h)[b] >= Threshold(h.total_samples, pct)})]

Percentiles == {500, 990, 999}

\* report(), of a histogram with samples.
report(h) == [pct \in Percentiles |-> percentile(h, pct)]
=============================================================================
