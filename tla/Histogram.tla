------------------------------ MODULE Histogram ------------------------------
(***************************************************************************)
(* The histogram of Metrics.cpp: Record works on five atomics one after    *)
(* the other and takes no mutex, so the steps of several recorders         *)
(* interleave; GetSnapshot estimates percentiles from the buckets.  Reset  *)
(* comes while nobody records.  Values are small naturals; HgHighest and   *)
(* HgLowest stand for the limits of double that min_ and max_ start from.  *)
(***************************************************************************)
EXTENDS Integers, FiniteSets, Sequences

CONSTANTS HgThreads,    \* threads that record
          HgBounds,     \* bounds_, increasing
          HgMaxValue,   \* the values recorded are 1 .. HgMaxValue
          HgMaxRecords  \* bound: records between two Resets

ASSUME HistogramAssumption ==
    /\ IsFiniteSet(HgThreads)
    /\ HgBounds \in Seq(Nat) /\ HgBounds # <<>>
    /\ \A i \in DOMAIN HgBounds : \A j \in 1 .. i - 1 : HgBounds[j] < HgBounds[i]
    /\ HgMaxValue \in Nat /\ HgMaxRecords \in Nat

VARIABLES hgBuckets, hgCount, hgSum, hgMin, hgMax,  \* the fields of the histogram
          hgThread,   \* where each recorder is, its value, and what it last loaded
          hgRecorded  \* values recorded, with how often

hgVars == <<hgBuckets, hgCount, hgSum, hgMin, hgMax, hgThread, hgRecorded>>

HgValues  == 1 .. HgMaxValue
HgHighest == HgMaxValue + 1
HgLowest  == 0
Overflow  == Len(HgBounds) + 1

\* The first bucket whose bound is not below the value.
BucketOf(v) == CHOOSE i \in 1 .. Overflow :
    /\ i < Overflow => v <= HgBounds[i]
    /\ \A j \in 1 .. i - 1 : v > HgBounds[j]

UpTo(counts, i) ==
    LET sum[j \in 0 .. i] == IF j = 0 THEN 0 ELSE counts[j] + sum[j - 1] IN sum[i]

HgOut == [at |-> "idle", value |-> 0, seen |-> 0]

\* The type of the histogram's fields and of the recorders' places.
HgTypeOK ==
    /\ hgBuckets \in [1 .. Overflow -> 0 .. HgMaxRecords]
    /\ hgCount \in 0 .. HgMaxRecords
    /\ hgSum \in 0 .. HgMaxRecords * HgMaxValue
    /\ hgMin \in HgValues \cup {HgHighest} /\ hgMax \in HgValues \cup {HgLowest}
    /\ hgThread \in [HgThreads ->
          [at : {"idle", "count", "load", "store", "min", "max"}, value : 0 .. HgMaxValue, seen : Nat]]
    /\ hgRecorded \in [HgValues -> 0 .. HgMaxRecords]

Cleared ==
    /\ hgBuckets' = [i \in 1 .. Overflow |-> 0]
    /\ hgCount' = 0 /\ hgSum' = 0
    /\ hgMin' = HgHighest /\ hgMax' = HgLowest
    /\ hgRecorded' = [v \in HgValues |-> 0]

HgInit ==
    /\ hgBuckets = [i \in 1 .. Overflow |-> 0]
    /\ hgCount = 0 /\ hgSum = 0
    /\ hgMin = HgHighest /\ hgMax = HgLowest
    /\ hgRecorded = [v \in HgValues |-> 0]
    /\ hgThread = [t \in HgThreads |-> HgOut]

RecorderAt(t, place, seen) ==
    hgThread' = [hgThread EXCEPT ![t].at = place, ![t].seen = seen]
-----------------------------------------------------------------------------
\* Record: the bucket, the count, the sum by a load and a store.
RecordBucket(t, v) ==
    /\ hgThread[t].at = "idle"
    /\ UpTo(hgRecorded, HgMaxValue) < HgMaxRecords
    /\ hgRecorded' = [hgRecorded EXCEPT ![v] = @ + 1]
    /\ hgBuckets' = [hgBuckets EXCEPT ![BucketOf(v)] = @ + 1]
    /\ hgThread' = [hgThread EXCEPT ![t] = [at |-> "count", value |-> v, seen |-> 0]]
    /\ UNCHANGED <<hgCount, hgSum, hgMin, hgMax>>

RecordCount(t) ==
    /\ hgThread[t].at = "count"
    /\ hgCount' = hgCount + 1
    /\ RecorderAt(t, "load", 0)
    /\ UNCHANGED <<hgBuckets, hgSum, hgMin, hgMax, hgRecorded>>

SumLoad(t) ==
    /\ hgThread[t].at = "load"
    /\ RecorderAt(t, "store", hgSum)
    /\ UNCHANGED <<hgBuckets, hgCount, hgSum, hgMin, hgMax, hgRecorded>>

\* The store, and the load of min_ that follows it.
SumStore(t) ==
    /\ hgThread[t].at = "store"
    /\ hgSum' = hgThread[t].seen + hgThread[t].value
    /\ RecorderAt(t, "min", hgMin)
    /\ UNCHANGED <<hgBuckets, hgCount, hgMin, hgMax, hgRecorded>>

\* Mutant: the minimum is stored whatever it has become since it was loaded.
MinTryBlind(t) ==
    /\ hgThread[t].at = "min"
    /\ hgMin' = IF hgThread[t].value < hgThread[t].seen THEN hgThread[t].value ELSE hgMin
    /\ RecorderAt(t, "max", hgMax)
    /\ UNCHANGED <<hgBuckets, hgCount, hgSum, hgMax, hgRecorded>>

\* One round of a compare-and-swap loop; a weak exchange may also fail for no reason.
MinTry(t) ==
    /\ hgThread[t].at = "min"
    /\ \/ /\ hgThread[t].value >= hgThread[t].seen
          /\ RecorderAt(t, "max", hgMax)
          /\ UNCHANGED hgMin
       \/ /\ hgThread[t].value < hgThread[t].seen /\ hgMin = hgThread[t].seen
          /\ hgMin' = hgThread[t].value
          /\ RecorderAt(t, "max", hgMax)
       \/ /\ hgThread[t].value < hgThread[t].seen
          /\ RecorderAt(t, "min", hgMin)
          /\ UNCHANGED hgMin
    /\ UNCHANGED <<hgBuckets, hgCount, hgSum, hgMax, hgRecorded>>

MaxTry(t) ==
    /\ hgThread[t].at = "max"
    /\ \/ /\ hgThread[t].value <= hgThread[t].seen
          /\ hgThread' = [hgThread EXCEPT ![t] = HgOut]
          /\ UNCHANGED hgMax
       \/ /\ hgThread[t].value > hgThread[t].seen /\ hgMax = hgThread[t].seen
          /\ hgMax' = hgThread[t].value
          /\ hgThread' = [hgThread EXCEPT ![t] = HgOut]
       \/ /\ hgThread[t].value > hgThread[t].seen
          /\ RecorderAt(t, "max", hgMax)
          /\ UNCHANGED hgMax
    /\ UNCHANGED <<hgBuckets, hgCount, hgSum, hgMin, hgRecorded>>

HgReset ==
    /\ \A t \in HgThreads : hgThread[t].at = "idle"
    /\ Cleared
    /\ UNCHANGED hgThread

HgNext ==
    \/ HgReset
    \/ \E t \in HgThreads :
         \/ \E v \in HgValues : RecordBucket(t, v)
         \/ RecordCount(t) \/ SumLoad(t) \/ SumStore(t) \/ MinTry(t) \/ MaxTry(t)

HgSpec == HgInit /\ [][HgNext]_hgVars

-----------------------------------------------------------------------------
\* The rank that a percentile of n values stands for: ceil(pct / 100 * n), at least 1.
RankOf(pct, n) == LET r == (pct * n + 99) \div 100 IN IF r = 0 THEN 1 ELSE r

\* GetSnapshot's estimate: the bound of the first bucket that reaches the rank; the
\* minimum for the first one and the maximum for the last.
Estimate(pct) ==
    LET reach == {i \in 1 .. Overflow : UpTo(hgBuckets, i) >= RankOf(pct, hgCount)}
        first == CHOOSE i \in reach : \A j \in reach : i <= j
    IN  IF reach = {} \/ first = Overflow THEN hgMax
        ELSE IF first = 1 THEN (IF hgMin < HgBounds[1] THEN hgMin ELSE HgBounds[1])
        ELSE HgBounds[first]

\* The value of that rank among those recorded.
Ranked(pct) == CHOOSE v \in HgValues :
    /\ UpTo(hgRecorded, v) >= RankOf(pct, UpTo(hgRecorded, HgMaxValue))
    /\ UpTo(hgRecorded, v - 1) < RankOf(pct, UpTo(hgRecorded, HgMaxValue))

HgQuiet == \A t \in HgThreads : hgThread[t].at = "idle"

\* Once no Record is under way nothing but the sum has been lost to another recorder: count
\* and buckets hold every value, minimum and maximum are exact, and each percentile of a
\* snapshot lies in the bucket of the value it stands for (Record, GetSnapshot).
HistogramExact ==
    HgQuiet =>
      /\ hgCount = UpTo(hgRecorded, HgMaxValue)
      /\ hgCount = UpTo(hgBuckets, Overflow)
      /\ \A v \in HgValues : hgRecorded[v] > 0 => hgMin <= v /\ v <= hgMax
      /\ hgCount > 0 =>
           /\ hgRecorded[hgMin] > 0 /\ hgRecorded[hgMax] > 0
           /\ \A pct \in {50, 95, 99} : BucketOf(Estimate(pct)) = BucketOf(Ranked(pct))

\* Refuted: the sum is that of the values recorded.  It is loaded and stored in two steps
\* (lines 52-53), so one of two recorders is lost.
SumExact == HgQuiet => hgSum = UpTo([v \in HgValues |-> v * hgRecorded[v]], HgMaxValue)
=============================================================================
