------------------------- MODULE AggregatorPlugins --------------------------
(***************************************************************************)
(* The aggregator plugins basicstats, minmax, valuecounter and histogram:  *)
(* what they keep of one field of one series, how a metric changes it and  *)
(* what they report of it; and what they are to report, defined on all the *)
(* values that were added.                                                 *)
(*                                                                         *)
(* Field values are integers, or Text, which is no number.  The mean is    *)
(* kept exactly, Scale times as large, and so M2 and the variance are      *)
(* Scale^2 times as large; Scale is a multiple of 1 .. n for up to n       *)
(* values.                                                                 *)
(***************************************************************************)
EXTENDS Integers, Sequences, SequencesExt, FiniteSetsExt, Functions, TLC

CONSTANTS Numbers,   \* the numbers among the values
          Text,      \* a value that convert refuses
          Buckets,   \* histogram's option, in the order of the file
          Scale,
          Nothing    \* what is kept of a field that had no number yet

Values == Numbers \union {Text}

-----------------------------------------------------------------------------
(* Mutant: the mean is updated after M2.                                   *)
BasicStatsAdd_oldMean(st, x) ==
  IF x = Text THEN st
  ELSE IF st = Nothing
  THEN [count |-> 1, min |-> x, max |-> x, sum |-> x, mean |-> Scale * x, M2 |-> 0]
  ELSE LET n     == st.count + 1
           delta == Scale * x - st.mean
       IN  [count |-> n,
            mean  |-> st.mean + delta \div n,
            M2    |-> st.M2 + delta * delta,
            min   |-> IF x < st.min THEN x ELSE st.min,
            max   |-> IF x >= st.min /\ x > st.max THEN x ELSE st.max,
            sum   |-> st.sum + x]

(* Welford's update of mean and M2.                                        *)
BasicStatsAdd(st, x) ==
  IF x = Text THEN st
  ELSE IF st = Nothing
  THEN [count |-> 1, min |-> x, max |-> x, sum |-> x, mean |-> Scale * x, M2 |-> 0]
  ELSE LET n     == st.count + 1
           delta == Scale * x - st.mean
           mean  == st.mean + delta \div n
       IN  [count |-> n,
            mean  |-> mean,
            M2    |-> st.M2 + delta * (Scale * x - mean),
            min   |-> IF x < st.min THEN x ELSE st.min,
            max   |-> IF x >= st.min /\ x > st.max THEN x ELSE st.max,
            sum   |-> st.sum + x]

(* The variance of the values, which one value has not, and of M2 nothing  *)
(* else.  The standard deviation, its square root, is left out.            *)
BasicStatsPush(st) ==
  IF st = Nothing THEN st
  ELSE Restrict(st, DOMAIN st \ {"M2"})
       @@ IF st.count > 1 THEN [s2 |-> st.M2 \div (st.count - 1)] ELSE <<>>

MinMaxAdd(st, x) ==
  IF x = Text THEN st
  ELSE IF st = Nothing THEN [min |-> x, max |-> x]
  ELSE IF x < st.min THEN [st EXCEPT !.min = x]
  ELSE IF x > st.max THEN [st EXCEPT !.max = x]
  ELSE st

(* Text is counted too.                                                    *)
ValueCounterAdd(st, x) ==
  IF st = Nothing THEN x :> 1
  ELSE IF x \in DOMAIN st THEN [st EXCEPT ![x] = @ + 1]
  ELSE st @@ (x :> 1)

sortBuckets == SortSeq(Buckets, <)

(* sort.SearchFloat64s: the first bucket that is not smaller, or the one   *)
(* behind the last.                                                        *)
Search(x) ==
  Min({i \in DOMAIN sortBuckets : sortBuckets[i] >= x} \union {Len(Buckets) + 1})

HistogramAdd(st, x) ==
  LET counts == IF st = Nothing THEN [i \in 1 .. Len(Buckets) + 1 |-> 0] ELSE st
  IN  IF x = Text THEN counts ELSE [counts EXCEPT ![Search(x)] = @ + 1]

(* groupFieldsByBuckets: the counts up to each bucket.                     *)
HistogramPush(st) ==
  IF st = Nothing THEN st
  ELSE [i \in DOMAIN st |-> FoldLeft(+, 0, SubSeq(st, 1, i))]

-----------------------------------------------------------------------------
PluginAdd(plugin, st, x) ==
  CASE plugin = "basicstats"   -> BasicStatsAdd(st, x)
    [] plugin = "minmax"       -> MinMaxAdd(st, x)
    [] plugin = "valuecounter" -> ValueCounterAdd(st, x)
    [] plugin = "histogram"    -> HistogramAdd(st, x)

PluginPush(plugin, st) ==
  CASE plugin = "basicstats" -> BasicStatsPush(st)
    [] plugin = "histogram"  -> HistogramPush(st)
    [] OTHER -> st

(* histogram's Reset does nothing: it counts from the start of the agent.  *)
PluginReset(plugin, st) == IF plugin = "histogram" THEN st ELSE Nothing

-----------------------------------------------------------------------------
(* What is to be reported of the values xs.                                *)
Report(plugin, xs) ==
  LET ns   == SelectSeq(xs, LAMBDA x : x # Text)
      n    == Len(ns)
      sum  == FoldLeft(+, 0, ns)
      mean == (Scale * sum) \div n
      Sq(x) == (Scale * x - mean) * (Scale * x - mean)
  IN  CASE plugin = "basicstats" ->
             IF n = 0 THEN Nothing
             ELSE [count |-> n, min |-> Min(Range(ns)), max |-> Max(Range(ns)),
                   sum |-> sum, mean |-> mean]
                  @@ IF n = 1 THEN <<>>
                     ELSE [s2 |-> FoldLeft(LAMBDA a, x : a + Sq(x), 0, ns) \div (n - 1)]
        [] plugin = "minmax" ->
             IF n = 0 THEN Nothing ELSE [min |-> Min(Range(ns)), max |-> Max(Range(ns))]
        [] plugin = "valuecounter" ->
             IF xs = <<>> THEN Nothing
             ELSE [v \in Range(xs) |-> Cardinality({i \in DOMAIN xs : xs[i] = v})]
        [] plugin = "histogram" ->
             IF xs = <<>> THEN Nothing
             ELSE [i \in 1 .. Len(Buckets) + 1 |->
                     Cardinality({k \in DOMAIN ns :
                       i = Len(Buckets) + 1 \/ ns[k] <= sortBuckets[i]})]
=============================================================================
