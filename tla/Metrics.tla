------------------------------ MODULE Metrics ------------------------------
(***************************************************************************)
(* Metric values: what Add, SubtractCounter and the parsers compute.  A    *)
(* value is a record with its Go type; int64 and float64 are integers, and *)
(* the string form of a value is the sequence of its parts.                *)
(***************************************************************************)
EXTENDS Integers, Sequences, SequencesExt

CONSTANTS
  NegInf,  \* below every sample: the lower bound of the first bucket
  Bad      \* what does not parse as a number

NewInt(i) == [type |-> "Int", n |-> i]
NewFloat(f) == [type |-> "Float", n |-> f]
NewString(s) == [type |-> "String", s |-> s]

-----------------------------------------------------------------------------
(* Map *)

\* total tells whether the counter moves up or down.
NewMap(default) ==
  [type |-> "Map", m |-> [k \in {} |-> default], keys |-> <<>>, total |-> default]

SortedKeys(keys) == SortSeq(keys, LAMBDA a, b : a < b)

\* With a default of 0, as all callers have it.
newKey(mv, k) ==
  [mv EXCEPT !.keys = SortedKeys(Append(@, k)),
             !.m = [j \in DOMAIN @ \cup {k} |-> IF j = k THEN 0 ELSE @[j]]]

IncKeyBy(mv, k, d) ==
  LET has == IF k \in DOMAIN mv.m THEN mv ELSE newKey(mv, k)
  IN [has EXCEPT !.m[k] = @ + d, !.total = @ + d]

\* Add leaves total as it is.
MapAdd(mv, d) ==
  LET new == SelectSeq(d.keys, LAMBDA k : k \notin DOMAIN mv.m)
  IN [mv EXCEPT !.keys = SortedKeys(@ \o new),
                !.m = [k \in DOMAIN mv.m \cup DOMAIN d.m |->
                         (IF k \in DOMAIN mv.m THEN mv.m[k] ELSE 0)
                           + (IF k \in DOMAIN d.m THEN d.m[k] ELSE 0)]]

\* A key that went down on its own is not subtracted.
MapSubtractCounter(mv, last) ==
  IF mv.total < last.total \/ \E k \in DOMAIN last.m : k \notin DOMAIN mv.m
  THEN [val |-> mv, reset |-> TRUE]
  ELSE [val |-> [mv EXCEPT !.m = [k \in DOMAIN @ |->
                   IF k \in DOMAIN last.m /\ @[k] >= last.m[k] THEN @[k] - last.m[k]
                                                                ELSE @[k]]],
        reset |-> FALSE]

\* One part per key, in the order of keys.
MapString(mv) == [i \in DOMAIN mv.keys |-> <<mv.keys[i], mv.m[mv.keys[i]]>>]

\* A part that is no <key>:<number> fails the whole string.
ParseMapFromString(parts) ==
  IF Bad \in ToSet(parts) THEN [err |-> TRUE]
  ELSE [err |-> FALSE,
        val |-> FoldLeft(LAMBDA mv, kv : IncKeyBy(mv, kv[1], kv[2]), NewMap(0), parts)]

-----------------------------------------------------------------------------
(* Distribution *)

NewDistribution(bounds) ==
  LET lb == <<NegInf>> \o bounds
  IN [type |-> "Dist", lb |-> lb, bc |-> [i \in DOMAIN lb |-> 0], count |-> 0, sum |-> 0]

\* Mutant of bucketIndex: a sample at a bound goes to the bucket below it.
bucketIndex_Above(d, sample) ==
  LET search[i \in 1..Len(d.lb) + 1, j \in 1..Len(d.lb) + 1] ==
        IF i >= j THEN i
        ELSE LET h == (i + j) \div 2
             IN IF sample <= d.lb[h] THEN search[i, h] ELSE search[h + 1, j]
  IN search[1, Len(d.lb) + 1] - 1

\* sort.Search for the first bound above the sample: the bucket before it.
bucketIndex(d, sample) ==
  LET search[i \in 1..Len(d.lb) + 1, j \in 1..Len(d.lb) + 1] ==
        IF i >= j THEN i
        ELSE LET h == (i + j) \div 2
             IN IF sample < d.lb[h] THEN search[i, h] ELSE search[h + 1, j]
  IN search[1, Len(d.lb) + 1] - 1

AddSample(d, sample) ==
  [d EXCEPT !.bc[bucketIndex(d, sample)] = @ + 1, !.sum = @ + sample, !.count = @ + 1]

DistAdd(d, delta) ==
  [d EXCEPT !.count = @ + delta.count, !.sum = @ + delta.sum,
            !.bc = [i \in DOMAIN @ |-> @[i] + delta.bc[i]]]

DistSubtractCounter(d, last) ==
  IF d.count < last.count
  THEN [val |-> d, reset |-> TRUE]
  ELSE [val |-> [d EXCEPT !.count = @ - last.count, !.sum = @ - last.sum,
                          !.bc = [i \in DOMAIN @ |-> @[i] - last.bc[i]]],
        reset |-> FALSE]

DistString(d) == [sum |-> d.sum, count |-> d.count, lb |-> d.lb, bc |-> d.bc]

Verify(d) ==
  /\ Len(d.lb) # 0 /\ Len(d.lb) = Len(d.bc)
  /\ d.count = FoldLeft(LAMBDA a, b : a + b, 0, d.bc)

ParseDistFromString(str) ==
  LET d == [type |-> "Dist", lb |-> str.lb, bc |-> str.bc, count |-> str.count,
            sum |-> str.sum]
  IN IF Verify(d) THEN [err |-> FALSE, val |-> d] ELSE [err |-> TRUE]

-----------------------------------------------------------------------------
(* Values of any type *)

\* The string form of a value starts with what tells its type.
ValueString(v) ==
  CASE v.type \in {"Int", "Float"} -> [form |-> "number", body |-> v.n]
    [] v.type = "Map" -> [form |-> "map", body |-> MapString(v)]
    [] v.type = "Dist" -> [form |-> "dist", body |-> DistString(v)]
    [] v.type = "String" -> [form |-> "quoted", body |-> v.s]

\* Numbers are always read as floats.
ParseValueFromString(str) ==
  CASE str.form = "number" -> [err |-> FALSE, val |-> NewFloat(str.body)]
    [] str.form = "map" -> ParseMapFromString(str.body)
    [] str.form = "quoted" -> [err |-> FALSE, val |-> NewString(str.body)]
    [] str.form = "dist" -> ParseDistFromString(str.body)
    [] OTHER -> [err |-> TRUE]

\* Values that Add and SubtractCounter accept together.
Compatible(v, d) ==
  v.type = d.type /\ v.type # "String" /\ (v.type = "Dist" => v.lb = d.lb)

Add(v, d) ==
  CASE v.type = "Map" -> MapAdd(v, d)
    [] v.type = "Dist" -> DistAdd(v, d)
    [] OTHER -> [v EXCEPT !.n = @ + d.n]

NumSubtractCounter(v, last) ==
  IF v.n < last.n THEN [val |-> v, reset |-> TRUE]
                  ELSE [val |-> [v EXCEPT !.n = @ - last.n], reset |-> FALSE]

SubtractCounter(v, last) ==
  CASE v.type = "Map" -> MapSubtractCounter(v, last)
    [] v.type = "Dist" -> DistSubtractCounter(v, last)
    [] OTHER -> NumSubtractCounter(v, last)
=============================================================================
