------------------------------ MODULE Payload ------------------------------
(***************************************************************************)
(* The payload parser of an external probe: the lines its command prints   *)
(* become EventMetrics of one metric each, aggregated in cloudprober if so *)
(* configured, and a surfacer with export_as_gauge reads them later.  The  *)
(* goroutines of the targets share the parser.  An EventMetrics is its     *)
(* parser key and a copy of its value.                                     *)
(***************************************************************************)
EXTENDS Metrics, FiniteSets

CONSTANTS
  PayTargets,   \* targets, each with a goroutine of its own in mode ONCE
  PayLines,     \* lines, [name, labels, val]; val is the string form of a value,
                \* or a list of numbers; Bad is a line without a value
  DistMetrics,  \* names of dist_metric -> its lower bounds
  MaxLines      \* bound: lines parsed

VARIABLES
  pAggregate,  \* aggregate_in_cloudprober
  pCumulative, \* kind of the metrics
  pOnce,       \* mode ONCE
  aggMetrics,  \* key -> value being aggregated
  pOut,        \* EventMetrics on their way to the surfacer
  pDead,       \* has the runtime ended the process for the race on aggMetrics?
  pLastVal,       \* lvCache of the surfacer
  pGauge,      \* history: key -> slot -> the sum of the gauges surfaced
  pSum,        \* history: key -> slot -> the sum of what the lines said
  pParsed      \* lines parsed

payVars == <<pAggregate, pCumulative, pOnce, aggMetrics, pOut, pDead, pLastVal, pGauge, pSum,
             pParsed>>

Empty == [x \in {} |-> 0]

\* NewParser refuses to aggregate gauges.
NewParser ==
  /\ pAggregate \in BOOLEAN /\ pCumulative \in BOOLEAN
  /\ pAggregate => pCumulative
  /\ aggMetrics = Empty

PayInit ==
  /\ NewParser
  /\ pOnce \in BOOLEAN /\ pOut = <<>> /\ pDead = FALSE
  /\ pLastVal = Empty /\ pGauge = Empty /\ pSum = Empty /\ pParsed = 0

\* Labels in any order give the same key.
metricKey(line, t) == [name |-> line.name, labels |-> ToSet(line.labels), dst |-> t]

\* A list of numbers is added up to its first bad one, even if it fails there.
SamplesBefore(list) ==
  IF Bad \in ToSet(list) THEN SubSeq(list, 1, SelectInSeq(list, LAMBDA x : x = Bad) - 1)
                         ELSE list

processDistValue(d, str) ==
  CASE str.form = "dist" ->
         LET p == ParseDistFromString(str.body)
         IN IF p.err \/ ~Compatible(d, p.val) THEN [err |-> TRUE, val |-> d]
                                              ELSE [err |-> FALSE, val |-> DistAdd(d, p.val)]
    [] str.form \in {"list", "number"} ->
         LET list == IF str.form = "list" THEN str.body ELSE <<str.body>>
         IN [err |-> Bad \in ToSet(list),
             val |-> FoldLeft(AddSample, d, SamplesBefore(list))]
    [] OTHER -> [err |-> TRUE, val |-> d]

\* Mutant of updateMetricValue: the value is replaced.
updateMetricValue_Replace(v, str) ==
  IF v.type = "Dist" THEN processDistValue(v, str)
  ELSE LET p == ParseValueFromString(str)
       IN IF p.err \/ ~Compatible(v, p.val) THEN [err |-> TRUE, val |-> v]
                                            ELSE [err |-> FALSE, val |-> p.val]

updateMetricValue(v, str) ==
  IF v.type = "Dist" THEN processDistValue(v, str)
  ELSE LET p == ParseValueFromString(str)
       IN IF p.err \/ ~Compatible(v, p.val) THEN [err |-> TRUE, val |-> v]
                                            ELSE [err |-> FALSE, val |-> Add(v, p.val)]

addNewMetric(name, str) ==
  IF name \in {"success", "total", "latency"} THEN [err |-> TRUE]
  ELSE ParseValueFromString(str)

newEM(line) ==
  IF line.name \in DOMAIN DistMetrics
  THEN processDistValue(NewDistribution(DistMetrics[line.name]), line.val)
  ELSE addNewMetric(line.name, line.val)

PutAt(f, k, v) == [j \in DOMAIN f \cup {k} |-> IF j = k THEN v ELSE f[j]]

\* What a value counts, by slot: the reference for the sums.
Slots(v) ==
  CASE v.type = "Map" -> v.m
    [] v.type = "Dist" -> [s \in DOMAIN v.bc \cup {-1, 0} |->
                             CASE s = -1 -> v.sum [] s = 0 -> v.count [] OTHER -> v.bc[s]]
    [] v.type = "String" -> Empty
    [] OTHER -> [s \in {0} |-> v.n]

Plus(f, g) ==
  [s \in DOMAIN f \cup DOMAIN g |->
     (IF s \in DOMAIN f THEN f[s] ELSE 0) + (IF s \in DOMAIN g THEN g[s] ELSE 0)]

\* What a line says: samples belong to the bucket whose bounds they lie between.
Said(line) ==
  IF line.name \in DOMAIN DistMetrics /\ line.val.form # "dist"
  THEN LET list == IF line.val.form = "list" THEN line.val.body ELSE <<line.val.body>>
           s == SamplesBefore(list)
           lb == <<NegInf>> \o DistMetrics[line.name]
           In(x, i) == lb[i] <= x /\ (i < Len(lb) => x < lb[i + 1])
       IN [i \in DOMAIN lb \cup {-1, 0} |->
             CASE i = -1 -> FoldLeft(LAMBDA a, b : a + b, 0, s)
               [] i = 0 -> Len(s)
               [] OTHER -> Cardinality({j \in DOMAIN s : In(s[j], i)})]
  ELSE Slots(ParseValueFromString(line.val).val)

Get(f, k) == IF k \in DOMAIN f THEN f[k] ELSE Empty

\* Samples before a bad one stay in a distribution that is being aggregated.
PartlySaid(line) ==
  line.val.form = "list" /\ line.name \in DOMAIN DistMetrics

payloadLineMetrics(line, t) ==
  LET k == metricKey(line, t)
      old == pAggregate /\ k \in DOMAIN aggMetrics
      r == IF old THEN updateMetricValue(aggMetrics[k], line.val) ELSE newEM(line)
  IN /\ IF old \/ (pAggregate /\ ~r.err) THEN aggMetrics' = PutAt(aggMetrics, k, r.val)
                                         ELSE UNCHANGED aggMetrics
     /\ IF r.err THEN UNCHANGED pOut ELSE pOut' = Append(pOut, [key |-> k, val |-> r.val])
     /\ pSum' = IF ~r.err \/ (old /\ PartlySaid(line))
                THEN PutAt(pSum, k, Plus(Get(pSum, k), Said(line))) ELSE pSum

\* PayloadMetrics handles one line of the output of the command for t.
PayLine(t) ==
  /\ ~pDead /\ pParsed < MaxLines /\ pParsed' = pParsed + 1
  /\ \E line \in PayLines :
       IF line = Bad THEN UNCHANGED <<aggMetrics, pOut, pSum>>
                       ELSE payloadLineMetrics(line, t)
  /\ UNCHANGED <<pAggregate, pCumulative, pOnce, pDead, pLastVal, pGauge>>

\* Two goroutines are in aggMetrics at once, at least one of them to write.
PayRace ==
  /\ ~pDead /\ pOnce /\ pAggregate /\ Cardinality(PayTargets) > 1 /\ pParsed < MaxLines
  /\ pDead' = TRUE
  /\ UNCHANGED <<pAggregate, pCumulative, pOnce, aggMetrics, pOut, pLastVal, pGauge, pSum,
                 pParsed>>

\* SubtractLast of an EventMetrics of one metric, on a copy of it.
EMSubtractLast(v, last) ==
  IF ~Compatible(v, last) THEN [err |-> TRUE]
  ELSE LET s == SubtractCounter(v, last)
       IN [err |-> FALSE, val |-> IF s.reset THEN v ELSE s.val]

\* The surfacer reads an EventMetrics.
PayConsume ==
  /\ ~pDead /\ pOut # <<>> /\ pOut' = Tail(pOut)
  /\ LET em == Head(pOut)
         v == em.val
         g == IF pCumulative /\ em.key \in DOMAIN pLastVal THEN EMSubtractLast(v, pLastVal[em.key])
                                                        ELSE [err |-> FALSE, val |-> v]
     IN /\ pLastVal' = IF pCumulative THEN PutAt(pLastVal, em.key, v) ELSE pLastVal
        /\ pGauge' = IF g.err THEN pGauge
                     ELSE PutAt(pGauge, em.key, Plus(Get(pGauge, em.key), Slots(g.val)))
  /\ UNCHANGED <<pAggregate, pCumulative, pOnce, aggMetrics, pDead, pSum, pParsed>>

PayNext == (\E t \in PayTargets : PayLine(t)) \/ PayRace \/ PayConsume

-----------------------------------------------------------------------------
(* Properties *)

\* What is aggregated for a metric, its labels and its target is the sum of what
\* the lines said, whatever their order, their errors and the other targets: the
\* number, the value of each key of a map, the samples in each bucket.  Only of a
\* list with a bad number the samples before it stay, although the line is
\* reported as an error.  A surfacer that turns the counters into gauges gets the
\* same sums once it has read all EventMetrics, except what such a list added
\* since the last of them.  Every value reads back from its string form as it was.
PayloadAddsUp ==
  /\ \A k \in DOMAIN aggMetrics : Slots(aggMetrics[k]) = pSum[k]
  /\ pAggregate /\ pOut = <<>> =>
       \A k \in DOMAIN pLastVal : pLastVal[k].type # "String" => pGauge[k] = Slots(pLastVal[k])
  /\ \A k \in DOMAIN aggMetrics :
       LET v == aggMetrics[k]
           p == ParseValueFromString(ValueString(v))
       IN /\ ~p.err /\ Slots(p.val) = Slots(v)
          /\ v.type = "Map" => ToSet(v.keys) = DOMAIN v.m /\ SortedKeys(v.keys) = v.keys
=============================================================================
