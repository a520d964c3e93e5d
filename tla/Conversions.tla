----------------------------- MODULE Conversions -----------------------------
(***************************************************************************)
(* What each surfacer makes of an EventMetrics: a number, a map, a         *)
(* distribution or a string becomes rows of a name, labels and a number.   *)
(* A name is the sequence of its words and separators.  Numbers are in     *)
(* halves, so that an Int is even.                                         *)
(***************************************************************************)
EXTENDS Metrics, FiniteSets

CONSTANTS
  CvEMs,      \* what probes make EventMetrics of: [kind, unit, labels, metrics]
  CvConfs,    \* configs of surfacers
  CvInvalid,  \* words that no name may have
  CvNumbers,  \* texts that are numbers -> the number
  CvMax,      \* bound: EventMetrics written
  NoRegex,    \* no regular expression
  CvNull      \* NULL, of a column

VARIABLES
  cvConf,  \* config of the surfacer
  cvEMs,   \* EventMetrics written
  cvRows   \* rows made of them

cvVars == <<cvConf, cvEMs, cvRows>>

-----------------------------------------------------------------------------
(* EventMetrics: metrics and labels are in the order they were added *)

NewEventMetrics(kind, unit) == [kind |-> kind, unit |-> unit, labels |-> <<>>, metrics |-> <<>>]

Has(pairs, name) == \E i \in DOMAIN pairs : pairs[i][1] = name

\* A metric, or a label, that is there already stays as it is.
AddMetric(em, name, val) ==
  IF Has(em.metrics, name) THEN em ELSE [em EXCEPT !.metrics = Append(@, <<name, val>>)]

AddLabel(em, name, val) ==
  IF Has(em.labels, name) THEN em ELSE [em EXCEPT !.labels = Append(@, <<name, val>>)]

Build(c) ==
  LET start == NewEventMetrics(c.kind, c.unit)
      with  == FoldLeft(LAMBDA em, m : AddMetric(em, m[1], m[2]), start, c.metrics)
  IN FoldLeft(LAMBDA em, l : AddLabel(em, l[1], l[2]), with, c.labels)

LabelsKeys(em) == {em.labels[i][1] : i \in DOMAIN em.labels}
HasLabel(em, name) == name \in LabelsKeys(em)
Label(em, name) ==
  IF HasLabel(em, name) THEN (CHOOSE l \in ToSet(em.labels) : l[1] = name)[2] ELSE ""
LabelMap(em) == [k \in LabelsKeys(em) |-> Label(em, k)]

\* A label of the map is replaced.
With(labels, k, v) == [j \in DOMAIN labels \union {k} |-> IF j = k THEN v ELSE labels[j]]

MapOf(name, m) == [type |-> "Map", name |-> name, m |-> m,
                   keys |-> SetToSortSeq(DOMAIN m, LAMBDA a, b : m[a] < m[b])]

NewExponentialDistribution(base, scale, n) == <<0>> \o [i \in 1 .. n |-> scale * base ^ (i - 1)]

\* The bounds of a definition; there is no distribution for a base below 1.01.
NewDistributionFromProto(proto) ==
  CASE proto.type = "explicit" -> proto.bounds
    [] proto.type = "exponential" /\ proto.base > 1 ->
         NewExponentialDistribution(proto.base, proto.scale, proto.n)

\* Data shares the buckets with the distribution: late samples, that the probe's
\* loop adds before a surfacer comes to the buckets, are in them alone.
DistOf(proto, samples, late) ==
  LET d == FoldLeft(AddSample, NewDistribution(NewDistributionFromProto(proto)), samples)
  IN [type |-> "Dist", lb |-> d.lb, sum |-> d.sum, count |-> d.count, own |-> d.bc,
      bc |-> FoldLeft(AddSample, d, late).bc, samples |-> samples \o late]

Quote(s) == "'" \o s \o "'"
IsNum(v) == v.type \in {"Int", "Float"}
Int64(v) == 2 * (v.n \div 2)

AllowMetric(name) ==
  /\ cvConf.ignore = NoRegex \/ name \notin cvConf.ignore
  /\ cvConf.allow = NoRegex \/ name \in cvConf.allow

\* The rows of each metric, in the order of the metrics.
RowsOf(em, Rows(_, _)) ==
  FlattenSeq([i \in DOMAIN em.metrics |-> Rows(em.metrics[i][1], em.metrics[i][2])])

Row(name, labels, val) == [name |-> name, labels |-> labels, val |-> val]

\* Mutant of Buckets: a bucket does not have the ones before it.
Buckets_Single(d) ==
  [i \in DOMAIN d.lb |->
     [le |-> IF i = Len(d.lb) THEN "+Inf" ELSE ToString(d.lb[i + 1]), val |-> 2 * d.bc[i]]]

\* A bucket has the samples below its upper bound.
Buckets(d) ==
  [i \in DOMAIN d.lb |->
     [le  |-> IF i = Len(d.lb) THEN "+Inf" ELSE ToString(d.lb[i + 1]),
      val |-> 2 * FoldLeft(LAMBDA a, b : a + b, 0, SubSeq(d.bc, 1, i))]]

-----------------------------------------------------------------------------
(* Prometheus: labels are text, one after the other *)

Underscores(name) == [i \in DOMAIN name |-> IF name[i] = "-" THEN "_" ELSE name[i]]
Valid(name) == CvInvalid \intersect ToSet(name) = {}

\* The empty name is for one that is not valid.
checkLabelName(k) == IF Valid(Underscores(k)) THEN Underscores(k) ELSE <<>>
promMetricName(k) ==
  LET name == Underscores(cvConf.prefix \o k) IN IF Valid(name) THEN name ELSE <<>>

promLabels(em) ==
  SelectSeq([i \in DOMAIN em.labels |-> <<checkLabelName(em.labels[i][1]), em.labels[i][2]>>],
            LAMBDA l : l[1] # <<>>)

promRecord(em) ==
  LET labels == promLabels(em)
      Extra(k, v) == Append(labels, <<k, v>>)
      Rows(k, v) ==
        LET name == promMetricName(k)
        IN IF ~AllowMetric(k) \/ name = <<>> THEN <<>>
           ELSE CASE v.type = "Map" ->
                       IF checkLabelName(v.name) = <<>> THEN <<>>
                       ELSE [i \in DOMAIN v.keys |->
                               Row(name, Extra(checkLabelName(v.name), v.keys[i]), v.m[v.keys[i]])]
                  [] v.type = "Dist" ->
                       <<Row(name \o <<"_sum">>, labels, 2 * v.sum),
                         Row(name \o <<"_count">>, labels, 2 * v.count)>>
                       \o [i \in DOMAIN v.lb |->
                             Row(name \o <<"_bucket">>, Extra(<<"le">>, Buckets(v)[i].le),
                                 Buckets(v)[i].val)]
                  [] v.type = "String" -> <<Row(name, Extra(<<"val">>, Quote(v.s)), 2)>>
                  [] IsNum(v) -> <<Row(name, labels, v.n)>>
  IN RowsOf(em, Rows)

-----------------------------------------------------------------------------
(* Stackdriver *)

usePType == cvConf.metricsPrefix = "PTYPE_PROBE"
useProbe == cvConf.metricsPrefix \in {"PTYPE_PROBE", "PROBE"}

\* processLabels: the labels that go into the prefix, and the prefix.
InPrefix == (IF usePType THEN {<<"ptype">>} ELSE {}) \union (IF useProbe THEN {<<"probe">>} ELSE {})
sdLabels(em) == [k \in LabelsKeys(em) \ InPrefix |-> Label(em, k)]
PrefixPart(em, k) ==
  IF k \in InPrefix /\ Label(em, k) # "" THEN <<Label(em, k), "/">> ELSE <<>>
sdPrefix(em) == PrefixPart(em, <<"ptype">>) \o PrefixPart(em, <<"probe">>)

\* The length of a name is its number of words.
ignoreMetric(name) ==
  \/ cvConf.allowedRegex # NoRegex /\ name \notin cvConf.allowedRegex
  \/ Len(name) > cvConf.maxLength

sdUnit(em, k) == IF k = <<"latency">> THEN em.unit ELSE 0

\* A copy of all the distribution has.
StackdriverTypedValue(d) == [bounds |-> Tail(d.lb), counts |-> d.own]

sdRecord(em) ==
  LET labels == sdLabels(em)
      Rows(k, v) ==
        LET name == sdPrefix(em) \o k
            Series(l, val) == [key |-> <<name, labels>>, unit |-> sdUnit(em, k), dist |-> CvNull]
                                @@ Row(name, l, val)
        IN IF ~AllowMetric(k) \/ ignoreMetric(name) THEN <<>>
           ELSE CASE IsNum(v) -> <<Series(labels, Int64(v))>>
                  [] v.type = "String" -> <<Series(With(labels, <<"val">>, v.s), 2)>>
                  [] v.type = "Map" ->
                       [i \in DOMAIN v.keys |->
                          Series(With(labels, v.name, v.keys[i]), 2 * (v.m[v.keys[i]] \div 2))]
                  [] v.type = "Dist" ->
                       <<[Series(labels, 2 * v.count) EXCEPT !.dist = StackdriverTypedValue(v)]>>
  IN IF em.kind \in {"GAUGE", "CUMULATIVE"} THEN RowsOf(em, Rows) ELSE <<>>

-----------------------------------------------------------------------------
(* Postgres and BigQuery: labels are a JSON object, or columns *)

distToPGMetrics(d, name, labels) ==
  <<Row(name \o <<"_sum">>, labels, 2 * d.sum), Row(name \o <<"_count">>, labels, 2 * d.count)>>
  \o [i \in DOMAIN d.lb |->
        Row(name \o <<"_bucket">>, With(labels, <<"le">>, Buckets(d)[i].le), Buckets(d)[i].val)]

\* The surfacer's options have no part in it.
emToPGMetrics(em) ==
  LET labels == LabelMap(em)
      Rows(k, v) ==
        CASE v.type = "Map" ->
               [i \in DOMAIN v.keys |-> Row(k, With(labels, v.name, v.keys[i]), v.m[v.keys[i]])]
          [] v.type = "Dist" -> distToPGMetrics(v, k, labels)
          [] v.type = "String" -> <<Row(k, With(labels, <<"val">>, Quote(v.s)), 2)>>
          [] IsNum(v) -> <<Row(k, labels, v.n)>>
  IN RowsOf(em, Rows)

\* generateColumns and generateValues, for the labels: a column without its label
\* is NULL.
generateColumns == [i \in DOMAIN cvConf.columns |-> cvConf.columns[i].column]
generateValues(labels) ==
  [i \in DOMAIN cvConf.columns |->
     IF cvConf.columns[i].label \in DOMAIN labels THEN labels[cvConf.columns[i].label] ELSE CvNull]
pgLabels(labels) ==
  IF cvConf.columns = <<>> THEN labels ELSE <<generateColumns, generateValues(labels)>>

pgRecord(em) ==
  LET rows == emToPGMetrics(em)
  IN IF em.kind \notin {"GAUGE", "CUMULATIVE"} THEN <<>>
     ELSE [i \in DOMAIN rows |-> [rows[i] EXCEPT !.labels = pgLabels(@)]]

\* An empty label, or none, fits every type.  Timestamps are numbers too.
convertToBqType(type, label) ==
  CASE label = "" -> label
    [] label # "" /\ type = "string" -> label
    [] label # "" /\ type \in {"integer", "float", "timestamp"} /\ label \in DOMAIN CvNumbers ->
         ToString(CvNumbers[label])
    [] OTHER -> CvNull

bqColumns(em) ==
  [i \in DOMAIN cvConf.columns |->
     convertToBqType(cvConf.columns[i].type, Label(em, cvConf.columns[i].label))]

\* A label that does not convert is an error for the EventMetrics.
bqFails(em) == CvNull \in ToSet(bqColumns(em))

bqLabels(em) ==
  IF cvConf.columns = <<>> THEN (<<"labels">> :> LabelMap(em))
  ELSE [c \in {cvConf.columns[i].column : i \in DOMAIN cvConf.columns} |->
          bqColumns(em)[CHOOSE i \in DOMAIN cvConf.columns : cvConf.columns[i].column = c]]

\* The rows of sum and count are one map, which has the count in the end.
distToBqMetrics(d, name, labels) ==
  <<Row(name \o <<"_count">>, labels, 2 * d.count), Row(name \o <<"_count">>, labels, 2 * d.count)>>
  \o [i \in DOMAIN d.lb |->
        Row(name \o <<"_bucket">>, With(labels, <<"le">>, Buckets(d)[i].le), Buckets(d)[i].val)]

parseBQCols(em) ==
  LET base == bqLabels(em)
      Rows(k, v) ==
        IF ~AllowMetric(k) THEN <<>>
        ELSE CASE v.type = "Map" ->
                    [i \in DOMAIN v.keys |-> Row(k, With(base, v.name, v.keys[i]), v.m[v.keys[i]])]
               [] v.type = "Dist" -> distToBqMetrics(v, k, base)
               [] v.type = "String" -> <<Row(k, With(base, <<"val">>, v.s), 2)>>
               [] IsNum(v) -> <<Row(k, base, v.n)>>
  IN IF bqFails(em) THEN <<>> ELSE RowsOf(em, Rows)

-----------------------------------------------------------------------------
(* CloudWatch and Datadog: labels are a list, and there are no strings *)

emLabelsToDimensions(em) == em.labels
emLabelsToTags(em) == em.labels

\* Latency is in milliseconds, whatever the value is of.
newCWMetricDatum(em, k, dimensions, val) ==
  Row(k, dimensions, IF k = <<"latency">> THEN val * em.unit ELSE val)

cwRecord(em) ==
  LET Datum(k, extra, val) == newCWMetricDatum(em, k, emLabelsToDimensions(em) \o extra, val)
      Rows(k, v) ==
        IF ~AllowMetric(k) THEN <<>>
        ELSE CASE IsNum(v) -> <<Datum(k, <<>>, v.n)>>
               [] v.type = "Map" ->
                    [i \in DOMAIN v.keys |-> Datum(k, <<<<v.name, v.keys[i]>>>>, v.m[v.keys[i]])]
               [] v.type = "Dist" ->
                    [i \in DOMAIN v.lb |->
                       Datum(k, <<<<<<"le">>, ToString(v.lb[i])>>>>, 2 * v.bc[i])]
               [] v.type = "String" -> <<>>
  IN RowsOf(em, Rows)

\* A series has points; here each is a row, in the order of the points.
newDDSeries(k, tags, val) == Row(cvConf.prefix \o k, tags, val)

\* A point at the lower bound for each sample of a bucket.
distToDDSeries(d, k, tags) ==
  <<newDDSeries(k \o <<".sum">>, tags, 2 * d.sum), newDDSeries(k \o <<".count">>, tags, 2 * d.count)>>
  \o FlattenSeq([i \in DOMAIN d.lb |->
                   [n \in 1 .. d.bc[i] |-> newDDSeries(k, tags, 2 * d.lb[i])]])

ddRecord(em) ==
  LET tags == emLabelsToTags(em)
      Rows(k, v) ==
        CASE IsNum(v) -> <<newDDSeries(k, tags, v.n)>>
          [] v.type = "Map" ->
               [i \in DOMAIN v.keys |->
                  newDDSeries(k, Append(tags, <<v.name, v.keys[i]>>), v.m[v.keys[i]])]
          [] v.type = "Dist" -> distToDDSeries(v, k, tags)
          [] v.type = "String" -> <<>>
  IN RowsOf(em, Rows)

-----------------------------------------------------------------------------

\* A row replaces the one that has its key.
Replace(Key(_), rows, row) ==
  IF \E i \in DOMAIN rows : Key(rows[i]) = Key(row)
  THEN [i \in DOMAIN rows |-> IF Key(rows[i]) = Key(row) THEN row ELSE rows[i]]
  ELSE Append(rows, row)

\* dataKey of Prometheus, and the key of Stackdriver's cache.
dataKey(row) == <<row.name, row.labels>>
recordMetric(rows, row) == Replace(dataKey, rows, row)
recordTimeSeries(rows, row) == Replace(LAMBDA r : r.key, rows, row)

Record(rows, em) ==
  CASE cvConf.type = "prometheus"  -> FoldLeft(recordMetric, rows, promRecord(em))
    [] cvConf.type = "stackdriver" -> FoldLeft(recordTimeSeries, rows, sdRecord(em))
    [] cvConf.type = "postgres"    -> rows \o pgRecord(em)
    [] cvConf.type = "bigquery"    -> rows \o parseBQCols(em)
    [] cvConf.type = "cloudwatch"  -> rows \o cwRecord(em)
    [] cvConf.type = "datadog"     -> rows \o ddRecord(em)

CvInit == cvConf \in CvConfs /\ cvEMs = <<>> /\ cvRows = <<>>

CvWrite(c) ==
  /\ Len(cvEMs) < CvMax
  /\ cvEMs' = Append(cvEMs, Build(c))
  /\ cvRows' = Record(cvRows, Build(c))
  /\ UNCHANGED cvConf

CvNext == \E c \in CvEMs : CvWrite(c)

-----------------------------------------------------------------------------
(* Properties *)

\* The labels of the EventMetrics' rows, and those of a row that has one more.
BaseLabels(em) ==
  CASE cvConf.type = "prometheus"  -> promLabels(em)
    [] cvConf.type = "stackdriver" -> sdLabels(em)
    [] cvConf.type = "postgres"    -> pgLabels(LabelMap(em))
    [] cvConf.type = "bigquery"    -> bqLabels(em)
    [] OTHER                       -> em.labels
OneMore(em, k, v) ==
  CASE cvConf.type = "postgres"   -> pgLabels(With(LabelMap(em), k, v))
    [] cvConf.type = "prometheus" -> Append(promLabels(em), <<checkLabelName(k), v>>)
    [] cvConf.type \in {"stackdriver", "bigquery"} -> With(BaseLabels(em), k, v)
    [] OTHER -> Append(em.labels, <<k, v>>)
RowName(em, k) ==
  CASE cvConf.type = "prometheus"  -> promMetricName(k)
    [] cvConf.type = "stackdriver" -> sdPrefix(em) \o k
    [] cvConf.type = "datadog"     -> cvConf.prefix \o k
    [] OTHER                       -> k

RowsNamed(name, labels) ==
  {i \in DOMAIN cvRows : cvRows[i].name = name /\ cvRows[i].labels = labels}
One(name, labels, val) ==
  \E i \in DOMAIN cvRows : RowsNamed(name, labels) = {i} /\ cvRows[i].val = val

\* Can the surfacer tell the EventMetrics from the other ones, each of its
\* metrics from the others, and the label it adds from those that are there?
Alone(em) ==
  \A i, j \in DOMAIN cvEMs :
    cvEMs[i] = em /\ i # j =>
      <<BaseLabels(em), RowName(em, <<>>)>> # <<BaseLabels(cvEMs[j]), RowName(cvEMs[j], <<>>)>>
Apart(em, k) == \A i \in DOMAIN em.metrics :
                  em.metrics[i][1] # k => RowName(em, em.metrics[i][1]) # RowName(em, k)
Shows(em, k) ==
  /\ ~HasLabel(em, k)
  /\ cvConf.type = "prometheus" => checkLabelName(k) # <<>>
  /\ cvConf.type = "postgres" /\ cvConf.columns # <<>> =>
       \E i \in DOMAIN cvConf.columns : cvConf.columns[i].label = k

\* Does the config have the surfacer take the metric?
Filters == cvConf.type \notin {"postgres", "datadog"}
Taken(em, k) ==
  /\ Filters => AllowMetric(k)
  /\ cvConf.type \in {"stackdriver", "postgres"} => em.kind \in {"GAUGE", "CUMULATIVE"}
  /\ cvConf.type = "stackdriver" => ~ignoreMetric(RowName(em, k))
  /\ cvConf.type = "bigquery" => ~bqFails(em)
  /\ RowName(em, k) # <<>>

\* Reference: of the samples.
Below(d, bound) == 2 * Cardinality({i \in DOMAIN d.samples : d.samples[i] < bound})
Scaled(em, k, n) == IF k = <<"latency">> THEN n * em.unit ELSE n

DistTold(em, k, d) ==
  LET name == RowName(em, k)
      Bound(i) == IF i > Len(d.lb) THEN 1000 ELSE d.lb[i]
      In(i) == Below(d, Bound(i + 1)) - Below(d, Bound(i))
  IN CASE cvConf.type \in {"prometheus", "postgres", "bigquery"} ->
            /\ Shows(em, <<"le">>) => \A i \in DOMAIN d.lb :
                 One(name \o <<"_bucket">>,
                     OneMore(em, <<"le">>, IF i = Len(d.lb) THEN "+Inf" ELSE ToString(Bound(i + 1))),
                     Below(d, Bound(i + 1)))
            /\ cvConf.type # "bigquery" =>
                 /\ One(name \o <<"_sum">>, BaseLabels(em), 2 * d.sum)
                 /\ One(name \o <<"_count">>, BaseLabels(em), 2 * d.count)
       [] cvConf.type = "cloudwatch" ->
            \A i \in DOMAIN d.lb :
              One(name, OneMore(em, <<"le">>, ToString(d.lb[i])), Scaled(em, k, In(i)))
       [] cvConf.type = "datadog" ->
            \A i \in DOMAIN d.lb :
              In(i) = 2 * Cardinality({r \in RowsNamed(name, em.labels) : cvRows[r].val = 2 * d.lb[i]})
       [] cvConf.type = "stackdriver" ->
            \E i \in DOMAIN cvRows :
              /\ RowsNamed(name, BaseLabels(em)) = {i}
              /\ FoldLeft(LAMBDA a, b : a + b, 0, cvRows[i].dist.counts) = d.count

Told(em, k, v) ==
  CASE IsNum(v) ->
         One(RowName(em, k), BaseLabels(em),
             CASE cvConf.type = "stackdriver" -> Int64(v)
               [] cvConf.type = "cloudwatch"  -> Scaled(em, k, v.n)
               [] OTHER                       -> v.n)
    [] v.type = "Map" /\ Shows(em, v.name) ->
         \A i \in DOMAIN v.keys :
           (cvConf.type = "stackdriver" => i = Len(v.keys)) =>
             One(RowName(em, k), OneMore(em, v.name, v.keys[i]), v.m[v.keys[i]])
    [] v.type = "Dist" -> DistTold(em, k, v)
    [] OTHER -> TRUE

\* What a surfacer was given can be told from its rows: each number, each key of a
\* map and each bucket has one row, of its value or the samples it counts, when
\* the labels that the surfacer shows tell the EventMetrics from the others.
\* Metrics that the filters do not allow have no row.  Stackdriver's cache has the
\* last key of a map alone, and whole numbers; BigQuery has no sum; CloudWatch
\* has the samples of a latency scaled by its unit.
RowsTell ==
  \A em \in ToSet(cvEMs) : Alone(em) =>
    \A m \in ToSet(em.metrics) : Apart(em, m[1]) =>
      IF Taken(em, m[1]) THEN Told(em, m[1], m[2])
      ELSE \A i \in DOMAIN cvRows :
             cvRows[i].labels = BaseLabels(em) => cvRows[i].name # RowName(em, m[1])
=============================================================================
