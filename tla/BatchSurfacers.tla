--------------------------- MODULE BatchSurfacers ---------------------------
(***************************************************************************)
(* The surfacers that send metrics to a service in batches: Stackdriver,   *)
(* CloudWatch, Datadog, BigQuery and Postgres.  Each queues what Write is  *)
(* given, and one goroutine takes EventMetrics, or a tick, from a select.  *)
(* The EventMetrics have a number, a map of two keys and a distribution    *)
(* of two parts (buckets, or sum and count); a datum is one of these five  *)
(* values of the n-th EventMetrics, in an order that stands for any order  *)
(* of the maps.  A call to the service may fail; no surfacer repeats it.   *)
(***************************************************************************)
EXTENDS Naturals, Sequences, FiniteSets, SequencesExt

CONSTANTS
  BatchQueueCap,  \* capacity of writeChan
  BatchSize,      \* metrics_batch_size; batchSize for Stackdriver
  MaxEMs          \* bound: EventMetrics written

VARIABLES
  bType,   \* which of the surfacers
  bQueue,  \* writeChan
  bEMs,    \* EventMetrics written, also those that were dropped
  bTodo,   \* data still to be recorded of the EventMetrics taken last
  bCache,  \* metricDatumCache, ddSeriesCache; values of Stackdriver's cache
  bCalls,  \* data of each call made, in order
  bTxns,   \* Postgres transactions neither committed nor rolled back
  bDone,   \* has the goroutine seen its context done?
  bTaken,  \* history: EventMetrics taken from the queue
  bLost    \* history: data in the cache that were thrown away without a call

batchVars == <<bType, bQueue, bEMs, bTodo, bCache, bCalls, bTxns, bDone, bTaken, bLost>>

Names == <<"number", "map.a", "map.b", "dist.1", "dist.2">>

Data(n) == [i \in DOMAIN Names |-> [em |-> n, name |-> Names[i]]]

BatchInit ==
  /\ bType \in {"stackdriver", "cloudwatch", "datadog", "bigquery", "postgres"}
  /\ bQueue = <<>> /\ bEMs = 0 /\ bTodo = <<>> /\ bCache = <<>> /\ bCalls = <<>>
  /\ bTxns = 0 /\ bDone = FALSE /\ bTaken = <<>> /\ bLost = {}

\* Write: a full queue drops the EventMetrics.
BatchWrite ==
  /\ bEMs < MaxEMs
  /\ bEMs' = bEMs + 1
  /\ bQueue' = IF Len(bQueue) < BatchQueueCap THEN Append(bQueue, bEMs') ELSE bQueue
  /\ UNCHANGED <<bType, bTodo, bCache, bCalls, bTxns, bDone, bTaken, bLost>>

\* The goroutine receives from writeChan.
Take(type) ==
  /\ bType = type /\ ~bDone /\ bTodo = <<>> /\ bQueue # <<>>
  /\ bQueue' = Tail(bQueue)
  /\ bTaken' = Append(bTaken, Head(bQueue))
  /\ UNCHANGED <<bType, bEMs, bDone>>

Tick(type) ==
  /\ bType = type /\ ~bDone /\ bTodo = <<>>
  /\ UNCHANGED <<bType, bEMs, bDone>>

BatchCtxDone ==
  /\ ~bDone /\ bTodo = <<>> /\ bDone' = TRUE
  /\ UNCHANGED <<bType, bQueue, bEMs, bTodo, bCache, bCalls, bTxns, bTaken, bLost>>

Chunks(s, size) ==
  [i \in 1 .. (Len(s) + size - 1) \div size |->
     SubSeq(s, (i - 1) * size + 1, IF i * size < Len(s) THEN i * size ELSE Len(s))]

-----------------------------------------------------------------------------
(* CloudWatch and Datadog *)

\* publishMetrics of CloudWatch: whether or not the call fails, the buffer is
\* reset.
CWPublishMetrics(data) == bCalls' = Append(bCalls, data) /\ bCache' = <<>>

\* Mutant of DDPublishMetrics: the cache survives.
DDPublishMetrics_Keeps(data) == bCalls' = Append(bCalls, data) /\ bCache' = data

\* publishMetrics of Datadog, which resets the cache as well.
DDPublishMetrics(data) == bCalls' = Append(bCalls, data) /\ bCache' = <<>>

\* recordEventMetrics of CloudWatch and Datadog: which data the EventMetrics has.
TakeForSeries ==
  /\ Take("cloudwatch") \/ Take("datadog")
  /\ bTodo' = Data(Head(bQueue))
  /\ UNCHANGED <<bCache, bCalls, bTxns, bLost>>

\* addMetricAndPublish of CloudWatch, called for each datum in turn.
CWAddMetricAndPublish ==
  /\ bType = "cloudwatch" /\ bTodo # <<>>
  /\ LET cache == Append(bCache, Head(bTodo))
     IN IF Len(cache) = BatchSize THEN CWPublishMetrics(cache)
        ELSE bCache' = cache /\ UNCHANGED bCalls
  /\ bTodo' = Tail(bTodo)
  /\ UNCHANGED <<bType, bQueue, bEMs, bTxns, bDone, bTaken, bLost>>

\* addMetricsAndPublish of Datadog: one turn of its loop, or the publishing
\* that comes before the turn when the cache is full.
DDAddMetricsAndPublish ==
  /\ bType = "datadog" /\ bTodo # <<>>
  /\ \/ /\ Len(bCache) >= BatchSize
        /\ DDPublishMetrics(bCache)
        /\ UNCHANGED bTodo
     \/ /\ Len(bCache) < BatchSize
        /\ bCache' = Append(bCache, Head(bTodo)) /\ bTodo' = Tail(bTodo)
        /\ UNCHANGED bCalls
  /\ UNCHANGED <<bType, bQueue, bEMs, bTxns, bDone, bTaken, bLost>>

SeriesTick ==
  /\ bCache # <<>>
  /\ \/ Tick("cloudwatch") /\ CWPublishMetrics(bCache)
     \/ Tick("datadog") /\ DDPublishMetrics(bCache)
  /\ UNCHANGED <<bQueue, bTodo, bTxns, bTaken, bLost>>

-----------------------------------------------------------------------------
(* Stackdriver *)

\* The key of the cache has the metric's name and the labels of the
\* EventMetrics.  The keys of a map are not part of it, and a distribution is
\* one series.
CacheKey(datum) ==
  CASE datum.name = "number" -> "number"
    [] datum.name \in {"map.a", "map.b"} -> "map"
    [] datum.name \in {"dist.1", "dist.2"} -> "dist"

\* recordTimeSeries: a series replaces the one cached under its key.
RecordTimeSeries(cache, datum) ==
  Append(SelectSeq(cache, LAMBDA d : CacheKey(d) # CacheKey(datum)), datum)

SDRecordEventMetrics ==
  /\ Take("stackdriver")
  /\ bCache' = FoldLeft(RecordTimeSeries, bCache, Data(Head(bQueue)))
  /\ UNCHANGED <<bTodo, bCalls, bTxns, bLost>>

\* A tick of writeBatch.  Series whose descriptor cannot be created are left
\* out; the others are sent in batches, and all of them are deleted.
SDWriteBatch ==
  /\ Tick("stackdriver") /\ bCache # <<>>
  /\ \E failed \in SUBSET Range(bCache) :
       /\ bCalls' = bCalls \o Chunks(SelectSeq(bCache, LAMBDA d : d \notin failed), BatchSize)
       /\ bLost' = bLost \union failed
  /\ bCache' = <<>>
  /\ UNCHANGED <<bQueue, bTodo, bTxns, bTaken>>

-----------------------------------------------------------------------------
(* BigQuery and Postgres *)

\* distToBqMetrics: the rows of sum and count share one map, so that both hold
\* the count.
BQRow(datum) == [datum EXCEPT !.name = IF @ = "dist.1" THEN "dist.2" ELSE @]

\* parseBQCols; bad: the EventMetrics with a label that does not convert.
ParseBQCols(n, bad) ==
  IF n \in bad THEN <<>> ELSE [i \in DOMAIN Names |-> BQRow(Data(n)[i])]

\* batchInsertRowsToBQ at a tick: what is in the queue, batch by batch.
BatchInsertRowsToBQ ==
  /\ Tick("bigquery")
  /\ \E bad \in SUBSET Range(bQueue) :
       LET Rows(batch) == FlattenSeq([i \in DOMAIN batch |-> ParseBQCols(batch[i], bad)])
           batches     == Chunks(bQueue, BatchSize)
       IN /\ bCalls' = bCalls \o SelectSeq([i \in DOMAIN batches |-> Rows(batches[i])],
                                           LAMBDA rows : rows # <<>>)
          /\ bLost' = bLost \union UNION {Range(Data(n)) : n \in bad}
  /\ bTaken' = bTaken \o bQueue /\ bQueue' = <<>>
  /\ UNCHANGED <<bTodo, bCache, bTxns>>

\* writeMetrics: one transaction for each EventMetrics.  Only a Commit, or a
\* Begin that fails, leaves no transaction open.
PGWriteMetrics ==
  /\ Take("postgres")
  /\ \/ bCalls' = Append(bCalls, Data(Head(bQueue))) /\ UNCHANGED <<bTxns, bLost>>
     \/ /\ bTxns' \in {bTxns, bTxns + 1}
        /\ bLost' = bLost \union Range(Data(Head(bQueue)))
        /\ UNCHANGED bCalls
  /\ UNCHANGED <<bTodo, bCache>>

BatchNext ==
  \/ BatchWrite \/ BatchCtxDone
  \/ TakeForSeries \/ CWAddMetricAndPublish \/ DDAddMetricsAndPublish \/ SeriesTick
  \/ SDRecordEventMetrics \/ SDWriteBatch \/ BatchInsertRowsToBQ \/ PGWriteMetrics

-----------------------------------------------------------------------------
(* Properties *)

AllData(ems) == FlattenSeq([i \in DOMAIN ems |-> Data(ems[i])])

\* Every datum of an EventMetrics that was taken from the queue is in one call
\* only, and in the order of the EventMetrics: CloudWatch and Datadog send all of
\* them, or have them cached, in calls of at most a batch;
\* BigQuery and Postgres send those they do not lose, a whole EventMetrics at a
\* time; Stackdriver sends a newer value of each series with each call, having
\* the last one cached, sent or lost with its descriptor.
BatchesAccounted ==
  LET sent == FlattenSeq(bCalls)
      Kept(data) == SelectSeq(data, LAMBDA d : d \notin bLost)
  IN CASE bType \in {"cloudwatch", "datadog"} ->
            /\ sent \o bCache \o bTodo = AllData(bTaken)
            /\ \A i \in DOMAIN bCalls : Len(bCalls[i]) \in 1 .. BatchSize
       [] bType = "bigquery" ->
            /\ sent = [i \in DOMAIN Kept(AllData(bTaken)) |-> BQRow(Kept(AllData(bTaken))[i])]
            /\ \A i \in DOMAIN bCalls :
                 Len(bCalls[i]) \in {n * Len(Names) : n \in 1 .. BatchSize}
       [] bType = "postgres" -> sent = Kept(AllData(bTaken))
       [] bType = "stackdriver" ->
            /\ \A i \in DOMAIN bCalls : Len(bCalls[i]) \in 1 .. BatchSize
            /\ \A i, j \in DOMAIN (sent \o bCache) :
                 LET d == sent \o bCache
                 IN i < j /\ CacheKey(d[i]) = CacheKey(d[j]) => d[i].em < d[j].em
            /\ bTaken # <<>> =>
                 \A name \in {"number", "map.b", "dist.2"} :
                   [em |-> Last(bTaken), name |-> name] \in Range(sent \o bCache) \union bLost
=============================================================================
