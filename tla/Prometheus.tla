----------------------------- MODULE Prometheus -----------------------------
(***************************************************************************)
(* The Prometheus surfacer: one goroutine records EventMetrics, serves     *)
(* queries and deletes what expired, one thing at a time.  The model is of *)
(* one metric name; a key is a combination of labels.  Its data points are *)
(* in a map, and their order in a slice of keys beside it.  Handlers of    *)
(* queries wait for the goroutine, also after it has ended.                *)
(***************************************************************************)
EXTENDS Naturals, Sequences, FiniteSets, FiniteSetsExt, Functions

CONSTANTS
  Keys,         \* combinations of labels
  PromCap,      \* metrics_buffer_size
  Expiration,   \* metricExpirationTime
  MaxTime,      \* bound: the clock
  MaxRecords,   \* bound: EventMetrics written
  MaxQueries    \* bound: queries waiting

ASSUME ExpirationAssumption == Expiration \in Nat

VARIABLES
  pNow,       \* clock
  pChan,      \* emChan: EventMetrics as [key, value, timestamp]
  pRecords,   \* EventMetrics written; the value of each is its number
  pData,      \* pm.data, key -> [value, timestamp]
  pDataKeys,  \* pm.dataKeys
  pTick,      \* when the expiration ticker fired last
  pWaiting,   \* handlers waiting for their response
  pDone,      \* has the goroutine ended with its context?
  pLast       \* history: data point of each key recorded last, with the time

promVars == <<pNow, pChan, pRecords, pData, pDataKeys, pTick, pWaiting, pDone, pLast>>

PromInit ==
  /\ pNow = 0 /\ pChan = <<>> /\ pRecords = 0 /\ pTick = 0
  /\ pData = << >> /\ pDataKeys = <<>> /\ pLast = << >>
  /\ pWaiting = 0 /\ pDone = FALSE

PromClock ==
  /\ pNow < MaxTime /\ pNow' = pNow + 1
  /\ UNCHANGED <<pChan, pRecords, pData, pDataKeys, pTick, pWaiting, pDone, pLast>>

\* Write: a full channel drops the EventMetrics.
PromWrite(key) ==
  /\ pRecords < MaxRecords
  /\ pRecords' = pRecords + 1
  /\ pChan' = IF Len(pChan) < PromCap
              THEN Append(pChan, [key |-> key, value |-> pRecords', timestamp |-> pNow])
              ELSE pChan
  /\ UNCHANGED <<pNow, pData, pDataKeys, pTick, pWaiting, pDone, pLast>>

\* recordMetric: the data point of a key is replaced, a new key goes last.
RecordMetric(em) ==
  LET point == [value |-> em.value, timestamp |-> em.timestamp]
  IN /\ pData' = [k \in DOMAIN pData \union {em.key} |->
                    IF k = em.key THEN point ELSE pData[k]]
     /\ pDataKeys' = IF em.key \in DOMAIN pData THEN pDataKeys
                     ELSE Append(pDataKeys, em.key)
     /\ pLast' = [k \in DOMAIN pLast \union {em.key} |->
                    IF k = em.key THEN [point |-> point, at |-> pNow] ELSE pLast[k]]

PromRecord ==
  /\ ~pDone /\ pChan # <<>>
  /\ pChan' = Tail(pChan)
  /\ RecordMetric(Head(pChan))
  /\ UNCHANGED <<pNow, pRecords, pTick, pWaiting, pDone>>

\* The handler of the URL: a query is queued and its response waited for.
PromQuery ==
  /\ pWaiting < MaxQueries
  /\ pWaiting' = pWaiting + 1
  /\ UNCHANGED <<pNow, pChan, pRecords, pData, pDataKeys, pTick, pDone, pLast>>

\* writeData, which looks up each of the keys in the map and ends in a panic at
\* one that has no data point.
WriteData ==
  /\ ~pDone /\ pWaiting > 0
  /\ pWaiting' = pWaiting - 1
  /\ UNCHANGED <<pNow, pChan, pRecords, pData, pDataKeys, pTick, pDone, pLast>>

\* Mutant of DeleteFromSlice: the keys keep what is not in the map any more.
DeleteFromSlice_Keeps(slice, target) == slice

\* deleteFromSlice: the first element that is the target goes.
DeleteFromSlice(slice, target) ==
  LET targets == {i \in DOMAIN slice : slice[i] = target}
  IN IF targets = {} THEN slice
     ELSE [j \in 1 .. Len(slice) - 1 |->
             IF j < Min(targets) THEN slice[j] ELSE slice[j + 1]]

\* Slices that a range over a map may fill with these keys: all of them, in any
\* order, in no more elements than there are keys.
RangeOrders(keys) ==
  {f \in UNION {[1 .. n -> keys] : n \in 0 .. Cardinality(keys)} : Range(f) = keys}

\* One expired key after the other.
DeleteMetric(pm, key) ==
  [data |-> [k \in DOMAIN pm.data \ {key} |-> pm.data[k]],
   keys |-> DeleteFromSlice(pm.keys, key)]

DeleteMetrics(pm, keys) ==
  MapThenFoldSet(LAMBDA k, r : DeleteMetric(r, k), pm, LAMBDA i : keys[i], Max, DOMAIN keys)

\* deleteExpiredMetrics, at each tick.
DeleteExpiredMetrics ==
  /\ ~pDone /\ pNow >= pTick + Expiration
  /\ \E expired \in RangeOrders({k \in DOMAIN pData :
                                   pData[k].timestamp + Expiration < pNow}) :
       LET pm == DeleteMetrics([data |-> pData, keys |-> pDataKeys], expired)
       IN pData' = pm.data /\ pDataKeys' = pm.keys
  /\ pTick' = pNow
  /\ UNCHANGED <<pNow, pChan, pRecords, pWaiting, pDone, pLast>>

PromCtxDone ==
  /\ ~pDone /\ pDone' = TRUE
  /\ UNCHANGED <<pNow, pChan, pRecords, pData, pDataKeys, pTick, pWaiting, pLast>>

PromNext ==
  \/ PromClock \/ PromRecord \/ PromQuery \/ WriteData \/ DeleteExpiredMetrics \/ PromCtxDone
  \/ \E key \in Keys : PromWrite(key)

PromSpec == PromInit /\ [][PromNext]_promVars

-----------------------------------------------------------------------------
(* Properties *)

\* The slice of keys has each key of the map once, so that writeData finds a
\* data point for it and serves it once; the data point is the one recorded
\* last.  A key is missing only after a tick at which its last data point was
\* too old, and a data point that was too old at a tick is gone: a key that
\* expires and comes back is served again.
PromKeysInStep ==
  /\ Range(pDataKeys) = DOMAIN pData /\ IsInjective(pDataKeys)
  /\ DOMAIN pData \subseteq DOMAIN pLast
  /\ \A k \in DOMAIN pLast :
       LET last == pLast[k]
           old  == last.point.timestamp + Expiration < pTick
       IN /\ k \in DOMAIN pData => pData[k] = last.point
          /\ k \notin DOMAIN pData => old
          /\ old /\ last.at < pTick => k \notin DOMAIN pData
=============================================================================
