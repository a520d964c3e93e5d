--------------------------- MODULE SurfacerWrapper ---------------------------
(***************************************************************************)
(* surfacerWrapper.Write for one surfacer with export_as_gauge, and the    *)
(* loop of a target that exports to it.  An EventMetrics copies total and  *)
(* success of the loop's result, but shares its latency: the loop goes on  *)
(* adding to it while the EventMetrics is filtered, given a failure        *)
(* metric, and turned into a gauge by subtracting the copy cached of the   *)
(* one before.  When the target comes back, a new loop counts from 0.      *)
(*                                                                         *)
(* Next to it, the metric that goroutines may share: an AtomicInt, which   *)
(* others add to while its last value, shared too, is subtracted from it.  *)
(***************************************************************************)
EXTENDS Integers, FiniteSets

CONSTANTS
  Labels,    \* label keys of the EventMetrics -> value
  Filters,   \* label filters, [key, value]
  MaxProbes, \* bound: probes of a loop
  MaxEvents, \* bound: EventMetrics exported
  Deltas,    \* what is added to an AtomicInt
  MaxAdds    \* bound: additions to the AtomicInts

\* Counters only grow.
ASSUME DeltasAssumption == Deltas \subseteq Nat

VARIABLES
  wAllow, wIgnore,  \* allow_metrics_with_label and ignore_metrics_with_label
  wAddFailure,      \* add_failure_metric
  wLoop,            \* total, success and latency in the loop's result
  wPc,              \* Write: "idle", "cache" or "subtract"
  wEM,              \* total, success and failure of the EventMetrics
  wLast,            \* the cached EventMetrics that was the last one
  wCache,           \* lvCache of the EventMetrics' key
  wSum,             \* history: the sums of what the surfacer was given
  wSeen,            \* history: what the exported EventMetrics counted
  wBase,            \* history: the loop's values that were seen already
  wFresh,           \* history: has the loop not exported yet, and another one has?
  wOdd,             \* history: was a new loop taken for the old one?
  wRaced,           \* history: did the loop go on in the middle of Write?
  wEvents           \* EventMetrics exported

wrapVars == <<wAllow, wIgnore, wAddFailure, wLoop, wPc, wEM, wLast, wCache, wSum, wSeen,
              wBase, wFresh, wOdd, wRaced, wEvents>>

Counters == {"total", "success", "failure", "latency"}
Zero == [c \in Counters |-> 0]
NoEM == [c \in {} |-> 0]  \* nothing cached

WrapInit ==
  /\ wAllow \in SUBSET Filters /\ wIgnore \in SUBSET Filters /\ wAddFailure \in BOOLEAN
  /\ wLoop = Zero /\ wPc = "idle" /\ wEM = Zero /\ wLast = NoEM /\ wCache = NoEM
  /\ wSum = Zero /\ wSeen = Zero /\ wBase = Zero
  /\ wFresh = FALSE /\ wOdd = FALSE /\ wRaced = FALSE /\ wEvents = 0

MatchEventMetrics(f) ==
  f.key \in DOMAIN Labels /\ (f.value = "" \/ f.value = Labels[f.key])

AllowEventMetrics ==
  /\ \A f \in wIgnore : ~MatchEventMetrics(f)
  /\ wAllow = {} \/ \E f \in wAllow : MatchEventMetrics(f)

\* AddFailureMetric: without it there is no such metric.
AddFailureMetric(em) ==
  IF wAddFailure THEN [em EXCEPT !.failure = em.total - em.success] ELSE em

\* The loop runs a probe: the latency of a success is added.
LoopRun ==
  /\ wLoop.total < MaxProbes
  /\ \E ok \in {0, 1} :
       wLoop' = [wLoop EXCEPT !.total = @ + 1, !.success = @ + ok, !.latency = @ + ok]
  /\ wRaced' = (wRaced \/ (wPc = "subtract" /\ wLoop'.latency # wLoop.latency))
  /\ UNCHANGED <<wAllow, wIgnore, wAddFailure, wPc, wEM, wLast, wCache, wSum, wSeen, wBase,
                 wFresh, wOdd, wEvents>>

\* The target is removed and comes back.
LoopRestart ==
  /\ wPc = "idle"
  /\ wLoop # Zero
  /\ wLoop' = Zero /\ wBase' = Zero /\ wFresh' = (wCache # NoEM)
  /\ UNCHANGED <<wAllow, wIgnore, wAddFailure, wPc, wEM, wLast, wCache, wSum, wSeen, wOdd,
                 wRaced, wEvents>>

\* The values of the EventMetrics, when they are read now.
Now(em) == [em EXCEPT !.latency = wLoop.latency]

\* Write: filters and failure metric.
WrapWrite ==
  /\ wPc = "idle" /\ wEvents < MaxEvents /\ wEvents' = wEvents + 1
  /\ IF AllowEventMetrics
     THEN wPc' = "cache" /\ wEM' = AddFailureMetric([wLoop EXCEPT !.failure = 0])
     ELSE UNCHANGED <<wPc, wEM>>
  /\ UNCHANGED <<wAllow, wIgnore, wAddFailure, wLoop, wLast, wCache, wSum, wSeen, wBase,
                 wFresh, wOdd, wRaced>>

Surfaced(gauge) == wSum' = [c \in Counters |-> wSum[c] + gauge[c]]

\* Mutant of CumulativeToGauge: only the first EventMetrics is cached.
CumulativeToGauge_CacheOnce ==
  /\ wLast' = wCache
  /\ wCache' = IF wCache = NoEM THEN Now(wEM) ELSE wCache

\* CumulativeToGauge, its use of the cache: a copy replaces the last one.
CumulativeToGauge ==
  /\ wLast' = wCache
  /\ wCache' = Now(wEM)

\* CumulativeToGauge up to SubtractLast: the first EventMetrics is surfaced as
\* it is.
WrapCache ==
  /\ wPc = "cache"
  /\ CumulativeToGauge
  /\ IF wCache = NoEM THEN wPc' = "idle" /\ Surfaced(Now(wEM))
                      ELSE wPc' = "subtract" /\ UNCHANGED wSum
  /\ LET em == Now(wEM)
     IN /\ wSeen' = [c \in Counters |-> wSeen[c] + em[c] - wBase[c]]
        /\ wBase' = em
  /\ UNCHANGED <<wAllow, wIgnore, wAddFailure, wLoop, wEM, wFresh, wOdd, wRaced, wEvents>>

\* SubtractLast: any counter that decreased is a reset of all of them.
WasReset(em, last) == \E c \in Counters : em[c] < last[c]

SubtractLast(em, last) ==
  IF WasReset(em, last) THEN em ELSE [c \in Counters |-> em[c] - last[c]]

WrapSubtract ==
  /\ wPc = "subtract" /\ wPc' = "idle"
  /\ Surfaced(SubtractLast(Now(wEM), wLast))
  /\ wFresh' = FALSE
  /\ wOdd' = (wOdd \/ (wFresh /\ ~WasReset(Now(wEM), wLast)))
  /\ UNCHANGED <<wAllow, wIgnore, wAddFailure, wLoop, wEM, wLast, wCache, wSeen, wBase,
                 wRaced, wEvents>>

WrapNext == LoopRun \/ LoopRestart \/ WrapWrite \/ WrapCache \/ WrapSubtract

WrapSpec == WrapInit /\ [][WrapNext]_wrapVars

-----------------------------------------------------------------------------
(* AtomicInt *)

VARIABLES
  nVal, nLast,  \* the AtomicInt and the last value, another one
  nPc,          \* SubtractCounter: "idle", "loaded" or "compare"
  nValS, nLvS,  \* its snapshots
  nAdds,        \* additions so far
  nAdded,       \* history: the sum of what was added to the AtomicInt
  nGone,        \* history: the sum of what was subtracted
  nMissed       \* history: the sum of what was added since it was loaded

atomicVars == <<nVal, nLast, nPc, nValS, nLvS, nAdds, nAdded, nGone, nMissed>>

AtomicInit ==
  /\ nVal = 0 /\ nLast = 0 /\ nPc = "idle" /\ nValS = 0 /\ nLvS = 0 /\ nAdds = 0
  /\ nAdded = 0 /\ nGone = 0 /\ nMissed = 0

\* Inc, IncBy, Add, AddInt64 and AddFloat64 of a counter.
AtomicAdd(delta) ==
  /\ nAdds < MaxAdds /\ nAdds' = nAdds + 1
  /\ nVal' = nVal + delta /\ nAdded' = nAdded + delta
  /\ nMissed' = IF nPc = "idle" THEN nMissed ELSE nMissed + delta
  /\ UNCHANGED <<nLast, nPc, nValS, nLvS, nGone>>

LastAdd(delta) ==
  /\ nAdds < MaxAdds /\ nAdds' = nAdds + 1
  /\ nLast' = nLast + delta
  /\ UNCHANGED <<nVal, nPc, nValS, nLvS, nAdded, nGone, nMissed>>

\* SubtractCounter loads one, then the other.
AtomicLoad ==
  /\ nPc = "idle" /\ nPc' = "loaded"
  /\ nValS' = nVal /\ nMissed' = 0
  /\ UNCHANGED <<nVal, nLast, nLvS, nAdds, nAdded, nGone>>

AtomicLoadLast ==
  /\ nPc = "loaded" /\ nPc' = "compare"
  /\ nLvS' = nLast
  /\ UNCHANGED <<nVal, nLast, nValS, nAdds, nAdded, nGone, nMissed>>

\* It returns a reset, or stores the difference of the snapshots over what the
\* AtomicInt is by now.
AtomicStore ==
  /\ nPc = "compare" /\ nPc' = "idle"
  /\ IF nValS < nLvS THEN UNCHANGED <<nVal, nGone>>
     ELSE nVal' = nValS - nLvS /\ nGone' = nGone + nLvS + nMissed
  /\ UNCHANGED <<nLast, nValS, nLvS, nAdds, nAdded, nMissed>>

AtomicNext ==
  \/ \E delta \in Deltas : AtomicAdd(delta) \/ LastAdd(delta)
  \/ AtomicLoad \/ AtomicLoadLast \/ AtomicStore

AtomicSpec == AtomicInit /\ [][AtomicNext]_atomicVars

-----------------------------------------------------------------------------
(* Properties *)

\* The gauges given to the surfacer add up to what the exported EventMetrics
\* counted, whatever filters and whatever loops took turns, unless a new loop
\* was already at least as far as the old one when it exported first.  The
\* shared latency adds up only if the loop added none of it in the middle of
\* Write; otherwise the sum is too high, never too low.  Nothing is surfaced of
\* EventMetrics that the filters do not allow.
WrapperAddsUp ==
  /\ ~AllowEventMetrics => wSum = Zero
  /\ wPc # "subtract" /\ ~wOdd =>
       /\ \A c \in Counters \ {"latency"} : wSum[c] = wSeen[c]
       /\ wSum.latency >= wSeen.latency
       /\ ~wRaced => wSum.latency = wSeen.latency

\* AtomicInt.SubtractCounter never makes a value negative, although neither AtomicInt
\* stands still meanwhile; what is gone from the counter is the last value and
\* what was added after it was loaded, and nothing else is lost or counted twice.
AtomicAddsUp ==
  /\ nVal >= 0
  /\ nVal + nGone = nAdded

\* Counters turned into gauges add up, those of surfacerWrapper.Write as well as
\* the AtomicInts that goroutines share.
GaugesAddUp == WrapperAddsUp /\ AtomicAddsUp
=============================================================================
