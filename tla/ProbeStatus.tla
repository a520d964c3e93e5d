----------------------------- MODULE ProbeStatus -----------------------------
(***************************************************************************)
(* The probestatus surfacer, for one probe.  For each target it keeps a    *)
(* timeseries: a ring of buckets, one for each interval of the resolution  *)
(* that has data.  A page request makes the table, from the bucket of some *)
(* intervals ago, drops targets without recent data, and makes the graph.  *)
(* A datum is its number among those of the target.                        *)
(***************************************************************************)
EXTENDS Integers, Sequences, FiniteSets

LOCAL INSTANCE FiniteSetsExt

CONSTANTS
  Dsts,          \* targets
  RingSize,      \* timeseries_size
  Res,           \* resolution
  BaseDurations, \* baseDurations
  DropAfter,     \* dropAfterNoDataFor
  CacheTime,     \* cache_time_sec
  MaxDsts,       \* max_targets_per_probe
  StatusData,    \* number of a datum -> [total, success]
  GraphLimits,   \* graphResolution: durations (12h, 72h) up to which the graph has
  GraphSteps,    \*   these resolutions (1m, 5m), and the one (15m) beyond them
  GraphQueries,  \* [end, duration, res] of the URL's parameters
  NoParam,       \* a parameter that is not there, or does not parse
  MaxClock,      \* bound: the clock
  MaxPoints      \* bound: EventMetrics of each target

\* A ring without a bucket cannot take a datum; newTimeseries replaces a zero
\* resolution.
ASSUME RingAssumption == RingSize \in Nat \ {0} /\ Res \in Nat \ {0}

VARIABLES
  sNow,      \* clock
  sSeries,   \* metrics[probe]: target -> timeseries
  sTargets,  \* probeTargets[probe]
  sCached,   \* cachedTime of the page; 0: none
  sPoints,   \* EventMetrics of each target so far
  sHist      \* history: for each target, the last datum of each of its buckets

statusVars == <<sNow, sSeries, sTargets, sCached, sPoints, sHist>>

\* A loop of n turns.
Loop(turn(_, _), acc, n) ==
  MapThenFoldSet(LAMBDA i, r : turn(r, i), acc, LAMBDA i : i, Max, 1 .. n)

StatusInit ==
  /\ sNow = Res /\ sSeries = << >> /\ sTargets = <<>> /\ sCached = 0
  /\ sPoints = [t \in Dsts |-> 0] /\ sHist = [t \in Dsts |-> <<>>]

StatusClock ==
  /\ sNow < MaxClock /\ sNow' = sNow + 1
  /\ UNCHANGED <<sSeries, sTargets, sCached, sPoints, sHist>>

-----------------------------------------------------------------------------
(* timeseries.go *)

NoTime == 0  \* the zero time

NewTimeseries == [a |-> [i \in 0 .. RingSize - 1 |-> 0], latest |-> 0, oldest |-> 0,
                  currentTS |-> NoTime, startTime |-> sNow]

Truncate(t) == t - (t % Res)

\* Does a datum of time t need a new bucket?
NeedsBucket(ts, t) == Truncate(t) > ts.currentTS /\ ts.currentTS # NoTime

AddDatum(ts, t, d) ==
  LET latest == IF NeedsBucket(ts, t) THEN (ts.latest + 1) % RingSize ELSE ts.latest
      oldest == IF NeedsBucket(ts, t) /\ latest = ts.oldest
                THEN (latest + 1) % RingSize ELSE ts.oldest
  IN IF t > ts.currentTS
     THEN [ts EXCEPT !.latest = latest, !.oldest = oldest, !.currentTS = Truncate(t),
                     !.a[latest] = d]
     ELSE ts

\* Mutant of AgoIndex: the wrapped part of the ring is one longer.
AgoIndex_OffByOne(ts, n) ==
  IF ts.oldest <= ts.latest
  THEN IF ts.latest < ts.oldest + n THEN ts.oldest ELSE ts.latest - n
  ELSE IF n <= ts.latest THEN ts.latest - n
  ELSE (RingSize + ts.latest - (IF n > RingSize THEN RingSize ELSE n)) % RingSize

AgoIndex(ts, n) ==
  IF ts.oldest <= ts.latest
  THEN IF ts.latest < ts.oldest + n THEN ts.oldest ELSE ts.latest - n
  ELSE IF n <= ts.latest THEN ts.latest - n
  ELSE RingSize + ts.latest - (IF n > RingSize - 1 THEN RingSize - 1 ELSE n)

\* Of a ring that has turned, all of it.
Size(ts) == IF ts.oldest <= ts.latest THEN ts.latest - ts.oldest ELSE RingSize

\* computeDelta: -1, for no data.
NoData(ts, td) == sNow - ts.currentTS > td + 2 * Res

-----------------------------------------------------------------------------
(* probestatus.go *)

\* record, for an EventMetrics of target dst and time t.
StatusRecord(dst, t) ==
  LET known  == dst \in DOMAIN sSeries
      ts     == IF known THEN sSeries[dst] ELSE NewTimeseries
      hist   == IF known THEN sHist[dst] ELSE <<>>
      d      == sPoints[dst] + 1
  IN /\ sPoints[dst] < MaxPoints[dst]
     /\ sPoints' = [sPoints EXCEPT ![dst] = d]
     /\ IF known \/ Cardinality(DOMAIN sSeries) < MaxDsts
        THEN /\ sSeries' = [x \in DOMAIN sSeries \union {dst} |->
                              IF x = dst THEN AddDatum(ts, t, d) ELSE sSeries[x]]
             /\ sTargets' = IF known THEN sTargets ELSE Append(sTargets, dst)
             /\ sHist' = [sHist EXCEPT ![dst] =
                            IF t <= ts.currentTS THEN hist
                            ELSE IF hist = <<>> \/ NeedsBucket(ts, t) THEN Append(hist, d)
                            ELSE [hist EXCEPT ![Len(hist)] = d]]
        ELSE UNCHANGED <<sSeries, sTargets, sHist>>
     /\ UNCHANGED <<sNow, sCached>>

MaxDuration == RingSize * Res

\* dashboardDurations: dashDurations.
Durations == {td \in BaseDurations : td <= MaxDuration} \union {MaxDuration}

\* What statusTable decides of one target: the durations it looks at are those
\* up to the first that is longer than the timeseries exists.
Shown(ts) == {td \in Durations : \A e \in Durations : e < td => e <= sNow - ts.startTime}

Dropped(ts) ==
  \/ \E td \in Shown(ts) : NoData(ts, td) /\ td >= DropAfter
  \/ \A td \in Shown(ts) : NoData(ts, td)

\* deleteTargetWithNoLock, on the slice that statusTable ranges over: the rest
\* of the slice moves up, under the loop.  all: the slice of the range, of
\* which the first n are probeTargets.
DeleteTarget(s, dst) ==
  LET i == CHOOSE j \in 1 .. s.n : s.all[j] = dst
  IN [all |-> [j \in DOMAIN s.all |-> IF j >= i /\ j < s.n THEN s.all[j + 1] ELSE s.all[j]],
      n   |-> s.n - 1, gone |-> s.gone \union {dst}]

\* The turn of statusTable's loop for the i-th entry of the slice.
TableRow(s, i) ==
  LET dst == s.all[i]
  IN IF dst \notin s.gone /\ Dropped(sSeries[dst]) THEN DeleteTarget(s, dst) ELSE s

StatusTable ==
  Loop(TableRow, [all |-> sTargets, n |-> Len(sTargets), gone |-> {}], Len(sTargets))

\* writeData, for a request: a valid page of the cache is written as it is.
StatusWriteData ==
  /\ sCached = 0 \/ sNow - sCached > CacheTime
  /\ LET table == StatusTable
     IN /\ sTargets' = SubSeq(table.all, 1, table.n)
        /\ sSeries' = [t \in DOMAIN sSeries \ table.gone |-> sSeries[t]]
  /\ sCached' = sNow
  /\ UNCHANGED <<sNow, sPoints, sHist>>

-----------------------------------------------------------------------------
(* graph.go *)

\* The process started at Res, the first time of the clock.
GraphResolution(end, td) ==
  LET d == IF end - Res < td THEN end - Res ELSE td
  IN IF d <= GraphLimits[1] THEN GraphSteps[1]
     ELSE IF d <= GraphLimits[2] THEN GraphSteps[2] ELSE GraphSteps[3]

GraphOptsFromURL(q) ==
  LET end == IF q.end = NoParam THEN sNow ELSE q.end
      dur == IF q.duration = NoParam THEN MaxDuration ELSE q.duration
  IN [end |-> end, duration |-> dur,
      res |-> IF q.res \in {NoParam, 0} THEN GraphResolution(end, dur) ELSE q.res]

NoGraph == [points |-> <<>>, start |-> NoTime, end |-> NoTime]

\* The success and the total between two data: their quotient is the value.
Rate(d, last) == <<StatusData[d].success - StatusData[last].success, StatusData[d].total - StatusData[last].total>>

\* 0 / 0 is NaN, which is not even equal to itself.
NaN(rate) == rate[2] = 0
SameRate(v, w) == ~NaN(v) /\ ~NaN(w) /\ v[1] * w[2] = w[1] * v[2]

\* A turn of computeGraphPoints' loop, which goes back in time: g has the place
\* reached and the points, of a value and how often it is there in a row.
GraphPoint(ts, step, g) ==
  LET prev == AgoIndex([ts EXCEPT !.latest = g.latest], step)
      val  == Rate(ts.a[g.latest], ts.a[prev])
  IN IF g.latest = ts.oldest THEN g
     ELSE [latest |-> prev,
           points |-> IF g.points # <<>> /\ SameRate(val, Head(g.points).val)
                      THEN [g.points EXCEPT ![1].freq = @ + 1]
                      ELSE <<[val |-> val, freq |-> 1]>> \o g.points]

\* Where the graph ends, and where it starts, in the ring.
GraphEnd(ts, opts) ==
  IF opts.end < ts.currentTS
  THEN [ts EXCEPT !.latest = AgoIndex(ts, (ts.currentTS - opts.end) \div Res)] ELSE ts

GraphStart(ts, opts) ==
  IF opts.duration \div Res < Size(ts)
  THEN [ts EXCEPT !.oldest = AgoIndex(ts, opts.duration \div Res)] ELSE ts

Step(opts) == IF opts.res < Res THEN 1 ELSE opts.res \div Res

ComputeGraphPoints(ts, opts) ==
  LET ended == GraphEnd(ts, opts)
      end   == IF opts.end < ts.currentTS THEN opts.end ELSE ts.currentTS
      cut   == GraphStart(ended, opts)
  IN IF opts.duration < Res \/ ended.latest = ended.oldest THEN NoGraph
     ELSE [points |-> Loop(LAMBDA g, i : GraphPoint(cut, Step(opts), g),
                           [latest |-> cut.latest, points |-> <<>>],
                           Size(cut) \div Step(opts)).points,
           start  |-> end - (IF opts.duration \div Res < Size(ended) THEN opts.duration
                             ELSE Size(ended) * Res),
           end    |-> end]

\* syncGraphLines: lines that start later or end earlier than another get a value
\* of -1 in its place.  A resolution is whole seconds, and at least one.
Pad(n) == <<[val |-> <<-1, 1>>, freq |-> n]>>

SyncGraphLines(lines, opts) ==
  LET start == Min({lines[t].start : t \in DOMAIN lines})
      end   == Max({lines[t].end : t \in DOMAIN lines})
      Left(t)  == lines[t].start - start
      Right(t) == end - lines[t].end
  IN [t \in DOMAIN lines |->
        (IF Left(t) > 0 THEN Pad(Left(t) \div opts.res) ELSE <<>>) \o lines[t].points
          \o (IF Right(t) > 0 THEN Pad(Right(t) \div opts.res) ELSE <<>>)]

\* computeGraphData, for the targets that have points.
ComputeGraphData(opts) ==
  LET points == [t \in DOMAIN sSeries |-> ComputeGraphPoints(sSeries[t], opts)]
      shown  == {t \in DOMAIN points : points[t] # NoGraph}
  IN SyncGraphLines([t \in shown |-> points[t]], opts)

\* JSONBytes, which has no form for NaN: then the page has no graph at all.
Encodes(gd) == \A t \in DOMAIN gd : \A i \in DOMAIN gd[t] : ~NaN(gd[t][i].val)

StatusNext ==
  \/ StatusClock \/ StatusWriteData
  \/ \E dst \in Dsts, late \in {0, 1} : sNow >= Res + late /\ StatusRecord(dst, sNow - late)

-----------------------------------------------------------------------------
(* Properties *)

\* Reference: the bucket n before the last, or the oldest of the last RingSize.
Ago(hist, n) ==
  LET back == CHOOSE m \in 0 .. n :
                /\ m < Len(hist) /\ m < RingSize
                /\ m = n \/ m + 1 = Len(hist) \/ m + 1 = RingSize
  IN hist[Len(hist) - back]

\* The ring of target t gives for n the bucket n intervals before its last.
RingRight(t, n) == sSeries[t].a[AgoIndex(sSeries[t], n)] = Ago(sHist[t], n)

\* Reference: the buckets between the end of the graph and the oldest one.
Kept(hist) == IF Len(hist) < RingSize THEN Len(hist) - 1 ELSE RingSize - 1
Before(ts, opts) == IF opts.end < ts.currentTS THEN (ts.currentTS - opts.end) \div Res ELSE 0

\* Reference: the k-th last point of the graph.
PointRate(hist, ts, opts, k) ==
  Rate(Ago(hist, Before(ts, opts) + k * Step(opts)), Ago(hist, Before(ts, opts) + (k + 1) * Step(opts)))

\* The values of a line, each as often as it is there.
Spread(points) ==
  Loop(LAMBDA values, i : values \o [j \in 1 .. points[i].freq |-> points[i].val],
       <<>>, Len(points))

\* The line of a target has the rates of its buckets, from the end of the graph
\* back to its start and no further.  agoIndex knows nothing of a start or an end
\* in the middle of a ring that has turned: then there may be points before the
\* start, and for an end in the past the points may be of other data.
LineIsRight(t, opts) ==
  LET ts     == sSeries[t]
      values == Spread(ComputeGraphPoints(ts, opts).points)
      kept   == Kept(sHist[t]) - Before(ts, opts)
      window == IF opts.duration \div Res < kept THEN opts.duration \div Res ELSE kept
      shown  == IF window > 0 THEN window \div Step(opts) ELSE 0
  IN ts.oldest <= ts.latest \/ Before(ts, opts) = 0 =>
       /\ Len(values) >= shown
       /\ ts.oldest <= ts.latest => Len(values) = shown
       /\ \A k \in 0 .. shown - 1 :
            LET rate == PointRate(sHist[t], ts, opts, k)
            IN \/ values[Len(values) - k] = rate
               \/ SameRate(values[Len(values) - k], rate)

\* Has every interval of the target, from its first, a bucket?
Gapless(t) ==
  LET ts == sSeries[t]
  IN /\ ts.oldest <= ts.latest
     /\ ts.currentTS - Truncate(ts.startTime) = Res * (Len(sHist[t]) - 1)

\* Lines without gaps in their data are of the same length, padding included.
LinesAlign(opts) ==
  LET gd == ComputeGraphData(opts)
      Length(t) == Len(Spread(gd[t]))
  IN opts.res = Res /\ opts.end >= sNow /\ opts.duration % Res = 0
       /\ Cardinality(DOMAIN sSeries) > 1 =>
       \A t, u \in DOMAIN gd : Gapless(t) /\ Gapless(u) => Length(t) = Length(u)

\* The graph is there when probes ran between any two buckets of each target.
GraphThere(opts) ==
  (\A t \in DOMAIN sSeries : \A i, j \in DOMAIN sHist[t] :
     i # j => StatusData[sHist[t][i]].total # StatusData[sHist[t][j]].total)
  => Encodes(ComputeGraphData(opts))

\* The ring gives for each number of intervals the bucket that many back, or the
\* oldest that it keeps, however often it rotated and whatever buckets are
\* missing.  The targets' slice has each target that has a timeseries once,
\* also after statusTable deleted from it while ranging over it: debugLines
\* looks up each of them.  Of a page just made, the lines of the graph have the rates of
\* the buckets (LineIsRight), their points are at the same times (LinesAlign), and
\* only an interval without a probe keeps the graph from the page (GraphThere).
AgoIsRight ==
  /\ Range(sTargets) = DOMAIN sSeries /\ Len(sTargets) = Cardinality(DOMAIN sSeries)
  /\ \A t \in DOMAIN sSeries : \A n \in 0 .. RingSize + 1 : RingRight(t, n)
  /\ sCached = sNow =>
       \A q \in GraphQueries :
         LET opts == GraphOptsFromURL(q)
         IN /\ LinesAlign(opts)
            /\ GraphThere(opts)
            /\ \A t \in DOMAIN sSeries : Len(sHist[t]) > 1 => LineIsRight(t, opts)
=============================================================================
