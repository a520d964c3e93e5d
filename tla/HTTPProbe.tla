----------------------------- MODULE HTTPProbe ------------------------------
(***************************************************************************)
(* The HTTP probe, which has a scheduler of its own: one loop per target,  *)
(* started and cancelled as the list of targets changes.  A run of a loop  *)
(* is requests_per_probe requests, sent concurrently, or none if no        *)
(* request could be made for the target.  An export sends an EventMetrics  *)
(* (which alert handlers record, module Alerting), sends a second one when *)
(* a certificate was seen, and makes the request anew if that depends on   *)
(* the target's address.                                                   *)
(*                                                                         *)
(* The module shows that this scheduler implements the one of sched (see   *)
(* module Scheduler, whose conventions are used).  result.success is       *)
(* success[l] plus, during a run, the run's successes so far.              *)
(***************************************************************************)
EXTENDS ProbeEnv

CONSTANTS
  statsExportFrequency, \* runs per export
  ChanCap,              \* capacity of dataChan
  RequestsPerProbe,     \* requests_per_probe
  ResolveFirst,         \* resolve_first
  Https,                \* do responses have certificates?
  MaxRuns,              \* bound: runs of a loop
  None                  \* no EventMetrics

ASSUME HTTPAssumption ==
  /\ statsExportFrequency \in Nat \ {0}
  /\ ChanCap \in Nat \ {0}
  /\ RequestsPerProbe \in Nat
  /\ MaxRuns \in Nat

VARIABLES
  hPc,          \* Start: "init", "initial", "ticking", "waiting", "returned"
  hTargets,     \* p.targets
  hCancelFuncs, \* p.cancelFuncs: number of the loop it cancels, 0 if no entry
  hSpawned,     \* loops spawned so far for a key
  hSt,          \* loop: "none", "wait", "probing", "export", "ssl", "exited"
  hRunCnt,      \* loop: runCnt
  hCancelled,   \* loops that were cancelled, with their runCnt then
  hReq,         \* loop: is req not nil?
  hLeft,        \* loop: requests of the run that are not done
  hNow,         \* loop: their successes so far
  hTotal,       \* loop: result.total
  hSuccess,     \* loop: result.success after the last run
  hTls,         \* loop: sslEarliestExpirationSeconds >= 0
  hDataChan,    \* EventMetrics in dataChan
  hSslChan,     \* number of certificate EventMetrics in dataChan
  hSeen         \* last EventMetrics surfaced per key

hSchedVars == <<hPc, hTargets, hCancelFuncs, hSpawned, hCancelled>>
hResVars == <<hReq, hLeft, hNow, hTotal, hSuccess, hTls>>
hChanVars == <<hDataChan, hSslChan, hSeen>>
httpVars == <<hSchedVars, hSt, hRunCnt, hResVars, hChanVars>>

HLoops == Targets \X (1 .. MaxChanges + 1)
HStopped(l) == l \in DOMAIN hCancelled \/ ctxDone

HTTPInit ==
  /\ hPc = "init"
  /\ hTargets = {}
  /\ hCancelFuncs = [k \in Targets |-> 0]
  /\ hSpawned = [k \in Targets |-> 0]
  /\ hSt = [l \in HLoops |-> "none"]
  /\ hRunCnt = [l \in HLoops |-> 0]
  /\ hCancelled = <<>>
  /\ hReq = [l \in HLoops |-> FALSE]
  /\ hLeft = [l \in HLoops |-> 0]
  /\ hNow = [l \in HLoops |-> 0]
  /\ hTotal = [l \in HLoops |-> 0]
  /\ hSuccess = [l \in HLoops |-> 0]
  /\ hTls = [l \in HLoops |-> FALSE]
  /\ hDataChan = <<>>
  /\ hSslChan = 0
  /\ hSeen = [k \in Targets |-> None]

-----------------------------------------------------------------------------
(* The goroutine of Start *)

\* Mutant of HTTPUpdate: a loop is started without a look at cancelFuncs.
HTTPUpdate_Restarts ==
  LET gone    == {k \in Targets \ listed : hCancelFuncs[k] # 0}
      added   == listed
      stopped == {<<k, hCancelFuncs[k]>> : k \in gone}
      started == {<<k, hSpawned[k] + 1>> : k \in added}
  IN /\ \A k \in added : hSpawned[k] <= MaxChanges
     /\ hTargets' = listed
     /\ hCancelled' = [l \in DOMAIN hCancelled \cup stopped |->
                         IF l \in stopped THEN hRunCnt[l] ELSE hCancelled[l]]
     /\ hSpawned' = [k \in Targets |-> hSpawned[k] + IF k \in added THEN 1 ELSE 0]
     /\ hCancelFuncs' = [k \in Targets |-> IF k \in added THEN hSpawned[k] + 1
                                           ELSE IF k \in gone THEN 0
                                           ELSE hCancelFuncs[k]]
     /\ hSt' = [l \in HLoops |-> IF l \in started THEN "wait" ELSE hSt[l]]
     /\ \E ok \in [started -> BOOLEAN] :
          hReq' = [l \in HLoops |-> IF l \in started THEN ok[l] ELSE hReq[l]]

\* updateTargetsAndStartProbes: list, cancel the loops of targets that are gone,
\* start loops for those that have none.  A loop begins with making its request,
\* which may fail.
HTTPUpdate ==
  LET gone    == {k \in Targets \ listed : hCancelFuncs[k] # 0}
      added   == {k \in listed : hCancelFuncs[k] = 0}
      stopped == {<<k, hCancelFuncs[k]>> : k \in gone}
      started == {<<k, hSpawned[k] + 1>> : k \in added}
  IN /\ hTargets' = listed
     /\ hCancelled' = [l \in DOMAIN hCancelled \cup stopped |->
                         IF l \in stopped THEN hRunCnt[l] ELSE hCancelled[l]]
     /\ hSpawned' = [k \in Targets |-> hSpawned[k] + IF k \in added THEN 1 ELSE 0]
     /\ hCancelFuncs' = [k \in Targets |-> IF k \in added THEN hSpawned[k] + 1
                                           ELSE IF k \in gone THEN 0
                                           ELSE hCancelFuncs[k]]
     /\ hSt' = [l \in HLoops |-> IF l \in started THEN "wait" ELSE hSt[l]]
     /\ \E ok \in [started -> BOOLEAN] :
          hReq' = [l \in HLoops |-> IF l \in started THEN ok[l] ELSE hReq[l]]

\* Start: the first listing.
HTTPBegin ==
  /\ hPc = "init"
  /\ hPc' = "initial"
  /\ HTTPUpdate
  /\ UNCHANGED <<hRunCnt, hLeft, hNow, hTotal, hSuccess, hTls, hChanVars,
                 envVars>>

\* One iteration of the loop that runs until there are targets.
HTTPInitial ==
  /\ hPc = "initial"
  /\ \/ /\ ctxDone \/ hTargets # {}
        /\ hPc' = IF ctxDone THEN "waiting" ELSE "ticking"
        /\ UNCHANGED <<hTargets, hCancelled, hSpawned, hCancelFuncs, hSt, hReq>>
     \/ /\ ~ctxDone /\ hTargets = {}
        /\ hPc' = hPc
        /\ HTTPUpdate
  /\ UNCHANGED <<hRunCnt, hLeft, hNow, hTotal, hSuccess, hTls, hChanVars,
                 envVars>>

\* targetsUpdateTicker fires.
HTTPTick ==
  /\ hPc = "ticking"
  /\ HTTPUpdate
  /\ UNCHANGED <<hPc, hRunCnt, hLeft, hNow, hTotal, hSuccess, hTls, hChanVars, envVars>>

\* The context has ended; the deferred wait begins, and ends with the last loop.
HTTPStop ==
  /\ \/ hPc = "ticking" /\ ctxDone /\ hPc' = "waiting"
     \/ /\ hPc = "waiting" /\ \A l \in HLoops : hSt[l] \in {"none", "exited"}
        /\ hPc' = "returned"
  /\ UNCHANGED <<hTargets, hCancelFuncs, hSpawned, hCancelled, hSt, hRunCnt, hResVars,
                 hChanVars, envVars>>

-----------------------------------------------------------------------------
(* startForTarget *)

\* The loop looks at its context and starts a run, which has no requests when
\* req is nil.
HTTPCheckCtx(l) ==
  /\ hSt[l] = "wait"
  /\ HStopped(l) \/ hRunCnt[l] < MaxRuns
  /\ hSt' = [hSt EXCEPT ![l] = IF HStopped(l) THEN "exited" ELSE "probing"]
  /\ hLeft' = [hLeft EXCEPT ![l] = IF hReq[l] /\ ~HStopped(l) THEN RequestsPerProbe ELSE 0]
  /\ UNCHANGED <<hSchedVars, hRunCnt, hReq, hNow, hTotal, hSuccess, hTls, hChanVars, envVars>>

\* doHTTPRequest, under resultMu: total is counted in any case; success is not
\* when the request fails or times out or its response is not valid.
HTTPRequest(l) ==
  /\ hSt[l] = "probing" /\ hLeft[l] > 0
  /\ hLeft' = [hLeft EXCEPT ![l] = @ - 1]
  /\ hTotal' = [hTotal EXCEPT ![l] = @ + 1]
  /\ \E ok \in {0, 1}, tls \in BOOLEAN :
       /\ tls => Https
       /\ ok = 1 => tls = Https
       /\ hNow' = [hNow EXCEPT ![l] = @ + ok]
       /\ hTls' = [hTls EXCEPT ![l] = @ \/ tls]
  /\ UNCHANGED <<hSchedVars, hSt, hRunCnt, hReq, hSuccess, hChanVars,
                 envVars>>

\* All requests of the run are done (wg.Wait).
HTTPRunDone(l) ==
  /\ hSt[l] = "probing" /\ hLeft[l] = 0
  /\ hRunCnt' = [hRunCnt EXCEPT ![l] = @ + 1]
  /\ hSuccess' = [hSuccess EXCEPT ![l] = @ + hNow[l]]
  /\ hNow' = [hNow EXCEPT ![l] = 0]
  /\ hSt' = [hSt EXCEPT ![l] = IF hRunCnt'[l] % statsExportFrequency = 0
                               THEN "export" ELSE "wait"]
  /\ UNCHANGED <<hSchedVars, hReq, hLeft, hTotal, hTls, hChanVars, envVars>>

\* httpRequestForTarget after an export: the target may not resolve any more, or
\* again.
Renew(l) ==
  \E ok \in BOOLEAN : hReq' = [hReq EXCEPT ![l] = IF ResolveFirst THEN ok ELSE @]

\* Is there room in dataChan?
Room == Len(hDataChan) + hSslChan < ChanCap

\* exportMetrics: the send on dataChan, which blocks while that is full; the
\* certificate's EventMetrics comes next, if there is one.
HTTPExport(l) ==
  /\ hSt[l] = "export" /\ Room
  /\ hDataChan' = Append(hDataChan, [loop |-> l, success |-> hSuccess[l]])
  /\ IF hTls[l] THEN hSt' = [hSt EXCEPT ![l] = "ssl"] /\ UNCHANGED hReq
                ELSE hSt' = [hSt EXCEPT ![l] = "wait"] /\ Renew(l)
  /\ UNCHANGED <<hSchedVars, hRunCnt, hLeft, hNow, hTotal, hSuccess, hTls, hSslChan,
                 hSeen, envVars>>

HTTPExportSsl(l) ==
  /\ hSt[l] = "ssl" /\ Room
  /\ hSslChan' = hSslChan + 1
  /\ hSt' = [hSt EXCEPT ![l] = "wait"]
  /\ Renew(l)
  /\ UNCHANGED <<hSchedVars, hRunCnt, hLeft, hNow, hTotal, hSuccess, hTls, hDataChan,
                 hSeen, envVars>>

-----------------------------------------------------------------------------
(* The prober's goroutine takes EventMetrics to the surfacers.  The latency
   value, a reference to the loop's, has at least a sample for each success of
   the runs that are done. *)

HTTPSurface ==
  /\ \/ /\ hDataChan # <<>>
        /\ LET em == Head(hDataChan)
           IN hSeen' = [hSeen EXCEPT ![em.loop[1]] =
                          [loop |-> em.loop, success |-> em.success,
                           latency |-> hSuccess[em.loop]]]
        /\ hDataChan' = Tail(hDataChan)
        /\ UNCHANGED hSslChan
     \/ /\ hSslChan > 0
        /\ hSslChan' = hSslChan - 1
        /\ UNCHANGED <<hDataChan, hSeen>>
  /\ UNCHANGED <<hSchedVars, hSt, hRunCnt, hResVars, envVars>>

HTTPNext ==
  \/ HTTPBegin
  \/ HTTPInitial
  \/ HTTPTick
  \/ HTTPStop
  \/ \E l \in HLoops : HTTPCheckCtx(l)
  \/ \E l \in HLoops : HTTPRequest(l)
  \/ \E l \in HLoops : HTTPRunDone(l)
  \/ \E l \in HLoops : HTTPExport(l)
  \/ \E l \in HLoops : HTTPExportSsl(l)
  \/ HTTPSurface
  \/ (ListChange \/ EndContext) /\ UNCHANGED httpVars

HTTPSpec == EnvInit /\ HTTPInit /\ [][HTTPNext]_<<httpVars, envVars>>

-----------------------------------------------------------------------------
(* Properties *)

\* The scheduler of sched: a loop that is sending the certificate's EventMetrics
\* has exported and waits for its next tick.
Sched == INSTANCE Scheduler WITH
  pc <- hPc, targets <- hTargets, cancelFuncs <- hCancelFuncs, spawned <- hSpawned,
  st <- [l \in HLoops |-> IF hSt[l] = "ssl" THEN "wait" ELSE hSt[l]],
  runCnt <- hRunCnt, success <- hSuccess, cancelled <- hCancelled,
  DataChan <- hDataChan, seen <- hSeen, MaxSuccesses <- RequestsPerProbe

\* The HTTP probe implements the scheduler: whatever the requests of a run and
\* the certificates do, its loops start, stop, run and
\* export as sched.Scheduler's do.
HTTPImplementsScheduler == Sched!Spec
=============================================================================
