--------------------------- MODULE SchedulerProofs --------------------------
(***************************************************************************)
(* Theorems about Scheduler, for every set of targets, export frequency,   *)
(* channel capacity and bound.                                             *)
(***************************************************************************)
EXTENDS Scheduler, TLAPS

\* Numbers of loops: those up to spawned[k] exist, and the bound on changes of
\* the list bounds them, as a change lies between two loops of one key.
LoopNumbers ==
  /\ \A l \in Loops : st[l] = "none" <=> l[2] > spawned[l[1]]
  /\ \A l \in DOMAIN cancelled : l[2] <= spawned[l[1]]
  /\ \A k \in Targets :
       /\ spawned[k] <= changes + 1
       /\ k \notin listed \/ cancelFuncs[k] = 0 => spawned[k] <= changes

\* s.cancelFuncs holds exactly the loops that were spawned and not cancelled,
\* under the keys of the last listing.
Entries ==
  /\ \A k \in Targets :
       /\ cancelFuncs[k] \in {0, spawned[k]}
       /\ k \in targets <=> cancelFuncs[k] # 0
  /\ \A l \in Loops :
       l[2] <= spawned[l[1]] => (l \in DOMAIN cancelled <=> cancelFuncs[l[1]] # l[2])

\* Why a loop is where it is.
LoopStates ==
  /\ \A l \in Loops : st[l] = "exited" => Stopped(l)
  /\ \A l \in DOMAIN cancelled :
       IF st[l] = "probing" THEN runCnt[l] <= cancelled[l]
                            ELSE runCnt[l] <= cancelled[l] + 1
  /\ pc \in {"waiting", "returned"} => ctxDone
  /\ pc = "returned" => Alive = {}

SchedulerInv == TypeOK /\ LoopNumbers /\ Entries /\ LoopStates

-----------------------------------------------------------------------------

\* What refreshTargets does, key by key and loop by loop.
LEMMA RefreshEffect ==
  ASSUME SchedulerInv, refreshTargets
  PROVE  /\ \A k \in Targets :
              /\ spawned'[k] = IF k \in Added THEN spawned[k] + 1 ELSE spawned[k]
              /\ cancelFuncs'[k] = IF k \in Added THEN spawned[k] + 1
                                   ELSE IF k \in Deleted THEN 0 ELSE cancelFuncs[k]
         /\ \A l \in Loops :
              /\ st'[l] = IF l[1] \in Added /\ l[2] = spawned[l[1]] + 1
                          THEN "wait" ELSE st[l]
              /\ l \in DOMAIN cancelled' <=>
                   \/ l \in DOMAIN cancelled
                   \/ l[1] \in Deleted /\ l[2] = cancelFuncs[l[1]]
         /\ DOMAIN cancelled' \subseteq Loops
         /\ \A l \in DOMAIN cancelled' :
              cancelled'[l] = IF l[1] \in Deleted /\ l[2] = cancelFuncs[l[1]]
                              THEN runCnt[l] ELSE cancelled[l]
<1> DEFINE stopped == {<<k, cancelFuncs[k]>> : k \in Deleted}
           started == {<<k, spawned[k] + 1>> : k \in Added}
<1>1. Deleted \subseteq Targets /\ Added \subseteq Targets
  BY Zenon DEF Deleted, Added, SchedulerInv, TypeOK
<1>2. \A l \in Loops :
        /\ l \in stopped <=> l[1] \in Deleted /\ l[2] = cancelFuncs[l[1]]
        /\ l \in started <=> l[1] \in Added /\ l[2] = spawned[l[1]] + 1
  BY DEF Loops
<1>3. stopped \subseteq Loops
  BY SchedulerAssumption, <1>1 DEF Loops, Deleted, SchedulerInv, TypeOK
<1>4. /\ DOMAIN cancelled' = DOMAIN cancelled \cup stopped
      /\ \A l \in DOMAIN cancelled' :
           cancelled'[l] = IF l \in stopped THEN runCnt[l] ELSE cancelled[l]
  BY Zenon DEF refreshTargets, CancelDeleted
<1>5. DOMAIN cancelled' \subseteq Loops
  BY <1>3, <1>4, Zenon DEF SchedulerInv, TypeOK
<1>6. \A k \in Targets :
        /\ spawned'[k] = IF k \in Added THEN spawned[k] + 1 ELSE spawned[k]
        /\ cancelFuncs'[k] = IF k \in Added THEN spawned[k] + 1
                             ELSE IF k \in Deleted THEN 0 ELSE cancelFuncs[k]
  BY DEF refreshTargets, StartAdded, UpdateCancelFuncs, SchedulerInv, TypeOK
<1>7. \A l \in Loops : st'[l] = IF l \in started THEN "wait" ELSE st[l]
  BY Zenon DEF refreshTargets, StartAdded
<1> QED
  BY <1>2, <1>4, <1>5, <1>6, <1>7, Zenon

\* refreshTargets, at any place the scheduler calls it from, keeps the
\* invariant.
LEMMA RefreshInv ==
  ASSUME SchedulerInv, refreshTargets, pc \notin {"waiting", "returned"},
         pc' \in {"initial", "ticking"},
         UNCHANGED <<listed, changes, runCnt, success, DataChan, seen, ctxDone>>
  PROVE  SchedulerInv'
<1> USE DEF SchedulerInv
<1>1. \A k \in Added : spawned[k] <= changes /\ k \in Targets
  BY Zenon DEF Added, LoopNumbers, TypeOK
<1>2. spawned' \in [Targets -> 0 .. MaxChanges + 1]
  BY <1>1, SchedulerAssumption DEF refreshTargets, StartAdded, TypeOK
<1>3. cancelFuncs' \in [Targets -> 0 .. MaxChanges + 1]
  BY <1>1, SchedulerAssumption DEF refreshTargets, UpdateCancelFuncs, TypeOK
<1>4. st' \in [Loops -> {"none", "wait", "probing", "export", "exited"}]
  BY Zenon DEF refreshTargets, StartAdded, TypeOK
<1>5. DOMAIN cancelled' \subseteq Loops /\ \A l \in DOMAIN cancelled' : cancelled'[l] \in Nat
  <2>1. \A l \in DOMAIN cancelled' : l \in Loops /\ runCnt[l] \in Nat
    BY RefreshEffect, Zenon DEF TypeOK
  <2>2. \A l \in DOMAIN cancelled' : l \in DOMAIN cancelled \/
          (l[1] \in Deleted /\ l[2] = cancelFuncs[l[1]])
    BY <2>1, RefreshEffect, Zenon
  <2> QED
    BY <2>1, <2>2, RefreshEffect, Zenon DEF TypeOK
<1>6. TypeOK'
  BY <1>2, <1>3, <1>4, <1>5, Zenon DEF TypeOK, refreshTargets
<1>7. \A l \in Loops : l[1] \in Targets /\ l[2] \in Nat /\ l[2] # 0
  BY SchedulerAssumption DEF Loops
<1>8. \A k \in Targets : spawned[k] \in Nat /\ cancelFuncs[k] \in {0, spawned[k]}
  BY SchedulerAssumption DEF TypeOK, Entries
<1>9. LoopNumbers'
  <2>1. \A l \in Loops : st'[l] = "none" <=> l[2] > spawned'[l[1]]
    BY <1>7, <1>8, RefreshEffect DEF LoopNumbers
  <2>2. \A l \in DOMAIN cancelled' : l[2] <= spawned'[l[1]]
    BY <1>5, <1>7, <1>8, RefreshEffect DEF LoopNumbers
  <2>3. \A k \in Targets :
          /\ spawned'[k] <= changes' + 1
          /\ k \notin listed' \/ cancelFuncs'[k] = 0 => spawned'[k] <= changes'
    BY <1>1, <1>8, RefreshEffect DEF LoopNumbers, Added, Deleted, TypeOK
  <2> QED
    BY <2>1, <2>2, <2>3, Zenon DEF LoopNumbers
<1>10. Entries'
  <2>1. \A k \in Targets : cancelFuncs'[k] \in {0, spawned'[k]}
    BY <1>8, RefreshEffect, Zenon DEF Added, Deleted
  <2>2. \A k \in Targets : k \in targets' <=> cancelFuncs'[k] # 0
    BY <1>8, RefreshEffect DEF Added, Deleted, refreshTargets
  <2>3. \A l \in Loops :
          l[2] <= spawned'[l[1]] => (l \in DOMAIN cancelled' <=> cancelFuncs'[l[1]] # l[2])
    <3> SUFFICES ASSUME NEW l \in Loops, l[2] <= spawned'[l[1]]
                 PROVE  l \in DOMAIN cancelled' <=> cancelFuncs'[l[1]] # l[2]
      BY Zenon
    <3>1. CASE l[1] \in Added
      <4>1. l[1] \notin Deleted /\ cancelFuncs[l[1]] = 0
        BY <3>1, Zenon DEF Added, Deleted
      <4>2. l[2] = spawned[l[1]] + 1 => l \notin DOMAIN cancelled
        BY <1>7, <1>8 DEF LoopNumbers
      <4> QED
        BY <1>7, <1>8, <3>1, <4>1, <4>2, RefreshEffect DEF Entries
    <3>2. CASE l[1] \in Deleted
      BY <1>7, <1>8, <3>2, RefreshEffect, Zenon DEF Entries, Added, Deleted
    <3>3. CASE l[1] \notin Added /\ l[1] \notin Deleted
      BY <1>7, <3>3, RefreshEffect DEF Entries
    <3> QED
      BY <3>1, <3>2, <3>3, Zenon
  <2> QED
    BY <2>1, <2>2, <2>3, Zenon DEF Entries
<1>11. LoopStates'
  <2>1. \A l \in Loops : st'[l] = "exited" => Stopped(l)'
    BY RefreshEffect, Zenon DEF LoopStates, Stopped
  <2>2. ASSUME NEW l \in DOMAIN cancelled'
        PROVE  IF st'[l] = "probing" THEN runCnt'[l] <= cancelled'[l]
                                     ELSE runCnt'[l] <= cancelled'[l] + 1
    <3>1. l \in Loops /\ runCnt[l] \in Nat /\ runCnt'[l] = runCnt[l]
      BY <1>5, Zenon DEF TypeOK
    <3>2. CASE l[1] \in Deleted /\ l[2] = cancelFuncs[l[1]]
      BY <3>1, <3>2, RefreshEffect
    <3>3. CASE ~(l[1] \in Deleted /\ l[2] = cancelFuncs[l[1]])
      <4>1. l \in DOMAIN cancelled /\ cancelled'[l] = cancelled[l]
        BY <3>1, <3>3, RefreshEffect, Zenon
      <4>2. st'[l] = st[l] \/ st'[l] = "wait"
        BY <3>1, RefreshEffect, Zenon
      <4>3. l[2] <= spawned[l[1]]
        BY <4>1, Zenon DEF LoopNumbers
      <4>4. st'[l] = st[l]
        BY <1>7, <1>8, <3>1, <4>3, RefreshEffect
      <4> QED
        BY <3>1, <4>1, <4>4, Zenon DEF LoopStates
    <3> QED
      BY <3>2, <3>3, Zenon
  <2> QED
    BY <2>1, <2>2, Zenon DEF LoopStates
<1> QED
  BY <1>6, <1>9, <1>10, <1>11, Zenon

\* The invariant holds before the scheduler begins.
LEMMA SchedulerInit == Init => SchedulerInv
<1> SUFFICES ASSUME Init PROVE SchedulerInv
  BY Zenon
<1>1. DOMAIN cancelled = {}
  BY DEF Init
<1>2. TypeOK
  <2>1. DataChan \in Seq(EventMetrics) /\ Len(DataChan) <= ChanCap
    BY SchedulerAssumption DEF Init
  <2>2. /\ cancelFuncs \in [Targets -> 0 .. MaxChanges + 1]
        /\ spawned \in [Targets -> 0 .. MaxChanges + 1]
        /\ changes \in 0 .. MaxChanges
    BY SchedulerAssumption DEF Init
  <2> QED
    BY <1>1, <2>1, <2>2, Zenon DEF Init, TypeOK
<1>3. \A l \in Loops : l[1] \in Targets /\ l[2] \in Nat /\ l[2] # 0
  BY SchedulerAssumption DEF Loops
<1>4. LoopNumbers
  BY <1>1, <1>3 DEF Init, LoopNumbers
<1>5. Entries
  BY <1>1, <1>3 DEF Init, Entries
<1>6. LoopStates
  BY <1>1, Zenon DEF Init, LoopStates
<1> QED
  BY <1>2, <1>4, <1>5, <1>6, Zenon DEF SchedulerInv

\* A step of loop l that changes only its state and its counters.
LEMMA LoopStepInv ==
  ASSUME SchedulerInv, NEW l \in Loops, st[l] \notin {"none", "exited"},
         NEW v \in {"wait", "probing", "export", "exited"},
         st' = [st EXCEPT ![l] = v],
         v = "exited" => Stopped(l),
         v = "probing" => l \notin DOMAIN cancelled /\ runCnt'[l] = runCnt[l],
         runCnt' \in [Loops -> Nat],
         \A m \in Loops : m # l => runCnt'[m] = runCnt[m],
         runCnt'[l] <= runCnt[l] + IF st[l] = "probing" THEN 1 ELSE 0,
         UNCHANGED <<listed, changes, pc, targets, cancelFuncs, spawned, cancelled,
                     ctxDone>>
  PROVE  LoopNumbers' /\ Entries' /\ LoopStates'
<1> USE DEF SchedulerInv
<1>1. st'[l] = v /\ \A m \in Loops : m # l => st'[m] = st[m]
  BY Zenon DEF TypeOK
<1>2. LoopNumbers'
  BY <1>1, Zenon DEF LoopNumbers
<1>3. Entries'
  BY Zenon DEF Entries
<1>4. \A m \in Loops : st'[m] = "exited" => Stopped(m)'
  BY <1>1, Zenon DEF LoopStates, Stopped
<1>5. ASSUME NEW m \in DOMAIN cancelled'
      PROVE  IF st'[m] = "probing" THEN runCnt'[m] <= cancelled'[m]
                                   ELSE runCnt'[m] <= cancelled'[m] + 1
  <2>1. m \in DOMAIN cancelled /\ m \in Loops /\ cancelled[m] \in Nat /\ runCnt[m] \in Nat
        /\ runCnt'[m] \in Nat /\ cancelled'[m] = cancelled[m]
    BY Zenon DEF TypeOK
  <2>2. CASE m = l
    BY <1>1, <2>1, <2>2 DEF LoopStates
  <2>3. CASE m # l
    BY <1>1, <2>1, <2>3, Zenon DEF LoopStates
  <2> QED
    BY <2>2, <2>3, Zenon
<1>6. pc' = "returned" => Alive' = {}
  BY <1>1, Zenon DEF LoopStates, Alive
<1> QED
  BY <1>2, <1>3, <1>4, <1>5, <1>6, Zenon DEF LoopStates

\* The inductive step, one case per action.
LEMMA SchedulerStep == SchedulerInv /\ [Next]_schedVars => SchedulerInv'
<1> SUFFICES ASSUME SchedulerInv, [Next]_schedVars PROVE SchedulerInv'
  BY Zenon
<1>0. TypeOK
  BY Zenon DEF SchedulerInv
<1>1. CASE Begin
  BY <1>1, RefreshInv, Zenon DEF Begin
<1>2. CASE Initial
  <2>1. CASE pc' = "initial"
    <3>1. refreshTargets
      BY <1>2, <2>1, Zenon DEF Initial
    <3> QED
      BY <1>2, <2>1, <3>1, RefreshInv, Zenon DEF Initial
  <2>2. CASE pc' # "initial"
    <3>1. /\ UNCHANGED <<listed, changes, runCnt, success, DataChan, seen, ctxDone,
                         targets, cancelFuncs, spawned, st, cancelled>>
          /\ (pc' = "waiting" /\ ctxDone) \/ pc' = "ticking"
      BY <1>2, <2>2, Zenon DEF Initial
    <3> QED
      BY <3>1, Zenon DEF SchedulerInv, TypeOK, LoopNumbers, Entries, LoopStates, Stopped, Alive
  <2> QED
    BY <2>1, <2>2, Zenon
<1>3. CASE Tick
  BY <1>3, RefreshInv, Zenon DEF Tick
<1>4. CASE Stop
  BY <1>4, Zenon DEF Stop, SchedulerInv, TypeOK, LoopNumbers, Entries, LoopStates, Stopped, Alive
<1>5. CASE Wait
  BY <1>5, Zenon DEF Wait, SchedulerInv, TypeOK, LoopNumbers, Entries, LoopStates, Stopped, Alive
<1>6. ASSUME NEW l \in Loops, CheckCtx(l) PROVE SchedulerInv'
  <2> DEFINE v == IF Stopped(l) THEN "exited" ELSE "probing"
  <2>1. st' = [st EXCEPT ![l] = v] /\ st[l] = "wait"
    BY <1>6, Zenon DEF CheckCtx
  <2>2. runCnt' = runCnt /\ runCnt[l] \in Nat
    BY <1>0, <1>6, Zenon DEF CheckCtx, TypeOK
  <2>3. v = "probing" => l \notin DOMAIN cancelled
    BY Zenon DEF Stopped
  <2>4. LoopNumbers' /\ Entries' /\ LoopStates'
    <3>1. v \in {"wait", "probing", "export", "exited"} /\ (v = "exited" => Stopped(l))
      BY Zenon
    <3>2. UNCHANGED <<listed, changes, pc, targets, cancelFuncs, spawned, cancelled, ctxDone>>
      BY <1>6, Zenon DEF CheckCtx
    <3>3. runCnt'[l] <= runCnt[l] + IF st[l] = "probing" THEN 1 ELSE 0
      BY <2>2
    <3>4. runCnt' \in [Loops -> Nat]
      BY <1>0, <2>2, Zenon DEF TypeOK
    <3> HIDE DEF v
    <3> QED
      BY <2>1, <2>2, <2>3, <3>1, <3>2, <3>3, <3>4, LoopStepInv, Zenon
  <2>5. TypeOK'
    BY <1>0, <1>6, Zenon DEF CheckCtx, TypeOK
  <2> QED
    BY <2>4, <2>5, Zenon DEF SchedulerInv
<1>7. ASSUME NEW l \in Loops, RunProbe(l) PROVE SchedulerInv'
  <2> DEFINE v == IF runCnt'[l] % statsExportFrequency = 0 THEN "export" ELSE "wait"
  <2>1. st' = [st EXCEPT ![l] = v] /\ st[l] = "probing"
    BY <1>7, Zenon DEF RunProbe
  <2>2. runCnt' = [runCnt EXCEPT ![l] = @ + 1] /\ runCnt[l] \in Nat
    BY <1>0, <1>7, Zenon DEF RunProbe, TypeOK
  <2>3. runCnt' \in [Loops -> Nat] /\ runCnt'[l] = runCnt[l] + 1
        /\ \A m \in Loops : m # l => runCnt'[m] = runCnt[m]
    BY <1>0, <2>2 DEF TypeOK
  <2>4. LoopNumbers' /\ Entries' /\ LoopStates'
    <3>1. v \in {"wait", "export"}
      BY Zenon
    <3>2. UNCHANGED <<listed, changes, pc, targets, cancelFuncs, spawned, cancelled, ctxDone>>
      BY <1>7, Zenon DEF RunProbe
    <3>3. runCnt'[l] <= runCnt[l] + IF st[l] = "probing" THEN 1 ELSE 0
      BY <2>1, <2>2, <2>3
    <3> HIDE DEF v
    <3> QED
      BY <2>1, <2>3, <3>1, <3>2, <3>3, LoopStepInv, Zenon
  <2>5. success' \in [Loops -> Nat]
    BY <1>0, <1>7 DEF RunProbe, TypeOK
  <2>6. st' \in [Loops -> {"none", "wait", "probing", "export", "exited"}]
    BY <1>0, <2>1, Zenon DEF TypeOK
  <2>7. TypeOK'
    BY <1>0, <1>7, <2>3, <2>5, <2>6, Zenon DEF RunProbe, TypeOK
  <2> QED
    BY <2>4, <2>7, Zenon DEF SchedulerInv
<1>8. ASSUME NEW l \in Loops, Export(l) PROVE SchedulerInv'
  <2>1. st' = [st EXCEPT ![l] = "wait"] /\ st[l] = "export" /\ runCnt' = runCnt
    BY <1>8, Zenon DEF Export
  <2>2. runCnt[l] \in Nat /\ success[l] \in Nat
    BY <1>0, Zenon DEF TypeOK
  <2>3. LoopNumbers' /\ Entries' /\ LoopStates'
    <3>1. UNCHANGED <<listed, changes, pc, targets, cancelFuncs, spawned, cancelled, ctxDone>>
      BY <1>8, Zenon DEF Export
    <3>2. runCnt' \in [Loops -> Nat]
      BY <1>0, <2>1, Zenon DEF TypeOK
    <3>3. runCnt'[l] <= runCnt[l] + IF st[l] = "probing" THEN 1 ELSE 0
      BY <2>1, <2>2
    <3>4. PICK v \in {"wait"} : st' = [st EXCEPT ![l] = v]
      BY <2>1, Zenon
    <3> QED
      BY <2>1, <3>1, <3>2, <3>3, <3>4, LoopStepInv, Zenon
  <2> DEFINE em == [loop |-> l, success |-> success[l]]
  <2>4. em \in EventMetrics
    BY <2>2, Zenon DEF EventMetrics
  <2>5. DataChan' = Append(DataChan, em) /\ Len(DataChan) < ChanCap
    BY <1>8, Zenon DEF Export
  <2>6. DataChan' \in Seq(EventMetrics) /\ Len(DataChan') <= ChanCap
    <3> HIDE DEF em
    <3> QED
      BY <1>0, <2>4, <2>5, SchedulerAssumption DEF TypeOK
  <2>7. TypeOK'
    BY <1>0, <1>8, <2>6, Zenon DEF Export, TypeOK
  <2> QED
    BY <2>3, <2>7, Zenon DEF SchedulerInv
<1>9. CASE Surface
  <2> DEFINE em == Head(DataChan)
  <2>1. em \in EventMetrics /\ DataChan' \in Seq(EventMetrics) /\ Len(DataChan') <= ChanCap
    BY <1>0, <1>9, SchedulerAssumption DEF Surface, TypeOK
  <2>2. em.loop \in Loops /\ em.success \in Nat
    BY <2>1, Zenon DEF EventMetrics
  <2>3. success[em.loop] \in Nat
    BY <1>0, <2>2, Zenon DEF TypeOK
  <2>4. seen' = [seen EXCEPT ![em.loop[1]] = [loop |-> em.loop, success |-> em.success,
                                              latency |-> success[em.loop]]]
    BY <1>9, Zenon DEF Surface
  <2>5. seen' \in [Targets -> [loop : Loops, success : Nat, latency : Nat] \cup {None}]
    <3> DEFINE shown == [loop |-> em.loop, success |-> em.success,
                         latency |-> success[em.loop]]
    <3>1. shown \in [loop : Loops, success : Nat, latency : Nat]
      BY <2>2, <2>3, Zenon
    <3>2. seen' = [seen EXCEPT ![em.loop[1]] = shown]
      BY <2>4, Zenon
    <3> HIDE DEF em, shown
    <3> QED
      BY <1>0, <3>1, <3>2, Zenon DEF TypeOK
  <2>6. TypeOK'
    BY <1>0, <1>9, <2>1, <2>5, Zenon DEF Surface, TypeOK
  <2>7. LoopNumbers' /\ Entries' /\ LoopStates'
    BY <1>9, Zenon DEF Surface, SchedulerInv, LoopNumbers, Entries, LoopStates, Stopped, Alive
  <2> QED
    BY <2>6, <2>7, Zenon DEF SchedulerInv
<1>10. CASE ListChange
  <2>1. TypeOK'
    BY <1>0, <1>10, SchedulerAssumption DEF ListChange, TypeOK
  <2>2. LoopNumbers'
    BY <1>0, <1>10, SchedulerAssumption DEF ListChange, SchedulerInv, LoopNumbers, TypeOK
  <2>3. Entries' /\ LoopStates'
    BY <1>10, Zenon DEF ListChange, SchedulerInv, Entries, LoopStates, Stopped, Alive
  <2> QED
    BY <2>1, <2>2, <2>3, Zenon DEF SchedulerInv
<1>11. CASE EndContext
  BY <1>0, <1>11, Zenon
  DEF EndContext, SchedulerInv, TypeOK, LoopNumbers, Entries, LoopStates, Stopped, Alive
<1>12. CASE UNCHANGED schedVars
  BY <1>0, <1>12, Zenon
  DEF schedVars, SchedulerInv, TypeOK, LoopNumbers, Entries, LoopStates, Stopped, Alive
<1> QED
  BY <1>1, <1>2, <1>3, <1>4, <1>5, <1>6, <1>7, <1>8, <1>9, <1>10, <1>11, <1>12, Zenon DEF Next

\* SchedulerInv holds in every behaviour of the scheduler.
LEMMA SchedulerInvariant == Spec => []SchedulerInv
BY SchedulerInit, SchedulerStep, PTL DEF Spec

-----------------------------------------------------------------------------

\* The scheduler's variables keep their types; in particular the number of
\* loops of a key is bounded by the number of changes of the target list.
THEOREM SchedulerTypes == Spec => []TypeOK
<1>1. SchedulerInv => TypeOK
  BY Zenon DEF SchedulerInv
<1> QED
  BY <1>1, SchedulerInvariant, PTL

\* refreshTargets never doubles and never leaks a probe loop.
THEOREM LoopsNotDoubled == Spec => []OneLoopPerTarget
<1>1. SchedulerInv => OneLoopPerTarget
  <2> SUFFICES ASSUME SchedulerInv, NEW l \in Alive, l \notin DOMAIN cancelled
               PROVE  l[1] \in targets /\ cancelFuncs[l[1]] = l[2]
    BY Zenon DEF OneLoopPerTarget
  <2>1. l \in Loops /\ st[l] # "none"
    BY Zenon DEF Alive
  <2>2. l[1] \in Targets /\ l[2] \in Nat /\ l[2] # 0
    BY <2>1, SchedulerAssumption DEF Loops
  <2>3. l[2] <= spawned[l[1]]
    BY <2>1, <2>2, SchedulerAssumption DEF SchedulerInv, LoopNumbers, TypeOK
  <2> QED
    BY <2>1, <2>2, <2>3, Zenon DEF SchedulerInv, Entries
<1> QED
  BY <1>1, SchedulerInvariant, PTL

\* refreshTargets never leaves a listed target without a loop.
THEOREM LoopsNotMissing == Spec => []EveryTargetHasLoop
<1>1. SchedulerInv => EveryTargetHasLoop
  <2> SUFFICES ASSUME SchedulerInv, ~ctxDone, NEW k \in targets
               PROVE  \E l \in Alive : l[1] = k /\ l \notin DOMAIN cancelled
    BY Zenon DEF EveryTargetHasLoop
  <2>1. k \in Targets /\ cancelFuncs[k] # 0 /\ cancelFuncs[k] = spawned[k]
    BY Zenon DEF SchedulerInv, Entries, TypeOK
  <2> DEFINE l == <<k, spawned[k]>>
  <2>2. l \in Loops
    BY <2>1, SchedulerAssumption DEF SchedulerInv, TypeOK, Loops
  <2>3. l[1] = k /\ l[2] = spawned[k] /\ spawned[k] \in Nat
    BY <2>1, SchedulerAssumption DEF SchedulerInv, TypeOK
  <2> HIDE DEF l
  <2>4. l \notin DOMAIN cancelled
    BY <2>1, <2>2, <2>3 DEF SchedulerInv, Entries
  <2>5. st[l] # "none"
    BY <2>1, <2>2, <2>3 DEF SchedulerInv, LoopNumbers
  <2>6. st[l] # "exited"
    BY <2>2, <2>4, Zenon DEF SchedulerInv, LoopStates, Stopped
  <2> QED
    BY <2>2, <2>3, <2>4, <2>5, <2>6, Zenon DEF Alive
<1> QED
  BY <1>1, SchedulerInvariant, PTL

\* The loop of a deleted target runs its probe at most once more.
THEOREM LoopsStop == Spec => []StopsWithinOneRun
<1>1. SchedulerInv => StopsWithinOneRun
  BY DEF SchedulerInv, LoopStates, TypeOK, StopsWithinOneRun
<1> QED
  BY <1>1, SchedulerInvariant, PTL

\* UpdateTargetsAndStartProbes returns only when all its loops have.
THEOREM WaitsForLoops == Spec => []ReturnsWhenAllStopped
<1>1. SchedulerInv => ReturnsWhenAllStopped
  BY Zenon DEF SchedulerInv, LoopStates, ReturnsWhenAllStopped
<1> QED
  BY <1>1, SchedulerInvariant, PTL
=============================================================================
