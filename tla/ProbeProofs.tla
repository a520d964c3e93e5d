---------------------------- MODULE ProbeProofs -----------------------------
(***************************************************************************)
(* Theorems about the goroutines that the gRPC and the HTTP probe have for *)
(* each of their targets, for every set of targets, list changes, number   *)
(* of connections and requests, and interval; and about the requests that  *)
(* an HTTP probe sends, with the tokens of its source.                     *)
(***************************************************************************)
EXTENDS GRPCProbe, HTTPProbe, HTTPRequests, TLAPS

-----------------------------------------------------------------------------
(* GRPCProbe *)

GTypes ==
  /\ gPc = "init" => ~gAccepted
  /\ listed \subseteq Targets /\ changes \in 0 .. MaxChanges /\ ctxDone \in BOOLEAN
  /\ gPc \in {"init", "start", "tick", "returned"}
  /\ gTargets \subseteq Targets
  /\ gResults \in [Targets -> Nat] /\ gMade \in [Targets -> Nat]
  /\ gLoop \in [GLoops -> {"none", "connect", "request", "exited"}]
  /\ gAccepted \in BOOLEAN

\* Results are numbered: a change of the list lies between two results of a key.
GNumbers ==
  \A k \in Targets :
    /\ gResults[k] \in {0, gMade[k]}
    /\ gMade[k] <= changes + 1
    /\ k \notin listed \/ gResults[k] = 0 => gMade[k] <= changes
    /\ IF gAccepted THEN k \in gTargets <=> gResults[k] # 0 ELSE gMade[k] = 0

\* Of the results made, all but those in p.results were cancelled; a goroutine is
\* there from the result on, and exits when it was cancelled or the context ended.
GMadeAndCancelled ==
  /\ \A r \in GResults : r \in gCancelled <=> r[2] <= gMade[r[1]] /\ r[2] # gResults[r[1]]
  /\ \A l \in GLoops :
       /\ gLoop[l] = "none" <=> l[2] > gMade[l[1]]
       /\ gLoop[l] = "exited" => GDone(l)

GRPCInv == GTypes /\ GNumbers /\ GMadeAndCancelled

\* A goroutine of the gRPC probe has a target and the number of its result.
LEMMA LoopParts ==
  ASSUME NEW l \in GLoops
  PROVE  l[1] \in Targets /\ l[2] \in Nat /\ l[2] >= 1
BY EnvAssumption DEF GLoops

\* The target and number of a goroutine are those of a result.
LEMMA LoopResult ==
  ASSUME NEW l \in GLoops
  PROVE  <<l[1], l[2]>> \in GResults
BY Zenon DEF GLoops, GResults

\* A goroutine is a result and the number of its connection.
LEMMA LoopTuple ==
  ASSUME NEW l \in GLoops
  PROVE  l[3] \in 1 .. NumConns /\ l = <<l[1], l[2], l[3]>>
BY DEF GLoops

\* GRPCInv holds initially.
LEMMA GRPCInitInv == EnvInit /\ GRPCInit => GRPCInv
<1> SUFFICES ASSUME EnvInit, GRPCInit PROVE GRPCInv
  BY Zenon
<1> USE DEF EnvInit, GRPCInit
<1>1. GTypes
  <2>1. changes \in 0 .. MaxChanges
    BY EnvAssumption
  <2> QED
    BY <2>1, Zenon DEF GTypes
<1>2. GNumbers
  BY DEF GNumbers
<1>3. GMadeAndCancelled
  <2>1. ASSUME NEW l \in GLoops
        PROVE  gLoop[l] = "none" /\ l[2] > gMade[l[1]]
    BY LoopParts
  <2>2. ASSUME NEW r \in GResults
        PROVE  r \notin gCancelled /\ r[2] > gMade[r[1]]
    <3>1. r[1] \in Targets /\ r[2] \in 1 .. MaxChanges + 1
      BY Zenon DEF GResults
    <3> QED
      BY <3>1, EnvAssumption
  <2>3. \A r \in GResults : gMade[r[1]] \in Nat /\ r[2] \in Nat
    BY EnvAssumption DEF GResults
  <2>4. \A r \in GResults : ~(r[2] <= gMade[r[1]])
    BY <2>2, <2>3
  <2> QED
    BY <2>1, <2>2, <2>4, Zenon DEF GMadeAndCancelled
<1> QED
  BY <1>1, <1>2, <1>3, Zenon DEF GRPCInv

\* updateTargetsAndStartProbes keeps the numbers in step with the list.
LEMMA UpdateInv ==
  ASSUME GRPCInv, updateTargetsAndStartProbes, UNCHANGED envVars,
         gPc' = "tick"
  PROVE  GRPCInv'
<1> USE DEF GRPCInv
<1>1. CASE TooFew
  BY <1>1 DEF updateTargetsAndStartProbes, envVars, GTypes, GNumbers, GMadeAndCancelled, GDone
<1>2. CASE ~TooFew
  <2>1. /\ gTargets' = listed /\ gAccepted' = TRUE
        /\ UNCHANGED <<listed, changes, ctxDone>>
    BY <1>2, Zenon DEF updateTargetsAndStartProbes, envVars
  <2>2. \A k \in Targets :
          /\ gMade'[k] = IF k \in NewKeys THEN gMade[k] + 1 ELSE gMade[k]
          /\ gResults'[k] = IF k \in NewKeys THEN gMade[k] + 1
                            ELSE IF k \in GoneKeys THEN 0 ELSE gResults[k]
    BY <1>2 DEF updateTargetsAndStartProbes, GTypes
  <2>3. /\ gMade' \in [Targets -> Nat] /\ gResults' \in [Targets -> Nat]
        /\ gLoop' \in [GLoops -> {"none", "connect", "request", "exited"}]
    BY <1>2 DEF updateTargetsAndStartProbes, GTypes
  <2>4. GTypes'
    BY <2>1, <2>3, Zenon DEF GTypes
  <2>5. GNumbers'
    BY <2>1, <2>2 DEF GNumbers, GTypes, NewKeys, GoneKeys
  <2>6. ASSUME NEW r \in GResults
        PROVE  r \in gCancelled' <=> r[2] <= gMade'[r[1]] /\ r[2] # gResults'[r[1]]
    <3>1. r[1] \in Targets /\ r[2] \in 1 .. MaxChanges + 1 /\ r = <<r[1], r[2]>>
      BY DEF GResults
    <3>2. r \in gCancelled' <=> r \in gCancelled \/ (r[1] \in GoneKeys /\ r[2] = gResults[r[1]])
      BY <1>2, <3>1 DEF updateTargetsAndStartProbes
    <3>3. r \in gCancelled <=> r[2] <= gMade[r[1]] /\ r[2] # gResults[r[1]]
      BY Zenon DEF GMadeAndCancelled
    <3>4. /\ gResults[r[1]] \in {0, gMade[r[1]]} /\ gMade[r[1]] \in Nat
          /\ r[1] \in NewKeys => gResults[r[1]] = 0 /\ r[1] \notin GoneKeys
          /\ r[1] \in GoneKeys => gResults[r[1]] # 0
      BY <3>1, Zenon DEF GNumbers, GTypes, NewKeys, GoneKeys
    <3> QED
      BY <2>2, <3>1, <3>2, <3>3, <3>4, EnvAssumption
  <2>7. ASSUME NEW l \in GLoops
        PROVE  /\ gLoop'[l] = "none" <=> l[2] > gMade'[l[1]]
               /\ gLoop'[l] = "exited" => GDone(l)'
    <3>1. l[1] \in Targets /\ l[2] \in Nat /\ gMade[l[1]] \in Nat
      BY LoopParts, Zenon DEF GTypes
    <3>2. gLoop'[l] = IF l[1] \in NewKeys /\ l[2] = gMade[l[1]] + 1 THEN "connect" ELSE gLoop[l]
      BY <1>2, Zenon DEF updateTargetsAndStartProbes
    <3>3. gLoop[l] = "none" <=> l[2] > gMade[l[1]]
      BY Zenon DEF GMadeAndCancelled
    <3>4. GDone(l) => GDone(l)'
      BY <1>2, <2>1, Zenon DEF updateTargetsAndStartProbes, GDone
    <3>5. gLoop[l] = "exited" => GDone(l)
      BY Zenon DEF GMadeAndCancelled
    <3> QED
      BY <2>2, <3>1, <3>2, <3>3, <3>4, <3>5
  <2> QED
    BY <2>4, <2>5, <2>6, <2>7, Zenon DEF GMadeAndCancelled
<1> QED
  BY <1>1, <1>2, Zenon

\* A goroutine's own steps.
LEMMA GoroutineInv ==
  ASSUME GRPCInv, NEW l \in GLoops, GRPCConnect(l) \/ GRPCRequest(l) \/ GRPCExit(l)
  PROVE  GRPCInv'
<1> USE DEF GRPCInv
<1>1. UNCHANGED <<gPc, gTargets, gResults, gMade, gCancelled, gAccepted, listed, changes, ctxDone>>
  BY Zenon DEF GRPCConnect, GRPCRequest, GRPCExit, envVars
<1>2. PICK s \in {"connect", "request", "exited"} :
        /\ gLoop' = [gLoop EXCEPT ![l] = s]
        /\ gLoop[l] # "none" /\ (s = "exited" => GDone(l))
  <2>1. CASE gLoop' = gLoop /\ gLoop[l] \in {"connect", "request"}
    BY <2>1, Zenon DEF GTypes
  <2>2. CASE GRPCConnect(l) /\ gLoop' = [gLoop EXCEPT ![l] = "request"]
    BY <2>2, Zenon DEF GRPCConnect
  <2>3. CASE GRPCExit(l)
    BY <2>3, Zenon DEF GRPCExit
  <2> QED
    BY <2>1, <2>2, <2>3, Zenon DEF GRPCConnect, GRPCRequest
<1>3. GTypes'
  BY <1>1, <1>2, Zenon DEF GTypes
<1>4. GNumbers'
  BY <1>1, Zenon DEF GNumbers
<1>5. GMadeAndCancelled'
  BY <1>1, <1>2, Zenon DEF GMadeAndCancelled, GDone, GTypes
<1> QED
  BY <1>3, <1>4, <1>5, Zenon

\* Every step of the gRPC probe keeps GRPCInv.
LEMMA GRPCStep == GRPCInv /\ [GRPCNext]_<<grpcVars, envVars>> => GRPCInv'
<1> SUFFICES ASSUME GRPCInv, [GRPCNext]_<<grpcVars, envVars>> PROVE GRPCInv'
  BY Zenon
<1>1. CASE GRPCInitProbe
  <2>1. /\ gPc' = "start" /\ gTargets' = listed /\ ~gAccepted
        /\ UNCHANGED <<listed, changes, ctxDone, gResults, gMade, gCancelled, gLoop, gAccepted>>
    BY <1>1, Zenon DEF GRPCInitProbe, envVars, GRPCInv, GTypes
  <2>2. GTypes'
    BY <2>1, Zenon DEF GRPCInv, GTypes
  <2>3. GNumbers'
    BY <2>1, Zenon DEF GRPCInv, GNumbers
  <2>4. GMadeAndCancelled'
    BY <2>1, Zenon DEF GRPCInv, GMadeAndCancelled, GDone
  <2> QED
    BY <2>2, <2>3, <2>4, Zenon DEF GRPCInv
<1>2. CASE GRPCStart
  BY <1>2, UpdateInv, Zenon DEF GRPCStart
<1>3. CASE GRPCTick
  <2>1. CASE updateTargetsAndStartProbes /\ UNCHANGED gPc
    BY <1>3, <2>1, UpdateInv, Zenon DEF GRPCTick, GRPCInv, GTypes
  <2>2. CASE /\ gPc' = "returned"
             /\ UNCHANGED <<gTargets, gResults, gMade, gCancelled, gLoop, gAccepted>>
    BY <1>3, <2>2, Zenon DEF GRPCTick, GRPCInv, GTypes, GNumbers, GMadeAndCancelled, GDone, envVars
  <2> QED
    BY <1>3, <2>1, <2>2, Zenon DEF GRPCTick
<1>4. CASE ListChange /\ UNCHANGED grpcVars
  <2>1. /\ changes' = changes + 1 /\ changes < MaxChanges /\ listed' \subseteq Targets
        /\ ctxDone' = ctxDone
        /\ UNCHANGED <<gPc, gTargets, gResults, gMade, gCancelled, gLoop, gAccepted>>
    BY <1>4, Zenon DEF ListChange, grpcVars
  <2>2. GTypes'
    BY <2>1, EnvAssumption DEF GRPCInv, GTypes
  <2>3. GNumbers'
    BY <2>1 DEF GRPCInv, GNumbers, GTypes
  <2>4. GMadeAndCancelled'
    BY <2>1, Zenon DEF GRPCInv, GMadeAndCancelled, GDone
  <2> QED
    BY <2>2, <2>3, <2>4, Zenon DEF GRPCInv
<1>5. CASE EndContext /\ UNCHANGED grpcVars
  BY <1>5, Zenon DEF EndContext, grpcVars, GRPCInv, GTypes, GNumbers, GMadeAndCancelled, GDone
<1>6. CASE UNCHANGED <<grpcVars, envVars>>
  BY <1>6, Zenon DEF grpcVars, envVars, GRPCInv, GTypes, GNumbers, GMadeAndCancelled, GDone
<1> QED
  BY <1>1, <1>2, <1>3, <1>4, <1>5, <1>6, GoroutineInv, Zenon DEF GRPCNext

\* With any number of targets and connections, exactly the targets of the last list
\* that was accepted are probed by goroutines that nobody stopped, num_conns each,
\* all on the result that is exported.
THEOREM GRPCProbesItsTargets == GRPCSpec => []GRPCTargetsProbed
<1>1. GRPCInv => GRPCTargetsProbed
  <2> SUFFICES ASSUME GRPCInv, ~ctxDone
               PROVE  GRunning = IF gAccepted
                                 THEN {<<k, gResults[k], c>> : k \in gTargets, c \in 1 .. NumConns}
                                 ELSE {}
    BY DEF GRPCTargetsProbed
  <2> USE DEF GRPCInv
  <2>1. ASSUME NEW l \in GLoops
        PROVE  l \in GRunning <=> gResults[l[1]] = l[2]
    <3>1. l \in GRunning <=> gLoop[l] # "none" /\ <<l[1], l[2]>> \notin gCancelled
      BY Zenon DEF GRunning, GMadeAndCancelled, GDone, GTypes
    <3>2. gLoop[l] = "none" <=> l[2] > gMade[l[1]]
      BY Zenon DEF GMadeAndCancelled
    <3>3. <<l[1], l[2]>> \in gCancelled <=> l[2] <= gMade[l[1]] /\ l[2] # gResults[l[1]]
      BY LoopParts, LoopResult, Zenon DEF GMadeAndCancelled
    <3>4. gMade[l[1]] \in Nat /\ gResults[l[1]] \in {0, gMade[l[1]]} /\ l[2] \in Nat /\ l[2] >= 1
      BY LoopParts, Zenon DEF GNumbers, GTypes
    <3> QED
      BY <3>1, <3>2, <3>3, <3>4
  <2>2. GRunning \subseteq GLoops
    BY Zenon DEF GRunning
  <2>4. CASE ~gAccepted
    <3>1. ASSUME NEW l \in GLoops PROVE l \notin GRunning
      <4>1. gMade[l[1]] = 0 /\ gResults[l[1]] = 0 /\ l[2] # 0
        <5>1. l[1] \in Targets /\ l[2] # 0
          BY LoopParts
        <5> QED
          BY <2>4, <5>1, Zenon DEF GNumbers
      <4> QED
        BY <2>1, <4>1, Zenon
    <3> QED
      BY <2>2, <2>4, <3>1
  <2>5. CASE gAccepted
    <3>1. ASSUME NEW l \in GRunning
          PROVE  l \in {<<k, gResults[k], c>> : k \in gTargets, c \in 1 .. NumConns}
      <4>1. l \in GLoops /\ gResults[l[1]] = l[2] /\ l[2] # 0
        <5>1. l \in GLoops
          BY <2>2, Zenon
        <5>2. l[2] # 0
          BY <5>1, LoopParts
        <5> QED
          BY <2>1, <5>1, <5>2, Zenon
      <4>2. l[1] \in gTargets /\ l[3] \in 1 .. NumConns /\ l = <<l[1], gResults[l[1]], l[3]>>
        BY <2>5, <4>1, LoopParts, LoopTuple, Zenon DEF GNumbers
      <4> QED
        BY <4>2
    <3>2. ASSUME NEW k \in gTargets, NEW c \in 1 .. NumConns
          PROVE  <<k, gResults[k], c>> \in GRunning
      <4>1. k \in Targets /\ gResults[k] \in 1 .. MaxChanges + 1
        BY <2>5, EnvAssumption DEF GNumbers, GTypes
      <4>2. <<k, gResults[k], c>> \in GLoops
        BY <4>1, Zenon DEF GLoops
      <4> QED
        BY <2>1, <4>2, Zenon
    <3> QED
      BY <2>5, <3>1, <3>2
  <2> QED
    BY <2>4, <2>5
<1> QED
  BY <1>1, GRPCInitInv, GRPCStep, PTL DEF GRPCSpec

-----------------------------------------------------------------------------
(* HTTPProbe *)

HTypes ==
  /\ hSt \in [HLoops -> {"none", "wait", "probing", "export", "ssl", "exited"}]
  /\ hLeft \in [HLoops -> Nat] /\ hNow \in [HLoops -> Nat] /\ hSuccess \in [HLoops -> Nat]
  /\ hDataChan \in Seq([loop : HLoops, success : Nat])
  /\ hSslChan \in Nat
  /\ hSpawned \in [Targets -> Nat]

\* The successes of a run are those of its requests that are done.
HSuccesses ==
  \A l \in HLoops : /\ hLeft[l] + hNow[l] <= RequestsPerProbe
                    /\ hSt[l] # "probing" => hNow[l] = 0

\* The loops of a key that were started are numbered up to hSpawned.
HStarted == \A l \in HLoops : hSt[l] = "none" <=> l[2] > hSpawned[l[1]]

HTTPInv == HTypes /\ HSuccesses /\ HStarted

\* A loop of the HTTP probe has a target and a number.
LEMMA HLoopParts ==
  ASSUME NEW l \in HLoops
  PROVE  l[1] \in Targets /\ l[2] \in Nat /\ l[2] >= 1
BY EnvAssumption DEF HLoops

\* HTTPInv holds initially.
LEMMA HTTPInitInv == HTTPInit => HTTPInv
<1> SUFFICES ASSUME HTTPInit PROVE HTTPInv
  BY Zenon
<1>1. HTypes
  BY DEF HTTPInit, HTypes
<1>2. HSuccesses
  BY HTTPAssumption DEF HTTPInit, HSuccesses
<1>3. HStarted
  BY HLoopParts DEF HTTPInit, HStarted
<1> QED
  BY <1>1, <1>2, <1>3, Zenon DEF HTTPInv

\* HTTPUpdate starts loops that were not there.
LEMMA HTTPUpdateInv ==
  ASSUME HTTPInv, HTTPUpdate, UNCHANGED <<hLeft, hNow, hSuccess, hDataChan, hSslChan>>
  PROVE  HTTPInv'
<1> USE DEF HTTPInv
<1> DEFINE added == {k \in listed : hCancelFuncs[k] = 0}
           started == {<<k, hSpawned[k] + 1>> : k \in added}
<1>1. /\ hSt' = [l \in HLoops |-> IF l \in started THEN "wait" ELSE hSt[l]]
      /\ hSpawned' = [k \in Targets |-> hSpawned[k] + IF k \in added THEN 1 ELSE 0]
  BY Zenon DEF HTTPUpdate
<1>2. \A l \in HLoops : l \in started <=> l[1] \in added /\ l[2] = hSpawned[l[1]] + 1
  BY DEF HLoops
<1> HIDE DEF started, added
<1>3. HTypes'
  BY <1>1 DEF HTypes
<1>4. HStarted'
  <2>1. ASSUME NEW l \in HLoops
        PROVE  hSt'[l] = "none" <=> l[2] > hSpawned'[l[1]]
    <3>1. l[1] \in Targets /\ l[2] \in Nat /\ hSpawned[l[1]] \in Nat
      BY HLoopParts, Zenon DEF HTypes
    <3>2. hSt[l] = "none" <=> l[2] > hSpawned[l[1]]
      BY Zenon DEF HStarted
    <3> QED
      BY <1>1, <1>2, <3>1, <3>2
  <2> QED
    BY <2>1, Zenon DEF HStarted
<1>5. HSuccesses'
  <2>1. ASSUME NEW l \in HLoops
        PROVE  /\ hLeft'[l] + hNow'[l] <= RequestsPerProbe
               /\ hSt'[l] # "probing" => hNow'[l] = 0
    <3>1. l \in started => hSt[l] = "none"
      <4>1. hSpawned[l[1]] \in Nat
        BY HLoopParts, Zenon DEF HTypes
      <4> QED
        BY <1>2, <4>1 DEF HStarted
    <3> QED
      BY <1>1, <3>1, Zenon DEF HSuccesses
  <2> QED
    BY <2>1, Zenon DEF HSuccesses
<1> QED
  BY <1>3, <1>4, <1>5, Zenon

\* A step of one loop, by what it does to the loop's state and successes.
LEMMA HTTPLoopInv ==
  ASSUME HTTPInv, NEW l \in HLoops,
         NEW v \in {"wait", "probing", "export", "ssl", "exited"}, NEW n \in Nat, NEW m \in Nat,
         hSt[l] # "none", hSt' = [hSt EXCEPT ![l] = v],
         hLeft' = [hLeft EXCEPT ![l] = n], hNow' = [hNow EXCEPT ![l] = m],
         n + m <= RequestsPerProbe, v # "probing" => m = 0,
         hSuccess' \in [HLoops -> Nat], hSslChan' \in Nat,
         hDataChan' \in Seq([loop : HLoops, success : Nat]), UNCHANGED hSpawned
  PROVE  HTTPInv'
<1> USE DEF HTTPInv
<1>1. HTypes'
  BY Zenon DEF HTypes
<1>2. \A k \in HLoops : /\ hSt'[k] = IF k = l THEN v ELSE hSt[k]
                        /\ hLeft'[k] = IF k = l THEN n ELSE hLeft[k]
                        /\ hNow'[k] = IF k = l THEN m ELSE hNow[k]
  BY Zenon DEF HTypes
<1>3. HSuccesses'
  BY <1>2 DEF HSuccesses
<1>4. HStarted'
  BY <1>2 DEF HStarted
<1> QED
  BY <1>1, <1>3, <1>4, Zenon

\* Every step of the HTTP probe keeps HTTPInv.
LEMMA HTTPStep == HTTPInv /\ [HTTPNext]_<<httpVars, envVars>> => HTTPInv'
<1> SUFFICES ASSUME HTTPInv, [HTTPNext]_<<httpVars, envVars>> PROVE HTTPInv'
  BY Zenon
<1>0. HTypes /\ HSuccesses
  BY Zenon DEF HTTPInv
<1>1. ASSUME UNCHANGED <<hSpawned, hSt, hLeft, hNow, hSuccess, hDataChan, hSslChan>>
      PROVE  HTTPInv'
  BY <1>1, Zenon DEF HTTPInv, HTypes, HSuccesses, HStarted
<1>2. CASE HTTPBegin \/ HTTPTick
  BY <1>2, HTTPUpdateInv, Zenon DEF HTTPBegin, HTTPTick, hChanVars
<1>3. CASE HTTPInitial
  BY <1>1, <1>3, HTTPUpdateInv, Zenon DEF HTTPInitial, hChanVars
<1>4. CASE HTTPStop
  BY <1>1, <1>4, Zenon DEF HTTPStop, hChanVars, hResVars
<1>5. ASSUME NEW l \in HLoops, HTTPCheckCtx(l) PROVE HTTPInv'
  <2>1. PICK v \in {"exited", "probing"} : hSt' = [hSt EXCEPT ![l] = v]
    BY <1>5, Zenon DEF HTTPCheckCtx
  <2>2. PICK n \in {0, RequestsPerProbe} : hLeft' = [hLeft EXCEPT ![l] = n]
    BY <1>5, Zenon DEF HTTPCheckCtx
  <2>3. hNow[l] = 0 /\ hNow' = hNow /\ hSt[l] = "wait"
    BY <1>0, <1>5, Zenon DEF HTTPCheckCtx, HSuccesses
  <2>4. hNow' = [hNow EXCEPT ![l] = 0]
    BY <1>0, <2>3, Zenon DEF HTypes
  <2>5. UNCHANGED <<hSpawned, hSuccess, hDataChan, hSslChan>>
    BY <1>5, Zenon DEF HTTPCheckCtx, hSchedVars, hChanVars
  <2>6. /\ v \in {"wait", "probing", "export", "ssl", "exited"} /\ hSt[l] # "none"
        /\ n \in Nat /\ 0 \in Nat /\ n + 0 <= RequestsPerProbe
    BY <2>3, HTTPAssumption
  <2>7. /\ hSuccess' \in [HLoops -> Nat] /\ hSslChan' \in Nat
        /\ hDataChan' \in Seq([loop : HLoops, success : Nat])
    BY <1>0, <2>5, Zenon DEF HTypes
  <2> QED
    BY <2>1, <2>2, <2>4, <2>5, <2>6, <2>7, HTTPLoopInv, Zenon
<1>6. ASSUME NEW l \in HLoops, HTTPRequest(l) PROVE HTTPInv'
  <2>1. PICK ok \in {0, 1} : hNow' = [hNow EXCEPT ![l] = @ + ok]
    BY <1>6, Zenon DEF HTTPRequest
  <2>2. hSt[l] = "probing" /\ hSt' = [hSt EXCEPT ![l] = "probing"]
    BY <1>0, <1>6, Zenon DEF HTTPRequest, HTypes
  <2>3. hLeft[l] \in Nat /\ hLeft[l] > 0 /\ hNow[l] \in Nat /\ hLeft[l] + hNow[l] <= RequestsPerProbe
    BY <1>0, <1>6, Zenon DEF HTTPRequest, HTypes, HSuccesses
  <2>4. hLeft' = [hLeft EXCEPT ![l] = hLeft[l] - 1] /\ hNow' = [hNow EXCEPT ![l] = hNow[l] + ok]
    BY <1>6, <2>1, Zenon DEF HTTPRequest
  <2>5. /\ hLeft[l] - 1 \in Nat /\ hNow[l] + ok \in Nat
        /\ hLeft[l] - 1 + (hNow[l] + ok) <= RequestsPerProbe
    BY <2>3, HTTPAssumption
  <2>6. UNCHANGED <<hSpawned, hSuccess, hDataChan, hSslChan>>
    BY <1>6, Zenon DEF HTTPRequest, hSchedVars, hChanVars
  <2> QED
    BY <1>0, <2>2, <2>4, <2>5, <2>6, HTTPLoopInv, Zenon DEF HTypes
<1>7. ASSUME NEW l \in HLoops, HTTPRunDone(l) PROVE HTTPInv'
  <2>1. PICK v \in {"export", "wait"} : hSt' = [hSt EXCEPT ![l] = v]
    BY <1>7, Zenon DEF HTTPRunDone
  <2>2. hSt[l] = "probing" /\ hNow' = [hNow EXCEPT ![l] = 0] /\ hLeft[l] = 0 /\ hLeft' = hLeft
    BY <1>7, Zenon DEF HTTPRunDone
  <2>3. hLeft' = [hLeft EXCEPT ![l] = 0]
    BY <1>0, <2>2, Zenon DEF HTypes
  <2>4. hSuccess' \in [HLoops -> Nat]
    BY <1>0, <1>7 DEF HTTPRunDone, HTypes
  <2>5. UNCHANGED <<hSpawned, hDataChan, hSslChan>>
    BY <1>7, Zenon DEF HTTPRunDone, hSchedVars, hChanVars
  <2>6. /\ v \in {"wait", "probing", "export", "ssl", "exited"} /\ hSt[l] # "none"
        /\ 0 \in Nat /\ 0 + 0 <= RequestsPerProbe
    BY <2>2, HTTPAssumption
  <2>7. hSslChan' \in Nat /\ hDataChan' \in Seq([loop : HLoops, success : Nat])
    BY <1>0, <2>5, Zenon DEF HTypes
  <2> QED
    BY <2>1, <2>2, <2>3, <2>4, <2>5, <2>6, <2>7, HTTPLoopInv, Zenon
<1>8. ASSUME NEW l \in HLoops, HTTPExport(l) \/ HTTPExportSsl(l) PROVE HTTPInv'
  <2>1. PICK v \in {"ssl", "wait"} : hSt' = [hSt EXCEPT ![l] = v]
    BY <1>8, Zenon DEF HTTPExport, HTTPExportSsl
  <2>2. hSt[l] \in {"export", "ssl"} /\ UNCHANGED <<hLeft, hNow, hSuccess, hSpawned>>
    BY <1>8, Zenon DEF HTTPExport, HTTPExportSsl, hSchedVars
  <2>3. hNow[l] = 0 /\ hLeft[l] \in Nat /\ hLeft[l] + 0 <= RequestsPerProbe
    BY <1>0, <2>2, Zenon DEF HTypes, HSuccesses
  <2>4. hLeft' = [hLeft EXCEPT ![l] = hLeft[l]] /\ hNow' = [hNow EXCEPT ![l] = 0]
    BY <1>0, <2>2, <2>3, Zenon DEF HTypes
  <2>5. hDataChan' \in Seq([loop : HLoops, success : Nat]) /\ hSslChan' \in Nat
    <3>1. CASE HTTPExport(l)
      <4> DEFINE em == [loop |-> l, success |-> hSuccess[l]]
      <4>1. em \in [loop : HLoops, success : Nat]
        BY <1>0, Zenon DEF HTypes
      <4>2. hDataChan' = Append(hDataChan, em) /\ hSslChan' = hSslChan
        BY <3>1, Zenon DEF HTTPExport
      <4> HIDE DEF em
      <4> QED
        BY <1>0, <4>1, <4>2 DEF HTypes
    <3>2. CASE HTTPExportSsl(l)
      BY <1>0, <3>2 DEF HTTPExportSsl, HTypes
    <3> QED
      BY <1>8, <3>1, <3>2, Zenon
  <2>6. /\ hSuccess' \in [HLoops -> Nat] /\ UNCHANGED hSpawned
        /\ v \in {"wait", "probing", "export", "ssl", "exited"} /\ hSt[l] # "none" /\ 0 \in Nat
    BY <1>0, <2>2, Zenon DEF HTypes
  <2> QED
    BY <2>1, <2>2, <2>3, <2>4, <2>5, <2>6, HTTPLoopInv, Zenon
<1>9. CASE HTTPSurface
  <2>1. UNCHANGED <<hSpawned, hSt, hLeft, hNow, hSuccess>>
    BY <1>9, Zenon DEF HTTPSurface, hSchedVars, hResVars
  <2>2. hDataChan' \in Seq([loop : HLoops, success : Nat]) /\ hSslChan' \in Nat
    <3>1. CASE hDataChan # <<>> /\ hDataChan' = Tail(hDataChan) /\ hSslChan' = hSslChan
      BY <1>0, <3>1 DEF HTypes
    <3>2. CASE hSslChan > 0 /\ hSslChan' = hSslChan - 1 /\ hDataChan' = hDataChan
      BY <1>0, <3>2 DEF HTypes
    <3> QED
      BY <1>9, <3>1, <3>2, Zenon DEF HTTPSurface
  <2> QED
    BY <2>1, <2>2, Zenon DEF HTTPInv, HTypes, HSuccesses, HStarted
<1>10. CASE (ListChange \/ EndContext) /\ UNCHANGED httpVars
  BY <1>1, <1>10, Zenon DEF httpVars, hSchedVars, hResVars, hChanVars
<1>11. CASE UNCHANGED <<httpVars, envVars>>
  BY <1>1, <1>11, Zenon DEF httpVars, hSchedVars, hResVars, hChanVars
<1> QED
  BY <1>2, <1>3, <1>4, <1>5, <1>6, <1>7, <1>8, <1>9, <1>10, <1>11, Zenon DEF HTTPNext

\* What the scheduler's st is.
MappedSt == [l \in HLoops |-> IF hSt[l] = "ssl" THEN "wait" ELSE hSt[l]]

\* A change of one loop is a change of that loop to the scheduler.
LEMMA MappedStep ==
  ASSUME HTypes, NEW l \in HLoops, NEW v, hSt' = [hSt EXCEPT ![l] = v]
  PROVE  MappedSt' = [MappedSt EXCEPT ![l] = IF v = "ssl" THEN "wait" ELSE v]
<1>1. \A m \in HLoops : hSt'[m] = IF m = l THEN v ELSE hSt[m]
  BY Zenon DEF HTypes
<1>2. \A m \in HLoops : MappedSt'[m] = [MappedSt EXCEPT ![l] = IF v = "ssl" THEN "wait" ELSE v][m]
  BY <1>1, Zenon DEF MappedSt
<1> QED
  BY <1>2, Zenon DEF MappedSt

\* updateTargetsAndStartProbes does what the scheduler's refreshTargets does.
LEMMA HTTPUpdateRefreshes ==
  ASSUME HTTPInv, HTTPUpdate
  PROVE  Sched!refreshTargets
<1> DEFINE added == {k \in listed : hCancelFuncs[k] = 0}
           started == {<<k, hSpawned[k] + 1>> : k \in added}
<1>1. added = Sched!Added
  BY Zenon DEF Sched!Added
<1>2. hTargets' = listed /\ Sched!CancelDeleted /\ Sched!UpdateCancelFuncs
  BY Zenon DEF HTTPUpdate, Sched!CancelDeleted, Sched!UpdateCancelFuncs, Sched!Deleted, Sched!Added
<1>3. hSpawned' = [k \in Targets |-> hSpawned[k] + IF k \in added THEN 1 ELSE 0]
  BY Zenon DEF HTTPUpdate
<1>4. hSt' = [l \in HLoops |-> IF l \in started THEN "wait" ELSE hSt[l]]
  BY Zenon DEF HTTPUpdate
<1>5. MappedSt' = [l \in HLoops |-> IF l \in started THEN "wait" ELSE MappedSt[l]]
  <2> HIDE DEF started
  <2> QED
    BY <1>4, Zenon DEF MappedSt
<1>6. Sched!StartAdded
  <2>1. started = {<<k, hSpawned[k] + 1>> : k \in Sched!Added}
    BY <1>1, Zenon
  <2> HIDE DEF added, started
  <2> QED
    BY <1>1, <1>3, <1>5, <2>1, Zenon DEF Sched!StartAdded, Sched!Loops, HLoops, MappedSt
<1> QED
  BY <1>2, <1>6, Zenon DEF Sched!refreshTargets

\* Every step of the HTTP probe is one of the scheduler or leaves its state alone.
LEMMA HTTPStepMaps ==
  HTTPInv /\ [HTTPNext]_<<httpVars, envVars>> => [Sched!Next]_(Sched!schedVars)
<1> SUFFICES ASSUME HTTPInv, [HTTPNext]_<<httpVars, envVars>>
             PROVE  Sched!Next \/ UNCHANGED Sched!schedVars
  BY Zenon
<1>0. HTypes /\ HSuccesses
  BY Zenon DEF HTTPInv
<1>1. ASSUME UNCHANGED <<envVars, hSchedVars, hRunCnt, hSuccess, hDataChan, hSeen>>,
             MappedSt' = MappedSt
      PROVE  UNCHANGED Sched!schedVars
  BY <1>1, Zenon DEF Sched!schedVars, envVars, hSchedVars, MappedSt
<1>2. CASE HTTPBegin
  BY <1>2, HTTPUpdateRefreshes, Zenon DEF HTTPBegin, Sched!Begin, Sched!Next, hChanVars, envVars
<1>3. CASE HTTPInitial
  <2>1. CASE HTTPUpdate /\ ~ctxDone /\ hTargets = {} /\ hPc' = hPc
    BY <1>3, <2>1, HTTPUpdateRefreshes, Zenon
    DEF HTTPInitial, Sched!Initial, Sched!Next, hChanVars, envVars
  <2>2. CASE /\ ctxDone \/ hTargets # {}
             /\ hPc' = IF ctxDone THEN "waiting" ELSE "ticking"
             /\ UNCHANGED <<hTargets, hCancelled, hSpawned, hCancelFuncs, hSt, hReq>>
    BY <1>3, <2>2, Zenon DEF HTTPInitial, Sched!Initial, Sched!Next, hChanVars, envVars
  <2> QED
    BY <1>3, <2>1, <2>2, Zenon DEF HTTPInitial
<1>4. CASE HTTPTick
  BY <1>4, HTTPUpdateRefreshes, Zenon DEF HTTPTick, Sched!Tick, Sched!Next, hChanVars, envVars
<1>5. CASE HTTPStop
  <2>1. CASE hPc = "ticking" /\ ctxDone /\ hPc' = "waiting"
    BY <1>5, <2>1, Zenon DEF HTTPStop, Sched!Stop, Sched!Next, hResVars, hChanVars, envVars
  <2>2. CASE /\ hPc = "waiting" /\ \A l \in HLoops : hSt[l] \in {"none", "exited"}
             /\ hPc' = "returned"
    <3>1. Sched!Alive = {}
      BY <2>2, Zenon DEF Sched!Alive, Sched!Loops, HLoops
    <3> QED
      BY <1>5, <2>2, <3>1, Zenon DEF HTTPStop, Sched!Wait, Sched!Next, hResVars, hChanVars, envVars
  <2> QED
    BY <1>5, <2>1, <2>2, Zenon DEF HTTPStop
<1>6. ASSUME NEW l \in HLoops, HTTPCheckCtx(l) PROVE Sched!Next
  <2>1. MappedSt' = [MappedSt EXCEPT ![l] = IF HStopped(l) THEN "exited" ELSE "probing"]
    BY <1>0, <1>6, MappedStep, Zenon DEF HTTPCheckCtx
  <2>2. MappedSt[l] = "wait" /\ (HStopped(l) \/ hRunCnt[l] < MaxRuns)
    BY <1>6, Zenon DEF HTTPCheckCtx, MappedSt
  <2>3. Sched!CheckCtx(l)
    BY <1>6, <2>1, <2>2, Zenon
    DEF HTTPCheckCtx, Sched!CheckCtx, Sched!Stopped, HStopped, MappedSt, hSchedVars, hChanVars,
        envVars
  <2> QED
    BY <2>3, Zenon DEF Sched!Next, Sched!Loops, HLoops
<1>7. ASSUME NEW l \in HLoops, HTTPRequest(l) PROVE UNCHANGED Sched!schedVars
  BY <1>1, <1>7, Zenon DEF HTTPRequest, hChanVars, MappedSt
<1>8. ASSUME NEW l \in HLoops, HTTPRunDone(l) PROVE Sched!Next
  <2>1. MappedSt' = [MappedSt EXCEPT ![l] = IF hRunCnt'[l] % statsExportFrequency = 0
                                            THEN "export" ELSE "wait"]
    BY <1>0, <1>8, MappedStep, Zenon DEF HTTPRunDone
  <2>2. MappedSt[l] = "probing"
    BY <1>8, Zenon DEF HTTPRunDone, MappedSt
  <2>3. hNow[l] \in 0 .. RequestsPerProbe
    BY <1>0, HTTPAssumption DEF HTypes, HSuccesses
  <2>4. \E ok \in 0 .. RequestsPerProbe : hSuccess' = [hSuccess EXCEPT ![l] = @ + ok]
    BY <1>8, <2>3, Zenon DEF HTTPRunDone
  <2>5. Sched!RunProbe(l)
    BY <1>8, <2>1, <2>2, <2>4, Zenon
    DEF HTTPRunDone, Sched!RunProbe, MappedSt, hSchedVars, hChanVars, envVars
  <2> QED
    BY <2>5, Zenon DEF Sched!Next, Sched!Loops, HLoops
<1>9. ASSUME NEW l \in HLoops, HTTPExport(l) PROVE Sched!Next
  <2>1. MappedSt' = [MappedSt EXCEPT ![l] = "wait"]
    <3>1. CASE hSt' = [hSt EXCEPT ![l] = "ssl"]
      BY <1>0, <3>1, MappedStep, Zenon
    <3>2. CASE hSt' = [hSt EXCEPT ![l] = "wait"]
      BY <1>0, <3>2, MappedStep, Zenon
    <3> QED
      BY <1>9, <3>1, <3>2, Zenon DEF HTTPExport
  <2>2. MappedSt[l] = "export"
    BY <1>9, Zenon DEF HTTPExport, MappedSt
  <2>3. Len(hDataChan) < ChanCap
    <3>1. Len(hDataChan) \in Nat /\ hSslChan \in Nat
      BY <1>0 DEF HTypes
    <3> QED
      BY <1>9, <3>1, HTTPAssumption DEF HTTPExport, Room
  <2>4. Sched!Export(l)
    BY <1>9, <2>1, <2>2, <2>3, Zenon DEF HTTPExport, Sched!Export, MappedSt, hSchedVars, envVars
  <2> QED
    BY <2>4, Zenon DEF Sched!Next, Sched!Loops, HLoops
<1>10. ASSUME NEW l \in HLoops, HTTPExportSsl(l) PROVE UNCHANGED Sched!schedVars
  <2>1. MappedSt' = [MappedSt EXCEPT ![l] = "wait"]
    BY <1>0, <1>10, MappedStep, Zenon DEF HTTPExportSsl
  <2>2. MappedSt' = MappedSt
    BY <1>10, <2>1, Zenon DEF HTTPExportSsl, MappedSt
  <2> QED
    BY <1>1, <1>10, <2>2, Zenon DEF HTTPExportSsl
<1>11. CASE HTTPSurface
  <2>1. CASE hDataChan # <<>> /\ hDataChan' = Tail(hDataChan)
    BY <1>11, <2>1 DEF HTTPSurface, Sched!Surface, Sched!Next, hSchedVars, hResVars, envVars
  <2>2. CASE UNCHANGED <<hDataChan, hSeen>>
    BY <1>1, <1>11, <2>2, Zenon DEF HTTPSurface, hResVars, MappedSt
  <2> QED
    BY <1>11, <2>1, <2>2, Zenon DEF HTTPSurface
<1>12. CASE ListChange /\ UNCHANGED httpVars
  BY <1>12, Zenon DEF ListChange, Sched!ListChange, Sched!Next, httpVars, hSchedVars, hResVars, hChanVars
<1>13. CASE EndContext /\ UNCHANGED httpVars
  BY <1>13, Zenon DEF EndContext, Sched!EndContext, Sched!Next, httpVars, hSchedVars, hResVars, hChanVars
<1>14. CASE UNCHANGED <<httpVars, envVars>>
  BY <1>1, <1>14, Zenon DEF httpVars, hResVars, hChanVars, MappedSt
<1> QED
  BY <1>2, <1>3, <1>4, <1>5, <1>6, <1>7, <1>8, <1>9, <1>10, <1>11, <1>12, <1>13, <1>14, Zenon
  DEF HTTPNext

\* The HTTP probe's own loops (probes/http, Start and startForTarget) implement the
\* scheduler that the other probes share (probes/common/sched), with any number of
\* targets, requests per run, certificates and list changes.
THEOREM HTTPRefinesScheduler == HTTPSpec => HTTPImplementsScheduler
<1>1. EnvInit /\ HTTPInit => Sched!Init
  BY Zenon DEF EnvInit, HTTPInit, Sched!Init, Sched!Loops, HLoops
<1> QED
  BY <1>1, HTTPInitInv, HTTPStep, HTTPStepMaps, PTL
  DEF HTTPSpec, HTTPImplementsScheduler, Sched!Spec

\* The theorems of SchedulerProofs, for the HTTP probe's variables.
SchedThms == INSTANCE SchedulerProofs WITH
  pc <- hPc, targets <- hTargets, cancelFuncs <- hCancelFuncs, spawned <- hSpawned,
  st <- [l \in HLoops |-> IF hSt[l] = "ssl" THEN "wait" ELSE hSt[l]],
  runCnt <- hRunCnt, success <- hSuccess, cancelled <- hCancelled,
  DataChan <- hDataChan, seen <- hSeen, MaxSuccesses <- RequestsPerProbe

\* The two instances of the scheduler have the same steps.
LEMMA SameScheduler ==
  [Sched!Next]_(Sched!schedVars) => [SchedThms!Next]_(SchedThms!schedVars)
<1> USE DEF Sched!Loops, SchedThms!Loops, Sched!schedVars, SchedThms!schedVars
<1>1. Sched!refreshTargets <=> SchedThms!refreshTargets
  BY Zenon DEF Sched!refreshTargets, Sched!CancelDeleted, Sched!StartAdded, Sched!UpdateCancelFuncs,
         Sched!Added, Sched!Deleted, SchedThms!refreshTargets, SchedThms!CancelDeleted,
         SchedThms!StartAdded, SchedThms!UpdateCancelFuncs, SchedThms!Added, SchedThms!Deleted
<1>2. /\ Sched!Begin <=> SchedThms!Begin
      /\ Sched!Initial <=> SchedThms!Initial
      /\ Sched!Tick <=> SchedThms!Tick
  BY <1>1, Zenon DEF Sched!Begin, Sched!Initial, Sched!Tick, SchedThms!Begin, SchedThms!Initial,
              SchedThms!Tick
<1>3. /\ Sched!Stop <=> SchedThms!Stop
      /\ Sched!Wait <=> SchedThms!Wait
      /\ Sched!Surface <=> SchedThms!Surface
      /\ Sched!ListChange <=> SchedThms!ListChange
      /\ Sched!EndContext <=> SchedThms!EndContext
  BY Zenon DEF Sched!Stop, SchedThms!Stop, Sched!Wait, SchedThms!Wait, Sched!Surface,
               SchedThms!Surface, Sched!ListChange, SchedThms!ListChange, Sched!EndContext,
               SchedThms!EndContext, Sched!Alive, SchedThms!Alive
<1>4. ASSUME NEW l \in HLoops
      PROVE  /\ Sched!CheckCtx(l) <=> SchedThms!CheckCtx(l)
             /\ Sched!RunProbe(l) <=> SchedThms!RunProbe(l)
             /\ Sched!Export(l) <=> SchedThms!Export(l)
  BY Zenon DEF Sched!CheckCtx, Sched!RunProbe, Sched!Export, SchedThms!CheckCtx,
               SchedThms!RunProbe, SchedThms!Export, Sched!Stopped, SchedThms!Stopped
<1> QED
  BY <1>2, <1>3, <1>4, Zenon DEF Sched!Next, SchedThms!Next, HLoops

\* So what is proved of the shared scheduler holds of the HTTP probe: its loops are
\* neither doubled nor leaked nor missing, a cancelled one runs at most once more,
\* and Start returns only when all have.
THEOREM HTTPLoopsAreScheduled ==
  HTTPSpec => [](/\ SchedThms!OneLoopPerTarget /\ SchedThms!EveryTargetHasLoop
                 /\ SchedThms!StopsWithinOneRun /\ SchedThms!ReturnsWhenAllStopped)
<1>1. SchedThms!SchedulerAssumption
  BY EnvAssumption, HTTPAssumption, Zenon DEF SchedThms!SchedulerAssumption
<1>2. Sched!Init => SchedThms!Init
  BY Zenon DEF Sched!Init, SchedThms!Init, Sched!Loops, SchedThms!Loops
<1>3. SchedThms!Spec => []SchedThms!OneLoopPerTarget
  BY <1>1, SchedThms!LoopsNotDoubled, Zenon DEF SchedThms!SchedulerAssumption
<1>4. SchedThms!Spec => []SchedThms!EveryTargetHasLoop
  BY <1>1, SchedThms!LoopsNotMissing, Zenon DEF SchedThms!SchedulerAssumption
<1>5. SchedThms!Spec => []SchedThms!StopsWithinOneRun
  BY <1>1, SchedThms!LoopsStop, Zenon DEF SchedThms!SchedulerAssumption
<1>6. SchedThms!Spec => []SchedThms!ReturnsWhenAllStopped
  BY <1>1, SchedThms!WaitsForLoops, Zenon DEF SchedThms!SchedulerAssumption
<1> QED
  BY <1>2, <1>3, <1>4, <1>5, <1>6, SameScheduler, HTTPRefinesScheduler, PTL
  DEF Sched!Spec, SchedThms!Spec, HTTPImplementsScheduler

-----------------------------------------------------------------------------
(* HTTP requests and their tokens *)

\* Do the tokens of the backend live for longer than the expiry buffer?
LongLived == \A ttl \in TTLs : ttl > ExpiryBuffer

\* A token that is good for as long as the buffer after a time.
GoodSince(tok, time) == LongLived /\ tok.expiry # -1 => tok.expiry > time + ExpiryBuffer

TokenTypes ==
  /\ tkSource \in TkSources
  /\ tkNow \in Int /\ tkSince \in [TkCallers -> Int]
  /\ tkPc \in [TkCallers -> {"idle", "fetch", "set", "have", "error"}]
  /\ DOMAIN tkTok = TkCallers /\ DOMAIN tkFailed = TkCallers
  /\ DOMAIN tkFetched = TkCallers \union {"refresher"}
  /\ tkCache # NoToken => tkCache.expiry \in Int
  /\ \A c \in TkCallers : tkTok[c] # NoToken => tkTok[c].expiry \in Int
  /\ \A c \in DOMAIN tkFetched : tkFetched[c] # NoToken => tkFetched[c].expiry \in Int
  /\ rqPc \in [TkCallers -> {"idle", "token", "ready", "sent", "done"}]
  /\ DOMAIN rqSent = TkCallers

\* What a caller got from the backend, and what it returns, is good since it asked.
TokensGood ==
  \A c \in TkCallers :
    /\ tkSince[c] <= tkNow
    /\ tkPc[c] = "set" => tkFetched[c] # NoToken /\ GoodSince(tkFetched[c], tkSince[c])
    /\ tkPc[c] = "have" /\ ~tkFailed[c] => GoodSince(tkTok[c], tkSince[c])
    /\ tkPc[c] = "have" => tkTok[c] # NoToken

\* A request is sent after its call of the token source has returned.
SentGood ==
  \A r \in TkCallers :
    /\ tkPc[r] \in {"fetch", "set"} => rqPc[r] = "token" /\ tkSource # "none"
    /\ rqSent[r] # RqNone =>
         /\ rqPc[r] \in {"sent", "done"} /\ rqSent[r].body = rqBody
         /\ rqSent[r].at \in Int
         /\ rqSent[r].token # NoToken => rqSent[r].token.expiry \in Int
         /\ rqSent[r].token # NoToken /\ ~tkFailed[r] => GoodSince(rqSent[r].token, tkSince[r])

RqInv == TokenTypes /\ TokensGood /\ SentGood

\* What a backend answers now is good since any earlier time.
LEMMA BackendFacts ==
  ASSUME tkSource \in TkSources, NEW now \in Int, NEW time \in Int, time <= now, NEW tok \in getToken(now), tok # NoToken
  PROVE  tok.expiry \in Int /\ GoodSince(tok, time)
<1>1. tok = Plain \/ \E text \in BOOLEAN, ttl \in TTLs : tok = [text |-> text, expiry |-> now + ttl]
  <2>1. CASE tkSource \in {"file", "cmd"}
    BY <2>1 DEF getToken, bytesToToken
  <2>2. CASE tkSource \in {"gce", "http"}
    BY <2>2 DEF getToken, tokenFromHTTP
  <2>3. CASE tkSource = "k8s"
    BY <2>3 DEF getToken
  <2>4. CASE tkSource = "none"
    BY <2>4 DEF getToken
  <2> QED
    BY <2>1, <2>2, <2>3, <2>4, TokenAssumption, Zenon
<1>2. CASE tok = Plain
  BY <1>2 DEF Plain, GoodSince
<1>3. ASSUME NEW text \in BOOLEAN, NEW ttl \in TTLs, tok = [text |-> text, expiry |-> now + ttl]
      PROVE  tok.expiry \in Int /\ GoodSince(tok, time)
  <2>1. tok.expiry = now + ttl /\ ttl \in Int
    BY <1>3, TokenAssumption
  <2>2. LongLived => ttl > ExpiryBuffer
    BY Zenon DEF LongLived
  <2> QED
    BY <2>1, <2>2, TokenAssumption DEF GoodSince
<1> QED
  BY <1>1, <1>2, <1>3, Zenon

\* The initial states of the requests and of the token source.
LEMMA RqInitInv == RqInit => RqInv
<1> SUFFICES ASSUME RqInit PROVE RqInv
  BY Zenon
<1>1. tkCache # NoToken => tkCache.expiry \in Int
  <2>1. tkCache # NoToken => tkCache \in getToken(0)
    BY Zenon DEF RqInit, TkInit
  <2> QED
    BY <2>1, BackendFacts DEF RqInit, TkInit
<1>2. tkNow = 0 /\ \A c \in TkCallers : tkSince[c] = 0
  BY Zenon DEF RqInit, TkInit
<1>3. TokenTypes
  <2>1. tkNow \in Int /\ tkSince \in [TkCallers -> Int]
    BY DEF RqInit, TkInit
  <2>2. /\ tkPc \in [TkCallers -> {"idle", "fetch", "set", "have", "error"}]
        /\ rqPc \in [TkCallers -> {"idle", "token", "ready", "sent", "done"}]
    BY DEF RqInit, TkInit
  <2>3. /\ \A c \in TkCallers : tkTok[c] = NoToken
        /\ \A c \in DOMAIN tkFetched : tkFetched[c] = NoToken
        /\ DOMAIN tkTok = TkCallers /\ DOMAIN tkFailed = TkCallers /\ DOMAIN rqSent = TkCallers
        /\ DOMAIN tkFetched = TkCallers \union {"refresher"} /\ tkSource \in TkSources
    BY Zenon DEF RqInit, TkInit
  <2> QED
    BY <1>1, <2>1, <2>2, <2>3, Zenon DEF TokenTypes
<1>4. TokensGood
  <2>1. \A c \in TkCallers : tkPc[c] = "idle"
    BY Zenon DEF RqInit, TkInit
  <2> QED
    BY <1>2, <2>1 DEF TokensGood
<1>5. SentGood
  BY Zenon DEF RqInit, TkInit, SentGood
<1> QED
  BY <1>3, <1>4, <1>5, Zenon DEF RqInv

\* Time passes; the refreshing goroutine changes the cache and nothing that a caller
\* has.
LEMMA SourceStep ==
  RqInv /\ (TkTick \/ RefreshTick \/ RefreshSet) /\ UNCHANGED rqVars => RqInv'
<1> SUFFICES ASSUME RqInv, TkTick \/ RefreshTick \/ RefreshSet, UNCHANGED rqVars PROVE RqInv'
  BY Zenon
<1>1. UNCHANGED <<tkSource, tkPc, tkTok, tkSince, tkFailed, rqPc, rqSent, rqBody>>
  BY Zenon DEF rqVars, TkTick, RefreshTick, RefreshSet
<1>2. SentGood'
  BY <1>1, Zenon DEF RqInv, SentGood, GoodSince
<1>3. tkNow' \in Int /\ tkNow <= tkNow'
  <2>1. CASE TkTick
    BY <2>1 DEF TkTick, RqInv, TokenTypes
  <2>2. CASE RefreshTick \/ RefreshSet
    BY <2>2 DEF RefreshTick, RefreshSet, RqInv, TokenTypes
  <2> QED
    BY <2>1, <2>2, Zenon
<1>4. /\ DOMAIN tkFetched' = DOMAIN tkFetched
      /\ \A c \in TkCallers : tkFetched'[c] = tkFetched[c]
      /\ tkFetched'["refresher"] # NoToken => tkFetched'["refresher"].expiry \in Int
  <2>1. CASE RefreshTick
    <3>1. PICK tok \in getToken(tkNow) : tkFetched' = [tkFetched EXCEPT !["refresher"] = tok]
      BY <2>1, Zenon DEF RefreshTick
    <3>2. tok # NoToken => tok.expiry \in Int
      BY BackendFacts DEF RqInv, TokenTypes
    <3> QED
      BY <3>1, <3>2, TokenAssumption, Zenon DEF RqInv, TokenTypes
  <2>2. CASE TkTick \/ RefreshSet
    BY <2>2, Zenon DEF TkTick, RefreshSet, RqInv, TokenTypes
  <2> QED
    BY <2>1, <2>2, Zenon
<1>5. tkCache' # NoToken => tkCache'.expiry \in Int
  BY Zenon DEF TkTick, RefreshTick, RefreshSet, RqInv, TokenTypes
<1>6. TokenTypes'
  BY <1>1, <1>3, <1>4, <1>5, Zenon DEF RqInv, TokenTypes
<1>7. TokensGood'
  <2> SUFFICES ASSUME NEW c \in TkCallers PROVE TokensGood!(c)'
    BY Zenon DEF TokensGood
  <2>1. tkSince[c] \in Int /\ tkSince[c] <= tkNow /\ tkNow \in Int
    BY Zenon DEF RqInv, TokenTypes, TokensGood
  <2>2. tkSince'[c] <= tkNow'
    BY <1>1, <1>3, <2>1
  <2> QED
    BY <1>1, <1>4, <2>2, Zenon DEF RqInv, TokensGood, GoodSince
<1> QED
  BY <1>2, <1>6, <1>7, Zenon DEF RqInv

\* A call of the token source: the cached token is good from now on, or the backend
\* is asked.
LEMMA TokenBeginStep ==
  ASSUME RqInv, NEW r \in TkCallers, RqToken(r)
  PROVE  RqInv'
<1>1. /\ tkPc' = [tkPc EXCEPT ![r] = IF StillGood(tkCache, tkNow) THEN "have" ELSE "fetch"]
      /\ tkTok' = [tkTok EXCEPT ![r] = tkCache]
      /\ tkSince' = [tkSince EXCEPT ![r] = tkNow] /\ tkFailed' = [tkFailed EXCEPT ![r] = FALSE]
      /\ UNCHANGED <<tkSource, tkNow, tkCache, tkFetched, rqPc, rqSent, rqBody>>
      /\ rqPc[r] = "token" /\ tkSource # "none"
  BY Zenon DEF RqToken, TokenBegin, rqVars
<1>2. TokenTypes'
  BY <1>1, Zenon DEF RqInv, TokenTypes
<1>3. StillGood(tkCache, tkNow) => tkCache # NoToken /\ GoodSince(tkCache, tkNow)
  BY TokenAssumption DEF StillGood, GoodSince, RqInv, TokenTypes
<1>4. TokensGood'
  <2> SUFFICES ASSUME NEW c \in TkCallers PROVE TokensGood!(c)'
    BY Zenon DEF TokensGood
  <2>1. CASE c # r
    BY <1>1, <2>1, Zenon DEF RqInv, TokenTypes, TokensGood, GoodSince
  <2>2. CASE c = r
    <3>1. /\ tkSince'[r] = tkNow /\ tkTok'[r] = tkCache
          /\ tkPc'[r] = IF StillGood(tkCache, tkNow) THEN "have" ELSE "fetch"
      BY <1>1, Zenon DEF RqInv, TokenTypes
    <3>2. tkNow <= tkNow
      BY DEF RqInv, TokenTypes
    <3>3. tkPc'[r] # "set" /\ tkSince'[r] <= tkNow'
      <4>1. tkSince'[r] <= tkNow'
        BY <1>1, <3>1, <3>2, Zenon
      <4>2. tkPc'[r] # "set"
        BY <3>1
      <4> QED
        BY <4>1, <4>2, Zenon
    <3>4. tkPc'[r] = "have" => StillGood(tkCache, tkNow)
      BY <3>1, Zenon
    <3>5. tkPc'[r] = "have" => tkTok'[r] # NoToken /\ GoodSince(tkTok'[r], tkSince'[r])
      BY <1>3, <3>1, <3>4, Zenon
    <3> QED
      BY <2>2, <3>3, <3>5, Zenon DEF GoodSince, LongLived
  <2> QED
    BY <2>1, <2>2, Zenon
<1>5. SentGood'
  <2> SUFFICES ASSUME NEW c \in TkCallers PROVE SentGood!(c)'
    BY Zenon DEF SentGood
  <2>1. CASE c # r
    BY <1>1, <2>1, Zenon DEF RqInv, TokenTypes, SentGood, GoodSince
  <2>2. CASE c = r
    BY <1>1, <2>2, Zenon DEF RqInv, SentGood
  <2> QED
    BY <2>1, <2>2, Zenon
<1> QED
  BY <1>2, <1>4, <1>5, Zenon DEF RqInv

\* The answer of the backend, and the set of the cache that follows it.
LEMMA TokenFetchStep ==
  ASSUME RqInv, NEW r \in TkCallers, TokenFetch(r), UNCHANGED rqVars
  PROVE  RqInv'
<1>1. PICK tok \in getToken(tkNow) :
        /\ tkFetched' = [tkFetched EXCEPT ![r] = tok]
        /\ tkFailed' = [tkFailed EXCEPT ![r] = tok = NoToken]
        /\ tkPc' = [tkPc EXCEPT ![r] = CASE tok # NoToken -> "set"
                                         [] tok = NoToken /\ tkTok[r] # NoToken -> "have"
                                         [] OTHER -> "error"]
  BY Zenon DEF TokenFetch
<1>2. /\ UNCHANGED <<tkSource, tkNow, tkCache, tkTok, tkSince, rqPc, rqSent, rqBody>>
      /\ tkPc[r] = "fetch" /\ rqPc[r] = "token"
  BY Zenon DEF TokenFetch, rqVars, RqInv, SentGood
<1>3. tok # NoToken => tok.expiry \in Int /\ GoodSince(tok, tkSince[r])
  BY BackendFacts DEF RqInv, TokenTypes, TokensGood
<1>4. /\ tkPc'[r] \in {"set", "have", "error"} /\ (tkPc'[r] = "set" => tok # NoToken)
      /\ tkPc'[r] = "have" => tok = NoToken /\ tkTok[r] # NoToken
  <2>1. tkPc'[r] = CASE tok # NoToken -> "set"
                     [] tok = NoToken /\ tkTok[r] # NoToken -> "have"
                     [] OTHER -> "error"
    BY <1>1, Zenon DEF RqInv, TokenTypes
  <2> QED
    BY <2>1
<1>5. /\ tkFetched'[r] = tok /\ tkFailed'[r] = (tok = NoToken)
      /\ DOMAIN tkFetched' = DOMAIN tkFetched /\ DOMAIN tkFailed' = TkCallers /\ DOMAIN tkPc' = TkCallers
      /\ tkPc' \in [TkCallers -> {"idle", "fetch", "set", "have", "error"}]
      /\ \A c \in DOMAIN tkFetched : c # r => tkFetched'[c] = tkFetched[c]
      /\ \A c \in TkCallers : c # r => tkFailed'[c] = tkFailed[c] /\ tkPc'[c] = tkPc[c]
  BY <1>1, <1>4, Zenon DEF RqInv, TokenTypes
<1>6. TokenTypes'
  BY <1>2, <1>3, <1>5, Zenon DEF RqInv, TokenTypes
<1>7. TokensGood'
  <2> SUFFICES ASSUME NEW c \in TkCallers PROVE TokensGood!(c)'
    BY Zenon DEF TokensGood
  <2>1. CASE c # r
    BY <1>2, <1>5, <2>1, Zenon DEF RqInv, TokenTypes, TokensGood, GoodSince
  <2>2. CASE c = r
    <3>1. tkPc'[r] = "set" => tkFetched'[r] # NoToken /\ GoodSince(tkFetched'[r], tkSince'[r])
      BY <1>2, <1>3, <1>4, <1>5, Zenon
    <3>2. tkPc'[r] = "have" => tkFailed'[r] /\ tkTok'[r] # NoToken
      BY <1>2, <1>4, <1>5, Zenon
    <3>3. tkSince'[r] <= tkNow'
      BY <1>2, Zenon DEF RqInv, TokensGood
    <3> QED
      BY <2>2, <3>1, <3>2, <3>3, Zenon DEF GoodSince
  <2> QED
    BY <2>1, <2>2, Zenon
<1>8. SentGood'
  <2> SUFFICES ASSUME NEW c \in TkCallers PROVE SentGood!(c)'
    BY Zenon DEF SentGood
  <2>1. CASE c # r
    BY <1>2, <1>5, <2>1, Zenon DEF RqInv, SentGood, GoodSince
  <2>2. CASE c = r
    BY <1>2, <2>2, Zenon DEF RqInv, SentGood
  <2> QED
    BY <2>1, <2>2, Zenon
<1> QED
  BY <1>6, <1>7, <1>8, Zenon DEF RqInv

\* The cache is set to what the caller got, which it keeps.
LEMMA TokenSetStep ==
  ASSUME RqInv, NEW r \in TkCallers, TokenSet(r), UNCHANGED rqVars
  PROVE  RqInv'
<1>1. /\ tkPc[r] = "set" /\ tkPc' = [tkPc EXCEPT ![r] = "have"]
      /\ tkCache' = tkFetched[r] /\ tkTok' = [tkTok EXCEPT ![r] = tkFetched[r]]
      /\ UNCHANGED <<tkSource, tkNow, tkFetched, tkSince, tkFailed, rqPc, rqSent, rqBody>>
  BY Zenon DEF TokenSet, rqVars
<1>2. tkFetched[r] # NoToken /\ GoodSince(tkFetched[r], tkSince[r]) /\ tkFetched[r].expiry \in Int
  BY <1>1, Zenon DEF RqInv, TokenTypes, TokensGood
<1>3. TokenTypes'
  BY <1>1, <1>2, Zenon DEF RqInv, TokenTypes
<1>4. TokensGood'
  BY <1>1, <1>2, Zenon DEF RqInv, TokenTypes, TokensGood, GoodSince
<1>5. SentGood'
  BY <1>1, Zenon DEF RqInv, TokenTypes, SentGood, GoodSince
<1> QED
  BY <1>3, <1>4, <1>5, Zenon DEF RqInv

\* The steps of a run, and of its requests.
LEMMA RqRunStep == RqInv /\ RqRun => RqInv'
<1> SUFFICES ASSUME RqInv, RqRun PROVE RqInv'
  BY Zenon
<1>1. /\ rqPc' \in [TkCallers -> {"idle", "token", "ready", "sent", "done"}]
      /\ rqSent' = [r \in TkCallers |-> RqNone] /\ tkPc' = [r \in TkCallers |-> "idle"]
      /\ UNCHANGED <<tkSource, tkNow, tkCache, tkFetched, tkTok, tkSince, tkFailed>>
  BY DEF RqRun
<1>2. \A c \in TkCallers : tkPc'[c] = "idle" /\ rqSent'[c] = RqNone
  BY <1>1, Zenon
<1>3. tkPc' \in [TkCallers -> {"idle", "fetch", "set", "have", "error"}] /\ DOMAIN rqSent' = TkCallers
  BY <1>1, Zenon
<1>4. TokenTypes'
  BY <1>1, <1>3, Zenon DEF RqInv, TokenTypes
<1>5. TokensGood'
  BY <1>1, <1>2 DEF RqInv, TokensGood
<1>6. SentGood'
  BY <1>2 DEF SentGood
<1> QED
  BY <1>4, <1>5, <1>6, Zenon DEF RqInv

\* The other steps of a run: a request is ready to be sent, and one is answered.
LEMMA RqOtherStep ==
  ASSUME RqInv, NEW r \in TkCallers, RqPrepared(r) \/ RqDone(r)
  PROVE  RqInv'
<1>1. UNCHANGED <<tkVars, rqSent, rqBody>>
  BY Zenon DEF RqPrepared, RqDone, rqProbe
<1>2. PICK pc \in {"ready", "done"} :
        /\ rqPc' = [rqPc EXCEPT ![r] = pc] /\ tkPc[r] \notin {"fetch", "set"}
        /\ rqSent[r] # RqNone => pc = "done"
  <2>1. CASE RqPrepared(r)
    BY <2>1 DEF RqPrepared, RqInv, SentGood
  <2>2. CASE RqDone(r)
    BY <2>2 DEF RqDone, RqInv, SentGood
  <2> QED
    BY <2>1, <2>2, Zenon
<1>3. TokenTypes'
  BY <1>1, <1>2, Zenon DEF RqInv, TokenTypes, tkVars
<1>4. TokensGood'
  BY <1>1, Zenon DEF RqInv, TokensGood, GoodSince, tkVars
<1>5. SentGood'
  <2> SUFFICES ASSUME NEW c \in TkCallers PROVE SentGood!(c)'
    BY Zenon DEF SentGood
  <2>1. CASE c # r
    BY <1>1, <1>2, <2>1, Zenon DEF RqInv, TokenTypes, SentGood, GoodSince, tkVars
  <2>2. CASE c = r
    <3>1. rqPc'[r] = pc
      BY <1>2, Zenon DEF RqInv, TokenTypes
    <3> QED
      BY <1>1, <1>2, <2>2, <3>1, Zenon DEF RqInv, SentGood, GoodSince, tkVars
  <2> QED
    BY <2>1, <2>2, Zenon
<1> QED
  BY <1>3, <1>4, <1>5, Zenon DEF RqInv

\* What is sent is the whole body, and the token that the caller has.
LEMMA RqSendStep ==
  ASSUME RqInv, NEW r \in TkCallers, RqSend(r)
  PROVE  RqInv'
<1>1. UNCHANGED <<tkVars, rqBody>> /\ rqPc[r] = "ready" /\ rqPc' = [rqPc EXCEPT ![r] = "sent"]
  BY Zenon DEF RqSend, rqProbe
<1>2. PICK token :
        /\ rqSent' = [rqSent EXCEPT ![r] = [body |-> rqBody, at |-> tkNow, token |-> token]]
        /\ token = IF tkPc[r] = "have" /\ tkTok[r].text THEN tkTok[r] ELSE NoToken
  BY Zenon DEF RqSend, OwnBody
<1>3. TokenTypes'
  BY <1>1, <1>2, Zenon DEF RqInv, TokenTypes, tkVars
<1>4. TokensGood'
  BY <1>1, Zenon DEF RqInv, TokensGood, GoodSince, tkVars
<1>5. SentGood'
  <2> SUFFICES ASSUME NEW c \in TkCallers PROVE SentGood!(c)'
    BY Zenon DEF SentGood
  <2>1. CASE c # r
    BY <1>1, <1>2, <2>1, Zenon DEF RqInv, TokenTypes, SentGood, GoodSince, tkVars
  <2>2. CASE c = r
    <3>1. PICK sent : sent = [body |-> rqBody, at |-> tkNow, token |-> token]
      BY Zenon
    <3>2. sent.body = rqBody /\ sent.at = tkNow /\ sent.token = token
      BY <3>1
    <3>3. rqSent'[r] = sent /\ rqPc'[r] = "sent" /\ tkNow \in Int
      BY <1>1, <1>2, <3>1, Zenon DEF RqInv, TokenTypes
    <3>4. token # NoToken => tkPc[r] = "have" /\ token = tkTok[r]
      BY <1>2, Zenon
    <3>5. /\ token # NoToken => token.expiry \in Int
          /\ token # NoToken /\ ~tkFailed[r] => GoodSince(token, tkSince[r])
      BY <3>4, Zenon DEF RqInv, TokenTypes, TokensGood
    <3>6. tkPc[r] \notin {"fetch", "set"}
      BY <1>1 DEF RqInv, SentGood
    <3> QED
      BY <1>1, <2>2, <3>2, <3>3, <3>5, <3>6, Zenon DEF GoodSince, tkVars
  <2> QED
    BY <2>1, <2>2, Zenon
<1> QED
  BY <1>3, <1>4, <1>5, Zenon DEF RqInv

\* Every step keeps the invariant.
LEMMA RqStep == RqInv /\ [RqNext]_<<rqVars, tkVars>> => RqInv'
<1> SUFFICES ASSUME RqInv, [RqNext]_<<rqVars, tkVars>> PROVE RqInv'
  BY Zenon
<1>1. CASE UNCHANGED <<rqVars, tkVars>>
  BY <1>1, Zenon DEF rqVars, tkVars, RqInv, TokenTypes, TokensGood, SentGood, GoodSince
<1>2. CASE TkStep /\ UNCHANGED rqVars
  BY <1>2, SourceStep, TokenFetchStep, TokenSetStep, Zenon DEF TkStep
<1>3. ASSUME NEW r \in TkCallers, RqToken(r) \/ RqPrepared(r) \/ RqSend(r) \/ RqDone(r)
      PROVE  RqInv'
  BY <1>3, TokenBeginStep, RqOtherStep, RqSendStep, Zenon
<1> QED
  BY <1>1, <1>2, <1>3, RqRunStep, Zenon DEF RqNext

\* HTTPRequests: every request has the whole body and a token that has not expired,
\* for any number of requests and runs, and however callers and the refreshing
\* goroutine interleave at the cache (request.go prepareRequest, oauth.go
\* tokenCache, bearer.go, http.go).
THEOREM RequestsAreIntact == RqSpec => []RequestsIntact
<1>1. RqInv => RequestsIntact
  <2> SUFFICES ASSUME RqInv, NEW r \in TkCallers, rqSent[r] # RqNone
               PROVE  RequestsIntact!(r)!2
    BY Zenon DEF RequestsIntact
  <2>1. /\ rqSent[r].body = rqBody /\ rqSent[r].at \in Int /\ tkSince[r] \in Int
        /\ rqSent[r].token # NoToken => rqSent[r].token.expiry \in Int
        /\ rqSent[r].token # NoToken /\ ~tkFailed[r] => GoodSince(rqSent[r].token, tkSince[r])
    BY Zenon DEF RqInv, TokenTypes, SentGood
  <2> QED
    BY <2>1, TokenAssumption DEF GoodSince, LongLived
<1> QED
  BY <1>1, RqInitInv, RqStep, PTL DEF RqSpec
=============================================================================
