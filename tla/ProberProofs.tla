---------------------------- MODULE ProberProofs ----------------------------
(***************************************************************************)
(* Theorems about Prober and the surfacers that it feeds.  Prober: for every *)
(* set of names, callers and config; ProberInv is the inductive invariant  *)
(* of every behaviour, PatientInv that of behaviours whose clients wait for *)
(* pending starts.  The wrapper that surfacers are in, and AtomicInt: for  *)
(* every interleaving.  The surfacers that write lines: for every number of *)
(* writes and every size of a batch.  The rings of probestatus: for every  *)
(* size and resolution.                                                    *)
(***************************************************************************)
EXTENDS Prober, SurfacerWrapper, LineSurfacers, ProbeStatus, TLAPS

-----------------------------------------------------------------------------
(* Prober *)

\* What holds while Start has not finished ranging over pr.Probes: nothing
\* was started, and a probe written meanwhile is announced by its AddProbe.
BeforeStarted ==
  phase # "started" =>
    /\ jitter = {} /\ receiver = None
    /\ starts = [n \in Names |-> 0]
    /\ ~crashed => \A n \in touched : \E c \in Callers : sending[c] = n

ProberInv ==
  /\ TypeOK
  /\ probeCancelFunc = starts
  /\ BeforeStarted
  /\ NoStrandedProbe

\* One start at most is pending per name, it finds its probe in the database
\* and no other run; what runs is the latest start of the current ProbeInfo.
OnePending(n) ==
  /\ n \in jitter => receiver # n /\ \A c \in Callers : sending[c] # n
  /\ receiver = n => \A c \in Callers : sending[c] # n
  /\ \A c, d \in Callers : sending[c] = n /\ sending[d] = n => c = d

PatientInv ==
  /\ ~crashed
  /\ phase # "started" =>
       /\ touched = {}
       /\ \A c \in Callers : sending[c] = None
       /\ \A n \in Names : live[n] = {}
  /\ \A n \in Names :
       /\ OnePending(n)
       /\ Pending(n) => Probes[n] # 0 /\ live[n] = {}
       /\ Probes[n] = 0 => live[n] = {}
       /\ \A r \in live[n] : r = <<starts[n], Probes[n]>>
       /\ phase = "started" /\ Probes[n] # 0 /\ ~Pending(n) => starts[n] # 0

-----------------------------------------------------------------------------

\* startProbe keeps the types of what it writes.
LEMMA StartProbeType ==
  ASSUME TypeOK, NEW n \in Names, StartProbe(n)
  PROVE  /\ probeCancelFunc' \in [Names -> Nat]
         /\ starts' \in [Names -> Nat]
         /\ live' \in [Names -> SUBSET Run]
         /\ crashed' \in BOOLEAN
<1>1. CASE Probes[n] = 0
  BY <1>1, Zenon DEF StartProbe, TypeOK
<1>2. CASE Probes[n] # 0
  <2>1. starts' = [starts EXCEPT ![n] = @ + 1] /\ starts' \in [Names -> Nat]
    BY <1>2 DEF StartProbe, TypeOK
  <2>2. probeCancelFunc' = [probeCancelFunc EXCEPT ![n] = starts'[n]]
    BY <1>2, Zenon DEF StartProbe
  <2>3. probeCancelFunc' \in [Names -> Nat]
    BY <2>1, <2>2, Zenon DEF TypeOK
  <2>4. <<starts'[n], Probes[n]>> \in Run
    BY <2>1, Zenon DEF TypeOK, Run
  <2>5. live' = IF ctxDone THEN live
                ELSE [live EXCEPT ![n] = @ \cup {<<starts'[n], Probes[n]>>}]
    BY <1>2, Zenon DEF StartProbe
  <2>6. live' \in [Names -> SUBSET Run]
    BY <2>4, <2>5, Zenon DEF TypeOK
  <2>7. crashed' \in BOOLEAN
    BY <1>2, Zenon DEF StartProbe, TypeOK
  <2> QED
    BY <2>1, <2>3, <2>6, <2>7, Zenon
<1> QED
  BY <1>1, <1>2, Zenon

\* The type invariant is preserved by every step of the prober.
LEMMA TypeStep == TypeOK /\ [Next]_vars => TypeOK'
<1> SUFFICES ASSUME TypeOK, [Next]_vars PROVE TypeOK'
  BY Zenon
<1> USE DEF TypeOK
<1>1. CASE StartBegin
  BY <1>1, Zenon DEF StartBegin
<1>2. CASE StartEnd
  BY <1>2, Zenon DEF StartEnd
<1>3. ASSUME NEW n \in Names, JitterStart(n) PROVE TypeOK'
  <2>1. StartProbe(n)
    BY <1>3, Zenon DEF JitterStart
  <2> QED
    BY <1>3, <2>1, StartProbeType, Zenon DEF JitterStart
<1>4. ASSUME NEW c \in Callers, Receive(c) PROVE TypeOK'
  BY <1>4, Zenon DEF Receive
<1>5. CASE ReceiverStart
  <2>1. receiver \in Names /\ StartProbe(receiver)
    BY <1>5, Zenon DEF ReceiverStart
  <2> QED
    BY <1>5, <2>1, StartProbeType, Zenon DEF ReceiverStart
<1>6. CASE Shutdown
  BY <1>6, Zenon DEF Shutdown
<1>7. ASSUME NEW c \in Callers, NEW n \in Names, AddProbe(c, n) PROVE TypeOK'
  BY <1>7, ConstantsAssumption DEF AddProbe, addProbe, WriteProbes
<1>8. ASSUME NEW n \in Names, RemoveProbe(n) PROVE TypeOK'
  <2>1. CASE probeCancelFunc[n] = 0
    BY <1>8, <2>1, Zenon DEF RemoveProbe
  <2>2. CASE probeCancelFunc[n] # 0
    <3>1. live' = [live EXCEPT ![n] = {r \in @ : r[1] # probeCancelFunc[n]}]
      BY <1>8, <2>2, Zenon DEF RemoveProbe
    <3>2. live' \in [Names -> SUBSET Run]
      BY <3>1, Zenon
    <3>3. WriteProbes(n, 0)
      BY <1>8, <2>2, Zenon DEF RemoveProbe
    <3> QED
      BY <1>8, <3>2, <3>3, Zenon DEF RemoveProbe, WriteProbes
  <2> QED
    BY <2>1, <2>2, Zenon
<1>9. CASE UNCHANGED vars
  BY <1>9, Zenon DEF vars
<1> QED
  BY <1>1, <1>2, <1>3, <1>4, <1>5, <1>6, <1>7, <1>8, <1>9, Zenon DEF Next

\* The types hold when pr.Init has returned.
LEMMA TypeCorrectInit == Init => TypeOK
<1> SUFFICES ASSUME Init PROVE TypeOK
  BY Zenon
<1>1. Probes \in [Names -> Nat] /\ gen = Probes
  BY Zenon DEF Init
<1>2. live \in [Names -> SUBSET Run]
  BY Zenon DEF Init
<1> QED
  BY <1>1, <1>2, Zenon DEF Init, TypeOK

\* The prober's variables keep their types in every behaviour.
THEOREM TypeCorrect == Spec => []TypeOK
BY TypeCorrectInit, TypeStep, PTL DEF Spec

-----------------------------------------------------------------------------

\* What startProbe does to the start counters and to the runs: a start of an
\* absent probe panics, any other is the run its cancel function cancels.
LEMMA StartProbeEffect ==
  ASSUME TypeOK, probeCancelFunc = starts, NEW n \in Names, StartProbe(n)
  PROVE  /\ probeCancelFunc' = starts'
         /\ Probes[n] = 0 => crashed'
         /\ Probes[n] # 0 /\ ~ctxDone => \E r \in live'[n] : r[2] = Probes[n]
         /\ \A m \in Names : live[m] \subseteq live'[m]
<1>1. CASE Probes[n] = 0
  BY <1>1, Zenon DEF StartProbe
<1>2. CASE Probes[n] # 0
  <2> DEFINE new == <<starts'[n], Probes[n]>>
  <2>1. /\ starts' = [starts EXCEPT ![n] = @ + 1]
        /\ probeCancelFunc' = [probeCancelFunc EXCEPT ![n] = starts'[n]]
        /\ live' = IF ctxDone THEN live ELSE [live EXCEPT ![n] = @ \cup {new}]
    BY <1>2, Zenon DEF StartProbe
  <2>2. probeCancelFunc' = starts'
    BY <2>1, Zenon DEF TypeOK
  <2>3. \A m \in Names : live[m] \subseteq live'[m]
    BY <2>1, Zenon DEF TypeOK
  <2>4. ~ctxDone => new \in live'[n]
    BY <2>1, Zenon DEF TypeOK
  <2>5. new[2] = Probes[n]
    BY Zenon
  <2> QED
    BY <1>2, <2>2, <2>3, <2>4, <2>5, Zenon
<1> QED
  BY <1>1, <1>2, Zenon

\* The inductive step of ProberInv, one case per action.
LEMMA ProberInvStep == ProberInv /\ [Next]_vars => ProberInv'
<1> SUFFICES ASSUME ProberInv, [Next]_vars PROVE ProberInv'
  BY Zenon
<1>0. TypeOK /\ TypeOK' /\ probeCancelFunc = starts
  BY TypeStep, Zenon DEF ProberInv
<1> USE DEF ProberInv
<1>1. CASE StartBegin
  BY <1>0, <1>1, Zenon DEF StartBegin, BeforeStarted, NoStrandedProbe, Pending, Running
<1>2. CASE StartEnd
  <2>1. \A n \in Names : Probes[n] # 0 => n \in jitter' \/ \E c \in Callers : sending'[c] = n
    BY <1>2, Zenon DEF StartEnd, BeforeStarted
  <2> QED
    BY <1>0, <1>2, <2>1, Zenon DEF StartEnd, BeforeStarted, NoStrandedProbe, Pending
<1>3. ASSUME NEW n \in Names, JitterStart(n) PROVE ProberInv'
  <2>1. StartProbe(n) /\ n \in jitter
    BY <1>3, Zenon DEF JitterStart
  <2>2. phase = "started"
    BY <2>1, Zenon DEF BeforeStarted
  <2>3. BeforeStarted'
    BY <1>3, <2>2, Zenon DEF JitterStart, BeforeStarted
  <2>4. \A m \in Names : m # n => (Pending(m)' <=> Pending(m)) /\ (Running(m) => Running(m)')
    BY <1>0, <1>3, <2>1, StartProbeEffect, Zenon DEF JitterStart, Pending, Running
  <2>5. Probes[n] # 0 /\ ~ctxDone => Running(n)'
    BY <1>0, <1>3, <2>1, StartProbeEffect, Zenon DEF JitterStart, Running
  <2>6. ~crashed
    BY <1>3, Zenon DEF JitterStart
  <2>7. NoStrandedProbe'
    BY <1>3, <2>4, <2>5, <2>6, Zenon DEF JitterStart, NoStrandedProbe
  <2> QED
    BY <1>0, <2>1, <2>3, <2>7, StartProbeEffect, Zenon
<1>4. ASSUME NEW c \in Callers, Receive(c) PROVE ProberInv'
  <2>1. \A m \in Names : (Pending(m) => Pending(m)') /\ (Running(m) => Running(m)')
    BY <1>0, <1>4, Zenon DEF Receive, Pending, Running, TypeOK
  <2> QED
    BY <1>0, <1>4, <2>1, Zenon DEF Receive, BeforeStarted, NoStrandedProbe
<1>5. CASE ReceiverStart
  <2>0. PICK n \in Names : n = receiver
    BY <1>0, <1>5, Zenon DEF ReceiverStart, TypeOK
  <2>1. StartProbe(n) /\ receiver # None
    BY <1>5, <2>0, Zenon DEF ReceiverStart
  <2>2. phase = "started"
    BY <2>1, Zenon DEF BeforeStarted
  <2>3. BeforeStarted'
    BY <1>5, <2>2, Zenon DEF ReceiverStart, BeforeStarted
  <2>4. \A m \in Names : m # n => (Pending(m) => Pending(m)') /\ (Running(m) => Running(m)')
    BY <1>0, <1>5, <2>0, <2>1, StartProbeEffect, Zenon DEF ReceiverStart, Pending, Running
  <2>5. Probes[n] # 0 /\ ~ctxDone => Running(n)'
    BY <1>0, <1>5, <2>1, StartProbeEffect, Zenon DEF ReceiverStart, Running
  <2>6. ~crashed
    BY <1>5, Zenon DEF ReceiverStart
  <2>7. NoStrandedProbe'
    BY <1>5, <2>2, <2>4, <2>5, <2>6, Zenon DEF ReceiverStart, NoStrandedProbe
  <2> QED
    BY <1>0, <2>1, <2>3, <2>7, StartProbeEffect, Zenon
<1>6. CASE Shutdown
  BY <1>0, <1>6, Zenon DEF Shutdown, BeforeStarted, NoStrandedProbe
<1>7. ASSUME NEW c \in Callers, NEW n \in Names, AddProbe(c, n) PROVE ProberInv'
  <2>1. sending[c] = None /\ sending' = [sending EXCEPT ![c] = n] /\ ~crashed
    BY <1>7, Zenon DEF AddProbe
  <2>2. Pending(n)' /\ \A m \in Names : m # n => (Pending(m) => Pending(m)')
    BY <1>0, <1>7, <2>1, ConstantsAssumption, Zenon DEF AddProbe, Pending, TypeOK
  <2>3. \A m \in Names : m # n => Probes'[m] = Probes[m]
    BY <1>0, <1>7, Zenon DEF AddProbe, addProbe, WriteProbes, TypeOK
  <2>4. \A m \in Names : m # n => (Running(m) => Running(m)')
    BY <1>7, <2>3, Zenon DEF AddProbe, Running
  <2>5. NoStrandedProbe'
    BY <1>7, <2>1, <2>2, <2>3, <2>4, Zenon DEF AddProbe, NoStrandedProbe
  <2>6. touched' \subseteq touched \cup {n}
    BY <1>7, Zenon DEF AddProbe, addProbe, WriteProbes
  <2>7. BeforeStarted'
    <3>1. \A d \in Callers : sending[d] # None => sending'[d] = sending[d]
      BY <1>0, <2>1, Zenon DEF TypeOK
    <3>2. sending'[c] = n
      BY <1>0, <2>1, Zenon DEF TypeOK
    <3> QED
      BY <1>0, <1>7, <2>1, <2>6, <3>1, <3>2, ConstantsAssumption
      DEF AddProbe, BeforeStarted, TypeOK
  <2> QED
    BY <1>0, <1>7, <2>5, <2>7, Zenon DEF AddProbe
<1>8. ASSUME NEW n \in Names, RemoveProbe(n) PROVE ProberInv'
  <2>0. ~crashed
    BY <1>8, Zenon DEF RemoveProbe
  <2>1. CASE probeCancelFunc[n] = 0
    BY <1>0, <1>8, <2>1, Zenon DEF RemoveProbe, BeforeStarted, NoStrandedProbe
  <2>2. CASE probeCancelFunc[n] # 0
    <3>1. phase = "started"
      BY <1>0, <2>2, Zenon DEF BeforeStarted
    <3>2. Probes' = [Probes EXCEPT ![n] = 0]
      BY <1>8, <2>2, Zenon DEF RemoveProbe, WriteProbes
    <3>3. \A m \in Names : m # n => live'[m] = live[m]
      BY <1>0, <1>8, <2>2, Zenon DEF RemoveProbe, TypeOK
    <3>4. NoStrandedProbe'
      BY <1>0, <1>8, <2>0, <3>2, <3>3
      DEF RemoveProbe, NoStrandedProbe, Pending, Running, TypeOK
    <3> QED
      BY <1>0, <1>8, <3>1, <3>4, Zenon DEF RemoveProbe, BeforeStarted
  <2> QED
    BY <2>1, <2>2, Zenon
<1>9. CASE UNCHANGED vars
  BY <1>0, <1>9, Zenon DEF vars, BeforeStarted, NoStrandedProbe, Pending, Running
<1> QED
  BY <1>1, <1>2, <1>3, <1>4, <1>5, <1>6, <1>7, <1>8, <1>9, Zenon DEF Next

\* ProberInv holds in every behaviour, whatever the gRPC clients do.
LEMMA ProberInvariant == Spec => []ProberInv
<1>1. Init => ProberInv
  <2>1. Init => TypeOK
    BY TypeCorrectInit, Zenon
  <2> QED
    BY <2>1, Zenon DEF Init, ProberInv, BeforeStarted, NoStrandedProbe
<1> QED
  BY <1>1, ProberInvStep, PTL DEF Spec

\* No interleaving of Start, the jitter goroutines, the channel's receiver and
\* any number of AddProbe and RemoveProbe handlers leaves a probe in the
\* database that neither runs nor is about to be started.
THEOREM NothingStranded == Spec => []NoStrandedProbe
<1>1. ProberInv => NoStrandedProbe
  BY Zenon DEF ProberInv
<1> QED
  BY <1>1, ProberInvariant, PTL

-----------------------------------------------------------------------------

\* The start of a probe that is in the database and has no run makes the one
\* run that its cancel function cancels, and touches no other name.
LEMMA FirstRun ==
  ASSUME TypeOK, NEW n \in Names, StartProbe(n), Probes[n] # 0, live[n] = {}
  PROVE  /\ crashed' = crashed
         /\ starts'[n] # 0
         /\ \A r \in live'[n] : r = <<starts'[n], Probes[n]>>
         /\ \A m \in Names : m # n => live'[m] = live[m] /\ starts'[m] = starts[m]
<1> DEFINE new == <<starts'[n], Probes[n]>>
<1>1. /\ starts' = [starts EXCEPT ![n] = @ + 1]
      /\ live' = IF ctxDone THEN live ELSE [live EXCEPT ![n] = @ \cup {new}]
      /\ crashed' = crashed
  BY Zenon DEF StartProbe
<1>2. starts'[n] # 0
  BY <1>1 DEF TypeOK
<1>3. live'[n] \subseteq {new}
  BY <1>1, Zenon DEF TypeOK
<1>4. \A m \in Names : m # n => live'[m] = live[m] /\ starts'[m] = starts[m]
  BY <1>1, Zenon DEF TypeOK
<1> QED
  BY <1>1, <1>2, <1>3, <1>4, Zenon

\* The inductive step of PatientInv for clients that wait, on top of
\* ProberInv, one case per action.
LEMMA PatientInvStep ==
  ASSUME PatientClients
  PROVE  ProberInv /\ PatientInv /\ [Next]_vars => PatientInv'
<1> SUFFICES ASSUME ProberInv, PatientInv, [Next]_vars PROVE PatientInv'
  BY Zenon
<1>0. TypeOK /\ probeCancelFunc = starts /\ BeforeStarted
  BY Zenon DEF ProberInv
<1> USE DEF PatientInv
<1>1. CASE StartBegin
  BY <1>0, <1>1, Zenon DEF StartBegin, OnePending, Pending
<1>2. CASE StartEnd
  <2>1. jitter' = {n \in Names : Probes[n] # 0}
    BY <1>2, Zenon DEF StartEnd
  <2>2. receiver' = None /\ sending' = sending /\ \A c \in Callers : sending[c] = None
    BY <1>0, <1>2, Zenon DEF StartEnd, BeforeStarted
  <2>3. \A n \in Names : OnePending(n)' /\ (Pending(n)' <=> Probes[n] # 0)
    BY <2>1, <2>2, ConstantsAssumption, Zenon DEF OnePending, Pending
  <2> QED
    BY <1>2, <2>3, Zenon DEF StartEnd
<1>3. ASSUME NEW n \in Names, JitterStart(n) PROVE PatientInv'
  <2>1. StartProbe(n) /\ n \in jitter /\ phase = "started"
    BY <1>0, <1>3, Zenon DEF JitterStart, BeforeStarted
  <2>2. Probes[n] # 0 /\ live[n] = {} /\ ~Pending(n)' /\ OnePending(n)'
    BY <1>3, <2>1, Zenon DEF JitterStart, Pending, OnePending
  <2>3. \A m \in Names : m # n => (Pending(m)' <=> Pending(m)) /\ OnePending(m)'
    BY <1>3, Zenon DEF JitterStart, Pending, OnePending
  <2>4. ~crashed'
    BY <1>0, <2>1, <2>2, FirstRun, Zenon
  <2> QED
    BY <1>0, <1>3, <2>1, <2>2, <2>3, <2>4, FirstRun, Zenon DEF JitterStart
<1>4. ASSUME NEW c \in Callers, Receive(c) PROVE PatientInv'
  <2>1. PICK n \in Names : n = sending[c]
    BY <1>0, <1>4, Zenon DEF Receive, TypeOK
  <2>2. receiver = None /\ receiver' = n /\ sending' = [sending EXCEPT ![c] = None]
    BY <1>4, <2>1, Zenon DEF Receive
  <2>3. \A m \in Names : (Pending(m)' <=> Pending(m)) /\ OnePending(m)'
    BY <1>0, <1>4, <2>1, <2>2, ConstantsAssumption
    DEF Receive, Pending, OnePending, TypeOK
  <2> QED
    BY <1>4, <2>3, Zenon DEF Receive
<1>5. CASE ReceiverStart
  <2>0. PICK n \in Names : n = receiver
    BY <1>0, <1>5, Zenon DEF ReceiverStart, TypeOK
  <2>1. StartProbe(n) /\ receiver' = None /\ phase = "started"
    BY <1>0, <1>5, <2>0, Zenon DEF ReceiverStart, BeforeStarted
  <2>2. Probes[n] # 0 /\ live[n] = {} /\ ~Pending(n)' /\ OnePending(n)'
    BY <1>5, <2>0, <2>1, ConstantsAssumption, Zenon DEF ReceiverStart, Pending, OnePending
  <2>3. \A m \in Names : m # n => (Pending(m)' <=> Pending(m)) /\ OnePending(m)'
    BY <1>5, <2>0, <2>1, ConstantsAssumption DEF ReceiverStart, Pending, OnePending
  <2>4. ~crashed'
    BY <1>0, <2>1, <2>2, FirstRun, Zenon
  <2> QED
    BY <1>0, <1>5, <2>1, <2>2, <2>3, <2>4, FirstRun, Zenon DEF ReceiverStart
<1>6. CASE Shutdown
  BY <1>0, <1>6, Zenon DEF Shutdown, OnePending, Pending
<1>7. ASSUME NEW c \in Callers, NEW n \in Names, AddProbe(c, n) PROVE PatientInv'
  <2>1. /\ phase = "started" /\ phase' = phase
        /\ Probes[n] = 0 /\ Probes' = [Probes EXCEPT ![n] = gen[n] + 1]
        /\ sending[c] = None /\ sending' = [sending EXCEPT ![c] = n]
        /\ UNCHANGED <<starts, live, jitter, receiver, crashed>>
    BY <1>7, Zenon DEF AddProbe, addProbe, WriteProbes
  <2>2. ~Pending(n) /\ live[n] = {} /\ Probes'[n] # 0
    BY <1>0, <2>1 DEF TypeOK
  <2>3. OnePending(n)'
    BY <1>0, <2>1, <2>2, Zenon DEF Pending, OnePending, TypeOK
  <2>4. \A m \in Names : m # n => (Pending(m)' <=> Pending(m)) /\ OnePending(m)'
    BY <1>0, <2>1, ConstantsAssumption DEF Pending, OnePending, TypeOK
  <2>5. \A m \in Names : m # n => Probes'[m] = Probes[m]
    BY <1>0, <2>1, Zenon DEF TypeOK
  <2>6. Pending(n)'
    BY <1>0, <2>1, Zenon DEF Pending, TypeOK
  <2> QED
    BY <2>1, <2>2, <2>3, <2>4, <2>5, <2>6, Zenon
<1>8. ASSUME NEW n \in Names, RemoveProbe(n) PROVE PatientInv'
  <2>1. phase = "started" /\ ~Pending(n) /\ Probes[n] # 0
    BY <1>8, Zenon DEF RemoveProbe, Patient
  <2>2. probeCancelFunc[n] # 0
    BY <1>0, <2>1, Zenon
  <2>3. /\ Probes' = [Probes EXCEPT ![n] = 0]
        /\ live' = [live EXCEPT ![n] = {r \in @ : r[1] # probeCancelFunc[n]}]
        /\ UNCHANGED <<phase, starts, jitter, sending, receiver, crashed>>
    BY <1>8, <2>1, <2>2, Zenon DEF RemoveProbe, WriteProbes
  <2>4. live'[n] = {}
    BY <1>0, <2>3 DEF TypeOK
  <2>5. \A m \in Names : m # n => live'[m] = live[m] /\ Probes'[m] = Probes[m]
    BY <1>0, <2>3, Zenon DEF TypeOK
  <2>6. Probes'[n] = 0
    BY <1>0, <2>3, Zenon DEF TypeOK
  <2>7. \A m \in Names : (Pending(m)' <=> Pending(m)) /\ OnePending(m)'
    BY <2>3, Zenon DEF Pending, OnePending
  <2> QED
    BY <2>1, <2>3, <2>4, <2>5, <2>6, <2>7, Zenon
<1>9. CASE UNCHANGED vars
  BY <1>9, Zenon DEF vars, OnePending, Pending
<1> QED
  BY <1>1, <1>2, <1>3, <1>4, <1>5, <1>6, <1>7, <1>8, <1>9, Zenon DEF Next

\* PatientInv holds in every behaviour of a prober whose clients wait.
LEMMA PatientInvariant == ASSUME PatientClients PROVE Spec => []PatientInv
<1>1. Init => PatientInv
  BY ConstantsAssumption DEF Init, PatientInv, OnePending, Pending
<1>2. ProberInv /\ PatientInv /\ [Next]_vars => PatientInv'
  BY PatientInvStep, Zenon
<1> QED
  BY <1>1, <1>2, ProberInvariant, PTL DEF Spec

\* With clients that wait for pending starts, startProbe never finds its probe
\* gone and RemoveProbe never calls a nil cancel function.
THEOREM PatientNoPanic == ASSUME PatientClients PROVE Spec => []NoPanic
<1>1. PatientInv => NoPanic
  BY Zenon DEF PatientInv, NoPanic
<1> QED
  BY <1>1, PatientInvariant, PTL

\* With clients that wait for pending starts, a name never has two runs.
THEOREM PatientSingleRun == ASSUME PatientClients PROVE Spec => []SingleRun
<1>1. PatientInv => SingleRun
  BY Zenon DEF PatientInv, SingleRun
<1> QED
  BY <1>1, PatientInvariant, PTL

\* With clients that wait for pending starts, nothing runs that RemoveProbe
\* has removed, or that is not the ProbeInfo in the database.
THEOREM PatientRemoval == ASSUME PatientClients PROVE Spec => []RemovedProbeIsStopped
<1>1. PatientInv => RemovedProbeIsStopped
  BY DEF PatientInv, RemovedProbeIsStopped
<1> QED
  BY <1>1, PatientInvariant, PTL

-----------------------------------------------------------------------------
(* SurfacerWrapper *)

WrapTypes ==
  /\ wAddFailure \in BOOLEAN
  /\ wPc \in {"idle", "cache", "subtract"}
  /\ wLoop \in [Counters -> Nat] /\ wEM \in [Counters -> Nat] /\ wBase \in [Counters -> Nat]
  /\ wCache \in [Counters -> Nat] \union {NoEM}
  /\ wLast \in [Counters -> Nat] \union {NoEM}
  /\ wSum \in [Counters -> Int] /\ wSeen \in [Counters -> Int]
  /\ wFresh \in BOOLEAN /\ wOdd \in BOOLEAN /\ wRaced \in BOOLEAN

\* The loop has counted at least what em has; a failure is a total without a
\* success, if it is counted at all.
Behind(em) ==
  /\ em["total"] <= wLoop["total"] /\ em["success"] <= wLoop["success"]
  /\ em["latency"] <= wLoop["latency"]
  /\ em["failure"] <= wLoop["total"] - wLoop["success"]

\* What the cached EventMetrics are to the loop's values, at each step of Write:
\* those of the same loop are not ahead of it, so that only a new loop is taken
\* for a reset.
WrapCached ==
  /\ wLoop["failure"] = 0 /\ wLoop["success"] <= wLoop["total"]
  /\ ~wAddFailure => wEM["failure"] = 0 /\ (wCache # NoEM => wCache["failure"] = 0)
  /\ wPc \in {"cache", "subtract"} => Behind(wEM)
  /\ wCache = NoEM => wPc # "subtract" /\ ~wFresh /\ wBase = Zero
  /\ wCache # NoEM =>
       /\ wFresh /\ wPc # "subtract" => wBase = Zero
       /\ ~wFresh \/ wPc = "subtract" => wBase = wCache /\ Behind(wCache)
  /\ wPc = "cache" /\ ~wFresh /\ wCache # NoEM =>
       \A c \in Counters \ {"latency"} : wCache[c] <= wEM[c]
  /\ wPc = "subtract" =>
       /\ wLast # NoEM
       /\ \A c \in Counters \ {"latency"} : wCache[c] = wEM[c]
       /\ ~wRaced => wCache["latency"] = wLoop["latency"]
       /\ ~wFresh => \A c \in Counters : wLast[c] <= wCache[c]

\* In the middle of Write the EventMetrics is seen and not surfaced yet.
Underway(c) ==
  IF wPc = "subtract" THEN wCache[c] - (IF wFresh THEN 0 ELSE wLast[c]) ELSE 0

WrapSums ==
  /\ ~AllowEventMetrics => wPc = "idle" /\ wSum = Zero
  /\ ~wOdd =>
       /\ \A c \in Counters \ {"latency"} : wSum[c] + Underway(c) = wSeen[c]
       /\ wSum["latency"] + Underway("latency") >= wSeen["latency"]
       /\ ~wRaced => wSum["latency"] + Underway("latency") = wSeen["latency"]

WrapInv == WrapTypes /\ WrapCached /\ WrapSums

\* No EventMetrics is NoEM, and Zero has a number for every counter.
LEMMA CounterFacts ==
  /\ \A f : f \in [Counters -> Nat] => f # NoEM
  /\ Zero \in [Counters -> Nat] /\ Zero \in [Counters -> Int]
  /\ \A c \in Counters : Zero[c] = 0
BY DEF Counters, NoEM, Zero

\* An EventMetrics read now has its own counts and the loop's latency.
LEMMA NowFacts ==
  ASSUME WrapTypes, NEW em \in [Counters -> Nat]
  PROVE  /\ Now(em) \in [Counters -> Nat]
         /\ \A c \in Counters \ {"latency"} : Now(em)[c] = em[c]
         /\ Now(em)["latency"] = wLoop["latency"]
BY Zenon DEF WrapTypes, Now, Counters

\* WrapInv holds initially.
LEMMA WrapInitInv == WrapInit => WrapInv
<1> SUFFICES ASSUME WrapInit PROVE WrapInv
  BY Zenon
<1> USE CounterFacts DEF WrapInit
<1>1. WrapTypes
  BY Zenon DEF WrapTypes
<1>2. WrapCached
  BY DEF WrapCached, Counters
<1>3. WrapSums
  BY DEF WrapSums, Underway, Counters
<1> QED
  BY <1>1, <1>2, <1>3, Zenon DEF WrapInv

\* The loop only moves ahead of what is cached of it.
LEMMA LoopRunInv == WrapInv /\ LoopRun => WrapInv'
<1> SUFFICES ASSUME WrapInv, LoopRun PROVE WrapInv'
  BY Zenon
<1> USE DEF WrapInv, WrapTypes
<1>0. PICK ok \in {0, 1} :
        wLoop' = [wLoop EXCEPT !["total"] = @ + 1, !["success"] = @ + ok, !["latency"] = @ + ok]
  BY Zenon DEF LoopRun
<1>1. /\ wLoop' \in [Counters -> Nat]
      /\ wLoop'["failure"] = wLoop["failure"]
      /\ wLoop["total"] <= wLoop'["total"] /\ wLoop["success"] <= wLoop'["success"]
      /\ wLoop["latency"] <= wLoop'["latency"]
      /\ wLoop["total"] - wLoop["success"] <= wLoop'["total"] - wLoop'["success"]
      /\ wLoop'["success"] <= wLoop'["total"]
  BY <1>0 DEF Counters, WrapCached
<1>2. WrapTypes'
  BY <1>1, Zenon DEF LoopRun
<1>3. \A em \in [Counters -> Nat] :
        Behind(em) => /\ em["total"] <= wLoop'["total"] /\ em["success"] <= wLoop'["success"]
                      /\ em["latency"] <= wLoop'["latency"]
                      /\ em["failure"] <= wLoop'["total"] - wLoop'["success"]
  BY <1>1 DEF Behind, Counters
<1>4. wPc = "subtract" /\ ~wRaced' => ~wRaced /\ wLoop'["latency"] = wLoop["latency"]
  BY Zenon DEF LoopRun
<1>5. WrapCached'
  BY <1>1, <1>3, <1>4, Zenon DEF LoopRun, WrapCached, Behind
<1>6. WrapSums'
  BY Zenon DEF LoopRun, WrapSums, Underway, AllowEventMetrics
<1> QED
  BY <1>2, <1>5, <1>6, Zenon

\* LoopRestart keeps WrapInv: the next probe of the name counts from zero.
LEMMA LoopRestartInv == WrapInv /\ LoopRestart => WrapInv'
<1> SUFFICES ASSUME WrapInv, LoopRestart PROVE WrapInv'
  BY Zenon
<1> USE CounterFacts DEF WrapInv, LoopRestart
<1>1. WrapTypes'
  BY Zenon DEF WrapTypes
<1>2. WrapCached'
  <2>1. wCache = NoEM <=> ~wFresh'
    BY Zenon
  <2> QED
    BY <2>1 DEF WrapCached, WrapTypes, Counters
<1>3. WrapSums'
  BY Zenon DEF WrapSums, Underway, AllowEventMetrics
<1> QED
  BY <1>1, <1>2, <1>3, Zenon

\* surfacerWrapper.Write keeps WrapInv: what it adds is what was pending.
LEMMA WrapWriteInv == WrapInv /\ WrapWrite => WrapInv'
<1> SUFFICES ASSUME WrapInv, WrapWrite PROVE WrapInv'
  BY Zenon
<1> USE DEF WrapInv, WrapWrite
<1>1. CASE ~AllowEventMetrics
  BY <1>1, Zenon DEF WrapTypes, WrapCached, Behind, WrapSums, Underway, AllowEventMetrics
<1>2. CASE AllowEventMetrics
  <2>0. wEM' = IF wAddFailure
               THEN [wLoop EXCEPT !["failure"] = wLoop["total"] - wLoop["success"]]
               ELSE wLoop
    BY <1>2, Zenon DEF AddFailureMetric, WrapTypes, WrapCached, Counters
  <2>1. /\ wEM' \in [Counters -> Nat]
        /\ wEM'["total"] = wLoop["total"] /\ wEM'["success"] = wLoop["success"]
        /\ wEM'["latency"] = wLoop["latency"]
        /\ wEM'["failure"] = IF wAddFailure THEN wLoop["total"] - wLoop["success"] ELSE 0
    BY <2>0 DEF WrapTypes, WrapCached, Counters
  <2>2. WrapTypes'
    BY <1>2, <2>1, Zenon DEF WrapTypes
  <2>3. WrapCached'
    BY <1>2, <2>1, CounterFacts DEF WrapCached, WrapTypes, Behind, Counters
  <2>4. WrapSums'
    BY <1>2, Zenon DEF WrapSums, Underway, AllowEventMetrics
  <2> QED
    BY <2>2, <2>3, <2>4, Zenon
<1> QED
  BY <1>1, <1>2, Zenon

\* The EventMetrics is cached: surfaced as it is if there was none before, and
\* otherwise pending.
LEMMA WrapCacheInv == WrapInv /\ WrapCache => WrapInv'
<1> SUFFICES ASSUME WrapInv, WrapCache PROVE WrapInv'
  BY Zenon
<1> DEFINE em == Now(wEM)
<1>1. /\ em \in [Counters -> Nat] /\ em # NoEM
      /\ \A c \in Counters \ {"latency"} : em[c] = wEM[c]
      /\ em["latency"] = wLoop["latency"]
  BY NowFacts, CounterFacts, Zenon DEF WrapInv, WrapTypes
<1>2. /\ wLast' = wCache /\ wCache' = em /\ wBase' = em
      /\ wSeen' = [c \in Counters |-> wSeen[c] + em[c] - wBase[c]]
      /\ IF wCache = NoEM THEN wPc' = "idle" /\ wSum' = [c \in Counters |-> wSum[c] + em[c]]
                          ELSE wPc' = "subtract" /\ wSum' = wSum
      /\ wPc = "cache"
      /\ UNCHANGED <<wAllow, wIgnore, wAddFailure, wLoop, wEM, wFresh, wOdd, wRaced>>
  BY Zenon DEF WrapCache, CumulativeToGauge, Surfaced
<1> HIDE DEF em
<1> USE DEF WrapInv
<1>3. WrapTypes'
  <2>1. wSeen' \in [Counters -> Int] /\ wSum' \in [Counters -> Int]
    BY <1>1, <1>2 DEF WrapTypes
  <2> QED
    BY <1>1, <1>2, <2>1, Zenon DEF WrapTypes
<1>4. Behind(wEM)' /\ Behind(wCache)'
  BY <1>1, <1>2 DEF WrapCached, Behind, Counters
<1>5. WrapCached'
  <2>1. wPc' # "cache" /\ (wPc' = "subtract" <=> wCache # NoEM)
    BY <1>2, Zenon
  <2>2. wCache # NoEM /\ ~wFresh => \A c \in Counters : wCache[c] <= em[c]
    BY <1>1, <1>2, Zenon DEF WrapCached, WrapTypes, Behind, Counters
  <2>3. ~wAddFailure => em["failure"] = 0
    BY <1>1, Zenon DEF WrapCached, Counters
  <2> QED
    BY <1>1, <1>2, <1>4, <2>1, <2>2, <2>3, Zenon DEF WrapCached, WrapTypes, Counters
<1>6. WrapSums'
  <2>1. AllowEventMetrics /\ AllowEventMetrics'
    BY <1>2, Zenon DEF WrapSums, AllowEventMetrics
  <2>2. CASE wCache = NoEM
    BY <2>2, <2>1, <1>1, <1>2, CounterFacts DEF WrapSums, WrapCached, WrapTypes, Underway, Counters
  <2>3. CASE wCache # NoEM
    <3>1. \A c \in Counters : wBase[c] = IF wFresh THEN 0 ELSE wCache[c]
      BY <2>3, <1>2, CounterFacts, Zenon DEF WrapCached
    <3>2. \A c \in Counters : wSeen'[c] = wSeen[c] + Underway(c)' /\ Underway(c) = 0
      BY <2>3, <1>1, <1>2, <3>1, Zenon DEF Underway, WrapTypes, Counters
    <3>4. \A c \in Counters : Underway(c)' \in Int
      BY <1>1, <1>2, <2>3 DEF Underway, WrapTypes
    <3>3. wSum' = wSum /\ wRaced' = wRaced /\ wOdd' = wOdd
      BY <2>3, <1>2, Zenon
    <3> HIDE DEF WrapInv
    <3> QED
      BY <2>1, <3>2, <3>4, <3>3 DEF WrapSums, WrapTypes, Counters, WrapInv
  <2> QED
    BY <2>2, <2>3, Zenon
<1> QED
  BY <1>3, <1>5, <1>6, Zenon

\* Only a new loop is taken for a reset, and what was pending is surfaced.
LEMMA WrapSubtractInv == WrapInv /\ WrapSubtract => WrapInv'
<1> SUFFICES ASSUME WrapInv, WrapSubtract PROVE WrapInv'
  BY Zenon
<1> DEFINE em == Now(wEM)
           gauge == SubtractLast(em, wLast)
<1>1. /\ em \in [Counters -> Nat]
      /\ \A c \in Counters \ {"latency"} : em[c] = wEM[c]
      /\ em["latency"] = wLoop["latency"]
  BY NowFacts, Zenon DEF WrapInv, WrapTypes
<1>2. /\ wPc = "subtract" /\ wPc' = "idle"
      /\ wSum' = [c \in Counters |-> wSum[c] + gauge[c]]
      /\ wFresh' = FALSE
      /\ wOdd' = (wOdd \/ (wFresh /\ ~WasReset(em, wLast)))
      /\ UNCHANGED <<wAllow, wIgnore, wAddFailure, wLoop, wEM, wLast, wCache, wSeen, wBase, wRaced>>
  BY Zenon DEF WrapSubtract, Surfaced
<1>3. /\ wLast \in [Counters -> Nat] /\ wCache \in [Counters -> Nat] /\ wCache # NoEM
      /\ AllowEventMetrics
  BY <1>2, Zenon DEF WrapInv, WrapTypes, WrapCached, WrapSums
<1> HIDE DEF em
<1>4. /\ \A c \in Counters \ {"latency"} : wCache[c] = em[c]
      /\ wCache["latency"] <= em["latency"]
      /\ ~wRaced => wCache["latency"] = em["latency"]
  BY <1>1, <1>2, <1>3, Zenon DEF WrapInv, WrapCached, Behind
<1>5. ~wFresh => ~WasReset(em, wLast)
  BY <1>1, <1>2, <1>3, <1>4 DEF WrapInv, WrapCached, WasReset, Counters
<1>6. /\ gauge \in [Counters -> Int]
      /\ WasReset(em, wLast) => gauge = em
      /\ ~WasReset(em, wLast) => \A c \in Counters : gauge[c] = em[c] - wLast[c]
  BY <1>1, <1>3 DEF SubtractLast
<1> HIDE DEF gauge
<1>7. WrapTypes'
  <2>1. wSum' \in [Counters -> Int]
    BY <1>2, <1>6 DEF WrapInv, WrapTypes
  <2> QED
    BY <1>2, <2>1, Zenon DEF WrapInv, WrapTypes
<1>8. WrapCached'
  BY <1>2, <1>3, Zenon DEF WrapInv, WrapCached, Behind
<1>9. WrapSums'
  <2>1. AllowEventMetrics'
    BY <1>2, <1>3, Zenon DEF AllowEventMetrics
  <2>2. SUFFICES ASSUME ~wOdd'
                 PROVE  /\ \A c \in Counters \ {"latency"} : wSum'[c] = wSeen[c]
                        /\ wSum'["latency"] >= wSeen["latency"]
                        /\ ~wRaced => wSum'["latency"] = wSeen["latency"]
    BY <1>2, <1>7, <2>1 DEF WrapSums, WrapTypes, Underway, Counters
  <2>8. /\ ~wOdd
        /\ wFresh <=> WasReset(em, wLast)
    BY <1>2, <1>5, <2>2, Zenon
  <2>3. \A c \in Counters : gauge[c] = em[c] - (IF wFresh THEN 0 ELSE wLast[c])
    BY <1>1, <1>3, <1>6, <2>8
  <2>4. \A c \in Counters : wSum'[c] = wSum[c] + Underway(c) + (em[c] - wCache[c])
    BY <1>1, <1>2, <1>3, <2>3 DEF Underway, WrapInv, WrapTypes
  <2>5. \A c \in Counters : Underway(c) \in Int /\ wSum[c] \in Int /\ wSeen[c] \in Int
    BY <1>2, <1>3 DEF Underway, WrapInv, WrapTypes
  <2>6. /\ \A c \in Counters \ {"latency"} : wSum[c] + Underway(c) = wSeen[c]
        /\ wSum["latency"] + Underway("latency") >= wSeen["latency"]
        /\ ~wRaced => wSum["latency"] + Underway("latency") = wSeen["latency"]
    BY <2>8, Zenon DEF WrapInv, WrapSums
  <2>7. \A c \in Counters : em[c] \in Int /\ wCache[c] \in Int
    BY <1>1, <1>3
  <2> HIDE DEF Underway
  <2> QED
    BY <1>4, <2>4, <2>5, <2>6, <2>7 DEF Counters
<1> QED
  BY <1>7, <1>8, <1>9, Zenon DEF WrapInv

\* WrapInv is an invariant of the wrapper.
LEMMA WrapInvariant == WrapSpec => []WrapInv
<1>1. WrapInv /\ UNCHANGED wrapVars => WrapInv'
  BY DEF WrapInv, WrapTypes, WrapCached, WrapSums, Behind, Underway, AllowEventMetrics, wrapVars
<1>2. WrapInv /\ [WrapNext]_wrapVars => WrapInv'
  BY <1>1, LoopRunInv, LoopRestartInv, WrapWriteInv, WrapCacheInv, WrapSubtractInv, Zenon DEF WrapNext
<1> QED
  BY <1>2, WrapInitInv, PTL DEF WrapSpec

-----------------------------------------------------------------------------
(* AtomicInt *)

\* The AtomicInt is its snapshot and what was added since.
AtomicInv ==
  /\ nPc \in {"idle", "loaded", "compare"}
  /\ nVal \in Nat /\ nLast \in Nat /\ nValS \in Nat /\ nLvS \in Nat
  /\ nAdded \in Nat /\ nGone \in Nat /\ nMissed \in Nat
  /\ nVal + nGone = nAdded
  /\ nPc # "idle" => nVal = nValS + nMissed

\* AtomicInv is an invariant of the steps of AtomicInt.
LEMMA AtomicInvariant == AtomicSpec => []AtomicInv
<1>1. AtomicInit => AtomicInv
  BY DEF AtomicInit, AtomicInv
<1>2. AtomicInv /\ [AtomicNext]_atomicVars => AtomicInv'
  <2> SUFFICES ASSUME AtomicInv, [AtomicNext]_atomicVars PROVE AtomicInv'
    BY Zenon
  <2> USE DEF AtomicInv
  <2>1. ASSUME NEW delta \in Deltas, AtomicAdd(delta) \/ LastAdd(delta) PROVE AtomicInv'
    BY <2>1, DeltasAssumption DEF AtomicAdd, LastAdd
  <2>2. CASE AtomicLoad
    BY <2>2 DEF AtomicLoad
  <2>3. CASE AtomicLoadLast
    BY <2>3, Zenon DEF AtomicLoadLast
  <2>4. CASE AtomicStore
    BY <2>4 DEF AtomicStore
  <2>5. CASE UNCHANGED atomicVars
    BY <2>5, Zenon DEF atomicVars
  <2> QED
    BY <2>1, <2>2, <2>3, <2>4, <2>5, Zenon DEF AtomicNext
<1> QED
  BY <1>1, <1>2, PTL DEF AtomicSpec

\* What surfacerWrapper.Write and AtomicInt.SubtractCounter turn into gauges adds up
\* to what was counted, for all filters, loops that take turns and interleavings
\* of additions with the steps of a subtraction.
THEOREM GaugesAlwaysAddUp == WrapSpec /\ AtomicSpec => []GaugesAddUp
<1>1. WrapInv => WrapperAddsUp
  BY DEF WrapInv, WrapTypes, WrapSums, Underway, WrapperAddsUp, Counters
<1>2. AtomicInv => AtomicAddsUp
  BY DEF AtomicInv, AtomicAddsUp
<1> QED
  BY <1>1, <1>2, WrapInvariant, AtomicInvariant, PTL DEF GaugesAddUp

-----------------------------------------------------------------------------
(* LineSurfacers *)

\* Types of the surfacer's state.
LineTypes ==
  /\ oCompress \in BOOLEAN /\ oCtx \in BOOLEAN /\ oSink \in {"file", "pubsub"}
  /\ oQueue \in Seq(Nat) /\ oWrites \in Nat
  /\ oPc \in {"select", "flush", "callback", "done"}
  /\ oTicker \in {"wait", "flush", "callback", "done"}
  /\ oCloser \in {"no", "waiting", "flush", "callback", "closed"}
  /\ oBuf \in Seq(Nat) /\ oHand \in [Flushers -> Seq(Nat)]
  /\ oOut \in Seq(Seq(Nat)) /\ oLate \in Seq(Seq(Nat))
  /\ oMade \in SUBSET Nat

\* Lines that wait are newer than those made, and in order.
QueueAhead ==
  /\ InOrder(oQueue)
  /\ \A i \in DOMAIN oQueue : oQueue[i] <= oWrites /\ \A n \in oMade : n < oQueue[i]
  /\ \A n \in oMade : n <= oWrites

\* Batches, by place, that hold the lines of made once and untorn.
Sound(B, made) ==
  /\ \A p \in DOMAIN B :
       /\ B[p] \in Seq(Nat) /\ InOrder(B[p])
       /\ \A i \in DOMAIN B[p] : B[p][i] \in made
  /\ \A n \in made : \E p \in DOMAIN B : \E i \in DOMAIN B[p] : B[p][i] = n
  /\ \A p, q \in DOMAIN B : p # q => AllBefore(B[p], B[q]) \/ AllBefore(B[q], B[p])

\* The place of writeBuf.
Buffer == [at |-> "buffer", n |-> 0]

\* The buffer has the newest lines.
BufferLast == \A p \in Places \ {Buffer} : AllBefore(Batches[p], oBuf)

\* Who holds a batch, and what is over when close goes on.
Holders ==
  /\ \A g \in Flushers : oHand[g] # <<>> <=> At(g) = "callback"
  /\ ~oCompress => oTicker = "done" /\ oPc \in {"select", "done"} /\ oBuf = <<>>
                   /\ oCloser \notin {"flush", "callback"}
  /\ oCloser \in {"flush", "callback", "closed"} => oPc = "done"
  /\ oCloser \in {"callback", "closed"} => oBuf = <<>>

\* Nothing is late before close has returned; then one batch of the ticker is.
FewLate ==
  ~oCtx => IF oCloser # "closed" THEN oLate = <<>>
           ELSE Len(oLate) + (IF oHand["ticker"] = <<>> THEN 0 ELSE 1) <= 1

\* The inductive invariant of lines, batches and flushes.
LineInv ==
  /\ LineTypes /\ QueueAhead /\ Sound(Batches, oMade) /\ BufferLast /\ Holders /\ FewLate

\* An empty batch is before and after any other.
LEMMA EmptyBefore == ASSUME NEW a PROVE AllBefore(a, <<>>) /\ AllBefore(<<>>, a)
  BY DEF AllBefore

\* The batches with b in place q.
Put(B, q, b) == [x \in DOMAIN B \union {q} |-> IF x = q THEN b ELSE B[x]]

\* A batch that moves from p to a place that had none stays whole.
LEMMA Moved ==
  ASSUME NEW made, NEW B, Sound(B, made), NEW p \in DOMAIN B,
         NEW q, q # p, q \in DOMAIN B => B[q] = <<>>
  PROVE  Sound(Put(Put(B, p, <<>>), q, B[p]), made)
<1>0. PICK C : C = Put(Put(B, p, <<>>), q, B[p])
  OBVIOUS
<1>1. /\ DOMAIN C = DOMAIN B \union {q} /\ C[q] = B[p] /\ C[p] = <<>>
      /\ \A x \in DOMAIN B : x # p /\ x # q => C[x] = B[x]
  BY <1>0 DEF Put
<1>2. \A x \in DOMAIN C :
        /\ C[x] \in Seq(Nat) /\ InOrder(C[x])
        /\ \A i \in DOMAIN C[x] : C[x][i] \in made
  <2> SUFFICES ASSUME NEW x \in DOMAIN C
               PROVE  /\ C[x] \in Seq(Nat) /\ InOrder(C[x])
                      /\ \A i \in DOMAIN C[x] : C[x][i] \in made
    BY Zenon
  <2>1. CASE x = p
    BY <2>1, <1>1 DEF InOrder
  <2>2. CASE x = q
    BY <2>2, <1>1, Zenon DEF Sound
  <2>3. CASE x # p /\ x # q
    BY <2>3, <1>1, Zenon DEF Sound
  <2> QED
    BY <2>1, <2>2, <2>3, Zenon
<1>3. ASSUME NEW n \in made PROVE \E x \in DOMAIN C : \E i \in DOMAIN C[x] : C[x][i] = n
  <2>1. PICK x \in DOMAIN B : \E i \in DOMAIN B[x] : B[x][i] = n
    BY Zenon DEF Sound
  <2>2. CASE x = p
    BY <2>1, <2>2, <1>1, Zenon
  <2>3. x # q
    <3>1. CASE q \in DOMAIN B
      BY <3>1, <2>1
    <3>2. CASE q \notin DOMAIN B
      BY <3>2, Zenon
    <3> QED
      BY <3>1, <3>2, Zenon
  <2>4. CASE x # p
    BY <2>1, <2>3, <2>4, <1>1, Zenon
  <2> QED
    BY <2>2, <2>4, Zenon
<1>4. ASSUME NEW x \in DOMAIN C, NEW y \in DOMAIN C, x # y
      PROVE  AllBefore(C[x], C[y]) \/ AllBefore(C[y], C[x])
  <2>1. CASE x = p \/ y = p
    BY <2>1, <1>1, EmptyBefore, Zenon
  <2>2. CASE x # p /\ y # p /\ x = q
    BY <1>4, <2>2, <1>1, Zenon DEF Sound
  <2>3. CASE x # p /\ y # p /\ y = q
    BY <1>4, <2>3, <1>1, Zenon DEF Sound
  <2>4. CASE x # p /\ y # p /\ x # q /\ y # q
    BY <1>4, <2>4, <1>1, Zenon DEF Sound
  <2> QED
    BY <2>1, <2>2, <2>3, <2>4, Zenon
<1> QED
  BY <1>0, <1>2, <1>3, <1>4, Zenon DEF Sound

\* c has the lines of b, which are in made, and after them one that is not.
OneMore(c, b, made, line) ==
  /\ c \in Seq(Nat) /\ InOrder(c)
  /\ \A i \in DOMAIN c : c[i] \in made \union {line}
  /\ \A i \in DOMAIN b : i \in DOMAIN c /\ c[i] = b[i]
  /\ \E i \in DOMAIN c : c[i] = line
  /\ \A i \in DOMAIN c : c[i] = line \/ \E j \in DOMAIN b : c[i] = b[j]

\* A batch with one more line.
LEMMA Appended ==
  ASSUME NEW made \in SUBSET Nat, NEW b \in Seq(Nat), InOrder(b),
         \A i \in DOMAIN b : b[i] \in made,
         NEW line \in Nat, \A n \in made : n < line
  PROVE  OneMore(Append(b, line), b, made, line)
<1>0. PICK c : c = Append(b, line)
  OBVIOUS
<1>1. PICK n \in Nat : n = Len(b) /\ DOMAIN b = 1 .. n
  OBVIOUS
<1>2. /\ c \in Seq(Nat) /\ DOMAIN c = 1 .. n + 1 /\ c[n + 1] = line
      /\ \A i \in 1 .. n : c[i] = b[i]
  BY <1>0, <1>1
<1>3. \A i \in 1 .. n : b[i] \in made /\ b[i] \in Nat /\ b[i] < line
  BY <1>1
<1>4. \A i \in 1 .. n + 1 : i \in 1 .. n \/ i = n + 1
  BY <1>1
<1>5. InOrder(c)
  <2> SUFFICES ASSUME NEW i \in 1 .. n + 1, NEW j \in 1 .. n + 1, i < j
               PROVE  c[i] < c[j]
    BY <1>2 DEF InOrder
  <2>1. i \in 1 .. n
    BY <1>1
  <2>2. CASE j \in 1 .. n
    BY <2>1, <2>2, <1>1, <1>2 DEF InOrder
  <2>3. CASE j = n + 1
    BY <2>1, <2>3, <1>2, <1>3
  <2> QED
    BY <2>2, <2>3, <1>4
<1>6. \A i \in 1 .. n : i \in 1 .. n + 1
  BY <1>1
<1>7. n + 1 \in 1 .. n + 1
  BY <1>1
<1> QED
  BY <1>0, <1>1, <1>2, <1>3, <1>4, <1>5, <1>6, <1>7, Zenon DEF OneMore

\* A new line goes to the end of the last batch, or makes a batch of its own.
LEMMA Grown ==
  ASSUME NEW made \in SUBSET Nat, NEW B, Sound(B, made), NEW q,
         NEW b, b = (IF q \in DOMAIN B THEN B[q] ELSE <<>>),
         \A x \in DOMAIN B : x # q => AllBefore(B[x], b),
         NEW line \in Nat, \A n \in made : n < line
  PROVE  Sound(Put(B, q, Append(b, line)), made \union {line})
<1>1. PICK c : c = Append(b, line)
  OBVIOUS
<1>0. PICK C : C = Put(B, q, c)
  OBVIOUS
<1>2. /\ DOMAIN C = DOMAIN B \union {q} /\ C[q] = c
      /\ \A x \in DOMAIN B : x # q => C[x] = B[x]
  BY <1>0 DEF Put
<1>3. b \in Seq(Nat) /\ InOrder(b) /\ \A i \in DOMAIN b : b[i] \in made
  <2>1. CASE q \in DOMAIN B
    BY <2>1, Zenon DEF Sound
  <2>2. CASE q \notin DOMAIN B
    BY <2>2 DEF InOrder
  <2> QED
    BY <2>1, <2>2, Zenon
<1>4. /\ c \in Seq(Nat) /\ InOrder(c)
      /\ \A i \in DOMAIN c : c[i] \in made \union {line}
      /\ \A i \in DOMAIN b : i \in DOMAIN c /\ c[i] = b[i]
      /\ \E i \in DOMAIN c : c[i] = line
      /\ \A i \in DOMAIN c : c[i] = line \/ \E j \in DOMAIN b : c[i] = b[j]
  <2>1. OneMore(Append(b, line), b, made, line)
    BY <1>3, Appended, Zenon
  <2> QED
    BY <1>1, <2>1, Zenon DEF OneMore
<1>5. \A x \in DOMAIN C :
        /\ C[x] \in Seq(Nat) /\ InOrder(C[x])
        /\ \A i \in DOMAIN C[x] : C[x][i] \in made \union {line}
  <2> SUFFICES ASSUME NEW x \in DOMAIN C
               PROVE  /\ C[x] \in Seq(Nat) /\ InOrder(C[x])
                      /\ \A i \in DOMAIN C[x] : C[x][i] \in made \union {line}
    BY Zenon
  <2>1. CASE x = q
    BY <2>1, <1>2, <1>4, Zenon
  <2>2. CASE x # q
    BY <2>2, <1>2, Zenon DEF Sound
  <2> QED
    BY <2>1, <2>2, Zenon
<1>6. ASSUME NEW n \in made \union {line}
      PROVE  \E x \in DOMAIN C : \E i \in DOMAIN C[x] : C[x][i] = n
  <2>0. q \in DOMAIN C
    BY <1>2
  <2>1. CASE n = line
    <3>1. PICK i \in DOMAIN c : c[i] = line
      BY <1>4, Zenon
    <3> QED
      BY <2>0, <2>1, <3>1, <1>2, Zenon
  <2>2. CASE n \in made
    <3>1. PICK x \in DOMAIN B : \E i \in DOMAIN B[x] : B[x][i] = n
      BY <2>2, Zenon DEF Sound
    <3>2. CASE x = q
      <4>1. PICK i \in DOMAIN b : b[i] = n
        BY <3>1, <3>2, Zenon
      <4>2. i \in DOMAIN c /\ c[i] = n
        BY <4>1, <1>4, Zenon
      <4> QED
        BY <2>0, <4>2, <1>2, Zenon
    <3>3. CASE x # q
      BY <3>1, <3>3, <1>2, Zenon
    <3> QED
      BY <3>2, <3>3, Zenon
  <2> QED
    BY <2>1, <2>2, Zenon
<1>7. ASSUME NEW x \in DOMAIN B, x # q PROVE AllBefore(B[x], c)
  <2> SUFFICES ASSUME NEW i \in DOMAIN B[x], NEW j \in DOMAIN c PROVE B[x][i] < c[j]
    BY Zenon DEF AllBefore
  <2>1. CASE c[j] = line
    BY <2>1, <1>7, Zenon DEF Sound
  <2>2. CASE \E k \in DOMAIN b : c[j] = b[k]
    BY <2>2, <1>7, Zenon DEF AllBefore
  <2> QED
    BY <2>1, <2>2, <1>4, Zenon
<1>8. ASSUME NEW x \in DOMAIN C, NEW y \in DOMAIN C, x # y
      PROVE  AllBefore(C[x], C[y]) \/ AllBefore(C[y], C[x])
  <2>1. CASE x = q
    BY <2>1, <1>2, <1>7, <1>8, Zenon
  <2>2. CASE y = q
    BY <2>2, <1>2, <1>7, <1>8, Zenon
  <2>3. CASE x # q /\ y # q
    BY <2>3, <1>2, <1>8, Zenon DEF Sound
  <2> QED
    BY <2>1, <2>2, <2>3, Zenon
<1>9. Sound(C, made \union {line})
  BY <1>5, <1>6, <1>8, Zenon DEF Sound
<1> QED
  BY <1>0, <1>1, <1>9, Zenon

\* Places and Batches, of given outputs, hands and buffer.
PlacesOf(out, late) ==
  [at : {"out"}, n : DOMAIN out] \union [at : {"late"}, n : DOMAIN late]
    \union [at : Flushers \union {"buffer"}, n : {0}]

\* What is kept in a place.
BatchAt(p, out, late, hand, buf) ==
  CASE p.at = "out"     -> out[p.n]
    [] p.at = "late"    -> late[p.n]
    [] p.at = "buffer"  -> buf
    [] p.at \in Flushers -> hand[p.at]

BatchesOf(out, late, hand, buf) ==
  [p \in PlacesOf(out, late) |-> BatchAt(p, out, late, hand, buf)]

\* The batches of a state, and of the next one, as functions of its variables.
LEMMA BatchesAre ==
  /\ Places = PlacesOf(oOut, oLate) /\ Batches = BatchesOf(oOut, oLate, oHand, oBuf)
  /\ Places' = PlacesOf(oOut', oLate') /\ Batches' = BatchesOf(oOut', oLate', oHand', oBuf')
  /\ DOMAIN Batches = Places /\ DOMAIN Batches' = Places'
  BY DEF Places, Batches, PlacesOf, BatchAt, BatchesOf

\* The places of the next batches that are output, and the goroutines' hands.
OutPlace(out) == [at |-> "out", n |-> Len(out) + 1]
LatePlace(late) == [at |-> "late", n |-> Len(late) + 1]
HandPlace(g) == [at |-> g, n |-> 0]

\* The goroutines' hands and the buffer are places.
LEMMA HandFacts ==
  /\ Buffer \in Places /\ Batches[Buffer] = oBuf
  /\ \A g \in Flushers :
       HandPlace(g) \in Places /\ Batches[HandPlace(g)] = oHand[g] /\ HandPlace(g) # Buffer
<1>1. Buffer \in Places /\ \A g \in Flushers : HandPlace(g) \in Places /\ HandPlace(g) # Buffer
  BY DEF Places, Buffer, Flushers, HandPlace
<1>2. Batches[Buffer] = oBuf
  BY <1>1 DEF Batches, Buffer, Flushers
<1>3. \A g \in Flushers : Batches[HandPlace(g)] = oHand[g]
  BY <1>1 DEF Batches, Flushers, HandPlace
<1> QED
  BY <1>1, <1>2, <1>3, Zenon

\* One more batch is output, in time or late.
LEMMA OutputPlace ==
  ASSUME NEW S, NEW out \in Seq(S), NEW late \in Seq(S), NEW hand, NEW buf, NEW b \in S
  PROVE  /\ OutPlace(out) \notin DOMAIN BatchesOf(out, late, hand, buf)
         /\ LatePlace(late) \notin DOMAIN BatchesOf(out, late, hand, buf)
         /\ BatchesOf(Append(out, b), late, hand, buf)
              = Put(BatchesOf(out, late, hand, buf), OutPlace(out), b)
         /\ BatchesOf(out, Append(late, b), hand, buf)
              = Put(BatchesOf(out, late, hand, buf), LatePlace(late), b)
<1>0. PICK B : B = BatchesOf(out, late, hand, buf)
  OBVIOUS
<1>1. DOMAIN B = PlacesOf(out, late) /\ \A x \in DOMAIN B : B[x] = BatchAt(x, out, late, hand, buf)
  BY <1>0 DEF BatchesOf
<1>2. PICK q : q = OutPlace(out) /\ q = [at |-> "out", n |-> Len(out) + 1]
  BY DEF OutPlace
<1>3. PICK r : r = LatePlace(late) /\ r = [at |-> "late", n |-> Len(late) + 1]
  BY DEF LatePlace
<1>4. PICK o : o = Append(out, b)
  OBVIOUS
<1>5. PICK l : l = Append(late, b)
  OBVIOUS
<1>6. /\ DOMAIN o = DOMAIN out \union {Len(out) + 1} /\ Len(out) + 1 \notin DOMAIN out
      /\ o[Len(out) + 1] = b /\ \A i \in DOMAIN out : o[i] = out[i]
  BY <1>4
<1>7. /\ DOMAIN l = DOMAIN late \union {Len(late) + 1} /\ Len(late) + 1 \notin DOMAIN late
      /\ l[Len(late) + 1] = b /\ \A i \in DOMAIN late : l[i] = late[i]
  BY <1>5
<1>8. q \notin PlacesOf(out, late) /\ r \notin PlacesOf(out, late)
  BY <1>2, <1>3, <1>6, <1>7 DEF PlacesOf, Flushers
<1>9. PlacesOf(o, late) = PlacesOf(out, late) \union {q}
  BY <1>2, <1>6 DEF PlacesOf
<1>10. PlacesOf(out, l) = PlacesOf(out, late) \union {r}
  BY <1>3, <1>7 DEF PlacesOf
<1>11. BatchAt(q, o, late, hand, buf) = b /\ BatchAt(r, out, l, hand, buf) = b
  BY <1>2, <1>3, <1>6, <1>7 DEF BatchAt, Flushers
<1>12. \A x \in PlacesOf(out, late) :
         /\ BatchAt(x, o, late, hand, buf) = BatchAt(x, out, late, hand, buf)
         /\ BatchAt(x, out, l, hand, buf) = BatchAt(x, out, late, hand, buf)
  BY <1>6, <1>7 DEF BatchAt, PlacesOf, Flushers
<1>13. BatchesOf(o, late, hand, buf) = Put(B, q, b)
  BY <1>1, <1>8, <1>9, <1>11, <1>12 DEF BatchesOf, Put
<1>14. BatchesOf(out, l, hand, buf) = Put(B, r, b)
  BY <1>1, <1>8, <1>10, <1>11, <1>12 DEF BatchesOf, Put
<1> QED
  BY <1>0, <1>1, <1>2, <1>3, <1>4, <1>5, <1>8, <1>13, <1>14, Zenon

\* Of the hands, only that of g changes, to b.
Takes(hh, hand, g, b) == hh[g] = b /\ \A f \in Flushers : f # g => hh[f] = hand[f]

\* A hand takes a batch, and the buffer changes with it.
LEMMA HandPut ==
  ASSUME NEW out, NEW late, NEW hand, NEW buf, NEW g \in Flushers, NEW b, NEW c,
         NEW hh, Takes(hh, hand, g, b)
  PROVE  /\ BatchesOf(out, late, hh, c)
              = Put(Put(BatchesOf(out, late, hand, buf), Buffer, c), HandPlace(g), b)
         /\ BatchesOf(out, late, hh, buf)
              = Put(BatchesOf(out, late, hand, buf), HandPlace(g), b)
<1>0. PICK B : B = BatchesOf(out, late, hand, buf)
  OBVIOUS
<1>1. DOMAIN B = PlacesOf(out, late) /\ \A x \in DOMAIN B : B[x] = BatchAt(x, out, late, hand, buf)
  BY <1>0 DEF BatchesOf
<1>4. PICK h : h = HandPlace(g) /\ h = [at |-> g, n |-> 0]
  BY DEF HandPlace
<1>5. h \in DOMAIN B /\ Buffer \in DOMAIN B
  BY <1>1, <1>4 DEF PlacesOf, Buffer
<1>6. ASSUME NEW x \in PlacesOf(out, late)
      PROVE  /\ BatchAt(x, out, late, hh, c) = IF x = h THEN b
                                               ELSE IF x = Buffer THEN c
                                               ELSE BatchAt(x, out, late, hand, buf)
             /\ BatchAt(x, out, late, hh, buf) = IF x = h THEN b
                                                 ELSE BatchAt(x, out, late, hand, buf)
  BY <1>4 DEF Takes, BatchAt, PlacesOf, Flushers, Buffer
<1>7. BatchesOf(out, late, hh, c) = Put(Put(B, Buffer, c), h, b)
  BY <1>1, <1>5, <1>6 DEF BatchesOf, Put
<1>8. BatchesOf(out, late, hh, buf) = Put(B, h, b)
  BY <1>1, <1>5, <1>6 DEF BatchesOf, Put
<1> QED
  BY <1>0, <1>4, <1>7, <1>8, Zenon

\* The buffer alone changes.
LEMMA BufferPut ==
  ASSUME NEW c
  PROVE  BatchesOf(oOut, oLate, oHand, c) = Put(Batches, Buffer, c)
<1>1. /\ DOMAIN Batches = PlacesOf(oOut, oLate) /\ Buffer \in DOMAIN Batches
      /\ \A x \in DOMAIN Batches : Batches[x] = BatchAt(x, oOut, oLate, oHand, oBuf)
  BY BatchesAre DEF BatchesOf, PlacesOf, Buffer
<1>2. \A x \in PlacesOf(oOut, oLate) :
        BatchAt(x, oOut, oLate, oHand, c) = IF x = Buffer THEN c
                                            ELSE BatchAt(x, oOut, oLate, oHand, oBuf)
  BY DEF BatchAt, PlacesOf, Flushers, Buffer
<1> QED
  BY <1>1, <1>2 DEF BatchesOf, Put

\* Nothing is anywhere at first.
LEMMA LineInitInv == LineInit => LineInv
<1> SUFFICES ASSUME LineInit PROVE LineInv
  OBVIOUS
<1>1. LineTypes
  <2>1. oTicker \in {"wait", "flush", "callback", "done"} /\ oHand \in [Flushers -> Seq(Nat)]
    BY DEF LineInit
  <2>2. <<>> \in Seq(Nat) /\ <<>> \in Seq(Seq(Nat)) /\ 0 \in Nat
    OBVIOUS
  <2>3. oCtx \in BOOLEAN
    BY DEF LineInit
  <2> QED
    BY <2>1, <2>2, <2>3, Zenon DEF LineInit, LineTypes
<1>2. QueueAhead
  BY DEF LineInit, QueueAhead, InOrder
<1>3. \A p \in Places : Batches[p] = <<>>
  BY DEF LineInit, Places, Batches, Flushers
<1>4. DOMAIN Batches = Places /\ oMade = {} /\ oBuf = <<>>
  BY DEF Batches, LineInit
<1>5. Sound(Batches, oMade)
  <2>1. <<>> \in Seq(Nat) /\ InOrder(<<>>) /\ DOMAIN <<>> = {}
    BY DEF InOrder
  <2>2. \A p \in Places : Batches[p] \in Seq(Nat) /\ InOrder(Batches[p]) /\ DOMAIN Batches[p] = {}
    BY <2>1, <1>3, Zenon
  <2>3. \A p, q \in Places : AllBefore(Batches[p], Batches[q])
    BY <2>2, Zenon DEF AllBefore
  <2> QED
    BY <2>2, <2>3, <1>4, Zenon DEF Sound
<1>6. BufferLast
  BY <1>4, EmptyBefore, Zenon DEF BufferLast
<1>7. Holders
  BY DEF LineInit, Holders, Flushers, At
<1>8. FewLate
  BY DEF LineInit, FewLate
<1> QED
  BY <1>1, <1>2, <1>5, <1>6, <1>7, <1>8, Zenon DEF LineInv

\* Steps that move no line.
LEMMA LinesStay ==
  ASSUME Sound(Batches, oMade), BufferLast, UNCHANGED <<oOut, oLate, oHand, oBuf, oMade>>
  PROVE  Sound(Batches, oMade)' /\ BufferLast'
<1>1. oOut' = oOut /\ oLate' = oLate /\ oHand' = oHand /\ oBuf' = oBuf /\ oMade' = oMade
  OBVIOUS
<1>2. Batches' = Batches /\ Places' = Places
  BY <1>1, BatchesAre, Zenon
<1>3. Sound(Batches, oMade)'
  <2>1. Sound(Batches', oMade')
    BY <1>1, <1>2, Zenon
  <2> QED
    BY <2>1, Zenon DEF Sound, InOrder, AllBefore
<1>4. BufferLast'
  BY <1>1, <1>2, Zenon DEF BufferLast, Buffer, AllBefore
<1> QED
  BY <1>3, <1>4

\* Write queues a line that is newer than any other.
LEMMA LineWriteStep == ASSUME LineInv, LineWrite PROVE LineInv'
<1>1. UNCHANGED <<oOut, oLate, oHand, oBuf, oMade>>
  BY DEF LineWrite
<1>2. Sound(Batches, oMade)' /\ BufferLast'
  BY <1>1, LinesStay, Zenon DEF LineInv
<1>3. oWrites \in Nat /\ oQueue \in Seq(Nat) /\ oWrites' = oWrites + 1
  BY DEF LineInv, LineTypes, LineWrite
<1>4. oQueue' = Append(oQueue, oWrites') \/ oQueue' = oQueue
  BY Zenon DEF LineWrite
<1>5. oWrites' \in Nat /\ oQueue' \in Seq(Nat)
  BY <1>3, <1>4
<1>6. LineTypes'
  BY <1>5, Zenon DEF LineInv, LineTypes, LineWrite
<1>7. QueueAhead'
  <2>1. PICK w \in Nat : w = oWrites'
    BY <1>5
  <2>2. \A n \in oMade : n \in Nat /\ n <= oWrites
    BY DEF LineInv, LineTypes, QueueAhead
  <2>3. \A n \in oMade' : n < w /\ n <= w
    BY <2>1, <2>2, <1>1, <1>3
  <2>4. \A i \in DOMAIN oQueue :
          oQueue[i] \in Nat /\ oQueue[i] <= oWrites /\ \A n \in oMade : n < oQueue[i]
    BY DEF LineInv, LineTypes, QueueAhead
  <2>5. CASE oQueue' = oQueue
    <3>1. \A i \in DOMAIN oQueue' : oQueue'[i] <= w /\ \A n \in oMade' : n < oQueue'[i]
      BY <2>1, <2>4, <2>5, <1>1, <1>3
    <3> QED
      BY <2>1, <2>3, <2>5, <3>1, Zenon DEF LineInv, QueueAhead, InOrder
  <2>6. CASE oQueue' = Append(oQueue, w)
    <3>1. PICK k \in Nat : k = Len(oQueue) /\ DOMAIN oQueue = 1 .. k
      BY <1>3
    <3>2. DOMAIN oQueue' = 1 .. k + 1 /\ oQueue'[k + 1] = w /\ \A i \in 1 .. k : oQueue'[i] = oQueue[i]
      BY <2>6, <3>1, <1>3
    <3>3. \A i \in 1 .. k + 1 : i \in 1 .. k \/ i = k + 1
      BY <3>1
    <3>4. \A i \in 1 .. k : oQueue[i] < w /\ oQueue[i] <= w
      BY <2>1, <2>4, <3>1, <1>3
    <3>5. \A i \in DOMAIN oQueue' : oQueue'[i] <= w /\ \A n \in oMade' : n < oQueue'[i]
      BY <2>3, <2>4, <3>1, <3>2, <3>3, <3>4, <1>1
    <3>6. ASSUME NEW i \in 1 .. k + 1, NEW j \in 1 .. k + 1, i < j PROVE oQueue'[i] < oQueue'[j]
      <4>1. i \in 1 .. k
        BY <3>1, <3>6
      <4>2. CASE j \in 1 .. k
        BY <4>1, <4>2, <3>1, <3>2, <3>6, Zenon DEF LineInv, QueueAhead, InOrder
      <4>3. CASE j = k + 1
        BY <4>1, <4>3, <3>2, <3>4, Zenon
      <4> QED
        BY <4>2, <4>3, <3>3, Zenon
    <3>7. InOrder(oQueue')
      BY <3>2, <3>6, Zenon DEF InOrder
    <3> QED
      BY <2>1, <2>3, <3>5, <3>7, Zenon DEF QueueAhead, InOrder
  <2> QED
    BY <2>1, <2>5, <2>6, <1>4, Zenon
<1>8. Holders' /\ FewLate'
  BY Zenon DEF LineInv, Holders, FewLate, LineWrite, At
<1> QED
  BY <1>2, <1>6, <1>7, <1>8, Zenon DEF LineInv

\* Steps that change only where the goroutines are, and the context.
LEMMA LineControlStep ==
  ASSUME LineInv, ProcessInputExit \/ FlushTick \/ LineClose \/ LineCtxDone \/ UNCHANGED lineVars
  PROVE  LineInv'
<1>1. UNCHANGED <<oSink, oCompress, oQueue, oWrites, oBuf, oHand, oOut, oLate, oMade>>
  BY DEF ProcessInputExit, FlushTick, LineClose, LineCtxDone, lineVars
<1>2. Sound(Batches, oMade)' /\ BufferLast'
  BY <1>1, LinesStay, Zenon DEF LineInv
<1>3. QueueAhead'
  BY <1>1, Zenon DEF LineInv, QueueAhead, InOrder
<1>4. LineTypes' /\ Holders' /\ FewLate'
  <2>1. CASE ProcessInputExit
    BY <2>1 DEF ProcessInputExit, LineInv, LineTypes, Holders, FewLate, At, Flushers
  <2>2. CASE FlushTick
    BY <2>2 DEF FlushTick, LineInv, LineTypes, Holders, FewLate, At, Flushers
  <2>3. CASE LineClose
    BY <2>3 DEF LineClose, LineInv, LineTypes, Holders, FewLate, At, Flushers
  <2>4. CASE LineCtxDone
    BY <2>4 DEF LineCtxDone, LineInv, LineTypes, Holders, FewLate, At, Flushers
  <2>5. CASE UNCHANGED lineVars
    BY <2>5 DEF lineVars, LineInv, LineTypes, Holders, FewLate, At, Flushers
  <2> QED
    BY <2>1, <2>2, <2>3, <2>4, <2>5, Zenon
<1> QED
  BY <1>2, <1>3, <1>4, Zenon DEF LineInv

\* A flush takes the buffer: its lines move to the goroutine's hands.
LEMMA FlushTakeStep == ASSUME LineInv, NEW g \in Flushers, FlushTake(g) PROVE LineInv'
<1>1. /\ UNCHANGED <<oSink, oCompress, oQueue, oWrites, oOut, oLate, oCtx, oMade>>
      /\ oHand' = [oHand EXCEPT ![g] = oBuf] /\ oBuf' = <<>> /\ At(g) = "flush"
  BY Zenon DEF FlushTake, TakeBuffer
<1>2. oHand \in [Flushers -> Seq(Nat)] /\ oBuf \in Seq(Nat) /\ <<>> \in Seq(Nat)
  BY DEF LineInv, LineTypes
<1>3. oHand' \in [Flushers -> Seq(Nat)] /\ oHand'[g] = oBuf
      /\ \A f \in Flushers : f # g => oHand'[f] = oHand[f]
  BY <1>1, <1>2
<1>4. oHand[g] = <<>>
  BY <1>1, Zenon DEF LineInv, Holders
<1>5. PICK h : h = HandPlace(g)
  OBVIOUS
<1>6. /\ h \in Places /\ Batches[h] = <<>> /\ h # Buffer
      /\ Buffer \in Places /\ Batches[Buffer] = oBuf
  BY <1>4, <1>5, HandFacts, Zenon
<1>7. Batches' = Put(Put(Batches, Buffer, <<>>), h, oBuf)
  <2>1. Batches' = BatchesOf(oOut, oLate, oHand', <<>>)
    BY <1>1, BatchesAre, Zenon
  <2>2. Batches = BatchesOf(oOut, oLate, oHand, oBuf)
    BY BatchesAre, Zenon
  <2>3. BatchesOf(oOut, oLate, oHand', <<>>)
          = Put(Put(BatchesOf(oOut, oLate, oHand, oBuf), Buffer, <<>>), HandPlace(g), oBuf)
    <3>1. Takes(oHand', oHand, g, oBuf)
      BY <1>3, Zenon DEF Takes
    <3> QED
      BY <3>1, HandPut
  <2> QED
    BY <2>1, <2>2, <2>3, <1>5, Zenon
<1>8. Places' = Places
  BY <1>1, BatchesAre, Zenon
<1>9. Sound(Batches, oMade)'
  <2>1. Sound(Batches, oMade) /\ h # Buffer /\ Batches[h] = <<>> /\ Buffer \in DOMAIN Batches
    BY <1>6, BatchesAre, Zenon DEF LineInv
  <2>2. Sound(Put(Put(Batches, Buffer, <<>>), h, Batches[Buffer]), oMade)
    BY <2>1, Moved, Zenon
  <2>3. Sound(Batches', oMade)
    BY <2>2, <1>6, <1>7, Zenon
  <2> QED
    BY <2>3, <1>1, Zenon DEF Sound, InOrder, AllBefore
<1>10. BufferLast'
  BY <1>1, EmptyBefore, Zenon DEF BufferLast, AllBefore
<1>11. QueueAhead'
  BY <1>1, Zenon DEF LineInv, QueueAhead, InOrder
<1>12. \/ AfterFlush(g) /\ oBuf = <<>>
       \/ /\ oPc' = IF g = "input" THEN "callback" ELSE oPc
          /\ oTicker' = IF g = "ticker" THEN "callback" ELSE oTicker
          /\ oCloser' = IF g = "closer" THEN "callback" ELSE oCloser
          /\ oBuf # <<>>
  BY Zenon DEF FlushTake
<1>13. g \in {"input", "ticker", "closer"}
  BY DEF Flushers
<1>14. LineTypes'
  <2>1. /\ oPc' \in {"select", "flush", "callback", "done"}
        /\ oTicker' \in {"wait", "flush", "callback", "done"}
        /\ oCloser' \in {"no", "waiting", "flush", "callback", "closed"}
    BY <1>12, <1>13 DEF AfterFlush, LineInv, LineTypes
  <2> QED
    BY <2>1, <1>1, <1>2, <1>3, Zenon DEF LineInv, LineTypes
<1>15. Holders'
  <2>1. CASE g = "input"
    BY <2>1, <1>1, <1>3, <1>12 DEF AfterFlush, At, LineInv, LineTypes, Holders, Flushers
  <2>2. CASE g = "ticker"
    BY <2>2, <1>1, <1>3, <1>12 DEF AfterFlush, At, LineInv, LineTypes, Holders, Flushers
  <2>3. CASE g = "closer"
    BY <2>3, <1>1, <1>3, <1>12 DEF AfterFlush, At, LineInv, LineTypes, Holders, Flushers
  <2> QED
    BY <2>1, <2>2, <2>3, <1>13
<1>16. FewLate'
  <2>1. CASE g = "input"
    BY <2>1, <1>1, <1>3, <1>12 DEF AfterFlush, At, LineInv, LineTypes, Holders, FewLate, Flushers
  <2>2. CASE g = "ticker"
    BY <2>2, <1>1, <1>3, <1>12 DEF AfterFlush, At, LineInv, LineTypes, Holders, FewLate, Flushers
  <2>3. CASE g = "closer"
    BY <2>3, <1>1, <1>3, <1>12 DEF AfterFlush, At, LineInv, LineTypes, Holders, FewLate, Flushers
  <2> QED
    BY <2>1, <2>2, <2>3, <1>13
<1> QED
  BY <1>9, <1>10, <1>11, <1>14, <1>15, <1>16, Zenon DEF LineInv

\* What output does: the batch is in time or late, late only after close or the
\* end of the context.
LEMMA OutputFacts ==
  ASSUME NEW batch, Output(batch)
  PROVE  \/ oOut' = Append(oOut, batch) /\ oLate' = oLate /\ oCloser # "closed"
         \/ oLate' = Append(oLate, batch) /\ oOut' = oOut /\ (oCtx \/ oCloser = "closed")
  BY Zenon DEF Output, WriteToFile, PublishMessage

\* Where the batch goes, in terms of places.
LEMMA OutputPut ==
  ASSUME LineInv, NEW b \in Seq(Nat), Output(b)
  PROVE  /\ oOut' \in Seq(Seq(Nat)) /\ oLate' \in Seq(Seq(Nat))
         /\ \E q : /\ q \notin Places /\ q # Buffer /\ Places' = Places \union {q}
                   /\ BatchesOf(oOut', oLate', oHand, oBuf) = Put(Batches, q, b)
<1>1. oOut \in Seq(Seq(Nat)) /\ oLate \in Seq(Seq(Nat))
  BY Zenon DEF LineInv, LineTypes
<1>2. PICK S : S = Seq(Nat)
  OBVIOUS
<1>3. oOut \in Seq(S) /\ oLate \in Seq(S) /\ b \in S
  BY <1>1, <1>2, Zenon
<1>0. \/ oOut' = Append(oOut, b) /\ oLate' = oLate
      \/ oLate' = Append(oLate, b) /\ oOut' = oOut
  BY OutputFacts, Zenon
<1>4. oOut' \in Seq(S) /\ oLate' \in Seq(S)
  <2>1. Append(oOut, b) \in Seq(S) /\ Append(oLate, b) \in Seq(S)
    BY <1>3
  <2> QED
    BY <2>1, <1>0, <1>3, Zenon
<1>5. Batches = BatchesOf(oOut, oLate, oHand, oBuf) /\ DOMAIN Batches = Places
  BY BatchesAre, Zenon
<1>6. /\ OutPlace(oOut) \notin Places /\ LatePlace(oLate) \notin Places
      /\ BatchesOf(Append(oOut, b), oLate, oHand, oBuf) = Put(Batches, OutPlace(oOut), b)
      /\ BatchesOf(oOut, Append(oLate, b), oHand, oBuf) = Put(Batches, LatePlace(oLate), b)
  <2>1. /\ OutPlace(oOut) \notin DOMAIN BatchesOf(oOut, oLate, oHand, oBuf)
        /\ LatePlace(oLate) \notin DOMAIN BatchesOf(oOut, oLate, oHand, oBuf)
        /\ BatchesOf(Append(oOut, b), oLate, oHand, oBuf)
             = Put(BatchesOf(oOut, oLate, oHand, oBuf), OutPlace(oOut), b)
        /\ BatchesOf(oOut, Append(oLate, b), oHand, oBuf)
             = Put(BatchesOf(oOut, oLate, oHand, oBuf), LatePlace(oLate), b)
    BY <1>3, OutputPlace
  <2> QED
    BY <2>1, <1>5, Zenon
<1>7. Buffer \in Places
  BY HandFacts, Zenon
<1>8. \A q : DOMAIN Put(Batches, q, b) = Places \union {q}
  BY <1>5 DEF Put
<1>9. DOMAIN BatchesOf(oOut', oLate', oHand, oBuf) = Places'
  BY BatchesAre DEF BatchesOf
<1>10. PICK q : q \notin Places /\ BatchesOf(oOut', oLate', oHand, oBuf) = Put(Batches, q, b)
  BY <1>0, <1>6, Zenon
<1> QED
  BY <1>2, <1>4, <1>7, <1>8, <1>9, <1>10, Zenon

\* The rest of a flush: the goroutine's batch is output.
LEMMA FlushCallbackStep == ASSUME LineInv, NEW g \in Flushers, FlushCallback(g) PROVE LineInv'
<1>1. /\ UNCHANGED <<oSink, oCompress, oQueue, oWrites, oBuf, oCtx, oMade>>
      /\ oHand' = [oHand EXCEPT ![g] = <<>>] /\ Output(oHand[g]) /\ AfterFlush(g)
      /\ At(g) = "callback"
  BY Zenon DEF FlushCallback
<1>2. oHand \in [Flushers -> Seq(Nat)] /\ oHand[g] \in Seq(Nat) /\ <<>> \in Seq(Nat)
  BY DEF LineInv, LineTypes
<1>3. oHand' \in [Flushers -> Seq(Nat)] /\ Takes(oHand', oHand, g, <<>>)
  BY <1>1, <1>2 DEF Takes
<1>4. PICK b \in Seq(Nat) : b = oHand[g]
  BY <1>2
<1>5. PICK q : /\ oOut' \in Seq(Seq(Nat)) /\ oLate' \in Seq(Seq(Nat))
               /\ q \notin Places /\ q # Buffer /\ Places' = Places \union {q}
               /\ BatchesOf(oOut', oLate', oHand, oBuf) = Put(Batches, q, b)
  BY <1>1, <1>4, OutputPut, Zenon
<1>6. PICK h : h = HandPlace(g)
  OBVIOUS
<1>7. h \in Places /\ Batches[h] = b /\ h # Buffer /\ DOMAIN Batches = Places /\ h # q
  BY <1>4, <1>5, <1>6, HandFacts, BatchesAre, Zenon
<1>8. Batches' = Put(Put(Batches, q, b), h, <<>>)
  <2>1. Batches' = BatchesOf(oOut', oLate', oHand', oBuf)
    BY <1>1, BatchesAre, Zenon
  <2>2. BatchesOf(oOut', oLate', oHand', oBuf)
          = Put(BatchesOf(oOut', oLate', oHand, oBuf), HandPlace(g), <<>>)
    BY <1>3, HandPut
  <2> QED
    BY <2>1, <2>2, <1>5, <1>6, Zenon
<1>9. Batches' = Put(Put(Batches, h, <<>>), q, b)
  BY <1>7, <1>8 DEF Put
<1>10. Sound(Batches, oMade)'
  <2>1. Sound(Batches, oMade) /\ h \in DOMAIN Batches /\ q \notin DOMAIN Batches /\ q # h
    BY <1>5, <1>7, Zenon DEF LineInv
  <2>2. Sound(Put(Put(Batches, h, <<>>), q, Batches[h]), oMade)
    BY <2>1, Moved, Zenon
  <2>3. Sound(Batches', oMade)
    BY <2>2, <1>7, <1>9, Zenon
  <2> QED
    BY <2>3, <1>1, Zenon DEF Sound, InOrder, AllBefore
<1>11. BufferLast'
  <2> SUFFICES ASSUME NEW p \in Places', p # Buffer PROVE AllBefore(Batches'[p], oBuf)
    BY <1>1, Zenon DEF BufferLast, Buffer, AllBefore
  <2>1. CASE p = h
    BY <2>1, <1>7, <1>8, EmptyBefore DEF Put
  <2>2. CASE p = q
    <3>1. Batches'[p] = Batches[h]
      BY <2>2, <1>7, <1>9 DEF Put
    <3> QED
      BY <3>1, <1>7, Zenon DEF LineInv, BufferLast
  <2>3. CASE p # h /\ p # q
    <3>1. p \in Places /\ Batches'[p] = Batches[p]
      BY <2>3, <1>5, <1>7, <1>8 DEF Put
    <3> QED
      BY <3>1, Zenon DEF LineInv, BufferLast
  <2> QED
    BY <2>1, <2>2, <2>3, Zenon
<1>12. QueueAhead'
  BY <1>1, Zenon DEF LineInv, QueueAhead, InOrder
<1>13. g \in {"input", "ticker", "closer"}
  BY DEF Flushers
<1>14. LineTypes'
  <2>1. /\ oPc' \in {"select", "flush", "callback", "done"}
        /\ oTicker' \in {"wait", "flush", "callback", "done"}
        /\ oCloser' \in {"no", "waiting", "flush", "callback", "closed"}
    BY <1>1, <1>13 DEF AfterFlush, LineInv, LineTypes
  <2> QED
    BY <2>1, <1>1, <1>2, <1>3, <1>5, Zenon DEF LineInv, LineTypes
<1>15. Holders'
  <2>1. CASE g = "input"
    BY <2>1, <1>1, <1>3 DEF Takes, AfterFlush, At, LineInv, LineTypes, Holders, Flushers
  <2>2. CASE g = "ticker"
    BY <2>2, <1>1, <1>3 DEF Takes, AfterFlush, At, LineInv, LineTypes, Holders, Flushers
  <2>3. CASE g = "closer"
    BY <2>3, <1>1, <1>3 DEF Takes, AfterFlush, At, LineInv, LineTypes, Holders, Flushers
  <2> QED
    BY <2>1, <2>2, <2>3, <1>13
<1>16. FewLate'
  <2> SUFFICES ASSUME ~oCtx PROVE FewLate'
    BY <1>1, Zenon DEF FewLate
  <2>1. oLate \in Seq(Seq(Nat)) /\ Len(<<>>) = 0
    BY DEF LineInv, LineTypes
  <2>2. CASE oCloser # "closed"
    <3>1. oLate' = <<>>
      BY <2>2, <1>1, OutputFacts, Zenon DEF LineInv, FewLate
    <3>2. oCloser' = "closed" => oHand'["ticker"] = <<>> \/ g # "ticker"
      BY <1>3 DEF Takes
    <3> QED
      BY <2>1, <3>1, <1>1 DEF FewLate
  <2>3. CASE oCloser = "closed"
    <3>1. oPc = "done" /\ oCloser' = "closed" /\ g = "ticker"
      BY <2>3, <1>1, <1>13 DEF LineInv, Holders, AfterFlush, At
    <3>2. oHand'["ticker"] = <<>>
      BY <3>1, <1>3 DEF Takes
    <3>3. Len(oLate) + (IF oHand["ticker"] = <<>> THEN 0 ELSE 1) <= 1
      BY <2>3, Zenon DEF LineInv, FewLate
    <3>4. oLate = <<>> /\ oLate' = Append(oLate, oHand[g])
      <4>1. oHand["ticker"] # <<>>
        BY <3>1, <1>1, Zenon DEF LineInv, Holders
      <4>2. oLate = <<>>
        BY <2>1, <3>3, <4>1
      <4> QED
        BY <2>3, <4>2, <1>1, OutputFacts, Zenon
    <3>5. Len(oLate') = 1
      BY <2>1, <3>4, <1>2
    <3> QED
      BY <3>1, <3>2, <3>5 DEF FewLate
  <2> QED
    BY <2>2, <2>3
<1> QED
  BY <1>10, <1>11, <1>12, <1>14, <1>15, <1>16, Zenon DEF LineInv

\* A batch that is before another is before it with a newer line, too.
LEMMA BeforeAppended ==
  ASSUME NEW a, NEW b \in Seq(Nat), AllBefore(a, b), NEW line \in Nat,
         \A i \in DOMAIN a : a[i] < line
  PROVE  AllBefore(a, Append(b, line))
<1>1. PICK n \in Nat : n = Len(b) /\ DOMAIN b = 1 .. n
  OBVIOUS
<1>2. PICK c : c = Append(b, line)
  OBVIOUS
<1>3. DOMAIN c = 1 .. n + 1 /\ c[n + 1] = line /\ \A i \in 1 .. n : c[i] = b[i]
  BY <1>1, <1>2
<1>4. \A i \in 1 .. n + 1 : i \in 1 .. n \/ i = n + 1
  BY <1>1
<1>5. AllBefore(a, c)
  BY <1>1, <1>3, <1>4, Zenon DEF AllBefore
<1> QED
  BY <1>2, <1>5, Zenon

\* processInput takes the oldest line that waits, and it is newer than all made.
LEMMA NextLine ==
  ASSUME LineInv, oQueue # <<>>
  PROVE  /\ Head(oQueue) \in Nat /\ \A n \in oMade : n < Head(oQueue)
         /\ Tail(oQueue) \in Seq(Nat) /\ Head(oQueue) <= oWrites
         /\ InOrder(Tail(oQueue))
         /\ \A i \in DOMAIN Tail(oQueue) : Head(oQueue) < Tail(oQueue)[i]
              /\ Tail(oQueue)[i] <= oWrites /\ \A n \in oMade : n < Tail(oQueue)[i]
<1>1. PICK k \in Nat : k = Len(oQueue) /\ DOMAIN oQueue = 1 .. k /\ k # 0
  BY DEF LineInv, LineTypes
<1>2. PICK t : t = Tail(oQueue)
  OBVIOUS
<1>3. t \in Seq(Nat) /\ DOMAIN t = 1 .. k - 1 /\ \A i \in 1 .. k - 1 : t[i] = oQueue[i + 1]
  BY <1>1, <1>2 DEF LineInv, LineTypes
<1>4. Head(oQueue) = oQueue[1] /\ oQueue[1] \in Nat
  BY <1>1 DEF LineInv, LineTypes
<1>5. \A i \in 1 .. k - 1 : i + 1 \in 1 .. k /\ 1 < i + 1
  BY <1>1
<1>6. 1 \in 1 .. k
  BY <1>1
<1>7. \A i, j \in 1 .. k - 1 : i < j => i + 1 < j + 1
  BY <1>1
<1>8. InOrder(t)
  BY <1>1, <1>3, <1>5, <1>7, Zenon DEF LineInv, QueueAhead, InOrder
<1>9. \A i \in DOMAIN t : oQueue[1] < t[i] /\ t[i] <= oWrites /\ \A n \in oMade : n < t[i]
  BY <1>1, <1>3, <1>5, <1>6, Zenon DEF LineInv, QueueAhead, InOrder
<1>10. oQueue[1] <= oWrites /\ \A n \in oMade : n < oQueue[1]
  BY <1>1, <1>6, Zenon DEF LineInv, QueueAhead
<1> QED
  BY <1>2, <1>3, <1>4, <1>8, <1>9, <1>10, Zenon

\* processInput makes a line, which goes to the buffer or straight to the output.
LEMMA ProcessInputStep == ASSUME LineInv, ProcessInput PROVE LineInv'
<1>1. /\ oPc = "select" /\ oQueue # <<>> /\ oQueue' = Tail(oQueue)
      /\ oMade' = oMade \union {Head(oQueue)}
      /\ UNCHANGED <<oSink, oCompress, oWrites, oTicker, oCloser, oHand, oCtx>>
  BY Zenon DEF ProcessInput
<1>2. PICK line \in Nat : line = Head(oQueue) /\ \A n \in oMade : n < line
  BY <1>1, NextLine, Zenon
<1>3. oMade \in SUBSET Nat /\ oBuf \in Seq(Nat) /\ oMade' = oMade \union {line}
  BY <1>1, <1>2, Zenon DEF LineInv, LineTypes
<1>4. oMade' \in SUBSET Nat
  BY <1>3
<1>5. QueueAhead'
  <2>1. InOrder(oQueue')
    BY <1>1, NextLine, Zenon
  <2>2. \A i \in DOMAIN oQueue' : oQueue'[i] <= oWrites' /\ \A n \in oMade' : n < oQueue'[i]
    BY <1>1, NextLine, Zenon
  <2>3. \A n \in oMade' : n <= oWrites'
    BY <1>1, NextLine, Zenon DEF LineInv, QueueAhead
  <2> QED
    BY <2>1, <2>2, <2>3, Zenon DEF QueueAhead, InOrder
<1>6. oQueue' \in Seq(Nat)
  BY <1>1, NextLine, Zenon
<1>7. Sound(Batches, oMade) /\ BufferLast /\ DOMAIN Batches = Places
      /\ Buffer \in Places /\ Batches[Buffer] = oBuf
  BY HandFacts, BatchesAre, Zenon DEF LineInv
<1>8. ASSUME NEW p \in Places PROVE \A i \in DOMAIN Batches[p] : Batches[p][i] < line
  BY <1>2, <1>7, Zenon DEF Sound
<1>9. CASE oCompress
  <2>1. /\ oBuf' = Append(oBuf, line) /\ oOut' = oOut /\ oLate' = oLate
        /\ oPc' \in {"flush", "select"}
    BY <1>2, <1>9 DEF ProcessInput, WriteLineToBuffer
  <2>2. Append(oBuf, line) \in Seq(Nat)
    BY <1>3
  <2>3. Batches' = Put(Batches, Buffer, Append(oBuf, line)) /\ Places' = Places
    <3>1. Batches' = BatchesOf(oOut, oLate, oHand, Append(oBuf, line)) /\ Places' = Places
      BY <2>1, <1>1, BatchesAre, Zenon
    <3>2. BatchesOf(oOut, oLate, oHand, Append(oBuf, line)) = Put(Batches, Buffer, Append(oBuf, line))
      BY BufferPut, Zenon
    <3> QED
      BY <3>1, <3>2, Zenon
  <2>4. Sound(Batches', oMade')
    <3>1. oBuf = (IF Buffer \in DOMAIN Batches THEN Batches[Buffer] ELSE <<>>)
      BY <1>7, Zenon
    <3>2. \A x \in DOMAIN Batches : x # Buffer => AllBefore(Batches[x], oBuf)
      BY <1>7, Zenon DEF BufferLast
    <3>3. Sound(Put(Batches, Buffer, Append(oBuf, line)), oMade \union {line})
      BY <3>1, <3>2, <1>2, <1>3, <1>7, Grown, Zenon
    <3> QED
      BY <3>3, <2>3, <1>3, Zenon
  <2>5. BufferLast'
    <3> SUFFICES ASSUME NEW p \in Places, p # Buffer PROVE AllBefore(Batches'[p], oBuf')
      BY <2>3, Zenon DEF BufferLast, Buffer, AllBefore
    <3>1. Batches'[p] = Batches[p]
      BY <2>3, <1>7 DEF Put
    <3>2. AllBefore(Batches[p], oBuf)
      BY <1>7, Zenon DEF BufferLast
    <3>3. AllBefore(Batches[p], Append(oBuf, line))
      BY <3>2, <1>3, <1>8, BeforeAppended, Zenon
    <3> QED
      BY <3>1, <3>3, <2>1, Zenon
  <2>6. LineTypes'
    BY <2>1, <2>2, <1>1, <1>4, <1>6 DEF LineInv, LineTypes
  <2>7. Holders' /\ FewLate'
    BY <2>1, <1>1, <1>9 DEF LineInv, LineTypes, Holders, FewLate, At, Flushers
  <2>8. Sound(Batches, oMade)'
    BY <2>4, Zenon DEF Sound, InOrder, AllBefore
  <2> QED
    BY <2>5, <2>6, <2>7, <2>8, <1>5, Zenon DEF LineInv
<1>10. CASE ~oCompress
  <2>1. Output(<<line>>) /\ oBuf' = oBuf /\ oPc' = oPc
    BY <1>2, <1>10, Zenon DEF ProcessInput
  <2>2. oBuf = <<>> /\ oCloser # "closed"
    BY <1>1, <1>10 DEF LineInv, Holders
  <2>3. PICK b \in Seq(Nat) : b = <<line>> /\ b = Append(<<>>, line)
    <3>1. <<line>> \in Seq(Nat)
      OBVIOUS
    <3>2. <<line>> = Append(<<>>, line)
      OBVIOUS
    <3> QED
      BY <3>1, <3>2, Zenon
  <2>4. PICK q : /\ oOut' \in Seq(Seq(Nat)) /\ oLate' \in Seq(Seq(Nat))
                 /\ q \notin Places /\ q # Buffer /\ Places' = Places \union {q}
                 /\ BatchesOf(oOut', oLate', oHand, oBuf) = Put(Batches, q, b)
    BY <2>1, <2>3, OutputPut, Zenon
  <2>5. Batches' = Put(Batches, q, Append(<<>>, line))
    BY <2>1, <2>3, <2>4, <1>1, BatchesAre, Zenon
  <2>6. Sound(Batches', oMade')
    <3>1. <<>> = (IF q \in DOMAIN Batches THEN Batches[q] ELSE <<>>)
      BY <2>4, <1>7, Zenon
    <3>2. \A x \in DOMAIN Batches : x # q => AllBefore(Batches[x], <<>>)
      BY EmptyBefore, Zenon
    <3>3. Sound(Put(Batches, q, Append(<<>>, line)), oMade \union {line})
      BY <3>1, <3>2, <1>2, <1>3, <1>7, Grown, Zenon
    <3> QED
      BY <3>3, <2>5, <1>3, Zenon
  <2>7. BufferLast'
    BY <2>1, <2>2, EmptyBefore, Zenon DEF BufferLast, AllBefore
  <2>8. LineTypes'
    BY <2>1, <2>4, <1>1, <1>3, <1>4, <1>6, Zenon DEF LineInv, LineTypes
  <2>9. Holders'
    BY <2>1, <1>1 DEF LineInv, Holders, At, Flushers
  <2>10. FewLate'
    BY <2>1, <2>2, <1>1, OutputFacts, Zenon DEF LineInv, FewLate
  <2>11. Sound(Batches, oMade)'
    BY <2>6, Zenon DEF Sound, InOrder, AllBefore
  <2> QED
    BY <2>7, <2>8, <2>9, <2>10, <2>11, <1>5, Zenon DEF LineInv
<1> QED
  BY <1>9, <1>10, Zenon

\* Every step keeps the invariant.
LEMMA LineStep == LineInv /\ [LineNext]_lineVars => LineInv'
  BY LineWriteStep, ProcessInputStep, LineControlStep, FlushTakeStep, FlushCallbackStep,
     Zenon DEF LineNext

\* For every queue, batch and number of writes: each line is kept in exactly one
\* place, and batches stay whole, however the three flushes interleave.
THEOREM LinesAreKept == LineSpec => []LinesKept
<1>1. ASSUME LineInv PROVE LinesKept
  <2>1. Sound(Batches, oMade)
    BY <1>1, Zenon DEF LineInv
  <2>2. PICK held : held = {p \in DOMAIN Batches : Batches[p] # <<>>}
    OBVIOUS
  <2>3. oMade = UNION {{Batches[p][i] : i \in DOMAIN Batches[p]} : p \in held}
    <3>1. \A p \in held : \A i \in DOMAIN Batches[p] : Batches[p][i] \in oMade
      BY <2>1, <2>2, Zenon DEF Sound
    <3>2. \A p \in DOMAIN Batches : DOMAIN Batches[p] # {} => p \in held
      BY <2>2
    <3>3. \A n \in oMade : \E p \in held : \E i \in DOMAIN Batches[p] : Batches[p][i] = n
      BY <2>1, <3>2, Zenon DEF Sound
    <3> QED
      BY <3>1, <3>3
  <2>4. \A p \in held : InOrder(Batches[p])
    BY <2>1, <2>2, Zenon DEF Sound
  <2>5. \A p, q \in held :
          p # q => AllBefore(Batches[p], Batches[q]) \/ AllBefore(Batches[q], Batches[p])
    BY <2>1, <2>2, Zenon DEF Sound
  <2>6. oCloser = "closed" => oBuf = <<>> /\ oHand["input"] = <<>>
    BY <1>1 DEF LineInv, Holders, At, Flushers
  <2>7. oCloser = "closed" /\ ~oCtx =>
          Len(oLate) + (IF oHand["ticker"] = <<>> THEN 0 ELSE 1) <= 1
    BY <1>1, Zenon DEF LineInv, FewLate
  <2> QED
    BY <2>2, <2>3, <2>4, <2>5, <2>6, <2>7, Zenon DEF LinesKept
<1> QED
  BY <1>1, LineInitInv, LineStep, PTL DEF LineSpec

-----------------------------------------------------------------------------
(* ProbeStatus *)

\* The place in the ring of the bucket j before the last.
Bucket(latest, j) == IF j <= latest THEN latest - j ELSE RingSize + latest - j

\* The place after x.
After(x) == IF x = RingSize - 1 THEN 0 ELSE x + 1

\* What a timeseries is.
Series == [a : [0 .. RingSize - 1 -> Nat], latest : 0 .. RingSize - 1,
           oldest : 0 .. RingSize - 1, currentTS : Nat, startTime : Nat]

\* The ring ts holds the last buckets of hist: before it has turned it starts at
\* its first place, and then at the place after the latest.
RingHolds(ts, hist) ==
  /\ ts \in Series /\ ts.currentTS > 0
  /\ hist \in Seq(Nat) /\ Len(hist) >= 1
  /\ IF Len(hist) <= RingSize THEN ts.oldest = 0 /\ ts.latest = Len(hist) - 1
     ELSE ts.oldest = After(ts.latest)
  /\ \A j \in 0 .. RingSize - 1 :
       j < Len(hist) => ts.a[Bucket(ts.latest, j)] = hist[Len(hist) - j]

\* The inductive invariant: every target's ring holds its last buckets.
StatusInv ==
  /\ sNow \in Nat /\ sNow >= Res
  /\ sPoints \in [Dsts -> Nat]
  /\ sHist \in [Dsts -> Seq(Nat)]
  /\ DOMAIN sSeries \subseteq Dsts
  /\ \A t \in DOMAIN sSeries : RingHolds(sSeries[t], sHist[t])

\* The surfacer: data that come in time or late, and requests for the page.
StatusSpec == StatusInit /\ [][StatusNext]_statusVars

\* agoIndex gives the bucket that many back, or the oldest that is kept, for
\* every target and every number of intervals: see AgoIsRight.
RingIsRight == \A t \in DOMAIN sSeries : \A n \in Nat : RingRight(t, n)

\* addDatum's index modulo the size of the ring.
LEMMA NextPlace ==
  ASSUME NEW x \in 0 .. RingSize - 1
  PROVE  (x + 1) % RingSize = After(x) /\ After(x) \in 0 .. RingSize - 1
<1>1. CASE x = RingSize - 1
  BY <1>1, RingAssumption DEF After
<1>2. CASE x # RingSize - 1
  BY <1>2, RingAssumption DEF After
<1> QED BY <1>1, <1>2

\* The buckets before the last are in the ring, and not in the place of the last.
LEMMA BucketBefore ==
  ASSUME NEW x \in 0 .. RingSize - 1, NEW j \in 0 .. RingSize - 1, j # 0
  PROVE  Bucket(x, j) \in 0 .. RingSize - 1 /\ Bucket(x, j) # x
  BY RingAssumption DEF Bucket

\* When the latest place moves on by one, every bucket is one further back.
LEMMA BucketAfter ==
  ASSUME NEW x \in 0 .. RingSize - 1, NEW j \in 0 .. RingSize - 1, j # 0
  PROVE  Bucket(After(x), j) = Bucket(x, j - 1)
<1>1. CASE x = RingSize - 1
  BY <1>1, RingAssumption DEF Bucket, After
<1>2. CASE x # RingSize - 1
  BY <1>2, RingAssumption DEF Bucket, After
<1> QED BY <1>1, <1>2

\* A datum's time, truncated, is not the zero time that marks an empty ring.
LEMMA TruncateIsPositive ==
  ASSUME NEW t \in Nat, t >= Res
  PROVE  Truncate(t) \in Nat /\ Truncate(t) > 0 /\ Truncate(t) <= t
<1>1. t % Res \in 0 .. Res - 1
  BY RingAssumption
<1> QED BY <1>1, RingAssumption DEF Truncate

\* In a ring that holds the last buckets, agoIndex finds the one asked for.
LEMMA AgoIsHeld ==
  ASSUME NEW ts, NEW hist, RingHolds(ts, hist), NEW n \in Nat
  PROVE  ts.a[AgoIndex(ts, n)] = Ago(hist, n)
<1> DEFINE P(m) == /\ m < Len(hist) /\ m < RingSize
                   /\ m = n \/ m + 1 = Len(hist) \/ m + 1 = RingSize
           back == CHOOSE m \in 0 .. n : P(m)
<1>0. /\ Len(hist) \in Nat /\ Len(hist) >= 1 /\ RingSize \in Nat \ {0}
      /\ ts.latest \in 0 .. RingSize - 1 /\ ts.oldest \in 0 .. RingSize - 1
  BY RingAssumption DEF RingHolds, Series
<1>1. \E m \in 0 .. n : P(m)
  <2> DEFINE k == IF Len(hist) <= RingSize THEN Len(hist) - 1 ELSE RingSize - 1
  <2>1. CASE n <= k
    <3>1. n \in 0 .. n /\ P(n)
      BY <2>1, <1>0
    <3> QED BY <3>1
  <2>2. CASE ~(n <= k)
    <3>1. k \in 0 .. n /\ P(k)
      BY <2>2, <1>0
    <3> QED BY <3>1
  <2> QED BY <2>1, <2>2
<1>2. back \in 0 .. n /\ P(back)
  <2> HIDE DEF P
  <2> QED BY <1>1
<1>3. Ago(hist, n) = hist[Len(hist) - back]
  BY DEF Ago
<1> HIDE DEF back
<1>4. AgoIndex(ts, n) = Bucket(ts.latest, back)
  <2>1. IF Len(hist) <= RingSize THEN ts.oldest = 0 /\ ts.latest = Len(hist) - 1
        ELSE ts.oldest = After(ts.latest)
    BY DEF RingHolds
  <2> QED BY <2>1, <1>0, <1>2 DEF AgoIndex, Bucket, After
<1>5. back \in 0 .. RingSize - 1 /\ back < Len(hist)
  BY <1>0, <1>2
<1> QED BY <1>3, <1>4, <1>5 DEF RingHolds

\* A datum of the current bucket replaces the last one.
LEMMA SameBucket ==
  ASSUME NEW ts, NEW hist, RingHolds(ts, hist), NEW t \in Nat, t >= Res, NEW d \in Nat,
         t > ts.currentTS, ~NeedsBucket(ts, t)
  PROVE  RingHolds(AddDatum(ts, t, d), [hist EXCEPT ![Len(hist)] = d])
<1> DEFINE new == AddDatum(ts, t, d)
           h == [hist EXCEPT ![Len(hist)] = d]
<1>1. /\ hist \in Seq(Nat) /\ Len(hist) \in Nat /\ Len(hist) >= 1 /\ RingSize \in Nat \ {0}
      /\ ts.latest \in 0 .. RingSize - 1 /\ ts \in Series
  BY RingAssumption DEF RingHolds, Series
<1>2. new = [ts EXCEPT !.currentTS = Truncate(t), !.a[ts.latest] = d]
  BY <1>1 DEF AddDatum, Series
<1>3. /\ new \in Series /\ new.latest = ts.latest /\ new.oldest = ts.oldest
      /\ new.currentTS > 0 /\ new.a = [ts.a EXCEPT ![ts.latest] = d]
  <2>1. Truncate(t) \in Nat /\ Truncate(t) > 0
    BY TruncateIsPositive
  <2> HIDE DEF new
  <2> QED BY <1>1, <1>2, <2>1 DEF Series
<1>4. /\ h \in Seq(Nat) /\ Len(h) = Len(hist) /\ h[Len(hist)] = d
      /\ \A i \in 1 .. Len(hist) - 1 : h[i] = hist[i]
  BY <1>1
<1> HIDE DEF new, h
<1>5. ASSUME NEW j \in 0 .. RingSize - 1, j < Len(h)
      PROVE  new.a[Bucket(new.latest, j)] = h[Len(h) - j]
  <2>1. CASE j = 0
    <3>1. Bucket(ts.latest, j) = ts.latest /\ Len(h) - j = Len(hist)
      BY <2>1, <1>1, <1>4 DEF Bucket
    <3>2. new.a[ts.latest] = d
      BY <1>1, <1>3 DEF Series
    <3> QED BY <3>1, <3>2, <1>3, <1>4
  <2>2. CASE j # 0
    <3>1. /\ Bucket(ts.latest, j) \in 0 .. RingSize - 1 /\ Bucket(ts.latest, j) # ts.latest
          /\ Len(h) - j \in 1 .. Len(hist) - 1
      <4>1. Bucket(ts.latest, j) \in 0 .. RingSize - 1 /\ Bucket(ts.latest, j) # ts.latest
        BY <2>2, <1>1, BucketBefore
      <4> QED BY <2>2, <4>1, <1>1, <1>4, <1>5
    <3>2. ts.a[Bucket(ts.latest, j)] = hist[Len(hist) - j]
      BY <1>4, <1>5 DEF RingHolds
    <3>3. new.a[Bucket(ts.latest, j)] = ts.a[Bucket(ts.latest, j)]
      BY <3>1, <1>1, <1>3 DEF Series
    <3> QED BY <3>1, <3>2, <3>3, <1>3, <1>4
  <2> QED BY <2>1, <2>2
<1>6. RingHolds(new, h)
  <2>1. \A j \in 0 .. RingSize - 1 : j < Len(h) => new.a[Bucket(new.latest, j)] = h[Len(h) - j]
    BY <1>5
  <2>2. h \in Seq(Nat) /\ Len(h) >= 1
    BY <1>1, <1>4
  <2>3. IF Len(h) <= RingSize THEN new.oldest = 0 /\ new.latest = Len(h) - 1
        ELSE new.oldest = After(new.latest)
    BY <1>3, <1>4 DEF RingHolds
  <2> QED BY <1>3, <2>1, <2>2, <2>3, Zenon DEF RingHolds
<1> QED BY <1>6 DEF new, h

\* A datum of a later interval goes to the place after the latest.
LEMMA NewBucket ==
  ASSUME NEW ts, NEW hist, RingHolds(ts, hist), NEW t \in Nat, t >= Res, NEW d \in Nat,
         t > ts.currentTS, NeedsBucket(ts, t)
  PROVE  RingHolds(AddDatum(ts, t, d), Append(hist, d))
<1> DEFINE new == AddDatum(ts, t, d)
           h == Append(hist, d)
           latest == After(ts.latest)
           oldest == IF latest = ts.oldest THEN After(latest) ELSE ts.oldest
<1>1. /\ hist \in Seq(Nat) /\ Len(hist) \in Nat /\ Len(hist) >= 1 /\ RingSize \in Nat \ {0}
      /\ ts.latest \in 0 .. RingSize - 1 /\ ts.oldest \in 0 .. RingSize - 1 /\ ts \in Series
  BY RingAssumption DEF RingHolds, Series
<1>2. latest \in 0 .. RingSize - 1 /\ (ts.latest + 1) % RingSize = latest
  BY <1>1, NextPlace
<1>3. oldest \in 0 .. RingSize - 1
      /\ oldest = IF latest = ts.oldest THEN (latest + 1) % RingSize ELSE ts.oldest
  BY <1>1, <1>2, NextPlace
<1>4. new = [ts EXCEPT !.latest = latest, !.oldest = oldest, !.currentTS = Truncate(t),
                       !.a[latest] = d]
  BY <1>2, <1>3 DEF AddDatum
<1> HIDE DEF latest, oldest
<1>5. /\ new \in Series /\ new.latest = latest /\ new.oldest = oldest
      /\ new.currentTS > 0 /\ new.a = [ts.a EXCEPT ![latest] = d]
  <2>1. Truncate(t) \in Nat /\ Truncate(t) > 0
    BY TruncateIsPositive
  <2> HIDE DEF new
  <2> QED BY <1>1, <1>2, <1>3, <1>4, <2>1 DEF Series
<1>6. /\ h \in Seq(Nat) /\ Len(h) = Len(hist) + 1 /\ h[Len(h)] = d
      /\ \A i \in 1 .. Len(hist) : h[i] = hist[i]
  BY <1>1
<1> HIDE DEF new, h
<1>7. IF Len(h) <= RingSize THEN new.oldest = 0 /\ new.latest = Len(h) - 1
      ELSE new.oldest = After(new.latest)
  <2>1. IF Len(hist) <= RingSize THEN ts.oldest = 0 /\ ts.latest = Len(hist) - 1
        ELSE ts.oldest = After(ts.latest)
    BY DEF RingHolds
  <2>2. CASE Len(hist) < RingSize
    <3>1. ts.oldest = 0 /\ latest = Len(hist) /\ oldest = 0
      BY <2>1, <2>2, <1>1 DEF latest, oldest, After
    <3>2. Len(hist) \in Nat /\ RingSize \in Nat /\ Len(h) = Len(hist) + 1
      BY <1>1, <1>6
    <3>3. Len(h) <= RingSize /\ Len(h) - 1 = Len(hist)
      BY <3>2, <2>2
    <3> QED BY <3>1, <3>3, <1>5
  <2>3. CASE Len(hist) >= RingSize
    <3>1. ts.oldest = latest
      BY <2>1, <2>3, <1>1 DEF latest, After
    <3>2. oldest = After(latest)
      BY <3>1 DEF oldest
    <3>3. Len(hist) \in Nat /\ RingSize \in Nat /\ Len(h) = Len(hist) + 1
      BY <1>1, <1>6
    <3>4. ~(Len(h) <= RingSize)
      BY <3>3, <2>3
    <3> QED BY <3>2, <3>4, <1>5
  <2> QED BY <2>2, <2>3, <1>1
<1>8. ASSUME NEW j \in 0 .. RingSize - 1, j < Len(h)
      PROVE  new.a[Bucket(new.latest, j)] = h[Len(h) - j]
  <2>1. CASE j = 0
    <3>1. Bucket(latest, j) = latest /\ Len(h) - j = Len(h)
      BY <2>1, <1>1, <1>2, <1>6 DEF Bucket
    <3>2. new.a[latest] = d
      BY <1>1, <1>2, <1>5 DEF Series
    <3> QED BY <3>1, <3>2, <1>5, <1>6
  <2>2. CASE j # 0
    <3>1. /\ Bucket(latest, j) \in 0 .. RingSize - 1 /\ Bucket(latest, j) # latest
          /\ Bucket(latest, j) = Bucket(ts.latest, j - 1)
          /\ j - 1 \in 0 .. RingSize - 1 /\ j - 1 < Len(hist)
          /\ Len(h) - j \in 1 .. Len(hist) /\ Len(h) - j = Len(hist) - (j - 1)
      <4>1. /\ Bucket(latest, j) \in 0 .. RingSize - 1 /\ Bucket(latest, j) # latest
            /\ Bucket(latest, j) = Bucket(ts.latest, j - 1)
        BY <2>2, <1>1, <1>2, BucketBefore, BucketAfter DEF latest
      <4> QED BY <2>2, <4>1, <1>1, <1>6, <1>8
    <3>2. ts.a[Bucket(ts.latest, j - 1)] = hist[Len(hist) - (j - 1)]
      BY <3>1 DEF RingHolds
    <3>3. new.a[Bucket(latest, j)] = ts.a[Bucket(latest, j)]
      BY <3>1, <1>1, <1>2, <1>5 DEF Series
    <3> QED BY <3>1, <3>2, <3>3, <1>5, <1>6
  <2> QED BY <2>1, <2>2
<1>9. RingHolds(new, h)
  <2>1. \A j \in 0 .. RingSize - 1 : j < Len(h) => new.a[Bucket(new.latest, j)] = h[Len(h) - j]
    BY <1>8
  <2>2. h \in Seq(Nat) /\ Len(h) >= 1
    BY <1>1, <1>6
  <2> QED BY <1>5, <1>7, <2>1, <2>2, Zenon DEF RingHolds
<1> QED BY <1>9 DEF new, h

\* The first datum of a timeseries.
LEMMA FirstBucket ==
  ASSUME NEW t \in Nat, t >= Res, NEW d \in Nat, sNow \in Nat
  PROVE  RingHolds(AddDatum(NewTimeseries, t, d), <<d>>)
<1> DEFINE new == AddDatum(NewTimeseries, t, d)
<1>1. /\ NewTimeseries \in Series /\ NewTimeseries.latest = 0 /\ NewTimeseries.oldest = 0
      /\ NewTimeseries.currentTS = NoTime
  BY RingAssumption DEF NewTimeseries, Series, NoTime
<1>2. t > NewTimeseries.currentTS /\ ~NeedsBucket(NewTimeseries, t)
  BY <1>1, RingAssumption DEF NeedsBucket, NoTime
<1>3. new = [NewTimeseries EXCEPT !.currentTS = Truncate(t), !.a[0] = d]
  BY <1>1, <1>2 DEF AddDatum, Series
<1>4. /\ new \in Series /\ new.latest = 0 /\ new.oldest = 0 /\ new.currentTS > 0
      /\ new.a[0] = d
  <2>1. Truncate(t) \in Nat /\ Truncate(t) > 0
    BY TruncateIsPositive
  <2> HIDE DEF new
  <2> QED BY <1>1, <1>3, <2>1, RingAssumption DEF Series
<1> HIDE DEF new
<1>5. RingHolds(new, <<d>>)
  BY <1>4, RingAssumption DEF RingHolds, Bucket
<1> QED BY <1>5 DEF new

\* record keeps the rings right: the first datum of a target, one of its current
\* bucket, one that needs a new bucket, and one that is too old.
LEMMA RecordHolds ==
  ASSUME StatusInv, NEW dst \in Dsts, NEW t \in Nat, t >= Res, StatusRecord(dst, t)
  PROVE  StatusInv'
<1> DEFINE known == dst \in DOMAIN sSeries
           ts == IF known THEN sSeries[dst] ELSE NewTimeseries
           hist == IF known THEN sHist[dst] ELSE <<>>
           d == sPoints[dst] + 1
           next == IF t <= ts.currentTS THEN hist
                   ELSE IF hist = <<>> \/ NeedsBucket(ts, t) THEN Append(hist, d)
                   ELSE [hist EXCEPT ![Len(hist)] = d]
<1>1. d \in Nat
  BY DEF StatusInv
<1>2. /\ sPoints' = [sPoints EXCEPT ![dst] = d] /\ sNow' = sNow
  BY DEF StatusRecord
<1>3. sPoints' \in [Dsts -> Nat] /\ sNow' \in Nat /\ sNow' >= Res
  BY <1>1, <1>2 DEF StatusInv
<1>4. CASE UNCHANGED <<sSeries, sTargets, sHist>>
  BY <1>3, <1>4 DEF StatusInv
<1>5. CASE /\ sSeries' = [x \in DOMAIN sSeries \union {dst} |->
                            IF x = dst THEN AddDatum(ts, t, d) ELSE sSeries[x]]
           /\ sHist' = [sHist EXCEPT ![dst] = next]
  <2>1. RingHolds(AddDatum(ts, t, d), next)
    <3>1. CASE ~known
      <4>1. ts.currentTS = 0 /\ hist = <<>> /\ ts = NewTimeseries
        BY <3>1 DEF NewTimeseries, NoTime
      <4>2. ~(t <= ts.currentTS)
        BY <4>1, RingAssumption
      <4>3. next = <<d>>
        <5>1. next = Append(<<>>, d)
          BY <4>1, <4>2
        <5> HIDE DEF d, next
        <5> QED BY <5>1, <1>1
      <4>4. RingHolds(AddDatum(NewTimeseries, t, d), <<d>>)
        BY <1>1, FirstBucket DEF StatusInv
      <4> QED BY <4>1, <4>3, <4>4
    <3>2. CASE known
      <4>1. RingHolds(ts, hist) /\ ts.currentTS \in Nat /\ hist # <<>>
        <5>1. RingHolds(ts, hist)
          BY <3>2 DEF StatusInv
        <5> HIDE DEF ts, hist
        <5>2. Len(hist) >= 1 /\ ts \in Series
          BY <5>1 DEF RingHolds
        <5>3. hist # <<>>
          BY <5>2
        <5> QED BY <5>1, <5>2, <5>3 DEF Series
      <4> HIDE DEF ts, hist, d
      <4>2. CASE t <= ts.currentTS
        BY <4>1, <4>2 DEF AddDatum
      <4>3. CASE t > ts.currentTS /\ NeedsBucket(ts, t)
        BY <4>1, <4>3, <1>1, NewBucket
      <4>4. CASE t > ts.currentTS /\ ~NeedsBucket(ts, t)
        BY <4>1, <4>4, <1>1, SameBucket
      <4> QED BY <4>1, <4>2, <4>3, <4>4
    <3> QED BY <3>1, <3>2
  <2> HIDE DEF next, ts, hist, d
  <2>2. next \in Seq(Nat)
    BY <2>1 DEF RingHolds
  <2>3. sHist' \in [Dsts -> Seq(Nat)] /\ DOMAIN sSeries' \subseteq Dsts
    BY <1>5, <2>2 DEF StatusInv
  <2>4. ASSUME NEW x \in DOMAIN sSeries'
        PROVE  RingHolds(sSeries'[x], sHist'[x])
    <3>1. CASE x = dst
      BY <3>1, <1>5, <2>1 DEF StatusInv
    <3>2. CASE x # dst
      <4>1. x \in DOMAIN sSeries /\ x \in Dsts /\ sSeries'[x] = sSeries[x] /\ sHist'[x] = sHist[x]
        BY <3>2, <1>5, <2>4 DEF StatusInv
      <4> QED BY <4>1 DEF StatusInv
    <3> QED BY <3>1, <3>2
  <2> QED BY <1>3, <2>3, <2>4 DEF StatusInv, RingHolds, Series
<1> QED BY <1>4, <1>5 DEF StatusRecord

\* However often a ring has turned, whatever intervals had no data and whatever
\* targets were dropped and came back, agoIndex of timeseries.go gives for every
\* number of intervals the bucket that many before the last, or the oldest that
\* the ring keeps, for every size of the ring and every resolution.
THEOREM RingsAreRight == StatusSpec => []RingIsRight
<1>1. StatusInit => StatusInv
  BY RingAssumption DEF StatusInit, StatusInv
<1>2. StatusInv /\ [StatusNext]_statusVars => StatusInv'
  <2> SUFFICES ASSUME StatusInv, [StatusNext]_statusVars
               PROVE  StatusInv'
    OBVIOUS
  <2>1. CASE StatusClock
    BY <2>1, RingAssumption DEF StatusClock, StatusInv
  <2>2. CASE StatusWriteData
    <3>1. PICK gone : sSeries' = [t \in DOMAIN sSeries \ gone |-> sSeries[t]]
      BY <2>2 DEF StatusWriteData
    <3>2. UNCHANGED <<sNow, sPoints, sHist>>
      BY <2>2 DEF StatusWriteData
    <3> QED BY <3>1, <3>2 DEF StatusInv
  <2>3. ASSUME NEW dst \in Dsts, NEW late \in {0, 1}, sNow >= Res + late,
               StatusRecord(dst, sNow - late)
        PROVE  StatusInv'
    <3>1. sNow - late \in Nat /\ sNow - late >= Res
      BY <2>3, RingAssumption DEF StatusInv
    <3> QED BY <2>3, <3>1, RecordHolds
  <2>4. CASE UNCHANGED statusVars
    BY <2>4 DEF statusVars, StatusInv
  <2> QED BY <2>1, <2>2, <2>3, <2>4 DEF StatusNext
<1>3. StatusInv => RingIsRight
  BY AgoIsHeld DEF StatusInv, RingIsRight, RingRight
<1> QED BY <1>1, <1>2, <1>3, PTL DEF StatusSpec
=============================================================================
