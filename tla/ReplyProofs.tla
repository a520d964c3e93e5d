---------------------------- MODULE ReplyProofs -----------------------------
(***************************************************************************)
(* Theorems about the replies that the ping and the external probe count,  *)
(* for every set of targets and addresses, list changes, number of packets *)
(* and width of the run ID.                                                *)
(***************************************************************************)
EXTENDS PingProbe, ExternalProbe, TLAPS, FiniteSetTheorems, SequenceTheorems

-----------------------------------------------------------------------------
(* PingProbe *)

PingTypes ==
  /\ listed \subseteq Targets
  /\ pRunCnt \in Nat /\ pRound \in Nat /\ pRound < PacketsPerProbe
  /\ pTargets \subseteq Targets /\ pTodo \subseteq pTargets
  /\ pRes \in [Targets -> [sent : Nat, rcvd : Nat]]
  /\ pShared \in BOOLEAN
  /\ IsFiniteSet(pNet)

\* A reply carries its run in its sequence number; those to the current run come
\* from addresses that it sent to.
PacketsOfRuns ==
  \A pkt \in pNet :
    /\ pkt.run \in Nat /\ pkt.run <= pRunCnt
    /\ pkt.seq \div SeqPerRun = pkt.run % RunIDs
    /\ pkt.run = pRunCnt =>
         \E t \in pTargets : target2addr[t] # NoAddr /\ target2addr[t] = pkt.addr

\* While no two targets had the same address, an address leads back to its target.
AddressesLeadBack ==
  ~pShared => \A t \in pTargets : target2addr[t] # NoAddr => ip2target[target2addr[t]] = t

\* Replies to this run that could still count for a target.
Countable(t) ==
  {pkt \in pNet : /\ pkt.run = pRunCnt /\ pkt.addr = target2addr[t] /\ target2addr[t] # NoAddr
                  /\ <<t, pkt.seq>> \notin received}

\* Replies counted and replies that could count are covered by requests.
Covered ==
  ~pShared =>
    /\ \A t \in Targets : pRes[t].rcvd <= pRes[t].sent
    /\ \A t \in pTargets : pRes[t].rcvd + Cardinality(Countable(t)) <= pRes[t].sent

PingInv == PingTypes /\ PacketsOfRuns /\ AddressesLeadBack /\ Covered /\ ~pForeign

-----------------------------------------------------------------------------
(* The run ID in the sequence number *)

\* A multiple of n that lies strictly between -n and n is 0.
LEMMA SmallMultiple ==
  ASSUME NEW n \in Nat, n > 0, NEW q \in Int, n * q < n, n * q > -n
  PROVE  q = 0
<1>1. CASE q >= 1
  <2>1. n * q >= n
    BY <1>1
  <2> QED
    BY <2>1
<1>2. CASE q <= -1
  <2>1. n * q <= -n
    BY <1>2
  <2> QED
    BY <2>1
<1> QED
  BY <1>1, <1>2

\* Division with remainder.
LEMMA DivMod ==
  ASSUME NEW n \in Nat, n > 0, NEW k \in Nat
  PROVE  \E q \in Int : k = n * q + (k % n)
<1>1. k \div n \in Int
  OBVIOUS
<1>2. PICK q \in Int : q = k \div n
  BY <1>1, Zenon
<1>3. PICK r \in Int : r = k % n
  OBVIOUS
<1>4. k = n * q + r
  BY <1>2, <1>3
<1> QED
  BY <1>3, <1>4, Zenon

\* It has only one result.
LEMMA DivModUnique ==
  ASSUME NEW n \in Nat, n > 0, NEW k \in Nat, NEW q \in Nat, NEW r \in Nat, r < n, k = n * q + r
  PROVE  k \div n = q /\ k % n = r
OBVIOUS

\* The run ID comes round after n runs and not before.
LEMMA RunIDsDiffer ==
  ASSUME NEW n \in Nat, n > 0, NEW i \in Nat, NEW j \in Nat, i <= j, j - i < n, i % n = j % n
  PROVE  i = j
<1>1. PICK r \in Int : r = i % n
  OBVIOUS
<1>2. PICK p \in Int : i = n * p + r
  BY <1>1, DivMod, Zenon
<1>3. PICK q \in Int : j = n * q + r
  BY <1>1, DivMod, Zenon
<1>4. n * (q - p) = j - i
  BY <1>2, <1>3
<1>5. q - p \in Int /\ n * (q - p) < n /\ n * (q - p) > -n
  BY <1>4
<1>6. q - p = 0
  BY <1>5, SmallMultiple, Zenon
<1> QED
  BY <1>4, <1>6

\* The high byte of a packet's sequence number is that of the run.
LEMMA SeqOfRun == PingTypes => PingSeq \div SeqPerRun = pRunCnt % RunIDs
<1> SUFFICES ASSUME PingTypes PROVE PingSeq \div SeqPerRun = HighByte
  BY Zenon DEF HighByte
<1>1. /\ SeqPerRun \in Nat /\ SeqPerRun > 0 /\ RunIDs \in Nat /\ RunIDs > 0
      /\ pRound \in Nat /\ pRound < SeqPerRun
  BY PingAssumption DEF PingTypes
<1>2. HighByte \in Nat /\ HighByte < RunIDs
  BY <1>1 DEF HighByte, PingTypes
<1> DEFINE k == HighByte * SeqPerRun + pRound
<1>3. k \in Nat /\ k < RunIDs * SeqPerRun
  <2>1. HighByte * SeqPerRun <= (RunIDs - 1) * SeqPerRun
    BY <1>1, <1>2
  <2> QED
    BY <1>1, <1>2, <2>1
<1>4. k % (RunIDs * SeqPerRun) = k
  <2>1. RunIDs * SeqPerRun \in Nat /\ RunIDs * SeqPerRun > 0
    BY <1>1
  <2> DEFINE m == RunIDs * SeqPerRun
  <2>2. m \in Nat /\ m > 0 /\ k < m /\ 0 \in Nat
    BY <1>3, <2>1, Zenon
  <2> HIDE DEF m, k
  <2>3. k % m = k
    BY <1>3, <2>2
  <2> QED
    BY <2>3, Zenon DEF m
<1>5. k = SeqPerRun * HighByte + pRound
  BY <1>1, <1>2
<1>6. k \div SeqPerRun = HighByte
  BY <1>1, <1>2, <1>3, <1>5, DivModUnique, Zenon
<1> QED
  BY <1>4, <1>6, Zenon DEF PingSeq

-----------------------------------------------------------------------------
(* The invariant *)

\* PingInv holds initially.
LEMMA PingInitInv == EnvInit /\ PingInit => PingInv
<1> SUFFICES ASSUME EnvInit, PingInit PROVE PingInv
  BY Zenon
<1>1. PingTypes
  <2>1. pRound < PacketsPerProbe
    BY PingAssumption DEF PingInit
  <2>2. IsFiniteSet(pNet)
    BY FS_EmptySet, Zenon DEF PingInit
  <2> QED
    BY <2>1, <2>2, Zenon DEF EnvInit, PingInit, PingTypes
<1>2. PacketsOfRuns /\ AddressesLeadBack /\ ~pForeign
  BY Zenon DEF PingInit, PacketsOfRuns, AddressesLeadBack
<1>3. Covered
  BY DEF PingInit, Covered
<1> QED
  BY <1>1, <1>2, <1>3, Zenon DEF PingInv

\* Steps that leave the counters, the replies and the addresses alone.
LEMMA PingOther ==
  ASSUME PingInv, UNCHANGED <<pRunCnt, pRes, received, pNet, pForeign, pAddrVars>>,
         listed' \subseteq Targets, pRound' \in Nat, pRound' < PacketsPerProbe,
         pTodo' \subseteq pTargets
  PROVE  PingInv'
<1> USE DEF PingInv, pAddrVars
<1>1. PingTypes'
  BY Zenon DEF PingTypes
<1>2. PacketsOfRuns' /\ AddressesLeadBack' /\ ~pForeign'
  BY Zenon DEF PacketsOfRuns, AddressesLeadBack
<1>3. \A t \in pTargets : Countable(t)' = Countable(t)
  BY Zenon DEF Countable
<1>4. Covered'
  BY <1>3, Zenon DEF Covered
<1> QED
  BY <1>1, <1>2, <1>4, Zenon

\* When targets are as many as their addresses, the owner of an address is its target.
LEMMA OwnersAreTargets ==
  ASSUME NEW R, IsFiniteSet(R), NEW addr, NEW A, A = {addr[t] : t \in R},
         ~(Cardinality(A) < Cardinality(R)),
         NEW owner \in [A -> R], \A a \in A : addr[owner[a]] = a
  PROVE  \A t \in R : owner[addr[t]] = t
<1> DEFINE f == [t \in R |-> addr[t]]
<1>1. f \in Surjection(R, A)
  BY Zenon DEF Surjection
<1>2. /\ IsFiniteSet(A) /\ Cardinality(A) <= Cardinality(R)
      /\ Cardinality(A) = Cardinality(R) <=> f \in Injection(R, A)
  BY <1>1, FS_Surjection, Zenon
<1>3. Cardinality(A) \in Nat /\ Cardinality(R) \in Nat
  BY <1>2, FS_CardinalityType, Zenon
<1>4. f \in Injection(R, A)
  BY <1>2, <1>3
<1>5. \A t, u \in R : addr[t] = addr[u] => t = u
  BY <1>4, Zenon DEF Injection, IsInjective
<1> QED
  BY <1>5, Zenon

\* The start of a run keeps PingInv: no packet has the new run's number yet.
LEMMA RunProbeInv ==
  ASSUME PingInv, PingRunProbe
  PROVE  PingInv'
<1> USE DEF PingInv
<1>1. /\ pRunCnt' = pRunCnt + 1 /\ pRound' = 0 /\ pTodo' = pTargets' /\ received' = {}
      /\ UNCHANGED <<pRes, pNet, pForeign, listed>>
  BY Zenon DEF PingRunProbe, envVars
<1>2. pTargets' \subseteq Targets /\ pShared' \in BOOLEAN /\ (pShared => pShared') /\ AddressesLeadBack'
  <2>1. CASE UNCHANGED pAddrVars
    BY <2>1, Zenon DEF pAddrVars, PingTypes, AddressesLeadBack
  <2>2. CASE \E addr \in [listed -> Addrs \cup {NoAddr}] : updatePingTargets(addr)
    <3>1. PICK addr \in [listed -> Addrs \cup {NoAddr}] : updatePingTargets(addr)
      BY <2>2, Zenon
    <3> DEFINE resolved == {t \in listed : addr[t] # NoAddr}
               newAddrs == {addr[t] : t \in resolved}
    <3>2. /\ pTargets' = listed /\ target2addr' = Merged(addr, target2addr)
          /\ pShared' = (pShared \/ Cardinality(newAddrs) < Cardinality(resolved))
      BY <3>1, Zenon DEF updatePingTargets
    <3>3. PICK owner \in [newAddrs -> resolved] :
            /\ \A a \in newAddrs : addr[owner[a]] = a
            /\ ip2target' = Merged(owner, ip2target)
      BY <3>1, Zenon DEF updatePingTargets
    <3>4. \A t \in listed : target2addr'[t] = addr[t]
      BY <3>2, Zenon DEF Merged
    <3>5. \A a \in newAddrs : ip2target'[a] = owner[a]
      <4> HIDE DEF newAddrs, resolved
      <4> QED
        BY <3>3, Zenon DEF Merged
    <3>6. IsFiniteSet(resolved)
      BY PingAssumption, FS_Subset, Zenon DEF PingTypes
    <3>7. ~pShared' => \A t \in resolved : owner[addr[t]] = t
      <4>1. newAddrs = {addr[t] : t \in resolved}
        BY Zenon
      <4>2. ~pShared' => ~(Cardinality(newAddrs) < Cardinality(resolved))
        BY <3>2, Zenon
      <4> HIDE DEF newAddrs, resolved
      <4> QED
        BY <3>3, <3>6, <4>1, <4>2, OwnersAreTargets
    <3>8. AddressesLeadBack'
      BY <3>2, <3>4, <3>5, <3>7 DEF AddressesLeadBack
    <3> QED
      BY <3>2, <3>8, Zenon DEF PingTypes
  <2> QED
    BY <2>1, <2>2, Zenon DEF PingRunProbe
<1>3. PingTypes'
  BY <1>1, <1>2, PingAssumption DEF PingTypes
<1>4. PacketsOfRuns'
  BY <1>1 DEF PacketsOfRuns, PingTypes
<1>5. \A t \in pTargets' : Countable(t)' = {}
  BY <1>1 DEF Countable, PacketsOfRuns, PingTypes
<1>6. Covered'
  <2>1. \A t \in Targets : pRes[t].rcvd \in Nat /\ pRes[t].sent \in Nat
    BY Zenon DEF PingTypes
  <2> QED
    <3>1. ASSUME ~pShared', NEW t \in pTargets'
          PROVE  pRes'[t].rcvd + Cardinality(Countable(t)') <= pRes'[t].sent
      <4>1. t \in Targets /\ pRes[t].rcvd <= pRes[t].sent
        BY <1>2, <3>1, Zenon DEF Covered
      <4>2. Cardinality(Countable(t)') = 0
        BY <1>5, FS_EmptySet, Zenon
      <4> QED
        BY <1>1, <2>1, <4>1, <4>2
    <3>2. ASSUME ~pShared', NEW t \in Targets
          PROVE  pRes'[t].rcvd <= pRes'[t].sent
      BY <1>1, <1>2, <3>2, Zenon DEF Covered
    <3> QED
      BY <3>1, <3>2, Zenon DEF Covered
<1> QED
  BY <1>1, <1>2, <1>3, <1>4, <1>6, Zenon

\* A request adds at most one reply that counts, for the target it goes to.
LEMMA SendInv ==
  ASSUME PingInv, NEW t \in Targets, PingSend(t)
  PROVE  PingInv'
<1> USE DEF PingInv
<1>1. /\ t \in pTodo /\ t \in pTargets /\ pTodo' \subseteq pTargets
      /\ UNCHANGED <<pRunCnt, pRound, received, pForeign, pAddrVars, listed>>
  BY Zenon DEF PingSend, PingTypes, envVars
<1>2. CASE UNCHANGED <<pNet, pRes>>
  BY <1>1, <1>2, PingOther, Zenon DEF PingTypes
<1> DEFINE new == [addr |-> target2addr[t], seq |-> PingSeq, run |-> pRunCnt]
<1>3. CASE /\ target2addr[t] # NoAddr /\ pNet' = pNet \cup {new}
           /\ pRes' = [pRes EXCEPT ![t].sent = @ + 1]
  <2>1. new.addr = target2addr[t] /\ new.run = pRunCnt /\ new.seq = PingSeq
    BY Zenon
  <2> HIDE DEF new
  <2>2. /\ pRes' \in [Targets -> [sent : Nat, rcvd : Nat]]
        /\ \A u \in Targets : /\ pRes'[u].rcvd = pRes[u].rcvd
                              /\ pRes'[u].sent = IF u = t THEN pRes[u].sent + 1 ELSE pRes[u].sent
    BY <1>3 DEF PingTypes
  <2>3. PingTypes'
    BY <1>1, <1>3, <2>2, FS_AddElement, Zenon DEF PingTypes, pAddrVars
  <2>4. PacketsOfRuns'
    <3>1. new.seq \div SeqPerRun = new.run % RunIDs
      BY <2>1, SeqOfRun, Zenon
    <3>2. new.run \in Nat /\ new.run <= pRunCnt
      BY <2>1 DEF PingTypes
    <3> QED
      BY <1>1, <1>3, <2>1, <3>1, <3>2, Zenon DEF PacketsOfRuns, pAddrVars
  <2>5. AddressesLeadBack'
    BY <1>1, Zenon DEF AddressesLeadBack, pAddrVars
  <2>6. Covered'
    <3> SUFFICES ASSUME ~pShared PROVE Covered'
      BY <1>1, Zenon DEF Covered, pAddrVars
    <3>1. \A u \in Targets : pRes[u].rcvd \in Nat /\ pRes[u].sent \in Nat
      BY Zenon DEF PingTypes
    <3>2. \A u \in Targets : pRes'[u].rcvd <= pRes'[u].sent
      BY <2>2, <3>1 DEF Covered
    <3>3. ASSUME NEW u \in pTargets
          PROVE  pRes'[u].rcvd + Cardinality(Countable(u)') <= pRes'[u].sent
      <4>1. u \in Targets /\ pRes[u].rcvd + Cardinality(Countable(u)) <= pRes[u].sent
        BY Zenon DEF Covered, PingTypes
      <4>2. IsFiniteSet(Countable(u)) /\ Cardinality(Countable(u)) \in Nat
        BY FS_Subset, FS_CardinalityType, Zenon DEF Countable, PingTypes
      <4>3. CASE u = t
        <5>1. IsFiniteSet(Countable(u) \cup {new}) /\
              Cardinality(Countable(u) \cup {new}) <= Cardinality(Countable(u)) + 1
          BY <4>2, FS_AddElement
        <5>2. Countable(u)' \subseteq Countable(u) \cup {new}
          BY <1>1, <1>3, Zenon DEF Countable, pAddrVars
        <5>3. IsFiniteSet(Countable(u)') /\
              Cardinality(Countable(u)') <= Cardinality(Countable(u) \cup {new})
          BY <5>1, <5>2, FS_Subset, Zenon
        <5>4. Cardinality(Countable(u)') \in Nat /\ Cardinality(Countable(u) \cup {new}) \in Nat
          BY <5>1, <5>3, FS_CardinalityType, Zenon
        <5> QED
          BY <2>2, <3>1, <4>1, <4>2, <4>3, <5>1, <5>3, <5>4
      <4>4. CASE u # t
        <5>1. target2addr[u] # NoAddr => target2addr[u] # target2addr[t]
          BY <1>1, <1>3, <4>4, Zenon DEF AddressesLeadBack
        <5>2. Countable(u)' = Countable(u)
          BY <1>1, <1>3, <2>1, <5>1, Zenon DEF Countable, pAddrVars
        <5> QED
          BY <2>2, <4>1, <4>4, <5>2, Zenon
      <4> QED
        BY <4>3, <4>4, Zenon
    <3> QED
      BY <1>1, <3>2, <3>3, Zenon DEF Covered, pAddrVars
  <2> QED
    BY <1>1, <2>3, <2>4, <2>5, <2>6, Zenon
<1> QED
  BY <1>2, <1>3, Zenon DEF PingSend

\* A reply that is counted is one to this run, of the target that it counts for.
LEMMA ReadInv ==
  ASSUME PingInv, NEW pkt \in pNet, PingRead(pkt)
  PROVE  PingInv'
<1> USE DEF PingInv
<1>0. PICK t : t = ip2target[pkt.addr]
  BY Zenon
<1>1. /\ pNet' \subseteq pNet /\ pRunCnt - pkt.run < RunIDs
      /\ UNCHANGED <<pRunCnt, pRound, pTodo, pAddrVars, listed>>
  BY Zenon DEF PingRead, envVars
<1>2. IsFiniteSet(pNet') /\ IsFiniteSet(pNet)
  BY <1>1, FS_Subset, Zenon DEF PingTypes
<1>3. PacketsOfRuns' /\ AddressesLeadBack'
  BY <1>1, Zenon DEF PacketsOfRuns, AddressesLeadBack, pAddrVars
<1>4. \A u \in Targets : pRes[u].rcvd \in Nat /\ pRes[u].sent \in Nat
  BY Zenon DEF PingTypes
<1>5. \A u \in pTargets : IsFiniteSet(Countable(u)) /\ Cardinality(Countable(u)) \in Nat
  BY <1>2, FS_Subset, FS_CardinalityType, Zenon DEF Countable
<1>6. CASE UNCHANGED <<received, pRes, pForeign>>
  <2>1. PingTypes'
    BY <1>1, <1>2, <1>6, Zenon DEF PingTypes, pAddrVars
  <2>2. ASSUME NEW u \in pTargets
        PROVE  /\ Cardinality(Countable(u)') \in Nat
               /\ Cardinality(Countable(u)') <= Cardinality(Countable(u))
    <3>1. Countable(u)' \subseteq Countable(u)
      BY <1>1, <1>6, Zenon DEF Countable, pAddrVars
    <3> QED
      BY <1>5, <3>1, FS_Subset, FS_CardinalityType, Zenon
  <2>3. Covered'
    BY <1>1, <1>4, <1>5, <1>6, <2>2 DEF Covered, pAddrVars, PingTypes
  <2> QED
    BY <1>3, <1>6, <2>1, <2>3, Zenon
<1>7. CASE ~UNCHANGED <<received, pRes, pForeign>>
  <2>1. /\ matchPacket(pkt.seq) /\ <<t, pkt.seq>> \notin received
        /\ received' = received \cup {<<t, pkt.seq>>}
    BY <1>0, <1>7, Zenon DEF PingRead
  <2>2. PICK valid \in {0, 1} :
          /\ pRes' = [pRes EXCEPT ![t].rcvd = @ + valid]
          /\ pForeign' = (pForeign \/ (valid = 1 /\ pkt.run # pRunCnt))
    BY <1>0, <1>7, Zenon DEF PingRead
  <2>3. pkt.run = pRunCnt
    <3>1. pkt.run \in Nat /\ pRunCnt \in Nat /\ pkt.run <= pRunCnt /\ pkt.run % RunIDs = pRunCnt % RunIDs
      BY <2>1, Zenon DEF matchPacket, HighByte, PacketsOfRuns, PingTypes
    <3>2. RunIDs \in Nat /\ RunIDs > 0
      BY PingAssumption
    <3> QED
      BY <1>1, <3>1, <3>2, RunIDsDiffer, Zenon
  <2>4. ~pForeign'
    BY <2>2, <2>3, Zenon
  <2>5. /\ pRes' \in [Targets -> [sent : Nat, rcvd : Nat]]
        /\ \A u \in Targets :
             /\ pRes'[u].rcvd = IF u = t THEN pRes[u].rcvd + valid ELSE pRes[u].rcvd
             /\ pRes'[u].sent = pRes[u].sent
    <3>1. valid \in Nat
      OBVIOUS
    <3>2. CASE t \in Targets
      BY <2>2, <3>1, <3>2 DEF PingTypes
    <3>3. CASE t \notin Targets
      <4>1. pRes' = pRes
        BY <2>2, <3>3, Zenon DEF PingTypes
      <4> QED
        BY <3>3, <4>1, Zenon DEF PingTypes
    <3> QED
      BY <3>2, <3>3, Zenon
  <2>6. PingTypes'
    BY <1>1, <1>2, <2>5, Zenon DEF PingTypes, pAddrVars
  <2>7. ASSUME ~pShared PROVE Covered'
    <3>1. t \in pTargets /\ target2addr[t] # NoAddr /\ target2addr[t] = pkt.addr
      BY <1>0, <2>3, <2>7, Zenon DEF PacketsOfRuns, AddressesLeadBack
    <3>2. ASSUME NEW u \in pTargets
          PROVE  pRes'[u].rcvd + Cardinality(Countable(u)') <= pRes'[u].sent
      <4>1. u \in Targets /\ pRes[u].rcvd + Cardinality(Countable(u)) <= pRes[u].sent
        BY <2>7, Zenon DEF Covered, PingTypes
      <4>2. CASE u = t
        <5>1. pkt \in Countable(t)
          BY <2>1, <2>3, <3>1, Zenon DEF Countable
        <5>2. /\ IsFiniteSet(Countable(t) \ {pkt})
              /\ Cardinality(Countable(t) \ {pkt}) = Cardinality(Countable(t)) - 1
          BY <1>5, <3>1, <5>1, FS_RemoveElement, Zenon
        <5>3. Countable(t)' \subseteq Countable(t) \ {pkt}
          BY <1>1, <2>1, Zenon DEF Countable, pAddrVars
        <5>4. /\ Cardinality(Countable(t)') \in Nat
              /\ Cardinality(Countable(t)') <= Cardinality(Countable(t) \ {pkt})
          BY <5>2, <5>3, FS_Subset, FS_CardinalityType, Zenon
        <5> QED
          BY <1>4, <1>5, <2>5, <4>1, <4>2, <5>2, <5>4
      <4>3. CASE u # t
        <5>1. Countable(u)' \subseteq Countable(u)
          BY <1>1, <2>1, Zenon DEF Countable, pAddrVars
        <5>2. /\ Cardinality(Countable(u)') \in Nat
              /\ Cardinality(Countable(u)') <= Cardinality(Countable(u))
          BY <1>5, <5>1, FS_Subset, FS_CardinalityType, Zenon
        <5> QED
          BY <1>4, <1>5, <2>5, <4>1, <4>3, <5>2
      <4> QED
        BY <4>2, <4>3, Zenon
    <3>3. \A u \in Targets : pRes'[u].rcvd <= pRes'[u].sent
      <4>1. pRes'[t].rcvd <= pRes'[t].sent
        <5>1. t \in Targets /\ pRes'[t].rcvd \in Nat /\ pRes'[t].sent \in Nat
          BY <2>5, <3>1, Zenon DEF PingTypes
        <5>2. Countable(t)' \subseteq Countable(t)
          BY <1>1, <2>1, Zenon DEF Countable, pAddrVars
        <5>3. Cardinality(Countable(t)') \in Nat
          BY <1>5, <3>1, <5>2, FS_Subset, FS_CardinalityType, Zenon
        <5> QED
          BY <3>1, <3>2, <5>1, <5>3
      <4> QED
        BY <2>5, <2>7, <4>1, Zenon DEF Covered
    <3> QED
      BY <1>1, <3>2, <3>3, Zenon DEF Covered, pAddrVars
  <2>8. Covered'
    BY <1>1, <2>7, Zenon DEF Covered, pAddrVars
  <2> QED
    BY <1>3, <2>4, <2>6, <2>8, Zenon
<1> QED
  BY <1>6, <1>7, Zenon

\* Every step of the ping probe keeps PingInv.
LEMMA PingStep == PingInv /\ [PingNext]_<<pingVars, envVars>> => PingInv'
<1> SUFFICES ASSUME PingInv, [PingNext]_<<pingVars, envVars>> PROVE PingInv'
  BY Zenon
<1>0. PingTypes
  BY Zenon DEF PingInv
<1>1. CASE PingReturn \/ PingEndRun \/ PingTrack \/ PingTimeout
  BY <1>0, <1>1, PingOther, Zenon
  DEF PingReturn, PingEndRun, PingTrack, PingTimeout, PingTypes, envVars
<1>2. CASE PingNextRound
  <2>1. UNCHANGED <<pRunCnt, pRes, received, pNet, pForeign, pAddrVars, listed>>
    BY <1>2, Zenon DEF PingNextRound, envVars
  <2>2. pRound' \in Nat /\ pRound' < PacketsPerProbe /\ pTodo' \subseteq pTargets
    BY <1>0, <1>2 DEF PingNextRound, PingTypes
  <2> QED
    BY <1>0, <2>1, <2>2, PingOther, Zenon DEF PingTypes
<1>3. CASE (ListChange \/ EndContext) /\ UNCHANGED pingVars
  <2>1. listed' \subseteq Targets /\ UNCHANGED pingVars
    BY <1>0, <1>3, Zenon DEF ListChange, EndContext, PingTypes
  <2> QED
    BY <1>0, <2>1, PingOther, Zenon DEF pingVars, pAddrVars, PingTypes
<1>4. CASE UNCHANGED <<pingVars, envVars>>
  BY <1>0, <1>4, PingOther, Zenon DEF pingVars, pAddrVars, envVars, PingTypes
<1> QED
  BY <1>1, <1>2, <1>3, <1>4, RunProbeInv, SendInv, ReadInv, Zenon DEF PingNext

\* A reply counts for the run it answers only, and while no two targets had the same
\* address no target has more replies than requests: with any number of targets,
\* packets and runs, and however late and often the network delivers (but for
\* replies RunIDs runs old).
THEOREM PingCountsRight == PingSpec => []PingCountsOwnRun
<1>1. PingInv => PingCountsOwnRun
  BY Zenon DEF PingInv, Covered, PingCountsOwnRun
<1> QED
  BY <1>1, PingInitInv, PingStep, PTL DEF PingSpec

-----------------------------------------------------------------------------
(* ExternalProbe *)

Known == DOMAIN xResults

ExtTypes ==
  /\ listed \subseteq Targets
  /\ Known \subseteq Targets
  /\ \A t \in Known : xResults[t] \in [total : Nat, success : Nat]
  /\ xProcessed \in [Targets -> Nat]
  /\ requestID \in Nat
  /\ xTodo \subseteq Known /\ xOnce \subseteq Known /\ xOnce \cap xTodo = {}
  /\ IsFiniteSet(DOMAIN requests)
  /\ \A i \in DOMAIN requests : requests[i] \in Known /\ i \in Nat /\ i <= requestID
  /\ xPipe \in Seq([id : Nat, run : Int])
  /\ xPending \subseteq [id : Nat, run : Int]
  /\ \A rep \in xHeld : rep.id \in Nat /\ rep.run \in Int
  /\ xRun \in Int

\* Between runs nothing is outstanding.
ExtIdle == xPc \in {"tick", "returned"} => xOnce = {} /\ DOMAIN requests = {}

\* Results are as many as total says; targets not seen yet have none.
ExtCounts ==
  /\ \A t \in Known : /\ xResults[t].total = xProcessed[t] + Outstanding(t)
                                             + (IF t \in xOnce THEN 1 ELSE 0)
                      /\ xResults[t].success <= xProcessed[t]
  /\ \A t \in Targets \ Known : xProcessed[t] = 0

\* No ID of a request that is on its way is used again, and one that is
\* outstanding is of this run.
OwnReply(m) == m.id <= requestID /\ (m.id \in DOMAIN requests => m.run = xRun)

ExtOwnReplies ==
  /\ ~xForeign
  /\ \A m \in xPending : OwnReply(m)
  /\ \A i \in DOMAIN xPipe : OwnReply(xPipe[i])
  /\ \A m \in xHeld : OwnReply(m)

\* A monitor that is done has reset cmdRunning.
ExtMonitored == xMonitor = "done" /\ cmdRunning => xRaced

ExtInv == ExtTypes /\ ExtIdle /\ ExtCounts /\ ExtOwnReplies /\ ExtMonitored

\* Requests outstanding for a target are counted by a natural number.
LEMMA OutstandingNat == ASSUME ExtTypes, NEW t PROVE Outstanding(t) \in Nat
<1>1. IsFiniteSet({i \in DOMAIN requests : requests[i] = t})
  BY FS_Subset, Zenon DEF ExtTypes
<1> QED
  BY <1>1, FS_CardinalityType, Zenon DEF Outstanding

\* There are none when no request is outstanding, or none of the target.
LEMMA NoneOutstanding ==
  ASSUME NEW t, \A i \in DOMAIN requests : requests[i] # t
  PROVE  Outstanding(t) = 0
<1>1. {i \in DOMAIN requests : requests[i] = t} = {}
  BY Zenon
<1> QED
  BY <1>1, FS_EmptySet, Zenon DEF Outstanding

\* What is in a sequence has the type of its elements.
LEMMA ElementType == ASSUME NEW S, NEW s \in Seq(S), NEW i \in DOMAIN s PROVE s[i] \in S
OBVIOUS

\* A reply in the pipe has the ID of a request.
LEMMA PipeTypes ==
  ASSUME ExtTypes
  PROVE  \A i \in DOMAIN xPipe : xPipe[i].id \in Nat /\ xPipe[i].run \in Int
<1>1. xPipe \in Seq([id : Nat, run : Int])
  BY Zenon DEF ExtTypes
<1>2. \A i \in DOMAIN xPipe : xPipe[i] \in [id : Nat, run : Int]
  BY <1>1, ElementType, Zenon
<1> QED
  BY <1>2, Zenon

\* Initially there is no request, and nothing is on its way.
LEMMA ExtInitInv == EnvInit /\ ExtInit => ExtInv
<1> SUFFICES ASSUME EnvInit, ExtInit PROVE ExtInv
  BY Zenon
<1>1. DOMAIN requests = {} /\ DOMAIN xResults = {} /\ DOMAIN xPipe = {}
  BY DEF ExtInit
<1>2. ExtTypes
  BY <1>1, FS_EmptySet DEF ExtInit, EnvInit, ExtTypes, Known
<1>3. ExtIdle /\ ExtMonitored
  BY <1>1, Zenon DEF ExtInit, ExtIdle, ExtMonitored
<1>4. ExtCounts
  BY <1>1, Zenon DEF ExtInit, ExtCounts, Known
<1>5. ExtOwnReplies
  BY <1>1, Zenon DEF ExtInit, ExtOwnReplies
<1> QED
  BY <1>2, <1>3, <1>4, <1>5, Zenon DEF ExtInv

\* The counts are those of p.results, the outstanding requests and the commands.
LEMMA CountsSame ==
  ASSUME ExtCounts, UNCHANGED <<xResults, xProcessed, requests, xOnce>>
  PROVE  ExtCounts'
BY Zenon DEF ExtCounts, Known, Outstanding

\* Replies that come and go without a new request are still of their runs.
LEMMA RepliesSame ==
  ASSUME ExtOwnReplies, UNCHANGED <<xPending, xPipe, xHeld, xForeign, requestID, xRun>>,
         DOMAIN requests' \subseteq DOMAIN requests
  PROVE  ExtOwnReplies'
BY Zenon DEF ExtOwnReplies, OwnReply

\* runProbe begins.
LEMMA ExtRunProbeInv == ASSUME ExtInv, ExtRunProbe PROVE ExtInv'
<1> ExtTypes /\ ExtIdle /\ ExtCounts /\ ExtOwnReplies /\ ExtMonitored
  BY Zenon DEF ExtInv
<1>1. DOMAIN requests = {} /\ xOnce = {} /\ DOMAIN requests' = {} /\ xOnce' = {}
  BY DEF ExtRunProbe, ExtIdle
<1>2. /\ Known' = Known \cup listed
      /\ \A t \in Known : xResults'[t] = xResults[t]
      /\ \A t \in listed \ Known : xResults'[t] = [total |-> 0, success |-> 0]
  BY Zenon DEF ExtRunProbe, Known, Merged
<1>3. xPipe' \in Seq([id : Nat, run : Int]) /\ xPending' \subseteq [id : Nat, run : Int]
  <2>1. (xPipe' = xPipe \/ xPipe' = <<>>) /\ xPending' \subseteq xPending
    BY Zenon DEF ExtRunProbe
  <2>2. <<>> \in Seq([id : Nat, run : Int])
    OBVIOUS
  <2> QED
    BY <2>1, <2>2, Zenon DEF ExtTypes
<1>4. ExtTypes'
  <2>1. \A t \in Known' : xResults'[t] \in [total : Nat, success : Nat]
    BY <1>2 DEF ExtTypes
  <2>2. IsFiniteSet(DOMAIN requests')
    BY <1>1, FS_EmptySet, Zenon
  <2>3. /\ listed' \subseteq Targets /\ Known' \subseteq Targets
        /\ xProcessed' \in [Targets -> Nat] /\ requestID' \in Nat /\ xRun' \in Int
        /\ \A rep \in xHeld' : rep.id \in Nat /\ rep.run \in Int
    BY <1>2 DEF ExtRunProbe, ExtTypes, xHistVars, envVars
  <2>4. xTodo' \subseteq Known' /\ xOnce' = {}
    BY <1>1, <1>2, Zenon DEF ExtRunProbe
  <2> QED
    BY <1>1, <1>3, <2>1, <2>2, <2>3, <2>4, Zenon DEF ExtTypes
<1>5. ExtIdle'
  BY <1>1, Zenon DEF ExtIdle
<1>6. ExtCounts'
  <2>1. \A t : Outstanding(t) = 0 /\ Outstanding(t)' = 0
    <3> TAKE t
    <3>1. {i \in DOMAIN requests : requests[i] = t} = {} /\ {i \in DOMAIN requests' : requests'[i] = t} = {}
      BY <1>1, Zenon
    <3> QED
      BY <3>1, FS_EmptySet, Zenon DEF Outstanding
  <2>2. xProcessed' = xProcessed
    BY Zenon DEF ExtRunProbe, xHistVars
  <2>3. \A t \in Known : xResults'[t].total = xProcessed'[t] /\ xResults'[t].success <= xProcessed'[t]
    BY <1>1, <1>2, <2>1, <2>2 DEF ExtCounts, ExtTypes, Known
  <2>4. \A t \in listed \ Known : /\ xResults'[t].total = xProcessed'[t]
                                  /\ xResults'[t].success <= xProcessed'[t]
    BY <1>2, <2>2 DEF ExtCounts, ExtTypes
  <2>5. \A t \in Known' : xProcessed'[t] \in Nat
    BY <1>4, Zenon DEF ExtTypes
  <2>6. \A t \in Known' : /\ xResults'[t].total = xProcessed'[t] + Outstanding(t)' + 0
                          /\ xResults'[t].success <= xProcessed'[t]
    <3> TAKE t \in Known'
    <3>1. /\ xResults'[t].total = xProcessed'[t] /\ xResults'[t].success <= xProcessed'[t]
          /\ xProcessed'[t] \in Nat
      BY <1>2, <2>3, <2>4, <2>5, Zenon
    <3>2. Outstanding(t)' = 0
      BY <2>1, Zenon
    <3> QED
      BY <3>1, <3>2
  <2>7. \A t \in Targets \ Known' : xProcessed'[t] = 0
    BY <1>2, <2>2, Zenon DEF ExtCounts
  <2> QED
    BY <1>1, <2>6, <2>7, Zenon DEF ExtCounts
<1>7. ExtOwnReplies'
  <2>1. /\ xPending' \subseteq xPending /\ xHeld' = xHeld /\ xForeign' = xForeign
        /\ requestID' = requestID /\ (xPipe' = xPipe \/ xPipe' = <<>>)
    BY Zenon DEF ExtRunProbe, xHistVars
  <2> QED
    BY <1>1, <2>1 DEF ExtOwnReplies, OwnReply
<1>8. ExtMonitored'
  BY Zenon DEF ExtRunProbe, ExtMonitored, xHistVars
<1> QED
  BY <1>4, <1>5, <1>6, <1>7, <1>8, Zenon DEF ExtInv

\* A request is numbered as no request before it.
LEMMA ExtSendRequestInv == ASSUME ExtInv, NEW t \in Targets, ExtSendRequest(t) PROVE ExtInv'
<1> ExtTypes /\ ExtIdle /\ ExtCounts /\ ExtOwnReplies /\ ExtMonitored
  BY Zenon DEF ExtInv
<1>0. PICK id : id = requestID + 1
  BY Zenon
<1>1. /\ t \in Known /\ t \notin xOnce /\ id \in Nat /\ id > requestID /\ requestID' = id
      /\ id \notin DOMAIN requests
  BY <1>0 DEF ExtSendRequest, ExtTypes, NextID
<1>2. /\ DOMAIN requests' = DOMAIN requests \cup {id} /\ requests'[id] = t
      /\ \A i \in DOMAIN requests : requests'[i] = requests[i]
  BY <1>1, Zenon DEF ExtSendRequest, Merged
<1>3. /\ Known' = Known /\ xProcessed' = xProcessed /\ xOnce' = xOnce
      /\ \A u \in Known \ {t} : xResults'[u] = xResults[u]
      /\ xResults'[t].total = xResults[t].total + 1 /\ xResults'[t].success = xResults[t].success
      /\ xResults'[t] \in [total : Nat, success : Nat]
  <2>1. xResults[t] \in [total : Nat, success : Nat]
    BY <1>1, Zenon DEF ExtTypes
  <2>2. xResults' = [xResults EXCEPT ![t] = [xResults[t] EXCEPT !.total = @ + 1]]
    BY Zenon DEF ExtSendRequest
  <2>3. xProcessed' = xProcessed /\ xOnce' = xOnce
    BY Zenon DEF ExtSendRequest, xHistVars
  <2> QED
    BY <1>1, <2>1, <2>2, <2>3 DEF Known
<1>4. ExtTypes'
  <2>1. IsFiniteSet(DOMAIN requests')
    BY <1>2, FS_AddElement DEF ExtTypes
  <2>2. \A i \in DOMAIN requests' : requests'[i] \in Known' /\ i \in Nat /\ i <= requestID'
    BY <1>1, <1>2, <1>3 DEF ExtTypes
  <2>3. xPending' \subseteq [id : Nat, run : Int]
    BY <1>1 DEF ExtSendRequest, ExtTypes
  <2>4. \A u \in Known' : xResults'[u] \in [total : Nat, success : Nat]
    BY <1>3, Zenon DEF ExtTypes
  <2>5. /\ listed' \subseteq Targets /\ Known' \subseteq Targets /\ xRun' \in Int
        /\ xProcessed' \in [Targets -> Nat] /\ requestID' \in Nat
        /\ xTodo' \subseteq Known' /\ xOnce' \subseteq Known' /\ xOnce' \cap xTodo' = {}
        /\ \A rep \in xHeld' : rep.id \in Nat /\ rep.run \in Int
        /\ xPipe' = xPipe
    BY <1>1, <1>3, Zenon DEF ExtSendRequest, ExtTypes, envVars
  <2> QED
    BY <2>1, <2>2, <2>3, <2>4, <2>5, Zenon DEF ExtTypes
<1>5. ExtIdle'
  BY Zenon DEF ExtSendRequest, ExtIdle
<1>6. ExtCounts'
  <2>1. Outstanding(t)' = Outstanding(t) + 1
    <3> DEFINE S == {i \in DOMAIN requests : requests[i] = t}
    <3>1. {i \in DOMAIN requests' : requests'[i] = t} = S \cup {id}
      BY <1>1, <1>2, Zenon
    <3>2. IsFiniteSet(S) /\ id \notin S
      BY <1>1, FS_Subset, Zenon DEF ExtTypes
    <3>3. Cardinality(S \cup {id}) = Cardinality(S) + 1
      BY <3>2, FS_AddElement, Zenon
    <3> QED
      BY <3>1, <3>3, Zenon DEF Outstanding
  <2>2. \A u \in Known \ {t} : Outstanding(u)' = Outstanding(u)
    <3> TAKE u \in Known \ {t}
    <3>1. {i \in DOMAIN requests' : requests'[i] = u} = {i \in DOMAIN requests : requests[i] = u}
      BY <1>1, <1>2, Zenon
    <3> QED
      BY <3>1, Zenon DEF Outstanding
  <2>3. xProcessed[t] \in Nat /\ Outstanding(t) \in Nat
    BY <1>1, OutstandingNat, Zenon DEF ExtTypes
  <2>4. /\ xResults'[t].total = xProcessed'[t] + Outstanding(t)' + 0
        /\ xResults'[t].success <= xProcessed'[t]
    BY <1>1, <1>3, <2>1, <2>3 DEF ExtCounts
  <2>5. \A u \in Known \ {t} : /\ xResults'[u].total = xProcessed'[u] + Outstanding(u)'
                                                       + (IF u \in xOnce' THEN 1 ELSE 0)
                               /\ xResults'[u].success <= xProcessed'[u]
    BY <1>3, <2>2, Zenon DEF ExtCounts
  <2>6. \A u \in Targets \ Known' : xProcessed'[u] = 0
    BY <1>3, Zenon DEF ExtCounts
  <2> QED
    BY <1>1, <1>3, <2>4, <2>5, <2>6, Zenon DEF ExtCounts
<1>7. ExtOwnReplies'
  <2>1. \A m : m.id \in Nat /\ OwnReply(m) => OwnReply(m)'
    BY <1>1, <1>2 DEF OwnReply, ExtSendRequest, ExtTypes
  <2>2. PICK m0 : /\ m0.id = id /\ m0.run = xRun
                  /\ \A m \in xPending' : m \in xPending \/ m = m0
    <3>1. \A m \in xPending' : m \in xPending \/ m = [id |-> id, run |-> xRun]
      BY <1>1, Zenon DEF ExtSendRequest
    <3>2. PICK m0 : m0 = [id |-> id, run |-> xRun]
      BY Zenon
    <3>3. m0.id = id /\ m0.run = xRun
      BY <3>2, Zenon
    <3> QED
      BY <3>1, <3>2, <3>3, Zenon
  <2>3. OwnReply(m0)'
    BY <1>1, <2>2 DEF OwnReply, ExtSendRequest, ExtTypes
  <2>4. \A m \in xPending' : OwnReply(m)'
    <3>1. \A m \in xPending : m.id \in Nat
      BY Zenon DEF ExtTypes
    <3>2. \A m \in xPending : OwnReply(m)
      BY Zenon DEF ExtOwnReplies
    <3> QED
      BY <2>1, <2>2, <2>3, <3>1, <3>2, Zenon
  <2>5. xPipe' = xPipe /\ xHeld' = xHeld /\ xForeign' = xForeign
    BY Zenon DEF ExtSendRequest, xHistVars
  <2>6. \A i \in DOMAIN xPipe : xPipe[i].id \in Nat
    BY PipeTypes, Zenon
  <2> QED
    BY <2>1, <2>4, <2>5, <2>6, Zenon DEF ExtOwnReplies, ExtTypes
<1>8. ExtMonitored'
  BY Zenon DEF ExtSendRequest, ExtMonitored, xHistVars
<1> QED
  BY <1>4, <1>5, <1>6, <1>7, <1>8, Zenon DEF ExtInv

\* wg.Wait returns: what is outstanding gets its failed result.
LEMMA ExtEndRunInv == ASSUME ExtInv, ExtEndRun PROVE ExtInv'
<1> ExtTypes /\ ExtIdle /\ ExtCounts /\ ExtOwnReplies /\ ExtMonitored
  BY Zenon DEF ExtInv
<1>1. DOMAIN requests' = {} /\ xOnce = {} /\ xOnce' = {}
  BY DEF ExtEndRun
<1>2. /\ Known' = Known /\ xResults' = xResults
      /\ xProcessed' = [t \in Targets |-> xProcessed[t] + Outstanding(t)]
  BY Zenon DEF ExtEndRun, Known
<1>3. \A t \in Targets : xProcessed[t] \in Nat /\ Outstanding(t) \in Nat
  BY OutstandingNat, Zenon DEF ExtTypes
<1>4. ExtTypes'
  <2>1. xProcessed' \in [Targets -> Nat]
    BY <1>2, <1>3
  <2>2. IsFiniteSet(DOMAIN requests')
    BY <1>1, FS_EmptySet, Zenon
  <2>3. UNCHANGED <<listed, xResults, requestID, xTodo, xOnce, xPipe, xPending, xHeld, xRun>>
    BY Zenon DEF ExtEndRun, xProcVars, envVars
  <2> QED
    BY <1>1, <1>2, <2>1, <2>2, <2>3, Zenon DEF ExtTypes
<1>5. ExtIdle'
  BY <1>1, Zenon DEF ExtIdle
<1>6. ExtCounts'
  <2>1. \A t : Outstanding(t)' = 0
    <3> TAKE t
    <3>1. {i \in DOMAIN requests' : requests'[i] = t} = {}
      BY <1>1, Zenon
    <3> QED
      BY <3>1, FS_EmptySet, Zenon DEF Outstanding
  <2>2. \A t \in Known : t \in Targets
    BY Zenon DEF ExtTypes
  <2>3. \A t \in Known : /\ xResults'[t].total = xProcessed'[t] + 0 + 0
                         /\ xResults'[t].success <= xProcessed'[t]
    <3> TAKE t \in Known
    <3>1. /\ xResults[t].total = xProcessed[t] + Outstanding(t) + 0
          /\ xResults[t].success <= xProcessed[t] /\ xResults[t].success \in Nat
      BY <1>1, Zenon DEF ExtCounts, ExtTypes
    <3>2. xProcessed'[t] = xProcessed[t] + Outstanding(t)
      BY <1>2, <2>2, Zenon
    <3> QED
      BY <1>2, <1>3, <2>2, <3>1, <3>2
  <2>4. \A t \in Targets \ Known : xProcessed'[t] = 0
    <3> TAKE t \in Targets \ Known
    <3>1. Outstanding(t) = 0
      BY NoneOutstanding, Zenon DEF ExtTypes
    <3> QED
      BY <1>2, <3>1 DEF ExtCounts
  <2> QED
    BY <1>1, <1>2, <2>1, <2>3, <2>4, Zenon DEF ExtCounts
<1>7. ExtOwnReplies'
  BY <1>1, RepliesSame, Zenon DEF ExtEndRun, xProcVars
<1>8. ExtMonitored'
  BY Zenon DEF ExtEndRun, ExtMonitored, xProcVars
<1> QED
  BY <1>4, <1>5, <1>6, <1>7, <1>8, Zenon DEF ExtInv

\* processProbeResult counts one result of a target, a success or not.
LEMMA ResultCounted ==
  ASSUME ExtTypes, NEW t \in Known, NEW ok \in {0, 1}, processProbeResult(t, ok)
  PROVE  /\ Known' = Known
         /\ \A u \in Known : xResults'[u] \in [total : Nat, success : Nat]
         /\ \A u \in Known : xResults'[u].total = xResults[u].total
         /\ \A u \in Known \ {t} : xResults'[u] = xResults[u]
         /\ xResults'[t].success <= xResults[t].success + 1
         /\ xProcessed' \in [Targets -> Nat]
         /\ \A u \in Targets \ {t} : xProcessed'[u] = xProcessed[u]
         /\ xProcessed'[t] = xProcessed[t] + 1
<1>1. \A u \in Known : xResults[u] \in [total : Nat, success : Nat]
  BY Zenon DEF ExtTypes
<1>2. xResults' = [xResults EXCEPT ![t] = [xResults[t] EXCEPT !.success = @ + ok]]
  BY Zenon DEF processProbeResult
<1>3. /\ Known' = Known
      /\ \A u \in Known : xResults'[u] \in [total : Nat, success : Nat]
      /\ \A u \in Known : xResults'[u].total = xResults[u].total
      /\ \A u \in Known \ {t} : xResults'[u] = xResults[u]
      /\ xResults'[t].success <= xResults[t].success + 1
  BY <1>1, <1>2 DEF Known
<1>4. /\ xProcessed' \in [Targets -> Nat]
      /\ \A u \in Targets \ {t} : xProcessed'[u] = xProcessed[u]
      /\ xProcessed'[t] = xProcessed[t] + 1
  <2>1. t \in Targets /\ xProcessed \in [Targets -> Nat]
    BY Zenon DEF ExtTypes
  <2>2. xProcessed' = [xProcessed EXCEPT ![t] = @ + 1]
    BY Zenon DEF processProbeResult
  <2> QED
    BY <2>1, <2>2
<1> QED
  BY <1>3, <1>4, Zenon

\* A command starts.
LEMMA ExtStartCommandInv == ASSUME ExtInv, NEW t \in Targets, ExtStartCommand(t) PROVE ExtInv'
<1> ExtTypes /\ ExtIdle /\ ExtCounts /\ ExtOwnReplies /\ ExtMonitored
  BY Zenon DEF ExtInv
<1>1. t \in Known /\ t \notin xOnce /\ xOnce' = xOnce \cup {t} /\ xTodo' = xTodo \ {t}
  BY Zenon DEF ExtStartCommand, ExtTypes
<1>2. UNCHANGED <<listed, requestID, requests, xPipe, xPending, xHeld, xRun, xProcessed, xForeign>>
  BY Zenon DEF ExtStartCommand, xProcVars, xHistVars, envVars
<1>3. /\ Known' = Known
      /\ \A u \in Known \ {t} : xResults'[u] = xResults[u]
      /\ xResults'[t].total = xResults[t].total + 1 /\ xResults'[t].success = xResults[t].success
      /\ xResults'[t] \in [total : Nat, success : Nat]
  <2>1. xResults[t] \in [total : Nat, success : Nat]
    BY <1>1, Zenon DEF ExtTypes
  <2>2. xResults' = [xResults EXCEPT ![t] = [xResults[t] EXCEPT !.total = @ + 1]]
    BY Zenon DEF ExtStartCommand
  <2> QED
    BY <1>1, <2>1, <2>2 DEF Known
<1>4. ExtTypes'
  <2>1. xTodo' \subseteq Known' /\ xOnce' \subseteq Known' /\ xOnce' \cap xTodo' = {}
    BY <1>1, <1>3, Zenon DEF ExtTypes
  <2>2. \A u \in Known' : xResults'[u] \in [total : Nat, success : Nat]
    BY <1>3, Zenon DEF ExtTypes
  <2> QED
    BY <1>2, <1>3, <2>1, <2>2, Zenon DEF ExtTypes
<1>5. ExtIdle'
  BY Zenon DEF ExtStartCommand, ExtIdle
<1>6. ExtCounts'
  <2>1. \A u : Outstanding(u)' = Outstanding(u)
    BY <1>2, Zenon DEF Outstanding
  <2>2. xProcessed[t] \in Nat /\ Outstanding(t) \in Nat
    BY <1>1, OutstandingNat, Zenon DEF ExtTypes
  <2>3. xResults[t].total = xProcessed[t] + Outstanding(t) + 0 /\ xResults[t].success <= xProcessed[t]
    BY <1>1, Zenon DEF ExtCounts
  <2>4. /\ xResults'[t].total = xProcessed'[t] + Outstanding(t)' + 1
        /\ xResults'[t].success <= xProcessed'[t]
    BY <1>2, <1>3, <2>1, <2>2, <2>3
  <2>5. \A u \in Known \ {t} : /\ xResults'[u].total = xProcessed'[u] + Outstanding(u)'
                                                       + (IF u \in xOnce' THEN 1 ELSE 0)
                               /\ xResults'[u].success <= xProcessed'[u]
    BY <1>1, <1>2, <1>3, <2>1, Zenon DEF ExtCounts
  <2>6. \A u \in Targets \ Known' : xProcessed'[u] = 0
    BY <1>2, <1>3, Zenon DEF ExtCounts
  <2> QED
    BY <1>1, <1>3, <2>4, <2>5, <2>6, Zenon DEF ExtCounts
<1>7. ExtOwnReplies'
  BY <1>2, RepliesSame, Zenon
<1>8. ExtMonitored'
  BY Zenon DEF ExtStartCommand, ExtMonitored, xProcVars, xHistVars
<1> QED
  BY <1>4, <1>5, <1>6, <1>7, <1>8, Zenon DEF ExtInv

\* A command ends and has its result.
LEMMA ExtCommandEndsInv == ASSUME ExtInv, NEW t \in Targets, ExtCommandEnds(t) PROVE ExtInv'
<1> ExtTypes /\ ExtIdle /\ ExtCounts /\ ExtOwnReplies /\ ExtMonitored
  BY Zenon DEF ExtInv
<1>1. t \in xOnce /\ t \in Known /\ xOnce' = xOnce \ {t}
  BY Zenon DEF ExtCommandEnds, ExtTypes
<1>2. PICK ok \in {0, 1} : processProbeResult(t, ok)
  BY Zenon DEF ExtCommandEnds
<1>3. UNCHANGED <<listed, requestID, requests, xPipe, xPending, xHeld, xRun, xForeign, xTodo>>
  BY Zenon DEF ExtCommandEnds, xProcVars, envVars
<1>4. /\ Known' = Known
      /\ \A u \in Known : xResults'[u] \in [total : Nat, success : Nat]
      /\ \A u \in Known : xResults'[u].total = xResults[u].total
      /\ \A u \in Known \ {t} : xResults'[u] = xResults[u]
      /\ xResults'[t].success <= xResults[t].success + 1
      /\ xProcessed' \in [Targets -> Nat]
      /\ \A u \in Targets \ {t} : xProcessed'[u] = xProcessed[u]
      /\ xProcessed'[t] = xProcessed[t] + 1
  BY <1>1, <1>2, ResultCounted, Zenon
<1>5. ExtTypes'
  BY <1>1, <1>3, <1>4, Zenon DEF ExtTypes
<1>6. ExtIdle'
  <2>1. xPc' = xPc /\ xPc \notin {"tick", "returned"}
    BY <1>1, Zenon DEF ExtCommandEnds, ExtIdle
  <2> QED
    BY <2>1, Zenon DEF ExtIdle
<1>7. ExtCounts'
  <2>1. \A u : Outstanding(u)' = Outstanding(u)
    BY <1>3, Zenon DEF Outstanding
  <2>2. xProcessed[t] \in Nat /\ Outstanding(t) \in Nat /\ xResults[t].success \in Nat
    BY <1>1, OutstandingNat, Zenon DEF ExtTypes
  <2>3. xResults[t].total = xProcessed[t] + Outstanding(t) + 1 /\ xResults[t].success <= xProcessed[t]
    BY <1>1, Zenon DEF ExtCounts
  <2>4. xResults'[t].success \in Nat
    BY <1>1, <1>4, Zenon
  <2>5. /\ xResults'[t].total = xProcessed'[t] + Outstanding(t)' + 0
        /\ xResults'[t].success <= xProcessed'[t]
    BY <1>1, <1>4, <2>1, <2>2, <2>3, <2>4
  <2>6. \A u \in Known \ {t} : /\ xResults'[u].total = xProcessed'[u] + Outstanding(u)'
                                                       + (IF u \in xOnce' THEN 1 ELSE 0)
                               /\ xResults'[u].success <= xProcessed'[u]
    BY <1>1, <1>4, <2>1, Zenon DEF ExtCounts, ExtTypes
  <2>7. \A u \in Targets \ Known' : xProcessed'[u] = 0
    BY <1>1, <1>4, Zenon DEF ExtCounts
  <2> QED
    BY <1>1, <1>4, <2>5, <2>6, <2>7, Zenon DEF ExtCounts
<1>8. ExtOwnReplies'
  BY <1>3, RepliesSame, Zenon
<1>9. ExtMonitored'
  BY Zenon DEF ExtCommandEnds, ExtMonitored, xProcVars
<1> QED
  BY <1>5, <1>6, <1>7, <1>8, <1>9, Zenon DEF ExtInv

\* A reply is taken for the request with its ID, which is then outstanding no more.
LEMMA ExtReceiveInv == ASSUME ExtInv, NEW rep \in xHeld, ExtReceive(rep) PROVE ExtInv'
<1> ExtTypes /\ ExtIdle /\ ExtCounts /\ ExtOwnReplies /\ ExtMonitored
  BY Zenon DEF ExtInv
<1>1. /\ UNCHANGED <<listed, requestID, xPipe, xPending, xRun, xTodo, xOnce, xPc>>
      /\ xHeld' \subseteq xHeld
  BY Zenon DEF ExtReceive, envVars
<1>2. ExtMonitored'
  BY Zenon DEF ExtReceive, ExtMonitored
<1>3. ExtIdle'
  BY Zenon DEF ExtReceive, ExtIdle
<1>4. CASE rep.id \notin DOMAIN requests
  <2>1. UNCHANGED <<xResults, xProcessed, requests, xForeign>>
    BY <1>4, Zenon DEF ExtReceive
  <2>2. ExtTypes'
    BY <1>1, <2>1, Zenon DEF ExtTypes, Known
  <2>3. ExtCounts'
    BY <1>1, <2>1, CountsSame, Zenon
  <2>4. ExtOwnReplies'
    BY <1>1, <2>1, Zenon DEF ExtOwnReplies, OwnReply
  <2> QED
    BY <1>2, <1>3, <2>2, <2>3, <2>4, Zenon DEF ExtInv
<1>5. CASE rep.id \in DOMAIN requests
  <2>1. PICK t : t = requests[rep.id]
    BY Zenon
  <2>2. t \in Known
    BY <1>5, <2>1, Zenon DEF ExtTypes
  <2>3. PICK ok \in {0, 1} : processProbeResult(t, ok)
    BY <1>5, <2>1, Zenon DEF ExtReceive
  <2>4. /\ DOMAIN requests' = DOMAIN requests \ {rep.id}
        /\ \A i \in DOMAIN requests' : requests'[i] = requests[i]
    BY <1>5, Zenon DEF ExtReceive
  <2>5. /\ Known' = Known
        /\ \A u \in Known : xResults'[u] \in [total : Nat, success : Nat]
        /\ \A u \in Known : xResults'[u].total = xResults[u].total
        /\ \A u \in Known \ {t} : xResults'[u] = xResults[u]
        /\ xResults'[t].success <= xResults[t].success + 1
        /\ xProcessed' \in [Targets -> Nat]
        /\ \A u \in Targets \ {t} : xProcessed'[u] = xProcessed[u]
        /\ xProcessed'[t] = xProcessed[t] + 1
    BY <2>2, <2>3, ResultCounted, Zenon
  <2>6. ExtTypes'
    <3>1. IsFiniteSet(DOMAIN requests')
      BY <2>4, FS_Subset, Zenon DEF ExtTypes
    <3> QED
      BY <1>1, <2>4, <2>5, <3>1, Zenon DEF ExtTypes
  <2>7. ExtCounts'
    <3>1. Outstanding(t)' = Outstanding(t) - 1
      <4> DEFINE S == {i \in DOMAIN requests : requests[i] = t}
      <4>1. {i \in DOMAIN requests' : requests'[i] = t} = S \ {rep.id}
        BY <2>4, Zenon
      <4>2. IsFiniteSet(S) /\ rep.id \in S
        BY <1>5, <2>1, FS_Subset, Zenon DEF ExtTypes
      <4>3. Cardinality(S \ {rep.id}) = Cardinality(S) - 1
        BY <4>2, FS_RemoveElement, Zenon
      <4> QED
        BY <4>1, <4>3, Zenon DEF Outstanding
    <3>2. \A u \in Known \ {t} : Outstanding(u)' = Outstanding(u)
      <4> TAKE u \in Known \ {t}
      <4>1. {i \in DOMAIN requests' : requests'[i] = u} = {i \in DOMAIN requests : requests[i] = u}
        BY <2>1, <2>4, Zenon
      <4> QED
        BY <4>1, Zenon DEF Outstanding
    <3>3. xProcessed[t] \in Nat /\ Outstanding(t) \in Nat /\ xResults[t].success \in Nat
      BY <2>2, OutstandingNat, Zenon DEF ExtTypes
    <3>4. xResults'[t].success \in Nat /\ xResults[t].success <= xProcessed[t]
      BY <2>2, <2>5, Zenon DEF ExtCounts
    <3>5. /\ xResults'[t].total = xProcessed'[t] + Outstanding(t)'
                                  + (IF t \in xOnce' THEN 1 ELSE 0)
          /\ xResults'[t].success <= xProcessed'[t]
      <4>1. PICK c \in {0, 1} : c = (IF t \in xOnce THEN 1 ELSE 0)
        BY Zenon
      <4>2. xResults[t].total = xProcessed[t] + Outstanding(t) + c
        BY <2>2, <4>1, Zenon DEF ExtCounts
      <4>3. /\ xResults'[t].total = xResults[t].total /\ xProcessed'[t] = xProcessed[t] + 1
            /\ xResults'[t].success <= xResults[t].success + 1
        BY <2>2, <2>5, Zenon
      <4>4. xResults'[t].total = xProcessed'[t] + Outstanding(t)' + c
        BY <3>1, <3>3, <4>2, <4>3
      <4>5. xResults'[t].success <= xProcessed'[t]
        BY <3>3, <3>4, <4>3
      <4>6. c = (IF t \in xOnce' THEN 1 ELSE 0)
        BY <1>1, <4>1, Zenon
      <4> QED
        BY <4>4, <4>5, <4>6, Zenon
    <3>6. \A u \in Known \ {t} : /\ xResults'[u].total = xProcessed'[u] + Outstanding(u)'
                                                         + (IF u \in xOnce' THEN 1 ELSE 0)
                                 /\ xResults'[u].success <= xProcessed'[u]
      BY <1>1, <2>5, <3>2, Zenon DEF ExtCounts, ExtTypes
    <3>7. \A u \in Targets \ Known' : xProcessed'[u] = 0
      BY <2>2, <2>5, Zenon DEF ExtCounts
    <3> QED
      BY <2>5, <3>5, <3>6, <3>7, Zenon DEF ExtCounts
  <2>8. ExtOwnReplies'
    <3>1. rep.run = xRun
      BY <1>5, Zenon DEF ExtOwnReplies, OwnReply
    <3>2. ~xForeign'
      BY <1>5, <3>1, Zenon DEF ExtReceive, ExtOwnReplies
    <3> QED
      BY <1>1, <2>4, <3>2, Zenon DEF ExtOwnReplies, OwnReply
  <2> QED
    BY <1>2, <1>3, <2>6, <2>7, <2>8, Zenon DEF ExtInv
<1> QED
  BY <1>4, <1>5, Zenon

\* The process answers a request with its ID.
LEMMA ProcReplyInv == ASSUME ExtInv, NEW req \in xPending, ProcReply(req) PROVE ExtInv'
<1> ExtTypes /\ ExtIdle /\ ExtCounts /\ ExtOwnReplies /\ ExtMonitored
  BY Zenon DEF ExtInv
<1>1. UNCHANGED <<listed, xResults, xProcessed, requestID, requests, xTodo, xOnce, xHeld, xRun,
                  xPc, xForeign, xMonitor, cmdRunning, xRaced>>
  BY Zenon DEF ProcReply, xMainVars, xHistVars, envVars
<1>2. xPipe \in Seq([id : Nat, run : Int]) /\ req \in [id : Nat, run : Int]
  BY Zenon DEF ExtTypes
<1>3. xPipe' \in Seq([id : Nat, run : Int]) /\ xPending' \subseteq xPending
  BY <1>2, AppendProperties, Zenon DEF ProcReply
<1>4. \A i \in DOMAIN xPipe' : (i \in DOMAIN xPipe /\ xPipe'[i] = xPipe[i]) \/ xPipe'[i] = req
  <2>1. /\ xPipe' = Append(xPipe, req) /\ Len(xPipe') = Len(xPipe) + 1
        /\ \A i \in 1 .. Len(xPipe) : xPipe'[i] = xPipe[i]
        /\ xPipe'[Len(xPipe) + 1] = req
    BY <1>2, AppendProperties DEF ProcReply
  <2>2. DOMAIN xPipe = 1 .. Len(xPipe) /\ DOMAIN xPipe' = 1 .. Len(xPipe') /\ Len(xPipe) \in Nat
    BY <1>2, <1>3
  <2> QED
    BY <2>1, <2>2
<1>5. ExtTypes'
  BY <1>1, <1>3, Zenon DEF ExtTypes, Known
<1>6. ExtIdle' /\ ExtMonitored'
  BY <1>1, Zenon DEF ExtIdle, ExtMonitored
<1>7. ExtCounts'
  BY <1>1, CountsSame, Zenon
<1>8. ExtOwnReplies'
  BY <1>1, <1>3, <1>4, Zenon DEF ExtOwnReplies, OwnReply
<1> QED
  BY <1>5, <1>6, <1>7, <1>8, Zenon DEF ExtInv

\* The reader takes the first reply off the pipe.
LEMMA ReaderReadsInv == ASSUME ExtInv, ReaderReads PROVE ExtInv'
<1> ExtTypes /\ ExtIdle /\ ExtCounts /\ ExtOwnReplies /\ ExtMonitored
  BY Zenon DEF ExtInv
<1>1. UNCHANGED <<listed, xResults, xProcessed, requestID, requests, xTodo, xOnce, xPending, xRun,
                  xPc, xForeign, xMonitor, cmdRunning, xRaced>>
  BY Zenon DEF ReaderReads, xMainVars, xHistVars, envVars
<1>2. xPipe \in Seq([id : Nat, run : Int]) /\ xPipe # <<>>
  BY Zenon DEF ExtTypes, ReaderReads
<1>3. /\ Head(xPipe) = xPipe[1] /\ 1 \in DOMAIN xPipe
      /\ xPipe' \in Seq([id : Nat, run : Int])
      /\ \A i \in DOMAIN xPipe' : i + 1 \in DOMAIN xPipe /\ xPipe'[i] = xPipe[i + 1]
  <2>1. xPipe' = Tail(xPipe)
    BY Zenon DEF ReaderReads
  <2> QED
    BY <1>2, <2>1
<1>4. PICK r : /\ r.id = xPipe[1].id /\ r.run = xPipe[1].run
               /\ \A m \in xHeld' : m \in xHeld \/ m = r
  <2> DEFINE x == [id |-> Head(xPipe).id, run |-> Head(xPipe).run, proc |-> xProcs]
  <2>1. xHeld' = xHeld \cup {x}
    BY Zenon DEF ReaderReads
  <2>2. x.id = xPipe[1].id /\ x.run = xPipe[1].run
    BY <1>3, Zenon
  <2> WITNESS x
  <2> QED
    BY <2>1, <2>2, Zenon
<1>5. r.id \in Nat /\ r.run \in Int /\ OwnReply(r)
  BY <1>3, <1>4, PipeTypes, Zenon DEF ExtOwnReplies, OwnReply
<1>6. ExtTypes'
  BY <1>1, <1>3, <1>4, <1>5, Zenon DEF ExtTypes, Known
<1>7. ExtIdle' /\ ExtMonitored'
  BY <1>1, Zenon DEF ExtIdle, ExtMonitored
<1>8. ExtCounts'
  BY <1>1, CountsSame, Zenon
<1>9. ExtOwnReplies'
  BY <1>1, <1>3, <1>4, <1>5 DEF ExtOwnReplies, OwnReply
<1> QED
  BY <1>6, <1>7, <1>8, <1>9, Zenon DEF ExtInv

\* What the process and its monitor drop was of its run, too.
LEMMA PipeClosedInv ==
  ASSUME ExtInv, ExtMonitored',
         UNCHANGED <<listed, xResults, xProcessed, requestID, requests, xTodo, xOnce, xHeld, xRun,
                     xForeign>>,
         xPc' = xPc \/ xPc' \notin {"tick", "returned"} \/ (xPc = "tick" /\ xPc' = "returned"),
         xPending' \subseteq xPending, xPipe' = xPipe \/ xPipe' = <<>>
  PROVE  ExtInv'
<1> ExtTypes /\ ExtIdle /\ ExtCounts /\ ExtOwnReplies /\ ExtMonitored
  BY Zenon DEF ExtInv
<1>1. xPipe' \in Seq([id : Nat, run : Int])
  <2>1. <<>> \in Seq([id : Nat, run : Int])
    OBVIOUS
  <2> QED
    BY <2>1, Zenon DEF ExtTypes
<1>2. ExtTypes'
  BY <1>1, Zenon DEF ExtTypes, Known
<1>3. ExtIdle'
  BY Zenon DEF ExtIdle
<1>4. ExtCounts'
  BY CountsSame, Zenon
<1>5. ExtOwnReplies'
  BY DEF ExtOwnReplies, OwnReply
<1> QED
  BY <1>2, <1>3, <1>4, <1>5, Zenon DEF ExtInv

\* Discovery lists other targets; runProbe has not looked yet.
LEMMA ExtEnvInv == ASSUME ExtInv, ListChange \/ EndContext, UNCHANGED extVars PROVE ExtInv'
<1>1. listed' \subseteq Targets
  BY Zenon DEF ExtInv, ExtTypes, ListChange, EndContext
<1>2. ExtTypes'
  BY <1>1, Zenon DEF ExtInv, ExtTypes, Known, extVars, xMainVars, xProcVars, xHistVars
<1>3. ExtIdle' /\ ExtMonitored'
  BY Zenon DEF ExtInv, ExtIdle, ExtMonitored, extVars, xMainVars, xProcVars, xHistVars
<1>4. ExtCounts'
  BY CountsSame, Zenon DEF ExtInv, extVars, xMainVars, xHistVars
<1>5. ExtOwnReplies'
  BY RepliesSame, Zenon DEF ExtInv, extVars, xMainVars, xProcVars, xHistVars
<1> QED
  BY <1>2, <1>3, <1>4, <1>5, Zenon DEF ExtInv

\* Every step keeps the invariant.
LEMMA ExtNextInv == ASSUME ExtInv, [ExtNext]_<<extVars, envVars>> PROVE ExtInv'
<1> USE DEF xMainVars, xProcVars, xHistVars, envVars
<1>1. CASE ExtReturn \/ ExtAllSent \/ ExtRecvExit \/ ExtProbeTimeout \/ ProcDies
  <2>1. ExtMonitored'
    BY <1>1, Zenon DEF ExtInv, ExtMonitored, ExtReturn, ExtAllSent, ExtRecvExit, ExtProbeTimeout, ProcDies
  <2>2. xPending' \subseteq xPending
    BY <1>1, Zenon DEF ExtReturn, ExtAllSent, ExtRecvExit, ExtProbeTimeout, ProcDies
  <2> QED
    BY <1>1, <2>1, <2>2, PipeClosedInv, Zenon
    DEF ExtReturn, ExtAllSent, ExtRecvExit, ExtProbeTimeout, ProcDies
<1>2. CASE ExtSetRunning \/ MonitorCloses \/ MonitorResets \/ \E i \in 1 .. MaxProcs : ReaderExits(i)
  <2>1. ExtMonitored'
    BY <1>2, Zenon DEF ExtInv, ExtMonitored, ExtSetRunning, MonitorCloses, MonitorResets, ReaderExits
  <2> QED
    BY <1>2, <2>1, PipeClosedInv, Zenon DEF ExtSetRunning, MonitorCloses, MonitorResets, ReaderExits
<1>3. CASE ExtRunProbe
  BY <1>3, ExtRunProbeInv, Zenon
<1>4. ASSUME NEW t \in Targets, ExtSendRequest(t) \/ ExtStartCommand(t) \/ ExtCommandEnds(t)
      PROVE  ExtInv'
  BY <1>4, ExtSendRequestInv, ExtStartCommandInv, ExtCommandEndsInv, Zenon
<1>5. CASE ExtEndRun
  BY <1>5, ExtEndRunInv, Zenon
<1>6. ASSUME NEW rep \in xHeld, ExtReceive(rep) PROVE ExtInv'
  BY <1>6, ExtReceiveInv, Zenon
<1>7. ASSUME NEW req \in xPending, ProcReply(req) PROVE ExtInv'
  BY <1>7, ProcReplyInv, Zenon
<1>8. CASE ReaderReads
  BY <1>8, ReaderReadsInv, Zenon
<1>9. CASE (ListChange \/ EndContext) /\ UNCHANGED extVars
  BY <1>9, ExtEnvInv, Zenon
<1>10. CASE UNCHANGED <<extVars, envVars>>
  <2>1. ExtMonitored'
    BY <1>10, Zenon DEF ExtInv, ExtMonitored, extVars
  <2> QED
    BY <1>10, <2>1, PipeClosedInv, Zenon DEF extVars
<1> QED
  BY <1>1, <1>2, <1>3, <1>4, <1>5, <1>6, <1>7, <1>8, <1>9, <1>10, Zenon DEF ExtNext

\* ExternalProbe: every request and every command that total counts gets exactly
\* one result (processProbeResult is called once for it), whichever of the
\* reply, the timeout and the process's death comes first, no target has more
\* successes than results, and no reply of an earlier run is taken for one of
\* this run, however many runs, processes and late replies there are.
THEOREM ExtResultsRight == ExtSpec => []ExtOneResult
<1>1. ExtInv => ExtOneResult
  BY Zenon DEF ExtInv, ExtCounts, ExtOwnReplies, ExtOneResult, Known
<1> QED
  BY <1>1, ExtInitInv, ExtNextInv, PTL DEF ExtSpec

\* ExternalProbe: a process whose monitor is done is started again by the next
\* run: cmdRunning is false, unless startCmdIfNotRunning's last assignment
\* came after the monitor's.
THEOREM ExtDeathNoticed == ExtSpec => []ExtNoticesDeath
<1>1. ExtInv => ExtNoticesDeath
  BY Zenon DEF ExtInv, ExtMonitored, ExtNoticesDeath
<1> QED
  BY <1>1, ExtInitInv, ExtNextInv, PTL DEF ExtSpec
=============================================================================
