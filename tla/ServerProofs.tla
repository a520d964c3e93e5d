---------------------------- MODULE ServerProofs ----------------------------
(***************************************************************************)
(* Theorems about the servers that answer probes, for every size of        *)
(* packets, batches and buffers and every set of HTTP paths, and about the *)
(* alert handler that judges the answers, for every window, threshold and  *)
(* repeat interval.                                                        *)
(***************************************************************************)
EXTENDS Servers, Alerting, TLAPS, FiniteSetTheorems, SequenceTheorems

-----------------------------------------------------------------------------
(* Servers *)

Arrived == [id : Nat, size : Nat]
Messages == [id : Nat, size : Nat, n : Nat]
Counts == UNION {[S -> Nat] : S \in SUBSET DOMAIN HttpPaths}

UdpTypes ==
  /\ uIn \in Seq(Arrived) /\ uBatch \in Seq(Messages) /\ uOut \in Seq(Messages)
  /\ uBufs \in [1 .. UdpBatch -> Nat]
  /\ uSent \in Nat /\ uRemain \in Nat
  /\ uErrs \in [failed : Nat, partial : Nat]

\* The packets of a sequence are in the order they arrived in, or before others.
InOrder(s) == \A i, j \in DOMAIN s : i < j => s[i].id < s[j].id
AllBefore(s, t) == \A i \in DOMAIN s, j \in DOMAIN t : s[i].id < t[j].id
UpTo(s, n) == \A i \in DOMAIN s : s[i].id <= n

\* Until a write was partial, packets go in order from the socket to the batch and
\* from there, the whole batch at once, to the echoes.
EchoOrder ==
  uErrs.partial = 0 =>
    /\ uRemain = Len(uBatch)
    /\ InOrder(uIn) /\ InOrder(uBatch) /\ InOrder(uOut)
    /\ AllBefore(uOut, uBatch) /\ AllBefore(uOut, uIn) /\ AllBefore(uBatch, uIn)
    /\ UpTo(uIn, uSent) /\ UpTo(uBatch, uSent) /\ UpTo(uOut, uSent)

InFull(s) ==
  \A i \in DOMAIN s : s[i].n = IF s[i].size > UdpMaxSize THEN UdpMaxSize ELSE s[i].size

\* Until a write failed, the buffers behind the batch have their full size.
EchoSize ==
  uErrs.failed = 0 =>
    /\ InFull(uBatch) /\ InFull(uOut)
    /\ srvPc # "returned" =>
         \A i \in 1 .. UdpBatch : i > Len(uBatch) \/ ~uAdvanced => uBufs[i] = UdpMaxSize

\* Until a write went wrong, no packet is lost.
EchoAll ==
  uErrs.partial + uErrs.failed = 0 /\ uAdvanced /\ uEcho /\ srvPc # "returned" =>
    Len(uOut) + Len(uBatch) + Len(uIn) = uSent

UdpInv ==
  /\ UdpTypes /\ EchoOrder /\ EchoSize /\ EchoAll
  /\ ~uEcho => uBatch = <<>> /\ uOut = <<>>

\* Counts of requests only grow.
HttpInv ==
  /\ wReq \in Counts /\ wChan \in Seq(Counts)
  /\ \A i \in DOMAIN wChan : Leq(wChan[i], wReq)

ServersInv == UdpInv /\ HttpInv

\* What is in a sequence.
LEMMA MessageTypes ==
  ASSUME UdpTypes
  PROVE  /\ \A i \in DOMAIN uIn : uIn[i] \in Arrived /\ uIn[i].id \in Nat /\ uIn[i].size \in Nat
         /\ \A i \in DOMAIN uBatch : uBatch[i] \in Messages /\ uBatch[i].id \in Nat
         /\ \A i \in DOMAIN uOut : uOut[i] \in Messages /\ uOut[i].id \in Nat
         /\ DOMAIN uIn = 1 .. Len(uIn) /\ Len(uIn) \in Nat
         /\ DOMAIN uBatch = 1 .. Len(uBatch) /\ Len(uBatch) \in Nat
         /\ DOMAIN uOut = 1 .. Len(uOut) /\ Len(uOut) \in Nat
<1>1. /\ uIn \in Seq(Arrived) /\ uBatch \in Seq(Messages) /\ uOut \in Seq(Messages)
  BY Zenon DEF UdpTypes
<1>2. /\ DOMAIN uIn = 1 .. Len(uIn) /\ Len(uIn) \in Nat
      /\ DOMAIN uBatch = 1 .. Len(uBatch) /\ Len(uBatch) \in Nat
      /\ DOMAIN uOut = 1 .. Len(uOut) /\ Len(uOut) \in Nat
  BY <1>1, LenProperties, Zenon
<1>3. \A i \in DOMAIN uIn : uIn[i] \in Arrived
  BY <1>1, <1>2, ElementOfSeq, Zenon
<1>4. \A i \in DOMAIN uBatch : uBatch[i] \in Messages
  BY <1>1, <1>2, ElementOfSeq, Zenon
<1>5. \A i \in DOMAIN uOut : uOut[i] \in Messages
  BY <1>1, <1>2, ElementOfSeq, Zenon
<1> QED
  BY <1>2, <1>3, <1>4, <1>5, Zenon DEF Arrived, Messages

\* Nothing has happened at first.
LEMMA ServersInitInv == SrvsInit => ServersInv
<1> SUFFICES ASSUME SrvsInit PROVE ServersInv
  BY Zenon
<1>1. \A S : <<>> \in Seq(S) /\ Len(<<>>) = 0 /\ DOMAIN <<>> = {}
  <2>1. \A S : <<>> \in Seq(S) /\ Len(<<>>) = 0
    BY EmptySeq, Zenon
  <2>2. \A i : i \notin DOMAIN <<>>
    OBVIOUS
  <2> QED
    BY <2>1, <2>2, Zenon
<1>2. UdpTypes
  BY <1>1, ServersAssumption, Zenon DEF SrvsInit, UdpTypes, FullBufs
<1>3. EchoOrder
  BY <1>1, Zenon DEF SrvsInit, EchoOrder, InOrder, AllBefore, UpTo
<1>4. EchoSize
  BY <1>1, Zenon DEF SrvsInit, EchoSize, InFull, FullBufs
<1>5. EchoAll
  BY <1>1, Zenon DEF SrvsInit, EchoAll
<1>6. HttpInv
  <2>1. wReq \in Counts
    <3>1. wReq \in [{} -> Nat]
      BY Zenon DEF SrvsInit
    <3> QED
      BY <3>1, Zenon DEF Counts
  <2> QED
    BY <1>1, <2>1, Zenon DEF SrvsInit, HttpInv
<1> QED
  BY <1>2, <1>3, <1>4, <1>5, <1>6, Zenon DEF ServersInv, UdpInv, SrvsInit

\* A packet arrives.
LEMMA ArriveInv == ASSUME UdpInv, UdpArrive PROVE UdpInv'
<1> USE DEF UdpInv
<1>1. PICK n \in UdpSizes : uIn' = Append(uIn, [id |-> uSent + 1, size |-> n])
  BY Zenon DEF UdpArrive
<1>2. /\ uSent' = uSent + 1 /\ uSent \in Nat /\ UNCHANGED <<srvPc, uEcho, uAdvanced>>
      /\ UNCHANGED <<uBufs, uBatch, uRemain, uOut, uErrs>>
  BY Zenon DEF UdpArrive, UdpTypes
<1>3. PICK m : m = [id |-> uSent + 1, size |-> n]
  BY Zenon
<1>4. m \in Arrived /\ m.id = uSent + 1
  BY <1>2, <1>3, ServersAssumption DEF Arrived
<1>5. /\ uIn' \in Seq(Arrived) /\ Len(uIn') = Len(uIn) + 1
      /\ \A i \in 1 .. Len(uIn) : uIn'[i] = uIn[i]
      /\ uIn'[Len(uIn) + 1] = m
  BY <1>1, <1>3, <1>4, AppendProperties DEF UdpTypes
<1>6. DOMAIN uIn' = 1 .. Len(uIn) + 1
  BY <1>5, LenProperties, Zenon
<1>7. UdpTypes'
  BY <1>2, <1>5 DEF UdpTypes
<1>8. ASSUME uErrs.partial = 0
      PROVE  /\ InOrder(uIn') /\ AllBefore(uOut, uIn') /\ AllBefore(uBatch, uIn')
             /\ UpTo(uIn', uSent + 1) /\ UpTo(uBatch, uSent + 1) /\ UpTo(uOut, uSent + 1)
  <2>1. /\ InOrder(uIn) /\ AllBefore(uOut, uIn) /\ AllBefore(uBatch, uIn)
        /\ UpTo(uIn, uSent) /\ UpTo(uBatch, uSent) /\ UpTo(uOut, uSent)
    BY <1>8, Zenon DEF EchoOrder
  <2>2. \A i \in DOMAIN uIn' : \/ i \in DOMAIN uIn /\ uIn'[i] = uIn[i]
                               \/ i = Len(uIn) + 1 /\ uIn'[i].id = uSent + 1
    BY <1>4, <1>5, <1>6, MessageTypes
  <2>3. InOrder(uIn')
    <3> SUFFICES ASSUME NEW i \in DOMAIN uIn', NEW j \in DOMAIN uIn', i < j
                 PROVE  uIn'[i].id < uIn'[j].id
      BY Zenon DEF InOrder
    <3>1. i \in DOMAIN uIn /\ uIn'[i] = uIn[i] /\ uIn[i].id \in Nat /\ uIn[i].id <= uSent
      <4>1. i \in 1 .. Len(uIn)
        BY <1>6, MessageTypes
      <4> QED
        BY <1>5, <2>1, <4>1, MessageTypes, Zenon DEF UpTo
    <3>2. CASE j \in DOMAIN uIn /\ uIn'[j] = uIn[j]
      BY <2>1, <3>1, <3>2, Zenon DEF InOrder
    <3>3. CASE uIn'[j].id = uSent + 1
      BY <1>2, <3>1, <3>3
    <3> QED
      BY <2>2, <3>2, <3>3, Zenon
  <2>4. AllBefore(uOut, uIn')
    BY <1>2, <2>1, <2>2, MessageTypes DEF AllBefore, UpTo
  <2>5. AllBefore(uBatch, uIn')
    BY <1>2, <2>1, <2>2, MessageTypes DEF AllBefore, UpTo
  <2>6. UpTo(uIn', uSent + 1) /\ UpTo(uBatch, uSent + 1) /\ UpTo(uOut, uSent + 1)
    BY <1>2, <2>1, <2>2, MessageTypes DEF UpTo
  <2> QED
    BY <2>3, <2>4, <2>5, <2>6, Zenon
<1>9. EchoOrder'
  BY <1>2, <1>8, Zenon DEF EchoOrder
<1>10. EchoSize'
  BY <1>2, Zenon DEF EchoSize
<1>11. EchoAll'
  BY <1>2, <1>5, MessageTypes DEF EchoAll
<1> QED
  BY <1>2, <1>7, <1>9, <1>10, <1>11, Zenon

\* The first n packets are taken off the socket.
LEMMA TakenFrom ==
  ASSUME UdpTypes, NEW n \in Nat, n <= Len(uIn), uIn' = SubSeq(uIn, n + 1, Len(uIn))
  PROVE  /\ uIn' \in Seq(Arrived) /\ Len(uIn') = Len(uIn) - n
         /\ DOMAIN uIn' = 1 .. Len(uIn) - n
         /\ \A i \in 1 .. Len(uIn) - n : n + i \in DOMAIN uIn /\ uIn'[i] = uIn[n + i]
<1>1. n + 1 \in Int /\ Len(uIn) \in Int /\ \A i \in n + 1 .. Len(uIn) : uIn[i] \in Arrived
  BY MessageTypes
<1>2. /\ uIn' \in Seq(Arrived)
      /\ Len(uIn') = IF n + 1 <= Len(uIn) THEN Len(uIn) - (n + 1) + 1 ELSE 0
      /\ \A i \in 1 .. Len(uIn) - (n + 1) + 1 : uIn'[i] = uIn[n + 1 + i - 1]
  BY <1>1, SubSeqProperties
<1>3. Len(uIn) \in Nat /\ Len(uIn) - (n + 1) + 1 = Len(uIn) - n
  BY MessageTypes
<1>4. Len(uIn') = Len(uIn) - n
  <2>1. PICK m \in Nat : m = Len(uIn)
    BY <1>3, Zenon
  <2>2. n <= m /\ (IF n + 1 <= m THEN m - (n + 1) + 1 ELSE 0) = m - n
    BY <2>1
  <2> QED
    BY <1>2, <2>1, <2>2, Zenon
<1>5. \A i \in 1 .. Len(uIn) - n : n + i \in 1 .. Len(uIn) /\ n + 1 + i - 1 = n + i
  BY <1>3
<1> QED
  BY <1>2, <1>3, <1>4, <1>5, LenProperties, MessageTypes, Zenon

\* What Read makes of the first packets.
LEMMA ReadIs ==
  ASSUME UdpTypes, NEW n \in Nat, n <= Len(uIn), NEW len, \A i \in 1 .. n : len[i] \in Nat
  PROVE  /\ Read(n, len) \in Seq(Messages) /\ Len(Read(n, len)) = n
         /\ DOMAIN Read(n, len) = 1 .. n
         /\ \A i \in 1 .. n : /\ i \in DOMAIN uIn /\ Read(n, len)[i].id = uIn[i].id
                              /\ Read(n, len)[i].size = uIn[i].size
                              /\ Read(n, len)[i].n = IF uIn[i].size > len[i] THEN len[i] ELSE uIn[i].size
<1>1. PICK r : r = Read(n, len)
  BY Zenon
<1>2. \A i \in 1 .. n : i \in DOMAIN uIn /\ uIn[i].id \in Nat /\ uIn[i].size \in Nat
  BY MessageTypes
<1>3. r = [i \in 1 .. n |-> [id |-> uIn[i].id, size |-> uIn[i].size,
                             n |-> IF uIn[i].size > len[i] THEN len[i] ELSE uIn[i].size]]
  BY <1>1, Zenon DEF Read
<1>4. r \in [1 .. n -> Messages]
  BY <1>2, <1>3, Zenon DEF Messages
<1>5. r \in Seq(Messages)
  BY <1>4, SeqDef, Zenon
<1>6. DOMAIN r = 1 .. n /\ DOMAIN r = 1 .. Len(r) /\ Len(r) \in Nat
  BY <1>4, <1>5, LenProperties, Zenon
<1>7. Len(r) = n
  BY <1>6
<1> QED
  BY <1>1, <1>2, <1>3, <1>5, <1>6, <1>7

\* Packets that are taken off the socket leave the others in order.
LEMMA TakenOrder ==
  ASSUME UdpTypes, NEW n \in Nat, n <= Len(uIn), uIn' = SubSeq(uIn, n + 1, Len(uIn))
  PROVE  /\ InOrder(uIn) => InOrder(uIn')
         /\ UpTo(uIn, uSent) => UpTo(uIn', uSent)
         /\ AllBefore(uOut, uIn) => AllBefore(uOut, uIn')
         /\ AllBefore(uBatch, uIn) => AllBefore(uBatch, uIn')
<1>1. /\ DOMAIN uIn' = 1 .. Len(uIn) - n /\ Len(uIn) \in Nat
      /\ \A i \in DOMAIN uIn' : n + i \in DOMAIN uIn /\ uIn'[i] = uIn[n + i]
  BY TakenFrom, MessageTypes, Zenon
<1>2. \A i, j \in DOMAIN uIn' : i < j => n + i < n + j
  BY <1>1
<1>3. InOrder(uIn) => InOrder(uIn')
  BY <1>1, <1>2, Zenon DEF InOrder
<1> QED
  BY <1>1, <1>3, Zenon DEF UpTo, AllBefore

\* Packets that are read into the batch are in order, too.
LEMMA ReadOrder ==
  ASSUME UdpTypes, EchoOrder, uBatch = <<>>, NEW n \in Nat, n <= Len(uIn),
         uIn' = SubSeq(uIn, n + 1, Len(uIn)), uBatch' \in Seq(Messages),
         DOMAIN uBatch' = 1 .. n, uRemain' = Len(uBatch'),
         \A i \in 1 .. n : i \in DOMAIN uIn /\ uBatch'[i].id = uIn[i].id,
         UNCHANGED <<uOut, uSent, uErrs>>
  PROVE  EchoOrder'
<1> SUFFICES ASSUME uErrs.partial = 0
             PROVE  /\ InOrder(uIn') /\ InOrder(uBatch') /\ InOrder(uOut)
                    /\ AllBefore(uOut, uBatch') /\ AllBefore(uOut, uIn')
                    /\ AllBefore(uBatch', uIn')
                    /\ UpTo(uIn', uSent) /\ UpTo(uBatch', uSent) /\ UpTo(uOut, uSent)
  BY Zenon DEF EchoOrder
<1>1. /\ InOrder(uIn) /\ InOrder(uOut) /\ AllBefore(uOut, uIn)
      /\ UpTo(uIn, uSent) /\ UpTo(uOut, uSent)
  BY Zenon DEF EchoOrder
<1>2. InOrder(uIn') /\ UpTo(uIn', uSent) /\ AllBefore(uOut, uIn')
  BY <1>1, TakenOrder, Zenon
<1>3. InOrder(uBatch') /\ AllBefore(uOut, uBatch') /\ UpTo(uBatch', uSent)
  BY <1>1, Zenon DEF InOrder, AllBefore, UpTo
<1>4. AllBefore(uBatch', uIn')
  <2> SUFFICES ASSUME NEW i \in DOMAIN uBatch', NEW j \in DOMAIN uIn'
               PROVE  uBatch'[i].id < uIn'[j].id
    BY Zenon DEF AllBefore
  <2>0. DOMAIN uIn' = 1 .. Len(uIn) - n /\ Len(uIn) \in Nat
    BY TakenFrom, MessageTypes, Zenon
  <2>1. n + j \in DOMAIN uIn /\ uIn'[j] = uIn[n + j] /\ j \in Nat /\ j >= 1
    BY <2>0, TakenFrom
  <2>2. i \in DOMAIN uIn /\ uBatch'[i].id = uIn[i].id /\ i < n + j
    BY <2>1
  <2> QED
    BY <1>1, <2>1, <2>2, Zenon DEF InOrder
<1> QED
  BY <1>1, <1>2, <1>3, <1>4, Zenon

\* A batch is read.
LEMMA ReadBatchInv == ASSUME UdpInv, ReadBatch PROVE UdpInv'
<1> USE DEF UdpInv
<1>1. PICK n \in 1 .. UdpBatch :
        /\ n <= Len(uIn) /\ uIn' = SubSeq(uIn, n + 1, Len(uIn))
        /\ uBatch' = Read(n, uBufs) /\ uRemain' = n
        /\ uBufs' = [i \in DOMAIN uBufs |-> IF i <= n THEN uBatch'[i].n ELSE uBufs[i]]
  BY Zenon DEF ReadBatch
<1>2. n \in Nat /\ UNCHANGED <<srvPc, uEcho, uAdvanced, uOut, uSent, uErrs>>
      /\ srvPc = "running" /\ uBatch = <<>> /\ uEcho /\ Len(uBatch) = 0
  BY EmptySeq, ServersAssumption DEF ReadBatch, UdpReading
<1>3. DOMAIN uBufs = 1 .. UdpBatch /\ \A i \in 1 .. n : uBufs[i] \in Nat
  BY ServersAssumption DEF UdpTypes
<1>4. /\ uBatch' \in Seq(Messages) /\ Len(uBatch') = n /\ DOMAIN uBatch' = 1 .. n
      /\ \A i \in 1 .. n : /\ i \in DOMAIN uIn /\ uBatch'[i].id = uIn[i].id
                           /\ uBatch'[i].size = uIn[i].size
                           /\ uBatch'[i].n = IF uIn[i].size > uBufs[i] THEN uBufs[i] ELSE uIn[i].size
  <2>1. PICK r : r = Read(n, uBufs)
    BY Zenon
  <2>2. /\ r \in Seq(Messages) /\ Len(r) = n /\ DOMAIN r = 1 .. n
        /\ \A i \in 1 .. n : /\ i \in DOMAIN uIn /\ r[i].id = uIn[i].id /\ r[i].size = uIn[i].size
                             /\ r[i].n = IF uIn[i].size > uBufs[i] THEN uBufs[i] ELSE uIn[i].size
    <3>1. PICK b : b = uBufs
      BY Zenon
    <3>2. UdpTypes /\ n \in Nat /\ n <= Len(uIn) /\ (\A i \in 1 .. n : b[i] \in Nat) /\ r = Read(n, b)
      BY <1>1, <1>2, <1>3, <2>1, <3>1, Zenon
    <3>3. /\ r \in Seq(Messages) /\ Len(r) = n /\ DOMAIN r = 1 .. n
          /\ \A i \in 1 .. n : /\ i \in DOMAIN uIn /\ r[i].id = uIn[i].id /\ r[i].size = uIn[i].size
                               /\ r[i].n = IF uIn[i].size > b[i] THEN b[i] ELSE uIn[i].size
      BY ONLY <3>2, ReadIs, Zenon
    <3> QED
      BY <3>1, <3>3, Zenon
  <2>3. uBatch' = r
    BY <1>1, <2>1, Zenon
  <2> QED
    BY <2>2, <2>3, Zenon
<1>5. /\ uIn' \in Seq(Arrived) /\ Len(uIn') = Len(uIn) - n
  BY <1>1, <1>2, TakenFrom, Zenon
<1>6. \A i \in 1 .. n : uBatch'[i].n \in Nat
  BY <1>3, <1>4, MessageTypes, Zenon
<1>7. uBufs' \in [1 .. UdpBatch -> Nat]
  <2>1. uBufs' = [i \in 1 .. UdpBatch |-> IF i <= n THEN uBatch'[i].n ELSE uBufs[i]]
    BY <1>1, <1>3, Zenon
  <2>2. \A i \in 1 .. UdpBatch : uBufs[i] \in Nat /\ (i <= n => i \in 1 .. n)
    BY <1>2, ServersAssumption DEF UdpTypes
  <2> QED
    BY <1>6, <2>1, <2>2, Zenon
<1>8. UdpTypes'
  BY <1>1, <1>2, <1>4, <1>5, <1>7, Zenon DEF UdpTypes
<1>9. EchoOrder'
  BY <1>1, <1>2, <1>4, ReadOrder, Zenon
<1>10. EchoSize'
  <2> SUFFICES ASSUME uErrs.failed = 0
               PROVE  /\ InFull(uBatch') /\ InFull(uOut)
                      /\ \A i \in 1 .. UdpBatch : i > n => uBufs'[i] = UdpMaxSize
    BY <1>2, <1>4 DEF EchoSize, ReadBatch
  <2>1. InFull(uOut) /\ \A i \in 1 .. UdpBatch : uBufs[i] = UdpMaxSize
    BY <1>2 DEF EchoSize
  <2>2. InFull(uBatch')
    BY <1>4, <2>1, ServersAssumption DEF InFull
  <2>3. \A i \in 1 .. UdpBatch : i > n => uBufs'[i] = UdpMaxSize
    BY <1>1, <1>3, <2>1
  <2> QED
    BY <2>1, <2>2, <2>3, Zenon
<1>11. EchoAll'
  <2>1. Len(uOut) \in Nat /\ Len(uIn) \in Nat
    BY MessageTypes, Zenon
  <2>2. Len(uOut) + n + (Len(uIn) - n) = Len(uOut) + 0 + Len(uIn)
    BY <1>2, <2>1
  <2> QED
    BY <1>2, <1>4, <1>5, <2>2, Zenon DEF EchoAll
<1> QED
  BY <1>2, <1>8, <1>9, <1>10, <1>11, Zenon

\* What the echoes are after n messages of the batch were written.
LEMMA EchoedMessages ==
  ASSUME UdpTypes, NEW n \in 0 .. Len(uBatch), uOut' = uOut \o SubSeq(uBatch, 1, n)
  PROVE  /\ uOut' \in Seq(Messages) /\ Len(uOut') = Len(uOut) + n
         /\ DOMAIN uOut' = 1 .. Len(uOut) + n
         /\ \A i \in DOMAIN uOut' :
              \/ i \in DOMAIN uOut /\ uOut'[i] = uOut[i]
              \/ /\ i > Len(uOut) /\ i - Len(uOut) \in DOMAIN uBatch
                 /\ uOut'[i] = uBatch[i - Len(uOut)]
<1>1. PICK b : b = SubSeq(uBatch, 1, n)
  BY Zenon
<1>2. /\ b \in Seq(Messages) /\ Len(b) = n /\ \A i \in 1 .. n : b[i] = uBatch[i]
  <2>1. 1 \in Int /\ n \in Int /\ \A i \in 1 .. n : uBatch[i] \in Messages
    BY MessageTypes
  <2>2. /\ b \in Seq(Messages) /\ Len(b) = (IF 1 <= n THEN n - 1 + 1 ELSE 0)
        /\ \A i \in 1 .. n - 1 + 1 : b[i] = uBatch[1 + i - 1]
    BY <1>1, <2>1, SubSeqProperties
  <2>3. n \in Nat /\ n - 1 + 1 = n /\ \A i \in Int : 1 + i - 1 = i
    BY MessageTypes
  <2> QED
    BY <2>2, <2>3
<1>3. /\ uOut' \in Seq(Messages) /\ Len(uOut') = Len(uOut) + Len(b)
      /\ \A i \in 1 .. Len(uOut) + Len(b) :
           uOut'[i] = IF i <= Len(uOut) THEN uOut[i] ELSE b[i - Len(uOut)]
  BY <1>1, <1>2, ConcatProperties DEF UdpTypes
<1>4. DOMAIN uOut' = 1 .. Len(uOut) + n
  BY <1>2, <1>3, LenProperties, Zenon
<1>5. ASSUME NEW i \in DOMAIN uOut'
      PROVE  \/ i \in DOMAIN uOut /\ uOut'[i] = uOut[i]
             \/ /\ i > Len(uOut) /\ i - Len(uOut) \in DOMAIN uBatch
                /\ uOut'[i] = uBatch[i - Len(uOut)]
  <2>1. CASE i <= Len(uOut)
    BY <1>2, <1>3, <1>4, <2>1, MessageTypes
  <2>2. CASE ~(i <= Len(uOut))
    <3>1. i > Len(uOut) /\ i - Len(uOut) \in 1 .. n /\ i - Len(uOut) \in DOMAIN uBatch
      BY <1>4, <2>2, MessageTypes
    <3> QED
      BY <1>2, <1>3, <1>4, <2>2, <3>1, Zenon
  <2> QED
    BY <2>1, <2>2, Zenon
<1> QED
  BY <1>2, <1>3, <1>4, <1>5, Zenon

\* A batch that is written as a whole keeps the order.
LEMMA EchoedOrder ==
  ASSUME UdpTypes, uErrs.partial = 0, EchoOrder,
         uOut' = uOut \o SubSeq(uBatch, 1, Len(uBatch)), uBatch' = <<>>, uRemain' = 0,
         UNCHANGED <<uIn, uSent>>
  PROVE  EchoOrder'
<1>1. /\ InOrder(uIn) /\ InOrder(uBatch) /\ InOrder(uOut)
      /\ AllBefore(uOut, uBatch) /\ AllBefore(uOut, uIn) /\ AllBefore(uBatch, uIn)
      /\ UpTo(uIn, uSent) /\ UpTo(uBatch, uSent) /\ UpTo(uOut, uSent)
  BY Zenon DEF EchoOrder
<1>2. Len(uBatch) \in 0 .. Len(uBatch) /\ Len(uOut) \in Nat /\ DOMAIN uOut = 1 .. Len(uOut)
      /\ DOMAIN uBatch = 1 .. Len(uBatch)
  BY MessageTypes
<1>3. \A i \in DOMAIN uOut' :
        \/ i \in DOMAIN uOut /\ uOut'[i] = uOut[i]
        \/ /\ i > Len(uOut) /\ i - Len(uOut) \in DOMAIN uBatch
           /\ uOut'[i] = uBatch[i - Len(uOut)]
  BY <1>2, EchoedMessages, Zenon
<1>4. InOrder(uOut')
  <2> SUFFICES ASSUME NEW i \in DOMAIN uOut', NEW j \in DOMAIN uOut', i < j
               PROVE  uOut'[i].id < uOut'[j].id
    BY Zenon DEF InOrder
  <2>1. i \in Nat /\ j \in Nat
    BY <1>2, EchoedMessages
  <2>2. CASE i \in DOMAIN uOut /\ uOut'[i] = uOut[i] /\ j \in DOMAIN uOut /\ uOut'[j] = uOut[j]
    BY <1>1, <2>2, Zenon DEF InOrder
  <2>3. CASE /\ i \in DOMAIN uOut /\ uOut'[i] = uOut[i]
             /\ j - Len(uOut) \in DOMAIN uBatch /\ uOut'[j] = uBatch[j - Len(uOut)]
    BY <1>1, <2>3, Zenon DEF AllBefore
  <2>4. CASE /\ i > Len(uOut) /\ i - Len(uOut) \in DOMAIN uBatch
             /\ uOut'[i] = uBatch[i - Len(uOut)]
    <3>1. ~(j \in DOMAIN uOut)
      BY <1>2, <2>1, <2>4
    <3>2. j - Len(uOut) \in DOMAIN uBatch /\ uOut'[j] = uBatch[j - Len(uOut)]
      BY <1>3, <3>1, Zenon
    <3>3. i - Len(uOut) < j - Len(uOut)
      BY <1>2, <2>1
    <3> QED
      BY <1>1, <2>4, <3>2, <3>3, Zenon DEF InOrder
  <2> QED
    BY <1>3, <2>2, <2>3, <2>4, Zenon
<1>5. AllBefore(uOut', uIn) /\ UpTo(uOut', uSent)
  BY <1>1, <1>3 DEF AllBefore, UpTo
<1>6. DOMAIN uBatch' = {} /\ Len(uBatch') = 0
  BY EmptySeq
<1> QED
  BY <1>1, <1>4, <1>5, <1>6, Zenon DEF EchoOrder, InOrder, AllBefore, UpTo

\* A message is written in full if it was read in full.
LEMMA EchoedInFull ==
  ASSUME UdpTypes, NEW n \in 0 .. Len(uBatch), uOut' = uOut \o SubSeq(uBatch, 1, n),
         InFull(uOut), InFull(uBatch)
  PROVE  InFull(uOut')
<1>1. \A i \in DOMAIN uOut' : \/ i \in DOMAIN uOut /\ uOut'[i] = uOut[i]
                              \/ \E j \in DOMAIN uBatch : uOut'[i] = uBatch[j]
  BY EchoedMessages, Zenon
<1> QED
  BY <1>1 DEF InFull

\* A batch, or a part of it, is written.
LEMMA WriteBatchInv == ASSUME UdpInv, WriteBatch PROVE UdpInv'
<1> USE DEF UdpInv
<1>1. PICK n \in 1 .. Len(uBatch) :
        /\ uErrs' = IF n < Len(uBatch) THEN [uErrs EXCEPT !.partial = @ + 1] ELSE uErrs
        /\ uOut' = uOut \o SubSeq(uBatch, 1, n)
        /\ IF n < uRemain THEN uRemain' = uRemain - n /\ UNCHANGED <<uBatch, uBufs>>
           ELSE /\ uRemain' = 0 /\ uBatch' = <<>>
                /\ uBufs' = [i \in DOMAIN uBufs |->
                               IF i <= Len(uBatch) THEN UdpMaxSize ELSE uBufs[i]]
  BY Zenon DEF WriteBatch
<1>2. /\ n \in 0 .. Len(uBatch) /\ n \in Nat /\ Len(uBatch) \in Nat /\ uRemain \in Nat
      /\ UNCHANGED <<srvPc, uEcho, uAdvanced, uIn, uSent>>
      /\ uEcho /\ uErrs.partial \in Nat /\ uErrs.failed \in Nat
  BY MessageTypes DEF WriteBatch, UdpTypes
<1>3. uOut' \in Seq(Messages) /\ Len(uOut') = Len(uOut) + n
  BY <1>1, <1>2, EchoedMessages, Zenon
<1>4. <<>> \in Seq(Messages) /\ Len(<<>>) = 0 /\ InFull(<<>>)
  BY EmptySeq DEF InFull
<1>5. /\ uErrs' \in [failed : Nat, partial : Nat] /\ uErrs'.failed = uErrs.failed
      /\ uErrs'.partial = IF n < Len(uBatch) THEN uErrs.partial + 1 ELSE uErrs.partial
  <2>1. CASE n < Len(uBatch)
    <3>1. uErrs' = [uErrs EXCEPT !.partial = uErrs.partial + 1] /\ uErrs \in [failed : Nat, partial : Nat]
      BY <1>1, <2>1, Zenon DEF UdpTypes
    <3> QED
      BY <2>1, <3>1
  <2>2. CASE ~(n < Len(uBatch))
    BY <1>1, <2>2, Zenon DEF UdpTypes
  <2> QED
    BY <2>1, <2>2, Zenon
<1>6. UdpTypes'
  <2>1. uBufs' \in [1 .. UdpBatch -> Nat]
    BY <1>1, ServersAssumption, Zenon DEF UdpTypes
  <2>2. uBatch' \in Seq(Messages)
    BY <1>1, <1>4, Zenon DEF UdpTypes
  <2>3. uRemain' \in Nat
    BY <1>1, <1>2
  <2> QED
    BY <1>2, <1>3, <1>5, <2>1, <2>2, <2>3, Zenon DEF UdpTypes
<1>7. ASSUME uErrs'.partial = 0
      PROVE  n = Len(uBatch) /\ uErrs.partial = 0 /\ uRemain' = 0 /\ uBatch' = <<>> /\ EchoOrder'
  <2>1. n = Len(uBatch) /\ uErrs.partial = 0
    BY <1>2, <1>5, <1>7
  <2>2. uRemain = Len(uBatch)
    BY <2>1, Zenon DEF EchoOrder
  <2>3. ~(n < uRemain)
    BY <1>2, <2>1, <2>2
  <2>4. uRemain' = 0 /\ uBatch' = <<>>
    BY <1>1, <2>3, Zenon
  <2> QED
    BY <1>1, <1>2, <2>1, <2>4, EchoedOrder, Zenon
<1>8. EchoOrder'
  BY <1>7, Zenon DEF EchoOrder
<1>9. EchoSize'
  <2> SUFFICES ASSUME uErrs.failed = 0
               PROVE  /\ InFull(uBatch') /\ InFull(uOut')
                      /\ srvPc # "returned" =>
                           \A i \in 1 .. UdpBatch : i > Len(uBatch') => uBufs'[i] = UdpMaxSize
    BY <1>2, <1>5 DEF EchoSize, WriteBatch
  <2>1. InFull(uBatch') /\ InFull(uOut')
    BY <1>1, <1>2, <1>4, EchoedInFull, Zenon DEF EchoSize
  <2>2. ASSUME srvPc # "returned", NEW i \in 1 .. UdpBatch, i > Len(uBatch')
        PROVE  uBufs'[i] = UdpMaxSize
    <3>1. i > Len(uBatch) => uBufs[i] = UdpMaxSize
      BY <2>2, Zenon DEF EchoSize
    <3>2. i \in DOMAIN uBufs /\ i \in Nat
      BY DEF UdpTypes
    <3> QED
      BY <1>1, <1>2, <2>2, <3>1, <3>2
  <2> QED
    BY <2>1, <2>2, Zenon
<1>10. EchoAll'
  <2> SUFFICES ASSUME uErrs'.partial + uErrs'.failed = 0, uAdvanced, uEcho, srvPc # "returned"
               PROVE  Len(uOut') + Len(uBatch') + Len(uIn) = uSent
    BY <1>2, Zenon DEF EchoAll
  <2>1. uErrs'.partial = 0 /\ uErrs.failed = 0
    BY <1>2, <1>5
  <2>2. n = Len(uBatch) /\ uErrs.partial = 0 /\ uBatch' = <<>>
    BY <1>7, <2>1, Zenon
  <2>3. Len(uOut) + Len(uBatch) + Len(uIn) = uSent
    BY <2>1, <2>2 DEF EchoAll
  <2> QED
    BY <1>3, <1>4, <2>2, <2>3, MessageTypes
<1> QED
  BY <1>2, <1>6, <1>8, <1>9, <1>10, Zenon

\* A write fails.
LEMMA WriteFailsInv == ASSUME UdpInv, UdpWriteFails PROVE UdpInv'
<1> USE DEF UdpInv
<1>1. /\ uBatch' = <<>> /\ uRemain' = 0 /\ UNCHANGED <<uEcho, uAdvanced, uIn, uBufs, uOut, uSent>>
      /\ \/ srvPc' = "returned" /\ uErrs' = uErrs
         \/ uErrs' = [uErrs EXCEPT !.failed = @ + 1] /\ srvPc' = srvPc
  BY Zenon DEF UdpWriteFails
<1>2. <<>> \in Seq(Messages) /\ Len(<<>>) = 0 /\ \A i : i \notin DOMAIN <<>>
  BY EmptySeq
<1>3. /\ uErrs' \in [failed : Nat, partial : Nat] /\ uErrs'.partial = uErrs.partial
      /\ srvPc' = "returned" \/ uErrs'.failed # 0
      /\ uErrs'.failed = 0 => uErrs.failed = 0
  BY <1>1 DEF UdpTypes
<1>4. UdpTypes'
  BY <1>1, <1>2, <1>3, Zenon DEF UdpTypes
<1>5. EchoOrder'
  BY <1>1, <1>2, <1>3, Zenon DEF EchoOrder, InOrder, AllBefore, UpTo
<1>6. EchoSize'
  BY <1>1, <1>2, <1>3, Zenon DEF EchoSize, InFull
<1>7. EchoAll'
  <2>1. uErrs'.failed \in Nat /\ uErrs'.partial \in Nat
    BY <1>3, Zenon
  <2> QED
    BY <1>3, <2>1 DEF EchoAll
<1> QED
  BY <1>1, <1>4, <1>5, <1>6, <1>7, Zenon

\* A simple read, of a packet that is echoed or is empty.
LEMMA ReadSimpleInv == ASSUME UdpInv, ReadFromUDP PROVE UdpInv'
<1> USE DEF UdpInv
<1>1. /\ uIn # <<>> /\ uIn' = Tail(uIn) /\ uBatch = <<>> /\ ~uAdvanced
      /\ UNCHANGED <<srvPc, uEcho, uAdvanced, uBufs, uOut, uSent, uErrs>> /\ uEcho
      /\ \/ UNCHANGED <<uBatch, uRemain>>
         \/ uBatch' = Read(1, FullBufs) /\ uRemain' = 1
  BY Zenon DEF ReadFromUDP, UdpReading
<1>2. 1 \in Nat /\ 1 <= Len(uIn) /\ uIn' = SubSeq(uIn, 1 + 1, Len(uIn))
  <2>1. Len(uIn) \in Nat \ {0} /\ uIn' = SubSeq(uIn, 2, Len(uIn))
    BY <1>1, EmptySeq, TailIsSubSeq, Zenon DEF UdpTypes
  <2> QED
    BY <2>1
<1>3. uIn' \in Seq(Arrived)
  BY <1>2, TakenFrom, Zenon
<1>4. CASE UNCHANGED <<uBatch, uRemain>>
  <2>1. UdpTypes'
    BY <1>1, <1>3, <1>4, Zenon DEF UdpTypes
  <2>2. EchoOrder'
    BY <1>1, <1>2, <1>4, TakenOrder, Zenon DEF EchoOrder
  <2>3. EchoSize' /\ EchoAll'
    BY <1>1, <1>4, Zenon DEF EchoSize, EchoAll
  <2> QED
    BY <1>1, <1>4, <2>1, <2>2, <2>3, Zenon
<1>5. CASE uBatch' = Read(1, FullBufs) /\ uRemain' = 1
  <2>1. \A i \in 1 .. 1 : FullBufs[i] = UdpMaxSize /\ FullBufs[i] \in Nat
    BY ServersAssumption DEF FullBufs
  <2>2. /\ uBatch' \in Seq(Messages) /\ Len(uBatch') = 1 /\ DOMAIN uBatch' = 1 .. 1
        /\ \A i \in 1 .. 1 : /\ i \in DOMAIN uIn /\ uBatch'[i].id = uIn[i].id
                             /\ uBatch'[i].size = uIn[i].size
                             /\ uBatch'[i].n = IF uIn[i].size > FullBufs[i] THEN FullBufs[i]
                                               ELSE uIn[i].size
    BY <1>2, <1>5, <2>1, ReadIs, Zenon
  <2>3. UdpTypes'
    BY <1>1, <1>3, <1>5, <2>2, Zenon DEF UdpTypes
  <2>4. EchoOrder'
    BY <1>1, <1>2, <1>5, <2>2, ReadOrder, Zenon
  <2>5. InFull(uBatch')
    BY <2>1, <2>2, Zenon DEF InFull
  <2>6. EchoSize'
    <3>1. Len(uBatch) = 0
      BY <1>1, EmptySeq, Zenon
    <3> QED
      BY <1>1, <2>2, <2>5, <3>1, Zenon DEF EchoSize
  <2>7. EchoAll'
    BY <1>1, Zenon DEF EchoAll
  <2> QED
    BY <1>1, <2>3, <2>4, <2>6, <2>7, Zenon
<1> QED
  BY <1>1, <1>4, <1>5, Zenon

\* A simple write.
LEMMA WriteSimpleInv == ASSUME UdpInv, WriteToUDP PROVE UdpInv'
<1> USE DEF UdpInv
<1>1. /\ uOut' = uOut \o uBatch /\ uBatch' = <<>> /\ uRemain' = 0 /\ ~uAdvanced /\ uEcho
      /\ UNCHANGED <<srvPc, uEcho, uAdvanced, uIn, uBufs, uSent, uErrs>>
  BY Zenon DEF WriteToUDP
<1>2. uOut' = uOut \o SubSeq(uBatch, 1, Len(uBatch)) /\ Len(uBatch) \in 0 .. Len(uBatch)
  BY <1>1, SubSeqFull, MessageTypes DEF UdpTypes
<1>3. uOut' \in Seq(Messages)
  BY <1>2, EchoedMessages, Zenon
<1>4. <<>> \in Seq(Messages) /\ Len(<<>>) = 0 /\ \A i : i \notin DOMAIN <<>>
  BY EmptySeq
<1>5. UdpTypes'
  BY <1>1, <1>3, <1>4, Zenon DEF UdpTypes
<1>6. EchoOrder'
  <2>1. CASE uErrs.partial = 0
    BY <1>1, <1>2, <2>1, EchoedOrder, Zenon
  <2>2. CASE uErrs.partial # 0
    BY <1>1, <2>2, Zenon DEF EchoOrder
  <2> QED
    BY <2>1, <2>2, Zenon
<1>7. EchoSize'
  <2>1. uErrs.failed = 0 => InFull(uOut')
    BY <1>2, EchoedInFull, Zenon DEF EchoSize
  <2> QED
    BY <1>1, <1>4, <2>1, Zenon DEF EchoSize, InFull
<1>8. EchoAll'
  BY <1>1, Zenon DEF EchoAll
<1> QED
  BY <1>1, <1>5, <1>6, <1>7, <1>8, Zenon

\* A DISCARD server reads.
LEMMA DiscardInv == ASSUME UdpInv, UdpDiscard PROVE UdpInv'
<1> USE DEF UdpInv
<1>1. PICK n \in Nat : n <= Len(uIn) /\ uIn' = SubSeq(uIn, n + 1, Len(uIn))
  BY ServersAssumption DEF UdpDiscard
<1>2. UNCHANGED <<srvPc, uEcho, uAdvanced, uBufs, uBatch, uRemain, uOut, uSent, uErrs>> /\ ~uEcho
  BY Zenon DEF UdpDiscard
<1>3. uIn' \in Seq(Arrived)
  BY <1>1, TakenFrom, Zenon
<1>4. UdpTypes'
  BY <1>2, <1>3, Zenon DEF UdpTypes
<1>5. EchoOrder'
  BY <1>1, <1>2, TakenOrder, Zenon DEF EchoOrder
<1>6. EchoSize' /\ EchoAll'
  BY <1>2, Zenon DEF EchoSize, EchoAll
<1> QED
  BY <1>2, <1>4, <1>5, <1>6, Zenon

\* Other steps leave the state of the UDP server alone, and Start does not begin
\* again.
LEMMA OtherUdp ==
  ASSUME UdpInv, UNCHANGED udpSrvVars, srvPc' = "returned" \/ srvPc # "returned"
  PROVE  UdpInv'
  BY Zenon DEF UdpInv, udpSrvVars, UdpTypes, EchoOrder, EchoSize, EchoAll

\* One more request only adds to counts.
LEMMA CountsGrow ==
  ASSUME NEW k \in Counts, NEW p \in DOMAIN HttpPaths
  PROVE  IncKey(k, p) \in Counts /\ \A m \in Counts : Leq(m, k) => Leq(m, IncKey(k, p))
<1>1. PICK S \in SUBSET DOMAIN HttpPaths : k \in [S -> Nat]
  BY Zenon DEF Counts
<1>2. PICK f : f = IncKey(k, p)
  BY Zenon
<1>3. /\ f = [q \in S \union {p} |->
                (IF q \in S THEN k[q] ELSE 0) + (IF q = p THEN 1 ELSE 0)]
  BY <1>1, <1>2, Zenon DEF IncKey
<1>4. f \in [S \union {p} -> Nat]
  BY <1>1, <1>3
<1>5. \A q \in S : q \in DOMAIN f /\ k[q] <= f[q] /\ k[q] \in Nat /\ f[q] \in Nat
  BY <1>1, <1>3, <1>4
<1>6. ASSUME NEW m \in Counts, Leq(m, k) PROVE Leq(m, f)
  <2> SUFFICES ASSUME NEW q \in DOMAIN m PROVE q \in DOMAIN f /\ m[q] <= f[q]
    BY Zenon DEF Leq
  <2>1. m[q] \in Nat
    BY DEF Counts
  <2>2. q \in S /\ m[q] <= k[q]
    BY <1>1, <1>6, Zenon DEF Leq
  <2> QED
    BY <1>5, <2>1, <2>2
<1>7. f \in Counts
  BY <1>4, Zenon DEF Counts
<1> QED
  BY <1>2, <1>6, <1>7, Zenon

\* A request, an export and the surfacers.
LEMMA HttpStepInv ==
  ASSUME HttpInv, HttpRequest \/ HttpExport \/ HttpSurface
  PROVE  HttpInv'
<1> USE DEF HttpInv
<1>0. DOMAIN wChan = 1 .. Len(wChan) /\ Len(wChan) \in Nat /\ \A i \in DOMAIN wChan : wChan[i] \in Counts
  BY LenProperties, ElementOfSeq, Zenon
<1>1. CASE HttpRequest
  <2>1. PICK p \in DOMAIN HttpPaths : wReq' = wReq \/ wReq' = IncKey(wReq, p)
    BY <1>1, Zenon DEF HttpRequest, HttpHandler
  <2>2. wChan' = wChan
    BY <1>1, Zenon DEF HttpRequest
  <2> QED
    BY <1>0, <2>1, <2>2, CountsGrow, Zenon
<1>2. CASE HttpExport
  <2>1. wChan' = Append(wChan, wReq) /\ wReq' = wReq
    BY <1>2, Zenon DEF HttpExport
  <2>2. /\ wChan' \in Seq(Counts) /\ Len(wChan') = Len(wChan) + 1
        /\ \A i \in 1 .. Len(wChan) : wChan'[i] = wChan[i]
        /\ wChan'[Len(wChan) + 1] = wReq
    BY <2>1, AppendProperties
  <2>3. DOMAIN wChan' = 1 .. Len(wChan) + 1
    BY <2>2, LenProperties, Zenon
  <2>4. Leq(wReq, wReq)
    <3>1. \A q \in DOMAIN wReq : wReq[q] \in Nat
      BY Zenon DEF Counts
    <3> QED
      BY <3>1 DEF Leq
  <2> QED
    BY <1>0, <2>1, <2>2, <2>3, <2>4
<1>3. CASE HttpSurface
  <2>1. wChan # <<>> /\ wChan' = Tail(wChan) /\ wReq' = wReq
    BY <1>3, Zenon DEF HttpSurface
  <2>2. /\ wChan' \in Seq(Counts) /\ Len(wChan') = Len(wChan) - 1
        /\ \A i \in 1 .. Len(wChan') : wChan'[i] = wChan[i + 1]
    BY <2>1, HeadTailProperties, Zenon
  <2>3. DOMAIN wChan' = 1 .. Len(wChan')
    BY <2>2, LenProperties, Zenon
  <2> QED
    BY <1>0, <2>1, <2>2, <2>3
<1> QED
  BY <1>1, <1>2, <1>3, Zenon

\* Every step of a server preserves the invariant.
LEMMA ServersStep == ServersInv /\ [SrvsNext]_srvVars => ServersInv'
<1> SUFFICES ASSUME ServersInv, [SrvsNext]_srvVars PROVE ServersInv'
  BY Zenon
<1> USE DEF ServersInv
<1>1. CASE UNCHANGED httpSrvVars
  <2>1. HttpInv'
    BY <1>1, Zenon DEF HttpInv, httpSrvVars
  <2>2. CASE UdpArrive \/ ReadBatch \/ WriteBatch \/ UdpWriteFails \/ ReadFromUDP \/ WriteToUDP
             \/ UdpDiscard
    BY <2>1, <2>2, ArriveInv, ReadBatchInv, WriteBatchInv, WriteFailsInv, ReadSimpleInv,
       WriteSimpleInv, DiscardInv, Zenon
  <2>3. CASE SrvStart \/ SrvCancel \/ SrvClose \/ CommandEnds \/ UdpReturn \/ HttpReturn
    <3>1. UNCHANGED udpSrvVars /\ (srvPc' = "returned" \/ srvPc # "returned" \/ srvPc' = srvPc)
      BY <2>3, Zenon DEF SrvStart, SrvCancel, SrvClose, CommandEnds, UdpReturn, HttpReturn
    <3> QED
      BY <2>1, <3>1, OtherUdp, Zenon
  <2>4. CASE GrpcServing \/ GrpcNotServing \/ GrpcStop \/ GrpcReturn
    <3>1. UNCHANGED udpSrvVars /\ (srvPc' = "returned" \/ srvPc' = srvPc)
      BY <2>4, Zenon DEF Grpc, GrpcServing, GrpcNotServing, GrpcStop, GrpcReturn
    <3> QED
      BY <2>1, <3>1, OtherUdp, Zenon
  <2>5. CASE HttpRequest \/ HttpLameduck \/ HttpExport \/ HttpSurface \/ UNCHANGED srvVars
    <3>1. UNCHANGED udpSrvVars /\ srvPc' = srvPc
      BY <2>5, Zenon DEF HttpRequest, HttpLameduck, HttpExport, HttpSurface, srvVars
    <3> QED
      BY <2>1, <3>1, OtherUdp, Zenon
  <2> QED
    BY <2>2, <2>3, <2>4, <2>5, Zenon DEF SrvsNext
<1>2. CASE HttpRequest \/ HttpExport \/ HttpSurface \/ HttpLameduck
  <2>1. UNCHANGED udpSrvVars /\ srvPc' = srvPc
    BY <1>2, Zenon DEF HttpRequest, HttpExport, HttpSurface, HttpLameduck
  <2>2. UdpInv'
    BY <2>1, OtherUdp, Zenon
  <2>3. HttpInv'
    <3>1. CASE HttpLameduck
      BY <3>1, Zenon DEF HttpLameduck, HttpInv
    <3> QED
      BY <1>2, <3>1, HttpStepInv, Zenon
  <2> QED
    BY <2>2, <2>3, Zenon
<1>3. CASE ~(HttpRequest \/ HttpExport \/ HttpSurface \/ HttpLameduck)
  <2>1. UNCHANGED httpSrvVars
    BY <1>3, Zenon DEF SrvsNext, SrvStart, SrvCancel, SrvClose, CommandEnds, UdpArrive, ReadBatch,
       WriteBatch, UdpWriteFails, ReadFromUDP, WriteToUDP, UdpDiscard, UdpReturn, HttpReturn,
       GrpcServing, GrpcNotServing, GrpcStop, GrpcReturn, Grpc, srvVars
  <2> QED
    BY <1>1, <2>1, Zenon
<1> QED
  BY <1>2, <1>3, Zenon

\* Servers: a UDP packet is echoed at most once and in full until a write goes
\* wrong, whatever the sizes of packets, batches and buffers, and counts of HTTP
\* requests never fall behind those that were exported (udp.go readAndEchoBatch and
\* readAndEchoSimple, http.go statsKeeper).
THEOREM EchoesAreRight == SrvsSpec => []EchoedOnce
<1>1. ServersInv => EchoedOnce
  <2> SUFFICES ASSUME ServersInv PROVE EchoedOnce
    BY Zenon
  <2> USE DEF ServersInv, UdpInv
  <2>1. ASSUME uErrs.partial = 0, NEW i \in DOMAIN uOut PROVE Times(uOut[i].id) = 1
    <3>1. InOrder(uOut)
      BY <2>1, Zenon DEF EchoOrder
    <3>2. \A j \in DOMAIN uOut : uOut[j].id = uOut[i].id => j = i
      BY <3>1, MessageTypes DEF InOrder
    <3>3. {j \in DOMAIN uOut : uOut[j].id = uOut[i].id} = {i}
      BY <3>2, Zenon
    <3> QED
      BY <3>3, FS_Singleton, Zenon DEF Times
  <2>2. uErrs.failed = 0 =>
          \A i \in DOMAIN uOut :
            uOut[i].n = (IF uOut[i].size > UdpMaxSize THEN UdpMaxSize ELSE uOut[i].size)
    BY Zenon DEF EchoSize, InFull
  <2>3. uErrs.partial + uErrs.failed = 0 /\ uBatch = <<>> /\ uAdvanced /\ uEcho /\ srvPc = "running" =>
          Len(uOut) + Len(uIn) = uSent
    BY EmptySeq, MessageTypes DEF EchoAll
  <2> QED
    BY <2>1, <2>2, <2>3, Zenon DEF EchoedOnce, HttpInv
<1> QED
  BY <1>1, ServersInitInv, ServersStep, PTL DEF SrvsSpec

-----------------------------------------------------------------------------
(* Alerting *)

TargetStates ==
  [lastTotal : Nat, lastSuccess : Nat, failures : [1 .. AlertTotal -> BOOLEAN],
   alerted : BOOLEAN, alertTS : Int, conditionID : Int, failingSince : Int]

AlertTypes ==
  /\ aKnown \in BOOLEAN /\ aOdd \in BOOLEAN
  /\ aState \in TargetStates
  /\ aLoop \in [total : Nat, success : Nat]
  /\ aSamples \in Seq(BOOLEAN) /\ Len(aSamples) <= AlertTotal
  /\ aNow \in Int

\* The window has the samples at its end, and no failure before them.
WindowHas(failures, samples) ==
  \A i \in 1 .. AlertTotal :
    failures[i] <=> (i > AlertTotal - Len(samples) /\ samples[i - (AlertTotal - Len(samples))])

\* A target state is that of the loop that exports, and its window that of the samples.
InStep ==
  /\ ~aKnown => aSamples = <<>> /\ ~aOdd /\ ~aState.alerted
  /\ aKnown => aState.lastTotal = aLoop.total /\ aState.lastSuccess = aLoop.success
  /\ ~aOdd => /\ WindowHas(aState.failures, aSamples)
              /\ aSamples # <<>> => (aState.alerted <=> Failed(aState.failures) >= AlertFailures)

\* What an alert has been notified of.
Noted ==
  /\ aState.alerted =>
       /\ aNotified.conditionID = aState.conditionID /\ aNotified.since = aState.failingSince
       /\ aState.conditionID = aState.failingSince /\ aNotified.failures >= AlertFailures
       /\ aCommand = "words" => aStarted = aNotified
       /\ aState.alertTS = aNotedAt
       /\ ~aReset => aNow - aNotedAt <= RepeatInterval
  /\ aDead => aCommand = "blank"

AlertInv == AlertTypes /\ InStep /\ Noted

\* A function on 1 .. n is a sequence of length n.
LEMMA FunctionIsSeq ==
  ASSUME NEW S, NEW n \in Nat, NEW f \in [1 .. n -> S]
  PROVE  f \in Seq(S) /\ Len(f) = n
<1>1. f \in Seq(S)
  BY SeqDef, Zenon
<1>2. DOMAIN f = 1 .. n /\ DOMAIN f = 1 .. Len(f) /\ Len(f) \in Nat
  BY <1>1, LenProperties, Zenon
<1> QED
  BY <1>1, <1>2

\* Samples are failures from some number on.
LEMMA SamplesAre ==
  ASSUME NEW n \in Nat, NEW c \in Int
  PROVE  /\ Samples(n, c) \in Seq(BOOLEAN) /\ Len(Samples(n, c)) = n
         /\ \A i \in 1 .. n : Samples(n, c)[i] <=> i > c
<1>1. Samples(n, c) \in [1 .. n -> BOOLEAN]
  <2>1. \A i \in 1 .. n : (i > c) \in BOOLEAN
    OBVIOUS
  <2> QED
    BY <2>1, Zenon DEF Samples
<1>2. \A i \in 1 .. n : Samples(n, c)[i] <=> i > c
  BY Zenon DEF Samples
<1> QED
  BY <1>1, <1>2, FunctionIsSeq, Zenon

\* The window after some samples, bucket by bucket.
LEMMA WindowAt ==
  ASSUME NEW f \in [1 .. AlertTotal -> BOOLEAN], NEW n \in Nat, NEW s \in Int
  PROVE  /\ Window(f, n, s) \in [1 .. AlertTotal -> BOOLEAN]
         /\ \A i \in 1 .. AlertTotal :
              Window(f, n, s)[i] <=>
                IF i + n <= AlertTotal THEN f[i + n] ELSE i + n - AlertTotal > Lesser(s, n)
<1>1. PICK taken \in Nat : taken = Lesser(n, AlertTotal) /\ taken <= AlertTotal /\ taken <= n
  BY AlertAssumption DEF Lesser
<1>2. PICK c \in Int : c = Lesser(s, n) - (n - taken)
  BY <1>1 DEF Lesser
<1>3. PICK a : a = SubSeq(f, taken + 1, AlertTotal)
  BY Zenon
<1>4. PICK b : b = Samples(taken, c)
  BY Zenon
<1>5. /\ a \in Seq(BOOLEAN) /\ Len(a) = AlertTotal - taken
      /\ \A i \in 1 .. AlertTotal - taken : a[i] = f[i + taken]
  <2>1. taken + 1 \in Int /\ AlertTotal \in Int /\ \A i \in taken + 1 .. AlertTotal : f[i] \in BOOLEAN
    BY <1>1, AlertAssumption
  <2>2. /\ SubSeq(f, taken + 1, AlertTotal) \in Seq(BOOLEAN)
        /\ Len(SubSeq(f, taken + 1, AlertTotal)) =
             IF taken + 1 <= AlertTotal THEN AlertTotal - (taken + 1) + 1 ELSE 0
        /\ \A i \in 1 .. AlertTotal - (taken + 1) + 1 :
             SubSeq(f, taken + 1, AlertTotal)[i] = f[taken + 1 + i - 1]
    BY <2>1, SubSeqProperties
  <2>3. \A i \in Int : taken + 1 + i - 1 = i + taken
    OBVIOUS
  <2>4. Len(a) = AlertTotal - taken
    BY <1>1, <1>3, <2>1, <2>2
  <2>5. AlertTotal - (taken + 1) + 1 = AlertTotal - taken
    BY <2>1
  <2>6. \A i \in 1 .. AlertTotal - taken : a[i] = f[i + taken]
    BY <1>3, <2>2, <2>3, <2>5
  <2> QED
    BY <1>3, <2>2, <2>4, <2>6, Zenon
<1>6. b \in Seq(BOOLEAN) /\ Len(b) = taken /\ \A i \in 1 .. taken : b[i] <=> i > c
  BY <1>4, SamplesAre, Zenon
<1>7. Window(f, n, s) = a \o b
  BY <1>1, <1>2, <1>3, <1>4, Zenon DEF Window
<1>8. /\ a \o b \in Seq(BOOLEAN) /\ Len(a \o b) = AlertTotal
      /\ \A i \in 1 .. AlertTotal :
           (a \o b)[i] = IF i <= AlertTotal - taken THEN a[i] ELSE b[i - (AlertTotal - taken)]
  <2>1. /\ a \o b \in Seq(BOOLEAN) /\ Len(a \o b) = Len(a) + Len(b)
        /\ \A i \in 1 .. Len(a) + Len(b) :
             (a \o b)[i] = IF i <= Len(a) THEN a[i] ELSE b[i - Len(a)]
    BY <1>5, <1>6, ConcatProperties, Zenon
  <2>2. Len(a) + Len(b) = AlertTotal
    BY <1>1, <1>5, <1>6, AlertAssumption
  <2> QED
    BY <1>5, <2>1, <2>2, Zenon
<1>9. a \o b \in [1 .. AlertTotal -> BOOLEAN]
  BY <1>8, LenProperties, Zenon
<1>10. ASSUME NEW i \in 1 .. AlertTotal
       PROVE  (a \o b)[i] <=> IF i + n <= AlertTotal THEN f[i + n] ELSE i + n - AlertTotal > Lesser(s, n)
  <2>1. CASE n <= AlertTotal
    <3>1. taken = n /\ c = Lesser(s, n)
      BY <1>1, <1>2, <2>1, AlertAssumption DEF Lesser
    <3>2. CASE i + n <= AlertTotal
      BY <1>5, <1>8, <3>1, <3>2, AlertAssumption
    <3>3. CASE ~(i + n <= AlertTotal)
      <4>1. i - (AlertTotal - taken) \in 1 .. taken /\ ~(i <= AlertTotal - taken)
        BY <3>1, <3>3, AlertAssumption
      <4>2. i - (AlertTotal - taken) = i + n - AlertTotal
        BY <3>1, AlertAssumption
      <4> QED
        BY <1>6, <1>8, <3>1, <3>3, <4>1, <4>2, Zenon
    <3> QED
      BY <3>2, <3>3, Zenon
  <2>2. CASE ~(n <= AlertTotal)
    <3>1. taken = AlertTotal
      BY <1>1, <2>2, AlertAssumption, Zenon DEF Lesser
    <3>2. ~(i <= AlertTotal - taken) /\ i - (AlertTotal - taken) = i /\ ~(i + n <= AlertTotal)
      BY <2>2, <3>1, AlertAssumption
    <3>3. (a \o b)[i] <=> i > c
      BY <1>6, <1>8, <3>1, <3>2, Zenon
    <3>4. Lesser(s, n) \in Int
      BY DEF Lesser
    <3>5. i > c <=> i + n - AlertTotal > Lesser(s, n)
      BY <1>2, <3>1, <3>4, AlertAssumption
    <3> QED
      BY <3>2, <3>3, <3>5, Zenon
  <2> QED
    BY <2>1, <2>2, Zenon
<1> QED
  BY <1>7, <1>9, <1>10, Zenon

\* As many failures are in the window as among the samples.
LEMMA FailedAreSamples ==
  ASSUME NEW f \in [1 .. AlertTotal -> BOOLEAN], NEW s \in Seq(BOOLEAN), Len(s) <= AlertTotal,
         WindowHas(f, s)
  PROVE  (Failed(f) >= AlertFailures) = Failing(s)
<1> DEFINE k == AlertTotal - Len(s)
           A == {i \in DOMAIN s : s[i]}
           B == {i \in DOMAIN f : f[i]}
           g == [i \in A |-> i + k]
<1>1. /\ Len(s) \in Nat /\ DOMAIN s = 1 .. Len(s) /\ DOMAIN f = 1 .. AlertTotal
      /\ k \in Nat /\ k = AlertTotal - Len(s) /\ AlertTotal \in Nat
  BY LenProperties, AlertAssumption
<1>2. \A i \in 1 .. AlertTotal : f[i] <=> i > k /\ s[i - k]
  BY Zenon DEF WindowHas
<1> HIDE DEF k
<1>3. \A i \in A : i + k \in B
  <2> TAKE i \in A
  <2>1. i + k \in 1 .. AlertTotal /\ i + k > k /\ i + k - k = i
    BY <1>1
  <2> QED
    BY <1>1, <1>2, <2>1
<1>4. \A j \in B : j - k \in A /\ j - k + k = j
  <2> TAKE j \in B
  <2>1. j \in 1 .. AlertTotal /\ (f[j] <=> j > k /\ s[j - k]) /\ f[j]
    BY <1>1, <1>2, Zenon
  <2>2. j > k /\ s[j - k]
    BY <2>1, Zenon
  <2>3. j - k \in 1 .. Len(s) /\ j - k + k = j
    BY <1>1, <2>1, <2>2
  <2> QED
    BY <1>1, <2>2, <2>3, Zenon
<1>5. g \in Bijection(A, B)
  <2>1. g \in [A -> B] /\ \A i \in A : g[i] = i + k
    BY <1>3, Zenon
  <2>2. \A i, j \in A : g[i] = g[j] => i = j
    BY <1>1, <2>1
  <2>3. \A j \in B : \E i \in A : g[i] = j
    BY <1>4, <2>1, Zenon
  <2> QED
    BY <2>1, <2>2, <2>3, Zenon DEF Bijection, Injection, Surjection, IsInjective
<1>6. IsFiniteSet(A)
  <2>1. IsFiniteSet(1 .. Len(s))
    BY <1>1, FS_Interval
  <2> QED
    BY <1>1, <2>1, FS_Subset, Zenon
<1>7. Cardinality(B) = Cardinality(A)
  BY <1>5, <1>6, FS_Bijection, Zenon DEF ExistsBijection
<1> QED
  BY <1>7, Zenon DEF Failed, Failing

\* The last of some samples: no more than the window has.
LEMMA LastOfTypes ==
  ASSUME NEW s \in Seq(BOOLEAN), NEW n \in Nat, NEW ok \in Nat
  PROVE  LET new == LastOf(s \o Samples(n, ok))
         IN new \in Seq(BOOLEAN) /\ Len(new) <= AlertTotal
<1>1. PICK c \in Seq(BOOLEAN) : c = s \o Samples(n, ok)
  <2>1. ok \in Int
    OBVIOUS
  <2>2. Samples(n, ok) \in Seq(BOOLEAN)
    BY <2>1, SamplesAre, Zenon
  <2>3. s \o Samples(n, ok) \in Seq(BOOLEAN)
    BY <2>2, ConcatProperties, Zenon
  <2> QED
    BY <2>3, Zenon
<1>2. PICK m \in Nat : m = Len(c)
  BY LenProperties, Zenon
<1>3. PICK l \in Nat : l = Lesser(m, AlertTotal) /\ l <= m /\ l <= AlertTotal
  BY AlertAssumption DEF Lesser
<1>4. LastOf(c) = SubSeq(c, m - l + 1, m)
  BY <1>2, <1>3, Zenon DEF LastOf
<1>5. m - l + 1 \in Int /\ m \in Int /\ \A i \in m - l + 1 .. m : c[i] \in BOOLEAN
  BY <1>2, <1>3, ElementOfSeq
<1>6. /\ LastOf(c) \in Seq(BOOLEAN)
      /\ Len(LastOf(c)) = IF m - l + 1 <= m THEN m - (m - l + 1) + 1 ELSE 0
  BY <1>4, <1>5, SubSeqProperties
<1>7. Len(LastOf(c)) <= AlertTotal
  BY <1>3, <1>6, AlertAssumption
<1> QED
  BY <1>1, <1>6, <1>7, Zenon

\* The window after an EventMetrics still has the last samples, and only those.
LEMMA WindowGoesOn ==
  ASSUME NEW f \in [1 .. AlertTotal -> BOOLEAN], NEW s \in Seq(BOOLEAN), Len(s) <= AlertTotal,
         WindowHas(f, s), NEW n \in Nat, NEW ok \in Nat, ok <= n
  PROVE  LET new == LastOf(s \o Samples(n, ok))
         IN new \in Seq(BOOLEAN) /\ Len(new) <= AlertTotal /\ WindowHas(Window(f, n, ok), new)
<1>1. Len(s) \in Nat /\ DOMAIN s = 1 .. Len(s) /\ AlertTotal \in Nat
  BY LenProperties, AlertAssumption, Zenon
<1>2. PICK b : b = Samples(n, ok)
  BY Zenon
<1>3. b \in Seq(BOOLEAN) /\ Len(b) = n /\ \A i \in 1 .. n : b[i] <=> i > ok
  BY <1>2, SamplesAre
<1>4. PICK c : c = s \o b
  BY Zenon
<1>5. PICK m \in Nat : m = Len(s) + n
  BY <1>1
<1>6. /\ c \in Seq(BOOLEAN) /\ Len(c) = m
      /\ \A i \in 1 .. m : c[i] = IF i <= Len(s) THEN s[i] ELSE b[i - Len(s)]
  BY <1>3, <1>4, <1>5, ConcatProperties, Zenon
<1>7. PICK l \in Nat : l = Lesser(m, AlertTotal) /\ l <= m /\ l <= AlertTotal
  BY <1>1 DEF Lesser
<1>8. PICK new : new = LastOf(c)
  BY Zenon
<1>9. new \in Seq(BOOLEAN) /\ Len(new) = l /\ \A i \in 1 .. l : new[i] = c[m - l + i]
  <2>1. new = SubSeq(c, m - l + 1, m)
    BY <1>6, <1>7, <1>8, Zenon DEF LastOf
  <2>2. m - l + 1 \in Int /\ m \in Int /\ \A i \in m - l + 1 .. m : c[i] \in BOOLEAN
    BY <1>6, <1>7, ElementOfSeq
  <2>3. PICK k \in Int : k = m - l + 1
    BY <2>2, Zenon
  <2>4. \A i \in k .. m : c[i] \in BOOLEAN
    BY <2>2, <2>3, Zenon
  <2>5. /\ SubSeq(c, k, m) \in Seq(BOOLEAN)
        /\ Len(SubSeq(c, k, m)) = IF k <= m THEN m - k + 1 ELSE 0
        /\ \A i \in 1 .. m - k + 1 : SubSeq(c, k, m)[i] = c[k + i - 1]
    BY ONLY k \in Int, m \in Int, <2>4, SubSeqProperties
  <2>6. /\ new \in Seq(BOOLEAN) /\ Len(new) = IF k <= m THEN m - k + 1 ELSE 0
        /\ \A i \in 1 .. m - k + 1 : new[i] = c[k + i - 1]
    BY <2>1, <2>3, <2>5, Zenon
  <2>7. m - k + 1 = l /\ (k <= m <=> l # 0) /\ \A i \in 1 .. l : k + i - 1 = m - l + i
    BY <2>3
  <2>8. Len(new) = l
    BY <2>6, <2>7, Zenon
  <2> QED
    BY <2>6, <2>7, <2>8, Zenon
<1>10. ASSUME NEW i \in 1 .. AlertTotal
       PROVE  Window(f, n, ok)[i] <=> (i > AlertTotal - l /\ new[i - (AlertTotal - l)])
  <2>1. Window(f, n, ok)[i] <=> IF i + n <= AlertTotal THEN f[i + n] ELSE i + n - AlertTotal > Lesser(ok, n)
    <3>1. ok \in Int
      OBVIOUS
    <3>2. \A j \in 1 .. AlertTotal :
            Window(f, n, ok)[j] <=>
              IF j + n <= AlertTotal THEN f[j + n] ELSE j + n - AlertTotal > Lesser(ok, n)
      BY <3>1, WindowAt, Zenon
    <3> QED
      BY <3>2, Zenon
  <2>2. Lesser(ok, n) = ok
    BY DEF Lesser
  <2>3. i > AlertTotal - l => /\ i - (AlertTotal - l) \in 1 .. l /\ i + m - AlertTotal \in 1 .. m
                              /\ m - l + (i - (AlertTotal - l)) = i + m - AlertTotal
    BY <1>1, <1>7
  <2>4. i > AlertTotal - l => new[i - (AlertTotal - l)] = c[i + m - AlertTotal]
    BY <1>9, <2>3, Zenon
  <2>5. CASE i + n <= AlertTotal
    <3>1. i + n \in 1 .. AlertTotal
      BY <1>1, <2>5
    <3>2. f[i + n] <=> (i + n > AlertTotal - Len(s) /\ s[i + n - (AlertTotal - Len(s))])
      <4>1. PICK j \in 1 .. AlertTotal : j = i + n
        BY <3>1, Zenon
      <4>2. f[j] <=> (j > AlertTotal - Len(s) /\ s[j - (AlertTotal - Len(s))])
        BY Zenon DEF WindowHas
      <4> QED
        BY <1>1, <4>1, <4>2
    <3>3. i + n > AlertTotal - Len(s) <=> i > AlertTotal - l
      BY <1>1, <1>5, <1>7, <2>5 DEF Lesser
    <3>4. i + n - (AlertTotal - Len(s)) = i + m - AlertTotal /\ i + m - AlertTotal <= Len(s)
      BY <1>1, <1>5, <2>5
    <3>5. i > AlertTotal - l => c[i + m - AlertTotal] = s[i + n - (AlertTotal - Len(s))]
      BY <1>6, <2>3, <3>4, Zenon
    <3> QED
      BY <2>1, <2>4, <2>5, <3>2, <3>3, <3>5, Zenon
  <2>6. CASE ~(i + n <= AlertTotal)
    <3>1. i > AlertTotal - l
      BY <1>1, <1>5, <1>7, <2>6 DEF Lesser
    <3>2. /\ ~(i + m - AlertTotal <= Len(s)) /\ i + m - AlertTotal - Len(s) = i + n - AlertTotal
          /\ i + n - AlertTotal \in 1 .. n
      BY <1>1, <1>5, <2>6
    <3>3. c[i + m - AlertTotal] = b[i + n - AlertTotal]
      <4>1. PICK q \in 1 .. m : q = i + m - AlertTotal
        BY <2>3, <3>1, Zenon
      <4>2. c[q] = b[q - Len(s)]
        BY <1>6, <3>2, <4>1, Zenon
      <4> QED
        BY <1>1, <3>2, <4>1, <4>2
    <3>4. b[i + n - AlertTotal] <=> i + n - AlertTotal > ok
      BY <1>3, <3>2, Zenon
    <3> QED
      <4>1. Window(f, n, ok)[i] <=> i + n - AlertTotal > ok
        BY <2>1, <2>2, <2>6, Zenon
      <4>2. new[i - (AlertTotal - l)] <=> i + n - AlertTotal > ok
        BY <2>4, <3>1, <3>3, <3>4, Zenon
      <4> QED
        BY <3>1, <4>1, <4>2, Zenon
  <2> QED
    BY <2>5, <2>6, Zenon
<1>11. WindowHas(Window(f, n, ok), new)
  BY <1>9, <1>10, Zenon DEF WindowHas
<1> QED
  BY <1>2, <1>4, <1>7, <1>8, <1>9, <1>11, Zenon

\* AlertInv holds initially.
LEMMA AlertInitInv == AlertInit => AlertInv
<1> SUFFICES ASSUME AlertInit PROVE AlertInv
  BY Zenon
<1>1. [i \in 1 .. AlertTotal |-> FALSE] \in [1 .. AlertTotal -> BOOLEAN]
  BY Zenon
<1>2. aState \in TargetStates /\ aState.alerted = FALSE
      /\ aState.failures = [i \in 1 .. AlertTotal |-> FALSE]
  BY <1>1 DEF AlertInit, NewTargetState, TargetStates
<1>3. aSamples = <<>> /\ aSamples \in Seq(BOOLEAN) /\ Len(aSamples) = 0
  BY EmptySeq, Zenon DEF AlertInit
<1>4. AlertTypes
  <2>1. aLoop \in [total : Nat, success : Nat] /\ aNow \in Int /\ Len(aSamples) <= AlertTotal
    BY <1>3, AlertAssumption DEF AlertInit
  <2>2. aKnown \in BOOLEAN /\ aOdd \in BOOLEAN
    BY Zenon DEF AlertInit
  <2> QED
    BY <1>2, <1>3, <2>1, <2>2, Zenon DEF AlertTypes
<1>5. InStep
  <2>1. \A i \in 1 .. AlertTotal : ~(i > AlertTotal - 0) /\ aState.failures[i] = FALSE
    BY <1>2, AlertAssumption
  <2>2. WindowHas(aState.failures, aSamples)
    BY <1>3, <2>1, Zenon DEF WindowHas
  <2> QED
    BY <1>2, <1>3, <2>2, Zenon DEF AlertInit, InStep
<1>6. Noted
  BY <1>2, Zenon DEF AlertInit, Noted
<1> QED
  BY <1>4, <1>5, <1>6, Zenon DEF AlertInv

\* What a step of AlertExport has in hand: the counters exported and the samples
\* that they stand for.
Exported(restarted, n, ok, em) ==
  /\ n \in Nat /\ ok \in Nat /\ ok <= n
  /\ em \in [total : Nat, success : Nat]
  /\ em.total = (IF restarted THEN 0 ELSE aLoop.total) + n
  /\ em.success = (IF restarted THEN 0 ELSE aLoop.success) + ok
  /\ aLoop' = em
  /\ Record(em.total, em.success, aNow')
  /\ aSamples' = IF aKnown /\ ~restarted THEN LastOf(aSamples \o Samples(n, ok)) ELSE aSamples
  /\ aOdd' = (aOdd \/ (aKnown /\ restarted /\ n >= aState.lastTotal))
  /\ aReset' = (aKnown /\ em.total < aState.lastTotal)

\* An export is one of a number of new samples, some of them successes.
LEMMA ExportedSome ==
  ASSUME AlertTypes, NEW restarted \in BOOLEAN, AlertExport(restarted)
  PROVE  \E n, ok, em : Exported(restarted, n, ok, em)
<1>1. PICK from : from = IF restarted THEN [total |-> 0, success |-> 0] ELSE aLoop
  BY Zenon
<1> DEFINE Step(n, ok) ==
        LET em == [total |-> from.total + n, success |-> from.success + ok]
        IN /\ aLoop' = em
           /\ Record(em.total, em.success, aNow')
           /\ aSamples' = IF aKnown /\ ~restarted THEN LastOf(aSamples \o Samples(n, ok))
                          ELSE aSamples
           /\ aOdd' = (aOdd \/ (aKnown /\ restarted /\ n >= aState.lastTotal))
           /\ aReset' = (aKnown /\ em.total < aState.lastTotal)
<1> HIDE DEF Step
<1>2. PICK n \in 0 .. MaxSamples : \E ok \in 0 .. n : Step(n, ok)
  BY <1>1, Zenon DEF AlertExport, Step
<1>7. PICK ok \in 0 .. n : Step(n, ok)
  BY <1>2, Zenon
<1>3. /\ from.total = (IF restarted THEN 0 ELSE aLoop.total) /\ from.total \in Nat
      /\ from.success = (IF restarted THEN 0 ELSE aLoop.success) /\ from.success \in Nat
  BY <1>1, Zenon DEF AlertTypes
<1>4. PICK em : em = [total |-> from.total + n, success |-> from.success + ok]
  BY Zenon
<1>5. /\ em \in [total : Nat, success : Nat] /\ em.total = from.total + n
      /\ em.success = from.success + ok /\ n \in Nat /\ ok \in Nat /\ ok <= n
  BY <1>3, <1>4
<1>6. Exported(restarted, n, ok, em)
  BY <1>3, <1>4, <1>5, <1>7, Zenon DEF Exported, Step
<1> QED
  BY <1>6, Zenon

\* What a notification leaves behind.
LEMMA NotifyFacts ==
  ASSUME NEW info, notify(info), aCommand' = aCommand
  PROVE  /\ aNotified' = info /\ (aCommand' = "words" => aStarted' = aNotified')
         /\ (aDead' => aCommand' = "blank") /\ aNotedAt' = aNow'
BY Zenon DEF notify

\* A failing target is alerted on after handleAlertCondition, and notified of in time.
LEMMA ConditionHandled ==
  ASSUME Noted, ~aDead, NEW st \in TargetStates, NEW k, k >= AlertFailures,
         st.alerted = aState.alerted, st.alertTS = aState.alertTS,
         st.conditionID = aState.conditionID, st.failingSince = aState.failingSince,
         aNow' \in Int, aCommand' = aCommand, handleAlertCondition(st, aNow', k)
  PROVE  /\ aState' \in TargetStates /\ aState'.alerted
         /\ aState'.failures = st.failures /\ aState'.lastTotal = st.lastTotal
         /\ aState'.lastSuccess = st.lastSuccess
         /\ Noted'
<1>1. CASE ~st.alerted
  <2> DEFINE new == [st EXCEPT !.alerted = TRUE, !.alertTS = aNow', !.conditionID = aNow',
                               !.failingSince = aNow']
  <2>1. /\ aState' = new
        /\ notify([conditionID |-> new.conditionID, failures |-> k, since |-> new.failingSince])
    BY <1>1, Zenon DEF handleAlertCondition
  <2>2. /\ new \in TargetStates /\ new.alerted /\ new.failures = st.failures
        /\ new.lastTotal = st.lastTotal /\ new.lastSuccess = st.lastSuccess
        /\ new.alertTS = aNow' /\ new.conditionID = aNow' /\ new.failingSince = aNow'
    BY <2>1, Zenon DEF TargetStates
  <2>3. /\ aNotified'.conditionID = new.conditionID /\ aNotified'.failures = k
        /\ aNotified'.since = new.failingSince
        /\ (aCommand' = "words" => aStarted' = aNotified')
        /\ (aDead' => aCommand' = "blank") /\ aNotedAt' = aNow'
    BY <2>1, NotifyFacts
  <2>4. aNow' - aNotedAt' <= RepeatInterval
    BY <2>3, AlertAssumption
  <2> QED
    BY <2>1, <2>2, <2>3, <2>4, Zenon DEF Noted
<1>2. CASE st.alerted /\ aNow' - st.alertTS > RepeatInterval
  <2> DEFINE new == [st EXCEPT !.alertTS = aNow']
  <2>1. /\ aState' = new
        /\ notify([conditionID |-> new.conditionID, failures |-> k, since |-> new.failingSince])
    BY <1>2, Zenon DEF handleAlertCondition
  <2>2. /\ new \in TargetStates /\ new.alerted /\ new.failures = st.failures
        /\ new.lastTotal = st.lastTotal /\ new.lastSuccess = st.lastSuccess
        /\ new.alertTS = aNow' /\ new.conditionID = aState.conditionID
        /\ new.failingSince = aState.failingSince
    BY <1>2, <2>1, Zenon DEF TargetStates
  <2>3. /\ aNotified'.conditionID = new.conditionID /\ aNotified'.failures = k
        /\ aNotified'.since = new.failingSince
        /\ (aCommand' = "words" => aStarted' = aNotified')
        /\ (aDead' => aCommand' = "blank") /\ aNotedAt' = aNow'
    BY <2>1, NotifyFacts
  <2>4. aNow' - aNotedAt' <= RepeatInterval
    BY <2>3, AlertAssumption
  <2> QED
    BY <1>2, <2>1, <2>2, <2>3, <2>4, Zenon DEF Noted
<1>3. CASE st.alerted /\ ~(aNow' - st.alertTS > RepeatInterval)
  <2>1. aState' = [st EXCEPT !.alertTS = @] /\ UNCHANGED noteVars
    BY <1>3, Zenon DEF handleAlertCondition
  <2>2. /\ aState' \in TargetStates /\ aState'.alerted /\ aState'.failures = st.failures
        /\ aState'.lastTotal = st.lastTotal /\ aState'.lastSuccess = st.lastSuccess
        /\ aState'.alertTS = st.alertTS /\ aState'.conditionID = st.conditionID
        /\ aState'.failingSince = st.failingSince
    BY <1>3, <2>1, Zenon DEF TargetStates
  <2>3. aNow' - aNotedAt' <= RepeatInterval
    <3>1. aNotedAt' = st.alertTS
      BY <1>3, <2>1, Zenon DEF Noted, noteVars
    <3>2. st.alertTS \in Int
      BY Zenon DEF TargetStates
    <3> QED
      BY <1>3, <3>1, <3>2, AlertAssumption
  <2> QED
    BY <1>3, <2>1, <2>2, <2>3, Zenon DEF Noted, noteVars
<1> QED
  BY <1>1, <1>2, <1>3, Zenon

\* A cleared alert leaves the window and the counts of a target as they were.
LEMMA ClearedState ==
  ASSUME NEW st \in TargetStates, NEW u,
         u = [st EXCEPT !.alerted = FALSE, !.alertTS = 0, !.conditionID = 0]
  PROVE  /\ u \in TargetStates /\ u.failures = st.failures /\ u.lastTotal = st.lastTotal
         /\ u.lastSuccess = st.lastSuccess /\ ~u.alerted
<1>1. PICK v : v = [st EXCEPT !.alertTS = 0]
  BY Zenon
<1>2. v \in TargetStates
  BY <1>1 DEF TargetStates
<1>3. u = [[v EXCEPT !.conditionID = 0] EXCEPT !.alerted = FALSE]
  BY <1>1, Zenon DEF TargetStates
<1>4. [v EXCEPT !.conditionID = 0] \in TargetStates
  BY <1>2 DEF TargetStates
<1>5. u.failures = st.failures /\ u.lastTotal = st.lastTotal
      /\ u.lastSuccess = st.lastSuccess /\ u.alertTS = 0 /\ u.conditionID = 0
      /\ u.failingSince = st.failingSince
  BY Zenon DEF TargetStates
<1>6. u.alerted = FALSE
  BY Zenon DEF TargetStates
<1>7. u \in TargetStates
  BY <1>3, <1>4, Zenon DEF TargetStates
<1> QED
  BY <1>5, <1>6, <1>7, Zenon

\* Record of counters that go on keeps the window in step and notifies in time.
LEMMA RecordGoesOn ==
  ASSUME AlertInv, ~aDead, aKnown, NEW restarted \in BOOLEAN, NEW n, NEW ok, NEW em,
         Exported(restarted, n, ok, em), em.total >= aState.lastTotal,
         aNow' \in Int, aCommand' = aCommand
  PROVE  AlertInv'
<1> AlertTypes /\ InStep /\ Noted
  BY Zenon DEF AlertInv
<1>1. /\ aState \in TargetStates /\ aState.lastTotal \in Nat /\ aState.lastSuccess \in Nat
      /\ aState.failures \in [1 .. AlertTotal -> BOOLEAN]
      /\ n \in Nat /\ ok \in Nat /\ ok <= n /\ em.total \in Nat /\ em.success \in Nat
      /\ em \in [total : Nat, success : Nat]
  BY Zenon DEF AlertTypes, TargetStates, Exported
<1>2. PICK w : w = Window(aState.failures, em.total - aState.lastTotal,
                          em.success - aState.lastSuccess)
  BY Zenon
<1>3. w \in [1 .. AlertTotal -> BOOLEAN]
  <2>1. em.total - aState.lastTotal \in Nat /\ em.success - aState.lastSuccess \in Int
    BY <1>1
  <2> QED
    BY <1>1, <1>2, <2>1, WindowAt, Zenon
<1>4. PICK st : st = [aState EXCEPT !.lastTotal = em.total, !.lastSuccess = em.success,
                                    !.failures = w]
  BY Zenon
<1>5. /\ st \in TargetStates /\ st.lastTotal = em.total /\ st.lastSuccess = em.success
      /\ st.failures = w /\ st.alerted = aState.alerted /\ st.alertTS = aState.alertTS
      /\ st.conditionID = aState.conditionID /\ st.failingSince = aState.failingSince
  BY <1>1, <1>3, <1>4, Zenon DEF TargetStates
<1>6. /\ aKnown' = aKnown
      /\ IF Failed(w) >= AlertFailures THEN handleAlertCondition(st, aNow', Failed(w))
         ELSE aState' = [st EXCEPT !.alerted = FALSE, !.alertTS = 0, !.conditionID = 0]
              /\ UNCHANGED noteVars
  <2>1. Record(em.total, em.success, aNow')
    BY Zenon DEF Exported
  <2>2. ~(em.total - aState.lastTotal < 0)
    BY <1>1
  <2> QED
    BY <1>2, <1>4, <2>1, <2>2, Zenon DEF Record
<1>7. /\ aState' \in TargetStates /\ aState'.failures = w /\ aState'.lastTotal = em.total
      /\ aState'.lastSuccess = em.success /\ (aState'.alerted <=> Failed(w) >= AlertFailures)
      /\ Noted'
  <2>1. CASE Failed(w) >= AlertFailures
    <3>1. handleAlertCondition(st, aNow', Failed(w))
      BY <1>6, <2>1, Zenon
    <3> QED
      BY <1>5, <2>1, <3>1, ConditionHandled, Zenon
  <2>2. CASE ~(Failed(w) >= AlertFailures)
    <3>1. aState' = [st EXCEPT !.alerted = FALSE, !.alertTS = 0, !.conditionID = 0]
          /\ UNCHANGED noteVars
      BY <1>6, <2>2, Zenon
    <3>2. /\ aState' \in TargetStates /\ aState'.failures = w /\ aState'.lastTotal = em.total
          /\ aState'.lastSuccess = em.success /\ ~aState'.alerted
      BY <1>5, <3>1, ClearedState, Zenon
    <3>3. Noted'
      BY <3>1, <3>2, Zenon DEF Noted, noteVars
    <3> QED
      BY <2>2, <3>2, <3>3, Zenon
  <2> QED
    BY <2>1, <2>2, Zenon
<1>8. aLoop' = em /\ aOdd' = (aOdd \/ (aKnown /\ restarted /\ n >= aState.lastTotal))
      /\ aSamples' = IF aKnown /\ ~restarted THEN LastOf(aSamples \o Samples(n, ok)) ELSE aSamples
  BY Zenon DEF Exported
<1>9. aOdd' \in BOOLEAN
  BY <1>8, Zenon
<1>10. CASE restarted
  <2>1. aSamples' = aSamples /\ aOdd'
    <3>1. em.total = 0 + n
      BY <1>10, Zenon DEF Exported
    <3>2. n >= aState.lastTotal
      BY <1>1, <3>1
    <3> QED
      BY <1>8, <1>10, <3>2, Zenon
  <2>2. AlertTypes'
    BY <1>1, <1>6, <1>7, <1>8, <1>9, <2>1, Zenon DEF AlertTypes
  <2>3. InStep'
    BY <1>6, <1>7, <1>8, <2>1, Zenon DEF InStep
  <2> QED
    BY <1>7, <2>2, <2>3, Zenon DEF AlertInv
<1>11. CASE ~restarted
  <2>1. em.total - aState.lastTotal = n /\ em.success - aState.lastSuccess = ok
    <3>1. em.total = aLoop.total + n /\ em.success = aLoop.success + ok
      BY <1>11, Zenon DEF Exported
    <3>2. aState.lastTotal = aLoop.total /\ aState.lastSuccess = aLoop.success
      BY Zenon DEF InStep
    <3> QED
      BY <1>1, <3>1, <3>2
  <2>2. w = Window(aState.failures, n, ok)
    BY <1>2, <2>1, Zenon
  <2>3. aSamples' = LastOf(aSamples \o Samples(n, ok)) /\ (aOdd' <=> aOdd)
    BY <1>8, <1>11, Zenon
  <2>4. aSamples' \in Seq(BOOLEAN) /\ Len(aSamples') <= AlertTotal
    BY <1>1, <2>3, LastOfTypes, Zenon DEF AlertTypes
  <2>5. ~aOdd => WindowHas(w, aSamples')
    BY <1>1, <2>2, <2>3, WindowGoesOn, Zenon DEF InStep, AlertTypes
  <2>6. AlertTypes'
    BY <1>1, <1>6, <1>7, <1>8, <1>9, <2>4, Zenon DEF AlertTypes
  <2>7. InStep'
    BY <1>6, <1>7, <1>8, <2>3, <2>5, Zenon DEF InStep
  <2> QED
    BY <1>7, <2>6, <2>7, Zenon DEF AlertInv
<1> QED
  BY <1>10, <1>11, Zenon

\* Every export keeps the invariant.
LEMMA AlertExportInv ==
  ASSUME AlertInv, NEW restarted \in BOOLEAN, AlertExport(restarted)
  PROVE  AlertInv'
<1> AlertTypes /\ InStep /\ Noted
  BY Zenon DEF AlertInv
<1>1. ~aDead /\ aNow' \in Int /\ aCommand' = aCommand
  BY DEF AlertExport, AlertTypes
<1>2. PICK n, ok, em : Exported(restarted, n, ok, em)
  BY ExportedSome, Zenon
<1>3. /\ aState \in TargetStates /\ aState.lastTotal \in Nat /\ n \in Nat
      /\ em \in [total : Nat, success : Nat] /\ em.total \in Nat /\ aLoop' = em
      /\ Record(em.total, em.success, aNow')
      /\ aOdd' = (aOdd \/ (aKnown /\ restarted /\ n >= aState.lastTotal))
      /\ aSamples' = IF aKnown /\ ~restarted THEN LastOf(aSamples \o Samples(n, ok)) ELSE aSamples
      /\ aReset' = (aKnown /\ em.total < aState.lastTotal)
  BY <1>2, Zenon DEF AlertTypes, TargetStates, Exported
<1>4. CASE ~aKnown
  <2>1. /\ aKnown' = TRUE /\ UNCHANGED noteVars /\ aState' = NewTargetState(em.total, em.success)
        /\ aSamples' = aSamples /\ aSamples = <<>> /\ aOdd' = FALSE
    BY <1>3, <1>4, Zenon DEF Record, InStep
  <2>2. [i \in 1 .. AlertTotal |-> FALSE] \in [1 .. AlertTotal -> BOOLEAN]
    BY Zenon
  <2>3. /\ aState' \in TargetStates /\ ~aState'.alerted
        /\ aState'.lastTotal = em.total /\ aState'.lastSuccess = em.success
        /\ aState'.failures = [i \in 1 .. AlertTotal |-> FALSE]
    BY <1>3, <2>1, <2>2 DEF NewTargetState, TargetStates
  <2>4. AlertTypes'
    <3>1. aKnown' \in BOOLEAN /\ aOdd' \in BOOLEAN
      BY <2>1, Zenon
    <3> QED
      BY <1>1, <1>3, <2>1, <2>3, <3>1, Zenon DEF AlertTypes
  <2>5. WindowHas(aState'.failures, aSamples')
    <3>1. Len(aSamples') = 0 /\ \A i \in 1 .. AlertTotal : ~(i > AlertTotal - 0)
      BY <2>1, AlertAssumption, EmptySeq
    <3>2. \A i \in 1 .. AlertTotal : ~aState'.failures[i]
      BY <2>3, Zenon
    <3> QED
      BY <3>1, <3>2, Zenon DEF WindowHas
  <2>6. InStep'
    BY <1>3, <2>1, <2>3, <2>5, Zenon DEF InStep
  <2>7. Noted'
    BY <1>1, <2>1, <2>3, Zenon DEF Noted, noteVars
  <2> QED
    BY <2>4, <2>6, <2>7, Zenon DEF AlertInv
<1>5. CASE aKnown /\ em.total < aState.lastTotal
  <2>1. restarted /\ ~(n >= aState.lastTotal)
    <3>1. em.total = (IF restarted THEN 0 ELSE aLoop.total) + n
      BY <1>2, Zenon DEF Exported
    <3>2. aState.lastTotal = aLoop.total
      BY <1>5, Zenon DEF InStep
    <3> QED
      BY <1>3, <1>5, <3>1, <3>2
  <2>2. em.total - aState.lastTotal < 0 /\ ~(em.total - aState.lastTotal >= 0)
    BY <1>3, <1>5
  <2>3. /\ aState' = [aState EXCEPT !.lastTotal = em.total, !.lastSuccess = em.success]
        /\ UNCHANGED <<aKnown, noteVars>>
    BY <1>3, <1>5, <2>2, Zenon DEF Record
  <2>4. aSamples' = aSamples /\ aReset' /\ (aOdd' <=> aOdd) /\ aOdd' \in BOOLEAN
    BY <1>3, <1>5, <2>1, Zenon
  <2>5. /\ aState' \in TargetStates
        /\ aState'.lastTotal = em.total /\ aState'.lastSuccess = em.success
        /\ aState'.failures = aState.failures /\ aState'.alerted = aState.alerted
        /\ aState'.alertTS = aState.alertTS /\ aState'.conditionID = aState.conditionID
        /\ aState'.failingSince = aState.failingSince
    BY <1>3, <2>3, Zenon DEF TargetStates
  <2>6. AlertTypes'
    BY <1>1, <1>3, <2>3, <2>4, <2>5, Zenon DEF AlertTypes
  <2>7. InStep'
    BY <1>3, <1>5, <2>3, <2>4, <2>5, Zenon DEF InStep, WindowHas
  <2>8. Noted'
    BY <1>1, <2>3, <2>4, <2>5, Zenon DEF Noted, noteVars
  <2> QED
    BY <2>6, <2>7, <2>8, Zenon DEF AlertInv
<1>6. CASE aKnown /\ ~(em.total < aState.lastTotal)
  <2>1. em.total >= aState.lastTotal
    BY <1>3, <1>6
  <2> QED
    BY <1>1, <1>2, <1>6, <2>1, RecordGoesOn, Zenon
<1> QED
  BY <1>4, <1>5, <1>6, Zenon

\* Alerting: the target is alerted on exactly while enough of its last samples are
\* failures, for every size of the window, every threshold and every number
\* of samples in an EventMetrics; while it is, notifications name the alert that
\* began and come within the repeat interval (AlertHandler.Record,
\* handleAlertCondition).
THEOREM AlertsAreRight == AlertSpec => []AlertedWhenFailing
<1>1. AlertInv => AlertedWhenFailing
  <2> SUFFICES ASSUME AlertInv PROVE AlertedWhenFailing
    BY Zenon
  <2>1. aState.alerted \in BOOLEAN /\ aState.failures \in [1 .. AlertTotal -> BOOLEAN]
    BY Zenon DEF AlertInv, AlertTypes, TargetStates
  <2>2. ASSUME ~aOdd, aSamples # <<>> PROVE aState.alerted = Failing(aSamples)
    <3>1. WindowHas(aState.failures, aSamples) /\ (aState.alerted <=> Failed(aState.failures) >= AlertFailures)
      BY <2>2, Zenon DEF AlertInv, InStep
    <3>2. (Failed(aState.failures) >= AlertFailures) = Failing(aSamples)
      BY <2>1, <3>1, FailedAreSamples, Zenon DEF AlertInv, AlertTypes
    <3>3. Failing(aSamples) \in BOOLEAN
      BY DEF Failing
    <3> QED
      BY <2>1, <3>1, <3>2, <3>3, Zenon
  <2> QED
    BY <2>2, Zenon DEF AlertInv, Noted, AlertedWhenFailing
<1>2. AlertInv /\ [AlertNext]_alertVars => AlertInv'
  <2> SUFFICES ASSUME AlertInv, [AlertNext]_alertVars PROVE AlertInv'
    BY Zenon
  <2>1. CASE AlertNext
    BY <2>1, AlertExportInv, Zenon DEF AlertNext
  <2>2. CASE UNCHANGED alertVars
    BY <2>2, Zenon DEF alertVars, AlertInv, AlertTypes, InStep, Noted, WindowHas, Failed
  <2> QED
    BY <2>1, <2>2, Zenon
<1> QED
  BY <1>1, <1>2, AlertInitInv, PTL DEF AlertSpec
=============================================================================
