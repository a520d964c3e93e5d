----------------------------- MODULE PingProbe ------------------------------
(***************************************************************************)
(* The ping probe.  A run sends packets_per_probe echo requests to every   *)
(* target while a receiver goroutine reads replies from the one socket,    *)
(* which also delivers replies to earlier runs, repeated ones and ones of  *)
(* strangers.  The receiver knows from the tracker channel how many        *)
(* requests were sent, and tells replies to this run from others by the    *)
(* high byte of the sequence number, which is derived from the run count.  *)
(*                                                                         *)
(* The probe uses a datagram socket: for a raw one the ICMP id is compared *)
(* in addition.  The byte is scaled down: RunIDs values of it, with        *)
(* SeqPerRun sequence numbers each.                                        *)
(***************************************************************************)
EXTENDS ProbeEnv

CONSTANTS
  Addrs,           \* addresses of targets
  NoAddr,          \* a target that did not resolve
  RunIDs,          \* values of the high byte of a sequence number: 256
  SeqPerRun,       \* values of the low byte: 256
  PacketsPerProbe, \* packets_per_probe
  ResolveInterval, \* resolve_targets_interval, in runs
  MaxPingRuns      \* bound: runs

ASSUME PingAssumption ==
  /\ IsFiniteSet(Targets)
  /\ RunIDs \in Nat \ {0, 1}
  /\ SeqPerRun \in Nat
  /\ PacketsPerProbe \in 1 .. SeqPerRun

VARIABLES
  pPc,          \* main goroutine: "tick", "send", "wait" (wg.Wait), "returned"
  pRunCnt,      \* p.runCnt
  pTargets,     \* p.targets
  target2addr,  \* p.target2addr
  ip2target,    \* p.ip2target
  pRes,         \* p.results: sent and rcvd
  pRound,       \* packetsSent
  pTodo,        \* targets not yet sent to in this round
  tracker,      \* elements on the tracker channel
  pRecv,        \* is the receiver running?
  outstanding,  \* outstandingPkts
  received,     \* received
  pNet,         \* replies on their way
  pForeign,     \* history: was a reply to another run counted?
  pShared       \* history: did two targets have the same address?

pingVars == <<pPc, pRunCnt, pTargets, target2addr, ip2target, pRes, pRound, pTodo,
              tracker, pRecv, outstanding, received, pNet, pForeign, pShared>>
pAddrVars == <<pTargets, target2addr, ip2target, pShared>>

PingInit ==
  /\ pPc = "tick"
  /\ pRunCnt = 0
  /\ pTargets = {}
  /\ target2addr = <<>>
  /\ ip2target = <<>>
  /\ pRes = [t \in Targets |-> [sent |-> 0, rcvd |-> 0]]
  /\ pRound = 0
  /\ pTodo = {}
  /\ tracker = 0
  /\ pRecv = FALSE
  /\ outstanding = 0
  /\ received = {}
  /\ pNet = {}
  /\ pForeign = FALSE
  /\ pShared = FALSE

-----------------------------------------------------------------------------
(* A run *)

\* updateTargets: addr is what the targets resolve to.  Entries of ip2target are
\* never removed; of targets that share an address the last one keeps it.
updatePingTargets(addr) ==
  LET resolved == {t \in listed : addr[t] # NoAddr}
      newAddrs == {addr[t] : t \in resolved}
  IN /\ pTargets' = listed
     /\ target2addr' = Merged(addr, target2addr)
     /\ \E owner \in [newAddrs -> resolved] :
          /\ \A a \in newAddrs : addr[owner[a]] = a
          /\ ip2target' = Merged(owner, ip2target)
     /\ pShared' = (pShared \/ Cardinality(newAddrs) < Cardinality(resolved))

\* The ticker fires and the context has ended.
PingReturn ==
  /\ pPc = "tick" /\ ctxDone
  /\ pPc' = "returned"
  /\ UNCHANGED <<pRunCnt, pRes, pRound, pTodo, tracker, pRecv, outstanding, received,
                 pNet, pForeign, pAddrVars, envVars>>

\* runProbe: resolve the targets every so often, take the next run ID, start the
\* receiver.
PingRunProbe ==
  /\ pPc = "tick" /\ ~ctxDone /\ pRunCnt < MaxPingRuns
  /\ IF pRunCnt % ResolveInterval = 0
     THEN \E addr \in [listed -> Addrs \cup {NoAddr}] : updatePingTargets(addr)
     ELSE UNCHANGED pAddrVars
  /\ pRunCnt' = pRunCnt + 1
  /\ pPc' = "send"
  /\ pRound' = 0
  /\ pTodo' = pTargets'
  /\ tracker' = 0
  /\ pRecv' = TRUE
  /\ outstanding' = 0
  /\ received' = {}
  /\ UNCHANGED <<pRes, pNet, pForeign, envVars>>

\* The high byte of the run ID.
HighByte == pRunCnt % RunIDs

\* The sequence number of the packets of this round; it starts at the run ID's
\* high byte and wraps around.
PingSeq == (HighByte * SeqPerRun + pRound) % (RunIDs * SeqPerRun)

\* Send to one target: unresolved ones are skipped, a failed write is not
\* counted.  The write, the element on the tracker and sent++ are one step: the
\* counters are read after wg.Wait only.
PingSend(t) ==
  /\ pPc = "send" /\ t \in pTodo
  /\ pTodo' = pTodo \ {t}
  /\ \/ /\ target2addr[t] # NoAddr
        /\ pNet' = pNet \cup {[addr |-> target2addr[t], seq |-> PingSeq, run |-> pRunCnt]}
        /\ tracker' = tracker + 1
        /\ pRes' = [pRes EXCEPT ![t].sent = @ + 1]
     \/ UNCHANGED <<pNet, tracker, pRes>>
  /\ UNCHANGED <<pPc, pRunCnt, pRound, pRecv, outstanding, received, pForeign, pAddrVars,
                 envVars>>

\* The next round begins, or the sender closes the tracker.
PingNextRound ==
  /\ pPc = "send" /\ pTodo = {}
  /\ IF pRound + 1 < PacketsPerProbe
     THEN /\ pRound' = pRound + 1
          /\ pTodo' = pTargets
          /\ UNCHANGED pPc
     ELSE /\ pPc' = "wait"
          /\ UNCHANGED <<pRound, pTodo>>
  /\ UNCHANGED <<pRunCnt, pRes, tracker, pRecv, outstanding, received, pNet, pForeign,
                 pAddrVars, envVars>>

\* wg.Wait returns.
PingEndRun ==
  /\ pPc = "wait" /\ ~pRecv
  /\ pPc' = "tick"
  /\ UNCHANGED <<pRunCnt, pRes, pRound, pTodo, tracker, pRecv, outstanding, received,
                 pNet, pForeign, pAddrVars, envVars>>

-----------------------------------------------------------------------------
(* The receiver *)

\* With nothing outstanding it takes the next element of the tracker, or returns
\* when the tracker is empty and closed.
PingTrack ==
  /\ pRecv /\ outstanding = 0
  /\ \/ /\ tracker > 0
        /\ tracker' = tracker - 1
        /\ outstanding' = 1
        /\ UNCHANGED pRecv
     \/ /\ tracker = 0 /\ pPc = "wait"
        /\ pRecv' = FALSE
        /\ UNCHANGED <<tracker, outstanding>>
  /\ UNCHANGED <<pPc, pRunCnt, pRes, pRound, pTodo, received, pNet, pForeign, pAddrVars,
                 envVars>>

\* The read deadline passes.
PingTimeout ==
  /\ pRecv /\ outstanding > 0
  /\ pRecv' = FALSE
  /\ UNCHANGED <<pPc, pRunCnt, pRes, pRound, pTodo, tracker, outstanding, received, pNet,
                 pForeign, pAddrVars, envVars>>

\* Mutant of matchPacket: any sequence number is as good as another.
matchPacket_Any(seq) == TRUE

matchPacket(seq) == seq \div SeqPerRun = HighByte

\* A read returns a reply.  Replies of strangers, to other runs, and repeated
\* ones are ignored; a reply that fails validation is not counted.  The network
\* may repeat a reply, and delivers none that is RunIDs runs old.
PingRead(pkt) ==
  /\ pRecv /\ outstanding > 0
  /\ pkt \in pNet /\ pRunCnt - pkt.run < RunIDs
  /\ pNet' \in {pNet, pNet \ {pkt}}
  /\ LET t == ip2target[pkt.addr]
     IN IF matchPacket(pkt.seq) /\ <<t, pkt.seq>> \notin received
        THEN /\ received' = received \cup {<<t, pkt.seq>>}
             /\ outstanding' = outstanding - 1
             /\ \E valid \in {0, 1} :
                  /\ pRes' = [pRes EXCEPT ![t].rcvd = @ + valid]
                  /\ pForeign' = (pForeign \/ (valid = 1 /\ pkt.run # pRunCnt))
        ELSE UNCHANGED <<received, outstanding, pRes, pForeign>>
  /\ UNCHANGED <<pPc, pRunCnt, pRound, pTodo, tracker, pRecv, pAddrVars, envVars>>

PingNext ==
  \/ PingReturn
  \/ PingRunProbe
  \/ \E t \in Targets : PingSend(t)
  \/ PingNextRound
  \/ PingEndRun
  \/ PingTrack
  \/ PingTimeout
  \/ \E pkt \in pNet : PingRead(pkt)
  \/ (ListChange \/ EndContext) /\ UNCHANGED pingVars

PingSpec == EnvInit /\ PingInit /\ [][PingNext]_<<pingVars, envVars>>

-----------------------------------------------------------------------------
(* Properties *)

\* A reply counts for the run it answers only, however late it comes and however
\* often (within the RunIDs runs it takes for the high byte to come round);
\* and no target has more replies than requests, unless two targets had the
\* same address and the replies to both were counted for one of them.
PingCountsOwnRun ==
  /\ ~pForeign
  /\ ~pShared => \A t \in Targets : pRes[t].rcvd <= pRes[t].sent
=============================================================================
