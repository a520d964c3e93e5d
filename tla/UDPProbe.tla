----------------------------- MODULE UDPProbe -------------------------------
(***************************************************************************)
(* The UDP probe.  The goroutine of Start sends one message per target     *)
(* (and port) at every probe tick, each from a goroutine of its own that a *)
(* wait group awaits.  recvLoop, one per connection, reads the echoes.     *)
(* Both kinds of goroutines only put packet IDs on bounded channels; at    *)
(* every flush tick the main goroutine turns them into total, success and  *)
(* delayed, holding back packets that are younger than the timeout.        *)
(*                                                                         *)
(* A flow is <<source port, target>>.  The network loses, delays and       *)
(* reorders packets; the probe has no defence against a duplicated echo,   *)
(* so there are none here.                                                 *)
(***************************************************************************)
EXTENDS ProbeEnv, FiniteSetsExt, TLC

CONSTANTS
  NumTxPorts,    \* number of connections
  UseAllTxPorts, \* use_all_tx_ports_per_probe
  ByPort,        \* export_metrics_by_port
  UDPTimeout,    \* timeout, in ticks of the clock
  Usec,          \* ticks per microsecond: an echo's send time is truncated to it
  PacketChanLen, \* capacity of sentPackets and of rcvdPackets
  MaxTargets,    \* max_targets
  MaxUDPRuns,    \* bound: probe runs
  MaxClock       \* bound: time

VARIABLES
  uClock,        \* time.Now()
  uPc,           \* main goroutine: "start", "select", "runProbe" (wg.Wait),
                 \* "closing" (recvLoopWG.Wait), "returned"
  uTargets,      \* p.targets
  uRunID,        \* p.runID
  uRes,          \* p.res: results by flow
  uWg,           \* counter of runProbe's wait group
  uGo,           \* flows whose goroutine has not written its message
  uWritten,      \* packets written and not yet on sentPackets
  uSeq,          \* FlowState.seq of each flow
  uNet,          \* packets on their way to the target or back
  sentPackets, rcvdPackets,  \* the channels of packet IDs
  sPackets, rPackets,        \* packets held back by processPackets
  highestSeq,    \* p.highestSeq
  uRecv,         \* connections whose recvLoop is running
  uDropped       \* history: sent packets that found sentPackets full, per flow

udpVars == <<uClock, uPc, uTargets, uRunID, uRes, uWg, uGo, uWritten, uSeq, uNet,
             sentPackets, rcvdPackets, sPackets, rPackets, highestSeq, uRecv,
             uDropped>>

Ports == 0 .. NumTxPorts - 1
Flows == Ports \X Targets

\* resultsKey: results are kept by flow or by target.
resultsKey(f) == IF ByPort THEN f ELSE <<"", f[2]>>

UDPInit ==
  /\ uClock = 0
  /\ uPc = "start"
  /\ uTargets = {}
  /\ uRunID = 0
  /\ uRes = <<>>
  /\ uWg = 0
  /\ uGo = {}
  /\ uWritten = {}
  /\ uSeq = [f \in Flows |-> 0]
  /\ uNet = {}
  /\ sentPackets = <<>> /\ rcvdPackets = <<>>
  /\ sPackets = <<>> /\ rPackets = <<>>
  /\ highestSeq = [f \in Flows |-> 0]
  /\ uRecv = {}
  /\ uDropped = [f \in Flows |-> 0]

-----------------------------------------------------------------------------
(* Targets and results *)

NewResult == [total |-> 0, success |-> 0, delayed |-> 0]

\* initProbeRunResults: the results that are missing are added, none is removed.
initProbeRunResults(S) ==
  uRes' = uRes @@ [k \in {resultsKey(f) : f \in Ports \X S} |-> NewResult]

\* updateTargets: the first MaxTargets of the list, whose order is the lister's.
updateTargets ==
  \E S \in SUBSET listed :
    /\ Cardinality(S) = IF Cardinality(listed) > MaxTargets THEN MaxTargets
                        ELSE Cardinality(listed)
    /\ uTargets' = S
    /\ initProbeRunResults(S)

\* Start: the first listing, and the receivers.
UDPStart ==
  /\ uPc = "start"
  /\ uPc' = "select"
  /\ updateTargets
  /\ uRecv' = Ports
  /\ UNCHANGED <<uClock, uRunID, uWg, uGo, uWritten, uSeq, uNet, sentPackets,
                 rcvdPackets, sPackets, rPackets, highestSeq, uDropped, envVars>>

\* statsExportTicker: export the results of all flows, list the targets again.
UDPExport ==
  /\ uPc = "select"
  /\ updateTargets
  /\ UNCHANGED <<uClock, uPc, uRunID, uWg, uGo, uWritten, uSeq, uNet, sentPackets,
                 rcvdPackets, sPackets, rPackets, highestSeq, uRecv, uDropped,
                 envVars>>

-----------------------------------------------------------------------------
(* A probe run *)

\* The connections a run uses: all, or one in turn.
RunPorts == IF UseAllTxPorts THEN Ports ELSE {uRunID % NumTxPorts}

\* runProbe up to wg.Wait: the wait group counts every target, while a target
\* that does not resolve gets no goroutine.
UDPRunProbe ==
  /\ uPc = "select" /\ uTargets # {}
  /\ uRunID < MaxUDPRuns
  /\ uPc' = "runProbe"
  /\ uWg' = Cardinality(uTargets) * Cardinality(RunPorts)
  /\ \E unresolved \in SUBSET uTargets : uGo' = RunPorts \X (uTargets \ unresolved)
  /\ UNCHANGED <<uClock, uTargets, uRunID, uRes, uWritten, uSeq, uNet, sentPackets,
                 rcvdPackets, sPackets, rPackets, highestSeq, uRecv, uDropped,
                 envVars>>

\* runSingleProbe creates the flow's next message and writes it; when the write
\* fails the sequence number is withdrawn and the goroutine is done.
UDPWrite(f) ==
  /\ f \in uGo
  /\ uGo' = uGo \ {f}
  /\ \/ LET pkt == [f |-> f, seq |-> uSeq[f] + 1, txTS |-> uClock]
        IN /\ uSeq' = [uSeq EXCEPT ![f] = @ + 1]
           /\ uNet' = uNet \cup {pkt}
           /\ uWritten' = uWritten \cup {pkt}
           /\ UNCHANGED uWg
     \/ /\ uWg' = uWg - 1
        /\ UNCHANGED <<uSeq, uNet, uWritten>>
  /\ UNCHANGED <<uClock, uPc, uTargets, uRunID, uRes, sentPackets, rcvdPackets,
                 sPackets, rPackets, highestSeq, uRecv, uDropped, envVars>>

\* ... and puts the packet on sentPackets, unless that is full.
UDPSent(pkt) ==
  /\ pkt \in uWritten
  /\ uWritten' = uWritten \ {pkt}
  /\ uWg' = uWg - 1
  /\ \/ /\ Len(sentPackets) < PacketChanLen
        /\ sentPackets' = Append(sentPackets, pkt)
        /\ UNCHANGED uDropped
     \/ /\ Len(sentPackets) = PacketChanLen
        /\ uDropped' = [uDropped EXCEPT ![pkt.f] = @ + 1]
        /\ UNCHANGED sentPackets
  /\ UNCHANGED <<uClock, uPc, uTargets, uRunID, uRes, uGo, uSeq, uNet, rcvdPackets,
                 sPackets, rPackets, highestSeq, uRecv, envVars>>

\* wg.Wait returns.
UDPEndRun ==
  /\ uPc = "runProbe" /\ uWg = 0
  /\ uPc' = "select"
  /\ uRunID' = uRunID + 1
  /\ UNCHANGED <<uClock, uTargets, uRes, uWg, uGo, uWritten, uSeq, uNet, sentPackets,
                 rcvdPackets, sPackets, rPackets, highestSeq, uRecv, uDropped,
                 envVars>>

-----------------------------------------------------------------------------
(* The receivers *)

\* recvLoop reads an echo: the packet ID, with the send time as the message
\* has it, goes on rcvdPackets or is dropped.
UDPReceive(pkt) ==
  /\ pkt \in uNet /\ pkt.f[1] \in uRecv
  /\ uNet' = uNet \ {pkt}
  /\ rcvdPackets' =
       IF Len(rcvdPackets) < PacketChanLen
       THEN Append(rcvdPackets, [f |-> pkt.f, seq |-> pkt.seq, rxTS |-> uClock,
                                 txTS |-> Usec * (pkt.txTS \div Usec)])
       ELSE rcvdPackets
  /\ UNCHANGED <<uClock, uPc, uTargets, uRunID, uRes, uWg, uGo, uWritten, uSeq,
                 sentPackets, sPackets, rPackets, highestSeq, uRecv, uDropped,
                 envVars>>

\* recvLoop finds the context done.
UDPRecvExit(port) ==
  /\ port \in uRecv /\ ctxDone
  /\ uRecv' = uRecv \ {port}
  /\ UNCHANGED <<uClock, uPc, uTargets, uRunID, uRes, uWg, uGo, uWritten, uSeq, uNet,
                 sentPackets, rcvdPackets, sPackets, rPackets, highestSeq,
                 uDropped, envVars>>

-----------------------------------------------------------------------------
(* Flushing *)

\* The packet may still be answered in time.
Young(pkt) == uClock - pkt.txTS < UDPTimeout

Delayed(pkt) == pkt.rxTS - pkt.txTS > UDPTimeout

\* processSentPacket for a sequence of sent packets, processRcvdPacket for a
\* sequence of received ones.
Counted(sent, rcvd) ==
  [k \in DOMAIN uRes |->
     [total   |-> uRes[k].total + CountIf(sent, LAMBDA p : resultsKey(p.f) = k),
      success |-> uRes[k].success
                    + CountIf(rcvd, LAMBDA p : resultsKey(p.f) = k /\ ~Delayed(p)),
      delayed |-> uRes[k].delayed
                    + CountIf(rcvd, LAMBDA p : resultsKey(p.f) = k /\ Delayed(p))]]

\* Mutant of HoldBack: the highest sequence number is not looked at.
HoldBack_YoungOnly(pkt, highest) == Young(pkt)

\* Received packets that processPackets holds back.
HoldBack(pkt, highest) == Young(pkt) \/ pkt.seq > highest[pkt.f]

\* processPackets: the packets held back last time, then those on the channels.
UDPFlush ==
  /\ uPc = "select"
  /\ LET old     == SelectSeq(sentPackets, LAMBDA p : ~Young(p))
         highest == [f \in Flows |->
                       Max({highestSeq[f]} \cup
                           {old[i].seq : i \in {j \in DOMAIN old : old[j].f = f}})]
         late(p) == HoldBack(p, highest)
     IN /\ uRes' = Counted(sPackets \o old,
                           rPackets \o SelectSeq(rcvdPackets, LAMBDA p : ~late(p)))
        /\ highestSeq' = highest
        /\ sPackets' = SelectSeq(sentPackets, Young)
        /\ rPackets' = SelectSeq(rcvdPackets, late)
  /\ sentPackets' = <<>> /\ rcvdPackets' = <<>>
  /\ UNCHANGED <<uClock, uPc, uTargets, uRunID, uWg, uGo, uWritten, uSeq, uNet, uRecv,
                 uDropped, envVars>>

-----------------------------------------------------------------------------
(* The end, and the clock *)

UDPStop ==
  /\ uPc = "select" /\ ctxDone
  /\ uPc' = "closing"
  /\ UNCHANGED <<uClock, uTargets, uRunID, uRes, uWg, uGo, uWritten, uSeq, uNet,
                 sentPackets, rcvdPackets, sPackets, rPackets, highestSeq, uRecv,
                 uDropped, envVars>>

\* The receivers have returned; the connections are closed.
UDPClose ==
  /\ uPc = "closing" /\ uRecv = {}
  /\ uPc' = "returned"
  /\ UNCHANGED <<uClock, uTargets, uRunID, uRes, uWg, uGo, uWritten, uSeq, uNet,
                 sentPackets, rcvdPackets, sPackets, rPackets, highestSeq, uRecv,
                 uDropped, envVars>>

UDPTick ==
  /\ uClock < MaxClock
  /\ uClock' = uClock + 1
  /\ UNCHANGED <<uPc, uTargets, uRunID, uRes, uWg, uGo, uWritten, uSeq, uNet,
                 sentPackets, rcvdPackets, sPackets, rPackets, highestSeq, uRecv,
                 uDropped, envVars>>

UDPNext ==
  \/ UDPStart
  \/ UDPExport
  \/ UDPRunProbe
  \/ \E f \in Flows : UDPWrite(f)
  \/ \E pkt \in uWritten : UDPSent(pkt)
  \/ UDPEndRun
  \/ \E pkt \in uNet : UDPReceive(pkt)
  \/ \E port \in Ports : UDPRecvExit(port)
  \/ UDPFlush
  \/ UDPStop
  \/ UDPClose
  \/ UDPTick
  \/ (ListChange \/ EndContext) /\ UNCHANGED udpVars

-----------------------------------------------------------------------------
(* Properties *)

\* Whenever results can be exported, no target (or flow) has more answers,
\* timely or delayed, than packets counted as sent, apart from the packets
\* that found sentPackets full: a flush never counts an echo before its packet,
\* although packets and echoes come on separate channels, are held back
\* separately, and their ages differ by the truncation to microseconds.
UDPNotOvercounted ==
  uPc = "select" =>
    \A k \in DOMAIN uRes :
      uRes[k].success + uRes[k].delayed <=
        uRes[k].total
        + MapThenSumSet(LAMBDA f : uDropped[f], {f \in Flows : resultsKey(f) = k})

\* runProbe "Wait's until all probes have finished, then exits": with every
\* goroutine done, the wait group is at zero.
UDPRunReturns == ~(uPc = "runProbe" /\ uGo = {} /\ uWritten = {} /\ uWg > 0)
=============================================================================
