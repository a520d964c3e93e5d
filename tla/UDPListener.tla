---------------------------- MODULE UDPListener -----------------------------
(***************************************************************************)
(* The UDP listener, which judges from the sequence numbers of the         *)
(* messages that arrive how many the network lost.  Three goroutines:      *)
(* recvLoop reads messages and processes them under the probe's mutex;     *)
(* outputLoop sends the results to StatsKeeper while holding the mutex and *)
(* starts new ones; echoLoop, in echo mode, writes messages back.          *)
(*                                                                         *)
(* Each target is a sender with one flow.  A sender may restart and then   *)
(* numbers its messages from 1 again; its incarnation is not in the        *)
(* message and only the history variables look at it.  The network loses,  *)
(* delays, reorders and repeats messages.  Of a result only the counters   *)
(* lost and delayed are kept, not total (which outputResults raises to the *)
(* expected count) and success.                                            *)
(***************************************************************************)
EXTENDS StatsKeeper, FiniteSetsExt

CONSTANTS
  EchoMode,         \* type: ECHO
  EchoCap,          \* capacity of echoChan
  MinResultsChLen,  \* minResultsChLen
  DelayedThreshold, \* delayedThreshold
  MaxSends,         \* bound: messages of a sender
  MaxRepeats,       \* bound: messages that the network repeats
  MaxIncarnations   \* bound: incarnations of a sender

VARIABLES
  lPc,        \* recvLoop and probeLoop: "start", "read", "echo" (sending on
              \* echoChan), "process", "wait" (wg.Wait), "returned"
  lMsg,       \* the message recvLoop has read, in a set
  lOut,       \* outputLoop: "none", "select", "output" (holding p.mu), "done"
  lOutTodo,   \* results outputResults has yet to send
  lEcho,      \* echoLoop: "none", "select", "done"
  echoChan,   \* number of messages on echoChan
  lRes,       \* p.res
  lSeq,       \* FlowState.seq of each sender
  sender,     \* incarnation, last sequence number, messages sent, of each sender
  lNet,       \* messages on their way
  lRepeats,   \* messages repeated so far
  lHist       \* history of each sender's flow: see Observe

lLoopVars == <<lPc, lMsg, lOut, lOutTodo, lEcho, echoChan>>
lFlowVars == <<lRes, lSeq, sender, lNet, lRepeats, lHist>>
listenerVars == <<lLoopVars, lFlowVars>>

lZero == [lost |-> 0, delayed |-> 0]

\* Nothing was seen of the sender yet.
NoHistory == [inc |-> 0, first |-> 1, seen |-> {}, carried |-> 0, odd |-> FALSE]

ListenerInit ==
  /\ lPc = "start"
  /\ lMsg = {}
  /\ lOut = "none"
  /\ lOutTodo = {}
  /\ lEcho = "none"
  /\ echoChan = 0
  /\ lRes = <<>>
  /\ lSeq = [t \in Targets |-> 0]
  /\ sender = [t \in Targets |-> [inc |-> 1, seq |-> 0, sent |-> 0]]
  /\ lNet = {}
  /\ lRepeats = 0
  /\ lHist = [t \in Targets |-> NoHistory]

-----------------------------------------------------------------------------
(* Senders and the network *)

SenderSend(t) ==
  /\ sender[t].sent < MaxSends
  /\ sender' = [sender EXCEPT ![t].seq = @ + 1, ![t].sent = @ + 1]
  /\ lNet' = lNet \cup {[src |-> t, inc |-> sender[t].inc, seq |-> sender[t].seq + 1]}
  /\ UNCHANGED <<lLoopVars, lRes, lSeq, lRepeats, lHist, skVars, envVars>>

SenderRestart(t) ==
  /\ sender[t].seq > 0 /\ sender[t].inc < MaxIncarnations
  /\ sender' = [sender EXCEPT ![t] = [inc |-> @.inc + 1, seq |-> 0, sent |-> @.sent]]
  /\ UNCHANGED <<lLoopVars, lRes, lSeq, lNet, lRepeats, lHist, skVars, envVars>>

-----------------------------------------------------------------------------
(* recvLoop *)

\* Start, probeLoop and the beginning of recvLoop: the channel, the goroutines,
\* the first results.
ListenerStart ==
  /\ lPc = "start"
  /\ SKStart(Max({MinResultsChLen, Cardinality(listed)}))
  /\ lPc' = "read"
  /\ lOut' = "select"
  /\ lEcho' = IF EchoMode THEN "select" ELSE "none"
  /\ lRes' = [t \in listed |-> lZero]
  /\ UNCHANGED <<lMsg, lOutTodo, echoChan, lSeq, sender, lNet, lRepeats, lHist,
                 envVars>>

\* A read returns a message, which the network may deliver again.
ListenerRead(m) ==
  /\ lPc = "read" /\ m \in lNet
  /\ lMsg' = {m}
  /\ \/ lNet' = lNet \ {m} /\ UNCHANGED lRepeats
     \/ lNet' = lNet /\ lRepeats < MaxRepeats /\ lRepeats' = lRepeats + 1
  /\ lPc' = IF EchoMode THEN "echo" ELSE "process"
  /\ UNCHANGED <<lOut, lOutTodo, lEcho, echoChan, lRes, lSeq, sender, lHist, skVars,
                 envVars>>

\* echoChan <- e, which blocks while the channel is full.
ListenerEcho ==
  /\ lPc = "echo" /\ echoChan < EchoCap
  /\ echoChan' = echoChan + 1
  /\ lPc' = "process"
  /\ UNCHANGED <<lMsg, lOut, lOutTodo, lEcho, lFlowVars, skVars, envVars>>

\* Mutant of ProcessOneWay: the message that ends a gap is counted as lost too.
ProcessOneWay_OffByOne(seq, last) ==
  LET delta == seq - last
      reset == seq = 1 \/ last = 0 \/ delta <= -DelayedThreshold
  IN IF reset THEN [seq |-> seq, lost |-> 0, delayed |-> 0]
     ELSE [seq     |-> IF delta > 0 THEN seq ELSE last,
           lost    |-> IF delta > 1 THEN delta ELSE 0,
           delayed |-> IF delta < 0 THEN 1 ELSE 0]

\* ProcessOneWay: a message's verdict and the flow's new sequence number.  A
\* repetition of the last message counts as nothing.
ProcessOneWay(seq, last) ==
  LET delta == seq - last
      reset == seq = 1 \/ last = 0 \/ delta <= -DelayedThreshold
  IN IF reset THEN [seq |-> seq, lost |-> 0, delayed |-> 0]
     ELSE [seq     |-> IF delta > 0 THEN seq ELSE last,
           lost    |-> IF delta > 1 THEN delta - 1 ELSE 0,
           delayed |-> IF delta < 0 THEN 1 ELSE 0]

\* Messages between the first and the last one seen that did not arrive, less
\* those that arrived late though no later message had reported them lost.
Missing(h) ==
  IF h.seen = {} THEN 0
  ELSE Cardinality((h.first .. Max(h.seen)) \ h.seen)
       - Cardinality({s \in h.seen : s < h.first})

\* History of a flow after message m: the sequence numbers seen of the sender's
\* current incarnation, what was missing of earlier ones, and whether the flow
\* met something that sequence numbers alone cannot tell from a restart or a
\* delay: a message of an old incarnation, a new incarnation whose message 1 is
\* not its first to arrive, a late message 1 or one that is older than the
\* threshold, a repetition of an old message.
Observe(h, m, last) ==
  IF m.inc = h.inc
  THEN [h EXCEPT !.seen = @ \cup {m.seq},
                 !.odd  = \/ @
                          \/ m.seq = 1
                          \/ m.seq - last <= -DelayedThreshold
                          \/ m.seq \in h.seen /\ m.seq # last]
  ELSE [inc |-> m.inc, first |-> m.seq, seen |-> {m.seq},
        carried |-> h.carried + Missing(h),
        odd |-> h.odd \/ m.inc < h.inc \/ (h.inc > 0 /\ m.seq # 1)]

\* processMessage, for which p.mu must be free: a message of a sender that is no
\* target is only noted.
ListenerProcess ==
  /\ lPc = "process" /\ lOut # "output"
  /\ lPc' = "read"
  /\ lMsg' = {}
  /\ \A m \in lMsg :
       IF m.src \in DOMAIN lRes
       THEN LET v == ProcessOneWay(m.seq, lSeq[m.src])
                r == lRes[m.src]
            IN /\ lSeq' = [lSeq EXCEPT ![m.src] = v.seq]
               /\ lRes' = [lRes EXCEPT ![m.src] =
                             [lost    |-> r.lost + v.lost,
                              delayed |-> r.delayed + v.delayed]]
               /\ lHist' = [lHist EXCEPT ![m.src] = Observe(@, m, lSeq[m.src])]
       ELSE UNCHANGED <<lSeq, lRes, lHist>>
  /\ UNCHANGED <<lOut, lOutTodo, lEcho, echoChan, sender, lNet, lRepeats, skVars,
                 envVars>>

\* recvLoop finds the context done; probeLoop waits for the other goroutines.
ListenerRecvExit ==
  /\ lPc = "read" /\ ctxDone
  /\ lPc' = "wait"
  /\ UNCHANGED <<lMsg, lOut, lOutTodo, lEcho, echoChan, lFlowVars, skVars, envVars>>

ListenerReturn ==
  /\ lPc = "wait" /\ lOut = "done" /\ lEcho \in {"none", "done"}
  /\ lPc' = "returned"
  /\ UNCHANGED <<lMsg, lOut, lOutTodo, lEcho, echoChan, lFlowVars, skVars, envVars>>

-----------------------------------------------------------------------------
(* outputLoop and echoLoop *)

\* The ticker fires: outputResults locks p.mu.  The select may prefer it to a
\* context that has ended.
ListenerTick ==
  /\ lOut = "select"
  /\ lOut' = "output"
  /\ lOutTodo' = DOMAIN lRes
  /\ UNCHANGED <<lPc, lMsg, lEcho, echoChan, lFlowVars, skVars, envVars>>

\* One result goes to StatsKeeper.
ListenerOutput(t) ==
  /\ lOut = "output" /\ t \in lOutTodo
  /\ SKSend(<<t, lRes[t]>>)
  /\ lOutTodo' = lOutTodo \ {t}
  /\ UNCHANGED <<lPc, lMsg, lOut, lEcho, echoChan, lFlowVars, envVars>>

\* Mutant of ListenerOutputDone: with the context done it returns early, and
\* the mutex stays locked.
ListenerOutputDone_KeepsLock ==
  /\ lOut = "output" /\ lOutTodo = {} /\ ~ctxDone
  /\ lOut' = "select"
  /\ lRes' = [t \in listed |-> lZero]
  /\ UNCHANGED <<lPc, lMsg, lOutTodo, lEcho, echoChan, lSeq, sender, lNet, lRepeats,
                 lHist, skVars, envVars>>

\* initProbeRunResults: new targets, new results; p.mu is released.
ListenerOutputDone ==
  /\ lOut = "output" /\ lOutTodo = {}
  /\ lOut' = "select"
  /\ lRes' = [t \in listed |-> lZero]
  /\ UNCHANGED <<lPc, lMsg, lOutTodo, lEcho, echoChan, lSeq, sender, lNet, lRepeats,
                 lHist, skVars, envVars>>

ListenerOutputExit ==
  /\ lOut = "select" /\ ctxDone
  /\ lOut' = "done"
  /\ UNCHANGED <<lPc, lMsg, lOutTodo, lEcho, echoChan, lFlowVars, skVars, envVars>>

\* echoLoop writes a message back.
EchoWrite ==
  /\ lEcho = "select" /\ echoChan > 0
  /\ echoChan' = echoChan - 1
  /\ UNCHANGED <<lPc, lMsg, lOut, lOutTodo, lEcho, lFlowVars, skVars, envVars>>

EchoExit ==
  /\ lEcho = "select" /\ ctxDone
  /\ lEcho' = "done"
  /\ UNCHANGED <<lPc, lMsg, lOut, lOutTodo, echoChan, lFlowVars, skVars, envVars>>

ListenerNext ==
  \/ ListenerStart
  \/ \E t \in Targets : SenderSend(t) \/ SenderRestart(t) \/ ListenerOutput(t)
  \/ \E m \in lNet : ListenerRead(m)
  \/ ListenerEcho
  \/ ListenerProcess
  \/ ListenerRecvExit
  \/ ListenerReturn
  \/ ListenerTick
  \/ ListenerOutputDone
  \/ ListenerOutputExit
  \/ EchoWrite
  \/ EchoExit
  \/ (SKReceive \/ SKStop) /\ UNCHANGED <<listenerVars, envVars>>
  \/ (ListChange \/ EndContext) /\ UNCHANGED <<listenerVars, skVars>>

-----------------------------------------------------------------------------
(* Properties *)

\* A counter's sum over what StatsKeeper has, what is on its way to it and what
\* the listener is still collecting.
Reported(t, c) ==
  (IF t \in DOMAIN targetMetrics THEN targetMetrics[t][c] ELSE 0)
  + MapThenSumSet(LAMBDA i : IF resultsChan[i][1] = t THEN resultsChan[i][2][c] ELSE 0,
                  DOMAIN resultsChan)
  + (IF t \in DOMAIN lRes /\ (lOut = "output" => t \in lOutTodo) THEN lRes[t][c] ELSE 0)

\* The losses that the listener has reported and not taken back as delayed
\* messages are exactly the messages that have not arrived, across restarts of
\* the sender, changes of the target list and exports in between, as long as
\* the flow met nothing that its sequence numbers leave ambiguous.
ListenerLossAccurate ==
  lPc # "start" => \A t \in Targets :
    ~lHist[t].odd =>
      Reported(t, "lost") - Reported(t, "delayed")
        = lHist[t].carried + Missing(lHist[t])

\* Nothing is left to happen: outputLoop holds the mutex and sends to a keeper
\* that is gone, or recvLoop sends to an echoLoop that is gone.
ListenerBlocked ==
  \/ lOut = "output" /\ lOutTodo # {} /\ SKGone
  \/ lPc = "echo" /\ echoChan = EchoCap /\ lEcho = "done"

\* Once its context has ended the listener returns (and closes its socket),
\* unless one of those two sends blocks it for ever: there is no other
\* way for its goroutines to wait for one another.
ListenerShutdown ==
  (ctxDone /\ lPc # "start") ~> (lPc = "returned" \/ ListenerBlocked)
=============================================================================
