---------------------------- MODULE LineSurfacers ----------------------------
(***************************************************************************)
(* The file and the Pub/Sub surfacer.  Write queues an EventMetrics;       *)
(* processInput makes a line of it, which goes straight to the output or   *)
(* into a CompressionBuffer.  The buffer is flushed by processInput when   *)
(* it is full, by a ticker and by Close; each flush takes the buffer under *)
(* its mutex, and compresses and outputs it after the unlock.  A line is   *)
(* the number of its EventMetrics; a batch is the sequence of its lines.   *)
(* Left out: the results of publishing, up to 1000 of which are queued.    *)
(***************************************************************************)
EXTENDS Naturals, Sequences

CONSTANTS
  LineQueueCap,  \* opts.MetricsBufferSize
  BatchLines,    \* batchSize, opts.MetricsBufferSize / 10
  MaxWrites      \* bound: EventMetrics written

VARIABLES
  oSink,      \* "file" or "pubsub"
  oCompress,  \* compression_enabled
  oQueue,     \* inChan
  oWrites,    \* EventMetrics written, also those that were dropped
  oId,        \* s.id, from 0; the lines made so far
  oPc,        \* processInput: "select", "flush", "callback" or "done"
  oTicker,    \* flush loop: "wait", "flush", "callback" or "done"
  oCloser,    \* close: "no", "waiting", "flush", "callback" or "closed"
  oBuf,       \* lines in the CompressionBuffer
  oHand,      \* batch that a flush of each goroutine has taken
  oOut,       \* batches output, in order
  oLate,      \* batches output after the file or the topic was closed
  oCtx,       \* is the context done?
  oMade       \* history: the lines that processInput has made

lineVars == <<oSink, oCompress, oQueue, oWrites, oId, oPc, oTicker, oCloser, oBuf, oHand,
              oOut, oLate, oCtx, oMade>>

Flushers == {"input", "ticker", "closer"}

LineInit ==
  /\ oSink \in {"file", "pubsub"} /\ oCompress \in BOOLEAN
  /\ oQueue = <<>> /\ oWrites = 0 /\ oId = 0
  /\ oPc = "select" /\ oCloser = "no"
  /\ oTicker = (IF oCompress THEN "wait" ELSE "done")
  /\ oBuf = <<>> /\ oHand = [g \in Flushers |-> <<>>]
  /\ oOut = <<>> /\ oLate = <<>> /\ oCtx = FALSE /\ oMade = {}

\* Write: a full queue drops the EventMetrics.
LineWrite ==
  /\ oWrites < MaxWrites /\ oCloser = "no"
  /\ oWrites' = oWrites + 1
  /\ oQueue' = IF Len(oQueue) < LineQueueCap THEN Append(oQueue, oWrites') ELSE oQueue
  /\ UNCHANGED <<oSink, oCompress, oId, oPc, oTicker, oCloser, oBuf, oHand, oOut, oLate, oCtx,
                 oMade>>

\* The callback of the file surfacer: a write to a closed file only logs.
WriteToFile(batch) ==
  /\ oSink = "file"
  /\ IF oCloser = "closed" THEN oLate' = Append(oLate, batch) /\ UNCHANGED oOut
                           ELSE oOut' = Append(oOut, batch) /\ UNCHANGED oLate

\* publishMessage.  The topic is stopped by close, and by a goroutine of its own
\* once the context is done; what is published to a stopped topic fails.
PublishMessage(batch) ==
  /\ oSink = "pubsub"
  /\ \/ oCloser # "closed" /\ oOut' = Append(oOut, batch) /\ UNCHANGED oLate
     \/ (oCtx \/ oCloser = "closed") /\ oLate' = Append(oLate, batch) /\ UNCHANGED oOut

Output(batch) == WriteToFile(batch) \/ PublishMessage(batch)

\* WriteLineToBuffer, up to its unlock.
WriteLineToBuffer(line) ==
  /\ oBuf' = Append(oBuf, line)
  /\ oPc' = IF Len(oBuf') >= BatchLines THEN "flush" ELSE "select"

\* processInput receives an EventMetrics.
ProcessInput ==
  /\ oPc = "select" /\ oQueue # <<>>
  /\ oQueue' = Tail(oQueue) /\ oId' = oId + 1 /\ oMade' = oMade \union {Head(oQueue)}
  /\ IF oCompress THEN WriteLineToBuffer(Head(oQueue)) /\ UNCHANGED <<oOut, oLate>>
                  ELSE Output(<<Head(oQueue)>>) /\ UNCHANGED <<oBuf, oPc>>
  /\ UNCHANGED <<oSink, oCompress, oWrites, oTicker, oCloser, oHand, oCtx>>

\* processInput ends with its context, or once the closed queue is empty.
ProcessInputExit ==
  /\ oPc = "select"
  /\ oCtx \/ (oCloser # "no" /\ oQueue = <<>>)
  /\ oPc' = "done"
  /\ UNCHANGED <<oSink, oCompress, oQueue, oWrites, oId, oTicker, oCloser, oBuf, oHand, oOut,
                 oLate, oCtx, oMade>>

\* Where goroutine g goes once it has flushed.
AfterFlush(g) ==
  /\ oPc' = IF g = "input" THEN "select" ELSE oPc
  /\ oTicker' = IF g = "ticker" THEN "wait" ELSE oTicker
  /\ oCloser' = IF g = "closer" THEN "closed" ELSE oCloser

At(g) == CASE g = "input" -> oPc [] g = "ticker" -> oTicker [] g = "closer" -> oCloser

\* Mutant of TakeBuffer: the buffer is not replaced when it is taken.
TakeBuffer_Kept(g) ==
  /\ oHand' = [oHand EXCEPT ![g] = oBuf]
  /\ UNCHANGED oBuf

\* compressAndCallback, its locked section: the buffer is taken and replaced.
TakeBuffer(g) ==
  /\ oHand' = [oHand EXCEPT ![g] = oBuf]
  /\ oBuf' = <<>>

\* compressAndCallback up to the unlock: an empty buffer ends it.
FlushTake(g) ==
  /\ At(g) = "flush"
  /\ TakeBuffer(g)
  /\ IF oBuf = <<>> THEN AfterFlush(g)
     ELSE /\ oPc' = IF g = "input" THEN "callback" ELSE oPc
          /\ oTicker' = IF g = "ticker" THEN "callback" ELSE oTicker
          /\ oCloser' = IF g = "closer" THEN "callback" ELSE oCloser
  /\ UNCHANGED <<oSink, oCompress, oQueue, oWrites, oId, oOut, oLate, oCtx, oMade>>

\* The rest of compressAndCallback.
FlushCallback(g) ==
  /\ At(g) = "callback"
  /\ Output(oHand[g])
  /\ oHand' = [oHand EXCEPT ![g] = <<>>]
  /\ AfterFlush(g)
  /\ UNCHANGED <<oSink, oCompress, oQueue, oWrites, oId, oBuf, oCtx, oMade>>

\* A tick of the flush loop, whose context Close cancels before it flushes.
FlushTick ==
  /\ oTicker = "wait"
  /\ oTicker' = IF oCtx \/ oCloser \in {"flush", "callback", "closed"} THEN "done"
                ELSE "flush"
  /\ UNCHANGED <<oSink, oCompress, oQueue, oWrites, oId, oPc, oCloser, oBuf, oHand, oOut,
                 oLate, oCtx, oMade>>

\* close: the queue is closed, processInput waited for and the buffer closed.
LineClose ==
  /\ \/ oCloser = "no" /\ oCloser' = "waiting"
     \/ /\ oCloser = "waiting" /\ oPc = "done"
        /\ oCloser' = IF oCompress THEN "flush" ELSE "closed"
  /\ UNCHANGED <<oSink, oCompress, oQueue, oWrites, oId, oPc, oTicker, oBuf, oHand, oOut,
                 oLate, oCtx, oMade>>

LineCtxDone ==
  /\ ~oCtx /\ oCtx' = TRUE
  /\ UNCHANGED <<oSink, oCompress, oQueue, oWrites, oId, oPc, oTicker, oCloser, oBuf, oHand,
                 oOut, oLate, oMade>>

LineNext ==
  \/ LineWrite \/ ProcessInput \/ ProcessInputExit \/ FlushTick \/ LineClose \/ LineCtxDone
  \/ \E g \in Flushers : FlushTake(g) \/ FlushCallback(g)

LineSpec == LineInit /\ [][LineNext]_lineVars

-----------------------------------------------------------------------------
(* Properties *)

\* Where a batch of lines can be: output, the n-th, in time or too late, in the
\* hands of a goroutine, or in the buffer.
Places ==
  [at : {"out"}, n : DOMAIN oOut] \union [at : {"late"}, n : DOMAIN oLate]
    \union [at : Flushers \union {"buffer"}, n : {0}]

Batches ==
  [p \in Places |-> CASE p.at = "out"     -> oOut[p.n]
                      [] p.at = "late"    -> oLate[p.n]
                      [] p.at = "buffer"  -> oBuf
                      [] p.at \in Flushers -> oHand[p.at]]

InOrder(batch) == \A i, j \in DOMAIN batch : i < j => batch[i] < batch[j]
AllBefore(a, b) == \A i \in DOMAIN a, j \in DOMAIN b : a[i] < b[j]

\* Each line that processInput makes is in exactly one place: no flush loses or
\* repeats a line, however the three flushes interleave, and none tears a batch
\* apart: of two batches one has all its lines before those of the other.  When
\* close has returned with the context alive, every line was output, but for one
\* batch that the flush loop took before Close and still holds or output too late.
LinesKept ==
  LET batches == Batches
      held    == {p \in DOMAIN batches : batches[p] # <<>>}
  IN /\ oMade = UNION {{batches[p][i] : i \in DOMAIN batches[p]} : p \in held}
     /\ \A p \in held : InOrder(batches[p])
     /\ \A p, q \in held :
          p # q => AllBefore(batches[p], batches[q]) \/ AllBefore(batches[q], batches[p])
     /\ oCloser = "closed" => oBuf = <<>> /\ oHand["input"] = <<>>
     /\ oCloser = "closed" /\ ~oCtx =>
          Len(oLate) + (IF oHand["ticker"] = <<>> THEN 0 ELSE 1) <= 1
=============================================================================
