------------------------------ MODULE Servers ------------------------------
(***************************************************************************)
(* The servers that answer probes: UDP, HTTP, gRPC and external commands,  *)
(* each with its own goroutines, which the context of Start ends.  One of  *)
(* them is looked at in a behaviour.  A UDP packet is its number and its   *)
(* size, and an echo is the packet with the size that is sent.             *)
(***************************************************************************)
EXTENDS Integers, Sequences, FiniteSets, Functions

CONSTANTS
  UdpBatch,     \* batchSize
  UdpMaxSize,   \* maxPacketSize
  UdpSizes,     \* sizes of packets
  MaxPackets,   \* bound: packets sent to the server
  MaxWriteErrs, \* bound: writes that fail or write less
  HttpPaths,    \* path -> "lameduck", "healthcheck", "metadata", "static" or "unknown"
  MaxReqs,      \* bound: HTTP requests
  HttpChanCap   \* capacity of the data channel

ASSUME ServersAssumption == UdpBatch \in Nat \ {0} /\ UdpMaxSize \in Nat /\ UdpSizes \subseteq Nat

VARIABLES
  srvType,   \* "udp", "http", "grpc" or "external"
  srvPc,     \* Start: "init", "running" or "returned"
  srvCtx,    \* "live" or "done"
  srvLn,     \* is its connection or listener open?
  uEcho,     \* type ECHO, not DISCARD
  uAdvanced, \* advancedReadWrite
  uIn,       \* packets that have arrived
  uBufs,     \* lengths of the buffers of ms
  uBatch,    \* messages being echoed
  uRemain,   \* remaining
  uOut,      \* echoes
  uSent,     \* packets sent so far
  uErrs,     \* history: [failed, partial]: numbers of such writes
  wLister,   \* is there a lameduck lister?
  wDuck,     \* does it list this instance?
  wReq,      \* reqMetric
  wChan,     \* EventMetrics in the data channel: history, the values at their ticks
  wStatus,   \* status of the last answer
  gsDedicated, \* use_dedicated_server
  gsHealth,   \* status of the health server
  gsStop,     \* the goroutine that shuts down: "wait", "marked" or "stopped"
  gsPc,       \* Start: "start" or "serve"
  wCmd       \* the command: "none", "running" or "ended"

udpSrvVars == <<uEcho, uAdvanced, uIn, uBufs, uBatch, uRemain, uOut, uSent, uErrs>>
httpSrvVars == <<wLister, wDuck, wReq, wChan, wStatus>>
grpcSrvVars == <<gsDedicated, gsHealth, gsStop, gsPc>>
srvVars == <<srvType, srvPc, srvCtx, srvLn, udpSrvVars, httpSrvVars, grpcSrvVars, wCmd>>

FullBufs == [i \in 1..UdpBatch |-> UdpMaxSize]

\* The New functions.  Advanced reads and writes are for systems other than Windows.
SrvsInit ==
  /\ srvType \in {"udp", "http", "grpc", "external"}
  /\ srvPc = "init" /\ srvCtx = "live" /\ srvLn = TRUE
  /\ uEcho \in BOOLEAN /\ uAdvanced \in BOOLEAN
  /\ uIn = <<>> /\ uBufs = FullBufs /\ uBatch = <<>> /\ uRemain = 0 /\ uOut = <<>>
  /\ uSent = 0 /\ uErrs = [failed |-> 0, partial |-> 0]
  /\ wLister \in BOOLEAN /\ wDuck = FALSE /\ wReq = [p \in {} |-> 0] /\ wChan = <<>>
  /\ wStatus = 200
  /\ gsDedicated \in BOOLEAN /\ gsHealth = "unknown" /\ gsStop = "wait" /\ gsPc = "start"
  /\ wCmd = "none"
  /\ srvType # "udp" => uEcho /\ uAdvanced
  /\ srvType # "http" => ~wLister
  /\ srvType # "grpc" => gsDedicated

SrvStart ==
  /\ srvPc = "init"
  /\ srvPc' = IF srvType = "external" THEN "returned" ELSE "running"
  /\ wCmd' = IF srvType = "external" THEN "running" ELSE wCmd
  /\ UNCHANGED <<srvType, srvCtx, srvLn, udpSrvVars, httpSrvVars, grpcSrvVars>>

SrvCancel ==
  /\ srvCtx = "live" /\ srvCtx' = "done"
  /\ UNCHANGED <<srvType, srvPc, srvLn, udpSrvVars, httpSrvVars, grpcSrvVars, wCmd>>

\* The goroutines of New and Start that close the connection or the listener.
SrvClose ==
  /\ srvType \in {"udp", "http"} /\ srvCtx = "done" /\ srvLn /\ srvLn' = FALSE
  /\ UNCHANGED <<srvType, srvPc, srvCtx, udpSrvVars, httpSrvVars, grpcSrvVars, wCmd>>

\* exec.CommandContext: the command ends, by itself or with the context.
CommandEnds ==
  /\ wCmd = "running" /\ wCmd' = "ended"
  /\ UNCHANGED <<srvType, srvPc, srvCtx, srvLn, udpSrvVars, httpSrvVars, grpcSrvVars>>

-----------------------------------------------------------------------------
(* UDP *)

UdpArrive ==
  /\ srvType = "udp" /\ srvLn /\ uSent < MaxPackets /\ uSent' = uSent + 1
  /\ \E n \in UdpSizes : uIn' = Append(uIn, [id |-> uSent + 1, size |-> n])
  /\ UNCHANGED <<srvType, srvPc, srvCtx, srvLn, uEcho, uAdvanced, uBufs, uBatch, uRemain, uOut,
                 uErrs, httpSrvVars, grpcSrvVars, wCmd>>

Read(n, len) == [i \in 1..n |-> [id |-> uIn[i].id, size |-> uIn[i].size,
                                 n |-> IF uIn[i].size > len[i] THEN len[i] ELSE uIn[i].size]]
UdpReading == srvType = "udp" /\ srvPc = "running" /\ uBatch = <<>>

\* readAndEchoBatch up to the write: ReadBatch takes some of the packets that are
\* there, and the buffers are cut to what was read.
ReadBatch ==
  /\ UdpReading /\ uAdvanced /\ uEcho /\ srvLn
  /\ \E n \in 1..UdpBatch :
       /\ n <= Len(uIn) /\ uIn' = SubSeq(uIn, n + 1, Len(uIn))
       /\ uBatch' = Read(n, uBufs) /\ uRemain' = n
       /\ uBufs' = [i \in DOMAIN uBufs |-> IF i <= n THEN uBatch'[i].n ELSE uBufs[i]]
  /\ UNCHANGED <<srvType, srvPc, srvCtx, srvLn, uEcho, uAdvanced, uOut, uSent, uErrs,
                 httpSrvVars, grpcSrvVars, wCmd>>

\* Mutant of WriteBatch: the buffers are not given their full size again.
WriteBatch_NoReset ==
  /\ srvLn /\ uBatch # <<>> /\ uAdvanced
  /\ \E n \in 1..Len(uBatch) :
       /\ n < Len(uBatch) => uErrs.failed + uErrs.partial < MaxWriteErrs
       /\ uErrs' = IF n < Len(uBatch) THEN [uErrs EXCEPT !.partial = @ + 1] ELSE uErrs
       /\ uOut' = uOut \o SubSeq(uBatch, 1, n)
       /\ IF n < uRemain THEN uRemain' = uRemain - n /\ UNCHANGED <<uBatch, uBufs>>
          ELSE uRemain' = 0 /\ uBatch' = <<>> /\ UNCHANGED uBufs
  /\ UNCHANGED <<srvType, srvPc, srvCtx, srvLn, uEcho, uAdvanced, uIn, uSent, httpSrvVars,
                 grpcSrvVars, wCmd>>

\* One WriteBatch of the loop: it is always given the whole of ms.  The last one
\* resets the buffers of the batch.
WriteBatch ==
  /\ srvLn /\ uBatch # <<>> /\ uAdvanced
  /\ \E n \in 1..Len(uBatch) :
       /\ n < Len(uBatch) => uErrs.failed + uErrs.partial < MaxWriteErrs
       /\ uErrs' = IF n < Len(uBatch) THEN [uErrs EXCEPT !.partial = @ + 1] ELSE uErrs
       /\ uOut' = uOut \o SubSeq(uBatch, 1, n)
       /\ IF n < uRemain THEN uRemain' = uRemain - n /\ UNCHANGED <<uBatch, uBufs>>
          ELSE /\ uRemain' = 0 /\ uBatch' = <<>>
               /\ uBufs' = [i \in DOMAIN uBufs |->
                              IF i <= Len(uBatch) THEN UdpMaxSize ELSE uBufs[i]]
  /\ UNCHANGED <<srvType, srvPc, srvCtx, srvLn, uEcho, uAdvanced, uIn, uSent, httpSrvVars,
                 grpcSrvVars, wCmd>>

\* A write that fails, or that writes nothing.  Start returns if it failed because
\* the connection is closed, and goes on otherwise.
UdpWriteFails ==
  /\ uBatch # <<>> /\ uBatch' = <<>> /\ uRemain' = 0
  /\ \/ ~srvLn /\ srvPc' = "returned" /\ UNCHANGED uErrs
     \/ /\ srvLn /\ uErrs.failed + uErrs.partial < MaxWriteErrs
        /\ uErrs' = [uErrs EXCEPT !.failed = @ + 1] /\ UNCHANGED srvPc
  /\ UNCHANGED <<srvType, srvCtx, srvLn, uEcho, uAdvanced, uIn, uBufs, uOut, uSent, httpSrvVars,
                 grpcSrvVars, wCmd>>

\* readAndEchoSimple up to the write: an empty packet is an error.
ReadFromUDP ==
  /\ UdpReading /\ ~uAdvanced /\ uEcho /\ srvLn /\ uIn # <<>> /\ uIn' = Tail(uIn)
  /\ LET m == Read(1, FullBufs)
     IN IF m[1].n = 0 THEN UNCHANGED <<uBatch, uRemain>> ELSE uBatch' = m /\ uRemain' = 1
  /\ UNCHANGED <<srvType, srvPc, srvCtx, srvLn, uEcho, uAdvanced, uBufs, uOut, uSent, uErrs,
                 httpSrvVars, grpcSrvVars, wCmd>>

\* Its write.
WriteToUDP ==
  /\ srvLn /\ uBatch # <<>> /\ ~uAdvanced
  /\ uOut' = uOut \o uBatch /\ uBatch' = <<>> /\ uRemain' = 0
  /\ UNCHANGED <<srvType, srvPc, srvCtx, srvLn, uEcho, uAdvanced, uIn, uBufs, uSent, uErrs,
                 httpSrvVars, grpcSrvVars, wCmd>>

\* A read of a DISCARD server.
UdpDiscard ==
  /\ UdpReading /\ ~uEcho /\ srvLn /\ uIn # <<>>
  /\ \E n \in 1..(IF uAdvanced THEN UdpBatch ELSE 1) :
       n <= Len(uIn) /\ uIn' = SubSeq(uIn, n + 1, Len(uIn))
  /\ UNCHANGED <<srvType, srvPc, srvCtx, srvLn, uEcho, uAdvanced, uBufs, uBatch, uRemain, uOut,
                 uSent, uErrs, httpSrvVars, grpcSrvVars, wCmd>>

\* A read from a closed connection: net.ErrClosed.
UdpReturn ==
  /\ UdpReading /\ ~srvLn /\ srvPc' = "returned"
  /\ UNCHANGED <<srvType, srvCtx, srvLn, udpSrvVars, httpSrvVars, grpcSrvVars, wCmd>>

-----------------------------------------------------------------------------
(* HTTP *)

\* lameduckStatus: without a lister, an error and FALSE.
lameduckStatus == wLister /\ wDuck

\* The status that the handlers of the paths answer with.  The metadata may be
\* found or not.
Statuses(p) ==
  CASE HttpPaths[p] = "healthcheck" -> {IF lameduckStatus THEN 503 ELSE 200}
    [] HttpPaths[p] = "metadata"    -> {200, 404}
    [] HttpPaths[p] = "unknown"     -> {404}
    [] OTHER                        -> {200}

IncKey(m, p) ==
  [q \in DOMAIN m \union {p} |->
     (IF q \in DOMAIN m THEN m[q] ELSE 0) + (IF q = p THEN 1 ELSE 0)]

Total(m) == SumFunction(m)

\* handler: a path without a response returns before it is counted.
HttpHandler(p) ==
  /\ wStatus' \in Statuses(p)
  /\ wReq' = IF HttpPaths[p] = "unknown" THEN wReq ELSE IncKey(wReq, p)

HttpRequest ==
  /\ srvType = "http" /\ srvPc = "running" /\ srvLn /\ Total(wReq) < MaxReqs
  /\ \E p \in DOMAIN HttpPaths : HttpHandler(p)
  /\ UNCHANGED <<srvType, srvPc, srvCtx, srvLn, udpSrvVars, wLister, wDuck, wChan,
                 grpcSrvVars, wCmd>>

\* The lameduck lister's list changes.
HttpLameduck ==
  /\ srvType = "http" /\ wLister /\ wDuck' = ~wDuck
  /\ UNCHANGED <<srvType, srvPc, srvCtx, srvLn, udpSrvVars, wLister, wReq, wChan, wStatus,
                 grpcSrvVars, wCmd>>

\* statsKeeper: the EventMetrics has reqMetric itself, no copy.  It never ends.
HttpExport ==
  /\ srvType = "http" /\ srvPc # "init" /\ Len(wChan) < HttpChanCap
  /\ wChan' = Append(wChan, wReq)
  /\ UNCHANGED <<srvType, srvPc, srvCtx, srvLn, udpSrvVars, wLister, wDuck, wReq, wStatus,
                 grpcSrvVars, wCmd>>

\* The surfacers read an EventMetrics; when Start's context has ended nobody does.
HttpSurface ==
  /\ srvType = "http" /\ srvCtx = "live" /\ wChan # <<>>
  /\ wChan' = Tail(wChan)
  /\ UNCHANGED <<srvType, srvPc, srvCtx, srvLn, udpSrvVars, wLister, wDuck, wReq, wStatus,
                 grpcSrvVars, wCmd>>

HttpReturn ==
  /\ srvType = "http" /\ srvPc = "running" /\ ~srvLn /\ srvPc' = "returned"
  /\ UNCHANGED <<srvType, srvCtx, srvLn, udpSrvVars, httpSrvVars, grpcSrvVars, wCmd>>

-----------------------------------------------------------------------------
(* gRPC *)

Grpc(A) ==
  /\ srvType = "grpc" /\ A
  /\ UNCHANGED <<srvType, srvCtx, udpSrvVars, httpSrvVars, gsDedicated, wCmd>>

\* Start, up to Serve; a server that is shared only waits for the context.
GrpcServing == Grpc(/\ srvPc = "running" /\ gsDedicated /\ gsPc = "start"
                    /\ gsPc' = "serve" /\ gsHealth' = "SERVING"
                    /\ UNCHANGED <<srvPc, srvLn, gsStop>>)

\* The goroutine at the end of the context.
GrpcNotServing == Grpc(/\ srvCtx = "done" /\ srvPc # "init" /\ gsDedicated /\ gsStop = "wait"
                       /\ gsStop' = "marked" /\ gsHealth' = "NOT_SERVING"
                       /\ UNCHANGED <<srvPc, srvLn, gsPc>>)
GrpcStop == Grpc(/\ gsStop = "marked" /\ gsStop' = "stopped"
                 /\ srvLn' = (gsPc = "start" /\ srvLn)
                 /\ UNCHANGED <<srvPc, gsHealth, gsPc>>)

\* Serve returns, after Stop or, before Serve, at once; it closes the listener.
GrpcReturn == Grpc(/\ srvPc = "running" /\ srvPc' = "returned"
                   /\ \/ ~gsDedicated /\ srvCtx = "done" /\ UNCHANGED srvLn
                      \/ gsDedicated /\ gsPc = "serve" /\ gsStop = "stopped" /\ srvLn' = FALSE
                   /\ UNCHANGED <<gsHealth, gsStop, gsPc>>)

SrvsNext ==
  \/ SrvStart \/ SrvCancel \/ SrvClose \/ CommandEnds
  \/ UdpArrive \/ ReadBatch \/ WriteBatch \/ UdpWriteFails \/ ReadFromUDP \/ WriteToUDP
  \/ UdpDiscard \/ UdpReturn
  \/ HttpRequest \/ HttpLameduck \/ HttpExport \/ HttpSurface \/ HttpReturn
  \/ GrpcServing \/ GrpcNotServing \/ GrpcStop \/ GrpcReturn

SrvsSpec == SrvsInit /\ [][SrvsNext]_srvVars

-----------------------------------------------------------------------------
(* Properties *)

Times(id) == Cardinality({i \in DOMAIN uOut : uOut[i].id = id})

\* Counts at most as high.
Leq(m, k) == \A p \in DOMAIN m : p \in DOMAIN k /\ m[p] <= k[p]

\* A UDP packet is echoed at most once and, up to maxPacketSize, in full, whatever
\* is read and written at once, until a write goes wrong: after one that wrote only
\* a part of a batch the packets at its front are echoed again and those at its
\* end never, and after one that failed the next batch is cut to the sizes of the
\* batch that failed.  The counts of HTTP requests that are surfaced, which go on
\* changing on their way, are never behind those at the tick.
EchoedOnce ==
  /\ uErrs.partial = 0 => \A i \in DOMAIN uOut : Times(uOut[i].id) = 1
  /\ uErrs.failed = 0 =>
       \A i \in DOMAIN uOut :
         uOut[i].n = (IF uOut[i].size > UdpMaxSize THEN UdpMaxSize ELSE uOut[i].size)
  /\ uErrs.partial + uErrs.failed = 0 /\ uBatch = <<>> /\ uAdvanced /\ uEcho /\ srvPc = "running" =>
       Len(uOut) + Len(uIn) = uSent
  /\ ~uEcho => uOut = <<>>
  /\ \A i \in DOMAIN wChan : Leq(wChan[i], wReq)

\* Start of a server returns once its context has ended, even if that happens while
\* it starts, writes or serves; a shared gRPC server waits for the context only,
\* and an external server has returned before.
ServersReturn == (srvPc = "running" /\ srvCtx = "done") ~> srvPc = "returned"
=============================================================================
