--------------------------- MODULE ExternalProbe ----------------------------
(***************************************************************************)
(* The external probe.  In server mode it starts a process once and then,  *)
(* in every run, writes one numbered request per target to it.  A reader   *)
(* goroutine takes the process's replies, in any order and possibly of an  *)
(* earlier run, to the run's receiver goroutine over an unbuffered         *)
(* channel; a monitor goroutine waits for the process to die, so that the  *)
(* next run starts it again.  In once mode every target has the command    *)
(* run for it by a goroutine.                                              *)
(*                                                                         *)
(* The process answers like serverutils.Serve: it reads requests as they   *)
(* come and answers each one at most once.                                 *)
(***************************************************************************)
EXTENDS ProbeEnv

CONSTANTS
  PipeCap,     \* replies that fit in the process's output pipe
  MaxExtRuns,  \* bound: probe runs
  MaxProcs     \* bound: processes started

VARIABLES
  xMode,       \* p.mode: "server" or "once"
  xPc,         \* main goroutine: "tick", "started" (process started, cmdRunning not
               \* yet set), "send", "wait" (wg.Wait), "returned"
  xRun,        \* number of the run
  xProbeDone,  \* has probeCtx of the run timed out?
  xTodo,       \* targets of the run without a request (server) or command (once)
  xOnce,       \* targets whose command is running
  xResults,    \* p.results
  requestID,   \* p.requestID
  requests,    \* outstanding requests of the run: id |-> target
  xRecv,       \* the run's receiver: is it running?
  xProcs,      \* processes started so far
  xAlive,      \* is the last one running?
  xMonitor,    \* its monitor: "none", "wait", "closed" (doneChan closed), "done"
  cmdRunning,  \* p.cmdRunning
  xPending,    \* requests that the process is working on
  xPipe,       \* replies in its output pipe
  xReading,    \* processes whose reader is running
  xHeld,       \* replies that readers are sending on replyChan
  xProcessed,  \* history: calls of processProbeResult per target
  xForeign,    \* history: was a reply of another run taken for one of this run?
  xRaced       \* history: did main set cmdRunning after the monitor reset it?

xMainVars == <<xMode, xPc, xRun, xProbeDone, xTodo, xOnce, requestID, requests, xRecv>>
xProcVars == <<xProcs, xAlive, xMonitor, cmdRunning, xPending, xPipe, xReading, xHeld>>
xHistVars == <<xProcessed, xForeign, xRaced>>
extVars == <<xMainVars, xResults, xProcVars, xHistVars>>

ExtInit ==
  /\ xMode \in {"server", "once"}
  /\ xPc = "tick"
  /\ xRun = 0
  /\ xProbeDone = FALSE
  /\ xTodo = {} /\ xOnce = {}
  /\ xResults = <<>>
  /\ requestID = 0
  /\ requests = <<>>
  /\ xRecv = FALSE
  /\ xProcs = 0 /\ xAlive = FALSE /\ xMonitor = "none" /\ cmdRunning = FALSE
  /\ xPending = {} /\ xPipe = <<>> /\ xReading = {} /\ xHeld = {}
  /\ xProcessed = [t \in Targets |-> 0]
  /\ xForeign = FALSE
  /\ xRaced = FALSE

\* processProbeResult: count a success; one EventMetrics is sent.
processProbeResult(t, ok) ==
  /\ xResults' = [xResults EXCEPT ![t].success = @ + ok]
  /\ xProcessed' = [xProcessed EXCEPT ![t] = @ + 1]

-----------------------------------------------------------------------------
(* The main goroutine *)

\* The ticker fires and the context has ended.
ExtReturn ==
  /\ xPc = "tick" /\ ctxDone
  /\ xPc' = "returned"
  /\ UNCHANGED <<xMode, xRun, xProbeDone, xTodo, xOnce, requestID, requests, xRecv,
                 xResults, xProcVars, xHistVars, envVars>>

\* runProbe begins: updateTargets and, in server mode, startCmdIfNotRunning,
\* which may fail and end the run.
ExtRunProbe ==
  /\ xPc = "tick" /\ ~ctxDone /\ xRun < MaxExtRuns
  /\ xRun' = xRun + 1
  /\ xProbeDone' = FALSE
  /\ xResults' = Merged(xResults, [t \in listed |-> [total |-> 0, success |-> 0]])
  /\ xTodo' = listed
  /\ requests' = <<>>
  /\ \/ /\ xMode = "server" /\ ~cmdRunning /\ xProcs < MaxProcs
        /\ xPc' = "started"
        /\ xProcs' = xProcs + 1
        /\ xAlive' = TRUE
        /\ xMonitor' = "wait"
        /\ xPending' = {} /\ xPipe' = <<>>
        /\ xReading' = xReading \cup {xProcs + 1}
     \/ /\ xMode = "server" /\ ~cmdRunning
        /\ xPc' = "tick"
        /\ UNCHANGED <<xProcs, xAlive, xMonitor, xPending, xPipe, xReading>>
     \/ /\ xMode = "once" \/ cmdRunning
        /\ xPc' = "send"
        /\ UNCHANGED <<xProcs, xAlive, xMonitor, xPending, xPipe, xReading>>
  /\ xRecv' = (xPc' # "tick" /\ xMode = "server")
  /\ UNCHANGED <<xMode, xOnce, requestID, cmdRunning, xHeld, xHistVars, envVars>>

\* The last step of startCmdIfNotRunning, with the monitor running already.
ExtSetRunning ==
  /\ xPc = "started"
  /\ xPc' = "send"
  /\ cmdRunning' = TRUE
  /\ xRaced' = (xRaced \/ xMonitor = "done")
  /\ UNCHANGED <<xMode, xRun, xProbeDone, xTodo, xOnce, requestID, requests, xRecv,
                 xResults, xProcs, xAlive, xMonitor, xPending, xPipe, xReading, xHeld,
                 xProcessed, xForeign, envVars>>

\* Mutant of NextID: every run numbers its requests from 1.
NextID_PerRun == Cardinality(DOMAIN requests) + 1

NextID == requestID + 1

\* Send the request of one target; errors of the write are ignored.
ExtSendRequest(t) ==
  /\ xPc = "send" /\ xMode = "server" /\ t \in xTodo
  /\ xTodo' = xTodo \ {t}
  /\ requestID' = NextID
  /\ requests' = Merged([i \in {requestID'} |-> t], requests)
  /\ xResults' = [xResults EXCEPT ![t].total = @ + 1]
  /\ xPending' = IF xAlive THEN xPending \cup {[id |-> requestID', run |-> xRun]}
                 ELSE xPending
  /\ UNCHANGED <<xMode, xPc, xRun, xProbeDone, xOnce, xRecv, xProcs, xAlive, xMonitor,
                 cmdRunning, xPipe, xReading, xHeld, xHistVars, envVars>>

\* All requests are sent (doneChan is closed), or all commands started.
ExtAllSent ==
  /\ xPc = "send" /\ xTodo = {}
  /\ xPc' = "wait"
  /\ UNCHANGED <<xMode, xRun, xProbeDone, xTodo, xOnce, requestID, requests, xRecv,
                 xResults, xProcVars, xHistVars, envVars>>

\* Requests of a target that are still outstanding.
Outstanding(t) == Cardinality({i \in DOMAIN requests : requests[i] = t})

\* wg.Wait returns; every outstanding request gets a failed result.
ExtEndRun ==
  /\ xPc = "wait" /\ ~xRecv /\ xOnce = {}
  /\ xPc' = "tick"
  /\ xProcessed' = [t \in Targets |-> xProcessed[t] + Outstanding(t)]
  /\ requests' = <<>>
  /\ UNCHANGED <<xMode, xRun, xProbeDone, xTodo, xOnce, requestID, xRecv, xResults,
                 xProcVars, xForeign, xRaced, envVars>>

-----------------------------------------------------------------------------
(* Once mode *)

ExtStartCommand(t) ==
  /\ xPc = "send" /\ xMode = "once" /\ t \in xTodo
  /\ xTodo' = xTodo \ {t}
  /\ xOnce' = xOnce \cup {t}
  /\ xResults' = [xResults EXCEPT ![t].total = @ + 1]
  /\ UNCHANGED <<xMode, xPc, xRun, xProbeDone, requestID, requests, xRecv, xProcVars,
                 xHistVars, envVars>>

\* The command ends, at the latest when probeCtx kills it.
ExtCommandEnds(t) ==
  /\ t \in xOnce
  /\ xOnce' = xOnce \ {t}
  /\ \E ok \in IF xProbeDone \/ ctxDone THEN {0} ELSE {0, 1} : processProbeResult(t, ok)
  /\ UNCHANGED <<xMode, xPc, xRun, xProbeDone, xTodo, requestID, requests, xRecv,
                 xProcVars, xForeign, xRaced, envVars>>

-----------------------------------------------------------------------------
(* The run's receiver, which looks at replies once all requests are sent *)

\* Mutant of ExtRecvExit: the receiver waits for every reply.
ExtRecvExit_NoCtx ==
  /\ xRecv /\ xPc = "wait"
  /\ requests = <<>>
  /\ xRecv' = FALSE
  /\ UNCHANGED <<xMode, xPc, xRun, xProbeDone, xTodo, xOnce, requestID, requests,
                 xResults, xProcVars, xHistVars, envVars>>

\* No request is outstanding, or probeCtx is done.
ExtRecvExit ==
  /\ xRecv /\ xPc = "wait"
  /\ requests = <<>> \/ xProbeDone \/ ctxDone
  /\ xRecv' = FALSE
  /\ UNCHANGED <<xMode, xPc, xRun, xProbeDone, xTodo, xOnce, requestID, requests,
                 xResults, xProcVars, xHistVars, envVars>>

\* A reply from a reader: it is ignored unless its request is outstanding.  The
\* reader goes on, unless its process has died meanwhile.
ExtReceive(rep) ==
  /\ xRecv /\ xPc = "wait" /\ requests # <<>>
  /\ rep \in xHeld
  /\ xHeld' = xHeld \ {rep}
  /\ IF rep.id \in DOMAIN requests
     THEN /\ \E ok \in {0, 1} : processProbeResult(requests[rep.id], ok)
          /\ requests' = [i \in DOMAIN requests \ {rep.id} |-> requests[i]]
          /\ xForeign' = (xForeign \/ rep.run # xRun)
     ELSE UNCHANGED <<xResults, xProcessed, requests, xForeign>>
  /\ UNCHANGED <<xMode, xPc, xRun, xProbeDone, xTodo, xOnce, requestID, xRecv, xProcs,
                 xAlive, xMonitor, cmdRunning, xPending, xPipe, xReading, xRaced,
                 envVars>>

ExtProbeTimeout ==
  /\ xPc \in {"started", "send", "wait"} /\ ~xProbeDone
  /\ xProbeDone' = TRUE
  /\ UNCHANGED <<xMode, xPc, xRun, xTodo, xOnce, requestID, requests, xRecv, xResults,
                 xProcVars, xHistVars, envVars>>

-----------------------------------------------------------------------------
(* The process, its reader and its monitor *)

\* The process answers a request; the write blocks while the pipe is full.
ProcReply(req) ==
  /\ xAlive /\ req \in xPending /\ Len(xPipe) < PipeCap
  /\ xPending' = xPending \ {req}
  /\ xPipe' = Append(xPipe, req)
  /\ UNCHANGED <<xMainVars, xResults, xProcs, xAlive, xMonitor, cmdRunning, xReading,
                 xHeld, xHistVars, envVars>>

\* It dies, or the end of the context kills it.
ProcDies ==
  /\ xAlive
  /\ xAlive' = FALSE
  /\ xPending' = {}
  /\ UNCHANGED <<xMainVars, xResults, xProcs, xMonitor, cmdRunning, xPipe, xReading,
                 xHeld, xHistVars, envVars>>

\* The reader takes a reply off the pipe; until somebody receives it, it waits.
ReaderReads ==
  /\ xPipe # <<>> /\ xProcs \in xReading
  /\ ~\E rep \in xHeld : rep.proc = xProcs
  /\ xHeld' = xHeld \cup {[id |-> Head(xPipe).id, run |-> Head(xPipe).run,
                           proc |-> xProcs]}
  /\ xPipe' = Tail(xPipe)
  /\ UNCHANGED <<xMainVars, xResults, xProcs, xAlive, xMonitor, cmdRunning, xPending,
                 xReading, xHistVars, envVars>>

\* It finds doneChan closed, or the pipe at its end.
ReaderExits(i) ==
  /\ i \in xReading /\ ~\E rep \in xHeld : rep.proc = i
  /\ \/ i < xProcs
     \/ xMonitor \in {"closed", "done"}
     \/ ~xAlive /\ xPipe = <<>>
  /\ xReading' = xReading \ {i}
  /\ UNCHANGED <<xMainVars, xResults, xProcs, xAlive, xMonitor, cmdRunning, xPending,
                 xPipe, xHeld, xHistVars, envVars>>

\* cmd.Wait returns and closes the pipe, with what is left in it; the monitor
\* closes doneChan.
MonitorCloses ==
  /\ xMonitor = "wait" /\ ~xAlive
  /\ xMonitor' = "closed"
  /\ xPipe' = <<>>
  /\ UNCHANGED <<xMainVars, xResults, xProcs, xAlive, cmdRunning, xPending, xReading,
                 xHeld, xHistVars, envVars>>

\* Mutant of MonitorResets: cmdRunning is left alone.
MonitorResets_Not ==
  /\ xMonitor = "closed"
  /\ xMonitor' = "done"
  /\ UNCHANGED <<xMainVars, xResults, xProcs, xAlive, cmdRunning, xPending, xPipe,
                 xReading, xHeld, xHistVars, envVars>>

\* p.cmdRunning = false
MonitorResets ==
  /\ xMonitor = "closed"
  /\ xMonitor' = "done"
  /\ cmdRunning' = FALSE
  /\ UNCHANGED <<xMainVars, xResults, xProcs, xAlive, xPending, xPipe, xReading, xHeld,
                 xHistVars, envVars>>

ExtNext ==
  \/ ExtReturn
  \/ ExtRunProbe
  \/ ExtSetRunning
  \/ \E t \in Targets : ExtSendRequest(t) \/ ExtStartCommand(t) \/ ExtCommandEnds(t)
  \/ ExtAllSent
  \/ ExtEndRun
  \/ ExtRecvExit
  \/ \E rep \in xHeld : ExtReceive(rep)
  \/ ExtProbeTimeout
  \/ \E req \in xPending : ProcReply(req)
  \/ ProcDies
  \/ ReaderReads
  \/ \E i \in 1 .. MaxProcs : ReaderExits(i)
  \/ MonitorCloses
  \/ MonitorResets
  \/ (ListChange \/ EndContext) /\ UNCHANGED extVars

ExtSpec == EnvInit /\ ExtInit /\ [][ExtNext]_<<extVars, envVars>>

-----------------------------------------------------------------------------
(* Properties *)

\* Every request (or command) that total counts gets exactly one result, a
\* reply, a timeout or the process's death coming first; and only a reply to a
\* request of this run is taken for one: a reply that comes after its
\* run's timeout never makes the next run's probe a success.
ExtOneResult ==
  /\ \A t \in DOMAIN xResults :
       /\ xResults[t].total = xProcessed[t] + Outstanding(t)
                              + (IF t \in xOnce THEN 1 ELSE 0)
       /\ xResults[t].success <= xProcessed[t]
  /\ ~xForeign

\* When the process has died and its monitor is done, the next run starts it
\* again: cmdRunning is false then, unless the process died so fast that
\* the monitor's reset came before startCmdIfNotRunning's last assignment.
ExtNoticesDeath ==
  xMonitor = "done" /\ xPc = "tick" /\ cmdRunning => xRaced

\* An end of the context ends a probe that has begun to run, whatever the
\* process, the readers and the receiver are waiting for.
ExtShutdown == (ctxDone /\ xRun > 0) ~> xPc = "returned"
=============================================================================
