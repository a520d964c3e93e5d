----------------------------- MODULE GRPCProbe ------------------------------
(***************************************************************************)
(* The gRPC probe.  For every target num_conns goroutines connect, again   *)
(* and again until it works, and then send a request at every tick, all    *)
(* adding to the target's one result.  The goroutine of Start exports the  *)
(* results and now and then lists the targets again: it starts goroutines  *)
(* for new targets and cancels those of targets that are gone, but ignores *)
(* a list that is empty or less than half as long as the last one.         *)
(*                                                                         *)
(* The i-th result ever made for target key k is <<k, i>>; a goroutine is  *)
(* <<k, i, c>> with c the number of its connection.                        *)
(***************************************************************************)
EXTENDS ProbeEnv

CONSTANTS
  NumConns,      \* num_conns
  MaxAttempts    \* bound: connects and requests of a goroutine

VARIABLES
  gPc,           \* Start: "init", "start", "tick", "returned"
  gTargets,      \* p.targets
  gResults,      \* p.results (and p.cancelFuncs): number of the key's result, or 0
  gMade,         \* results made so far for a key
  gCancelled,    \* results whose goroutines were cancelled
  gLoop,         \* goroutine: "none", "connect", "request", "exited"
  gCount,        \* the counters of a result
  gAccepted      \* history: has a list been accepted since Start?

grpcVars == <<gPc, gTargets, gResults, gMade, gCancelled, gLoop, gCount, gAccepted>>

GResults == Targets \X (1 .. MaxChanges + 1)
GLoops == Targets \X (1 .. MaxChanges + 1) \X (1 .. NumConns)

GRPCInit ==
  /\ gPc = "init"
  /\ gTargets = {}
  /\ gResults = [k \in Targets |-> 0]
  /\ gMade = [k \in Targets |-> 0]
  /\ gCancelled = {}
  /\ gLoop = [l \in GLoops |-> "none"]
  /\ gCount = [r \in GResults |-> [total |-> 0, success |-> 0, connectErrors |-> 0]]
  /\ gAccepted = FALSE

-----------------------------------------------------------------------------
(* The goroutine of Start *)

\* Init: the first listing only fills p.targets.
GRPCInitProbe ==
  /\ gPc = "init"
  /\ gPc' = "start"
  /\ gTargets' = listed
  /\ UNCHANGED <<gResults, gMade, gCancelled, gLoop, gCount, gAccepted, envVars>>

\* The list has too few targets to be believed.
TooFew == listed = {} \/ Cardinality(listed) < Cardinality(gTargets) \div 2

\* Mutant of NewKeys: targets that are known get another set of goroutines.
NewKeys_All == listed

NewKeys == {k \in listed : gResults[k] = 0}
GoneKeys == {k \in Targets \ listed : gResults[k] # 0}

\* updateTargetsAndStartProbes
updateTargetsAndStartProbes ==
  IF TooFew THEN UNCHANGED <<gTargets, gResults, gMade, gCancelled, gLoop, gAccepted>>
  ELSE /\ gTargets' = listed
       /\ gAccepted' = TRUE
       /\ gMade' = [k \in Targets |-> gMade[k] + IF k \in NewKeys THEN 1 ELSE 0]
       /\ gResults' = [k \in Targets |-> IF k \in NewKeys THEN gMade[k] + 1
                                         ELSE IF k \in GoneKeys THEN 0
                                         ELSE gResults[k]]
       /\ gCancelled' = gCancelled \cup {<<k, gResults[k]>> : k \in GoneKeys}
       /\ gLoop' = [l \in GLoops |->
                      IF l[1] \in NewKeys /\ l[2] = gMade[l[1]] + 1 THEN "connect"
                      ELSE gLoop[l]]

GRPCStart ==
  /\ gPc = "start"
  /\ gPc' = "tick"
  /\ updateTargetsAndStartProbes
  /\ UNCHANGED <<gCount, envVars>>

\* The stats ticker fires: return if the context has ended; else export (under
\* each result's lock) and, when the other ticker has fired too, update.
GRPCTick ==
  /\ gPc = "tick"
  /\ \/ /\ ctxDone
        /\ gPc' = "returned"
        /\ UNCHANGED <<gTargets, gResults, gMade, gCancelled, gLoop, gAccepted>>
     \/ /\ ~ctxDone
        /\ updateTargetsAndStartProbes
        /\ UNCHANGED gPc
  /\ UNCHANGED <<gCount, envVars>>

-----------------------------------------------------------------------------
(* oneTargetLoop *)

\* The context of a goroutine is a child of Start's.
GDone(l) == <<l[1], l[2]>> \in gCancelled \/ ctxDone

\* A connection attempt fails and is counted, or succeeds.
GRPCConnect(l) ==
  /\ gLoop[l] = "connect" /\ ~GDone(l)
  /\ \/ /\ gCount[<<l[1], l[2]>>].total < MaxAttempts
        /\ gCount' = [gCount EXCEPT ![<<l[1], l[2]>>].total = @ + 1,
                                    ![<<l[1], l[2]>>].connectErrors = @ + 1]
        /\ UNCHANGED gLoop
     \/ /\ gLoop' = [gLoop EXCEPT ![l] = "request"]
        /\ UNCHANGED gCount
  /\ UNCHANGED <<gPc, gTargets, gResults, gMade, gCancelled, gAccepted, envVars>>

\* A request at a tick, which the select may choose over a context that is done.
GRPCRequest(l) ==
  /\ gLoop[l] = "request"
  /\ gCount[<<l[1], l[2]>>].total < MaxAttempts
  /\ \E ok \in IF GDone(l) THEN {0} ELSE {0, 1} :
       gCount' = [gCount EXCEPT ![<<l[1], l[2]>>].total = @ + 1,
                                ![<<l[1], l[2]>>].success = @ + ok]
  /\ UNCHANGED <<gPc, gTargets, gResults, gMade, gCancelled, gLoop, gAccepted, envVars>>

\* Either loop finds the context done, the connecting one maybe after an attempt
\* that the end of the context made fail.
GRPCExit(l) ==
  /\ gLoop[l] \in {"connect", "request"} /\ GDone(l)
  /\ gLoop' = [gLoop EXCEPT ![l] = "exited"]
  /\ \/ UNCHANGED gCount
     \/ /\ gLoop[l] = "connect"
        /\ gCount[<<l[1], l[2]>>].total < MaxAttempts
        /\ gCount' = [gCount EXCEPT ![<<l[1], l[2]>>].total = @ + 1,
                                    ![<<l[1], l[2]>>].connectErrors = @ + 1]
  /\ UNCHANGED <<gPc, gTargets, gResults, gMade, gCancelled, gAccepted, envVars>>

GRPCNext ==
  \/ GRPCInitProbe
  \/ GRPCStart
  \/ GRPCTick
  \/ \E l \in GLoops : GRPCConnect(l) \/ GRPCRequest(l) \/ GRPCExit(l)
  \/ (ListChange \/ EndContext) /\ UNCHANGED grpcVars

GRPCSpec == EnvInit /\ GRPCInit /\ [][GRPCNext]_<<grpcVars, envVars>>

-----------------------------------------------------------------------------
(* Properties *)

\* Goroutines that nobody stopped.
GRunning == {l \in GLoops : gLoop[l] \in {"connect", "request"} /\ ~GDone(l)}

\* From the first list that was accepted, exactly the targets of p.targets are
\* probed, each by num_conns goroutines that share the result which is exported
\* for it: none is doubled, leaked, or left writing to a result that is not
\* exported any more.  Before that (when Start finds too few of the targets that
\* Init had listed) p.targets has targets that nothing probes.
GRPCTargetsProbed ==
  ~ctxDone =>
    GRunning = IF gAccepted THEN {<<k, gResults[k], c>> : k \in gTargets, c \in 1 .. NumConns}
               ELSE {}
=============================================================================
