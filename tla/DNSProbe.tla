------------------------------ MODULE DNSProbe ------------------------------
(***************************************************************************)
(* The DNS probe: at every tick it lists the targets again, queries each   *)
(* one from a goroutine of its own and waits for all of them.  Each        *)
(* goroutine sends one result to StatsKeeper, on a channel with as many    *)
(* places as there were targets when the probe was initialized.            *)
(***************************************************************************)
EXTENDS StatsKeeper, FiniteSetsExt

CONSTANTS
  MaxDNSRuns   \* bound: probe runs

VARIABLES
  dPc,         \* Start: "init", "start", "tick", "run" (wg.Wait), "returned"
  dTargets,    \* p.targets
  dQuery,      \* targets whose query is under way
  dResult,     \* results not yet sent to StatsKeeper
  dRuns        \* history: probe runs of each target

dnsVars == <<dPc, dTargets, dQuery, dResult, dRuns>>

DNSInit ==
  /\ dPc = "init"
  /\ dTargets = {}
  /\ dQuery = {}
  /\ dResult = {}
  /\ dRuns = [t \in Targets |-> 0]

\* Init: the listing that decides the channel's capacity.
DNSInitProbe ==
  /\ dPc = "init"
  /\ dPc' = "start"
  /\ dTargets' = listed
  /\ UNCHANGED <<dQuery, dResult, dRuns, skVars, envVars>>

DNSStart ==
  /\ dPc = "start"
  /\ dPc' = "tick"
  /\ SKStart(Cardinality(dTargets))
  /\ UNCHANGED <<dTargets, dQuery, dResult, dRuns, envVars>>

\* Mutant of DNSTick: the context is not looked at.
DNSTick_NoCtx ==
  /\ dPc = "tick" /\ \A t \in listed : dRuns[t] < MaxDNSRuns
  /\ dPc' = "run"
  /\ dTargets' = listed
  /\ dQuery' = listed
  /\ dRuns' = [t \in Targets |-> dRuns[t] + IF t \in listed THEN 1 ELSE 0]
  /\ UNCHANGED <<dResult, skVars, envVars>>

\* The ticker fires: return if the context has ended, else run the probe.
DNSTick ==
  /\ dPc = "tick"
  /\ \/ /\ ctxDone
        /\ dPc' = "returned"
        /\ UNCHANGED <<dTargets, dQuery, dRuns>>
     \/ /\ ~ctxDone /\ \A t \in listed : dRuns[t] < MaxDNSRuns
        /\ dPc' = "run"
        /\ dTargets' = listed
        /\ dQuery' = listed
        /\ dRuns' = [t \in Targets |-> dRuns[t] + IF t \in listed THEN 1 ELSE 0]
  /\ UNCHANGED <<dResult, skVars, envVars>>

\* A target does not resolve, its exchange fails or times out, its response is
\* not valid, or it is: one result in any case, with total 1.
DNSExchange(t) ==
  /\ t \in dQuery
  /\ dQuery' = dQuery \ {t}
  /\ \E ok \in {0, 1} :
       dResult' = dResult \cup {<<t, [total |-> 1, success |-> ok]>>}
  /\ UNCHANGED <<dPc, dTargets, dRuns, skVars, envVars>>

\* resultsChan <- result
DNSSend(r) ==
  /\ r \in dResult
  /\ dResult' = dResult \ {r}
  /\ SKSend(r)
  /\ UNCHANGED <<dPc, dTargets, dQuery, dRuns, envVars>>

\* wg.Wait returns.
DNSEndRun ==
  /\ dPc = "run" /\ dQuery = {} /\ dResult = {}
  /\ dPc' = "tick"
  /\ UNCHANGED <<dTargets, dQuery, dResult, dRuns, skVars, envVars>>

DNSNext ==
  \/ DNSInitProbe
  \/ DNSStart
  \/ DNSTick
  \/ \E t \in Targets : DNSExchange(t)
  \/ \E r \in dResult : DNSSend(r)
  \/ DNSEndRun
  \/ (SKReceive \/ SKStop) /\ UNCHANGED <<dnsVars, envVars>>
  \/ (ListChange \/ EndContext) /\ UNCHANGED <<dnsVars, skVars>>

-----------------------------------------------------------------------------
(* Properties *)

\* Once its context has ended the probe returns, unless a run that was under way
\* then has more results than the channel has places left: with StatsKeeper
\* gone nobody makes room, which takes results that were still waiting or more
\* targets than at initialization.
DNSShutdown ==
  (ctxDone /\ dPc # "init") ~>
     \/ dPc = "returned"
     \/ dResult # {} /\ SKGone /\ dPc = "run"
=============================================================================
