----------------------------- MODULE Scheduler ------------------------------
(***************************************************************************)
(* sched.Scheduler: one probe loop (a goroutine) per target.  The          *)
(* scheduler's own goroutine lists the targets again and again, cancels    *)
(* the loops of targets that are gone and spawns loops for new ones; each  *)
(* loop runs its probe at every tick and, every statsExportFrequency runs, *)
(* sends an EventMetrics on DataChan, where the prober's goroutine takes   *)
(* it to the surfacers.                                                    *)
(*                                                                         *)
(* The i-th loop ever spawned for target key k is <<k, i>>.  Of a          *)
(* ProbeResult only the success counter is kept: an EventMetrics holds a   *)
(* copy of it, next to a reference to the latency value, which has one     *)
(* sample per success.                                                     *)
(***************************************************************************)
EXTENDS Integers, Sequences, FiniteSets

CONSTANTS
  Targets,              \* target keys
  statsExportFrequency, \* runs per export
  ChanCap,              \* capacity of DataChan
  MaxChanges,           \* bound: changes of the target list
  MaxRuns,              \* bound: probe runs per loop
  MaxSuccesses,         \* successes that one run may add
  None                  \* no EventMetrics

ASSUME SchedulerAssumption ==
  /\ statsExportFrequency \in Nat \ {0}
  /\ ChanCap \in Nat \ {0}
  /\ MaxChanges \in Nat
  /\ MaxRuns \in Nat
  /\ MaxSuccesses \in Nat

VARIABLES
  listed,       \* what Targets.ListEndpoints would return now
  changes,      \* changes of listed so far
  pc,           \* scheduler's goroutine: "init", "initial" (frequent listing),
                \* "ticking", "waiting" (deferred Wait), "returned"
  targets,      \* s.targets: what it returned last
  cancelFuncs,  \* s.cancelFuncs: number of the loop it cancels, 0 if no entry
  spawned,      \* loops spawned so far for a key
  st,           \* loop: "none", "wait" (sleep or ticker), "probing", "export",
                \* "exited"
  runCnt,       \* loop: runCnt
  success,      \* loop: result.success, and the samples in result.latency
  cancelled,    \* loops whose cancel function was called, with their runCnt then
  DataChan,     \* EventMetrics sent and not yet received
  seen,         \* last EventMetrics surfaced per key
  ctxDone       \* has the context given to the scheduler ended?

schedVars == <<listed, changes, pc, targets, cancelFuncs, spawned, st, runCnt,
               success, cancelled, DataChan, seen, ctxDone>>

Loops == Targets \X (1 .. MaxChanges + 1)

\* The loops that were spawned and have not returned.
Alive == {l \in Loops : st[l] \notin {"none", "exited"}}

\* ctxDone(ctx) of a loop: its context is a child of the scheduler's.
Stopped(l) == l \in DOMAIN cancelled \/ ctxDone

Init ==
  /\ listed \in SUBSET Targets
  /\ changes = 0
  /\ pc = "init"
  /\ targets = {}
  /\ cancelFuncs = [k \in Targets |-> 0]
  /\ spawned = [k \in Targets |-> 0]
  /\ st = [l \in Loops |-> "none"]
  /\ runCnt = [l \in Loops |-> 0]
  /\ success = [l \in Loops |-> 0]
  /\ cancelled = <<>>
  /\ DataChan = <<>>
  /\ seen = [k \in Targets |-> None]
  /\ ctxDone = FALSE

-----------------------------------------------------------------------------
(* The scheduler's goroutine *)

\* Targets that have a loop and are not listed any more.
Deleted == {k \in Targets \ listed : cancelFuncs[k] # 0}

\* Mutant of Added: a loop for every listed target.
Added_All == listed

\* Listed targets that have no loop.
Added == {k \in listed : cancelFuncs[k] = 0}

\* Mutant of CancelDeleted: entries are dropped, nothing is cancelled.
CancelDeleted_None == UNCHANGED cancelled

CancelDeleted ==
  LET stopped == {<<k, cancelFuncs[k]>> : k \in Deleted}
  IN cancelled' = [l \in DOMAIN cancelled \cup stopped |->
                     IF l \in stopped THEN runCnt[l] ELSE cancelled[l]]

StartAdded ==
  LET started == {<<k, spawned[k] + 1>> : k \in Added}
  IN /\ spawned' = [k \in Targets |-> spawned[k] + IF k \in Added THEN 1 ELSE 0]
     /\ st' = [l \in Loops |-> IF l \in started THEN "wait" ELSE st[l]]

\* Mutant of UpdateCancelFuncs: the entry of a deleted target is kept.
UpdateCancelFuncs_KeepsDeleted ==
  cancelFuncs' = [k \in Targets |-> IF k \in Added THEN spawned[k] + 1
                                    ELSE cancelFuncs[k]]

UpdateCancelFuncs ==
  cancelFuncs' = [k \in Targets |-> IF k \in Added THEN spawned[k] + 1
                                    ELSE IF k \in Deleted THEN 0
                                    ELSE cancelFuncs[k]]

\* refreshTargets: list, cancel the loops of deleted targets, start a loop
\* for each target that has none.
refreshTargets ==
  /\ targets' = listed
  /\ CancelDeleted
  /\ StartAdded
  /\ UpdateCancelFuncs

\* UpdateTargetsAndStartProbes begins: init and the first refresh.
Begin ==
  /\ pc = "init"
  /\ pc' = "initial"
  /\ refreshTargets
  /\ UNCHANGED <<listed, changes, runCnt, success, DataChan, seen, ctxDone>>

\* Mutant of Initial: the loop waits for targets without listing them again.
Initial_NoRefresh ==
  /\ pc = "initial"
  /\ ctxDone \/ targets # {}
  /\ pc' = IF ctxDone THEN "waiting" ELSE "ticking"
  /\ UNCHANGED <<listed, changes, targets, cancelFuncs, spawned, st, runCnt,
                 success, cancelled, DataChan, seen, ctxDone>>

\* One iteration of the loop that runs until there are targets: return if
\* the context has ended, leave it if there are targets, or refresh.
Initial ==
  /\ pc = "initial"
  /\ \/ /\ ctxDone
        /\ pc' = "waiting"
        /\ UNCHANGED <<targets, cancelFuncs, spawned, st, cancelled>>
     \/ /\ ~ctxDone /\ targets # {}
        /\ pc' = "ticking"
        /\ UNCHANGED <<targets, cancelFuncs, spawned, st, cancelled>>
     \/ /\ ~ctxDone /\ targets = {}
        /\ pc' = pc
        /\ refreshTargets
  /\ UNCHANGED <<listed, changes, runCnt, success, DataChan, seen, ctxDone>>

\* targetsUpdateTicker fires.  The select may choose it over a context that
\* has ended.
Tick ==
  /\ pc = "ticking"
  /\ refreshTargets
  /\ UNCHANGED <<listed, changes, pc, runCnt, success, DataChan, seen, ctxDone>>

Stop ==
  /\ pc = "ticking" /\ ctxDone
  /\ pc' = "waiting"
  /\ UNCHANGED <<listed, changes, targets, cancelFuncs, spawned, st, runCnt,
                 success, cancelled, DataChan, seen, ctxDone>>

\* Mutant of Wait: only loops that still have a cancel function are awaited.
Wait_ActiveOnly ==
  /\ pc = "waiting" /\ \A l \in Alive : l \in DOMAIN cancelled
  /\ pc' = "returned"
  /\ UNCHANGED <<listed, changes, targets, cancelFuncs, spawned, st, runCnt,
                 success, cancelled, DataChan, seen, ctxDone>>

\* The deferred waitGroup.Wait returns.
Wait ==
  /\ pc = "waiting" /\ Alive = {}
  /\ pc' = "returned"
  /\ UNCHANGED <<listed, changes, targets, cancelFuncs, spawned, st, runCnt,
                 success, cancelled, DataChan, seen, ctxDone>>

-----------------------------------------------------------------------------
(* The probe loops *)

\* Mutant of CheckCtx: the context is looked at before the first run only.
CheckCtx_FirstOnly(l) ==
  /\ st[l] = "wait"
  /\ Stopped(l) \/ runCnt[l] < MaxRuns
  /\ st' = [st EXCEPT ![l] = IF Stopped(l) /\ runCnt[l] \in {0, MaxRuns}
                             THEN "exited" ELSE "probing"]
  /\ UNCHANGED <<listed, changes, pc, targets, cancelFuncs, spawned, runCnt,
                 success, cancelled, DataChan, seen, ctxDone>>

\* Mutant of CheckCtx: the loop's context is no child of the scheduler's.
CheckCtx_Detached(l) ==
  /\ st[l] = "wait"
  /\ l \in DOMAIN cancelled \/ runCnt[l] < MaxRuns
  /\ st' = [st EXCEPT ![l] = IF l \in DOMAIN cancelled THEN "exited" ELSE "probing"]
  /\ UNCHANGED <<listed, changes, pc, targets, cancelFuncs, spawned, runCnt,
                 success, cancelled, DataChan, seen, ctxDone>>

\* A loop's initial sleep ends or its ticker fires: it returns if its context
\* is done and runs the probe otherwise.
CheckCtx(l) ==
  /\ st[l] = "wait"
  /\ Stopped(l) \/ runCnt[l] < MaxRuns
  /\ st' = [st EXCEPT ![l] = IF Stopped(l) THEN "exited" ELSE "probing"]
  /\ UNCHANGED <<listed, changes, pc, targets, cancelFuncs, spawned, runCnt,
                 success, cancelled, DataChan, seen, ctxDone>>

\* RunProbeForTarget returns with so many successes (at most one of the TCP
\* probe); then runCnt decides whether to export.
RunProbe(l) ==
  /\ st[l] = "probing"
  /\ runCnt' = [runCnt EXCEPT ![l] = @ + 1]
  /\ \E ok \in 0 .. MaxSuccesses : success' = [success EXCEPT ![l] = @ + ok]
  /\ st' = [st EXCEPT ![l] = IF runCnt'[l] % statsExportFrequency = 0
                             THEN "export" ELSE "wait"]
  /\ UNCHANGED <<listed, changes, pc, targets, cancelFuncs, spawned, cancelled,
                 DataChan, seen, ctxDone>>

\* The send on DataChan, which blocks while the channel is full.
Export(l) ==
  /\ st[l] = "export" /\ Len(DataChan) < ChanCap
  /\ DataChan' = Append(DataChan, [loop |-> l, success |-> success[l]])
  /\ st' = [st EXCEPT ![l] = "wait"]
  /\ UNCHANGED <<listed, changes, pc, targets, cancelFuncs, spawned, runCnt,
                 success, cancelled, seen, ctxDone>>

-----------------------------------------------------------------------------
(* The surroundings *)

\* The prober's goroutine takes an EventMetrics and has every surfacer
\* process it: the latency value it refers to is read now.
Surface ==
  /\ DataChan # <<>>
  /\ LET em == Head(DataChan)
     IN seen' = [seen EXCEPT ![em.loop[1]] =
                   [loop |-> em.loop, success |-> em.success,
                    latency |-> success[em.loop]]]
  /\ DataChan' = Tail(DataChan)
  /\ UNCHANGED <<listed, changes, pc, targets, cancelFuncs, spawned, st, runCnt,
                 success, cancelled, ctxDone>>

\* Discovery finds other targets.
ListChange ==
  /\ changes < MaxChanges
  /\ changes' = changes + 1
  /\ \E S \in SUBSET Targets : S # listed /\ listed' = S
  /\ UNCHANGED <<pc, targets, cancelFuncs, spawned, st, runCnt, success,
                 cancelled, DataChan, seen, ctxDone>>

\* The probe is removed or the prober shuts down.
EndContext ==
  /\ ~ctxDone
  /\ ctxDone' = TRUE
  /\ UNCHANGED <<listed, changes, pc, targets, cancelFuncs, spawned, st, runCnt,
                 success, cancelled, DataChan, seen>>

-----------------------------------------------------------------------------

Next ==
  \/ Begin
  \/ Initial
  \/ Tick
  \/ Stop
  \/ Wait
  \/ \E l \in Loops : CheckCtx(l)
  \/ \E l \in Loops : RunProbe(l)
  \/ \E l \in Loops : Export(l)
  \/ Surface
  \/ ListChange
  \/ EndContext

Spec == Init /\ [][Next]_schedVars

\* Every goroutine is scheduled, tickers keep firing, a probe run ends by its
\* timeout, and the prober's goroutine never stops receiving.  Senders blocked
\* on the channel are served in FIFO order; a select whose context case stays
\* ready takes it sooner or later.
Fairness ==
  /\ WF_schedVars(Begin \/ Initial \/ Wait)
  /\ WF_schedVars(Tick)
  /\ WF_schedVars(Stop)
  /\ \A l \in Loops : WF_schedVars(CheckCtx(l) \/ RunProbe(l)) /\ SF_schedVars(Export(l))
  /\ WF_schedVars(Surface)

FairSpec == Spec /\ Fairness

-----------------------------------------------------------------------------
(* Properties *)

EventMetrics == [loop : Loops, success : Nat]

TypeOK ==
  /\ listed \subseteq Targets
  /\ changes \in 0 .. MaxChanges
  /\ pc \in {"init", "initial", "ticking", "waiting", "returned"}
  /\ targets \subseteq Targets
  /\ cancelFuncs \in [Targets -> 0 .. MaxChanges + 1]
  /\ spawned \in [Targets -> 0 .. MaxChanges + 1]
  /\ st \in [Loops -> {"none", "wait", "probing", "export", "exited"}]
  /\ runCnt \in [Loops -> Nat]
  /\ success \in [Loops -> Nat]
  /\ DOMAIN cancelled \subseteq Loops
  /\ \A l \in DOMAIN cancelled : cancelled[l] \in Nat
  /\ DataChan \in Seq(EventMetrics)
  /\ Len(DataChan) <= ChanCap
  /\ seen \in [Targets -> [loop : Loops, success : Nat, latency : Nat] \cup {None}]
  /\ ctxDone \in BOOLEAN

\* No target is probed by two loops that nobody stopped, and each such loop is
\* one that s.cancelFuncs can stop, of a target that the last listing returned:
\* probe loops are neither doubled nor leaked, however the list changes.
OneLoopPerTarget ==
  ~ctxDone => \A l \in Alive \ DOMAIN cancelled :
                l[1] \in targets /\ cancelFuncs[l[1]] = l[2]

\* Conversely, every target that the last listing returned has a loop to
\* probe it, even when a loop for the same key was cancelled before and is
\* still on its way out.
EveryTargetHasLoop ==
  ~ctxDone => \A k \in targets : \E l \in Alive : l[1] = k /\ l \notin DOMAIN cancelled

\* A loop whose target is gone completes the run it is in, if any, and runs
\* no other.
StopsWithinOneRun ==
  \A l \in DOMAIN cancelled : runCnt[l] <= cancelled[l] + 1

\* When UpdateTargetsAndStartProbes has returned (so that probe.Start returns)
\* no loop of it is left to probe or to write metrics.
ReturnsWhenAllStopped == pc = "returned" => ctxDone /\ Alive = {}

\* An end of the context ends the scheduler, with loops blocked on a full
\* DataChan, asleep, or in the middle of a run.
ShutdownCompletes == ctxDone ~> pc = "returned"

\* A target that stays in the list ends up having metrics surfaced from the
\* loop that is in charge of it, unless the context ends.
ListedTargetIsSurfaced ==
  \A k \in Targets :
    <>[](k \in listed) =>
      <>(ctxDone \/ (seen[k] # None /\ seen[k].loop = <<k, cancelFuncs[k]>>))

\* Metrics are exported when no probe of the loop is running, so that the
\* values of an EventMetrics belong to one moment: there are as many latency
\* samples as successes.
ExportedWhenIdle ==
  \A k \in Targets : seen[k] # None => seen[k].latency = seen[k].success
=============================================================================
