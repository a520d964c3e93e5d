------------------------------ MODULE Alerting ------------------------------
(***************************************************************************)
(* AlertHandler, for one target: from the cumulative total and success     *)
(* that the probe's loop exports, the last Total samples are kept as a     *)
(* window of failures; the target is alerted on while there are Failures   *)
(* of them.  When the target goes and comes back, a new loop counts from 0 *)
(* and the handler, which forgets nothing, sees counters that jump.  A     *)
(* notification starts a command with the alert's fields in it; times are  *)
(* in seconds.                                                             *)
(***************************************************************************)
EXTENDS Integers, Sequences, FiniteSets

CONSTANTS
  AlertFailures,  \* condition.failures
  AlertTotal,     \* condition.total (condition.failures when that is 0)
  RepeatInterval, \* repeat_interval_sec
  Commands,       \* commands to notify with: "words", "blank" (without words), or
                  \* "none" (none that shlex can parse)
  MaxSamples,     \* bound: probes between two exports
  MaxExports      \* bound: exports

ASSUME AlertAssumption == AlertFailures \in Nat /\ AlertTotal \in Nat /\ RepeatInterval \in Nat

VARIABLES
  aKnown,    \* is there a targetState?
  aState,    \* ah.targets[key]
  aCommand,  \* notifyConfig.Command
  aNotified, \* AlertInfo of the last notification, NoInfo if none
  aStarted,  \* AlertInfo that a command was started with last
  aDead,     \* has the process ended in a panic?
  aNow,      \* clock
  aLoop,     \* total and success of the loop that exports
  aExports,  \* exports so far
  aSamples,  \* history: the last samples, TRUE if failed
  aOdd,      \* history: was a restart of the loop taken for new samples?
  aNotedAt,  \* history: time of the last notification
  aReset     \* history: did the last Record only reset the counters?

alertVars == <<aKnown, aState, aCommand, aNotified, aStarted, aDead, aNow, aLoop, aExports,
               aSamples, aOdd, aNotedAt, aReset>>
noteVars == <<aNotified, aStarted, aDead, aNotedAt>>

NoInfo == [conditionID |-> 0, failures |-> 0, since |-> 0]

Lesser(a, b) == IF a < b THEN a ELSE b

NewTargetState(total, success) ==
  [lastTotal |-> total, lastSuccess |-> success,
   failures |-> [i \in 1 .. AlertTotal |-> FALSE],
   alerted |-> FALSE, alertTS |-> 0, conditionID |-> 0, failingSince |-> 0]

AlertInit ==
  /\ aKnown = FALSE
  /\ aState = NewTargetState(0, 0)
  /\ aCommand \in Commands
  /\ aNotified = NoInfo /\ aStarted = NoInfo /\ aDead = FALSE
  /\ aNow = 1
  /\ aLoop = [total |-> 0, success |-> 0]
  /\ aExports = 0
  /\ aSamples = <<>>
  /\ aOdd = FALSE /\ aNotedAt = 0 /\ aReset = FALSE

\* The samples in one EventMetrics, oldest first: failures are taken to be last.
Samples(totalCnt, successCnt) == [i \in 1 .. totalCnt |-> i > successCnt]

\* Mutant of Window: samples in excess are trimmed from the failures.
Window_TrimsFailures(failures, totalCnt, successCnt) ==
  LET taken == Lesser(totalCnt, AlertTotal)
  IN SubSeq(failures, taken + 1, AlertTotal)
     \o Samples(taken, Lesser(successCnt, taken))

\* The window shifted left and filled with the new samples.  Those in excess of
\* the window are trimmed from the successes.
Window(failures, totalCnt, successCnt) ==
  LET taken == Lesser(totalCnt, AlertTotal)
  IN SubSeq(failures, taken + 1, AlertTotal)
     \o Samples(taken, Lesser(successCnt, totalCnt) - (totalCnt - taken))

Failed(window) == Cardinality({i \in DOMAIN window : window[i]})

\* notify, with notifyCommand: a command that does not parse is not started, and
\* one with no words ends in a panic.  The channel is for tests.
notify(info) ==
  /\ aNotified' = info
  /\ aStarted' = IF aCommand = "words" THEN info ELSE aStarted
  /\ aDead' = (aCommand = "blank")
  /\ aNotedAt' = aNow'

\* handleAlertCondition: a new alert, or an ongoing one whose last notification is
\* older than the repeat interval.  The condition's ID is the time in seconds.
handleAlertCondition(st, timestamp, failures) ==
  LET again == st.alerted /\ aNow' - st.alertTS > RepeatInterval
      new   == IF st.alerted THEN [st EXCEPT !.alertTS = IF again THEN aNow' ELSE @]
               ELSE [st EXCEPT !.alerted = TRUE, !.alertTS = aNow', !.conditionID = timestamp,
                               !.failingSince = timestamp]
  IN /\ aState' = new
     /\ IF ~st.alerted \/ again
        THEN notify([conditionID |-> new.conditionID, failures |-> failures,
                     since |-> new.failingSince])
        ELSE UNCHANGED noteVars

\* Record.  The first EventMetrics only makes the state, and a total that decreases
\* only resets its counters.
Record(total, success, timestamp) ==
  LET totalCnt   == total - aState.lastTotal
      successCnt == success - aState.lastSuccess
      window     == Window(aState.failures, totalCnt, successCnt)
      st         == [aState EXCEPT !.lastTotal = total, !.lastSuccess = success,
                                   !.failures = window]
  IN \/ /\ ~aKnown
        /\ aKnown' = TRUE
        /\ aState' = NewTargetState(total, success)
        /\ UNCHANGED noteVars
     \/ /\ aKnown /\ totalCnt < 0
        /\ aState' = [aState EXCEPT !.lastTotal = total, !.lastSuccess = success]
        /\ UNCHANGED <<aKnown, noteVars>>
     \/ /\ aKnown /\ totalCnt >= 0
        /\ IF Failed(window) >= AlertFailures
           THEN handleAlertCondition(st, timestamp, Failed(window))
           ELSE /\ aState' = [st EXCEPT !.alerted = FALSE, !.alertTS = 0, !.conditionID = 0]
                /\ UNCHANGED noteVars
        /\ UNCHANGED aKnown

\* As many of the last elements as the window has.
LastOf(s) == SubSeq(s, Len(s) - Lesser(Len(s), AlertTotal) + 1, Len(s))

\* The loop, or a new one in its place, has run some probes and exports, at
\* the time of the EventMetrics.
AlertExport(restarted) ==
  /\ ~aDead /\ aExports < MaxExports
  /\ aExports' = aExports + 1
  /\ aNow' \in IF aKnown THEN {aNow, aNow + 1} ELSE {aNow}
  /\ \E n \in 0 .. MaxSamples :
       \E ok \in 0 .. n :
         LET from == IF restarted THEN [total |-> 0, success |-> 0] ELSE aLoop
             em   == [total |-> from.total + n, success |-> from.success + ok]
         IN /\ aLoop' = em
            /\ Record(em.total, em.success, aNow')
            /\ aSamples' = IF aKnown /\ ~restarted THEN LastOf(aSamples \o Samples(n, ok))
                           ELSE aSamples
            /\ aOdd' = (aOdd \/ (aKnown /\ restarted /\ n >= aState.lastTotal))
            /\ aReset' = (aKnown /\ em.total < aState.lastTotal)
  /\ UNCHANGED aCommand

AlertNext == AlertExport(FALSE) \/ AlertExport(TRUE)

AlertSpec == AlertInit /\ [][AlertNext]_alertVars

-----------------------------------------------------------------------------
(* Properties *)

\* Reference: are enough of the last samples failures?
Failing(samples) == Cardinality({i \in DOMAIN samples : samples[i]}) >= AlertFailures

\* A target is alerted on exactly while enough of its last samples are failures,
\* whatever number of samples an EventMetrics stands for, also when the loop
\* was replaced, unless the new loop's first total was not below the old one's
\* last: Record then takes it for more samples of the same loop.  While it is, the
\* last notification has the ID and the time of the EventMetrics that began the
\* alert, and when counters come in again it is not older than the repeat interval.
\* Only a command without words ends the process.
AlertedWhenFailing ==
  /\ aKnown /\ ~aOdd /\ aSamples # <<>> => aState.alerted = Failing(aSamples)
  /\ aState.alerted =>
       /\ aNotified.conditionID = aState.conditionID /\ aNotified.since = aState.failingSince
       /\ aState.conditionID = aState.failingSince /\ aNotified.failures >= AlertFailures
       /\ aCommand = "words" => aStarted = aNotified
       /\ ~aReset => aNow - aNotedAt <= RepeatInterval
  /\ aDead => aCommand = "blank"
=============================================================================
