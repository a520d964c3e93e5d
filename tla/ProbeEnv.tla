----------------------------- MODULE ProbeEnv -------------------------------
(***************************************************************************)
(* What every probe's goroutines share with the rest of cloudprober: the   *)
(* list of targets, which discovery changes, and the context given to      *)
(* Start, which ends when the probe is removed or the prober shuts down.   *)
(* EventMetrics sent on dataChan are always received in the end (module    *)
(* Prober), so a probe's blocking send is not a step of its own unless a   *)
(* property is about the channel.                                          *)
(***************************************************************************)
EXTENDS Integers, Sequences, FiniteSets

CONSTANTS
  Targets,     \* targets that may be listed
  MaxChanges   \* bound: changes of the target list

ASSUME EnvAssumption == MaxChanges \in Nat

VARIABLES
  listed,      \* what Targets.ListEndpoints would return now
  changes,     \* changes of listed so far
  ctxDone      \* has the context given to Start ended?

envVars == <<listed, changes, ctxDone>>

EnvInit ==
  /\ listed \in SUBSET Targets
  /\ changes = 0
  /\ ctxDone = FALSE

\* Discovery finds other targets.
ListChange ==
  /\ changes < MaxChanges
  /\ changes' = changes + 1
  /\ \E S \in SUBSET Targets : S # listed /\ listed' = S
  /\ UNCHANGED ctxDone

\* The probe is removed or the prober shuts down.
EndContext ==
  /\ ~ctxDone
  /\ ctxDone' = TRUE
  /\ UNCHANGED <<listed, changes>>

\* The map g after f's entries are stored in it.
Merged(f, g) == [x \in DOMAIN f \cup DOMAIN g |-> IF x \in DOMAIN f THEN f[x] ELSE g[x]]

\* How many elements of a sequence pass a test.
CountIf(s, Test(_)) == Cardinality({i \in DOMAIN s : Test(s[i])})
=============================================================================
