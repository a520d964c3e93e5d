---------------------------- MODULE StatsKeeper -----------------------------
(***************************************************************************)
(* statskeeper.StatsKeeper: the goroutine that adds up the probe results   *)
(* that the DNS probe and the UDP listener send on a bounded channel, and  *)
(* exports the sums.  It returns when the context ends, and then nobody    *)
(* receives from the channel any more.                                     *)
(*                                                                         *)
(* A result is <<target, counters>>.  The export changes nothing here: it  *)
(* sends clones of the sums of the current targets on dataChan.            *)
(***************************************************************************)
EXTENDS ProbeEnv, TLC

VARIABLES
  skPc,          \* "none", "run", "returned"
  resultsCap,    \* capacity of resultsChan
  resultsChan,   \* results sent and not received
  targetMetrics  \* sums by target

skVars == <<skPc, resultsCap, resultsChan, targetMetrics>>

SKInit ==
  /\ skPc = "none"
  /\ resultsCap = 0
  /\ resultsChan = <<>>
  /\ targetMetrics = <<>>

\* The probe makes the channel and starts the goroutine.
SKStart(cap) ==
  /\ skPc' = "run"
  /\ resultsCap' = cap
  /\ UNCHANGED <<resultsChan, targetMetrics>>

\* Store the first result of a target, add later ones to it.
AddResult(r) ==
  LET t == r[1]
      m == r[2]
  IN targetMetrics' =
       IF t \in DOMAIN targetMetrics
       THEN [targetMetrics EXCEPT ![t] = [c \in DOMAIN m |-> @[c] + m[c]]]
       ELSE targetMetrics @@ (t :> m)

\* A goroutine of the probe sends a result: into the buffer or, when the channel
\* has none, to a keeper that is receiving.  Otherwise the sender blocks.
SKSend(r) ==
  /\ \/ /\ Len(resultsChan) < resultsCap
        /\ resultsChan' = Append(resultsChan, r)
        /\ UNCHANGED targetMetrics
     \/ /\ resultsCap = 0 /\ skPc = "run"
        /\ AddResult(r)
        /\ UNCHANGED resultsChan
  /\ UNCHANGED <<skPc, resultsCap>>

\* No sender will ever get through again.
SKGone == skPc = "returned" /\ Len(resultsChan) = resultsCap

\* case result := <-resultsChan
SKReceive ==
  /\ skPc = "run" /\ resultsChan # <<>>
  /\ AddResult(Head(resultsChan))
  /\ resultsChan' = Tail(resultsChan)
  /\ UNCHANGED <<skPc, resultsCap>>

\* case <-ctx.Done(), which the select may prefer to results that wait.
SKStop ==
  /\ skPc = "run" /\ ctxDone
  /\ skPc' = "returned"
  /\ UNCHANGED <<resultsCap, resultsChan, targetMetrics>>
=============================================================================
