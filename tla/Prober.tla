------------------------------- MODULE Prober -------------------------------
(***************************************************************************)
(* The probe database of prober.Prober and the goroutines that work on it: *)
(* Start (which launches the probes of the config file, with jitter), the  *)
(* gRPC handlers AddProbe and RemoveProbe, the goroutine that starts the   *)
(* probes AddProbe announces on grpcStartProbeCh, and the end of the       *)
(* context Start was given.  Every section under Prober.mu is one action.  *)
(*                                                                         *)
(* A ProbeInfo object of name n is its generation, 1, 2, ...; a run of a   *)
(* probe (a goroutine in ProbeInfo.Start) is <<id, generation>> where id   *)
(* numbers the startProbe calls for n.  0 is Go's nil.                     *)
(***************************************************************************)
EXTENDS Naturals, FiniteSets

CONSTANTS
  Names,           \* probe names
  ConfigProbes,    \* names of the probes in the config file
  RunHere,         \* names of the config file whose run_on matches this host
  Callers,         \* gRPC handler goroutines
  MaxGen,          \* bound: ProbeInfo objects ever created per name
  MaxStarts,       \* bound: starts after which no excluded AddProbe comes
  PatientClients,  \* do gRPC clients wait for pending starts (see Patient)?
  None             \* no name

ASSUME ConstantsAssumption ==
  /\ ConfigProbes \subseteq Names
  /\ RunHere \subseteq Names
  /\ MaxGen \in Nat /\ MaxStarts \in Nat
  /\ PatientClients \in BOOLEAN
  /\ None \notin Names

VARIABLES
  phase,            \* "serving": gRPC serves, prober.Start not yet iterating;
                    \* "starting": Start ranges over pr.Probes; "started"
  Probes,           \* pr.Probes: generation of the ProbeInfo, 0 if absent
  gen,              \* generations created so far
  probeCancelFunc,  \* pr.probeCancelFunc: id of the run it cancels, 0 if nil
  starts,           \* startProbe calls so far
  live,             \* runs whose context has not been cancelled
  jitter,           \* names handed to a goroutine that will call startProbe
  touched,          \* names written to pr.Probes while Start ranges over it
  sending,          \* per handler: the name it is sending on grpcStartProbeCh
  receiver,         \* name the channel's receiver has taken but not started
  ctxDone,          \* has the context given to Start ended?
  crashed           \* has some goroutine panicked?

vars == <<phase, Probes, gen, probeCancelFunc, starts, live, jitter, touched,
          sending, receiver, ctxDone, crashed>>

-----------------------------------------------------------------------------

\* A startProbe(n) that has been requested and has not happened yet.
Pending(n) ==
  \/ n \in jitter
  \/ receiver = n
  \/ \E c \in Callers : sending[c] = n

\* The client discipline under which the service is correct: no call before
\* prober.Start has returned, no AddProbe of a probe whose run_on excludes
\* this host, and no RemoveProbe while a start of that name is pending.
Patient(n) == phase = "started" /\ ~Pending(n)

\* pr.Init has run: config probes meant for this host are in the database.
Init ==
  /\ phase = "serving"
  /\ Probes = [n \in Names |-> IF n \in ConfigProbes \cap RunHere THEN 1 ELSE 0]
  /\ gen = Probes
  /\ probeCancelFunc = [n \in Names |-> 0]
  /\ starts = [n \in Names |-> 0]
  /\ live = [n \in Names |-> {}]
  /\ jitter = {}
  /\ touched = {}
  /\ sending = [c \in Callers |-> None]
  /\ receiver = None
  /\ ctxDone = FALSE
  /\ crashed = FALSE

\* A write to pr.Probes that the range loop of Start may be racing with: the
\* runtime may detect the race and abort.
WriteProbes(n, v) ==
  /\ Probes' = [Probes EXCEPT ![n] = v]
  /\ IF phase = "starting"
     THEN touched' = touched \cup {n} /\ crashed' \in BOOLEAN
     ELSE UNCHANGED <<touched, crashed>>

\* Mutant of StartProbe: a cancel function is kept if there is one.
StartProbe_KeepsOldCancel(n) ==
  /\ IF Probes[n] = 0
     THEN /\ crashed' = TRUE
          /\ UNCHANGED <<starts, probeCancelFunc, live>>
     ELSE /\ starts' = [starts EXCEPT ![n] = @ + 1]
          /\ probeCancelFunc' = [probeCancelFunc EXCEPT
                                   ![n] = IF @ = 0 THEN starts'[n] ELSE @]
          /\ live' = IF ctxDone THEN live
                     ELSE [live EXCEPT ![n] = @ \cup {<<starts'[n], Probes[n]>>}]
          /\ UNCHANGED crashed

\* startProbe: pr.Probes[name].Start on an absent name dereferences nil.
StartProbe(n) ==
  /\ IF Probes[n] = 0
     THEN /\ crashed' = TRUE
          /\ UNCHANGED <<starts, probeCancelFunc, live>>
     ELSE /\ starts' = [starts EXCEPT ![n] = @ + 1]
          /\ probeCancelFunc' = [probeCancelFunc EXCEPT ![n] = starts'[n]]
          /\ live' = IF ctxDone THEN live
                     ELSE [live EXCEPT ![n] = @ \cup {<<starts'[n], Probes[n]>>}]
          /\ UNCHANGED crashed

-----------------------------------------------------------------------------
(* The prober's own goroutines *)

\* Start begins to range over pr.Probes, without holding pr.mu.
StartBegin ==
  /\ ~crashed /\ phase = "serving"
  /\ phase' = "starting"
  /\ UNCHANGED <<Probes, gen, probeCancelFunc, starts, live, jitter, touched,
                 sending, receiver, ctxDone, crashed>>

\* Mutant of StartEnd: only probes that were written during the loop.
StartEnd_OnlyTouched ==
  /\ ~crashed /\ phase = "starting"
  /\ phase' = "started"
  /\ \E S \in SUBSET touched : jitter' = S
  /\ UNCHANGED <<Probes, gen, probeCancelFunc, starts, live, touched,
                 sending, receiver, ctxDone, crashed>>

\* The range loop ends: every name present throughout was visited, one that
\* was written meanwhile may have been.  Each visited probe is started by a
\* goroutine of its own, after a sleep that orders nothing.  From here on the
\* receiver of grpcStartProbeCh runs.
StartEnd ==
  /\ ~crashed /\ phase = "starting"
  /\ phase' = "started"
  /\ \E S \in SUBSET touched :
       jitter' = {n \in Names \ touched : Probes[n] # 0} \cup S
  /\ UNCHANGED <<Probes, gen, probeCancelFunc, starts, live, touched,
                 sending, receiver, ctxDone, crashed>>

\* A goroutine launched by Start or startProbesWithJitter calls startProbe.
JitterStart(n) ==
  /\ ~crashed /\ n \in jitter
  /\ jitter' = jitter \ {n}
  /\ StartProbe(n)
  /\ UNCHANGED <<phase, Probes, gen, touched, sending, receiver, ctxDone>>

\* Rendezvous on the unbuffered grpcStartProbeCh: AddProbe returns now, the
\* probe is not started yet.
Receive(c) ==
  /\ ~crashed /\ phase = "started" /\ receiver = None /\ sending[c] # None
  /\ receiver' = sending[c]
  /\ sending' = [sending EXCEPT ![c] = None]
  /\ UNCHANGED <<phase, Probes, gen, probeCancelFunc, starts, live, jitter,
                 touched, ctxDone, crashed>>

ReceiverStart ==
  /\ ~crashed /\ receiver # None
  /\ receiver' = None
  /\ StartProbe(receiver)
  /\ UNCHANGED <<phase, Probes, gen, jitter, touched, sending, ctxDone>>

\* The context ends: every run's context is a child of it.
Shutdown ==
  /\ ~crashed /\ ~ctxDone
  /\ ctxDone' = TRUE
  /\ live' = [n \in Names |-> {}]
  /\ UNCHANGED <<phase, Probes, gen, probeCancelFunc, starts, jitter, touched,
                 sending, receiver, crashed>>

-----------------------------------------------------------------------------
(* gRPC handlers.  Calls rejected with InvalidArgument, AlreadyExists,     *)
(* NotFound or an initialization error change nothing.                     *)

\* Mutant of addProbe: no check that the name is already defined.
addProbe_Overwrites(n) ==
  \/ /\ ~PatientClients /\ starts[n] < MaxStarts
     /\ UNCHANGED <<Probes, gen, touched, crashed>>
  \/ /\ gen[n] < MaxGen
     /\ gen' = [gen EXCEPT ![n] = @ + 1]
     /\ WriteProbes(n, gen[n] + 1)

\* Mutant of addProbe: a name that is added again gets its old ProbeInfo.
addProbe_OldInfo(n) ==
  \/ /\ ~PatientClients /\ starts[n] < MaxStarts
     /\ UNCHANGED <<Probes, gen, touched, crashed>>
  \/ /\ Probes[n] = 0 /\ gen[n] < MaxGen
     /\ gen' = [gen EXCEPT ![n] = @ + 1]
     /\ WriteProbes(n, IF gen[n] = 0 THEN 1 ELSE gen[n])

\* addProbe returns nil, under mu: at once when the run_on of the definition
\* excludes this host (whether or not the name is in use), or after a new
\* ProbeInfo is stored under a free name.
addProbe(n) ==
  \/ /\ ~PatientClients /\ starts[n] < MaxStarts
     /\ UNCHANGED <<Probes, gen, touched, crashed>>
  \/ /\ Probes[n] = 0 /\ gen[n] < MaxGen
     /\ gen' = [gen EXCEPT ![n] = @ + 1]
     /\ WriteProbes(n, gen[n] + 1)

\* Mutant of AddProbe: a name that was announced before is not again.
AddProbe_AnnouncedOnce(c, n) ==
  /\ ~crashed /\ sending[c] = None
  /\ PatientClients => phase = "started"
  /\ addProbe(n)
  /\ sending' = [sending EXCEPT ![c] = IF starts[n] > 0 THEN None ELSE n]
  /\ UNCHANGED <<phase, probeCancelFunc, starts, live, jitter, receiver, ctxDone>>

\* AddProbe: addProbe and, when it returns nil, the send of the name on
\* grpcStartProbeCh, which blocks until Receive.
AddProbe(c, n) ==
  /\ ~crashed /\ sending[c] = None
  /\ PatientClients => phase = "started"
  /\ addProbe(n)
  /\ sending' = [sending EXCEPT ![c] = n]
  /\ UNCHANGED <<phase, probeCancelFunc, starts, live, jitter, receiver, ctxDone>>

\* Mutant of RemoveProbe: no check that the probe exists.
RemoveProbe_Unchecked(n) ==
  /\ ~crashed
  /\ PatientClients => Patient(n)
  /\ IF probeCancelFunc[n] = 0
     THEN crashed' = TRUE /\ UNCHANGED <<Probes, touched, live>>
     ELSE /\ live' = [live EXCEPT ![n] = {r \in @ : r[1] # probeCancelFunc[n]}]
          /\ WriteProbes(n, 0)
  /\ UNCHANGED <<phase, gen, probeCancelFunc, starts, jitter, sending, receiver,
                 ctxDone>>

\* RemoveProbe: a name that was never started has a nil cancel function, and
\* calling it panics; the entry of probeCancelFunc is never deleted.
RemoveProbe(n) ==
  /\ ~crashed /\ Probes[n] # 0
  /\ PatientClients => Patient(n)
  /\ IF probeCancelFunc[n] = 0
     THEN crashed' = TRUE /\ UNCHANGED <<Probes, touched, live>>
     ELSE /\ live' = [live EXCEPT ![n] = {r \in @ : r[1] # probeCancelFunc[n]}]
          /\ WriteProbes(n, 0)
  /\ UNCHANGED <<phase, gen, probeCancelFunc, starts, jitter, sending, receiver,
                 ctxDone>>

-----------------------------------------------------------------------------

Next ==
  \/ StartBegin
  \/ StartEnd
  \/ \E n \in Names : JitterStart(n)
  \/ \E c \in Callers : Receive(c)
  \/ ReceiverStart
  \/ Shutdown
  \/ \E c \in Callers, n \in Names : AddProbe(c, n)
  \/ \E n \in Names : RemoveProbe(n)

Spec == Init /\ [][Next]_vars

\* Goroutines are scheduled; a channel serves its blocked senders in FIFO
\* order, so none of them waits while the others are served for ever.
Fairness ==
  /\ WF_vars(StartBegin)
  /\ WF_vars(StartEnd)
  /\ \A n \in Names : WF_vars(JitterStart(n))
  /\ \A c \in Callers : SF_vars(Receive(c))
  /\ WF_vars(ReceiverStart)

FairSpec == Spec /\ Fairness

-----------------------------------------------------------------------------
(* Properties *)

Run == Nat \X Nat

TypeOK ==
  /\ phase \in {"serving", "starting", "started"}
  /\ Probes \in [Names -> Nat]
  /\ gen \in [Names -> Nat]
  /\ \A n \in Names : Probes[n] \in {0, gen[n]}
  /\ probeCancelFunc \in [Names -> Nat]
  /\ starts \in [Names -> Nat]
  /\ live \in [Names -> SUBSET Run]
  /\ jitter \subseteq Names
  /\ touched \subseteq Names
  /\ sending \in [Callers -> Names \cup {None}]
  /\ receiver \in Names \cup {None}
  /\ ctxDone \in BOOLEAN
  /\ crashed \in BOOLEAN

\* Probe n's current ProbeInfo has a run that nobody cancelled.
Running(n) == \E r \in live[n] : r[2] = Probes[n]

\* Whatever the clients do, a probe in the database is running or a start of
\* it is on its way (Start still to come, a jitter goroutine, the channel, its
\* receiver): addProbe and the start it must cause are separate steps of
\* separate goroutines, and no interleaving loses the start.
NoStrandedProbe ==
  ~crashed /\ ~ctxDone =>
    \A n \in Names : Probes[n] # 0 =>
      \/ phase # "started"
      \/ Pending(n)
      \/ Running(n)

\* A probe whose RemoveProbe has returned is stopped, and one whose ProbeInfo
\* was replaced too: what runs is in the database.  RemoveProbe "stops the
\* probe and removes it from the in-memory database" (service.proto).
RemovedProbeIsStopped ==
  ~crashed => \A n \in Names : \A r \in live[n] : r[2] = Probes[n]

\* No two runs of one name at a time: they would write the same metrics.
SingleRun == \A n \in Names : \A r, s \in live[n] : r = s

\* startProbe never finds its probe gone and RemoveProbe never finds a nil
\* cancel function.
NoPanic == ~crashed

\* A probe that is added is started, unless it is removed first, the context
\* ends, or the process dies.
EveryProbeStarts ==
  \A n \in Names : \A g \in 1..MaxGen :
    (Probes[n] = g) ~> \/ Probes[n] # g \/ ctxDone \/ crashed
                       \/ \E r \in live[n] : r[2] = g
=============================================================================
