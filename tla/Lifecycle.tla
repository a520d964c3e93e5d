----------------------------- MODULE Lifecycle -----------------------------
(***************************************************************************)
(* A program that uses cloudprober as a package: InitFromConfig, which may *)
(* fail half way and be tried again, Start, the end of Start's context and *)
(* the goroutines that clean up, and then another InitFromConfig.  Every   *)
(* attempt to initialize has a number.  What outlives an attempt is the    *)
(* global cloudProber, runconfig, and listeners that nobody has closed.    *)
(***************************************************************************)
EXTENDS Integers, Sequences, FiniteSets, FiniteSetsExt

CONSTANTS
  Configs,     \* [fault, grpc, tls, servers, surfacers]: fault is the step that fails,
               \* tls whether the TLS config of the gRPC port is good
  MaxAttempts  \* bound: calls of InitFromConfig

ASSUME ConfigAssumption ==
  \A c \in Configs :
    /\ c.grpc \in BOOLEAN /\ c.tls \in BOOLEAN
    /\ c.servers \in Seq(STRING) /\ c.surfacers \in Seq(STRING)

VARIABLES
  cPatient,  \* does the program wait for cleanups before it initializes again?
  cPc,       \* the program: "out", "inited", "panic" or "exit"
  cAttempt,  \* the last attempt
  cConf,     \* attempt -> its config
  cProber,   \* cloudProber.prober: an attempt, or 0
  cLn,       \* cloudProber.defaultServerLn
  cGrpcLn,   \* cloudProber.defaultGRPCLn
  cCancel,   \* cloudProber.cancelInitCtx
  cOpen,     \* open listeners, [port, by]
  cClosers,  \* goroutines that close a listener when the initCtx ends
  cEnded,    \* attempts whose initCtx has ended
  rcGrpc,    \* runconfig's gRPC server: the attempt that made it, or 0
  rcMux,     \* URLs that runconfig's ServeMux handles
  cStopped,  \* gRPC servers that have been stopped
  cServed,   \* gRPC servers that serve, or have
  cRuns      \* calls of Start: [of, grpc, ctx, http, clean]

cfgVars == <<cPatient, cPc, cAttempt, cConf, cProber, cLn, cGrpcLn, cCancel, cOpen, cClosers,
             cEnded, rcGrpc, rcMux, cStopped, cServed, cRuns>>

LifeInit ==
  /\ cPatient \in BOOLEAN /\ cPc = "out" /\ cAttempt = 0 /\ cConf = <<>>
  /\ cProber = 0 /\ cLn = 0 /\ cGrpcLn = 0 /\ cCancel = 0
  /\ cOpen = {} /\ cClosers = {} /\ cEnded = {} /\ rcGrpc = 0 /\ rcMux = {}
  /\ cStopped = {} /\ cServed = {} /\ cRuns = <<>>

InUse(port, open) == \E l \in open : l.port = port

-----------------------------------------------------------------------------
(* Parts of an attempt: what they add to [open, closers, mux, err] *)

\* servers/*/New.  An HTTPS server without certificates has no goroutine yet that
\* closes its listener; the default gRPC server and a command need no listener.
ServerNew(acc, srv) ==
  LET l == [port |-> srv, by |-> cAttempt + 1]
      listens == srv \notin {"grpc_default", "external"}
  IN IF acc.err THEN acc
     ELSE IF listens /\ InUse(srv, acc.open) THEN [acc EXCEPT !.err = TRUE]
     ELSE IF srv = "https_nocert" THEN [acc EXCEPT !.open = @ \cup {l}, !.err = TRUE]
     ELSE IF listens THEN [acc EXCEPT !.open = @ \cup {l}, !.closers = @ \cup {l}]
     ELSE IF srv = "grpc_default" /\ acc.grpc = 0 THEN [acc EXCEPT !.err = TRUE]
     ELSE acc

\* A loop over the elements of seq.
ForEach(step(_, _), acc, seq) ==
  MapThenFoldSet(LAMBDA s, r : step(r, s), acc, LAMBDA i : seq[i], Max, DOMAIN seq)

\* servers.Init: in order, up to the first that fails.
ServersInit(acc, srvs) == ForEach(ServerNew, acc, srvs)

\* initSurfacer for those that add a handler to the ServeMux; ServeMux itself
\* panics at the second handler of prometheus.
SurfacerURLs == [prometheus |-> "/metrics", probestatus |-> "/status"]

initSurfacer(acc, s) ==
  IF acc.err \/ acc.panic THEN acc
  ELSE IF s \notin DOMAIN SurfacerURLs THEN acc
  ELSE IF SurfacerURLs[s] \notin acc.mux THEN [acc EXCEPT !.mux = @ \cup {SurfacerURLs[s]}]
  ELSE IF s = "prometheus" THEN [acc EXCEPT !.panic = TRUE]
  ELSE [acc EXCEPT !.err = TRUE]

defaultSurfacers == <<"prometheus", "file">>
requiredSurfacers == <<"probestatus">>

\* surfacers.Init: the surfacers of the config, or the default ones, then the
\* required ones that are not among them.  An empty definition, "none", only keeps
\* the default ones away.
SurfacersInit(acc, defs) ==
  LET ds == IF defs = <<>> THEN defaultSurfacers ELSE defs
      required(r, s) == IF s \in Range(ds) THEN r ELSE initSurfacer(r, s)
  IN ForEach(required, ForEach(initSurfacer, acc, ds), requiredSurfacers)

\* Prober.Init: the gRPC service, the RDS server, lameduck, targets and probes,
\* then servers and surfacers.
ProberInit(acc, c) ==
  IF c.fault = "probe" THEN [acc EXCEPT !.err = TRUE]
  ELSE SurfacersInit(ServersInit(acc, c.servers), c.surfacers)

\* (grpc) A server takes services once each, and none when it serves.
RegisterFails == rcGrpc # 0 /\ rcGrpc # cAttempt + 1

-----------------------------------------------------------------------------
(* InitFromConfig *)

Quiet ==
  /\ \A i \in DOMAIN cRuns : cRuns[i].clean = "done"
  /\ \A l \in cClosers : l.by \notin cEnded

\* The attempt is over; what the attempt keeps in the globals is left to callers.
Attempted(c) ==
  /\ cPc = "out" /\ cAttempt < MaxAttempts
  /\ cPatient => Quiet
  /\ cAttempt' = cAttempt + 1 /\ cConf' = Append(cConf, c)

NoProber == UNCHANGED <<cProber, cLn, cGrpcLn, cCancel>>

\* "Return immediately if prober is already initialized."
InitAgain ==
  /\ \E c \in Configs : Attempted(c)
  /\ cProber # 0 /\ cPc' = "inited"
  /\ UNCHANGED <<cPatient, cOpen, cClosers, cEnded, rcGrpc, rcMux, cStopped, cServed, cRuns>>
  /\ NoProber

\* sysvars, the template, the text of the config, or the port of the default server.
InitEarlyFail ==
  /\ cProber = 0
  /\ \E c \in Configs : Attempted(c) /\ (c.fault = "config" \/ InUse("http", cOpen))
  /\ UNCHANGED <<cPatient, cPc, cOpen, cClosers, cEnded, rcGrpc, rcMux, cStopped, cServed,
                 cRuns>>
  /\ NoProber

MyLn(port) == [port |-> port, by |-> cAttempt + 1]

\* The gRPC port: the listener of the default server stays open, and the one of
\* the port too if its TLS config is bad.
InitGrpcFail ==
  /\ cProber = 0 /\ ~InUse("http", cOpen)
  /\ \E c \in Configs :
       /\ Attempted(c) /\ c.fault # "config" /\ c.grpc
       /\ \/ InUse("grpc", cOpen) /\ cOpen' = cOpen \cup {MyLn("http")}
          \/ /\ ~InUse("grpc", cOpen) /\ ~c.tls
             /\ cOpen' = cOpen \cup {MyLn("http"), MyLn("grpc")}
  /\ rcMux' = {"/debug"}
  /\ UNCHANGED <<cPatient, cPc, cClosers, cEnded, rcGrpc, cStopped, cServed, cRuns>>
  /\ NoProber

\* Mutant of InitCleanup: nothing is closed.
InitCleanup_Nothing(open) == open

\* After a failed Prober.Init: the servers' goroutines close their listeners when
\* the initCtx has ended, and ln is closed here.
InitCleanup(open) == open \ {MyLn("http")}

\* From Prober.Init on.
InitProber ==
  /\ cProber = 0 /\ ~InUse("http", cOpen)
  /\ \E c \in Configs :
       /\ Attempted(c) /\ c.fault # "config"
       /\ c.grpc => c.tls /\ ~InUse("grpc", cOpen)
       /\ LET grpc == IF c.grpc THEN cAttempt + 1 ELSE rcGrpc
              mine == {MyLn("http")} \cup (IF c.grpc THEN {MyLn("grpc")} ELSE {})
              r == ProberInit([open |-> cOpen \cup mine, closers |-> cClosers, grpc |-> grpc,
                               mux |-> {"/debug"}, err |-> FALSE, panic |-> FALSE], c)
          IN IF ~c.grpc /\ RegisterFails
             THEN /\ cPc' = "exit"
                  /\ UNCHANGED <<cOpen, cClosers, cEnded, rcGrpc, rcMux>> /\ NoProber
             ELSE /\ rcGrpc' = grpc /\ rcMux' = r.mux /\ cClosers' = r.closers
                  /\ IF r.panic
                     THEN cPc' = "panic" /\ cOpen' = r.open /\ UNCHANGED cEnded /\ NoProber
                     ELSE IF r.err
                     THEN /\ cEnded' = cEnded \cup {cAttempt + 1}
                          /\ cOpen' = InitCleanup(r.open) /\ UNCHANGED cPc /\ NoProber
                     ELSE /\ cPc' = "inited" /\ cOpen' = r.open /\ UNCHANGED cEnded
                          /\ cProber' = cAttempt + 1 /\ cLn' = cAttempt + 1
                          /\ cGrpcLn' = (IF c.grpc THEN cAttempt + 1 ELSE 0)
                          /\ cCancel' = cAttempt + 1
  /\ UNCHANGED <<cPatient, cStopped, cServed, cRuns>>

\* A server's goroutine of New sees the end of the initCtx.
CloseOnInitCtx ==
  /\ \E l \in cClosers :
       l.by \in cEnded /\ cOpen' = cOpen \ {l} /\ cClosers' = cClosers \ {l}
  /\ UNCHANGED <<cPatient, cPc, cAttempt, cConf, cProber, cLn, cGrpcLn, cCancel, cEnded,
                 rcGrpc, rcMux, cStopped, cServed, cRuns>>

-----------------------------------------------------------------------------
(* Start *)

\* The servers and the cleanup are started before Start looks at the prober.
Start ==
  /\ cPc = "inited"
  /\ cPc' = IF cProber = 0 THEN "panic" ELSE "out"
  /\ cRuns' = Append(cRuns, [of |-> cProber, ln |-> cLn, grpc |-> rcGrpc, grpcLn |-> cGrpcLn,
                             ctx |-> "live", http |-> "starting", clean |-> "wait"])
  /\ UNCHANGED <<cPatient, cAttempt, cConf, cProber, cLn, cGrpcLn, cCancel, cOpen, cClosers,
                 cEnded, rcGrpc, rcMux, cStopped, cServed>>

Lns(r) ==
  (IF r.ln # 0 THEN {[port |-> "http", by |-> r.ln]} ELSE {})
    \cup (IF r.grpcLn # 0 THEN {[port |-> "grpc", by |-> r.grpcLn]} ELSE {})

\* The Serve calls of the default servers: a server that is closed already closes
\* the listener.
Serve(i) ==
  LET r == cRuns[i]
      grpcOn == r.grpc # 0 /\ r.grpcLn # 0
  IN /\ r.http = "starting" /\ cPc # "panic"
     /\ IF r.clean = "wait" THEN /\ cRuns' = [cRuns EXCEPT ![i].http = "serving"]
                                 /\ UNCHANGED cOpen
                            ELSE /\ cRuns' = [cRuns EXCEPT ![i].http = "closed"]
                                 /\ cOpen' = cOpen \ Lns(r)
     /\ cServed' = IF grpcOn THEN cServed \cup {r.grpc} ELSE cServed
     /\ UNCHANGED <<cPatient, cPc, cAttempt, cConf, cProber, cLn, cGrpcLn, cCancel, cClosers,
                    cEnded, rcGrpc, rcMux, cStopped>>

EndContext(i) ==
  /\ cRuns[i].ctx = "live" /\ cPc # "panic"
  /\ cRuns' = [cRuns EXCEPT ![i].ctx = "done"]
  /\ UNCHANGED <<cPatient, cPc, cAttempt, cConf, cProber, cLn, cGrpcLn, cCancel, cOpen,
                 cClosers, cEnded, rcGrpc, rcMux, cStopped, cServed>>

\* The cleanup goroutine up to the lock: cancelInitCtx is the one that is current.
CleanupServers(i) ==
  LET r == cRuns[i]
  IN /\ r.ctx = "done" /\ r.clean = "wait" /\ cPc # "panic"
     /\ cRuns' = [cRuns EXCEPT ![i].clean = "closed",
                               ![i].http = IF @ = "serving" THEN "closed" ELSE @]
     /\ cOpen' = IF r.http = "serving" THEN cOpen \ Lns(r) ELSE cOpen
     /\ cStopped' = IF r.grpc # 0 THEN cStopped \cup {r.grpc} ELSE cStopped
     /\ cEnded' = cEnded \cup {cCancel}
     /\ UNCHANGED <<cPatient, cPc, cAttempt, cConf, cProber, cLn, cGrpcLn, cCancel, cClosers,
                    rcGrpc, rcMux, cServed>>

\* Mutant of CleanupGlobals: the prober stays.
CleanupGlobals_KeepsProber ==
  cLn' = 0 /\ cGrpcLn' = 0 /\ UNCHANGED <<cProber, cCancel>>

CleanupGlobals ==
  cLn' = 0 /\ cGrpcLn' = 0 /\ cProber' = 0 /\ UNCHANGED cCancel

\* The rest of it, with the lock.
CleanupDone(i) ==
  /\ cRuns[i].clean = "closed" /\ cPc # "panic"
  /\ cRuns' = [cRuns EXCEPT ![i].clean = "done"]
  /\ CleanupGlobals
  /\ UNCHANGED <<cPatient, cPc, cAttempt, cConf, cOpen, cClosers, cEnded, rcGrpc, rcMux,
                 cStopped, cServed>>

LifeNext ==
  \/ InitAgain \/ InitEarlyFail \/ InitGrpcFail \/ InitProber \/ CloseOnInitCtx \/ Start
  \/ \E i \in DOMAIN cRuns :
       Serve(i) \/ EndContext(i) \/ CleanupServers(i) \/ CleanupDone(i)

LifeSpec == LifeInit /\ [][LifeNext]_cfgVars

-----------------------------------------------------------------------------
(* Properties *)

Leaked(l) ==
  LET c == cConf[l.by]
  IN \/ l.port = "grpc" /\ cProber # l.by          \* Prober.Init failed, or TLS
     \/ l.port = "http" /\ c.grpc                   \* the gRPC port failed
     \/ l.port = "https_nocert"                     \* a server failed in New

\* If the program waits for the cleanups: whatever attempts failed where, a
\* listener that is open belongs to the prober that is initialized or to one whose
\* cleanup is still under way, or it is one of the three that the code forgets: the
\* gRPC port of an attempt that failed later, the default server's of an attempt
\* that failed at the gRPC port, and the one of an HTTPS server without
\* certificates.
ListenersAccounted ==
  cPatient /\ cPc \notin {"panic", "exit"} =>
    \A l \in cOpen :
      \/ l.by = cProber
      \/ l \in cClosers /\ l.by \in cEnded
      \/ \E i \in DOMAIN cRuns : l \in Lns(cRuns[i]) /\ cRuns[i].http # "closed"
      \/ Leaked(l)

\* A program that waits for the cleanups finds its prober running after Start,
\* until it ends the context: initialized, with all listeners of its config open,
\* and with the gRPC server, if there is one, not stopped, although attempts that
\* failed before have left contexts, goroutines and servers behind.  Start
\* never panics for it; the process ends only where a config without a gRPC port
\* follows one that had it.
StartedServes ==
  cPatient =>
    /\ \A i \in DOMAIN cRuns :
         LET r == cRuns[i]
             c == cConf[r.of]
         IN cPc # "exit" /\ r.ctx = "live" =>
              /\ cPc = "panic" \/ cProber = r.of
              /\ Lns(r) \subseteq cOpen /\ r.ln = r.of
              /\ c.grpc => r.grpcLn = r.of /\ r.grpc = r.of /\ r.grpc \notin cStopped
              /\ \A j \in DOMAIN c.servers :
                   c.servers[j] \in {"grpc_default", "external"}
                     \/ [port |-> c.servers[j], by |-> r.of] \in cOpen
    /\ cPc = "exit" => \E a \in 1..cAttempt - 1 : cConf[a].grpc

\* Both, over any sequence of initializations, failures, Starts and cleanups.
AttemptsAccounted == ListenersAccounted /\ StartedServes
=============================================================================
