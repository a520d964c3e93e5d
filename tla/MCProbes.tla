------------------------------ MODULE MCProbes ------------------------------
(***************************************************************************)
(* One probe of a type in Kinds, an alert handler or a server that answers *)
(* probes, on a small instance.  The probes share the target list, the     *)
(* context and StatsKeeper.                                                *)
(***************************************************************************)
EXTENDS UDPProbe, UDPListener, DNSProbe, ExternalProbe, PingProbe, GRPCProbe, HTTPProbe,
        Alerting, Servers

CONSTANTS
  t1, t2,   \* targets
  a1, a2,   \* addresses
  Kinds,    \* types of probe that the run covers
  Pairs,    \* those with two targets; the others have only t1
  Once      \* those whose target list does not change

VARIABLE kind  \* type of the ProbeDef

MCAddrs == {a1, a2}
MCTarget == {t1}
MCTargets == {t1, t2}
CountingKinds == {"udp", "udp_listener", "external", "ping", "grpc", "http", "alerting"}
TwoTargets == {"external", "grpc"}
ReturningKinds == {"udp_listener", "dns", "external", "server"}
OnlyUDP == {"udp"}
ListedOnce == {"udp", "external"}
MCPaths == [p \in {"/lameduck", "/healthcheck", "/metadata", "/", "/other"} |->
  CASE p = "/lameduck"    -> "lameduck"
    [] p = "/healthcheck" -> "healthcheck"
    [] p = "/metadata"    -> "metadata"
    [] p = "/"            -> "static"
    [] OTHER              -> "unknown"]

probeVars == <<udpVars, skVars, listenerVars, dnsVars, extVars, pingVars, grpcVars,
               httpVars, alertVars, envVars, srvVars>>

MCInit ==
  /\ kind \in Kinds
  /\ EnvInit
  /\ kind \notin Pairs => listed \subseteq {t1}
  /\ UDPInit /\ SKInit /\ ListenerInit /\ DNSInit /\ ExtInit /\ PingInit /\ GRPCInit
  /\ HTTPInit /\ AlertInit /\ (kind # "alerting" => aCommand = "words")
  /\ kind = "alerting" => listed = {}
  /\ kind # "external" => xMode = "server"
  /\ SrvsInit /\ (kind # "server" => srvType = "external")

\* The components of other kinds stay as they are.
Still(kinds, vars) == IF kind \in kinds THEN TRUE ELSE UNCHANGED vars

\* probes.go: which package runs a probe of the type.
MCNext ==
  /\ UNCHANGED kind
  /\ Still({"udp"}, udpVars)
  /\ Still({"udp_listener"}, listenerVars)
  /\ Still({"dns"}, dnsVars)
  /\ Still({"external"}, extVars)
  /\ Still({"ping"}, pingVars)
  /\ Still({"grpc"}, grpcVars)
  /\ Still({"http"}, httpVars)
  /\ Still({"alerting"}, alertVars)
  /\ Still({"server"}, srvVars)
  /\ Still({"udp_listener", "dns"}, skVars)
  /\ Still(Kinds \ {"alerting", "server"}, envVars)
  /\ \/ kind = "udp" /\ UDPNext
     \/ kind = "udp_listener" /\ ListenerNext
     \/ kind = "dns" /\ DNSNext
     \/ kind = "external" /\ ExtNext
     \/ kind = "ping" /\ PingNext
     \/ kind = "grpc" /\ GRPCNext
     \/ kind = "http" /\ HTTPNext
     \/ kind = "alerting" /\ AlertNext
     \/ kind = "server" /\ SrvsNext

MCSpec == MCInit /\ [][MCNext]_<<kind, probeVars>>

\* Goroutines make progress: a step that stays possible is taken, and so is a
\* receive from a channel or a look at the context that a loop comes back to
\* again and again.  Queries and commands end, by their timeouts.  Nothing is
\* assumed of messages, target lists, processes or the context.
Take(A) == A /\ UNCHANGED <<kind, udpVars, pingVars, grpcVars, httpVars, alertVars, srvVars>>
ListenerStep(A) == Take(kind = "udp_listener" /\ A /\ UNCHANGED <<dnsVars, extVars>>)
DNSStep(A) == Take(kind = "dns" /\ A /\ UNCHANGED <<listenerVars, extVars>>)
ExtStep(A) ==
  Take(kind = "external" /\ A /\ UNCHANGED <<listenerVars, dnsVars, skVars>>)

ListenerFairness ==
  /\ WF_probeVars(ListenerStep(ListenerEcho))
  /\ WF_probeVars(ListenerStep(ListenerProcess))
  /\ WF_probeVars(ListenerStep(ListenerReturn))
  /\ WF_probeVars(ListenerStep(\E t \in Targets : ListenerOutput(t)))
  /\ WF_probeVars(ListenerStep(ListenerOutputDone))
  /\ WF_probeVars(ListenerStep(EchoWrite))
  /\ WF_probeVars(ListenerStep(SKStop /\ UNCHANGED <<listenerVars, envVars>>))
  /\ SF_probeVars(ListenerStep(ListenerRecvExit))
  /\ SF_probeVars(ListenerStep(ListenerOutputExit))
  /\ SF_probeVars(ListenerStep(EchoExit))

DNSFairness ==
  /\ WF_probeVars(DNSStep(DNSStart \/ DNSTick \/ DNSEndRun))
  /\ WF_probeVars(DNSStep(\E t \in Targets : DNSExchange(t)))
  /\ WF_probeVars(DNSStep(\E r \in dResult : DNSSend(r)))
  /\ WF_probeVars(DNSStep((SKReceive \/ SKStop) /\ UNCHANGED <<dnsVars, envVars>>))

ExtFairness ==
  /\ WF_probeVars(ExtStep(ExtReturn \/ ExtSetRunning \/ ExtAllSent \/ ExtEndRun))
  /\ WF_probeVars(ExtStep(\E t \in Targets : ExtSendRequest(t) \/ ExtStartCommand(t)))
  /\ WF_probeVars(ExtStep(\E t \in Targets : ExtCommandEnds(t)))
  /\ SF_probeVars(ExtStep(ExtRecvExit))

ServerStep(A) ==
  /\ kind = "server" /\ A
  /\ UNCHANGED <<kind, udpVars, skVars, listenerVars, dnsVars, extVars, pingVars, grpcVars,
                 httpVars, alertVars, envVars>>

ServerFairness ==
  /\ WF_probeVars(ServerStep(SrvClose))
  /\ WF_probeVars(ServerStep(WriteBatch \/ WriteToUDP \/ UdpWriteFails))
  /\ WF_probeVars(ServerStep(UdpReturn \/ HttpReturn))
  /\ WF_probeVars(ServerStep(GrpcServing))
  /\ WF_probeVars(ServerStep(GrpcNotServing \/ GrpcStop))
  /\ WF_probeVars(ServerStep(GrpcReturn))

FairSpec == MCSpec /\ ListenerFairness /\ DNSFairness /\ ExtFairness /\ ServerFairness

\* Bound: only t1 is ever listed, and sends, for a type outside Pairs, and the
\* list does not change for a type in Once.  The listener has a change of the
\* list or a repeated message.
FewTargets ==
  /\ kind \notin Pairs => listed \subseteq {t1} /\ sender[t2].sent = 0
  /\ kind \in Once => changes = 0
  /\ kind = "udp_listener" => changes + lRepeats <= 1

\* Every probe and every server comes to an end after its context has ended: a UDP
\* listener and a DNS probe unless a send to a channel that nobody reads any more
\* blocks them (ListenerBlocked, DNSShutdown), an external probe whatever its
\* process does, and a server at any point of its start and its work.
AllReturn == ListenerShutdown /\ DNSShutdown /\ ExtShutdown /\ ServersReturn
=============================================================================
