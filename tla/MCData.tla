------------------------------- MODULE MCData -------------------------------
(***************************************************************************)
(* One component at a time, on a small instance: a surfacer, the wrapper   *)
(* around it, the payload parser, the resolver, targets and the listers    *)
(* behind them.                                                            *)
(***************************************************************************)
EXTENDS LineSurfacers, BatchSurfacers, Prometheus, ProbeStatus, SurfacerWrapper, Resolver,
        Listers, Payload, Targets, Listing, CloudTargets

CONSTANTS
  Parts,           \* components that the run covers
  d1, d2, d3, d4   \* targets of the probestatus surfacer

VARIABLE part  \* which component

AllParts == {"lines", "batches", "prometheus", "probestatus", "wrapper", "resolver", "lister",
             "payload", "targets", "listing", "cloud", "srvlist", "atomic"}
OnlyTargets == {"targets"}

-----------------------------------------------------------------------------
(* Surfacers *)

MCDsts == {d1, d2, d3, d4}
MCData5 == <<[total |-> 2, success |-> 1], [total |-> 4, success |-> 2],
             [total |-> 5, success |-> 3], [total |-> 5, success |-> 3],
             [total |-> 8, success |-> 5]>>
MCQueries ==
  [end : {NoParam}, duration : {NoParam, 4}, res : {2}] \union
  {q \in [end : {NoParam, 6}, duration : {NoParam, 3}, res : {NoParam, 4}] :
     q.end = NoParam <=> (q.duration = NoParam <=> q.res = NoParam)}
MCGraphLimits == <<2, 4>>
MCGraphSteps == <<2, 4, 6>>
MCPoints == [t \in MCDsts |-> CASE t = d1 -> 5 [] t = d2 -> 2 [] OTHER -> 1]
MCLabels == [l \in {"probe"} |-> "p1"]
MCFilters == {[key |-> "probe", value |-> ""]}

-----------------------------------------------------------------------------
(* Payload *)

MCNegInf == -100
MCDistMetrics == [n \in {"lat"} |-> <<2, 5>>]
Line(name, labels, form, body) ==
  [name |-> name, labels |-> labels, val |-> [form |-> form, body |-> body]]
Dist(count, lb, bc) == [sum |-> 9, count |-> count, lb |-> lb, bc |-> bc]
MCPayLines ==
  {Bad, Line("q", <<>>, "number", 2), Line("q", <<"a", "b">>, "number", 1),
   Line("q", <<"b", "a">>, "number", 3), Line("q", <<>>, "quoted", "s"),
   Line("total", <<>>, "number", 1),
   Line("q", <<>>, "map", <<<<2, 1>>, <<1, 3>>>>), Line("q", <<>>, "map", <<<<1, 1>>, Bad>>),
   Line("q", <<>>, "map", <<<<3, 2>>, <<1, 2>>>>),
   Line("lat", <<>>, "list", <<2, 7, 1>>), Line("lat", <<>>, "list", <<5, Bad, 1>>),
   Line("lat", <<>>, "dist", Dist(3, <<MCNegInf, 2, 5>>, <<0, 2, 1>>)),
   Line("lat", <<>>, "dist", Dist(2, <<MCNegInf, 2, 5>>, <<0, 2, 1>>)),
   Line("lat", <<>>, "dist", Dist(3, <<MCNegInf, 2>>, <<0, 3>>))}

-----------------------------------------------------------------------------
(* Objects and requests *)

ip4(x) == [ver |-> 4, ip |-> x]
ip6(x) == [ver |-> 6, ip |-> x]
host(x) == [ver |-> 0, ip |-> x]
Nic(v4, v6, access4, access6, aliases) ==
  [ip4 |-> v4, ip6 |-> v6, access4 |-> access4, access6 |-> access6, aliases |-> aliases]
Nic1 == Nic(ip4(1), NoIP, <<ip4(2)>>, <<>>, <<ip4(3)>>)
Nic2 == Nic(ip4(4), ip6(4), <<>>, <<ip6(5)>>, <<BadIP>>)
Instance(name, nics, labels) == [name |-> name, ns |-> "", nics |-> nics, labels |-> labels]
Rule(name, region) == [name |-> name, ns |-> "", labels |-> <<>>, region |-> region, ip |-> ip4(1)]
Object(name, ns) == [name |-> name, ns |-> ns, labels |-> [app |-> "a"]]
Pod(name, ns, phase) == Object(name, ns) @@ [ip |-> ip4(1), phase |-> phase]
Port(name, port) == [name |-> name, port |-> port]
LB(ip, hostname) == [ip |-> ip, hostname |-> hostname]
Svc(name, ns, ports, lb) == Object(name, ns) @@ [clusterIP |-> ip4(9), ports |-> ports, lb |-> lb]
Subset(addresses, ports) == [addresses |-> addresses, ports |-> ports]
Addr(x, pod) == [ip |-> ip4(x), node |-> "n", pod |-> pod]
Endpoints(name, ns, subsets) == Object(name, ns) @@ [subsets |-> subsets]
Ingress(name, ns, lb, rules) == Object(name, ns) @@ [lb |-> lb, rules |-> rules]
Paths(h, paths) == [host |-> h, paths |-> paths]

MCLgObjects ==
  [gce_instances |-> {<<>>, <<Instance("x", <<Nic1>>, [app |-> "a"]),
                              Instance("y", <<Nic1, Nic2>>, [app |-> "b"])>>,
                      <<Instance("y", <<Nic1, Nic2>>, <<>>)>>},
   forwarding_rules |-> {<<Rule("x", "r1"), Rule("y", "r2"), Rule("x", "r2")>>, <<Rule("y", "r1")>>},
   pods |-> {<<Pod("x", "n1", "Running"), Pod("y", "n1", "Pending"), Pod("x", "n2", "Running")>>,
             <<>>},
   services |->
     {<<Svc("x", "n1", <<Port("", "80")>>, <<>>),
        Svc("y", "n1", <<Port("http", "80"), Port("", "90")>>, <<LB(NoIP, host(1))>>)>>,
      <<Svc("x", "n1", <<Port("a", "53"), Port("b", "53")>>, <<LB(ip4(7), host(1))>>),
        Svc("x", "n2", <<Port("", "80")>>, <<>>)>>},
   endpoints |->
     {<<Endpoints("x", "n1", <<Subset(<<Addr(1, "p"), Addr(2, "")>>,
                                      <<Port("http", "80"), Port("", "90")>>)>>)>>,
      <<Endpoints("x", "n1", <<Subset(<<Addr(1, "")>>, <<Port("http", "80")>>),
                               Subset(<<Addr(2, "")>>, <<Port("http", "81")>>)>>),
        Endpoints("y", "n2", <<>>)>>},
   ingresses |->
     {<<Ingress("x", "n1", <<>>, <<>>),
        Ingress("y", "n1", <<LB(ip4(1), NoIP)>>, <<Paths("h1", <<"/", "p">>), Paths("h2", <<"p">>)>>)>>,
      <<Ingress("x", "n1", <<>>, <<>>),
        Ingress("x", "n2", <<LB(NoIP, host(2))>>, <<Paths("h1", <<"/">>)>>)>>}]

AnyReq == [path |-> NoFilter, name |-> NoFilter, ns |-> NoFilter, labels |-> NoFilter,
           port |-> NoFilter, region |-> NoFilter, ipType |-> "default", ver |-> 0, nic |-> 1]
AppA == [app |-> {"a"}]
MCLgRequests ==
  [gce_instances |->
     {[AnyReq EXCEPT !.name = {"y"}], [AnyReq EXCEPT !.labels = AppA]} \union
     {[AnyReq EXCEPT !.ipType = t, !.ver = v, !.nic = k] :
        t \in {"default", "public", "alias"}, v \in {0, 4, 6}, k \in {1, 2}},
   forwarding_rules |-> {AnyReq, [AnyReq EXCEPT !.region = {"r1"}]},
   pods |-> {AnyReq, [AnyReq EXCEPT !.name = {"x"}, !.ns = {"n1"}, !.labels = AppA]},
   services |-> {AnyReq, [AnyReq EXCEPT !.path = "x"], [AnyReq EXCEPT !.ns = {"n2"}, !.labels = AppA],
                 [AnyReq EXCEPT !.port = {"http", "53", "80"}], [AnyReq EXCEPT !.ipType = "public"]},
   endpoints |-> {AnyReq, [AnyReq EXCEPT !.path = "y"], [AnyReq EXCEPT !.port = {"http"}]},
   ingresses |-> {AnyReq, [AnyReq EXCEPT !.path = "x", !.ns = {"n2"}],
                  [AnyReq EXCEPT !.name = {<<"y", "h1">>}],
                  [AnyReq EXCEPT !.labels = [fqdn |-> {"h1"}]]}]

GceDef(type, projects, fails) == [type |-> type, projects |-> projects, fails |-> fails]
K8sDef(sel) == [type |-> "k8s", ns |-> "ns1", sel |-> sel, res |-> "pods", fails |-> FALSE]
MCDefs ==
  {GceDef("gce_instances", {}, FALSE), GceDef("gce_instances", {"p1", "p2"}, FALSE),
   GceDef("gce_instances", {"p2"}, TRUE), K8sDef(<<1, 2>>), K8sDef(<<2, 1>>),
   GceDef("forwarding_rules", {"p1"}, FALSE), GceDef("forwarding_rules", {"p2"}, TRUE)}
MCScopes == {<<"p1">>, <<"p2">>, <<"ns1", <<1, 2>>, "pods">>}
MCHosts ==
  {[form |-> "ip4", port |-> FALSE], [form |-> "ip6", port |-> FALSE],
   [form |-> "ip6", port |-> TRUE], [form |-> "name", port |-> TRUE],
   [form |-> "name", port |-> FALSE]}

-----------------------------------------------------------------------------

dataVars == <<lineVars, batchVars, promVars, statusVars, wrapVars, resVars, listVars, payVars,
             tgtVars, lgVars, ctVars, svVars, atomicVars>>

\* The settings of the other components do not matter.
MCInit ==
  /\ part \in Parts
  /\ LineInit /\ (part # "lines" => oSink = "file" /\ ~oCompress)
  /\ BatchInit /\ (part # "batches" => bType = "cloudwatch")
  /\ WrapInit /\ (part # "wrapper" => wAllow = {} /\ wIgnore = {} /\ ~wAddFailure)
  /\ ListInit /\ (part # "lister" => gKind = "kubernetes" /\ gScopes = {})
  /\ PayInit /\ (part # "payload" => ~pAggregate /\ ~pCumulative /\ ~pOnce)
  /\ TgtInit /\ (part # "targets" => tKind = "k8s" /\ tRegex = {} /\ ~tShared /\ tSources = {})
  /\ LgInit /\ (part # "listing" => lgType = "pods" /\ lgReq = AnyReq /\ lgApi = <<>>)
  /\ PromInit /\ StatusInit /\ ResInit /\ CtInit /\ SrvInit /\ AtomicInit
  /\ part = "targets" =>
       /\ tRegex = TgtNames \/ tKind = "host_names"
       /\ tShared => tKind = "gce_instances"
       /\ tSources = CASE tKind = "k8s" -> {"rtc"}
                       [] tKind # "k8s" /\ tShared -> {"pubsub"}
                       [] OTHER        -> {"rtc", "pubsub"}

\* The other components stay as they are.
Still(p, vars) == IF part = p THEN TRUE ELSE UNCHANGED vars

\* Bounds of probestatus: the ring of d1 turns when no other target has data; d1 and
\* d2 have lines when no other has and not for long; d4 comes when there are as many
\* targets as there may be; and for targets to be dropped few data are enough, and
\* pages after that.
OneRing ==
  /\ sPoints[d1] >= 4 => \A t \in MCDsts \ {d1} : sPoints[t] = 0
  /\ sPoints[d1] >= 2 \/ sPoints[d2] >= 2 => sPoints[d3] = 0
  /\ sPoints[d1] >= 2 /\ sPoints[d2] >= 1 => sNow <= 6 \/ sSeries = << >> \/ sCached > 8
  /\ sPoints[d4] > 0 => sPoints[d2] > 0 /\ sPoints[d3] > 0 /\ sNow <= 4
  /\ sPoints[d2] > 0 /\ sNow > 6 => sCached \in {0} \union 9 .. MaxClock
  /\ sNow > 8 => /\ sPoints[d1] + sPoints[d2] + sPoints[d3] <= 3
                 /\ sCached \in {0} \union 9 .. MaxClock

MCNext ==
  /\ UNCHANGED part
  /\ Still("lines", lineVars)
  /\ Still("batches", batchVars)
  /\ Still("prometheus", promVars)
  /\ Still("probestatus", statusVars)
  /\ Still("wrapper", wrapVars)
  /\ Still("resolver", resVars)
  /\ Still("lister", listVars)
  /\ Still("payload", payVars)
  /\ Still("targets", tgtVars)
  /\ Still("listing", lgVars)
  /\ Still("cloud", ctVars)
  /\ Still("srvlist", svVars)
  /\ Still("atomic", atomicVars)
  /\ \/ part = "lines" /\ LineNext
     \/ part = "batches" /\ BatchNext
     \/ part = "prometheus" /\ PromNext
     \/ part = "probestatus" /\ StatusNext /\ OneRing'
     \/ part = "wrapper" /\ WrapNext
     \/ part = "resolver" /\ ResNext
     \/ part = "lister" /\ ListNext
     \/ part = "payload" /\ PayNext
     \/ part = "targets" /\ TgtNext
     \/ part = "listing" /\ LgNext
     \/ part = "cloud" /\ CtNext
     \/ part = "srvlist" /\ SrvNext
     \/ part = "atomic" /\ AtomicNext

MCSpec == MCInit /\ [][MCNext]_<<part, dataVars>>
=============================================================================
