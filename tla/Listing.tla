------------------------------- MODULE Listing -------------------------------
(***************************************************************************)
(* What becomes of the objects of a cloud on their way to a target list:   *)
(* a lister's cache, listResources with the filters and the IP choice of a *)
(* request, and the records that the RDS client keeps.                     *)
(*                                                                         *)
(* A regular expression is the set of what it matches; NoFilter is none.   *)
(* A name put together from parts is the sequence of its parts.  An IP is  *)
(* a record with its version; NoIP is the empty string.                    *)
(***************************************************************************)
EXTENDS Naturals, Sequences, SequencesExt, TLC

CONSTANTS
  NoFilter,    \* no filter
  NoIP,        \* ""
  Null,        \* "null"
  BadIP,       \* what does not parse
  Error,       \* error values
  LgObjects,   \* type -> lists of objects that the API may return
  LgRequests,  \* type -> requests
  MaxLists     \* bound: changes of the objects

VARIABLES
  lgType,    \* resource type
  lgReq,     \* request of the client
  lgApi,     \* objects at the API
  lgCache,   \* objects in the lister's cache, in the order of its keys
  lgEps,     \* cache and names of the RDS client, in the order of names
  lgLists

lgVars == <<lgType, lgReq, lgApi, lgCache, lgEps, lgLists>>

\* RegexFilter.Match, or no filter.
Match(f, s) == f = NoFilter \/ s \in f

\* LabelsFilter.Match.
MatchLabels(f, labels) ==
  f = NoFilter \/ \A k \in DOMAIN f : k \in DOMAIN labels /\ labels[k] \in f[k]

\* Filters in front of an object: key.name against the rest of the resource path,
\* then the filters by name, namespace and labels.
MatchObject(o, req) ==
  /\ req.path \in {NoFilter, o.name}
  /\ Match(req.name, o.name) /\ Match(req.ns, o.ns) /\ MatchLabels(req.labels, o.labels)

Resource(name, ip, port, labels) == [name |-> name, ip |-> ip, port |-> port, labels |-> labels]

-----------------------------------------------------------------------------
(* GCP *)

\* ipV.
ipV(ip4, ip6, ver) ==
  CASE ver = 4 -> ip4
    [] ver = 6 -> ip6
    [] OTHER   -> IF ip4 # NoIP THEN ip4 ELSE ip6

\* externalAddr: "null" stands for a missing access config.
externalAddr(nic, ver) ==
  LET first(configs) == IF configs = <<>> THEN Null ELSE configs[1]
      ip == ipV(first(nic.access4), first(nic.access6), ver)
  IN IF ip = Null THEN Error ELSE ip

\* instanceIP.  An alias range that is neither an address nor a CIDR is BadIP.
instanceIP(nics, req) ==
  IF Len(nics) < req.nic THEN Error
  ELSE LET ni == nics[req.nic]
       IN CASE req.ipType = "default" -> ipV(ni.ip4, ni.ip6, req.ver)
            [] req.ipType = "public"  -> externalAddr(ni, req.ver)
            [] req.ipType = "alias"   ->
                 IF ni.aliases = <<>> \/ ni.aliases[1] = BadIP THEN Error ELSE ni.aliases[1]

instanceResources(o, req) == <<Resource(<<o.name>>, instanceIP(o.nics, req), "0", o.labels)>>

\* The forwarding rules lister filters by region.
ruleResources(o, req) ==
  IF Match(req.region, o.region) THEN <<Resource(<<o.name>>, o.ip, "0", <<>>)>> ELSE <<>>

-----------------------------------------------------------------------------
(* Kubernetes *)

podResources(o, req) == <<Resource(<<o.name>>, o.ip, "0", o.labels)>>

\* The name of a port, or its number.
PortName(p) == IF p.name = "" THEN p.port ELSE p.name

\* epInfo.resources: the product of ports and addresses, per subset.
epResources(o, req) ==
  LET ofPort(s, p) ==
        IF ~Match(req.port, PortName(p)) THEN <<>>
        ELSE [i \in DOMAIN s.addresses |->
                LET a == s.addresses[i]
                IN Resource(<<o.name, a.ip, PortName(p)>>, a.ip, p.port,
                       ([k \in {"node"} \union (IF a.pod = "" THEN {} ELSE {"pod"}) |->
                                    IF k = "node" THEN a.node ELSE a.pod] @@ o.labels))]
      ofSubset(s) == FlattenSeq([i \in DOMAIN s.ports |-> ofPort(s, s.ports[i])])
  IN FlattenSeq([i \in DOMAIN o.subsets |-> ofSubset(o.subsets[i])])

\* serviceInfo.matchPorts: the ports, and the map from numbers to names, in which
\* the last name of a number stays.
matchPorts(o, req) == SelectSeq(o.ports, LAMBDA p : Match(req.port, PortName(p)))
portNameMap(ports, number) ==
  PortName(ports[CHOOSE i \in DOMAIN ports :
                   /\ ports[i].port = number
                   /\ \A j \in DOMAIN ports : ports[j].port = number => j <= i])

\* The IP of the first ingress of a load balancer, or its host name.
ingressIP(lb) == IF lb[1].ip = NoIP THEN lb[1].hostname ELSE lb[1].ip

\* Mutant of servicePortName: the ports that the filter leaves out count too.
servicePortName_All(o, ports, number) ==
  IF Len(o.ports) = 1 THEN <<o.name>> ELSE <<o.name, portNameMap(ports, number)>>

servicePortName(o, ports, number) ==
  IF Len(ports) = 1 THEN <<o.name>> ELSE <<o.name, portNameMap(ports, number)>>

\* serviceInfo.resources.
serviceResources(o, req) ==
  LET ports == matchPorts(o, req)
      ip == IF req.ipType = "public" THEN ingressIP(o.lb) ELSE o.clusterIP
  IN IF req.ipType = "public" /\ o.lb = <<>> THEN <<>>
     ELSE [i \in DOMAIN ports |->
             Resource(servicePortName(o, ports, ports[i].port), ip, ports[i].port, o.labels)]

\* ingressInfo.resources.  A path of "/" is not part of the name.
ingressResources(o, req) ==
  LET ip == IF o.lb = <<>> THEN NoIP ELSE ingressIP(o.lb)
      name(r, p) == IF p = "/" THEN <<o.name, r.host>> ELSE <<o.name, r.host, p>>
      ofRule(r) == [i \in DOMAIN r.paths |->
        Resource(name(r, r.paths[i]), ip, "0",
            o.labels @@ [fqdn |-> r.host, relative_url |-> r.paths[i]])]
  IN IF o.rules = <<>> THEN <<Resource(<<o.name>>, ip, "0", o.labels)>>
     ELSE FlattenSeq([i \in DOMAIN o.rules |-> ofRule(o.rules[i])])

-----------------------------------------------------------------------------
(* Listing *)

resources(o, req) ==
  CASE lgType = "gce_instances"    -> instanceResources(o, req)
    [] lgType = "forwarding_rules" -> ruleResources(o, req)
    [] lgType = "pods"             -> podResources(o, req)
    [] lgType = "endpoints"        -> epResources(o, req)
    [] lgType = "services"         -> serviceResources(o, req)
    [] lgType = "ingresses"        -> ingressResources(o, req)

\* listResources of the listers.  Ingresses are filtered by name and labels when
\* they are resources.
listResources(objects, req) ==
  IF lgType = "ingresses"
  THEN LET listed == SelectSeq(objects, LAMBDA o : /\ req.path \in {NoFilter, o.name}
                                                   /\ Match(req.ns, o.ns))
       IN SelectSeq(FlattenSeq([i \in DOMAIN listed |-> resources(listed[i], req)]),
                    LAMBDA r : Match(req.name, r.name) /\ MatchLabels(req.labels, r.labels))
  ELSE LET listed == SelectSeq(objects, LAMBDA o : MatchObject(o, req))
       IN FlattenSeq([i \in DOMAIN listed |-> resources(listed[i], req)])

\* updateState of the RDS client: the first resource of a name is kept.
Records(list) ==
  FoldLeft(LAMBDA eps, r : IF \E i \in DOMAIN eps : eps[i].name = r.name THEN eps
                           ELSE Append(eps, r), <<>>, list)

LgInit ==
  /\ lgType \in DOMAIN LgObjects
  /\ lgReq \in LgRequests[lgType]
  /\ lgApi \in LgObjects[lgType]
  /\ lgCache = <<>> /\ lgEps = <<>> /\ lgLists = 0

LgChange ==
  /\ lgLists < MaxLists /\ lgLists' = lgLists + 1
  /\ lgApi' \in LgObjects[lgType]
  /\ UNCHANGED <<lgType, lgReq, lgCache, lgEps>>

\* parsePodsJSON: pods that do not run are left out.
parsePodsJSON(objects) == SelectSeq(objects, LAMBDA o : o.phase = "Running")

\* expand, at each reEvalInterval, with the parsing of the response.
LgExpand ==
  /\ lgCache' = IF lgType = "pods" THEN parsePodsJSON(lgApi) ELSE lgApi
  /\ UNCHANGED <<lgType, lgReq, lgApi, lgEps, lgLists>>

\* refreshState: an instance without the IP that is asked for is an error of the
\* whole list, and the client's records stay as they are.
LgRefresh ==
  /\ LET list == listResources(lgCache, lgReq)
     IN lgEps' = IF \E i \in DOMAIN list : list[i].ip = Error THEN lgEps ELSE Records(list)
  /\ UNCHANGED <<lgType, lgReq, lgApi, lgCache, lgLists>>

LgNext == LgChange \/ LgExpand \/ LgRefresh

\* Client.Resolve of a name: a value that is no IP is left to the DNS resolver,
\* whose answer has the version asked for, and a resource without one is an error.
ResolveName(name, ver) ==
  LET at == {i \in DOMAIN lgEps : lgEps[i].name = name}
      ip == lgEps[CHOOSE i \in at : TRUE].ip
  IN IF at = {} \/ ip = NoIP THEN Error
     ELSE IF ip.ver = 0 THEN [ver |-> ver]
     ELSE IF ver = 0 \/ ip.ver = ver THEN ip ELSE Error

-----------------------------------------------------------------------------
(* Properties *)

\* What services.go, endpoints.go and ingresses.go say of the resources: one for
\* each port of a service, named after it unless it is the only one that matches;
\* one for each address and port of a subset; one for each path of a rule.
PairsOf(o) ==
  CASE lgType = "services"  -> {<<p>> : p \in ToSet(matchPorts(o, lgReq))}
    [] lgType = "endpoints" ->
         UNION {{<<a.ip, p>> : a \in ToSet(s.addresses),
                 p \in {q \in ToSet(s.ports) : Match(lgReq.port, PortName(q))}} :
                s \in ToSet(o.subsets)}
    [] lgType = "ingresses" ->
         {p \in IF o.rules = <<>> THEN {<<>>}
               ELSE UNION {{<<r.host, p>> : p \in ToSet(r.paths)} : r \in ToSet(o.rules)} :
            MatchLabels(lgReq.labels, IF p = <<>> THEN o.labels
                                      ELSE o.labels @@ [fqdn |-> p[1], relative_url |-> p[2]])}
    [] OTHER -> {<<>>}

\* The names of these, with their ports.
NamesOf(o) ==
  LET one == lgType = "services" /\ \E p \in PairsOf(o) : PairsOf(o) = {p}
  IN {CASE one                  -> <<<<o.name>>, p[1].port>>
        [] lgType = "services" /\ ~one -> <<<<o.name, PortName(p[1])>>, p[1].port>>
        [] lgType = "endpoints" -> <<<<o.name, p[1], PortName(p[2])>>, p[2].port>>
        [] lgType = "ingresses" /\ p # <<>> /\ p[2] = "/" -> <<<<o.name, p[1]>>, "0">>
        [] OTHER                -> <<<<o.name>> \o p, "0">> : p \in PairsOf(o)}

\* A service may have the same port number twice, under two names.
SamePort(o) ==
  lgType = "services" /\ \E i, j \in DOMAIN o.ports : i # j /\ o.ports[i].port = o.ports[j].port

\* The objects that the request selects.
Selected ==
  {o \in ToSet(lgCache) :
     /\ IF lgType = "ingresses" THEN lgReq.path \in {NoFilter, o.name} /\ Match(lgReq.ns, o.ns)
        ELSE MatchObject(o, lgReq)
     /\ lgType = "forwarding_rules" => Match(lgReq.region, o.region)
     /\ lgType = "services" /\ lgReq.ipType = "public" => o.lb # <<>>}

Expected ==
  {e \in UNION {NamesOf(o) : o \in Selected} : lgType = "ingresses" => Match(lgReq.name, e[1])}

\* After a refresh the client has one record for each port, address or path that
\* the request selects, under the name that the listers' comments give it, in
\* spite of filters that leave some ports out and of objects of one name in two
\* namespaces, of which one is kept.  Only an instance without the address asked
\* for stops the refresh, and two ports of one number share a name.  A name
\* resolves to an address of the version asked for, or not at all.
ListingComplete ==
  [][LgRefresh =>
       /\ \/ /\ lgType = "gce_instances" /\ lgEps' = lgEps
             /\ \E o \in Selected : instanceIP(o.nics, lgReq) = Error
          \/ \E o \in Selected : SamePort(o)
          \/ LET got == {<<lgEps'[i].name, lgEps'[i].port>> : i \in DOMAIN lgEps'}
             IN /\ got \subseteq Expected
                /\ {e[1] : e \in got} = {e[1] : e \in Expected}
       /\ \A i, j \in DOMAIN lgEps' : i # j => lgEps'[i].name # lgEps'[j].name
       /\ \A i \in DOMAIN lgEps, ver \in {4, 6} :
            LET ip == ResolveName(lgEps[i].name, ver) IN ip # Error => ip.ver = ver
    ]_lgVars
=============================================================================
