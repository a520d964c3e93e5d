---------------------------- MODULE CloudTargets -----------------------------
(***************************************************************************)
(* Targets that bring their own RDS server: gce_targets and k8s targets,   *)
(* which share servers through package globals, and GCE forwarding rules,  *)
(* which are a singleton.  Targets are made one after the other by New and *)
(* used by their probes while the listers and clients of all of them are   *)
(* refreshed.  A remote RDS server is reached by a list of addresses that  *)
(* the srvlist resolver makes.                                             *)
(*                                                                         *)
(* A definition has its type, projects or namespace, label selectors and   *)
(* resource type, and whether making a server for it fails.  The scope of  *)
(* a lister is a project or what a Kubernetes server was made for.         *)
(***************************************************************************)
EXTENDS Naturals, Sequences, FiniteSets, TLC

CONSTANTS
  Defs,        \* definitions of targets
  CtScopes,    \* scopes
  LocalProject, \* project of the machine
  VMs,         \* names
  SrvHosts,    \* entries of a server address list
  MaxTgts,     \* bound: targets made
  MaxCloud     \* bound: changes of the cloud

VARIABLES
  ctServers,  \* key -> scopes that its server has listers for
  ctMade,     \* history: key -> servers made
  ctCloud,    \* scope -> names at the API
  ctCached,   \* <<key, scope>> -> names in the lister's cache
  ctTgts,     \* targets made: definition and names of each client; or a nil pointer
  ctChanges,
  frOnce,     \* onceForwardingRules and its outcome: "unused", "failed" or "ready"
  frDef,      \* definition of globalForwardingRules
  frNames,    \* its names
  frRules,    \* its cache
  frExpand,   \* is expand at work on the cache, with which names?
  ctDead,     \* has the process ended?
  svHosts,    \* hostList of the resolver
  svAddrs     \* addresses that it gave to the connection

frVars == <<frOnce, frDef, frNames, frRules, frExpand>>
svVars == <<svHosts, svAddrs>>
ctVars == <<ctServers, ctMade, ctCloud, ctCached, ctTgts, ctChanges, ctDead, frVars>>

NoDef == [type |-> "none", projects |-> {}, fails |-> FALSE]
Fn(f, k, v) == [x \in DOMAIN f \union {k} |-> IF x = k THEN v ELSE f[x]]
None0 == [x \in {} |-> 0]

CtInit ==
  /\ ctServers = None0 /\ ctMade = None0 /\ ctCached = None0
  /\ ctCloud \in [CtScopes -> {VMs}]
  /\ ctTgts = <<>> /\ ctChanges = 0 /\ ctDead = FALSE
  /\ frOnce = "unused" /\ frDef = NoDef /\ frNames = {} /\ frRules = {} /\ frExpand = {}

CloudMoves ==
  /\ ctChanges < MaxCloud /\ ctChanges' = ctChanges + 1
  /\ \E s \in CtScopes : \E S \in SUBSET VMs : ctCloud' = [ctCloud EXCEPT ![s] = S]
  /\ UNCHANGED <<ctServers, ctMade, ctCached, ctTgts, ctDead, frVars>>

\* Server.ListResources and listerForResourcePath, then updateState: a scope that
\* the server has no lister for is an error, and the client keeps what it has.
ClientList(key, s, old) ==
  IF s \in ctServers'[key] /\ <<key, s>> \in DOMAIN ctCached THEN ctCached[<<key, s>>] ELSE old

\* gce.New: without projects, the one that the program runs in.
Projects(d) == {<<p>> : p \in IF d.projects = {} THEN {LocalProject} ELSE d.projects}

\* key of k8s.go, which sorts the selectors.
k8sKey(d) == <<d.ns, SortSeq(d.sel, LAMBDA a, b : a < b), d.res>>

\* Keys of the two global maps: gce_targets have one server for a resource type.
ServerKey(d) == IF d.type = "k8s" THEN k8sKey(d) ELSE <<d.type>>

\* What the provider of a new server has listers for.
ServedScopes(d) == IF d.type = "k8s" THEN {k8sKey(d)} ELSE Projects(d)

\* Mutant of initRDSServer: each definition makes a server.
initRDSServer_Each(d) ==
  LET k == ServerKey(d)
  IN /\ ctServers' = Fn(ctServers, k, ServedScopes(d))
     /\ ctMade' = Fn(ctMade, k, IF k \in DOMAIN ctMade THEN ctMade[k] + 1 ELSE 1)

\* initRDSServer, under the lock of the global map.
initRDSServer(d) ==
  LET k == ServerKey(d)
  IN IF k \in DOMAIN ctServers THEN UNCHANGED <<ctServers, ctMade>>
     ELSE /\ ctServers' = Fn(ctServers, k, ServedScopes(d))
          /\ ctMade' = Fn(ctMade, k, IF k \in DOMAIN ctMade THEN ctMade[k] + 1 ELSE 1)

\* A server that cannot be made is an error of New.
NewFails(d) ==
  /\ Len(ctTgts) < MaxTgts /\ ServerKey(d) \notin DOMAIN ctServers /\ d.fails
  /\ UNCHANGED <<ctServers, ctMade, ctTgts, ctCloud, ctCached, ctChanges, ctDead, frVars>>

\* Each client refreshes once when it is made.
WithClients(d) ==
  /\ Len(ctTgts) < MaxTgts /\ (ServerKey(d) \in DOMAIN ctServers \/ ~d.fails)
  /\ initRDSServer(d)
  /\ ctTgts' = Append(ctTgts, [def |-> d, nil |-> FALSE,
                               names |-> [s \in ServedScopes(d) |->
                                            ClientList(ServerKey(d), s, {})]])
  /\ UNCHANGED <<ctCloud, ctCached, ctChanges, ctDead, frVars>>

\* gce.New for instances: a client for each project.
NewInstances(d) == d.type = "gce_instances" /\ (NewFails(d) \/ WithClients(d))

\* k8sTargets: one client.
k8sTargets(d) == d.type = "k8s" /\ (NewFails(d) \/ WithClients(d))

\* expand of a lister of a server.
CtExpand(key, s) ==
  /\ key \in DOMAIN ctServers /\ s \in ctServers[key]
  /\ ctCached' = Fn(ctCached, <<key, s>>, ctCloud[s])
  /\ UNCHANGED <<ctServers, ctMade, ctCloud, ctTgts, ctChanges, ctDead, frVars>>

\* refreshState of a client.
CtRefresh(i, s) ==
  /\ ~ctTgts[i].nil /\ ctTgts[i].def.type # "forwarding_rules" /\ s \in ServedScopes(ctTgts[i].def)
  /\ UNCHANGED ctServers
  /\ ctTgts' = [ctTgts EXCEPT ![i].names[s] = ClientList(ServerKey(ctTgts[i].def), s, @)]
  /\ UNCHANGED <<ctMade, ctCloud, ctCached, ctChanges, ctDead, frVars>>

\* gce.New for forwarding rules of one project, with newForwardingRules: only the first call may
\* return an error, and the others return what globalForwardingRules then is.
NewForwardingRules(d) ==
  /\ d.type = "forwarding_rules" /\ Len(ctTgts) < MaxTgts
  /\ \/ /\ frOnce = "unused" /\ d.fails
        /\ frOnce' = "failed" /\ UNCHANGED <<frDef, ctTgts>>
     \/ /\ frOnce = "unused" /\ ~d.fails /\ frOnce' = "ready" /\ frDef' = d
        /\ ctTgts' = Append(ctTgts, [def |-> d, nil |-> FALSE, names |-> None0])
     \/ /\ frOnce # "unused" /\ UNCHANGED <<frOnce, frDef>>
        /\ ctTgts' = Append(ctTgts, [def |-> d, nil |-> frOnce = "failed", names |-> None0])
  /\ UNCHANGED <<ctServers, ctMade, ctCloud, ctCached, ctChanges, ctDead, frNames, frRules,
                 frExpand>>

\* expand of the forwarding rules, while it writes to the cache, and its end.  A
\* failed call leaves names and cache.  Rules that are gone stay in the cache.
FRExpandBegin ==
  /\ frOnce = "ready" /\ frExpand = {}
  /\ frExpand' = {UNION {ctCloud[s] : s \in Projects(frDef)}}
  /\ UNCHANGED <<ctServers, ctMade, ctCloud, ctCached, ctTgts, ctChanges, ctDead, frOnce, frDef,
                 frNames, frRules>>

FRExpandEnd ==
  /\ \E new \in frExpand : frNames' = new /\ frRules' = frRules \union new
  /\ frExpand' = {}
  /\ UNCHANGED <<ctServers, ctMade, ctCloud, ctCached, ctTgts, ctChanges, ctDead, frOnce, frDef>>

\* ListEndpoints, and Resolve of forwarding rules: a nil pointer ends the process,
\* and so may a read of the cache while expand writes to it.
Use(i) ==
  /\ ctDead' \in IF ctTgts[i].nil THEN {TRUE}
                 ELSE IF ctTgts[i].def.type = "forwarding_rules" /\ frExpand # {} THEN BOOLEAN
                 ELSE {FALSE}
  /\ UNCHANGED <<ctServers, ctMade, ctCloud, ctCached, ctTgts, ctChanges, frVars>>

CtNext ==
  /\ ~ctDead
  /\ \/ CloudMoves \/ FRExpandBegin \/ FRExpandEnd
     \/ \E d \in Defs : NewInstances(d) \/ k8sTargets(d) \/ NewForwardingRules(d)
     \/ \E key \in DOMAIN ctServers, s \in CtScopes : CtExpand(key, s)
     \/ \E i \in DOMAIN ctTgts : Use(i) \/ \E s \in CtScopes : CtRefresh(i, s)

-----------------------------------------------------------------------------
(* srvlist.go *)

SrvInit == svHosts = <<>> /\ svAddrs = <<>>

\* parseAddr: formatIP puts an IPv6 address without a port into brackets.
parseAddr(h) == IF h.form = "ip6" /\ ~h.port THEN [h EXCEPT !.form = "bracketed"] ELSE h

\* newSrvListResolver and Build: one entry that is not an address fails, and the
\* order is random.
SrvBuild ==
  /\ svHosts = <<>>
  /\ \E n \in 1..Cardinality(SrvHosts) :
       \E hs \in [1..n -> SrvHosts] :
         /\ \A i, j \in 1..n : hs[i] = hs[j] => i = j
         /\ \A i \in 1..n : hs[i].form = "name" => hs[i].port
         /\ svHosts' = [i \in 1..n |-> parseAddr(hs[i])]
  /\ UNCHANGED svAddrs

\* resolve, called by Build and ResolveNow: IP addresses are taken as they are,
\* anything else goes to DNS.  One failure is reported and leaves the connection
\* its addresses.
SrvResolveNow ==
  /\ svHosts # <<>>
  /\ \E known \in SUBSET {i \in DOMAIN svHosts : svHosts[i].form = "name"} :
       svAddrs' = IF \A i \in DOMAIN svHosts :
                      svHosts[i].form \in {"ip4", "ip6"} \/ i \in known
                  THEN svHosts ELSE svAddrs
  /\ UNCHANGED svHosts

SrvNext == SrvBuild \/ SrvResolveNow

CtSpec ==
  /\ CtInit /\ SrvInit
  /\ [][(CtNext /\ UNCHANGED svVars) \/ (SrvNext /\ UNCHANGED ctVars)]_<<ctVars, svVars>>

-----------------------------------------------------------------------------
(* Properties *)

\* The definition that was first to have a key made its server.
FirstOf(key) ==
  ctTgts[CHOOSE i \in DOMAIN ctTgts :
           /\ ServerKey(ctTgts[i].def) = key
           /\ \A j \in DOMAIN ctTgts : ServerKey(ctTgts[j].def) = key => i <= j].def

\* Targets with one key share one server, however many there are.  They list names
\* of their own scopes only, and a scope that the first of them does not have is
\* never listed for the others: their clients are told of an error at each refresh.
\* All forwarding rules are those of the first definition, and the process ends
\* only when the first one failed or when a list is read during an expand.  The
\* connection to a remote server has all the addresses of its list or none, and
\* none as long as the list has an IPv6 address without a port, which is taken for
\* a name.
ServersShared ==
  /\ \A key \in DOMAIN ctMade : ctMade[key] = 1
  /\ \A i \in DOMAIN ctTgts : LET t == ctTgts[i] IN
       /\ t.def.type # "forwarding_rules" =>
            \A s \in ServedScopes(t.def) \ ServedScopes(FirstOf(ServerKey(t.def))) :
              t.names[s] = {}
       /\ t.def.type = "forwarding_rules" /\ ~t.nil => frDef = FirstOf(ServerKey(t.def))
  /\ ctDead => frOnce = "failed" \/ frExpand # {}
  /\ svAddrs # <<>> =>
       svAddrs = svHosts /\ \A i \in DOMAIN svAddrs : svAddrs[i].form # "bracketed"
=============================================================================
