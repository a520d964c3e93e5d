------------------------------- MODULE Targets -------------------------------
(***************************************************************************)
(* targets.Targets with its lameducks.  The list of targets comes from a   *)
(* lister, and the names of lameducks from up to two RDS clients: one for  *)
(* run-time configurator (RTC) variables, one for pubsub messages.  Each   *)
(* has a cache that its own goroutine refreshes from a server that has a   *)
(* cache too.  ListEndpoints reads these caches one after the other.       *)
(*                                                                         *)
(* Times are Unix seconds in units of a bound: Unix(0) is 0, Go's zero     *)
(* time, which is not Unix(0), is ZeroTime, and the clock starts after the *)
(* first MinLameduck of 1970.                                              *)
(***************************************************************************)
EXTENDS Integers, FiniteSets

CONSTANTS
  TgtNames,      \* names of targets
  MinLameduck,   \* minLameduckDuration
  LdExpiration,  \* expiration_sec of the lameduck options
  MsgMaxAge,     \* maxAge of the pubsub lister
  TgtMaxClock,   \* bound: time
  MaxLameducks   \* bound: variables written and messages published

\* The pubsub lister keeps messages for an hour.  A lameduck expires after
\* expiration_sec, by default 300, which a config may set: it is not longer.
ASSUME LameduckAssumption ==
  /\ MinLameduck \in Nat /\ LdExpiration \in Int /\ MsgMaxAge \in Int
  /\ LdExpiration <= MsgMaxAge

ZeroTime == -1

VARIABLES
  tKind,      \* type of the TargetsDef
  tRegex,     \* names that the regex matches
  tShared,    \* are these shared targets used by another TargetsDef?
  tSources,   \* lameduck clients: "rtc", "pubsub"
  tNow,
  tUp,        \* names that exist at the cloud
  tInst,      \* the GCE instances lister's cache: name -> lastUpdated
  tCli,       \* what the lister of the targets returns: name -> LastUpdated
  rVar,       \* RTC variables: name -> update time
  rCache,     \* the RTC lister's cache
  ldRTC,      \* the client's cache of it: name -> LastUpdated
  pSent,      \* messages published and not delivered: <<name, publish time>>
  pCache,     \* the pubsub lister's cache: name -> publish time
  ldPub,      \* the client's cache of it
  tCalls,     \* lameducks so far
  tPc,        \* ListEndpoints: "idle" or "listed"
  tRead,      \* list of the lister that ListEndpoints has
  tOut,       \* names that ListEndpoints returned last
  hGot,       \* history: name -> publish time of the message delivered last
  hPub, hRTC  \* history: the lameducks that were fresh at the clients' last refreshes

tgtVars == <<tKind, tRegex, tShared, tSources, tNow, tUp, tInst, tCli, rVar, rCache, ldRTC,
             pSent, pCache, ldPub, tCalls, tPc, tRead, tOut, hGot, hPub, hRTC>>

NoNames == [n \in {} |-> 0]
With(f, n, v) == [m \in DOMAIN f \union {n} |-> IF m = n THEN v ELSE f[m]]
Only(f, S) == [n \in DOMAIN f \intersect S |-> f[n]]

\* rds client updateState: the endpoints of resources.  A resource without
\* last_updated has the time Unix(0).
updateState(resources, hasLastUpdated) ==
  [n \in DOMAIN resources |-> IF hasLastUpdated THEN resources[n] ELSE 0]

\* InitDefaultLister: a client for each source that the options name, if any.
InitDefaultLister ==
  /\ tSources \in SUBSET {"rtc", "pubsub"}
  /\ rVar = NoNames /\ rCache = NoNames /\ ldRTC = NoNames
  /\ pSent = {} /\ pCache = NoNames /\ ldPub = NoNames

\* targets.New: host_names are listed once, without times.
TgtInit ==
  /\ tKind \in {"host_names", "gce_instances", "k8s"}
  /\ tRegex \in SUBSET TgtNames
  /\ tShared \in BOOLEAN
  /\ InitDefaultLister
  /\ tNow = MinLameduck + 1
  /\ tUp = TgtNames
  /\ tInst = NoNames
  /\ tCli = IF tKind = "host_names" THEN [n \in TgtNames |-> ZeroTime] ELSE NoNames
  /\ tCalls = 0 /\ tPc = "idle" /\ tRead = NoNames /\ tOut = {}
  /\ hGot = NoNames /\ hPub = NoNames /\ hRTC = NoNames

TgtTick ==
  /\ tNow < TgtMaxClock /\ tNow' = tNow + 1
  /\ UNCHANGED <<tKind, tRegex, tShared, tSources, tUp, tInst, tCli, rVar, rCache, ldRTC, pSent,
                 pCache, ldPub, tCalls, tPc, tRead, tOut, hGot, hPub, hRTC>>

\* An instance is deleted, or created again.
CloudReplaces(n) ==
  /\ tKind # "host_names"
  /\ tUp' = IF n \in tUp THEN tUp \ {n} ELSE tUp \union {n}
  /\ UNCHANGED <<tKind, tRegex, tShared, tSources, tNow, tInst, tCli, rVar, rCache, ldRTC, pSent,
                 pCache, ldPub, tCalls, tPc, tRead, tOut, hGot, hPub, hRTC>>

\* gceInstancesLister.expand and expandForZone, or expand of a Kubernetes lister:
\* each instance has the time of the call.
InstExpand ==
  /\ tKind # "host_names" /\ tInst' = [n \in tUp |-> tNow]
  /\ UNCHANGED <<tKind, tRegex, tShared, tSources, tNow, tUp, tCli, rVar, rCache, ldRTC, pSent,
                 pCache, ldPub, tCalls, tPc, tRead, tOut, hGot, hPub, hRTC>>

\* refreshState of the targets' client.  Kubernetes resources have no
\* last_updated.  A failed call changes nothing.
TgtRefresh ==
  /\ tKind # "host_names" /\ tCli' = updateState(tInst, tKind = "gce_instances")
  /\ UNCHANGED <<tKind, tRegex, tShared, tSources, tNow, tUp, tInst, rVar, rCache, ldRTC, pSent,
                 pCache, ldPub, tCalls, tPc, tRead, tOut, hGot, hPub, hRTC>>

\* Lameduck and Unlameduck of the lameduck service.
Lameduck(n) ==
  /\ "rtc" \in tSources /\ tCalls < MaxLameducks /\ tCalls' = tCalls + 1
  /\ rVar' = With(rVar, n, tNow)
  /\ UNCHANGED <<tKind, tRegex, tShared, tSources, tNow, tUp, tInst, tCli, rCache, ldRTC, pSent,
                 pCache, ldPub, tPc, tRead, tOut, hGot, hPub, hRTC>>

Unlameduck(n) ==
  /\ n \in DOMAIN rVar /\ rVar' = Only(rVar, TgtNames \ {n})
  /\ UNCHANGED <<tKind, tRegex, tShared, tSources, tNow, tUp, tInst, tCli, rCache, ldRTC, pSent,
                 pCache, ldPub, tCalls, tPc, tRead, tOut, hGot, hPub, hRTC>>

\* rtcVariablesLister.expand.
RTCExpand ==
  /\ "rtc" \in tSources /\ rCache' = rVar
  /\ UNCHANGED <<tKind, tRegex, tShared, tSources, tNow, tUp, tInst, tCli, rVar, ldRTC, pSent,
                 pCache, ldPub, tCalls, tPc, tRead, tOut, hGot, hPub, hRTC>>

\* FreshnessFilter.Match, for updated_within.
Fresh(cache) == Only(cache, {n \in DOMAIN cache : tNow - cache[n] < LdExpiration})

\* refreshState of the RTC client.  The RTC lister's resources have names only.
RTCRefresh ==
  /\ "rtc" \in tSources
  /\ ldRTC' = updateState(Fresh(rCache), FALSE) /\ hRTC' = Fresh(rCache)
  /\ UNCHANGED <<tKind, tRegex, tShared, tSources, tNow, tUp, tInst, tCli, rVar, rCache, pSent,
                 pCache, ldPub, tCalls, tPc, tRead, tOut, hGot, hPub>>

\* An operator publishes a message with the name of a target.
LdPublish(n) ==
  /\ "pubsub" \in tSources /\ tCalls < MaxLameducks /\ tCalls' = tCalls + 1
  /\ pSent' = pSent \union {<<n, tNow>>}
  /\ UNCHANGED <<tKind, tRegex, tShared, tSources, tNow, tUp, tInst, tCli, rVar, rCache, ldRTC,
                 pCache, ldPub, tPc, tRead, tOut, hGot, hPub, hRTC>>

\* The subscriber's callback, for messages in any order: the last one delivered
\* is kept.
LdReceive(m) ==
  /\ m \in pSent /\ pSent' = pSent \ {m}
  /\ pCache' = With(pCache, m[1], m[2]) /\ hGot' = With(hGot, m[1], m[2])
  /\ UNCHANGED <<tKind, tRegex, tShared, tSources, tNow, tUp, tInst, tCli, rVar, rCache, ldRTC,
                 ldPub, tCalls, tPc, tRead, tOut, hPub, hRTC>>

\* pubsubMsgsLister.cleanup, at a tick.
LdCleanup ==
  /\ pCache' = Only(pCache, {n \in DOMAIN pCache : tNow - pCache[n] <= MsgMaxAge})
  /\ UNCHANGED <<tKind, tRegex, tShared, tSources, tNow, tUp, tInst, tCli, rVar, rCache, ldRTC,
                 pSent, ldPub, tCalls, tPc, tRead, tOut, hGot, hPub, hRTC>>

\* refreshState of the pubsub client.
LdRefresh ==
  /\ "pubsub" \in tSources
  /\ ldPub' = updateState(Fresh(pCache), TRUE) /\ hPub' = Fresh(hGot)
  /\ UNCHANGED <<tKind, tRegex, tShared, tSources, tNow, tUp, tInst, tCli, rVar, rCache, ldRTC,
                 pSent, pCache, tCalls, tPc, tRead, tOut, hGot, hRTC>>

\* ListEndpoints of the lameduck lister: the lists of its clients in the order in
\* which initClients made them.
LameduckLists == <<ldRTC, ldPub>>

\* The last entry of a name wins.
lameduckMap ==
  [n \in DOMAIN LameduckLists[1] \union DOMAIN LameduckLists[2] |->
     LET i == IF n \in DOMAIN LameduckLists[2] THEN 2 ELSE 1 IN LameduckLists[i][n]]

\* Mutant of NewerThanLameduck: a target that was refreshed right after the
\* lameduck is valid again.
NewerThanLameduck_NoMinimum(t, ld) == t > ld

NewerThanLameduck(t, ld) == t > ld + MinLameduck

\* targets.includeInResult.
includeInResult(n, list, ldMap) ==
  /\ n \in tRegex
  /\ n \in DOMAIN ldMap =>
       ldMap[n] # ZeroTime /\ list[n] # ZeroTime /\ NewerThanLameduck(list[n], ldMap[n])

Include(list, ldMap) == Only(list, {n \in DOMAIN list : includeInResult(n, list, ldMap)})

\* targets.ListEndpoints, up to the list of its lister.  The lister of shared
\* targets has filtered it.
ListBegin ==
  /\ tPc = "idle" /\ tPc' = "listed"
  /\ tRead' = IF tShared THEN Include(tCli, lameduckMap) ELSE tCli
  /\ UNCHANGED <<tKind, tRegex, tShared, tSources, tNow, tUp, tInst, tCli, rVar, rCache, ldRTC,
                 pSent, pCache, ldPub, tCalls, tOut, hGot, hPub, hRTC>>

\* The rest of it: lameducks, and the filters.
ListEnd ==
  /\ tPc = "listed" /\ tPc' = "idle"
  /\ tOut' = DOMAIN Include(tRead, lameduckMap)
  /\ UNCHANGED <<tKind, tRegex, tShared, tSources, tNow, tUp, tInst, tCli, rVar, rCache, ldRTC,
                 pSent, pCache, ldPub, tCalls, tRead, hGot, hPub, hRTC>>

TgtNext ==
  \/ TgtTick \/ InstExpand \/ TgtRefresh \/ RTCExpand \/ RTCRefresh \/ LdCleanup \/ LdRefresh
  \/ ListBegin \/ ListEnd
  \/ \E n \in TgtNames : CloudReplaces(n) \/ Lameduck(n) \/ Unlameduck(n) \/ LdPublish(n)
  \/ \E m \in pSent : LdReceive(m)

TgtSpec == TgtInit /\ [][TgtNext]_tgtVars

-----------------------------------------------------------------------------
(* Properties *)

\* A target that was lameducked by a message is out of the list, from the client's
\* refresh after the message until the message expires or the target has been
\* seen MinLameduck later: one that was seen between its lameduck and its deletion
\* stays out.  An RTC variable of the same name, and the time that listing and
\* caches take, change nothing of it.  Targets whose lister has no times are out
\* for as long as there is any lameduck.
LameduckHolds ==
  [][ListEnd => \A n \in tOut' :
       /\ n \in DOMAIN hPub => tRead[n] > hPub[n] + MinLameduck
       /\ tKind # "gce_instances" => n \notin DOMAIN hPub \union DOMAIN hRTC]_tgtVars

\* lameduck.go: "If a target is set to be in lameduck by the operator, it is taken
\* out of the targets list", and targets.go: "If lameduck endpoint or target
\* endpoint don't have last-updated set, skip checking which one is newer".  For
\* RTC variables, which reach targets without last-updated.
VariableTakesOut ==
  [][ListEnd => \A n \in tOut' :
       n \in DOMAIN hRTC => tRead[n] > hRTC[n] + MinLameduck]_tgtVars
=============================================================================
