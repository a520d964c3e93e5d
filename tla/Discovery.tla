----------------------------- MODULE Discovery -----------------------------
(***************************************************************************)
(* File-based discovery of targets: the listers that reload files          *)
(* (rds/file), the provider that answers ListResources from them, and the  *)
(* RDS client that keeps a cache of the answer (rds/client).  Resources    *)
(* are abstracted to the version of the file they were parsed from.        *)
(*                                                                         *)
(* Listers and clients refresh periodically (re_eval_sec > 0).  A client   *)
(* with re_eval_sec <= 0 refreshes in every call of ListEndpoints instead, *)
(* and several probes may make that call at the same time.                 *)
(***************************************************************************)
EXTENDS Integers, FiniteSets

CONSTANTS
  Files,          \* the file paths of the provider
  All,            \* the empty resource path: the resources of all files
  Callers,        \* goroutines that call refreshState
  CheckModTime,   \* ~disable_modified_time_check
  TicksPerSec,    \* steps of the clock in one second of Unix time
  MaxEdits,       \* bound on the versions of a file
  MaxTime         \* bound on the clock

ASSUME DiscoveryAssumption ==
  /\ All \notin Files
  /\ Files # {}
  /\ CheckModTime \in BOOLEAN
  /\ TicksPerSec \in Nat \ {0}
  /\ MaxEdits \in Nat \ {0}
  /\ MaxTime \in Nat

VARIABLES
  \* The world.
  now,            \* the clock
  version,        \* version[f]: the content of file f
  state,          \* state[f]: "ok", "garbage" (cannot be parsed) or "missing"
  modTime,        \* modTime[f]: when f was last modified
  \* lister.
  lpc,            \* lpc[f]: where refresh of the lister of f is
  read,           \* read[f]: the version refresh has read
  resources,      \* resources[f]: ls.resources, 0 before the first load
  lastUpdated,    \* lastUpdated[f]: ls.lastUpdated, 0 for the zero time
  \* Client.
  path,           \* resource_path of the client's request
  onDemand,       \* re_eval_sec <= 0
  ims,            \* IfModifiedSince of the request message, which calls share
  call,           \* call[c]: the refreshState of goroutine c
  cache,          \* cache[f]: the version of f's resources in client.cache, 0 if none
  lastModified    \* client.lastModified

world  == <<version, state, modTime>>
lister == <<lpc, read, resources, lastUpdated>>
client == <<cache, lastModified>>
config == <<path, onDemand>>
vars   == <<now, world, lister, config, ims, call, client>>

Versions == 0 .. MaxEdits
NoFiles  == [f \in Files |-> 0]

(* time.Unix: seconds; the zero time is far in the past. *)
Unix(t) == IF t = 0 THEN -1 ELSE t \div TicksPerSec

(* The listers a request is about. *)
Listers == IF path = All THEN Files ELSE {path}
Single  == \E f \in Files : Listers = {f}

-----------------------------------------------------------------------------
(* The world: files are rewritten at any time, possibly with garbage, or   *)
(* removed.  A change after a load has a later time than the load.         *)

Edit(f) ==
  /\ version[f] < MaxEdits
  /\ lastUpdated[f] < now
  /\ version' = [version EXCEPT ![f] = @ + 1]
  /\ \E s \in {"ok", "garbage", "missing"} : state' = [state EXCEPT ![f] = s]
  /\ modTime' = [modTime EXCEPT ![f] = now]
  /\ UNCHANGED <<now, lister, config, ims, call, client>>

ClockTick ==
  /\ now < MaxTime
  /\ now' = now + 1
  /\ UNCHANGED <<world, lister, config, ims, call, client>>

-----------------------------------------------------------------------------
(* lister.refresh, called by the loop of newLister.                        *)

(* Mutant: modification times compared in seconds. *)
shouldReloadFile_Seconds(f) ==
  \/ ~CheckModTime
  \/ state[f] = "missing"
  \/ Unix(modTime[f]) > Unix(lastUpdated[f])

(* Without a modified time the file is reloaded. *)
shouldReloadFile(f) ==
  \/ ~CheckModTime
  \/ state[f] = "missing"
  \/ modTime[f] > lastUpdated[f]

RefreshStart(f) ==
  /\ lpc[f] = "idle"
  /\ shouldReloadFile(f)
  /\ lpc' = [lpc EXCEPT ![f] = "read"]
  /\ UNCHANGED <<now, world, read, resources, lastUpdated, config, ims, call, client>>

(* ReadFile and parseFileContent; an error ends the refresh. *)
ReadFile(f) ==
  /\ lpc[f] = "read"
  /\ \/ /\ state[f] = "ok"
        /\ read' = [read EXCEPT ![f] = version[f]]
        /\ lpc' = [lpc EXCEPT ![f] = "store"]
     \/ /\ state[f] # "ok"
        /\ lpc' = [lpc EXCEPT ![f] = "idle"]
        /\ UNCHANGED read
  /\ UNCHANGED <<now, world, resources, lastUpdated, config, ims, call, client>>

Store(f) ==
  /\ lpc[f] = "store"
  /\ lastUpdated' = [lastUpdated EXCEPT ![f] = now]
  /\ resources' = [resources EXCEPT ![f] = read[f]]
  /\ lpc' = [lpc EXCEPT ![f] = "idle"]
  /\ UNCHANGED <<now, world, read, config, ims, call, client>>

-----------------------------------------------------------------------------
(* refreshState of goroutine c, with ListResources of the provider.  A     *)
(* provider with several listers takes the latest of their modification    *)
(* times, each read under its lister's lock, and then lists them one by    *)
(* one; a lister asked alone gives resources and time under one lock.      *)

Idle(c)  == call[c].pc = "idle"
NoCall   == [pc |-> "idle", since |-> 0, stamp |-> 0, todo |-> {}, got |-> NoFiles]

NewCall  == [NoCall EXCEPT !.pc = "stat", !.since = lastModified,
                           !.stamp = IF Single THEN -1 ELSE 0, !.todo = Listers]

(* Calls overlap only if they are made on demand. *)
Request(c) ==
  /\ Idle(c)
  /\ onDemand \/ \A d \in Callers : Idle(d)
  /\ ims' = lastModified
  /\ call' = [call EXCEPT ![c] = NewCall]
  /\ UNCHANGED <<now, world, lister, config, client>>

(* The call of c with the time of f taken into account. *)
Stamped(c, f) ==
  LET t == Unix(lastUpdated[f]) IN
  [call[c] EXCEPT !.todo = @ \ {f},
                  !.stamp = IF @ < t THEN t ELSE @]

LastModified(c, f) ==
  /\ call[c].pc = "stat"
  /\ f \in call[c].todo
  /\ call' = [call EXCEPT ![c] = Stamped(c, f)]
  /\ UNCHANGED <<now, world, lister, config, ims, client>>

(* A remote provider sees the time sent with the request; a local one is   *)
(* handed the client's request message, which another call may have        *)
(* updated since.                                                          *)
CacheCheck(c) ==
  /\ call[c].pc = "stat"
  /\ call[c].todo = {}
  /\ \E since \in {call[c].since, ims} :
       call' = [call EXCEPT ![c] =
                  IF since # 0 /\ @.stamp <= since
                  THEN [@ EXCEPT !.pc = "reply"]
                  ELSE [@ EXCEPT !.pc = "list", !.todo = Listers]]
  /\ UNCHANGED <<now, world, lister, config, ims, client>>

(* The call of c with the resources of f.  A lister asked alone gives the  *)
(* time of its resources with them.                                        *)
Listing(c, f) ==
  [call[c] EXCEPT !.got = [@ EXCEPT ![f] = resources[f]],
                  !.stamp = IF Single THEN Unix(lastUpdated[f]) ELSE @,
                  !.todo = @ \ {f},
                  !.pc = IF call[c].todo = {f} THEN "reply" ELSE "list"]

ListResources(c, f) ==
  /\ call[c].pc = "list"
  /\ f \in call[c].todo
  /\ call' = [call EXCEPT ![c] = Listing(c, f)]
  /\ UNCHANGED <<now, world, lister, config, ims, client>>

(* Mutant: an answer as old as the cache is applied. *)
updateState_SameTime(c) ==
  /\ call[c].pc = "reply"
  /\ call' = [call EXCEPT ![c] = NoCall]
  /\ LET stamp == call[c].stamp IN
     IF stamp # 0 /\ stamp < lastModified
     THEN UNCHANGED client
     ELSE /\ cache' = call[c].got
          /\ lastModified' = stamp
  /\ UNCHANGED <<now, world, lister, config, ims>>

(* Mutant: an answer of the second after the cache's is ignored. *)
updateState_Later(c) ==
  /\ call[c].pc = "reply"
  /\ call' = [call EXCEPT ![c] = NoCall]
  /\ LET stamp == call[c].stamp IN
     IF stamp # 0 /\ stamp <= lastModified + 1
     THEN UNCHANGED client
     ELSE /\ cache' = call[c].got
          /\ lastModified' = stamp
  /\ UNCHANGED <<now, world, lister, config, ims>>

(* The caller is done in any case; a response that is not newer than the   *)
(* cache is ignored.                                                       *)
updateState(c) ==
  /\ call[c].pc = "reply"
  /\ call' = [call EXCEPT ![c] = NoCall]
  /\ LET stamp == call[c].stamp IN
     IF stamp # 0 /\ stamp <= lastModified
     THEN UNCHANGED client
     ELSE /\ cache' = call[c].got
          /\ lastModified' = stamp
  /\ UNCHANGED <<now, world, lister, config, ims>>

(* ListResources returns an error or times out.  The provider keeps        *)
(* nothing of a call, so an answer lost on its way is a call that failed.  *)
CallFails(c) ==
  /\ call[c].pc \in {"stat", "list"}
  /\ call' = [call EXCEPT ![c] = NoCall]
  /\ UNCHANGED <<now, world, lister, config, ims, client>>

-----------------------------------------------------------------------------
Init ==
  /\ now = TicksPerSec
  /\ version = [f \in Files |-> 1]
  /\ state \in [Files -> {"ok", "missing"}]
  /\ modTime = [f \in Files |-> now]
  /\ lpc = [f \in Files |-> "idle"]
  /\ read = NoFiles
  /\ resources = NoFiles
  /\ lastUpdated = NoFiles
  /\ path \in Files \cup {All}
  /\ onDemand \in BOOLEAN
  /\ ims = 0
  /\ call = [c \in Callers |-> NoCall]
  /\ cache = NoFiles
  /\ lastModified = 0

Refresh(f) == RefreshStart(f) \/ ReadFile(f) \/ Store(f)

Answer(c) ==
  \/ CacheCheck(c)
  \/ updateState(c)
  \/ \E f \in Files : LastModified(c, f) \/ ListResources(c, f)

Next ==
  \/ ClockTick
  \/ \E f \in Files : Edit(f) \/ Refresh(f)
  \/ \E c \in Callers : Request(c) \/ Answer(c) \/ CallFails(c)

Spec == Init /\ [][Next]_vars

(* The loops of listers and clients go on, and from some time on the       *)
(* provider can be reached.                                                *)
FairSpec ==
  /\ Spec
  /\ \A f \in Files : WF_vars(Refresh(f))
  /\ \A c \in Callers : WF_vars(Request(c)) /\ WF_vars(Answer(c))
  /\ <>[][\A c \in Callers : ~CallFails(c)]_vars

-----------------------------------------------------------------------------
Calls == [pc : {"idle", "stat", "list", "reply"}, since : Nat, stamp : Nat \cup {-1},
          todo : SUBSET Files, got : [Files -> Versions]]

(* Type invariant.  The client's last-modified time is never the negative  *)
(* one of a lister that has loaded nothing.                                *)
TypeOK ==
  /\ now \in Nat \ {0}
  /\ version \in [Files -> Versions]
  /\ state \in [Files -> {"ok", "garbage", "missing"}]
  /\ modTime \in [Files -> Nat]
  /\ lpc \in [Files -> {"idle", "read", "store"}]
  /\ read \in [Files -> Versions]
  /\ resources \in [Files -> Versions]
  /\ lastUpdated \in [Files -> Nat]
  /\ path \in Files \cup {All}
  /\ onDemand \in BOOLEAN
  /\ ims \in Nat
  /\ call \in [Callers -> Calls]
  /\ cache \in [Files -> Versions]
  /\ lastModified \in Nat

(* Calls do not overlap, or there is one lister and so an answer is read   *)
(* under one lock.                                                         *)
Serial == ~onDemand \/ Single

(* The client's view of a file never goes back to an older version, nor to *)
(* none: neither an answer without resources nor an answer overtaken by a  *)
(* newer one is put in the cache (client.go updateState).  Not so for      *)
(* several listers asked on demand by several goroutines.                  *)
CacheGoesForward ==
  [][Serial => \A f \in Files : cache'[f] >= cache[f]]_vars

(* The client has everything that was loaded before the second of its      *)
(* last-modified time: what the provider leaves out as not modified can    *)
(* only have been loaded in that second or later (file.go ListResources,   *)
(* which reads the times first and the resources after them).              *)
MissesOnlyRecent ==
  Serial => \A f \in Listers :
              Unix(lastUpdated[f]) < lastModified => cache[f] = resources[f]

(* What a lister loads in a later second than any time the client has, or  *)
(* is about to get, reaches the cache.                                     *)
StoredIsFetched ==
  \A f \in Files, v \in 1 .. MaxEdits :
    (/\ Serial
     /\ f \in Listers
     /\ resources[f] = v
     /\ Unix(lastUpdated[f]) > lastModified
     /\ \A c \in Callers : Unix(lastUpdated[f]) > call[c].stamp)
    ~> (cache[f] >= v)

(* A change of a file made after its last load and outside a refresh is    *)
(* loaded, unless the file is broken again first (lister.refresh).         *)
EditIsLoaded ==
  \A f \in Files, v \in 1 .. MaxEdits :
    (lpc[f] = "idle" /\ version[f] = v /\ state[f] = "ok" /\ modTime[f] > lastUpdated[f])
    ~> (resources[f] >= v \/ state[f] # "ok")

(* Every change of a file is loaded: "whenever that happens cloudprober    *)
(* will reload it automatically".  The code misses a change made between   *)
(* the read of the file and the time it takes for lastUpdated.             *)
EditIsReloaded ==
  \A f \in Files, v \in 1 .. MaxEdits :
    (version[f] = v /\ state[f] = "ok") ~> (resources[f] >= v \/ state[f] # "ok")
=============================================================================
