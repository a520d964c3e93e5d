------------------------------ MODULE Resolver ------------------------------
(***************************************************************************)
(* The caching resolver, for one name, called by several goroutines.  The  *)
(* first call resolves the name inside a sync.Once, which blocks the other *)
(* calls; later ones start a refresh in the background when the record is  *)
(* old and none is in progress.  The backend is asked without the lock, by *)
(* a goroutine that is not waited for longer than a timeout.  An answer is *)
(* the version of the name's addresses that the backend read at some time  *)
(* of the lookup; it may be of IPv4 only, IPv6 only or both.               *)
(***************************************************************************)
EXTENDS Naturals, FiniteSets

CONSTANTS
  Callers,      \* goroutines that call Resolve
  MaxVersions,  \* bound: versions of the name's addresses
  MaxLookups    \* bound: lookups

VARIABLES
  rVersion,   \* version of the addresses at the backend
  rCaller,    \* caller -> "idle", "once", "refresh", "check" or "read"
  rOnce,      \* callInit: "new", "running" or "done"
  rRecord,    \* cacheRecord: ip4, ip6 (versions, 0 for nil), err, updateInProgress
  rOld,       \* is lastUpdatedAt at least maxAge ago?
  rLookups,   \* lookups begun
  rRefresh,   \* refreshes that wait: [by, from, answered, ok, families, version]
  rGot        \* caller -> version returned last, 0 for an error

resVars == <<rVersion, rCaller, rOnce, rRecord, rOld, rLookups, rRefresh, rGot>>

Background == "background"

ASSUME CallersAssumption == Background \notin Callers

Families == {{4}, {6}, {4, 6}}

ResInit ==
  /\ rVersion = 1
  /\ rCaller = [c \in Callers |-> "idle"]
  /\ rOnce = "new"
  /\ rRecord = [ip4 |-> 0, ip6 |-> 0, err |-> TRUE, updateInProgress |-> FALSE]
  /\ rOld = TRUE
  /\ rLookups = 0
  /\ rRefresh = {}
  /\ rGot = [c \in Callers |-> 0]

\* The name's addresses change.
NewVersion ==
  /\ rVersion < MaxVersions /\ rVersion' = rVersion + 1
  /\ UNCHANGED <<rCaller, rOnce, rRecord, rOld, rLookups, rRefresh, rGot>>

\* Time passes: the record is old now.
Age ==
  /\ ~rOld /\ rOnce = "done" /\ rOld' = TRUE
  /\ UNCHANGED <<rVersion, rCaller, rOnce, rRecord, rLookups, rRefresh, rGot>>

\* refresh, up to the start of resolveOrTimeout's goroutine.
StartRefresh(by) ==
  /\ rLookups < MaxLookups /\ rLookups' = rLookups + 1
  /\ rRefresh' = rRefresh \union {[by |-> by, from |-> rVersion, answered |-> FALSE,
                                   ok |-> FALSE, families |-> {}, version |-> 0]}

\* Resolve up to callInit.Do, which the first caller gets into.
ResolveCall(c) ==
  /\ rCaller[c] = "idle"
  /\ \/ /\ rOnce = "new" /\ rOnce' = "running"
        /\ StartRefresh(c)
        /\ rCaller' = [rCaller EXCEPT ![c] = "refresh"]
     \/ /\ rOnce # "new"
        /\ rCaller' = [rCaller EXCEPT ![c] = IF rOnce = "done" THEN "check" ELSE "once"]
        /\ UNCHANGED <<rOnce, rLookups, rRefresh>>
  /\ UNCHANGED <<rVersion, rRecord, rOld, rGot>>

\* Do returns to those that waited for the first call.
OnceDone(c) ==
  /\ rCaller[c] = "once" /\ rOnce = "done"
  /\ rCaller' = [rCaller EXCEPT ![c] = "check"]
  /\ UNCHANGED <<rVersion, rOnce, rRecord, rOld, rLookups, rRefresh, rGot>>

\* The backend answers a lookup, or fails.  The answer to a lookup that was
\* given up is read by nobody.
Answer(r) ==
  /\ ~r.answered
  /\ \/ rRefresh' = (rRefresh \ {r}) \union {[r EXCEPT !.answered = TRUE]}
     \/ \E v \in r.from .. rVersion, f \in Families :
          rRefresh' = (rRefresh \ {r}) \union
                        {[r EXCEPT !.answered = TRUE, !.ok = TRUE, !.families = f, !.version = v]}
  /\ UNCHANGED <<rVersion, rCaller, rOnce, rRecord, rOld, rLookups, rGot>>

\* The rest of refresh, under the lock, with an answer or after the timeout.  An
\* error leaves the addresses as they were.
EndRefresh(r) ==
  LET V(family) == IF family \in r.families THEN r.version ELSE 0
  IN /\ \/ /\ r.ok
           /\ rRecord' = [ip4 |-> V(4), ip6 |-> V(6), err |-> FALSE, updateInProgress |-> FALSE]
        \/ rRecord' = [rRecord EXCEPT !.err = TRUE, !.updateInProgress = FALSE]
     /\ rOld' = FALSE
     /\ rRefresh' = rRefresh \ {r}
     /\ IF r.by \in Callers
        THEN rOnce' = "done" /\ rCaller' = [rCaller EXCEPT ![r.by] = "check"]
        ELSE UNCHANGED <<rOnce, rCaller>>
     /\ UNCHANGED <<rVersion, rLookups, rGot>>

\* Mutant of RefreshIfRequired: an update in progress is not noted.
RefreshIfRequired_NotNoted(c) ==
  IF ~rRecord.updateInProgress /\ rOld
  THEN StartRefresh(Background) /\ UNCHANGED rRecord
  ELSE UNCHANGED <<rRecord, rLookups, rRefresh>>

\* refreshIfRequired, its locked section.
RefreshIfRequired(c) ==
  IF ~rRecord.updateInProgress /\ rOld
  THEN /\ rRecord' = [rRecord EXCEPT !.updateInProgress = TRUE]
       /\ StartRefresh(Background)
  ELSE UNCHANGED <<rRecord, rLookups, rRefresh>>

ResolveCheck(c) ==
  /\ rCaller[c] = "check"
  /\ RefreshIfRequired(c)
  /\ rCaller' = [rCaller EXCEPT ![c] = "read"]
  /\ UNCHANGED <<rVersion, rOnce, rOld, rGot>>

\* resolveWithMaxAge reads the record, for an IP version.
ResolveRead(c, ipVer) ==
  LET ip == CASE ipVer = 0 -> IF rRecord.ip4 # 0 THEN rRecord.ip4 ELSE rRecord.ip6
              [] ipVer = 4 -> rRecord.ip4
              [] ipVer = 6 -> rRecord.ip6
  IN /\ rCaller[c] = "read"
     /\ rCaller' = [rCaller EXCEPT ![c] = "idle"]
     /\ rGot' = [rGot EXCEPT ![c] = IF rRecord.err THEN 0 ELSE ip]
     /\ UNCHANGED <<rVersion, rOnce, rRecord, rOld, rLookups, rRefresh>>

ResNext ==
  \/ NewVersion \/ Age
  \/ \E c \in Callers :
       \/ ResolveCall(c) \/ OnceDone(c) \/ ResolveCheck(c)
       \/ \E ipVer \in {0, 4, 6} : ResolveRead(c, ipVer)
  \/ \E r \in rRefresh : Answer(r) \/ EndRefresh(r)

ResSpec == ResInit /\ [][ResNext]_resVars

-----------------------------------------------------------------------------
(* Properties *)

Latest(record) == IF record.ip4 > record.ip6 THEN record.ip4 ELSE record.ip6

\* The addresses in the record never go back to an older version, and neither
\* do those that a caller is given: one refresh at a time, the first call's and
\* the background ones together, stores answers in the order of the lookups.
ResolverForward ==
  [][/\ Latest(rRecord') >= Latest(rRecord)
     /\ Cardinality(rRefresh') <= 1
     /\ \A c \in Callers : rGot'[c] # 0 /\ rGot[c] # 0 => rGot'[c] >= rGot[c]]_resVars
=============================================================================
