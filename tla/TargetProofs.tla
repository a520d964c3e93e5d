---------------------------- MODULE TargetProofs ----------------------------
(***************************************************************************)
(* Theorems about where targets come from: the caches of the resolver and  *)
(* of the listers, the servers that cloud targets share, and the lameducks *)
(* that take targets out of the list, for every value of their constants.  *)
(***************************************************************************)
EXTENDS Resolver, Listers, CloudTargets, Targets, TLAPS, FiniteSetTheorems, SequenceTheorems

-----------------------------------------------------------------------------
(* Resolver *)

Lookups ==
  [by : Callers \union {Background}, from : Nat, answered : BOOLEAN, ok : BOOLEAN,
   families : SUBSET {4, 6}, version : Nat]

ResTypes ==
  /\ rVersion \in Nat /\ rOnce \in {"new", "running", "done"} /\ rOld \in BOOLEAN
  /\ rCaller \in [Callers -> {"idle", "once", "refresh", "check", "read"}]
  /\ rRecord \in [ip4 : Nat, ip6 : Nat, err : BOOLEAN, updateInProgress : BOOLEAN]
  /\ rRefresh \subseteq Lookups
  /\ rGot \in [Callers -> Nat]

\* There is one refresh at a time: that of the first call, inside the sync.Once,
\* and after it one that is marked in the record.
OneRefresh ==
  /\ \A r, q \in rRefresh : r = q
  /\ rOnce = "new" => rRefresh = {} /\ \A c \in Callers : rCaller[c] = "idle"
  /\ rOnce = "running" =>
       /\ \A r \in rRefresh : r.by \in Callers
       /\ \A c \in Callers : rCaller[c] \notin {"check", "read"}
  /\ rOnce = "done" =>
       /\ \A r \in rRefresh : r.by = Background
       /\ rRefresh # {} => rRecord.updateInProgress

\* So the record is no newer than what the lookup began with, and nobody was given
\* more than the record has.
InOrder ==
  /\ Latest(rRecord) <= rVersion
  /\ rRecord.ip4 \in {0, Latest(rRecord)} /\ rRecord.ip6 \in {0, Latest(rRecord)}
  /\ \A c \in Callers : rGot[c] <= Latest(rRecord)
  /\ \A r \in rRefresh :
       /\ Latest(rRecord) <= r.from /\ r.from <= rVersion
       /\ r.ok => r.families \in Families /\ r.from <= r.version /\ r.version <= rVersion

ResInv == ResTypes /\ OneRefresh /\ InOrder

\* What one step may do to the record and to what callers were given.
Forward ==
  /\ Latest(rRecord') >= Latest(rRecord)
  /\ \A c \in Callers : rGot'[c] # 0 /\ rGot[c] # 0 => rGot'[c] >= rGot[c]

\* The record's latest version is a number and no older than the versions it has.
LEMMA LatestType ==
  ASSUME ResTypes
  PROVE  /\ Latest(rRecord) \in Nat
         /\ rRecord.ip4 \in Nat /\ rRecord.ip6 \in Nat
         /\ rRecord.ip4 <= Latest(rRecord) /\ rRecord.ip6 <= Latest(rRecord)
BY DEF ResTypes, Latest

\* ResInv holds initially.
LEMMA ResInitInv == ResInit => ResInv
BY DEF ResInit, ResInv, ResTypes, OneRefresh, InOrder, Latest

\* Steps that leave the record's addresses and the lookups alone.
LEMMA CallersStep ==
  ASSUME ResInv, NEW c \in Callers, NEW ipVer \in {0, 4, 6},
         OnceDone(c) \/ ResolveRead(c, ipVer)
  PROVE  ResInv' /\ Forward
<1> USE DEF ResInv
<1>1. CASE OnceDone(c)
  BY <1>1 DEF OnceDone, ResTypes, OneRefresh, InOrder, Latest, Forward
<1>2. CASE ResolveRead(c, ipVer)
  <2>1. PICK ip \in Nat :
          /\ rGot' = [rGot EXCEPT ![c] = ip]
          /\ ip \in {0, Latest(rRecord)}
    <3> DEFINE ip == CASE ipVer = 0 -> IF rRecord.ip4 # 0 THEN rRecord.ip4 ELSE rRecord.ip6
                       [] ipVer = 4 -> rRecord.ip4
                       [] ipVer = 6 -> rRecord.ip6
               got == IF rRecord.err THEN 0 ELSE ip
    <3>1. ip \in {0, Latest(rRecord)}
      BY Zenon DEF InOrder
    <3>2. got \in Nat /\ got \in {0, Latest(rRecord)}
      BY <3>1, LatestType, Zenon
    <3>3. rGot' = [rGot EXCEPT ![c] = got]
      BY <1>2, Zenon DEF ResolveRead
    <3> HIDE DEF got
    <3> QED
      BY <3>2, <3>3, Zenon
  <2>2. /\ rCaller[c] = "read" /\ rCaller' = [rCaller EXCEPT ![c] = "idle"]
        /\ UNCHANGED <<rVersion, rOnce, rRecord, rOld, rLookups, rRefresh>>
    BY <1>2, Zenon DEF ResolveRead
  <2>3. ResTypes'
    BY <2>1, <2>2, Zenon DEF ResTypes
  <2>4. OneRefresh'
    BY <2>2, Zenon DEF OneRefresh, ResTypes
  <2>5. InOrder' /\ Forward
    BY <2>1, <2>2, LatestType DEF InOrder, Forward, ResTypes, Latest
  <2> QED
    BY <2>3, <2>4, <2>5, Zenon
<1> QED
  BY <1>1, <1>2, Zenon

\* A refresh begins where there is none.
LEMMA StartRefreshStep ==
  ASSUME ResInv, rRefresh = {}, NEW by \in Callers \union {Background}, StartRefresh(by)
  PROVE  \E r \in Lookups :
           /\ rRefresh' = {r}
           /\ r.by = by /\ r.from = rVersion /\ ~r.ok
<1> DEFINE r == [by |-> by, from |-> rVersion, answered |-> FALSE,
                 ok |-> FALSE, families |-> {}, version |-> 0]
<1>1. r \in Lookups
  BY Zenon DEF Lookups, ResInv, ResTypes
<1>2. rRefresh' = {r}
  BY Zenon DEF StartRefresh
<1> QED
  BY <1>1, <1>2, Zenon

\* A call of Resolve keeps ResInv and goes forward.
LEMMA ResolveCallStep ==
  ASSUME ResInv, NEW c \in Callers, ResolveCall(c)
  PROVE  ResInv' /\ Forward
<1> USE DEF ResInv
<1>1. CASE rOnce = "new"
  <2>1. /\ rRefresh = {} /\ rOnce' = "running" /\ StartRefresh(c)
        /\ rCaller' = [rCaller EXCEPT ![c] = "refresh"]
        /\ UNCHANGED <<rVersion, rRecord, rOld, rGot>>
    BY <1>1, Zenon DEF ResolveCall, OneRefresh
  <2>2. PICK r \in Lookups : rRefresh' = {r} /\ r.by = c /\ r.from = rVersion /\ ~r.ok
    BY <2>1, StartRefreshStep, Zenon
  <2>3. ResTypes'
    BY <2>1, <2>2, Zenon DEF ResTypes
  <2>4. OneRefresh'
    BY <1>1, <2>1, <2>2, Zenon DEF OneRefresh, ResTypes
  <2>5. InOrder' /\ Forward
    BY <2>1, <2>2 DEF InOrder, Forward, Latest, ResTypes
  <2> QED
    BY <2>3, <2>4, <2>5, Zenon
<1>2. CASE rOnce # "new"
  <2>1. /\ rCaller' = [rCaller EXCEPT ![c] = IF rOnce = "done" THEN "check" ELSE "once"]
        /\ UNCHANGED <<rOnce, rRefresh, rVersion, rRecord, rOld, rGot>>
    BY <1>2, Zenon DEF ResolveCall
  <2> QED
    BY <1>2, <2>1 DEF ResTypes, OneRefresh, InOrder, Forward, Latest
<1> QED
  BY <1>1, <1>2, Zenon

\* The check of the record and the start of a refresh keep ResInv and go forward.
LEMMA ResolveCheckStep ==
  ASSUME ResInv, NEW c \in Callers, ResolveCheck(c)
  PROVE  ResInv' /\ Forward
<1> USE DEF ResInv
<1>1. /\ rCaller' = [rCaller EXCEPT ![c] = "read"] /\ rOnce = "done"
      /\ UNCHANGED <<rVersion, rOnce, rOld, rGot>>
  BY Zenon DEF ResolveCheck, OneRefresh, ResTypes
<1>2. CASE ~rRecord.updateInProgress /\ rOld
  <2>1. /\ rRefresh = {} /\ StartRefresh(Background)
        /\ rRecord' = [rRecord EXCEPT !.updateInProgress = TRUE]
    BY <1>1, <1>2, Zenon DEF ResolveCheck, RefreshIfRequired, OneRefresh
  <2>2. PICK r \in Lookups : rRefresh' = {r} /\ r.by = Background /\ r.from = rVersion /\ ~r.ok
    BY <2>1, StartRefreshStep, Zenon
  <2>3. ResTypes'
    BY <1>1, <2>1, <2>2, Zenon DEF ResTypes
  <2>4. OneRefresh'
    BY <1>1, <2>1, <2>2, Zenon DEF OneRefresh, ResTypes
  <2>5. InOrder' /\ Forward
    BY <1>1, <2>1, <2>2 DEF InOrder, Forward, Latest, ResTypes
  <2> QED
    BY <2>3, <2>4, <2>5, Zenon
<1>3. CASE ~(~rRecord.updateInProgress /\ rOld)
  <2>1. UNCHANGED <<rRecord, rRefresh>>
    BY <1>3, Zenon DEF ResolveCheck, RefreshIfRequired
  <2> QED
    BY <1>1, <2>1 DEF ResTypes, OneRefresh, InOrder, Forward, Latest
<1> QED
  BY <1>2, <1>3, Zenon

\* An answer is of a version that the backend had during the lookup.
LEMMA AnswerStep ==
  ASSUME ResInv, NEW r \in rRefresh, Answer(r)
  PROVE  ResInv' /\ Forward
<1> USE DEF ResInv
<1>1. rRefresh = {r} /\ r \in Lookups
  BY DEF OneRefresh, ResTypes
<1>2. PICK q \in Lookups :
        /\ rRefresh' = {q} /\ q.by = r.by /\ q.from = r.from
        /\ q.ok => \/ q.families \in Families /\ r.from <= q.version /\ q.version <= rVersion
                   \/ r.ok /\ q.families = r.families /\ q.version = r.version
  <2>1. CASE rRefresh' = (rRefresh \ {r}) \union {[r EXCEPT !.answered = TRUE]}
    <3> DEFINE q == [r EXCEPT !.answered = TRUE]
    <3>1. q \in Lookups /\ q.by = r.by /\ q.from = r.from /\ q.ok = r.ok
          /\ q.families = r.families /\ q.version = r.version
      BY <1>1, Zenon DEF Lookups
    <3>2. rRefresh' = {q}
      BY <1>1, <2>1, Zenon
    <3> HIDE DEF q
    <3> QED
      BY <3>1, <3>2, Zenon
  <2>2. ASSUME NEW v \in r.from .. rVersion, NEW f \in Families,
               rRefresh' = (rRefresh \ {r}) \union
                 {[r EXCEPT !.answered = TRUE, !.ok = TRUE, !.families = f, !.version = v]}
        PROVE  \E q \in Lookups :
                 /\ rRefresh' = {q} /\ q.by = r.by /\ q.from = r.from
                 /\ q.families \in Families /\ r.from <= q.version /\ q.version <= rVersion
    <3> DEFINE q == [r EXCEPT !.answered = TRUE, !.ok = TRUE, !.families = f, !.version = v]
    <3>1. v \in Nat /\ r.from <= v /\ v <= rVersion /\ f \in SUBSET {4, 6}
      BY <1>1 DEF Lookups, ResTypes, Families
    <3>2. q \in Lookups /\ q.by = r.by /\ q.from = r.from /\ q.families = f /\ q.version = v
      BY <1>1, <3>1, Zenon DEF Lookups
    <3>3. rRefresh' = {q}
      BY <1>1, <2>2, Zenon
    <3> HIDE DEF q
    <3> QED
      BY <3>1, <3>2, <3>3, Zenon
  <2> QED
    BY <2>1, <2>2, Zenon DEF Answer
<1>3. UNCHANGED <<rVersion, rCaller, rOnce, rRecord, rOld, rGot>>
  BY Zenon DEF Answer
<1>4. ResTypes'
  BY <1>2, <1>3, Zenon DEF ResTypes
<1>5. OneRefresh'
  BY <1>1, <1>2, <1>3, Zenon DEF OneRefresh
<1>6. InOrder' /\ Forward
  BY <1>1, <1>2, <1>3 DEF InOrder, Forward, Latest, ResTypes
<1> QED
  BY <1>4, <1>5, <1>6, Zenon

\* The answer, which is no older than the record, is stored, and no refresh is left.
LEMMA EndRefreshStep ==
  ASSUME ResInv, NEW r \in rRefresh, EndRefresh(r)
  PROVE  ResInv' /\ Forward
<1> USE DEF ResInv
<1>1. rRefresh = {r} /\ rRefresh' = {} /\ r \in Lookups
  BY DEF OneRefresh, ResTypes, EndRefresh
<1>2. UNCHANGED <<rVersion, rGot>> /\ rOld' = FALSE
  BY Zenon DEF EndRefresh
<1>3. /\ rOnce' = "done"
      /\ rCaller' \in [Callers -> {"idle", "once", "refresh", "check", "read"}]
  BY <1>1, CallersAssumption DEF EndRefresh, OneRefresh, ResTypes, Lookups
<1>4. /\ rRecord' \in [ip4 : Nat, ip6 : Nat, err : BOOLEAN, updateInProgress : BOOLEAN]
      /\ Latest(rRecord) <= Latest(rRecord') /\ Latest(rRecord') <= rVersion
      /\ rRecord'.ip4 \in {0, Latest(rRecord')} /\ rRecord'.ip6 \in {0, Latest(rRecord')}
  <2>1. CASE /\ r.ok
             /\ rRecord' = [ip4 |-> IF 4 \in r.families THEN r.version ELSE 0,
                            ip6 |-> IF 6 \in r.families THEN r.version ELSE 0,
                            err |-> FALSE, updateInProgress |-> FALSE]
    <3>1. /\ r.version \in Nat /\ Latest(rRecord) <= r.version /\ r.version <= rVersion
          /\ 4 \in r.families \/ 6 \in r.families
      BY <1>1, <2>1, LatestType DEF InOrder, Lookups, Families, ResTypes
    <3>2. /\ rRecord'.ip4 = (IF 4 \in r.families THEN r.version ELSE 0)
          /\ rRecord'.ip6 = (IF 6 \in r.families THEN r.version ELSE 0)
          /\ rRecord' \in [ip4 : Nat, ip6 : Nat, err : BOOLEAN, updateInProgress : BOOLEAN]
      BY <2>1, <3>1, Zenon
    <3>3. Latest(rRecord') = r.version
      BY <3>1, <3>2 DEF Latest
    <3> QED
      BY <2>1, <3>1, <3>2, <3>3, Zenon
  <2>2. CASE rRecord' = [rRecord EXCEPT !.err = TRUE, !.updateInProgress = FALSE]
    <3>1. rRecord'.ip4 = rRecord.ip4 /\ rRecord'.ip6 = rRecord.ip6
      BY <2>2, Zenon DEF ResTypes
    <3>2. rRecord' \in [ip4 : Nat, ip6 : Nat, err : BOOLEAN, updateInProgress : BOOLEAN]
      BY <2>2, Zenon DEF ResTypes
    <3>3. Latest(rRecord') = Latest(rRecord)
      BY <3>1, Zenon DEF Latest
    <3> QED
      BY <3>1, <3>2, <3>3, LatestType DEF InOrder, ResTypes
  <2> QED
    BY <2>1, <2>2, Zenon DEF EndRefresh
<1>5. ResTypes'
  BY <1>1, <1>2, <1>3, <1>4, Zenon DEF ResTypes
<1>6. OneRefresh'
  BY <1>1, <1>3, Zenon DEF OneRefresh
<1>7. InOrder' /\ Forward
  BY <1>1, <1>2, <1>4, <1>5, LatestType DEF InOrder, Forward, ResTypes, Latest
<1> QED
  BY <1>5, <1>6, <1>7, Zenon

\* Every step of the resolver keeps ResInv and goes forward.
LEMMA ResStep ==
  ASSUME ResInv, [ResNext]_resVars
  PROVE  ResInv' /\ Forward
<1>1. CASE UNCHANGED resVars
  BY <1>1, LatestType DEF ResInv, ResTypes, OneRefresh, InOrder, Forward, Latest, resVars
<1>2. CASE NewVersion \/ Age
  <2>1. CASE NewVersion
    BY <2>1 DEF NewVersion, ResInv, ResTypes, OneRefresh, InOrder, Latest, Lookups, Forward
  <2>2. CASE Age
    BY <2>2 DEF Age, ResInv, ResTypes, OneRefresh, InOrder, Latest, Forward
  <2> QED
    BY <1>2, <2>1, <2>2, Zenon
<1>3. ASSUME NEW c \in Callers,
             \/ ResolveCall(c) \/ OnceDone(c) \/ ResolveCheck(c)
             \/ \E ipVer \in {0, 4, 6} : ResolveRead(c, ipVer)
      PROVE  ResInv' /\ Forward
  BY <1>3, CallersStep, ResolveCallStep, ResolveCheckStep, Zenon
<1>4. ASSUME NEW r \in rRefresh, Answer(r) \/ EndRefresh(r) PROVE ResInv' /\ Forward
  BY <1>4, AnswerStep, EndRefreshStep, Zenon
<1> QED
  BY <1>1, <1>2, <1>3, <1>4, Zenon DEF ResNext

\* The addresses that the resolver's record has, and those that one caller is given,
\* never go back to an older version, with any number of callers, and there is
\* never more than one refresh.
THEOREM ResolverGoesForward == ResSpec => ResolverForward
<1> DEFINE Step == /\ Latest(rRecord') >= Latest(rRecord)
                   /\ Cardinality(rRefresh') <= 1
                   /\ \A c \in Callers : rGot'[c] # 0 /\ rGot[c] # 0 => rGot'[c] >= rGot[c]
<1>1. ResInv /\ [ResNext]_resVars => ResInv'
  BY ResStep, Zenon
<1>2. ResInv /\ [ResNext]_resVars => [Step]_resVars
  <2> SUFFICES ASSUME ResInv, [ResNext]_resVars PROVE Step
    BY Zenon
  <2>1. Forward /\ ResInv'
    BY ResStep, Zenon
  <2>2. rRefresh' = {} \/ \E r : rRefresh' = {r}
    BY <2>1 DEF ResInv, OneRefresh
  <2>3. Cardinality(rRefresh') <= 1
    <3>1. CASE rRefresh' = {}
      BY <3>1, FS_EmptySet
    <3>2. CASE \E r : rRefresh' = {r}
      <4>1. Cardinality(rRefresh') = 1
        BY <3>2, FS_Singleton, Zenon
      <4> QED
        BY <4>1
    <3> QED
      BY <2>2, <3>1, <3>2, Zenon
  <2> QED
    BY <2>1, <2>3, Zenon DEF Forward
<1> QED
  BY <1>1, <1>2, ResInitInv, PTL DEF ResSpec, ResolverForward

-----------------------------------------------------------------------------
(* Listers *)

ListTypes ==
  /\ gKind \in {"instances", "forwarding_rules", "kubernetes"}
  /\ gPc \in {"wait", "expand"} /\ gFailed \in BOOLEAN
  /\ gScopes \subseteq Scopes /\ gTodo \subseteq Scopes /\ gCurrent \subseteq Scopes
  /\ IsFiniteSet(DOMAIN gNames)
  /\ DOMAIN gNames \subseteq DOMAIN gGot

\* A pass that has not failed has names for every zone it came to, and after its
\* end for no other.
PassInv ==
  /\ gKind = "kubernetes" => gPc = "wait" /\ (DOMAIN gGot # {} => (DOMAIN gNames = {} <=> gFailed))
  /\ gPc = "expand" /\ ~gFailed => gCurrent \subseteq DOMAIN gNames
  /\ gKind = "instances" /\ gPc = "wait" /\ ~gFailed => DOMAIN gNames = gCurrent

ListInv == ListTypes /\ PassInv /\ NamesAreGot

\* A step of the instances lister keeps what the pass was told of.
TellsKept == gKind = "instances" => gCurrent' \intersect DOMAIN gNames \subseteq DOMAIN gNames'

\* What a cache has after a scope was put into it.
LEMMA PutFacts ==
  ASSUME NEW f, NEW s, NEW v
  PROVE  /\ DOMAIN Put(f, s, v) = DOMAIN f \union {s}
         /\ Put(f, s, v)[s] = v
         /\ \A x \in DOMAIN f : x # s => Put(f, s, v)[x] = f[x]
BY Zenon DEF Put

\* Putting the same into two functions keeps the agreement of one with the other.
LEMMA PutAgrees ==
  ASSUME NEW f, NEW g, NEW s, NEW v,
         DOMAIN f \subseteq DOMAIN g, \A x \in DOMAIN f : f[x] = g[x]
  PROVE  \A x \in DOMAIN Put(f, s, v) : Put(f, s, v)[x] = Put(g, s, v)[x]
BY Zenon DEF Put

\* ListInv holds initially.
LEMMA ListInitInv == ListInit => ListInv
<1> SUFFICES ASSUME ListInit PROVE ListInv
  BY Zenon
<1>1. DOMAIN gNames = {} /\ DOMAIN gGot = {}
  BY Zenon DEF ListInit
<1> QED
  BY <1>1, FS_EmptySet, Zenon DEF ListInit, ListInv, ListTypes, PassInv, NamesAreGot

\* The expansion of one zone or region keeps ListInv and what the pass was told of.
LEMMA ExpandForScopeStep ==
  ASSUME ListInv, NEW s \in Scopes, ExpandForScope(s)
  PROVE  ListInv' /\ TellsKept
<1> USE DEF ListInv
<1>1. /\ gPc = "expand" /\ gTodo' = gTodo \ {s} /\ gCurrent' = gCurrent \union {s}
      /\ UNCHANGED <<gKind, gScopes, gPc>>
  BY Zenon DEF ExpandForScope
<1>2. CASE gFailed' = TRUE /\ UNCHANGED <<gNames, gGot>>
  BY <1>1, <1>2, Zenon DEF ListTypes, PassInv, NamesAreGot, TellsKept
<1>3. CASE /\ gNames' = Put(gNames, s, gVersion) /\ gGot' = Put(gGot, s, gVersion)
           /\ UNCHANGED gFailed
  <2>1. DOMAIN gNames' = DOMAIN gNames \union {s} /\ DOMAIN gGot' = DOMAIN gGot \union {s}
    BY <1>3, PutFacts, Zenon
  <2>2. IsFiniteSet(DOMAIN gNames')
    BY <2>1, FS_AddElement DEF ListTypes
  <2>3. NamesAreGot'
    BY <1>3, PutAgrees DEF NamesAreGot, ListTypes
  <2>4. ListTypes'
    BY <1>1, <1>3, <2>1, <2>2, Zenon DEF ListTypes
  <2>5. PassInv'
    BY <1>1, <1>3, <2>1, Zenon DEF PassInv
  <2> QED
    BY <1>1, <2>1, <2>3, <2>4, <2>5, Zenon DEF TellsKept
<1> QED
  BY <1>2, <1>3, Zenon DEF ExpandForScope

\* Comparing the numbers of zones is enough when no call has failed: the zones that
\* were listed all have names then.
LEMMA ExpandEndStep ==
  ASSUME ListInv, ExpandEnd
  PROVE  ListInv' /\ TellsKept
<1> USE DEF ListInv
<1>1. /\ gPc = "expand" /\ gPc' = "wait"
      /\ gNames' = IF gKind = "instances" THEN [s \in KeptScopes |-> gNames[s]] ELSE gNames
      /\ UNCHANGED <<gKind, gScopes, gTodo, gCurrent, gFailed, gGot>>
  BY Zenon DEF ExpandEnd
<1>2. CASE gKind # "instances"
  BY <1>1, <1>2, Zenon DEF ListTypes, PassInv, NamesAreGot, TellsKept
<1>3. CASE gKind = "instances"
  <2>1. DOMAIN gNames' = KeptScopes /\ \A s \in KeptScopes : gNames'[s] = gNames[s]
    BY <1>1, <1>3, Zenon
  <2>2. KeptScopes \subseteq DOMAIN gNames /\ gCurrent \intersect DOMAIN gNames \subseteq KeptScopes
    BY Zenon DEF KeptScopes
  <2>3. IsFiniteSet(KeptScopes)
    BY <2>2, FS_Subset, Zenon DEF ListTypes
  <2>4. ~gFailed => KeptScopes = gCurrent
    <3>1. SUFFICES ASSUME gCurrent \subseteq DOMAIN gNames PROVE KeptScopes = gCurrent
      BY <1>1, Zenon DEF PassInv
    <3>2. Cardinality(DOMAIN gNames) = Cardinality(gCurrent) => DOMAIN gNames = gCurrent
      BY <3>1, FS_Subset, Zenon DEF ListTypes
    <3> QED
      BY <3>1, <3>2, Zenon DEF KeptScopes
  <2>5. NamesAreGot'
    BY <1>1, <2>1, <2>2, Zenon DEF NamesAreGot
  <2> QED
    BY <1>1, <1>3, <2>1, <2>2, <2>3, <2>4, <2>5, Zenon DEF ListTypes, PassInv, TellsKept
<1> QED
  BY <1>2, <1>3, Zenon

\* The expansion of a Kubernetes lister keeps ListInv.
LEMMA KubernetesExpandStep ==
  ASSUME ListInv, KubernetesExpand
  PROVE  ListInv' /\ TellsKept
<1> USE DEF ListInv
<1>1. gKind = "kubernetes" /\ UNCHANGED <<gKind, gScopes, gPc, gTodo, gCurrent>>
  BY Zenon DEF KubernetesExpand
<1>2. CASE gFailed' = TRUE /\ gNames' = [s \in {} |-> 0] /\ UNCHANGED gGot
  <2>1. DOMAIN gNames' = {} /\ IsFiniteSet({})
    BY <1>2, FS_EmptySet, Zenon
  <2> QED
    BY <1>1, <1>2, <2>1, Zenon DEF ListTypes, PassInv, NamesAreGot, TellsKept
<1>3. CASE /\ gFailed' = FALSE
           /\ gNames' = Put(gNames, Cluster, gVersion) /\ gGot' = Put(gGot, Cluster, gVersion)
  <2>1. DOMAIN gNames' = DOMAIN gNames \union {Cluster} /\ DOMAIN gGot' = DOMAIN gGot \union {Cluster}
    BY <1>3, PutFacts, Zenon
  <2>2. IsFiniteSet(DOMAIN gNames')
    BY <2>1, FS_AddElement DEF ListTypes
  <2>3. NamesAreGot'
    BY <1>3, PutAgrees DEF NamesAreGot, ListTypes
  <2>4. ListTypes'
    BY <1>1, <1>3, <2>1, <2>2, Zenon DEF ListTypes
  <2>5. PassInv'
    BY <1>1, <1>3, <2>1, Zenon DEF PassInv, ListTypes
  <2> QED
    BY <1>1, <2>3, <2>4, <2>5, Zenon DEF TellsKept
<1> QED
  BY <1>2, <1>3, Zenon DEF KubernetesExpand

\* Every step of the listers keeps ListInv and what the pass was told of.
LEMMA ListStep ==
  ASSUME ListInv, [ListNext]_listVars
  PROVE  ListInv' /\ TellsKept
<1>1. CASE CloudChange \/ UNCHANGED listVars
  BY <1>1 DEF CloudChange, listVars, ListInv, ListTypes, PassInv, NamesAreGot, TellsKept
<1>2. CASE ListScopes
  BY <1>2, Zenon DEF ListScopes, ListInv, ListTypes, PassInv, NamesAreGot, TellsKept
<1> QED
  BY <1>1, <1>2, ExpandForScopeStep, ExpandEndStep, KubernetesExpandStep, Zenon DEF ListNext

\* What the listers' caches keep and drop is as ScopesKept says, for any number of
\* zones or regions that come and go, failing calls and passes.
THEOREM ListersKeepScopes == ListSpec => ScopesKept
<1>1. ListInv /\ [ListNext]_listVars => ListInv'
  BY ListStep, Zenon
<1>2. ListInv /\ [ListNext]_listVars =>
        [/\ NamesAreGot'
         /\ gKind = "instances" =>
              /\ gPc' = "wait" /\ ~gFailed' => DOMAIN gNames' = gCurrent'
              /\ gCurrent' \intersect DOMAIN gNames \subseteq DOMAIN gNames'
         /\ gKind = "kubernetes" /\ DOMAIN gGot' # {} => (DOMAIN gNames' = {} <=> gFailed')
        ]_listVars
  <2> SUFFICES ASSUME ListInv, [ListNext]_listVars
               PROVE  /\ NamesAreGot'
                      /\ gKind = "instances" =>
                           /\ gPc' = "wait" /\ ~gFailed' => DOMAIN gNames' = gCurrent'
                           /\ gCurrent' \intersect DOMAIN gNames \subseteq DOMAIN gNames'
                      /\ gKind = "kubernetes" /\ DOMAIN gGot' # {} =>
                           (DOMAIN gNames' = {} <=> gFailed')
    BY Zenon
  <2>1. gKind' = gKind
    BY Zenon DEF ListNext, listVars, CloudChange, ListScopes, ExpandForScope, ExpandEnd, KubernetesExpand
  <2>2. ListInv' /\ TellsKept
    BY ListStep, Zenon
  <2> QED
    BY <2>1, <2>2, Zenon DEF ListInv, PassInv, TellsKept
<1> QED
  BY <1>1, <1>2, ListInitInv, PTL DEF ListSpec, ScopesKept

-----------------------------------------------------------------------------
(* CloudTargets *)

Rules == "forwarding_rules"
KeyOf(i) == ServerKey(ctTgts[i].def)

\* What New made: a target with the clients of its definition, or forwarding rules.
Tgt(t) ==
  /\ t = [def |-> t.def, nil |-> t.nil, names |-> t.names] /\ t.nil \in BOOLEAN
  /\ IF t.def.type = Rules THEN TRUE
     ELSE /\ t.def.type \in {"gce_instances", "k8s"} /\ ~t.nil
          /\ DOMAIN t.names = ServedScopes(t.def)

IsFirst(key, i) ==
  /\ i \in DOMAIN ctTgts /\ KeyOf(i) = key
  /\ \A j \in DOMAIN ctTgts : KeyOf(j) = key => i <= j

\* Keys with a server are those of the targets; it was made once, for the first.
Shared ==
  /\ DOMAIN ctMade = DOMAIN ctServers
  /\ \A key \in DOMAIN ctMade : ctMade[key] = 1
  /\ \A key \in DOMAIN ctServers :
       \E i \in DOMAIN ctTgts : IsFirst(key, i) /\ ServedScopes(ctTgts[i].def) = ctServers[key]
  /\ \A i \in DOMAIN ctTgts : ctTgts[i].def.type # Rules => KeyOf(i) \in DOMAIN ctServers

\* A client has names of the scopes only that its server serves.
Listed ==
  \A i \in DOMAIN ctTgts : ctTgts[i].def.type # Rules =>
    \A s \in ServedScopes(ctTgts[i].def) \ ctServers[KeyOf(i)] : ctTgts[i].names[s] = {}

\* Forwarding rules are those of the first definition, or nil.
RulesOnce ==
  /\ frOnce \in {"unused", "failed", "ready"}
  /\ frOnce = "unused" => \A i \in DOMAIN ctTgts : ctTgts[i].def.type # Rules
  /\ frOnce = "ready" =>
       \E i \in DOMAIN ctTgts : IsFirst(<<Rules>>, i) /\ ctTgts[i].def = frDef
  /\ frOnce # "failed" => \A i \in DOMAIN ctTgts : ~ctTgts[i].nil
  /\ \A i \in DOMAIN ctTgts : ctTgts[i].def.type = Rules /\ ~ctTgts[i].nil => frOnce = "ready"
  /\ ctDead => frOnce = "failed" \/ frExpand # {}

Addresses ==
  svAddrs # <<>> =>
    svAddrs = svHosts /\ \A i \in DOMAIN svAddrs : svAddrs[i].form # "bracketed"

CloudInv ==
  /\ ctTgts \in Seq(Range(ctTgts))
  /\ \A i \in DOMAIN ctTgts : Tgt(ctTgts[i])
  /\ Shared /\ Listed /\ RulesOnce /\ Addresses

\* The indices of targets.
LEMMA TgtIndices ==
  ASSUME CloudInv
  PROVE  DOMAIN ctTgts = 1 .. Len(ctTgts) /\ Len(ctTgts) \in Nat
  BY LenProperties, Zenon DEF CloudInv

\* The first target with a key is the one that FirstOf chooses.
LEMMA FirstIs ==
  ASSUME CloudInv, NEW key, NEW i, IsFirst(key, i)
  PROVE  FirstOf(key) = ctTgts[i].def
<1>1. PICK c : c = CHOOSE j \in DOMAIN ctTgts :
                     /\ ServerKey(ctTgts[j].def) = key
                     /\ \A l \in DOMAIN ctTgts : ServerKey(ctTgts[l].def) = key => j <= l
  BY Zenon
<1>2. /\ i \in DOMAIN ctTgts /\ ServerKey(ctTgts[i].def) = key
      /\ \A l \in DOMAIN ctTgts : ServerKey(ctTgts[l].def) = key => i <= l
  BY Zenon DEF IsFirst, KeyOf
<1>3. /\ c \in DOMAIN ctTgts /\ ServerKey(ctTgts[c].def) = key
      /\ \A l \in DOMAIN ctTgts : ServerKey(ctTgts[l].def) = key => c <= l
  BY <1>1, <1>2, Zenon
<1>4. c <= i /\ i <= c
  BY <1>2, <1>3, Zenon
<1>5. c = i
  BY <1>2, <1>3, <1>4, TgtIndices
<1> QED
  BY <1>1, <1>5, Zenon DEF FirstOf

\* Forwarding rules share a key with no other target.
LEMMA KeysDiffer ==
  ASSUME NEW d, d.type \in {"gce_instances", "k8s"}
  PROVE  ServerKey(d) # <<Rules>>
<1>1. CASE d.type = "k8s"
  <2>1. \A a, b, c, x : <<a, b, c>> # <<x>>
    BY Zenon
  <2> QED
    BY <1>1, <2>1, Zenon DEF ServerKey, k8sKey
<1>2. CASE d.type = "gce_instances"
  BY <1>2, Zenon DEF ServerKey, Rules
<1> QED
  BY <1>1, <1>2, Zenon

\* At first there is nothing.
LEMMA CloudInitInv == CtInit /\ SrvInit => CloudInv
<1> SUFFICES ASSUME CtInit, SrvInit PROVE CloudInv
  BY Zenon
<1>1. <<>> \in Seq(Range(<<>>)) /\ \A i : i \notin DOMAIN <<>>
  BY EmptySeq
<1>2. \A k : k \notin DOMAIN None0
  BY Zenon DEF None0
<1> QED
  BY <1>1, <1>2, Zenon DEF CtInit, SrvInit, CloudInv, Shared, Listed, RulesOnce, Addresses

\* New adds a target at the end.
LEMMA Added ==
  ASSUME CloudInv, NEW t, ctTgts' = Append(ctTgts, t)
  PROVE  /\ ctTgts' \in Seq(Range(ctTgts')) /\ DOMAIN ctTgts' = 1 .. Len(ctTgts) + 1
         /\ \A i \in DOMAIN ctTgts : i \in DOMAIN ctTgts' /\ ctTgts'[i] = ctTgts[i]
         /\ ctTgts'[Len(ctTgts) + 1] = t
         /\ \A i \in DOMAIN ctTgts' : i \in DOMAIN ctTgts \/ i = Len(ctTgts) + 1
<1>1. PICK S : ctTgts \in Seq(S) /\ t \in S
  <2>1. ctTgts \in Seq(Range(ctTgts) \union {t})
    BY SeqMonotonic, Zenon DEF CloudInv
  <2> QED
    BY <2>1, Zenon
<1>2. /\ ctTgts' \in Seq(S) /\ Len(ctTgts') = Len(ctTgts) + 1
      /\ \A i \in 1 .. Len(ctTgts) : ctTgts'[i] = ctTgts[i]
      /\ ctTgts'[Len(ctTgts) + 1] = t
  BY <1>1, AppendProperties
<1>3. DOMAIN ctTgts' = 1 .. Len(ctTgts) + 1
  BY <1>2, LenProperties, Zenon
<1>4. ctTgts' \in Seq(Range(ctTgts'))
  BY <1>2, SeqOfRange, Zenon
<1> QED
  BY <1>2, <1>3, <1>4, TgtIndices

\* A target that was the first with its key still is.
LEMMA FirstStays ==
  ASSUME CloudInv, NEW t, ctTgts' = Append(ctTgts, t), NEW key, NEW i, IsFirst(key, i)
  PROVE  IsFirst(key, i)'
<1>1. i \in DOMAIN ctTgts /\ i \in DOMAIN ctTgts' /\ KeyOf(i)' = key
  BY Added, Zenon DEF IsFirst, KeyOf
<1>2. ASSUME NEW j \in DOMAIN ctTgts', KeyOf(j)' = key PROVE i <= j
  <2>1. CASE j \in DOMAIN ctTgts
    BY <1>2, <2>1, Added, Zenon DEF IsFirst, KeyOf
  <2>2. CASE j = Len(ctTgts) + 1
    BY <1>1, <2>2, TgtIndices
  <2> QED
    BY <2>1, <2>2, Added, Zenon
<1> QED
  BY <1>1, <1>2, Zenon DEF IsFirst

\* A target that is the only one with its key is the first.
LEMMA FirstNow ==
  ASSUME CloudInv, NEW t, ctTgts' = Append(ctTgts, t), NEW key, ServerKey(t.def) = key,
         \A i \in DOMAIN ctTgts : KeyOf(i) # key, NEW n, n = Len(ctTgts) + 1
  PROVE  IsFirst(key, n)'
<1>1. n \in Nat /\ n \in DOMAIN ctTgts' /\ ctTgts'[n] = t
  BY Added, TgtIndices
<1>2. \A j \in DOMAIN ctTgts' : ServerKey(ctTgts'[j].def) = key => j = n
  BY Added, Zenon DEF KeyOf
<1>3. \A j \in DOMAIN ctTgts' : ServerKey(ctTgts'[j].def) = key => n <= j
  BY <1>1, <1>2
<1> QED
  BY <1>1, <1>3, Zenon DEF IsFirst, KeyOf

\* New for instances and for Kubernetes.
LEMMA WithClientsInv ==
  ASSUME CloudInv, ~ctDead, NEW d, d.type \in {"gce_instances", "k8s"}, WithClients(d),
         UNCHANGED svVars
  PROVE  CloudInv'
<1>1. PICK k : k = ServerKey(d)
  BY Zenon
<1>2. PICK n : n = Len(ctTgts) + 1
  BY Zenon
<1>3. PICK names : names = [s \in ServedScopes(d) |-> ClientList(k, s, {})]
  BY Zenon
<1>4. PICK t : t = [def |-> d, nil |-> FALSE, names |-> names]
  BY Zenon
<1>5. /\ ctTgts' = Append(ctTgts, t) /\ initRDSServer(d)
      /\ UNCHANGED <<ctCloud, ctCached, ctChanges, ctDead>> /\ UNCHANGED frVars
  BY <1>1, <1>3, <1>4, Zenon DEF WithClients
<1>6. t.def = d /\ t.nil = FALSE /\ t.names = names /\ t = [def |-> d, nil |-> FALSE, names |-> names]
  BY <1>4, Zenon
<1>7. /\ ctTgts' \in Seq(Range(ctTgts'))
      /\ \A i \in DOMAIN ctTgts : i \in DOMAIN ctTgts' /\ ctTgts'[i] = ctTgts[i]
      /\ n \in DOMAIN ctTgts' /\ ctTgts'[n] = t
      /\ \A i \in DOMAIN ctTgts' : i \in DOMAIN ctTgts \/ i = n
  BY <1>2, <1>5, Added, TgtIndices
<1>8. Tgt(t)
  <2>1. d.type # Rules
    BY Zenon DEF Rules
  <2>2. DOMAIN names = ServedScopes(d)
    BY <1>3, Zenon
  <2> QED
    BY <1>6, <2>1, <2>2, Zenon DEF Tgt
<1>9. \A i \in DOMAIN ctTgts' : Tgt(ctTgts'[i])
  BY <1>7, <1>8, Zenon DEF CloudInv
<1>10. d.type # Rules /\ k # <<Rules>>
  BY <1>1, KeysDiffer DEF Rules
<1>11. /\ DOMAIN ctServers' = DOMAIN ctServers \union {k}
       /\ DOMAIN ctMade' = DOMAIN ctServers'
       /\ \A key \in DOMAIN ctServers : ctServers'[key] = ctServers[key]
       /\ \A key \in DOMAIN ctMade' : ctMade'[key] = 1
       /\ k \notin DOMAIN ctServers => ctServers'[k] = ServedScopes(d)
  <2>0. DOMAIN ctMade = DOMAIN ctServers /\ \A key \in DOMAIN ctMade : ctMade[key] = 1
    BY Zenon DEF CloudInv, Shared
  <2>1. CASE k \in DOMAIN ctServers
    <3>1. ctServers' = ctServers /\ ctMade' = ctMade
      BY <1>1, <1>5, <2>1, Zenon DEF initRDSServer
    <3> QED
      BY <2>0, <2>1, <3>1, Zenon
  <2>2. CASE k \notin DOMAIN ctServers
    <3>1. ctServers' = Fn(ctServers, k, ServedScopes(d)) /\ ctMade' = Fn(ctMade, k, 1)
      BY <1>1, <1>5, <2>0, <2>2, Zenon DEF initRDSServer
    <3>2. /\ DOMAIN ctServers' = DOMAIN ctServers \union {k} /\ ctServers'[k] = ServedScopes(d)
          /\ \A x \in DOMAIN ctServers \ {k} : ctServers'[x] = ctServers[x]
      BY <3>1, Zenon DEF Fn
    <3>3. /\ DOMAIN ctMade' = DOMAIN ctMade \union {k} /\ ctMade'[k] = 1
          /\ \A x \in DOMAIN ctMade \ {k} : ctMade'[x] = ctMade[x]
      BY <3>1, Zenon DEF Fn
    <3> QED
      BY <2>0, <2>2, <3>2, <3>3, Zenon
  <2> QED
    BY <2>1, <2>2, Zenon
<1>12. \A i \in DOMAIN ctTgts : KeyOf(i)' = KeyOf(i)
  BY <1>7, Zenon DEF KeyOf
<1>13. KeyOf(n)' = k
  BY <1>1, <1>6, <1>7, Zenon DEF KeyOf
<1>14. \A i \in DOMAIN ctTgts : ctTgts[i].def.type # Rules => KeyOf(i) \in DOMAIN ctServers
  BY Zenon DEF CloudInv, Shared
<1>15. Shared'
  <2>1. ASSUME NEW key \in DOMAIN ctServers
        PROVE  \E i \in DOMAIN ctTgts' : IsFirst(key, i)' /\ ServedScopes(ctTgts'[i].def) = ctServers'[key]
    <3>1. PICK i \in DOMAIN ctTgts : IsFirst(key, i) /\ ServedScopes(ctTgts[i].def) = ctServers[key]
      BY Zenon DEF CloudInv, Shared
    <3>2. IsFirst(key, i)'
      BY <1>5, <3>1, FirstStays, Zenon
    <3> QED
      BY <1>7, <1>11, <3>1, <3>2, Zenon
  <2>2. ASSUME k \notin DOMAIN ctServers
        PROVE  IsFirst(k, n)' /\ ServedScopes(ctTgts'[n].def) = ctServers'[k]
    <3>1. ASSUME NEW i \in DOMAIN ctTgts PROVE KeyOf(i) # k
      <4>1. CASE ctTgts[i].def.type = Rules
        BY <1>10, <4>1, Zenon DEF KeyOf, ServerKey, Rules
      <4>2. CASE ctTgts[i].def.type # Rules
        BY <1>14, <2>2, <4>2, Zenon
      <4> QED
        BY <4>1, <4>2, Zenon
    <3>2. IsFirst(k, n)'
      BY <1>1, <1>2, <1>5, <1>6, <3>1, FirstNow, Zenon
    <3> QED
      BY <1>6, <1>7, <1>11, <2>2, <3>2, Zenon
  <2>3. \A key \in DOMAIN ctServers' :
          \E i \in DOMAIN ctTgts' : IsFirst(key, i)' /\ ServedScopes(ctTgts'[i].def) = ctServers'[key]
    BY <1>7, <1>11, <2>1, <2>2, Zenon
  <2>4. \A i \in DOMAIN ctTgts' : ctTgts'[i].def.type # Rules => KeyOf(i)' \in DOMAIN ctServers'
    BY <1>7, <1>11, <1>12, <1>13, <1>14, Zenon
  <2> QED
    BY <1>11, <2>3, <2>4, Zenon DEF Shared
<1>16. Listed'
  <2> SUFFICES ASSUME NEW i \in DOMAIN ctTgts', ctTgts'[i].def.type # Rules,
                      NEW s \in ServedScopes(ctTgts'[i].def) \ ctServers'[KeyOf(i)']
               PROVE  ctTgts'[i].names[s] = {}
    BY Zenon DEF Listed
  <2>1. CASE i \in DOMAIN ctTgts
    <3>1. ctTgts'[i] = ctTgts[i] /\ ctServers'[KeyOf(i)'] = ctServers[KeyOf(i)]
      BY <1>7, <1>11, <1>12, <1>14, <2>1, Zenon
    <3> QED
      BY <2>1, <3>1, Zenon DEF CloudInv, Listed
  <2>2. CASE i = n
    <3>1. s \in ServedScopes(d) /\ s \notin ctServers'[k]
      BY <1>6, <1>7, <1>13, <2>2, Zenon
    <3>2. names[s] = ClientList(k, s, {})
      BY <1>3, <3>1, Zenon
    <3> QED
      BY <1>6, <1>7, <2>2, <3>1, <3>2, Zenon DEF ClientList
  <2> QED
    BY <1>7, <2>1, <2>2, Zenon
<1>17. RulesOnce'
  <2>1. UNCHANGED <<frOnce, frDef, frExpand, ctDead>> /\ RulesOnce
    BY <1>5, Zenon DEF frVars, CloudInv
  <2>2. ASSUME frOnce = "ready"
        PROVE  \E i \in DOMAIN ctTgts' : IsFirst(<<Rules>>, i)' /\ ctTgts'[i].def = frDef
    <3>1. PICK i \in DOMAIN ctTgts : IsFirst(<<Rules>>, i) /\ ctTgts[i].def = frDef
      BY <2>1, <2>2, Zenon DEF RulesOnce
    <3>2. IsFirst(<<Rules>>, i)'
      BY <1>5, <3>1, FirstStays, Zenon
    <3> QED
      BY <1>7, <3>1, <3>2, Zenon
  <2>3. \A i \in DOMAIN ctTgts' : \/ i \in DOMAIN ctTgts /\ ctTgts'[i] = ctTgts[i]
                                  \/ ctTgts'[i].def.type # Rules /\ ~ctTgts'[i].nil
    BY <1>6, <1>7, <1>10, Zenon
  <2> QED
    BY <2>1, <2>2, <2>3, Zenon DEF RulesOnce
<1> QED
  BY <1>7, <1>9, <1>15, <1>16, <1>17, Zenon DEF CloudInv, Addresses, svVars

\* New for forwarding rules.
LEMMA RulesInv ==
  ASSUME CloudInv, ~ctDead, NEW d, NewForwardingRules(d), UNCHANGED svVars
  PROVE  CloudInv'
<1>1. /\ UNCHANGED <<ctServers, ctMade, ctDead, frExpand>> /\ d.type = Rules
      /\ \/ frOnce = "unused" /\ frOnce' = "failed" /\ UNCHANGED <<frDef, ctTgts>>
         \/ /\ frOnce = "unused" /\ frOnce' = "ready" /\ frDef' = d
            /\ ctTgts' = Append(ctTgts, [def |-> d, nil |-> FALSE, names |-> None0])
         \/ /\ frOnce # "unused" /\ UNCHANGED <<frOnce, frDef>>
            /\ ctTgts' = Append(ctTgts, [def |-> d, nil |-> frOnce = "failed", names |-> None0])
  BY Zenon DEF NewForwardingRules, Rules
<1>2. Addresses'
  BY Zenon DEF CloudInv, Addresses, svVars
<1>3. CASE frOnce = "unused" /\ frOnce' = "failed" /\ UNCHANGED <<frDef, ctTgts>>
  BY <1>1, <1>2, <1>3, Zenon DEF CloudInv, Shared, Listed, RulesOnce, IsFirst, KeyOf
<1>4. ASSUME NEW t, ctTgts' = Append(ctTgts, t), t.def = d, t.nil \in BOOLEAN,
             t = [def |-> d, nil |-> t.nil, names |-> t.names],
             frOnce # "failed" => ~t.nil, frOnce' # "failed" => frOnce' = "ready",
             ~t.nil => frOnce' = "ready", frOnce' = "failed" => frOnce = "failed",
             frOnce' \in {"failed", "ready"},
             \/ frOnce = "unused" /\ frDef' = d
             \/ frOnce # "unused" /\ frDef' = frDef /\ frOnce' = frOnce
      PROVE  CloudInv'
  <2>1. PICK n : n = Len(ctTgts) + 1
    BY Zenon
  <2>2. /\ ctTgts' \in Seq(Range(ctTgts'))
        /\ \A i \in DOMAIN ctTgts : i \in DOMAIN ctTgts' /\ ctTgts'[i] = ctTgts[i]
        /\ n \in DOMAIN ctTgts' /\ ctTgts'[n] = t
        /\ \A i \in DOMAIN ctTgts' : i \in DOMAIN ctTgts \/ i = n
    BY <1>4, <2>1, Added, TgtIndices
  <2>3. Tgt(t)
    BY <1>1, <1>4, Zenon DEF Tgt
  <2>4. \A i \in DOMAIN ctTgts' : Tgt(ctTgts'[i])
    BY <2>2, <2>3, Zenon DEF CloudInv
  <2>5. \A i \in DOMAIN ctTgts' : ctTgts'[i].def.type # Rules =>
          i \in DOMAIN ctTgts /\ ctTgts'[i] = ctTgts[i] /\ KeyOf(i)' = KeyOf(i)
    BY <1>1, <1>4, <2>2, Zenon DEF KeyOf
  <2>6. Shared'
    <3>1. ASSUME NEW key \in DOMAIN ctServers
          PROVE  \E i \in DOMAIN ctTgts' : IsFirst(key, i)' /\ ServedScopes(ctTgts'[i].def) = ctServers[key]
      <4>1. PICK i \in DOMAIN ctTgts : IsFirst(key, i) /\ ServedScopes(ctTgts[i].def) = ctServers[key]
        BY Zenon DEF CloudInv, Shared
      <4>2. IsFirst(key, i)'
        BY <1>4, <4>1, FirstStays, Zenon
      <4> QED
        BY <2>2, <4>1, <4>2, Zenon
    <3> QED
      BY <1>1, <2>5, <3>1, Zenon DEF CloudInv, Shared
  <2>7. Listed'
    BY <1>1, <2>5, Zenon DEF CloudInv, Listed
  <2>8. ServerKey(d) = <<Rules>>
    BY <1>1, Zenon DEF ServerKey, Rules
  <2>9. \E i \in DOMAIN ctTgts' : frOnce' = "ready" => IsFirst(<<Rules>>, i)' /\ ctTgts'[i].def = frDef'
    <3>1. CASE frOnce = "unused" /\ frDef' = d
      <4>1. \A i \in DOMAIN ctTgts : KeyOf(i) # <<Rules>>
        BY <3>1, KeysDiffer DEF CloudInv, RulesOnce, Tgt, KeyOf
      <4>2. IsFirst(<<Rules>>, n)'
        BY <1>4, <2>1, <2>8, <4>1, FirstNow, Zenon
      <4> QED
        BY <1>4, <2>2, <3>1, <4>2, Zenon
    <3>2. CASE frOnce = "ready" /\ frDef' = frDef
      <4>1. PICK i \in DOMAIN ctTgts : IsFirst(<<Rules>>, i) /\ ctTgts[i].def = frDef
        BY <3>2, Zenon DEF CloudInv, RulesOnce
      <4>2. IsFirst(<<Rules>>, i)'
        BY <1>4, <4>1, FirstStays, Zenon
      <4> QED
        BY <2>2, <3>2, <4>1, <4>2, Zenon
    <3>3. CASE frOnce = "failed"
      BY <1>4, <2>2, <3>3, Zenon
    <3> QED
      BY <1>4, <3>1, <3>2, <3>3, Zenon DEF CloudInv, RulesOnce
  <2>10. \A i \in DOMAIN ctTgts' :
           /\ frOnce' # "failed" => ~ctTgts'[i].nil
           /\ ctTgts'[i].def.type = Rules /\ ~ctTgts'[i].nil => frOnce' = "ready"
    <3> SUFFICES ASSUME NEW i \in DOMAIN ctTgts'
                 PROVE  /\ frOnce' # "failed" => ~ctTgts'[i].nil
                        /\ ctTgts'[i].def.type = Rules /\ ~ctTgts'[i].nil => frOnce' = "ready"
      BY Zenon
    <3>1. CASE i \in DOMAIN ctTgts
      BY <1>4, <2>2, <3>1, Zenon DEF CloudInv, RulesOnce
    <3>2. CASE i = n
      BY <1>4, <2>2, <3>2, Zenon DEF CloudInv, RulesOnce
    <3> QED
      BY <2>2, <3>1, <3>2, Zenon
  <2>11. RulesOnce'
    BY <1>1, <1>4, <2>9, <2>10, Zenon DEF RulesOnce
  <2> QED
    BY <1>2, <2>2, <2>4, <2>6, <2>7, <2>11, Zenon DEF CloudInv
<1>5. CASE /\ frOnce = "unused" /\ frOnce' = "ready" /\ frDef' = d
           /\ ctTgts' = Append(ctTgts, [def |-> d, nil |-> FALSE, names |-> None0])
  <2>1. PICK t : t = [def |-> d, nil |-> FALSE, names |-> None0]
    BY Zenon
  <2>2. t.def = d /\ t.names = None0 /\ t.nil = FALSE
    BY <2>1, Zenon
  <2> QED
    BY <1>4, <1>5, <2>1, <2>2, Zenon
<1>6. CASE /\ frOnce # "unused" /\ UNCHANGED <<frOnce, frDef>>
           /\ ctTgts' = Append(ctTgts, [def |-> d, nil |-> frOnce = "failed", names |-> None0])
  <2>1. PICK b \in BOOLEAN : b = (frOnce = "failed")
    BY Zenon
  <2>2. PICK t : t = [def |-> d, nil |-> b, names |-> None0]
    BY Zenon
  <2>3. t.def = d /\ t.names = None0 /\ t.nil = b /\ ctTgts' = Append(ctTgts, t)
    BY <1>6, <2>1, <2>2, Zenon
  <2>4. frOnce \in {"failed", "ready"} /\ (b <=> frOnce = "failed")
    BY <1>6, <2>1, Zenon DEF CloudInv, RulesOnce
  <2> QED
    BY <1>4, <1>6, <2>2, <2>3, <2>4, Zenon
<1> QED
  BY <1>1, <1>3, <1>5, <1>6, Zenon

\* A client refreshes.
LEMMA RefreshInv ==
  ASSUME CloudInv, ~ctDead, NEW i \in DOMAIN ctTgts, NEW s, CtRefresh(i, s), UNCHANGED svVars
  PROVE  CloudInv'
<1>1. PICK t : t = ctTgts[i]
  BY Zenon
<1>2. /\ t.def.type # Rules /\ s \in ServedScopes(t.def) /\ Tgt(t) /\ ctServers' = ctServers
      /\ UNCHANGED <<ctMade, ctDead>> /\ UNCHANGED frVars
  BY <1>1, Zenon DEF CtRefresh, Rules, CloudInv
<1>3. PICK new : new = ClientList(ServerKey(t.def), s, t.names[s])
  BY Zenon
<1>4. PICK u : u = [t EXCEPT !.names = [t.names EXCEPT ![s] = new]]
  BY Zenon
<1>5. ctTgts' = [ctTgts EXCEPT ![i] = u]
  BY <1>1, <1>3, <1>4, Zenon DEF CtRefresh
<1>6. /\ u.def = t.def /\ u.nil = t.nil /\ u.names = [t.names EXCEPT ![s] = new]
      /\ u = [def |-> u.def, nil |-> u.nil, names |-> u.names]
  BY <1>2, <1>4, Zenon DEF Tgt
<1>7. /\ DOMAIN ctTgts' = DOMAIN ctTgts /\ ctTgts'[i] = u
      /\ \A j \in DOMAIN ctTgts \ {i} : ctTgts'[j] = ctTgts[j]
  BY <1>5, Zenon
<1>8. \A j \in DOMAIN ctTgts : ctTgts'[j].def = ctTgts[j].def /\ ctTgts'[j].nil = ctTgts[j].nil
  BY <1>1, <1>6, <1>7, Zenon
<1>9. \A key, j : IsFirst(key, j)' <=> IsFirst(key, j)
  BY <1>7, <1>8, Zenon DEF IsFirst, KeyOf
<1>10. ctTgts' \in Seq(Range(ctTgts'))
  <2>1. PICK S : ctTgts \in Seq(S) /\ u \in S
    <3>1. ctTgts \in Seq(Range(ctTgts) \union {u})
      BY SeqMonotonic, Zenon DEF CloudInv
    <3> QED
      BY <3>1, Zenon
  <2>2. ctTgts' \in Seq(S)
    BY <1>5, <2>1, ExceptSeq, TgtIndices, Zenon
  <2> QED
    BY <2>2, SeqOfRange, Zenon
<1>11. Tgt(u)
  BY <1>2, <1>6, Zenon DEF Tgt
<1>12. \A j \in DOMAIN ctTgts' : Tgt(ctTgts'[j])
  BY <1>7, <1>11, Zenon DEF CloudInv
<1>13. Shared'
  BY <1>2, <1>7, <1>8, <1>9 DEF CloudInv, Shared, KeyOf
<1>14. Listed'
  <2> SUFFICES ASSUME NEW j \in DOMAIN ctTgts, ctTgts[j].def.type # Rules,
                      NEW x \in ServedScopes(ctTgts[j].def) \ ctServers[KeyOf(j)]
               PROVE  ctTgts'[j].names[x] = {}
    BY <1>2, <1>7, <1>8, Zenon DEF Listed, KeyOf
  <2>1. ctTgts[j].names[x] = {}
    BY Zenon DEF CloudInv, Listed
  <2>2. CASE j = i /\ x = s
    <3>1. new = t.names[s]
      BY <1>1, <1>2, <1>3, <2>2, Zenon DEF ClientList, KeyOf
    <3>2. DOMAIN t.names = ServedScopes(t.def)
      BY <1>2, Zenon DEF Tgt
    <3> QED
      BY <1>1, <1>2, <1>6, <1>7, <2>1, <2>2, <3>1, <3>2, Zenon
  <2>3. CASE j = i /\ x # s
    <3>1. x \in DOMAIN t.names
      BY <1>1, <1>2, <2>3, Zenon DEF Tgt
    <3> QED
      BY <1>1, <1>6, <1>7, <2>1, <2>3, <3>1, Zenon
  <2>4. CASE j # i
    BY <1>7, <2>1, <2>4, Zenon
  <2> QED
    BY <2>2, <2>3, <2>4, Zenon
<1>15. RulesOnce'
  BY <1>2, <1>7, <1>8, <1>9, Zenon DEF CloudInv, RulesOnce, frVars
<1> QED
  BY <1>7, <1>10, <1>12, <1>13, <1>14, <1>15, Zenon DEF CloudInv, Addresses, svVars

\* The steps that leave the targets and their servers alone.
LEMMA CloudOther ==
  ASSUME CloudInv, UNCHANGED <<ctServers, ctMade, ctTgts, frOnce, frDef>>, UNCHANGED svVars,
         ctDead' => frOnce = "failed" \/ frExpand' # {}
  PROVE  CloudInv'
<1>1. Shared' /\ Listed' /\ Addresses'
  BY Zenon DEF CloudInv, Shared, Listed, Addresses, IsFirst, KeyOf, svVars
<1>2. RulesOnce'
  BY Zenon DEF CloudInv, RulesOnce, IsFirst, KeyOf
<1> QED
  BY <1>1, <1>2, Zenon DEF CloudInv

\* Every step of targets and their servers preserves the invariant.
LEMMA CloudStep ==
  CloudInv /\ [(CtNext /\ UNCHANGED svVars) \/ (SrvNext /\ UNCHANGED ctVars)]_<<ctVars, svVars>>
    => CloudInv'
<1> SUFFICES ASSUME CloudInv,
                    [(CtNext /\ UNCHANGED svVars) \/ (SrvNext /\ UNCHANGED ctVars)]_<<ctVars, svVars>>
             PROVE  CloudInv'
  BY Zenon
<1>1. CASE CtNext /\ UNCHANGED svVars
  <2> ~ctDead /\ UNCHANGED svVars
    BY <1>1, Zenon DEF CtNext
  <2>1. CASE CloudMoves \/ FRExpandBegin \/ FRExpandEnd
    BY <2>1, CloudOther DEF CloudMoves, FRExpandBegin, FRExpandEnd, frVars
  <2>2. ASSUME NEW d \in Defs, NewInstances(d) \/ k8sTargets(d) PROVE CloudInv'
    <3>1. d.type \in {"gce_instances", "k8s"} /\ (NewFails(d) \/ WithClients(d))
      BY <2>2, Zenon DEF NewInstances, k8sTargets
    <3>2. CASE NewFails(d)
      BY <3>2, CloudOther, Zenon DEF NewFails, frVars
    <3> QED
      BY <3>1, <3>2, WithClientsInv
  <2>3. ASSUME NEW d \in Defs, NewForwardingRules(d) PROVE CloudInv'
    BY <2>3, RulesInv, Zenon
  <2>4. ASSUME NEW key, NEW s, CtExpand(key, s) PROVE CloudInv'
    BY <2>4, CloudOther, Zenon DEF CtExpand, frVars
  <2>5. ASSUME NEW i \in DOMAIN ctTgts, Use(i) PROVE CloudInv'
    <3>1. ctTgts[i].nil => frOnce = "failed"
      BY Zenon DEF CloudInv, RulesOnce
    <3>2. ctDead' => ctTgts[i].nil \/ frExpand # {}
      BY <2>5, Zenon DEF Use
    <3> QED
      BY <2>5, <3>1, <3>2, CloudOther, Zenon DEF Use, frVars
  <2>6. ASSUME NEW i \in DOMAIN ctTgts, NEW s, CtRefresh(i, s) PROVE CloudInv'
    BY <2>6, RefreshInv, Zenon
  <2> QED
    BY <1>1, <2>1, <2>2, <2>3, <2>4, <2>5, <2>6, Zenon DEF CtNext
<1>2. CASE SrvNext /\ UNCHANGED ctVars
  <2>1. UNCHANGED <<ctServers, ctMade, ctTgts, ctDead, frOnce, frDef, frExpand>>
    BY <1>2, Zenon DEF ctVars, frVars
  <2>2. Shared' /\ Listed' /\ RulesOnce'
    BY <2>1, Zenon DEF CloudInv, Shared, Listed, RulesOnce, IsFirst, KeyOf
  <2>3. Addresses'
    <3>1. CASE SrvBuild
      BY <3>1, Zenon DEF SrvBuild, CloudInv, Addresses
    <3>2. CASE SrvResolveNow
      <4>1. PICK known \in SUBSET {i \in DOMAIN svHosts : svHosts[i].form = "name"} :
              svAddrs' = IF \A i \in DOMAIN svHosts :
                              svHosts[i].form \in {"ip4", "ip6"} \/ i \in known
                         THEN svHosts ELSE svAddrs
        BY <3>2, Zenon DEF SrvResolveNow
      <4>2. svHosts' = svHosts /\ \A i \in known : svHosts[i].form = "name"
        BY <3>2, <4>1, Zenon DEF SrvResolveNow
      <4> QED
        BY <4>1, <4>2, Zenon DEF CloudInv, Addresses
    <3> QED
      BY <1>2, <3>1, <3>2, Zenon DEF SrvNext
  <2> QED
    BY <2>1, <2>2, <2>3, Zenon DEF CloudInv
<1>3. CASE UNCHANGED <<ctVars, svVars>>
  BY <1>3, CloudOther, Zenon DEF ctVars, frVars, CloudInv, RulesOnce
<1> QED
  BY <1>1, <1>2, <1>3, Zenon

\* CloudTargets: targets with one key share a server that is made once, list only
\* what it serves, and forwarding rules are those of the first definition,
\* however many targets are made and in whatever order (gce.New, k8s.go
\* initRDSServer, forwarding_rules.go newForwardingRules, srvlist.go resolve).
THEOREM ServersAreShared == CtSpec => []ServersShared
<1>1. CloudInv => ServersShared
  <2> SUFFICES ASSUME CloudInv PROVE ServersShared
    BY Zenon
  <2>1. ASSUME NEW i \in DOMAIN ctTgts, ctTgts[i].def.type # Rules,
               NEW s \in ServedScopes(ctTgts[i].def) \ ServedScopes(FirstOf(KeyOf(i)))
        PROVE  ctTgts[i].names[s] = {}
    <3>1. PICK key : key = KeyOf(i)
      BY Zenon
    <3>2. PICK j \in DOMAIN ctTgts : IsFirst(key, j) /\ ServedScopes(ctTgts[j].def) = ctServers[key]
      BY <2>1, <3>1, Zenon DEF CloudInv, Shared
    <3>3. s \notin ctServers[key]
      BY <3>1, <3>2, FirstIs, Zenon
    <3> QED
      BY <2>1, <3>1, <3>3, Zenon DEF CloudInv, Listed
  <2>2. ASSUME NEW i \in DOMAIN ctTgts, ctTgts[i].def.type = Rules, ~ctTgts[i].nil
        PROVE  frDef = FirstOf(KeyOf(i))
    <3>1. KeyOf(i) = <<Rules>> /\ frOnce = "ready"
      BY <2>2, Zenon DEF KeyOf, ServerKey, Rules, CloudInv, RulesOnce
    <3>2. PICK j \in DOMAIN ctTgts : IsFirst(<<Rules>>, j) /\ ctTgts[j].def = frDef
      BY <3>1, Zenon DEF CloudInv, RulesOnce
    <3> QED
      BY <3>1, <3>2, FirstIs, Zenon
  <2> QED
    BY <2>1, <2>2, Zenon DEF ServersShared, CloudInv, Shared, RulesOnce, Addresses, KeyOf, Rules
<1> QED
  BY <1>1, CloudInitInv, CloudStep, PTL DEF CtSpec

-----------------------------------------------------------------------------
(* Lameducks *)

\* A message that was delivered is in the lister's cache until it is older than
\* any lameduck that a client still asks for.
MessagesKept ==
  /\ tNow \in Nat
  /\ \A m \in pSent : m[2] \in Nat
  /\ \A n \in DOMAIN hGot : hGot[n] \in Nat
  /\ \A n \in DOMAIN pCache : n \in DOMAIN hGot /\ pCache[n] = hGot[n]
  /\ \A n \in DOMAIN hGot \ DOMAIN pCache : tNow - hGot[n] > MsgMaxAge

\* The clients have the lameducks that were fresh at their last refreshes, those of
\* variables without a time.
ClientsKnow ==
  /\ DOMAIN ldPub = DOMAIN hPub
  /\ \A n \in DOMAIN hPub : ldPub[n] = hPub[n] /\ hPub[n] \in Nat
  /\ DOMAIN ldRTC = DOMAIN hRTC
  /\ \A n \in DOMAIN hRTC : ldRTC[n] = 0

\* Only GCE instances have a time.
Timeless ==
  tKind # "gce_instances" =>
    /\ \A n \in DOMAIN tCli : tCli[n] \in {ZeroTime, 0}
    /\ \A n \in DOMAIN tRead : tRead[n] \in {ZeroTime, 0}

TgtInv == MessagesKept /\ ClientsKnow /\ Timeless

\* Include: a list with the lameducks taken out has entries of the list.
LEMMA IncludeFacts ==
  ASSUME NEW list, NEW ldMap, NEW n \in DOMAIN Include(list, ldMap)
  PROVE  /\ n \in DOMAIN list /\ Include(list, ldMap)[n] = list[n]
         /\ includeInResult(n, list, ldMap)
BY Zenon DEF Include, Only

\* lameduckMap: a name that both clients have keeps the time of its message.
LEMMA LameduckMapFacts ==
  /\ DOMAIN lameduckMap = DOMAIN ldRTC \union DOMAIN ldPub
  /\ \A n \in DOMAIN ldPub : lameduckMap[n] = ldPub[n]
  /\ \A n \in DOMAIN ldRTC \ DOMAIN ldPub : lameduckMap[n] = ldRTC[n]
<1>1. LameduckLists[1] = ldRTC /\ LameduckLists[2] = ldPub
  BY DEF LameduckLists
<1> QED
  BY <1>1 DEF lameduckMap

\* The initial states of the targets.
LEMMA TgtInitInv == TgtInit => TgtInv
<1> SUFFICES ASSUME TgtInit PROVE TgtInv
  BY Zenon
<1>1. \A n \in DOMAIN NoNames : FALSE
  BY Zenon DEF NoNames
<1>2. MessagesKept
  BY <1>1, LameduckAssumption DEF TgtInit, InitDefaultLister, MessagesKept
<1>3. ClientsKnow
  BY <1>1, Zenon DEF TgtInit, InitDefaultLister, ClientsKnow
<1>4. Timeless
  BY <1>1, Zenon DEF TgtInit, Timeless
<1> QED
  BY <1>2, <1>3, <1>4, Zenon DEF TgtInv

\* Ages only grow: a message that was dropped stays too old.
LEMMA TgtTickStep == TgtInv /\ TgtTick => TgtInv'
<1> SUFFICES ASSUME TgtInv, TgtTick PROVE TgtInv'
  BY Zenon
<1>1. MessagesKept'
  BY LameduckAssumption DEF TgtInv, TgtTick, MessagesKept
<1>2. ClientsKnow' /\ Timeless'
  BY Zenon DEF TgtInv, TgtTick, ClientsKnow, Timeless
<1> QED
  BY <1>1, <1>2, Zenon DEF TgtInv

\* A message that is delivered, and the cleanup of the lister's cache.
LEMMA MessageStep ==
  TgtInv /\ ((\E m \in pSent : LdReceive(m)) \/ LdCleanup \/ (\E n \in TgtNames : LdPublish(n)))
  => TgtInv'
<1> SUFFICES ASSUME TgtInv,
                    (\E m \in pSent : LdReceive(m)) \/ LdCleanup \/ (\E n \in TgtNames : LdPublish(n))
             PROVE  TgtInv'
  BY Zenon
<1>1. ASSUME NEW m \in pSent, LdReceive(m) PROVE MessagesKept'
  <2>1. /\ DOMAIN hGot' = DOMAIN hGot \union {m[1]} /\ DOMAIN pCache' = DOMAIN pCache \union {m[1]}
        /\ \A n \in DOMAIN hGot' : hGot'[n] = IF n = m[1] THEN m[2] ELSE hGot[n]
        /\ \A n \in DOMAIN pCache' : pCache'[n] = IF n = m[1] THEN m[2] ELSE pCache[n]
    BY <1>1, Zenon DEF LdReceive, With
  <2>2. pSent' \subseteq pSent /\ tNow' = tNow /\ m[2] \in Nat
    BY <1>1, Zenon DEF LdReceive, TgtInv, MessagesKept
  <2> QED
    BY <2>1, <2>2, Zenon DEF TgtInv, MessagesKept
<1>2. ASSUME LdCleanup PROVE MessagesKept'
  <2>1. /\ DOMAIN pCache' = {n \in DOMAIN pCache : tNow - pCache[n] <= MsgMaxAge}
        /\ \A n \in DOMAIN pCache' : pCache'[n] = pCache[n]
        /\ UNCHANGED <<tNow, pSent, hGot>>
    BY <1>2, Zenon DEF LdCleanup, Only
  <2>2. ASSUME NEW n \in DOMAIN hGot, n \notin DOMAIN pCache' PROVE tNow - hGot[n] > MsgMaxAge
    <3>1. CASE n \notin DOMAIN pCache
      BY <3>1, Zenon DEF TgtInv, MessagesKept
    <3>2. CASE n \in DOMAIN pCache
      <4>1. ~(tNow - hGot[n] <= MsgMaxAge) /\ tNow \in Nat /\ hGot[n] \in Nat
        BY <2>1, <2>2, <3>2, Zenon DEF TgtInv, MessagesKept
      <4> QED
        BY <4>1, LameduckAssumption
    <3> QED
      BY <3>1, <3>2, Zenon
  <2>3. \A n \in DOMAIN hGot' \ DOMAIN pCache' : tNow' - hGot'[n] > MsgMaxAge
    BY <2>1, <2>2, Zenon
  <2>4. \A n \in DOMAIN pCache' : n \in DOMAIN hGot' /\ pCache'[n] = hGot'[n]
    BY <2>1, Zenon DEF TgtInv, MessagesKept
  <2> QED
    BY <2>1, <2>3, <2>4, Zenon DEF TgtInv, MessagesKept
<1>3. ASSUME NEW n \in TgtNames, LdPublish(n) PROVE MessagesKept'
  <2>1. <<n, tNow>>[2] = tNow
    BY SMT
  <2> QED
    BY <1>3, <2>1, Zenon DEF LdPublish, TgtInv, MessagesKept
<1>4. UNCHANGED <<hPub, ldPub, hRTC, ldRTC, tKind, tCli, tRead>>
  BY Zenon DEF LdReceive, LdCleanup, LdPublish
<1>5. ClientsKnow' /\ Timeless'
  BY <1>4, Zenon DEF TgtInv, ClientsKnow, Timeless
<1> QED
  BY <1>1, <1>2, <1>3, <1>5, Zenon DEF TgtInv

\* The refreshes of the two lameduck clients.  What is fresh of the messages that
\* were delivered is fresh of the cache.
LEMMA ClientStep == TgtInv /\ (LdRefresh \/ RTCRefresh) => TgtInv'
<1> SUFFICES ASSUME TgtInv, LdRefresh \/ RTCRefresh PROVE TgtInv'
  BY Zenon
<1>1. UNCHANGED <<tNow, pSent, hGot, pCache, tKind, tCli, tRead>>
  BY Zenon DEF LdRefresh, RTCRefresh
<1>2. MessagesKept' /\ Timeless'
  BY <1>1, Zenon DEF TgtInv, MessagesKept, Timeless
<1>3. \A f : /\ DOMAIN Fresh(f) = {n \in DOMAIN f : tNow - f[n] < LdExpiration}
             /\ \A n \in DOMAIN Fresh(f) : Fresh(f)[n] = f[n]
  BY Zenon DEF Fresh, Only
<1>4. CASE LdRefresh
  <2>1. hPub' = Fresh(hGot) /\ ldPub' = updateState(Fresh(pCache), TRUE) /\ UNCHANGED <<hRTC, ldRTC>>
    BY <1>4, Zenon DEF LdRefresh
  <2>2. ASSUME NEW n \in DOMAIN hGot, tNow - hGot[n] < LdExpiration PROVE n \in DOMAIN pCache
    <3>1. tNow \in Nat /\ hGot[n] \in Nat
      BY Zenon DEF TgtInv, MessagesKept
    <3>2. ~(tNow - hGot[n] > MsgMaxAge)
      BY <2>2, <3>1, LameduckAssumption
    <3> QED
      BY <3>2, Zenon DEF TgtInv, MessagesKept
  <2>3. DOMAIN Fresh(hGot) = DOMAIN Fresh(pCache)
    BY <1>3, <2>2, Zenon DEF TgtInv, MessagesKept
  <2>4. \A n \in DOMAIN Fresh(hGot) : Fresh(hGot)[n] = Fresh(pCache)[n] /\ Fresh(hGot)[n] \in Nat
    BY <1>3, <2>3, Zenon DEF TgtInv, MessagesKept
  <2>5. DOMAIN ldPub' = DOMAIN hPub' /\ \A n \in DOMAIN hPub' : ldPub'[n] = hPub'[n] /\ hPub'[n] \in Nat
    BY <2>1, <2>3, <2>4, Zenon DEF updateState
  <2> QED
    BY <1>2, <2>1, <2>5, Zenon DEF TgtInv, ClientsKnow
<1>5. CASE RTCRefresh
  <2>1. hRTC' = Fresh(rCache) /\ ldRTC' = updateState(Fresh(rCache), FALSE) /\ UNCHANGED <<hPub, ldPub>>
    BY <1>5, Zenon DEF RTCRefresh
  <2>2. DOMAIN ldRTC' = DOMAIN hRTC' /\ \A n \in DOMAIN hRTC' : ldRTC'[n] = 0
    BY <2>1, Zenon DEF updateState
  <2> QED
    BY <1>2, <2>1, <2>2, Zenon DEF TgtInv, ClientsKnow
<1> QED
  BY <1>4, <1>5, Zenon

\* The lists of targets: refreshes of their client, and ListEndpoints.
LEMMA ListStepInv == TgtInv /\ (TgtRefresh \/ ListBegin \/ ListEnd) => TgtInv'
<1> SUFFICES ASSUME TgtInv, TgtRefresh \/ ListBegin \/ ListEnd PROVE TgtInv'
  BY Zenon
<1>1. UNCHANGED <<tNow, pSent, hGot, pCache, hPub, ldPub, hRTC, ldRTC, tKind>>
  BY Zenon DEF TgtRefresh, ListBegin, ListEnd
<1>2. MessagesKept' /\ ClientsKnow'
  BY <1>1, Zenon DEF TgtInv, MessagesKept, ClientsKnow
<1>3. Timeless'
  <2>1. CASE TgtRefresh
    BY <2>1, Zenon DEF TgtRefresh, updateState, TgtInv, Timeless
  <2>2. CASE ListBegin
    BY <2>2, IncludeFacts, Zenon DEF ListBegin, TgtInv, Timeless
  <2>3. CASE ListEnd
    BY <2>3, Zenon DEF ListEnd, TgtInv, Timeless
  <2> QED
    BY <2>1, <2>2, <2>3, Zenon
<1> QED
  BY <1>2, <1>3, Zenon DEF TgtInv

\* Every step keeps the invariant.
LEMMA TgtStep == TgtInv /\ [TgtNext]_tgtVars => TgtInv'
<1> SUFFICES ASSUME TgtInv, [TgtNext]_tgtVars PROVE TgtInv'
  BY Zenon
<1>1. ASSUME UNCHANGED <<tNow, pSent, hGot, pCache, hPub, ldPub, hRTC, ldRTC, tKind, tCli, tRead>>
      PROVE  TgtInv'
  BY <1>1, Zenon DEF TgtInv, MessagesKept, ClientsKnow, Timeless
<1>2. CASE InstExpand \/ RTCExpand \/ \E n \in TgtNames : CloudReplaces(n) \/ Lameduck(n) \/ Unlameduck(n)
  BY <1>1, <1>2, Zenon DEF InstExpand, RTCExpand, CloudReplaces, Lameduck, Unlameduck
<1>3. CASE UNCHANGED tgtVars
  BY <1>1, <1>3, Zenon DEF tgtVars
<1> QED
  BY <1>2, <1>3, TgtTickStep, MessageStep, ClientStep, ListStepInv, Zenon DEF TgtNext

\* Targets: what ListEndpoints returns has no target with a lameduck that its
\* client knew, unless the target was seen long enough after it (targets.go
\* includeInResult, pubsub.go, rds/client refreshState).
THEOREM LameducksHold == TgtSpec => LameduckHolds
<1>1. ASSUME TgtInv, ListEnd, NEW n \in tOut'
      PROVE  /\ n \in DOMAIN hPub => tRead[n] > hPub[n] + MinLameduck
             /\ tKind # "gce_instances" => n \notin DOMAIN hPub \union DOMAIN hRTC
  <2>1. n \in DOMAIN tRead /\ includeInResult(n, tRead, lameduckMap)
    BY <1>1, IncludeFacts, Zenon DEF ListEnd
  <2>2. n \in DOMAIN hPub => lameduckMap[n] = hPub[n] /\ n \in DOMAIN lameduckMap
    BY <1>1, LameduckMapFacts, Zenon DEF TgtInv, ClientsKnow
  <2>3. n \in DOMAIN hPub => tRead[n] > hPub[n] + MinLameduck
    BY <2>1, <2>2, Zenon DEF includeInResult, NewerThanLameduck
  <2>4. ASSUME tKind # "gce_instances", n \in DOMAIN hPub \union DOMAIN hRTC PROVE FALSE
    <3>1. n \in DOMAIN lameduckMap /\ lameduckMap[n] \in Nat
      <4>1. CASE n \in DOMAIN hPub
        BY <1>1, <2>2, <4>1, Zenon DEF TgtInv, ClientsKnow
      <4>2. CASE n \notin DOMAIN hPub
        <5>1. n \in DOMAIN ldRTC \ DOMAIN ldPub /\ ldRTC[n] = 0
          BY <1>1, <2>4, <4>2, Zenon DEF TgtInv, ClientsKnow
        <5>2. n \in DOMAIN lameduckMap /\ lameduckMap[n] = 0
          BY <5>1, LameduckMapFacts, Zenon
        <5> QED
          BY <5>2
      <4> QED
        BY <4>1, <4>2, Zenon
    <3>2. tRead[n] # ZeroTime /\ tRead[n] > lameduckMap[n] + MinLameduck
      BY <2>1, <3>1, Zenon DEF includeInResult, NewerThanLameduck
    <3>3. tRead[n] = 0
      BY <1>1, <2>1, <2>4, <3>2, Zenon DEF TgtInv, Timeless
    <3> QED
      BY <3>1, <3>2, <3>3, LameduckAssumption
  <2> QED
    BY <2>3, <2>4, Zenon
<1>2. TgtInv /\ [TgtNext]_tgtVars =>
        [ListEnd => \A n \in tOut' :
           /\ n \in DOMAIN hPub => tRead[n] > hPub[n] + MinLameduck
           /\ tKind # "gce_instances" => n \notin DOMAIN hPub \union DOMAIN hRTC]_tgtVars
  BY <1>1, Zenon
<1> QED
  BY <1>2, TgtInitInv, TgtStep, PTL DEF TgtSpec, LameduckHolds
=============================================================================
