------------------------------- MODULE Listers -------------------------------
(***************************************************************************)
(* The caches of the GCP and Kubernetes resource listers.  A GCE instances *)
(* or forwarding rules lister lists scopes (zones or regions) and then the *)
(* resources of each, one call after the other, any of which may fail; a   *)
(* Kubernetes lister makes one call.  Readers see the cache between the    *)
(* calls.  The resources of a scope are the version of its list.           *)
(***************************************************************************)
EXTENDS Naturals, FiniteSets

CONSTANTS
  Scopes,       \* zones or regions
  Cluster,      \* the one scope of a Kubernetes lister
  MaxVersion,   \* bound: changes of the resources
  MaxExpands    \* bound: passes

ASSUME ScopesAssumption == IsFiniteSet(Scopes)

VARIABLES
  gKind,      \* "instances", "forwarding_rules" or "kubernetes"
  gScopes,    \* the scopes that exist
  gVersion,   \* version of the resources at the API, of all scopes
  gNames,     \* namesPerScope and cachePerScope; for Kubernetes, keys and cache
  gPc,        \* "wait" or "expand"
  gTodo,      \* scopes that the pass still has to list
  gCurrent,   \* currentZones: scopes the pass has come to
  gExpands,   \* passes begun
  gFailed,    \* history: has a call of this pass, or the last one, failed?
  gGot        \* history: scope -> version got by the last call that succeeded

listVars == <<gKind, gScopes, gVersion, gNames, gPc, gTodo, gCurrent, gExpands, gFailed, gGot>>

ListInit ==
  /\ gKind \in {"instances", "forwarding_rules", "kubernetes"}
  /\ gScopes \in SUBSET Scopes
  /\ gVersion = 1
  /\ gNames = [s \in {} |-> 0] /\ gGot = [s \in {} |-> 0]
  /\ gPc = "wait" /\ gTodo = {} /\ gCurrent = {} /\ gExpands = 0 /\ gFailed = FALSE

\* Resources, and scopes, come and go.
CloudChange ==
  /\ gVersion < MaxVersion /\ gVersion' = gVersion + 1
  /\ gScopes' \in SUBSET Scopes
  /\ UNCHANGED <<gKind, gNames, gPc, gTodo, gCurrent, gExpands, gFailed, gGot>>

Put(f, s, v) == [x \in DOMAIN f \union {s} |-> IF x = s THEN v ELSE f[x]]

\* expand, its list of the scopes: an error ends the pass.
ListScopes ==
  /\ gKind # "kubernetes" /\ gPc = "wait" /\ gExpands < MaxExpands
  /\ gExpands' = gExpands + 1
  /\ \/ gFailed' = TRUE /\ UNCHANGED <<gPc, gTodo, gCurrent>>
     \/ gFailed' = FALSE /\ gPc' = "expand" /\ gTodo' = gScopes /\ gCurrent' = {}
  /\ UNCHANGED <<gKind, gScopes, gVersion, gNames, gGot>>

\* expandForZone and expandForRegion, with the update of the caches: an error
\* goes on with the next scope.
ExpandForScope(s) ==
  /\ gPc = "expand" /\ s \in gTodo
  /\ gTodo' = gTodo \ {s} /\ gCurrent' = gCurrent \union {s}
  /\ \/ gFailed' = TRUE /\ UNCHANGED <<gNames, gGot>>
     \/ /\ gNames' = Put(gNames, s, gVersion) /\ gGot' = Put(gGot, s, gVersion)
        /\ UNCHANGED gFailed
  /\ UNCHANGED <<gKind, gScopes, gVersion, gPc, gExpands>>

\* Mutant of KeptScopes: deleted zones stay.
KeptScopes_All == DOMAIN gNames

\* The end of the instances lister's expand: zones that were not listed go, but
\* only when the number of zones is off.
KeptScopes ==
  IF Cardinality(DOMAIN gNames) = Cardinality(gCurrent) THEN DOMAIN gNames
  ELSE DOMAIN gNames \intersect gCurrent

\* The end of expand.  Regions of forwarding rules are never deleted.
ExpandEnd ==
  /\ gPc = "expand" /\ gTodo = {} /\ gPc' = "wait"
  /\ gNames' = IF gKind = "instances" THEN [s \in KeptScopes |-> gNames[s]] ELSE gNames
  /\ UNCHANGED <<gKind, gScopes, gVersion, gTodo, gCurrent, gExpands, gFailed, gGot>>

\* expand of a Kubernetes lister: a failed call, or a response that does not
\* parse, is only logged, and its nothing replaces the cache.
KubernetesExpand ==
  /\ gKind = "kubernetes" /\ gExpands < MaxExpands
  /\ gExpands' = gExpands + 1
  /\ \/ /\ gFailed' = TRUE /\ gNames' = [s \in {} |-> 0] /\ UNCHANGED gGot
     \/ /\ gFailed' = FALSE
        /\ gNames' = Put(gNames, Cluster, gVersion) /\ gGot' = Put(gGot, Cluster, gVersion)
  /\ UNCHANGED <<gKind, gScopes, gVersion, gPc, gTodo, gCurrent>>

ListNext ==
  \/ CloudChange \/ ListScopes \/ ExpandEnd \/ KubernetesExpand
  \/ \E s \in Scopes : ExpandForScope(s)

ListSpec == ListInit /\ [][ListNext]_listVars

-----------------------------------------------------------------------------
(* Properties *)

\* A reader is given for each scope what the last successful call for it got,
\* in the middle of a pass too.
NamesAreGot == \A s \in DOMAIN gNames : gNames[s] = gGot[s]

\* A pass without a failed call leaves the instances lister with the zones that
\* were listed, and nothing of a zone that has gone.  Whatever fails, a zone
\* that the pass was told of keeps its instances.  Of a Kubernetes lister, only
\* a failed call empties the cache.
ScopesKept ==
  [][/\ NamesAreGot'
     /\ gKind = "instances" =>
          /\ gPc' = "wait" /\ ~gFailed' => DOMAIN gNames' = gCurrent'
          /\ gCurrent' \intersect DOMAIN gNames \subseteq DOMAIN gNames'
     /\ gKind = "kubernetes" /\ DOMAIN gGot' # {} => (DOMAIN gNames' = {} <=> gFailed')
    ]_listVars
=============================================================================
