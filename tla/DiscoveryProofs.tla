--------------------------- MODULE DiscoveryProofs --------------------------
(***************************************************************************)
(* Proofs about Discovery, for all sets of files and of calling goroutines *)
(* and all bounds: its types, that the client's view of a file never goes  *)
(* back, and that it lacks only recent loads.                              *)
(***************************************************************************)
EXTENDS Discovery, TLAPS

(* The Unix time of the lister's last load. *)
LoadTime(f) == Unix(lastUpdated[f])

(* A lister's load is after the start and not in the future. *)
ClockInv ==
  /\ TicksPerSec <= now
  /\ \A f \in Files : /\ lastUpdated[f] <= now
                      /\ lastUpdated[f] = 0 \/ TicksPerSec <= lastUpdated[f]

(* Versions only grow on their way from file to cache. *)
VersionInv ==
  \A f \in Files :
    /\ read[f] <= version[f]
    /\ resources[f] <= version[f]
    /\ lpc[f] = "store" => resources[f] <= read[f]
    /\ lastUpdated[f] = 0 => resources[f] = 0
    /\ cache[f] <= resources[f]
    /\ f \notin Listers => cache[f] = 0
    /\ \A c \in Callers : /\ call[c].got[f] <= resources[f]
                          /\ f \notin Listers => call[c].got[f] = 0

(* A time t that is not 0 is that of a load, or of an earlier one. *)
Covered(t) == t > 0 => \E f \in Listers : t <= LoadTime(f)

TimeInv ==
  /\ lastModified <= Unix(now)
  /\ Covered(lastModified)
  /\ \A c \in Callers : /\ call[c].stamp <= Unix(now)
                        /\ Covered(call[c].stamp)
                        /\ call[c].todo \subseteq Listers

(* One lister: the times of answers order them. *)
SingleInv ==
  /\ ims <= lastModified
  /\ \A c \in Callers :
       /\ call[c].since <= lastModified
       /\ call[c].pc # "idle" => /\ call[c].stamp # 0
                                 /\ \A f \in Listers : call[c].stamp <= LoadTime(f)
       /\ call[c].pc = "list" => call[c].todo = Listers
       /\ call[c].pc = "reply" =>
            \/ call[c].stamp <= lastModified
            \/ /\ \A f \in Files : call[c].got[f] >= cache[f]
               /\ \A d \in Callers :
                    call[d].pc = "reply" /\ call[d].stamp > call[c].stamp =>
                      \A f \in Files : call[d].got[f] >= call[c].got[f]

(* What a call has listed of f is at least what the cache has, and all     *)
(* that was loaded before the time of the answer.                          *)
Listed(c, f) ==
  /\ call[c].got[f] >= cache[f]
  /\ LoadTime(f) < call[c].stamp => call[c].got[f] = resources[f]

(* Several listers, calls that do not overlap. *)
AloneInv ==
  /\ \A f \in Listers : LoadTime(f) < lastModified => cache[f] = resources[f]
  /\ \A c \in Callers : call[c].pc # "idle" =>
       /\ \A d \in Callers : call[d].pc # "idle" => d = c
       /\ call[c].since = lastModified
       /\ ims = lastModified
       /\ call[c].pc = "stat" =>
            \/ call[c].stamp >= lastModified
            \/ \E f \in call[c].todo : lastModified <= LoadTime(f)
       /\ call[c].pc = "list" => \A f \in Listers \ call[c].todo : Listed(c, f)
       /\ call[c].pc = "reply" =>
            \/ call[c].stamp # 0 /\ call[c].stamp <= lastModified
            \/ \A f \in Listers : Listed(c, f)

DiscoveryInv ==
  /\ TypeOK
  /\ ClockInv
  /\ VersionInv
  /\ TimeInv
  /\ Single => SingleInv
  /\ ~Single /\ ~onDemand => AloneInv

-----------------------------------------------------------------------------
(* Integer division is monotone: later times have later seconds. *)
LEMMA DivMonotone ==
  ASSUME NEW a \in Nat, NEW b \in Nat, NEW n \in Nat \ {0}, a <= b
  PROVE  /\ a \div n \in Nat
         /\ b \div n \in Nat
         /\ a \div n <= b \div n
         /\ n <= a => 1 <= a \div n
<1> DEFINE p == a \div n
           q == b \div n
<1>1. p \in Nat /\ q \in Nat
  BY SMT
<1>2. /\ a = n * p + (a % n) /\ (a % n) \in 0 .. n - 1
      /\ b = n * q + (b % n) /\ (b % n) \in 0 .. n - 1
  BY SMT
<1> HIDE DEF p, q
<1>3. p <= q
  <2> SUFFICES ASSUME q + 1 <= p PROVE FALSE
    BY <1>1
  <2>1. n * (q + 1) <= n * p
    BY <1>1, SMT
  <2>2. n * (q + 1) = n * q + n
    BY <1>1, SMT
  <2> QED
    BY <2>1, <2>2, <1>1, <1>2, SMT
<1>4. n <= a => 1 <= p
  <2> SUFFICES ASSUME n <= a, p = 0 PROVE FALSE
    BY <1>1
  <2> QED
    BY <1>1, <1>2, SMT
<1> QED
  BY <1>1, <1>3, <1>4, Zenon DEF p, q
(* Seconds of the clock and of loads. *)
LEMMA UnixFacts ==
  ASSUME TypeOK, ClockInv
  PROVE  /\ Unix(now) \in Nat \ {0}
         /\ \A f \in Files : /\ LoadTime(f) \in Nat \cup {-1}
                             /\ LoadTime(f) # 0
                             /\ LoadTime(f) <= Unix(now)
                             /\ lastUpdated[f] # 0 => LoadTime(f) # -1
<1>1. Unix(now) = now \div TicksPerSec /\ now \div TicksPerSec \in Nat \ {0}
  <2>1. now \in Nat /\ now # 0 /\ TicksPerSec <= now /\ TicksPerSec \in Nat \ {0}
    BY DiscoveryAssumption, Zenon DEF TypeOK, ClockInv
  <2>2. now \div TicksPerSec \in Nat /\ 1 <= now \div TicksPerSec
    BY <2>1, DivMonotone
  <2> QED
    BY <2>1, <2>2 DEF Unix
<1>2. ASSUME NEW f \in Files
      PROVE  /\ LoadTime(f) \in Nat \cup {-1}
             /\ LoadTime(f) # 0
             /\ LoadTime(f) <= Unix(now)
             /\ lastUpdated[f] # 0 => LoadTime(f) # -1
  <2>1. CASE lastUpdated[f] = 0
    BY <1>1, <2>1 DEF LoadTime, Unix
  <2>2. CASE lastUpdated[f] # 0
    <3>1. /\ lastUpdated[f] \in Nat /\ now \in Nat
          /\ lastUpdated[f] <= now /\ TicksPerSec <= lastUpdated[f]
      BY <2>2, Zenon DEF TypeOK, ClockInv
    <3>2. LoadTime(f) = lastUpdated[f] \div TicksPerSec
      BY <2>2, Zenon DEF LoadTime, Unix
    <3>3. /\ lastUpdated[f] \div TicksPerSec \in Nat
          /\ 1 <= lastUpdated[f] \div TicksPerSec
          /\ lastUpdated[f] \div TicksPerSec <= now \div TicksPerSec
      BY <3>1, DivMonotone, DiscoveryAssumption, Zenon
    <3> QED
      BY <1>1, <3>2, <3>3
  <2> QED
    BY <2>1, <2>2, Zenon
<1> QED
  BY <1>1, <1>2, Zenon

-----------------------------------------------------------------------------
(* Types hold initially. *)
LEMMA TypeInit == Init => TypeOK
<1> SUFFICES ASSUME Init PROVE TypeOK
  BY Zenon
<1>1. NoFiles \in [Files -> Versions] /\ NoFiles \in [Files -> Nat]
  BY DiscoveryAssumption DEF NoFiles, Versions
<1>2. NoCall \in Calls
  BY <1>1, Zenon DEF NoCall, Calls
<1>3. call \in [Callers -> Calls]
  BY <1>2, Zenon DEF Init
<1>4. version \in [Files -> Versions] /\ modTime \in [Files -> Nat]
  BY DiscoveryAssumption DEF Init, Versions
<1>5. state \in [Files -> {"ok", "garbage", "missing"}]
  BY Zenon DEF Init
<1>6. lpc \in [Files -> {"idle", "read", "store"}]
  BY Zenon DEF Init
<1> QED
  BY <1>1, <1>3, <1>4, <1>5, <1>6, DiscoveryAssumption, Zenon DEF Init, TypeOK

(* The fields of a call after a step of the provider. *)
LEMMA StampedEffect ==
  ASSUME TypeOK, NEW c \in Callers, NEW f \in Files
  PROVE  /\ Stamped(c, f) \in Calls
         /\ Stamped(c, f).pc = call[c].pc
         /\ Stamped(c, f).since = call[c].since
         /\ Stamped(c, f).got = call[c].got
         /\ Stamped(c, f).todo = call[c].todo \ {f}
         /\ Stamped(c, f).stamp =
              IF call[c].stamp < LoadTime(f) THEN LoadTime(f) ELSE call[c].stamp
<1>1. LoadTime(f) \in Nat \cup {-1}
  BY DivMonotone, DiscoveryAssumption DEF LoadTime, Unix, TypeOK
<1>2. call[c] \in Calls
  BY Zenon DEF TypeOK
<1>3. Stamped(c, f) =
        [call[c] EXCEPT !.todo = @ \ {f},
                        !.stamp = IF @ < LoadTime(f) THEN LoadTime(f) ELSE @]
  BY Zenon DEF Stamped, LoadTime
<1> QED
  BY <1>1, <1>2, <1>3, ZenonT(30) DEF Calls

(* The fields of a call after the resources of f were read. *)
LEMMA ListingEffect ==
  ASSUME TypeOK, NEW c \in Callers, NEW f \in Files
  PROVE  /\ Listing(c, f) \in Calls
         /\ Listing(c, f).pc = IF call[c].todo = {f} THEN "reply" ELSE "list"
         /\ Listing(c, f).since = call[c].since
         /\ Listing(c, f).got = [call[c].got EXCEPT ![f] = resources[f]]
         /\ Listing(c, f).todo = call[c].todo \ {f}
         /\ Listing(c, f).stamp = IF Single THEN LoadTime(f) ELSE call[c].stamp
<1>1. LoadTime(f) \in Nat \cup {-1}
  BY DivMonotone, DiscoveryAssumption DEF LoadTime, Unix, TypeOK
<1>2. call[c] \in Calls /\ resources[f] \in Versions
  BY Zenon DEF TypeOK
<1>3. [call[c].got EXCEPT ![f] = resources[f]] \in [Files -> Versions]
  BY <1>2, Zenon DEF Calls
<1> DEFINE got == [call[c].got EXCEPT ![f] = resources[f]]
           time == IF Single THEN LoadTime(f) ELSE call[c].stamp
           rest == call[c].todo \ {f}
           next == IF call[c].todo = {f} THEN "reply" ELSE "list"
<1>4. Listing(c, f) =
        [call[c] EXCEPT !.got = got, !.stamp = time, !.todo = rest, !.pc = next]
  BY Zenon DEF Listing, LoadTime
<1>5. /\ time \in Nat \cup {-1}
      /\ next \in {"reply", "list"}
      /\ got \in [Files -> Versions]
      /\ rest \in SUBSET Files
  BY <1>1, <1>2, <1>3, Zenon DEF Calls
<1> HIDE DEF got, time, rest, next
<1>6. Listing(c, f) = [pc |-> next, since |-> call[c].since, stamp |-> time,
                       todo |-> rest, got |-> got]
  BY <1>2, <1>4, ZenonT(30) DEF Calls
<1>7. call[c].since \in Nat
  BY <1>2, Zenon DEF Calls
<1>8. Listing(c, f) \in Calls
  BY <1>5, <1>6, <1>7 DEF Calls
<1> QED
  BY <1>6, <1>8 DEF got, time, rest, next

(* Every step preserves the types. *)
LEMMA TypeStep == TypeOK /\ [Next]_vars => TypeOK'
<1> SUFFICES ASSUME TypeOK, [Next]_vars PROVE TypeOK'
  BY Zenon
<1> USE DEF TypeOK, world, lister, client, config
<1>0. NoCall \in Calls /\ Listers \subseteq Files
  BY DiscoveryAssumption DEF NoCall, Calls, NoFiles, Versions, Listers
<1>1. CASE ClockTick
  BY <1>1 DEF ClockTick
<1>2. ASSUME NEW f \in Files, Edit(f) PROVE TypeOK'
  <2>1. version' \in [Files -> Versions]
    BY <1>2, DiscoveryAssumption DEF Edit, Versions
  <2>2. state' \in [Files -> {"ok", "garbage", "missing"}]
    BY <1>2, Zenon DEF Edit
  <2>3. modTime' \in [Files -> Nat]
    BY <1>2, Zenon DEF Edit
  <2> QED
    BY <1>2, <2>1, <2>2, <2>3, Zenon DEF Edit
<1>3. ASSUME NEW f \in Files, RefreshStart(f) PROVE TypeOK'
  BY <1>3, Zenon DEF RefreshStart
<1>4. ASSUME NEW f \in Files, ReadFile(f) PROVE TypeOK'
  BY <1>4 DEF ReadFile
<1>5. ASSUME NEW f \in Files, Store(f) PROVE TypeOK'
  BY <1>5, Zenon DEF Store
<1>6. ASSUME NEW c \in Callers, Request(c) PROVE TypeOK'
  <2>1. NewCall \in Calls
    BY <1>0, ZenonT(30) DEF NewCall, Calls
  <2> QED
    BY <1>6, <2>1, Zenon DEF Request
<1>7. ASSUME NEW c \in Callers, NEW f \in Files, LastModified(c, f) PROVE TypeOK'
  <2>1. Stamped(c, f) \in Calls
    BY StampedEffect, Zenon
  <2> QED
    BY <1>7, <2>1, Zenon DEF LastModified
<1>8. ASSUME NEW c \in Callers, CacheCheck(c) PROVE TypeOK'
  <2>1. call[c] \in Calls
    BY Zenon
  <2>2. /\ [call[c] EXCEPT !.pc = "reply"] \in Calls
        /\ [call[c] EXCEPT !.pc = "list", !.todo = Listers] \in Calls
    BY <1>0, <2>1, ZenonT(30) DEF Calls
  <2> QED
    BY <1>8, <2>2, Zenon DEF CacheCheck
<1>9. ASSUME NEW c \in Callers, NEW f \in Files, ListResources(c, f) PROVE TypeOK'
  <2>1. Listing(c, f) \in Calls
    BY ListingEffect, ZenonT(30)
  <2> QED
    BY <1>9, <2>1, Zenon DEF ListResources
<1>10. ASSUME NEW c \in Callers, updateState(c) PROVE TypeOK'
  <2>1. call[c] \in Calls /\ call' \in [Callers -> Calls]
    BY <1>0, <1>10, Zenon DEF updateState
  <2> QED
    BY <1>10, <2>1 DEF updateState, Calls
<1>11. ASSUME NEW c \in Callers, CallFails(c) PROVE TypeOK'
  BY <1>0, <1>11, Zenon DEF CallFails
<1>12. CASE UNCHANGED vars
  BY <1>12, Zenon DEF vars
<1> QED
  BY <1>1, <1>2, <1>3, <1>4, <1>5, <1>6, <1>7, <1>8, <1>9, <1>10, <1>11, <1>12, Zenon
     DEF Next, Refresh, Answer

-----------------------------------------------------------------------------
(* The inductive invariant holds initially. *)
LEMMA DiscoveryInit == Init => DiscoveryInv
<1> SUFFICES ASSUME Init PROVE DiscoveryInv
  BY Zenon
<1>1. TypeOK
  BY TypeInit, Zenon
<1>2. ClockInv
  BY DiscoveryAssumption DEF Init, ClockInv, NoFiles
<1>3. \A c \in Callers : call[c] = NoCall
  BY Zenon DEF Init
<1>4. \A f \in Files : NoFiles[f] = 0
  BY Zenon DEF NoFiles
<1>5. VersionInv
  BY <1>1, <1>3, <1>4 DEF Init, VersionInv, NoCall
<1>6. TimeInv
  BY <1>1, <1>2, <1>3, UnixFacts DEF Init, TimeInv, Covered, NoCall
<1>7. SingleInv
  BY <1>3 DEF Init, SingleInv, NoCall
<1>8. AloneInv
  BY <1>3, <1>4, Zenon DEF Init, AloneInv, NoCall, Listers
<1> QED
  BY <1>1, <1>2, <1>5, <1>6, <1>7, <1>8, Zenon DEF DiscoveryInv

(* A step that leaves listers' resources, calls and client alone. *)
LEMMA QuietStep ==
  ASSUME DiscoveryInv, TypeOK', now <= now',
         UNCHANGED <<resources, lastUpdated, config, ims, call, client>>,
         \A f \in Files : /\ read'[f] <= version'[f]
                          /\ resources[f] <= version'[f]
                          /\ lpc'[f] = "store" => resources[f] <= read'[f]
  PROVE  DiscoveryInv'
<1> USE DEF config, client
<1>0. TypeOK /\ ClockInv /\ VersionInv /\ TimeInv
  BY Zenon DEF DiscoveryInv
<1>1. Listers' = Listers /\ (Single' <=> Single) /\ onDemand' = onDemand
  BY Zenon DEF Listers, Single
<1>2. \A f \in Files : LoadTime(f)' = LoadTime(f)
  BY Zenon DEF LoadTime, Unix
<1>3. ClockInv'
  BY <1>0, DiscoveryAssumption DEF ClockInv, TypeOK
<1>4. VersionInv'
  <2>1. UNCHANGED <<resources, lastUpdated, call, cache>>
    BY Zenon
  <2>2. ASSUME NEW f \in Files
        PROVE  /\ lastUpdated[f] = 0 => resources[f] = 0
               /\ cache[f] <= resources[f]
               /\ f \notin Listers => cache[f] = 0
               /\ \A c \in Callers : /\ call[c].got[f] <= resources[f]
                                     /\ f \notin Listers => call[c].got[f] = 0
    BY <1>0, Zenon DEF VersionInv
  <2> QED
    BY <1>1, <2>1, <2>2, Zenon DEF VersionInv
<1>5. Unix(now) <= Unix(now)' /\ Unix(now) \in Nat /\ Unix(now)' \in Nat
  BY <1>0, DivMonotone, DiscoveryAssumption, ZenonT(30) DEF Unix, TypeOK, ClockInv
<1>6. TimeInv'
  <2>1. lastModified \in Nat /\ \A c \in Callers : call[c].stamp \in Int
    BY <1>0 DEF TypeOK, Calls
  <2>2. Listers \subseteq Files
    BY <1>0, Zenon DEF TypeOK, Listers
  <2> QED
    BY <1>0, <1>1, <1>2, <1>5, <2>1, <2>2 DEF TimeInv, Covered
<1>7. ASSUME Single PROVE SingleInv'
  <2>1. SingleInv /\ UNCHANGED <<call, cache, lastModified, ims>>
    BY <1>7, Zenon DEF DiscoveryInv
  <2>2. \A f \in Listers : LoadTime(f)' = LoadTime(f)
    BY <1>0, <1>2, Zenon DEF TypeOK, Listers
  <2> QED
    BY <1>1, <2>1, <2>2, Zenon DEF SingleInv
<1>8. ASSUME ~Single, ~onDemand PROVE AloneInv'
  <2>1. Listers \subseteq Files /\ \A c \in Callers : call[c].todo \subseteq Files
    BY <1>0, Zenon DEF TypeOK, Listers, Calls
  <2>2. \A c \in Callers, f \in Files : Listed(c, f)' <=> Listed(c, f)
    BY <1>2, Zenon DEF Listed
  <2> QED
    BY <1>0, <1>1, <1>2, <1>8, <2>1, <2>2 DEF DiscoveryInv, AloneInv
<1> QED
  BY <1>1, <1>3, <1>4, <1>6, <1>7, <1>8 DEF DiscoveryInv

(* A lister loads: its time becomes the latest and its version grows. *)
LEMMA StoreStep ==
  ASSUME DiscoveryInv, TypeOK', NEW f \in Files, Store(f)
  PROVE  DiscoveryInv'
<1> USE DEF config, client, world
<1>0. TypeOK /\ ClockInv /\ VersionInv /\ TimeInv
  BY Zenon DEF DiscoveryInv
<1>1. Listers' = Listers /\ (Single' <=> Single) /\ onDemand' = onDemand
  BY Zenon DEF Store, Listers, Single
<1>2. /\ LoadTime(f)' = Unix(now)
      /\ \A g \in Files \ {f} : LoadTime(g)' = LoadTime(g)
  BY <1>0, Zenon DEF Store, LoadTime, Unix, TypeOK
<1>3. ClockInv'
  BY <1>0 DEF ClockInv, TypeOK, Store
<1>4. /\ resources'[f] = read[f]
      /\ \A g \in Files : /\ resources[g] \in Nat /\ resources'[g] \in Nat
                          /\ resources[g] <= resources'[g]
                          /\ g # f => resources'[g] = resources[g]
  BY <1>0 DEF Store, VersionInv, TypeOK, Versions
<1>5. VersionInv'
  <2>1. \A g \in Files : cache[g] \in Nat /\ \A c \in Callers : call[c].got[g] \in Nat
    BY <1>0 DEF TypeOK, Calls, Versions
  <2>2. now # 0 /\ lastUpdated'[f] = now /\ \A g \in Files \ {f} : lastUpdated'[g] = lastUpdated[g]
    BY <1>0, Zenon DEF Store, TypeOK
  <2>3. lpc'[f] = "idle" /\ \A g \in Files \ {f} : lpc'[g] = lpc[g]
    BY <1>0, Zenon DEF Store, TypeOK
  <2> QED
    BY <1>0, <1>1, <1>4, <2>1, <2>2, <2>3 DEF VersionInv, Store
<1>6. \A g \in Files : /\ LoadTime(g) \in Int
                       /\ LoadTime(g)' \in Int
                       /\ LoadTime(g) <= LoadTime(g)'
                       /\ Unix(now) \in Int
  BY <1>0, <1>2, UnixFacts
<1>7. lastModified \in Nat /\ \A c \in Callers : call[c].stamp \in Int
  BY <1>0 DEF TypeOK, Calls
<1>8. Listers \subseteq Files /\ \A c \in Callers : call[c].todo \subseteq Files
  BY <1>0, Zenon DEF TypeOK, Listers, Calls
<1>9. TimeInv'
  <2>1. now' = now /\ lastModified' = lastModified /\ call' = call
    BY Zenon DEF Store
  <2>2. Unix(now)' = Unix(now)
    BY <2>1, Zenon DEF Unix
  <2>3. \A t \in Int : (t > 0 => \E g \in Listers : t <= LoadTime(g))
                      => (t > 0 => \E g \in Listers : t <= LoadTime(g)')
    BY <1>6, <1>8
  <2> QED
    BY <1>0, <1>1, <1>7, <2>1, <2>2, <2>3 DEF TimeInv, Covered
<1>10. ASSUME Single PROVE SingleInv'
  <2>1. SingleInv /\ UNCHANGED <<call, cache, lastModified, ims>>
    BY <1>10, Zenon DEF DiscoveryInv, Store
  <2>2. \A c \in Callers, g \in Listers : call[c].stamp <= LoadTime(g) => call[c].stamp <= LoadTime(g)'
    BY <1>6, <1>7, <1>8
  <2> QED
    BY <1>1, <2>1, <2>2, Zenon DEF SingleInv
<1>11. ASSUME ~Single, ~onDemand PROVE AloneInv'
  <2>1. AloneInv /\ UNCHANGED <<call, cache, lastModified, ims>>
    BY <1>11, Zenon DEF DiscoveryInv, Store
  <2>2. \A g \in Listers : LoadTime(g)' < lastModified => cache[g] = resources'[g]
    BY <1>0, <1>2, <1>4, <1>6, <1>7, <1>8, <2>1 DEF AloneInv, TimeInv
  <2>3. \A c \in Callers, g \in Listers : Listed(c, g) => Listed(c, g)'
    BY <1>0, <1>2, <1>4, <1>6, <1>7, <1>8, <2>1 DEF Listed, TimeInv
  <2>4. \A c \in Callers : \A g \in call[c].todo :
          lastModified <= LoadTime(g) => lastModified <= LoadTime(g)'
    BY <1>6, <1>7, <1>8
  <2> QED
    BY <1>1, <2>1, <2>2, <2>3, <2>4, Zenon DEF AloneInv
<1> QED
  BY <1>1, <1>3, <1>5, <1>9, <1>10, <1>11, Zenon DEF DiscoveryInv

(* What a step of a call leaves alone. *)
LEMMA CallFrame ==
  ASSUME DiscoveryInv, UNCHANGED <<now, world, lister, config>>
  PROVE  /\ TypeOK /\ ClockInv /\ VersionInv /\ TimeInv /\ ClockInv'
         /\ Listers' = Listers /\ Listers \subseteq Files
         /\ Single' <=> Single
         /\ onDemand' = onDemand
         /\ UNCHANGED <<version, lpc, read, resources, lastUpdated>>
         /\ Unix(now)' = Unix(now)
         /\ Unix(now) \in Nat \ {0}
         /\ \A f \in Files : /\ LoadTime(f)' = LoadTime(f)
                             /\ LoadTime(f) \in Nat \cup {-1}
                             /\ LoadTime(f) # 0
                             /\ LoadTime(f) <= Unix(now)
<1> USE DEF config, world, lister
<1>1. TypeOK /\ ClockInv /\ VersionInv /\ TimeInv
  BY Zenon DEF DiscoveryInv
<1>2. ClockInv'
  BY <1>1, Zenon DEF ClockInv
<1>3. Listers' = Listers /\ Listers \subseteq Files /\ (Single' <=> Single)
  BY <1>1, Zenon DEF Listers, Single, TypeOK
<1>4. Unix(now)' = Unix(now) /\ \A f \in Files : LoadTime(f)' = LoadTime(f)
  BY Zenon DEF LoadTime, Unix
<1> QED
  BY <1>1, <1>2, <1>3, <1>4, UnixFacts, Zenon

(* Calls and the numbers in them. *)
LEMMA CallTypes ==
  ASSUME TypeOK
  PROVE  /\ lastModified \in Nat /\ ims \in Nat
         /\ \A f \in Files : cache[f] \in Nat /\ resources[f] \in Nat
         /\ \A c \in Callers : /\ call[c].since \in Nat
                               /\ call[c].stamp \in Nat \cup {-1}
                               /\ \A f \in Files : call[c].got[f] \in Nat
BY DEF TypeOK, Calls, Versions

(* The fields of a call that is not running. *)
LEMMA NoCallFields ==
  /\ NoCall.pc = "idle" /\ NoCall.since = 0 /\ NoCall.stamp = 0 /\ NoCall.todo = {}
  /\ \A f \in Files : NoCall.got[f] = 0
BY Zenon DEF NoCall, NoFiles

-----------------------------------------------------------------------------
(* The provider answers a call. *)

(* The time of one lister is read. *)
LEMMA StampStep ==
  ASSUME DiscoveryInv, TypeOK', NEW c \in Callers, NEW f \in Files, LastModified(c, f)
  PROVE  DiscoveryInv'
<1> USE DEF client
<1>0. UNCHANGED <<now, world, lister, config>> /\ TypeOK
  BY Zenon DEF LastModified, DiscoveryInv
<1>1. /\ call'[c] = Stamped(c, f)
      /\ \A d \in Callers \ {c} : call'[d] = call[d]
      /\ UNCHANGED <<cache, lastModified, ims>>
      /\ call[c].pc = "stat" /\ f \in call[c].todo
  BY Zenon DEF DiscoveryInv, TypeOK, LastModified
<1>2. /\ call'[c].pc = "stat" /\ call'[c].since = call[c].since
      /\ call'[c].got = call[c].got /\ call'[c].todo = call[c].todo \ {f}
      /\ call'[c].stamp \in {call[c].stamp, LoadTime(f)}
      /\ call'[c].stamp >= call[c].stamp /\ call'[c].stamp >= LoadTime(f)
  BY <1>0, <1>1, StampedEffect, CallFrame, CallTypes
<1>3. VersionInv'
  BY <1>0, <1>1, <1>2, CallFrame, CallTypes DEF VersionInv
<1>4. f \in Listers
  BY <1>0, <1>1, CallFrame, Zenon DEF TimeInv
<1>5. TimeInv'
  <2>1. Covered(lastModified)'
    BY <1>0, <1>1, CallFrame, Zenon DEF TimeInv, Covered
  <2>2. ASSUME NEW d \in Callers
        PROVE  (/\ call[d].stamp <= Unix(now)
                /\ Covered(call[d].stamp)
                /\ call[d].todo \subseteq Listers)'
    <3>1. CASE d = c
      <4>1. CASE call'[c].stamp = call[c].stamp
        BY <1>0, <1>2, <3>1, <4>1, CallFrame, Zenon DEF TimeInv, Covered
      <4>2. CASE call'[c].stamp = LoadTime(f)
        BY <1>0, <1>2, <1>4, <3>1, <4>2, CallFrame, Zenon DEF TimeInv, Covered
      <4> QED
        BY <1>2, <4>1, <4>2, Zenon
    <3>2. CASE d # c
      BY <1>0, <1>1, <3>2, CallFrame, Zenon DEF TimeInv, Covered
    <3> QED
      BY <3>1, <3>2, Zenon
  <2> QED
    BY <1>0, <1>1, <2>1, <2>2, CallFrame, Zenon DEF TimeInv
<1>6. ASSUME Single PROVE SingleInv'
  <2>1. SingleInv
    BY <1>6, Zenon DEF DiscoveryInv
  <2>2. Listers = {f}
    BY <1>4, <1>6, Zenon DEF Single
  <2>3. call'[c].stamp # 0 /\ \A g \in Listers : call'[c].stamp <= LoadTime(g)'
    BY <1>0, <1>1, <1>2, <2>1, <2>2, CallFrame, Zenon DEF SingleInv
  <2>4. ims' <= lastModified' /\ \A b \in Callers : call'[b].since <= lastModified'
    BY <1>1, <1>2, <2>1, Zenon DEF SingleInv
  <2>5. Listers' = Listers /\ \A g \in Listers : LoadTime(g)' = LoadTime(g)
    BY <1>0, CallFrame, Zenon
  <2>6. ASSUME NEW b \in Callers
        PROVE  /\ call'[b].pc # "idle" =>
                    call'[b].stamp # 0 /\ \A g \in Listers' : call'[b].stamp <= LoadTime(g)'
               /\ call'[b].pc = "list" => call'[b].todo = Listers'
    <3>1. CASE b = c
      BY <1>2, <2>3, <2>5, <3>1, Zenon
    <3>2. CASE b # c
      BY <1>1, <2>1, <2>5, <3>2, Zenon DEF SingleInv
    <3> QED
      BY <3>1, <3>2, Zenon
  <2>7. \A b \in Callers : call'[b].pc = "reply" => call'[b] = call[b] /\ call[b].pc = "reply"
    BY <1>1, <1>2, Zenon
  <2>8. ASSUME NEW b \in Callers, call'[b].pc = "reply", ~(call'[b].stamp <= lastModified')
        PROVE  /\ \A g \in Files : call'[b].got[g] >= cache'[g]
               /\ \A d \in Callers :
                    call'[d].pc = "reply" /\ call'[d].stamp > call'[b].stamp =>
                      \A g \in Files : call'[d].got[g] >= call'[b].got[g]
    BY <1>1, <2>1, <2>7, <2>8, Zenon DEF SingleInv
  <2> QED
    BY <2>4, <2>6, <2>8, Zenon DEF SingleInv
<1>7. ASSUME ~Single, ~onDemand PROVE AloneInv'
  <2>1. AloneInv
    BY <1>7, Zenon DEF DiscoveryInv
  <2>2. \A d \in Callers : call'[d].pc # "idle" => d = c
    BY <1>1, <2>1, Zenon DEF AloneInv
  <2>3. \/ call'[c].stamp >= lastModified
        \/ \E g \in call'[c].todo : lastModified <= LoadTime(g)'
    <3>1. CASE call[c].stamp >= lastModified
      BY <1>0, <1>2, <3>1, CallFrame, CallTypes
    <3>2. CASE \E g \in call[c].todo : lastModified <= LoadTime(g)
      <4>1. PICK g \in call[c].todo : lastModified <= LoadTime(g)
        BY <3>2, Zenon
      <4>2. g \in Files
        BY <1>0, CallFrame, Zenon DEF TimeInv
      <4> QED
        BY <1>0, <1>2, <4>1, <4>2, CallFrame, CallTypes
    <3> QED
      BY <1>1, <2>1, <3>1, <3>2, Zenon DEF AloneInv
  <2> QED
    BY <1>0, <1>1, <1>2, <2>1, <2>2, <2>3, CallFrame DEF AloneInv
<1> QED
  BY <1>0, <1>3, <1>5, <1>6, <1>7, CallFrame, Zenon DEF DiscoveryInv

(* The time of the answer is compared with the one of the request. *)
LEMMA CheckStep ==
  ASSUME DiscoveryInv, TypeOK', NEW c \in Callers, CacheCheck(c)
  PROVE  DiscoveryInv'
<1> USE DEF client
<1>0. UNCHANGED <<now, world, lister, config>> /\ TypeOK
  BY Zenon DEF CacheCheck, DiscoveryInv
<1>1. /\ \A d \in Callers \ {c} : call'[d] = call[d]
      /\ UNCHANGED <<cache, lastModified, ims>>
      /\ call[c].pc = "stat" /\ call[c].todo = {}
  BY Zenon DEF DiscoveryInv, TypeOK, CacheCheck
<1>2. PICK since \in {call[c].since, ims} :
        call'[c] = IF since # 0 /\ call[c].stamp <= since
                   THEN [call[c] EXCEPT !.pc = "reply"]
                   ELSE [call[c] EXCEPT !.pc = "list", !.todo = Listers]
  BY Zenon DEF DiscoveryInv, TypeOK, CacheCheck
<1>3. /\ call'[c].since = call[c].since
      /\ call'[c].got = call[c].got
      /\ call'[c].stamp = call[c].stamp
      /\ \/ /\ call'[c].pc = "reply" /\ call'[c].todo = {}
            /\ since # 0 /\ call[c].stamp <= since
         \/ call'[c].pc = "list" /\ call'[c].todo = Listers
  <2>1. call[c] \in Calls
    BY <1>0, Zenon DEF TypeOK
  <2> QED
    BY <1>1, <1>2, <2>1, Zenon DEF Calls
<1>4. VersionInv'
  BY <1>0, <1>1, <1>3, CallFrame, CallTypes DEF VersionInv
<1>5. TimeInv'
  <2>1. Covered(lastModified)'
    BY <1>0, <1>1, CallFrame, Zenon DEF TimeInv, Covered
  <2>2. ASSUME NEW d \in Callers
        PROVE  (/\ call[d].stamp <= Unix(now)
                /\ Covered(call[d].stamp)
                /\ call[d].todo \subseteq Listers)'
    <3>1. CASE d = c
      BY <1>0, <1>3, <3>1, CallFrame, Zenon DEF TimeInv, Covered
    <3>2. CASE d # c
      BY <1>0, <1>1, <3>2, CallFrame, Zenon DEF TimeInv, Covered
    <3> QED
      BY <3>1, <3>2, Zenon
  <2> QED
    BY <1>0, <1>1, <2>1, <2>2, CallFrame, Zenon DEF TimeInv
<1>6. ASSUME Single PROVE SingleInv'
  <2>1. SingleInv
    BY <1>6, Zenon DEF DiscoveryInv
  <2>2. call'[c].pc = "reply" => call'[c].stamp <= lastModified
    BY <1>0, <1>2, <1>3, <2>1, CallTypes DEF SingleInv
  <2>3. call'[c].stamp # 0 /\ \A g \in Listers : call'[c].stamp <= LoadTime(g)'
    BY <1>0, <1>1, <1>3, <2>1, CallFrame, Zenon DEF SingleInv
  <2>4. ASSUME NEW b \in Callers, b # c, call'[b].pc = "reply",
               ~(call'[b].stamp <= lastModified)
        PROVE  /\ \A f \in Files : call'[b].got[f] >= cache[f]
               /\ \A d \in Callers :
                    call'[d].pc = "reply" /\ call'[d].stamp > call'[b].stamp =>
                      \A f \in Files : call'[d].got[f] >= call'[b].got[f]
    <3>1. call'[b] = call[b]
      BY <1>1, <2>4, Zenon
    <3>2. call'[c].pc = "reply" => ~(call'[c].stamp > call'[b].stamp)
      BY <1>0, <1>3, <2>2, <2>4, <3>1, CallTypes
    <3> QED
      BY <1>1, <2>1, <2>4, <3>1, <3>2 DEF SingleInv
  <2>5. /\ ims' <= lastModified'
        /\ \A b \in Callers : call'[b].since <= lastModified'
        /\ \A b \in Callers : call'[b].pc # "idle" =>
             call'[b].stamp # 0 /\ \A g \in Listers' : call'[b].stamp <= LoadTime(g)'
        /\ \A b \in Callers : call'[b].pc = "list" => call'[b].todo = Listers'
    BY <1>0, <1>1, <1>3, <2>1, <2>3, CallFrame, Zenon DEF SingleInv
  <2> QED
    BY <1>1, <2>2, <2>4, <2>5, Zenon DEF SingleInv
<1>7. ASSUME ~Single, ~onDemand PROVE AloneInv'
  <2>1. AloneInv
    BY <1>7, Zenon DEF DiscoveryInv
  <2>2. \A d \in Callers : call'[d].pc # "idle" => d = c
    BY <1>1, <2>1, Zenon DEF AloneInv
  <2>3. since = lastModified /\ call[c].stamp >= lastModified /\ call[c].since = lastModified
        /\ ims = lastModified
    BY <1>1, <2>1, Zenon DEF AloneInv
  <2>4. call'[c].pc = "reply" => call'[c].stamp # 0 /\ call'[c].stamp <= lastModified
    BY <1>0, <1>3, <2>3, CallTypes
  <2> QED
    BY <1>0, <1>1, <1>3, <2>1, <2>2, <2>3, <2>4, CallFrame DEF AloneInv
<1> QED
  BY <1>0, <1>4, <1>5, <1>6, <1>7, CallFrame, Zenon DEF DiscoveryInv

(* The resources of one lister are read. *)
LEMMA ListStep ==
  ASSUME DiscoveryInv, TypeOK', NEW c \in Callers, NEW f \in Files, ListResources(c, f)
  PROVE  DiscoveryInv'
<1> USE DEF client
<1>0. UNCHANGED <<now, world, lister, config>> /\ TypeOK
  BY Zenon DEF ListResources, DiscoveryInv
<1>1. /\ call'[c] = Listing(c, f)
      /\ \A d \in Callers \ {c} : call'[d] = call[d]
      /\ UNCHANGED <<cache, lastModified, ims>>
      /\ call[c].pc = "list" /\ f \in call[c].todo
  BY Zenon DEF DiscoveryInv, TypeOK, ListResources
<1>2. /\ call'[c].pc = IF call[c].todo = {f} THEN "reply" ELSE "list"
      /\ call'[c].since = call[c].since
      /\ call'[c].todo = call[c].todo \ {f}
      /\ call'[c].stamp = IF Single THEN LoadTime(f) ELSE call[c].stamp
      /\ call'[c].got[f] = resources[f]
      /\ \A g \in Files \ {f} : call'[c].got[g] = call[c].got[g]
  <2>1. call[c].got \in [Files -> Versions]
    BY <1>0, Zenon DEF TypeOK, Calls
  <2>2. /\ Listing(c, f).pc = IF call[c].todo = {f} THEN "reply" ELSE "list"
        /\ Listing(c, f).since = call[c].since
        /\ Listing(c, f).got = [call[c].got EXCEPT ![f] = resources[f]]
        /\ Listing(c, f).todo = call[c].todo \ {f}
        /\ Listing(c, f).stamp = IF Single THEN LoadTime(f) ELSE call[c].stamp
    BY <1>0, ListingEffect, Zenon
  <2>3. /\ Listing(c, f).got[f] = resources[f]
        /\ \A g \in Files \ {f} : Listing(c, f).got[g] = call[c].got[g]
    BY <2>1, <2>2, Zenon
  <2> QED
    BY <1>1, <2>2, <2>3, Zenon
<1>3. f \in Listers
  BY <1>0, <1>1, CallFrame, Zenon DEF TimeInv
<1>4. VersionInv'
  <2>1. /\ VersionInv /\ Listers' = Listers
        /\ UNCHANGED <<version, lpc, read, resources, lastUpdated>>
    BY <1>0, CallFrame, Zenon
  <2>2. ASSUME NEW g \in Files, NEW d \in Callers
        PROVE  call'[d].got[g] <= resources[g] /\ (g \notin Listers => call'[d].got[g] = 0)
    <3>1. CASE d = c /\ g = f
      BY <1>0, <1>2, <1>3, <3>1, CallTypes
    <3>2. CASE d = c /\ g # f
      BY <1>2, <2>1, <3>2, Zenon DEF VersionInv
    <3>3. CASE d # c
      BY <1>1, <2>1, <3>3, Zenon DEF VersionInv
    <3> QED
      BY <3>1, <3>2, <3>3, Zenon
  <2> QED
    BY <1>1, <2>1, <2>2, Zenon DEF VersionInv
<1>5. TimeInv'
  <2>1. Covered(lastModified)'
    BY <1>0, <1>1, CallFrame, Zenon DEF TimeInv, Covered
  <2>2. ASSUME NEW d \in Callers
        PROVE  (/\ call[d].stamp <= Unix(now)
                /\ Covered(call[d].stamp)
                /\ call[d].todo \subseteq Listers)'
    <3>1. CASE d = c
      BY <1>0, <1>2, <1>3, <3>1, CallFrame DEF TimeInv, Covered
    <3>2. CASE d # c
      BY <1>0, <1>1, <3>2, CallFrame, Zenon DEF TimeInv, Covered
    <3> QED
      BY <3>1, <3>2, Zenon
  <2> QED
    BY <1>0, <1>1, <2>1, <2>2, CallFrame, Zenon DEF TimeInv
<1>6. ASSUME Single PROVE SingleInv'
  <2>1. SingleInv
    BY <1>6, Zenon DEF DiscoveryInv
  <2>2. Listers = {f}
    BY <1>3, <1>6, Zenon DEF Single
  <2>3. call'[c].pc = "reply" /\ call'[c].stamp = LoadTime(f) /\ call'[c].stamp # 0
    BY <1>0, <1>1, <1>2, <1>6, <2>1, <2>2, CallFrame, Zenon DEF SingleInv
  <2>4. \A g \in Files \ {f} : cache[g] = 0 /\ \A d \in Callers : call[d].got[g] = 0
    BY <1>0, <2>2, CallFrame, Zenon DEF VersionInv
  <2>5. \A g \in Files : call'[c].got[g] >= cache[g]
    BY <1>0, <1>2, <2>4, CallFrame, CallTypes DEF VersionInv
  <2>6. \A d \in Callers : call'[d].pc = "reply" => ~(call'[d].stamp > call'[c].stamp)
    BY <1>0, <1>1, <2>1, <2>2, <2>3, CallFrame, CallTypes DEF SingleInv
  <2>7. \A d \in Callers, g \in Files : call'[c].got[g] >= call[d].got[g]
    BY <1>0, <1>2, <2>4, CallFrame, CallTypes DEF VersionInv
  <2>8. ASSUME NEW b \in Callers, b # c, call'[b].pc = "reply",
               ~(call'[b].stamp <= lastModified)
        PROVE  /\ \A g \in Files : call'[b].got[g] >= cache[g]
               /\ \A d \in Callers :
                    call'[d].pc = "reply" /\ call'[d].stamp > call'[b].stamp =>
                      \A g \in Files : call'[d].got[g] >= call'[b].got[g]
    BY <1>1, <2>1, <2>7, <2>8, Zenon DEF SingleInv
  <2>9. /\ ims' <= lastModified'
        /\ \A b \in Callers : call'[b].since <= lastModified'
        /\ \A b \in Callers : call'[b].pc # "idle" =>
             call'[b].stamp # 0 /\ \A g \in Listers' : call'[b].stamp <= LoadTime(g)'
        /\ \A b \in Callers : call'[b].pc = "list" => call'[b].todo = Listers'
    <3>1. /\ call'[c].since <= lastModified
          /\ \A g \in Listers' : call'[c].stamp <= LoadTime(g)'
      <4>1. call'[c].since <= lastModified
        BY <1>2, <2>1, Zenon DEF SingleInv
      <4>2. Listers' = {f} /\ LoadTime(f)' = LoadTime(f) /\ LoadTime(f) \in Nat \cup {-1}
        BY <1>0, <2>2, CallFrame, Zenon
      <4> QED
        BY <2>3, <4>1, <4>2
    <3>2. ASSUME NEW b \in Callers, b # c
          PROVE  /\ call'[b].since <= lastModified
                 /\ call'[b].pc # "idle" =>
                      call'[b].stamp # 0 /\ \A g \in Listers' : call'[b].stamp <= LoadTime(g)'
                 /\ call'[b].pc = "list" => call'[b].todo = Listers'
      BY <1>0, <1>1, <2>1, <3>2, CallFrame, Zenon DEF SingleInv
    <3>3. ims <= lastModified
      BY <2>1, Zenon DEF SingleInv
    <3> QED
      BY <1>1, <2>3, <3>1, <3>2, <3>3, Zenon
  <2> QED
    BY <1>1, <2>5, <2>6, <2>8, <2>9, Zenon DEF SingleInv
<1>7. ASSUME ~Single, ~onDemand PROVE AloneInv'
  <2>1. AloneInv
    BY <1>7, Zenon DEF DiscoveryInv
  <2>2. \A d \in Callers : call'[d].pc # "idle" => d = c
    BY <1>1, <2>1, Zenon DEF AloneInv
  <2>3. call'[c].stamp = call[c].stamp
    BY <1>2, <1>7, Zenon
  <2>4. \A g \in Listers \ call'[c].todo : Listed(c, g)'
    <3>1. Listed(c, f)'
      BY <1>0, <1>1, <1>2, CallFrame, CallTypes, Zenon DEF Listed, VersionInv
    <3>2. ASSUME NEW g \in Listers \ call[c].todo PROVE Listed(c, g)'
      <4>1. Listed(c, g) /\ g # f /\ g \in Files
        BY <1>0, <1>1, <2>1, CallFrame, Zenon DEF AloneInv
      <4> QED
        BY <1>0, <1>1, <1>2, <2>3, <4>1, CallFrame, Zenon DEF Listed
    <3> QED
      BY <1>2, <3>1, <3>2, Zenon
  <2>5. call'[c].pc = "reply" => call'[c].todo = {}
    BY <1>2, Zenon
  <2>6. \A g \in Listers' : LoadTime(g)' < lastModified' => cache'[g] = resources'[g]
    BY <1>0, <1>1, <2>1, CallFrame DEF AloneInv
  <2>7. call'[c].since = lastModified' /\ ims' = lastModified'
    BY <1>1, <1>2, <2>1, Zenon DEF AloneInv
  <2>8. call'[c].pc \in {"list", "reply"} /\ Listers' = Listers
    BY <1>0, <1>2, CallFrame, Zenon
  <2> QED
    BY <2>2, <2>4, <2>5, <2>6, <2>7, <2>8, Zenon DEF AloneInv
<1> QED
  BY <1>0, <1>4, <1>5, <1>6, <1>7, CallFrame, Zenon DEF DiscoveryInv

(* A call ends and the client is as before. *)
LEMMA EndStep ==
  ASSUME DiscoveryInv, TypeOK', UNCHANGED <<now, world, lister, config, ims, client>>,
         NEW c \in Callers, call' = [call EXCEPT ![c] = NoCall]
  PROVE  DiscoveryInv'
<1> USE DEF client
<1>1. /\ call'[c] = NoCall
      /\ \A d \in Callers \ {c} : call'[d] = call[d]
  BY Zenon DEF DiscoveryInv, TypeOK
<1>2. UNCHANGED <<cache, lastModified, ims>>
  BY Zenon
<1>3. VersionInv'
  BY <1>1, <1>2, CallFrame, CallTypes, NoCallFields DEF VersionInv
<1>4. TimeInv'
  <2>1. Covered(lastModified)'
    BY <1>2, CallFrame, Zenon DEF TimeInv, Covered
  <2>2. ASSUME NEW d \in Callers
        PROVE  (/\ call[d].stamp <= Unix(now)
                /\ Covered(call[d].stamp)
                /\ call[d].todo \subseteq Listers)'
    <3>1. CASE d = c
      BY <1>1, <3>1, CallFrame, NoCallFields DEF Covered
    <3>2. CASE d # c
      BY <1>1, <3>2, CallFrame, Zenon DEF TimeInv, Covered
    <3> QED
      BY <3>1, <3>2, Zenon
  <2> QED
    BY <1>2, <2>1, <2>2, CallFrame, Zenon DEF TimeInv
<1>5. ASSUME Single PROVE SingleInv'
  <2>1. SingleInv
    BY <1>5, Zenon DEF DiscoveryInv
  <2> QED
    BY <1>1, <1>2, <2>1, CallFrame, CallTypes, NoCallFields DEF SingleInv
<1>6. ASSUME ~Single, ~onDemand PROVE AloneInv'
  <2>1. AloneInv
    BY <1>6, Zenon DEF DiscoveryInv
  <2>2. \A d \in Callers : call'[d].pc # "idle" => d # c /\ call'[d] = call[d]
    BY <1>1, NoCallFields, Zenon
  <2>3. \A d \in Callers \ {c}, f \in Files : Listed(d, f)' <=> Listed(d, f)
    BY <1>1, <1>2, CallFrame, Zenon DEF Listed
  <2>4. \A d \in Callers : call[d].todo \subseteq Files
    BY CallFrame, Zenon DEF TimeInv
  <2> QED
    BY <1>1, <1>2, <2>1, <2>2, <2>3, <2>4, CallFrame DEF AloneInv
<1> QED
  BY <1>3, <1>4, <1>5, <1>6, CallFrame, Zenon DEF DiscoveryInv

(* A call starts. *)
LEMMA RequestStep ==
  ASSUME DiscoveryInv, TypeOK', NEW c \in Callers, Request(c)
  PROVE  DiscoveryInv'
<1> USE DEF client
<1>0. UNCHANGED <<now, world, lister, config>>
  BY Zenon DEF Request
<1>1. /\ call'[c] = NewCall
      /\ \A d \in Callers \ {c} : call'[d] = call[d]
      /\ UNCHANGED <<cache, lastModified>>
      /\ ims' = lastModified
  BY Zenon DEF DiscoveryInv, TypeOK, Request
<1>2. /\ NewCall.pc = "stat" /\ NewCall.since = lastModified /\ NewCall.todo = Listers
      /\ NewCall.stamp = IF Single THEN -1 ELSE 0
      /\ \A f \in Files : NewCall.got[f] = 0
  BY Zenon DEF NewCall, NoCall, NoFiles
<1>3. VersionInv'
  BY <1>0, <1>1, <1>2, CallFrame, CallTypes, SMTT(30) DEF VersionInv
<1>4. TimeInv'
  <2>1. Covered(lastModified)'
    BY <1>0, <1>1, CallFrame, Zenon DEF TimeInv, Covered
  <2>2. ASSUME NEW d \in Callers
        PROVE  (/\ call[d].stamp <= Unix(now)
                /\ Covered(call[d].stamp)
                /\ call[d].todo \subseteq Listers)'
    <3>1. CASE d = c
      BY <1>0, <1>1, <1>2, <3>1, CallFrame DEF Covered
    <3>2. CASE d # c
      BY <1>0, <1>1, <3>2, CallFrame, Zenon DEF TimeInv, Covered
    <3> QED
      BY <3>1, <3>2, Zenon
  <2> QED
    BY <1>0, <1>1, <2>1, <2>2, CallFrame, Zenon DEF TimeInv
<1>5. ASSUME Single PROVE SingleInv'
  <2>1. SingleInv
    BY <1>5, Zenon DEF DiscoveryInv
  <2>2. NewCall.stamp = -1 /\ \A f \in Listers : -1 <= LoadTime(f)'
    BY <1>0, <1>2, <1>5, CallFrame, SMTT(30)
  <2> QED
    BY <1>0, <1>1, <1>2, <2>1, <2>2, CallFrame, CallTypes DEF SingleInv
<1>6. ASSUME ~Single, ~onDemand PROVE AloneInv'
  <2>1. AloneInv
    BY <1>6, Zenon DEF DiscoveryInv
  <2>2. \A d \in Callers : call'[d].pc # "idle" => d = c
    BY <1>1, <1>6, Zenon DEF Request, Idle
  <2>3. lastModified \in Nat /\ Covered(lastModified)
    BY <1>0, CallFrame, CallTypes, Zenon DEF TimeInv
  <2>4. NewCall.stamp >= lastModified \/ \E f \in NewCall.todo : lastModified <= LoadTime(f)'
    BY <1>0, <1>2, <1>6, <2>3, CallFrame DEF Covered
  <2>5. \A f \in Listers' : LoadTime(f)' < lastModified' => cache'[f] = resources'[f]
    BY <1>0, <1>1, <2>1, CallFrame DEF AloneInv
  <2>6. /\ call'[c].since = lastModified' /\ ims' = lastModified'
        /\ call'[c].pc = "stat"
        /\ \/ call'[c].stamp >= lastModified'
           \/ \E f \in call'[c].todo : lastModified' <= LoadTime(f)'
    BY <1>1, <1>2, <2>4, Zenon
  <2> QED
    BY <2>2, <2>5, <2>6, Zenon DEF AloneInv
<1> QED
  BY <1>0, <1>3, <1>4, <1>5, <1>6, CallFrame, Zenon DEF DiscoveryInv

(* An answer is applied. *)
LEMMA ApplyStep ==
  ASSUME DiscoveryInv, TypeOK', NEW c \in Callers, updateState(c),
         call[c].stamp = 0 \/ call[c].stamp > lastModified
  PROVE  /\ DiscoveryInv'
         /\ Serial => \A f \in Files : cache'[f] >= cache[f]
<1>0. UNCHANGED <<now, world, lister, config, ims>> /\ TypeOK
  BY Zenon DEF updateState, DiscoveryInv
<1>1. /\ call'[c] = NoCall
      /\ \A d \in Callers \ {c} : call'[d] = call[d]
      /\ call[c].pc = "reply"
  BY Zenon DEF DiscoveryInv, TypeOK, updateState
<1>2. cache' = call[c].got /\ lastModified' = call[c].stamp
  BY <1>0, CallTypes DEF updateState
<1>3. VersionInv'
  <2>1. /\ VersionInv /\ Listers' = Listers
        /\ UNCHANGED <<version, lpc, read, resources, lastUpdated>>
    BY <1>0, CallFrame, Zenon
  <2>2. ASSUME NEW f \in Files, NEW d \in Callers
        PROVE  call'[d].got[f] <= resources[f] /\ (f \notin Listers => call'[d].got[f] = 0)
    <3>1. CASE d = c
      BY <1>0, <1>1, <3>1, CallTypes, NoCallFields
    <3>2. CASE d # c
      BY <1>1, <2>1, <3>2, Zenon DEF VersionInv
    <3> QED
      BY <3>1, <3>2, Zenon
  <2>3. \A f \in Files : cache'[f] <= resources[f] /\ (f \notin Listers => cache'[f] = 0)
    BY <1>2, <2>1, Zenon DEF VersionInv
  <2> QED
    BY <2>1, <2>2, <2>3, Zenon DEF VersionInv
<1>4. TimeInv'
  <2>1. lastModified' <= Unix(now)' /\ Covered(lastModified)'
    BY <1>0, <1>2, CallFrame, Zenon DEF TimeInv, Covered
  <2>2. ASSUME NEW d \in Callers
        PROVE  (/\ call[d].stamp <= Unix(now)
                /\ Covered(call[d].stamp)
                /\ call[d].todo \subseteq Listers)'
    <3>1. CASE d = c
      BY <1>0, <1>1, <3>1, CallFrame, NoCallFields DEF Covered
    <3>2. CASE d # c
      BY <1>0, <1>1, <3>2, CallFrame, Zenon DEF TimeInv, Covered
    <3> QED
      BY <3>1, <3>2, Zenon
  <2> QED
    BY <2>1, <2>2, Zenon DEF TimeInv
<1>5. ASSUME Single PROVE SingleInv' /\ \A f \in Files : cache'[f] >= cache[f]
  <2>1. SingleInv
    BY <1>5, Zenon DEF DiscoveryInv
  <2>2. call[c].stamp > lastModified
    BY <1>1, <2>1, Zenon DEF SingleInv
  <2>3. /\ \A f \in Files : call[c].got[f] >= cache[f]
        /\ \A d \in Callers :
             call[d].pc = "reply" /\ call[d].stamp > call[c].stamp =>
               \A f \in Files : call[d].got[f] >= call[c].got[f]
    BY <1>0, <1>1, <2>1, <2>2, CallTypes DEF SingleInv
  <2>4. ASSUME NEW b \in Callers, call'[b].pc = "reply",
               ~(call'[b].stamp <= lastModified')
        PROVE  /\ \A f \in Files : call'[b].got[f] >= cache'[f]
               /\ \A d \in Callers :
                    call'[d].pc = "reply" /\ call'[d].stamp > call'[b].stamp =>
                      \A f \in Files : call'[d].got[f] >= call'[b].got[f]
    <3>1. b # c /\ call'[b] = call[b]
      BY <1>1, <2>4, NoCallFields, Zenon
    <3>2. call[b].stamp > call[c].stamp /\ ~(call[b].stamp <= lastModified)
      BY <1>0, <1>2, <2>2, <2>4, <3>1, CallTypes
    <3>3. \A d \in Callers : call'[d].pc = "reply" => call'[d] = call[d]
      BY <1>1, NoCallFields, Zenon
    <3> QED
      BY <1>2, <2>1, <2>3, <2>4, <3>1, <3>2, <3>3, Zenon DEF SingleInv
  <2>5. ims' <= lastModified' /\ \A b \in Callers : call'[b].since <= lastModified'
    <3>1. lastModified \in Nat /\ ims \in Nat /\ call[c].stamp \in Nat \cup {-1}
      BY <1>0, CallTypes, Zenon
    <3>2. lastModified <= lastModified' /\ lastModified' \in Nat
      BY <1>2, <2>2, <3>1
    <3>3. ims' <= lastModified'
      BY <1>0, <2>1, <3>1, <3>2 DEF SingleInv
    <3>4. ASSUME NEW b \in Callers PROVE call'[b].since <= lastModified'
      <4>1. CASE b = c
        BY <1>1, <3>2, <4>1, NoCallFields
      <4>2. CASE b # c
        <5>1. call'[b].since = call[b].since /\ call[b].since \in Nat
          BY <1>0, <1>1, <4>2, CallTypes, Zenon
        <5>2. call[b].since <= lastModified
          BY <2>1, Zenon DEF SingleInv
        <5> QED
          BY <3>1, <3>2, <5>1, <5>2
      <4> QED
        BY <4>1, <4>2, Zenon
    <3> QED
      BY <3>3, <3>4, Zenon
  <2>6. /\ \A b \in Callers : call'[b].pc # "idle" =>
             call'[b].stamp # 0 /\ \A g \in Listers' : call'[b].stamp <= LoadTime(g)'
        /\ \A b \in Callers : call'[b].pc = "list" => call'[b].todo = Listers'
    BY <1>0, <1>1, <2>1, CallFrame, NoCallFields, Zenon DEF SingleInv
  <2> QED
    BY <1>2, <2>3, <2>4, <2>5, <2>6, Zenon DEF SingleInv
<1>6. ASSUME ~Single, ~onDemand PROVE AloneInv' /\ \A f \in Files : cache'[f] >= cache[f]
  <2>1. AloneInv
    BY <1>6, Zenon DEF DiscoveryInv
  <2>2. \A f \in Listers : Listed(c, f)
    BY <1>0, <1>1, <2>1, CallTypes DEF AloneInv
  <2>3. \A d \in Callers : call'[d].pc = "idle"
    BY <1>1, <2>1, NoCallFields, Zenon DEF AloneInv
  <2>4. \A f \in Listers' : (LoadTime(f) < lastModified => cache[f] = resources[f])'
    BY <1>0, <1>2, <2>2, CallFrame, Zenon DEF Listed
  <2>5. \A f \in Files : cache'[f] >= cache[f]
    BY <1>0, <1>2, <2>2, CallFrame, CallTypes DEF Listed, VersionInv
  <2> QED
    BY <2>3, <2>4, <2>5, Zenon DEF AloneInv
<1> QED
  BY <1>0, <1>3, <1>4, <1>5, <1>6, CallFrame, Zenon DEF DiscoveryInv, Serial

-----------------------------------------------------------------------------
(* Every step preserves the invariant and takes no version out of the cache. *)
LEMMA DiscoveryStep ==
  ASSUME DiscoveryInv, [Next]_vars
  PROVE  /\ DiscoveryInv'
         /\ Serial => \A f \in Files : cache'[f] >= cache[f]
<1> USE DEF client
<1>0. TypeOK /\ TypeOK' /\ VersionInv
  BY TypeStep, Zenon DEF DiscoveryInv
<1>1. ASSUME UNCHANGED cache PROVE \A f \in Files : cache'[f] >= cache[f]
  BY <1>0, <1>1 DEF TypeOK, Versions
<1>2. CASE ClockTick
  <2>1. now <= now'
    BY <1>0, <1>2 DEF ClockTick, TypeOK
  <2> QED
    BY <1>0, <1>1, <1>2, <2>1, QuietStep, Zenon DEF ClockTick, world, lister, VersionInv
<1>3. ASSUME NEW f \in Files, Edit(f)
      PROVE  DiscoveryInv' /\ UNCHANGED cache
  <2>1. \A g \in Files : version[g] <= version'[g] /\ version[g] \in Nat /\ version'[g] \in Nat
    BY <1>0, <1>3 DEF Edit, TypeOK, Versions
  <2>2. now <= now'
    BY <1>0, <1>3 DEF Edit, TypeOK
  <2>3. \A g \in Files : /\ read'[g] <= version'[g]
                         /\ resources[g] <= version'[g]
                         /\ lpc'[g] = "store" => resources[g] <= read'[g]
    BY <1>0, <1>3, <2>1 DEF Edit, lister, VersionInv, TypeOK, Versions
  <2> QED
    BY <1>0, <1>3, <2>2, <2>3, QuietStep, Zenon DEF Edit, lister
<1>4. ASSUME NEW f \in Files, RefreshStart(f) \/ ReadFile(f)
      PROVE  DiscoveryInv' /\ UNCHANGED cache
  <2>1. now <= now'
    BY <1>0, <1>4 DEF RefreshStart, ReadFile, TypeOK
  <2>2. \A g \in Files : /\ read'[g] <= version'[g]
                         /\ resources[g] <= version'[g]
                         /\ lpc'[g] = "store" => resources[g] <= read'[g]
    <3>1. UNCHANGED <<version, resources>>
      BY <1>4, Zenon DEF RefreshStart, ReadFile, world
    <3>2. \A g \in Files : version[g] \in Nat /\ resources[g] <= version[g]
      BY <1>0 DEF TypeOK, Versions, VersionInv
    <3>3. CASE RefreshStart(f)
      BY <1>0, <3>1, <3>3, Zenon DEF RefreshStart, VersionInv, TypeOK
    <3>4. CASE ReadFile(f)
      <4>1. ASSUME NEW g \in Files, g # f
            PROVE  read'[g] = read[g] /\ lpc'[g] = lpc[g]
        BY <1>0, <3>4, <4>1, Zenon DEF ReadFile, TypeOK
      <4>2. \/ read'[f] = version[f]
            \/ read'[f] = read[f] /\ lpc'[f] = "idle"
        BY <1>0, <3>4, Zenon DEF ReadFile, TypeOK
      <4>3. ASSUME NEW g \in Files
            PROVE  /\ read'[g] <= version[g]
                   /\ lpc'[g] = "store" => resources[g] <= read'[g]
        <5>1. CASE g = f
          BY <1>0, <3>2, <4>2, <5>1 DEF VersionInv
        <5>2. CASE g # f
          BY <1>0, <4>1, <5>2, Zenon DEF VersionInv
        <5> QED
          BY <5>1, <5>2, Zenon
      <4> QED
        BY <3>1, <3>2, <4>3, Zenon
    <3> QED
      BY <1>4, <3>3, <3>4, Zenon
  <2> QED
    BY <1>0, <1>4, <2>1, <2>2, QuietStep, Zenon DEF RefreshStart, ReadFile
<1>5. ASSUME NEW f \in Files, Store(f)
      PROVE  DiscoveryInv' /\ UNCHANGED cache
  BY <1>0, <1>5, StoreStep, ZenonT(30) DEF Store
<1>6. ASSUME NEW c \in Callers, Request(c) \/ CacheCheck(c)
      PROVE  DiscoveryInv' /\ UNCHANGED cache
  BY <1>0, <1>6, RequestStep, CheckStep, ZenonT(30) DEF Request, CacheCheck
<1>7. ASSUME NEW c \in Callers, NEW f \in Files, LastModified(c, f) \/ ListResources(c, f)
      PROVE  DiscoveryInv' /\ UNCHANGED cache
  BY <1>0, <1>7, StampStep, ListStep, Zenon DEF LastModified, ListResources
<1>8. ASSUME NEW c \in Callers, updateState(c)
      PROVE  DiscoveryInv' /\ (Serial => \A f \in Files : cache'[f] >= cache[f])
  <2>1. CASE call[c].stamp # 0 /\ call[c].stamp <= lastModified
    BY <1>0, <1>1, <1>8, <2>1, EndStep, ZenonT(30) DEF updateState
  <2>2. CASE call[c].stamp = 0 \/ call[c].stamp > lastModified
    BY <1>0, <1>8, <2>2, ApplyStep, Zenon
  <2> QED
    BY <1>0, <2>1, <2>2, CallTypes
<1>9. ASSUME NEW c \in Callers, CallFails(c)
      PROVE  DiscoveryInv' /\ UNCHANGED cache
  BY <1>0, <1>9, EndStep, ZenonT(30) DEF CallFails
<1>10. CASE UNCHANGED vars
  <2>1. now <= now'
    BY <1>0, <1>10 DEF vars, TypeOK
  <2> QED
    BY <1>0, <1>1, <1>10, <2>1, QuietStep, Zenon DEF vars, world, lister, VersionInv
<1> QED
  BY <1>1, <1>2, <1>3, <1>4, <1>5, <1>6, <1>7, <1>8, <1>9, <1>10, Zenon DEF Next, Refresh, Answer

(* The invariant holds in every reachable state. *)
LEMMA DiscoveryInvariant == Spec => []DiscoveryInv
<1>1. DiscoveryInv /\ [Next]_vars => DiscoveryInv'
  BY DiscoveryStep, Zenon
<1> QED
  BY DiscoveryInit, <1>1, PTL DEF Spec

(* The variables keep their types; in particular the client's              *)
(* last-modified time is never that of a lister without a load.            *)
THEOREM DiscoveryTypes == Spec => []TypeOK
<1>1. DiscoveryInv => TypeOK
  BY Zenon DEF DiscoveryInv
<1> QED
  BY DiscoveryInvariant, <1>1, PTL

(* updateState never takes the client back to an older version of a file,  *)
(* nor to none, for any number of files asked periodically and for one     *)
(* file asked on demand by any number of goroutines.                       *)
THEOREM CacheNeverGoesBack == Spec => CacheGoesForward
<1>1. DiscoveryInv /\ [Next]_vars =>
        [Serial => \A f \in Files : cache'[f] >= cache[f]]_vars
  BY DiscoveryStep, Zenon
<1> QED
  BY DiscoveryInvariant, <1>1, PTL DEF Spec, CacheGoesForward

(* What the provider leaves out as not modified was loaded in the second   *)
(* of the client's last-modified time or later.                            *)
THEOREM OnlyRecentMissed == Spec => []MissesOnlyRecent
<1>1. DiscoveryInv => MissesOnlyRecent
  <2> SUFFICES ASSUME DiscoveryInv, Serial, NEW f \in Listers, LoadTime(f) < lastModified
               PROVE  cache[f] = resources[f]
    BY Zenon DEF MissesOnlyRecent, LoadTime
  <2>1. TypeOK /\ ClockInv /\ VersionInv /\ TimeInv /\ f \in Files
    BY Zenon DEF DiscoveryInv, TypeOK, Listers
  <2>2. CASE Single
    <3>1. Listers = {f}
      BY <2>2, Zenon DEF Single
    <3>2. LoadTime(f) \in Nat \cup {-1} /\ LoadTime(f) # 0 /\ lastModified \in Nat
      BY <2>1, UnixFacts, Zenon DEF TypeOK
    <3>3. ~(lastModified > 0)
      <4> SUFFICES ASSUME lastModified > 0 PROVE FALSE
        BY Zenon
      <4>1. Covered(lastModified)
        BY <2>1, Zenon DEF TimeInv
      <4>2. PICK g \in Listers : lastModified <= LoadTime(g)
        BY <4>1, Zenon DEF Covered
      <4>3. g = f
        BY <3>1, Zenon
      <4> QED
        BY <3>2, <4>2, <4>3
    <3>4. LoadTime(f) = -1
      BY <3>2, <3>3
    <3>5. resources[f] = 0
      BY <2>1, <3>4, UnixFacts, Zenon DEF VersionInv
    <3>6. cache[f] <= resources[f] /\ cache[f] \in Nat
      BY <2>1, CallTypes, Zenon DEF VersionInv
    <3> QED
      BY <3>5, <3>6, SMTT(30)
  <2>3. CASE ~Single
    BY <2>1, <2>3, Zenon DEF DiscoveryInv, AloneInv, Serial
  <2> QED
    BY <2>2, <2>3, Zenon
<1> QED
  BY DiscoveryInvariant, <1>1, PTL
=============================================================================
