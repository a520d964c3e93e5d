----------------------------- MODULE LoopProofs -----------------------------
(***************************************************************************)
(* Theorems about components whose steps loop over slices of any length.   *)
(* The loop rule, ForEachSteps, comes first.  Lifecycle, for every set of  *)
(* configs: LifeInv is the inductive invariant of a user who starts what   *)
(* they initialised and awaits the cleanup.  Prometheus, for every set of  *)
(* keys and every expiration: PromInv is the inductive invariant.          *)
(***************************************************************************)
EXTENDS Lifecycle, Prometheus, TLAPS, WellFoundedInduction

-----------------------------------------------------------------------------
(* Loops *)

\* A set of naturals that is not empty has a least element.
LEMMA LeastNatural ==
  ASSUME NEW T \in SUBSET Nat, T # {}
  PROVE  \E n \in T : \A m \in T : n <= m
<1>1. PICK R : R = OpToRel(<, Nat)
  OBVIOUS
<1>2. \A m, n \in Nat : m < n => <<m, n>> \in R
  BY <1>1 DEF OpToRel
<1>3. IsWellFoundedOn(R, Nat)
  BY <1>1, NatLessThanWellFounded
<1>4. PICK n \in T : \A m \in T : ~ (<<m, n>> \in R)
  BY <1>3, WFMin
<1>5. \A m \in T : ~ (m < n)
  BY <1>2, <1>4, Zenon
<1>6. T \subseteq Nat
  OBVIOUS
<1>7. \A m \in T : n <= m
  BY <1>5, <1>6
<1> QED
  BY <1>7, Zenon

\* Induction over the naturals, for a set.
LEMMA NatInd ==
  ASSUME NEW T \in SUBSET Nat, 0 \in T, \A n \in T : n + 1 \in T
  PROVE  T = Nat
<1> SUFFICES ASSUME T # Nat PROVE FALSE
  OBVIOUS
<1>1. PICK n \in Nat \ T : \A m \in Nat \ T : n <= m
  BY LeastNatural
<1>2. n # 0 /\ n - 1 \in Nat
  BY <1>1
<1>3. n - 1 \in T
  BY <1>1, <1>2
<1>4. (n - 1) + 1 \in T
  BY <1>3
<1> QED
  BY <1>1, <1>2, <1>4

\* The last index of a sequence of length k, and the ones before it.
LEMMA MaxOfInterval == ASSUME NEW k \in Nat, k # 0 PROVE Max(1..k) = k /\ (1..k) \ {k} = 1..(k-1)
<1>1. k \in 1..k /\ \A y \in 1..k : k >= y
  OBVIOUS
<1>2. \A x \in 1..k : (\A y \in 1..k : x >= y) => x = k
  BY <1>1
<1>3. Max(1..k) = k
  BY <1>1, <1>2, Zenon DEF Max
<1> QED BY <1>3

\* A set of indices that is not empty has a maximum.
LEMMA MaxIn ==
  ASSUME NEW n \in Nat, NEW s \in SUBSET (1..n), s # {}
  PROVE  Max(s) \in s /\ \A y \in s : Max(s) >= y
<1>1. PICK T \in SUBSET Nat : T = {n - x : x \in s}
   <2>1. \A x \in s : n - x \in Nat
     OBVIOUS
   <2> QED BY <2>1
<1>2. T # {}
  BY <1>1
<1>3. PICK m \in T : \A k \in T : m <= k
  BY <1>2, LeastNatural
<1>4. PICK x \in s : m = n - x
  BY <1>1
<1>5. \A y \in s : n - x <= n - y
  BY <1>1, <1>3, <1>4
<1>6. \A y \in s : x >= y
  BY <1>5, <1>4
<1> QED BY <1>6, <1>4, Zenon DEF Max

\* The first k indices of a sequence of length n.
LEMMA Intervals ==
  ASSUME NEW n \in Nat, NEW k \in 1 .. n
  PROVE  1 .. k \in SUBSET (1 .. n) /\ 1 .. k # {} /\ k \in Nat /\ k # 0
<1>1. k \in 1 .. k
  OBVIOUS
<1> QED BY <1>1

\* Sets of indices by their maxima.
Below(n) ==
  {st \in (SUBSET (1 .. n)) \X (SUBSET (1 .. n)) :
     st[2] # {} /\ (st[1] = {} \/ Max(st[1]) < Max(st[2]))}

\* The maxima of a descending chain of index sets would descend for ever.
LEMMA BelowWellFounded ==
  ASSUME NEW n \in Nat
  PROVE  IsWellFoundedOn(Below(n), SUBSET (1 .. n))
<1> SUFFICES ASSUME NEW f \in [Nat -> SUBSET (1 .. n)],
                    \A i \in Nat : <<f[i + 1], f[i]>> \in Below(n)
             PROVE  FALSE
  BY Zenon DEF IsWellFoundedOn
<1>1. \A i \in Nat : f[i] # {} /\ (f[i + 1] = {} \/ Max(f[i + 1]) < Max(f[i]))
  BY DEF Below
<1>2. \A i \in Nat : i + 1 \in Nat /\ f[i] \in SUBSET (1 .. n)
  OBVIOUS
<1>3. \A i \in Nat : Max(f[i]) \in 1 .. n
  BY <1>1, <1>2, MaxIn, Zenon
<1>4. PICK T : T = {Max(f[i]) : i \in Nat}
  OBVIOUS
<1>5. T \in SUBSET Nat /\ T # {}
  <2>1. 0 \in Nat /\ \A x \in 1 .. n : x \in Nat
    OBVIOUS
  <2> QED BY <2>1, <1>3, <1>4, Zenon
<1>6. PICK m \in T : \A x \in T : m <= x
  BY <1>5, LeastNatural
<1>7. PICK i \in Nat : m = Max(f[i])
  BY <1>4, Zenon
<1>8. Max(f[i + 1]) < Max(f[i]) /\ Max(f[i + 1]) \in T
  BY <1>1, <1>2, <1>4, Zenon
<1>9. Max(f[i + 1]) \in 1 .. n /\ Max(f[i]) \in 1 .. n
  BY <1>2, <1>3, Zenon
<1> QED BY <1>6, <1>7, <1>8, <1>9

\* A pair and its components.
LEMMA Pairs ==
  ASSUME NEW D, NEW a \in D, NEW b \in D
  PROVE  <<a, b>> \in D \X D /\ <<a, b>>[1] = a /\ <<a, b>>[2] = b
OBVIOUS

\* A set of indices without its maximum is below it.
LEMMA WithoutMax ==
  ASSUME NEW n \in Nat, NEW s \in SUBSET (1 .. n), s # {}
  PROVE  s \ {Max(s)} \in SUBSET (1 .. n) /\ <<s \ {Max(s)}, s>> \in Below(n)
<1>1. Max(s) \in s
  BY MaxIn
<1>2. PICK t \in SUBSET (1 .. n) : t = s \ {Max(s)}
  OBVIOUS
<1>3. t # {} => Max(t) \in t
  BY MaxIn
<1>4. \A y \in s : Max(s) >= y
  BY MaxIn
<1>5. t # {} => Max(t) < Max(s)
  <2>1. SUFFICES ASSUME t # {} PROVE Max(t) < Max(s)
    OBVIOUS
  <2>2. PICK a \in 1 .. n : a = Max(t) /\ a \in t
    BY <2>1, <1>3
  <2>3. PICK b \in 1 .. n : b = Max(s) /\ b >= a /\ a # b
    BY <1>1, <1>2, <1>4, <2>2
  <2>4. a < b
    BY <2>3
  <2> QED BY <2>2, <2>3, <2>4, Zenon
<1>6. PICK p : p = <<t, s>>
  OBVIOUS
<1>7. p \in (SUBSET (1 .. n)) \X (SUBSET (1 .. n)) /\ p[1] = t /\ p[2] = s
  BY <1>2, <1>6, Pairs, Zenon
<1>8. p \in Below(n)
  BY <1>5, <1>7, Zenon DEF Below
<1> QED BY <1>2, <1>6, <1>8, Zenon

\* Each round i of the loop leads from G[i - 1] into G[i].
StepsWithin(op(_, _), seq, G) ==
  \A i \in DOMAIN seq : \A a \in G[i-1] : op(a, seq[i]) \in G[i]

\* The loop rule: a range over a sequence that starts in G[0] and whose every
\* round i leads from G[i - 1] into G[i] ends in G[n].
LEMMA ForEachSteps ==
  ASSUME NEW op(_,_), NEW base, NEW n \in Nat, NEW seq, DOMAIN seq = 1..n, NEW G, base \in G[0],
         StepsWithin(op, seq, G)
  PROVE  ForEach(op, base, seq) \in G[n]
<1> DEFINE D == SUBSET (1..n)
           Def(g, s) == IF s = {} THEN base ELSE LET x == Max(s) IN op(g[s \ {x}], seq[x])
           iter == CHOOSE g : g = [s \in D |-> Def(g, s)]
           R == Below(n)
<1>1. ForEach(op, base, seq) = iter[1..n]
  BY DEF ForEach, MapThenFoldSet
<1>2. IsWellFoundedOn(R, D)
  BY BelowWellFounded, Zenon
<1>3. WFDefOn(R, D, Def)
  <2> SUFFICES ASSUME NEW g, NEW h, NEW s \in D, \A y \in SetLessThan(s, R, D) : g[y] = h[y]
               PROVE Def(g, s) = Def(h, s)
    BY DEF WFDefOn
  <2>1. CASE s = {}
    BY <2>1
  <2>2. CASE s # {}
    <3>2. PICK x : x = Max(s)
      OBVIOUS
    <3>4. s \ {x} \in SetLessThan(s, R, D)
      BY <2>2, <3>2, WithoutMax, Zenon DEF SetLessThan
    <3>5. g[s \ {x}] = h[s \ {x}]
      BY <3>4
    <3> QED BY <3>5, <3>2
  <2> QED BY <2>1, <2>2
<1>4. OpDefinesFcn(iter, D, Def)
  BY DEF OpDefinesFcn
<1> HIDE DEF Def, iter, R
<1>5. WFInductiveDefines(iter, D, Def)
  BY <1>2, <1>3, <1>4, WFInductiveDef
<1>6. \A s \in D : iter[s] = Def(iter, s)
  BY <1>5 DEF WFInductiveDefines
<1>7. iter[{}] = base
  BY <1>6 DEF Def
<1>8. \A k \in 1..n : iter[1..k] = op(iter[1..(k-1)], seq[k])
  <2> SUFFICES ASSUME NEW k \in 1..n PROVE iter[1..k] = op(iter[1..(k-1)], seq[k])
    OBVIOUS
  <2>1. 1..k \in D /\ 1..k # {} /\ k \in Nat /\ k # 0
    BY Intervals, Zenon
  <2>2. Max(1..k) = k /\ (1..k) \ {k} = 1..(k-1)
    BY <2>1, MaxOfInterval
  <2>3. iter[1..k] = Def(iter, 1..k)
    BY <2>1, <1>6, Zenon
  <2>4. Def(iter, 1..k) = op(iter[(1..k) \ {k}], seq[k])
    BY <2>1, <2>2, Zenon DEF Def
  <2> QED BY <2>2, <2>3, <2>4, Zenon
<1>9. PICK T \in SUBSET Nat : T = {k \in Nat : k <= n => iter[1..k] \in G[k]}
  OBVIOUS
<1>10. 0 \in T
  BY <1>9, <1>7
<1>11. \A k \in T : k + 1 \in T
  <2> SUFFICES ASSUME NEW k \in T, k + 1 <= n PROVE iter[1..(k+1)] \in G[k+1]
    BY <1>9
  <2>1. k \in Nat /\ iter[1..k] \in G[k] /\ k + 1 \in 1..n /\ (k + 1) - 1 = k
    BY <1>9
  <2>2. iter[1..(k+1)] = op(iter[1..k], seq[k+1])
    BY <2>1, <1>8
  <2> QED BY <2>1, <2>2, Zenon DEF StepsWithin
<1>12. T = Nat
  BY <1>10, <1>11, NatInd
<1> QED BY <1>12, <1>9, <1>1

-----------------------------------------------------------------------------
(* Prometheus *)

\* Points are records of a value and a timestamp; an EventMetrics has a key too.
Points == [value : Nat, timestamp : Nat]

\* The slice lists the keys of the map, each once.
Lists(keys, data) ==
  /\ Range(keys) = DOMAIN data
  /\ IsInjective(keys)

\* A map is a function.
IsMap(f) == f = [k \in DOMAIN f |-> f[k]]

\* The clock, the ticker and the types of what is recorded.
PromTypes ==
  /\ pNow \in Nat /\ pTick \in Nat /\ pTick <= pNow /\ pRecords \in Nat
  /\ pChan \in Seq([key : Keys, value : Nat, timestamp : Nat])
  /\ pDataKeys \in Seq(Keys)
  /\ IsMap(pData)
  /\ \A k \in DOMAIN pData : pData[k].timestamp \in Nat
  /\ \A k \in DOMAIN pLast :
       /\ pLast[k].at \in Nat /\ pLast[k].at <= pNow
       /\ pLast[k].point.timestamp \in Nat

PromInv == PromTypes /\ PromKeysInStep

\* A least index.
LEMMA MinIn ==
  ASSUME NEW n \in Nat, NEW s \in SUBSET (1 .. n), s # {}
  PROVE  Min(s) \in s /\ \A y \in s : Min(s) <= y
<1>1. s \in SUBSET Nat
  OBVIOUS
<1>2. PICK m \in s : \A y \in s : m <= y
  BY <1>1, LeastNatural, Zenon
<1> QED
  BY <1>2, Zenon DEF Min

\* deleteFromSlice takes the one occurrence of a key away and keeps the others.
LEMMA DeleteFromSliceFacts ==
  ASSUME NEW S, NEW keys \in Seq(S), NEW key, IsInjective(keys)
  PROVE  /\ DeleteFromSlice(keys, key) \in Seq(S)
         /\ Range(DeleteFromSlice(keys, key)) = Range(keys) \ {key}
         /\ IsInjective(DeleteFromSlice(keys, key))
<1>1. PICK n \in Nat : n = Len(keys) /\ keys \in [1 .. n -> S]
  OBVIOUS
<1>2. PICK at \in SUBSET (1 .. n) : at = {i \in DOMAIN keys : keys[i] = key}
  BY <1>1
<1>0. CASE at = {}
  <2>1. DeleteFromSlice(keys, key) = keys
    BY <1>0, <1>2, Zenon DEF DeleteFromSlice
  <2>2. key \notin Range(keys)
    BY <1>0, <1>2 DEF Range
  <2> QED
    BY <2>1, <2>2
<1>3. CASE at # {}
  <2>4. PICK m \in at : m = Min(at)
    BY <1>2, <1>3, MinIn, Zenon
  <2>5. m \in 1 .. n /\ keys[m] = key /\ \A i \in 1 .. n : i # m => keys[i] # key
    BY <1>1, <1>2, <2>4 DEF IsInjective
  <2>6. PICK r : r = [j \in 1 .. n - 1 |-> IF j < m THEN keys[j] ELSE keys[j + 1]]
    OBVIOUS
  <2>7. DeleteFromSlice(keys, key) = r
    BY <1>1, <1>2, <1>3, <2>4, <2>6, Zenon DEF DeleteFromSlice
  <2>8. n - 1 \in Nat /\ r \in [1 .. n - 1 -> S]
    BY <1>1, <2>5, <2>6
  <2>9. r \in Seq(S)
    BY <2>8
  <2>10. Range(r) = Range(keys) \ {key}
    <3>1. ASSUME NEW j \in 1 .. n - 1
          PROVE  \E i \in 1 .. n : i # m /\ r[j] = keys[i]
      <4>1. CASE j < m
        BY <4>1, <2>5, <2>6
      <4>2. CASE ~(j < m)
        BY <4>2, <2>5, <2>6
      <4> QED BY <4>1, <4>2
    <3>2. ASSUME NEW i \in 1 .. n, i # m
          PROVE  \E j \in 1 .. n - 1 : r[j] = keys[i]
      <4>1. CASE i < m
        BY <3>2, <4>1, <2>5, <2>6
      <4>2. CASE ~(i < m)
        <5>1. i - 1 \in 1 .. n - 1 /\ ~(i - 1 < m) /\ (i - 1) + 1 = i
          BY <3>2, <4>2, <2>5
        <5> QED BY <5>1, <2>6
      <4> QED BY <4>1, <4>2
    <3>3. DOMAIN r = 1 .. n - 1 /\ DOMAIN keys = 1 .. n
      BY <1>1, <2>8
    <3>4. Range(r) = {r[j] : j \in 1 .. n - 1} /\ Range(keys) = {keys[i] : i \in 1 .. n}
      BY <3>3, Zenon DEF Range
    <3>5. \A v \in Range(r) : v \in Range(keys) /\ v # key
      BY <3>1, <3>4, <2>5
    <3>6. \A v \in Range(keys) : v # key => v \in Range(r)
      BY <3>2, <3>4, <2>5
    <3> QED
      BY <3>5, <3>6
  <2>11. IsInjective(r)
    <3> SUFFICES ASSUME NEW a \in 1 .. n - 1, NEW b \in 1 .. n - 1, r[a] = r[b]
                 PROVE  a = b
      BY <2>8 DEF IsInjective
    <3>1. \A x, y \in 1 .. n : keys[x] = keys[y] => x = y
      BY <1>1 DEF IsInjective
    <3>2. a \in 1 .. n /\ a + 1 \in 1 .. n /\ b \in 1 .. n /\ b + 1 \in 1 .. n
      BY <1>1
    <3> QED BY <3>1, <3>2, <2>5, <2>6
  <2> QED
    BY <2>7, <2>9, <2>10, <2>11, Zenon
<1> QED
  BY <1>0, <1>3

\* What is left of data and keys once the first i of the given keys are deleted.
Left(S, data, ks, i) ==
  {r \in [data : {[k \in DOMAIN data \ {ks[j] : j \in 1 .. i} |-> data[k]]},
          keys : Seq(S)] : Lists(r.keys, r.data)}

\* One more key.
LEMMA DeleteMetricStep ==
  ASSUME NEW S, NEW data, NEW n \in Nat, NEW ks \in [1 .. n -> DOMAIN data],
         NEW i \in 1 .. n,
         NEW r \in Left(S, data, ks, i - 1)
  PROVE  DeleteMetric(r, ks[i]) \in Left(S, data, ks, i)
<1>1. PICK gone : gone = {ks[j] : j \in 1 .. i - 1}
  OBVIOUS
<1>2. {ks[j] : j \in 1 .. i} = gone \cup {ks[i]}
  BY <1>1
<1>3. /\ r.data = [k \in DOMAIN data \ gone |-> data[k]]
      /\ r.keys \in Seq(S) /\ Lists(r.keys, r.data)
  BY <1>1 DEF Left
<1>4. DOMAIN r.data = DOMAIN data \ gone
  BY <1>2, <1>3
<1>5. IsInjective(r.keys) /\ Range(r.keys) = DOMAIN r.data
  BY <1>3, <1>4, Zenon DEF Lists
<1>6. PICK d : d = [k \in DOMAIN r.data \ {ks[i]} |-> r.data[k]]
  OBVIOUS
<1>7. PICK q : q = DeleteFromSlice(r.keys, ks[i])
  OBVIOUS
<1>8. q \in Seq(S) /\ Range(q) = Range(r.keys) \ {ks[i]} /\ IsInjective(q)
  BY <1>3, <1>5, <1>7, DeleteFromSliceFacts, Zenon
<1>9. d = [k \in DOMAIN data \ {ks[j] : j \in 1 .. i} |-> data[k]]
  BY <1>2, <1>3, <1>4, <1>6
<1>10. DOMAIN d = DOMAIN r.data \ {ks[i]}
  BY <1>6
<1>11. Lists(q, d)
  BY <1>5, <1>8, <1>10, Zenon DEF Lists
<1>12. DeleteMetric(r, ks[i]) = [data |-> d, keys |-> q]
  BY <1>6, <1>7, Zenon DEF DeleteMetric
<1>13. PICK m : m = [data |-> d, keys |-> q]
  OBVIOUS
<1>14. m \in [data : {d}, keys : Seq(S)] /\ m.data = d /\ m.keys = q
  BY <1>8, <1>13
<1>15. m \in Left(S, data, ks, i)
  BY <1>9, <1>11, <1>14, Zenon DEF Left
<1> QED
  BY <1>12, <1>13, <1>15, Zenon

\* deleteExpiredMetrics takes exactly the expired keys from the map and the slice.
LEMMA DeleteMetricsFacts ==
  ASSUME NEW S, NEW data, IsMap(data),
         NEW keys \in Seq(S), Lists(keys, data),
         NEW n \in Nat, NEW ks \in [1 .. n -> DOMAIN data]
  PROVE  DeleteMetrics([data |-> data, keys |-> keys], ks) \in Left(S, data, ks, n)
<1>1. PICK pm : pm = [data |-> data, keys |-> keys]
  OBVIOUS
<1>2. PICK G : G = [i \in 0 .. n |-> Left(S, data, ks, i)]
  OBVIOUS
<1>3. \A i \in 1 .. n : i - 1 \in 0 .. n /\ i \in 0 .. n
  OBVIOUS
<1>4. 0 \in 0 .. n /\ n \in 0 .. n
  OBVIOUS
<1>5. pm \in Left(S, data, ks, 0)
  <2>1. {ks[j] : j \in 1 .. 0} = {}
    OBVIOUS
  <2>2. pm \in [data : {data}, keys : Seq(S)] /\ pm.data = data /\ pm.keys = keys
    BY <1>1
  <2>3. DOMAIN data \ {ks[j] : j \in 1 .. 0} = DOMAIN data
    BY <2>1
  <2>4. [k \in DOMAIN data \ {ks[j] : j \in 1 .. 0} |-> data[k]] = data
    BY <2>3 DEF IsMap
  <2>5. PICK d : d = [k \in DOMAIN data \ {ks[j] : j \in 1 .. 0} |-> data[k]]
    OBVIOUS
  <2>6. d = data
    BY <2>4, <2>5, Zenon
  <2>7. pm \in [data : {d}, keys : Seq(S)] /\ Lists(pm.keys, pm.data)
    BY <2>2, <2>6, Zenon
  <2> QED
    BY <2>5, <2>7, Zenon DEF Left
<1>6. pm \in G[0]
  BY <1>2, <1>4, <1>5, Zenon
<1>7. DOMAIN ks = 1 .. n
  OBVIOUS
<1>8. StepsWithin(DeleteMetric, ks, G)
  <2> SUFFICES ASSUME NEW i \in 1 .. n, NEW a \in G[i - 1]
               PROVE  DeleteMetric(a, ks[i]) \in G[i]
    BY <1>7, Zenon DEF StepsWithin
  <2>1. a \in Left(S, data, ks, i - 1)
    BY <1>2, <1>3, Zenon
  <2>2. DeleteMetric(a, ks[i]) \in Left(S, data, ks, i)
    BY <2>1, DeleteMetricStep, Zenon
  <2> QED
    BY <1>2, <1>3, <2>2, Zenon
<1>9. ForEach(DeleteMetric, pm, ks) \in G[n]
  BY <1>6, <1>7, <1>8, ForEachSteps, Zenon
<1>10. DeleteMetrics(pm, ks) = ForEach(DeleteMetric, pm, ks)
  BY DEF ForEach, DeleteMetrics
<1> QED
  BY <1>1, <1>2, <1>4, <1>9, <1>10, Zenon

\* The surfacer begins with nothing recorded.
LEMMA PromInitInv == PromInit => PromInv
<1> SUFFICES ASSUME PromInit PROVE PromInv
  OBVIOUS
<1>1. DOMAIN pData = {} /\ DOMAIN pLast = {} /\ DOMAIN pDataKeys = {} /\ Range(pDataKeys) = {}
  BY DEF PromInit, Range
<1>2. PromTypes
  BY <1>1 DEF PromInit, PromTypes, IsMap
<1>3. IsInjective(pDataKeys)
  BY <1>1, Zenon DEF IsInjective
<1>4. PromKeysInStep
  BY <1>1, <1>3, Zenon DEF PromKeysInStep
<1> QED
  BY <1>2, <1>4, Zenon DEF PromInv

\* Steps that change neither the data nor the ticker.
LEMMA PromIdleStep ==
  ASSUME PromInv,
         PromClock \/ PromQuery \/ WriteData \/ PromCtxDone \/ (\E k \in Keys : PromWrite(k))
           \/ UNCHANGED promVars
  PROVE  PromInv'
<1>1. UNCHANGED <<pData, pDataKeys, pTick, pLast>> /\ pNow' \in {pNow, pNow + 1}
  BY DEF PromClock, PromQuery, WriteData, PromCtxDone, PromWrite, promVars
<1>2. PromKeysInStep'
  BY <1>1, Zenon DEF PromInv, PromKeysInStep
<1>3. pChan' \in Seq([key : Keys, value : Nat, timestamp : Nat]) /\ pRecords' \in Nat
  <2>1. CASE \E k \in Keys : PromWrite(k)
    <3>1. PICK k \in Keys : PromWrite(k)
      BY <2>1
    <3>2. pRecords \in Nat /\ pNow \in Nat
      BY DEF PromInv, PromTypes
    <3>3. PICK M : M = [key : Keys, value : Nat, timestamp : Nat]
      OBVIOUS
    <3>4. pRecords' = pRecords + 1 /\ pRecords' \in Nat
      BY <3>1, <3>2 DEF PromWrite
    <3>5. PICK em \in M : em = [key |-> k, value |-> pRecords', timestamp |-> pNow]
      BY <3>2, <3>3, <3>4
    <3>6. pChan \in Seq(M)
      BY <3>3, Zenon DEF PromInv, PromTypes
    <3>7. pChan' = Append(pChan, em) \/ pChan' = pChan
      BY <3>1, <3>5, Zenon DEF PromWrite
    <3>8. pChan' \in Seq(M)
      BY <3>6, <3>7
    <3> QED
      BY <3>3, <3>4, <3>8, Zenon
  <2>2. CASE PromClock \/ PromQuery \/ WriteData \/ PromCtxDone \/ UNCHANGED promVars
    BY <2>2 DEF PromClock, PromQuery, WriteData, PromCtxDone, promVars, PromInv, PromTypes
  <2> QED
    BY <2>1, <2>2
<1>4. PromTypes'
  <2>1. IsMap(pData')
    BY <1>1, Zenon DEF PromInv, PromTypes
  <2> QED
    BY <2>1, <1>1, <1>3 DEF PromInv, PromTypes
<1> QED
  BY <1>2, <1>4, Zenon DEF PromInv

\* A key that is recorded is served with its new data point, and listed once.
LEMMA PromRecordStep == ASSUME PromInv, PromRecord PROVE PromInv'
<1>1. PICK em \in [key : Keys, value : Nat, timestamp : Nat] :
        em = Head(pChan) /\ pChan' = Tail(pChan)
        /\ Tail(pChan) \in Seq([key : Keys, value : Nat, timestamp : Nat])
  <2>1. PICK M : M = [key : Keys, value : Nat, timestamp : Nat]
    OBVIOUS
  <2>2. pChan \in Seq(M) /\ pChan # <<>> /\ pChan' = Tail(pChan)
    BY <2>1, Zenon DEF PromRecord, PromInv, PromTypes
  <2>3. Head(pChan) \in M /\ Tail(pChan) \in Seq(M)
    BY <2>2
  <2> QED
    BY <2>1, <2>2, <2>3, Zenon
<1>2. PICK point : point = [value |-> em.value, timestamp |-> em.timestamp]
  OBVIOUS
<1>3. /\ pData' = [k \in DOMAIN pData \union {em.key} |->
                     IF k = em.key THEN point ELSE pData[k]]
      /\ pDataKeys' = IF em.key \in DOMAIN pData THEN pDataKeys
                      ELSE Append(pDataKeys, em.key)
      /\ pLast' = [k \in DOMAIN pLast \union {em.key} |->
                     IF k = em.key THEN [point |-> point, at |-> pNow] ELSE pLast[k]]
      /\ UNCHANGED <<pNow, pRecords, pTick>>
  BY <1>1, <1>2, Zenon DEF PromRecord, RecordMetric
<1>4. DOMAIN pData' = DOMAIN pData \union {em.key}
      /\ DOMAIN pLast' = DOMAIN pLast \union {em.key}
  BY <1>3
<1>5. pDataKeys' \in Seq(Keys) /\ Lists(pDataKeys', pData')
  <2>1. pDataKeys \in Seq(Keys) /\ Range(pDataKeys) = DOMAIN pData /\ IsInjective(pDataKeys)
    BY DEF PromInv, PromTypes, PromKeysInStep
  <2>2. CASE em.key \in DOMAIN pData
    BY <2>1, <2>2, <1>3, <1>4 DEF Lists
  <2>3. CASE em.key \notin DOMAIN pData
    <3>1. PICK n \in Nat : n = Len(pDataKeys) /\ pDataKeys \in [1 .. n -> Keys]
      BY <2>1
    <3>2. PICK q : q = Append(pDataKeys, em.key)
      OBVIOUS
    <3>3. /\ q \in Seq(Keys) /\ DOMAIN q = 1 .. n + 1 /\ q[n + 1] = em.key
          /\ \A i \in 1 .. n : q[i] = pDataKeys[i]
      BY <2>1, <3>1, <3>2
    <3>4. \A i \in 1 .. n : pDataKeys[i] # em.key
      BY <2>1, <2>3, <3>1 DEF Range
    <3>5. \A i \in 1 .. n + 1 : i \in 1 .. n \/ i = n + 1
      BY <3>1
    <3>6. \A i \in 1 .. n : i \in 1 .. n + 1
      BY <3>1
    <3>7. n + 1 \in 1 .. n + 1 /\ DOMAIN pDataKeys = 1 .. n
      BY <3>1
    <3>8. IsInjective(q)
      BY <2>1, <3>3, <3>4, <3>5, <3>7, Zenon DEF IsInjective
    <3>9. Range(q) = Range(pDataKeys) \cup {em.key}
      BY <3>3, <3>5, <3>6, <3>7 DEF Range
    <3> QED
      BY <2>1, <2>3, <3>2, <3>3, <3>8, <3>9, <1>3, <1>4 DEF Lists
  <2> QED
    BY <2>2, <2>3
<1>6. PromTypes'
  <2>1. IsMap(pData')
    BY <1>3, <1>4 DEF IsMap
  <2> QED
    BY <2>1, <1>1, <1>2, <1>3, <1>4, <1>5 DEF PromInv, PromTypes
<1>7. ASSUME NEW k \in DOMAIN pLast'
      PROVE  LET last == pLast'[k]
                 old  == last.point.timestamp + Expiration < pTick'
             IN /\ k \in DOMAIN pData' => pData'[k] = last.point
                /\ k \notin DOMAIN pData' => old
                /\ old /\ last.at < pTick' => k \notin DOMAIN pData'
  <2>1. CASE k = em.key
    <3>1. pLast'[k].point = point /\ pLast'[k].at = pNow /\ pData'[k] = point
          /\ k \in DOMAIN pData'
      BY <2>1, <1>3, <1>4
    <3>2. ~ (pNow < pTick')
      BY <1>3 DEF PromInv, PromTypes
    <3> QED
      BY <3>1, <3>2, Zenon
  <2>2. CASE k # em.key
    <3>1. /\ k \in DOMAIN pLast /\ pLast'[k] = pLast[k] /\ pTick' = pTick
          /\ k \in DOMAIN pData' <=> k \in DOMAIN pData
          /\ k \in DOMAIN pData => pData'[k] = pData[k]
      BY <2>2, <1>3, <1>4
    <3> QED
      BY <3>1, Zenon DEF PromInv, PromKeysInStep
  <2> QED
    BY <2>1, <2>2
<1>8. PromKeysInStep'
  <2>1. DOMAIN pData' \subseteq DOMAIN pLast'
    BY <1>4 DEF PromInv, PromKeysInStep
  <2> QED
    BY <2>1, <1>5, <1>7, Zenon DEF PromKeysInStep, Lists
<1> QED
  BY <1>6, <1>8, Zenon DEF PromInv

\* A tick deletes the data points that are too old at it, and no others.
LEMMA DeleteExpiredStep == ASSUME PromInv, DeleteExpiredMetrics PROVE PromInv'
<1>1. PICK old : old = {k \in DOMAIN pData : pData[k].timestamp + Expiration < pNow}
  OBVIOUS
<1>2. PICK expired \in RangeOrders(old) :
        LET pm == DeleteMetrics([data |-> pData, keys |-> pDataKeys], expired)
        IN pData' = pm.data /\ pDataKeys' = pm.keys
  BY <1>1, Zenon DEF DeleteExpiredMetrics
<1>3. PICK n \in Nat : expired \in [1 .. n -> DOMAIN pData] /\ Range(expired) = old
  <2>1. PICK n \in 0 .. Cardinality(old) : expired \in [1 .. n -> old] /\ Range(expired) = old
    BY <1>2 DEF RangeOrders
  <2>2. n \in Nat
    BY <2>1
  <2> QED
    BY <1>1, <2>1, <2>2
<1>4. PICK pm : pm = DeleteMetrics([data |-> pData, keys |-> pDataKeys], expired)
  OBVIOUS
<1>5. pData' = pm.data /\ pDataKeys' = pm.keys
  BY <1>2, <1>4, Zenon
<1>6. /\ IsMap(pData) /\ pDataKeys \in Seq(Keys)
      /\ Lists(pDataKeys, pData)
  BY Zenon DEF PromInv, PromTypes, PromKeysInStep, Lists
<1>7. /\ pDataKeys' \in Seq(Keys) /\ Lists(pDataKeys', pData')
      /\ pData' = [k \in DOMAIN pData \ old |-> pData[k]]
  <2>1. /\ pm.keys \in Seq(Keys) /\ Lists(pm.keys, pm.data)
        /\ pm.data = [k \in DOMAIN pData \ Range(expired) |-> pData[k]]
    <3>1. pm \in Left(Keys, pData, expired, n)
      BY <1>3, <1>4, <1>6, DeleteMetricsFacts, Zenon
    <3>2. Range(expired) = {expired[j] : j \in 1 .. n}
      BY <1>3 DEF Range
    <3> QED
      BY <3>1, <3>2 DEF Left
  <2> QED
    BY <1>3, <1>5, <2>1, Zenon
<1>8. DOMAIN pData' = DOMAIN pData \ old /\ \A k \in DOMAIN pData' : pData'[k] = pData[k]
  BY <1>7
<1>9. pTick' = pNow /\ UNCHANGED <<pNow, pChan, pRecords, pLast>>
  BY DEF DeleteExpiredMetrics
<1>10. PromTypes'
  <2>1. IsMap(pData')
    BY <1>7, <1>8 DEF IsMap
  <2> QED
    BY <2>1, <1>7, <1>8, <1>9 DEF PromInv, PromTypes
<1>11. ASSUME NEW k \in DOMAIN pLast'
       PROVE  LET last == pLast'[k]
                  tooOld == last.point.timestamp + Expiration < pTick'
              IN /\ k \in DOMAIN pData' => pData'[k] = last.point
                 /\ k \notin DOMAIN pData' => tooOld
                 /\ tooOld /\ last.at < pTick' => k \notin DOMAIN pData'
  <2>1. k \in DOMAIN pLast /\ pLast' = pLast /\ pTick' = pNow
    BY <1>9
  <2>2. CASE k \in DOMAIN pData
    <3>1. pData[k] = pLast[k].point
      BY <2>1, <2>2, Zenon DEF PromInv, PromKeysInStep
    <3>2. k \in old <=> pData[k].timestamp + Expiration < pNow
      BY <2>2, <1>1
    <3> QED
      BY <2>1, <2>2, <3>1, <3>2, <1>8, Zenon
  <2>3. CASE k \notin DOMAIN pData
    <3>1. pLast[k].point.timestamp + Expiration < pTick
      BY <2>1, <2>3, Zenon DEF PromInv, PromKeysInStep
    <3>2. PICK t \in Nat : t = pLast[k].point.timestamp
      BY <2>1, Zenon DEF PromInv, PromTypes
    <3>3. t + Expiration < pNow
      BY <3>1, <3>2, ExpirationAssumption DEF PromInv, PromTypes
    <3> QED
      BY <2>1, <2>3, <3>2, <3>3, <1>8, Zenon
  <2> QED
    BY <2>2, <2>3
<1>12. PromKeysInStep'
  <2>1. DOMAIN pData' \subseteq DOMAIN pLast'
    BY <1>8, <1>9 DEF PromInv, PromKeysInStep
  <2> QED
    BY <2>1, <1>7, <1>11, Zenon DEF PromKeysInStep, Lists
<1> QED
  BY <1>10, <1>12, Zenon DEF PromInv

\* Every step keeps the invariant.
LEMMA PromStep == PromInv /\ [PromNext]_promVars => PromInv'
  BY PromIdleStep, PromRecordStep, DeleteExpiredStep, Zenon DEF PromNext

\* For every set of keys, expiration and bounds, the keys in the slice and the data
\* points in the map stay in step, whatever ticks, records and queries interleave.
THEOREM PromKeysStayInStep == PromSpec => []PromKeysInStep
<1>1. PromInv => PromKeysInStep
  BY Zenon DEF PromInv
<1> QED
  BY <1>1, PromInitInv, PromStep, PTL DEF PromSpec

-----------------------------------------------------------------------------
(* Lifecycle *)

\* What the accumulator of Init ranges over: handlers, ports, listeners.
URLs == {"/debug", "/metrics", "/status"}
Ports == STRING \cup {"http", "grpc"}
AnyListeners == [port : Ports, by : Nat]
Accs == [open : SUBSET AnyListeners, closers : SUBSET AnyListeners, grpc : Nat,
         mux : SUBSET URLs, err : BOOLEAN, panic : BOOLEAN]

\* What the first n servers have added to acc.
ServersFrom(acc, srvs, n, r) ==
  /\ r.grpc = acc.grpc /\ r.mux = acc.mux /\ r.panic = acc.panic
  /\ acc.open \subseteq r.open /\ acc.closers \subseteq r.closers
  /\ \A l \in r.open : 
       \/ l \in acc.open
       \/ l.by = cAttempt + 1 /\ ~InUse(l.port, acc.open) /\ (l \in r.closers \/ (r.err /\ l.port = "https_nocert"))
  /\ \A l \in r.closers : l \in acc.closers \/ (l.by = cAttempt + 1 /\ ~InUse(l.port, acc.open))
  /\ acc.err => r.err
  /\ ~r.err => \A j \in 1 .. n : \/ srvs[j] \in {"grpc_default", "external"}
                                 \/ [port |-> srvs[j], by |-> cAttempt + 1] \in r.open

\* What one server adds: nothing, a listener that nobody closes, or one with its closer.
Adds(r, srv, l, q) ==
  /\ q.grpc = r.grpc /\ q.mux = r.mux /\ q.panic = r.panic
  /\ r.err => q = r
  /\ \/ /\ q.open = r.open /\ q.closers = r.closers
        /\ q.err \/ srv \in {"grpc_default", "external"}
     \/ /\ q.open = r.open \cup {l} /\ q.closers = r.closers
        /\ q.err /\ srv = "https_nocert" /\ ~InUse(srv, r.open) /\ ~r.err
     \/ /\ q.open = r.open \cup {l} /\ q.closers = r.closers \cup {l}
        /\ ~q.err /\ ~InUse(srv, r.open) /\ ~r.err

\* What one server adds, by the ports that are in use.
LEMMA ServerNewFacts ==
  ASSUME NEW r \in Accs, NEW srv \in STRING, cAttempt \in Nat,
         NEW l, l = [port |-> srv, by |-> cAttempt + 1]
  PROVE  ServerNew(r, srv) \in Accs /\ Adds(r, srv, l, ServerNew(r, srv))
<1> DEFINE q == ServerNew(r, srv)
           listens == srv \notin {"grpc_default", "external"}
<1>l. l \in AnyListeners
  BY DEF AnyListeners, Ports
<1>1. CASE r.err
  BY <1>1 DEF ServerNew, Adds
<1>2. CASE ~r.err /\ listens /\ InUse(srv, r.open)
  <2>1. q = [r EXCEPT !.err = TRUE]
    BY <1>2 DEF ServerNew
  <2> HIDE DEF q, Adds
  <2>2. q \in Accs /\ q.grpc = r.grpc /\ q.mux = r.mux /\ q.panic = r.panic /\ q.open = r.open
        /\ q.closers = r.closers /\ q.err
    BY <2>1 DEF Accs
  <2> QED BY <2>2, <1>2 DEF q, Adds
<1>3. CASE ~r.err /\ ~(listens /\ InUse(srv, r.open)) /\ srv = "https_nocert"
  <2>1. q = [r EXCEPT !.open = @ \cup {l}, !.err = TRUE]
    BY <1>3 DEF ServerNew
  <2> HIDE DEF q, Adds
  <2>2. q \in Accs /\ q.grpc = r.grpc /\ q.mux = r.mux /\ q.panic = r.panic
        /\ q.open = r.open \cup {l} /\ q.closers = r.closers /\ q.err
    BY <2>1, <1>l DEF Accs
  <2> QED BY <2>2, <1>3 DEF q, Adds
<1>4. CASE ~r.err /\ ~InUse(srv, r.open) /\ srv # "https_nocert" /\ listens
  <2>1. q = [r EXCEPT !.open = @ \cup {l}, !.closers = @ \cup {l}]
    BY <1>4 DEF ServerNew
  <2> HIDE DEF q, Adds
  <2>2. q \in Accs /\ q.grpc = r.grpc /\ q.mux = r.mux /\ q.panic = r.panic
        /\ q.open = r.open \cup {l} /\ q.closers = r.closers \cup {l} /\ q.err = r.err
    BY <2>1, <1>l DEF Accs
  <2> QED BY <2>2, <1>4 DEF q, Adds
<1>5. CASE ~r.err /\ ~listens
  <2>1. q = (IF srv = "grpc_default" /\ r.grpc = 0 THEN [r EXCEPT !.err = TRUE] ELSE r)
    BY <1>5 DEF ServerNew
  <2> HIDE DEF q, Adds
  <2>2. q \in Accs /\ q.grpc = r.grpc /\ q.mux = r.mux /\ q.panic = r.panic
        /\ q.open = r.open /\ q.closers = r.closers
    BY <2>1 DEF Accs
  <2> QED BY <2>2, <1>5 DEF q, Adds
<1> QED BY <1>1, <1>2, <1>3, <1>4, <1>5

\* One more round of servers.Init keeps ServersFrom.
LEMMA ServersFromStep ==
  ASSUME NEW acc \in Accs, NEW srvs \in Seq(STRING), NEW i \in 1 .. Len(srvs), cAttempt \in Nat,
         NEW r \in Accs, ServersFrom(acc, srvs, i - 1, r)
  PROVE  ServersFrom(acc, srvs, i, ServerNew(r, srvs[i]))
<1>1. PICK q : q = ServerNew(r, srvs[i])
  OBVIOUS
<1>2. PICK l : l = [port |-> srvs[i], by |-> cAttempt + 1]
  OBVIOUS
<1>3. srvs[i] \in STRING /\ l.port = srvs[i] /\ l.by = cAttempt + 1
  BY <1>2
<1>4. Adds(r, srvs[i], l, q)
  BY <1>1, <1>2, <1>3, ServerNewFacts, Zenon
<1>5. ~InUse(srvs[i], r.open) => ~InUse(srvs[i], acc.open)
  BY Zenon DEF ServersFrom, InUse
<1>6. q.grpc = acc.grpc /\ q.mux = acc.mux /\ q.panic = acc.panic
  BY <1>4, Zenon DEF ServersFrom, Adds
<1>7. acc.open \subseteq q.open /\ acc.closers \subseteq q.closers
  BY <1>4, Zenon DEF ServersFrom, Adds
<1>8. ASSUME NEW m \in q.open, m \notin acc.open
      PROVE  /\ m.by = cAttempt + 1 /\ ~InUse(m.port, acc.open)
             /\ m \in q.closers \/ (q.err /\ m.port = "https_nocert")
  BY <1>3, <1>4, <1>5, <1>8, Zenon DEF ServersFrom, Adds
<1>9. ASSUME NEW m \in q.closers, m \notin acc.closers
      PROVE  m.by = cAttempt + 1 /\ ~InUse(m.port, acc.open)
  BY <1>3, <1>4, <1>5, <1>9, Zenon DEF ServersFrom, Adds
<1>10. acc.err => q.err
  BY <1>4, Zenon DEF ServersFrom, Adds
<1>11. ASSUME ~q.err, NEW j \in 1 .. i
       PROVE  \/ srvs[j] \in {"grpc_default", "external"}
              \/ [port |-> srvs[j], by |-> cAttempt + 1] \in q.open
  <2>1. j \in 1 .. (i - 1) \/ j = i
    OBVIOUS
  <2>2. CASE j = i
    BY <2>2, <1>2, <1>4, <1>11, Zenon DEF Adds
  <2>3. CASE j \in 1 .. (i - 1)
    BY <2>3, <1>4, <1>11, Zenon DEF ServersFrom, Adds
  <2> QED BY <2>1, <2>2, <2>3, Zenon
<1>12. ServersFrom(acc, srvs, i, q)
  BY <1>6, <1>7, <1>8, <1>9, <1>10, <1>11, Zenon DEF ServersFrom, Adds
<1> QED BY <1>12, <1>1, Zenon

\* servers.Init as a whole, for any list of servers.
LEMMA ServersInitFacts ==
  ASSUME NEW acc \in Accs, NEW srvs \in Seq(STRING), cAttempt \in Nat
  PROVE  /\ ServersInit(acc, srvs) \in Accs
         /\ ServersFrom(acc, srvs, Len(srvs), ServersInit(acc, srvs))
<1>1. PICK n : n = Len(srvs)
  OBVIOUS
<1>2. n \in Nat /\ DOMAIN srvs = 1 .. n
  BY <1>1
<1>3. PICK G : G = [i \in 0 .. n |-> {r \in Accs : ServersFrom(acc, srvs, i, r)}]
  OBVIOUS
<1>4. 0 \in 0 .. n /\ n \in 0 .. n /\ 1 .. 0 = {} /\ \A i \in 1 .. n : i \in 0 .. n /\ i - 1 \in 0 .. n
  BY <1>2
<1>5. G[0] = {r \in Accs : ServersFrom(acc, srvs, 0, r)} /\ G[n] = {r \in Accs : ServersFrom(acc, srvs, n, r)}
  BY <1>3, <1>4, Zenon
<1>6. ServersFrom(acc, srvs, 0, acc)
  <2>1. \A j \in 1 .. 0 : FALSE
    BY <1>4, Zenon
  <2> QED BY <2>1, Zenon DEF ServersFrom
<1>7. acc \in G[0]
  BY <1>5, <1>6, Zenon
<1>8. StepsWithin(ServerNew, srvs, G)
  <2> SUFFICES ASSUME NEW i \in DOMAIN srvs, NEW a \in G[i - 1]
               PROVE  ServerNew(a, srvs[i]) \in G[i]
    BY Zenon DEF StepsWithin
  <2>1. i \in 1 .. n /\ srvs[i] \in STRING
    BY <1>2
  <2>2. G[i] = {r \in Accs : ServersFrom(acc, srvs, i, r)}
        /\ G[i - 1] = {r \in Accs : ServersFrom(acc, srvs, i - 1, r)}
    BY <2>1, <1>3, <1>4, Zenon
  <2>3. a \in Accs /\ ServersFrom(acc, srvs, i - 1, a)
    BY <2>2, Zenon
  <2>4. ServersFrom(acc, srvs, i, ServerNew(a, srvs[i]))
    BY <2>1, <2>3, <1>1, ServersFromStep, Zenon
  <2>5. ServerNew(a, srvs[i]) \in Accs
    BY <2>1, <2>3, ServerNewFacts, Zenon
  <2> QED BY <2>2, <2>4, <2>5, Zenon
<1>9. ForEach(ServerNew, acc, srvs) \in G[n]
  BY <1>2, <1>7, <1>8, ForEachSteps, Zenon
<1> QED BY <1>1, <1>5, <1>9, Zenon DEF ServersInit

\* What surfacers leave alone.
SurfacersFrom(acc, r) ==
  r.grpc = acc.grpc /\ r.open = acc.open /\ r.closers = acc.closers /\ (acc.err => r.err)

\* One surfacer adds one handler, or panics on one that is there.
LEMMA initSurfacerFacts ==
  ASSUME NEW r \in Accs, NEW s
  PROVE  initSurfacer(r, s) \in Accs /\ SurfacersFrom(r, initSurfacer(r, s))
<1>1. CASE r.err \/ r.panic \/ s \notin DOMAIN SurfacerURLs
  BY <1>1 DEF initSurfacer, SurfacersFrom
<1>2. CASE ~r.err /\ ~r.panic /\ s \in DOMAIN SurfacerURLs
  <2>0. /\ SurfacerURLs["prometheus"] = "/metrics" /\ SurfacerURLs["probestatus"] = "/status"
        /\ DOMAIN SurfacerURLs = {"prometheus", "probestatus"}
    BY Zenon DEF SurfacerURLs
  <2>1. SurfacerURLs[s] \in URLs
    <3>1. "/metrics" \in URLs /\ "/status" \in URLs
      BY Zenon DEF URLs
    <3>2. s = "prometheus" \/ s = "probestatus"
      BY <1>2, <2>0, Zenon
    <3> QED BY <2>0, <3>1, <3>2, Zenon
  <2>2. PICK q : q = initSurfacer(r, s)
    OBVIOUS
  <2>3. \/ q = [r EXCEPT !.mux = @ \cup {SurfacerURLs[s]}]
        \/ q = [r EXCEPT !.panic = TRUE]
        \/ q = [r EXCEPT !.err = TRUE]
    BY <1>2, <2>2, Zenon DEF initSurfacer
  <2>4. q \in Accs /\ q.grpc = r.grpc /\ q.open = r.open /\ q.closers = r.closers
    BY <2>1, <2>3 DEF Accs
  <2> QED BY <2>2, <2>4, <1>2, Zenon DEF SurfacersFrom
<1> QED BY <1>1, <1>2

\* surfacers.Init as a whole, for any list of surfacers.
LEMMA SurfacersInitFacts ==
  ASSUME NEW acc \in Accs, NEW defs \in Seq(STRING)
  PROVE  /\ SurfacersInit(acc, defs) \in Accs
         /\ SurfacersFrom(acc, SurfacersInit(acc, defs))
<1> DEFINE ds == IF defs = <<>> THEN defaultSurfacers ELSE defs
           required(r, s) == IF s \in Range(ds) THEN r ELSE initSurfacer(r, s)
<1>1. PICK T : T = {r \in Accs : SurfacersFrom(acc, r)}
  OBVIOUS
<1>2. acc \in T
  BY <1>1, Zenon DEF SurfacersFrom
<1>3. ASSUME NEW r \in T, NEW s
      PROVE  initSurfacer(r, s) \in T
  <2>1. r \in Accs /\ SurfacersFrom(acc, r)
    BY <1>1, Zenon
  <2>2. initSurfacer(r, s) \in Accs /\ SurfacersFrom(r, initSurfacer(r, s))
    BY <2>1, initSurfacerFacts, Zenon
  <2> QED BY <2>1, <2>2, <1>1, Zenon DEF SurfacersFrom
<1>4. PICK G : G = [i \in Nat |-> T]
  OBVIOUS
<1>5. \A i \in Nat : G[i] = T
  BY <1>4, Zenon
<1>6. DOMAIN defaultSurfacers = 1 .. 2 /\ DOMAIN requiredSurfacers = 1 .. 1
  BY DEF defaultSurfacers, requiredSurfacers
<1>7. PICK d : d = ds
  OBVIOUS
<1>17. PICK n \in Nat : DOMAIN d = 1 .. n
  <2>1. Len(defs) \in Nat /\ DOMAIN defs = 1 .. Len(defs) /\ 2 \in Nat
    OBVIOUS
  <2>2. d = defaultSurfacers \/ d = defs
    BY <1>7, Zenon
  <2> QED BY <1>6, <2>1, <2>2, Zenon
<1>8. ASSUME NEW k \in Nat, NEW i \in 1 .. k PROVE i \in Nat /\ i - 1 \in Nat
  OBVIOUS
<1>9. 0 \in Nat /\ 1 \in Nat
  OBVIOUS
<1>10. StepsWithin(initSurfacer, d, G)
  <2> SUFFICES ASSUME NEW i \in DOMAIN d, NEW a \in G[i - 1]
               PROVE  initSurfacer(a, d[i]) \in G[i]
    BY Zenon DEF StepsWithin
  <2>1. i \in Nat /\ i - 1 \in Nat
    BY <1>17, <1>8, Zenon
  <2>2. a \in T /\ G[i] = T
    BY <1>5, <2>1, Zenon
  <2>3. initSurfacer(a, d[i]) \in T
    BY <1>3, <2>2, Zenon
  <2> QED BY <2>2, <2>3, Zenon
<1>12. PICK m : m = ForEach(initSurfacer, acc, d)
  OBVIOUS
<1>13. m \in T
  <2>1. ForEach(initSurfacer, acc, d) \in G[n]
    BY <1>2, <1>5, <1>17, <1>9, <1>10, ForEachSteps, Zenon
  <2> QED BY <2>1, <1>5, <1>17, <1>12, Zenon
<1> HIDE DEF ds
<1>14. StepsWithin(required, requiredSurfacers, G)
  <2> SUFFICES ASSUME NEW i \in DOMAIN requiredSurfacers, NEW a \in G[i - 1]
               PROVE  required(a, requiredSurfacers[i]) \in G[i]
    BY Zenon DEF StepsWithin
  <2>1. i \in Nat /\ i - 1 \in Nat
    BY <1>6, <1>8, <1>9, Zenon
  <2>2. a \in T /\ G[i] = T
    BY <1>5, <2>1, Zenon
  <2>3. initSurfacer(a, requiredSurfacers[i]) \in T
    BY <1>3, <2>2, Zenon
  <2> QED BY <2>2, <2>3, Zenon
<1>15. ForEach(required, m, requiredSurfacers) \in T
  <2> HIDE DEF required
  <2>1. ForEach(required, m, requiredSurfacers) \in G[1]
    BY <1>13, <1>5, <1>6, <1>9, <1>14, ForEachSteps, Zenon
  <2> QED BY <2>1, <1>5, <1>9, Zenon
<1>16. SurfacersInit(acc, defs) = ForEach(required, m, requiredSurfacers)
  BY <1>7, <1>12, Zenon DEF SurfacersInit, ds
<1> QED BY <1>1, <1>15, <1>16, Zenon

\* Listeners of the attempts made so far, and calls of Start.
Listeners == [port : Ports, by : 1 .. cAttempt]
Calls == [of : Nat, ln : Nat, grpc : Nat, grpcLn : Nat, ctx : {"live", "done"},
          http : {"starting", "serving", "closed"}, clean : {"wait", "closed", "done"}]

\* Types, and what the patient user does not do.
LifeTypes ==
  /\ cPatient \in BOOLEAN /\ cPc \in {"out", "inited", "panic", "exit"}
  /\ cAttempt \in Nat /\ cConf \in Seq(Configs) /\ Len(cConf) = cAttempt
  /\ cProber \in 0 .. cAttempt /\ cLn \in 0 .. cAttempt /\ cGrpcLn \in 0 .. cAttempt
  /\ cCancel \in 0 .. cAttempt
  /\ cOpen \subseteq Listeners /\ cClosers \subseteq Listeners
  /\ cEnded \subseteq 0 .. cAttempt /\ cStopped \subseteq 0 .. cAttempt
  /\ rcGrpc \in 0 .. cAttempt /\ (rcGrpc # 0 => cConf[rcGrpc].grpc)
  /\ cRuns \in Seq(Calls)

\* What attempt a has opened serves, and nobody is about to close it.
Serving(a) ==
  /\ a \notin cEnded /\ a \notin cStopped
  /\ [port |-> "http", by |-> a] \in cOpen
  /\ cConf[a].grpc => [port |-> "grpc", by |-> a] \in cOpen
  /\ \A j \in DOMAIN cConf[a].servers :
       cConf[a].servers[j] \in {"grpc_default", "external"}
         \/ [port |-> cConf[a].servers[j], by |-> a] \in cOpen

\* The prober that is initialized is that of the last attempt.
ProberSound ==
  cProber # 0 =>
    /\ cProber = cAttempt /\ cCancel = cAttempt /\ cLn = cAttempt
    /\ cGrpcLn = (IF cConf[cAttempt].grpc THEN cAttempt ELSE 0) /\ rcGrpc = cGrpcLn
    /\ \A l \in cOpen : l.by = cProber => l.port \in {"http", "grpc"} \/ l \in cClosers

\* Every call of Start has returned and cleaned up.
AllDone == \A i \in DOMAIN cRuns : cRuns[i].clean = "done"

\* Between two attempts of a program that waits, only one run is not cleaned up.
RunSound(r) ==
  /\ r.ln <= cAttempt /\ r.grpcLn <= cAttempt
  /\ r.ctx = "live" => r.clean = "wait"
  /\ r.clean # "done" =>
       /\ cPc = "out" /\ cProber # 0 /\ r.of = cProber
       /\ r.ln = cLn /\ r.grpc = rcGrpc /\ r.grpcLn = cGrpcLn
  /\ r.clean = "wait" => Serving(cProber)
  /\ r.clean = "closed" => cProber \in cEnded
  /\ r.clean = "done" => cProber = 0 \/ (r.ln < cProber /\ r.grpcLn < cProber)
  /\ r.http = "closed" => r.clean # "wait" /\ Lns(r) \cap cOpen = {}

\* Between Init and Start nothing of an earlier call is left.
PcSound ==
  /\ cPc = "inited" => cProber # 0 /\ Serving(cProber) /\ AllDone
  /\ cPc = "out" => \/ cProber = 0 /\ AllDone
                    \/ \E i \in DOMAIN cRuns : cRuns[i].clean # "done"
  /\ cPc \in {"panic", "exit"} => cProber = 0 /\ AllDone
  /\ cPc = "exit" => \E a \in 1 .. cAttempt - 1 : cConf[a].grpc

\* One call of Start at most has not cleaned up.
OneCall ==
  \A i, j \in DOMAIN cRuns : cRuns[i].clean # "done" /\ cRuns[j].clean # "done" => i = j

\* The inductive invariant of behaviours with a patient user.
LifeSound ==
  /\ LifeTypes /\ ProberSound /\ PcSound /\ OneCall /\ ListenersAccounted
  /\ \A i \in DOMAIN cRuns : RunSound(cRuns[i])

\* LifeSound is claimed only of a user who waits for the cleanup.
LifeInv == cPatient => LifeSound

\* What Init leaves behind when it succeeds with config c, from acc to r.
InitResult(c, acc, r) ==
  /\ r \in Accs /\ acc.open \subseteq r.open /\ acc.closers \subseteq r.closers
  /\ \A l \in r.open : 
       \/ l \in acc.open
       \/ l.by = cAttempt + 1 /\ ~InUse(l.port, acc.open) /\ (l \in r.closers \/ (r.err /\ l.port = "https_nocert"))
  /\ \A l \in r.closers : l \in acc.closers \/ l.by = cAttempt + 1
  /\ ~r.err => \A j \in DOMAIN c.servers :
                 \/ c.servers[j] \in {"grpc_default", "external"}
                 \/ [port |-> c.servers[j], by |-> cAttempt + 1] \in r.open

\* ProberInit: listeners of servers only, with a goroutine that closes them but
\* for the one that fails without certificates.
LEMMA ProberInitFacts ==
  ASSUME NEW acc \in Accs, NEW c \in Configs, cAttempt \in Nat
  PROVE  InitResult(c, acc, ProberInit(acc, c))
<1>0. c.servers \in Seq(STRING) /\ c.surfacers \in Seq(STRING)
  BY ConfigAssumption, Zenon
<1>1. CASE c.fault = "probe"
  <2>1. PICK r : r = [acc EXCEPT !.err = TRUE]
    OBVIOUS
  <2>2. r \in Accs /\ r.open = acc.open /\ r.closers = acc.closers /\ r.err
    BY <2>1 DEF Accs
  <2> QED BY <1>1, <2>1, <2>2, Zenon DEF ProberInit, InitResult
<1>2. CASE c.fault # "probe"
  <2>1. PICK s : s = ServersInit(acc, c.servers)
    OBVIOUS
  <2>2. s \in Accs /\ ServersFrom(acc, c.servers, Len(c.servers), s)
    BY <1>0, <2>1, ServersInitFacts, Zenon
  <2>3. PICK r : r = SurfacersInit(s, c.surfacers)
    OBVIOUS
  <2>4. r \in Accs /\ SurfacersFrom(s, r)
    BY <1>0, <2>2, <2>3, SurfacersInitFacts, Zenon
  <2>5. ProberInit(acc, c) = r
    BY <1>2, <2>1, <2>3, Zenon DEF ProberInit
  <2>6. DOMAIN c.servers = 1 .. Len(c.servers)
    BY <1>0
  <2>7. InitResult(c, acc, r)
    BY <2>2, <2>4, <2>6, Zenon DEF InitResult, ServersFrom, SurfacersFrom
  <2> QED BY <2>5, <2>7, Zenon
<1> QED BY <1>1, <1>2, Zenon

\* Nothing is open before the first Init.
LEMMA LifeInitInv == LifeInit => LifeInv
<1> SUFFICES ASSUME LifeInit PROVE LifeSound
  BY Zenon DEF LifeInv
<1> USE DEF LifeInit
<1>0. /\ cPc = "out" /\ cAttempt = 0 /\ cConf = <<>> /\ cProber = 0 /\ cRuns = <<>> /\ cOpen = {}
      /\ DOMAIN cRuns = {} /\ cPatient \in BOOLEAN
  OBVIOUS
<1>1. LifeTypes
  BY DEF LifeTypes
<1>2. ProberSound /\ OneCall /\ ListenersAccounted /\ \A i \in DOMAIN cRuns : RunSound(cRuns[i])
  BY <1>0, Zenon DEF ProberSound, OneCall, ListenersAccounted
<1>3. PcSound
  BY <1>0 DEF PcSound, AllDone
<1> QED BY <1>1, <1>2, <1>3, Zenon DEF LifeSound

\* The listeners of a call.
LEMMA LnsFacts ==
  ASSUME NEW r, NEW l \in Lns(r)
  PROVE  \/ l = [port |-> "http", by |-> r.ln] /\ l.by = r.ln /\ l.port = "http" /\ r.ln # 0
         \/ l = [port |-> "grpc", by |-> r.grpcLn] /\ l.by = r.grpcLn /\ l.port = "grpc" /\ r.grpcLn # 0
BY DEF Lns

\* An attempt of a program that waits finds everything cleaned up.
LEMMA AttemptFacts ==
  ASSUME LifeSound, cPatient, NEW c \in Configs, Attempted(c)
  PROVE  /\ cAttempt' = cAttempt + 1 /\ cConf' \in Seq(Configs) /\ Len(cConf') = cAttempt'
         /\ cPc = "out" /\ cProber = 0 /\ AllDone
         /\ \A a \in 1 .. cAttempt : cConf'[a] = cConf[a]
         /\ cConf'[cAttempt + 1] = c
<1>1. cAttempt' = cAttempt + 1 /\ cConf' = Append(cConf, c) /\ cPc = "out" /\ Quiet
  BY Zenon DEF Attempted
<1>2. cConf \in Seq(Configs) /\ Len(cConf) = cAttempt /\ cAttempt \in Nat
  BY Zenon DEF LifeSound, LifeTypes
<1>3. cConf' \in Seq(Configs) /\ Len(cConf') = cAttempt'
      /\ (\A a \in 1 .. cAttempt : cConf'[a] = cConf[a]) /\ cConf'[cAttempt + 1] = c
  BY <1>1, <1>2
<1>4. AllDone
  BY <1>1, Zenon DEF Quiet, AllDone
<1>5. cProber = 0
  BY <1>1, <1>4, Zenon DEF LifeSound, PcSound, AllDone
<1> QED BY <1>1, <1>3, <1>4, <1>5, Zenon

\* An attempt that fails leaves no prober behind, and new listeners only as
\* ListenersAccounted says.
LEMMA FailedAttempt ==
  ASSUME LifeSound, cPatient, NEW c \in Configs, Attempted(c),
         cPatient' = cPatient, cProber' = cProber, cLn' = cLn, cGrpcLn' = cGrpcLn,
         cCancel' = cCancel, cRuns' = cRuns, cStopped' = cStopped,
         cOpen' \subseteq AnyListeners, cClosers' \subseteq AnyListeners,
         cEnded' = cEnded \/ cEnded' = cEnded \cup {cAttempt + 1},
         rcGrpc' = rcGrpc \/ (c.grpc /\ rcGrpc' = cAttempt + 1),
         cPc' \in {"out", "panic", "exit"}, cPc' = "exit" => rcGrpc # 0,
         cClosers \subseteq cClosers',
         \A l \in cClosers' : l \in cClosers \/ l.by = cAttempt + 1,
         \A l \in cOpen' : l \in cOpen \/
            /\ l.by = cAttempt + 1
            /\ \/ cPc' # "out"
               \/ l.port = "grpc"
               \/ l.port = "http" /\ c.grpc
               \/ l.port = "https_nocert"
               \/ l \in cClosers' /\ l.by \in cEnded'
  PROVE  LifeSound'
<1>0. LifeTypes
  BY Zenon DEF LifeSound
<1>1. PICK n \in Nat : n = cAttempt
  BY <1>0, Zenon DEF LifeTypes
<1>2. /\ cAttempt' = n + 1 /\ cConf' \in Seq(Configs) /\ Len(cConf') = n + 1
      /\ cPc = "out" /\ cProber = 0 /\ AllDone
      /\ (\A a \in 1 .. n : cConf'[a] = cConf[a]) /\ cConf'[n + 1] = c
  BY <1>1, AttemptFacts, Zenon
<1>3. \A a \in 0 .. n : a \in 0 .. (n + 1)
  OBVIOUS
<1>4. n + 1 \in 1 .. (n + 1) /\ n + 1 \in 0 .. (n + 1) /\ \A a \in 1 .. n : a \in 1 .. (n + 1)
  OBVIOUS
<1>5. cOpen' \subseteq Listeners' /\ cClosers' \subseteq Listeners'
  <2>1. ASSUME NEW l \in AnyListeners, l.by \in 1 .. (n + 1) PROVE l \in Listeners'
    BY <2>1, <1>2 DEF AnyListeners, Listeners
  <2>2. \A l \in cOpen \cup cClosers : l.by \in 1 .. n
    BY <1>0, <1>1 DEF LifeTypes, Listeners
  <2>3. \A l \in cOpen' \cup cClosers' : l.by \in 1 .. (n + 1)
    BY <2>2, <1>1, <1>4, Zenon
  <2> QED BY <2>1, <2>3, Zenon
<1>6. rcGrpc' \in 0 .. (n + 1) /\ (rcGrpc' # 0 => cConf'[rcGrpc'].grpc)
  <2>1. CASE rcGrpc' = rcGrpc
    <3>1. rcGrpc \in 0 .. n /\ (rcGrpc # 0 => cConf[rcGrpc].grpc)
      BY <1>0, <1>1, Zenon DEF LifeTypes
    <3>2. rcGrpc # 0 => rcGrpc \in 1 .. n
      BY <3>1
    <3> QED BY <2>1, <3>1, <3>2, <1>2, <1>3, Zenon
  <2>2. CASE c.grpc /\ rcGrpc' = cAttempt + 1
    BY <2>2, <1>1, <1>2, <1>4, Zenon
  <2> QED BY <2>1, <2>2
<1>7. LifeTypes'
  <2>1. /\ cProber' \in 0 .. (n + 1) /\ cLn' \in 0 .. (n + 1) /\ cGrpcLn' \in 0 .. (n + 1)
        /\ cCancel' \in 0 .. (n + 1)
    BY <1>0, <1>1, <1>3, Zenon DEF LifeTypes
  <2>2. cEnded' \subseteq 0 .. (n + 1) /\ cStopped' \subseteq 0 .. (n + 1)
    BY <1>0, <1>1, <1>3, <1>4, Zenon DEF LifeTypes
  <2>3. cPatient' \in BOOLEAN /\ cPc' \in {"out", "inited", "panic", "exit"} /\ cRuns' \in Seq(Calls)
    BY <1>0, Zenon DEF LifeTypes
  <2>4. n + 1 \in Nat
    OBVIOUS
  <2> QED BY <2>1, <2>2, <2>3, <2>4, <1>2, <1>5, <1>6, Zenon DEF LifeTypes
<1>8. ProberSound' /\ OneCall'
  BY <1>2, Zenon DEF ProberSound, OneCall, LifeSound
<1>9. AllDone'
  BY <1>2, Zenon DEF AllDone
<1>10. PcSound'
  <2>1. cPc' = "exit" => \E a \in 1 .. cAttempt' - 1 : cConf'[a].grpc
    <3>1. cPc' = "exit" => rcGrpc \in 1 .. n /\ cConf[rcGrpc].grpc
      BY <1>0, <1>1 DEF LifeTypes
    <3>2. cAttempt' - 1 = n
      BY <1>2
    <3> QED BY <3>1, <3>2, <1>2, Zenon
  <2> QED BY <2>1, <1>2, <1>9, Zenon DEF PcSound
<1>11. ASSUME NEW i \in DOMAIN cRuns PROVE RunSound(cRuns[i])'
  <2>1. PICK r \in Calls : r = cRuns[i] /\ r = cRuns'[i]
    BY <1>0 DEF LifeTypes
  <2>2. RunSound(r) /\ r.clean = "done"
    BY <2>1, <1>2, Zenon DEF LifeSound, AllDone
  <2>3. r.ln \in Nat /\ r.grpcLn \in Nat /\ r.ln <= n /\ r.grpcLn <= n
    BY <2>2, <1>1 DEF RunSound, Calls
  <2>4. \A l \in Lns(r) : l.by = r.ln \/ l.by = r.grpcLn
    BY LnsFacts, Zenon
  <2>5. \A l \in Lns(r) : l.by # n + 1
    BY <2>3, <2>4
  <2>6. r.http = "closed" => Lns(r) \cap cOpen' = {}
    BY <2>2, <2>5, <1>1, Zenon DEF RunSound
  <2>7. r.ln <= cAttempt' /\ r.grpcLn <= cAttempt'
    BY <2>3, <1>2
  <2>8. r.ctx # "live"
    BY <2>2, Zenon DEF RunSound
  <2> QED BY <2>1, <2>2, <2>6, <2>7, <2>8, <1>2, Zenon DEF RunSound
<1>12. ListenersAccounted'
  <2> SUFFICES ASSUME cPc' = "out", NEW l \in cOpen'
               PROVE  \/ l \in cClosers' /\ l.by \in cEnded'
                      \/ \E i \in DOMAIN cRuns : l \in Lns(cRuns[i]) /\ cRuns[i].http # "closed"
                      \/ Leaked(l)'
    BY Zenon DEF ListenersAccounted
  <2>0. 0 # n + 1
    OBVIOUS
  <2>1. CASE l \in cOpen
    <3>1. l.by \in 1 .. n
      BY <2>1, <1>0, <1>1 DEF LifeTypes, Listeners
    <3>2. l.by # cProber
      BY <3>1, <1>2
    <3>3. Leaked(l) => Leaked(l)'
      BY <3>1, <1>2, Zenon DEF Leaked
    <3>4. \/ l \in cClosers /\ l.by \in cEnded
          \/ \E i \in DOMAIN cRuns : l \in Lns(cRuns[i]) /\ cRuns[i].http # "closed"
          \/ Leaked(l)
      BY <2>1, <3>2, <1>2, Zenon DEF LifeSound, ListenersAccounted
    <3> QED BY <3>3, <3>4, Zenon
  <2>2. CASE l \notin cOpen
    <3>1. /\ l.by = n + 1
          /\ \/ l.port = "grpc" \/ (l.port = "http" /\ c.grpc) \/ l.port = "https_nocert"
             \/ (l \in cClosers' /\ l.by \in cEnded')
      BY <2>2, <1>1, Zenon
    <3> QED BY <3>1, <2>0, <1>2, Zenon DEF Leaked
  <2> QED BY <2>1, <2>2
<1> QED BY <1>7, <1>8, <1>10, <1>11, <1>12, Zenon DEF LifeSound

\* The prober is initialized: everything of its config is open.
LEMMA Initialized ==
  ASSUME LifeSound, cPatient, NEW c \in Configs, Attempted(c), NEW r,
         cPatient' = cPatient, cRuns' = cRuns, cStopped' = cStopped, cEnded' = cEnded,
         cPc' = "inited", cProber' = cAttempt + 1, cLn' = cAttempt + 1, cCancel' = cAttempt + 1,
         cGrpcLn' = (IF c.grpc THEN cAttempt + 1 ELSE 0),
         rcGrpc' = (IF c.grpc THEN cAttempt + 1 ELSE rcGrpc), c.grpc \/ rcGrpc = 0,
         cOpen' = r.open, cClosers' = r.closers, r \in Accs, ~r.err,
         cOpen \subseteq r.open, cClosers \subseteq r.closers,
         \A l \in r.open :
           \/ l \in cOpen
           \/ l.by = cAttempt + 1 /\ (l.port \in {"http", "grpc"} \/ l \in r.closers),
         \A l \in r.closers : l \in cClosers \/ l.by = cAttempt + 1,
         [port |-> "http", by |-> cAttempt + 1] \in r.open,
         c.grpc => [port |-> "grpc", by |-> cAttempt + 1] \in r.open,
         \A j \in DOMAIN c.servers : \/ c.servers[j] \in {"grpc_default", "external"}
                                     \/ [port |-> c.servers[j], by |-> cAttempt + 1] \in r.open
  PROVE  LifeSound'
<1>0. LifeTypes
  BY Zenon DEF LifeSound
<1>1. PICK n \in Nat : n = cAttempt
  BY <1>0, Zenon DEF LifeTypes
<1>2. /\ cAttempt' = n + 1 /\ cConf' \in Seq(Configs) /\ Len(cConf') = n + 1
      /\ cPc = "out" /\ cProber = 0 /\ AllDone
      /\ (\A a \in 1 .. n : cConf'[a] = cConf[a]) /\ cConf'[n + 1] = c
  BY <1>1, AttemptFacts, Zenon
<1>3. \A a \in 0 .. n : a \in 0 .. (n + 1)
  OBVIOUS
<1>4. n + 1 \in 1 .. (n + 1) /\ n + 1 \in 0 .. (n + 1) /\ \A a \in 1 .. n : a \in 1 .. (n + 1)
  OBVIOUS
<1>14. n + 1 # 0 /\ 0 \in 0 .. (n + 1) /\ n + 1 \in Nat /\ n + 1 \notin 0 .. n /\ n + 1 \notin 1 .. n
  OBVIOUS
<1>15. \A l \in cOpen' : l \in cOpen \/ l.by = n + 1
  <2> TAKE l \in cOpen'
  <2>1. l \in r.open
    OBVIOUS
  <2> QED BY <2>1, <1>1
<1>5. cOpen' \subseteq Listeners' /\ cClosers' \subseteq Listeners'
  <2>0. cOpen' \subseteq AnyListeners /\ cClosers' \subseteq AnyListeners
    BY DEF Accs
  <2>1. ASSUME NEW l \in AnyListeners, l.by \in 1 .. (n + 1) PROVE l \in Listeners'
    BY <2>1, <1>2 DEF AnyListeners, Listeners
  <2>2. \A l \in cOpen \cup cClosers : l.by \in 1 .. n
    BY <1>0, <1>1 DEF LifeTypes, Listeners
  <2>3. \A l \in cOpen' \cup cClosers' : l.by \in 1 .. (n + 1)
    BY <2>2, <1>1, <1>4, Zenon
  <2> QED BY <2>0, <2>1, <2>3, Zenon
<1>6. rcGrpc' = cGrpcLn' /\ rcGrpc' \in 0 .. (n + 1) /\ (rcGrpc' # 0 => cConf'[rcGrpc'].grpc)
  BY <1>1, <1>2, <1>4, <1>14, Zenon
<1>7. LifeTypes'
  <2>2. cEnded' \subseteq 0 .. (n + 1) /\ cStopped' \subseteq 0 .. (n + 1)
    BY <1>0, <1>1, <1>3, Zenon DEF LifeTypes
  <2>3. cPatient' \in BOOLEAN /\ cPc' \in {"out", "inited", "panic", "exit"} /\ cRuns' \in Seq(Calls)
    BY <1>0, Zenon DEF LifeTypes
  <2>4. cProber' = n + 1 /\ cLn' = n + 1 /\ cCancel' = n + 1
    BY <1>1, Zenon
  <2> QED BY <2>2, <2>3, <2>4, <1>2, <1>4, <1>14, <1>5, <1>6, Zenon DEF LifeTypes
<1>8. ProberSound'
  <2>1. ASSUME NEW l \in cOpen', l.by = n + 1 PROVE l.port \in {"http", "grpc"} \/ l \in cClosers'
    <3>1. l \notin cOpen
      BY <2>1, <1>0, <1>1, <1>14 DEF LifeTypes, Listeners
    <3> QED BY <3>1, <1>1, Zenon
  <2> QED BY <2>1, <1>1, <1>2, <1>6, Zenon DEF ProberSound
<1>9. AllDone' /\ OneCall'
  BY <1>2, Zenon DEF AllDone, OneCall, LifeSound
<1>10. Serving(n + 1)'
  <2>1. n + 1 \notin cEnded' /\ n + 1 \notin cStopped'
    BY <1>0, <1>1, <1>14, Zenon DEF LifeTypes
  <2> QED BY <2>1, <1>1, <1>2, Zenon DEF Serving
<1>13. PcSound'
  BY <1>1, <1>9, <1>10, <1>14, Zenon DEF PcSound
<1>11. ASSUME NEW i \in DOMAIN cRuns PROVE RunSound(cRuns[i])'
  <2>1. PICK q \in Calls : q = cRuns[i] /\ q = cRuns'[i]
    BY <1>0 DEF LifeTypes
  <2>2. RunSound(q) /\ q.clean = "done"
    BY <2>1, <1>2, Zenon DEF LifeSound, AllDone
  <2>3. q.ln \in Nat /\ q.grpcLn \in Nat /\ q.ln <= n /\ q.grpcLn <= n
    BY <2>2, <1>1 DEF RunSound, Calls
  <2>4. \A l \in Lns(q) : l.by = q.ln \/ l.by = q.grpcLn
    BY LnsFacts, Zenon
  <2>5. \A l \in Lns(q) : l.by # n + 1
    BY <2>3, <2>4
  <2>6. q.http = "closed" => Lns(q) \cap cOpen' = {}
    BY <2>2, <2>5, <1>15, Zenon DEF RunSound
  <2>7. q.ln <= cAttempt' /\ q.grpcLn <= cAttempt' /\ q.ln < n + 1 /\ q.grpcLn < n + 1
    BY <2>3, <1>2
  <2>8. q.ctx # "live"
    BY <2>2, Zenon DEF RunSound
  <2> QED BY <2>1, <2>2, <2>6, <2>7, <2>8, <1>1, Zenon DEF RunSound
<1>12. ListenersAccounted'
  <2> SUFFICES ASSUME NEW l \in cOpen'
               PROVE  \/ l.by = n + 1
                      \/ l \in cClosers' /\ l.by \in cEnded'
                      \/ \E i \in DOMAIN cRuns : l \in Lns(cRuns[i]) /\ cRuns[i].http # "closed"
                      \/ Leaked(l)'
    BY <1>1, Zenon DEF ListenersAccounted
  <2>1. CASE l \in cOpen
    <3>1. l.by \in 1 .. n
      BY <2>1, <1>0, <1>1 DEF LifeTypes, Listeners
    <3>2. l.by # cProber /\ l.by # n + 1
      BY <3>1, <1>2
    <3>3. Leaked(l) => Leaked(l)'
      BY <3>1, <3>2, <1>1, <1>2, Zenon DEF Leaked
    <3>4. \/ l \in cClosers /\ l.by \in cEnded
          \/ \E i \in DOMAIN cRuns : l \in Lns(cRuns[i]) /\ cRuns[i].http # "closed"
          \/ Leaked(l)
      BY <2>1, <3>2, <1>2, Zenon DEF LifeSound, ListenersAccounted
    <3> QED BY <3>3, <3>4, Zenon
  <2>2. CASE l \notin cOpen
    BY <2>2, <1>15, Zenon
  <2> QED BY <2>1, <2>2
<1> QED BY <1>7, <1>8, <1>9, <1>13, <1>11, <1>12, Zenon DEF LifeSound

\* A patient user never meets an Init that returns early.
LEMMA InitAgainStep == ASSUME LifeSound, cPatient, InitAgain PROVE FALSE
<1>1. PICK c \in Configs : Attempted(c)
  BY Zenon DEF InitAgain
<1>2. cProber = 0
  BY <1>1, AttemptFacts, Zenon
<1> QED BY <1>2, Zenon DEF InitAgain

\* Init failing before it listens changes nothing that counts.
LEMMA InitEarlyFailStep ==
  ASSUME LifeSound, cPatient, InitEarlyFail PROVE LifeSound'
<1>1. PICK c \in Configs : Attempted(c)
  BY Zenon DEF InitEarlyFail
<1>2. /\ cPatient' = cPatient /\ cPc' = cPc /\ cOpen' = cOpen /\ cClosers' = cClosers
      /\ cEnded' = cEnded /\ rcGrpc' = rcGrpc /\ cStopped' = cStopped /\ cRuns' = cRuns
      /\ cProber' = cProber /\ cLn' = cLn /\ cGrpcLn' = cGrpcLn /\ cCancel' = cCancel
  BY DEF InitEarlyFail, NoProber
<1>3. cPc' = "out"
  BY <1>1, <1>2, Zenon DEF Attempted
<1>4. cOpen \subseteq AnyListeners /\ cClosers \subseteq AnyListeners
  BY DEF LifeSound, LifeTypes, Listeners, AnyListeners
<1> QED BY <1>1, <1>2, <1>3, <1>4, FailedAttempt, Zenon

\* A listener of this attempt.
LEMMA Mine ==
  ASSUME cAttempt \in Nat, NEW port \in {"http", "grpc"}
  PROVE  /\ MyLn(port) \in AnyListeners /\ MyLn(port).port = port /\ MyLn(port).by = cAttempt + 1
         /\ MyLn(port) = [port |-> port, by |-> cAttempt + 1]
BY DEF MyLn, AnyListeners, Ports

\* Init closes the HTTP listener when the gRPC one fails.
LEMMA InitGrpcFailStep ==
  ASSUME LifeSound, cPatient, InitGrpcFail PROVE LifeSound'
<1>1. PICK c \in Configs :
        /\ Attempted(c) /\ c.grpc
        /\ \/ cOpen' = cOpen \cup {MyLn("http")}
           \/ cOpen' = cOpen \cup {MyLn("http"), MyLn("grpc")}
  BY Zenon DEF InitGrpcFail
<1>2. /\ cPatient' = cPatient /\ cPc' = cPc /\ cClosers' = cClosers
      /\ cEnded' = cEnded /\ rcGrpc' = rcGrpc /\ cStopped' = cStopped /\ cRuns' = cRuns
      /\ cProber' = cProber /\ cLn' = cLn /\ cGrpcLn' = cGrpcLn /\ cCancel' = cCancel
  BY DEF InitGrpcFail, NoProber
<1>3. cPc' = "out"
  BY <1>1, <1>2, Zenon DEF Attempted
<1>4. cOpen \subseteq AnyListeners /\ cClosers \subseteq AnyListeners /\ cAttempt \in Nat
  BY DEF LifeSound, LifeTypes, Listeners, AnyListeners
<1>5. /\ MyLn("http") \in AnyListeners /\ MyLn("http").port = "http" /\ MyLn("http").by = cAttempt + 1
      /\ MyLn("grpc") \in AnyListeners /\ MyLn("grpc").port = "grpc" /\ MyLn("grpc").by = cAttempt + 1
  BY <1>4, Mine, Zenon
<1>6. cOpen' \subseteq AnyListeners
  BY <1>1, <1>4, <1>5, Zenon
<1>7. \A l \in cOpen' : l \in cOpen \/
        (l.by = cAttempt + 1 /\ (l.port = "grpc" \/ (l.port = "http" /\ c.grpc)))
  BY <1>1, <1>5, Zenon
<1> QED BY <1>1, <1>2, <1>3, <1>4, <1>6, <1>7, FailedAttempt, Zenon

\* Init from listening to the end, failing or not.
LEMMA InitProberStep ==
  ASSUME LifeSound, cPatient, InitProber PROVE LifeSound'
<1> DEFINE grpcOf(c) == IF c.grpc THEN cAttempt + 1 ELSE rcGrpc
           mineOf(c) == {MyLn("http")} \cup (IF c.grpc THEN {MyLn("grpc")} ELSE {})
           accOf(c) == [open |-> cOpen \cup mineOf(c), closers |-> cClosers, grpc |-> grpcOf(c),
                        mux |-> {"/debug"}, err |-> FALSE, panic |-> FALSE]
<1>1. PICK c \in Configs :
        /\ Attempted(c)
        /\ IF ~c.grpc /\ RegisterFails
           THEN /\ cPc' = "exit"
                /\ UNCHANGED <<cOpen, cClosers, cEnded, rcGrpc, rcMux>> /\ NoProber
           ELSE /\ rcGrpc' = grpcOf(c) /\ rcMux' = ProberInit(accOf(c), c).mux
                /\ cClosers' = ProberInit(accOf(c), c).closers
                /\ IF ProberInit(accOf(c), c).panic
                   THEN /\ cPc' = "panic" /\ cOpen' = ProberInit(accOf(c), c).open
                        /\ UNCHANGED cEnded /\ NoProber
                   ELSE IF ProberInit(accOf(c), c).err
                   THEN /\ cEnded' = cEnded \cup {cAttempt + 1}
                        /\ cOpen' = InitCleanup(ProberInit(accOf(c), c).open)
                        /\ UNCHANGED cPc /\ NoProber
                   ELSE /\ cPc' = "inited" /\ cOpen' = ProberInit(accOf(c), c).open
                        /\ UNCHANGED cEnded
                        /\ cProber' = cAttempt + 1 /\ cLn' = cAttempt + 1
                        /\ cGrpcLn' = (IF c.grpc THEN cAttempt + 1 ELSE 0)
                        /\ cCancel' = cAttempt + 1
  BY Zenon DEF InitProber
<1>2. cPatient' = cPatient /\ cStopped' = cStopped /\ cRuns' = cRuns
  BY DEF InitProber
<1>3. cOpen \subseteq AnyListeners /\ cClosers \subseteq AnyListeners /\ cAttempt \in Nat /\ rcGrpc \in Nat
  BY DEF LifeSound, LifeTypes, Listeners, AnyListeners
<1>4. /\ MyLn("http") \in AnyListeners /\ MyLn("http").port = "http" /\ MyLn("http").by = cAttempt + 1
      /\ MyLn("grpc") \in AnyListeners /\ MyLn("grpc").port = "grpc" /\ MyLn("grpc").by = cAttempt + 1
      /\ MyLn("http") = [port |-> "http", by |-> cAttempt + 1]
      /\ MyLn("grpc") = [port |-> "grpc", by |-> cAttempt + 1]
  BY <1>3, Mine, Zenon
<1>5. PICK acc : acc = accOf(c)
  OBVIOUS
<1>6. PICK mine : mine = mineOf(c)
  OBVIOUS
<1>7. mine \subseteq {MyLn("http"), MyLn("grpc")} /\ MyLn("http") \in mine
      /\ (c.grpc => MyLn("grpc") \in mine) /\ (~c.grpc => mine = {MyLn("http")})
  BY <1>6, Zenon
<1>8. acc \in Accs /\ acc.open = cOpen \cup mine /\ acc.closers = cClosers
  <2>1. grpcOf(c) \in Nat
    BY <1>3
  <2>2. cOpen \cup mine \in SUBSET AnyListeners
    BY <1>3, <1>4, <1>7, Zenon
  <2>3. {"/debug"} \in SUBSET URLs
    BY Zenon DEF URLs
  <2> HIDE DEF grpcOf, mineOf
  <2>4. acc = [open |-> cOpen \cup mine, closers |-> cClosers, grpc |-> grpcOf(c),
               mux |-> {"/debug"}, err |-> FALSE, panic |-> FALSE]
    BY <1>5, <1>6, Zenon
  <2> QED BY <2>1, <2>2, <2>3, <2>4, <1>3 DEF Accs
<1>9. PICK r : r = ProberInit(acc, c)
  OBVIOUS
<1>10. InitResult(c, acc, r)
  BY <1>3, <1>8, <1>9, ProberInitFacts, Zenon
<1>11. /\ r \in Accs /\ cOpen \subseteq r.open /\ mine \subseteq r.open /\ cClosers \subseteq r.closers
       /\ \A l \in r.closers : l \in cClosers \/ l.by = cAttempt + 1
       /\ r.open \subseteq AnyListeners /\ r.closers \subseteq AnyListeners
  <2>1. /\ r \in Accs /\ cOpen \subseteq r.open /\ mine \subseteq r.open /\ cClosers \subseteq r.closers
        /\ \A l \in r.closers : l \in cClosers \/ l.by = cAttempt + 1
    BY <1>8, <1>10, Zenon DEF InitResult
  <2>2. r.open \subseteq AnyListeners /\ r.closers \subseteq AnyListeners
    BY <2>1 DEF Accs
  <2> QED BY <2>1, <2>2, Zenon
<1>12. \A l \in r.open :
         \/ l \in cOpen
         \/ l \in mine /\ l.by = cAttempt + 1
         \/ l.by = cAttempt + 1 /\ (l \in r.closers \/ (r.err /\ l.port = "https_nocert"))
  BY <1>4, <1>7, <1>8, <1>10, Zenon DEF InitResult
<1>13. CASE ~c.grpc /\ RegisterFails
  <2>1. /\ cPc' = "exit" /\ cOpen' = cOpen /\ cClosers' = cClosers /\ cEnded' = cEnded
        /\ rcGrpc' = rcGrpc /\ cProber' = cProber /\ cLn' = cLn /\ cGrpcLn' = cGrpcLn
        /\ cCancel' = cCancel /\ rcGrpc # 0
    BY <1>1, <1>13 DEF NoProber, RegisterFails
  <2> QED BY <1>1, <1>2, <1>3, <2>1, FailedAttempt, Zenon
<1>14. CASE ~(~c.grpc /\ RegisterFails)
  <2> HIDE DEF accOf
  <2>0. ProberInit(accOf(c), c) = r
    BY <1>5, <1>9, Zenon
  <2>1. rcGrpc' = grpcOf(c) /\ cClosers' = r.closers
    BY <1>1, <1>14, <2>0, Zenon
  <2>2. rcGrpc' = rcGrpc \/ (c.grpc /\ rcGrpc' = cAttempt + 1)
    BY <2>1, Zenon
  <2>3. CASE r.panic
    <3>1. /\ cPc' = "panic" /\ cOpen' = r.open /\ cEnded' = cEnded
          /\ cProber' = cProber /\ cLn' = cLn /\ cGrpcLn' = cGrpcLn /\ cCancel' = cCancel
      BY <1>1, <1>14, <2>0, <2>3 DEF NoProber
    <3>2. \A l \in cOpen' : l \in cOpen \/ (l.by = cAttempt + 1 /\ cPc' # "out")
      BY <3>1, <1>12, Zenon
    <3> QED BY <1>1, <1>2, <1>11, <2>1, <2>2, <3>1, <3>2, FailedAttempt, Zenon
  <2>4. CASE ~r.panic /\ r.err
    <3>1. /\ cPc' = cPc /\ cOpen' = r.open \ {MyLn("http")} /\ cEnded' = cEnded \cup {cAttempt + 1}
          /\ cProber' = cProber /\ cLn' = cLn /\ cGrpcLn' = cGrpcLn /\ cCancel' = cCancel
      BY <1>1, <1>14, <2>0, <2>4 DEF NoProber, InitCleanup
    <3>2. \A l \in cOpen' : l \in cOpen \/
            (l.by = cAttempt + 1 /\ (l.port = "grpc" \/ l.port = "https_nocert"
                                      \/ (l \in cClosers' /\ l.by \in cEnded')))
      BY <3>1, <2>1, <1>4, <1>7, <1>12, Zenon
    <3>3. cPc' = "out"
      BY <3>1, <1>1, Zenon DEF Attempted
    <3>4. cOpen' \subseteq AnyListeners
      BY <3>1, <1>11, Zenon
    <3> QED BY <1>1, <1>2, <1>11, <2>1, <2>2, <3>1, <3>2, <3>3, <3>4, FailedAttempt, Zenon
  <2>5. CASE ~r.panic /\ ~r.err
    <3>1. /\ cPc' = "inited" /\ cOpen' = r.open /\ cEnded' = cEnded
          /\ cProber' = cAttempt + 1 /\ cLn' = cAttempt + 1 /\ cCancel' = cAttempt + 1
          /\ cGrpcLn' = (IF c.grpc THEN cAttempt + 1 ELSE 0)
      BY <1>1, <1>14, <2>0, <2>5, Zenon
    <3>2. c.grpc \/ rcGrpc = 0
      <4>1. c.grpc \/ rcGrpc = 0 \/ rcGrpc = cAttempt + 1
        BY <1>14, Zenon DEF RegisterFails
      <4>2. rcGrpc # cAttempt + 1
        BY <1>3 DEF LifeSound, LifeTypes
      <4> QED BY <4>1, <4>2, Zenon
    <3>3. \A l \in r.open : \/ l \in cOpen
                            \/ l.by = cAttempt + 1 /\ (l.port \in {"http", "grpc"} \/ l \in r.closers)
      BY <1>4, <1>7, <1>12, <2>5, Zenon
    <3>4. /\ [port |-> "http", by |-> cAttempt + 1] \in r.open
          /\ c.grpc => [port |-> "grpc", by |-> cAttempt + 1] \in r.open
      BY <1>4, <1>7, <1>11, Zenon
    <3>5. \A j \in DOMAIN c.servers : \/ c.servers[j] \in {"grpc_default", "external"}
                                      \/ [port |-> c.servers[j], by |-> cAttempt + 1] \in r.open
      BY <1>10, <2>5, Zenon DEF InitResult
    <3> QED BY <1>1, <1>2, <1>11, <2>1, <2>5, <3>1, <3>2, <3>3, <3>4, <3>5, Initialized, Zenon
  <2> QED BY <2>3, <2>4, <2>5
<1> QED BY <1>13, <1>14

\* One call of Start changes, the others stay.
LEMMA RunUpdate ==
  ASSUME cRuns \in Seq(Calls), NEW i \in DOMAIN cRuns, NEW q \in Calls,
         cRuns' = [cRuns EXCEPT ![i] = q]
  PROVE  /\ cRuns' \in Seq(Calls) /\ DOMAIN cRuns' = DOMAIN cRuns /\ cRuns'[i] = q
         /\ \A j \in DOMAIN cRuns : j # i => cRuns'[j] = cRuns[j]
OBVIOUS

\* The goroutine that closes a listener when the context of Init ends.
LEMMA CloseOnInitCtxStep ==
  ASSUME LifeSound, cPatient, CloseOnInitCtx PROVE LifeSound'
<1>1. PICK l \in cClosers : l.by \in cEnded /\ cOpen' = cOpen \ {l} /\ cClosers' = cClosers \ {l}
  BY Zenon DEF CloseOnInitCtx
<1>2. /\ cPatient' = cPatient /\ cPc' = cPc /\ cAttempt' = cAttempt /\ cConf' = cConf
      /\ cProber' = cProber /\ cLn' = cLn /\ cGrpcLn' = cGrpcLn /\ cCancel' = cCancel
      /\ cEnded' = cEnded /\ rcGrpc' = rcGrpc /\ cStopped' = cStopped /\ cRuns' = cRuns
  BY DEF CloseOnInitCtx
<1>3. ASSUME NEW a, Serving(a) PROVE Serving(a)'
  <2>1. a # l.by
    BY <1>1, <1>3, Zenon DEF Serving
  <2>2. ASSUME NEW port PROVE [port |-> port, by |-> a] # l
    BY <2>1
  <2> QED BY <2>2, <1>1, <1>2, <1>3, Zenon DEF Serving
<1>4. LifeTypes'
  BY <1>1, <1>2, Zenon DEF LifeSound, LifeTypes, Listeners
<1>5. ProberSound' /\ OneCall'
  BY <1>1, <1>2, Zenon DEF LifeSound, ProberSound, OneCall
<1>6. PcSound'
  BY <1>2, <1>3, Zenon DEF LifeSound, PcSound, AllDone
<1>7. \A i \in DOMAIN cRuns' : RunSound(cRuns[i])'
  BY <1>1, <1>2, <1>3, Zenon DEF LifeSound, RunSound
<1>8. ListenersAccounted'
  BY <1>1, <1>2, Zenon DEF LifeSound, ListenersAccounted, Leaked
<1> QED BY <1>4, <1>5, <1>6, <1>7, <1>8, Zenon DEF LifeSound

\* Start takes over what Init left.
LEMMA StartStep == ASSUME LifeSound, cPatient, Start PROVE LifeSound'
<1>1. cPc = "inited" /\ cProber # 0 /\ Serving(cProber) /\ AllDone /\ ProberSound
  BY Zenon DEF Start, LifeSound, PcSound
<1>2. PICK q : q = [of |-> cProber, ln |-> cLn, grpc |-> rcGrpc, grpcLn |-> cGrpcLn,
                    ctx |-> "live", http |-> "starting", clean |-> "wait"]
  OBVIOUS
<1>3. /\ cPatient' = cPatient /\ cAttempt' = cAttempt /\ cConf' = cConf
      /\ cProber' = cProber /\ cLn' = cLn /\ cGrpcLn' = cGrpcLn /\ cCancel' = cCancel
      /\ cOpen' = cOpen /\ cClosers' = cClosers
      /\ cEnded' = cEnded /\ rcGrpc' = rcGrpc /\ cStopped' = cStopped
  BY DEF Start
<1>4. cPc' = "out" /\ cRuns' = Append(cRuns, q)
  BY <1>1, <1>2, Zenon DEF Start
<1>5. LifeTypes /\ cRuns \in Seq(Calls) /\ cAttempt \in Nat
  BY Zenon DEF LifeSound, LifeTypes
<1>6. /\ cProber \in Nat /\ cLn \in Nat /\ rcGrpc \in Nat /\ cGrpcLn \in Nat
      /\ cLn <= cAttempt /\ cGrpcLn <= cAttempt
  BY <1>5 DEF LifeTypes
<1>7. /\ q \in Calls /\ q.of = cProber /\ q.ln = cLn /\ q.grpc = rcGrpc /\ q.grpcLn = cGrpcLn
      /\ q.ctx = "live" /\ q.http = "starting" /\ q.clean = "wait"
  BY <1>2, <1>6 DEF Calls
<1>8. PICK k : k = Len(cRuns) + 1
  OBVIOUS
<1>9. /\ cRuns' \in Seq(Calls) /\ DOMAIN cRuns' = DOMAIN cRuns \cup {k} /\ cRuns'[k] = q
      /\ k \notin DOMAIN cRuns
      /\ \A j \in DOMAIN cRuns : cRuns'[j] = cRuns[j]
  <2>1. /\ cRuns' \in Seq(Calls) /\ Len(cRuns') = k /\ cRuns'[k] = q /\ k \notin DOMAIN cRuns
        /\ \A j \in 1 .. Len(cRuns) : cRuns'[j] = cRuns[j]
    BY <1>4, <1>5, <1>7, <1>8
  <2>2. DOMAIN cRuns' = 1 .. k /\ DOMAIN cRuns = 1 .. Len(cRuns) /\ Len(cRuns) \in Nat
    BY <2>1, <1>5
  <2>3. 1 .. k = (1 .. Len(cRuns)) \cup {k}
    BY <1>8, <2>2
  <2> QED BY <2>1, <2>2, <2>3, Zenon
<1>10. LifeTypes'
  <2>1. cPc' \in {"out", "inited", "panic", "exit"}
    BY <1>4, Zenon
  <2> QED BY <2>1, <1>3, <1>5, <1>9, Zenon DEF LifeTypes, Listeners
<1>11. ProberSound'
  BY <1>1, <1>3, Zenon DEF ProberSound
<1>12. Serving(cProber)'
  BY <1>1, <1>3, Zenon DEF Serving
<1>13. PcSound'
  <2>1. q.clean # "done"
    BY <1>7
  <2> QED BY <2>1, <1>4, <1>9, Zenon DEF PcSound
<1>14. OneCall'
  BY <1>1, <1>9, Zenon DEF OneCall, AllDone
<1>15. ASSUME NEW i \in DOMAIN cRuns' PROVE RunSound(cRuns[i])'
  <2>1. CASE i = k
    <3>1. q.clean # "done" /\ q.clean # "closed" /\ q.http # "closed"
      BY <1>7
    <3>2. q.ln <= cAttempt /\ q.grpcLn <= cAttempt
      BY <1>6, <1>7
    <3> QED BY <2>1, <3>1, <3>2, <1>1, <1>3, <1>4, <1>7, <1>9, <1>12, Zenon DEF RunSound
  <2>2. CASE i \in DOMAIN cRuns
    <3>1. cRuns[i].clean = "done" /\ cRuns'[i] = cRuns[i] /\ RunSound(cRuns[i])
      BY <2>2, <1>1, <1>9, Zenon DEF AllDone, LifeSound
    <3> QED BY <3>1, <1>3, Zenon DEF RunSound
  <2> QED BY <2>1, <2>2, <1>9, Zenon
<1>16. ListenersAccounted'
  <2>1. \A i \in DOMAIN cRuns : i \in DOMAIN cRuns' /\ cRuns'[i] = cRuns[i]
    BY <1>9, Zenon
  <2>2. \A l \in cOpen : Leaked(l) => Leaked(l)'
    BY <1>3, Zenon DEF Leaked
  <2>3. cPc \notin {"panic", "exit"}
    BY <1>1
  <2> QED BY <2>1, <2>2, <2>3, <1>3, Zenon DEF LifeSound, ListenersAccounted
<1> QED BY <1>10, <1>11, <1>13, <1>14, <1>15, <1>16, Zenon DEF LifeSound

\* The context of a call ends.
LEMMA EndContextStep ==
  ASSUME LifeSound, cPatient, NEW i \in DOMAIN cRuns, EndContext(i) PROVE LifeSound'
<1>1. /\ cPatient' = cPatient /\ cPc' = cPc /\ cAttempt' = cAttempt /\ cConf' = cConf
      /\ cProber' = cProber /\ cLn' = cLn /\ cGrpcLn' = cGrpcLn /\ cCancel' = cCancel
      /\ cOpen' = cOpen /\ cClosers' = cClosers
      /\ cEnded' = cEnded /\ rcGrpc' = rcGrpc /\ cStopped' = cStopped
  BY DEF EndContext
<1>2. LifeTypes /\ cRuns \in Seq(Calls)
  BY Zenon DEF LifeSound, LifeTypes
<1>3. PICK r \in Calls : r = cRuns[i]
  BY <1>2
<1>4. PICK q : q = [r EXCEPT !.ctx = "done"]
  OBVIOUS
<1>5. /\ q \in Calls /\ q.of = r.of /\ q.ln = r.ln /\ q.grpc = r.grpc /\ q.grpcLn = r.grpcLn
      /\ q.ctx = "done" /\ q.http = r.http /\ q.clean = r.clean
  BY <1>4 DEF Calls
<1>6. cRuns' = [cRuns EXCEPT ![i] = q]
  BY <1>3, <1>4, Zenon DEF EndContext
<1>7. /\ cRuns' \in Seq(Calls) /\ DOMAIN cRuns' = DOMAIN cRuns /\ cRuns'[i] = q
      /\ \A j \in DOMAIN cRuns : j # i => cRuns'[j] = cRuns[j]
  BY <1>2, <1>5, <1>6, RunUpdate, Zenon
<1>8. Lns(q) = Lns(r)
  BY <1>5, Zenon DEF Lns
<1>9. \A a : Serving(a) => Serving(a)'
  BY <1>1, Zenon DEF Serving
<1>10. \A j \in DOMAIN cRuns : cRuns'[j].clean = cRuns[j].clean
  BY <1>3, <1>5, <1>7, Zenon
<1>11. LifeTypes'
  BY <1>1, <1>2, <1>7, Zenon DEF LifeTypes, Listeners
<1>12. ProberSound' /\ OneCall'
  BY <1>1, <1>7, <1>10, Zenon DEF LifeSound, ProberSound, OneCall
<1>13. PcSound'
  BY <1>1, <1>7, <1>9, <1>10, Zenon DEF LifeSound, PcSound, AllDone
<1>14. ASSUME NEW j \in DOMAIN cRuns' PROVE RunSound(cRuns[j])'
  <2>0. RunSound(r)
    BY <1>3, Zenon DEF LifeSound
  <2>1. CASE j = i
    <3>1. "done" # "live"
      OBVIOUS
    <3>2. RunSound(q)'
      BY <2>0, <3>1, <1>1, <1>5, <1>8, <1>9, Zenon DEF RunSound
    <3> QED BY <2>1, <3>2, <1>7, Zenon
  <2>2. CASE j # i
    <3>1. cRuns'[j] = cRuns[j] /\ RunSound(cRuns[j])
      BY <2>2, <1>7, Zenon DEF LifeSound
    <3> QED BY <3>1, <1>1, <1>9, Zenon DEF RunSound
  <2> QED BY <2>1, <2>2
<1>15. ListenersAccounted'
  <2>1. \A j \in DOMAIN cRuns : Lns(cRuns'[j]) = Lns(cRuns[j]) /\ cRuns'[j].http = cRuns[j].http
    BY <1>3, <1>5, <1>7, <1>8, Zenon
  <2>2. \A l \in cOpen : Leaked(l) => Leaked(l)'
    BY <1>1, Zenon DEF Leaked
  <2> QED BY <2>1, <2>2, <1>1, <1>7, Zenon DEF LifeSound, ListenersAccounted
<1> QED BY <1>11, <1>12, <1>13, <1>14, <1>15, Zenon DEF LifeSound

\* The HTTP server of a call begins to serve, or finds its listener closed.
LEMMA ServeStep ==
  ASSUME LifeSound, cPatient, NEW i \in DOMAIN cRuns, Serve(i) PROVE LifeSound'
<1>1. /\ cPatient' = cPatient /\ cPc' = cPc /\ cAttempt' = cAttempt /\ cConf' = cConf
      /\ cProber' = cProber /\ cLn' = cLn /\ cGrpcLn' = cGrpcLn /\ cCancel' = cCancel
      /\ cClosers' = cClosers
      /\ cEnded' = cEnded /\ rcGrpc' = rcGrpc /\ cStopped' = cStopped
  BY DEF Serve
<1>2. LifeTypes /\ cRuns \in Seq(Calls)
  BY Zenon DEF LifeSound, LifeTypes
<1>3. PICK r \in Calls : r = cRuns[i]
  BY <1>2
<1>0. RunSound(r) /\ r.http = "starting"
  BY <1>3, Zenon DEF LifeSound, Serve
<1>4. PICK q : q = [r EXCEPT !.http = IF r.clean = "wait" THEN "serving" ELSE "closed"]
  OBVIOUS
<1>5. /\ q \in Calls /\ q.of = r.of /\ q.ln = r.ln /\ q.grpc = r.grpc /\ q.grpcLn = r.grpcLn
      /\ q.ctx = r.ctx /\ q.clean = r.clean
      /\ q.http = IF r.clean = "wait" THEN "serving" ELSE "closed"
  BY <1>4 DEF Calls
<1>6. /\ cRuns' = [cRuns EXCEPT ![i] = q]
      /\ cOpen' = IF r.clean = "wait" THEN cOpen ELSE cOpen \ Lns(r)
  BY <1>3, <1>4, Zenon DEF Serve
<1>7. /\ cRuns' \in Seq(Calls) /\ DOMAIN cRuns' = DOMAIN cRuns /\ cRuns'[i] = q
      /\ \A j \in DOMAIN cRuns : j # i => cRuns'[j] = cRuns[j]
  BY <1>2, <1>5, <1>6, RunUpdate, Zenon
<1>8. Lns(q) = Lns(r)
  BY <1>5, Zenon DEF Lns
<1>16. cOpen' \subseteq cOpen
  BY <1>6, Zenon
<1>9. ASSUME Serving(cProber), cProber # 0,
             cPc = "inited" \/ \E j \in DOMAIN cRuns : cRuns[j].clean = "wait"
      PROVE  Serving(cProber)'
  <2>1. CASE r.clean = "wait"
    BY <2>1, <1>1, <1>6, <1>9, Zenon DEF Serving
  <2>2. CASE r.clean # "wait"
    <3>1. r.clean = "done"
      <4>1. CASE cPc = "inited"
        BY <4>1, <1>3, Zenon DEF LifeSound, PcSound, AllDone
      <4>2. CASE \E j \in DOMAIN cRuns : cRuns[j].clean = "wait"
        <5>1. PICK j \in DOMAIN cRuns : cRuns[j].clean = "wait"
          BY <4>2
        <5>2. j # i /\ cRuns[j].clean # "done"
          BY <5>1, <2>2, <1>3
        <5> QED BY <5>1, <5>2, <1>3, Zenon DEF LifeSound, OneCall
      <4> QED BY <4>1, <4>2, <1>9
    <3>2. r.ln < cProber /\ r.grpcLn < cProber
      BY <3>1, <1>0, <1>9, Zenon DEF RunSound
    <3>3. r.ln \in Nat /\ r.grpcLn \in Nat /\ cProber \in Nat
      BY <1>2 DEF LifeTypes, Calls
    <3>4. cProber # r.ln /\ cProber # r.grpcLn
      BY <3>2, <3>3
    <3>5. ASSUME NEW port PROVE [port |-> port, by |-> cProber] \notin Lns(r)
      <4>1. [port |-> port, by |-> cProber].by = cProber
        OBVIOUS
      <4> QED BY <4>1, <3>4, LnsFacts, Zenon
    <3>6. cOpen' = cOpen \ Lns(r)
      BY <2>2, <1>6, Zenon
    <3> QED BY <3>5, <3>6, <1>1, <1>9, Zenon DEF Serving
  <2> QED BY <2>1, <2>2
<1>10. \A j \in DOMAIN cRuns : cRuns'[j].clean = cRuns[j].clean
  BY <1>3, <1>5, <1>7, Zenon
<1>11. LifeTypes'
  BY <1>1, <1>2, <1>7, <1>16, Zenon DEF LifeTypes, Listeners
<1>12. ProberSound' /\ OneCall'
  BY <1>1, <1>7, <1>10, <1>16, Zenon DEF LifeSound, ProberSound, OneCall
<1>13. PcSound'
  <2>1. AllDone => AllDone'
    BY <1>7, <1>10, Zenon DEF AllDone
  <2>2. cPc = "inited" => Serving(cProber)'
    BY <1>9, Zenon DEF LifeSound, PcSound
  <2> QED BY <2>1, <2>2, <1>1, <1>7, <1>10, Zenon DEF LifeSound, PcSound
<1>14. ASSUME NEW j \in DOMAIN cRuns' PROVE RunSound(cRuns[j])'
  <2>1. CASE j = i
    <3>0. r.clean = "wait" => Serving(cProber)'
      BY <1>0, <1>3, <1>9, Zenon DEF RunSound
    <3>1. q.http = "closed" => r.clean # "wait" /\ Lns(q) \cap cOpen' = {}
      BY <1>5, <1>6, <1>8
    <3>2. RunSound(q)'
      BY <3>0, <3>1, <1>0, <1>1, <1>5, Zenon DEF RunSound
    <3> QED BY <2>1, <3>2, <1>7, Zenon
  <2>2. CASE j # i
    <3>1. cRuns'[j] = cRuns[j] /\ RunSound(cRuns[j])
      BY <2>2, <1>7, Zenon DEF LifeSound
    <3>2. cRuns[j].clean = "wait" => Serving(cProber)'
      BY <3>1, <1>7, <1>9, Zenon DEF RunSound
    <3> QED BY <3>1, <3>2, <1>1, <1>16, Zenon DEF RunSound
  <2> QED BY <2>1, <2>2
<1>15. ListenersAccounted'
  <2>0. \A l \in cOpen : Leaked(l) => Leaked(l)'
    BY <1>1, Zenon DEF Leaked
  <2>1. \A l \in cOpen' : l \in Lns(r) => q.http # "closed"
    BY <1>5, <1>6
  <2>2. ASSUME NEW l \in cOpen', NEW j \in DOMAIN cRuns, l \in Lns(cRuns[j]), cRuns[j].http # "closed"
        PROVE  l \in Lns(cRuns'[j]) /\ cRuns'[j].http # "closed"
    BY <2>1, <2>2, <1>3, <1>7, <1>8, Zenon
  <2> QED BY <2>0, <2>2, <1>1, <1>7, <1>16, Zenon DEF LifeSound, ListenersAccounted
<1> QED BY <1>11, <1>12, <1>13, <1>14, <1>15, Zenon DEF LifeSound

\* The cleanup closes the servers of the call.
LEMMA CleanupServersStep ==
  ASSUME LifeSound, cPatient, NEW i \in DOMAIN cRuns, CleanupServers(i) PROVE LifeSound'
<1>1. /\ cPatient' = cPatient /\ cPc' = cPc /\ cAttempt' = cAttempt /\ cConf' = cConf
      /\ cProber' = cProber /\ cLn' = cLn /\ cGrpcLn' = cGrpcLn /\ cCancel' = cCancel
      /\ cClosers' = cClosers /\ rcGrpc' = rcGrpc /\ cEnded' = cEnded \cup {cCancel}
  BY DEF CleanupServers
<1>2. LifeTypes /\ cRuns \in Seq(Calls)
  BY Zenon DEF LifeSound, LifeTypes
<1>3. PICK r \in Calls : r = cRuns[i]
  BY <1>2
<1>0. RunSound(r) /\ r.clean = "wait" /\ r.ctx = "done"
  BY <1>3, Zenon DEF LifeSound, CleanupServers
<1>4. PICK q : q = [r EXCEPT !.clean = "closed", !.http = IF r.http = "serving" THEN "closed" ELSE r.http]
  OBVIOUS
<1>5. /\ q \in Calls /\ q.of = r.of /\ q.ln = r.ln /\ q.grpc = r.grpc /\ q.grpcLn = r.grpcLn
      /\ q.ctx = r.ctx /\ q.clean = "closed"
      /\ q.http = IF r.http = "serving" THEN "closed" ELSE r.http
  BY <1>4 DEF Calls
<1>6. /\ cRuns' = [cRuns EXCEPT ![i] = q]
      /\ cOpen' = IF r.http = "serving" THEN cOpen \ Lns(r) ELSE cOpen
      /\ cStopped' = IF r.grpc # 0 THEN cStopped \cup {r.grpc} ELSE cStopped
  BY <1>3, <1>4, Zenon DEF CleanupServers
<1>7. /\ cRuns' \in Seq(Calls) /\ DOMAIN cRuns' = DOMAIN cRuns /\ cRuns'[i] = q
      /\ \A j \in DOMAIN cRuns : j # i => cRuns'[j] = cRuns[j]
  BY <1>2, <1>5, <1>6, RunUpdate, Zenon
<1>8. Lns(q) = Lns(r)
  BY <1>5, Zenon DEF Lns
<1>16. cOpen' \subseteq cOpen
  BY <1>6, Zenon
<1>9. /\ cPc = "out" /\ cProber # 0 /\ r.of = cProber /\ r.ln = cLn /\ r.grpc = rcGrpc
      /\ r.grpcLn = cGrpcLn /\ cCancel = cAttempt /\ cProber = cAttempt /\ r.http # "closed"
  <2>1. r.clean # "done"
    BY <1>0
  <2>2. cPc = "out" /\ cProber # 0 /\ r.of = cProber /\ r.ln = cLn /\ r.grpc = rcGrpc /\ r.grpcLn = cGrpcLn
    BY <2>1, <1>0, Zenon DEF RunSound
  <2> QED BY <2>2, <1>0, Zenon DEF RunSound, LifeSound, ProberSound
<1>10. \A j \in DOMAIN cRuns : j # i => cRuns'[j] = cRuns[j] /\ cRuns[j].clean = "done"
  <2>1. r.clean # "done"
    BY <1>0
  <2> QED BY <2>1, <1>3, <1>7, Zenon DEF LifeSound, OneCall
<1>11. LifeTypes'
  <2>1. r.grpc \in 0 .. cAttempt
    BY <1>2, <1>9, Zenon DEF LifeTypes
  <2>2. cEnded' \subseteq 0 .. cAttempt /\ cStopped' \subseteq 0 .. cAttempt
    BY <2>1, <1>1, <1>2, <1>6, Zenon DEF LifeTypes
  <2> QED BY <2>2, <1>1, <1>2, <1>7, <1>16, Zenon DEF LifeTypes, Listeners
<1>12. ProberSound' /\ OneCall'
  <2>1. ProberSound'
    BY <1>1, <1>16, Zenon DEF LifeSound, ProberSound
  <2>2. OneCall'
    BY <1>7, <1>10, Zenon DEF OneCall
  <2> QED BY <2>1, <2>2
<1>17. q.clean # "done" /\ q.clean # "wait"
  BY <1>5
<1>13. PcSound'
  BY <1>1, <1>7, <1>9, <1>17, Zenon DEF PcSound
<1>14. ASSUME NEW j \in DOMAIN cRuns' PROVE RunSound(cRuns[j])'
  <2>1. CASE j = i
    <3>1. q.http = "closed" => Lns(q) \cap cOpen' = {}
      BY <1>5, <1>6, <1>8, <1>9
    <3>2. q.ctx # "live"
      BY <1>0, <1>5
    <3>3. cProber' \in cEnded'
      BY <1>1, <1>9, Zenon
    <3>4. RunSound(q)'
      BY <3>1, <3>2, <3>3, <1>0, <1>1, <1>5, <1>9, <1>17, Zenon DEF RunSound
    <3> QED BY <2>1, <3>4, <1>7, Zenon
  <2>2. CASE j # i
    <3>1. cRuns'[j] = cRuns[j] /\ RunSound(cRuns[j]) /\ cRuns[j].clean = "done"
      BY <2>2, <1>7, <1>10, Zenon DEF LifeSound
    <3> QED BY <3>1, <1>1, <1>16, Zenon DEF RunSound
  <2> QED BY <2>1, <2>2
<1>15. ListenersAccounted'
  <2>0. \A l \in cOpen : Leaked(l) => Leaked(l)'
    BY <1>1, Zenon DEF Leaked
  <2>1. \A l \in cOpen' : l \in Lns(r) => q.http # "closed"
    BY <1>5, <1>6, <1>9
  <2>2. ASSUME NEW l \in cOpen', NEW j \in DOMAIN cRuns, l \in Lns(cRuns[j]), cRuns[j].http # "closed"
        PROVE  l \in Lns(cRuns'[j]) /\ cRuns'[j].http # "closed"
    BY <2>1, <2>2, <1>3, <1>7, <1>8, Zenon
  <2> QED BY <2>0, <2>2, <1>1, <1>7, <1>16, Zenon DEF LifeSound, ListenersAccounted
<1> QED BY <1>11, <1>12, <1>13, <1>14, <1>15, Zenon DEF LifeSound

\* The cleanup resets the globals under the lock.
LEMMA CleanupDoneStep ==
  ASSUME LifeSound, cPatient, NEW i \in DOMAIN cRuns, CleanupDone(i) PROVE LifeSound'
<1>1. /\ cPatient' = cPatient /\ cPc' = cPc /\ cAttempt' = cAttempt /\ cConf' = cConf
      /\ cProber' = 0 /\ cLn' = 0 /\ cGrpcLn' = 0 /\ cCancel' = cCancel
      /\ cOpen' = cOpen /\ cClosers' = cClosers /\ cStopped' = cStopped
      /\ rcGrpc' = rcGrpc /\ cEnded' = cEnded
  BY DEF CleanupDone, CleanupGlobals
<1>2. LifeTypes /\ cRuns \in Seq(Calls)
  BY Zenon DEF LifeSound, LifeTypes
<1>3. PICK r \in Calls : r = cRuns[i]
  BY <1>2
<1>0. RunSound(r) /\ r.clean = "closed" /\ r.ctx # "live" /\ r.clean # "done"
  <2>1. RunSound(r) /\ r.clean = "closed"
    BY <1>3, Zenon DEF LifeSound, CleanupDone
  <2>2. r.clean # "done" /\ r.clean # "wait"
    BY <2>1
  <2> QED BY <2>1, <2>2, Zenon DEF RunSound
<1>4. PICK q : q = [r EXCEPT !.clean = "done"]
  OBVIOUS
<1>5. /\ q \in Calls /\ q.ln = r.ln /\ q.grpcLn = r.grpcLn
      /\ q.ctx = r.ctx /\ q.clean = "done" /\ q.http = r.http
  BY <1>4 DEF Calls
<1>6. cRuns' = [cRuns EXCEPT ![i] = q]
  BY <1>3, <1>4, Zenon DEF CleanupDone
<1>7. /\ cRuns' \in Seq(Calls) /\ DOMAIN cRuns' = DOMAIN cRuns /\ cRuns'[i] = q
      /\ \A j \in DOMAIN cRuns : j # i => cRuns'[j] = cRuns[j]
  BY <1>2, <1>5, <1>6, RunUpdate, Zenon
<1>8. Lns(q) = Lns(r)
  BY <1>5, Zenon DEF Lns
<1>9. /\ cPc = "out" /\ cProber # 0 /\ r.ln = cLn /\ cLn = cAttempt /\ cProber = cAttempt
      /\ cProber \in cEnded
  BY <1>0, Zenon DEF RunSound, LifeSound, ProberSound
<1>10. AllDone'
  BY <1>0, <1>3, <1>5, <1>7, Zenon DEF LifeSound, OneCall, AllDone
<1>11. LifeTypes'
  <2>1. 0 \in 0 .. cAttempt
    BY <1>2 DEF LifeTypes
  <2> QED BY <2>1, <1>1, <1>2, <1>7, Zenon DEF LifeTypes, Listeners
<1>12. ProberSound' /\ OneCall' /\ PcSound'
  <2>1. cPc' # "inited" /\ cPc' \notin {"panic", "exit"}
    BY <1>1, <1>9
  <2> QED BY <2>1, <1>1, <1>9, <1>10, Zenon DEF ProberSound, OneCall, PcSound, AllDone
<1>14. ASSUME NEW j \in DOMAIN cRuns' PROVE RunSound(cRuns[j])'
  <2>0. "done" # "wait" /\ "done" # "closed"
    OBVIOUS
  <2>1. CASE j = i
    <3>1. RunSound(q)'
      BY <2>0, <1>0, <1>1, <1>5, <1>8, Zenon DEF RunSound
    <3> QED BY <2>1, <3>1, <1>7, Zenon
  <2>2. CASE j # i
    <3>1. cRuns'[j] = cRuns[j] /\ RunSound(cRuns[j]) /\ cRuns[j].clean = "done"
      BY <2>2, <1>7, <1>10, Zenon DEF LifeSound, AllDone
    <3> QED BY <2>0, <3>1, <1>1, Zenon DEF RunSound
  <2> QED BY <2>1, <2>2
<1>15. ListenersAccounted'
  <2> SUFFICES ASSUME NEW l \in cOpen
               PROVE  \/ l \in cClosers /\ l.by \in cEnded
                      \/ \E j \in DOMAIN cRuns' : l \in Lns(cRuns'[j]) /\ cRuns'[j].http # "closed"
                      \/ Leaked(l)'
    BY <1>1, Zenon DEF ListenersAccounted
  <2>1. l.by # 0 /\ l = [port |-> l.port, by |-> l.by]
    BY <1>2 DEF LifeTypes, Listeners
  <2>2. \A j \in DOMAIN cRuns : Lns(cRuns'[j]) = Lns(cRuns[j]) /\ cRuns'[j].http = cRuns[j].http
    BY <1>3, <1>5, <1>7, <1>8, Zenon
  <2>3. l.port = "grpc" => Leaked(l)'
    BY <2>1, <1>1, Zenon DEF Leaked
  <2>4. CASE l.by = cProber
    <3>1. l.port \in {"http", "grpc"} \/ l \in cClosers
      BY <2>4, <1>9, Zenon DEF LifeSound, ProberSound
    <3>2. CASE l \in cClosers
      BY <3>2, <2>4, <1>9, Zenon
    <3>3. CASE l.port = "http"
      <4>1. l \in Lns(r)
        BY <3>3, <2>1, <2>4, <1>9, Zenon DEF Lns
      <4>2. r.http # "closed"
        BY <4>1, <1>0, Zenon DEF RunSound
      <4> QED BY <4>1, <4>2, <1>5, <1>7, <1>8, Zenon
    <3> QED BY <3>1, <3>2, <3>3, <2>3, Zenon
  <2>5. CASE l.by # cProber
    <3>1. Leaked(l) => Leaked(l)'
      BY <2>1, <1>1, Zenon DEF Leaked
    <3>2. cPc \notin {"panic", "exit"}
      BY <1>9
    <3>3. \/ l \in cClosers /\ l.by \in cEnded
          \/ \E j \in DOMAIN cRuns : l \in Lns(cRuns[j]) /\ cRuns[j].http # "closed"
          \/ Leaked(l)
      BY <2>5, <3>2, Zenon DEF LifeSound, ListenersAccounted
    <3> QED BY <3>1, <3>3, <2>2, <1>7, Zenon
  <2> QED BY <2>4, <2>5
<1> QED BY <1>11, <1>12, <1>14, <1>15, Zenon DEF LifeSound

\* Every step keeps the invariant.
LEMMA LifeStep == LifeInv /\ [LifeNext]_cfgVars => LifeInv'
<1> SUFFICES ASSUME LifeInv, [LifeNext]_cfgVars, cPatient' PROVE LifeSound'
  BY Zenon DEF LifeInv
<1>1. cPatient' = cPatient
  BY DEF LifeNext, cfgVars, InitAgain, InitEarlyFail, InitGrpcFail, InitProber,
     CloseOnInitCtx,
         Start, Serve, EndContext, CleanupServers, CleanupDone
<1>2. cPatient /\ LifeSound
  BY <1>1, Zenon DEF LifeInv
<1>3. CASE UNCHANGED cfgVars
  <2>1. /\ cPatient' = cPatient /\ cPc' = cPc /\ cAttempt' = cAttempt /\ cConf' = cConf
        /\ cProber' = cProber /\ cLn' = cLn /\ cGrpcLn' = cGrpcLn /\ cCancel' = cCancel
        /\ cOpen' = cOpen /\ cClosers' = cClosers /\ cStopped' = cStopped
        /\ rcGrpc' = rcGrpc /\ cEnded' = cEnded /\ cRuns' = cRuns
    BY <1>3 DEF cfgVars
  <2> QED BY <2>1, <1>2, Zenon
       DEF LifeSound, LifeTypes, Listeners, ProberSound, PcSound, AllDone, OneCall, Serving,
           ListenersAccounted, Leaked, RunSound
<1>4. CASE LifeNext
  BY <1>2, <1>4, Zenon, InitAgainStep, InitEarlyFailStep, InitGrpcFailStep, InitProberStep,
     CloseOnInitCtxStep, StartStep, ServeStep, EndContextStep, CleanupServersStep, CleanupDoneStep
     DEF LifeNext
<1> QED BY <1>3, <1>4, Zenon

\* The invariant yields that a started prober serves.
LEMMA LifeSoundServes == ASSUME LifeSound, cPatient PROVE StartedServes
<1>1. ASSUME NEW i \in DOMAIN cRuns, cPc # "exit", cRuns[i].ctx = "live"
      PROVE  LET r == cRuns[i]
                 c == cConf[r.of]
             IN /\ cPc = "panic" \/ cProber = r.of
                /\ Lns(r) \subseteq cOpen /\ r.ln = r.of
                /\ c.grpc => r.grpcLn = r.of /\ r.grpc = r.of /\ r.grpc \notin cStopped
                /\ \A j \in DOMAIN c.servers :
                     c.servers[j] \in {"grpc_default", "external"}
                       \/ [port |-> c.servers[j], by |-> r.of] \in cOpen
  <2>1. PICK r : r = cRuns[i]
    OBVIOUS
  <2>2. RunSound(r) /\ r.clean = "wait"
    BY <1>1, <2>1, Zenon DEF LifeSound, RunSound
  <2>3. r.clean # "done"
    BY <2>2
  <2>4. /\ cProber # 0 /\ r.of = cProber /\ r.ln = cLn /\ r.grpc = rcGrpc /\ r.grpcLn = cGrpcLn
        /\ Serving(cProber)
    BY <2>2, <2>3, Zenon DEF RunSound
  <2>5. /\ cProber = cAttempt /\ cLn = cAttempt /\ rcGrpc = cGrpcLn
        /\ cGrpcLn = (IF cConf[cAttempt].grpc THEN cAttempt ELSE 0)
    BY <2>4, Zenon DEF LifeSound, ProberSound
  <2>6. Lns(r) \subseteq cOpen
    <3> SUFFICES ASSUME NEW l \in Lns(r) PROVE l \in cOpen
      BY Zenon
    <3>1. CASE l = [port |-> "http", by |-> r.ln]
      BY <3>1, <2>4, <2>5, Zenon DEF Serving
    <3>2. CASE l = [port |-> "grpc", by |-> r.grpcLn] /\ r.grpcLn # 0
      BY <3>2, <2>4, <2>5, Zenon DEF Serving
    <3> QED BY <3>1, <3>2, LnsFacts, Zenon
  <2>7. cConf[cProber].grpc => r.grpcLn = r.of /\ r.grpc = r.of /\ r.grpc \notin cStopped
    BY <2>4, <2>5, Zenon DEF Serving
  <2> QED BY <2>1, <2>4, <2>5, <2>6, <2>7, Zenon DEF Serving
<1> QED BY <1>1, Zenon DEF StartedServes, LifeSound, PcSound

\* The listeners and probers of a program that waits are as AttemptsAccounted says.
THEOREM AttemptsAreAccounted == LifeSpec => []AttemptsAccounted
<1>1. LifeInv => AttemptsAccounted
  <2>1. CASE ~cPatient
    BY <2>1, Zenon DEF AttemptsAccounted, ListenersAccounted, StartedServes
  <2>2. CASE cPatient
    BY <2>2, LifeSoundServes, Zenon DEF LifeInv, AttemptsAccounted, LifeSound
  <2> QED BY <2>1, <2>2
<1> QED BY <1>1, LifeInitInv, LifeStep, PTL DEF LifeSpec
=============================================================================
