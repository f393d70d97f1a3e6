------------------------ MODULE DecisionCacheProofs ------------------------
(***************************************************************************)
(* Proofs about the decision cache, for every set of keys, every set of    *)
(* decisions and every configured size.                                    *)
(***************************************************************************)
EXTENDS DecisionCache, LRUProofs

(* The capacity in use is a positive natural, whatever was configured.     *)
LEMMA CapacityPositive == Capacity \in Nat /\ Capacity >= 1
  BY EntriesAssumption DEF Capacity, EffectiveCapacity

(* A use of k puts k after every other key seen and leaves the pairs       *)
(* without k alone.                                                        *)
LEMMA UsedNowIs ==
  ASSUME TypeOK, NEW k \in Keys
  PROVE  /\ UsedNow(k, DOMAIN latest) \subseteq Keys \X Keys
         /\ \A x \in DOMAIN latest : x # k => <<k, x>> \in UsedNow(k, DOMAIN latest)
         /\ \A a, b : <<a, b>> \in newer /\ a # k /\ b # k
                        => <<a, b>> \in UsedNow(k, DOMAIN latest)
  <1>1. UsedNow(k, DOMAIN latest) \subseteq Keys \X Keys
    BY DEF UsedNow, TypeOK
  <1>2. \A x \in DOMAIN latest : x # k => <<k, x>> \in UsedNow(k, DOMAIN latest)
    BY DEF UsedNow
  <1>3. ASSUME NEW a, NEW b, <<a, b>> \in newer, a # k, b # k
        PROVE  <<a, b>> \in UsedNow(k, DOMAIN latest)
    <2>1. <<a, b>>[1] = a /\ <<a, b>>[2] = b
      OBVIOUS
    <2> QED BY <1>3, <2>1 DEF UsedNow
  <1> QED BY <1>1, <1>2, <1>3

(* Every held key is in the list, and was stored since the last Clear.     *)
LEMMA HeldFacts ==
  ASSUME IInv
  PROVE  /\ cache.order \in Seq(Keys)
         /\ Len(cache.order) \in Nat
         /\ DOMAIN cache.items \subseteq DOMAIN latest
         /\ \A i \in 1..Len(cache.order) :
              /\ cache.order[i] \in Keys
              /\ cache.order[i] \in DOMAIN cache.items
              /\ cache.order[i] \in DOMAIN latest
         /\ \A x \in DOMAIN cache.items :
              \E i \in 1..Len(cache.order) : cache.order[i] = x
         /\ \A i, j \in 1..Len(cache.order) :
              cache.order[i] = cache.order[j] => i = j
  <1>1. cache.order \in Seq(Keys)
    BY DEF IInv, TypeOK, IsStore
  <1>2. DOMAIN cache.items \subseteq DOMAIN latest
    BY DEF IInv, HitsAreLatest
  <1>3. /\ \A i \in 1..Len(cache.order) : cache.order[i] \in DOMAIN cache.items
        /\ \A x \in DOMAIN cache.items :
             \E i \in 1..Len(cache.order) : cache.order[i] = x
        /\ \A i, j \in 1..Len(cache.order) :
             cache.order[i] = cache.order[j] => i = j
    BY DEF IInv, Coherent, IsCoherent
  <1> QED BY <1>1, <1>2, <1>3

(* Moving a held key to the front at the moment it is used keeps the list  *)
(* in order of use.                                                        *)
LEMMA MoveKeepsOrder ==
  ASSUME IInv, NEW k \in Keys, Holds(cache, k), NEW order,
         Len(order) = Len(cache.order),
         NEW at \in 1..Len(cache.order), cache.order[at] = k,
         \A j \in 1..Len(cache.order) : order[j] = cache.order[Src(at, j)]
  PROVE  \A i, j \in 1..Len(order) :
           i < j => <<order[i], order[j]>> \in UsedNow(k, DOMAIN latest)
  <1> DEFINE n == Len(cache.order)
  <1>1. n \in Nat
    BY HeldFacts
  <1>2. /\ \A j \in 1..n : Src(at, j) \in 1..n
        /\ Src(at, 1) = at
        /\ \A j \in 2..n : Src(at, j) # at
        /\ \A a, b \in 1..n : 1 < a /\ a < b => Src(at, a) < Src(at, b)
    BY <1>1, SrcPermutes
  <1> SUFFICES ASSUME NEW i \in 1..n, NEW j \in 1..n, i < j
               PROVE  <<order[i], order[j]>> \in UsedNow(k, DOMAIN latest)
    OBVIOUS
  <1>3. PICK q \in 1..n : q = Src(at, j)
    BY <1>2
  <1>4. j \in 2..n
    BY <1>1
  <1>5. q # at /\ order[j] = cache.order[q]
    BY <1>2, <1>3, <1>4
  <1>6. order[j] # k /\ order[j] \in DOMAIN latest
    BY <1>5, HeldFacts
  <1>7. CASE i = 1
    <2>1. order[i] = k
      BY <1>7, <1>2
    <2> QED BY <2>1, <1>6, UsedNowIs DEF IInv
  <1>8. CASE i # 1
    <2>1. PICK p \in 1..n : p = Src(at, i)
      BY <1>2
    <2>2. i \in 2..n /\ 1 < i
      BY <1>8, <1>1
    <2>3. p # at /\ p < q /\ order[i] = cache.order[p]
      BY <1>2, <1>3, <2>1, <2>2
    <2>4. order[i] # k
      BY <2>3, HeldFacts
    <2>5. <<order[i], order[j]>> \in newer
      BY <1>5, <2>3 DEF IInv, OrderedByUse
    <2> QED BY <1>6, <2>4, <2>5, UsedNowIs DEF IInv
  <1> QED BY <1>7, <1>8

(* The empty cache satisfies the invariant: a fresh one, and one that was  *)
(* just cleared.                                                           *)
LEMMA EmptyIsFine ==
  cache = EmptyStore /\ latest = [k \in {} |-> 0] /\ newer = {} => IInv
  <1> SUFFICES ASSUME cache = EmptyStore, latest = [k \in {} |-> 0], newer = {}
               PROVE  IInv
    OBVIOUS
  <1>1. /\ cache.order = << >> /\ Len(cache.order) = 0
        /\ cache.items = [k \in {} |-> 0] /\ DOMAIN cache.items = {}
        /\ DOMAIN latest = {}
        /\ cache = [items |-> cache.items, order |-> cache.order]
    BY DEF EmptyStore
  <1>2. /\ cache.items \in [DOMAIN cache.items -> Decisions]
        /\ latest \in [DOMAIN latest -> Decisions]
    BY <1>1
  <1>3. TypeOK
    BY <1>1, <1>2 DEF TypeOK, IsStore
  <1>4. Coherent
    BY <1>1 DEF Coherent, IsCoherent
  <1>5. Bounded
    BY <1>1, CapacityPositive DEF Bounded
  <1>6. OrderedByUse /\ KeepsMostRecent /\ HitsAreLatest
    BY <1>1 DEF OrderedByUse, KeepsMostRecent, HitsAreLatest
  <1> QED BY <1>3, <1>4, <1>5, <1>6 DEF IInv

(* A Get keeps the invariant: a hit moves one element, a miss changes      *)
(* nothing.                                                                *)
LEMMA GetKeeps ==
  ASSUME IInv, NEW k \in Keys, Get(k)
  PROVE  IInv'
  <1>1. CASE ~ Holds(cache, k)
    <2>1. UNCHANGED <<cache, latest, newer>>
      BY <1>1 DEF Get, Touch
    <2> QED BY <2>1 DEF IInv, TypeOK, Coherent, Bounded, OrderedByUse,
                        KeepsMostRecent, HitsAreLatest
  <1>2. CASE Holds(cache, k)
    <2>1. /\ cache' = [items |-> cache.items, order |-> MoveToFront(cache.order, k)]
          /\ latest' = latest
          /\ newer' = UsedNow(k, DOMAIN latest)
      BY <1>2 DEF Get, Touch
    <2>2. /\ cache'.items = cache.items
          /\ cache'.order = MoveToFront(cache.order, k)
          /\ cache' = [items |-> cache'.items, order |-> cache'.order]
          /\ DOMAIN cache'.items = DOMAIN cache.items
          /\ cache'.items \in [DOMAIN cache.items -> Decisions]
      BY <2>1 DEF IInv, TypeOK, IsStore
    <2>3. /\ IsStore(cache', Keys, Decisions)
          /\ IsCoherent(cache')
          /\ Len(cache'.order) = Len(cache.order)
          /\ \E at \in 1..Len(cache.order) :
               /\ cache.order[at] = k
               /\ \A j \in 1..Len(cache.order) :
                    cache'.order[j] = cache.order[Src(at, j)]
      <3>1. IsStore(cache, Keys, Decisions) /\ IsCoherent(cache)
        BY DEF IInv, TypeOK, Coherent
      <3> QED BY <1>2, <2>2, <3>1, ReorderKeeps
    <2>4. TypeOK'
      BY <2>1, <2>3, UsedNowIs DEF TypeOK, IInv
    <2>5. Coherent' /\ Bounded'
      BY <2>3 DEF Coherent, Bounded, IInv, Capacity
    <2>6. OrderedByUse'
      BY <1>2, <2>1, <2>3, MoveKeepsOrder DEF OrderedByUse
    <2>7. KeepsMostRecent'
      <3>1. ASSUME NEW a \in DOMAIN cache.items,
                   NEW b \in DOMAIN latest \ DOMAIN cache.items
            PROVE  <<a, b>> \in UsedNow(k, DOMAIN latest)
        <4>1. <<a, b>> \in newer
          BY DEF IInv, KeepsMostRecent
        <4>2. b # k
          BY <1>2 DEF Holds
        <4> QED BY <4>1, <4>2, UsedNowIs DEF IInv
      <3>2. DOMAIN latest # DOMAIN cache.items => Len(cache.order) = Capacity
        BY DEF IInv, KeepsMostRecent
      <3> QED BY <2>1, <2>2, <2>3, <3>1, <3>2 DEF KeepsMostRecent, Capacity
    <2>8. HitsAreLatest'
      BY <2>1, <2>2 DEF HitsAreLatest, IInv
    <2> QED BY <2>4, <2>5, <2>6, <2>7, <2>8 DEF IInv
  <1> QED BY <1>1, <1>2

(* Put of a key that is held: overwritten in place and moved to the front. *)
LEMMA PutHeldKeeps ==
  ASSUME IInv, NEW k \in Keys, NEW d \in Decisions, Put(k, d), Holds(cache, k)
  PROVE  IInv'
  <1>1. /\ cache' = [items |-> [cache.items EXCEPT ![k] = d],
                      order |-> MoveToFront(cache.order, k)]
        /\ latest' = [x \in DOMAIN latest \cup {k} |-> IF x = k THEN d ELSE latest[x]]
        /\ newer' = UsedNow(k, DOMAIN latest)
    BY DEF Put, Store
  <1>2. k \in DOMAIN latest /\ DOMAIN latest' = DOMAIN latest
    <2>1. k \in DOMAIN latest
      BY HeldFacts DEF Holds
    <2> QED BY <1>1, <2>1
  <1>3. /\ cache'.items = [cache.items EXCEPT ![k] = d]
        /\ cache'.order = MoveToFront(cache.order, k)
        /\ cache' = [items |-> cache'.items, order |-> cache'.order]
        /\ DOMAIN cache'.items = DOMAIN cache.items
        /\ cache'.items \in [DOMAIN cache.items -> Decisions]
    BY <1>1 DEF IInv, TypeOK, IsStore
  <1>4. /\ IsStore(cache', Keys, Decisions)
        /\ IsCoherent(cache')
        /\ Len(cache'.order) = Len(cache.order)
        /\ \E at \in 1..Len(cache.order) :
             /\ cache.order[at] = k
             /\ \A j \in 1..Len(cache.order) :
                  cache'.order[j] = cache.order[Src(at, j)]
    <2>1. IsStore(cache, Keys, Decisions) /\ IsCoherent(cache)
      BY DEF IInv, TypeOK, Coherent
    <2> QED BY <1>3, <2>1, ReorderKeeps
  <1>5. TypeOK'
    <2>1. latest' \in [DOMAIN latest' -> Decisions]
      BY <1>1 DEF IInv, TypeOK
    <2> QED BY <1>1, <1>2, <1>4, <2>1, UsedNowIs DEF TypeOK, IInv
  <1>6. Coherent' /\ Bounded'
    BY <1>4 DEF Coherent, Bounded, IInv, Capacity
  <1>7. OrderedByUse'
    BY <1>1, <1>4, MoveKeepsOrder DEF OrderedByUse
  <1>8. KeepsMostRecent'
    <2>1. ASSUME NEW a \in DOMAIN cache.items,
                 NEW b \in DOMAIN latest \ DOMAIN cache.items
          PROVE  <<a, b>> \in UsedNow(k, DOMAIN latest)
      <3>1. <<a, b>> \in newer
        BY DEF IInv, KeepsMostRecent
      <3>2. b # k
        BY DEF Holds
      <3> QED BY <3>1, <3>2, UsedNowIs DEF IInv
    <2>2. DOMAIN latest # DOMAIN cache.items => Len(cache.order) = Capacity
      BY DEF IInv, KeepsMostRecent
    <2> QED BY <1>1, <1>2, <1>3, <1>4, <2>1, <2>2 DEF KeepsMostRecent, Capacity
  <1>9. HitsAreLatest'
    BY <1>1, <1>2, <1>3 DEF HitsAreLatest, IInv
  <1> QED BY <1>5, <1>6, <1>7, <1>8, <1>9 DEF IInv

(* Put of a new key: after an eviction when the list is full, into the     *)
(* free slot otherwise. `base' is the store the key is inserted into.      *)
LEMMA PutNewKeeps ==
  ASSUME IInv, NEW k \in Keys, NEW d \in Decisions, Put(k, d), ~ Holds(cache, k)
  PROVE  IInv'
  <1> DEFINE n == Len(cache.order)
             full == n >= Capacity
             base == IF full THEN EvictBack(cache) ELSE cache
  <1>1. /\ cache' = Insert(base, k, d)
        /\ latest' = [x \in DOMAIN latest \cup {k} |-> IF x = k THEN d ELSE latest[x]]
        /\ newer' = UsedNow(k, DOMAIN latest)
    BY DEF Put, Store
  <1>2. n \in Nat /\ n <= Capacity /\ Capacity \in Nat /\ Capacity >= 1
    BY HeldFacts, CapacityPositive DEF IInv, Bounded
  <1>3. IsStore(cache, Keys, Decisions) /\ IsCoherent(cache)
    BY DEF IInv, TypeOK, Coherent
  <1>4. /\ IsStore(base, Keys, Decisions)
        /\ IsCoherent(base)
        /\ Len(base.order) = IF full THEN n - 1 ELSE n
        /\ \A j \in 1..Len(base.order) : base.order[j] = cache.order[j]
        /\ DOMAIN base.items =
             IF full THEN DOMAIN cache.items \ {cache.order[n]} ELSE DOMAIN cache.items
        /\ \A x \in DOMAIN base.items : base.items[x] = cache.items[x]
    <2>1. CASE full
      <3>1. n # 0
        BY <2>1, <1>2
      <3>2. /\ IsStore(EvictBack(cache), Keys, Decisions)
            /\ IsCoherent(EvictBack(cache))
            /\ EvictedFrom(cache, EvictBack(cache))
        BY <1>3, <3>1, EvictBackKeeps
      <3>3. base = EvictBack(cache)
        BY <2>1
      <3> HIDE DEF base
      <3> QED BY <2>1, <3>2, <3>3 DEF EvictedFrom
    <2>2. CASE ~ full
      BY <1>3, <2>2
    <2> QED BY <2>1, <2>2
  <1> HIDE DEF base
  <1>5. ~ Holds(base, k)
    BY <1>4 DEF Holds
  <1>6. /\ IsStore(cache', Keys, Decisions)
        /\ IsCoherent(cache')
        /\ Len(cache'.order) = Len(base.order) + 1
        /\ cache'.order[1] = k
        /\ \A j \in 2..Len(cache'.order) : cache'.order[j] = base.order[j - 1]
        /\ DOMAIN cache'.items = DOMAIN base.items \cup {k}
        /\ cache'.items[k] = d
        /\ \A x \in DOMAIN base.items : cache'.items[x] = base.items[x]
    <2>1. /\ IsStore(base, Keys, Decisions) /\ IsCoherent(base)
          /\ ~ Holds(base, k) /\ cache' = Insert(base, k, d)
      BY <1>1, <1>4, <1>5 DEF base
    <2>2. /\ IsStore(cache', Keys, Decisions) /\ IsCoherent(cache')
          /\ InsertedInto(base, k, d, cache')
      BY <2>1, InsertKeeps
    <2> QED BY <2>2 DEF InsertedInto
  <1>7. DOMAIN base.items \subseteq DOMAIN cache.items /\ k \notin DOMAIN base.items
    BY <1>4, <1>5 DEF Holds
  <1>8. /\ latest'[k] = d
        /\ DOMAIN latest' = DOMAIN latest \cup {k}
        /\ \A x \in DOMAIN latest : x # k => latest'[x] = latest[x]
    BY <1>1
  <1>9. TypeOK'
    <2>1. latest' \in [DOMAIN latest' -> Decisions] /\ DOMAIN latest' \subseteq Keys
      BY <1>1 DEF IInv, TypeOK
    <2> QED BY <1>1, <1>6, <2>1, UsedNowIs DEF TypeOK, IInv
  <1>10. Coherent'
    BY <1>6 DEF Coherent
  <1>11. Bounded'
    BY <1>2, <1>4, <1>6 DEF Bounded, Capacity
  <1>12. OrderedByUse'
    <2> SUFFICES ASSUME NEW i \in 1..Len(cache'.order), NEW j \in 1..Len(cache'.order),
                        i < j
                 PROVE  <<cache'.order[i], cache'.order[j]>> \in UsedNow(k, DOMAIN latest)
      BY <1>1 DEF OrderedByUse
    <2>1. /\ Len(base.order) \in Nat
          /\ Len(base.order) <= n
          /\ Len(cache'.order) = Len(base.order) + 1
      BY <1>2, <1>4, <1>6
    <2>2. ASSUME NEW m \in 2..Len(cache'.order)
          PROVE  /\ m - 1 \in 1..n
                 /\ cache'.order[m] = cache.order[m - 1]
                 /\ cache.order[m - 1] \in DOMAIN latest
                 /\ cache.order[m - 1] # k
      <3>1. m - 1 \in 1..n /\ m - 1 \in 1..Len(base.order)
        BY <2>1, <1>2
      <3>2. cache'.order[m] = cache.order[m - 1]
        BY <3>1, <1>4, <1>6
      <3>3. /\ cache.order[m - 1] \in DOMAIN latest
            /\ cache.order[m - 1] \in DOMAIN cache.items
        BY <3>1, HeldFacts
      <3> QED BY <3>1, <3>2, <3>3 DEF Holds
    <2>3. j \in 2..Len(cache'.order)
      BY <2>1
    <2>4. CASE i = 1
      BY <2>2, <2>3, <2>4, <1>6, UsedNowIs DEF IInv
    <2>5. CASE i # 1
      <3>1. i \in 2..Len(cache'.order) /\ i - 1 < j - 1
        BY <2>1, <2>5
      <3>2. <<cache.order[i - 1], cache.order[j - 1]>> \in newer
        BY <2>2, <2>3, <3>1 DEF IInv, OrderedByUse
      <3>3. <<cache'.order[i], cache'.order[j]>> \in newer
        BY <2>2, <2>3, <3>1, <3>2
      <3>4. cache'.order[i] # k /\ cache'.order[j] # k
        BY <2>2, <2>3, <3>1
      <3> QED BY <3>3, <3>4, UsedNowIs DEF IInv
    <2> QED BY <2>4, <2>5
  <1>13. KeepsMostRecent'
    <2>1. ASSUME NEW a \in DOMAIN cache'.items,
                 NEW b \in DOMAIN latest' \ DOMAIN cache'.items
          PROVE  <<a, b>> \in UsedNow(k, DOMAIN latest)
      <3>1. b # k /\ b \in DOMAIN latest
        BY <1>6, <1>8
      <3>2. CASE a = k
        BY <3>1, <3>2, UsedNowIs DEF IInv
      <3>3. CASE a # k
        <4>1. a \in DOMAIN base.items /\ a \in DOMAIN cache.items
          BY <3>3, <1>6, <1>7
        <4>2. CASE b \notin DOMAIN cache.items
          BY <3>1, <3>3, <4>1, <4>2, UsedNowIs DEF IInv, KeepsMostRecent
        <4>3. CASE b \in DOMAIN cache.items
          <5>1. full /\ b = cache.order[n]
            BY <4>3, <1>4, <1>6
          <5>2. PICK i \in 1..n : cache.order[i] = a
            BY <4>1, HeldFacts
          <5>3. i # n
            BY <4>1, <5>1, <5>2, <1>4
          <5>4. n \in 1..n /\ i < n
            BY <5>3, <1>2
          <5>5. <<a, b>> \in newer
            BY <5>1, <5>2, <5>4 DEF IInv, OrderedByUse
          <5> QED BY <3>1, <3>3, <5>5, UsedNowIs DEF IInv
        <4> QED BY <4>2, <4>3
      <3> QED BY <3>2, <3>3
    <2>2. DOMAIN latest' # DOMAIN cache'.items => Len(cache'.order) = Capacity
      <3>1. CASE full
        BY <3>1, <1>2, <1>4, <1>6
      <3>2. CASE ~ full
        <4>1. n # Capacity
          BY <3>2, <1>2
        <4>2. DOMAIN latest = DOMAIN cache.items
          BY <4>1 DEF IInv, KeepsMostRecent
        <4> QED BY <3>2, <4>2, <1>4, <1>6, <1>8
      <3> QED BY <3>1, <3>2
    <2> QED BY <1>1, <2>1, <2>2 DEF KeepsMostRecent, Capacity
  <1>14. HitsAreLatest'
    <2> SUFFICES ASSUME NEW x \in DOMAIN cache'.items
                 PROVE  x \in DOMAIN latest' /\ cache'.items[x] = latest'[x]
      BY DEF HitsAreLatest
    <2>1. CASE x = k
      BY <2>1, <1>6, <1>8
    <2>2. CASE x # k
      <3>1. x \in DOMAIN base.items /\ x \in DOMAIN cache.items
        BY <2>2, <1>6, <1>7
      <3>2. x \in DOMAIN latest /\ cache.items[x] = latest[x]
        BY <3>1 DEF IInv, HitsAreLatest
      <3> QED BY <2>2, <3>1, <3>2, <1>4, <1>6, <1>8
    <2> QED BY <2>1, <2>2
  <1> QED BY <1>9, <1>10, <1>11, <1>12, <1>13, <1>14 DEF IInv

(* The invariant is inductive.                                             *)
THEOREM CacheInvariant == Spec => []IInv
  <1>1. Init => IInv
    BY EmptyIsFine DEF Init
  <1>2. IInv /\ [Next]_vars => IInv'
    <2> SUFFICES ASSUME IInv, [Next]_vars PROVE IInv'
      OBVIOUS
    <2>1. CASE \E k \in Keys : Get(k)
      BY <2>1, GetKeeps
    <2>2. CASE \E k \in Keys, d \in Decisions : Put(k, d)
      BY <2>2, PutHeldKeeps, PutNewKeeps
    <2>3. CASE Clear
      <3>1. /\ cache' = EmptyStore /\ latest' = [k \in {} |-> 0] /\ newer' = {}
        BY <2>3 DEF Clear
      <3>2. (cache = EmptyStore /\ latest = [k \in {} |-> 0] /\ newer = {} => IInv)'
        BY EmptyIsFine, PTL
      <3> QED BY <3>1, <3>2
    <2>4. CASE UNCHANGED vars
      BY <2>4 DEF vars, IInv, TypeOK, Coherent, Bounded, OrderedByUse,
                  KeepsMostRecent, HitsAreLatest, Capacity
    <2> QED BY <2>1, <2>2, <2>3, <2>4 DEF Next
  <1> QED BY <1>1, <1>2, PTL DEF Spec

(* The state of the cache always has its type.                             *)
THEOREM CacheTypeCorrect == Spec => []TypeOK
  <1>1. IInv => TypeOK
    BY DEF IInv
  <1> QED BY <1>1, CacheInvariant, PTL

(* Eviction in cache.go loses only the least recently used decisions, and  *)
(* none while there is room, for every capacity.                           *)
THEOREM CacheKeepsMostRecent == Spec => []KeepsMostRecent
  <1>1. IInv => KeepsMostRecent
    BY DEF IInv
  <1> QED BY <1>1, CacheInvariant, PTL

(* Get returns the decision Put stored last, never one from before Clear.  *)
THEOREM CacheHitsAreLatest == Spec => []HitsAreLatest
  <1>1. IInv => HitsAreLatest
    BY DEF IInv
  <1> QED BY <1>1, CacheInvariant, PTL

(* Map and list never drift apart and the list never outgrows the          *)
(* capacity.                                                               *)
THEOREM CacheCoherentAndBounded == Spec => [](Coherent /\ Bounded)
  <1>1. IInv => Coherent /\ Bounded
    BY DEF IInv
  <1> QED BY <1>1, CacheInvariant, PTL
=============================================================================
