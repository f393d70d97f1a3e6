----------------------------- MODULE LRUProofs -----------------------------
(***************************************************************************)
(* What the list and map operators of LRU keep, for every set of keys and  *)
(* values and every capacity. The decision cache and the process table     *)
(* rest on these lemmas.                                                   *)
(***************************************************************************)
EXTENDS LRU, TLAPS

(* PositionOf finds the list element the map points at.                    *)
LEMMA PositionFound ==
  ASSUME NEW K, NEW order \in Seq(K), NEW i \in 1..Len(order)
  PROVE  /\ PositionOf(order, order[i]) \in 1..Len(order)
         /\ order[PositionOf(order, order[i])] = order[i]
  BY DEF PositionOf

(* The old position of the element at position j after position i moved to *)
(* the front.                                                              *)
Src(i, j) == IF j = 1 THEN i ELSE IF j <= i THEN j - 1 ELSE j

(* Moving to the front permutes the positions: the moved one comes first,  *)
(* the others keep their relative order.                                   *)
LEMMA SrcPermutes ==
  ASSUME NEW n \in Nat, NEW i \in 1..n
  PROVE  /\ \A j \in 1..n : Src(i, j) \in 1..n
         /\ Src(i, 1) = i
         /\ \A j \in 2..n : Src(i, j) # i
         /\ \A a, b \in 1..n : Src(i, a) = Src(i, b) => a = b
         /\ \A a, b \in 1..n : 1 < a /\ a < b => Src(i, a) < Src(i, b)
         /\ \A a \in 1..n : \E j \in 1..n : Src(i, j) = a
  <1>1. \A a \in 1..n : \E j \in 1..n : Src(i, j) = a
    <2>1. ASSUME NEW a \in 1..n, a < i PROVE \E j \in 1..n : Src(i, j) = a
      <3>1. a + 1 \in 1..n /\ Src(i, a + 1) = a
        BY <2>1 DEF Src
      <3> QED BY <3>1
    <2>2. ASSUME NEW a \in 1..n, a > i PROVE \E j \in 1..n : Src(i, j) = a
      BY <2>2 DEF Src
    <2>3. \E j \in 1..n : Src(i, j) = i
      <3>1. 1 \in 1..n /\ Src(i, 1) = i
        BY DEF Src
      <3> QED BY <3>1
    <2> QED BY <2>1, <2>2, <2>3
  <1> QED BY <1>1 DEF Src

(* MoveToFront rearranges the list by Src, for the one position that holds *)
(* the key.                                                                *)
LEMMA MoveToFrontIs ==
  ASSUME NEW K, NEW order \in Seq(K), NEW i \in 1..Len(order),
         \A a, b \in 1..Len(order) : order[a] = order[b] => a = b
  PROVE  MoveToFront(order, order[i]) =
           [j \in 1..Len(order) |-> order[Src(i, j)]]
  <1> DEFINE at == PositionOf(order, order[i])
  <1>1. at \in 1..Len(order) /\ order[at] = order[i]
    BY PositionFound
  <1>2. at = i
    BY <1>1
  <1>3. MoveToFront(order, order[i]) =
          [j \in 1..Len(order) |->
             IF j = 1 THEN order[i] ELSE IF j <= i THEN order[j - 1] ELSE order[j]]
    BY <1>2 DEF MoveToFront
  <1> HIDE DEF at
  <1>4. \A j \in 1..Len(order) :
          order[Src(i, j)] =
            IF j = 1 THEN order[i] ELSE IF j <= i THEN order[j - 1] ELSE order[j]
    BY DEF Src
  <1> QED BY <1>3, <1>4

(* e is s without the key at the back of its list.                         *)
EvictedFrom(s, e) ==
  /\ Len(e.order) = Len(s.order) - 1
  /\ \A j \in 1..Len(e.order) : e.order[j] = s.order[j]
  /\ DOMAIN e.items = DOMAIN s.items \ {s.order[Len(s.order)]}
  /\ \A k \in DOMAIN e.items : e.items[k] = s.items[k]

(* EvictBack removes the last key from the list and from the map, and      *)
(* touches no other key.                                                   *)
LEMMA EvictBackKeeps ==
  ASSUME NEW K, NEW V, NEW s, IsStore(s, K, V), IsCoherent(s),
         Len(s.order) # 0
  PROVE  /\ IsStore(EvictBack(s), K, V)
         /\ IsCoherent(EvictBack(s))
         /\ EvictedFrom(s, EvictBack(s))
  <1> DEFINE e == EvictBack(s)
  <1> DEFINE n == Len(s.order)
             back == s.order[n]
  <1>1. s.order \in Seq(K) /\ n \in Nat /\ n # 0
    BY DEF IsStore
  <1>2. /\ e.items = [k \in DOMAIN s.items \ {back} |-> s.items[k]]
        /\ e.order = [j \in 1..(n - 1) |-> s.order[j]]
        /\ e = [items |-> e.items, order |-> e.order]
    BY <1>1 DEF EvictBack
  <1> HIDE DEF back, e
  <1>3. /\ e.order \in Seq(K) /\ Len(e.order) = n - 1
        /\ \A j \in 1..(n - 1) : e.order[j] = s.order[j]
    BY <1>1, <1>2
  <1>4. /\ DOMAIN e.items = DOMAIN s.items \ {back}
        /\ \A k \in DOMAIN e.items : e.items[k] = s.items[k]
    BY <1>2
  <1>5. IsStore(e, K, V)
    <2>1. DOMAIN s.items \subseteq K /\ s.items \in [DOMAIN s.items -> V]
      BY DEF IsStore
    <2>2. DOMAIN e.items \subseteq K /\ e.items \in [DOMAIN e.items -> V]
      BY <2>1, <1>2
    <2> QED BY <1>2, <1>3, <2>2 DEF IsStore
  <1>6. IsCoherent(e)
    <2>1. /\ \A k \in DOMAIN s.items : \E i \in 1..n : s.order[i] = k
          /\ \A i \in 1..n : s.order[i] \in DOMAIN s.items
          /\ \A i, j \in 1..n : s.order[i] = s.order[j] => i = j
      BY DEF IsCoherent
    <2>2. ASSUME NEW k \in DOMAIN e.items
          PROVE  \E i \in 1..(n - 1) : e.order[i] = k
      <3>1. PICK i \in 1..n : s.order[i] = k
        BY <2>1, <1>4
      <3>2. i # n
        BY <3>1, <1>4 DEF back
      <3>3. i \in 1..(n - 1)
        BY <3>2, <1>1
      <3> QED BY <3>1, <3>3, <1>3
    <2>3. ASSUME NEW i \in 1..(n - 1)
          PROVE  e.order[i] \in DOMAIN e.items
      <3>1. i \in 1..n /\ n \in 1..n /\ i # n
        BY <1>1
      <3>2. s.order[i] # back
        BY <3>1, <2>1 DEF back
      <3> QED BY <3>1, <3>2, <2>1, <1>3, <1>4
    <2>4. ASSUME NEW i \in 1..(n - 1), NEW j \in 1..(n - 1),
                 e.order[i] = e.order[j]
          PROVE  i = j
      <3>1. i \in 1..n /\ j \in 1..n
        BY <1>1
      <3> QED BY <3>1, <2>1, <2>4, <1>3
    <2> QED BY <1>3, <2>2, <2>3, <2>4 DEF IsCoherent
  <1>7. EvictedFrom(s, e)
    BY <1>3, <1>4 DEF back, EvictedFrom
  <1> QED BY <1>5, <1>6, <1>7 DEF e

(* r is s with key k, which s does not hold, in front with value v.        *)
InsertedInto(s, k, v, r) ==
  /\ Len(r.order) = Len(s.order) + 1
  /\ r.order[1] = k
  /\ \A j \in 2..Len(r.order) : r.order[j] = s.order[j - 1]
  /\ DOMAIN r.items = DOMAIN s.items \cup {k}
  /\ r.items[k] = v
  /\ \A x \in DOMAIN s.items : r.items[x] = s.items[x]

(* Insert adds one key, in front, and keeps the store coherent when the    *)
(* key was not held.                                                       *)
LEMMA InsertKeeps ==
  ASSUME NEW K, NEW V, NEW s, IsStore(s, K, V), IsCoherent(s),
         NEW k \in K, NEW v \in V, ~ Holds(s, k)
  PROVE  /\ IsStore(Insert(s, k, v), K, V)
         /\ IsCoherent(Insert(s, k, v))
         /\ InsertedInto(s, k, v, Insert(s, k, v))
  <1> DEFINE n == Len(s.order)
             r == Insert(s, k, v)
  <1>1. s.order \in Seq(K) /\ n \in Nat
    BY DEF IsStore
  <1>2. /\ r.items = [x \in DOMAIN s.items \cup {k} |->
                        IF x = k THEN v ELSE s.items[x]]
        /\ r.order = PushFront(s.order, k)
        /\ r = [items |-> r.items, order |-> r.order]
    BY DEF Insert
  <1> HIDE DEF r
  <1>3. /\ r.order \in Seq(K) /\ Len(r.order) = n + 1 /\ r.order[1] = k
        /\ \A j \in 1..n : r.order[j + 1] = s.order[j]
        /\ \A j \in 2..(n + 1) : r.order[j] = s.order[j - 1]
    <2>1. r.order = [j \in 1..(n + 1) |-> IF j = 1 THEN k ELSE s.order[j - 1]]
      BY <1>2 DEF PushFront
    <2>2. \A j \in 2..(n + 1) : j - 1 \in 1..n /\ s.order[j - 1] \in K
      BY <1>1
    <2>3. r.order \in Seq(K) /\ Len(r.order) = n + 1
      BY <1>1, <2>1, <2>2
    <2> QED BY <1>1, <2>1, <2>3
  <1>4. /\ DOMAIN r.items = DOMAIN s.items \cup {k}
        /\ r.items[k] = v
        /\ \A x \in DOMAIN s.items : r.items[x] = s.items[x]
    BY <1>2 DEF Holds
  <1>5. IsStore(r, K, V)
    <2>1. DOMAIN s.items \subseteq K /\ s.items \in [DOMAIN s.items -> V]
      BY DEF IsStore
    <2>2. DOMAIN r.items \subseteq K /\ r.items \in [DOMAIN r.items -> V]
      BY <2>1, <1>2
    <2> QED BY <1>2, <1>3, <2>2 DEF IsStore
  <1>6. IsCoherent(r)
    <2>1. /\ \A x \in DOMAIN s.items : \E i \in 1..n : s.order[i] = x
          /\ \A i \in 1..n : s.order[i] \in DOMAIN s.items
          /\ \A i, j \in 1..n : s.order[i] = s.order[j] => i = j
      BY DEF IsCoherent
    <2>2. ASSUME NEW x \in DOMAIN r.items
          PROVE  \E i \in 1..(n + 1) : r.order[i] = x
      <3>1. CASE x = k
        <4>1. 1 \in 1..(n + 1)
          BY <1>1
        <4> QED BY <3>1, <4>1, <1>3
      <3>2. CASE x \in DOMAIN s.items
        <4>1. PICK i \in 1..n : s.order[i] = x
          BY <2>1, <3>2
        <4>2. i + 1 \in 1..(n + 1) /\ r.order[i + 1] = x
          BY <4>1, <1>1, <1>3
        <4> QED BY <4>2
      <3> QED BY <3>1, <3>2, <1>4
    <2>3. ASSUME NEW i \in 1..(n + 1)
          PROVE  r.order[i] \in DOMAIN r.items
      <3>1. CASE i = 1
        BY <3>1, <1>3, <1>4
      <3>2. CASE i # 1
        <4>1. i \in 2..(n + 1) /\ i - 1 \in 1..n
          BY <3>2, <1>1
        <4> QED BY <4>1, <1>3, <1>4, <2>1
      <3> QED BY <3>1, <3>2
    <2>4. ASSUME NEW i \in 1..(n + 1), NEW j \in 1..(n + 1),
                 r.order[i] = r.order[j]
          PROVE  i = j
      <3>1. ASSUME NEW m \in 1..(n + 1), m # 1
            PROVE  /\ m \in 2..(n + 1) /\ m - 1 \in 1..n
                   /\ r.order[m] = s.order[m - 1] /\ r.order[m] # k
        <4>1. m \in 2..(n + 1) /\ m - 1 \in 1..n
          BY <3>1, <1>1
        <4> QED BY <4>1, <1>3, <2>1 DEF Holds
      <3>2. CASE i # 1 /\ j # 1
        <4>1. i - 1 \in 1..n /\ j - 1 \in 1..n /\ s.order[i - 1] = s.order[j - 1]
          BY <3>1, <3>2, <2>4
        <4>2. i - 1 = j - 1
          BY <4>1, <2>1
        <4> QED BY <4>2, <1>1
      <3>3. CASE i = 1 \/ j = 1
        BY <3>1, <3>3, <2>4, <1>3
      <3> QED BY <3>2, <3>3
    <2> QED BY <1>3, <2>2, <2>3, <2>4 DEF IsCoherent
  <1>7. InsertedInto(s, k, v, r)
    BY <1>3, <1>4 DEF InsertedInto
  <1> QED BY <1>5, <1>6, <1>7 DEF r

(* Rewriting the values of a store and moving a held key to the front      *)
(* keeps the store coherent: what Touch and the overwriting branch of      *)
(* Store do.                                                               *)
LEMMA ReorderKeeps ==
  ASSUME NEW K, NEW V, NEW s, IsStore(s, K, V), IsCoherent(s),
         NEW k, Holds(s, k),
         NEW r, r = [items |-> r.items, order |-> r.order],
         DOMAIN r.items = DOMAIN s.items,
         r.items \in [DOMAIN s.items -> V],
         r.order = MoveToFront(s.order, k)
  PROVE  /\ IsStore(r, K, V)
         /\ IsCoherent(r)
         /\ Len(r.order) = Len(s.order)
         /\ \E at \in 1..Len(s.order) :
              /\ s.order[at] = k
              /\ \A j \in 1..Len(s.order) : r.order[j] = s.order[Src(at, j)]
  <1> DEFINE n == Len(s.order)
  <1>1. s.order \in Seq(K) /\ DOMAIN s.items \subseteq K /\ n \in Nat
    BY DEF IsStore
  <1>2. /\ \A x \in DOMAIN s.items : \E i \in 1..n : s.order[i] = x
        /\ \A i \in 1..n : s.order[i] \in DOMAIN s.items
        /\ \A i, j \in 1..n : s.order[i] = s.order[j] => i = j
    BY DEF IsCoherent
  <1>3. PICK at \in 1..n : s.order[at] = k
    BY <1>2 DEF Holds
  <1>4. r.order = [j \in 1..n |-> s.order[Src(at, j)]]
    <2>1. /\ s.order \in Seq(K) /\ at \in 1..Len(s.order)
          /\ \A a, b \in 1..Len(s.order) : s.order[a] = s.order[b] => a = b
      BY <1>1, <1>2
    <2>2. MoveToFront(s.order, s.order[at]) =
            [j \in 1..Len(s.order) |-> s.order[Src(at, j)]]
      BY <2>1, MoveToFrontIs, Zenon
    <2> QED BY <2>2, <1>3
  <1>5. /\ \A j \in 1..n : Src(at, j) \in 1..n
        /\ \A a, b \in 1..n : Src(at, a) = Src(at, b) => a = b
        /\ \A a \in 1..n : \E j \in 1..n : Src(at, j) = a
    BY <1>1, SrcPermutes
  <1> HIDE DEF n
  <1>6. r.order \in Seq(K) /\ Len(r.order) = n
    <2>1. ASSUME NEW j \in 1..n PROVE s.order[Src(at, j)] \in K
      <3>1. PICK p \in 1..n : p = Src(at, j)
        BY <1>5
      <3>2. s.order[p] \in K
        BY <1>1 DEF n
      <3> QED BY <3>1, <3>2
    <2> QED BY <1>1, <1>4, <2>1
  <1>7. IsStore(r, K, V)
    BY <1>1, <1>6 DEF IsStore
  <1>8. IsCoherent(r)
    <2>1. ASSUME NEW x \in DOMAIN r.items
          PROVE  \E i \in 1..n : r.order[i] = x
      <3>1. PICK a \in 1..n : s.order[a] = x
        BY <1>2
      <3>2. PICK j \in 1..n : Src(at, j) = a
        BY <1>5
      <3> QED BY <3>1, <3>2, <1>4
    <2>2. ASSUME NEW i \in 1..n
          PROVE  r.order[i] \in DOMAIN r.items
      <3>1. PICK p \in 1..n : p = Src(at, i)
        BY <1>5
      <3> QED BY <1>2, <1>4, <3>1
    <2>3. ASSUME NEW i \in 1..n, NEW j \in 1..n, r.order[i] = r.order[j]
          PROVE  i = j
      <3>1. PICK p \in 1..n : p = Src(at, i)
        BY <1>5
      <3>2. PICK q \in 1..n : q = Src(at, j)
        BY <1>5
      <3>3. s.order[p] = s.order[q]
        BY <1>4, <2>3, <3>1, <3>2
      <3> QED BY <1>2, <1>5, <3>1, <3>2, <3>3
    <2> QED BY <1>6, <2>1, <2>2, <2>3 DEF IsCoherent
  <1>9. \A j \in 1..n : r.order[j] = s.order[Src(at, j)]
    BY <1>4
  <1> QED BY <1>3, <1>6, <1>7, <1>8, <1>9 DEF n

-----------------------------------------------------------------------------
(* What a whole call does to a store. Both users of the store rest on      *)
(* these.                                                                  *)

(* A store of at most c elements whose two halves agree.                   *)
Sound(s, K, V, c) ==
  IsStore(s, K, V) /\ IsCoherent(s) /\ Len(s.order) <= c

(* r holds what s held, k with value v, and nothing else.                  *)
HoldsOnly(s, k, v, r) ==
  \A x \in DOMAIN r.items :
    \/ x = k /\ r.items[x] = v
    \/ x # k /\ x \in DOMAIN s.items /\ r.items[x] = s.items[x]

LEMMA EmptyStoreSound ==
  ASSUME NEW K, NEW V, NEW c \in Nat
  PROVE  Sound(EmptyStore, K, V, c)
  <1>1. /\ EmptyStore.order = << >> /\ Len(EmptyStore.order) = 0
        /\ EmptyStore.items = [k \in {} |-> 0] /\ DOMAIN EmptyStore.items = {}
        /\ EmptyStore = [items |-> EmptyStore.items, order |-> EmptyStore.order]
    BY DEF EmptyStore
  <1>2. EmptyStore.items \in [DOMAIN EmptyStore.items -> V]
    BY <1>1
  <1>3. EmptyStore.order \in Seq(K)
    BY <1>1
  <1> QED BY <1>1, <1>2, <1>3 DEF Sound, IsStore, IsCoherent

(* A lookup changes the order of the list and nothing else.                *)
LEMMA TouchKeeps ==
  ASSUME NEW K, NEW V, NEW c, NEW s, Sound(s, K, V, c), NEW k
  PROVE  Sound(Touch(s, k), K, V, c) /\ Touch(s, k).items = s.items
  <1>1. CASE ~ Holds(s, k)
    BY <1>1 DEF Touch
  <1>2. CASE Holds(s, k)
    <2> DEFINE r == Touch(s, k)
    <2>1. /\ r = [items |-> r.items, order |-> r.order]
          /\ r.items = s.items /\ r.order = MoveToFront(s.order, k)
      BY <1>2 DEF Touch
    <2>2. DOMAIN r.items = DOMAIN s.items /\ r.items \in [DOMAIN s.items -> V]
      BY <2>1 DEF Sound, IsStore
    <2> HIDE DEF r
    <2>3. IsStore(s, K, V) /\ IsCoherent(s)
      BY DEF Sound
    <2>4. IsStore(r, K, V) /\ IsCoherent(r) /\ Len(r.order) = Len(s.order)
      BY <1>2, <2>1, <2>2, <2>3, ReorderKeeps
    <2> QED BY <2>1, <2>4 DEF Sound, r
  <1> QED BY <1>1, <1>2

(* An insert or overwrite leaves the store sound at its capacity, holds    *)
(* the new value, and otherwise only what was there.                       *)
LEMMA StoreKeeps ==
  ASSUME NEW K, NEW V, NEW c \in Nat, c >= 1, NEW s, Sound(s, K, V, c),
         NEW k \in K, NEW v \in V
  PROVE  /\ Sound(Store(s, k, v, c), K, V, c)
         /\ HoldsOnly(s, k, v, Store(s, k, v, c))
  <1> DEFINE r == Store(s, k, v, c)
  <1>0. IsStore(s, K, V) /\ IsCoherent(s) /\ Len(s.order) <= c
    BY DEF Sound
  <1>1. CASE Holds(s, k)
    <2>1. /\ r = [items |-> r.items, order |-> r.order]
          /\ r.items = [s.items EXCEPT ![k] = v]
          /\ r.order = MoveToFront(s.order, k)
      BY <1>1 DEF Store
    <2> HIDE DEF r
    <2>2. DOMAIN r.items = DOMAIN s.items /\ r.items \in [DOMAIN s.items -> V]
      BY <1>0, <2>1 DEF IsStore
    <2>3. IsStore(r, K, V) /\ IsCoherent(r) /\ Len(r.order) = Len(s.order)
      BY <1>0, <1>1, <2>1, <2>2, ReorderKeeps
    <2>4. HoldsOnly(s, k, v, r)
      BY <1>1, <2>1 DEF HoldsOnly, Holds
    <2> QED BY <1>0, <2>3, <2>4 DEF Sound, r
  <1>2. CASE ~ Holds(s, k)
    <2> DEFINE base == IF Len(s.order) >= c THEN EvictBack(s) ELSE s
    <2>1. r = Insert(base, k, v)
      BY <1>2 DEF Store
    <2>2. Len(s.order) \in Nat
      BY <1>0 DEF IsStore
    <2>3. /\ IsStore(base, K, V) /\ IsCoherent(base)
          /\ Len(base.order) <= c - 1
          /\ DOMAIN base.items \subseteq DOMAIN s.items
          /\ \A x \in DOMAIN base.items : base.items[x] = s.items[x]
      <3>1. CASE Len(s.order) >= c
        <4>1. Len(s.order) # 0 /\ base = EvictBack(s)
          BY <2>2, <3>1
        <4>2. /\ IsStore(EvictBack(s), K, V) /\ IsCoherent(EvictBack(s))
              /\ EvictedFrom(s, EvictBack(s))
          BY <1>0, <4>1, EvictBackKeeps
        <4> HIDE DEF base
        <4> QED BY <1>0, <2>2, <4>1, <4>2 DEF EvictedFrom
      <3>2. CASE ~ (Len(s.order) >= c)
        BY <1>0, <2>2, <3>2
      <3> QED BY <3>1, <3>2
    <2>4. ~ Holds(base, k)
      BY <1>2, <2>3 DEF Holds
    <2> HIDE DEF base, r
    <2>5. /\ IsStore(r, K, V) /\ IsCoherent(r) /\ InsertedInto(base, k, v, r)
      BY <2>1, <2>3, <2>4, InsertKeeps
    <2>6. Len(r.order) <= c
      <3>1. Len(r.order) = Len(base.order) + 1 /\ Len(base.order) \in Nat
        BY <2>3, <2>5 DEF InsertedInto, IsStore
      <3> QED BY <2>3, <3>1
    <2>7. HoldsOnly(s, k, v, r)
      BY <2>3, <2>5 DEF HoldsOnly, InsertedInto
    <2> QED BY <2>5, <2>6, <2>7 DEF Sound, r
  <1> QED BY <1>1, <1>2
=============================================================================
