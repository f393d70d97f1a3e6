-------------------------------- MODULE LRU --------------------------------
(***************************************************************************)
(* The map-plus-list structure that the decision cache                     *)
(* (internal/policy/cache.go) and the process table                        *)
(* (internal/process/table.go) are both built on.                          *)
(*                                                                         *)
(* A store is a record                                                     *)
(*   items : a function from the keys in the Go map to the value of the    *)
(*           list element the map points at;                               *)
(*   order : the sequence of the keys of the list elements, front first,   *)
(*           front = most recently used.                                   *)
(* The two halves are updated separately, as in the code, so that a slip   *)
(* that lets them drift apart is visible.                                  *)
(***************************************************************************)
EXTENDS Integers, Sequences

(* What New/NewCache/Clear leave behind: an empty map and an empty list.   *)
EmptyStore == [items |-> [k \in {} |-> 0], order |-> << >>]

(* A configured size below one is raised to one.                           *)
EffectiveCapacity(configured) == IF configured < 1 THEN 1 ELSE configured

PositionOf(order, k) == CHOOSE i \in 1..Len(order) : order[i] = k

(* list.MoveToFront for the element that holds k.                          *)
MoveToFront(order, k) ==
  LET at == PositionOf(order, k)
  IN  [j \in 1..Len(order) |->
         IF j = 1 THEN order[at] ELSE IF j <= at THEN order[j - 1] ELSE order[j]]

(* list.PushFront.                                                         *)
PushFront(order, k) ==
  [j \in 1..(Len(order) + 1) |-> IF j = 1 THEN k ELSE order[j - 1]]

Holds(store, k) == k \in DOMAIN store.items

(* Mutant: a lookup does not count as use.                                 *)
TouchWithoutMove(store, k) == store

(* A lookup that counts as use.                                            *)
Touch(store, k) ==
  IF Holds(store, k)
  THEN [items |-> store.items, order |-> MoveToFront(store.order, k)]
  ELSE store

(* Mutant: the map slot of the evicted element is not deleted.             *)
EvictListOnly(store) ==
  [items |-> store.items,
   order |-> [j \in 1..(Len(store.order) - 1) |-> store.order[j]]]

(* Drop the element at the back of the list and its map slot.              *)
EvictBack(store) ==
  LET n == Len(store.order)
  IN  IF n = 0 THEN store
      ELSE [items |-> [k \in DOMAIN store.items \ {store.order[n]} |->
                         store.items[k]],
            order |-> [j \in 1..(n - 1) |-> store.order[j]]]

(* PushFront of a key the map does not hold, and the new map slot.         *)
Insert(store, k, v) ==
  [items |-> [x \in DOMAIN store.items \cup {k} |->
                IF x = k THEN v ELSE store.items[x]],
   order |-> PushFront(store.order, k)]

(* Overwrite in place and move to front when present; otherwise evict      *)
(* before the insert when the list is full.                                *)
Store(store, k, v, capacity) ==
  IF Holds(store, k)
  THEN [items |-> [store.items EXCEPT ![k] = v],
        order |-> MoveToFront(store.order, k)]
  ELSE Insert(IF Len(store.order) >= capacity THEN EvictBack(store) ELSE store,
              k, v)

(***************************************************************************)
(* Predicates on stores.                                                   *)
(***************************************************************************)

(* The list holds each key once, and exactly the keys of the map.          *)
IsCoherent(store) ==
  /\ \A k \in DOMAIN store.items : \E i \in 1..Len(store.order) : store.order[i] = k
  /\ \A i \in 1..Len(store.order) : store.order[i] \in DOMAIN store.items
  /\ \A i, j \in 1..Len(store.order) :
       store.order[i] = store.order[j] => i = j

(* A store over the given keys and values.                                 *)
IsStore(store, keys, values) ==
  /\ store = [items |-> store.items, order |-> store.order]
  /\ DOMAIN store.items \subseteq keys
  /\ store.items \in [DOMAIN store.items -> values]
  /\ store.order \in Seq(keys)
=============================================================================
