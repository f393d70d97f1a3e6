--------------------------- MODULE DecisionCache ---------------------------
(***************************************************************************)
(* The decision cache of internal/policy/cache.go: Get, Put and Clear,     *)
(* each one critical section of Cache.mu, in any order by any number of    *)
(* goroutines.                                                             *)
(*                                                                         *)
(* Two history variables say what a caller did since the last Clear, with  *)
(* no reference to the list or the map:                                    *)
(*   latest : for every key stored since, the decision stored last;        *)
(*   newer  : the pairs <<a, b>> of keys where a was used after b. A use   *)
(*            is a Put, or a Get that hits.                                *)
(***************************************************************************)
EXTENDS LRU

CONSTANTS
  Keys,            \* CacheKey values: an action with a target
  Decisions,       \* policy decisions
  DecisionEntries  \* the configured cache.decision-entries

ASSUME EntriesAssumption == DecisionEntries \in Int

VARIABLES cache, latest, newer

vars == <<cache, latest, newer>>

Capacity == EffectiveCapacity(DecisionEntries)

(* What using key k does to the recency relation over the keys in `seen'.  *)
UsedNow(k, seen) ==
  {p \in newer : p[1] # k /\ p[2] # k} \cup {<<k, x>> : x \in seen \ {k}}

Init ==
  /\ cache = EmptyStore
  /\ latest = [k \in {} |-> 0]
  /\ newer = {}

Get(k) ==
  /\ cache' = Touch(cache, k)
  /\ newer' = IF Holds(cache, k) THEN UsedNow(k, DOMAIN latest) ELSE newer
  /\ UNCHANGED latest

Put(k, d) ==
  /\ cache' = Store(cache, k, d, Capacity)
  /\ latest' = [x \in DOMAIN latest \cup {k} |-> IF x = k THEN d ELSE latest[x]]
  /\ newer' = UsedNow(k, DOMAIN latest)

(* Mutant: a Clear that forgets the store.                                  *)
ClearForgotten ==
  /\ UNCHANGED cache
  /\ latest' = [k \in {} |-> 0]
  /\ newer' = {}

Clear ==
  /\ cache' = EmptyStore
  /\ latest' = [k \in {} |-> 0]
  /\ newer' = {}

Next ==
  \/ \E k \in Keys : Get(k)
  \/ \E k \in Keys, d \in Decisions : Put(k, d)
  \/ Clear

Spec == Init /\ [][Next]_vars

-----------------------------------------------------------------------------

TypeOK ==
  /\ IsStore(cache, Keys, Decisions)
  /\ DOMAIN latest \subseteq Keys
  /\ latest \in [DOMAIN latest -> Decisions]
  /\ newer \subseteq Keys \X Keys

(* The Go map and the list never drift apart: a key in one is in the       *)
(* other, once. Otherwise evict() would delete the wrong map slot and the  *)
(* map would keep elements no eviction reaches.                            *)
Coherent == IsCoherent(cache)

(* The list never outgrows the configured capacity, and a size below one   *)
(* is one.                                                                 *)
Bounded == Len(cache.order) <= Capacity

(* Only the least recently used decisions are lost: a key that was stored  *)
(* since the last Clear and is no longer held was used before every key    *)
(* still held, and nothing is evicted while there is room.                 *)
KeepsMostRecent ==
  /\ \A a \in DOMAIN cache.items, b \in DOMAIN latest \ DOMAIN cache.items :
       <<a, b>> \in newer
  /\ DOMAIN latest # DOMAIN cache.items => Len(cache.order) = Capacity

(* A hit returns the decision stored last for that key, and never one      *)
(* from before the last Clear.                                             *)
HitsAreLatest ==
  \A k \in DOMAIN cache.items :
    k \in DOMAIN latest /\ cache.items[k] = latest[k]

(* The list is in order of use, front first.                               *)
OrderedByUse ==
  \A i, j \in 1..Len(cache.order) :
    i < j => <<cache.order[i], cache.order[j]>> \in newer

(* The inductive invariant behind the four properties above.               *)
IInv ==
  /\ TypeOK
  /\ Coherent
  /\ Bounded
  /\ OrderedByUse
  /\ KeepsMostRecent
  /\ HitsAreLatest

=============================================================================
