------------------------------- MODULE Stats --------------------------------
(***************************************************************************)
(* The statistics of internal/stats/collector.go: counters, counters per   *)
(* action, and two rings of recent entries, each ring under a lock of its  *)
(* own. RecordAllow and RecordDeny run in the handlers, one step per       *)
(* access to shared state; the adds to the totals, which no handler reads, *)
(* belong to the step that follows them.                                   *)
(*                                                                         *)
(* An entry is named by the handler that records it. Cache hit, miss and   *)
(* reload counters, which nothing else reads, are left out, and so are the *)
(* formatting of Summary and its sizes of other tables.                    *)
(***************************************************************************)
EXTENDS Reporters, Integers, Sequences, FiniteSets

CONSTANTS
  Action,     \* the action of each handler's event
  maxRecent   \* 40 in the code

ASSUME StatsAssumption == maxRecent \in Nat \ {0}

VARIABLES
  recording,   \* per handler: how far RecordAllow or RecordDeny is
  totals,      \* totalRequests, totalAllows and totalDenies
  counters,    \* actionAllows and actionDenies: (denied, action) -> count
  recent,      \* ring of all entries
  denies,      \* ring of denials
  recentSeen,  \* history: entries in the order they entered the ring
  deniesSeen   \* history: the same for denials

statsVars == <<recording, totals, counters, recent, denies, recentSeen, deniesSeen>>

EmptyRing == [items |-> << >>, head |-> 0]

StatsInit ==
  /\ recording = [h \in Handlers |-> "before"]
  /\ totals = [requests |-> 0, allows |-> 0, denies |-> 0]
  /\ counters = << >>
  /\ recent = EmptyRing
  /\ denies = EmptyRing
  /\ recentSeen = << >>
  /\ deniesSeen = << >>

-----------------------------------------------------------------------------
(* The rings. head is an index from 0, as in the code.                     *)

(* Mutant: head moves while the ring is still filling.                     *)
recordMovingHead(ring, e) ==
  [items |-> IF Len(ring.items) < maxRecent THEN Append(ring.items, e)
             ELSE [ring.items EXCEPT ![ring.head + 1] = e],
   head |-> (ring.head + 1) % (maxRecent + 1)]

(* recordRecent and recordDeny.                                            *)
record(ring, e) ==
  IF Len(ring.items) < maxRecent
  THEN [ring EXCEPT !.items = Append(@, e)]
  ELSE [items |-> [ring.items EXCEPT ![ring.head + 1] = e],
        head |-> (ring.head + 1) % maxRecent]

(* RecentAccesses and RecentDenies: the n newest entries, newest first; no *)
(* positive n asks for all. The code steps pos down and wraps below zero.  *)
newest(ring, n) ==
  LET size == Len(ring.items)
      want == IF n <= 0 \/ n > size THEN size ELSE n
      pos == IF size < maxRecent THEN size - 1 ELSE ring.head - 1
  IN  [i \in 1..want |-> ring.items[((pos - (i - 1)) % size) + 1]]

-----------------------------------------------------------------------------
(* RecordAllow and RecordDeny.                                             *)

CounterOf(h) == <<h \in Denied, Action[h]>>

Bump(c, k) == [c EXCEPT ![k] = @ + 1]

(* totalRequests, then totalAllows or totalDenies.                         *)
AddTotals(h) ==
  totals' = [requests |-> totals.requests + 1,
             allows |-> totals.allows + (IF h \in Denied THEN 0 ELSE 1),
             denies |-> totals.denies + (IF h \in Denied THEN 1 ELSE 0)]

(* getActionCounter finds the counter of the action and it is increased.   *)
LoadCounter(h) ==
  /\ recording[h] = "before"
  /\ AddTotals(h)
  /\ CounterOf(h) \in DOMAIN counters
  /\ counters' = Bump(counters, CounterOf(h))
  /\ recording' = [recording EXCEPT ![h] = "counted"]
  /\ UNCHANGED <<recent, denies, recentSeen, deniesSeen>>

MissCounter(h) ==
  /\ recording[h] = "before"
  /\ AddTotals(h)
  /\ CounterOf(h) \notin DOMAIN counters
  /\ recording' = [recording EXCEPT ![h] = "missed"]
  /\ UNCHANGED <<counters, recent, denies, recentSeen, deniesSeen>>

WithCounter(h, c) == [k \in DOMAIN c \cup {CounterOf(h)} |->
                        IF k \in DOMAIN c THEN c[k] ELSE 0]

(* Mutant: Store in place of LoadOrStore, so a counter that another        *)
(* handler stored meanwhile starts again.                                  *)
StoreNewCounter(h) ==
  /\ recording[h] = "missed"
  /\ counters' = [WithCounter(h, counters) EXCEPT ![CounterOf(h)] = 1]
  /\ recording' = [recording EXCEPT ![h] = "counted"]
  /\ UNCHANGED <<totals, recent, denies, recentSeen, deniesSeen>>

(* LoadOrStore returns the counter that is in the map after it.            *)
StoreCounter(h) ==
  /\ recording[h] = "missed"
  /\ counters' = Bump(WithCounter(h, counters), CounterOf(h))
  /\ recording' = [recording EXCEPT ![h] = "counted"]
  /\ UNCHANGED <<totals, recent, denies, recentSeen, deniesSeen>>

RecordRecent(h) ==
  /\ recording[h] = "counted"
  /\ recent' = record(recent, h)
  /\ recentSeen' = Append(recentSeen, h)
  /\ recording' = [recording EXCEPT ![h] = IF h \in Denied THEN "recent" ELSE "recorded"]
  /\ UNCHANGED <<totals, counters, denies, deniesSeen>>

RecordDenied(h) ==
  /\ recording[h] = "recent"
  /\ denies' = record(denies, h)
  /\ deniesSeen' = Append(deniesSeen, h)
  /\ recording' = [recording EXCEPT ![h] = "recorded"]
  /\ UNCHANGED <<totals, counters, recent, recentSeen>>

RecordStep(h) ==
  LoadCounter(h) \/ MissCounter(h) \/ StoreCounter(h)
    \/ RecordRecent(h) \/ RecordDenied(h)

-----------------------------------------------------------------------------
(* The last n of everything that entered a ring, newest first.             *)
LastOf(seen, n) == [i \in 1..n |-> seen[Len(seen) + 1 - i]]

RingShows(ring, seen) ==
  LET kept == IF Len(seen) < maxRecent THEN Len(seen) ELSE maxRecent
  IN  /\ newest(ring, 0) = LastOf(seen, kept)
      /\ \A n \in 1..(maxRecent + 1) :
           newest(ring, n) = LastOf(seen, IF n < kept THEN n ELSE kept)

(* RecentAccesses "returns the N most recent accesses, newest first"       *)
(* (collector.go:186), and RecentDenies the denials, however often the     *)
(* rings have wrapped.                                                     *)
RecentIsNewest == RingShows(recent, recentSeen) /\ RingShows(denies, deniesSeen)

(* No count is lost when handlers create the counter of an action at the   *)
(* same time: every handler past getActionCounter is in its counter        *)
(* (collector.go:266).                                                     *)
CountsComplete ==
  LET Past == {h \in Handlers : recording[h] \in {"counted", "recent", "recorded"}}
  IN  \A k \in {CounterOf(h) : h \in Past} :
        counters[k] = Cardinality({h \in Past : CounterOf(h) = k})
=============================================================================
