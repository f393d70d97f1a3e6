------------------------- MODULE ProcessTableProofs -------------------------
(***************************************************************************)
(* The process table stays coherent and within its capacity, and only an   *)
(* exec replaces an entry, and the recorded ancestors of a new entry come  *)
(* first in the list, for every set of processes, every depth and every    *)
(* capacity.                                                               *)
(*                                                                         *)
(* A walk of the parent chain is a recursive function. What it returns is  *)
(* proved by descent: a set of naturals that is not empty has a least      *)
(* element, and there is no least depth at which the claim fails.          *)
(***************************************************************************)
EXTENDS ProcessTable, LRUProofs, WellFoundedInduction

LEMMA LeastNatural ==
  ASSUME NEW T \in SUBSET Nat, T # {}
  PROVE  \E n \in T : \A m \in T : n <= m
  <1> DEFINE less == OpToRel(<, Nat)
  <1>1. IsWellFoundedOn(less, Nat)
    BY NatLessThanWellFounded, Zenon
  <1>2. \A a, b \in Nat : a < b => <<a, b>> \in less
    BY Zenon DEF OpToRel
  <1> HIDE DEF less
  <1>3. PICK n \in T : \A m \in T : ~ (<<m, n>> \in less)
    BY <1>1, WFMin, Zenon
  <1>4. \A m \in T : ~ (m < n)
    BY <1>2, <1>3, Zenon
  <1>5. \A m \in T : m \in Nat /\ n \in Nat
    OBVIOUS
  <1>6. \A m \in T : n <= m
    BY <1>4, <1>5
  <1> QED BY <1>6

-----------------------------------------------------------------------------
(* The walk.                                                               *)

Start(t, pid) == [store |-> t, at |-> pid, more |-> TRUE]

(* f lists the states of a walk of n rounds from t and pid.                *)
IsWalk(f, t, pid, n) ==
  f = [d \in 0..n |-> IF d = 0 THEN Start(t, pid) ELSE WalkStep(f[d - 1])]

LEMMA WalkExists ==
  ASSUME NEW t, NEW pid, NEW depth \in Nat
  PROVE  \E f : IsWalk(f, t, pid, depth)
  <1> DEFINE bad == {n \in Nat : ~ \E f : IsWalk(f, t, pid, n)}
  <1>1. ASSUME NEW n \in bad, \A m \in bad : n <= m PROVE FALSE
    <2>1. CASE n = 0
      <3> DEFINE f == [d \in 0..0 |-> Start(t, pid)]
      <3>1. IsWalk(f, t, pid, 0)
        BY DEF IsWalk
      <3> QED BY <2>1, <3>1
    <2>2. CASE n # 0
      <3>1. n - 1 \in Nat /\ n - 1 \notin bad
        BY <1>1, <2>2
      <3>2. PICK f : IsWalk(f, t, pid, n - 1)
        BY <3>1
      <3> DEFINE g == [d \in 0..n |-> IF d = n THEN WalkStep(f[n - 1]) ELSE f[d]]
      <3>3. \A d \in 0..n : g[d] = IF d = 0 THEN Start(t, pid) ELSE WalkStep(g[d - 1])
        <4>1. \A d \in 0..(n - 1) :
                /\ f[d] = IF d = 0 THEN Start(t, pid) ELSE WalkStep(f[d - 1])
                /\ g[d] = f[d]
          BY <1>1, <3>2 DEF IsWalk
        <4>2. g[n] = WalkStep(f[n - 1])
          BY <1>1
        <4> HIDE DEF g
        <4>3. \A d \in 1..n : g[d - 1] = f[d - 1]
          BY <1>1, <4>1
        <4> QED BY <1>1, <2>2, <4>1, <4>2, <4>3
      <3>4. IsWalk(g, t, pid, n)
        <4>1. g = [d \in 0..n |-> g[d]]
          OBVIOUS
        <4> HIDE DEF g
        <4> QED BY <3>3, <4>1 DEF IsWalk
      <3> QED BY <3>4
    <2> QED BY <2>1, <2>2
  <1>2. bad = {}
    BY <1>1, LeastNatural
  <1> QED BY <1>2

(* What a walk returns.                                                    *)
LEMMA WalkIs ==
  ASSUME NEW t, NEW pid, NEW depth \in Nat
  PROVE  \E f : IsWalk(f, t, pid, depth) /\ Walk(t, pid, depth) = f[depth].store
  <1> DEFINE f == CHOOSE f : IsWalk(f, t, pid, depth)
  <1>1. IsWalk(f, t, pid, depth)
    BY WalkExists
  <1>2. Walk(t, pid, depth) = f[depth].store
    BY DEF Walk, IsWalk, Start
  <1> QED BY <1>1, <1>2

(* A walk of any depth changes the order of the list and nothing else.     *)
LEMMA WalkKeeps ==
  ASSUME NEW K, NEW V, NEW c, NEW t, Sound(t, K, V, c), NEW pid, NEW depth \in Nat
  PROVE  Sound(Walk(t, pid, depth), K, V, c) /\ Walk(t, pid, depth).items = t.items
  <1> DEFINE Kept(w) == Sound(w.store, K, V, c) /\ w.store.items = t.items
  <1>1. PICK f : IsWalk(f, t, pid, depth) /\ Walk(t, pid, depth) = f[depth].store
    BY WalkIs
  <1>2. \A w : Kept(w) => Kept(WalkStep(w))
    <2> SUFFICES ASSUME NEW w, Kept(w) PROVE Kept(WalkStep(w))
      OBVIOUS
    <2>1. WalkStep(w).store = w.store \/ WalkStep(w).store = Touch(w.store, w.at)
      BY DEF WalkStep
    <2> QED BY <2>1, TouchKeeps
  <1>3. Kept(Start(t, pid))
    BY DEF Start
  <1> HIDE DEF Kept
  <1> DEFINE bad == {n \in Nat : n <= depth /\ ~ Kept(f[n])}
  <1>4. ASSUME NEW n \in bad, \A m \in bad : n <= m PROVE FALSE
    <2>1. n \in 0..depth /\ f[n] = IF n = 0 THEN Start(t, pid) ELSE WalkStep(f[n - 1])
      BY <1>1 DEF IsWalk
    <2>2. CASE n = 0
      BY <1>3, <2>1, <2>2
    <2>3. CASE n # 0
      <3>1. n - 1 \in Nat /\ n - 1 <= depth /\ n - 1 \notin bad
        BY <1>4, <2>1, <2>3
      <3>2. Kept(f[n - 1])
        BY <3>1
      <3> QED BY <1>2, <2>1, <2>3, <3>2
    <2> QED BY <2>2, <2>3
  <1>5. bad = {}
    BY <1>4, LeastNatural
  <1>6. Kept(f[depth])
    BY <1>5
  <1> QED BY <1>1, <1>6 DEF Kept

-----------------------------------------------------------------------------
(* The ancestors.                                                          *)

(* q is the n-th pid on the chain of recorded parents from p.              *)
Reaches(t, p, n, q) ==
  \E f \in [1..n -> DOMAIN t.items] :
    f[1] = p /\ f[n] = q /\ \A i \in 1..(n - 1) : t.items[f[i]].ppid = f[i + 1]

LEMMA ReachesOne ==
  ASSUME NEW t, NEW p, NEW q \in DOMAIN t.items
  PROVE  Reaches(t, p, 1, q) <=> q = p
  <1>1. ASSUME Reaches(t, p, 1, q) PROVE q = p
    BY <1>1 DEF Reaches
  <1>2. ASSUME q = p PROVE Reaches(t, p, 1, q)
    <2> DEFINE f == [i \in 1..1 |-> q]
    <2>1. f \in [1..1 -> DOMAIN t.items] /\ f[1] = q
      OBVIOUS
    <2>2. \A i \in 1..(1 - 1) : t.items[f[i]].ppid = f[i + 1]
      OBVIOUS
    <2> QED BY <1>2, <2>1, <2>2 DEF Reaches
  <1> QED BY <1>1, <1>2

LEMMA ReachesNext ==
  ASSUME NEW t, NEW p, NEW n \in Nat, n >= 1, NEW q \in DOMAIN t.items
  PROVE  Reaches(t, p, n + 1, q) <=>
           \E a \in DOMAIN t.items : Reaches(t, p, n, a) /\ t.items[a].ppid = q
  <1>1. ASSUME Reaches(t, p, n + 1, q)
        PROVE  \E a \in DOMAIN t.items : Reaches(t, p, n, a) /\ t.items[a].ppid = q
    <2>1. PICK f \in [1..(n + 1) -> DOMAIN t.items] :
            /\ f[1] = p /\ f[n + 1] = q
            /\ \A i \in 1..(n + 1 - 1) : t.items[f[i]].ppid = f[i + 1]
      BY <1>1 DEF Reaches
    <2> DEFINE g == [i \in 1..n |-> f[i]]
    <2>2. /\ g \in [1..n -> DOMAIN t.items] /\ g[1] = p /\ g[n] = f[n]
          /\ \A i \in 1..(n - 1) : t.items[g[i]].ppid = g[i + 1]
      BY <2>1
    <2>3. f[n] \in DOMAIN t.items /\ t.items[f[n]].ppid = q
      BY <2>1
    <2> QED BY <2>2, <2>3 DEF Reaches
  <1>2. ASSUME NEW a \in DOMAIN t.items, Reaches(t, p, n, a), t.items[a].ppid = q
        PROVE  Reaches(t, p, n + 1, q)
    <2>1. PICK f \in [1..n -> DOMAIN t.items] :
            /\ f[1] = p /\ f[n] = a
            /\ \A i \in 1..(n - 1) : t.items[f[i]].ppid = f[i + 1]
      BY <1>2 DEF Reaches
    <2> DEFINE g == [i \in 1..(n + 1) |-> IF i = n + 1 THEN q ELSE f[i]]
    <2>2. /\ g \in [1..(n + 1) -> DOMAIN t.items] /\ g[1] = p /\ g[n + 1] = q
          /\ \A i \in 1..n : g[i] = f[i]
      BY <2>1
    <2> HIDE DEF g
    <2>3. \A i \in 1..(n + 1 - 1) : t.items[g[i]].ppid = g[i + 1]
      <3> SUFFICES ASSUME NEW i \in 1..n PROVE t.items[g[i]].ppid = g[i + 1]
        OBVIOUS
      <3>1. CASE i = n
        BY <1>2, <2>1, <2>2, <3>1
      <3>2. CASE i # n
        <4>1. i \in 1..(n - 1) /\ i + 1 \in 1..n
          BY <3>2
        <4> QED BY <2>1, <2>2, <4>1
      <3> QED BY <3>1, <3>2
    <2> QED BY <2>2, <2>3 DEF Reaches
  <1> QED BY <1>1, <1>2

LEMMA ChainNext ==
  ASSUME NEW t, NEW p, NEW n \in Nat
  PROVE  Chain(t, p, n + 1) =
           Chain(t, p, n) \cup {q \in DOMAIN t.items : Reaches(t, p, n + 1, q)}
  <1>1. \A m \in Nat : Chain(t, p, m) =
          {q \in DOMAIN t.items : \E k \in 1..m : Reaches(t, p, k, q)}
    BY DEF Chain, Reaches
  <1>2. \A k : k \in 1..(n + 1) <=> k \in 1..n \/ k = n + 1
    OBVIOUS
  <1> QED BY <1>1, <1>2

LEMMA ChainNone ==
  ASSUME NEW t, NEW p
  PROVE  Chain(t, p, 0) = {}
  BY DEF Chain

LEMMA ParentOfChain ==
  ASSUME NEW t, NEW p, NEW n \in Nat, NEW a \in Chain(t, p, n),
         NEW q \in DOMAIN t.items, t.items[a].ppid = q
  PROVE  q \in Chain(t, p, n + 1)
  <1>1. PICK k \in 1..n : a \in DOMAIN t.items /\ Reaches(t, p, k, a)
    BY DEF Chain, Reaches
  <1>2. k \in Nat /\ k >= 1 /\ k + 1 \in 1..(n + 1)
    OBVIOUS
  <1>3. Reaches(t, p, k + 1, q)
    BY <1>1, <1>2, ReachesNext
  <1> QED BY <1>2, <1>3 DEF Chain, Reaches

(* A lookup puts one more pid ahead of all that are not in front.          *)
LEMMA TouchAhead ==
  ASSUME NEW K, NEW V, NEW c, NEW s, Sound(s, K, V, c), NEW k, Holds(s, k),
         NEW front \in SUBSET DOMAIN s.items,
         AheadOf(s, front, DOMAIN s.items \ front)
  PROVE  AheadOf(Touch(s, k), front \cup {k}, DOMAIN s.items \ (front \cup {k}))
  <1> DEFINE r == Touch(s, k)
             n == Len(s.order)
  <1>0. IsStore(s, K, V) /\ IsCoherent(s) /\ s.order \in Seq(K) /\ n \in Nat
    BY DEF Sound, IsStore
  <1>1. /\ r = [items |-> r.items, order |-> r.order]
        /\ r.items = s.items /\ r.order = MoveToFront(s.order, k)
    BY DEF Touch
  <1>2. DOMAIN r.items = DOMAIN s.items /\ r.items \in [DOMAIN s.items -> V]
    BY <1>0, <1>1 DEF IsStore
  <1> HIDE DEF r
  <1>3. /\ IsStore(r, K, V) /\ IsCoherent(r) /\ Len(r.order) = n
        /\ \E at \in 1..n :
             s.order[at] = k /\ \A j \in 1..n : r.order[j] = s.order[Src(at, j)]
    BY <1>0, <1>1, <1>2, ReorderKeeps
  <1>4. PICK at \in 1..n :
          s.order[at] = k /\ \A j \in 1..n : r.order[j] = s.order[Src(at, j)]
    BY <1>3
  <1> HIDE DEF n
  <1>5. \A a \in DOMAIN s.items :
          /\ PositionOf(s.order, a) \in 1..n /\ s.order[PositionOf(s.order, a)] = a
          /\ PositionOf(r.order, a) \in 1..n /\ r.order[PositionOf(r.order, a)] = a
    BY <1>0, <1>2, <1>3 DEF PositionOf, IsCoherent, n
  <1>6. \A i, j \in 1..n : s.order[i] = s.order[j] => i = j
    BY <1>0 DEF IsCoherent, n
  <1>7. /\ \A j \in 1..n : Src(at, j) \in 1..n
        /\ Src(at, 1) = at
        /\ \A j \in 2..n : Src(at, j) # at
        /\ \A a, b \in 1..n : 1 < a /\ a < b => Src(at, a) < Src(at, b)
    BY <1>0, SrcPermutes
  <1>8. \A a \in DOMAIN s.items :
          /\ PositionOf(s.order, a) = Src(at, PositionOf(r.order, a))
          /\ a = k <=> PositionOf(r.order, a) = 1
    <2> SUFFICES ASSUME NEW a \in DOMAIN s.items
                 PROVE  /\ PositionOf(s.order, a) = Src(at, PositionOf(r.order, a))
                        /\ a = k <=> PositionOf(r.order, a) = 1
      OBVIOUS
    <2> DEFINE i == PositionOf(s.order, a)
               j == PositionOf(r.order, a)
    <2>1. i \in 1..n /\ s.order[i] = a /\ j \in 1..n /\ r.order[j] = a
      BY <1>5
    <2> HIDE DEF i, j
    <2>2. s.order[Src(at, j)] = a /\ Src(at, j) \in 1..n
      BY <1>4, <1>7, <2>1
    <2>3. i = Src(at, j)
      BY <1>6, <2>1, <2>2
    <2>4. a = k <=> i = at
      BY <1>4, <1>6, <2>1
    <2>5. i = at <=> j = 1
      BY <1>7, <2>1, <2>3
    <2> QED BY <2>3, <2>4, <2>5 DEF i, j
  <1>9. ASSUME NEW a \in front \cup {k}, NEW b \in DOMAIN s.items \ (front \cup {k})
        PROVE  PositionOf(r.order, a) < PositionOf(r.order, b)
    <2> DEFINE ja == PositionOf(r.order, a)
               jb == PositionOf(r.order, b)
    <2>1. a \in DOMAIN s.items /\ ja \in 1..n /\ jb \in 1..n /\ jb # 1
      BY <1>5, <1>8 DEF Holds
    <2>2. CASE a = k
      BY <1>8, <2>1, <2>2
    <2>3. CASE a # k
      <3>1. Src(at, ja) < Src(at, jb)
        BY <1>8, <2>1, <2>3 DEF AheadOf
      <3>2. ja # 1
        BY <1>8, <2>1, <2>3
      <3> HIDE DEF ja, jb
      <3>3. ~ (jb < ja) /\ jb # ja
        BY <1>7, <2>1, <3>1, <3>2
      <3>4. ja < jb
        BY <2>1, <3>3
      <3> QED BY <3>4 DEF ja, jb
    <2> QED BY <2>2, <2>3
  <1> QED BY <1>9 DEF AheadOf, r

(* A walk of any depth leaves the pids it can reach, and no others, in     *)
(* front.                                                                  *)
LEMMA WalkWarms ==
  ASSUME NEW K, NEW V, NEW c, NEW t, Sound(t, K, V, c), NEW pid, NEW depth \in Nat
  PROVE  LET chain == Chain(t, pid, depth)
         IN  AheadOf(Walk(t, pid, depth), chain, DOMAIN t.items \ chain)
  <1> DEFINE chain(n) == Chain(t, pid, n)
             next(n) == {q \in DOMAIN t.items : Reaches(t, pid, n + 1, q)}
             Warm(n, w) ==
               /\ Sound(w.store, K, V, c) /\ w.store.items = t.items
               /\ AheadOf(w.store, chain(n), DOMAIN t.items \ chain(n))
               /\ w.more \in BOOLEAN
               /\ w.more = TRUE => next(n) = {w.at} \cap DOMAIN t.items
               /\ w.more = FALSE => next(n) \subseteq chain(n)
  <1>1. PICK f : IsWalk(f, t, pid, depth) /\ Walk(t, pid, depth) = f[depth].store
    BY WalkIs
  <1>2. Warm(0, Start(t, pid))
    <2>1. chain(0) = {}
      BY ChainNone
    <2>2. next(0) = {pid} \cap DOMAIN t.items
      BY ReachesOne
    <2> HIDE DEF chain, next
    <2> QED BY <2>1, <2>2 DEF Start, AheadOf
  <1>3. ASSUME NEW n \in Nat, NEW w, Warm(n, w) PROVE Warm(n + 1, WalkStep(w))
    <2>1. chain(n + 1) = chain(n) \cup next(n) /\ chain(n) \subseteq DOMAIN t.items
      <3>1. chain(n + 1) = chain(n) \cup next(n)
        BY ChainNext
      <3>2. chain(n) \subseteq DOMAIN t.items
        BY DEF Chain
      <3> QED BY <3>1, <3>2
    <2>2. next(n + 1) = {q \in DOMAIN t.items : \E a \in next(n) : t.items[a].ppid = q}
      <3>1. n + 1 \in Nat /\ n + 1 >= 1
        OBVIOUS
      <3>2. \A q \in DOMAIN t.items : Reaches(t, pid, (n + 1) + 1, q) <=>
              \E a \in DOMAIN t.items : Reaches(t, pid, n + 1, a) /\ t.items[a].ppid = q
        BY <3>1, ReachesNext
      <3> QED BY <3>2
    <2>3. \A a \in chain(n), q \in DOMAIN t.items : t.items[a].ppid = q => q \in chain(n + 1)
      BY ParentOfChain
    <2> HIDE DEF chain, next
    <2>4. CASE w.more = FALSE
      <3>1. WalkStep(w) = [store |-> w.store, at |-> w.at, more |-> FALSE]
        BY <2>4 DEF WalkStep
      <3>2. chain(n + 1) = chain(n)
        BY <1>3, <2>1, <2>4
      <3>3. next(n + 1) \subseteq chain(n + 1)
        BY <1>3, <2>2, <2>3, <2>4
      <3> QED BY <1>3, <3>1, <3>2, <3>3
    <2>5. CASE w.more = TRUE /\ ~ Holds(w.store, w.at)
      <3>1. WalkStep(w) = [store |-> w.store, at |-> w.at, more |-> FALSE]
        BY <2>5 DEF WalkStep
      <3>2. next(n) = {}
        BY <1>3, <2>5 DEF Holds
      <3>3. chain(n + 1) = chain(n) /\ next(n + 1) = {}
        BY <2>1, <2>2, <3>2
      <3> QED BY <1>3, <3>1, <3>3
    <2>6. CASE w.more = TRUE /\ Holds(w.store, w.at)
      <3> DEFINE up == t.items[w.at].ppid
      <3>1. WalkStep(w) = [store |-> Touch(w.store, w.at), at |-> up, more |-> up # w.at]
        BY <1>3, <2>6 DEF WalkStep
      <3>2. next(n) = {w.at} /\ w.at \in DOMAIN t.items
        BY <1>3, <2>6 DEF Holds
      <3>3. chain(n + 1) = chain(n) \cup {w.at}
        BY <2>1, <3>2
      <3>4. next(n + 1) = {up} \cap DOMAIN t.items
        BY <2>2, <3>2
      <3>5. /\ Sound(Touch(w.store, w.at), K, V, c)
            /\ Touch(w.store, w.at).items = t.items
        BY <1>3, TouchKeeps
      <3>6. AheadOf(Touch(w.store, w.at), chain(n + 1), DOMAIN t.items \ chain(n + 1))
        BY <1>3, <2>1, <2>6, <3>3, TouchAhead
      <3> HIDE DEF up
      <3>7. up = w.at => next(n + 1) \subseteq chain(n + 1)
        BY <3>3, <3>4
      <3>8. CASE up = w.at
        <4>1. WalkStep(w) = [store |-> Touch(w.store, w.at), at |-> up, more |-> FALSE]
          BY <3>1, <3>8
        <4> QED BY <3>5, <3>6, <3>7, <3>8, <4>1
      <3>9. CASE up # w.at
        <4>1. WalkStep(w) = [store |-> Touch(w.store, w.at), at |-> up, more |-> TRUE]
          BY <3>1, <3>9
        <4> QED BY <3>4, <3>5, <3>6, <4>1
      <3> QED BY <3>8, <3>9
    <2> QED BY <1>3, <2>4, <2>5, <2>6
  <1> HIDE DEF Warm
  <1> DEFINE bad == {n \in Nat : n <= depth /\ ~ Warm(n, f[n])}
  <1>4. ASSUME NEW n \in bad, \A m \in bad : n <= m PROVE FALSE
    <2>1. n \in 0..depth /\ f[n] = IF n = 0 THEN Start(t, pid) ELSE WalkStep(f[n - 1])
      BY <1>1 DEF IsWalk
    <2>2. CASE n = 0
      BY <1>2, <2>1, <2>2
    <2>3. CASE n # 0
      <3>1. n - 1 \in Nat /\ n - 1 <= depth /\ n - 1 \notin bad /\ (n - 1) + 1 = n
        BY <1>4, <2>1, <2>3
      <3>2. Warm(n - 1, f[n - 1])
        BY <3>1
      <3>3. Warm((n - 1) + 1, WalkStep(f[n - 1]))
        BY <1>3, <3>1, <3>2
      <3> QED BY <2>1, <2>3, <3>1, <3>3
    <2> QED BY <2>2, <2>3
  <1>5. bad = {}
    BY <1>4, LeastNatural
  <1>6. Warm(depth, f[depth])
    BY <1>5
  <1> QED BY <1>1, <1>6 DEF Warm

-----------------------------------------------------------------------------
(* The table.                                                              *)

LEMMA CapacityPositive == Capacity \in Nat /\ Capacity >= 1
  BY TableAssumption DEF Capacity, EffectiveCapacity

Entries == Sound(table, Pids, Entry, Capacity)

LEMMA CoherentIs == TableCoherent <=> call \in [Calls -> Call] /\ Entries
  BY DEF TableCoherent, TypeOK, Entries, Sound

(* r holds the entries of t, but for the one of pid.                       *)
OnlyPid(t, pid, r) ==
  \A p \in DOMAIN t.items \cap DOMAIN r.items : p # pid => r.items[p] = t.items[p]

(* The insert that ends a call is a store, then a walk.                    *)
LEMMA RecordIsWalk ==
  ASSUME Entries, NEW c \in Calls, call[c] \in Call, call[c] # Idle,
         call[c].at = "insert"
  PROVE  \E r : /\ Sound(r, Pids, Entry, Capacity)
                /\ OnlyPid(table, call[c].pid, r)
                /\ Record(table, call[c]) = Walk(r, call[c].ppid, maxAncestorDepth)
  <1> DEFINE k == call[c].pid
             e == [exe |-> call[c].exe, ppid |-> call[c].ppid]
             r == put(table, k, e)
  <1>1. k \in Pids /\ e \in Entry
    BY DEF Call, Entry, Idle
  <1> HIDE DEF e, k
  <1>2. Sound(r, Pids, Entry, Capacity) /\ HoldsOnly(table, k, e, r)
    BY <1>1, CapacityPositive, StoreKeeps DEF Entries, put
  <1> HIDE DEF r
  <1>3. Record(table, call[c]) = Walk(r, call[c].ppid, maxAncestorDepth)
    BY DEF Record, touchAncestors, r, e, k
  <1>4. OnlyPid(table, call[c].pid, r)
    BY <1>2 DEF OnlyPid, HoldsOnly, k
  <1> QED BY <1>2, <1>3, <1>4

(* The insert that ends a call keeps the table sound and touches no other  *)
(* entry, although it evicts, reorders and walks.                          *)
LEMMA RecordKeeps ==
  ASSUME Entries, NEW c \in Calls, call[c] \in Call, call[c] # Idle,
         call[c].at = "insert"
  PROVE  /\ Sound(Record(table, call[c]), Pids, Entry, Capacity)
         /\ OnlyPid(table, call[c].pid, Record(table, call[c]))
  <1>1. PICK r : /\ Sound(r, Pids, Entry, Capacity)
                 /\ OnlyPid(table, call[c].pid, r)
                 /\ Record(table, call[c]) = Walk(r, call[c].ppid, maxAncestorDepth)
    BY RecordIsWalk
  <1>2. /\ Sound(Record(table, call[c]), Pids, Entry, Capacity)
        /\ Record(table, call[c]).items = r.items
    BY <1>1, WalkKeeps, TableAssumption
  <1> QED BY <1>1, <1>2 DEF OnlyPid

LEMMA CoherentInit == Init => TableCoherent
  <1> SUFFICES ASSUME Init PROVE TableCoherent
    OBVIOUS
  <1>1. Entries
    BY EmptyStoreSound, CapacityPositive DEF Init, Entries
  <1>2. call \in [Calls -> Call]
    BY DEF Init, Call
  <1> QED BY <1>1, <1>2, CoherentIs

(* What a step does to the entries: it leaves them alone, or ends one call *)
(* and changes the entry of its pid at most, and that of a held pid only   *)
(* when the call is an exec.                                               *)
Replaced ==
  \/ table'.items = table.items
  \/ \E c \in Calls :
       /\ OnlyPid(table, call[c].pid, table')
       /\ Inserting(c, "exec") \/ ~ Holds(table, call[c].pid)

LEMMA TableStep ==
  ASSUME TableCoherent, [Next]_vars
  PROVE  TableCoherent' /\ Replaced
  <1>0. /\ Entries /\ call \in [Calls -> Call]
        /\ \A c \in Calls : call[c] \in Call
    BY CoherentIs
  <1>1. ASSUME call' \in [Calls -> Call], Sound(table', Pids, Entry, Capacity)
        PROVE  TableCoherent'
    BY <1>1 DEF TableCoherent, TypeOK, Sound, Capacity
  <1>2. ASSUME NEW p \in Pids, Lookup(p) PROVE TableCoherent' /\ Replaced
    BY <1>0, <1>1, <1>2, TouchKeeps DEF Lookup, Entries, Replaced
  <1>3. ASSUME NEW p \in Pids, LookupAncestors(p) PROVE TableCoherent' /\ Replaced
    <2>1. maxAncestorDepth + 1 \in Nat
      BY TableAssumption
    <2> QED BY <1>0, <1>1, <1>3, <2>1, WalkKeeps DEF LookupAncestors, Entries, Replaced
  <1>4. ASSUME NEW c \in Calls, NEW p \in Pids, NEW path \in Paths, RecordExec(c, p, path)
        PROVE  TableCoherent' /\ Replaced
    <2>1. EvalSymlinks[path] \in Paths
      BY TableAssumption
    <2>2. call' \in [Calls -> Call]
      BY <1>0, <1>4, <2>1 DEF RecordExec, Call
    <2> QED BY <1>0, <1>1, <1>4, <2>2 DEF RecordExec, Entries, Replaced
  <1>5. ASSUME NEW c \in Calls, NEW p \in Pids, NEW path \in Paths,
               RecordObserved(c, p, path)
        PROVE  TableCoherent' /\ Replaced
    <2>1. call' \in [Calls -> Call]
      BY <1>0, <1>5 DEF RecordObserved, Call
    <2> QED BY <1>0, <1>1, <1>5, <2>1, TouchKeeps DEF RecordObserved, Entries, Replaced
  <1>6. ASSUME NEW c \in Calls, NEW ppid \in Pids \cup {Outside}, readPPid(c, ppid)
        PROVE  TableCoherent' /\ Replaced
    <2>1. /\ call[c].op \in {"exec", "observe"} /\ call[c].pid \in Pids
          /\ call[c].exe \in Paths
      BY <1>0, <1>6 DEF readPPid, Call, Idle
    <2>2. call' \in [Calls -> Call]
      BY <1>0, <1>6, <2>1 DEF readPPid, Call
    <2> QED BY <1>0, <1>1, <1>6, <2>2 DEF readPPid, Entries, Replaced
  <1>7. ASSUME NEW c \in Calls, FinishExec(c) PROVE TableCoherent' /\ Replaced
    <2>1. call' \in [Calls -> Call]
      BY <1>0, <1>7 DEF FinishExec, Call
    <2>2. call[c] # Idle /\ call[c].at = "insert"
      BY <1>7 DEF FinishExec, Inserting
    <2>3. /\ Sound(table', Pids, Entry, Capacity)
          /\ OnlyPid(table, call[c].pid, table')
      BY <1>0, <1>7, <2>2, RecordKeeps DEF FinishExec
    <2> QED BY <1>1, <1>7, <2>1, <2>3 DEF FinishExec, Replaced
  <1>8. ASSUME NEW c \in Calls, FinishObserve(c) PROVE TableCoherent' /\ Replaced
    <2>1. call' \in [Calls -> Call]
      BY <1>0, <1>8 DEF FinishObserve, Call
    <2>2. CASE Holds(table, call[c].pid)
      BY <1>0, <1>1, <1>8, <2>1, <2>2, TouchKeeps DEF FinishObserve, Entries, Replaced
    <2>3. CASE ~ Holds(table, call[c].pid)
      <3>1. call[c] # Idle /\ call[c].at = "insert"
        BY <1>8 DEF FinishObserve, Inserting
      <3>2. /\ Sound(table', Pids, Entry, Capacity)
            /\ OnlyPid(table, call[c].pid, table')
        BY <1>0, <1>8, <2>3, <3>1, RecordKeeps DEF FinishObserve
      <3> QED BY <1>1, <2>1, <2>3, <3>2 DEF Replaced
    <2> QED BY <2>2, <2>3
  <1>9. CASE UNCHANGED vars
    BY <1>0, <1>1, <1>9 DEF vars, Entries, Replaced
  <1> QED BY <1>2, <1>3, <1>4, <1>5, <1>6, <1>7, <1>8, <1>9 DEF Next

(* The map and the list of table.go hold the same pids, each once, and no  *)
(* more than the capacity, whatever RecordExec, RecordObserved, Lookup and *)
(* LookupAncestors interleave.                                             *)
THEOREM TableStaysCoherent == Spec => []TableCoherent
  <1>1. TableCoherent /\ [Next]_vars => TableCoherent'
    BY TableStep
  <1> QED BY <1>1, CoherentInit, PTL DEF Spec

(* While a pid stays in the table only a RecordExec for that pid changes   *)
(* its entry: no observation, eviction or walk does.                       *)
THEOREM ObserversNeverReplace == Spec => OnlyExecReplaces
  <1> DEFINE Allowed ==
               \A p \in DOMAIN table.items \cap DOMAIN table'.items :
                 table'.items[p] # table.items[p] =>
                   \E c \in Calls : Inserting(c, "exec") /\ call[c].pid = p
  <1>1. TableCoherent /\ [Next]_vars => [Allowed]_vars
    <2>1. Replaced => Allowed
      BY DEF Replaced, OnlyPid, Holds
    <2> QED BY <2>1, TableStep
  <1>2. [][Allowed]_vars => OnlyExecReplaces
    BY PTL DEF OnlyExecReplaces
  <1> QED BY <1>1, <1>2, TableStaysCoherent, PTL DEF Spec

(* Only the insert ends a call and changes the entries.                    *)
LEMMA EndsWithRecord ==
  ASSUME TableCoherent, [Next]_vars, NEW c \in Calls, call[c] # Idle, call'[c] = Idle,
         table'.items # table.items
  PROVE  call[c].at = "insert" /\ table' = Record(table, call[c])
  <1>0. /\ Entries /\ call \in [Calls -> Call]
        /\ \A d \in Calls : call[d] \in Call
    BY CoherentIs
  <1>1. ASSUME NEW p \in Pids, Lookup(p) \/ LookupAncestors(p) PROVE FALSE
    BY <1>1 DEF Lookup, LookupAncestors
  <1>2. ASSUME NEW d \in Calls, NEW p \in Pids, NEW path \in Paths,
               RecordExec(d, p, path) \/ RecordObserved(d, p, path)
        PROVE  FALSE
    <2>1. RecordExec(d, p, path) => table'.items = table.items
      BY DEF RecordExec
    <2>2. RecordObserved(d, p, path) => table'.items = table.items
      BY <1>0, TouchKeeps DEF RecordObserved, Entries
    <2> QED BY <1>2, <2>1, <2>2
  <1>3. ASSUME NEW d \in Calls, NEW ppid \in Pids \cup {Outside}, readPPid(d, ppid)
        PROVE  FALSE
    BY <1>3 DEF readPPid
  <1>4. ASSUME NEW d \in Calls, FinishExec(d)
        PROVE  call[c].at = "insert" /\ table' = Record(table, call[c])
    <2>1. d = c
      BY <1>0, <1>4 DEF FinishExec
    <2> QED BY <1>4, <2>1 DEF FinishExec, Inserting
  <1>5. ASSUME NEW d \in Calls, FinishObserve(d)
        PROVE  call[c].at = "insert" /\ table' = Record(table, call[c])
    <2>1. d = c
      BY <1>0, <1>5 DEF FinishObserve
    <2>2. ~ Holds(table, call[d].pid)
      BY <1>0, <1>5, TouchKeeps DEF FinishObserve, Entries
    <2> QED BY <1>5, <2>1, <2>2 DEF FinishObserve, Inserting
  <1>6. CASE UNCHANGED vars
    BY <1>6 DEF vars
  <1> QED BY <1>1, <1>2, <1>3, <1>4, <1>5, <1>6 DEF Next

(* When RecordExec or RecordObserved inserts an entry, touchAncestors      *)
(* (table.go:161-171) leaves every recorded ancestor within the depth      *)
(* limit ahead of all other entries, also when the parents form a cycle.   *)
THEOREM AncestorsAreWarm == Spec => AncestorsStayWarm
  <1> DEFINE Warm ==
               \A c \in Calls :
                 call[c] # Idle /\ call'[c] = Idle /\ table'.items # table.items =>
                   LET chain == Chain(table', call[c].ppid, maxAncestorDepth)
                   IN  AheadOf(table', chain, DOMAIN table'.items \ chain)
  <1>1. TableCoherent /\ [Next]_vars => [Warm]_vars
    <2> SUFFICES ASSUME TableCoherent, [Next]_vars, NEW c \in Calls,
                        call[c] # Idle, call'[c] = Idle, table'.items # table.items
                 PROVE  AheadOf(table', Chain(table', call[c].ppid, maxAncestorDepth),
                          DOMAIN table'.items \ Chain(table', call[c].ppid, maxAncestorDepth))
      OBVIOUS
    <2>1. call[c].at = "insert" /\ table' = Record(table, call[c])
      BY EndsWithRecord
    <2>2. Entries /\ call[c] \in Call
      BY CoherentIs
    <2>3. PICK r : /\ Sound(r, Pids, Entry, Capacity)
                   /\ table' = Walk(r, call[c].ppid, maxAncestorDepth)
      BY <2>1, <2>2, RecordIsWalk
    <2>4. table'.items = r.items
      BY <2>3, WalkKeeps, TableAssumption
    <2>5. Chain(table', call[c].ppid, maxAncestorDepth)
            = Chain(r, call[c].ppid, maxAncestorDepth)
      BY <2>4 DEF Chain
    <2> QED BY <2>3, <2>4, <2>5, WalkWarms, TableAssumption
  <1>2. [][Warm]_vars => AncestorsStayWarm
    BY PTL DEF AncestorsStayWarm
  <1> QED BY <1>1, <1>2, TableStaysCoherent, PTL DEF Spec
=============================================================================
