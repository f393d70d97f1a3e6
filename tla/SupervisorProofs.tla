-------------------------- MODULE SupervisorProofs --------------------------
(***************************************************************************)
(* What HandleSyscall promises, for every number of notifications and of   *)
(* concurrent reloads, every cache size and every policy: types, a reload  *)
(* that no handler overlaps takes full effect, verdicts are a function of  *)
(* the event and the policy, and a syscall is reported before its target   *)
(* is let go.                                                              *)
(***************************************************************************)
EXTENDS Supervisor, LRUProofs

-----------------------------------------------------------------------------
(* Types. The keys and decisions in the cache are well typed only because  *)
(* its list and map agree and because a handler that is under way has a    *)
(* request: both are part of the induction.                                *)

Keys == Actions \X Targets

UnderWay(n) == pc[n] \notin {"idle", "done"}

TypeInv ==
  /\ TypeOK
  /\ Sound(cache, Keys, Decision, Capacity)
  /\ \A n \in Notifs :
       /\ UnderWay(n) => req[n] \in Requests
       /\ pc[n] \in {"getsecond", "evaluatesecond"} => req[n].second # None

LEMMA CapacityPositive == Capacity \in Nat /\ Capacity >= 1
  BY SupervisorAssumption DEF Capacity, EffectiveCapacity

LEMMA TypeInit == Init => TypeInv
  <1> SUFFICES ASSUME Init PROVE TypeInv
    OBVIOUS
  <1>1. Sound(cache, Keys, Decision, Capacity)
    BY EmptyStoreSound, CapacityPositive DEF Init
  <1>2. Undecided \in Decision
    BY SupervisorAssumption DEF Undecided, Decision, Verdict, Versions
  <1>3. 0 \in Versions
    BY SupervisorAssumption DEF Versions
  <1>4. IsStore(cache, Actions \X Targets, Decision) /\ overlap \in BOOLEAN
    BY <1>1 DEF Sound, Keys, Init
  <1>5. TypeOK
    BY <1>2, <1>3, <1>4 DEF Init, TypeOK, Labels, Answers
  <1> QED BY <1>1, <1>5 DEF TypeInv, UnderWay, Init

(* A step of handler n to the given label: it leaves policy and reloads    *)
(* alone.                                                                  *)
StepOf(n, label) ==
  /\ pc' = [pc EXCEPT ![n] = label]
  /\ UNCHANGED <<reloadVars, overlap>>

ReportsTyped ==
  /\ execd \subseteq Notifs /\ counted \subseteq Notifs /\ audited \subseteq Notifs
  /\ gone \subseteq Notifs
  /\ answer \in [Notifs -> Answers]

LEMMA TypeStep ==
  ASSUME TypeInv, NEW n \in Notifs, NEW label \in Labels,
         StepOf(n, label), ReportsTyped',
         Sound(cache', Keys, Decision, Capacity),
         req' = req \/ (label = "done" /\ req' = [req EXCEPT ![n] = NoRequest]),
         snap' \in [Notifs -> Versions], dec' \in [Notifs -> Decision],
         UnderWay(n),
         label \in {"getsecond", "evaluatesecond"} => req[n].second # None
  PROVE  TypeInv'
  <1>1. TypeOK'
    BY DEF TypeInv, TypeOK, StepOf, ReportsTyped, Sound, Keys, reloadVars
  <1>2. ASSUME NEW m \in Notifs
        PROVE  /\ UnderWay(m)' => req'[m] \in Requests
               /\ pc'[m] \in {"getsecond", "evaluatesecond"} => req'[m].second # None
    BY DEF TypeInv, TypeOK, StepOf, UnderWay
  <1> QED BY <1>1, <1>2 DEF TypeInv, Keys, Capacity

(* The cached decision for a key is a decision, and so is the one that     *)
(* Evaluate makes.                                                         *)
LEMMA DecisionsTyped ==
  ASSUME TypeInv, NEW n \in Notifs, UnderWay(n), NEW t \in Targets
  PROVE  /\ Key(req[n].action, t) \in Keys
         /\ req[n].action \in Actions /\ req[n].who \in Contexts
         /\ contextUsed(n) \in Contexts \cup {Blank}
         /\ Evaluate(n, t) \in Decision
         /\ Holds(cache, Key(req[n].action, t)) =>
              cache.items[Key(req[n].action, t)] \in Decision
  <1>1. req[n] \in Request /\ snap[n] \in Versions
    BY SupervisorAssumption DEF TypeInv, TypeOK
  <1>2. req[n].action \in Actions /\ req[n].who \in Contexts
    BY <1>1 DEF Request
  <1>3. contextUsed(n) \in Contexts \cup {Blank}
    BY <1>2 DEF contextUsed
  <1>4. Decide(snap[n], req[n].action, t, contextUsed(n)) \in Verdict
    BY <1>1, <1>2, <1>3, DecideAssumption
  <1>5. Evaluate(n, t) \in Decision
    BY <1>1, <1>4 DEF Evaluate, Decision
  <1>6. \A k : Holds(cache, k) => cache.items[k] \in Decision
    BY DEF TypeInv, TypeOK, IsStore, Holds
  <1> QED BY <1>2, <1>3, <1>5, <1>6 DEF Key, Keys

LEMMA RequestTyped ==
  ASSUME TypeInv, NEW n \in Notifs, UnderWay(n)
  PROVE  /\ req[n] \in Request /\ req[n].target \in Targets
         /\ req[n].second # None => req[n].second \in Targets
  <1>1. req[n] \in Request
    BY SupervisorAssumption DEF TypeInv
  <1> QED BY <1>1 DEF Request

LEMMA TypeNext == TypeInv /\ [Next]_vars => TypeInv'
  <1> SUFFICES ASSUME TypeInv, [Next]_vars PROVE TypeInv'
    OBVIOUS
  <1>0. /\ ReportsTyped /\ Sound(cache, Keys, Decision, Capacity)
        /\ snap \in [Notifs -> Versions] /\ dec \in [Notifs -> Decision]
        /\ engine \in Versions /\ 0 \in Versions
        /\ Undecided \in Decision
    <2>1. 0 \in Versions
      BY SupervisorAssumption DEF Versions
    <2>2. Undecided \in Decision
      BY <2>1 DEF Undecided, Decision, Verdict
    <2> QED BY <2>1, <2>2 DEF TypeInv, TypeOK, ReportsTyped
  <1>1. ASSUME NEW n \in Notifs, NEW r \in Requests, Receive(n, r) PROVE TypeInv'
    <2>1. TypeOK'
      BY <1>1 DEF Receive, Goto, TypeInv, TypeOK, Labels, reloadVars, reportVars
    <2>2. ASSUME NEW m \in Notifs
          PROVE  /\ UnderWay(m)' => req'[m] \in Requests
                 /\ pc'[m] \in {"getsecond", "evaluatesecond"} => req'[m].second # None
      BY <1>1 DEF Receive, Goto, TypeInv, TypeOK, UnderWay
    <2>3. Sound(cache', Keys, Decision, Capacity)
      BY <1>0, <1>1 DEF Receive
    <2> QED BY <2>1, <2>2, <2>3 DEF TypeInv, Keys, Capacity
  <1>2. ASSUME NEW n \in Notifs, Snapshot(n) PROVE TypeInv'
    <2>1. PICK label \in {"fastpath", "enoent", "unresolved", "get"} :
            pc' = [pc EXCEPT ![n] = label]
      BY <1>2 DEF Snapshot, Goto
    <2>2. /\ StepOf(n, label) /\ UnderWay(n) /\ label \in Labels
          /\ snap' \in [Notifs -> Versions] /\ ReportsTyped'
          /\ UNCHANGED <<req, dec, cache>>
      BY <1>0, <1>2, <2>1
         DEF Snapshot, StepOf, UnderWay, Labels, ReportsTyped, reloadVars, reportVars
    <2> QED BY <1>0, <2>1, <2>2, TypeStep
  <1>3. ASSUME NEW n \in Notifs, FastPath(n) \/ FastSend(n) \/ denyUnresolved(n)
                                   \/ RecordAllowedExec(n) \/ Report(n) \/ Audit(n)
        PROVE  TypeInv'
    <2>1. PICK label \in {"fastsend", "fastcount", "respond", "shortcut", "audit"} :
            pc' = [pc EXCEPT ![n] = label]
      BY <1>3 DEF FastPath, FastSend, denyUnresolved, RecordAllowedExec, Report,
                  Audit, Goto
    <2>2. StepOf(n, label) /\ UnderWay(n) /\ UNCHANGED <<req, snap, dec, cache>>
      BY <1>3, <2>1
         DEF FastPath, FastSend, denyUnresolved, RecordAllowedExec, Report, Audit,
             StepOf, UnderWay
    <2>3. ReportsTyped'
      BY <1>0, <1>3
         DEF FastPath, FastSend, denyUnresolved, RecordAllowedExec, Report, Audit,
             RecordExec, Send, Answers, ReportsTyped, reportVars
    <2> QED BY <1>0, <2>1, <2>2, <2>3, TypeStep DEF Labels
  <1>4. ASSUME NEW n \in Notifs, FastCount(n) \/ SendEnoent(n) \/ SendExisting(n)
                                   \/ Respond(n)
        PROVE  TypeInv'
    <2>1. StepOf(n, "done") /\ UnderWay(n) /\ UNCHANGED cache
      BY <1>4 DEF FastCount, SendEnoent, SendExisting, Respond, Finish, Goto,
                  StepOf, UnderWay
    <2>2. /\ req' = [req EXCEPT ![n] = NoRequest]
          /\ snap' = [snap EXCEPT ![n] = 0] /\ dec' = [dec EXCEPT ![n] = Undecided]
      BY <1>4 DEF FastCount, SendEnoent, SendExisting, Respond, Finish
    <2>3. snap' \in [Notifs -> Versions] /\ dec' \in [Notifs -> Decision]
      BY <1>0, <2>2
    <2>4. ReportsTyped'
      BY <1>0, <1>4 DEF FastCount, SendEnoent, SendExisting, Respond, Send, Answers,
                        ReportsTyped, reportVars
    <2>5. "done" \in Labels
      BY DEF Labels
    <2> QED BY <1>0, <2>1, <2>2, <2>3, <2>4, <2>5, TypeStep
  <1>5. ASSUME NEW n \in Notifs, NEW exists \in BOOLEAN, Shortcut(n, exists)
        PROVE  TypeInv'
    <2>1. PICK label \in {"enoent", "eexist", "report"} : pc' = [pc EXCEPT ![n] = label]
      BY <1>5 DEF Shortcut, Goto
    <2>2. /\ StepOf(n, label) /\ UnderWay(n) /\ UNCHANGED <<req, snap, dec, cache>>
          /\ ReportsTyped'
      BY <1>0, <1>5, <2>1
         DEF Shortcut, StepOf, UnderWay, ReportsTyped, reportVars
    <2> QED BY <1>0, <2>1, <2>2, TypeStep DEF Labels
  <1>6. ASSUME NEW n \in Notifs, Get(n) \/ GetSecond(n) PROVE TypeInv'
    <2>1. UnderWay(n) /\ UNCHANGED <<reloadVars, overlap, req, snap>> /\ ReportsTyped'
      BY <1>0, <1>6 DEF Get, GetSecond, UnderWay, ReportsTyped, reportVars
    <2>2. PICK label \in {"evaluate", "getsecond", "decided"} :
            /\ pc' = [pc EXCEPT ![n] = label]
            /\ label = "getsecond" => req[n].second # None
      BY <1>6 DEF Get, GetSecond, Goto
    <2>3. cache' = cache \/ \E k : cache' = Touch(cache, k)
      BY <1>6 DEF Get, GetSecond
    <2>4. Sound(cache', Keys, Decision, Capacity)
      BY <1>0, <2>3, TouchKeeps
    <2>5. dec' \in [Notifs -> Decision]
      <3>1. CASE Get(n)
        BY <1>0, <2>1, <3>1, RequestTyped, DecisionsTyped DEF Get
      <3>2. CASE GetSecond(n)
        <4>1. req[n].second \in Targets
          BY <2>1, <3>2, RequestTyped DEF GetSecond, TypeInv
        <4>2. \A d, e \in Decision : combine(d, e) \in Decision
          BY DEF combine
        <4> QED BY <1>0, <2>1, <3>2, <4>1, <4>2, DecisionsTyped DEF GetSecond
      <3> QED BY <1>6, <3>1, <3>2
    <2>6. StepOf(n, label) /\ label \in Labels
      BY <2>1, <2>2 DEF StepOf, Labels
    <2> QED BY <1>0, <2>1, <2>2, <2>4, <2>5, <2>6, TypeStep
  <1>7. ASSUME NEW n \in Notifs, EvaluateFirst(n) \/ EvaluateSecond(n)
        PROVE  TypeInv'
    <2>1. UnderWay(n) /\ UNCHANGED <<reloadVars, overlap, req, snap>> /\ ReportsTyped'
      BY <1>0, <1>7 DEF EvaluateFirst, EvaluateSecond, UnderWay, ReportsTyped, reportVars
    <2>2. PICK label \in {"evaluatesecond", "decided"} :
            /\ pc' = [pc EXCEPT ![n] = label]
            /\ label = "evaluatesecond" => req[n].second # None
      BY <1>7 DEF EvaluateFirst, EvaluateSecond, Goto
    <2>3. PICK t \in Targets :
            /\ \/ cache' = cache
               \/ cache' = Store(cache, Key(req[n].action, t), Evaluate(n, t), Capacity)
            /\ \/ dec' = [dec EXCEPT ![n] = Evaluate(n, t)]
               \/ dec' = [dec EXCEPT ![n] = combine(dec[n], Evaluate(n, t))]
      <3>1. CASE EvaluateFirst(n)
        BY <2>1, <3>1, RequestTyped DEF EvaluateFirst
      <3>2. CASE EvaluateSecond(n)
        BY <2>1, <3>2, RequestTyped DEF EvaluateSecond, TypeInv
      <3> QED BY <1>7, <3>1, <3>2
    <2>4. Key(req[n].action, t) \in Keys /\ Evaluate(n, t) \in Decision
      BY <2>1, DecisionsTyped
    <2>5. Sound(cache', Keys, Decision, Capacity)
      BY <1>0, <2>3, <2>4, CapacityPositive, StoreKeeps
    <2>6. dec' \in [Notifs -> Decision]
      BY <1>0, <2>3, <2>4 DEF combine
    <2>7. StepOf(n, label) /\ label \in Labels
      BY <2>1, <2>2 DEF StepOf, Labels
    <2> QED BY <1>0, <2>1, <2>2, <2>5, <2>6, <2>7, TypeStep
  <1>8. ASSUME NEW n \in Notifs, Interrupt(n) PROVE TypeInv'
    BY <1>8 DEF Interrupt, TypeInv, TypeOK, UnderWay, Keys, Capacity, reloadVars,
                handlerVars, reportVars
  <1>9. CASE Edit
    <2>1. disk' \in Versions
      BY <1>9, SupervisorAssumption DEF Edit, TypeInv, TypeOK, Versions
    <2> QED BY <1>9, <2>1 DEF Edit, TypeInv, TypeOK, UnderWay, Keys, Capacity,
                              handlerVars, reportVars
  <1>10. ASSUME NEW r \in Reloads, Load(r) PROVE TypeInv'
    BY <1>10 DEF Load, TypeInv, TypeOK, UnderWay, Keys, Capacity, handlerVars, reportVars
  <1>11. ASSUME NEW r \in Reloads, Swap(r) PROVE TypeInv'
    <2>1. engine' \in Versions
      BY <1>11 DEF Swap, TypeInv, TypeOK, NoReload
    <2> QED BY <1>11, <2>1
            DEF Swap, TypeInv, TypeOK, UnderWay, Keys, Capacity, handlerVars, reportVars
  <1>12. ASSUME NEW r \in Reloads, Clear(r) PROVE TypeInv'
    <2>1. Sound(cache', Keys, Decision, Capacity)
      BY <1>12, EmptyStoreSound, CapacityPositive DEF Clear
    <2>2. overlap' \in BOOLEAN
      BY <1>12, Zenon DEF Clear, Overlapped
    <2>3. TypeOK'
      BY <1>12, <2>1, <2>2
         DEF Clear, TypeInv, TypeOK, Sound, Keys, handlerVars, reportVars
    <2> QED BY <1>12, <2>1, <2>3
            DEF Clear, TypeInv, UnderWay, Keys, Capacity, handlerVars
  <1>13. CASE UNCHANGED vars
    BY <1>13 DEF vars, TypeInv, TypeOK, UnderWay, Keys, Capacity
  <1> QED
    BY <1>1, <1>2, <1>3, <1>4, <1>5, <1>6, <1>7, <1>8, <1>9, <1>10, <1>11, <1>12,
       <1>13 DEF Next, Handle

(* Every variable of the supervisor has its type, for every instance.      *)
THEOREM SupervisorTypeCorrect == Spec => []TypeOK
  <1>1. TypeInv => TypeOK
    BY DEF TypeInv
  <1> QED BY <1>1, TypeInit, TypeNext, PTL DEF Spec

-----------------------------------------------------------------------------
(* Reloads.                                                                *)

(* No reload is between its swap and its clear, and none that returned was *)
(* overlapped by a handler that stores decisions of an earlier engine.     *)
Quiet == ~ overlap /\ \A r \in Reloads : reload[r].at # "swapped"

IsFunction(f) == f = [x \in DOMAIN f |-> f[x]]

AllBy(store, e) == \A k \in DOMAIN store.items : store.items[k].by = e

(* Freshness alone is not inductive: a handler that still holds an earlier *)
(* engine would store one of its decisions later. In a quiet state there   *)
(* is no such handler.                                                     *)
FreshInv ==
  /\ reload = [r \in Reloads |-> reload[r]]
  /\ pc = [n \in Notifs |-> pc[n]]
  /\ snap = [n \in Notifs |-> snap[n]]
  /\ IsFunction(cache.items)
  /\ Quiet => AllBy(cache, engine)
  /\ Quiet => \A n \in Notifs : Storing(n) => snap[n] = engine

-----------------------------------------------------------------------------

(* A lookup leaves the map as it is.                                       *)
LEMMA TouchKeepsItems ==
  ASSUME NEW store, NEW k
  PROVE  Touch(store, k).items = store.items
  BY DEF Touch

(* Storing a decision of engine e among decisions of e leaves only         *)
(* decisions of e, whatever was overwritten or evicted.                    *)
LEMMA StoreKeepsBy ==
  ASSUME NEW store, NEW k, NEW d, NEW c, IsFunction(store.items)
  PROVE  /\ IsFunction(Store(store, k, d, c).items)
         /\ \A e : AllBy(store, e) /\ d.by = e => AllBy(Store(store, k, d, c), e)
  <1> DEFINE kept == IF Len(store.order) >= c THEN EvictBack(store) ELSE store
  <1>1. CASE Holds(store, k)
    <2>1. Store(store, k, d, c).items = [store.items EXCEPT ![k] = d]
      BY <1>1 DEF Store
    <2> QED BY <1>1, <2>1 DEF IsFunction, AllBy, Holds
  <1>2. CASE ~ Holds(store, k)
    <2>1. Store(store, k, d, c) = Insert(kept, k, d)
      BY <1>2 DEF Store
    <2>2. Store(store, k, d, c).items =
            [x \in DOMAIN kept.items \cup {k} |->
               IF x = k THEN d ELSE kept.items[x]]
      BY <2>1 DEF Insert
    <2>3. /\ DOMAIN kept.items \subseteq DOMAIN store.items
          /\ \A x \in DOMAIN kept.items : kept.items[x] = store.items[x]
      BY DEF EvictBack
    <2> HIDE DEF kept
    <2> QED BY <2>2, <2>3 DEF IsFunction, AllBy
  <1> QED BY <1>1, <1>2

-----------------------------------------------------------------------------

LEMMA FreshInit == Init => FreshInv
  BY DEF Init, FreshInv, Quiet, AllBy, IsFunction, EmptyStore, Storing, NoReload

(* A step of a handler that leaves the engine, the reloads and the cached  *)
(* decisions alone, and after which it holds the engine it held.           *)
LEMMA HandlerAside ==
  ASSUME FreshInv, NEW n \in Notifs, NEW label,
         UNCHANGED <<reloadVars, overlap>>,
         cache'.items = cache.items,
         pc' = [pc EXCEPT ![n] = label],
         snap' = snap \/ (label = "done" /\ snap' = [snap EXCEPT ![n] = 0]),
         label \in {"get", "getsecond", "evaluate", "evaluatesecond"} => Storing(n)
  PROVE  FreshInv'
  <1>1. ASSUME NEW m \in Notifs, Storing(m)' PROVE Storing(m) /\ snap'[m] = snap[m]
    BY <1>1 DEF FreshInv, Storing
  <1> QED BY <1>1 DEF FreshInv, Quiet, AllBy, IsFunction, reloadVars

(* A handler that stores the decision of the engine it holds.              *)
LEMMA HandlerStores ==
  ASSUME FreshInv, NEW n \in Notifs, NEW label, NEW k, NEW d,
         Storing(n), d.by = snap[n],
         UNCHANGED <<reloadVars, overlap, snap>>,
         pc' = [pc EXCEPT ![n] = label],
         cache' = Store(cache, k, d, Capacity)
  PROVE  FreshInv'
  <1>1. ASSUME NEW m \in Notifs, Storing(m)' PROVE Storing(m) /\ snap'[m] = snap[m]
    BY <1>1 DEF FreshInv, Storing
  <1>2. IsFunction(cache'.items)
    BY StoreKeepsBy DEF FreshInv
  <1>3. Quiet' => Quiet /\ engine' = engine
    BY DEF Quiet, reloadVars
  <1>4. ASSUME Quiet PROVE AllBy(cache, engine) /\ snap[n] = engine
    BY <1>4 DEF FreshInv
  <1>5. Quiet => AllBy(cache', engine)
    BY <1>4, StoreKeepsBy DEF FreshInv
  <1>6. Quiet' => AllBy(cache, engine)'
    BY <1>3, <1>5 DEF AllBy
  <1>7. Quiet' => \A m \in Notifs : Storing(m)' => snap'[m] = engine'
    BY <1>1, <1>3 DEF FreshInv
  <1> QED BY <1>2, <1>6, <1>7 DEF FreshInv, reloadVars

LEMMA FreshNext == FreshInv /\ [Next]_vars => FreshInv'
  <1> SUFFICES ASSUME FreshInv, [Next]_vars PROVE FreshInv'
    OBVIOUS
  <1>1. ASSUME NEW n \in Notifs, NEW r \in Requests, Receive(n, r) PROVE FreshInv'
    BY <1>1, HandlerAside DEF Receive, Goto, reloadVars
  <1>2. ASSUME NEW n \in Notifs, Snapshot(n) PROVE FreshInv'
    BY <1>2 DEF Snapshot, Goto, FreshInv, Quiet, Storing, AllBy, reloadVars
  <1>3. ASSUME NEW n \in Notifs, FastPath(n) \/ FastSend(n) \/ denyUnresolved(n)
                                   \/ RecordAllowedExec(n) \/ Report(n) \/ Audit(n)
        PROVE  FreshInv'
    BY <1>3, HandlerAside
       DEF FastPath, FastSend, denyUnresolved, RecordAllowedExec, Report, Audit,
           Goto, reloadVars
  <1>4. ASSUME NEW n \in Notifs, FastCount(n) \/ SendEnoent(n) \/ SendExisting(n)
                                   \/ Respond(n)
        PROVE  FreshInv'
    BY <1>4, HandlerAside
       DEF FastCount, SendEnoent, SendExisting, Respond, Finish, Goto, reloadVars
  <1>5. ASSUME NEW n \in Notifs, NEW exists \in BOOLEAN, Shortcut(n, exists)
        PROVE  FreshInv'
    <2>1. \E label \in {"enoent", "eexist", "report"} : pc' = [pc EXCEPT ![n] = label]
      BY <1>5 DEF Shortcut, Goto
    <2>2. UNCHANGED <<reloadVars, overlap, cache, snap>>
      BY <1>5 DEF Shortcut
    <2> QED BY <2>1, <2>2, HandlerAside
  <1>6. ASSUME NEW n \in Notifs, Get(n) \/ GetSecond(n) PROVE FreshInv'
    <2>1. cache'.items = cache.items
      BY <1>6, TouchKeepsItems DEF Get, GetSecond
    <2>2. Storing(n) /\ UNCHANGED <<reloadVars, overlap, snap>>
      BY <1>6 DEF Get, GetSecond, Storing
    <2>3. \E label \in {"evaluate", "getsecond", "decided"} :
            pc' = [pc EXCEPT ![n] = label]
      BY <1>6 DEF Get, GetSecond, Goto
    <2> QED BY <2>1, <2>2, <2>3, HandlerAside DEF FreshInv
  <1>7. ASSUME NEW n \in Notifs, EvaluateFirst(n) \/ EvaluateSecond(n)
        PROVE  FreshInv'
    <2>1. Storing(n) /\ UNCHANGED <<reloadVars, overlap, snap>>
      BY <1>7 DEF EvaluateFirst, EvaluateSecond, Storing
    <2>2. \E label \in {"evaluatesecond", "decided"} : pc' = [pc EXCEPT ![n] = label]
      BY <1>7 DEF EvaluateFirst, EvaluateSecond, Goto
    <2>3. \/ cache' = cache
          \/ \E k, d : d.by = snap[n] /\ cache' = Store(cache, k, d, Capacity)
      <3>1. \A t : Evaluate(n, t).by = snap[n]
        BY DEF Evaluate
      <3>2. CASE EvaluateFirst(n)
        BY <3>1, <3>2 DEF EvaluateFirst
      <3>3. CASE EvaluateSecond(n)
        BY <3>1, <3>3 DEF EvaluateSecond
      <3> QED BY <1>7, <3>2, <3>3
    <2>4. CASE cache' = cache
      BY <2>1, <2>2, <2>4, HandlerAside DEF FreshInv
    <2>5. CASE \E k, d : d.by = snap[n] /\ cache' = Store(cache, k, d, Capacity)
      BY <2>1, <2>2, <2>5, HandlerStores
    <2> QED BY <2>3, <2>4, <2>5
  <1>8. ASSUME NEW n \in Notifs, Interrupt(n) PROVE FreshInv'
    BY <1>8 DEF Interrupt, FreshInv, Quiet, Storing, AllBy, reloadVars, handlerVars
  <1>9. CASE Edit
    BY <1>9 DEF Edit, FreshInv, Quiet, Storing, AllBy, handlerVars
  <1>10. ASSUME NEW r \in Reloads, Load(r) PROVE FreshInv'
    BY <1>10 DEF Load, FreshInv, Quiet, Storing, AllBy, handlerVars, NoReload
  <1>11. ASSUME NEW r \in Reloads, Swap(r) PROVE FreshInv'
    <2>1. ~ Quiet'
      BY <1>11 DEF Swap, Quiet, FreshInv
    <2> QED BY <1>11, <2>1 DEF Swap, FreshInv, handlerVars
  <1>12. ASSUME NEW r \in Reloads, Clear(r) PROVE FreshInv'
    <2>1. AllBy(cache, engine)' /\ IsFunction(cache'.items)
      BY <1>12 DEF Clear, EmptyStore, AllBy, IsFunction
    <2>2. ASSUME Quiet', NEW n \in Notifs, Storing(n)' PROVE snap'[n] = engine'
      BY <1>12, <2>2 DEF Clear, Quiet, Overlapped, Storing, handlerVars
    <2> QED BY <1>12, <2>1, <2>2 DEF Clear, FreshInv, handlerVars
  <1>13. CASE UNCHANGED vars
    BY <1>13 DEF vars, FreshInv, Quiet, Storing, AllBy
  <1> QED
    BY <1>1, <1>2, <1>3, <1>4, <1>5, <1>6, <1>7, <1>8, <1>9, <1>10, <1>11, <1>12,
       <1>13 DEF Next, Handle

(* Once every reload has returned and none was overlapped by a handler     *)
(* holding the engine it replaced, every decision left in the cache is one *)
(* of the engine in force: HandleSyscall cannot answer from a policy that  *)
(* was replaced.                                                           *)
THEOREM QuietReloadIsFresh == Spec => []FreshAfterQuietReload
  <1>1. FreshInv => FreshAfterQuietReload
    BY DEF FreshInv, FreshAfterQuietReload, Quiet, AllBy
  <1> QED BY <1>1, FreshInit, FreshNext, PTL DEF Spec

-----------------------------------------------------------------------------
(* Verdicts.                                                               *)

(* d is what its engine decides for action a on target t, whoever asks.    *)
RightFor(d, a, t) == \A c \in Contexts : d.v = Decide(d.by, a, t, c)

(* Every decision in a store is by an engine of a version up to d.         *)
UpTo(store, d) == \A k \in DOMAIN store.items : store.items[k].by \in 0..d

(* No engine and no decision is of a version that is not yet on disk.      *)
AllLoaded ==
  /\ disk \in Nat
  /\ engine \in 0..disk
  /\ \A r \in Reloads : reload[r].at = "loaded" => reload[r].version \in 0..disk
  /\ UpTo(cache, disk)
  /\ \A n \in Notifs : snap[n] \in 0..disk /\ dec[n].by \in 0..disk

(* The verdict of d on request r is that of engines of versions up to b.   *)
IsVerdict(d, r, b) == \E e, f \in 0..b : d.v.allow = AllowedBy(e, f, r)

(* What a handler knows about the decision it holds: between the lookups   *)
(* of a rename the cached decision for the source is right for everyone,   *)
(* between its evaluations the fresh one is right for this process, and    *)
(* after them the decision is the verdict of the policy.                   *)
Judged(n) ==
  /\ pc[n] = "unresolved" => req[n].form = "unresolved"
  /\ pc[n] = "getsecond" => RightFor(dec[n], req[n].action, req[n].target)
  /\ pc[n] = "evaluatesecond" =>
       /\ dec[n].v = Decide(snap[n], req[n].action, req[n].target, req[n].who)
       /\ dec[n].by = snap[n]
  /\ Decided(n) /\ req[n].form = "plain" => IsVerdict(dec[n], req[n], disk)

PureInv ==
  /\ CacheIsRight
  /\ AllLoaded
  /\ \A n \in Notifs : Judged(n)

(* A decision made without the context is the one made with it, also when  *)
(* the context is gathered for the other path of a rename; and one that    *)
(* may be cached is right for every process.                               *)
LEMMA EvaluateIsRight ==
  ASSUME EngineIsSound, TypeInv, NEW n \in Notifs, UnderWay(n), NEW t \in Targets,
         t = req[n].target \/ t = req[n].second
  PROVE  /\ Evaluate(n, t).v = Decide(snap[n], req[n].action, t, req[n].who)
         /\ Evaluate(n, t).by = snap[n]
         /\ useCache(n, t) => RightFor(Evaluate(n, t), req[n].action, t)
  <1>1. /\ snap[n] \in Versions /\ req[n].action \in Actions
        /\ req[n].who \in Contexts
    BY DecisionsTyped DEF TypeInv, TypeOK
  <1>2. /\ Evaluate(n, t).v = Decide(snap[n], req[n].action, t, contextUsed(n))
        /\ Evaluate(n, t).by = snap[n]
    BY DEF Evaluate
  <1>3. Decide(snap[n], req[n].action, t, contextUsed(n)) =
          Decide(snap[n], req[n].action, t, req[n].who)
    <2>1. t # None
      BY SupervisorAssumption
    <2>2. CASE contextUsed(n) # req[n].who
      <3>1. contextUsed(n) = Blank /\ ~ NeedsContext(snap[n], req[n].action, t)
        BY <2>1, <2>2 DEF contextUsed
      <3> QED BY <1>1, <3>1 DEF EngineIsSound
    <2> QED BY <2>2
  <1>4. ASSUME useCache(n, t) PROVE RightFor(Evaluate(n, t), req[n].action, t)
    <2>1. \A c \in Contexts : Decide(snap[n], req[n].action, t, c) =
                              Decide(snap[n], req[n].action, t, req[n].who)
      BY <1>1, <1>4 DEF EngineIsSound, useCache
    <2> QED BY <1>2, <1>3, <2>1 DEF RightFor
  <1> QED BY <1>2, <1>3, <1>4

(* Of the two decisions for a rename, both must allow.                     *)
LEMMA CombineAllows ==
  ASSUME NEW d \in Decision, NEW e \in Decision
  PROVE  /\ combine(d, e).v.allow = (d.v.allow /\ e.v.allow)
         /\ combine(d, e).by \in {d.by, e.by}
  <1>1. d.v.allow \in BOOLEAN /\ e.v.allow \in BOOLEAN
    BY DEF Decision, Verdict
  <1> QED BY <1>1 DEF combine

(* What is found in the cache is right.                                    *)
LEMMA HitIsRight ==
  ASSUME PureInv, NEW a, NEW t, Holds(cache, Key(a, t))
  PROVE  /\ RightFor(cache.items[Key(a, t)], a, t)
         /\ cache.items[Key(a, t)].by \in 0..disk
  BY DEF PureInv, CacheIsRight, AllLoaded, UpTo, RightFor, Holds, Key

(* Storing a right decision keeps the cache right.                         *)
LEMMA StoreKeepsRight ==
  ASSUME TypeInv, CacheIsRight, NEW a \in Actions, NEW t \in Targets,
         NEW d \in Decision, RightFor(d, a, t),
         cache' = Store(cache, Key(a, t), d, Capacity)
  PROVE  CacheIsRight'
  <1>1. Key(a, t) \in Keys
    BY DEF Key, Keys
  <1>2. HoldsOnly(cache, Key(a, t), d, cache')
    BY <1>1, CapacityPositive, StoreKeeps DEF TypeInv
  <1> QED BY <1>2 DEF HoldsOnly, CacheIsRight, RightFor, Key

LEMMA PureStep ==
  ASSUME TypeInv, PureInv, NEW n \in Notifs, NEW label, StepOf(n, label),
         \A m \in Notifs \ {n} :
           req'[m] = req[m] /\ snap'[m] = snap[m] /\ dec'[m] = dec[m],
         CacheIsRight',
         UpTo(cache', disk) /\ snap'[n] \in 0..disk /\ dec'[n].by \in 0..disk,
         Judged(n)'
  PROVE  PureInv'
  <1>1. disk' = disk /\ engine' = engine /\ reload' = reload
    BY DEF StepOf, reloadVars
  <1>2. AllLoaded'
    BY <1>1 DEF PureInv, AllLoaded, UpTo
  <1>3. ASSUME NEW m \in Notifs \ {n} PROVE Judged(m)'
    <2>1. pc'[m] = pc[m]
      BY DEF StepOf, TypeInv, TypeOK
    <2> QED BY <1>1, <2>1 DEF PureInv, Judged, Decided
  <1> QED BY <1>2, <1>3 DEF PureInv

LEMMA PureInit == Init => PureInv
  <1> SUFFICES ASSUME Init PROVE PureInv
    OBVIOUS
  <1>1. DOMAIN cache.items = {}
    BY DEF Init, EmptyStore
  <1>2. AllLoaded
    BY <1>1 DEF Init, AllLoaded, UpTo, NoReload, Undecided
  <1>3. \A n \in Notifs : Judged(n)
    BY DEF Init, Judged, Decided
  <1> QED BY <1>1, <1>2, <1>3 DEF PureInv, CacheIsRight

LEMMA PureNext ==
  ASSUME EngineIsSound, TypeInv, PureInv, [Next]_vars
  PROVE  PureInv'
  <1>0. ASSUME cache'.items = cache.items
        PROVE  CacheIsRight' /\ UpTo(cache', disk)
    BY <1>0 DEF PureInv, CacheIsRight, AllLoaded, UpTo
  <1>1. ASSUME NEW n \in Notifs, NEW r \in Requests, Receive(n, r) PROVE PureInv'
    <2>1. /\ StepOf(n, "start") /\ UNCHANGED <<cache, snap, dec>>
          /\ \A m \in Notifs \ {n} : req'[m] = req[m]
      BY <1>1 DEF Receive, StepOf, Goto, TypeInv, TypeOK
    <2>2. Judged(n)'
      BY <1>1 DEF Receive, Goto, Judged, Decided, TypeInv, TypeOK
    <2>3. CacheIsRight' /\ UpTo(cache', disk)
      BY <1>0, <2>1
    <2>4. snap'[n] \in 0..disk /\ dec'[n].by \in 0..disk
      BY <2>1 DEF PureInv, AllLoaded
    <2> QED BY <2>1, <2>2, <2>3, <2>4, PureStep
  <1>2. ASSUME NEW n \in Notifs, Snapshot(n) PROVE PureInv'
    <2>1. PICK label \in {"fastpath", "enoent", "unresolved", "get"} :
            /\ pc' = [pc EXCEPT ![n] = label]
            /\ label = "unresolved" => req[n].form = "unresolved"
      BY <1>2 DEF Snapshot, Goto
    <2>2. /\ StepOf(n, label) /\ UNCHANGED <<cache, req, dec>>
          /\ snap' = [snap EXCEPT ![n] = engine]
      BY <1>2, <2>1 DEF Snapshot, StepOf
    <2>3. pc'[n] = label /\ req'[n] = req[n]
      BY <2>1, <2>2 DEF TypeInv, TypeOK
    <2>4. Judged(n)'
      BY <2>1, <2>3 DEF Judged, Decided
    <2>5. CacheIsRight' /\ UpTo(cache', disk)
      BY <1>0, <2>2
    <2>6. snap'[n] \in 0..disk /\ dec'[n].by \in 0..disk
      BY <2>2 DEF PureInv, AllLoaded, TypeInv, TypeOK
    <2>7. \A m \in Notifs \ {n} : snap'[m] = snap[m]
      BY <2>2 DEF TypeInv, TypeOK
    <2> QED BY <2>2, <2>4, <2>5, <2>6, <2>7, PureStep
  <1>3. ASSUME NEW n \in Notifs, NEW label, StepOf(n, label),
               UNCHANGED <<cache, req, snap, dec>>,
               label \in {"fastsend", "fastcount", "respond", "shortcut", "audit",
                         "enoent", "eexist", "report"},
               label \in {"shortcut", "eexist", "report", "audit"} => Decided(n),
               label = "respond" => Decided(n) \/ pc[n] = "unresolved"
        PROVE  PureInv'
    <2>1. pc'[n] = label /\ disk' = disk
      BY <1>3 DEF StepOf, TypeInv, TypeOK, reloadVars
    <2>2. Judged(n)'
      <3>1. CASE Decided(n)
        BY <1>3, <2>1, <3>1 DEF PureInv, Judged, Decided
      <3>2. CASE pc[n] = "unresolved"
        BY <1>3, <2>1, <3>2 DEF PureInv, Judged, Decided
      <3>3. CASE label \in {"fastsend", "fastcount", "enoent"}
        BY <2>1, <3>3 DEF Judged, Decided
      <3> QED BY <1>3, <3>1, <3>2, <3>3
    <2>3. CacheIsRight' /\ UpTo(cache', disk)
      BY <1>0, <1>3
    <2>4. snap'[n] \in 0..disk /\ dec'[n].by \in 0..disk
      BY <1>3 DEF PureInv, AllLoaded
    <2> QED BY <1>3, <2>2, <2>3, <2>4, PureStep
  <1>4. ASSUME NEW n \in Notifs, FastPath(n) \/ FastSend(n) \/ denyUnresolved(n)
                                   \/ RecordAllowedExec(n) \/ Report(n) \/ Audit(n)
        PROVE  PureInv'
    <2>1. PICK label \in {"fastsend", "fastcount", "respond", "shortcut", "audit"} :
            /\ pc' = [pc EXCEPT ![n] = label]
            /\ label \in {"shortcut", "audit"} => Decided(n)
            /\ label = "respond" => Decided(n) \/ pc[n] = "unresolved"
      BY <1>4 DEF FastPath, FastSend, denyUnresolved, RecordAllowedExec, Report,
                  Audit, Goto, Decided
    <2>2. StepOf(n, label) /\ UNCHANGED <<cache, req, snap, dec>>
      BY <1>4, <2>1 DEF FastPath, FastSend, denyUnresolved, RecordAllowedExec, Report,
                        Audit, StepOf
    <2> QED BY <1>3, <2>1, <2>2
  <1>5. ASSUME NEW n \in Notifs, FastCount(n) \/ SendEnoent(n) \/ SendExisting(n)
                                   \/ Respond(n)
        PROVE  PureInv'
    <2>1. StepOf(n, "done") /\ UNCHANGED cache
      BY <1>5 DEF FastCount, SendEnoent, SendExisting, Respond, Finish, Goto, StepOf
    <2>2. /\ req' = [req EXCEPT ![n] = NoRequest]
          /\ snap' = [snap EXCEPT ![n] = 0] /\ dec' = [dec EXCEPT ![n] = Undecided]
      BY <1>5 DEF FastCount, SendEnoent, SendExisting, Respond, Finish
    <2>3. Judged(n)'
      BY <2>1 DEF StepOf, Judged, Decided, TypeInv, TypeOK
    <2>4. CacheIsRight' /\ UpTo(cache', disk)
      BY <1>0, <2>1
    <2>5. /\ snap'[n] = 0 /\ dec'[n].by = 0
          /\ \A m \in Notifs \ {n} :
               req'[m] = req[m] /\ snap'[m] = snap[m] /\ dec'[m] = dec[m]
      BY <2>2 DEF TypeInv, TypeOK, Undecided
    <2>6. 0 \in 0..disk
      BY DEF PureInv, AllLoaded
    <2> QED BY <2>1, <2>3, <2>4, <2>5, <2>6, PureStep
  <1>6. ASSUME NEW n \in Notifs, NEW exists \in BOOLEAN, Shortcut(n, exists)
        PROVE  PureInv'
    <2>1. PICK label \in {"enoent", "eexist", "report"} : pc' = [pc EXCEPT ![n] = label]
      BY <1>6 DEF Shortcut, Goto
    <2>2. StepOf(n, label) /\ UNCHANGED <<cache, req, snap, dec>> /\ Decided(n)
      BY <1>6, <2>1 DEF Shortcut, StepOf, Decided
    <2> QED BY <1>3, <2>1, <2>2
  <1>7. ASSUME NEW n \in Notifs, NEW label, StepOf(n, label),
               UNCHANGED <<req, snap>>, CacheIsRight', UpTo(cache', disk),
               NEW d, dec' = [dec EXCEPT ![n] = d], d.by \in 0..disk,
               \/ label = "evaluate"
               \/ label = "getsecond" /\ RightFor(d, req[n].action, req[n].target)
               \/ /\ label = "evaluatesecond" /\ d.by = snap[n]
                  /\ d.v = Decide(snap[n], req[n].action, req[n].target, req[n].who)
               \/ /\ label = "decided"
                  /\ IsVerdict(d, req[n], disk)
        PROVE  PureInv'
    <2>1. pc'[n] = label /\ dec'[n] = d /\ disk' = disk
      BY <1>7 DEF StepOf, TypeInv, TypeOK, reloadVars
    <2>2. Judged(n)'
      BY <1>7, <2>1 DEF Judged, Decided
    <2>3. snap'[n] \in 0..disk /\ dec'[n].by \in 0..disk
      BY <1>7, <2>1 DEF PureInv, AllLoaded
    <2>4. \A m \in Notifs \ {n} : dec'[m] = dec[m]
      BY <1>7 DEF TypeInv, TypeOK
    <2> QED BY <1>7, <2>2, <2>3, <2>4, PureStep
  <1>8. ASSUME NEW n \in Notifs, Get(n) PROVE PureInv'
    <2> DEFINE t == req[n].target
               key == Key(req[n].action, t)
               hit == useCache(n, t) /\ Holds(cache, key)
               d == cache.items[key]
    <2>1. UnderWay(n) /\ UNCHANGED <<reloadVars, overlap, req, snap>>
      BY <1>8 DEF Get, UnderWay
    <2>2. CacheIsRight' /\ UpTo(cache', disk)
      BY <1>0, <1>8, TouchKeepsItems DEF Get
    <2>3. CASE ~ hit
      <3>1. StepOf(n, "evaluate") /\ dec' = dec
        BY <1>8, <2>1, <2>3 DEF Get, Goto, StepOf
      <3>2. dec' = [dec EXCEPT ![n] = dec[n]] /\ dec[n].by \in 0..disk
        BY <3>1 DEF TypeInv, TypeOK, PureInv, AllLoaded
      <3> QED BY <1>7, <2>1, <2>2, <3>1, <3>2
    <2>4. CASE hit
      <3>1. RightFor(d, req[n].action, t) /\ d.by \in 0..disk
        BY <2>4, HitIsRight
      <3>2. dec' = [dec EXCEPT ![n] = d]
        BY <1>8, <2>4 DEF Get
      <3>3. CASE req[n].second # None
        <4>1. StepOf(n, "getsecond")
          BY <1>8, <2>1, <2>4, <3>3 DEF Get, Goto, StepOf
        <4> QED BY <1>7, <2>1, <2>2, <3>1, <3>2, <4>1
      <3>4. CASE req[n].second = None
        <4>1. StepOf(n, "decided")
          BY <1>8, <2>1, <2>4, <3>4 DEF Get, Goto, StepOf
        <4>2. IsVerdict(d, req[n], disk)
          <5>1. req[n].who \in Contexts /\ d \in Decision
            BY <2>1, <2>4, RequestTyped, DecisionsTyped
          <5>2. d.v.allow \in BOOLEAN
            BY <5>1 DEF Decision, Verdict
          <5>3. d.v = Decide(d.by, req[n].action, t, req[n].who)
            BY <3>1, <5>1 DEF RightFor
          <5> HIDE DEF d
          <5> QED BY <3>1, <3>4, <5>2, <5>3 DEF IsVerdict, AllowedBy
        <4> QED BY <1>7, <2>1, <2>2, <3>1, <3>2, <4>1, <4>2
      <3> QED BY <3>3, <3>4
    <2> QED BY <2>3, <2>4
  <1>9. ASSUME NEW n \in Notifs, GetSecond(n) PROVE PureInv'
    <2> DEFINE t == req[n].second
               key == Key(req[n].action, t)
               hit == useCache(n, t) /\ Holds(cache, key)
               d == cache.items[key]
    <2>1. UnderWay(n) /\ UNCHANGED <<reloadVars, overlap, req, snap>> /\ t \in Targets
      BY <1>9, RequestTyped DEF GetSecond, UnderWay, TypeInv
    <2>2. CacheIsRight' /\ UpTo(cache', disk)
      BY <1>0, <1>9, TouchKeepsItems DEF GetSecond
    <2>3. CASE ~ hit
      <3>1. StepOf(n, "evaluate") /\ dec' = dec
        BY <1>9, <2>1, <2>3 DEF GetSecond, Goto, StepOf
      <3>2. dec' = [dec EXCEPT ![n] = dec[n]] /\ dec[n].by \in 0..disk
        BY <3>1 DEF TypeInv, TypeOK, PureInv, AllLoaded
      <3> QED BY <1>7, <2>1, <2>2, <3>1, <3>2
    <2>4. CASE hit
      <3>1. RightFor(d, req[n].action, t) /\ d.by \in 0..disk
        BY <2>4, HitIsRight
      <3>2. RightFor(dec[n], req[n].action, req[n].target) /\ dec[n].by \in 0..disk
        BY <1>9 DEF GetSecond, PureInv, Judged, AllLoaded
      <3>3. StepOf(n, "decided") /\ dec' = [dec EXCEPT ![n] = combine(dec[n], d)]
        BY <1>9, <2>1, <2>4 DEF GetSecond, Goto, StepOf
      <3>4. /\ req[n].who \in Contexts /\ d \in Decision /\ dec[n] \in Decision
            /\ t # None
        BY <2>1, <2>4, DecisionsTyped, SupervisorAssumption DEF TypeInv, TypeOK
      <3> HIDE DEF d, t
      <3>5. /\ combine(dec[n], d).v.allow = (dec[n].v.allow /\ d.v.allow)
            /\ combine(dec[n], d).by \in 0..disk
        BY <3>1, <3>2, <3>4, CombineAllows
      <3>6. /\ dec[n].v = Decide(dec[n].by, req[n].action, req[n].target, req[n].who)
            /\ d.v = Decide(d.by, req[n].action, t, req[n].who)
        BY <3>1, <3>2, <3>4 DEF RightFor
      <3>7. IsVerdict(combine(dec[n], d), req[n], disk)
        BY <3>1, <3>2, <3>4, <3>5, <3>6 DEF IsVerdict, AllowedBy, t
      <3> QED BY <1>7, <2>1, <2>2, <3>3, <3>5, <3>7
    <2> QED BY <2>3, <2>4
  <1>10. ASSUME NEW n \in Notifs, UnderWay(n), NEW t \in Targets,
                t = req[n].target \/ t = req[n].second,
                cache' = IF useCache(n, t)
                         THEN Store(cache, Key(req[n].action, t), Evaluate(n, t), Capacity)
                         ELSE cache
         PROVE  CacheIsRight' /\ UpTo(cache', disk)
    <2>1. /\ req[n].action \in Actions /\ Evaluate(n, t) \in Decision
          /\ Evaluate(n, t).by = snap[n]
          /\ useCache(n, t) => RightFor(Evaluate(n, t), req[n].action, t)
      BY <1>10, DecisionsTyped, EvaluateIsRight
    <2>2. CASE ~ useCache(n, t)
      BY <1>0, <1>10, <2>2
    <2>3. CASE useCache(n, t)
      <3>1. CacheIsRight'
        BY <1>10, <2>1, <2>3, StoreKeepsRight DEF PureInv
      <3>2. HoldsOnly(cache, Key(req[n].action, t), Evaluate(n, t), cache')
        BY <1>10, <2>1, <2>3, DecisionsTyped, CapacityPositive, StoreKeeps DEF TypeInv
      <3>3. UpTo(cache, disk) /\ Evaluate(n, t).by \in 0..disk
        BY <2>1 DEF PureInv, AllLoaded
      <3>4. UpTo(cache', disk)
        BY <3>2, <3>3 DEF HoldsOnly, UpTo
      <3> QED BY <3>1, <3>4
    <2> QED BY <2>2, <2>3
  <1>11. ASSUME NEW n \in Notifs, EvaluateFirst(n) PROVE PureInv'
    <2> DEFINE t == req[n].target
               d == Evaluate(n, t)
    <2>1. UnderWay(n) /\ UNCHANGED <<reloadVars, overlap, req, snap>> /\ t \in Targets
      BY <1>11, RequestTyped DEF EvaluateFirst, UnderWay
    <2>2. CacheIsRight' /\ UpTo(cache', disk)
      BY <1>10, <1>11, <2>1 DEF EvaluateFirst
    <2>3. /\ d.v = Decide(snap[n], req[n].action, t, req[n].who) /\ d.by = snap[n]
          /\ d \in Decision
      BY <2>1, EvaluateIsRight, DecisionsTyped
    <2>4. dec' = [dec EXCEPT ![n] = d]
      BY <1>11 DEF EvaluateFirst
    <2>5. d.by \in 0..disk
      BY <2>3 DEF PureInv, AllLoaded
    <2>6. CASE req[n].second # None
      <3>1. StepOf(n, "evaluatesecond")
        BY <1>11, <2>1, <2>6 DEF EvaluateFirst, Goto, StepOf
      <3> HIDE DEF d
      <3> QED BY <1>7, <2>1, <2>2, <2>3, <2>4, <2>5, <3>1
    <2>7. CASE req[n].second = None
      <3>1. StepOf(n, "decided")
        BY <1>11, <2>1, <2>7 DEF EvaluateFirst, Goto, StepOf
      <3>2. d.v.allow \in BOOLEAN
        BY <2>3 DEF Decision, Verdict
      <3> HIDE DEF d
      <3>3. IsVerdict(d, req[n], disk)
        BY <2>3, <2>5, <2>7, <3>2 DEF IsVerdict, AllowedBy
      <3> QED BY <1>7, <2>1, <2>2, <2>4, <2>5, <3>1, <3>3
    <2> QED BY <2>6, <2>7
  <1>12. ASSUME NEW n \in Notifs, EvaluateSecond(n) PROVE PureInv'
    <2> DEFINE t == req[n].second
               d == Evaluate(n, t)
    <2>1. UnderWay(n) /\ UNCHANGED <<reloadVars, overlap, req, snap>> /\ t \in Targets
      BY <1>12, RequestTyped DEF EvaluateSecond, UnderWay, TypeInv
    <2>2. CacheIsRight' /\ UpTo(cache', disk)
      BY <1>10, <1>12, <2>1 DEF EvaluateSecond
    <2>3. /\ d.v = Decide(snap[n], req[n].action, t, req[n].who) /\ d.by = snap[n]
          /\ d \in Decision /\ dec[n] \in Decision /\ t # None
      BY <2>1, EvaluateIsRight, DecisionsTyped, SupervisorAssumption DEF TypeInv, TypeOK
    <2>4. /\ dec[n].v = Decide(snap[n], req[n].action, req[n].target, req[n].who)
          /\ dec[n].by = snap[n]
      BY <1>12 DEF EvaluateSecond, PureInv, Judged
    <2>5. StepOf(n, "decided") /\ dec' = [dec EXCEPT ![n] = combine(dec[n], d)]
      BY <1>12, <2>1 DEF EvaluateSecond, Goto, StepOf
    <2>6. snap[n] \in 0..disk
      BY DEF PureInv, AllLoaded
    <2> HIDE DEF d, t
    <2>7. /\ combine(dec[n], d).v.allow = (dec[n].v.allow /\ d.v.allow)
          /\ combine(dec[n], d).by \in 0..disk
      BY <2>3, <2>4, <2>6, CombineAllows
    <2>8. IsVerdict(combine(dec[n], d), req[n], disk)
      BY <2>3, <2>4, <2>6, <2>7 DEF IsVerdict, AllowedBy, t
    <2> QED BY <1>7, <2>1, <2>2, <2>5, <2>7, <2>8
  <1>13. ASSUME NEW n \in Notifs, Interrupt(n) PROVE PureInv'
    BY <1>13 DEF Interrupt, PureInv, CacheIsRight, AllLoaded, UpTo, Judged, Decided,
                 reloadVars, handlerVars
  <1>14. CASE Edit
    <2>1. disk \in Nat /\ disk' = disk + 1
      BY <1>14 DEF Edit, PureInv, AllLoaded
    <2>2. \A v \in 0..disk : v \in 0..disk'
      BY <2>1
    <2>3. AllLoaded'
      BY <1>14, <2>1, <2>2 DEF Edit, PureInv, AllLoaded, UpTo, handlerVars
    <2>4. \A n \in Notifs : Judged(n)'
      BY <1>14, <2>2 DEF Edit, PureInv, Judged, IsVerdict, Decided, handlerVars
    <2>5. CacheIsRight'
      BY <1>14 DEF Edit, PureInv, CacheIsRight
    <2> QED BY <2>3, <2>4, <2>5 DEF PureInv
  <1>15. ASSUME NEW r \in Reloads, Load(r) PROVE PureInv'
    BY <1>15 DEF Load, PureInv, CacheIsRight, AllLoaded, UpTo, Judged, Decided,
                 handlerVars, TypeInv, TypeOK
  <1>16. ASSUME NEW r \in Reloads, Swap(r) PROVE PureInv'
    BY <1>16 DEF Swap, PureInv, CacheIsRight, AllLoaded, UpTo, Judged, Decided,
                 handlerVars, TypeInv, TypeOK
  <1>17. ASSUME NEW r \in Reloads, Clear(r) PROVE PureInv'
    <2>1. DOMAIN cache'.items = {}
      BY <1>17 DEF Clear, EmptyStore
    <2>2. AllLoaded'
      BY <1>17, <2>1 DEF Clear, PureInv, AllLoaded, UpTo, handlerVars, NoReload,
                         TypeInv, TypeOK
    <2>3. \A n \in Notifs : Judged(n)'
      BY <1>17 DEF Clear, PureInv, Judged, Decided, handlerVars
    <2> QED BY <2>1, <2>2, <2>3 DEF PureInv, CacheIsRight
  <1>18. CASE UNCHANGED vars
    BY <1>18 DEF vars, PureInv, CacheIsRight, AllLoaded, UpTo, Judged, Decided
  <1> QED
    BY <1>1, <1>2, <1>4, <1>5, <1>6, <1>8, <1>9, <1>11, <1>12, <1>13, <1>14, <1>15,
       <1>16, <1>17, <1>18 DEF Next, Handle

(* "Identical events must never produce different verdicts": HandleSyscall *)
(* reaches a verdict that engines loaded so far give with the full context *)
(* of the process, from whatever mixture of cached and fresh decisions, if *)
(* the engines' own analysis of caching and context is right.              *)
THEOREM VerdictsArePure ==
  ASSUME EngineIsSound
  PROVE  Spec => []VerdictIsPure
  <1>1. PureInv => VerdictIsPure
    BY DEF PureInv, Judged, IsVerdict, VerdictIsPure
  <1>2. TypeInv /\ PureInv /\ [Next]_vars => PureInv'
    BY PureNext
  <1> QED BY <1>1, <1>2, TypeInit, TypeNext, PureInit, PTL DEF Spec

(* Across all reloads, a decision in the cache is what the engine that     *)
(* made it decides for that key, for every process, if the engines' own    *)
(* analysis of caching and context is right.                               *)
THEOREM CachedDecisionsAreRight ==
  ASSUME EngineIsSound
  PROVE  Spec => []CacheIsRight
  <1>1. PureInv => CacheIsRight
    BY DEF PureInv
  <1>2. TypeInv /\ PureInv /\ [Next]_vars => PureInv'
    BY PureNext
  <1> QED BY <1>1, <1>2, TypeInit, TypeNext, PureInit, PTL DEF Spec

-----------------------------------------------------------------------------
(* Reporting.                                                              *)

(* What has been reported of a notification, by where its handler is. An   *)
(* exec is recorded on the way to its CONTINUE only, a denial is counted   *)
(* and audited before it is sent, and a handler that refuses an argument   *)
(* still has no decision.                                                  *)
Accounted(n) ==
  /\ n \in execd =>
       \/ pc[n] \in {"fastsend", "fastcount", "done"}
       \/ pc[n] \in {"shortcut", "report", "audit", "respond"} /\ dec[n].v.allow
  /\ answer[n] # "waiting" => pc[n] \in {"fastcount", "done"}
  /\ answer[n] \in {"DENIED", "ENOENT"} => n \notin execd
  /\ pc[n] \in {"audit", "respond"} => n \in counted
  /\ pc[n] = "respond" /\ NeedsRecord(n) => n \in audited
  /\ pc[n] \in {"get", "getsecond", "evaluate", "evaluatesecond", "decided",
                "shortcut", "eexist", "report", "audit"} => req[n].form = "plain"
  /\ pc[n] \in {"fastpath", "fastsend"} => Unconditional(snap[n], req[n].action)
  /\ pc[n] = "enoent" => req[n].form = "empty" \/ SilentDenial(n)
  /\ pc[n] = "fastsend" /\ isExec(n) => n \in execd
  /\ pc[n] \in {"shortcut", "report", "audit", "respond"} /\ isExec(n) /\ dec[n].v.allow
       => n \in execd
  /\ pc[n] = "eexist" => SilentDenial(n) /\ req[n].mkdir
  /\ pc[n] \in {"idle", "start", "unresolved"} => dec[n] = Undecided

AccountInv == \A n \in Notifs : Accounted(n)

LEMMA AccountInit == Init => AccountInv
  BY DEF Init, AccountInv, Accounted

(* Nothing of notification m changes.                                      *)
Aside(m) ==
  /\ pc'[m] = pc[m] /\ req'[m] = req[m] /\ dec'[m] = dec[m] /\ answer'[m] = answer[m]
  /\ snap'[m] = snap[m]
  /\ m \in execd' <=> m \in execd
  /\ m \in counted' <=> m \in counted
  /\ m \in audited' <=> m \in audited

LEMMA AsideKeeps ==
  ASSUME NEW m \in Notifs, Accounted(m), Aside(m)
  PROVE  Accounted(m)'
  BY DEF Accounted, Aside, isExec, NeedsRecord, SilentDenial

LEMMA OthersAside ==
  ASSUME TypeInv, NEW n \in Notifs, Handle(n), NEW m \in Notifs \ {n}
  PROVE  Aside(m)
  <1>1. pc'[m] = pc[m]
    BY DEF TypeInv, TypeOK, Handle, Goto, Finish, Snapshot, FastPath, FastSend, FastCount,
           SendEnoent, denyUnresolved, Get, GetSecond, EvaluateFirst, EvaluateSecond,
           RecordAllowedExec, Shortcut, SendExisting, Report, Audit, Respond
  <1>2. req'[m] = req[m]
    BY DEF TypeInv, TypeOK, Handle, Finish, Snapshot, FastPath, FastSend, FastCount,
           SendEnoent, denyUnresolved, Get, GetSecond, EvaluateFirst, EvaluateSecond,
           RecordAllowedExec, Shortcut, SendExisting, Report, Audit, Respond
  <1>3. dec'[m] = dec[m]
    BY DEF TypeInv, TypeOK, Handle, Finish, Snapshot, FastPath, FastSend, FastCount,
           SendEnoent, denyUnresolved, Get, GetSecond, EvaluateFirst, EvaluateSecond,
           RecordAllowedExec, Shortcut, SendExisting, Report, Audit, Respond
  <1>4. answer'[m] = answer[m]
    BY DEF TypeInv, TypeOK, Handle, Send, Snapshot, FastPath, FastSend, FastCount,
           SendEnoent, denyUnresolved, Get, GetSecond, EvaluateFirst, EvaluateSecond,
           RecordAllowedExec, Shortcut, SendExisting, Report, Audit, Respond
  <1>5. /\ m \in execd' <=> m \in execd
        /\ m \in counted' <=> m \in counted
        /\ m \in audited' <=> m \in audited
    BY DEF Handle, RecordExec, Snapshot, FastPath, FastSend, FastCount,
           SendEnoent, denyUnresolved, Get, GetSecond, EvaluateFirst, EvaluateSecond,
           RecordAllowedExec, Shortcut, SendExisting, Report, Audit, Respond, reportVars
  <1>6. snap'[m] = snap[m]
    BY DEF TypeInv, TypeOK, Handle, Finish, Snapshot, FastPath, FastSend, FastCount,
           SendEnoent, denyUnresolved, Get, GetSecond, EvaluateFirst, EvaluateSecond,
           RecordAllowedExec, Shortcut, SendExisting, Report, Audit, Respond
  <1> QED BY <1>1, <1>2, <1>3, <1>4, <1>5, <1>6 DEF Aside

(* The step of a handler keeps its own account.                            *)
LEMMA HandleAccounts ==
  ASSUME TypeInv, NEW n \in Notifs, Accounted(n), Handle(n)
  PROVE  Accounted(n)'
  <1> USE DEF Accounted, isExec, Goto, TypeInv, TypeOK, NeedsRecord, SilentDenial
  <1>1. CASE Snapshot(n)
    <2>1. PICK label \in {"fastpath", "enoent", "unresolved", "get"} :
            /\ pc' = [pc EXCEPT ![n] = label]
            /\ label = "fastpath" => Unconditional(engine, req[n].action)
            /\ label = "enoent" => req[n].form = "empty"
            /\ label = "get" => req[n].form \notin {"empty", "unresolved"}
      BY <1>1 DEF Snapshot
    <2>2. /\ pc[n] = "start" /\ snap' = [snap EXCEPT ![n] = engine]
          /\ UNCHANGED <<req, dec, answer, execd, counted, audited>>
      BY <1>1 DEF Snapshot, reportVars
    <2>3. req[n].form \in {"plain", "empty", "unresolved"}
      <3>1. req[n] \in Request
        BY <2>2, RequestTyped DEF UnderWay
      <3> QED BY <3>1 DEF Request
    <2>4. pc'[n] = label /\ snap'[n] = engine
      BY <2>1, <2>2
    <2> QED BY <2>1, <2>2, <2>3, <2>4
  <1>2. CASE FastPath(n)
    BY <1>2 DEF FastPath, RecordExec
  <1>3. CASE FastSend(n)
    BY <1>3 DEF FastSend, Send, reportVars
  <1>4. CASE FastCount(n)
    BY <1>4 DEF FastCount, Finish
  <1>5. CASE SendEnoent(n)
    BY <1>5 DEF SendEnoent, Send, Finish, reportVars
  <1>6. CASE denyUnresolved(n)
    BY <1>6 DEF denyUnresolved, Undecided
  <1>7. CASE Get(n)
    <2>1. PICK label \in {"evaluate", "getsecond", "decided"} :
            pc' = [pc EXCEPT ![n] = label]
      BY <1>7 DEF Get
    <2>2. pc[n] = "get" /\ UNCHANGED <<req, answer, execd, counted, audited>>
      BY <1>7 DEF Get, reportVars
    <2> QED BY <2>1, <2>2
  <1>8. CASE GetSecond(n)
    <2>1. PICK label \in {"evaluate", "decided"} : pc' = [pc EXCEPT ![n] = label]
      BY <1>8 DEF GetSecond
    <2>2. pc[n] = "getsecond" /\ UNCHANGED <<req, answer, execd, counted, audited>>
      BY <1>8 DEF GetSecond, reportVars
    <2> QED BY <2>1, <2>2
  <1>9. CASE EvaluateFirst(n) \/ EvaluateSecond(n)
    <2>1. PICK label \in {"evaluatesecond", "decided"} : pc' = [pc EXCEPT ![n] = label]
      BY <1>9 DEF EvaluateFirst, EvaluateSecond
    <2>2. /\ pc[n] \in {"evaluate", "evaluatesecond"}
          /\ UNCHANGED <<req, answer, execd, counted, audited>>
      BY <1>9 DEF EvaluateFirst, EvaluateSecond, reportVars
    <2> QED BY <2>1, <2>2
  <1>10. CASE RecordAllowedExec(n)
    BY <1>10 DEF RecordAllowedExec, RecordExec
  <1>11. ASSUME NEW exists \in BOOLEAN, Shortcut(n, exists) PROVE Accounted(n)'
    <2>1. PICK label \in {"enoent", "eexist", "report"} :
            /\ pc' = [pc EXCEPT ![n] = label]
            /\ label \in {"enoent", "eexist"} => ~ dec[n].v.allow /\ SilentDenial(n)
            /\ label = "eexist" => req[n].mkdir
      BY <1>11 DEF Shortcut
    <2>2. pc[n] = "shortcut" /\ UNCHANGED <<req, dec, answer, execd, counted, audited>>
      BY <1>11 DEF Shortcut, reportVars
    <2> QED BY <2>1, <2>2
  <1>12. CASE SendExisting(n)
    BY <1>12 DEF SendExisting, Send, Finish, reportVars
  <1>13. CASE Report(n)
    BY <1>13 DEF Report
  <1>14. CASE Audit(n)
    BY <1>14 DEF Audit, auditing
  <1>15. CASE Respond(n)
    BY <1>15 DEF Respond, Send, Finish, reportVars
  <1> QED
    BY <1>1, <1>2, <1>3, <1>4, <1>5, <1>6, <1>7, <1>8, <1>9, <1>10, <1>11, <1>12,
       <1>13, <1>14, <1>15 DEF Handle

LEMMA AccountNext == TypeInv /\ AccountInv /\ [Next]_vars => AccountInv'
  <1> SUFFICES ASSUME TypeInv, AccountInv, [Next]_vars, NEW m \in Notifs
               PROVE  Accounted(m)'
    BY DEF AccountInv
  <1>1. Accounted(m)
    BY DEF AccountInv
  <1>2. ASSUME NEW n \in Notifs, Handle(n) PROVE Accounted(m)'
    BY <1>1, <1>2, HandleAccounts, OthersAside, AsideKeeps
  <1>3. ASSUME NEW n \in Notifs, NEW r \in Requests, Receive(n, r) PROVE Accounted(m)'
    <2>1. CASE m # n
      <3>1. Aside(m)
        BY <1>3, <2>1 DEF Receive, Goto, Aside, TypeInv, TypeOK, reportVars
      <3> QED BY <1>1, <3>1, AsideKeeps
    <2>2. CASE m = n
      <3>1. /\ pc[n] = "idle" /\ pc'[n] = "start"
            /\ UNCHANGED <<dec, answer, execd, counted, audited>>
        BY <1>3 DEF Receive, Goto, TypeInv, TypeOK, reportVars
      <3> QED BY <1>1, <2>2, <3>1 DEF Accounted
    <2> QED BY <2>1, <2>2
  <1>4. CASE \/ \E n \in Notifs : Interrupt(n)
             \/ Edit
             \/ \E r \in Reloads : Load(r) \/ Swap(r) \/ Clear(r)
             \/ UNCHANGED vars
    <2>1. Aside(m)
      BY <1>4 DEF Interrupt, Edit, Load, Swap, Clear, vars, Aside, handlerVars, reportVars
    <2> QED BY <1>1, <2>1, AsideKeeps
  <1> QED BY <1>2, <1>3, <1>4 DEF Next

(* "Call this only for an exec that policy allowed": RecordExec is never   *)
(* reached for an exec that HandleSyscall refuses.                         *)
THEOREM RefusedExecsNotRecorded == Spec => []RefusedExecNotRecorded
  <1>1. AccountInv => RefusedExecNotRecorded
    BY DEF AccountInv, Accounted, RefusedExecNotRecorded
  <1> QED BY <1>1, TypeInit, TypeNext, AccountInit, AccountNext, PTL DEF Spec

(* The kernel is told EACCES only after the denial was counted and, unless *)
(* its rule suppresses the record, audited, an unresolved path always; and *)
(* CONTINUE for an exec only once it is in the process table. Of what is   *)
(* answered unreported there are only the four kinds of the property.      *)
THEOREM AnswersAreReported == Spec => ReportedBeforeAnswer
  <1> DEFINE Reported(n) ==
               answer[n] = "waiting" =>
                 /\ answer'[n] = "DENIED" =>
                      n \in counted /\ (NeedsRecord(n) => n \in audited)
                 /\ answer'[n] = "ENOENT" => req[n].form = "empty" \/ SilentDenial(n)
                 /\ answer'[n] = "CONTINUE" =>
                      /\ isExec(n) => n \in execd
                      /\ \/ n \in counted
                         \/ Unconditional(snap[n], req[n].action)
                         \/ SilentDenial(n) /\ req[n].mkdir
  <1>1. ASSUME TypeInv, AccountInv, Next, NEW m \in Notifs PROVE Reported(m)
    <2>1. Accounted(m)
      BY <1>1 DEF AccountInv
    <2>2. ASSUME NEW n \in Notifs, Handle(n) PROVE Reported(m)
      <3>1. CASE m # n
        BY <1>1, <2>2, <3>1, OthersAside DEF Aside
      <3>2. CASE m = n
        <4>1. CASE answer'[n] = answer[n]
          BY <3>2, <4>1
        <4>2. CASE FastSend(n)
          BY <1>1, <2>1, <3>2, <4>2 DEF FastSend, Send, Accounted, TypeInv, TypeOK
        <4>3. CASE SendEnoent(n)
          BY <1>1, <2>1, <3>2, <4>3 DEF SendEnoent, Send, Accounted, TypeInv, TypeOK
        <4>4. CASE SendExisting(n)
          <5>1. req[n] \in Requests /\ req[n].mkdir /\ SilentDenial(n)
            BY <1>1, <2>1, <3>2, <4>4 DEF SendExisting, Accounted, TypeInv, UnderWay
          <5>2. ~ isExec(n)
            BY <5>1, MkdirAssumption DEF isExec
          <5> QED BY <1>1, <3>2, <4>4, <5>1, <5>2 DEF SendExisting, Send, TypeInv, TypeOK
        <4>5. CASE Respond(n)
          BY <1>1, <2>1, <3>2, <4>5 DEF Respond, Send, Accounted, TypeInv, TypeOK
        <4> QED BY <2>2, <4>1, <4>2, <4>3, <4>4, <4>5
                DEF Handle, Snapshot, FastPath, FastCount, denyUnresolved, Get, GetSecond,
                    EvaluateFirst, EvaluateSecond, RecordAllowedExec, Shortcut, Report, Audit
      <3> QED BY <3>1, <3>2
    <2>3. CASE UNCHANGED answer
      BY <2>3
    <2> QED BY <1>1, <2>2, <2>3
            DEF Next, Receive, Interrupt, Edit, Load, Swap, Clear, handlerVars
  <1>2. TypeInv /\ AccountInv /\ [Next]_vars => [\A n \in Notifs : Reported(n)]_vars
    BY <1>1
  <1>3. [][\A n \in Notifs : Reported(n)]_vars => ReportedBeforeAnswer
    BY PTL DEF ReportedBeforeAnswer
  <1> QED
    BY <1>2, <1>3, TypeInit, TypeNext, AccountInit, AccountNext, PTL DEF Spec
=============================================================================
