-------------------------- MODULE RecordingProofs ---------------------------
(***************************************************************************)
(* The invariants of Recording, for every set of requests, file system,    *)
(* file descriptor table and policy, whenever the target is interrupted:   *)
(* the filter routes a syscall as it should, what Decode makes of it is    *)
(* what the blocked target asked for, a path it cannot read is refused,    *)
(* the policy is asked about the path the kernel acts on, and the policy   *)
(* written on exit allows what was denied.                                 *)
(*                                                                         *)
(* An execveat with AT_EMPTY_PATH is left out of what is said of the path  *)
(* it acts on, as in the properties; that it is refused or has a file for  *)
(* its fd is part of FailsClosed.                                          *)
(***************************************************************************)
EXTENDS Recording, SequenceTheorems, WellFoundedInduction, TLAPS

(* Naturals, sequences and runs.                                           *)

LEMMA LeastNatural ==
  ASSUME NEW T \in SUBSET Nat, T # {}
  PROVE  \E n \in T : \A m \in T : n <= m
  <1> DEFINE less == OpToRel(<, Nat)
  <1>1. IsWellFoundedOn(less, Nat)
    BY NatLessThanWellFounded, Zenon
  <1>2. \A a, b \in Nat : a < b => <<a, b>> \in less
    BY Zenon DEF OpToRel
  <1> HIDE DEF less
  <1>3. PICK n \in T : \A m \in T : ~ (<<m, n>> \in less)
    BY <1>1, WFMin, Zenon
  <1>4. \A m \in T : ~ (m < n)
    BY <1>2, <1>3, Zenon
  <1>5. \A m \in T : m \in Nat /\ n \in Nat
    OBVIOUS
  <1>6. \A m \in T : n <= m
    BY <1>4, <1>5
  <1> QED BY <1>6

(* The provers do not know that a literal is a string.                     *)
Names == STRING \cup {"*", "_tmp_*", "proc", "self", "fd"}

LEMMA StringsAreNames ==
  ASSUME NEW p \in Seq(STRING)
  PROVE  p \in Seq(Names)
  BY DEF Names

LEMMA SliceIs ==
  ASSUME NEW T, NEW p \in Seq(T), NEW m \in 1..(Len(p) + 1), NEW n \in 0..Len(p), m <= n + 1
  PROVE  /\ SubSeq(p, m, n) \in Seq(T)
         /\ Len(SubSeq(p, m, n)) = n - m + 1
         /\ \A i \in 1..(n - m + 1) : SubSeq(p, m, n)[i] = p[m + i - 1]
  <1>1. m \in Int /\ n \in Int /\ \A i \in m..n : p[i] \in T
    OBVIOUS
  <1>2. SubSeq(p, m, n) \in Seq(T)
    BY <1>1, SubSeqProperties
  <1>3. Len(SubSeq(p, m, n)) = n - m + 1
    BY <1>1, SubSeqProperties
  <1>4. \A i \in 1..(n - m + 1) : SubSeq(p, m, n)[i] = p[m + i - 1]
    BY <1>1, SubSeqProperties
  <1> QED BY <1>2, <1>3, <1>4, Zenon

LEMMA FrontIs ==
  ASSUME NEW T, NEW p \in Seq(T), p # << >>
  PROVE  /\ Len(p) \in Nat \ {0}
         /\ Front(p) \in Seq(T) /\ Len(Front(p)) = Len(p) - 1
         /\ \A i \in 1..(Len(p) - 1) : Front(p)[i] = p[i]
         /\ Last(p) = p[Len(p)] /\ Last(p) \in T
  <1>1. Len(p) \in Nat \ {0}
    BY EmptySeq
  <1> DEFINE n == Len(p) - 1
  <1>2. n \in 0..Len(p) /\ 1 <= n + 1 /\ 1 \in 1..(Len(p) + 1)
    BY <1>1
  <1> HIDE DEF n
  <1>3. /\ SubSeq(p, 1, n) \in Seq(T)
        /\ Len(SubSeq(p, 1, n)) = n - 1 + 1
        /\ \A i \in 1..(n - 1 + 1) : SubSeq(p, 1, n)[i] = p[1 + i - 1]
    BY <1>2, SliceIs, Zenon
  <1>4. /\ SubSeq(p, 1, Len(p) - 1) \in Seq(T) /\ Len(SubSeq(p, 1, Len(p) - 1)) = Len(p) - 1
        /\ \A i \in 1..(Len(p) - 1) : SubSeq(p, 1, Len(p) - 1)[i] = p[i]
    BY <1>1, <1>3 DEF n
  <1>5. Last(p) = p[Len(p)] /\ Last(p) \in T
    BY <1>1 DEF Last
  <1> QED BY <1>1, <1>4, <1>5 DEF Front

LEMMA Steps ==
  ASSUME NEW T, NEW n \in Nat, 0 \in T, \A k \in 0..(n - 1) : k \in T => k + 1 \in T
  PROVE  0..n \subseteq T
  <1> DEFINE bad == {k \in 0..n : k \notin T}
  <1>1. ASSUME NEW k \in bad, \A m \in bad : k <= m PROVE FALSE
    <2>1. k \in 0..n /\ k # 0
      OBVIOUS
    <2>2. k - 1 \in 0..(n - 1) /\ k - 1 \notin bad
      BY <1>1, <2>1
    <2>3. (k - 1) + 1 = k
      BY <2>1
    <2> QED BY <2>1, <2>2, <2>3
  <1>2. bad \in SUBSET Nat
    OBVIOUS
  <1>3. bad = {}
    BY <1>1, <1>2, LeastNatural
  <1> QED BY <1>3

(* f lists the values of a run of n steps from b.                          *)
IsRun(f, n, b, step) ==
  f = [k \in 0..n |-> IF k = 0 THEN b ELSE step[k][f[k - 1]]]

LEMMA RunExists ==
  ASSUME NEW V, NEW n \in Nat, NEW b \in V, NEW step, \A k \in 1..n : step[k] \in [V -> V]
  PROVE  \E f \in [0..n -> V] : IsRun(f, n, b, step)
  <1> DEFINE T == {m \in Nat : m <= n => \E f \in [0..m -> V] : IsRun(f, m, b, step)}
  <1>1. 0 \in T
    <2> DEFINE f == [k \in 0..0 |-> b]
    <2>1. f \in [0..0 -> V] /\ IsRun(f, 0, b, step)
      BY DEF IsRun
    <2> QED BY <2>1
  <1>2. ASSUME NEW m \in 0..(n - 1), m \in T PROVE m + 1 \in T
    <2>1. PICK f \in [0..m -> V] : IsRun(f, m, b, step)
      BY <1>2
    <2> DEFINE g == [k \in 0..(m + 1) |-> IF k = m + 1 THEN step[m + 1][f[m]] ELSE f[k]]
    <2>2. \A k \in 0..m : /\ g[k] = f[k] /\ f[k] \in V
                          /\ f[k] = IF k = 0 THEN b ELSE step[k][f[k - 1]]
      <3>1. m + 1 \notin 0..m /\ 0..m \subseteq 0..(m + 1)
        OBVIOUS
      <3>2. \A k \in 0..m : g[k] = f[k] /\ f[k] \in V
        BY <3>1
      <3> HIDE DEF g
      <3>3. \A k \in 0..m : f[k] = IF k = 0 THEN b ELSE step[k][f[k - 1]]
        BY <2>1, Zenon DEF IsRun
      <3> QED BY <3>2, <3>3
    <2>3. g[m + 1] = step[m + 1][f[m]] /\ step[m + 1][f[m]] \in V
      BY <2>2
    <2>4. g \in [0..(m + 1) -> V]
      BY <2>2, <2>3
    <2>5. g = [k \in 0..(m + 1) |-> g[k]]
      OBVIOUS
    <2> HIDE DEF g
    <2>6. \A k \in 0..(m + 1) : g[k] = IF k = 0 THEN b ELSE step[k][g[k - 1]]
      <3>1. g[m] = f[m] /\ m + 1 # 0 /\ (m + 1) - 1 = m
        BY <2>2
      <3>2. ASSUME NEW k \in 0..m PROVE g[k] = IF k = 0 THEN b ELSE step[k][g[k - 1]]
        <4>1. CASE k = 0
          BY <2>2, <4>1
        <4>2. CASE k # 0
          <5>1. k - 1 \in 0..m
            BY <4>2
          <5> QED BY <2>2, <4>2, <5>1
        <4> QED BY <4>1, <4>2
      <3>3. g[m + 1] = IF m + 1 = 0 THEN b ELSE step[m + 1][g[(m + 1) - 1]]
        BY <2>3, <3>1
      <3>4. \A k \in 0..(m + 1) : k \in 0..m \/ k = m + 1
        OBVIOUS
      <3> QED BY <3>2, <3>3, <3>4, Zenon
    <2>7. IsRun(g, m + 1, b, step)
      BY <2>5, <2>6 DEF IsRun
    <2> QED BY <2>4, <2>7
  <1> HIDE DEF T
  <1>3. 0..n \subseteq T
    BY <1>1, <1>2, Steps
  <1>4. n \in T
    BY <1>3
  <1> QED BY <1>4 DEF T

-----------------------------------------------------------------------------
(* The filter program and its machine.                                     *)

HasLength(s, n) == s = [i \in 1..n |-> s[i]]

(* The entries of two programs in a row.                                   *)
InOrder(u, s, m, t, n) ==
  /\ HasLength(u, m + n)
  /\ \A i \in 1..m : u[i] = s[i]
  /\ \A i \in 1..n : u[m + i] = t[i]

LEMMA InARow ==
  ASSUME NEW m \in Nat, NEW n \in Nat, NEW s, NEW t, HasLength(s, m), HasLength(t, n)
  PROVE  InOrder(s \o t, s, m, t, n)
  <1> DEFINE T == {s[i] : i \in 1..m} \cup {t[i] : i \in 1..n}
             u == s \o t
  <1>1. s \in [1..m -> T] /\ t \in [1..n -> T]
    BY DEF HasLength
  <1> HIDE DEF T
  <1>2. s \in Seq(T) /\ Len(s) = m /\ t \in Seq(T) /\ Len(t) = n
    BY <1>1
  <1>3. /\ u \in Seq(T) /\ Len(u) = m + n
        /\ \A i \in 1..(m + n) : u[i] = IF i <= m THEN s[i] ELSE t[i - m]
    BY <1>2, ConcatProperties
  <1> HIDE DEF u
  <1>4. u = [i \in 1..(m + n) |-> u[i]]
    BY <1>3
  <1>5. \A i \in 1..m : u[i] = s[i]
    BY <1>3
  <1>6. ASSUME NEW i \in 1..n PROVE u[m + i] = t[i]
    <2>1. m + i \in 1..(m + n) /\ ~ (m + i <= m) /\ (m + i) - m = i
      OBVIOUS
    <2> QED BY <1>3, <2>1
  <1> QED BY <1>4, <1>5, <1>6 DEF u, HasLength, InOrder

IsBlock(b, calls, n, what) ==
  /\ HasLength(b, 2 * n)
  /\ \A i \in 1..n : /\ b[2 * i - 1] = Jump("jeq", Nr(calls[i]), 0, 1)
                     /\ b[2 * i] = Ret(what)

LEMMA BlockIs ==
  ASSUME NEW n \in Nat, NEW calls, Len(calls) = n, NEW what
  PROVE  IsBlock(Block(calls, what), calls, n, what)
  <1>1. HasLength(Block(calls, what), 2 * n)
    BY DEF Block, HasLength
  <1>2. ASSUME NEW i \in 1..n
        PROVE /\ Block(calls, what)[2 * i - 1] = Jump("jeq", Nr(calls[i]), 0, 1)
              /\ Block(calls, what)[2 * i] = Ret(what)
    <2>1. 2 * i - 1 \in 1..(2 * n) /\ (2 * i - 1) % 2 = 1 /\ ((2 * i - 1) + 1) \div 2 = i
      OBVIOUS
    <2>2. 2 * i \in 1..(2 * n) /\ (2 * i) % 2 # 1
      OBVIOUS
    <2>3. Block(calls, what)[2 * i - 1] = Jump("jeq", Nr(calls[i]), 0, 1)
      BY <2>1 DEF Block
    <2>4. Block(calls, what)[2 * i] = Ret(what)
      BY <2>2 DEF Block
    <2> QED BY <2>3, <2>4
  <1> QED BY <1>1, <1>2 DEF IsBlock

(* BuildFilter, by address.                                                *)
ProgramIs(f) ==
  /\ Len(f) = 45
  /\ f[1] = Load("arch") /\ f[2] = Jump("jeq", "x86_64", 0, 42)
  /\ f[3] = Load("nr") /\ f[4] = Jump("jset", "x32", 40, 0)
  /\ \A i \in 1..19 :
       /\ f[2 * i + 3] = Jump("jeq", Nr(InterceptedSyscalls[i]), 0, 1)
       /\ f[2 * i + 4] = Ret("USER_NOTIF")
  /\ f[43] = Jump("jeq", Nr("io_uring_setup"), 0, 1) /\ f[44] = Ret("ENOSYS")
  /\ f[45] = Ret("ALLOW")

LEMMA Program == ProgramIs(BuildFilter)
  <1> DEFINE pre == <<Load("arch"), Jump("jeq", "x86_64", 0, 42), Load("nr"),
                      Jump("jset", "x32", 40, 0)>>
             b == Block(InterceptedSyscalls, "USER_NOTIF")
             d == Block(DeniedSyscalls, "ENOSYS")
             e == <<Ret("ALLOW")>>
             u == pre \o b
             v == u \o d
             f == v \o e
  <1>1. Len(InterceptedSyscalls) = 19 /\ Len(DeniedSyscalls) = 1
    BY DEF InterceptedSyscalls, DeniedSyscalls
  <1>2. BuildFilter = f
    <2>1. uint8(1 + 1 + (2 * 19 + 2 * 1)) = 42 /\ uint8(2 * 19 + 2 * 1) = 40
      BY DEF uint8
    <2> QED BY <1>1, <2>1 DEF BuildFilter
  <1>3. /\ HasLength(b, 38)
        /\ \A i \in 1..19 : /\ b[2 * i - 1] = Jump("jeq", Nr(InterceptedSyscalls[i]), 0, 1)
                            /\ b[2 * i] = Ret("USER_NOTIF")
    <2>1. 19 \in Nat
      OBVIOUS
    <2>2. IsBlock(b, InterceptedSyscalls, 19, "USER_NOTIF")
      BY <1>1, <2>1, BlockIs
    <2> HIDE DEF b
    <2> QED BY <2>2 DEF IsBlock
  <1>4. /\ HasLength(d, 2)
        /\ d[1] = Jump("jeq", Nr("io_uring_setup"), 0, 1) /\ d[2] = Ret("ENOSYS")
    <2>0. 1 \in Nat
      OBVIOUS
    <2>1. IsBlock(d, DeniedSyscalls, 1, "ENOSYS")
      BY <1>1, <2>0, BlockIs
    <2>2. DeniedSyscalls[1] = "io_uring_setup"
      BY DEF DeniedSyscalls
    <2> HIDE DEF d
    <2> QED BY <2>1, <2>2 DEF IsBlock
  <1>5. /\ HasLength(pre, 4) /\ HasLength(e, 1) /\ e[1] = Ret("ALLOW")
        /\ pre[1] = Load("arch") /\ pre[2] = Jump("jeq", "x86_64", 0, 42)
        /\ pre[3] = Load("nr") /\ pre[4] = Jump("jset", "x32", 40, 0)
    BY DEF HasLength
  <1> HIDE DEF pre, b, d, e
  <1>6. /\ HasLength(u, 42)
        /\ \A i \in 1..4 : u[i] = pre[i]
        /\ \A i \in 1..38 : u[4 + i] = b[i]
    <2>1. InOrder(u, pre, 4, b, 38)
      BY <1>3, <1>5, InARow
    <2> HIDE DEF u
    <2> QED BY <2>1 DEF InOrder
  <1> HIDE DEF u
  <1>7. /\ HasLength(v, 44)
        /\ \A i \in 1..42 : v[i] = u[i]
        /\ \A i \in 1..2 : v[42 + i] = d[i]
    <2>1. InOrder(v, u, 42, d, 2)
      BY <1>4, <1>6, InARow
    <2> HIDE DEF v
    <2> QED BY <2>1 DEF InOrder
  <1> HIDE DEF v
  <1>8. /\ HasLength(f, 45)
        /\ \A i \in 1..44 : f[i] = v[i]
        /\ \A i \in 1..1 : f[44 + i] = e[i]
    <2>1. InOrder(f, v, 44, e, 1)
      BY <1>5, <1>7, InARow
    <2> HIDE DEF f
    <2> QED BY <2>1 DEF InOrder
  <1> HIDE DEF f
  <1>9. Len(f) = 45
    BY <1>8 DEF HasLength
  <1>10. /\ f[1] = Load("arch") /\ f[2] = Jump("jeq", "x86_64", 0, 42)
         /\ f[3] = Load("nr") /\ f[4] = Jump("jset", "x32", 40, 0)
    BY <1>5, <1>6, <1>7, <1>8
  <1>11. ASSUME NEW i \in 1..19
         PROVE /\ f[2 * i + 3] = Jump("jeq", Nr(InterceptedSyscalls[i]), 0, 1)
               /\ f[2 * i + 4] = Ret("USER_NOTIF")
    <2>1. /\ 2 * i - 1 \in 1..38 /\ 2 * i \in 1..38 /\ 4 + (2 * i - 1) = 2 * i + 3
          /\ 4 + 2 * i = 2 * i + 4 /\ 2 * i + 3 \in 1..42 /\ 2 * i + 4 \in 1..42
          /\ 2 * i + 3 \in 1..44 /\ 2 * i + 4 \in 1..44
      OBVIOUS
    <2>2. f[2 * i + 3] = b[2 * i - 1]
      BY <1>6, <1>7, <1>8, <2>1
    <2>3. f[2 * i + 4] = b[2 * i]
      BY <1>6, <1>7, <1>8, <2>1
    <2> QED BY <1>3, <2>2, <2>3
  <1>12. f[43] = d[1] /\ f[44] = d[2] /\ f[45] = e[1]
    BY <1>7, <1>8
  <1> QED BY <1>2, <1>4, <1>5, <1>9, <1>10, <1>11, <1>12 DEF ProgramIs

Machine(pc, acc, result) == [pc |-> pc, acc |-> acc, result |-> result]

LEMMA CycleRet ==
  ASSUME NEW data, NEW pc, NEW acc, NEW what, BuildFilter[pc] = Ret(what)
  PROVE  Cycle(Machine(pc, acc, "none"), data) = Machine(pc, acc, what)
  BY DEF Cycle, Machine, Ret

LEMMA CycleDone ==
  ASSUME NEW data, NEW pc, NEW acc, NEW what, what # "none"
  PROVE  Cycle(Machine(pc, acc, what), data) = Machine(pc, acc, what)
  BY DEF Cycle, Machine

LEMMA CycleLoad ==
  ASSUME NEW data, NEW pc, NEW acc, NEW what, BuildFilter[pc] = Load(what)
  PROVE  Cycle(Machine(pc, acc, "none"), data) = Machine(pc + 1, data[what], "none")
  <1> DEFINE m == Machine(pc, acc, "none")
             i == Load(what)
  <1>1. m.pc = pc /\ m.result = "none" /\ i.op = "ld" /\ i.k = what
    BY DEF Machine, Load
  <1>2. [m EXCEPT !.pc = m.pc + 1, !.acc = data[what]] = Machine(m.pc + 1, data[what], "none")
    <2> DEFINE y == m.pc + 1
               x == data[what]
    <2> HIDE DEF y, x
    <2>1. [m EXCEPT !.pc = y, !.acc = x] = Machine(y, x, "none")
      <3>1. [m EXCEPT !.pc = y, !.acc = x] = [[m EXCEPT !.pc = y] EXCEPT !.acc = x]
        BY Zenon
      <3>2. [m EXCEPT !.pc = y] = Machine(y, acc, "none")
        BY DEF Machine
      <3>3. [Machine(y, acc, "none") EXCEPT !.acc = x] = Machine(y, x, "none")
        BY DEF Machine
      <3> QED BY <3>1, <3>2, <3>3, Zenon
    <2> QED BY <2>1 DEF y, x
  <1> HIDE DEF m, i
  <1>3. BuildFilter[m.pc] = i
    BY <1>1 DEF i
  <1>4. Cycle(m, data) = [m EXCEPT !.pc = m.pc + 1, !.acc = data[what]]
    BY <1>1, <1>3 DEF Cycle
  <1> QED BY <1>1, <1>2, <1>4 DEF m

LEMMA CycleEqual ==
  ASSUME NEW data, NEW pc, NEW acc, NEW k, NEW jt, NEW jf,
         BuildFilter[pc] = Jump("jeq", k, jt, jf)
  PROVE  Cycle(Machine(pc, acc, "none"), data)
           = Machine(pc + 1 + (IF acc = k THEN jt ELSE jf), acc, "none")
  BY DEF Cycle, Machine, Jump

LEMMA CycleBit ==
  ASSUME NEW data, NEW pc, NEW acc, NEW k, NEW jt, NEW jf,
         BuildFilter[pc] = Jump("jset", k, jt, jf)
  PROVE  Cycle(Machine(pc, acc, "none"), data)
           = Machine(pc + 1 + (IF acc.x32 THEN jt ELSE jf), acc, "none")
  BY DEF Cycle, Machine, Jump

(* f is the run of the machine on data.                                    *)
IsFilterRun(f, data, n) ==
  f = [k \in 0..n |-> IF k = 0 THEN [pc |-> 1, acc |-> Nr("none"), result |-> "none"]
                      ELSE Cycle(f[k - 1], data)]

LEMMA FilterRun ==
  ASSUME NEW data
  PROVE  \E f : /\ f[0] = Machine(1, Nr("none"), "none")
                /\ \A k \in 0..44 : f[k + 1] = Cycle(f[k], data)
                /\ FilterVerdict(data) = f[45].result
  <1> DEFINE start == [pc |-> 1, acc |-> Nr("none"), result |-> "none"]
             T == {m \in Nat : \E f : IsFilterRun(f, data, m)}
  <1>1. 0 \in T
    <2> DEFINE f == [k \in 0..0 |-> start]
    <2>1. IsFilterRun(f, data, 0)
      BY DEF IsFilterRun
    <2> QED BY <2>1
  <1>2. ASSUME NEW m \in 0..44, m \in T PROVE m + 1 \in T
    <2>1. PICK f : IsFilterRun(f, data, m)
      BY <1>2
    <2> DEFINE g == [k \in 0..(m + 1) |-> IF k = m + 1 THEN Cycle(f[m], data) ELSE f[k]]
    <2>2. \A k \in 0..m : g[k] = f[k]
      <3>1. m + 1 \notin 0..m /\ 0..m \subseteq 0..(m + 1)
        OBVIOUS
      <3> QED BY <3>1
    <2>3. g[m + 1] = Cycle(f[m], data) /\ g = [k \in 0..(m + 1) |-> g[k]]
      OBVIOUS
    <2> HIDE DEF g
    <2>4. \A k \in 0..m : f[k] = IF k = 0 THEN start ELSE Cycle(f[k - 1], data)
      BY <2>1, Zenon DEF IsFilterRun
    <2> HIDE DEF start
    <2>5. ASSUME NEW k \in 0..(m + 1)
          PROVE  g[k] = IF k = 0 THEN start ELSE Cycle(g[k - 1], data)
      <3>1. CASE k = m + 1
        <4>1. k - 1 = m /\ k # 0 /\ m \in 0..m
          BY <3>1
        <4> QED BY <2>2, <2>3, <3>1, <4>1
      <3>2. CASE k # m + 1
        <4>1. k \in 0..m
          BY <3>2
        <4>2. k # 0 => k - 1 \in 0..m
          BY <4>1
        <4> QED BY <2>2, <2>4, <4>1, <4>2
      <3> QED BY <3>1, <3>2
    <2>6. IsFilterRun(g, data, m + 1)
      BY <2>3, <2>5 DEF IsFilterRun, start
    <2> QED BY <2>6
  <1> HIDE DEF T
  <1>3. 45 \in T
    <2>1. 45 \in Nat /\ \A k \in 0..(45 - 1) : k \in 0..44
      OBVIOUS
    <2>2. 0..45 \subseteq T
      BY <1>1, <1>2, <2>1, Steps
    <2> QED BY <2>2
  <1> DEFINE h == CHOOSE f : IsFilterRun(f, data, 45)
  <1>4. IsFilterRun(h, data, 45)
    BY <1>3 DEF T
  <1>5. FilterVerdict(data) = h[45].result
    <2>1. Len(BuildFilter) = 45
      BY Program DEF ProgramIs
    <2> QED BY <2>1, Zenon DEF FilterVerdict, IsFilterRun
  <1> HIDE DEF h
  <1>6. h[0] = Machine(1, Nr("none"), "none")
    BY <1>4 DEF IsFilterRun, Machine
  <1>7. ASSUME NEW k \in 0..44 PROVE h[k + 1] = Cycle(h[k], data)
    <2>1. k + 1 \in 0..45 /\ k + 1 # 0 /\ (k + 1) - 1 = k
      OBVIOUS
    <2> QED BY <1>4, <2>1 DEF IsFilterRun
  <1> QED BY <1>5, <1>6, <1>7

(* A result is final.                                                      *)
LEMMA ResultStays ==
  ASSUME NEW data, NEW f, \A k \in 0..44 : f[k + 1] = Cycle(f[k], data),
         NEW n \in 0..45, NEW pc, NEW acc, NEW what, what # "none", f[n] = Machine(pc, acc, what)
  PROVE  f[45].result = what
  <1> DEFINE T == {j \in Nat : n + j <= 45 => f[n + j] = Machine(pc, acc, what)}
  <1>1. 0 \in T
    <2>1. n + 0 = n
      OBVIOUS
    <2> QED BY <2>1
  <1>2. ASSUME NEW j \in 0..((45 - n) - 1), j \in T PROVE j + 1 \in T
    <2>1. n + j \in 0..44 /\ n + (j + 1) = (n + j) + 1 /\ n + j <= 45 /\ j + 1 \in Nat
      OBVIOUS
    <2>2. f[n + j] = Machine(pc, acc, what)
      BY <1>2, <2>1
    <2>3. f[n + (j + 1)] = Machine(pc, acc, what)
      BY <2>1, <2>2, CycleDone
    <2> QED BY <2>1, <2>3
  <1> HIDE DEF T
  <1>3. 45 - n \in Nat /\ n + (45 - n) = 45 /\ 45 - n \in 0..(45 - n)
    OBVIOUS
  <1>4. 0..(45 - n) \subseteq T
    BY <1>1, <1>2, <1>3, Steps
  <1>5. f[45] = Machine(pc, acc, what)
    BY <1>3, <1>4 DEF T
  <1> QED BY <1>5 DEF Machine

(* What the program says of a native number: the first of the 20 names it  *)
(* is compared with decides.                                               *)
Compared(i) == IF i <= 19 THEN InterceptedSyscalls[i] ELSE "io_uring_setup"

Returned(i) == IF i <= 19 THEN "USER_NOTIF" ELSE "ENOSYS"

LEMMA Pairs ==
  ASSUME NEW i \in 1..20
  PROVE  /\ BuildFilter[2 * i + 3] = Jump("jeq", Nr(Compared(i)), 0, 1)
         /\ BuildFilter[2 * i + 4] = Ret(Returned(i))
  <1>1. CASE i \in 1..19
    BY <1>1, Program DEF ProgramIs, Compared, Returned
  <1>2. CASE i = 20
    <2>1. 2 * i + 3 = 43 /\ 2 * i + 4 = 44 /\ ~ (i <= 19)
      BY <1>2
    <2> QED BY <2>1, Program DEF ProgramIs, Compared, Returned
  <1> QED BY <1>1, <1>2

Syscall(arch, call, x32) == [arch |-> arch, nr |-> [call |-> call, x32 |-> x32]]

LEMMA ForeignPasses ==
  ASSUME NEW arch, NEW call, NEW x32 \in BOOLEAN, arch # "x86_64" \/ x32 = TRUE
  PROVE  FilterVerdict(Syscall(arch, call, x32)) = "ALLOW"
  <1> DEFINE data == Syscall(arch, call, x32)
  <1>1. PICK f : /\ f[0] = Machine(1, Nr("none"), "none")
                 /\ \A k \in 0..44 : f[k + 1] = Cycle(f[k], data)
                 /\ FilterVerdict(data) = f[45].result
    BY FilterRun
  <1>2. data["arch"] = arch /\ data["nr"] = [call |-> call, x32 |-> x32] /\ data["nr"].x32 = x32
    BY DEF Syscall
  <1> HIDE DEF data
  <1>3. ProgramIs(BuildFilter)
    BY Program
  <1>4. f[1] = Machine(2, arch, "none")
    <2>1. f[1] = Cycle(f[0], data) /\ BuildFilter[1] = Load("arch") /\ 1 + 1 = 2
      BY <1>1, <1>3 DEF ProgramIs
    <2>2. Cycle(Machine(1, Nr("none"), "none"), data) = Machine(1 + 1, data["arch"], "none")
      BY <2>1, CycleLoad
    <2> QED BY <1>1, <1>2, <2>1, <2>2
  <1>5. f[2] = Machine(2 + 1 + (IF arch = "x86_64" THEN 0 ELSE 42), arch, "none")
    <2>1. f[2] = Cycle(f[1], data) /\ BuildFilter[2] = Jump("jeq", "x86_64", 0, 42)
      BY <1>1, <1>3 DEF ProgramIs
    <2> QED BY <1>4, <2>1, CycleEqual
  <1>6. BuildFilter[45] = Ret("ALLOW")
    BY <1>3 DEF ProgramIs
  <1>7. CASE arch # "x86_64"
    <2>1. f[2] = Machine(45, arch, "none")
      BY <1>5, <1>7
    <2>2. f[3] = Machine(45, arch, "ALLOW")
      <3>1. f[3] = Cycle(f[2], data)
        BY <1>1
      <3> QED BY <1>6, <2>1, <3>1, CycleRet
    <2>3. f[45].result = "ALLOW"
      BY <1>1, <2>2, ResultStays
    <2> QED BY <1>1, <2>3 DEF data
  <1>8. CASE arch = "x86_64" /\ x32 = TRUE
    <2>1. f[2] = Machine(3, arch, "none")
      BY <1>5, <1>8
    <2>2. f[3] = Machine(4, data["nr"], "none")
      <3>1. f[3] = Cycle(f[2], data) /\ BuildFilter[3] = Load("nr") /\ 3 + 1 = 4
        BY <1>1, <1>3 DEF ProgramIs
      <3>2. Cycle(Machine(3, arch, "none"), data) = Machine(3 + 1, data["nr"], "none")
        BY <3>1, CycleLoad
      <3> QED BY <2>1, <3>1, <3>2
    <2>3. f[4] = Machine(4 + 1 + (IF data["nr"].x32 THEN 40 ELSE 0), data["nr"], "none")
      <3>1. f[4] = Cycle(f[3], data) /\ BuildFilter[4] = Jump("jset", "x32", 40, 0)
        BY <1>1, <1>3 DEF ProgramIs
      <3> QED BY <2>2, <3>1, CycleBit
    <2>4. f[4] = Machine(45, data["nr"], "none")
      BY <1>2, <1>8, <2>3
    <2>5. f[5] = Machine(45, data["nr"], "ALLOW")
      <3>1. f[5] = Cycle(f[4], data)
        BY <1>1
      <3> QED BY <1>6, <2>4, <3>1, CycleRet
    <2>6. f[45].result = "ALLOW"
      BY <1>1, <2>5, ResultStays
    <2> QED BY <1>1, <2>6 DEF data
  <1> QED BY <1>7, <1>8

(* After j misses the machine is at the next comparison.                   *)
LEMMA NativeRun ==
  ASSUME NEW call, NEW n \in 0..20, \A i \in 1..n : Compared(i) # call
  PROVE  \E f : /\ \A k \in 0..44 : f[k + 1] = Cycle(f[k], Syscall("x86_64", call, FALSE))
                /\ FilterVerdict(Syscall("x86_64", call, FALSE)) = f[45].result
                /\ f[4 + n] = Machine(2 * n + 5, Nr(call), "none")
  <1> DEFINE data == Syscall("x86_64", call, FALSE)
  <1>1. PICK f : /\ f[0] = Machine(1, Nr("none"), "none")
                 /\ \A k \in 0..44 : f[k + 1] = Cycle(f[k], data)
                 /\ FilterVerdict(data) = f[45].result
    BY FilterRun
  <1>2. data["arch"] = "x86_64" /\ data["nr"] = Nr(call) /\ Nr(call).x32 = FALSE
    BY DEF Syscall, Nr
  <1> HIDE DEF data
  <1>3. ProgramIs(BuildFilter)
    BY Program
  <1>4. f[1] = Machine(2, "x86_64", "none")
    <2>1. f[1] = Cycle(f[0], data) /\ BuildFilter[1] = Load("arch") /\ 1 + 1 = 2
      BY <1>1, <1>3 DEF ProgramIs
    <2>2. Cycle(Machine(1, Nr("none"), "none"), data) = Machine(1 + 1, data["arch"], "none")
      BY <2>1, CycleLoad
    <2> QED BY <1>1, <1>2, <2>1, <2>2
  <1>5. f[2] = Machine(3, "x86_64", "none")
    <2>1. f[2] = Cycle(f[1], data) /\ BuildFilter[2] = Jump("jeq", "x86_64", 0, 42)
      BY <1>1, <1>3 DEF ProgramIs
    <2>2. f[2] = Machine(2 + 1 + (IF "x86_64" = "x86_64" THEN 0 ELSE 42), "x86_64", "none")
      BY <1>4, <2>1, CycleEqual
    <2> QED BY <2>2
  <1>6. f[3] = Machine(4, Nr(call), "none")
    <2>1. f[3] = Cycle(f[2], data) /\ BuildFilter[3] = Load("nr") /\ 3 + 1 = 4
      BY <1>1, <1>3 DEF ProgramIs
    <2>2. Cycle(Machine(3, "x86_64", "none"), data) = Machine(3 + 1, data["nr"], "none")
      BY <2>1, CycleLoad
    <2> QED BY <1>2, <1>5, <2>1, <2>2
  <1>7. f[4] = Machine(5, Nr(call), "none")
    <2>1. f[4] = Cycle(f[3], data) /\ BuildFilter[4] = Jump("jset", "x32", 40, 0)
      BY <1>1, <1>3 DEF ProgramIs
    <2>2. f[4] = Machine(4 + 1 + (IF Nr(call).x32 THEN 40 ELSE 0), Nr(call), "none")
      BY <1>6, <2>1, CycleBit
    <2> QED BY <1>2, <2>2
  <1> DEFINE T == {j \in Nat : j <= n => f[4 + j] = Machine(2 * j + 5, Nr(call), "none")}
  <1>8. 0 \in T
    <2>1. 4 + 0 = 4 /\ 2 * 0 + 5 = 5
      OBVIOUS
    <2> QED BY <1>7, <2>1
  <1>9. ASSUME NEW j \in 0..(n - 1), j \in T PROVE j + 1 \in T
    <2> DEFINE i == j + 1
    <2>1. /\ i \in 1..n /\ i \in 1..20 /\ i \in Nat /\ 4 + j \in 0..44 /\ 4 + i = (4 + j) + 1
          /\ 2 * i + 3 = 2 * j + 5 /\ (2 * i + 3) + 1 + 1 = 2 * i + 5 /\ j <= n
      OBVIOUS
    <2> HIDE DEF i
    <2>2. f[4 + j] = Machine(2 * i + 3, Nr(call), "none")
      BY <1>9, <2>1
    <2>3. BuildFilter[2 * i + 3] = Jump("jeq", Nr(Compared(i)), 0, 1)
      BY <2>1, Pairs
    <2>4. Nr(call) # Nr(Compared(i))
      BY <2>1 DEF Nr
    <2>5. f[4 + i] = Machine((2 * i + 3) + 1 + (IF Nr(call) = Nr(Compared(i)) THEN 0 ELSE 1),
                        Nr(call), "none")
      BY <1>1, <2>1, <2>2, <2>3, CycleEqual
    <2>6. f[4 + i] = Machine(2 * i + 5, Nr(call), "none")
      BY <2>1, <2>4, <2>5
    <2> QED BY <2>1, <2>6 DEF i
  <1> HIDE DEF T
  <1>10. n \in T
    <2>1. n \in Nat /\ n \in 0..n
      OBVIOUS
    <2>2. 0..n \subseteq T
      BY <1>8, <1>9, <2>1, Steps
    <2> QED BY <2>1, <2>2
  <1>11. f[4 + n] = Machine(2 * n + 5, Nr(call), "none")
    BY <1>10 DEF T
  <1> QED BY <1>1, <1>11 DEF data

LEMMA UnlistedPasses ==
  ASSUME NEW call, \A i \in 1..20 : Compared(i) # call
  PROVE  FilterVerdict(Syscall("x86_64", call, FALSE)) = "ALLOW"
  <1> DEFINE data == Syscall("x86_64", call, FALSE)
  <1>0. 20 \in 0..20
    OBVIOUS
  <1>1. PICK f : /\ \A k \in 0..44 : f[k + 1] = Cycle(f[k], data)
                 /\ FilterVerdict(data) = f[45].result
                 /\ f[4 + 20] = Machine(2 * 20 + 5, Nr(call), "none")
    BY <1>0, NativeRun
  <1> HIDE DEF data
  <1>2. f[24] = Machine(45, Nr(call), "none") /\ f[25] = Cycle(f[24], data)
    BY <1>1
  <1>3. BuildFilter[45] = Ret("ALLOW")
    BY Program DEF ProgramIs
  <1>4. f[25] = Machine(45, Nr(call), "ALLOW")
    BY <1>2, <1>3, CycleRet
  <1>5. f[45].result = "ALLOW"
    BY <1>1, <1>4, ResultStays
  <1> QED BY <1>1, <1>5 DEF data

LEMMA ListedReturns ==
  ASSUME NEW call, NEW i \in 1..20, Compared(i) = call, \A j \in 1..(i - 1) : Compared(j) # call
  PROVE  FilterVerdict(Syscall("x86_64", call, FALSE)) = Returned(i)
  <1> DEFINE data == Syscall("x86_64", call, FALSE)
             n == i - 1
  <1>0. n \in 0..20 /\ \A j \in 1..n : Compared(j) # call
    OBVIOUS
  <1> HIDE DEF n
  <1>1. PICK f : /\ \A k \in 0..44 : f[k + 1] = Cycle(f[k], data)
                 /\ FilterVerdict(data) = f[45].result
                 /\ f[4 + n] = Machine(2 * n + 5, Nr(call), "none")
    BY <1>0, NativeRun
  <1> HIDE DEF data
  <1>2. /\ 4 + n = i + 3 /\ 2 * n + 5 = 2 * i + 3 /\ i + 3 \in 0..44 /\ (i + 3) + 1 = i + 4
        /\ i + 4 \in 0..44 /\ (i + 4) + 1 = i + 5 /\ i + 5 \in 0..45
        /\ (2 * i + 3) + 1 + 0 = 2 * i + 4
    BY DEF n
  <1>3. f[i + 3] = Machine(2 * i + 3, Nr(call), "none")
    BY <1>1, <1>2
  <1>4. f[i + 4] = Machine((2 * i + 3) + 1 + (IF Nr(call) = Nr(Compared(i)) THEN 0 ELSE 1),
                      Nr(call), "none")
    BY <1>1, <1>2, <1>3, Pairs, CycleEqual
  <1>5. f[i + 4] = Machine(2 * i + 4, Nr(call), "none")
    BY <1>2, <1>4
  <1>6. f[i + 5] = Machine(2 * i + 4, Nr(call), Returned(i))
    BY <1>1, <1>2, <1>5, Pairs, CycleRet
  <1>7. Returned(i) # "none"
    BY DEF Returned
  <1>8. f[45].result = Returned(i)
    BY <1>1, <1>2, <1>6, <1>7, ResultStays
  <1> QED BY <1>1, <1>8 DEF data

(* The list of BuildFilter and the cases of Decode agree.                  *)
LEMMA ListsAgree ==
  ASSUME NEW call
  PROVE  (\E i \in 1..19 : InterceptedSyscalls[i] = call) <=> call \in PathCalls \cup {"connect"}
  <1> DEFINE L == InterceptedSyscalls
  <1>1. /\ L[1] = "open" /\ L[2] = "openat" /\ L[3] = "openat2" /\ L[4] = "unlink"
        /\ L[5] = "unlinkat" /\ L[6] = "rmdir" /\ L[7] = "rename" /\ L[8] = "renameat"
        /\ L[9] = "renameat2" /\ L[10] = "truncate" /\ L[11] = "mkdir" /\ L[12] = "mkdirat"
        /\ L[13] = "chmod" /\ L[14] = "fchmodat" /\ L[15] = "chown" /\ L[16] = "fchownat"
        /\ L[17] = "execve" /\ L[18] = "execveat" /\ L[19] = "connect"
    BY DEF InterceptedSyscalls
  <1> HIDE DEF L
  <1>2. ASSUME NEW i \in 1..19 PROVE L[i] \in PathCalls \cup {"connect"}
    <2>1. i \in {1, 2, 3, 4, 5, 6, 7, 8, 9, 10, 11, 12, 13, 14, 15, 16, 17, 18, 19}
      OBVIOUS
    <2> QED BY <1>1, <2>1
            DEF PathCalls, OpenCalls, DeleteCalls, WriteCalls, MetadataCalls, ExecCalls
  <1>3. ASSUME call \in PathCalls \cup {"connect"} PROVE \E i \in 1..19 : L[i] = call
    <2>1. \A i \in {1, 2, 3, 4, 5, 6, 7, 8, 9, 10, 11, 12, 13, 14, 15, 16, 17, 18, 19} : i \in 1..19
      OBVIOUS
    <2> QED BY <1>1, <1>3, <2>1
            DEF PathCalls, OpenCalls, DeleteCalls, WriteCalls, MetadataCalls, ExecCalls
  <1> QED BY <1>2, <1>3 DEF L

LEMMA NativeVerdict ==
  ASSUME NEW call
  PROVE  LET verdict == FilterVerdict(Syscall("x86_64", call, FALSE))
         IN  /\ verdict = "USER_NOTIF" <=> call \in PathCalls \cup {"connect"}
             /\ verdict = "ENOSYS" <=> call = "io_uring_setup"
  <1> DEFINE verdict == FilterVerdict(Syscall("x86_64", call, FALSE))
             hits == {i \in 1..20 : Compared(i) = call}
  <1>1. "io_uring_setup" \notin PathCalls \cup {"connect"}
    BY DEF PathCalls, OpenCalls, DeleteCalls, WriteCalls, MetadataCalls, ExecCalls
  <1>2. \A i \in 1..20 : /\ i <= 19 => i \in 1..19 /\ Compared(i) = InterceptedSyscalls[i]
                                       /\ Returned(i) = "USER_NOTIF"
                         /\ ~ (i <= 19) => Compared(i) = "io_uring_setup" /\ Returned(i) = "ENOSYS"
    BY DEF Compared, Returned
  <1>3. CASE hits = {}
    <2>1. verdict = "ALLOW"
      BY <1>3, UnlistedPasses
    <2>2. call # "io_uring_setup"
      <3>1. 20 \in 1..20 /\ ~ (20 <= 19)
        OBVIOUS
      <3> QED BY <1>2, <1>3, <3>1
    <2>3. call \notin PathCalls \cup {"connect"}
      <3>1. \A i \in 1..19 : i \in 1..20 /\ i <= 19
        OBVIOUS
      <3> QED BY <1>2, <1>3, <3>1, ListsAgree
    <2> QED BY <2>1, <2>2, <2>3
  <1>4. CASE hits # {}
    <2>1. hits \in SUBSET Nat
      OBVIOUS
    <2>2. PICK i \in hits : \A j \in hits : i <= j
      BY <1>4, <2>1, LeastNatural
    <2>3. i \in 1..20 /\ Compared(i) = call
      OBVIOUS
    <2>4. ASSUME NEW j \in 1..(i - 1) PROVE Compared(j) # call
      <3>1. j \in 1..20 /\ ~ (i <= j)
        BY <2>3
      <3> QED BY <2>2, <3>1
    <2>5. verdict = Returned(i)
      BY <2>3, <2>4, ListedReturns
    <2> HIDE DEF verdict, hits
    <2>6. CASE i <= 19
      <3>1. verdict = "USER_NOTIF" /\ call \in PathCalls \cup {"connect"}
        BY <1>2, <2>3, <2>5, <2>6, ListsAgree
      <3> QED BY <1>1, <3>1 DEF verdict
    <2>7. CASE ~ (i <= 19)
      <3>1. verdict = "ENOSYS" /\ call = "io_uring_setup"
        BY <1>2, <2>3, <2>5, <2>7
      <3> QED BY <1>1, <3>1 DEF verdict
    <2> QED BY <2>6, <2>7
  <1> QED BY <1>3, <1>4

-----------------------------------------------------------------------------
(* filepath.Clean.                                                         *)

IsClean(f, p) == f = [k \in 0..Len(p) |-> IF k = 0 THEN << >> ELSE CleanStep(f[k - 1], p[k])]

LEMMA ParentIs ==
  ASSUME NEW T, NEW d \in Seq(T)
  PROVE  Parent(d) \in Seq(T)
  BY FrontIs DEF Parent

LEMMA CleanStepIs ==
  ASSUME NEW T, NEW d \in Seq(T), NEW c \in T
  PROVE  CleanStep(d, c) \in Seq(T)
  BY ParentIs, AppendProperties DEF CleanStep

LEMMA CleanIs ==
  ASSUME NEW T, NEW p \in Seq(T)
  PROVE  \E f \in [0..Len(p) -> Seq(T)] : IsClean(f, p) /\ Clean(p) = f[Len(p)]
  <1> DEFINE V == Seq(T)
             step == [k \in 1..Len(p) |-> [v \in V |-> CleanStep(v, p[k])]]
  <1>1. Len(p) \in Nat /\ << >> \in V /\ \A k \in 1..Len(p) : p[k] \in T
    OBVIOUS
  <1>2. \A k \in 1..Len(p) : step[k] \in [V -> V]
    BY <1>1, CleanStepIs
  <1>3. \A k \in 1..Len(p) : \A v \in V : step[k][v] = CleanStep(v, p[k])
    OBVIOUS
  <1> HIDE DEF step, V
  <1>4. PICK f \in [0..Len(p) -> V] : IsRun(f, Len(p), << >>, step)
    BY <1>1, <1>2, RunExists
  <1>5. IsClean(f, p)
    <2>1. ASSUME NEW k \in 0..Len(p), k # 0 PROVE step[k][f[k - 1]] = CleanStep(f[k - 1], p[k])
      <3>1. k - 1 \in 0..Len(p) /\ k \in 1..Len(p)
        BY <1>1, <2>1
      <3>2. f[k - 1] \in V
        BY <1>4, <3>1
      <3> QED BY <1>3, <3>1, <3>2
    <2> QED BY <1>4, <2>1 DEF IsRun, IsClean
  <1> DEFINE g == CHOOSE g : IsClean(g, p)
  <1>6. IsClean(g, p)
    BY <1>5
  <1>7. Clean(p) = g[Len(p)]
    BY DEF Clean, IsClean
  <1> HIDE DEF g
  <1>8. ASSUME NEW k \in 0..Len(p) PROVE g[k] = f[k]
    <2> DEFINE W == {m \in 0..Len(p) : g[m] = f[m]}
    <2>1. 0 \in W
      BY <1>1, <1>5, <1>6 DEF IsClean
    <2>2. ASSUME NEW m \in 0..(Len(p) - 1), m \in W PROVE m + 1 \in W
      <3>1. m + 1 \in 0..Len(p) /\ m + 1 # 0 /\ (m + 1) - 1 = m
        BY <1>1
      <3>2. g[m + 1] = CleanStep(g[m], p[m + 1]) /\ f[m + 1] = CleanStep(f[m], p[m + 1])
        BY <1>5, <1>6, <3>1 DEF IsClean
      <3> QED BY <2>2, <3>1, <3>2
    <2> HIDE DEF W
    <2>3. 0..Len(p) \subseteq W
      BY <1>1, <2>1, <2>2, Steps
    <2> QED BY <2>3 DEF W
  <1>9. Clean(p) = f[Len(p)]
    BY <1>1, <1>7, <1>8
  <1> QED BY <1>4, <1>5, <1>9 DEF V

-----------------------------------------------------------------------------
(* Walks.                                                                  *)

LEMMA FrontOfAppend ==
  ASSUME NEW T, NEW d \in Seq(T), NEW c \in T
  PROVE  /\ Append(d, c) \in Seq(T) /\ Append(d, c) # << >>
         /\ Front(Append(d, c)) = d /\ Last(Append(d, c)) = c
  <1> DEFINE e == Append(d, c)
  <1>1. /\ e \in Seq(T) /\ e # << >> /\ Len(e) = Len(d) + 1 /\ Len(d) \in Nat
        /\ e[Len(d) + 1] = c /\ \A i \in 1..Len(d) : e[i] = d[i]
    BY AppendProperties
  <1> HIDE DEF e
  <1>2. /\ Front(e) \in Seq(T) /\ Len(Front(e)) = Len(e) - 1 /\ Last(e) = e[Len(e)]
        /\ \A i \in 1..(Len(e) - 1) : Front(e)[i] = e[i]
    BY <1>1, FrontIs
  <1>3. Len(Front(e)) = Len(d) /\ \A i \in 1..Len(Front(e)) : Front(e)[i] = d[i]
    BY <1>1, <1>2
  <1>4. Front(e) = d
    BY <1>2, <1>3, SeqEqual
  <1> QED BY <1>1, <1>2, <1>4 DEF e

IsWalk(f, p) == f = [k \in 0..Len(p) |-> IF k = 0 THEN << >> ELSE WalkStep(f[k - 1], p[k])]

LEMMA WalkStepIs ==
  ASSUME NEW d \in Dirs \cup {NoDir}, NEW c
  PROVE  WalkStep(d, c) \in Dirs \cup {NoDir}
  <1>1. d \in Dirs => Parent(d) \in Dirs
    BY ResolveAssumption DEF Parent
  <1> QED BY <1>1 DEF WalkStep

LEMMA WalkIs ==
  ASSUME NEW p \in Seq(STRING)
  PROVE  Walk(p) \in [0..Len(p) -> Dirs \cup {NoDir}] /\ IsWalk(Walk(p), p)
  <1> DEFINE V == Dirs \cup {NoDir}
             step == [k \in 1..Len(p) |-> [v \in V |-> WalkStep(v, p[k])]]
  <1>1. Len(p) \in Nat /\ << >> \in V
    BY ResolveAssumption
  <1>2. \A k \in 1..Len(p) : step[k] \in [V -> V]
    BY WalkStepIs
  <1>3. \A k \in 1..Len(p) : \A v \in V : step[k][v] = WalkStep(v, p[k])
    OBVIOUS
  <1> HIDE DEF step
  <1>4. PICK f \in [0..Len(p) -> V] : IsRun(f, Len(p), << >>, step)
    BY <1>1, <1>2, RunExists
  <1> HIDE DEF V
  <1>5. IsWalk(f, p)
    <2>1. ASSUME NEW k \in 0..Len(p), k # 0 PROVE step[k][f[k - 1]] = WalkStep(f[k - 1], p[k])
      <3>1. k - 1 \in 0..Len(p) /\ k \in 1..Len(p)
        BY <1>1, <2>1
      <3>2. f[k - 1] \in V
        BY <1>4, <3>1
      <3> QED BY <1>3, <3>1, <3>2
    <2> QED BY <1>4, <2>1 DEF IsRun, IsWalk
  <1> DEFINE g == CHOOSE g : IsWalk(g, p)
  <1>6. IsWalk(g, p)
    BY <1>5
  <1>7. Walk(p) = g
    BY DEF Walk, IsWalk
  <1> HIDE DEF g
  <1>8. ASSUME NEW k \in 0..Len(p) PROVE g[k] \in V
    <2> DEFINE W == {m \in 0..Len(p) : g[m] \in V}
    <2>1. 0 \in W
      BY <1>1, <1>6 DEF IsWalk
    <2>2. ASSUME NEW m \in 0..(Len(p) - 1), m \in W PROVE m + 1 \in W
      <3>1. m + 1 \in 0..Len(p) /\ m + 1 # 0 /\ (m + 1) - 1 = m
        BY <1>1
      <3>2. g[m + 1] = WalkStep(g[m], p[m + 1])
        BY <1>6, <3>1 DEF IsWalk
      <3> QED BY <2>2, <3>1, <3>2, WalkStepIs DEF V
    <2> HIDE DEF W
    <2>3. 0..Len(p) \subseteq W
      BY <1>1, <2>1, <2>2, Steps
    <2> QED BY <2>3 DEF W
  <1>9. g \in [0..Len(p) -> V]
    BY <1>6, <1>8 DEF IsWalk
  <1> QED BY <1>6, <1>7, <1>9 DEF V

IsKernel(f, p) == f = [k \in 0..Len(p) |-> IF k = 0 THEN << >> ELSE KernelStep(f[k - 1], p[k])]

LEMMA KernelStepIs ==
  ASSUME NEW d \in Seq(STRING), NEW c \in STRING
  PROVE  KernelStep(d, c) \in Seq(STRING)
  <1>1. d # NoDir /\ Parent(d) \in Seq(STRING) /\ Append(d, c) \in Seq(STRING)
    BY ResolveAssumption, ParentIs, AppendProperties
  <1>2. Dirs \subseteq Seq(STRING)
    BY ResolveAssumption
  <1>3. WalkStep(d, c) = NoDir \/ WalkStep(d, c) \in Seq(STRING)
    BY <1>1, <1>2 DEF WalkStep
  <1> QED BY <1>1, <1>3 DEF KernelStep

LEMMA KernelIs ==
  ASSUME NEW p \in Seq(STRING)
  PROVE  \E g \in [0..Len(p) -> Seq(STRING)] : IsKernel(g, p) /\ KernelDir(p) = g[Len(p)]
  <1> DEFINE V == Seq(STRING)
             step == [k \in 1..Len(p) |-> [v \in V |-> KernelStep(v, p[k])]]
  <1>1. Len(p) \in Nat /\ << >> \in V /\ \A k \in 1..Len(p) : p[k] \in STRING
    OBVIOUS
  <1>2. \A k \in 1..Len(p) : step[k] \in [V -> V]
    BY <1>1, KernelStepIs
  <1>3. \A k \in 1..Len(p) : \A v \in V : step[k][v] = KernelStep(v, p[k])
    OBVIOUS
  <1> HIDE DEF step
  <1>4. PICK f \in [0..Len(p) -> V] : IsRun(f, Len(p), << >>, step)
    BY <1>1, <1>2, RunExists
  <1> HIDE DEF V
  <1>5. IsKernel(f, p)
    <2>1. ASSUME NEW k \in 0..Len(p), k # 0 PROVE step[k][f[k - 1]] = KernelStep(f[k - 1], p[k])
      <3>1. k - 1 \in 0..Len(p) /\ k \in 1..Len(p)
        BY <1>1, <2>1
      <3>2. f[k - 1] \in V
        BY <1>4, <3>1
      <3> QED BY <1>3, <3>1, <3>2
    <2> QED BY <1>4, <2>1 DEF IsRun, IsKernel
  <1> DEFINE g == CHOOSE g : IsKernel(g, p)
  <1>6. IsKernel(g, p)
    BY <1>5
  <1>7. KernelDir(p) = g[Len(p)]
    BY DEF KernelDir, IsKernel
  <1> HIDE DEF g
  <1>8. ASSUME NEW k \in 0..Len(p) PROVE g[k] \in V
    <2> DEFINE W == {m \in 0..Len(p) : g[m] \in V}
    <2>1. 0 \in W
      BY <1>1, <1>6 DEF IsKernel
    <2>2. ASSUME NEW m \in 0..(Len(p) - 1), m \in W PROVE m + 1 \in W
      <3>1. m + 1 \in 0..Len(p) /\ m + 1 \in 1..Len(p) /\ m + 1 # 0 /\ (m + 1) - 1 = m
        BY <1>1
      <3>2. g[m + 1] = KernelStep(g[m], p[m + 1])
        BY <1>6, <3>1 DEF IsKernel
      <3> QED BY <1>1, <2>2, <3>1, <3>2, KernelStepIs DEF V
    <2> HIDE DEF W
    <2>3. 0..Len(p) \subseteq W
      BY <1>1, <2>1, <2>2, Steps
    <2> QED BY <2>3 DEF W
  <1>9. g \in [0..Len(p) -> V]
    BY <1>6, <1>8 DEF IsKernel
  <1> QED BY <1>6, <1>7, <1>9 DEF V

(* A run over the first components is the beginning of the whole run.      *)
LEMMA KernelPrefix ==
  ASSUME NEW p \in Seq(STRING), NEW q \in Seq(STRING), Len(q) <= Len(p),
         \A i \in 1..Len(q) : q[i] = p[i], NEW g, IsKernel(g, p)
  PROVE  KernelDir(q) = g[Len(q)]
  <1>1. PICK h \in [0..Len(q) -> Seq(STRING)] : IsKernel(h, q) /\ KernelDir(q) = h[Len(q)]
    BY KernelIs
  <1>2. Len(p) \in Nat /\ Len(q) \in Nat
    OBVIOUS
  <1> DEFINE W == {m \in 0..Len(q) : h[m] = g[m]}
  <1>3. 0 \in W
    BY <1>1, <1>2 DEF IsKernel
  <1>4. ASSUME NEW m \in 0..(Len(q) - 1), m \in W PROVE m + 1 \in W
    <2>1. /\ m + 1 \in 0..Len(q) /\ m + 1 \in 1..Len(q) /\ m + 1 \in 0..Len(p)
          /\ m + 1 # 0 /\ (m + 1) - 1 = m
      BY <1>2
    <2>2. h[m + 1] = KernelStep(h[m], q[m + 1]) /\ g[m + 1] = KernelStep(g[m], p[m + 1])
      BY <1>1, <2>1 DEF IsKernel
    <2> QED BY <1>4, <2>1, <2>2
  <1> HIDE DEF W
  <1>5. 0..Len(q) \subseteq W
    BY <1>2, <1>3, <1>4, Steps
  <1>6. Len(q) \in W
    BY <1>2, <1>5
  <1> QED BY <1>1, <1>6 DEF W

-----------------------------------------------------------------------------
(* Canonical paths.                                                        *)

Longest(dir) ==
  LET opens == {k \in 0..Len(dir) : Walk(dir)[k] # NoDir}
  IN  CHOOSE k \in opens : \A j \in opens : j <= k

(* Of the ancestors the kernel can open there is a longest.                *)
LEMMA LongestIs ==
  ASSUME NEW d \in Seq(STRING)
  PROVE  /\ Longest(d) \in 0..Len(d) /\ Walk(d)[Longest(d)] \in Dirs
         /\ \A k \in 0..Len(d) : k > Longest(d) => Walk(d)[k] = NoDir
         /\ canonicalizeDir(d) = Walk(d)[Longest(d)] \o SubSeq(d, Longest(d) + 1, Len(d))
  <1> DEFINE opens == {k \in 0..Len(d) : Walk(d)[k] # NoDir}
  <1>1. Len(d) \in Nat /\ Walk(d) \in [0..Len(d) -> Dirs \cup {NoDir}] /\ Walk(d)[0] = << >>
    BY WalkIs DEF IsWalk
  <1>2. 0 \in opens
    <2>1. << >> \in Seq(STRING)
      OBVIOUS
    <2> QED BY <1>1, <2>1, ResolveAssumption
  <1> DEFINE gaps == {Len(d) - k : k \in opens}
  <1>3. gaps \in SUBSET Nat /\ gaps # {}
    BY <1>1, <1>2
  <1>4. PICK n \in gaps : \A m \in gaps : n <= m
    BY <1>3, LeastNatural
  <1>5. \E k \in opens : \A j \in opens : j <= k
    <2>1. PICK k \in opens : n = Len(d) - k
      BY <1>4
    <2>2. ASSUME NEW j \in opens PROVE j <= k
      <3>1. Len(d) - j \in gaps /\ j \in Nat /\ k \in Nat
        OBVIOUS
      <3>2. Len(d) - k <= Len(d) - j
        BY <1>4, <2>1, <3>1
      <3> QED BY <1>1, <3>1, <3>2
    <2> QED BY <2>2
  <1>6. Longest(d) \in opens /\ \A j \in opens : j <= Longest(d)
    BY <1>5 DEF Longest
  <1>7. Longest(d) \in 0..Len(d) /\ Walk(d)[Longest(d)] \in Dirs
    BY <1>1, <1>6
  <1>8. ASSUME NEW k \in 0..Len(d), k > Longest(d) PROVE Walk(d)[k] = NoDir
    <2>1. k \notin opens
      BY <1>1, <1>6, <1>7, <1>8
    <2> QED BY <2>1
  <1>9. canonicalizeDir(d) = Walk(d)[Longest(d)] \o SubSeq(d, Longest(d) + 1, Len(d))
    BY DEF canonicalizeDir, Longest
  <1> QED BY <1>7, <1>8, <1>9

LEMMA CanonicalDirIs ==
  ASSUME NEW d \in Seq(STRING)
  PROVE  LET a == Walk(d)[Longest(d)]
             m == Longest(d)
         IN  /\ a \in Seq(STRING) /\ canonicalizeDir(d) \in Seq(STRING)
             /\ Len(canonicalizeDir(d)) = Len(a) + (Len(d) - m)
             /\ \A i \in 1..Len(a) : canonicalizeDir(d)[i] = a[i]
             /\ \A i \in 1..(Len(d) - m) : canonicalizeDir(d)[Len(a) + i] = d[m + i]
  <1> DEFINE a == Walk(d)[Longest(d)]
             m == Longest(d)
             n == Len(d)
             k == m + 1
             rest == SubSeq(d, k, n)
             e == canonicalizeDir(d)
  <1>1. m \in 0..n /\ n \in Nat /\ a \in Seq(STRING) /\ e = a \o rest
    <2>1. m \in 0..n /\ a \in Dirs
      BY LongestIs
    <2>2. e = a \o rest
      BY LongestIs
    <2> HIDE DEF m, a, e, rest
    <2> QED BY <2>1, <2>2, ResolveAssumption
  <1>2. k \in 1..(Len(d) + 1) /\ n \in 0..Len(d) /\ k <= n + 1
    BY <1>1
  <1> HIDE DEF k, n, m, a, e
  <1>3. /\ rest \in Seq(STRING) /\ Len(rest) = n - k + 1
        /\ \A i \in 1..(n - k + 1) : rest[i] = d[k + i - 1]
    BY <1>2, SliceIs, Zenon
  <1> HIDE DEF rest
  <1>4. Len(rest) = n - m /\ \A i \in 1..(n - m) : rest[i] = d[m + i]
    <2>1. n - k + 1 = n - m /\ \A i \in 1..(n - m) : k + i - 1 = m + i
      BY <1>1 DEF k
    <2> QED BY <1>3, <2>1
  <1>5. /\ e \in Seq(STRING) /\ Len(e) = Len(a) + Len(rest)
        /\ \A i \in 1..(Len(a) + Len(rest)) :
             e[i] = IF i <= Len(a) THEN a[i] ELSE rest[i - Len(a)]
    BY <1>1, <1>3, ConcatProperties
  <1>6. Len(a) \in Nat
    BY <1>1
  <1>7. \A i \in 1..Len(a) : e[i] = a[i]
    BY <1>1, <1>4, <1>5, <1>6
  <1>8. ASSUME NEW i \in 1..(n - m) PROVE e[Len(a) + i] = d[m + i]
    <2>1. /\ Len(a) + i \in 1..(Len(a) + Len(rest)) /\ ~ (Len(a) + i <= Len(a))
          /\ (Len(a) + i) - Len(a) = i
      BY <1>1, <1>4, <1>6
    <2> QED BY <1>4, <1>5, <2>1
  <1> QED BY <1>1, <1>4, <1>5, <1>7, <1>8 DEF a, m, n, e

(* Without "." and ".." the kernel follows the links of the longest        *)
(* ancestor and no others: below a directory that does not exist there is  *)
(* none.                                                                   *)
LEMMA CanonicalDirIsKernelDir ==
  ASSUME NEW d \in Seq(STRING), \A i \in 1..Len(d) : d[i] \notin {".", ".."}
  PROVE  canonicalizeDir(d) = KernelDir(d)
  <1> DEFINE w == Walk(d)
             m == Longest(d)
             a == w[m]
             n == Len(d)
  <1>1. PICK g \in [0..n -> Seq(STRING)] : IsKernel(g, d) /\ KernelDir(d) = g[n]
    BY KernelIs
  <1>2. /\ n \in Nat /\ m \in 0..n /\ w \in [0..n -> Dirs \cup {NoDir}] /\ IsWalk(w, d)
        /\ a \in Dirs /\ \A k \in 0..n : k > m => w[k] = NoDir
    BY WalkIs, LongestIs
  <1> HIDE DEF w, m
  <1>3. \A k \in 0..(n - 1) :
          /\ k + 1 \in 0..n /\ d[k + 1] \in STRING /\ d[k + 1] \notin {".", ".."}
          /\ w[k + 1] = WalkStep(w[k], d[k + 1])
          /\ g[k + 1] = KernelStep(g[k], d[k + 1])
    <2> SUFFICES ASSUME NEW k \in 0..(n - 1)
                 PROVE  /\ k + 1 \in 0..n /\ d[k + 1] \in STRING /\ d[k + 1] \notin {".", ".."}
                        /\ w[k + 1] = WalkStep(w[k], d[k + 1])
                        /\ g[k + 1] = KernelStep(g[k], d[k + 1])
      OBVIOUS
    <2>1. k + 1 \in 0..n /\ k + 1 \in 1..Len(d) /\ k + 1 # 0 /\ (k + 1) - 1 = k
      BY <1>2
    <2>2. w[k + 1] = WalkStep(w[k], d[k + 1])
      BY <1>2, <2>1 DEF IsWalk
    <2>3. g[k + 1] = KernelStep(g[k], d[k + 1])
      BY <1>1, <2>1 DEF IsKernel
    <2> QED BY <2>1, <2>2, <2>3
  <1>4. \A k \in 0..m : w[k] # NoDir
    <2> DEFINE T == {j \in Nat : j <= m => w[m - j] # NoDir}
    <2>1. 0 \in T
      <3>1. m - 0 = m /\ w[m] # NoDir
        BY <1>2, ResolveAssumption
      <3> QED BY <3>1
    <2>2. ASSUME NEW j \in 0..(m - 1), j \in T PROVE j + 1 \in T
      <3>1. m - (j + 1) \in 0..(n - 1) /\ (m - (j + 1)) + 1 = m - j /\ j <= m
        BY <1>2
      <3>2. w[m - j] = WalkStep(w[m - (j + 1)], d[m - j])
        BY <1>3, <3>1
      <3>3. w[m - (j + 1)] # NoDir
        BY <2>2, <3>1, <3>2 DEF WalkStep
      <3> QED BY <2>2, <3>3
    <2> HIDE DEF T
    <2>3. 0..m \subseteq T
      <3>1. m \in Nat
        BY <1>2
      <3> QED BY <2>1, <2>2, <3>1, Steps
    <2>4. ASSUME NEW k \in 0..m PROVE w[k] # NoDir
      <3>1. m - k \in 0..m /\ m - (m - k) = k /\ m - k <= m
        BY <1>2
      <3>2. m - k \in T
        BY <2>3, <3>1
      <3> QED BY <3>1, <3>2 DEF T
    <2> QED BY <2>4
  <1>5. g[m] = a
    <2> DEFINE T == {k \in Nat : k <= m => g[k] = w[k]}
    <2>1. 0 \in T
      BY <1>1, <1>2 DEF IsKernel, IsWalk
    <2>2. ASSUME NEW k \in 0..(m - 1), k \in T PROVE k + 1 \in T
      <3>1. k \in 0..(n - 1) /\ k + 1 \in 0..m /\ k <= m
        BY <1>2
      <3>2. g[k] = w[k] /\ w[k + 1] # NoDir
        BY <1>4, <2>2, <3>1
      <3>3. g[k + 1] = w[k + 1]
        BY <1>3, <3>1, <3>2 DEF KernelStep
      <3> QED BY <2>2, <3>3
    <2> HIDE DEF T
    <2>3. 0..m \subseteq T
      <3>1. m \in Nat
        BY <1>2
      <3> QED BY <2>1, <2>2, <3>1, Steps
    <2>4. m \in T
      BY <1>2, <2>3
    <2> QED BY <1>2, <2>4 DEF T
  <1> HIDE DEF a
  <1>6. a \in Seq(STRING) /\ Len(a) \in Nat
    BY <1>2, ResolveAssumption
  <1> DEFINE Beyond(k) ==
        /\ k > 0 => g[m + k] \notin Dirs
        /\ Len(g[m + k]) = Len(a) + k
        /\ \A i \in 1..Len(a) : g[m + k][i] = a[i]
        /\ \A i \in 1..k : g[m + k][Len(a) + i] = d[m + i]
  <1>7. \A k \in 0..(n - m) : Beyond(k)
    <2> DEFINE T == {k \in Nat : k <= n - m => Beyond(k)}
    <2>1. 0 \in T
      <3>1. m + 0 = m /\ Len(a) + 0 = Len(a)
        BY <1>2, <1>6
      <3> QED BY <1>5, <3>1
    <2>2. ASSUME NEW k \in 0..(n - m - 1), k \in T PROVE k + 1 \in T
      <3> DEFINE j == m + k
                 c == d[j + 1]
      <3>1. /\ j \in 0..(n - 1) /\ m + (k + 1) = j + 1 /\ k <= n - m /\ k \in Nat
            /\ j + 1 \in 0..n /\ j + 1 > m
        BY <1>2
      <3> HIDE DEF j
      <3>2. Beyond(k)
        BY <2>2, <3>1
      <3>3. /\ g[j] \in Seq(STRING) /\ c \in STRING /\ c \notin {".", ".."}
            /\ w[j + 1] = WalkStep(w[j], c) /\ w[j + 1] = NoDir
            /\ g[j + 1] = KernelStep(g[j], c)
        <4>1. j \in 0..n
          BY <1>2, <3>1
        <4> QED BY <1>1, <1>2, <1>3, <3>1, <4>1
      <3> HIDE DEF c
      <3>4. g[j] # NoDir /\ Append(g[j], c) \in Seq(STRING) /\ Append(g[j], c) # << >>
            /\ Front(Append(g[j], c)) = g[j]
        BY <3>3, FrontOfAppend, ResolveAssumption
      <3>5. Append(g[j], c) \notin Dirs /\ KernelStep(g[j], c) = Append(g[j], c)
        <4>1. CASE k = 0
          <5>1. j = m /\ w[j] = g[j]
            BY <1>2, <1>5, <4>1 DEF j, a
          <5>2. WalkStep(g[j], c) = NoDir
            BY <3>3, <5>1
          <5>3. Append(g[j], c) \in Dirs => Append(g[j], c) \notin DOMAIN Links
            BY ResolveAssumption
          <5>4. Append(g[j], c) # NoDir
            BY <3>4, ResolveAssumption
          <5>5. Append(g[j], c) \notin Dirs
            BY <3>3, <3>4, <5>2, <5>3, <5>4 DEF WalkStep, Follow
          <5> QED BY <5>2, <5>5 DEF KernelStep
        <4>2. CASE k > 0
          <5>1. g[j] \notin Dirs
            BY <3>2, <4>2 DEF j
          <5>2. Append(g[j], c) \notin Dirs /\ Append(g[j], c) \notin DOMAIN Links
            BY <3>4, <5>1, ResolveAssumption
          <5> QED BY <3>3, <3>4, <5>2 DEF KernelStep, WalkStep, Follow
        <4> QED BY <4>1, <4>2, <3>1
      <3>6. g[j + 1] = Append(g[j], c)
        BY <3>3, <3>5
      <3>7. /\ Len(g[j + 1]) = Len(g[j]) + 1 /\ g[j + 1][Len(g[j]) + 1] = c
            /\ \A i \in 1..Len(g[j]) : g[j + 1][i] = g[j][i]
        BY <3>3, <3>6, AppendProperties
      <3>8. Len(g[j]) = Len(a) + k
        BY <3>2 DEF j
      <3>9. g[j + 1] \notin Dirs /\ Len(g[j + 1]) = Len(a) + (k + 1)
        BY <1>6, <3>1, <3>5, <3>6, <3>7, <3>8
      <3>10. \A i \in 1..Len(a) : g[j + 1][i] = a[i]
        <4>1. \A i \in 1..Len(a) : i \in 1..Len(g[j]) /\ g[j][i] = a[i]
          BY <1>6, <3>1, <3>2, <3>8 DEF j
        <4> QED BY <3>7, <4>1
      <3>11. ASSUME NEW i \in 1..(k + 1) PROVE g[j + 1][Len(a) + i] = d[m + i]
        <4>1. CASE i = k + 1
          <5>1. Len(a) + i = Len(g[j]) + 1 /\ m + i = j + 1
            BY <1>2, <1>6, <3>1, <3>8, <4>1 DEF j
          <5> QED BY <3>7, <5>1 DEF c
        <4>2. CASE i # k + 1
          <5>1. i \in 1..k /\ Len(a) + i \in 1..Len(g[j])
            BY <1>6, <3>1, <3>8, <4>2
          <5>2. g[j][Len(a) + i] = d[m + i]
            BY <3>2, <5>1 DEF j
          <5> QED BY <3>7, <5>1, <5>2
        <4> QED BY <4>1, <4>2
      <3>12. Beyond(k + 1)
        BY <3>1, <3>9, <3>10, <3>11
      <3> QED BY <3>1, <3>12
    <2> HIDE DEF T
    <2>3. 0..(n - m) \subseteq T
      <3>1. n - m \in Nat
        BY <1>2
      <3> QED BY <2>1, <2>2, <3>1, Steps
    <2>4. ASSUME NEW k \in 0..(n - m) PROVE Beyond(k)
      <3>1. k \in T /\ k <= n - m
        BY <1>2, <2>3
      <3> HIDE DEF Beyond
      <3> QED BY <3>1 DEF T
    <2> QED BY <2>4
  <1> DEFINE e == canonicalizeDir(d)
  <1>8. /\ e \in Seq(STRING) /\ Len(e) = Len(a) + (n - m)
        /\ \A i \in 1..Len(a) : e[i] = a[i]
        /\ \A i \in 1..(n - m) : e[Len(a) + i] = d[m + i]
    BY CanonicalDirIs DEF a, m, w
  <1> HIDE DEF e
  <1>9. n - m \in 0..(n - m) /\ m + (n - m) = n
    BY <1>2
  <1>10. Beyond(n - m)
    BY <1>7, <1>9
  <1>11. g[n] \in Seq(STRING) /\ Len(g[n]) = Len(e)
    BY <1>1, <1>2, <1>8, <1>9, <1>10
  <1>12. ASSUME NEW i \in 1..Len(e) PROVE e[i] = g[n][i]
    <2>1. CASE i <= Len(a)
      BY <1>6, <1>8, <1>9, <1>10, <2>1
    <2>2. CASE i > Len(a)
      <3>1. i - Len(a) \in 1..(n - m) /\ Len(a) + (i - Len(a)) = i
        BY <1>2, <1>6, <1>8, <2>2
      <3> QED BY <1>8, <1>9, <1>10, <3>1
    <2> QED BY <1>6, <1>8, <2>1, <2>2
  <1>13. e = g[n]
    BY <1>8, <1>11, <1>12, SeqEqual
  <1> QED BY <1>1, <1>13 DEF e

LEMMA KernelAppend ==
  ASSUME NEW d \in Seq(STRING), NEW c \in STRING
  PROVE  KernelDir(Append(d, c)) = KernelStep(KernelDir(d), c)
  <1> DEFINE e == Append(d, c)
             n == Len(d)
  <1>1. /\ e \in Seq(STRING) /\ n \in Nat /\ Len(e) = n + 1 /\ e[n + 1] = c
        /\ \A i \in 1..n : d[i] = e[i]
    <2>1. e \in Seq(STRING) /\ Len(e) = n + 1 /\ e[n + 1] = c
      BY AppendProperties
    <2>2. \A i \in 1..n : e[i] = d[i]
      BY AppendProperties
    <2> HIDE DEF e
    <2> QED BY <2>1, <2>2
  <1> HIDE DEF e
  <1>2. PICK g \in [0..Len(e) -> Seq(STRING)] : IsKernel(g, e) /\ KernelDir(e) = g[Len(e)]
    BY <1>1, KernelIs
  <1>3. n <= Len(e) /\ n + 1 \in 0..Len(e) /\ n + 1 # 0 /\ (n + 1) - 1 = n
    BY <1>1
  <1>4. g[n + 1] = KernelStep(g[n], e[n + 1])
    BY <1>2, <1>3 DEF IsKernel
  <1>5. KernelDir(d) = g[n]
    BY <1>1, <1>2, <1>3, KernelPrefix
  <1> QED BY <1>1, <1>2, <1>4, <1>5 DEF e

LEMMA CleanPrefix ==
  ASSUME NEW p \in Seq(STRING), NEW q \in Seq(STRING), Len(q) <= Len(p),
         \A i \in 1..Len(q) : q[i] = p[i], NEW f, IsClean(f, p)
  PROVE  Clean(q) = f[Len(q)]
  <1>1. PICK h \in [0..Len(q) -> Seq(STRING)] : IsClean(h, q) /\ Clean(q) = h[Len(q)]
    BY CleanIs
  <1>2. Len(p) \in Nat /\ Len(q) \in Nat
    OBVIOUS
  <1> DEFINE W == {m \in 0..Len(q) : h[m] = f[m]}
  <1>3. 0 \in W
    BY <1>1, <1>2 DEF IsClean
  <1>4. ASSUME NEW m \in 0..(Len(q) - 1), m \in W PROVE m + 1 \in W
    <2>1. /\ m + 1 \in 0..Len(q) /\ m + 1 \in 1..Len(q) /\ m + 1 \in 0..Len(p)
          /\ m + 1 # 0 /\ (m + 1) - 1 = m
      BY <1>2
    <2>2. h[m + 1] = CleanStep(h[m], q[m + 1]) /\ f[m + 1] = CleanStep(f[m], p[m + 1])
      BY <1>1, <2>1 DEF IsClean
    <2> QED BY <1>4, <2>1, <2>2
  <1> HIDE DEF W
  <1>5. 0..Len(q) \subseteq W
    BY <1>2, <1>3, <1>4, Steps
  <1>6. Len(q) \in W
    BY <1>2, <1>5
  <1> QED BY <1>1, <1>6 DEF W

LEMMA KernelOfNothing == KernelDir(<< >>) = << >> /\ KernelEntry(<< >>) = << >>
  <1>1. << >> \in Seq(STRING) /\ Len(<< >>) = 0
    OBVIOUS
  <1>2. PICK h : IsKernel(h, << >>) /\ KernelDir(<< >>) = h[0]
    BY <1>1, KernelIs
  <1>3. h[0] = << >>
    BY <1>1, <1>2 DEF IsKernel
  <1> QED BY <1>2, <1>3 DEF KernelEntry

NoDots(d) == \A i \in 1..Len(d) : d[i] \notin {".", ".."}

(* A name that is not a link is one step down, whether or not it is there. *)
LEMMA NoLinkIsOneDown ==
  ASSUME NEW d \in Seq(STRING), NoDots(d), d # << >>, KernelEntry(d) \notin DOMAIN Links
  PROVE  /\ KernelDir(d) = KernelEntry(d)
         /\ Parent(KernelDir(d)) = KernelDir(Front(d))
  <1> DEFINE e == Front(d)
             c == Last(d)
             k == KernelDir(e)
  <1>1. /\ Len(d) \in Nat \ {0} /\ e \in Seq(STRING) /\ Len(e) = Len(d) - 1
        /\ \A i \in 1..(Len(d) - 1) : e[i] = d[i]
        /\ c = d[Len(d)] /\ c \in STRING
    BY FrontIs
  <1>2. c \notin {".", ".."}
    BY <1>1 DEF NoDots
  <1>3. d = Append(e, c)
    <2> DEFINE u == Append(e, c)
    <2>1. u \in Seq(STRING) /\ Len(u) = Len(e) + 1 /\ u[Len(e) + 1] = c
      BY <1>1, AppendProperties
    <2>2. \A i \in 1..Len(e) : u[i] = e[i]
      BY <1>1, AppendProperties
    <2> HIDE DEF u, e, c
    <2>3. Len(u) = Len(d) /\ \A i \in 1..Len(u) : u[i] = d[i]
      BY <1>1, <2>1, <2>2
    <2>4. u = d
      BY <2>1, <2>3, SeqEqual
    <2> QED BY <2>4 DEF u
  <1>4. k \in Seq(STRING)
    <2>1. PICK g \in [0..Len(e) -> Seq(STRING)] : k = g[Len(e)]
      BY <1>1, KernelIs
    <2>2. Len(e) \in 0..Len(e)
      BY <1>1
    <2> QED BY <2>1, <2>2
  <1>5. KernelEntry(d) = Append(k, c)
    BY <1>2 DEF KernelEntry
  <1> HIDE DEF e, c
  <1>6. KernelDir(d) = KernelStep(k, c)
    BY <1>1, <1>3, KernelAppend
  <1> HIDE DEF k
  <1>7. /\ k # NoDir /\ Append(k, c) \in Seq(STRING) /\ Append(k, c) # << >>
        /\ Front(Append(k, c)) = k
    <2>1. k # NoDir
      BY <1>4, ResolveAssumption
    <2> QED BY <1>1, <1>4, <2>1, FrontOfAppend
  <1>8. KernelStep(k, c) = Append(k, c)
    BY <1>2, <1>5, <1>7 DEF KernelStep, WalkStep, Follow
  <1> QED BY <1>5, <1>6, <1>7, <1>8 DEF Parent, e, k

(* What filepath.Clean leaves of the first components leads the kernel     *)
(* where they lead it.                                                     *)
LEMMA CleanedLeadsThere ==
  ASSUME NEW p \in Seq(STRING), Straight(p),
         NEW f \in [0..Len(p) -> Seq(STRING)], IsClean(f, p),
         NEW g \in [0..Len(p) -> Seq(STRING)], IsKernel(g, p)
  PROVE  \A k \in 0..Len(p) : NoDots(f[k]) /\ KernelDir(f[k]) = g[k]
  <1> DEFINE n == Len(p)
             T == {k \in 0..n : NoDots(f[k]) /\ KernelDir(f[k]) = g[k]}
  <1>1. n \in Nat
    OBVIOUS
  <1>2. 0 \in T
    <2>1. f[0] = << >> /\ g[0] = << >> /\ Len(<< >>) = 0
      BY <1>1 DEF IsClean, IsKernel
    <2> QED BY <1>1, <2>1, KernelOfNothing DEF NoDots
  <1>3. ASSUME NEW k \in 0..(n - 1), k \in T PROVE k + 1 \in T
    <2> DEFINE c == p[k + 1]
               d == f[k]
    <2>1. /\ k + 1 \in 0..n /\ k + 1 \in 1..n /\ k \in 0..n /\ k + 1 # 0 /\ (k + 1) - 1 = k
      BY <1>1
    <2>2. c \in STRING /\ d \in Seq(STRING) /\ g[k] \in Seq(STRING)
      BY <2>1
    <2>3. f[k + 1] = CleanStep(d, c)
      BY <2>1 DEF IsClean
    <2>4. g[k + 1] = KernelStep(g[k], c)
      BY <2>1 DEF IsKernel
    <2>5. NoDots(d) /\ KernelDir(d) = g[k]
      BY <1>3
    <2>6. c = ".." => KernelEntry(d) \notin DOMAIN Links
      <3> DEFINE q == SubSeq(p, 1, k)
      <3>1. k \in 0..Len(p) /\ 1 <= k + 1 /\ 1 \in 1..(Len(p) + 1)
        BY <2>1
      <3>2. /\ q \in Seq(STRING) /\ Len(q) = k - 1 + 1
            /\ \A i \in 1..(k - 1 + 1) : q[i] = p[1 + i - 1]
        BY <3>1, SliceIs, Zenon
      <3> HIDE DEF q
      <3>3. Len(q) = k /\ \A i \in 1..Len(q) : q[i] = p[i]
        <4>1. k - 1 + 1 = k /\ \A i \in 1..k : 1 + i - 1 = i
          BY <2>1
        <4> QED BY <3>2, <4>1
      <3>4. Clean(q) = f[k]
        BY <3>1, <3>2, <3>3, CleanPrefix
      <3>5. p[k + 1] = ".." => KernelEntry(Clean(SubSeq(p, 1, (k + 1) - 1))) \notin DOMAIN Links
        BY <2>1 DEF Straight
      <3>6. p[k + 1] = ".." => KernelEntry(Clean(q)) \notin DOMAIN Links
        BY <2>1, <3>5 DEF q
      <3> QED BY <3>4, <3>6
    <2> HIDE DEF c
    <2>7. CASE c = "."
      <3>1. f[k + 1] = f[k]
        BY <2>3, <2>7 DEF CleanStep
      <3>2. g[k + 1] = g[k]
        BY <2>2, <2>4, <2>7, ResolveAssumption DEF KernelStep, WalkStep
      <3> QED BY <2>1, <2>5, <3>1, <3>2
    <2>8. CASE c = ".."
      <3>1. f[k + 1] = Parent(d)
        BY <2>3, <2>8 DEF CleanStep
      <3>2. Parent(g[k]) \in Seq(STRING)
        BY <2>2, ParentIs
      <3>3. g[k + 1] = Parent(g[k])
        BY <2>2, <2>4, <2>8, <3>2, ResolveAssumption DEF KernelStep, WalkStep
      <3> HIDE DEF d
      <3>4. CASE d = << >>
        BY <2>1, <2>5, <3>1, <3>3, <3>4, KernelOfNothing DEF Parent
      <3>5. CASE d # << >>
        <4>1. Parent(KernelDir(d)) = KernelDir(Front(d)) /\ Parent(d) = Front(d)
          BY <2>2, <2>5, <2>6, <2>8, <3>5, NoLinkIsOneDown DEF Parent
        <4>2. /\ Len(Front(d)) = Len(d) - 1 /\ Len(d) \in Nat
              /\ \A i \in 1..(Len(d) - 1) : Front(d)[i] = d[i]
          BY <2>2, <3>5, FrontIs
        <4>3. NoDots(Front(d))
          <5>1. \A i \in 1..(Len(d) - 1) : i \in 1..Len(d)
            BY <4>2
          <5> QED BY <2>5, <4>2, <5>1 DEF NoDots
        <4> QED BY <2>1, <2>5, <3>1, <3>3, <4>1, <4>3
      <3> QED BY <3>4, <3>5
    <2>9. CASE c \notin {".", ".."}
      <3>1. f[k + 1] = Append(f[k], c)
        BY <2>2, <2>3, <2>9 DEF CleanStep
      <3>2. KernelDir(f[k + 1]) = g[k + 1]
        BY <2>2, <2>4, <2>5, <3>1, KernelAppend
      <3>3. /\ Len(f[k + 1]) = Len(d) + 1 /\ Len(d) \in Nat /\ f[k + 1][Len(d) + 1] = c
            /\ \A i \in 1..Len(d) : f[k + 1][i] = d[i]
        BY <2>2, <3>1, AppendProperties
      <3>4. ASSUME NEW i \in 1..Len(f[k + 1]) PROVE f[k + 1][i] \notin {".", ".."}
        <4>1. i \in 1..Len(d) \/ i = Len(d) + 1
          BY <3>3
        <4> QED BY <2>5, <2>9, <3>3, <4>1 DEF NoDots
      <3> QED BY <2>1, <3>2, <3>4 DEF NoDots
    <2> QED BY <2>7, <2>8, <2>9
  <1> HIDE DEF T
  <1>4. 0..n \subseteq T
    BY <1>1, <1>2, <1>3, Steps
  <1> QED BY <1>4 DEF T

(* A straight path is made canonical as the kernel walks it.               *)
LEMMA CanonicalIsKernelEntry ==
  ASSUME NEW p \in Seq(STRING), Straight(p)
  PROVE  CanonicalizePath(p) = KernelEntry(p)
  <1> DEFINE n == Len(p)
  <1>1. PICK f \in [0..n -> Seq(STRING)] : IsClean(f, p) /\ Clean(p) = f[n]
    BY CleanIs
  <1>2. PICK g \in [0..n -> Seq(STRING)] : IsKernel(g, p) /\ KernelDir(p) = g[n]
    BY KernelIs
  <1>3. n \in Nat /\ n \in 0..n
    OBVIOUS
  <1>4. \A k \in 0..n : NoDots(f[k]) /\ KernelDir(f[k]) = g[k]
    BY <1>1, <1>2, CleanedLeadsThere
  <1>5. CASE p = << >>
    <2>1. n = 0
      BY <1>5
    <2>2. f[0] = << >>
      BY <1>1, <2>1 DEF IsClean
    <2> QED BY <1>1, <1>5, <2>1, <2>2, KernelOfNothing DEF CanonicalizePath
  <1>6. CASE p # << >> /\ Last(p) \notin {".", ".."}
    <2> DEFINE d == f[n - 1]
               c == p[n]
    <2>1. n \in 1..n /\ n \in 0..n /\ n - 1 \in 0..n /\ n # 0
      BY <1>3, <1>6, EmptySeq
    <2>2. /\ Front(p) \in Seq(STRING) /\ Len(Front(p)) = n - 1 /\ Last(p) = c
          /\ \A i \in 1..(n - 1) : Front(p)[i] = p[i]
      BY <1>6, FrontIs
    <2>3. c \in STRING /\ c \notin {".", ".."} /\ d \in Seq(STRING)
      <3>1. c \in STRING
        BY <2>1
      <3>2. d \in Seq(STRING)
        BY <2>1
      <3> HIDE DEF c, d
      <3> QED BY <1>6, <2>2, <3>1, <3>2
    <2>4. Clean(p) = CleanStep(d, c)
      BY <1>1, <2>1 DEF IsClean
    <2>5. Clean(p) = Append(d, c)
      BY <2>3, <2>4 DEF CleanStep
    <2>6. Append(d, c) # << >> /\ Front(Append(d, c)) = d /\ Last(Append(d, c)) = c
      BY <2>3, FrontOfAppend
    <2>7. CanonicalizePath(p) = Append(canonicalizeDir(d), c)
      BY <2>5, <2>6 DEF CanonicalizePath
    <2>8. canonicalizeDir(d) = g[n - 1]
      BY <1>4, <2>1, <2>3, CanonicalDirIsKernelDir DEF NoDots
    <2>9. KernelDir(Front(p)) = g[n - 1]
      <3>1. Len(Front(p)) <= Len(p)
        BY <1>3, <2>2
      <3> QED BY <1>2, <2>2, <3>1, KernelPrefix
    <2>10. KernelEntry(p) = Append(KernelDir(Front(p)), c)
      BY <1>6, <2>2, <2>3 DEF KernelEntry
    <2> QED BY <2>7, <2>8, <2>9, <2>10
  <1>7. CASE p # << >> /\ Last(p) \in {".", ".."}
    <2> DEFINE d == Clean(p)
    <2>1. d \in Seq(STRING) /\ NoDots(d) /\ KernelDir(d) = KernelEntry(p)
      BY <1>1, <1>2, <1>3, <1>4, <1>7 DEF KernelEntry
    <2>2. KernelEntry(d) \notin DOMAIN Links
      BY <1>7 DEF Straight
    <2> HIDE DEF d
    <2>3. CASE d = << >>
      BY <2>1, <2>3, KernelOfNothing DEF CanonicalizePath, d
    <2>4. CASE d # << >>
      <3>1. KernelDir(d) = KernelEntry(d)
        BY <2>1, <2>2, <2>4, NoLinkIsOneDown
      <3>2. /\ Front(d) \in Seq(STRING) /\ Last(d) \notin {".", ".."}
            /\ NoDots(Front(d))
        <4>1. /\ Len(d) \in Nat \ {0} /\ Front(d) \in Seq(STRING)
              /\ Len(Front(d)) = Len(d) - 1 /\ Last(d) = d[Len(d)]
              /\ \A i \in 1..(Len(d) - 1) : Front(d)[i] = d[i]
          BY <2>1, <2>4, FrontIs
        <4>2. Len(d) \in 1..Len(d) /\ \A i \in 1..(Len(d) - 1) : i \in 1..Len(d)
          BY <4>1
        <4> QED BY <2>1, <4>1, <4>2 DEF NoDots
      <3>3. canonicalizeDir(Front(d)) = KernelDir(Front(d))
        BY <3>2, CanonicalDirIsKernelDir DEF NoDots
      <3>4. KernelEntry(d) = Append(KernelDir(Front(d)), Last(d))
        BY <2>4, <3>2 DEF KernelEntry
      <3>5. CanonicalizePath(p) = Append(canonicalizeDir(Front(d)), Last(d))
        BY <2>4 DEF CanonicalizePath, d
      <3> QED BY <2>1, <3>1, <3>3, <3>4, <3>5
    <2> QED BY <2>3, <2>4
  <1> QED BY <1>5, <1>6, <1>7

-----------------------------------------------------------------------------
(* The policy written on exit.                                             *)

Marks == {"/", "$WORKDIR", "$HOME", "?"}
Comps == [name : Names, in : Marks]
Patterns == [root : {"plain", "//", "."}, seg : Seq(Comps), deep : BOOLEAN]

LEMMA GreatestBelow ==
  ASSUME NEW m \in Nat, NEW T \in SUBSET (1..m), T # {}
  PROVE  \E n \in T : \A k \in T : n >= k
  <1> DEFINE D == {m - k : k \in T}
  <1>1. D \in SUBSET Nat /\ D # {}
    <2>1. \A k \in T : m - k \in Nat
      OBVIOUS
    <2> QED BY <2>1
  <1> HIDE DEF D
  <1>2. PICK d \in D : \A e \in D : d <= e
    BY <1>1, LeastNatural
  <1>3. PICK n \in T : d = m - n
    BY <1>2 DEF D
  <1>4. ASSUME NEW k \in T PROVE n >= k
    <2>1. m - k \in D
      BY DEF D
    <2>2. m - n <= m - k
      BY <1>2, <1>3, <2>1
    <2>3. n \in Nat /\ k \in Nat
      OBVIOUS
    <2> QED BY <2>2, <2>3
  <1> QED BY <1>3, <1>4

LEMMA GeneralizeIs ==
  ASSUME NEW p \in Seq(Names)
  PROVE  /\ Generalize(p) \in Seq(Names) /\ Len(Generalize(p)) = Len(p)
         /\ \A i \in 1..Len(p) :
              \/ Generalize(p)[i] = p[i]
              \/ Generalize(p)[i] = "_tmp_*" /\ p[i] \in ProbeNames
  <1>1. CASE IsProbeTemp(p)
    <2> DEFINE f == Front(p)
               g == Append(f, "_tmp_*")
    <2>1. p # << >> /\ p[Len(p)] \in ProbeNames
      BY <1>1 DEF IsProbeTemp, Last
    <2>2. /\ Len(p) \in Nat \ {0} /\ f \in Seq(Names) /\ Len(f) = Len(p) - 1
          /\ \A i \in 1..(Len(p) - 1) : f[i] = p[i]
      BY <2>1, FrontIs
    <2> HIDE DEF f
    <2>3. /\ g \in Seq(Names) /\ Len(g) = Len(f) + 1 /\ g[Len(f) + 1] = "_tmp_*"
          /\ \A i \in 1..Len(f) : g[i] = f[i]
      <3>1. "_tmp_*" \in Names
        BY DEF Names
      <3> QED BY <2>2, <3>1, AppendProperties
    <2>4. Generalize(p) = g
      BY <1>1 DEF Generalize, f
    <2> HIDE DEF g
    <2> QED BY <2>1, <2>2, <2>3, <2>4
  <1>2. CASE ~ IsProbeTemp(p)
    BY <1>2 DEF Generalize
  <1> QED BY <1>1, <1>2

(* Writing a directory as a variable changes no name.                      *)
SameNames(t, s) ==
  /\ t \in Seq(Comps)
  /\ Len(t) = Len(s)
  /\ \A i \in 1..Len(s) : t[i].name = s[i].name

LEMMA ReplaceIs ==
  ASSUME NEW s \in Seq(Comps), NEW dir, NEW var \in Marks
  PROVE  SameNames(Replace(s, dir, var), s)
  <1> DEFINE at == {j \in 0..Len(s) : Occurs(dir, s, j)}
             first == CHOOSE k \in at : \A l \in at : k <= l
             runs == <<Last(dir), s[first + Len(dir)].name>>
             mark == IF runs \in DOMAIN Rest /\ Rest[runs] = "ident" THEN "?" ELSE var
             inside == (first + 1)..(first + Len(dir))
             t == [i \in DOMAIN s |->
                     IF i \in inside THEN [name |-> s[i].name, in |-> mark] ELSE s[i]]
  <1>1. Replace(s, dir, var) = IF at = {} THEN s ELSE t
    BY DEF Replace
  <1>2. mark \in Marks
    BY DEF Marks
  <1> HIDE DEF at, mark, inside
  <1>3. \A i \in DOMAIN s : s[i] \in Comps /\ s[i].name \in Names
    <2>1. \A i \in DOMAIN s : s[i] \in Comps
      OBVIOUS
    <2>2. \A x \in Comps : x.name \in Names
      BY DEF Comps
    <2> QED BY <2>1, <2>2
  <1>4. \A i \in DOMAIN s : t[i] \in Comps /\ t[i].name = s[i].name
    <2> SUFFICES ASSUME NEW i \in DOMAIN s PROVE t[i] \in Comps /\ t[i].name = s[i].name
      OBVIOUS
    <2>1. t[i] = IF i \in inside THEN [name |-> s[i].name, in |-> mark] ELSE s[i]
      OBVIOUS
    <2> HIDE DEF t
    <2>2. [name |-> s[i].name, in |-> mark] \in Comps
      BY <1>2, <1>3 DEF Comps
    <2> QED BY <1>3, <2>1, <2>2
  <1>5. t \in Seq(Comps) /\ Len(t) = Len(s)
    <2>1. DOMAIN s = 1..Len(s) /\ Len(s) \in Nat
      OBVIOUS
    <2>2. t \in [1..Len(s) -> Comps]
      BY <1>4, <2>1
    <2> HIDE DEF t
    <2> QED BY <2>1, <2>2
  <1> HIDE DEF t
  <1> QED BY <1>1, <1>4, <1>5 DEF SameNames

LEMMA AnyPidIs ==
  ASSUME NEW s \in Seq(Comps)
  PROVE  /\ AnyPid(s) \in Seq(Comps) /\ Len(AnyPid(s)) = Len(s)
         /\ \A i \in 1..Len(s) : AnyPid(s)[i].name \in {s[i].name, "*"}
  <1> DEFINE c == [name |-> "*", in |-> "/"]
             t == [s EXCEPT ![2] = c]
  <1>1. AnyPid(s) \in {s, t}
    BY DEF AnyPid
  <1>2. c \in Comps /\ c.name = "*"
    BY DEF Comps, Names, Marks
  <1> HIDE DEF c
  <1>3. t \in Seq(Comps) /\ Len(t) = Len(s) /\ \A i \in 1..Len(s) : t[i] = s[i] \/ t[i] = c
    <2>1. DOMAIN s = 1..Len(s) /\ Len(s) \in Nat /\ \A i \in 1..Len(s) : s[i] \in Comps
      OBVIOUS
    <2>2. t = [i \in 1..Len(s) |-> IF i = 2 THEN c ELSE s[i]]
      BY <2>1
    <2> HIDE DEF t
    <2>3. t \in [1..Len(s) -> Comps]
      BY <1>2, <2>1, <2>2
    <2>4. t \in Seq(Comps) /\ Len(t) = Len(s)
      BY <2>1, <2>3
    <2> QED BY <2>2, <2>4
  <1> HIDE DEF t
  <1> QED BY <1>1, <1>2, <1>3

LEMMA NormalIs ==
  ASSUME NEW p \in Seq(Names)
  PROVE  /\ normalizePath(p) \in Patterns
         /\ normalizePath(p).root = "plain" /\ normalizePath(p).deep = FALSE
         /\ Len(normalizePath(p).seg) = Len(p)
         /\ \A i \in 1..Len(p) : normalizePath(p).seg[i].name \in {p[i], "*"}
  <1> DEFINE s == Plain(p)
             t == Replace(s, WorkDir, "$WORKDIR")
             u == Replace(t, HomeDir, "$HOME")
             v == AnyPid(u)
  <1>1. s \in Seq(Comps) /\ Len(s) = Len(p) /\ \A i \in 1..Len(p) : s[i].name = p[i]
    <2>1. s = [i \in DOMAIN p |-> [name |-> p[i], in |-> "/"]]
      BY DEF Plain, Written
    <2>2. \A i \in DOMAIN p : [name |-> p[i], in |-> "/"] \in Comps
      BY DEF Comps, Marks
    <2> HIDE DEF s
    <2>3. s \in [1..Len(p) -> Comps] /\ Len(p) \in Nat
      BY <2>1, <2>2
    <2> QED BY <2>1, <2>3
  <1> HIDE DEF s
  <1>2. SameNames(t, s)
    BY <1>1, ReplaceIs DEF Marks
  <1>3. t \in Seq(Comps)
    BY <1>2 DEF SameNames
  <1> HIDE DEF t
  <1>4. SameNames(u, t)
    BY <1>3, ReplaceIs DEF Marks
  <1>5. u \in Seq(Comps)
    BY <1>4 DEF SameNames
  <1> HIDE DEF u
  <1>6. /\ v \in Seq(Comps) /\ Len(v) = Len(u)
        /\ \A i \in 1..Len(u) : v[i].name \in {u[i].name, "*"}
    BY <1>5, AnyPidIs
  <1>7. normalizePath(p) = [root |-> "plain", seg |-> v, deep |-> FALSE]
    BY DEF normalizePath, Pattern, v, u, t, s
  <1> HIDE DEF v
  <1>8. Len(v) = Len(p) /\ \A i \in 1..Len(p) : v[i].name \in {p[i], "*"}
    BY <1>1, <1>2, <1>4, <1>6 DEF SameNames
  <1>9. normalizePath(p) \in Patterns
    BY <1>6, <1>7 DEF Patterns
  <1> QED BY <1>7, <1>8, <1>9

(* What Wanted hands to collapseToGlobs.                                   *)
Collapsible(n) == n \in Patterns /\ n.deep = FALSE /\ n.root = "plain" /\ n.seg # << >>

Prefix(s, t) == Len(s) <= Len(t) /\ \A i \in 1..Len(s) : s[i] = t[i]

LEMMA CutIs ==
  ASSUME NEW s \in Seq(Comps), NEW k \in 1..Len(s)
  PROVE  SubSeq(s, 1, k - 1) \in Seq(Comps) /\ Len(SubSeq(s, 1, k - 1)) = k - 1
         /\ Prefix(SubSeq(s, 1, k - 1), s)
  <1> DEFINE l == k - 1
             c == SubSeq(s, 1, l)
  <1>1. 1 \in 1..(Len(s) + 1) /\ l \in 0..Len(s) /\ 1 <= l + 1 /\ l \in Nat /\ Len(s) \in Nat
    OBVIOUS
  <1> HIDE DEF l
  <1>2. /\ c \in Seq(Comps) /\ Len(c) = l - 1 + 1
        /\ \A i \in 1..(l - 1 + 1) : c[i] = s[1 + i - 1]
    BY <1>1, SliceIs
  <1> HIDE DEF c
  <1>3. Len(c) = l /\ \A i \in 1..l : c[i] = s[i]
    BY <1>1, <1>2
  <1>4. Prefix(c, s)
    BY <1>1, <1>3 DEF Prefix
  <1> QED BY <1>2, <1>3, <1>4 DEF c, l

LEMMA GlobIs ==
  ASSUME NEW n, Collapsible(n)
  PROVE  /\ globForPath(n) \in Patterns
         /\ Prefix(globForPath(n).seg, n.seg)
         /\ ~ globForPath(n).deep => globForPath(n) = n
         /\ globForPath(n).root \in {"plain", "//"}
  <1> DEFINE s == n.seg
             T == ThirdOn(s)
             third == CHOOSE k \in T : \A l \in T : k <= l
  <1>1. s \in Seq(Comps) /\ Len(s) \in Nat \ {0} /\ DOMAIN s = 1..Len(s) /\ n.root = "plain"
    BY DEF Collapsible, Patterns
  <1>2. T \subseteq 1..Len(s)
    BY <1>1 DEF ThirdOn, PartStarts, Slashes
  <1>3. CASE T = {}
    <2>1. globForPath(n) = n
      BY <1>3 DEF globForPath
    <2> QED BY <1>1, <2>1 DEF Prefix, Collapsible
  <1>4. CASE T # {}
    <2>1. globForPath(n) = [root |-> IF Rooted(s) THEN "plain" ELSE "//",
                            seg |-> SubSeq(s, 1, third - 1), deep |-> TRUE]
      BY <1>4 DEF globForPath, Pattern
    <2>2. third \in T
      <3>1. T \in SUBSET Nat
        BY <1>2
      <3> HIDE DEF T
      <3>2. \E k \in T : \A l \in T : k <= l
        BY <1>4, <3>1, LeastNatural
      <3> QED BY <3>2
    <2> DEFINE c == SubSeq(s, 1, third - 1)
    <2>3. third \in 1..Len(s)
      BY <1>2, <2>2
    <2> HIDE DEF third
    <2>4. c \in Seq(Comps) /\ Prefix(c, s)
      BY <1>1, <2>3, CutIs
    <2> HIDE DEF c, s
    <2> DEFINE g == globForPath(n)
               r == IF Rooted(s) THEN "plain" ELSE "//"
    <2>5. r \in {"plain", "//"}
      OBVIOUS
    <2> HIDE DEF r
    <2>6. g = [root |-> r, seg |-> c, deep |-> TRUE]
      BY <2>1 DEF c, r
    <2> HIDE DEF g
    <2>7. g \in Patterns /\ g.root = r /\ g.seg = c /\ g.deep = TRUE
      BY <2>4, <2>5, <2>6 DEF Patterns
    <2> QED BY <2>4, <2>5, <2>7 DEF g, s
  <1> QED BY <1>3, <1>4

(* A path matches its own glob, if neither a variable nor a name in it is  *)
(* taken for another.                                                      *)
LEMMA ExpandIs ==
  ASSUME NEW n \in Patterns, ~ Misread(n.seg)
  PROVE  Len(Expand(n)) = Len(n.seg) /\ \A i \in 1..Len(n.seg) : Expand(n)[i] = n.seg[i].name
  <1>1. n.seg \in Seq(Comps) /\ DOMAIN n.seg = 1..Len(n.seg) /\ Len(n.seg) \in Nat
    BY DEF Patterns
  <1>2. Expand(n) = [i \in 1..Len(n.seg) |-> n.seg[i].name]
    BY <1>1 DEF Expand
  <1> QED BY <1>1, <1>2

LEMMA GlobMatches ==
  ASSUME NEW p \in Seq(Names), Collapsible(normalizePath(Generalize(p))),
         NEW g, g = globForPath(normalizePath(Generalize(p))),
         g.root # "//", ~ Misread(g.seg), \A i \in DOMAIN g.seg : g.seg[i].name \notin OddNames
  PROVE  Matches(g, p)
  <1> DEFINE q == Generalize(p)
             n == normalizePath(q)
  <1>1. /\ q \in Seq(Names) /\ Len(q) = Len(p)
        /\ \A i \in 1..Len(p) :
             \/ q[i] = p[i]
             \/ q[i] = "_tmp_*" /\ p[i] \in ProbeNames
    BY GeneralizeIs
  <1> HIDE DEF q
  <1>2. n \in Patterns /\ Len(n.seg) = Len(q) /\ \A i \in 1..Len(q) : n.seg[i].name \in {q[i], "*"}
    BY <1>1, NormalIs
  <1>3. Collapsible(n) /\ g = globForPath(n)
    BY DEF n, q
  <1> HIDE DEF n
  <1>4. /\ g \in Patterns /\ Prefix(g.seg, n.seg) /\ (~ g.deep => g = n) /\ g.root = "plain"
    BY <1>3, GlobIs
  <1>5. Len(Expand(g)) = Len(g.seg) /\ \A i \in 1..Len(g.seg) : Expand(g)[i] = g.seg[i].name
    BY <1>4, ExpandIs
  <1>6. DOMAIN g.seg = 1..Len(g.seg) /\ Len(g.seg) \in Nat /\ Len(n.seg) \in Nat
    BY <1>2, <1>4 DEF Patterns
  <1>7. ASSUME NEW i \in 1..Len(g.seg) PROVE SameComponent(Expand(g)[i], p[i])
    <2>1. i \in 1..Len(n.seg) /\ g.seg[i] = n.seg[i]
      BY <1>4, <1>6 DEF Prefix
    <2>2. Expand(g)[i] \in {q[i], "*"} /\ Expand(g)[i] \notin OddNames
      BY <1>2, <1>5, <1>6, <2>1
    <2>3. q[i] = p[i] \/ (q[i] = "_tmp_*" /\ p[i] \in ProbeNames)
      BY <1>1, <1>2, <2>1
    <2> QED BY <2>2, <2>3 DEF SameComponent
  <1>8. IF g.deep THEN Len(p) >= Len(Expand(g)) ELSE Len(p) = Len(Expand(g))
    BY <1>1, <1>2, <1>4, <1>5, <1>6 DEF Prefix
  <1> QED BY <1>4, <1>5, <1>7, <1>8 DEF Matches

(* h is g itself, or a glob for a directory above it.                      *)
Covers(h, g) == h.root = g.root /\ (h = g \/ (h.deep = TRUE /\ Prefix(h.seg, g.seg)))

LEMMA CoveringMatches ==
  ASSUME NEW g \in Patterns, NEW h \in Patterns, Covers(h, g), ~ Misread(g.seg),
         NEW p \in Seq(Names), Matches(g, p)
  PROVE  Matches(h, p)
  <1>1. CASE h = g
    BY <1>1
  <1>2. CASE h.deep = TRUE /\ Prefix(h.seg, g.seg)
    <2>1. /\ h.seg \in Seq(Comps) /\ g.seg \in Seq(Comps) /\ Len(h.seg) \in Nat /\ Len(g.seg) \in Nat
          /\ DOMAIN h.seg = 1..Len(h.seg) /\ DOMAIN g.seg = 1..Len(g.seg) /\ g.deep \in BOOLEAN
      BY DEF Patterns
    <2>2. ~ Misread(h.seg)
      BY <1>2, <2>1 DEF Misread, Prefix
    <2>3. /\ Len(Expand(h)) = Len(h.seg)
          /\ \A i \in 1..Len(h.seg) : Expand(h)[i] = h.seg[i].name
      BY <2>2, ExpandIs
    <2>4. /\ Len(Expand(g)) = Len(g.seg)
          /\ \A i \in 1..Len(g.seg) : Expand(g)[i] = g.seg[i].name
      BY ExpandIs
    <2>5. /\ g.root = "plain" /\ Len(p) >= Len(g.seg)
          /\ \A i \in 1..Len(g.seg) : SameComponent(Expand(g)[i], p[i])
      BY <2>1, <2>4 DEF Matches
    <2>6. h.root = "plain" /\ Len(p) >= Len(h.seg)
      BY <1>2, <2>1, <2>5 DEF Covers, Prefix
    <2>7. \A i \in 1..Len(h.seg) : SameComponent(Expand(h)[i], p[i])
      <3>1. \A i \in 1..Len(h.seg) : i \in 1..Len(g.seg) /\ h.seg[i] = g.seg[i]
        BY <1>2, <2>1 DEF Prefix
      <3>2. \A i \in 1..Len(h.seg) : Expand(h)[i] = Expand(g)[i]
        BY <2>3, <2>4, <3>1
      <3> QED BY <2>5, <3>1, <3>2
    <2> QED BY <1>2, <2>3, <2>6, <2>7 DEF Matches
  <1> QED BY <1>1, <1>2 DEF Covers

LEMMA ParentGlobIs ==
  ASSUME NEW n, Collapsible(n)
  PROVE  /\ GlobOf(ParentOf(n)) \in Patterns
         /\ Slashes(n.seg) = {} => GlobOf(ParentOf(n)) = Pattern(".", << >>, TRUE)
         /\ Slashes(n.seg) \notin {{}, {1}} => Covers(GlobOf(ParentOf(n)), n)
  <1> DEFINE s == n.seg
             T == Slashes(s)
             last == CHOOSE k \in T : \A l \in T : k >= l
             h == GlobOf(ParentOf(n))
  <1>1. s \in Seq(Comps) /\ Len(s) \in Nat \ {0} /\ DOMAIN s = 1..Len(s) /\ n.root = "plain"
    BY DEF Collapsible, Patterns
  <1>2. T \subseteq 1..Len(s)
    BY <1>1 DEF Slashes
  <1>3. CASE T = {}
    <2>1. ParentOf(n) = [root |-> ".", seg |-> << >>, deep |-> FALSE]
      BY <1>3 DEF ParentOf, Pattern
    <2>2. h = [root |-> ".", seg |-> << >>, deep |-> TRUE]
      BY <2>1 DEF GlobOf, Pattern
    <2> HIDE DEF h
    <2>3. << >> \in Seq(Comps)
      OBVIOUS
    <2>4. h \in Patterns
      BY <2>2, <2>3 DEF Patterns
    <2> QED BY <1>3, <2>2, <2>4 DEF Pattern, h
  <1>4. CASE T # {}
    <2>1. last \in T /\ \A l \in T : last >= l
      <3> HIDE DEF T
      <3>1. \E k \in T : \A l \in T : k >= l
        BY <1>1, <1>2, <1>4, GreatestBelow
      <3> QED BY <3>1
    <2> DEFINE c == SubSeq(s, 1, last - 1)
               r == IF c = << >> THEN "//" ELSE "plain"
    <2>2. ParentOf(n) = [root |-> "plain", seg |-> c, deep |-> FALSE]
      BY <1>4 DEF ParentOf, Pattern
    <2>3. last \in 1..Len(s)
      BY <1>2, <2>1
    <2> HIDE DEF last, T
    <2>4. c \in Seq(Comps) /\ Len(c) = last - 1 /\ Prefix(c, s)
      BY <1>1, <2>3, CutIs
    <2> HIDE DEF c
    <2>5. h = [root |-> r, seg |-> c, deep |-> TRUE]
      BY <2>2 DEF GlobOf, Pattern
    <2>6. r \in {"plain", "//"}
      OBVIOUS
    <2> HIDE DEF h
    <2>7. h \in Patterns
      <3> HIDE DEF r
      <3> QED BY <2>4, <2>5, <2>6 DEF Patterns
    <2>8. T # {1} => Covers(h, n)
      <3> SUFFICES ASSUME T # {1} PROVE Covers(h, n)
        OBVIOUS
      <3>1. last # 1
        <4> SUFFICES ASSUME last = 1 PROVE FALSE
          OBVIOUS
        <4>1. \A l \in T : l = 1
          BY <1>1, <1>2, <2>1
        <4> QED BY <2>1, <4>1
      <3>2. c # << >>
        BY <2>3, <2>4, <3>1
      <3>3. h.root = "plain" /\ h.seg = c /\ h.deep = TRUE
        BY <2>5, <3>2
      <3> QED BY <1>1, <2>4, <3>3 DEF Covers
    <2> QED BY <1>4, <2>7, <2>8 DEF h, T
  <1> QED BY <1>3, <1>4

(* A glob that covers a covering glob covers as well, and is shorter.      *)
LEMMA CoveredIsShorter ==
  ASSUME NEW g \in Patterns, NEW h \in Patterns, NEW b \in Patterns, Covers(h, g), coveredBy(b, h)
  PROVE  Covers(b, g) /\ Len(b.seg) < Len(h.seg)
  <1>1. /\ b.seg \in Seq(Comps) /\ h.seg \in Seq(Comps) /\ g.seg \in Seq(Comps)
        /\ Len(b.seg) \in Nat /\ Len(h.seg) \in Nat /\ Len(g.seg) \in Nat
        /\ b.deep \in BOOLEAN
    BY DEF Patterns
  <1>2. /\ b.deep = TRUE /\ b.root = h.root /\ Len(h.seg) > Len(b.seg)
        /\ SubSeq(h.seg, 1, Len(b.seg)) = b.seg
    BY <1>1 DEF coveredBy, Under
  <1>3. \A i \in 1..Len(b.seg) : b.seg[i] = h.seg[i]
    <2> DEFINE l == Len(b.seg)
    <2>1. 1 \in 1..(Len(h.seg) + 1) /\ l \in 0..Len(h.seg) /\ 1 <= l + 1
      BY <1>1, <1>2
    <2>2. \A i \in 1..(l - 1 + 1) : SubSeq(h.seg, 1, l)[i] = h.seg[1 + i - 1]
      BY <1>1, <2>1, SliceIs
    <2> QED BY <1>1, <1>2, <2>2
  <1>4. h.root = g.root /\ Prefix(h.seg, g.seg)
    BY <1>1 DEF Covers, Prefix
  <1>5. Prefix(b.seg, g.seg)
    BY <1>1, <1>2, <1>3, <1>4 DEF Prefix
  <1> QED BY <1>2, <1>4, <1>5 DEF Covers

(* The patterns before covered ones are dropped.                           *)
Dirs0(wanted) ==
  {n \in Globs(wanted) : n.deep}
    \cup {GlobOf(p) : p \in promoted(Exact(wanted))}
    \cup {n \in Exact(wanted) : ParentOf(n) \notin promoted(Exact(wanted))}

LEMMA CollapseCovers ==
  ASSUME NEW wanted, \A m \in wanted : Collapsible(m),
         NEW n \in wanted, ~ Lost(n, wanted),
         \A h \in collapseToGlobs(wanted) : ~ Unanchored(h)
  PROVE  \E h \in collapseToGlobs(wanted) : h \in Patterns /\ Covers(h, globForPath(n))
  <1> DEFINE dirs == Dirs0(wanted)
             g == globForPath(n)
  <1>1. collapseToGlobs(wanted) = {m \in dirs : \A b \in dirs : ~ coveredBy(b, m)}
    BY DEF collapseToGlobs, Dirs0
  <1>2. \A m \in Exact(wanted) : m \in wanted
    BY GlobIs DEF Exact, Globs
  <1>3. dirs \subseteq Patterns
    <2>1. Globs(wanted) \subseteq Patterns
      BY GlobIs DEF Globs
    <2>2. \A p \in promoted(Exact(wanted)) : GlobOf(p) \in Patterns
      BY <1>2, ParentGlobIs DEF promoted
    <2> QED BY <2>1, <2>2 DEF Dirs0, Exact
  <1>10. g \in Globs(wanted) /\ g \in Patterns /\ (~ g.deep => g = n)
    BY GlobIs DEF Globs
  <1>4. \E h \in dirs : Covers(h, g)
    <2>1. Covers(g, g)
      BY DEF Covers
    <2>2. CASE g.deep
      BY <1>10, <2>1, <2>2 DEF Dirs0
    <2>3. CASE ~ g.deep /\ ParentOf(n) \notin promoted(Exact(wanted))
      BY <1>10, <2>1, <2>3 DEF Dirs0, Exact
    <2>4. CASE ~ g.deep /\ ParentOf(n) \in promoted(Exact(wanted))
      <3> DEFINE h == GlobOf(ParentOf(n))
      <3>1. h \in dirs
        BY <2>4 DEF Dirs0
      <3>2. Slashes(n.seg) # {1}
        BY <2>4 DEF Lost
      <3>3. Slashes(n.seg) # {}
        <4> SUFFICES ASSUME Slashes(n.seg) = {} PROVE FALSE
          OBVIOUS
        <4>1. h = [root |-> ".", seg |-> << >>, deep |-> TRUE]
          BY ParentGlobIs DEF Pattern
        <4> HIDE DEF h, dirs
        <4>2. h.root = "." /\ h.seg = << >>
          BY <4>1
        <4>3. ASSUME NEW b \in dirs, coveredBy(b, h) PROVE FALSE
          <5>1. b.seg \in Seq(Comps)
            BY <1>3 DEF Patterns
          <5>2. Len(h.seg) > Len(b.seg)
            BY <4>3 DEF coveredBy, Under
          <5> QED BY <4>2, <5>1, <5>2
        <4>4. h \in collapseToGlobs(wanted)
          BY <1>1, <3>1, <4>3
        <4> QED BY <4>2, <4>4 DEF Unanchored
      <3>4. Covers(h, n)
        BY <3>2, <3>3, ParentGlobIs
      <3> QED BY <1>10, <2>4, <3>1, <3>4
    <2> QED BY <2>2, <2>3, <2>4
  <1> HIDE DEF dirs, g
  <1> DEFINE lens == {Len(h.seg) : h \in {m \in dirs : Covers(m, g)}}
  <1>5. lens \in SUBSET Nat /\ lens # {}
    <2>1. \A h \in dirs : h.seg \in Seq(Comps)
      BY <1>3 DEF Patterns
    <2>2. \A h \in dirs : Len(h.seg) \in Nat
      BY <2>1
    <2> QED BY <1>4, <2>2
  <1>6. PICK l \in lens : \A m \in lens : l <= m
    BY <1>5, LeastNatural
  <1>7. PICK h \in dirs : Covers(h, g) /\ Len(h.seg) = l
    BY <1>6
  <1>8. ASSUME NEW b \in dirs, coveredBy(b, h) PROVE FALSE
    <2>1. Covers(b, g) /\ Len(b.seg) < Len(h.seg)
      BY <1>3, <1>7, <1>8, <1>10, CoveredIsShorter
    <2>2. Len(b.seg) \in lens /\ Len(b.seg) \in Nat /\ l \in Nat
      BY <1>5, <1>6, <2>1
    <2>3. l <= Len(b.seg)
      BY <1>6, <2>2
    <2> QED BY <1>7, <2>1, <2>2, <2>3
  <1>9. h \in collapseToGlobs(wanted)
    BY <1>1, <1>8
  <1> QED BY <1>3, <1>7, <1>9 DEF g

LEMMA WantedIsCollapsible ==
  ASSUME NEW recs, \A r \in recs : r.path \in Seq(Names), NEW a, NEW n \in Wanted(recs, a)
  PROVE  Collapsible(n)
  <1>1. PICK r \in recs : n = normalizePath(Generalize(r.path)) /\ ~ isBasePath(n, a)
    BY DEF Wanted
  <1>2. Generalize(r.path) \in Seq(Names)
    BY GeneralizeIs
  <1>3. n \in Patterns /\ n.root = "plain" /\ n.deep = FALSE
    BY <1>1, <1>2, NormalIs
  <1>4. n.seg # << >>
    BY <1>1 DEF isBasePath
  <1> QED BY <1>3, <1>4 DEF Collapsible

(* The policy GeneratePolicy writes allows what was denied.                *)
LEMMA GeneratedAllows ==
  ASSUME NEW recs, \A s \in recs : s.path \in Seq(Names), Loads(GeneratePolicy(recs)),
         NEW r \in recs, r.verdict = "deny", ~ r.unresolved, r.action \in FileActions,
         ~ (IsProbeTemp(r.path) /\ Len(r.path) = 1),
         ~ isBasePath(normalizePath(Generalize(r.path)), r.action),
         ~ Lost(normalizePath(Generalize(r.path)), Wanted(recs, r.action))
  PROVE  AllowedBy(GeneratePolicy(recs), r.action, r.path)
  <1> DEFINE n == normalizePath(Generalize(r.path))
             a == r.action
             g == globForPath(n)
             globs == [c \in FileActions |-> collapseToGlobs(Wanted(recs, c))]
             rule == [actions |-> {b \in FileActions : globs[b] = globs[a]}, globs |-> globs[a]]
  <1>1. n \in Wanted(recs, a)
    BY DEF Wanted
  <1>2. Collapsible(n) /\ \A m \in Wanted(recs, a) : Collapsible(m)
    BY <1>1, WantedIsCollapsible
  <1>3. globs[a] # {} => rule \in GeneratePolicy(recs)
    BY DEF GeneratePolicy
  <1>4. \A h \in collapseToGlobs(Wanted(recs, a)) : ~ Unanchored(h)
    <2>1. globs[a] = collapseToGlobs(Wanted(recs, a)) /\ rule.globs = globs[a]
      OBVIOUS
    <2> HIDE DEF rule, globs
    <2> QED BY <1>3, <2>1 DEF Loads
  <1>5. PICK h \in collapseToGlobs(Wanted(recs, a)) : h \in Patterns /\ Covers(h, g)
    BY <1>1, <1>2, <1>4, CollapseCovers
  <1>6. g \in Patterns /\ g.root # "//" /\ ~ Misread(g.seg)
        /\ \A i \in DOMAIN g.seg : g.seg[i].name \notin OddNames
    BY <1>2, GlobIs DEF Lost
  <1>7. Matches(g, r.path)
    BY <1>2, <1>6, GlobMatches
  <1> HIDE DEF g
  <1>8. Matches(h, r.path)
    BY <1>5, <1>6, <1>7, CoveringMatches
  <1>9. globs[a] # {} /\ h \in globs[a] /\ a \in FileActions
    BY <1>5
  <1>10. a \in rule.actions /\ h \in rule.globs
    BY <1>9
  <1> QED BY <1>3, <1>8, <1>9, <1>10 DEF AllowedBy

-----------------------------------------------------------------------------
(* The registers of a call.                                                *)

LEMMA Remainder ==
  ASSUME NEW m \in Nat \ {0}, NEW x \in Int, NEW h \in Int
  PROVE  ((x % m) + h * m) % m = x % m
  <1>1. x % m \in 0..(m - 1)
    OBVIOUS
  <1> QED BY <1>1, SMT

(* The low half of the register is the number the caller passed, whatever  *)
(* is in the high half.                                                    *)
LEMMA DirfdIs ==
  ASSUME req \in Requests, NEW i \in Arguments
  PROVE  Dirfd(i) = ActualFd(i)
  <1>1. CASE req.call \notin AtCalls
    BY <1>1 DEF Dirfd, ActualFd
  <1>2. CASE req.call \in AtCalls
    <2> DEFINE h == 2^(Width - 1)
               m == 2^Width
               x == req.dirfd[i].int
               v == (x % m) + req.dirfd[i].high * m
    <2>1. h \in Nat \ {0} /\ m \in Nat \ {0} /\ m = 2 * h
      BY DecoderAssumption
    <2>2. x \in (-h)..(h - 1) /\ req.dirfd[i].high \in Nat
      BY <1>2, RequestAssumption DEF IsRequest, IsInt, Arguments
    <2> HIDE DEF h, m, x
    <2>3. v % m = x % m
      <3>1. x \in Int /\ req.dirfd[i].high \in Int
        BY <2>1, <2>2
      <3> QED BY <2>1, <3>1, Remainder, Zenon
    <2>4. CASE x >= 0
      <3>1. x % m = x
        BY <2>1, <2>2, <2>4
      <3>2. (IF v % m >= h THEN (v % m) - m ELSE v % m) = x
        BY <2>1, <2>2, <2>3, <2>4, <3>1
      <3> QED BY <1>2, <3>2 DEF Dirfd, ActualFd, dirfdArg, Register, h, m, x
    <2>5. CASE x < 0
      <3>1. x % m = x + m
        BY <2>1, <2>2, <2>5
      <3>2. (IF v % m >= h THEN (v % m) - m ELSE v % m) = x
        BY <2>1, <2>2, <2>3, <2>5, <3>1
      <3> QED BY <1>2, <3>2 DEF Dirfd, ActualFd, dirfdArg, Register, h, m, x
    <2> QED BY <2>2, <2>4, <2>5
  <1> QED BY <1>1, <1>2

-----------------------------------------------------------------------------
(* How far Decode is.                                                      *)

S(i) == [do |-> "string", arg |-> i]
B == [do |-> "bytes", arg |-> 1]
R(i) == [do |-> "resolve", arg |-> i]

(* The address of a connect is long enough to be read.                     *)
Asks(r) == r.bytes.is # "null" /\ addrLen(r.addr) >= 2

(* The reads p are left, s strings are read and d paths resolved.          *)
AtStage(p, s, d) ==
  LET n == PathCount(req.call)
  IN  \/ p = << >> /\ s = n /\ d = n
      \/ n = 0 /\ s = 0 /\ d = 0 /\ req.call = "connect" /\ Asks(req) /\ p = <<B>>
      \/ n = 1 /\ s = 0 /\ d = 0 /\ req.call # "openat2" /\ p = <<S(1), R(1)>>
      \/ n = 1 /\ s = 0 /\ d = 0 /\ req.call = "openat2" /\ p = <<S(1), B, R(1)>>
      \/ n = 1 /\ s = 1 /\ d = 0 /\ req.call = "openat2" /\ p = <<B, R(1)>>
      \/ n = 1 /\ s = 1 /\ d = 0 /\ p = <<R(1)>>
      \/ n = 2 /\ s = 0 /\ d = 0 /\ req.call # "openat2" /\ p = <<S(1), S(2), R(1), R(2)>>
      \/ n = 2 /\ s = 1 /\ d = 0 /\ req.call # "openat2" /\ p = <<S(2), R(1), R(2)>>
      \/ n = 2 /\ s = 2 /\ d = 0 /\ req.call # "openat2" /\ p = <<R(1), R(2)>>
      \/ n = 2 /\ s = 2 /\ d = 1 /\ req.call # "openat2" /\ p = <<R(2)>>

BytesLeft(p) == p \in {<<B>>, <<S(1), B, R(1)>>, <<B, R(1)>>}

(* What the first read is, and where the others stand.                     *)
Ahead(p, s, d) ==
  /\ Head(p).do \in {"string", "bytes", "resolve"}
  /\ Head(p).do = "string" =>
       /\ Head(p).arg = s + 1 /\ s + 1 \in 1..PathCount(req.call)
       /\ AtStage(Tail(p), s + 1, d)
       /\ req.call = "openat2" => BytesLeft(p) /\ BytesLeft(Tail(p))
  /\ Head(p).do = "bytes" =>
       /\ AtStage(Tail(p), s, d)
       /\ BytesLeft(p) /\ ~ BytesLeft(Tail(p))
       /\ req.call = "openat2" => Tail(p) # << >>
       /\ req.call = "openat2" \/ (req.call = "connect" /\ Asks(req))
  /\ Head(p).do = "resolve" =>
       /\ Head(p).arg = d + 1 /\ d + 1 \in 1..PathCount(req.call)
       /\ s = PathCount(req.call)
       /\ AtStage(Tail(p), s, d + 1)
       /\ ~ BytesLeft(p) /\ ~ BytesLeft(Tail(p))

LEMMA StageAhead ==
  ASSUME NEW p, NEW s \in Nat, NEW d \in Nat, AtStage(p, s, d), p # << >>
  PROVE  Ahead(p, s, d)
  <1> USE DEF Ahead, AtStage, BytesLeft, S, B, R
  <1>1. CASE p = <<B>>
    BY <1>1
  <1>2. CASE p = <<S(1), R(1)>>
    BY <1>2
  <1>3. CASE p = <<S(1), B, R(1)>>
    BY <1>3
  <1>4. CASE p = <<B, R(1)>>
    BY <1>4
  <1>5. CASE p = <<R(1)>>
    BY <1>5
  <1>6. CASE p = <<S(1), S(2), R(1), R(2)>>
    BY <1>6
  <1>7. CASE p = <<S(2), R(1), R(2)>>
    BY <1>7
  <1>8. CASE p = <<R(1), R(2)>>
    BY <1>8
  <1>9. CASE p = <<R(2)>>
    BY <1>9
  <1> QED BY <1>1, <1>2, <1>3, <1>4, <1>5, <1>6, <1>7, <1>8, <1>9

LEMMA JoinedShort ==
  ASSUME NEW a, NEW b, NEW c
  PROVE  /\ <<a>> \o << >> \o <<b>> = <<a, b>>
         /\ <<a>> \o <<b>> \o <<c>> = <<a, b, c>>
  <1> DEFINE T == {a, b, c}
  <1>0. a \in T /\ b \in T /\ c \in T
    OBVIOUS
  <1>1. <<a>> \o << >> = <<a>>
    OBVIOUS
  <1>2. /\ <<a>> \in Seq(T) /\ <<b>> \in Seq(T) /\ <<c>> \in Seq(T)
        /\ <<a, b>> \in Seq(T)
    OBVIOUS
  <1>3. <<a>> \o <<b>> = <<a, b>>
    <2> DEFINE u == <<a>> \o <<b>>
    <2>1. u \in Seq(T) /\ Len(u) = 2 /\ u[1] = a /\ u[2] = b
      BY <1>2, ConcatProperties
    <2>2. <<a, b>> \in Seq(T) /\ Len(<<a, b>>) = 2
      BY <1>0
    <2> HIDE DEF u, T
    <2>3. \A i \in 1..Len(u) : u[i] = <<a, b>>[i]
      BY <2>1
    <2>4. u = <<a, b>>
      BY <2>1, <2>2, <2>3, SeqEqual
    <2> QED BY <2>4 DEF u
  <1>4. <<a, b>> \o <<c>> = <<a, b, c>>
    <2> DEFINE u == <<a, b>> \o <<c>>
    <2>1. u \in Seq(T) /\ Len(u) = 3 /\ u[1] = a /\ u[2] = b /\ u[3] = c
      BY <1>2, ConcatProperties
    <2>2. <<a, b, c>> \in Seq(T) /\ Len(<<a, b, c>>) = 3
      BY <1>0
    <2> HIDE DEF u, T
    <2>3. \A i \in 1..Len(u) : u[i] = <<a, b, c>>[i]
      BY <2>1
    <2>4. u = <<a, b, c>>
      BY <2>1, <2>2, <2>3, SeqEqual
    <2> QED BY <2>4 DEF u
  <1> QED BY <1>1, <1>3, <1>4

LEMMA JoinedPairs ==
  ASSUME NEW a, NEW b, NEW c, NEW d
  PROVE  <<a, b>> \o << >> \o <<c, d>> = <<a, b, c, d>>
  <1> DEFINE T == {a, b, c, d}
  <1>0. a \in T /\ b \in T /\ c \in T /\ d \in T
    OBVIOUS
  <1>1. <<a, b>> \o << >> = <<a, b>>
    OBVIOUS
  <1>2. <<a, b>> \in Seq(T) /\ <<c, d>> \in Seq(T)
    OBVIOUS
  <1>3. <<a, b>> \o <<c, d>> = <<a, b, c, d>>
    <2> DEFINE u == <<a, b>> \o <<c, d>>
    <2>1. u \in Seq(T) /\ Len(u) = 4 /\ u[1] = a /\ u[2] = b /\ u[3] = c /\ u[4] = d
      BY <1>2, ConcatProperties
    <2>2. <<a, b, c, d>> \in Seq(T) /\ Len(<<a, b, c, d>>) = 4
      BY <1>0
    <2> HIDE DEF u, T
    <2>3. \A i \in 1..Len(u) : u[i] = <<a, b, c, d>>[i]
      BY <2>1
    <2>4. u = <<a, b, c, d>>
      BY <2>1, <2>2, <2>3, SeqEqual
    <2> QED BY <2>4 DEF u
  <1> QED BY <1>1, <1>3

LEMMA PlanStart ==
  ASSUME NEW r, req' = r
  PROVE  /\ AtStage(PlanOf(r), 0, 0)'
         /\ r.call = "openat2" => BytesLeft(PlanOf(r))
         /\ r.call = "connect" => PlanOf(r) # << >> \/ ~ Asks(r)
  <1>1. /\ Ops("string", 0) = << >> /\ Ops("resolve", 0) = << >>
        /\ Ops("string", 1) = <<S(1)>> /\ Ops("resolve", 1) = <<R(1)>>
        /\ Ops("string", 2) = <<S(1), S(2)>> /\ Ops("resolve", 2) = <<R(1), R(2)>>
        /\ Ops("bytes", 1) = <<B>>
    BY DEF Ops, S, B, R
  <1>2. /\ r.call = "openat2" => PathCount(r.call) = 1
        /\ r.call = "connect" => PathCount(r.call) = 0
    BY DEF PathCount, PathCalls, OpenCalls, DeleteCalls, WriteCalls, MetadataCalls,
           ExecCalls, TwoPaths
  <1> DEFINE n == PathCount(r.call)
             bytes == r.call = "openat2" \/ (r.call = "connect" /\ Asks(r))
             middle == IF bytes THEN <<B>> ELSE << >>
  <1>3. PlanOf(r) = Ops("string", n) \o middle \o Ops("resolve", n)
    BY <1>1 DEF PlanOf, Asks
  <1>4. CASE n = 0
    <2>1. PlanOf(r) = middle
      BY <1>1, <1>3, <1>4
    <2> QED BY <1>2, <1>4, <2>1 DEF AtStage, BytesLeft
  <1>5. CASE n = 1
    <2>1. CASE r.call = "openat2"
      <3>1. PlanOf(r) = <<S(1)>> \o <<B>> \o <<R(1)>>
        BY <1>1, <1>3, <1>5, <2>1
      <3>2. PlanOf(r) = <<S(1), B, R(1)>>
        BY <3>1, JoinedShort
      <3> QED BY <1>5, <2>1, <3>2 DEF AtStage, BytesLeft
    <2>2. CASE r.call # "openat2"
      <3>0. middle = << >>
        BY <1>2, <1>5, <2>2
      <3>1. PlanOf(r) = <<S(1)>> \o << >> \o <<R(1)>>
        BY <1>1, <1>3, <1>5, <3>0
      <3>2. PlanOf(r) = <<S(1), R(1)>>
        BY <3>1, JoinedShort
      <3> QED BY <1>5, <2>2, <3>2 DEF AtStage
    <2> QED BY <2>1, <2>2
  <1>6. CASE n = 2
    <2>1. middle = << >>
      BY <1>2, <1>6
    <2>2. PlanOf(r) = <<S(1), S(2)>> \o << >> \o <<R(1), R(2)>>
      BY <1>1, <1>3, <1>6, <2>1
    <2>3. PlanOf(r) = <<S(1), S(2), R(1), R(2)>>
      <3>1. <<S(1), S(2)>> \o << >> \o <<R(1), R(2)>> = <<S(1), S(2), R(1), R(2)>>
        BY JoinedPairs
      <3> QED BY <2>2, <3>1
    <2> QED BY <1>2, <1>6, <2>3 DEF AtStage
  <1>7. n \in {0, 1, 2}
    BY DEF PathCount
  <1> QED BY <1>4, <1>5, <1>6, <1>7

-----------------------------------------------------------------------------
(* What Decode knows.                                                      *)

Reading == [ok : BOOLEAN, val : Arg, from : {"target", "resumed", "other", "gone", "nobody"}]

Types ==
  /\ req \in Requests
  /\ owner \in {"target", "resumed", "other", "gone"}
  /\ sub \in {"check", "read", "recheck"}
  /\ tmp \in Reading
  /\ strs \in Seq(Reading)
  /\ ev = [action |-> ev.action, path |-> ev.path, family |-> ev.family, name |-> ev.name,
           unresolved |-> ev.unresolved, empty |-> ev.empty]
  /\ ev.path \in Seq(Reading)
  /\ ev.unresolved \in BOOLEAN /\ ev.empty \in BOOLEAN

(* Unless something is unresolved, there is a path for each read done.     *)
Progress ==
  \E d \in 0..2 : AtStage(plan, Len(strs), d) /\ (ev.unresolved = FALSE => Len(ev.path) = d)

(* val is path argument i of the target; a null pointer reads as empty.    *)
IsString(i, val) ==
  \/ req.path[i].is = "path" /\ val = req.path[i]
  \/ req.path[i].is = "null" /\ val = EmptyString

IsActual(i, val) == val = ActualPath(i) /\ val.is = "path"

StringsTrue == \A i \in 1..Len(strs) : strs[i].ok = TRUE => IsString(i, strs[i].val)

PathsTrue ==
  ev.unresolved = FALSE => \A i \in 1..Len(ev.path) : IsActual(i, ev.path[i].val)

(* A value about to be checked again is right if the target is still       *)
(* there: it cannot have left and come back.                               *)
ReadTrue ==
  sub = "recheck" /\ owner = "target" =>
    /\ Op.do = "string" => IsString(Op.arg, tmp.val)
    /\ Op.do = "resolve" => IsActual(Op.arg, tmp.val)
    /\ Op.do = "bytes" => tmp.from = "target" /\ BytesOf(req).is = "path"

InRead ==
  sub # "check" =>
    /\ plan # << >>
    /\ Op.do = "resolve" => strs[Op.arg].ok = TRUE

(* Flags that were not read because the target left are wrong, but then    *)
(* the check before its path is resolved will fail.                        *)
ActionTrue ==
  IF req.call # "openat2" \/ BytesLeft(plan)
  THEN ev.action = ActionOf(req.call, req.write)
  ELSE \/ ev.unresolved = TRUE
       \/ ev.action = ActualAction
       \/ owner # "target" /\ sub = "check" /\ plan # << >>

(* The event has the address as far as it shows, or none; a target that is *)
(* still there was not denied a look at one that shows.                    *)
FamilyTrue ==
  \/ /\ ev.family = "none" /\ ev.name = NoName
     /\ req.call = "connect" /\ owner = "target" => plan # << >> \/ ~ AddressShows
  \/ /\ ev.family = parseSockaddr(req.addr).family /\ ev.name = parseSockaddr(req.addr).name
     /\ AddressShows

HasEmpty == \E i \in Arguments : req.path[i].is = "null" \/ req.path[i] = EmptyString

DecodeInv ==
  /\ Types /\ Progress /\ StringsTrue /\ PathsTrue /\ ReadTrue /\ InRead
  /\ ActionTrue /\ FamilyTrue
  /\ ev.empty = TRUE => HasEmpty

LEMMA SimpleAction ==
  req.call # "openat2" => ActualAction = ActionOf(req.call, req.write)
  BY DEF ActualAction, ActionOf, openAction, OpenCalls

LEMMA UnreadHowReads ==
  ASSUME req.call = "openat2", req.bytes.is # "path"
  PROVE  ActualAction = "read"
  <1> DEFINE w == req.write /\ (req.call = "openat2" => req.bytes.is = "path")
  <1>1. w = FALSE
    OBVIOUS
  <1> HIDE DEF w
  <1>2. ActualAction = ActionOf("openat2", w)
    BY DEF ActualAction, w
  <1>3. ActionOf("openat2", w) = openAction(w)
    BY DEF ActionOf, OpenCalls, DeleteCalls, WriteCalls, MetadataCalls, ExecCalls
  <1>4. openAction(w) = "read"
    BY <1>1 DEF openAction
  <1> QED BY <1>2, <1>3, <1>4

LEMMA ConnectHasNoPath == req.call = "connect" => PathCount(req.call) = 0
  BY DEF PathCount, PathCalls, OpenCalls, DeleteCalls, WriteCalls, MetadataCalls, ExecCalls

LEMMA AddrLenIs ==
  ASSUME NEW r \in Requests
  PROVE  addrLen(r.addr) \in Int /\ r.addr.mapped \in Nat
  <1> DEFINE m == 2^Width
             h == 2^(Width - 1)
             x == r.addr.len.int
             y == r.addr.len.high
  <1>1. m \in Nat \ {0} /\ h \in Nat /\ MaxAddr \in Nat
    BY DecoderAssumption
  <1>2. x \in Int /\ y \in Int /\ r.addr.mapped \in Nat
    <2>1. IsRequest(r)
      BY RequestAssumption
    <2>2. x \in (-h)..(h - 1) /\ y \in Nat /\ r.addr.mapped \in Nat
      BY <2>1 DEF IsRequest, IsInt
    <2> HIDE DEF x, y, h
    <2> QED BY <1>1, <2>2
  <1> DEFINE z == dirfdArg(y)
  <1>3. z \in Int
    <2> HIDE DEF y
    <2>1. y % m \in Int
      BY <1>1, <1>2
    <2>2. (IF y % m >= h THEN (y % m) - m ELSE y % m) \in Int
      <3> HIDE DEF m, h
      <3> QED BY <1>1, <2>1
    <2> QED BY <2>2 DEF dirfdArg
  <1> HIDE DEF z
  <1>4. (x % m) + z * m \in Int
    <2> HIDE DEF x, m
    <2>1. x % m \in Int /\ z * m \in Int
      BY <1>1, <1>2, <1>3
    <2> QED BY <2>1
  <1>5. addrLen(r.addr) = IF (x % m) + z * m > MaxAddr THEN MaxAddr ELSE (x % m) + z * m
    BY DEF addrLen, z
  <1> HIDE DEF x, m
  <1> QED BY <1>1, <1>2, <1>4, <1>5

(* An address shows when it is long enough and can be read.                *)
LEMMA AddressShowsWhen ==
  ASSUME req \in Requests, req.call = "connect"
  PROVE  AddressShows <=> Asks(req) /\ BytesOf(req).is = "path"
  <1>1. addrLen(req.addr) \in Int /\ req.addr.mapped \in Nat
    BY AddrLenIs
  <1>2. CASE req.addr.mapped < addrLen(req.addr)
    <2>1. BytesOf(req).is = "bad"
      BY <1>2 DEF BytesOf, Bad
    <2> QED BY <1>1, <1>2, <2>1 DEF AddressShows
  <1>3. CASE ~ (req.addr.mapped < addrLen(req.addr))
    <2>1. BytesOf(req) = req.bytes
      BY <1>3 DEF BytesOf
    <2> QED BY <1>1, <1>3, <2>1 DEF AddressShows, Asks
  <1> QED BY <1>2, <1>3

(* Nothing else touches the address.                                       *)
LEMMA FamilyStays ==
  ASSUME FamilyTrue, req' = req, ev'.family = ev.family, ev'.name = ev.name,
         owner' = owner \/ owner' # "target", req.call = "connect" => plan' = plan
  PROVE  FamilyTrue'
  <1>1. AddressShows' = AddressShows /\ parseSockaddr(req.addr)' = parseSockaddr(req.addr)
    BY DEF AddressShows
  <1> QED BY <1>1 DEF FamilyTrue

LEMMA ReceiveStarts ==
  ASSUME NEW r \in Requests, Receive(r)
  PROVE  DecodeInv'
  <1>1. IsRequest(r)
    BY RequestAssumption
  <1>2. Types'
    <2>1. /\ req' = r /\ owner' = "target" /\ sub' = "check" /\ strs' = << >>
          /\ tmp' = Nothing
          /\ ev' = [action |-> ActionOf(r.call, r.write), path |-> << >>, family |-> "none",
                    name |-> NoName, unresolved |-> FALSE, empty |-> FALSE]
      BY DEF Receive, NoEvent
    <2>2. Nothing \in Reading
      <3>1. Bad \in Arg
        BY DEF Bad, Arg
      <3> QED BY <3>1 DEF Nothing, Got, Reading
    <2> QED BY <2>1, <2>2 DEF Types
  <1>3. AtStage(PlanOf(r), 0, 0)' /\ (r.call = "openat2" => BytesLeft(PlanOf(r)))
    BY PlanStart DEF Receive
  <1>0. FamilyTrue'
    <2>1. /\ req' = r /\ plan' = PlanOf(r) /\ ev'.family = "none" /\ ev'.name = NoName
      BY DEF Receive, NoEvent
    <2>2. r.call = "connect" => PlanOf(r) # << >> \/ ~ Asks(r)
      BY <2>1, PlanStart
    <2>3. (~ Asks(req) => ~ AddressShows)'
      <3>0. addrLen(r.addr) \in Int
        BY AddrLenIs
      <3>1. addrLen(req.addr)' \in Int
        BY <2>1, <3>0 DEF addrLen, dirfdArg
      <3> QED BY <3>1 DEF Asks, AddressShows
    <2> QED BY <2>1, <2>2, <2>3 DEF FamilyTrue, Asks
  <1>4. Progress'
    <2>1. plan' = PlanOf(r) /\ Len(strs') = 0 /\ Len(ev'.path) = 0
      BY DEF Receive, NoEvent
    <2>2. PlanOf(r)' = PlanOf(r)
      OBVIOUS
    <2>3. AtStage(plan, Len(strs), 0)'
      BY <1>3, <2>1 DEF AtStage
    <2> QED BY <2>1, <2>3 DEF Progress
  <1>5. StringsTrue' /\ PathsTrue' /\ ReadTrue' /\ InRead' /\ ev'.empty = FALSE
    BY DEF Receive, NoEvent, StringsTrue, PathsTrue, ReadTrue, InRead
  <1>6. ActionTrue'
    BY <1>3 DEF Receive, NoEvent, ActionTrue, BytesLeft, S, B, R
  <1> QED BY <1>0, <1>2, <1>4, <1>5, <1>6 DEF DecodeInv

(* The truth about a request does not change while it is handled.          *)
LEMMA SameRequest ==
  ASSUME req' = req
  PROVE  /\ \A p, s, d : AtStage(p, s, d) => AtStage(p, s, d)'
         /\ \A i, v : IsString(i, v) => IsString(i, v)'
         /\ \A i, v : IsActual(i, v) => IsActual(i, v)'
         /\ ActualAction' = ActualAction
         /\ HasEmpty => HasEmpty'
  <1>1. \A p, s, d : AtStage(p, s, d) => AtStage(p, s, d)'
    BY DEF AtStage, Asks
  <1>2. \A i, v : IsString(i, v) => IsString(i, v)'
    BY DEF IsString
  <1>3. \A i : ActualPath(i)' = ActualPath(i)
    BY DEF ActualPath, ActualFd
  <1>4. \A i, v : IsActual(i, v) => IsActual(i, v)'
    BY <1>3 DEF IsActual
  <1>5. ActualAction' = ActualAction
    BY DEF ActualAction
  <1>6. HasEmpty => HasEmpty'
    BY DEF HasEmpty, Arguments
  <1> QED BY <1>1, <1>2, <1>4, <1>5, <1>6

(* Every read of these requests is of one of the three kinds, in order.    *)
LEMMA Current ==
  ASSUME DecodeInv, plan # << >>
  PROVE  \E d \in 0..2 :
           /\ Ahead(plan, Len(strs), d)
           /\ ev.unresolved = FALSE => Len(ev.path) = d
  <1>1. PICK d \in 0..2 :
          AtStage(plan, Len(strs), d) /\ (ev.unresolved = FALSE => Len(ev.path) = d)
    BY DEF DecodeInv, Progress
  <1>2. Len(strs) \in Nat /\ d \in Nat
    BY DEF DecodeInv, Types
  <1>3. Ahead(plan, Len(strs), d)
    BY <1>1, <1>2, StageAhead
  <1> QED BY <1>1, <1>3

(* A failed read leaves nothing wrong behind.                              *)
LEMMA FailKeeps ==
  ASSUME DecodeInv, plan # << >>, Fail, NextOp(Tail(plan)), UNCHANGED <<req, owner>>,
         Op.do = "bytes" => owner # "target" \/ BytesOf(req).is # "path"
  PROVE  DecodeInv'
  <1>1. PICK d \in 0..2 :
          Ahead(plan, Len(strs), d) /\ (ev.unresolved = FALSE => Len(ev.path) = d)
    BY Current
  <1>2. /\ req' = req /\ owner' = owner /\ plan' = Tail(plan) /\ sub' = "check"
        /\ tmp' = Nothing /\ tmp' \in Reading
    <2>1. Bad \in Arg
      BY DEF Bad, Arg
    <2> QED BY <2>1 DEF NextOp, Nothing, Got, Reading
  <1>3. ReadTrue' /\ InRead'
    BY <1>2 DEF ReadTrue, InRead
  <1>4. Op.do \in {"string", "bytes", "resolve"}
    BY <1>1 DEF Ahead, Op
  <1>0. Op.do \in {"string", "resolve"} => req.call # "connect"
    BY <1>1, ConnectHasNoPath DEF Ahead, Op
  <1>5. CASE Op.do = "string"
    <2> DEFINE g == Got(FALSE, EmptyString, "nobody")
    <2>1. strs' = Append(strs, g) /\ ev' = ev
      BY <1>5 DEF Fail
    <2>2. g \in Reading /\ g.ok = FALSE
      <3>1. EmptyString \in Arg
        BY DEF EmptyString, Arg
      <3> QED BY <3>1 DEF Got, Reading
    <2> HIDE DEF g
    <2>3. /\ strs' \in Seq(Reading) /\ Len(strs') = Len(strs) + 1 /\ Len(strs) \in Nat
          /\ \A i \in 1..Len(strs) : strs'[i] = strs[i]
          /\ strs'[Len(strs) + 1] = g
      BY <2>1, <2>2 DEF DecodeInv, Types
    <2>4. Types'
      BY <1>2, <2>1, <2>3 DEF DecodeInv, Types
    <2>5. Progress'
      <3>1. AtStage(plan', Len(strs'), d)
        BY <1>1, <1>2, <1>5, <2>3 DEF Ahead, Op
      <3> QED BY <1>1, <1>2, <2>1, <3>1, SameRequest DEF Progress, AtStage
    <2>6. StringsTrue'
      BY <1>2, <2>2, <2>3, SameRequest DEF DecodeInv, StringsTrue
    <2>7. PathsTrue' /\ FamilyTrue' /\ (ev'.empty = TRUE => HasEmpty')
      <3>1. FamilyTrue'
        BY <1>2, <1>5, <1>0, <2>1, FamilyStays DEF DecodeInv
      <3> QED BY <1>2, <2>1, <3>1, SameRequest DEF DecodeInv, PathsTrue
    <2>8. ActionTrue'
      <3>1. req.call = "openat2" => BytesLeft(plan) /\ BytesLeft(plan')
        BY <1>1, <1>2, <1>5 DEF Ahead, Op
      <3> QED BY <1>2, <2>1, <3>1 DEF DecodeInv, ActionTrue, BytesLeft
    <2> QED BY <1>3, <2>4, <2>5, <2>6, <2>7, <2>8 DEF DecodeInv
  <1>6. CASE Op.do = "bytes"
    <2>1. strs' = strs /\ ev' = [ev EXCEPT !.action = IF req.call = "openat2" THEN "read" ELSE @]
      BY <1>6 DEF Fail
    <2>2. /\ ev'.path = ev.path /\ ev'.family = ev.family /\ ev'.unresolved = ev.unresolved
          /\ ev'.empty = ev.empty /\ ev'.name = ev.name
          /\ ev'.action = IF req.call = "openat2" THEN "read" ELSE ev.action
      BY <2>1 DEF DecodeInv, Types
    <2>3. Types'
      BY <1>2, <2>1, <2>2 DEF DecodeInv, Types
    <2>4. Progress'
      <3>1. AtStage(plan', Len(strs'), d)
        BY <1>1, <1>2, <1>6, <2>1 DEF Ahead, Op
      <3> QED BY <1>1, <1>2, <2>2, <3>1, SameRequest DEF Progress, AtStage
    <2>5. StringsTrue' /\ PathsTrue' /\ FamilyTrue' /\ (ev'.empty = TRUE => HasEmpty')
      <3>1. FamilyTrue'
        <4>1. CASE req.call # "connect"
          BY <1>2, <2>2, <4>1, FamilyStays DEF DecodeInv
        <4>2. CASE req.call = "connect"
          <5>1. req \in Requests /\ plan # << >>
            BY DEF DecodeInv, Types
          <5>2. owner = "target" => ~ AddressShows
            BY <1>6, <4>2, <5>1, AddressShowsWhen
          <5>3. AddressShows' = AddressShows /\ parseSockaddr(req.addr)' = parseSockaddr(req.addr)
            BY <1>2 DEF AddressShows
          <5> QED BY <1>2, <2>2, <5>2, <5>3 DEF DecodeInv, FamilyTrue
        <4> QED BY <4>1, <4>2
      <3> QED BY <1>2, <2>1, <2>2, <3>1, SameRequest DEF DecodeInv, StringsTrue, PathsTrue
    <2>6. ActionTrue'
      <3>1. /\ ~ BytesLeft(plan') /\ BytesLeft(plan)
            /\ req.call = "openat2" => plan' # << >>
        BY <1>1, <1>2, <1>6 DEF Ahead, Op
      <3>2. CASE req.call # "openat2"
        BY <1>2, <2>2, <3>2 DEF DecodeInv, ActionTrue
      <3>3. CASE req.call = "openat2" /\ owner # "target"
        BY <1>2, <3>1, <3>3 DEF ActionTrue, BytesLeft
      <3>4. CASE req.call = "openat2" /\ BytesOf(req).is # "path"
        <4>1. ActualAction = "read"
          BY <3>4, UnreadHowReads DEF BytesOf
        <4> QED BY <1>2, <2>2, <3>1, <3>4, <4>1, SameRequest DEF ActionTrue, BytesLeft
      <3> QED BY <1>6, <3>2, <3>3, <3>4
    <2> QED BY <1>3, <2>3, <2>4, <2>5, <2>6 DEF DecodeInv
  <1>7. CASE Op.do = "resolve"
    <2>1. strs' = strs /\ ev' = markUnresolved(ev)
      BY <1>7 DEF Fail
    <2>2. /\ ev'.path = ev.path /\ ev'.family = ev.family /\ ev'.unresolved = TRUE
          /\ ev'.empty = ev.empty /\ ev'.name = ev.name /\ ev'.action = ev.action
      BY <2>1 DEF DecodeInv, Types, markUnresolved
    <2>3. Types'
      BY <1>2, <2>1, <2>2 DEF DecodeInv, Types, markUnresolved
    <2>4. Progress'
      <3>1. AtStage(plan', Len(strs'), d + 1) /\ d + 1 \in 0..2
        BY <1>1, <1>2, <1>7, <2>1 DEF Ahead, Op, PathCount
      <3> QED BY <1>2, <2>2, <3>1, SameRequest DEF Progress, AtStage
    <2>5. StringsTrue' /\ PathsTrue' /\ FamilyTrue' /\ (ev'.empty = TRUE => HasEmpty')
      <3>1. FamilyTrue'
        BY <1>0, <1>2, <1>7, <2>2, FamilyStays DEF DecodeInv
      <3> QED BY <1>2, <2>1, <2>2, <3>1, SameRequest DEF DecodeInv, StringsTrue, PathsTrue
    <2>6. ActionTrue'
      <3>1. ~ BytesLeft(plan) /\ ~ BytesLeft(plan')
        BY <1>1, <1>2, <1>7 DEF Ahead, Op
      <3> QED BY <1>2, <2>2, <3>1 DEF DecodeInv, ActionTrue, BytesLeft
    <2> QED BY <1>3, <2>3, <2>4, <2>5, <2>6 DEF DecodeInv
  <1> QED BY <1>4, <1>5, <1>6, <1>7

(* A successful read of the truth adds to what is known.                   *)
LEMMA SucceedKeeps ==
  ASSUME DecodeInv, plan # << >>, NEW val \in Arg,
         NEW from \in {"target", "resumed", "other", "gone", "nobody"},
         Succeed(val, from), NextOp(Tail(plan)), UNCHANGED <<req, owner>>,
         Op.do = "string" => IsString(Op.arg, val),
         Op.do = "resolve" => IsActual(Op.arg, val) /\ sub = "recheck",
         Op.do = "bytes" => from = "target" /\ BytesOf(req).is = "path"
  PROVE  DecodeInv'
  <1>1. PICK d \in 0..2 :
          Ahead(plan, Len(strs), d) /\ (ev.unresolved = FALSE => Len(ev.path) = d)
    BY Current
  <1>2. /\ req' = req /\ owner' = owner /\ plan' = Tail(plan) /\ sub' = "check"
        /\ tmp' = Nothing /\ tmp' \in Reading
    <2>1. Bad \in Arg
      BY DEF Bad, Arg
    <2> QED BY <2>1 DEF NextOp, Nothing, Got, Reading
  <1>3. ReadTrue' /\ InRead'
    BY <1>2 DEF ReadTrue, InRead
  <1>4. Op.do \in {"string", "bytes", "resolve"}
    BY <1>1 DEF Ahead, Op
  <1>00. Op.do \in {"string", "resolve"} => req.call # "connect"
    BY <1>1, ConnectHasNoPath DEF Ahead, Op
  <1> DEFINE g == Got(TRUE, val, from)
  <1>0. g \in Reading /\ g.val = val
    BY DEF Got, Reading
  <1>5. CASE Op.do = "string"
    <2>1. strs' = Append(strs, g) /\ ev' = ev
      BY <1>5 DEF Succeed
    <2> HIDE DEF g
    <2>3. /\ strs' \in Seq(Reading) /\ Len(strs') = Len(strs) + 1 /\ Len(strs) \in Nat
          /\ \A i \in 1..Len(strs) : strs'[i] = strs[i]
          /\ strs'[Len(strs) + 1] = g
      BY <1>0, <2>1 DEF DecodeInv, Types
    <2>4. Types'
      BY <1>2, <2>1, <2>3 DEF DecodeInv, Types
    <2>5. Progress'
      <3>1. AtStage(plan', Len(strs'), d)
        BY <1>1, <1>2, <1>5, <2>3 DEF Ahead, Op
      <3> QED BY <1>1, <1>2, <2>1, <3>1, SameRequest DEF Progress, AtStage
    <2>6. StringsTrue'
      <3>1. IsString(Len(strs) + 1, val)
        BY <1>1, <1>5 DEF Ahead, Op
      <3> QED BY <1>0, <1>2, <2>3, <3>1, SameRequest DEF DecodeInv, StringsTrue
    <2>7. PathsTrue' /\ FamilyTrue' /\ (ev'.empty = TRUE => HasEmpty')
      <3>1. FamilyTrue'
        BY <1>2, <1>5, <1>00, <2>1, FamilyStays DEF DecodeInv
      <3> QED BY <1>2, <2>1, <3>1, SameRequest DEF DecodeInv, PathsTrue
    <2>8. ActionTrue'
      <3>1. req.call = "openat2" => BytesLeft(plan) /\ BytesLeft(plan')
        BY <1>1, <1>2, <1>5 DEF Ahead, Op
      <3> QED BY <1>2, <2>1, <3>1 DEF DecodeInv, ActionTrue, BytesLeft
    <2> QED BY <1>3, <2>4, <2>5, <2>6, <2>7, <2>8 DEF DecodeInv
  <1>6. CASE Op.do = "bytes"
    <2>1. /\ strs' = strs
          /\ ev' = IF req.call = "openat2" THEN ev
                   ELSE [ev EXCEPT !.family = parseSockaddr(req.addr).family,
                                   !.name = parseSockaddr(req.addr).name]
      BY <1>6 DEF Succeed
    <2>2. /\ ev'.path = ev.path /\ ev'.unresolved = ev.unresolved
          /\ ev'.empty = ev.empty /\ ev'.action = ev.action
          /\ ev' = [action |-> ev'.action, path |-> ev'.path, family |-> ev'.family,
                    name |-> ev'.name, unresolved |-> ev'.unresolved, empty |-> ev'.empty]
      BY <2>1 DEF DecodeInv, Types
    <2>7. req.call # "openat2" =>
            /\ ev'.family = parseSockaddr(req.addr).family
            /\ ev'.name = parseSockaddr(req.addr).name
      BY <2>1 DEF DecodeInv, Types
    <2>3. Types'
      BY <1>2, <2>1, <2>2 DEF DecodeInv, Types
    <2>4. Progress'
      <3>1. AtStage(plan', Len(strs'), d)
        BY <1>1, <1>2, <1>6, <2>1 DEF Ahead, Op
      <3> QED BY <1>1, <1>2, <2>2, <3>1, SameRequest DEF Progress, AtStage
    <2>5. StringsTrue' /\ PathsTrue' /\ FamilyTrue' /\ (ev'.empty = TRUE => HasEmpty')
      <3>1. FamilyTrue'
        <4>1. CASE req.call = "openat2"
          BY <1>2, <2>1, <4>1, FamilyStays DEF DecodeInv
        <4>2. CASE req.call # "openat2"
          <5>1. req.call = "connect" /\ Asks(req)
            BY <1>1, <1>6, <4>2 DEF Ahead, Op
          <5>2. AddressShows
            BY <1>6, <5>1, AddressShowsWhen DEF DecodeInv, Types
          <5>3. AddressShows' = AddressShows /\ parseSockaddr(req.addr)' = parseSockaddr(req.addr)
            BY <1>2 DEF AddressShows
          <5> QED BY <2>7, <4>2, <5>2, <5>3 DEF FamilyTrue
        <4> QED BY <4>1, <4>2
      <3> QED BY <1>2, <2>1, <2>2, <3>1, SameRequest DEF DecodeInv, StringsTrue, PathsTrue
    <2>6. ActionTrue'
      <3>1. /\ ~ BytesLeft(plan') /\ BytesLeft(plan)
        BY <1>1, <1>2, <1>6 DEF Ahead, Op
      <3>2. ev.action = ActionOf(req.call, req.write)
        BY <3>1 DEF DecodeInv, ActionTrue
      <3>3. CASE req.call # "openat2"
        BY <1>2, <2>2, <3>2, <3>3 DEF ActionTrue
      <3>4. CASE req.call = "openat2"
        <4>1. ActualAction = ActionOf(req.call, req.write)
          BY <1>6, <3>4 DEF ActualAction, ActionOf, openAction, OpenCalls, BytesOf
        <4> QED BY <1>2, <2>2, <3>1, <3>2, <3>4, <4>1, SameRequest DEF ActionTrue, BytesLeft
      <3> QED BY <3>3, <3>4
    <2> QED BY <1>3, <2>3, <2>4, <2>5, <2>6 DEF DecodeInv
  <1>7. CASE Op.do = "resolve"
    <2>1. strs' = strs /\ ev' = [ev EXCEPT !.path = Append(@, g)]
      BY <1>7 DEF Succeed
    <2> HIDE DEF g
    <2>2. /\ ev'.path = Append(ev.path, g) /\ ev'.family = ev.family
          /\ ev'.unresolved = ev.unresolved /\ ev'.action = ev.action
          /\ ev'.empty = ev.empty /\ ev'.name = ev.name
          /\ ev' = [action |-> ev'.action, path |-> ev'.path, family |-> ev'.family,
                    name |-> ev'.name, unresolved |-> ev'.unresolved, empty |-> ev'.empty]
      BY <2>1 DEF DecodeInv, Types
    <2>3. /\ ev'.path \in Seq(Reading) /\ Len(ev'.path) = Len(ev.path) + 1
          /\ Len(ev.path) \in Nat
          /\ \A i \in 1..Len(ev.path) : ev'.path[i] = ev.path[i]
          /\ ev'.path[Len(ev.path) + 1] = g
      BY <1>0, <2>2 DEF DecodeInv, Types
    <2>4. Types'
      BY <1>2, <2>1, <2>2, <2>3 DEF DecodeInv, Types
    <2>5. Progress'
      <3>1. AtStage(plan', Len(strs'), d + 1) /\ d + 1 \in 0..2
        BY <1>1, <1>2, <1>7, <2>1 DEF Ahead, Op, PathCount
      <3> QED BY <1>1, <1>2, <2>2, <2>3, <3>1, SameRequest DEF Progress, AtStage
    <2>6. PathsTrue'
      <3>1. ev.unresolved = FALSE => IsActual(Len(ev.path) + 1, val)
        BY <1>1, <1>7 DEF Ahead, Op
      <3> QED BY <1>0, <1>2, <2>2, <2>3, <3>1, SameRequest DEF DecodeInv, PathsTrue
    <2>7. StringsTrue' /\ FamilyTrue' /\ (ev'.empty = TRUE => HasEmpty')
      <3>1. FamilyTrue'
        BY <1>00, <1>2, <1>7, <2>2, FamilyStays DEF DecodeInv
      <3> QED BY <1>2, <2>1, <2>2, <3>1, SameRequest DEF DecodeInv, StringsTrue
    <2>8. ActionTrue'
      <3>1. ~ BytesLeft(plan) /\ ~ BytesLeft(plan')
        BY <1>1, <1>2, <1>7 DEF Ahead, Op
      <3>2. CASE req.call # "openat2"
        BY <1>2, <2>2, <3>2 DEF DecodeInv, ActionTrue
      <3>3. CASE req.call = "openat2"
        <4>1. ev.unresolved = TRUE \/ ev.action = ActualAction
          BY <1>7, <3>1, <3>3 DEF DecodeInv, ActionTrue
        <4> QED BY <1>2, <2>2, <3>1, <3>3, <4>1, SameRequest DEF ActionTrue, BytesLeft
      <3> QED BY <3>2, <3>3
    <2> QED BY <1>3, <2>4, <2>5, <2>6, <2>7, <2>8 DEF DecodeInv
  <1> QED BY <1>4, <1>5, <1>6, <1>7

-----------------------------------------------------------------------------
(* The steps of Decode, for a request without AT_EMPTY_PATH.               *)

(* What a read returns is true as long as the target is there.             *)
LEMMA FetchIs ==
  ASSUME DecodeInv, plan # << >>, sub = "read", Fetch(Op).is = "path",
         Op.do = "resolve" => strs[Op.arg].val # EmptyString
  PROVE  /\ Fetch(Op) \in Arg
         /\ Source(Op) \in {"target", "resumed", "other", "gone", "nobody"}
         /\ owner = "target" =>
              /\ Op.do = "string" => IsString(Op.arg, Fetch(Op))
              /\ Op.do = "resolve" => IsActual(Op.arg, Fetch(Op))
              /\ Op.do = "bytes" => Source(Op) = "target" /\ BytesOf(req).is = "path"
  <1>1. PICK d \in 0..2 :
          Ahead(plan, Len(strs), d) /\ (ev.unresolved = FALSE => Len(ev.path) = d)
    BY Current
  <1>2. Op.do \in {"string", "bytes", "resolve"}
    BY <1>1 DEF Ahead, Op
  <1>3. IsRequest(req)
    BY RequestAssumption DEF DecodeInv, Types
  <1>4. owner \in {"target", "resumed", "other", "gone"}
    BY DEF DecodeInv, Types
  <1>5. Bad \in Arg /\ Foreign \in Arg
    BY DecoderAssumption DEF Bad, Foreign, Arg
  <1>6. \A own \in Arg :
          /\ ReadMemory(own) \in Arg
          /\ owner = "target" => ReadMemory(own) = own
    BY <1>4, <1>5 DEF ReadMemory
  <1>7. CASE Op.do = "string"
    <2>1. Op.arg \in 1..Len(req.path) /\ req.path[Op.arg] \in Arg
      BY <1>1, <1>3, <1>7 DEF Ahead, Op, IsRequest
    <2>2. Fetch(Op) = ReadMemory(req.path[Op.arg]) /\ Source(Op) = owner
      BY <1>7 DEF Fetch, Source
    <2> QED BY <1>4, <1>6, <1>7, <2>1, <2>2 DEF IsString
  <1>8. CASE Op.do = "bytes"
    <2>1. Fetch(Op) = ReadMemory(BytesOf(req)) /\ Source(Op) = owner /\ BytesOf(req) \in Arg
      BY <1>3, <1>5, <1>8 DEF Fetch, Source, IsRequest, BytesOf
    <2> QED BY <1>4, <1>6, <1>8, <2>1
  <1>9. CASE Op.do = "resolve"
    <2> DEFINE i == Op.arg
               arg == strs[i].val
    <2>1. /\ i \in 1..PathCount(req.call) /\ i \in 1..Len(strs)
          /\ i \in Arguments
      BY <1>1, <1>9 DEF Ahead, Op, Arguments
    <2>2. strs[i] \in Reading /\ arg \in Arg /\ strs[i].ok = TRUE
      <3>1. strs \in Seq(Reading) /\ InRead
        BY DEF DecodeInv, Types
      <3>2. strs[i] \in Reading
        BY <2>1, <3>1
      <3>3. strs[i].val \in Arg
        BY <3>2 DEF Reading
      <3>4. strs[i].ok = TRUE
        BY <1>9, <3>1 DEF InRead
      <3> QED BY <3>2, <3>3, <3>4
    <2>3. req.path[i].is = "path" /\ arg = req.path[i]
      BY <1>9, <2>1, <2>2 DEF DecodeInv, StringsTrue, IsString
    <2>4. Fetch(Op) = ResolveSyscallPath(arg, Dirfd(i))
      BY <1>9 DEF Fetch
    <2>5. Dirfd(i) = ActualFd(i)
      BY <2>1, DirfdIs DEF DecodeInv, Types
    <2>6. Source(Op) \in {"target", "resumed", "other", "gone", "nobody"}
      BY <1>4, <2>2 DEF Source, Reading
    <2> HIDE DEF arg, i
    <2>7. CASE arg.abs = TRUE
      <3>1. ResolveSyscallPath(arg, Dirfd(i)) = arg
        BY <2>7 DEF ResolveSyscallPath
      <3>2. ActualPath(i) = arg
        BY <1>9, <2>3, <2>7 DEF ActualPath, i, arg
      <3> QED BY <1>9, <2>2, <2>3, <2>4, <2>6, <3>1, <3>2 DEF IsActual, i
    <2>8. CASE arg.abs = FALSE
      <3> DEFINE base == targetBaseDir(ActualFd(i))
                 Joined(b) == [b EXCEPT !.seg = IF b.is = "path" THEN @ \o arg.seg ELSE @]
      <3>1. base \in Arg
        <4>1. FdLink(ActualFd(i)) \in Arg
          BY <1>5, DecoderAssumption DEF FdLink, Arg
        <4> QED BY <4>1, DecoderAssumption DEF targetBaseDir, Arg
      <3> HIDE DEF base
      <3>2. ASSUME NEW b \in Arg PROVE Joined(b) \in Arg
        <4>1. b.seg \in Seq(STRING) /\ arg.seg \in Seq(STRING)
          BY <2>2 DEF Arg
        <4>2. b.seg \o arg.seg \in Seq(STRING)
          BY <4>1, ConcatProperties
        <4> DEFINE both == b.seg \o arg.seg
        <4> HIDE DEF both
        <4>3. both \in Seq(STRING)
          BY <4>2 DEF both
        <4>4. [b EXCEPT !.seg = IF b.is = "path" THEN both ELSE b.seg] \in Arg
          BY <4>1, <4>3 DEF Arg
        <4>5. Joined(b) = [b EXCEPT !.seg = IF b.is = "path" THEN both ELSE b.seg]
          BY DEF Arg, both
        <4> QED BY <4>4, <4>5
      <3>3. ResolveSyscallPath(arg, Dirfd(i)) = Joined(ReadMemory(base))
        BY <2>5, <2>8 DEF ResolveSyscallPath, base
      <3>4. ActualPath(i) = Joined(base)
        BY <1>9, <2>3, <2>8 DEF ActualPath, i, arg, base
      <3> HIDE DEF Joined
      <3>5. Fetch(Op) \in Arg
        BY <1>6, <2>4, <3>1, <3>2, <3>3
      <3>6. owner = "target" => Fetch(Op) = ActualPath(i)
        BY <1>6, <2>4, <3>1, <3>3, <3>4
      <3> QED BY <1>9, <2>6, <3>5, <3>6 DEF IsActual, i
    <2> QED BY <2>2, <2>7, <2>8 DEF Arg
  <1> QED BY <1>2, <1>7, <1>8, <1>9

LEMMA NoFd ==
  ASSUME DecodeInv, plan # << >>
  PROVE  Op.do # "fd"
  BY Current DEF Ahead, Op

LEMMA CheckKeeps == DecodeInv /\ Check => DecodeInv'
  <1> SUFFICES ASSUME DecodeInv, Check PROVE DecodeInv'
    OBVIOUS
  <1>1. plan # << >> /\ sub = "check" /\ UNCHANGED <<req, owner>>
    BY DEF Check
  <1>2. CASE Op.do = "string" /\ req.path[Op.arg].is = "null"
    <2>1. Succeed(EmptyString, "target") /\ NextOp(Tail(plan))
      BY <1>2 DEF Check
    <2>2. EmptyString \in Arg
      BY DEF EmptyString, Arg
    <2>3. IsString(Op.arg, EmptyString)
      BY <1>2 DEF IsString
    <2> QED BY <1>1, <1>2, <2>1, <2>2, <2>3, SucceedKeeps
  <1>3. CASE Op.do = "resolve" /\ ~ strs[Op.arg].ok
    <2>1. Fail /\ NextOp(Tail(plan))
      BY <1>3 DEF Check
    <2> QED BY <1>1, <1>3, <2>1, FailKeeps
  <1>4. CASE /\ ~ (Op.do = "string" /\ req.path[Op.arg].is = "null")
             /\ ~ (Op.do = "resolve" /\ ~ strs[Op.arg].ok)
             /\ ~ CheckValid
    <2>1. Fail /\ NextOp(Tail(plan))
      BY <1>4 DEF Check
    <2> QED BY <1>1, <1>4, <2>1, FailKeeps DEF CheckValid
  <1>5. CASE /\ ~ (Op.do = "string" /\ req.path[Op.arg].is = "null")
             /\ ~ (Op.do = "resolve" /\ ~ strs[Op.arg].ok)
             /\ CheckValid
    <2>1. sub' = "read" /\ UNCHANGED <<plan, tmp, strs, ev>>
      BY <1>5 DEF Check
    <2>6. FamilyTrue'
      BY <1>1, <2>1, FamilyStays DEF DecodeInv
    <2>2. Types' /\ StringsTrue' /\ PathsTrue' /\ FamilyTrue' /\ ReadTrue'
          /\ (ev'.empty = TRUE => HasEmpty')
      BY <1>1, <2>1, <2>6, SameRequest DEF DecodeInv, Types, StringsTrue, PathsTrue, ReadTrue
    <2>3. Progress'
      BY <1>1, <2>1, SameRequest DEF DecodeInv, Progress, AtStage
    <2>4. InRead'
      <3>1. Op.do = "resolve" => strs[Op.arg].ok = TRUE
        <4>1. ASSUME Op.do = "resolve" PROVE strs[Op.arg] \in Reading
          <5>1. PICK d \in 0..2 : Ahead(plan, Len(strs), d)
            BY <1>1, Current
          <5>2. Op.arg \in 1..Len(strs)
            BY <4>1, <5>1 DEF Ahead, Op
          <5> QED BY <5>2 DEF DecodeInv, Types
        <4> QED BY <1>5, <4>1 DEF Reading
      <3> QED BY <1>1, <2>1, <3>1 DEF InRead, Op
    <2>5. ActionTrue'
      BY <1>1, <1>5, <2>1, SameRequest DEF DecodeInv, ActionTrue, BytesLeft, CheckValid
    <2> QED BY <2>2, <2>3, <2>4, <2>5 DEF DecodeInv
  <1> QED BY <1>2, <1>3, <1>4, <1>5

LEMMA ReadKeeps == DecodeInv /\ Read => DecodeInv'
  <1> SUFFICES ASSUME DecodeInv, Read PROVE DecodeInv'
    OBVIOUS
  <1>1. plan # << >> /\ sub = "read" /\ UNCHANGED <<req, owner>>
    BY DEF Read
  <1>2. CASE Op.do = "resolve" /\ strs[Op.arg].val = EmptyString
    <2>1. /\ ev' = [markUnresolved(ev) EXCEPT !.empty = TRUE] /\ strs' = strs
          /\ NextOp(Tail(plan))
      BY <1>2 DEF Read
    <2>2. PICK d \in 0..2 : Ahead(plan, Len(strs), d)
      BY <1>1, Current
    <2>3. /\ req' = req /\ owner' = owner /\ plan' = Tail(plan) /\ sub' = "check"
          /\ tmp' \in Reading
      <3>1. Bad \in Arg
        BY DEF Bad, Arg
      <3> QED BY <1>1, <2>1, <3>1 DEF NextOp, Nothing, Got, Reading
    <2>4. /\ ev'.path = ev.path /\ ev'.family = ev.family /\ ev'.unresolved = TRUE
          /\ ev'.empty = TRUE /\ ev'.name = ev.name /\ ev'.action = ev.action
          /\ ev' = [action |-> ev'.action, path |-> ev'.path, family |-> ev'.family,
                    name |-> ev'.name, unresolved |-> ev'.unresolved, empty |-> ev'.empty]
      BY <2>1 DEF DecodeInv, Types, markUnresolved
    <2>5. Types'
      BY <2>1, <2>3, <2>4 DEF DecodeInv, Types
    <2>6. Progress'
      <3>1. AtStage(plan', Len(strs'), d + 1) /\ d + 1 \in 0..2
        BY <1>2, <2>1, <2>2, <2>3 DEF Ahead, Op, PathCount
      <3> QED BY <2>3, <2>4, <3>1, SameRequest DEF Progress, AtStage
    <2>11. FamilyTrue'
      <3>1. req.call # "connect"
        BY <1>2, <2>2, ConnectHasNoPath DEF Ahead, Op
      <3> QED BY <2>3, <2>4, <3>1, FamilyStays DEF DecodeInv
    <2>7. StringsTrue' /\ PathsTrue' /\ FamilyTrue' /\ ReadTrue' /\ InRead'
      BY <2>1, <2>3, <2>4, <2>11, SameRequest
      DEF DecodeInv, StringsTrue, PathsTrue, ReadTrue, InRead
    <2>8. ActionTrue'
      <3>1. ~ BytesLeft(plan) /\ ~ BytesLeft(plan')
        BY <1>2, <2>2, <2>3 DEF Ahead, Op
      <3> QED BY <2>3, <2>4, <3>1 DEF DecodeInv, ActionTrue, BytesLeft
    <2>9. HasEmpty
      <3>1. Op.arg \in Arguments /\ Op.arg \in 1..Len(strs)
        BY <1>2, <2>2 DEF Ahead, Op, Arguments
      <3>2. strs[Op.arg].ok = TRUE
        BY <1>1, <1>2 DEF DecodeInv, InRead
      <3>3. IsString(Op.arg, EmptyString)
        BY <1>2, <3>1, <3>2 DEF DecodeInv, StringsTrue
      <3> QED BY <3>1, <3>3 DEF IsString, HasEmpty
    <2>10. HasEmpty'
      BY <2>3, <2>9, SameRequest
    <2> QED BY <2>5, <2>6, <2>7, <2>8, <2>10 DEF DecodeInv
  <1>3. CASE ~ (Op.do = "resolve" /\ strs[Op.arg].val = EmptyString) /\ Fetch(Op).is # "path"
    <2>1. Fail /\ NextOp(Tail(plan))
      BY <1>3 DEF Read
    <2>2. Op.do = "bytes" => owner # "target" \/ BytesOf(req).is # "path"
      BY <1>3 DEF Fetch, ReadMemory
    <2> QED BY <1>1, <2>1, <2>2, FailKeeps
  <1>4. CASE ~ (Op.do = "resolve" /\ strs[Op.arg].val = EmptyString) /\ Fetch(Op).is = "path"
    <2>1. /\ tmp' = Got(TRUE, Fetch(Op), Source(Op)) /\ sub' = "recheck"
          /\ UNCHANGED <<plan, strs, ev>>
      BY <1>4 DEF Read
    <2>2. /\ Fetch(Op) \in Arg
          /\ Source(Op) \in {"target", "resumed", "other", "gone", "nobody"}
          /\ owner = "target" =>
               /\ Op.do = "string" => IsString(Op.arg, Fetch(Op))
               /\ Op.do = "resolve" => IsActual(Op.arg, Fetch(Op))
               /\ Op.do = "bytes" => Source(Op) = "target" /\ BytesOf(req).is = "path"
      BY <1>1, <1>4, FetchIs
    <2>3. tmp' \in Reading /\ tmp'.val = Fetch(Op) /\ tmp'.from = Source(Op)
      BY <2>1, <2>2 DEF Got, Reading
    <2>9. FamilyTrue'
      BY <1>1, <2>1, FamilyStays DEF DecodeInv
    <2>4. Types' /\ StringsTrue' /\ PathsTrue' /\ FamilyTrue'
          /\ (ev'.empty = TRUE => HasEmpty')
      BY <1>1, <2>1, <2>3, <2>9, SameRequest DEF DecodeInv, Types, StringsTrue, PathsTrue
    <2>5. Progress'
      BY <1>1, <2>1, SameRequest DEF DecodeInv, Progress, AtStage
    <2>6. InRead'
      BY <1>1, <2>1 DEF DecodeInv, InRead, Op
    <2>7. ReadTrue'
      BY <1>1, <2>1, <2>2, <2>3, SameRequest DEF ReadTrue, Op
    <2>8. ActionTrue'
      BY <1>1, <2>1, SameRequest DEF DecodeInv, ActionTrue, BytesLeft
    <2> QED BY <2>4, <2>5, <2>6, <2>7, <2>8 DEF DecodeInv
  <1> QED BY <1>2, <1>3, <1>4

LEMMA RecheckKeeps == DecodeInv /\ Recheck => DecodeInv'
  <1> SUFFICES ASSUME DecodeInv, Recheck PROVE DecodeInv'
    OBVIOUS
  <1>1. /\ plan # << >> /\ sub = "recheck" /\ NextOp(Tail(plan))
        /\ UNCHANGED <<req, owner>>
    BY DEF Recheck
  <1>2. CASE CheckValid
    <2>1. Succeed(tmp.val, tmp.from)
      BY <1>2 DEF Recheck
    <2>2. /\ tmp.val \in Arg
          /\ tmp.from \in {"target", "resumed", "other", "gone", "nobody"}
      BY DEF DecodeInv, Types, Reading
    <2>3. /\ Op.do = "string" => IsString(Op.arg, tmp.val)
          /\ Op.do = "resolve" => IsActual(Op.arg, tmp.val)
          /\ Op.do = "bytes" => tmp.from = "target" /\ BytesOf(req).is = "path"
      BY <1>1, <1>2 DEF DecodeInv, ReadTrue, CheckValid
    <2> QED BY <1>1, <2>1, <2>2, <2>3, SucceedKeeps
  <1>3. CASE ~ CheckValid
    <2>1. Fail
      BY <1>3 DEF Recheck
    <2> QED BY <1>1, <1>3, <2>1, FailKeeps DEF CheckValid
  <1> QED BY <1>2, <1>3

LEMMA InterruptKeeps ==
  ASSUME DecodeInv, NEW what \in {"resumed", "other", "gone"}, Interrupt(what)
  PROVE  DecodeInv'
  <1>1. /\ owner = "target" /\ owner' = what /\ owner' # "target"
        /\ UNCHANGED <<req, plan, sub, tmp, strs, ev>>
    BY DEF Interrupt
  <1>6. FamilyTrue'
    BY <1>1, FamilyStays DEF DecodeInv
  <1>2. Types' /\ StringsTrue' /\ PathsTrue' /\ FamilyTrue' /\ ReadTrue'
        /\ (ev'.empty = TRUE => HasEmpty')
    BY <1>1, <1>6, SameRequest DEF DecodeInv, Types, StringsTrue, PathsTrue, ReadTrue
  <1>3. Progress'
    BY <1>1, SameRequest DEF DecodeInv, Progress, AtStage
  <1>4. InRead'
    BY <1>1 DEF DecodeInv, InRead, Op
  <1>5. ActionTrue'
    BY <1>1, SameRequest DEF DecodeInv, ActionTrue, BytesLeft
  <1> QED BY <1>2, <1>3, <1>4, <1>5 DEF DecodeInv

(* AT_EMPTY_PATH: the fd is read instead of the path, or was read.         *)
FdTaken ==
  /\ Types /\ req.emptyPath = TRUE
  /\ ev.empty = TRUE => HasEmpty
  /\ plan = << >> \/ (plan = <<[do |-> "fd", arg |-> 1]>> /\ sub = "check")
  /\ plan = << >> /\ ev.unresolved = FALSE /\ owner = "target" =>
       FdLink(ActualFd(1)).is = "path"

DecodedSoFar == DecodeInv \/ FdTaken

LEMMA SwitchTakesFd ==
  ASSUME DecodeInv, SwitchToFd
  PROVE  FdTaken'
  <1>1. /\ plan' = <<[do |-> "fd", arg |-> 1]>> /\ plan' # << >> /\ sub' = "check"
        /\ tmp' = Nothing /\ req.emptyPath /\ UNCHANGED <<req, owner, strs, ev>>
    BY DEF SwitchToFd, TakesFd, NextOp
  <1>2. tmp' \in Reading
    <2>1. Bad \in Arg
      BY DEF Bad, Arg
    <2> QED BY <1>1, <2>1 DEF Nothing, Got, Reading
  <1>3. Types'
    BY <1>1, <1>2 DEF DecodeInv, Types
  <1>4. req.emptyPath = TRUE
    BY <1>1, RequestAssumption DEF DecodeInv, Types, IsRequest
  <1>5. ev'.empty = TRUE => HasEmpty'
    BY <1>1, SameRequest DEF DecodeInv
  <1> QED BY <1>1, <1>3, <1>4, <1>5 DEF FdTaken

(* The fd is read once, without a check.                                   *)
LEMMA ReadFdKeeps ==
  ASSUME FdTaken, ReadFd
  PROVE  FdTaken'
  <1>1. plan # << >> /\ UNCHANGED <<req, owner>> /\ NextOp(Tail(plan))
    BY DEF ReadFd
  <1>2. plan = <<[do |-> "fd", arg |-> 1]>> /\ Op.do = "fd" /\ Tail(plan) = << >>
    <2>1. plan = <<[do |-> "fd", arg |-> 1]>>
      BY <1>1 DEF FdTaken
    <2> QED BY <2>1 DEF Op
  <1>3. plan' = << >> /\ sub' = "check" /\ tmp' \in Reading
    <2>1. Bad \in Arg
      BY DEF Bad, Arg
    <2> QED BY <1>1, <1>2, <2>1 DEF NextOp, Nothing, Got, Reading
  <1>4. owner \in {"target", "resumed", "other", "gone"} /\ req \in Requests
    BY DEF FdTaken, Types
  <1>5. Dirfd(1) = ActualFd(1)
    <2>1. req.call = "execveat"
      BY <1>4, RequestAssumption DEF FdTaken, IsRequest
    <2>2. 1 \in Arguments
      BY <2>1 DEF Arguments, PathCount, PathCalls, ExecCalls, TwoPaths
    <2> QED BY <1>4, <2>2, DirfdIs
  <1> DEFINE link == FdLink(ActualFd(1))
  <1>6. Fetch(Op) = ReadMemory(link)
    BY <1>2, <1>5 DEF Fetch
  <1>7. link \in Arg
    BY DecoderAssumption DEF FdLink, Arg, Bad
  <1>8. link' = link
    BY <1>1 DEF ActualFd
  <1> HIDE DEF link
  <1>9. CASE Fetch(Op).is # "path"
    <2>1. strs' = strs /\ ev' = markUnresolved(ev)
      BY <1>2, <1>9 DEF ReadFd, Fail
    <2>2. ev'.unresolved = TRUE /\ ev'.empty = ev.empty /\ Types'
      BY <1>1, <1>3, <2>1 DEF FdTaken, Types, markUnresolved
    <2> QED BY <1>1, <1>3, <2>2, SameRequest DEF FdTaken
  <1>10. CASE Fetch(Op).is = "path"
    <2> DEFINE g == Got(TRUE, Fetch(Op), owner)
    <2>1. strs' = strs /\ ev' = [ev EXCEPT !.path = Append(@, g)]
      BY <1>2, <1>10 DEF ReadFd, Succeed
    <2>2. Fetch(Op) \in Arg
      <3>1. Bad \in Arg /\ Foreign \in Arg
        BY DecoderAssumption DEF Bad, Foreign, Arg
      <3> QED BY <1>4, <1>6, <1>7, <3>1 DEF ReadMemory
    <2>3. g \in Reading
      BY <1>4, <2>2 DEF Got, Reading
    <2> HIDE DEF g
    <2>4. /\ ev'.path = Append(ev.path, g) /\ ev'.unresolved = ev.unresolved
          /\ ev'.empty = ev.empty
          /\ ev' = [action |-> ev'.action, path |-> ev'.path, family |-> ev'.family,
                    name |-> ev'.name, unresolved |-> ev'.unresolved, empty |-> ev'.empty]
      BY <2>1 DEF FdTaken, Types
    <2>5. ev'.path \in Seq(Reading)
      BY <2>3, <2>4 DEF FdTaken, Types
    <2>6. Types'
      BY <1>1, <1>3, <2>1, <2>4, <2>5 DEF FdTaken, Types
    <2>7. owner = "target" => link.is = "path"
      BY <1>6, <1>10 DEF ReadMemory
    <2> QED BY <1>1, <1>3, <1>8, <2>4, <2>6, <2>7, SameRequest DEF FdTaken, link
  <1> QED BY <1>9, <1>10

LEMMA FdStays ==
  ASSUME FdTaken, UNCHANGED <<req, plan, sub, tmp, strs, ev>>,
         owner' = owner \/ owner' \in {"resumed", "other", "gone"}
  PROVE  FdTaken'
  <1>1. Types'
    BY DEF FdTaken, Types
  <1>2. FdLink(ActualFd(1))' = FdLink(ActualFd(1))
    BY DEF ActualFd
  <1>3. ev'.empty = TRUE => HasEmpty'
    BY SameRequest DEF FdTaken
  <1> QED BY <1>1, <1>2, <1>3 DEF FdTaken

LEMMA DecodeKeeps ==
  ASSUME DecodedSoFar, Decode
  PROVE  DecodedSoFar'
  <1>1. CASE DecodeInv
    <2>1. ~ ReadFd
      BY <1>1, NoFd DEF ReadFd
    <2> QED BY <1>1, <2>1, CheckKeeps, ReadKeeps, RecheckKeeps, InterruptKeeps, SwitchTakesFd
            DEF Decode, DecodeStep, DecodedSoFar
  <1>2. CASE FdTaken
    <2>1. plan # << >> => Op.do = "fd" /\ sub = "check"
      BY <1>2 DEF FdTaken, Op
    <2>2. ~ Check /\ ~ Read /\ ~ Recheck /\ ~ SwitchToFd
      BY <2>1 DEF Check, Read, Recheck, SwitchToFd, TakesFd
    <2>3. ASSUME NEW what \in {"resumed", "other", "gone"}, Interrupt(what) PROVE FdTaken'
      BY <1>2, <2>3, FdStays DEF Interrupt
    <2> QED BY <1>2, <2>2, <2>3, ReadFdKeeps DEF Decode, DecodeStep, DecodedSoFar
  <1> QED BY <1>1, <1>2 DEF DecodedSoFar

-----------------------------------------------------------------------------
(* A finished request has nothing left to read, and what it was answered   *)
(* agrees with the marks Decode put on it.                                 *)
AnswerTrue ==
  (Idle /\ ev.action \notin Unconditional) =>
    /\ answer = "continue" => ev.unresolved = FALSE
    /\ answer = "empty" => ev.empty = TRUE

Inv ==
  /\ req \in Requests
  /\ Idle => plan = << >>
  /\ ~ Idle => route = "USER_NOTIF"
  /\ route = "USER_NOTIF" => DecodedSoFar /\ AnswerTrue

(* An event that is finished and resolved has every path of the request.   *)
LEMMA FinishedIsTrue ==
  ASSUME DecodeInv, plan = << >>, ev.unresolved = FALSE
  PROVE  /\ Len(ev.path) = PathCount(req.call)
         /\ \A i \in Arguments : IsActual(i, ev.path[i].val)
         /\ ev.action = ActualAction
  <1>1. PICK d \in 0..2 : AtStage(plan, Len(strs), d) /\ Len(ev.path) = d
    BY DEF DecodeInv, Progress
  <1>2. Len(ev.path) = PathCount(req.call)
    BY <1>1 DEF AtStage, B, S, R
  <1>3. \A i \in Arguments : IsActual(i, ev.path[i].val)
    BY <1>2 DEF DecodeInv, PathsTrue, Arguments
  <1>4. ~ BytesLeft(plan)
    BY DEF BytesLeft
  <1>5. ev.action = ActualAction
    BY <1>4, SimpleAction DEF DecodeInv, ActionTrue
  <1> QED BY <1>2, <1>3, <1>5

LEMMA DecodedStays ==
  ASSUME DecodeInv, UNCHANGED decoderVars
  PROVE  DecodeInv'
  <1>1. UNCHANGED <<req, owner, plan, sub, tmp, strs, ev>>
    BY DEF decoderVars
  <1>6. FamilyTrue'
    BY <1>1, FamilyStays DEF DecodeInv
  <1>2. Types' /\ StringsTrue' /\ PathsTrue' /\ FamilyTrue'
        /\ (ev'.empty = TRUE => HasEmpty')
    BY <1>1, <1>6, SameRequest DEF DecodeInv, Types, StringsTrue, PathsTrue
  <1>3. Progress'
    BY <1>1, SameRequest DEF DecodeInv, Progress, AtStage
  <1>4. InRead' /\ ReadTrue'
    BY <1>1, SameRequest DEF DecodeInv, InRead, ReadTrue, Op
  <1>5. ActionTrue'
    BY <1>1, SameRequest DEF DecodeInv, ActionTrue, BytesLeft
  <1> QED BY <1>2, <1>3, <1>4, <1>5 DEF DecodeInv

LEMMA SoFarStays ==
  ASSUME DecodedSoFar, UNCHANGED decoderVars
  PROVE  DecodedSoFar'
  BY DecodedStays, FdStays DEF DecodedSoFar, decoderVars

LEMMA SoFarIsTyped ==
  ASSUME Inv, route = "USER_NOTIF"
  PROVE  Types
  BY DEF Inv, DecodedSoFar, DecodeInv, FdTaken

(* A step after Decode only answers.                                       *)
LEMMA RespondKeeps ==
  ASSUME Inv, Handling, NEW how, NEW kept, Respond(how, kept), how # "none",
         route = "USER_NOTIF" /\ ev.action \notin Unconditional =>
           /\ how = "continue" => ev.unresolved = FALSE
           /\ how = "empty" => ev.empty = TRUE
  PROVE  Inv'
  <1>1. UNCHANGED <<req, owner, plan, sub, tmp, strs, ev, route>> /\ answer' = how
    BY DEF Respond, decoderVars
  <1>2. plan' = << >> /\ req' \in Requests /\ Idle'
    BY <1>1 DEF Handling, Inv, Idle
  <1>3. DecodedSoFar => DecodedSoFar'
    BY SoFarStays DEF Respond
  <1>4. route' = "USER_NOTIF" => AnswerTrue'
    BY <1>1 DEF AnswerTrue
  <1> QED BY <1>1, <1>2, <1>3, <1>4 DEF Inv

LEMMA InvStep == Inv /\ [Next]_vars => Inv'
  <1> SUFFICES ASSUME Inv, [Next]_vars PROVE Inv'
    OBVIOUS
  <1>1. CASE Issue
    <2>1. PICK r \in Requests :
            /\ route' = FilterVerdict(Data(r))
            /\ Idle
            /\ \/ FilterVerdict(Data(r)) = "USER_NOTIF" /\ Receive(r) /\ answer' = "none"
               \/ FilterVerdict(Data(r)) # "USER_NOTIF" /\ Bypass(r)
      BY <1>1 DEF Issue
    <2>2. CASE FilterVerdict(Data(r)) = "USER_NOTIF" /\ Receive(r) /\ answer' = "none"
      <3>1. DecodeInv'
        BY <2>2, ReceiveStarts
      <3>2. req' \in Requests /\ ~ Idle' /\ route' = "USER_NOTIF"
        BY <2>1, <2>2 DEF Receive, Idle
      <3> QED BY <3>1, <3>2 DEF Inv, AnswerTrue, DecodedSoFar
    <2>3. CASE FilterVerdict(Data(r)) # "USER_NOTIF" /\ Bypass(r)
      <3>1. req' \in Requests /\ plan' = << >>
        BY <2>1, <2>3 DEF Bypass, Inv
      <3>2. Idle' /\ route' # "USER_NOTIF"
        BY <2>1, <2>3 DEF Bypass, Idle
      <3> QED BY <3>1, <3>2 DEF Inv
    <2> QED BY <2>1, <2>2, <2>3
  <1>2. CASE Decode
    <2>1. ~ Idle /\ ~ Idle' /\ route' = route /\ req' = req
      BY <1>2 DEF Decode, DecodeStep, Check, Read, Recheck, SwitchToFd, ReadFd, Interrupt, Idle
    <2>2. DecodedSoFar'
      BY <1>2, <2>1, DecodeKeeps DEF Inv
    <2> QED BY <2>1, <2>2 DEF Inv, AnswerTrue
  <1>3. CASE FastPath
    BY <1>3, RespondKeeps DEF FastPath
  <1>4. CASE AnswerEmpty
    <2>1. route = "USER_NOTIF" => ev.empty = TRUE
      BY <1>4, SoFarIsTyped DEF AnswerEmpty, Types
    <2> QED BY <1>4, <2>1, RespondKeeps DEF AnswerEmpty
  <1>5. CASE denyUnresolved
    <2>1. Respond("EACCES", {Record("deny", << >>, TRUE)}) /\ Handling
      BY <1>5 DEF denyUnresolved
    <2> QED BY <2>1, RespondKeeps
  <1>6. CASE Decide
    <2>1. PICK how \in {"continue", "missing", "exists", "denied"} :
            /\ Handling
            /\ ~ ev.unresolved
            /\ \E kept : Respond(how, kept)
      BY <1>6 DEF Decide
    <2>2. route = "USER_NOTIF" => ev.unresolved = FALSE
      BY <2>1, SoFarIsTyped DEF Types
    <2> QED BY <2>1, <2>2, RespondKeeps
  <1>7. CASE writeRecordedPolicy \/ UNCHANGED vars
    <2>1. UNCHANGED <<decoderVars, req, plan, ev, route, answer>>
      BY <1>7 DEF writeRecordedPolicy, vars, decoderVars
    <2>2. Idle' = Idle
      BY <2>1 DEF Idle
    <2>3. DecodedSoFar => DecodedSoFar'
      BY <2>1, SoFarStays
    <2>4. AnswerTrue => AnswerTrue'
      BY <2>1, <2>2 DEF AnswerTrue
    <2> QED BY <2>1, <2>2, <2>3, <2>4 DEF Inv
  <1> QED BY <1>1, <1>2, <1>3, <1>4, <1>5, <1>6, <1>7 DEF Next

LEMMA InvInit == Init => Inv
  BY RequestAssumption DEF Init, Inv, Idle

LEMMA InvAlways == Spec => []Inv
  BY InvInit, InvStep, PTL DEF Spec

LEMMA ParsedIs ==
  parseSockaddr(req.addr) = [family |-> parseSockaddr(req.addr).family,
                             name |-> parseSockaddr(req.addr).name]
  BY DEF parseSockaddr

(* TrueToTarget, for every request, file descriptor table and moment of an *)
(* interrupt: an event of Decode that counts as resolved is the syscall    *)
(* the blocked target made. The low half of the dirfd register is sign     *)
(* extended, no failed read is taken for a value, and no value read        *)
(* between the two ID_VALID checks is another process's.                   *)
THEOREM DecodedIsTrue == Spec => []TrueToTarget
  <1>1. Inv => TrueToTarget
    <2> SUFFICES ASSUME Inv, Decoded, ~ ev.unresolved, ~ req.emptyPath
                 PROVE  /\ ev.action = ActualAction
                        /\ Len(ev.path) = PathCount(req.call)
                        /\ \A i \in Arguments : ev.path[i].val = ActualPath(i)
                        /\ [family |-> ev.family, name |-> ev.name] \in
                             {[family |-> "none", name |-> NoName], parseSockaddr(req.addr)}
      BY DEF TrueToTarget
    <2>1. DecodeInv /\ plan = << >>
      BY DEF Inv, Decoded, DecodedSoFar, FdTaken
    <2>2. ev.unresolved = FALSE
      BY <2>1 DEF DecodeInv, Types
    <2>3. [family |-> ev.family, name |-> ev.name] \in
            {[family |-> "none", name |-> NoName], parseSockaddr(req.addr)}
      <3>1. FamilyTrue
        BY <2>1 DEF DecodeInv
      <3> QED BY <3>1, ParsedIs DEF FamilyTrue
    <2> QED BY <2>1, <2>2, <2>3, FinishedIsTrue DEF IsActual
  <1> QED BY <1>1, InvAlways, PTL

(* FailsClosed, likewise, AT_EMPTY_PATH included: HandleSyscall continues  *)
(* only a syscall whose every path could be read and made absolute, or     *)
(* whose fd is a file, whatever the policy grants, and answers ENOENT in   *)
(* silence only to a really empty path; an open_how that was not read      *)
(* opens for reading, and the address of a connect is what its register    *)
(* and the target's memory show of it, or nothing.                         *)
THEOREM UnreadIsRefused == Spec => []FailsClosed
  <1>1. Inv => FailsClosed
    <2> SUFFICES ASSUME Inv, Decoded, Idle, ev.action \notin Unconditional
                 PROVE  /\ answer = "continue" =>
                             \A i \in Arguments :
                               \/ ActualPath(i).is = "path"
                               \/ /\ req.emptyPath
                                  /\ owner = "target" => FdLink(ActualFd(i)).is = "path"
                        /\ answer = "empty" => HasEmpty
                        /\ answer = "continue" /\ req.call = "openat2" /\ req.bytes.is # "path" =>
                             ev.action = "read"
                        /\ req.call = "connect" /\ owner = "target" =>
                             [family |-> ev.family, name |-> ev.name] =
                               IF AddressShows THEN parseSockaddr(req.addr)
                               ELSE [family |-> "none", name |-> NoName]
      BY DEF FailsClosed, HasEmpty
    <2>1. DecodedSoFar /\ AnswerTrue /\ plan = << >>
      BY DEF Inv, Decoded
    <2>2. answer = "empty" => HasEmpty
      BY <2>1 DEF AnswerTrue, DecodedSoFar, DecodeInv, FdTaken
    <2>3. answer = "continue" => ev.unresolved = FALSE
      BY <2>1 DEF AnswerTrue
    <2>4. CASE DecodeInv
      <3>1. answer = "continue" => \A i \in Arguments : ActualPath(i).is = "path"
        BY <2>1, <2>3, <2>4, FinishedIsTrue DEF IsActual
      <3>2. answer = "continue" /\ req.call = "openat2" /\ req.bytes.is # "path" =>
              ev.action = "read"
        BY <2>1, <2>3, <2>4, FinishedIsTrue, UnreadHowReads
      <3>3. FamilyTrue
        BY <2>4 DEF DecodeInv
      <3>4. req.call = "connect" /\ owner = "target" =>
              [family |-> ev.family, name |-> ev.name] =
                IF AddressShows THEN parseSockaddr(req.addr)
                ELSE [family |-> "none", name |-> NoName]
        BY <2>1, <3>3, ParsedIs DEF FamilyTrue
      <3> QED BY <2>2, <3>1, <3>2, <3>4
    <2>5. CASE FdTaken
      <3>1. req.call = "execveat" /\ req.emptyPath
        BY <2>5, RequestAssumption DEF FdTaken, Types, IsRequest
      <3>2. Arguments = {1}
        BY <3>1 DEF Arguments, PathCount, PathCalls, ExecCalls, TwoPaths
      <3>3. answer = "continue" /\ owner = "target" => FdLink(ActualFd(1)).is = "path"
        BY <2>1, <2>3, <2>5 DEF FdTaken
      <3> QED BY <2>2, <3>1, <3>2, <3>3
    <2> QED BY <2>1, <2>4, <2>5 DEF DecodedSoFar
  <1> QED BY <1>1, InvAlways, PTL

-----------------------------------------------------------------------------
(* What the rest of HandleSyscall sees and keeps.                          *)

LEMMA CanonicalIsNames ==
  ASSUME NEW p \in Seq(STRING)
  PROVE  CanonicalizePathForPid(p) \in Seq(Names)
  <1> DEFINE c == Clean(p)
  <1>1. c \in Seq(STRING)
    <2>1. PICK f \in [0..Len(p) -> Seq(STRING)] : Clean(p) = f[Len(p)]
      BY CleanIs
    <2>2. Len(p) \in 0..Len(p)
      OBVIOUS
    <2> QED BY <2>1, <2>2
  <1> HIDE DEF c
  <1>2. CASE ~ IsProcPath(p)
    <2>1. CanonicalizePathForPid(p) = CanonicalizePath(p)
      BY <1>2 DEF CanonicalizePathForPid
    <2>2. CASE c = << >>
      BY <2>1, <2>2 DEF CanonicalizePath, c
    <2>3. CASE c # << >>
      <3>1. Front(c) \in Seq(STRING) /\ Last(c) \in STRING
        BY <1>1, <2>3, FrontIs
      <3>2. canonicalizeDir(Front(c)) \in Seq(STRING)
        BY <3>1, CanonicalDirIs
      <3>3. Append(canonicalizeDir(Front(c)), Last(c)) \in Seq(STRING)
        BY <3>1, <3>2, AppendProperties
      <3>4. CanonicalizePath(p) = Append(canonicalizeDir(Front(c)), Last(c))
        BY <2>3 DEF CanonicalizePath, c
      <3> QED BY <2>1, <3>3, <3>4, StringsAreNames
    <2> QED BY <2>2, <2>3
  <1>3. CASE IsProcPath(p)
    <2> DEFINE n == Len(c)
               tail == SubSeq(c, 3, n)
    <2>1. n >= 2 /\ n \in Nat
      BY <1>1, <1>3 DEF IsProcPath, c
    <2>2. 3 \in 1..(Len(c) + 1) /\ n \in 0..Len(c) /\ 3 <= n + 1
      BY <2>1
    <2>3. tail \in Seq(STRING)
      BY <1>1, <2>2, SliceIs
    <2>4. c \in Seq(Names) /\ tail \in Seq(Names)
      BY <1>1, <2>3, StringsAreNames
    <2>5. /\ <<"proc", "self", "fd">> \in Seq(Names) /\ <<"proc", "self">> \in Seq(Names)
      BY DEF Names
    <2>6. CanonicalizePathForPid(p)
            \in {c, <<"proc", "self", "fd">> \o tail, <<"proc", "self">> \o tail}
      BY <1>3 DEF CanonicalizePathForPid, normalizeProcPath, c
    <2> HIDE DEF tail
    <2>7. <<"proc", "self", "fd">> \o tail \in Seq(Names)
      BY <2>4, <2>5, ConcatProperties
    <2>8. <<"proc", "self">> \o tail \in Seq(Names)
      BY <2>4, <2>5, ConcatProperties
    <2> QED BY <2>4, <2>6, <2>7, <2>8
  <1> QED BY <1>2, <1>3

RecordsTrue ==
  \A r \in records :
    r.path \in Seq(Names) /\ r.verdict \in {"allow", "deny"} /\ r.unresolved \in BOOLEAN

(* The policy was asked about the arguments of the blocked target.         *)
CanonicalTrue ==
  /\ ~ Idle => canonical = << >>
  /\ Idle /\ route = "USER_NOTIF" /\ ~ req.emptyPath =>
       \A i \in DOMAIN canonical :
         /\ i \in Arguments /\ ActualPath(i).seg \in Seq(STRING)
         /\ canonical[i] = CanonicalizePathForPid(ActualPath(i).seg)

RecordInv ==
  /\ Inv
  /\ RecordsTrue
  /\ policy # NoPolicy => policy = GeneratePolicy(records)
  /\ CanonicalTrue

LEMMA FirstIsNames ==
  ASSUME Types
  PROVE  (IF Canonicals(ev) = << >> THEN << >> ELSE Canonicals(ev)[1]) \in Seq(Names)
  <1> DEFINE paths == Canonicals(ev)
             e == ev.path
  <1>1. e \in Seq(Reading) /\ Len(e) \in Nat /\ DOMAIN e = 1..Len(e)
    BY DEF Types
  <1>2. paths = [i \in 1..Len(e) |-> CanonicalizePathForPid(e[i].val.seg)]
    BY <1>1 DEF Canonicals
  <1> HIDE DEF paths, e
  <1>3. ASSUME NEW i \in 1..Len(e) PROVE CanonicalizePathForPid(e[i].val.seg) \in Seq(Names)
    <2>1. e[i].val \in Arg
      <3>1. e[i] \in Reading
        BY <1>1
      <3> QED BY <3>1 DEF Reading
    <2>2. e[i].val.seg \in Seq(STRING)
      BY <2>1 DEF Arg
    <2> QED BY <2>2, CanonicalIsNames
  <1>4. paths \in Seq(Seq(Names)) /\ Len(paths) = Len(e)
    BY <1>1, <1>2, <1>3
  <1>5. paths # << >> => paths[1] \in Seq(Names)
    BY <1>4, EmptySeq
  <1>6. << >> \in Seq(Names)
    OBVIOUS
  <1> QED BY <1>5, <1>6 DEF paths

(* A step after Decode keeps what it should, and records paths.            *)
LEMMA RespondRecords ==
  ASSUME RecordInv, Handling, Inv', NEW how, NEW kept, Respond(how, kept), how # "none",
         \A r \in kept :
           r.path \in Seq(Names) /\ r.verdict \in {"allow", "deny"} /\ r.unresolved \in BOOLEAN,
         canonical' = canonical \/ (~ ev.unresolved /\ canonical' = Canonicals(ev))
  PROVE  RecordInv'
  <1>1. /\ UNCHANGED <<req, owner, plan, sub, tmp, strs, ev, route, policy>>
        /\ answer' = how /\ records' = records \cup kept
    BY DEF Respond, decoderVars
  <1>3. RecordsTrue'
    BY <1>1 DEF RecordInv, RecordsTrue
  <1>4. policy' = NoPolicy
    BY <1>1 DEF Handling, Running
  <1>5. Idle' /\ canonical = << >>
    BY <1>1 DEF Idle, Handling, RecordInv, CanonicalTrue
  <1>6. ASSUME ~ req.emptyPath, NEW i \in DOMAIN canonical'
        PROVE /\ i \in Arguments /\ ActualPath(i).seg \in Seq(STRING)
              /\ canonical'[i] = CanonicalizePathForPid(ActualPath(i).seg)
    <2>1. CASE canonical' = canonical
      BY <1>5, <1>6, <2>1
    <2>2. CASE ~ ev.unresolved /\ canonical' = Canonicals(ev)
      <3>1. DecodeInv /\ plan = << >>
        BY <1>6 DEF RecordInv, Inv, Handling, DecodedSoFar, FdTaken
      <3>2. ev.unresolved = FALSE /\ ev.path \in Seq(Reading)
        BY <2>2, <3>1 DEF DecodeInv, Types
      <3>3. Len(ev.path) = PathCount(req.call) /\ \A j \in Arguments : IsActual(j, ev.path[j].val)
        BY <3>1, <3>2, FinishedIsTrue
      <3>4. i \in DOMAIN ev.path /\ canonical'[i] = CanonicalizePathForPid(ev.path[i].val.seg)
        BY <1>6, <2>2 DEF Canonicals
      <3>5. i \in Arguments
        BY <3>2, <3>3, <3>4 DEF Arguments
      <3>6. ev.path[i] \in Reading
        BY <3>2, <3>4
      <3>7. ev.path[i].val.seg \in Seq(STRING)
        BY <3>6 DEF Reading, Arg
      <3> QED BY <3>3, <3>4, <3>5, <3>7 DEF IsActual
    <2> QED BY <2>1, <2>2
  <1>7. \A i : ActualPath(i)' = ActualPath(i) /\ Arguments' = Arguments
    BY <1>1 DEF ActualPath, ActualFd, Arguments
  <1>8. CanonicalTrue'
    BY <1>1, <1>5, <1>6, <1>7 DEF CanonicalTrue
  <1> QED BY <1>3, <1>4, <1>8 DEF RecordInv

LEMMA RecordStep == RecordInv /\ [Next]_vars => RecordInv'
  <1> SUFFICES ASSUME RecordInv, [Next]_vars PROVE RecordInv'
    OBVIOUS
  <1>0. Inv'
    BY InvStep DEF RecordInv
  <1>1. CASE Issue
    <2>1. PICK r \in Requests :
            /\ Running
            /\ route' = FilterVerdict(Data(r))
            /\ canonical' = << >>
            /\ UNCHANGED <<records, policy>>
            /\ \/ FilterVerdict(Data(r)) = "USER_NOTIF" /\ Receive(r) /\ answer' = "none"
               \/ FilterVerdict(Data(r)) # "USER_NOTIF" /\ Bypass(r)
      BY <1>1 DEF Issue
    <2>2. RecordsTrue' /\ policy' = NoPolicy
      BY <2>1 DEF RecordInv, RecordsTrue, Running
    <2>3. CanonicalTrue'
      BY <2>1 DEF CanonicalTrue
    <2> QED BY <1>0, <2>2, <2>3 DEF RecordInv
  <1>2. CASE Decode
    <2>1. /\ UNCHANGED <<req, route, canonical, answer, records, policy>>
          /\ ~ Idle /\ ~ Idle'
      BY <1>2 DEF Decode, DecodeStep, Check, Read, Recheck, SwitchToFd, ReadFd, Interrupt, Idle
    <2>3. RecordsTrue' /\ (policy # NoPolicy => policy = GeneratePolicy(records))'
      BY <2>1 DEF RecordInv, RecordsTrue
    <2>4. CanonicalTrue'
      BY <2>1 DEF RecordInv, CanonicalTrue
    <2> QED BY <1>0, <2>3, <2>4 DEF RecordInv
  <1>3. CASE FastPath
    <2>1. Handling /\ Respond("continue", {}) /\ canonical' = canonical
      BY <1>3 DEF FastPath
    <2> QED BY <1>0, <2>1, RespondRecords
  <1>4. CASE AnswerEmpty
    <2>1. Handling /\ Respond("empty", {}) /\ canonical' = canonical
      BY <1>4 DEF AnswerEmpty
    <2> QED BY <1>0, <2>1, RespondRecords
  <1>5. CASE denyUnresolved
    <2> DEFINE rec == Record("deny", << >>, TRUE)
    <2>1. Handling /\ Respond("EACCES", {rec}) /\ canonical' = canonical
      BY <1>5 DEF denyUnresolved
    <2>2. rec.path \in Seq(Names) /\ rec.verdict = "deny" /\ rec.unresolved = TRUE
      BY DEF Record
    <2> HIDE DEF rec
    <2> QED BY <1>0, <2>1, <2>2, RespondRecords
  <1>6. CASE Decide
    <2> DEFINE first == IF Canonicals(ev) = << >> THEN << >> ELSE Canonicals(ev)[1]
               yes == Record("allow", first, FALSE)
               no == Record("deny", first, FALSE)
    <2>1. PICK how \in {"continue", "missing", "exists", "denied"}, kept \in SUBSET {yes, no} :
            /\ Handling
            /\ ~ ev.unresolved
            /\ canonical' = Canonicals(ev)
            /\ Respond(how, kept)
      BY <1>6 DEF Decide
    <2>2. first \in Seq(Names)
      BY <2>1, SoFarIsTyped, FirstIsNames DEF RecordInv, Inv, Handling
    <2>3. /\ yes.path = first /\ yes.verdict = "allow" /\ yes.unresolved = FALSE
          /\ no.path = first /\ no.verdict = "deny" /\ no.unresolved = FALSE
      BY DEF Record
    <2> HIDE DEF first, yes, no
    <2>4. \A r \in kept :
            r.path \in Seq(Names) /\ r.verdict \in {"allow", "deny"} /\ r.unresolved \in BOOLEAN
      BY <2>1, <2>2, <2>3
    <2>5. how # "none"
      BY <2>1
    <2> QED BY <1>0, <2>1, <2>4, <2>5, RespondRecords
  <1>7. CASE writeRecordedPolicy \/ UNCHANGED vars
    <2>1. /\ UNCHANGED <<req, owner, plan, sub, tmp, strs, ev, route, canonical, answer, records>>
          /\ policy' = GeneratePolicy(records) \/ policy' = policy
      BY <1>7 DEF writeRecordedPolicy, vars, decoderVars
    <2>3. RecordsTrue' /\ (policy # NoPolicy => policy = GeneratePolicy(records))'
      BY <2>1 DEF RecordInv, RecordsTrue
    <2>4. \A i : ActualPath(i)' = ActualPath(i) /\ Arguments' = Arguments
      BY <2>1 DEF ActualPath, ActualFd, Arguments
    <2>5. Idle' = Idle
      BY <2>1 DEF Idle
    <2>6. CanonicalTrue'
      BY <2>1, <2>4, <2>5 DEF RecordInv, CanonicalTrue
    <2> QED BY <1>0, <2>3, <2>6 DEF RecordInv
  <1> QED BY <1>1, <1>2, <1>3, <1>4, <1>5, <1>6, <1>7 DEF Next

LEMMA RecordInit == Init => RecordInv
  BY InvInit DEF Init, RecordInv, RecordsTrue, CanonicalTrue, Idle

LEMMA RecordAlways == Spec => []RecordInv
  BY RecordInit, RecordStep, PTL DEF Spec

(* RecordedIsAllowed, for every set of records a session can collect: with *)
(* the variables of normalizePath, the globs, promotions and dropped       *)
(* patterns of collapseToGlobs and the rules GeneratePolicy merges, every  *)
(* recorded denial is allowed by a policy that loads, except for what Lost *)
(* names.                                                                  *)
THEOREM RecordedPolicyAllows == Spec => []RecordedIsAllowed
  <1>1. RecordInv => RecordedIsAllowed
    <2> SUFFICES ASSUME RecordInv, policy # NoPolicy, Loads(policy), NEW r \in records,
                        ~ (r.verdict = "allow"), ~ r.unresolved, ~ (r.action \notin FileActions),
                        ~ (IsProbeTemp(r.path) /\ Len(r.path) = 1),
                        ~ isBasePath(normalizePath(Generalize(r.path)), r.action),
                        ~ Lost(normalizePath(Generalize(r.path)), Wanted(records, r.action))
                 PROVE  AllowedBy(policy, r.action, r.path)
      BY DEF RecordedIsAllowed
    <2>1. policy = GeneratePolicy(records) /\ r.verdict = "deny"
      BY DEF RecordInv, RecordsTrue
    <2>2. \A s \in records : s.path \in Seq(Names)
      BY DEF RecordInv, RecordsTrue
    <2>3. r.action \in FileActions
      OBVIOUS
    <2>4. Loads(GeneratePolicy(records))
      BY <2>1
    <2>5. AllowedBy(GeneratePolicy(records), r.action, r.path)
      BY <2>1, <2>2, <2>3, <2>4, GeneratedAllows
    <2> QED BY <2>1, <2>5
  <1> QED BY <1>1, RecordAlways, PTL

(* PolicySeesKernelPath, for every file system and every request whose     *)
(* paths take back no symbolic link: what CanonicalizePath makes of the    *)
(* text, with the longest ancestor the kernel can open, is the entry where *)
(* the kernel's own walk ends; if that is a link the syscall follows, the  *)
(* policy was asked about the link.                                        *)
THEOREM StraightPathSeen == Spec => [](StraightArguments => PolicySeesKernelPath)
  <1>1. RecordInv => (StraightArguments => PolicySeesKernelPath)
    <2> SUFFICES ASSUME RecordInv, StraightArguments, Decoded, Idle, ~ req.emptyPath,
                        NEW i \in DOMAIN canonical, ~ IsProcPath(ActualPath(i).seg)
                 PROVE  LET acted == KernelPath(ActualPath(i).seg)
                        IN  \/ canonical[i] = acted
                            \/ /\ FollowsLast /\ canonical[i] \in DOMAIN Links
                               /\ Links[canonical[i]] = acted
      BY DEF PolicySeesKernelPath
    <2>3. /\ i \in Arguments /\ ActualPath(i).seg \in Seq(STRING)
          /\ canonical[i] = CanonicalizePathForPid(ActualPath(i).seg)
      BY DEF RecordInv, CanonicalTrue, Decoded
    <2>4. Straight(ActualPath(i).seg)
      BY <2>3 DEF StraightArguments
    <2>5. CanonicalizePathForPid(ActualPath(i).seg) = CanonicalizePath(ActualPath(i).seg)
      BY DEF CanonicalizePathForPid
    <2>6. canonical[i] = KernelEntry(ActualPath(i).seg)
      BY <2>3, <2>4, <2>5, CanonicalIsKernelEntry
    <2> QED BY <2>6 DEF KernelPath, Follow
  <1> QED BY <1>1, RecordAlways, PTL

(* What the filter said is what its program says of the request.           *)
RouteTrue == req \in Requests /\ (route # "none" => route = FilterVerdict(Data(req)))

LEMMA RouteStep == RouteTrue /\ [Next]_vars => RouteTrue'
  <1> SUFFICES ASSUME RouteTrue, [Next]_vars PROVE RouteTrue'
    OBVIOUS
  <1>1. CASE Issue
    BY <1>1 DEF Issue, Receive, Bypass, RouteTrue
  <1>2. CASE ~ Issue
    <2>1. UNCHANGED <<req, route>>
      BY <1>2 DEF Next, Decode, DecodeStep, Check, Read, Recheck, SwitchToFd, ReadFd, Interrupt,
         FastPath, AnswerEmpty, denyUnresolved, Decide, Respond, writeRecordedPolicy,
         vars, decoderVars
    <2> QED BY <2>1 DEF RouteTrue
  <1> QED BY <1>1, <1>2

(* FilterRoutes, for every request: no jump of BuildFilter misses its      *)
(* target, for any architecture, ABI and syscall, and its list is the      *)
(* cases of Decode.                                                        *)
THEOREM FilterIsRight == Spec => []FilterRoutes
  <1>1. Init => RouteTrue
    BY RequestAssumption DEF Init, RouteTrue
  <1>2. RouteTrue => FilterRoutes
    <2> SUFFICES ASSUME RouteTrue, route # "none"
                 PROVE  LET native == req.arch = "x86_64" /\ ~ req.x32
                        IN  /\ route = "USER_NOTIF" <=>
                                 native /\ req.call \in PathCalls \cup {"connect"}
                            /\ route = "ENOSYS" <=> native /\ req.call = "io_uring_setup"
      BY DEF FilterRoutes
    <2>1. route = FilterVerdict(Syscall(req.arch, req.call, req.x32)) /\ req.x32 \in BOOLEAN
      BY RequestAssumption DEF RouteTrue, Data, Syscall, IsRequest
    <2>2. CASE req.arch = "x86_64" /\ req.x32 = FALSE
      <3> DEFINE call == req.call
      <3>1. route = FilterVerdict(Syscall("x86_64", call, FALSE))
        BY <2>1, <2>2
      <3> HIDE DEF call
      <3>2. /\ route = "USER_NOTIF" <=> call \in PathCalls \cup {"connect"}
            /\ route = "ENOSYS" <=> call = "io_uring_setup"
        BY <3>1, NativeVerdict
      <3> QED BY <2>2, <3>2 DEF call
    <2>3. CASE req.arch # "x86_64" \/ req.x32 = TRUE
      <3>1. route = "ALLOW"
        BY <2>1, <2>3, ForeignPasses
      <3> QED BY <2>3, <3>1
    <2> QED BY <2>1, <2>2, <2>3
  <1> QED BY <1>1, <1>2, RouteStep, PTL DEF Spec
=============================================================================
