---------------------------- MODULE ProcessTable ----------------------------
(***************************************************************************)
(* The process table of internal/process/table.go, shared by the handler   *)
(* goroutines.                                                             *)
(*                                                                         *)
(* RecordExec and RecordObserved release Table.mu around the read of       *)
(* /proc/<pid>/status, so each is a call with a program counter. A call    *)
(* may outlive the syscall it serves: the target can be killed, or its     *)
(* syscall interrupted and issued again, so several calls may be in        *)
(* progress for one pid and the pid may be gone, or reused, meanwhile.     *)
(* Exit is not intercepted and pids are reused, so over time /proc may     *)
(* name any other pid as the parent of a process.                          *)
(*                                                                         *)
(* A pid outside the table's reach (0 after a failed read, the supervisor  *)
(* that adopts orphans) is Outside: no entry is ever recorded for it. The  *)
(* Comm field is a function of Exe, and the found/notFound counters of     *)
(* Lookup only report; both are left out.                                  *)
(***************************************************************************)
EXTENDS LRU

CONSTANTS
  Pids,              \* thread ids of sandboxed processes
  Outside,           \* a parent that is not sandboxed, or not readable
  Parents,           \* Parents[p]: the parents /proc may name for p over time
  Paths,             \* exec targets
  EvalSymlinks,      \* EvalSymlinks[x]: the binary the path x resolves to
  ProcessEntries,    \* the configured cache.process-entries
  maxAncestorDepth,  \* bound on every walk of the parent chain
  Calls              \* goroutines inside RecordExec or RecordObserved

ASSUME TableAssumption ==
  /\ Outside \notin Pids
  /\ Parents \in [Pids -> SUBSET (Pids \cup {Outside})]
  /\ EvalSymlinks \in [Paths -> Paths]
  /\ ProcessEntries \in Int
  /\ maxAncestorDepth \in Nat

VARIABLES
  table,  \* the LRU store of entries by pid
  call    \* the calls in progress

vars == <<table, call>>

Capacity == EffectiveCapacity(ProcessEntries)

Entry == [exe : Paths, ppid : Pids \cup {Outside}]

Idle == [op |-> "none"]

-----------------------------------------------------------------------------
(* Operations on the store, each inside one critical section.              *)

put(t, pid, entry) == Store(t, pid, entry, Capacity)

(* Mutant: only the process itself counts as used.                         *)
WalkOneStep(t, pid, depth) == Touch(t, pid)

(* One round of a walk of the parent chain: look a pid up, mark it as used *)
(* and go on to its recorded parent. A pid the table does not hold and a   *)
(* process recorded as its own parent end the walk.                        *)
WalkStep(w) ==
  IF ~ w.more \/ ~ Holds(w.store, w.at)
  THEN [store |-> w.store, at |-> w.at, more |-> FALSE]
  ELSE [store |-> Touch(w.store, w.at),
        at |-> w.store.items[w.at].ppid,
        more |-> w.store.items[w.at].ppid # w.at]

(* Mark pid and the chain of recorded parents above it as used, with at    *)
(* most `depth' lookups.                                                   *)
Walk(t, pid, depth) ==
  LET step[d \in 0..depth] ==
        IF d = 0 THEN [store |-> t, at |-> pid, more |-> TRUE] ELSE WalkStep(step[d - 1])
  IN  step[depth].store

touchAncestors(t, pid) == Walk(t, pid, maxAncestorDepth)

(* The insert that ends both RecordExec and RecordObserved.                *)
Record(t, c) ==
  touchAncestors(put(t, c.pid, [exe |-> c.exe, ppid |-> c.ppid]), c.ppid)

-----------------------------------------------------------------------------

Init ==
  /\ table = EmptyStore
  /\ call = [c \in Calls |-> Idle]

(* RecordExec, called for an allowed exec, up to the /proc read.           *)
RecordExec(c, p, path) ==
  /\ call[c] = Idle
  /\ call' = [call EXCEPT ![c] =
       [op |-> "exec", pid |-> p, exe |-> EvalSymlinks[path], at |-> "read"]]
  /\ UNCHANGED table

(* RecordObserved up to its first unlock: a pid the table holds is only    *)
(* marked as used. path is what /proc/<pid>/exe says, already resolved.    *)
RecordObserved(c, p, path) ==
  /\ call[c] = Idle
  /\ EvalSymlinks[path] = path
  /\ table' = Touch(table, p)
  /\ call' = IF Holds(table, p) THEN call
             ELSE [call EXCEPT ![c] =
                    [op |-> "observe", pid |-> p, exe |-> path, at |-> "read"]]

(* readPPid, with no lock held: ppid is what /proc/<pid>/status says, or   *)
(* Outside when the read fails because the process is gone.                *)
readPPid(c, ppid) ==
  /\ call[c] # Idle
  /\ call[c].at = "read"
  /\ ppid \in Parents[call[c].pid]
  /\ call' = [call EXCEPT ![c] =
       [op |-> call[c].op, pid |-> call[c].pid, exe |-> call[c].exe,
        at |-> "insert", ppid |-> ppid]]
  /\ UNCHANGED table

Inserting(c, op) == call[c] # Idle /\ call[c].at = "insert" /\ call[c].op = op

(* The critical section of RecordExec.                                     *)
FinishExec(c) ==
  /\ Inserting(c, "exec")
  /\ table' = Record(table, call[c])
  /\ call' = [call EXCEPT ![c] = Idle]

(* Mutant: the second check is left out.                                   *)
FinishObserveUnchecked(c) ==
  /\ Inserting(c, "observe")
  /\ table' = Record(table, call[c])
  /\ call' = [call EXCEPT ![c] = Idle]

(* The second critical section of RecordObserved.                          *)
FinishObserve(c) ==
  /\ Inserting(c, "observe")
  /\ table' = IF Holds(table, call[c].pid) THEN Touch(table, call[c].pid)
              ELSE Record(table, call[c])
  /\ call' = [call EXCEPT ![c] = Idle]

(* Lookup for the process of any notification.                             *)
Lookup(p) ==
  /\ table' = Touch(table, p)
  /\ UNCHANGED call

(* LookupAncestors gets the entry of the process and of one parent per     *)
(* round, so it marks one entry more than touchAncestors.                  *)
LookupAncestors(p) ==
  /\ table' = Walk(table, p, maxAncestorDepth + 1)
  /\ UNCHANGED call

Next ==
  \/ \E p \in Pids : Lookup(p) \/ LookupAncestors(p)
  \/ \E c \in Calls, p \in Pids, path \in Paths :
       RecordExec(c, p, path) \/ RecordObserved(c, p, path)
  \/ \E c \in Calls, ppid \in Pids \cup {Outside} : readPPid(c, ppid)
  \/ \E c \in Calls : FinishExec(c) \/ FinishObserve(c)

Spec == Init /\ [][Next]_vars

-----------------------------------------------------------------------------

Call ==
  {Idle}
    \cup [op : {"exec", "observe"}, pid : Pids, exe : Paths, at : {"read"}]
    \cup [op : {"exec", "observe"}, pid : Pids, exe : Paths, at : {"insert"},
          ppid : Pids \cup {Outside}]

TypeOK ==
  /\ IsStore(table, Pids, Entry)
  /\ call \in [Calls -> Call]

(* The entries map and the LRU list hold the same pids, each once, and no  *)
(* more of them than the capacity, whatever calls interleave. The walks    *)
(* splice the list while they follow the map, so a drift would let the     *)
(* table grow without bound.                                               *)
TableCoherent == TypeOK /\ IsCoherent(table) /\ Len(table.order) <= Capacity

(* "An entry from RecordExec is authoritative because it names the exec    *)
(* target, and an observation must not overwrite it": while a pid stays in *)
(* the table, only a RecordExec for that pid changes its entry, so neither *)
(* an observer that raced with it nor the reparenting of an orphan does.   *)
OnlyExecReplaces ==
  [][\A p \in DOMAIN table.items \cap DOMAIN table'.items :
       table'.items[p] # table.items[p] =>
         \E c \in Calls : Inserting(c, "exec") /\ call[c].pid = p]_vars

(* The pids reached from p over recorded parents, at most n of them: every *)
(* path of n held pids.                                                    *)
Chain(t, p, n) ==
  {q \in DOMAIN t.items :
     \E k \in 1..n : \E f \in [1..k -> DOMAIN t.items] :
       f[1] = p /\ f[k] = q /\ \A i \in 1..(k - 1) : t.items[f[i]].ppid = f[i + 1]}

AheadOf(t, front, back) ==
  \A a \in front, b \in back : PositionOf(t.order, a) < PositionOf(t.order, b)

(* "Promote the ancestors of this pid as well": when a call inserts an     *)
(* entry, every recorded ancestor within the depth limit ends up ahead of  *)
(* every other entry, that of the process itself included, so the chain    *)
(* startedBy() needs is the last thing evicted.                            *)
AncestorsStayWarm ==
  [][\A c \in Calls :
       call[c] # Idle /\ call'[c] = Idle /\ table'.items # table.items =>
         LET chain == Chain(table', call[c].ppid, maxAncestorDepth)
         IN  AheadOf(table', chain, DOMAIN table'.items \ chain)]_vars

(* "Without this the entries of a process that only spawns children [...]  *)
(* would age out and be evicted while it is still running, which is        *)
(* exactly the entry startedBy() needs": an exec does not evict the entry  *)
(* of the parent of the process that execs.                                *)
ParentSurvivesExec ==
  [][\A c \in Calls :
       Inserting(c, "exec") /\ call'[c] = Idle =>
         (Holds(table, call[c].ppid) => Holds(table', call[c].ppid))]_vars
=============================================================================
