----------------------------- MODULE Supervisor -----------------------------
(***************************************************************************)
(* The supervisor of internal/supervisor/handler.go at work: one goroutine *)
(* per notification running HandleSyscall, all sharing the decision cache, *)
(* the process table, the audit log and the statistics, while policy       *)
(* reloads (cmd/gravelpit/cmd_run.go) swap the engine under them.          *)
(*                                                                         *)
(* A goroutine's step runs from one access to shared state to the next.    *)
(* The policy on disk is a version number. An engine is identified by the  *)
(* version it was loaded from, and its answers are the parameters Decide,  *)
(* Cacheable, NeedsContext and Unconditional, whose properties             *)
(* PolicyEvaluation checks of the engine itself.                           *)
(*                                                                         *)
(* Left out: the LRU order of the process table and its capacity           *)
(* (ProcessTable), and the text of messages and records.                   *)
(***************************************************************************)
EXTENDS LRU

CONSTANTS
  Notifs,          \* notifications of one session
  Requests,        \* decoded events, see Request
  Targets,         \* canonical paths
  None,            \* no second path
  Actions,         \* policy actions
  Contexts,        \* process identities: exe, cwd and ancestors
  Blank,           \* the identity before any of it is gathered
  MaxVersion,      \* bound: edits of the policy on disk
  Reloads,         \* goroutines of the RPC server inside a reload
  DecisionEntries, \* the configured cache.decision-entries
  Decide(_, _, _, _),      \* engine, action, target, identity -> decision
  Cacheable(_, _, _),      \* engine, action, target
  NeedsContext(_, _, _),   \* engine, action, target
  Unconditional(_, _)      \* engine, action

Versions == 0..MaxVersion

(* What is left of a policy.Decision: whether a rule decided, whether that *)
(* rule names an errno, and whether it is to be audited.                   *)
Verdict ==
  [allow : BOOLEAN, ruled : BOOLEAN, errno : BOOLEAN, audit : BOOLEAN]

(* A decision as the cache holds it, with the engine that made it. No      *)
(* action looks at `by'.                                                   *)
Decision == [v : Verdict, by : Versions]

(* What Decode makes of a notification: form "empty" is an empty path      *)
(* argument, "unresolved" one that could not be made absolute. second is   *)
(* the destination of a rename.                                            *)
Request ==
  [form : {"plain", "empty", "unresolved"}, action : Actions, target : Targets,
   second : Targets \cup {None}, mkdir : BOOLEAN, who : Contexts]

Answers == {"waiting", "CONTINUE", "ENOENT", "DENIED"}

ASSUME SupervisorAssumption ==
  /\ Requests \subseteq Request
  /\ None \notin Targets
  /\ MaxVersion \in Nat
  /\ DecisionEntries \in Int

(* mkdir and mkdirat are decoded as writes.                                *)
ASSUME MkdirAssumption == \A r \in Requests : r.mkdir => r.action = "write"

ASSUME DecideAssumption ==
  \A e \in Versions, a \in Actions, t \in Targets, c \in Contexts \cup {Blank} :
    Decide(e, a, t, c) \in Verdict

(* A cacheable decision does not depend on the process, and a decision     *)
(* that needs no context is the one made with it. This is true of the      *)
(* engine for most policies and not for all (PolicyEvaluation says which), *)
(* so it is a hypothesis where it is needed and no assumption.             *)
EngineIsSound ==
  \A e \in Versions, a \in Actions, t \in Targets, c \in Contexts :
    /\ Cacheable(e, a, t) => Decide(e, a, t, c) = Decide(e, a, t, Blank)
    /\ ~ NeedsContext(e, a, t) => Decide(e, a, t, c) = Decide(e, a, t, Blank)

(* An unconditionally allowed action is allowed for every target.          *)
ASSUME UnconditionalAssumption ==
  \A e \in Versions, a \in Actions, t \in Targets, c \in Contexts :
    Unconditional(e, a) => Decide(e, a, t, c).allow

VARIABLES
  disk,     \* the version of the policy files
  engine,   \* the version of the engine in use, guarded by engineMu
  reload,   \* the reloads in progress
  cache,    \* the decision cache
  overlap,  \* history: a handler or reload overlapped the last reload
  req,      \* per notification: the decoded event
  pc,       \* per notification: where its goroutine is
  snap,     \* per notification: the engine it read
  dec,      \* per notification: its decision so far
  answer,   \* per notification: what the kernel was told
  gone,     \* notifications whose target was killed or interrupted
  execd,    \* notifications passed to RecordExec
  counted,  \* notifications counted in the statistics
  audited   \* notifications handed to the audit log

handlerVars == <<req, pc, snap, dec, answer>>
reloadVars == <<disk, engine, reload>>
reportVars == <<execd, counted, audited>>
vars == <<disk, engine, reload, cache, overlap, req, pc, snap, dec, answer, gone,
          execd, counted, audited>>

Undecided ==
  [v |-> [allow |-> FALSE, ruled |-> FALSE, errno |-> FALSE, audit |-> FALSE],
   by |-> 0]

NoRequest ==
  [form |-> "plain", action |-> "none", target |-> None, second |-> None,
   mkdir |-> FALSE, who |-> Blank]

(* Mutant: the two halves of a key are swapped.                            *)
KeySwapped(a, t) == <<t, a>>

(* A policy.CacheKey.                                                      *)
Key(a, t) == <<a, t>>

Capacity == EffectiveCapacity(DecisionEntries)

-----------------------------------------------------------------------------
(* HandleSyscall.                                                          *)

Goto(n, label) == pc' = [pc EXCEPT ![n] = label]

(* Mutant: every decision is cached.                                       *)
useCacheAlways(n, t) == TRUE

useCache(n, t) == Cacheable(snap[n], req[n].action, t)

(* The identity the event is evaluated with.                               *)
contextUsed(n) ==
  IF \/ NeedsContext(snap[n], req[n].action, req[n].target)
     \/ /\ req[n].second # None
        /\ NeedsContext(snap[n], req[n].action, req[n].second)
  THEN req[n].who ELSE Blank

Evaluate(n, t) ==
  [v |-> Decide(snap[n], req[n].action, t, contextUsed(n)), by |-> snap[n]]

(* Mutant: the source of a rename decides alone.                           *)
combineFirst(d, d2) == d

(* Both paths of a rename must be allowed; of two denials the one with a   *)
(* rule is reported.                                                       *)
combine(d, d2) ==
  IF ~ d2.v.allow /\ (d.v.allow \/ (d2.v.ruled /\ ~ d.v.ruled)) THEN d2 ELSE d

(* The Run loop receives a notification and starts its goroutine.          *)
Receive(n, r) ==
  /\ pc[n] = "idle"
  /\ req' = [req EXCEPT ![n] = r]
  /\ Goto(n, "start")
  /\ UNCHANGED <<reloadVars, cache, overlap, snap, dec, answer, gone, reportVars>>

(* The engine is read once; an unconditional allow is checked before the   *)
(* argument errors.                                                        *)
Snapshot(n) ==
  /\ pc[n] = "start"
  /\ snap' = [snap EXCEPT ![n] = engine]
  /\ Goto(n, IF Unconditional(engine, req[n].action) THEN "fastpath"
             ELSE IF req[n].form = "empty" THEN "enoent"
             ELSE IF req[n].form = "unresolved" THEN "unresolved"
             ELSE "get")
  /\ UNCHANGED <<reloadVars, cache, overlap, req, dec, answer, gone, reportVars>>

(* sendNotif. It fails without effect when the target is gone.             *)
Send(n, a) ==
  answer' = [answer EXCEPT ![n] = IF n \in gone THEN @ ELSE a]

(* HandleSyscall returns and its locals are no more.                       *)
Finish(n) ==
  /\ Goto(n, "done")
  /\ req' = [req EXCEPT ![n] = NoRequest]
  /\ snap' = [snap EXCEPT ![n] = 0]
  /\ dec' = [dec EXCEPT ![n] = Undecided]

isExec(n) == req[n].action = "exec"

RecordExec(n) == execd' = execd \cup {n}

(* The fast path records an exec before it lets it continue, and counts it *)
(* after.                                                                  *)
FastPath(n) ==
  /\ pc[n] = "fastpath"
  /\ IF isExec(n) THEN RecordExec(n) ELSE UNCHANGED execd
  /\ Goto(n, "fastsend")
  /\ UNCHANGED <<reloadVars, cache, overlap, req, snap, dec, answer, gone,
                 counted, audited>>

FastSend(n) ==
  /\ pc[n] = "fastsend"
  /\ Send(n, "CONTINUE")
  /\ Goto(n, "fastcount")
  /\ UNCHANGED <<reloadVars, cache, overlap, req, snap, dec, gone, reportVars>>

FastCount(n) ==
  /\ pc[n] = "fastcount"
  /\ counted' = counted \cup {n}
  /\ Finish(n)
  /\ UNCHANGED <<reloadVars, cache, overlap, answer, gone, execd,
                 audited>>

(* Mutant: an early return without a response.                             *)
EnoentForgotten(n) ==
  /\ pc[n] = "enoent"
  /\ UNCHANGED answer
  /\ Finish(n)
  /\ UNCHANGED <<reloadVars, cache, overlap, gone, reportVars>>

(* An empty path, or a denied one that does not exist: ENOENT, unreported. *)
SendEnoent(n) ==
  /\ pc[n] = "enoent"
  /\ Send(n, "ENOENT")
  /\ Finish(n)
  /\ UNCHANGED <<reloadVars, cache, overlap, gone, reportVars>>

(* Mutant: a denial without a rule leaves no record.                       *)
denyUnrecorded(n) ==
  /\ pc[n] = "unresolved"
  /\ counted' = counted \cup {n}
  /\ Goto(n, "respond")
  /\ UNCHANGED <<reloadVars, cache, overlap, req, snap, dec, answer, gone, execd,
                 audited>>

(* denyUnresolved up to its response. Its record does not depend on a      *)
(* rule.                                                                   *)
denyUnresolved(n) ==
  /\ pc[n] = "unresolved"
  /\ counted' = counted \cup {n}
  /\ audited' = audited \cup {n}
  /\ Goto(n, "respond")
  /\ UNCHANGED <<reloadVars, cache, overlap, req, snap, dec, answer, gone, execd>>

(* The early cache lookup, with the source of a rename.                    *)
Get(n) ==
  LET key == Key(req[n].action, req[n].target)
      hit == useCache(n, req[n].target) /\ Holds(cache, key)
  IN  /\ pc[n] = "get"
      /\ cache' = IF hit THEN Touch(cache, key) ELSE cache
      /\ dec' = IF hit THEN [dec EXCEPT ![n] = cache.items[key]] ELSE dec
      /\ Goto(n, IF ~ hit THEN "evaluate"
                 ELSE IF req[n].second # None THEN "getsecond" ELSE "decided")
      /\ UNCHANGED <<reloadVars, overlap, req, snap, answer, gone, reportVars>>

(* The destination of a rename whose source was cached. A miss falls       *)
(* through to a full evaluation.                                           *)
GetSecond(n) ==
  LET key == Key(req[n].action, req[n].second)
      hit == useCache(n, req[n].second) /\ Holds(cache, key)
  IN  /\ pc[n] = "getsecond"
      /\ cache' = IF hit THEN Touch(cache, key) ELSE cache
      /\ dec' = IF hit
                THEN [dec EXCEPT ![n] = combine(dec[n], cache.items[key])]
                ELSE dec
      /\ Goto(n, IF hit THEN "decided" ELSE "evaluate")
      /\ UNCHANGED <<reloadVars, overlap, req, snap, answer, gone, reportVars>>

(* Gather the context if needed, evaluate, and store the decision.         *)
EvaluateFirst(n) ==
  /\ pc[n] = "evaluate"
  /\ dec' = [dec EXCEPT ![n] = Evaluate(n, req[n].target)]
  /\ cache' = IF useCache(n, req[n].target)
              THEN Store(cache, Key(req[n].action, req[n].target),
                         Evaluate(n, req[n].target), Capacity)
              ELSE cache
  /\ Goto(n, IF req[n].second # None THEN "evaluatesecond" ELSE "decided")
  /\ UNCHANGED <<reloadVars, overlap, req, snap, answer, gone, reportVars>>

EvaluateSecond(n) ==
  LET d2 == Evaluate(n, req[n].second)
  IN  /\ pc[n] = "evaluatesecond"
      /\ dec' = [dec EXCEPT ![n] = combine(dec[n], d2)]
      /\ cache' = IF useCache(n, req[n].second)
                  THEN Store(cache, Key(req[n].action, req[n].second), d2, Capacity)
                  ELSE cache
      /\ Goto(n, "decided")
      /\ UNCHANGED <<reloadVars, overlap, req, snap, answer, gone, reportVars>>

(* Mutant: an exec is recorded before its verdict is looked at.            *)
RecordAnyExec(n) ==
  /\ pc[n] = "decided"
  /\ IF isExec(n) THEN RecordExec(n) ELSE UNCHANGED execd
  /\ Goto(n, "shortcut")
  /\ UNCHANGED <<reloadVars, cache, overlap, req, snap, dec, answer, gone,
                 counted, audited>>

(* An allowed exec is recorded.                                            *)
RecordAllowedExec(n) ==
  /\ pc[n] = "decided"
  /\ IF isExec(n) /\ dec[n].v.allow THEN RecordExec(n)
     ELSE UNCHANGED execd
  /\ Goto(n, "shortcut")
  /\ UNCHANGED <<reloadVars, cache, overlap, req, snap, dec, answer, gone,
                 counted, audited>>

(* A denial of something that is not there becomes ENOENT, and a denied    *)
(* mkdir of a directory that is there continues. `exists' is what lstat    *)
(* says of the path at this moment; a connect has no path to look at.      *)
Shortcut(n, exists) ==
  LET denied == ~ dec[n].v.allow
      absent == /\ denied
                /\ req[n].action \notin {"write", "connect"}
                /\ ~ dec[n].v.errno
                /\ ~ exists
  IN  /\ pc[n] = "shortcut"
      /\ Goto(n, IF absent THEN "enoent"
                 ELSE IF denied /\ req[n].mkdir /\ exists THEN "eexist"
                 ELSE "report")
      /\ UNCHANGED <<reloadVars, cache, overlap, req, snap, dec, answer, gone,
                     reportVars>>

(* The kernel is left to answer EEXIST.                                    *)
SendExisting(n) ==
  /\ pc[n] = "eexist"
  /\ Send(n, "CONTINUE")
  /\ Finish(n)
  /\ UNCHANGED <<reloadVars, cache, overlap, gone, reportVars>>

auditing(n) == dec[n].v.audit

(* Message, process table lookups and statistics. The lookups only fill in *)
(* the record; what they do to the table is in ProcessTable.               *)
Report(n) ==
  /\ pc[n] = "report"
  /\ counted' = counted \cup {n}
  /\ Goto(n, "audit")
  /\ UNCHANGED <<reloadVars, cache, overlap, req, snap, dec, answer, gone, execd,
                 audited>>

Audit(n) ==
  /\ pc[n] = "audit"
  /\ audited' = IF auditing(n) THEN audited \cup {n} ELSE audited
  /\ Goto(n, "respond")
  /\ UNCHANGED <<reloadVars, cache, overlap, req, snap, dec, answer, gone, execd,
                 counted>>

Respond(n) ==
  /\ pc[n] = "respond"
  /\ Send(n, IF dec[n].v.allow THEN "CONTINUE" ELSE "DENIED")
  /\ Finish(n)
  /\ UNCHANGED <<reloadVars, cache, overlap, gone, reportVars>>

Handle(n) ==
  \/ Snapshot(n) \/ FastPath(n) \/ FastSend(n) \/ FastCount(n)
  \/ SendEnoent(n) \/ denyUnresolved(n)
  \/ Get(n) \/ GetSecond(n) \/ EvaluateFirst(n) \/ EvaluateSecond(n)
  \/ RecordAllowedExec(n) \/ (\E exists \in BOOLEAN : Shortcut(n, exists))
  \/ SendExisting(n) \/ Report(n) \/ Audit(n) \/ Respond(n)

(* Kernel: the target is killed, or a signal interrupts its syscall.       *)
Interrupt(n) ==
  /\ pc[n] \notin {"idle", "done"}
  /\ answer[n] = "waiting"
  /\ gone' = gone \cup {n}
  /\ UNCHANGED <<reloadVars, cache, overlap, handlerVars, reportVars>>

-----------------------------------------------------------------------------
(* reloadFn.                                                               *)

NoReload == [at |-> "none"]

(* The policy files are edited.                                            *)
Edit ==
  /\ disk < MaxVersion
  /\ disk' = disk + 1
  /\ UNCHANGED <<engine, reload, cache, overlap, handlerVars, gone, reportVars>>

(* loadPolicy, from the files as they are now.                             *)
Load(r) ==
  /\ reload[r] = NoReload
  /\ reload' = [reload EXCEPT ![r] = [at |-> "loaded", version |-> disk]]
  /\ UNCHANGED <<disk, engine, cache, overlap, handlerVars, gone, reportVars>>

Swap(r) ==
  /\ reload[r].at = "loaded"
  /\ engine' = reload[r].version
  /\ reload' = [reload EXCEPT ![r] = [at |-> "swapped"]]
  /\ UNCHANGED <<disk, cache, overlap, handlerVars, gone, reportVars>>

(* The goroutines that may still store a decision.                         *)
Storing(n) ==
  pc[n] \in {"get", "getsecond", "evaluate", "evaluatesecond"}

Overlapped == \E n \in Notifs : Storing(n) /\ snap[n] # engine

(* Mutant: the cache survives a reload.                                    *)
ClearNothing(r) ==
  /\ reload[r].at = "swapped"
  /\ UNCHANGED cache
  /\ overlap' = Overlapped
  /\ reload' = [reload EXCEPT ![r] = NoReload]
  /\ UNCHANGED <<disk, engine, handlerVars, gone, reportVars>>

Clear(r) ==
  /\ reload[r].at = "swapped"
  /\ cache' = EmptyStore
  /\ overlap' = Overlapped
  /\ reload' = [reload EXCEPT ![r] = NoReload]
  /\ UNCHANGED <<disk, engine, handlerVars, gone, reportVars>>

-----------------------------------------------------------------------------

Init ==
  /\ disk = 0
  /\ engine = 0
  /\ reload = [r \in Reloads |-> NoReload]
  /\ cache = EmptyStore
  /\ overlap = FALSE
  /\ req = [n \in Notifs |-> NoRequest]
  /\ pc = [n \in Notifs |-> "idle"]
  /\ snap = [n \in Notifs |-> 0]
  /\ dec = [n \in Notifs |-> Undecided]
  /\ answer = [n \in Notifs |-> "waiting"]
  /\ gone = {}
  /\ execd = {}
  /\ counted = {}
  /\ audited = {}

Next ==
  \/ \E n \in Notifs, r \in Requests : Receive(n, r)
  \/ \E n \in Notifs : Handle(n) \/ Interrupt(n)
  \/ Edit
  \/ \E r \in Reloads : Load(r) \/ Swap(r) \/ Clear(r)

(* The Go scheduler runs every goroutine, and none of the steps of         *)
(* HandleSyscall waits for another goroutine: the critical sections are    *)
(* short, the audit queue drops on overflow and the message write is       *)
(* non-blocking.                                                           *)
Fairness == \A n \in Notifs : WF_vars(Handle(n))

Spec == Init /\ [][Next]_vars /\ Fairness

-----------------------------------------------------------------------------

Labels ==
  {"idle", "start", "fastpath", "fastsend", "fastcount", "enoent", "unresolved",
   "get", "getsecond", "evaluate", "evaluatesecond", "decided", "shortcut",
   "eexist", "report", "audit", "respond", "done"}

TypeOK ==
  /\ disk \in Versions /\ engine \in Versions
  /\ reload \in [Reloads -> {NoReload, [at |-> "swapped"]}
                              \cup [at : {"loaded"}, version : Versions]]
  /\ IsStore(cache, Actions \X Targets, Decision)
  /\ overlap \in BOOLEAN
  /\ req \in [Notifs -> Requests \cup {NoRequest}]
  /\ pc \in [Notifs -> Labels]
  /\ snap \in [Notifs -> Versions]
  /\ dec \in [Notifs -> Decision]
  /\ answer \in [Notifs -> Answers]
  /\ gone \subseteq Notifs /\ execd \subseteq Notifs
  /\ counted \subseteq Notifs /\ audited \subseteq Notifs

(* What the policy says of a request, by its documentation: every path of  *)
(* it is allowed for the process that made it. The source of a rename is   *)
(* judged by the engine of version e and its destination by that of f.     *)
AllowedBy(e, f, r) ==
  /\ Decide(e, r.action, r.target, r.who).allow
  /\ r.second # None => Decide(f, r.action, r.second, r.who).allow

PolicyAllows(e, r) == AllowedBy(e, e, r)

Decided(n) ==
  pc[n] \in {"decided", "shortcut", "eexist", "report", "audit", "respond"}

(* "Identical events must never produce different verdicts": the verdict   *)
(* reached for a request is the one that engines loaded so far give its    *)
(* paths with the full context of its process, whatever mixture of cached  *)
(* and fresh decisions it came from and whatever other goroutines stored,  *)
(* evicted or reloaded meanwhile. As long as the policy is not edited      *)
(* there is only one such engine, and identical requests are treated       *)
(* alike.                                                                  *)
VerdictIsPure ==
  \A n \in Notifs :
    Decided(n) /\ req[n].form = "plain" =>
      \E e, f \in 0..disk : dec[n].v.allow = AllowedBy(e, f, req[n])

(* Every cached decision is the one its engine makes for that key, for     *)
(* every process.                                                          *)
CacheIsRight ==
  \A k \in DOMAIN cache.items :
    \A c \in Contexts :
      cache.items[k].v = Decide(cache.items[k].by, k[1], k[2], c)

(* A reload that no handler overlapped takes full effect: once it has      *)
(* returned, no decision of an earlier engine is left in the cache.        *)
FreshAfterQuietReload ==
  ~ overlap /\ (\A r \in Reloads : reload[r].at # "swapped") =>
    \A k \in DOMAIN cache.items : cache.items[k].by = engine

(* The denial needs a record: one without a rule always, one by a rule     *)
(* unless that says audit:false.                                           *)
NeedsRecord(n) == req[n].form = "unresolved" \/ dec[n].v.audit

(* A denial that HandleSyscall turns into ENOENT, or leaves to the kernel. *)
SilentDenial(n) ==
  /\ ~ dec[n].v.allow
  /\ \/ req[n].action \notin {"write", "connect"} /\ ~ dec[n].v.errno
     \/ req[n].mkdir

(* A syscall is accounted for before its target is let go: an EACCES is    *)
(* counted and, if need be, audited, and an exec that continues is in the  *)
(* process table. Four outcomes are not reported by then: an empty path, a *)
(* denied path that is not there (ENOENT), a denied mkdir of a directory   *)
(* that is (CONTINUE), and what the fast path lets through, which is       *)
(* counted later.                                                          *)
ReportedBeforeAnswer ==
  [][\A n \in Notifs : answer[n] = "waiting" =>
       /\ answer'[n] = "DENIED" =>
            n \in counted /\ (NeedsRecord(n) => n \in audited)
       /\ answer'[n] = "ENOENT" => req[n].form = "empty" \/ SilentDenial(n)
       /\ answer'[n] = "CONTINUE" =>
            /\ isExec(n) => n \in execd
            /\ \/ n \in counted
               \/ Unconditional(snap[n], req[n].action)
               \/ SilentDenial(n) /\ req[n].mkdir]_vars

(* "Call this only for an exec that policy allowed": a process whose exec  *)
(* is refused never gets that exec as its identity.                        *)
RefusedExecNotRecorded ==
  \A n \in Notifs : answer[n] \in {"DENIED", "ENOENT"} => n \notin execd

(* "policy evaluation must be a pure function of the decoded event and the *)
(* current rule set": with no reload in progress, a handler that holds the *)
(* engine in force reaches the verdict of that engine.                     *)
DecidedByCurrentRules ==
  [][\A n \in Notifs :
       /\ pc[n] # "decided" /\ pc'[n] = "decided"
       /\ snap[n] = engine
       /\ \A r \in Reloads : reload[r] = NoReload
       => dec'[n].v.allow = PolicyAllows(engine, req[n])]_vars

(* "every notification must produce a response, or the target blocks       *)
(* forever": a received notification is answered, unless its target is     *)
(* gone.                                                                   *)
EveryNotificationAnswered ==
  \A n \in Notifs :
    pc[n] = "start" ~> (answer[n] # "waiting" \/ n \in gone)
=============================================================================
