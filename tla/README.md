# A verification model of gravelpit

gravelpit runs a command under a seccomp filter. Selected syscalls of the
command and its descendants stop and become *notifications*; a supervisor
process decodes each one, asks a policy engine, and tells the kernel to let the
syscall continue or to fail it with an errno. This directory holds TLA+ modules
that model the supervisor's own logic, TLC configurations that check them on
small instances, and TLAPS proofs.

    tlc -workers 2 -config MCSupervisor.cfg MCSupervisor
    tlapm SupervisorProofs.tla

## The system

| part | state | operations | talks to |
|---|---|---|---|
| notification handler (`internal/supervisor/handler.go`) | none of its own; one goroutine per notification | `HandleSyscall`, `Run` | engine, cache, process table, stats, audit, kernel |
| policy reload (`cmd/gravelpit/cmd_run.go`) | the engine pointer under `engineMu` | `reloadFn`, run by RPC goroutines | cache |
| policy engine (`internal/policy/engine.go`) | immutable after `NewEngine` | `Evaluate`, `CacheableTarget`, `NeedsProcessContext`, `IsUnconditionalAllow` | called by handlers |
| decision cache (`internal/policy/cache.go`) | map and LRU list under one mutex | `Get`, `Put`, `Clear` | handlers, reload |
| process table (`internal/process/table.go`) | map and LRU list under one mutex | `RecordExec`, `RecordObserved`, `Lookup`, `LookupAncestors` | handlers, `/proc` |
| loader (`internal/policy/loader.go`) | none | parse, lint and compile rules | engine |
| decoder and path resolution (`internal/supervisor/decoder.go`, `resolve.go`) | none | `Decode`, `CanonicalizePathForPid` | target memory, `/proc` |
| audit log (`internal/audit`) | bounded queue, drop counter | `Log`, `Close`, writer goroutine | handlers |
| stats and RPC (`internal/stats`, `internal/rpc`) | counters, two rings, socket | `Record*`, `Summary`, server | handlers, CLI |
| seccomp filter (`internal/seccomp`) | none | `BuildFilter` | kernel |
| sandbox child and life cycle (`internal/sandbox`, `cmd_run.go`) | child, signals, reaping | fd hand-over, main loop | kernel |
| discovery (`internal/discover`) | recorded decisions | `GeneratePolicy` | `--record` |

What is hard here: many handlers share the caches with no lock held across a
notification; the engine is swapped under them; the process table reads `/proc`
with its lock released; targets die, are interrupted and reuse pids at any
moment; and several shortcuts (pattern scan instead of CEL, unconditional allow,
cached decisions, identity gathered only when a rule needs it) must all agree
with the plain evaluation. What makes each part correct:

* handler: the verdict is that of the policy for the whole event; every
  notification is answered; a denial is reported before it is answered;
* reload: afterwards no decision of the old policy is used;
* engine: the most specific matching rule wins whatever the rule order, and each
  shortcut gives the verdict of the full evaluation;
* cache and table: map and list agree, the bound holds, only the least recently
  used entry is lost;
* table: an observation never replaces an exec'd identity, and the ancestors
  `startedBy()` needs are kept;
* decoder: an event is what the blocked target asked for, a path that cannot be
  read is refused, and the policy sees the path the kernel acts on;
* audit log: a record is written once and in order, or dropped and counted;
  nothing queued before `Close` is lost;
* stats and RPC: rings and counters are exact, and `Close` lets started calls
  finish but does not hang;
* life cycle: the command runs only under a supervisor that holds the listener,
  its status is not lost, orphans are reaped, and the session ends;
* discovery: the generated policy allows what was recorded.

`PROJECT.json` lists the hazards with their lines, and the properties aimed at
each.

## Modules

* `LRU` - the map-plus-list structure shared by cache and table, as operators on
  a record `[items, order]`. The two halves are updated separately, as in the
  code, so a drift between them is visible.
* `DecisionCache` - one action per method; each is one critical section. Two
  history variables record what callers did (`latest`, `newer`), so that the
  properties are stated without reference to the list.
* `PolicyEngine` - match expressions and the engine's analyses of them, as
  operators. An expression is a row of factors joined by `&&`/`||`, which is what
  the textual analyses (`splitOnAnd`, `contextRefs`, `requiredPatterns`) see and
  what CEL groups differently. A field that cannot be read (`Unreadable`) raises
  a CEL error, which `&&` and `||` may absorb; a rule whose expression raises one
  has not matched. Globs are the parameters `Covers`, `Admits` (the
  literal-prefix test) and `Score`, and nothing relates the first two: what the
  prefix of a pattern rejects the pattern may still cover.
* `PolicyEvaluation` - the loop of `Evaluate` over the candidate rules, one rule
  per step, against a definition of the documented model that has no loop. It
  also names what the analyses rely on: `PatternsSound` and `TargetDetermines`,
  the hypotheses of the theorems below.
* `ProcessTable` - the table with calls in progress: `RecordExec` and
  `RecordObserved` are split where the code releases the lock. What `/proc`
  answers is a parameter: any parent in `Parents[p]`, which in the run is any
  other pid, because orphans are adopted and pids reused. Comm and the lookup
  counters, which only report, are left out.
* `Supervisor` - composes handlers, cache and reload. A handler is a program
  counter over the steps of `HandleSyscall`, cut at its accesses to shared
  state; all branches and early returns are there. The engine's answers are
  parameters. What is supposed of them is what `PolicyEvaluation` checks of the
  engine: `EngineIsSound` (`CacheableIsSound` and `ContextNotMissed`) is a
  hypothesis of two theorems, because the engine has it only for some policies,
  and `UnconditionalAssumption` (`UnconditionalIsAllowed`) an assumption. TLC
  evaluates both on the policies of the run. The answer of lstat is a free choice, and
  `Interrupt` makes a target disappear at any point before it is answered. The
  table shrinks to the set of recorded execs, since its order is
  `ProcessTable`'s business; a reload that fails to load changes nothing and is
  a stuttering step.
* `PathMatch` - glob matching, with classes and alternatives, scores and literal
  prefixes over segments of characters. `MCPolicyEvaluation` derives its
  `Covers`, `Admits` and `Score` from it (`GlobFacts`, which also checks that the
  prefix of a pattern of up to three segments of names and wildcards rejects
  nothing the pattern covers; `PrefixLimits` shows where it does).
* `LossyLog` - what the comments of the audit log promise, as a specification:
  a record is accepted and later written, in order, or dropped and later part
  of one reported count; a line may be refused by the file system.
* `AuditLog` - `Log`, the writer goroutine and `Close`, cut where another
  goroutine can come in: a full queue is seen in one step and counted in the
  next. `RefinesLossyLog` maps the record in the writer's hand and the queue to
  the pending records, and the counter, the count in hand and the callers about
  to count to the unreported drops.
* `Stats` - `RecordAllow` and `RecordDeny`, one step per access to shared state:
  `Load`, `LoadOrStore` and add, and each ring under its own lock.
* `RPCServer` - `Serve`, one goroutine per connection, `Close`. The wait group
  counts a connection only after `Accept` has returned it, as in the code.
* `Reporting` - composes the three (`Reporters` declares the handlers they
  share) with the deferred calls of `runSandboxInner` and the exit of the
  process under goroutines that still run.
* `Session` - the program from the start of the child to its return, the child
  from `RunSandboxChild` to its end, `child.Wait`, `Handler.Run`, daemons and
  signals. Each step of the child may fail. The socket pair is modelled by its
  messages in flight and the open copies of its ends, since end of file is what
  ends the wait of the other side.
* `Filter` - the lists of syscalls, `BuildFilter` as a BPF program, and a BPF
  machine that runs it.
* `Resolve` - canonical paths over a file system with symbolic links to
  directories, files and nothing (a chain is given by its end), and the names of
  the target's own files under `/proc` and `/dev/fd`.
* `Decoder` - `Decode` as a plan of reads, each a check, a read and a second
  check; the target may be interrupted, or its pid reused, between any two of
  these. Values carry the process they were read from. The length of a socket
  address is the whole register, capped, as in the code, so it can differ from
  the caller's int.
* `Discover` - `GeneratePolicy`, the helpers that collapse paths to globs, and how
  the loader and the matcher read the result. The code works on text; here a
  text is the sequence of the components it stands for, each marked with how it
  is written: behind a slash or inside of a variable. That is enough to say what
  replacing the text of a directory does in the middle of a path or of a name:
  `/mnt/home/u/x` is `/mnt$HOME/x`, `/home/u2/x` is `$HOME2/x`, whose variable is
  another one. `Rest` says which names continue which; `OddNames` are the names a
  pattern reads as something else.
* `Recording` - composes filter, decoder, resolution and discovery with the part
  of `HandleSyscall` that uses them: the way of one syscall after the other
  through a session with `--record`.
* `MC*` - values for TLC.
* `LRUProofs`, `DecisionCacheProofs`, `SupervisorProofs`, `ProcessTableProofs`,
  `SessionProofs`, `PolicyEvaluationProofs`, `ReportingProofs`, `RecordingProofs` -
  proofs.

Definitions whose comment begins with *Mutant* are variants of the definition
that follows them with a plausible bug; each checked property is violated when
its mutant is put in place.

## Runs

| run | shows | instance |
|---|---|---|
| `decision_cache` | coherence, bound, LRU order, hits are the last decision stored | 4 keys, 2 decisions, 2 slots: one key evicted, two held, one unused |
| `policy_evaluation` | verdicts equal the documented model; gates are necessary for a match; unconditional allow, cacheability and skipped context never change one; the pattern scan differs from CEL in three named cases only; facts about globs | all lists of up to 3 of 20 accepted rules (10 of the 11 expressions, allow and deny), 12 events: file events, two of them of a process a rule cannot read, and connects. Three rules are enough for every tie-break against a best that already replaced another |
| `process_table` | coherence, observations never overwrite, ancestors most recent | 4 pids, 3 slots, 2 calls in progress, depth limit 2 (shorter than the longest chain); symmetric in pids and calls |
| `supervisor` | purity of verdicts, correct cache, fresh after a quiet reload, an EACCES reported before it is sent and four named outcomes unreported, refused execs not recorded, every notification answered | 2 notifications of 8 shapes, 1 reload, 2 policy versions, 1 cache slot, so every store can evict |
| `reload_race` | violation, see below | 2 notifications, 1 reload |
| `family_rule` | violation, see below | 1 rule expression, 8 events |
| `parent_eviction` | violation, see below | 4 pids, 2 slots, 1 call |
| `reporting` | the audit log implements `LossyLog`; drops reach the log; records queued before `Close` are flushed; rings and counters exact; started calls answered; shutdown completes unless a client stays silent | 3 handlers, 2 denials of one action (they race for its counter), queue of 1, rings of 2 (they wrap), 1 refused write, 1 connection |
| `session` | the command runs only supervised; hand-over ends; status kept; daemons reaped; session ends | 3 daemons, so one SIGCHLD can stand for several deaths and one more can be dropped; one SIGTERM |
| `lost_signal` | violation, see below | the same |
| `recording` | routing, truthful decoding, what becomes of unread arguments, kernel paths, the recorded policy allows what was denied but for named losses | 48 requests with every intercepted syscall and the shapes that take other branches: links to a directory, a file and nothing, in the middle and at the end of a path, followed or not; addresses that are short, unmapped, or with a stale high half of the length; names that continue the home and the working directory; sessions of up to 3 records (870,000 states) |
| `dotdot` | violation, see below | 2 requests with `..` |

Bounds: `MaxRules`, `MaxVersion`, `DecisionEntries`, `ProcessEntries`,
`maxAncestorDepth` (64 in the code), `queueSize` (4096), `maxRecent` (40),
`MaxRefused`, `siblingThreshold` (5 in the code, 2 here, so that three records
can promote a directory), `MaxRecords` and `Width` (32 bits in the code, 8 here,
which still holds AT_FDCWD with and without its sign) and `MaxAddr` (PATH_MAX + 2
in the code, 30 here, more than any family needs). Two notifications suffice
for the races between handlers, which all involve one handler storing what
another reads. In `reporting` a queue of one makes every second record meet a
full queue. In `recording` exec is allowed unconditionally, so that branch is
taken; notifications are handled one after the other because they share only
the set of records.

Deadlock is not checked where the system may stop: `policy_evaluation` ends when
the decision is returned, in `supervisor` all notifications may be done and the
last edit loaded, and the other three end with the session.

Fairness. In `supervisor`: weak fairness of each handler's next step, and of
nothing else. The Go scheduler runs every goroutine, the critical sections
contain no blocking call, `audit.Logger.Log` drops rather than waits, and the
message write is non-blocking. Reloads, edits, arrivals and interrupts are not
assumed to happen.

In `reporting`: some step of what is already under way is taken (`Underway`).
One condition is enough, because no goroutine has endless work there. It covers
handlers that have begun, the writer, the server, calls being answered and a
shutdown that has begun: only the supervisor's own goroutines. Clients owe
nothing. `StartedCallsAnswered` needs nothing of them; `ShutdownCompletes` has
`ClientsProceed` as its premise, that each connected client at last sends its
request or hangs up. The client in `rpc.Call` does, by its deadline. The server
sets none, so a client that connects and stays silent keeps `Close`, and with it
the process, waiting for ever.

In `session`: weak fairness of the main goroutine, of `child.Wait`, of the
child's own code and of the delivery of each signal. The command need not exit,
daemons need not die, and `Run` may fail at any time.

## Where code and comments disagree

* **Stale decision after a reload** (`reload_race`). A handler reads the engine,
  misses the cache, and stores its decision after the reload swapped the engine
  and cleared the cache. Every later request for that target is answered by the
  old policy until the entry is evicted. The package comment of `handler.go`
  says evaluation is a function of the event and the current rule set. What does
  hold, and is proved: a reload that no such handler overlaps is complete.
* **Family is not in the cache key** (`family_rule`). `CacheableTarget` calls a
  connect cacheable when rules test `family`, but addresses that decode to
  neither socket nor host share the empty target. `examples/reads.yaml` has such
  a rule.
* **An exec may evict its own parent** (`parent_eviction`). `RecordExec` inserts
  before it promotes the ancestors, so in a full table whose least recently used
  entry is the parent, the parent is the victim.
* **A signal can be lost** (`lost_signal`). The channel of `signal.Notify` has one
  slot and also carries SIGCHLD. A SIGTERM that arrives while a SIGCHLD lies in
  it is dropped, although the comment at `cmd_run.go:365` wants signals sent to
  gravelpit itself to be forwarded.
* **`..` behind a symbolic link** (`dotdot`). `filepath.Clean` and
  `filepath.Join` remove `..` from the text before the kernel walks the path, so
  the policy is asked about a sibling of the link and the kernel acts on a
  sibling of its target. `canonicalizeDir` says that string operations can
  disagree with the kernel for exactly this case. When no link is taken back
  in this way the paths agree (`recording`), and that is proved.

Met while modelling or proving, without a run of their own. Those about the
engine are shown by `PrefixLimits`, `AnalysisLimits`, `ScanLimits` and
`ErrorLimits` of `MCPolicyEvaluation`, which TLC evaluates; those about decoding,
paths and discovery occur in `recording`, whose properties name them.

Handler and server:

* **Denials without a record**. `handler.go:7` says that every denial is written
  to the audit log before the response. A denial turned into ENOENT because the
  path is not there (`handler.go:278-292`), and a denied mkdir of a directory that
  is (`handler.go:294-301`), are never audited or counted, and a rule with
  `audit: false` leaves its denials out of the log. `ReportedBeforeAnswer` names
  these (`SilentDenial`, `NeedsRecord`).
* **A CEL error does not deny**. `handler.go:12` and `engine.go:774` say that an
  error denies; `evalCEL` (`engine.go:619-622`) skips the rule, so another rule may
  allow, also when the one that failed is a deny rule (`ErrorLimits`).
* **A silent client stops the exit**: `server.go:74`, see *Fairness*.

Policy engine:

* **An empty socket can match**. `celPathMatch` is said to
  return false for an empty string (`engine.go:772`), but it passes the string to
  `PathMatch`, which trims trailing slashes: `/`, the empty string and a pattern
  such as `/**` agree. A rule `process.exe == "x" && pathMatch(socket, "/**")`
  then matches a connect to a host, which sets no socket, although the target
  host satisfies none of the rule's patterns and the analysis takes the rule for
  false.
* **The literal prefix rejects what the pattern covers**. `PathMatch` normalises
  trailing slashes away (`pathmatch.go:20`) and accepts classes and alternatives,
  but `patternPrefix` (`engine.go:927-940`) keeps a trailing slash and stops only at
  `*` and `?`. On the fast path `/a/`, `/a/[bc]` and `/a/{b,c}` therefore match
  nothing; as the gate of a rule with context they make the analysis take for
  false a rule that CEL matches.
* **The pattern scan ignores the field**. `evalFastPath` uses
  the socket when there is no path (`engine.go:597`), so a connect rule written on
  `path` matches sockets, which the same rule evaluated by CEL would not.

Decoder and paths:

* **A failed read taken for an empty path**. `decoder.go:112` says that this must
  not happen, but `execveat` with `AT_EMPTY_PATH` tests only that the string is
  empty (`decoder.go:276`), not whether it was read, and then runs the fd. That
  case also reads `/proc` outside of the two checks the comment of `Decoder`
  describes.
* **Arguments that are not refused**. An `open_how` that cannot be read counts as
  flags 0, a read (`decoder.go:187-190`); an address that cannot be read goes to
  the policy without family and target (`decoder.go:315-318`). `FailsClosed` says
  what each becomes.
* **The length of an address is not truncated**. `decoder.go:293` takes the whole
  register where dirfd and flags are cut to 32 bits, and caps it (`decoder.go:309`).
  With anything in the high half more bytes are read than the caller means, or,
  when it looks negative, none.
* **A link at the end is named, not followed** (`resolve.go:279-282`), which is right
  for unlink, rename and mkdir. For open, truncate, chmod, chown and exec the
  kernel acts on what the link leads to, and the policy is asked about the link.
  `PolicySeesKernelPath` states this as its one exception.
* A path that ends in `.` or `..` is walked to its end by the kernel, but its
  cleaned text may end in the name of a link, which `CanonicalizePath` does not
  follow. `Straight` names this case next to `..` behind a link.

Discovery. `normalizePath` replaces the text of the two directories anywhere
(`discover.go:180-181`), and names go into patterns unescaped (`discover.go:365-373`).
With home `/home/u` and working directory `/home/u/w` a session can lose, or gain:

* `/home/u2/x` is written `$HOME2/x` and expands to `/x`, since there is no variable
  HOME2. Five files of `/home/u2` give `$HOME2/**`, which is `/**`: everything;
* `/home/u/w-old/a/b` is written `/$WORKDIR-old/a/**` and expands to a pattern with two
  slashes in front, which matches nothing;
* `/home/u2` itself is written `$HOME2`, which expands to the empty pattern, and five
  such texts without a slash are promoted to `./**`. `lintUnanchored`
  (`loader.go:246-282`) rejects both, and with them the whole file;
* a name such as `[x]`, `{x}` or `$x` is not a pattern for itself;
* five denials directly in `/` are promoted to `//**`, which matches nothing
  (`discover.go:222`).

`RecordedIsAllowed` is about policies that load (`Loads`) and excepts exactly these
paths (`Lost`). Besides:

* the destination of a rename is not in the audit record, so the recorded policy
  may still deny the rename;
* `--record` writes nothing when a signal ends the session (`cmd_run.go:380`),
  but the flag says "on exit".

Elsewhere:

* An audit record queued after the writer has drained, and a count made after
  the last record was written, disappear; `Close` does not report them.
* The comment of `Run` speaks of a poll with a timeout; it polls without one.

## Proofs

Every theorem holds for every value of the constants that satisfies the named
assumptions; TLC evaluates these in the runs. Each safety property is proved
through an inductive invariant, in one step per action.

**Decision cache** (`DecisionCacheProofs`, `LRUProofs`). `Spec => []IInv` for
every set of keys and decisions and every configured size, and from it each
property of the run. The properties are not inductive alone: which key is
evicted depends on the list being in order of use (`OrderedByUse`), and a list
operation keeps that order only if the list holds each key once (`Coherent`).
`LRUProofs` has the lemmas about the list: moving to the front permutes
positions (`Src`), insertion, replacement and eviction keep coherence and say
which entries remain. `SupervisorProofs` and `ProcessTableProofs` use them too.

**Handlers and reload** (`SupervisorProofs`), for any number of handlers and
concurrent reloads, any cache size and any engine:

* `SupervisorTypeCorrect`, with `TypeInv`, which adds what each program counter
  implies about a handler's locals;
* `QuietReloadIsFresh`. Freshness of the cache is not inductive: `FreshInv` adds
  that in a quiet state no handler that may still store a decision holds another
  engine. It uses none of the assumptions on the engine;
* `VerdictsArePure` and `CachedDecisionsAreRight`, through `PureInv`: whatever is
  in the cache or in a handler's hands is the full evaluation of that target by
  some engine loaded so far. A hit is right because what is stored is cacheable
  for the engine that made it; an evaluation without context is right because the
  engine said that none is needed, and the early answer because of
  `UnconditionalAssumption`. The first two are the hypothesis `EngineIsSound`, which
  is what `PolicyEvaluationProofs` proves of the engine for the policies named
  there; a policy with other patterns need not have it. Edits and reloads are
  not excluded: across one, the two paths of a rename may be judged by two
  engines, and the theorem says no more than that both were loaded;
* `RefusedExecsNotRecorded` and `AnswersAreReported`, through `AccountInv`, which
  says for each program counter what has been reported and recorded by then. The
  second covers the answer of `denyUnresolved`, whose record needs no rule, and
  names the four outcomes that are not reported.
  `MkdirAssumption` (only a write can be a mkdir, as the decoder makes them) rules
  out a denied exec that is let through.

**Process table** (`ProcessTableProofs`). `TableStaysCoherent` and the action
properties `ObserversNeverReplace` and `AncestorsAreWarm`, for any pids, size,
depth limit and calls in progress. The walk of the ancestors is a recursive function of the depth left. The
library's induction rules cannot be applied, so what the walk preserves is proved
from a least counterexample: if some depth broke it, the least such depth would
be 0 or one more than a depth that keeps it. For `AncestorsAreWarm` the claim is
that after *n* rounds the pids reachable in *n* steps are in front, and that the
walk stands at the one reachable in *n* + 1 or has stopped because there is none
that is new.

**Session** (`SessionProofs`). `CommandIsSupervised` and `StatusIsKept` for any
number of daemons, through `SessionInv`: types; `Handshake`, which ties the
messages in flight and the open ends of the socket pair to the positions of both
sides; `EndsAfterChild`; and `StatusWaits`, that the exit status of the command
is not taken before `child.Wait` takes it.

**Policy engine** (`PolicyEvaluationProofs`), for every set of rules and events
and any `Covers`, `Admits` and `Score`.
`RulesAssumption` says that expressions are rows of factors with one operator
between each two (`IsMatch`) and that an event has one target (`OneTarget`, the
comment at `engine.go:105`).

* `EvaluationTypeCorrect` and `EvaluateIsTheModel`: the loop invariant is
  `TypeOK /\ BestSoFar` (the rule kept is a most specific one of those seen, and a
  deny when such a one is) and, once `Evaluate` has returned,
  `DecisionInv`. The documented model takes a greatest element of a set; that
  there is one is `Greatest`.
* `UnconditionalAllowed`.
* `GatesAreRequired`: the text between two `&&` that the analysis takes for a
  conjunct is one for CEL, because the loader has rejected mixed operators, so its
  chain must hold (`GateIsChain`, `GateLemma`), and a chain that holds does so of
  the target. The last step needs `PatternsSound`: a pattern of a rule with context
  covers neither the empty string nor a string its literal prefix rejects. Rules
  the pattern scan decides need neither, since the gate is the scan itself.
* `ContextIsNotMissed` and `CacheableDecisions`: rules that read the context, or
  fail their gate, evaluate alike for both events (`SameEval`, `GatedOut`), hence
  the documented model gives both the same verdict (`SameVerdict`), hence the loop
  does. Both need `PatternsSound`, the second also `TargetDetermines`; `family_rule`
  is the counterexample without the latter.
* `FastPathIsCEL` needs no hypothesis: its statement names the three ways in which
  scan and CEL differ.

The hypotheses are conditions on a policy, not facts about the code, which is why
they are part of the theorems and not assumptions of the module. A policy with a
trailing slash, a class or alternatives in a pattern of a rule with context, or
with `/**` on a field an event may leave empty, does not satisfy `PatternsSound`, and
`AnalysisLimits` shows that the conclusions then fail. The policies of the run
satisfy the hypotheses (`AnalysisFacts`).

**Reporting** (`ReportingProofs`), for any number of handlers, any queue and any
ring size:

* `AuditLogIsLossyLog`: the audit log, composed with statistics, server and
  shutdown, implements `LossyLog`. The initial states map to initial states and
  each step to a step or a stutter; `AuditInv` supplies what the mapping needs,
  that the callers about to count are finitely many and the writer's hand is
  empty when the log takes the next record;
* `LogIsFlushed` (`FlushInv`, `ExitInv`): `Close` returns only after the writer has
  drained what was queued before;
* `CountsAreComplete` (`CountInv`): the counter of an action is the number of
  handlers past the add, because whoever finds no counter stores only if there
  still is none;
* `RingsShowNewest` (`RingInv`): the slots from the head on hold the older and
  those before it the newer part of the last accesses, each in order, so reading
  from the head and around gives the newest in order.

**Filter, decoder, paths and discovery** (`RecordingProofs`), for every set of
well-formed requests (`RequestAssumption`: as many path arguments as the call has,
a directory fd, or the length of an address, that is an int with anything in the
high half of its register),
every table of open files, every width of an int, every policy, every tree of
directories with links to directories, files or nothing (`ResolveAssumption`) and
every home and working directory but the empty one and `/` (`DiscoverAssumption`). All five invariants of the run are
proved.

*Decoding.* `DecodedIsTrue` and
`UnreadIsRefused` follow from one invariant, `Inv`:

* `Progress`: the reads left are one of the ten tails a plan can have (`AtStage`),
  and unless something is unresolved there is a path for each one resolved;
* `StringsTrue`, `PathsTrue`, `ReadTrue`: what was kept is the target's. A value
  that waits for its second check is right if the target is still there, because
  an owner that has left does not come back;
* `ActionTrue`: the flags of `openat2` are taken to be 0 when they could not be
  read, which is wrong when the target has left. No event with such flags counts
  as resolved, since the check before its path is resolved then fails. This is why
  the invariant must allow the wrong action for a while;
* `AnswerTrue`: the answer agrees with the marks on the event.

`DirfdIs` proves that truncation to the low half and the sign restore the caller's
number. `TrueToTarget` leaves out `AT_EMPTY_PATH`, whose fd is read unchecked.
`FailsClosed` has it: there an argument that was not read may pass for the empty
path, and what is shown is that the fd is then a file. It also says what an
unread `open_how` and an unread or short address become.

*Paths.* `StraightPathSeen` compares two ways to read a path: `CanonicalizePath`
cleans the text, opens the longest ancestor there is and appends the rest, while
the kernel walks component by component (`KernelPath`). Three facts connect them.
`CanonicalDirIsKernelDir`: in a cleaned directory the kernel follows the links of the
longest ancestor it can open and no others, since there is nothing below what does
not exist. `CleanedLeadsThere`: after any number of components the cleaned text leads
the kernel where the components themselves lead it. This is where `Straight` is
used: a `..` that takes back a link, or a final dot behind which the cleaned text
ends in a link, is what separates the two. `CanonicalIsKernelPath` puts them
together, up to the last component: there the syscall may follow a link that the
policy is asked about by name, which is the exception in the property. `Straight` is a hypothesis on one request, evaluated with the file
system; requests through links, through missing directories and with other uses of
`..` satisfy it, every request of `recording` among them, and `dotdot` is the counterexample without it. Names under `/proc`
and `/dev/fd` are excepted, as in the property.

*Discovery.* `RecordedPolicyAllows` rests on `GeneratedAllows`, for any records and any
`Rest` and `OddNames`. However a directory is replaced by a variable, the text keeps
the names of the path (`ReplaceIs`, `NormalIs`), so a glob made of it matches the path
unless a variable, a slash or a name in it is read as another (`GlobMatches`), and a
glob that covers it matches too (`CoveringMatches`). `CollapseCovers` shows that
such a glob is kept: of the candidates that cover the path take one with the
shortest directory; whatever covers that one would be shorter (`CoveredIsShorter`) and
cover the path too, so it is not dropped. That the policy loads is needed for the
parents of texts without a slash, whose glob `./**` covers nothing.

Both follow from the session invariant `RecordInv`, which adds to `Inv` that what is
recorded is made of names, that the canonical paths are those of the target's
arguments, and that the policy is the one made of the records at hand. The first of
these needs `FdInv` as well: an `execveat` with `AT_EMPTY_PATH` is outside `Inv`, but
its path is recorded like any other.

*Filter.* `FilterIsRight` executes the program once for all syscalls. `Program` gives
`BuildFilter` by address. `ForeignPasses` follows the jumps of another architecture and
of x32 to the last instruction; `NativeRun` shows that after *j* failed comparisons the
machine stands at the next one, so the first equal name decides and a syscall that is
not listed passes (`ListedReturns`, `UnlistedPasses`). `ListsAgree` is the agreement of
the list with the cases of `Decode`, which live in different packages of the code.

Recursive functions occur in all three (`Clean`, the walks, the run of the machine). As
in `ProcessTableProofs`, what holds after every number of steps is proved from a least
counterexample (`LeastNatural`); `RunExists` proves that such a function has the values
its definition says.

Only model-checked, and why:

* liveness (`EveryNotificationAnswered`, `OverflowReported`,
  `StartedCallsAnswered`, `ShutdownCompletes`, `HandshakeEnds`, `DaemonsReaped`,
  `SessionEnds`): fairness and ENABLED are out of the prover's reach;
* what the globs of `PathMatch` match (`GlobFacts`): recursive operators.

## Not modelled, and the plan

Every invariant and action property that a passing run checks is proved, five of
them under the hypotheses on a policy and one under that on a request named above; what is
left to TLC is listed above. The next step would be a session with overlapping
notifications in `Recording`: there they share only the set of records, so it would
mean one copy of the decoder's state for each.

Left out, and why:

* the outcome of a syscall that was let through (an exec that fails after it was
  recorded, a directory that disappears after lstat): the supervisor never
  learns it, so there is nothing in the code to compare a model with;
* messages to the terminal of the target, and the text of decisions: pure
  output;
* YAML and configuration parsing, shipped profiles, and the commands that
  explain, lint or show: no state, and the engine they use is modelled;
* `audit/stream.go` and `sandbox/cgroup.go`, which nothing but tests uses;
* in `Discover`, an empty or root home or working directory, names with a quote, and
  names that continue a directory with a mixture of identifier and other
  characters; in `PathMatch`, ranges, nested alternatives and escapes;
* chains of symbolic links without an end;
* the kernel itself, beyond what the modelled code relies on.
