---------------------------- MODULE PolicyEngine ----------------------------
(***************************************************************************)
(* The policy engine of internal/policy/engine.go: what a compiled rule    *)
(* is, which decisions may be cached, and the loop of Evaluate.            *)
(*                                                                         *)
(* A match expression is kept as the text analysis of the engine sees it:  *)
(* a row of factors joined by && and ||. A factor is a set of atoms: one   *)
(* atom, or a parenthesised || chain. CEL groups the row into runs of &&   *)
(* (&& binds tighter than ||); splitOnAnd cuts the same text at every      *)
(* top-level &&, into runs of ||. The empty row is the expression "true".  *)
(*                                                                         *)
(* An atom compares one field of the event:                                *)
(*   path, socket : pathMatch(field, arg) with arg a glob pattern;         *)
(*   host         : host:port, compared as a whole;                        *)
(*   process      : process.* or ancestors;                                *)
(*   sandbox      : sandbox.*, the same for every event of a session;      *)
(*   syscall      : syscall.*;                                             *)
(*   other        : requestedPath or family.                               *)
(* Glob matching is a parameter: Covers, Admits and Score say what         *)
(* PathMatch, the literal-prefix test and PatternScore answer. Nothing is  *)
(* assumed to relate the first two: the prefix of a pattern may reject     *)
(* strings that the pattern covers (PathMatch shows which).                *)
(***************************************************************************)
EXTENDS Integers, Sequences

CONSTANTS
  Targets,   \* canonical paths, socket paths and host:port strings
  None,      \* the empty string
  Patterns,  \* glob patterns
  Covers,    \* Covers[p]: the strings PathMatch accepts for p
  Admits,    \* Admits[p]: the strings that have the literal prefix of p
  Score,     \* Score[p]: the number of literal characters of p
  MaxScore,  \* a bound on the length of a pattern
  Contexts,  \* values of process identity, of the syscall, of the other fields
  Unreadable \* the values that raise a CEL error when a rule reads them, as
             \* process.nokey or ancestors[0] of a process without ancestors

Strings == Targets \cup {None}

ASSUME GlobAssumption ==
  /\ Covers \in [Patterns -> SUBSET Strings]
  /\ Admits \in [Patterns -> SUBSET Strings]
  /\ MaxScore \in Nat
  /\ Score \in [Patterns -> 0..MaxScore]
  /\ Unreadable \subseteq Contexts

GlobFields == {"path", "socket"}

Atom ==
  [on : GlobFields, arg : Patterns]
    \cup [on : {"host"}, arg : Targets]
    \cup [on : {"process", "sandbox", "syscall", "other"}, arg : Contexts]

Event ==
  [path : Strings, socket : Strings, host : Strings, process : Contexts,
   sandbox : Contexts, syscall : Contexts, other : Contexts]

-----------------------------------------------------------------------------
(* Match expressions.                                                      *)

(* There is one operator between each two factors.                         *)
IsMatch(m) ==
  /\ m.factors \in Seq(SUBSET Atom)
  /\ m.ops \in Seq({"and", "or"})
  /\ Len(m.ops) = IF m.factors = << >> THEN 0 ELSE Len(m.factors) - 1

Row(m) == 1..Len(m.factors)

(* The maximal runs of factors joined by the operator op, as intervals.    *)
Runs(m, op) ==
  {r \in Row(m) \X Row(m) :
     /\ r[1] <= r[2]
     /\ \A k \in r[1]..(r[2] - 1) : m.ops[k] = op
     /\ r[1] = 1 \/ m.ops[r[1] - 1] # op
     /\ r[2] = Len(m.factors) \/ m.ops[r[2]] # op}

AtomsOf(m, r) == UNION {m.factors[k] : k \in r[1]..r[2]}

AllAtoms(m) == UNION {m.factors[k] : k \in Row(m)}

PatternsIn(atoms) == {a.arg : a \in {b \in atoms : b.on \in GlobFields}}

(* Reading a key that the map does not have is an error, pathMatch never   *)
(* raises one.                                                             *)
AtomFails(a, ev) ==
  a.on \in {"process", "sandbox", "syscall"} /\ ev[a.on] \in Unreadable

(* What the CEL interpreter answers for one atom.                          *)
AtomHolds(a, ev) ==
  IF a.on \in GlobFields THEN ev[a.on] \in Covers[a.arg]
  ELSE ~ AtomFails(a, ev) /\ ev[a.on] = a.arg

FactorHolds(f, ev) == \E a \in f : AtomHolds(a, ev)

FactorFails(f, ev) == ~ FactorHolds(f, ev) /\ \E a \in f : AtomFails(a, ev)

(* What the CEL interpreter answers for the expression: some run of &&     *)
(* whose factors all hold.                                                 *)
CelHolds(m, ev) ==
  \/ m.factors = << >>
  \/ \E r \in Runs(m, "and") : \A k \in r[1]..r[2] : FactorHolds(m.factors[k], ev)

(* When it raises an error. In CEL a true operand of || and a false        *)
(* operand of && make up for an error in the others.                       *)
CelFails(m, ev) ==
  /\ ~ CelHolds(m, ev)
  /\ \E r \in Runs(m, "and") : \A k \in r[1]..r[2] :
       FactorHolds(m.factors[k], ev) \/ FactorFails(m.factors[k], ev)

(* Mutant: a loader that accepts every expression.                         *)
lintNothing(m) == FALSE

(* The loader's check for && and || at the same parenthesis depth: such a  *)
(* rule is rejected and never reaches an engine.                           *)
lintMixedOperators(m) == \E i, j \in DOMAIN m.ops : m.ops[i] # m.ops[j]

(* splitOnAnd: the pieces of the text between top-level && operators.      *)
splitOnAnd(m) == Runs(m, "or")

(* A piece that isFastPathExpr accepts once outer parentheses are gone.    *)
isPathChain(m, r) ==
  /\ \A a \in AtomsOf(m, r) : a.on \in GlobFields
  /\ r[1] = r[2] \/ \A k \in r[1]..r[2] : \E a \in AtomsOf(m, r) : m.factors[k] = {a}

(* isFastPathExpr on a whole expression: an unparenthesised || chain of    *)
(* pathMatch calls.                                                        *)
isFastPathExpr(m) ==
  /\ m.factors # << >>
  /\ <<1, Len(m.factors)>> \in Runs(m, "or")
  /\ \A k \in Row(m) :
       \E a \in AllAtoms(m) : m.factors[k] = {a} /\ a.on \in GlobFields

(* contextRefs: the references that make a decision depend on more than    *)
(* the action and the target.                                              *)
contextRefs(atoms) ==
  {a \in atoms : a.on \in {"process", "sandbox", "syscall"}}

(* The rule reads more than the syscall, so its context is gathered.       *)
needsProcess(m) == \E a \in contextRefs(AllAtoms(m)) : a.on # "syscall"

readsProcess(atoms) == \E a \in atoms : a.on = "process"

narrowsProcess(m) ==
  \E r, q \in splitOnAnd(m) : r # q /\ readsProcess(AtomsOf(m, r))

(* Mutant: a pattern reached through || counts as a requirement.           *)
requiredAnywhere(m) == PatternsIn(AllAtoms(m))

(* requiredPatterns: the patterns of the first piece that is a pure        *)
(* pathMatch chain; the empty set is Go's nil, no provable gate.           *)
requiredPatterns(m) ==
  LET chains == {r \in splitOnAnd(m) : isPathChain(m, r)}
  IN  IF chains = {} THEN {}
      ELSE LET first == CHOOSE r \in chains : \A q \in chains : r[1] <= q[1]
           IN  PatternsIn(AtomsOf(m, first))

-----------------------------------------------------------------------------
(* Engine queries over the rules of one action.                            *)

RuleSet(rules) == {rules[i] : i \in 1..Len(rules)}

Passes(p, target) == target \in Admits[p] /\ target \in Covers[p]

(* The string a cache key is built from.                                   *)
cacheTarget(ev) ==
  IF ev.path # None THEN ev.path ELSE IF ev.socket # None THEN ev.socket ELSE ev.host

(* The string the pattern scan looks at.                                   *)
scanTarget(ev) == IF ev.path # None THEN ev.path ELSE ev.socket

(* Mutant: a rule without a provable gate matches no target.               *)
contextMattersIfGated(rules, target, processOnly) ==
  \E r \in RuleSet(rules) :
    /\ contextRefs(AllAtoms(r.match)) # {}
    /\ processOnly => needsProcess(r.match)
    /\ \E p \in requiredPatterns(r.match) : Passes(p, target)

contextMatters(rules, target, processOnly) ==
  \E r \in RuleSet(rules) :
    /\ contextRefs(AllAtoms(r.match)) # {}
    /\ processOnly => needsProcess(r.match)
    /\ LET gate == requiredPatterns(r.match)
       IN  gate = {} \/ \E p \in gate : Passes(p, target)

CacheableTarget(rules, target) == ~ contextMatters(rules, target, FALSE)

NeedsProcessContext(rules, target) == contextMatters(rules, target, TRUE)

(* Mutant: deny rules are not looked at.                                   *)
UnconditionalIfAllTrue(rules) ==
  rules # << >> /\ \A r \in RuleSet(rules) : r.match.factors = << >>

IsUnconditionalAllow(rules) ==
  /\ rules # << >>
  /\ \A r \in RuleSet(rules) : r.verdict = "allow" /\ r.match.factors = << >>

-----------------------------------------------------------------------------
(* Rule matching and scoring.                                              *)

(* The highest score among the given patterns, 0 for none.                 *)
BestScore(patterns) ==
  CHOOSE n \in 0..MaxScore :
    /\ n \in {0} \cup {Score[p] : p \in patterns}
    /\ \A p \in patterns : Score[p] <= n

(* Mutant: a pattern scan that stops at the literal prefix.                *)
evalPrefixOnly(r, ev) ==
  LET target == scanTarget(ev)
      hits == {p \in PatternsIn(AllAtoms(r.match)) : target \in Admits[p]}
  IN  [matched |-> target # None /\ hits # {},
       score |-> IF target = None THEN 0 ELSE BestScore(hits)]

evalFastPath(r, ev) ==
  LET target == scanTarget(ev)
      hits == {p \in PatternsIn(AllAtoms(r.match)) : Passes(p, target)}
  IN  [matched |-> target # None /\ hits # {},
       score |-> IF target = None THEN 0 ELSE BestScore(hits)]

ruleScore(r, ev) ==
  BestScore({p \in PatternsIn(AllAtoms(r.match)) :
               \/ ev.path # None /\ Passes(p, ev.path)
               \/ ev.socket # None /\ Passes(p, ev.socket)})

(* A rule whose expression raises an error has not matched.                *)
evalCEL(r, ev) ==
  IF CelFails(r.match, ev) \/ ~ CelHolds(r.match, ev)
  THEN [matched |-> FALSE, score |-> 0]
  ELSE [matched |-> TRUE, score |-> ruleScore(r, ev)]

evalRule(r, ev) ==
  IF isFastPathExpr(r.match) THEN evalFastPath(r, ev) ELSE evalCEL(r, ev)

Narrows(r) == ~ isFastPathExpr(r.match) /\ narrowsProcess(r.match)
=============================================================================
