-------------------------- MODULE PolicyEvaluation --------------------------
(***************************************************************************)
(* The loop of Engine.Evaluate (internal/policy/engine.go) over the rules  *)
(* for the action of one event, one candidate per step, against the        *)
(* evaluation model that the Engine type documents: the most specific      *)
(* matching rule wins, a tie goes to the rule that narrows the process,    *)
(* a remaining tie to deny, and no match is deny.                          *)
(***************************************************************************)
EXTENDS PolicyEngine

CONSTANTS
  Rules,     \* the rules in the policy files
  Events,    \* the events to decide
  MaxRules,  \* bound: rules for the action of an event
  Pending    \* Evaluate has not returned

(* "A decoded event sets either Path or Socket/Host, never both"           *)
(* (engine.go:105), and a connect is to a socket or to a host.             *)
OneTarget(e) ==
  /\ e.path # None => e.socket = None /\ e.host = None
  /\ e.socket # None => e.host = None

ASSUME RulesAssumption ==
  /\ \A r \in Rules : r.verdict \in {"allow", "deny"} /\ IsMatch(r.match)
  /\ Events \subseteq Event
  /\ \A e \in Events : OneTarget(e)
  /\ MaxRules \in Nat
  /\ \A v \in {"allow", "deny"}, i \in 0..MaxRules :
       Pending # [verdict |-> v, rule |-> i]

VARIABLES rules, ev, next, best, bestScore, decision

vars == <<rules, ev, next, best, bestScore, decision>>

(* The rules the loader passes on to the engine.                           *)
Accepted == {r \in Rules : ~ lintMixedOperators(r.match)}

(* The candidates: every list of at most MaxRules accepted rules, in load  *)
(* order.                                                                  *)
Candidates == UNION {[1..n -> Accepted] : n \in 0..MaxRules}

Init ==
  /\ rules \in Candidates
  /\ ev \in Events
  /\ next = 1
  /\ best = 0
  /\ bestScore = 0
  /\ decision = Pending

(* Mutant: a tie always goes to the later deny, also against a rule that   *)
(* narrows the process.                                                    *)
ReplacesIgnoringProcess(r, score) ==
  \/ best = 0
  \/ score > bestScore
  \/ score = bestScore /\ r.verdict = "deny"

(* Whether the matched rule r replaces the best rule so far.               *)
Replaces(r, score) ==
  \/ best = 0
  \/ score > bestScore
  \/ score = bestScore /\ Narrows(r) /\ ~ Narrows(rules[best])
  \/ /\ score = bestScore
     /\ Narrows(r) = Narrows(rules[best])
     /\ r.verdict = "deny"

(* Mutant: the index of the rule after the one examined is kept.           *)
ExamineOffByOne ==
  /\ decision = Pending
  /\ next <= Len(rules)
  /\ next' = next + 1
  /\ LET r == rules[next]
         e == evalRule(r, ev)
     IN  IF e.matched /\ Replaces(r, e.score)
         THEN best' = next + 1 /\ bestScore' = e.score
         ELSE UNCHANGED <<best, bestScore>>
  /\ UNCHANGED <<rules, ev, decision>>

(* One round of the loop: the rule is matched and, if it is better than    *)
(* the best so far, replaces it.                                           *)
Examine ==
  /\ decision = Pending
  /\ next <= Len(rules)
  /\ next' = next + 1
  /\ LET r == rules[next]
         e == evalRule(r, ev)
     IN  IF e.matched /\ Replaces(r, e.score)
         THEN best' = next /\ bestScore' = e.score
         ELSE UNCHANGED <<best, bestScore>>
  /\ UNCHANGED <<rules, ev, decision>>

(* The loop is over: the verdict of the best rule, deny when none matched. *)
Return ==
  /\ decision = Pending
  /\ next > Len(rules)
  /\ decision' = [verdict |-> IF best = 0 THEN "deny" ELSE rules[best].verdict,
                  rule |-> best]
  /\ UNCHANGED <<rules, ev, next, best, bestScore>>

Next == Examine \/ Return

Spec == Init /\ [][Next]_vars

-----------------------------------------------------------------------------
(* The documented evaluation model, with no reference to the loop.         *)

Matching(rs, e) == {i \in 1..Len(rs) : evalRule(rs[i], e).matched}

(* Rule i is at least as specific as rule j.                               *)
AtLeast(rs, e, i, j) ==
  \/ evalRule(rs[i], e).score > evalRule(rs[j], e).score
  \/ /\ evalRule(rs[i], e).score = evalRule(rs[j], e).score
     /\ Narrows(rs[j]) => Narrows(rs[i])

Winners(rs, e) ==
  {i \in Matching(rs, e) : \A j \in Matching(rs, e) : AtLeast(rs, e, i, j)}

ModelVerdict(rs, e) ==
  IF Winners(rs, e) # {} /\ \A i \in Winners(rs, e) : rs[i].verdict = "allow"
  THEN "allow" ELSE "deny"

(* The literal-prefix test rejects nothing that a pattern of these rules   *)
(* matches, and no pattern matches the empty string. Rules that the        *)
(* pattern scan decides need neither.                                      *)
PatternsSound(rs) ==
  \A r \in rs : ~ isFastPathExpr(r.match) =>
    \A p \in PatternsIn(AllAtoms(r.match)) : Covers[p] \subseteq Admits[p] \ {None}

(* A cache key determines what the rules can read of the target.           *)
TargetDetermines(es) ==
  \A e, f \in es : cacheTarget(e) = cacheTarget(f) =>
    e.path = f.path /\ e.socket = f.socket /\ e.host = f.host /\ e.other = f.other

-----------------------------------------------------------------------------

TypeOK ==
  /\ rules \in Candidates
  /\ ev \in Events
  /\ next \in 1..(Len(rules) + 1)
  /\ best \in 0..(next - 1)
  /\ bestScore \in 0..MaxScore
  /\ decision \in {Pending} \cup [verdict : {"allow", "deny"}, rule : 0..Len(rules)]

(* Evaluate returns the verdict of the documented model, whatever the      *)
(* order the rules were loaded in, and names one of the most specific      *)
(* rules that match, or none when none matches.                            *)
MostSpecificWins ==
  decision # Pending =>
    /\ decision.verdict = ModelVerdict(rules, ev)
    /\ IF Matching(rules, ev) = {} THEN decision.rule = 0
       ELSE decision.rule \in Winners(rules, ev)

(* "When the target satisfies none of them the rule is provably false for  *)
(* this target" (engine.go:63-64): no decision rests on a rule when the    *)
(* target satisfies none of the patterns requiredPatterns returns for it.  *)
GateIsRequired ==
  decision # Pending /\ decision.rule # 0 =>
    LET gate == requiredPatterns(rules[decision.rule].match)
    IN  gate = {} \/ \E p \in gate : Passes(p, cacheTarget(ev))

(* The pattern scan that replaces CEL for a pure pathMatch chain answers   *)
(* what CEL would, with the same score, but for three differences: CEL     *)
(* alone matches when a pattern matches an empty field or one whose        *)
(* literal prefix it lacks, and the scan alone when the pattern is on the  *)
(* field that the event does not set (engine.go:597).                      *)
FastPathAgrees ==
  \A i \in {j \in 1..Len(rules) : isFastPathExpr(rules[j].match)} :
    LET atoms == AllAtoms(rules[i].match)
        scan == evalRule(rules[i], ev)
        cel == evalCEL(rules[i], ev)
    IN  /\ scan.matched /\ cel.matched => scan.score = cel.score
        /\ cel.matched /\ ~ scan.matched =>
             \E a \in atoms :
               /\ ev[a.on] \in Covers[a.arg]
               /\ ev[a.on] = None \/ ev[a.on] \notin Admits[a.arg]
        /\ scan.matched /\ ~ cel.matched =>
             \E a \in atoms : Passes(a.arg, scanTarget(ev)) /\ ev[a.on] # scanTarget(ev)

(* An action reported as unconditionally allowed, which the handler        *)
(* answers without evaluating anything, is one Evaluate allows.            *)
UnconditionalIsAllowed ==
  decision # Pending /\ IsUnconditionalAllow(rules) => decision.verdict = "allow"

(* "CacheableTarget reports whether the decision for (action, target) is a *)
(* function of the target alone": another process, or the same one through *)
(* another syscall, gets the same decision for a cacheable target.         *)
CacheableIsSound ==
  decision # Pending /\ CacheableTarget(rules, cacheTarget(ev)) =>
    \A e \in Events : cacheTarget(e) = cacheTarget(ev) =>
      decision.verdict = ModelVerdict(rules, e)

(* When the engine says no process context is needed, the event the        *)
(* handler builds without it is decided as if it had been gathered.        *)
ContextNotMissed ==
  decision # Pending /\ ~ NeedsProcessContext(rules, cacheTarget(ev)) =>
    \A c \in Contexts :
      decision.verdict = ModelVerdict(rules, [ev EXCEPT !.process = c])
=============================================================================
