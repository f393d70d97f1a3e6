----------------------- MODULE PolicyEvaluationProofs -----------------------
(***************************************************************************)
(* The loop of Evaluate computes the documented evaluation model for every *)
(* list of rules and every event, and the analysis of match expressions by *)
(* which the engine skips the cache and the process context is sound.      *)
(***************************************************************************)
EXTENDS PolicyEvaluation, WellFoundedInduction, TLAPS

LEMMA Greatest ==
  ASSUME NEW N \in Nat, NEW T \in SUBSET (0..N), T # {}
  PROVE  \E n \in T : \A m \in T : m <= n
  <1> DEFINE less == OpToRel(<, Nat)
             gaps == {N - n : n \in T}
  <1>1. IsWellFoundedOn(less, Nat)
    BY NatLessThanWellFounded, Zenon
  <1>2. \A a, b \in Nat : a < b => <<a, b>> \in less
    BY Zenon DEF OpToRel
  <1>3. gaps \in SUBSET Nat /\ gaps # {}
    <2>1. \A n \in T : N - n \in Nat
      OBVIOUS
    <2>2. PICK n \in T : TRUE
      OBVIOUS
    <2> QED BY <2>1, <2>2
  <1> HIDE DEF less
  <1>4. PICK g \in gaps : \A h \in gaps : ~ (<<h, g>> \in less)
    <2> HIDE DEF gaps
    <2> QED BY <1>1, <1>3, WFMin, Zenon
  <1>5. PICK n \in T : g = N - n
    OBVIOUS
  <1>6. ASSUME NEW m \in T PROVE m <= n
    <2>1. N - m \in gaps /\ N - m \in Nat /\ g \in Nat
      BY <1>3
    <2>2. ~ (N - m < g)
      BY <1>2, <1>4, <2>1, Zenon
    <2> QED BY <1>5, <2>1, <2>2
  <1> QED BY <1>6

-----------------------------------------------------------------------------
(* Rules and their scores.                                                 *)

LEMMA AtomTypes ==
  ASSUME NEW m, IsMatch(m)
  PROVE  /\ AllAtoms(m) \subseteq Atom
         /\ PatternsIn(AllAtoms(m)) \subseteq Patterns
  <1>1. \A k \in Row(m) : m.factors[k] \subseteq Atom
    BY DEF IsMatch, Row
  <1>2. AllAtoms(m) \subseteq Atom
    BY <1>1 DEF AllAtoms
  <1>3. \A a \in Atom : a.on \in GlobFields => a.arg \in Patterns
    BY DEF Atom, GlobFields
  <1> QED BY <1>2, <1>3 DEF PatternsIn

LEMMA BestScoreType ==
  ASSUME NEW P \in SUBSET Patterns
  PROVE  BestScore(P) \in 0..MaxScore
  <1> DEFINE T == {0} \cup {Score[p] : p \in P}
  <1>1. T \in SUBSET (0..MaxScore) /\ T # {}
    BY GlobAssumption
  <1>2. PICK n \in T : \A k \in T : k <= n
    <2> HIDE DEF T
    <2> QED BY <1>1, Greatest, GlobAssumption
  <1>3. n \in 0..MaxScore /\ \A p \in P : Score[p] <= n
    BY <1>1, <1>2
  <1> QED BY <1>2, <1>3 DEF BestScore

(* An expression that raises an error is not true, so the answer of        *)
(* evalCEL is that of CEL.                                                 *)
LEMMA CelAnswer ==
  ASSUME NEW r, NEW e
  PROVE  evalCEL(r, e) = [matched |-> CelHolds(r.match, e),
                          score |-> IF CelHolds(r.match, e) THEN ruleScore(r, e) ELSE 0]
  <1>1. CelHolds(r.match, e) \in BOOLEAN
    BY Zenon DEF CelHolds
  <1>2. CASE CelHolds(r.match, e) = TRUE
    <2>1. evalCEL(r, e) = [matched |-> TRUE, score |-> ruleScore(r, e)]
      BY <1>2 DEF evalCEL, CelFails
    <2> QED BY <1>2, <2>1
  <1>3. CASE CelHolds(r.match, e) = FALSE
    <2>1. evalCEL(r, e) = [matched |-> FALSE, score |-> 0]
      BY <1>3 DEF evalCEL
    <2> QED BY <1>3, <2>1
  <1> QED BY <1>1, <1>2, <1>3, Zenon

LEMMA RuleTypes ==
  ASSUME NEW r \in Accepted
  PROVE  /\ IsMatch(r.match) /\ ~ lintMixedOperators(r.match)
         /\ r.verdict \in {"allow", "deny"}
         /\ \A e : evalRule(r, e).score \in 0..MaxScore
  <1>1. /\ IsMatch(r.match) /\ ~ lintMixedOperators(r.match)
        /\ r.verdict \in {"allow", "deny"}
    BY RulesAssumption DEF Accepted
  <1>2. ASSUME NEW e PROVE evalRule(r, e).score \in 0..MaxScore
    <2>1. PatternsIn(AllAtoms(r.match)) \subseteq Patterns
      BY <1>1, AtomTypes
    <2>2. 0 \in 0..MaxScore
      BY GlobAssumption
    <2>3. evalFastPath(r, e).score \in 0..MaxScore
      <3> DEFINE hits == {p \in PatternsIn(AllAtoms(r.match)) : Passes(p, scanTarget(e))}
      <3>1. BestScore(hits) \in 0..MaxScore
        BY <2>1, BestScoreType
      <3> HIDE DEF hits
      <3>2. evalFastPath(r, e).score \in {0, BestScore(hits)}
        BY DEF evalFastPath, hits
      <3> QED BY <2>2, <3>1, <3>2
    <2>4. evalCEL(r, e).score \in 0..MaxScore
      <3>1. ruleScore(r, e) \in 0..MaxScore
        BY <2>1, BestScoreType DEF ruleScore
      <3>2. evalCEL(r, e).score \in {0, ruleScore(r, e)}
        BY CelAnswer
      <3> QED BY <2>2, <3>1, <3>2
    <2> QED BY <2>3, <2>4 DEF evalRule
  <1> QED BY <1>1, <1>2

LEMMA CandidateTypes ==
  ASSUME NEW rs \in Candidates
  PROVE  Len(rs) \in Nat /\ \A i \in 1..Len(rs) : rs[i] \in Accepted
  <1>1. PICK n \in 0..MaxRules : rs \in [1..n -> Accepted]
    BY DEF Candidates
  <1>2. n \in Nat /\ rs \in Seq(Accepted)
    BY <1>1, RulesAssumption
  <1> QED BY <1>2

-----------------------------------------------------------------------------
(* The loop.                                                               *)

(* The rule held so far is the best of those examined, with a deny         *)
(* preferred among equals.                                                 *)
BestSoFar ==
  LET seen == {i \in Matching(rules, ev) : i < next}
  IN  /\ best = 0 <=> seen = {}
      /\ best # 0 =>
           /\ best \in seen
           /\ bestScore = evalRule(rules[best], ev).score
           /\ \A j \in seen :
                /\ AtLeast(rules, ev, best, j)
                /\ AtLeast(rules, ev, j, best) /\ rules[j].verdict = "deny"
                     => rules[best].verdict = "deny"

DecisionInv ==
  decision # Pending =>
    /\ next > Len(rules)
    /\ decision = [verdict |-> IF best = 0 THEN "deny" ELSE rules[best].verdict,
                   rule |-> best]

LoopInv == TypeOK /\ BestSoFar /\ DecisionInv

LEMMA LoopInit == Init => LoopInv
  <1> SUFFICES ASSUME Init PROVE LoopInv
    OBVIOUS
  <1>1. Len(rules) \in Nat
    BY CandidateTypes DEF Init
  <1>2. TypeOK
    BY <1>1, GlobAssumption DEF Init, TypeOK
  <1>3. {i \in Matching(rules, ev) : i < next} = {}
    BY <1>1 DEF Init, Matching
  <1> QED BY <1>2, <1>3 DEF Init, LoopInv, BestSoFar, DecisionInv

(* What one round does to the best rule. The matches so far are seen, and  *)
(* the rule examined is next.                                              *)
LEMMA ExamineKeeps == LoopInv /\ Examine => LoopInv'
  <1> SUFFICES ASSUME LoopInv, Examine PROVE LoopInv'
    OBVIOUS
  <1> DEFINE r == rules[next]
             e == evalRule(r, ev)
             seen == {i \in Matching(rules, ev) : i < next}
             sc(i) == evalRule(rules[i], ev).score
  <1>1. /\ rules' = rules /\ ev' = ev /\ decision' = decision /\ decision = Pending
        /\ next' = next + 1 /\ next \in 1..Len(rules)
        /\ Len(rules) \in Nat /\ best \in 0..(next - 1)
    BY CandidateTypes DEF LoopInv, TypeOK, Examine
  <1>2. \A i \in 1..Len(rules) :
          /\ sc(i) \in Nat /\ sc(i) \in 0..MaxScore
          /\ rules[i].verdict \in {"allow", "deny"}
    BY CandidateTypes, RuleTypes, GlobAssumption DEF LoopInv, TypeOK
  <1>3. /\ best = 0 <=> seen = {}
        /\ best # 0 =>
             /\ best \in seen
             /\ bestScore = sc(best)
             /\ \A j \in seen :
                  /\ AtLeast(rules, ev, best, j)
                  /\ AtLeast(rules, ev, j, best) /\ rules[j].verdict = "deny"
                       => rules[best].verdict = "deny"
    BY DEF LoopInv, BestSoFar
  <1>4. \A i \in seen : i \in 1..Len(rules) /\ i # next
    BY <1>1 DEF Matching
  <1>5. {i \in Matching(rules, ev) : i < next + 1}
          = IF e.matched THEN seen \cup {next} ELSE seen
    BY <1>1 DEF Matching
  <1>6. \/ e.matched /\ Replaces(r, e.score) /\ best' = next /\ bestScore' = e.score
        \/ ~ (e.matched /\ Replaces(r, e.score)) /\ best' = best /\ bestScore' = bestScore
    BY DEF Examine
  <1>7. TypeOK'
    BY <1>1, <1>2, <1>6 DEF LoopInv, TypeOK
  <1>8. DecisionInv'
    BY <1>1 DEF DecisionInv
  <1>9. BestSoFar'
    <2>1. SUFFICES
            LET now == {i \in Matching(rules, ev) : i < next + 1}
            IN  /\ best' = 0 <=> now = {}
                /\ best' # 0 =>
                     /\ best' \in now
                     /\ bestScore' = sc(best')
                     /\ \A j \in now :
                          /\ AtLeast(rules, ev, best', j)
                          /\ AtLeast(rules, ev, j, best') /\ rules[j].verdict = "deny"
                               => rules[best'].verdict = "deny"
      BY <1>1 DEF BestSoFar
    <2> HIDE DEF seen
    <2>2. \A i, j : AtLeast(rules, ev, i, j) <=>
                     \/ sc(i) > sc(j)
                     \/ sc(i) = sc(j) /\ (Narrows(rules[j]) => Narrows(rules[i]))
      BY DEF AtLeast
    <2>3. e.score = sc(next)
      OBVIOUS
    <2> HIDE DEF sc, e
    <2>4. CASE e.matched /\ Replaces(r, e.score) /\ best' = next /\ bestScore' = e.score
      <3>1. ASSUME NEW j \in seen \cup {next}
            PROVE  /\ AtLeast(rules, ev, next, j)
                   /\ AtLeast(rules, ev, j, next) /\ rules[j].verdict = "deny"
                       => rules[next].verdict = "deny"
        BY <1>1, <1>2, <1>3, <1>4, <2>2, <2>3, <2>4 DEF Replaces
      <3> QED BY <1>1, <1>5, <2>3, <2>4, <3>1
    <2>5. CASE /\ ~ (e.matched /\ Replaces(r, e.score))
               /\ best' = best /\ bestScore' = bestScore
      <3>1. CASE e.matched
        <4>1. best # 0
          BY <2>5, <3>1 DEF Replaces
        <4>2. /\ AtLeast(rules, ev, best, next)
              /\ AtLeast(rules, ev, next, best) /\ rules[next].verdict = "deny"
                   => rules[best].verdict = "deny"
          <5>1. /\ bestScore = sc(best) /\ sc(best) \in Nat /\ sc(next) \in Nat
                /\ rules[next].verdict \in {"allow", "deny"}
            BY <1>1, <1>2, <1>3, <1>4, <4>1
          <5>2. /\ ~ (sc(next) > sc(best))
                /\ sc(next) = sc(best) => (Narrows(r) => Narrows(rules[best]))
                /\ sc(next) = sc(best) /\ Narrows(r) = Narrows(rules[best])
                     => r.verdict # "deny"
            BY <2>3, <2>5, <3>1, <5>1 DEF Replaces
          <5>3. Narrows(r) \in BOOLEAN /\ Narrows(rules[best]) \in BOOLEAN
            BY DEF Narrows
          <5> QED BY <2>2, <5>1, <5>2, <5>3
        <4> QED BY <1>3, <1>5, <2>5, <3>1, <4>1, <4>2
      <3>2. CASE ~ e.matched
        BY <1>3, <1>5, <2>5, <3>2
      <3> QED BY <3>1, <3>2
    <2> QED BY <1>6, <2>4, <2>5
  <1> QED BY <1>7, <1>8, <1>9 DEF LoopInv

LEMMA LoopStep == LoopInv /\ [Next]_vars => LoopInv'
  <1> SUFFICES ASSUME LoopInv, [Next]_vars PROVE LoopInv'
    OBVIOUS
  <1>1. CASE Examine
    BY <1>1, ExamineKeeps
  <1>2. CASE Return
    <2>1. /\ rules' = rules /\ ev' = ev /\ next' = next /\ best' = best
          /\ bestScore' = bestScore /\ next > Len(rules)
          /\ decision' = [verdict |-> IF best = 0 THEN "deny" ELSE rules[best].verdict,
                          rule |-> best]
      BY <1>2 DEF Return
    <2>2. DecisionInv'
      BY <2>1 DEF DecisionInv
    <2>3. BestSoFar'
      BY <2>1 DEF LoopInv, BestSoFar
    <2>4. TypeOK'
      <3>1. /\ Len(rules) \in Nat /\ best \in 0..Len(rules)
            /\ \A i \in 1..Len(rules) : rules[i].verdict \in {"allow", "deny"}
        BY CandidateTypes, RuleTypes DEF LoopInv, TypeOK
      <3>2. (IF best = 0 THEN "deny" ELSE rules[best].verdict) \in {"allow", "deny"}
        BY <3>1
      <3>3. decision' \in [verdict : {"allow", "deny"}, rule : 0..Len(rules)]
        BY <2>1, <3>1, <3>2
      <3> QED BY <2>1, <3>3 DEF LoopInv, TypeOK
    <2> QED BY <2>2, <2>3, <2>4 DEF LoopInv
  <1>3. CASE UNCHANGED vars
    <2>1. /\ rules' = rules /\ ev' = ev /\ next' = next /\ best' = best
          /\ bestScore' = bestScore /\ decision' = decision
      BY <1>3 DEF vars
    <2> QED BY <2>1 DEF LoopInv, TypeOK, BestSoFar, DecisionInv
  <1> QED BY <1>1, <1>2, <1>3 DEF Next

LEMMA LoopAlways == Spec => []LoopInv
  BY LoopInit, LoopStep, PTL DEF Spec

(* The state of the loop has its type: the best rule has been examined.    *)
THEOREM EvaluationTypeCorrect == Spec => []TypeOK
  <1>1. LoopInv => TypeOK
    BY DEF LoopInv
  <1> QED BY <1>1, LoopAlways, PTL

LEMMA LoopDecides == LoopInv => MostSpecificWins
  <1> SUFFICES ASSUME LoopInv, decision # Pending
               PROVE  /\ decision.verdict = ModelVerdict(rules, ev)
                      /\ IF Matching(rules, ev) = {} THEN decision.rule = 0
                         ELSE decision.rule \in Winners(rules, ev)
    BY DEF MostSpecificWins
  <1>1. /\ decision.verdict = IF best = 0 THEN "deny" ELSE rules[best].verdict
        /\ decision.rule = best
        /\ next > Len(rules) /\ next \in Int /\ Len(rules) \in Nat
    BY CandidateTypes DEF LoopInv, DecisionInv, TypeOK
  <1>2. {i \in Matching(rules, ev) : i < next} = Matching(rules, ev)
    BY <1>1 DEF Matching
  <1>3. /\ best = 0 <=> Matching(rules, ev) = {}
        /\ best # 0 =>
             /\ best \in Matching(rules, ev)
             /\ \A j \in Matching(rules, ev) :
                  /\ AtLeast(rules, ev, best, j)
                  /\ AtLeast(rules, ev, j, best) /\ rules[j].verdict = "deny"
                       => rules[best].verdict = "deny"
    BY <1>2 DEF LoopInv, BestSoFar
  <1>4. \A i \in Matching(rules, ev) : rules[i].verdict \in {"allow", "deny"}
    BY CandidateTypes, RuleTypes DEF LoopInv, TypeOK, Matching
  <1>5. CASE best = 0
    BY <1>1, <1>3, <1>5 DEF Winners, ModelVerdict
  <1>6. CASE best # 0
    <2>1. best \in Winners(rules, ev)
      BY <1>3, <1>6 DEF Winners
    <2>2. \A j \in Winners(rules, ev) :
            j \in Matching(rules, ev) /\ AtLeast(rules, ev, j, best)
      BY <1>3, <1>6 DEF Winners
    <2>3. rules[best].verdict = ModelVerdict(rules, ev)
      BY <1>3, <1>4, <1>6, <2>1, <2>2 DEF ModelVerdict
    <2> QED BY <1>1, <1>3, <1>6, <2>1, <2>3
  <1> QED BY <1>5, <1>6

(* Evaluate decides as documented, whatever the order of the rules: the    *)
(* most specific rule wins, a tie goes to the rule that narrows the        *)
(* process and then to deny, and no match is deny (engine.go:471-509).     *)
THEOREM EvaluateIsTheModel == Spec => []MostSpecificWins
  BY LoopAlways, LoopDecides, PTL

(* An action with only unconditional allow rules is one that Evaluate      *)
(* allows, so the handler may skip it (engine.go:148).                     *)
THEOREM UnconditionalAllowed == Spec => []UnconditionalIsAllowed
  <1>1. LoopInv => UnconditionalIsAllowed
    <2> SUFFICES ASSUME LoopInv, decision # Pending, IsUnconditionalAllow(rules)
                 PROVE  decision.verdict = "allow"
      BY DEF UnconditionalIsAllowed
    <2>1. Len(rules) \in Nat /\ rules \in Seq(Accepted)
      <3>1. PICK n \in 0..MaxRules : rules \in [1..n -> Accepted]
        BY DEF LoopInv, TypeOK, Candidates
      <3> QED BY <3>1, RulesAssumption
    <2>2. \A i \in 1..Len(rules) :
            rules[i].verdict = "allow" /\ rules[i].match.factors = << >>
      BY <2>1 DEF IsUnconditionalAllow, RuleSet
    <2>3. 1 \in 1..Len(rules)
      BY <2>1 DEF IsUnconditionalAllow
    <2>4. evalRule(rules[1], ev).matched
      BY <2>2, <2>3, CelAnswer DEF evalRule, isFastPathExpr, CelHolds
    <2>5. 1 \in Matching(rules, ev)
      BY <2>3, <2>4 DEF Matching
    <2>6. /\ decision.verdict = ModelVerdict(rules, ev)
          /\ decision.rule \in Winners(rules, ev)
      BY <2>5, LoopDecides DEF MostSpecificWins
    <2>7. \A i \in Winners(rules, ev) : i \in 1..Len(rules)
      BY DEF Winners, Matching
    <2> QED BY <2>2, <2>6, <2>7 DEF ModelVerdict
  <1> QED BY <1>1, LoopAlways, PTL

-----------------------------------------------------------------------------
(* What the analysis of a match expression establishes.                    *)

(* Without mixed operators a run of || and a run of && share a factor:     *)
(* either the one or the other is the whole row.                           *)
LEMMA RunsMeet ==
  ASSUME NEW m, IsMatch(m), ~ lintMixedOperators(m),
         NEW q \in Runs(m, "or"), NEW r \in Runs(m, "and")
  PROVE  \E k \in Row(m) : k \in q[1]..q[2] /\ k \in r[1]..r[2]
  <1> DEFINE n == Len(m.factors)
  <1>1. /\ n \in Nat /\ q[1] \in 1..n /\ q[2] \in 1..n /\ r[1] \in 1..n /\ r[2] \in 1..n
        /\ q[1] <= q[2] /\ r[1] <= r[2]
    BY DEF IsMatch, Runs, Row
  <1>2. /\ Len(m.ops) = n - 1
        /\ \A k \in 1..(n - 1) : m.ops[k] \in {"and", "or"}
        /\ \A k, l \in 1..(n - 1) : m.ops[k] = m.ops[l]
    BY <1>1 DEF IsMatch, lintMixedOperators
  <1>3. /\ q[1] = 1 \/ m.ops[q[1] - 1] = "and"
        /\ q[2] = n \/ m.ops[q[2]] = "and"
        /\ r[1] = 1 \/ m.ops[r[1] - 1] = "or"
        /\ r[2] = n \/ m.ops[r[2]] = "or"
    <2>1. /\ q[1] = 1 \/ m.ops[q[1] - 1] # "or"
          /\ q[2] = n \/ m.ops[q[2]] # "or"
          /\ r[1] = 1 \/ m.ops[r[1] - 1] # "and"
          /\ r[2] = n \/ m.ops[r[2]] # "and"
      BY DEF Runs
    <2> QED BY <1>1, <1>2, <2>1
  <1>4. \/ q[1] = 1 /\ q[2] = n
        \/ r[1] = 1 /\ r[2] = n
    <2>1. \A k \in 1..(n - 1) : m.ops[k] = "and" => \A l \in 1..(n - 1) : m.ops[l] # "or"
      BY <1>2
    <2>2. /\ q[1] # 1 => q[1] - 1 \in 1..(n - 1)
          /\ r[1] # 1 => r[1] - 1 \in 1..(n - 1)
          /\ q[2] # n => q[2] \in 1..(n - 1)
          /\ r[2] # n => r[2] \in 1..(n - 1)
      BY <1>1
    <2> QED BY <1>3, <2>1, <2>2, Zenon
  <1>5. CASE q[1] = 1 /\ q[2] = n
    <2>1. r[1] \in Row(m) /\ r[1] \in q[1]..q[2] /\ r[1] \in r[1]..r[2]
      BY <1>1, <1>5 DEF Row
    <2> QED BY <2>1
  <1>6. CASE r[1] = 1 /\ r[2] = n
    <2>1. q[1] \in Row(m) /\ q[1] \in q[1]..q[2] /\ q[1] \in r[1]..r[2]
      BY <1>1, <1>6 DEF Row
    <2> QED BY <2>1
  <1> QED BY <1>4, <1>5, <1>6

(* The patterns of a gate are those of a piece that is a pathMatch chain.  *)
LEMMA GateIsChain ==
  ASSUME NEW m, IsMatch(m), requiredPatterns(m) # {}
  PROVE  \E q \in Runs(m, "or") :
           isPathChain(m, q) /\ requiredPatterns(m) = PatternsIn(AtomsOf(m, q))
  <1> DEFINE chains == {r \in splitOnAnd(m) : isPathChain(m, r)}
             n == Len(m.factors)
             T == {n - r[1] : r \in chains}
  <1>1. chains # {}
    BY DEF requiredPatterns
  <1>2. n \in Nat /\ \A r \in chains : r[1] \in 1..n
    BY DEF IsMatch, splitOnAnd, Runs, Row
  <1>3. PICK q \in chains : \A r \in chains : q[1] <= r[1]
    <2> HIDE DEF chains
    <2>1. T \in SUBSET (0..n) /\ T # {}
      <3>1. \A r \in chains : n - r[1] \in 0..n
        BY <1>2
      <3>2. PICK r \in chains : TRUE
        BY <1>1
      <3> QED BY <3>1, <3>2
    <2>2. PICK g \in T : \A h \in T : h <= g
      <3> HIDE DEF T
      <3> QED BY <1>2, <2>1, Greatest
    <2>3. PICK q \in chains : g = n - q[1]
      OBVIOUS
    <2>4. \A r \in chains : n - r[1] <= n - q[1]
      BY <2>2, <2>3
    <2>5. \A r \in chains : q[1] <= r[1]
      BY <1>2, <2>4
    <2> QED BY <2>5
  <1> DEFINE first == CHOOSE r \in chains : \A p \in chains : r[1] <= p[1]
  <1>4. first \in chains
    <2> HIDE DEF chains
    <2> QED BY <1>3
  <1>5. requiredPatterns(m) = PatternsIn(AtomsOf(m, first))
    BY <1>1 DEF requiredPatterns
  <1> HIDE DEF first
  <1> QED BY <1>4, <1>5 DEF splitOnAnd

(* The field a pattern is on is the target or empty.                       *)
LEMMA FieldIsTarget ==
  ASSUME NEW e \in Event, OneTarget(e), NEW f \in GlobFields
  PROVE  e[f] \in {cacheTarget(e), None}
  BY DEF Event, OneTarget, GlobFields, cacheTarget

(* A rule with a gate matches only events whose target passes it, provided *)
(* that its patterns and their prefixes are sound.                         *)
LEMMA GateLemma ==
  ASSUME NEW r \in Accepted, PatternsSound({r}), ~ isFastPathExpr(r.match),
         NEW e \in Event, OneTarget(e),
         requiredPatterns(r.match) # {}, CelHolds(r.match, e)
  PROVE  \E p \in requiredPatterns(r.match) : Passes(p, cacheTarget(e))
  <1> DEFINE m == r.match
  <1>1. IsMatch(m) /\ ~ lintMixedOperators(m)
    BY RuleTypes
  <1>2. PICK q \in Runs(m, "or") :
          isPathChain(m, q) /\ requiredPatterns(m) = PatternsIn(AtomsOf(m, q))
    BY <1>1, GateIsChain
  <1>3. m.factors # << >>
    BY <1>1, <1>2 DEF Runs, Row, IsMatch
  <1>4. PICK s \in Runs(m, "and") :
          \A k \in s[1]..s[2] : FactorHolds(m.factors[k], e)
    BY <1>3 DEF CelHolds
  <1>5. PICK k \in Row(m) : k \in q[1]..q[2] /\ k \in s[1]..s[2]
    BY <1>1, RunsMeet
  <1>6. PICK a \in m.factors[k] : AtomHolds(a, e)
    BY <1>4, <1>5 DEF FactorHolds
  <1>7. a \in AtomsOf(m, q) /\ a \in AllAtoms(m)
    BY <1>5 DEF AtomsOf, AllAtoms
  <1>8. a.on \in GlobFields
    BY <1>2, <1>7 DEF isPathChain
  <1>9. a.arg \in requiredPatterns(m) /\ a.arg \in PatternsIn(AllAtoms(m))
    BY <1>2, <1>7, <1>8 DEF PatternsIn
  <1>10. e[a.on] \in Covers[a.arg]
    BY <1>6, <1>8 DEF AtomHolds
  <1>11. Covers[a.arg] \subseteq Admits[a.arg] \ {None}
    BY <1>9 DEF PatternsSound
  <1>12. e[a.on] = cacheTarget(e)
    BY <1>8, <1>10, <1>11, FieldIsTarget
  <1> QED BY <1>9, <1>10, <1>11, <1>12 DEF Passes

(* A rule that reads no more context than agrees in both events is decided *)
(* alike in both.                                                          *)
LEMMA SameEval ==
  ASSUME NEW r, NEW e, NEW f, e.path = f.path, e.socket = f.socket,
         \A a \in AllAtoms(r.match) : e[a.on] = f[a.on]
  PROVE  evalRule(r, e) = evalRule(r, f)
  <1>1. \A a \in AllAtoms(r.match) : AtomHolds(a, e) <=> AtomHolds(a, f)
    BY DEF AtomHolds, AtomFails
  <1>2. CelHolds(r.match, e) <=> CelHolds(r.match, f)
    <2>1. \A s \in Runs(r.match, "and") : \A k \in s[1]..s[2] :
            \A a \in r.match.factors[k] : a \in AllAtoms(r.match)
      <3>1. ASSUME NEW s \in Runs(r.match, "and"), NEW k \in s[1]..s[2]
            PROVE  k \in Row(r.match)
        <4>1. /\ s[1] \in 1..Len(r.match.factors) /\ s[2] \in 1..Len(r.match.factors)
          BY DEF Runs, Row
        <4> QED BY <4>1 DEF Row
      <3> QED BY <3>1 DEF AllAtoms
    <2> QED BY <1>1, <2>1 DEF CelHolds, FactorHolds
  <1>3. ruleScore(r, e) = ruleScore(r, f) /\ scanTarget(e) = scanTarget(f)
    BY DEF ruleScore, scanTarget
  <1>4. CelHolds(r.match, e) = CelHolds(r.match, f)
    <2>1. CelHolds(r.match, e) \in BOOLEAN /\ CelHolds(r.match, f) \in BOOLEAN
      BY Zenon DEF CelHolds
    <2>2. \A a, b \in BOOLEAN : (a <=> b) => a = b
      OBVIOUS
    <2> QED BY <1>2, <2>1, <2>2, Zenon
  <1>5. evalCEL(r, e) = evalCEL(r, f)
    <2>1. /\ evalCEL(r, e) = [matched |-> CelHolds(r.match, e),
                               score |-> IF CelHolds(r.match, e) THEN ruleScore(r, e) ELSE 0]
          /\ evalCEL(r, f) = [matched |-> CelHolds(r.match, f),
                               score |-> IF CelHolds(r.match, f) THEN ruleScore(r, f) ELSE 0]
      BY CelAnswer
    <2>2. evalCEL(r, e) = [matched |-> CelHolds(r.match, f),
                           score |-> IF CelHolds(r.match, f) THEN ruleScore(r, f) ELSE 0]
      BY <1>3, <1>4, <2>1
    <2> QED BY <2>1, <2>2
  <1>6. evalFastPath(r, e) = evalFastPath(r, f)
    BY <1>3, Zenon DEF evalFastPath
  <1> QED BY <1>5, <1>6, Zenon DEF evalRule

LEMMA SameVerdict ==
  ASSUME NEW rs, NEW e, NEW f,
         \A i \in 1..Len(rs) : evalRule(rs[i], e) = evalRule(rs[i], f)
  PROVE  ModelVerdict(rs, e) = ModelVerdict(rs, f)
  <1>1. Matching(rs, e) = Matching(rs, f)
    BY DEF Matching
  <1>2. \A i, j \in Matching(rs, e) : AtLeast(rs, e, i, j) <=> AtLeast(rs, f, i, j)
    BY DEF AtLeast, Matching
  <1>3. Winners(rs, e) = Winners(rs, f)
    BY <1>1, <1>2 DEF Winners
  <1> QED BY <1>3 DEF ModelVerdict

(* A rule that reads context is not one the pattern scan decides, and when *)
(* no event passes its gate it matches none of them.                       *)
LEMMA GatedOut ==
  ASSUME NEW r \in Accepted, PatternsSound({r}),
         NEW e \in Event, OneTarget(e),
         contextRefs(AllAtoms(r.match)) # {},
         requiredPatterns(r.match) # {},
         ~ \E p \in requiredPatterns(r.match) : Passes(p, cacheTarget(e))
  PROVE  evalRule(r, e) = [matched |-> FALSE, score |-> 0]
  <1>1. ~ isFastPathExpr(r.match)
    <2>1. PICK a \in AllAtoms(r.match) : a.on \in {"process", "sandbox", "syscall"}
      BY DEF contextRefs
    <2>2. PICK k \in Row(r.match) : a \in r.match.factors[k]
      BY DEF AllAtoms
    <2> QED BY <2>1, <2>2 DEF isFastPathExpr, GlobFields
  <1>2. CelHolds(r.match, e) = FALSE
    <2>1. ~ CelHolds(r.match, e)
      BY <1>1, GateLemma
    <2>2. CelHolds(r.match, e) \in BOOLEAN
      BY Zenon DEF CelHolds
    <2> QED BY <2>1, <2>2, Zenon
  <1>3. evalRule(r, e) = [matched |-> CelHolds(r.match, e),
                          score |-> IF CelHolds(r.match, e) THEN ruleScore(r, e) ELSE 0]
    BY <1>1, CelAnswer DEF evalRule
  <1>4. (IF CelHolds(r.match, e) THEN ruleScore(r, e) ELSE 0) = 0
    BY <1>2
  <1> QED BY <1>2, <1>3, <1>4, Zenon

-----------------------------------------------------------------------------
(* The answers of the engine about a target.                               *)

LEMMA EventTypes ==
  ASSUME LoopInv, PatternsSound(Rules)
  PROVE  /\ ev \in Event /\ OneTarget(ev) /\ ev \in Events
         /\ Len(rules) \in Nat
         /\ \A i \in 1..Len(rules) :
              /\ rules[i] \in Accepted /\ PatternsSound({rules[i]})
              /\ rules[i] \in RuleSet(rules)
              /\ AllAtoms(rules[i].match) \subseteq Atom
  <1>1. ev \in Event /\ OneTarget(ev) /\ ev \in Events
    BY RulesAssumption DEF LoopInv, TypeOK
  <1>2. Len(rules) \in Nat /\ \A i \in 1..Len(rules) : rules[i] \in Accepted
    BY CandidateTypes DEF LoopInv, TypeOK
  <1>3. ASSUME NEW i \in 1..Len(rules)
        PROVE  /\ PatternsSound({rules[i]}) /\ rules[i] \in RuleSet(rules)
               /\ AllAtoms(rules[i].match) \subseteq Atom
    <2>1. rules[i] \in Rules /\ IsMatch(rules[i].match)
      BY <1>2, RuleTypes DEF Accepted
    <2> QED BY <2>1, AtomTypes DEF PatternsSound, RuleSet
  <1> QED BY <1>1, <1>2, <1>3

(* No decision rests on a rule whose gate the target does not pass         *)
(* (engine.go:63-64), for policies whose patterns are sound: no literal    *)
(* prefix rejects what its pattern matches and no pattern matches the      *)
(* empty string. Trailing slashes, classes and alternatives break the      *)
(* first, /** the second.                                                  *)
THEOREM GatesAreRequired ==
  ASSUME PatternsSound(Rules)
  PROVE  Spec => []GateIsRequired
  <1>1. LoopInv => GateIsRequired
    <2> SUFFICES ASSUME LoopInv, decision # Pending, decision.rule # 0,
                        requiredPatterns(rules[decision.rule].match) # {}
                 PROVE  \E p \in requiredPatterns(rules[decision.rule].match) :
                          Passes(p, cacheTarget(ev))
      BY DEF GateIsRequired
    <2> DEFINE r == rules[decision.rule]
    <2>1. decision.rule \in Matching(rules, ev)
      BY LoopDecides DEF MostSpecificWins, Winners
    <2>2. /\ r \in Accepted /\ PatternsSound({r}) /\ ev \in Event /\ OneTarget(ev)
          /\ evalRule(r, ev).matched
      BY <2>1, EventTypes DEF Matching
    <2>3. CASE ~ isFastPathExpr(r.match)
      <3>1. CelHolds(r.match, ev)
        BY <2>2, <2>3, CelAnswer DEF evalRule
      <3> QED BY <2>2, <2>3, <3>1, GateLemma
    <2>4. CASE isFastPathExpr(r.match)
      <3>1. isFastPathExpr(r.match) /\ evalFastPath(r, ev).matched
        BY <2>2, <2>4 DEF evalRule
      <3>2. IsMatch(r.match)
        BY <2>2, RuleTypes
      <3>3. PICK q \in Runs(r.match, "or") :
              requiredPatterns(r.match) = PatternsIn(AtomsOf(r.match, q))
        BY <3>2, GateIsChain
      <3>4. PICK p \in PatternsIn(AllAtoms(r.match)) :
              Passes(p, scanTarget(ev)) /\ scanTarget(ev) # None
        BY <3>1 DEF evalFastPath
      <3>5. AtomsOf(r.match, q) = AllAtoms(r.match)
        <4> DEFINE m == r.match
                   n == Len(m.factors)
        <4>1. /\ n \in Nat /\ q[1] \in 1..n /\ q[2] \in 1..n
              /\ q[1] = 1 \/ m.ops[q[1] - 1] # "or"
              /\ q[2] = n \/ m.ops[q[2]] # "or"
          BY <3>2 DEF IsMatch, Runs, Row
        <4>2. \A k \in 1..(n - 1) : m.ops[k] = "or"
          BY <3>1 DEF isFastPathExpr, Runs
        <4>3. q[1] = 1 /\ q[2] = n
          BY <4>1, <4>2
        <4> QED BY <4>3 DEF AtomsOf, AllAtoms, Row
      <3>6. scanTarget(ev) = cacheTarget(ev)
        BY <3>4 DEF scanTarget, cacheTarget
      <3> QED BY <3>3, <3>4, <3>5, <3>6
    <2> QED BY <2>3, <2>4
  <1> QED BY <1>1, LoopAlways, PTL

(* Where NeedsProcessContext says no, an event without the identity of its *)
(* process is decided as with it (engine.go:115), for policies whose       *)
(* patterns are sound in the same sense.                                   *)
THEOREM ContextIsNotMissed ==
  ASSUME PatternsSound(Rules)
  PROVE  Spec => []ContextNotMissed
  <1>1. LoopInv => ContextNotMissed
    <2> SUFFICES ASSUME LoopInv, decision # Pending,
                        ~ NeedsProcessContext(rules, cacheTarget(ev)),
                        NEW c \in Contexts
                 PROVE  decision.verdict = ModelVerdict(rules, [ev EXCEPT !.process = c])
      BY DEF ContextNotMissed
    <2> DEFINE f == [ev EXCEPT !.process = c]
    <2>1. ev \in Event /\ OneTarget(ev)
      BY EventTypes
    <2>2. /\ f \in Event /\ f.path = ev.path /\ f.socket = ev.socket /\ f.host = ev.host
          /\ \A x \in {"path", "socket", "host", "sandbox", "syscall", "other"} : f[x] = ev[x]
      BY <2>1 DEF Event
    <2> HIDE DEF f
    <2>3. cacheTarget(f) = cacheTarget(ev) /\ OneTarget(f)
      BY <2>1, <2>2 DEF cacheTarget, OneTarget
    <2>4. ASSUME NEW i \in 1..Len(rules)
          PROVE  evalRule(rules[i], ev) = evalRule(rules[i], f)
      <3> DEFINE r == rules[i]
      <3>1. /\ r \in Accepted /\ PatternsSound({r}) /\ r \in RuleSet(rules)
            /\ AllAtoms(r.match) \subseteq Atom
        BY EventTypes
      <3> HIDE DEF r
      <3>2. CASE needsProcess(r.match)
        <4>1. contextRefs(AllAtoms(r.match)) # {}
          BY <3>2 DEF needsProcess
        <4>2. /\ requiredPatterns(r.match) # {}
              /\ ~ \E p \in requiredPatterns(r.match) : Passes(p, cacheTarget(ev))
          BY <3>1, <3>2, <4>1 DEF NeedsProcessContext, contextMatters
        <4>3. evalRule(r, ev) = [matched |-> FALSE, score |-> 0]
          BY <2>1, <3>1, <4>1, <4>2, GatedOut
        <4>4. evalRule(r, f) = [matched |-> FALSE, score |-> 0]
          BY <2>2, <2>3, <3>1, <4>1, <4>2, GatedOut
        <4> QED BY <4>3, <4>4 DEF r
      <3>3. CASE ~ needsProcess(r.match)
        <4>1. \A a \in AllAtoms(r.match) : a.on # "process"
          BY <3>3 DEF needsProcess, contextRefs
        <4>2. \A a \in Atom : a.on \in {"path", "socket", "host", "process", "sandbox",
                                        "syscall", "other"}
          BY DEF Atom, GlobFields
        <4>3. \A a \in AllAtoms(r.match) : ev[a.on] = f[a.on]
          BY <2>2, <3>1, <4>1, <4>2
        <4> QED BY <2>2, <4>3, SameEval DEF r
      <3> QED BY <3>2, <3>3
    <2>5. ModelVerdict(rules, ev) = ModelVerdict(rules, f)
      BY <2>4, SameVerdict
    <2>6. decision.verdict = ModelVerdict(rules, ev)
      BY LoopDecides DEF MostSpecificWins
    <2> QED BY <2>5, <2>6 DEF f
  <1> QED BY <1>1, LoopAlways, PTL

(* A decision that CacheableTarget lets into the cache is the decision for *)
(* every event with that key (engine.go:108), for policies whose patterns  *)
(* are sound and if the key determines what rules read of the target.      *)
THEOREM CacheableDecisions ==
  ASSUME PatternsSound(Rules), TargetDetermines(Events)
  PROVE  Spec => []CacheableIsSound
  <1>1. LoopInv => CacheableIsSound
    <2> SUFFICES ASSUME LoopInv, decision # Pending,
                        CacheableTarget(rules, cacheTarget(ev)),
                        NEW f \in Events, cacheTarget(f) = cacheTarget(ev)
                 PROVE  decision.verdict = ModelVerdict(rules, f)
      BY DEF CacheableIsSound
    <2>1. /\ ev \in Event /\ OneTarget(ev) /\ ev \in Events
          /\ f \in Event /\ OneTarget(f)
      BY EventTypes, RulesAssumption
    <2>2. f.path = ev.path /\ f.socket = ev.socket /\ f.host = ev.host /\ f.other = ev.other
      BY <2>1 DEF TargetDetermines
    <2>3. \A x \in {"path", "socket", "host", "other"} : ev[x] = f[x]
      BY <2>2
    <2>4. ASSUME NEW i \in 1..Len(rules)
          PROVE  evalRule(rules[i], ev) = evalRule(rules[i], f)
      <3> DEFINE r == rules[i]
      <3>1. /\ r \in Accepted /\ PatternsSound({r}) /\ r \in RuleSet(rules)
            /\ AllAtoms(r.match) \subseteq Atom
        BY EventTypes
      <3> HIDE DEF r
      <3>2. CASE contextRefs(AllAtoms(r.match)) # {}
        <4>1. /\ requiredPatterns(r.match) # {}
              /\ ~ \E p \in requiredPatterns(r.match) : Passes(p, cacheTarget(ev))
          BY <3>1, <3>2 DEF CacheableTarget, contextMatters
        <4>2. evalRule(r, ev) = [matched |-> FALSE, score |-> 0]
          BY <2>1, <3>1, <3>2, <4>1, GatedOut
        <4>3. evalRule(r, f) = [matched |-> FALSE, score |-> 0]
          BY <2>1, <3>1, <3>2, <4>1, GatedOut
        <4> QED BY <4>2, <4>3 DEF r
      <3>3. CASE contextRefs(AllAtoms(r.match)) = {}
        <4>1. \A a \in AllAtoms(r.match) : a.on \notin {"process", "sandbox", "syscall"}
          BY <3>3 DEF contextRefs
        <4>2. \A a \in Atom : a.on \in {"path", "socket", "host", "process", "sandbox",
                                        "syscall", "other"}
          BY DEF Atom, GlobFields
        <4>3. \A a \in AllAtoms(r.match) : a.on \in {"path", "socket", "host", "other"}
          BY <3>1, <4>1, <4>2
        <4>4. \A a \in AllAtoms(r.match) : ev[a.on] = f[a.on]
          BY <2>3, <4>3
        <4> QED BY <2>2, <4>4, SameEval DEF r
      <3> QED BY <3>2, <3>3
    <2>5. ModelVerdict(rules, ev) = ModelVerdict(rules, f)
      BY <2>4, SameVerdict
    <2>6. decision.verdict = ModelVerdict(rules, ev)
      BY LoopDecides DEF MostSpecificWins
    <2> QED BY <2>5, <2>6
  <1> QED BY <1>1, LoopAlways, PTL

-----------------------------------------------------------------------------
(* The pattern scan.                                                       *)

(* CEL evaluates a chain of pathMatch calls to the disjunction of them.    *)
LEMMA ChainHolds ==
  ASSUME NEW m, IsMatch(m), isFastPathExpr(m), NEW e
  PROVE  CelHolds(m, e) <=> \E a \in AllAtoms(m) : AtomHolds(a, e)
  <1> DEFINE n == Len(m.factors)
  <1>1. n \in Nat /\ m.factors # << >> /\ n >= 1
    BY DEF IsMatch, isFastPathExpr
  <1>2. \A k \in 1..(n - 1) : m.ops[k] = "or"
    BY DEF isFastPathExpr, Runs
  <1>3. \A k \in Row(m) : <<k, k>> \in Runs(m, "and")
    <2> SUFFICES ASSUME NEW k \in 1..n PROVE <<k, k>> \in Runs(m, "and")
      BY DEF Row
    <2>1. k = 1 \/ m.ops[k - 1] # "and"
      BY <1>1, <1>2
    <2>2. k = n \/ m.ops[k] # "and"
      BY <1>1, <1>2
    <2> QED BY <1>1, <2>1, <2>2 DEF Runs, Row
  <1>4. ASSUME NEW a \in AllAtoms(m), AtomHolds(a, e) PROVE CelHolds(m, e)
    <2>1. PICK k \in Row(m) : a \in m.factors[k]
      BY DEF AllAtoms
    <2>2. m.factors[k] = {a}
      BY <2>1 DEF isFastPathExpr
    <2> DEFINE r == <<k, k>>
    <2>3. r \in Runs(m, "and") /\ \A l \in r[1]..r[2] : l = k
      BY <1>3 DEF Row
    <2> HIDE DEF r
    <2>4. FactorHolds(m.factors[k], e)
      BY <1>4, <2>1 DEF FactorHolds
    <2> QED BY <2>3, <2>4 DEF CelHolds
  <1>5. ASSUME CelHolds(m, e) PROVE \E a \in AllAtoms(m) : AtomHolds(a, e)
    <2>1. PICK r \in Runs(m, "and") :
            \A k \in r[1]..r[2] : FactorHolds(m.factors[k], e)
      BY <1>1, <1>5 DEF CelHolds
    <2>2. r[1] \in Row(m) /\ r[1] \in r[1]..r[2]
      BY <1>1 DEF Runs, Row
    <2>3. PICK a \in m.factors[r[1]] : AtomHolds(a, e)
      BY <2>1, <2>2 DEF FactorHolds
    <2> QED BY <2>2, <2>3 DEF AllAtoms
  <1> QED BY <1>4, <1>5

(* Every rule and event: where the pattern scan and CEL both match they    *)
(* give the same score, and where they differ it is for one of the three   *)
(* reasons of the property (engine.go:592-640).                            *)
THEOREM FastPathIsCEL == Spec => []FastPathAgrees
  <1>1. LoopInv => FastPathAgrees
    <2> SUFFICES ASSUME LoopInv, NEW i \in 1..Len(rules), isFastPathExpr(rules[i].match)
                 PROVE  LET atoms == AllAtoms(rules[i].match)
                            scan == evalRule(rules[i], ev)
                            cel == evalCEL(rules[i], ev)
                        IN  /\ scan.matched /\ cel.matched => scan.score = cel.score
                            /\ cel.matched /\ ~ scan.matched =>
                                 \E a \in atoms :
                                   /\ ev[a.on] \in Covers[a.arg]
                                   /\ ev[a.on] = None \/ ev[a.on] \notin Admits[a.arg]
                            /\ scan.matched /\ ~ cel.matched =>
                                 \E a \in atoms : /\ Passes(a.arg, scanTarget(ev))
                                                 /\ ev[a.on] # scanTarget(ev)
      BY DEF FastPathAgrees
    <2> DEFINE r == rules[i]
               atoms == AllAtoms(r.match)
               target == scanTarget(ev)
               hits == {p \in PatternsIn(atoms) : Passes(p, target)}
               scored == {p \in PatternsIn(atoms) :
                            \/ ev.path # None /\ Passes(p, ev.path)
                            \/ ev.socket # None /\ Passes(p, ev.socket)}
    <2>1. ev \in Event /\ OneTarget(ev) /\ IsMatch(r.match)
      BY RulesAssumption, CandidateTypes, RuleTypes DEF LoopInv, TypeOK
    <2>2. evalRule(r, ev) = [matched |-> target # None /\ hits # {},
                             score |-> IF target = None THEN 0 ELSE BestScore(hits)]
      BY Zenon DEF evalRule, evalFastPath
    <2>3. evalCEL(r, ev) = [matched |-> CelHolds(r.match, ev),
                            score |-> IF CelHolds(r.match, ev) THEN BestScore(scored) ELSE 0]
      BY CelAnswer DEF ruleScore
    <2>4. \A a \in atoms : a.on \in GlobFields /\ a.arg \in PatternsIn(atoms)
      <3>1. \A a \in atoms : a.on \in GlobFields
        BY DEF isFastPathExpr, AllAtoms
      <3> QED BY <3>1 DEF PatternsIn
    <2>5. CelHolds(r.match, ev) <=> \E a \in atoms : ev[a.on] \in Covers[a.arg]
      <3>1. CelHolds(r.match, ev) <=> \E a \in atoms : AtomHolds(a, ev)
        BY <2>1, ChainHolds
      <3> QED BY <2>4, <3>1 DEF AtomHolds
    <2>6. target # None => hits = scored
      BY <2>1 DEF scanTarget, OneTarget
    <2>7. \A a \in atoms : ev[a.on] # None => ev[a.on] = target
      BY <2>1, <2>4 DEF scanTarget, OneTarget, GlobFields
    <2>8. \A p \in PatternsIn(atoms) : \E a \in atoms : p = a.arg
      BY DEF PatternsIn
    <2> HIDE DEF r, atoms, target, scored, hits
    <2>9. \A x, y : [matched |-> x, score |-> y].matched = x
      BY Zenon
    <2>10. evalRule(r, ev).matched = (target # None /\ hits # {})
      BY <2>2, <2>9, Zenon
    <2>11. evalCEL(r, ev).matched = CelHolds(r.match, ev)
      BY <2>3, <2>9, Zenon
    <2>12. /\ evalRule(r, ev).score = IF target = None THEN 0 ELSE BestScore(hits)
           /\ evalCEL(r, ev).score = IF CelHolds(r.match, ev) THEN BestScore(scored) ELSE 0
      BY <2>2, <2>3
    <2>13. ASSUME evalRule(r, ev).matched, evalCEL(r, ev).matched
          PROVE  evalRule(r, ev).score = evalCEL(r, ev).score
      <3>1. target # None /\ CelHolds(r.match, ev)
        BY <2>13, <2>10, <2>11
      <3> QED BY <2>6, <2>12, <3>1
    <2>14. ASSUME ~ evalRule(r, ev).matched, evalCEL(r, ev).matched
           PROVE  \E a \in atoms : /\ ev[a.on] \in Covers[a.arg]
                                   /\ ev[a.on] = None \/ ev[a.on] \notin Admits[a.arg]
      <3>1. target = None \/ hits = {}
        BY <2>14, <2>10
      <3>2. PICK a \in atoms : ev[a.on] \in Covers[a.arg]
        BY <2>5, <2>14, <2>11
      <3>3. CASE ev[a.on] # None
        BY <2>4, <2>7, <3>1, <3>2, <3>3 DEF hits, Passes
      <3> QED BY <3>2, <3>3
    <2>15. ASSUME evalRule(r, ev).matched, ~ evalCEL(r, ev).matched
           PROVE  \E a \in atoms : Passes(a.arg, target) /\ ev[a.on] # target
      <3>1. PICK a \in atoms : Passes(a.arg, target)
        BY <2>8, <2>15, <2>10 DEF hits
      <3>2. ev[a.on] \notin Covers[a.arg]
        BY <2>5, <2>15, <2>11
      <3> QED BY <3>1, <3>2 DEF Passes
    <2> QED BY <2>13, <2>14, <2>15 DEF r, atoms, target
  <1> QED BY <1>1, LoopAlways, PTL
=============================================================================
