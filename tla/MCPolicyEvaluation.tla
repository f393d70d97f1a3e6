------------------------- MODULE MCPolicyEvaluation -------------------------
(* Two files, /a/x and /a/x/y, the socket /a/z, and six patterns: /a/*,    *)
(* /a/? and /a/** with equal scores, the literal /a/x with a higher one,   *)
(* the same with a trailing slash, and /**. The literal prefix of /a/x/    *)
(* rejects /a/x, which the pattern covers, because PathMatch trims         *)
(* trailing slashes and patternPrefix does not. /** covers every path and  *)
(* the empty string, which is what trimming leaves of the root directory.  *)
EXTENDS PolicyEvaluation, PathMatch

CONSTANTS ax, axy, az, none, c1, c2, nokey

PathOf(t) ==
  CASE t = none -> << >>
    [] t = ax -> << <<"a">>, <<"x">> >>
    [] t = axy -> << <<"a">>, <<"x">>, <<"y">> >>
    [] t = az -> << <<"a">>, <<"z">> >>
Glob ==
  [star |-> << <<"a">>, <<"*">> >>, one |-> << <<"a">>, <<"?">> >>,
   deep |-> << <<"a">>, Globstar >>, lit |-> << <<"a">>, <<"x">> >>,
   slash |-> << <<"a">>, <<"x">>, << >> >>, all |-> <<Globstar>>]

MCTargets == {ax, axy, az}
MCPatterns == DOMAIN Glob
MCCovers ==
  [star |-> {ax, az}, one |-> {ax, az}, deep |-> {ax, axy, az}, lit |-> {ax},
   slash |-> {ax}, all |-> {ax, axy, az, none}]
MCAdmits == [p \in MCPatterns |-> CASE p = "lit" -> {ax, axy}
                                   [] p = "slash" -> {axy}
                                   [] OTHER -> MCTargets]
MCScore == [p \in MCPatterns |-> CASE p \in {"lit", "slash"} -> 4
                                  [] p = "all" -> 1
                                  [] OTHER -> 3]
MCContexts == {c1, c2, nokey}
MCUnreadable == {nokey}

(* The parameters above are what the code computes. Further, for all paths *)
(* and patterns of up to three segments over two names, one of them        *)
(* hidden, and the wildcards: the literal prefix of a pattern rejects no   *)
(* path it matches, dir/** matches dir, and a pattern without wildcards    *)
(* matches only itself.                                                    *)
Names == {<<"x">>, <<".", "x">>}
Segments == Names \cup {<<"*">>, <<"?">>, <<"x", "*">>, Globstar}
UpTo3(segs) == UNION {[1..n -> segs] : n \in 1..3}

ASSUME GlobFacts ==
  /\ \A p \in MCPatterns :
       /\ MCCovers[p] = {t \in MCTargets \cup {none} : PathMatches(Glob[p], PathOf(t))}
       /\ MCAdmits[p] = {t \in MCTargets \cup {none} : HasPrefix(Glob[p], PathOf(t))}
       /\ MCScore[p] = PatternScore(Glob[p])
  /\ \A g \in UpTo3(Segments), p \in UpTo3(Names) : PathMatches(g, p) => HasPrefix(g, p)
  /\ \A p \in UpTo3(Names) : PathMatches(Append(p, Globstar), p)
  /\ \A p, q \in UpTo3(Names) : PathMatches(p, q) <=> p = q

(* Not so for the class [xy] and the alternatives {x,y}, whose prefix is   *)
(* their text: each matches x and the prefix rejects it, and the class     *)
(* does not even match a file of its own name.                             *)
Class == << <<"[", "x", "y", "]">> >>
Braces == << <<"{", "x", ",", "y", "}">> >>

ASSUME PrefixLimits ==
  /\ \A g \in {Class, Braces}, c \in {"x", "y"} :
       PathMatches(g, << <<c>> >>) /\ ~ HasPrefix(g, << <<c>> >>)
  /\ \A g \in {Class, Braces} : ~ PathMatches(g, g) /\ ~ PathMatches(g, << <<"z">> >>)

Star == [on |-> "path", arg |-> "star"]
One == [on |-> "path", arg |-> "one"]
Deep == [on |-> "path", arg |-> "deep"]
Lit == [on |-> "path", arg |-> "lit"]
Slash == [on |-> "path", arg |-> "slash"]
Sock == [on |-> "socket", arg |-> "one"]
Proc1 == [on |-> "process", arg |-> c1]
Proc2 == [on |-> "process", arg |-> c2]
Sys == [on |-> "syscall", arg |-> c1]
Box == [on |-> "sandbox", arg |-> c1]

Expr(factors, ops) == [factors |-> factors, ops |-> ops]

(* The last one, /a/x && process c1 || process c2, has both operators at   *)
(* one level, so the loader rejects it.                                    *)
Matches ==
  {Expr(<< >>, << >>),
   Expr(<<{Star}>>, << >>),
   Expr(<<{Star}, {Lit}>>, <<"or">>),
   Expr(<<{Slash}>>, << >>),
   Expr(<<{Sock}>>, << >>),
   Expr(<<{Proc1}, {One}>>, <<"and">>),
   Expr(<<{One, Lit}, {Proc2}>>, <<"and">>),
   Expr(<<{Proc1}, {Lit}>>, <<"or">>),
   Expr(<<{Sys}, {Lit}>>, <<"and">>),
   Expr(<<{Box}, {Deep}>>, <<"and">>),
   Expr(<<{Lit}, {Proc1}, {Proc2}>>, <<"and", "or">>)}

MCRules == [verdict : {"allow", "deny"}, match : Matches]

(* family == c1, the shape of the rule in examples/reads.yaml.             *)
FamilyRules ==
  [verdict : {"allow", "deny"},
   match : {Expr(<<{[on |-> "other", arg |-> c1]}>>, << >>)}]

(* Connect events of two address families whose decoded form names no      *)
(* socket and no host: AF_NETLINK and AF_VSOCK, for example.               *)
FamilyEvents ==
  [path : {none}, socket : {none}, host : {none}, process : {c1, c2},
   sandbox : {c1}, syscall : {c1, c2}, other : {c1, c2}]

(* process c1 && pathMatch(socket, "/**"): c1 and any socket in the file   *)
(* system.                                                                 *)
SocketRules ==
  [verdict : {"allow", "deny"},
   match : {Expr(<<{Proc1}, {[on |-> "socket", arg |-> "all"]}>>, <<"and">>)}]

(* Connects to a host, which no pattern covers. The socket is empty.       *)
HostEvents ==
  [path : {none}, socket : {none}, host : {"host:port"}, process : {c1, c2},
   sandbox : {c1}, syscall : {c1, c2}, other : {c1}]

(* process c1 && pathMatch(path, "/a/x/").                                 *)
SlashRules ==
  [verdict : {"allow", "deny"}, match : {Expr(<<{Proc1}, {Slash}>>, <<"and">>)}]

(* File events set the path, by processes one of which a rule on the       *)
(* process cannot read. Connects set the socket. The socket is at no path  *)
(* of the file events, whose actions are others.                           *)
FileEvents(process, syscall) ==
  [path : {ax, axy}, socket : {none}, host : {none}, process : process,
   sandbox : {c1}, syscall : syscall, other : {c1}]
SocketEvents ==
  [path : {none}, socket : {az}, host : {none}, process : {c1, c2},
   sandbox : {c1}, syscall : {c1}, other : {c1}]
MCEvents ==
  FileEvents({c1, c2}, {c1, c2}) \cup FileEvents({nokey}, {c1}) \cup SocketEvents

(* What the proofs about the analysis suppose holds of these instances.    *)
ASSUME AnalysisFacts == PatternsSound(MCRules) /\ TargetDetermines(MCEvents)

GateFails(r, e) ==
  /\ requiredPatterns(r.match) # {}
  /\ \A p \in requiredPatterns(r.match) : ~ Passes(p, cacheTarget(e))

(* And why it is supposed: the rule on any socket matches a connect to a   *)
(* host although its gate fails, because pathMatch takes the empty socket  *)
(* for the root directory; the rule with a trailing slash matches /a/x     *)
(* although its gate fails.                                                *)
ASSUME AnalysisLimits ==
  /\ \E r \in SocketRules, e \in HostEvents : evalRule(r, e).matched /\ GateFails(r, e)
  /\ \E r \in SlashRules, e \in MCEvents : evalRule(r, e).matched /\ GateFails(r, e)

(* The pattern scan differs from CEL for a path rule on a connect and for  *)
(* a trailing slash.                                                       *)
ASSUME ScanLimits ==
  \A a \in {Star, Slash} : \E r \in MCRules, e \in MCEvents :
    r.match = Expr(<<{a}>>, << >>) /\ evalRule(r, e).matched # evalCEL(r, e).matched

(* A CEL error denies nothing by itself: with an allow rule that the error *)
(* does not touch, the process that cannot be read is let through          *)
(* (engine.go:619-622).                                                    *)
ASSUME ErrorLimits ==
  \E r, q \in MCRules, e \in MCEvents :
    CelFails(q.match, e) /\ q.verdict = "deny" /\ ModelVerdict(<<r, q>>, e) = "allow"
=============================================================================
