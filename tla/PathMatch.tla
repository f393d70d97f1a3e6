------------------------------ MODULE PathMatch -----------------------------
(***************************************************************************)
(* Glob matching of internal/policy/pathmatch.go and the literal prefix of *)
(* internal/policy/engine.go. A path or a pattern is absolute: a sequence  *)
(* of segments, each a sequence of characters. A trailing slash is an      *)
(* empty last segment. Left out: alternatives that nest or hold a slash,   *)
(* ranges in classes, and escapes.                                         *)
(***************************************************************************)
EXTENDS Naturals, Sequences, SequencesExt

Wildcards == {"*", "?"}
Globstar == <<"*", "*">>

TrimRight(p) == IF p # << >> /\ Last(p) = << >> THEN Front(p) ELSE p

(* Where the character c first occurs.                                     *)
IndexOf(g, c) == CHOOSE i \in DOMAIN g : g[i] = c /\ \A j \in 1..(i - 1) : g[j] # c

(* [ab] is one of the characters, [^ab] one of the others.                 *)
ClassHolds(class, c) ==
  IF class # << >> /\ Head(class) \in {"^", "!"}
  THEN c \notin ToSet(Tail(class)) ELSE c \in ToSet(class)

(* The texts between the commas.                                           *)
Alternatives(body) ==
  {SubSeq(body, cut[1] + 1, cut[2] - 1) : cut \in
     {c \in (0..Len(body)) \X (1..(Len(body) + 1)) :
        /\ c[1] < c[2]
        /\ c[1] = 0 \/ body[c[1]] = ","
        /\ c[2] = Len(body) + 1 \/ body[c[2]] = ","
        /\ \A i \in (c[1] + 1)..(c[2] - 1) : body[i] # ","}}

RECURSIVE SegmentMatch(_, _)

(* * is any number of characters, a leading dot too, and ? is one.         *)
SegmentMatch(g, s) ==
  IF g = << >> THEN s = << >>
  ELSE CASE Head(g) = "*" ->
              SegmentMatch(Tail(g), s) \/ (s # << >> /\ SegmentMatch(g, Tail(s)))
         [] Head(g) = "[" ->
              LET end == IndexOf(g, "]")
              IN  /\ s # << >>
                  /\ ClassHolds(SubSeq(g, 2, end - 1), Head(s))
                  /\ SegmentMatch(SubSeq(g, end + 1, Len(g)), Tail(s))
         [] Head(g) = "{" ->
              LET end == IndexOf(g, "}")
              IN  \E alt \in Alternatives(SubSeq(g, 2, end - 1)) :
                    SegmentMatch(alt \o SubSeq(g, end + 1, Len(g)), s)
         [] OTHER ->
              /\ s # << >>
              /\ Head(g) \in {"?", Head(s)}
              /\ SegmentMatch(Tail(g), Tail(s))

RECURSIVE MatchUnvalidated(_, _)

(* ** is any number of whole segments.                                     *)
MatchUnvalidated(g, p) ==
  IF g = << >> THEN p = << >>
  ELSE IF Head(g) = Globstar
  THEN \E k \in 0..Len(p) : MatchUnvalidated(Tail(g), SubSeq(p, k + 1, Len(p)))
  ELSE p # << >> /\ SegmentMatch(Head(g), Head(p)) /\ MatchUnvalidated(Tail(g), Tail(p))

PathMatches(pattern, path) == MatchUnvalidated(TrimRight(pattern), TrimRight(path))

(* The text, with the slash that starts each segment.                      *)
Text(p) == FlattenSeq([i \in 1..Len(p) |-> <<"/">> \o p[i]])

PatternScore(pattern) ==
  Len(SelectSeq(Text(TrimRight(pattern)), LAMBDA c : c \notin Wildcards))

(* The text before the first wildcard, and without the slash before it,    *)
(* since dir/** matches dir. A pattern without a wildcard is its own       *)
(* prefix, together with a trailing slash, and classes and alternatives    *)
(* are not wildcards here.                                                 *)
patternPrefix(pattern) ==
  LET text == Text(pattern)
      wild == {i \in 1..Len(text) : text[i] \in Wildcards}
      first == CHOOSE i \in wild : \A j \in wild : i <= j
      prefix == SubSeq(text, 1, first - 1)
  IN  IF wild = {} THEN text
      ELSE IF Len(prefix) > 1 /\ Last(prefix) = "/" THEN Front(prefix) ELSE prefix

HasPrefix(pattern, path) == IsPrefix(patternPrefix(pattern), Text(path))
=============================================================================
