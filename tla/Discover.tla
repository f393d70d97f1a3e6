------------------------------ MODULE Discover ------------------------------
(***************************************************************************)
(* Policy generation of internal/discover/discover.go: from the denials of *)
(* a session to allow rules whose patterns cover them.                     *)
(*                                                                         *)
(* The code works on text. Here a text is the sequence of the components   *)
(* it stands for, each marked with how it is written: behind a slash ("/") *)
(* or inside of a variable. With /home/u as the home directory,            *)
(* /home/u/x is $HOME/x: home and u are inside of $HOME, x is behind a     *)
(* slash. Likewise /mnt/home/u/x is /mnt$HOME/x, and /home/u2/x is         *)
(* $HOME2/x, whose variable is another one ("?"). Rule names and the YAML  *)
(* text are left out, and so are empty or root directories as HomeDir or   *)
(* WorkDir.                                                                *)
(***************************************************************************)
EXTENDS Naturals, Sequences, FiniteSets, SequencesExt

CONSTANTS
  HomeDir, WorkDir,      \* paths
  Rest,                  \* pairs of names, the second with more text behind the first:
                         \* "ident" if letters, digits and _, "other" if it begins otherwise
  OddNames,              \* names a pattern reads as something else: [x], {x}, $x
  ProbeNames,            \* names that look like _tmp_<pid>_<random>
  PidNames,              \* names that are numbers
  BaseRead, BaseWrite,   \* directories the base policy grants
  siblingThreshold       \* 5 in the code

ASSUME DiscoverAssumption ==
  HomeDir \in Seq(STRING) \ {<< >>} /\ WorkDir \in Seq(STRING) \ {<< >>}

(* root is "plain" if the text is what seg says, "//" if there is one more *)
(* slash in front, and "." for the parent of a text without a slash.       *)
Pattern(root, seg, deep) == [root |-> root, seg |-> seg, deep |-> deep]

Written(p, how) == [i \in DOMAIN p |-> [name |-> p[i], in |-> how]]
Plain(p) == Written(p, "/")
Slashes(seg) == {i \in DOMAIN seg : seg[i].in = "/"}

(* The text of dir and a slash is a prefix of that of seg.                 *)
Under(dir, seg) ==
  /\ Len(seg) > Len(dir)
  /\ SubSeq(seg, 1, Len(dir)) = dir
  /\ seg[Len(dir) + 1].in = "/"

IsProbeTemp(p) == p # << >> /\ Last(p) \in ProbeNames

(* A probe in the root directory is dropped, any other becomes _tmp_*.     *)
Generalize(p) == IF IsProbeTemp(p) THEN Append(Front(p), "_tmp_*") ELSE p

(* The text of dir begins behind the first j components of seg; its last   *)
(* name may be the beginning of a longer one.                              *)
Occurs(dir, seg, j) ==
  /\ j + Len(dir) <= Len(seg)
  /\ \A i \in 1..Len(dir) :
       /\ seg[j + i].in = "/"
       /\ \/ seg[j + i].name = dir[i]
          \/ i = Len(dir) /\ <<dir[i], seg[j + i].name>> \in DOMAIN Rest

(* strings.Replace of one occurrence.                                      *)
Replace(seg, dir, var) ==
  LET at == {j \in 0..Len(seg) : Occurs(dir, seg, j)}
      j == CHOOSE k \in at : \A l \in at : k <= l
      runs == <<Last(dir), seg[j + Len(dir)].name>>
      mark == IF runs \in DOMAIN Rest /\ Rest[runs] = "ident" THEN "?" ELSE var
  IN  IF at = {} THEN seg
      ELSE [i \in DOMAIN seg |->
              IF i \in (j + 1)..(j + Len(dir)) THEN [name |-> seg[i].name, in |-> mark]
              ELSE seg[i]]

(* /proc/<pid>/ is any process.                                            *)
AnyPid(seg) ==
  IF Len(seg) > 2 /\ {1, 2, 3} \subseteq Slashes(seg)
     /\ seg[1].name = "proc" /\ seg[2].name \in PidNames
  THEN [seg EXCEPT ![2] = [name |-> "*", in |-> "/"]]
  ELSE seg

normalizePath(p) ==
  Pattern("plain", AnyPid(Replace(Replace(Plain(p), WorkDir, "$WORKDIR"), HomeDir, "$HOME")), FALSE)

(* Paths the shared base policy covers.                                    *)
isBasePath(n, action) ==
  LET work == Written(WorkDir, "$WORKDIR")
  IN  \/ n.seg \in {<< >>, Written(HomeDir, "$HOME"), work}
      \/ n.seg \in {Plain(<<"home">>), Plain(<<"tmp">>), Plain(<<"dev", "null">>)}
      \/ Under(work, n.seg)
      \/ action = "read" /\ \E d \in BaseRead : Under(Plain(d), n.seg)
      \/ action \in {"write", "delete"} /\ \E d \in BaseWrite : Under(Plain(d), n.seg)

(* The normalised paths of one action that need a rule.                    *)
Wanted(records, action) ==
  {n \in {normalizePath(Generalize(r.path)) :
            r \in {s \in records : /\ s.action = action
                                   /\ s.verdict = "deny"
                                   /\ ~ s.unresolved
                                   /\ ~ (IsProbeTemp(s.path) /\ Len(s.path) = 1)}} :
     ~ isBasePath(n, action)}

-----------------------------------------------------------------------------
(* globForPath: a path of three or more parts becomes a glob for the first *)
(* two, behind $HOME/ or a slash. A text that begins with another variable *)
(* has that as its first part, and gets a slash in front.                  *)
Rooted(seg) == seg[1].in = "/" \/ Under(Written(HomeDir, "$HOME"), seg)
PartStarts(seg) == Slashes(seg) \cup IF Rooted(seg) THEN {} ELSE {1}
ThirdOn(seg) == {k \in PartStarts(seg) : \E i, j \in PartStarts(seg) : i < j /\ j < k}

globForPath(n) ==
  LET third == CHOOSE k \in ThirdOn(n.seg) : \A l \in ThirdOn(n.seg) : k <= l
  IN  IF ThirdOn(n.seg) = {} THEN n
      ELSE Pattern(IF Rooted(n.seg) THEN "plain" ELSE "//", SubSeq(n.seg, 1, third - 1), TRUE)

(* filepath.Dir: the text before the last slash.                           *)
ParentOf(n) ==
  LET last == CHOOSE k \in Slashes(n.seg) : \A l \in Slashes(n.seg) : k >= l
  IN  IF Slashes(n.seg) = {} THEN Pattern(".", << >>, FALSE)
      ELSE Pattern("plain", SubSeq(n.seg, 1, last - 1), FALSE)

(* Parents of many exact paths.                                            *)
promoted(exact) ==
  {p \in {ParentOf(n) : n \in exact} :
     Cardinality({n \in exact : ParentOf(n) = p}) >= siblingThreshold}

(* The glob of a promoted parent: "//**" for "/", "./**" for ".".          *)
GlobOf(p) ==
  Pattern(IF p.root = "plain" /\ p.seg = << >> THEN "//" ELSE p.root, p.seg, TRUE)

(* Mutant: an exact pattern counts as a directory.                         *)
coveredByAny(broader, n) ==
  /\ broader # n
  /\ broader.root = n.root
  /\ Under(broader.seg, n.seg)

coveredBy(broader, n) ==
  /\ broader # n
  /\ broader.deep
  /\ broader.root = n.root
  /\ Under(broader.seg, n.seg)

Globs(wanted) == {globForPath(n) : n \in wanted}
Exact(wanted) == {n \in Globs(wanted) : ~ n.deep}

collapseToGlobs(wanted) ==
  LET exact == Exact(wanted)
      dirs == {n \in Globs(wanted) : n.deep}
                \cup {GlobOf(p) : p \in promoted(exact)}
                \cup {n \in exact : ParentOf(n) \notin promoted(exact)}
  IN  {n \in dirs : \A b \in dirs : ~ coveredBy(b, n)}

FileActions == {"read", "write", "delete", "metadata"}

(* GeneratePolicy: one rule for all actions with the same patterns         *)
(* (mergeActions), and none for exec and connect.                          *)
GeneratePolicy(records) ==
  LET globs == [a \in FileActions |-> collapseToGlobs(Wanted(records, a))]
  IN  {[actions |-> {b \in FileActions : globs[b] = globs[a]}, globs |-> globs[a]] :
         a \in {b \in FileActions : globs[b] # {}}}

-----------------------------------------------------------------------------
(* The rules as the loader and the engine read them, with HOME and WORKDIR *)
(* as they were: variables are expanded, an unknown one to nothing, * and  *)
(* _tmp_* stand for one component, ** for any number.                      *)

Misread(seg) == \E i \in DOMAIN seg : seg[i].in = "?"

Expand(n) ==
  LET known == IF Misread(n.seg) THEN SelectSeq(n.seg, LAMBDA c : c.in # "?") ELSE n.seg
  IN  [i \in DOMAIN known |-> known[i].name]

SameComponent(g, c) ==
  (g = c /\ c \notin OddNames) \/ g = "*" \/ (g = "_tmp_*" /\ c \in ProbeNames)

Matches(n, p) ==
  LET g == Expand(n)
  IN  /\ n.root = "plain"
      /\ IF n.deep THEN Len(p) >= Len(g) ELSE Len(p) = Len(g)
      /\ \A i \in 1..Len(g) : SameComponent(g[i], p[i])

(* lintUnanchored: a pattern must begin with a slash.                      *)
Unanchored(n) == n.root = "." \/ (n.root = "plain" /\ ~ n.deep /\ Expand(n) = << >>)

(* One pattern that is not anchored, and the file is not loaded.           *)
Loads(policy) == \A rule \in policy : \A g \in rule.globs : ~ Unanchored(g)

AllowedBy(policy, action, p) ==
  /\ Loads(policy)
  /\ \E rule \in policy : action \in rule.actions /\ \E g \in rule.globs : Matches(g, p)

-----------------------------------------------------------------------------
(* What a generated policy may not allow although it was recorded: a path  *)
(* whose variable is another one, or ends up behind a second slash; one    *)
(* with a name that is no pattern for itself; and one directly in "/" when *)
(* that is promoted.                                                       *)
Lost(n, wanted) ==
  LET g == globForPath(n)
  IN  \/ g.root = "//"
      \/ Misread(g.seg)
      \/ \E i \in DOMAIN g.seg : g.seg[i].name \in OddNames
      \/ Slashes(n.seg) = {1} /\ ParentOf(n) \in promoted(Exact(wanted))
=============================================================================
