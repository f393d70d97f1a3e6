------------------------------ MODULE Resolve -------------------------------
(***************************************************************************)
(* Path resolution of internal/supervisor/resolve.go. A path is a sequence *)
(* of components, and an argument says besides whether it is absolute; a   *)
(* slash at its end is a last component ".". The file system is a set of   *)
(* directories and symbolic links; every other name is a file or does not  *)
(* exist.                                                                  *)
(***************************************************************************)
EXTENDS Naturals, Sequences, SequencesExt

CONSTANTS
  Dirs,     \* directories, by their canonical path
  Links,    \* symbolic links: canonical path -> where following it ends
  OwnPids,  \* names of the target under /proc: its thread and process id
  NoDir     \* a walk that failed

(* A link leads to a directory, to a file or to a name that does not       *)
(* exist. A chain of links is given by its end, which is no link; one that *)
(* has no end is left out.                                                 *)
ASSUME ResolveAssumption ==
  /\ NoDir \notin Seq(STRING)
  /\ Dirs \subseteq Seq(STRING) /\ DOMAIN Links \subseteq Seq(STRING)
  /\ << >> \in Dirs
  /\ \A p \in Dirs \cup DOMAIN Links : p # << >> => Front(p) \in Dirs
  /\ \A p \in DOMAIN Links :
       p \notin Dirs /\ Links[p] \in Seq(STRING) /\ Links[p] \notin DOMAIN Links

Parent(p) == IF p = << >> THEN p ELSE Front(p)

(* filepath.Clean of an absolute path: ".." is removed together with the   *)
(* component before it, whatever that is.                                  *)
CleanStep(done, c) ==
  IF c = "." THEN done
  ELSE IF c = ".." THEN Parent(done)
  ELSE Append(done, c)

Clean(p) ==
  LET done[k \in 0..Len(p)] ==
        IF k = 0 THEN << >> ELSE CleanStep(done[k - 1], p[k])
  IN  done[Len(p)]

(* The kernel's walk to a directory, and where it is after k components.   *)
Follow(p) == IF p \in DOMAIN Links THEN Links[p] ELSE p

WalkStep(dir, c) ==
  LET p == Follow(Append(dir, c))
  IN  IF dir = NoDir THEN NoDir
      ELSE IF c = "." THEN dir
      ELSE IF c = ".." THEN Parent(dir)
      ELSE IF p \in Dirs THEN p
      ELSE NoDir

Walk(p) ==
  LET at[k \in 0..Len(p)] == IF k = 0 THEN << >> ELSE WalkStep(at[k - 1], p[k])
  IN  at

(* Mutant: an unresolved directory is left as it is.                       *)
canonicalizeWholeDir(dir) ==
  IF Walk(dir)[Len(dir)] = NoDir THEN dir ELSE Walk(dir)[Len(dir)]

(* canonicalizeDir: the longest ancestor the kernel can open (by           *)
(* kernelResolveDir and openPathDir), then the components that are left.   *)
canonicalizeDir(dir) ==
  LET opens == {k \in 0..Len(dir) : Walk(dir)[k] # NoDir}
      longest == CHOOSE k \in opens : \A j \in opens : j <= k
  IN  Walk(dir)[longest] \o SubSeq(dir, longest + 1, Len(dir))

CanonicalizePath(p) ==
  LET cleaned == Clean(p)
  IN  IF cleaned = << >> THEN << >>
      ELSE Append(canonicalizeDir(Front(cleaned)), Last(cleaned))

(* normalizeProcPath: names of the target's own process become /proc/self. *)
IsProcPath(p) ==
  LET c == Clean(p)
  IN  \/ Len(c) >= 2 /\ c[1] = "dev" /\ c[2] = "fd"
      \/ Len(c) >= 2 /\ c[1] = "proc"

normalizeProcPath(p) ==
  LET c == Clean(p)
      tail == SubSeq(c, 3, Len(c))
  IN  IF c[1] = "dev" THEN <<"proc", "self", "fd">> \o tail
      ELSE IF c[2] \in {"self", "thread-self"} \cup OwnPids THEN <<"proc", "self">> \o tail
      ELSE c

CanonicalizePathForPid(p) ==
  IF IsProcPath(p) THEN normalizeProcPath(p) ELSE CanonicalizePath(p)
=============================================================================
