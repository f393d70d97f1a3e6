--------------------------- MODULE MCProcessTable ---------------------------
(* Four pids over a table of three entries, one exec target that is a       *)
(* symlink to the other, two calls in progress and a depth limit of two.   *)
EXTENDS ProcessTable, TLC

CONSTANTS p1, p2, p3, p4, sh, dash, c1, c2

MCPids == {p1, p2, p3, p4}
(* Orphans are adopted from outside and pids are reused, so any other pid  *)
(* may turn up as a parent.                                                *)
AnyParent == [p \in MCPids |-> (MCPids \ {p}) \cup {Outside}]
(* p1 and p2 are started from outside the sandbox, p3 and p4 by p1.        *)
FixedParent == [p \in MCPids |-> IF p \in {p3, p4} THEN {p1} ELSE {Outside}]
MCPaths == {sh, dash}
MCEvalSymlinks == [x \in MCPaths |-> dash]
MCCalls == {c1, c2}
OneCall == {c1}
Symmetric == Permutations(MCPids) \cup Permutations(MCCalls)
=============================================================================
