---------------------------- MODULE MCSupervisor ----------------------------
(* Two versions of a policy over two paths and two processes.              *)
(*   read    version 0 allows a and version 1 denies it with an errno of   *)
(*           its own and no audit record; b is for git only                *)
(*   write   a is allowed for everyone, b for git only                     *)
(*   exec    version 0 decides by target, version 1 allows every exec      *)
EXTENDS Supervisor

CONSTANTS n1, n2, a, b, none, git, sh, blank, r1

MCTargets == {a, b}
MCActions == {"read", "write", "exec"}
MCContexts == {git, sh}

Rule(allow, errno, audit) ==
  [allow |-> allow, ruled |-> TRUE, errno |-> errno, audit |-> audit]
NoRule == [allow |-> FALSE, ruled |-> FALSE, errno |-> FALSE, audit |-> TRUE]

ForGit(t, c) == IF t = a \/ c = git THEN Rule(TRUE, FALSE, TRUE) ELSE NoRule

MCDecide(e, act, t, c) ==
  CASE act = "read" /\ t = a -> IF e = 0 THEN Rule(TRUE, FALSE, FALSE)
                                ELSE Rule(FALSE, TRUE, FALSE)
    [] act = "read" /\ t = b -> ForGit(b, c)
    [] act = "write" -> ForGit(t, c)
    [] act = "exec" -> IF e = 1 \/ t = a THEN Rule(TRUE, FALSE, TRUE)
                       ELSE Rule(FALSE, FALSE, TRUE)

MCCacheable(e, act, t) == act = "exec" \/ t = a
MCNeedsContext(e, act, t) == ~ MCCacheable(e, act, t)
MCUnconditional(e, act) == e = 1 /\ act = "exec"

Plain(act, t, s, who) ==
  [form |-> "plain", action |-> act, target |-> t, second |-> s,
   mkdir |-> FALSE, who |-> who]

MCRequests ==
  {Plain("read", a, none, sh),
   Plain("write", a, b, sh),
   Plain("write", a, b, git),
   Plain("exec", a, none, sh),
   Plain("exec", b, none, sh),
   [Plain("write", b, none, sh) EXCEPT !.mkdir = TRUE],
   [Plain("exec", a, none, sh) EXCEPT !.form = "empty"],
   [Plain("read", a, none, sh) EXCEPT !.form = "unresolved"]}

(* One event, seen twice around an edit that turns its verdict.            *)
OneRequest == {Plain("read", a, none, sh)}

(* The policies of the run are among those the engine analyses rightly.    *)
ASSUME EngineFacts == EngineIsSound

MCReloads == {r1}
MCNotifs == {n1, n2}
=============================================================================
