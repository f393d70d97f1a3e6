------------------------------ MODULE MCSession -----------------------------
(* Three daemons, so that one SIGCHLD can stand for several deaths, and a  *)
(* command that succeeds or fails.                                         *)
EXTENDS Session

CONSTANTS d1, d2, d3, cmd

MCDaemons == {d1, d2, d3}
MCStatuses == {0, 1}
=============================================================================
