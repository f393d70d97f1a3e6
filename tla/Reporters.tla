------------------------------ MODULE Reporters -----------------------------
(* The HandleSyscall goroutines as the reporting code sees them: each has  *)
(* one decision to count and to log.                                       *)
CONSTANTS
  Handlers,  \* the goroutines
  Denied     \* those whose decision is a denial

ASSUME ReportersAssumption == Denied \subseteq Handlers
=============================================================================
