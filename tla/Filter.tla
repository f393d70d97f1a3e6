------------------------------- MODULE Filter -------------------------------
(***************************************************************************)
(* The seccomp filter of internal/seccomp/filter.go: the list of           *)
(* intercepted syscalls, the BPF program BuildFilter makes of it, and the  *)
(* machine that runs it. A syscall number is a name and the x32 bit, so    *)
(* numbers of the x32 ABI differ from all of the program's constants.      *)
(***************************************************************************)
EXTENDS Naturals, Sequences, SequencesExt

InterceptedSyscalls ==
  <<"open", "openat", "openat2", "unlink", "unlinkat", "rmdir", "rename", "renameat",
    "renameat2", "truncate", "mkdir", "mkdirat", "chmod", "fchmodat", "chown",
    "fchownat", "execve", "execveat", "connect">>

DeniedSyscalls == <<"io_uring_setup">>

(* Jump offsets are eight bits wide.                                       *)
uint8(n) == n % 256

Nr(call) == [call |-> call, x32 |-> FALSE]

Load(what) == [op |-> "ld", k |-> what, jt |-> 0, jf |-> 0]
Jump(op, k, jt, jf) == [op |-> op, k |-> k, jt |-> jt, jf |-> jf]
Ret(what) == [op |-> "ret", k |-> what, jt |-> 0, jf |-> 0]

(* Compare with each syscall; a match falls into the return after it.      *)
Block(calls, what) ==
  [j \in 1..(2 * Len(calls)) |->
     IF j % 2 = 1 THEN Jump("jeq", Nr(calls[(j + 1) \div 2]), 0, 1) ELSE Ret(what)]

(* Mutant: the jump over the program is one short.                         *)
BuildShortJump ==
  LET pairs == 2 * Len(InterceptedSyscalls) + 2 * Len(DeniedSyscalls)
  IN  <<Load("arch"), Jump("jeq", "x86_64", 0, uint8(1 + pairs)),
        Load("nr"), Jump("jset", "x32", uint8(pairs), 0)>>
        \o Block(InterceptedSyscalls, "USER_NOTIF") \o Block(DeniedSyscalls, "ENOSYS")
        \o <<Ret("ALLOW")>>

BuildFilter ==
  LET pairs == 2 * Len(InterceptedSyscalls) + 2 * Len(DeniedSyscalls)
  IN  <<Load("arch"), Jump("jeq", "x86_64", 0, uint8(1 + 1 + pairs)),
        Load("nr"), Jump("jset", "x32", uint8(pairs), 0)>>
        \o Block(InterceptedSyscalls, "USER_NOTIF") \o Block(DeniedSyscalls, "ENOSYS")
        \o <<Ret("ALLOW")>>

(* The kernel's BPF machine: one instruction. Jumps are forward, so the    *)
(* program ends after as many as it has.                                   *)
Cycle(m, data) ==
  LET i == BuildFilter[m.pc]
      taken == IF i.op = "jeq" THEN m.acc = i.k ELSE m.acc.x32
  IN  IF m.result # "none" THEN m
      ELSE CASE i.op = "ret" -> [m EXCEPT !.result = i.k]
             [] i.op = "ld" -> [m EXCEPT !.pc = @ + 1, !.acc = data[i.k]]
             [] OTHER -> [m EXCEPT !.pc = @ + 1 + (IF taken THEN i.jt ELSE i.jf)]

FilterVerdict(data) ==
  LET run[n \in 0..Len(BuildFilter)] ==
        IF n = 0 THEN [pc |-> 1, acc |-> Nr("none"), result |-> "none"]
        ELSE Cycle(run[n - 1], data)
  IN  run[Len(BuildFilter)].result
=============================================================================
