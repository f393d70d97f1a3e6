------------------------------ MODULE Decoder -------------------------------
(***************************************************************************)
(* Decode of internal/supervisor/decoder.go: what a notification becomes.  *)
(* The target is blocked in its syscall while its memory and its links     *)
(* under /proc are read, but a signal can interrupt it and its pid can be  *)
(* reused at any moment, so reads stand between two ID_VALID checks. Each  *)
(* check and each read is a step.                                          *)
(*                                                                         *)
(* Every value carries the process it was read from. The target's own      *)
(* values are those of the request. What a resumed target or another       *)
(* process shows is unknown, here some absolute path.                      *)
(*                                                                         *)
(* Left out: the bytes of strings and socket addresses, the retry of a     *)
(* /proc link under the thread group leader, and the reasons for the log.  *)
(***************************************************************************)
EXTENDS Integers, Sequences

CONSTANTS
  Width,    \* bits of an int: 32 in the code
  AtFdcwd,  \* AT_FDCWD, a negative int: -100 in the code
  Cwd,      \* the target's working directory
  FdTable,  \* the target's open files: fd -> [is, seg]
  MaxAddr,  \* most bytes of an address that are read: PATH_MAX + 2 in the code
  NoName,   \* no socket and no host
  Other     \* a path read from a process that is not blocked in the call

(* An int has a sign bit, and AT_FDCWD is an int. A link under /proc is an *)
(* absolute path.                                                          *)
ASSUME DecoderAssumption ==
  /\ Width \in Nat \ {0}
  /\ 2^Width = 2 * 2^(Width - 1) /\ 2^(Width - 1) \in Nat \ {0}
  /\ AtFdcwd \in Int /\ MaxAddr \in Nat
  /\ Cwd \in Seq(STRING) /\ Other \in Seq(STRING)
  /\ \A fd \in DOMAIN FdTable : FdTable[fd].seg \in Seq(STRING)

VARIABLES
  req,    \* the request
  owner,  \* what the pid names now: "target", "resumed", "other" or "gone"
  plan,   \* the reads that are left
  sub,    \* where the first of them is: "check", "read" or "recheck"
  tmp,    \* the value read
  strs,   \* path arguments read
  ev      \* the event so far

decoderVars == <<req, owner, plan, sub, tmp, strs, ev>>

-----------------------------------------------------------------------------
(* The cases of Decode.                                                    *)

OpenCalls == {"open", "openat", "openat2"}
DeleteCalls ==
  {"unlink", "rmdir", "unlinkat", "rename", "renameat", "renameat2", "truncate"}
WriteCalls == {"mkdir", "mkdirat"}
MetadataCalls == {"chmod", "fchmodat", "chown", "fchownat"}
ExecCalls == {"execve", "execveat"}
TwoPaths == {"rename", "renameat", "renameat2"}
AtCalls ==
  {"openat", "openat2", "unlinkat", "renameat", "renameat2", "mkdirat", "fchmodat",
   "fchownat", "execveat"}

PathCalls == OpenCalls \cup DeleteCalls \cup WriteCalls \cup MetadataCalls \cup ExecCalls

openAction(write) == IF write THEN "write" ELSE "read"

(* A call that has no case is a read of nothing.                           *)
ActionOf(call, write) ==
  CASE call \in OpenCalls -> openAction(write)
    [] call \in DeleteCalls -> "delete"
    [] call \in WriteCalls -> "write"
    [] call \in MetadataCalls -> "metadata"
    [] call \in ExecCalls -> "exec"
    [] call = "connect" -> "connect"
    [] OTHER -> "read"

PathCount(call) == IF call \notin PathCalls THEN 0 ELSE IF call \in TwoPaths THEN 2 ELSE 1

Bad == [is |-> "bad", abs |-> FALSE, seg |-> << >>]

Ops(do, n) == [i \in 1..n |-> [do |-> do, arg |-> i]]

(* The register an int argument arrives in: the caller fills the low half, *)
(* and leaves anything in the high half.                                   *)
Register(d) == (d.int % 2^Width) + d.high * 2^Width

(* dirfdArg: the low half of the register, as a signed number.             *)
dirfdArg(v) ==
  LET low == v % 2^Width
  IN  IF low >= 2^(Width - 1) THEN low - 2^Width ELSE low

Dirfd(i) == IF req.call \in AtCalls THEN dirfdArg(Register(req.dirfd[i])) ELSE AtFdcwd

(* The length of an address is the whole register, signed, up to MaxAddr.  *)
addrLen(a) ==
  LET whole == (a.len.int % 2^Width) + dirfdArg(a.len.high) * 2^Width
  IN  IF whole > MaxAddr THEN MaxAddr ELSE whole

(* parseSockaddr: an address that is too short for its family names no     *)
(* target, and neither do families other than these. With more or fewer    *)
(* bytes than the caller means, the name may be another one.               *)
parseSockaddr(a) ==
  LET least == CASE a.family = "AF_INET" -> 8
                 [] a.family = "AF_INET6" -> 28
                 [] a.family = "AF_UNIX" -> 3
                 [] OTHER -> addrLen(a) + 1
  IN  [family |-> a.family,
       name |-> IF addrLen(a) < least THEN NoName
                ELSE IF addrLen(a) = a.len.int THEN a.name
                ELSE a.nameOfOther]

(* The reads of one call: all path arguments, then the open_how of openat2 *)
(* or the address of connect, then what makes the paths absolute. An       *)
(* address shorter than its family field is not read.                      *)
PlanOf(r) ==
  Ops("string", PathCount(r.call))
    \o (IF \/ r.call = "openat2"
           \/ r.call = "connect" /\ r.bytes.is # "null" /\ addrLen(r.addr) >= 2
        THEN Ops("bytes", 1) ELSE << >>)
    \o Ops("resolve", PathCount(r.call))

(* What the pointer to an open_how or an address shows: an address is read *)
(* in full or not at all.                                                  *)
BytesOf(r) ==
  IF r.call = "connect" /\ r.addr.mapped < addrLen(r.addr) THEN Bad ELSE r.bytes

(* The arguments of a call: a path as the target means it, a null pointer  *)
(* or one that cannot be read; for the calls on a directory fd an int and  *)
(* what is in the other half of its register; for connect such a length    *)
(* and the number of bytes that can be read at the address.                *)
Arg == [is : {"path", "null", "bad"}, abs : BOOLEAN, seg : Seq(STRING)]

IsInt(d) ==
  /\ d.int \in (-(2^(Width - 1)))..(2^(Width - 1) - 1)
  /\ d.high \in Nat

IsRequest(r) ==
  /\ r.path \in Seq(Arg) /\ Len(r.path) = PathCount(r.call)
  /\ r.x32 \in BOOLEAN /\ r.write \in BOOLEAN /\ r.emptyPath \in BOOLEAN
  /\ r.nofollow \in BOOLEAN
  /\ r.emptyPath => r.call = "execveat"
  /\ r.bytes \in Arg
  /\ r.addr.family \in STRING /\ r.addr.mapped \in Nat /\ IsInt(r.addr.len)
  /\ r.call \in AtCalls => \A i \in 1..PathCount(r.call) : IsInt(r.dirfd[i])

-----------------------------------------------------------------------------
(* What a read returns now.                                                *)

CheckValid == owner = "target"

EmptyString == [is |-> "path", abs |-> FALSE, seg |-> << >>]
Foreign == [is |-> "path", abs |-> TRUE, seg |-> Other]
ReadMemory(own) ==
  CASE owner = "gone" -> Bad
    [] owner \in {"resumed", "other"} -> Foreign
    [] OTHER -> own

(* readProcLink of a file descriptor: sockets and deleted directories are  *)
(* no paths.                                                               *)
FdLink(fd) ==
  IF fd < 0 \/ fd \notin DOMAIN FdTable \/ FdTable[fd].is # "path" THEN Bad
  ELSE [is |-> "path", abs |-> TRUE, seg |-> FdTable[fd].seg]

(* targetBaseDir: what a relative path is relative to.                     *)
targetBaseDir(fd) ==
  IF fd = AtFdcwd THEN [is |-> "path", abs |-> TRUE, seg |-> Cwd] ELSE FdLink(fd)

(* ResolveSyscallPath: an absolute argument needs no read.                 *)
ResolveSyscallPath(arg, fd) ==
  IF arg.abs THEN arg
  ELSE LET base == ReadMemory(targetBaseDir(fd))
       IN  [base EXCEPT !.seg = IF base.is = "path" THEN @ \o arg.seg ELSE @]

Fetch(op) ==
  CASE op.do = "string" -> ReadMemory(req.path[op.arg])
    [] op.do = "bytes" -> ReadMemory(BytesOf(req))
    [] op.do = "resolve" -> ResolveSyscallPath(strs[op.arg].val, Dirfd(op.arg))
    [] op.do = "fd" -> ReadMemory(FdLink(Dirfd(1)))

(* Whose value it is: an absolute argument is what ReadString returned.    *)
Source(op) ==
  IF op.do = "resolve" /\ strs[op.arg].val.abs THEN strs[op.arg].from ELSE owner

-----------------------------------------------------------------------------
Op == Head(plan)

NoEvent == [action |-> "none", path |-> << >>, family |-> "none", name |-> NoName,
            unresolved |-> FALSE, empty |-> FALSE]

Got(ok, val, from) == [ok |-> ok, val |-> val, from |-> from]
Nothing == Got(FALSE, Bad, "nobody")

Receive(r) ==
  /\ req' = r
  /\ owner' = "target"
  /\ plan' = PlanOf(r)
  /\ sub' = "check"
  /\ tmp' = Nothing
  /\ strs' = << >>
  /\ ev' = [NoEvent EXCEPT !.action = ActionOf(r.call, r.write)]

NextOp(p) == plan' = p /\ sub' = "check" /\ tmp' = Nothing

markUnresolved(e) == [e EXCEPT !.unresolved = TRUE]

(* A read failed: an unread string fails later, in resolveAt; unread bytes *)
(* leave flags 0, which opens for reading, or no address.                  *)
Fail ==
  CASE Op.do = "string" ->
         strs' = Append(strs, Got(FALSE, EmptyString, "nobody")) /\ ev' = ev
    [] Op.do = "bytes" ->
         ev' = [ev EXCEPT !.action = IF req.call = "openat2" THEN "read" ELSE @]
           /\ strs' = strs
    [] OTHER -> ev' = markUnresolved(ev) /\ strs' = strs

(* A read succeeded.                                                       *)
Succeed(val, from) ==
  CASE Op.do = "string" -> strs' = Append(strs, Got(TRUE, val, from)) /\ ev' = ev
    [] Op.do = "bytes" ->
         /\ strs' = strs
         /\ ev' = IF req.call = "openat2" THEN ev
                  ELSE IF from # "target" THEN [ev EXCEPT !.family = "unknown"]
                  ELSE [ev EXCEPT !.family = parseSockaddr(req.addr).family,
                                  !.name = parseSockaddr(req.addr).name]
    [] OTHER -> ev' = [ev EXCEPT !.path = Append(@, Got(TRUE, val, from))] /\ strs' = strs

(* execveat with AT_EMPTY_PATH and no path runs the fd itself. The path is *)
(* empty too when it could not be read, and this read is not checked.      *)
TakesFd == Op.do = "resolve" /\ req.emptyPath /\ strs[1].val = EmptyString

SwitchToFd ==
  /\ plan # << >>
  /\ sub = "check"
  /\ TakesFd
  /\ NextOp(<<[do |-> "fd", arg |-> 1]>>)
  /\ UNCHANGED <<req, owner, strs, ev>>

ReadFd ==
  /\ plan # << >>
  /\ Op.do = "fd"
  /\ IF Fetch(Op).is = "path" THEN Succeed(Fetch(Op), owner) ELSE Fail
  /\ NextOp(Tail(plan))
  /\ UNCHANGED <<req, owner>>

(* The first check. A null pointer is an empty string without any read,    *)
(* and resolveAt stops at once at a string that was not read.              *)
Check ==
  /\ plan # << >>
  /\ sub = "check"
  /\ ~ TakesFd
  /\ Op.do # "fd"
  /\ LET null == Op.do = "string" /\ req.path[Op.arg].is = "null"
         unread == Op.do = "resolve" /\ ~ strs[Op.arg].ok
     IN  \/ null /\ Succeed(EmptyString, "target") /\ NextOp(Tail(plan))
         \/ ~ null /\ (unread \/ ~ CheckValid) /\ Fail /\ NextOp(Tail(plan))
         \/ /\ ~ null /\ ~ unread /\ CheckValid
            /\ sub' = "read"
            /\ UNCHANGED <<plan, tmp, strs, ev>>
  /\ UNCHANGED <<req, owner>>

(* An empty path argument has its own mark, besides being unresolved.      *)
Read ==
  /\ plan # << >>
  /\ sub = "read"
  /\ LET empty == Op.do = "resolve" /\ strs[Op.arg].val = EmptyString
     IN  \/ /\ empty
            /\ ev' = [markUnresolved(ev) EXCEPT !.empty = TRUE]
            /\ strs' = strs
            /\ NextOp(Tail(plan))
         \/ ~ empty /\ Fetch(Op).is # "path" /\ Fail /\ NextOp(Tail(plan))
         \/ /\ ~ empty /\ Fetch(Op).is = "path"
            /\ tmp' = Got(TRUE, Fetch(Op), Source(Op))
            /\ sub' = "recheck"
            /\ UNCHANGED <<plan, strs, ev>>
  /\ UNCHANGED <<req, owner>>

(* Mutant: the value is used without the second check.                     *)
RecheckForgotten ==
  /\ plan # << >>
  /\ sub = "recheck"
  /\ Succeed(tmp.val, tmp.from)
  /\ NextOp(Tail(plan))
  /\ UNCHANGED <<req, owner>>

Recheck ==
  /\ plan # << >>
  /\ sub = "recheck"
  /\ IF CheckValid THEN Succeed(tmp.val, tmp.from) ELSE Fail
  /\ NextOp(Tail(plan))
  /\ UNCHANGED <<req, owner>>

Interrupt(what) ==
  /\ plan # << >>
  /\ owner = "target"
  /\ owner' = what
  /\ UNCHANGED <<req, plan, sub, tmp, strs, ev>>

DecodeStep == Check \/ Read \/ Recheck \/ SwitchToFd \/ ReadFd
=============================================================================
