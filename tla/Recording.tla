------------------------------ MODULE Recording -----------------------------
(***************************************************************************)
(* The way of a syscall through the supervisor with --record: the filter   *)
(* routes it, Decode makes an event of it, HandleSyscall                   *)
(* (internal/supervisor/handler.go) makes its paths canonical, decides and *)
(* answers, the collector keeps the record, and on exit a policy is made   *)
(* of the denials.                                                         *)
(*                                                                         *)
(* Notifications share nothing here but the collected records, so they are *)
(* handled one after the other; the caches they share are in Supervisor.   *)
(* The policy in force is the set Granted and the set Unconditional. What  *)
(* lstat says, and whether the deciding rule has its own errno or          *)
(* audit:false, are free choices.                                          *)
(***************************************************************************)
EXTENDS Filter, Resolve, Decoder, Discover

CONSTANTS
  Requests,       \* the syscalls the targets may issue
  Granted,        \* the accesses the policy in force allows: [action, path]
  Unconditional,  \* actions that are always allowed
  MaxRecords,     \* bound on the records collected
  NoPolicy        \* no policy is written yet

ASSUME RequestAssumption == Requests # {} /\ \A r \in Requests : IsRequest(r)

VARIABLES
  route,      \* what the filter said of the last syscall
  canonical,  \* the paths the policy was asked about
  answer,     \* "none" while the syscall is blocked, or how it ended
  records,    \* Collector.records
  policy      \* the policy written on exit

vars == <<decoderVars, route, canonical, answer, records, policy>>

Idle == answer # "none"
Running == policy = NoPolicy
Decoded == route = "USER_NOTIF" /\ plan = << >>

Init ==
  /\ req = CHOOSE r \in Requests : TRUE
  /\ owner = "target"
  /\ plan = << >>
  /\ sub = "check"
  /\ tmp = Nothing
  /\ strs = << >>
  /\ ev = NoEvent
  /\ route = "none"
  /\ canonical = << >>
  /\ answer = "start"
  /\ records = {}
  /\ policy = NoPolicy

-----------------------------------------------------------------------------
Data(r) == [arch |-> r.arch, nr |-> [call |-> r.call, x32 |-> r.x32]]

(* A syscall that is not intercepted ends in the kernel.                   *)
Bypass(r) ==
  /\ req' = r
  /\ ev' = NoEvent
  /\ strs' = << >>
  /\ owner' = "target"
  /\ answer' = IF FilterVerdict(Data(r)) = "ALLOW" THEN "passed" ELSE "ENOSYS"
  /\ UNCHANGED <<plan, sub, tmp>>

Issue ==
  \E r \in Requests :
    /\ Running
    /\ Idle
    /\ Cardinality(records) < MaxRecords
    /\ route' = FilterVerdict(Data(r))
    /\ canonical' = << >>
    /\ UNCHANGED <<records, policy>>
    /\ \/ FilterVerdict(Data(r)) = "USER_NOTIF" /\ Receive(r) /\ answer' = "none"
       \/ FilterVerdict(Data(r)) # "USER_NOTIF" /\ Bypass(r)

Decode ==
  /\ Running
  /\ ~ Idle
  /\ DecodeStep \/ \E what \in {"resumed", "other", "gone"} : Interrupt(what)
  /\ UNCHANGED <<route, canonical, answer, records, policy>>

-----------------------------------------------------------------------------
(* The rest of HandleSyscall, once Decode has returned.                    *)

Handling == Running /\ ~ Idle /\ plan = << >>

Record(verdict, path, unresolved) ==
  [action |-> ev.action, verdict |-> verdict, path |-> path, unresolved |-> unresolved]

(* The answer and what is kept of the decision.                            *)
Respond(how, kept) ==
  /\ answer' = how
  /\ records' = records \cup kept
  /\ UNCHANGED <<decoderVars, route, policy>>

(* An unconditional allow comes first: nothing is resolved or recorded.    *)
FastPath ==
  /\ Handling
  /\ ev.action \in Unconditional
  /\ Respond("continue", {})
  /\ UNCHANGED canonical

(* Mutant: a failed read is mistaken for an empty path.                    *)
AnswerUnresolvedAsEmpty ==
  /\ Handling
  /\ ev.action \notin Unconditional
  /\ ev.unresolved
  /\ Respond("empty", {})
  /\ UNCHANGED canonical

(* An empty path is answered as the kernel would, and not reported.        *)
AnswerEmpty ==
  /\ Handling
  /\ ev.action \notin Unconditional
  /\ ev.empty
  /\ Respond("empty", {})
  /\ UNCHANGED canonical

denyUnresolved ==
  /\ Handling
  /\ ev.action \notin Unconditional
  /\ ~ ev.empty
  /\ ev.unresolved
  /\ Respond("EACCES", {Record("deny", << >>, TRUE)})
  /\ UNCHANGED canonical

Canonicals(e) == [i \in DOMAIN e.path |-> CanonicalizePathForPid(e.path[i].val.seg)]

(* A rename is allowed if both of its paths are. A connect has no path,    *)
(* and what rules say of sockets and hosts is a free choice.               *)
Verdicts(paths) ==
  IF paths = << >> THEN {"allow", "deny"}
  ELSE IF \A i \in 1..Len(paths) : [action |-> ev.action, path |-> paths[i]] \in Granted
  THEN {"allow"} ELSE {"deny"}

isMkdir == req.call \in {"mkdir", "mkdirat"}

(* lstat agrees with the directories and links of the file system.         *)
LstatSays(exists, isDir, p) ==
  /\ isDir <=> p \in Dirs
  /\ p \in Dirs \cup DOMAIN Links => exists

Decide ==
  \E exists, isDir, ownErrno, audit \in BOOLEAN, verdict \in Verdicts(Canonicals(ev)) :
    LET paths == Canonicals(ev)
        first == IF paths = << >> THEN << >> ELSE paths[1]
    IN  /\ Handling
        /\ ev.action \notin Unconditional
        /\ ~ ev.unresolved
        /\ LstatSays(exists, isDir, first)
        /\ canonical' = paths
        /\ \/ /\ verdict = "allow"
              /\ Respond("continue", IF audit THEN {Record("allow", first, FALSE)} ELSE {})
           \/ /\ verdict = "deny"
              /\ paths # << >>
              /\ ev.action # "write"
              /\ ~ ownErrno
              /\ ~ exists
              /\ Respond("missing", {})
           \/ /\ verdict = "deny"
              /\ isMkdir
              /\ isDir
              /\ Respond("exists", {})
           \/ /\ verdict = "deny"
              /\ paths = << >> \/ ev.action = "write" \/ ownErrno \/ exists
              /\ ~ (isMkdir /\ isDir)
              /\ Respond("denied", IF audit THEN {Record("deny", first, FALSE)} ELSE {})

(* writeRecordedPolicy on exit. A notification that is still unanswered    *)
(* then has left no record: it is as if it had not come yet.               *)
writeRecordedPolicy ==
  /\ Running
  /\ Idle
  /\ policy' = GeneratePolicy(records)
  /\ UNCHANGED <<decoderVars, route, canonical, answer, records>>

Next ==
  \/ Issue
  \/ Decode
  \/ FastPath
  \/ AnswerEmpty
  \/ denyUnresolved
  \/ Decide
  \/ writeRecordedPolicy

Spec == Init /\ [][Next]_vars

-----------------------------------------------------------------------------
(* What the blocked target asks for, without the steps of the decoder.     *)

ActualFd(i) == IF req.call \in AtCalls THEN req.dirfd[i].int ELSE AtFdcwd

ActualPath(i) ==
  LET arg == req.path[i]
      base == targetBaseDir(ActualFd(i))
  IN  IF arg.is # "path" \/ arg = EmptyString THEN Bad
      ELSE IF arg.abs THEN arg
      ELSE [base EXCEPT !.seg = IF base.is = "path" THEN @ \o arg.seg ELSE @]

Arguments == 1..PathCount(req.call)

ActualAction == ActionOf(req.call, req.write /\ (req.call = "openat2" => req.bytes.is = "path"))

(* The address of a connect can be read as far as its register says.       *)
AddressShows ==
  req.bytes.is = "path" /\ addrLen(req.addr) \in 2..req.addr.mapped

(* The kernel's way to the last component; below a name that is no         *)
(* directory there are no links.                                           *)
KernelStep(dir, c) ==
  IF WalkStep(dir, c) = NoDir THEN Append(dir, c) ELSE WalkStep(dir, c)

KernelDir(p) ==
  LET at[k \in 0..Len(p)] == IF k = 0 THEN << >> ELSE KernelStep(at[k - 1], p[k])
  IN  at[Len(p)]

(* The entry of a directory that p names.                                  *)
KernelEntry(p) ==
  IF p = << >> \/ Last(p) \in {".", ".."} THEN KernelDir(p)
  ELSE Append(KernelDir(Front(p)), Last(p))

(* Calls that act on what a link at the end leads to; the others act on    *)
(* the link.                                                               *)
FollowsLast ==
  req.call \in OpenCalls \cup {"truncate"} \cup MetadataCalls \cup ExecCalls /\ ~ req.nofollow

(* What the syscall acts on.                                               *)
KernelPath(p) == IF FollowsLast THEN Follow(KernelEntry(p)) ELSE KernelEntry(p)

(* No symbolic link is taken back by a ".." or, by a "." or ".." at the    *)
(* end, left to be named: then p reads the same as text and as a walk.     *)
Straight(p) ==
  /\ \A k \in 1..Len(p) :
       p[k] = ".." => KernelEntry(Clean(SubSeq(p, 1, k - 1))) \notin DOMAIN Links
  /\ p # << >> /\ Last(p) \in {".", ".."} => KernelEntry(Clean(p)) \notin DOMAIN Links

StraightArguments == \A i \in Arguments : Straight(ActualPath(i).seg)

-----------------------------------------------------------------------------
(* The supervisor is asked about exactly the native syscalls Decode has a  *)
(* case for, io_uring_setup does not exist, and everything else (i386 and  *)
(* x32 too) passes: the jumps of BuildFilter and the two lists agree       *)
(* (filter.go, decoder.go).                                                *)
FilterRoutes ==
  route # "none" =>
    LET native == req.arch = "x86_64" /\ ~ req.x32
    IN  /\ route = "USER_NOTIF" <=> native /\ req.call \in PathCalls \cup {"connect"}
        /\ route = "ENOSYS" <=> native /\ req.call = "io_uring_setup"

(* An event that counts as resolved is what the blocked target asked for:  *)
(* its action, its paths made absolute against its own directories, and    *)
(* its address or none.                                                    *)
(* Nothing in it comes from a target that was interrupted while its memory *)
(* or /proc was read, or from the next owner of its pid. Not claimed for   *)
(* the fd of an execveat with AT_EMPTY_PATH (Decoder, ID_VALID brackets).  *)
TrueToTarget ==
  (Decoded /\ ~ ev.unresolved /\ ~ req.emptyPath) =>
    /\ ev.action = ActualAction
    /\ Len(ev.path) = PathCount(req.call)
    /\ \A i \in Arguments : ev.path[i].val = ActualPath(i)
    /\ [family |-> ev.family, name |-> ev.name] \in
         {[family |-> "none", name |-> NoName], parseSockaddr(req.addr)}

(* What is let through although not all of it could be read. A path that   *)
(* cannot be read or made absolute is refused, whatever the policy grants  *)
(* for the other; with AT_EMPTY_PATH it counts as empty, and then the fd   *)
(* must be a file. The silent ENOENT is only for a syscall that really has *)
(* an empty argument. An open_how that cannot be read opens for reading,   *)
(* and an address that cannot, or is too short for a family, is no target: *)
(* these two the code does not refuse, and the policy decides on that      *)
(* (Decode, HandleSyscall's use of Unresolved and EmptyPath).              *)
FailsClosed ==
  (Decoded /\ Idle /\ ev.action \notin Unconditional) =>
    /\ answer = "continue" =>
         \A i \in Arguments :
           \/ ActualPath(i).is = "path"
           \/ req.emptyPath /\ (owner = "target" => FdLink(ActualFd(i)).is = "path")
    /\ answer = "empty" =>
         \E i \in Arguments : req.path[i].is = "null" \/ req.path[i] = EmptyString
    /\ answer = "continue" /\ req.call = "openat2" /\ req.bytes.is # "path" =>
         ev.action = "read"
    /\ req.call = "connect" /\ owner = "target" =>
         [family |-> ev.family, name |-> ev.name] =
           IF AddressShows THEN parseSockaddr(req.addr)
           ELSE [family |-> "none", name |-> NoName]

(* The policy is asked about the path the kernel acts on, outside of       *)
(* /proc and /dev/fd: links in the directory part are followed, also when  *)
(* the directories below them do not exist yet (CanonicalizePath). A link  *)
(* at the end is the one exception: the policy is asked about the link by  *)
(* its canonical name, also when the syscall acts on what it leads to.     *)
(* Like TrueToTarget it leaves out AT_EMPTY_PATH.                          *)
PolicySeesKernelPath ==
  (Decoded /\ Idle /\ ~ req.emptyPath) =>
    \A i \in DOMAIN canonical :
      LET acted == KernelPath(ActualPath(i).seg)
      IN  \/ IsProcPath(ActualPath(i).seg)
          \/ canonical[i] = acted
          \/ FollowsLast /\ canonical[i] \in DOMAIN Links /\ Links[canonical[i]] = acted

(* Every recorded denial that needs a rule is allowed by the policy that   *)
(* was written, if it can be loaded: replacing directories by variables,   *)
(* collapsing to globs, promoting parents and dropping covered patterns    *)
(* lose nothing (GeneratePolicy) but the paths Lost names.                 *)
RecordedIsAllowed ==
  policy # NoPolicy /\ Loads(policy) =>
    \A r \in records :
      LET n == normalizePath(Generalize(r.path))
      IN  \/ r.verdict = "allow"
          \/ r.unresolved
          \/ r.action \notin FileActions
          \/ IsProbeTemp(r.path) /\ Len(r.path) = 1
          \/ isBasePath(n, r.action)
          \/ AllowedBy(policy, r.action, r.path)
          \/ Lost(n, Wanted(records, r.action))
=============================================================================
