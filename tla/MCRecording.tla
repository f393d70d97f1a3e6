----------------------------- MODULE MCRecording ----------------------------
(* A small file system with links to a directory (~/w/ln -> /srv/real), to *)
(* a file (/srv/lf) and to nothing (/srv/gone), a target in ~/w with a     *)
(* directory (3) and a socket (4) open, and requests for every syscall     *)
(* Decode knows, in the shapes that take different branches.               *)
EXTENDS Recording

CONSTANTS none, notyet

Home == <<"home", "u">>
Work == <<"home", "u", "w">>

MCDirs ==
  {<< >>, <<"home">>, Home, Work, <<"srv">>, <<"srv", "real">>, <<"proc">>}
MCLinks ==
  <<"home", "u", "w", "ln">> :> <<"srv", "real">>
    @@ <<"srv", "lf">> :> <<"srv", "x">>
    @@ <<"srv", "gone">> :> <<"srv", "real", "n">>
MCOwnPids == {"77"}
MCCwd == Work
MCFdTable ==
  3 :> [is |-> "path", seg |-> <<"srv">>] @@ 4 :> [is |-> "socket", seg |-> << >>]
MCOther == <<"other", "file">>
MCRest == <<"u", "u2">> :> "ident" @@ <<"w", "w-old">> :> "other"
MCOddNames == {"[x]"}
MCProbeNames == {"_tmp_1"}
MCPidNames == {"77", "88"}
MCBaseRead == {<<"proc">>, <<"tmp">>}
MCBaseWrite == {<<"tmp">>, <<"proc", "self">>}

(* Arguments.                                                              *)
Abs(seg) == [is |-> "path", abs |-> TRUE, seg |-> seg]
Rel(seg) == [is |-> "path", abs |-> FALSE, seg |-> seg]
Null == [is |-> "null", abs |-> FALSE, seg |-> << >>]
Low(n) == [int |-> n, high |-> 0]
Signed(n) == [int |-> n, high |-> 2^8 - 1]
Stale(n) == [int |-> n, high |-> 1]
MCAtFdcwd == -100
CwdFd == Low(-100)

Addr(family, len, mapped) ==
  [family |-> family, len |-> len, mapped |-> mapped, name |-> "peer", nameOfOther |-> "peer2"]

Call(call, paths) ==
  [call |-> call, arch |-> "x86_64", x32 |-> FALSE, path |-> paths, dirfd |-> << >>,
   write |-> FALSE, bytes |-> Abs(<< >>), emptyPath |-> FALSE, nofollow |-> FALSE,
   addr |-> Addr("none", Low(0), 0)]
At(call, fds, paths) == [Call(call, paths) EXCEPT !.dirfd = fds]
Writing(r) == [r EXCEPT !.write = TRUE]
Connect(family, len, mapped) ==
  [Call("connect", << >>) EXCEPT !.addr = Addr(family, len, mapped)]

OpenRequests ==
  {Call("open", <<Abs(<<"srv", ".", "x">>)>>),
   Writing(Call("open", <<Rel(<<"ln", "n">>)>>)),
   [Call("open", <<Abs(<<"srv", "lf">>)>>) EXCEPT !.nofollow = TRUE],
   Call("open", <<Abs(<<"home", "u2", "x">>)>>),
   Writing(Call("open", <<Abs(<<"srv", "home", "u", "x">>)>>)),
   Writing(Call("open", <<Abs(<<"dev", "fd", "1">>)>>)),
   Writing(Call("open", <<Abs(<<"proc", "88", "maps">>)>>)),
   Writing(Call("open", <<Abs(<<"proc", "77", "fd", "1">>)>>)),
   At("openat", <<CwdFd>>, <<Rel(<<"ln", "new", "y">>)>>),
   At("openat", <<Signed(-100)>>, <<Rel(<<"x", "..">>)>>),
   Writing(At("openat", <<Low(3)>>, <<Rel(<<"gone">>)>>)),
   Writing(At("openat2", <<Low(3)>>, <<Rel(<<"real", "n">>)>>)),
   [Writing(At("openat2", <<Low(3)>>, <<Rel(<<"x">>)>>)) EXCEPT !.bytes = Bad]}

ChangeRequests ==
  {Call("unlink", <<Null>>),
   Call("unlink", <<Abs(<<"srv", "lf">>)>>),
   Call("rmdir", <<Bad>>),
   Call("rmdir", <<Abs(<<"srv">>)>>),
   At("unlinkat", <<Low(4)>>, <<Rel(<<"x">>)>>),
   Call("rename", <<Abs(<<"srv", "x">>), Bad>>),
   Call("rename", <<Abs(<<"srv", "x">>), EmptyString>>),
   At("renameat", <<Low(3), Low(9)>>, <<Rel(<<"x">>), Rel(<<"y">>)>>),
   At("renameat2", <<Low(3), CwdFd>>, <<Rel(<<"x">>), Rel(<<"ln", "z">>)>>),
   Call("truncate", <<Abs(<<"home", "u", "_tmp_1">>)>>),
   Call("mkdir", <<Abs(<<"srv">>)>>),
   Call("mkdir", <<Abs(<<"home", "u", "[x]">>)>>),
   At("mkdirat", <<Low(-1)>>, <<Rel(<<"d">>)>>),
   At("fchmodat", <<Low(3)>>, <<Rel(<<".">>)>>),
   Call("chmod", <<Abs(<<"home", "u", "w-old">>)>>),
   Call("chown", <<Abs(<<"home", "u", "w-old", "a", "b">>)>>),
   Call("chown", <<Abs(<<"home", "u2">>)>>),
   Call("chown", <<Abs(<<"etc">>)>>),
   At("fchownat", <<Low(3)>>, <<Abs(<<"_tmp_1">>)>>)}

OtherRequests ==
  {Call("execve", <<Rel(<<"ln", "tool">>)>>),
   At("execveat", <<Low(3)>>, <<Rel(<<"tool">>)>>),
   [At("execveat", <<Low(3)>>, <<EmptyString>>) EXCEPT !.emptyPath = TRUE],
   [At("execveat", <<Low(4)>>, <<Bad>>) EXCEPT !.emptyPath = TRUE],
   Connect("AF_UNIX", Low(10), 40), Connect("AF_INET", Low(4), 40),
   Connect("AF_UNIX", Low(1), 40), Connect("AF_INET6", Low(28), 0),
   [Connect("AF_INET", Low(16), 40) EXCEPT !.bytes = Null],
   Connect("AF_UNIX", Stale(10), 40), Connect("AF_UNIX", Stale(10), 20),
   Connect("AF_UNIX", Signed(10), 40),
   Call("io_uring_setup", << >>),
   Call("getpid", << >>),
   [Call("open", <<Abs(<<"srv">>)>>) EXCEPT !.x32 = TRUE],
   [Call("open", <<Abs(<<"srv">>)>>) EXCEPT !.arch = "i386"]}

MCRequests == OpenRequests \cup ChangeRequests \cup OtherRequests

(* ".." behind the link: the kernel leaves /srv/real, not ~/w/ln.          *)
DotDotRequests ==
  {Writing(Call("open", <<Rel(<<"ln", "..", "x">>)>>)),
   Call("open", <<Abs(<<"srv", "..", "x">>)>>)}

MCGranted ==
  {[action |-> "delete", path |-> <<"srv", "x">>],
   [action |-> "read", path |-> <<"srv", "x">>]}
MCUnconditional == {"exec"}
=============================================================================
