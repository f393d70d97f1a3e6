------------------------------ MODULE Session -------------------------------
(***************************************************************************)
(* The life of a session: runSandboxInner (cmd/gravelpit/cmd_run.go) from  *)
(* the start of the child to its own return, the child from                *)
(* RunSandboxChild (internal/sandbox/child.go) to its end, the loop of     *)
(* Handler.Run, and the goroutine that waits for the child.                *)
(*                                                                         *)
(* The two processes share a socket pair, over which the child passes the  *)
(* notification fd and the parent acknowledges it. The program is a        *)
(* subreaper, so daemons the command leaves behind become its children.    *)
(* Signals arrive in a channel of one slot and are dropped when it is      *)
(* taken.                                                                  *)
(*                                                                         *)
(* Left out: the set-up before the child starts, terminal state, the       *)
(* recorded policy (Discover), and what is reported at the exit            *)
(* (Reporting). Signals are modelled from the call of signal.Notify on.    *)
(***************************************************************************)
EXTENDS Naturals, Sequences, FiniteSets

CONSTANTS
  Daemons,    \* processes the command may leave behind
  Direct,     \* the direct child, as a process id
  Statuses    \* exit statuses of the command

ASSUME SessionAssumption == Direct \notin Daemons /\ 1 \in Statuses

Signals == {"SIGCHLD", "SIGTERM"}

VARIABLES
  parent,   \* where runSandboxInner is
  exit,     \* what it returns
  child,    \* where the child is
  holdsFd,  \* the child holds the notification fd
  socket,   \* messages in flight and open ends of the socket pair
  fd,       \* the parent's notification fd: "none", "open" or "closed"
  run,      \* Handler.Run: "absent", "polling" or "returned"
  waiter,   \* the goroutine that calls child.Wait
  done,     \* its channel
  pending,  \* signals the runtime has not put into the channel yet
  sigCh,    \* the channel
  status,   \* per process: exit status once dead
  zombies,  \* dead children nobody has waited for
  daemons,  \* adopted processes that run
  asked     \* history: the program was sent SIGTERM

vars == <<parent, exit, child, holdsFd, socket, fd, run, waiter, done, pending,
          sigCh, status, zombies, daemons, asked>>
processVars == <<status, zombies, daemons, asked>>
signalVars == <<pending, sigCh>>

Pids == Daemons \cup {Direct}
Nothing == 0 - 1
Killed == 137

Init ==
  /\ parent = "start"
  /\ exit = "none"
  /\ child = "absent"
  /\ holdsFd = FALSE
  /\ socket = [fd |-> FALSE, ack |-> FALSE, parentEnd |-> TRUE, childEnds |-> 1]
  /\ fd = "none"
  /\ run = "absent"
  /\ waiter = "absent"
  /\ done = << >>
  /\ pending = {}
  /\ sigCh = << >>
  /\ status = [p \in Pids |-> Nothing]
  /\ zombies = {}
  /\ daemons = {}
  /\ asked = FALSE

Alive == child \notin {"absent", "dead"}

(* Signals are caught between signal.Notify and signal.Stop.               *)
Catching == parent \in {"loop", "reap", "forwarded", "killed"}

(* A child of the program dies: a zombie, and SIGCHLD for the program.     *)
Dies(p, s) ==
  /\ status' = [status EXCEPT ![p] = s]
  /\ zombies' = zombies \cup {p}
  /\ pending' = IF Catching THEN pending \cup {"SIGCHLD"} ELSE pending

-----------------------------------------------------------------------------
(* runSandboxInner up to the main loop.                                    *)

(* Mutant: the parent keeps its copy of the child's end open.              *)
StartKeepingSock ==
  /\ parent = "start"
  /\ child' = "setup"
  /\ socket' = [socket EXCEPT !.childEnds = 2]
  /\ parent' = "recvFd"
  /\ UNCHANGED <<exit, holdsFd, fd, run, waiter, done, signalVars, processVars>>

(* child.Start duplicates the child's end of the socket pair into it; the  *)
(* parent closes its own copy.                                             *)
Start ==
  /\ parent = "start"
  /\ child' = "setup"
  /\ socket' = [socket EXCEPT !.childEnds = 1]
  /\ parent' = "recvFd"
  /\ UNCHANGED <<exit, holdsFd, fd, run, waiter, done, signalVars, processVars>>

Return(what) == parent' = "exited" /\ exit' = what

(* Starting the child fails, or something before it.                       *)
StartFails ==
  /\ parent = "start"
  /\ Return("error")
  /\ UNCHANGED <<child, holdsFd, socket, fd, run, waiter, done, signalVars, processVars>>

RecvFd ==
  /\ parent = "recvFd"
  /\ socket.fd
  /\ socket' = [socket EXCEPT !.fd = FALSE]
  /\ fd' = "open"
  /\ parent' = "ack"
  /\ UNCHANGED <<exit, child, holdsFd, run, waiter, done, signalVars, processVars>>

(* End of file: the child died before it sent the fd. It is killed once    *)
(* more and not waited for.                                                *)
RecvNothing ==
  /\ parent = "recvFd"
  /\ ~ socket.fd
  /\ socket.childEnds = 0
  /\ socket' = [socket EXCEPT !.parentEnd = FALSE]
  /\ Return("error")
  /\ UNCHANGED <<child, holdsFd, fd, run, waiter, done, signalVars, processVars>>

Ack ==
  /\ parent = "ack"
  /\ socket' = [socket EXCEPT !.ack = TRUE, !.parentEnd = FALSE]
  /\ parent' = "acked"
  /\ UNCHANGED <<exit, child, holdsFd, fd, run, waiter, done, signalVars, processVars>>

StartGoroutines ==
  /\ parent = "acked"
  /\ run' = "polling"
  /\ waiter' = "waiting"
  /\ parent' = "started"
  /\ UNCHANGED <<exit, child, holdsFd, socket, fd, done, signalVars, processVars>>

(* A SIGCHLD before this call is ignored.                                  *)
CatchSignals ==
  /\ parent = "started"
  /\ parent' = "loop"
  /\ UNCHANGED <<exit, child, holdsFd, socket, fd, run, waiter, done, signalVars,
                 processVars>>

-----------------------------------------------------------------------------
(* RunSandboxChild. Each step may fail, and the child then exits with 1.   *)

ChildEnds == /\ child' = "dead"
             /\ holdsFd' = FALSE
             /\ socket' = [socket EXCEPT !.childEnds = IF child \in {"setup", "filtered", "sent"}
                                                       THEN @ - 1 ELSE @]

Fatal ==
  /\ \/ child \in {"setup", "filtered", "closing", "execing"}
     \/ child = "sent" /\ ~ socket.ack /\ ~ socket.parentEnd
  /\ ChildEnds
  /\ Dies(Direct, 1)
  /\ UNCHANGED <<parent, exit, fd, run, waiter, done, sigCh, daemons, asked>>

ChildTo(from, to) ==
  /\ child = from
  /\ child' = to
  /\ UNCHANGED <<parent, exit, fd, run, waiter, done, signalVars, processVars>>

InstallFilter ==
  /\ ChildTo("setup", "filtered")
  /\ holdsFd' = TRUE
  /\ UNCHANGED socket

SendNotifyFd ==
  /\ ChildTo("filtered", "sent")
  /\ socket' = [socket EXCEPT !.fd = TRUE]
  /\ UNCHANGED holdsFd

(* After the ack the child closes the notification fd and its socket.      *)
CloseFds ==
  /\ ChildTo("sent", "closing")
  /\ socket.ack
  /\ socket' = [socket EXCEPT !.childEnds = @ - 1]
  /\ holdsFd' = FALSE

(* closeExtraFds closes whatever else is open. It opens /proc/self/fd: an  *)
(* intercepted call, which ends only if the loop of Run answers it.        *)
CloseExtraFds ==
  /\ ChildTo("closing", "execing")
  /\ run = "polling"
  /\ holdsFd' = FALSE
  /\ UNCHANGED socket

(* lookPath, then execve, which is intercepted as well.                    *)
Exec ==
  /\ ChildTo("execing", "running")
  /\ run = "polling"
  /\ UNCHANGED <<socket, holdsFd>>

-----------------------------------------------------------------------------
(* The command and its daemons (external).                                 *)

CommandExits(s) ==
  /\ child = "running"
  /\ ChildEnds
  /\ Dies(Direct, s)
  /\ UNCHANGED <<parent, exit, fd, run, waiter, done, sigCh, daemons, asked>>

Adopt(d) ==
  /\ child = "running"
  /\ d \notin daemons
  /\ status[d] = Nothing
  /\ daemons' = daemons \cup {d}
  /\ UNCHANGED <<parent, exit, child, holdsFd, socket, fd, run, waiter, done, signalVars,
                 status, zombies, asked>>

DaemonExits(d) ==
  /\ d \in daemons
  /\ daemons' = daemons \ {d}
  /\ Dies(d, 0)
  /\ UNCHANGED <<parent, exit, child, holdsFd, socket, fd, run, waiter, done, sigCh, asked>>

-----------------------------------------------------------------------------
(* Signals.                                                                *)

Terminate ==
  /\ Catching
  /\ ~ asked
  /\ asked' = TRUE
  /\ pending' = pending \cup {"SIGTERM"}
  /\ UNCHANGED <<parent, exit, child, holdsFd, socket, fd, run, waiter, done, sigCh,
                 status, zombies, daemons>>

(* signal.Notify never blocks: a signal that finds the channel full is     *)
(* dropped.                                                                *)
Notify(sig) ==
  /\ Catching
  /\ sig \in pending
  /\ pending' = pending \ {sig}
  /\ sigCh' = IF sigCh = << >> THEN <<sig>> ELSE sigCh
  /\ UNCHANGED <<parent, exit, child, holdsFd, socket, fd, run, waiter, done, processVars>>

-----------------------------------------------------------------------------
(* child.Wait: it sees that the child can be waited for, then waits.       *)

WaitSees ==
  /\ waiter = "waiting"
  /\ Direct \in zombies
  /\ waiter' = "seen"
  /\ UNCHANGED <<parent, exit, child, holdsFd, socket, fd, run, done, signalVars, processVars>>

Wait4 ==
  /\ waiter = "seen"
  /\ waiter' = "delivered"
  /\ done' = <<IF Direct \in zombies THEN "status" ELSE "ECHILD">>
  /\ zombies' = zombies \ {Direct}
  /\ UNCHANGED <<parent, exit, child, holdsFd, socket, fd, run, signalVars, status,
                 daemons, asked>>

-----------------------------------------------------------------------------
(* The main loop.                                                          *)

(* Mutant: the direct child is reaped like any other.                      *)
ReapAnyone(then) ==
  \/ \E p \in zombies :
       /\ zombies' = zombies \ {p}
       /\ UNCHANGED parent
  \/ zombies = {} /\ parent' = then /\ UNCHANGED zombies

(* Mutant: one process is reaped for one signal.                           *)
ReapOne(then) ==
  \/ \E p \in zombies :
       /\ p # Direct
       /\ zombies' = zombies \ {p}
       /\ parent' = then
  \/ (zombies = {} \/ Direct \in zombies) /\ parent' = then /\ UNCHANGED zombies

(* One round of reapAdoptedChildren: waitid shows some zombie; the direct  *)
(* child, or none, ends the loop.                                          *)
Reap(then) ==
  \/ \E p \in zombies :
       /\ p # Direct
       /\ zombies' = zombies \ {p}
       /\ UNCHANGED parent
  \/ (zombies = {} \/ Direct \in zombies) /\ parent' = then /\ UNCHANGED zombies

ReapForSignal ==
  /\ parent = "reap"
  /\ Reap("loop")
  /\ UNCHANGED <<exit, child, holdsFd, socket, fd, run, waiter, done, signalVars,
                 status, daemons, asked>>

SeeSigchld ==
  /\ parent = "loop"
  /\ sigCh = <<"SIGCHLD">>
  /\ sigCh' = << >>
  /\ parent' = "reap"
  /\ UNCHANGED <<exit, child, holdsFd, socket, fd, run, waiter, done, pending, processVars>>

SeeDone ==
  /\ parent = "loop"
  /\ done # << >>
  /\ parent' = "last reap"
  /\ exit' = done[1]
  /\ done' = << >>
  /\ UNCHANGED <<child, holdsFd, socket, fd, run, waiter, signalVars, processVars>>

ReapAtEnd ==
  /\ parent = "last reap"
  /\ Reap("close")
  /\ UNCHANGED <<exit, child, holdsFd, socket, fd, run, waiter, done, signalVars,
                 status, daemons, asked>>

CloseNotifFd ==
  /\ parent = "close"
  /\ fd' = "closed"
  /\ parent' = "record"
  /\ UNCHANGED <<exit, child, holdsFd, socket, run, waiter, done, signalVars, processVars>>

(* writeRecordedPolicy, then the status of the child is returned.          *)
ReturnStatus ==
  /\ parent = "record"
  /\ Return(exit)
  /\ UNCHANGED <<child, holdsFd, socket, fd, run, waiter, done, signalVars, processVars>>

(* Any other signal is forwarded; the command may ignore it.               *)
Forward ==
  /\ parent = "loop"
  /\ sigCh = <<"SIGTERM">>
  /\ sigCh' = << >>
  /\ parent' = "forwarded"
  /\ UNCHANGED <<exit, child, holdsFd, socket, fd, run, waiter, done, pending, processVars>>

(* Mutant: after 200 ms the program only waits.                            *)
WaitForever ==
  /\ parent = "forwarded"
  /\ done = << >>
  /\ parent' = "killed"
  /\ UNCHANGED <<exit, child, holdsFd, socket, fd, run, waiter, done, signalVars,
                 processVars>>

(* After 200 ms the child is killed. Its zombie, if it is one, stays.      *)
Kill ==
  /\ parent = "forwarded"
  /\ done = << >>
  /\ parent' = "killed"
  /\ IF Alive THEN ChildEnds /\ Dies(Direct, Killed)
              ELSE UNCHANGED <<child, holdsFd, socket, status, zombies, pending>>
  /\ UNCHANGED <<exit, fd, run, waiter, done, sigCh, daemons, asked>>

(* Mutant: the program does not wait for the child it has signalled.       *)
SignalReturnUnwaited ==
  /\ parent \in {"forwarded", "killed"}
  /\ Return("signal")
  /\ UNCHANGED <<child, holdsFd, socket, fd, run, waiter, done, signalVars, processVars>>

SignalReturn ==
  /\ parent \in {"forwarded", "killed"}
  /\ done # << >>
  /\ done' = << >>
  /\ Return("signal")
  /\ UNCHANGED <<child, holdsFd, socket, fd, run, waiter, signalVars, processVars>>

-----------------------------------------------------------------------------
(* Handler.Run returns when its poll reports that the fd is closed or that *)
(* no process uses the filter any more.                                    *)
RunReturns ==
  /\ run = "polling"
  /\ fd = "closed" \/ (~ Alive /\ daemons = {})
  /\ run' = "returned"
  /\ UNCHANGED <<parent, exit, child, holdsFd, socket, fd, waiter, done, signalVars,
                 processVars>>

(* It also returns on an unexpected receive error, and leaves the fd open: *)
(* intercepted calls then block until the program exits.                   *)
RunFails ==
  /\ run = "polling"
  /\ run' = "returned"
  /\ UNCHANGED <<parent, exit, child, holdsFd, socket, fd, waiter, done, signalVars,
                 processVars>>

Main ==
  \/ Start \/ StartFails \/ RecvFd \/ RecvNothing \/ Ack \/ StartGoroutines
  \/ CatchSignals \/ SeeSigchld \/ ReapForSignal
  \/ SeeDone \/ ReapAtEnd \/ CloseNotifFd \/ ReturnStatus
  \/ Forward \/ Kill \/ SignalReturn

SandboxChild ==
  InstallFilter \/ SendNotifyFd \/ CloseFds \/ CloseExtraFds \/ Exec \/ Fatal

Waiter == WaitSees \/ Wait4

Next ==
  \/ parent # "exited" /\ (Main \/ Waiter \/ RunReturns \/ RunFails)
  \/ SandboxChild
  \/ \E s \in Statuses : CommandExits(s)
  \/ \E d \in Daemons : Adopt(d) \/ DaemonExits(d)
  \/ parent # "exited" /\ (Terminate \/ \E sig \in Signals : Notify(sig))

(* The program's goroutines and the child's own code make progress, and    *)
(* the runtime delivers signals. The command need not exit.                *)
Fairness ==
  /\ WF_vars(parent # "exited" /\ Main)
  /\ WF_vars(parent # "exited" /\ Waiter)
  /\ WF_vars(SandboxChild)
  /\ \A sig \in Signals : WF_vars(parent # "exited" /\ Notify(sig))

Spec == Init /\ [][Next]_vars /\ Fairness

-----------------------------------------------------------------------------
(* The command never runs unless the supervisor is there and holds the     *)
(* listener, and the command does not: "Whoever holds the notify fd is the *)
(* supervisor for that filter" (child.go:107).                             *)
TargetIsSupervised ==
  child = "running" =>
    ~ holdsFd /\ fd = "open" /\ parent # "exited"

(* The status of the command is never lost to the reaping of adopted       *)
(* processes, which would make child.Wait fail (cmd_run.go:390-394).       *)
StatusKept == exit # "ECHILD" /\ "ECHILD" \notin {done[i] : i \in 1..Len(done)}

(* Parent and child never wait for each other while the fd changes hands,  *)
(* wherever the child fails: the parent gets to its main loop or returns.  *)
HandshakeEnds == parent = "recvFd" ~> parent \in {"loop", "exited"}

(* Every daemon that dies once signals are caught is reaped, although one  *)
(* SIGCHLD may stand for several deaths or find the channel taken, unless  *)
(* the session ends first.                                                 *)
DaemonsReaped ==
  \A d \in Daemons :
    d \in zombies /\ "SIGCHLD" \in pending ~> d \notin zombies \/ parent = "exited"

(* The session ends when the child does, or once a signal is taken from    *)
(* the channel although the command ignores it or the loop of Run is gone. *)
SessionEnds == (Direct \in zombies \/ parent = "forwarded") ~> parent = "exited"

(* A SIGTERM sent to the program while it waits in its main loop reaches   *)
(* the child (cmd_run.go:364): "Forward explicitly in case gravelpit was   *)
(* signalled directly".                                                    *)
SignalForwarded == asked ~> parent \in {"forwarded", "killed", "exited"}
=============================================================================
