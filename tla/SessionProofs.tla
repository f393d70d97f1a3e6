--------------------------- MODULE SessionProofs ----------------------------
(***************************************************************************)
(* The command runs only under supervision and its status is never lost,   *)
(* for every set of daemons and of exit statuses.                          *)
(*                                                                         *)
(* The invariants that the runs check say nothing of how the fd changes    *)
(* hands or of who may wait for the child; the inductive invariant does.   *)
(***************************************************************************)
EXTENDS Session, TLAPS

Types ==
  /\ socket \in [fd : BOOLEAN, ack : BOOLEAN, parentEnd : BOOLEAN, childEnds : {0, 1}]
  /\ fd \in {"none", "open", "closed"}
  /\ child \in {"absent", "setup", "filtered", "sent", "closing", "execing",
                "running", "dead"}
  /\ parent \in {"start", "recvFd", "ack", "acked", "started", "loop", "reap",
                 "last reap", "close", "record", "forwarded", "killed", "exited"}

(* The child is past the handshake.                                        *)
Released == child \in {"closing", "execing", "running"}

(* The handshake. Until it ends the child keeps its end of the socket open *)
(* for as long as it lives, so an end of file means that it is dead; the   *)
(* ack is sent only once the parent holds the fd, and nothing but the ack  *)
(* releases the child.                                                     *)
Handshake ==
  /\ child = "absent" => parent \in {"start", "exited"}
  /\ parent = "start" => child = "absent"
  /\ child \in {"absent", "setup", "filtered", "sent"} => socket.childEnds = 1
  /\ parent \in {"start", "recvFd"} => fd = "none"
  /\ parent \notin {"start", "recvFd", "exited"} => fd # "none"
  /\ parent \in {"start", "recvFd", "ack"} => ~ socket.ack
  /\ socket.ack => fd # "none"
  /\ Released => socket.ack /\ holdsFd = FALSE

(* The fd is closed, and the program returns, only when the child is dead: *)
(* each follows a status from child.Wait or the end of file above.         *)
EndsAfterChild ==
  /\ Direct \in zombies => child = "dead"
  /\ waiter \in {"seen", "delivered"} => child = "dead"
  /\ done # << >> => child = "dead"
  /\ parent \in {"last reap", "close", "record"} => child = "dead"
  /\ fd = "closed" => child = "dead"
  /\ parent = "exited" => child \in {"absent", "dead"}

(* What the waiter has seen stays until it waits for it.                   *)
StatusWaits ==
  /\ waiter = "seen" => Direct \in zombies
  /\ done # << >> => done = <<"status">>
  /\ exit # "ECHILD"

SessionInv == Types /\ Handshake /\ EndsAfterChild /\ StatusWaits

LEMMA SessionInit == Init => SessionInv
  <1> SUFFICES ASSUME Init PROVE SessionInv
    OBVIOUS
  <1> QED BY DEF Init, SessionInv, Types, Handshake, Released, EndsAfterChild, StatusWaits

(* The steps of runSandboxInner.                                           *)
LEMMA MainKeeps == SessionInv /\ parent # "exited" /\ Main => SessionInv'
  <1> SUFFICES ASSUME SessionInv, parent # "exited", Main PROVE SessionInv'
    OBVIOUS
  <1> USE DEF SessionInv, Types, Handshake, Released, EndsAfterChild, StatusWaits,
              processVars, signalVars, Return
  <1>1. CASE Start \/ StartFails
    BY <1>1 DEF Start, StartFails
  <1>2. CASE RecvFd
    BY <1>2 DEF RecvFd
  <1>3. CASE RecvNothing
    <2>1. child = "dead"
      BY <1>3 DEF RecvNothing
    <2> QED BY <1>3, <2>1 DEF RecvNothing
  <1>4. CASE Ack
    BY <1>4 DEF Ack
  <1>5. CASE StartGoroutines
    BY <1>5 DEF StartGoroutines
  <1>6. CASE CatchSignals
    BY <1>6 DEF CatchSignals
  <1>7. CASE SeeSigchld \/ Forward
    BY <1>7 DEF SeeSigchld, Forward
  <1>8. CASE ReapForSignal
    BY <1>8 DEF ReapForSignal, Reap
  <1>9. CASE SeeDone
    <2>1. child = "dead" /\ done = <<"status">>
      BY <1>9 DEF SeeDone
    <2>2. done[1] = "status"
      BY ONLY <2>1
    <2> QED BY <1>9, <2>1, <2>2 DEF SeeDone
  <1>10. CASE ReapAtEnd
    BY <1>10 DEF ReapAtEnd, Reap
  <1>11. CASE CloseNotifFd
    BY <1>11 DEF CloseNotifFd
  <1>12. CASE ReturnStatus
    BY <1>12 DEF ReturnStatus
  <1>13. CASE Kill
    BY <1>13 DEF Kill, Alive, ChildEnds, Dies
  <1>14. CASE SignalReturn
    BY <1>14 DEF SignalReturn
  <1> QED BY <1>1, <1>2, <1>3, <1>4, <1>5, <1>6, <1>7, <1>8, <1>9, <1>10, <1>11,
             <1>12, <1>13, <1>14 DEF Main

(* The steps of the child.                                                 *)
LEMMA ChildKeeps == SessionInv /\ SandboxChild => SessionInv'
  <1> SUFFICES ASSUME SessionInv, SandboxChild PROVE SessionInv'
    OBVIOUS
  <1> USE DEF SessionInv, Types, Handshake, Released, EndsAfterChild, StatusWaits,
              processVars, signalVars, ChildTo
  <1>1. CASE InstallFilter
    BY <1>1 DEF InstallFilter
  <1>2. CASE SendNotifyFd
    BY <1>2 DEF SendNotifyFd
  <1>3. CASE CloseFds
    <2>1. socket' = [socket EXCEPT !.childEnds = 0]
      <3>1. socket.childEnds = 1
        BY <1>3 DEF CloseFds
      <3>2. socket.childEnds - 1 = 0
        BY ONLY <3>1
      <3> QED BY <1>3, <3>2 DEF CloseFds
    <2>3. /\ socket'.ack = socket.ack /\ socket'.childEnds = 0
          /\ socket' \in [fd : BOOLEAN, ack : BOOLEAN, parentEnd : BOOLEAN, childEnds : {0, 1}]
      BY <2>1
    <2>2. Direct \notin zombies /\ fd = "open"
      BY <1>3 DEF CloseFds
    <2> QED BY <1>3, <2>2, <2>3 DEF CloseFds
  <1>4. CASE CloseExtraFds
    BY <1>4 DEF CloseExtraFds
  <1>5. CASE Exec
    BY <1>5 DEF Exec
  <1>6. CASE Fatal
    <2>1. \/ socket' = [socket EXCEPT !.childEnds = 0]
          \/ socket' = [socket EXCEPT !.childEnds = socket.childEnds]
      <3>1. child \in {"setup", "filtered", "sent"} => socket.childEnds = 1
        OBVIOUS
      <3>2. ASSUME socket.childEnds = 1 PROVE socket.childEnds - 1 = 0
        BY ONLY <3>2
      <3> QED BY <1>6, <3>1, <3>2 DEF Fatal, ChildEnds
    <2>3. /\ socket'.ack = socket.ack
          /\ socket' \in [fd : BOOLEAN, ack : BOOLEAN, parentEnd : BOOLEAN, childEnds : {0, 1}]
      BY <2>1
    <2>2. child' = "dead" /\ parent # "start"
      BY <1>6 DEF Fatal, ChildEnds
    <2> QED BY <1>6, <2>2, <2>3 DEF Fatal, Dies
  <1> QED BY <1>1, <1>2, <1>3, <1>4, <1>5, <1>6 DEF SandboxChild

LEMMA SessionStep == SessionInv /\ [Next]_vars => SessionInv'
  <1> SUFFICES ASSUME SessionInv, [Next]_vars PROVE SessionInv'
    OBVIOUS
  <1> USE DEF SessionInv, Types, Handshake, Released, EndsAfterChild, StatusWaits,
              processVars, signalVars
  <1>1. CASE parent # "exited" /\ Main
    BY <1>1, MainKeeps
  <1>2. CASE SandboxChild
    BY <1>2, ChildKeeps
  <1>3. CASE WaitSees
    BY <1>3 DEF WaitSees
  <1>4. CASE Wait4
    BY <1>4 DEF Wait4
  <1>5. CASE RunReturns \/ RunFails
    BY <1>5 DEF RunReturns, RunFails
  <1>6. CASE \E s \in Statuses : CommandExits(s)
    BY <1>6 DEF CommandExits, ChildEnds, Dies
  <1>7. CASE \E d \in Daemons : Adopt(d)
    BY <1>7 DEF Adopt
  <1>8. CASE \E d \in Daemons : DaemonExits(d)
    BY <1>8, SessionAssumption DEF DaemonExits, Dies
  <1>9. CASE Terminate \/ \E sig \in Signals : Notify(sig)
    BY <1>9 DEF Terminate, Notify
  <1>10. CASE UNCHANGED vars
    <2>1. /\ parent' = parent /\ exit' = exit /\ child' = child /\ holdsFd' = holdsFd
          /\ socket' = socket /\ fd' = fd /\ waiter' = waiter /\ done' = done
          /\ zombies' = zombies
      BY <1>10 DEF vars
    <2>2. Types'
      BY <2>1
    <2>3. Handshake'
      BY <2>1
    <2>4. EndsAfterChild'
      BY <2>1
    <2>5. StatusWaits'
      BY <2>1
    <2> QED BY <2>2, <2>3, <2>4, <2>5
  <1> QED BY <1>1, <1>2, <1>3, <1>4, <1>5, <1>6, <1>7, <1>8, <1>9, <1>10 DEF Next, Waiter

LEMMA SessionAlways == Spec => []SessionInv
  BY SessionInit, SessionStep, PTL DEF Spec

(* Wherever the child or the parent fails, the command runs only while the *)
(* parent holds the notification fd, has not closed it and has not         *)
(* returned, and it never holds the fd itself (child.go:107).              *)
THEOREM CommandIsSupervised == Spec => []TargetIsSupervised
  <1>1. SessionInv => TargetIsSupervised
    BY DEF SessionInv, Types, Handshake, Released, EndsAfterChild, TargetIsSupervised
  <1> QED BY <1>1, SessionAlways, PTL

(* However deaths, reaping and waiting interleave, child.Wait finds the    *)
(* child it saw and the status of the command is delivered                 *)
(* (cmd_run.go:390-394).                                                   *)
THEOREM StatusIsKept == Spec => []StatusKept
  <1>1. SessionInv => StatusKept
    BY DEF SessionInv, StatusWaits, StatusKept
  <1> QED BY <1>1, SessionAlways, PTL
=============================================================================
