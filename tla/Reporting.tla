----------------------------- MODULE Reporting ------------------------------
(***************************************************************************)
(* What a session reports and how it stops reporting: handlers count a     *)
(* decision and then log it (handler.go), the audit writer and the socket  *)
(* server work beside them, and at the end of runSandboxInner              *)
(* (cmd_run.go) the deferred calls close the server and then the log, and  *)
(* the process exits under whatever still runs. Handlers are not waited    *)
(* for.                                                                    *)
(***************************************************************************)
EXTENDS AuditLog, Stats, RPCServer

VARIABLE main   \* runSandboxInner: "running", "server", "log" or "exited"

vars == <<auditVars, statsVars, serverVars, main>>

Init == AuditInit /\ StatsInit /\ ServerInit /\ main = "running"

(* A handler reports to the collector first and then to the log.           *)
Handle(h) ==
  /\ \/ RecordStep(h) /\ UNCHANGED auditVars
     \/ recording[h] = "recorded" /\ LogStep(h) /\ UNCHANGED statsVars
  /\ UNCHANGED <<serverVars, main>>

Writer == WriterStep /\ UNCHANGED <<statsVars, serverVars, main>>

Serve == ServeStep /\ UNCHANGED <<auditVars, statsVars, main>>

Connection(c) == ConnStep(c) /\ UNCHANGED <<auditVars, statsVars, main>>

-----------------------------------------------------------------------------
(* The deferred calls of runSandboxInner, last registered first.           *)

CloseServer ==
  /\ main = "running"
  /\ CloseListener
  /\ main' = "server"
  /\ UNCHANGED <<auditVars, statsVars>>

ServerClosed ==
  /\ main = "server"
  /\ WaitConns
  /\ main' = "server"
  /\ UNCHANGED <<auditVars, statsVars>>

CloseLog ==
  /\ main = "server"
  /\ closer = "closed"
  /\ CloseAudit
  /\ main' = "log"
  /\ UNCHANGED <<statsVars, serverVars>>

Exit ==
  /\ main = "log"
  /\ writerStopped
  /\ main' = "exited"
  /\ UNCHANGED <<auditVars, statsVars, serverVars>>

Shutdown == CloseServer \/ ServerClosed \/ CloseLog \/ Exit

Next ==
  /\ main # "exited"
  /\ \/ \E h \in Handlers : Handle(h)
     \/ Writer
     \/ Serve
     \/ \E c \in Conns : Connection(c)
     \/ Shutdown

(* What the program itself does once started: its goroutines run. Nothing  *)
(* says that a session ends, that a client connects, that a handler        *)
(* starts, or that a client that has connected sends anything: handleConn  *)
(* sets no deadline on its read.                                           *)
Underway ==
  /\ main # "exited"
  /\ \/ \E h \in Handlers : recording[h] # "before" /\ Handle(h)
     \/ Writer
     \/ Serve
     \/ \E c \in Conns : conn[c] = "answering" /\ Connection(c)
     \/ main # "running" /\ Shutdown

(* No goroutine has endless work here, so it is enough that some step that *)
(* is under way is taken.                                                  *)
Fairness == WF_vars(Underway)

Spec == Init /\ [][Next]_vars /\ Fairness

-----------------------------------------------------------------------------
(* Close "flushes all queued records" (logger.go:82), and the program does *)
(* not exit before: no record queued before Close is missing at the exit,  *)
(* but for lines the file system refused.                                  *)
FlushedAtExit ==
  main = "exited" =>
    LET missing == {h \in early : \A i \in 1..Len(file) : file[i].of # h}
    IN  Cardinality(missing) <= refused

(* The exit ends no call in the middle: a request read before Close is     *)
(* answered although the process is about to exit.                         *)
StartedCallsAnswered ==
  \A c \in Conns :
    conn[c] = "answering" /\ closer = "before" ~> conn[c] = "answered"

(* Every client that has connected at last sends its request or hangs up.  *)
(* The program's own client does (the deadline of Call), any other need    *)
(* not.                                                                    *)
ClientsProceed == \A c \in Conns : []<>(conn[c] # "reading")

(* Once the session has ended the process exits, unless a client stays     *)
(* connected and silent: Close waits for the connections (server.go:74)    *)
(* and for the writer (logger.go:85), and the log is closed only after the *)
(* server. Nothing but such a client holds it up.                          *)
ShutdownCompletes == ClientsProceed => (main = "server" ~> main = "exited")
=============================================================================
