----------------------------- MODULE RPCServer ------------------------------
(***************************************************************************)
(* The socket server of internal/stats/server.go and its clients           *)
(* (internal/rpc/client.go). Serve accepts connections and starts a        *)
(* goroutine for each, which reads one request, answers it and closes the  *)
(* connection. Close stops the listener and waits for the goroutines.      *)
(*                                                                         *)
(* A connection is counted in the wait group after Accept has returned it, *)
(* so Close may find the group empty in between. Accept errors before      *)
(* Close are retried and change nothing. A request is any of the commands, *)
(* known or not: each gets one answer. What they compute is in Stats and   *)
(* Supervisor.                                                             *)
(***************************************************************************)
EXTENDS FiniteSets

CONSTANTS
  Conns,   \* connections of one session
  NoConn   \* Serve holds no connection

ASSUME ServerAssumption == NoConn \notin Conns

VARIABLES
  conn,      \* per connection: its state at the server
  accepted,  \* the connection Accept returned, not yet counted
  serving,   \* Serve has not returned
  listening, \* the listener is open
  closer     \* where Close is

serverVars == <<conn, accepted, serving, listening, closer>>

ServerInit ==
  /\ conn = [c \in Conns |-> "absent"]
  /\ accepted = NoConn
  /\ serving = TRUE
  /\ listening = TRUE
  /\ closer = "before"

-----------------------------------------------------------------------------
(* Call connects, sends one request and reads one answer. Its deadline     *)
(* ends a call that gets no answer, and the connection with it.            *)

Connect(c) ==
  /\ conn[c] = "absent"
  /\ listening
  /\ conn' = [conn EXCEPT ![c] = "queued"]
  /\ UNCHANGED <<accepted, serving, listening, closer>>

-----------------------------------------------------------------------------
(* Serve.                                                                  *)

Accept(c) ==
  /\ serving
  /\ listening
  /\ accepted = NoConn
  /\ conn[c] = "queued"
  /\ accepted' = c
  /\ conn' = [conn EXCEPT ![c] = "accepted"]
  /\ UNCHANGED <<serving, listening, closer>>

(* s.wg.Add(1) and the start of the goroutine.                             *)
Register(c) ==
  /\ serving
  /\ accepted = c
  /\ accepted' = NoConn
  /\ conn' = [conn EXCEPT ![c] = "reading"]
  /\ UNCHANGED <<serving, listening, closer>>

(* Accept fails on the closed listener; done is closed before it.          *)
ServeReturns ==
  /\ serving
  /\ accepted = NoConn
  /\ ~ listening
  /\ serving' = FALSE
  /\ UNCHANGED <<conn, accepted, listening, closer>>

-----------------------------------------------------------------------------
(* handleConn. The read of the request ends when the client sends one, or  *)
(* hangs up, or sends what is not a request.                               *)

Decode(c) ==
  /\ conn[c] = "reading"
  /\ conn' = [conn EXCEPT ![c] = "answering"]
  /\ UNCHANGED <<accepted, serving, listening, closer>>

DecodeError(c) ==
  /\ conn[c] = "reading"
  /\ conn' = [conn EXCEPT ![c] = "closed"]
  /\ UNCHANGED <<accepted, serving, listening, closer>>

Answer(c) ==
  /\ conn[c] = "answering"
  /\ conn' = [conn EXCEPT ![c] = "answered"]
  /\ UNCHANGED <<accepted, serving, listening, closer>>

-----------------------------------------------------------------------------
(* Close.                                                                  *)

(* The connections in the wait group.                                      *)
Registered == {c \in Conns : conn[c] \in {"reading", "answering"}}

CloseListener ==
  /\ closer = "before"
  /\ listening' = FALSE
  /\ closer' = "waiting"
  /\ UNCHANGED <<conn, accepted, serving>>

(* Mutant: Close does not wait for the connections.                        *)
CloseWithoutWait ==
  /\ closer = "waiting"
  /\ closer' = "closed"
  /\ UNCHANGED <<conn, accepted, serving, listening>>

WaitConns ==
  /\ closer = "waiting"
  /\ Registered = {}
  /\ closer' = "closed"
  /\ UNCHANGED <<conn, accepted, serving, listening>>

ServeStep == ServeReturns \/ \E c \in Conns : Accept(c) \/ Register(c)
ConnStep(c) == Connect(c) \/ Decode(c) \/ DecodeError(c) \/ Answer(c)
=============================================================================
