-------------------------- MODULE ReportingProofs ---------------------------
(***************************************************************************)
(* What a session reports, for every number of handlers and every size of  *)
(* the queue and of the rings: the audit log implements the lossy log and  *)
(* is flushed before the exit, no count is lost, and the rings show the    *)
(* newest entries.                                                         *)
(***************************************************************************)
EXTENDS Reporting, FiniteSetTheorems, TLAPS

(* Every step of the session is a step of the log and of the statistics,   *)
(* or leaves them alone.                                                   *)
LEMMA StepProjects ==
  ASSUME [Next]_vars
  PROVE  /\ AuditNext \/ UNCHANGED auditVars
         /\ (\E h \in Handlers : RecordStep(h)) \/ UNCHANGED statsVars
         /\ main' = "exited" => UNCHANGED auditVars /\ (main = "exited" \/ writerStopped)
  <1>1. CASE main # "exited" /\ \E h \in Handlers : Handle(h)
    BY <1>1 DEF Handle, AuditNext
  <1>2. CASE main # "exited" /\ Writer
    BY <1>2 DEF Writer, AuditNext
  <1>3. CASE main # "exited" /\ (Serve \/ \E c \in Conns : Connection(c))
    BY <1>3 DEF Serve, Connection
  <1>4. CASE CloseServer \/ ServerClosed
    BY <1>4 DEF CloseServer, ServerClosed
  <1>5. CASE CloseLog
    BY <1>5 DEF CloseLog, AuditNext
  <1>6. CASE Exit
    BY <1>6 DEF Exit
  <1>7. CASE UNCHANGED vars
    BY <1>7 DEF vars
  <1> QED BY <1>1, <1>2, <1>3, <1>4, <1>5, <1>6, <1>7 DEF Next, Shutdown

-----------------------------------------------------------------------------
(* The audit log.                                                          *)

Lines == [kind : {"record", "audit_overflow"}, of : Handlers \cup {NoRecord} \cup Nat]

AuditTypes ==
  /\ logging \in [Handlers -> {"before", "full", "returned"}]
  /\ queue \in Seq(Handlers)
  /\ dropped \in Nat
  /\ refused \in Nat
  /\ file \in Seq(Lines)
  /\ writer \in [pc : {"select", "swap", "overflow", "line", "stopped"},
                 rec : Handlers \cup {NoRecord}, n : Nat]

(* The writer holds a record from the receive to its line, and a count     *)
(* from the swap to the line that reports it. The callers that are about   *)
(* to count a drop are finitely many.                                      *)
WriterInv ==
  /\ writer.rec = NoRecord <=> writer.pc \in {"select", "stopped"}
  /\ writer.n # 0 <=> writer.pc = "overflow"
  /\ IsFiniteSet(Counting)

AuditInv == AuditTypes /\ WriterInv

LEMMA AuditStart == AuditInit => AuditInv
  <1> SUFFICES ASSUME AuditInit PROVE AuditInv
    OBVIOUS
  <1>1. AuditTypes
    BY DEF AuditInit, AuditTypes, Idle
  <1>2. Counting = {}
    BY DEF AuditInit, Counting
  <1> QED BY <1>1, <1>2, FS_EmptySet DEF AuditInv, WriterInv, AuditInit, Idle

(* The callers about to count a drop, and their number, after a step of    *)
(* one of them.                                                            *)
LEMMA CountingStep ==
  ASSUME AuditInv, NEW h \in Handlers, NEW to \in {"before", "full", "returned"},
         logging' = [logging EXCEPT ![h] = to]
  PROVE  /\ logging' \in [Handlers -> {"before", "full", "returned"}]
         /\ IsFiniteSet(Counting')
         /\ Cardinality(Counting) \in Nat /\ Cardinality(Counting') \in Nat
         /\ logging[h] = "before" /\ to = "returned" => Counting' = Counting
         /\ logging[h] = "before" /\ to = "full" =>
              Cardinality(Counting') = Cardinality(Counting) + 1
         /\ logging[h] = "full" /\ to = "returned" =>
              Cardinality(Counting') = Cardinality(Counting) - 1
         /\ logging[h] = "full" /\ to = "returned" => Cardinality(Counting) > 0
  <1>1. IsFiniteSet(Counting) /\ logging \in [Handlers -> {"before", "full", "returned"}]
    BY DEF AuditInv, AuditTypes, WriterInv
  <1>2. logging' \in [Handlers -> {"before", "full", "returned"}]
    BY <1>1
  <1>3. CASE to = "full"
    <2>1. Counting' = Counting \cup {h} /\ (logging[h] = "before" => h \notin Counting)
      BY <1>1, <1>3 DEF Counting
    <2> QED BY <1>1, <1>2, <1>3, <2>1, FS_AddElement, FS_CardinalityType
  <1>4. CASE to # "full"
    <2>1. Counting' = Counting \ {h} /\ (logging[h] = "full" => h \in Counting)
          /\ (logging[h] = "before" => h \notin Counting)
      BY <1>1, <1>4 DEF Counting
    <2>2. /\ IsFiniteSet(Counting')
          /\ Cardinality(Counting') = IF h \in Counting THEN Cardinality(Counting) - 1
                                      ELSE Cardinality(Counting)
      BY <1>1, <2>1, FS_RemoveElement
    <2>3. Cardinality(Counting) \in Nat /\ Cardinality(Counting') \in Nat
      BY <1>1, <2>2, FS_CardinalityType
    <2>4. logging[h] = "before" => Counting' = Counting
      BY <2>1
    <2>5. logging[h] = "full" => Cardinality(Counting) > 0
      BY <2>1, <2>2, <2>3
    <2> QED BY <1>2, <1>4, <2>1, <2>2, <2>3, <2>4, <2>5
  <1> QED BY <1>3, <1>4

LEMMA LineWritten ==
  ASSUME AuditInv, NEW line \in Lines, writeLine(line)
  PROVE  file' \in Seq(Lines) /\ refused' \in Nat
  <1>1. file \in Seq(Lines) /\ refused \in Nat
    BY DEF AuditInv, AuditTypes
  <1>2. Append(file, line) \in Seq(Lines) /\ refused + 1 \in Nat
    <2> HIDE DEF Lines
    <2> QED BY <1>1
  <1>3. \/ file' = Append(file, line) /\ refused' = refused
        \/ refused' = refused + 1 /\ file' = file
    BY DEF writeLine
  <1> QED BY <1>1, <1>2, <1>3

LEMMA AuditStep == AuditInv /\ (AuditNext \/ UNCHANGED auditVars) => AuditInv'
  <1> SUFFICES ASSUME AuditInv, AuditNext \/ UNCHANGED auditVars PROVE AuditInv'
    OBVIOUS
  <1>0. UNCHANGED logging => UNCHANGED Counting
    BY DEF Counting
  <1>1. ASSUME NEW h \in Handlers, LogStep(h) PROVE AuditInv'
    <2>1. PICK to \in {"before", "full", "returned"} : logging' = [logging EXCEPT ![h] = to]
      BY <1>1 DEF LogStep, LogFiltered, LogQueued, LogFull, CountDropped
    <2>2. /\ logging' \in [Handlers -> {"before", "full", "returned"}]
          /\ IsFiniteSet(Counting')
      BY <2>1, CountingStep
    <2>3. /\ writer' = writer /\ file' = file /\ refused' = refused
          /\ dropped' \in {dropped, dropped + 1}
          /\ queue' = queue \/ queue' = Append(queue, h)
      BY <1>1 DEF LogStep, LogFiltered, LogQueued, LogFull, CountDropped
    <2>4. queue' \in Seq(Handlers) /\ dropped' \in Nat
      <3>1. queue \in Seq(Handlers) /\ dropped \in Nat
        BY DEF AuditInv, AuditTypes
      <3>2. dropped + 1 \in Nat /\ Append(queue, h) \in Seq(Handlers)
        BY <3>1
      <3> QED BY <2>3, <3>1, <3>2
    <2> QED BY <2>2, <2>3, <2>4 DEF AuditInv, AuditTypes, WriterInv
  <1>2. CASE Receive
    <2>1. Head(queue) \in Handlers /\ Tail(queue) \in Seq(Handlers)
      BY <1>2 DEF Receive, AuditInv, AuditTypes
    <2> QED BY <1>0, <1>2, <2>1, AuditAssumption
            DEF Receive, AuditInv, AuditTypes, WriterInv
  <1>3. CASE SeeDone
    BY <1>0, <1>3 DEF SeeDone, AuditInv, AuditTypes, WriterInv
  <1>4. CASE Stop
    BY <1>0, <1>4 DEF Stop, AuditInv, AuditTypes, WriterInv
  <1>5. CASE Swap
    <2>1. /\ dropped \in Nat /\ writer.rec \in Handlers \cup {NoRecord}
          /\ writer.rec # NoRecord
          /\ writer \in [pc : {"select", "swap", "overflow", "line", "stopped"},
                         rec : Handlers \cup {NoRecord}, n : Nat]
      BY <1>5 DEF Swap, AuditInv, AuditTypes, WriterInv
    <2>2. PICK to \in {"overflow", "line"} :
            /\ to = "overflow" <=> dropped > 0
            /\ writer' = [writer EXCEPT !.pc = to, !.n = dropped]
      BY <1>5 DEF Swap
    <2>3. /\ writer' \in [pc : {"select", "swap", "overflow", "line", "stopped"},
                          rec : Handlers \cup {NoRecord}, n : Nat]
          /\ writer'.pc = to /\ writer'.rec = writer.rec /\ writer'.n = dropped
      BY <2>1, <2>2
    <2>4. WriterInv'
      <3>1. dropped # 0 <=> dropped > 0
        BY <2>1
      <3> QED BY <1>0, <1>5, <2>1, <2>2, <2>3, <3>1 DEF Swap, AuditInv, WriterInv
    <2> QED BY <1>5, <2>3, <2>4 DEF Swap, AuditInv, AuditTypes
  <1>6. CASE WriteOverflow
    <2>1. [kind |-> "audit_overflow", of |-> writer.n] \in Lines
      BY DEF AuditInv, AuditTypes, Lines
    <2>2. file' \in Seq(Lines) /\ refused' \in Nat
      BY <1>6, <2>1, LineWritten DEF WriteOverflow
    <2> QED BY <1>0, <1>6, <2>2 DEF WriteOverflow, AuditInv, AuditTypes, WriterInv
  <1>7. CASE WriteRecord
    <2>1. [kind |-> "record", of |-> writer.rec] \in Lines
      BY DEF AuditInv, AuditTypes, Lines
    <2>2. file' \in Seq(Lines) /\ refused' \in Nat
      BY <1>7, <2>1, LineWritten DEF WriteRecord
    <2> QED BY <1>0, <1>7, <2>2 DEF WriteRecord, Idle, AuditInv, AuditTypes, WriterInv
  <1>8. CASE CloseAudit
    BY <1>0, <1>8 DEF CloseAudit, AuditInv, AuditTypes, WriterInv
  <1>9. CASE UNCHANGED auditVars
    BY <1>0, <1>9 DEF auditVars, AuditInv, AuditTypes, WriterInv
  <1> QED BY <1>1, <1>2, <1>3, <1>4, <1>5, <1>6, <1>7, <1>8, <1>9 DEF AuditNext, WriterStep

LEMMA AuditAlways == Spec => []AuditInv
  <1>1. Init => AuditInv
    BY AuditStart DEF Init
  <1>2. AuditInv /\ [Next]_vars => AuditInv'
    BY StepProjects, AuditStep
  <1> QED BY <1>1, <1>2, PTL DEF Spec

-----------------------------------------------------------------------------
(* Refinement. The mapping is that of AuditLog; these are its three parts. *)

Fresh == {h \in Handlers : logging[h] = "before"}
Waiting == InHand \o queue
Unreported == dropped + writer.n + Cardinality(Counting)

LEMMA AbstractInit == AuditInit => Abstract!Init
  <1> SUFFICES ASSUME AuditInit PROVE Abstract!Init
    OBVIOUS
  <1>1. Counting = {} /\ Fresh = Handlers
    BY DEF AuditInit, Counting, Fresh
  <1>2. Cardinality(Counting) = 0
    BY <1>1, FS_EmptySet
  <1>3. Waiting = << >> /\ Unreported = 0
    BY <1>2 DEF AuditInit, Waiting, InHand, Unreported, Idle
  <1> QED BY <1>1, <1>3 DEF AuditInit, Abstract!Init, Fresh, Waiting, Unreported

(* The steps of the writer that write a line, and the offers of handlers,  *)
(* are steps of the lossy log; all others are internal.                    *)
LEMMA AbstractStep ==
  AuditInv /\ (AuditNext \/ UNCHANGED auditVars) => [Abstract!Next]_(Abstract!logVars)
  <1> SUFFICES ASSUME AuditInv, AuditNext \/ UNCHANGED auditVars
               PROVE  [Abstract!Next]_(Abstract!logVars)
    OBVIOUS
  <1>0. /\ queue \in Seq(Handlers) /\ dropped \in Nat /\ writer.n \in Nat
        /\ Cardinality(Counting) \in Nat
        /\ writer.rec = NoRecord <=> writer.pc \in {"select", "stopped"}
        /\ writer.n # 0 <=> writer.pc = "overflow"
        /\ writer.rec \in Handlers \cup {NoRecord}
        /\ logging \in [Handlers -> {"before", "full", "returned"}]
    BY FS_CardinalityType DEF AuditInv, AuditTypes, WriterInv
  <1>1. ASSUME Fresh' = Fresh, Waiting' = Waiting, Unreported' = Unreported,
               file' = file, refused' = refused
        PROVE  [Abstract!Next]_(Abstract!logVars)
    BY <1>1 DEF Abstract!logVars, Fresh, Waiting, Unreported
  <1>2. UNCHANGED logging => Fresh' = Fresh /\ Cardinality(Counting') = Cardinality(Counting)
    BY DEF Fresh, Counting
  <1>3. ASSUME NEW h \in Handlers, LogFiltered(h) PROVE Abstract!Next
    <2>1. Counting' = Counting
      BY <1>3, CountingStep DEF LogFiltered
    <2>2. h \in Fresh /\ Fresh' = Fresh \ {h}
      BY <1>0, <1>3 DEF LogFiltered, Fresh
    <2>3. Waiting' = Waiting /\ Unreported' = Unreported /\ file' = file /\ refused' = refused
      BY <1>3, <2>1 DEF LogFiltered, Waiting, InHand, Unreported
    <2> QED BY <2>2, <2>3
            DEF Abstract!Next, Abstract!Ignore, Abstract!Offer, Fresh, Waiting, Unreported
  <1>4. ASSUME NEW h \in Handlers, LogQueued(h) PROVE Abstract!Next
    <2>1. Counting' = Counting
      BY <1>4, CountingStep DEF LogQueued
    <2>2. h \in Fresh /\ Fresh' = Fresh \ {h}
      BY <1>0, <1>4 DEF LogQueued, Fresh
    <2>3. Waiting' = Append(Waiting, h)
      <3>1. InHand' = InHand /\ InHand \in Seq(Handlers) /\ queue' = Append(queue, h)
        BY <1>0, <1>4 DEF LogQueued, InHand
      <3> QED BY <1>0, <3>1 DEF Waiting
    <2>4. Unreported' = Unreported /\ file' = file /\ refused' = refused
      BY <1>4, <2>1 DEF LogQueued, Unreported
    <2> QED BY <2>2, <2>3, <2>4
            DEF Abstract!Next, Abstract!Accept, Abstract!Offer, Fresh, Waiting, Unreported
  <1>5. ASSUME NEW h \in Handlers, LogFull(h) PROVE Abstract!Next
    <2>1. Cardinality(Counting') = Cardinality(Counting) + 1
      BY <1>5, CountingStep DEF LogFull
    <2>2. h \in Fresh /\ Fresh' = Fresh \ {h}
      BY <1>0, <1>5 DEF LogFull, Fresh
    <2>3. Unreported' = Unreported + 1
      <3>1. dropped' = dropped /\ writer' = writer
        BY <1>5 DEF LogFull
      <3>2. dropped + writer.n + (Cardinality(Counting) + 1)
              = (dropped + writer.n + Cardinality(Counting)) + 1
        <4>1. \A a, b, c \in Nat : a + b + (c + 1) = (a + b + c) + 1
          OBVIOUS
        <4> QED BY ONLY <1>0, <4>1
      <3> QED BY <2>1, <3>1, <3>2 DEF Unreported
    <2>4. Waiting' = Waiting /\ file' = file /\ refused' = refused
      BY <1>5 DEF LogFull, Waiting, InHand
    <2> QED BY <2>2, <2>3, <2>4
            DEF Abstract!Next, Abstract!Drop, Abstract!Offer, Fresh, Waiting, Unreported
  <1>6. ASSUME NEW h \in Handlers, CountDropped(h) PROVE [Abstract!Next]_(Abstract!logVars)
    <2>1. Cardinality(Counting') = Cardinality(Counting) - 1
      BY <1>6, CountingStep DEF CountDropped
    <2>2. Fresh' = Fresh
      BY <1>0, <1>6 DEF CountDropped, Fresh
    <2>3. Unreported' = Unreported
      BY <1>0, <1>6, <2>1 DEF CountDropped, Unreported
    <2>4. Waiting' = Waiting /\ file' = file /\ refused' = refused
      BY <1>6 DEF CountDropped, Waiting, InHand
    <2> QED BY <1>1, <2>2, <2>3, <2>4
  <1>7. CASE Receive
    <2>1. /\ InHand = << >> /\ InHand' = <<Head(queue)>> /\ queue' = Tail(queue)
          /\ queue # << >>
      BY <1>0, <1>7, AuditAssumption DEF Receive, InHand
    <2>2. Waiting' = Waiting
      BY <1>0, <2>1 DEF Waiting
    <2>3. Unreported' = Unreported /\ file' = file /\ refused' = refused
      BY <1>0, <1>2, <1>7 DEF Receive, Unreported
    <2> QED BY <1>1, <1>2, <1>7, <2>2, <2>3 DEF Receive
  <1>8. CASE SeeDone \/ CloseAudit
    <2>1. Waiting' = Waiting /\ Unreported' = Unreported
      BY <1>2, <1>8 DEF SeeDone, CloseAudit, Waiting, InHand, Unreported
    <2> QED BY <1>1, <1>2, <1>8, <2>1 DEF SeeDone, CloseAudit
  <1>9. CASE Stop
    <2>1. writer'.rec = writer.rec /\ writer'.n = writer.n
      BY <1>9 DEF Stop, AuditInv, AuditTypes
    <2>2. Waiting' = Waiting /\ Unreported' = Unreported
      BY <1>2, <1>9, <2>1 DEF Stop, Waiting, InHand, Unreported
    <2> QED BY <1>1, <1>2, <1>9, <2>2 DEF Stop
  <1>10. CASE Swap
    <2>1. writer'.rec = writer.rec /\ writer'.n = dropped /\ writer.n = 0 /\ dropped' = 0
      BY <1>0, <1>10 DEF Swap, AuditInv, AuditTypes
    <2>2. Waiting' = Waiting /\ Unreported' = Unreported
      BY <1>0, <1>2, <1>10, <2>1 DEF Swap, Waiting, InHand, Unreported
    <2> QED BY <1>1, <1>2, <1>10, <2>2 DEF Swap
  <1>11. CASE WriteOverflow
    <2>1. writer'.rec = writer.rec /\ writer'.n = 0 /\ writer.n \in 1..Unreported
      BY <1>0, <1>11 DEF WriteOverflow, AuditInv, AuditTypes, Unreported
    <2>2. Waiting' = Waiting /\ Unreported' = Unreported - writer.n
      BY <1>0, <1>2, <1>11, <2>1 DEF WriteOverflow, Waiting, InHand, Unreported
    <2>3. Abstract!Put(Abstract!OverflowLine(writer.n))
      BY <1>11 DEF WriteOverflow, writeLine, Abstract!Put, Abstract!OverflowLine
    <2>4. Fresh' = Fresh
      BY <1>2, <1>11 DEF WriteOverflow
    <2>5. Abstract!Report(writer.n)
      BY <2>1, <2>2, <2>3, <2>4 DEF Abstract!Report, Fresh, Waiting, Unreported
    <2> QED BY <2>1, <2>5 DEF Abstract!Next, Unreported
  <1>12. CASE WriteRecord
    <2>1. /\ InHand = <<writer.rec>> /\ InHand' = << >> /\ queue' = queue
          /\ writer.rec \in Handlers /\ writer.n = 0 /\ writer'.n = 0
      BY <1>0, <1>12 DEF WriteRecord, InHand, Idle
    <2>2. Waiting # << >> /\ Head(Waiting) = writer.rec /\ Waiting' = Tail(Waiting)
      BY <1>0, <2>1 DEF Waiting
    <2>3. Abstract!Put(Abstract!RecordLine(writer.rec))
      BY <1>12 DEF WriteRecord, writeLine, Abstract!Put, Abstract!RecordLine
    <2>4. Fresh' = Fresh /\ Unreported' = Unreported
      BY <1>2, <1>12, <2>1 DEF WriteRecord, Unreported
    <2>5. Abstract!Write
      BY <2>2, <2>3, <2>4 DEF Abstract!Write, Fresh, Waiting, Unreported
    <2> QED BY <2>5 DEF Abstract!Next
  <1>13. CASE UNCHANGED auditVars
    <2>1. Waiting' = Waiting /\ Unreported' = Unreported
      BY <1>2, <1>13 DEF auditVars, Waiting, InHand, Unreported
    <2> QED BY <1>1, <1>2, <1>13, <2>1 DEF auditVars
  <1> QED BY <1>3, <1>4, <1>5, <1>6, <1>7, <1>8, <1>9, <1>10, <1>11, <1>12, <1>13
          DEF AuditNext, WriterStep, LogStep

(* Log, run and write together implement the lossy log (logger.go): each   *)
(* record reaches the file once and in order or is counted as dropped, and *)
(* no drop is reported twice, however callers and the writer interleave.   *)
THEOREM AuditLogIsLossyLog == Spec => RefinesLossyLog
  <1>1. Init => Abstract!Init
    BY AbstractInit DEF Init
  <1>2. AuditInv /\ [Next]_vars => [Abstract!Next]_(Abstract!logVars)
    BY StepProjects, AbstractStep
  <1> QED BY <1>1, <1>2, AuditAlways, PTL DEF Spec, RefinesLossyLog, Abstract!Spec

-----------------------------------------------------------------------------
(* Close flushes the queue.                                                *)

InFile(h) == \E i \in 1..Len(file) : file[i].of = h
Queued(h) == \E i \in 1..Len(queue) : queue[i] = h

(* The records accepted before Close that are nowhere any more.            *)
Gone == {h \in early : ~ InFile(h) /\ ~ Queued(h) /\ h # writer.rec}

(* A record leaves the queue for the writer and the writer for the file,   *)
(* unless its line is refused. The writer stops with an empty queue; what  *)
(* is queued later was not accepted before Close.                          *)
FlushInv ==
  /\ early \subseteq Handlers
  /\ \A h \in early : logging[h] # "before"
  /\ draining => done
  /\ writerStopped => draining /\ \A h \in early : ~ Queued(h)
  /\ IsFiniteSet(Gone) /\ Cardinality(Gone) <= refused

LEMMA FlushStart == AuditInit => FlushInv
  <1> SUFFICES ASSUME AuditInit PROVE FlushInv
    OBVIOUS
  <1>1. Gone = {}
    BY DEF AuditInit, Gone
  <1>2. IsFiniteSet(Gone) /\ Cardinality(Gone) = 0
    BY <1>1, FS_EmptySet
  <1> QED BY <1>2 DEF AuditInit, FlushInv, writerStopped, Idle

(* No more records are gone than lines refused, if none went in this step  *)
(* or one did and its line was refused.                                    *)
LEMMA GoneStep ==
  ASSUME AuditInv, FlushInv,
         \/ Gone' \subseteq Gone /\ refused' \in {refused, refused + 1}
         \/ \E h : Gone' \subseteq Gone \cup {h} /\ refused' = refused + 1
  PROVE  IsFiniteSet(Gone') /\ Cardinality(Gone') <= refused'
  <1>1. /\ IsFiniteSet(Gone) /\ Cardinality(Gone) \in Nat /\ refused \in Nat
        /\ Cardinality(Gone) <= refused
    BY FS_CardinalityType DEF FlushInv, AuditInv, AuditTypes
  <1>2. CASE Gone' \subseteq Gone /\ refused' \in {refused, refused + 1}
    <2>1. /\ IsFiniteSet(Gone') /\ Cardinality(Gone') <= Cardinality(Gone)
      BY <1>1, <1>2, FS_Subset
    <2>2. Cardinality(Gone') \in Nat
      BY <2>1, FS_CardinalityType
    <2> QED BY <1>1, <1>2, <2>1, <2>2
  <1>3. ASSUME NEW h, Gone' \subseteq Gone \cup {h}, refused' = refused + 1
        PROVE  IsFiniteSet(Gone') /\ Cardinality(Gone') <= refused'
    <2> DEFINE more == Gone \cup {h}
    <2>1. /\ IsFiniteSet(more)
          /\ Cardinality(more) = Cardinality(Gone) \/ Cardinality(more) = Cardinality(Gone) + 1
      BY <1>1, FS_AddElement
    <2>2. IsFiniteSet(Gone') /\ Cardinality(Gone') <= Cardinality(more)
      <3> HIDE DEF more
      <3>1. Gone' \subseteq more
        BY <1>3 DEF more
      <3> QED BY <2>1, <3>1, FS_Subset
    <2>3. Cardinality(Gone') \in Nat
      BY <2>2, FS_CardinalityType
    <2> HIDE DEF more
    <2> QED BY <1>1, <1>3, <2>1, <2>2, <2>3
  <1> QED BY <1>2, <1>3

LEMMA FlushStep ==
  AuditInv /\ FlushInv /\ (AuditNext \/ UNCHANGED auditVars) => FlushInv'
  <1> SUFFICES ASSUME AuditInv, FlushInv, AuditNext \/ UNCHANGED auditVars
               PROVE  FlushInv'
    OBVIOUS
  <1>0. /\ queue \in Seq(Handlers) /\ file \in Seq(Lines) /\ refused \in Nat
        /\ logging \in [Handlers -> {"before", "full", "returned"}]
        /\ writer \in [pc : {"select", "swap", "overflow", "line", "stopped"},
                       rec : Handlers \cup {NoRecord}, n : Nat]
        /\ writer.rec = NoRecord <=> writer.pc \in {"select", "stopped"}
    BY DEF AuditInv, AuditTypes, WriterInv
  <1>1. ASSUME NEW h \in Handlers, LogStep(h), ~ LogQueued(h) PROVE FlushInv'
    <2>1. /\ early' = early /\ draining' = draining /\ done' = done /\ writer' = writer
          /\ queue' = queue /\ file' = file /\ refused' = refused
          /\ \A g \in Handlers : logging[g] # "before" => logging'[g] # "before"
      BY <1>0, <1>1 DEF LogStep, LogFiltered, LogQueued, LogFull, CountDropped
    <2>2. Gone' = Gone
      BY <2>1 DEF Gone, InFile, Queued
    <2> QED BY <2>1, <2>2 DEF FlushInv, Queued, writerStopped
  <1>2. ASSUME NEW h \in Handlers, LogQueued(h) PROVE FlushInv'
    <2>1. /\ draining' = draining /\ done' = done /\ writer' = writer
          /\ queue' = Append(queue, h) /\ file' = file /\ refused' = refused
          /\ logging' = [logging EXCEPT ![h] = "returned"] /\ logging[h] = "before"
          /\ early' = IF done THEN early ELSE early \cup {h}
      BY <1>2 DEF LogQueued
    <2>2. \A g : Queued(g)' <=> Queued(g) \/ g = h
      <3>1. /\ Len(Append(queue, h)) = Len(queue) + 1 /\ Len(queue) \in Nat
            /\ Append(queue, h)[Len(queue) + 1] = h
            /\ \A i \in 1..Len(queue) : Append(queue, h)[i] = queue[i]
        BY <1>0
      <3> QED BY <2>1, <3>1 DEF Queued
    <2>3. Gone' \subseteq Gone
      BY <2>1, <2>2 DEF Gone, InFile
    <2>4. IsFiniteSet(Gone') /\ Cardinality(Gone') <= refused'
      BY <2>1, <2>3, GoneStep
    <2>5. /\ early' \subseteq Handlers
          /\ \A g \in early' : logging'[g] # "before"
      BY <1>0, <2>1 DEF FlushInv
    <2>6. writerStopped' => draining' /\ \A g \in early' : ~ Queued(g)'
      <3>1. h \notin early
        BY <2>1 DEF FlushInv
      <3> QED BY <2>1, <2>2, <3>1 DEF FlushInv, writerStopped
    <2> QED BY <2>1, <2>4, <2>5, <2>6 DEF FlushInv
  <1>3. CASE Receive
    <2>1. /\ early' = early /\ draining' = draining /\ done' = done /\ logging' = logging
          /\ file' = file /\ refused' = refused /\ queue # << >>
          /\ queue' = Tail(queue) /\ writer'.rec = Head(queue) /\ writer'.pc = "swap"
      BY <1>3 DEF Receive
    <2>2. \A g : Queued(g) => Queued(g)' \/ g = Head(queue)
      <3>1. /\ Len(Tail(queue)) = Len(queue) - 1 /\ Len(queue) \in Nat
            /\ \A i \in 1..Len(Tail(queue)) : Tail(queue)[i] = queue[i + 1]
            /\ Head(queue) = queue[1]
        BY <1>0, <2>1
      <3>2. ASSUME NEW i \in 1..Len(queue)
            PROVE  queue[i] = Head(queue) \/ \E j \in 1..Len(Tail(queue)) : Tail(queue)[j] = queue[i]
        <4>1. CASE i = 1
          BY <3>1, <4>1
        <4>2. CASE i # 1
          <5>1. i - 1 \in 1..Len(Tail(queue)) /\ (i - 1) + 1 = i
            BY <3>1, <4>2
          <5> QED BY <3>1, <5>1
        <4> QED BY <4>1, <4>2
      <3> QED BY <2>1, <3>2 DEF Queued
    <2>3. writer.rec \notin early
      BY <1>0, <1>3, AuditAssumption DEF Receive, FlushInv
    <2>4. Gone' \subseteq Gone
      BY <2>1, <2>2, <2>3 DEF Gone, InFile
    <2>5. IsFiniteSet(Gone') /\ Cardinality(Gone') <= refused'
      BY <2>1, <2>4, GoneStep
    <2> QED BY <2>1, <2>5 DEF FlushInv, writerStopped
  <1>4. CASE SeeDone \/ CloseAudit
    <2>1. /\ early' = early /\ logging' = logging /\ file' = file /\ refused' = refused
          /\ queue' = queue /\ writer' = writer /\ (draining => draining')
          /\ (draining' => done')
      BY <1>4 DEF SeeDone, CloseAudit, FlushInv
    <2>2. Gone' = Gone
      BY <2>1 DEF Gone, InFile, Queued
    <2> QED BY <2>1, <2>2 DEF FlushInv, Queued, writerStopped
  <1>5. CASE Stop \/ Swap
    <2>1. /\ early' = early /\ logging' = logging /\ file' = file /\ refused' = refused
          /\ queue' = queue /\ draining' = draining /\ done' = done
          /\ writer'.rec = writer.rec
          /\ writer'.pc = "stopped" => queue = << >> /\ draining
      BY <1>0, <1>5 DEF Stop, Swap
    <2>2. Gone' = Gone
      BY <2>1 DEF Gone, InFile, Queued
    <2>3. queue = << >> => \A g : ~ Queued(g)'
      BY <2>1 DEF Queued
    <2> QED BY <2>1, <2>2, <2>3 DEF FlushInv, writerStopped
  <1>6. CASE WriteOverflow \/ WriteRecord
    <2>1. PICK line \in Lines :
            /\ writeLine(line)
            /\ writer'.rec # writer.rec => line.of = writer.rec
      <3>1. CASE WriteOverflow
        <4> DEFINE line == [kind |-> "audit_overflow", of |-> writer.n]
        <4>1. line \in Lines /\ writer'.rec = writer.rec
          BY <1>0, <3>1 DEF WriteOverflow, Lines
        <4> QED BY <3>1, <4>1 DEF WriteOverflow
      <3>2. CASE WriteRecord
        <4> DEFINE line == [kind |-> "record", of |-> writer.rec]
        <4>1. line \in Lines /\ line.of = writer.rec
          BY <1>0 DEF Lines
        <4> QED BY <3>2, <4>1 DEF WriteRecord
      <3> QED BY <1>6, <3>1, <3>2
    <2>2. /\ early' = early /\ logging' = logging /\ queue' = queue
          /\ draining' = draining /\ done' = done /\ writer'.pc \in {"line", "select"}
          /\ writer'.rec \in {writer.rec, NoRecord}
      <3>1. CASE WriteOverflow
        BY <1>0, <3>1 DEF WriteOverflow
      <3>2. CASE WriteRecord
        BY <3>2 DEF WriteRecord, Idle
      <3> QED BY <1>6, <3>1, <3>2
    <2>3. CASE file' = Append(file, line) /\ refused' = refused
      <3>1. \A g : InFile(g)' <=> InFile(g) \/ g = line.of
        <4>1. /\ Len(Append(file, line)) = Len(file) + 1 /\ Len(file) \in Nat
              /\ Append(file, line)[Len(file) + 1] = line
              /\ \A i \in 1..Len(file) : Append(file, line)[i] = file[i]
          <5> HIDE DEF Lines
          <5> QED BY <1>0
        <4> QED BY <2>3, <4>1 DEF InFile
      <3>2. Gone' \subseteq Gone
        BY <2>1, <2>2, <3>1 DEF Gone, Queued
      <3> QED BY <2>3, <3>2, GoneStep, <2>2 DEF FlushInv, writerStopped
    <2>4. CASE refused' = refused + 1 /\ file' = file
      <3>1. Gone' \subseteq Gone \cup {writer.rec}
        BY <2>2, <2>4 DEF Gone, InFile, Queued
      <3>2. IsFiniteSet(Gone') /\ Cardinality(Gone') <= refused'
        BY <2>4, <3>1, GoneStep
      <3> QED BY <2>2, <3>2 DEF FlushInv, writerStopped
    <2> QED BY <2>1, <2>3, <2>4 DEF writeLine
  <1>7. CASE UNCHANGED auditVars
    <2>1. /\ early' = early /\ logging' = logging /\ file' = file /\ refused' = refused
          /\ queue' = queue /\ writer' = writer /\ draining' = draining /\ done' = done
      BY <1>7 DEF auditVars
    <2>2. Gone' = Gone
      BY <2>1 DEF Gone, InFile, Queued
    <2> QED BY <2>1, <2>2 DEF FlushInv, Queued, writerStopped
  <1> QED BY <1>1, <1>2, <1>3, <1>4, <1>5, <1>6, <1>7 DEF AuditNext, WriterStep

ExitInv == FlushInv /\ (main = "exited" => writerStopped)

(* No record queued before Close is missing when the program exits, but    *)
(* for lines the file system refused (logger.go:82-86, cmd_run.go).        *)
THEOREM LogIsFlushed == Spec => []FlushedAtExit
  <1>1. Init => ExitInv
    BY FlushStart DEF Init, ExitInv
  <1>2. AuditInv /\ ExitInv /\ [Next]_vars => ExitInv'
    <2> SUFFICES ASSUME AuditInv, ExitInv, [Next]_vars PROVE ExitInv'
      OBVIOUS
    <2>1. FlushInv'
      BY StepProjects, FlushStep DEF ExitInv
    <2>2. main' = "exited" => writerStopped'
      BY StepProjects DEF ExitInv, auditVars, writerStopped
    <2> QED BY <2>1, <2>2 DEF ExitInv
  <1>3. AuditInv /\ ExitInv => FlushedAtExit
    <2> SUFFICES ASSUME AuditInv, ExitInv, main = "exited"
                 PROVE  Cardinality({h \in early : \A i \in 1..Len(file) : file[i].of # h})
                          <= refused
      BY DEF FlushedAtExit
    <2>1. \A h \in early : ~ Queued(h) /\ h # writer.rec
      BY AuditAssumption DEF ExitInv, FlushInv, AuditInv, WriterInv, writerStopped
    <2>2. {h \in early : \A i \in 1..Len(file) : file[i].of # h} = Gone
      BY <2>1 DEF Gone, InFile
    <2> QED BY <2>2 DEF ExitInv, FlushInv
  <1> QED BY <1>1, <1>2, <1>3, AuditAlways, PTL DEF Spec

-----------------------------------------------------------------------------
(* The counters.                                                           *)

Past == {h \in Handlers : recording[h] \in {"counted", "recent", "recorded"}}
PastOf(k) == {h \in Past : CounterOf(h) = k}

(* Every counter that exists is complete, and that of a handler which has  *)
(* counted exists. Handlers that have counted are finitely many.           *)
CountInv ==
  /\ recording \in [Handlers -> {"before", "missed", "counted", "recent", "recorded"}]
  /\ IsFiniteSet(Past)
  /\ \A h \in Past : CounterOf(h) \in DOMAIN counters
  /\ \A k \in DOMAIN counters : counters[k] = Cardinality(PastOf(k))

(* A handler increases its counter in c, which is complete.                *)
LEMMA BumpCounts ==
  ASSUME CountInv, NEW h \in Handlers, h \notin Past, NEW c,
         recording' = [recording EXCEPT ![h] = "counted"],
         counters' = Bump(c, CounterOf(h)),
         DOMAIN counters \cup {CounterOf(h)} = DOMAIN c,
         \A k \in DOMAIN c : c[k] = Cardinality(PastOf(k))
  PROVE  CountInv'
  <1>1. /\ recording' \in [Handlers -> {"before", "missed", "counted", "recent", "recorded"}]
        /\ Past' = Past \cup {h}
    BY DEF CountInv, Past
  <1>2. IsFiniteSet(Past) /\ IsFiniteSet(Past')
    BY <1>1, FS_AddElement DEF CountInv
  <1>3. \A k : IsFiniteSet(PastOf(k))
    BY <1>2, FS_Subset DEF PastOf
  <1>4. PastOf(CounterOf(h))' = PastOf(CounterOf(h)) \cup {h} /\ h \notin PastOf(CounterOf(h))
    BY <1>1 DEF PastOf, CounterOf
  <1>5. \A k : k # CounterOf(h) => PastOf(k)' = PastOf(k)
    BY <1>1 DEF PastOf, CounterOf
  <1>6. Cardinality(PastOf(CounterOf(h))') = Cardinality(PastOf(CounterOf(h))) + 1
    BY <1>3, <1>4, FS_AddElement
  <1>7. /\ DOMAIN counters' = DOMAIN c
        /\ counters'[CounterOf(h)] = c[CounterOf(h)] + 1
        /\ \A k \in DOMAIN c : k # CounterOf(h) => counters'[k] = c[k]
    BY DEF Bump
  <1>8. \A k \in DOMAIN counters' : counters'[k] = Cardinality(PastOf(k)')
    BY <1>5, <1>6, <1>7
  <1>9. \A g \in Past' : CounterOf(g) \in DOMAIN counters'
    BY <1>1, <1>7 DEF CountInv
  <1> QED BY <1>1, <1>2, <1>8, <1>9 DEF CountInv, CounterOf, PastOf

LEMMA CountStep ==
  CountInv /\ ((\E h \in Handlers : RecordStep(h)) \/ UNCHANGED statsVars) => CountInv'
  <1> SUFFICES ASSUME CountInv, (\E h \in Handlers : RecordStep(h)) \/ UNCHANGED statsVars
               PROVE  CountInv'
    OBVIOUS
  <1>1. ASSUME NEW h \in Handlers, LoadCounter(h) PROVE CountInv'
    BY <1>1, BumpCounts DEF LoadCounter, CountInv, Past
  <1>2. ASSUME NEW h \in Handlers, StoreCounter(h) PROVE CountInv'
    <2> DEFINE c == WithCounter(h, counters)
    <2>1. h \notin Past /\ recording' = [recording EXCEPT ![h] = "counted"]
          /\ counters' = Bump(c, CounterOf(h))
      BY <1>2 DEF StoreCounter, Past
    <2>2. /\ DOMAIN c = DOMAIN counters \cup {CounterOf(h)}
          /\ \A k \in DOMAIN counters : c[k] = counters[k]
          /\ CounterOf(h) \notin DOMAIN counters => c[CounterOf(h)] = 0
      BY DEF WithCounter
    <2>3. CounterOf(h) \notin DOMAIN counters => PastOf(CounterOf(h)) = {}
      BY DEF CountInv, PastOf
    <2>4. \A k \in DOMAIN c : c[k] = Cardinality(PastOf(k))
      <3> HIDE DEF c
      <3> QED BY <2>2, <2>3, FS_EmptySet DEF CountInv
    <2> HIDE DEF c
    <2> QED BY <2>1, <2>2, <2>4, BumpCounts
  <1>3. ASSUME recording' \in [Handlers -> {"before", "missed", "counted", "recent", "recorded"}],
               Past' = Past, counters' = counters
        PROVE  CountInv'
    <2>1. \A k : PastOf(k)' = PastOf(k)
      BY <1>3 DEF PastOf, CounterOf
    <2> QED BY <1>3, <2>1 DEF CountInv, CounterOf, PastOf
  <1>4. ASSUME NEW h \in Handlers, MissCounter(h) PROVE CountInv'
    BY <1>3, <1>4 DEF MissCounter, CountInv, Past
  <1>5. ASSUME NEW h \in Handlers, RecordRecent(h) PROVE CountInv'
    <2>1. PICK to \in {"recent", "recorded"} :
            recording' = [recording EXCEPT ![h] = to] /\ recording[h] = "counted"
      BY <1>5 DEF RecordRecent
    <2> QED BY <1>3, <1>5, <2>1 DEF RecordRecent, CountInv, Past
  <1>6. ASSUME NEW h \in Handlers, RecordDenied(h) PROVE CountInv'
    BY <1>3, <1>6 DEF RecordDenied, CountInv, Past
  <1>7. CASE UNCHANGED statsVars
    BY <1>3, <1>7 DEF statsVars, CountInv, Past
  <1> QED BY <1>1, <1>2, <1>4, <1>5, <1>6, <1>7 DEF RecordStep

(* However handlers interleave when they create the counter of an action,  *)
(* none of them is missing from it (collector.go:266).                     *)
THEOREM CountsAreComplete == Spec => []CountsComplete
  <1>1. Init => CountInv
    <2> SUFFICES ASSUME Init PROVE CountInv
      OBVIOUS
    <2>1. Past = {} /\ DOMAIN counters = {}
      BY DEF Init, StatsInit, Past
    <2> QED BY <2>1, FS_EmptySet DEF Init, StatsInit, CountInv
  <1>2. CountInv /\ [Next]_vars => CountInv'
    BY StepProjects, CountStep
  <1>3. CountInv => CountsComplete
    BY DEF CountInv, CountsComplete, Past, PastOf
  <1> QED BY <1>1, <1>2, <1>3, PTL DEF Spec

-----------------------------------------------------------------------------
(* The rings.                                                              *)

(* A ring that is not full holds everything, in order. In a full one the   *)
(* oldest entry is at head, the newest before it.                          *)
RingInv(ring, seen) ==
  /\ seen \in Seq(Handlers)
  /\ ring \in [items : Seq(Handlers), head : 0..(maxRecent - 1)]
  /\ Len(seen) < maxRecent => ring.items = seen /\ ring.head = 0
  /\ Len(seen) >= maxRecent =>
       /\ Len(ring.items) = maxRecent
       /\ \A p \in ring.head..(maxRecent - 1) :
            ring.items[p + 1] = seen[Len(seen) - maxRecent + 1 + p - ring.head]
       /\ \A p \in 0..(ring.head - 1) : ring.items[p + 1] = seen[Len(seen) + 1 + p - ring.head]

LEMMA RingStart == RingInv(EmptyRing, << >>)
  BY StatsAssumption DEF RingInv, EmptyRing

LEMMA HeadWraps ==
  ASSUME NEW m \in Nat, m > 0, NEW h \in 0..(m - 1)
  PROVE  \/ (h + 1) % m = h + 1 /\ h + 1 < m
         \/ (h + 1) % m = 0 /\ h = m - 1
  <1>1. CASE h + 1 < m
    BY <1>1
  <1>2. CASE h + 1 = m
    BY <1>2
  <1> QED BY <1>1, <1>2

LEMMA RingStep ==
  ASSUME NEW ring, NEW seen, RingInv(ring, seen), NEW e \in Handlers
  PROVE  RingInv(record(ring, e), Append(seen, e))
  <1> DEFINE max == maxRecent
             n == Len(seen)
             items == ring.items
             head == ring.head
             later == Append(seen, e)
  <1>1. /\ max \in Nat /\ max > 0 /\ n \in Nat /\ head \in 0..(max - 1)
        /\ items \in Seq(Handlers) /\ seen \in Seq(Handlers)
        /\ ring = [items |-> items, head |-> head]
    BY StatsAssumption DEF RingInv
  <1>2. /\ later \in Seq(Handlers) /\ Len(later) = n + 1 /\ later[n + 1] = e
        /\ \A i \in 1..n : later[i] = seen[i]
    BY <1>1
  <1>3. CASE n < max
    <2>1. items = seen /\ head = 0
      BY <1>3 DEF RingInv
    <2>2. record(ring, e) = [items |-> later, head |-> 0]
      BY <1>1, <1>3, <2>1 DEF record
    <2> HIDE DEF later, n, max
    <2>3. n + 1 >= max => n + 1 = max /\ \A p \in 0..(max - 1) : p + 1 = (n + 1) - max + 1 + p - 0
      BY <1>1, <1>3
    <2>4. RingInv([items |-> later, head |-> 0], later)
      BY <1>1, <1>2, <2>3 DEF RingInv, max
    <2> QED BY <2>2, <2>4 DEF later
  <1>4. CASE n >= max
    <2>1. /\ Len(items) = max
          /\ \A p \in head..(max - 1) : items[p + 1] = seen[n - max + 1 + p - head]
          /\ \A p \in 0..(head - 1) : items[p + 1] = seen[n + 1 + p - head]
      BY <1>4 DEF RingInv
    <2> DEFINE new == [items EXCEPT ![head + 1] = e]
               next == (head + 1) % max
    <2>2. record(ring, e) = [items |-> new, head |-> next]
      BY <1>1, <2>1 DEF record
    <2>3. /\ new \in Seq(Handlers) /\ Len(new) = max /\ new[head + 1] = e
          /\ \A p \in 0..(max - 1) : p # head => new[p + 1] = items[p + 1]
      BY <1>1, <2>1
    <2>4. \/ next = head + 1 /\ head + 1 < max
          \/ next = 0 /\ head = max - 1
      BY <1>1, HeadWraps
    <2> HIDE DEF new, next, later, n, items, head, max
    <2>5. next \in 0..(max - 1)
      BY <1>1, <2>4
    <2>6. ASSUME NEW p \in next..(max - 1)
          PROVE  new[p + 1] = later[(n + 1) - max + 1 + p - next]
      <3>1. CASE next = head + 1 /\ head + 1 < max
        <4>1. /\ p \in head..(max - 1) /\ p # head /\ p \in 0..(max - 1)
              /\ n - max + 1 + p - head \in 1..n
              /\ (n + 1) - max + 1 + p - next = n - max + 1 + p - head
          BY <1>1, <1>4, <3>1
        <4> QED BY <1>2, <2>1, <2>3, <4>1
      <3>2. CASE next = 0 /\ head = max - 1
        <4>1. CASE p = head
          <5>1. (n + 1) - max + 1 + p - next = n + 1
            BY <1>1, <3>2, <4>1
          <5> QED BY <1>2, <2>3, <4>1, <5>1
        <4>2. CASE p # head
          <5>1. /\ p \in 0..(head - 1) /\ p \in 0..(max - 1)
                /\ n + 1 + p - head \in 1..n
                /\ (n + 1) - max + 1 + p - next = n + 1 + p - head
            BY <1>1, <1>4, <3>2, <4>2
          <5> QED BY <1>2, <2>1, <2>3, <4>2, <5>1
        <4> QED BY <4>1, <4>2
      <3> QED BY <2>4, <3>1, <3>2
    <2>7. ASSUME NEW p \in 0..(next - 1)
          PROVE  new[p + 1] = later[(n + 1) + 1 + p - next]
      <3>1. next = head + 1 /\ head + 1 < max
        BY <1>1, <2>4
      <3>2. CASE p = head
        <4>1. (n + 1) + 1 + p - next = n + 1
          BY <1>1, <3>1, <3>2
        <4> QED BY <1>2, <2>3, <3>2, <4>1
      <3>3. CASE p # head
        <4>1. /\ p \in 0..(head - 1) /\ p \in 0..(max - 1)
              /\ n + 1 + p - head \in 1..n
              /\ (n + 1) + 1 + p - next = n + 1 + p - head
          BY <1>1, <1>4, <3>1, <3>3
        <4> QED BY <1>2, <2>1, <2>3, <3>3, <4>1
      <3> QED BY <3>2, <3>3
    <2>8. RingInv([items |-> new, head |-> next], later)
      BY <1>1, <1>2, <1>4, <2>3, <2>5, <2>6, <2>7 DEF RingInv, max
    <2> QED BY <2>2, <2>8 DEF later
  <1> QED BY <1>1, <1>3, <1>4

(* Stepping down from the newest entry and wrapping below zero.            *)
LEMMA IndexWraps ==
  ASSUME NEW m \in Nat, m > 0, NEW x \in Int, 0 - m <= x, x < m
  PROVE  x % m = IF x < 0 THEN x + m ELSE x
  <1>1. CASE x < 0
    BY <1>1
  <1>2. CASE x >= 0
    BY <1>2
  <1> QED BY <1>1, <1>2

LEMMA RingShowsNewest ==
  ASSUME NEW ring, NEW seen, RingInv(ring, seen)
  PROVE  RingShows(ring, seen)
  <1> DEFINE max == maxRecent
             n == Len(seen)
             items == ring.items
             head == ring.head
             size == Len(items)
             kept == IF n < max THEN n ELSE max
             pos == IF size < max THEN size - 1 ELSE head - 1
             at(i) == ((pos - (i - 1)) % size) + 1
  <1>1. /\ max \in Nat /\ max > 0 /\ n \in Nat /\ head \in 0..(max - 1)
        /\ size = kept
    BY StatsAssumption DEF RingInv
  <1>2. ASSUME NEW i \in 1..kept PROVE items[at(i)] = seen[n + 1 - i]
    <2>1. CASE n < max
      <3>1. items = seen /\ size = n /\ n > 0 /\ i \in 1..n
        BY <1>1, <2>1 DEF RingInv
      <3>2. pos - (i - 1) = n - i /\ n - i \in 0..(n - 1)
        BY <1>1, <2>1, <3>1
      <3>3. at(i) = n + 1 - i
        <4>1. (n - i) % n = n - i
          <5> HIDE DEF n
          <5> QED BY <1>1, <3>1, <3>2, IndexWraps
        <4>2. at(i) = (n - i) + 1
          <5> HIDE DEF n, pos, size
          <5> QED BY <3>1, <3>2, <4>1
        <4> HIDE DEF at, n
        <4> QED BY <1>1, <3>1, <4>2
      <3> HIDE DEF at
      <3> QED BY <3>1, <3>3
    <2>2. CASE n >= max
      <3>1. /\ size = max /\ i \in 1..max
            /\ \A p \in head..(max - 1) : items[p + 1] = seen[n - max + 1 + p - head]
            /\ \A p \in 0..(head - 1) : items[p + 1] = seen[n + 1 + p - head]
        BY <1>1, <2>2 DEF RingInv
      <3>2. pos - (i - 1) = head - i
        BY <1>1, <3>1
      <3>3. at(i) = ((head - i) % max) + 1
        <4> HIDE DEF pos, size, head, max
        <4> QED BY <3>1, <3>2
      <3> HIDE DEF at, n, head, max, items, size
      <3>4. CASE head - i >= 0
        <4>1. (head - i) % max = head - i
          BY <1>1, <3>1, <3>4, IndexWraps
        <4>2. head - i \in 0..(head - 1) /\ n + 1 + (head - i) - head = n + 1 - i
          BY <1>1, <3>1, <3>4
        <4> QED BY <3>1, <3>3, <4>1, <4>2
      <3>5. CASE head - i < 0
        <4>1. (head - i) % max = head - i + max
          <5>1. head - i \in Int /\ 0 - max <= head - i /\ head - i < max
            BY <1>1, <3>1
          <5>2. (head - i) % max = IF head - i < 0 THEN (head - i) + max ELSE head - i
            BY ONLY <1>1, <5>1, IndexWraps
          <5> QED BY <3>5, <5>2
        <4>2. /\ head - i + max \in head..(max - 1)
              /\ n - max + 1 + (head - i + max) - head = n + 1 - i
          BY <1>1, <3>1, <3>5
        <4> QED BY <3>1, <3>3, <4>1, <4>2
      <3> QED BY <1>1, <3>1, <3>4, <3>5
    <2> QED BY <1>1, <2>1, <2>2
  <1>3. ASSUME NEW k \in 0..(max + 1)
        PROVE  newest(ring, k) = LastOf(seen, IF k <= 0 \/ k > kept THEN kept ELSE k)
    <2> DEFINE want == IF k <= 0 \/ k > size THEN size ELSE k
    <2>1. newest(ring, k) = [i \in 1..want |-> items[at(i)]]
      BY DEF newest
    <2>2. want = (IF k <= 0 \/ k > kept THEN kept ELSE k) /\ want \in 0..kept
      BY <1>1
    <2> HIDE DEF want, at, kept, items
    <2>3. \A i \in 1..want : items[at(i)] = seen[n + 1 - i]
      <3>1. kept \in Nat
        BY <1>1 DEF kept
      <3>2. \A i \in 1..want : i \in 1..kept
        BY <2>2, <3>1
      <3> QED BY <1>2, <3>2
    <2>4. newest(ring, k) = LastOf(seen, want)
      BY <2>1, <2>3 DEF LastOf
    <2> QED BY <2>2, <2>4
  <1>4. newest(ring, 0) = LastOf(seen, kept)
    BY <1>1, <1>3
  <1>5. ASSUME NEW k \in 1..(max + 1)
        PROVE  newest(ring, k) = LastOf(seen, IF k < kept THEN k ELSE kept)
    <2>1. k \in 0..(max + 1) /\ kept \in Nat
      BY <1>1
    <2>2. (IF k <= 0 \/ k > kept THEN kept ELSE k) = (IF k < kept THEN k ELSE kept)
      <3> HIDE DEF kept
      <3> QED BY <1>1, <2>1
    <2> HIDE DEF kept
    <2> QED BY <1>3, <2>1, <2>2
  <1> QED BY <1>4, <1>5 DEF RingShows

(* RecentAccesses and RecentDenies show the newest entries, newest first,  *)
(* however often the rings have wrapped (collector.go:186).                *)
THEOREM RingsShowNewest == Spec => []RecentIsNewest
  <1> DEFINE Rings == RingInv(recent, recentSeen) /\ RingInv(denies, deniesSeen)
  <1>1. Init => Rings
    BY RingStart DEF Init, StatsInit
  <1>2. Rings /\ [Next]_vars => Rings'
    <2> SUFFICES ASSUME Rings, [Next]_vars PROVE Rings'
      OBVIOUS
    <2>1. ASSUME NEW h \in Handlers, RecordStep(h)
          PROVE  /\ \/ recent' = recent /\ recentSeen' = recentSeen
                    \/ recent' = record(recent, h) /\ recentSeen' = Append(recentSeen, h)
                 /\ \/ denies' = denies /\ deniesSeen' = deniesSeen
                    \/ denies' = record(denies, h) /\ deniesSeen' = Append(deniesSeen, h)
      BY <2>1 DEF RecordStep, LoadCounter, MissCounter, StoreCounter, RecordRecent, RecordDenied
    <2>2. RingInv(recent, recentSeen)' <=> RingInv(recent', recentSeen')
      BY DEF RingInv
    <2>3. RingInv(denies, deniesSeen)' <=> RingInv(denies', deniesSeen')
      BY DEF RingInv
    <2>4. CASE \E h \in Handlers : RecordStep(h)
      BY <2>1, <2>2, <2>3, <2>4, RingStep
    <2>5. CASE UNCHANGED statsVars
      BY <2>2, <2>3, <2>5 DEF statsVars
    <2> QED BY <2>4, <2>5, StepProjects
  <1>3. Rings => RecentIsNewest
    BY RingShowsNewest DEF RecentIsNewest
  <1> QED BY <1>1, <1>2, <1>3, PTL DEF Spec
=============================================================================
