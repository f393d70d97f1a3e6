------------------------------ MODULE AuditLog ------------------------------
(***************************************************************************)
(* The audit log of internal/audit/logger.go: handlers call Log, which     *)
(* never blocks, and one goroutine (run) writes the queued records. A call *)
(* that finds the queue full counts its record in a second step, so the    *)
(* writer may empty the queue in between.                                  *)
(*                                                                         *)
(* The content of a record is its name and its verdict. A write to the     *)
(* file may fail at most MaxRefused times; the error goes to the program's *)
(* own log and the line is gone.                                           *)
(***************************************************************************)
EXTENDS Reporters, Naturals, Sequences, FiniteSets

CONSTANTS
  Levels,      \* the configured audit levels to consider
  queueSize,   \* 4096 in the code
  MaxRefused,  \* bound: writes the file system refuses
  NoRecord     \* the writer holds no record

ASSUME AuditAssumption ==
  /\ Levels \subseteq {"all", "denials"}
  /\ queueSize \in Nat \ {0}
  /\ MaxRefused \in Nat
  /\ NoRecord \notin Handlers

VARIABLES
  level,    \* what is logged
  logging,  \* per handler: "before", "full" (about to count) or "returned"
  queue,    \* the channel
  dropped,  \* the counter
  done,     \* the done channel is closed
  writer,   \* the writer goroutine: where it is, its record, its count
  draining, \* the writer has seen done
  file,     \* lines written
  refused,  \* lines refused
  early     \* history: records accepted before Close

auditVars == <<level, logging, queue, dropped, done, writer, draining, file,
               refused, early>>

Idle == [pc |-> "select", rec |-> NoRecord, n |-> 0]

AuditInit ==
  /\ level \in Levels
  /\ logging = [h \in Handlers |-> "before"]
  /\ queue = << >>
  /\ dropped = 0
  /\ done = FALSE
  /\ writer = Idle
  /\ draining = FALSE
  /\ file = << >>
  /\ refused = 0
  /\ early = {}

-----------------------------------------------------------------------------
(* Log, called by a handler.                                               *)

Wanted(h) == level = "all" \/ h \in Denied

LogFiltered(h) ==
  /\ logging[h] = "before"
  /\ ~ Wanted(h)
  /\ logging' = [logging EXCEPT ![h] = "returned"]
  /\ UNCHANGED <<level, queue, dropped, done, writer, draining, file, refused, early>>

LogQueued(h) ==
  /\ logging[h] = "before"
  /\ Wanted(h)
  /\ Len(queue) < queueSize
  /\ queue' = Append(queue, h)
  /\ logging' = [logging EXCEPT ![h] = "returned"]
  /\ early' = IF done THEN early ELSE early \cup {h}
  /\ UNCHANGED <<level, dropped, done, writer, draining, file, refused>>

LogFull(h) ==
  /\ logging[h] = "before"
  /\ Wanted(h)
  /\ Len(queue) = queueSize
  /\ logging' = [logging EXCEPT ![h] = "full"]
  /\ UNCHANGED <<level, queue, dropped, done, writer, draining, file, refused, early>>

CountDropped(h) ==
  /\ logging[h] = "full"
  /\ dropped' = dropped + 1
  /\ logging' = [logging EXCEPT ![h] = "returned"]
  /\ UNCHANGED <<level, queue, done, writer, draining, file, refused, early>>

-----------------------------------------------------------------------------
(* run, the writer. Its select may see done while records are queued.      *)

Receive ==
  /\ writer.pc = "select"
  /\ queue # << >>
  /\ writer' = [pc |-> "swap", rec |-> Head(queue), n |-> 0]
  /\ queue' = Tail(queue)
  /\ UNCHANGED <<level, logging, dropped, done, draining, file, refused, early>>

SeeDone ==
  /\ writer.pc = "select"
  /\ ~ draining
  /\ done
  /\ draining' = TRUE
  /\ UNCHANGED <<level, logging, queue, dropped, done, writer, file, refused, early>>

(* Mutant: the writer leaves as soon as it sees done.                      *)
StopUndrained ==
  /\ writer.pc = "select"
  /\ draining
  /\ writer' = [writer EXCEPT !.pc = "stopped"]
  /\ UNCHANGED <<level, logging, queue, dropped, done, draining, file, refused, early>>

Stop ==
  /\ writer.pc = "select"
  /\ draining
  /\ queue = << >>
  /\ writer' = [writer EXCEPT !.pc = "stopped"]
  /\ UNCHANGED <<level, logging, queue, dropped, done, draining, file, refused, early>>

(* Mutant: the counter is read and not reset.                              *)
SwapWithoutReset ==
  /\ writer.pc = "swap"
  /\ writer' = [writer EXCEPT !.pc = IF dropped > 0 THEN "overflow" ELSE "line",
                              !.n = dropped]
  /\ UNCHANGED <<level, logging, queue, dropped, done, draining, file, refused, early>>

(* Mutant: a count is reported only once two records have been dropped.    *)
SwapAboveOne ==
  /\ writer.pc = "swap"
  /\ writer' = [writer EXCEPT !.pc = IF dropped > 1 THEN "overflow" ELSE "line",
                              !.n = IF dropped > 1 THEN dropped ELSE 0]
  /\ dropped' = IF dropped > 1 THEN 0 ELSE dropped
  /\ UNCHANGED <<level, logging, queue, done, draining, file, refused, early>>

(* write, first half: the counter is swapped with zero.                    *)
Swap ==
  /\ writer.pc = "swap"
  /\ writer' = [writer EXCEPT !.pc = IF dropped > 0 THEN "overflow" ELSE "line",
                              !.n = dropped]
  /\ dropped' = 0
  /\ UNCHANGED <<level, logging, queue, done, draining, file, refused, early>>

writeLine(line) ==
  \/ file' = Append(file, line) /\ UNCHANGED refused
  \/ refused < MaxRefused /\ refused' = refused + 1 /\ UNCHANGED file

WriteOverflow ==
  /\ writer.pc = "overflow"
  /\ writeLine([kind |-> "audit_overflow", of |-> writer.n])
  /\ writer' = [writer EXCEPT !.pc = "line", !.n = 0]
  /\ UNCHANGED <<level, logging, queue, dropped, done, draining, early>>

WriteRecord ==
  /\ writer.pc = "line"
  /\ writeLine([kind |-> "record", of |-> writer.rec])
  /\ writer' = Idle
  /\ UNCHANGED <<level, logging, queue, dropped, done, draining, early>>

-----------------------------------------------------------------------------
(* Close: close(done), then wait for the writer.                           *)

(* Mutant: done is not closed.                                             *)
CloseForgotten ==
  /\ ~ done
  /\ UNCHANGED auditVars

CloseAudit ==
  /\ ~ done
  /\ done' = TRUE
  /\ UNCHANGED <<level, logging, queue, dropped, writer, draining, file, refused, early>>

writerStopped == writer.pc = "stopped"

LogStep(h) == LogFiltered(h) \/ LogQueued(h) \/ LogFull(h) \/ CountDropped(h)
WriterStep == Receive \/ SeeDone \/ Stop \/ Swap \/ WriteOverflow \/ WriteRecord

AuditNext == WriterStep \/ CloseAudit \/ \E h \in Handlers : LogStep(h)

AuditSpec == AuditInit /\ [][AuditNext]_auditVars

-----------------------------------------------------------------------------
(* Refinement. A record is pending until its own line is written, and a    *)
(* dropped one is unreported from the moment its caller found the queue    *)
(* full until the line with its count is written.                          *)

InHand == IF writer.rec = NoRecord THEN << >> ELSE <<writer.rec>>
Counting == {h \in Handlers : logging[h] = "full"}

Abstract == INSTANCE LossyLog WITH
  Records <- Handlers,
  fresh <- {h \in Handlers : logging[h] = "before"},
  pending <- InHand \o queue,
  lost <- dropped + writer.n + Cardinality(Counting)

(* Log, run and write together implement the lossy log: nothing is written *)
(* twice or out of order, and no drop is reported twice or forgotten.      *)
RefinesLossyLog == Abstract!Spec

(* "On overflow, events are dropped and a counter is recorded"             *)
(* (logger.go:7): a count made while the writer still has a record to take *)
(* reaches the log with that record. (One made later never does.)          *)
OverflowReported ==
  dropped > 0 /\ (writer.pc = "swap" \/ (queue # << >> /\ ~ writerStopped))
    ~> dropped = 0
=============================================================================
