------------------------------ MODULE LossyLog ------------------------------
(***************************************************************************)
(* What the audit log promises its callers (the comments of                *)
(* internal/audit/logger.go): a record offered to it reaches the file once *)
(* and in the order of acceptance, or is dropped, and a dropped record is  *)
(* reported at most once, as part of a count. The only other loss is a     *)
(* line the file system refuses.                                           *)
(***************************************************************************)
EXTENDS Naturals, Sequences

CONSTANT Records

VARIABLES
  fresh,    \* records not offered yet
  pending,  \* accepted records that are not in the file
  lost,     \* dropped records that are not reported
  file,     \* the lines of the file
  refused   \* lines the file system refused

logVars == <<fresh, pending, lost, file, refused>>

RecordLine(r) == [kind |-> "record", of |-> r]
OverflowLine(n) == [kind |-> "audit_overflow", of |-> n]

Init ==
  /\ fresh = Records
  /\ pending = << >>
  /\ lost = 0
  /\ file = << >>
  /\ refused = 0

Offer(r) == r \in fresh /\ fresh' = fresh \ {r}

Ignore(r) == Offer(r) /\ UNCHANGED <<pending, lost, file, refused>>

Accept(r) ==
  /\ Offer(r)
  /\ pending' = Append(pending, r)
  /\ UNCHANGED <<lost, file, refused>>

Drop(r) ==
  /\ Offer(r)
  /\ lost' = lost + 1
  /\ UNCHANGED <<pending, file, refused>>

Put(line) ==
  \/ file' = Append(file, line) /\ UNCHANGED refused
  \/ refused' = refused + 1 /\ UNCHANGED file

Write ==
  /\ pending # << >>
  /\ Put(RecordLine(Head(pending)))
  /\ pending' = Tail(pending)
  /\ UNCHANGED <<fresh, lost>>

Report(n) ==
  /\ n \in 1..lost
  /\ Put(OverflowLine(n))
  /\ lost' = lost - n
  /\ UNCHANGED <<fresh, pending>>

Next ==
  \/ \E r \in Records : Ignore(r) \/ Accept(r) \/ Drop(r)
  \/ Write
  \/ \E n \in 1..lost : Report(n)

Spec == Init /\ [][Next]_logVars
=============================================================================
