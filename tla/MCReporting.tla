----------------------------- MODULE MCReporting ----------------------------
(* Three handlers, two of them with denials, a log of denials with a queue *)
(* of one record, rings of two entries and one connection.                 *)
EXTENDS Reporting

CONSTANTS h1, h2, h3, c1, none

MCHandlers == {h1, h2, h3}
MCDenied == {h2, h3}
MCAction == [h \in MCHandlers |-> "read"]
MCLevels == {"denials"}
MCConns == {c1}
=============================================================================
