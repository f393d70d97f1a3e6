-------------------------- MODULE MCDecisionCache --------------------------
(* Four keys over a cache of two entries, so that a key can be evicted     *)
(* while two others are kept and a fourth has never been used.             *)
EXTENDS DecisionCache

CONSTANTS k1, k2, k3, k4, d1, d2

MCKeys == {k1, k2, k3, k4}
MCDecisions == {d1, d2}
=============================================================================
