----------------------------- MODULE MCDepartures -----------------------------
(* Departures with numbered tickets, one coach each, and numbered jobs for TLC. *)
EXTENDS Departures

CONSTANTS c1, c2

\* The first ticket is in the first coach, the others are in the second.
OneAndRest == [t \in Tickets |-> IF t = 1 THEN c1 ELSE c2]
=============================================================================
