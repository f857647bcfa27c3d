---------------------------- MODULE MCSeatSales ----------------------------
(* SeatSales on small departures for TLC.                                  *)
EXTENDS SeatSales, TLC

\* Seats, checkouts and tickets are interchangeable in every definition of
\* SeatSales.  Not used where a liveness property is checked.
Symmetry == Permutations(Seats) \union Permutations(Holds) \union Permutations(Tickets)
=============================================================================
