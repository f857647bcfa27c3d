-------------------------- MODULE MCDemandReturns --------------------------
(* DemandReturns on one short route for TLC.                               *)
EXTENDS DemandReturns, TLC

\* Tickets are interchangeable.  Not used where a liveness property is checked.
Symmetry == Permutations(Tickets)
=============================================================================
