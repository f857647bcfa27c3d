------------------------------- MODULE MCScans -------------------------------
(* Two devices are shown a ticket with a seat, and one a standing leg.     *)
EXTENDS Scans

CONSTANTS seatA, legA, a, b
Makers == <<a, a, b>>
Shown == <<seatA, legA, seatA>>
==============================================================================
