------------------------------ MODULE MCCoaches ------------------------------
(* A train of one coach, and a coach to add.                               *)
EXTENDS Coaches

CONSTANTS ka, ga
Train == [k \in Coaches |-> IF k = ka THEN 1 ELSE 0]
==============================================================================
