------------------------------ MODULE MCWaitlist ------------------------------
(* Short queues for TLC.                                                   *)
EXTENDS Waitlist

OneEach == [p \in 1 .. MaxEntries |-> 1]
TwoEach == [p \in 1 .. MaxEntries |-> 2]
=============================================================================
