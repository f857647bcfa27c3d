---------------------------- MODULE MCMemberships ----------------------------
(* Memberships for TLC: devices and calls are interchangeable.             *)
EXTENDS Memberships, TLC

Symmetry == Permutations(Devices) \union Permutations(Calls)
=============================================================================
