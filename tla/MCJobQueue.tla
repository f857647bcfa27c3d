------------------------------ MODULE MCJobQueue ------------------------------
(* The job queue for TLC: its constants are given values in the cfg files. *)
EXTENDS JobQueue

=============================================================================
