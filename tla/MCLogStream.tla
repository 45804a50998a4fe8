---------------------------- MODULE MCLogStream ----------------------------
(* Instances of LogStream and of the page that shows it for TLC. *)
EXTENDS JobPage

CONSTANTS p1, p2, q1, q2
=============================================================================
