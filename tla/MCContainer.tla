---------------------------- MODULE MCContainer ----------------------------
(* Instances of Container for TLC. *)
EXTENDS Container, TLC

CONSTANTS d1, d2, d3, j1, j2

(* One job that is delivered twice beside one that is delivered once.      *)
OneTwice == d1 :> j1 @@ d2 :> j1 @@ d3 :> j2
============================================================================
