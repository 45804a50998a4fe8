--------------------------- MODULE MCExecWrapper ---------------------------
(* Instances of ExecWrapper for TLC. *)
EXTENDS ExecWrapper

CONSTANTS stdout, stderr
=============================================================================
