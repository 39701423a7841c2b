------------------------------ MODULE MCStages ------------------------------
(***************************************************************************)
(* Instances of Stages for TLC: two passwords, up to three stopped runs.   *)
(***************************************************************************)
EXTENDS Stages

CONSTANTS q1, q2
=============================================================================
