---------------------------- MODULE MCAtomicFile ----------------------------
(***************************************************************************)
(* An instance of AtomicFile for TLC: two writers, three values.           *)
(***************************************************************************)
EXTENDS AtomicFile

CONSTANTS w1, w2, v1, v2, v3
=============================================================================
