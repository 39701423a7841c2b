----------------------------- MODULE AtomicCell -----------------------------
(***************************************************************************)
(* What replacing a file as a whole promises: at any moment it holds one   *)
(* of the values saved, and a power failure takes it back at most to a     *)
(* value it held before.                                                   *)
(***************************************************************************)
CONSTANTS Value, None

VARIABLES
  cell,     \* what a reader finds, None before the first save
  settled   \* what a reader would find after a power failure

cellVars == <<cell, settled>>

CellInit == cell = None /\ settled = None

Replace(v) == cell' = v /\ UNCHANGED settled

Settle == settled' = cell /\ UNCHANGED cell

Revert == cell' = settled /\ UNCHANGED settled

CellNext == (\E v \in Value : Replace(v)) \/ Settle \/ Revert

CellSpec == CellInit /\ [][CellNext]_cellVars
=============================================================================
