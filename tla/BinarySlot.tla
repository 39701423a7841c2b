----------------------------- MODULE BinarySlot -----------------------------
(***************************************************************************)
(* What replacing the Agent binary promises, and what it does not.  The    *)
(* host never loses the release it has: it goes to another only when that  *)
(* one is in place.  But the replacement is not atomic: the old binary is  *)
(* taken out of its place first, and until the new one is put there, or    *)
(* the old one put back, the Agent cannot be started.                      *)
(***************************************************************************)
CONSTANTS Version, None

VARIABLES
  release,    \* the release the host has, in its place or kept aside
  startable   \* whether a binary is in its place

slotVars == <<release, startable>>

SlotInit == release = None /\ startable = FALSE

TakeAway ==
  /\ startable
  /\ startable' = FALSE
  /\ UNCHANGED release

PutBack ==
  /\ ~startable /\ release # None
  /\ startable' = TRUE
  /\ UNCHANGED release

(* The release changes in the step that makes the new one startable.       *)
Replace(v) ==
  /\ ~startable
  /\ startable' = TRUE
  /\ release' = v

SlotNext == TakeAway \/ PutBack \/ \E v \in Version : Replace(v)

SlotSpec == SlotInit /\ [][SlotNext]_slotVars
=============================================================================
