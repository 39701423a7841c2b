---------------------------- MODULE NodeLifecycle ----------------------------
(***************************************************************************)
(* What the resumable installation promises, seen from outside: a host     *)
(* belongs to one enrollment at a time, takes another only after the       *)
(* Dashboard acknowledged the completion of the one it had, and gives its  *)
(* bootstrap secrets up only after that acknowledgement.                   *)
(***************************************************************************)
CONSTANTS Enrollment, None

VARIABLES
  owner,          \* the enrollment the host belongs to, or None
  phase,          \* how far that enrollment is
  acknowledged    \* enrollments the Dashboard holds for completed

lifeVars == <<owner, phase, acknowledged>>

LifeInit ==
  /\ owner = None
  /\ phase = "unclaimed"
  /\ acknowledged = {}

Claim(e) ==
  /\ phase # "claimed"
  /\ e \notin acknowledged
  /\ owner' = e
  /\ phase' = "claimed"
  /\ UNCHANGED acknowledged

Acknowledge ==
  /\ phase = "claimed"
  /\ acknowledged' = acknowledged \union {owner}
  /\ UNCHANGED <<owner, phase>>

Finalize ==
  /\ phase = "claimed"
  /\ owner \in acknowledged
  /\ phase' = "finalized"
  /\ UNCHANGED <<owner, acknowledged>>

LifeNext == (\E e \in Enrollment : Claim(e)) \/ Acknowledge \/ Finalize

LifeSpec == LifeInit /\ [][LifeNext]_lifeVars
=============================================================================
