---------------------------- MODULE MCInstaller ----------------------------
(***************************************************************************)
(* Instances of Installer for TLC.                                         *)
(***************************************************************************)
EXTENDS Installer, TLC

CONSTANTS e1, e2, v1, v2, k1, k2, s1, s2, p1, p2

(* The Dashboard approves the first enrollment for one release and the     *)
(* second for another.                                                     *)
ReleaseTwo == (e1 :> v1) @@ (e2 :> v2)
ReleaseOne == (e1 :> v1)
ReleaseSame == (e1 :> v1) @@ (e2 :> v1)

(* Runs and completion keys are interchangeable.                           *)
Interchangeable == Permutations({p1, p2}) \union Permutations({k1, k2})

(* Overlapping runs are explored while the bootstrap tokens are good, the  *)
(* token file is kept and the Agent stays up, without the progress display. *)
Focused ==
  expired = {} /\ tokenFile /\ \A e \in Enrollment : progress[e] = None
AgentStays == running # None => running' = running
=============================================================================
