-------------------------- MODULE InstallerLiveness --------------------------
(***************************************************************************)
(* Does repair finish what install began?  A run may fail at any call and  *)
(* as often as it likes, until the operator has corrected the cause of the *)
(* failures; from then on calls succeed, the Dashboard's refusals apart.   *)
(***************************************************************************)
EXTENDS Installer

VARIABLE corrected   \* the cause of the failures has been corrected

liveVars == <<vars, corrected>>

LiveInit == Init /\ corrected = FALSE

Correct ==
  /\ ~corrected
  /\ corrected' = TRUE
  /\ UNCHANGED vars

Fail ==
  /\ ~corrected
  /\ \E p \in Proc : Stop(p)
  /\ UNCHANGED corrected

Succeed == Smooth /\ UNCHANGED corrected

LiveNext == Correct \/ Fail \/ Succeed

(* A run goes on to its next call, a call is answered, the operator runs   *)
(* repair again and corrects what is wrong.                                *)
Fairness ==
  /\ \A p \in Proc :
       /\ WF_liveVars((Work(p) \/ ServeLive(p)) /\ UNCHANGED corrected)
       /\ SF_liveVars(Launch(p) /\ UNCHANGED corrected)
  /\ WF_liveVars(Correct)

LiveSpec == LiveInit /\ [][LiveNext]_liveVars /\ Fairness

(* provision resumes a saved enrollment where it stopped, so repeated      *)
(* repairs complete it, unless its bootstrap token expires first.          *)
InstallCompletes ==
  disk.bootstrap # None ~> (disk.bootstrap = None \/ disk.enrollment \in expired)

(* docs/operations.md:37: "On failure, correct the reported stable error   *)
(* code and run" repair: a saved enrollment is always completed by it.     *)
RepairEventuallyCompletes == disk.bootstrap # None ~> disk.bootstrap = None
=============================================================================
