------------------------- MODULE AgentBinaryProofs -------------------------
(***************************************************************************)
(* Replacing the Agent binary never loses the one the host has, wherever   *)
(* it fails or is killed, for any set of releases.                         *)
(***************************************************************************)
EXTENDS AgentBinary, TLAPS

(* Where a run stands, what it has downloaded and which of the two names   *)
(* is taken; the last two conjuncts are the properties.                    *)
IInv ==
  /\ TypeOK
  /\ pc # "idle" => asset \in Version
  /\ pc \in {"stat", "remove", "aside", "commit"} => temp = asset
  /\ pc \in {"remove", "aside"} => target # None
  /\ pc = "commit" => target = None
  /\ OnlyCommitReplaces
  /\ PreviousRetained

(* Nothing is installed at first.                                          *)
LEMMA InitIInv == Init => IInv
  BY DEF Init, IInv, TypeOK, Release, OnlyCommitReplaces, PreviousRetained, Installed

(* Every call, failure and kill keeps the invariant.                       *)
LEMMA StepIInv == IInv /\ [Next]_vars => IInv'
  <1> SUFFICES ASSUME IInv, [Next]_vars PROVE IInv'
    OBVIOUS
  <1> USE ContentAssumption
      DEF IInv, TypeOK, Release, OnlyCommitReplaces, PreviousRetained, Installed,
          Move, runVars, files
  <1>1. CASE Fetch
    BY <1>1 DEF Fetch
  <1>2. CASE Download
    BY <1>2 DEF Download
  <1>3. CASE VerifyAndWrite
    BY <1>3 DEF VerifyAndWrite
  <1>4. CASE Stat
    BY <1>4 DEF Stat
  <1>5. CASE RemoveBackup
    BY <1>5 DEF RemoveBackup
  <1>6. CASE MoveAside
    BY <1>6 DEF MoveAside
  <1>7. CASE Commit
    BY <1>7 DEF Commit
  <1>8. CASE CommitFails
    BY <1>8 DEF CommitFails
  <1>9. CASE Abandon
    BY <1>9 DEF Abandon
  <1>10. CASE Return
    BY <1>10 DEF Return
  <1>11. CASE UNCHANGED vars
    BY <1>11 DEF vars
  <1> QED BY <1>1, <1>2, <1>3, <1>4, <1>5, <1>6, <1>7, <1>8, <1>9, <1>10, <1>11 DEF Next

(* The invariant is inductive.                                             *)
THEOREM Invariance == Spec => []IInv
  BY InitIInv, StepIInv, PTL DEF Spec

(* InstallAsset changes the installed binary only when it succeeds, and    *)
(* then to the release of the manifest.                                    *)
THEOREM FailuresKeepBinary == Spec => []OnlyCommitReplaces
  <1>1. IInv => OnlyCommitReplaces
    BY DEF IInv
  <1> QED BY <1>1, Invariance, PTL

(* A successful InstallAsset leaves the binary it replaced as .previous.   *)
THEOREM RollbackPossible == Spec => []PreviousRetained
  <1>1. IInv => PreviousRetained
    BY DEF IInv
  <1> QED BY <1>1, Invariance, PTL

(* The target goes away in MoveAside, comes back in the way back of        *)
(* CommitFails, and is another release after Commit alone.                 *)
LEMMA SlotStep ==
  ASSUME IInv, IInv', [Next]_vars
  PROVE  [Slot!SlotNext]_(Slot!slotVars)
  <1> USE DEF IInv, TypeOK, Release, Move, runVars, files
  <1>1. CASE MoveAside
    <2>1. target # None /\ target' = None /\ Installed' = Installed
      BY <1>1 DEF MoveAside, Installed
    <2>2. Slot!TakeAway
      BY <2>1 DEF Slot!TakeAway
    <2> QED BY <2>2 DEF Slot!SlotNext
  <1>2. CASE Commit
    <2>1. asset \in Version /\ target = None /\ target' = asset
      BY <1>2 DEF Commit
    <2>2. target' # None /\ Installed' = asset
      BY <2>1, ContentAssumption DEF Installed
    <2>3. Slot!Replace(asset)
      BY <2>1, <2>2 DEF Slot!Replace
    <2> QED BY <2>1, <2>3 DEF Slot!SlotNext
  <1>3. CASE CommitFails
    <2>1. CASE UNCHANGED files
      BY <2>1 DEF Slot!slotVars, Installed
    <2>2. CASE backup # None /\ target' = backup
      <3>1. target = None /\ target' # None
        BY <1>3, <2>2 DEF CommitFails
      <3>2. Installed' = Installed /\ Installed # None
        BY <2>2, <3>1 DEF Installed
      <3>3. Slot!PutBack
        BY <3>1, <3>2 DEF Slot!PutBack
      <3> QED BY <3>3 DEF Slot!SlotNext
    <2> QED BY <1>3, <2>1, <2>2 DEF CommitFails
  <1>4. CASE RemoveBackup
    <2>1. target # None /\ target' = target
      BY <1>4 DEF RemoveBackup
    <2> QED BY <2>1 DEF Slot!slotVars, Installed
  <1>5. CASE Fetch \/ Download \/ VerifyAndWrite \/ Stat \/ Abandon \/ Return
    <2>1. UNCHANGED files
      BY <1>5 DEF Fetch, Download, VerifyAndWrite, Stat, Abandon, Return
    <2> QED BY <2>1 DEF Slot!slotVars, Installed
  <1>6. CASE UNCHANGED vars
    BY <1>6 DEF vars, Slot!slotVars, Installed
  <1> QED BY <1>1, <1>2, <1>3, <1>4, <1>5, <1>6 DEF Next

(* InstallAsset implements BinarySlot: the release the host has changes    *)
(* with the second rename alone, and the target is missing only from the   *)
(* first rename (internal/release/release.go:159) to the second (:163) or  *)
(* the way back (:165), or until a later run when it is killed there.      *)
THEOREM SlotRefinement == Spec => SlotSpec
  <1>1. Init => Slot!SlotInit
    BY DEF Init, Installed, Slot!SlotInit
  <1>2. IInv /\ IInv' /\ [Next]_vars => [Slot!SlotNext]_(Slot!slotVars)
    BY SlotStep
  <1> QED BY <1>1, <1>2, Invariance, PTL DEF Spec, SlotSpec, Slot!SlotSpec

(* Every variable keeps its type.                                          *)
THEOREM TypeCorrect == Spec => []TypeOK
  <1>1. IInv => TypeOK
    BY DEF IInv
  <1> QED BY <1>1, Invariance, PTL

(* Of two versions one is at least the other, and both are only if they    *)
(* are the same.                                                           *)
THEOREM VersionOrder ==
  ASSUME NEW x \in [1..3 -> Nat], NEW y \in [1..3 -> Nat]
  PROVE  /\ AtLeast(x, y) \/ AtLeast(y, x)
         /\ AtLeast(x, y) /\ AtLeast(y, x) => x = y
  <1>1. 1..3 = {1, 2, 3}
    OBVIOUS
  <1> QED BY <1>1 DEF AtLeast

(* A manifest that takes an installer takes every newer one                *)
(* (internal/release/release.go:43): replacing the installer never makes a *)
(* release incompatible.                                                   *)
THEOREM NewerInstallerTaken ==
  ASSUME NEW x \in [1..3 -> Nat], NEW y \in [1..3 -> Nat],
         NEW z \in [1..3 -> Nat], x # None,
         AtLeast(x, y), Compatible(y, z)
  PROVE  Compatible(x, z)
  <1>1. 1..3 = {1, 2, 3}
    OBVIOUS
  <1> QED BY <1>1 DEF AtLeast, Compatible
=============================================================================
