----------------------------- MODULE AgentBinary -----------------------------
(***************************************************************************)
(* InstallAsset (internal/release/release.go) replaces the Agent binary    *)
(* and keeps the one it replaces: two renames, with a way back when the    *)
(* second fails.  It is run by install and repair, which check first that  *)
(* the manifest takes an installer of this version, and by update, which   *)
(* does not.                                                               *)
(*                                                                         *)
(* Any call may fail and the installer may be killed between two calls.    *)
(* One run replaces the binary at a time.                                  *)
(***************************************************************************)
EXTENDS Naturals

CONSTANTS
  Version,    \* releases an asset of a signed manifest can be of
  Corrupt,    \* a download that is not the asset
  Installer,  \* versions of the installer that runs: x.y.z, or None for dev
  Minimum,    \* of each release, the installer version its manifest asks for
  None

ASSUME ContentAssumption ==
  None \notin Version /\ Corrupt \notin Version /\ None # Corrupt

VARIABLES
  pc,         \* how far the run is
  command,    \* "provision" or "update"
  asset,      \* the release the manifest names
  temp,       \* what was downloaded
  target,     \* /usr/local/bin/centralcloud-agent
  backup,     \* /usr/local/bin/centralcloud-agent.previous
  before      \* history: what was installed when the run began

vars == <<pc, command, asset, temp, target, backup, before>>

runVars == <<command, asset, before>>
files == <<target, backup>>

Release == Version \union {None}

TypeOK ==
  /\ pc \in {"idle", "download", "verify", "stat", "remove", "aside", "commit",
             "committed"}
  /\ command \in {"provision", "update"}
  /\ asset \in Release
  /\ temp \in Release \union {Corrupt}
  /\ target \in Release
  /\ backup \in Release
  /\ before \in Release

Init ==
  /\ pc = "idle"
  /\ command = "provision"
  /\ asset = None
  /\ temp = None
  /\ target = None
  /\ backup = None
  /\ before = None

Move(from, to) == pc = from /\ pc' = to

(* The binary the host can be brought back to work with.                   *)
Installed == IF target # None THEN target ELSE backup

-----------------------------------------------------------------------------
(* CheckInstallerCompatibility                                             *)

(* Versions are compared part by part, and the first difference decides.   *)
AtLeast(x, y) ==
  \A i \in 1..3 : x[i] < y[i] => \E j \in 1..3 : j < i /\ x[j] > y[j]

(* A version that is not x.y.z is an error; a pre-release counts as its    *)
(* release.                                                                *)
Compatible(current, minimum) ==
  current # None /\ minimum # None /\ AtLeast(current, minimum)

-----------------------------------------------------------------------------
(* InstallAsset                                                            *)

(* The manifest was fetched and its signature verified.                    *)
Fetch ==
  /\ Move("idle", "download")
  /\ command' \in {"provision", "update"}
  /\ asset' \in Version
  /\ command' = "provision" =>
       \E current \in Installer : Compatible(current, Minimum[asset'])
  /\ before' = Installed
  /\ temp' = None
  /\ UNCHANGED files

Download ==
  /\ Move("download", "verify")
  /\ temp' \in {asset, Corrupt}
  /\ UNCHANGED <<runVars, files>>

(* A plausible bug: the digest of the download is not compared.            *)
WriteUnverified ==
  /\ Move("verify", "stat")
  /\ UNCHANGED <<runVars, temp, files>>

(* The digest is compared before the temporary file is written.            *)
VerifyAndWrite ==
  /\ temp = asset
  /\ Move("verify", "stat")
  /\ UNCHANGED <<runVars, temp, files>>

Stat ==
  /\ pc = "stat"
  /\ pc' = IF target # None THEN "remove" ELSE "commit"
  /\ UNCHANGED <<runVars, temp, files>>

(* The error of removing the older backup is ignored: the rename replaces  *)
(* what is left.                                                           *)
RemoveBackup ==
  /\ Move("remove", "aside")
  /\ backup' \in {None, backup}
  /\ UNCHANGED <<runVars, temp, target>>

(* A plausible bug: the target is removed instead of being kept aside.     *)
RemoveTarget ==
  /\ Move("aside", "commit")
  /\ target' = None
  /\ UNCHANGED <<runVars, temp, backup>>

MoveAside ==
  /\ Move("aside", "commit")
  /\ backup' = target
  /\ target' = None
  /\ UNCHANGED <<runVars, temp>>

Commit ==
  /\ Move("commit", "committed")
  /\ target' = temp
  /\ temp' = None
  /\ UNCHANGED <<runVars, backup>>

(* A plausible bug: the error path cleans the backup up.                   *)
CommitFailsDroppingBackup ==
  /\ Move("commit", "idle")
  /\ backup' = None
  /\ temp' = None
  /\ UNCHANGED <<runVars, target>>

(* The second rename fails: the backup is renamed back, whose own failure  *)
(* is ignored.                                                             *)
CommitFails ==
  /\ Move("commit", "idle")
  /\ \/ UNCHANGED files
     \/ /\ backup # None
        /\ target' = backup
        /\ backup' = None
  /\ temp' = None
  /\ UNCHANGED runVars

(* Any other call fails, or the installer is killed.                       *)
Abandon ==
  /\ pc \notin {"idle", "committed"}
  /\ pc' = "idle"
  /\ temp' = None
  /\ UNCHANGED <<runVars, files>>

(* The binary is in place; what comes next no longer concerns the files.   *)
Return ==
  /\ Move("committed", "idle")
  /\ before' = Installed
  /\ UNCHANGED <<command, asset, temp, files>>

Next ==
  \/ Fetch \/ Download \/ VerifyAndWrite \/ Stat \/ RemoveBackup \/ MoveAside
  \/ Commit \/ CommitFails \/ Abandon \/ Return

Spec == Init /\ [][Next]_vars

-----------------------------------------------------------------------------
(* Properties                                                              *)

(* However the run ends, the host has the verified Agent binary it had or  *)
(* the new one, as target or as backup.  Between the two renames           *)
(* (release.go:159, :163), and after a run killed there, there is no       *)
(* target for systemd to start: the "atomic Agent replacement" of          *)
(* docs/operations.md:6 is the three steps of BinarySlot.                  *)
Slot == INSTANCE BinarySlot
          WITH release <- Installed, startable <- (target # None)

SlotSpec == Slot!SlotSpec

(* A run that fails or is killed leaves the binary it found, under one of  *)
(* its two names; only a committed run changes it, to the release that was *)
(* asked for.                                                              *)
OnlyCommitReplaces ==
  /\ pc # "committed" => Installed = before
  /\ pc = "committed" => target = asset

(* docs/operations.md:6: update "retains the previous binary for           *)
(* rollback": whatever an earlier run left behind, a committed run has the *)
(* binary it replaced as its backup.                                       *)
PreviousRetained == (pc = "committed" /\ before # None) => backup = before
=============================================================================
