------------------------ MODULE MCInstallerLiveness ------------------------
(***************************************************************************)
(* The instance of InstallerLiveness for TLC.                              *)
(***************************************************************************)
EXTENDS InstallerLiveness, TLC

CONSTANTS e1, v1, k1, s1, p1

ReleaseOne == (e1 :> v1)
=============================================================================
