-------------------------- MODULE MCInstallerKeys --------------------------
(***************************************************************************)
(* Model values for InstallerKeys: an installation, a rerun of its keys    *)
(* step alone, and the step tls alone.                                     *)
(***************************************************************************)
EXTENDS InstallerKeys, TLC

MCSelections   == {{"config", "keys"}, {"keys"}, {"tls"}}
ParentSymmetry == Permutations(Parents)
=============================================================================
