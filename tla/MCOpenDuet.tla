------------------------------ MODULE MCOpenDuet ------------------------------
(***************************************************************************)
(* Instances of OpenDuetInstall for TLC.                                   *)
(***************************************************************************)
EXTENDS OpenDuetInstall

MCBuildTree == {"config"}
==============================================================================
