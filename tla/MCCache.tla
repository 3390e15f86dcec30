------------------------------- MODULE MCCache -------------------------------
(***************************************************************************)
(* Instances of OpenCoreCache for TLC.                                     *)
(***************************************************************************)
EXTENDS OpenCoreCache, TLC

CONSTANTS sh1, sh2

OneShell == {sh1}
TwoShells == {sh1, sh2}
Shells == Permutations(TwoShells)

NoneFound == {"none"}
AnyFound == {"none", "bad", "good"}
==============================================================================
