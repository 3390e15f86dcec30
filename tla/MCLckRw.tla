------------------------------- MODULE MCLckRw -------------------------------
(***************************************************************************)
(* The lock with three threads: a holder, one that drains or upgrades and  *)
(* one that comes in between.  No symmetry, because liveness is checked.   *)
(***************************************************************************)
EXTENDS LckRw

CONSTANTS t1, t2, t3

ThreeThreads == {t1, t2, t3}
==============================================================================
