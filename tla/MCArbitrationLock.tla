-------------------------- MODULE MCArbitrationLock --------------------------
(***************************************************************************)
(* Three threads and three services: the smallest instance in which a      *)
(* circle has a member that neither closes it nor is the victim.           *)
(***************************************************************************)
EXTENDS ArbitrationLock

CONSTANTS t1, t2, t3, s1, s2, s3

ThreeThreads == {t1, t2, t3}
ThreeServices == {s1, s2, s3}
==============================================================================
