---------------------------- MODULE MCThreadCall ----------------------------
(***************************************************************************)
(* One allocated entry and one internal entry that may carry the same      *)
(* function, and threads enough for one blocked call.                      *)
(***************************************************************************)
EXTENDS ThreadCall

CONSTANTS e1, i1, t1, t2, f, g

OneExternal == {e1}
OneInternal == {i1}
TwoThreads == {t1, t2}
TwoFuncs == {f, g}
ExternalRunsF == [c \in External |-> f]
=============================================================================
