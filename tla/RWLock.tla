------------------------------- MODULE RWLock -------------------------------
(***************************************************************************)
(* What a reader/writer lock of the kernel promises to the threads that    *)
(* use it: any number of readers or one writer, and an upgrade that no     *)
(* writer can come in front of.  A thread that upgrades gives its share of *)
(* the lock back first; readers may still come and go, but until the       *)
(* upgrade is complete nobody else gets the lock exclusively, so what the  *)
(* thread read before is still true.                                       *)
(*                                                                         *)
(* LckRw implements this specification.                                    *)
(***************************************************************************)

CONSTANT Threads

VARIABLES
    readers,    \* threads that hold the lock shared
    writers,    \* threads that hold it exclusively
    upgraders   \* threads that wait for the rest of the readers to leave

vars == <<readers, writers, upgraders>>

Init ==
    /\ readers = {}
    /\ writers = {}
    /\ upgraders = {}

Outside(t) == t \notin readers \cup writers \cup upgraders

AcquireShared(t) ==
    /\ Outside(t)
    /\ writers = {}
    /\ readers' = readers \cup {t}
    /\ UNCHANGED <<writers, upgraders>>

AcquireExclusive(t) ==
    /\ readers \cup writers \cup upgraders = {}
    /\ writers' = {t}
    /\ UNCHANGED <<readers, upgraders>>

ReleaseShared(t) ==
    /\ t \in readers
    /\ readers' = readers \ {t}
    /\ UNCHANGED <<writers, upgraders>>

ReleaseExclusive(t) ==
    /\ t \in writers
    /\ writers' = writers \ {t}
    /\ UNCHANGED <<readers, upgraders>>

\* The last reader of all has the lock at once.
Upgrade(t) ==
    /\ t \in readers
    /\ upgraders = {}
    /\ readers' = readers \ {t}
    /\ IF readers = {t}
       THEN writers' = {t} /\ UNCHANGED upgraders
       ELSE upgraders' = {t} /\ UNCHANGED writers

FinishUpgrade(t) ==
    /\ t \in upgraders
    /\ readers = {}
    /\ upgraders' = upgraders \ {t}
    /\ writers' = {t}
    /\ UNCHANGED readers

Downgrade(t) ==
    /\ t \in writers
    /\ writers' = writers \ {t}
    /\ readers' = readers \cup {t}
    /\ UNCHANGED upgraders

Next ==
    \E t \in Threads :
        \/ AcquireShared(t)
        \/ AcquireExclusive(t)
        \/ ReleaseShared(t)
        \/ ReleaseExclusive(t)
        \/ Upgrade(t)
        \/ FinishUpgrade(t)
        \/ Downgrade(t)

Spec == Init /\ [][Next]_vars
=============================================================================
