---------------------------- MODULE MCServiceMatch ----------------------------
(***************************************************************************)
(* A root that is registered, a nub on it and a leaf on the nub.           *)
(***************************************************************************)
EXTENDS ServiceMatch, TLC

CONSTANTS root, nub, leaf, d1, d2, a, b, k, c1, c2

Op(what, service, option, d) ==
    [what |-> what, service |-> service, option |-> option, driver |-> d]
Register(s, option) == Op("register", s, option, NoDriver)
WaitQuietOf(s) == Op("waitQuiet", s, "default", NoDriver)
MatchIdle == Op("matchIdle", NoService, "default", NoDriver)
Change(what, d) == Op(what, NoService, "default", d)

Tree == {root, nub, leaf}
TreeProvider == (root :> NoService) @@ (nub :> root) @@ (leaf :> nub)
TwoDrivers == {d1, d2}
\* The driver of the leaf is listed and not loaded; one for the root comes later.
LeafAndRoot == (d1 :> {leaf}) @@ (d2 :> {root})
RootOnly == {root}
LeafDriver == {d1}
TwoThreads == {c1, c2}

ThreeClients == {a, b, k}
Scenario(opsOfA, opsOfB, opsOfK) == (a :> opsOfA) @@ (b :> opsOfB) @@ (k :> opsOfK)

\* A synchronous registration stalls until kextd has loaded the driver.
SyncAndLoad == Scenario({Register(leaf, "sync")}, {Register(nub, "default"), WaitQuietOf(root)},
                        {Change("load", d1)})
\* Registrations on two levels, one of them twice.
Nested == Scenario({Register(leaf, "default"), Register(nub, "default")},
                   {Register(nub, "async"), MatchIdle}, {})
\* The catalogue changes under a service that is being matched.
Changes == Scenario({Register(leaf, "async")}, {WaitQuietOf(nub)},
                    {Change("add", d2), Change("remove", d1)})
\* Two clients register the leaf while kextd loads its driver.
AsyncAndLoad == Scenario({Register(leaf, "async")}, {Register(leaf, "default")},
                         {Change("load", d1)})
FewScenarios == {SyncAndLoad, Nested, Changes, AsyncAndLoad}

\* The nub is registered a second time while its synchronous registration
\* waits for the leaf.
SyncTwice == {Scenario({Register(nub, "sync")}, {Register(nub, "async")},
                       {Register(leaf, "async")})}
\* The leaf is registered while its driver comes into the catalogue.
NoDrivers == {}
AddWhileRegistering == {Scenario({Register(leaf, "async")}, {},
                                 {Change("load", d1), Change("add", d1)})}
===============================================================================
