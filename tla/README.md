# Verification of the legacy macOS install kit

The repository prepares USB installers of Mac OS X 10.5-10.9 for PCs that Apple never
supported. Its own program is about 13,000 lines of bash and Python in the root directory
and `scripts/`; the rest is vendored (Apple's XNU kernel under `kernel/Atom-Kernel-N570/src`,
1.1 million lines of C, C++ and assembly), binary assets and documentation. This project is
about two things. The first is the part of the kit's own code that can destroy something:
scripts that run as root, rewrite boot sectors, erase disks and replace the file trees a
machine boots from, and the shared cache those trees are built from. The second is the
concurrent core of the kernel the kit builds for the Atom N570: the parts that every driver
the kit installs depends on while it is matched and started.

## 1. Inventory

| Component | State it keeps | Operations | What makes it hard |
|---|---|---|---|
| `scripts/linux_install_openduet.sh` | MBR, boot sector (PBR) and files of the ESP; backup directories; `$TMP` | save both sectors, recover the PBR from sector 6, build a new PBR, write boot0, PBR, `/boot` | the partition node vanishes after the MBR write; signals; a kill between two writes; repeated runs |
| `scripts/linux_update_efi.sh` | EFI, Kernels, boot on the ESP; backup directory; a mount point | back up, remove, copy, check, call the installer above, verify | a child process that shares the terminal's signals; partial copies; commands that run on a bare directory after a failed mount |
| `scripts/linux_make_usb_legacy.sh` behind `linux_make_usb.sh` | partition table, ESP, installer volume, loop device and mounts | inspect the image, partition, clone or copy, replace the kernel, copy EFI, run OpenCorePkg's BootInstall, verify | errexit is ignored inside `if restore_block`; fallback after the wipe; cleanup on busy mounts |
| `scripts/select_opencore_release.sh` and the download part of `prepare_aspire4310_macos.sh` | `downloads/`, `manifest.tsv`, `cache/opencore/`, `cache/current-sources.env` | download, record, unpack, validate, select | no lock: two shells share `.part` and `.extracting`; kills leave anything behind; a file rewritten in place |
| `legacy_macos_install.sh` | none of its own | parse the target, select a release, start an engine | the selection may change before the build reads it |
| engines `prepare_*.sh` | build roots under `output/`, macOS volumes | build an ESP tree, write a stick on macOS | a failed build leaves an acceptable-looking tree |
| `repair_openduet_esp.sh`, `linux_make_recovery_usb.sh` | as the first and third row | repair, or write, one stick | as above |
| kernel downloads | a directory per kernel | mirror list, extraction, validation | a copy that is cut short |
| config generators, validators, inspectors, reports | none | translate profiles, parse files | nothing concurrent or stateful |

In the kernel (`kernel/Atom-Kernel-N570/src/xnu`):

| Component | State it keeps | Operations | What makes it hard |
|---|---|---|---|
| `osfmk/i386/i386_lock.s`, `locks_i386.c`: `lck_rw_t` | one 32-bit word: reader count, interlock, want and waiting bits; sleepers | lock shared or exclusive, upgrade, downgrade, done | lock-free fast paths beside slow paths with an interlock; wake-ups after the word was changed |
| `osfmk/kern/thread_call.c` on `timer_call.c` | pending and delayed queue, free entries, counts of idle and active threads, one timer | enter, enter delayed, cancel, run, expire | callouts that block; timer handlers without a lock; a daemon that makes threads |
| `iokit/Kernel/IOService.cpp`: arbitration locks | active and waiting queue | lock (may fail, or may not), unlock | deadlock search at run time, victims, interrupts |
| `IOService.cpp`, `IOCatalogue.cpp`: registration and matching | state flags and busy count per service, jobs, configuration threads, catalogue and its generation | register, match, stall for a module, wait until quiet, change the catalogue | many threads, several locks, flags read without one |

How they interact: the dispatcher calls the selector and then an engine; an engine reads
`current-sources.env` and the cache and builds a tree; on Linux it calls `linux_make_usb.sh`,
which runs the USB writer or, for `--update-efi`, the updater; the updater runs the
boot-sector installer as a child. Everything else goes through the file system. All media
scripts share one execution discipline: `set -Eeuo pipefail` and
`trap cleanup EXIT INT TERM` with a `cleanup` that starts with `set +e` and does not exit.
What bash makes of this is the common core of the hazards: after a signal the script
*continues*, with errexit off, its temporary files removed and its mounts gone.

In the kernel, matching takes the arbitration locks; drivers' work runs as thread calls and
uses `lck_rw_t`. Each of the four modules takes the one below it for granted.

`PROJECT.json` lists every component, modelled or not, and every hazard with its line.

## 2. Modules

- **ShellScript** - the execution discipline: program counter, errexit, a pending signal,
  exit status, and budgets for runs, signals and failures. `Command(l, n, possible, effect,
  same)` is one simple command: it succeeds if what it needs is there; it fails for lack of
  it or by a fault (which spends one of `MaxFailures`); or a signal kills it. Errexit decides
  between the EXIT trap and the next command. `SignalBetween` is a signal the current command
  survives, `SignalEnds` one that hits a command substitution, `KilledOutright` is SIGKILL or
  a power loss. Each script module extends this one and owns the files and devices.
- **OpenDuetInstall** - `linux_install_openduet.sh`, one action per command. A PBR is the BPB
  it carries and the code around it; an MBR is its boot code. `work` is what a run has (`$TMP`,
  `$MOUNT_DIR`, `$BACKUP_DIR` and the files in them), `saved` what all backup directories
  hold, `node` whether `/dev/sdX1` is a block device, absent, or the plain file that `dd`
  creates when it is absent. The environment drops and restores the node, kills the run, and
  replugs the stick.
- **UpdateEfi** - `linux_update_efi.sh`. Each part of the tree is known by its origin (old,
  new, partial, an empty directory). `Tree` is what the script sees under `$ESP_MOUNT`: the
  ESP, or the bare directory if nothing is mounted. `RunInstaller` represents the child by
  the contract the first module establishes (`SuccessMeansInstalled` and the loss that
  `EspTreeKept` shows).
- **MakeUsb** - `--make-usb`. `CommandInCondition` is a command inside `if restore_block`,
  whose failure is passed over; so is that of a `blockdev` in the size check, whose answer is
  then wrong (`Measured`). The operator's image (HFS, ISO, directory; too large or
  not), the AMD kernel and the presence of `mkfs.hfsplus` are initial choices.
- **OpenCoreCache** - the cache with any number of shells that run three commands without a
  lock. `fd` and `spoiled` follow an open descriptor of `curl` through the rename of its file
  and through a second `curl` that empties it. Files are what upstream has or not; trees
  have all files of their release or not. An archive that upstream does not have is refused by
  `unzip` or unpacked into such a tree.
- **RWLock** - what a reader/writer lock promises: readers or one writer, and an upgrade that
  no writer comes in front of.
- **LckRw** - `lck_rw_t`. A fast path is one step on the word, because it ends in a compare and
  exchange and refuses to act while the interlock is set. A slow path spins (`at = "spin"`),
  takes the interlock (`"ilk"`), and proceeds or sleeps (`"block"`). `wakeups[t]` are the
  `thread_wakeup` calls a thread still has to make after it changed the word. `pc` tells what
  each thread has, which the code does not record: `exclW` and `exclU` are holds through
  `want_write` and `want_upgrade`. The refinement mapping reads readers, writers and upgraders
  off `pc`.
- **ThreadCall** - `thread_call.c`. Every routine runs under `thread_call_lock` and is one step;
  the daemon, which lets the lock go while it makes a thread, and a timer interrupt, which
  takes the timer off its queue before its handler gets the lock, are two. A callout may block
  and never return. The queues are sequences: `Without` is `remque`, `UpTo` the walk along the
  deadlines.
- **ArbitrationLock** - `lockForArbitration` and `unlockForArbitration`, each one step under the
  queue lock, and what a thread does after its sleep. `HolderChain` is the search; a victim is
  taken off the queue, an interrupted thread looks where its element is.
- **ServiceMatch** - `startMatching`, `doServiceMatch`, `_adjustBusy`, `waitForState`, the pool of
  configuration threads and the catalogue. `at` is the place of a thread in these routines, and
  `local` its local variables. A step is what happens under one lock; `_adjustBusy` is one step
  per service of its walk. The sleep of `waitMatchIdle`, its wake-up by the last configuration
  thread and its timeout are steps of their own, as are the creation of a configuration thread
  and the signal that follows it. Which operations the clients do is a constant (`Scenarios`), so that
  each run asks about a few of them in all orders.
- **MCOpenDuet, MCCache, MCLckRw, MCThreadCall, MCArbitrationLock, MCServiceMatch** - constants
  for TLC. UpdateEfi and MakeUsb need none.
- **OpenDuetProofs, UpdateEfiProofs, MakeUsbProofs, CacheProofs, LckRwProofs, ThreadCallProofs,
  ArbitrationProofs, ServiceMatchProofs** - the theorems about one module each (section 4). The
  first three each begin with what they need of the discipline (`MoveTypes`, `RunTypes`).

The definitions named under `mutants` in `PROJECT.json` (`...Forgotten`, `...Lenient`,
`...InPlace`, `...Unlocked` and the like) are faulty versions of the definition that follows
them. They are used by no specification; they document which slip each property would catch.

## 3. Runs

Passing:

| Run | Shows |
|---|---|
| `openduet` | `SuccessMeansInstalled`: status 0 means boot code, PBR and files are in place, over two runs, unless a signal *and* a failing command were met. `OverwrittenIsSaved`: without a signal, no sector is overwritten that is not in a backup directory. `FatNeverLost`: a FAT ESP is never given a PBR that does not describe it. |
| `update_efi` | `SuccessMeansUpdated`, `OldTreeKept` (what leaves the ESP is in a backup; a signal may cost the old `/boot` but not EFI and Kernels), `BootSectorsLast`. |
| `make_usb` | `SuccessMeansBootable`, `SuccessMeansInstaller` (for a file copy, or if nothing failed), `FallbackHasSource`. |
| `cache` | `SelectedIsUnpacked`, `CachedIsWhole`, `RecordedIsUpstream`: with one command at a time the cache is sound wherever commands are stopped; with two at once a selected release has at least been unpacked. |
| `cache_live` | `ReleaseGetsCached`: nothing a stopped command leaves behind keeps a release out for ever. |
| `lck_rw` | `WordTellsHold`: `lck_rw_done` finds the caller's own hold in the word. `SleeperIsAnnounced`: no wake-up is lost. `ImplementsRWLock`: the code implements the abstract lock. `WaitersGetThrough`: nobody waits for ever for a lock the others have left. Deadlock is checked. |
| `thread_call` | `CountsAgree`, `PendingIsServed`, `DelayedIsTimed`, `EntryHasOnePlace`, and `CallsGetRun`: a call that is not cancelled is run even when other callouts block for ever. |
| `arbitration` | `NoCircularWait`, `WaitedIsHeld`, `FailsOnlyForDeadlock` (a victim may fail, and without its request the circle is open; a panic is for a request on another's service that closes a circle on which no request may fail), `WaitersGetThrough`. |
| `service_match` | `BusyConserved`: the busy count is the sum of its causes at any time, up to walks in progress. `SingleThreadedPerProvider`, `JobsHaveThreads`, `DriversAreFound` (a service at rest was matched against the catalogue as it is). `RegistrationsAreMatched`: in these scenarios no registration is forgotten. `WaitersReturn`: `waitForState`, `waitMatchIdle` and a synchronous registration do not sleep for ever, without the help of a timeout. |

Violations, each of a statement of the repository's own (quoted in `PROJECT.json`):

| Run | What the code does |
|---|---|
| `update_efi_interrupted` | ^C while the child runs: "completed successfully" without boot sectors |
| `make_usb_clone` | one failing command inside `if restore_block`: success without the AMD kernel or with part of the volume |
| `service_match_sync` | a second registration while the first, synchronous one waits: two threads run `doServiceMatch` on one service, and the busy count is decremented twice |

Further counterexamples, found with configurations that are kept beside the runs
(`tlc -config X.cfg M`) and described under `findings`:

| Configuration | Module | What the code does |
|---|---|---|
| `MCOpenDuetInterrupted.cfg` | MCOpenDuet | a signal during the capture of the MBR: the script goes on and overwrites what was not captured |
| `MCOpenDuetBusy.cfg` | MCOpenDuet | a failing `umount` in `cleanup`, then `rm -rf "$TMP"` empties the mounted ESP |
| `MCCacheVerified.cfg` | MCCache | an archive of unknown origin is recorded as VERIFIED |
| `MCCachePins.cfg` | MCCache | a selection stopped while it rewrites `current-sources.env` loses the pins |
| `MCServiceMatchAdd.cfg` | MCServiceMatch | a driver is added while a service is registered: the service misses it, because the generation is increased after the services were told |
| `MCServiceMatchLost.cfg` | MCServiceMatch | a second registration comes between the unlocked look of a synchronous one at NeedConfig and its sleep: it leaves the work to a publisher that does not look again, and is never matched |

The passing `service_match` run stays out of the situations of the three kernel findings. Its
scenarios leave out `SyncTwice`, where a service that is registered synchronously, and has a client
whose busy count changes, is registered again: there `SingleThreadedPerProvider`, `BusyConserved` and
`RegistrationsAreMatched` all fail. And they add drivers only for a service that is registered
already: otherwise `DriversAreFound` fails.

**Bounds.** Two runs of a script are enough for a second run to meet whatever state the
first can leave; a third meets no other kind of state, since a run keeps nothing but the disk
and the backups. One signal turns errexit off and removes `$TMP`; a second one
(`openduet`) lets `cleanup` run twice. Two failures let a command fail and `cleanup` fail
too. The cache run has two releases, so that "newest" can move, and two shells, the least
that can collide; `cache_live` has one shell and two kills. Deadlock is not checked where a
script ends when its budget of runs is used up; it is checked for the cache, where a command
can always be started.

In `lck_rw` three threads are the least with an upgrader, a second upgrader and a writer; all
four kinds of lock (writers privileged or not, allowed to sleep or not) are initial states.
`thread_call` has an external and an internal entry, `MaxTime` 1 (a deadline that has passed
and one that has not), one callout blocked at a time and two processors that may be in the
timer handler. The bounded clock leaves out a client that enters the same call with ever later
deadlines, which may be put off for ever: `CallsGetRun` is not about it. `arbitration` has three threads and three services, so that a cycle need not be
found at the first holder, and recursion to `MaxCount` 2; deadlock is not checked because a
panic ends the kernel. `service_match` has a chain of three services, so that a busy walk
passes through one that others change, two configuration threads for up to four jobs, and
four scenarios; it ends when all operations are done.

**Fairness.** In `cache_live`: a started command is scheduled (`WF` of its
steps), and the operator asks for a release again and again (`SF` of `Start` for `fetch`).
The number of kills is finite. Commands have no loops without an end: `curl --retry 3` and
the unpacker return. In the kernel modules the scheduler runs every thread that can
run (`WF` of its steps), holders give a lock back, and the clock and its interrupts go on; no
client has to ask for anything, no wait has to time out, and a callout that blocks need not
return. `ThreadCall` needs `SF` for a call thread: a callout that blocks and comes back
again and again returns at last.

**The "one kind of fault" condition.** After a signal, with errexit off, one more failing
command is passed over, so several promises hold only if not both a signal and a failure
were met (`SingleKindOfFault`). This is a fact about the code: without the condition TLC
finds counterexamples.

## 4. Proofs

Every safety property that a passing run checks is proved for every value of the constants: any
number of runs, signals and failures, of threads, services, entries, shells and releases. Six
theorems have a hypothesis beside the assumptions of their module: three about the cache and three
about ServiceMatch. They are discussed below, with the counterexamples of section 3 that show why they
are there. TLC finds each inductive invariant to hold on the instance of its run as well.

| Module | Theorem | States | Run that checks it too |
|---|---|---|---|
| OpenDuetProofs | `TypesHold`, `SuccessIsReal`, `NothingLost`, `FatKept` | `TypeOK`, `SuccessMeansInstalled`, `OverwrittenIsSaved`, `FatNeverLost` | `openduet` |
| UpdateEfiProofs | `TypesHold`, `SuccessIsUpdated`, `OldTreeIsKept`, `SectorsComeLast` | `TypeOK`, `SuccessMeansUpdated`, `OldTreeKept`, `BootSectorsLast` | `update_efi` |
| MakeUsbProofs | `TypesHold`, `SuccessIsBootable`, `SuccessHasInstaller`, `SourceIsThere` | `TypeOK`, `SuccessMeansBootable`, `SuccessMeansInstaller`, `FallbackHasSource` | `make_usb` |
| CacheProofs | `TypesHold`, `TreesAreWhole`, `SelectionIsUnpacked`, `RecordIsTrue` | `TypeOK`, `CachedIsWhole`, `SelectedIsUnpacked`, `RecordedIsUpstream` | `cache` |
| LckRwProofs | `TypesHold`, `WordIsRight`, `NoWakeupLost`, `LockIsRWLock` | `TypeOK`, `WordTellsHold`, `SleeperIsAnnounced`, `ImplementsRWLock` | `lck_rw` |
| ThreadCallProofs | `TypesHold`, `CountsAreRight`, `PendingHasServer`, `TimerIsEarly`, `EntriesHavePlaces` | `TypeOK`, `CountsAgree`, `PendingIsServed`, `DelayedIsTimed`, `EntryHasOnePlace` | `thread_call` |
| ArbitrationProofs | `TypesHold`, `QueuesFit`, `NoDeadlock`, `FailureIsJust` | `TypeOK`, `WaitedIsHeld`, `NoCircularWait`, `FailsOnlyForDeadlock` | `arbitration` |
| ServiceMatchProofs | `TypesHold`, `NoJobIsLeft`, `MatchingIsSingleThreaded`, `CountsAreTrue`, `DriversGetFound` | `TypeOK`, `JobsHaveThreads`, `SingleThreadedPerProvider`, `BusyConserved`, `DriversAreFound` | `service_match` |

Each module also has `InvariantHolds`: `Spec => []IndInv`, the inductive invariant the others
follow from; ServiceMatchProofs has `KindsAndPool` for every scenario, and an invariant per
hypothesis. The assumptions are those the modules state. `BoundsAssumption`: the budgets of
runs, signals and failures are natural numbers. `BuildTreeAssumption`: a build tree has its
config and may have a kernel. `CacheAssumption`: there is a release, kills are finitely many, and an
archive found in `downloads/` is absent, good or bad. `ThreadsAssumption`: the threads are fewer than
65536, what the 16-bit count of the lock word can tell. `ArbitrationAssumption`: the threads are finitely
many and recursion has a bound. `CallsAssumption`: external and internal entries differ, every
external one has its function, the threads are finitely many, there is a processor. `MatchAssumption`:
services and threads are finitely many, providers make no circle, and each driver, service,
operation and client is of its kind.

**The scripts.** `SuccessMeansInstalled` and its like are not inductive: they say nothing about
a run in progress. Each invariant adds to `TypeOK` what a label implies.

- *OpenDuetInstall*: which files the run has and what is in them (`FilesInv`), that the new PBR
  is built from the captured one in the order of the pipeline (`PipelineInv`), that what has been
  written so far is on the stick (`CompleteInv`), and what holds of a run that met no signal
  (`QuietInv`). The argument for interrupted runs is that *a signal costs the run its `$TMP`*:
  `cleanup` removes the half-built sector, so the write of the PBR and the mount fail for lack of
  their input and `VerifyFiles` ends the run, unless all that had been done before.
- *UpdateEfi*: without a signal a run that is still going has skipped nothing (`QuietInv`). For
  `OldTreeKept` that is not enough, because the property speaks of runs with signals too. There
  *the mount is what matters*: a trap takes the ESP off `$ESP_MOUNT` and the script does not put it
  there again before it rewrites the tree. So while the ESP is mounted and no trap is pending, the
  backup is not among the commands that were skipped (`KeptInv`).
- *MakeUsb*: the same for the ESP (`EspInv`) and for the installer volume (`InstallerInv`), where a
  failing command inside `restore_block` is passed over: what is known of the volume then needs
  that nothing failed or that the files were copied one by one; that a volume being cloned fits its
  partition needs the same, since the size check may have failed. `EspInv` also says what is mounted
  where, and with it that the last `cleanup` empties no partition of a stick reported as made.
- *OpenCoreCache*: as long as no two commands have run at once, one command is under way
  (`AloneInv`), its `.part` and its `.extracting` are its own (`CleanInv`) and what it has checked is
  still there (`CheckedInv`), and the archives are upstream's (`SoundInv`). This has the hypothesis that
  no archive in `downloads/` was bad to begin with, as in the `cache` run; without it the code
  unpacks another zip and records it as verified (`MCCacheVerified.cfg`). That a selected release has a
  tree (`SelectionHasTree`) needs neither proviso: a tree never leaves the cache.

**The reader/writer lock.** What a thread has (`pc`) is tied to the word: the count is the number
of readers (`CountInv`), `want_write` and `want_upgrade` have one owner at most (`OwnersInv`), and who
holds the lock exclusively holds it alone (`AloneInv`). `WordTellsHold` follows, and nothing weaker is
kept by `lck_rw_done`, which decides by the word what to give back. `LockIsRWLock` is the refinement:
`StepsMap` shows, for one action at a time, that a step maps to a step of `RWLock` or to none.

**Thread calls.** `EntriesInv` and `QueuesInv`: an entry is on the queue its `queue` field names, and
there once; `ClockInv`: the delayed queue is ordered and the timer is early enough or its handler on
the way; `WorkersInv`: the two thread counts. `PendingIsServed` is inductive only together with
the counts, because `thread_call_wake` decides by them whom to wake. The lemmas about the queues
(`WithoutIs`, `UpToIs`, `EnqueueDeadlineIs`, `SplitIs`, `JoinIs`) say what removal, ordered insertion
and the cut of the timer do to a queue of any length. They do without induction over sequences: an
entry that is kept moves to the place that is the number of kept places up to its own
(`RanksRise`, `RanksFill`).

**Arbitration locks.** `NoCircularWait` and the fit of queues and threads (`QueuesInv`) need each
other: the deadlock search follows the waiting queue from holder to holder, it ends because there
is no circle yet (`SearchEnds`), and it has then visited every thread the new request would wait
for (`WaitClosesNoCircle`), so that closing a circle would have been noticed. For `FailureIsJust` the
threads the search has visited before it came back to the asking one are themselves the circle; if
it found no victim, each of their requests must be one that may not fail (`PanicClosesCircle`). The
search is a
recursive function; what it visits is proved by induction on its places, in the form that a set of
natural numbers which is not empty has a least element (`LeastNatural`, `InductionTo`).

**Registration and matching.** The theorems come in four groups, by what they need.

- *For every scenario* (`KindsAndPool`): where threads may be and what they then work on
  (`PlacesInv`, `StateInv`), and the pool (`PoolInv`). `JobsHaveThreads` is not inductive alone:
  `TakeJob` needs that a job is there when the semaphore is up, so the invariant adds that the jobs
  are those the semaphore counts and those whose client has still to signal. It holds with
  synchronous registrations and a changing catalogue too: none of the findings touches the pool.
- *When no client registers synchronously* (`AllAsynchronous`). Then only configuration threads
  match (`AsyncInv`), and `TokenInv` follows a request: from `startMatching`, which finds
  neither NeedConfig nor Config, to the end of the matching there is exactly one thread or one
  place in the queue of jobs that is responsible for the service. This gives
  `SingleThreadedPerProvider`. The hypothesis is needed: `service_match_sync` violates the property.
- *And the counts fit* (`CountsFit`: the clients of a provider and the threads are together fewer
  than 255, the largest busy count). `_adjustBusy` holds the lock it began with and one more, so
  walks overtake each other on their way up. `WalkInv`: a walk is above the service it began at
  (`Above` is the least set that is closed under `Provider`); a walk that adds has a reason where it
  began; all it has passed is still busy; and no other adding walk arrives from what it has passed.
  So distinct adding walks at a service come from distinct busy clients of it (`PlusFits`), a walk
  that takes always finds something to take (`NoUnderflow`), and one that adds finds room
  (`NoOverflow`): the "bad busy count" of the code is never reached. `ClimbBalances` then shows that
  each step settles at one service exactly what becomes due at its provider.
- *When the set of drivers stays as it is* (`AllAsynchronous` and `CatalogueStays`: modules are
  loaded and announced at any time, but no driver is added or removed). `FoundInv`: what a thread has
  read from the catalogue is true or its service has been asked for again, and a service at rest is
  `Settled`: it has no driver in the catalogue, has one started and does not stall, or one is missing
  whose arrival it will still be told of. A module that comes in between the look at the
  catalogue and the end of the matching is announced by a client that has not done so yet, or is among
  those being told, and telling sets NeedConfig, which `MatchAgain` sees. The hypothesis
  about the catalogue is needed: `MCServiceMatchAdd.cfg` violates the property. The one about
  registrations is what the argument rests on (one thread per service); no run shows that
  `DriversAreFound` fails without it.

**Only model-checked.**

- All liveness: `ReleaseGetsCached`, `WaitersGetThrough` of both locks, `CallsGetRun`,
  `RegistrationsAreMatched`, `WaitersReturn`. The last but one is false in the scenario of
  `MCServiceMatchLost.cfg`. Fairness and `ENABLED` are out of the prover's reach.
- `SingleThreadedPerProvider`, `BusyConserved` and `DriversAreFound` in scenarios outside of the
  hypotheses above. They are false for some of these; the passing run shows them for
  a synchronous registration during which a module is loaded (`SyncAndLoad`), and `DriversAreFound`
  for drivers added and removed under a service that is registered already (`Changes`).

## 5. What is left out

- In `OpenDuetInstall.MakeTemp` and `UpdateEfi.MakeMountDir` a failing `mktemp` ends the run;
  that it fails after a signal has turned errexit off (and `$TMP` is then empty) is not
  modelled.
- A FAT mounted twice at once is a mount in `mounts`, without a model of the kernel's caches.
- In MakeUsb the partitions belong to the stick: `--esp-part` and `--installer-part` pointing
  elsewhere, and a kernel that keeps an old partition table, are listed as hazards.
- `linux_make_usb_legacy.sh --update-efi` cannot be reached behind `linux_make_usb.sh`; its
  `--verify`, `--inspect-retail` and `--list-disks` write nothing.
- In OpenCoreCache DEBUG and RELEASE archives are releases like any other; the HFS drivers,
  kexts and combo updates are one resolved pin; "bad" stands for every content upstream
  does not have.
- LckRw leaves out clocks, statistics and `lck_rw_assert`. The 16-bit reader count cannot
  overflow as long as there are fewer than 65536 threads (`ThreadsAssumption`); a thread that
  takes the lock shared twice is not modelled.
- ThreadCall leaves out `param1`, and `thread_call_is_delayed`, which only reads. An exhausted
  internal storage and a failing thread creation are panics in the code, guards in the model.
- ServiceMatch leaves out termination (`__state` never has the inactive bit), notifications,
  `checkResources` (during which a configuration thread stalls), match categories and probe
  scores. Drivers whose provider class fits but whose properties do not are not listed for a
  service at all; in the code they make `probeCandidates` run, which also ends a stall whose
  driver was removed from the catalogue. A failing `kernel_thread_start` is listed as a hazard.

**Not modelled.** Components with status `not_modelled` have their reason in `PROJECT.json`.
Most of the repository's lines are the rest of XNU: virtual memory, BSD, networking, DTrace,
the security and driver frameworks. They are third-party code which the kit only compiles; a
model that covered a third of 1.1 million lines would be a transliteration. The four parts that
are modelled were chosen because they are concurrent, self-contained, and on the path of every
driver the kit installs. In the kit, `repair_openduet_esp.sh` and `linux_make_recovery_usb.sh`
repeat the structure of the modelled scripts; further hazards of unmodelled scripts are:
the selection of a release may change before the build reads it (`legacy_macos_install.sh:276`);
`replace_boot_files` judges a `ditto` by its directory (`prepare_aspire4310_macos.sh:1233`);
a failed validation leaves a tree that USB operations accept
(`prepare_emachines_d640_snowleopard.sh:250`); a recheck and a wipe are two steps
(`linux_make_recovery_usb.sh:146`); a partial kernel is found as already present
(`download_amd_snowleopard_kernels.sh:357`).

## 6. Plan

1. *(done)* ShellScript, OpenDuetInstall, UpdateEfi, MakeUsb, OpenCoreCache; the theorems of
   OpenDuetProofs.
2. *(done)* The kernel: LckRw with its abstract lock RWLock, ThreadCall, ArbitrationLock,
   ServiceMatch.
3. *(done)* Proofs for any number of runs, threads, services and entries: UpdateEfi, MakeUsb,
   OpenCoreCache, LckRw with the refinement of RWLock, ArbitrationLock, ThreadCall, ServiceMatch.
   Next: an abstract specification of the thread calls (an entry is idle, waiting for its time or
   for a thread) and the step simulation from ThreadCall, on the lemmas that are there; the
   weakest condition on synchronous registrations under which matching stays single threaded.
4. More of the system, where it asks a new question: termination of services
   (`IOService.cpp` 1668-2215) on top of ServiceMatch; **RepairEsp**, **RecoveryUsb** (with the
   kernel's copy of the partition table), **KernelCache**, **TargetBuild** and **Dispatcher**,
   **AcerUsb**.
