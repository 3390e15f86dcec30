------------------------------- MODULE MakeUsb -------------------------------
(***************************************************************************)
(* scripts/linux_make_usb_legacy.sh --make-usb: erases a stick and makes   *)
(* it an installer.  The retail image is inspected, the disk partitioned,  *)
(* the installer volume cloned block by block or copied file by file, its  *)
(* kernel replaced, the EFI tree copied, the boot sectors written by       *)
(* OpenCorePkg's BootInstall tool, and the result verified.                *)
(*                                                                         *)
(* restore_block is called as the condition of an "if".  There bash        *)
(* ignores errexit: a failing command in it is passed over.                *)
(***************************************************************************)
EXTENDS ShellScript

VARIABLES
    host,      \* the retail image, the AMD kernel and the tools at hand
    opt,       \* --restore-mode and --dry-run
    selected,  \* $SELECTED_RESTORE
    disk,      \* the stick
    work,      \* what is attached and mounted, and what lies under $TEMP_DIR
    bare       \* the EFI tree in $ESP_MOUNT when nothing is mounted there

toolVars == <<host, opt, selected, disk, work, bare>>
vars == <<shellVars, toolVars>>

\* view: how the image can be read; big: its HFS volume is larger than the
\* partition made for it; match: the AMD kernel is of the expected version.
Hosts == [view : {"hfs", "iso", "dir"}, big : BOOLEAN, match : BOOLEAN,
          mkhfs : BOOLEAN]

\* How much of a tree or a volume is there.
Extents == {"none", "part", "whole"}

Disks == [gpt : {"orig", "none", "esp", "both"}, fat : BOOLEAN, efi : Extents,
          boot : BOOLEAN, inst : Extents,
          kernel : {"none", "part", "retail", "amd"},
          original : {"none", "part", "retail"},
          sectors : {"orig", "torn", "duet"}]

BlankDisk == [gpt |-> "none", fat |-> FALSE, efi |-> "none", boot |-> FALSE,
              inst |-> "none", kernel |-> "none", original |-> "none",
              sectors |-> "orig"]

NoWork == [loop |-> FALSE, source |-> FALSE, dir |-> FALSE, inst |-> FALSE,
           esp |-> FALSE]

Labels == {"args", "source", "select", "confirm", "zap", "part1", "part2",
           "discover", "mkvfat", "restore",
           "unsource", "dd", "bmount", "bmarkers",
           "mkhfs", "fmount", "rsync", "fmarkers",
           "keep", "kernel", "version", "uninst",
           "espmount", "efi", "efimarkers", "unesp", "openduet", "verify"}

Init ==
    /\ ShellInit
    /\ host \in Hosts
    /\ opt = [mode |-> "auto", dry |-> FALSE]
    /\ selected = ""
    /\ disk = [BlankDisk EXCEPT !.gpt = "orig"]
    /\ work = NoWork
    /\ bare = "none"

(***************************************************************************)
(* Frames, and the two ways a failing command is met.                      *)
(***************************************************************************)
Writes(d) == disk' = d /\ UNCHANGED <<host, opt, selected, work, bare>>
Holds(w) == work' = w /\ UNCHANGED <<host, opt, selected, disk, bare>>
Still == UNCHANGED toolVars

\* A simple command outside any condition.
Run(l, n, possible, effect) == Command(l, n, possible, effect, Still)

\* A command inside restore_block fails and is passed over.
FailureIgnored(l, n, possible) ==
    /\ At(l)
    /\ IF possible THEN SpendFailure ELSE UNCHANGED failures
    /\ pc' = n
    /\ UNCHANGED <<errexit, trapped, status, runs, signals>>

\* A command fails whose status the script ends with, errexit or not.
Breaks(l, possible) ==
    /\ At(l)
    /\ IF possible THEN SpendFailure ELSE UNCHANGED failures
    /\ ExitWith("error")
    /\ UNCHANGED <<errexit, trapped, runs, signals>>

CommandInCondition(l, n, possible, effect, cut) ==
    \/ Succeeds(l, n) /\ possible /\ effect
    \/ (FailureIgnored(l, n, possible) \/ SignalKills(l, n)) /\ cut

\* A command of install_amd_kernel, which both kinds of restore call.
KernelCommand(l, n, possible, effect, cut) ==
    IF selected = "block" THEN CommandInCondition(l, n, possible, effect, cut)
                          ELSE Command(l, n, possible, effect, cut)

\* The answers a test for a file of a tree can give.
Shows(extent) == CASE extent = "whole" -> {TRUE}
                   [] extent = "part" -> BOOLEAN
                   [] OTHER -> {FALSE}

Decide(answers, l, n) ==
    (\E a \in answers : IF a THEN Succeeds(l, n) ELSE Dies(l)) /\ Still

(***************************************************************************)
(* Before anything is written.                                             *)
(***************************************************************************)
Start ==
    /\ Invoke("args")
    /\ opt' \in [mode : {"auto", "block", "files"}, dry : BOOLEAN]
    /\ selected' = ""
    /\ work' = NoWork
    /\ bare' = "none"
    /\ UNCHANGED <<host, disk>>

\* Options, the guards on the target disk, the build root and the tools.
CheckArguments ==
    (Succeeds("args", "source") \/ Dies("args") \/ SignalEnds("args")) /\ Still

\* prepare_temp, and the image attached and mounted so that the markers show.
prepare_source_image ==
    \/ /\ Succeeds("source", "select")
       /\ Holds([work EXCEPT !.loop = host.view # "dir", !.source = TRUE,
                             !.dir = TRUE])
    \/ (Dies("source") \/ SignalEnds("source")) /\ Still

SelectRestore ==
    LET choice == IF opt.mode # "auto" THEN opt.mode
                  ELSE IF host.view = "hfs" THEN "block" ELSE "files"
        refused == \/ choice = "block" /\ host.view # "hfs"
                   \/ choice = "files" /\ ~host.mkhfs
    IN  /\ selected' = choice
        /\ \/ refused /\ Dies("select")
           \/ ~refused /\ opt.dry /\ Finishes("select")
           \/ ~refused /\ ~opt.dry /\ Succeeds("select", "confirm")
        /\ UNCHANGED <<host, opt, disk, work, bare>>

\* confirm_exact "ERASE ..."; a signal at the prompt does not end the script.
Confirm == Decide(BOOLEAN, "confirm", "zap")

(***************************************************************************)
(* Partitions.                                                             *)
(***************************************************************************)
\* sgdisk --zap-all erases the partition tables and the first sector, not what the
\* partitions hold.
ZapAll ==
    LET erased == Writes([disk EXCEPT !.gpt = "none", !.sectors = "orig"])
    IN  Command("zap", "part1", TRUE, erased, Still \/ erased)

AddPartition(l, n, from, to) ==
    Run(l, n, disk.gpt = from, Writes([disk EXCEPT !.gpt = to]))

DiscoverPartitions ==
    \/ Decide({disk.gpt = "both"}, "discover", "mkvfat")
    \/ SignalEnds("discover") /\ Still

FormatEsp ==
    Run("mkvfat", "restore", TRUE,
        Writes([disk EXCEPT !.fat = TRUE, !.efi = "none", !.boot = FALSE]))

(***************************************************************************)
(* The installer volume.                                                   *)
(***************************************************************************)

\* Mutant of ChooseRestore: the source is unmounted before its size is looked at.
ChooseRestoreUnmounted ==
    /\ selected' = IF host.big THEN "files" ELSE selected
    /\ Succeeds("restore", IF selected' = "files" THEN "mkhfs" ELSE "unsource")
    /\ work' = [work EXCEPT !.source = FALSE]
    /\ UNCHANGED <<host, opt, disk, bare>>

\* The answer of restore_block's size check, and where it leads.  A blockdev that
\* fails or is killed leaves its size empty, which counts as 0: without the size of
\* the source the volume fits, without the size of the target it is too large.
Measured(large, n) ==
    \/ large = host.big /\ Succeeds("restore", n)
    \/ FailureIgnored("restore", n, TRUE)
    \/ SignalKills("restore", n)

\* The choice of the restore, with the fallback to files in auto mode.
ChooseRestore ==
    /\ \/ selected = "files" /\ Succeeds("restore", "mkhfs") /\ UNCHANGED selected
       \/ selected = "block" /\ Measured(FALSE, "unsource") /\ UNCHANGED selected
       \/ /\ selected = "block" /\ opt.mode = "auto"
          /\ Measured(TRUE, "mkhfs")
          /\ selected' = "files"
       \/ /\ selected = "block" /\ opt.mode = "block"
          /\ \/ host.big /\ Dies("restore")
             \/ Breaks("restore", TRUE) \/ SignalEnds("restore")
          /\ UNCHANGED selected
    /\ UNCHANGED <<host, opt, disk, work, bare>>

UnmountSource ==
    CommandInCondition("unsource", "dd", TRUE,
                       Holds([work EXCEPT !.source = FALSE]), Still)

\* What a volume restored from the image looks like.
Restored(extent, kernel) ==
    [disk EXCEPT !.inst = extent, !.kernel = kernel, !.original = "none"]

\* A volume that is only partly there may or may not show its kernel.
PartlyRestored ==
    \E k \in {"none", "part", "retail"} : Writes(Restored("part", k))

\* Too large a volume does not fit the partition and is cut off.
CloneBlocks ==
    CommandInCondition("dd", "bmount", work.loop,
                       IF host.big THEN PartlyRestored
                                   ELSE Writes(Restored("whole", "retail")),
                       Still \/ PartlyRestored)

FormatInstaller ==
    Run("mkhfs", "fmount", host.mkhfs, Writes(Restored("part", "none")))

Mounting(l, n, possible, command(_, _, _, _, _)) ==
    command(l, n, possible, Holds([work EXCEPT !.inst = TRUE]), Still)

\* mount_hfs_rw in restore_block and in restore_files.
mount_hfs_rw ==
    LET mountable == work.dir /\ disk.inst # "none"
    IN  \/ Mounting("bmount", "bmarkers", mountable, CommandInCondition)
        \/ Mounting("fmount", "rsync", mountable, Command)

\* Mutant of CopyFiles: an error of rsync is passed over.
CopyFilesLenient ==
    \/ Succeeds("rsync", "fmarkers") /\ Writes(Restored("whole", "retail"))
    \/ Succeeds("rsync", "fmarkers") /\ PartlyRestored

CopyFiles ==
    Command("rsync", "fmarkers", work.inst /\ work.source,
            Writes(Restored("whole", "retail")),
            Still \/ (work.inst /\ work.source /\ PartlyRestored))

\* source_has_installer_markers, or die.
CheckMarkers ==
    LET answers == IF work.inst THEN Shows(disk.inst) ELSE {FALSE}
    IN  Decide(answers, "bmarkers", "keep") \/ Decide(answers, "fmarkers", "keep")

(***************************************************************************)
(* install_amd_kernel.                                                     *)
(***************************************************************************)
KeepRetailKernel ==
    IF work.inst /\ disk.kernel # "none" /\ disk.original = "none"
    THEN KernelCommand("keep", "kernel", TRUE,
                       Writes([disk EXCEPT !.original =
                                 IF disk.kernel = "retail" THEN "retail" ELSE "part"]),
                       Still \/ Writes([disk EXCEPT !.original = "part"]))
    ELSE Succeeds("keep", "kernel") /\ Still

CopyKernel ==
    KernelCommand("kernel", "version", work.inst,
                  Writes([disk EXCEPT !.kernel = "amd"]),
                  Still \/ (work.inst /\ Writes([disk EXCEPT !.kernel = "part"])))

\* The retail kernel of the image has the expected Darwin version as well.
kernel_version_ok == CASE disk.kernel = "amd" -> {host.match}
                       [] disk.kernel = "retail" -> {TRUE}
                       [] disk.kernel = "part" -> BOOLEAN
                       [] OTHER -> {FALSE}

CheckKernelVersion ==
    Decide(IF work.inst THEN kernel_version_ok ELSE {FALSE}, "version", "uninst")

\* The umount that ends restore_block decides its status: a failure is not passed
\* over there, with or without errexit.
UnmountInstaller ==
    LET off == Holds([work EXCEPT !.inst = FALSE])
    IN  IF selected = "files"
        THEN Run("uninst", "espmount", work.inst, off)
        ELSE \/ Succeeds("uninst", "espmount") /\ work.inst /\ off
             \/ (Breaks("uninst", work.inst) \/ SignalEnds("uninst")) /\ Still

(***************************************************************************)
(* copy_efi_tree, install_openduet and verify_target.                      *)
(***************************************************************************)
mount_esp ==
    Run("espmount", "efi", disk.fat, Holds([work EXCEPT !.esp = TRUE]))

LeavesTree(extent) ==
    IF work.esp
    THEN Writes([disk EXCEPT !.efi = extent, !.boot = extent = "whole"])
    ELSE bare' = extent /\ UNCHANGED <<host, opt, selected, disk, work>>

\* EFI, Kernels and boot.  mkdir -p makes $ESP_MOUNT again, should it be gone.
copy_efi_tree ==
    Command("efi", "efimarkers", TRUE, LeavesTree("whole"), Still \/ LeavesTree("part"))

CheckTree ==
    Decide(Shows(IF work.esp THEN disk.efi ELSE bare), "efimarkers", "unesp")

UnmountEsp ==
    Run("unesp", "openduet", work.esp, Holds([work EXCEPT !.esp = FALSE]))

\* Mutant of install_openduet: the pipeline's status is lost.
install_openduet_unchecked ==
    /\ Succeeds("openduet", "verify")
    /\ Still \/ Writes([disk EXCEPT !.sectors = "duet", !.boot = TRUE])

\* OpenCorePkg's BootInstall tool writes the boot sectors and /boot.
install_openduet ==
    Command("openduet", "verify", disk.fat,
            Writes([disk EXCEPT !.sectors = "duet", !.boot = TRUE]),
            Still \/ \E code \in {"torn", "duet"} :
                        Writes([disk EXCEPT !.sectors = code]))

\* The files of both partitions and the kernel's version, not the boot sectors.  A
\* mount that fails counts as a failed check.
verify_target ==
    /\ \/ Breaks("verify", TRUE) \/ SignalEnds("verify")
       \/ \E e \in Shows(disk.efi), i \in Shows(disk.inst), k \in kernel_version_ok :
            IF disk.fat /\ e /\ disk.boot /\ i /\ k THEN Finishes("verify")
                                                    ELSE Dies("verify")
    /\ Still

(***************************************************************************)
(* cleanup: everything is unmounted and detached, and $TEMP_DIR removed,   *)
(* together with the files of a partition whose umount failed.             *)
(***************************************************************************)
Detached == [NoWork EXCEPT !.source = work.source /\ host.view = "dir"]

Cleanup ==
    \/ work' = Detached /\ bare' = "none" /\ UNCHANGED <<disk, failures>>
    \/ /\ work.esp /\ SpendFailure
       /\ work' = [Detached EXCEPT !.esp = TRUE] /\ bare' = "none"
       /\ disk' = [disk EXCEPT !.efi = "none", !.boot = FALSE]
    \/ /\ work.inst /\ SpendFailure
       /\ work' = [Detached EXCEPT !.inst = TRUE, !.dir = TRUE] /\ bare' = "none"
       /\ disk' = [disk EXCEPT !.inst = "part", !.kernel = "none", !.original = "none"]

SignalTrap == TrapReturns /\ Cleanup /\ UNCHANGED <<host, opt, selected>>
ExitTrap == ExitTrapReturns /\ Cleanup /\ UNCHANGED <<host, opt, selected>>

Signal == SignalBetween /\ Still
Crash == KilledOutright /\ Still

Next ==
    \/ Start \/ CheckArguments \/ prepare_source_image \/ SelectRestore \/ Confirm
    \/ ZapAll
    \/ AddPartition("part1", "part2", "none", "esp")
    \/ AddPartition("part2", "discover", "esp", "both")
    \/ DiscoverPartitions \/ FormatEsp
    \/ ChooseRestore \/ UnmountSource \/ CloneBlocks \/ FormatInstaller
    \/ mount_hfs_rw \/ CopyFiles \/ CheckMarkers
    \/ KeepRetailKernel \/ CopyKernel \/ CheckKernelVersion \/ UnmountInstaller
    \/ mount_esp \/ copy_efi_tree \/ CheckTree \/ UnmountEsp
    \/ install_openduet \/ verify_target
    \/ SignalTrap \/ ExitTrap \/ Signal \/ Crash

Spec == Init /\ [][Next]_vars

(***************************************************************************)
(* Properties.                                                             *)
(***************************************************************************)

\* Every variable holds a value of its kind.
TypeOK ==
    /\ ShellTypeOK(Labels)
    /\ host \in Hosts
    /\ opt \in [mode : {"auto", "block", "files"}, dry : BOOLEAN]
    /\ selected \in {"", "block", "files"}
    /\ disk \in Disks
    /\ work \in [loop : BOOLEAN, source : BOOLEAN, dir : BOOLEAN, inst : BOOLEAN,
                 esp : BOOLEAN]
    /\ bare \in Extents

Made == status = "ok" /\ ~opt.dry

\* The installer volume is all there, with the AMD kernel in place of the retail
\* one and the retail one next to it.
InstallerWhole ==
    disk.inst = "whole" /\ disk.kernel = "amd" /\ disk.original = "retail"

\* Without a signal, status 0 means a partitioned stick with its EFI tree, /boot
\* and boot sectors, whatever failed on the way and in earlier runs.
SuccessMeansBootable ==
    Made /\ signals = 0 =>
        /\ disk.gpt = "both" /\ disk.fat
        /\ disk.efi = "whole" /\ disk.boot /\ disk.sectors = "duet"

\* If no signal came, status 0 means the installer volume is whole too, provided it
\* was copied file by file or no command failed at all: also when an image that
\* proved too large was copied after the block restore had been chosen.
SuccessMeansInstaller ==
    Made /\ signals = 0 /\ (selected = "files" \/ failures = 0) => InstallerWhole

\* A restore by files never finds its source unmounted by the block restore that
\* was tried before.
FallbackHasSource == pc = "rsync" /\ signals = 0 => work.source

\* "the installer filesystem is cloned block for block", the retail kernel is
\* preserved and the verified AMD kernel installed whenever the script reports
\* success without having been interrupted.
MediaAsDocumented == Made /\ signals = 0 => InstallerWhole
==============================================================================
