--------------------------- MODULE OpenDuetInstall ---------------------------
(***************************************************************************)
(* scripts/linux_install_openduet.sh: installs the OpenDuet boot sectors   *)
(* on a USB stick that already carries the EFI tree.  It saves the MBR and *)
(* the boot sector of the ESP (the PBR), builds a PBR from boot1f32 and    *)
(* the saved BPB, and writes boot0, the PBR and /boot, in that order.      *)
(* With --recover-fat32-backup it first restores a PBR that is no longer   *)
(* recognised from the FAT32 backup boot sector, sector 6.                 *)
(*                                                                         *)
(* A sector is modelled by what the script and the firmware tell apart: a  *)
(* PBR is the BPB it carries (bytes 3..89) and the code around it, an MBR  *)
(* the boot code in its first 446 bytes.                                   *)
(***************************************************************************)
EXTENDS ShellScript

CONSTANTS
    BuildTree   \* which of EFI/OC/config.plist and Kernels/kernel the build has

\* Every build target of the kit writes a config.plist; not all have a kernel.
ASSUME BuildTreeAssumption ==
    BuildTree \subseteq {"config", "kernel"} /\ "config" \in BuildTree

VARIABLES
    recover,  \* --recover-fat32-backup was given
    disk,     \* the stick: MBR code, PBR, sector 6 and the files of the ESP
    node,     \* what /dev/sdX1 is: the block device, nothing, a plain file
    mounts,   \* where the ESP is mounted
    work,     \* what this run has: $TMP, $MOUNT_DIR, $BACKUP_DIR, their files
    saved     \* the sectors kept in the backup directories of all the runs

toolVars == <<recover, disk, node, mounts, work, saved>>
vars == <<shellVars, toolVars>>

(***************************************************************************)
(* BPBs: "disk" describes the file system of this ESP, "template" is the   *)
(* one boot1f32 is shipped with, "blank" is zeros, "foreign" is a sector   *)
(* of another file system.                                                 *)
(***************************************************************************)
Sector(bpb, code) == [bpb |-> bpb, code |-> code]

Sectors == [bpb : {"disk", "template", "blank", "foreign"},
            code : {"orig", "duet", "blank"}]

NoFile == Sector("missing", "missing")
SectorFiles == Sectors \cup {NoFile}

MbrCodes == {"orig", "boot0", "torn"}
EspFiles == {"boot", "config", "kernel"}

boot1f32 == Sector("template", "duet")

\* What blkid says of a boot sector.
probe_fstype(pbr) == CASE pbr.bpb = "disk" -> "vfat"
                       [] pbr.bpb = "foreign" -> "other"
                       [] OTHER -> ""

fat32_sector_valid(sector) == sector.bpb = "disk"

\* Labels, in program order.
Labels == {"args", "mktemp", "backupdir", "unmount1", "probe",
           "savebroken", "savesec6", "recwrite", "reprobe",
           "capmbr", "cappbr", "origbs", "newbs", "bpb", "random",
           "boot0", "wait1", "unmount2", "pbr", "wait2",
           "mount", "cpboot", "verify", "umount", "report"}

NoWork == [tmp |-> FALSE, mdir |-> FALSE, dir |-> FALSE,
           cap |-> NoFile, cap6 |-> NoFile,
           origbs |-> NoFile, newbs |-> NoFile, esp |-> {}]

\* The states a stick can be in when the tool is first used on it: intact, left
\* without its BPB by the upstream installer, or not FAT at all.
InitialDisks ==
    [mbr : {"orig"},
     pbr : {Sector("disk", "orig"), boot1f32, Sector("foreign", "orig")},
     sec6 : {Sector("disk", "orig"), Sector("blank", "blank")},
     files : {BuildTree, {}}]

Init ==
    /\ ShellInit
    /\ recover = FALSE
    /\ disk \in InitialDisks
    /\ node = "block"
    /\ mounts \in {{}, {"elsewhere"}}
    /\ work = NoWork
    /\ saved = [mbr |-> {}, pbr |-> {}]

(***************************************************************************)
(* The script.  A command changes the run's own files, the stick or the    *)
(* backup directories, and nothing else.                                   *)
(***************************************************************************)
Makes(w) == work' = w /\ UNCHANGED <<recover, disk, node, mounts, saved>>
Writes(d) == disk' = d /\ UNCHANGED <<recover, node, mounts, work, saved>>
SavesPbr == saved' = [saved EXCEPT !.pbr = @ \cup {disk.pbr}]

Run(l, n, possible, effect) ==
    Command(l, n, possible, effect, UNCHANGED toolVars)

\* The operator runs the tool, with or without --recover-fat32-backup.
Start ==
    /\ Invoke("args")
    /\ recover' \in BOOLEAN
    /\ work' = NoWork
    /\ UNCHANGED <<disk, node, mounts, saved>>

\* Argument parsing and guards: the ESP is a block device of the disk and the
\* build root holds boot0, boot1f32 and a boot file, or it dies.
CheckArguments ==
    /\ (node = "block" /\ Succeeds("args", "mktemp")) \/ Dies("args")
    /\ UNCHANGED toolVars

\* TMP="$(mktemp -d)" and MOUNT_DIR="$TMP/esp".  A mktemp that fails ends the run;
\* that it fails after a signal has turned errexit off is left out.
MakeTemp ==
    \/ /\ Succeeds("mktemp", "backupdir")
       /\ Makes([work EXCEPT !.tmp = TRUE, !.mdir = TRUE])
    \/ (Dies("mktemp") \/ SignalEnds("mktemp")) /\ UNCHANGED toolVars

MakeBackupDir ==
    Run("backupdir", "unmount1", TRUE, Makes([work EXCEPT !.dir = TRUE]))

\* Each umount is followed by "|| true": a busy mount stays.
unmount_esp(l, n) ==
    \/ /\ Succeeds(l, n)
       /\ mounts' \in {mounts, mounts \ {"elsewhere"}}
       /\ UNCHANGED <<recover, disk, node, work, saved>>
    \/ SignalKills(l, n) /\ UNCHANGED toolVars

\* The case on $(probe_fstype): FAT goes on, an unrecognised ESP is recovered if
\* that was asked for and sector 6 is valid, anything else dies.
ProbeFilesystem ==
    LET fstype == probe_fstype(disk.pbr)
        recoverable == fstype = "" /\ recover /\ fat32_sector_valid(disk.sec6)
    IN  /\ \/ fstype = "vfat" /\ Succeeds("probe", "capmbr")
           \/ recoverable /\ Succeeds("probe", "savebroken")
           \/ fstype # "vfat" /\ ~recoverable /\ Dies("probe")
           \/ SignalEnds("probe")
        /\ UNCHANGED toolVars

\* Mutant of SaveBrokenPbr: recovers without keeping the broken sector.
SaveBrokenPbrForgotten ==
    Run("savebroken", "savesec6", work.dir, UNCHANGED toolVars)

\* esp-pbr-broken.bin and esp-pbr-backup-sector6.bin.
SaveBrokenPbr ==
    Run("savebroken", "savesec6", work.dir,
        SavesPbr /\ UNCHANGED <<recover, disk, node, mounts, work>>)

SaveSector6 ==
    Run("savesec6", "recwrite", work.dir,
        Makes([work EXCEPT !.cap6 = disk.sec6]))

\* Sector 6, as saved, is copied over the primary boot sector.
RecoverPbr ==
    Run("recwrite", "reprobe", work.cap6 # NoFile,
        Writes([disk EXCEPT !.pbr = work.cap6]))

ProbeRecovered ==
    /\ \/ probe_fstype(disk.pbr) = "vfat" /\ Succeeds("reprobe", "capmbr")
       \/ probe_fstype(disk.pbr) # "vfat" /\ Dies("reprobe")
       \/ SignalEnds("reprobe")
    /\ UNCHANGED toolVars

\* mbr-before.bin and esp-pbr-before.bin.
CaptureMbr ==
    Run("capmbr", "cappbr", work.dir,
        /\ saved' = [saved EXCEPT !.mbr = @ \cup {disk.mbr}]
        /\ UNCHANGED <<recover, disk, node, mounts, work>>)

CapturePbr ==
    Run("cappbr", "origbs", work.dir,
        /\ SavesPbr
        /\ work' = [work EXCEPT !.cap = disk.pbr]
        /\ UNCHANGED <<recover, disk, node, mounts>>)

CopyOrigbs ==
    Run("origbs", "newbs", work.tmp /\ work.cap # NoFile,
        Makes([work EXCEPT !.origbs = work.cap]))

CopyNewbs ==
    Run("newbs", "bpb", work.tmp, Makes([work EXCEPT !.newbs = boot1f32]))

\* Mutant of PreserveBpb: the BPB of boot1f32 stays in the new PBR.
PreserveBpbForgotten ==
    Run("bpb", "random", work.tmp /\ work.origbs # NoFile, UNCHANGED toolVars)

\* Bytes 3..89 of origbs into newbs; dd creates newbs if it is not there.
PreserveBpb ==
    Run("bpb", "random", work.tmp /\ work.origbs # NoFile,
        Makes([work EXCEPT !.newbs =
                 Sector(work.origbs.bpb,
                        IF @ = NoFile THEN "blank" ELSE @.code)]))

\* Bytes 496..509 of newbs, neither BPB nor code the firmware runs.
RandomisePbr ==
    Run("random", "boot0", work.tmp,
        Makes([work EXCEPT !.newbs =
                 IF @ = NoFile THEN Sector("blank", "blank") ELSE @]))

\* Mutant of WriteBoot0: "|| true", a short write is passed over.
WriteBoot0Lenient ==
    /\ Succeeds("boot0", "wait1")
    /\ \E code \in {"torn", "boot0"} : Writes([disk EXCEPT !.mbr = code])

\* The first 446 bytes of the disk, one byte at a time: cut short, it is torn.
WriteBoot0 ==
    \/ Succeeds("boot0", "wait1") /\ Writes([disk EXCEPT !.mbr = "boot0"])
    \/ /\ Fails("boot0", "wait1", TRUE) \/ SignalKills("boot0", "wait1")
       /\ \E code \in {disk.mbr, "torn"} : Writes([disk EXCEPT !.mbr = code])

\* Two rounds of fifty looks at /dev/sdX1, with a partprobe in between.
wait_for_partition(l, n) ==
    /\ \/ node = "block" /\ Succeeds(l, n)
       \/ node # "block" /\ Dies(l)
    /\ UNCHANGED toolVars

\* Mutant of WritePbr: the sector is written whether or not newbs was built.
WritePbrUnbuilt ==
    Run("pbr", "wait2", TRUE, Writes([disk EXCEPT !.pbr = work.newbs]))

\* newbs to the ESP.  With the node gone dd creates a plain file in its place.
WritePbr ==
    Run("pbr", "wait2", work.newbs # NoFile,
        IF node = "block"
        THEN Writes([disk EXCEPT !.pbr = work.newbs])
        ELSE node' = "file" /\ UNCHANGED <<recover, disk, mounts, work, saved>>)

MountEsp ==
    Run("mount", "cpboot",
        node = "block" /\ work.tmp /\ probe_fstype(disk.pbr) = "vfat",
        /\ mounts' = mounts \cup {"own"}
        /\ UNCHANGED <<recover, disk, node, work, saved>>)

\* The files under $MOUNT_DIR: those of the ESP, or of the bare directory.
MountDirFiles == IF "own" \in mounts THEN disk.files ELSE work.esp

CopyBoot ==
    Run("cpboot", "verify", work.tmp,
        IF "own" \in mounts
        THEN Writes([disk EXCEPT !.files = @ \cup {"boot"}])
        ELSE Makes([work EXCEPT !.esp = @ \cup {"boot"}]))

\* /boot, and every file of the build the EFI tree should already have.
VerifyFiles ==
    LET complete == {"boot"} \cup BuildTree \subseteq MountDirFiles
    IN  /\ \/ complete /\ Succeeds("verify", "umount")
           \/ ~complete /\ Dies("verify")
        /\ UNCHANGED toolVars

UnmountEsp ==
    Run("umount", "report", "own" \in mounts,
        /\ mounts' = mounts \ {"own"}
        /\ UNCHANGED <<recover, disk, node, work, saved>>)

\* MOUNT_DIR="" and the closing messages; the script ends with status 0.
Report == Finishes("report") /\ Makes([work EXCEPT !.mdir = FALSE])

(***************************************************************************)
(* cleanup.  With "set +e" a busy umount does not stop rm -rf "$TMP", which *)
(* then goes down into the ESP still mounted on $TMP/esp.                   *)
(***************************************************************************)
WithoutTemp == [work EXCEPT !.tmp = FALSE, !.origbs = NoFile,
                            !.newbs = NoFile, !.esp = {}]

\* umount works, or there is nothing to unmount, and $TMP is removed.
CleanupDone ==
    /\ "own" \in mounts => work.mdir
    /\ work' = WithoutTemp
    /\ mounts' = mounts \ {"own"}
    /\ UNCHANGED <<disk, failures>>

\* The ESP is still mounted when rm -rf runs: umount was busy, or was not tried
\* because MOUNT_DIR is empty by now.
CleanupBusy ==
    /\ "own" \in mounts
    /\ IF work.mdir THEN SpendFailure ELSE UNCHANGED failures
    /\ disk' = [disk EXCEPT !.files = {}]
    /\ work' = [WithoutTemp EXCEPT !.tmp = TRUE]

SignalTrap ==
    /\ TrapReturns
    /\ CleanupDone \/ (CleanupBusy /\ UNCHANGED mounts)
    /\ UNCHANGED <<recover, node, saved>>

\* A mount that outlives the run is a mount like any other for the next one.
LeftBehind == {IF m = "own" THEN "elsewhere" ELSE m : m \in mounts}

ExitTrap ==
    /\ ExitTrapReturns
    /\ CleanupDone \/ (CleanupBusy /\ mounts' = LeftBehind)
    /\ UNCHANGED <<recover, node, saved>>

(***************************************************************************)
(* What happens around the script.                                         *)
(***************************************************************************)
Signal == SignalBetween /\ UNCHANGED toolVars

Crash ==
    /\ KilledOutright
    /\ mounts' = LeftBehind
    /\ UNCHANGED <<recover, disk, node, work, saved>>

\* Rewriting the MBR makes the kernel drop the partition nodes for a while.
NodeVanishes ==
    /\ pc \in {"wait1", "unmount2", "pbr", "wait2", "mount"}
    /\ node = "block"
    /\ node' = "absent"
    /\ UNCHANGED <<shellVars, recover, disk, mounts, work, saved>>

NodeReturns ==
    /\ node = "absent"
    /\ node' = "block"
    /\ UNCHANGED <<shellVars, recover, disk, mounts, work, saved>>

\* The stick is pulled and plugged in again between two runs.
Replug ==
    /\ pc = "idle"
    /\ node # "block" \/ mounts # {}
    /\ node' = "block"
    /\ mounts' \in {{}, {"elsewhere"}}
    /\ UNCHANGED <<shellVars, recover, disk, work, saved>>

Next ==
    \/ Start \/ CheckArguments \/ MakeTemp \/ MakeBackupDir
    \/ unmount_esp("unmount1", "probe") \/ ProbeFilesystem
    \/ SaveBrokenPbr \/ SaveSector6 \/ RecoverPbr \/ ProbeRecovered
    \/ CaptureMbr \/ CapturePbr \/ CopyOrigbs \/ CopyNewbs
    \/ PreserveBpb \/ RandomisePbr \/ WriteBoot0
    \/ wait_for_partition("wait1", "unmount2")
    \/ unmount_esp("unmount2", "pbr") \/ WritePbr
    \/ wait_for_partition("wait2", "mount")
    \/ MountEsp \/ CopyBoot \/ VerifyFiles \/ UnmountEsp \/ Report
    \/ SignalTrap \/ ExitTrap
    \/ Signal \/ Crash \/ NodeVanishes \/ NodeReturns \/ Replug

Spec == Init /\ [][Next]_vars

(***************************************************************************)
(* Properties.                                                             *)
(***************************************************************************)

\* Every variable holds a value of its kind.
TypeOK ==
    /\ ShellTypeOK(Labels)
    /\ recover \in BOOLEAN
    /\ disk \in [mbr : MbrCodes, pbr : Sectors, sec6 : Sectors,
                 files : SUBSET EspFiles]
    /\ node \in {"block", "absent", "file"}
    /\ mounts \subseteq {"own", "elsewhere"}
    /\ work \in [tmp : BOOLEAN, mdir : BOOLEAN, dir : BOOLEAN,
                 cap : SectorFiles, cap6 : SectorFiles, origbs : SectorFiles,
                 newbs : SectorFiles, esp : SUBSET EspFiles]
    /\ saved \in [mbr : SUBSET MbrCodes, pbr : SUBSET Sectors]

\* The stick boots OpenDuet from the file system it had.
Installed ==
    /\ disk.mbr = "boot0"
    /\ disk.pbr = Sector("disk", "duet")
    /\ {"boot"} \cup BuildTree \subseteq disk.files

SingleKindOfFault == signals = 0 \/ failures = 0

\* When the script ends with status 0 the boot code, the PBR and the files are on
\* the stick, whatever came and went while it ran: a vanishing device node, failing
\* commands, signals, earlier runs that were killed.  It is not claimed when both a
\* signal and a failing command were met.
SuccessMeansInstalled ==
    SingleKindOfFault /\ status = "ok" => Installed

\* Unless a signal interrupted the tool, no boot sector is overwritten that is not
\* in a backup directory, over any number of failed, killed and repeated runs.
OverwrittenIsSaved ==
    [][signals = 0 =>
         /\ disk'.mbr # disk.mbr => disk.mbr \in saved.mbr
         /\ disk'.pbr # disk.pbr => disk.pbr \in saved.pbr]_vars

\* An ESP that is recognised as FAT is never written a boot sector that does not
\* describe its file system.
FatNeverLost ==
    [][SingleKindOfFault /\ probe_fstype(disk.pbr) = "vfat"
         => probe_fstype(disk'.pbr) = "vfat"]_vars

\* "Capture both sectors before touching the disk": when the boot code has been
\* touched, the one the stick came with is in a backup directory.
CaptureBeforeTouch == disk.mbr # "orig" => "orig" \in saved.mbr

\* "This writes only" boot0, the PBR and /boot: no other file of the ESP goes.
EspTreeKept == [][disk.files \ {"boot"} \subseteq disk'.files]_vars
==============================================================================
