---------------------------- MODULE MakeUsbProofs ----------------------------
(***************************************************************************)
(* Proofs about MakeUsb, for every number of runs, signals and failures.   *)
(*                                                                         *)
(* Without a signal a run that is still going has skipped nothing outside  *)
(* restore_block, so each label tells how far the stick is.  Inside        *)
(* restore_block a failing command is passed over: what is known of the    *)
(* volume then needs that nothing failed, or that the files were copied    *)
(* one by one.  That the last cleanup cannot empty a partition of a stick  *)
(* that was reported as made is part of the invariant too: both are        *)
(* unmounted by then.                                                      *)
(***************************************************************************)
EXTENDS MakeUsb, TLAPS

\* Stages of the script, each the labels it spans.
Planned == {"confirm", "zap", "part1", "part2", "discover", "mkvfat", "restore"}
ByFiles == {"mkhfs", "fmount", "rsync", "fmarkers"}
ByBlocks == {"unsource", "dd", "bmount", "bmarkers"}
KernelSteps == {"keep", "kernel", "version", "uninst"}
EspSteps == {"espmount", "efi", "efimarkers", "unesp"}
Last == {"openduet", "verify"}
Formatted == {"restore"} \cup ByFiles \cup ByBlocks \cup KernelSteps \cup EspSteps \cup Last
WithSource == {"select", "mkhfs", "fmount", "rsync"} \cup Planned

\* A volume as the image has it.
Fresh == disk.inst = "whole" /\ disk.kernel = "retail" /\ disk.original = "none"

\* No command of the restore can have been passed over.
Unskipped == selected = "files" \/ failures = 0

\* Where the script is fits the restore it has chosen.
FrameInv ==
    /\ status = "ok" => pc \in {"exit", "idle"}
    /\ pc \in ByBlocks => selected = "block"
    /\ pc \in Planned \cup {"unsource", "dd"} /\ selected = "block" => host.view = "hfs"

\* What holds of the ESP and the partitions as long as no signal has come.
EspInv ==
    signals = 0 =>
        /\ ~trapped
        /\ pc \in Labels => errexit
        /\ pc \in WithSource => work.source
        /\ pc \in {"mkvfat"} \cup Formatted => disk.gpt = "both"
        /\ pc \in Formatted => disk.fat
        /\ pc \in {"efi", "efimarkers", "unesp"} => work.esp
        /\ pc \in {"efimarkers", "unesp"} \cup Last => disk.efi = "whole" /\ disk.boot
        /\ pc \in EspSteps \cup Last => ~work.inst
        /\ pc \in Last => ~work.esp
        /\ pc = "verify" => disk.sectors = "duet"
        /\ Made => /\ disk.gpt = "both" /\ disk.fat
                   /\ disk.efi = "whole" /\ disk.boot /\ disk.sectors = "duet"
                   /\ ~work.inst /\ ~work.esp

\* What holds of the installer volume then.
InstallerInv ==
    signals = 0 =>
        /\ pc \in {"select", "unsource", "dd"} \cup Planned => work.loop = (host.view # "dir")
        /\ pc \in {"unsource", "dd"} /\ failures = 0 => ~host.big
        /\ pc = "fmarkers" => Fresh
        /\ pc \in {"bmount", "bmarkers"} /\ Unskipped => Fresh
        /\ pc = "keep" /\ Unskipped => work.inst /\ Fresh
        /\ pc = "kernel" /\ Unskipped =>
             work.inst /\ disk.inst = "whole" /\ disk.original = "retail"
        /\ pc \in {"version", "uninst"} \cup EspSteps \cup Last /\ Unskipped => InstallerWhole
        /\ Made /\ Unskipped => InstallerWhole

ProgressInv == FrameInv /\ EspInv /\ InstallerInv

IndInv == TypeOK /\ ProgressInv

(***************************************************************************)
(* Types.                                                                  *)
(***************************************************************************)
Works == [loop : BOOLEAN, source : BOOLEAN, dir : BOOLEAN, inst : BOOLEAN, esp : BOOLEAN]

ToolTypes ==
    /\ host \in Hosts
    /\ opt \in [mode : {"auto", "block", "files"}, dry : BOOLEAN]
    /\ selected \in {"", "block", "files"}
    /\ disk \in Disks
    /\ work \in Works
    /\ bare \in Extents

\* A move of the shell, in a command or by a signal, keeps its variables in
\* their ranges.
LEMMA MoveTypes ==
    ASSUME NEW l, NEW n \in Labels, NEW possible, ShellTypeOK(Labels),
           \/ Succeeds(l, n) \/ Dies(l) \/ Finishes(l) \/ Fails(l, n, possible)
           \/ SignalBetween \/ SignalKills(l, n) \/ SignalEnds(l)
    PROVE  ShellTypeOK(Labels)'
  <1>1. /\ pc' \in Labels \cup {"idle", "exit"} /\ status' \in Statuses
        /\ errexit' \in BOOLEAN /\ trapped' \in BOOLEAN
    BY DEF ShellTypeOK, Succeeds, Dies, Finishes, Fails, SignalBetween, SignalKills,
           SignalEnds, SignalArrives, ExitWith, Statuses
  <1>2. runs' \in 0..MaxRuns /\ signals' \in 0..MaxSignals /\ failures' \in 0..MaxFailures
    BY BoundsAssumption
       DEF ShellTypeOK, Succeeds, Dies, Finishes, Fails, SpendFailure, SignalBetween,
           SignalKills, SignalEnds, SignalArrives
  <1> QED
    BY <1>1, <1>2 DEF ShellTypeOK

\* So do the start of a run, its traps and its end without any.
LEMMA RunTypes ==
    ASSUME ShellTypeOK(Labels),
           \/ \E l \in Labels : Invoke(l)
           \/ /\ TrapReturns \/ ExitTrapReturns
              /\ SpendFailure \/ UNCHANGED failures
           \/ KilledOutright
    PROVE  ShellTypeOK(Labels)'
  <1>1. /\ pc' \in Labels \cup {"idle", "exit"} /\ status' \in Statuses
        /\ errexit' \in BOOLEAN /\ trapped' \in BOOLEAN
    BY DEF ShellTypeOK, Invoke, TrapReturns, ExitTrapReturns, KilledOutright, Statuses
  <1>2. runs' \in 0..MaxRuns /\ signals' \in 0..MaxSignals /\ failures' \in 0..MaxFailures
    BY BoundsAssumption
       DEF ShellTypeOK, Invoke, TrapReturns, ExitTrapReturns, KilledOutright, SpendFailure
  <1> QED
    BY <1>1, <1>2 DEF ShellTypeOK

\* The stick, the host and the shell start in their ranges.
LEMMA InitTypes == Init => TypeOK
  <1> SUFFICES ASSUME Init PROVE TypeOK
    OBVIOUS
  <1>1. ShellTypeOK(Labels)
    <2>0. ShellInit
      BY DEF Init
    <2>1. pc \in Labels \cup {"idle", "exit"} /\ status \in Statuses
      BY <2>0 DEF ShellInit, Statuses
    <2>2. errexit \in BOOLEAN /\ trapped \in BOOLEAN
      BY <2>0 DEF ShellInit
    <2>3. runs \in 0..MaxRuns /\ signals \in 0..MaxSignals /\ failures \in 0..MaxFailures
      BY <2>0, BoundsAssumption DEF ShellInit
    <2> QED
      BY <2>1, <2>2, <2>3 DEF ShellTypeOK
  <1>2. disk \in Disks /\ bare \in Extents
    BY DEF Init, BlankDisk, Disks, Extents
  <1>3. work \in Works /\ opt \in [mode : {"auto", "block", "files"}, dry : BOOLEAN]
    BY DEF Init, NoWork, Works
  <1> QED
    BY <1>1, <1>2, <1>3 DEF Init, TypeOK, Works

\* A command that is passed over, or whose failure ends the script without errexit.
LEMMA OwnFailureTypes ==
    ASSUME NEW l, NEW n \in Labels, NEW possible, TypeOK,
           FailureIgnored(l, n, possible) \/ Breaks(l, possible)
    PROVE  ShellTypeOK(Labels)'
  <1>1. /\ pc' \in Labels \cup {"idle", "exit"} /\ status' \in Statuses
        /\ errexit' \in BOOLEAN /\ trapped' \in BOOLEAN
    BY DEF TypeOK, ShellTypeOK, FailureIgnored, Breaks, ExitWith, Statuses
  <1>2. /\ runs' \in 0..MaxRuns /\ signals' \in 0..MaxSignals
        /\ failures' \in 0..MaxFailures
    <2>1. ShellTypeOK(Labels) /\ UNCHANGED <<runs, signals>>
      BY DEF TypeOK, FailureIgnored, Breaks
    <2>2. failures' = failures \/ SpendFailure
      BY DEF FailureIgnored, Breaks
    <2> QED
      BY <2>1, <2>2, BoundsAssumption DEF ShellTypeOK, SpendFailure
  <1> QED
    BY <1>1, <1>2 DEF ShellTypeOK

\* A command that succeeds, fails in any way or is killed keeps the shell's types.
LEMMA CommandTypes ==
    ASSUME NEW l, NEW n \in Labels, NEW possible, TypeOK,
           \/ Succeeds(l, n) \/ Fails(l, n, possible) \/ SignalKills(l, n)
           \/ FailureIgnored(l, n, possible)
    PROVE  ShellTypeOK(Labels)'
  BY MoveTypes, OwnFailureTypes DEF TypeOK

\* Every step keeps the types of the shell's variables.
LEMMA ShellStepTypes ==
    ASSUME TypeOK, Next PROVE ShellTypeOK(Labels)'
  <1> USE DEF Labels
  <1>0. ShellTypeOK(Labels)
    BY DEF TypeOK
  <1>1. CASE Start
    BY <1>0, <1>1, RunTypes DEF Start
  <1>2. CASE CheckArguments \/ prepare_source_image
    BY <1>0, <1>2, MoveTypes DEF CheckArguments, prepare_source_image
  <1>3. CASE SelectRestore \/ Confirm
    BY <1>0, <1>3, MoveTypes DEF SelectRestore, Confirm, Decide
  <1>4. CASE \/ ZapAll \/ FormatEsp
             \/ AddPartition("part1", "part2", "none", "esp")
             \/ AddPartition("part2", "discover", "esp", "both")
    BY <1>4, CommandTypes DEF ZapAll, AddPartition, FormatEsp, Run, Command
  <1>5. CASE DiscoverPartitions
    BY <1>0, <1>5, MoveTypes DEF DiscoverPartitions, Decide
  <1>6. CASE ChooseRestore
    BY <1>0, <1>6, MoveTypes, OwnFailureTypes DEF ChooseRestore, Measured
  <1>7. CASE UnmountSource \/ CloneBlocks
    BY <1>7, CommandTypes DEF UnmountSource, CloneBlocks, CommandInCondition
  <1>8. CASE FormatInstaller \/ CopyFiles
    BY <1>8, CommandTypes DEF FormatInstaller, CopyFiles, Run, Command
  <1>9. CASE mount_hfs_rw
    BY <1>9, CommandTypes DEF mount_hfs_rw, Mounting, CommandInCondition, Command
  <1>10. CASE CheckMarkers \/ CheckKernelVersion \/ CheckTree
    BY <1>0, <1>10, MoveTypes DEF CheckMarkers, CheckKernelVersion, CheckTree, Decide
  <1>11. CASE KeepRetailKernel
    BY <1>11, CommandTypes DEF KeepRetailKernel, KernelCommand, CommandInCondition, Command
  <1>12. CASE CopyKernel
    BY <1>12, CommandTypes DEF CopyKernel, KernelCommand, CommandInCondition, Command
  <1>13. CASE UnmountInstaller
    BY <1>0, <1>13, CommandTypes, OwnFailureTypes, MoveTypes DEF UnmountInstaller, Run, Command
  <1>14. CASE mount_esp \/ copy_efi_tree \/ UnmountEsp \/ install_openduet
    BY <1>14, CommandTypes DEF mount_esp, copy_efi_tree, UnmountEsp, install_openduet, Run, Command
  <1>15. CASE verify_target
    BY <1>0, <1>15, MoveTypes, OwnFailureTypes DEF verify_target
  <1>16. CASE SignalTrap \/ ExitTrap
    BY <1>0, <1>16, RunTypes DEF SignalTrap, ExitTrap, Cleanup
  <1>17. CASE Signal
    BY <1>0, <1>17, MoveTypes DEF Signal
  <1>18. CASE Crash
    BY <1>0, <1>18, RunTypes DEF Crash
  <1> QED
    BY <1>1, <1>2, <1>3, <1>4, <1>5, <1>6, <1>7, <1>8, <1>9, <1>10, <1>11, <1>12,
       <1>13, <1>14, <1>15, <1>16, <1>17, <1>18 DEF Next

\* Every step keeps the types of the stick's and the host's variables.
LEMMA ToolStepTypes ==
    ASSUME TypeOK, Next PROVE TypeOK'
  <1>0. ToolTypes
    BY DEF TypeOK, ToolTypes, Works
  <1> SUFFICES ToolTypes'
    BY ShellStepTypes DEF TypeOK, ToolTypes, Works
  <1>1. ASSUME Still PROVE ToolTypes'
    BY <1>0, <1>1 DEF Still, toolVars, ToolTypes
  <1>2. ASSUME NEW w \in Works, Holds(w) PROVE ToolTypes'
    BY <1>0, <1>2 DEF Holds, ToolTypes
  <1>3. ASSUME NEW d \in Disks, Writes(d) PROVE ToolTypes'
    BY <1>0, <1>3 DEF Writes, ToolTypes
  <1>4. disk \in Disks /\ work \in Works /\ NoWork \in Works
    BY <1>0 DEF ToolTypes, Disks, NoWork, Works
  <1>5. /\ \A e \in Extents, k \in {"none", "part", "retail", "amd"} : Restored(e, k) \in Disks
        /\ PartlyRestored => ToolTypes'
    <2>1. \A e \in Extents, k \in {"none", "part", "retail", "amd"} : Restored(e, k) \in Disks
      BY <1>4 DEF Restored, Disks
    <2> QED
      BY <1>3, <2>1 DEF PartlyRestored, Extents
  <1>6. CASE Start
    BY <1>0, <1>4, <1>6 DEF Start, ToolTypes, Extents
  <1>7. CASE \/ CheckArguments \/ Confirm \/ DiscoverPartitions \/ CheckMarkers
             \/ CheckKernelVersion \/ CheckTree \/ verify_target \/ Signal \/ Crash
    BY <1>1, <1>7
       DEF CheckArguments, Confirm, DiscoverPartitions, CheckMarkers, CheckKernelVersion,
           CheckTree, verify_target, Signal, Crash, Decide
  <1>8. CASE prepare_source_image
    BY <1>1, <1>2, <1>4, <1>8 DEF prepare_source_image, Works
  <1>9. CASE SelectRestore \/ ChooseRestore
    BY <1>0, <1>9 DEF SelectRestore, ChooseRestore, ToolTypes
  <1>10. CASE ZapAll
    <2>1. [disk EXCEPT !.gpt = "none", !.sectors = "orig"] \in Disks
      BY <1>4 DEF Disks
    <2> QED
      BY <1>1, <1>3, <1>10, <2>1 DEF ZapAll, Command
  <1>11. CASE \/ AddPartition("part1", "part2", "none", "esp")
              \/ AddPartition("part2", "discover", "esp", "both") \/ FormatEsp
    <2>1. \A g \in {"esp", "both"} : [disk EXCEPT !.gpt = g] \in Disks
      BY <1>4 DEF Disks
    <2>2. [disk EXCEPT !.fat = TRUE, !.efi = "none", !.boot = FALSE] \in Disks
      BY <1>4 DEF Disks, Extents
    <2> QED
      BY <1>1, <1>3, <1>11, <2>1, <2>2 DEF AddPartition, FormatEsp, Run, Command
  <1>12. CASE UnmountSource \/ mount_hfs_rw
    BY <1>1, <1>2, <1>4, <1>12
       DEF UnmountSource, mount_hfs_rw, Mounting, CommandInCondition, Command, Works
  <1>13. CASE CloneBlocks
    BY <1>1, <1>3, <1>5, <1>13 DEF CloneBlocks, CommandInCondition, Extents
  <1>14. CASE FormatInstaller \/ CopyFiles
    BY <1>1, <1>3, <1>5, <1>14 DEF FormatInstaller, CopyFiles, Run, Command, Extents
  <1>15. CASE KeepRetailKernel
    <2>1. \A o \in {"none", "part", "retail"} : [disk EXCEPT !.original = o] \in Disks
      BY <1>4 DEF Disks
    <2> QED
      BY <1>1, <1>3, <1>15, <2>1
         DEF KeepRetailKernel, KernelCommand, CommandInCondition, Command
  <1>16. CASE CopyKernel
    <2>1. \A k \in {"part", "amd"} : [disk EXCEPT !.kernel = k] \in Disks
      BY <1>4 DEF Disks
    <2> QED
      BY <1>1, <1>3, <1>16, <2>1 DEF CopyKernel, KernelCommand, CommandInCondition, Command
  <1>17. CASE UnmountInstaller
    BY <1>1, <1>2, <1>4, <1>17 DEF UnmountInstaller, Run, Command, Works
  <1>18. CASE mount_esp \/ UnmountEsp
    BY <1>1, <1>2, <1>4, <1>18 DEF mount_esp, UnmountEsp, Run, Command, Works
  <1>19. CASE copy_efi_tree
    <2>1. ASSUME NEW x \in {"part", "whole"}, LeavesTree(x) PROVE ToolTypes'
      <3>1. [disk EXCEPT !.efi = x, !.boot = x = "whole"] \in Disks
        <4>1. x \in Extents /\ (x = "whole") \in BOOLEAN
          BY DEF Extents
        <4> QED
          BY <1>4, <4>1 DEF Disks
      <3> QED
        BY <1>0, <1>3, <2>1, <3>1 DEF LeavesTree, ToolTypes, Extents
    <2> QED
      BY <1>1, <1>19, <2>1 DEF copy_efi_tree, Command
  <1>20. CASE install_openduet
    <2>1. /\ [disk EXCEPT !.sectors = "duet", !.boot = TRUE] \in Disks
          /\ \A c \in {"torn", "duet"} : [disk EXCEPT !.sectors = c] \in Disks
      BY <1>4 DEF Disks
    <2> QED
      BY <1>1, <1>3, <1>20, <2>1 DEF install_openduet, Command
  <1>21. CASE SignalTrap \/ ExitTrap
    <2>0. (work.source /\ host.view = "dir") \in BOOLEAN
      OBVIOUS
    <2>1. /\ Detached \in Works /\ [Detached EXCEPT !.esp = TRUE] \in Works
          /\ [Detached EXCEPT !.inst = TRUE, !.dir = TRUE] \in Works
      BY <1>4, <2>0 DEF Detached, Works
    <2>2. [disk EXCEPT !.efi = "none", !.boot = FALSE] \in Disks
      BY <1>4 DEF Disks, Extents
    <2>3. [disk EXCEPT !.inst = "part", !.kernel = "none", !.original = "none"] \in Disks
      <3>1. Restored("part", "none") \in Disks
        BY <1>5 DEF Extents
      <3> QED
        BY <3>1 DEF Restored
    <2> QED
      BY <1>0, <1>21, <2>1, <2>2, <2>3 DEF SignalTrap, ExitTrap, Cleanup, ToolTypes, Extents
  <1> QED
    BY <1>6, <1>7, <1>8, <1>9, <1>10, <1>11, <1>12, <1>13, <1>14, <1>15, <1>16, <1>17,
       <1>18, <1>19, <1>20, <1>21 DEF Next

\* And so does a step that changes nothing.
LEMMA StutterTypes == ASSUME TypeOK, UNCHANGED vars PROVE TypeOK'
  <1>1. UNCHANGED shellVars /\ UNCHANGED toolVars
    BY DEF vars
  <1>2. ShellTypeOK(Labels)'
    <2>1. ShellTypeOK(Labels)
      BY DEF TypeOK
    <2> QED
      BY <1>1, <2>1 DEF shellVars, ShellTypeOK
  <1>3. ToolTypes'
    <2>1. ToolTypes
      BY DEF TypeOK, ToolTypes, Works
    <2> QED
      BY <1>1, <2>1 DEF toolVars, ToolTypes
  <1> QED
    BY <1>2, <1>3 DEF TypeOK, ToolTypes, Works

\* Type correctness of the USB writer.
THEOREM TypesHold == Spec => []TypeOK
  <1>1. TypeOK /\ UNCHANGED vars => TypeOK'
    BY StutterTypes
  <1> QED
    BY <1>1, InitTypes, ToolStepTypes, PTL DEF Spec

(***************************************************************************)
(* The invariant.  First the outcomes that all commands share.             *)
(***************************************************************************)

\* The fault counters only grow.
LEMMA FaultsGrow ==
    ASSUME TypeOK,
           signals' = signals \/ signals' = signals + 1,
           failures' = failures \/ failures' = failures + 1
    PROVE  /\ failures' = 0 => failures = 0
           /\ signals' = 0 => signals = 0
           /\ signals' = signals + 1 => signals' # 0
           /\ failures' = failures + 1 => failures' # 0
  <1>1. ShellTypeOK(Labels)
    BY DEF TypeOK
  <1>2. signals \in Nat /\ failures \in Nat
    BY <1>1, BoundsAssumption DEF ShellTypeOK
  <1> QED
    BY <1>2

\* The script stops, or was hit by a signal: whatever the command has done until then,
\* no run without a signal is left going.
LEMMA StopKeepsQuiet ==
    ASSUME IndInv, NEW l \in Labels, NEW n, NEW possible,
           \/ Fails(l, n, possible) \/ Breaks(l, possible) \/ SignalKills(l, n)
           \/ Dies(l) \/ SignalEnds(l)
    PROVE  EspInv' /\ InstallerInv'
  <1>1. /\ pc = l /\ (signals' = signals \/ signals' = signals + 1)
        /\ failures' = failures \/ failures' = failures + 1
    BY DEF Fails, Breaks, SignalKills, Dies, SignalEnds, SignalArrives, SpendFailure, At
  <1>2. signals' = 0 => signals = 0 /\ signals' # signals + 1
    BY <1>1, FaultsGrow DEF IndInv
  <1>3. signals' = 0 => pc' = "exit" /\ status' = "error" /\ ~trapped'
    BY <1>1, <1>2
       DEF Fails, Breaks, SignalKills, Dies, SignalEnds, SignalArrives, ExitWith, At, IndInv,
           ProgressInv, EspInv
  <1> QED
    BY <1>3 DEF EspInv, InstallerInv, Labels, WithSource, Planned, Formatted, ByFiles, ByBlocks,
                KernelSteps, EspSteps, Last, Made

\* The same for the place in the script, where it moves on within the chosen restore.
LEMMA MoveKeepsFrame ==
    ASSUME IndInv, NEW l \in Labels, NEW n \in Labels, NEW possible,
           \/ Succeeds(l, n) \/ FailureIgnored(l, n, possible)
           \/ Fails(l, n, possible) \/ Breaks(l, possible) \/ SignalKills(l, n)
           \/ Dies(l) \/ SignalEnds(l),
           UNCHANGED <<host, selected>>,
           n \in ByBlocks => l \in ByBlocks,
           n \in {"unsource", "dd"} => l \in {"unsource", "dd"},
           n \in Planned => l \in Planned
    PROVE  FrameInv'
  <1>1. pc = l /\ pc' \in {n, "exit"} /\ status' \in {status, "error"} /\ status # "ok"
    BY DEF Succeeds, FailureIgnored, Fails, Breaks, SignalKills, Dies, SignalEnds,
           SignalArrives, ExitWith, At, IndInv, ProgressInv, FrameInv, Labels
  <1> QED
    BY <1>1 DEF IndInv, ProgressInv, FrameInv, ByBlocks, Planned

\* A command that is not passed over, from one label to the next.
LEMMA StopKeepsInv ==
    ASSUME IndInv, NEW l \in Labels, NEW n \in Labels, NEW possible,
           \/ Fails(l, n, possible) \/ Breaks(l, possible) \/ SignalKills(l, n)
           \/ Dies(l) \/ SignalEnds(l),
           UNCHANGED <<host, selected>>,
           n \in ByBlocks => l \in ByBlocks,
           n \in {"unsource", "dd"} => l \in {"unsource", "dd"},
           n \in Planned => l \in Planned
    PROVE  ProgressInv'
  <1>1. EspInv' /\ InstallerInv'
    BY StopKeepsQuiet
  <1>2. FrameInv'
    BY MoveKeepsFrame
  <1> QED
    BY <1>1, <1>2 DEF ProgressInv

\* A command of restore_block that is passed over leaves the partitions as they are,
\* and if it had all it needs it is counted as a failure.
LEMMA IgnoredFrame ==
    ASSUME IndInv, NEW l \in Labels, NEW n \in Labels, NEW possible \in BOOLEAN,
           FailureIgnored(l, n, possible)
    PROVE  /\ pc = l /\ pc' = n /\ ~trapped /\ status # "ok"
           /\ UNCHANGED <<errexit, trapped, status, signals>>
           /\ possible => failures' # 0
           /\ ~possible => failures' = failures
           /\ failures' = 0 => failures = 0
  <1>1. failures' = failures \/ failures' = failures + 1
    BY DEF FailureIgnored, SpendFailure
  <1>2. signals' = signals /\ (possible => failures' = failures + 1)
    BY DEF FailureIgnored, SpendFailure
  <1>3. possible => failures' # 0
    BY <1>1, <1>2, FaultsGrow DEF IndInv
  <1> QED
    BY <1>1, <1>2, <1>3, FaultsGrow
       DEF FailureIgnored, At, IndInv, ProgressInv, FrameInv, Labels

\* A command that succeeds leaves the faults, the trap and errexit as they are.
LEMMA SuccessFrame ==
    ASSUME IndInv, NEW l \in Labels, NEW n \in Labels, Succeeds(l, n)
    PROVE  /\ pc = l /\ pc' = n /\ ~trapped /\ status # "ok"
           /\ UNCHANGED <<errexit, trapped, status, runs, signals, failures>>
  BY DEF Succeeds, At, IndInv, ProgressInv, FrameInv, Labels

\* From the start to the confirmation.
LEMMA PreparationKeepsInv ==
    ASSUME IndInv, Start \/ CheckArguments \/ prepare_source_image \/ SelectRestore \/ Confirm
    PROVE  ProgressInv'
  <1> USE DEF Labels, WithSource, Planned, Formatted, ByFiles, ByBlocks, KernelSteps, EspSteps,
              Last
  <1>0. /\ TypeOK /\ FrameInv /\ EspInv /\ InstallerInv
        /\ work \in Works /\ disk \in Disks
    BY DEF IndInv, ProgressInv, TypeOK, Works
  <1>1. CASE Start
    BY <1>0, <1>1
       DEF Start, Invoke, ProgressInv, FrameInv, EspInv, InstallerInv, Made
  <1>2. CASE CheckArguments
    <2>1. CASE Succeeds("args", "source") /\ Still
      BY <1>0, <2>1, SuccessFrame
         DEF Still, toolVars, ProgressInv, FrameInv, EspInv, InstallerInv, Made
    <2>2. CASE (Dies("args") \/ SignalEnds("args")) /\ Still
      BY <2>2, StopKeepsInv DEF Still, toolVars
    <2> QED
      BY <1>2, <2>1, <2>2 DEF CheckArguments
  <1>3. CASE prepare_source_image
    <2>1. CASE /\ Succeeds("source", "select")
               /\ Holds([work EXCEPT !.loop = host.view # "dir", !.source = TRUE, !.dir = TRUE])
      BY <1>0, <2>1, SuccessFrame
         DEF Holds, ProgressInv, FrameInv, EspInv, InstallerInv, Made, Works
    <2>2. CASE (Dies("source") \/ SignalEnds("source")) /\ Still
      BY <2>2, StopKeepsInv DEF Still, toolVars
    <2> QED
      BY <1>3, <2>1, <2>2 DEF prepare_source_image
  <1>4. CASE SelectRestore
    <2>1. /\ UNCHANGED <<host, opt, disk, work, bare>>
          /\ \/ Dies("select")
             \/ opt.dry /\ Finishes("select")
             \/ /\ Succeeds("select", "confirm")
                /\ selected' = "block" => host.view = "hfs"
      BY <1>4 DEF SelectRestore
    <2>2. CASE Succeeds("select", "confirm") /\ (selected' = "block" => host.view = "hfs")
      BY <1>0, <2>1, <2>2, SuccessFrame
         DEF ProgressInv, FrameInv, EspInv, InstallerInv, Made
    <2>3. CASE Dies("select") \/ (opt.dry /\ Finishes("select"))
      BY <1>0, <2>1, <2>3
         DEF Dies, Finishes, ExitWith, At, ProgressInv, FrameInv, EspInv, InstallerInv, Made
    <2> QED
      BY <2>1, <2>2, <2>3
  <1>5. CASE Confirm
    <2>1. CASE Succeeds("confirm", "zap") /\ Still
      BY <1>0, <2>1, SuccessFrame
         DEF Still, toolVars, ProgressInv, FrameInv, EspInv, InstallerInv, Made
    <2>2. CASE Dies("confirm") /\ Still
      BY <2>2, StopKeepsInv DEF Still, toolVars
    <2> QED
      BY <1>5, <2>1, <2>2 DEF Confirm, Decide
  <1> QED
    BY <1>1, <1>2, <1>3, <1>4, <1>5

\* The partitions and the ESP's file system.
LEMMA PartitionsKeepInv ==
    ASSUME IndInv,
           \/ ZapAll
           \/ AddPartition("part1", "part2", "none", "esp")
           \/ AddPartition("part2", "discover", "esp", "both")
           \/ DiscoverPartitions \/ FormatEsp
    PROVE  ProgressInv'
  <1> USE DEF Labels, WithSource, Planned, Formatted, ByFiles, ByBlocks, KernelSteps, EspSteps,
              Last
  <1>0. /\ TypeOK /\ FrameInv /\ EspInv /\ InstallerInv
        /\ work \in Works /\ disk \in Disks
    BY DEF IndInv, ProgressInv, TypeOK, Works
  <1>1. ASSUME NEW l \in {"zap", "part1", "part2"}, NEW n \in {"part1", "part2", "discover"},
               Succeeds(l, n), UNCHANGED <<host, opt, selected, work>>
        PROVE  ProgressInv'
    BY <1>0, <1>1, SuccessFrame
       DEF ProgressInv, FrameInv, EspInv, InstallerInv, Made
  <1>2. CASE ZapAll
    <2>1. CASE (Fails("zap", "part1", TRUE) \/ SignalKills("zap", "part1"))
                 /\ UNCHANGED <<host, selected>>
      BY <2>1, StopKeepsInv
    <2> QED
      BY <1>1, <1>2, <2>1 DEF ZapAll, Command, Writes, Still, toolVars
  <1>3. CASE AddPartition("part1", "part2", "none", "esp")
    <2>1. CASE (Fails("part1", "part2", disk.gpt = "none") \/ SignalKills("part1", "part2"))
                 /\ UNCHANGED <<host, selected>>
      BY <2>1, StopKeepsInv
    <2> QED
      BY <1>1, <1>3, <2>1 DEF AddPartition, Run, Command, Writes, Still, toolVars
  <1>4. CASE AddPartition("part2", "discover", "esp", "both")
    <2>1. CASE (Fails("part2", "discover", disk.gpt = "esp") \/ SignalKills("part2", "discover"))
                 /\ UNCHANGED <<host, selected>>
      BY <2>1, StopKeepsInv
    <2> QED
      BY <1>1, <1>4, <2>1 DEF AddPartition, Run, Command, Writes, Still, toolVars
  <1>5. CASE DiscoverPartitions
    <2>1. CASE disk.gpt = "both" /\ Succeeds("discover", "mkvfat") /\ Still
      BY <1>0, <2>1, SuccessFrame
         DEF Still, toolVars, ProgressInv, FrameInv, EspInv, InstallerInv, Made
    <2>2. CASE (Dies("discover") \/ SignalEnds("discover")) /\ Still
      BY <2>2, StopKeepsInv DEF Still, toolVars
    <2> QED
      BY <1>5, <2>1, <2>2 DEF DiscoverPartitions, Decide
  <1>6. CASE FormatEsp
    <2>1. CASE /\ Succeeds("mkvfat", "restore")
               /\ Writes([disk EXCEPT !.fat = TRUE, !.efi = "none", !.boot = FALSE])
      <3>1. disk'.fat /\ disk'.gpt = disk.gpt
        BY <1>0, <2>1 DEF Writes, Disks
      <3> QED
        BY <1>0, <2>1, <3>1, SuccessFrame
           DEF Writes, ProgressInv, FrameInv, EspInv, InstallerInv, Made
    <2>2. CASE (Fails("mkvfat", "restore", TRUE) \/ SignalKills("mkvfat", "restore")) /\ Still
      BY <2>2, StopKeepsInv DEF Still, toolVars
    <2> QED
      BY <1>6, <2>1, <2>2 DEF FormatEsp, Run, Command
  <1> QED
    BY <1>2, <1>3, <1>4, <1>5, <1>6

\* What the writes to the installer volume change.
LEMMA VolumeWrites ==
    ASSUME disk \in Disks
    PROVE  /\ \A e, k : Writes(Restored(e, k)) =>
                 /\ disk'.gpt = disk.gpt /\ disk'.fat = disk.fat
                 /\ disk'.inst = e /\ disk'.kernel = k /\ disk'.original = "none"
           /\ PartlyRestored => disk'.gpt = disk.gpt /\ disk'.fat = disk.fat
           /\ \A o : Writes([disk EXCEPT !.original = o]) =>
                 /\ disk'.gpt = disk.gpt /\ disk'.fat = disk.fat
                 /\ disk'.inst = disk.inst /\ disk'.kernel = disk.kernel /\ disk'.original = o
           /\ \A k : Writes([disk EXCEPT !.kernel = k]) =>
                 /\ disk'.gpt = disk.gpt /\ disk'.fat = disk.fat
                 /\ disk'.inst = disk.inst /\ disk'.kernel = k
                 /\ disk'.original = disk.original
  BY DEF Writes, Restored, PartlyRestored, Disks

\* The choice between the two restores and the restore of blocks.
LEMMA BlocksKeepInv ==
    ASSUME IndInv,
           \/ ChooseRestore \/ UnmountSource \/ CloneBlocks
           \/ Mounting("bmount", "bmarkers", work.dir /\ disk.inst # "none", CommandInCondition)
    PROVE  ProgressInv'
  <1> USE DEF Labels, WithSource, Planned, Formatted, ByFiles, ByBlocks, KernelSteps, EspSteps,
              Last
  <1>0. /\ TypeOK /\ FrameInv /\ EspInv /\ InstallerInv
        /\ work \in Works /\ disk \in Disks
    BY DEF IndInv, ProgressInv, TypeOK, Works
  <1>1. CASE ChooseRestore
    <2>1. UNCHANGED <<host, opt, disk, work>>
      BY <1>1 DEF ChooseRestore
    <2>2. CASE Succeeds("restore", "mkhfs")
      BY <1>0, <2>1, <2>2, SuccessFrame
         DEF ProgressInv, FrameInv, EspInv, InstallerInv, Made
    <2>3. CASE selected = "block" /\ ~host.big /\ Succeeds("restore", "unsource")
                 /\ selected' = selected
      BY <1>0, <2>1, <2>3, SuccessFrame
         DEF ProgressInv, FrameInv, EspInv, InstallerInv, Made
    <2>4. CASE /\ Dies("restore") \/ Breaks("restore", TRUE) \/ SignalEnds("restore")
               /\ selected' = selected
      <3>1. ProgressInv'
        BY <2>1, <2>4, StopKeepsInv
      <3> QED
        BY <3>1
    <2>5. ASSUME NEW n \in {"mkhfs", "unsource"}, selected = "block",
                 selected' = IF n = "mkhfs" THEN "files" ELSE selected,
                 FailureIgnored("restore", n, TRUE)
          PROVE  ProgressInv'
      <3>1. /\ pc = "restore" /\ pc' = n /\ ~trapped /\ status # "ok"
            /\ UNCHANGED <<errexit, trapped, status, signals>>
            /\ failures' # 0
        <4>1. TRUE \in BOOLEAN /\ "restore" \in Labels /\ n \in Labels
          OBVIOUS
        <4> HIDE DEF Labels
        <4> QED
          BY <2>5, <4>1, IgnoredFrame
      <3>2. FrameInv' /\ EspInv'
        BY <1>0, <2>1, <2>5, <3>1 DEF FrameInv, EspInv, Made
      <3>3. InstallerInv'
        BY <1>0, <2>1, <2>5, <3>1 DEF InstallerInv, Made
      <3> QED
        BY <3>2, <3>3 DEF ProgressInv
    <2>6. ASSUME NEW n \in {"mkhfs", "unsource"}, selected = "block",
                 selected' = IF n = "mkhfs" THEN "files" ELSE selected,
                 SignalKills("restore", n)
          PROVE  ProgressInv'
      <3>1. EspInv' /\ InstallerInv'
        BY <2>6, StopKeepsQuiet
      <3>2. FrameInv'
        BY <1>0, <2>1, <2>6 DEF SignalKills, SignalArrives, FrameInv
      <3> QED
        BY <3>1, <3>2 DEF ProgressInv
    <2> QED
      BY <1>1, <2>2, <2>3, <2>4, <2>5, <2>6 DEF ChooseRestore, Measured
  <1>2. CASE UnmountSource
    <2>1. CASE Succeeds("unsource", "dd") /\ Holds([work EXCEPT !.source = FALSE])
      BY <1>0, <2>1, SuccessFrame
         DEF Holds, ProgressInv, FrameInv, EspInv, InstallerInv, Made, Works
    <2>2. CASE FailureIgnored("unsource", "dd", TRUE) /\ Still
      <3>1. /\ pc = "unsource" /\ pc' = "dd" /\ ~trapped /\ status # "ok"
            /\ UNCHANGED <<errexit, trapped, status, signals>>
            /\ failures' = 0 => failures = 0
        <4>1. /\ TRUE \in BOOLEAN /\ FailureIgnored("unsource", "dd", TRUE)
              /\ "unsource" \in Labels /\ "dd" \in Labels
          BY <2>2
        <4> HIDE DEF Labels
        <4> QED
          BY <4>1, IgnoredFrame
      <3>2. FrameInv' /\ EspInv'
        BY <1>0, <2>2, <3>1 DEF Still, toolVars, FrameInv, EspInv, Made
      <3>3. InstallerInv'
        BY <1>0, <2>2, <3>1 DEF Still, toolVars, InstallerInv, Made
      <3> QED
        BY <3>2, <3>3 DEF ProgressInv
    <2>3. CASE SignalKills("unsource", "dd") /\ Still
      BY <2>3, StopKeepsInv DEF Still, toolVars
    <2> QED
      BY <1>2, <2>1, <2>2, <2>3 DEF UnmountSource, CommandInCondition
  <1>3. CASE CloneBlocks
    <2>1. CASE Succeeds("dd", "bmount") /\ Writes(Restored("whole", "retail"))
      <3>1. Fresh' /\ disk'.gpt = disk.gpt /\ disk'.fat = disk.fat
        BY <1>0, <2>1, VolumeWrites DEF Fresh
      <3> QED
        BY <1>0, <2>1, <3>1, SuccessFrame
           DEF Writes, ProgressInv, FrameInv, EspInv, InstallerInv, Made
    <2>2. CASE Succeeds("dd", "bmount") /\ host.big /\ PartlyRestored
      <3>1. /\ pc = "dd" /\ pc' = "bmount" /\ ~trapped /\ status # "ok"
            /\ UNCHANGED <<errexit, trapped, status, signals, failures>>
        BY <2>2, SuccessFrame
      <3>2. /\ UNCHANGED <<host, opt, selected, work>>
            /\ disk'.gpt = disk.gpt /\ disk'.fat = disk.fat
        BY <1>0, <2>2, VolumeWrites DEF PartlyRestored, Writes
      <3>3. selected = "block" /\ (signals = 0 => failures # 0)
        BY <1>0, <2>2, <3>1 DEF FrameInv, InstallerInv
      <3> QED
        BY <1>0, <3>1, <3>2, <3>3
           DEF ProgressInv, FrameInv, EspInv, InstallerInv, Unskipped, Made
    <2>3. CASE FailureIgnored("dd", "bmount", work.loop) /\ (Still \/ PartlyRestored)
      <3>1. /\ UNCHANGED <<host, opt, selected, work>>
            /\ disk'.gpt = disk.gpt /\ disk'.fat = disk.fat
        BY <1>0, <2>3, VolumeWrites DEF Still, toolVars, PartlyRestored, Writes
      <3>2. work.loop \in BOOLEAN
        BY <1>0 DEF Works
      <3>3. /\ pc = "dd" /\ pc' = "bmount" /\ ~trapped /\ status # "ok"
            /\ UNCHANGED <<errexit, trapped, status, signals>>
            /\ work.loop => failures' # 0
        BY <2>3, <3>2, IgnoredFrame
      <3>4. signals = 0 => work.loop /\ selected = "block"
        BY <1>0, <3>3 DEF FrameInv, InstallerInv
      <3> QED
        BY <1>0, <3>1, <3>3, <3>4
           DEF ProgressInv, FrameInv, EspInv, InstallerInv, Unskipped, Made
    <2>4. CASE SignalKills("dd", "bmount") /\ (Still \/ PartlyRestored)
      BY <2>4, StopKeepsInv DEF Still, toolVars, PartlyRestored, Writes
    <2> QED
      BY <1>3, <2>1, <2>2, <2>3, <2>4 DEF CloneBlocks, CommandInCondition
  <1>4. CASE Mounting("bmount", "bmarkers", work.dir /\ disk.inst # "none", CommandInCondition)
    <2> DEFINE mountable == work.dir /\ disk.inst # "none"
    <2>1. CASE Succeeds("bmount", "bmarkers") /\ Holds([work EXCEPT !.inst = TRUE])
      BY <1>0, <2>1, SuccessFrame
         DEF Holds, ProgressInv, FrameInv, EspInv, InstallerInv, Made, Works, Fresh, Unskipped
    <2>2. CASE FailureIgnored("bmount", "bmarkers", mountable) /\ Still
      <3>1. mountable \in BOOLEAN
        BY <1>0 DEF Works
      <3>2. /\ pc = "bmount" /\ pc' = "bmarkers" /\ ~trapped /\ status # "ok"
            /\ UNCHANGED <<errexit, trapped, status, signals>>
            /\ failures' = 0 => failures = 0
        <4>1. FailureIgnored("bmount", "bmarkers", mountable)
          BY <2>2
        <4>2. "bmount" \in Labels /\ "bmarkers" \in Labels
          OBVIOUS
        <4> HIDE DEF Labels, mountable
        <4> QED
          BY <3>1, <4>1, <4>2, IgnoredFrame
      <3> QED
        BY <1>0, <2>2, <3>2
           DEF Still, toolVars, ProgressInv, FrameInv, EspInv, InstallerInv, Made, Fresh, Unskipped
    <2>3. CASE SignalKills("bmount", "bmarkers") /\ Still
      BY <2>3, StopKeepsInv DEF Still, toolVars
    <2> QED
      BY <1>4, <2>1, <2>2, <2>3 DEF Mounting, CommandInCondition
  <1> QED
    BY <1>1, <1>2, <1>3, <1>4

\* The restore by files, and the check both restores end with.
LEMMA FilesKeepInv ==
    ASSUME IndInv,
           \/ FormatInstaller \/ CopyFiles \/ CheckMarkers
           \/ Mounting("fmount", "rsync", work.dir /\ disk.inst # "none", Command)
    PROVE  ProgressInv'
  <1> USE DEF Labels, WithSource, Planned, Formatted, ByFiles, ByBlocks, KernelSteps, EspSteps,
              Last
  <1>0. /\ TypeOK /\ FrameInv /\ EspInv /\ InstallerInv
        /\ work \in Works /\ disk \in Disks
    BY DEF IndInv, ProgressInv, TypeOK, Works
  <1>1. CASE FormatInstaller
    <2>1. CASE Succeeds("mkhfs", "fmount") /\ Writes(Restored("part", "none"))
      BY <1>0, <2>1, SuccessFrame, VolumeWrites
         DEF Writes, ProgressInv, FrameInv, EspInv, InstallerInv, Made
    <2>2. CASE (Fails("mkhfs", "fmount", host.mkhfs) \/ SignalKills("mkhfs", "fmount")) /\ Still
      BY <2>2, StopKeepsInv DEF Still, toolVars
    <2> QED
      BY <1>1, <2>1, <2>2 DEF FormatInstaller, Run, Command
  <1>2. CASE Mounting("fmount", "rsync", work.dir /\ disk.inst # "none", Command)
    <2>1. CASE Succeeds("fmount", "rsync") /\ Holds([work EXCEPT !.inst = TRUE])
      BY <1>0, <2>1, SuccessFrame
         DEF Holds, ProgressInv, FrameInv, EspInv, InstallerInv, Made, Works
    <2>2. CASE /\ \/ Fails("fmount", "rsync", work.dir /\ disk.inst # "none")
                  \/ SignalKills("fmount", "rsync")
               /\ Still
      BY <2>2, StopKeepsInv DEF Still, toolVars
    <2> QED
      BY <1>2, <2>1, <2>2 DEF Mounting, Command
  <1>3. CASE CopyFiles
    <2>1. CASE Succeeds("rsync", "fmarkers") /\ Writes(Restored("whole", "retail"))
      <3>1. Fresh' /\ disk'.gpt = disk.gpt /\ disk'.fat = disk.fat
        BY <1>0, <2>1, VolumeWrites DEF Fresh
      <3> QED
        BY <1>0, <2>1, <3>1, SuccessFrame
           DEF Writes, ProgressInv, FrameInv, EspInv, InstallerInv, Made
    <2>2. CASE /\ \/ Fails("rsync", "fmarkers", work.inst /\ work.source)
                  \/ SignalKills("rsync", "fmarkers")
               /\ Still \/ PartlyRestored
      BY <2>2, StopKeepsInv DEF Still, toolVars, PartlyRestored, Writes
    <2> QED
      BY <1>3, <2>1, <2>2 DEF CopyFiles, Command
  <1>4. CASE CheckMarkers
    <2>1. ASSUME NEW l \in {"bmarkers", "fmarkers"}, Succeeds(l, "keep"), Still, work.inst
          PROVE  ProgressInv'
      <3>1. /\ pc = l /\ pc' = "keep" /\ ~trapped /\ status # "ok"
            /\ UNCHANGED <<errexit, trapped, status, signals, failures>>
        BY <2>1, SuccessFrame
      <3>2. FrameInv' /\ EspInv'
        BY <1>0, <2>1, <3>1 DEF Still, toolVars, FrameInv, EspInv, Made
      <3>3. InstallerInv'
        BY <1>0, <2>1, <3>1 DEF Still, toolVars, InstallerInv, Made, Fresh, Unskipped
      <3> QED
        BY <3>2, <3>3 DEF ProgressInv
    <2>2. ASSUME NEW l \in {"bmarkers", "fmarkers"}, Dies(l), Still
          PROVE  ProgressInv'
      BY <2>2, StopKeepsInv DEF Still, toolVars
    <2> QED
      BY <1>4, <2>1, <2>2 DEF CheckMarkers, Decide
  <1> QED
    BY <1>1, <1>2, <1>3, <1>4

\* A step of install_amd_kernel that goes on, whatever it did to the volume.
LEMMA KernelMove ==
    ASSUME IndInv, NEW l \in KernelSteps, NEW n \in KernelSteps, NEW possible \in BOOLEAN,
           Succeeds(l, n) \/ FailureIgnored(l, n, possible),
           UNCHANGED <<host, opt, selected>>,
           disk'.gpt = disk.gpt, disk'.fat = disk.fat
    PROVE  FrameInv' /\ EspInv'
  <1> USE DEF Labels, WithSource, Planned, Formatted, ByFiles, ByBlocks, KernelSteps, EspSteps,
              Last
  <1>1. FrameInv /\ EspInv
    BY DEF IndInv, ProgressInv
  <1>2. /\ pc = l /\ pc' = n /\ ~trapped /\ status # "ok"
        /\ UNCHANGED <<errexit, trapped, status, signals>>
    BY SuccessFrame, IgnoredFrame
  <1> QED
    BY <1>1, <1>2 DEF FrameInv, EspInv, Made

\* install_amd_kernel: passing over a command needs a failure, and by then the block
\* restore does not promise the volume any more.
LEMMA KernelKeepsInv ==
    ASSUME IndInv, KeepRetailKernel \/ CopyKernel \/ CheckKernelVersion
    PROVE  ProgressInv'
  <1> USE DEF Labels, Planned, ByFiles, ByBlocks, KernelSteps, EspSteps, Last
  <1>0. /\ TypeOK /\ FrameInv /\ EspInv /\ InstallerInv
        /\ work \in Works /\ disk \in Disks
    BY DEF IndInv, ProgressInv, TypeOK, Works
  <1>a. TRUE \in BOOLEAN /\ work.inst \in BOOLEAN
    BY <1>0 DEF Works
  <1>1. CASE KeepRetailKernel
    <2> DEFINE kept == IF disk.kernel = "retail" THEN "retail" ELSE "part"
    <2>1. CASE Succeeds("keep", "kernel") /\ Writes([disk EXCEPT !.original = kept])
      <3>1. /\ UNCHANGED <<host, opt, selected, work>>
            /\ disk'.gpt = disk.gpt /\ disk'.fat = disk.fat
            /\ disk'.inst = disk.inst /\ disk'.kernel = disk.kernel /\ disk'.original = kept
        BY <1>0, <2>1, VolumeWrites DEF Writes
      <3>2. FrameInv' /\ EspInv'
        BY <1>a, <2>1, <3>1, KernelMove
      <3>3. InstallerInv'
        BY <1>0, <2>1, <3>1, SuccessFrame DEF InstallerInv, Made, Unskipped, Fresh
      <3> QED
        BY <3>2, <3>3 DEF ProgressInv
    <2>2. CASE /\ selected = "block" /\ FailureIgnored("keep", "kernel", TRUE)
               /\ Still \/ Writes([disk EXCEPT !.original = "part"])
      <3>1. /\ UNCHANGED <<host, opt, selected, work>>
            /\ disk'.gpt = disk.gpt /\ disk'.fat = disk.fat
        BY <1>0, <2>2, VolumeWrites DEF Writes, Still, toolVars
      <3>2. FrameInv' /\ EspInv'
        BY <1>a, <2>2, <3>1, KernelMove
      <3>3. pc' = "kernel" /\ status' # "ok" /\ ~Unskipped'
        <4>1. "keep" \in Labels /\ "kernel" \in Labels
          OBVIOUS
        <4> HIDE DEF Labels
        <4>2. pc' = "kernel" /\ status' = status /\ status # "ok" /\ failures' # 0
          BY <1>a, <2>2, <4>1, IgnoredFrame
        <4> QED
          BY <2>2, <3>1, <4>2 DEF Unskipped
      <3> QED
        BY <3>2, <3>3 DEF ProgressInv, InstallerInv, Made
    <2>3. CASE /\ Fails("keep", "kernel", TRUE) \/ SignalKills("keep", "kernel")
               /\ Still \/ Writes([disk EXCEPT !.original = "part"])
      BY <2>3, StopKeepsInv DEF Writes, Still, toolVars
    <2>4. CASE /\ ~(work.inst /\ disk.kernel # "none" /\ disk.original = "none")
               /\ Succeeds("keep", "kernel") /\ Still
      <3>1. UNCHANGED <<host, opt, selected, work, disk>>
        BY <2>4 DEF Still, toolVars
      <3>2. FrameInv' /\ EspInv'
        BY <1>a, <2>4, <3>1, KernelMove
      <3>3. InstallerInv'
        BY <1>0, <2>4, <3>1, SuccessFrame DEF InstallerInv, Made, Unskipped, Fresh
      <3> QED
        BY <3>2, <3>3 DEF ProgressInv
    <2> QED
      BY <1>1, <2>1, <2>2, <2>3, <2>4
         DEF KeepRetailKernel, KernelCommand, CommandInCondition, Command
  <1>2. CASE CopyKernel
    <2>1. CASE Succeeds("kernel", "version") /\ Writes([disk EXCEPT !.kernel = "amd"])
      <3>1. /\ UNCHANGED <<host, opt, selected, work>>
            /\ disk'.gpt = disk.gpt /\ disk'.fat = disk.fat
            /\ disk'.inst = disk.inst /\ disk'.kernel = "amd" /\ disk'.original = disk.original
        BY <1>0, <2>1, VolumeWrites DEF Writes
      <3>2. FrameInv' /\ EspInv'
        BY <1>a, <2>1, <3>1, KernelMove
      <3>3. InstallerInv'
        BY <1>0, <2>1, <3>1, SuccessFrame DEF InstallerInv, Made, Unskipped, InstallerWhole
      <3> QED
        BY <3>2, <3>3 DEF ProgressInv
    <2>2. CASE /\ selected = "block" /\ FailureIgnored("kernel", "version", work.inst)
               /\ Still \/ Writes([disk EXCEPT !.kernel = "part"])
      <3>1. /\ UNCHANGED <<host, opt, selected, work>>
            /\ disk'.gpt = disk.gpt /\ disk'.fat = disk.fat
        BY <1>0, <2>2, VolumeWrites DEF Writes, Still, toolVars
      <3>2. FrameInv' /\ EspInv'
        BY <1>a, <2>2, <3>1, KernelMove
      <3>3. /\ pc = "kernel" /\ pc' = "version" /\ status' # "ok" /\ signals' = signals
            /\ work.inst => failures' # 0
            /\ failures' = 0 => failures = 0
        BY <1>a, <2>2, IgnoredFrame
      <3>4. signals = 0 => ~Unskipped'
        BY <1>0, <2>2, <3>1, <3>3 DEF InstallerInv, Unskipped
      <3> QED
        BY <3>2, <3>3, <3>4 DEF ProgressInv, InstallerInv, Made
    <2>3. CASE /\ Fails("kernel", "version", work.inst) \/ SignalKills("kernel", "version")
               /\ Still \/ Writes([disk EXCEPT !.kernel = "part"])
      BY <2>3, StopKeepsInv DEF Writes, Still, toolVars
    <2> QED
      BY <1>2, <2>1, <2>2, <2>3 DEF CopyKernel, KernelCommand, CommandInCondition, Command
  <1>3. CASE CheckKernelVersion
    <2>1. CASE Succeeds("version", "uninst") /\ Still
      <3>1. UNCHANGED <<host, opt, selected, work, disk>>
        BY <2>1 DEF Still, toolVars
      <3>2. FrameInv' /\ EspInv'
        BY <1>a, <2>1, <3>1, KernelMove
      <3>3. InstallerInv'
        BY <1>0, <2>1, <3>1, SuccessFrame DEF InstallerInv, Made, Unskipped, InstallerWhole
      <3> QED
        BY <3>2, <3>3 DEF ProgressInv
    <2>2. CASE Dies("version") /\ Still
      BY <2>2, StopKeepsInv DEF Still, toolVars
    <2> QED
      BY <1>3, <2>1, <2>2 DEF CheckKernelVersion, Decide
  <1> QED
    BY <1>1, <1>2, <1>3

\* A step after install_amd_kernel that leaves the installer volume alone.
LEMMA EspMove ==
    ASSUME IndInv, NEW l \in {"uninst"} \cup EspSteps \cup Last, NEW n \in EspSteps \cup Last,
           Succeeds(l, n), UNCHANGED <<host, opt, selected>>,
           disk'.inst = disk.inst, disk'.kernel = disk.kernel, disk'.original = disk.original
    PROVE  /\ FrameInv' /\ InstallerInv'
           /\ pc = l /\ pc' = n /\ ~trapped /\ status # "ok"
           /\ UNCHANGED <<errexit, trapped, status, signals>>
  <1> USE DEF Labels, WithSource, Planned, Formatted, ByFiles, ByBlocks, KernelSteps, EspSteps,
              Last
  <1>1. FrameInv /\ InstallerInv
    BY DEF IndInv, ProgressInv
  <1>2. /\ pc = l /\ pc' = n /\ ~trapped /\ status # "ok"
        /\ UNCHANGED <<errexit, trapped, status, signals, failures>>
    BY SuccessFrame
  <1>3. FrameInv'
    BY <1>1, <1>2 DEF FrameInv
  <1>4. InstallerInv'
    BY <1>1, <1>2 DEF InstallerInv, Unskipped, InstallerWhole, Made
  <1> QED
    BY <1>2, <1>3, <1>4

\* The installer volume is unmounted, the ESP filled, and the boot sectors written.
LEMMA EspKeepsInv ==
    ASSUME IndInv,
           \/ UnmountInstaller \/ mount_esp \/ copy_efi_tree \/ CheckTree \/ UnmountEsp
           \/ install_openduet
    PROVE  ProgressInv'
  <1> USE DEF Labels, WithSource, Planned, Formatted, ByFiles, ByBlocks, KernelSteps, EspSteps,
              Last
  <1>0. /\ TypeOK /\ FrameInv /\ EspInv /\ InstallerInv
        /\ work \in Works /\ disk \in Disks
    BY DEF IndInv, ProgressInv, TypeOK, Works
  <1>1. CASE UnmountInstaller
    <2>1. CASE Succeeds("uninst", "espmount") /\ Holds([work EXCEPT !.inst = FALSE])
      <3>1. UNCHANGED <<host, opt, selected, disk>> /\ ~work'.inst
        BY <1>0, <2>1 DEF Holds, Works
      <3> QED
        BY <1>0, <2>1, <3>1, EspMove DEF ProgressInv, EspInv, Made
    <2>2. CASE /\ \/ Fails("uninst", "espmount", work.inst) \/ SignalKills("uninst", "espmount")
                  \/ Breaks("uninst", work.inst) \/ SignalEnds("uninst")
               /\ Still
      BY <2>2, StopKeepsInv DEF Still, toolVars
    <2> QED
      BY <1>1, <2>1, <2>2 DEF UnmountInstaller, Run, Command
  <1>2. CASE mount_esp
    <2>1. CASE Succeeds("espmount", "efi") /\ Holds([work EXCEPT !.esp = TRUE])
      <3>1. UNCHANGED <<host, opt, selected, disk>> /\ work'.esp /\ work'.inst = work.inst
        BY <1>0, <2>1 DEF Holds, Works
      <3> QED
        BY <1>0, <2>1, <3>1, EspMove DEF ProgressInv, EspInv, Made
    <2>2. CASE (Fails("espmount", "efi", disk.fat) \/ SignalKills("espmount", "efi")) /\ Still
      BY <2>2, StopKeepsInv DEF Still, toolVars
    <2> QED
      BY <1>2, <2>1, <2>2 DEF mount_esp, Run, Command
  <1>3. CASE copy_efi_tree
    <2>1. CASE Succeeds("efi", "efimarkers") /\ LeavesTree("whole")
      <3>1. /\ UNCHANGED <<host, opt, selected, work>>
            /\ disk'.inst = disk.inst /\ disk'.kernel = disk.kernel
            /\ disk'.original = disk.original
            /\ disk'.gpt = disk.gpt /\ disk'.fat = disk.fat
            /\ work.esp => disk'.efi = "whole" /\ disk'.boot
        BY <1>0, <2>1 DEF LeavesTree, Writes, Disks
      <3> QED
        BY <1>0, <2>1, <3>1, EspMove DEF ProgressInv, EspInv, Made
    <2>2. CASE /\ Fails("efi", "efimarkers", TRUE) \/ SignalKills("efi", "efimarkers")
               /\ Still \/ LeavesTree("part")
      BY <2>2, StopKeepsInv DEF LeavesTree, Writes, Still, toolVars
    <2> QED
      BY <1>3, <2>1, <2>2 DEF copy_efi_tree, Command
  <1>4. CASE CheckTree
    <2>1. CASE Succeeds("efimarkers", "unesp") /\ Still
      <3>1. UNCHANGED <<host, opt, selected, work, disk>>
        BY <2>1 DEF Still, toolVars
      <3> QED
        BY <1>0, <2>1, <3>1, EspMove DEF ProgressInv, EspInv, Made
    <2>2. CASE Dies("efimarkers") /\ Still
      BY <2>2, StopKeepsInv DEF Still, toolVars
    <2> QED
      BY <1>4, <2>1, <2>2 DEF CheckTree, Decide
  <1>5. CASE UnmountEsp
    <2>1. CASE Succeeds("unesp", "openduet") /\ Holds([work EXCEPT !.esp = FALSE])
      <3>1. UNCHANGED <<host, opt, selected, disk>> /\ ~work'.esp /\ work'.inst = work.inst
        BY <1>0, <2>1 DEF Holds, Works
      <3> QED
        BY <1>0, <2>1, <3>1, EspMove DEF ProgressInv, EspInv, Made
    <2>2. CASE (Fails("unesp", "openduet", work.esp) \/ SignalKills("unesp", "openduet")) /\ Still
      BY <2>2, StopKeepsInv DEF Still, toolVars
    <2> QED
      BY <1>5, <2>1, <2>2 DEF UnmountEsp, Run, Command
  <1>6. CASE install_openduet
    <2>1. CASE /\ Succeeds("openduet", "verify")
               /\ Writes([disk EXCEPT !.sectors = "duet", !.boot = TRUE])
      <3>1. /\ UNCHANGED <<host, opt, selected, work>>
            /\ disk'.inst = disk.inst /\ disk'.kernel = disk.kernel
            /\ disk'.original = disk.original
            /\ disk'.gpt = disk.gpt /\ disk'.fat = disk.fat
            /\ disk'.efi = disk.efi /\ disk'.boot /\ disk'.sectors = "duet"
        BY <1>0, <2>1 DEF Writes, Disks
      <3> QED
        BY <1>0, <2>1, <3>1, EspMove DEF ProgressInv, EspInv, Made
    <2>2. CASE /\ Fails("openduet", "verify", disk.fat) \/ SignalKills("openduet", "verify")
               /\ Still \/ \E c \in {"torn", "duet"} : Writes([disk EXCEPT !.sectors = c])
      BY <2>2, StopKeepsInv DEF Writes, Still, toolVars
    <2> QED
      BY <1>6, <2>1, <2>2 DEF install_openduet, Command
  <1> QED
    BY <1>1, <1>2, <1>3, <1>4, <1>5, <1>6

\* The verification: it reports success only of a stick that is as far as its label says.
LEMMA VerifyKeepsInv ==
    ASSUME IndInv, verify_target PROVE ProgressInv'
  <1> USE DEF Labels, WithSource, Planned, Formatted, ByFiles, ByBlocks, KernelSteps, EspSteps,
              Last
  <1>0. FrameInv /\ EspInv /\ InstallerInv /\ UNCHANGED <<host, opt, selected, disk, work>>
    BY DEF IndInv, ProgressInv, verify_target, Still, toolVars
  <1>1. CASE Finishes("verify")
    <2>1. /\ pc = "verify" /\ pc' = "exit"
          /\ UNCHANGED <<errexit, trapped, signals, failures>>
      BY <1>1 DEF Finishes, ExitWith, At
    <2>2. FrameInv' /\ EspInv'
      BY <1>0, <2>1 DEF FrameInv, EspInv
    <2>3. InstallerInv'
      BY <1>0, <2>1 DEF InstallerInv, Unskipped, InstallerWhole
    <2> QED
      BY <2>2, <2>3 DEF ProgressInv
  <1>2. CASE Dies("verify") \/ Breaks("verify", TRUE) \/ SignalEnds("verify")
    BY <1>0, <1>2, StopKeepsInv
  <1> QED
    BY <1>1, <1>2 DEF verify_target

\* cleanup can only empty a partition that is still mounted, and none of a made stick is.
LEMMA TrapsKeepInv ==
    ASSUME IndInv, SignalTrap \/ ExitTrap \/ Signal \/ Crash
    PROVE  ProgressInv'
  <1> USE DEF Labels, WithSource, Planned, Formatted, ByFiles, ByBlocks, KernelSteps, EspSteps,
              Last
  <1>0. /\ TypeOK /\ FrameInv /\ EspInv /\ InstallerInv
        /\ work \in Works /\ disk \in Disks
    BY DEF IndInv, ProgressInv, TypeOK, Works
  <1>1. CASE SignalTrap
    <2>1. /\ trapped /\ UNCHANGED <<pc, status, signals, host, selected>>
      BY <1>1 DEF SignalTrap, TrapReturns
    <2> QED
      BY <1>0, <2>1 DEF ProgressInv, FrameInv, EspInv, InstallerInv
  <1>2. CASE ExitTrap
    <2>1. /\ pc' = "idle" /\ ~trapped' /\ UNCHANGED <<status, signals, host, opt, selected>>
      BY <1>2 DEF ExitTrap, ExitTrapReturns
    <2>2. failures' = failures \/ failures' = failures + 1
      BY <1>2 DEF ExitTrap, Cleanup, SpendFailure
    <2>3. failures' = 0 => failures = 0
      BY <1>0, <2>1, <2>2, FaultsGrow
    <2>4. ~work.inst /\ ~work.esp => disk' = disk /\ ~work'.inst /\ ~work'.esp
      BY <1>2 DEF ExitTrap, Cleanup, Detached, NoWork
    <2>5. FrameInv' /\ EspInv'
      BY <1>0, <2>1, <2>4 DEF FrameInv, EspInv, Made
    <2>6. InstallerInv'
      BY <1>0, <2>1, <2>3, <2>4 DEF EspInv, InstallerInv, Made, Unskipped, InstallerWhole
    <2> QED
      BY <2>5, <2>6 DEF ProgressInv
  <1>3. CASE Signal
    <2>1. /\ UNCHANGED <<pc, status, host, opt, selected, failures>>
          /\ signals' = signals + 1
      BY <1>3 DEF Signal, SignalBetween, SignalArrives, Still, toolVars
    <2>2. signals' # 0
      BY <1>0, <2>1, FaultsGrow
    <2> QED
      BY <1>0, <2>1, <2>2 DEF ProgressInv, FrameInv, EspInv, InstallerInv
  <1>4. CASE Crash
    <2>1. /\ pc' = "idle" /\ ~trapped' /\ status' = "killed"
          /\ UNCHANGED <<signals, host, opt, selected, work, disk>>
      BY <1>4 DEF Crash, KilledOutright, Still, toolVars
    <2> QED
      BY <1>0, <2>1 DEF ProgressInv, FrameInv, EspInv, InstallerInv, Made
  <1> QED
    BY <1>1, <1>2, <1>3, <1>4

(***************************************************************************)
(* The theorems.                                                           *)
(***************************************************************************)

\* Before the first run nothing has been reported.
LEMMA InitInv == Init => ProgressInv
  BY DEF Init, ShellInit, ProgressInv, FrameInv, EspInv, InstallerInv, Made, Labels, WithSource,
         Planned, Formatted, ByFiles, ByBlocks, KernelSteps, EspSteps, Last

\* Each label tells how far the stick is, over any number of runs, as long as no signal
\* has come.
THEOREM InvariantHolds == Spec => []IndInv
  <1>1. Init => IndInv
    BY InitTypes, InitInv DEF IndInv
  <1>2. ASSUME IndInv, Next PROVE IndInv'
    <2>1. TypeOK'
      BY <1>2, ToolStepTypes DEF IndInv
    <2>2. ProgressInv'
      <3>1. CASE mount_hfs_rw
        BY <1>2, <3>1, BlocksKeepInv, FilesKeepInv DEF mount_hfs_rw
      <3> QED
        BY <1>2, <3>1, PreparationKeepsInv, PartitionsKeepInv, BlocksKeepInv, FilesKeepInv,
           KernelKeepsInv, EspKeepsInv, VerifyKeepsInv, TrapsKeepInv
           DEF Next
    <2> QED
      BY <2>1, <2>2 DEF IndInv
  <1>3. IndInv /\ UNCHANGED vars => IndInv'
    <2> SUFFICES ASSUME IndInv, UNCHANGED vars PROVE IndInv'
      OBVIOUS
    <2> USE DEF vars, shellVars, toolVars
    <2>1. TypeOK'
      BY StutterTypes DEF IndInv
    <2>2. FrameInv' /\ EspInv'
      BY DEF IndInv, ProgressInv, FrameInv, EspInv, Made
    <2>3. InstallerInv'
      BY DEF IndInv, ProgressInv, InstallerInv, Made, Fresh, InstallerWhole, Unskipped
    <2> QED
      BY <2>1, <2>2, <2>3 DEF IndInv, ProgressInv
  <1> QED
    BY <1>1, <1>2, <1>3, PTL DEF Spec

\* Status 0 of linux_make_usb_legacy.sh without a signal means a stick that can boot,
\* whatever failed in restore_block and in earlier runs.
THEOREM SuccessIsBootable == Spec => []SuccessMeansBootable
  <1>1. IndInv => SuccessMeansBootable
    BY DEF IndInv, ProgressInv, EspInv, SuccessMeansBootable
  <1> QED
    BY <1>1, InvariantHolds, PTL

\* And an installer volume with both kernels, if it was copied file by file or nothing
\* failed.
THEOREM SuccessHasInstaller == Spec => []SuccessMeansInstaller
  <1>1. IndInv => SuccessMeansInstaller
    BY DEF IndInv, ProgressInv, InstallerInv, Unskipped, SuccessMeansInstaller
  <1> QED
    BY <1>1, InvariantHolds, PTL

\* rsync never starts from a source that the block restore has unmounted.
THEOREM SourceIsThere == Spec => []FallbackHasSource
  <1>1. IndInv => FallbackHasSource
    BY DEF IndInv, ProgressInv, EspInv, WithSource, FallbackHasSource
  <1> QED
    BY <1>1, InvariantHolds, PTL
==============================================================================
