---------------------------- MODULE OpenDuetProofs ----------------------------
(***************************************************************************)
(* Proofs about OpenDuetInstall, for every number of runs, signals and     *)
(* failures and every build.                                               *)
(*                                                                         *)
(* The inductive invariant rests on one observation: a signal costs the    *)
(* run its $TMP, and with it newbs and the mount point.  So while $TMP is  *)
(* there and no trap is pending, nothing has been skipped, and what is in  *)
(* $TMP was made by commands that all succeeded.                           *)
(***************************************************************************)
EXTENDS OpenDuetInstall, TLAPS

\* Stages of the script, each the labels it spans.
ToWritePbr == {"random", "boot0", "wait1", "unmount2", "pbr"}
ToBuildPbr == {"newbs", "bpb"} \cup ToWritePbr
Captured == {"origbs"} \cup ToBuildPbr
IsFat == {"capmbr", "cappbr"} \cup Captured
Recovering == {"savebroken", "savesec6", "recwrite"}
Final == {"mount", "cpboot", "verify"}
Complete == {"umount", "report"}
BackupMade == {"unmount1", "probe", "reprobe"} \cup Recovering \cup IsFat
TempMade == {"backupdir", "wait2"} \cup BackupMade \cup Final \cup Complete
Boot0Written == {"wait1", "unmount2", "pbr", "wait2"} \cup Final
MbrSaved == {"cappbr", "origbs", "newbs", "bpb", "random", "boot0"}
PbrSaved == {"savesec6", "recwrite"} \cup Captured

\* $TMP is there and nothing has been skipped so far.
Sound == SingleKindOfFault /\ work.tmp /\ ~trapped

\* The script's private files and its mount.
FilesInv ==
    /\ ~work.tmp => /\ work.origbs = NoFile
                    /\ work.newbs = NoFile
                    /\ work.esp = {}
                    /\ "own" \notin mounts
    /\ work.esp \subseteq {"boot"}
    /\ pc \in {"args", "mktemp"} => ~work.tmp
    /\ work.cap6 \in {NoFile, disk.sec6}
    /\ pc \in Recovering => disk.sec6.bpb = "disk"
    /\ work.tmp /\ pc \in Labels => work.mdir
    /\ pc = "idle" => "own" \notin mounts

\* How far the new PBR and the stick are at each label.
PipelineInv ==
    Sound =>
        /\ pc \in BackupMade => work.dir
        /\ pc = "recwrite" => work.cap6 = disk.sec6
        /\ pc \in IsFat => disk.pbr.bpb = "disk"
        /\ pc \in Captured => work.cap = disk.pbr
        /\ pc \in ToBuildPbr => work.origbs = disk.pbr
        /\ pc = "bpb" => work.newbs = boot1f32
        /\ pc \in ToWritePbr => work.newbs = Sector("disk", "duet")
        /\ pc \in Boot0Written => disk.mbr = "boot0"
        /\ pc = "wait2" /\ node # "file" => disk.pbr = Sector("disk", "duet")
        /\ pc \in Final => disk.pbr = Sector("disk", "duet")
        /\ pc = "umount" => "own" \in mounts

\* Once the files are verified the stick is complete, whatever comes then.
CompleteInv ==
    SingleKindOfFault =>
        /\ pc \in Complete \/ status = "ok" => Installed
        /\ status = "ok" => pc \in {"exit", "idle"} /\ "own" \notin mounts
        /\ pc = "report" /\ ~trapped => "own" \notin mounts

\* What holds as long as no signal has come.
QuietInv ==
    signals = 0 =>
        /\ ~trapped
        /\ pc \in Labels => errexit
        /\ pc \in TempMade => work.tmp
        /\ pc \in MbrSaved => disk.mbr \in saved.mbr
        /\ pc \in PbrSaved => disk.pbr \in saved.pbr

ProgressInv == FilesInv /\ PipelineInv /\ CompleteInv /\ QuietInv

IndInv == TypeOK /\ ProgressInv

(***************************************************************************)
(* Types.                                                                  *)
(***************************************************************************)
\* The sectors and sector files the script handles are of the right kind.
LEMMA SectorTypes ==
    /\ \A b \in {"disk", "template", "blank", "foreign"} :
         \A c \in {"orig", "duet", "blank"} : Sector(b, c) \in Sectors
    /\ NoFile \in SectorFiles /\ NoFile \notin Sectors
    /\ boot1f32 \in Sectors
    /\ NoFile # boot1f32
    /\ \A s \in SectorFiles : s # NoFile => s \in Sectors
  BY DEF Sector, Sectors, NoFile, SectorFiles, boot1f32

\* A move of the shell, in a command or by a signal, keeps its variables in
\* their ranges.
LEMMA MoveTypes ==
    ASSUME NEW l, NEW n \in Labels, NEW possible, ShellTypeOK(Labels),
           \/ Succeeds(l, n) \/ Dies(l) \/ Finishes(l) \/ Fails(l, n, possible)
           \/ SignalBetween \/ SignalKills(l, n) \/ SignalEnds(l)
    PROVE  ShellTypeOK(Labels)'
  <1>1. /\ pc' \in Labels \cup {"idle", "exit"} /\ status' \in Statuses
        /\ errexit' \in BOOLEAN /\ trapped' \in BOOLEAN
    BY DEF ShellTypeOK, Succeeds, Dies, Finishes, Fails, SignalBetween, SignalKills,
           SignalEnds, SignalArrives, ExitWith, Statuses
  <1>2. runs' \in 0..MaxRuns /\ signals' \in 0..MaxSignals /\ failures' \in 0..MaxFailures
    BY BoundsAssumption
       DEF ShellTypeOK, Succeeds, Dies, Finishes, Fails, SpendFailure, SignalBetween,
           SignalKills, SignalEnds, SignalArrives
  <1> QED
    BY <1>1, <1>2 DEF ShellTypeOK

\* So do the start of a run, its traps and its end without any.
LEMMA RunTypes ==
    ASSUME ShellTypeOK(Labels),
           \/ \E l \in Labels : Invoke(l)
           \/ /\ TrapReturns \/ ExitTrapReturns
              /\ SpendFailure \/ UNCHANGED failures
           \/ KilledOutright
    PROVE  ShellTypeOK(Labels)'
  <1>1. /\ pc' \in Labels \cup {"idle", "exit"} /\ status' \in Statuses
        /\ errexit' \in BOOLEAN /\ trapped' \in BOOLEAN
    BY DEF ShellTypeOK, Invoke, TrapReturns, ExitTrapReturns, KilledOutright, Statuses
  <1>2. runs' \in 0..MaxRuns /\ signals' \in 0..MaxSignals /\ failures' \in 0..MaxFailures
    BY BoundsAssumption
       DEF ShellTypeOK, Invoke, TrapReturns, ExitTrapReturns, KilledOutright, SpendFailure
  <1> QED
    BY <1>1, <1>2 DEF ShellTypeOK

\* The stick, the host and the shell start in their ranges.
LEMMA InitTypes == Init => TypeOK
  <1> SUFFICES ASSUME Init PROVE TypeOK
    OBVIOUS
  <1>1. ShellTypeOK(Labels)
    <2>0. ShellInit
      BY DEF Init
    <2>1. pc \in Labels \cup {"idle", "exit"} /\ status \in Statuses
      BY <2>0 DEF ShellInit, Statuses
    <2>2. errexit \in BOOLEAN /\ trapped \in BOOLEAN
      BY <2>0 DEF ShellInit
    <2>3. runs \in 0..MaxRuns /\ signals \in 0..MaxSignals /\ failures \in 0..MaxFailures
      BY <2>0, BoundsAssumption DEF ShellInit
    <2> QED
      BY <2>1, <2>2, <2>3 DEF ShellTypeOK
  <1>2. disk \in [mbr : MbrCodes, pbr : Sectors, sec6 : Sectors,
                  files : SUBSET EspFiles]
    <2>1. /\ {"orig"} \subseteq MbrCodes
          /\ {BuildTree, {}} \subseteq SUBSET EspFiles
      BY BuildTreeAssumption DEF MbrCodes, EspFiles
    <2>2. /\ {Sector("disk", "orig"), boot1f32, Sector("foreign", "orig")}
               \subseteq Sectors
          /\ {Sector("disk", "orig"), Sector("blank", "blank")} \subseteq Sectors
      BY SectorTypes
    <2> QED
      BY <2>1, <2>2 DEF Init, InitialDisks
  <1>3. work \in [tmp : BOOLEAN, mdir : BOOLEAN, dir : BOOLEAN,
                  cap : SectorFiles, cap6 : SectorFiles, origbs : SectorFiles,
                  newbs : SectorFiles, esp : SUBSET EspFiles]
    BY SectorTypes DEF Init, NoWork
  <1> QED
    BY <1>1, <1>2, <1>3 DEF Init, TypeOK

\* A command that succeeds, fails or is killed keeps the shell's types, whatever
\* it does to the stick.
LEMMA CommandTypes ==
    ASSUME NEW l, NEW n \in Labels, NEW possible, TypeOK,
           Succeeds(l, n) \/ Fails(l, n, possible) \/ SignalKills(l, n)
    PROVE  ShellTypeOK(Labels)'
  BY MoveTypes DEF TypeOK

\* Every step keeps the types of the shell's variables.
LEMMA ShellStepTypes ==
    ASSUME TypeOK, Next PROVE ShellTypeOK(Labels)'
  <1> USE DEF Labels
  <1>0. ShellTypeOK(Labels)
    BY DEF TypeOK
  <1>1. CASE Start
    BY <1>0, <1>1, RunTypes DEF Start
  <1>2. CASE CheckArguments
    BY <1>0, <1>2, MoveTypes DEF CheckArguments
  <1>3. CASE MakeTemp
    BY <1>0, <1>3, MoveTypes DEF MakeTemp
  <1>4. CASE ProbeFilesystem \/ ProbeRecovered
    BY <1>0, <1>4, MoveTypes DEF ProbeFilesystem, ProbeRecovered
  <1>5. CASE MakeBackupDir \/ SaveBrokenPbr \/ SaveSector6 \/ RecoverPbr
    BY <1>5, CommandTypes
       DEF MakeBackupDir, SaveBrokenPbr, SaveSector6, RecoverPbr, Run, Command
  <1>6. CASE CaptureMbr \/ CapturePbr \/ CopyOrigbs \/ CopyNewbs
    BY <1>6, CommandTypes
       DEF CaptureMbr, CapturePbr, CopyOrigbs, CopyNewbs, Run, Command
  <1>7. CASE PreserveBpb \/ RandomisePbr \/ WritePbr
    BY <1>7, CommandTypes
       DEF PreserveBpb, RandomisePbr, WritePbr, Run, Command
  <1>8. CASE MountEsp \/ CopyBoot \/ UnmountEsp
    BY <1>8, CommandTypes DEF MountEsp, CopyBoot, UnmountEsp, Run, Command
  <1>9. CASE WriteBoot0
    BY <1>9, CommandTypes DEF WriteBoot0
  <1>10. CASE unmount_esp("unmount1", "probe") \/ unmount_esp("unmount2", "pbr")
    BY <1>10, CommandTypes DEF unmount_esp
  <1>11. CASE \/ wait_for_partition("wait1", "unmount2")
              \/ wait_for_partition("wait2", "mount")
    BY <1>0, <1>11, MoveTypes DEF wait_for_partition
  <1>12. CASE VerifyFiles
    BY <1>0, <1>12, MoveTypes DEF VerifyFiles
  <1>13. CASE Report
    BY <1>0, <1>13, MoveTypes DEF Report
  <1>14. CASE SignalTrap \/ ExitTrap
    BY <1>0, <1>14, RunTypes
       DEF SignalTrap, ExitTrap, CleanupDone, CleanupBusy
  <1>15. CASE Signal
    BY <1>0, <1>15, MoveTypes DEF Signal
  <1>16. CASE Crash
    BY <1>0, <1>16, RunTypes DEF Crash
  <1>17. CASE NodeVanishes \/ NodeReturns \/ Replug
    BY <1>0, <1>17
       DEF NodeVanishes, NodeReturns, Replug, shellVars, ShellTypeOK
  <1> QED
    BY <1>1, <1>2, <1>3, <1>4, <1>5, <1>6, <1>7, <1>8, <1>9, <1>10, <1>11, <1>12,
       <1>13, <1>14, <1>15, <1>16, <1>17 DEF Next

\* Every step keeps the types of the stick's and the host's variables.
LEMMA ToolStepTypes ==
    ASSUME TypeOK, Next PROVE TypeOK'
  <1> DEFINE Disks == [mbr : MbrCodes, pbr : Sectors, sec6 : Sectors,
                       files : SUBSET EspFiles]
             Works == [tmp : BOOLEAN, mdir : BOOLEAN, dir : BOOLEAN,
                       cap : SectorFiles, cap6 : SectorFiles,
                       origbs : SectorFiles, newbs : SectorFiles,
                       esp : SUBSET EspFiles]
             ToolTypes == /\ recover \in BOOLEAN
                          /\ disk \in Disks
                          /\ node \in {"block", "absent", "file"}
                          /\ mounts \subseteq {"own", "elsewhere"}
                          /\ work \in Works
                          /\ saved \in [mbr : SUBSET MbrCodes, pbr : SUBSET Sectors]
  <1>0. ToolTypes
    BY DEF TypeOK
  <1> SUFFICES ToolTypes'
    BY ShellStepTypes DEF TypeOK
  <1>1. ASSUME UNCHANGED toolVars PROVE ToolTypes'
    BY <1>0, <1>1 DEF toolVars
  <1>2. ASSUME NEW w \in Works, Makes(w) PROVE ToolTypes'
    BY <1>0, <1>2 DEF Makes
  <1>3. ASSUME NEW d \in Disks, Writes(d) PROVE ToolTypes'
    BY <1>0, <1>3 DEF Writes
  <1>4. CASE Start
    BY <1>0, <1>4, SectorTypes DEF Start, NoWork
  <1>5. CASE CheckArguments \/ ProbeFilesystem \/ ProbeRecovered \/ VerifyFiles \/ Signal
    BY <1>1, <1>5
       DEF CheckArguments, ProbeFilesystem, ProbeRecovered, VerifyFiles, Signal
  <1>6. CASE MakeTemp
    BY <1>0, <1>1, <1>2, <1>6 DEF MakeTemp
  <1>7. CASE MakeBackupDir
    BY <1>0, <1>1, <1>2, <1>7 DEF MakeBackupDir, Run, Command
  <1>8. CASE unmount_esp("unmount1", "probe") \/ unmount_esp("unmount2", "pbr")
    BY <1>0, <1>1, <1>8 DEF unmount_esp
  <1>9. CASE SaveBrokenPbr \/ CaptureMbr
    BY <1>0, <1>1, <1>9 DEF SaveBrokenPbr, CaptureMbr, SavesPbr, Run, Command
  <1>10. CASE CapturePbr
    BY <1>0, <1>1, <1>10 DEF CapturePbr, SavesPbr, SectorFiles, Run, Command
  <1>11. CASE SaveSector6
    BY <1>0, <1>1, <1>2, <1>11 DEF SaveSector6, SectorFiles, Run, Command
  <1>12. CASE RecoverPbr
    BY <1>0, <1>1, <1>3, <1>12, SectorTypes DEF RecoverPbr, Run, Command
  <1>13. CASE CopyOrigbs
    BY <1>0, <1>1, <1>2, <1>13 DEF CopyOrigbs, Run, Command
  <1>14. CASE CopyNewbs
    BY <1>0, <1>1, <1>2, <1>14, SectorTypes DEF CopyNewbs, SectorFiles, Run, Command
  <1>15. CASE PreserveBpb
    BY <1>0, <1>1, <1>2, <1>15
       DEF PreserveBpb, SectorFiles, Sectors, Sector, NoFile, Run, Command
  <1>16. CASE RandomisePbr
    BY <1>0, <1>1, <1>2, <1>16, SectorTypes
       DEF RandomisePbr, SectorFiles, Run, Command
  <1>17. CASE WriteBoot0
    BY <1>0, <1>3, <1>17 DEF WriteBoot0, MbrCodes
  <1>18. CASE \/ wait_for_partition("wait1", "unmount2")
              \/ wait_for_partition("wait2", "mount")
    BY <1>1, <1>18 DEF wait_for_partition
  <1>19. CASE WritePbr
    BY <1>0, <1>1, <1>3, <1>19, SectorTypes DEF WritePbr, Run, Command
  <1>20. CASE MountEsp \/ UnmountEsp
    BY <1>0, <1>1, <1>20 DEF MountEsp, UnmountEsp, Run, Command
  <1>21. CASE CopyBoot
    BY <1>0, <1>1, <1>2, <1>3, <1>21 DEF CopyBoot, EspFiles, Run, Command
  <1>22. CASE Report
    BY <1>0, <1>2, <1>22 DEF Report
  <1>23. CASE SignalTrap \/ ExitTrap
    <2>1. WithoutTemp \in Works /\ [WithoutTemp EXCEPT !.tmp = TRUE] \in Works
      BY <1>0, SectorTypes DEF WithoutTemp
    <2>2. LeftBehind \subseteq {"own", "elsewhere"}
      BY <1>0 DEF LeftBehind
    <2>3. [disk EXCEPT !.files = {}] \in Disks
      BY <1>0
    <2> QED
      BY <1>0, <1>23, <2>1, <2>2, <2>3
         DEF SignalTrap, ExitTrap, CleanupDone, CleanupBusy
  <1>24. CASE Crash
    BY <1>0, <1>24 DEF Crash, LeftBehind
  <1>25. CASE NodeVanishes \/ NodeReturns \/ Replug
    BY <1>0, <1>25 DEF NodeVanishes, NodeReturns, Replug
  <1> QED
    BY <1>4, <1>5, <1>6, <1>7, <1>8, <1>9, <1>10, <1>11, <1>12, <1>13, <1>14, <1>15,
       <1>16, <1>17, <1>18, <1>19, <1>20, <1>21, <1>22, <1>23, <1>24, <1>25 DEF Next

\* Type correctness of the boot sector installer.
THEOREM TypesHold == Spec => []TypeOK
  <1>1. TypeOK /\ UNCHANGED vars => TypeOK'
    BY DEF vars, shellVars, toolVars, TypeOK, ShellTypeOK
  <1> QED
    BY <1>1, InitTypes, ToolStepTypes, PTL DEF Spec

(***************************************************************************)
(* The invariant.  First the outcomes that all commands share.             *)
(***************************************************************************)

\* The fault counters only grow.
LEMMA FaultsGrow ==
    ASSUME TypeOK,
           signals' = signals \/ signals' = signals + 1,
           failures' = failures \/ failures' = failures + 1
    PROVE  /\ SingleKindOfFault' => SingleKindOfFault
           /\ signals' = 0 => signals = 0
           /\ signals' = signals + 1 => signals' # 0
           /\ failures' = failures + 1 => failures' # 0
  BY BoundsAssumption DEF TypeOK, ShellTypeOK, SingleKindOfFault

\* The script ends with an error.
LEMMA EndKeepsInv ==
    ASSUME IndInv, NEW l \in Labels, Dies(l) \/ SignalEnds(l), UNCHANGED toolVars
    PROVE  ProgressInv'
  <1>1. /\ pc = l /\ pc' = "exit" /\ status' = "error"
        /\ trapped' = trapped /\ errexit' = errexit /\ failures' = failures
        /\ signals' = signals \/ signals' = signals + 1
    BY DEF Dies, SignalEnds, At, ExitWith
  <1>2. /\ SingleKindOfFault' => SingleKindOfFault
        /\ signals' = 0 => signals = 0
    BY <1>1, FaultsGrow DEF IndInv
  <1>3. /\ FilesInv' /\ PipelineInv'
    BY <1>1, <1>2
       DEF IndInv, ProgressInv, FilesInv, PipelineInv, Sound, toolVars, Labels,
           BackupMade, IsFat, Captured, ToBuildPbr, ToWritePbr, Boot0Written, Final,
           Recovering
  <1>4. CompleteInv' /\ QuietInv'
    BY <1>1, <1>2
       DEF IndInv, ProgressInv, CompleteInv, QuietInv, toolVars, Labels, Complete,
           TempMade, BackupMade, IsFat, Captured, ToBuildPbr, ToWritePbr,
           Final, Recovering, MbrSaved, PbrSaved
  <1> QED
    BY <1>3, <1>4 DEF ProgressInv

\* A command is killed by a signal, or fails, and has done nothing.  It lacks what
\* it needs only if the run is no longer sound.
Skipped ==
    /\ ~trapped
    /\ \/ signals' = signals + 1 /\ trapped' /\ UNCHANGED <<status, failures>>
       \/ /\ UNCHANGED <<trapped, signals>>
          /\ failures' = failures + 1 \/ (failures' = failures /\ ~Sound)
          /\ IF errexit THEN pc' = "exit" /\ status' = "error" ELSE status' = status
    /\ UNCHANGED <<errexit, toolVars>>

\* A skipped command keeps the invariant.
LEMMA SkipKeepsInv ==
    ASSUME IndInv, Skipped, pc \in Labels,
           pc' \in (Labels \ {"args", "mktemp", "umount"}) \cup {"exit"},
           pc' \in Recovering => pc \in Recovering,
           pc' = "report" => pc = "umount"
    PROVE  ProgressInv'
  <1> USE DEF Labels
  <1>0. /\ signals' = signals \/ signals' = signals + 1
        /\ failures' = failures \/ failures' = failures + 1
    BY DEF Skipped
  <1>1. /\ SingleKindOfFault' => SingleKindOfFault
        /\ signals' = 0 => signals = 0
        /\ signals' = signals + 1 => signals' # 0
        /\ failures' = failures + 1 => failures' # 0
    BY <1>0, FaultsGrow DEF IndInv
  <1>2. /\ signals' = 0 => pc' = "exit" /\ ~trapped' /\ status' = "error"
        /\ status' \in {status, "error"}
        /\ UNCHANGED toolVars
    BY <1>1 DEF Skipped, IndInv, ProgressInv, QuietInv
  <1>3. Sound' => pc' = "exit"
    BY <1>1, <1>2
       DEF Skipped, Sound, SingleKindOfFault, IndInv, ProgressInv, QuietInv, toolVars
  <1>4. FilesInv' /\ PipelineInv' /\ QuietInv'
    BY <1>1, <1>2, <1>3
       DEF IndInv, ProgressInv, FilesInv, PipelineInv, QuietInv, toolVars,
           TempMade, BackupMade, IsFat, Captured, ToBuildPbr, ToWritePbr, Final,
           Complete, Recovering, MbrSaved, PbrSaved, Boot0Written
  <1>5. pc' = "report" /\ SingleKindOfFault' /\ ~trapped' => "own" \notin mounts'
    BY <1>1, <1>2
       DEF Skipped, Sound, SingleKindOfFault, IndInv, ProgressInv, FilesInv, toolVars
  <1>6. CompleteInv'
    BY <1>1, <1>2, <1>5
       DEF IndInv, ProgressInv, CompleteInv, Installed, Complete, toolVars
  <1> QED
    BY <1>4, <1>6 DEF ProgressInv

\* A command that succeeds leaves the faults, the trap and errexit as they are.
LEMMA SuccessFrame ==
    ASSUME NEW l, NEW n, Succeeds(l, n)
    PROVE  /\ pc = l /\ pc' = n /\ ~trapped
           /\ (Sound' <=> SingleKindOfFault /\ work'.tmp)
           /\ (SingleKindOfFault' <=> SingleKindOfFault)
           /\ UNCHANGED <<errexit, trapped, status, runs, signals, failures>>
  BY DEF Succeeds, At, Sound, SingleKindOfFault

\* Before the first sector is read.
LEMMA PreparationKeepsInv ==
    ASSUME IndInv,
           \/ Start \/ CheckArguments \/ MakeTemp \/ MakeBackupDir
           \/ unmount_esp("unmount1", "probe") \/ ProbeFilesystem
    PROVE  ProgressInv'
  <1> USE DEF Labels, Recovering, Complete, TempMade, BackupMade, IsFat, Captured,
              ToBuildPbr, ToWritePbr, Final, MbrSaved, PbrSaved, Boot0Written
  <1>0. TypeOK /\ FilesInv /\ PipelineInv /\ CompleteInv /\ QuietInv
    BY DEF IndInv, ProgressInv
  <1>1. CASE Start
    BY <1>0, <1>1
       DEF Start, Invoke, ProgressInv, FilesInv, PipelineInv, CompleteInv,
           QuietInv, Sound, SingleKindOfFault, NoWork, TypeOK, ShellTypeOK
  <1>2. CASE CheckArguments
    <2>1. CASE Succeeds("args", "mktemp") /\ UNCHANGED toolVars
      BY <1>0, <2>1, SuccessFrame
         DEF ProgressInv, FilesInv, PipelineInv, CompleteInv, QuietInv, toolVars
    <2>2. CASE Dies("args") /\ UNCHANGED toolVars
      BY <2>2, EndKeepsInv
    <2> QED
      BY <1>2, <2>1, <2>2 DEF CheckArguments
  <1>3. CASE MakeTemp
    <2>1. CASE /\ Succeeds("mktemp", "backupdir")
               /\ Makes([work EXCEPT !.tmp = TRUE, !.mdir = TRUE])
      BY <1>0, <2>1, SuccessFrame
         DEF Makes, ProgressInv, FilesInv, PipelineInv, CompleteInv, QuietInv, NoWork,
             Installed
    <2>2. CASE (Dies("mktemp") \/ SignalEnds("mktemp")) /\ UNCHANGED toolVars
      BY <2>2, EndKeepsInv
    <2> QED
      BY <1>3, <2>1, <2>2 DEF MakeTemp
  <1>4. CASE MakeBackupDir
    <2>1. CASE /\ Succeeds("backupdir", "unmount1")
               /\ Makes([work EXCEPT !.dir = TRUE])
      BY <1>0, <2>1, SuccessFrame
         DEF Makes, ProgressInv, FilesInv, PipelineInv, CompleteInv, QuietInv, Sound,
             TypeOK, Installed
    <2>2. CASE /\ \/ Fails("backupdir", "unmount1", TRUE)
                  \/ SignalKills("backupdir", "unmount1")
               /\ UNCHANGED toolVars
      <3>1. Skipped /\ pc = "backupdir" /\ pc' \in {"unmount1", "exit"}
        BY <2>2
           DEF Skipped, Fails, SignalKills, SignalArrives, SpendFailure, ExitWith, At
      <3> QED
        BY <3>1, SkipKeepsInv
    <2> QED
      BY <1>4, <2>1, <2>2 DEF MakeBackupDir, Run, Command
  <1>5. CASE unmount_esp("unmount1", "probe")
    <2>1. CASE /\ Succeeds("unmount1", "probe")
               /\ mounts' \in {mounts, mounts \ {"elsewhere"}}
               /\ UNCHANGED <<recover, disk, node, work, saved>>
      BY <1>0, <2>1, SuccessFrame
         DEF ProgressInv, FilesInv, PipelineInv, CompleteInv, QuietInv, Sound,
             TypeOK, Installed
    <2>2. CASE SignalKills("unmount1", "probe") /\ UNCHANGED toolVars
      <3>1. Skipped /\ pc = "unmount1" /\ pc' = "probe"
        BY <2>2 DEF Skipped, SignalKills, SignalArrives
      <3> QED
        BY <3>1, SkipKeepsInv
    <2> QED
      BY <1>5, <2>1, <2>2 DEF unmount_esp
  <1>6. CASE ProbeFilesystem
    <2>1. CASE /\ probe_fstype(disk.pbr) = "vfat" /\ Succeeds("probe", "capmbr")
               /\ UNCHANGED toolVars
      BY <1>0, <2>1, SuccessFrame
         DEF ProgressInv, FilesInv, PipelineInv, CompleteInv, QuietInv, Sound, toolVars,
             Installed, probe_fstype
    <2>2. CASE /\ fat32_sector_valid(disk.sec6) /\ Succeeds("probe", "savebroken")
               /\ UNCHANGED toolVars
      BY <1>0, <2>2, SuccessFrame
         DEF ProgressInv, FilesInv, PipelineInv, CompleteInv, QuietInv, Sound, toolVars,
             Installed, fat32_sector_valid
    <2>3. CASE (Dies("probe") \/ SignalEnds("probe")) /\ UNCHANGED toolVars
      BY <2>3, EndKeepsInv
    <2> QED
      BY <1>6, <2>1, <2>2, <2>3 DEF ProbeFilesystem
  <1> QED
    BY <1>1, <1>2, <1>3, <1>4, <1>5, <1>6

\* Saving the sectors and restoring a broken PBR from sector 6.
LEMMA CaptureKeepsInv ==
    ASSUME IndInv,
           \/ SaveBrokenPbr \/ SaveSector6 \/ RecoverPbr \/ ProbeRecovered
           \/ CaptureMbr \/ CapturePbr
    PROVE  ProgressInv'
  <1> USE DEF Labels, Recovering, Complete, TempMade, BackupMade, IsFat, Captured,
              ToBuildPbr, ToWritePbr, Final, MbrSaved, PbrSaved, Boot0Written
  <1>0. TypeOK /\ FilesInv /\ PipelineInv /\ CompleteInv /\ QuietInv
    BY DEF IndInv, ProgressInv
  <1>1. CASE SaveBrokenPbr
    <2>1. CASE /\ Succeeds("savebroken", "savesec6") /\ SavesPbr
               /\ UNCHANGED <<recover, disk, node, mounts, work>>
      BY <1>0, <2>1, SuccessFrame
         DEF SavesPbr, ProgressInv, FilesInv, PipelineInv, CompleteInv, QuietInv,
             Sound, TypeOK, Installed
    <2>2. CASE /\ \/ Fails("savebroken", "savesec6", work.dir)
                  \/ SignalKills("savebroken", "savesec6")
               /\ UNCHANGED toolVars
      <3>1. pc = "savebroken"
        BY <2>2 DEF Fails, SignalKills, At
      <3>2. Sound => work.dir
        BY <1>0, <3>1 DEF PipelineInv
      <3>3. Skipped /\ pc' \in {"savesec6", "exit"}
        BY <2>2, <3>2
           DEF Skipped, Fails, SignalKills, SignalArrives, SpendFailure, ExitWith, At
      <3> QED
        BY <3>1, <3>3, SkipKeepsInv
    <2> QED
      BY <1>1, <2>1, <2>2 DEF SaveBrokenPbr, Run, Command
  <1>2. CASE SaveSector6
    <2>1. CASE /\ Succeeds("savesec6", "recwrite")
               /\ Makes([work EXCEPT !.cap6 = disk.sec6])
      BY <1>0, <2>1, SuccessFrame
         DEF Makes, ProgressInv, FilesInv, PipelineInv, CompleteInv, QuietInv,
             Sound, TypeOK, Installed
    <2>2. CASE /\ \/ Fails("savesec6", "recwrite", work.dir)
                  \/ SignalKills("savesec6", "recwrite")
               /\ UNCHANGED toolVars
      <3>1. pc = "savesec6"
        BY <2>2 DEF Fails, SignalKills, At
      <3>2. Sound => work.dir
        BY <1>0, <3>1 DEF PipelineInv
      <3>3. Skipped /\ pc' \in {"recwrite", "exit"}
        BY <2>2, <3>2
           DEF Skipped, Fails, SignalKills, SignalArrives, SpendFailure, ExitWith, At
      <3> QED
        BY <3>1, <3>3, SkipKeepsInv
    <2> QED
      BY <1>2, <2>1, <2>2 DEF SaveSector6, Run, Command
  <1>3. CASE RecoverPbr
    <2>1. CASE /\ Succeeds("recwrite", "reprobe") /\ work.cap6 # NoFile
               /\ Writes([disk EXCEPT !.pbr = work.cap6])
      BY <1>0, <2>1, SuccessFrame
         DEF Writes, ProgressInv, FilesInv, PipelineInv, CompleteInv, QuietInv,
             Sound, TypeOK, Installed
    <2>2. CASE /\ \/ Fails("recwrite", "reprobe", work.cap6 # NoFile)
                  \/ SignalKills("recwrite", "reprobe")
               /\ UNCHANGED toolVars
      <3>1. pc = "recwrite"
        BY <2>2 DEF Fails, SignalKills, At
      <3>2. Sound => work.cap6 # NoFile
        BY <1>0, <3>1, SectorTypes DEF PipelineInv, TypeOK
      <3>3. Skipped /\ pc' \in {"reprobe", "exit"}
        BY <2>2, <3>2
           DEF Skipped, Fails, SignalKills, SignalArrives, SpendFailure, ExitWith, At
      <3> QED
        BY <3>1, <3>3, SkipKeepsInv
    <2> QED
      BY <1>3, <2>1, <2>2 DEF RecoverPbr, Run, Command
  <1>4. CASE ProbeRecovered
    <2>1. CASE /\ probe_fstype(disk.pbr) = "vfat" /\ Succeeds("reprobe", "capmbr")
               /\ UNCHANGED toolVars
      BY <1>0, <2>1, SuccessFrame
         DEF ProgressInv, FilesInv, PipelineInv, CompleteInv, QuietInv, Sound, toolVars,
             Installed, probe_fstype
    <2>2. CASE (Dies("reprobe") \/ SignalEnds("reprobe")) /\ UNCHANGED toolVars
      BY <2>2, EndKeepsInv
    <2> QED
      BY <1>4, <2>1, <2>2 DEF ProbeRecovered
  <1>5. CASE CaptureMbr
    <2>1. CASE /\ Succeeds("capmbr", "cappbr")
               /\ saved' = [saved EXCEPT !.mbr = @ \cup {disk.mbr}]
               /\ UNCHANGED <<recover, disk, node, mounts, work>>
      BY <1>0, <2>1, SuccessFrame
         DEF ProgressInv, FilesInv, PipelineInv, CompleteInv, QuietInv,
             Sound, TypeOK, Installed
    <2>2. CASE /\ \/ Fails("capmbr", "cappbr", work.dir)
                  \/ SignalKills("capmbr", "cappbr")
               /\ UNCHANGED toolVars
      <3>1. pc = "capmbr"
        BY <2>2 DEF Fails, SignalKills, At
      <3>2. Sound => work.dir
        BY <1>0, <3>1 DEF PipelineInv
      <3>3. Skipped /\ pc' \in {"cappbr", "exit"}
        BY <2>2, <3>2
           DEF Skipped, Fails, SignalKills, SignalArrives, SpendFailure, ExitWith, At
      <3> QED
        BY <3>1, <3>3, SkipKeepsInv
    <2> QED
      BY <1>5, <2>1, <2>2 DEF CaptureMbr, Run, Command
  <1>6. CASE CapturePbr
    <2>1. CASE /\ Succeeds("cappbr", "origbs") /\ SavesPbr
               /\ work' = [work EXCEPT !.cap = disk.pbr]
               /\ UNCHANGED <<recover, disk, node, mounts>>
      BY <1>0, <2>1, SuccessFrame
         DEF SavesPbr, ProgressInv, FilesInv, PipelineInv, CompleteInv, QuietInv,
             Sound, TypeOK, Installed
    <2>2. CASE /\ \/ Fails("cappbr", "origbs", work.dir)
                  \/ SignalKills("cappbr", "origbs")
               /\ UNCHANGED toolVars
      <3>1. pc = "cappbr"
        BY <2>2 DEF Fails, SignalKills, At
      <3>2. Sound => work.dir
        BY <1>0, <3>1 DEF PipelineInv
      <3>3. Skipped /\ pc' \in {"origbs", "exit"}
        BY <2>2, <3>2
           DEF Skipped, Fails, SignalKills, SignalArrives, SpendFailure, ExitWith, At
      <3> QED
        BY <3>1, <3>3, SkipKeepsInv
    <2> QED
      BY <1>6, <2>1, <2>2 DEF CapturePbr, Run, Command
  <1> QED
    BY <1>1, <1>2, <1>3, <1>4, <1>5, <1>6

\* Building the new PBR.
LEMMA BuildKeepsInv ==
    ASSUME IndInv, CopyOrigbs \/ CopyNewbs \/ PreserveBpb \/ RandomisePbr
    PROVE  ProgressInv'
  <1> USE DEF Labels, Recovering, Complete, TempMade, BackupMade, IsFat, Captured,
              ToBuildPbr, ToWritePbr, Final, MbrSaved, PbrSaved, Boot0Written
  <1>0. TypeOK /\ FilesInv /\ PipelineInv /\ CompleteInv /\ QuietInv
    BY DEF IndInv, ProgressInv
  <1>1. CASE CopyOrigbs
    <2>1. CASE /\ Succeeds("origbs", "newbs")
               /\ work.tmp /\ work.cap # NoFile
               /\ Makes([work EXCEPT !.origbs = work.cap])
      BY <1>0, <2>1, SuccessFrame
         DEF Makes, ProgressInv, FilesInv, PipelineInv, CompleteInv, QuietInv,
             Sound, TypeOK, Installed
    <2>2. CASE /\ \/ Fails("origbs", "newbs", work.tmp /\ work.cap # NoFile)
                  \/ SignalKills("origbs", "newbs")
               /\ UNCHANGED toolVars
      <3>1. pc = "origbs"
        BY <2>2 DEF Fails, SignalKills, At
      <3>2. Sound => (work.tmp /\ work.cap # NoFile)
        BY <1>0, <3>1, SectorTypes DEF PipelineInv, TypeOK, Sound
      <3>3. Skipped /\ pc' \in {"newbs", "exit"}
        BY <2>2, <3>2
           DEF Skipped, Fails, SignalKills, SignalArrives, SpendFailure, ExitWith, At
      <3> QED
        BY <3>1, <3>3, SkipKeepsInv
    <2> QED
      BY <1>1, <2>1, <2>2 DEF CopyOrigbs, Run, Command
  <1>2. CASE CopyNewbs
    <2>1. CASE /\ Succeeds("newbs", "bpb")
               /\ work.tmp
               /\ Makes([work EXCEPT !.newbs = boot1f32])
      BY <1>0, <2>1, SuccessFrame
         DEF Makes, ProgressInv, FilesInv, PipelineInv, CompleteInv, QuietInv,
             Sound, TypeOK, Installed
    <2>2. CASE /\ \/ Fails("newbs", "bpb", work.tmp)
                  \/ SignalKills("newbs", "bpb")
               /\ UNCHANGED toolVars
      <3>1. pc = "newbs"
        BY <2>2 DEF Fails, SignalKills, At
      <3>2. Sound => work.tmp
        BY <1>0, <3>1 DEF PipelineInv, Sound
      <3>3. Skipped /\ pc' \in {"bpb", "exit"}
        BY <2>2, <3>2
           DEF Skipped, Fails, SignalKills, SignalArrives, SpendFailure, ExitWith, At
      <3> QED
        BY <3>1, <3>3, SkipKeepsInv
    <2> QED
      BY <1>2, <2>1, <2>2 DEF CopyNewbs, Run, Command
  <1>3. CASE PreserveBpb
    <2>1. CASE /\ Succeeds("bpb", "random")
               /\ work.tmp /\ work.origbs # NoFile
               /\ Makes([work EXCEPT !.newbs =
                          Sector(work.origbs.bpb,
                                 IF @ = NoFile THEN "blank" ELSE @.code)])
      BY <1>0, <2>1, SuccessFrame
         DEF Makes, boot1f32, Sector, NoFile, ProgressInv, FilesInv, PipelineInv, CompleteInv, QuietInv,
             Sound, TypeOK, Installed
    <2>2. CASE /\ \/ Fails("bpb", "random", work.tmp /\ work.origbs # NoFile)
                  \/ SignalKills("bpb", "random")
               /\ UNCHANGED toolVars
      <3>1. pc = "bpb"
        BY <2>2 DEF Fails, SignalKills, At
      <3>2. Sound => (work.tmp /\ work.origbs # NoFile)
        BY <1>0, <3>1, SectorTypes DEF PipelineInv, TypeOK, Sound
      <3>3. Skipped /\ pc' \in {"random", "exit"}
        BY <2>2, <3>2
           DEF Skipped, Fails, SignalKills, SignalArrives, SpendFailure, ExitWith, At
      <3> QED
        BY <3>1, <3>3, SkipKeepsInv
    <2> QED
      BY <1>3, <2>1, <2>2 DEF PreserveBpb, Run, Command
  <1>4. CASE RandomisePbr
    <2>1. CASE /\ Succeeds("random", "boot0")
               /\ work.tmp
               /\ Makes([work EXCEPT !.newbs =
                          IF @ = NoFile THEN Sector("blank", "blank") ELSE @])
      BY <1>0, <2>1, SuccessFrame
         DEF Makes, Sector, NoFile, ProgressInv, FilesInv, PipelineInv, CompleteInv, QuietInv,
             Sound, TypeOK, Installed
    <2>2. CASE /\ \/ Fails("random", "boot0", work.tmp)
                  \/ SignalKills("random", "boot0")
               /\ UNCHANGED toolVars
      <3>1. pc = "random"
        BY <2>2 DEF Fails, SignalKills, At
      <3>2. Sound => work.tmp
        BY <1>0, <3>1 DEF PipelineInv, Sound
      <3>3. Skipped /\ pc' \in {"boot0", "exit"}
        BY <2>2, <3>2
           DEF Skipped, Fails, SignalKills, SignalArrives, SpendFailure, ExitWith, At
      <3> QED
        BY <3>1, <3>3, SkipKeepsInv
    <2> QED
      BY <1>4, <2>1, <2>2 DEF RandomisePbr, Run, Command
  <1> QED
    BY <1>1, <1>2, <1>3, <1>4

\* Writing boot0 and the PBR, with the device node coming and going.
LEMMA WriteKeepsInv ==
    ASSUME IndInv,
           \/ WriteBoot0 \/ wait_for_partition("wait1", "unmount2")
           \/ unmount_esp("unmount2", "pbr") \/ WritePbr
           \/ wait_for_partition("wait2", "mount")
    PROVE  ProgressInv'
  <1> USE DEF Labels, Recovering, Complete, TempMade, BackupMade, IsFat, Captured,
              ToBuildPbr, ToWritePbr, Final, MbrSaved, PbrSaved, Boot0Written
  <1>0. TypeOK /\ FilesInv /\ PipelineInv /\ CompleteInv /\ QuietInv
    BY DEF IndInv, ProgressInv
  <1>1. CASE WriteBoot0
    <2>1. CASE Succeeds("boot0", "wait1") /\ Writes([disk EXCEPT !.mbr = "boot0"])
      BY <1>0, <2>1, SuccessFrame
         DEF Writes, ProgressInv, FilesInv, PipelineInv, CompleteInv, QuietInv,
             Sound, TypeOK, Installed
    <2>2. CASE /\ Fails("boot0", "wait1", TRUE) \/ SignalKills("boot0", "wait1")
               /\ \E code \in {disk.mbr, "torn"} : Writes([disk EXCEPT !.mbr = code])
      <3>1. PICK code \in {disk.mbr, "torn"} : Writes([disk EXCEPT !.mbr = code])
        BY <2>2
      <3>2. /\ pc = "boot0" /\ ~trapped /\ pc' \in {"wait1", "exit"}
            /\ status' \in {status, "error"}
            /\ signals' = signals \/ signals' = signals + 1
            /\ failures' = failures \/ failures' = failures + 1
            /\ trapped' \/ failures' = failures + 1
            /\ signals' = signals => ~trapped' /\ (errexit => pc' = "exit")
        BY <1>0, <2>2
           DEF Fails, SignalKills, SignalArrives, SpendFailure, ExitWith, At, TypeOK,
               ShellTypeOK
      <3>3. /\ SingleKindOfFault' => SingleKindOfFault
            /\ signals' = 0 => signals = 0
            /\ signals' = signals + 1 => signals' # 0
            /\ failures' = failures + 1 => failures' # 0
        BY <1>0, <3>2, FaultsGrow
      <3>4. /\ signals' = 0 => pc' = "exit" /\ ~trapped'
            /\ Sound' => pc' = "exit"
        BY <1>0, <3>2, <3>3 DEF QuietInv, Sound, SingleKindOfFault
      <3>5. FilesInv' /\ PipelineInv'
        BY <1>0, <3>1, <3>2, <3>4 DEF Writes, FilesInv, PipelineInv, TypeOK
      <3>6. CompleteInv' /\ QuietInv'
        BY <1>0, <3>2, <3>3, <3>4 DEF CompleteInv, QuietInv
      <3> QED
        BY <3>5, <3>6 DEF ProgressInv
    <2> QED
      BY <1>1, <2>1, <2>2 DEF WriteBoot0
  <1>2. CASE wait_for_partition("wait1", "unmount2")
    <2>1. CASE Succeeds("wait1", "unmount2") /\ UNCHANGED toolVars
      BY <1>0, <2>1, SuccessFrame
         DEF toolVars, ProgressInv, FilesInv, PipelineInv, CompleteInv, QuietInv,
             Sound, TypeOK, Installed
    <2>2. CASE Dies("wait1") /\ UNCHANGED toolVars
      BY <2>2, EndKeepsInv
    <2> QED
      BY <1>2, <2>1, <2>2 DEF wait_for_partition
  <1>3. CASE unmount_esp("unmount2", "pbr")
    <2>1. CASE /\ Succeeds("unmount2", "pbr")
               /\ mounts' \in {mounts, mounts \ {"elsewhere"}}
               /\ UNCHANGED <<recover, disk, node, work, saved>>
      BY <1>0, <2>1, SuccessFrame
         DEF ProgressInv, FilesInv, PipelineInv, CompleteInv, QuietInv,
             Sound, TypeOK, Installed
    <2>2. CASE SignalKills("unmount2", "pbr") /\ UNCHANGED toolVars
      <3>1. Skipped /\ pc = "unmount2" /\ pc' = "pbr"
        BY <2>2 DEF Skipped, SignalKills, SignalArrives
      <3> QED
        BY <3>1, SkipKeepsInv
    <2> QED
      BY <1>3, <2>1, <2>2 DEF unmount_esp
  <1>4. CASE WritePbr
    <2>1. CASE /\ Succeeds("pbr", "wait2")
               /\ work.newbs # NoFile
               /\ IF node = "block"
                  THEN Writes([disk EXCEPT !.pbr = work.newbs])
                  ELSE /\ node' = "file"
                       /\ UNCHANGED <<recover, disk, mounts, work, saved>>
      BY <1>0, <2>1, SuccessFrame
         DEF Writes, ProgressInv, FilesInv, PipelineInv, CompleteInv, QuietInv,
             Sound, TypeOK, Installed
    <2>2. CASE /\ \/ Fails("pbr", "wait2", work.newbs # NoFile)
                  \/ SignalKills("pbr", "wait2")
               /\ UNCHANGED toolVars
      <3>1. pc = "pbr"
        BY <2>2 DEF Fails, SignalKills, At
      <3>2. Sound => work.newbs # NoFile
        BY <1>0, <3>1, SectorTypes DEF PipelineInv, TypeOK, Sound, Sector, NoFile
      <3>3. Skipped /\ pc' \in {"wait2", "exit"}
        BY <2>2, <3>2
           DEF Skipped, Fails, SignalKills, SignalArrives, SpendFailure, ExitWith, At
      <3> QED
        BY <3>1, <3>3, SkipKeepsInv
    <2> QED
      BY <1>4, <2>1, <2>2 DEF WritePbr, Run, Command
  <1>5. CASE wait_for_partition("wait2", "mount")
    <2>1. CASE /\ node = "block" /\ Succeeds("wait2", "mount")
               /\ UNCHANGED toolVars
      BY <1>0, <2>1, SuccessFrame
         DEF toolVars, ProgressInv, FilesInv, PipelineInv, CompleteInv, QuietInv,
             Sound, TypeOK, Installed
    <2>2. CASE Dies("wait2") /\ UNCHANGED toolVars
      BY <2>2, EndKeepsInv
    <2> QED
      BY <1>5, <2>1, <2>2 DEF wait_for_partition
  <1> QED
    BY <1>1, <1>2, <1>3, <1>4, <1>5

\* Mounting the ESP, copying /boot and the checks before success is reported.
LEMMA FinishKeepsInv ==
    ASSUME IndInv, MountEsp \/ CopyBoot \/ VerifyFiles \/ UnmountEsp \/ Report
    PROVE  ProgressInv'
  <1> USE DEF Labels, Recovering, Complete, TempMade, BackupMade, IsFat, Captured,
              ToBuildPbr, ToWritePbr, Final, MbrSaved, PbrSaved, Boot0Written
  <1>0. TypeOK /\ FilesInv /\ PipelineInv /\ CompleteInv /\ QuietInv
    BY DEF IndInv, ProgressInv
  <1>1. CASE MountEsp
    <2>1. CASE /\ Succeeds("mount", "cpboot") /\ work.tmp
               /\ mounts' = mounts \cup {"own"}
               /\ UNCHANGED <<recover, disk, node, work, saved>>
      BY <1>0, <2>1, SuccessFrame
         DEF ProgressInv, FilesInv, PipelineInv, CompleteInv, QuietInv,
             Sound, TypeOK, Installed
    <2>2. CASE /\ Fails("mount", "cpboot",
                        node = "block" /\ work.tmp /\ probe_fstype(disk.pbr) = "vfat")
               /\ UNCHANGED toolVars
      <3>1. /\ pc = "mount" /\ pc' = (IF errexit THEN "exit" ELSE "cpboot")
            /\ status' = (IF errexit THEN "error" ELSE status)
            /\ UNCHANGED <<trapped, signals>>
            /\ failures' = failures \/ failures' = failures + 1
        BY <2>2 DEF Fails, ExitWith, At, SpendFailure
      <3>2. /\ SingleKindOfFault' => SingleKindOfFault
            /\ signals' = 0 => errexit
        BY <1>0, <3>1, FaultsGrow DEF QuietInv
      <3> QED
        BY <1>0, <2>2, <3>1, <3>2
           DEF toolVars, ProgressInv, FilesInv, PipelineInv, CompleteInv, QuietInv,
               Sound, TypeOK, Installed
    <2>3. CASE SignalKills("mount", "cpboot") /\ UNCHANGED toolVars
      <3>1. Skipped /\ pc = "mount" /\ pc' = "cpboot"
        BY <2>3 DEF Skipped, SignalKills, SignalArrives
      <3> QED
        BY <3>1, SkipKeepsInv
    <2> QED
      BY <1>1, <2>1, <2>2, <2>3 DEF MountEsp, Run, Command
  <1>2. CASE CopyBoot
    <2>1. CASE /\ Succeeds("cpboot", "verify")
               /\ work.tmp
               /\ IF "own" \in mounts
                  THEN Writes([disk EXCEPT !.files = @ \cup {"boot"}])
                  ELSE Makes([work EXCEPT !.esp = @ \cup {"boot"}])
      BY <1>0, <2>1, SuccessFrame
         DEF Writes, Makes, ProgressInv, FilesInv, PipelineInv, CompleteInv, QuietInv,
             Sound, TypeOK, Installed
    <2>2. CASE /\ \/ Fails("cpboot", "verify", work.tmp)
                  \/ SignalKills("cpboot", "verify")
               /\ UNCHANGED toolVars
      <3>1. pc = "cpboot"
        BY <2>2 DEF Fails, SignalKills, At
      <3>2. Sound => work.tmp
        BY <1>0, <3>1 DEF PipelineInv, Sound
      <3>3. Skipped /\ pc' \in {"verify", "exit"}
        BY <2>2, <3>2
           DEF Skipped, Fails, SignalKills, SignalArrives, SpendFailure, ExitWith, At
      <3> QED
        BY <3>1, <3>3, SkipKeepsInv
    <2> QED
      BY <1>2, <2>1, <2>2 DEF CopyBoot, Run, Command
  <1>3. CASE VerifyFiles
    <2>1. CASE /\ {"boot"} \cup BuildTree \subseteq MountDirFiles
               /\ Succeeds("verify", "umount") /\ UNCHANGED toolVars
      <3>1. "own" \in mounts /\ {"boot"} \cup BuildTree \subseteq disk.files
        BY <1>0, <2>1, BuildTreeAssumption DEF MountDirFiles, FilesInv
      <3>2. work.tmp
        BY <1>0, <3>1 DEF FilesInv
      <3> QED
        BY <1>0, <2>1, <3>1, <3>2, SuccessFrame
           DEF toolVars, ProgressInv, FilesInv, PipelineInv, CompleteInv, QuietInv,
             Sound, TypeOK, Installed
    <2>2. CASE Dies("verify") /\ UNCHANGED toolVars
      BY <2>2, EndKeepsInv
    <2> QED
      BY <1>3, <2>1, <2>2 DEF VerifyFiles
  <1>4. CASE UnmountEsp
    <2>1. CASE /\ Succeeds("umount", "report")
               /\ "own" \in mounts
               /\ mounts' = mounts \ {"own"}
               /\ UNCHANGED <<recover, disk, node, work, saved>>
      BY <1>0, <2>1, SuccessFrame
         DEF ProgressInv, FilesInv, PipelineInv, CompleteInv, QuietInv,
             Sound, TypeOK, Installed
    <2>2. CASE /\ \/ Fails("umount", "report", "own" \in mounts)
                  \/ SignalKills("umount", "report")
               /\ UNCHANGED toolVars
      <3>1. pc = "umount"
        BY <2>2 DEF Fails, SignalKills, At
      <3>2. Sound => "own" \in mounts
        BY <1>0, <3>1 DEF PipelineInv, Sound
      <3>3. Skipped /\ pc' \in {"report", "exit"}
        BY <2>2, <3>2
           DEF Skipped, Fails, SignalKills, SignalArrives, SpendFailure, ExitWith, At
      <3> QED
        BY <3>1, <3>3, SkipKeepsInv
    <2> QED
      BY <1>4, <2>1, <2>2 DEF UnmountEsp, Run, Command
  <1>5. CASE Report
    <2>1. /\ pc = "report" /\ ~trapped /\ pc' = "exit" /\ status' = "ok"
          /\ UNCHANGED <<trapped, signals, failures>>
          /\ Makes([work EXCEPT !.mdir = FALSE])
      BY <1>5 DEF Report, Finishes, ExitWith, At
    <2> QED
      BY <1>0, <2>1
         DEF Makes, SingleKindOfFault, ProgressInv, FilesInv, PipelineInv, CompleteInv, QuietInv,
             Sound, TypeOK, Installed
  <1> QED
    BY <1>1, <1>2, <1>3, <1>4, <1>5

\* Signals, traps, crashes and the comings and goings of the device.
LEMMA SurroundingsKeepInv ==
    ASSUME IndInv,
           \/ SignalTrap \/ ExitTrap \/ Signal \/ Crash
           \/ NodeVanishes \/ NodeReturns \/ Replug
    PROVE  ProgressInv'
  <1> USE DEF Labels, Recovering, Complete, TempMade, BackupMade, IsFat, Captured,
              ToBuildPbr, ToWritePbr, Final, MbrSaved, PbrSaved, Boot0Written
  <1>0. TypeOK /\ FilesInv /\ PipelineInv /\ CompleteInv /\ QuietInv
    BY DEF IndInv, ProgressInv
  <1>1. CASE SignalTrap
    <2>1. /\ trapped /\ ~trapped' /\ UNCHANGED <<pc, status, signals>>
          /\ UNCHANGED <<recover, node, saved>>
          /\ signals # 0
      BY <1>0, <1>1 DEF SignalTrap, TrapReturns, QuietInv, TypeOK, ShellTypeOK
    <2>2. CASE CleanupDone
      <3>1. /\ ~work'.tmp /\ work'.origbs = NoFile /\ work'.newbs = NoFile
            /\ work'.esp = {} /\ work'.cap6 = work.cap6
            /\ mounts' = mounts \ {"own"} /\ UNCHANGED <<disk, failures>>
        BY <1>0, <2>2 DEF CleanupDone, WithoutTemp, TypeOK
      <3> QED
        BY <1>0, <2>1, <3>1
           DEF ProgressInv, FilesInv, PipelineInv, CompleteInv, QuietInv, Sound,
               SingleKindOfFault, Installed
    <2>3. CASE CleanupBusy /\ UNCHANGED mounts
      <3>1. pc \in Labels \cup {"exit"} /\ work.tmp
        BY <1>0, <2>3 DEF CleanupBusy, FilesInv, TypeOK, ShellTypeOK
      <3>2. /\ work'.tmp /\ work'.esp = {} /\ work'.cap6 = work.cap6
            /\ work'.mdir = work.mdir /\ disk'.sec6 = disk.sec6
            /\ "own" \in mounts
        BY <1>0, <2>3 DEF CleanupBusy, WithoutTemp, TypeOK
      <3>3. pc \notin {"args", "mktemp"}
        BY <1>0, <3>1 DEF FilesInv, NoWork
      <3>4. SingleKindOfFault' => pc = "exit" /\ ~work.mdir
        BY <1>0, <2>1, <2>3, <3>1, FaultsGrow
           DEF CleanupBusy, SpendFailure, SingleKindOfFault, FilesInv
      <3>5. SingleKindOfFault' => status # "ok"
        BY <1>0, <2>1, <2>3, <3>2, FaultsGrow
           DEF CleanupBusy, SpendFailure, CompleteInv
      <3> QED
        BY <1>0, <2>1, <2>3, <3>1, <3>2, <3>3, <3>4, <3>5
           DEF ProgressInv, FilesInv, PipelineInv, CompleteInv, QuietInv, Sound
    <2> QED
      BY <1>1, <2>2, <2>3 DEF SignalTrap
  <1>2. CASE ExitTrap
    <2>1. /\ pc = "exit" /\ pc' = "idle" /\ ~trapped'
          /\ UNCHANGED <<status, signals, recover, node, saved>>
      BY <1>2 DEF ExitTrap, ExitTrapReturns
    <2>2. CASE CleanupDone
      <3>1. /\ ~work'.tmp /\ work'.origbs = NoFile /\ work'.newbs = NoFile
            /\ work'.esp = {} /\ work'.cap6 = work.cap6
            /\ mounts' = mounts \ {"own"} /\ UNCHANGED <<disk, failures>>
        BY <1>0, <2>2 DEF CleanupDone, WithoutTemp, TypeOK
      <3> QED
        BY <1>0, <2>1, <3>1
           DEF ProgressInv, FilesInv, PipelineInv, CompleteInv, QuietInv, Sound,
               SingleKindOfFault, Installed
    <2>3. CASE CleanupBusy /\ mounts' = LeftBehind
      <3>1. /\ work'.tmp /\ work'.esp = {} /\ work'.cap6 = work.cap6
            /\ disk'.sec6 = disk.sec6 /\ "own" \in mounts
        BY <1>0, <2>3 DEF CleanupBusy, WithoutTemp, TypeOK
      <3>2. "own" \notin mounts'
        BY <2>3 DEF LeftBehind
      <3>3. SingleKindOfFault' => status # "ok"
        BY <1>0, <2>1, <2>3, <3>1, FaultsGrow
           DEF CleanupBusy, SpendFailure, CompleteInv
      <3> QED
        BY <1>0, <2>1, <2>3, <3>1, <3>2, <3>3
           DEF ProgressInv, FilesInv, PipelineInv, CompleteInv, QuietInv, Sound
    <2> QED
      BY <1>2, <2>2, <2>3 DEF ExitTrap
  <1>3. CASE Signal
    <2>1. /\ pc \notin {"idle", "exit"} /\ trapped' /\ signals' = signals + 1
          /\ UNCHANGED <<pc, status, failures>> /\ UNCHANGED toolVars
      BY <1>3 DEF Signal, SignalBetween, SignalArrives
    <2>2. /\ SingleKindOfFault' => SingleKindOfFault
          /\ signals' # 0
      BY <1>0, <2>1, FaultsGrow
    <2> QED
      BY <1>0, <2>1, <2>2
         DEF toolVars, ProgressInv, FilesInv, PipelineInv, CompleteInv, QuietInv,
             Sound, Installed
  <1>4. CASE Crash
    <2>1. /\ pc' = "idle" /\ ~trapped' /\ status' = "killed"
          /\ UNCHANGED <<signals, failures, recover, disk, node, work, saved>>
      BY <1>4 DEF Crash, KilledOutright
    <2>2. "own" \notin mounts'
      BY <1>4 DEF Crash, LeftBehind
    <2> QED
      BY <1>0, <2>1, <2>2
         DEF ProgressInv, FilesInv, PipelineInv, CompleteInv, QuietInv, Sound
  <1>5. CASE NodeVanishes \/ NodeReturns
    BY <1>0, <1>5
       DEF NodeVanishes, NodeReturns, shellVars, ProgressInv, FilesInv, PipelineInv,
           CompleteInv, QuietInv, Sound, SingleKindOfFault, Installed
  <1>6. CASE Replug
    BY <1>0, <1>6
       DEF Replug, shellVars, ProgressInv, FilesInv, PipelineInv, CompleteInv,
           QuietInv, Sound, SingleKindOfFault, Installed
  <1> QED
    BY <1>1, <1>2, <1>3, <1>4, <1>5, <1>6

\* The inductive invariant of the installer.
THEOREM InvariantHolds == Spec => []IndInv
  <1>1. Init => IndInv
    <2> SUFFICES ASSUME Init PROVE ProgressInv
      BY InitTypes DEF IndInv
    <2> QED
      BY DEF Init, ShellInit, ProgressInv, FilesInv, PipelineInv, CompleteInv,
             QuietInv, Sound, SingleKindOfFault, NoWork, Labels, Recovering, Complete,
             TempMade, BackupMade, IsFat, Captured, ToBuildPbr, ToWritePbr, Final,
             MbrSaved, PbrSaved, Boot0Written
  <1>2. ASSUME IndInv, Next PROVE IndInv'
    <2>1. ProgressInv'
      BY <1>2, PreparationKeepsInv, CaptureKeepsInv, BuildKeepsInv, WriteKeepsInv,
         FinishKeepsInv, SurroundingsKeepInv DEF Next
    <2> QED
      BY <1>2, <2>1, ToolStepTypes DEF IndInv
  <1>3. IndInv /\ UNCHANGED vars => IndInv'
    BY DEF vars, shellVars, toolVars, IndInv, ProgressInv, TypeOK, ShellTypeOK,
           FilesInv, PipelineInv, CompleteInv, QuietInv, Sound, SingleKindOfFault,
           Installed
  <1> QED
    BY <1>1, <1>2, <1>3, PTL DEF Spec

\* Status 0 means that boot0, the PBR and the files are on the stick.
THEOREM SuccessIsReal == Spec => []SuccessMeansInstalled
  <1>1. IndInv => SuccessMeansInstalled
    BY DEF IndInv, ProgressInv, CompleteInv, SuccessMeansInstalled
  <1> QED
    BY <1>1, InvariantHolds, PTL

(***************************************************************************)
(* What a step may do to the boot sectors.                                 *)
(***************************************************************************)
\* Only three commands of the script write a boot sector, and each writes the one
\* it is meant to write.
LEMMA SectorWriters ==
    ASSUME TypeOK, Next
    PROVE  /\ disk'.mbr # disk.mbr => pc = "boot0" /\ ~trapped
           /\ disk'.pbr # disk.pbr =>
                \/ pc = "recwrite" /\ ~trapped /\ work.cap6 # NoFile
                   /\ disk'.pbr = work.cap6
                \/ pc = "pbr" /\ ~trapped /\ work.newbs # NoFile
                   /\ disk'.pbr = work.newbs
  <1> USE DEF At, Makes, Writes, toolVars
  <1>1. CASE RecoverPbr
    BY <1>1 DEF TypeOK, RecoverPbr, Run, Command, Succeeds
  <1>2. CASE WriteBoot0
    BY <1>2 DEF TypeOK, WriteBoot0, Succeeds, Fails, SignalKills, SignalArrives
  <1>3. CASE WritePbr
    BY <1>3 DEF TypeOK, WritePbr, Run, Command, Succeeds
  <1>4. CASE \/ Start \/ CheckArguments \/ MakeTemp \/ MakeBackupDir
             \/ unmount_esp("unmount1", "probe") \/ ProbeFilesystem
             \/ SaveBrokenPbr \/ SaveSector6 \/ ProbeRecovered
             \/ CaptureMbr \/ CapturePbr \/ CopyOrigbs \/ CopyNewbs
             \/ PreserveBpb \/ RandomisePbr
    BY <1>4 DEF Start, CheckArguments, MakeTemp, MakeBackupDir, unmount_esp,
                ProbeFilesystem, SaveBrokenPbr, SaveSector6, ProbeRecovered,
                CaptureMbr, CapturePbr, CopyOrigbs, CopyNewbs, PreserveBpb,
                RandomisePbr, Run, Command
  <1>5. CASE \/ wait_for_partition("wait1", "unmount2")
             \/ unmount_esp("unmount2", "pbr")
             \/ wait_for_partition("wait2", "mount")
             \/ MountEsp \/ VerifyFiles \/ UnmountEsp \/ Report
    BY <1>5 DEF wait_for_partition, unmount_esp, MountEsp, VerifyFiles, UnmountEsp,
                Report, Run, Command
  <1>6. CASE CopyBoot
    BY <1>6 DEF TypeOK, CopyBoot, Run, Command
  <1>7. CASE SignalTrap \/ ExitTrap
    BY <1>7 DEF TypeOK, SignalTrap, ExitTrap, CleanupDone, CleanupBusy
  <1>8. CASE Signal \/ Crash \/ NodeVanishes \/ NodeReturns \/ Replug
    BY <1>8 DEF Signal, Crash, NodeVanishes, NodeReturns, Replug
  <1> QED
    BY <1>1, <1>2, <1>3, <1>4, <1>5, <1>6, <1>7, <1>8 DEF Next

\* Unless a signal came, what a boot sector held is in a backup directory when it
\* is overwritten.
THEOREM NothingLost == Spec => OverwrittenIsSaved
  <1>1. ASSUME IndInv, [Next]_vars
        PROVE  [signals = 0 =>
                  /\ disk'.mbr # disk.mbr => disk.mbr \in saved.mbr
                  /\ disk'.pbr # disk.pbr => disk.pbr \in saved.pbr]_vars
    <2>1. CASE Next
      BY <1>1, <2>1, SectorWriters
         DEF IndInv, ProgressInv, QuietInv, MbrSaved, PbrSaved, Captured, ToBuildPbr,
             ToWritePbr
    <2>2. CASE UNCHANGED vars
      BY <2>2
    <2> QED
      BY <1>1, <2>1, <2>2
  <1> QED
    BY <1>1, InvariantHolds, PTL DEF Spec, OverwrittenIsSaved

\* A FAT file system stays recognisable: a boot sector is only overwritten by one
\* that describes the same file system.
THEOREM FatKept == Spec => FatNeverLost
  <1>1. ASSUME IndInv, [Next]_vars
        PROVE  [SingleKindOfFault /\ probe_fstype(disk.pbr) = "vfat"
                  => probe_fstype(disk'.pbr) = "vfat"]_vars
    <2>1. CASE Next
      <3> SUFFICES ASSUME SingleKindOfFault, probe_fstype(disk.pbr) = "vfat",
                          disk'.pbr # disk.pbr
                   PROVE  disk'.pbr.bpb = "disk"
        BY DEF probe_fstype
      <3>1. CASE pc = "recwrite" /\ disk'.pbr = work.cap6 /\ work.cap6 # NoFile
        BY <1>1, <3>1 DEF IndInv, ProgressInv, FilesInv, Recovering
      <3>2. CASE /\ pc = "pbr" /\ ~trapped /\ work.newbs # NoFile
                 /\ disk'.pbr = work.newbs
        <4>1. Sound
          BY <1>1, <3>2 DEF IndInv, ProgressInv, FilesInv, Sound, TypeOK
        <4> QED
          BY <1>1, <3>2, <4>1
             DEF IndInv, ProgressInv, PipelineInv, ToWritePbr, Sector
      <3> QED
        BY <1>1, <2>1, <3>1, <3>2, SectorWriters DEF IndInv
    <2>2. CASE UNCHANGED vars
      BY <2>2
    <2> QED
      BY <1>1, <2>1, <2>2
  <1> QED
    BY <1>1, InvariantHolds, PTL DEF Spec, FatNeverLost
==============================================================================
