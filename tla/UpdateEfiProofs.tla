--------------------------- MODULE UpdateEfiProofs ---------------------------
(***************************************************************************)
(* Proofs about UpdateEfi, for every number of runs, signals and failures. *)
(*                                                                         *)
(* Without a signal a run that is still going has skipped nothing, so each *)
(* label tells how far the ESP is (QuietInv).  That does not say what a    *)
(* run with a signal destroys.  There the mount is what matters: a trap    *)
(* takes the ESP off $ESP_MOUNT, and the script does not put it there      *)
(* again before the tree is rewritten.  So while the ESP is mounted and no *)
(* trap is pending, the backup is not one of the commands skipped          *)
(* (KeptInv).                                                              *)
(***************************************************************************)
EXTENDS UpdateEfi, TLAPS

\* Stages of the script, each the labels it spans.
Removed == {"mkefi", "cpefi", "cpkernels", "cpboot", "check", "umount"}
SavedBoot == {"rm"} \cup Removed
SavedKernels == {"bakboot"} \cup SavedBoot
SavedEfi == {"bakkernels"} \cup SavedKernels
Mounted == {"bakdir", "bakefi"} \cup SavedEfi
Copied == {"check", "umount", "rmdir", "clear", "child"}
Written == {"mktemp2", "mount2", "verify", "umount2", "rmdir2", "clear2", "done"}

\* What holds as long as no signal has come.
QuietInv ==
    signals = 0 =>
        /\ ~trapped
        /\ pc \in Labels => errexit
        /\ pc \in Mounted => work.on
        /\ pc = "mkefi" => esp.efi = "none" /\ esp.kernels = "none"
        /\ pc = "cpefi" => esp.efi = "empty" /\ esp.kernels = "none"
        /\ pc = "cpkernels" => esp.efi = "new" /\ esp.kernels = "none"
        /\ pc = "cpboot" =>
             /\ esp.efi = "new"
             /\ esp.kernels = IF "kernels" \in built THEN "new" ELSE "none"
        /\ pc \in Copied \cup Written => TreeReplaced
        /\ pc \in Written => sectors = "duet"
        /\ status = "ok" /\ ~dry => TreeReplaced /\ sectors = "duet"

IsSaved(p) == esp[p] = "old" => "old" \in saved[p]

\* The old tree is kept before it is rewritten, with signals or with failures.
KeptInv ==
    SingleKindOfFault /\ ~trapped /\ work.on =>
        /\ pc \in {"bakefi", "bakkernels", "bakboot"} => work.bak \/ esp = Nothing
        /\ pc \in SavedEfi => IsSaved("efi")
        /\ pc \in SavedKernels => IsSaved("kernels")
        /\ pc \in SavedBoot => IsSaved("boot")

\* The build has what every build has, a run that ended with 0 has ended, and the
\* trap knows the mount point while the ESP may be mounted there.
FrameInv ==
    /\ {"efi", "boot"} \subseteq built
    /\ status = "ok" => pc \in {"exit", "idle"}
    /\ pc \in {"mount"} \cup Mounted => work.set

ProgressInv == FrameInv /\ QuietInv /\ KeptInv

IndInv == TypeOK /\ ProgressInv

(***************************************************************************)
(* Types.                                                                  *)
(***************************************************************************)
Works == [set : BOOLEAN, dir : BOOLEAN, on : BOOLEAN, bak : BOOLEAN]
Trees == [Parts -> Versions]

ToolTypes ==
    /\ built \subseteq Parts
    /\ dry \in BOOLEAN
    /\ esp \in Trees
    /\ sectors \in {"old", "torn", "duet"}
    /\ work \in Works
    /\ bare \in Trees
    /\ saved \in [Parts -> SUBSET Versions]

\* A move of the shell, in a command or by a signal, keeps its variables in
\* their ranges.
LEMMA MoveTypes ==
    ASSUME NEW l, NEW n \in Labels, NEW possible, ShellTypeOK(Labels),
           \/ Succeeds(l, n) \/ Dies(l) \/ Finishes(l) \/ Fails(l, n, possible)
           \/ SignalBetween \/ SignalKills(l, n) \/ SignalEnds(l)
    PROVE  ShellTypeOK(Labels)'
  <1>1. /\ pc' \in Labels \cup {"idle", "exit"} /\ status' \in Statuses
        /\ errexit' \in BOOLEAN /\ trapped' \in BOOLEAN
    BY DEF ShellTypeOK, Succeeds, Dies, Finishes, Fails, SignalBetween, SignalKills,
           SignalEnds, SignalArrives, ExitWith, Statuses
  <1>2. runs' \in 0..MaxRuns /\ signals' \in 0..MaxSignals /\ failures' \in 0..MaxFailures
    BY BoundsAssumption
       DEF ShellTypeOK, Succeeds, Dies, Finishes, Fails, SpendFailure, SignalBetween,
           SignalKills, SignalEnds, SignalArrives
  <1> QED
    BY <1>1, <1>2 DEF ShellTypeOK

\* So do the start of a run, its traps and its end without any.
LEMMA RunTypes ==
    ASSUME ShellTypeOK(Labels),
           \/ \E l \in Labels : Invoke(l)
           \/ /\ TrapReturns \/ ExitTrapReturns
              /\ SpendFailure \/ UNCHANGED failures
           \/ KilledOutright
    PROVE  ShellTypeOK(Labels)'
  <1>1. /\ pc' \in Labels \cup {"idle", "exit"} /\ status' \in Statuses
        /\ errexit' \in BOOLEAN /\ trapped' \in BOOLEAN
    BY DEF ShellTypeOK, Invoke, TrapReturns, ExitTrapReturns, KilledOutright, Statuses
  <1>2. runs' \in 0..MaxRuns /\ signals' \in 0..MaxSignals /\ failures' \in 0..MaxFailures
    BY BoundsAssumption
       DEF ShellTypeOK, Invoke, TrapReturns, ExitTrapReturns, KilledOutright, SpendFailure
  <1> QED
    BY <1>1, <1>2 DEF ShellTypeOK

\* The stick, the host and the shell start in their ranges.
LEMMA InitTypes == Init => TypeOK
  <1> SUFFICES ASSUME Init PROVE TypeOK
    OBVIOUS
  <1>1. ShellTypeOK(Labels)
    <2>0. ShellInit
      BY DEF Init
    <2>1. pc \in Labels \cup {"idle", "exit"} /\ status \in Statuses
      BY <2>0 DEF ShellInit, Statuses
    <2>2. errexit \in BOOLEAN /\ trapped \in BOOLEAN
      BY <2>0 DEF ShellInit
    <2>3. runs \in 0..MaxRuns /\ signals \in 0..MaxSignals /\ failures \in 0..MaxFailures
      BY <2>0, BoundsAssumption DEF ShellInit
    <2> QED
      BY <2>1, <2>2, <2>3 DEF ShellTypeOK
  <1>2. esp \in Trees /\ bare \in Trees /\ saved \in [Parts -> SUBSET Versions]
    BY DEF Init, Nothing, Trees, Versions, Parts
  <1>3. work \in Works /\ built \subseteq Parts
    BY DEF Init, NoWork, Works, Parts
  <1> QED
    BY <1>1, <1>2, <1>3 DEF Init, TypeOK, Trees, Works

\* A command that succeeds, fails or is killed keeps the shell's types.
LEMMA CommandTypes ==
    ASSUME NEW l, NEW n \in Labels, NEW possible, TypeOK,
           Succeeds(l, n) \/ Fails(l, n, possible) \/ SignalKills(l, n)
    PROVE  ShellTypeOK(Labels)'
  BY MoveTypes DEF TypeOK

\* Every step keeps the types of the shell's variables.
LEMMA ShellStepTypes ==
    ASSUME TypeOK, Next PROVE ShellTypeOK(Labels)'
  <1> USE DEF Labels
  <1>0. ShellTypeOK(Labels)
    BY DEF TypeOK
  <1>1. CASE Start
    BY <1>0, <1>1, RunTypes DEF Start
  <1>2. CASE CheckArguments
    BY <1>0, <1>2, MoveTypes DEF CheckArguments
  <1>3. CASE MakeMountDir("mktemp", "mount") \/ MakeMountDir("mktemp2", "mount2")
    BY <1>0, <1>3, MoveTypes DEF MakeMountDir
  <1>4. CASE Mount("mount", "bakdir") \/ Mount("mount2", "verify") \/ MakeBackupDir
    BY <1>4, CommandTypes DEF Mount, MakeBackupDir, Run, Command
  <1>5. CASE \/ Backup("efi", "bakefi", "bakkernels")
             \/ Backup("kernels", "bakkernels", "bakboot")
             \/ Backup("boot", "bakboot", "rm")
    BY <1>5, CommandTypes DEF Backup, Run, Command
  <1>6. CASE RemoveTrees \/ MakeEfiDir
    BY <1>6, CommandTypes DEF RemoveTrees, MakeEfiDir, Run, Command
  <1>7. CASE CopyEfi \/ CopyBoot
    BY <1>7, CommandTypes DEF CopyEfi, CopyBoot, Command
  <1>8. CASE CopyKernels
    BY <1>8, CommandTypes DEF CopyKernels, Command
  <1>9. CASE CheckCopy
    BY <1>0, <1>9, MoveTypes DEF CheckCopy
  <1>10. CASE Unmount("umount", "rmdir") \/ Unmount("umount2", "rmdir2")
    BY <1>10, CommandTypes DEF Unmount, Run, Command
  <1>11. CASE RemoveMountDir("rmdir", "clear") \/ RemoveMountDir("rmdir2", "clear2")
    BY <1>11, CommandTypes DEF RemoveMountDir, Run, Command
  <1>12. CASE ForgetMount("clear", "child") \/ ForgetMount("clear2", "done")
    BY <1>12, CommandTypes DEF ForgetMount
  <1>13. CASE RunInstaller
    BY <1>13, CommandTypes DEF RunInstaller
  <1>14. CASE Verify
    BY <1>0, <1>14, MoveTypes DEF Verify
  <1>15. CASE Report
    BY <1>0, <1>15, MoveTypes DEF Report
  <1>16. CASE SignalTrap \/ ExitTrap
    BY <1>0, <1>16, RunTypes DEF SignalTrap, ExitTrap, Cleanup
  <1>17. CASE Signal
    BY <1>0, <1>17, MoveTypes DEF Signal
  <1>18. CASE Crash
    BY <1>0, <1>18, RunTypes DEF Crash
  <1> QED
    BY <1>1, <1>2, <1>3, <1>4, <1>5, <1>6, <1>7, <1>8, <1>9, <1>10, <1>11, <1>12,
       <1>13, <1>14, <1>15, <1>16, <1>17, <1>18 DEF Next

\* A tree with one part replaced is a tree.
LEMMA PartReplaced ==
    ASSUME NEW t \in Trees, NEW v \in Versions
    PROVE  /\ [t EXCEPT !.efi = v] \in Trees
           /\ [t EXCEPT !.kernels = v] \in Trees
           /\ [t EXCEPT !.boot = v] \in Trees
           /\ \A p \in Parts : t[p] \in Versions
  BY DEF Trees, Parts

\* Every step keeps the types of the stick's and the host's variables.
LEMMA ToolStepTypes ==
    ASSUME TypeOK, Next PROVE TypeOK'
  <1>0. ToolTypes
    BY DEF TypeOK, ToolTypes, Works, Trees
  <1> SUFFICES ToolTypes'
    BY ShellStepTypes DEF TypeOK, ToolTypes, Works, Trees
  <1>1. ASSUME UNCHANGED toolVars PROVE ToolTypes'
    BY <1>0, <1>1 DEF toolVars, ToolTypes
  <1>2. ASSUME NEW w \in Works, Holds(w) PROVE ToolTypes'
    BY <1>0, <1>2 DEF Holds, ToolTypes
  <1>3. ASSUME NEW t \in Trees, Leaves(t), work' \in Works PROVE ToolTypes'
    BY <1>0, <1>3 DEF Leaves, ToolTypes
  <1>4. Tree \in Trees /\ Nothing \in Trees /\ work \in Works
    BY <1>0 DEF Tree, ToolTypes, Nothing, Trees, Versions
  <1>5. {"none", "empty", "part", "old", "new"} = Versions
    BY DEF Versions
  <1>6. CASE Start
    BY <1>0, <1>4, <1>6 DEF Start, ToolTypes, NoWork, Works
  <1>7. CASE CheckArguments \/ CheckCopy \/ Verify \/ Report \/ Signal \/ Crash
    BY <1>1, <1>7 DEF CheckArguments, CheckCopy, Verify, Report, Signal, Crash
  <1>8. CASE MakeMountDir("mktemp", "mount") \/ MakeMountDir("mktemp2", "mount2")
    BY <1>0, <1>1, <1>4, <1>8 DEF MakeMountDir, ToolTypes, Works
  <1>9. CASE Mount("mount", "bakdir") \/ Mount("mount2", "verify") \/ MakeBackupDir
    BY <1>1, <1>2, <1>4, <1>9 DEF Mount, MakeBackupDir, Run, Command, Works
  <1>10. CASE \/ Backup("efi", "bakefi", "bakkernels")
              \/ Backup("kernels", "bakkernels", "bakboot")
              \/ Backup("boot", "bakboot", "rm")
    <2>1. ASSUME NEW p \in Parts, saved' = [saved EXCEPT ![p] = @ \cup {Tree[p]}],
                 UNCHANGED <<built, dry, esp, sectors, work, bare>>
          PROVE  ToolTypes'
      BY <1>0, <1>4, <2>1 DEF ToolTypes, Trees
    <2> QED
      BY <1>1, <1>10, <2>1 DEF Backup, Run, Command, Parts
  <1>11. CASE RemoveTrees
    <2>1. [Tree EXCEPT !.efi = "none", !.kernels = "none"] \in Trees
      BY <1>4 DEF Trees, Versions
    <2>2. [Parts -> {"none", "part", Tree.efi, Tree.kernels, Tree.boot}] \subseteq Trees
      BY <1>4 DEF Trees, Versions, Parts
    <2> QED
      BY <1>3, <1>4, <1>11, <2>1, <2>2 DEF RemoveTrees, Command
  <1>12. CASE MakeEfiDir
    <2>1. [Tree EXCEPT !.efi = IF @ = "none" THEN "empty" ELSE @] \in Trees
      BY <1>4, <1>5 DEF Trees
    <2>2. [work EXCEPT !.dir = TRUE] \in Works
      BY <1>4 DEF Works
    <2> QED
      BY <1>1, <1>3, <1>12, <2>1, <2>2 DEF MakeEfiDir, Run, Command
  <1>13. CASE CopyEfi \/ CopyBoot
    <2>1. /\ [Tree EXCEPT !.efi = IF @ = "empty" THEN "new" ELSE "part"] \in Trees
          /\ [Tree EXCEPT !.efi = "part"] \in Trees
          /\ [Tree EXCEPT !.boot = "new"] \in Trees
          /\ [Tree EXCEPT !.boot = "part"] \in Trees
      BY <1>4, <1>5 DEF Trees
    <2> QED
      BY <1>1, <1>3, <1>4, <1>13, <2>1 DEF CopyEfi, CopyBoot, Command, toolVars
  <1>14. CASE CopyKernels
    <2>1. /\ [Tree EXCEPT !.kernels = IF @ = "none" THEN "new" ELSE "part"] \in Trees
          /\ [Tree EXCEPT !.kernels = "part"] \in Trees
      BY <1>4, <1>5 DEF Trees
    <2>2. [work EXCEPT !.dir = TRUE] \in Works
      BY <1>4 DEF Works
    <2> QED
      BY <1>1, <1>3, <1>14, <2>1, <2>2 DEF CopyKernels, Command
  <1>15. CASE \/ Unmount("umount", "rmdir") \/ Unmount("umount2", "rmdir2")
              \/ RemoveMountDir("rmdir", "clear") \/ RemoveMountDir("rmdir2", "clear2")
              \/ ForgetMount("clear", "child") \/ ForgetMount("clear2", "done")
    BY <1>1, <1>2, <1>4, <1>15
       DEF Unmount, RemoveMountDir, ForgetMount, Run, Command, Works
  <1>16. CASE RunInstaller
    <2>1. Touched \cup {Nothing} \subseteq Trees /\ [esp EXCEPT !.boot = "new"] \in Trees
      BY <1>0, <1>4, <1>5 DEF Touched, ToolTypes, Trees, Parts
    <2>2. AllCode \cup {"duet"} \subseteq {"old", "torn", "duet"}
      BY <1>0 DEF AllCode, ToolTypes
    <2> QED
      BY <1>0, <1>16, <2>1, <2>2 DEF RunInstaller, ChildEnds, ToolTypes
  <1>17. CASE SignalTrap \/ ExitTrap
    BY <1>0, <1>4, <1>17 DEF SignalTrap, ExitTrap, Cleanup, ToolTypes, Works
  <1> QED
    BY <1>6, <1>7, <1>8, <1>9, <1>10, <1>11, <1>12, <1>13, <1>14, <1>15, <1>16, <1>17
       DEF Next

\* Type correctness of the EFI updater.
THEOREM TypesHold == Spec => []TypeOK
  <1>1. TypeOK /\ UNCHANGED vars => TypeOK'
    BY DEF vars, shellVars, toolVars, TypeOK, ShellTypeOK
  <1> QED
    BY <1>1, InitTypes, ToolStepTypes, PTL DEF Spec

(***************************************************************************)
(* The invariant.  First the outcomes that all commands share.             *)
(***************************************************************************)

\* The fault counters only grow.
LEMMA FaultsGrow ==
    ASSUME TypeOK,
           signals' = signals \/ signals' = signals + 1,
           failures' = failures \/ failures' = failures + 1
    PROVE  /\ SingleKindOfFault' => SingleKindOfFault
           /\ signals' = 0 => signals = 0
           /\ signals' = signals + 1 => signals' # 0
           /\ failures' = failures + 1 => failures' # 0
  BY BoundsAssumption DEF TypeOK, ShellTypeOK, SingleKindOfFault

\* A command that fails, is killed or ends the script, whatever it has done to the
\* ESP until then, leaves no run without a signal going on.
LEMMA StopKeepsQuiet ==
    ASSUME IndInv, NEW l \in Labels, NEW n, NEW possible,
           Fails(l, n, possible) \/ SignalKills(l, n) \/ Dies(l) \/ SignalEnds(l)
    PROVE  QuietInv'
  <1>1. /\ pc = l /\ status # "ok"
        /\ signals' = signals \/ signals' = signals + 1
        /\ failures' = failures \/ failures' = failures + 1
    BY DEF Fails, SignalKills, Dies, SignalEnds, SignalArrives, SpendFailure, At, IndInv,
           ProgressInv, FrameInv, Labels
  <1>2. signals' = 0 => signals = 0 /\ signals' # signals + 1
    BY <1>1, FaultsGrow DEF IndInv
  <1>3. signals' = 0 => pc' = "exit" /\ status' = "error" /\ ~trapped'
    BY <1>1, <1>2
       DEF Fails, SignalKills, Dies, SignalEnds, SignalArrives, ExitWith, At, IndInv,
           ProgressInv, QuietInv
  <1> QED
    BY <1>3 DEF QuietInv, Labels, Mounted, SavedEfi, SavedKernels, SavedBoot, Removed,
                Copied, Written

\* The same for the backup: with signals only, what fails lacks what it needs, and
\* then the ESP is not mounted or nothing is changed.
LEMMA StopKeepsKept ==
    ASSUME IndInv, NEW l \in Labels, NEW n, NEW possible \in BOOLEAN,
           Fails(l, n, possible) \/ SignalKills(l, n) \/ Dies(l) \/ SignalEnds(l),
           \/ possible
           \/ ~work'.on \/ (~work.on /\ work'.on = work.on)
           \/ n \notin {"bakefi"} \cup SavedEfi
           \/ /\ l \in Removed /\ n \in Removed
              /\ UNCHANGED <<esp, saved, work>>
    PROVE  KeptInv'
  <1> USE DEF SavedEfi, SavedKernels, SavedBoot, Removed
  <1>1. /\ pc = l /\ ~trapped
        /\ signals' = signals \/ signals' = signals + 1
        /\ failures' = failures \/ failures' = failures + 1
    BY DEF Fails, SignalKills, Dies, SignalEnds, SignalArrives, SpendFailure, At
  <1>2. /\ SingleKindOfFault' => SingleKindOfFault
        /\ failures' = failures + 1 => failures' # 0
        /\ signals' = 0 => signals = 0
    BY <1>1, FaultsGrow DEF IndInv
  <1>3. CASE SignalKills(l, n)
    BY <1>3 DEF KeptInv, SignalKills, SignalArrives
  <1>4. CASE Dies(l) \/ SignalEnds(l)
    BY <1>4 DEF KeptInv, Dies, SignalEnds, ExitWith
  <1>5. CASE Fails(l, n, possible) /\ errexit
    BY <1>5 DEF KeptInv, Fails, ExitWith
  <1>6. CASE Fails(l, n, possible) /\ ~errexit
    <2>1. signals # 0 /\ signals' = signals /\ pc' = n
      BY <1>1, <1>6 DEF IndInv, ProgressInv, QuietInv, Fails
    <2>2. CASE possible
      <3>1. ~SingleKindOfFault'
        BY <1>2, <1>6, <2>1, <2>2 DEF Fails, SpendFailure, SingleKindOfFault
      <3> QED
        BY <3>1 DEF KeptInv
    <2>3. CASE ~work'.on \/ n \notin {"bakefi"} \cup SavedEfi
      BY <2>1, <2>3 DEF KeptInv
    <2>4. CASE l \in Removed /\ n \in Removed /\ UNCHANGED <<esp, saved, work>>
      BY <1>1, <1>2, <2>1, <2>4 DEF IndInv, ProgressInv, KeptInv, IsSaved
    <2> QED
      BY <2>2, <2>3, <2>4
  <1> QED
    BY <1>3, <1>4, <1>5, <1>6

\* A command that fails, is killed or ends the script keeps the rest as well, if it
\* keeps the build and the mount point's name.
LEMMA StopKeepsFrame ==
    ASSUME IndInv, NEW l \in Labels, NEW n \in Labels, NEW possible,
           Fails(l, n, possible) \/ SignalKills(l, n) \/ Dies(l) \/ SignalEnds(l),
           built' = built, work'.set = work.set,
           n \in {"mount"} \cup Mounted => l \in {"mount"} \cup Mounted
    PROVE  FrameInv'
  <1>1. pc = l /\ pc' \in {n, "exit"} /\ status' \in {status, "error"} /\ status # "ok"
    BY DEF Fails, SignalKills, Dies, SignalEnds, SignalArrives, ExitWith, At, IndInv,
           ProgressInv, FrameInv, Labels
  <1> QED
    BY <1>1 DEF IndInv, ProgressInv, FrameInv, Mounted, SavedEfi, SavedKernels, SavedBoot,
                Removed

\* A command that succeeds leaves the faults, the trap and errexit as they are.
LEMMA SuccessFrame ==
    ASSUME IndInv, NEW l \in Labels, NEW n \in Labels, Succeeds(l, n)
    PROVE  /\ pc = l /\ pc' = n /\ ~trapped /\ status # "ok"
           /\ (SingleKindOfFault' <=> SingleKindOfFault)
           /\ UNCHANGED <<errexit, trapped, status, runs, signals, failures>>
  BY DEF Succeeds, At, SingleKindOfFault, IndInv, ProgressInv, FrameInv, Labels

\* The types of the trees, and which of them the script sees.
LEMMA TreeTypes ==
    ASSUME IndInv
    PROVE  /\ esp \in Trees /\ bare \in Trees /\ work \in Works /\ Tree \in Trees
           /\ saved \in [Parts -> SUBSET Versions]
           /\ work.on => Tree = esp
  BY DEF IndInv, TypeOK, Trees, Works, Tree

\* Starting, the guards and the mount point.
LEMMA PreparationKeepsInv ==
    ASSUME IndInv,
           \/ Start \/ CheckArguments
           \/ MakeMountDir("mktemp", "mount") \/ Mount("mount", "bakdir")
    PROVE  ProgressInv'
  <1> USE DEF Labels, SavedEfi, SavedKernels, SavedBoot, Removed, Mounted, Copied, Written
  <1>0. TypeOK /\ FrameInv /\ QuietInv /\ KeptInv /\ work \in Works
    BY TreeTypes DEF IndInv, ProgressInv
  <1>1. CASE Start
    BY <1>0, <1>1 DEF Start, Invoke, ProgressInv, FrameInv, QuietInv, KeptInv, TypeOK, ShellTypeOK
  <1>2. ASSUME NEW l \in {"args", "mktemp"}, Dies(l) \/ SignalEnds(l), UNCHANGED toolVars
        PROVE  ProgressInv'
    <2>1. QuietInv'
      BY <1>2, StopKeepsQuiet
    <2>2. KeptInv'
      BY <1>2, StopKeepsKept
    <2>3. FrameInv'
      BY <1>2, StopKeepsFrame DEF toolVars
    <2> QED
      BY <2>1, <2>2, <2>3 DEF ProgressInv
  <1>3. CASE CheckArguments
    <2>1. CASE Succeeds("args", "mktemp") /\ UNCHANGED toolVars
      BY <1>0, <2>1, SuccessFrame DEF ProgressInv, FrameInv, QuietInv, KeptInv, toolVars
    <2>2. CASE dry /\ Finishes("args") /\ UNCHANGED toolVars
      BY <1>0, <2>2
         DEF ProgressInv, FrameInv, QuietInv, KeptInv, toolVars, Finishes, ExitWith, At
    <2> QED
      BY <1>2, <1>3, <2>1, <2>2 DEF CheckArguments
  <1>4. CASE MakeMountDir("mktemp", "mount")
    <2>1. CASE /\ Succeeds("mktemp", "mount")
               /\ work' = [work EXCEPT !.set = TRUE, !.dir = TRUE, !.on = FALSE]
               /\ UNCHANGED <<built, dry, esp, sectors, saved>>
      BY <1>0, <2>1, SuccessFrame DEF ProgressInv, FrameInv, QuietInv, KeptInv, Works
    <2> QED
      BY <1>2, <1>4, <2>1 DEF MakeMountDir
  <1>5. CASE Mount("mount", "bakdir")
    <2>1. CASE Succeeds("mount", "bakdir") /\ Holds([work EXCEPT !.on = TRUE])
      BY <1>0, <2>1, SuccessFrame DEF Holds, ProgressInv, FrameInv, QuietInv, KeptInv, Works
    <2>2. CASE /\ Fails("mount", "bakdir", work.dir) \/ SignalKills("mount", "bakdir")
               /\ UNCHANGED toolVars
      <3>1. work.dir \in BOOLEAN
        BY <1>0 DEF Works
      <3>2. QuietInv' /\ KeptInv' /\ FrameInv'
        BY <2>2, <3>1, StopKeepsQuiet, StopKeepsKept, StopKeepsFrame DEF toolVars
      <3> QED
        BY <3>2 DEF ProgressInv
    <2> QED
      BY <1>5, <2>1, <2>2 DEF Mount, Run, Command
  <1> QED
    BY <1>1, <1>3, <1>4, <1>5

\* The backup: a part that is there is copied, if the directory could be made.
LEMMA BackupKeepsInv ==
    ASSUME IndInv,
           \/ MakeBackupDir
           \/ Backup("efi", "bakefi", "bakkernels")
           \/ Backup("kernels", "bakkernels", "bakboot")
           \/ Backup("boot", "bakboot", "rm")
    PROVE  ProgressInv'
  <1> USE DEF Labels, SavedEfi, SavedKernels, SavedBoot, Removed, Mounted, Copied, Written
  <1>0. TypeOK /\ FrameInv /\ QuietInv /\ KeptInv
    BY DEF IndInv, ProgressInv
  <1>1. /\ work \in Works /\ Tree \in Trees /\ (work.on => Tree = esp)
        /\ saved \in [Parts -> SUBSET Versions]
    BY TreeTypes
  <1>2. CASE MakeBackupDir
    <2>1. CASE Tree = Nothing /\ Succeeds("bakdir", "bakefi") /\ UNCHANGED toolVars
      BY <1>0, <1>1, <2>1, SuccessFrame
         DEF ProgressInv, FrameInv, QuietInv, KeptInv, toolVars
    <2>2. CASE Succeeds("bakdir", "bakefi") /\ Holds([work EXCEPT !.bak = TRUE])
      BY <1>0, <1>1, <2>2, SuccessFrame
         DEF Holds, ProgressInv, FrameInv, QuietInv, KeptInv, Works
    <2>3. CASE /\ Fails("bakdir", "bakefi", TRUE) \/ SignalKills("bakdir", "bakefi")
               /\ UNCHANGED toolVars
      <3>1. QuietInv' /\ KeptInv' /\ FrameInv'
        BY <2>3, StopKeepsQuiet, StopKeepsKept, StopKeepsFrame DEF toolVars
      <3> QED
        BY <3>1 DEF ProgressInv
    <2> QED
      BY <1>2, <2>1, <2>2, <2>3 DEF MakeBackupDir, Run, Command
  <1>3. ASSUME NEW p \in Parts, NEW l \in {"bakefi", "bakkernels", "bakboot"},
               NEW n \in {"bakkernels", "bakboot", "rm"}, Backup(p, l, n),
               <<p, l, n>> \in {<<"efi", "bakefi", "bakkernels">>,
                                <<"kernels", "bakkernels", "bakboot">>,
                                <<"boot", "bakboot", "rm">>}
        PROVE  ProgressInv'
    <2>1. CASE Tree[p] = "none" /\ Succeeds(l, n) /\ UNCHANGED toolVars
      <3>1. pc = l /\ pc' = n /\ ~trapped /\ status # "ok"
            /\ UNCHANGED <<errexit, trapped, status, signals>>
            /\ (SingleKindOfFault' <=> SingleKindOfFault)
        BY <2>1, SuccessFrame
      <3>2. FrameInv' /\ QuietInv'
        BY <1>0, <1>3, <2>1, <3>1 DEF FrameInv, QuietInv, toolVars
      <3>3. KeptInv'
        BY <1>0, <1>1, <1>3, <2>1, <3>1 DEF KeptInv, IsSaved, toolVars
      <3> QED
        BY <3>2, <3>3 DEF ProgressInv
    <2>2. CASE /\ Succeeds(l, n) /\ saved' = [saved EXCEPT ![p] = @ \cup {Tree[p]}]
               /\ UNCHANGED <<built, dry, esp, sectors, work, bare>>
      <3>1. pc = l /\ pc' = n /\ ~trapped /\ status # "ok"
            /\ UNCHANGED <<errexit, trapped, status, signals>>
            /\ (SingleKindOfFault' <=> SingleKindOfFault)
        BY <2>2, SuccessFrame
      <3>2. FrameInv' /\ QuietInv'
        BY <1>0, <1>3, <2>2, <3>1 DEF FrameInv, QuietInv
      <3>3. \A q \in Parts : saved[q] \subseteq saved'[q]
        BY <1>1, <2>2
      <3>4. work.on => (IsSaved(p))'
        BY <1>1, <2>2 DEF IsSaved
      <3>5. KeptInv'
        BY <1>0, <1>3, <2>2, <3>1, <3>3, <3>4 DEF KeptInv, IsSaved, Parts
      <3> QED
        BY <3>2, <3>5 DEF ProgressInv
    <2>3. CASE /\ Tree[p] # "none"
               /\ Fails(l, n, work.bak) \/ SignalKills(l, n)
               /\ UNCHANGED toolVars
      <3>1. work.bak \in BOOLEAN
        BY <1>1 DEF Works
      <3>2. QuietInv' /\ FrameInv'
        BY <1>3, <2>3, <3>1, StopKeepsQuiet, StopKeepsFrame DEF toolVars
      <3>3. CASE work.bak \/ ~work.on
        <4>1. KeptInv'
          BY <1>3, <2>3, <3>1, <3>3, StopKeepsKept DEF toolVars
        <4> QED
          BY <3>2, <4>1 DEF ProgressInv
      <3>4. CASE ~work.bak /\ work.on
        <4>1. Tree # Nothing
          BY <1>3, <2>3 DEF Nothing
        <4>2. ~SingleKindOfFault
          BY <1>0, <1>1, <2>3, <3>4, <4>1
             DEF KeptInv, Fails, SignalKills, SignalArrives, At
        <4>3. /\ signals' = signals \/ signals' = signals + 1
              /\ failures' = failures \/ failures' = failures + 1
          BY <2>3 DEF Fails, SignalKills, SignalArrives, SpendFailure
        <4>4. KeptInv'
          BY <1>0, <4>2, <4>3, FaultsGrow DEF KeptInv
        <4> QED
          BY <3>2, <4>4 DEF ProgressInv
      <3> QED
        BY <3>3, <3>4
    <2> QED
      BY <1>3, <2>1, <2>2, <2>3 DEF Backup, Run, Command
  <1> QED
    BY <1>2, <1>3 DEF Parts

\* A command that rewrites the tree once it is saved puts nothing old there.
LEMMA RewriteKeepsKept ==
    ASSUME IndInv, NEW l \in SavedBoot, NEW n \in Removed \cup {"rmdir"}, Succeeds(l, n),
           \A p \in Parts : esp'[p] = "old" => esp[p] = "old",
           saved' = saved, work'.on => work.on
    PROVE  KeptInv'
  <1> USE DEF Labels, SavedEfi, SavedKernels, SavedBoot, Removed, Mounted
  <1>1. /\ pc = l /\ pc' = n /\ ~trapped
        /\ (SingleKindOfFault' <=> SingleKindOfFault) /\ trapped' = trapped
    BY SuccessFrame
  <1>2. KeptInv
    BY DEF IndInv, ProgressInv
  <1> QED
    BY <1>1, <1>2 DEF KeptInv, IsSaved, Parts

\* Likewise for the other parts of the invariant that do not look at the tree.
LEMMA RewriteKeepsFrame ==
    ASSUME IndInv, NEW l \in SavedBoot, NEW n \in Removed \cup {"rmdir"}, Succeeds(l, n),
           built' = built, work'.set = work.set
    PROVE  FrameInv'
  <1> USE DEF Labels, SavedEfi, SavedKernels, SavedBoot, Removed, Mounted
  <1>1. pc = l /\ pc' = n /\ status' = status /\ status # "ok"
    BY SuccessFrame
  <1> QED
    BY <1>1 DEF IndInv, ProgressInv, FrameInv

\* A rewriting command that is cut short.
LEMMA CutKeepsInv ==
    ASSUME IndInv, NEW l \in SavedBoot, NEW n \in Removed \cup {"rmdir"},
           NEW possible \in BOOLEAN,
           Fails(l, n, possible) \/ SignalKills(l, n) \/ Dies(l) \/ SignalEnds(l),
           built' = built, work'.set = work.set, work'.on = work.on,
           possible \/ ~work.on \/ n = "rmdir"
             \/ (l \in Removed /\ UNCHANGED <<esp, saved, work>>)
    PROVE  ProgressInv'
  <1> USE DEF Labels, SavedEfi, SavedKernels, SavedBoot, Removed, Mounted
  <1>1. QuietInv' /\ FrameInv'
    BY StopKeepsQuiet, StopKeepsFrame
  <1>2. KeptInv'
    BY StopKeepsKept
  <1> QED
    BY <1>1, <1>2 DEF ProgressInv

\* rm -rf of the old tree and mkdir of the new one.
LEMMA RemoveKeepsInv ==
    ASSUME IndInv, RemoveTrees \/ MakeEfiDir
    PROVE  ProgressInv'
  <1> USE DEF Labels, SavedEfi, SavedKernels, SavedBoot, Removed, Mounted, Copied, Written
  <1>0. TypeOK /\ FrameInv /\ QuietInv /\ KeptInv
    BY DEF IndInv, ProgressInv
  <1>1. /\ work \in Works /\ Tree \in Trees /\ (work.on => Tree = esp) /\ esp \in Trees
    BY TreeTypes
  <1>2. CASE RemoveTrees
    <2>1. work' = work
      BY <1>2 DEF RemoveTrees
    <2>2. CASE /\ Succeeds("rm", "mkefi")
               /\ Leaves([Tree EXCEPT !.efi = "none", !.kernels = "none"])
      <3>1. /\ pc = "rm" /\ pc' = "mkefi" /\ ~trapped /\ status # "ok"
            /\ UNCHANGED <<errexit, trapped, status, signals>>
        BY <2>2, SuccessFrame
      <3>2. /\ built' = built /\ saved' = saved
            /\ \A p \in Parts : esp'[p] = "old" => esp[p] = "old"
            /\ work.on => esp'.efi = "none" /\ esp'.kernels = "none"
        BY <1>1, <2>2 DEF Leaves, Trees, Parts
      <3>3. QuietInv'
        BY <1>0, <2>1, <3>1, <3>2 DEF QuietInv
      <3> QED
        BY <2>1, <2>2, <3>2, <3>3, RewriteKeepsKept, RewriteKeepsFrame DEF ProgressInv
    <2>3. CASE (Fails("rm", "mkefi", TRUE) \/ SignalKills("rm", "mkefi")) /\ built' = built
      BY <2>1, <2>3, CutKeepsInv
    <2> QED
      BY <1>2, <2>2, <2>3 DEF RemoveTrees, Command, Leaves
  <1>3. CASE MakeEfiDir
    <2>1. CASE /\ Succeeds("mkefi", "cpefi")
               /\ work' = [work EXCEPT !.dir = TRUE]
               /\ Leaves([Tree EXCEPT !.efi = IF @ = "none" THEN "empty" ELSE @])
      <3>1. /\ pc = "mkefi" /\ pc' = "cpefi" /\ ~trapped /\ status # "ok"
            /\ UNCHANGED <<errexit, trapped, status, signals>>
        BY <2>1, SuccessFrame
      <3>2. /\ built' = built /\ saved' = saved
            /\ \A p \in Parts : esp'[p] = "old" => esp[p] = "old"
            /\ work.on => /\ esp.efi = "none" => esp'.efi = "empty"
                          /\ esp'.kernels = esp.kernels
        BY <1>1, <2>1 DEF Leaves, Trees, Parts
      <3>3. work'.on = work.on /\ work'.set = work.set
        BY <1>1, <2>1 DEF Works
      <3>4. QuietInv'
        BY <1>0, <3>1, <3>2, <3>3 DEF QuietInv
      <3> QED
        BY <2>1, <3>2, <3>3, <3>4, RewriteKeepsKept, RewriteKeepsFrame DEF ProgressInv
    <2>2. CASE /\ Fails("mkefi", "cpefi", TRUE) \/ SignalKills("mkefi", "cpefi")
               /\ UNCHANGED toolVars
      BY <2>2, CutKeepsInv DEF toolVars
    <2> QED
      BY <1>3, <2>1, <2>2 DEF MakeEfiDir, Run, Command
  <1> QED
    BY <1>2, <1>3

\* The copies of EFI, Kernels and boot.
LEMMA CopyKeepsInv ==
    ASSUME IndInv, CopyEfi \/ CopyKernels \/ CopyBoot
    PROVE  ProgressInv'
  <1> USE DEF Labels, SavedEfi, SavedKernels, SavedBoot, Removed, Mounted, Copied, Written
  <1>0. TypeOK /\ FrameInv /\ QuietInv /\ KeptInv
    BY DEF IndInv, ProgressInv
  <1>1. /\ work \in Works /\ Tree \in Trees /\ (work.on => Tree = esp) /\ esp \in Trees
    BY TreeTypes
  <1>2. CASE CopyEfi
    <2>1. work' = work
      BY <1>2 DEF CopyEfi
    <2>2. CASE /\ Succeeds("cpefi", "cpkernels")
               /\ Leaves([Tree EXCEPT !.efi = IF @ = "empty" THEN "new" ELSE "part"])
      <3>1. /\ pc = "cpefi" /\ pc' = "cpkernels" /\ ~trapped /\ status # "ok"
            /\ UNCHANGED <<errexit, trapped, status, signals>>
        BY <2>2, SuccessFrame
      <3>2. /\ built' = built /\ saved' = saved
            /\ \A p \in Parts : esp'[p] = "old" => esp[p] = "old"
            /\ work.on => /\ esp.efi = "empty" => esp'.efi = "new"
                          /\ esp'.kernels = esp.kernels
        BY <1>1, <2>2 DEF Leaves, Trees, Parts
      <3>3. QuietInv'
        BY <1>0, <2>1, <3>1, <3>2 DEF QuietInv
      <3> QED
        BY <2>1, <2>2, <3>2, <3>3, RewriteKeepsKept, RewriteKeepsFrame DEF ProgressInv
    <2>3. CASE /\ Fails("cpefi", "cpkernels", Tree.efi # "none")
                    \/ SignalKills("cpefi", "cpkernels")
               /\ built' = built /\ saved' = saved
               /\ Tree.efi = "none" => esp' = esp
      BY <2>1, <2>3, CutKeepsInv
    <2> QED
      BY <1>2, <2>2, <2>3 DEF CopyEfi, Command, Leaves
  <1>3. CASE CopyKernels
    <2>1. CASE "kernels" \notin built /\ Succeeds("cpkernels", "cpboot") /\ UNCHANGED toolVars
      <3>1. /\ pc = "cpkernels" /\ pc' = "cpboot" /\ ~trapped /\ status # "ok"
            /\ UNCHANGED <<errexit, trapped, status, signals>>
        BY <2>1, SuccessFrame
      <3>2. QuietInv'
        BY <1>0, <2>1, <3>1 DEF QuietInv, toolVars
      <3>3. KeptInv' /\ FrameInv'
        BY <2>1, RewriteKeepsKept, RewriteKeepsFrame DEF toolVars
      <3> QED
        BY <3>2, <3>3 DEF ProgressInv
    <2>2. CASE /\ "kernels" \in built /\ Succeeds("cpkernels", "cpboot")
               /\ work' = [work EXCEPT !.dir = TRUE]
               /\ Leaves([Tree EXCEPT !.kernels = IF @ = "none" THEN "new" ELSE "part"])
      <3>1. /\ pc = "cpkernels" /\ pc' = "cpboot" /\ ~trapped /\ status # "ok"
            /\ UNCHANGED <<errexit, trapped, status, signals>>
        BY <2>2, SuccessFrame
      <3>2. /\ built' = built /\ saved' = saved
            /\ \A p \in Parts : esp'[p] = "old" => esp[p] = "old"
            /\ work.on => /\ esp.kernels = "none" => esp'.kernels = "new"
                          /\ esp'.efi = esp.efi
        BY <1>1, <2>2 DEF Leaves, Trees, Parts
      <3>3. work'.on = work.on /\ work'.set = work.set
        BY <1>1, <2>2 DEF Works
      <3>4. QuietInv'
        BY <1>0, <2>2, <3>1, <3>2, <3>3 DEF QuietInv
      <3> QED
        BY <2>2, <3>2, <3>3, <3>4, RewriteKeepsKept, RewriteKeepsFrame DEF ProgressInv
    <2>3. CASE /\ Fails("cpkernels", "cpboot", TRUE) \/ SignalKills("cpkernels", "cpboot")
               /\ built' = built /\ work' \in {work, [work EXCEPT !.dir = TRUE]}
      <3>1. work'.on = work.on /\ work'.set = work.set
        BY <1>1, <2>3 DEF Works
      <3> QED
        BY <2>3, <3>1, CutKeepsInv
    <2> QED
      BY <1>3, <2>1, <2>2, <2>3 DEF CopyKernels, Command, Leaves, toolVars
  <1>4. CASE CopyBoot
    <2>1. work' = work
      BY <1>4 DEF CopyBoot
    <2>2. CASE Succeeds("cpboot", "check") /\ Leaves([Tree EXCEPT !.boot = "new"])
      <3>1. /\ pc = "cpboot" /\ pc' = "check" /\ ~trapped /\ status # "ok"
            /\ UNCHANGED <<errexit, trapped, status, signals>>
        BY <2>2, SuccessFrame
      <3>2. /\ built' = built /\ saved' = saved
            /\ \A p \in Parts : esp'[p] = "old" => esp[p] = "old"
            /\ work.on => /\ esp'.boot = "new"
                          /\ esp'.kernels = esp.kernels /\ esp'.efi = esp.efi
        BY <1>1, <2>2 DEF Leaves, Trees, Parts
      <3>3. QuietInv'
        BY <1>0, <2>1, <3>1, <3>2 DEF QuietInv, FrameInv, TreeReplaced, Parts
      <3> QED
        BY <2>1, <2>2, <3>2, <3>3, RewriteKeepsKept, RewriteKeepsFrame DEF ProgressInv
    <2>3. CASE /\ Fails("cpboot", "check", work.on \/ work.dir)
                    \/ SignalKills("cpboot", "check")
               /\ built' = built
      BY <2>1, <2>3, CutKeepsInv
    <2> QED
      BY <1>4, <2>2, <2>3 DEF CopyBoot, Command, Leaves
  <1> QED
    BY <1>2, <1>3, <1>4

\* Commands after the copy that leave the ESP and the boot sectors alone.
LEMMA LaterKeepsInv ==
    ASSUME IndInv, NEW l \in Copied \cup Written, NEW n \in Copied \cup Written,
           NEW possible \in BOOLEAN,
           n \notin Mounted, l \in Written <=> n \in Written,
           \/ Succeeds(l, n) \/ Fails(l, n, possible) \/ SignalKills(l, n)
           \/ Dies(l) \/ SignalEnds(l),
           UNCHANGED <<built, esp, sectors>>
    PROVE  ProgressInv'
  <1> USE DEF Labels, SavedEfi, SavedKernels, SavedBoot, Removed, Mounted, Copied, Written
  <1>0. TypeOK /\ FrameInv /\ QuietInv /\ KeptInv
    BY DEF IndInv, ProgressInv
  <1>1. CASE Succeeds(l, n)
    <2>1. /\ pc = l /\ pc' = n /\ ~trapped /\ status # "ok"
          /\ UNCHANGED <<errexit, trapped, status, signals>>
      BY <1>1, SuccessFrame
    <2>2. TreeReplaced' <=> TreeReplaced
      BY DEF TreeReplaced
    <2> QED
      BY <1>0, <2>1, <2>2 DEF ProgressInv, FrameInv, QuietInv, KeptInv
  <1>2. CASE Fails(l, n, possible) \/ SignalKills(l, n) \/ Dies(l) \/ SignalEnds(l)
    <2>0. l \in Labels /\ n \notin {"bakefi"} \cup SavedEfi
      OBVIOUS
    <2>1. QuietInv' /\ KeptInv'
      <3> HIDE DEF Labels, SavedEfi, SavedKernels, SavedBoot, Removed, Mounted, Copied, Written
      <3>1. QuietInv'
        BY <1>2, <2>0, StopKeepsQuiet
      <3>2. KeptInv'
        BY <1>2, <2>0, StopKeepsKept
      <3> QED
        BY <3>1, <3>2
    <2>2. pc = l /\ pc' \in {n, "exit"} /\ status' \in {status, "error"} /\ status # "ok"
      BY <1>0, <1>2
         DEF Fails, SignalKills, Dies, SignalEnds, SignalArrives, ExitWith, At, FrameInv
    <2>3. FrameInv'
      BY <1>0, <2>2 DEF FrameInv
    <2> QED
      BY <2>1, <2>3 DEF ProgressInv
  <1> QED
    BY <1>1, <1>2

\* The check of the copy, and the mount point taken away.
LEMMA FinishCopyKeepsInv ==
    ASSUME IndInv,
           \/ CheckCopy \/ Unmount("umount", "rmdir") \/ RemoveMountDir("rmdir", "clear")
           \/ ForgetMount("clear", "child")
    PROVE  ProgressInv'
  <1> USE DEF Labels, SavedEfi, SavedKernels, SavedBoot, Removed, Mounted, Copied, Written
  <1>0. TypeOK /\ FrameInv /\ QuietInv /\ KeptInv /\ work \in Works
    BY TreeTypes DEF IndInv, ProgressInv
  <1>1. CASE CheckCopy
    <2>1. CASE Succeeds("check", "umount") /\ UNCHANGED toolVars
      <3>1. /\ pc = "check" /\ pc' = "umount" /\ ~trapped /\ status # "ok"
            /\ UNCHANGED <<errexit, trapped, status, signals>>
        BY <2>1, SuccessFrame
      <3>2. QuietInv'
        BY <1>0, <2>1, <3>1 DEF QuietInv, toolVars, TreeReplaced
      <3>3. KeptInv' /\ FrameInv'
        BY <2>1, RewriteKeepsKept, RewriteKeepsFrame DEF toolVars
      <3> QED
        BY <3>2, <3>3 DEF ProgressInv
    <2>2. CASE Dies("check") /\ UNCHANGED toolVars
      BY <2>2, CutKeepsInv DEF toolVars
    <2> QED
      BY <1>1, <2>1, <2>2 DEF CheckCopy
  <1>2. work.on \in BOOLEAN /\ (work.dir /\ ~work.on /\ bare = Nothing) \in BOOLEAN
    BY <1>0 DEF Works
  <1>3. CASE Unmount("umount", "rmdir")
    BY <1>2, <1>3, LaterKeepsInv DEF Unmount, Run, Command, Holds, toolVars
  <1>4. CASE RemoveMountDir("rmdir", "clear")
    BY <1>2, <1>4, LaterKeepsInv DEF RemoveMountDir, Run, Command, Holds, toolVars
  <1>5. CASE ForgetMount("clear", "child")
    BY <1>5, LaterKeepsInv DEF ForgetMount, Holds
  <1> QED
    BY <1>1, <1>3, <1>4, <1>5

\* The boot sector installer runs on the tree that was copied.
LEMMA InstallerKeepsInv ==
    ASSUME IndInv, RunInstaller
    PROVE  ProgressInv'
  <1> USE DEF Labels, SavedEfi, SavedKernels, SavedBoot, Removed, Mounted, Copied, Written
  <1>0. TypeOK /\ FrameInv /\ QuietInv /\ KeptInv
    BY DEF IndInv, ProgressInv
  <1>1. work' = work /\ built' = built /\ dry' = dry
    BY DEF RunInstaller, ChildEnds
  <1>2. CASE /\ Succeeds("child", "mktemp2")
             /\ esp' \in {[esp EXCEPT !.boot = "new"]} /\ sectors' \in {"duet"}
    <2>1. /\ pc = "child" /\ pc' = "mktemp2" /\ ~trapped /\ status # "ok"
          /\ UNCHANGED <<errexit, trapped, status, signals>>
      BY <1>2, SuccessFrame
    <2>2. esp \in Trees
      BY TreeTypes
    <2>3. TreeReplaced => TreeReplaced'
      BY <1>0, <1>1, <1>2, <2>2 DEF TreeReplaced, FrameInv, Parts, Trees
    <2> QED
      BY <1>0, <1>1, <1>2, <2>1, <2>3 DEF ProgressInv, FrameInv, QuietInv, KeptInv
  <1>3. CASE Succeeds("child", "mktemp2") /\ ~SingleKindOfFault
    <2>1. /\ pc = "child" /\ pc' = "mktemp2" /\ ~trapped /\ status # "ok"
          /\ UNCHANGED <<errexit, trapped, status, signals>> /\ ~SingleKindOfFault'
      BY <1>3, SuccessFrame
    <2> QED
      BY <1>0, <1>1, <1>3, <2>1
         DEF ProgressInv, FrameInv, QuietInv, KeptInv, SingleKindOfFault
  <1>4. CASE \/ Fails("child", "mktemp2", TRUE) \/ Fails("child", "mktemp2", FALSE)
             \/ SignalKills("child", "mktemp2")
    <2>0. /\ "child" \in Labels /\ "mktemp2" \in Labels
          /\ "mktemp2" \notin {"bakefi"} \cup SavedEfi
          /\ "mktemp2" \notin {"mount"} \cup Mounted
      OBVIOUS
    <2> HIDE DEF Labels, SavedEfi, SavedKernels, SavedBoot, Removed, Mounted, Copied, Written
    <2>1. QuietInv'
      BY <1>4, <2>0, StopKeepsQuiet
    <2>2. KeptInv'
      BY <1>4, <2>0, StopKeepsKept
    <2>3. FrameInv'
      BY <1>1, <1>4, <2>0, StopKeepsFrame
    <2> QED
      BY <2>1, <2>2, <2>3 DEF ProgressInv
  <1> QED
    BY <1>2, <1>3, <1>4 DEF RunInstaller, ChildEnds

\* The verification and the report.
LEMMA VerifyKeepsInv ==
    ASSUME IndInv,
           \/ MakeMountDir("mktemp2", "mount2") \/ Mount("mount2", "verify") \/ Verify
           \/ Unmount("umount2", "rmdir2") \/ RemoveMountDir("rmdir2", "clear2")
           \/ ForgetMount("clear2", "done") \/ Report
    PROVE  ProgressInv'
  <1> USE DEF Labels, SavedEfi, SavedKernels, SavedBoot, Removed, Mounted, Copied, Written
  <1>0. TypeOK /\ FrameInv /\ QuietInv /\ KeptInv /\ work \in Works
    BY TreeTypes DEF IndInv, ProgressInv
  <1>1. /\ work.on \in BOOLEAN /\ work.dir \in BOOLEAN
        /\ (work.dir /\ ~work.on /\ bare = Nothing) \in BOOLEAN
    BY <1>0 DEF Works
  <1>2. CASE MakeMountDir("mktemp2", "mount2")
    <2>1. /\ Succeeds("mktemp2", "mount2") \/ Dies("mktemp2") \/ SignalEnds("mktemp2")
          /\ UNCHANGED <<built, esp, sectors>>
      BY <1>2 DEF MakeMountDir, toolVars
    <2> QED
      BY <1>1, <2>1, LaterKeepsInv
  <1>3. CASE Mount("mount2", "verify")
    BY <1>1, <1>3, LaterKeepsInv DEF Mount, Run, Command, Holds, toolVars
  <1>4. CASE Verify
    <2>1. /\ Succeeds("verify", "umount2") \/ Dies("verify") \/ SignalEnds("verify")
          /\ UNCHANGED <<built, esp, sectors>>
      BY <1>4 DEF Verify, toolVars
    <2> QED
      BY <1>1, <2>1, LaterKeepsInv
  <1>5. CASE Unmount("umount2", "rmdir2")
    BY <1>1, <1>5, LaterKeepsInv DEF Unmount, Run, Command, Holds, toolVars
  <1>6. CASE RemoveMountDir("rmdir2", "clear2")
    BY <1>1, <1>6, LaterKeepsInv DEF RemoveMountDir, Run, Command, Holds, toolVars
  <1>7. CASE ForgetMount("clear2", "done")
    BY <1>7, LaterKeepsInv DEF ForgetMount, Holds
  <1>8. CASE Report
    <2>1. TreeReplaced' <=> TreeReplaced
      BY <1>8 DEF Report, toolVars, TreeReplaced
    <2> QED
      BY <1>0, <1>8, <2>1
         DEF Report, Finishes, ExitWith, At, ProgressInv, FrameInv, QuietInv, KeptInv, toolVars
  <1> QED
    BY <1>2, <1>3, <1>4, <1>5, <1>6, <1>7, <1>8

\* Signals, cleanup and the end of the process.
LEMMA TrapsKeepInv ==
    ASSUME IndInv, SignalTrap \/ ExitTrap \/ Signal \/ Crash
    PROVE  ProgressInv'
  <1> USE DEF Labels, SavedEfi, SavedKernels, SavedBoot, Removed, Mounted, Copied, Written
  <1>0. TypeOK /\ FrameInv /\ QuietInv /\ KeptInv /\ work \in Works
    BY TreeTypes DEF IndInv, ProgressInv
  <1>1. TreeReplaced' <=> TreeReplaced
    BY DEF TreeReplaced, SignalTrap, ExitTrap, Signal, Crash, toolVars
  <1>2. CASE SignalTrap
    <2>1. /\ trapped /\ ~trapped' /\ signals # 0
          /\ UNCHANGED <<pc, status, signals, built, esp, sectors, saved>>
      BY <1>0, <1>2 DEF SignalTrap, TrapReturns, QuietInv
    <2>2. FrameInv' /\ QuietInv'
      <3>1. work'.set = work.set
        BY <1>0, <1>2 DEF SignalTrap, Cleanup, Works
      <3> QED
        BY <1>0, <2>1, <3>1 DEF FrameInv, QuietInv
    <2>3. CASE failures' = failures /\ work.set /\ ~work'.on
      BY <2>2, <2>3 DEF ProgressInv, KeptInv
    <2>4. CASE failures' = failures /\ ~work.set
      BY <1>0, <2>1, <2>2, <2>4 DEF ProgressInv, KeptInv, FrameInv
    <2>5. CASE SpendFailure
      <3>1. ~SingleKindOfFault'
        BY <1>0, <2>1, <2>5, FaultsGrow DEF SpendFailure, SingleKindOfFault
      <3> QED
        BY <2>2, <3>1 DEF ProgressInv, KeptInv
    <2>6. \/ failures' = failures /\ work.set /\ ~work'.on
          \/ failures' = failures /\ ~work.set
          \/ SpendFailure
      BY <1>0, <1>2 DEF SignalTrap, Cleanup, Works
    <2> QED
      BY <2>2, <2>3, <2>4, <2>5, <2>6 DEF ProgressInv
  <1>3. CASE ExitTrap
    BY <1>0, <1>1, <1>3
       DEF ExitTrap, ExitTrapReturns, ProgressInv, FrameInv, QuietInv, KeptInv
  <1>4. CASE Signal
    <2>1. /\ pc' = pc /\ pc \notin {"idle", "exit"} /\ trapped' /\ signals' = signals + 1
          /\ UNCHANGED <<status, failures, built, work>>
      BY <1>4 DEF Signal, SignalBetween, SignalArrives, toolVars
    <2>2. signals' # 0
      BY <1>0, <2>1, FaultsGrow
    <2> QED
      BY <1>0, <2>1, <2>2 DEF ProgressInv, FrameInv, QuietInv, KeptInv
  <1>5. CASE Crash
    BY <1>0, <1>5
       DEF Crash, KilledOutright, ProgressInv, FrameInv, QuietInv, KeptInv, toolVars
  <1> QED
    BY <1>2, <1>3, <1>4, <1>5

(***************************************************************************)
(* The results.                                                            *)
(***************************************************************************)
\* The invariant holds throughout.
THEOREM InvariantHolds == Spec => []IndInv
  <1>1. Init => IndInv
    <2> SUFFICES ASSUME Init PROVE ProgressInv
      BY InitTypes DEF IndInv
    <2> QED
      BY DEF Init, ShellInit, NoWork, Parts, ProgressInv, FrameInv, QuietInv, KeptInv, Labels,
             SavedEfi, SavedKernels, SavedBoot, Removed, Mounted, Copied, Written
  <1>2. IndInv /\ Next => IndInv'
    <2> SUFFICES ASSUME IndInv, Next PROVE ProgressInv'
      BY ToolStepTypes DEF IndInv
    <2> QED
      BY PreparationKeepsInv, BackupKeepsInv, RemoveKeepsInv, CopyKeepsInv,
         FinishCopyKeepsInv, InstallerKeepsInv, VerifyKeepsInv, TrapsKeepInv DEF Next
  <1>3. IndInv /\ UNCHANGED vars => IndInv'
    BY DEF vars, shellVars, toolVars, IndInv, TypeOK, ShellTypeOK, ProgressInv, FrameInv,
           QuietInv, KeptInv, IsSaved, TreeReplaced, SingleKindOfFault
  <1> QED
    BY <1>1, <1>2, <1>3, PTL DEF Spec

\* Without a signal, status 0 of linux_update_efi.sh means that the ESP is the build's
\* and the boot sectors are written, after any number of runs that failed or were
\* killed.
THEOREM SuccessIsUpdated == Spec => []SuccessMeansUpdated
  <1>1. IndInv => SuccessMeansUpdated
    BY DEF IndInv, ProgressInv, QuietInv, SuccessMeansUpdated
  <1> QED
    BY <1>1, InvariantHolds, PTL

\* Without a signal the boot sectors are written over last, when the tree they boot is
\* on the ESP.
THEOREM SectorsComeLast == Spec => BootSectorsLast
  <1>1. IndInv /\ [Next]_vars => [signals = 0 /\ sectors' # sectors => TreeReplaced]_vars
    <2> SUFFICES ASSUME IndInv, Next, signals = 0, sectors' # sectors PROVE TreeReplaced
      OBVIOUS
    <2>1. RunInstaller
      BY DEF Next, Start, CheckArguments, MakeMountDir, Mount, MakeBackupDir, Backup,
             RemoveTrees, MakeEfiDir, CopyEfi, CopyKernels, CopyBoot, CheckCopy, Unmount,
             RemoveMountDir, ForgetMount, Verify, Report, SignalTrap, ExitTrap, Signal, Crash,
             Run, Command, Holds, Leaves, toolVars
    <2>2. pc = "child"
      BY <2>1 DEF RunInstaller, Succeeds, Fails, SignalKills, At
    <2> QED
      BY <2>2 DEF IndInv, ProgressInv, QuietInv, Copied
  <1> QED
    BY <1>1, InvariantHolds, PTL DEF Spec, BootSectorsLast

\* What a step may do to a part of the old tree.
MayLose(p) ==
    /\ esp[p] = "old" /\ esp'[p] # "old"
    /\ IF p = "boot" THEN signals' = 0 ELSE SingleKindOfFault'

\* A rewriting command works on the ESP only while it is mounted, and then what is old
\* is saved.
LEMMA RewriteLosesNothing ==
    ASSUME IndInv, NEW p \in Parts, MayLose(p),
           RemoveTrees \/ MakeEfiDir \/ CopyEfi \/ CopyKernels \/ CopyBoot
    PROVE  "old" \in saved[p]
  <1> USE DEF SavedEfi, SavedKernels, SavedBoot, Removed
  <1>1. pc \in SavedBoot /\ ~trapped
    BY DEF RemoveTrees, MakeEfiDir, CopyEfi, CopyKernels, CopyBoot, Run, Command,
           Succeeds, Fails, SignalKills, SignalArrives, At
  <1>2. work.on
    BY DEF MayLose, RemoveTrees, MakeEfiDir, CopyEfi, CopyKernels, CopyBoot, Run, Command,
           Leaves, toolVars
  <1>3. /\ signals' = signals \/ signals' = signals + 1
        /\ failures' = failures \/ failures' = failures + 1
    BY DEF RemoveTrees, MakeEfiDir, CopyEfi, CopyKernels, CopyBoot, Run, Command,
           Succeeds, Fails, SpendFailure, SignalKills, SignalArrives
  <1>4. SingleKindOfFault
    BY <1>3, FaultsGrow DEF IndInv, MayLose, SingleKindOfFault
  <1> QED
    BY <1>1, <1>2, <1>4 DEF IndInv, ProgressInv, KeptInv, IsSaved, MayLose, Parts

\* The installer loses nothing old: without a signal there is nothing old any more,
\* and with signals only it leaves EFI and Kernels alone.
LEMMA InstallerLosesNothing ==
    ASSUME IndInv, NEW p \in Parts, RunInstaller
    PROVE  ~MayLose(p)
  <1> SUFFICES ASSUME MayLose(p) PROVE FALSE
    OBVIOUS
  <1>1. pc = "child"
    BY DEF RunInstaller, Succeeds, Fails, SignalKills, At
  <1>2. esp \in Trees
    BY TreeTypes
  <1>3. signals # 0
    <2>1. signals = 0 => TreeReplaced
      BY <1>1 DEF IndInv, ProgressInv, QuietInv, Copied
    <2> QED
      BY <2>1 DEF TreeReplaced, MayLose
  <1>4. /\ signals' = signals \/ signals' = signals + 1
        /\ failures' = failures \/ failures' = failures + 1
    BY DEF RunInstaller, Succeeds, Fails, SpendFailure, SignalKills, SignalArrives
  <1>5. signals' # 0
    BY <1>3, <1>4, FaultsGrow DEF IndInv
  <1>6. p # "boot" /\ SingleKindOfFault' /\ failures' = 0
    BY <1>5 DEF MayLose, SingleKindOfFault
  <1>7. ~Fails("child", "mktemp2", TRUE)
    BY <1>4, <1>6, FaultsGrow DEF Fails, SpendFailure, IndInv
  <1>8. esp' \in Touched \cup {[esp EXCEPT !.boot = "new"]}
    BY <1>7 DEF RunInstaller, ChildEnds
  <1>9. esp'[p] = esp[p]
    BY <1>2, <1>6, <1>8 DEF Touched, Trees, Parts
  <1> QED
    BY <1>9 DEF MayLose

\* No part of the old tree leaves the ESP that is not in a backup directory, over any
\* number of failing, killed and repeated runs of linux_update_efi.sh; a signal alone
\* costs at most the boot file.
THEOREM OldTreeIsKept == Spec => OldTreeKept
  <1> DEFINE Kept == \A p \in Parts :
                        /\ esp[p] = "old" /\ esp'[p] # "old"
                        /\ IF p = "boot" THEN signals' = 0 ELSE SingleKindOfFault'
                        => "old" \in saved[p]
  <1>1. ASSUME IndInv, Next PROVE Kept
    <2> SUFFICES ASSUME NEW p \in Parts, MayLose(p) PROVE "old" \in saved[p]
      BY DEF MayLose
    <2>1. CASE RemoveTrees \/ MakeEfiDir \/ CopyEfi \/ CopyKernels \/ CopyBoot
      BY <1>1, <2>1, RewriteLosesNothing
    <2>2. CASE RunInstaller
      BY <1>1, <2>2, InstallerLosesNothing
    <2>3. CASE esp' = esp
      BY <2>3 DEF MayLose
    <2> QED
      BY <1>1, <2>1, <2>2, <2>3
         DEF Next, Start, CheckArguments, MakeMountDir, Mount, MakeBackupDir, Backup,
             CheckCopy, Unmount, RemoveMountDir, ForgetMount, Verify, Report, SignalTrap,
             ExitTrap, Signal, Crash, Run, Command, Holds, toolVars
  <1>2. IndInv /\ [Next]_vars => [Kept]_vars
    BY <1>1
  <1> QED
    BY <1>2, InvariantHolds, PTL DEF Spec, OldTreeKept
==============================================================================
