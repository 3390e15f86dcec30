------------------------------ MODULE UpdateEfi ------------------------------
(***************************************************************************)
(* scripts/linux_update_efi.sh, the command behind "--update-efi": on a    *)
(* stick that already boots it replaces EFI, Kernels and boot of the ESP   *)
(* by those of a build, after copying the old ones to a backup directory,  *)
(* and has linux_install_openduet.sh write the boot sectors anew.          *)
(*                                                                         *)
(* A part of the tree is modelled by where it comes from.  The child       *)
(* script is represented by what OpenDuetInstall shows it to promise.      *)
(***************************************************************************)
EXTENDS ShellScript

VARIABLES
    built,    \* the parts of the ESP tree the build has
    dry,      \* --dry-run was given
    esp,      \* the ESP: where each part of its tree comes from
    sectors,  \* the boot sectors of the stick
    work,     \* $ESP_MOUNT (set, its directory, the mount) and $backup_dir
    bare,     \* what lies in the directory $ESP_MOUNT when nothing is mounted
    saved     \* the versions of each part in the backup directories

toolVars == <<built, dry, esp, sectors, work, bare, saved>>
vars == <<shellVars, toolVars>>

Parts == {"efi", "kernels", "boot"}

\* "empty" is a directory just made; "part" is any incomplete or mixed state.
Versions == {"none", "empty", "part", "old", "new"}

Nothing == [p \in Parts |-> "none"]
NoWork == [set |-> FALSE, dir |-> FALSE, on |-> FALSE, bak |-> FALSE]

Labels == {"args", "mktemp", "mount", "bakdir", "bakefi", "bakkernels", "bakboot",
           "rm", "mkefi", "cpefi", "cpkernels", "cpboot", "check",
           "umount", "rmdir", "clear", "child",
           "mktemp2", "mount2", "verify", "umount2", "rmdir2", "clear2", "done"}

\* The stick carries an older tree, with or without a kernel of its own.
Init ==
    /\ ShellInit
    /\ built \in {Parts, Parts \ {"kernels"}}
    /\ dry = FALSE
    /\ esp \in {[p \in Parts |-> "old"], [Nothing EXCEPT !.efi = "old", !.boot = "old"]}
    /\ sectors = "old"
    /\ work = NoWork
    /\ bare = Nothing
    /\ saved = [p \in Parts |-> {}]

(***************************************************************************)
(* The script's view of the tree under $ESP_MOUNT: the ESP while it is     *)
(* mounted there, otherwise whatever is in the bare directory.             *)
(***************************************************************************)
Tree == IF work.on THEN esp ELSE bare

\* The command leaves t under $ESP_MOUNT.
Leaves(t) ==
    /\ IF work.on THEN esp' = t /\ UNCHANGED bare ELSE bare' = t /\ UNCHANGED esp
    /\ UNCHANGED <<built, dry, sectors, saved>>

Holds(w) == work' = w /\ UNCHANGED <<built, dry, esp, sectors, bare, saved>>

\* The answers a test for a file of that part can give.
Shows(v) == CASE v \in {"old", "new"} -> {TRUE}
              [] v = "part" -> BOOLEAN
              [] OTHER -> {FALSE}

Run(l, n, possible, effect) ==
    Command(l, n, possible, effect, UNCHANGED toolVars)

(***************************************************************************)
(* The script.                                                             *)
(***************************************************************************)
Start ==
    /\ Invoke("args")
    /\ dry' \in BOOLEAN
    /\ work' = NoWork
    /\ bare' = Nothing
    /\ UNCHANGED <<built, esp, sectors, saved>>

\* The guards, the plan of a dry run, the typed confirmation and the umount of
\* whatever is mounted from the disk.
CheckArguments ==
    /\ \/ ~dry /\ Succeeds("args", "mktemp")
       \/ dry /\ Finishes("args")
       \/ Dies("args")
       \/ SignalEnds("args")
    /\ UNCHANGED toolVars

\* ESP_MOUNT="$(mktemp -d)".  A mktemp that fails ends the run; that it fails after
\* a signal has turned errexit off is left out.
MakeMountDir(l, n) ==
    \/ /\ Succeeds(l, n)
       /\ work' = [work EXCEPT !.set = TRUE, !.dir = TRUE, !.on = FALSE]
       /\ bare' = Nothing
       /\ UNCHANGED <<built, dry, esp, sectors, saved>>
    \/ (Dies(l) \/ SignalEnds(l)) /\ UNCHANGED toolVars

Mount(l, n) == Run(l, n, work.dir, Holds([work EXCEPT !.on = TRUE]))

\* mkdir -p "$backup_dir", if there is anything to keep.
MakeBackupDir ==
    IF Tree = Nothing
    THEN Succeeds("bakdir", "bakefi") /\ UNCHANGED toolVars
    ELSE Run("bakdir", "bakefi", TRUE, Holds([work EXCEPT !.bak = TRUE]))

\* Mutant of Backup: only the EFI directory is kept.
BackupOnlyEfi(p, l, n) ==
    IF Tree[p] = "none" \/ p # "efi"
    THEN Succeeds(l, n) /\ UNCHANGED toolVars
    ELSE Run(l, n, work.bak,
             /\ saved' = [saved EXCEPT ![p] = @ \cup {Tree[p]}]
             /\ UNCHANGED <<built, dry, esp, sectors, work, bare>>)

\* [[ -d EFI ]] && cp -a EFI, and likewise for Kernels and boot.
Backup(p, l, n) ==
    IF Tree[p] = "none"
    THEN Succeeds(l, n) /\ UNCHANGED toolVars
    ELSE Run(l, n, work.bak,
             /\ saved' = [saved EXCEPT ![p] = @ \cup {Tree[p]}]
             /\ UNCHANGED <<built, dry, esp, sectors, work, bare>>)

\* Mutant of RemoveTrees: a kernel of the old tree stays behind.
RemoveTreesNotKernels ==
    Run("rm", "mkefi", TRUE,
        UNCHANGED work /\ Leaves([Tree EXCEPT !.efi = "none"]))

\* rm -rf EFI Kernels; cut short, it has removed some of it.
RemoveTrees ==
    LET removed == {"efi", "kernels"}
        cut == {t \in [Parts -> {"none", "part", Tree.efi, Tree.kernels, Tree.boot}] :
                  \A p \in Parts : \/ t[p] = Tree[p]
                                   \/ p \in removed /\ Tree[p] # "none"
                                      /\ t[p] \in {"none", "part"}}
    IN  /\ Command("rm", "mkefi", TRUE,
                   Leaves([Tree EXCEPT !.efi = "none", !.kernels = "none"]),
                   \E t \in cut : Leaves(t))
        /\ UNCHANGED work

\* mkdir -p makes $ESP_MOUNT too, should it be gone.
MakeEfiDir ==
    Run("mkefi", "cpefi", TRUE,
        /\ work' = [work EXCEPT !.dir = TRUE]
        /\ Leaves([Tree EXCEPT !.efi = IF @ = "none" THEN "empty" ELSE @]))

\* Mutant of CopyEfi: an incomplete copy does not stop the script.
CopyEfiLenient ==
    /\ Succeeds("cpefi", "cpkernels")
    /\ UNCHANGED work
    /\ \E v \in {"part", "new"} : Leaves([Tree EXCEPT !.efi = v])

\* cp -R of the build's EFI into the directory; cut short, it is incomplete.
CopyEfi ==
    /\ Command("cpefi", "cpkernels", Tree.efi # "none",
               Leaves([Tree EXCEPT !.efi = IF @ = "empty" THEN "new" ELSE "part"]),
               \/ UNCHANGED <<built, dry, esp, sectors, bare, saved>>
               \/ Tree.efi # "none" /\ Leaves([Tree EXCEPT !.efi = "part"]))
    /\ UNCHANGED work

CopyKernels ==
    IF "kernels" \notin built
    THEN Succeeds("cpkernels", "cpboot") /\ UNCHANGED toolVars
    ELSE Command("cpkernels", "cpboot", TRUE,
                 /\ work' = [work EXCEPT !.dir = TRUE]
                 /\ Leaves([Tree EXCEPT !.kernels =
                              IF @ = "none" THEN "new" ELSE "part"]),
                 \/ UNCHANGED toolVars
                 \/ /\ work' = [work EXCEPT !.dir = TRUE]
                    /\ Leaves([Tree EXCEPT !.kernels = "part"]))

CopyBoot ==
    /\ Command("cpboot", "check", work.on \/ work.dir,
               Leaves([Tree EXCEPT !.boot = "new"]),
               \/ UNCHANGED <<built, dry, esp, sectors, bare, saved>>
               \/ (work.on \/ work.dir) /\ Leaves([Tree EXCEPT !.boot = "part"]))
    /\ UNCHANGED work

\* config.plist, BOOT*.efi and, if the build has one, the kernel are there.
CheckCopy ==
    /\ \E e \in Shows(Tree.efi), k \in Shows(Tree.kernels) :
         IF e /\ ("kernels" \in built => k)
         THEN Succeeds("check", "umount")
         ELSE Dies("check")
    /\ UNCHANGED toolVars

Unmount(l, n) == Run(l, n, work.on, Holds([work EXCEPT !.on = FALSE]))

RemoveMountDir(l, n) ==
    Run(l, n, work.dir /\ ~work.on /\ bare = Nothing,
        Holds([work EXCEPT !.dir = FALSE]))

\* ESP_MOUNT="".
ForgetMount(l, n) == Succeeds(l, n) /\ Holds([work EXCEPT !.set = FALSE])

(***************************************************************************)
(* linux_install_openduet.sh on the same ESP.  Status 0 means boot sectors *)
(* and /boot are in place, unless it met both a signal and a failing       *)
(* command.  Otherwise it stopped anywhere, and with a failing umount its  *)
(* cleanup may have emptied the ESP.                                       *)
(***************************************************************************)
Touched == {[esp EXCEPT !.boot = v] : v \in {esp.boot, "part", "new"}}

ChildEnds(after, code) ==
    /\ esp' \in after
    /\ sectors' \in code
    /\ UNCHANGED <<built, dry, work, bare, saved>>

SingleKindOfFault == signals = 0 \/ failures = 0

AllCode == {sectors, "torn", "duet"}

\* It fails over a command that failed (TRUE), or for a reason of its own (FALSE).
RunInstaller ==
    \/ /\ Succeeds("child", "mktemp2")
       /\ TRUE \in Shows(esp.efi)
       /\ "kernels" \in built => TRUE \in Shows(esp.kernels)
       /\ ChildEnds({[esp EXCEPT !.boot = "new"]}, {"duet"})
    \/ /\ Succeeds("child", "mktemp2")
       /\ ~SingleKindOfFault
       /\ ChildEnds(Touched, AllCode)
    \/ Fails("child", "mktemp2", TRUE) /\ ChildEnds(Touched \cup {Nothing}, AllCode)
    \/ /\ Fails("child", "mktemp2", FALSE) \/ SignalKills("child", "mktemp2")
       /\ ChildEnds(Touched, AllCode)

\* The files are on the ESP, and the kernel is the one of the build.
Verify ==
    LET matches == IF Tree.kernels = "old" THEN {FALSE} ELSE Shows(Tree.kernels)
    IN  /\ \/ \E e \in Shows(Tree.efi), k \in matches :
                IF e /\ Tree.boot # "none" /\ ("kernels" \in built => k)
                THEN Succeeds("verify", "umount2")
                ELSE Dies("verify")
           \/ SignalEnds("verify")
        /\ UNCHANGED toolVars

Report == Finishes("done") /\ UNCHANGED toolVars

\* cleanup: umount, if it is not busy, and rmdir, if the directory is empty.
Cleanup ==
    \/ /\ work' = IF work.set
                  THEN [work EXCEPT !.on = FALSE, !.dir = @ /\ bare # Nothing]
                  ELSE work
       /\ UNCHANGED failures
    \/ /\ work.set /\ work.on
       /\ SpendFailure
       /\ UNCHANGED work

SignalTrap ==
    TrapReturns /\ Cleanup /\ UNCHANGED <<built, dry, esp, sectors, bare, saved>>

ExitTrap ==
    ExitTrapReturns /\ Cleanup /\ UNCHANGED <<built, dry, esp, sectors, bare, saved>>

Signal == SignalBetween /\ UNCHANGED toolVars

Crash == KilledOutright /\ UNCHANGED toolVars

Next ==
    \/ Start \/ CheckArguments
    \/ MakeMountDir("mktemp", "mount") \/ Mount("mount", "bakdir")
    \/ MakeBackupDir
    \/ Backup("efi", "bakefi", "bakkernels")
    \/ Backup("kernels", "bakkernels", "bakboot")
    \/ Backup("boot", "bakboot", "rm")
    \/ RemoveTrees \/ MakeEfiDir \/ CopyEfi \/ CopyKernels \/ CopyBoot \/ CheckCopy
    \/ Unmount("umount", "rmdir") \/ RemoveMountDir("rmdir", "clear")
    \/ ForgetMount("clear", "child")
    \/ RunInstaller
    \/ MakeMountDir("mktemp2", "mount2") \/ Mount("mount2", "verify")
    \/ Verify
    \/ Unmount("umount2", "rmdir2") \/ RemoveMountDir("rmdir2", "clear2")
    \/ ForgetMount("clear2", "done") \/ Report
    \/ SignalTrap \/ ExitTrap \/ Signal \/ Crash

Spec == Init /\ [][Next]_vars

(***************************************************************************)
(* Properties.                                                             *)
(***************************************************************************)

\* Every variable holds a value of its kind.
TypeOK ==
    /\ ShellTypeOK(Labels)
    /\ built \subseteq Parts
    /\ dry \in BOOLEAN
    /\ esp \in [Parts -> Versions]
    /\ sectors \in {"old", "torn", "duet"}
    /\ work \in [set : BOOLEAN, dir : BOOLEAN, on : BOOLEAN, bak : BOOLEAN]
    /\ bare \in [Parts -> Versions]
    /\ saved \in [Parts -> SUBSET Versions]

\* The ESP holds the build's tree and nothing of the old one.
TreeReplaced == \A p \in Parts : esp[p] = IF p \in built THEN "new" ELSE "none"

\* Without a signal, status 0 means that the ESP is the build's and that the boot
\* sectors were written, also after earlier runs that failed or were killed.
SuccessMeansUpdated ==
    status = "ok" /\ ~dry /\ signals = 0 => TreeReplaced /\ sectors = "duet"

\* The same for every run that says "EFI/OpenDuet update completed successfully".
CompletedMeansUpdated ==
    status = "ok" /\ ~dry => TreeReplaced /\ sectors = "duet"

\* No part of the old tree leaves the ESP that is not in a backup directory, over
\* failing, killed and repeated runs.  A signal may cost the boot file, which the
\* installer overwrites, but not EFI and Kernels; together with a failing command
\* it may cost those too.
OldTreeKept ==
    [][\A p \in Parts :
         /\ esp[p] = "old" /\ esp'[p] # "old"
         /\ IF p = "boot" THEN signals' = 0 ELSE SingleKindOfFault'
         => "old" \in saved[p]]_vars

\* Without a signal the boot sectors are not touched before the tree they are to
\* boot is on the ESP.
BootSectorsLast ==
    [][signals = 0 /\ sectors' # sectors => TreeReplaced]_vars
==============================================================================
