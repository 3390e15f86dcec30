----------------------------- MODULE ShellScript -----------------------------
(***************************************************************************)
(* The execution discipline shared by the kit's media scripts: each starts *)
(* with                                                                    *)
(*     set -Eeuo pipefail                                                  *)
(*     trap cleanup EXIT INT TERM                                          *)
(* and its cleanup function begins with "set +e" and does not exit.        *)
(*                                                                         *)
(* What bash makes of those lines:                                         *)
(*   - while errexit is on, a failing simple command ends the script,      *)
(*     after cleanup has run as the EXIT trap;                             *)
(*   - on SIGINT or SIGTERM the command that is running is either killed   *)
(*     or left to finish, cleanup runs, and the script CONTINUES with the  *)
(*     next command, errexit now being off;                                *)
(*   - a signal that hits a command substitution, x="$(...)", or a command *)
(*     guarded by "|| die" ends the script;                                *)
(*   - SIGKILL, or the host going down, ends it with no cleanup.           *)
(*                                                                         *)
(* A script module extends this one, owns the files and devices, and says  *)
(* which labels its commands have.  A label names the command that runs    *)
(* next.                                                                   *)
(***************************************************************************)
EXTENDS Naturals

CONSTANTS
    MaxRuns,      \* how often the operator starts the script
    MaxSignals,   \* INT and TERM signals delivered over all the runs
    MaxFailures   \* commands that fail although what they need is there

ASSUME BoundsAssumption ==
    /\ MaxRuns \in Nat
    /\ MaxSignals \in Nat
    /\ MaxFailures \in Nat

VARIABLES
    pc,        \* label of the next command; "idle" between two runs
    errexit,   \* set -e is in force
    trapped,   \* a signal has arrived whose trap has not run yet
    status,    \* how the last run ended
    runs,      \* runs started so far
    signals,   \* signals delivered so far
    failures   \* failures injected so far

shellVars == <<pc, errexit, trapped, status, runs, signals, failures>>

Statuses == {"none", "running", "ok", "error", "killed"}

ShellInit ==
    /\ pc = "idle"
    /\ errexit = FALSE
    /\ trapped = FALSE
    /\ status = "none"
    /\ runs = 0
    /\ signals = 0
    /\ failures = 0

ShellTypeOK(Labels) ==
    /\ pc \in Labels \cup {"idle", "exit"}
    /\ errexit \in BOOLEAN
    /\ trapped \in BOOLEAN
    /\ status \in Statuses
    /\ runs \in 0..MaxRuns
    /\ signals \in 0..MaxSignals
    /\ failures \in 0..MaxFailures

(***************************************************************************)
(* Control flow.                                                           *)
(***************************************************************************)

\* The operator starts the script; its first command is the one at label l.
Invoke(l) ==
    /\ pc = "idle"
    /\ runs < MaxRuns
    /\ runs' = runs + 1
    /\ pc' = l
    /\ errexit' = TRUE
    /\ status' = "running"
    /\ UNCHANGED <<trapped, signals, failures>>

\* The command at label l runs next.
At(l) == pc = l /\ ~trapped

\* The command at label l succeeds and the one at label n is next.
Succeeds(l, n) ==
    /\ At(l)
    /\ pc' = n
    /\ UNCHANGED <<errexit, trapped, status, runs, signals, failures>>

\* Mutant of ExitWith: die returns to its caller instead of leaving the script.
ExitWithReturn(code) ==
    /\ pc' = "returned"
    /\ status' = code

\* die, exit with a status other than 0, or errexit: the EXIT trap is next.
ExitWith(code) ==
    /\ pc' = "exit"
    /\ status' = code

\* The script reports an error of its own at label l.
Dies(l) ==
    /\ At(l)
    /\ ExitWith("error")
    /\ UNCHANGED <<errexit, trapped, runs, signals, failures>>

\* The script's last command has run: it ends with status 0.
Finishes(l) ==
    /\ At(l)
    /\ ExitWith("ok")
    /\ UNCHANGED <<errexit, trapped, runs, signals, failures>>

\* One more command fails that had all it needs.
SpendFailure ==
    /\ failures < MaxFailures
    /\ failures' = failures + 1

\* The simple command at label l fails: because what it needs is not there
\* (~possible), or by a fault of its own.  errexit decides what is next.
Fails(l, n, possible) ==
    /\ At(l)
    /\ IF possible THEN SpendFailure ELSE UNCHANGED failures
    /\ IF errexit THEN ExitWith("error") ELSE pc' = n /\ UNCHANGED status
    /\ UNCHANGED <<errexit, trapped, runs, signals>>

(***************************************************************************)
(* Signals.                                                                *)
(***************************************************************************)

\* A signal arrives whose trap is to run before the command at label pc.
SignalArrives ==
    /\ pc \notin {"idle", "exit"}
    /\ ~trapped
    /\ signals < MaxSignals
    /\ signals' = signals + 1
    /\ trapped' = TRUE

\* The signal comes between two commands, or the running one completes.
SignalBetween ==
    /\ SignalArrives
    /\ UNCHANGED <<pc, errexit, status, runs, failures>>

\* The signal kills the simple command at label l: the script goes on.
SignalKills(l, n) ==
    /\ pc = l
    /\ SignalArrives
    /\ pc' = n
    /\ UNCHANGED <<errexit, status, runs, failures>>

\* The signal hits a command substitution at label l: the script ends.
SignalEnds(l) ==
    /\ At(l)
    /\ signals < MaxSignals
    /\ signals' = signals + 1
    /\ ExitWith("error")
    /\ UNCHANGED <<errexit, trapped, runs, failures>>

\* One simple command of the script: effect is what it does, same that it does
\* nothing.
Command(l, n, possible, effect, same) ==
    \/ Succeeds(l, n) /\ possible /\ effect
    \/ (Fails(l, n, possible) \/ SignalKills(l, n)) /\ same

\* cleanup runs as the trap of a signal: its "set +e" stays in force.
TrapReturns ==
    /\ trapped
    /\ trapped' = FALSE
    /\ errexit' = FALSE
    /\ UNCHANGED <<pc, status, runs, signals>>

\* cleanup runs as the EXIT trap and the process is gone.
ExitTrapReturns ==
    /\ pc = "exit"
    /\ pc' = "idle"
    /\ trapped' = FALSE
    /\ errexit' = FALSE
    /\ UNCHANGED <<status, runs, signals>>

\* SIGKILL, or the host goes down: no trap runs.
KilledOutright ==
    /\ pc \notin {"idle", "exit"}
    /\ pc' = "idle"
    /\ status' = "killed"
    /\ errexit' = FALSE
    /\ trapped' = FALSE
    /\ UNCHANGED <<runs, signals, failures>>
==============================================================================
