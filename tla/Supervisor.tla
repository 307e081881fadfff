----------------------------- MODULE Supervisor -----------------------------
(***************************************************************************)
(* clawkerd as PID 1 of the agent container: the daemon's main loop        *)
(* (internal/clawkerd/cmd.go) and the supervision of the user CMD          *)
(* (clawkerd/spawn_unix.go).                                               *)
(*                                                                         *)
(* Sessions dispatch AgentReady, and the first one forks the user CMD; its *)
(* reaper waits for that child, opens the MainExited gate, and drains      *)
(* every other child once the main loop has closed the listener.  At the   *)
(* same time sessions run stages, whose exec.Cmd.Wait must not lose its    *)
(* child to the drain.  A process is forked as a stage (waited for by its  *)
(* session) or appears as an orphan reparented to PID 1.                   *)
(***************************************************************************)
EXTENDS Naturals, FiniteSets

CONSTANTS Ready,    \* AgentReady dispatches, of racing or successive Sessions
          Stage,    \* stage children of ShellCommands
          Orphan,   \* descendants that outlive their parent
          Budget,   \* reaperRetryBudget and orphanDrainRetryBudget
          Faults    \* what may fail

FaultKinds == {"spawn", "getpgid", "wait4", "stuck", "listener", "panic"}

ASSUME BudgetAssumption == Budget \in Nat \ {0}
ASSUME FaultsAssumption == Faults \subseteq FaultKinds
ASSUME DisjointAssumption == Stage \cap Orphan = {}

VARIABLES
    dispatch,   \* each handleAgentReady
    runEntered, runDone, spawnErr,
    proc,       \* s.proc is installed
    child,      \* the user CMD
    other,      \* every stage and orphan
    gates,      \* the closed channels: "main", "orphans", "done"
    finalWS,    \* the status of the user CMD was recorded
    reaperErr,
    reaper,     \* where runReaper is
    errs,       \* its consecutive wait4 failures
    escalation, \* phase 2: nothing, SIGTERM or SIGKILL sent to all
    watchdog,   \* runStopWatchdog
    signalled,  \* signals sent to the CMD's process group
    main,       \* the main loop
    events,     \* what its select can receive
    requested,  \* exitRequested
    listener,   \* the gRPC listener accepts commands
    exitCode

spawnVars == <<dispatch, runEntered, runDone, spawnErr, proc>>
reaperVars == <<finalWS, reaperErr, reaper, errs, escalation>>
stopVars == <<watchdog, signalled>>
mainVars == <<main, requested, listener, exitCode>>
processes == <<child, other>>
vars == <<spawnVars, gates, reaperVars, stopVars, mainVars, events, processes>>

Process == Stage \cup Orphan
Running == main # "exited"

Init ==
    /\ dispatch = [r \in Ready |-> "new"]
    /\ runEntered = FALSE /\ runDone = FALSE /\ spawnErr = FALSE
    /\ proc = FALSE
    /\ child = "none"
    /\ other = [p \in Process |-> "none"]
    /\ gates = {}
    /\ finalWS = FALSE /\ reaperErr = FALSE
    /\ reaper = "off" /\ errs = 0 /\ escalation = 0
    /\ watchdog = "off" /\ signalled = {}
    /\ main = "select" /\ events = {} /\ requested = FALSE
    /\ listener = TRUE /\ exitCode = "none"

AllGates == {"main", "orphans", "done"}

-----------------------------------------------------------------------------
(* handleAgentReady and spawnState.Run. *)

\* The compare-and-swap of runEntered.
Run(r) ==
    /\ Running /\ listener /\ dispatch[r] = "new"
    /\ \/ ~runEntered /\ runEntered' = TRUE /\ dispatch' = [dispatch EXCEPT ![r] = "fork"]
       \/ runEntered /\ dispatch' = [dispatch EXCEPT ![r] = "wait"] /\ UNCHANGED runEntered
    /\ UNCHANGED <<runDone, spawnErr, proc, gates, reaperVars, stopVars, mainVars,
                   events, processes>>

\* cmd.Start: the CMD runs before anyone knows its pid.
Fork(r) ==
    /\ Running /\ dispatch[r] = "fork"
    /\ child' = "alive"
    /\ dispatch' = [dispatch EXCEPT ![r] = "install"]
    /\ UNCHANGED <<runEntered, runDone, spawnErr, proc, gates, reaperVars, stopVars,
                   mainVars, events, other>>

\* proc and pgid are published, the reaper started.
Install(r) ==
    /\ Running /\ dispatch[r] = "install"
    /\ proc' = TRUE
    /\ reaper' = "wait"
    /\ runDone' = TRUE
    /\ dispatch' = [dispatch EXCEPT ![r] = "Done"]
    /\ UNCHANGED <<runEntered, spawnErr, gates, finalWS, reaperErr, errs,
                   escalation, stopVars, mainVars, events, processes>>

\* A failed lookup or Start; or Getpgid fails, and the child is killed and
\* waited for.  Every gate is closed.
SpawnFails(r) ==
    /\ Running
    /\ \/ dispatch[r] = "fork" /\ "spawn" \in Faults /\ UNCHANGED child
       \/ dispatch[r] = "install" /\ "getpgid" \in Faults /\ child' = "reaped"
    /\ spawnErr' = TRUE
    /\ runDone' = TRUE
    /\ gates' = AllGates
    /\ dispatch' = [dispatch EXCEPT ![r] = "Error"]
    /\ UNCHANGED <<runEntered, proc, reaperVars, stopVars, mainVars, events, other>>

\* A caller that lost the race, once runDoneCh is closed: errAlreadySpawned is
\* answered Done, the first caller's error Error.
RunLoses(r) ==
    /\ Running /\ dispatch[r] = "wait" /\ runDone
    /\ dispatch' = [dispatch EXCEPT ![r] = IF spawnErr THEN "Error" ELSE "Done"]
    /\ UNCHANGED <<runEntered, runDone, spawnErr, proc, gates, reaperVars, stopVars,
                   mainVars, events, processes>>

-----------------------------------------------------------------------------
(* Processes. *)

\* A session forks a stage; a descendant of a live process is reparented.
Appears(p) ==
    /\ Running /\ other[p] = "none"
    /\ \/ p \in Stage /\ listener
       \/ /\ p \in Orphan
          /\ child = "alive" \/ \E q \in Stage : other[q] = "alive"
    /\ other' = [other EXCEPT ![p] = "alive"]
    /\ UNCHANGED <<spawnVars, gates, reaperVars, stopVars, mainVars, events, child>>

ChildExits ==
    /\ Running /\ child = "alive"
    /\ child' = "zombie"
    /\ UNCHANGED <<spawnVars, gates, reaperVars, stopVars, mainVars, events, other>>

\* A stage ends by itself or with its session's ctx, an orphan by itself or
\* by a signal.
Exits(p) ==
    /\ Running /\ other[p] = "alive"
    /\ other' = [other EXCEPT ![p] = "zombie"]
    /\ UNCHANGED <<spawnVars, gates, reaperVars, stopVars, mainVars, events, child>>

\* The stage's exec.Cmd.Wait; a non-zero exit of a fatal step requests the
\* daemon's exit.
StageWaits(p) ==
    /\ Running /\ p \in Stage /\ other[p] = "zombie"
    /\ other' = [other EXCEPT ![p] = "reaped"]
    /\ \E E \in {{}, {"exit"}} : events' = events \cup E
    /\ UNCHANGED <<spawnVars, gates, reaperVars, stopVars, mainVars, child>>

-----------------------------------------------------------------------------
(* runReaper. *)

\* Phase 1: Wait4(mainPID) returns the child, and the MainExited gate opens.
ReapMain ==
    /\ Running /\ reaper = "wait" /\ child = "zombie"
    /\ child' = "reaped"
    /\ finalWS' = TRUE
    /\ gates' = gates \cup {"main"}
    /\ reaper' = "gate"
    /\ errs' = 0
    /\ UNCHANGED <<spawnVars, reaperErr, escalation, stopVars, mainVars, events, other>>

\* The child still runs: the budget counts consecutive failures.
ReapNothing ==
    /\ Running /\ reaper = "wait" /\ child = "alive" /\ errs > 0
    /\ errs' = 0
    /\ UNCHANGED <<spawnVars, gates, finalWS, reaperErr, reaper, escalation,
                   stopVars, mainVars, events, processes>>

Bailout ==
    /\ reaper' = "ended"
    /\ reaperErr' = TRUE
    /\ gates' = AllGates

\* An unexpected error of Wait4, in either phase, up to the budget.
ReapFails ==
    /\ Running /\ reaper \in {"wait", "drain"} /\ "wait4" \in Faults
    /\ errs' = errs + 1
    /\ \/ errs + 1 < Budget /\ UNCHANGED <<reaper, reaperErr, gates>>
       \/ errs + 1 >= Budget /\ Bailout
    /\ UNCHANGED <<spawnVars, finalWS, escalation, stopVars, mainVars, events, processes>>

\* A panic of the reaper, recovered: the gates are closed for it.
ReaperPanics ==
    /\ Running /\ reaper \in {"wait", "gate", "drain"} /\ "panic" \in Faults
    /\ Bailout
    /\ UNCHANGED <<spawnVars, finalWS, errs, escalation, stopVars, mainVars, events, processes>>

\* The phase-2 gate; the escalation timer is armed.
GateOpens ==
    /\ Running /\ reaper = "gate" /\ "orphans" \in gates
    /\ reaper' = "drain"
    /\ UNCHANGED <<spawnVars, gates, finalWS, reaperErr, errs, escalation, stopVars,
                   mainVars, events, processes>>

\* Variant: Wait4(-1) finding nothing ready counts as drained.
drainOrphansHasty ==
    /\ Running /\ reaper = "drain"
    /\ other' = [p \in Process |-> IF other[p] # "zombie" THEN other[p]
                                   ELSE IF p \in Stage THEN "stolen" ELSE "reaped"]
    /\ reaper' = "ended"
    /\ gates' = gates \cup {"done"}
    /\ errs' = 0
    /\ UNCHANGED <<spawnVars, finalWS, reaperErr, escalation, stopVars, mainVars,
                   events, child>>

\* Wait4(-1) until ECHILD or until nothing is ready; a stage reaped here is
\* lost to its Wait.
drainOrphans ==
    /\ Running /\ reaper = "drain"
    /\ other' = [p \in Process |-> IF other[p] # "zombie" THEN other[p]
                                   ELSE IF p \in Stage THEN "stolen" ELSE "reaped"]
    /\ errs' = 0
    /\ \/ /\ \E p \in Process : other[p] = "alive"
          /\ other' # other \/ errs > 0
          /\ UNCHANGED <<reaper, gates>>
       \/ /\ \A p \in Process : other[p] # "alive"
          /\ reaper' = "ended"
          /\ gates' = gates \cup {"done"}
    /\ UNCHANGED <<spawnVars, finalWS, reaperErr, escalation, stopVars, mainVars,
                   events, child>>

\* Variant: after SIGKILL the reaper waits for the orphans without end.
EscalateForever ==
    /\ Running /\ reaper = "drain"
    /\ \E p \in Process : other[p] = "alive"
    /\ escalation < 2
    /\ escalation' = escalation + 1
    /\ UNCHANGED <<spawnVars, gates, finalWS, reaperErr, reaper, errs, stopVars, mainVars, events,
                   processes>>

\* The escalation timer, rearmed twice: SIGTERM to all, SIGKILL to all, exit
\* with orphans unreaped.
Escalate ==
    /\ Running /\ reaper = "drain"
    /\ \E p \in Process : other[p] = "alive"
    /\ \/ escalation < 2 /\ escalation' = escalation + 1 /\ UNCHANGED <<reaper, reaperErr, gates>>
       \/ escalation = 2 /\ Bailout /\ UNCHANGED escalation
    /\ UNCHANGED <<spawnVars, finalWS, errs, stopVars, mainVars, events, processes>>

-----------------------------------------------------------------------------
(* Stop, and the main loop. *)

\* SIGTERM to the child's group, once, and the watchdog; only with a child.
StopOrSkip ==
    IF proc
    THEN /\ signalled' = signalled \cup {"TERM"}
         /\ watchdog' = IF watchdog = "off" THEN "armed" ELSE watchdog
         /\ main' = "waitMain"
    ELSE /\ main' = "close"
         /\ UNCHANGED stopVars

runStopWatchdog ==
    /\ Running /\ watchdog = "armed"
    /\ watchdog' = "ended"
    /\ signalled' = IF "done" \in gates THEN signalled ELSE signalled \cup {"KILL"}
    /\ UNCHANGED <<spawnVars, gates, reaperVars, mainVars, events, processes>>

\* Its panic: SIGKILL and every gate, from the recovery.
WatchdogPanics ==
    /\ Running /\ watchdog = "armed" /\ "panic" \in Faults
    /\ watchdog' = "ended"
    /\ signalled' = signalled \cup {"KILL"}
    /\ gates' = AllGates
    /\ reaperErr' = TRUE
    /\ UNCHANGED <<spawnVars, finalWS, reaper, errs, escalation, mainVars, events, processes>>

\* Docker stops the container: the main ctx is done; with a child installed
\* runSignalForwarder forwards the signal as well.
Sigterm ==
    /\ Running /\ "sigterm" \notin events
    /\ events' = events \cup {"sigterm"}
    /\ signalled' = IF proc /\ "done" \notin gates THEN signalled \cup {"TERM"}
                                                   ELSE signalled
    /\ UNCHANGED <<spawnVars, gates, reaperVars, watchdog, mainVars, processes>>

ListenerDies ==
    /\ Running /\ listener /\ "listener" \in Faults
    /\ listener' = FALSE
    /\ events' = events \cup {"fatal"}
    /\ UNCHANGED <<spawnVars, gates, reaperVars, stopVars, main, requested, exitCode, processes>>

\* The select: any ready case may be taken.
Select ==
    /\ main = "select"
    /\ \/ "main" \in gates /\ main' = "close" /\ UNCHANGED <<stopVars, requested>>
       \/ \E e \in events : StopOrSkip /\ requested' = (e = "exit")
    /\ UNCHANGED <<spawnVars, gates, reaperVars, listener, exitCode, events, processes>>

MainExited ==
    /\ main = "waitMain" /\ "main" \in gates
    /\ main' = "close"
    /\ UNCHANGED <<spawnVars, gates, reaperVars, stopVars, requested, listener, exitCode,
                   events, processes>>

\* clawkerdSrv.Stop: the transports are closed, the handlers not waited for.
StopListener ==
    /\ main = "close"
    /\ listener' = FALSE
    /\ main' = "drain"
    /\ UNCHANGED <<spawnVars, gates, reaperVars, stopVars, requested, exitCode, events,
                   processes>>

BeginOrphanDrain ==
    /\ main = "drain"
    /\ gates' = gates \cup {"orphans"}
    /\ main' = "wait"
    /\ UNCHANGED <<spawnVars, reaperVars, stopVars, requested, listener, exitCode, events,
                   processes>>

\* A requested code is mirrored; otherwise the child's status, or 1.
Status == IF requested THEN "requested" ELSE IF finalWS THEN "child" ELSE "one"

\* Variant: Wait does not wait for doneCh.
WaitHasty ==
    /\ main = "wait" /\ main' = "exited" /\ exitCode' = Status
    /\ UNCHANGED <<spawnVars, gates, reaperVars, stopVars, requested, listener, events,
                   processes>>

\* Wait: 1 at once if no child is installed, else when doneCh is closed.
Wait ==
    /\ \/ main = "wait" /\ ~proc /\ main' = "exited" /\ exitCode' = Status
       \/ main = "wait" /\ proc /\ main' = "waitDone" /\ UNCHANGED exitCode
       \/ main = "waitDone" /\ "done" \in gates /\ main' = "exited" /\ exitCode' = Status
    /\ UNCHANGED <<spawnVars, gates, reaperVars, stopVars, requested, listener, events,
                   processes>>

-----------------------------------------------------------------------------
Daemon ==
    \/ \E r \in Ready : Fork(r) \/ Install(r) \/ RunLoses(r)
    \/ \E p \in Stage : StageWaits(p)
    \/ ReapMain \/ GateOpens \/ drainOrphans \/ Escalate \/ runStopWatchdog
    \/ Select \/ MainExited \/ StopListener \/ BeginOrphanDrain \/ Wait

Next ==
    \/ Daemon
    \/ \E r \in Ready : Run(r) \/ SpawnFails(r)
    \/ \E p \in Process : Appears(p) \/ Exits(p)
    \/ ChildExits
    \/ ReapNothing \/ ReapFails \/ ReaperPanics \/ WatchdogPanics
    \/ Sigterm \/ ListenerDies

\* A stage dies with its session's ctx, a process group that was sent SIGKILL
\* dies, and so does an orphan unless it is stuck in the kernel.
Dying(p) ==
    /\ \/ p \in Stage /\ ~listener
       \/ p \in Orphan /\ escalation = 2 /\ "stuck" \notin Faults
    /\ Exits(p)

Fairness ==
    /\ WF_vars(GateOpens) /\ WF_vars(ReapMain) /\ WF_vars(drainOrphans)
    /\ WF_vars(Escalate) /\ WF_vars(runStopWatchdog)
    /\ WF_vars(Select) /\ WF_vars(MainExited) /\ WF_vars(StopListener)
    /\ WF_vars(BeginOrphanDrain) /\ WF_vars(Wait)
    /\ \A r \in Ready : WF_vars(Fork(r)) /\ WF_vars(Install(r)) /\ WF_vars(RunLoses(r))
    /\ \A p \in Stage : WF_vars(StageWaits(p))
    /\ \A p \in Process : WF_vars(Dying(p))
    /\ WF_vars("KILL" \in signalled /\ ChildExits)

Spec == Init /\ [][Next]_vars /\ Fairness

-----------------------------------------------------------------------------
(* Properties. *)

FlagsOK ==
    /\ runEntered \in BOOLEAN /\ runDone \in BOOLEAN /\ spawnErr \in BOOLEAN
    /\ proc \in BOOLEAN /\ finalWS \in BOOLEAN /\ reaperErr \in BOOLEAN
    /\ requested \in BOOLEAN /\ listener \in BOOLEAN

\* The variables have their types.
TypeOK ==
    /\ dispatch \in [Ready -> {"new", "fork", "install", "wait", "Done", "Error"}]
    /\ FlagsOK
    /\ child \in {"none", "alive", "zombie", "reaped"}
    /\ other \in [Process -> {"none", "alive", "zombie", "reaped", "stolen"}]
    /\ gates \subseteq AllGates
    /\ reaper \in {"off", "wait", "gate", "drain", "ended"}
    /\ errs \in 0 .. Budget
    /\ escalation \in 0 .. 2
    /\ watchdog \in {"off", "armed", "ended"}
    /\ signalled \subseteq {"TERM", "KILL"}
    /\ main \in {"select", "waitMain", "close", "drain", "wait", "waitDone", "exited"}
    /\ events \subseteq {"sigterm", "fatal", "exit"}
    /\ exitCode \in {"none", "child", "one", "requested"}

\* AgentReady is answered Done only with the user CMD forked, however the
\* dispatches of two Sessions race: a second one "cannot mask a never-spawned
\* child as Done{0}".
ReadyMeansSpawned == \A r \in Ready : dispatch[r] = "Done" => proc

\* doneCh is closed with no process of the container left alive, unless the
\* supervisor gave up with an error: finding nothing to reap right now is not
\* taken for a finished drain.
DoneMeansDrained ==
    ("done" \in gates /\ ~spawnErr /\ ~reaperErr)
    => \A p \in Process : other[p] # "alive"

\* PID 1 exits with the status of the user CMD whenever one was installed: no
\* order of signals, exits and reaping loses it, unless a fatal step asked for
\* its own code or the supervisor failed.
StatusSurvives ==
    (main = "exited" /\ proc /\ ~reaperErr /\ ~requested) => exitCode = "child"

\* Once the user CMD has exited the container ends: no orphan, stage, failing
\* wait4 or lost gate keeps PID 1, and the terminal attached to it, alive.
MainEnds == (proc /\ child # "alive") ~> main = "exited"

\* A stop request ends the container: "SIGTERM-before-spawn: a signal arriving
\* before CP dispatched AgentReady means no child to forward to".
StopEnds == "sigterm" \in events ~> main = "exited"

\* Every stage is left to its exec.Cmd.Wait: "phase 2 never races c.Wait for
\* stage children".
NothingStolen == \A p \in Stage : other[p] # "stolen"
=============================================================================
