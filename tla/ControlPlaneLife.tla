--------------------------- MODULE ControlPlaneLife ---------------------------
(***************************************************************************)
(* The life of the control plane (CP) container: several CLI processes     *)
(* bring it up, adopt it, replace it or take it down                       *)
(* (controlplane/manager/bootstrap.go, internal/cmd/container/shared/      *)
(* container_start.go), while the CP itself boots, serves, watches the     *)
(* number of running agents, and drains                                    *)
(* (internal/controlplane/cmd.go, controlplane/agent/watcher.go).          *)
(*                                                                         *)
(* Every Docker API call of a CLI is a step of its own; nothing but the    *)
(* uniqueness of the container's name orders the processes.  A start call  *)
(* ends by starting one agent container, named like the call, and          *)
(* enrolling it in the eBPF maps, which outlive the CP.                     *)
(***************************************************************************)
EXTENDS Naturals, FiniteSets

CONSTANTS Cli,          \* CLI processes, one call each
          Build,        \* hashes of the embedded binaries
          buildOf,      \* the build of each CLI
          Ops,          \* the calls made: "start", "down"
          MissedThreshold, ListErrCeiling,  \* of the AgentWatcher
          MaxListErrs,  \* bound: failed polls
          MaxRetries,   \* CPMaxRestartRetries
          MaxFaults,   \* bound: unplanned deaths of the CP process, failed prunes
          MaxCuts,      \* bound: calls the user interrupts
          Faults,       \* what may fail
          None

FaultKinds == {"prune", "boot", "crash", "stack", "flush", "kill", "wedge"}

ASSUME WatcherAssumption ==
    /\ MissedThreshold \in Nat \ {0} /\ ListErrCeiling \in Nat \ {0}
    /\ {MaxListErrs, MaxRetries, MaxFaults, MaxCuts} \subseteq Nat
ASSUME CallsAssumption ==
    /\ IsFiniteSet(Cli) /\ buildOf \in [Cli -> Build]
    /\ Ops \subseteq {"start", "down"} /\ Faults \subseteq FaultKinds

\* What Docker knows of the container.
ContainerState ==
    [id : Nat, build : Build, built : Nat, image : BOOLEAN,
     state : {"created", "running", "exited"}, code : {0, 1}, stopped : BOOLEAN,
     retries : Nat]

ASSUME NoneAssumption == None \notin ContainerState

VARIABLES
    \* Docker.
    ctr,        \* the container named clawker-controlplane, or None
    ids,        \* containers created so far
    images,     \* each build's image: when it was built, 0 if it is absent
    clock,      \* images built so far
    up,         \* running agent containers
    enrolled,   \* agents in the pinned eBPF maps
    \* The CP process.
    cp,         \* "none", "boot", "serve", or a stage of the drain
    sig,        \* it got SIGTERM
    missed, listErrs, grace,    \* the AgentWatcher
    badPolls,   \* failed polls so far
    failed,     \* a drain stage reported an error
    faults,
    \* The CLIs.
    pc, op,
    seen,       \* the container a lookup returned
    tries,      \* attempt of createCPContainer
    \* History.
    alone,      \* calls nobody and nothing has disturbed
    blocked,    \* calls refused because of an upgrade
    covered,    \* successful starts whose CP nobody has asked to stop since
    stolen      \* a start stopped a CP that an agent was using

dockerVars == <<ctr, ids, images, clock, up, enrolled>>
watchVars == <<missed, listErrs, grace, badPolls>>
cpVars == <<cp, sig, watchVars, failed, faults>>
cliVars == <<pc, op, seen, tries>>
histVars == <<alone, blocked, covered, stolen>>
vars == <<dockerVars, cpVars, cliVars, histVars>>

Container(i, b, t, s) ==
    [id |-> i, build |-> b, built |-> t, image |-> TRUE, state |-> s, code |-> 0,
     stopped |-> FALSE, retries |-> 0]

\* A first use, or one after an earlier CP has drained and exited.
Init ==
    /\ \/ ctr = None /\ ids = 0 /\ clock = 0 /\ images = [b \in Build |-> 0]
       \/ \E b \in Build :
             /\ ctr = Container(1, b, 1, "exited") /\ ids = 1 /\ clock = 1
             /\ images = [x \in Build |-> IF x = b THEN 1 ELSE 0]
    /\ up = {} /\ enrolled = {}
    /\ cp = "none" /\ sig = FALSE /\ missed = 0 /\ listErrs = 0 /\ grace = TRUE
    /\ badPolls = 0 /\ failed = FALSE /\ faults = 0
    /\ pc = [c \in Cli |-> "idle"] /\ op \in [Cli -> Ops]
    /\ seen = [c \in Cli |-> None] /\ tries = [c \in Cli |-> 1]
    /\ alone = {} /\ blocked = {} /\ covered = {} /\ stolen = FALSE

\* A new process has a new watcher.
ResetWatcher == missed' = 0 /\ listErrs' = 0 /\ grace' = TRUE /\ UNCHANGED badPolls

Active == {c \in Cli : pc[c] \notin {"idle", "done", "fail", "cut"}}
Present == ctr # None
Running == Present /\ ctr.state = "running"
Summary == IF Present THEN [id |-> ctr.id, state |-> ctr.state] ELSE None
Is(c) == Present /\ ctr.id = seen[c].id

Goto(c, l) == pc' = [pc EXCEPT ![c] = l]

\* What is remembered of a lookup is only read by the calls on its result.
Remember(c, x) ==
    seen' = [seen EXCEPT ![c] = IF pc'[c] \in {"agents", "stop", "start"} THEN x ELSE None]
Forget(c) == seen' = [seen EXCEPT ![c] = None]

-----------------------------------------------------------------------------
(* A CLI: ensureCPImage and findCPContainer. *)

Call(c) ==
    /\ pc[c] = "idle"
    /\ Goto(c, IF op[c] = "start" THEN "image" ELSE "down")
    /\ alone' = IF Active = {} /\ cp \in {"none", "boot", "serve"} /\ ~sig
                THEN {c} ELSE {}
    /\ UNCHANGED <<dockerVars, cpVars, op, seen, tries, blocked, covered, stolen>>

AfterImage(c) ==
    CASE tries[c] = 1 -> "find" [] tries[c] = 2 -> "create" [] OTHER -> "fail"

\* The image of this build, unless it is there.
ensureCPImage(c) ==
    /\ pc[c] = "image"
    /\ IF images[buildOf[c]] # 0 THEN Goto(c, AfterImage(c)) /\ UNCHANGED <<images, clock>>
       ELSE /\ Goto(c, "prune")
            /\ clock' = clock + 1
            /\ images' = [images EXCEPT ![buildOf[c]] = clock + 1]
    /\ UNCHANGED <<ctr, ids, up, enrolled, cpVars, op, seen, tries, histVars>>

\* After a build the tags of all others are removed, and with them the image
\* of a container that does not run; a failure is only logged.
pruneStaleCPImages(c) ==
    /\ pc[c] = "prune"
    /\ Goto(c, AfterImage(c))
    /\ \/ /\ images' = [b \in Build |-> IF b = buildOf[c] THEN images[b] ELSE 0]
          /\ ctr' = IF Present /\ ~Running /\ ctr.build # buildOf[c]
                    THEN [ctr EXCEPT !.image = FALSE] ELSE ctr
          /\ UNCHANGED faults
       \/ /\ "prune" \in Faults /\ faults < MaxFaults
          /\ faults' = faults + 1
          /\ UNCHANGED <<images, ctr>>
    /\ UNCHANGED <<ids, clock, up, enrolled, cp, sig, watchVars, failed, op, seen, tries,
                   histVars>>

\* Variant: a container of the same build is taken as it is.
findCPAsIs(c) ==
    /\ pc[c] = "find"
    /\ Goto(c, IF ~Present THEN "create"
               ELSE IF ctr.build # buildOf[c] THEN "agents" ELSE "healthz")
    /\ Remember(c, Summary)
    /\ UNCHANGED <<dockerVars, cpVars, op, tries, histVars>>

\* Adopt a container of the same build, starting it if it is not running;
\* look further at one of another build; otherwise create.
findCPContainer(c) ==
    /\ pc[c] = "find"
    /\ Goto(c, IF ~Present THEN "create"
               ELSE IF ctr.build # buildOf[c] THEN "agents"
               ELSE IF Running THEN "healthz" ELSE "start")
    /\ Remember(c, Summary)
    /\ UNCHANGED <<dockerVars, cpVars, op, tries, histVars>>

\* The upgrade is refused while the CP seen or any agent runs.
listAgents(c) ==
    /\ pc[c] = "agents"
    /\ IF seen[c].state = "running" \/ up # {}
       THEN Goto(c, "fail") /\ blocked' = blocked \cup {c}
       ELSE Goto(c, "stop") /\ UNCHANGED blocked
    /\ UNCHANGED <<dockerVars, cpVars, op, seen, tries, alone, covered, stolen>>

-----------------------------------------------------------------------------
(* A CLI: stopAndRemoveCP. *)

\* docker stop sends SIGTERM and waits, and ends the restart policy.  A
\* container that is gone fails the managed check.
ContainerStop(c) ==
    /\ pc[c] = "stop"
    /\ Goto(c, IF ~Is(c) THEN "fail" ELSE IF Running THEN "stopping" ELSE "remove")
    /\ ctr' = IF Is(c) THEN [ctr EXCEPT !.stopped = TRUE] ELSE ctr
    /\ IF Is(c) /\ Running
       THEN /\ sig' = TRUE
            /\ covered' = {}
            /\ stolen' = (stolen \/ (op[c] = "start" /\ up # {}))
       ELSE UNCHANGED <<sig, covered, stolen>>
    /\ UNCHANGED <<ids, images, clock, up, enrolled, cp, watchVars, failed,
                   faults, op, seen, tries, alone, blocked>>

Stopped(c) ==
    /\ pc[c] = "stopping"
    /\ ~Is(c) \/ ~Running
    /\ Goto(c, "remove")
    /\ UNCHANGED <<dockerVars, cpVars, op, seen, tries, histVars>>

\* A forced remove, which kills what has been started again in between.
ContainerRemove(c) ==
    /\ pc[c] = "remove"
    /\ Forget(c)
    /\ IF Is(c)
       THEN /\ ctr' = None
            /\ cp' = "none" /\ sig' = FALSE /\ failed' = FALSE /\ ResetWatcher
            /\ Goto(c, IF op[c] = "down" THEN "done"
                       ELSE IF tries[c] = 1 THEN "create" ELSE "image")
            /\ covered' = IF Running THEN {} ELSE covered
            /\ stolen' = (stolen \/ (op[c] = "start" /\ Running /\ up # {}))
       ELSE Goto(c, "fail") /\ UNCHANGED <<ctr, cp, sig, failed, watchVars, covered, stolen>>
    /\ UNCHANGED <<ids, images, clock, up, enrolled, faults, op, tries, alone, blocked>>

\* clawker controlplane down: IsRunning, then Stop.
Down(c) ==
    /\ pc[c] = "down"
    /\ Goto(c, IF Running THEN "stop" ELSE "done")
    /\ Remember(c, Summary)
    /\ UNCHANGED <<dockerVars, cpVars, op, tries, histVars>>

-----------------------------------------------------------------------------
(* A CLI: createCPContainer and recoverFromNameConflict. *)

createCPContainer(c) ==
    /\ pc[c] = "create"
    /\ \/ /\ images[buildOf[c]] = 0
          /\ Goto(c, "fail")
          /\ UNCHANGED <<ctr, ids, seen>>
       \/ /\ images[buildOf[c]] # 0 /\ ~Present
          /\ ids' = ids + 1
          /\ ctr' = Container(ids + 1, buildOf[c], images[buildOf[c]], "created")
          /\ seen' = [seen EXCEPT ![c] = [id |-> ids + 1, state |-> "created"]]
          /\ Goto(c, "start")
       \/ /\ images[buildOf[c]] # 0 /\ Present
          /\ Goto(c, "recover")
          /\ UNCHANGED <<ctr, ids, seen>>
    /\ UNCHANGED <<images, clock, up, enrolled, cpVars, op, tries, histVars>>

\* After the second attempt a retry is an error, found after its clean-up.
Retry(c, l) == Goto(c, l) /\ tries' = [tries EXCEPT ![c] = @ + 1]

\* The peer's container is adopted if it is of the same build or its image is
\* at least as new; otherwise it is replaced.
recoverFromNameConflict(c) ==
    /\ pc[c] = "recover"
    /\ LET adopt == Goto(c, IF Running THEN "healthz" ELSE "start") /\ UNCHANGED tries
           mine == images[buildOf[c]]
       IN  IF ~Present THEN Goto(c, "fail") /\ UNCHANGED tries
           ELSE IF ctr.build = buildOf[c] THEN adopt
           ELSE IF mine = 0 THEN Retry(c, "image")
           ELSE IF ~ctr.image THEN Goto(c, "fail") /\ UNCHANGED tries
           ELSE IF mine <= ctr.built THEN adopt
           ELSE Retry(c, "stop")
    /\ Remember(c, Summary)
    /\ UNCHANGED <<dockerVars, cpVars, op, histVars>>

ContainerStart(c) ==
    /\ pc[c] = "start"
    /\ Forget(c)
    /\ Goto(c, IF Is(c) THEN "healthz" ELSE "fail")
    /\ IF Is(c) /\ ~Running
       THEN /\ ctr' = [ctr EXCEPT !.state = "running", !.code = 0, !.stopped = FALSE,
                                  !.retries = 0]
            /\ cp' = "boot"
       ELSE UNCHANGED <<ctr, cp>>
    /\ UNCHANGED <<ids, images, clock, up, enrolled, sig, watchVars, failed, faults, op,
                   tries, histVars>>

-----------------------------------------------------------------------------
(* A CLI: cpReady, and the rest of a container start. *)

\* Docker is about to restart it: on-failure, with a bounded retry count.
Restarting ==
    /\ Present /\ ctr.state = "exited"
    /\ ctr.code # 0 /\ ~ctr.stopped /\ ctr.retries < MaxRetries

\* /healthz is green from SetReady until the servers are stopped, and a
\* little longer from its cache.  A container that is gone, or has exited for
\* good, ends the wait, and so does the deadline while nobody starts it.
waitForCPHealthz(c) ==
    /\ pc[c] = "healthz"
    /\ \/ cp \in {"serve", "drain", "closed"} /\ Goto(c, "clock")
       \/ cp = "none" /\ ~Restarting /\ Goto(c, "fail")
    /\ UNCHANGED <<dockerVars, cpVars, op, seen, tries, histVars>>

\* GetSystemTime on the admin port, until the deadline.
waitForCPClockSync(c) ==
    /\ pc[c] = "clock"
    /\ \/ cp \in {"serve", "drain", "closed"} /\ Goto(c, "init")
       \/ cp \notin {"serve", "boot"} /\ Goto(c, "fail")
    /\ UNCHANGED <<dockerVars, cpVars, op, seen, tries, histVars>>

\* The action queue is open.
Accepting == cp \in {"serve", "drain"}

\* FirewallInit and FirewallAddRules go through the queue.
FirewallInit(c) ==
    /\ pc[c] = "init"
    /\ Goto(c, IF Accepting THEN "agent" ELSE "fail")
    /\ UNCHANGED <<dockerVars, cpVars, op, seen, tries, histVars>>

\* docker start of the agent container.
AgentStart(c) ==
    /\ pc[c] = "agent"
    /\ up' = up \cup {c}
    /\ Goto(c, "enable")
    /\ UNCHANGED <<ctr, ids, images, clock, enrolled, cpVars, op, seen, tries, histVars>>

\* FirewallEnable enrols a running container; on any error the start fails,
\* and the container stays.
FirewallEnable(c) ==
    /\ pc[c] = "enable"
    /\ IF Accepting /\ c \in up
       THEN /\ enrolled' = enrolled \cup {c}
            /\ covered' = IF cp = "serve" /\ ~sig THEN covered \cup {c} ELSE covered
            /\ Goto(c, "done")
       ELSE Goto(c, "fail") /\ UNCHANGED <<enrolled, covered>>
    /\ UNCHANGED <<ctr, ids, images, clock, up, cpVars, op, seen, tries, alone, blocked,
                   stolen>>

\* The user interrupts a call, between any two of its steps.
Interrupt(c) ==
    /\ c \in Active /\ Cardinality({d \in Cli : pc[d] = "cut"}) < MaxCuts
    /\ Goto(c, "cut") /\ Forget(c)
    /\ alone' = {}
    /\ UNCHANGED <<dockerVars, cpVars, op, tries, blocked, covered, stolen>>

AgentStops(c) ==
    /\ c \in up
    /\ up' = up \ {c}
    /\ covered' = covered \ {c}
    /\ alone' = {}
    /\ UNCHANGED <<ctr, ids, images, clock, enrolled, cpVars, cliVars, blocked, stolen>>

-----------------------------------------------------------------------------
(* The CP process: run. *)

\* The process ends, and with it the container's run.
Exit(code) ==
    /\ cp' = "none" /\ sig' = FALSE /\ failed' = FALSE /\ ResetWatcher
    /\ ctr' = [ctr EXCEPT !.state = "exited", !.code = code]

\* The startup gates: SetReady, or exit code 1 without a flush.
Boot ==
    /\ cp = "boot"
    /\ \/ /\ cp' = "serve"
          /\ UNCHANGED <<ctr, sig, watchVars, failed, faults, alone>>
       \/ /\ sig \/ ("boot" \in Faults /\ faults < MaxFaults)
          /\ Exit(1)
          /\ faults' = IF sig THEN faults ELSE faults + 1
          /\ alone' = {}
    /\ UNCHANGED <<ids, images, clock, up, enrolled, cliVars, blocked, covered, stolen>>

\* A subprocess or a server dies: exit code 1, the maps stay pinned.
SubprocessCrash ==
    /\ cp = "serve" /\ "crash" \in Faults /\ faults < MaxFaults
    /\ faults' = faults + 1
    /\ Exit(1)
    /\ alone' = {}
    /\ UNCHANGED <<ids, images, clock, up, enrolled, cliVars, blocked, covered, stolen>>

\* The restart policy.
Restart ==
    /\ Restarting
    /\ ctr' = [ctr EXCEPT !.state = "running", !.code = 0, !.retries = @ + 1]
    /\ cp' = "boot"
    /\ UNCHANGED <<ids, images, clock, up, enrolled, sig, watchVars, failed, faults,
                   cliVars, histVars>>

GraceEnds ==
    /\ cp = "serve" /\ grace
    /\ grace' = FALSE
    /\ UNCHANGED <<dockerVars, cp, sig, missed, listErrs, badPolls, failed, faults,
                   cliVars, histVars>>

\* Variant: a failed list counts as an empty one.
PollErrIsZero ==
    /\ cp = "serve" /\ ~sig
    /\ \/ /\ up # {} /\ missed' = 0 /\ UNCHANGED <<cp, alone>>
       \/ /\ missed' = IF missed < MissedThreshold THEN missed + 1 ELSE missed
          /\ IF grace \/ missed' < MissedThreshold THEN UNCHANGED <<cp, alone>>
             ELSE cp' = "drain" /\ alone' = {}
    /\ UNCHANGED <<dockerVars, sig, listErrs, grace, badPolls, failed, faults, cliVars,
                   blocked, covered, stolen>>

\* Variant: the drain starts when the count reaches the threshold, not past it.
PollEquals ==
    /\ cp = "serve" /\ ~sig
    /\ missed' = IF up # {} THEN 0 ELSE IF missed > MissedThreshold THEN missed ELSE missed + 1
    /\ IF grace \/ missed' # MissedThreshold THEN UNCHANGED <<cp, alone>>
       ELSE cp' = "drain" /\ alone' = {}
    /\ UNCHANGED <<dockerVars, sig, listErrs, grace, badPolls, failed, faults, cliVars,
                   blocked, covered, stolen>>

\* One tick of AgentWatcher.Run: enough empty lists in a row after the grace
\* period start the drain, an error or an agent resets the count, and enough
\* errors in a row end the watcher, and with it run, in the drain of its
\* last line.
Poll ==
    /\ cp = "serve" /\ ~sig
    /\ \/ /\ badPolls < MaxListErrs
          /\ badPolls' = badPolls + 1
          /\ listErrs' = listErrs + 1 /\ missed' = 0
          /\ IF listErrs' >= ListErrCeiling THEN cp' = "drain" /\ alone' = {}
                                            ELSE UNCHANGED <<cp, alone>>
       \/ /\ up # {}
          /\ listErrs' = 0 /\ missed' = 0 /\ UNCHANGED <<cp, alone, badPolls>>
       \/ /\ up = {}
          /\ listErrs' = 0 /\ UNCHANGED badPolls
          /\ missed' = IF missed < MissedThreshold THEN missed + 1 ELSE missed
          /\ IF grace \/ missed' < MissedThreshold THEN UNCHANGED <<cp, alone>>
             ELSE cp' = "drain" /\ alone' = {}
    /\ UNCHANGED <<dockerVars, sig, grace, failed, faults, cliVars, blocked, covered, stolen>>

\* The SIGTERM arm of the serve select.
Sigterm ==
    /\ cp = "serve" /\ sig
    /\ cp' = "drain"
    /\ UNCHANGED <<dockerVars, sig, watchVars, failed, faults, cliVars,
                   histVars>>

-----------------------------------------------------------------------------
(* The CP process: runDrainSequence, once, whoever triggers it. *)

CloseQueue ==
    /\ cp = "drain"
    /\ cp' = "closed"
    /\ ResetWatcher
    /\ UNCHANGED <<dockerVars, sig, failed, faults, cliVars, histVars>>

\* GracefulStop waits for the RPCs in flight; the watcher's context bounds it
\* only by a SIGTERM.  Then the firewall containers are stopped.
StopServers ==
    /\ cp = "closed"
    /\ "wedge" \notin Faults \/ sig
    /\ cp' = "stopped"
    /\ failed' \in {failed, failed \/ "stack" \in Faults}
    /\ UNCHANGED <<dockerVars, sig, watchVars, faults, cliVars, histVars>>

\* Variant: the error is logged and forgotten.
FlushAllQuiet ==
    /\ cp = "stopped"
    /\ cp' = "flushed"
    /\ enrolled' \in {{}} \cup (IF "flush" \in Faults THEN SUBSET enrolled ELSE {})
    /\ UNCHANGED <<ctr, ids, images, clock, up, sig, watchVars, failed, faults, cliVars,
                   histVars>>

\* The maps are emptied; an entry that could not be deleted is an error.
FlushAll ==
    /\ cp = "stopped"
    /\ cp' = "flushed"
    /\ enrolled' \in {{}} \cup (IF "flush" \in Faults THEN SUBSET enrolled ELSE {})
    /\ failed' = (failed \/ enrolled' # {})
    /\ UNCHANGED <<ctr, ids, images, clock, up, sig, watchVars, faults, cliVars, histVars>>

\* run returns the outcome of the drain.
RunReturns ==
    /\ cp = "flushed"
    /\ Exit(IF failed THEN 1 ELSE 0)
    /\ UNCHANGED <<ids, images, clock, up, enrolled, faults, cliVars, histVars>>

\* docker stop runs out of patience.
Killed ==
    /\ sig /\ cp # "none" /\ "kill" \in Faults
    /\ Exit(1)
    /\ UNCHANGED <<ids, images, clock, up, enrolled, faults, cliVars, histVars>>

-----------------------------------------------------------------------------
CliStep(c) ==
    \/ ensureCPImage(c) \/ pruneStaleCPImages(c) \/ findCPContainer(c) \/ listAgents(c)
    \/ ContainerStop(c) \/ Stopped(c) \/ ContainerRemove(c) \/ Down(c) \/ createCPContainer(c)
    \/ recoverFromNameConflict(c) \/ ContainerStart(c) \/ waitForCPHealthz(c)
    \/ waitForCPClockSync(c) \/ FirewallInit(c) \/ AgentStart(c) \/ FirewallEnable(c)

Drain == CloseQueue \/ StopServers \/ FlushAll \/ RunReturns

Next ==
    \/ \E c \in Cli : Call(c) \/ CliStep(c) \/ Interrupt(c) \/ AgentStops(c)
    \/ Boot \/ SubprocessCrash \/ Restart \/ GraceEnds \/ Poll \/ Sigterm
    \/ Drain \/ Killed

\* Processes run on, the ticker ticks, and Docker keeps its restart policy;
\* nobody has to call anything, or to stop an agent.
Fairness ==
    /\ \A c \in Cli : WF_vars(CliStep(c))
    /\ WF_vars(Boot) /\ WF_vars(Restart) /\ WF_vars(GraceEnds) /\ WF_vars(Poll)
    /\ WF_vars(Sigterm) /\ WF_vars(Drain)

Spec == Init /\ [][Next]_vars /\ Fairness

-----------------------------------------------------------------------------
(* Properties. *)

Pc == {"idle", "image", "prune", "find", "agents", "stop", "stopping", "remove", "down",
       "create", "recover", "start", "healthz", "clock", "init", "agent", "enable",
       "done", "fail", "cut"}

\* The variables have their types, and the CP process lives while its
\* container runs.
TypeOK ==
    /\ ctr \in ContainerState \cup {None}
    /\ ids \in Nat /\ clock \in Nat /\ images \in [Build -> Nat]
    /\ cp \in {"none", "boot", "serve", "drain", "closed", "stopped", "flushed"}
    /\ cp # "none" <=> Running
    /\ up \subseteq Cli /\ enrolled \subseteq Cli /\ covered \subseteq Cli
    /\ pc \in [Cli -> Pc] /\ op \in [Cli -> Ops] /\ tries \in [Cli -> 1 .. 3]
    /\ seen \in [Cli -> [id : Nat, state : {"created", "running", "exited"}] \cup {None}]
    /\ alone \subseteq Cli /\ blocked \subseteq Cli
    /\ {missed, listErrs, badPolls, faults} \subseteq Nat

\* An agent whose start succeeded while the CP was serving stays enrolled for
\* as long as it runs and nobody asks that CP to stop: crashes, restarts,
\* failed polls (short of ListErrCeiling in a row), other starts and the
\* drain-to-zero watcher never take its enforcement away.
StartedStaysEnforced == covered \subseteq enrolled

\* A CP that exits with code 0, which no restart policy brings back, has left
\* no agent in the maps: every path past the flush exits with an error.
CleanExitMeansFlushed ==
    (Present /\ ctr.state = "exited" /\ ctr.code = 0) => enrolled = {}

\* A call that no other call, agent or failure disturbs succeeds, whatever
\* earlier calls and crashes have left behind (a CP that is still being
\* stopped excepted), unless it is an upgrade that has to wait: "the next call
\* observes the running/unhealthy container and re-runs the readiness gate".
UndisturbedCallSucceeds == \A c \in alone : pc[c] = "fail" => c \in blocked

\* Every call returns: no wait for a container, a health check or a stop is
\* for something that will never come.
CallsReturn == \A c \in Cli : (pc[c] # "idle") ~> (pc[c] \in {"done", "fail", "cut"})

\* A CP that nobody uses any more goes: drain-to-zero is reached in spite of
\* failed polls, crashes and restarts.
IdleStops == (<>[](Active = {} /\ up = {})) => <>[](cp = "none")

\* FlushAll is "called ONLY on drain-to-zero shutdown ... when no agents
\* remain".
FlushOnlyAtZero == cp = "stopped" => up = {}

\* "A missing container is not an error": a call to take the CP down succeeds.
DownSucceeds == \A c \in Cli : op[c] = "down" => pc[c] # "fail"

\* The upgrade gate: a start never stops the CP of a running agent.
UpgradeSpares == ~stolen

\* A start that reports success leaves an enrolled agent.
DoneMeansEnforced ==
    \A c \in Cli : (pc[c] = "done" /\ op[c] = "start" /\ c \in up /\ Ops = {"start"})
                        => c \in enrolled
=============================================================================
