------------------------------ MODULE AgentBoot ------------------------------
(***************************************************************************)
(* How the control plane (CP) brings one agent container up: registration, *)
(* the one-time init plan and the every-start boot plan                    *)
(* (controlplane/agent/dialer.go, exec.go, the step lists), carried out    *)
(* by clawkerd inside the container (clawkerd/session.go, register.go).    *)
(*                                                                         *)
(* The plans run over a Session stream that may break under them.  CP      *)
(* decides from the HelloAck of the Session which plans to run; what is    *)
(* already done in the container is recorded there by two marker files,    *)
(* and the registration by a row in CP's registry and by Hydra, which      *)
(* takes each client assertion once.  The container, a life at a time, and *)
(* CP may stop and start again.                                            *)
(*                                                                         *)
(* The steps that run a fixed idempotent script (docker-socket, config,    *)
(* git, git-credentials, ssh) are represented by one, "config".            *)
(***************************************************************************)
EXTENDS Naturals, Sequences, FiniteSets

CONSTANTS MaxLives,     \* bound: starts of the container
          MaxSessions,  \* bound: Session streams
          MaxCrashes,   \* bound: crashes of CP
          Faults,       \* what may fail
          None

FaultKinds == {"break", "hook", "timeout", "spawn", "die", "kill", "marker",
               "hydra", "lost", "rpc", "slow"}

ASSUME BoundsAssumption ==
    MaxLives \in Nat \ {0} /\ MaxSessions \in Nat \ {0} /\ MaxCrashes \in Nat
ASSUME FaultsAssumption == Faults \subseteq FaultKinds

Session == 1 .. MaxSessions

VARIABLES
    \* The control plane.
    cp,         \* where runDial is
    ses,        \* its Session
    ack,        \* the HelloAck of that Session
    peer,       \* the life of the clawkerd it is with
    plan, step, \* the plan Executor.Run is at, and its current step
    waited,     \* the life KillAfterGrace waits for
    crashes,
    row,        \* the registry has the container's row
    \* Each Session stream, with its handler in clawkerd.
    stream,     \* "new", "up" or "down"
    work,       \* the step it executes
    answer,     \* a terminal Response on its way to CP
    reg,        \* the goroutine of handleRegisterRequired
    \* clawkerd and its container.
    life, up,
    exiting,    \* requestExit was called
    cmd,        \* the user CMD
    consumed, doneOK,   \* registerCoordinator
    initMarker, postMarker,
    burned,     \* Hydra has taken the assertion
    \* History.
    finished,   \* init steps that have succeeded
    hooks,      \* successful runs of the post_init hook
    answeredBy, \* Hydra answered the present coordinator
    replayed,   \* the assertion was presented after that
    doomed,     \* the life in which CP saw a step fail
    dropped     \* a terminal Response was dropped with its Session alive

cpVars == <<cp, ses, ack, peer, plan, step, waited>>
regVars == <<reg, consumed, doneOK, burned, answeredBy, replayed>>
lifeVars == <<life, up, exiting, cmd>>
diskVars == <<initMarker, postMarker, finished, hooks>>
vars == <<cpVars, crashes, row, stream, work, answer, regVars, lifeVars, diskVars,
          doomed, dropped>>

\* Variant: the marker is set first.
InitPlanMarkedFirst == <<"agent-initialized", "config", "post-init">>

InitPlan == <<"config", "post-init", "agent-initialized">>
BootPlan == <<"pre-run", "agent-ready">>
Plan == [init |-> InitPlan, boot |-> BootPlan]
Steps(p) == {p[i] : i \in 1 .. Len(p)}

\* What a handler may be at: post-init is three steps of its script.
Work == Steps(InitPlan) \cup Steps(BootPlan) \cup {"hook", "touch"}
Answer == {"ok", "failed", "registered", "refused"}

ASSUME NoneAssumption == None \notin Work \cup Answer

Init ==
    /\ cp = "dial" /\ ses = 0 /\ ack = [initialized |-> FALSE, cmdRunning |-> FALSE]
    /\ peer = 0 /\ plan = "init" /\ step = 1 /\ waited = 0 /\ crashes = 0
    /\ row = FALSE
    /\ stream = [s \in Session |-> "new"]
    /\ work = [s \in Session |-> None]
    /\ answer = [s \in Session |-> None]
    /\ reg = [s \in Session |-> "none"]
    /\ life = 1 /\ up = TRUE /\ exiting = FALSE /\ cmd = "none"
    /\ consumed = FALSE /\ doneOK = FALSE /\ burned = FALSE
    /\ initMarker = FALSE /\ postMarker = FALSE
    /\ finished = {} /\ hooks = 0
    /\ answeredBy = FALSE /\ replayed = FALSE
    /\ doomed = 0 /\ dropped = FALSE

Open(s) == stream[s] = "up"
StreamUp == ses # 0 /\ stream[ses] = "up"

-----------------------------------------------------------------------------
(* The control plane: runDial. *)

\* A Session is established; Hello is answered from the marker file and the
\* supervisor.
Establish ==
    /\ cp = "dial" /\ up
    /\ \E s \in Session :
          /\ stream[s] = "new"
          /\ \A t \in Session : t < s => stream[t] # "new"
          /\ ses' = s
          /\ stream' = [stream EXCEPT ![s] = "up"]
    /\ ack' = [initialized |-> initMarker, cmdRunning |-> cmd = "running"]
    /\ peer' = life
    /\ cp' = "classify"
    /\ UNCHANGED <<plan, step, waited, crashes, row, work, answer, regVars, lifeVars,
                   diskVars, doomed, dropped>>

\* DispatchAgentEvents: a known agent goes on, an unknown one is told to
\* register.
DispatchAgentEvents ==
    /\ cp = "classify"
    /\ \/ /\ row \/ ~StreamUp
          /\ cp' = "init?"
          /\ UNCHANGED reg
       \/ /\ ~row /\ StreamUp
          /\ cp' = "registering"
          /\ reg' = [reg EXCEPT ![ses] = "want"]
    /\ UNCHANGED <<ses, ack, peer, plan, step, waited, crashes, row, stream, work, answer,
                   consumed, doneOK, burned, answeredBy, replayed, lifeVars, diskVars,
                   doomed, dropped>>

\* Variant: nothing but RegisterDone ends the wait.
awaitRegisterForever ==
    /\ cp = "registering"
    /\ answer[ses] \in {"registered", "refused"}
    /\ answer' = [answer EXCEPT ![ses] = None]
    /\ cp' = "init?"
    /\ UNCHANGED <<ses, ack, peer, plan, step, waited, crashes, row, stream, work, regVars,
                   lifeVars, diskVars, doomed, dropped>>

\* awaitRegisterDone: RegisterDone, the end of the stream, or the timeout, which
\* cancels the stream.  Whatever the outcome, the plans are next.
awaitRegisterDone ==
    /\ cp = "registering"
    /\ \/ /\ answer[ses] \in {"registered", "refused"}
          /\ answer' = [answer EXCEPT ![ses] = None]
          /\ UNCHANGED stream
       \/ ~StreamUp /\ UNCHANGED <<answer, stream>>
       \/ /\ "slow" \in Faults
          /\ stream' = [stream EXCEPT ![ses] = "down"]
          /\ UNCHANGED answer
    /\ cp' = "init?"
    /\ UNCHANGED <<ses, ack, peer, plan, step, waited, crashes, row, work, regVars, lifeVars,
                   diskVars, doomed, dropped>>

Begin(p) == plan' = p /\ step' = 1 /\ cp' = "send"

shouldAgentInit == ~ack.cmdRunning /\ ~ack.initialized
shouldAgentBoot == ~ack.cmdRunning

\* The two gates read the HelloAck, not what the plans have done since.
Gates ==
    /\ \/ /\ cp = "init?"
          /\ IF shouldAgentInit THEN Begin("init")
                                ELSE cp' = "boot?" /\ UNCHANGED <<plan, step>>
       \/ /\ cp = "boot?"
          /\ IF shouldAgentBoot THEN Begin("boot")
                                ELSE cp' = "drain" /\ UNCHANGED <<plan, step>>
    /\ UNCHANGED <<ses, ack, peer, waited, crashes, row, stream, work, answer, regVars,
                   lifeVars, diskVars, doomed, dropped>>

\* Executor.Run returns, with or without an error: the init plan is followed
\* by the gate of the boot plan.
PlanEnds == cp' = IF plan = "init" THEN "boot?" ELSE "drain"

sendStepCommand ==
    /\ cp = "send"
    /\ \/ /\ StreamUp
          /\ work' = [work EXCEPT ![ses] = Plan[plan][step]]
          /\ cp' = "await"
       \/ ~StreamUp /\ PlanEnds /\ UNCHANGED work
    /\ UNCHANGED <<ses, ack, peer, plan, step, waited, crashes, row, stream, answer, regVars,
                   lifeVars, diskVars, doomed, dropped>>

\* Run reports a failed step, of either plan, to the operator and goes for the
\* container.
reportStepFailure == cp' = "kill"

\* awaitStepResult and what Run does with it: the next step, KillAfterGrace
\* after a failure, or the end of the plan when the transport broke.
awaitStepResult ==
    /\ cp = "await"
    /\ \/ /\ answer[ses] = "ok"
          /\ IF step < Len(Plan[plan]) THEN step' = step + 1 /\ cp' = "send"
                                       ELSE PlanEnds /\ UNCHANGED step
          /\ UNCHANGED doomed
       \/ answer[ses] = "failed" /\ doomed' = peer /\ reportStepFailure /\ UNCHANGED step
       \/ ~StreamUp /\ PlanEnds /\ UNCHANGED <<step, doomed>>
    /\ answer' = [answer EXCEPT ![ses] = None]
    /\ UNCHANGED <<ses, ack, peer, plan, waited, crashes, row, stream, work, regVars,
                   lifeVars, diskVars, dropped>>

\* The container's processes are gone: its streams break, and what its
\* handlers were doing ends.
ContainerEnds ==
    /\ up' = FALSE
    /\ exiting' = FALSE
    /\ cmd' = "none"
    /\ stream' = [s \in Session |-> IF Open(s) THEN "down" ELSE stream[s]]
    /\ work' = [s \in Session |-> None]
    /\ reg' = [s \in Session |-> "none"]
    /\ UNCHANGED life

\* KillAfterGrace: ContainerWait, on whatever life it finds.
KillWaits ==
    /\ cp = "kill"
    /\ IF up THEN cp' = "grace" /\ waited' = life
             ELSE PlanEnds /\ UNCHANGED waited
    /\ UNCHANGED <<ses, ack, peer, plan, step, crashes, row, stream, work, answer,
                   regVars, lifeVars, diskVars, doomed, dropped>>

\* The container has exited; or the grace is over and SIGKILL is sent, which
\* the Docker API may refuse.
KillAfterGrace ==
    /\ cp = "grace"
    /\ \/ ~up \/ life # waited
       \/ "kill" \in Faults
    /\ PlanEnds
    /\ UNCHANGED <<ses, ack, peer, plan, step, waited, crashes, row, stream, work, answer,
                   regVars, lifeVars, diskVars, doomed, dropped>>

KillSucceeds ==
    /\ cp = "grace" /\ up /\ life = waited
    /\ ContainerEnds
    /\ PlanEnds
    /\ UNCHANGED <<ses, ack, peer, plan, step, waited, crashes, row, answer, consumed,
                   doneOK, burned, answeredBy, replayed, diskVars, doomed, dropped>>

\* drainStream, and the next cycle of runDial.
drainStream ==
    /\ cp = "drain" /\ ~StreamUp
    /\ cp' = "dial"
    /\ UNCHANGED <<ses, ack, peer, plan, step, waited, crashes, row, stream, work, answer,
                   regVars, lifeVars, diskVars, doomed, dropped>>

\* CP is killed and starts again: the registry is a file, the rest is lost.
Crash ==
    /\ crashes < MaxCrashes
    /\ crashes' = crashes + 1
    /\ cp' = "dial"
    /\ ses' = 0
    /\ doomed' = 0
    /\ stream' = [s \in Session |-> IF Open(s) THEN "down" ELSE stream[s]]
    /\ UNCHANGED <<ack, peer, plan, step, waited, row, work, answer, regVars, lifeVars,
                   diskVars, dropped>>

\* The transport breaks under a Session.
Break(s) ==
    /\ "break" \in Faults /\ Open(s)
    /\ stream' = [stream EXCEPT ![s] = "down"]
    /\ UNCHANGED <<cpVars, crashes, row, work, answer, regVars, lifeVars, diskVars,
                   doomed, dropped>>

-----------------------------------------------------------------------------
(* clawkerd: the steps. *)

Reply(s, r) == answer' = IF Open(s) THEN [answer EXCEPT ![s] = r] ELSE answer

Succeeds(s) ==
    /\ work' = [work EXCEPT ![s] = None]
    /\ finished' = finished \cup {work[s]}
    /\ Reply(s, "ok")

\* A shell step ends with exit code 0.  PostInitScript looks for its marker,
\* runs the hook and touches the marker.
ShellStep(s) ==
    /\ \/ work[s] \in {"config", "pre-run"} /\ Succeeds(s) /\ UNCHANGED <<hooks, postMarker>>
       \/ work[s] = "post-init" /\ postMarker /\ Succeeds(s) /\ UNCHANGED <<hooks, postMarker>>
       \/ /\ work[s] = "post-init" /\ ~postMarker
          /\ work' = [work EXCEPT ![s] = "hook"]
          /\ UNCHANGED <<hooks, postMarker, finished, answer>>
       \/ /\ work[s] = "hook"
          /\ work' = [work EXCEPT ![s] = "touch"]
          /\ hooks' = hooks + 1
          /\ UNCHANGED <<postMarker, finished, answer>>
       \/ /\ work[s] = "touch"
          /\ postMarker' = TRUE
          /\ work' = [work EXCEPT ![s] = None]
          /\ finished' = finished \cup {"post-init"}
          /\ Reply(s, "ok")
          /\ UNCHANGED hooks
    /\ UNCHANGED <<cpVars, crashes, row, stream, regVars, lifeVars, initMarker, doomed,
                   dropped>>

InShell(s) == work[s] \in {"config", "pre-run", "post-init", "hook", "touch"}

\* It ends with another code, or is killed with its Session: the Done is sent,
\* and exit_on_non_zero takes clawkerd down.
ShellFails(s) ==
    /\ InShell(s)
    /\ "hook" \in Faults \/ ~Open(s)
    /\ work' = [work EXCEPT ![s] = None]
    /\ Reply(s, "failed")
    /\ exiting' = TRUE
    /\ UNCHANGED <<cpVars, crashes, row, stream, regVars, life, up, cmd, diskVars, doomed,
                   dropped>>

\* Its timeout: killed, and an Error that is sent under the cancelled ctx and
\* may be dropped.  clawkerd goes on.
ShellTimesOut(s) ==
    /\ InShell(s) /\ "timeout" \in Faults
    /\ work' = [work EXCEPT ![s] = None]
    /\ \/ Reply(s, "failed") /\ UNCHANGED dropped
       \/ UNCHANGED answer /\ dropped' = TRUE
    /\ UNCHANGED <<cpVars, crashes, row, stream, regVars, lifeVars, diskVars, doomed>>

\* The marker file, whose failure is tolerated.
handleAgentInitialized(s) ==
    /\ work[s] = "agent-initialized"
    /\ Succeeds(s)
    /\ initMarker' = (initMarker \/ "marker" \notin Faults)
    /\ UNCHANGED <<cpVars, crashes, row, stream, regVars, lifeVars, postMarker, hooks, doomed,
                   dropped>>

\* The user CMD is forked, once a life; a failed fork closes the gates, and
\* PID 1 ends.
handleAgentReady(s) ==
    /\ work[s] = "agent-ready"
    /\ work' = [work EXCEPT ![s] = None]
    /\ \/ cmd' = "running" /\ Reply(s, "ok") /\ UNCHANGED exiting
       \/ /\ "spawn" \in Faults /\ cmd = "none"
          /\ Reply(s, "failed")
          /\ exiting' = TRUE
          /\ UNCHANGED cmd
    /\ UNCHANGED <<cpVars, crashes, row, stream, regVars, life, up, diskVars, doomed, dropped>>

-----------------------------------------------------------------------------
(* clawkerd: registration. *)

\* rc.mu is held by whoever is past it.
Holder == {s \in Session : reg[s] \in {"exchange", "rpc"}}

\* A consumed assertion is answered from the cache.
RegisterRun(s) ==
    /\ reg[s] = "want" /\ Holder = {}
    /\ \/ /\ consumed
          /\ reg' = [reg EXCEPT ![s] = "none"]
          /\ Reply(s, IF doneOK THEN "registered" ELSE "refused")
       \/ /\ ~consumed
          /\ reg' = [reg EXCEPT ![s] = "exchange"]
          /\ UNCHANGED answer
    /\ UNCHANGED <<cpVars, crashes, row, stream, work, consumed, doneOK, burned, answeredBy,
                   replayed, lifeVars, diskVars, doomed, dropped>>

Settle(s, ok) ==
    /\ reg' = [reg EXCEPT ![s] = "none"]
    /\ Reply(s, IF ok THEN "registered" ELSE "refused")

\* Variant: only a success is remembered.
ExchangeForgets(s) ==
    /\ reg[s] = "exchange"
    /\ \/ ~burned /\ reg' = [reg EXCEPT ![s] = "rpc"] /\ UNCHANGED answer
       \/ Settle(s, FALSE)
    /\ replayed' = (replayed \/ answeredBy)
    /\ answeredBy' = TRUE
    /\ burned' = TRUE
    /\ UNCHANGED <<cpVars, crashes, row, stream, work, consumed, doneOK, lifeVars, diskVars,
                   doomed, dropped>>

\* Hydra answers: a token for a fresh assertion, otherwise a rejection.
ExchangeAnswered(s) ==
    /\ reg[s] = "exchange"
    /\ \/ /\ ~burned
          /\ reg' = [reg EXCEPT ![s] = "rpc"]
          /\ UNCHANGED <<answer, consumed, doneOK>>
       \/ /\ burned \/ "hydra" \in Faults
          /\ Settle(s, FALSE)
          /\ consumed' = TRUE
          /\ doneOK' = FALSE
    /\ replayed' = (replayed \/ answeredBy)
    /\ answeredBy' = TRUE
    /\ burned' = TRUE
    /\ UNCHANGED <<cpVars, crashes, row, stream, work, lifeVars, diskVars, doomed, dropped>>

\* No answer: the request did not arrive, or ("lost") its answer did not.
ExchangeFails(s) ==
    /\ reg[s] = "exchange"
    /\ "hydra" \in Faults \/ ~Open(s)
    /\ Settle(s, FALSE)
    /\ \/ UNCHANGED burned
       \/ "lost" \in Faults /\ burned' = TRUE
    /\ UNCHANGED <<cpVars, crashes, row, stream, work, consumed, doneOK, answeredBy, replayed,
                   lifeVars, diskVars, doomed, dropped>>

\* AgentService.Register: the row is found or added, and Welcome returned; a
\* rejection leaves the registry alone.
Register(welcome) == row' = (row \/ welcome)

\* The RPC and the caching of its outcome; Welcome may be lost on the way.
RegisterRPC(s) ==
    /\ reg[s] = "rpc"
    /\ \/ Register(TRUE) /\ Settle(s, TRUE) /\ doneOK' = TRUE
       \/ /\ "rpc" \in Faults \/ ~Open(s)
          /\ \E welcome \in BOOLEAN : Register(welcome)
          /\ Settle(s, FALSE)
          /\ doneOK' = FALSE
    /\ consumed' = TRUE
    /\ UNCHANGED <<cpVars, crashes, stream, work, burned, answeredBy, replayed, lifeVars,
                   diskVars, doomed, dropped>>

-----------------------------------------------------------------------------
(* The container. *)

\* PID 1 ends: a step or the spawn asked for it, or the user CMD exited.
ContainerExits ==
    /\ up
    /\ exiting \/ cmd = "running"
    /\ ContainerEnds
    /\ UNCHANGED <<cpVars, crashes, row, answer, consumed, doneOK, burned, answeredBy,
                   replayed, diskVars, doomed, dropped>>

ContainerKilled ==
    /\ up /\ "die" \in Faults
    /\ ContainerEnds
    /\ UNCHANGED <<cpVars, crashes, row, answer, consumed, doneOK, burned, answeredBy,
                   replayed, diskVars, doomed, dropped>>

\* A restart: the writable layer is kept, the coordinator is new.
ContainerStarts ==
    /\ ~up /\ life < MaxLives
    /\ up' = TRUE
    /\ life' = life + 1
    /\ consumed' = FALSE /\ doneOK' = FALSE /\ answeredBy' = FALSE
    /\ UNCHANGED <<cpVars, crashes, row, stream, work, answer, reg, exiting, cmd, burned,
                   replayed, diskVars, doomed, dropped>>

-----------------------------------------------------------------------------
CP ==
    \/ Establish \/ DispatchAgentEvents \/ awaitRegisterDone \/ Gates
    \/ sendStepCommand \/ awaitStepResult \/ KillWaits \/ KillAfterGrace
    \/ KillSucceeds \/ drainStream

Clawkerd(s) ==
    \/ ShellStep(s) \/ handleAgentInitialized(s) \/ handleAgentReady(s)
    \/ RegisterRun(s) \/ ExchangeAnswered(s) \/ RegisterRPC(s)

Next ==
    \/ CP \/ Crash
    \/ \E s \in Session :
          \/ Clawkerd(s) \/ ShellFails(s) \/ ShellTimesOut(s) \/ ExchangeFails(s)
          \/ Break(s)
    \/ ContainerExits \/ ContainerKilled \/ ContainerStarts

\* Goroutines are scheduled, scripts end, and PID 1 carries a requested exit
\* out; the Docker API is tried for every doomed container.
Fairness ==
    /\ WF_vars(CP)
    /\ \A s \in Session : WF_vars(Clawkerd(s)) /\ WF_vars(~Open(s) /\ ShellFails(s))
    /\ WF_vars(exiting /\ ContainerExits)

Spec == Init /\ [][Next]_vars /\ Fairness

-----------------------------------------------------------------------------
(* Properties. *)

\* The variables have their types.
TypeOK ==
    /\ cp \in {"dial", "classify", "registering", "init?", "boot?", "send", "await",
               "kill", "grace", "drain"}
    /\ ses \in 0 .. MaxSessions
    /\ plan \in DOMAIN Plan /\ step \in 1 .. Len(Plan[plan])
    /\ stream \in [Session -> {"new", "up", "down"}]
    /\ work \in [Session -> Work \cup {None}]
    /\ answer \in [Session -> Answer \cup {None}]
    /\ reg \in [Session -> {"none", "want", "exchange", "rpc"}]
    /\ life \in 1 .. MaxLives /\ peer \in 0 .. life
    /\ waited \in 0 .. life /\ doomed \in 0 .. life

\* The user CMD runs only in a container whose init plan has been carried out
\* in full, in whatever order Sessions break, steps fail and either side
\* restarts: "the CMD forks only after init completes".
InitFirst == cmd = "running" => Steps(InitPlan) \subseteq finished

\* Once Hydra has answered it, a coordinator never presents its assertion
\* again, however often CP asks: "consumed at most once".
NoReplay == ~replayed

\* A step CP has seen fail ends that life of the container, although the boot
\* plan still follows a failed init plan.
FailureEndsLife ==
    \A l \in 1 .. MaxLives :
        (doomed = l) ~> (life # l \/ ~up \/ doomed # l)

\* Every life reaches its user CMD or ends: no refused registration, broken
\* stream or repeated plan leaves CP and clawkerd waiting for each other,
\* unless clawkerd drops an answer (see ClawkerdSession) or the streams of
\* the bound are used up.
BootSettles ==
    \A l \in 1 .. MaxLives :
        (up /\ life = l) ~> \/ cmd = "running" \/ ~up \/ life # l
                            \/ dropped \/ stream[MaxSessions] = "down"

\* "CmdRunning implies Initialized ... The inverse is structurally impossible."
NeverBypassed == ~(ack.cmdRunning /\ ~ack.initialized)

\* "A transient blip re-establishes and re-runs the plan": a break alone does
\* not take the container down.
BlipSurvives == ~exiting

\* "Contract: attempted at most once per container lifecycle."
HookOnce == hooks <= 1

\* "A return of (_, _, false) means the assertion is still usable and the
\* caller may retry."
UnconsumedMeansUsable == (life = 1 /\ Holder = {} /\ ~consumed) => ~burned

\* The SIGKILL of KillAfterGrace is for the life whose step failed.
KillsTheDoomed == cp = "grace" => waited = doomed
=============================================================================
