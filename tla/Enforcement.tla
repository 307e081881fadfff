---------------------------- MODULE Enforcement ----------------------------
(***************************************************************************)
(* Per-container enforcement in the firewall handler                       *)
(* (controlplane/firewall/handler.go, drift.go, ebpf/manager.go): the      *)
(* FirewallEnable, FirewallDisable, FirewallBypass, FirewallInit and       *)
(* FirewallRemove RPCs, the dead-man timers that end a bypass, and the     *)
(* drain sequence of internal/controlplane/cmd.go.                         *)
(*                                                                         *)
(* RPC goroutines, timer goroutines, the queue worker, the drain and       *)
(* Docker interleave.  What a closure does under one mutex or in one BPF   *)
(* map write is one action; a closure that takes several is several        *)
(* actions of the worker.  The queue is the FIFO that module ActionQueue   *)
(* proves it to be: none of these action kinds coalesces.                  *)
(***************************************************************************)
EXTENDS Naturals, Sequences, FiniteSets, TLC

CONSTANTS Container, \* agent containers
          Cgroup,    \* cgroup ids the kernel can hand out
          Call,      \* RPC calls; a bypass call also names its timer entry
          Op,        \* the RPCs that are called
          Faults,    \* which external operations may fail
          Recycle,   \* the kernel may hand out a dead cgroup's id again
          None

ASSUME OpAssumption ==
    Op \subseteq {"enable", "disable", "bypass", "init", "remove"}
ASSUME FaultAssumption ==
    Faults \subseteq {"docker", "install", "disable", "enable", "stack"}
ASSUME ConstantAssumption ==
    /\ Recycle \in BOOLEAN
    /\ None \notin Container \cup Cgroup \cup Call

VARIABLES
    cgroup,         \* Docker: the cgroup of each running container
    used,           \* kernel: cgroup ids handed out so far
    container_map,  \* BPF: cgroups with an enforcement row
    bypass_map,     \* BPF: "clear", or which RPC set the bypass flag
    storedCgroupID, \* h.storedCgroupID
    bypassTimers,   \* h.bypassTimers: the entry each container's key holds
    call,           \* the RPC goroutines
    timer,          \* the timer of each bypassEntry and its fire goroutine
    enableID,       \* what the fire goroutine resolved
    queue,          \* accepted jobs; restore marks a timer's Enable
    worker,         \* the step of the closure the worker is in, and its call
    todo,           \* containers reenrollAgents has still to visit
    drain           \* the step of runDrainSequence

rpcVars == <<call, storedCgroupID>>
mapVars == <<container_map, bypass_map>>
timerVars == <<bypassTimers, timer, enableID>>
workVars == <<queue, worker, todo>>
dockerVars == <<cgroup, used>>
vars == <<dockerVars, mapVars, rpcVars, timerVars, workVars, drain>>

CallStep == {"new", "resolved", "queued", "replied", "seeded", "done", "failed"}
CallState == [op : Op \cup {None}, on : Container \cup {None},
              id : Cgroup \cup {None}, pc : CallStep]
Job == [of : Call, restore : BOOLEAN]
Idle == [step |-> "idle", of |-> None]

TypeOK ==
    /\ cgroup \in [Container -> Cgroup \cup {None}]
    /\ used \subseteq Cgroup
    /\ container_map \subseteq Cgroup
    /\ bypass_map \in [Cgroup -> {"clear", "bypass", "disable"}]
    /\ storedCgroupID \in [Container -> Cgroup \cup {None}]
    /\ bypassTimers \in [Container -> Call \cup {None}]
    /\ call \in [Call -> CallState]
    /\ timer \in [Call -> {"none", "armed", "stopped", "fired", "resolved",
                           "queued", "answered", "done"}]
    /\ enableID \in [Call -> Cgroup \cup {None}]
    /\ \A k \in Call : timer[k] = "resolved" => enableID[k] \in Cgroup
    /\ queue \in Seq(Job)
    /\ worker \in [step : {"idle", "cancel", "enroll", "flush", "forget"},
                   of : Call \cup {None}]
    /\ todo \subseteq Container
    /\ drain \in {"serving", "closing", "stopping", "cancelling", "flushing",
                  "drained"}

Init ==
    /\ cgroup = [c \in Container |-> None]
    /\ used = {}
    /\ container_map = {}
    /\ bypass_map = [g \in Cgroup |-> "clear"]
    /\ storedCgroupID = [c \in Container |-> None]
    /\ bypassTimers = [c \in Container |-> None]
    /\ call = [k \in Call |-> [op |-> None, on |-> None, id |-> None,
                               pc |-> "new"]]
    /\ timer = [k \in Call |-> "none"]
    /\ enableID = [k \in Call |-> None]
    /\ queue = <<>>
    /\ worker = Idle
    /\ todo = {}
    /\ drain = "serving"

\* The queue rejects with ErrClosed from the moment Close begins.
closed == drain # "serving"

-----------------------------------------------------------------------------
(* Docker and the kernel *)

StartContainer(c) ==
    /\ cgroup[c] = None
    /\ \E g \in Cgroup :
          /\ \A d \in Container : cgroup[d] # g
          /\ Recycle \/ g \notin used
          /\ cgroup' = [cgroup EXCEPT ![c] = g]
          /\ used' = used \cup {g}
    /\ UNCHANGED <<mapVars, rpcVars, timerVars, workVars, drain>>

StopContainer(c) ==
    /\ cgroup[c] # None
    /\ cgroup' = [cgroup EXCEPT ![c] = None]
    /\ UNCHANGED <<used, mapVars, rpcVars, timerVars, workVars, drain>>

-----------------------------------------------------------------------------
(* The RPC goroutines, up to Submit.  GracefulStop admits no new call. *)

Admitted(k, op) ==
    /\ op \in Op
    /\ call[k].pc = "new"
    /\ drain \in {"serving", "closing", "stopping"}

Resolved(k, op, c, g) ==
    call' = [call EXCEPT ![k] = [op |-> op, on |-> c, id |-> g,
                                 pc |-> "resolved"]]

\* FirewallEnable: resolveForEnable.  A gone container ends the RPC with
\* ErrContainerGone and no effect.
ResolveEnable(k, c) ==
    /\ Admitted(k, "enable")
    /\ cgroup[c] # None
    /\ Resolved(k, "enable", c, cgroup[c])
    /\ storedCgroupID' = [storedCgroupID EXCEPT ![c] = cgroup[c]]
    /\ UNCHANGED <<dockerVars, mapVars, timerVars, workVars, drain>>

\* FirewallDisable: the fresh id, or the stored one of a gone container; a
\* container unknown to the handler is a no-op.
ResolveDisable(k, c) ==
    LET id == IF cgroup[c] # None THEN cgroup[c] ELSE storedCgroupID[c]
    IN  /\ Admitted(k, "disable")
        /\ id # None
        /\ Resolved(k, "disable", c, id)
        /\ UNCHANGED <<dockerVars, mapVars, storedCgroupID, timerVars,
                       workVars, drain>>

ResolveBypass(k, c) ==
    /\ Admitted(k, "bypass")
    /\ cgroup[c] # None
    /\ Resolved(k, "bypass", c, cgroup[c])
    /\ UNCHANGED <<dockerVars, mapVars, storedCgroupID, timerVars, workVars,
                   drain>>

\* FirewallInit and FirewallRemove name no container.
BeginGlobal(k, op) ==
    /\ Admitted(k, op)
    /\ op \in {"init", "remove"}
    /\ Resolved(k, op, None, None)
    /\ UNCHANGED <<dockerVars, mapVars, storedCgroupID, timerVars, workVars,
                   drain>>

\* Network discovery or the host proxy lookup fails before Submit.
AbandonEnable(k) ==
    /\ "stack" \in Faults
    /\ call[k].pc = "resolved"
    /\ call[k].op = "enable"
    /\ call' = [call EXCEPT ![k].pc = "failed"]
    /\ UNCHANGED <<dockerVars, mapVars, storedCgroupID, timerVars, workVars,
                   drain>>

SubmitCall(k) ==
    /\ call[k].pc = "resolved"
    /\ IF closed
       THEN /\ call' = [call EXCEPT ![k].pc = "failed"]
            /\ UNCHANGED queue
       ELSE /\ call' = [call EXCEPT ![k].pc = "queued"]
            /\ queue' = Append(queue, [of |-> k, restore |-> FALSE])
    /\ UNCHANGED <<dockerVars, mapVars, storedCgroupID, timerVars, worker,
                   todo, drain>>

-----------------------------------------------------------------------------
(* FirewallBypass after its closure replied: seed storedCgroupID, then arm *)
(* the dead-man timer, each under its own mutex.                           *)

SeedStored(k) ==
    /\ call[k].op = "bypass"
    /\ call[k].pc = "replied"
    /\ storedCgroupID' = [storedCgroupID EXCEPT ![call[k].on] = call[k].id]
    /\ call' = [call EXCEPT ![k].pc = "seeded"]
    /\ UNCHANGED <<dockerVars, mapVars, timerVars, workVars, drain>>

\* timer.Stop of the entries es: a timer that has fired is past stopping.
Stopped(es) ==
    [e \in Call |-> IF e \in es /\ timer[e] = "armed" THEN "stopped"
                                                      ELSE timer[e]]

\* Variant: an existing entry is stopped and dropped, the new one not armed.
ArmTimerIfAbsent(k) ==
    LET c == call[k].on IN
    /\ call[k].pc = "seeded"
    /\ IF bypassTimers[c] = None
       THEN /\ timer' = [timer EXCEPT ![k] = "armed"]
            /\ bypassTimers' = [bypassTimers EXCEPT ![c] = k]
       ELSE /\ timer' = Stopped({bypassTimers[c]})
            /\ bypassTimers' = [bypassTimers EXCEPT ![c] = None]
    /\ call' = [call EXCEPT ![k].pc = "done"]
    /\ UNCHANGED <<dockerVars, mapVars, storedCgroupID, enableID, workVars,
                   drain>>

ArmTimer(k) ==
    LET c == call[k].on IN
    /\ call[k].pc = "seeded"
    /\ timer' = [Stopped({bypassTimers[c]}) EXCEPT ![k] = "armed"]
    /\ bypassTimers' = [bypassTimers EXCEPT ![c] = k]
    /\ call' = [call EXCEPT ![k].pc = "done"]
    /\ UNCHANGED <<dockerVars, mapVars, storedCgroupID, enableID, workVars,
                   drain>>

-----------------------------------------------------------------------------
(* bypassTimerFired *)

\* Variant: the timer waits under the ctx of its RPC and dies with the call.
FireInCall(k) ==
    /\ timer[k] = "armed"
    /\ call[k].pc # "done"
    /\ timer' = [timer EXCEPT ![k] = "fired"]
    /\ UNCHANGED <<dockerVars, mapVars, rpcVars, bypassTimers, enableID,
                   workVars, drain>>

Fire(k) ==
    /\ timer[k] = "armed"
    /\ timer' = [timer EXCEPT ![k] = "fired"]
    /\ UNCHANGED <<dockerVars, mapVars, rpcVars, bypassTimers, enableID,
                   workVars, drain>>

\* resolveBypassCgroupID: the fresh id of a live container; the id of
\* bypass time when the container is gone or the lookup fails.
resolveBypassCgroupID(k) ==
    LET fresh == {cgroup[call[k].on]} \ {None}
        fallback == {call[k].id}
    IN  /\ timer[k] = "fired"
        /\ \E id \in IF fresh = {} THEN fallback
                     ELSE IF "docker" \in Faults THEN fresh \cup fallback
                     ELSE fresh :
              enableID' = [enableID EXCEPT ![k] = id]
        /\ timer' = [timer EXCEPT ![k] = "resolved"]
        /\ UNCHANGED <<dockerVars, mapVars, rpcVars, bypassTimers, workVars,
                       drain>>

SubmitRestore(k) ==
    /\ timer[k] = "resolved"
    /\ IF closed
       THEN /\ timer' = [timer EXCEPT ![k] = "answered"]
            /\ UNCHANGED queue
       ELSE /\ timer' = [timer EXCEPT ![k] = "queued"]
            /\ queue' = Append(queue, [of |-> k, restore |-> TRUE])
    /\ UNCHANGED <<dockerVars, mapVars, rpcVars, bypassTimers, enableID,
                   worker, todo, drain>>

\* The deferred delete: whatever entry the key holds by now is dropped.
ForgetEntry(k) ==
    /\ timer[k] = "answered"
    /\ timer' = [timer EXCEPT ![k] = "done"]
    /\ bypassTimers' = [bypassTimers EXCEPT ![call[k].on] = None]
    /\ UNCHANGED <<dockerVars, mapVars, rpcVars, enableID, workVars, drain>>

-----------------------------------------------------------------------------
(* The queue worker *)

Take(job) ==
    /\ worker = Idle
    /\ queue # <<>>
    /\ job = Head(queue)
    /\ queue' = Tail(queue)

Answer(k, pc) == call' = [call EXCEPT ![k].pc = pc]

\* Disable, shared by FirewallDisable and FirewallBypass.
RunDisable(k) ==
    /\ Take([of |-> k, restore |-> FALSE])
    /\ call[k].op \in {"disable", "bypass"}
    /\ \/ /\ bypass_map' = [bypass_map EXCEPT ![call[k].id] = call[k].op]
          /\ Answer(k, IF call[k].op = "bypass" THEN "replied" ELSE "done")
       \/ /\ "disable" \in Faults
          /\ Answer(k, "failed")
          /\ UNCHANGED bypass_map
    /\ UNCHANGED <<dockerVars, container_map, storedCgroupID, timerVars,
                   worker, todo, drain>>

\* The timer's Enable.
RunRestore(k) ==
    /\ Take([of |-> k, restore |-> TRUE])
    /\ \/ bypass_map' = [bypass_map EXCEPT ![enableID[k]] = "clear"]
       \/ "enable" \in Faults /\ UNCHANGED bypass_map
    /\ timer' = [timer EXCEPT ![k] = "answered"]
    /\ UNCHANGED <<dockerVars, container_map, rpcVars, bypassTimers, enableID,
                   worker, todo, drain>>

\* Install clears the flag, writes the row, then attaches; it may fail
\* before or after the row is written.
InstallOK(g) ==
    /\ bypass_map' = [bypass_map EXCEPT ![g] = "clear"]
    /\ container_map' = container_map \cup {g}

InstallFails(g) ==
    /\ "install" \in Faults
    /\ bypass_map' = [bypass_map EXCEPT ![g] = "clear"]
    /\ container_map' \in {container_map, container_map \cup {g}}

\* FirewallEnable's closure: Install, then cancelBypassTimer.
RunEnable(k) ==
    /\ Take([of |-> k, restore |-> FALSE])
    /\ call[k].op = "enable"
    /\ \/ /\ InstallOK(call[k].id)
          /\ worker' = [step |-> "cancel", of |-> k]
          /\ UNCHANGED call
       \/ /\ InstallFails(call[k].id)
          /\ Answer(k, "failed")
          /\ UNCHANGED worker
    /\ UNCHANGED <<dockerVars, storedCgroupID, timerVars, todo, drain>>

\* Variant: the timer is stopped, its entry left behind.
CancelKeepsEntry(k) ==
    /\ worker = [step |-> "cancel", of |-> k]
    /\ timer' = Stopped({bypassTimers[call[k].on]})
    /\ worker' = Idle
    /\ Answer(k, "done")
    /\ UNCHANGED <<dockerVars, mapVars, storedCgroupID, bypassTimers,
                   enableID, queue, todo, drain>>

cancelBypassTimer(k) ==
    /\ worker = [step |-> "cancel", of |-> k]
    /\ timer' = Stopped({bypassTimers[call[k].on]})
    /\ bypassTimers' = [bypassTimers EXCEPT ![call[k].on] = None]
    /\ worker' = Idle
    /\ Answer(k, "done")
    /\ UNCHANGED <<dockerVars, mapVars, storedCgroupID, enableID, queue, todo,
                   drain>>

\* FirewallInit's closure up to listAgents; a stack that does not come up
\* ends it.
RunInit(k) ==
    /\ Take([of |-> k, restore |-> FALSE])
    /\ call[k].op = "init"
    /\ \/ /\ worker' = [step |-> "enroll", of |-> k]
          /\ todo' = {c \in Container : cgroup[c] # None}
          /\ UNCHANGED call
       \/ /\ "stack" \in Faults
          /\ Answer(k, "failed")
          /\ UNCHANGED <<worker, todo>>
    /\ UNCHANGED <<dockerVars, mapVars, storedCgroupID, timerVars, drain>>

\* reenrollAgents, one container: gone or failed ones are skipped.
Reenroll(k, c) ==
    /\ worker = [step |-> "enroll", of |-> k]
    /\ c \in todo
    /\ todo' = todo \ {c}
    /\ \/ /\ cgroup[c] # None
          /\ InstallOK(cgroup[c])
          /\ storedCgroupID' = [storedCgroupID EXCEPT ![c] = cgroup[c]]
       \/ /\ cgroup[c] # None
          /\ InstallFails(cgroup[c])
          /\ UNCHANGED storedCgroupID
       \/ /\ cgroup[c] = None \/ "docker" \in Faults
          /\ UNCHANGED <<mapVars, storedCgroupID>>
    /\ UNCHANGED <<dockerVars, call, timerVars, queue, worker, drain>>

InitDone(k) ==
    /\ worker = [step |-> "enroll", of |-> k]
    /\ todo = {}
    /\ worker' = Idle
    /\ Answer(k, "done")
    /\ UNCHANGED <<dockerVars, mapVars, storedCgroupID, timerVars, queue,
                   todo, drain>>

CancelAllBypassTimers ==
    /\ timer' = Stopped({bypassTimers[c] : c \in Container})
    /\ bypassTimers' = [c \in Container |-> None]

FlushAll ==
    /\ container_map' = {}
    /\ bypass_map' = [g \in Cgroup |-> "clear"]

\* FirewallRemove's closure: cancel the timers, stop the stack and flush,
\* forget the stored ids.
RunRemove(k) ==
    /\ Take([of |-> k, restore |-> FALSE])
    /\ call[k].op = "remove"
    /\ CancelAllBypassTimers
    /\ worker' = [step |-> "flush", of |-> k]
    /\ UNCHANGED <<dockerVars, mapVars, rpcVars, enableID, todo, drain>>

RemoveFlush(k) ==
    /\ worker = [step |-> "flush", of |-> k]
    /\ FlushAll
    /\ worker' = [step |-> "forget", of |-> k]
    /\ UNCHANGED <<dockerVars, rpcVars, timerVars, queue, todo, drain>>

RemoveForget(k) ==
    /\ worker = [step |-> "forget", of |-> k]
    /\ storedCgroupID' = [c \in Container |-> None]
    /\ worker' = Idle
    /\ Answer(k, "done")
    /\ UNCHANGED <<dockerVars, mapVars, timerVars, queue, todo, drain>>

-----------------------------------------------------------------------------
(* runDrainSequence *)

DrainTo(from, to) == drain = from /\ drain' = to

\* actionQueue.Close rejects from now on ...
DrainClose ==
    /\ DrainTo("serving", "closing")
    /\ UNCHANGED <<dockerVars, mapVars, rpcVars, timerVars, workVars>>

\* ... and returns once the worker has drained what was accepted.
DrainClosed ==
    /\ DrainTo("closing", "stopping")
    /\ queue = <<>>
    /\ worker = Idle
    /\ UNCHANGED <<dockerVars, mapVars, rpcVars, timerVars, workVars>>

\* GracefulStop waits for the handlers, but not past its context: a handler
\* may outlive it.
DrainStopRPC ==
    /\ DrainTo("stopping", "cancelling")
    /\ UNCHANGED <<dockerVars, mapVars, rpcVars, timerVars, workVars>>

DrainCancel ==
    /\ DrainTo("cancelling", "flushing")
    /\ CancelAllBypassTimers
    /\ UNCHANGED <<dockerVars, mapVars, rpcVars, enableID, workVars>>

DrainFlush ==
    /\ DrainTo("flushing", "drained")
    /\ FlushAll
    /\ UNCHANGED <<dockerVars, rpcVars, timerVars, workVars>>

-----------------------------------------------------------------------------
Docker == \E c \in Container : StartContainer(c) \/ StopContainer(c)

Client ==
    \E k \in Call :
        \/ \E c \in Container : \/ ResolveEnable(k, c)
                                \/ ResolveDisable(k, c)
                                \/ ResolveBypass(k, c)
        \/ \E op \in Op : BeginGlobal(k, op)

\* An RPC goroutine that has begun.
Handler(k) ==
    AbandonEnable(k) \/ SubmitCall(k) \/ SeedStored(k) \/ ArmTimer(k)

Timer(k) ==
    Fire(k) \/ resolveBypassCgroupID(k) \/ SubmitRestore(k) \/ ForgetEntry(k)

Worker ==
    \E k \in Call :
        \/ RunDisable(k) \/ RunRestore(k) \/ RunEnable(k) \/ RunInit(k)
        \/ RunRemove(k)
        \/ cancelBypassTimer(k) \/ InitDone(k)
        \/ \E c \in Container : Reenroll(k, c)
        \/ RemoveFlush(k) \/ RemoveForget(k)

Drain ==
    \/ DrainClose \/ DrainClosed \/ DrainStopRPC \/ DrainCancel \/ DrainFlush

Next ==
    \/ Docker
    \/ Client
    \/ \E k \in Call : Handler(k) \/ Timer(k)
    \/ Worker
    \/ Drain

Spec == Init /\ [][Next]_vars

\* Goroutines run, armed timers expire, and a drain that began goes on;
\* nobody is obliged to call an RPC, stop a container or start a drain.
Fairness ==
    /\ \A k \in Call : WF_vars(Handler(k)) /\ WF_vars(Timer(k))
    /\ WF_vars(Worker)
    /\ WF_vars(closed /\ Drain)

FairSpec == Spec /\ Fairness

\* Calls are interchangeable, and so are the cgroup ids.
Symmetry == Permutations(Call) \cup Permutations(Cgroup)

-----------------------------------------------------------------------------
(* Properties *)

\* Container c is enrolled, and its cgroup's flag is up because of a
\* FirewallBypass.
Bypassed(c) ==
    /\ cgroup[c] \in container_map
    /\ bypass_map[cgroup[c]] = "bypass"

\* Something will still take the flag of c down: a bypass call about to arm
\* its timer, a timer armed or just fired, a restore on its way to this very
\* cgroup, or a flush.
Guarded(c) ==
    \/ \E b \in Call :
          /\ call[b].op = "bypass"
          /\ call[b].on = c
          /\ \/ call[b].pc \in {"replied", "seeded"}
             \/ timer[b] \in {"armed", "fired"}
             \/ timer[b] \in {"resolved", "queued"} /\ enableID[b] = cgroup[c]
    \/ worker.step = "flush"
    \/ closed

\* A bypass never loses its dead man: however Enable, Disable, Bypass, Init
\* and Remove calls, their closures and the timers interleave, a running
\* container that a FirewallBypass opened has something left that will
\* restore its enforcement.
DeadManGuard == \A c \in Container : Bypassed(c) => Guarded(c)

\* h.bypassTimers never holds an entry whose timer was stopped: every key
\* leads to a timer of that container that is pending or whose fire
\* goroutine is still under way.
EntriesAreLive ==
    \A c \in Container : bypassTimers[c] # None =>
        LET e == bypassTimers[c] IN
        /\ call[e].on = c
        /\ timer[e] \in {"armed", "fired", "resolved", "queued", "answered"}

\* After the drain's FlushAll no enforcement state is left and none comes
\* back: late RPC goroutines and timers find the queue closed.
DrainIsFinal ==
    drain = "drained" =>
        /\ container_map = {}
        /\ \A g \in Cgroup : bypass_map[g] = "clear"
        /\ worker = Idle /\ queue = <<>>

\* A bypass ends: the flag that a FirewallBypass set on a running container
\* goes down again.
BypassEnds == \A c \in Container : Bypassed(c) ~> ~Bypassed(c)

-----------------------------------------------------------------------------
(* What comments of the code say, and the model refutes *)

\* handler.go:476-479: "no concurrent FirewallBypass call can install a new
\* timer between a pre-Submit cancel and the queued FlushAll".
NoTimerDuringTeardown ==
    worker.step = "flush" => \A c \in Container : bypassTimers[c] = None

\* handler.go:1137: CancelAllBypassTimers "stops every pending dead-man
\* timer".
CancelStopsEveryTimer ==
    [][(\E k \in Call : RunRemove(k)) =>
            \A e \in Call : timer'[e] # "armed"]_vars

\* handler.go:691-694: a FirewallDisable "issued mid-bypass on a now-gone
\* container can still clear the bypass_map entry".
DisableClearsGone ==
    [][\A k \in Call :
          /\ RunDisable(k)
          /\ call[k].op = "disable"
          /\ cgroup[call[k].on] = None
          /\ call'[k].pc = "done"
          => bypass_map'[call[k].id] = "clear"]_vars

=============================================================================
