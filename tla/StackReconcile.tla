--------------------------- MODULE StackReconcile ---------------------------
(***************************************************************************)
(* How a change to the egress rules reaches the running firewall           *)
(* (controlplane/firewall/handler.go, the rule RPCs and their queued       *)
(* closures, and controlplane/firewall/stack.go).                          *)
(*                                                                         *)
(* A rule RPC writes the rules store before it submits; the queue's worker *)
(* then regenerates envoy.yaml and the Corefile, restarts both containers  *)
(* and replays the routes into the BPF route_map.  The store's contents    *)
(* are abstracted to a version number, and everything derived from them to *)
(* the version it was derived from.  Envoy reads its static config when it *)
(* starts; CoreDNS also polls its Corefile (reload 2s).                    *)
(***************************************************************************)
EXTENDS Naturals, Sequences, FiniteSets, TLC

CONSTANTS Call,    \* RPC calls
          Op,      \* the RPCs they may be
          Faults,  \* what may go wrong
          Exits,   \* containers that may exit by themselves
          MaxFaults,  \* bound: failures, exits and crashes
          None

Service == {"envoy", "coredns"}
Reconcile == {"write", "reload"}   \* the RPCs that queue ActionReconcile

ASSUME OpAssumption == Op \subseteq Reconcile \cup {"same", "init", "remove"}
ASSUME FaultAssumption ==
    Faults \subseteq {"config", "docker", "health", "routes", "crash"}
ASSUME ExitsAssumption == Exits \subseteq Service
ASSUME BoundAssumption == MaxFaults \in Nat

Reply == {"unchanged", "notRunning", "restarted", "up", "down", "error", "lost"}

ASSUME NoneAssumption == None \notin Nat \cup Reply

VARIABLES
    store,      \* version of the rules store
    file,       \* version of envoy.yaml and of the Corefile, or None
    container,  \* Docker's state of the two containers
    live,       \* version each process has loaded
    drifted,    \* containers whose labels no longer match their spec
    route_map,  \* version the BPF map was filled from, None while it is not
    call,       \* where each RPC is
    op,         \* which RPC it is
    wrote,      \* the store version it wrote, or found
    reply,      \* its answer
    queue,      \* the action queue
    batch,      \* calls whose shared closure the worker runs
    step,       \* where in the closure the worker is
    failed,     \* len(errs) > 0
    routes,     \* the routes read from the store for SyncRoutes
    faults      \* what has gone wrong so far

stackVars == <<file, container, live, drifted, route_map>>
callVars == <<store, call, op, wrote, reply, queue>>
vars == <<stackVars, callVars, batch, step, failed, routes, faults>>

\* Where the worker can be in a closure.
Step == {"idle", "status", "configs", "probe", "envoy", "coredns",
         "ensure envoy", "ensure coredns", "health", "read routes", "clear",
         "fill", "stop", "remove configs"}

\* One more thing of kind f goes wrong, if the bound allows; or nothing.
Fails(f) == f \in Faults /\ faults < MaxFaults /\ faults' = faults + 1
Bool(f) == IF f \in Faults /\ faults < MaxFaults THEN BOOLEAN ELSE {FALSE}
Count(bad) == faults' = IF bad THEN faults + 1 ELSE faults

Init ==
    /\ store = 0
    /\ file = [s \in Service |-> None]
    /\ container = [s \in Service |-> "absent"]
    /\ live = [s \in Service |-> 0]
    /\ drifted = {}
    /\ route_map = None
    /\ call = [k \in Call |-> "idle"]
    /\ op = [k \in Call |-> None]
    /\ wrote = [k \in Call |-> 0]
    /\ reply = [k \in Call |-> None]
    /\ queue = <<>>
    /\ batch = <<>>
    /\ step = "idle"
    /\ failed = FALSE
    /\ routes = 0
    /\ faults = 0

Running == \A s \in Service : container[s] = "running"

-----------------------------------------------------------------------------
(* The RPC goroutines. *)

\* addRulesToStore, removeRuleFromStore and removePathRuleFromStore: one
\* store transaction, durable before the call is queued.
WriteStore(k) ==
    /\ call[k] = "idle"
    /\ "write" \in Op
    /\ store' = store + 1
    /\ wrote' = [wrote EXCEPT ![k] = store + 1]
    /\ op' = [op EXCEPT ![k] = "write"]
    /\ call' = [call EXCEPT ![k] = "submit"]
    /\ UNCHANGED <<stackVars, reply, queue, batch, step, failed, routes, faults>>

\* anyAddChange is false, or the rule to remove is not found: the RPC
\* returns without queueing a reconcile.
NothingToWrite(k) ==
    /\ call[k] = "idle"
    /\ "same" \in Op
    /\ wrote' = [wrote EXCEPT ![k] = store]
    /\ op' = [op EXCEPT ![k] = "same"]
    /\ reply' = [reply EXCEPT ![k] = "unchanged"]
    /\ call' = [call EXCEPT ![k] = "done"]
    /\ UNCHANGED <<stackVars, store, queue, batch, step, failed, routes, faults>>

\* FirewallReload, FirewallSyncRoutes, FirewallInit and FirewallRemove do
\* nothing before they submit.
BeginOther(k, o) ==
    /\ call[k] = "idle"
    /\ o \in Op \ {"write", "same"}
    /\ wrote' = [wrote EXCEPT ![k] = store]
    /\ op' = [op EXCEPT ![k] = o]
    /\ call' = [call EXCEPT ![k] = "submit"]
    /\ UNCHANGED <<stackVars, store, reply, queue, batch, step, failed,
                   routes, faults>>

Submit(k) ==
    /\ call[k] = "submit"
    /\ call' = [call EXCEPT ![k] = "queued"]
    /\ queue' = Append(queue, k)
    /\ UNCHANGED <<stackVars, store, op, wrote, reply, batch, step, failed,
                   routes, faults>>

-----------------------------------------------------------------------------
(* The worker. *)

InQueue == {queue[i] : i \in 1 .. Len(queue)}
InBatch == {batch[i] : i \in 1 .. Len(batch)}

\* Variant: only a queue of nothing but reconciles coalesces.
TogetherToTheEnd(n) ==
    /\ n > 1 => \A i \in 1 .. n : op[queue[i]] \in Reconcile
    /\ op[queue[1]] \in Reconcile => n = Len(queue)

\* next: the head or, when it is a reconcile, the longest run of reconciles.
Together(n) ==
    /\ n > 1 => \A i \in 1 .. n : op[queue[i]] \in Reconcile
    /\ op[queue[1]] \in Reconcile /\ n < Len(queue)
          => op[queue[n + 1]] \notin Reconcile

Pop(n) ==
    /\ step = "idle"
    /\ Together(n)
    /\ batch' = SubSeq(queue, 1, n)
    /\ queue' = SubSeq(queue, n + 1, Len(queue))
    /\ step' = CASE op[queue[1]] \in Reconcile -> "status"
                 [] op[queue[1]] = "init" -> "configs"
                 [] op[queue[1]] = "remove" -> "stop"
    /\ failed' = FALSE
    /\ UNCHANGED <<stackVars, store, call, op, wrote, reply, routes, faults>>

\* The reply loop: everyone in the batch receives the closure's result.
Answer(r) ==
    /\ reply' = [k \in Call |-> IF k \in InBatch THEN r ELSE reply[k]]
    /\ call' = [k \in Call |-> IF k \in InBatch THEN "done" ELSE call[k]]
    /\ queue' = queue
    /\ batch' = <<>>
    /\ step' = "idle"

GoTo(s) == step' = s /\ UNCHANGED <<call, reply, queue, batch>>

Reconciling == op[batch[1]] \in Reconcile

\* reconcileStackClosure's probe.
Status ==
    /\ step = "status"
    /\ IF Running THEN GoTo("configs") ELSE Answer("notRunning")
    /\ UNCHANGED <<stackVars, store, op, wrote, failed, routes, faults>>

\* ensureConfigs: read (and heal) the rules in one transaction, then write
\* envoy.yaml and the Corefile.  infraCertsReady may flip, which makes the
\* containers' labels differ from their specs.
ensureConfigs ==
    /\ step = "configs"
    /\ \E flip \in BOOLEAN : drifted' = IF flip THEN Service ELSE drifted
    /\ file' = [s \in Service |-> store]
    /\ GoTo(IF Reconciling THEN "probe" ELSE "ensure envoy")
    /\ UNCHANGED <<container, live, route_map, store, op, wrote, failed,
                   routes, faults>>

\* It failed, before or after it wrote envoy.yaml.  Reload gives up and the
\* routes are replayed all the same; EnsureRunning gives up.
ConfigsFail ==
    /\ step = "configs"
    /\ Fails("config")
    /\ file' \in {file, [file EXCEPT !["envoy"] = store]}
    /\ IF Reconciling THEN GoTo("read routes") ELSE Answer("error")
    /\ failed' = TRUE
    /\ UNCHANGED <<container, live, drifted, route_map, store, op, wrote,
                   routes>>

\* Reload's own probe: it returns nil when a container is not running.
Probe ==
    /\ step = "probe"
    /\ GoTo(IF Running THEN "envoy" ELSE "read routes")
    /\ UNCHANGED <<stackVars, store, op, wrote, failed, routes, faults>>

\* Docker does not answer: the closure's probe, Reload's probe or network
\* lookup, EnsureRunning's network.
DockerFails ==
    /\ Fails("docker")
    /\ \/ step = "status" /\ Answer("error")
       \/ step = "probe" /\ GoTo("read routes")
       \/ step = "configs" /\ ~Reconciling /\ Answer("error")
    /\ failed' = TRUE
    /\ UNCHANGED <<stackVars, store, op, wrote, routes>>

After(s) == IF s = "envoy" THEN "coredns" ELSE "health"
EnsureStep(s) == IF s = "envoy" THEN "ensure envoy" ELSE "ensure coredns"
EnsureNext(s) == IF s = "envoy" THEN "ensure coredns" ELSE "health"

Start(s) ==
    /\ container' = [container EXCEPT ![s] = "running"]
    /\ live' = [live EXCEPT ![s] = file[s]]
    /\ drifted' = drifted \ {s}

\* Variant: a container whose labels match is left alone.
ReloadOnDrift(s) ==
    /\ step = s
    /\ container[s] # "absent"
    /\ IF s \in drifted \/ container[s] # "running"
       THEN Start(s)
       ELSE UNCHANGED <<container, live, drifted>>
    /\ GoTo(IF s = "coredns" /\ failed THEN "read routes" ELSE After(s))
    /\ UNCHANGED <<file, route_map, store, op, wrote, failed, routes, faults>>

\* reloadContainer: restarted in place, or recreated when the labels drifted.
reloadContainer(s) ==
    /\ step = s
    /\ container[s] # "absent"
    /\ Start(s)
    /\ GoTo(IF s = "coredns" /\ failed THEN "read routes" ELSE After(s))
    /\ UNCHANGED <<file, route_map, store, op, wrote, failed, routes, faults>>

\* It failed: the container is as it was, or stopped, or (a drifted one that
\* was being recreated) gone.  CoreDNS is reloaded even when Envoy failed.
ReloadFails(s) ==
    /\ step = s
    /\ IF container[s] = "absent" THEN UNCHANGED faults ELSE Fails("docker")
    /\ \E c \in {container[s]}
            \cup (IF container[s] = "absent" THEN {} ELSE {"stopped"})
            \cup (IF s \in drifted THEN {"absent"} ELSE {}) :
          container' = [container EXCEPT ![s] = c]
    /\ failed' = TRUE
    /\ GoTo(IF s = "coredns" THEN "read routes" ELSE After(s))
    /\ UNCHANGED <<file, live, drifted, route_map, store, op, wrote, routes>>

\* ensureContainer: a running container whose labels match is left alone,
\* any other is started or recreated.
ensureContainer(s) ==
    /\ step = EnsureStep(s)
    /\ IF container[s] = "running" /\ s \notin drifted
       THEN UNCHANGED <<container, live, drifted>>
       ELSE Start(s)
    /\ GoTo(EnsureNext(s))
    /\ UNCHANGED <<file, route_map, store, op, wrote, failed, routes, faults>>

EnsureFails(s) ==
    /\ step = EnsureStep(s)
    /\ Fails("docker")
    /\ \E c \in {container[s]}
            \cup (IF container[s] # "running" \/ s \in drifted
                  THEN {"stopped", "absent"} ELSE {}) :
          container' = [container EXCEPT ![s] = c]
    /\ Answer("error")
    /\ UNCHANGED <<file, live, drifted, route_map, store, op, wrote, failed,
                   routes>>

\* WaitForHealthy, and the Status that FirewallInit takes after it.
WaitForHealthy ==
    /\ step = "health"
    /\ Running
    /\ GoTo("read routes")
    /\ UNCHANGED <<stackVars, store, op, wrote, failed, routes, faults>>

\* Its deadline expired.  Reload collects the error, EnsureRunning returns it.
HealthFails ==
    /\ step = "health"
    /\ IF Running THEN Fails("health") ELSE UNCHANGED faults
    /\ IF Reconciling THEN GoTo("read routes") ELSE Answer("error")
    /\ failed' = TRUE
    /\ UNCHANGED <<stackVars, store, op, wrote, routes>>

\* Variant: FirewallInit leaves the routes to the next rule change.
RoutesOnReconcile ==
    /\ step = "read routes"
    /\ routes' = store
    /\ IF Reconciling THEN GoTo("clear") ELSE Answer("up")
    /\ UNCHANGED <<stackVars, store, op, wrote, failed, faults>>

\* routesFromStore.
routesFromStore ==
    /\ step = "read routes"
    /\ routes' = store
    /\ GoTo("clear")
    /\ UNCHANGED <<stackVars, store, op, wrote, failed, faults>>

\* SyncRoutes empties the map and then fills it, entry by entry.
SyncRoutesClear ==
    /\ step = "clear"
    /\ route_map' = None
    /\ GoTo("fill")
    /\ UNCHANGED <<file, container, live, drifted, store, op, wrote, failed,
                   routes, faults>>

\* Some updates may fail; FirewallInit only logs that.
SyncRoutesFill ==
    /\ step = "fill"
    /\ \E bad \in Bool("routes") :
          /\ Count(bad)
          /\ route_map' = IF bad THEN None ELSE routes
          /\ Answer(CASE ~Reconciling -> "up"
                      [] Reconciling /\ (failed \/ bad) -> "error"
                      [] Reconciling /\ ~failed /\ ~bad -> "restarted")
    /\ UNCHANGED <<file, container, live, drifted, store, op, wrote, failed,
                   routes>>

\* FirewallRemove's closure: Stack.Stop removes both containers; one that
\* Docker does not remove may be left stopped.
StopStack ==
    /\ step = "stop"
    /\ \E bad \in SUBSET {s \in Service : container[s] # "absent"} :
          /\ bad # {} => TRUE \in Bool("docker")
          /\ Count(bad # {})
          /\ failed' = (bad # {})
          /\ container' \in [Service -> {"absent", "stopped", "running"}]
          /\ \A s \in Service :
                \/ container'[s] = "absent" /\ s \notin bad
                \/ container'[s] \in {"stopped", container[s]} /\ s \in bad
    /\ GoTo("remove configs")
    /\ UNCHANGED <<file, live, drifted, route_map, store, op, wrote, routes>>

removeGeneratedConfigs ==
    /\ step = "remove configs"
    /\ file' = [s \in Service |-> None]
    /\ Answer(IF failed THEN "error" ELSE "down")
    /\ UNCHANGED <<container, live, drifted, route_map, store, op, wrote,
                   failed, routes, faults>>

-----------------------------------------------------------------------------
(* The surroundings. *)

\* CoreDNS's reload plugin notices a changed Corefile.
CorednsReload ==
    /\ container["coredns"] = "running"
    /\ file["coredns"] \notin {None, live["coredns"]}
    /\ live' = [live EXCEPT !["coredns"] = file["coredns"]]
    /\ UNCHANGED <<file, container, drifted, route_map, callVars, batch, step,
                   failed, routes, faults>>

\* A container exits or is stopped; its restart policy may bring it back.
ContainerExits(s) ==
    /\ s \in Exits /\ faults < MaxFaults /\ Count(TRUE)
    /\ container[s] = "running"
    /\ container' = [container EXCEPT ![s] = "stopped"]
    /\ UNCHANGED <<file, live, drifted, route_map, callVars, batch, step,
                   failed, routes>>

ContainerRevives(s) ==
    /\ s \in Exits
    /\ container[s] = "stopped"
    /\ file[s] # None
    /\ container' = [container EXCEPT ![s] = "running"]
    /\ live' = [live EXCEPT ![s] = file[s]]
    /\ UNCHANGED <<file, drifted, route_map, callVars, batch, step, failed,
                   routes, faults>>

\* The control plane dies and is started again: the store, the files, the
\* containers and the pinned route_map are what is left.
ControlPlaneCrash ==
    LET pending == {k \in Call : call[k] \in {"submit", "queued"}}
    IN  /\ Fails("crash")
        /\ pending # {}
        /\ call' = [k \in Call |-> IF k \in pending THEN "done" ELSE call[k]]
        /\ reply' = [k \in Call |-> IF k \in pending THEN "lost" ELSE reply[k]]
        /\ queue' = <<>>
        /\ batch' = <<>>
        /\ step' = "idle"
        /\ failed' = FALSE
        /\ UNCHANGED <<stackVars, store, op, wrote, routes>>

-----------------------------------------------------------------------------
Worker ==
    \/ \E n \in 1 .. Len(queue) : Pop(n)
    \/ Status
    \/ ensureConfigs
    \/ ConfigsFail
    \/ Probe
    \/ DockerFails
    \/ \E s \in Service : reloadContainer(s) \/ ReloadFails(s)
    \/ \E s \in Service : ensureContainer(s) \/ EnsureFails(s)
    \/ WaitForHealthy
    \/ HealthFails
    \/ routesFromStore
    \/ SyncRoutesClear
    \/ SyncRoutesFill
    \/ StopStack
    \/ removeGeneratedConfigs

Rpc(k) ==
    \/ WriteStore(k)
    \/ NothingToWrite(k)
    \/ \E o \in Op : BeginOther(k, o)
    \/ Submit(k)

Surroundings ==
    \/ CorednsReload
    \/ \E s \in Service : ContainerExits(s) \/ ContainerRevives(s)
    \/ ControlPlaneCrash

Next == Worker \/ (\E k \in Call : Rpc(k)) \/ Surroundings

\* The worker loops, CoreDNS polls, and a submitted RPC reaches Submit.
Fairness ==
    /\ WF_vars(Worker)
    /\ WF_vars(CorednsReload)
    /\ \A k \in Call : WF_vars(Submit(k))

Spec == Init /\ [][Next]_vars /\ Fairness

-----------------------------------------------------------------------------
(* Properties. *)

\* The variables have their types, and a running process has loaded a config
\* that ensureConfigs wrote.
TypeOK ==
    /\ store \in Nat
    /\ file \in [Service -> Nat \cup {None}]
    /\ container \in [Service -> {"absent", "stopped", "running"}]
    /\ live \in [Service -> Nat]
    /\ drifted \subseteq Service
    /\ route_map \in Nat \cup {None}
    /\ call \in [Call -> {"idle", "submit", "queued", "done"}]
    /\ op \in [Call -> Op \cup {None}]
    /\ wrote \in [Call -> Nat]
    /\ reply \in [Call -> Reply \cup {None}]
    /\ queue \in Seq(Call)
    /\ batch \in Seq(Call)
    /\ step \in Step
    /\ failed \in BOOLEAN
    /\ routes \in Nat
    /\ faults \in Nat

\* An RPC that was answered stack_restarted = true has its change in the
\* listeners Envoy serves, in the zones CoreDNS serves (or is about to read
\* from the Corefile, unless a teardown removed it) and, unless they are
\* being replaced, in the routes: also when its reconcile was coalesced into
\* another call's, and whatever ran since.
RestartedMeansLive ==
    \A k \in Call : reply[k] = "restarted" =>
        /\ container["envoy"] = "running" => live["envoy"] >= wrote[k]
        /\ container["coredns"] = "running" =>
              \/ live["coredns"] >= wrote[k]
              \/ file["coredns"] = None
              \/ file["coredns"] >= wrote[k]
        /\ route_map # None => route_map >= wrote[k]

\* A rule that was saved while the stack was down (its RPC was answered
\* stack_restarted = false) is served by Envoy after the next FirewallInit
\* that succeeds, whatever has failed meanwhile.
AnyInitPicksUp ==
    \A w, k \in Call :
        /\ op[w] = "write" /\ reply[w] = "notRunning"
        /\ reply[k] = "up" /\ wrote[k] >= wrote[w]
        /\ container["envoy"] = "running"
        => live["envoy"] >= wrote[w]

\* The same, as long as nothing has failed: the calls, their coalescing and
\* the worker never leave a saved rule behind on their own.
NextInitPicksUp == faults = 0 => AnyInitPicksUp

Quiet == faults = 0 /\ \A k \in Call : call[k] \in {"idle", "done"}

\* Once nothing is in flight and nothing has failed, a
\* running stack serves exactly the store: Envoy's listeners, the Corefile
\* and the BPF routes agree, in spite of writes that landed between
\* ensureConfigs and routesFromStore.
QuietMeansCurrent ==
    Quiet /\ Running =>
        /\ live["envoy"] = store
        /\ file["coredns"] = store
        /\ route_map = store

\* When a FirewallInit is answered and nothing else is in flight, the
\* route_map mirrors the listeners Envoy runs with, so that no route leads
\* to a port that belongs to another rule.
RoutesMirrorListeners ==
    [][ \A k \in Call :
          /\ reply[k] = None
          /\ reply'[k] = "up"
          /\ \A j \in Call \ {k} : call[j] \in {"idle", "done"}
          => route_map' = live'["envoy"] ]_vars

\* Every write reaches both containers, or the stack goes down, or something
\* fails.
WritesArrive ==
    \A k \in Call :
        (wrote[k] > 0) ~>
            \/ live["envoy"] >= wrote[k] /\ live["coredns"] >= wrote[k]
            \/ ~Running
            \/ faults > 0

Symmetry == Permutations(Call)
=============================================================================
