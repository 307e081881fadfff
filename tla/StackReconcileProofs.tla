------------------------ MODULE StackReconcileProofs ------------------------
(***************************************************************************)
(* Proofs about StackReconcile, for every set of calls, every mix of the   *)
(* RPCs and any number of failures: an answer stack_restarted = true means *)
(* that the caller's rules are live, and without a failure a quiet stack   *)
(* serves the rules store in all its parts.                                *)
(***************************************************************************)
EXTENDS StackReconcile, TLAPS

\* The leaves are first-order unless they name SMT.
USE Zenon

\* The steps a reconcile or a bring-up takes once ensureConfigs has written
\* the config files, by what else it has done.
Written == {"probe", "envoy", "coredns", "health", "read routes", "clear", "fill"}
Loaded == {"coredns", "health", "read routes", "clear", "fill"}
Routed == {"clear", "fill"}
Ensuring == {"ensure envoy", "ensure coredns"}

\* The worker runs a closure exactly when it has a batch; the calls in queue
\* and batch are waiting, each in one place, and no one else is answered.
Waiting ==
    /\ step = "idle" <=> Len(batch) = 0
    /\ \A i \in 1 .. Len(batch) : call[batch[i]] = "queued"
    /\ \A i \in 1 .. Len(queue) : call[queue[i]] = "queued"
    /\ \A i, j \in 1 .. Len(queue) : queue[i] = queue[j] => i = j
    /\ \A i \in 1 .. Len(queue), j \in 1 .. Len(batch) : queue[i] # batch[j]
    /\ \A k \in Call : reply[k] # None => call[k] = "done"
    /\ \A k \in Call : call[k] \in {"submit", "queued"} =>
          op[k] \in Reconcile \cup {"init", "remove"}

\* A container is only started from a config file that is there.
FilesThere ==
    step \in Ensuring \cup {"probe", "envoy", "coredns"} =>
        \A s \in Service : file[s] # None

\* No call has written a version that is not in the store.
Saved == \A k \in Call : wrote[k] <= store

\* A reconcile starts with its probe, and only a bring-up ensures containers.
Paths ==
    /\ step = "status" => Reconciling
    /\ step \in Ensuring => ~Reconciling

\* What a reconcile has done so far for the calls of its batch, none of its
\* steps having failed; the routes are read whatever failed.
Applied ==
    \A i \in 1 .. Len(batch) :
        /\ step \in Routed => routes >= wrote[batch[i]]
        /\ (Reconciling /\ ~failed) =>
              /\ step \in Written =>
                    \A s \in Service :
                        file[s] # None /\ file[s] >= wrote[batch[i]]
              /\ step \in Loaded /\ container["envoy"] = "running" =>
                    live["envoy"] >= wrote[batch[i]]

\* What stays true for a call that was told of a restart: the files and the
\* routes being replayed are not older than its change either.
Kept ==
    \A k \in Call : reply[k] = "restarted" =>
        /\ \A s \in Service : file[s] # None => file[s] >= wrote[k]
        /\ container["envoy"] = "running" => live["envoy"] >= wrote[k]
        /\ route_map # None => route_map >= wrote[k]
        /\ step \in Routed => routes >= wrote[k]

\* Reload's own probe finds CoreDNS down only when Envoy is down as well.
ProbeTells ==
    step = "probe" /\ container["coredns"] # "running" =>
        container["envoy"] # "running"

\* From the closure's probe to Reload's, CoreDNS is up.
CorednsStays ==
    step = "probe" \/ (step = "configs" /\ Reconciling) =>
        container["coredns"] = "running"

\* Without a failure the two containers come and go together, and a reconcile
\* has them both until it ends.
SideBySide ==
    faults = 0 =>
        /\ \A s \in Service : container[s] # "stopped"
        /\ step # "ensure coredns" =>
              (container["envoy"] = "running" <=> container["coredns"] = "running")
        /\ step = "ensure coredns" => container["envoy"] = "running"
        /\ step \in Written => Running
        /\ step = "configs" /\ Reconciling => Running
        /\ step = "remove configs" => container["envoy"] # "running"

\* Every write whose call is not over is of a call in the batch.
Fresh ==
    \A k \in Call :
        call[k] \in {"submit", "queued"} /\ op[k] = "write" =>
            \E i \in 1 .. Len(batch) : batch[i] = k

\* Without a failure, and with no write waiting for its turn, what the worker
\* has brought up to date is still so.
Current ==
    faults = 0 /\ Fresh =>
        /\ step = "idle" \/ (step = "configs" /\ ~Reconciling) =>
              (Running => live["envoy"] = store /\ file["coredns"] = store
                          /\ route_map = store)
        /\ step \in Written \cup Ensuring =>
              file["envoy"] = store /\ file["coredns"] = store
        /\ step = "ensure envoy" => (Running => live["envoy"] = store)
        /\ step \in Loaded \cup {"ensure coredns"} => live["envoy"] = store
        /\ step \in Routed => routes = store

\* Without a failure, an Envoy that runs after a call was told that the stack
\* is down was started from what the call had saved.
PickedUp ==
    faults = 0 =>
        \A w \in Call : reply[w] = "notRunning" =>
            /\ container["envoy"] = "running" => live["envoy"] >= wrote[w]
            /\ step \in Ensuring \cup {"probe", "envoy"} => file["envoy"] >= wrote[w]

Base == TypeOK /\ Waiting /\ FilesThere /\ Saved /\ Paths

\* The conjuncts of TypeOK: the stack, the data of the calls and the worker,
\* and who waits where.
StackTypes ==
    /\ file \in [Service -> Nat \cup {None}]
    /\ container \in [Service -> {"absent", "stopped", "running"}]
    /\ live \in [Service -> Nat]
    /\ drifted \subseteq Service
    /\ route_map \in Nat \cup {None}

DataTypes ==
    /\ store \in Nat
    /\ op \in [Call -> Op \cup {None}]
    /\ wrote \in [Call -> Nat]
    /\ routes \in Nat
    /\ faults \in Nat

ControlTypes ==
    /\ call \in [Call -> {"idle", "submit", "queued", "done"}]
    /\ reply \in [Call -> Reply \cup {None}]
    /\ queue \in Seq(Call)
    /\ batch \in Seq(Call)
    /\ step \in Step

-----------------------------------------------------------------------------
(* The helpers of the worker. *)

\* Every invariant holds when the control plane starts.
LEMMA InitInv ==
    Init => Base /\ Applied /\ Kept /\ CorednsStays /\ SideBySide /\ Current
            /\ PickedUp
<1> SUFFICES ASSUME Init PROVE Base /\ Applied /\ Kept /\ CorednsStays
                               /\ SideBySide /\ Current /\ PickedUp
  OBVIOUS
<1> USE NoneAssumption DEF Init
<1>1. StackTypes /\ DataTypes
  BY DEF StackTypes, DataTypes
<1>2. ControlTypes
  BY SMTT(30) DEF ControlTypes, Step
<1>3. failed \in BOOLEAN
  OBVIOUS
<1>4. TypeOK
  BY <1>1, <1>2, <1>3 DEF TypeOK, StackTypes, DataTypes, ControlTypes
<1>5. Waiting /\ FilesThere /\ Saved /\ Paths
  BY SMTT(30) DEF Waiting, FilesThere, Saved, Paths, Ensuring
<1>6. Applied /\ Kept
  BY SMTT(30) DEF Applied, Kept, Reply
<1>7. CorednsStays /\ SideBySide
  BY DEF CorednsStays, SideBySide, Written, Service
<1>8. Current /\ PickedUp
  BY DEF Current, Running, Written, Loaded, Routed, Ensuring, PickedUp, Reply,
         Service
<1>9. QED
  BY <1>4, <1>5, <1>6, <1>7, <1>8 DEF Base

\* GoTo leaves the calls and the batch alone.
LEMMA WentOn ==
    ASSUME Waiting, step # "idle", NEW s, s # "idle", GoTo(s), UNCHANGED op
    PROVE  Waiting'
  BY SMTT(30) DEF Waiting, GoTo

\* Going to another step of a closure keeps the types of the control state.
LEMMA GoneTo ==
    ASSUME TypeOK, NEW s, s \in Step, GoTo(s)
    PROVE  ControlTypes'
  BY DEF TypeOK, ControlTypes, GoTo

\* So does answering the batch.
LEMMA AnsweredTypes ==
    ASSUME TypeOK, NEW r, r \in Reply, Answer(r)
    PROVE  ControlTypes'
<1>1. reply' \in [Call -> Reply \cup {None}]
  BY DEF TypeOK, Answer
<1>2. call' \in [Call -> {"idle", "submit", "queued", "done"}]
  BY DEF TypeOK, Answer
<1>3. queue' \in Seq(Call) /\ batch' = <<>> /\ step' = "idle"
  BY DEF TypeOK, Answer
<1>4. QED
  BY SMTT(30), <1>1, <1>2, <1>3 DEF ControlTypes, Step

\* Answer ends the wait of exactly the calls in the batch.
LEMMA Answered ==
    ASSUME TypeOK, Waiting, NEW r, Answer(r), UNCHANGED op
    PROVE  Waiting'
<1> USE DEF Waiting
<1>1. batch' = <<>> /\ step' = "idle" /\ queue' = queue
  BY DEF Answer
<1>2. \A i \in 1 .. Len(queue) : queue[i] \in Call /\ queue[i] \notin InBatch
  BY SMTT(30) DEF TypeOK, InBatch
<1>3. \A i \in 1 .. Len(queue) : call'[queue[i]] = call[queue[i]]
  BY <1>2 DEF Answer
<1>4. \A k \in Call : reply'[k] # None => call'[k] = "done"
  BY DEF Answer
<1>5. \A k \in Call : call'[k] \in {call[k], "done"}
  BY DEF Answer
<1>6. QED
  BY SMTT(30), <1>1, <1>3, <1>4, <1>5

\* Pop moves the first n calls of the queue into the batch.
LEMMA Popped ==
    ASSUME TypeOK, NEW n \in 1 .. Len(queue), Pop(n)
    PROVE  /\ queue' \in Seq(Call) /\ batch' \in Seq(Call)
           /\ Len(batch') = n /\ Len(queue') = Len(queue) - n
           /\ \A i \in 1 .. n : batch'[i] = queue[i]
           /\ \A i \in 1 .. Len(queue) - n : queue'[i] = queue[n + i]
<1>1. queue \in Seq(Call) /\ Len(queue) \in Nat /\ n \in Nat
  BY SMTT(30) DEF TypeOK
<1>2. batch' = SubSeq(queue, 1, n) /\ queue' = SubSeq(queue, n + 1, Len(queue))
  BY DEF Pop
<1>3. batch' \in Seq(Call) /\ Len(batch') = n
  BY SMTT(30), <1>1, <1>2
<1>4. queue' \in Seq(Call) /\ Len(queue') = Len(queue) - n
  BY SMTT(30), <1>1, <1>2
<1>5. \A i \in 1 .. n : batch'[i] = queue[i]
  BY SMTT(30), <1>1, <1>2
<1>6. \A i \in 1 .. Len(queue) - n : queue'[i] = queue[n + i]
  BY SMTT(30), <1>1, <1>2
<1>7. QED
  BY <1>3, <1>4, <1>5, <1>6

\* The queue holds nothing but reconciles, bring-ups and teardowns.
LEMMA PoppedStep ==
    ASSUME TypeOK, Waiting, NEW n \in 1 .. Len(queue), Pop(n)
    PROVE  /\ step' \in {"status", "configs", "stop"}
           /\ step' = "status" <=> op[queue[1]] \in Reconcile
           /\ step' # "status" => n = 1
           /\ batch'[1] = queue[1] /\ queue[1] \in Call
<1>1. queue[1] \in Call /\ call[queue[1]] = "queued"
  BY SMTT(30) DEF TypeOK, Waiting
<1>2. op[queue[1]] \in Reconcile \cup {"init", "remove"}
  BY <1>1 DEF Waiting
<1>3. step' \in {"status", "configs", "stop"}
  BY <1>2 DEF Pop
<1>4. step' = "status" <=> op[queue[1]] \in Reconcile
  BY <1>2 DEF Pop, Reconcile
<1>5. step' # "status" => n = 1
  <2>1. Len(queue) \in Nat
    BY SMTT(30) DEF TypeOK
  <2>2. Together(n)
    BY DEF Pop
  <2>3. n > 1 => op[queue[1]] \in Reconcile
    BY ONLY SMTT(30), <2>1, <2>2, n \in 1 .. Len(queue) DEF Together
  <2>4. QED
    BY SMTT(30), <1>4, <2>1, <2>3
<1>6. QED
  BY SMTT(30), <1>1, <1>3, <1>4, <1>5, Popped

\* After an answer no batch is left, and only its calls have a new reply.
LEMMA Replied ==
    ASSUME TypeOK, NEW r, Answer(r)
    PROVE  /\ step' = "idle" /\ batch' = <<>> /\ Len(batch') = 0
           /\ \A j \in Call : reply'[j] # reply[j] => reply'[j] = r /\ j \in InBatch
  BY DEF TypeOK, Answer

\* An RPC that has been answered, or waits in a batch, writes nothing more;
\* what the goroutines do before their call is queued leaves the stack alone.
LEMMA RpcKeeps ==
    ASSUME Base, NEW k \in Call, Rpc(k)
    PROVE  /\ UNCHANGED <<stackVars, batch, step, failed, routes, faults>>
           /\ \A i \in 1 .. Len(batch) : wrote'[batch[i]] = wrote[batch[i]]
           /\ Len(batch) > 0 => (Reconciling' <=> Reconciling)
           /\ step # "idle" => Len(batch) > 0 /\ Len(batch) \in Nat
           /\ \A j \in Call : \/ reply'[j] = reply[j] /\ reply[j] = None
                              \/ reply'[j] = "unchanged"
                              \/ reply'[j] = reply[j] /\ wrote'[j] = wrote[j]
<1> USE DEF Base
<1>1. UNCHANGED <<stackVars, batch, step, failed, routes, faults>>
  BY DEF Rpc, WriteStore, NothingToWrite, BeginOther, Submit
<1>2. /\ op' = op \/ \E o : op' = [op EXCEPT ![k] = o] /\ call[k] = "idle"
      /\ wrote' = wrote \/ \E v : wrote' = [wrote EXCEPT ![k] = v] /\ call[k] = "idle"
      /\ \/ reply' = reply
         \/ reply' = [reply EXCEPT ![k] = "unchanged"] /\ call[k] = "idle"
  BY DEF Rpc, WriteStore, NothingToWrite, BeginOther, Submit
<1>3. /\ DOMAIN op = Call /\ DOMAIN wrote = Call /\ DOMAIN reply = Call
      /\ Len(batch) \in Nat
  BY SMTT(30) DEF TypeOK
<1>4. \A i \in 1 .. Len(batch) : batch[i] \in Call /\ call[batch[i]] = "queued"
  BY SMTT(30) DEF TypeOK, Waiting
<1>5. \A i \in 1 .. Len(batch) : /\ wrote'[batch[i]] = wrote[batch[i]]
                                 /\ op'[batch[i]] = op[batch[i]]
  BY ONLY Zenon, <1>2, <1>3, <1>4
<1>6. Len(batch) > 0 => (Reconciling' <=> Reconciling)
  BY ONLY SMTT(30), <1>1, <1>3, <1>5 DEF Reconciling
<1>7. step # "idle" => Len(batch) > 0 /\ Len(batch) \in Nat
  BY SMTT(30), <1>3 DEF Waiting
<1>8. \A j \in Call : reply[j] # None => call[j] = "done"
  BY DEF Waiting
<1>9. \A j \in Call : \/ reply'[j] = reply[j] /\ reply[j] = None
                      \/ reply'[j] = "unchanged"
                      \/ reply'[j] = reply[j] /\ wrote'[j] = wrote[j]
  BY ONLY Zenon, <1>2, <1>3, <1>8
<1>10. QED
  BY <1>1, <1>5, <1>6, <1>7, <1>9

\* Whatever fails is counted.
LEMMA Counted ==
    ASSUME TypeOK,
           \/ ConfigsFail \/ DockerFails \/ ControlPlaneCrash
           \/ \E s \in Service : EnsureFails(s) \/ ContainerExits(s)
           \/ \E s \in Service : ReloadFails(s) /\ container[s] # "absent"
           \/ HealthFails /\ Running
    PROVE  faults' # 0
<1>1. faults \in Nat
  BY DEF TypeOK
<1>2. faults' = faults + 1
  BY DEF ConfigsFail, DockerFails, ControlPlaneCrash, EnsureFails, ContainerExits,
         ReloadFails, HealthFails, Fails, Count
<1>3. QED
  BY ONLY SMTT(30), <1>1, <1>2

\* A step of the worker or of the surroundings lets no write wait that was not
\* waiting before.
LEMMA FreshBefore ==
    ASSUME TypeOK, UNCHANGED op, UNCHANGED <<call, batch>> \/ \E r : Answer(r), Fresh'
    PROVE  Fresh
<1>1. CASE UNCHANGED <<call, batch>>
  BY <1>1 DEF Fresh
<1>2. CASE \E r : Answer(r)
  <2>1. /\ \A k \in Call : call'[k] = IF k \in InBatch THEN "done" ELSE call[k]
        /\ Len(batch') = 0
    BY <1>2 DEF Answer
  <2>2. QED
    BY SMTT(30), <2>1 DEF Fresh, InBatch
<1>3. QED
  BY <1>1, <1>2

\* An RPC that writes has its call wait.
LEMMA FreshRpc ==
    ASSUME Base, NEW k \in Call, Rpc(k), Fresh'
    PROVE  Fresh /\ store' = store
<1>1. /\ DOMAIN call = Call /\ DOMAIN op = Call /\ batch' = batch
  BY RpcKeeps DEF Base, TypeOK
<1>2. \A i \in 1 .. Len(batch) : call[batch[i]] = "queued"
  BY DEF Base, Waiting
<1>3. ~WriteStore(k)
  BY SMTT(30), <1>1, <1>2 DEF WriteStore, Fresh
<1>4. store' = store
  BY <1>3 DEF Rpc, NothingToWrite, BeginOther, Submit
<1>5. /\ \A j \in Call \ {k} : call'[j] = call[j] /\ op'[j] = op[j]
      /\ call[k] = "idle" \/ (call[k] = "submit" /\ call'[k] = "queued" /\ op'[k] = op[k])
  BY <1>1, <1>3 DEF Rpc, NothingToWrite, BeginOther, Submit
<1>6. QED
  BY SMTT(30), <1>1, <1>4, <1>5 DEF Fresh

\* Every action keeps the variables in their types.
LEMMA TypeStep ==
    TypeOK /\ Waiting /\ FilesThere /\ [Next]_vars => TypeOK'
<1> SUFFICES ASSUME TypeOK, Waiting, FilesThere, [Next]_vars
             PROVE  TypeOK'
  OBVIOUS
<1> USE NoneAssumption DEF TypeOK, StackTypes, DataTypes, ControlTypes
<1>1. ASSUME NEW n \in 1 .. Len(queue), Pop(n) PROVE TypeOK'
  <2>1. StackTypes' /\ DataTypes'
    BY <1>1 DEF Pop, stackVars
  <2>2. step' \in Step
    BY <1>1, PoppedStep DEF Step
  <2>3. ControlTypes'
    BY <1>1, <2>2, Popped DEF Pop, TypeOK
  <2>4. failed' \in BOOLEAN
    BY <1>1 DEF Pop
  <2>5. QED
    BY <2>1, <2>3, <2>4 DEF TypeOK
<1>2. ASSUME Status PROVE TypeOK'
  <2>1. StackTypes'
    BY <1>2 DEF Status, stackVars
  <2>2. DataTypes'
    BY <1>2 DEF Status
  <2>3. ControlTypes'
    BY <1>2, GoneTo, AnsweredTypes DEF Status, Step, Reply
  <2>4. failed' \in BOOLEAN
    BY <1>2 DEF Status
  <2>5. QED
    BY <2>1, <2>2, <2>3, <2>4 DEF TypeOK
<1>3. ASSUME ensureConfigs PROVE TypeOK'
  <2>1. StackTypes'
    BY <1>3 DEF ensureConfigs
  <2>2. DataTypes'
    BY <1>3 DEF ensureConfigs
  <2>3. ControlTypes'
    BY <1>3, GoneTo DEF ensureConfigs, Step
  <2>4. failed' \in BOOLEAN
    BY <1>3 DEF ensureConfigs
  <2>5. QED
    BY <2>1, <2>2, <2>3, <2>4 DEF TypeOK
<1>4. ASSUME ConfigsFail PROVE TypeOK'
  <2>1. StackTypes'
    <3>1. "envoy" \in Service
      BY DEF Service
    <3>2. file' \in [Service -> Nat \cup {None}]
      BY <1>4, <3>1 DEF ConfigsFail
    <3>3. UNCHANGED <<container, live, drifted, route_map>>
      BY <1>4 DEF ConfigsFail
    <3>4. QED
      BY <3>2, <3>3
  <2>2. DataTypes'
    <3>1. UNCHANGED <<store, op, wrote, routes>>
      BY <1>4 DEF ConfigsFail
    <3>2. faults' \in {faults, faults + 1}
      BY ONLY Zenon, <1>4 DEF ConfigsFail, Fails
    <3>3. QED
      BY SMTT(30), <3>1, <3>2
  <2>3. ControlTypes'
    BY <1>4, GoneTo, AnsweredTypes DEF ConfigsFail, Step, Reply
  <2>4. failed' \in BOOLEAN
    BY <1>4 DEF ConfigsFail
  <2>5. QED
    BY <2>1, <2>2, <2>3, <2>4 DEF TypeOK
<1>5. ASSUME Probe PROVE TypeOK'
  <2>1. StackTypes'
    BY <1>5 DEF Probe, stackVars
  <2>2. DataTypes'
    BY <1>5 DEF Probe
  <2>3. ControlTypes'
    BY <1>5, GoneTo DEF Probe, Step
  <2>4. failed' \in BOOLEAN
    BY <1>5 DEF Probe
  <2>5. QED
    BY <2>1, <2>2, <2>3, <2>4 DEF TypeOK
<1>6. ASSUME DockerFails PROVE TypeOK'
  <2>1. StackTypes'
    BY <1>6 DEF DockerFails, stackVars
  <2>2. DataTypes'
    <3>1. UNCHANGED <<store, op, wrote, routes>>
      BY <1>6 DEF DockerFails
    <3>2. faults' \in {faults, faults + 1}
      BY ONLY Zenon, <1>6 DEF DockerFails, Fails
    <3>3. QED
      BY SMTT(30), <3>1, <3>2
  <2>3. ControlTypes'
    BY <1>6, GoneTo, AnsweredTypes DEF DockerFails, Step, Reply
  <2>4. failed' \in BOOLEAN
    BY <1>6 DEF DockerFails
  <2>5. QED
    BY <2>1, <2>2, <2>3, <2>4 DEF TypeOK
<1>7. ASSUME NEW s \in Service, reloadContainer(s) PROVE TypeOK'
  <2>1. StackTypes'
    BY <1>7 DEF reloadContainer, Start, FilesThere, Service
  <2>2. DataTypes'
    BY <1>7 DEF reloadContainer
  <2>3. ControlTypes'
    BY <1>7, GoneTo DEF reloadContainer, After, Service, Step
  <2>4. failed' \in BOOLEAN
    BY <1>7 DEF reloadContainer
  <2>5. QED
    BY <2>1, <2>2, <2>3, <2>4 DEF TypeOK
<1>8. ASSUME NEW s \in Service, ReloadFails(s) PROVE TypeOK'
  <2>1. StackTypes'
    BY ZenonT(60), <1>8 DEF ReloadFails
  <2>2. DataTypes'
    <3>1. UNCHANGED <<store, op, wrote, routes>>
      BY <1>8 DEF ReloadFails
    <3>2. faults' \in {faults, faults + 1}
      BY ONLY Zenon, <1>8 DEF ReloadFails, Fails
    <3>3. QED
      BY SMTT(30), <3>1, <3>2
  <2>3. ControlTypes'
    BY <1>8, GoneTo DEF ReloadFails, After, Service, Step
  <2>4. failed' \in BOOLEAN
    BY <1>8 DEF ReloadFails
  <2>5. QED
    BY <2>1, <2>2, <2>3, <2>4 DEF TypeOK
<1>9. ASSUME NEW s \in Service, ensureContainer(s) PROVE TypeOK'
  <2>1. CASE UNCHANGED <<container, live, drifted>>
    BY <1>9, <2>1 DEF ensureContainer, GoTo, EnsureNext, Step
  <2>2. CASE Start(s)
    <3>1. file[s] \in Nat
      BY <1>9 DEF ensureContainer, FilesThere, Ensuring, EnsureStep
    <3>2. StackTypes'
      BY <1>9, <2>2, <3>1 DEF ensureContainer, Start
    <3>3. DataTypes' /\ failed' \in BOOLEAN
      BY <1>9 DEF ensureContainer
    <3>4. ControlTypes'
      BY <1>9, GoneTo DEF ensureContainer, EnsureNext, Step
    <3>5. QED
      BY <3>2, <3>3, <3>4
  <2>3. QED
    BY <1>9, <2>1, <2>2 DEF ensureContainer
<1>10. ASSUME NEW s \in Service, EnsureFails(s) PROVE TypeOK'
  <2>1. StackTypes'
    BY ZenonT(60), <1>10 DEF EnsureFails
  <2>2. DataTypes'
    <3>1. UNCHANGED <<store, op, wrote, routes>>
      BY <1>10 DEF EnsureFails
    <3>2. faults' \in {faults, faults + 1}
      BY ONLY Zenon, <1>10 DEF EnsureFails, Fails
    <3>3. QED
      BY SMTT(30), <3>1, <3>2
  <2>3. ControlTypes'
    BY <1>10, AnsweredTypes DEF EnsureFails, Reply
  <2>4. failed' \in BOOLEAN
    BY <1>10 DEF EnsureFails
  <2>5. QED
    BY <2>1, <2>2, <2>3, <2>4 DEF TypeOK
<1>11. ASSUME WaitForHealthy PROVE TypeOK'
  <2>1. StackTypes'
    BY <1>11 DEF WaitForHealthy, stackVars
  <2>2. DataTypes'
    BY <1>11 DEF WaitForHealthy
  <2>3. ControlTypes'
    BY <1>11, GoneTo DEF WaitForHealthy, Step
  <2>4. failed' \in BOOLEAN
    BY <1>11 DEF WaitForHealthy
  <2>5. QED
    BY <2>1, <2>2, <2>3, <2>4 DEF TypeOK
<1>12. ASSUME HealthFails PROVE TypeOK'
  <2>1. StackTypes'
    BY <1>12 DEF HealthFails, stackVars
  <2>2. DataTypes'
    <3>1. UNCHANGED <<store, op, wrote, routes>>
      BY <1>12 DEF HealthFails
    <3>2. faults' \in {faults, faults + 1}
      BY ONLY Zenon, <1>12 DEF HealthFails, Fails
    <3>3. QED
      BY SMTT(30), <3>1, <3>2
  <2>3. ControlTypes'
    BY <1>12, GoneTo, AnsweredTypes DEF HealthFails, Step, Reply
  <2>4. failed' \in BOOLEAN
    BY <1>12 DEF HealthFails
  <2>5. QED
    BY <2>1, <2>2, <2>3, <2>4 DEF TypeOK
<1>13. ASSUME routesFromStore PROVE TypeOK'
  <2>1. StackTypes'
    BY <1>13 DEF routesFromStore, stackVars
  <2>2. DataTypes'
    BY <1>13 DEF routesFromStore
  <2>3. ControlTypes'
    BY <1>13, GoneTo DEF routesFromStore, Step
  <2>4. failed' \in BOOLEAN
    BY <1>13 DEF routesFromStore
  <2>5. QED
    BY <2>1, <2>2, <2>3, <2>4 DEF TypeOK
<1>14. ASSUME SyncRoutesClear PROVE TypeOK'
  <2>1. StackTypes'
    BY <1>14 DEF SyncRoutesClear
  <2>2. DataTypes'
    BY <1>14 DEF SyncRoutesClear
  <2>3. ControlTypes'
    BY <1>14, GoneTo DEF SyncRoutesClear, Step
  <2>4. failed' \in BOOLEAN
    BY <1>14 DEF SyncRoutesClear
  <2>5. QED
    BY <2>1, <2>2, <2>3, <2>4 DEF TypeOK
<1>15. ASSUME SyncRoutesFill PROVE TypeOK'
  <2>1. StackTypes'
    BY <1>15 DEF SyncRoutesFill
  <2>2. DataTypes'
    <3>1. UNCHANGED <<store, op, wrote, routes>>
      BY <1>15 DEF SyncRoutesFill
    <3>2. faults' \in {faults, faults + 1}
      BY ONLY Zenon, <1>15 DEF SyncRoutesFill, Count
    <3>3. QED
      BY SMTT(30), <3>1, <3>2
  <2>3. ControlTypes'
    BY <1>15, AnsweredTypes DEF SyncRoutesFill, Reply
  <2>4. failed' \in BOOLEAN
    BY <1>15 DEF SyncRoutesFill
  <2>5. QED
    BY <2>1, <2>2, <2>3, <2>4 DEF TypeOK
<1>16. ASSUME StopStack PROVE TypeOK'
  <2>1. StackTypes'
    BY <1>16 DEF StopStack
  <2>2. DataTypes'
    <3>1. UNCHANGED <<store, op, wrote, routes>>
      BY <1>16 DEF StopStack
    <3>2. faults' \in {faults, faults + 1}
      BY ONLY Zenon, <1>16 DEF StopStack, Count
    <3>3. QED
      BY SMTT(30), <3>1, <3>2
  <2>3. ControlTypes'
    BY <1>16, GoneTo DEF StopStack, Step
  <2>4. failed' \in BOOLEAN
    BY <1>16 DEF StopStack
  <2>5. QED
    BY <2>1, <2>2, <2>3, <2>4 DEF TypeOK
<1>17. ASSUME removeGeneratedConfigs PROVE TypeOK'
  <2>1. StackTypes'
    BY <1>17 DEF removeGeneratedConfigs
  <2>2. DataTypes'
    BY <1>17 DEF removeGeneratedConfigs
  <2>3. ControlTypes'
    BY <1>17, AnsweredTypes DEF removeGeneratedConfigs, Reply
  <2>4. failed' \in BOOLEAN
    BY <1>17 DEF removeGeneratedConfigs
  <2>5. QED
    BY <2>1, <2>2, <2>3, <2>4 DEF TypeOK
<1>18. ASSUME NEW k \in Call, WriteStore(k) PROVE TypeOK'
  BY SMTT(30), <1>18 DEF WriteStore, stackVars
<1>19. ASSUME NEW k \in Call, NothingToWrite(k) PROVE TypeOK'
  <2>1. StackTypes' /\ DataTypes'
    BY <1>19 DEF NothingToWrite, stackVars
  <2>2. ControlTypes'
    BY <1>19 DEF NothingToWrite, Reply
  <2>3. failed' \in BOOLEAN
    BY <1>19 DEF NothingToWrite
  <2>4. QED
    BY <2>1, <2>2, <2>3 DEF TypeOK
<1>20. ASSUME NEW k \in Call, NEW o \in Op, BeginOther(k, o) PROVE TypeOK'
  BY <1>20 DEF BeginOther, stackVars
<1>21. ASSUME NEW k \in Call, Submit(k) PROVE TypeOK'
  BY SMTT(30), <1>21 DEF Submit, stackVars
<1>22. ASSUME CorednsReload PROVE TypeOK'
  BY ZenonT(60), <1>22 DEF CorednsReload, callVars
<1>23. ASSUME NEW s \in Service, ContainerExits(s) PROVE TypeOK'
  BY SMTT(30), <1>23 DEF ContainerExits, callVars, Count
<1>24. ASSUME NEW s \in Service, ContainerRevives(s) PROVE TypeOK'
  BY <1>24 DEF ContainerRevives, callVars
<1>25. ASSUME ControlPlaneCrash PROVE TypeOK'
  <2>1. StackTypes' /\ DataTypes'
    BY SMTT(30), <1>25 DEF ControlPlaneCrash, Fails, stackVars
  <2>2. ControlTypes'
    <3>1. queue' = <<>> /\ batch' = <<>> /\ step' = "idle"
      BY <1>25 DEF ControlPlaneCrash
    <3>2. "lost" \in Reply
      BY DEF Reply
    <3>3. reply' \in [Call -> Reply \cup {None}]
      BY <1>25, <3>2 DEF ControlPlaneCrash
    <3>4. call' \in [Call -> {"idle", "submit", "queued", "done"}]
      BY <1>25 DEF ControlPlaneCrash
    <3>5. queue' \in Seq(Call) /\ batch' \in Seq(Call) /\ step' \in Step
      BY ONLY SMTT(30), <3>1 DEF Step
    <3>6. QED
      BY ONLY Zenon, <3>3, <3>4, <3>5 DEF ControlTypes
  <2>3. failed' \in BOOLEAN
    BY <1>25 DEF ControlPlaneCrash
  <2>4. QED
    BY <2>1, <2>2, <2>3 DEF TypeOK
<1>26. CASE UNCHANGED vars
  BY <1>26 DEF vars, stackVars, callVars
<1> HIDE DEF TypeOK, StackTypes, DataTypes, ControlTypes
<1>27. QED
  BY <1>1, <1>2, <1>3, <1>4, <1>5, <1>6, <1>7, <1>8, <1>9, <1>10, <1>11,
     <1>12, <1>13, <1>14, <1>15, <1>16, <1>17, <1>18, <1>19, <1>20, <1>21,
     <1>22, <1>23, <1>24, <1>25, <1>26
     DEF Next, Worker, Rpc, Surroundings

\* A call waits in one place until the batch it is in is answered, or the
\* control plane dies.
LEMMA WaitingStep ==
    TypeOK /\ Waiting /\ [Next]_vars => Waiting'
<1> SUFFICES ASSUME TypeOK, Waiting, [Next]_vars
             PROVE  Waiting'
  OBVIOUS
<1> USE DEF Waiting
<1>1. ASSUME NEW n \in 1 .. Len(queue), Pop(n) PROVE Waiting'
  <2>1. /\ Len(batch) = 0 /\ Len(batch') = n /\ n \in 1 .. Len(queue)
        /\ Len(queue') = Len(queue) - n /\ Len(queue) \in Nat
        /\ \A i \in 1 .. n : batch'[i] = queue[i]
        /\ \A i \in 1 .. Len(queue) - n : queue'[i] = queue[n + i]
    <3>1. Len(queue) \in Nat /\ Len(batch) = 0
      BY SMTT(30), <1>1 DEF Pop, TypeOK
    <3>2. QED
      BY <1>1, <3>1, Popped
  <2>2. UNCHANGED <<call, reply, op>> /\ step' # "idle"
    BY <1>1, PoppedStep DEF Pop
  <2>3. /\ \A i \in 1 .. n : call[queue[i]] = "queued"
        /\ \A i \in 1 .. Len(queue) - n : n + i \in 1 .. Len(queue)
    <3>1. \A i \in 1 .. n : i \in 1 .. Len(queue)
      BY ONLY SMTT(30), <2>1
    <3>2. \A i \in 1 .. Len(queue) - n : n + i \in 1 .. Len(queue)
      BY ONLY SMTT(30), <2>1
    <3>3. QED
      BY ONLY Zenon, <3>1, <3>2, Waiting DEF Waiting
  <2>4. ASSUME NEW i \in 1 .. Len(queue'), NEW j \in 1 .. Len(queue'),
               queue'[i] = queue'[j]
        PROVE  i = j
    <3>1. /\ n + i \in 1 .. Len(queue) /\ n + j \in 1 .. Len(queue)
          /\ queue[n + i] = queue[n + j]
      BY ONLY Zenon, <2>1, <2>3, <2>4
    <3>2. n + i = n + j
      BY ONLY Zenon, <3>1, Waiting DEF Waiting
    <3>3. i \in Nat /\ j \in Nat /\ n \in Nat
      BY ONLY SMTT(30), <2>1, <2>4
    <3>4. QED
      BY ONLY SMTT(30), <3>2, <3>3
  <2>5. ASSUME NEW i \in 1 .. Len(queue'), NEW j \in 1 .. Len(batch')
        PROVE  queue'[i] # batch'[j]
    <3>1. /\ n + i \in 1 .. Len(queue) /\ queue'[i] = queue[n + i]
          /\ batch'[j] = queue[j]
      BY ONLY Zenon, <2>1, <2>3, <2>5
    <3>2. j \in 1 .. Len(queue) /\ n + i # j
      BY ONLY SMTT(30), <2>1, <2>5
    <3>3. QED
      BY ONLY Zenon, <3>1, <3>2, Waiting DEF Waiting
  <2>6. \A i \in 1 .. Len(queue') : call'[queue'[i]] = "queued"
    BY ONLY SMTT(30), <2>1, <2>2, <2>3, Waiting DEF Waiting
  <2>7. \A i \in 1 .. Len(batch') : call'[batch'[i]] = "queued"
    BY ONLY Zenon, <2>1, <2>2, <2>3
  <2>8. QED
    BY ONLY SMTT(30), <2>1, <2>2, <2>4, <2>5, <2>6, <2>7, Waiting DEF Waiting
<1>2. ASSUME Status PROVE Waiting'
  BY <1>2, WentOn, Answered DEF Status
<1>3. ASSUME ensureConfigs PROVE Waiting'
  BY <1>3, WentOn DEF ensureConfigs
<1>4. ASSUME ConfigsFail PROVE Waiting'
  BY <1>4, WentOn, Answered DEF ConfigsFail
<1>5. ASSUME Probe PROVE Waiting'
  BY <1>5, WentOn DEF Probe
<1>6. ASSUME DockerFails PROVE Waiting'
  BY <1>6, WentOn, Answered DEF DockerFails
<1>7. ASSUME NEW s \in Service, reloadContainer(s) PROVE Waiting'
  BY <1>7, WentOn DEF reloadContainer, After, Service
<1>8. ASSUME NEW s \in Service, ReloadFails(s) PROVE Waiting'
  BY <1>8, WentOn DEF ReloadFails, After, Service
<1>9. ASSUME NEW s \in Service, ensureContainer(s) PROVE Waiting'
  BY <1>9, WentOn DEF ensureContainer, EnsureNext, EnsureStep
<1>10. ASSUME NEW s \in Service, EnsureFails(s) PROVE Waiting'
  BY <1>10, Answered DEF EnsureFails
<1>11. ASSUME WaitForHealthy PROVE Waiting'
  BY <1>11, WentOn DEF WaitForHealthy
<1>12. ASSUME HealthFails PROVE Waiting'
  BY <1>12, WentOn, Answered DEF HealthFails
<1>13. ASSUME routesFromStore PROVE Waiting'
  BY <1>13, WentOn DEF routesFromStore
<1>14. ASSUME SyncRoutesClear PROVE Waiting'
  BY <1>14, WentOn DEF SyncRoutesClear
<1>15. ASSUME SyncRoutesFill PROVE Waiting'
  BY <1>15, Answered DEF SyncRoutesFill
<1>16. ASSUME StopStack PROVE Waiting'
  BY <1>16, WentOn DEF StopStack
<1>17. ASSUME removeGeneratedConfigs PROVE Waiting'
  BY <1>17, Answered DEF removeGeneratedConfigs
<1>18. ASSUME NEW k \in Call, WriteStore(k) PROVE Waiting'
  <2>1. /\ call' = [call EXCEPT ![k] = "submit"] /\ call[k] = "idle"
        /\ op' = [op EXCEPT ![k] = "write"]
        /\ UNCHANGED <<reply, queue, batch, step>>
    BY <1>18 DEF WriteStore
  <2>2. "write" \in Reconcile \cup {"init", "remove"}
    BY <1>18 DEF WriteStore, Reconcile
  <2>3. \A i \in 1 .. Len(queue) : queue[i] \in Call /\ queue[i] # k
    BY SMTT(30), <1>18 DEF WriteStore, TypeOK
  <2>4. \A i \in 1 .. Len(batch) : batch[i] \in Call /\ batch[i] # k
    BY SMTT(30), <1>18 DEF WriteStore, TypeOK
  <2>5. /\ call \in [Call -> {"idle", "submit", "queued", "done"}]
        /\ DOMAIN op = Call /\ k \in Call
    BY DEF TypeOK
  <2>6. QED
    BY ONLY SMTT(30), <2>1, <2>2, <2>3, <2>4, <2>5, Waiting DEF Waiting
<1>19. ASSUME NEW k \in Call, NothingToWrite(k) PROVE Waiting'
  <2>1. /\ call' = [call EXCEPT ![k] = "done"]
        /\ reply' = [reply EXCEPT ![k] = "unchanged"]
        /\ call[k] = "idle"
        /\ op' = [op EXCEPT ![k] = "same"]
        /\ UNCHANGED <<queue, batch, step>>
    BY <1>19 DEF NothingToWrite
  <2>2. \A i \in 1 .. Len(queue) : queue[i] \in Call /\ queue[i] # k
    BY SMTT(30), <1>19 DEF NothingToWrite, TypeOK
  <2>3. \A i \in 1 .. Len(batch) : batch[i] \in Call /\ batch[i] # k
    BY SMTT(30), <1>19 DEF NothingToWrite, TypeOK
  <2>4. /\ call \in [Call -> {"idle", "submit", "queued", "done"}]
        /\ DOMAIN reply = Call /\ DOMAIN op = Call
    BY DEF TypeOK
  <2>5. QED
    BY ONLY SMTT(30), <2>1, <2>2, <2>3, <2>4, Waiting DEF Waiting
<1>20. ASSUME NEW k \in Call, NEW o \in Op, BeginOther(k, o) PROVE Waiting'
  <2>1. /\ call' = [call EXCEPT ![k] = "submit"] /\ call[k] = "idle"
        /\ op' = [op EXCEPT ![k] = o]
        /\ UNCHANGED <<reply, queue, batch, step>>
    BY <1>20 DEF BeginOther
  <2>2. o \in Reconcile \cup {"init", "remove"}
    BY <1>20, OpAssumption DEF BeginOther, Reconcile
  <2>3. \A i \in 1 .. Len(queue) : queue[i] \in Call /\ queue[i] # k
    BY SMTT(30), <1>20 DEF BeginOther, TypeOK
  <2>4. \A i \in 1 .. Len(batch) : batch[i] \in Call /\ batch[i] # k
    BY SMTT(30), <1>20 DEF BeginOther, TypeOK
  <2>5. /\ call \in [Call -> {"idle", "submit", "queued", "done"}]
        /\ DOMAIN op = Call /\ k \in Call
    BY DEF TypeOK
  <2>6. QED
    BY ONLY SMTT(30), <2>1, <2>2, <2>3, <2>4, <2>5, Waiting DEF Waiting
<1>21. ASSUME NEW k \in Call, Submit(k) PROVE Waiting'
  <2>1. /\ call' = [call EXCEPT ![k] = "queued"] /\ call[k] = "submit"
        /\ UNCHANGED <<reply, batch, step, op>>
    BY <1>21 DEF Submit
  <2>2. \A i \in 1 .. Len(queue) : queue[i] \in Call /\ queue[i] # k
    BY SMTT(30), <1>21 DEF Submit, TypeOK
  <2>3. \A i \in 1 .. Len(batch) : batch[i] \in Call /\ batch[i] # k
    BY SMTT(30), <1>21 DEF Submit, TypeOK
  <2>4. /\ Len(queue') = Len(queue) + 1 /\ Len(queue) \in Nat
        /\ \A i \in 1 .. Len(queue) : queue'[i] = queue[i]
        /\ queue'[Len(queue) + 1] = k
    BY SMTT(30), <1>21 DEF Submit, TypeOK
  <2>5. call \in [Call -> {"idle", "submit", "queued", "done"}] /\ k \in Call
    BY DEF TypeOK
  <2>6. reply[k] = None
    BY <1>21, <2>5 DEF Submit
  <2>7. QED
    BY ONLY SMTT(30), <2>1, <2>2, <2>3, <2>4, <2>5, <2>6, Waiting DEF Waiting
<1>22. ASSUME CorednsReload PROVE Waiting'
  BY SMTT(30), <1>22 DEF CorednsReload, callVars
<1>23. ASSUME NEW s \in Service, ContainerExits(s) PROVE Waiting'
  BY SMTT(30), <1>23 DEF ContainerExits, callVars, Count
<1>24. ASSUME NEW s \in Service, ContainerRevives(s) PROVE Waiting'
  BY SMTT(30), <1>24 DEF ContainerRevives, callVars
<1>25. ASSUME ControlPlaneCrash PROVE Waiting'
  BY SMTT(30), <1>25 DEF ControlPlaneCrash, Fails, stackVars
<1>26. CASE UNCHANGED vars
  BY SMTT(30), <1>26 DEF vars, stackVars, callVars
<1> HIDE DEF Waiting
<1>27. QED
  BY <1>1, <1>2, <1>3, <1>4, <1>5, <1>6, <1>7, <1>8, <1>9, <1>10, <1>11,
     <1>12, <1>13, <1>14, <1>15, <1>16, <1>17, <1>18, <1>19, <1>20, <1>21,
     <1>22, <1>23, <1>24, <1>25, <1>26
     DEF Next, Worker, Rpc, Surroundings

\* Only removeGeneratedConfigs takes the files away, in a closure that starts
\* nothing afterwards.
LEMMA FilesStep ==
    TypeOK /\ Waiting /\ FilesThere /\ [Next]_vars => FilesThere'
<1> SUFFICES ASSUME TypeOK, Waiting, FilesThere, [Next]_vars
             PROVE  FilesThere'
  OBVIOUS
<1> USE NoneAssumption DEF FilesThere, Ensuring
<1>1. ASSUME NEW n \in 1 .. Len(queue), Pop(n) PROVE FilesThere'
  <2>1. step' \in {"status", "configs", "stop"}
    BY <1>1, PoppedStep
  <2>2. QED
    BY <2>1
<1>2. ASSUME Status PROVE FilesThere'
  BY <1>2 DEF Status, GoTo, Answer, stackVars
<1>3. ASSUME ensureConfigs PROVE FilesThere'
  <2>1. \A s \in Service : file'[s] = store
    BY <1>3 DEF ensureConfigs
  <2>2. QED
    BY <2>1 DEF TypeOK
<1>4. ASSUME ConfigsFail PROVE FilesThere'
  BY <1>4 DEF ConfigsFail, GoTo, Answer, Fails
<1>5. ASSUME Probe PROVE FilesThere'
  BY <1>5 DEF Probe, GoTo, stackVars
<1>6. ASSUME DockerFails PROVE FilesThere'
  BY <1>6 DEF DockerFails, GoTo, Answer, Fails, stackVars
<1>7. ASSUME NEW s \in Service, reloadContainer(s) PROVE FilesThere'
  BY <1>7 DEF reloadContainer, GoTo, Start, After
<1>8. ASSUME NEW s \in Service, ReloadFails(s) PROVE FilesThere'
  BY <1>8 DEF ReloadFails, GoTo, Fails, After
<1>9. ASSUME NEW s \in Service, ensureContainer(s) PROVE FilesThere'
  BY <1>9 DEF ensureContainer, GoTo, Start, EnsureStep, EnsureNext
<1>10. ASSUME NEW s \in Service, EnsureFails(s) PROVE FilesThere'
  BY <1>10 DEF EnsureFails, Answer, Fails, EnsureStep
<1>11. ASSUME WaitForHealthy PROVE FilesThere'
  BY <1>11 DEF WaitForHealthy, GoTo, stackVars
<1>12. ASSUME HealthFails PROVE FilesThere'
  BY <1>12 DEF HealthFails, GoTo, Answer, Fails, stackVars
<1>13. ASSUME routesFromStore PROVE FilesThere'
  BY <1>13 DEF routesFromStore, GoTo, stackVars
<1>14. ASSUME SyncRoutesClear PROVE FilesThere'
  BY <1>14 DEF SyncRoutesClear, GoTo
<1>15. ASSUME SyncRoutesFill PROVE FilesThere'
  BY <1>15 DEF SyncRoutesFill, Answer, Bool, Count
<1>16. ASSUME StopStack PROVE FilesThere'
  BY <1>16 DEF StopStack, GoTo, Bool, Count
<1>17. ASSUME removeGeneratedConfigs PROVE FilesThere'
  BY <1>17 DEF removeGeneratedConfigs, Answer
<1>18. ASSUME NEW k \in Call, WriteStore(k) PROVE FilesThere'
  BY <1>18 DEF WriteStore, stackVars
<1>19. ASSUME NEW k \in Call, NothingToWrite(k) PROVE FilesThere'
  BY <1>19 DEF NothingToWrite, stackVars
<1>20. ASSUME NEW k \in Call, NEW o \in Op, BeginOther(k, o) PROVE FilesThere'
  BY <1>20 DEF BeginOther, stackVars
<1>21. ASSUME NEW k \in Call, Submit(k) PROVE FilesThere'
  BY <1>21 DEF Submit, stackVars
<1>22. ASSUME CorednsReload PROVE FilesThere'
  BY <1>22 DEF CorednsReload, callVars
<1>23. ASSUME NEW s \in Service, ContainerExits(s) PROVE FilesThere'
  BY <1>23 DEF ContainerExits, callVars, Count
<1>24. ASSUME NEW s \in Service, ContainerRevives(s) PROVE FilesThere'
  BY <1>24 DEF ContainerRevives, callVars
<1>25. ASSUME ControlPlaneCrash PROVE FilesThere'
  BY <1>25 DEF ControlPlaneCrash, Fails, stackVars
<1>26. CASE UNCHANGED vars
  BY <1>26 DEF vars, stackVars, callVars
<1> HIDE DEF FilesThere, Ensuring
<1>27. QED
  BY <1>1, <1>2, <1>3, <1>4, <1>5, <1>6, <1>7, <1>8, <1>9, <1>10, <1>11,
     <1>12, <1>13, <1>14, <1>15, <1>16, <1>17, <1>18, <1>19, <1>20, <1>21,
     <1>22, <1>23, <1>24, <1>25, <1>26
     DEF Next, Worker, Rpc, Surroundings

\* The store's version only grows.
LEMMA SavedStep ==
    TypeOK /\ Saved /\ [Next]_vars => Saved'
<1> SUFFICES ASSUME TypeOK, Saved, [Next]_vars
             PROVE  Saved'
  OBVIOUS
<1> USE DEF Saved
<1>1. ASSUME NEW n \in 1 .. Len(queue), Pop(n) PROVE Saved'
  BY <1>1 DEF Pop, stackVars
<1>2. ASSUME Status PROVE Saved'
  BY <1>2 DEF Status, GoTo, Answer, stackVars
<1>3. ASSUME ensureConfigs PROVE Saved'
  BY <1>3 DEF ensureConfigs, GoTo
<1>4. ASSUME ConfigsFail PROVE Saved'
  BY <1>4 DEF ConfigsFail, GoTo, Answer, Fails
<1>5. ASSUME Probe PROVE Saved'
  BY <1>5 DEF Probe, GoTo, stackVars
<1>6. ASSUME DockerFails PROVE Saved'
  BY <1>6 DEF DockerFails, GoTo, Answer, Fails, stackVars
<1>7. ASSUME NEW s \in Service, reloadContainer(s) PROVE Saved'
  BY <1>7 DEF reloadContainer, GoTo, Start, After
<1>8. ASSUME NEW s \in Service, ReloadFails(s) PROVE Saved'
  BY <1>8 DEF ReloadFails, GoTo, Fails, After
<1>9. ASSUME NEW s \in Service, ensureContainer(s) PROVE Saved'
  BY <1>9 DEF ensureContainer, GoTo, Start, EnsureStep, EnsureNext
<1>10. ASSUME NEW s \in Service, EnsureFails(s) PROVE Saved'
  BY <1>10 DEF EnsureFails, Answer, Fails, EnsureStep
<1>11. ASSUME WaitForHealthy PROVE Saved'
  BY <1>11 DEF WaitForHealthy, GoTo, stackVars
<1>12. ASSUME HealthFails PROVE Saved'
  BY <1>12 DEF HealthFails, GoTo, Answer, Fails, stackVars
<1>13. ASSUME routesFromStore PROVE Saved'
  BY <1>13 DEF routesFromStore, GoTo, stackVars
<1>14. ASSUME SyncRoutesClear PROVE Saved'
  BY <1>14 DEF SyncRoutesClear, GoTo
<1>15. ASSUME SyncRoutesFill PROVE Saved'
  BY <1>15 DEF SyncRoutesFill, Answer, Bool, Count
<1>16. ASSUME StopStack PROVE Saved'
  BY <1>16 DEF StopStack, GoTo, Bool, Count
<1>17. ASSUME removeGeneratedConfigs PROVE Saved'
  BY <1>17 DEF removeGeneratedConfigs, Answer
<1>18. ASSUME NEW k \in Call, WriteStore(k) PROVE Saved'
  <2>1. store' = store + 1 /\ wrote' = [wrote EXCEPT ![k] = store + 1]
    BY <1>18 DEF WriteStore
  <2>2. QED
    BY SMTT(30), <2>1 DEF TypeOK
<1>19. ASSUME NEW k \in Call, NothingToWrite(k) PROVE Saved'
  <2>1. store' = store /\ wrote' = [wrote EXCEPT ![k] = store]
    BY <1>19 DEF NothingToWrite
  <2>2. QED
    BY SMTT(30), <2>1 DEF TypeOK
<1>20. ASSUME NEW k \in Call, NEW o \in Op, BeginOther(k, o) PROVE Saved'
  <2>1. store' = store /\ wrote' = [wrote EXCEPT ![k] = store]
    BY <1>20 DEF BeginOther
  <2>2. QED
    BY SMTT(30), <2>1 DEF TypeOK
<1>21. ASSUME NEW k \in Call, Submit(k) PROVE Saved'
  BY <1>21 DEF Submit, stackVars
<1>22. ASSUME CorednsReload PROVE Saved'
  BY <1>22 DEF CorednsReload, callVars
<1>23. ASSUME NEW s \in Service, ContainerExits(s) PROVE Saved'
  BY <1>23 DEF ContainerExits, callVars, Count
<1>24. ASSUME NEW s \in Service, ContainerRevives(s) PROVE Saved'
  BY <1>24 DEF ContainerRevives, callVars
<1>25. ASSUME ControlPlaneCrash PROVE Saved'
  BY <1>25 DEF ControlPlaneCrash, Fails, stackVars
<1>26. CASE UNCHANGED vars
  BY <1>26 DEF vars, stackVars, callVars
<1> HIDE DEF Saved
<1>27. QED
  BY <1>1, <1>2, <1>3, <1>4, <1>5, <1>6, <1>7, <1>8, <1>9, <1>10, <1>11,
     <1>12, <1>13, <1>14, <1>15, <1>16, <1>17, <1>18, <1>19, <1>20, <1>21,
     <1>22, <1>23, <1>24, <1>25, <1>26
     DEF Next, Worker, Rpc, Surroundings

\* The worker enters a closure by its own first step.
LEMMA PathsStep ==
    Base /\ [Next]_vars => Paths'
<1> SUFFICES ASSUME Base, [Next]_vars
             PROVE  Paths'
  OBVIOUS
<1> USE DEF Paths, Ensuring
<1>1. ASSUME NEW n \in 1 .. Len(queue), Pop(n) PROVE Paths'
  <2>1. /\ step' \in {"status", "configs", "stop"}
        /\ step' = "status" => Reconciling'
    BY <1>1, PoppedStep DEF Base, Pop, Reconciling
  <2>2. QED
    BY <2>1
<1>2. ASSUME Status PROVE Paths'
  BY <1>2 DEF Status, GoTo, Answer, stackVars
<1>3. ASSUME ensureConfigs PROVE Paths'
  <2>1. /\ UNCHANGED <<op, batch>>
        /\ step' = IF Reconciling THEN "probe" ELSE "ensure envoy"
    BY <1>3 DEF ensureConfigs, GoTo
  <2>2. QED
    BY <2>1 DEF Reconciling
<1>4. ASSUME ConfigsFail PROVE Paths'
  BY <1>4 DEF ConfigsFail, GoTo, Answer, Fails
<1>5. ASSUME Probe PROVE Paths'
  BY <1>5 DEF Probe, GoTo, stackVars
<1>6. ASSUME DockerFails PROVE Paths'
  BY <1>6 DEF DockerFails, GoTo, Answer, Fails, stackVars
<1>7. ASSUME NEW s \in Service, reloadContainer(s) PROVE Paths'
  BY <1>7 DEF reloadContainer, GoTo, Start, After
<1>8. ASSUME NEW s \in Service, ReloadFails(s) PROVE Paths'
  BY <1>8 DEF ReloadFails, GoTo, Fails, After
<1>9. ASSUME NEW s \in Service, ensureContainer(s) PROVE Paths'
  <2>1. /\ UNCHANGED <<op, batch>> /\ step \in Ensuring
        /\ step' \in {"ensure coredns", "health"}
    BY <1>9 DEF ensureContainer, GoTo, EnsureStep, EnsureNext
  <2>2. QED
    BY <2>1 DEF Base, Reconciling
<1>10. ASSUME NEW s \in Service, EnsureFails(s) PROVE Paths'
  BY <1>10 DEF EnsureFails, Answer, Fails, EnsureStep
<1>11. ASSUME WaitForHealthy PROVE Paths'
  BY <1>11 DEF WaitForHealthy, GoTo, stackVars
<1>12. ASSUME HealthFails PROVE Paths'
  BY <1>12 DEF HealthFails, GoTo, Answer, Fails, stackVars
<1>13. ASSUME routesFromStore PROVE Paths'
  BY <1>13 DEF routesFromStore, GoTo, stackVars
<1>14. ASSUME SyncRoutesClear PROVE Paths'
  BY <1>14 DEF SyncRoutesClear, GoTo
<1>15. ASSUME SyncRoutesFill PROVE Paths'
  BY <1>15 DEF SyncRoutesFill, Answer, Bool, Count
<1>16. ASSUME StopStack PROVE Paths'
  BY <1>16 DEF StopStack, GoTo, Bool, Count
<1>17. ASSUME removeGeneratedConfigs PROVE Paths'
  BY <1>17 DEF removeGeneratedConfigs, Answer
<1>18. ASSUME NEW k \in Call, Rpc(k) PROVE Paths'
  <2>1. /\ UNCHANGED step
        /\ step # "idle" => (Reconciling' <=> Reconciling)
    BY <1>18, RpcKeeps
  <2>2. QED
    BY <2>1 DEF Base
<1>19. ASSUME CorednsReload PROVE Paths'
  <2>1. UNCHANGED <<op, batch, step>>
    BY <1>19 DEF CorednsReload, callVars
  <2>2. QED
    BY <2>1 DEF Base, Reconciling
<1>20. ASSUME NEW s \in Service, ContainerExits(s) PROVE Paths'
  <2>1. UNCHANGED <<op, batch, step>>
    BY <1>20 DEF ContainerExits, callVars
  <2>2. QED
    BY <2>1 DEF Base, Reconciling
<1>21. ASSUME NEW s \in Service, ContainerRevives(s) PROVE Paths'
  <2>1. UNCHANGED <<op, batch, step>>
    BY <1>21 DEF ContainerRevives, callVars
  <2>2. QED
    BY <2>1 DEF Base, Reconciling
<1>22. ASSUME ControlPlaneCrash PROVE Paths'
  BY <1>22 DEF ControlPlaneCrash, Fails, stackVars
<1>23. CASE UNCHANGED vars
  <2>1. UNCHANGED <<op, batch, step>>
    BY <1>23 DEF vars, callVars
  <2>2. QED
    BY <2>1 DEF Base, Reconciling
<1> HIDE DEF Paths, Ensuring
<1>24. QED
  BY <1>1, <1>2, <1>3, <1>4, <1>5, <1>6, <1>7, <1>8, <1>9, <1>10, <1>11,
     <1>12, <1>13, <1>14, <1>15, <1>16, <1>17, <1>18, <1>19, <1>20, <1>21,
     <1>22, <1>23
     DEF Next, Worker, Surroundings

\* A reconcile brings the stack up to what the calls of its batch have saved,
\* provided that Reload's probe does not mislead it.
LEMMA AppliedStep ==
    Base /\ ProbeTells /\ Applied /\ [Next]_vars => Applied'
<1> SUFFICES ASSUME Base, ProbeTells, Applied, [Next]_vars
             PROVE  Applied'
  OBVIOUS
<1> USE DEF Applied, Reconciling, Written, Loaded, Routed
<1>s. \A i \in 1 .. Len(batch) : batch[i] \in Call
  BY ONLY SMTT(30), Base DEF Base, TypeOK
<1>t. \A i \in 1 .. Len(batch) : /\ wrote[batch[i]] \in Nat
                                  /\ wrote[batch[i]] <= store
  BY <1>s DEF Base, TypeOK, Saved
<1>u. /\ store \in Nat /\ DOMAIN live = Service /\ DOMAIN container = Service
      /\ "envoy" \in Service
  BY DEF Base, TypeOK, Service
<1>1. ASSUME NEW n \in 1 .. Len(queue), Pop(n) PROVE Applied'
  <2>1. step' \in {"status", "configs", "stop"}
    BY <1>1, PoppedStep DEF Base
  <2>2. QED
    BY ONLY Zenon, <2>1 DEF Applied, Written, Loaded, Routed
<1>2. ASSUME Status PROVE Applied'
  <2>1. CASE \E r : Answer(r)
    BY <2>1, Replied DEF Base
  <2>2. CASE ~\E r : Answer(r)
    <3>1. step' = "configs" \/ (step' = "read routes" /\ failed')
      BY <1>2, <2>2 DEF Status, GoTo
    <3>2. QED
      BY <3>1
  <2>3. QED
    BY <2>1, <2>2
<1>3. ASSUME ensureConfigs PROVE Applied'
  <2>1. /\ \A s \in Service : file'[s] = store
        /\ step' = IF Reconciling THEN "probe" ELSE "ensure envoy"
        /\ UNCHANGED <<wrote, op, batch>>
    BY <1>3 DEF ensureConfigs, GoTo
  <2>2. QED
    BY <2>1, <1>t, <1>u, NoneAssumption
<1>4. ASSUME ConfigsFail PROVE Applied'
  <2>1. CASE \E r : Answer(r)
    BY <2>1, Replied DEF Base
  <2>2. CASE ~\E r : Answer(r)
    <3>1. step' = "configs" \/ (step' = "read routes" /\ failed')
      BY <1>4, <2>2 DEF ConfigsFail, GoTo
    <3>2. QED
      BY <3>1
  <2>3. QED
    BY <2>1, <2>2
<1>5. ASSUME Probe PROVE Applied'
  <2>1. /\ UNCHANGED <<wrote, op, batch, stackVars, failed>> /\ step = "probe"
        /\ step' = IF Running THEN "envoy" ELSE "read routes"
    BY <1>5 DEF Probe, GoTo
  <2>2. ~Running => container["envoy"] # "running"
    BY <2>1 DEF ProbeTells, Running, Service
  <2>3. QED
    BY <2>1, <2>2 DEF stackVars
<1>6. ASSUME DockerFails PROVE Applied'
  <2>1. CASE \E r : Answer(r)
    BY <2>1, Replied DEF Base
  <2>2. CASE ~\E r : Answer(r)
    <3>1. step' = "configs" \/ (step' = "read routes" /\ failed')
      BY <1>6, <2>2 DEF DockerFails, GoTo
    <3>2. QED
      BY <3>1
  <2>3. QED
    BY <2>1, <2>2
<1>7. ASSUME NEW s \in Service, reloadContainer(s) PROVE Applied'
  <2>1. CASE s = "envoy"
    <3>1. /\ UNCHANGED <<wrote, op, batch, file, failed>> /\ step = "envoy"
          /\ step' = "coredns" /\ live' = [live EXCEPT !["envoy"] = file["envoy"]]
      BY <1>7, <2>1 DEF reloadContainer, GoTo, Start, After
    <3>2. live'["envoy"] = file["envoy"]
      BY <3>1, <1>u
    <3>3. QED
      BY <3>1, <3>2, <1>u
  <2>2. CASE s = "coredns"
    <3>1. /\ UNCHANGED <<wrote, op, batch, file, failed>> /\ step = "coredns"
          /\ step' \in {"read routes", "health"}
          /\ live' = [live EXCEPT !["coredns"] = file["coredns"]]
          /\ container' = [container EXCEPT !["coredns"] = "running"]
      BY <1>7, <2>2 DEF reloadContainer, GoTo, Start, After
    <3>2. /\ live'["envoy"] = live["envoy"]
          /\ container'["envoy"] = container["envoy"]
      BY <3>1, <1>u
    <3>3. QED
      BY <3>1, <3>2
  <2>3. QED
    BY <2>1, <2>2 DEF Service
<1>8. ASSUME NEW s \in Service, ReloadFails(s) PROVE Applied'
  BY <1>8 DEF ReloadFails, GoTo, Fails, After
<1>9. ASSUME NEW s \in Service, ensureContainer(s) PROVE Applied'
  <2>1. /\ UNCHANGED <<wrote, op, batch>> /\ step \in Ensuring
        /\ step' \in {"ensure coredns", "health"}
    BY <1>9 DEF ensureContainer, GoTo, EnsureStep, EnsureNext, Ensuring
  <2>2. ~Reconciling
    BY <2>1 DEF Base, Paths
  <2>3. QED
    BY <2>1, <2>2
<1>10. ASSUME NEW s \in Service, EnsureFails(s) PROVE Applied'
  <2>1. \E r : Answer(r)
    BY <1>10 DEF EnsureFails
  <2>2. QED
    BY <2>1, Replied DEF Base
<1>11. ASSUME WaitForHealthy PROVE Applied'
  BY <1>11 DEF WaitForHealthy, GoTo, stackVars
<1>12. ASSUME HealthFails PROVE Applied'
  <2>1. CASE \E r : Answer(r)
    BY <2>1, Replied DEF Base
  <2>2. CASE ~\E r : Answer(r)
    <3>1. step' = "configs" \/ (step' = "read routes" /\ failed')
      BY <1>12, <2>2 DEF HealthFails, GoTo
    <3>2. QED
      BY <3>1
  <2>3. QED
    BY <2>1, <2>2
<1>13. ASSUME routesFromStore PROVE Applied'
  <2>1. /\ UNCHANGED <<wrote, op, batch, stackVars, failed>>
        /\ step = "read routes" /\ step' = "clear" /\ routes' = store
    BY <1>13 DEF routesFromStore, GoTo
  <2>2. QED
    BY <2>1, <1>t, <1>u DEF stackVars
<1>14. ASSUME SyncRoutesClear PROVE Applied'
  BY <1>14 DEF SyncRoutesClear, GoTo
<1>15. ASSUME SyncRoutesFill PROVE Applied'
  <2>1. \E r : Answer(r)
    BY <1>15 DEF SyncRoutesFill
  <2>2. QED
    BY <2>1, Replied DEF Base
<1>16. ASSUME StopStack PROVE Applied'
  <2>1. step' = "remove configs" /\ batch' = batch
    BY <1>16 DEF StopStack, GoTo
  <2>2. QED
    BY <2>1
<1>17. ASSUME removeGeneratedConfigs PROVE Applied'
  <2>1. \E r : Answer(r)
    BY <1>17 DEF removeGeneratedConfigs
  <2>2. QED
    BY <2>1, Replied DEF Base
<1>18. ASSUME NEW k \in Call, Rpc(k) PROVE Applied'
  <2>1. /\ UNCHANGED <<stackVars, batch, step, failed, routes>>
        /\ \A i \in 1 .. Len(batch) : wrote'[batch[i]] = wrote[batch[i]]
        /\ Len(batch) > 0 => (Reconciling' <=> Reconciling)
        /\ step # "idle" => Len(batch) > 0 /\ Len(batch) \in Nat
    BY <1>18, RpcKeeps
  <2>2. QED
    BY <2>1 DEF stackVars, Written, Loaded, Routed
<1>19. ASSUME CorednsReload PROVE Applied'
  <2>1. /\ UNCHANGED <<file, container, wrote, op, batch, step, failed, routes>>
        /\ live' = [live EXCEPT !["coredns"] = file["coredns"]]
    BY <1>19 DEF CorednsReload, callVars
  <2>2. live'["envoy"] = live["envoy"]
    BY <2>1, <1>u
  <2>3. QED
    BY <2>1, <2>2
<1>20. ASSUME NEW s \in Service, ContainerExits(s) PROVE Applied'
  <2>1. /\ UNCHANGED <<file, live, wrote, op, batch, step, failed, routes>>
        /\ container' = [container EXCEPT ![s] = "stopped"]
    BY <1>20 DEF ContainerExits, callVars
  <2>2. container'["envoy"] = "running" => container["envoy"] = "running"
    BY <2>1, <1>u
  <2>3. QED
    BY <2>1, <2>2
<1>21. ASSUME NEW s \in Service, ContainerRevives(s) PROVE Applied'
  <2>1. /\ UNCHANGED <<file, wrote, op, batch, step, failed, routes>>
        /\ container' = [container EXCEPT ![s] = "running"]
        /\ live' = [live EXCEPT ![s] = file[s]]
    BY <1>21 DEF ContainerRevives, callVars
  <2>2. \/ live'["envoy"] = file["envoy"]
        \/ live'["envoy"] = live["envoy"] /\ container'["envoy"] = container["envoy"]
    BY <2>1, <1>u
  <2>3. Loaded \subseteq Written /\ "envoy" \in Service
    BY <1>u
  <2>4. QED
    BY <2>1, <2>2, <2>3
<1>22. ASSUME ControlPlaneCrash PROVE Applied'
  BY <1>22 DEF ControlPlaneCrash, Fails, stackVars
<1>23. CASE UNCHANGED vars
  BY <1>23 DEF vars, stackVars, callVars
<1> HIDE DEF Applied, Reconciling, Written, Loaded, Routed
<1>24. QED
  BY <1>1, <1>2, <1>3, <1>4, <1>5, <1>6, <1>7, <1>8, <1>9, <1>10, <1>11,
     <1>12, <1>13, <1>14, <1>15, <1>16, <1>17, <1>18, <1>19, <1>20, <1>21,
     <1>22, <1>23
     DEF Next, Worker, Surroundings

\* What a reported restart has made live is never taken back to older rules.
LEMMA KeptStep ==
    Base /\ Applied /\ Kept /\ [Next]_vars => Kept'
<1> SUFFICES ASSUME Base, Applied, Kept, [Next]_vars
             PROVE  Kept'
  OBVIOUS
<1> USE DEF Kept, Routed
<1>t. store \in Nat /\ \A j \in Call : wrote[j] \in Nat /\ store >= wrote[j]
  BY DEF Base, TypeOK, Saved
<1>u. /\ DOMAIN file = Service /\ DOMAIN live = Service /\ DOMAIN container = Service
      /\ "envoy" \in Service
  BY DEF Base, TypeOK, Service
<1>1. ASSUME NEW n \in 1 .. Len(queue), Pop(n) PROVE Kept'
  <2>1. step' \in {"status", "configs", "stop"}
    BY <1>1, PoppedStep DEF Base
  <2>2. UNCHANGED <<stackVars, wrote, reply>>
    BY <1>1 DEF Pop
  <2>3. QED
    BY <2>1, <2>2 DEF stackVars
<1>2. ASSUME Status PROVE Kept'
  <2>1. UNCHANGED <<stackVars, wrote>> /\ step' \notin Routed
    BY <1>2 DEF Status, GoTo, Answer
  <2>2. \A j \in Call : reply'[j] = "restarted" => reply[j] = "restarted"
    <3>1. reply' = reply \/ \E r : r # "restarted" /\ Answer(r)
      BY <1>2 DEF Status, GoTo
    <3>2. QED
      BY <3>1, Replied DEF Base
  <2>3. QED
    BY <2>1, <2>2 DEF stackVars
<1>3. ASSUME ensureConfigs PROVE Kept'
  <2>1. /\ \A s \in Service : file'[s] = store
        /\ step' \in {"probe", "ensure envoy"}
        /\ UNCHANGED <<wrote, reply, container, live, route_map>>
    BY <1>3 DEF ensureConfigs, GoTo
  <2>2. QED
    BY <2>1, <1>t
<1>4. ASSUME ConfigsFail PROVE Kept'
  <2>1. /\ UNCHANGED <<wrote, container, live, route_map>> /\ step' \notin Routed
        /\ file' \in {file, [file EXCEPT !["envoy"] = store]}
    BY <1>4 DEF ConfigsFail, GoTo, Answer
  <2>2. \A j \in Call : reply'[j] = "restarted" => reply[j] = "restarted"
    BY ZenonT(60), <1>4, Replied DEF ConfigsFail, GoTo, Base
  <2>3. \A s \in Service : file'[s] \in {file[s], store}
    BY <2>1, <1>u
  <2>4. QED
    BY <2>1, <2>2, <2>3, <1>t
<1>5. ASSUME Probe PROVE Kept'
  <2>1. UNCHANGED <<stackVars, wrote>> /\ step' \notin Routed
    BY <1>5 DEF Probe, GoTo, Answer
  <2>2. \A j \in Call : reply'[j] = "restarted" => reply[j] = "restarted"
    <3>1. reply' = reply \/ \E r : r # "restarted" /\ Answer(r)
      BY <1>5 DEF Probe, GoTo
    <3>2. QED
      BY <3>1, Replied DEF Base
  <2>3. QED
    BY <2>1, <2>2 DEF stackVars
<1>6. ASSUME DockerFails PROVE Kept'
  <2>1. UNCHANGED <<stackVars, wrote>> /\ step' \notin Routed
    BY <1>6 DEF DockerFails, GoTo, Answer
  <2>2. \A j \in Call : reply'[j] = "restarted" => reply[j] = "restarted"
    <3>1. reply' = reply \/ \E r : r # "restarted" /\ Answer(r)
      BY <1>6 DEF DockerFails, GoTo
    <3>2. QED
      BY <3>1, Replied DEF Base
  <2>3. QED
    BY <2>1, <2>2 DEF stackVars
<1>7. ASSUME NEW s \in Service, reloadContainer(s) PROVE Kept'
  <2>1. /\ UNCHANGED <<file, route_map, wrote, reply>> /\ step' \notin Routed
        /\ \/ UNCHANGED <<container, live>>
           \/ /\ container' = [container EXCEPT ![s] = "running"]
              /\ live' = [live EXCEPT ![s] = file[s]]
        /\ step \in Ensuring \cup {"probe", "envoy", "coredns"}
    BY <1>7 DEF reloadContainer, GoTo, Start, Service, After, EnsureStep, EnsureNext, Ensuring
  <2>2. \/ live'["envoy"] = file["envoy"] /\ file["envoy"] # None
        \/ live'["envoy"] = live["envoy"] /\ container'["envoy"] = container["envoy"]
    BY <2>1, <1>u DEF Base, FilesThere
  <2>3. QED
    BY <2>1, <2>2, <1>u
<1>8. ASSUME NEW s \in Service, ReloadFails(s) PROVE Kept'
  <2>1. /\ UNCHANGED <<file, live, route_map, wrote, reply>> /\ step' \notin Routed
        /\ \E c \in {container[s], "stopped", "absent"} :
              container' = [container EXCEPT ![s] = c]
    BY <1>8 DEF ReloadFails, GoTo, After
  <2>2. container'["envoy"] = "running" => container["envoy"] = "running"
    BY <2>1, <1>u
  <2>3. QED
    BY <2>1, <2>2
<1>9. ASSUME NEW s \in Service, ensureContainer(s) PROVE Kept'
  <2>1. /\ UNCHANGED <<file, route_map, wrote, reply>> /\ step' \notin Routed
        /\ \/ UNCHANGED <<container, live>>
           \/ /\ container' = [container EXCEPT ![s] = "running"]
              /\ live' = [live EXCEPT ![s] = file[s]]
        /\ step \in Ensuring \cup {"probe", "envoy", "coredns"}
    BY <1>9 DEF ensureContainer, GoTo, Start, Service, After, EnsureStep, EnsureNext, Ensuring
  <2>2. \/ live'["envoy"] = file["envoy"] /\ file["envoy"] # None
        \/ live'["envoy"] = live["envoy"] /\ container'["envoy"] = container["envoy"]
    BY <2>1, <1>u DEF Base, FilesThere
  <2>3. QED
    BY <2>1, <2>2, <1>u
<1>10. ASSUME NEW s \in Service, EnsureFails(s) PROVE Kept'
  <2>1. /\ UNCHANGED <<file, live, route_map, wrote>> /\ step' \notin Routed
        /\ \E c \in {container[s], "stopped", "absent"} :
              container' = [container EXCEPT ![s] = c]
    BY <1>10 DEF EnsureFails, Answer
  <2>2. container'["envoy"] = "running" => container["envoy"] = "running"
    BY <2>1, <1>u
  <2>3. \A j \in Call : reply'[j] = "restarted" => reply[j] = "restarted"
    BY <1>10, Replied DEF EnsureFails, Base
  <2>4. QED
    BY <2>1, <2>2, <2>3
<1>11. ASSUME WaitForHealthy PROVE Kept'
  <2>1. UNCHANGED <<stackVars, wrote>> /\ step' \notin Routed
    BY <1>11 DEF WaitForHealthy, GoTo, Answer
  <2>2. \A j \in Call : reply'[j] = "restarted" => reply[j] = "restarted"
    <3>1. reply' = reply \/ \E r : r # "restarted" /\ Answer(r)
      BY <1>11 DEF WaitForHealthy, GoTo
    <3>2. QED
      BY <3>1, Replied DEF Base
  <2>3. QED
    BY <2>1, <2>2 DEF stackVars
<1>12. ASSUME HealthFails PROVE Kept'
  <2>1. UNCHANGED <<stackVars, wrote>> /\ step' \notin Routed
    BY <1>12 DEF HealthFails, GoTo, Answer
  <2>2. \A j \in Call : reply'[j] = "restarted" => reply[j] = "restarted"
    <3>1. reply' = reply \/ \E r : r # "restarted" /\ Answer(r)
      BY <1>12 DEF HealthFails, GoTo
    <3>2. QED
      BY <3>1, Replied DEF Base
  <2>3. QED
    BY <2>1, <2>2 DEF stackVars
<1>13. ASSUME routesFromStore PROVE Kept'
  <2>1. UNCHANGED <<stackVars, wrote, reply>> /\ routes' = store
    BY <1>13 DEF routesFromStore, GoTo
  <2>2. QED
    BY <2>1, <1>t DEF stackVars
<1>14. ASSUME SyncRoutesClear PROVE Kept'
  <2>1. /\ UNCHANGED <<file, container, live, wrote, reply, routes>>
        /\ route_map' = None /\ step = "clear"
    BY <1>14 DEF SyncRoutesClear, GoTo
  <2>2. QED
    BY <2>1
<1>15. ASSUME SyncRoutesFill PROVE Kept'
  <2>1. /\ UNCHANGED <<file, container, live, wrote, routes>>
        /\ step = "fill" /\ step' \notin Routed /\ route_map' \in {None, routes}
    BY <1>15 DEF SyncRoutesFill, Answer
  <2>2. PICK r : /\ Answer(r)
                 /\ r = "restarted" => Reconciling /\ ~failed
    BY SMTT(30), <1>15 DEF SyncRoutesFill
  <2>3. \A j \in Call : reply'[j] = "restarted" =>
           \/ reply[j] = "restarted"
           \/ Reconciling /\ ~failed /\ j \in InBatch
    BY <2>2, Replied DEF Base
  <2>4. \A j \in InBatch : Reconciling /\ ~failed =>
           /\ \A s \in Service : file[s] # None => file[s] >= wrote[j]
           /\ container["envoy"] = "running" => live["envoy"] >= wrote[j]
           /\ routes >= wrote[j]
    BY <2>1 DEF InBatch, Applied, Written, Loaded
  <2>5. QED
    BY <2>1, <2>3, <2>4
<1>16. ASSUME StopStack PROVE Kept'
  <2>1. /\ UNCHANGED <<file, live, route_map, wrote, reply>> /\ step' \notin Routed
        /\ \A s \in Service : container'[s] \in {"absent", "stopped", container[s]}
    BY <1>16 DEF StopStack, GoTo
  <2>2. container'["envoy"] = "running" => container["envoy"] = "running"
    BY <2>1, <1>u
  <2>3. QED
    BY <2>1, <2>2
<1>17. ASSUME removeGeneratedConfigs PROVE Kept'
  <2>1. /\ UNCHANGED <<container, live, route_map, wrote>> /\ step' \notin Routed
        /\ \A s \in Service : file'[s] = None
    BY <1>17 DEF removeGeneratedConfigs, Answer
  <2>2. \A j \in Call : reply'[j] = "restarted" => reply[j] = "restarted"
    <3>1. \E r : r # "restarted" /\ Answer(r)
      BY <1>17 DEF removeGeneratedConfigs
    <3>2. QED
      BY <3>1, Replied DEF Base
  <2>3. QED
    BY <2>1, <2>2
<1>18. ASSUME NEW k \in Call, Rpc(k) PROVE Kept'
  <2>1. UNCHANGED <<stackVars, step, routes>>
    BY <1>18, RpcKeeps
  <2>2. \A j \in Call : reply'[j] = "restarted" =>
           reply[j] = "restarted" /\ wrote'[j] = wrote[j]
    BY <1>18, RpcKeeps, NoneAssumption DEF Reply
  <2>3. QED
    BY <2>1, <2>2 DEF stackVars
<1>19. ASSUME CorednsReload PROVE Kept'
  BY SMTT(30), <1>19 DEF CorednsReload, callVars
<1>20. ASSUME NEW s \in Service, ContainerExits(s) PROVE Kept'
  BY SMTT(30), <1>20 DEF ContainerExits, callVars, Count
<1>21. ASSUME NEW s \in Service, ContainerRevives(s) PROVE Kept'
  <2>1. /\ UNCHANGED <<file, route_map, wrote, reply, step, routes>>
        /\ container' = [container EXCEPT ![s] = "running"]
        /\ live' = [live EXCEPT ![s] = file[s]]
        /\ file[s] # None
    BY <1>21 DEF ContainerRevives, callVars
  <2>2. \/ live'["envoy"] = file["envoy"] /\ file["envoy"] # None
        \/ live'["envoy"] = live["envoy"] /\ container'["envoy"] = container["envoy"]
    BY <2>1, <1>u
  <2>3. QED
    BY <2>1, <2>2, <1>u
<1>22. ASSUME ControlPlaneCrash PROVE Kept'
  <2>1. UNCHANGED <<stackVars, wrote>> /\ step' \notin Routed
    BY <1>22 DEF ControlPlaneCrash
  <2>2. \A j \in Call : reply'[j] = "restarted" => reply[j] = "restarted"
    BY <1>22 DEF ControlPlaneCrash
  <2>3. QED
    BY <2>1, <2>2 DEF stackVars
<1>23. CASE UNCHANGED vars
  BY <1>23 DEF vars, stackVars, callVars
<1> HIDE DEF Kept, Routed
<1>24. QED
  BY <1>1, <1>2, <1>3, <1>4, <1>5, <1>6, <1>7, <1>8, <1>9, <1>10, <1>11,
     <1>12, <1>13, <1>14, <1>15, <1>16, <1>17, <1>18, <1>19, <1>20, <1>21,
     <1>22, <1>23
     DEF Next, Worker, Surroundings

\* A CoreDNS that does not exit by itself is up until Reload's probe.
LEMMA CorednsStep ==
    Base /\ CorednsStays /\ "coredns" \notin Exits /\ [Next]_vars => CorednsStays'
<1> SUFFICES ASSUME Base, CorednsStays, "coredns" \notin Exits, [Next]_vars
             PROVE  CorednsStays'
  OBVIOUS
<1> USE DEF CorednsStays
<1>u. DOMAIN container = Service /\ "coredns" \in Service
  BY DEF Base, TypeOK, Service
<1>1. ASSUME NEW n \in 1 .. Len(queue), Pop(n) PROVE CorednsStays'
  <2>1. /\ step' \in {"status", "configs", "stop"}
        /\ step' = "configs" => ~Reconciling'
    BY <1>1, PoppedStep DEF Base, Pop, Reconciling
  <2>2. QED
    BY <2>1
<1>2. ASSUME Status PROVE CorednsStays'
  <2>1. \/ step' = "idle"
        \/ container'["coredns"] = "running"
    BY <1>2 DEF Status, GoTo, Answer, stackVars, Running, Service
  <2>2. QED
    BY <2>1
<1>3. ASSUME ensureConfigs PROVE CorednsStays'
  BY <1>3 DEF ensureConfigs, GoTo
<1>4. ASSUME ConfigsFail PROVE CorednsStays'
  BY <1>4 DEF ConfigsFail, GoTo, Answer, Fails
<1>5. ASSUME Probe PROVE CorednsStays'
  BY <1>5 DEF Probe, GoTo, stackVars
<1>6. ASSUME DockerFails PROVE CorednsStays'
  BY <1>6 DEF DockerFails, GoTo, Answer, Fails, stackVars
<1>7. ASSUME NEW s \in Service, reloadContainer(s) PROVE CorednsStays'
  BY <1>7 DEF reloadContainer, GoTo, Start, After
<1>8. ASSUME NEW s \in Service, ReloadFails(s) PROVE CorednsStays'
  BY <1>8 DEF ReloadFails, GoTo, Fails, After
<1>9. ASSUME NEW s \in Service, ensureContainer(s) PROVE CorednsStays'
  BY <1>9 DEF ensureContainer, GoTo, Start, EnsureStep, EnsureNext
<1>10. ASSUME NEW s \in Service, EnsureFails(s) PROVE CorednsStays'
  BY <1>10 DEF EnsureFails, Answer, Fails, EnsureStep
<1>11. ASSUME WaitForHealthy PROVE CorednsStays'
  BY <1>11 DEF WaitForHealthy, GoTo, stackVars
<1>12. ASSUME HealthFails PROVE CorednsStays'
  BY <1>12 DEF HealthFails, GoTo, Answer, Fails, stackVars
<1>13. ASSUME routesFromStore PROVE CorednsStays'
  BY <1>13 DEF routesFromStore, GoTo, stackVars
<1>14. ASSUME SyncRoutesClear PROVE CorednsStays'
  BY <1>14 DEF SyncRoutesClear, GoTo
<1>15. ASSUME SyncRoutesFill PROVE CorednsStays'
  BY <1>15 DEF SyncRoutesFill, Answer, Bool, Count
<1>16. ASSUME StopStack PROVE CorednsStays'
  BY <1>16 DEF StopStack, GoTo, Bool, Count
<1>17. ASSUME removeGeneratedConfigs PROVE CorednsStays'
  BY <1>17 DEF removeGeneratedConfigs, Answer
<1>18. ASSUME NEW k \in Call, Rpc(k) PROVE CorednsStays'
  <2>1. /\ UNCHANGED <<stackVars, step>>
        /\ step # "idle" => (Reconciling' <=> Reconciling)
    BY <1>18, RpcKeeps
  <2>2. QED
    BY <2>1 DEF stackVars
<1>19. ASSUME CorednsReload PROVE CorednsStays'
  BY <1>19 DEF CorednsReload, callVars
<1>20. ASSUME NEW s \in Service, ContainerExits(s) PROVE CorednsStays'
  <2>1. /\ UNCHANGED <<step, op, batch>> /\ s # "coredns"
        /\ container' = [container EXCEPT ![s] = "stopped"]
    BY <1>20 DEF ContainerExits, callVars
  <2>2. container'["coredns"] = container["coredns"]
    BY <2>1, <1>u
  <2>3. QED
    BY <2>1, <2>2 DEF Reconciling
<1>21. ASSUME NEW s \in Service, ContainerRevives(s) PROVE CorednsStays'
  <2>1. /\ UNCHANGED <<step, op, batch>>
        /\ container' = [container EXCEPT ![s] = "running"]
    BY <1>21 DEF ContainerRevives, callVars
  <2>2. container["coredns"] = "running" => container'["coredns"] = "running"
    BY <2>1, <1>u
  <2>3. QED
    BY <2>1, <2>2 DEF Reconciling
<1>22. ASSUME ControlPlaneCrash PROVE CorednsStays'
  BY <1>22 DEF ControlPlaneCrash, Fails, stackVars
<1>23. CASE UNCHANGED vars
  <2>1. UNCHANGED <<step, op, batch, container>>
    BY <1>23 DEF vars, callVars, stackVars
  <2>2. QED
    BY <2>1 DEF Reconciling
<1> HIDE DEF CorednsStays
<1>24. QED
  BY <1>1, <1>2, <1>3, <1>4, <1>5, <1>6, <1>7, <1>8, <1>9, <1>10, <1>11,
     <1>12, <1>13, <1>14, <1>15, <1>16, <1>17, <1>18, <1>19, <1>20, <1>21,
     <1>22, <1>23
     DEF Next, Worker, Surroundings

\* Without a failure the containers come and go together.
LEMMA SideStep ==
    Base /\ SideBySide /\ [Next]_vars => SideBySide'
<1> SUFFICES ASSUME Base, SideBySide, [Next]_vars
             PROVE  SideBySide'
  OBVIOUS
<1> USE DEF SideBySide, Running, Service
<1>u. /\ container \in [Service -> {"absent", "stopped", "running"}]
      /\ faults \in Nat
  BY DEF Base, TypeOK
<1>1. ASSUME NEW n \in 1 .. Len(queue), Pop(n) PROVE SideBySide'
  <2>1. /\ step = "idle" /\ step' \in {"status", "configs", "stop"}
        /\ step' = "configs" => ~Reconciling'
        /\ UNCHANGED <<container, faults>>
    BY <1>1, PoppedStep DEF Base, Pop, Reconciling, stackVars
  <2>2. QED
    BY <2>1 DEF Written
<1>2. ASSUME Status PROVE SideBySide'
  <2>1. /\ step = "status" /\ step' = IF Running THEN "configs" ELSE "idle"
        /\ UNCHANGED <<container, faults>>
    BY <1>2 DEF Status, GoTo, Answer, stackVars
  <2>2. QED
    BY <2>1 DEF Written
<1>3. ASSUME ensureConfigs PROVE SideBySide'
  <2>1. /\ step = "configs" /\ step' = IF Reconciling THEN "probe" ELSE "ensure envoy"
        /\ UNCHANGED <<container, faults>>
    BY <1>3 DEF ensureConfigs, GoTo
  <2>2. QED
    BY <2>1 DEF Written
<1>4. ASSUME ConfigsFail PROVE SideBySide'
  BY <1>4, Counted DEF Base
<1>5. ASSUME Probe PROVE SideBySide'
  <2>1. /\ step = "probe" /\ step' = IF Running THEN "envoy" ELSE "read routes"
        /\ UNCHANGED <<container, faults>>
    BY <1>5 DEF Probe, GoTo, stackVars
  <2>2. QED
    BY <2>1 DEF Written
<1>6. ASSUME DockerFails PROVE SideBySide'
  BY <1>6, Counted DEF Base
<1>7. ASSUME NEW s \in Service, reloadContainer(s) PROVE SideBySide'
  <2>1. /\ step \in {"envoy", "coredns"} /\ step' \in {"read routes", "coredns", "health"}
        /\ container' = [container EXCEPT ![s] = "running"]
        /\ UNCHANGED faults
    BY <1>7 DEF reloadContainer, GoTo, Start, After
  <2>2. \A t \in Service : container'[t] \in {container[t], "running"}
    BY <2>1, <1>u
  <2>3. QED
    BY <2>1, <2>2 DEF Written
<1>8. ASSUME NEW s \in Service, ReloadFails(s) PROVE SideBySide'
  BY <1>8, Counted DEF Base, ReloadFails, Written
<1>9. ASSUME NEW s \in Service, ensureContainer(s) PROVE SideBySide'
  <2>1. CASE s = "envoy"
    <3>1. /\ step = "ensure envoy" /\ step' = "ensure coredns" /\ UNCHANGED faults
          /\ \/ container["envoy"] = "running" /\ UNCHANGED container
             \/ container' = [container EXCEPT !["envoy"] = "running"]
      BY <1>9, <2>1 DEF ensureContainer, EnsureStep, EnsureNext, GoTo, Start
    <3>2. /\ container'["envoy"] = "running"
          /\ \A t \in Service : container'[t] \in {container[t], "running"}
      BY <3>1, <1>u
    <3>3. QED
      BY <3>1, <3>2 DEF Written
  <2>2. CASE s = "coredns"
    <3>1. /\ step = "ensure coredns" /\ step' = "health" /\ UNCHANGED faults
          /\ \/ container["coredns"] = "running" /\ UNCHANGED container
             \/ container' = [container EXCEPT !["coredns"] = "running"]
      BY <1>9, <2>2 DEF ensureContainer, EnsureStep, EnsureNext, GoTo, Start
    <3>2. /\ container'["coredns"] = "running"
          /\ \A t \in Service : container'[t] \in {container[t], "running"}
      BY <3>1, <1>u
    <3>3. QED
      BY <3>1, <3>2 DEF Written
  <2>3. QED
    BY <2>1, <2>2
<1>10. ASSUME NEW s \in Service, EnsureFails(s) PROVE SideBySide'
  BY <1>10, Counted DEF Base
<1>11. ASSUME WaitForHealthy PROVE SideBySide'
  <2>1. step \in Written /\ step' \in Written \cup {"idle"} /\ UNCHANGED <<container>>
    BY <1>11 DEF WaitForHealthy, GoTo, Answer, Written, stackVars
  <2>2. faults' = 0 => faults = 0
    BY <1>11, <1>u DEF WaitForHealthy, Count
  <2>3. QED
    BY <2>1, <2>2 DEF Written
<1>12. ASSUME HealthFails PROVE SideBySide'
  <2>1. CASE Running
    BY <1>12, <2>1, Counted DEF Base, HealthFails
  <2>2. CASE ~Running
    BY <1>12, <2>2 DEF HealthFails, Written
  <2>3. QED
    BY <2>1, <2>2
<1>13. ASSUME routesFromStore PROVE SideBySide'
  <2>1. step \in Written /\ step' \in Written \cup {"idle"} /\ UNCHANGED <<container>>
    BY <1>13 DEF routesFromStore, GoTo, Answer, Written, stackVars
  <2>2. faults' = 0 => faults = 0
    BY <1>13, <1>u DEF routesFromStore, Count
  <2>3. QED
    BY <2>1, <2>2 DEF Written
<1>14. ASSUME SyncRoutesClear PROVE SideBySide'
  <2>1. step \in Written /\ step' \in Written \cup {"idle"} /\ UNCHANGED <<container>>
    BY <1>14 DEF SyncRoutesClear, GoTo, Answer, Written, stackVars
  <2>2. faults' = 0 => faults = 0
    BY <1>14, <1>u DEF SyncRoutesClear, Count
  <2>3. QED
    BY <2>1, <2>2 DEF Written
<1>15. ASSUME SyncRoutesFill PROVE SideBySide'
  <2>1. step \in Written /\ step' \in Written \cup {"idle"} /\ UNCHANGED <<container>>
    BY <1>15 DEF SyncRoutesFill, GoTo, Answer, Written, stackVars
  <2>2. faults' = 0 => faults = 0
    BY SMTT(30), <1>15, <1>u DEF SyncRoutesFill, Count
  <2>3. QED
    BY <2>1, <2>2 DEF Written
<1>16. ASSUME StopStack PROVE SideBySide'
  <2>1. step' = "remove configs"
    BY <1>16 DEF StopStack, GoTo
  <2>2. faults' = 0 => \A t \in Service : container'[t] = "absent"
    <3>1. PICK bad \in SUBSET {t \in Service : container[t] # "absent"} :
             /\ Count(bad # {})
             /\ \A t \in Service :
                   \/ container'[t] = "absent" /\ t \notin bad
                   \/ container'[t] \in {"stopped", container[t]} /\ t \in bad
      BY <1>16 DEF StopStack
    <3>2. bad # {} => faults' = faults + 1
      BY <3>1 DEF Count
    <3>3. faults' = 0 => bad = {}
      BY ONLY SMTT(30), <3>2, <1>u
    <3>4. QED
      BY <3>1, <3>3
  <2>3. QED
    BY <2>1, <2>2 DEF Written
<1>17. ASSUME removeGeneratedConfigs PROVE SideBySide'
  <2>1. step = "remove configs" /\ step' = "idle" /\ UNCHANGED <<container, faults>>
    BY <1>17 DEF removeGeneratedConfigs, Answer
  <2>2. QED
    BY <2>1 DEF Written
<1>18. ASSUME NEW k \in Call, Rpc(k) PROVE SideBySide'
  <2>1. /\ UNCHANGED <<container, faults, step>>
        /\ step # "idle" => (Reconciling' <=> Reconciling)
    BY <1>18, RpcKeeps DEF stackVars
  <2>2. QED
    BY <2>1 DEF Written
<1>19. ASSUME CorednsReload PROVE SideBySide'
  <2>1. UNCHANGED <<container, faults, step, op, batch>>
    BY <1>19 DEF CorednsReload, callVars
  <2>2. QED
    BY <2>1 DEF Reconciling
<1>20. ASSUME NEW s \in Service, ContainerExits(s) PROVE SideBySide'
  BY <1>20, Counted DEF Base
<1>21. ASSUME NEW s \in Service, ContainerRevives(s) PROVE SideBySide'
  BY <1>21 DEF ContainerRevives
<1>22. ASSUME ControlPlaneCrash PROVE SideBySide'
  BY <1>22, Counted DEF Base
<1>23. CASE UNCHANGED vars
  <2>1. UNCHANGED <<container, faults, step, op, batch>>
    BY <1>23 DEF vars, callVars, stackVars
  <2>2. QED
    BY <2>1 DEF Reconciling
<1> HIDE DEF SideBySide, Running, Service
<1>24. QED
  BY <1>1, <1>2, <1>3, <1>4, <1>5, <1>6, <1>7, <1>8, <1>9, <1>10, <1>11,
     <1>12, <1>13, <1>14, <1>15, <1>16, <1>17, <1>18, <1>19, <1>20, <1>21,
     <1>22, <1>23
     DEF Next, Worker, Surroundings

\* Without a failure, what is brought up to date stays so until the next write.
LEMMA CurrentStep ==
    Base /\ SideBySide /\ Current /\ [Next]_vars => Current'
<1> SUFFICES ASSUME Base, SideBySide, Current, [Next]_vars
             PROVE  Current'
  OBVIOUS
<1> USE DEF Current, Written, Loaded, Routed, Ensuring, Running
<1>u. /\ DOMAIN live = Service /\ "envoy" \in Service /\ "coredns" \in Service
      /\ faults \in Nat
  BY DEF Base, TypeOK, Service
<1>1. ASSUME NEW n \in 1 .. Len(queue), Pop(n) PROVE Current'
  <2>1. /\ step = "idle" /\ step' \in {"status", "configs", "stop"}
        /\ step' # "status" => n = 1 /\ op[batch'[1]] \notin Reconcile
        /\ UNCHANGED <<stackVars, store, op, call, faults>>
    BY <1>1, PoppedStep DEF Base, Pop
  <2>2. step' # "status" => (Fresh' => Fresh)
    BY SMTT(30), <2>1, Popped, <1>1 DEF Base, Fresh, Reconcile
  <2>3. QED
    BY <2>1, <2>2 DEF stackVars
<1>2. ASSUME Status PROVE Current'
  <2>1. /\ step = "status" /\ step' = IF Running THEN "configs" ELSE "idle"
        /\ Running => UNCHANGED batch
        /\ UNCHANGED <<container, op>>
    BY <1>2 DEF Status, GoTo, Answer, stackVars
  <2>2. Running => Reconciling'
    BY <2>1 DEF Base, Paths, Reconciling
  <2>3. QED
    BY <2>1, <2>2
<1>3. ASSUME ensureConfigs PROVE Current'
  <2>1. /\ step = "configs" /\ step' = IF Reconciling THEN "probe" ELSE "ensure envoy"
        /\ file'["envoy"] = store /\ file'["coredns"] = store
        /\ UNCHANGED <<container, live, store, faults>>
    BY <1>3 DEF ensureConfigs, GoTo, Service
  <2>2. Fresh' => Fresh
    BY <1>3, FreshBefore DEF ensureConfigs, GoTo, Base
  <2>3. QED
    BY <2>1, <2>2
<1>4. ASSUME ConfigsFail PROVE Current'
  BY <1>4, Counted DEF Base
<1>5. ASSUME Probe PROVE Current'
  <2>1. /\ step = "probe" /\ step' = IF Running THEN "envoy" ELSE "read routes"
        /\ UNCHANGED <<stackVars, store, faults>>
    BY <1>5 DEF Probe, GoTo
  <2>2. Fresh' => Fresh
    BY <1>5, FreshBefore DEF Probe, GoTo, Base
  <2>3. faults = 0 => Running
    BY <2>1 DEF SideBySide
  <2>4. QED
    BY <2>1, <2>2, <2>3 DEF stackVars
<1>6. ASSUME DockerFails PROVE Current'
  BY <1>6, Counted DEF Base
<1>7. ASSUME NEW s \in Service, reloadContainer(s) PROVE Current'
  <2>1. /\ step = s /\ UNCHANGED <<file, store, faults>>
        /\ step' \in IF s = "envoy" THEN {"coredns"} ELSE {"read routes", "health"}
        /\ live' = [live EXCEPT ![s] = file[s]]
    BY <1>7 DEF reloadContainer, GoTo, Start, After
  <2>2. Fresh' => Fresh
    BY <1>7, FreshBefore DEF reloadContainer, GoTo, Base
  <2>3. live'["envoy"] = IF s = "envoy" THEN file["envoy"] ELSE live["envoy"]
    BY <2>1, <1>u
  <2>4. QED
    BY <2>1, <2>2, <2>3 DEF Service
<1>8. ASSUME NEW s \in Service, ReloadFails(s) PROVE Current'
  <2>1. CASE container[s] = "absent"
    <3>1. faults # 0 /\ faults' = faults
      BY <1>8, <2>1 DEF ReloadFails, SideBySide, Service
    <3>2. QED
      BY <3>1
  <2>2. CASE container[s] # "absent"
    BY <1>8, <2>2, Counted DEF Base
  <2>3. QED
    BY <2>1, <2>2
<1>9. ASSUME NEW s \in Service, ensureContainer(s) PROVE Current'
  <2>1. /\ step = EnsureStep(s) /\ step' = EnsureNext(s)
        /\ UNCHANGED <<file, store, faults>>
        /\ \/ container[s] = "running" /\ UNCHANGED live
           \/ live' = [live EXCEPT ![s] = file[s]]
    BY <1>9 DEF ensureContainer, GoTo, Start
  <2>2. Fresh' => Fresh
    BY <1>9, FreshBefore DEF ensureContainer, GoTo, Base
  <2>3. \/ s = "envoy" /\ live'["envoy"] = file["envoy"]
        \/ s = "envoy" /\ container["envoy"] = "running" /\ live'["envoy"] = live["envoy"]
        \/ s = "coredns" /\ live'["envoy"] = live["envoy"]
    BY <2>1, <1>u DEF Service
  <2>4. faults = 0 /\ step = "ensure envoy" /\ container["envoy"] = "running" => Running
    BY DEF SideBySide, Service
  <2>5. QED
    BY <2>1, <2>2, <2>3, <2>4 DEF EnsureStep, EnsureNext
<1>10. ASSUME NEW s \in Service, EnsureFails(s) PROVE Current'
  BY <1>10, Counted DEF Base
<1>11. ASSUME WaitForHealthy PROVE Current'
  <2>1. /\ step = "health" /\ step' = "read routes"
        /\ UNCHANGED <<stackVars, store, faults>>
    BY <1>11 DEF WaitForHealthy, GoTo
  <2>2. Fresh' => Fresh
    BY <1>11, FreshBefore DEF WaitForHealthy, GoTo, Base
  <2>3. QED
    BY <2>1, <2>2 DEF stackVars
<1>12. ASSUME HealthFails PROVE Current'
  <2>1. CASE Running
    BY <1>12, <2>1, Counted DEF Base
  <2>2. CASE ~Running
    BY <1>12, <2>2 DEF HealthFails, SideBySide
  <2>3. QED
    BY <2>1, <2>2
<1>13. ASSUME routesFromStore PROVE Current'
  <2>1. /\ step = "read routes" /\ step' = "clear" /\ routes' = store
        /\ UNCHANGED <<stackVars, store, faults>>
    BY <1>13 DEF routesFromStore, GoTo
  <2>2. Fresh' => Fresh
    BY <1>13, FreshBefore DEF routesFromStore, GoTo, Base
  <2>3. QED
    BY <2>1, <2>2 DEF stackVars
<1>14. ASSUME SyncRoutesClear PROVE Current'
  <2>1. /\ step = "clear" /\ step' = "fill"
        /\ UNCHANGED <<file, live, store, routes, faults>>
    BY <1>14 DEF SyncRoutesClear, GoTo
  <2>2. Fresh' => Fresh
    BY <1>14, FreshBefore DEF SyncRoutesClear, GoTo, Base
  <2>3. QED
    BY <2>1, <2>2
<1>15. ASSUME SyncRoutesFill PROVE Current'
  <2>1. /\ step = "fill" /\ step' = "idle"
        /\ UNCHANGED <<file, live, store>>
    BY <1>15 DEF SyncRoutesFill, Answer
  <2>2. faults' = 0 => faults = 0 /\ route_map' = routes
    BY SMTT(30), <1>15, <1>u DEF SyncRoutesFill, Count
  <2>3. Fresh' => Fresh
    <3>1. UNCHANGED op /\ \E r : Answer(r)
      BY <1>15 DEF SyncRoutesFill
    <3>2. QED
      BY <3>1, FreshBefore DEF Base
  <2>4. QED
    BY <2>1, <2>2, <2>3
<1>16. ASSUME StopStack PROVE Current'
  <2>1. step' = "remove configs"
    BY <1>16 DEF StopStack, GoTo
  <2>2. QED
    BY <2>1
<1>17. ASSUME removeGeneratedConfigs PROVE Current'
  <2>1. /\ step = "remove configs" /\ step' = "idle"
        /\ UNCHANGED <<container, faults>>
    BY <1>17 DEF removeGeneratedConfigs, Answer
  <2>2. faults = 0 => ~Running'
    BY <2>1 DEF SideBySide, Service
  <2>3. QED
    BY <2>1, <2>2
<1>18. ASSUME NEW k \in Call, Rpc(k) PROVE Current'
  <2>1. /\ UNCHANGED <<stackVars, step, routes, faults>>
        /\ step # "idle" => (Reconciling' <=> Reconciling)
    BY <1>18, RpcKeeps
  <2>2. Fresh' => Fresh /\ store' = store
    BY <1>18, FreshRpc
  <2>3. QED
    BY <2>1, <2>2 DEF stackVars
<1>19. ASSUME CorednsReload PROVE Current'
  <2>1. /\ UNCHANGED <<container, file, route_map, store, call, op, batch, step, routes, faults>>
        /\ live' = [live EXCEPT !["coredns"] = file["coredns"]]
    BY <1>19 DEF CorednsReload, callVars
  <2>2. Fresh' => Fresh
    BY <2>1, FreshBefore DEF Base
  <2>3. live'["envoy"] = live["envoy"]
    BY <2>1, <1>u
  <2>4. Reconciling' <=> Reconciling
    BY <2>1 DEF Reconciling
  <2>5. QED
    BY <2>1, <2>2, <2>3, <2>4
<1>20. ASSUME NEW s \in Service, ContainerExits(s) PROVE Current'
  BY <1>20, Counted DEF Base
<1>21. ASSUME NEW s \in Service, ContainerRevives(s) PROVE Current'
  <2>1. faults' # 0
    BY <1>21 DEF ContainerRevives, SideBySide
  <2>2. QED
    BY <2>1
<1>22. ASSUME ControlPlaneCrash PROVE Current'
  BY <1>22, Counted DEF Base
<1>23. CASE UNCHANGED vars
  <2>1. UNCHANGED <<stackVars, store, call, op, batch, step, routes, faults>>
    BY <1>23 DEF vars, callVars
  <2>2. Fresh' => Fresh
    BY <2>1, FreshBefore DEF Base
  <2>3. Reconciling' <=> Reconciling
    BY <2>1 DEF Reconciling
  <2>4. QED
    BY <2>1, <2>2, <2>3 DEF stackVars
<1> HIDE DEF Current, Written, Loaded, Routed, Ensuring, Running
<1>24. QED
  BY <1>1, <1>2, <1>3, <1>4, <1>5, <1>6, <1>7, <1>8, <1>9, <1>10, <1>11,
     <1>12, <1>13, <1>14, <1>15, <1>16, <1>17, <1>18, <1>19, <1>20, <1>21,
     <1>22, <1>23
     DEF Next, Worker, Surroundings

\* Without a failure, a bring-up reads what was saved while the stack was down.
LEMMA PickedStep ==
    Base /\ SideBySide /\ PickedUp /\ [Next]_vars => PickedUp'
<1> SUFFICES ASSUME Base, SideBySide, PickedUp, [Next]_vars
             PROVE  PickedUp'
  OBVIOUS
<1> USE DEF PickedUp, Ensuring
<1>t. store \in Nat /\ \A j \in Call : wrote[j] \in Nat /\ store >= wrote[j]
  BY DEF Base, TypeOK, Saved
<1>u. /\ DOMAIN live = Service /\ DOMAIN container = Service /\ "envoy" \in Service
      /\ faults \in Nat
  BY DEF Base, TypeOK, Service
<1>1. ASSUME NEW n \in 1 .. Len(queue), Pop(n) PROVE PickedUp'
  <2>1. /\ step' \in {"status", "configs", "stop"}
        /\ UNCHANGED <<container, live, file, wrote, reply, faults>>
    BY <1>1, PoppedStep DEF Base, Pop, stackVars
  <2>2. QED
    BY <2>1
<1>2. ASSUME Status PROVE PickedUp'
  <2>1. /\ step = "status" /\ step' \in {"configs", "idle"}
        /\ UNCHANGED <<container, live, file, wrote, faults>>
        /\ ~Running \/ UNCHANGED reply
    BY <1>2 DEF Status, GoTo, Answer, stackVars
  <2>2. faults = 0 /\ ~Running => container["envoy"] # "running"
    BY <2>1 DEF SideBySide, Running, Service
  <2>3. QED
    BY <2>1, <2>2
<1>3. ASSUME ensureConfigs PROVE PickedUp'
  <2>1. /\ file'["envoy"] = store
        /\ UNCHANGED <<container, live, wrote, reply, faults>>
    BY <1>3 DEF ensureConfigs, GoTo, Service
  <2>2. QED
    BY <2>1, <1>t
<1>4. ASSUME ConfigsFail PROVE PickedUp'
  BY <1>4, Counted DEF Base
<1>5. ASSUME Probe PROVE PickedUp'
  BY <1>5 DEF Probe, GoTo, stackVars
<1>6. ASSUME DockerFails PROVE PickedUp'
  BY <1>6, Counted DEF Base
<1>7. ASSUME NEW s \in Service, reloadContainer(s) PROVE PickedUp'
  <2>1. /\ step = s /\ UNCHANGED <<file, wrote, reply, faults>>
        /\ step' \notin Ensuring \cup {"probe", "envoy"}
        /\ live' = [live EXCEPT ![s] = file[s]]
        /\ container' = [container EXCEPT ![s] = "running"]
    BY <1>7 DEF reloadContainer, GoTo, Start, After
  <2>2. \/ s = "envoy" /\ live'["envoy"] = file["envoy"]
        \/ live'["envoy"] = live["envoy"] /\ container'["envoy"] = container["envoy"]
    BY <2>1, <1>u
  <2>3. QED
    BY <2>1, <2>2
<1>8. ASSUME NEW s \in Service, ReloadFails(s) PROVE PickedUp'
  <2>1. CASE container[s] = "absent"
    <3>1. /\ UNCHANGED <<file, live, wrote, reply>>
          /\ step' \notin Ensuring \cup {"probe", "envoy"} /\ faults' = faults
          /\ \E c : c # "running" /\ container' = [container EXCEPT ![s] = c]
      BY <1>8, <2>1 DEF ReloadFails, GoTo, After
    <3>2. container'["envoy"] = "running" => container["envoy"] = "running"
      BY <3>1, <1>u
    <3>3. QED
      BY <3>1, <3>2
  <2>2. CASE container[s] # "absent"
    BY <1>8, <2>2, Counted DEF Base
  <2>3. QED
    BY <2>1, <2>2
<1>9. ASSUME NEW s \in Service, ensureContainer(s) PROVE PickedUp'
  <2>1. /\ step \in Ensuring /\ UNCHANGED <<file, wrote, reply, faults>>
        /\ \/ UNCHANGED <<container, live>>
           \/ /\ live' = [live EXCEPT ![s] = file[s]]
              /\ container' = [container EXCEPT ![s] = "running"]
    BY <1>9 DEF ensureContainer, GoTo, Start, EnsureStep
  <2>2. \/ live'["envoy"] = file["envoy"]
        \/ live'["envoy"] = live["envoy"] /\ container'["envoy"] = container["envoy"]
    BY <2>1, <1>u
  <2>3. QED
    BY <2>1, <2>2
<1>10. ASSUME NEW s \in Service, EnsureFails(s) PROVE PickedUp'
  BY <1>10, Counted DEF Base
<1>11. ASSUME WaitForHealthy PROVE PickedUp'
  <2>1. /\ UNCHANGED <<container, live, wrote, reply, faults>>
        /\ step' \notin Ensuring \cup {"probe", "envoy"}
    BY <1>11 DEF WaitForHealthy, GoTo, stackVars
  <2>2. QED
    BY <2>1
<1>12. ASSUME HealthFails PROVE PickedUp'
  <2>1. CASE Running
    BY <1>12, <2>1, Counted DEF Base
  <2>2. CASE ~Running
    <3>1. faults # 0 /\ faults' = faults
      BY <1>12, <2>2 DEF HealthFails, SideBySide, Written
    <3>2. QED
      BY <3>1
  <2>3. QED
    BY <2>1, <2>2
<1>13. ASSUME routesFromStore PROVE PickedUp'
  <2>1. /\ UNCHANGED <<container, live, wrote, reply, faults>>
        /\ step' \notin Ensuring \cup {"probe", "envoy"}
    BY <1>13 DEF routesFromStore, GoTo, stackVars
  <2>2. QED
    BY <2>1
<1>14. ASSUME SyncRoutesClear PROVE PickedUp'
  <2>1. /\ UNCHANGED <<container, live, wrote, reply, faults>>
        /\ step' \notin Ensuring \cup {"probe", "envoy"}
    BY <1>14 DEF SyncRoutesClear, GoTo, stackVars
  <2>2. QED
    BY <2>1
<1>15. ASSUME SyncRoutesFill PROVE PickedUp'
  <2>1. UNCHANGED <<container, live, wrote>> /\ step' = "idle"
    BY <1>15 DEF SyncRoutesFill, Answer
  <2>2. faults' = 0 => faults = 0
    BY SMTT(30), <1>15, <1>u DEF SyncRoutesFill, Count
  <2>3. \A j \in Call : reply'[j] = "notRunning" => reply[j] = "notRunning"
    <3>1. \E r : r # "notRunning" /\ Answer(r)
      BY <1>15 DEF SyncRoutesFill
    <3>2. QED
      BY <3>1, Replied DEF Base
  <2>4. QED
    BY <2>1, <2>2, <2>3
<1>16. ASSUME StopStack PROVE PickedUp'
  <2>1. /\ UNCHANGED <<live, wrote, reply>> /\ step' = "remove configs"
        /\ \A t \in Service : container'[t] \in {"absent", "stopped", container[t]}
    BY <1>16 DEF StopStack, GoTo
  <2>2. faults' = 0 => faults = 0
    <3>1. faults' \in {faults, faults + 1}
      BY ONLY Zenon, <1>16 DEF StopStack, Count
    <3>2. QED
      BY ONLY SMTT(30), <3>1, <1>u
  <2>3. QED
    BY <2>1, <2>2, <1>u
<1>17. ASSUME removeGeneratedConfigs PROVE PickedUp'
  <2>1. UNCHANGED <<container, live, wrote, faults>> /\ step' = "idle"
    BY <1>17 DEF removeGeneratedConfigs, Answer
  <2>2. \A j \in Call : reply'[j] = "notRunning" => reply[j] = "notRunning"
    <3>1. \E r : r # "notRunning" /\ Answer(r)
      BY <1>17 DEF removeGeneratedConfigs
    <3>2. QED
      BY <3>1, Replied DEF Base
  <2>3. QED
    BY <2>1, <2>2
<1>18. ASSUME NEW k \in Call, Rpc(k) PROVE PickedUp'
  <2>1. UNCHANGED <<stackVars, step, faults>>
    BY <1>18, RpcKeeps
  <2>2. \A j \in Call : reply'[j] = "notRunning" =>
           reply[j] = "notRunning" /\ wrote'[j] = wrote[j]
    BY <1>18, RpcKeeps, NoneAssumption DEF Reply
  <2>3. QED
    BY <2>1, <2>2 DEF stackVars
<1>19. ASSUME CorednsReload PROVE PickedUp'
  <2>1. /\ UNCHANGED <<container, file, wrote, reply, step, faults>>
        /\ live' = [live EXCEPT !["coredns"] = file["coredns"]]
    BY <1>19 DEF CorednsReload, callVars
  <2>2. live'["envoy"] = live["envoy"]
    BY <2>1, <1>u
  <2>3. QED
    BY <2>1, <2>2
<1>20. ASSUME NEW s \in Service, ContainerExits(s) PROVE PickedUp'
  BY <1>20, Counted DEF Base
<1>21. ASSUME NEW s \in Service, ContainerRevives(s) PROVE PickedUp'
  <2>1. faults' # 0
    BY <1>21 DEF ContainerRevives, SideBySide
  <2>2. QED
    BY <2>1
<1>22. ASSUME ControlPlaneCrash PROVE PickedUp'
  BY <1>22, Counted DEF Base
<1>23. CASE UNCHANGED vars
  BY <1>23 DEF vars, stackVars, callVars
<1> HIDE DEF PickedUp, Ensuring
<1>24. QED
  BY SMTT(30), <1>1, <1>2, <1>3, <1>4, <1>5, <1>6, <1>7, <1>8, <1>9, <1>10, <1>11,
     <1>12, <1>13, <1>14, <1>15, <1>16, <1>17, <1>18, <1>19, <1>20, <1>21,
     <1>22, <1>23
     DEF Next, Worker, Surroundings

-----------------------------------------------------------------------------
(* The theorems. *)

\* Every step keeps the common part of the invariants.
LEMMA BaseStep == Base /\ [Next]_vars => Base'
  BY TypeStep, WaitingStep, FilesStep, SavedStep, PathsStep DEF Base

\* The common part always holds.
LEMMA AlwaysBase == Spec => []Base
<1>1. Init => Base
  BY InitInv
<1>2. QED
  BY <1>1, BaseStep, PTL DEF Spec

\* A reconcile that answers stack_restarted = true has done what it says, for
\* every call coalesced into it, whatever fails before, during or after it:
\* Reload's probe, which may return nil without reloading anything, is the one
\* place the claim depends on.
THEOREM RestartIsLive == Spec /\ []ProbeTells => []RestartedMeansLive
<1>1. Init => Applied /\ Kept
  BY InitInv
<1>2. Base /\ ProbeTells /\ Applied /\ [Next]_vars => Applied'
  BY AppliedStep
<1>3. Base /\ Applied /\ Kept /\ [Next]_vars => Kept'
  BY KeptStep
<1>4. Base /\ Kept => RestartedMeansLive
  <2>1. "coredns" \in Service
    BY DEF Service
  <2>2. QED
    BY <2>1 DEF Kept, RestartedMeansLive
<1>5. QED
  BY <1>1, <1>2, <1>3, <1>4, AlwaysBase, PTL DEF Spec

\* As long as CoreDNS does not exit by itself, nothing comes between the
\* probe of reconcileStackClosure and that of Reload, and the claim of the
\* reply holds: whatever else fails, and whether Envoy exits or not.
THEOREM RestartedMeansLiveHolds ==
    ASSUME "coredns" \notin Exits
    PROVE  Spec => []RestartedMeansLive
<1>1. Init => CorednsStays
  BY InitInv
<1>2. Base /\ CorednsStays /\ [Next]_vars => CorednsStays'
  BY CorednsStep
<1>3. CorednsStays => ProbeTells
  BY DEF CorednsStays, ProbeTells
<1>4. QED
  BY <1>1, <1>2, <1>3, AlwaysBase, RestartIsLive, PTL DEF Spec

\* Once nothing is in flight and nothing has failed, the three places that are
\* derived from the rules store agree with it: no order of calls, no coalescing
\* and no write between ensureConfigs and routesFromStore leaves one behind.
THEOREM QuietMeansCurrentHolds == Spec => []QuietMeansCurrent
<1>1. Init => SideBySide /\ Current
  BY InitInv
<1>2. Base /\ SideBySide /\ [Next]_vars => SideBySide'
  BY SideStep
<1>3. Base /\ SideBySide /\ Current /\ [Next]_vars => Current'
  BY CurrentStep
<1>4. Base /\ Current => QuietMeansCurrent
  <2> SUFFICES ASSUME Base, Current, Quiet, Running
               PROVE  /\ live["envoy"] = store
                      /\ file["coredns"] = store
                      /\ route_map = store
    BY DEF QuietMeansCurrent
  <2>1. \A i \in 1 .. Len(batch) : batch[i] \in Call
    BY SMTT(30) DEF Base, TypeOK
  <2>2. ~\E i \in 1 .. Len(batch) : TRUE
    BY <2>1 DEF Base, Waiting, Quiet
  <2>3. Len(batch) \in Nat
    BY SMTT(30) DEF Base, TypeOK
  <2>4. step = "idle"
    BY SMTT(30), <2>2, <2>3 DEF Base, Waiting
  <2>5. faults = 0 /\ Fresh
    BY DEF Quiet, Fresh
  <2>6. QED
    BY <2>4, <2>5 DEF Current
<1>5. QED
  BY <1>1, <1>2, <1>3, <1>4, AlwaysBase, PTL DEF Spec

\* A rule saved while the stack was down is served after the bring-up, as long
\* as nothing has failed: "the rule is still saved, next FirewallInit picks it
\* up".
THEOREM NextInitPicksUpHolds == Spec => []NextInitPicksUp
<1>1. Init => SideBySide /\ PickedUp
  BY InitInv
<1>2. Base /\ SideBySide /\ [Next]_vars => SideBySide'
  BY SideStep
<1>3. Base /\ SideBySide /\ PickedUp /\ [Next]_vars => PickedUp'
  BY PickedStep
<1>4. PickedUp => NextInitPicksUp
  BY DEF PickedUp, NextInitPicksUp, AnyInitPicksUp
<1>5. QED
  BY <1>1, <1>2, <1>3, <1>4, AlwaysBase, PTL DEF Spec
=============================================================================
