-------------------------- MODULE EnforcementProofs --------------------------
(***************************************************************************)
(* Proofs about Enforcement, for any set of containers, cgroup ids and RPC *)
(* calls, and, but for the dead-man guard, any faults, restarts and        *)
(* recycled cgroup ids.                                                    *)
(*                                                                         *)
(* Three facts carry everything.  A call that has begun knows its          *)
(* container, and a timer belongs to a bypass call that has returned       *)
(* (Shapes).  A job is in the queue or with the worker at most once, and   *)
(* its call or timer waits for it (Jobs): this is what a fire goroutine    *)
(* and a handler share with the worker, and without it a second run of a   *)
(* closure could revive a finished call.  And the drain empties the queue  *)
(* before anything else (Drained).                                         *)
(***************************************************************************)
EXTENDS Enforcement, TLAPS

\* The leaves are first-order unless they name SMT.
USE Zenon

ContainerOp == {"enable", "disable", "bypass"}

\* What a call and its timer know about each other.
Shapes ==
    \A k \in Call :
        /\ (call[k].pc # "new" /\ call[k].op \in ContainerOp)
              => call[k].on \in Container /\ call[k].id \in Cgroup
        /\ call[k].pc = "new" => call[k].op = None
        /\ call[k].pc \in {"replied", "seeded"} => call[k].op = "bypass"
        /\ timer[k] # "none" => call[k].op = "bypass" /\ call[k].pc = "done"

\* Every job is accounted for once.
Jobs ==
    /\ \A i \in 1 .. Len(queue) :
          IF queue[i].restore THEN timer[queue[i].of] = "queued"
          ELSE /\ call[queue[i].of].pc = "queued"
               /\ worker.of # queue[i].of
    /\ \A i, j \in 1 .. Len(queue) : queue[i] = queue[j] => i = j
    /\ worker.step = "idle" => worker = Idle
    /\ worker.step # "idle" =>
          /\ worker.of \in Call
          /\ call[worker.of].pc = "queued"
          /\ worker.step = "cancel" => call[worker.of].op = "enable"

\* From the close of the queue on, the worker has nothing to do.
Drained ==
    /\ drain \notin {"serving", "closing"} => queue = <<>> /\ worker = Idle
    /\ DrainIsFinal

IInv ==
    /\ TypeOK
    /\ Shapes
    /\ Jobs
    /\ EntriesAreLive
    /\ Drained

\* The containers keep their cgroups: home gives each its own.
Home == {h \in [Container -> Cgroup] :
            \A c, d \in Container : h[c] = h[d] => c = d}
KeepsHome(home) == \A c \in Container : cgroup[c] \in {None, home[c]}

\* The bypass call b of container c is about to arm its timer, or the timer is
\* pending or on its way.
DeadMan(b, c) ==
    /\ call[b].op = "bypass"
    /\ call[b].on = c
    /\ \/ call[b].pc \in {"replied", "seeded"}
       \/ timer[b] \in {"armed", "fired", "resolved", "queued"}

\* Something will take the flag of c's home down.
Awaited(c) ==
    \/ \E b \in Call : DeadMan(b, c)
    \/ worker.step = "flush"
    \/ closed

\* Every id a goroutine holds is the home of its container, whoever looked it
\* up and when.
IdsAtHome(home) ==
    /\ \A c \in Container : storedCgroupID[c] \in {None, home[c]}
    /\ \A k \in Call :
          /\ (call[k].pc # "new" /\ call[k].op \in ContainerOp)
                => call[k].id = home[call[k].on]
          /\ timer[k] \in {"resolved", "queued"} => enableID[k] = home[call[k].on]

\* A flag that is up is awaited; and it is down from Enable's Install until
\* Enable has stopped the timer.
FlagsAwaited(home) ==
    /\ \A c \in Container : bypass_map[home[c]] = "bypass" => Awaited(c)
    /\ worker.step = "cancel"
          => bypass_map[home[call[worker.of].on]] # "bypass"

-----------------------------------------------------------------------------
(* The inductive invariant.                                               *)

\* The handler starts in it.
LEMMA InitInv == Init => IInv
  BY SMTT(30) DEF Init, IInv, TypeOK, Shapes, Jobs, EntriesAreLive, Drained, DrainIsFinal,
         Idle, CallState, CallStep

\* A goroutine's program counter moves and nothing else of it.
LEMMA SetPc ==
    ASSUME call \in [Call -> CallState], NEW k \in Call, NEW p \in CallStep,
           call' = [call EXCEPT ![k].pc = p]
    PROVE  /\ call' \in [Call -> CallState]
           /\ \A x \in Call :
                 /\ call'[x].op = call[x].op
                 /\ call'[x].on = call[x].on
                 /\ call'[x].id = call[x].id
                 /\ call'[x].pc = IF x = k THEN p ELSE call[x].pc
  BY SMTT(30) DEF CallState, CallStep

\* The job the worker takes was waited for, and no other copy of it is queued.
LEMMA Taken ==
    ASSUME queue \in Seq(Job), Jobs, NEW k \in Call, NEW b \in BOOLEAN,
           Take([of |-> k, restore |-> b])
    PROVE  /\ queue' \in Seq(Job)
           /\ IF b THEN timer[k] = "queued" ELSE call[k].pc = "queued"
           /\ worker = Idle
           /\ \A i \in 1 .. Len(queue') :
                 /\ i + 1 \in 1 .. Len(queue)
                 /\ queue'[i] = queue[i + 1]
                 /\ queue'[i] # [of |-> k, restore |-> b]
<1>1. /\ queue # <<>> /\ queue' = Tail(queue) /\ worker = Idle
      /\ [of |-> k, restore |-> b] = queue[1]
  BY SMTT(30) DEF Take
<1>2. /\ queue' \in Seq(Job) /\ Len(queue') = Len(queue) - 1
      /\ \A i \in 1 .. Len(queue') : queue'[i] = queue[i + 1]
  BY SMTT(30), <1>1
<1>3. Len(queue) \in Nat /\ Len(queue) > 0
  BY SMTT(30), <1>1
<1>4. IF b THEN timer[k] = "queued" ELSE call[k].pc = "queued"
  BY SMTT(30), <1>1, <1>3 DEF Jobs
<1>5. ASSUME NEW i \in 1 .. Len(queue')
      PROVE  i + 1 \in 1 .. Len(queue) /\ queue[i + 1] # queue[1]
  BY SMTT(30), <1>2, <1>3 DEF Jobs
<1>6. QED
  BY <1>1, <1>2, <1>4, <1>5

\* A job that is submitted goes to the end of the queue.
LEMMA Appended ==
    ASSUME queue \in Seq(Job), NEW j \in Job, queue' = Append(queue, j)
    PROVE  /\ queue' \in Seq(Job) /\ Len(queue') = Len(queue) + 1
           /\ Len(queue) \in Nat
           /\ queue'[Len(queue) + 1] = j
           /\ \A i \in 1 .. Len(queue) : queue'[i] = queue[i]
           /\ \A i \in 1 .. Len(queue) : queue[i] \in Job
  BY SMTT(30)

\* The queue is a sequence of jobs.
LEMMA QueueElements ==
    ASSUME TypeOK
    PROVE  /\ queue \in Seq(Job) /\ Len(queue) \in Nat
           /\ \A i \in 1 .. Len(queue) : queue[i] \in Job /\ queue[i].of \in Call
<1>1. queue \in Seq(Job)
  BY DEF TypeOK
<1>2. Len(queue) \in Nat
  BY SMTT(30), <1>1
<1>3. \A i \in 1 .. Len(queue) : queue[i] \in Job
  BY SMTT(30), <1>1
<1>4. QED
  BY <1>1, <1>2, <1>3 DEF Job

\* Steps that leave the queue alone, and end at most the closure in progress.
LEMMA JobsKept ==
    ASSUME TypeOK, Jobs, queue' = queue, worker' \in {worker, Idle},
           \A x \in Call :
              /\ (call[x].pc = "queued" /\ (worker' = worker \/ x # worker.of))
                    => call'[x].pc = "queued" /\ call'[x].op = call[x].op
              /\ timer[x] = "queued" => timer'[x] = "queued"
    PROVE  Jobs'
<1>1. queue \in Seq(Job) /\ Len(queue) \in Nat
      /\ \A i \in 1 .. Len(queue) : queue[i] \in Job /\ queue[i].of \in Call
  BY QueueElements
<1>2. ASSUME NEW i \in 1 .. Len(queue')
      PROVE  IF queue'[i].restore THEN timer'[queue'[i].of] = "queued"
             ELSE /\ call'[queue'[i].of].pc = "queued"
                  /\ worker'.of # queue'[i].of
  BY SMTT(30), <1>1, <1>2, ConstantAssumption DEF Jobs, Idle
<1>3. \A i, j \in 1 .. Len(queue') : queue'[i] = queue'[j] => i = j
  BY DEF Jobs
<1>4. /\ worker'.step = "idle" => worker' = Idle
      /\ worker'.step # "idle" =>
          /\ worker'.of \in Call
          /\ call'[worker'.of].pc = "queued"
          /\ worker'.step = "cancel" => call'[worker'.of].op = "enable"
  BY SMTT(30) DEF Jobs, Idle
<1>5. QED
  BY <1>2, <1>3, <1>4 DEF Jobs

\* Steps that submit a job, for a goroutine that waits from now on.
LEMMA JobsAppended ==
    ASSUME TypeOK, Jobs, worker' = worker, NEW k \in Call, NEW b \in BOOLEAN,
           queue' = Append(queue, [of |-> k, restore |-> b]),
           IF b THEN timer[k] # "queued" /\ timer'[k] = "queued"
                ELSE call[k].pc # "queued" /\ call'[k].pc = "queued",
           \A x \in Call :
              /\ call[x].pc = "queued" => call'[x].pc = "queued" /\ call'[x].op = call[x].op
              /\ timer[x] = "queued" => timer'[x] = "queued"
    PROVE  Jobs'
<1> DEFINE j == [of |-> k, restore |-> b]
           n == Len(queue)
<1>0. j \in Job /\ j.of = k /\ j.restore = b
  BY DEF Job
<1>1. /\ n \in Nat /\ Len(queue') = n + 1 /\ queue'[n + 1] = j
      /\ \A i \in 1 .. n : queue'[i] = queue[i]
      /\ \A i \in 1 .. n : queue[i] \in Job /\ queue[i].of \in Call
  <2>1. queue' = Append(queue, j) /\ queue \in Seq(Job)
    BY DEF TypeOK
  <2>2. QED
    BY <1>0, <2>1, Appended DEF Job
<1> HIDE DEF j
<1>2. ASSUME NEW i \in 1 .. n
      PROVE  /\ queue[i] # j
             /\ IF queue'[i].restore THEN timer'[queue'[i].of] = "queued"
                ELSE /\ call'[queue'[i].of].pc = "queued"
                     /\ worker'.of # queue'[i].of
  BY SMTT(30), <1>0, <1>1, <1>2 DEF Jobs
<1>3. IF queue'[n + 1].restore THEN timer'[queue'[n + 1].of] = "queued"
      ELSE /\ call'[queue'[n + 1].of].pc = "queued"
           /\ worker'.of # queue'[n + 1].of
  BY SMTT(30), <1>0, <1>1, ConstantAssumption DEF Jobs, Idle
<1>4. \A i, l \in 1 .. Len(queue') : queue'[i] = queue'[l] => i = l
  BY SMTT(30), <1>1, <1>2 DEF Jobs
<1>5. /\ worker'.step = "idle" => worker' = Idle
      /\ worker'.step # "idle" =>
          /\ worker'.of \in Call
          /\ call'[worker'.of].pc = "queued"
          /\ worker'.step = "cancel" => call'[worker'.of].op = "enable"
  BY DEF Jobs
<1>6. \A i \in 1 .. Len(queue') :
         IF queue'[i].restore THEN timer'[queue'[i].of] = "queued"
         ELSE /\ call'[queue'[i].of].pc = "queued"
              /\ worker'.of # queue'[i].of
  <2>1. ASSUME NEW i \in 1 .. Len(queue') PROVE i \in 1 .. n \/ i = n + 1
    BY SMTT(30), <1>1
  <2>2. QED
    BY <1>2, <1>3, <2>1
<1>7. QED
  BY <1>4, <1>5, <1>6 DEF Jobs

\* Steps in which the worker takes a job, and ends it or keeps it.
LEMMA JobsTaken ==
    ASSUME TypeOK, Jobs, NEW k \in Call, NEW b \in BOOLEAN,
           Take([of |-> k, restore |-> b]),
           \A x \in Call :
              /\ (call[x].pc = "queued" /\ (b \/ x # k)) => call'[x].pc = "queued"
              /\ (timer[x] = "queued" /\ (~b \/ x # k)) => timer'[x] = "queued",
           \/ worker' = Idle
           \/ /\ ~b
              /\ worker'.of = k
              /\ worker'.step # "idle"
              /\ call'[k].pc = "queued"
              /\ worker'.step = "cancel" => call'[k].op = "enable"
    PROVE  Jobs'
<1>1. queue \in Seq(Job) /\ Len(queue) \in Nat
      /\ \A i \in 1 .. Len(queue) : queue[i] \in Job /\ queue[i].of \in Call
  BY QueueElements
<1>2. /\ Len(queue') \in Nat
      /\ \A i \in 1 .. Len(queue') :
            /\ i + 1 \in 1 .. Len(queue)
            /\ queue'[i] = queue[i + 1]
            /\ queue'[i] # [of |-> k, restore |-> b]
  BY SMTT(30), <1>1, Taken
<1>3. ASSUME NEW i \in 1 .. Len(queue')
      PROVE  IF queue'[i].restore THEN timer'[queue'[i].of] = "queued"
             ELSE /\ call'[queue'[i].of].pc = "queued"
                  /\ worker'.of # queue'[i].of
  <2>1. /\ queue'[i] \in Job /\ queue'[i].of \in Call /\ queue'[i].restore \in BOOLEAN
        /\ queue'[i] = [of |-> queue'[i].of, restore |-> queue'[i].restore]
    BY <1>1, <1>2 DEF Job
  <2>2. ~(queue'[i].of = k /\ queue'[i].restore = b)
    BY <1>2, <2>1
  <2>3. IF queue'[i].restore THEN timer[queue'[i].of] = "queued"
        ELSE call[queue'[i].of].pc = "queued"
    BY <1>2 DEF Jobs
  <2>4. CASE queue'[i].restore
    BY <2>1, <2>2, <2>3, <2>4
  <2>5. CASE ~queue'[i].restore
    <3>1. b \/ queue'[i].of # k
      BY <2>1, <2>2, <2>5
    <3>2. call'[queue'[i].of].pc = "queued"
      BY <2>1, <2>3, <2>5, <3>1
    <3>3. worker'.of # queue'[i].of
      BY SMTT(30), <2>1, <3>1, ConstantAssumption DEF Idle
    <3>4. QED
      BY <2>5, <3>2, <3>3
  <2>6. QED
    BY <2>4, <2>5
<1>4. \A i, l \in 1 .. Len(queue') : queue'[i] = queue'[l] => i = l
  <2> SUFFICES ASSUME NEW i \in 1 .. Len(queue'), NEW l \in 1 .. Len(queue'),
                      queue'[i] = queue'[l]
               PROVE  i = l
    OBVIOUS
  <2>1. i + 1 = l + 1
    BY <1>2 DEF Jobs
  <2>2. QED
    BY SMTT(30), <1>2, <2>1
<1>5. /\ worker'.step = "idle" => worker' = Idle
      /\ worker'.step # "idle" =>
          /\ worker'.of \in Call
          /\ call'[worker'.of].pc = "queued"
          /\ worker'.step = "cancel" => call'[worker'.of].op = "enable"
  BY SMTT(30) DEF Idle
<1>6. QED
  BY <1>3, <1>4, <1>5 DEF Jobs
\* Types.
LEMMA TypeStep ==
    TypeOK /\ Shapes /\ Jobs /\ [Next]_vars => TypeOK'
<1> SUFFICES ASSUME TypeOK, Shapes, Jobs, [Next]_vars
             PROVE  TypeOK'
  OBVIOUS
<1> USE ConstantAssumption, OpAssumption DEF TypeOK, Shapes, Jobs,
                                             ContainerOp, rpcVars, mapVars,
                                             timerVars, workVars, dockerVars,
                                             Admitted, Resolved, Take, Answer,
                                             Stopped, InstallOK, InstallFails,
                                             CancelAllBypassTimers, FlushAll,
                                             DrainTo, Idle, closed, CallState,
                                             CallStep
<1>1. ASSUME NEW c \in Container, StartContainer(c) PROVE TypeOK'
  BY SMTT(30), <1>1 DEF StartContainer
<1>2. ASSUME NEW c \in Container, StopContainer(c) PROVE TypeOK'
  BY <1>2 DEF StopContainer
<1>3. ASSUME NEW k \in Call, NEW c \in Container, ResolveEnable(k, c) PROVE TypeOK'
  BY SMTT(30), <1>3 DEF ResolveEnable
<1>4. ASSUME NEW k \in Call, NEW c \in Container, ResolveDisable(k, c) PROVE TypeOK'
  BY SMTT(30), <1>4 DEF ResolveDisable
<1>5. ASSUME NEW k \in Call, NEW c \in Container, ResolveBypass(k, c) PROVE TypeOK'
  BY SMTT(30), <1>5 DEF ResolveBypass
<1>6. ASSUME NEW k \in Call, NEW op \in Op, BeginGlobal(k, op) PROVE TypeOK'
  BY <1>6 DEF BeginGlobal
<1>7. ASSUME NEW k \in Call, AbandonEnable(k) PROVE TypeOK'
  BY SMTT(30), <1>7 DEF AbandonEnable
<1>8. ASSUME NEW k \in Call, SubmitCall(k) PROVE TypeOK'
  <2>1. call' \in [Call -> CallState]
    BY SMTT(30), <1>8, SetPc DEF SubmitCall
  <2>2. queue' \in Seq(Job)
    <3>1. CASE closed
      BY <1>8, <3>1 DEF SubmitCall
    <3>2. CASE ~closed
      <4>1. [of |-> k, restore |-> FALSE] \in Job
        BY DEF Job
      <4>2. QED
        BY SMTT(30), <1>8, <3>2, <4>1, Appended DEF SubmitCall
    <3>3. QED
      BY <3>1, <3>2
  <2>3. QED
    BY <1>8, <2>1, <2>2 DEF SubmitCall
<1>9. ASSUME NEW k \in Call, SeedStored(k) PROVE TypeOK'
  BY SMTT(30), <1>9 DEF SeedStored
<1>10. ASSUME NEW k \in Call, ArmTimer(k) PROVE TypeOK'
  BY SMTT(30), <1>10 DEF ArmTimer
<1>11. ASSUME NEW k \in Call, Fire(k) PROVE TypeOK'
  BY SMTT(30), <1>11 DEF Fire
<1>12. ASSUME NEW k \in Call, resolveBypassCgroupID(k) PROVE TypeOK'
  BY SMTT(30), <1>12 DEF resolveBypassCgroupID
<1>13. ASSUME NEW k \in Call, SubmitRestore(k) PROVE TypeOK'
  <2>1. timer' \in [Call -> {"none", "armed", "stopped", "fired", "resolved",
                             "queued", "answered", "done"}]
    <3>1. \E s \in {"answered", "queued"} : timer' = [timer EXCEPT ![k] = s]
      BY <1>13 DEF SubmitRestore
    <3>2. QED
      BY SMTT(30), <3>1
  <2>2. queue' \in Seq(Job)
    <3>1. CASE closed
      BY <1>13, <3>1 DEF SubmitRestore
    <3>2. CASE ~closed
      <4>1. [of |-> k, restore |-> TRUE] \in Job
        BY DEF Job
      <4>2. QED
        BY SMTT(30), <1>13, <3>2, <4>1, Appended DEF SubmitRestore
    <3>3. QED
      BY <3>1, <3>2
  <2>3. \A x \in Call : timer'[x] = "resolved" => enableID'[x] \in Cgroup
    BY SMTT(30), <1>13 DEF SubmitRestore
  <2>4. QED
    BY <1>13, <2>1, <2>2, <2>3 DEF SubmitRestore
<1>14. ASSUME NEW k \in Call, ForgetEntry(k) PROVE TypeOK'
  BY SMTT(30), <1>14 DEF ForgetEntry
<1>15. ASSUME NEW k \in Call, RunDisable(k) PROVE TypeOK'
  <2>1. queue' \in Seq(Job)
    BY <1>15, Taken DEF RunDisable
  <2>2. call' \in [Call -> CallState]
    BY ZenonT(60), <1>15, SetPc DEF RunDisable
  <2>3. bypass_map' \in [Cgroup -> {"clear", "bypass", "disable"}]
    <3>1. \/ bypass_map' = [bypass_map EXCEPT ![call[k].id] = call[k].op]
          \/ bypass_map' = bypass_map
      BY <1>15 DEF RunDisable
    <3>2. call[k].op \in {"disable", "bypass"}
      BY <1>15 DEF RunDisable
    <3>3. QED
      BY SMTT(30), <3>1, <3>2
  <2>4. QED
    BY <1>15, <2>1, <2>2, <2>3 DEF RunDisable
<1>16. ASSUME NEW k \in Call, RunRestore(k) PROVE TypeOK'
  BY SMTT(30), <1>16 DEF RunRestore
<1>17. ASSUME NEW k \in Call, RunEnable(k) PROVE TypeOK'
  <2>1. queue' \in Seq(Job) /\ call[k].pc = "queued"
    BY <1>17, Taken DEF RunEnable
  <2>2. call' \in [Call -> CallState]
    BY <1>17, SetPc DEF RunEnable
  <2>3. bypass_map' \in [Cgroup -> {"clear", "bypass", "disable"}]
    BY SMTT(30), <1>17 DEF RunEnable
  <2>4. container_map' \subseteq Cgroup
    BY SMTT(30), <1>17, <2>1 DEF RunEnable
  <2>5. worker' \in [step : {"idle", "cancel", "enroll", "flush", "forget"},
                     of : Call \cup {None}]
    BY SMTT(30), <1>17 DEF RunEnable
  <2>6. QED
    BY <1>17, <2>1, <2>2, <2>3, <2>4, <2>5 DEF RunEnable
<1>18. ASSUME NEW k \in Call, RunInit(k) PROVE TypeOK'
  <2>1. queue' \in Seq(Job)
    BY <1>18, Taken DEF RunInit
  <2>2. call' \in [Call -> CallState]
    BY <1>18, SetPc DEF RunInit
  <2>3. /\ todo' \subseteq Container
        /\ worker' \in [step : {"idle", "cancel", "enroll", "flush", "forget"},
                        of : Call \cup {None}]
    BY SMTT(30), <1>18 DEF RunInit
  <2>4. QED
    BY <1>18, <2>1, <2>2, <2>3 DEF RunInit
<1>19. ASSUME NEW k \in Call, RunRemove(k) PROVE TypeOK'
  BY SMTT(30), <1>19 DEF RunRemove
<1>20. ASSUME NEW k \in Call, cancelBypassTimer(k) PROVE TypeOK'
  BY SMTT(30), <1>20 DEF cancelBypassTimer
<1>21. ASSUME NEW k \in Call, InitDone(k) PROVE TypeOK'
  BY SMTT(30), <1>21 DEF InitDone
<1>22. ASSUME NEW k \in Call, NEW c \in Container, Reenroll(k, c) PROVE TypeOK'
  BY SMTT(30), <1>22 DEF Reenroll
<1>23. ASSUME NEW k \in Call, RemoveFlush(k) PROVE TypeOK'
  BY <1>23 DEF RemoveFlush
<1>24. ASSUME NEW k \in Call, RemoveForget(k) PROVE TypeOK'
  <2>1. call' \in [Call -> CallState]
    BY <1>24, SetPc DEF RemoveForget
  <2>2. storedCgroupID' \in [Container -> Cgroup \cup {None}]
    BY <1>24 DEF RemoveForget
  <2>3. QED
    BY <1>24, <2>1, <2>2 DEF RemoveForget
<1>25. ASSUME DrainClose PROVE TypeOK'
  BY <1>25 DEF DrainClose
<1>26. ASSUME DrainClosed PROVE TypeOK'
  BY <1>26 DEF DrainClosed
<1>27. ASSUME DrainStopRPC PROVE TypeOK'
  BY <1>27 DEF DrainStopRPC
<1>28. ASSUME DrainCancel PROVE TypeOK'
  BY <1>28 DEF DrainCancel
<1>29. ASSUME DrainFlush PROVE TypeOK'
  BY <1>29 DEF DrainFlush
<1>30. CASE UNCHANGED vars
  BY <1>30 DEF vars
<1> HIDE DEF TypeOK, Shapes, Jobs, ContainerOp, rpcVars, mapVars, timerVars,
             workVars, dockerVars, Admitted, Resolved, Take, Answer, Stopped,
             InstallOK, InstallFails, CancelAllBypassTimers, FlushAll,
             DrainTo, Idle, closed, CallState, CallStep
<1>31. QED
  BY <1>1, <1>2, <1>3, <1>4, <1>5, <1>6, <1>7, <1>8, <1>9, <1>10, <1>11,
     <1>12, <1>13, <1>14, <1>15, <1>16, <1>17, <1>18, <1>19, <1>20, <1>21,
     <1>22, <1>23, <1>24, <1>25, <1>26, <1>27, <1>28, <1>29, <1>30
     DEF Next, Docker, Client, Handler, Timer, Worker, Drain

\* A call's container and id do not change once it has begun, and a timer is
\* armed once, by a call that is about to return.
LEMMA ShapesStep ==
    TypeOK /\ Shapes /\ Jobs /\ [Next]_vars => Shapes'
<1> SUFFICES ASSUME TypeOK, Shapes, Jobs, [Next]_vars
             PROVE  Shapes'
  OBVIOUS
<1> USE ConstantAssumption, OpAssumption DEF TypeOK, Shapes, Jobs,
                                             ContainerOp, rpcVars, mapVars,
                                             timerVars, workVars, dockerVars,
                                             Admitted, Resolved, Take, Answer,
                                             Stopped, InstallOK, InstallFails,
                                             CancelAllBypassTimers, FlushAll,
                                             DrainTo, Idle, closed, CallState,
                                             CallStep
<1>1. ASSUME NEW c \in Container, StartContainer(c) PROVE Shapes'
  BY <1>1 DEF StartContainer
<1>2. ASSUME NEW c \in Container, StopContainer(c) PROVE Shapes'
  BY <1>2 DEF StopContainer
<1>3. ASSUME NEW k \in Call, NEW c \in Container, ResolveEnable(k, c) PROVE Shapes'
  BY SMTT(30), <1>3 DEF ResolveEnable
<1>4. ASSUME NEW k \in Call, NEW c \in Container, ResolveDisable(k, c) PROVE Shapes'
  BY SMTT(30), <1>4 DEF ResolveDisable
<1>5. ASSUME NEW k \in Call, NEW c \in Container, ResolveBypass(k, c) PROVE Shapes'
  BY SMTT(30), <1>5 DEF ResolveBypass
<1>6. ASSUME NEW k \in Call, NEW op \in Op, BeginGlobal(k, op) PROVE Shapes'
  BY SMTT(30), <1>6 DEF BeginGlobal
<1>7. ASSUME NEW k \in Call, AbandonEnable(k) PROVE Shapes'
  BY SMTT(30), <1>7 DEF AbandonEnable
<1>8. ASSUME NEW k \in Call, SubmitCall(k) PROVE Shapes'
  <2>1. /\ \A x \in Call \ {k} : call'[x] = call[x]
        /\ call'[k].op = call[k].op /\ call'[k].on = call[k].on
        /\ call'[k].id = call[k].id /\ call[k].pc = "resolved"
        /\ call'[k].pc \in {"queued", "failed"}
        /\ timer' = timer
    BY SMTT(30), <1>8 DEF SubmitCall
  <2>2. QED
    BY SMTT(30), <2>1
<1>9. ASSUME NEW k \in Call, SeedStored(k) PROVE Shapes'
  BY SMTT(30), <1>9 DEF SeedStored
<1>10. ASSUME NEW k \in Call, ArmTimer(k) PROVE Shapes'
  BY SMTT(30), <1>10 DEF ArmTimer
<1>11. ASSUME NEW k \in Call, Fire(k) PROVE Shapes'
  BY SMTT(30), <1>11 DEF Fire
<1>12. ASSUME NEW k \in Call, resolveBypassCgroupID(k) PROVE Shapes'
  BY SMTT(30), <1>12 DEF resolveBypassCgroupID
<1>13. ASSUME NEW k \in Call, SubmitRestore(k) PROVE Shapes'
  BY SMTT(30), <1>13 DEF SubmitRestore
<1>14. ASSUME NEW k \in Call, ForgetEntry(k) PROVE Shapes'
  BY SMTT(30), <1>14 DEF ForgetEntry
<1>15. ASSUME NEW k \in Call, RunDisable(k) PROVE Shapes'
  <2>1. call[k].pc = "queued" /\ timer' = timer
    BY <1>15, Taken DEF RunDisable
  <2>2. /\ \A x \in Call \ {k} : call'[x] = call[x]
        /\ call'[k].op = call[k].op /\ call'[k].on = call[k].on
        /\ call'[k].id = call[k].id
        /\ call'[k].pc \in {"queued", "replied", "done", "failed"}
        /\ call'[k].pc = "replied" => call[k].op = "bypass"
    BY SMTT(30), <1>15, <2>1 DEF RunDisable
  <2>3. QED
    BY SMTT(30), <2>1, <2>2
<1>16. ASSUME NEW k \in Call, RunRestore(k) PROVE Shapes'
  BY SMTT(30), <1>16 DEF RunRestore
<1>17. ASSUME NEW k \in Call, RunEnable(k) PROVE Shapes'
  <2>1. call[k].pc = "queued" /\ timer' = timer
    BY <1>17, Taken DEF RunEnable
  <2>2. /\ \A x \in Call \ {k} : call'[x] = call[x]
        /\ call'[k].op = call[k].op /\ call'[k].on = call[k].on
        /\ call'[k].id = call[k].id
        /\ call'[k].pc \in {"queued", "replied", "done", "failed"}
        /\ call'[k].pc = "replied" => call[k].op = "bypass"
    BY SMTT(30), <1>17, <2>1 DEF RunEnable
  <2>3. QED
    BY SMTT(30), <2>1, <2>2
<1>18. ASSUME NEW k \in Call, RunInit(k) PROVE Shapes'
  <2>1. call[k].pc = "queued" /\ timer' = timer
    BY <1>18, Taken DEF RunInit
  <2>2. /\ \A x \in Call \ {k} : call'[x] = call[x]
        /\ call'[k].op = call[k].op /\ call'[k].on = call[k].on
        /\ call'[k].id = call[k].id
        /\ call'[k].pc \in {"queued", "replied", "done", "failed"}
        /\ call'[k].pc = "replied" => call[k].op = "bypass"
    BY SMTT(30), <1>18, <2>1 DEF RunInit
  <2>3. QED
    BY SMTT(30), <2>1, <2>2
<1>19. ASSUME NEW k \in Call, RunRemove(k) PROVE Shapes'
  BY <1>19 DEF RunRemove
<1>20. ASSUME NEW k \in Call, cancelBypassTimer(k) PROVE Shapes'
  BY SMTT(30), <1>20 DEF cancelBypassTimer
<1>21. ASSUME NEW k \in Call, InitDone(k) PROVE Shapes'
  BY SMTT(30), <1>21 DEF InitDone
<1>22. ASSUME NEW k \in Call, NEW c \in Container, Reenroll(k, c) PROVE Shapes'
  BY SMTT(30), <1>22 DEF Reenroll
<1>23. ASSUME NEW k \in Call, RemoveFlush(k) PROVE Shapes'
  BY SMTT(30), <1>23 DEF RemoveFlush
<1>24. ASSUME NEW k \in Call, RemoveForget(k) PROVE Shapes'
  BY SMTT(30), <1>24 DEF RemoveForget
<1>25. ASSUME DrainClose PROVE Shapes'
  BY <1>25 DEF DrainClose
<1>26. ASSUME DrainClosed PROVE Shapes'
  BY SMTT(30), <1>26 DEF DrainClosed
<1>27. ASSUME DrainStopRPC PROVE Shapes'
  BY <1>27 DEF DrainStopRPC
<1>28. ASSUME DrainCancel PROVE Shapes'
  BY <1>28 DEF DrainCancel
<1>29. ASSUME DrainFlush PROVE Shapes'
  BY <1>29 DEF DrainFlush
<1>30. CASE UNCHANGED vars
  BY <1>30 DEF vars
<1> HIDE DEF TypeOK, Shapes, Jobs, ContainerOp, rpcVars, mapVars, timerVars,
             workVars, dockerVars, Admitted, Resolved, Take, Answer, Stopped,
             InstallOK, InstallFails, CancelAllBypassTimers, FlushAll,
             DrainTo, Idle, closed, CallState, CallStep
<1>31. QED
  BY SMTT(30), <1>1, <1>2, <1>3, <1>4, <1>5, <1>6, <1>7, <1>8, <1>9, <1>10, <1>11,
     <1>12, <1>13, <1>14, <1>15, <1>16, <1>17, <1>18, <1>19, <1>20, <1>21,
     <1>22, <1>23, <1>24, <1>25, <1>26, <1>27, <1>28, <1>29, <1>30
     DEF Next, Docker, Client, Handler, Timer, Worker, Drain

\* SubmitCall and SubmitRestore add a job for a goroutine that then waits, and
\* the worker takes one at a time.
LEMMA JobsStep ==
    TypeOK /\ Shapes /\ Jobs /\ [Next]_vars => Jobs'
<1> SUFFICES ASSUME TypeOK, Shapes, Jobs, [Next]_vars
             PROVE  Jobs'
  OBVIOUS
<1> USE ConstantAssumption, OpAssumption DEF TypeOK, Shapes, Jobs,
                                             ContainerOp, rpcVars, mapVars,
                                             timerVars, workVars, dockerVars,
                                             Admitted, Resolved, Take, Answer,
                                             Stopped, InstallOK, InstallFails,
                                             CancelAllBypassTimers, FlushAll,
                                             DrainTo, Idle, closed, CallState,
                                             CallStep
<1>1. ASSUME NEW c \in Container, StartContainer(c) PROVE Jobs'
  BY SMTT(30), <1>1 DEF StartContainer
<1>2. ASSUME NEW c \in Container, StopContainer(c) PROVE Jobs'
  BY SMTT(30), <1>2 DEF StopContainer
<1>3. ASSUME NEW k \in Call, NEW c \in Container, ResolveEnable(k, c) PROVE Jobs'
  BY SMTT(30), <1>3 DEF ResolveEnable
<1>4. ASSUME NEW k \in Call, NEW c \in Container, ResolveDisable(k, c) PROVE Jobs'
  BY SMTT(30), <1>4 DEF ResolveDisable
<1>5. ASSUME NEW k \in Call, NEW c \in Container, ResolveBypass(k, c) PROVE Jobs'
  BY SMTT(30), <1>5 DEF ResolveBypass
<1>6. ASSUME NEW k \in Call, NEW op \in Op, BeginGlobal(k, op) PROVE Jobs'
  BY SMTT(30), <1>6 DEF BeginGlobal
<1>7. ASSUME NEW k \in Call, AbandonEnable(k) PROVE Jobs'
  BY SMTT(30), <1>7 DEF AbandonEnable
<1>8. ASSUME NEW k \in Call, SubmitCall(k) PROVE Jobs'
  <2>1. \A x \in Call :
           /\ call[x].pc = "queued" => call'[x].pc = "queued" /\ call'[x].op = call[x].op
           /\ timer[x] = "queued" => timer'[x] = "queued"
    <3>1. \E p \in {"queued", "failed"} : call' = [call EXCEPT ![k].pc = p]
      BY <1>8 DEF SubmitCall
    <3>2. call[k].pc # "queued" /\ timer' = timer
      BY <1>8 DEF SubmitCall
    <3>3. QED
      BY SMTT(30), <3>1, <3>2
  <2>2. worker' = worker /\ call[k].pc # "queued"
    BY <1>8 DEF SubmitCall
  <2>3. \/ queue' = queue
        \/ queue' = Append(queue, [of |-> k, restore |-> FALSE]) /\ call'[k].pc = "queued"
    BY SMTT(30), <1>8 DEF SubmitCall
  <2> HIDE DEF TypeOK, Jobs, Shapes, Idle
  <2>4. QED
    BY <2>1, <2>2, <2>3, JobsKept, JobsAppended
<1>9. ASSUME NEW k \in Call, SeedStored(k) PROVE Jobs'
  BY SMTT(30), <1>9 DEF SeedStored
<1>10. ASSUME NEW k \in Call, ArmTimer(k) PROVE Jobs'
  <2>1. \A x \in Call :
           /\ (call[x].pc = "queued" /\ (worker' = worker \/ x # worker.of))
                 => call'[x].pc = "queued" /\ call'[x].op = call[x].op
           /\ timer[x] = "queued" => timer'[x] = "queued"
    BY SMTT(30), <1>10 DEF ArmTimer
  <2>2. queue' = queue /\ worker' \in {worker, Idle}
    BY <1>10 DEF ArmTimer
  <2> HIDE DEF TypeOK, Jobs, Shapes, Idle
  <2>3. QED
    BY <2>1, <2>2, JobsKept
<1>11. ASSUME NEW k \in Call, Fire(k) PROVE Jobs'
  BY SMTT(30), <1>11 DEF Fire
<1>12. ASSUME NEW k \in Call, resolveBypassCgroupID(k) PROVE Jobs'
  BY SMTT(30), <1>12 DEF resolveBypassCgroupID
<1>13. ASSUME NEW k \in Call, SubmitRestore(k) PROVE Jobs'
  <2>1. \A x \in Call :
           /\ call[x].pc = "queued" => call'[x].pc = "queued" /\ call'[x].op = call[x].op
           /\ timer[x] = "queued" => timer'[x] = "queued"
    BY SMTT(30), <1>13 DEF SubmitRestore
  <2>2. worker' = worker /\ timer[k] # "queued"
    BY <1>13 DEF SubmitRestore
  <2>3. \/ queue' = queue
        \/ queue' = Append(queue, [of |-> k, restore |-> TRUE]) /\ timer'[k] = "queued"
    BY SMTT(30), <1>13 DEF SubmitRestore
  <2> HIDE DEF TypeOK, Jobs, Shapes, Idle
  <2>4. QED
    BY <2>1, <2>2, <2>3, JobsKept, JobsAppended
<1>14. ASSUME NEW k \in Call, ForgetEntry(k) PROVE Jobs'
  BY SMTT(30), <1>14 DEF ForgetEntry
<1>15. ASSUME NEW k \in Call, RunDisable(k) PROVE Jobs'
  <2>1. /\ \A x \in Call :
              /\ (call[x].pc = "queued" /\ x # k) => call'[x].pc = "queued"
              /\ timer[x] = "queued" => timer'[x] = "queued"
        /\ Take([of |-> k, restore |-> FALSE])
    BY SMTT(30), <1>15 DEF RunDisable
  <2>2. call[k].pc = "queued" /\ worker = Idle
    BY <1>15, Taken DEF RunDisable
  <2>3. \/ worker' = Idle
        \/ /\ worker'.of = k
           /\ worker'.step # "idle"
           /\ call'[k].pc = "queued"
           /\ worker'.step = "cancel" => call'[k].op = "enable"
    BY <1>15, <2>2 DEF RunDisable
  <2> HIDE DEF TypeOK, Jobs, Shapes, Take, Idle
  <2>4. QED
    BY <2>1, <2>3, JobsTaken
<1>16. ASSUME NEW k \in Call, RunRestore(k) PROVE Jobs'
  <2>1. /\ \A x \in Call :
              /\ call[x].pc = "queued" => call'[x].pc = "queued"
              /\ (timer[x] = "queued" /\ x # k) => timer'[x] = "queued"
        /\ Take([of |-> k, restore |-> TRUE])
    BY SMTT(30), <1>16 DEF RunRestore
  <2>2. worker' = Idle
    BY <1>16 DEF RunRestore
  <2> HIDE DEF TypeOK, Jobs, Shapes, Take, Idle
  <2>3. QED
    BY <2>1, <2>2, JobsTaken
<1>17. ASSUME NEW k \in Call, RunEnable(k) PROVE Jobs'
  <2>1. /\ \A x \in Call :
              /\ (call[x].pc = "queued" /\ x # k) => call'[x].pc = "queued"
              /\ timer[x] = "queued" => timer'[x] = "queued"
        /\ Take([of |-> k, restore |-> FALSE])
    BY SMTT(30), <1>17 DEF RunEnable
  <2>2. call[k].pc = "queued" /\ worker = Idle
    BY <1>17, Taken DEF RunEnable
  <2>3. \/ worker' = Idle
        \/ /\ worker'.of = k
           /\ worker'.step # "idle"
           /\ call'[k].pc = "queued"
           /\ worker'.step = "cancel" => call'[k].op = "enable"
    BY SMTT(30), <1>17, <2>2 DEF RunEnable
  <2> HIDE DEF TypeOK, Jobs, Shapes, Take, Idle
  <2>4. QED
    BY <2>1, <2>3, JobsTaken
<1>18. ASSUME NEW k \in Call, RunInit(k) PROVE Jobs'
  <2>1. /\ \A x \in Call :
              /\ (call[x].pc = "queued" /\ x # k) => call'[x].pc = "queued"
              /\ timer[x] = "queued" => timer'[x] = "queued"
        /\ Take([of |-> k, restore |-> FALSE])
    BY SMTT(30), <1>18 DEF RunInit
  <2>2. call[k].pc = "queued" /\ worker = Idle
    BY <1>18, Taken DEF RunInit
  <2>3. \/ worker' = Idle
        \/ /\ worker'.of = k
           /\ worker'.step # "idle"
           /\ call'[k].pc = "queued"
           /\ worker'.step = "cancel" => call'[k].op = "enable"
    BY SMTT(30), <1>18, <2>2 DEF RunInit
  <2> HIDE DEF TypeOK, Jobs, Shapes, Take, Idle
  <2>4. QED
    BY <2>1, <2>3, JobsTaken
<1>19. ASSUME NEW k \in Call, RunRemove(k) PROVE Jobs'
  <2>1. /\ \A x \in Call :
              /\ (call[x].pc = "queued" /\ x # k) => call'[x].pc = "queued"
              /\ timer[x] = "queued" => timer'[x] = "queued"
        /\ Take([of |-> k, restore |-> FALSE])
    BY <1>19 DEF RunRemove
  <2>2. call[k].pc = "queued" /\ worker = Idle
    BY <1>19, Taken DEF RunRemove
  <2>3. \/ worker' = Idle
        \/ /\ worker'.of = k
           /\ worker'.step # "idle"
           /\ call'[k].pc = "queued"
           /\ worker'.step = "cancel" => call'[k].op = "enable"
    BY <1>19, <2>2 DEF RunRemove
  <2> HIDE DEF TypeOK, Jobs, Shapes, Take, Idle
  <2>4. QED
    BY <2>1, <2>3, JobsTaken
<1>20. ASSUME NEW k \in Call, cancelBypassTimer(k) PROVE Jobs'
  <2>1. \A x \in Call :
           /\ (call[x].pc = "queued" /\ (worker' = worker \/ x # worker.of))
                 => call'[x].pc = "queued" /\ call'[x].op = call[x].op
           /\ timer[x] = "queued" => timer'[x] = "queued"
    BY SMTT(30), <1>20 DEF cancelBypassTimer
  <2>2. queue' = queue /\ worker' \in {worker, Idle}
    BY <1>20 DEF cancelBypassTimer
  <2> HIDE DEF TypeOK, Jobs, Shapes, Idle
  <2>3. QED
    BY <2>1, <2>2, JobsKept
<1>21. ASSUME NEW k \in Call, InitDone(k) PROVE Jobs'
  <2>1. \A x \in Call :
           /\ (call[x].pc = "queued" /\ (worker' = worker \/ x # worker.of))
                 => call'[x].pc = "queued" /\ call'[x].op = call[x].op
           /\ timer[x] = "queued" => timer'[x] = "queued"
    BY SMTT(30), <1>21 DEF InitDone
  <2>2. queue' = queue /\ worker' \in {worker, Idle}
    BY <1>21 DEF InitDone
  <2> HIDE DEF TypeOK, Jobs, Shapes, Idle
  <2>3. QED
    BY <2>1, <2>2, JobsKept
<1>22. ASSUME NEW k \in Call, NEW c \in Container, Reenroll(k, c) PROVE Jobs'
  BY SMTT(30), <1>22 DEF Reenroll
<1>23. ASSUME NEW k \in Call, RemoveFlush(k) PROVE Jobs'
  BY SMTT(30), <1>23 DEF RemoveFlush
<1>24. ASSUME NEW k \in Call, RemoveForget(k) PROVE Jobs'
  <2>1. \A x \in Call :
           /\ (call[x].pc = "queued" /\ (worker' = worker \/ x # worker.of))
                 => call'[x].pc = "queued" /\ call'[x].op = call[x].op
           /\ timer[x] = "queued" => timer'[x] = "queued"
    BY SMTT(30), <1>24 DEF RemoveForget
  <2>2. queue' = queue /\ worker' \in {worker, Idle}
    BY <1>24 DEF RemoveForget
  <2> HIDE DEF TypeOK, Jobs, Shapes, Idle
  <2>3. QED
    BY <2>1, <2>2, JobsKept
<1>25. ASSUME DrainClose PROVE Jobs'
  BY SMTT(30), <1>25 DEF DrainClose
<1>26. ASSUME DrainClosed PROVE Jobs'
  BY SMTT(30), <1>26 DEF DrainClosed
<1>27. ASSUME DrainStopRPC PROVE Jobs'
  BY SMTT(30), <1>27 DEF DrainStopRPC
<1>28. ASSUME DrainCancel PROVE Jobs'
  <2>1. \A x \in Call :
           /\ (call[x].pc = "queued" /\ (worker' = worker \/ x # worker.of))
                 => call'[x].pc = "queued" /\ call'[x].op = call[x].op
           /\ timer[x] = "queued" => timer'[x] = "queued"
    BY <1>28 DEF DrainCancel
  <2>2. queue' = queue /\ worker' \in {worker, Idle}
    BY <1>28 DEF DrainCancel
  <2> HIDE DEF TypeOK, Jobs, Shapes, Idle
  <2>3. QED
    BY <2>1, <2>2, JobsKept
<1>29. ASSUME DrainFlush PROVE Jobs'
  BY SMTT(30), <1>29 DEF DrainFlush
<1>30. CASE UNCHANGED vars
  BY SMTT(30), <1>30 DEF vars
<1> HIDE DEF TypeOK, Shapes, Jobs, ContainerOp, rpcVars, mapVars, timerVars,
             workVars, dockerVars, Admitted, Resolved, Take, Answer, Stopped,
             InstallOK, InstallFails, CancelAllBypassTimers, FlushAll,
             DrainTo, Idle, closed, CallState, CallStep
<1>31. QED
  BY SMTT(30), <1>1, <1>2, <1>3, <1>4, <1>5, <1>6, <1>7, <1>8, <1>9, <1>10, <1>11,
     <1>12, <1>13, <1>14, <1>15, <1>16, <1>17, <1>18, <1>19, <1>20, <1>21,
     <1>22, <1>23, <1>24, <1>25, <1>26, <1>27, <1>28, <1>29, <1>30
     DEF Next, Docker, Client, Handler, Timer, Worker, Drain

\* Whoever stops a timer drops or replaces its entry under the same mutex.
LEMMA EntriesStep ==
    TypeOK /\ Shapes /\ Jobs /\ EntriesAreLive /\ [Next]_vars => EntriesAreLive'
<1> SUFFICES ASSUME TypeOK, Shapes, Jobs, EntriesAreLive, [Next]_vars
             PROVE  EntriesAreLive'
  OBVIOUS
<1> USE ConstantAssumption, OpAssumption DEF TypeOK, Shapes, Jobs,
                                             EntriesAreLive, ContainerOp,
                                             rpcVars, mapVars, timerVars,
                                             workVars, dockerVars, Admitted,
                                             Resolved, Take, Answer, Stopped,
                                             InstallOK, InstallFails,
                                             CancelAllBypassTimers, FlushAll,
                                             DrainTo, Idle, closed, CallState,
                                             CallStep
<1>1. ASSUME NEW c \in Container, StartContainer(c) PROVE EntriesAreLive'
  BY <1>1 DEF StartContainer
<1>2. ASSUME NEW c \in Container, StopContainer(c) PROVE EntriesAreLive'
  BY <1>2 DEF StopContainer
<1>3. ASSUME NEW k \in Call, NEW c \in Container, ResolveEnable(k, c)
      PROVE  EntriesAreLive'
  BY SMTT(30), <1>3 DEF ResolveEnable
<1>4. ASSUME NEW k \in Call, NEW c \in Container, ResolveDisable(k, c)
      PROVE  EntriesAreLive'
  BY SMTT(30), <1>4 DEF ResolveDisable
<1>5. ASSUME NEW k \in Call, NEW c \in Container, ResolveBypass(k, c)
      PROVE  EntriesAreLive'
  BY SMTT(30), <1>5 DEF ResolveBypass
<1>6. ASSUME NEW k \in Call, NEW op \in Op, BeginGlobal(k, op) PROVE EntriesAreLive'
  BY SMTT(30), <1>6 DEF BeginGlobal
<1>7. ASSUME NEW k \in Call, AbandonEnable(k) PROVE EntriesAreLive'
  BY SMTT(30), <1>7 DEF AbandonEnable
<1>8. ASSUME NEW k \in Call, SubmitCall(k) PROVE EntriesAreLive'
  BY SMTT(30), <1>8 DEF SubmitCall
<1>9. ASSUME NEW k \in Call, SeedStored(k) PROVE EntriesAreLive'
  BY SMTT(30), <1>9 DEF SeedStored
<1>10. ASSUME NEW k \in Call, ArmTimer(k) PROVE EntriesAreLive'
  BY SMTT(30), <1>10 DEF ArmTimer
<1>11. ASSUME NEW k \in Call, Fire(k) PROVE EntriesAreLive'
  BY SMTT(30), <1>11 DEF Fire
<1>12. ASSUME NEW k \in Call, resolveBypassCgroupID(k) PROVE EntriesAreLive'
  BY SMTT(30), <1>12 DEF resolveBypassCgroupID
<1>13. ASSUME NEW k \in Call, SubmitRestore(k) PROVE EntriesAreLive'
  BY SMTT(30), <1>13 DEF SubmitRestore
<1>14. ASSUME NEW k \in Call, ForgetEntry(k) PROVE EntriesAreLive'
  BY SMTT(30), <1>14 DEF ForgetEntry
<1>15. ASSUME NEW k \in Call, RunDisable(k) PROVE EntriesAreLive'
  <2>1. \/ call' = call
        \/ \E p \in CallStep : call' = [call EXCEPT ![k].pc = p]
    BY <1>15 DEF RunDisable
  <2>2. \A x \in Call : call'[x].on = call[x].on
    BY SMTT(30), <2>1, SetPc
  <2>3. UNCHANGED timerVars
    BY <1>15 DEF RunDisable
  <2>4. QED
    BY SMTT(30), <2>2, <2>3
<1>16. ASSUME NEW k \in Call, RunRestore(k) PROVE EntriesAreLive'
  BY SMTT(30), <1>16 DEF RunRestore
<1>17. ASSUME NEW k \in Call, RunEnable(k) PROVE EntriesAreLive'
  <2>1. \/ call' = call
        \/ \E p \in CallStep : call' = [call EXCEPT ![k].pc = p]
    BY <1>17 DEF RunEnable
  <2>2. \A x \in Call : call'[x].on = call[x].on
    BY SMTT(30), <2>1, SetPc
  <2>3. UNCHANGED timerVars
    BY <1>17 DEF RunEnable
  <2>4. QED
    BY SMTT(30), <2>2, <2>3
<1>18. ASSUME NEW k \in Call, RunInit(k) PROVE EntriesAreLive'
  <2>1. \/ call' = call
        \/ \E p \in CallStep : call' = [call EXCEPT ![k].pc = p]
    BY <1>18 DEF RunInit
  <2>2. \A x \in Call : call'[x].on = call[x].on
    BY SMTT(30), <2>1, SetPc
  <2>3. UNCHANGED timerVars
    BY <1>18 DEF RunInit
  <2>4. QED
    BY SMTT(30), <2>2, <2>3
<1>19. ASSUME NEW k \in Call, RunRemove(k) PROVE EntriesAreLive'
  BY <1>19 DEF RunRemove
<1>20. ASSUME NEW k \in Call, cancelBypassTimer(k) PROVE EntriesAreLive'
  BY SMTT(30), <1>20 DEF cancelBypassTimer
<1>21. ASSUME NEW k \in Call, InitDone(k) PROVE EntriesAreLive'
  BY SMTT(30), <1>21 DEF InitDone
<1>22. ASSUME NEW k \in Call, NEW c \in Container, Reenroll(k, c)
       PROVE  EntriesAreLive'
  BY SMTT(30), <1>22 DEF Reenroll
<1>23. ASSUME NEW k \in Call, RemoveFlush(k) PROVE EntriesAreLive'
  BY SMTT(30), <1>23 DEF RemoveFlush
<1>24. ASSUME NEW k \in Call, RemoveForget(k) PROVE EntriesAreLive'
  BY SMTT(30), <1>24 DEF RemoveForget
<1>25. ASSUME DrainClose PROVE EntriesAreLive'
  BY <1>25 DEF DrainClose
<1>26. ASSUME DrainClosed PROVE EntriesAreLive'
  BY <1>26 DEF DrainClosed
<1>27. ASSUME DrainStopRPC PROVE EntriesAreLive'
  BY <1>27 DEF DrainStopRPC
<1>28. ASSUME DrainCancel PROVE EntriesAreLive'
  BY <1>28 DEF DrainCancel
<1>29. ASSUME DrainFlush PROVE EntriesAreLive'
  BY <1>29 DEF DrainFlush
<1>30. CASE UNCHANGED vars
  BY <1>30 DEF vars
<1> HIDE DEF TypeOK, Shapes, Jobs, EntriesAreLive, ContainerOp, rpcVars,
             mapVars, timerVars, workVars, dockerVars, Admitted, Resolved,
             Take, Answer, Stopped, InstallOK, InstallFails,
             CancelAllBypassTimers, FlushAll, DrainTo, Idle, closed,
             CallState, CallStep
<1>31. QED
  BY SMTT(30), <1>1, <1>2, <1>3, <1>4, <1>5, <1>6, <1>7, <1>8, <1>9, <1>10, <1>11,
     <1>12, <1>13, <1>14, <1>15, <1>16, <1>17, <1>18, <1>19, <1>20, <1>21,
     <1>22, <1>23, <1>24, <1>25, <1>26, <1>27, <1>28, <1>29, <1>30
     DEF Next, Docker, Client, Handler, Timer, Worker, Drain

\* A closed queue accepts nothing, and only the worker and the drain write the
\* maps.
LEMMA DrainedStep ==
    TypeOK /\ Drained /\ [Next]_vars => Drained'
<1> SUFFICES ASSUME TypeOK, Drained, [Next]_vars
             PROVE  Drained'
  OBVIOUS
<1> USE ConstantAssumption, OpAssumption DEF TypeOK, Drained, DrainIsFinal,
                                             rpcVars, mapVars, timerVars,
                                             workVars, dockerVars, Admitted,
                                             Resolved, Take, Answer, Stopped,
                                             InstallOK, InstallFails,
                                             CancelAllBypassTimers, FlushAll,
                                             DrainTo, Idle, closed, CallState,
                                             CallStep
<1>1. ASSUME NEW c \in Container, StartContainer(c) PROVE Drained'
  BY <1>1 DEF StartContainer
<1>2. ASSUME NEW c \in Container, StopContainer(c) PROVE Drained'
  BY <1>2 DEF StopContainer
<1>3. ASSUME NEW k \in Call, NEW c \in Container, ResolveEnable(k, c) PROVE Drained'
  BY <1>3 DEF ResolveEnable
<1>4. ASSUME NEW k \in Call, NEW c \in Container, ResolveDisable(k, c)
      PROVE  Drained'
  BY <1>4 DEF ResolveDisable
<1>5. ASSUME NEW k \in Call, NEW c \in Container, ResolveBypass(k, c) PROVE Drained'
  BY <1>5 DEF ResolveBypass
<1>6. ASSUME NEW k \in Call, NEW op \in Op, BeginGlobal(k, op) PROVE Drained'
  BY <1>6 DEF BeginGlobal
<1>7. ASSUME NEW k \in Call, AbandonEnable(k) PROVE Drained'
  BY <1>7 DEF AbandonEnable
<1>8. ASSUME NEW k \in Call, SubmitCall(k) PROVE Drained'
  BY <1>8 DEF SubmitCall
<1>9. ASSUME NEW k \in Call, SeedStored(k) PROVE Drained'
  BY <1>9 DEF SeedStored
<1>10. ASSUME NEW k \in Call, ArmTimer(k) PROVE Drained'
  BY <1>10 DEF ArmTimer
<1>11. ASSUME NEW k \in Call, Fire(k) PROVE Drained'
  BY <1>11 DEF Fire
<1>12. ASSUME NEW k \in Call, resolveBypassCgroupID(k) PROVE Drained'
  BY <1>12 DEF resolveBypassCgroupID
<1>13. ASSUME NEW k \in Call, SubmitRestore(k) PROVE Drained'
  BY <1>13 DEF SubmitRestore
<1>14. ASSUME NEW k \in Call, ForgetEntry(k) PROVE Drained'
  BY <1>14 DEF ForgetEntry
<1>15. ASSUME NEW k \in Call, RunDisable(k) PROVE Drained'
  BY <1>15 DEF RunDisable
<1>16. ASSUME NEW k \in Call, RunRestore(k) PROVE Drained'
  BY <1>16 DEF RunRestore
<1>17. ASSUME NEW k \in Call, RunEnable(k) PROVE Drained'
  BY <1>17 DEF RunEnable
<1>18. ASSUME NEW k \in Call, RunInit(k) PROVE Drained'
  BY <1>18 DEF RunInit
<1>19. ASSUME NEW k \in Call, RunRemove(k) PROVE Drained'
  BY <1>19 DEF RunRemove
<1>20. ASSUME NEW k \in Call, cancelBypassTimer(k) PROVE Drained'
  BY <1>20 DEF cancelBypassTimer
<1>21. ASSUME NEW k \in Call, InitDone(k) PROVE Drained'
  BY <1>21 DEF InitDone
<1>22. ASSUME NEW k \in Call, NEW c \in Container, Reenroll(k, c) PROVE Drained'
  BY <1>22 DEF Reenroll
<1>23. ASSUME NEW k \in Call, RemoveFlush(k) PROVE Drained'
  BY <1>23 DEF RemoveFlush
<1>24. ASSUME NEW k \in Call, RemoveForget(k) PROVE Drained'
  BY <1>24 DEF RemoveForget
<1>25. ASSUME DrainClose PROVE Drained'
  BY <1>25 DEF DrainClose
<1>26. ASSUME DrainClosed PROVE Drained'
  BY <1>26 DEF DrainClosed
<1>27. ASSUME DrainStopRPC PROVE Drained'
  BY <1>27 DEF DrainStopRPC
<1>28. ASSUME DrainCancel PROVE Drained'
  BY <1>28 DEF DrainCancel
<1>29. ASSUME DrainFlush PROVE Drained'
  BY <1>29 DEF DrainFlush
<1>30. CASE UNCHANGED vars
  BY <1>30 DEF vars
<1> HIDE DEF TypeOK, Drained, DrainIsFinal, rpcVars, mapVars, timerVars,
             workVars, dockerVars, Admitted, Resolved, Take, Answer, Stopped,
             InstallOK, InstallFails, CancelAllBypassTimers, FlushAll,
             DrainTo, Idle, closed, CallState, CallStep
<1>31. QED
  BY SMTT(30), <1>1, <1>2, <1>3, <1>4, <1>5, <1>6, <1>7, <1>8, <1>9, <1>10, <1>11,
     <1>12, <1>13, <1>14, <1>15, <1>16, <1>17, <1>18, <1>19, <1>20, <1>21,
     <1>22, <1>23, <1>24, <1>25, <1>26, <1>27, <1>28, <1>29, <1>30
     DEF Next, Docker, Client, Handler, Timer, Worker, Drain

\* IInv is an invariant.
LEMMA Inductive == Spec => []IInv
<1>1. IInv /\ [Next]_vars => IInv'
  BY TypeStep, ShapesStep, JobsStep, EntriesStep, DrainedStep DEF IInv
<1>2. QED
  BY InitInv, <1>1, PTL DEF Spec

-----------------------------------------------------------------------------
(* The dead-man guard of containers that keep their cgroups.               *)

\* Lookups return the home of a container, and so does every fallback.
LEMMA IdsStep ==
    ASSUME NEW home \in Home
    PROVE  TypeOK /\ Shapes /\ Jobs /\ IdsAtHome(home) /\ KeepsHome(home)
              /\ [Next]_vars => IdsAtHome(home)'
<1> SUFFICES ASSUME TypeOK, Shapes, Jobs, IdsAtHome(home), KeepsHome(home),
                    [Next]_vars
             PROVE  IdsAtHome(home)'
  OBVIOUS
<1> USE ConstantAssumption, OpAssumption DEF TypeOK, Shapes, Jobs, IdsAtHome,
                                             KeepsHome, Home, ContainerOp,
                                             rpcVars, mapVars, timerVars,
                                             workVars, dockerVars, Admitted,
                                             Resolved, Take, Answer, Stopped,
                                             InstallOK, InstallFails,
                                             CancelAllBypassTimers, FlushAll,
                                             DrainTo, Idle, closed, CallState,
                                             CallStep
<1>1. ASSUME NEW c \in Container, StartContainer(c) PROVE IdsAtHome(home)'
  BY <1>1 DEF StartContainer
<1>2. ASSUME NEW c \in Container, StopContainer(c) PROVE IdsAtHome(home)'
  BY <1>2 DEF StopContainer
<1>3. ASSUME NEW k \in Call, NEW c \in Container, ResolveEnable(k, c)
      PROVE  IdsAtHome(home)'
  BY SMTT(30), <1>3 DEF ResolveEnable
<1>4. ASSUME NEW k \in Call, NEW c \in Container, ResolveDisable(k, c)
      PROVE  IdsAtHome(home)'
  BY SMTT(30), <1>4 DEF ResolveDisable
<1>5. ASSUME NEW k \in Call, NEW c \in Container, ResolveBypass(k, c)
      PROVE  IdsAtHome(home)'
  BY SMTT(30), <1>5 DEF ResolveBypass
<1>6. ASSUME NEW k \in Call, NEW op \in Op, BeginGlobal(k, op)
      PROVE  IdsAtHome(home)'
  BY SMTT(30), <1>6 DEF BeginGlobal
<1>7. ASSUME NEW k \in Call, AbandonEnable(k) PROVE IdsAtHome(home)'
  BY SMTT(30), <1>7 DEF AbandonEnable
<1>8. ASSUME NEW k \in Call, SubmitCall(k) PROVE IdsAtHome(home)'
  <2>1. \/ call' = call
        \/ \E p \in CallStep : call' = [call EXCEPT ![k].pc = p]
    BY <1>8 DEF SubmitCall
  <2>2. /\ \A x \in Call : /\ call'[x].op = call[x].op
                           /\ call'[x].on = call[x].on
                           /\ call'[x].id = call[x].id
        /\ \A x \in Call \ {k} : call'[x].pc = call[x].pc
    BY SMTT(30), <2>1, SetPc
  <2>3. UNCHANGED <<timer, enableID, storedCgroupID>> /\ call[k].pc # "new"
    BY <1>8, Taken DEF SubmitCall
  <2>4. QED
    BY SMTT(30), <2>2, <2>3
<1>9. ASSUME NEW k \in Call, SeedStored(k) PROVE IdsAtHome(home)'
  BY SMTT(30), <1>9 DEF SeedStored
<1>10. ASSUME NEW k \in Call, ArmTimer(k) PROVE IdsAtHome(home)'
  BY SMTT(30), <1>10 DEF ArmTimer
<1>11. ASSUME NEW k \in Call, Fire(k) PROVE IdsAtHome(home)'
  BY SMTT(30), <1>11 DEF Fire
<1>12. ASSUME NEW k \in Call, resolveBypassCgroupID(k) PROVE IdsAtHome(home)'
  BY SMTT(30), <1>12 DEF resolveBypassCgroupID
<1>13. ASSUME NEW k \in Call, SubmitRestore(k) PROVE IdsAtHome(home)'
  BY SMTT(30), <1>13 DEF SubmitRestore
<1>14. ASSUME NEW k \in Call, ForgetEntry(k) PROVE IdsAtHome(home)'
  BY SMTT(30), <1>14 DEF ForgetEntry
<1>15. ASSUME NEW k \in Call, RunDisable(k) PROVE IdsAtHome(home)'
  <2>1. \/ call' = call
        \/ \E p \in CallStep : call' = [call EXCEPT ![k].pc = p]
    BY <1>15 DEF RunDisable
  <2>2. /\ \A x \in Call : /\ call'[x].op = call[x].op
                           /\ call'[x].on = call[x].on
                           /\ call'[x].id = call[x].id
        /\ \A x \in Call \ {k} : call'[x].pc = call[x].pc
    BY SMTT(30), <2>1, SetPc
  <2>3. UNCHANGED <<timer, enableID, storedCgroupID>> /\ call[k].pc # "new"
    BY <1>15, Taken DEF RunDisable
  <2>4. QED
    BY SMTT(30), <2>2, <2>3
<1>16. ASSUME NEW k \in Call, RunRestore(k) PROVE IdsAtHome(home)'
  BY SMTT(30), <1>16 DEF RunRestore
<1>17. ASSUME NEW k \in Call, RunEnable(k) PROVE IdsAtHome(home)'
  <2>1. \/ call' = call
        \/ \E p \in CallStep : call' = [call EXCEPT ![k].pc = p]
    BY <1>17 DEF RunEnable
  <2>2. /\ \A x \in Call : /\ call'[x].op = call[x].op
                           /\ call'[x].on = call[x].on
                           /\ call'[x].id = call[x].id
        /\ \A x \in Call \ {k} : call'[x].pc = call[x].pc
    BY SMTT(30), <2>1, SetPc
  <2>3. UNCHANGED <<timer, enableID, storedCgroupID>> /\ call[k].pc # "new"
    BY <1>17, Taken DEF RunEnable
  <2>4. QED
    BY SMTT(30), <2>2, <2>3
<1>18. ASSUME NEW k \in Call, RunInit(k) PROVE IdsAtHome(home)'
  <2>1. \/ call' = call
        \/ \E p \in CallStep : call' = [call EXCEPT ![k].pc = p]
    BY <1>18 DEF RunInit
  <2>2. /\ \A x \in Call : /\ call'[x].op = call[x].op
                           /\ call'[x].on = call[x].on
                           /\ call'[x].id = call[x].id
        /\ \A x \in Call \ {k} : call'[x].pc = call[x].pc
    BY SMTT(30), <2>1, SetPc
  <2>3. UNCHANGED <<timer, enableID, storedCgroupID>> /\ call[k].pc # "new"
    BY <1>18, Taken DEF RunInit
  <2>4. QED
    BY SMTT(30), <2>2, <2>3
<1>19. ASSUME NEW k \in Call, RunRemove(k) PROVE IdsAtHome(home)'
  BY <1>19 DEF RunRemove
<1>20. ASSUME NEW k \in Call, cancelBypassTimer(k) PROVE IdsAtHome(home)'
  BY SMTT(30), <1>20 DEF cancelBypassTimer
<1>21. ASSUME NEW k \in Call, InitDone(k) PROVE IdsAtHome(home)'
  BY SMTT(30), <1>21 DEF InitDone
<1>22. ASSUME NEW k \in Call, NEW c \in Container, Reenroll(k, c)
       PROVE  IdsAtHome(home)'
  BY SMTT(30), <1>22 DEF Reenroll
<1>23. ASSUME NEW k \in Call, RemoveFlush(k) PROVE IdsAtHome(home)'
  BY SMTT(30), <1>23 DEF RemoveFlush
<1>24. ASSUME NEW k \in Call, RemoveForget(k) PROVE IdsAtHome(home)'
  BY SMTT(30), <1>24 DEF RemoveForget
<1>25. ASSUME DrainClose PROVE IdsAtHome(home)'
  BY <1>25 DEF DrainClose
<1>26. ASSUME DrainClosed PROVE IdsAtHome(home)'
  BY <1>26 DEF DrainClosed
<1>27. ASSUME DrainStopRPC PROVE IdsAtHome(home)'
  BY <1>27 DEF DrainStopRPC
<1>28. ASSUME DrainCancel PROVE IdsAtHome(home)'
  BY <1>28 DEF DrainCancel
<1>29. ASSUME DrainFlush PROVE IdsAtHome(home)'
  BY <1>29 DEF DrainFlush
<1>30. CASE UNCHANGED vars
  BY <1>30 DEF vars
<1> HIDE DEF TypeOK, Shapes, Jobs, IdsAtHome, KeepsHome, Home, ContainerOp,
             rpcVars, mapVars, timerVars, workVars, dockerVars, Admitted,
             Resolved, Take, Answer, Stopped, InstallOK, InstallFails,
             CancelAllBypassTimers, FlushAll, DrainTo, Idle, closed,
             CallState, CallStep
<1>31. QED
  BY SMTT(30), <1>1, <1>2, <1>3, <1>4, <1>5, <1>6, <1>7, <1>8, <1>9, <1>10, <1>11,
     <1>12, <1>13, <1>14, <1>15, <1>16, <1>17, <1>18, <1>19, <1>20, <1>21,
     <1>22, <1>23, <1>24, <1>25, <1>26, <1>27, <1>28, <1>29, <1>30
     DEF Next, Docker, Client, Handler, Timer, Worker, Drain

\* Steps that put no flag up, and leave someone for each that is up.
LEMMA FlagsKept ==
    ASSUME NEW home \in Home, FlagsAwaited(home),
           \A c \in Container :
              bypass_map'[home[c]] = "bypass" =>
                 /\ bypass_map[home[c]] = "bypass"
                 /\ \A b \in Call : DeadMan(b, c) => DeadMan(b, c)' \/ closed
                 /\ worker.step = "flush" => worker'.step = "flush",
           closed => closed',
           worker'.step = "cancel" =>
              \/ worker' = worker /\ call'[worker.of].on = call[worker.of].on
              \/ bypass_map'[home[call'[worker'.of].on]] # "bypass",
           worker.step = "cancel" => call[worker.of].on \in Container
    PROVE  FlagsAwaited(home)'
<1>1. ASSUME NEW c \in Container, bypass_map'[home[c]] = "bypass"
      PROVE  Awaited(c)'
  <2>1. Awaited(c)
    BY <1>1 DEF FlagsAwaited
  <2>2. QED
    BY <1>1, <2>1 DEF Awaited
<1>2. worker'.step = "cancel"
         => bypass_map'[home[call'[worker'.of].on]] # "bypass"
  BY DEF FlagsAwaited
<1>3. QED
  BY <1>1, <1>2 DEF FlagsAwaited

\* The call whose Enable is about to stop a timer names a container.
LEMMA CancelNames ==
    ASSUME TypeOK, Shapes, Jobs, worker.step = "cancel"
    PROVE  /\ worker.of \in Call
           /\ call[worker.of].pc = "queued"
           /\ call[worker.of].op = "enable"
           /\ call[worker.of].on \in Container
<1>1. /\ worker.of \in Call
      /\ call[worker.of].pc = "queued"
      /\ call[worker.of].op = "enable"
  BY DEF Jobs
<1>2. QED
  BY <1>1 DEF Shapes, ContainerOp

\* A call that is admitted was nobody's dead-man timer.
LEMMA DeadManAdmit ==
    ASSUME call \in [Call -> CallState], Shapes, NEW k \in Call, NEW r,
           call[k].pc = "new", call' = [call EXCEPT ![k] = r], timer' = timer
    PROVE  /\ \A x \in Call \ {k} : call'[x] = call[x]
           /\ \A b \in Call, c \in Container : DeadMan(b, c) => DeadMan(b, c)'
<1>1. \A x \in Call \ {k} : call'[x] = call[x]
  OBVIOUS
<1>2. ASSUME NEW b \in Call, NEW c \in Container, DeadMan(b, c)
      PROVE  b # k
  BY <1>2 DEF DeadMan, Shapes
<1>3. QED
  BY <1>1, <1>2 DEF DeadMan

\* A call that has answered a bypass stays about to arm its timer.
LEMMA DeadManPc ==
    ASSUME call \in [Call -> CallState], NEW k \in Call, NEW p \in CallStep,
           call' = [call EXCEPT ![k].pc = p], timer' = timer,
           call[k].pc \in {"replied", "seeded"} => p \in {"replied", "seeded"}
    PROVE  /\ \A x \in Call : call'[x].on = call[x].on
           /\ \A b \in Call, c \in Container : DeadMan(b, c) => DeadMan(b, c)'
<1>1. \A x \in Call : /\ call'[x].op = call[x].op
                     /\ call'[x].on = call[x].on
                     /\ call'[x].pc = IF x = k THEN p ELSE call[x].pc
  BY SetPc
<1>2. QED
  BY <1>1 DEF DeadMan

\* A timer on its way stays on its way.
LEMMA DeadManTimer ==
    ASSUME timer \in [Call -> {"none", "armed", "stopped", "fired", "resolved",
                               "queued", "answered", "done"}],
           NEW k \in Call, NEW t, call' = call,
           timer' = [timer EXCEPT ![k] = t],
           \/ timer[k] \in {"none", "stopped", "answered", "done"}
           \/ t \in {"armed", "fired", "resolved", "queued"}
    PROVE  \A b \in Call, c \in Container : DeadMan(b, c) => DeadMan(b, c)'
<1>1. \A x \in Call : timer'[x] = IF x = k THEN t ELSE timer[x]
  OBVIOUS
<1>2. QED
  BY <1>1 DEF DeadMan

\* Steps that leave the flags and the worker alone, and no dead-man timer
\* behind unless the queue is closed.
LEMMA FlagsQuiet ==
    ASSUME NEW home \in Home, TypeOK, Shapes, Jobs, FlagsAwaited(home),
           UNCHANGED <<bypass_map, worker, drain>>,
           \A b \in Call, c \in Container : DeadMan(b, c) => DeadMan(b, c)' \/ closed,
           worker.step = "cancel" => call'[worker.of].on = call[worker.of].on
    PROVE  FlagsAwaited(home)'
  BY CancelNames, FlagsKept DEF closed

\* A flag goes up together with the bypass call that will arm a timer, and
\* every step that disarms one leaves another, a flush, or the flag down.
LEMMA FlagsStep ==
    ASSUME NEW home \in Home, "enable" \notin Faults
    PROVE  TypeOK /\ Shapes /\ Jobs /\ EntriesAreLive /\ IdsAtHome(home)
              /\ FlagsAwaited(home) /\ [Next]_vars => FlagsAwaited(home)'
<1> SUFFICES ASSUME TypeOK, Shapes, Jobs, EntriesAreLive, IdsAtHome(home),
                    FlagsAwaited(home), [Next]_vars
             PROVE  FlagsAwaited(home)'
  OBVIOUS
<1> USE DEF rpcVars, mapVars, timerVars, workVars, dockerVars, Admitted,
            Resolved, Answer, DrainTo, closed
<1>a. /\ call \in [Call -> CallState]
      /\ timer \in [Call -> {"none", "armed", "stopped", "fired", "resolved",
                             "queued", "answered", "done"}]
      /\ bypass_map \in [Cgroup -> {"clear", "bypass", "disable"}]
  BY DEF TypeOK
<1>b. worker.step = "cancel" =>
         /\ worker.of \in Call
         /\ call[worker.of].pc = "queued"
         /\ call[worker.of].op = "enable"
         /\ call[worker.of].on \in Container
  BY CancelNames
<1>c. ASSUME NEW k \in Call, worker.step # "idle", worker.of = k
      PROVE  call[k].pc = "queued"
  BY <1>c DEF Jobs
<1>d. \A c \in Container : home[c] \in Cgroup
  BY DEF Home
<1>1. ASSUME NEW c \in Container, StartContainer(c) PROVE FlagsAwaited(home)'
  BY <1>1, FlagsQuiet DEF StartContainer, DeadMan
<1>2. ASSUME NEW c \in Container, StopContainer(c) PROVE FlagsAwaited(home)'
  BY <1>2, FlagsQuiet DEF StopContainer, DeadMan
<1>3. ASSUME NEW k \in Call, NEW c \in Container, ResolveEnable(k, c)
      PROVE  FlagsAwaited(home)'
  <2>1. /\ \A x \in Call \ {k} : call'[x] = call[x]
        /\ \A b \in Call, d \in Container : DeadMan(b, d) => DeadMan(b, d)'
    BY <1>a, <1>3, DeadManAdmit DEF ResolveEnable
  <2>2. UNCHANGED <<bypass_map, worker, drain>> /\ call[k].pc = "new"
    BY <1>3 DEF ResolveEnable
  <2>3. QED
    BY <1>b, <2>1, <2>2, FlagsQuiet
<1>4. ASSUME NEW k \in Call, NEW c \in Container, ResolveDisable(k, c)
      PROVE  FlagsAwaited(home)'
  <2>1. /\ \A x \in Call \ {k} : call'[x] = call[x]
        /\ \A b \in Call, d \in Container : DeadMan(b, d) => DeadMan(b, d)'
    BY <1>a, <1>4, DeadManAdmit DEF ResolveDisable
  <2>2. UNCHANGED <<bypass_map, worker, drain>> /\ call[k].pc = "new"
    BY <1>4 DEF ResolveDisable
  <2>3. QED
    BY <1>b, <2>1, <2>2, FlagsQuiet
<1>5. ASSUME NEW k \in Call, NEW c \in Container, ResolveBypass(k, c)
      PROVE  FlagsAwaited(home)'
  <2>1. /\ \A x \in Call \ {k} : call'[x] = call[x]
        /\ \A b \in Call, d \in Container : DeadMan(b, d) => DeadMan(b, d)'
    BY <1>a, <1>5, DeadManAdmit DEF ResolveBypass
  <2>2. UNCHANGED <<bypass_map, worker, drain>> /\ call[k].pc = "new"
    BY <1>5 DEF ResolveBypass
  <2>3. QED
    BY <1>b, <2>1, <2>2, FlagsQuiet
<1>6. ASSUME NEW k \in Call, NEW op \in Op, BeginGlobal(k, op)
      PROVE  FlagsAwaited(home)'
  <2>1. /\ \A x \in Call \ {k} : call'[x] = call[x]
        /\ \A b \in Call, d \in Container : DeadMan(b, d) => DeadMan(b, d)'
    BY <1>a, <1>6, DeadManAdmit DEF BeginGlobal
  <2>2. UNCHANGED <<bypass_map, worker, drain>> /\ call[k].pc = "new"
    BY <1>6 DEF BeginGlobal
  <2>3. QED
    BY <1>b, <2>1, <2>2, FlagsQuiet
<1>7. ASSUME NEW k \in Call, AbandonEnable(k) PROVE FlagsAwaited(home)'
  <2>1. /\ \A x \in Call : call'[x].on = call[x].on
        /\ \A b \in Call, d \in Container : DeadMan(b, d) => DeadMan(b, d)'
    BY <1>a, <1>7, DeadManPc DEF AbandonEnable, CallStep
  <2>2. UNCHANGED <<bypass_map, worker, drain>>
    BY <1>7 DEF AbandonEnable
  <2>3. QED
    BY <1>b, <2>1, <2>2, FlagsQuiet
<1>8. ASSUME NEW k \in Call, SubmitCall(k) PROVE FlagsAwaited(home)'
  <2>1. PICK p \in CallStep : call' = [call EXCEPT ![k].pc = p]
    BY <1>8 DEF SubmitCall, CallStep
  <2>2. UNCHANGED <<bypass_map, timer, worker, drain>> /\ call[k].pc = "resolved"
    BY <1>8 DEF SubmitCall
  <2>3. /\ \A x \in Call : call'[x].on = call[x].on
        /\ \A b \in Call, d \in Container : DeadMan(b, d) => DeadMan(b, d)'
    BY <1>a, <2>1, <2>2, DeadManPc
  <2>4. QED
    BY <1>b, <2>2, <2>3, FlagsQuiet
<1>9. ASSUME NEW k \in Call, SeedStored(k) PROVE FlagsAwaited(home)'
  <2>1. /\ \A x \in Call : call'[x].on = call[x].on
        /\ \A b \in Call, d \in Container : DeadMan(b, d) => DeadMan(b, d)'
    BY <1>a, <1>9, DeadManPc DEF SeedStored, CallStep
  <2>2. UNCHANGED <<bypass_map, worker, drain>>
    BY <1>9 DEF SeedStored
  <2>3. QED
    BY <1>b, <2>1, <2>2, FlagsQuiet
<1>10. ASSUME NEW k \in Call, ArmTimer(k) PROVE FlagsAwaited(home)'
  <2>1. PICK o \in Container : o = call[k].on /\ call[k].op = "bypass"
    BY <1>10 DEF ArmTimer, Shapes, ContainerOp
  <2>2. /\ \A x \in Call : /\ call'[x].op = call[x].op
                           /\ call'[x].on = call[x].on
        /\ \A x \in Call \ {k} : call'[x].pc = call[x].pc
    BY ZenonT(60), <1>a, <1>10, SetPc DEF ArmTimer, CallStep
  <2>3. /\ timer'[k] = "armed"
        /\ \A x \in Call \ {bypassTimers[o], k} : timer'[x] = timer[x]
    BY <1>10, <2>1 DEF ArmTimer, Stopped
  <2>4. DeadMan(k, o)'
    BY <2>1, <2>2, <2>3 DEF DeadMan
  <2>5. ASSUME NEW c \in Container, c # o, NEW b \in Call, DeadMan(b, c)
        PROVE  DeadMan(b, c)'
    <3>1. call[b].on = c /\ b # k
      BY <2>1, <2>5 DEF DeadMan
    <3>2. b # bypassTimers[o]
      BY <2>5, <3>1, ConstantAssumption DEF EntriesAreLive
    <3>3. QED
      BY <2>2, <2>3, <2>5, <3>1, <3>2 DEF DeadMan
  <2>6. UNCHANGED <<bypass_map, worker, drain>>
    BY <1>10 DEF ArmTimer
  <2>7. ASSUME NEW c \in Container, bypass_map'[home[c]] = "bypass"
        PROVE  Awaited(c)'
    <3>1. CASE c = o
      BY <2>4, <3>1 DEF Awaited
    <3>2. CASE c # o
      <4>1. Awaited(c)
        BY <2>6, <2>7 DEF FlagsAwaited
      <4>2. QED
        BY <2>5, <2>6, <3>2, <4>1 DEF Awaited
    <3>3. QED
      BY <3>1, <3>2
  <2>8. worker'.step = "cancel"
           => bypass_map'[home[call'[worker'.of].on]] # "bypass"
    BY <1>b, <2>2, <2>6 DEF FlagsAwaited
  <2>9. QED
    BY <2>7, <2>8 DEF FlagsAwaited
<1>11. ASSUME NEW k \in Call, Fire(k) PROVE FlagsAwaited(home)'
  <2>1. \A b \in Call, c \in Container : DeadMan(b, c) => DeadMan(b, c)'
    BY <1>a, <1>11, DeadManTimer DEF Fire
  <2>2. QED
    BY <1>11, <2>1, FlagsQuiet DEF Fire
<1>12. ASSUME NEW k \in Call, resolveBypassCgroupID(k) PROVE FlagsAwaited(home)'
  <2>1. \A b \in Call, c \in Container : DeadMan(b, c) => DeadMan(b, c)'
    BY <1>a, <1>12, DeadManTimer DEF resolveBypassCgroupID
  <2>2. UNCHANGED <<bypass_map, worker, drain, call>>
    BY <1>12 DEF resolveBypassCgroupID
  <2>3. QED
    BY <2>1, <2>2, FlagsQuiet
<1>13. ASSUME NEW k \in Call, SubmitRestore(k) PROVE FlagsAwaited(home)'
  <2>1. UNCHANGED <<bypass_map, worker, drain, call>>
    BY <1>13 DEF SubmitRestore
  <2>2. CASE drain # "serving"
    BY <2>1, <2>2, FlagsQuiet
  <2>3. CASE drain = "serving"
    <3>1. timer' = [timer EXCEPT ![k] = "queued"]
      BY <1>13, <2>3 DEF SubmitRestore
    <3>2. \A b \in Call, c \in Container : DeadMan(b, c) => DeadMan(b, c)'
      BY <1>a, <2>1, <3>1, DeadManTimer
    <3>3. QED
      BY <2>1, <3>2, FlagsQuiet
  <2>4. QED
    BY <2>2, <2>3
<1>14. ASSUME NEW k \in Call, ForgetEntry(k) PROVE FlagsAwaited(home)'
  <2>1. \A b \in Call, c \in Container : DeadMan(b, c) => DeadMan(b, c)'
    BY <1>a, <1>14, DeadManTimer DEF ForgetEntry
  <2>2. QED
    BY <1>14, <2>1, FlagsQuiet DEF ForgetEntry
<1>15. ASSUME NEW k \in Call, RunDisable(k) PROVE FlagsAwaited(home)'
  <2>1. /\ call[k].pc = "queued" /\ call[k].op \in {"disable", "bypass"}
        /\ worker = Idle /\ UNCHANGED <<worker, timer, drain>>
    BY <1>15, Taken DEF RunDisable, TypeOK
  <2>2. PICK o \in Container : o = call[k].on /\ call[k].id = home[o]
    BY <2>1 DEF Shapes, IdsAtHome, ContainerOp
  <2>3. PICK p \in CallStep : call' = [call EXCEPT ![k].pc = p]
    BY <1>15 DEF RunDisable, CallStep
  <2>4. /\ \A x \in Call : call'[x].on = call[x].on
        /\ \A b \in Call, c \in Container : DeadMan(b, c) => DeadMan(b, c)'
    BY <1>a, <2>1, <2>3, DeadManPc
  <2>5. ASSUME call[k].op = "bypass",
               bypass_map' = [bypass_map EXCEPT ![home[o]] = call[k].op],
               call' = [call EXCEPT ![k].pc = IF call[k].op = "bypass"
                                              THEN "replied" ELSE "done"]
        PROVE  DeadMan(k, o)'
    <3>1. call' = [call EXCEPT ![k].pc = "replied"]
      BY <2>5
    <3>2. call'[k].op = call[k].op /\ call'[k].on = o /\ call'[k].pc = "replied"
      BY SMTT(30), <1>a, <2>2, <3>1 DEF CallState
    <3>3. QED
      BY <2>5, <3>2 DEF DeadMan
  <2>6. \/ bypass_map' = bypass_map
        \/ /\ bypass_map' = [bypass_map EXCEPT ![home[o]] = call[k].op]
           /\ call[k].op = "bypass" => DeadMan(k, o)'
    BY <1>15, <2>2, <2>5 DEF RunDisable
  <2>7. ASSUME NEW c \in Container, bypass_map'[home[c]] = "bypass"
        PROVE  Awaited(c)'
    <3>1. CASE bypass_map[home[c]] = "bypass"
      <4>1. Awaited(c)
        BY <3>1 DEF FlagsAwaited
      <4>2. QED
        BY <2>1, <2>4, <4>1 DEF Awaited
    <3>2. CASE bypass_map[home[c]] # "bypass"
      <4>1. home[c] = home[o] /\ call[k].op = "bypass" /\ DeadMan(k, o)'
        BY <1>a, <1>d, <2>6, <2>7, <3>2
      <4>2. c = o
        BY <4>1 DEF Home
      <4>3. QED
        BY <4>1, <4>2 DEF Awaited
    <3>3. QED
      BY <3>1, <3>2
  <2>8. worker'.step # "cancel"
    BY <2>1 DEF Idle
  <2>9. QED
    BY <2>7, <2>8 DEF FlagsAwaited
<1>16. ASSUME NEW k \in Call, RunRestore(k) PROVE FlagsAwaited(home)'
  <2> DEFINE o == call[k].on
  <2>1. timer[k] = "queued" /\ worker = Idle
    BY <1>16, Taken DEF RunRestore, TypeOK
  <2>2. UNCHANGED <<call, worker, drain>>
    BY <1>16 DEF RunRestore
  <2>3. o \in Container /\ enableID[k] = home[o]
    BY <2>1 DEF Shapes, IdsAtHome, ContainerOp
  <2>4. /\ bypass_map' = [bypass_map EXCEPT ![home[o]] = "clear"]
        /\ timer' = [timer EXCEPT ![k] = "answered"]
    BY <1>16, <2>3 DEF RunRestore
  <2>5. ASSUME NEW c \in Container, bypass_map'[home[c]] = "bypass"
        PROVE  bypass_map[home[c]] = "bypass" /\ c # o
    BY <1>a, <1>d, <2>3, <2>4, <2>5
  <2>6. ASSUME NEW c \in Container, c # o, NEW b \in Call, DeadMan(b, c)
        PROVE  DeadMan(b, c)'
    BY <1>a, <2>2, <2>4, <2>6 DEF DeadMan
  <2>7. worker.step \notin {"cancel", "flush"}
    BY <2>1 DEF Idle
  <2> HIDE DEF o
  <2>8. QED
    BY <2>2, <2>5, <2>6, <2>7, FlagsKept
<1>17. ASSUME NEW k \in Call, RunEnable(k) PROVE FlagsAwaited(home)'
  <2> DEFINE o == call[k].on
  <2>1. call[k].pc = "queued" /\ call[k].op = "enable" /\ worker = Idle
    BY <1>17, Taken DEF RunEnable, TypeOK
  <2>2. o \in Container /\ call[k].id = home[o]
    BY <2>1 DEF Shapes, IdsAtHome, ContainerOp
  <2>3. /\ bypass_map' = [bypass_map EXCEPT ![home[o]] = "clear"]
        /\ UNCHANGED <<timer, drain>>
    BY <1>17, <2>2 DEF RunEnable, InstallOK, InstallFails
  <2>4. call' = call \/ call' = [call EXCEPT ![k].pc = "failed"]
    BY <1>17 DEF RunEnable
  <2>5. /\ \A x \in Call : call'[x].on = call[x].on
        /\ \A b \in Call, c \in Container : DeadMan(b, c) => DeadMan(b, c)'
    <3>1. CASE call' = call
      BY <2>3, <3>1 DEF DeadMan
    <3>2. CASE call' = [call EXCEPT ![k].pc = "failed"]
      BY <1>a, <2>1, <2>3, <3>2, DeadManPc DEF CallStep
    <3>3. QED
      BY <2>4, <3>1, <3>2
  <2>6. ASSUME NEW c \in Container, bypass_map'[home[c]] = "bypass"
        PROVE  bypass_map[home[c]] = "bypass"
    BY <1>a, <1>d, <2>2, <2>3, <2>6
  <2>7. bypass_map'[home[o]] # "bypass"
    BY <1>a, <1>d, <2>2, <2>3
  <2>8. worker.step \notin {"cancel", "flush"}
    BY <2>1 DEF Idle
  <2>9. worker'.step = "cancel" => worker'.of = k
    BY SMTT(30), <1>17, <2>8 DEF RunEnable
  <2>10. worker'.step = "cancel" => bypass_map'[home[call'[worker'.of].on]] # "bypass"
    BY <2>5, <2>7, <2>9
  <2> HIDE DEF o
  <2>11. QED
    BY <2>3, <2>5, <2>6, <2>8, <2>10, FlagsKept
<1>18. ASSUME NEW k \in Call, RunInit(k) PROVE FlagsAwaited(home)'
  <2>1. call[k].pc = "queued" /\ worker = Idle
    BY <1>18, Taken DEF RunInit, TypeOK
  <2>2. UNCHANGED <<bypass_map, timer, drain>>
    BY <1>18 DEF RunInit
  <2>3. worker.step \notin {"cancel", "flush"}
    BY <2>1 DEF Idle
  <2>4. worker'.step # "cancel"
    BY SMTT(30), <1>18, <2>3 DEF RunInit
  <2>5. call' = call \/ call' = [call EXCEPT ![k].pc = "failed"]
    BY <1>18 DEF RunInit
  <2>6. \A b \in Call, c \in Container : DeadMan(b, c) => DeadMan(b, c)'
    <3>1. CASE call' = call
      BY <2>2, <3>1 DEF DeadMan
    <3>2. CASE call' = [call EXCEPT ![k].pc = "failed"]
      BY <1>a, <2>1, <2>2, <3>2, DeadManPc DEF CallStep
    <3>3. QED
      BY <2>5, <3>1, <3>2
  <2>7. QED
    BY <2>2, <2>3, <2>4, <2>6, FlagsKept
<1>19. ASSUME NEW k \in Call, RunRemove(k) PROVE FlagsAwaited(home)'
  <2>1. worker'.step = "flush"
    BY <1>19 DEF RunRemove
  <2>2. QED
    BY <2>1 DEF FlagsAwaited, Awaited
<1>20. ASSUME NEW k \in Call, cancelBypassTimer(k) PROVE FlagsAwaited(home)'
  <2> DEFINE o == call[k].on
  <2>1. worker.step = "cancel" /\ worker.of = k /\ worker' = Idle
    BY <1>20 DEF cancelBypassTimer
  <2>2. /\ call[k].pc = "queued" /\ call[k].op = "enable" /\ o \in Container
        /\ bypass_map[home[o]] # "bypass"
    BY <1>b, <2>1 DEF FlagsAwaited
  <2>3. UNCHANGED <<bypass_map, drain>>
    BY <1>20 DEF cancelBypassTimer
  <2>4. \A x \in Call : x # bypassTimers[o] => timer'[x] = timer[x]
    BY <1>20 DEF cancelBypassTimer, Stopped
  <2>5. \A x \in Call : /\ call'[x].op = call[x].op
                        /\ call'[x].on = call[x].on
                        /\ x # k => call'[x].pc = call[x].pc
    BY <1>a, <1>20, SetPc DEF cancelBypassTimer, CallStep
  <2>6. ASSUME NEW c \in Container, bypass_map'[home[c]] = "bypass",
               NEW b \in Call, DeadMan(b, c)
        PROVE  DeadMan(b, c)'
    <3>1. call[b].on = c /\ call[b].op = "bypass" /\ c # o
      BY <2>2, <2>3, <2>6 DEF DeadMan
    <3>2. b # k /\ b # bypassTimers[o]
      BY ZenonT(60), <2>2, <3>1, ConstantAssumption DEF EntriesAreLive
    <3>3. QED
      BY <2>4, <2>5, <2>6, <3>2 DEF DeadMan
  <2>7. worker'.step # "cancel"
    BY <2>1 DEF Idle
  <2>8. worker.step # "flush"
    BY <2>1
  <2>9. QED
    BY <1>b, <2>3, <2>6, <2>7, <2>8, FlagsKept
<1>21. ASSUME NEW k \in Call, InitDone(k) PROVE FlagsAwaited(home)'
  <2>1. worker.step = "enroll" /\ worker.of = k /\ worker'.step = "idle"
    BY <1>21 DEF InitDone, Idle
  <2>2. call[k].pc = "queued"
    BY <1>c, <2>1
  <2>3. \A b \in Call, c \in Container : DeadMan(b, c) => DeadMan(b, c)'
    BY <1>a, <1>21, <2>2, DeadManPc DEF InitDone, CallStep
  <2>4. UNCHANGED <<bypass_map, drain>>
    BY <1>21 DEF InitDone
  <2>5. QED
    BY <2>1, <2>3, <2>4, FlagsKept
<1>22. ASSUME NEW k \in Call, NEW c \in Container, Reenroll(k, c)
       PROVE  FlagsAwaited(home)'
  <2>1. UNCHANGED <<call, timer, worker, drain>> /\ worker.step = "enroll"
    BY <1>22 DEF Reenroll
  <2>2. bypass_map' \in {bypass_map, [bypass_map EXCEPT ![cgroup[c]] = "clear"]}
    BY <1>22 DEF Reenroll, InstallOK, InstallFails
  <2>4. ASSUME NEW d \in Container, bypass_map'[home[d]] = "bypass"
        PROVE  bypass_map[home[d]] = "bypass"
    BY <1>a, <1>d, <2>2, <2>4
  <2>5. \A b \in Call, d \in Container : DeadMan(b, d) => DeadMan(b, d)'
    BY <2>1 DEF DeadMan
  <2>6. QED
    BY <2>1, <2>4, <2>5, FlagsKept
<1>23. ASSUME NEW k \in Call, RemoveFlush(k) PROVE FlagsAwaited(home)'
  <2>1. \A c \in Container : bypass_map'[home[c]] # "bypass"
    BY <1>d, <1>23 DEF RemoveFlush, FlushAll
  <2>2. worker'.step = "forget"
    BY <1>23 DEF RemoveFlush
  <2>3. QED
    BY <2>1, <2>2 DEF FlagsAwaited
<1>24. ASSUME NEW k \in Call, RemoveForget(k) PROVE FlagsAwaited(home)'
  <2>1. worker.step = "forget" /\ worker.of = k /\ worker'.step = "idle"
    BY <1>24 DEF RemoveForget, Idle
  <2>2. call[k].pc = "queued"
    BY <1>c, <2>1
  <2>3. \A b \in Call, c \in Container : DeadMan(b, c) => DeadMan(b, c)'
    BY <1>a, <1>24, <2>2, DeadManPc DEF RemoveForget, CallStep
  <2>4. UNCHANGED <<bypass_map, drain>>
    BY <1>24 DEF RemoveForget
  <2>5. QED
    BY <2>1, <2>3, <2>4, FlagsKept
<1>25. ASSUME DrainClose PROVE FlagsAwaited(home)'
  BY <1>25 DEF DrainClose, FlagsAwaited, Awaited
<1>26. ASSUME DrainClosed PROVE FlagsAwaited(home)'
  BY <1>26 DEF DrainClosed, FlagsAwaited, Awaited
<1>27. ASSUME DrainStopRPC PROVE FlagsAwaited(home)'
  BY <1>27 DEF DrainStopRPC, FlagsAwaited, Awaited
<1>28. ASSUME DrainCancel PROVE FlagsAwaited(home)'
  BY <1>28 DEF DrainCancel, FlagsAwaited, Awaited
<1>29. ASSUME DrainFlush PROVE FlagsAwaited(home)'
  <2>1. \A c \in Container : bypass_map'[home[c]] # "bypass"
    BY <1>d, <1>29 DEF DrainFlush, FlushAll
  <2>2. UNCHANGED <<call, worker>>
    BY <1>29 DEF DrainFlush
  <2>3. QED
    BY <1>b, <2>1, <2>2 DEF FlagsAwaited
<1>30. CASE UNCHANGED vars
  BY <1>30, FlagsQuiet DEF vars, DeadMan
<1> HIDE DEF rpcVars, mapVars, timerVars, workVars, dockerVars, Admitted,
             Resolved, Answer, DrainTo, closed
<1>31. QED
  BY SMTT(30), <1>1, <1>2, <1>3, <1>4, <1>5, <1>6, <1>7, <1>8, <1>9, <1>10, <1>11,
     <1>12, <1>13, <1>14, <1>15, <1>16, <1>17, <1>18, <1>19, <1>20, <1>21,
     <1>22, <1>23, <1>24, <1>25, <1>26, <1>27, <1>28, <1>29, <1>30
     DEF Next, Docker, Client, Handler, Timer, Worker, Drain

\* The handler starts with every flag down.
LEMMA HomeInit ==
    ASSUME NEW home \in Home
    PROVE  Init => IdsAtHome(home) /\ FlagsAwaited(home)
  BY SMTT(30) DEF Init, IdsAtHome, FlagsAwaited, Home, Idle

-----------------------------------------------------------------------------
(* The results.                                                            *)

\* h.bypassTimers holds only entries of live timers, each under the key of its
\* own container, for any number of containers, calls, restarts and failures
\* (handler.go: FirewallBypass, cancelBypassTimer, CancelAllBypassTimers and
\* bypassTimerFired).
THEOREM EntriesAreLiveHolds == Spec => []EntriesAreLive
  BY Inductive, PTL DEF IInv

\* After runDrainSequence has flushed, no enforcement state is left and none
\* comes back, although handlers and timers may outlive GracefulStop.
THEOREM DrainIsFinalHolds == Spec => []DrainIsFinal
<1>1. IInv => DrainIsFinal
  BY DEF IInv, Drained
<1>2. QED
  BY Inductive, <1>1, PTL

\* No interleaving of RPCs, closures, timers and the drain leaves an enrolled
\* container bypassed for ever, as long as the containers keep their cgroups
\* and the Enable that ends a bypass does not fail (FirewallBypass, ArmTimer
\* to the closure of bypassTimerFired).  Both conditions are needed: a
\* container that comes back in another cgroup is not found by its timer, and
\* a restore that fails is not tried again.
THEOREM DeadManGuardHolds ==
    ASSUME NEW home \in Home, "enable" \notin Faults
    PROVE  Spec /\ []KeepsHome(home) => []DeadManGuard
<1> DEFINE HInv == IdsAtHome(home) /\ FlagsAwaited(home)
<1>1. Init => HInv
  BY HomeInit
<1>2. IInv /\ HInv /\ KeepsHome(home) /\ [Next]_vars => HInv'
  BY IdsStep, FlagsStep DEF IInv
<1>3. IInv /\ HInv /\ KeepsHome(home) => DeadManGuard
  <2> SUFFICES ASSUME IInv, HInv, KeepsHome(home),
                      NEW c \in Container, Bypassed(c)
               PROVE  Guarded(c)
    BY DEF DeadManGuard
  <2>1. cgroup[c] = home[c]
    BY ConstantAssumption DEF Bypassed, KeepsHome, IInv, TypeOK
  <2>2. Awaited(c)
    BY <2>1 DEF Bypassed, FlagsAwaited
  <2>3. ASSUME NEW b \in Call, DeadMan(b, c) PROVE Guarded(c)
    BY <2>1, <2>3 DEF DeadMan, Guarded, IdsAtHome
  <2>4. QED
    BY <2>2, <2>3 DEF Awaited, Guarded
<1> HIDE DEF HInv
<1>4. QED
  BY <1>1, <1>2, <1>3, Inductive, PTL DEF Spec
=============================================================================
