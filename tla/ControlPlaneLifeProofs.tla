----------------------- MODULE ControlPlaneLifeProofs -----------------------
(* Proofs about the life of the control plane container: for any number of *)
(* CLI processes and builds, and any crashes, restarts, interrupts, failed *)
(* prunes and failed flushes.                                              *)
EXTENDS ControlPlaneLife, TLAPS

\* The leaves are first-order unless they name SMT.
USE Zenon

-----------------------------------------------------------------------------
(* The inductive invariant.                                                *)

\* Which steps belong to which call, and which to its second attempt: only a
\* name conflict leads there.
Attempts ==
    \A c \in Cli :
        /\ pc[c] \in {"image", "prune", "find", "agents", "create", "recover"}
              => op[c] = "start"
        /\ pc[c] = "down" => op[c] = "down"
        /\ pc[c] \in {"idle", "find", "agents"} => tries[c] = 1
        /\ pc[c] \in {"create", "recover"} => tries[c] \in {1, 2}

\* A dead CP has no signal pending.
NoSignalLeft == cp = "none" => ~sig

\* A drain that has seen no error has emptied the maps.
FlushMeans == cp = "flushed" /\ ~failed => enrolled = {}

\* Nobody is covered by a CP that was told to stop, or that drains; those who
\* are covered run.
CoverEnds ==
    /\ covered \subseteq up
    /\ sig => covered = {}
    /\ cp \in {"drain", "closed", "stopped", "flushed"} => covered = {}

\* How far an undisturbed call has come, and what it can rely on there: its
\* image stays, the container it looked up is the one there is, and the CP it
\* waits for boots or serves.
Undisturbed(c) ==
    /\ Active \subseteq {c}
    /\ pc[c] \notin {"idle", "recover", "cut"}
    /\ pc[c] = "fail" => c \in blocked
    /\ tries[c] = 1
    /\ sig \/ cp \notin {"none", "boot", "serve"} => pc[c] = "stopping"
    /\ (op[c] = "start" /\ pc[c] \in {"prune", "find", "agents", "stop", "stopping",
                                      "remove", "create"})
          => images[buildOf[c]] # 0
    /\ pc[c] \in {"agents", "stop", "stopping", "remove", "start"} => Is(c)
    /\ pc[c] = "create" => ~Present
    /\ pc[c] = "healthz" => cp \in {"boot", "serve"}
    /\ pc[c] \in {"clock", "init", "agent", "enable"} => cp = "serve"
    /\ pc[c] = "enable" => c \in up

Guided == \A c \in alone : Undisturbed(c)

IInv ==
    /\ TypeOK /\ Attempts /\ NoSignalLeft /\ FlushMeans
    /\ CleanExitMeansFlushed /\ Guided

-----------------------------------------------------------------------------
(* It holds initially and is preserved by every step.                     *)

\* A host with nothing running starts in the invariant.
LEMMA InitInv == Init => IInv
<1> SUFFICES ASSUME Init PROVE IInv
  OBVIOUS
<1> USE CallsAssumption, NoneAssumption DEF Init
<1>1. TypeOK
  <2>1. \A b \in Build : Container(1, b, 1, "exited") \in ContainerState
    BY DEF Container, ContainerState
  <2>2. ctr \in ContainerState \cup {None} /\ ids \in Nat /\ clock \in Nat
    BY SMTT(30), <2>1
  <2>3. ~Running
    BY SMTT(30) DEF Running, Present, Container
  <2>4. images \in [Build -> Nat]
    BY SMTT(30)
  <2>5. cp # "none" <=> Running
    BY <2>3
  <2>6. pc \in [Cli -> Pc] /\ tries \in [Cli -> 1 .. 3]
    BY SMTT(30) DEF Pc
  <2>7. QED
    BY SMTT(30), <2>2, <2>4, <2>5, <2>6 DEF TypeOK
<1>2. Attempts /\ NoSignalLeft /\ FlushMeans /\ CleanExitMeansFlushed /\ Guided
  BY DEF Attempts, NoSignalLeft, FlushMeans, CleanExitMeansFlushed, Guided
<1>3. QED
  BY <1>1, <1>2 DEF IInv

\* What the steps of Docker and of the process do to the container.
LEMMA Untagged ==
    ASSUME NEW k \in ContainerState
    PROVE  LET x == [k EXCEPT !.image = FALSE]
           IN  x \in ContainerState /\ x.id = k.id /\ x.state = k.state /\ x.code = k.code
  BY DEF ContainerState

\* docker stop leaves a container of the same kind.
LEMMA AskedToStop ==
    ASSUME NEW k \in ContainerState
    PROVE  LET x == [k EXCEPT !.stopped = TRUE]
           IN  x \in ContainerState /\ x.id = k.id /\ x.state = k.state /\ x.code = k.code
  BY DEF ContainerState

\* docker start leaves a running container.
LEMMA Started ==
    ASSUME NEW k \in ContainerState
    PROVE  LET x == [k EXCEPT !.state = "running", !.code = 0, !.stopped = FALSE,
                              !.retries = 0]
           IN  x \in ContainerState /\ x.id = k.id /\ x.state = "running"
  BY DEF ContainerState

\* The restart policy leaves a running container.
LEMMA Restarted ==
    ASSUME NEW k \in ContainerState
    PROVE  LET x == [k EXCEPT !.state = "running", !.code = 0, !.retries = @ + 1]
           IN  x \in ContainerState /\ x.id = k.id /\ x.state = "running"
<1>1. PICK n \in Nat : n = k.retries + 1
  BY SMTT(30) DEF ContainerState
<1>2. LET x == [k EXCEPT !.state = "running", !.code = 0, !.retries = n]
      IN  x \in ContainerState /\ x.id = k.id /\ x.state = "running"
  BY DEF ContainerState
<1>3. QED
  BY <1>1, <1>2

\* An exit leaves a container that is not running.
LEMMA Exited ==
    ASSUME NEW k \in ContainerState, NEW n \in {0, 1}
    PROVE  LET x == [k EXCEPT !.state = "exited", !.code = n]
           IN  x \in ContainerState /\ x.id = k.id /\ x.state = "exited" /\ x.code = n
  BY DEF ContainerState

\* Only an undisturbed call has a step to take.
LEMMA Mine ==
    ASSUME Guided, NEW x \in alone, NEW c \in Cli,
           pc[c] \notin {"idle", "done", "fail", "cut"}
    PROVE  Undisturbed(x) /\ c = x
  BY DEF Guided, Undisturbed, Active


\* Every step keeps the types.
LEMMA TypeStep ==
    TypeOK /\ Attempts /\ [Next]_vars => TypeOK'
<1> SUFFICES ASSUME TypeOK, Attempts, [Next]_vars
             PROVE  TypeOK'
  OBVIOUS
<1> USE NoneAssumption, CallsAssumption DEF TypeOK, Attempts, Pc, dockerVars,
                                            watchVars, cpVars, cliVars,
                                            histVars, Goto, Remember, Forget,
                                            Retry, Exit, ResetWatcher,
                                            Present, Running, Container
<1>1. ASSUME NEW c \in Cli, Call(c) PROVE TypeOK'
  BY <1>1 DEF Call
<1>2. ASSUME NEW c \in Cli, Interrupt(c) PROVE TypeOK'
  BY <1>2 DEF Interrupt
<1>3. ASSUME NEW c \in Cli, AgentStops(c) PROVE TypeOK'
  BY <1>3 DEF AgentStops
<1>4. ASSUME NEW c \in Cli, ensureCPImage(c) PROVE TypeOK'
  BY SMTT(30), <1>4 DEF ensureCPImage, AfterImage
<1>5. ASSUME NEW c \in Cli, pruneStaleCPImages(c) PROVE TypeOK'
  <2>1. pc' \in [Cli -> Pc]
    BY <1>5 DEF pruneStaleCPImages, AfterImage
  <2>2. ctr' \in ContainerState \cup {None} /\ Running' = Running
    BY ZenonT(60), <1>5, Untagged DEF pruneStaleCPImages
  <2>3. images' \in [Build -> Nat]
    BY SMTT(30), <1>5 DEF pruneStaleCPImages
  <2>4. QED
    BY SMTT(30), <1>5, <2>1, <2>2, <2>3 DEF pruneStaleCPImages
<1>6. ASSUME NEW c \in Cli, findCPContainer(c) PROVE TypeOK'
  <2>1. Summary \in [id : Nat, state : {"created", "running", "exited"}] \cup {None}
    BY DEF Summary, ContainerState
  <2>2. QED
    BY <1>6, <2>1 DEF findCPContainer
<1>7. ASSUME NEW c \in Cli, listAgents(c) PROVE TypeOK'
  BY SMTT(30), <1>7 DEF listAgents
<1>8. ASSUME NEW c \in Cli, ContainerStop(c) PROVE TypeOK'
  <2>1. ctr' \in ContainerState \cup {None} /\ Running' = Running
    BY SMTT(30), <1>8, AskedToStop DEF ContainerStop, Is
  <2>2. covered' \subseteq Cli
    BY <1>8 DEF ContainerStop
  <2>3. QED
    BY <1>8, <2>1, <2>2 DEF ContainerStop
<1>9. ASSUME NEW c \in Cli, Stopped(c) PROVE TypeOK'
  BY <1>9 DEF Stopped
<1>10. ASSUME NEW c \in Cli, ContainerRemove(c) PROVE TypeOK'
  BY SMTT(30), <1>10 DEF ContainerRemove
<1>11. ASSUME NEW c \in Cli, Down(c) PROVE TypeOK'
  <2>1. Summary \in [id : Nat, state : {"created", "running", "exited"}] \cup {None}
    BY DEF Summary, ContainerState
  <2>2. QED
    BY <1>11, <2>1 DEF Down
<1>12. ASSUME NEW c \in Cli, createCPContainer(c) PROVE TypeOK'
  <2>1. buildOf[c] \in Build /\ images[buildOf[c]] \in Nat
    OBVIOUS
  <2>2. /\ Container(ids + 1, buildOf[c], images[buildOf[c]], "created") \in ContainerState
        /\ Container(ids + 1, buildOf[c], images[buildOf[c]], "created").state = "created"
    BY SMTT(30), <2>1 DEF ContainerState
  <2>3. ctr' \in ContainerState \cup {None} /\ Running' = Running /\ ids' \in Nat
    <3> HIDE DEF Container
    <3>1. QED
      BY SMTT(30), <1>12, <2>2 DEF createCPContainer
  <2>4. /\ pc' \in [Cli -> Pc]
        /\ seen' \in [Cli -> [id : Nat, state : {"created", "running", "exited"}]
                                \cup {None}]
    <3> HIDE DEF Container
    <3>1. QED
      BY SMTT(30), <1>12 DEF createCPContainer
  <2>5. QED
    BY <1>12, <2>3, <2>4 DEF createCPContainer
<1>13. ASSUME NEW c \in Cli, recoverFromNameConflict(c) PROVE TypeOK'
  <2>1. Summary \in [id : Nat, state : {"created", "running", "exited"}] \cup {None}
    BY DEF Summary, ContainerState
  <2>2. pc' \in [Cli -> Pc] /\ tries' \in [Cli -> 1 .. 3]
    BY SMTT(30), <1>13 DEF recoverFromNameConflict
  <2>3. QED
    BY <1>13, <2>1, <2>2 DEF recoverFromNameConflict
<1>14. ASSUME NEW c \in Cli, ContainerStart(c) PROVE TypeOK'
  <2>1. CASE Is(c) /\ ~Running
    <3>1. /\ ctr \in ContainerState
          /\ ctr' = [ctr EXCEPT !.state = "running", !.code = 0, !.stopped = FALSE,
                                !.retries = 0]
      BY <1>14, <2>1 DEF ContainerStart, Is
    <3>2. ctr' \in ContainerState /\ Running'
      BY ONLY Zenon, <3>1, Started, NoneAssumption DEF Running, Present
    <3>3. QED
      BY <1>14, <2>1, <3>2 DEF ContainerStart
  <2>2. CASE ~(Is(c) /\ ~Running)
    BY <1>14, <2>2 DEF ContainerStart
  <2>3. QED
    BY <2>1, <2>2
<1>15. ASSUME NEW c \in Cli, waitForCPHealthz(c) PROVE TypeOK'
  BY <1>15 DEF waitForCPHealthz
<1>16. ASSUME NEW c \in Cli, waitForCPClockSync(c) PROVE TypeOK'
  BY <1>16 DEF waitForCPClockSync
<1>17. ASSUME NEW c \in Cli, FirewallInit(c) PROVE TypeOK'
  BY <1>17 DEF FirewallInit
<1>18. ASSUME NEW c \in Cli, AgentStart(c) PROVE TypeOK'
  BY <1>18 DEF AgentStart
<1>19. ASSUME NEW c \in Cli, FirewallEnable(c) PROVE TypeOK'
  BY SMTT(30), <1>19 DEF FirewallEnable
<1>20. ASSUME Boot PROVE TypeOK'
  <2>1. CASE ctr' = ctr /\ cp' = "serve"
    BY <1>20, <2>1 DEF Boot
  <2>2. CASE Exit(1)
    <3>1. ctr \in ContainerState /\ ctr' = [ctr EXCEPT !.state = "exited", !.code = 1]
      BY <1>20, <2>2 DEF Boot
    <3>2. ctr' \in ContainerState /\ ~Running'
      BY ONLY Zenon, <3>1, Exited DEF Running
    <3>3. alone' \subseteq Cli
      BY <1>20 DEF Boot
    <3>4. faults' \in Nat
      BY SMTT(30), <1>20 DEF Boot
    <3>5. QED
      BY SMTT(30), <1>20, <2>2, <3>2, <3>3, <3>4 DEF Boot
  <2>3. QED
    BY <1>20, <2>1, <2>2 DEF Boot
<1>21. ASSUME SubprocessCrash PROVE TypeOK'
  <2>1. ctr \in ContainerState
    BY <1>21 DEF SubprocessCrash
  <2>2. ctr' \in ContainerState /\ ~Running'
    BY <1>21, <2>1, Exited DEF SubprocessCrash
  <2>3. QED
    BY SMTT(30), <1>21, <2>2 DEF SubprocessCrash
<1>22. ASSUME Restart PROVE TypeOK'
  <2>1. ctr \in ContainerState
    BY <1>22 DEF Restart, Restarting
  <2>2. ctr' \in ContainerState /\ Running'
    BY ZenonT(60), <1>22, <2>1, Restarted DEF Restart
  <2>3. QED
    BY <1>22, <2>2 DEF Restart
<1>23. ASSUME GraceEnds PROVE TypeOK'
  BY <1>23 DEF GraceEnds
<1>24. ASSUME Poll PROVE TypeOK'
  BY SMTT(30), <1>24 DEF Poll
<1>25. ASSUME Sigterm PROVE TypeOK'
  BY <1>25 DEF Sigterm
<1>26. ASSUME CloseQueue PROVE TypeOK'
  BY SMTT(30), <1>26 DEF CloseQueue
<1>27. ASSUME StopServers PROVE TypeOK'
  BY <1>27 DEF StopServers
<1>28. ASSUME FlushAll PROVE TypeOK'
  BY <1>28 DEF FlushAll
<1>29. ASSUME RunReturns PROVE TypeOK'
  <2>1. ctr \in ContainerState
    BY <1>29 DEF RunReturns
  <2>2. ctr' \in ContainerState /\ ~Running'
    BY <1>29, <2>1, Exited DEF RunReturns
  <2>3. QED
    BY SMTT(30), <1>29, <2>2 DEF RunReturns
<1>30. ASSUME Killed PROVE TypeOK'
  <2>1. ctr \in ContainerState
    BY <1>30 DEF Killed
  <2>2. ctr' \in ContainerState /\ ~Running'
    BY <1>30, <2>1, Exited DEF Killed
  <2>3. QED
    BY SMTT(30), <1>30, <2>2 DEF Killed
<1>31. CASE UNCHANGED vars
  BY <1>31 DEF vars
<1> HIDE DEF TypeOK, Attempts, Pc, dockerVars, watchVars, cpVars, cliVars,
             histVars, Goto, Remember, Forget, Retry, Exit, ResetWatcher,
             Present, Running, Container
<1>32. QED
  BY <1>1, <1>2, <1>3, <1>4, <1>5, <1>6, <1>7, <1>8, <1>9, <1>10, <1>11,
     <1>12, <1>13, <1>14, <1>15, <1>16, <1>17, <1>18, <1>19, <1>20, <1>21,
     <1>22, <1>23, <1>24, <1>25, <1>26, <1>27, <1>28, <1>29, <1>30, <1>31
     DEF Next, CliStep, Drain

\* A call retries at most twice.
LEMMA AttemptsStep ==
    TypeOK /\ Attempts /\ [Next]_vars => Attempts'
<1> SUFFICES ASSUME TypeOK, Attempts, [Next]_vars
             PROVE  Attempts'
  OBVIOUS
<1> USE NoneAssumption, CallsAssumption DEF TypeOK, Attempts, Pc, AfterImage,
                                            Summary, dockerVars, watchVars,
                                            cpVars, cliVars, histVars, Goto,
                                            Remember, Forget, Retry, Exit,
                                            ResetWatcher, Present, Running,
                                            Container
<1>1. ASSUME NEW c \in Cli, Call(c) PROVE Attempts'
  BY <1>1 DEF Call
<1>2. ASSUME NEW c \in Cli, Interrupt(c) PROVE Attempts'
  BY <1>2 DEF Interrupt
<1>3. ASSUME NEW c \in Cli, AgentStops(c) PROVE Attempts'
  BY <1>3 DEF AgentStops
<1>4. ASSUME NEW c \in Cli, ensureCPImage(c) PROVE Attempts'
  BY SMTT(30), <1>4 DEF ensureCPImage
<1>5. ASSUME NEW c \in Cli, pruneStaleCPImages(c) PROVE Attempts'
  BY <1>5 DEF pruneStaleCPImages
<1>6. ASSUME NEW c \in Cli, findCPContainer(c) PROVE Attempts'
  BY <1>6 DEF findCPContainer
<1>7. ASSUME NEW c \in Cli, listAgents(c) PROVE Attempts'
  BY SMTT(30), <1>7 DEF listAgents
<1>8. ASSUME NEW c \in Cli, ContainerStop(c) PROVE Attempts'
  BY <1>8 DEF ContainerStop
<1>9. ASSUME NEW c \in Cli, Stopped(c) PROVE Attempts'
  BY <1>9 DEF Stopped
<1>10. ASSUME NEW c \in Cli, ContainerRemove(c) PROVE Attempts'
  <2>1. op[c] \in {"start", "down"}
    OBVIOUS
  <2>2. /\ \E l \in {"fail", "done", "create", "image"} :
              /\ pc' = [pc EXCEPT ![c] = l]
              /\ l \in {"create", "image"} => op[c] = "start"
              /\ l = "create" => tries[c] = 1
        /\ UNCHANGED <<op, tries>>
    BY <1>10, <2>1 DEF ContainerRemove
  <2>3. QED
    BY <2>2
<1>11. ASSUME NEW c \in Cli, Down(c) PROVE Attempts'
  BY <1>11 DEF Down
<1>12. ASSUME NEW c \in Cli, createCPContainer(c) PROVE Attempts'
  BY SMTT(30), <1>12 DEF createCPContainer
<1>13. ASSUME NEW c \in Cli, recoverFromNameConflict(c) PROVE Attempts'
  BY SMTT(30), <1>13 DEF recoverFromNameConflict
<1>14. ASSUME NEW c \in Cli, ContainerStart(c) PROVE Attempts'
  BY <1>14 DEF ContainerStart
<1>15. ASSUME NEW c \in Cli, waitForCPHealthz(c) PROVE Attempts'
  BY SMTT(30), <1>15 DEF waitForCPHealthz
<1>16. ASSUME NEW c \in Cli, waitForCPClockSync(c) PROVE Attempts'
  BY SMTT(30), <1>16 DEF waitForCPClockSync
<1>17. ASSUME NEW c \in Cli, FirewallInit(c) PROVE Attempts'
  BY <1>17 DEF FirewallInit
<1>18. ASSUME NEW c \in Cli, AgentStart(c) PROVE Attempts'
  BY <1>18 DEF AgentStart
<1>19. ASSUME NEW c \in Cli, FirewallEnable(c) PROVE Attempts'
  BY SMTT(30), <1>19 DEF FirewallEnable
<1>20. ASSUME Boot PROVE Attempts'
  BY <1>20 DEF Boot
<1>21. ASSUME SubprocessCrash PROVE Attempts'
  BY <1>21 DEF SubprocessCrash
<1>22. ASSUME Restart PROVE Attempts'
  BY <1>22 DEF Restart
<1>23. ASSUME GraceEnds PROVE Attempts'
  BY <1>23 DEF GraceEnds
<1>24. ASSUME Poll PROVE Attempts'
  BY <1>24 DEF Poll
<1>25. ASSUME Sigterm PROVE Attempts'
  BY <1>25 DEF Sigterm
<1>26. ASSUME CloseQueue PROVE Attempts'
  BY <1>26 DEF CloseQueue
<1>27. ASSUME StopServers PROVE Attempts'
  BY <1>27 DEF StopServers
<1>28. ASSUME FlushAll PROVE Attempts'
  BY <1>28 DEF FlushAll
<1>29. ASSUME RunReturns PROVE Attempts'
  BY <1>29 DEF RunReturns
<1>30. ASSUME Killed PROVE Attempts'
  BY <1>30 DEF Killed
<1>31. CASE UNCHANGED vars
  BY <1>31 DEF vars
<1> HIDE DEF TypeOK, Attempts, Pc, AfterImage, Summary, dockerVars, watchVars,
             cpVars, cliVars, histVars, Goto, Remember, Forget, Retry, Exit,
             ResetWatcher, Present, Running, Container
<1>32. QED
  BY <1>1, <1>2, <1>3, <1>4, <1>5, <1>6, <1>7, <1>8, <1>9, <1>10, <1>11,
     <1>12, <1>13, <1>14, <1>15, <1>16, <1>17, <1>18, <1>19, <1>20, <1>21,
     <1>22, <1>23, <1>24, <1>25, <1>26, <1>27, <1>28, <1>29, <1>30, <1>31
     DEF Next, CliStep, Drain

\* A signal goes with the process it was sent to.
LEMMA SignalStep ==
    TypeOK /\ NoSignalLeft /\ [Next]_vars => NoSignalLeft'
<1> SUFFICES ASSUME TypeOK, NoSignalLeft, [Next]_vars
             PROVE  NoSignalLeft'
  OBVIOUS
<1> USE NoneAssumption, CallsAssumption DEF TypeOK, NoSignalLeft,
                                            ContainerState, dockerVars,
                                            watchVars, cpVars, cliVars,
                                            histVars, Goto, Remember, Forget,
                                            Retry, Exit, ResetWatcher,
                                            Present, Running, Container
<1>1. ASSUME NEW c \in Cli, Call(c) PROVE NoSignalLeft'
  BY <1>1 DEF Call
<1>2. ASSUME NEW c \in Cli, Interrupt(c) PROVE NoSignalLeft'
  BY <1>2 DEF Interrupt
<1>3. ASSUME NEW c \in Cli, AgentStops(c) PROVE NoSignalLeft'
  BY <1>3 DEF AgentStops
<1>4. ASSUME NEW c \in Cli, ensureCPImage(c) PROVE NoSignalLeft'
  BY <1>4 DEF ensureCPImage
<1>5. ASSUME NEW c \in Cli, pruneStaleCPImages(c) PROVE NoSignalLeft'
  BY <1>5 DEF pruneStaleCPImages
<1>6. ASSUME NEW c \in Cli, findCPContainer(c) PROVE NoSignalLeft'
  BY <1>6 DEF findCPContainer
<1>7. ASSUME NEW c \in Cli, listAgents(c) PROVE NoSignalLeft'
  BY <1>7 DEF listAgents
<1>8. ASSUME NEW c \in Cli, ContainerStop(c) PROVE NoSignalLeft'
  BY <1>8 DEF ContainerStop
<1>9. ASSUME NEW c \in Cli, Stopped(c) PROVE NoSignalLeft'
  BY <1>9 DEF Stopped
<1>10. ASSUME NEW c \in Cli, ContainerRemove(c) PROVE NoSignalLeft'
  BY <1>10 DEF ContainerRemove
<1>11. ASSUME NEW c \in Cli, Down(c) PROVE NoSignalLeft'
  BY <1>11 DEF Down
<1>12. ASSUME NEW c \in Cli, createCPContainer(c) PROVE NoSignalLeft'
  BY <1>12 DEF createCPContainer
<1>13. ASSUME NEW c \in Cli, recoverFromNameConflict(c) PROVE NoSignalLeft'
  BY <1>13 DEF recoverFromNameConflict
<1>14. ASSUME NEW c \in Cli, ContainerStart(c) PROVE NoSignalLeft'
  BY <1>14 DEF ContainerStart
<1>15. ASSUME NEW c \in Cli, waitForCPHealthz(c) PROVE NoSignalLeft'
  BY <1>15 DEF waitForCPHealthz
<1>16. ASSUME NEW c \in Cli, waitForCPClockSync(c) PROVE NoSignalLeft'
  BY <1>16 DEF waitForCPClockSync
<1>17. ASSUME NEW c \in Cli, FirewallInit(c) PROVE NoSignalLeft'
  BY <1>17 DEF FirewallInit
<1>18. ASSUME NEW c \in Cli, AgentStart(c) PROVE NoSignalLeft'
  BY <1>18 DEF AgentStart
<1>19. ASSUME NEW c \in Cli, FirewallEnable(c) PROVE NoSignalLeft'
  BY <1>19 DEF FirewallEnable
<1>20. ASSUME Boot PROVE NoSignalLeft'
  BY <1>20 DEF Boot
<1>21. ASSUME SubprocessCrash PROVE NoSignalLeft'
  BY <1>21 DEF SubprocessCrash
<1>22. ASSUME Restart PROVE NoSignalLeft'
  BY <1>22 DEF Restart
<1>23. ASSUME GraceEnds PROVE NoSignalLeft'
  BY <1>23 DEF GraceEnds
<1>24. ASSUME Poll PROVE NoSignalLeft'
  BY <1>24 DEF Poll
<1>25. ASSUME Sigterm PROVE NoSignalLeft'
  BY <1>25 DEF Sigterm
<1>26. ASSUME CloseQueue PROVE NoSignalLeft'
  BY <1>26 DEF CloseQueue
<1>27. ASSUME StopServers PROVE NoSignalLeft'
  BY <1>27 DEF StopServers
<1>28. ASSUME FlushAll PROVE NoSignalLeft'
  BY <1>28 DEF FlushAll
<1>29. ASSUME RunReturns PROVE NoSignalLeft'
  BY <1>29 DEF RunReturns
<1>30. ASSUME Killed PROVE NoSignalLeft'
  BY <1>30 DEF Killed
<1>31. CASE UNCHANGED vars
  BY <1>31 DEF vars
<1> HIDE DEF TypeOK, NoSignalLeft, ContainerState, dockerVars, watchVars,
             cpVars, cliVars, histVars, Goto, Remember, Forget, Retry, Exit,
             ResetWatcher, Present, Running, Container
<1>32. QED
  BY <1>1, <1>2, <1>3, <1>4, <1>5, <1>6, <1>7, <1>8, <1>9, <1>10, <1>11,
     <1>12, <1>13, <1>14, <1>15, <1>16, <1>17, <1>18, <1>19, <1>20, <1>21,
     <1>22, <1>23, <1>24, <1>25, <1>26, <1>27, <1>28, <1>29, <1>30, <1>31
     DEF Next, CliStep, Drain

\* Nothing is enrolled once the queue is closed, and only a flush without errors
\* lets the process end with code 0.
LEMMA FlushStep ==
    TypeOK /\ FlushMeans /\ CleanExitMeansFlushed /\ [Next]_vars
      => (FlushMeans /\ CleanExitMeansFlushed)'
<1> SUFFICES ASSUME TypeOK, FlushMeans, CleanExitMeansFlushed, [Next]_vars
             PROVE  (FlushMeans /\ CleanExitMeansFlushed)'
  OBVIOUS
<1> USE NoneAssumption, CallsAssumption DEF TypeOK, FlushMeans,
                                            CleanExitMeansFlushed, Accepting,
                                            dockerVars, watchVars, cpVars,
                                            cliVars, histVars, Goto, Remember,
                                            Forget, Retry, Exit, ResetWatcher,
                                            Present, Running, Container
<1>1. ASSUME NEW c \in Cli, Call(c) PROVE (FlushMeans /\ CleanExitMeansFlushed)'
  BY <1>1 DEF Call
<1>2. ASSUME NEW c \in Cli, Interrupt(c)
      PROVE  (FlushMeans /\ CleanExitMeansFlushed)'
  BY <1>2 DEF Interrupt
<1>3. ASSUME NEW c \in Cli, AgentStops(c)
      PROVE  (FlushMeans /\ CleanExitMeansFlushed)'
  BY <1>3 DEF AgentStops
<1>4. ASSUME NEW c \in Cli, ensureCPImage(c)
      PROVE  (FlushMeans /\ CleanExitMeansFlushed)'
  BY <1>4 DEF ensureCPImage
<1>5. ASSUME NEW c \in Cli, pruneStaleCPImages(c)
      PROVE  (FlushMeans /\ CleanExitMeansFlushed)'
  <2>1. ctr' = ctr \/ (ctr \in ContainerState /\ ctr' = [ctr EXCEPT !.image = FALSE])
    BY <1>5 DEF pruneStaleCPImages
  <2>2. \/ ctr' = ctr
        \/ /\ Present /\ Present'
           /\ ctr'.state = ctr.state /\ ctr'.code = ctr.code
    BY ONLY Zenon, <2>1, Untagged, NoneAssumption DEF Present
  <2>3. QED
    BY <1>5, <2>2 DEF pruneStaleCPImages
<1>6. ASSUME NEW c \in Cli, findCPContainer(c)
      PROVE  (FlushMeans /\ CleanExitMeansFlushed)'
  BY <1>6 DEF findCPContainer
<1>7. ASSUME NEW c \in Cli, listAgents(c)
      PROVE  (FlushMeans /\ CleanExitMeansFlushed)'
  BY <1>7 DEF listAgents
<1>8. ASSUME NEW c \in Cli, ContainerStop(c)
      PROVE  (FlushMeans /\ CleanExitMeansFlushed)'
  <2>1. /\ Present' = Present
        /\ Present => ctr'.state = ctr.state /\ ctr'.code = ctr.code
    BY ZenonT(60), <1>8, AskedToStop DEF ContainerStop, Is
  <2>2. QED
    BY <1>8, <2>1 DEF ContainerStop
<1>9. ASSUME NEW c \in Cli, Stopped(c) PROVE (FlushMeans /\ CleanExitMeansFlushed)'
  BY <1>9 DEF Stopped
<1>10. ASSUME NEW c \in Cli, ContainerRemove(c)
       PROVE  (FlushMeans /\ CleanExitMeansFlushed)'
  BY <1>10 DEF ContainerRemove
<1>11. ASSUME NEW c \in Cli, Down(c) PROVE (FlushMeans /\ CleanExitMeansFlushed)'
  BY <1>11 DEF Down
<1>12. ASSUME NEW c \in Cli, createCPContainer(c)
       PROVE  (FlushMeans /\ CleanExitMeansFlushed)'
  BY SMTT(30), <1>12 DEF createCPContainer
<1>13. ASSUME NEW c \in Cli, recoverFromNameConflict(c)
       PROVE  (FlushMeans /\ CleanExitMeansFlushed)'
  BY <1>13 DEF recoverFromNameConflict
<1>14. ASSUME NEW c \in Cli, ContainerStart(c)
       PROVE  (FlushMeans /\ CleanExitMeansFlushed)'
  <2>1. ctr' = ctr \/ (ctr'.state = "running" /\ cp' = "boot")
    BY <1>14, Started DEF ContainerStart, Is
  <2>2. QED
    BY <1>14, <2>1 DEF ContainerStart
<1>15. ASSUME NEW c \in Cli, waitForCPHealthz(c)
       PROVE  (FlushMeans /\ CleanExitMeansFlushed)'
  BY <1>15 DEF waitForCPHealthz
<1>16. ASSUME NEW c \in Cli, waitForCPClockSync(c)
       PROVE  (FlushMeans /\ CleanExitMeansFlushed)'
  BY <1>16 DEF waitForCPClockSync
<1>17. ASSUME NEW c \in Cli, FirewallInit(c)
       PROVE  (FlushMeans /\ CleanExitMeansFlushed)'
  BY <1>17 DEF FirewallInit
<1>18. ASSUME NEW c \in Cli, AgentStart(c)
       PROVE  (FlushMeans /\ CleanExitMeansFlushed)'
  BY <1>18 DEF AgentStart
<1>19. ASSUME NEW c \in Cli, FirewallEnable(c)
       PROVE  (FlushMeans /\ CleanExitMeansFlushed)'
  BY <1>19 DEF FirewallEnable
<1>20. ASSUME Boot PROVE (FlushMeans /\ CleanExitMeansFlushed)'
  <2>1. ctr \in ContainerState
    BY <1>20 DEF Boot
  <2>2. (ctr' = ctr /\ cp' = "serve") \/ (ctr'.code = 1 /\ cp' = "none")
    BY <1>20, <2>1, Exited DEF Boot
  <2>3. QED
    BY SMTT(30), <1>20, <2>2 DEF Boot
<1>21. ASSUME SubprocessCrash PROVE (FlushMeans /\ CleanExitMeansFlushed)'
  BY SMTT(30), <1>21 DEF SubprocessCrash
<1>22. ASSUME Restart PROVE (FlushMeans /\ CleanExitMeansFlushed)'
  BY SMTT(30), <1>22 DEF Restart
<1>23. ASSUME GraceEnds PROVE (FlushMeans /\ CleanExitMeansFlushed)'
  BY <1>23 DEF GraceEnds
<1>24. ASSUME Poll PROVE (FlushMeans /\ CleanExitMeansFlushed)'
  BY <1>24 DEF Poll
<1>25. ASSUME Sigterm PROVE (FlushMeans /\ CleanExitMeansFlushed)'
  BY <1>25 DEF Sigterm
<1>26. ASSUME CloseQueue PROVE (FlushMeans /\ CleanExitMeansFlushed)'
  BY <1>26 DEF CloseQueue
<1>27. ASSUME StopServers PROVE (FlushMeans /\ CleanExitMeansFlushed)'
  BY <1>27 DEF StopServers
<1>28. ASSUME FlushAll PROVE (FlushMeans /\ CleanExitMeansFlushed)'
  BY <1>28 DEF FlushAll
<1>29. ASSUME RunReturns PROVE (FlushMeans /\ CleanExitMeansFlushed)'
  BY SMTT(30), <1>29 DEF RunReturns
<1>30. ASSUME Killed PROVE (FlushMeans /\ CleanExitMeansFlushed)'
  BY SMTT(30), <1>30 DEF Killed
<1>31. CASE UNCHANGED vars
  BY <1>31 DEF vars
<1> HIDE DEF TypeOK, FlushMeans, CleanExitMeansFlushed, Accepting, dockerVars,
             watchVars, cpVars, cliVars, histVars, Goto, Remember, Forget,
             Retry, Exit, ResetWatcher, Present, Running, Container
<1>32. QED
  BY <1>1, <1>2, <1>3, <1>4, <1>5, <1>6, <1>7, <1>8, <1>9, <1>10, <1>11,
     <1>12, <1>13, <1>14, <1>15, <1>16, <1>17, <1>18, <1>19, <1>20, <1>21,
     <1>22, <1>23, <1>24, <1>25, <1>26, <1>27, <1>28, <1>29, <1>30, <1>31
     DEF Next, CliStep, Drain

\* While the watcher can list agents, a drain means that no agent runs or that
\* someone asked for it.
LEMMA CoverStep ==
    /\ TypeOK /\ CoverEnds /\ StartedStaysEnforced
    /\ (listErrs < ListErrCeiling)' /\ [Next]_vars
    => (CoverEnds /\ StartedStaysEnforced)'
<1> SUFFICES ASSUME TypeOK, CoverEnds, StartedStaysEnforced, (listErrs <
                    ListErrCeiling)', [Next]_vars
             PROVE  (CoverEnds /\ StartedStaysEnforced)'
  OBVIOUS
<1> USE NoneAssumption, CallsAssumption, WatcherAssumption DEF TypeOK,
                                                               CoverEnds,
                                                               StartedStaysEnforced,
                                                               Accepting,
                                                               dockerVars,
                                                               watchVars,
                                                               cpVars,
                                                               cliVars,
                                                               histVars, Goto,
                                                               Remember,
                                                               Forget, Retry,
                                                               Exit,
                                                               ResetWatcher,
                                                               Present,
                                                               Running,
                                                               Container
<1>1. ASSUME NEW c \in Cli, Call(c) PROVE (CoverEnds /\ StartedStaysEnforced)'
  BY <1>1 DEF Call
<1>2. ASSUME NEW c \in Cli, Interrupt(c) PROVE (CoverEnds /\ StartedStaysEnforced)'
  BY <1>2 DEF Interrupt
<1>3. ASSUME NEW c \in Cli, AgentStops(c) PROVE (CoverEnds /\ StartedStaysEnforced)'
  BY <1>3 DEF AgentStops
<1>4. ASSUME NEW c \in Cli, ensureCPImage(c)
      PROVE  (CoverEnds /\ StartedStaysEnforced)'
  BY <1>4 DEF ensureCPImage
<1>5. ASSUME NEW c \in Cli, pruneStaleCPImages(c)
      PROVE  (CoverEnds /\ StartedStaysEnforced)'
  BY <1>5 DEF pruneStaleCPImages
<1>6. ASSUME NEW c \in Cli, findCPContainer(c)
      PROVE  (CoverEnds /\ StartedStaysEnforced)'
  BY <1>6 DEF findCPContainer
<1>7. ASSUME NEW c \in Cli, listAgents(c) PROVE (CoverEnds /\ StartedStaysEnforced)'
  BY <1>7 DEF listAgents
<1>8. ASSUME NEW c \in Cli, ContainerStop(c)
      PROVE  (CoverEnds /\ StartedStaysEnforced)'
  BY <1>8 DEF ContainerStop
<1>9. ASSUME NEW c \in Cli, Stopped(c) PROVE (CoverEnds /\ StartedStaysEnforced)'
  BY <1>9 DEF Stopped
<1>10. ASSUME NEW c \in Cli, ContainerRemove(c)
       PROVE  (CoverEnds /\ StartedStaysEnforced)'
  BY <1>10 DEF ContainerRemove
<1>11. ASSUME NEW c \in Cli, Down(c) PROVE (CoverEnds /\ StartedStaysEnforced)'
  BY <1>11 DEF Down
<1>12. ASSUME NEW c \in Cli, createCPContainer(c)
       PROVE  (CoverEnds /\ StartedStaysEnforced)'
  BY <1>12 DEF createCPContainer
<1>13. ASSUME NEW c \in Cli, recoverFromNameConflict(c)
       PROVE  (CoverEnds /\ StartedStaysEnforced)'
  BY <1>13 DEF recoverFromNameConflict
<1>14. ASSUME NEW c \in Cli, ContainerStart(c)
       PROVE  (CoverEnds /\ StartedStaysEnforced)'
  BY <1>14 DEF ContainerStart
<1>15. ASSUME NEW c \in Cli, waitForCPHealthz(c)
       PROVE  (CoverEnds /\ StartedStaysEnforced)'
  BY <1>15 DEF waitForCPHealthz
<1>16. ASSUME NEW c \in Cli, waitForCPClockSync(c)
       PROVE  (CoverEnds /\ StartedStaysEnforced)'
  BY <1>16 DEF waitForCPClockSync
<1>17. ASSUME NEW c \in Cli, FirewallInit(c)
       PROVE  (CoverEnds /\ StartedStaysEnforced)'
  BY <1>17 DEF FirewallInit
<1>18. ASSUME NEW c \in Cli, AgentStart(c)
       PROVE  (CoverEnds /\ StartedStaysEnforced)'
  BY <1>18 DEF AgentStart
<1>19. ASSUME NEW c \in Cli, FirewallEnable(c)
       PROVE  (CoverEnds /\ StartedStaysEnforced)'
  BY SMTT(30), <1>19 DEF FirewallEnable
<1>20. ASSUME Boot PROVE (CoverEnds /\ StartedStaysEnforced)'
  BY SMTT(30), <1>20 DEF Boot
<1>21. ASSUME SubprocessCrash PROVE (CoverEnds /\ StartedStaysEnforced)'
  BY <1>21 DEF SubprocessCrash
<1>22. ASSUME Restart PROVE (CoverEnds /\ StartedStaysEnforced)'
  BY <1>22 DEF Restart
<1>23. ASSUME GraceEnds PROVE (CoverEnds /\ StartedStaysEnforced)'
  BY <1>23 DEF GraceEnds
<1>24. ASSUME Poll PROVE (CoverEnds /\ StartedStaysEnforced)'
  <2>1. UNCHANGED <<up, enrolled, covered, sig>> /\ ~sig
    BY <1>24 DEF Poll
  <2>2. cp' = "serve" \/ up = {} \/ listErrs' >= ListErrCeiling
    BY <1>24 DEF Poll
  <2>3. listErrs' < ListErrCeiling => cp' = "serve" \/ up = {}
    BY SMTT(30), <1>24 DEF Poll
  <2>4. QED
    BY <2>1, <2>3
<1>25. ASSUME Sigterm PROVE (CoverEnds /\ StartedStaysEnforced)'
  BY <1>25 DEF Sigterm
<1>26. ASSUME CloseQueue PROVE (CoverEnds /\ StartedStaysEnforced)'
  BY <1>26 DEF CloseQueue
<1>27. ASSUME StopServers PROVE (CoverEnds /\ StartedStaysEnforced)'
  BY <1>27 DEF StopServers
<1>28. ASSUME FlushAll PROVE (CoverEnds /\ StartedStaysEnforced)'
  BY <1>28 DEF FlushAll
<1>29. ASSUME RunReturns PROVE (CoverEnds /\ StartedStaysEnforced)'
  BY <1>29 DEF RunReturns
<1>30. ASSUME Killed PROVE (CoverEnds /\ StartedStaysEnforced)'
  BY <1>30 DEF Killed
<1>31. CASE UNCHANGED vars
  BY <1>31 DEF vars
<1> HIDE DEF TypeOK, CoverEnds, StartedStaysEnforced, Accepting, dockerVars,
             watchVars, cpVars, cliVars, histVars, Goto, Remember, Forget,
             Retry, Exit, ResetWatcher, Present, Running, Container
<1>32. QED
  BY <1>1, <1>2, <1>3, <1>4, <1>5, <1>6, <1>7, <1>8, <1>9, <1>10, <1>11,
     <1>12, <1>13, <1>14, <1>15, <1>16, <1>17, <1>18, <1>19, <1>20, <1>21,
     <1>22, <1>23, <1>24, <1>25, <1>26, <1>27, <1>28, <1>29, <1>30, <1>31
     DEF Next, CliStep, Drain

\* What an undisturbed call relies on only its own steps change.
LEMMA GuidedStep ==
    TypeOK /\ Attempts /\ NoSignalLeft /\ Guided /\ [Next]_vars => Guided'
<1> SUFFICES ASSUME TypeOK, Attempts, NoSignalLeft, Guided, [Next]_vars
             PROVE  Guided'
  OBVIOUS
<1> USE NoneAssumption, CallsAssumption DEF TypeOK, Attempts, NoSignalLeft,
                                            Guided, Undisturbed, Active, Pc,
                                            AfterImage, Summary, Is,
                                            Restarting, Accepting, dockerVars,
                                            watchVars, cpVars, cliVars,
                                            histVars, Goto, Remember, Forget,
                                            Retry, Exit, ResetWatcher,
                                            Present, Running, Container
<1>1. ASSUME NEW c \in Cli, Call(c) PROVE Guided'
  <2>1. CASE alone' = {}
    BY <2>1
  <2>2. CASE alone' = {c}
    <3>1. /\ Active = {} /\ cp \in {"none", "boot", "serve"} /\ ~sig
          /\ pc' = [pc EXCEPT ![c] = IF op[c] = "start" THEN "image" ELSE "down"]
          /\ tries[c] = 1
      BY <1>1, <2>2 DEF Call
    <3>5. pc \in [Cli -> Pc]
      OBVIOUS
    <3>2. Active' \subseteq {c}
      BY ONLY Zenon, <3>1, <3>5 DEF Active
    <3>3. pc'[c] \in {"image", "down"}
      BY SMTT(30), <3>1
    <3>4. QED
      BY <1>1, <2>2, <3>1, <3>2, <3>3 DEF Call
  <2>3. QED
    BY <1>1, <2>1, <2>2 DEF Call
<1>2. ASSUME NEW c \in Cli, Interrupt(c) PROVE Guided'
  BY <1>2 DEF Interrupt
<1>3. ASSUME NEW c \in Cli, AgentStops(c) PROVE Guided'
  BY <1>3 DEF AgentStops
<1>4. ASSUME NEW c \in Cli, ensureCPImage(c) PROVE Guided'
  BY SMTT(30), <1>4 DEF ensureCPImage
<1>5. ASSUME NEW c \in Cli, pruneStaleCPImages(c) PROVE Guided'
  BY SMTT(30), <1>5 DEF pruneStaleCPImages
<1>6. ASSUME NEW c \in Cli, findCPContainer(c) PROVE Guided'
  <2> SUFFICES ASSUME NEW x \in alone PROVE Undisturbed(x)'
    BY <1>6 DEF findCPContainer
  <2>1. Undisturbed(x) /\ c = x /\ pc \in [Cli -> Pc]
    BY <1>6, Mine DEF findCPContainer
  <2>2. /\ pc[c] = "find"
        /\ pc' = [pc EXCEPT ![c] = IF ~Present THEN "create"
                                   ELSE IF ctr.build # buildOf[c] THEN "agents"
                                   ELSE IF Running THEN "healthz" ELSE "start"]
        /\ UNCHANGED <<ctr, cp, sig, images, tries, op, blocked, up>>
    BY <1>6 DEF findCPContainer
  <2>3. Active' \subseteq {c}
    BY ONLY Zenon, <2>1, <2>2 DEF Active, Undisturbed
  <2>4. pc'[c] \in {"agents", "start"} => Present /\ seen'[c].id = ctr.id
    BY SMTT(30), <1>6 DEF findCPContainer
  <2>5. op[c] = "start" /\ (pc'[c] = "healthz" => Running)
    BY <2>1, <2>2
  <2>6. pc'[c] \in {"create", "agents", "healthz", "start"} /\ (pc'[c] = "create" => ~Present)
    BY SMTT(30), <2>2
  <2>7. Running => cp # "none"
    OBVIOUS
  <2>8. QED
    BY ONLY Zenon, <2>1, <2>2, <2>3, <2>4, <2>5, <2>6, <2>7 DEF Undisturbed, Present, Is
<1>7. ASSUME NEW c \in Cli, listAgents(c) PROVE Guided'
  BY SMTT(30), <1>7 DEF listAgents
<1>8. ASSUME NEW c \in Cli, ContainerStop(c) PROVE Guided'
  <2> SUFFICES ASSUME NEW x \in alone PROVE Undisturbed(x)'
    BY <1>8 DEF ContainerStop
  <2>1. Undisturbed(x) /\ c = x
    BY <1>8, Mine DEF ContainerStop
  <2>2. Active' \subseteq {c}
    BY <1>8, <2>1 DEF ContainerStop
  <2>3. /\ Present' /\ ctr'.id = ctr.id
    BY SMTT(30), <1>8, <2>1, AskedToStop DEF ContainerStop
  <2>4. /\ pc' = [pc EXCEPT ![c] = IF Running THEN "stopping" ELSE "remove"]
        /\ sig' => Running
    BY <1>8, <2>1 DEF ContainerStop
  <2>5. QED
    BY <1>8, <2>1, <2>2, <2>3, <2>4 DEF ContainerStop
<1>9. ASSUME NEW c \in Cli, Stopped(c) PROVE Guided'
  BY SMTT(30), <1>9 DEF Stopped
<1>10. ASSUME NEW c \in Cli, ContainerRemove(c) PROVE Guided'
  <2> SUFFICES ASSUME NEW x \in alone PROVE Undisturbed(x)'
    BY <1>10 DEF ContainerRemove
  <2>1. Undisturbed(x) /\ c = x
    BY <1>10, Mine DEF ContainerRemove
  <2>2. Active' \subseteq {c}
    BY SMTT(30), <1>10, <2>1 DEF ContainerRemove
  <2>3. pc'[c] = IF op[c] = "down" THEN "done" ELSE "create"
    BY SMTT(30), <1>10, <2>1 DEF ContainerRemove
  <2>4. ctr' = None /\ cp' = "none" /\ ~sig' /\ UNCHANGED <<images, op, tries, blocked>>
    BY <1>10, <2>1 DEF ContainerRemove
  <2>5. op[c] \in {"start", "down"}
    OBVIOUS
  <2>6. pc'[x] \in {"done", "create"} /\ (pc'[x] = "create" => op'[x] = "start")
    BY <2>1, <2>3, <2>4, <2>5
  <2>7. pc[x] = "remove"
    BY <1>10, <2>1 DEF ContainerRemove
  <2>8. QED
    BY ONLY Zenon, <2>1, <2>2, <2>4, <2>6, <2>7 DEF Undisturbed, Present
<1>11. ASSUME NEW c \in Cli, Down(c) PROVE Guided'
  <2> SUFFICES ASSUME NEW x \in alone PROVE Undisturbed(x)'
    BY <1>11 DEF Down
  <2>1. Undisturbed(x) /\ c = x /\ pc \in [Cli -> Pc]
    BY <1>11, Mine DEF Down
  <2>2. /\ pc[c] = "down"
        /\ pc' = [pc EXCEPT ![c] = IF Running THEN "stop" ELSE "done"]
        /\ UNCHANGED <<ctr, cp, sig, images, tries, op, blocked, up>>
    BY <1>11 DEF Down
  <2>3. Active' \subseteq {c}
    BY ONLY Zenon, <2>1, <2>2 DEF Active, Undisturbed
  <2>4. ASSUME pc'[c] = "stop" PROVE Present /\ seen'[c].id = ctr.id
    <3>1. seen \in [Cli -> [id : Nat, state : {"created", "running", "exited"}] \cup {None}]
      OBVIOUS
    <3>2. Running
      BY ONLY Zenon, <2>1, <2>2, <2>4
    <3>3. seen' = [seen EXCEPT ![c] = [id |-> ctr.id, state |-> ctr.state]]
      BY ONLY Zenon, <1>11, <2>4, <3>2 DEF Down, Remember, Summary, Running
    <3>4. QED
      BY ONLY Zenon, <3>1, <3>2, <3>3 DEF Running
  <2>5. pc'[c] \in {"stop", "done"}
    BY SMTT(30), <2>2
  <2>6. op[c] = "down"
    BY <2>1, <2>2
  <2>7. QED
    BY ONLY Zenon, <2>1, <2>2, <2>3, <2>4, <2>5, <2>6 DEF Undisturbed, Present, Is
<1>12. ASSUME NEW c \in Cli, createCPContainer(c) PROVE Guided'
  <2> SUFFICES ASSUME NEW x \in alone PROVE Undisturbed(x)'
    BY <1>12 DEF createCPContainer
  <2>1. Undisturbed(x) /\ c = x /\ pc \in [Cli -> Pc]
    BY <1>12, Mine DEF createCPContainer
  <2>2. pc[c] = "create" /\ ~Present /\ images[buildOf[c]] # 0
    BY <1>12, <2>1 DEF createCPContainer
  <2>3. PICK k : k = Container(ids + 1, buildOf[c], images[buildOf[c]], "created")
    OBVIOUS
  <2>4. k # None /\ k.id = ids + 1
    <3>1. buildOf[c] \in Build /\ images[buildOf[c]] \in Nat
      OBVIOUS
    <3>2. k \in ContainerState
      BY SMTT(30), <2>3, <3>1 DEF ContainerState
    <3>3. QED
      BY ONLY Zenon, <2>3, <3>2, NoneAssumption DEF Container
  <2>5. /\ ctr' = k /\ seen' = [seen EXCEPT ![c] = [id |-> ids + 1, state |-> "created"]]
        /\ pc' = [pc EXCEPT ![c] = "start"]
        /\ UNCHANGED <<cp, sig, images, tries, op, blocked, up>>
    <3> HIDE DEF Container
    <3>1. QED
      BY <1>12, <2>2, <2>3 DEF createCPContainer
  <2>6. Active' \subseteq {c}
    BY ONLY Zenon, <2>1, <2>2, <2>5 DEF Active, Undisturbed
  <2>7. pc'[c] = "start" /\ seen'[c].id = ids + 1
    BY SMTT(30), <2>5
  <2>8. QED
    BY ONLY Zenon, <2>1, <2>2, <2>4, <2>5, <2>6, <2>7 DEF Undisturbed, Present, Is
<1>13. ASSUME NEW c \in Cli, recoverFromNameConflict(c) PROVE Guided'
  <2> SUFFICES ASSUME NEW x \in alone PROVE FALSE
    BY <1>13 DEF recoverFromNameConflict
  <2>1. Undisturbed(x) /\ c = x
    BY <1>13, Mine DEF recoverFromNameConflict
  <2>2. QED
    BY <1>13, <2>1 DEF recoverFromNameConflict
<1>14. ASSUME NEW c \in Cli, ContainerStart(c) PROVE Guided'
  BY SMTT(30), <1>14 DEF ContainerStart
<1>15. ASSUME NEW c \in Cli, waitForCPHealthz(c) PROVE Guided'
  BY SMTT(30), <1>15 DEF waitForCPHealthz
<1>16. ASSUME NEW c \in Cli, waitForCPClockSync(c) PROVE Guided'
  BY SMTT(30), <1>16 DEF waitForCPClockSync
<1>17. ASSUME NEW c \in Cli, FirewallInit(c) PROVE Guided'
  BY SMTT(30), <1>17 DEF FirewallInit
<1>18. ASSUME NEW c \in Cli, AgentStart(c) PROVE Guided'
  <2> SUFFICES ASSUME NEW x \in alone PROVE Undisturbed(x)'
    BY <1>18 DEF AgentStart
  <2>1. Undisturbed(x) /\ c = x
    BY <1>18, Mine DEF AgentStart
  <2>2. Active' \subseteq {c}
    BY <1>18, <2>1 DEF AgentStart
  <2>3. QED
    BY <1>18, <2>1, <2>2 DEF AgentStart
<1>19. ASSUME NEW c \in Cli, FirewallEnable(c) PROVE Guided'
  BY SMTT(30), <1>19 DEF FirewallEnable
<1>20. ASSUME Boot PROVE Guided'
  BY SMTT(30), <1>20 DEF Boot
<1>21. ASSUME SubprocessCrash PROVE Guided'
  BY <1>21 DEF SubprocessCrash
<1>22. ASSUME Restart PROVE Guided'
  <2> SUFFICES ASSUME NEW x \in alone PROVE Undisturbed(x)'
    BY <1>22 DEF Restart
  <2>1. Undisturbed(x) /\ ~Running /\ ctr \in ContainerState
    BY <1>22 DEF Restart
  <2>10. ctr' = [ctr EXCEPT !.state = "running", !.code = 0, !.retries = ctr.retries + 1]
    BY <1>22 DEF Restart
  <2>2. Present' /\ ctr'.id = ctr.id
    BY ONLY Zenon, <2>1, <2>10, Restarted, NoneAssumption DEF Present
  <2>3. UNCHANGED <<pc, tries, op, images, seen, blocked, up, sig>> /\ cp' = "boot"
    BY <1>22 DEF Restart
  <2>4. cp = "none" /\ Present
    BY <1>22, <2>1 DEF Restart
  <2>5. QED
    BY <2>1, <2>2, <2>3, <2>4
<1>23. ASSUME GraceEnds PROVE Guided'
  BY <1>23 DEF GraceEnds
<1>24. ASSUME Poll PROVE Guided'
  BY <1>24 DEF Poll
<1>25. ASSUME Sigterm PROVE Guided'
  BY <1>25 DEF Sigterm
<1>26. ASSUME CloseQueue PROVE Guided'
  BY ZenonT(60), <1>26 DEF CloseQueue
<1>27. ASSUME StopServers PROVE Guided'
  BY ZenonT(60), <1>27 DEF StopServers
<1>28. ASSUME FlushAll PROVE Guided'
  BY <1>28 DEF FlushAll
<1>29. ASSUME RunReturns PROVE Guided'
  <2> SUFFICES ASSUME NEW x \in alone PROVE Undisturbed(x)'
    BY <1>29 DEF RunReturns
  <2>1. Undisturbed(x) /\ pc[x] = "stopping" /\ ctr \in ContainerState
    BY <1>29 DEF RunReturns
  <2>10. PICK n \in {0, 1} : ctr' = [ctr EXCEPT !.state = "exited", !.code = n]
    BY <1>29 DEF RunReturns
  <2>2. Present' /\ ctr'.id = ctr.id
    BY ONLY Zenon, <2>1, <2>10, Exited, NoneAssumption DEF Present
  <2>3. /\ UNCHANGED <<pc, tries, op, images, seen, blocked>>
        /\ cp' = "none" /\ ~sig'
    BY <1>29 DEF RunReturns
  <2>4. QED
    BY <2>1, <2>2, <2>3
<1>30. ASSUME Killed PROVE Guided'
  <2> SUFFICES ASSUME NEW x \in alone PROVE Undisturbed(x)'
    BY <1>30 DEF Killed
  <2>1. Undisturbed(x) /\ pc[x] = "stopping" /\ ctr \in ContainerState
    BY <1>30 DEF Killed
  <2>10. PICK n \in {0, 1} : ctr' = [ctr EXCEPT !.state = "exited", !.code = n]
    BY <1>30 DEF Killed
  <2>2. Present' /\ ctr'.id = ctr.id
    BY ONLY Zenon, <2>1, <2>10, Exited, NoneAssumption DEF Present
  <2>3. /\ UNCHANGED <<pc, tries, op, images, seen, blocked>>
        /\ cp' = "none" /\ ~sig'
    BY <1>30 DEF Killed
  <2>4. QED
    BY <2>1, <2>2, <2>3
<1>31. CASE UNCHANGED vars
  BY SMTT(30), <1>31 DEF vars
<1> HIDE DEF TypeOK, Attempts, NoSignalLeft, Guided, Undisturbed, Active, Pc,
             AfterImage, Summary, Is, Restarting, Accepting, dockerVars,
             watchVars, cpVars, cliVars, histVars, Goto, Remember, Forget,
             Retry, Exit, ResetWatcher, Present, Running, Container
<1>32. QED
  BY <1>1, <1>2, <1>3, <1>4, <1>5, <1>6, <1>7, <1>8, <1>9, <1>10, <1>11,
     <1>12, <1>13, <1>14, <1>15, <1>16, <1>17, <1>18, <1>19, <1>20, <1>21,
     <1>22, <1>23, <1>24, <1>25, <1>26, <1>27, <1>28, <1>29, <1>30, <1>31
     DEF Next, CliStep, Drain

\* Every step keeps the invariant.
LEMMA Inductive == IInv /\ [Next]_vars => IInv'
  BY TypeStep, AttemptsStep, SignalStep, FlushStep, GuidedStep DEF IInv

\* The invariant always holds.
LEMMA Always == Spec => []IInv
  BY InitInv, Inductive, PTL DEF Spec

-----------------------------------------------------------------------------
(* Theorems.                                                               *)

\* CleanExitMeansFlushed, for every instance: whatever ends the control plane,
\* runDrainSequence reports an entry it left behind, and only a drain ends with
\* code 0.
THEOREM CleanExitMeansFlushedHolds == Spec => []CleanExitMeansFlushed
<1>1. IInv => CleanExitMeansFlushed
  BY DEF IInv
<1>2. QED
  BY <1>1, Always, PTL

\* StartedStaysEnforced, for every instance in which the AgentWatcher never
\* reaches its ceiling of failed lists in a row: at the ceiling it drains with
\* agents running, and the flush takes their enforcement away.
THEOREM StartedStaysEnforcedHolds ==
    Spec /\ [](listErrs < ListErrCeiling) => []StartedStaysEnforced
<1>1. Init => CoverEnds /\ StartedStaysEnforced
  BY DEF Init, CoverEnds, StartedStaysEnforced
<1>2. IInv /\ CoverEnds /\ StartedStaysEnforced /\ (listErrs < ListErrCeiling)'
          /\ [Next]_vars => (CoverEnds /\ StartedStaysEnforced)'
  BY CoverStep DEF IInv
<1>3. QED
  BY <1>1, <1>2, InitInv, Inductive, PTL DEF Spec

\* UndisturbedCallSucceeds, for every instance: EnsureRunning and the rest of a
\* container start succeed when nobody interferes, whatever state earlier
\* calls, crashes and interrupts have left the container, the images and the
\* maps in.
THEOREM UndisturbedCallSucceedsHolds == Spec => []UndisturbedCallSucceeds
<1>1. IInv => UndisturbedCallSucceeds
  BY DEF IInv, Guided, Undisturbed, UndisturbedCallSucceeds
<1>2. QED
  BY <1>1, Always, PTL

=============================================================================
