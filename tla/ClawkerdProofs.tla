---------------------------- MODULE ClawkerdProofs ----------------------------
(***************************************************************************)
(* Proofs about the daemon: the process supervisor (Supervisor) for any    *)
(* number of AgentReady dispatches, stages and orphans, any retry budget   *)
(* and any set of faults, and the Session streams it serves                *)
(* (ClawkerdSession) for any number of commands, any depth of the send     *)
(* queue and any number of faults.                                         *)
(*                                                                         *)
(* The supervisor.  The invariant IInv has three parts besides the types:  *)
(* who has spawned (at most one dispatch is between the compare-and-swap   *)
(* of runEntered and the close of runDoneCh, and proc, spawnErr and the    *)
(* reaper agree on how it went), how far the reaper is (past its first     *)
(* phase the user CMD is reaped and its status recorded), and what the     *)
(* gates mean (the drain begins after the listener is closed; doneCh is    *)
(* closed by a reaper that has drained, or by a failure).                  *)
(*                                                                         *)
(* A Session.  Whatever is sent goes through one channel, so the proof     *)
(* first says what a step can do to the channel and the stream (Channel),  *)
(* and what that does to what has been sent about a command; the invariant *)
(* SessionInv then relates it to where worker, reaper, drainer, Stop and   *)
(* the sender are.                                                         *)
(***************************************************************************)
EXTENDS Supervisor, ClawkerdSession, Sequences, TLAPS

\* The leaves are first-order unless they name SMT.
USE Zenon

\* At most one dispatch forks, and what Run has published tells how it went.
Spawning ==
    /\ ~runEntered => \A r \in Ready : dispatch[r] = "new"
    /\ \A r, s \in Ready :
          dispatch[r] \in {"fork", "install"} /\ dispatch[s] \in {"fork", "install"}
             => r = s
    /\ \A r \in Ready :
          /\ dispatch[r] \in {"fork", "install"} => ~runDone
          /\ dispatch[r] = "fork" => child = "none"
          /\ dispatch[r] = "Done" => proc
    /\ child # "none" => runEntered
    /\ runDone <=> proc \/ spawnErr
    /\ ~(proc /\ spawnErr)
    /\ proc <=> reaper # "off"
    /\ runDone => runEntered

\* The reaper leaves its first phase with the user CMD reaped and its status
\* recorded, and ends without an error only when it has drained.
Reaping ==
    /\ reaper \in {"gate", "drain"} \/ (reaper = "ended" /\ ~reaperErr)
          => child = "reaped" /\ finalWS
    /\ reaper = "drain" => "orphans" \in gates
    /\ reaper # "ended" => errs < Budget

\* The main loop closes the listener before it lets the drain begin.
GatesMean ==
    /\ main \in {"drain", "wait", "waitDone", "exited"} => ~listener
    /\ ("orphans" \in gates /\ ~spawnErr /\ ~reaperErr) => ~listener
    /\ ("done" \in gates /\ ~spawnErr /\ ~reaperErr)
          => reaper = "ended" /\ ~listener

\* The inductive invariant.
IInv ==
    /\ TypeOK
    /\ Spawning
    /\ Reaping
    /\ GatesMean
    /\ DoneMeansDrained
    /\ StatusSurvives

-----------------------------------------------------------------------------
\* The daemon starts in it.
LEMMA InitInv == Init => IInv
<1> SUFFICES ASSUME Init PROVE IInv
  OBVIOUS
<1> USE DEF Init
<1>1. FlagsOK
  BY DEF FlagsOK
<1>2. TypeOK
  BY SMTT(30), <1>1, BudgetAssumption DEF TypeOK, AllGates
<1>3. Spawning /\ Reaping /\ GatesMean
  BY SMTT(30), BudgetAssumption DEF Spawning, Reaping, GatesMean
<1>4. DoneMeansDrained /\ StatusSurvives
  BY DEF DoneMeansDrained, StatusSurvives
<1>5. QED
  BY <1>2, <1>3, <1>4 DEF IInv

\* Flags stay Booleans.
LEMMA FlagsStep ==
    FlagsOK /\ [Next]_vars => FlagsOK'
<1> SUFFICES ASSUME FlagsOK, [Next]_vars
             PROVE  FlagsOK'
  OBVIOUS
<1> USE DEF FlagsOK, spawnVars, reaperVars, stopVars, mainVars, processes,
            Bailout, StopOrSkip
<1>1. ASSUME NEW r \in Ready, Run(r) PROVE FlagsOK'
  BY <1>1, Zenon DEF Run
<1>2. ASSUME NEW r \in Ready, Fork(r) PROVE FlagsOK'
  BY <1>2, Zenon DEF Fork
<1>3. ASSUME NEW r \in Ready, Install(r) PROVE FlagsOK'
  BY <1>3, Zenon DEF Install
<1>4. ASSUME NEW r \in Ready, SpawnFails(r) PROVE FlagsOK'
  BY <1>4, Zenon DEF SpawnFails
<1>5. ASSUME NEW r \in Ready, RunLoses(r) PROVE FlagsOK'
  BY <1>5, Zenon DEF RunLoses
<1>6. ASSUME NEW p \in Process, Appears(p) PROVE FlagsOK'
  BY <1>6, Zenon DEF Appears
<1>7. ASSUME ChildExits PROVE FlagsOK'
  BY <1>7, Zenon DEF ChildExits
<1>8. ASSUME NEW p \in Process, Exits(p) PROVE FlagsOK'
  BY <1>8, Zenon DEF Exits
<1>9. ASSUME NEW p \in Stage, StageWaits(p) PROVE FlagsOK'
  BY <1>9, Zenon DEF StageWaits
<1>10. ASSUME ReapMain PROVE FlagsOK'
  BY <1>10, Zenon DEF ReapMain
<1>11. ASSUME ReapNothing PROVE FlagsOK'
  BY <1>11, Zenon DEF ReapNothing
<1>12. ASSUME ReapFails PROVE FlagsOK'
  BY <1>12, Zenon DEF ReapFails
<1>13. ASSUME ReaperPanics PROVE FlagsOK'
  BY <1>13, Zenon DEF ReaperPanics
<1>14. ASSUME GateOpens PROVE FlagsOK'
  BY <1>14, Zenon DEF GateOpens
<1>15. ASSUME drainOrphans PROVE FlagsOK'
  BY <1>15, Zenon DEF drainOrphans
<1>16. ASSUME Escalate PROVE FlagsOK'
  BY <1>16, Zenon DEF Escalate
<1>17. ASSUME runStopWatchdog PROVE FlagsOK'
  BY <1>17, Zenon DEF runStopWatchdog
<1>18. ASSUME WatchdogPanics PROVE FlagsOK'
  BY <1>18, Zenon DEF WatchdogPanics
<1>19. ASSUME Sigterm PROVE FlagsOK'
  BY <1>19, Zenon DEF Sigterm
<1>20. ASSUME ListenerDies PROVE FlagsOK'
  BY <1>20, Zenon DEF ListenerDies
<1>21. ASSUME Select PROVE FlagsOK'
  BY <1>21, Zenon DEF Select
<1>22. ASSUME MainExited PROVE FlagsOK'
  BY <1>22, Zenon DEF MainExited
<1>23. ASSUME StopListener PROVE FlagsOK'
  BY <1>23, Zenon DEF StopListener
<1>24. ASSUME BeginOrphanDrain PROVE FlagsOK'
  BY <1>24, Zenon DEF BeginOrphanDrain
<1>25. ASSUME Wait PROVE FlagsOK'
  BY <1>25, Zenon DEF Wait
<1>26. CASE UNCHANGED vars
  BY <1>26 DEF vars
<1> HIDE DEF FlagsOK, spawnVars, reaperVars, stopVars, mainVars, processes,
             Bailout, StopOrSkip
<1>27. QED
  BY <1>1, <1>2, <1>3, <1>4, <1>5, <1>6, <1>7, <1>8, <1>9, <1>10, <1>11,
     <1>12, <1>13, <1>14, <1>15, <1>16, <1>17, <1>18, <1>19, <1>20, <1>21,
     <1>22, <1>23, <1>24, <1>25, <1>26
     DEF Next, Daemon

\* Every step keeps the types; errs stays within the budget because the reaper
\* bails out when it reaches it.
LEMMA TypeStep ==
    TypeOK /\ Reaping /\ FlagsOK' /\ [Next]_vars => TypeOK'
<1> SUFFICES ASSUME TypeOK, Reaping, FlagsOK', [Next]_vars
             PROVE  TypeOK'
  OBVIOUS
<1> USE BudgetAssumption DEF TypeOK, Reaping, spawnVars, reaperVars, stopVars,
                             mainVars, processes, AllGates, Process, Bailout,
                             StopOrSkip, Status
<1>1. ASSUME NEW r \in Ready, Run(r) PROVE TypeOK'
  BY SMTT(30), <1>1 DEF Run
<1>2. ASSUME NEW r \in Ready, Fork(r) PROVE TypeOK'
  BY SMTT(30), <1>2 DEF Fork
<1>3. ASSUME NEW r \in Ready, Install(r) PROVE TypeOK'
  BY <1>3 DEF Install
<1>4. ASSUME NEW r \in Ready, SpawnFails(r) PROVE TypeOK'
  BY SMTT(30), <1>4 DEF SpawnFails
<1>5. ASSUME NEW r \in Ready, RunLoses(r) PROVE TypeOK'
  BY SMTT(30), <1>5 DEF RunLoses
<1>6. ASSUME NEW p \in Process, Appears(p) PROVE TypeOK'
  BY SMTT(30), <1>6 DEF Appears
<1>7. ASSUME ChildExits PROVE TypeOK'
  BY <1>7 DEF ChildExits
<1>8. ASSUME NEW p \in Process, Exits(p) PROVE TypeOK'
  BY SMTT(30), <1>8 DEF Exits
<1>9. ASSUME NEW p \in Stage, StageWaits(p) PROVE TypeOK'
  BY ZenonT(60), <1>9 DEF StageWaits
<1>10. ASSUME ReapMain PROVE TypeOK'
  BY SMTT(30), <1>10 DEF ReapMain
<1>11. ASSUME ReapNothing PROVE TypeOK'
  BY SMTT(30), <1>11 DEF ReapNothing
<1>12. ASSUME ReapFails PROVE TypeOK'
  <2>1. errs' \in 0 .. Budget
    BY SMTT(30), <1>12 DEF ReapFails
  <2>2. /\ gates' \subseteq AllGates
        /\ reaper' \in {"off", "wait", "gate", "drain", "ended"}
    BY <1>12 DEF ReapFails
  <2>3. QED
    BY SMTT(30), <1>12, <2>1, <2>2 DEF ReapFails
<1>13. ASSUME ReaperPanics PROVE TypeOK'
  BY <1>13 DEF ReaperPanics
<1>14. ASSUME GateOpens PROVE TypeOK'
  BY <1>14 DEF GateOpens
<1>15. ASSUME drainOrphans PROVE TypeOK'
  <2>1. other' \in [Process -> {"none", "alive", "zombie", "reaped", "stolen"}]
    BY <1>15 DEF drainOrphans
  <2>2. /\ errs' = 0
        /\ \/ reaper' = reaper /\ gates' = gates
           \/ reaper' = "ended" /\ gates' = gates \cup {"done"}
    BY <1>15, Zenon DEF drainOrphans
  <2>3. gates' \subseteq AllGates
    BY <2>2
  <2>4. reaper' \in {"off", "wait", "gate", "drain", "ended"}
    BY <2>2
  <2>5. errs' \in 0 .. Budget
    BY SMTT(30), <2>2
  <2>6. UNCHANGED <<dispatch, escalation, stopVars, main, events, exitCode, child>>
    BY <1>15 DEF drainOrphans
  <2>7. QED
    BY <2>1, <2>3, <2>4, <2>5, <2>6
<1>16. ASSUME Escalate PROVE TypeOK'
  <2>1. escalation' \in 0 .. 2
    BY SMTT(30), <1>16 DEF Escalate
  <2>2. /\ gates' \subseteq AllGates
        /\ reaper' \in {"off", "wait", "gate", "drain", "ended"}
    BY <1>16 DEF Escalate
  <2>3. QED
    BY <1>16, <2>1, <2>2 DEF Escalate
<1>17. ASSUME runStopWatchdog PROVE TypeOK'
  BY SMTT(30), <1>17 DEF runStopWatchdog
<1>18. ASSUME WatchdogPanics PROVE TypeOK'
  BY SMTT(30), <1>18 DEF WatchdogPanics
<1>19. ASSUME Sigterm PROVE TypeOK'
  BY SMTT(30), <1>19 DEF Sigterm
<1>20. ASSUME ListenerDies PROVE TypeOK'
  BY SMTT(30), <1>20 DEF ListenerDies
<1>21. ASSUME Select PROVE TypeOK'
  BY ZenonT(60), <1>21 DEF Select
<1>22. ASSUME MainExited PROVE TypeOK'
  BY <1>22 DEF MainExited
<1>23. ASSUME StopListener PROVE TypeOK'
  BY <1>23 DEF StopListener
<1>24. ASSUME BeginOrphanDrain PROVE TypeOK'
  BY <1>24 DEF BeginOrphanDrain
<1>25. ASSUME Wait PROVE TypeOK'
  BY SMTT(30), <1>25 DEF Wait
<1>26. CASE UNCHANGED vars
  BY SMTT(30), <1>26 DEF vars
<1> HIDE DEF TypeOK, Reaping, spawnVars, reaperVars, stopVars, mainVars,
             processes, AllGates, Process, Bailout, StopOrSkip, Status
<1>27. QED
  BY <1>1, <1>2, <1>3, <1>4, <1>5, <1>6, <1>7, <1>8, <1>9, <1>10, <1>11,
     <1>12, <1>13, <1>14, <1>15, <1>16, <1>17, <1>18, <1>19, <1>20, <1>21,
     <1>22, <1>23, <1>24, <1>25, <1>26
     DEF Next, Daemon

\* spawnState.Run is entered once: the compare-and-swap admits one dispatch.
LEMMA SpawningStep ==
    TypeOK /\ Spawning /\ [Next]_vars => Spawning'
<1> SUFFICES ASSUME TypeOK, Spawning, [Next]_vars
             PROVE  Spawning'
  OBVIOUS
<1> USE BudgetAssumption DEF TypeOK, FlagsOK, Spawning, spawnVars, reaperVars,
                             stopVars, mainVars, processes, Bailout
<1>1. ASSUME NEW r \in Ready, Run(r) PROVE Spawning'
  BY SMTT(30), <1>1 DEF Run
<1>2. ASSUME NEW r \in Ready, Fork(r) PROVE Spawning'
  BY SMTT(30), <1>2 DEF Fork
<1>3. ASSUME NEW r \in Ready, Install(r) PROVE Spawning'
  BY SMTT(30), <1>3 DEF Install
<1>4. ASSUME NEW r \in Ready, SpawnFails(r) PROVE Spawning'
  BY SMTT(30), <1>4 DEF SpawnFails
<1>5. ASSUME NEW r \in Ready, RunLoses(r) PROVE Spawning'
  BY SMTT(30), <1>5 DEF RunLoses
<1>6. ASSUME NEW p \in Process, Appears(p) PROVE Spawning'
  BY <1>6 DEF Appears
<1>7. ASSUME ChildExits PROVE Spawning'
  BY <1>7 DEF ChildExits
<1>8. ASSUME NEW p \in Process, Exits(p) PROVE Spawning'
  BY <1>8 DEF Exits
<1>9. ASSUME NEW p \in Stage, StageWaits(p) PROVE Spawning'
  BY <1>9 DEF StageWaits
<1>10. ASSUME ReapMain PROVE Spawning'
  BY <1>10 DEF ReapMain
<1>11. ASSUME ReapNothing PROVE Spawning'
  BY <1>11 DEF ReapNothing
<1>12. ASSUME ReapFails PROVE Spawning'
  BY <1>12 DEF ReapFails
<1>13. ASSUME ReaperPanics PROVE Spawning'
  BY <1>13 DEF ReaperPanics
<1>14. ASSUME GateOpens PROVE Spawning'
  BY <1>14 DEF GateOpens
<1>15. ASSUME drainOrphans PROVE Spawning'
  BY <1>15 DEF drainOrphans
<1>16. ASSUME Escalate PROVE Spawning'
  BY <1>16 DEF Escalate
<1>17. ASSUME runStopWatchdog PROVE Spawning'
  BY <1>17 DEF runStopWatchdog
<1>18. ASSUME WatchdogPanics PROVE Spawning'
  BY <1>18 DEF WatchdogPanics
<1>19. ASSUME Sigterm PROVE Spawning'
  BY <1>19 DEF Sigterm
<1>20. ASSUME ListenerDies PROVE Spawning'
  BY <1>20 DEF ListenerDies
<1>21. ASSUME Select PROVE Spawning'
  BY <1>21 DEF Select
<1>22. ASSUME MainExited PROVE Spawning'
  BY <1>22 DEF MainExited
<1>23. ASSUME StopListener PROVE Spawning'
  BY <1>23 DEF StopListener
<1>24. ASSUME BeginOrphanDrain PROVE Spawning'
  BY <1>24 DEF BeginOrphanDrain
<1>25. ASSUME Wait PROVE Spawning'
  BY <1>25 DEF Wait
<1>26. CASE UNCHANGED vars
  BY <1>26 DEF vars
<1> HIDE DEF TypeOK, FlagsOK, Spawning, spawnVars, reaperVars, stopVars,
             mainVars, processes, Bailout
<1>27. QED
  BY <1>1, <1>2, <1>3, <1>4, <1>5, <1>6, <1>7, <1>8, <1>9, <1>10, <1>11,
     <1>12, <1>13, <1>14, <1>15, <1>16, <1>17, <1>18, <1>19, <1>20, <1>21,
     <1>22, <1>23, <1>24, <1>25, <1>26
     DEF Next, Daemon

\* ReapMain is the only way past the first phase, and the drain is entered
\* through the gate.
LEMMA ReapingStep ==
    TypeOK /\ Spawning /\ Reaping /\ [Next]_vars => Reaping'
<1> SUFFICES ASSUME TypeOK, Spawning, Reaping, [Next]_vars
             PROVE  Reaping'
  OBVIOUS
<1> USE BudgetAssumption DEF TypeOK, FlagsOK, Spawning, Reaping, spawnVars,
                             reaperVars, stopVars, mainVars, processes,
                             AllGates, Bailout
<1>1. ASSUME NEW r \in Ready, Run(r) PROVE Reaping'
  BY <1>1 DEF Run
<1>2. ASSUME NEW r \in Ready, Fork(r) PROVE Reaping'
  BY <1>2 DEF Fork
<1>3. ASSUME NEW r \in Ready, Install(r) PROVE Reaping'
  BY <1>3 DEF Install
<1>4. ASSUME NEW r \in Ready, SpawnFails(r) PROVE Reaping'
  BY <1>4 DEF SpawnFails
<1>5. ASSUME NEW r \in Ready, RunLoses(r) PROVE Reaping'
  BY <1>5 DEF RunLoses
<1>6. ASSUME NEW p \in Process, Appears(p) PROVE Reaping'
  BY <1>6 DEF Appears
<1>7. ASSUME ChildExits PROVE Reaping'
  BY <1>7 DEF ChildExits
<1>8. ASSUME NEW p \in Process, Exits(p) PROVE Reaping'
  BY <1>8 DEF Exits
<1>9. ASSUME NEW p \in Stage, StageWaits(p) PROVE Reaping'
  BY <1>9 DEF StageWaits
<1>10. ASSUME ReapMain PROVE Reaping'
  BY SMTT(30), <1>10 DEF ReapMain
<1>11. ASSUME ReapNothing PROVE Reaping'
  BY SMTT(30), <1>11 DEF ReapNothing
<1>12. ASSUME ReapFails PROVE Reaping'
  BY <1>12 DEF ReapFails
<1>13. ASSUME ReaperPanics PROVE Reaping'
  BY <1>13 DEF ReaperPanics
<1>14. ASSUME GateOpens PROVE Reaping'
  BY <1>14 DEF GateOpens
<1>15. ASSUME drainOrphans PROVE Reaping'
  BY SMTT(30), <1>15 DEF drainOrphans
<1>16. ASSUME Escalate PROVE Reaping'
  BY <1>16 DEF Escalate
<1>17. ASSUME runStopWatchdog PROVE Reaping'
  BY <1>17 DEF runStopWatchdog
<1>18. ASSUME WatchdogPanics PROVE Reaping'
  BY <1>18 DEF WatchdogPanics
<1>19. ASSUME Sigterm PROVE Reaping'
  BY <1>19 DEF Sigterm
<1>20. ASSUME ListenerDies PROVE Reaping'
  BY <1>20 DEF ListenerDies
<1>21. ASSUME Select PROVE Reaping'
  BY <1>21 DEF Select
<1>22. ASSUME MainExited PROVE Reaping'
  BY <1>22 DEF MainExited
<1>23. ASSUME StopListener PROVE Reaping'
  BY <1>23 DEF StopListener
<1>24. ASSUME BeginOrphanDrain PROVE Reaping'
  BY <1>24 DEF BeginOrphanDrain
<1>25. ASSUME Wait PROVE Reaping'
  BY <1>25 DEF Wait
<1>26. CASE UNCHANGED vars
  BY <1>26 DEF vars
<1> HIDE DEF TypeOK, FlagsOK, Spawning, Reaping, spawnVars, reaperVars,
             stopVars, mainVars, processes, AllGates, Bailout
<1>27. QED
  BY <1>1, <1>2, <1>3, <1>4, <1>5, <1>6, <1>7, <1>8, <1>9, <1>10, <1>11,
     <1>12, <1>13, <1>14, <1>15, <1>16, <1>17, <1>18, <1>19, <1>20, <1>21,
     <1>22, <1>23, <1>24, <1>25, <1>26
     DEF Next, Daemon

\* The listener is closed before BeginOrphanDrain, and only the reaper, or a
\* failure, closes doneCh.
LEMMA GatesStep ==
    TypeOK /\ Spawning /\ Reaping /\ GatesMean /\ [Next]_vars => GatesMean'
<1> SUFFICES ASSUME TypeOK, Spawning, Reaping, GatesMean, [Next]_vars
             PROVE  GatesMean'
  OBVIOUS
<1> USE BudgetAssumption DEF TypeOK, FlagsOK, Spawning, Reaping, GatesMean,
                             spawnVars, reaperVars, stopVars, mainVars,
                             processes, AllGates, Bailout, StopOrSkip
<1>1. ASSUME NEW r \in Ready, Run(r) PROVE GatesMean'
  BY <1>1 DEF Run
<1>2. ASSUME NEW r \in Ready, Fork(r) PROVE GatesMean'
  BY <1>2 DEF Fork
<1>3. ASSUME NEW r \in Ready, Install(r) PROVE GatesMean'
  BY <1>3 DEF Install
<1>4. ASSUME NEW r \in Ready, SpawnFails(r) PROVE GatesMean'
  BY <1>4 DEF SpawnFails
<1>5. ASSUME NEW r \in Ready, RunLoses(r) PROVE GatesMean'
  BY <1>5 DEF RunLoses
<1>6. ASSUME NEW p \in Process, Appears(p) PROVE GatesMean'
  BY <1>6 DEF Appears
<1>7. ASSUME ChildExits PROVE GatesMean'
  BY <1>7 DEF ChildExits
<1>8. ASSUME NEW p \in Process, Exits(p) PROVE GatesMean'
  BY <1>8 DEF Exits
<1>9. ASSUME NEW p \in Stage, StageWaits(p) PROVE GatesMean'
  BY <1>9 DEF StageWaits
<1>10. ASSUME ReapMain PROVE GatesMean'
  BY <1>10 DEF ReapMain
<1>11. ASSUME ReapNothing PROVE GatesMean'
  BY <1>11 DEF ReapNothing
<1>12. ASSUME ReapFails PROVE GatesMean'
  BY SMTT(30), <1>12 DEF ReapFails
<1>13. ASSUME ReaperPanics PROVE GatesMean'
  BY <1>13 DEF ReaperPanics
<1>14. ASSUME GateOpens PROVE GatesMean'
  BY <1>14 DEF GateOpens
<1>15. ASSUME drainOrphans PROVE GatesMean'
  BY <1>15 DEF drainOrphans
<1>16. ASSUME Escalate PROVE GatesMean'
  BY SMTT(30), <1>16 DEF Escalate
<1>17. ASSUME runStopWatchdog PROVE GatesMean'
  BY <1>17 DEF runStopWatchdog
<1>18. ASSUME WatchdogPanics PROVE GatesMean'
  BY <1>18 DEF WatchdogPanics
<1>19. ASSUME Sigterm PROVE GatesMean'
  BY <1>19 DEF Sigterm
<1>20. ASSUME ListenerDies PROVE GatesMean'
  BY <1>20 DEF ListenerDies
<1>21. ASSUME Select PROVE GatesMean'
  BY <1>21 DEF Select
<1>22. ASSUME MainExited PROVE GatesMean'
  BY <1>22 DEF MainExited
<1>23. ASSUME StopListener PROVE GatesMean'
  BY <1>23 DEF StopListener
<1>24. ASSUME BeginOrphanDrain PROVE GatesMean'
  BY <1>24 DEF BeginOrphanDrain
<1>25. ASSUME Wait PROVE GatesMean'
  BY <1>25 DEF Wait
<1>26. CASE UNCHANGED vars
  BY <1>26 DEF vars
<1> HIDE DEF TypeOK, FlagsOK, Spawning, Reaping, GatesMean, spawnVars,
             reaperVars, stopVars, mainVars, processes, AllGates, Bailout,
             StopOrSkip
<1>27. QED
  BY <1>1, <1>2, <1>3, <1>4, <1>5, <1>6, <1>7, <1>8, <1>9, <1>10, <1>11,
     <1>12, <1>13, <1>14, <1>15, <1>16, <1>17, <1>18, <1>19, <1>20, <1>21,
     <1>22, <1>23, <1>24, <1>25, <1>26
     DEF Next, Daemon

\* Once doneCh is closed nothing can appear: the listener admits no stage, and
\* no process is left to leave an orphan.
LEMMA DoneStep ==
    TypeOK /\ Spawning /\ Reaping /\ GatesMean /\ DoneMeansDrained /\ [Next]_vars
      => DoneMeansDrained'
<1> SUFFICES ASSUME TypeOK, Spawning, Reaping, GatesMean, DoneMeansDrained, [Next]_vars
             PROVE  DoneMeansDrained'
  OBVIOUS
<1> USE BudgetAssumption DEF TypeOK, FlagsOK, Spawning, Reaping, GatesMean,
                             DoneMeansDrained, Process, spawnVars, reaperVars,
                             stopVars, mainVars, processes, AllGates, Bailout
<1>1. ASSUME NEW r \in Ready, Run(r) PROVE DoneMeansDrained'
  BY <1>1 DEF Run
<1>2. ASSUME NEW r \in Ready, Fork(r) PROVE DoneMeansDrained'
  BY <1>2 DEF Fork
<1>3. ASSUME NEW r \in Ready, Install(r) PROVE DoneMeansDrained'
  BY <1>3 DEF Install
<1>4. ASSUME NEW r \in Ready, SpawnFails(r) PROVE DoneMeansDrained'
  BY <1>4 DEF SpawnFails
<1>5. ASSUME NEW r \in Ready, RunLoses(r) PROVE DoneMeansDrained'
  BY <1>5 DEF RunLoses
<1>6. ASSUME NEW p \in Process, Appears(p) PROVE DoneMeansDrained'
  BY <1>6 DEF Appears
<1>7. ASSUME ChildExits PROVE DoneMeansDrained'
  BY <1>7 DEF ChildExits
<1>8. ASSUME NEW p \in Process, Exits(p) PROVE DoneMeansDrained'
  BY <1>8 DEF Exits
<1>9. ASSUME NEW p \in Stage, StageWaits(p) PROVE DoneMeansDrained'
  BY <1>9 DEF StageWaits
<1>10. ASSUME ReapMain PROVE DoneMeansDrained'
  BY <1>10 DEF ReapMain
<1>11. ASSUME ReapNothing PROVE DoneMeansDrained'
  BY <1>11 DEF ReapNothing
<1>12. ASSUME ReapFails PROVE DoneMeansDrained'
  BY SMTT(30), <1>12 DEF ReapFails
<1>13. ASSUME ReaperPanics PROVE DoneMeansDrained'
  BY <1>13 DEF ReaperPanics
<1>14. ASSUME GateOpens PROVE DoneMeansDrained'
  BY <1>14 DEF GateOpens
<1>15. ASSUME drainOrphans PROVE DoneMeansDrained'
  BY <1>15 DEF drainOrphans
<1>16. ASSUME Escalate PROVE DoneMeansDrained'
  BY SMTT(30), <1>16 DEF Escalate
<1>17. ASSUME runStopWatchdog PROVE DoneMeansDrained'
  BY <1>17 DEF runStopWatchdog
<1>18. ASSUME WatchdogPanics PROVE DoneMeansDrained'
  BY <1>18 DEF WatchdogPanics
<1>19. ASSUME Sigterm PROVE DoneMeansDrained'
  BY <1>19 DEF Sigterm
<1>20. ASSUME ListenerDies PROVE DoneMeansDrained'
  BY <1>20 DEF ListenerDies
<1>21. ASSUME Select PROVE DoneMeansDrained'
  BY <1>21 DEF Select
<1>22. ASSUME MainExited PROVE DoneMeansDrained'
  BY <1>22 DEF MainExited
<1>23. ASSUME StopListener PROVE DoneMeansDrained'
  BY <1>23 DEF StopListener
<1>24. ASSUME BeginOrphanDrain PROVE DoneMeansDrained'
  BY <1>24 DEF BeginOrphanDrain
<1>25. ASSUME Wait PROVE DoneMeansDrained'
  BY <1>25 DEF Wait
<1>26. CASE UNCHANGED vars
  BY <1>26 DEF vars
<1> HIDE DEF TypeOK, FlagsOK, Spawning, Reaping, GatesMean, DoneMeansDrained,
             Process, spawnVars, reaperVars, stopVars, mainVars, processes,
             AllGates, Bailout
<1>27. QED
  BY <1>1, <1>2, <1>3, <1>4, <1>5, <1>6, <1>7, <1>8, <1>9, <1>10, <1>11,
     <1>12, <1>13, <1>14, <1>15, <1>16, <1>17, <1>18, <1>19, <1>20, <1>21,
     <1>22, <1>23, <1>24, <1>25, <1>26
     DEF Next, Daemon

\* Wait returns for an installed child only after doneCh, when the status has
\* been recorded.
LEMMA StatusStep ==
    TypeOK /\ Spawning /\ Reaping /\ GatesMean /\ StatusSurvives /\ [Next]_vars
      => StatusSurvives'
<1> SUFFICES ASSUME TypeOK, Spawning, Reaping, GatesMean, StatusSurvives, [Next]_vars
             PROVE  StatusSurvives'
  OBVIOUS
<1> USE BudgetAssumption DEF TypeOK, FlagsOK, Spawning, Reaping, GatesMean,
                             StatusSurvives, Running, Status, spawnVars,
                             reaperVars, stopVars, mainVars, processes,
                             AllGates, Bailout, StopOrSkip
<1>1. ASSUME NEW r \in Ready, Run(r) PROVE StatusSurvives'
  BY <1>1 DEF Run
<1>2. ASSUME NEW r \in Ready, Fork(r) PROVE StatusSurvives'
  BY <1>2 DEF Fork
<1>3. ASSUME NEW r \in Ready, Install(r) PROVE StatusSurvives'
  BY <1>3 DEF Install
<1>4. ASSUME NEW r \in Ready, SpawnFails(r) PROVE StatusSurvives'
  BY <1>4 DEF SpawnFails
<1>5. ASSUME NEW r \in Ready, RunLoses(r) PROVE StatusSurvives'
  BY <1>5 DEF RunLoses
<1>6. ASSUME NEW p \in Process, Appears(p) PROVE StatusSurvives'
  BY <1>6 DEF Appears
<1>7. ASSUME ChildExits PROVE StatusSurvives'
  BY <1>7 DEF ChildExits
<1>8. ASSUME NEW p \in Process, Exits(p) PROVE StatusSurvives'
  BY <1>8 DEF Exits
<1>9. ASSUME NEW p \in Stage, StageWaits(p) PROVE StatusSurvives'
  BY <1>9 DEF StageWaits
<1>10. ASSUME ReapMain PROVE StatusSurvives'
  BY <1>10 DEF ReapMain
<1>11. ASSUME ReapNothing PROVE StatusSurvives'
  BY <1>11 DEF ReapNothing
<1>12. ASSUME ReapFails PROVE StatusSurvives'
  BY <1>12 DEF ReapFails
<1>13. ASSUME ReaperPanics PROVE StatusSurvives'
  BY <1>13 DEF ReaperPanics
<1>14. ASSUME GateOpens PROVE StatusSurvives'
  BY <1>14 DEF GateOpens
<1>15. ASSUME drainOrphans PROVE StatusSurvives'
  BY <1>15 DEF drainOrphans
<1>16. ASSUME Escalate PROVE StatusSurvives'
  BY <1>16 DEF Escalate
<1>17. ASSUME runStopWatchdog PROVE StatusSurvives'
  BY <1>17 DEF runStopWatchdog
<1>18. ASSUME WatchdogPanics PROVE StatusSurvives'
  BY <1>18 DEF WatchdogPanics
<1>19. ASSUME Sigterm PROVE StatusSurvives'
  BY <1>19 DEF Sigterm
<1>20. ASSUME ListenerDies PROVE StatusSurvives'
  BY <1>20 DEF ListenerDies
<1>21. ASSUME Select PROVE StatusSurvives'
  BY <1>21 DEF Select
<1>22. ASSUME MainExited PROVE StatusSurvives'
  BY <1>22 DEF MainExited
<1>23. ASSUME StopListener PROVE StatusSurvives'
  BY <1>23 DEF StopListener
<1>24. ASSUME BeginOrphanDrain PROVE StatusSurvives'
  BY <1>24 DEF BeginOrphanDrain
<1>25. ASSUME Wait PROVE StatusSurvives'
  BY <1>25 DEF Wait
<1>26. CASE UNCHANGED vars
  BY <1>26 DEF vars
<1> HIDE DEF TypeOK, FlagsOK, Spawning, Reaping, GatesMean, StatusSurvives,
             Running, Status, spawnVars, reaperVars, stopVars, mainVars,
             processes, AllGates, Bailout, StopOrSkip
<1>27. QED
  BY <1>1, <1>2, <1>3, <1>4, <1>5, <1>6, <1>7, <1>8, <1>9, <1>10, <1>11,
     <1>12, <1>13, <1>14, <1>15, <1>16, <1>17, <1>18, <1>19, <1>20, <1>21,
     <1>22, <1>23, <1>24, <1>25, <1>26
     DEF Next, Daemon

\* IInv is an invariant.
LEMMA Inductive == Spec => []IInv
<1>1. IInv /\ [Next]_vars => IInv'
  BY FlagsStep, TypeStep, SpawningStep, ReapingStep, GatesStep, DoneStep, StatusStep
     DEF IInv, TypeOK
<1>2. QED
  BY InitInv, <1>1, PTL DEF Spec

\* doneCh is closed with no process left alive, unless the supervisor failed,
\* however many stages and orphans there are (drainOrphans, runReaper).
THEOREM DoneMeansDrainedHolds == Spec => []DoneMeansDrained
  BY Inductive, PTL DEF IInv

\* PID 1 mirrors the status of the user CMD (spawnState.Wait), whatever the
\* order of signals, exits, failing waits and gates.
THEOREM StatusSurvivesHolds == Spec => []StatusSurvives
  BY Inductive, PTL DEF IInv

\* However many Sessions race to dispatch AgentReady, one is answered Done
\* only with the user CMD installed (spawnState.Run, handleAgentReady).
THEOREM ReadyMeansSpawnedHolds == Spec => []ReadyMeansSpawned
<1>1. IInv => ReadyMeansSpawned
  BY DEF IInv, Spawning, ReadyMeansSpawned
<1>2. QED
  BY Inductive, <1>1, PTL

-----------------------------------------------------------------------------
(* A Session of the daemon *)

\* p was sent about c, on the stream w or in the channel q.
Said(w, q, c, p) == p \in Range(w[c]) \/ <<c, p>> \in Range(q)

\* Reaper and drainer run while the worker waits for them, and not before it
\* has launched them or after it has gone on.
Phases ==
    \A c \in Cmd :
        /\ worker[c] \in {"new", "spawn", "started"}
              => stageReaper[c] = "none" /\ drainer[c] = "none"
        /\ worker[c] \in {"timeout", "finish", "stop", "exit", "ended"}
              => /\ stageReaper[c] \in {"none", "done"}
                 /\ drainer[c] \in {"none", "done", "broken"}

\* Who has sent a terminal Response is past its last send.
Spoken ==
    \A c \in Cmd, t \in Terminal :
        Said(wire, sendCh, c, t) /\ drainer[c] # "broken"
           => worker[c] \in {"stop", "exit", "ended"}

\* How far Stop is, and what ended the session's ctx, its stream and its
\* sender.
Stopping ==
    /\ stopper = None <=> stop = "no"
    /\ stopper \in Cmd => worker[stopper] \in {"stop", "exit", "ended"}
    /\ \A c \in Cmd : worker[c] = "exit" => stop \in {"done", "late"}
    /\ exited => stop \in {"done", "late"}
    /\ stream = "down" => exited
    /\ ctxDone => stop \in {"done", "late"} \/ stream = "broken"
    /\ stop = "done" => sender = "ended"
    /\ stop = "no" => sender = "run" \/ (sender = "ended" /\ stream = "broken")
    /\ stop = "no" => \A c \in cancelled : c \in timedOut \/ worker[c] = "ended"

\* The worker of c stops the session or is about to, and nothing excuses it
\* from delivering its Done.
Owes(c) ==
    /\ stopper = c \/ (worker[c] = "stop" /\ stop = "no")
    /\ c \notin timedOut
    /\ stream # "broken"
    /\ stop # "late"

\* That Done is queued, and on the stream when the sender has returned.
Flushed ==
    \A c \in Cmd :
        Owes(c) => /\ Said(wire, sendCh, c, "Done")
                   /\ sender = "ended" => "Done" \in Range(wire[c])

SessionInv ==
    /\ SessionTypeOK
    /\ Phases
    /\ Spoken
    /\ TerminalIsLast
    /\ Stopping
    /\ Flushed

LEMMA SessionStarts == ASSUME SessionInit PROVE SessionInv
<1> USE DEF SessionInit
<1>1. SessionTypeOK
  <2>1. /\ sendCh \in Seq(Cmd \X Payload)
        /\ Len(sendCh) <= QueueDepth
        /\ wire \in [Cmd -> Seq(Payload)]
    BY SMTT(30), DepthAssumption
  <2>2. QED
    BY <2>1 DEF SessionTypeOK
<1>2. Phases /\ Stopping
  BY NoneAssumption DEF Phases, Stopping
<1>3. Range(sendCh) = {} /\ \A c \in Cmd : Range(wire[c]) = {}
  BY SMTT(30) DEF Range
<1>4. Spoken
  BY <1>3 DEF Spoken, Said
<1>5. TerminalIsLast
  BY <1>3, SMTT(30) DEF TerminalIsLast, SentAfter
<1>6. Flushed
  BY NoneAssumption DEF Flushed, Owes
<1>7. QED
  BY <1>1, <1>2, <1>4, <1>5, <1>6 DEF SessionInv
-----------------------------------------------------------------------------
\* A Response p about c is sent where the goroutines of c send one.
Speaks(c, p) ==
    \/ p = "unknown"
    \/ p = "Started" /\ worker[c] = "started"
    \/ p = "StageExit" /\ stageReaper[c] = "waited"
    \/ p = "Output" /\ drainer[c] = "first"
    \/ p = "Error" /\ drainer[c] \in {"first", "more"} /\ drainer'[c] = "broken"
    \/ p = "Error" /\ worker[c] \in {"spawn", "timeout"} /\ worker'[c] = "ended"
    \/ p = "Done" /\ worker[c] = "finish" /\ worker'[c] \in {"stop", "ended"}

Queues(c, p) ==
    /\ Speaks(c, p)
    /\ Len(sendCh) < QueueDepth
    /\ sendCh' = Append(sendCh, <<c, p>>)
    /\ UNCHANGED wire

Writes ==
    /\ sendCh # <<>>
    /\ sendCh' = Tail(sendCh)
    /\ wire' = [wire EXCEPT ![Head(sendCh)[1]] = Append(@, Head(sendCh)[2])]
    /\ UNCHANGED sender

Drops ==
    /\ \/ sendCh # <<>> /\ sendCh' = Tail(sendCh)
       \/ sendCh' = <<>>
    /\ sender # "ended"
    /\ ctxDone \/ Broken
    /\ UNCHANGED wire

ChannelSteps ==
    \/ \E c \in Cmd, p \in Payload : Queues(c, p)
    \/ Writes
    \/ Drops
    \/ UNCHANGED <<wire, sendCh>>

\* What a step does to the channel and the stream.
LEMMA Channel == ASSUME SessionTypeOK, [SessionNext]_sessionVars PROVE ChannelSteps
<1> USE DEF ChannelSteps, workerVars, ctxVars, endVars
<1>1. ASSUME NEW c \in Cmd, startShellCommand(c) PROVE ChannelSteps
  BY <1>1 DEF startShellCommand
<1>2. ASSUME NEW c \in Cmd, routeCloseStdin(c) PROVE ChannelSteps
  BY <1>2 DEF routeCloseStdin, Queues, Speaks, Payload
<1>3. ASSUME NEW c \in Cmd, Spawn(c) PROVE ChannelSteps
  BY <1>3 DEF Spawn
<1>4. ASSUME NEW c \in Cmd, Started(c) PROVE ChannelSteps
  <2>1. Speaks(c, "Started")
    BY <1>4, SessionTypeOK DEF Started, Speaks, SessionTypeOK
  <2>2. QED
    BY <1>4, <2>1 DEF Started, send, Queues, Payload
<1>5. ASSUME NEW c \in Cmd, Killed(c) PROVE ChannelSteps
  BY <1>5 DEF Killed, ProcessExits
<1>6. ASSUME NEW c \in Cmd, CmdWait(c) PROVE ChannelSteps
  BY <1>6 DEF CmdWait
<1>7. ASSUME NEW c \in Cmd, StageExit(c) PROVE ChannelSteps
  <2>1. Speaks(c, "StageExit")
    BY <1>7, SessionTypeOK DEF StageExit, Speaks, SessionTypeOK
  <2>2. QED
    BY <1>7, <2>1 DEF StageExit, send, Queues, Payload
<1>8. ASSUME NEW c \in Cmd, drainOutput(c) PROVE ChannelSteps
  <2>1. CASE drainer[c] = "first" /\ send(c, "Output")
    BY <1>8, <2>1 DEF drainOutput, send, Queues, Speaks, Payload
  <2>2. CASE UNCHANGED sendCh
    BY <1>8, <2>2 DEF drainOutput
  <2>3. CASE /\ drainer[c] \in {"first", "more"}
             /\ send(c, "Error")
             /\ drainer' = [drainer EXCEPT ![c] = "broken"]
    <3>1. Speaks(c, "Error")
      BY <2>3 DEF Speaks, SessionTypeOK
    <3>2. QED
      BY <1>8, <2>3, <3>1 DEF drainOutput, send, Queues, Payload
  <2>4. QED
    BY <1>8, <2>1, <2>2, <2>3 DEF drainOutput
<1>9. ASSUME NEW c \in Cmd, Decide(c) PROVE ChannelSteps
  BY <1>9 DEF Decide
<1>10. ASSUME NEW c \in Cmd, FinishTimeout(c) PROVE ChannelSteps
  <2>1. Speaks(c, "Error")
    BY <1>10, SessionTypeOK DEF FinishTimeout, Speaks, SessionTypeOK
  <2>2. QED
    BY <1>10, <2>1 DEF FinishTimeout, send, Queues, Payload
<1>11. ASSUME NEW c \in Cmd, FinishDone(c) PROVE ChannelSteps
  <2>1. Speaks(c, "Done")
    BY <1>11, SessionTypeOK DEF FinishDone, Speaks, SessionTypeOK
  <2>2. QED
    BY <1>11, <2>1 DEF FinishDone, send, Queues, Payload
<1>12. ASSUME NEW c \in Cmd, StopReturns(c) PROVE ChannelSteps
  BY <1>12 DEF StopReturns
<1>13. ASSUME NEW c \in Cmd, RequestExit(c) PROVE ChannelSteps
  BY <1>13 DEF RequestExit
<1>14. ASSUME NEW c \in Cmd, CmdSpawnFails(c) PROVE ChannelSteps
  <2>1. Speaks(c, "Error")
    BY <1>14, SessionTypeOK DEF CmdSpawnFails, Speaks, SessionTypeOK
  <2>2. QED
    BY <1>14, <2>1 DEF CmdSpawnFails, send, Queues, Payload
<1>15. ASSUME NEW c \in Cmd, Timeout(c) PROVE ChannelSteps
  BY <1>15 DEF Timeout
<1>16. ASSUME NEW c \in Cmd, ProcessExits(c) PROVE ChannelSteps
  BY <1>16 DEF ProcessExits
<1>17. ASSUME runReceiverEnds PROVE ChannelSteps
  BY <1>17 DEF runReceiverEnds
<1>18. ASSUME StopBegins PROVE ChannelSteps
  BY <1>18 DEF StopBegins
<1>19. ASSUME SessionStopEnds PROVE ChannelSteps
  BY <1>19 DEF SessionStopEnds
<1>20. ASSUME ForceClose PROVE ChannelSteps
  BY <1>20 DEF ForceClose
<1>21. ASSUME runSender PROVE ChannelSteps
  <2>1. sender # "ended"
    BY <1>21 DEF runSender
  <2>2. QED
    BY <1>21, <2>1 DEF runSender, Writes, Drops
<1>22. ASSUME drainAndSend PROVE ChannelSteps
  BY <1>22 DEF drainAndSend
<1>23. ASSUME SenderDiscards PROVE ChannelSteps
  <2>1. sender # "ended"
    BY <1>23 DEF SenderDiscards
  <2>2. QED
    BY <1>23, <2>1 DEF SenderDiscards, Drops
<1>24. ASSUME StreamEnds PROVE ChannelSteps
  BY <1>24 DEF StreamEnds
<1>25. CASE UNCHANGED sessionVars
  BY <1>25 DEF sessionVars
<1> HIDE DEF ChannelSteps, workerVars, ctxVars, endVars
<1>26. QED
  BY <1>1, <1>2, <1>3, <1>4, <1>5, <1>6, <1>7, <1>8, <1>9, <1>10, <1>11,
     <1>12, <1>13, <1>14, <1>15, <1>16, <1>17, <1>18, <1>19, <1>20, <1>21,
     <1>22, <1>23, <1>24, <1>25
     DEF SessionNext, Worker, Session
-----------------------------------------------------------------------------

\* t is s with e behind it; t is s without its first element.
Longer(S, t, s, e) ==
    /\ t \in Seq(S)
    /\ Len(t) = Len(s) + 1
    /\ \A i \in DOMAIN t : \/ i \in DOMAIN s /\ t[i] = s[i]
                           \/ i = Len(s) + 1 /\ t[i] = e
    /\ \A i \in DOMAIN s : i \in DOMAIN t /\ t[i] = s[i]
    /\ Len(s) + 1 \in DOMAIN t /\ t[Len(s) + 1] = e
    /\ \A i, j \in DOMAIN t : i < j => i \in DOMAIN s

Shorter(S, t, s) ==
    /\ t \in Seq(S)
    /\ Len(t) <= Len(s)
    /\ Head(s) = s[1]
    /\ 1 \in DOMAIN s
    /\ \A i \in DOMAIN t : i + 1 \in DOMAIN s /\ 1 < i + 1 /\ t[i] = s[i + 1]
    /\ \A i, j \in DOMAIN t : i < j => i + 1 < j + 1
    /\ \A i \in DOMAIN s : i = 1 \/ \E j \in DOMAIN t : t[j] = s[i]

LEMMA AppendElements ==
    ASSUME NEW S, NEW s \in Seq(S), NEW e \in S, NEW t, t = Append(s, e)
    PROVE  Longer(S, t, s, e)
<1>1. /\ Len(s) \in Nat
      /\ t \in Seq(S)
      /\ Len(t) = Len(s) + 1
      /\ DOMAIN s = 1 .. Len(s)
      /\ DOMAIN t = 1 .. Len(s) + 1
      /\ t[Len(s) + 1] = e
  BY SMTT(30)
<1>2. \A i \in 1 .. Len(s) : t[i] = s[i]
  BY SMTT(30)
<1>3. \A i \in 1 .. Len(s) + 1 : i \in 1 .. Len(s) \/ i = Len(s) + 1
  BY ONLY SMTT(30), <1>1
<1>4. \A i, j \in 1 .. Len(s) + 1 : i < j => i \in 1 .. Len(s)
  BY ONLY SMTT(30), <1>1
<1>5. Len(s) + 1 \in 1 .. Len(s) + 1 /\ \A i \in 1 .. Len(s) : i \in 1 .. Len(s) + 1
  BY ONLY SMTT(30), <1>1
<1>6. \A i \in DOMAIN t : \/ i \in DOMAIN s /\ t[i] = s[i]
                          \/ i = Len(s) + 1 /\ t[i] = e
  <2> TAKE i \in DOMAIN t
  <2>1. CASE i \in 1 .. Len(s)
    BY ONLY <1>1, <1>2, <2>1, SMTT(30)
  <2>2. CASE i = Len(s) + 1
    BY <1>1, <2>2
  <2>3. QED
    BY <1>1, <1>3, <2>1, <2>2
<1>7. Len(s) + 1 \in DOMAIN t /\ \A i \in DOMAIN s : i \in DOMAIN t /\ t[i] = s[i]
  BY ONLY Zenon, <1>1, <1>2, <1>5
<1>8. \A i, j \in DOMAIN t : i < j => i \in DOMAIN s
  BY ONLY Zenon, <1>1, <1>4
<1>9. QED
  BY ONLY Zenon, <1>1, <1>6, <1>7, <1>8 DEF Longer

LEMMA TailElements ==
    ASSUME NEW S, NEW s \in Seq(S), s # <<>>, NEW t, t = Tail(s)
    PROVE  Shorter(S, t, s)
<1>1. /\ Len(s) \in Nat \ {0}
      /\ t \in Seq(S)
      /\ Len(t) = Len(s) - 1
      /\ Head(s) = s[1]
      /\ DOMAIN s = 1 .. Len(s)
      /\ DOMAIN t = 1 .. Len(s) - 1
  BY SMTT(30)
<1>2. \A i \in 1 .. Len(s) - 1 : t[i] = s[i + 1]
  BY SMTT(30)
<1>3. Len(t) <= Len(s) /\ 1 \in 1 .. Len(s)
  BY ONLY SMTT(30), <1>1
<1>4. \A i \in 1 .. Len(s) - 1 : i + 1 \in 1 .. Len(s) /\ 1 < i + 1
  BY ONLY SMTT(30), <1>1
<1>5. \A i, j \in 1 .. Len(s) - 1 : i < j => i + 1 < j + 1
  BY ONLY SMTT(30), <1>1
<1>6. \A i \in 1 .. Len(s) : i = 1 \/ (i - 1 \in 1 .. Len(s) - 1 /\ (i - 1) + 1 = i)
  BY ONLY SMTT(30), <1>1
<1>7. QED
  BY ONLY Zenon, <1>1, <1>2, <1>3, <1>4, <1>5, <1>6 DEF Shorter

LEMMA LongerRange ==
    ASSUME NEW S, NEW t, NEW s, NEW e, Longer(S, t, s, e)
    PROVE  \A x : x \in Range(t) <=> x \in Range(s) \/ x = e
<1>1. ASSUME NEW x \in Range(t) PROVE x \in Range(s) \/ x = e
  <2>1. PICK i \in DOMAIN t : x = t[i]
    BY DEF Range
  <2>2. (i \in DOMAIN s /\ t[i] = s[i]) \/ t[i] = e
    BY DEF Longer
  <2>3. QED
    BY <2>1, <2>2 DEF Range
<1>2. ASSUME NEW x \in Range(s) PROVE x \in Range(t)
  <2>1. PICK i \in DOMAIN s : x = s[i]
    BY DEF Range
  <2>2. i \in DOMAIN t /\ t[i] = s[i]
    BY DEF Longer
  <2>3. QED
    BY <2>1, <2>2 DEF Range
<1>3. e \in Range(t)
  BY DEF Range, Longer
<1>4. QED
  BY <1>1, <1>2, <1>3

LEMMA ShorterRange ==
    ASSUME NEW S, NEW t, NEW s, Shorter(S, t, s)
    PROVE  \A x : x \in Range(s) <=> x \in Range(t) \/ x = s[1]
<1>1. ASSUME NEW x \in Range(s) PROVE x \in Range(t) \/ x = s[1]
  <2>1. PICK i \in DOMAIN s : x = s[i]
    BY DEF Range
  <2>2. i = 1 \/ \E j \in DOMAIN t : t[j] = s[i]
    BY DEF Shorter
  <2>3. QED
    BY <2>1, <2>2 DEF Range
<1>2. ASSUME NEW x \in Range(t) PROVE x \in Range(s)
  <2>1. PICK i \in DOMAIN t : x = t[i]
    BY DEF Range
  <2>2. i + 1 \in DOMAIN s /\ t[i] = s[i + 1]
    BY DEF Shorter
  <2>3. QED
    BY <2>1, <2>2 DEF Range
<1>3. s[1] \in Range(s)
  BY DEF Range, Shorter
<1>4. QED
  BY <1>1, <1>2, <1>3

\* What a Response put into the channel adds.
LEMMA QueuedSaid ==
    ASSUME SessionTypeOK,
           NEW c \in Cmd, NEW p \in Payload, Queues(c, p)
    PROVE  /\ sendCh' \in Seq(Cmd \X Payload)
           /\ Len(sendCh') = Len(sendCh) + 1
           /\ \A e : e \in Range(sendCh') <=> e \in Range(sendCh) \/ e = <<c, p>>
           /\ \A i \in DOMAIN sendCh' :
                 \/ i \in DOMAIN sendCh /\ sendCh'[i] = sendCh[i]
                 \/ i = Len(sendCh) + 1 /\ sendCh'[i] = <<c, p>>
           /\ \A i \in DOMAIN sendCh : sendCh'[i] = sendCh[i]
           /\ \A i, j \in DOMAIN sendCh' : i < j => i \in DOMAIN sendCh
<1>1. /\ sendCh \in Seq(Cmd \X Payload)
      /\ sendCh' = Append(sendCh, <<c, p>>)
      /\ <<c, p>> \in Cmd \X Payload
  BY DEF SessionTypeOK, Queues
<1>2. Longer(Cmd \X Payload, sendCh', sendCh, <<c, p>>)
  BY <1>1, AppendElements
<1>3. \A e : e \in Range(sendCh') <=> e \in Range(sendCh) \/ e = <<c, p>>
  BY <1>2, LongerRange
<1>4. QED
  BY <1>2, <1>3 DEF Longer

LEMMA QueuedAfter ==
    ASSUME SessionTypeOK,
           NEW c \in Cmd, NEW p \in Payload, Queues(c, p),
           NEW d \in Cmd, NEW q \in Payload, NEW r \in Payload,
           SentAfter(d, q, r)'
    PROVE  \/ SentAfter(d, q, r)
           \/ d = c /\ r = p /\ Said(wire, sendCh, d, q)
<1>1. wire' = wire
  BY DEF Queues
<1>2. CASE \E i, j \in DOMAIN wire'[d] : i < j /\ wire'[d][i] = q /\ wire'[d][j] = r
  BY <1>1, <1>2 DEF SentAfter
<1>3. CASE q \in Range(wire'[d]) /\ <<d, r>> \in Range(sendCh')
  <2>1. <<d, r>> \in Range(sendCh) \/ <<d, r>> = <<c, p>>
    BY <1>3, QueuedSaid
  <2>2. <<d, r>> = <<c, p>> => d = c /\ r = p
    BY SMTT(30)
  <2>3. QED
    BY <1>1, <1>3, <2>1, <2>2 DEF SentAfter, Said
<1>4. CASE \E i, j \in DOMAIN sendCh' :
              i < j /\ sendCh'[i] = <<d, q>> /\ sendCh'[j] = <<d, r>>
  <2>1. PICK i \in DOMAIN sendCh', j \in DOMAIN sendCh' :
                i < j /\ sendCh'[i] = <<d, q>> /\ sendCh'[j] = <<d, r>>
    BY <1>4
  <2>2. i \in DOMAIN sendCh
    BY <2>1, QueuedSaid
  <2>3. sendCh'[i] = sendCh[i]
    BY <2>2, QueuedSaid
  <2>4. CASE j \in DOMAIN sendCh /\ sendCh'[j] = sendCh[j]
    BY <2>1, <2>2, <2>3, <2>4 DEF SentAfter
  <2>5. CASE sendCh'[j] = <<c, p>>
    <3>1. d = c /\ r = p
      BY <2>1, <2>5, SMTT(30)
    <3>2. <<d, q>> \in Range(sendCh)
      BY <2>1, <2>2, <2>3 DEF Range
    <3>3. QED
      BY <3>1, <3>2 DEF Said
  <2>6. QED
    BY <2>4, <2>5, QueuedSaid
<1>5. QED
  BY <1>2, <1>3, <1>4 DEF SentAfter

\* The sender moves the oldest Response from the channel to the stream.
LEMMA WrittenSaid ==
    ASSUME SessionTypeOK, Writes
    PROVE  \E c \in Cmd, p \in Payload :
              /\ sendCh' \in Seq(Cmd \X Payload)
              /\ Len(sendCh') <= Len(sendCh)
              /\ 1 \in DOMAIN sendCh
              /\ sendCh[1] = <<c, p>>
              /\ wire' = [wire EXCEPT ![c] = Append(@, p)]
              /\ \A e : e \in Range(sendCh) <=> e \in Range(sendCh') \/ e = <<c, p>>
              /\ \A i \in DOMAIN sendCh' : /\ i + 1 \in DOMAIN sendCh
                                           /\ 1 < i + 1
                                           /\ sendCh'[i] = sendCh[i + 1]
              /\ \A i, j \in DOMAIN sendCh' : i < j => i + 1 < j + 1
<1>1. /\ sendCh' = Tail(sendCh)
      /\ sendCh # <<>>
      /\ sendCh \in Seq(Cmd \X Payload)
  BY DEF SessionTypeOK, Writes
<1>2. Shorter(Cmd \X Payload, sendCh', sendCh)
  BY <1>1, TailElements
<1>3. sendCh[1] \in Cmd \X Payload
  BY <1>1, <1>2, SMTT(30) DEF Shorter
<1>4. PICK c \in Cmd, p \in Payload : sendCh[1] = <<c, p>>
  BY <1>3, SMTT(30)
<1>5. sendCh[1][1] = c /\ sendCh[1][2] = p
  BY <1>4, SMTT(30)
<1>6. wire' = [wire EXCEPT ![c] = Append(@, p)]
  BY <1>2, <1>5 DEF Writes, Shorter
<1>7. \A e : e \in Range(sendCh) <=> e \in Range(sendCh') \/ e = <<c, p>>
  BY <1>2, <1>4, ShorterRange
<1>8. QED
  BY <1>2, <1>4, <1>6, <1>7 DEF Shorter

-----------------------------------------------------------------------------

\* On the stream, the Response is behind what was sent about its command.
LEMMA WrittenOn ==
    ASSUME SessionTypeOK, NEW c \in Cmd, NEW p \in Payload,
           wire' = [wire EXCEPT ![c] = Append(@, p)]
    PROVE  /\ wire' \in [Cmd -> Seq(Payload)]
           /\ Longer(Payload, wire'[c], wire[c], p)
           /\ \A d \in Cmd : d # c => wire'[d] = wire[d]
           /\ \A d \in Cmd : \A q : q \in Range(wire'[d])
                 <=> q \in Range(wire[d]) \/ (d = c /\ q = p)
<1>1. wire \in [Cmd -> Seq(Payload)]
  BY DEF SessionTypeOK
<1>2. wire'[c] = Append(wire[c], p) /\ \A d \in Cmd : d # c => wire'[d] = wire[d]
  BY <1>1
<1>3. Longer(Payload, wire'[c], wire[c], p)
  BY <1>1, <1>2, AppendElements
<1>4. wire' \in [Cmd -> Seq(Payload)]
  <2>1. Append(wire[c], p) \in Seq(Payload)
    BY <1>2, <1>3 DEF Longer
  <2>2. QED
    BY <1>1, <2>1
<1>5. \A q : q \in Range(wire'[c]) <=> q \in Range(wire[c]) \/ q = p
  BY <1>3, LongerRange
<1>6. QED
  BY <1>2, <1>3, <1>4, <1>5

LEMMA WrittenAfter ==
    ASSUME SessionTypeOK, Writes
    PROVE  /\ sendCh' \in Seq(Cmd \X Payload)
           /\ Len(sendCh') <= Len(sendCh)
           /\ wire' \in [Cmd -> Seq(Payload)]
           /\ \A d \in Cmd, q \in Payload :
                 /\ Said(wire', sendCh', d, q) <=> Said(wire, sendCh, d, q)
                 /\ q \in Range(wire[d]) => q \in Range(wire'[d])
           /\ \A d \in Cmd, q, r \in Payload :
                 SentAfter(d, q, r)' => SentAfter(d, q, r)
<1>1. PICK c \in Cmd, p \in Payload :
              /\ sendCh' \in Seq(Cmd \X Payload)
              /\ Len(sendCh') <= Len(sendCh)
              /\ 1 \in DOMAIN sendCh
              /\ sendCh[1] = <<c, p>>
              /\ wire' = [wire EXCEPT ![c] = Append(@, p)]
              /\ \A e : e \in Range(sendCh) <=> e \in Range(sendCh') \/ e = <<c, p>>
              /\ \A i \in DOMAIN sendCh' : /\ i + 1 \in DOMAIN sendCh
                                           /\ 1 < i + 1
                                           /\ sendCh'[i] = sendCh[i + 1]
              /\ \A i, j \in DOMAIN sendCh' : i < j => i + 1 < j + 1
  BY WrittenSaid
<1>2. /\ wire' \in [Cmd -> Seq(Payload)]
      /\ Longer(Payload, wire'[c], wire[c], p)
      /\ \A d \in Cmd : d # c => wire'[d] = wire[d]
      /\ \A d \in Cmd : \A q : q \in Range(wire'[d])
            <=> q \in Range(wire[d]) \/ (d = c /\ q = p)
  BY <1>1, WrittenOn
<1>3. \A d \in Cmd, q \in Payload : <<d, q>> = <<c, p>> <=> d = c /\ q = p
  BY SMTT(30)
<1>4. ASSUME NEW d \in Cmd, NEW q \in Payload
      PROVE  /\ Said(wire', sendCh', d, q) <=> Said(wire, sendCh, d, q)
             /\ q \in Range(wire[d]) => q \in Range(wire'[d])
  BY <1>1, <1>2, <1>3 DEF Said
<1>5. ASSUME NEW d \in Cmd, NEW q \in Payload, NEW r \in Payload,
             SentAfter(d, q, r)'
      PROVE  SentAfter(d, q, r)
  <2>1. CASE \E i, j \in DOMAIN wire'[d] : i < j /\ wire'[d][i] = q /\ wire'[d][j] = r
    <3>1. CASE d # c
      BY <1>2, <2>1, <3>1 DEF SentAfter
    <3>2. CASE d = c
      <4>1. PICK i \in DOMAIN wire'[c], j \in DOMAIN wire'[c] :
                    i < j /\ wire'[c][i] = q /\ wire'[c][j] = r
        BY <2>1, <3>2
      <4>2. i \in DOMAIN wire[c] /\ wire'[c][i] = wire[c][i]
        BY <1>2, <4>1 DEF Longer
      <4>3. CASE j \in DOMAIN wire[c] /\ wire'[c][j] = wire[c][j]
        BY <3>2, <4>1, <4>2, <4>3 DEF SentAfter
      <4>4. CASE wire'[c][j] = p
        <5>1. q \in Range(wire[c])
          BY <4>1, <4>2 DEF Range
        <5>2. r = p /\ <<c, p>> \in Range(sendCh)
          BY <1>1, <4>1, <4>4
        <5>3. QED
          BY <3>2, <5>1, <5>2 DEF SentAfter
      <4>5. QED
        BY <1>2, <4>3, <4>4 DEF Longer
    <3>3. QED
      BY <3>1, <3>2
  <2>2. CASE q \in Range(wire'[d]) /\ <<d, r>> \in Range(sendCh')
    <3>1. <<d, r>> \in Range(sendCh)
      BY <1>1, <2>2
    <3>2. CASE q \in Range(wire[d])
      BY <3>1, <3>2 DEF SentAfter
    <3>3. CASE d = c /\ q = p
      <4>1. PICK j \in DOMAIN sendCh' : sendCh'[j] = <<d, r>>
        BY <2>2 DEF Range
      <4>2. /\ 1 \in DOMAIN sendCh /\ j + 1 \in DOMAIN sendCh /\ 1 < j + 1
            /\ sendCh[1] = <<d, q>> /\ sendCh[j + 1] = <<d, r>>
        BY <1>1, <3>3, <4>1
      <4>3. QED
        BY <4>2 DEF SentAfter
    <3>4. QED
      BY <1>2, <2>2, <3>2, <3>3
  <2>3. CASE \E i, j \in DOMAIN sendCh' :
                i < j /\ sendCh'[i] = <<d, q>> /\ sendCh'[j] = <<d, r>>
    <3>1. PICK i \in DOMAIN sendCh', j \in DOMAIN sendCh' :
                  i < j /\ sendCh'[i] = <<d, q>> /\ sendCh'[j] = <<d, r>>
      BY <2>3
    <3>2. /\ i + 1 \in DOMAIN sendCh /\ j + 1 \in DOMAIN sendCh /\ i + 1 < j + 1
          /\ sendCh[i + 1] = <<d, q>> /\ sendCh[j + 1] = <<d, r>>
      BY <1>1, <3>1
    <3>3. QED
      BY <3>2 DEF SentAfter
  <2>4. QED
    BY <1>5, <2>1, <2>2, <2>3 DEF SentAfter
<1>6. QED
  BY <1>1, <1>2, <1>4, <1>5

\* What is dropped from the channel is not replaced.
LEMMA DroppedAfter ==
    ASSUME SessionTypeOK, Drops
    PROVE  /\ sendCh' \in Seq(Cmd \X Payload)
           /\ Len(sendCh') <= Len(sendCh)
           /\ \A d \in Cmd, q \in Payload :
                 Said(wire', sendCh', d, q) => Said(wire, sendCh, d, q)
           /\ \A d \in Cmd, q, r \in Payload :
                 SentAfter(d, q, r)' => SentAfter(d, q, r)
<1>1. wire' = wire /\ sendCh \in Seq(Cmd \X Payload)
  BY DEF Drops, SessionTypeOK
<1>2. CASE sendCh' = <<>>
  <2>1. /\ sendCh' \in Seq(Cmd \X Payload)
        /\ Len(sendCh') <= Len(sendCh)
        /\ DOMAIN sendCh' = {}
    BY <1>1, <1>2, SMTT(30)
  <2>2. QED
    BY <1>1, <2>1, ZenonT(60) DEF Said, SentAfter, Range
<1>3. CASE sendCh # <<>> /\ sendCh' = Tail(sendCh)
  <2>1. Shorter(Cmd \X Payload, sendCh', sendCh)
    BY <1>1, <1>3, TailElements
  <2>2. \A e : e \in Range(sendCh') => e \in Range(sendCh)
    BY <2>1, ShorterRange
  <2>3. ASSUME NEW d \in Cmd, NEW q \in Payload, NEW r \in Payload,
               NEW i \in DOMAIN sendCh', NEW j \in DOMAIN sendCh',
               i < j /\ sendCh'[i] = <<d, q>> /\ sendCh'[j] = <<d, r>>
        PROVE  SentAfter(d, q, r)
    <3>1. /\ i + 1 \in DOMAIN sendCh /\ j + 1 \in DOMAIN sendCh /\ i + 1 < j + 1
          /\ sendCh[i + 1] = <<d, q>> /\ sendCh[j + 1] = <<d, r>>
      BY <2>1, <2>3 DEF Shorter
    <3>2. QED
      BY <3>1 DEF SentAfter
  <2>4. ASSUME NEW d \in Cmd, NEW q \in Payload, NEW r \in Payload,
               SentAfter(d, q, r)'
        PROVE  SentAfter(d, q, r)
    BY <1>1, <2>2, <2>3, <2>4 DEF SentAfter
  <2>5. QED
    BY <1>1, <2>1, <2>2, <2>4 DEF Said, Shorter
<1>4. QED
  BY <1>2, <1>3 DEF Drops

-----------------------------------------------------------------------------

\* The channel and the stream keep their types.
LEMMA ChannelTyped ==
    ASSUME SessionTypeOK, [SessionNext]_sessionVars
    PROVE  /\ sendCh' \in Seq(Cmd \X Payload)
           /\ Len(sendCh') <= QueueDepth
           /\ wire' \in [Cmd -> Seq(Payload)]
<1>1. /\ sendCh \in Seq(Cmd \X Payload)
      /\ Len(sendCh) <= QueueDepth
      /\ wire \in [Cmd -> Seq(Payload)]
      /\ QueueDepth \in Nat
  BY DepthAssumption DEF SessionTypeOK
<1>2. Len(sendCh) \in Nat
  BY ONLY <1>1, SMTT(30)
<1>3. ASSUME NEW s \in Seq(Cmd \X Payload), Len(s) <= Len(sendCh)
      PROVE  Len(s) <= QueueDepth
  <2>1. Len(s) \in Nat
    BY ONLY s \in Seq(Cmd \X Payload), SMTT(30)
  <2>2. QED
    BY ONLY <1>1, <1>2, <1>3, <2>1, SMTT(30)
<1>4. ASSUME NEW c \in Cmd, NEW p \in Payload, Queues(c, p)
      PROVE  /\ sendCh' \in Seq(Cmd \X Payload)
             /\ Len(sendCh') <= QueueDepth
             /\ wire' = wire
  <2>1. /\ sendCh' \in Seq(Cmd \X Payload)
        /\ Len(sendCh') = Len(sendCh) + 1
    BY <1>4, QueuedSaid
  <2>2. Len(sendCh) < QueueDepth /\ wire' = wire
    BY <1>4 DEF Queues
  <2>3. Len(sendCh) + 1 <= QueueDepth
    BY ONLY <1>1, <1>2, <2>2, SMTT(30)
  <2>4. QED
    BY <2>1, <2>2, <2>3
<1>5. CASE Writes
  BY <1>3, <1>5, WrittenAfter
<1>6. CASE Drops
  BY <1>1, <1>3, <1>6, DroppedAfter DEF Drops
<1>7. QED
  BY <1>1, <1>4, <1>5, <1>6, Channel DEF ChannelSteps

\* The types are kept.
LEMMA SessionTypeStep ==
    ASSUME SessionTypeOK, [SessionNext]_sessionVars
    PROVE  SessionTypeOK'
<1>b. /\ sendCh' \in Seq(Cmd \X Payload)
      /\ Len(sendCh') <= QueueDepth
      /\ wire' \in [Cmd -> Seq(Payload)]
  BY ChannelTyped
<1>a. Timed \subseteq Cmd
  BY CommandAssumption
<1> USE DEF SessionTypeOK, workerVars, ctxVars, endVars
<1>1. ASSUME NEW c \in Cmd, startShellCommand(c) PROVE SessionTypeOK'
  BY <1>1, <1>a, <1>b, ZenonT(60) DEF startShellCommand
<1>2. ASSUME NEW c \in Cmd, routeCloseStdin(c) PROVE SessionTypeOK'
  BY <1>2, <1>a, <1>b, ZenonT(60) DEF routeCloseStdin
<1>3. ASSUME NEW c \in Cmd, Spawn(c) PROVE SessionTypeOK'
  BY <1>3, <1>a, <1>b, ZenonT(60) DEF Spawn
<1>4. ASSUME NEW c \in Cmd, Started(c) PROVE SessionTypeOK'
  BY <1>4, <1>a, <1>b, ZenonT(60) DEF Started
<1>5. ASSUME NEW c \in Cmd, Killed(c) PROVE SessionTypeOK'
  BY <1>5, <1>a, <1>b, ZenonT(60) DEF Killed, ProcessExits
<1>6. ASSUME NEW c \in Cmd, CmdWait(c) PROVE SessionTypeOK'
  BY <1>6, <1>a, <1>b, ZenonT(60) DEF CmdWait
<1>7. ASSUME NEW c \in Cmd, StageExit(c) PROVE SessionTypeOK'
  BY <1>7, <1>a, <1>b, ZenonT(60) DEF StageExit
<1>8. ASSUME NEW c \in Cmd, drainOutput(c) PROVE SessionTypeOK'
  <2>1. \E v \in {"more", "done", "broken"} : drainer' = [drainer EXCEPT ![c] = v]
    BY <1>8 DEF drainOutput
  <2>2. drainer' \in [Cmd -> {"none", "first", "more", "done", "broken"}]
    BY <2>1
  <2>3. QED
    BY <1>8, <1>a, <1>b, <2>2, ZenonT(60) DEF drainOutput
<1>9. ASSUME NEW c \in Cmd, Decide(c) PROVE SessionTypeOK'
  BY <1>9, <1>a, <1>b, ZenonT(60) DEF Decide
<1>10. ASSUME NEW c \in Cmd, FinishTimeout(c) PROVE SessionTypeOK'
  BY <1>10, <1>a, <1>b, ZenonT(60) DEF FinishTimeout
<1>11. ASSUME NEW c \in Cmd, FinishDone(c) PROVE SessionTypeOK'
  <2>1. /\ worker' \in [Cmd -> {"new", "spawn", "started", "run", "timeout",
                               "finish", "stop", "exit", "ended"}]
        /\ cancelled' \subseteq Cmd
    BY <1>11 DEF FinishDone
  <2>2. QED
    BY <1>11, <1>a, <1>b, <2>1, ZenonT(60) DEF FinishDone
<1>12. ASSUME NEW c \in Cmd, StopReturns(c) PROVE SessionTypeOK'
  BY <1>12, <1>a, <1>b, ZenonT(60) DEF StopReturns
<1>13. ASSUME NEW c \in Cmd, RequestExit(c) PROVE SessionTypeOK'
  BY <1>13, <1>a, <1>b, ZenonT(60) DEF RequestExit
<1>14. ASSUME NEW c \in Cmd, CmdSpawnFails(c) PROVE SessionTypeOK'
  BY <1>14, <1>a, <1>b, ZenonT(60) DEF CmdSpawnFails
<1>15. ASSUME NEW c \in Cmd, Timeout(c) PROVE SessionTypeOK'
  BY <1>15, <1>a, <1>b, ZenonT(60) DEF Timeout
<1>16. ASSUME NEW c \in Cmd, ProcessExits(c) PROVE SessionTypeOK'
  BY <1>16, <1>a, <1>b, ZenonT(60) DEF ProcessExits
<1>17. ASSUME runReceiverEnds PROVE SessionTypeOK'
  BY <1>17, <1>a, <1>b, ZenonT(60) DEF runReceiverEnds
<1>18. ASSUME StopBegins PROVE SessionTypeOK'
  BY <1>18, <1>a, <1>b, ZenonT(60) DEF StopBegins, RunningCmd, Registered
<1>19. ASSUME SessionStopEnds PROVE SessionTypeOK'
  BY <1>19, <1>a, <1>b, ZenonT(60) DEF SessionStopEnds
<1>20. ASSUME ForceClose PROVE SessionTypeOK'
  BY <1>20, <1>a, <1>b, ZenonT(60) DEF ForceClose
<1>21. ASSUME runSender PROVE SessionTypeOK'
  BY <1>21, <1>a, <1>b, ZenonT(60) DEF runSender
<1>22. ASSUME drainAndSend PROVE SessionTypeOK'
  BY <1>22, <1>a, <1>b, ZenonT(60) DEF drainAndSend
<1>23. ASSUME SenderDiscards PROVE SessionTypeOK'
  BY <1>23, <1>a, <1>b, ZenonT(60) DEF SenderDiscards
<1>24. ASSUME StreamEnds PROVE SessionTypeOK'
  BY <1>24, <1>a, <1>b, ZenonT(60) DEF StreamEnds
<1>25. CASE UNCHANGED sessionVars
  BY <1>b, <1>25, ZenonT(60) DEF sessionVars
<1> HIDE DEF SessionTypeOK, workerVars, ctxVars, endVars
<1>26. QED
  BY <1>1, <1>2, <1>3, <1>4, <1>5, <1>6, <1>7, <1>8, <1>9, <1>10, <1>11,
     <1>12, <1>13, <1>14, <1>15, <1>16, <1>17, <1>18, <1>19, <1>20, <1>21,
     <1>22, <1>23, <1>24, <1>25
     DEF SessionNext, Worker, Session

\* Reaper and drainer keep to the worker's phases.
LEMMA PhasesStep ==
    ASSUME SessionTypeOK, Phases, [SessionNext]_sessionVars
    PROVE  Phases'
<1> USE DEF SessionTypeOK, Phases, workerVars, ctxVars, endVars
<1>1. ASSUME NEW c \in Cmd, startShellCommand(c) PROVE Phases'
  BY <1>1 DEF startShellCommand
<1>2. ASSUME NEW c \in Cmd, routeCloseStdin(c) PROVE Phases'
  BY <1>2 DEF routeCloseStdin
<1>3. ASSUME NEW c \in Cmd, Spawn(c) PROVE Phases'
  BY <1>3 DEF Spawn
<1>4. ASSUME NEW c \in Cmd, Started(c) PROVE Phases'
  BY <1>4 DEF Started
<1>5. ASSUME NEW c \in Cmd, Killed(c) PROVE Phases'
  BY <1>5 DEF Killed, ProcessExits
<1>6. ASSUME NEW c \in Cmd, CmdWait(c) PROVE Phases'
  BY <1>6 DEF CmdWait
<1>7. ASSUME NEW c \in Cmd, StageExit(c) PROVE Phases'
  BY <1>7 DEF StageExit
<1>8. ASSUME NEW c \in Cmd, drainOutput(c) PROVE Phases'
  BY <1>8, ZenonT(60) DEF drainOutput
<1>9. ASSUME NEW c \in Cmd, Decide(c) PROVE Phases'
  BY <1>9 DEF Decide
<1>10. ASSUME NEW c \in Cmd, FinishTimeout(c) PROVE Phases'
  BY <1>10 DEF FinishTimeout
<1>11. ASSUME NEW c \in Cmd, FinishDone(c) PROVE Phases'
  BY <1>11, ZenonT(60) DEF FinishDone
<1>12. ASSUME NEW c \in Cmd, StopReturns(c) PROVE Phases'
  BY <1>12 DEF StopReturns
<1>13. ASSUME NEW c \in Cmd, RequestExit(c) PROVE Phases'
  BY <1>13 DEF RequestExit
<1>14. ASSUME NEW c \in Cmd, CmdSpawnFails(c) PROVE Phases'
  BY <1>14 DEF CmdSpawnFails
<1>15. ASSUME NEW c \in Cmd, Timeout(c) PROVE Phases'
  BY <1>15 DEF Timeout
<1>16. ASSUME NEW c \in Cmd, ProcessExits(c) PROVE Phases'
  BY <1>16 DEF ProcessExits
<1>17. ASSUME runReceiverEnds PROVE Phases'
  BY <1>17 DEF runReceiverEnds
<1>18. ASSUME StopBegins PROVE Phases'
  BY <1>18 DEF StopBegins
<1>19. ASSUME SessionStopEnds PROVE Phases'
  BY <1>19 DEF SessionStopEnds
<1>20. ASSUME ForceClose PROVE Phases'
  BY <1>20 DEF ForceClose
<1>21. ASSUME runSender PROVE Phases'
  BY <1>21 DEF runSender
<1>22. ASSUME drainAndSend PROVE Phases'
  BY <1>22 DEF drainAndSend
<1>23. ASSUME SenderDiscards PROVE Phases'
  BY <1>23 DEF SenderDiscards
<1>24. ASSUME StreamEnds PROVE Phases'
  BY <1>24 DEF StreamEnds
<1>25. CASE UNCHANGED sessionVars
  BY <1>25 DEF sessionVars
<1> HIDE DEF SessionTypeOK, Phases, workerVars, ctxVars, endVars
<1>26. QED
  BY <1>1, <1>2, <1>3, <1>4, <1>5, <1>6, <1>7, <1>8, <1>9, <1>10, <1>11,
     <1>12, <1>13, <1>14, <1>15, <1>16, <1>17, <1>18, <1>19, <1>20, <1>21,
     <1>22, <1>23, <1>24, <1>25
     DEF SessionNext, Worker, Session

\* A worker past its last send stays there; a broken drainer stays broken.
LEMMA Staying ==
    ASSUME SessionTypeOK, Phases, [SessionNext]_sessionVars, NEW d \in Cmd
    PROVE  /\ worker[d] \in {"stop", "exit", "ended"}
                 => worker'[d] \in {"stop", "exit", "ended"}
           /\ worker[d] = "ended" => worker'[d] = "ended"
           /\ drainer[d] = "broken" => drainer'[d] = "broken"
<1> DEFINE Stays == /\ worker[d] \in {"stop", "exit", "ended"}
                          => worker'[d] \in {"stop", "exit", "ended"}
                    /\ worker[d] = "ended" => worker'[d] = "ended"
                    /\ drainer[d] = "broken" => drainer'[d] = "broken"
<1> USE DEF SessionTypeOK, workerVars, ctxVars, endVars
<1>1. ASSUME NEW c \in Cmd, startShellCommand(c) PROVE Stays
  BY <1>1 DEF startShellCommand
<1>2. ASSUME NEW c \in Cmd, routeCloseStdin(c) PROVE Stays
  BY <1>2 DEF routeCloseStdin
<1>3. ASSUME NEW c \in Cmd, Spawn(c) PROVE Stays
  BY <1>3 DEF Spawn
<1>4. ASSUME NEW c \in Cmd, Started(c) PROVE Stays
  BY <1>4 DEF Started, Phases
<1>5. ASSUME NEW c \in Cmd, Killed(c) PROVE Stays
  BY <1>5 DEF Killed, ProcessExits
<1>6. ASSUME NEW c \in Cmd, CmdWait(c) PROVE Stays
  BY <1>6 DEF CmdWait
<1>7. ASSUME NEW c \in Cmd, StageExit(c) PROVE Stays
  BY <1>7 DEF StageExit
<1>8. ASSUME NEW c \in Cmd, drainOutput(c) PROVE Stays
  BY <1>8 DEF drainOutput
<1>9. ASSUME NEW c \in Cmd, Decide(c) PROVE Stays
  BY <1>9 DEF Decide
<1>10. ASSUME NEW c \in Cmd, FinishTimeout(c) PROVE Stays
  BY <1>10 DEF FinishTimeout
<1>11. ASSUME NEW c \in Cmd, FinishDone(c) PROVE Stays
  BY <1>11 DEF FinishDone
<1>12. ASSUME NEW c \in Cmd, StopReturns(c) PROVE Stays
  BY <1>12 DEF StopReturns
<1>13. ASSUME NEW c \in Cmd, RequestExit(c) PROVE Stays
  BY <1>13 DEF RequestExit
<1>14. ASSUME NEW c \in Cmd, CmdSpawnFails(c) PROVE Stays
  BY <1>14 DEF CmdSpawnFails
<1>15. ASSUME NEW c \in Cmd, Timeout(c) PROVE Stays
  BY <1>15 DEF Timeout
<1>16. ASSUME NEW c \in Cmd, ProcessExits(c) PROVE Stays
  BY <1>16 DEF ProcessExits
<1>17. ASSUME runReceiverEnds PROVE Stays
  BY <1>17 DEF runReceiverEnds
<1>18. ASSUME StopBegins PROVE Stays
  BY <1>18 DEF StopBegins
<1>19. ASSUME SessionStopEnds PROVE Stays
  BY <1>19 DEF SessionStopEnds
<1>20. ASSUME ForceClose PROVE Stays
  BY <1>20 DEF ForceClose
<1>21. ASSUME runSender PROVE Stays
  BY <1>21 DEF runSender
<1>22. ASSUME drainAndSend PROVE Stays
  BY <1>22 DEF drainAndSend
<1>23. ASSUME SenderDiscards PROVE Stays
  BY <1>23 DEF SenderDiscards
<1>24. ASSUME StreamEnds PROVE Stays
  BY <1>24 DEF StreamEnds
<1>25. CASE UNCHANGED sessionVars
  BY <1>25 DEF sessionVars
<1> HIDE DEF SessionTypeOK, workerVars, ctxVars, endVars
<1>26. QED
  BY <1>1, <1>2, <1>3, <1>4, <1>5, <1>6, <1>7, <1>8, <1>9, <1>10, <1>11,
     <1>12, <1>13, <1>14, <1>15, <1>16, <1>17, <1>18, <1>19, <1>20, <1>21,
     <1>22, <1>23, <1>24, <1>25
     DEF SessionNext, Worker, Session
-----------------------------------------------------------------------------

\* A Response that can follow a terminal one is not from the worker of its
\* command, its reaper or its drainer: those have finished.
LEMMA LastWord ==
    ASSUME Phases, NEW c \in Cmd, NEW p \in Payload, Speaks(c, p),
           worker[c] \in {"stop", "exit", "ended"}
    PROVE  p = "unknown"
<1>1. stageReaper[c] \in {"none", "done"} /\ drainer[c] \in {"none", "done", "broken"}
  BY DEF Phases
<1>2. QED
  BY <1>1 DEF Speaks

\* A terminal Response is sent by a worker that then stops sending, or by a
\* drainer that breaks.
LEMMA FirstWord ==
    ASSUME NEW c \in Cmd, NEW t \in Terminal, Speaks(c, t)
    PROVE  worker'[c] \in {"stop", "exit", "ended"} \/ drainer'[c] = "broken"
<1>1. t = "Done" \/ t = "Error"
  BY DEF Terminal
<1>2. QED
  BY <1>1 DEF Speaks

\* Who has sent a terminal Response stays past its last send.
LEMMA SpokenStep ==
    ASSUME SessionTypeOK, Phases, Spoken, [SessionNext]_sessionVars
    PROVE  Spoken'
<1> SUFFICES ASSUME NEW d \in Cmd, NEW t \in Terminal,
                    Said(wire', sendCh', d, t), drainer'[d] # "broken"
             PROVE  worker'[d] \in {"stop", "exit", "ended"}
  BY DEF Spoken, Said, Terminal
<1>1. t \in Payload
  BY DEF Terminal, Payload
<1>2. CASE Said(wire, sendCh, d, t)
  BY <1>2, Staying DEF Spoken
<1>3. CASE \E c \in Cmd, p \in Payload : Queues(c, p)
  <2>1. PICK c \in Cmd, p \in Payload : Queues(c, p)
    BY <1>3
  <2>2. CASE d = c /\ t = p
    BY <2>1, <2>2, FirstWord DEF Queues
  <2>3. CASE ~(d = c /\ t = p)
    <3>1. <<d, t>> # <<c, p>>
      BY <2>3, SMTT(30)
    <3>2. Said(wire, sendCh, d, t)
      BY <2>1, <3>1, QueuedSaid DEF Said, Queues
    <3>3. QED
      BY <1>2, <3>2
  <2>4. QED
    BY <2>2, <2>3
<1>4. CASE Writes
  BY <1>1, <1>2, <1>4, WrittenAfter
<1>5. CASE Drops
  BY <1>1, <1>2, <1>5, DroppedAfter
<1>6. CASE UNCHANGED <<wire, sendCh>>
  BY <1>2, <1>6
<1>7. QED
  BY <1>3, <1>4, <1>5, <1>6, Channel DEF ChannelSteps

\* A terminal Response stays the last.
LEMMA LastStep ==
    ASSUME SessionTypeOK, Phases, Spoken, TerminalIsLast,
           [SessionNext]_sessionVars
    PROVE  TerminalIsLast'
<1> SUFFICES ASSUME NEW d \in Cmd, NEW t \in Terminal, NEW r \in Payload,
                    SentAfter(d, t, r)', drainer'[d] # "broken"
             PROVE  r = "unknown"
  BY DEF TerminalIsLast, Terminal, Payload
<1>1. t \in Payload /\ drainer[d] # "broken"
  BY Staying DEF Terminal, Payload
<1>2. CASE SentAfter(d, t, r)
  BY <1>1, <1>2 DEF TerminalIsLast
<1>3. CASE \E c \in Cmd, p \in Payload : Queues(c, p)
  <2>1. PICK c \in Cmd, p \in Payload : Queues(c, p)
    BY <1>3
  <2>2. CASE d = c /\ r = p /\ Said(wire, sendCh, d, t)
    <3>1. worker[c] \in {"stop", "exit", "ended"}
      BY <1>1, <2>2 DEF Spoken
    <3>2. QED
      BY <2>1, <2>2, <3>1, LastWord DEF Queues
  <2>3. QED
    BY <1>1, <1>2, <2>1, <2>2, QueuedAfter
<1>4. CASE Writes
  BY <1>1, <1>2, <1>4, WrittenAfter
<1>5. CASE Drops
  BY <1>1, <1>2, <1>5, DroppedAfter
<1>6. CASE UNCHANGED <<wire, sendCh>>
  BY <1>2, <1>6 DEF SentAfter
<1>7. QED
  BY <1>3, <1>4, <1>5, <1>6, Channel DEF ChannelSteps

\* Stop, the session's ctx and the sender keep in step.
LEMMA StoppingStep ==
    ASSUME SessionTypeOK, Stopping, [SessionNext]_sessionVars
    PROVE  Stopping'
<1>a. None # "session" /\ None \notin Cmd /\ "session" \notin Cmd /\ Fatal \subseteq Cmd
  BY NoneAssumption, CommandAssumption
<1> USE DEF SessionTypeOK, Stopping, workerVars, ctxVars, endVars
<1>1. ASSUME NEW c \in Cmd, startShellCommand(c) PROVE Stopping'
  BY <1>1, <1>a DEF startShellCommand
<1>2. ASSUME NEW c \in Cmd, routeCloseStdin(c) PROVE Stopping'
  BY <1>2, <1>a DEF routeCloseStdin
<1>3. ASSUME NEW c \in Cmd, Spawn(c) PROVE Stopping'
  BY <1>3, <1>a DEF Spawn
<1>4. ASSUME NEW c \in Cmd, Started(c) PROVE Stopping'
  BY <1>4, <1>a DEF Started
<1>5. ASSUME NEW c \in Cmd, Killed(c) PROVE Stopping'
  BY <1>5, <1>a DEF Killed, ProcessExits
<1>6. ASSUME NEW c \in Cmd, CmdWait(c) PROVE Stopping'
  BY <1>6, <1>a DEF CmdWait
<1>7. ASSUME NEW c \in Cmd, StageExit(c) PROVE Stopping'
  BY <1>7, <1>a DEF StageExit
<1>8. ASSUME NEW c \in Cmd, drainOutput(c) PROVE Stopping'
  BY <1>8, <1>a DEF drainOutput
<1>9. ASSUME NEW c \in Cmd, Decide(c) PROVE Stopping'
  BY <1>9, <1>a DEF Decide
<1>10. ASSUME NEW c \in Cmd, FinishTimeout(c) PROVE Stopping'
  BY <1>10, <1>a DEF FinishTimeout
<1>11. ASSUME NEW c \in Cmd, FinishDone(c) PROVE Stopping'
  <2>1. \A d \in Cmd : /\ d # c => worker'[d] = worker[d]
                      /\ worker'[c] \in {"stop", "ended"} /\ worker[c] = "finish"
    BY <1>11 DEF FinishDone
  <2>2. UNCHANGED <<stop, stopper, exited, stream, ctxDone, sender, timedOut>>
    BY <1>11 DEF FinishDone
  <2>3. \/ cancelled' = cancelled
        \/ cancelled' = cancelled \cup {c} /\ worker'[c] = "ended"
    BY <1>11 DEF FinishDone
  <2>4. stop' = "no" => \A d \in cancelled' : d \in timedOut' \/ worker'[d] = "ended"
    <3>1. SUFFICES ASSUME stop = "no", NEW d \in cancelled', d # c \/ cancelled' = cancelled
                   PROVE  d \in timedOut \/ worker'[d] = "ended"
      BY <2>2, <2>3
    <3>2. d \in cancelled /\ d \in Cmd
      BY <2>3, <3>1, ZenonT(60)
    <3>3. d \in timedOut \/ worker[d] = "ended"
      BY <3>1, <3>2
    <3>4. QED
      BY <2>1, <3>2, <3>3
  <2>5. stopper' \in Cmd => worker'[stopper'] \in {"stop", "exit", "ended"}
    BY <2>1, <2>2
  <2>6. \A d \in Cmd : worker'[d] = "exit" => stop' \in {"done", "late"}
    BY <2>1, <2>2
  <2>7. QED
    BY <2>2, <2>4, <2>5, <2>6
<1>12. ASSUME NEW c \in Cmd, StopReturns(c) PROVE Stopping'
  BY <1>12, <1>a DEF StopReturns
<1>13. ASSUME NEW c \in Cmd, RequestExit(c) PROVE Stopping'
  BY <1>13, <1>a DEF RequestExit
<1>14. ASSUME NEW c \in Cmd, CmdSpawnFails(c) PROVE Stopping'
  BY <1>14, <1>a DEF CmdSpawnFails
<1>15. ASSUME NEW c \in Cmd, Timeout(c) PROVE Stopping'
  BY <1>15, <1>a DEF Timeout
<1>16. ASSUME NEW c \in Cmd, ProcessExits(c) PROVE Stopping'
  BY <1>16, <1>a DEF ProcessExits
<1>17. ASSUME runReceiverEnds PROVE Stopping'
  BY <1>17, <1>a DEF runReceiverEnds
<1>18. ASSUME StopBegins PROVE Stopping'
  <2>1. /\ stop = "no" /\ stop' = "draining"
        /\ UNCHANGED <<worker, exited, stream, ctxDone, sender, timedOut>>
    BY <1>18 DEF StopBegins
  <2>2. stopper' = "session" \/ (stopper' \in Cmd /\ worker[stopper'] = "stop")
    BY <1>18 DEF StopBegins
  <2>3. stopper' # None
    BY <1>a, <2>2
  <2>4. stopper' \in Cmd => worker'[stopper'] \in {"stop", "exit", "ended"}
    BY <1>a, <2>1, <2>2
  <2>5. QED
    BY <2>1, <2>3, <2>4
<1>19. ASSUME SessionStopEnds PROVE Stopping'
  BY <1>19, <1>a DEF SessionStopEnds
<1>20. ASSUME ForceClose PROVE Stopping'
  BY <1>20, <1>a DEF ForceClose, Broken
<1>21. ASSUME runSender PROVE Stopping'
  <2>1. CASE UNCHANGED <<sender, ctxDone>>
    BY <1>21, <2>1 DEF runSender
  <2>2. CASE stream \in {"broken", "down"} /\ ctxDone' = TRUE /\ sender' = "ended"
    <3>1. UNCHANGED <<worker, exited, stream, stop, stopper, timedOut, cancelled>>
      BY <1>21 DEF runSender
    <3>2. stream # "broken" => stop \in {"done", "late"}
      BY <2>2
    <3>3. QED
      BY <2>2, <3>1, <3>2
  <2>3. QED
    BY <1>21, <2>1, <2>2 DEF runSender, Broken
<1>22. ASSUME drainAndSend PROVE Stopping'
  BY <1>22, <1>a DEF drainAndSend
<1>23. ASSUME SenderDiscards PROVE Stopping'
  BY <1>23, <1>a DEF SenderDiscards, Broken
<1>24. ASSUME StreamEnds PROVE Stopping'
  BY <1>24, <1>a DEF StreamEnds
<1>25. CASE UNCHANGED sessionVars
  BY <1>25 DEF sessionVars
<1> HIDE DEF SessionTypeOK, Stopping, workerVars, ctxVars, endVars
<1>26. QED
  BY <1>1, <1>2, <1>3, <1>4, <1>5, <1>6, <1>7, <1>8, <1>9, <1>10, <1>11,
     <1>12, <1>13, <1>14, <1>15, <1>16, <1>17, <1>18, <1>19, <1>20, <1>21,
     <1>22, <1>23, <1>24, <1>25
     DEF SessionNext, Worker, Session
-----------------------------------------------------------------------------

\* A worker comes to owe its Done by finishing.
LEMMA OwesStep ==
    ASSUME SessionTypeOK, Stopping, [SessionNext]_sessionVars,
           NEW d \in Cmd, Owes(d)'
    PROVE  Owes(d) \/ (FinishDone(d) /\ stop = "no")
<1>a. None # "session" /\ None \notin Cmd /\ "session" \notin Cmd
  BY NoneAssumption
<1> DEFINE Owed == Owes(d) \/ (FinishDone(d) /\ stop = "no")
<1> USE DEF SessionTypeOK, Owes, workerVars, ctxVars, endVars
<1>1. ASSUME NEW c \in Cmd, startShellCommand(c) PROVE Owed
  BY <1>1, <1>a DEF startShellCommand
<1>2. ASSUME NEW c \in Cmd, routeCloseStdin(c) PROVE Owed
  BY <1>2, <1>a DEF routeCloseStdin
<1>3. ASSUME NEW c \in Cmd, Spawn(c) PROVE Owed
  BY <1>3, <1>a DEF Spawn
<1>4. ASSUME NEW c \in Cmd, Started(c) PROVE Owed
  BY <1>4, <1>a DEF Started
<1>5. ASSUME NEW c \in Cmd, Killed(c) PROVE Owed
  BY <1>5, <1>a DEF Killed, ProcessExits
<1>6. ASSUME NEW c \in Cmd, CmdWait(c) PROVE Owed
  BY <1>6, <1>a DEF CmdWait
<1>7. ASSUME NEW c \in Cmd, StageExit(c) PROVE Owed
  BY <1>7, <1>a DEF StageExit
<1>8. ASSUME NEW c \in Cmd, drainOutput(c) PROVE Owed
  BY <1>8, <1>a DEF drainOutput
<1>9. ASSUME NEW c \in Cmd, Decide(c) PROVE Owed
  BY <1>9, <1>a DEF Decide
<1>10. ASSUME NEW c \in Cmd, FinishTimeout(c) PROVE Owed
  BY <1>10, <1>a DEF FinishTimeout
<1>11. ASSUME NEW c \in Cmd, FinishDone(c) PROVE Owed
  <2>1. CASE c = d
    <3>1. stopper # d
      BY <1>11, <2>1 DEF FinishDone, Stopping
    <3>2. stop = "no"
      BY <1>11, <3>1 DEF FinishDone
    <3>3. QED
      BY <1>11, <2>1, <3>2
  <2>2. CASE c # d
    BY <1>11, <2>2 DEF FinishDone
  <2>3. QED
    BY <2>1, <2>2
<1>12. ASSUME NEW c \in Cmd, StopReturns(c) PROVE Owed
  BY <1>12, <1>a DEF StopReturns
<1>13. ASSUME NEW c \in Cmd, RequestExit(c) PROVE Owed
  BY <1>13, <1>a DEF RequestExit
<1>14. ASSUME NEW c \in Cmd, CmdSpawnFails(c) PROVE Owed
  BY <1>14, <1>a DEF CmdSpawnFails
<1>15. ASSUME NEW c \in Cmd, Timeout(c) PROVE Owed
  BY <1>15, <1>a DEF Timeout
<1>16. ASSUME NEW c \in Cmd, ProcessExits(c) PROVE Owed
  BY <1>16, <1>a DEF ProcessExits
<1>17. ASSUME runReceiverEnds PROVE Owed
  BY <1>17, <1>a DEF runReceiverEnds
<1>18. ASSUME StopBegins PROVE Owed
  <2>1. stop = "no" /\ UNCHANGED <<worker, timedOut, stream>>
    BY <1>18 DEF StopBegins
  <2>2. stopper' = "session" \/ worker[stopper'] = "stop"
    BY <1>18 DEF StopBegins
  <2>3. stopper' = d
    BY <1>18 DEF StopBegins
  <2>4. QED
    BY <1>a, <2>1, <2>2, <2>3
<1>19. ASSUME SessionStopEnds PROVE Owed
  BY <1>19, <1>a DEF SessionStopEnds
<1>20. ASSUME ForceClose PROVE Owed
  BY <1>20, <1>a DEF ForceClose, Broken
<1>21. ASSUME runSender PROVE Owed
  BY <1>21, <1>a DEF runSender
<1>22. ASSUME drainAndSend PROVE Owed
  BY <1>22, <1>a DEF drainAndSend
<1>23. ASSUME SenderDiscards PROVE Owed
  BY <1>23, <1>a DEF SenderDiscards
<1>24. ASSUME StreamEnds PROVE Owed
  BY <1>24, <1>a DEF StreamEnds
<1>25. CASE UNCHANGED sessionVars
  BY <1>25 DEF sessionVars
<1> HIDE DEF SessionTypeOK, Owes, workerVars, ctxVars, endVars
<1>26. QED
  BY <1>1, <1>2, <1>3, <1>4, <1>5, <1>6, <1>7, <1>8, <1>9, <1>10, <1>11,
     <1>12, <1>13, <1>14, <1>15, <1>16, <1>17, <1>18, <1>19, <1>20, <1>21,
     <1>22, <1>23, <1>24, <1>25
     DEF SessionNext, Worker, Session

\* The sender returns on a dead stream or ctx, or with the channel empty.
LEMMA SenderReturns ==
    ASSUME SessionTypeOK, [SessionNext]_sessionVars, sender # "ended", sender' = "ended"
    PROVE  \/ ctxDone \/ Broken
           \/ sendCh = <<>> /\ UNCHANGED <<wire, sendCh>>
<1> DEFINE Returns == \/ ctxDone \/ Broken
                      \/ sendCh = <<>> /\ UNCHANGED <<wire, sendCh>>
<1>1. ASSUME NEW c \in Cmd, startShellCommand(c) PROVE Returns
  BY <1>1 DEF startShellCommand
<1>2. ASSUME NEW c \in Cmd, routeCloseStdin(c) PROVE Returns
  BY <1>2 DEF routeCloseStdin
<1>3. ASSUME NEW c \in Cmd, Spawn(c) PROVE Returns
  BY <1>3 DEF Spawn
<1>4. ASSUME NEW c \in Cmd, Started(c) PROVE Returns
  BY <1>4 DEF Started
<1>5. ASSUME NEW c \in Cmd, Killed(c) PROVE Returns
  BY <1>5 DEF Killed, ProcessExits
<1>6. ASSUME NEW c \in Cmd, CmdWait(c) PROVE Returns
  BY <1>6 DEF CmdWait
<1>7. ASSUME NEW c \in Cmd, StageExit(c) PROVE Returns
  BY <1>7 DEF StageExit
<1>8. ASSUME NEW c \in Cmd, drainOutput(c) PROVE Returns
  BY <1>8 DEF drainOutput
<1>9. ASSUME NEW c \in Cmd, Decide(c) PROVE Returns
  BY <1>9 DEF Decide
<1>10. ASSUME NEW c \in Cmd, FinishTimeout(c) PROVE Returns
  BY <1>10 DEF FinishTimeout
<1>11. ASSUME NEW c \in Cmd, FinishDone(c) PROVE Returns
  BY <1>11 DEF FinishDone
<1>12. ASSUME NEW c \in Cmd, StopReturns(c) PROVE Returns
  BY <1>12 DEF StopReturns
<1>13. ASSUME NEW c \in Cmd, RequestExit(c) PROVE Returns
  BY <1>13 DEF RequestExit
<1>14. ASSUME NEW c \in Cmd, CmdSpawnFails(c) PROVE Returns
  BY <1>14 DEF CmdSpawnFails
<1>15. ASSUME NEW c \in Cmd, Timeout(c) PROVE Returns
  BY <1>15 DEF Timeout
<1>16. ASSUME NEW c \in Cmd, ProcessExits(c) PROVE Returns
  BY <1>16 DEF ProcessExits
<1>17. ASSUME runReceiverEnds PROVE Returns
  BY <1>17 DEF runReceiverEnds
<1>18. ASSUME StopBegins PROVE Returns
  BY <1>18 DEF StopBegins
<1>19. ASSUME SessionStopEnds PROVE Returns
  BY <1>19 DEF SessionStopEnds
<1>20. ASSUME ForceClose PROVE Returns
  BY <1>20 DEF ForceClose
<1>21. ASSUME runSender PROVE Returns
  BY <1>21 DEF runSender
<1>22. ASSUME drainAndSend PROVE Returns
  BY <1>22 DEF drainAndSend
<1>23. ASSUME SenderDiscards PROVE Returns
  BY <1>23 DEF SenderDiscards
<1>24. ASSUME StreamEnds PROVE Returns
  BY <1>24 DEF StreamEnds
<1>25. CASE UNCHANGED sessionVars
  BY <1>25 DEF sessionVars
<1>26. QED
  BY <1>1, <1>2, <1>3, <1>4, <1>5, <1>6, <1>7, <1>8, <1>9, <1>10, <1>11,
     <1>12, <1>13, <1>14, <1>15, <1>16, <1>17, <1>18, <1>19, <1>20, <1>21,
     <1>22, <1>23, <1>24, <1>25
     DEF SessionNext, Worker, Session

\* While a worker owes its Done, nothing is dropped.
LEMMA NothingDropped ==
    ASSUME SessionTypeOK, Stopping, NEW d \in Cmd, Owes(d), sender # "ended"
    PROVE  ~ctxDone /\ ~Broken
<1>1. stop # "done"
  BY DEF Stopping
<1>2. stop \notin {"done", "late"} /\ stream # "broken"
  BY <1>1 DEF Owes
<1>3. ~ctxDone /\ stream # "down"
  BY <1>2 DEF Stopping
<1>4. QED
  BY <1>2, <1>3 DEF Broken

\* The Done of a worker that finishes while nothing has been stopped is
\* queued: its ctx is not done.
LEMMA DoneQueued ==
    ASSUME SessionTypeOK, Stopping, NEW d \in Cmd, FinishDone(d), stop = "no",
           Owes(d)'
    PROVE  /\ Said(wire', sendCh', d, "Done")
           /\ sender' # "ended"
<1>1. d \notin timedOut /\ stream # "broken" /\ worker[d] = "finish"
  BY DEF Owes, FinishDone
<1>2. ~ctxDone /\ d \notin cancelled
  BY <1>1 DEF Stopping
<1>3. sendCh' = Append(sendCh, <<d, "Done">>)
  BY <1>2 DEF FinishDone, send, Done
<1>4. <<d, "Done">> \in Range(sendCh')
  <2>1. sendCh \in Seq(Cmd \X Payload) /\ <<d, "Done">> \in Cmd \X Payload
    BY DEF SessionTypeOK, Payload
  <2>2. Longer(Cmd \X Payload, sendCh', sendCh, <<d, "Done">>)
    BY <1>3, <2>1, AppendElements
  <2>3. QED
    BY <2>2, LongerRange
<1>5. sender' # "ended"
  BY <1>1 DEF Stopping, FinishDone
<1>6. QED
  BY <1>4, <1>5 DEF Said

\* What a worker owes stays queued until it is written.
LEMMA FlushedStep ==
    ASSUME SessionTypeOK, Stopping, Flushed,
           [SessionNext]_sessionVars
    PROVE  Flushed'
<1> SUFFICES ASSUME NEW d \in Cmd, Owes(d)'
             PROVE  /\ Said(wire', sendCh', d, "Done")
                    /\ sender' = "ended" => "Done" \in Range(wire'[d])
  BY DEF Flushed, Said
<1>1. "Done" \in Payload
  BY DEF Payload
<1>2. CASE FinishDone(d) /\ stop = "no"
  BY <1>2, DoneQueued
<1>3. CASE Owes(d)
  <2>1. /\ Said(wire, sendCh, d, "Done")
        /\ sender = "ended" => "Done" \in Range(wire[d])
    BY <1>3 DEF Flushed
  <2>2. /\ Said(wire', sendCh', d, "Done")
        /\ "Done" \in Range(wire[d]) => "Done" \in Range(wire'[d])
    <3>1. ASSUME NEW c \in Cmd, NEW p \in Payload, Queues(c, p)
          PROVE  /\ Said(wire', sendCh', d, "Done")
                 /\ "Done" \in Range(wire[d]) => "Done" \in Range(wire'[d])
      BY <2>1, <3>1, QueuedSaid DEF Said, Queues
    <3>2. CASE Writes
      BY <1>1, <2>1, <3>2, WrittenAfter
    <3>3. CASE Drops
      BY <1>3, <3>3, NothingDropped DEF Drops
    <3>4. CASE UNCHANGED <<wire, sendCh>>
      BY <2>1, <3>4
    <3>5. QED
      BY <3>1, <3>2, <3>3, <3>4, Channel DEF ChannelSteps
  <2>3. ASSUME sender # "ended", sender' = "ended"
        PROVE  "Done" \in Range(wire'[d])
    <3>1. sendCh = <<>> /\ UNCHANGED <<wire, sendCh>>
      BY <1>3, <2>3, SenderReturns, NothingDropped
    <3>2. Range(sendCh) = {}
      BY <3>1, SMTT(30) DEF Range
    <3>3. QED
      BY <2>1, <3>1, <3>2 DEF Said
  <2>4. QED
    BY <2>1, <2>2, <2>3
<1>4. QED
  BY <1>2, <1>3, OwesStep

\* SessionInv is an invariant.
LEMMA SessionInductive == SessionSpec => []SessionInv
<1>1. SessionInit => SessionInv
  BY SessionStarts
<1>2. SessionInv /\ [SessionNext]_sessionVars => SessionInv'
  BY SessionTypeStep, PhasesStep, SpokenStep, LastStep, StoppingStep, FlushedStep
     DEF SessionInv
<1>3. QED
  BY <1>1, <1>2, PTL DEF SessionSpec

\* A terminal Response is the last word on its command, however many commands
\* share the channel and however its sends race the stop (runShellCommand,
\* drainOutput, send).
THEOREM TerminalIsLastHolds == SessionSpec => []TerminalIsLast
  BY SessionInductive, PTL DEF SessionInv

\* A fatal command's Done is on the stream before the daemon is asked to exit
\* (runShellCommand, Stop, runSender), unless the stream broke, the grace ran
\* out or its timeout fired.
THEOREM FatalDoneArrivesHolds == SessionSpec => []FatalDoneArrives
<1>1. SessionInv => FatalDoneArrives
  <2> SUFFICES ASSUME SessionInv, NEW c \in Cmd, exited, stopper = c, c \notin timedOut,
                      stream # "broken", stop # "late"
               PROVE  "Done" \in Range(wire[c])
    BY DEF FatalDoneArrives
  <2>1. sender = "ended"
    BY DEF SessionInv, Stopping
  <2>2. QED
    BY <2>1 DEF SessionInv, Flushed, Owes
<1>2. QED
  BY SessionInductive, <1>1, PTL
=============================================================================
