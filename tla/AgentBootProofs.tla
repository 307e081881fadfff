--------------------------- MODULE AgentBootProofs ---------------------------
(***************************************************************************)
(* Proofs about AgentBoot, for any number of lives, Sessions and crashes.  *)
(*                                                                         *)
(* That the user CMD runs only after the whole init plan rests on facts    *)
(* about the Session the control plane is with: while it is up, the steps  *)
(* before the current one have succeeded, and the boot plan is reached     *)
(* only with a finished init plan; once it is down, nothing can be sent on *)
(* it.  A failed step leads to the boot plan only through the end of the   *)
(* container, which takes the Session with it, unless the SIGKILL fails.   *)
(***************************************************************************)
EXTENDS AgentBoot, TLAPS

\* The leaves are first-order unless they name SMT.
USE Zenon

InitDone == Steps(InitPlan) \subseteq finished

\* A Session that is up has its container, and one that is new has nothing to
\* do.  The container KillAfterGrace waits for is the Session's.
Sessions ==
    /\ cp # "dial" => ses # 0
    /\ \A s \in Session : stream[s] = "up" => up
    /\ \A s \in Session : stream[s] = "new" => work[s] = None /\ answer[s] = None
    /\ cp = "grace" /\ StreamUp => waited = life

\* The answer the control plane waits for is that of the step it has sent.
Awaited ==
    /\ cp = "await" /\ plan = "init" /\ answer[ses] = "ok" =>
          Plan[plan][step] \in finished
    /\ StreamUp /\ cp # "await" =>
          work[ses] = None /\ answer[ses] \notin {"ok", "failed"}
    /\ StreamUp /\ cp = "await" =>
          \/ work[ses] = None
          \/ /\ \/ work[ses] = Plan[plan][step]
                \/ Plan[plan][step] = "post-init" /\ work[ses] \in {"hook", "touch"}
             /\ answer[ses] \notin {"ok", "failed"}

\* How far the plans are, as the marker, the acknowledgement, the steps in
\* progress and the control plane's place in its plans tell.
Carried ==
    /\ initMarker \/ ack.initialized \/ ack.cmdRunning => InitDone
    /\ \A s \in Session :
          /\ work[s] \in {"pre-run", "agent-ready"} => InitDone
          /\ work[s] = "agent-initialized" => {"config", "post-init"} \subseteq finished
    /\ StreamUp /\ cp \in {"send", "await"} /\ plan = "init" =>
          \A i \in 1 .. (step - 1) : Plan["init"][i] \in finished
    /\ StreamUp /\ (cp = "boot?" \/ (cp \in {"send", "await"} /\ plan = "boot"))
          => InitDone
    /\ InitFirst

\* Who holds rc.mu, and what that says of the assertion.
Presented ==
    /\ NoReplay
    /\ \A s, t \in Session :
          reg[s] \in {"exchange", "rpc"} /\ reg[t] \in {"exchange", "rpc"} => s = t
    /\ \A s \in Session : reg[s] # "none" => up /\ stream[s] # "new"
    /\ cp = "classify" /\ StreamUp => reg[ses] = "none"
    /\ answeredBy => \A s \in Session : reg[s] # "exchange"
    /\ answeredBy /\ ~consumed /\ up => \E s \in Session : reg[s] = "rpc"

-----------------------------------------------------------------------------
(* The two plans. *)

\* The steps of the plans, spelled out.
LEMMA Plans ==
    /\ DOMAIN Plan = {"init", "boot"}
    /\ Len(Plan["init"]) = 3 /\ Len(Plan["boot"]) = 2
    /\ Plan["init"][1] = "config" /\ Plan["init"][2] = "post-init"
    /\ Plan["init"][3] = "agent-initialized"
    /\ Plan["boot"][1] = "pre-run" /\ Plan["boot"][2] = "agent-ready"
BY DEF Plan, InitPlan, BootPlan

\* The steps of the init plan as a set.
LEMMA InitSteps == Steps(InitPlan) = {"config", "post-init", "agent-initialized"}
BY SMTT(30) DEF Steps, InitPlan

\* The steps of both plans are work, and None is neither work nor an answer.
LEMMA WorkIs ==
    /\ Work = {"config", "post-init", "agent-initialized", "pre-run", "agent-ready",
               "hook", "touch"}
    /\ None \notin Work /\ None \notin Answer
<1>1. Steps(BootPlan) = {"pre-run", "agent-ready"}
  BY SMTT(30) DEF Steps, BootPlan
<1>2. QED
  BY <1>1, InitSteps, NoneAssumption DEF Work

\* The places of the two plans.
LEMMA StepRange ==
    TypeOK => \/ plan = "init" /\ step \in {1, 2, 3}
              \/ plan = "boot" /\ step \in {1, 2}
<1> SUFFICES ASSUME TypeOK
             PROVE  \/ plan = "init" /\ step \in {1, 2, 3}
                    \/ plan = "boot" /\ step \in {1, 2}
  OBVIOUS
<1>1. plan = "init" => step \in 1 .. 3
  BY Plans DEF TypeOK
<1>2. plan = "boot" => step \in 1 .. 2
  BY Plans DEF TypeOK
<1>3. plan \in {"init", "boot"}
  BY Plans DEF TypeOK
<1>4. QED
  BY SMTT(30), <1>1, <1>2, <1>3

\* The step a plan is at is work.
LEMMA StepIsWork == TypeOK => Plan[plan][step] \in Work
BY StepRange, Plans, WorkIs

\* A step of the init plan is none of the boot plan.
LEMMA InitAt ==
    TypeOK /\ plan = "init"
      => Plan[plan][step] \in {"config", "post-init", "agent-initialized"}
BY StepRange, Plans

\* "hook" and "touch" are parts of a step.
LEMMA StepIsWhole == TypeOK => Plan[plan][step] \notin {"hook", "touch"}
BY StepRange, Plans

\* The goroutines of the registration answer on their own stream, if it is up,
\* and not with the answer of a step.
LEMMA RegisterReplies ==
    ASSUME TypeOK, NEW s \in Session,
           RegisterRun(s) \/ ExchangeAnswered(s) \/ ExchangeFails(s) \/ RegisterRPC(s)
    PROVE  /\ answer' \in [Session -> Answer \cup {None}]
           /\ \A t \in Session :
                 \/ answer'[t] = answer[t]
                 \/ stream[t] = "up" /\ answer'[t] \in {"registered", "refused"}
           /\ UNCHANGED <<cpVars, stream, work, finished, life, up, doomed>>
<1>1. \/ UNCHANGED answer
      \/ \E r \in {"registered", "refused"} : Reply(s, r)
  BY DEF RegisterRun, ExchangeAnswered, ExchangeFails, RegisterRPC, Settle
<1>2. UNCHANGED <<cpVars, stream, work, finished, life, up, doomed>>
  BY DEF RegisterRun, ExchangeAnswered, ExchangeFails, RegisterRPC, lifeVars, diskVars
<1>3. answer \in [Session -> Answer \cup {None}]
  BY DEF TypeOK
<1>4. QED
  BY <1>1, <1>2, <1>3 DEF Reply, Open, Answer

\* What a step of a shell handler does to its own stream, and to no other: a
\* reply of success comes with the step among the finished ones.
LEMMA ShellReplies ==
    ASSUME TypeOK, NEW s \in Session, ShellStep(s)
    PROVE  /\ finished \subseteq finished'
           /\ work[s] \in {"config", "pre-run", "post-init", "hook", "touch"}
           /\ \A t \in Session : t # s => work'[t] = work[t] /\ answer'[t] = answer[t]
           /\ \/ /\ work'[s] = None /\ work[s] # "hook"
                 /\ IF stream[s] = "up" THEN answer'[s] = "ok" ELSE answer'[s] = answer[s]
                 /\ IF work[s] = "touch" THEN "post-init" \in finished'
                                         ELSE work[s] \in finished'
              \/ /\ work[s] = "post-init" /\ work'[s] = "hook"
                 /\ answer'[s] = answer[s]
              \/ /\ work[s] = "hook" /\ work'[s] = "touch"
                 /\ answer'[s] = answer[s]
<1> USE DEF TypeOK
<1>1. CASE Succeeds(s) /\ work[s] \in {"config", "pre-run", "post-init"}
  BY <1>1 DEF Succeeds, Reply, Open
<1>2. CASE /\ work[s] = "post-init" /\ work' = [work EXCEPT ![s] = "hook"]
           /\ UNCHANGED <<finished, answer>>
  BY <1>2
<1>3. CASE /\ work[s] = "hook" /\ work' = [work EXCEPT ![s] = "touch"]
           /\ UNCHANGED <<finished, answer>>
  BY <1>3
<1>4. CASE /\ work[s] = "touch" /\ work' = [work EXCEPT ![s] = None]
           /\ finished' = finished \cup {"post-init"} /\ Reply(s, "ok")
  BY <1>4 DEF Reply, Open
<1>5. QED
  BY <1>1, <1>2, <1>3, <1>4 DEF ShellStep

-----------------------------------------------------------------------------
(* The invariants. *)

\* CP and the container start in them.
LEMMA InitInv == Init => TypeOK /\ Sessions /\ Awaited /\ Carried /\ Presented
<1> SUFFICES ASSUME Init PROVE TypeOK /\ Sessions /\ Awaited /\ Carried /\ Presented
  OBVIOUS
<1> USE DEF Init
<1>1. TypeOK
  BY SMTT(30), Plans, BoundsAssumption DEF TypeOK, Session
<1>2. Sessions /\ Awaited
  BY DEF Sessions, Awaited, StreamUp
<1>3. Carried
  <2>1. \A s \in Session : work[s] \notin {"pre-run", "agent-ready", "agent-initialized"}
    BY WorkIs
  <2>2. ~initMarker /\ ~ack.initialized /\ ~ack.cmdRunning /\ cmd # "running" /\ ~StreamUp
    BY DEF StreamUp
  <2>3. QED
    BY ONLY Zenon, <2>1, <2>2 DEF Carried, InitFirst
<1>4. Presented
  BY DEF Presented, NoReplay
<1>5. QED
  BY <1>1, <1>2, <1>3, <1>4

\* Every step keeps the types.
LEMMA TypeStep ==
    TypeOK /\ Sessions /\ [Next]_vars => TypeOK'
<1> SUFFICES ASSUME TypeOK, Sessions, [Next]_vars
             PROVE  TypeOK'
  OBVIOUS
<1> USE Plans, StepIsWork, WorkIs, BoundsAssumption DEF TypeOK, Session,
                                                        Answer, cpVars,
                                                        regVars, lifeVars,
                                                        diskVars
<1>1. ASSUME Establish PROVE TypeOK'
  BY SMTT(30), <1>1 DEF Establish
<1>2. ASSUME DispatchAgentEvents PROVE TypeOK'
  BY SMTT(30), <1>2 DEF DispatchAgentEvents
<1>3. ASSUME awaitRegisterDone PROVE TypeOK'
  BY SMTT(30), <1>3 DEF awaitRegisterDone
<1>4. ASSUME Gates PROVE TypeOK'
  BY SMTT(30), <1>4 DEF Gates, Begin, shouldAgentInit, shouldAgentBoot
<1>5. ASSUME sendStepCommand PROVE TypeOK'
  BY SMTT(30), <1>5 DEF sendStepCommand, PlanEnds
<1>6. ASSUME awaitStepResult PROVE TypeOK'
  <2>1. cp' \in {"send", "boot?", "drain", "kill"}
    BY <1>6 DEF awaitStepResult, PlanEnds, reportStepFailure
  <2>2. step' \in 1 .. Len(Plan[plan])
    <3>1. CASE step' = step
      BY <3>1
    <3>2. CASE step' = step + 1 /\ step < Len(Plan[plan])
      BY SMTT(30), <3>2
    <3>3. QED
      BY ONLY Zenon, <1>6, <3>1, <3>2 DEF awaitStepResult
  <2>3. doomed' \in 0 .. life
    BY <1>6 DEF awaitStepResult
  <2>4. UNCHANGED <<ses, peer, plan, waited, stream, work, reg, life>>
    BY <1>6 DEF awaitStepResult
  <2>5. answer' \in [Session -> Answer \cup {None}]
    BY <1>6 DEF awaitStepResult
  <2>6. QED
    BY <2>1, <2>2, <2>3, <2>4, <2>5
<1>7. ASSUME KillWaits PROVE TypeOK'
  BY SMTT(30), <1>7 DEF KillWaits, PlanEnds
<1>8. ASSUME KillAfterGrace PROVE TypeOK'
  BY <1>8 DEF KillAfterGrace, PlanEnds
<1>9. ASSUME KillSucceeds PROVE TypeOK'
  BY <1>9 DEF KillSucceeds, PlanEnds, ContainerEnds, Open
<1>10. ASSUME drainStream PROVE TypeOK'
  BY <1>10 DEF drainStream
<1>11. ASSUME Crash PROVE TypeOK'
  BY SMTT(30), <1>11 DEF Crash, Open
<1>12. ASSUME NEW s \in Session, ShellStep(s) PROVE TypeOK'
  BY SMTT(60), <1>12 DEF ShellStep, Succeeds, Reply, Open
<1>13. ASSUME NEW s \in Session, handleAgentInitialized(s) PROVE TypeOK'
  BY <1>13 DEF handleAgentInitialized, Succeeds, Reply, Open
<1>14. ASSUME NEW s \in Session, handleAgentReady(s) PROVE TypeOK'
  BY SMTT(30), <1>14 DEF handleAgentReady, Reply, Open
<1>15. ASSUME NEW s \in Session, RegisterRun(s) PROVE TypeOK'
  <2>1. /\ answer' \in [Session -> Answer \cup {None}]
        /\ UNCHANGED <<cp, ses, peer, plan, step, waited, stream, work, life, doomed>>
    BY <1>15, RegisterReplies
  <2>2. reg' \in [Session -> {"none", "want", "exchange", "rpc"}]
    BY SMTT(30), <1>15 DEF RegisterRun, Settle
  <2>3. QED
    BY <2>1, <2>2
<1>16. ASSUME NEW s \in Session, ExchangeAnswered(s) PROVE TypeOK'
  <2>1. /\ answer' \in [Session -> Answer \cup {None}]
        /\ UNCHANGED <<cp, ses, peer, plan, step, waited, stream, work, life, doomed>>
    BY <1>16, RegisterReplies
  <2>2. reg' \in [Session -> {"none", "want", "exchange", "rpc"}]
    BY SMTT(30), <1>16 DEF ExchangeAnswered, Settle
  <2>3. QED
    BY <2>1, <2>2
<1>17. ASSUME NEW s \in Session, RegisterRPC(s) PROVE TypeOK'
  <2>1. /\ answer' \in [Session -> Answer \cup {None}]
        /\ UNCHANGED <<cp, ses, peer, plan, step, waited, stream, work, life, doomed>>
    BY <1>17, RegisterReplies
  <2>2. reg' \in [Session -> {"none", "want", "exchange", "rpc"}]
    BY <1>17 DEF RegisterRPC, Settle
  <2>3. QED
    BY <2>1, <2>2
<1>18. ASSUME NEW s \in Session, ShellFails(s) PROVE TypeOK'
  BY <1>18 DEF ShellFails, Reply, InShell, Open
<1>19. ASSUME NEW s \in Session, ShellTimesOut(s) PROVE TypeOK'
  BY SMTT(30), <1>19 DEF ShellTimesOut, Reply, InShell, Open
<1>20. ASSUME NEW s \in Session, ExchangeFails(s) PROVE TypeOK'
  <2>1. /\ answer' \in [Session -> Answer \cup {None}]
        /\ UNCHANGED <<cp, ses, peer, plan, step, waited, stream, work, life, doomed>>
    BY <1>20, RegisterReplies
  <2>2. reg' \in [Session -> {"none", "want", "exchange", "rpc"}]
    BY <1>20 DEF ExchangeFails, Settle
  <2>3. QED
    BY <2>1, <2>2
<1>21. ASSUME NEW s \in Session, Break(s) PROVE TypeOK'
  BY <1>21 DEF Break, Open
<1>22. ASSUME ContainerExits PROVE TypeOK'
  BY <1>22 DEF ContainerExits, ContainerEnds, Open
<1>23. ASSUME ContainerKilled PROVE TypeOK'
  BY <1>23 DEF ContainerKilled, ContainerEnds, Open
<1>24. ASSUME ContainerStarts PROVE TypeOK'
  BY SMTT(30), <1>24 DEF ContainerStarts
<1>25. CASE UNCHANGED vars
  BY <1>25 DEF vars
<1> HIDE DEF TypeOK, Session, Answer, cpVars, regVars, lifeVars, diskVars
<1>26. QED
  BY <1>1, <1>2, <1>3, <1>4, <1>5, <1>6, <1>7, <1>8, <1>9, <1>10, <1>11,
     <1>12, <1>13, <1>14, <1>15, <1>16, <1>17, <1>18, <1>19, <1>20, <1>21,
     <1>22, <1>23, <1>24, <1>25
     DEF Next, CP, Clawkerd

\* Streams end with their container, and only a new one is opened.
LEMMA SessionsStep ==
    TypeOK /\ Sessions /\ [Next]_vars => Sessions'
<1> SUFFICES ASSUME TypeOK, Sessions, [Next]_vars
             PROVE  Sessions'
  OBVIOUS
<1> USE DEF TypeOK, Sessions, StreamUp, Session, cpVars, regVars, lifeVars,
            diskVars
<1>1. ASSUME Establish PROVE Sessions'
  BY SMTT(30), <1>1 DEF Establish
<1>2. ASSUME DispatchAgentEvents PROVE Sessions'
  BY <1>2 DEF DispatchAgentEvents
<1>3. ASSUME awaitRegisterDone PROVE Sessions'
  BY <1>3 DEF awaitRegisterDone
<1>4. ASSUME Gates PROVE Sessions'
  BY <1>4 DEF Gates, Begin, shouldAgentInit, shouldAgentBoot
<1>5. ASSUME sendStepCommand PROVE Sessions'
  BY <1>5 DEF sendStepCommand, PlanEnds
<1>6. ASSUME awaitStepResult PROVE Sessions'
  BY <1>6 DEF awaitStepResult, PlanEnds, reportStepFailure
<1>7. ASSUME KillWaits PROVE Sessions'
  BY <1>7 DEF KillWaits, PlanEnds
<1>8. ASSUME KillAfterGrace PROVE Sessions'
  BY <1>8 DEF KillAfterGrace, PlanEnds
<1>9. ASSUME KillSucceeds PROVE Sessions'
  BY <1>9 DEF KillSucceeds, PlanEnds, ContainerEnds, Open
<1>10. ASSUME drainStream PROVE Sessions'
  BY <1>10 DEF drainStream
<1>11. ASSUME Crash PROVE Sessions'
  BY <1>11 DEF Crash, Open
<1>12. ASSUME NEW s \in Session, ShellStep(s) PROVE Sessions'
  <2>1. UNCHANGED <<cp, ses, stream, up, waited, life>>
    BY <1>12 DEF ShellStep
  <2>2. \A t \in Session : stream[t] = "new" => work'[t] = work[t] /\ answer'[t] = answer[t]
    BY SMTT(30), <1>12, ShellReplies, WorkIs
  <2>3. QED
    BY <2>1, <2>2
<1>13. ASSUME NEW s \in Session, handleAgentInitialized(s) PROVE Sessions'
  BY <1>13 DEF handleAgentInitialized, Succeeds, Reply, Open
<1>14. ASSUME NEW s \in Session, handleAgentReady(s) PROVE Sessions'
  BY <1>14 DEF handleAgentReady, Reply, Open
<1>15. ASSUME NEW s \in Session, RegisterRun(s) PROVE Sessions'
  BY ZenonT(60), <1>15 DEF RegisterRun, Reply, Holder, Open
<1>16. ASSUME NEW s \in Session, ExchangeAnswered(s) PROVE Sessions'
  BY <1>16 DEF ExchangeAnswered, Settle, Reply, Open
<1>17. ASSUME NEW s \in Session, RegisterRPC(s) PROVE Sessions'
  BY <1>17 DEF RegisterRPC, Settle, Reply, Register, Open
<1>18. ASSUME NEW s \in Session, ShellFails(s) PROVE Sessions'
  BY <1>18 DEF ShellFails, Reply, InShell, Open
<1>19. ASSUME NEW s \in Session, ShellTimesOut(s) PROVE Sessions'
  BY <1>19 DEF ShellTimesOut, Reply, InShell, Open
<1>20. ASSUME NEW s \in Session, ExchangeFails(s) PROVE Sessions'
  BY <1>20 DEF ExchangeFails, Settle, Reply, Open
<1>21. ASSUME NEW s \in Session, Break(s) PROVE Sessions'
  BY SMTT(30), <1>21 DEF Break, Open
<1>22. ASSUME ContainerExits PROVE Sessions'
  BY SMTT(30), <1>22 DEF ContainerExits, ContainerEnds, Open
<1>23. ASSUME ContainerKilled PROVE Sessions'
  BY SMTT(30), <1>23 DEF ContainerKilled, ContainerEnds, Open
<1>24. ASSUME ContainerStarts PROVE Sessions'
  BY SMTT(30), <1>24 DEF ContainerStarts
<1>25. CASE UNCHANGED vars
  BY <1>25 DEF vars
<1> HIDE DEF TypeOK, Sessions, StreamUp, Session, cpVars, regVars, lifeVars,
             diskVars
<1>26. QED
  BY <1>1, <1>2, <1>3, <1>4, <1>5, <1>6, <1>7, <1>8, <1>9, <1>10, <1>11,
     <1>12, <1>13, <1>14, <1>15, <1>16, <1>17, <1>18, <1>19, <1>20, <1>21,
     <1>22, <1>23, <1>24, <1>25
     DEF Next, CP, Clawkerd

\* An answer to the step that was sent is one of that step: earlier answers are
\* taken before the next step is sent, and a handler whose stream is down does
\* not answer.
LEMMA AwaitedStep ==
    TypeOK /\ Sessions /\ Awaited /\ [Next]_vars => Awaited'
<1> SUFFICES ASSUME TypeOK, Sessions, Awaited, [Next]_vars
             PROVE  Awaited'
  OBVIOUS
<1> USE WorkIs, BoundsAssumption DEF TypeOK, Sessions, Awaited, StreamUp,
                                     Session, Answer, cpVars, regVars,
                                     lifeVars, diskVars
<1>1. ASSUME Establish PROVE Awaited'
  BY SMTT(30), <1>1 DEF Establish
<1>2. ASSUME DispatchAgentEvents PROVE Awaited'
  BY <1>2 DEF DispatchAgentEvents
<1>3. ASSUME awaitRegisterDone PROVE Awaited'
  <2>1. UNCHANGED <<ses, plan, step, finished, work>> /\ cp = "registering" /\ cp' = "init?"
    BY <1>3 DEF awaitRegisterDone
  <2>2. stream'[ses] = "up" => stream[ses] = "up" /\ answer'[ses] \in {answer[ses], None}
    BY SMTT(30), <1>3 DEF awaitRegisterDone
  <2>3. QED
    BY <2>1, <2>2
<1>4. ASSUME Gates PROVE Awaited'
  BY <1>4 DEF Gates, Begin, shouldAgentInit, shouldAgentBoot
<1>5. ASSUME sendStepCommand PROVE Awaited'
  <2>1. UNCHANGED <<ses, stream, plan, step, finished, answer>>
    BY <1>5 DEF sendStepCommand
  <2>2. CASE StreamUp
    <3>1. cp' = "await" /\ work'[ses] = Plan[plan][step]
      BY SMTT(30), <1>5, <2>2 DEF sendStepCommand, StreamUp
    <3>2. answer[ses] \notin {"ok", "failed"}
      BY <1>5, <2>2 DEF sendStepCommand, StreamUp
    <3>3. QED
      BY <2>1, <3>1, <3>2
  <2>3. CASE ~StreamUp
    BY <1>5, <2>1, <2>3 DEF sendStepCommand, PlanEnds
  <2>4. QED
    BY <2>2, <2>3
<1>6. ASSUME awaitStepResult PROVE Awaited'
  BY SMTT(30), <1>6 DEF awaitStepResult, PlanEnds, reportStepFailure
<1>7. ASSUME KillWaits PROVE Awaited'
  BY <1>7 DEF KillWaits, PlanEnds
<1>8. ASSUME KillAfterGrace PROVE Awaited'
  BY <1>8 DEF KillAfterGrace, PlanEnds
<1>9. ASSUME KillSucceeds PROVE Awaited'
  BY SMTT(30), <1>9 DEF KillSucceeds, PlanEnds, ContainerEnds, Open
<1>10. ASSUME drainStream PROVE Awaited'
  BY <1>10 DEF drainStream
<1>11. ASSUME Crash PROVE Awaited'
  BY <1>11 DEF Crash, Open
<1>12. ASSUME NEW s \in Session, ShellStep(s) PROVE Awaited'
  <2>1. UNCHANGED <<cp, ses, stream, plan, step>>
    BY <1>12 DEF ShellStep
  <2>2. CASE s # ses
    BY SMTT(30), <2>1, <2>2, <1>12, ShellReplies
  <2>3. CASE s = ses
    <3>1. (cp = "await" /\ work[s] # None) \/ stream[s] # "up"
      BY SMTT(30), <2>3, <1>12, ShellReplies
    <3>2. CASE stream[s] # "up"
      BY <2>1, <2>3, <3>2, <1>12, ShellReplies
    <3>3. CASE cp = "await" /\ stream[s] = "up"
      <4>1. CASE work'[s] = None
        <5>1. /\ work[s] # "hook"
              /\ IF work[s] = "touch" THEN "post-init" \in finished' ELSE work[s] \in finished'
          BY <4>1, <1>12, ShellReplies, WorkIs
        <5>2. \/ work[s] = Plan[plan][step]
              \/ Plan[plan][step] = "post-init" /\ work[s] \in {"hook", "touch"}
          BY <2>3, <3>1, <3>3
        <5>3. Plan[plan][step] \in finished'
          BY <5>1, <5>2, StepIsWhole
        <5>4. QED
          BY <2>1, <2>3, <3>3, <4>1, <5>3
      <4>2. CASE work'[s] # None
        <5>1. /\ answer'[s] = answer[s] /\ finished \subseteq finished'
              /\ \/ work[s] = "post-init" /\ work'[s] = "hook"
                 \/ work[s] = "hook" /\ work'[s] = "touch"
          BY <4>2, <1>12, ShellReplies
        <5>2. /\ Plan[plan][step] = "post-init"
              /\ answer[s] \notin {"ok", "failed"}
          BY <2>3, <3>1, <3>3, <5>1, StepIsWhole
        <5>3. QED
          BY <2>1, <2>3, <3>3, <5>1, <5>2
      <4>3. QED
        BY <4>1, <4>2
    <3>4. QED
      BY <3>1, <3>2, <3>3
  <2>4. QED
    BY <2>2, <2>3
<1>13. ASSUME NEW s \in Session, handleAgentInitialized(s) PROVE Awaited'
  BY SMTT(30), <1>13 DEF handleAgentInitialized, Succeeds, Reply, Open
<1>14. ASSUME NEW s \in Session, handleAgentReady(s) PROVE Awaited'
  <2>1. UNCHANGED <<cp, ses, stream, plan, step, finished>>
    BY <1>14 DEF handleAgentReady
  <2>2. work' = [work EXCEPT ![s] = None] /\ work[s] = "agent-ready"
    BY <1>14 DEF handleAgentReady
  <2>3. \A t \in Session : \/ answer'[t] = answer[t]
                           \/ t = s /\ Open(s) /\ answer'[t] \in {"ok", "failed"}
    BY <1>14 DEF handleAgentReady, Reply
  <2>4. QED
    BY SMTT(30), <2>1, <2>2, <2>3, InitAt DEF Open
<1>15. ASSUME NEW s \in Session, RegisterRun(s) PROVE Awaited'
  <2>1. /\ \A t \in Session :
              \/ answer'[t] = answer[t]
              \/ stream[t] = "up" /\ answer'[t] \in {"registered", "refused"}
        /\ UNCHANGED <<cp, ses, plan, step, stream, work, finished>>
    BY <1>15, RegisterReplies
  <2>2. QED
    BY SMTT(30), <2>1
<1>16. ASSUME NEW s \in Session, ExchangeAnswered(s) PROVE Awaited'
  <2>1. /\ \A t \in Session :
              \/ answer'[t] = answer[t]
              \/ stream[t] = "up" /\ answer'[t] \in {"registered", "refused"}
        /\ UNCHANGED <<cp, ses, plan, step, stream, work, finished>>
    BY <1>16, RegisterReplies
  <2>2. QED
    BY SMTT(30), <2>1
<1>17. ASSUME NEW s \in Session, RegisterRPC(s) PROVE Awaited'
  <2>1. /\ \A t \in Session :
              \/ answer'[t] = answer[t]
              \/ stream[t] = "up" /\ answer'[t] \in {"registered", "refused"}
        /\ UNCHANGED <<cp, ses, plan, step, stream, work, finished>>
    BY <1>17, RegisterReplies
  <2>2. QED
    BY SMTT(30), <2>1
<1>18. ASSUME NEW s \in Session, ShellFails(s) PROVE Awaited'
  BY SMTT(30), <1>18 DEF ShellFails, Reply, InShell, Open
<1>19. ASSUME NEW s \in Session, ShellTimesOut(s) PROVE Awaited'
  <2>1. UNCHANGED <<cp, ses, stream, plan, step, finished>>
    BY <1>19 DEF ShellTimesOut
  <2>2. work' = [work EXCEPT ![s] = None] /\ work[s] # None
    BY <1>19 DEF ShellTimesOut, InShell
  <2>3. \A t \in Session : \/ answer'[t] = answer[t]
                           \/ t = s /\ Open(s) /\ answer'[t] = "failed"
    BY <1>19 DEF ShellTimesOut, Reply
  <2>4. QED
    BY SMTT(30), <2>1, <2>2, <2>3 DEF Open
<1>20. ASSUME NEW s \in Session, ExchangeFails(s) PROVE Awaited'
  <2>1. /\ \A t \in Session :
              \/ answer'[t] = answer[t]
              \/ stream[t] = "up" /\ answer'[t] \in {"registered", "refused"}
        /\ UNCHANGED <<cp, ses, plan, step, stream, work, finished>>
    BY <1>20, RegisterReplies
  <2>2. QED
    BY SMTT(30), <2>1
<1>21. ASSUME NEW s \in Session, Break(s) PROVE Awaited'
  BY SMTT(30), <1>21 DEF Break, Open
<1>22. ASSUME ContainerExits PROVE Awaited'
  BY SMTT(30), <1>22 DEF ContainerExits, ContainerEnds, Open
<1>23. ASSUME ContainerKilled PROVE Awaited'
  BY SMTT(30), <1>23 DEF ContainerKilled, ContainerEnds, Open
<1>24. ASSUME ContainerStarts PROVE Awaited'
  BY <1>24 DEF ContainerStarts
<1>25. CASE UNCHANGED vars
  BY <1>25 DEF vars
<1> HIDE DEF TypeOK, Sessions, Awaited, StreamUp, Session, Answer, cpVars,
             regVars, lifeVars, diskVars
<1>26. QED
  BY <1>1, <1>2, <1>3, <1>4, <1>5, <1>6, <1>7, <1>8, <1>9, <1>10, <1>11,
     <1>12, <1>13, <1>14, <1>15, <1>16, <1>17, <1>18, <1>19, <1>20, <1>21,
     <1>22, <1>23, <1>24, <1>25
     DEF Next, CP, Clawkerd

\* When the container ends, no Session is left to carry a plan.
LEMMA CarriedEnds ==
    ASSUME TypeOK, Carried, ContainerEnds, UNCHANGED <<ses, ack, initMarker, finished>>
    PROVE  Carried'
<1>1. ~StreamUp'
  <2>1. SUFFICES ASSUME ses # 0 PROVE stream'[ses] # "up"
    BY DEF StreamUp
  <2>2. ses \in Session
    BY SMTT(30), <2>1, BoundsAssumption DEF TypeOK, Session
  <2>3. QED
    BY <2>2 DEF ContainerEnds, Open
<1>2. \A s \in Session : work'[s] \notin {"pre-run", "agent-ready", "agent-initialized"}
  BY WorkIs DEF ContainerEnds
<1>3. InitDone' = InitDone /\ cmd' # "running"
  BY DEF ContainerEnds, InitDone
<1>4. QED
  BY <1>1, <1>2, <1>3 DEF Carried, InitFirst

\* The boot plan is reached with a finished init plan or without a Session,
\* provided that the SIGKILL works.
LEMMA CarriedStep ==
    TypeOK /\ Sessions /\ Awaited /\ Carried /\ "kill" \notin Faults /\ [Next]_vars
      => Carried'
<1> SUFFICES ASSUME TypeOK, Sessions, Awaited, Carried, "kill" \notin Faults,
                    [Next]_vars
             PROVE  Carried'
  OBVIOUS
<1> USE WorkIs, InitSteps, BoundsAssumption DEF TypeOK, Sessions, Awaited,
                                                Carried, StreamUp, Session,
                                                InitFirst, InitDone, cpVars,
                                                regVars, lifeVars, diskVars
<1>1. ASSUME Establish PROVE Carried'
  BY <1>1 DEF Establish
<1>2. ASSUME DispatchAgentEvents PROVE Carried'
  BY <1>2 DEF DispatchAgentEvents
<1>3. ASSUME awaitRegisterDone PROVE Carried'
  BY <1>3 DEF awaitRegisterDone
<1>4. ASSUME Gates PROVE Carried'
  BY SMTT(30), <1>4 DEF Gates, Begin, shouldAgentInit, shouldAgentBoot
<1>5. ASSUME sendStepCommand PROVE Carried'
  <2>1. UNCHANGED <<ses, stream, plan, step, finished, initMarker, ack, cmd>>
    BY <1>5 DEF sendStepCommand
  <2>2. CASE StreamUp
    <3>1. cp = "send" /\ cp' = "await" /\ work' = [work EXCEPT ![ses] = Plan[plan][step]]
      BY <1>5, <2>2 DEF sendStepCommand, StreamUp
    <3>2. \/ plan = "init" /\ step \in {1, 2, 3}
          \/ plan = "boot" /\ step \in {1, 2}
      BY StepRange
    <3>3. Plan[plan][step] \in {"pre-run", "agent-ready"} => InitDone
      BY <2>2, <3>1, <3>2, Plans
    <3>4. Plan[plan][step] = "agent-initialized" => {"config", "post-init"} \subseteq finished
      <4>1. plan = "init" /\ step = 3 => \A i \in 1 .. 2 : Plan["init"][i] \in finished
        BY SMTT(30), <2>2, <3>1
      <4>2. Plan[plan][step] = "agent-initialized" => plan = "init" /\ step = 3
        BY <3>2, Plans
      <4>3. plan = "init" /\ step = 3 => {"config", "post-init"} \subseteq finished
        BY ONLY SMTT(30), <4>1, Plans
      <4>4. QED
        BY <4>2, <4>3
    <3>5. QED
      BY <2>1, <3>1, <3>3, <3>4
  <2>3. CASE ~StreamUp
    <3>1. UNCHANGED work
      BY <1>5, <2>3 DEF sendStepCommand
    <3>2. QED
      BY <2>1, <2>3, <3>1
  <2>4. QED
    BY <2>2, <2>3
<1>6. ASSUME awaitStepResult PROVE Carried'
  <2>1. UNCHANGED <<ses, stream, plan, finished, initMarker, ack, cmd, work>> /\ cp = "await"
    BY <1>6 DEF awaitStepResult
  <2>2. CASE plan = "boot"
    <3>1. cp' \in {"send", "drain", "kill"}
      BY <1>6, <2>2 DEF awaitStepResult, PlanEnds, reportStepFailure
    <3>2. QED
      BY <2>1, <2>2, <3>1
  <2>3. CASE plan = "init"
    <3>1. \/ cp' = "kill"
          \/ cp' = "boot?" /\ ~StreamUp
          \/ cp' = "boot?" /\ step = 3 /\ answer[ses] = "ok"
          \/ cp' = "send" /\ step' = step + 1 /\ answer[ses] = "ok"
      BY SMTT(30), <1>6, <2>3, Plans, StepRange DEF awaitStepResult, PlanEnds, reportStepFailure
    <3>2. answer[ses] = "ok" => Plan["init"][step] \in finished
      BY <2>1, <2>3
    <3>3. StreamUp => \A i \in 1 .. (step - 1) : Plan["init"][i] \in finished
      BY <2>1, <2>3
    <3>4. step \in {1, 2, 3}
      BY <2>3, StepRange
    <3>5. CASE cp' = "boot?" /\ step = 3 /\ answer[ses] = "ok"
      <4>1. StreamUp => InitDone
        BY SMTT(30), <3>2, <3>3, <3>5, Plans
      <4>2. QED
        BY <2>1, <3>5, <4>1
    <3>6. CASE cp' = "send" /\ step' = step + 1 /\ answer[ses] = "ok"
      <4>1. StreamUp' => \A i \in 1 .. (step' - 1) : Plan["init"][i] \in finished
        BY ONLY SMTT(30), <2>1, <3>2, <3>3, <3>4, <3>6 DEF StreamUp
      <4>2. QED
        BY <2>1, <2>3, <3>6, <4>1
    <3>7. CASE cp' = "kill" \/ (cp' = "boot?" /\ ~StreamUp)
      BY <2>1, <3>7
    <3>8. QED
      BY <3>1, <3>5, <3>6, <3>7
  <2>4. QED
    BY <2>2, <2>3, StepRange
<1>7. ASSUME KillWaits PROVE Carried'
  BY SMTT(30), <1>7 DEF KillWaits, PlanEnds
<1>8. ASSUME KillAfterGrace PROVE Carried'
  BY SMTT(30), <1>8 DEF KillAfterGrace, PlanEnds
<1>9. ASSUME KillSucceeds PROVE Carried'
  BY ONLY Zenon, TypeOK, Carried, <1>9, CarriedEnds DEF KillSucceeds, diskVars
<1>10. ASSUME drainStream PROVE Carried'
  BY <1>10 DEF drainStream
<1>11. ASSUME Crash PROVE Carried'
  BY <1>11 DEF Crash, Open
<1>12. ASSUME NEW s \in Session, ShellStep(s) PROVE Carried'
  <2>1. UNCHANGED <<cp, ses, stream, plan, step, initMarker, ack, cmd>>
    BY <1>12 DEF ShellStep
  <2>2. /\ finished \subseteq finished'
        /\ \A t \in Session : work'[t] \in {work[t], None, "hook", "touch"}
    BY <1>12, ShellReplies
  <2>3. QED
    BY <2>1, <2>2
<1>13. ASSUME NEW s \in Session, handleAgentInitialized(s) PROVE Carried'
  BY SMTT(30), <1>13 DEF handleAgentInitialized, Succeeds, Reply, Open
<1>14. ASSUME NEW s \in Session, handleAgentReady(s) PROVE Carried'
  BY <1>14 DEF handleAgentReady, Reply, Open
<1>15. ASSUME NEW s \in Session, RegisterRun(s) PROVE Carried'
  BY <1>15 DEF RegisterRun, Reply, Holder, Open
<1>16. ASSUME NEW s \in Session, ExchangeAnswered(s) PROVE Carried'
  BY <1>16 DEF ExchangeAnswered, Settle, Reply, Open
<1>17. ASSUME NEW s \in Session, RegisterRPC(s) PROVE Carried'
  BY <1>17 DEF RegisterRPC, Settle, Reply, Register, Open
<1>18. ASSUME NEW s \in Session, ShellFails(s) PROVE Carried'
  BY <1>18 DEF ShellFails, Reply, InShell, Open
<1>19. ASSUME NEW s \in Session, ShellTimesOut(s) PROVE Carried'
  BY <1>19 DEF ShellTimesOut, Reply, InShell, Open
<1>20. ASSUME NEW s \in Session, ExchangeFails(s) PROVE Carried'
  BY <1>20 DEF ExchangeFails, Settle, Reply, Open
<1>21. ASSUME NEW s \in Session, Break(s) PROVE Carried'
  BY SMTT(30), <1>21 DEF Break, Open
<1>22. ASSUME ContainerExits PROVE Carried'
  BY ONLY Zenon, TypeOK, Carried, <1>22, CarriedEnds DEF ContainerExits, cpVars, diskVars
<1>23. ASSUME ContainerKilled PROVE Carried'
  BY ONLY Zenon, TypeOK, Carried, <1>23, CarriedEnds DEF ContainerKilled, cpVars, diskVars
<1>24. ASSUME ContainerStarts PROVE Carried'
  BY <1>24 DEF ContainerStarts
<1>25. CASE UNCHANGED vars
  BY <1>25 DEF vars
<1> HIDE DEF TypeOK, Sessions, Awaited, Carried, StreamUp, Session, InitFirst,
             InitDone, cpVars, regVars, lifeVars, diskVars
<1>26. QED
  BY <1>1, <1>2, <1>3, <1>4, <1>5, <1>6, <1>7, <1>8, <1>9, <1>10, <1>11,
     <1>12, <1>13, <1>14, <1>15, <1>16, <1>17, <1>18, <1>19, <1>20, <1>21,
     <1>22, <1>23, <1>24, <1>25
     DEF Next, CP, Clawkerd

\* Whoever is past rc.mu is alone, and Hydra has not yet answered.
LEMMA PresentedStep ==
    TypeOK /\ Sessions /\ Presented /\ [Next]_vars => Presented'
<1> SUFFICES ASSUME TypeOK, Sessions, Presented, [Next]_vars
             PROVE  Presented'
  OBVIOUS
<1> USE BoundsAssumption DEF TypeOK, Sessions, Presented, StreamUp, Session,
                             NoReplay, cpVars, regVars, lifeVars, diskVars
<1>1. ASSUME Establish PROVE Presented'
  BY <1>1 DEF Establish
<1>2. ASSUME DispatchAgentEvents PROVE Presented'
  <2>1. UNCHANGED <<up, answeredBy, consumed, replayed, stream>> /\ cp' # "classify"
    BY <1>2 DEF DispatchAgentEvents
  <2>2. \/ UNCHANGED reg
        \/ /\ reg' = [reg EXCEPT ![ses] = "want"] /\ StreamUp
           /\ reg[ses] \notin {"exchange", "rpc"}
    BY <1>2 DEF DispatchAgentEvents
  <2>3. QED
    BY SMTT(30), <2>1, <2>2
<1>3. ASSUME awaitRegisterDone PROVE Presented'
  <2>1. UNCHANGED <<up, reg, answeredBy, consumed, replayed>> /\ cp' # "classify"
    BY <1>3 DEF awaitRegisterDone
  <2>2. \A s \in Session : stream[s] # "new" => stream'[s] # "new"
    BY <1>3 DEF awaitRegisterDone
  <2>3. QED
    BY <2>1, <2>2
<1>4. ASSUME Gates PROVE Presented'
  BY <1>4 DEF Gates, Begin, shouldAgentInit, shouldAgentBoot
<1>5. ASSUME sendStepCommand PROVE Presented'
  BY <1>5 DEF sendStepCommand, PlanEnds
<1>6. ASSUME awaitStepResult PROVE Presented'
  BY <1>6 DEF awaitStepResult, PlanEnds, reportStepFailure
<1>7. ASSUME KillWaits PROVE Presented'
  BY <1>7 DEF KillWaits, PlanEnds
<1>8. ASSUME KillAfterGrace PROVE Presented'
  BY <1>8 DEF KillAfterGrace, PlanEnds
<1>9. ASSUME KillSucceeds PROVE Presented'
  BY <1>9 DEF KillSucceeds, PlanEnds, ContainerEnds, Open
<1>10. ASSUME drainStream PROVE Presented'
  BY <1>10 DEF drainStream
<1>11. ASSUME Crash PROVE Presented'
  BY <1>11 DEF Crash, Open
<1>12. ASSUME NEW s \in Session, ShellStep(s) PROVE Presented'
  BY <1>12 DEF ShellStep, Succeeds, Reply, Open
<1>13. ASSUME NEW s \in Session, handleAgentInitialized(s) PROVE Presented'
  BY <1>13 DEF handleAgentInitialized, Succeeds, Reply, Open
<1>14. ASSUME NEW s \in Session, handleAgentReady(s) PROVE Presented'
  BY <1>14 DEF handleAgentReady, Reply, Open
<1>15. ASSUME NEW s \in Session, RegisterRun(s) PROVE Presented'
  <2>1. /\ UNCHANGED <<up, answeredBy, consumed, replayed, stream, cp, ses>>
        /\ reg[s] = "want"
    BY <1>15 DEF RegisterRun
  <2>2. \A t \in Session : reg[t] \notin {"exchange", "rpc"}
    BY <1>15 DEF RegisterRun, Holder
  <2>3. CASE consumed
    <3>1. reg' = [reg EXCEPT ![s] = "none"]
      BY <1>15, <2>3 DEF RegisterRun
    <3>2. QED
      BY SMTT(30), <2>1, <2>2, <2>3, <3>1
  <2>4. CASE ~consumed
    <3>1. reg' = [reg EXCEPT ![s] = "exchange"]
      BY <1>15, <2>4 DEF RegisterRun
    <3>2. ~answeredBy
      BY <2>1, <2>2, <2>4
    <3>3. QED
      BY SMTT(30), <2>1, <2>2, <3>1, <3>2
  <2>5. QED
    BY <2>3, <2>4
<1>16. ASSUME NEW s \in Session, ExchangeAnswered(s) PROVE Presented'
  <2>1. /\ UNCHANGED <<up, stream, cp, ses>>
        /\ reg[s] = "exchange"
        /\ replayed' = (replayed \/ answeredBy)
    BY <1>16 DEF ExchangeAnswered
  <2>2. ~answeredBy /\ ~replayed'
    BY <2>1
  <2>3. \/ reg' = [reg EXCEPT ![s] = "rpc"]
        \/ reg' = [reg EXCEPT ![s] = "none"] /\ consumed'
    BY <1>16 DEF ExchangeAnswered, Settle
  <2>4. QED
    BY SMTT(30), <2>1, <2>2, <2>3
<1>17. ASSUME NEW s \in Session, RegisterRPC(s) PROVE Presented'
  <2>1. /\ UNCHANGED <<up, stream, cp, ses, answeredBy, replayed>>
        /\ reg[s] = "rpc" /\ consumed'
        /\ reg' = [reg EXCEPT ![s] = "none"]
    BY <1>17 DEF RegisterRPC, Settle
  <2>2. QED
    BY SMTT(30), <2>1
<1>18. ASSUME NEW s \in Session, ShellFails(s) PROVE Presented'
  BY <1>18 DEF ShellFails, Reply, InShell, Open
<1>19. ASSUME NEW s \in Session, ShellTimesOut(s) PROVE Presented'
  BY <1>19 DEF ShellTimesOut, Reply, InShell, Open
<1>20. ASSUME NEW s \in Session, ExchangeFails(s) PROVE Presented'
  BY SMTT(30), <1>20 DEF ExchangeFails, Settle, Reply, Open
<1>21. ASSUME NEW s \in Session, Break(s) PROVE Presented'
  BY SMTT(30), <1>21 DEF Break, Open
<1>22. ASSUME ContainerExits PROVE Presented'
  BY SMTT(30), <1>22 DEF ContainerExits, ContainerEnds, Open
<1>23. ASSUME ContainerKilled PROVE Presented'
  BY SMTT(30), <1>23 DEF ContainerKilled, ContainerEnds, Open
<1>24. ASSUME ContainerStarts PROVE Presented'
  BY <1>24 DEF ContainerStarts
<1>25. CASE UNCHANGED vars
  BY <1>25 DEF vars
<1> HIDE DEF TypeOK, Sessions, Presented, StreamUp, Session, NoReplay, cpVars,
             regVars, lifeVars, diskVars
<1>26. QED
  BY <1>1, <1>2, <1>3, <1>4, <1>5, <1>6, <1>7, <1>8, <1>9, <1>10, <1>11,
     <1>12, <1>13, <1>14, <1>15, <1>16, <1>17, <1>18, <1>19, <1>20, <1>21,
     <1>22, <1>23, <1>24, <1>25
     DEF Next, CP, Clawkerd

-----------------------------------------------------------------------------
\* Once Hydra has answered it, a registerCoordinator never presents its
\* assertion again, however many Sessions ask it to and wherever they break.
THEOREM NoReplayHolds == Spec => []NoReplay
<1>1. Init => TypeOK /\ Sessions /\ Presented
  BY InitInv
<1>2. TypeOK /\ Sessions /\ Presented /\ [Next]_vars => (TypeOK /\ Sessions /\ Presented)'
  BY TypeStep, SessionsStep, PresentedStep
<1>3. Presented => NoReplay
  BY DEF Presented
<1>4. QED
  BY <1>1, <1>2, <1>3, PTL DEF Spec

\* The user CMD runs only in a container whose init plan has been carried out in
\* full, although runDial goes on to the boot plan when the init plan has failed:
\* what keeps the CMD from starting is that KillAfterGrace succeeds.
THEOREM InitFirstHolds ==
    ASSUME "kill" \notin Faults
    PROVE  Spec => []InitFirst
<1>1. Init => TypeOK /\ Sessions /\ Awaited /\ Carried
  BY InitInv
<1>2. TypeOK /\ Sessions /\ Awaited /\ Carried /\ [Next]_vars
        => (TypeOK /\ Sessions /\ Awaited /\ Carried)'
  BY TypeStep, SessionsStep, AwaitedStep, CarriedStep
<1>3. Carried => InitFirst
  BY DEF Carried
<1>4. QED
  BY <1>1, <1>2, <1>3, PTL DEF Spec
=============================================================================
