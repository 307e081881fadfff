-------------------------- MODULE DockerEventProofs --------------------------
(***************************************************************************)
(* Proofs about what the control plane makes of Docker's events: the feed  *)
(* and the registry (DockerFeed) for any number of containers, events and  *)
(* failures, and the dialer of a container (AgentDialer) for any number of *)
(* starts, signals, breaks and failures.                                   *)
(*                                                                         *)
(* The feed.  List-then-watch loses no container, and neither the reap nor *)
(* an evict takes the row of one that exists.  The feeder's part (History, *)
(* Current) does not look at the registry, and the registry's part         *)
(* (Removals, Ghosts) does not look at the feeder.                         *)
(*                                                                         *)
(* The dialer.  The map is exact as long as DialAgent finds a goroutine    *)
(* that has not run, so the invariant DialInv also counts them: there is   *)
(* one for the poll and one for every start event that is waiting.         *)
(***************************************************************************)
EXTENDS DockerFeed, AgentDialer, TLAPS

\* The leaves are first-order unless they name SMT.
USE Zenon

Action == {"start", "die", "destroy"}

\* The state an event leaves its container in.
After(a) == IF a = "start" THEN "running" ELSE IF a = "die" THEN "exited" ELSE "gone"

\* The log l has an event of c after position n.
Later(l, c, n) == \E i \in (n + 1) .. Len(l) : l[i][1] = c

\* A container is where its last event left it.
History ==
    \A i \in 1 .. Len(log) :
        state[log[i][1]] = After(log[i][2]) \/ Later(log, log[i][1], i)

\* What the feeder knows of an existing container is its state, or an event
\* that it has yet to read will correct it.
Current ==
    /\ \A c \in Container, s, t \in {"running", "exited"} :
          <<c, s>> \in listed /\ <<c, t>> \in listed => s = t
    /\ feeder = "publish" =>
          \A c \in Container : Exists(c) => <<c, state[c]>> \in listed \/ Later(log, c, t0)
    /\ feeder = "stream" =>
          \A c \in Container : Exists(c) =>
             published[c] = containerActionFromState(state[c]) \/ Later(log, c, pos)

\* A destroyed container is gone for good, and only such containers are
\* waiting to be evicted or, during the reap, missing from its list.
Removals ==
    /\ \A i \in 1 .. Len(log) : log[i][2] = "destroy" => state[log[i][1]] = "gone"
    /\ \A i \in 1 .. Len(evictQ) : state[evictQ[i][1]] = "gone"
    /\ \A c \in rows \cup register : state[c] # "none"
    /\ boot # "up" => register = {}
    /\ boot = "evict" => \A c \in rows \ live : state[c] = "gone"

\* A container that was seen to exist and is gone has been destroyed since.
Ghosts ==
    /\ \A c \in register : state[c] = "gone" => c \in Destroyed
    /\ boot = "evict" => \A c \in live : state[c] = "gone" => c \in Destroyed
    /\ GhostsAreYoung

\* As Current, for a container that is gone, as long as nothing breaks.
Unbroken ==
    /\ breaks = 0 /\ feeder # "backoff"
    /\ feeder # "stream" => \A c \in Container : published[c] = None
    /\ feeder = "publish" =>
          \A c \in Container : state[c] = "gone" =>
             (\A s \in {"running", "exited"} : <<c, s>> \notin listed) \/ Later(log, c, t0)
    /\ feeder = "stream" =>
          \A c \in Container : state[c] = "gone" =>
             published[c] \in {None, "destroy"} \/ Later(log, c, pos)

IInv == TypeOK /\ History /\ Current /\ Removals /\ Ghosts

-----------------------------------------------------------------------------
(* Docker's log. *)

\* An event is appended to the log.
LEMMA Appended ==
    ASSUME TypeOK, NEW c \in Container, NEW a \in Action, log' = Append(log, <<c, a>>)
    PROVE  /\ log' \in Seq(Container \X Action)
           /\ Len(log) \in Nat /\ Len(log') = Len(log) + 1
           /\ log'[Len(log) + 1][1] = c /\ log'[Len(log) + 1][2] = a
           /\ \A i \in 1 .. Len(log) : log'[i] = log[i]
<1>1. log \in Seq(Container \X Action) /\ <<c, a>> \in Container \X Action
  BY DEF TypeOK, Action
<1> HIDE DEF Action
<1>2. QED
  BY ONLY SMTT(30), <1>1, log' = Append(log, <<c, a>>)

\* What is published was published by Docker.
LEMMA LogEntries ==
    ASSUME TypeOK
    PROVE  /\ Len(log) \in Nat
           /\ \A i \in 1 .. Len(log) : log[i][1] \in Container /\ log[i][2] \in Action
<1>1. log \in Seq(Container \X Action)
  BY DEF TypeOK, Action
<1> HIDE DEF Action
<1>2. Len(log) \in Nat /\ \A i \in 1 .. Len(log) : log[i] \in Container \X Action
  BY ONLY SMTT(30), <1>1
<1>3. QED
  BY ONLY Zenon, <1>2

\* What waits to be evicted is a container.
LEMMA EvictEntries ==
    ASSUME TypeOK
    PROVE  \A i \in 1 .. Len(evictQ) : evictQ[i][1] \in Container
<1>1. evictQ \in Seq(Container \X {"destroy"})
  BY DEF TypeOK
<1>2. \A i \in 1 .. Len(evictQ) : evictQ[i] \in Container \X {"destroy"}
  BY ONLY SMTT(30), <1>1
<1>3. QED
  BY ONLY Zenon, <1>2

\* A new event of c is later than whatever has been read, and the events of
\* the others stay where they are.
LEMMA LaterAppended ==
    ASSUME TypeOK, NEW c \in Container, NEW a \in Action, log' = Append(log, <<c, a>>),
           NEW n \in 0 .. Len(log)
    PROVE  /\ Later(log', c, n)
           /\ \A d \in Container : Later(log, d, n) => Later(log', d, n)
<1>1. /\ Len(log) \in Nat /\ Len(log') = Len(log) + 1
      /\ log'[Len(log) + 1][1] = c /\ log'[Len(log) + 1][2] = a
      /\ \A i \in 1 .. Len(log) : log'[i] = log[i]
  BY Appended
<1>2. Len(log) + 1 \in (n + 1) .. Len(log')
  BY ONLY SMTT(30), <1>1, n \in 0 .. Len(log)
<1>3. \A i \in (n + 1) .. Len(log) : i \in 1 .. Len(log) /\ i \in (n + 1) .. Len(log')
  BY ONLY SMTT(30), <1>1, n \in 0 .. Len(log)
<1>4. QED
  BY <1>1, <1>2, <1>3 DEF Later

-----------------------------------------------------------------------------
(* The inductive invariant. *)

\* The control plane starts in it.
LEMMA InitInv == Init => IInv
<1> SUFFICES ASSUME Init PROVE IInv
  OBVIOUS
<1>1. Len(log) = 0 /\ Len(evictQ) = 0
  BY SMTT(30) DEF Init
<1>2. TypeOK
  <2>1. log \in Seq(Container \X {"start", "die", "destroy"})
        /\ evictQ \in Seq(Container \X {"destroy"})
        /\ t0 \in 0 .. Len(log) /\ pos \in 0 .. Len(log)
    BY SMTT(30), <1>1 DEF Init
  <2>2. QED
    BY <2>1 DEF Init, TypeOK
<1>3. \A i \in 1 .. 0 : FALSE
  BY SMTT(30)
<1>4. History
  BY <1>1, <1>3 DEF History
<1>5. Current
  BY DEF Init, Current
<1>6. Removals
  BY <1>1, <1>3 DEF Init, Removals
<1>7. Ghosts
  BY DEF Init, Ghosts, GhostsAreYoung
<1>8. QED
  BY <1>2, <1>4, <1>5, <1>6, <1>7 DEF IInv

\* An event of Docker keeps it.
LEMMA HappensKeeps ==
    ASSUME IInv, NEW c \in Container, NEW a \in Action, Happens(c, After(a), a),
           state[c] # "gone", a = "destroy" => state[c] = "exited"
    PROVE  IInv'
<1> USE DEF feederVars, agentVars
<1>1. /\ Len(log) \in Nat /\ Len(log') = Len(log) + 1
      /\ log' \in Seq(Container \X Action)
      /\ log'[Len(log) + 1][1] = c /\ log'[Len(log) + 1][2] = a
      /\ \A i \in 1 .. Len(log) : log'[i] = log[i]
  BY Appended DEF Happens, IInv
<1>2. /\ state \in [Container -> {"none", "running", "exited", "gone"}]
      /\ state' = [state EXCEPT ![c] = After(a)]
      /\ t0 \in 0 .. Len(log) /\ pos \in 0 .. Len(log)
      /\ log' = Append(log, <<c, a>>)
  BY DEF Happens, IInv, TypeOK
<1>3. /\ state'[c] = After(a)
      /\ \A d \in Container : d # c => state'[d] = state[d]
  BY <1>2
<1>4. \A n \in 0 .. Len(log) : /\ Later(log', c, n)
                               /\ \A d \in Container : Later(log, d, n) => Later(log', d, n)
  BY <1>2, LaterAppended DEF IInv
<1>5. \A i \in 1 .. Len(log') : i \in 1 .. Len(log) \/ i = Len(log) + 1
  BY ONLY SMTT(30), <1>1
<1>6. \A i \in 1 .. Len(log) : i \in 0 .. Len(log) /\ i \in 1 .. Len(log')
  BY ONLY SMTT(30), <1>1
<1>7. \A i \in 1 .. Len(log) : log[i][1] \in Container /\ log[i][2] \in Action
  BY LogEntries DEF IInv
<1>8. TypeOK'
  <2>1. After(a) \in {"none", "running", "exited", "gone"}
    BY DEF After
  <2>2. state' \in [Container -> {"none", "running", "exited", "gone"}]
    BY <1>2, <2>1
  <2>3. t0 \in 0 .. Len(log') /\ pos \in 0 .. Len(log')
    BY ONLY SMTT(30), <1>1, <1>2
  <2>4. QED
    BY <1>1, <2>2, <2>3 DEF Happens, IInv, TypeOK, Action
<1>9. History'
  <2>1. ASSUME NEW i \in 1 .. Len(log')
        PROVE  state'[log'[i][1]] = After(log'[i][2]) \/ Later(log', log'[i][1], i)
    <3>1. CASE i = Len(log) + 1
      BY <1>1, <1>3, <3>1
    <3>2. CASE i \in 1 .. Len(log)
      <4>1. state[log[i][1]] = After(log[i][2]) \/ Later(log, log[i][1], i)
        BY <3>2 DEF IInv, History
      <4>2. log'[i] = log[i] /\ log[i][1] \in Container /\ i \in 0 .. Len(log)
        BY <1>1, <1>6, <1>7, <3>2
      <4>3. CASE log[i][1] = c
        BY <1>4, <4>2, <4>3
      <4>4. CASE log[i][1] # c
        BY <1>3, <1>4, <4>1, <4>2, <4>4
      <4>5. QED
        BY <4>3, <4>4
    <3>3. QED
      BY <1>5, <3>1, <3>2
  <2>2. QED
    BY <2>1 DEF History
<1>10. Current'
  <2>1. UNCHANGED <<listed, feeder, t0, pos, published>>
    BY DEF Happens
  <2>2. ASSUME NEW d \in Container, feeder = "publish", Exists(d)'
        PROVE  <<d, state'[d]>> \in listed \/ Later(log', d, t0)
    <3>1. CASE d = c
      BY <1>2, <1>4, <3>1
    <3>2. CASE d # c
      BY <1>2, <1>3, <1>4, <2>2, <3>2 DEF IInv, Current, Exists
    <3>3. QED
      BY <3>1, <3>2
  <2>3. ASSUME NEW d \in Container, feeder = "stream", Exists(d)'
        PROVE  published[d] = containerActionFromState(state'[d]) \/ Later(log', d, pos)
    <3>1. CASE d = c
      BY <1>2, <1>4, <3>1
    <3>2. CASE d # c
      BY <1>2, <1>3, <1>4, <2>3, <3>2 DEF IInv, Current, Exists
    <3>3. QED
      BY <3>1, <3>2
  <2>4. QED
    BY <2>1, <2>2, <2>3 DEF IInv, Current
<1>11. \A d \in Container : state[d] = "gone" => state'[d] = "gone"
  BY <1>3
<1>12. Removals'
  <2>1. UNCHANGED <<evictQ, rows, register, boot, live>>
    BY DEF Happens
  <2>2. ASSUME NEW i \in 1 .. Len(log'), log'[i][2] = "destroy"
        PROVE  state'[log'[i][1]] = "gone"
    <3>1. CASE i = Len(log) + 1
      BY <1>1, <1>3, <2>2, <3>1 DEF After
    <3>2. CASE i \in 1 .. Len(log)
      <4>1. log[i][2] = "destroy" /\ log'[i] = log[i] /\ log[i][1] \in Container
        BY <1>1, <1>7, <2>2, <3>2
      <4>2. state[log[i][1]] = "gone"
        BY <3>2, <4>1 DEF IInv, Removals
      <4>3. QED
        BY <1>11, <4>1, <4>2
    <3>3. QED
      BY <1>5, <3>1, <3>2
  <2>3. \A i \in 1 .. Len(evictQ) : state'[evictQ[i][1]] = "gone"
    BY <1>11, EvictEntries DEF IInv, Removals
  <2>4. \A d \in rows \cup register : state'[d] # "none"
    BY <1>2, <1>3 DEF IInv, Removals, After, TypeOK
  <2>5. boot = "evict" => \A d \in rows \ live : state'[d] = "gone"
    BY <1>11 DEF IInv, Removals, TypeOK
  <2>6. QED
    BY <2>1, <2>2, <2>3, <2>4, <2>5 DEF IInv, Removals
<1>13. Ghosts'
  <2>1. UNCHANGED <<rows, register, boot, live, reaped>>
    BY DEF Happens
  <2>2. \A d \in Destroyed : d \in Destroyed'
    <3>1. \A i \in 1 .. Len(log) : i \in 1 .. Len(log') /\ log'[i] = log[i]
      BY <1>1, <1>6
    <3>2. QED
      BY <3>1 DEF Destroyed
  <2>3. a = "destroy" => c \in Destroyed'
    <3>1. Len(log) + 1 \in 1 .. Len(log')
      BY ONLY SMTT(30), <1>1
    <3>2. QED
      BY <1>1, <3>1 DEF Destroyed
  <2>4. \A d \in Container : state'[d] = "gone" => state[d] = "gone" \/ d \in Destroyed'
    BY <1>3, <2>3 DEF After, Action
  <2>5. rows \subseteq Container /\ register \subseteq Container /\ live \subseteq Container
    BY DEF IInv, TypeOK
  <2>6. QED
    BY <2>1, <2>2, <2>4, <2>5 DEF IInv, Ghosts, GhostsAreYoung
<1>14. QED
  BY <1>8, <1>9, <1>10, <1>12, <1>13 DEF IInv

\* Steps that leave Docker's history and the feeder's knowledge alone.
LEMMA FeederKept ==
    ASSUME History, Current, UNCHANGED dockerVars, UNCHANGED <<listed, t0, pos, published>>,
           feeder' \in {feeder, "anchor", "list", "backoff"}
    PROVE  History' /\ Current'
  BY DEF History, Current, Exists, dockerVars

\* Steps that leave Docker's history and the registry alone.
LEMMA RegistryKept ==
    ASSUME Removals, Ghosts, UNCHANGED dockerVars, UNCHANGED <<agentVars, evictQ>>
    PROVE  Removals' /\ Ghosts'
  BY DEF Removals, Ghosts, GhostsAreYoung, Destroyed, dockerVars, agentVars

\* Reading the list: it is the state of every container that exists.
LEMMA ListKeeps ==
    ASSUME IInv, List
    PROVE  IInv'
<1>1. UNCHANGED <<state, log, t0, pos, published, evictQ, agentVars, breaks>>
      /\ feeder' = "publish"
  BY DEF List, dockerVars
<1>2. \A c \in Container, s \in {"running", "exited"} :
         <<c, s>> \in listed' <=> s = state[c]
  <2>1. \A e : e \in listed' <=>
           \E x \in {y \in Container : Exists(y)} : e = <<x, state[x]>>
    BY DEF List
  <2>2. QED
    BY SMTT(30), <2>1 DEF Exists
<1>3. listed' \subseteq Container \X {"running", "exited"}
  <2>1. \A x \in Container : Exists(x) =>
           <<x, state[x]>> \in Container \X {"running", "exited"}
    BY DEF Exists
  <2>2. QED
    BY <2>1 DEF List
<1>4. TypeOK'
  BY <1>1, <1>3 DEF IInv, TypeOK, agentVars
<1>5. History'
  BY <1>1 DEF IInv, History
<1>6. Current'
  BY <1>1, <1>2 DEF Current, Exists
<1>7. Removals' /\ Ghosts'
  BY <1>1, RegistryKept DEF IInv, dockerVars, agentVars
<1>8. QED
  BY <1>4, <1>5, <1>6, <1>7 DEF IInv

\* reconcile: what it publishes is the state of the container, or an event
\* since the anchor is going to be replayed.
LEMMA reconcileKeeps ==
    ASSUME IInv, reconcile
    PROVE  IInv'
<1>1. UNCHANGED <<state, log, t0, listed, evictQ, agentVars, breaks>>
      /\ feeder = "publish" /\ feeder' = "stream" /\ pos' = t0
  BY DEF reconcile, dockerVars
<1>2. ASSUME NEW c \in Container
      PROVE  /\ published'[c] \in {None, "start", "die", "destroy"}
             /\ <<c, state[c]>> \in listed /\ Exists(c)
                   => published'[c] = containerActionFromState(state[c])
  <2> DEFINE Seen == \E s \in {"running", "exited"} : <<c, s>> \in listed
             it == CHOOSE s \in {"running", "exited"} : <<c, s>> \in listed
  <2>1. published'[c] = IF Seen THEN containerActionFromState(it) ELSE published[c]
    BY DEF reconcile
  <2>2. Seen => it \in {"running", "exited"} /\ <<c, it>> \in listed
    OBVIOUS
  <2> HIDE DEF it
  <2>3. published[c] \in {None, "start", "die", "destroy"}
    BY DEF IInv, TypeOK
  <2>4. published'[c] \in {None, "start", "die", "destroy"}
    BY <2>1, <2>3 DEF containerActionFromState
  <2>5. ASSUME <<c, state[c]>> \in listed, Exists(c)
        PROVE  published'[c] = containerActionFromState(state[c])
    <3>1. Seen
      BY <2>5 DEF Exists
    <3>2. it = state[c]
      BY <2>2, <2>5, <3>1 DEF IInv, Current, Exists
    <3>3. QED
      BY <2>1, <3>1, <3>2
  <2>6. QED
    BY <2>4, <2>5
<1>3. TypeOK'
  <2>1. published' \in [Container -> {None, "start", "die", "destroy"}]
    BY <1>2 DEF reconcile
  <2>2. QED
    BY <1>1, <2>1 DEF IInv, TypeOK, agentVars
<1>4. History'
  BY <1>1 DEF IInv, History
<1>5. Current'
  BY <1>1, <1>2 DEF IInv, Current, Exists
<1>6. Removals' /\ Ghosts'
  BY <1>1, RegistryKept DEF IInv, dockerVars, agentVars
<1>7. QED
  BY <1>3, <1>4, <1>5, <1>6 DEF IInv

\* runStream delivers the next event: it is the last one of its container, and
\* tells its state, or a later one is still to come.  A destroy that reaches the
\* evict subscriber is true for good.
LEMMA DispatchKeeps ==
    ASSUME IInv, Dispatch
    PROVE  IInv'
<1> DEFINE n == pos + 1
           c == log[n][1]
           a == log[n][2]
<1>1. UNCHANGED <<state, log, t0, listed, feeder, agentVars, breaks>>
      /\ feeder = "stream" /\ pos' = n
      /\ published' = [published EXCEPT ![c] = a]
      /\ evictQ' = IF boot = "up" /\ a = "destroy" THEN Append(evictQ, log[n]) ELSE evictQ
  BY DEF Dispatch, dockerVars, Deliver
<1>2. /\ Len(log) \in Nat /\ n \in 1 .. Len(log) /\ n \in 0 .. Len(log)
      /\ \A i \in n .. Len(log) : i = n \/ i \in (n + 1) .. Len(log)
  <2>1. Len(log) \in Nat /\ pos \in 0 .. Len(log) /\ pos < Len(log)
    BY LogEntries DEF IInv, TypeOK, Dispatch
  <2>2. QED
    BY ONLY SMTT(30), <2>1
<1>3. c \in Container /\ a \in {"start", "die", "destroy"}
  BY <1>2, LogEntries DEF IInv, Action
<1>4. log[n] \in Container \X {"start", "die", "destroy"}
  BY SMTT(30), <1>2 DEF IInv, TypeOK
<1>5. state[c] = After(a) \/ Later(log, c, n)
  BY <1>2 DEF IInv, History
<1>6. a = "destroy" => state[c] = "gone"
  BY <1>2 DEF IInv, Removals
<1>7. \A d \in Container : Later(log, d, pos) => d = c \/ Later(log, d, n)
  BY <1>2 DEF Later
<1> HIDE DEF n, c, a
<1>8. evictQ' \in Seq(Container \X {"destroy"})
      /\ \A i \in 1 .. Len(evictQ') : state[evictQ'[i][1]] = "gone"
  <2>1. evictQ \in Seq(Container \X {"destroy"})
        /\ \A i \in 1 .. Len(evictQ) : state[evictQ[i][1]] = "gone"
    BY DEF IInv, TypeOK, Removals
  <2>2. CASE boot = "up" /\ a = "destroy"
    <3>1. log[n] \in Container \X {"destroy"} /\ state[log[n][1]] = "gone"
      BY SMTT(30), <1>4, <1>6, <2>2 DEF c, a
    <3>2. evictQ' = Append(evictQ, log[n])
      BY <1>1, <2>2
    <3>3. QED
      BY ONLY SMTT(30), <2>1, <3>1, <3>2
  <2>3. CASE ~(boot = "up" /\ a = "destroy")
    BY <1>1, <2>1, <2>3
  <2>4. QED
    BY <2>2, <2>3
<1>9. TypeOK'
  <2>1. published' \in [Container -> {None, "start", "die", "destroy"}]
    BY <1>1, <1>3 DEF IInv, TypeOK
  <2>2. QED
    BY <1>1, <1>2, <1>8, <2>1 DEF IInv, TypeOK, agentVars
<1>10. History'
  BY <1>1 DEF IInv, History
<1>11. Current'
  <2>1. ASSUME NEW d \in Container, Exists(d)
        PROVE  published'[d] = containerActionFromState(state[d]) \/ Later(log, d, n)
    <3>1. CASE d = c
      <4>1. published'[c] = a
        BY <1>1, <1>3 DEF IInv, TypeOK
      <4>2. state[c] = After(a) => a = containerActionFromState(state[c])
        BY <1>3, <2>1, <3>1 DEF After, containerActionFromState, Exists
      <4>3. QED
        BY <1>5, <3>1, <4>1, <4>2
    <3>2. CASE d # c
      <4>1. published'[d] = published[d]
        BY <1>1, <3>2 DEF IInv, TypeOK
      <4>2. published[d] = containerActionFromState(state[d]) \/ Later(log, d, pos)
        BY <1>1, <2>1 DEF IInv, Current
      <4>3. QED
        BY <1>7, <3>2, <4>1, <4>2
    <3>3. QED
      BY <3>1, <3>2
  <2>2. QED
    BY <1>1, <2>1 DEF IInv, Current, Exists
<1>12. Removals' /\ Ghosts'
  BY <1>1, <1>8 DEF IInv, Removals, Ghosts, GhostsAreYoung, Destroyed, agentVars
<1>13. QED
  BY <1>9, <1>10, <1>11, <1>12 DEF IInv

\* ReapOrphans takes the rows of containers that were gone when it listed, and
\* gone is for good.
LEMMA ReapKeeps ==
    ASSUME IInv, ReapList \/ ReapOrphans \/ ReapFails \/ Subscribe
    PROVE  IInv'
<1>1. UNCHANGED <<state, log, t0, listed, pos, feeder, published, evictQ, register>>
  BY DEF ReapList, ReapOrphans, ReapFails, Subscribe, dockerVars, feederVars
<1>2. History' /\ Current'
  BY <1>1, FeederKept DEF IInv, dockerVars
<1>3. Destroyed' = Destroyed
  BY <1>1 DEF Destroyed
<1>4. rows \subseteq Container /\ state \in [Container -> {"none", "running", "exited", "gone"}]
      /\ live \subseteq Container
  BY DEF IInv, TypeOK
<1>5. CASE ReapList
  <2>1. /\ live' = {c \in Container : Exists(c)} /\ boot = "list" /\ boot' = "evict"
        /\ UNCHANGED <<rows, reaped>>
    BY <1>5 DEF ReapList
  <2>2. TypeOK'
    BY <1>1, <2>1 DEF IInv, TypeOK
  <2>3. \A c \in rows \ live' : state[c] = "gone"
    BY <1>4, <2>1 DEF IInv, Removals, Exists
  <2>4. \A c \in live' : state[c] # "gone"
    BY <2>1 DEF Exists
  <2>5. Removals' /\ Ghosts'
    BY <1>1, <1>3, <2>1, <2>3, <2>4 DEF IInv, Removals, Ghosts, GhostsAreYoung
  <2>6. QED
    BY <1>2, <2>2, <2>5 DEF IInv
<1>6. CASE ReapOrphans
  <2>1. /\ rows' = rows \cap live /\ reaped' /\ reaped' \in BOOLEAN
        /\ boot = "evict" /\ boot' = "subscribe" /\ UNCHANGED live
    BY <1>6 DEF ReapOrphans
  <2>2. TypeOK'
    BY <1>1, <2>1 DEF IInv, TypeOK
  <2>3. Removals' /\ Ghosts'
    BY <1>1, <1>3, <2>1 DEF IInv, Removals, Ghosts, GhostsAreYoung
  <2>4. QED
    BY <1>2, <2>2, <2>3 DEF IInv
<1>7. CASE ReapFails \/ Subscribe
  <2>1. UNCHANGED <<rows, live, reaped>> /\ boot' \in {"subscribe", "up"} /\ boot # "up"
    BY <1>7 DEF ReapFails, Subscribe
  <2>2. TypeOK'
    BY <1>1, <2>1 DEF IInv, TypeOK
  <2>3. Removals' /\ Ghosts'
    BY <1>1, <1>3, <2>1 DEF IInv, Removals, Ghosts, GhostsAreYoung
  <2>4. QED
    BY <1>2, <2>2, <2>3 DEF IInv
<1>8. QED
  BY <1>5, <1>6, <1>7

\* The evict subscriber and the Register calls.
LEMMA RowsKeep ==
    ASSUME IInv,
           \/ Evict
           \/ EvictFails
           \/ \E c \in Container : Identify(c) \/ Register(c)
    PROVE  IInv'
<1>1. UNCHANGED <<state, log, t0, listed, pos, feeder, published, boot, live, reaped>>
  BY DEF Evict, EvictFails, Identify, Register, dockerVars, feederVars, agentVars
<1>2. History' /\ Current'
  BY <1>1, FeederKept DEF IInv, dockerVars
<1>3. Destroyed' = Destroyed
  BY <1>1 DEF Destroyed
<1>4. rows \subseteq Container /\ register \subseteq Container
  BY DEF IInv, TypeOK
<1>5. CASE Evict \/ EvictFails
  <2>1. evictQ # <<>> /\ evictQ' = Tail(evictQ) /\ rows' \subseteq rows /\ UNCHANGED register
    BY <1>5 DEF Evict, EvictFails, agentVars
  <2>2. evictQ \in Seq(Container \X {"destroy"})
        /\ \A i \in 1 .. Len(evictQ) : state[evictQ[i][1]] = "gone"
    BY DEF IInv, TypeOK, Removals
  <2>3. /\ evictQ' \in Seq(Container \X {"destroy"})
        /\ \A i \in 1 .. Len(evictQ') : state[evictQ'[i][1]] = "gone"
    <3>1. /\ evictQ' \in Seq(Container \X {"destroy"})
          /\ \A i \in 1 .. Len(evictQ') : i + 1 \in 1 .. Len(evictQ) /\ evictQ'[i] = evictQ[i + 1]
      BY ONLY SMTT(30), <2>1, <2>2
    <3>2. QED
      BY <2>2, <3>1
  <2>4. TypeOK'
    BY <1>1, <1>4, <2>1, <2>3 DEF IInv, TypeOK
  <2>5. Removals' /\ Ghosts'
    BY <1>1, <1>3, <2>1, <2>3 DEF IInv, Removals, Ghosts, GhostsAreYoung
  <2>6. QED
    BY <1>2, <2>4, <2>5 DEF IInv
<1>6. ASSUME NEW c \in Container, Identify(c) PROVE IInv'
  <2>1. /\ boot = "up" /\ state[c] = "running" /\ register' = register \cup {c}
        /\ UNCHANGED <<rows, evictQ>>
    BY <1>6 DEF Identify
  <2>2. TypeOK'
    BY <1>1, <2>1 DEF IInv, TypeOK
  <2>3. Removals' /\ Ghosts'
    BY <1>1, <1>3, <2>1 DEF IInv, Removals, Ghosts, GhostsAreYoung
  <2>4. QED
    BY <1>2, <2>2, <2>3 DEF IInv
<1>7. ASSUME NEW c \in Container, Register(c) PROVE IInv'
  <2>1. /\ c \in register /\ register' = register \ {c} /\ rows' = rows \cup {c}
        /\ UNCHANGED evictQ
    BY <1>7 DEF Register
  <2>2. boot = "up"
    BY <2>1 DEF IInv, Removals
  <2>3. TypeOK'
    BY <1>1, <2>1 DEF IInv, TypeOK
  <2>4. Removals' /\ Ghosts'
    BY <1>1, <1>3, <2>1, <2>2 DEF IInv, Removals, Ghosts, GhostsAreYoung
  <2>5. QED
    BY <1>2, <2>3, <2>4 DEF IInv
<1>8. QED
  BY <1>5, <1>6, <1>7

\* Every step keeps the invariant.
LEMMA NextInv == IInv /\ [Next]_vars => IInv'
<1> SUFFICES ASSUME IInv, [Next]_vars PROVE IInv'
  OBVIOUS
<1>1. ASSUME NEW c \in Container, ContainerStart(c) PROVE IInv'
  BY <1>1, HappensKeeps DEF ContainerStart, Action, After
<1>2. ASSUME NEW c \in Container, ContainerDie(c) PROVE IInv'
  BY <1>2, HappensKeeps DEF ContainerDie, Action, After
<1>3. ASSUME NEW c \in Container, ContainerDestroy(c) PROVE IInv'
  BY <1>3, HappensKeeps DEF ContainerDestroy, Action, After
<1>4. ASSUME Anchor \/ ListFails \/ StreamEnds \/ Retry PROVE IInv'
  <2>1. UNCHANGED <<state, log, listed, pos, published, evictQ, agentVars>>
        /\ feeder' \in {"anchor", "list", "backoff"}
    BY <1>4 DEF Anchor, ListFails, StreamEnds, Retry, dockerVars
  <2>2. t0' \in 0 .. Len(log)
    <3>1. t0' = t0 \/ t0' = Len(log)
      BY <1>4 DEF Anchor, ListFails, StreamEnds, Retry
    <3>2. t0 \in 0 .. Len(log) /\ Len(log) \in 0 .. Len(log)
      BY SMTT(30) DEF IInv, TypeOK
    <3>3. QED
      BY <3>1, <3>2
  <2>3. TypeOK'
    BY <2>1, <2>2 DEF IInv, TypeOK, agentVars
  <2>4. History' /\ Current'
    BY <2>1 DEF IInv, History, Current
  <2>5. Removals' /\ Ghosts'
    BY <2>1, RegistryKept DEF IInv, dockerVars
  <2>6. QED
    BY <2>3, <2>4, <2>5 DEF IInv
<1>5. CASE UNCHANGED vars
  BY <1>5, FeederKept, RegistryKept
     DEF vars, dockerVars, feederVars, agentVars, IInv, TypeOK
<1>6. QED
  BY <1>1, <1>2, <1>3, <1>4, <1>5, ListKeeps, reconcileKeeps, DispatchKeeps,
     ReapKeeps, RowsKeep DEF Next, Feeder, Boot

\* The invariant holds throughout.
LEMMA Inductive == Spec => []IInv
  BY InitInv, NextInv, PTL DEF Spec

-----------------------------------------------------------------------------
(* Without a break. *)

\* The anchor of the only stream precedes the only list, so a removal that the
\* list contradicts is replayed.
LEMMA UnbrokenStep ==
    ASSUME MaxBreaks = 0, IInv, Unbroken, [Next]_vars
    PROVE  Unbroken'
<1> USE DEF dockerVars, feederVars, agentVars
<1>1. ~(breaks < MaxBreaks)
  BY SMTT(30) DEF Unbroken
<1>2. ASSUME NEW c \in Container, NEW a \in Action, Happens(c, After(a), a)
      PROVE  Unbroken'
  <2>1. /\ state \in [Container -> {"none", "running", "exited", "gone"}]
        /\ state' = [state EXCEPT ![c] = After(a)] /\ log' = Append(log, <<c, a>>)
        /\ t0 \in 0 .. Len(log) /\ pos \in 0 .. Len(log)
        /\ UNCHANGED <<breaks, feeder, published, listed, t0, pos>>
    BY <1>2 DEF Happens, IInv, TypeOK
  <2>2. \A n \in 0 .. Len(log) : /\ Later(log', c, n)
                                 /\ \A d \in Container : Later(log, d, n) => Later(log', d, n)
    BY <2>1, LaterAppended DEF IInv
  <2>3. \A d \in Container : d # c => state'[d] = state[d]
    BY <2>1
  <2>4. QED
    BY <2>1, <2>2, <2>3 DEF Unbroken
<1>3. ASSUME Anchor PROVE Unbroken'
  BY <1>3 DEF Anchor, Unbroken
<1>4. ASSUME List PROVE Unbroken'
  <2>1. /\ UNCHANGED <<breaks, published, state, log, t0>>
        /\ feeder = "list" /\ feeder' = "publish"
    BY <1>4 DEF List
  <2>2. \A c \in Container, s \in {"running", "exited"} :
           state[c] = "gone" => <<c, s>> \notin listed'
    BY SMTT(30), <1>4 DEF List, Exists
  <2>3. QED
    BY <2>1, <2>2 DEF Unbroken
<1>5. ASSUME reconcile PROVE Unbroken'
  <2>1. /\ UNCHANGED <<breaks, state, log>> /\ pos' = t0
        /\ feeder = "publish" /\ feeder' = "stream"
    BY <1>5 DEF reconcile
  <2>2. \A c \in Container : (\A s \in {"running", "exited"} : <<c, s>> \notin listed)
           => published'[c] = published[c]
    BY <1>5 DEF reconcile
  <2>3. QED
    BY <2>1, <2>2 DEF Unbroken
<1>6. ASSUME Dispatch PROVE Unbroken'
  <2> DEFINE n == pos + 1
             c == log[n][1]
             a == log[n][2]
  <2>1. /\ UNCHANGED <<breaks, state, log, feeder>> /\ feeder = "stream" /\ pos' = n
        /\ published' = [published EXCEPT ![c] = a]
    BY <1>6 DEF Dispatch
  <2>2. /\ n \in 1 .. Len(log)
        /\ \A i \in n .. Len(log) : i = n \/ i \in (n + 1) .. Len(log)
    <3>1. Len(log) \in Nat /\ pos \in 0 .. Len(log) /\ pos < Len(log)
      BY <1>6, LogEntries DEF IInv, TypeOK, Dispatch
    <3>2. QED
      BY ONLY SMTT(30), <3>1
  <2>3. c \in Container /\ a \in Action
    BY <2>2, LogEntries DEF IInv
  <2>4. state[c] = After(a) \/ Later(log, c, n)
    BY <2>2 DEF IInv, History
  <2>5. \A d \in Container : Later(log, d, pos) => d = c \/ Later(log, d, n)
    BY <2>2 DEF Later
  <2>6. \A d \in Container : published'[d] = IF d = c THEN a ELSE published[d]
    BY <2>1 DEF IInv, TypeOK
  <2> HIDE DEF n, c, a
  <2>7. After(a) = "gone" => a = "destroy"
    BY <2>3 DEF After, Action
  <2>8. QED
    BY <2>1, <2>4, <2>5, <2>6, <2>7 DEF Unbroken
<1>7. ASSUME \/ Retry \/ Boot \/ Evict \/ UNCHANGED vars
             \/ \E c \in Container : Identify(c) \/ Register(c)
      PROVE  Unbroken'
  <2>1. UNCHANGED <<breaks, state, log, feeder, published, listed, t0, pos>>
    BY <1>7 DEF Retry, Unbroken, Boot, ReapList, ReapOrphans, Subscribe, Evict, vars,
       Identify, Register
  <2>2. QED
    BY <2>1 DEF Unbroken
<1>8. ~(ListFails \/ StreamEnds \/ ReapFails \/ EvictFails)
  BY <1>1 DEF ListFails, StreamEnds, ReapFails, EvictFails
<1>9. ASSUME NEW c \in Container, ContainerStart(c) \/ ContainerDie(c) \/ ContainerDestroy(c)
      PROVE  Unbroken'
  BY <1>2, <1>9 DEF ContainerStart, ContainerDie, ContainerDestroy, Action, After
<1>10. QED
  BY <1>3, <1>4, <1>5, <1>6, <1>7, <1>8, <1>9 DEF Next, Feeder

-----------------------------------------------------------------------------
(* The results. *)

\* When Feeder.Run has read what there is to read, the last action it published
\* for every existing container is the one that led to its state, for any number
\* of containers, events, failed lists and broken streams (feeder.go: the anchor
\* before the list, Since on the stream; reconcile.go).
THEOREM CaughtUpIsCurrentHolds == Spec => []CaughtUpIsCurrent
<1>1. IInv => CaughtUpIsCurrent
  <2> SUFFICES ASSUME IInv, CaughtUp, NEW c \in Container, Exists(c)
               PROVE  published[c] = containerActionFromState(state[c])
    BY DEF CaughtUpIsCurrent
  <2>1. Len(log) \in Nat
    BY LogEntries DEF IInv
  <2>2. \A i \in (Len(log) + 1) .. Len(log) : FALSE
    BY ONLY SMTT(30), <2>1
  <2>3. QED
    BY <2>2 DEF IInv, Current, CaughtUp, Later
<1>2. QED
  BY <1>1, Inductive, PTL

\* Neither ReapOrphans at start-up nor SubscribeEvict's handler, however late it
\* runs, takes the row of a container that exists.
THEOREM LiveRowsStayHolds == Spec => LiveRowsStay
<1>1. IInv /\ [Next]_vars
         => [\A c \in Container : c \in rows \ rows' => state[c] = "gone"]_vars
  <2> SUFFICES ASSUME IInv, Next, NEW c \in Container, c \in rows, c \notin rows'
               PROVE  state[c] = "gone"
    OBVIOUS
  <2>1. CASE ReapOrphans
    BY <2>1 DEF ReapOrphans, IInv, Removals
  <2>2. CASE Evict
    <3>1. evictQ # <<>> /\ c = Head(evictQ)[1]
      BY <2>2 DEF Evict
    <3>2. evictQ \in Seq(Container \X {"destroy"})
      BY DEF IInv, TypeOK
    <3>3. 1 \in 1 .. Len(evictQ) /\ Head(evictQ) = evictQ[1]
      BY ONLY SMTT(30), <3>1, <3>2
    <3>4. QED
      BY <3>1, <3>3 DEF IInv, Removals
  <2>3. ReapOrphans \/ Evict
    <3>1. rows' # rows
      OBVIOUS
    <3>2. \A d \in Container : ~Register(d)
      BY DEF Register
    <3>3. QED
      BY <3>1, <3>2 DEF Next, Feeder, Boot, ContainerStart, ContainerDie, ContainerDestroy,
         Happens, Identify, Anchor, List, ListFails, reconcile, Dispatch, StreamEnds, Retry,
         ReapList, ReapFails, Subscribe, EvictFails, agentVars
  <2>4. QED
    BY <2>1, <2>2, <2>3
<1>2. QED
  BY <1>1, Inductive, PTL DEF Spec, LiveRowsStay

\* A row without a container that survives a successful ReapOrphans belongs to a
\* container that was destroyed after the control plane started.
THEOREM GhostsAreYoungHolds == Spec => []GhostsAreYoung
  BY Inductive, PTL DEF IInv, Ghosts

\* While no stream breaks and no list fails, the comment of reconcile.go is right
\* about removals: those it does not publish were delivered as events or are
\* replayed.  (With one break they can be lost: DockerFeedGap.cfg.)
THEOREM RemovalsArriveUnbroken == MaxBreaks = 0 => (Spec => []RemovalsArrive)
<1> SUFFICES ASSUME MaxBreaks = 0 PROVE Spec => []RemovalsArrive
  OBVIOUS
<1>1. Init => Unbroken
  BY DEF Init, Unbroken
<1>2. IInv /\ Unbroken /\ [Next]_vars => Unbroken'
  BY UnbrokenStep
<1>3. IInv /\ Unbroken => RemovalsArrive
  <2> SUFFICES ASSUME IInv, Unbroken, CaughtUp, NEW c \in Container, state[c] = "gone"
               PROVE  published[c] \in {None, "destroy"}
    BY DEF RemovalsArrive
  <2>1. Len(log) \in Nat
    BY LogEntries DEF IInv
  <2>2. \A i \in (Len(log) + 1) .. Len(log) : FALSE
    BY ONLY SMTT(30), <2>1
  <2>3. QED
    BY <2>2 DEF Unbroken, CaughtUp, Later
<1>4. QED
  BY <1>1, <1>2, <1>3, Inductive, PTL DEF Spec

-----------------------------------------------------------------------------
(* The dialer of one container *)

\* The types that the argument needs.
DialTyped ==
    /\ life \in Nat
    /\ dialQ \in Seq(Nat)
    /\ dialing \in Dial \cup {NoDial}
    /\ pc \in [Dial -> {"new", "cycle", "attempt", "dial", "serve", "drain",
                               "close", "exit", "done"}]

\* The starts of the container that the bound allows for.
Starts(l) == IF l <= MaxStarts THEN l ELSE MaxStarts

\* The first n goroutines have started, and there are numbers left for the
\* poll and for every start event that is waiting.
Numbered(n) ==
    /\ \A d \in Dial : pc[d] # "new" <=> d <= n
    /\ n + Len(dialQ) + (IF polled THEN 0 ELSE 1) <= 2 * Starts(life) + 1

\* The inductive invariant.
DialInv == DialTyped /\ (\E n \in Nat : Numbered(n)) /\ OneDialPerContainer

\* It holds initially.
LEMMA DialInit == ASSUME DialerInit PROVE DialInv
<1> USE DEF DialerInit
<1>1. DialTyped
  <2>1. dialQ \in Seq(Nat) /\ life \in Nat
    BY SMTT(30)
  <2>2. QED
    BY <2>1 DEF DialTyped
<1>2. OneDialPerContainer
  BY DEF OneDialPerContainer, Alive
<1>3. Numbered(0)
  <2>1. \A d \in Dial : ~(d <= 0)
    BY SMTT(30), DialBoundsAssumption DEF Dial
  <2>2. 0 + Len(dialQ) + (IF polled THEN 0 ELSE 1) <= 2 * Starts(life) + 1
    BY SMTT(30), DialBoundsAssumption DEF Starts
  <2>3. QED
    BY <2>1, <2>2 DEF Numbered
<1>4. QED
  BY <1>1, <1>2, <1>3 DEF DialInv

\* DialAgent finds a number, starts the goroutine and enters it into the map,
\* or leaves everything as it is.
LEMMA DialAgentStarts ==
    ASSUME DialTyped, OneDialPerContainer, NEW n \in Nat,
           \A d \in Dial : pc[d] # "new" <=> d <= n,
           n <= 2 * MaxStarts, NEW l, DialAgent(l)
    PROVE  /\ dialing' \in Dial \cup {NoDial}
           /\ pc' \in [Dial -> {"new", "cycle", "attempt", "dial", "serve",
                                       "drain", "close", "exit", "done"}]
           /\ OneDialPerContainer'
           /\ \E m \in {n, n + 1} : \A d \in Dial : pc'[d] # "new" <=> d <= m
<1>1. CASE UNCHANGED dialVars
  BY <1>1 DEF dialVars, DialTyped, OneDialPerContainer, Alive
<1>2. CASE ~UNCHANGED dialVars
  <2> DEFINE d == CHOOSE x \in New : \A y \in New : x <= y
  <2>1. dialing = NoDial /\ dialing' = d /\ pc' = [pc EXCEPT ![d] = "cycle"]
    BY <1>2 DEF DialAgent
  <2>2. n + 1 \in Dial /\ \A x \in Dial : x \in Nat /\ (x <= n \/ n + 1 <= x)
    BY SMTT(30), DialBoundsAssumption DEF Dial
  <2>3. ~(n + 1 <= n) /\ \A x \in Dial : x <= n + 1 /\ n + 1 <= x => x = n + 1
    BY <2>2, SMTT(30)
  <2>4. n + 1 \in New /\ \A x \in New : n + 1 <= x
    BY <2>2, <2>3 DEF New
  <2>5. d \in New /\ \A y \in New : d <= y
    BY <2>4
  <2> HIDE DEF d
  <2>6. d = n + 1 /\ d \in Dial
    BY <2>3, <2>4, <2>5 DEF New
  <2>7. \A x \in Dial : x <= n + 1 <=> (x <= n \/ x = n + 1)
    BY <2>2, SMTT(30)
  <2>8. \A x \in Dial : pc'[x] # "new" <=> x <= n + 1
    BY <2>1, <2>6, <2>7 DEF DialTyped
  <2>9. pc' \in [Dial -> {"new", "cycle", "attempt", "dial", "serve",
                                  "drain", "close", "exit", "done"}]
    BY <2>1, <2>6 DEF DialTyped
  <2>10. d # NoDial
    BY <2>6, NoDialAssumption
  <2>11. OneDialPerContainer'
    <3>1. \A x \in Dial : pc[x] \in {"new", "done"}
      BY <2>1 DEF OneDialPerContainer, Alive
    <3>2. \A x \in Dial : pc'[x] \notin {"new", "done"} <=> x = d
      BY <2>1, <2>6, <3>1 DEF DialTyped
    <3>3. QED
      BY <2>1, <2>6, <2>10, <3>2 DEF OneDialPerContainer, Alive
  <2>12. QED
    BY <2>1, <2>6, <2>8, <2>9, <2>11
<1>3. QED
  BY <1>1, <1>2

\* A goroutine that has started goes on to another point of runDial; the last
\* step takes its entry out of the map.
Moves(d, s) ==
    /\ pc[d] \notin {"new", "done"}
    /\ pc' = [pc EXCEPT ![d] = s]
    /\ s = "done" => dialing' = NoDial
    /\ s # "done" => dialing' = dialing
    /\ UNCHANGED <<life, dialQ, polled>>

\* The points of runDial.
Points == {"cycle", "attempt", "dial", "serve", "drain", "close", "exit", "done"}

\* Every step of runDial is such a move.
LEMMA GoroutineMoves ==
    ASSUME NEW d \in Dial, Goroutine(d) \/ StreamBreaks(d)
    PROVE  \E s \in Points : Moves(d, s)
<1> USE DEF Go, Surroundings, containerVars, Moves, Points
<1>1. CASE Cycle(d)
  BY <1>1 DEF Cycle
<1>2. CASE Attempt(d)
  BY <1>2 DEF Attempt
<1>3. CASE Establish(d)
  BY <1>3 DEF Establish
<1>4. CASE EstablishFails(d)
  BY <1>4 DEF EstablishFails
<1>5. CASE Serve(d)
  BY <1>5 DEF Serve
<1>6. CASE DrainEnds(d)
  BY <1>6 DEF DrainEnds
<1>7. CASE CloseConn(d)
  BY <1>7 DEF CloseConn
<1>8. CASE End(d)
  BY <1>8 DEF End
<1>9. CASE StreamBreaks(d)
  BY <1>9 DEF StreamBreaks
<1>10. QED
  BY <1>1, <1>2, <1>3, <1>4, <1>5, <1>6, <1>7, <1>8, <1>9 DEF Goroutine

\* A move keeps the invariant: only the goroutine in the map can make one.
LEMMA MoveKeeps ==
    ASSUME DialInv, NEW d \in Dial, NEW s \in Points, Moves(d, s)
    PROVE  DialInv'
<1>1. PICK n \in Nat : Numbered(n)
  BY DEF DialInv
<1>2. /\ dialing = d
      /\ \A x \in Dial : x # d => pc[x] \in {"new", "done"}
      /\ d # NoDial
  <2>1. d # NoDial
    BY NoDialAssumption
  <2>2. d \in Alive
    BY DEF Alive, Moves
  <2>3. Alive = {d} /\ dialing = d
    BY <2>2 DEF DialInv, OneDialPerContainer
  <2>4. QED
    BY <2>1, <2>3 DEF Alive
<1>3. /\ pc' \in [Dial -> {"new", "cycle", "attempt", "dial", "serve",
                                  "drain", "close", "exit", "done"}]
      /\ \A x \in Dial : x # d => pc'[x] = pc[x]
      /\ pc'[d] = s
  BY DEF DialInv, DialTyped, Moves, Points
<1>4. DialTyped'
  BY <1>3 DEF DialInv, DialTyped, Moves
<1>5. Numbered(n)'
  <2>1. \A x \in Dial : pc'[x] # "new" <=> pc[x] # "new"
    BY <1>3 DEF Moves, Points
  <2>2. QED
    BY <1>1, <2>1 DEF Numbered, Moves
<1>6. OneDialPerContainer'
  <2>1. CASE s = "done"
    <3>1. \A x \in Dial : pc'[x] \in {"new", "done"}
      BY <1>2, <1>3, <2>1
    <3>2. QED
      BY <2>1, <3>1 DEF OneDialPerContainer, Alive, Moves
  <2>2. CASE s # "done"
    <3>1. \A x \in Dial : pc'[x] \notin {"new", "done"} <=> x = d
      BY <1>2, <1>3, <2>2 DEF Points
    <3>2. dialing' = d
      BY <1>2, <2>2 DEF Moves
    <3>3. QED
      BY <1>2, <3>1, <3>2 DEF OneDialPerContainer, Alive
  <2>3. QED
    BY <2>1, <2>2
<1>7. QED
  BY <1>1, <1>4, <1>5, <1>6 DEF DialInv

\* Every step keeps the invariant.
LEMMA DialStep ==
    ASSUME DialInv, [DialerNext]_dialerVars
    PROVE  DialInv'
<1>1. PICK n \in Nat : Numbered(n)
  BY DEF DialInv
<1>2. /\ MaxStarts \in Nat /\ life \in Nat
      /\ dialQ \in Seq(Nat) /\ Len(dialQ) \in Nat
      /\ n + Len(dialQ) + (IF polled THEN 0 ELSE 1) <= 2 * Starts(life) + 1
      /\ Starts(life) \in Nat /\ Starts(life) <= MaxStarts
  BY <1>1, SMTT(30), DialBoundsAssumption DEF DialInv, DialTyped, Numbered,
     Starts
<1>3. ASSUME UNCHANGED <<life, dialQ, polled, dialing, pc>> PROVE DialInv'
  BY <1>3, <1>1 DEF DialInv, DialTyped, Numbered, OneDialPerContainer, Alive
<1>4. ASSUME NEW m \in {n, n + 1}, \A d \in Dial : pc'[d] # "new" <=> d <= m,
             m + Len(dialQ') + (IF polled' THEN 0 ELSE 1) <= 2 * Starts(life') + 1,
             life' \in Nat, dialQ' \in Seq(Nat), dialing' \in Dial \cup {NoDial},
             pc' \in [Dial -> {"new", "cycle", "attempt", "dial", "serve",
                                      "drain", "close", "exit", "done"}],
             OneDialPerContainer'
      PROVE  DialInv'
  <2>1. m \in Nat
    BY <1>4, SMTT(30)
  <2>2. Numbered(m)'
    BY <1>4 DEF Numbered
  <2>3. QED
    BY <1>4, <2>1, <2>2 DEF DialInv, DialTyped
<1>5. CASE LifeBegins
  <2>1. UNCHANGED <<polled, dialing, pc>> /\ life' = life + 1 /\ life < MaxStarts
    BY <1>5 DEF LifeBegins, dialVars
  <2>2. PICK k \in 1 .. 2 : dialQ' = dialQ \o [i \in 1 .. k |-> life + 1]
    BY <1>5 DEF LifeBegins
  <2>3. dialQ' \in Seq(Nat) /\ Len(dialQ') = Len(dialQ) + k
    BY <1>2, <2>2, SMTT(30)
  <2>4. n + Len(dialQ') + (IF polled' THEN 0 ELSE 1) <= 2 * Starts(life') + 1 /\ life' \in Nat
    BY <1>2, <2>1, <2>3, SMTT(30) DEF Starts
  <2>5. QED
    BY <1>1, <1>4, <2>1, <2>3, <2>4
       DEF DialInv, DialTyped, Numbered, OneDialPerContainer, Alive
<1>6. CASE LifeEnds
  BY <1>3, <1>6 DEF LifeEnds, dialVars
<1>7. CASE ContainerSignalled
  BY <1>3, <1>7 DEF ContainerSignalled, dialVars
<1>8. ASSUME NEW l, DialAgent(l), UNCHANGED life, dialQ' \in Seq(Nat),
             Len(dialQ') + (IF polled' THEN 0 ELSE 1) + 1
                = Len(dialQ) + (IF polled THEN 0 ELSE 1)
      PROVE  DialInv'
  <2>1. Len(dialQ') \in Nat
    BY <1>8, SMTT(30)
  <2>2. n <= 2 * MaxStarts
    BY <1>2, <1>8, <2>1, SMTT(30)
  <2>3. \A d \in Dial : pc[d] # "new" <=> d <= n
    BY <1>1 DEF Numbered
  <2>4. /\ dialing' \in Dial \cup {NoDial}
        /\ pc' \in [Dial -> {"new", "cycle", "attempt", "dial", "serve",
                                    "drain", "close", "exit", "done"}]
        /\ OneDialPerContainer'
        /\ \E m \in {n, n + 1} : \A d \in Dial : pc'[d] # "new" <=> d <= m
    BY <1>8, <2>2, <2>3, DialAgentStarts DEF DialInv
  <2>5. \A m \in {n, n + 1} :
           m + Len(dialQ') + (IF polled' THEN 0 ELSE 1) <= 2 * Starts(life') + 1
    BY <1>2, <1>8, <2>1, SMTT(30)
  <2>6. QED
    BY <1>2, <1>4, <1>8, <2>4, <2>5
<1>9. CASE DialAllRunning
  <2>1. UNCHANGED <<life, dialQ>> /\ ~polled /\ polled' = TRUE
    BY <1>9 DEF DialAllRunning, containerVars
  <2>2. CASE UNCHANGED dialVars
    <3>1. n + Len(dialQ') + (IF polled' THEN 0 ELSE 1) <= 2 * Starts(life') + 1
      BY <1>2, <2>1, SMTT(30)
    <3>2. QED
      BY <1>1, <1>2, <1>4, <2>1, <2>2, <3>1
         DEF DialInv, DialTyped, Numbered, OneDialPerContainer, Alive,
             dialVars
  <2>3. CASE DialAgent(life)
    <3>1. Len(dialQ') + (IF polled' THEN 0 ELSE 1) + 1
             = Len(dialQ) + (IF polled THEN 0 ELSE 1)
      BY <1>2, <2>1, SMTT(30)
    <3>2. QED
      BY <1>2, <1>8, <2>1, <2>3, <3>1
  <2>4. QED
    BY <1>9, <2>2, <2>3 DEF DialAllRunning
<1>10. CASE HandleDial
  <2>1. UNCHANGED <<life, polled>> /\ dialQ # <<>> /\ dialQ' = Tail(dialQ)
    BY <1>10 DEF HandleDial, containerVars
  <2>2. dialQ' \in Seq(Nat) /\ Len(dialQ') \in Nat /\ Len(dialQ) = Len(dialQ') + 1
    BY <1>2, <2>1, SMTT(30)
  <2>3. CASE UNCHANGED dialVars
    <3>1. n + Len(dialQ') + (IF polled' THEN 0 ELSE 1) <= 2 * Starts(life') + 1
      BY <1>2, <2>1, <2>2, SMTT(30)
    <3>2. QED
      BY <1>1, <1>2, <1>4, <2>1, <2>2, <2>3, <3>1
         DEF DialInv, DialTyped, Numbered, OneDialPerContainer, Alive,
             dialVars
  <2>4. CASE DialAgent(Head(dialQ))
    <3>1. Len(dialQ') + (IF polled' THEN 0 ELSE 1) + 1
             = Len(dialQ) + (IF polled THEN 0 ELSE 1)
      BY <1>2, <2>1, <2>2, SMTT(30)
    <3>2. QED
      BY <1>8, <2>1, <2>2, <2>4, <3>1
  <2>5. QED
    BY <1>10, <2>3, <2>4 DEF HandleDial
<1>11. CASE HandleCancel
  BY <1>3, <1>11 DEF HandleCancel, containerVars
<1>12. CASE Shutdown
  BY <1>3, <1>12 DEF Shutdown, containerVars
<1>13. ASSUME NEW d \in Dial, Goroutine(d) \/ StreamBreaks(d)
       PROVE  DialInv'
  BY <1>13, GoroutineMoves, MoveKeeps
<1>14. CASE UNCHANGED dialerVars
  BY <1>3, <1>14 DEF dialerVars, containerVars, dialVars
<1>15. QED
  BY <1>5, <1>6, <1>7, <1>9, <1>10, <1>11, <1>12, <1>13, <1>14
     DEF DialerNext, Handlers

\* The container has at most one dial goroutine, the one whose cancel func the
\* Dialing map holds, for any number of starts, signals, breaks and failures
\* (DialAgent, runDial).
THEOREM OneDialPerContainerHolds == DialerSpec => []OneDialPerContainer
<1>1. DialerInit => DialInv
  BY DialInit
<1>2. DialInv /\ [DialerNext]_dialerVars => DialInv'
  BY DialStep
<1>3. DialInv => OneDialPerContainer
  BY DEF DialInv
<1>4. QED
  BY <1>1, <1>2, <1>3, PTL DEF DialerSpec
=============================================================================
