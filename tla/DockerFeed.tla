----------------------------- MODULE DockerFeed -----------------------------
(***************************************************************************)
(* From Docker's event stream to the agent registry                        *)
(* (controlplane/dockerevents, ReapOrphans and SubscribeEvict of           *)
(* controlplane/agent/start.go, Register of agent/register_handler.go).    *)
(*                                                                         *)
(* The feeder notes the time, lists the containers, publishes an event for *)
(* each, and then streams Docker's events since that time; when the stream *)
(* breaks it starts over.  At start the control plane reaps the registry   *)
(* rows of containers that are gone, then subscribes; from then on a       *)
(* destroy event evicts the row.  Docker's history is a sequence, and a    *)
(* time is a position in it.                                               *)
(***************************************************************************)
EXTENDS Naturals, Sequences, FiniteSets

CONSTANTS Container,   \* managed agent containers
          MaxEvents,   \* bound: events Docker publishes
          MaxBreaks,   \* bound: failed lists and deletes, broken streams
          Registers,   \* agents register while we watch
          None

ASSUME BoundsAssumption == MaxEvents \in Nat /\ MaxBreaks \in Nat
ASSUME RegistersAssumption == Registers \in BOOLEAN

VARIABLES
    state,      \* Docker's state of each container
    log,        \* the events Docker has published
    breaks,     \* failures so far
    feeder,     \* where Feeder.Run is
    t0,         \* its anchor: the events before this position are past
    listed,     \* what ContainerList returned
    pos,        \* events of log the open stream has delivered
    published,  \* the last action published for each container
    boot,       \* where startAgentDialer is
    live,       \* what ReapOrphans' list returned
    reaped,     \* the reap of this start succeeded
    evictQ,     \* the evict subscriber's queue
    rows,       \* the agent registry
    register    \* Register calls between the identity check and Add

dockerVars == <<state, log>>
feederVars == <<feeder, t0, listed, pos, breaks>>
agentVars == <<boot, live, reaped, rows, register>>
vars == <<dockerVars, feederVars, agentVars, published, evictQ>>

Exists(c) == state[c] \in {"running", "exited"}

Init ==
    /\ state \in [Container -> {"none", "running", "exited", "gone"}]
    /\ log = <<>>
    /\ breaks = 0
    /\ feeder = "anchor"
    /\ t0 = 0
    /\ listed = {}
    /\ pos = 0
    /\ published = [c \in Container |-> None]
    /\ boot = "list"
    /\ live = {}
    /\ reaped = FALSE
    /\ evictQ = <<>>
    /\ rows \in SUBSET {c \in Container : state[c] # "none"}
    /\ register = {}

-----------------------------------------------------------------------------
(* Docker. *)

Happens(c, s, a) ==
    /\ Len(log) < MaxEvents
    /\ state' = [state EXCEPT ![c] = s]
    /\ log' = Append(log, <<c, a>>)
    /\ UNCHANGED <<feederVars, agentVars, published, evictQ>>

ContainerStart(c) == state[c] \in {"none", "exited"} /\ Happens(c, "running", "start")
ContainerDie(c) == state[c] = "running" /\ Happens(c, "exited", "die")
ContainerDestroy(c) == state[c] = "exited" /\ Happens(c, "gone", "destroy")

-----------------------------------------------------------------------------
(* Publishing: a topic without subscribers drops the event; the evict      *)
(* subscriber takes the destroys.                                          *)

Deliver(e) ==
    evictQ' = IF boot = "up" /\ e[2] = "destroy" THEN Append(evictQ, e) ELSE evictQ

-----------------------------------------------------------------------------
(* Feeder.Run. *)

\* t0 := time.Now(), before the listing.
Anchor ==
    /\ feeder = "anchor"
    /\ t0' = Len(log)
    /\ feeder' = "list"
    /\ UNCHANGED <<dockerVars, agentVars, published, evictQ, listed, pos,
                   breaks>>

\* reconcile's ContainerList (All: true).
List ==
    /\ feeder = "list"
    /\ listed' = {<<c, state[c]>> : c \in {x \in Container : Exists(x)}}
    /\ feeder' = "publish"
    /\ UNCHANGED <<dockerVars, agentVars, published, evictQ, t0, pos, breaks>>

ListFails ==
    /\ feeder = "list"
    /\ breaks < MaxBreaks
    /\ breaks' = breaks + 1
    /\ feeder' = "backoff"
    /\ UNCHANGED <<dockerVars, agentVars, published, evictQ, t0, listed, pos>>

containerActionFromState(s) == IF s = "running" THEN "start" ELSE "die"

\* Variant: the stream is opened without Since.
OpenNow ==
    /\ feeder = "publish"
    /\ published' = [c \in Container |->
           IF \E s \in {"running", "exited"} : <<c, s>> \in listed
           THEN containerActionFromState(
                    CHOOSE s \in {"running", "exited"} : <<c, s>> \in listed)
           ELSE published[c]]
    /\ feeder' = "stream"
    /\ pos' = Len(log)
    /\ UNCHANGED <<dockerVars, agentVars, evictQ, t0, listed, breaks>>

\* reconcile publishes the action that would have led to the listed state,
\* and nothing for a container that is no longer listed.
reconcile ==
    /\ feeder = "publish"
    /\ published' = [c \in Container |->
           IF \E s \in {"running", "exited"} : <<c, s>> \in listed
           THEN containerActionFromState(
                    CHOOSE s \in {"running", "exited"} : <<c, s>> \in listed)
           ELSE published[c]]
    /\ feeder' = "stream"
    /\ pos' = t0
    /\ UNCHANGED <<dockerVars, agentVars, evictQ, t0, listed, breaks>>

\* runStream: the next event since t0, through dispatchContainer.
Dispatch ==
    /\ feeder = "stream"
    /\ pos < Len(log)
    /\ pos' = pos + 1
    /\ published' = [published EXCEPT ![log[pos + 1][1]] = log[pos + 1][2]]
    /\ Deliver(log[pos + 1])
    /\ UNCHANGED <<dockerVars, agentVars, feeder, t0, listed, breaks>>

\* The stream ends: cleanly or with an error, the loop sleeps and goes on.
StreamEnds ==
    /\ feeder = "stream"
    /\ breaks < MaxBreaks
    /\ breaks' = breaks + 1
    /\ feeder' = "backoff"
    /\ UNCHANGED <<dockerVars, agentVars, published, evictQ, t0, listed, pos>>

\* Variant: the loop returns after so many errors.
GiveUp ==
    /\ feeder = "backoff"
    /\ breaks < MaxBreaks
    /\ feeder' = "anchor"
    /\ UNCHANGED <<dockerVars, agentVars, published, evictQ, t0, listed, pos,
                   breaks>>

Retry ==
    /\ feeder = "backoff"
    /\ feeder' = "anchor"
    /\ UNCHANGED <<dockerVars, agentVars, published, evictQ, t0, listed, pos,
                   breaks>>

-----------------------------------------------------------------------------
(* The agent domain: reap, subscribe, evict, register. *)

\* Variant: the reap lists running containers only.
ReapListRunning ==
    /\ boot = "list"
    /\ live' = {c \in Container : state[c] = "running"}
    /\ boot' = "evict"
    /\ UNCHANGED <<dockerVars, feederVars, published, evictQ, reaped, rows,
                   register>>

ReapList ==
    /\ boot = "list"
    /\ live' = {c \in Container : Exists(c)}
    /\ boot' = "evict"
    /\ UNCHANGED <<dockerVars, feederVars, published, evictQ, reaped, rows,
                   register>>

\* ReapOrphans: every row whose container was not listed.
ReapOrphans ==
    /\ boot = "evict"
    /\ rows' = rows \cap live
    /\ reaped' = TRUE
    /\ boot' = "subscribe"
    /\ UNCHANGED <<dockerVars, feederVars, published, evictQ, live, register>>

\* The list fails three times: start-up goes on without the reap.
ReapFails ==
    /\ boot = "list"
    /\ breaks < MaxBreaks
    /\ breaks' = breaks + 1
    /\ boot' = "subscribe"
    /\ UNCHANGED <<dockerVars, feeder, t0, listed, pos, published, evictQ, live,
                   reaped, rows, register>>

\* SubscribeEvict, and the dials begin.
Subscribe ==
    /\ boot = "subscribe"
    /\ boot' = "up"
    /\ UNCHANGED <<dockerVars, feederVars, published, evictQ, live, reaped,
                   rows, register>>

\* SubscribeEvict's handler.
Evict ==
    /\ evictQ # <<>>
    /\ rows' = rows \ {Head(evictQ)[1]}
    /\ evictQ' = Tail(evictQ)
    /\ UNCHANGED <<dockerVars, feederVars, published, boot, live, reaped,
                   register>>

\* The registry refuses the delete: the row stays until the next reap.
EvictFails ==
    /\ evictQ # <<>>
    /\ breaks < MaxBreaks
    /\ breaks' = breaks + 1
    /\ evictQ' = Tail(evictQ)
    /\ UNCHANGED <<dockerVars, feeder, t0, listed, pos, agentVars, published>>

\* A Register call passes IdentityInterceptor: a running container owns the
\* peer's address.
Identify(c) ==
    /\ Registers
    /\ boot = "up"
    /\ state[c] = "running"
    /\ register' = register \cup {c}
    /\ UNCHANGED <<dockerVars, feederVars, published, evictQ, boot, live,
                   reaped, rows>>

\* Its handler adds the row, or finds the row it added before.
Register(c) ==
    /\ c \in register
    /\ register' = register \ {c}
    /\ rows' = rows \cup {c}
    /\ UNCHANGED <<dockerVars, feederVars, published, evictQ, boot, live,
                   reaped>>

-----------------------------------------------------------------------------
Feeder == Anchor \/ List \/ reconcile \/ Dispatch \/ Retry
Boot == ReapList \/ ReapOrphans \/ Subscribe

Next ==
    \/ \E c \in Container :
          \/ ContainerStart(c)
          \/ ContainerDie(c)
          \/ ContainerDestroy(c)
          \/ Identify(c)
          \/ Register(c)
    \/ Feeder
    \/ ListFails
    \/ StreamEnds
    \/ Boot
    \/ ReapFails
    \/ Evict
    \/ EvictFails

\* The feeder's goroutine, start-up, the subscriber and the RPCs are
\* scheduled; Docker is free to do nothing.
Fairness ==
    /\ WF_vars(Feeder)
    /\ WF_vars(Boot)
    /\ WF_vars(Evict)
    /\ WF_vars(\E c \in Container : Register(c))

Spec == Init /\ [][Next]_vars /\ Fairness

-----------------------------------------------------------------------------
(* Properties. *)

\* The variables have their types; a stream is never ahead of Docker.
TypeOK ==
    /\ state \in [Container -> {"none", "running", "exited", "gone"}]
    /\ log \in Seq(Container \X {"start", "die", "destroy"})
    /\ feeder \in {"anchor", "list", "publish", "stream", "backoff"}
    /\ t0 \in 0 .. Len(log)
    /\ listed \subseteq Container \X {"running", "exited"}
    /\ pos \in 0 .. Len(log)
    /\ published \in [Container -> {None, "start", "die", "destroy"}]
    /\ boot \in {"list", "evict", "subscribe", "up"}
    /\ live \subseteq Container
    /\ evictQ \in Seq(Container \X {"destroy"})
    /\ reaped \in BOOLEAN
    /\ rows \subseteq Container
    /\ register \subseteq Container

CaughtUp == feeder = "stream" /\ pos = Len(log)

\* Once the stream has delivered what there is, the last event published for
\* every existing container is the one that led to its state, in spite of
\* broken streams and of events that are published twice, once by reconcile
\* and once by the replay since t0.
CaughtUpIsCurrent ==
    CaughtUp => \A c \in Container :
        Exists(c) => published[c] = containerActionFromState(state[c])

\* The same for removals: those that reconcile does not publish "were either
\* delivered as events ... or will be replayed on the next stream open".
RemovalsArrive ==
    CaughtUp => \A c \in Container :
        state[c] = "gone" => published[c] \in {None, "destroy"}

\* Neither the start-up reap nor an evict, however late, takes the row of a
\* container that exists: a stopped agent keeps its identity.
LiveRowsStay ==
    [][\A c \in Container : c \in rows \ rows' => state[c] = "gone"]_vars

Destroyed == {log[i][1] : i \in {j \in 1 .. Len(log) : log[j][2] = "destroy"}}

\* What the reap leaves behind is young: after a reap that succeeded, a
\* row without a container is that of one destroyed since it started.
GhostsAreYoung ==
    reaped =>
        \A c \in rows : state[c] = "gone" => c \in Destroyed

\* No row outlives its container once the events are handled: "the destroy
\* subscription will catch future evictions".
NoGhostRows ==
    /\ boot = "up"
    /\ CaughtUp
    /\ evictQ = <<>>
    /\ register = {}
    => \A c \in rows : Exists(c)

\* A container that stays running is announced as started, whatever breaks.
StartsArrive ==
    \A c \in Container :
        <>[](state[c] = "running") => <>[](published[c] = "start")
=============================================================================
