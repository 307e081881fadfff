------------------------------- MODULE PubSub -------------------------------
(***************************************************************************)
(* One typed topic of the control plane's in-memory pub/sub engine         *)
(* (controlplane/pubsub/engine.go).                                        *)
(*                                                                         *)
(* Publishers hold the topic's read lock across their fan-out; Subscribe   *)
(* and Close take the write lock.  A subscriber's bounded channel is fed   *)
(* by a non-blocking send that evicts the oldest event when it is full,    *)
(* and drained by the subscriber's own goroutine, whose handler may itself *)
(* publish to the topic.  Each channel operation is one action.            *)
(***************************************************************************)
EXTENDS Naturals, Sequences, FiniteSets, Functions

CONSTANTS Producer,    \* goroutines that publish
          Inner,       \* producers that are subscriber handlers of the topic
          Subscriber,  \* handlers that may be subscribed
          TopicCloser, \* calls of Close
          Buffer,      \* t.buffer
          Events,      \* bound: events published in all
          None

ASSUME BufferAssumption == Buffer \in Nat \ {0}
ASSUME EventsAssumption == Events \in Nat
ASSUME NoneAssumption == None \notin Subscriber /\ Inner \subseteq Producer

Event == Producer \X (1 .. Events)

VARIABLES
    subscribers,   \* t.subscribers, in subscription order
    topicClosed,   \* t.closed
    queue,         \* each subscriber's channel
    hand,          \* the event its handler is running on: <<>> or <<e>>
    draining,      \* subscribers whose drain goroutine runs
    pc,            \* each producer: outside Publish, sending or evicting
    at,            \* the index in t.subscribers it has reached
    count,         \* events the producer has published so far
    within,        \* the handler an inner producer's Publish runs in
    topicCloser,   \* each Close call
    publishedTotal, droppedTotal,  \* the counters
    sent,          \* history: events put into each channel, in order
    evicted,       \* history: events evicted from each channel
    delivered      \* history: events each handler was run on

pubVars == <<pc, at, count, within>>
subVars == <<queue, hand, draining, delivered>>
topicVars == <<subscribers, topicClosed, subVars, pubVars, topicCloser,
               publishedTotal, droppedTotal, sent, evicted>>

TopicInit ==
    /\ subscribers = <<>>
    /\ topicClosed = FALSE
    /\ queue = [s \in Subscriber |-> <<>>]
    /\ hand = [s \in Subscriber |-> <<>>]
    /\ draining = {}
    /\ pc = [p \in Producer |-> "out"]
    /\ at = [p \in Producer |-> 0]
    /\ count = [p \in Producer |-> 0]
    /\ within = [p \in Producer |-> None]
    /\ topicCloser = [k \in TopicCloser |-> "idle"]
    /\ publishedTotal = 0
    /\ droppedTotal = 0
    /\ sent = [s \in Subscriber |-> <<>>]
    /\ evicted = [s \in Subscriber |-> {}]
    /\ delivered = [s \in Subscriber |-> <<>>]

-----------------------------------------------------------------------------
(* t.mu: publishers are readers from RLock to their return; a Close that   *)
(* has called Lock keeps new readers out, as Go's RWMutex does.            *)

Readers == {p \in Producer : pc[p] \in {"send", "evict"}}

\* Variant: Close gives up the lock only after wg.Wait.
WriterHoldsOn == \E k \in TopicCloser : topicCloser[k] \in {"locking", "waiting"}

WriterWaits == \E k \in TopicCloser : topicCloser[k] = "locking"

Subscribe(s) ==
    /\ s \notin Range(subscribers)
    /\ ~topicClosed
    /\ s \notin draining
    /\ Readers = {}
    /\ subscribers' = Append(subscribers, s)
    /\ draining' = draining \cup {s}
    /\ UNCHANGED <<topicClosed, queue, hand, delivered, pubVars, topicCloser,
                   publishedTotal, droppedTotal, sent,
                   evicted>>

-----------------------------------------------------------------------------
(* Publish *)

Published == {e \in Event : e[2] <= count[e[1]]}
Current(p) == <<p, count[p]>>
Target(p) == subscribers[at[p]]

\* The goroutine Publish runs on is free: an inner producer publishes from
\* a handler that is running and not already inside Publish.
OnGoroutine(p, s) ==
    IF p \in Inner
    THEN /\ s \in Subscriber
         /\ hand[s] # <<>>
         /\ \A q \in Producer : within[q] # s
    ELSE s = None

Publish(p, s) ==
    /\ pc[p] = "out"
    /\ count[p] < Events
    /\ Cardinality(Published) < Events
    /\ OnGoroutine(p, s)
    /\ pc' = [pc EXCEPT ![p] = "rlock"]
    /\ count' = [count EXCEPT ![p] = @ + 1]
    /\ within' = [within EXCEPT ![p] = s]
    /\ UNCHANGED <<subscribers, topicClosed, subVars, at, topicCloser, publishedTotal,
                   droppedTotal, sent, evicted>>

\* A closed topic: Publish returns false.
PublishRefused(p) ==
    /\ pc[p] = "rlock"
    /\ ~WriterWaits
    /\ topicClosed
    /\ pc' = [pc EXCEPT ![p] = "out"]
    /\ within' = [within EXCEPT ![p] = None]
    /\ UNCHANGED <<subscribers, topicClosed, subVars, at, count, topicCloser,
                   publishedTotal, droppedTotal, sent, evicted>>

FanOut(p) ==
    /\ pc[p] = "rlock"
    /\ ~WriterWaits
    /\ ~topicClosed
    /\ pc' = [pc EXCEPT ![p] = "send"]
    /\ at' = [at EXCEPT ![p] = 1]
    /\ UNCHANGED <<subscribers, topicClosed, subVars, count, within, topicCloser,
                   publishedTotal, droppedTotal, sent, evicted>>

\* Every subscriber has been served: count the event and unlock.
PublishDone(p) ==
    /\ pc[p] = "send"
    /\ at[p] > Len(subscribers)
    /\ publishedTotal' = publishedTotal + 1
    /\ pc' = [pc EXCEPT ![p] = "out"]
    /\ within' = [within EXCEPT ![p] = None]
    /\ UNCHANGED <<subscribers, topicClosed, subVars, at, count, topicCloser,
                   droppedTotal, sent, evicted>>

\* enqueue: case sub.queue <- event.
Send(p) ==
    /\ pc[p] = "send"
    /\ at[p] <= Len(subscribers)
    /\ Len(queue[Target(p)]) < Buffer
    /\ queue' = [queue EXCEPT ![Target(p)] = Append(@, Current(p))]
    /\ sent' = [sent EXCEPT ![Target(p)] = Append(@, Current(p))]
    /\ at' = [at EXCEPT ![p] = @ + 1]
    /\ UNCHANGED <<subscribers, topicClosed, hand, draining, delivered, pc, count,
                   within, topicCloser, publishedTotal, droppedTotal, evicted>>

\* enqueue: the buffer is full; evicting is a second channel operation.
Full(p) ==
    /\ pc[p] = "send"
    /\ at[p] <= Len(subscribers)
    /\ Len(queue[Target(p)]) = Buffer
    /\ pc' = [pc EXCEPT ![p] = "evict"]
    /\ UNCHANGED <<subscribers, topicClosed, subVars, at, count, within, topicCloser,
                   publishedTotal, droppedTotal, sent,
                   evicted>>

\* Variant: the eviction is not counted.
EvictUncounted(p) ==
    LET s == Target(p) IN
    /\ pc[p] = "evict"
    /\ pc' = [pc EXCEPT ![p] = "send"]
    /\ queue[s] # <<>>
    /\ queue' = [queue EXCEPT ![s] = Tail(@)]
    /\ evicted' = [evicted EXCEPT ![s] = @ \cup {Head(queue[s])}]
    /\ UNCHANGED <<subscribers, topicClosed, hand, draining, delivered, at, count,
                   within, topicCloser, publishedTotal, droppedTotal, sent>>

Evict(p) ==
    LET s == Target(p) IN
    /\ pc[p] = "evict"
    /\ pc' = [pc EXCEPT ![p] = "send"]
    /\ IF queue[s] = <<>>
       THEN UNCHANGED <<queue, evicted, droppedTotal>>
       ELSE /\ queue' = [queue EXCEPT ![s] = Tail(@)]
            /\ evicted' = [evicted EXCEPT ![s] = @ \cup {Head(queue[s])}]
            /\ droppedTotal' = droppedTotal + 1
    /\ UNCHANGED <<subscribers, topicClosed, hand, draining, delivered, at, count,
                   within, topicCloser, publishedTotal, sent>>

-----------------------------------------------------------------------------
(* drain and deliver *)

Receive(s) ==
    /\ s \in draining
    /\ hand[s] = <<>>
    /\ queue[s] # <<>>
    /\ hand' = [hand EXCEPT ![s] = <<Head(queue[s])>>]
    /\ queue' = [queue EXCEPT ![s] = Tail(@)]
    /\ UNCHANGED <<subscribers, topicClosed, draining, delivered, pubVars, topicCloser,
                   publishedTotal, droppedTotal, sent,
                   evicted>>

\* The handler returns or panics: deliver recovers, and the loop goes on
\* either way.
Handled(s) ==
    /\ hand[s] # <<>>
    /\ \A p \in Producer : within[p] # s
    /\ delivered' = [delivered EXCEPT ![s] = @ \o hand[s]]
    /\ hand' = [hand EXCEPT ![s] = <<>>]
    /\ UNCHANGED <<subscribers, topicClosed, queue, draining, pubVars, topicCloser,
                   publishedTotal, droppedTotal, sent, evicted>>

\* range over a closed channel ends once it is empty.
DrainExit(s) ==
    /\ s \in draining
    /\ topicClosed
    /\ hand[s] = <<>>
    /\ queue[s] = <<>>
    /\ draining' = draining \ {s}
    /\ UNCHANGED <<subscribers, topicClosed, queue, hand, delivered, pubVars,
                   topicCloser, publishedTotal, droppedTotal,
                   sent, evicted>>

-----------------------------------------------------------------------------
(* Close *)

CloseCall(k) ==
    /\ topicCloser[k] = "idle"
    /\ topicCloser' = [topicCloser EXCEPT ![k] = "locking"]
    /\ UNCHANGED <<subscribers, topicClosed, subVars, pubVars, publishedTotal,
                   droppedTotal, sent, evicted>>

\* Variant: the lock is not taken.
CloseUnlocked(k) ==
    /\ topicCloser[k] = "locking"
    /\ ~topicClosed
    /\ topicClosed' = TRUE
    /\ subscribers' = <<>>
    /\ topicCloser' = [topicCloser EXCEPT ![k] = "waiting"]
    /\ UNCHANGED <<subVars, pubVars, publishedTotal, droppedTotal, sent,
                   evicted>>

\* The first Close empties t.subscribers and closes their channels.
TopicCloseFirst(k) ==
    /\ topicCloser[k] = "locking"
    /\ Readers = {}
    /\ ~topicClosed
    /\ topicClosed' = TRUE
    /\ subscribers' = <<>>
    /\ topicCloser' = [topicCloser EXCEPT ![k] = "waiting"]
    /\ UNCHANGED <<subVars, pubVars, publishedTotal, droppedTotal, sent,
                   evicted>>

\* A later one returns without waiting.
TopicCloseAgain(k) ==
    /\ topicCloser[k] = "locking"
    /\ Readers = {}
    /\ topicClosed
    /\ topicCloser' = [topicCloser EXCEPT ![k] = "again"]
    /\ UNCHANGED <<subscribers, topicClosed, subVars, pubVars, publishedTotal,
                   droppedTotal, sent, evicted>>

\* wg.Wait
TopicCloseReturn(k) ==
    /\ topicCloser[k] = "waiting"
    /\ draining = {}
    /\ topicCloser' = [topicCloser EXCEPT ![k] = "returned"]
    /\ UNCHANGED <<subscribers, topicClosed, subVars, pubVars, publishedTotal,
                   droppedTotal, sent, evicted>>

-----------------------------------------------------------------------------
InPublish(p) ==
    \/ PublishRefused(p) \/ FanOut(p) \/ PublishDone(p)
    \/ Send(p) \/ Full(p) \/ Evict(p)

Drain(s) == Receive(s) \/ Handled(s) \/ DrainExit(s)

InClose(k) == TopicCloseFirst(k) \/ TopicCloseAgain(k) \/ TopicCloseReturn(k)

TopicNext ==
    \/ \E s \in Subscriber : Subscribe(s) \/ Drain(s)
    \/ \E p \in Producer :
          \/ \E s \in Subscriber \cup {None} : Publish(p, s)
          \/ InPublish(p)
    \/ \E k \in TopicCloser : CloseCall(k) \/ InClose(k)

TopicSpec == TopicInit /\ [][TopicNext]_topicVars

\* Goroutines that have begun go on; nobody need publish, subscribe or close.
TopicFairness ==
    /\ \A p \in Producer : WF_topicVars(InPublish(p))
    /\ \A s \in Subscriber : WF_topicVars(Drain(s))
    /\ \A k \in TopicCloser : WF_topicVars(InClose(k))

TopicFairSpec == TopicSpec /\ TopicFairness

-----------------------------------------------------------------------------
(* Properties *)

\* The variables have their types, channels stay within their buffer and every
\* subscriber in the list has a running drain goroutine.
TopicTypeOK ==
    /\ subscribers \in Seq(Subscriber)
    /\ Range(subscribers) \subseteq draining
    /\ topicClosed \in BOOLEAN
    /\ queue \in [Subscriber -> Seq(Event)]
    /\ hand \in [Subscriber -> Seq(Event)]
    /\ sent \in [Subscriber -> Seq(Event)]
    /\ delivered \in [Subscriber -> Seq(Event)]
    /\ \A s \in Subscriber : Len(queue[s]) <= Buffer /\ Len(hand[s]) <= 1
    /\ evicted \in [Subscriber -> SUBSET Event]
    /\ draining \subseteq Subscriber
    /\ pc \in [Producer -> {"out", "rlock", "send", "evict"}]
    /\ at \in [Producer -> Nat]
    /\ count \in [Producer -> 0 .. Events]
    /\ within \in [Producer -> Subscriber \cup {None}]
    /\ topicCloser \in [TopicCloser -> {"idle", "locking", "waiting", "returned",
                              "again"}]
    /\ publishedTotal \in Nat
    /\ droppedTotal \in Nat

\* Publish never sends on a closed channel: the read lock held across the
\* fan-out keeps Close out.
NoSendOnClosed == topicClosed => Readers = {}

\* What a subscriber has handled, is handling and will handle, in that order.
Kept(s) == delivered[s] \o hand[s] \o queue[s]

\* e occurs in the sequence q before f.
Before(q, e, f) == \E i, j \in DOMAIN q : i < j /\ q[i] = e /\ q[j] = f

\* The evictions, over all subscribers.
Dropped == {d \in Subscriber \X Event : d[2] \in evicted[d[1]]}

\* What was put into a subscriber's channel is handled once, in that order,
\* except what was evicted; and every eviction is counted in DroppedTotal.
NothingLost ==
    /\ \A s \in Subscriber :
          /\ Range(sent[s]) = Range(Kept(s)) \cup evicted[s]
          /\ Range(Kept(s)) \cap evicted[s] = {}
          /\ \A e, f \in Event :
                Before(Kept(s), e, f) => e # f /\ Before(sent[s], e, f)
    /\ droppedTotal = Cardinality(Dropped)

\* Newest wins: when no Publish is under way, the last event put into a
\* channel has not been evicted.
NewestSurvives ==
    Readers = {} => \A s \in Subscriber :
        sent[s] # <<>> => sent[s][Len(sent[s])] \notin evicted[s]

\* When the first Close returns, every event that was accepted for a
\* subscriber has been handled or evicted.
TopicDrains ==
    (\E k \in TopicCloser : topicCloser[k] = "returned") =>
        \A s \in Subscriber : queue[s] = <<>> /\ hand[s] = <<>>

\* Close returns, even while handlers that it waits for publish to the topic.
CloseReturns == \A k \in TopicCloser :
    topicCloser[k] = "locking" ~> topicCloser[k] \in {"returned", "again"}

\* Publish never blocks for good, not even a handler's own, however full the
\* buffers are and however slow the subscribers.
PublishReturns == \A p \in Producer : pc[p] # "out" ~> pc[p] = "out"

=============================================================================
