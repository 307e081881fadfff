---------------------------- MODULE ActionQueue ----------------------------
(***************************************************************************)
(* The firewall action queue of the control plane                          *)
(* (controlplane/firewall/queue.go): any number of RPC goroutines and      *)
(* bypass timers call Submit, one worker goroutine pops, coalesces,        *)
(* executes and replies, and the drain sequence calls Close.               *)
(*                                                                         *)
(* Every critical section of q.mu is one action.  The worker's wait on     *)
(* q.cond is the phase "parked": only Submit's Signal and Close's          *)
(* Broadcast lead out of it.  What a closure does is left open: it ends    *)
(* with some member of Outcome, a panic among them.                        *)
(***************************************************************************)
EXTENDS Naturals, Sequences

CONSTANTS Submission,    \* identities of Submit calls
          Closer,        \* identities of Close calls
          Kind           \* the action kinds in play

ActionKind == {"bringup", "teardown", "reconcile", "read", "enable",
               "disable", "bypass"}

ASSUME KindAssumption == Kind \subseteq ActionKind

\* ActionKind.Coalesces: only a reconcile regenerates everything from the
\* store, so only reconciles may share an execution.
Coalesces(k) == k = "reconcile"

VARIABLES
    buffer,      \* q.buffer: accepted items the worker has not popped
    closed,      \* q.closed
    cancelled,   \* q.ctx is cancelled
    phase,       \* where the worker goroutine is
    batch,       \* items popped together and not yet answered; the first one
                 \* popped is the one whose closure runs
    result,      \* what execute returned for the batch being answered
    reply,       \* contents of each submission's reply channel, in order sent
    closer,      \* where each Close call is
    accepted,    \* history: items appended to the buffer, in order
    decided,     \* history: outcomes of executions, one per popped item
    answered     \* history: items replied to, in order

vars == <<buffer, closed, cancelled, phase, batch, result, reply, closer,
          accepted, decided, answered>>

Outcome == {"value", "error", "panic"}
Refusal == {"errClosed", "errNilClosure"}
NoResult == "none"

Item == [id : Submission, kind : Kind]

Init ==
    /\ buffer = <<>>
    /\ closed = FALSE
    /\ cancelled = FALSE
    /\ phase = "next"
    /\ batch = <<>>
    /\ result = NoResult
    /\ reply = [s \in Submission |-> <<>>]
    /\ closer = [c \in Closer |-> "idle"]
    /\ accepted = <<>>
    /\ decided = <<>>
    /\ answered = <<>>

\* A Submit call is made once; its reply channel is new.
Fresh(s) ==
    /\ reply[s] = <<>>
    /\ \A i \in 1..Len(accepted) : accepted[i].id # s

\* Variant used to show that the properties notice: a missing Signal.
WakeNobody == UNCHANGED phase

\* cond.Signal and cond.Broadcast: the worker is the only waiter.
Wake == phase' = IF phase = "parked" THEN "next" ELSE phase

-----------------------------------------------------------------------------
(* Submit *)

\* fn == nil: answered without taking the lock.
SubmitNil(s) ==
    /\ Fresh(s)
    /\ reply' = [reply EXCEPT ![s] = Append(@, "errNilClosure")]
    /\ UNCHANGED <<buffer, closed, cancelled, phase, batch, result, closer,
                   accepted, decided, answered>>

\* Variant: the early return after the ErrClosed reply is missing.
SubmitClosedFallsThrough(s) ==
    LET it == [id |-> s, kind |-> CHOOSE k \in Kind : TRUE]
    IN  /\ Fresh(s)
        /\ closed
        /\ reply' = [reply EXCEPT ![s] = Append(@, "errClosed")]
        /\ buffer' = Append(buffer, it)
        /\ accepted' = Append(accepted, it)
        /\ UNCHANGED <<closed, cancelled, phase, batch, result, closer,
                       decided, answered>>

SubmitClosed(s) ==
    /\ Fresh(s)
    /\ closed
    /\ reply' = [reply EXCEPT ![s] = Append(@, "errClosed")]
    /\ UNCHANGED <<buffer, closed, cancelled, phase, batch, result, closer,
                   accepted, decided, answered>>

Submit(s, k) ==
    LET it == [id |-> s, kind |-> k]
    IN  /\ Fresh(s)
        /\ ~closed
        /\ buffer' = Append(buffer, it)
        /\ accepted' = Append(accepted, it)
        /\ Wake
        /\ UNCHANGED <<closed, cancelled, batch, result, reply, closer,
                       decided, answered>>

-----------------------------------------------------------------------------
(* Close *)

CloseFirst(c) ==
    /\ closer[c] = "idle"
    /\ ~closed
    /\ closed' = TRUE
    /\ cancelled' = TRUE
    /\ Wake
    /\ closer' = [closer EXCEPT ![c] = "waiting"]
    /\ UNCHANGED <<buffer, batch, result, reply, accepted, decided, answered>>

CloseAgain(c) ==
    /\ closer[c] = "idle"
    /\ closed
    /\ closer' = [closer EXCEPT ![c] = "waiting"]
    /\ UNCHANGED <<buffer, closed, cancelled, phase, batch, result, reply,
                   accepted, decided, answered>>

\* Variant: the worker sends on q.done instead of closing it.
CloseReturnOnce(c) ==
    /\ closer[c] = "waiting"
    /\ phase = "exited"
    /\ \A d \in Closer : closer[d] # "returned"
    /\ closer' = [closer EXCEPT ![c] = "returned"]
    /\ UNCHANGED <<buffer, closed, cancelled, phase, batch, result, reply,
                   accepted, decided, answered>>

\* <-q.done: the worker's deferred close(q.done) releases every Close.
CloseReturn(c) ==
    /\ closer[c] = "waiting"
    /\ phase = "exited"
    /\ closer' = [closer EXCEPT ![c] = "returned"]
    /\ UNCHANGED <<buffer, closed, cancelled, phase, batch, result, reply,
                   accepted, decided, answered>>

-----------------------------------------------------------------------------
(* The worker: next, execute and the reply loop of run. *)

Park ==
    /\ phase = "next"
    /\ buffer = <<>>
    /\ ~closed
    /\ phase' = "parked"
    /\ UNCHANGED <<buffer, closed, cancelled, batch, result, reply, closer,
                   accepted, decided, answered>>

Exit ==
    /\ phase = "next"
    /\ buffer = <<>>
    /\ closed
    /\ phase' = "exited"
    /\ UNCHANGED <<buffer, closed, cancelled, batch, result, reply, closer,
                   accepted, decided, answered>>

\* Variant: every kind coalesces.
PopsTogetherAnyKind(b, n) ==
    /\ \A i \in 1..n : b[i].kind = b[1].kind
    /\ n < Len(b) => b[n + 1].kind # b[1].kind

\* next pops the first n items of b: just the head or, when its kind
\* coalesces, the longest run of that kind.
PopsTogether(b, n) ==
    /\ n > 1 => Coalesces(b[1].kind)
    /\ \A i \in 1..n : b[i].kind = b[1].kind
    /\ Coalesces(b[1].kind) /\ n < Len(b) => b[n + 1].kind # b[1].kind

\* Variant: coalescing also collects peers from behind other kinds.
PopSkipsOver(n) ==
    LET Peer(it) == \/ it = buffer[1]
                    \/ /\ Coalesces(buffer[1].kind)
                       /\ it.kind = buffer[1].kind
        Other(it) == ~Peer(it)
    IN  /\ phase = "next"
        /\ PopsTogether(buffer, n)
        /\ batch' = SelectSeq(buffer, Peer)
        /\ buffer' = SelectSeq(buffer, Other)
        /\ phase' = "execute"
        /\ UNCHANGED <<closed, cancelled, result, reply, closer, accepted,
                       decided, answered>>

Pop(n) ==
    /\ phase = "next"
    /\ PopsTogether(buffer, n)
    /\ batch' = SubSeq(buffer, 1, n)
    /\ buffer' = SubSeq(buffer, n + 1, Len(buffer))
    /\ phase' = "execute"
    /\ UNCHANGED <<closed, cancelled, result, reply, closer, accepted,
                   decided, answered>>

\* execute runs the head's closure; a panic is recovered and becomes an
\* outcome like any other.
Execute(r) ==
    /\ phase = "execute"
    /\ result' = r
    /\ decided' = decided \o [i \in 1..Len(batch) |-> r]
    /\ phase' = "reply"
    /\ UNCHANGED <<buffer, closed, cancelled, batch, reply, closer, accepted,
                   answered>>

ReplyHead ==
    /\ phase = "reply"
    /\ reply' = [reply EXCEPT ![Head(batch).id] = Append(@, result)]
    /\ answered' = Append(answered, Head(batch))
    /\ batch' = Tail(batch)
    /\ IF Len(batch) = 1
       THEN phase' = "next" /\ result' = NoResult
       ELSE UNCHANGED <<phase, result>>
    /\ UNCHANGED <<buffer, closed, cancelled, closer, accepted, decided>>

Worker ==
    \/ Park
    \/ Exit
    \/ \E n \in 1..Len(buffer) : Pop(n)
    \/ \E r \in Outcome : Execute(r)
    \/ ReplyHead

Next ==
    \/ \E s \in Submission : \/ SubmitNil(s)
                             \/ SubmitClosed(s)
                             \/ \E k \in Kind : Submit(s, k)
    \/ \E c \in Closer : CloseFirst(c) \/ CloseAgain(c) \/ CloseReturn(c)
    \/ Worker

Spec == Init /\ [][Next]_vars

\* The worker goroutine keeps running, closures end (they honour the queue
\* context or carry their own deadline), and a released Close returns.
Fairness ==
    /\ WF_vars(Worker)
    /\ \A c \in Closer : WF_vars(CloseReturn(c))

FairSpec == Spec /\ Fairness

-----------------------------------------------------------------------------
(* Properties *)

\* The variables have the shapes the code gives them.
TypeOK ==
    /\ buffer \in Seq(Item)
    /\ closed \in BOOLEAN
    /\ cancelled \in BOOLEAN
    /\ phase \in {"next", "parked", "execute", "reply", "exited"}
    /\ batch \in Seq(Item)
    /\ result \in Outcome \cup {NoResult}
    /\ reply \in [Submission -> Seq(Outcome \cup Refusal)]
    /\ closer \in [Closer -> {"idle", "waiting", "returned"}]
    /\ accepted \in Seq(Item)
    /\ decided \in Seq(Outcome)
    /\ answered \in Seq(Item)

\* queue.go:92 "strict FIFO order across kinds": what was answered, what is
\* being answered and what waits, put together, is exactly what was accepted,
\* in order.  No item is lost, duplicated or overtaken by coalescing.
Ledger == accepted = answered \o batch \o buffer

\* queue.go:129 "a channel that will receive exactly one ActionResult": no
\* reply channel ever gets a second value (it has room for one, so a second
\* send would block the worker for good), and the ones that got none belong
\* to submissions that are still waiting.
OneReply ==
    \A s \in Submission :
        /\ Len(reply[s]) <= 1
        /\ (\E i \in 1..Len(answered) : answered[i].id = s)
             => Len(reply[s]) = 1
        /\ (\E i \in 1..Len(accepted) : accepted[i].id = s) /\ reply[s] # <<>>
             => \E i \in 1..Len(answered) : answered[i].id = s

\* queue.go:95 "submissions accepted before Close was called run to
\* completion": when a Close call has returned, the worker is gone and
\* every accepted submission holds the outcome of an execution.
CloseDrains ==
    (\E c \in Closer : closer[c] = "returned") =>
        /\ phase = "exited"
        /\ \A i \in 1..Len(accepted) :
             /\ reply[accepted[i].id] # <<>>
             /\ reply[accepted[i].id][1] \in Outcome

\* The worker never sleeps on work or past a Close (no lost wake-up between
\* the check in next and cond.Wait).
NoLostWakeup == phase = "parked" => buffer = <<>> /\ ~closed

\* Every accepted submission is answered and every Close returns.
EveryoneAnswered ==
    /\ \A s \in Submission :
         (\E i \in 1..Len(accepted) : accepted[i].id = s) ~> reply[s] # <<>>
    /\ \A c \in Closer : closer[c] = "waiting" ~> closer[c] = "returned"

\* The queue implements what its documentation promises.
Promise == INSTANCE SerialExecutor WITH
    Coalescing <- {k \in Kind : Coalesces(k)},
    open <- ~closed,
    running <- IF phase = "execute" THEN Len(batch) ELSE 0,
    delivered <- Len(answered),
    returned <- \E c \in Closer : closer[c] = "returned"

Implements == Promise!Spec
=============================================================================
