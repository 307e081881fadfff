---------------------------- MODULE AgentDialer ----------------------------
(***************************************************************************)
(* The control plane's connection to one agent container                   *)
(* (controlplane/agent/dialer.go and the subscribers of start.go).         *)
(*                                                                         *)
(* Docker publishes the container's lifecycle events.  Two subscribers,    *)
(* each with a queue and a goroutine of its own, react: one calls          *)
(* DialAgent on a start, one calls CancelDial on a kill or a die.  An      *)
(* initial poll calls DialAgent too.  DialAgent starts a goroutine         *)
(* (runDial) unless the Dialing map holds an entry; the goroutine dials,   *)
(* holds the Session, reconnects when it breaks, and removes the entry     *)
(* when it ends.                                                           *)
(***************************************************************************)
EXTENDS Naturals, Sequences, FiniteSets

CONSTANTS MaxStarts,   \* bound: how often the container starts
          MaxSignals,  \* bound: signals sent to it that it survives
          MaxStreamBreaks,  \* bound: streams that break under a live peer
          Ceiling,     \* CloseErrCeiling
          Faults,      \* what may go wrong in a dial
          NoDial       \* no goroutine

ASSUME DialBoundsAssumption ==
    /\ MaxStarts \in Nat
    /\ MaxSignals \in Nat
    /\ MaxStreamBreaks \in Nat
    /\ Ceiling \in Nat \ {0}
ASSUME FaultAssumption == Faults \subseteq {"timeout", "addr", "close"}

\* One goroutine for each DialAgent that found no entry: a start may be
\* followed by a restart event, and the poll may add one.
Dial == 1 .. 2 * MaxStarts + 1

ASSUME NoDialAssumption == NoDial \notin Dial

VARIABLES
    up,         \* the container (and clawkerd in it) runs
    life,       \* how often it has been started
    signals, streamBreaks,
    dialQ,      \* lives whose start event subscribeDial has yet to handle
    cancelQ,    \* lives whose kill or die event SubscribeSessionCancel has
    polled,     \* DialAllRunning has listed the containers
    dialing,    \* the goroutine whose cancel func Dialing holds, or None
    pc,         \* each goroutine
    cancelled,  \* goroutines whose dialCtx is cancelled
    peer,       \* the life of the clawkerd its Session is with
    closeErrs,  \* closeErrCount
    gaveUp,     \* history: some dial gave up although the container ran
    cause,      \* history: the life whose event or poll started it
    shutdown    \* the control plane's ctx is cancelled

containerVars == <<up, life, signals>>
dialVars == <<dialing, pc, cancelled, peer, closeErrs, cause, gaveUp>>
dialerVars == <<containerVars, streamBreaks, dialQ, cancelQ, polled, dialVars, shutdown>>

Alive == {d \in Dial : pc[d] \notin {"new", "done"}}

\* Goroutines are numbered in the order in which they start.
New == {d \in Dial : pc[d] = "new"}

DialerInit ==
    /\ up \in BOOLEAN
    /\ life = IF up THEN 1 ELSE 0
    /\ signals = 0
    /\ streamBreaks = 0
    /\ dialQ = <<>>
    /\ cancelQ = <<>>
    /\ polled = FALSE
    /\ dialing = NoDial
    /\ pc = [d \in Dial |-> "new"]
    /\ cancelled = {}
    /\ peer = [d \in Dial |-> 0]
    /\ closeErrs = [d \in Dial |-> 0]
    /\ cause = [d \in Dial |-> 0]
    /\ gaveUp = FALSE
    /\ shutdown = FALSE

-----------------------------------------------------------------------------
(* The container. *)

\* docker start publishes start; docker restart publishes restart as well.
LifeBegins ==
    /\ ~up
    /\ life < MaxStarts
    /\ up' = TRUE
    /\ life' = life + 1
    /\ \E n \in 1 .. 2 : dialQ' = dialQ \o [i \in 1 .. n |-> life + 1]
    /\ UNCHANGED <<signals, streamBreaks, cancelQ, polled, dialVars, shutdown>>

LifeEnds ==
    /\ up
    /\ up' = FALSE
    /\ cancelQ' = Append(cancelQ, life)
    /\ UNCHANGED <<life, signals, streamBreaks, dialQ, polled, dialVars, shutdown>>

\* A kill event is published for any signal, an oom event for any process
\* of the container: it may live on.
ContainerSignalled ==
    /\ up
    /\ signals < MaxSignals
    /\ signals' = signals + 1
    /\ cancelQ' = Append(cancelQ, life)
    /\ UNCHANGED <<up, life, streamBreaks, dialQ, polled, dialVars, shutdown>>

-----------------------------------------------------------------------------
(* DialAgent and CancelDial. *)

\* Variant: no dedup.
DialAlways(l) ==
    \E d \in Dial :
        /\ pc[d] = "new"
        /\ dialing' = d
        /\ pc' = [pc EXCEPT ![d] = "cycle"]
        /\ cause' = [cause EXCEPT ![d] = l]
        /\ UNCHANGED <<cancelled, peer, closeErrs, gaveUp>>

DialAgent(l) ==
    \/ /\ dialing # NoDial
       /\ UNCHANGED dialVars
    \/ /\ dialing = NoDial
       /\ LET d == CHOOSE x \in New : \A y \in New : x <= y
          IN  /\ dialing' = d
              /\ pc' = [pc EXCEPT ![d] = "cycle"]
              /\ cause' = [cause EXCEPT ![d] = l]
       /\ UNCHANGED <<cancelled, peer, closeErrs, gaveUp>>

\* DialAllRunning: list the running agents and dial them.  (A list that
\* fails is retried and then given up, as if nothing ran.)
DialAllRunning ==
    /\ ~polled
    /\ polled' = TRUE
    /\ IF up /\ ~shutdown THEN DialAgent(life) ELSE UNCHANGED dialVars
    /\ UNCHANGED <<containerVars, streamBreaks, dialQ, cancelQ, shutdown>>

\* subscribeDial's handler.
HandleDial ==
    /\ dialQ # <<>>
    /\ dialQ' = Tail(dialQ)
    /\ IF shutdown THEN UNCHANGED dialVars ELSE DialAgent(Head(dialQ))
    /\ UNCHANGED <<containerVars, streamBreaks, cancelQ, polled, shutdown>>

\* SubscribeSessionCancel's handler and CancelDial: the entry stays.
HandleCancel ==
    /\ cancelQ # <<>>
    /\ cancelQ' = Tail(cancelQ)
    /\ cancelled' = IF shutdown \/ dialing = NoDial THEN cancelled
                    ELSE cancelled \cup {dialing}
    /\ UNCHANGED <<containerVars, streamBreaks, dialQ, polled, dialing, pc, peer,
                   closeErrs, cause, gaveUp, shutdown>>

Shutdown ==
    /\ ~shutdown
    /\ shutdown' = TRUE
    /\ cancelled' = cancelled \cup Alive
    /\ UNCHANGED <<containerVars, streamBreaks, dialQ, cancelQ, polled, dialing, pc,
                   peer, closeErrs, cause, gaveUp>>

-----------------------------------------------------------------------------
(* The goroutine: runDial. *)

Go(d, s) == pc' = [pc EXCEPT ![d] = s]
Surroundings == <<containerVars, streamBreaks, dialQ, cancelQ, polled, shutdown>>

\* Variant: the ctx is not looked at.
CycleOn(d) ==
    /\ pc[d] = "cycle"
    /\ Go(d, "attempt")
    /\ UNCHANGED <<Surroundings, dialing, cancelled, peer, closeErrs, cause,
                   gaveUp>>

\* The head of the loop, and of every attempt of establishWithRetry.
Cycle(d) ==
    /\ pc[d] = "cycle"
    /\ Go(d, IF d \in cancelled THEN "exit" ELSE "attempt")
    /\ UNCHANGED <<Surroundings, dialing, cancelled, peer, closeErrs, cause,
                   gaveUp>>

\* attemptEstablish's inspect: a container that is gone or stopped is
\* outcomeContainerGone; no address on the network is outcomeAddrInvalid.
Attempt(d) ==
    /\ pc[d] = "attempt"
    /\ \/ up /\ Go(d, "dial")
       \/ ~up /\ Go(d, "exit")
       \/ "addr" \in Faults /\ Go(d, "exit")
    /\ gaveUp' = \/ gaveUp
                 \/ up /\ pc'[d] = "exit"
    /\ UNCHANGED <<Surroundings, dialing, cancelled, peer, closeErrs, cause>>

\* tryEstablish: dial, open the stream, Hello and HelloAck.
Establish(d) ==
    /\ pc[d] = "dial"
    /\ up
    /\ d \notin cancelled
    /\ peer' = [peer EXCEPT ![d] = life]
    /\ Go(d, "serve")
    /\ UNCHANGED <<Surroundings, dialing, cancelled, closeErrs, cause, gaveUp>>

\* handleDialError: back off and try again, or give up at the deadline.
EstablishFails(d) ==
    /\ pc[d] = "dial"
    /\ ~up \/ d \in cancelled \/ "timeout" \in Faults
    /\ \/ Go(d, "cycle")
       \/ "timeout" \in Faults /\ Go(d, "exit")
    /\ gaveUp' = \/ gaveUp
                 \/ up /\ pc'[d] = "exit"
    /\ UNCHANGED <<Surroundings, dialing, cancelled, peer, closeErrs, cause>>

\* DispatchAgentEvents and the init and boot plans: they run to their end,
\* the plans under the control plane's ctx.
Serve(d) ==
    /\ pc[d] = "serve"
    /\ Go(d, "drain")
    /\ UNCHANGED <<Surroundings, dialing, cancelled, peer, closeErrs, cause,
                   gaveUp>>

\* drainStream returns: the ctx was cancelled or the peer is gone ...
DrainEnds(d) ==
    /\ pc[d] = "drain"
    /\ d \in cancelled \/ ~up \/ peer[d] # life
    /\ Go(d, "close")
    /\ UNCHANGED <<Surroundings, dialing, cancelled, peer, closeErrs, cause,
                   gaveUp>>

\* ... or the stream broke.
StreamBreaks(d) ==
    /\ pc[d] = "drain"
    /\ streamBreaks < MaxStreamBreaks
    /\ streamBreaks' = streamBreaks + 1
    /\ Go(d, "close")
    /\ UNCHANGED <<containerVars, dialQ, cancelQ, polled, dialing, cancelled,
                   peer, closeErrs, cause, gaveUp, shutdown>>

\* Variant: a broken stream is not dialled again.
NeverReconnect(d) == FALSE

\* ShouldReconnect.
ShouldReconnect(d) == d \notin cancelled

\* CloseAndCheckLeak, then the decision to reconnect.
CloseConn(d) ==
    /\ pc[d] = "close"
    /\ \E failed \in IF "close" \in Faults THEN BOOLEAN ELSE {FALSE} :
          LET n == IF failed THEN closeErrs[d] + 1 ELSE 0
          IN  /\ closeErrs' = [closeErrs EXCEPT ![d] = n]
              /\ Go(d, IF n < Ceiling /\ ShouldReconnect(d) THEN "cycle"
                       ELSE "exit")
    /\ gaveUp' = \/ gaveUp
                 \/ closeErrs'[d] >= Ceiling
    /\ peer' = [peer EXCEPT ![d] = 0]
    /\ UNCHANGED <<Surroundings, dialing, cancelled, cause>>

\* The deferred delete; the goroutine's locals go with it.
End(d) ==
    /\ pc[d] = "exit"
    /\ Go(d, "done")
    /\ dialing' = NoDial
    /\ cancelled' = cancelled \cup {d}
    /\ closeErrs' = [closeErrs EXCEPT ![d] = 0]
    /\ cause' = [cause EXCEPT ![d] = 0]
    /\ UNCHANGED <<Surroundings, peer, gaveUp>>

-----------------------------------------------------------------------------
Handlers == DialAllRunning \/ HandleDial \/ HandleCancel

Goroutine(d) ==
    \/ Cycle(d)
    \/ Attempt(d)
    \/ Establish(d)
    \/ EstablishFails(d)
    \/ Serve(d)
    \/ DrainEnds(d)
    \/ CloseConn(d)
    \/ End(d)

DialerNext ==
    \/ LifeBegins
    \/ LifeEnds
    \/ ContainerSignalled
    \/ Handlers
    \/ Shutdown
    \/ \E d \in Dial : Goroutine(d) \/ StreamBreaks(d)

\* Handlers and goroutines are scheduled (there is one dial goroutine at a
\* time); an attempt that keeps meeting a live peer eventually succeeds.
DialerFairness ==
    /\ WF_dialerVars(DialAllRunning)
    /\ WF_dialerVars(HandleDial)
    /\ WF_dialerVars(HandleCancel)
    /\ WF_dialerVars(\E d \in Dial : Goroutine(d))
    /\ SF_dialerVars(\E d \in Dial : Establish(d))

DialerSpec == DialerInit /\ [][DialerNext]_dialerVars /\ DialerFairness

-----------------------------------------------------------------------------
(* Properties. *)

\* The variables have their types, and nobody is past the close ceiling.
DialerTypeOK ==
    /\ up \in BOOLEAN
    /\ life \in 0 .. (MaxStarts + 1)
    /\ dialQ \in Seq(1 .. MaxStarts)
    /\ cancelQ \in Seq(1 .. (MaxStarts + 1))
    /\ dialing \in Dial \cup {NoDial}
    /\ pc \in [Dial -> {"new", "cycle", "attempt", "dial", "serve", "drain",
                        "close", "exit", "done"}]
    /\ cancelled \subseteq Dial
    /\ closeErrs \in [Dial -> 0 .. Ceiling]
    /\ gaveUp \in BOOLEAN

\* The dedup map is exact: whatever poll, events, cancels and reconnects
\* interleave, the container has at most one dial goroutine, and it is the
\* one the map's cancel func belongs to.
OneDialPerContainer ==
    Alive = IF dialing = NoDial THEN {} ELSE {dialing}

\* A container that stays down is not dialled forever: whichever events were
\* handled late, its goroutine ends.
StoppedMeansClosed == <>[](~up) => <>[](Alive = {})

\* A control plane that shuts down is left without dial goroutines.
ShutdownEndsDials == shutdown ~> [](Alive = {})

\* A container that was started once, stays up and is not signalled gets a
\* Session and keeps it, unless its dials run into the deadline, its address
\* or the close ceiling: the poll or its start event reaches it, and a broken
\* stream is dialled again.
RunningMeansSession ==
    <>[](up /\ life = 1 /\ signals = 0 /\ ~shutdown /\ ~gaveUp)
        => <>[](\E d \in Dial : pc[d] = "drain")

\* DialAgent drops a start only in favour of a dial that goes on: "after the
\* Session closes (peer drop, ctx cancel, retry timeout), the entry is
\* removed and a future event for the same containerID dials fresh".
DedupSparesDials ==
    [][dialQ # <<>> /\ dialQ' = Tail(dialQ) /\ ~shutdown
         => dialing' # NoDial /\ dialing' \notin cancelled']_dialerVars

\* A cancel ends only a dial that was started no later than the life whose
\* end it reports: the two subscribers "together ... keep the Session
\* connection-state aligned with docker truth".
CancelIsCurrent ==
    [][cancelQ # <<>> /\ cancelQ' = Tail(cancelQ)
         => \A d \in cancelled' \ cancelled : cause[d] <= Head(cancelQ)]_dialerVars

\* A cancel is only ever for a container in which "clawkerd ... can no
\* longer serve".
CancelMeansDown ==
    [][cancelQ # <<>> /\ cancelQ' = Tail(cancelQ) /\ cancelled' # cancelled
         => ~up \/ life # Head(cancelQ)]_dialerVars
=============================================================================
