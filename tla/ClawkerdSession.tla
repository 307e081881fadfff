--------------------------- MODULE ClawkerdSession ---------------------------
(***************************************************************************)
(* One CP-to-clawkerd Session stream and the shell commands it runs        *)
(* (clawkerd/session.go).                                                  *)
(*                                                                         *)
(* The receiver starts a worker per ShellCommand; the worker spawns the    *)
(* stages, reaps them, drains their output and sends one terminal          *)
(* Response.  All Responses go through a bounded channel to one sender.    *)
(* A send gives up when the ctx of its command is done: if there is room   *)
(* as well, Go's select takes either case.  A command has one stage here,  *)
(* at most one output chunk, and an id of its own.                         *)
(***************************************************************************)
EXTENDS Naturals, Sequences, FiniteSets, Functions

CONSTANTS Cmd,         \* command ids
          Timed,       \* those with timeout_seconds > 0
          Fatal,       \* those with exit_on_non_zero
          QueueDepth,  \* sendQueueDepth
          SessionFaults,      \* what may fail
          MaxFaults,   \* bound: how many times, timeouts included
          None

SessionFaultKinds == {"spawn", "read", "stream", "grace", "eof"}

ASSUME CommandAssumption == Timed \subseteq Cmd /\ Fatal \subseteq Cmd
ASSUME NoneAssumption == None # "session" /\ {None, "session"} \cap Cmd = {}
ASSUME DepthAssumption == QueueDepth \in Nat \ {0}
ASSUME SessionFaultsAssumption ==
    SessionFaults \subseteq SessionFaultKinds /\ MaxFaults \in Nat

VARIABLES
    worker,     \* where runShellCommand is, by command
    process,    \* the stage's process
    stdinOpen,  \* commands whose CloseStdin has not been handled
    stageReaper,     \* the stage reaper
    drainer,    \* the output drainer
    cancelled,  \* commands whose ctx was cancelled on its own
    timedOut,   \* the timedOut flags
    ctxDone,    \* the session ctx
    sendCh,     \* Responses queued for the sender
    sender,     \* runSender
    wire,       \* Responses written to the stream, by command
    stream,     \* the transport: "up", "halfClosed" by CP, "broken", "down"
    receiver,   \* runReceiver
    stop,       \* the body of Stop
    stopper,    \* who runs it
    exited      \* requestExit was called

workerVars == <<worker, process, stageReaper, drainer, stdinOpen>>
ctxVars == <<cancelled, timedOut, ctxDone>>
endVars == <<stop, stopper, exited>>
sessionVars == <<workerVars, ctxVars, sendCh, sender, wire, stream, receiver, endVars>>

SessionInit ==
    /\ worker = [c \in Cmd |-> "new"]
    /\ process = [c \in Cmd |-> "none"]
    /\ stdinOpen = {}
    /\ stageReaper = [c \in Cmd |-> "none"]
    /\ drainer = [c \in Cmd |-> "none"]
    /\ cancelled = {}
    /\ timedOut = {}
    /\ ctxDone = FALSE
    /\ sendCh = <<>>
    /\ sender = "run"
    /\ wire = [c \in Cmd |-> <<>>]
    /\ stream = "up"
    /\ receiver = "recv"
    /\ stop = "no"
    /\ stopper = None
    /\ exited = FALSE

Done(c) == ctxDone \/ c \in cancelled
Registered(c) == worker[c] \notin {"new", "ended"}
Broken == stream \in {"broken", "down"}
Ended == {c \in Cmd : worker[c] = "ended"}

\* What has gone wrong so far.
FaultCount ==
    Cardinality(timedOut)
    + Cardinality({c \in Ended : process[c] = "none"})
    + Cardinality({c \in Cmd : drainer[c] = "broken"})
    + (IF stream \in {"halfClosed", "broken"} THEN 1 ELSE 0)
    + (IF stop = "late" THEN 1 ELSE 0)

Fails(f) == f \in SessionFaults /\ FaultCount < MaxFaults

\* session.send under the command's ctx.
send(c, payload) ==
    \/ Len(sendCh) < QueueDepth /\ sendCh' = Append(sendCh, <<c, payload>>)
    \/ Done(c) /\ UNCHANGED sendCh

-----------------------------------------------------------------------------
(* The receiver: ShellCommand and CloseStdin frames, and the stream's end. *)

startShellCommand(c) ==
    /\ receiver = "recv"
    /\ stream = "up"
    /\ worker[c] = "new"
    /\ worker' = [worker EXCEPT ![c] = "spawn"]
    /\ stdinOpen' = stdinOpen \cup {c}
    /\ UNCHANGED <<process, stageReaper, drainer, ctxVars, sendCh, sender, wire,
                   stream, receiver, endVars>>

\* The command is looked up, and its stdin closed once initial_stdin is
\* written; a command that has ended is answered UNKNOWN_COMMAND_ID, under
\* the session's ctx.
routeCloseStdin(c) ==
    /\ receiver = "recv"
    /\ stream = "up"
    /\ \/ /\ Registered(c)
          /\ c \in stdinOpen
          /\ worker[c] # "spawn"
          /\ stdinOpen' = stdinOpen \ {c}
          /\ UNCHANGED sendCh
       \/ /\ worker[c] = "ended"
          /\ c \in stdinOpen
          /\ stdinOpen' = stdinOpen \ {c}
          /\ \/ Len(sendCh) < QueueDepth /\ sendCh' = Append(sendCh, <<c, "unknown">>)
             \/ ctxDone /\ UNCHANGED sendCh
    /\ UNCHANGED <<worker, process, stageReaper, drainer, ctxVars, sender, wire,
                   stream, receiver, endVars>>

\* CP closes its side, or the transport breaks.
StreamEnds ==
    /\ stream = "up"
    /\ \/ Fails("eof") /\ stream' = "halfClosed"
       \/ Fails("stream") /\ stream' = "broken"
    /\ UNCHANGED <<workerVars, ctxVars, sendCh, sender, wire, receiver,
                   endVars>>

runReceiverEnds ==
    /\ receiver = "recv"
    /\ stream # "up"
    /\ receiver' = "ended"
    /\ UNCHANGED <<workerVars, ctxVars, sendCh, sender, wire, stream, endVars>>

-----------------------------------------------------------------------------
(* runShellCommand. *)

Spawn(c) ==
    /\ worker[c] = "spawn"
    /\ worker' = [worker EXCEPT ![c] = "started"]
    /\ process' = [process EXCEPT ![c] = "running"]
    /\ UNCHANGED <<stdinOpen, stageReaper, drainer, ctxVars, sendCh, sender, wire,
                   stream, receiver, endVars>>

\* The Error is sent before the ctx is cancelled; a done ctx fails Start.
CmdSpawnFails(c) ==
    /\ worker[c] = "spawn"
    /\ Fails("spawn") \/ Done(c)
    /\ send(c, "Error")
    /\ cancelled' = cancelled \cup {c}
    /\ worker' = [worker EXCEPT ![c] = "ended"]
    /\ UNCHANGED <<process, stdinOpen, stageReaper, drainer, timedOut, ctxDone,
                   sender, wire, stream, receiver, endVars>>

\* Started is sent, the timer armed, reaper and drainer launched.
Started(c) ==
    /\ worker[c] = "started"
    /\ send(c, "Started")
    /\ worker' = [worker EXCEPT ![c] = "run"]
    /\ stageReaper' = [stageReaper EXCEPT ![c] = "wait"]
    /\ drainer' = [drainer EXCEPT ![c] = "first"]
    /\ UNCHANGED <<process, stdinOpen, ctxVars, sender, wire, stream, receiver,
                   endVars>>

\* The watchdog of a timed command, until the worker returns.
Timeout(c) ==
    /\ c \in Timed \ timedOut /\ FaultCount < MaxFaults
    /\ worker[c] \in {"run", "timeout", "finish"}
    /\ timedOut' = timedOut \cup {c}
    /\ cancelled' = cancelled \cup {c}
    /\ UNCHANGED <<workerVars, ctxDone, sendCh, sender, wire, stream, receiver,
                   endVars>>

\* The process ends by itself, or by the SIGKILL of CommandContext.
ProcessExits(c) ==
    /\ process[c] = "running"
    /\ process' = [process EXCEPT ![c] = "dead"]
    /\ UNCHANGED <<worker, stdinOpen, stageReaper, drainer, ctxVars, sendCh, sender,
                   wire, stream, receiver, endVars>>

Killed(c) == Done(c) /\ ProcessExits(c)

\* Cmd.Wait: the process is dead and the goroutine that copies stdin, which is
\* not a file, has seen its end.
CmdWait(c) ==
    /\ stageReaper[c] = "wait"
    /\ process[c] = "dead"
    /\ c \notin stdinOpen
    /\ stageReaper' = [stageReaper EXCEPT ![c] = "waited"]
    /\ UNCHANGED <<worker, process, stdinOpen, drainer, ctxVars, sendCh, sender,
                   wire, stream, receiver, endVars>>

StageExit(c) ==
    /\ stageReaper[c] = "waited"
    /\ send(c, "StageExit")
    /\ stageReaper' = [stageReaper EXCEPT ![c] = "done"]
    /\ UNCHANGED <<worker, process, stdinOpen, drainer, ctxVars, sender, wire,
                   stream, receiver, endVars>>

\* drainOutput: a chunk, then the end of the output, or a read error.
drainOutput(c) ==
    /\ \/ /\ drainer[c] = "first"
          /\ send(c, "Output")
          /\ drainer' = [drainer EXCEPT ![c] = "more"]
       \/ /\ drainer[c] \in {"first", "more"}
          /\ process[c] = "dead"
          /\ drainer' = [drainer EXCEPT ![c] = "done"]
          /\ UNCHANGED sendCh
       \/ /\ drainer[c] \in {"first", "more"}
          /\ Fails("read")
          /\ send(c, "Error")
          /\ drainer' = [drainer EXCEPT ![c] = "broken"]
    /\ UNCHANGED <<worker, process, stdinOpen, stageReaper, ctxVars, sender, wire,
                   stream, receiver, endVars>>

\* Variant: the drainer is not waited for.
DecideEarly(c) ==
    /\ worker[c] = "run"
    /\ stageReaper[c] = "done"
    /\ worker' = [worker EXCEPT ![c] = IF c \in timedOut THEN "timeout"
                                                         ELSE "finish"]
    /\ UNCHANGED <<process, stdinOpen, stageReaper, drainer, ctxVars, sendCh, sender,
                   wire, stream, receiver, endVars>>

\* Reaper and drainer have returned; the timedOut flag is read.
Decide(c) ==
    /\ worker[c] = "run"
    /\ stageReaper[c] = "done"
    /\ drainer[c] \in {"done", "broken"}
    /\ worker' = [worker EXCEPT ![c] = IF c \in timedOut THEN "timeout"
                                                         ELSE "finish"]
    /\ UNCHANGED <<process, stdinOpen, stageReaper, drainer, ctxVars, sendCh, sender,
                   wire, stream, receiver, endVars>>

\* The TIMEOUT error, under the ctx that the timeout cancelled.
FinishTimeout(c) ==
    /\ worker[c] = "timeout"
    /\ send(c, "Error")
    /\ worker' = [worker EXCEPT ![c] = "ended"]
    /\ cancelled' = cancelled \cup {c}
    /\ UNCHANGED <<process, stdinOpen, stageReaper, drainer, timedOut, ctxDone,
                   sender, wire, stream, receiver, endVars>>

\* Variant: a fatal command skips Stop.
FinishAbrupt(c) ==
    /\ worker[c] = "finish"
    /\ send(c, "Done")
    /\ \/ /\ worker' = [worker EXCEPT ![c] = "ended"]
          /\ cancelled' = cancelled \cup {c}
          /\ UNCHANGED stopper
       \/ /\ c \in Fatal
          /\ worker' = [worker EXCEPT ![c] = "exit"]
          /\ stopper' = IF stopper = None THEN c ELSE stopper
          /\ UNCHANGED cancelled
    /\ UNCHANGED <<process, stdinOpen, stageReaper, drainer, timedOut, ctxDone,
                   sender, wire, stream, receiver, stop, exited>>

\* Done; a non-zero exit of a fatal command goes on to Stop.
FinishDone(c) ==
    /\ worker[c] = "finish"
    /\ send(c, "Done")
    /\ \/ /\ worker' = [worker EXCEPT ![c] = "ended"]
          /\ cancelled' = cancelled \cup {c}
       \/ /\ c \in Fatal
          /\ worker' = [worker EXCEPT ![c] = "stop"]
          /\ UNCHANGED cancelled
    /\ UNCHANGED <<process, stdinOpen, stageReaper, drainer, timedOut, ctxDone,
                   sender, wire, stream, receiver, endVars>>

\* requestExit, and the worker's deferred cleanup.
RequestExit(c) ==
    /\ worker[c] = "exit"
    /\ exited' = TRUE
    /\ worker' = [worker EXCEPT ![c] = "ended"]
    /\ cancelled' = cancelled \cup {c}
    /\ UNCHANGED <<process, stdinOpen, stageReaper, drainer, timedOut, ctxDone,
                   sendCh, sender, wire, stream, receiver, stop, stopper>>

\* The daemon then closes the listener under the stream.
ForceClose ==
    /\ exited
    /\ ~Broken
    /\ stream' = "down"
    /\ UNCHANGED <<workerVars, ctxVars, sendCh, sender, wire, receiver, endVars>>

-----------------------------------------------------------------------------
(* Stop, by runSession when the receiver has ended or by a fatal worker.   *)

RunningCmd == {c \in Cmd : Registered(c)}

StopBegins ==
    /\ stop = "no"
    /\ \/ receiver = "ended" /\ stopper' = "session"
       \/ \E c \in Cmd : worker[c] = "stop" /\ stopper' = c
    /\ cancelled' = cancelled \cup RunningCmd
    /\ stop' = "draining"
    /\ UNCHANGED <<workerVars, timedOut, ctxDone, sendCh, sender, wire, stream,
                   receiver, exited>>

\* The sender has flushed, or the grace is over.
SessionStopEnds ==
    /\ stop = "draining"
    /\ \/ sender = "ended" /\ stop' = "done"
       \/ sender # "ended" /\ Fails("grace") /\ stop' = "late"
    /\ ctxDone' = TRUE
    /\ UNCHANGED <<workerVars, cancelled, timedOut, sendCh, sender, wire, stream,
                   receiver, stopper, exited>>

\* stopOnce: whoever called Stop returns when its body has.
StopReturns(c) ==
    /\ worker[c] = "stop"
    /\ stop \in {"done", "late"}
    /\ worker' = [worker EXCEPT ![c] = "exit"]
    /\ UNCHANGED <<process, stdinOpen, stageReaper, drainer, ctxVars, sendCh, sender,
                   wire, stream, receiver, endVars>>

-----------------------------------------------------------------------------
(* runSender. *)

\* A queued Response goes out, or the stream is broken and the session ends.
runSender ==
    /\ sender \in {"run", "drain"}
    /\ sendCh # <<>>
    /\ sendCh' = Tail(sendCh)
    /\ \/ /\ ~Broken
          /\ wire' = [wire EXCEPT ![Head(sendCh)[1]] = Append(@, Head(sendCh)[2])]
          /\ UNCHANGED <<sender, ctxDone>>
       \/ /\ Broken
          /\ ctxDone' = TRUE
          /\ sender' = "ended"
          /\ UNCHANGED wire
    /\ UNCHANGED <<workerVars, cancelled, timedOut, stream, receiver, endVars>>

\* Variant: the sender returns as soon as the channel is empty.
SenderQuits ==
    /\ \/ sender = "run" /\ stop # "no" /\ sender' = "drain"
       \/ sender \in {"run", "drain"} /\ sendCh = <<>> /\ sender' = "ended"
    /\ UNCHANGED <<workerVars, ctxVars, sendCh, wire, stream, receiver, endVars>>

\* Stop closed drainCh; drainAndSend returns when the channel is empty.
drainAndSend ==
    /\ \/ sender = "run" /\ stop # "no" /\ sender' = "drain"
       \/ sender = "drain" /\ sendCh = <<>> /\ sender' = "ended"
    /\ UNCHANGED <<workerVars, ctxVars, sendCh, wire, stream, receiver, endVars>>

\* The session ctx is done: what is queued is dropped.  A broken stream ends
\* the ctx it was derived from.
SenderDiscards ==
    /\ sender = "run"
    /\ ctxDone \/ Broken
    /\ sender' = "ended"
    /\ sendCh' = <<>>
    /\ ctxDone' = TRUE
    /\ UNCHANGED <<workerVars, cancelled, timedOut, wire, stream, receiver,
                   endVars>>

-----------------------------------------------------------------------------
Worker(c) ==
    \/ Spawn(c) \/ Started(c) \/ Killed(c) \/ CmdWait(c) \/ StageExit(c)
    \/ drainOutput(c) \/ Decide(c) \/ FinishTimeout(c) \/ FinishDone(c)
    \/ StopReturns(c) \/ RequestExit(c)

Session ==
    \/ runReceiverEnds \/ StopBegins \/ SessionStopEnds \/ ForceClose
    \/ runSender \/ drainAndSend \/ SenderDiscards

SessionNext ==
    \/ \E c \in Cmd :
          \/ startShellCommand(c)
          \/ routeCloseStdin(c)
          \/ Worker(c)
          \/ CmdSpawnFails(c)
          \/ Timeout(c)
          \/ ProcessExits(c)
    \/ Session
    \/ StreamEnds

\* Goroutines are scheduled, and a command's process ends.
SessionFairness ==
    /\ WF_sessionVars(Session)
    /\ \A c \in Cmd :
          /\ WF_sessionVars(Worker(c))
          /\ WF_sessionVars(ProcessExits(c))

SessionSpec == SessionInit /\ [][SessionNext]_sessionVars /\ SessionFairness

\* CP sends CloseStdin after every command, as its executor does.
ExecutorSpec == SessionSpec /\ \A c \in Cmd : WF_sessionVars(routeCloseStdin(c))

-----------------------------------------------------------------------------
(* Properties. *)

Payload == {"Started", "Output", "StageExit", "Done", "Error", "unknown"}

\* The variables have their types; the channel respects its depth.
SessionTypeOK ==
    /\ worker \in [Cmd -> {"new", "spawn", "started", "run", "timeout",
                           "finish", "stop", "exit", "ended"}]
    /\ process \in [Cmd -> {"none", "running", "dead"}]
    /\ stageReaper \in [Cmd -> {"none", "wait", "waited", "done"}]
    /\ drainer \in [Cmd -> {"none", "first", "more", "done", "broken"}]
    /\ stdinOpen \subseteq Cmd
    /\ cancelled \subseteq Cmd
    /\ timedOut \subseteq Timed
    /\ ctxDone \in BOOLEAN
    /\ sendCh \in Seq(Cmd \X Payload)
    /\ Len(sendCh) <= QueueDepth
    /\ wire \in [Cmd -> Seq(Payload)]
    /\ sender \in {"run", "drain", "ended"}
    /\ stream \in {"up", "halfClosed", "broken", "down"}
    /\ receiver \in {"recv", "ended"}
    /\ stop \in {"no", "draining", "done", "late"}
    /\ stopper \in Cmd \cup {None, "session"}
    /\ exited \in BOOLEAN

Terminal == {"Done", "Error"}

\* p was sent about c, and q after it: on the stream, or queued behind it.
SentAfter(c, p, q) ==
    \/ \E i, j \in DOMAIN wire[c] : i < j /\ wire[c][i] = p /\ wire[c][j] = q
    \/ p \in Range(wire[c]) /\ <<c, q>> \in Range(sendCh)
    \/ \E i, j \in DOMAIN sendCh : i < j /\ sendCh[i] = <<c, p>> /\ sendCh[j] = <<c, q>>

\* A terminal Response is the last word on its command: no second one, and no
\* Started, Output or StageExit after it ("so chunks can't arrive after Done"),
\* unless reading its output failed.
TerminalIsLast ==
    \A c \in Cmd, t \in Terminal, q \in Payload :
        SentAfter(c, t, q) /\ drainer[c] # "broken" => q = "unknown"

\* "Every ShellCommand command_id terminates with exactly one of Done OR
\* Error": never two, read errors of the output included.
OneTerminal ==
    \A c \in Cmd, t, u \in Terminal : ~SentAfter(c, t, u)

\* A command that takes the daemon down has its Done on the stream before
\* requestExit is called, unless the stream broke, the grace ran out, or its
\* timeout fired after the worker had looked: the ctx of the Done is cancelled.
FatalDoneArrives ==
    \A c \in Cmd :
        (exited /\ stopper = c /\ c \notin timedOut /\ stream # "broken" /\ stop # "late")
        => "Done" \in Range(wire[c])

Answered(c) ==
    \E t \in Terminal : t \in Range(wire[c]) \/ <<c, t>> \in Range(sendCh)

\* A worker that returns while the session is alive has answered, unless its
\* timeout fired: a failed spawn and every other early return included.
EndedMeansAnswered ==
    \A c \in Ended \ timedOut : (stop = "no" /\ stream = "up") => Answered(c)

\* "Every ShellCommand command_id terminates with exactly one of Done OR
\* Error", after a timeout as well.
TimeoutMeansAnswered ==
    \A c \in Ended : (stop = "no" /\ stream = "up") => Answered(c)

\* Every command CP starts is answered on the stream, unless its timeout fires
\* or something takes the session down: no cycle of full channel, reaper and
\* drainer holds it up.
CommandsAnswered ==
    \A c \in Cmd : worker[c] # "new" ~>
        \/ Terminal \cap Range(wire[c]) # {}
        \/ stop # "no" \/ c \in timedOut

\* Once Stop has quiesced the session, every worker returns.
TeardownEndsWorkers ==
    \A c \in Cmd : (stop \in {"done", "late"} /\ Registered(c)) ~> worker[c] = "ended"

\* A command whose timeout fires ends.
TimeoutEnds ==
    \A c \in Cmd : c \in timedOut ~> worker[c] = "ended"
=============================================================================
