SPECIFICATION ExecutorSpec
CONSTANTS
    Cmd = {c1, c2}
    Timed = {c1, c2}
    Fatal = {c1}
    QueueDepth = 1
    SessionFaults = {"spawn", "read", "stream", "grace", "eof"}
    MaxFaults = 1
    None = None
CHECK_DEADLOCK FALSE
INVARIANTS TerminalIsLast FatalDoneArrives
PROPERTIES CommandsAnswered
