SPECIFICATION FairSpec
CONSTANTS
    Submission = {s1, s2, s3}
    Closer = {c1, c2}
    Kind = {"reconcile", "enable"}
INVARIANTS Ledger OneReply
PROPERTIES Implements EveryoneAnswered
CHECK_DEADLOCK FALSE
