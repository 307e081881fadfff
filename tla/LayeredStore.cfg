CONSTANTS
    p1 = p1  p2 = p2  c1 = c1  c2 = c2  e1 = e1  f1 = f1  f2 = f2  a = a  b = b
    Proc = {p1, p2}
    Caller = {c1, c2, e1}
    Editor = {e1}
    Owner <- MCOwner
    File = {f1, f2}
    Order <- MCOrder
    DefaultFile = f1
    Field = {"rules", "plain", "tags", "legacy"}
    UnionField = {"tags"}
    TxnField = {"rules"}
    LegacyField = {"legacy"}
    Elem = {a, b}
    Entry <- MCEntry
    Defaults <- MCDefaults
    InitDisk <- MCInitDisk
    Lock = TRUE
    MaxOps <- MCOps
    MaxFaults = 1
    Absent = Absent  Missing = Missing  None = None
SPECIFICATION Spec
INVARIANTS NoLostWrites  TxnKeepsAll
CHECK_DEADLOCK FALSE
