--------------------------- MODULE MCLayeredStore ---------------------------
(***************************************************************************)
(* Instances of LayeredStore.  p1 runs two goroutines that append to the   *)
(* field "rules" inside Txn; p2 runs an editor on the other fields of the  *)
(* same files.                                                             *)
(***************************************************************************)
EXTENDS LayeredStore

CONSTANTS p1, p2, c1, c2, e1, f1, f2, a, b

MCOwner == [c \in Caller |-> IF c = e1 THEN p2 ELSE p1]
MCEntry == [c \in Caller |-> IF c = c1 THEN a ELSE b]
MCOps == [c \in Caller |-> IF c = e1 THEN 3 ELSE 1]
MCOrder == <<f1, f2>>
MCDefaults == [x \in Field |-> IF x = "plain" THEN {a} ELSE Absent]

\* The low-priority file exists and still carries the legacy field.
MCInitDisk ==
    [f \in File |-> IF f = f1 THEN Missing
                    ELSE [x \in Field |-> IF x \in {"rules", "legacy"} THEN {} ELSE Absent]]

\* Transactions on both processes (a locked state file of two CLI processes).
TwoProcOwner == [c \in Caller |-> IF c = c1 THEN p1 ELSE p2]
=============================================================================
