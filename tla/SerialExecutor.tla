--------------------------- MODULE SerialExecutor ---------------------------
(***************************************************************************)
(* What the firewall action queue promises its callers, without saying how *)
(* (controlplane/firewall/queue.go, the doc comments of ActionQueue,       *)
(* Submit and Close).                                                      *)
(*                                                                         *)
(* Accepted submissions are numbered in the order they were accepted.      *)
(* Executions run one at a time and take the next submission or, for a     *)
(* coalescing kind, a run of consecutive submissions of that kind; all of  *)
(* them were accepted before the execution began, and all get its outcome. *)
(* Outcomes are delivered in order, once each, and Close returns only      *)
(* after every accepted submission was answered.                           *)
(***************************************************************************)
EXTENDS Naturals, Sequences

CONSTANTS Submission,    \* identities of Submit calls
          Kind,          \* the action kinds
          Coalescing,    \* the kinds whose consecutive items are merged
          Outcome        \* what a closure can end with

VARIABLES open,        \* submissions are still accepted
          accepted,    \* the accepted items, in order
          running,     \* how many items the current execution answers; 0: idle
          decided,     \* outcomes fixed so far: decided[i] answers accepted[i]
          delivered,   \* how many outcomes reached their submitters
          returned     \* some Close call has returned

vars == <<open, accepted, running, decided, delivered, returned>>

Item == [id : Submission, kind : Kind]

Init ==
    /\ open = TRUE
    /\ accepted = <<>>
    /\ running = 0
    /\ decided = <<>>
    /\ delivered = 0
    /\ returned = FALSE

\* A submission not seen before joins the end of the ledger.
Accept(it) ==
    /\ open
    /\ \A i \in 1..Len(accepted) : accepted[i].id # it.id
    /\ accepted' = Append(accepted, it)
    /\ UNCHANGED <<open, running, decided, delivered, returned>>

\* An execution begins on behalf of the next n undecided submissions.
Begin(n) ==
    LET first == Len(decided) + 1
    IN  /\ running = 0
        /\ n > 0
        /\ Len(decided) + n <= Len(accepted)
        /\ n > 1 => /\ accepted[first].kind \in Coalescing
                    /\ \A i \in 1..n :
                         accepted[Len(decided) + i].kind = accepted[first].kind
        /\ running' = n
        /\ UNCHANGED <<open, accepted, decided, delivered, returned>>

\* It ends, with one outcome for all of them.
End(r) ==
    /\ running > 0
    /\ decided' = decided \o [i \in 1..running |-> r]
    /\ running' = 0
    /\ UNCHANGED <<open, accepted, delivered, returned>>

Deliver ==
    /\ delivered < Len(decided)
    /\ delivered' = delivered + 1
    /\ UNCHANGED <<open, accepted, running, decided, returned>>

Shut ==
    /\ open
    /\ open' = FALSE
    /\ UNCHANGED <<accepted, running, decided, delivered, returned>>

Return ==
    /\ ~open
    /\ delivered = Len(accepted)
    /\ returned' = TRUE
    /\ UNCHANGED <<open, accepted, running, decided, delivered>>

Next ==
    \/ \E it \in Item : Accept(it)
    \/ \E n \in 1..Len(accepted) : Begin(n)
    \/ \E r \in Outcome : End(r)
    \/ Deliver
    \/ Shut
    \/ Return

Spec == Init /\ [][Next]_vars
=============================================================================
