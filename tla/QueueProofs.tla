---------------------------- MODULE QueueProofs ----------------------------
(***************************************************************************)
(* Proofs about the control plane's two queues: the firewall action queue, *)
(* for any sets of submissions, Close calls and kinds, and a topic of the  *)
(* pub/sub engine, for any producers, subscribers, Close calls and buffer. *)
(***************************************************************************)
EXTENDS ActionQueue, PubSub, SequenceTheorems, TLAPS

\* The leaves are first-order unless they name SMT.
USE Zenon

(***************************************************************************)
(* Facts about sequences used by the ledger argument.                      *)
(***************************************************************************)

\* Cutting a sequence in two loses nothing.
LEMMA CutInTwo ==
    ASSUME NEW S, NEW s \in Seq(S), NEW n \in 1..Len(s)
    PROVE  /\ SubSeq(s, 1, n) \in Seq(S)
           /\ SubSeq(s, n + 1, Len(s)) \in Seq(S)
           /\ Len(SubSeq(s, 1, n)) = n
           /\ SubSeq(s, 1, n) \o SubSeq(s, n + 1, Len(s)) = s
<1>1. Len(s) \in Nat /\ \A i \in 1..Len(s) : s[i] \in S
  BY LenProperties
<1>2. SubSeq(s, 1, n) \in Seq(S) /\ Len(SubSeq(s, 1, n)) = n
  BY SMTT(30), <1>1, SubSeqProperties
<1>3. SubSeq(s, n + 1, Len(s)) \in Seq(S)
  BY SMTT(30), <1>1, SubSeqProperties
<1>4. SubSeq(s, 1, n) \o SubSeq(s, n + 1, Len(s)) = SubSeq(s, 1, Len(s))
  BY SMTT(30), <1>1, ConcatAdjacentSubSeq
<1> QED
  BY <1>2, <1>3, <1>4, SubSeqFull

\* Moving the head of b to the end of a does not change their concatenation.
LEMMA MoveHead ==
    ASSUME NEW S, NEW a \in Seq(S), NEW b \in Seq(S), b # <<>>
    PROVE  /\ Append(a, Head(b)) \in Seq(S)
           /\ Tail(b) \in Seq(S)
           /\ Append(a, Head(b)) \o Tail(b) = a \o b
<1>1. /\ Head(b) \in S
      /\ Tail(b) \in Seq(S)
      /\ Len(b) \in Nat \ {0}
      /\ Head(b) = b[1]
  BY SMTT(30), HeadTailProperties, EmptySeq
<1>2. Tail(b) = SubSeq(b, 2, Len(b)) /\ SubSeq(b, 1, Len(b)) = b
  BY TailIsSubSeq, SubSeqFull
<1>3. b = <<Head(b)>> \o Tail(b)
  BY SMTT(30), <1>1, <1>2, SubSeqRecursiveFirst
<1>4. Append(a, Head(b)) = a \o <<Head(b)>> /\ Append(a, Head(b)) \in Seq(S)
  BY SMTT(30), <1>1, AppendIsConcat, AppendProperties
<1>5. <<Head(b)>> \in Seq(S)
  BY SMTT(30), <1>1
<1>6. (a \o <<Head(b)>>) \o Tail(b) = a \o (<<Head(b)>> \o Tail(b))
  BY SMTT(30), <1>1, <1>5, ConcatAssociative
<1> QED
  BY <1>1, <1>3, <1>4, <1>6

\* A constant sequence is a sequence.
LEMMA ConstantSeq ==
    ASSUME NEW S, NEW n \in Nat, NEW x \in S
    PROVE  /\ [i \in 1..n |-> x] \in Seq(S)
           /\ Len([i \in 1..n |-> x]) = n
  BY SMTT(30)

(***************************************************************************)
(* The inductive invariant.  Ledger alone is not inductive: ReplyHead must *)
(* know that the batch is not empty (BatchInPhase) and OneReply needs that *)
(* identities do not repeat (Distinct) and that whoever is not yet         *)
(* answered has an empty channel (Replies).                                *)
(***************************************************************************)
BatchInPhase ==
    /\ phase \in {"execute", "reply"} <=> batch # <<>>
    /\ phase = "reply" => result \in Outcome

Distinct ==
    \A i, j \in 1..Len(accepted) : accepted[i].id = accepted[j].id => i = j

Replies ==
    /\ \A s \in Submission : Len(reply[s]) <= 1
    /\ \A i \in 1..Len(accepted) :
         IF i <= Len(answered)
         THEN Len(reply[accepted[i].id]) = 1
              /\ reply[accepted[i].id][1] \in Outcome
         ELSE reply[accepted[i].id] = <<>>

Shutdown ==
    /\ phase = "exited" => closed /\ buffer = <<>>
    /\ \A c \in Closer : closer[c] = "returned" => phase = "exited"

Progress ==
    Len(decided) = Len(answered) + (IF phase = "reply" THEN Len(batch) ELSE 0)

IInv ==
    /\ TypeOK
    /\ BatchInPhase
    /\ Ledger
    /\ Distinct
    /\ Replies
    /\ Shutdown
    /\ NoLostWakeup
    /\ Progress

\* Every step keeps the shapes of the variables.
LEMMA TypeStep == TypeOK /\ BatchInPhase /\ [Next]_vars => TypeOK'
<1> SUFFICES ASSUME TypeOK, BatchInPhase, [Next]_vars PROVE TypeOK'
  OBVIOUS
<1> USE DEF TypeOK, Outcome, Refusal, NoResult
<1>1. ASSUME NEW s \in Submission, SubmitNil(s) PROVE TypeOK'
  BY SMTT(30), <1>1 DEF SubmitNil
<1>2. ASSUME NEW s \in Submission, SubmitClosed(s) PROVE TypeOK'
  BY SMTT(30), <1>2 DEF SubmitClosed
<1>3. ASSUME NEW s \in Submission, NEW k \in Kind, Submit(s, k) PROVE TypeOK'
  BY SMTT(30), <1>3 DEF Submit, Wake, Item
<1>4. ASSUME NEW c \in Closer, CloseFirst(c) PROVE TypeOK'
  BY <1>4 DEF CloseFirst, Wake
<1>5. ASSUME NEW c \in Closer, CloseAgain(c) PROVE TypeOK'
  BY <1>5 DEF CloseAgain
<1>6. ASSUME NEW c \in Closer, CloseReturn(c) PROVE TypeOK'
  BY <1>6 DEF CloseReturn
<1>7. CASE Park
  BY <1>7 DEF Park
<1>8. CASE Exit
  BY <1>8 DEF Exit
<1>9. ASSUME NEW n \in 1..Len(buffer), Pop(n) PROVE TypeOK'
  BY <1>9, CutInTwo DEF Pop
<1>10. ASSUME NEW r \in Outcome, Execute(r) PROVE TypeOK'
  <2>1. /\ Len(batch) \in Nat
        /\ [i \in 1..Len(batch) |-> r] \in Seq(Outcome)
    BY <1>10, ConstantSeq, LenProperties
  <2>2. decided' \in Seq(Outcome)
    BY <1>10, <2>1, ConcatProperties DEF Execute
  <2> QED
    BY <1>10, <2>2 DEF Execute
<1>11. CASE ReplyHead
  <2>1. batch # <<>> /\ result \in Outcome
    BY <1>11 DEF ReplyHead, BatchInPhase
  <2>2. /\ Head(batch) \in Item
        /\ Tail(batch) \in Seq(Item)
        /\ Append(answered, Head(batch)) \in Seq(Item)
    BY <2>1, MoveHead, HeadTailProperties
  <2>3. Head(batch).id \in Submission
    BY <2>2 DEF Item
  <2>4. reply' \in [Submission -> Seq(Outcome \cup Refusal)]
    BY SMTT(30), <1>11, <2>1, <2>3 DEF ReplyHead
  <2> QED
    BY <1>11, <2>2, <2>4 DEF ReplyHead
<1>12. CASE UNCHANGED vars
  BY <1>12 DEF vars
<1> QED
  BY <1>1, <1>2, <1>3, <1>4, <1>5, <1>6, <1>7, <1>8, <1>9, <1>10, <1>11,
     <1>12 DEF Next, Worker

\* The two regroupings of the ledger, for items.
LEMMA Regroup ==
    /\ \A a, b, c \in Seq(Item) : (a \o b) \o c = a \o (b \o c)
    /\ \A a, b, c \in Seq(Item), x \in Item :
         Append(a \o b \o c, x) = a \o b \o Append(c, x)
<1>1. ASSUME NEW a \in Seq(Item), NEW b \in Seq(Item), NEW c \in Seq(Item)
      PROVE  (a \o b) \o c = a \o (b \o c)
  BY SMTT(30), ConcatAssociative
<1>2. ASSUME NEW a \in Seq(Item), NEW b \in Seq(Item), NEW c \in Seq(Item),
             NEW x \in Item
      PROVE  Append(a \o b \o c, x) = a \o b \o Append(c, x)
  <2>1. /\ a \o b \in Seq(Item)
        /\ a \o b \o c \in Seq(Item)
        /\ <<x>> \in Seq(Item)
    BY SMTT(30), ConcatProperties
  <2>2. Append(a \o b \o c, x) = (a \o b \o c) \o <<x>>
    BY <2>1, AppendIsConcat
  <2>3. (a \o b) \o (c \o <<x>>) = (a \o b \o c) \o <<x>>
    BY SMTT(30), <2>1, ConcatAssociative
  <2>4. Append(c, x) = c \o <<x>>
    BY AppendIsConcat
  <2> QED
    BY <2>2, <2>3, <2>4
<1> QED
  BY <1>1, <1>2, Zenon

\* The ledger is balanced after every step.
LEMMA LedgerStep ==
    TypeOK /\ BatchInPhase /\ Ledger /\ [Next]_vars => Ledger'
<1> SUFFICES ASSUME TypeOK, BatchInPhase, Ledger, [Next]_vars PROVE Ledger'
  OBVIOUS
<1>a. /\ buffer \in Seq(Item)
      /\ batch \in Seq(Item)
      /\ answered \in Seq(Item)
  BY DEF TypeOK
<1>1. ASSUME NEW s \in Submission, NEW k \in Kind, Submit(s, k) PROVE Ledger'
  <2> DEFINE it == [id |-> s, kind |-> k]
  <2>1. it \in Item
    BY DEF Item
  <2>2. /\ accepted' = Append(accepted, it)
        /\ buffer' = Append(buffer, it)
        /\ UNCHANGED <<answered, batch>>
    BY <1>1 DEF Submit
  <2> HIDE DEF it
  <2> QED
    BY ZenonT(60), <1>a, <2>1, <2>2, Regroup DEF Ledger
<1>2. ASSUME NEW n \in 1..Len(buffer), Pop(n) PROVE Ledger'
  <2>1. /\ batch = <<>>
        /\ answered' = answered
        /\ accepted' = accepted
        /\ batch' \in Seq(Item)
        /\ buffer' \in Seq(Item)
        /\ batch' \o buffer' = buffer
    BY <1>a, <1>2, CutInTwo DEF Pop, BatchInPhase
  <2>2. accepted = answered \o buffer
    BY <1>a, <2>1, ConcatEmptySeq DEF Ledger
  <2>3. (answered \o batch') \o buffer' = answered \o (batch' \o buffer')
    <3>1. answered \in Seq(Item) /\ batch' \in Seq(Item) /\ buffer' \in Seq(Item)
      BY <1>a, <2>1
    <3> QED
      BY <3>1, Regroup, Zenon
  <2> QED
    BY <2>1, <2>2, <2>3 DEF Ledger
<1>3. CASE ReplyHead
  <2>1. batch # <<>>
    BY <1>3 DEF ReplyHead, BatchInPhase
  <2>2. answered' \o batch' = answered \o batch
    BY SMTT(30), <1>a, <1>3, <2>1, MoveHead DEF ReplyHead
  <2> QED
    BY <1>3, <2>2 DEF ReplyHead, Ledger
<1>4. CASE UNCHANGED <<accepted, answered, batch, buffer>>
  BY <1>4 DEF Ledger
<1> QED
  BY <1>1, <1>2, <1>3, <1>4 DEF Next, Worker, SubmitNil, SubmitClosed,
     CloseFirst, CloseAgain, CloseReturn, Park, Exit, Execute, vars

\* The worker's batch and result agree with its phase after every step.
LEMMA BatchStep ==
    TypeOK /\ BatchInPhase /\ [Next]_vars => BatchInPhase'
<1> SUFFICES ASSUME TypeOK, BatchInPhase, [Next]_vars PROVE BatchInPhase'
  OBVIOUS
<1>1. ASSUME NEW n \in 1..Len(buffer), Pop(n) PROVE BatchInPhase'
  <2>1. Len(batch') = n /\ n > 0
    BY SMTT(30), <1>1, CutInTwo, LenProperties DEF TypeOK, Pop
  <2>2. batch' # <<>>
    BY SMTT(30), <2>1, EmptySeq
  <2> QED
    BY <1>1, <2>2 DEF Pop, BatchInPhase
<1>2. ASSUME NEW r \in Outcome, Execute(r) PROVE BatchInPhase'
  BY <1>2 DEF Execute, BatchInPhase
<1>3. CASE ReplyHead
  <2>1. batch # <<>> /\ result \in Outcome
    BY <1>3 DEF ReplyHead, BatchInPhase
  <2>2. /\ Tail(batch) \in Seq(Item)
        /\ Len(Tail(batch)) = Len(batch) - 1
        /\ Len(batch) \in Nat \ {0}
    BY <2>1, HeadTailProperties, EmptySeq DEF TypeOK
  <2>3. Len(batch) = 1 <=> Tail(batch) = <<>>
    <3>1. Tail(batch) # <<>> => Len(Tail(batch)) \in Nat \ {0}
      BY <2>2, EmptySeq
    <3>2. Tail(batch) = <<>> => Len(Tail(batch)) = 0
      BY EmptySeq
    <3> QED
      BY SMTT(30), <2>2, <3>1, <3>2
  <2> QED
    BY <1>3, <2>1, <2>3 DEF ReplyHead, BatchInPhase
<1>4. ASSUME UNCHANGED <<batch, result>>,
             \/ phase' = phase
             \/ {phase, phase'} \cap {"execute", "reply"} = {}
      PROVE  BatchInPhase'
  BY <1>4 DEF BatchInPhase
<1> QED
  BY <1>1, <1>2, <1>3, <1>4 DEF Next, Worker, SubmitNil, SubmitClosed, Submit,
     Wake, CloseFirst, CloseAgain, CloseReturn, Park, Exit, vars

\* Concatenation of items, position by position.
LEMMA ConcatAt ==
    \A a, b \in Seq(Item) :
        /\ Len(a \o b) = Len(a) + Len(b)
        /\ \A i \in 1..Len(a) + Len(b) :
             (a \o b)[i] = IF i <= Len(a) THEN a[i] ELSE b[i - Len(a)]
  BY ConcatProperties

\* What the balanced ledger says about single positions.
LEMMA LedgerFacts ==
    ASSUME TypeOK, Ledger
    PROVE  /\ Len(accepted) = Len(answered) + Len(batch) + Len(buffer)
           /\ Len(accepted) \in Nat /\ Len(answered) \in Nat
           /\ Len(batch) \in Nat /\ Len(buffer) \in Nat
           /\ \A i \in 1..Len(accepted) : accepted[i] \in Item
           /\ \A i \in 1..Len(answered) : accepted[i] = answered[i]
           /\ batch # <<>> => /\ Len(batch) > 0
                              /\ Head(batch) = accepted[Len(answered) + 1]
           /\ \A i \in 1..Len(batch) : accepted[Len(answered) + i] = batch[i]
           /\ \A i \in 1..Len(buffer) :
                accepted[Len(answered) + Len(batch) + i] = buffer[i]
<1>0. PICK ab : ab = answered \o batch
  OBVIOUS
<1>1. /\ Len(answered) \in Nat
      /\ Len(batch) \in Nat
      /\ Len(buffer) \in Nat
      /\ Len(accepted) \in Nat
      /\ \A i \in 1..Len(accepted) : accepted[i] \in Item
  BY LenProperties DEF TypeOK
<1>2. /\ ab \in Seq(Item)
      /\ Len(ab) = Len(answered) + Len(batch)
      /\ \A i \in 1..Len(answered) : ab[i] = answered[i]
      /\ \A i \in 1..Len(batch) : ab[Len(answered) + i] = batch[i]
  BY SMTT(30), <1>0, <1>1, ConcatProperties DEF TypeOK
<1>3. accepted = ab \o buffer
  BY <1>0 DEF Ledger
<1>4. /\ Len(accepted) = Len(ab) + Len(buffer)
      /\ \A i \in 1..Len(ab) : accepted[i] = ab[i]
      /\ \A i \in 1..Len(buffer) : accepted[Len(ab) + i] = buffer[i]
  <2>1. buffer \in Seq(Item) /\ Len(ab) \in Nat
    BY SMTT(30), <1>1, <1>2 DEF TypeOK
  <2>2. /\ Len(ab \o buffer) = Len(ab) + Len(buffer)
        /\ \A i \in 1..Len(ab) + Len(buffer) :
             (ab \o buffer)[i] = IF i <= Len(ab) THEN ab[i]
                                                ELSE buffer[i - Len(ab)]
    BY <1>2, <2>1, ConcatAt
  <2> QED
    BY SMTT(30), <1>1, <1>3, <2>1, <2>2
<1>5. batch # <<>> => Len(batch) > 0 /\ Head(batch) = batch[1]
  BY SMTT(30), <1>1, EmptySeq DEF TypeOK
<1>6. \A i \in 1..Len(answered) : accepted[i] = answered[i]
  BY SMTT(30), <1>1, <1>2, <1>4
<1>7. \A i \in 1..Len(batch) : accepted[Len(answered) + i] = batch[i]
  BY SMTT(30), <1>1, <1>2, <1>4
<1>8. \A i \in 1..Len(buffer) :
        accepted[Len(answered) + Len(batch) + i] = buffer[i]
  BY <1>1, <1>2, <1>4
<1>9. batch # <<>> => Head(batch) = accepted[Len(answered) + 1]
  BY SMTT(30), <1>1, <1>5, <1>7
<1> QED
  BY <1>1, <1>2, <1>4, <1>5, <1>6, <1>7, <1>8, <1>9

\* What Submit does to the ledger, position by position.
LEMMA SubmitFacts ==
    ASSUME TypeOK, NEW s \in Submission, NEW k \in Kind, Submit(s, k)
    PROVE  /\ Len(accepted) \in Nat
           /\ Len(accepted') = Len(accepted) + 1
           /\ \A i \in 1..Len(accepted) : /\ accepted'[i] = accepted[i]
                                          /\ accepted[i].id # s
           /\ accepted'[Len(accepted) + 1].id = s
           /\ reply' = reply /\ reply[s] = <<>>
           /\ answered' = answered
<1>1. [id |-> s, kind |-> k] \in Item
  BY DEF Item
<1> QED
  BY SMTT(30), <1>1, AppendProperties DEF TypeOK, Submit, Fresh

\* No identity enters the ledger twice.
LEMMA DistinctStep == TypeOK /\ Distinct /\ [Next]_vars => Distinct'
<1> SUFFICES ASSUME TypeOK, Distinct, [Next]_vars PROVE Distinct'
  OBVIOUS
<1>1. ASSUME NEW s \in Submission, NEW k \in Kind, Submit(s, k) PROVE Distinct'
  <2>1. /\ Len(accepted) \in Nat
        /\ Len(accepted') = Len(accepted) + 1
        /\ \A i \in 1..Len(accepted) : /\ accepted'[i] = accepted[i]
                                       /\ accepted[i].id # s
        /\ accepted'[Len(accepted) + 1].id = s
        /\ reply' = reply /\ reply[s] = <<>>
        /\ answered' = answered
    BY <1>1, SubmitFacts
  <2> SUFFICES ASSUME NEW i \in 1..Len(accepted) + 1,
                      NEW j \in 1..Len(accepted) + 1,
                      accepted'[i].id = accepted'[j].id
               PROVE  i = j
    BY <2>1 DEF Distinct
  <2>2. CASE i \in 1..Len(accepted) /\ j \in 1..Len(accepted)
    BY <2>1, <2>2 DEF Distinct
  <2>3. CASE i = Len(accepted) + 1 \/ j = Len(accepted) + 1
    BY SMTT(30), <2>1, <2>3
  <2> QED
    BY SMTT(30), <2>1, <2>2, <2>3
<1>2. CASE UNCHANGED accepted
  BY <1>2 DEF Distinct
<1> QED
  BY <1>1, <1>2 DEF Next, Worker, SubmitNil, SubmitClosed, CloseFirst,
     CloseAgain, CloseReturn, Park, Exit, Pop, Execute, ReplyHead, vars

\* A send goes to an empty channel, and exactly the answered have one.
LEMMA RepliesStep ==
    TypeOK /\ BatchInPhase /\ Ledger /\ Distinct /\ Replies /\ [Next]_vars
        => Replies'
<1> SUFFICES ASSUME TypeOK, BatchInPhase, Ledger, Distinct, Replies,
                    [Next]_vars
             PROVE  Replies'
  OBVIOUS
<1>1. ASSUME NEW s \in Submission, NEW x \in Refusal, Fresh(s),
             reply' = [reply EXCEPT ![s] = Append(@, x)],
             UNCHANGED <<accepted, answered>>
      PROVE  Replies'
  <2>1. Len(reply'[s]) = 1
    BY SMTT(30), <1>1 DEF Fresh, TypeOK
  <2>2. \A i \in 1..Len(accepted) : reply'[accepted[i].id] = reply[accepted[i].id]
    BY <1>1, LedgerFacts DEF Fresh, TypeOK, Item
  <2>3. \A t \in Submission : Len(reply'[t]) <= 1
    BY SMTT(30), <1>1, <2>1 DEF Replies, TypeOK
  <2> QED
    BY <1>1, <2>2, <2>3 DEF Replies
<1>2. ASSUME NEW s \in Submission, NEW k \in Kind, Submit(s, k) PROVE Replies'
  <2>1. Len(answered) <= Len(accepted) /\ Len(answered) \in Nat
    BY SMTT(30), LedgerFacts
  <2>2. /\ Len(accepted) \in Nat
        /\ Len(accepted') = Len(accepted) + 1
        /\ \A i \in 1..Len(accepted) : /\ accepted'[i] = accepted[i]
                                       /\ accepted[i].id # s
        /\ accepted'[Len(accepted) + 1].id = s
        /\ reply' = reply /\ reply[s] = <<>>
        /\ answered' = answered
    BY <1>2, SubmitFacts
  <2>3. ASSUME NEW i \in 1..Len(accepted')
        PROVE  IF i <= Len(answered')
               THEN Len(reply'[accepted'[i].id]) = 1
                    /\ reply'[accepted'[i].id][1] \in Outcome
               ELSE reply'[accepted'[i].id] = <<>>
    <3>1. CASE i \in 1..Len(accepted)
      BY <2>2, <3>1 DEF Replies
    <3>2. CASE i = Len(accepted) + 1
      BY SMTT(30), <2>1, <2>2, <3>2
    <3> QED
      BY SMTT(30), <2>2, <3>1, <3>2
  <2> QED
    BY <2>2, <2>3 DEF Replies
<1>3. CASE ReplyHead
  <2> DEFINE m == Len(answered) + 1
  <2>0. PICK h : h = accepted[m].id
    OBVIOUS
  <2>1. batch # <<>> /\ result \in Outcome
    BY <1>3 DEF ReplyHead, BatchInPhase
  <2>2. /\ m \in 1..Len(accepted)
        /\ Head(batch) = accepted[m]
        /\ h \in Submission
        /\ Len(answered) \in Nat
        /\ Len(accepted) \in Nat
    BY SMTT(30), <2>0, <2>1, LedgerFacts DEF Item
  <2>3. reply[h] = <<>>
    BY SMTT(30), <2>0, <2>2 DEF Replies
  <2>4. Len(answered') = m /\ accepted' = accepted
    BY SMTT(30), <1>3, <2>1, <2>2, HeadTailProperties, AppendProperties
       DEF ReplyHead, TypeOK
  <2>5. /\ reply'[h] = <<result>>
        /\ \A t \in Submission : t # h => reply'[t] = reply[t]
    <3>1. /\ reply \in [Submission -> Seq(Outcome \cup Refusal)]
          /\ reply' = [reply EXCEPT ![h] = Append(reply[h], result)]
      BY <1>3, <2>0, <2>2 DEF ReplyHead, TypeOK
    <3>2. Append(<<>>, result) = <<result>>
      BY SMTT(30)
    <3> QED
      BY <2>2, <2>3, <3>1, <3>2
  <2>6. \A i \in 1..Len(accepted) : i # m => accepted[i].id # h
    BY <2>0, <2>2 DEF Distinct
  <2>7. \A i \in 1..Len(accepted) : accepted[i].id \in Submission
    BY LedgerFacts DEF Item
  <2>8. \A t \in Submission : Len(reply'[t]) <= 1
    <3>1. Len(<<result>>) = 1
      OBVIOUS
    <3>2. ASSUME NEW t \in Submission PROVE Len(reply'[t]) <= 1
      <4>1. CASE t = h
        <5>1. reply'[t] = <<result>>
          BY <2>5, <4>1
        <5>2. Len(reply'[t]) = 1
          BY <3>1, <5>1, Zenon
        <5> QED
          BY SMTT(30), <5>2
      <4>2. CASE t # h
        BY <2>5, <4>2 DEF Replies
      <4> QED
        BY <4>1, <4>2
    <3> QED
      BY <3>2
  <2>9. ASSUME NEW i \in 1..Len(accepted)
        PROVE  IF i <= m
               THEN Len(reply'[accepted[i].id]) = 1
                    /\ reply'[accepted[i].id][1] \in Outcome
               ELSE reply'[accepted[i].id] = <<>>
    <3>1. CASE i = m
      <4>1. Len(<<result>>) = 1 /\ <<result>>[1] = result
        OBVIOUS
      <4>2. reply'[accepted[i].id] = <<result>> /\ i <= m
        BY SMTT(30), <2>0, <2>2, <2>5, <3>1
      <4> QED
        BY <2>1, <4>1, <4>2
    <3>2. CASE i # m
      <4>1. reply'[accepted[i].id] = reply[accepted[i].id]
        BY <2>5, <2>6, <2>7, <3>2
      <4> QED
        BY SMTT(30), <2>2, <3>2, <4>1 DEF Replies
    <3> QED
      BY <3>1, <3>2
  <2> QED
    BY <2>4, <2>8, <2>9 DEF Replies
<1>4. CASE UNCHANGED <<reply, accepted, answered>>
  BY <1>4 DEF Replies
<1> QED
  BY <1>1, <1>2, <1>3, <1>4 DEF Next, Worker, SubmitNil, SubmitClosed,
     CloseFirst, CloseAgain, CloseReturn, Park, Exit, Pop, Execute, vars,
     Refusal

\* The worker leaves only a closed and empty queue, and stays gone.
LEMMA ShutdownStep ==
    TypeOK /\ BatchInPhase /\ Shutdown /\ [Next]_vars => Shutdown'
<1> SUFFICES ASSUME TypeOK, BatchInPhase, Shutdown, [Next]_vars PROVE Shutdown'
  OBVIOUS
<1> USE DEF Shutdown, TypeOK
<1>1. ASSUME NEW s \in Submission, NEW k \in Kind, Submit(s, k) PROVE Shutdown'
  BY <1>1 DEF Submit, Wake
<1>2. ASSUME NEW c \in Closer, CloseFirst(c) PROVE Shutdown'
  BY <1>2 DEF CloseFirst, Wake
<1>3. ASSUME NEW c \in Closer, CloseAgain(c) \/ CloseReturn(c) PROVE Shutdown'
  BY <1>3 DEF CloseAgain, CloseReturn
<1>4. CASE Worker
  BY <1>4 DEF Worker, Park, Exit, Pop, Execute, ReplyHead
<1>5. CASE UNCHANGED <<phase, closed, buffer, closer>>
  BY <1>5
<1> QED
  BY <1>1, <1>2, <1>3, <1>4, <1>5 DEF Next, SubmitNil, SubmitClosed, vars

\* The worker parks only on an empty open queue, and both ways of changing
\* that wake it.
LEMMA WakeupStep ==
    TypeOK /\ NoLostWakeup /\ [Next]_vars => NoLostWakeup'
<1> SUFFICES ASSUME TypeOK, NoLostWakeup, [Next]_vars PROVE NoLostWakeup'
  OBVIOUS
<1> USE DEF NoLostWakeup, TypeOK
<1>1. ASSUME NEW s \in Submission, NEW k \in Kind, Submit(s, k)
      PROVE  NoLostWakeup'
  BY <1>1 DEF Submit, Wake
<1>2. ASSUME NEW c \in Closer, CloseFirst(c) PROVE NoLostWakeup'
  BY <1>2 DEF CloseFirst, Wake
<1>3. CASE Worker
  BY <1>3 DEF Worker, Park, Exit, Pop, Execute, ReplyHead
<1>4. CASE UNCHANGED <<phase, closed, buffer>>
  BY <1>4
<1> QED
  BY <1>1, <1>2, <1>3, <1>4 DEF Next, SubmitNil, SubmitClosed, CloseAgain,
     CloseReturn, vars

\* Outcomes are decided for exactly the popped items.
LEMMA ProgressStep ==
    TypeOK /\ BatchInPhase /\ Progress /\ [Next]_vars => Progress'
<1> SUFFICES ASSUME TypeOK, BatchInPhase, Progress, [Next]_vars PROVE Progress'
  OBVIOUS
<1>a. Len(batch) \in Nat /\ Len(answered) \in Nat /\ Len(decided) \in Nat
  BY LenProperties DEF TypeOK
<1>1. ASSUME NEW r \in Outcome, Execute(r) PROVE Progress'
  <2>1. /\ [i \in 1..Len(batch) |-> r] \in Seq(Outcome)
        /\ Len([i \in 1..Len(batch) |-> r]) = Len(batch)
    BY <1>a, ConstantSeq
  <2>2. Len(decided') = Len(decided) + Len(batch)
    BY SMTT(30), <1>1, <2>1, ConcatProperties DEF Execute, TypeOK
  <2> QED
    BY SMTT(30), <1>1, <1>a, <2>2 DEF Execute, Progress
<1>2. CASE ReplyHead
  <2>1. batch # <<>> /\ phase = "reply"
    BY <1>2 DEF ReplyHead, BatchInPhase
  <2>2. /\ Len(answered') = Len(answered) + 1
        /\ Len(batch') = Len(batch) - 1
        /\ decided' = decided
    BY SMTT(30), <1>2, <2>1, HeadTailProperties, AppendProperties DEF ReplyHead, TypeOK
  <2>3. CASE Len(batch) = 1
    BY SMTT(30), <1>2, <1>a, <2>1, <2>2, <2>3 DEF ReplyHead, Progress
  <2>4. CASE Len(batch) # 1
    BY SMTT(30), <1>2, <1>a, <2>1, <2>2, <2>4 DEF ReplyHead, Progress
  <2> QED
    BY <2>3, <2>4
<1>3. ASSUME UNCHANGED <<decided, answered>>,
             \/ UNCHANGED <<phase, batch>>
             \/ phase # "reply" /\ phase' # "reply"
      PROVE  Progress'
  BY <1>3 DEF Progress
<1> QED
  BY <1>1, <1>2, <1>3 DEF Next, Worker, SubmitNil, SubmitClosed, Submit, Wake,
     CloseFirst, CloseAgain, CloseReturn, Park, Exit, Pop, vars

\* NewActionQueue starts in the invariant.
LEMMA InductiveInit == Init => IInv
<1> SUFFICES ASSUME Init PROVE IInv
  OBVIOUS
<1>1. TypeOK
  <2>1. /\ <<>> \in Seq(Item)
        /\ <<>> \in Seq(Outcome)
        /\ <<>> \in Seq(Outcome \cup Refusal)
    BY EmptySeq
  <2>2. reply \in [Submission -> Seq(Outcome \cup Refusal)]
    BY <2>1 DEF Init
  <2> QED
    BY <2>1, <2>2 DEF Init, TypeOK, NoResult
<1>2. /\ Len(accepted) = 0
      /\ Len(answered) = 0
      /\ Len(decided) = 0
      /\ \A s \in Submission : Len(reply[s]) = 0
  BY DEF Init
<1>3. Ledger
  BY ConcatEmptySeq, EmptySeq DEF Init, Ledger
<1> QED
  BY SMTT(30), <1>1, <1>2, <1>3 DEF Init, IInv, BatchInPhase, Distinct, Replies,
     Shutdown, NoLostWakeup, Progress

\* The queue keeps its inductive invariant in every behaviour.
THEOREM Inductive == Spec => []IInv
<1>1. IInv /\ [Next]_vars => IInv'
  BY TypeStep, BatchStep, LedgerStep, DistinctStep, RepliesStep,
     ShutdownStep, WakeupStep, ProgressStep DEF IInv
<1> QED
  BY <1>1, InductiveInit, PTL DEF Spec

\* Type correctness of the queue model.
THEOREM TypeCorrect == Spec => []TypeOK
<1>1. IInv => TypeOK
  BY DEF IInv
<1> QED
  BY <1>1, Inductive, PTL

\* Strict FIFO with nothing lost or duplicated, whatever is coalesced and
\* whenever Close comes (queue.go:92).
THEOREM StrictFIFO == Spec => []Ledger
<1>1. IInv => Ledger
  BY DEF IInv
<1> QED
  BY <1>1, Inductive, PTL

\* No lost wake-up of the worker (queue.go:203-205 against 149 and 173).
THEOREM WakeupsArrive == Spec => []NoLostWakeup
<1>1. IInv => NoLostWakeup
  BY DEF IInv
<1> QED
  BY <1>1, Inductive, PTL

\* Exactly one result per submission (queue.go:129).
THEOREM ExactlyOneReply == Spec => []OneReply
<1>1. ASSUME IInv PROVE OneReply
  <2>1. TypeOK /\ Ledger /\ Distinct /\ Replies
    BY <1>1 DEF IInv
  <2>2. /\ Len(answered) \in Nat
        /\ Len(accepted) \in Nat
        /\ Len(answered) <= Len(accepted)
        /\ \A i \in 1..Len(answered) : accepted[i] = answered[i]
    BY SMTT(30), <2>1, LedgerFacts
  <2>3. \A i \in 1..Len(answered) : Len(reply[answered[i].id]) = 1
    BY SMTT(30), <2>1, <2>2 DEF Replies
  <2>4. ASSUME NEW i \in 1..Len(accepted), reply[accepted[i].id] # <<>>
        PROVE  i \in 1..Len(answered) /\ answered[i] = accepted[i]
    BY SMTT(30), <2>1, <2>2, <2>4 DEF Replies
  <2>5. ASSUME NEW s \in Submission, reply[s] # <<>>,
               NEW i \in 1..Len(accepted), accepted[i].id = s
        PROVE  \E j \in 1..Len(answered) : answered[j].id = s
    BY <2>4, <2>5
  <2> QED
    BY <2>1, <2>3, <2>5 DEF OneReply, Replies
<1> QED
  BY <1>1, Inductive, PTL

\* A returned Close leaves no accepted submission unanswered (queue.go:95).
THEOREM CloseIsADrain == Spec => []CloseDrains
<1>1. ASSUME IInv PROVE CloseDrains
  <2> SUFFICES ASSUME NEW c \in Closer, closer[c] = "returned"
               PROVE  /\ phase = "exited"
                      /\ \A i \in 1..Len(accepted) :
                           /\ reply[accepted[i].id] # <<>>
                           /\ reply[accepted[i].id][1] \in Outcome
    BY DEF CloseDrains
  <2>1. phase = "exited" /\ buffer = <<>> /\ batch = <<>>
    BY <1>1 DEF IInv, Shutdown, BatchInPhase
  <2>2. Len(accepted) = Len(answered)
    <3>1. Len(<<>>) = 0
      OBVIOUS
    <3>2. /\ Len(accepted) = Len(answered) + Len(batch) + Len(buffer)
          /\ Len(answered) \in Nat
      BY <1>1, LedgerFacts DEF IInv
    <3> QED
      BY SMTT(30), <2>1, <3>1, <3>2
  <2>3. ASSUME NEW i \in 1..Len(accepted)
        PROVE  /\ Len(reply[accepted[i].id]) = 1
               /\ reply[accepted[i].id][1] \in Outcome
    BY SMTT(30), <1>1, <2>2 DEF IInv, Replies
  <2>4. \A x : Len(x) = 1 => x # <<>>
    BY SMTT(30), EmptySeq
  <2> QED
    BY <2>1, <2>3, <2>4
<1> QED
  BY <1>1, Inductive, PTL

(***************************************************************************)
(* The queue implements the abstract serial executor.                      *)
(***************************************************************************)

\* A new queue maps to a new serial executor.
LEMMA PromiseInit == Init => Promise!Init
<1> SUFFICES ASSUME Init PROVE Promise!Init
  OBVIOUS
<1>1. Len(answered) = 0
  BY DEF Init
<1>2. ~\E c \in Closer : closer[c] = "returned"
  BY DEF Init
<1> QED
  BY <1>1, <1>2 DEF Init, Promise!Init

\* Every step of the queue is a step of the serial executor or a stutter.
LEMMA PromiseStep ==
    IInv /\ [Next]_vars => [Promise!Next]_(Promise!vars)
<1> SUFFICES ASSUME IInv, [Next]_vars
             PROVE  Promise!Next \/ UNCHANGED Promise!vars
  OBVIOUS
<1> USE DEF Promise!vars
<1>a. TypeOK /\ BatchInPhase /\ Ledger /\ Shutdown /\ Progress
  BY DEF IInv
<1>b. /\ Len(accepted) = Len(answered) + Len(batch) + Len(buffer)
      /\ Len(accepted) \in Nat /\ Len(answered) \in Nat
      /\ Len(batch) \in Nat /\ Len(buffer) \in Nat
      /\ batch # <<>> => Len(batch) > 0
      /\ Len(<<>>) = 0
  BY <1>a, LedgerFacts
<1>1. ASSUME NEW s \in Submission, NEW k \in Kind, Submit(s, k)
      PROVE  Promise!Next
  <2>1. PICK it \in Promise!Item : it = [id |-> s, kind |-> k]
    BY DEF Promise!Item
  <2>2. Promise!Accept(it)
    BY <1>1, <2>1, <1>a DEF Submit, Wake, Fresh, Promise!Accept, TypeOK
  <2> QED
    BY <2>2 DEF Promise!Next
<1>2. ASSUME NEW c \in Closer, CloseFirst(c) PROVE Promise!Next
  <2>1. (\E d \in Closer : closer'[d] = "returned")
          <=> (\E d \in Closer : closer[d] = "returned")
    BY <1>2, <1>a DEF CloseFirst, TypeOK
  <2>2. Promise!Shut
    BY <1>2, <1>a, <2>1 DEF CloseFirst, Wake, Promise!Shut, TypeOK
  <2> QED
    BY <2>2 DEF Promise!Next
<1>3. ASSUME NEW c \in Closer, CloseAgain(c) PROVE UNCHANGED Promise!vars
  <2>1. (\E d \in Closer : closer'[d] = "returned")
          <=> (\E d \in Closer : closer[d] = "returned")
    BY <1>3, <1>a DEF CloseAgain, TypeOK
  <2> QED
    BY <1>3, <2>1 DEF CloseAgain
<1>4. ASSUME NEW c \in Closer, CloseReturn(c) PROVE Promise!Next
  <2>1. closed /\ buffer = <<>> /\ batch = <<>>
    BY <1>4, <1>a DEF CloseReturn, Shutdown, BatchInPhase
  <2>2. Len(answered) = Len(accepted)
    BY SMTT(30), <1>b, <2>1
  <2>3. \E d \in Closer : closer'[d] = "returned"
    BY <1>4, <1>a DEF CloseReturn, TypeOK
  <2>4. Promise!Return
    BY <1>4, <2>1, <2>2, <2>3 DEF CloseReturn, Promise!Return
  <2> QED
    BY <2>4 DEF Promise!Next
<1>5. ASSUME NEW n \in 1..Len(buffer), Pop(n) PROVE Promise!Next
  <2>1. phase = "next" /\ phase' = "execute" /\ batch = <<>>
    BY <1>5, <1>a DEF Pop, BatchInPhase
  <2>2. Len(batch) = 0 /\ Len(decided) = Len(answered) /\ n \in Nat
    BY SMTT(30), <1>a, <1>b, <2>1 DEF Progress
  <2>3. Len(batch') = n
    BY <1>5, <1>a, CutInTwo DEF Pop, TypeOK
  <2>4. \A i \in 1..Len(buffer) :
          /\ accepted[Len(decided) + i] = buffer[i]
          /\ buffer[i].kind \in Kind
    <3>1. \A i \in 1..Len(buffer) :
            accepted[Len(answered) + Len(batch) + i] = buffer[i]
      BY <1>a, LedgerFacts
    <3>2. \A i \in 1..Len(buffer) : buffer[i] \in Item
      BY <1>a, ElementOfSeq DEF TypeOK
    <3> QED
      BY SMTT(30), <1>b, <2>2, <3>1, <3>2 DEF Item
  <2>5. PopsTogether(buffer, n)
    BY <1>5 DEF Pop
  <2>6. n > 1 => /\ accepted[Len(decided) + 1].kind \in {k \in Kind : Coalesces(k)}
                 /\ \A i \in 1..n : accepted[Len(decided) + i].kind
                                     = accepted[Len(decided) + 1].kind
    <3>1. 1 \in 1..Len(buffer) /\ \A i \in 1..n : i \in 1..Len(buffer)
      BY SMTT(30), <1>b
    <3> QED
      BY <2>4, <2>5, <3>1 DEF PopsTogether, Coalesces
  <2>7. Promise!Begin(n)
    BY SMTT(30), <1>5, <1>b, <2>1, <2>2, <2>3, <2>6 DEF Pop, Promise!Begin
  <2>8. n \in 1..Len(accepted)
    BY SMTT(30), <1>b, <2>2
  <2> QED
    BY <2>7, <2>8 DEF Promise!Next
<1>6. ASSUME NEW r \in Outcome, Execute(r) PROVE Promise!Next
  <2>1. Len(batch) > 0
    BY <1>6, <1>a, <1>b DEF Execute, BatchInPhase
  <2>2. Promise!End(r)
    BY <1>6, <2>1 DEF Execute, Promise!End
  <2> QED
    BY <2>2 DEF Promise!Next
<1>7. CASE ReplyHead
  <2>1. phase = "reply" /\ batch # <<>> /\ phase' # "execute"
    BY <1>7, <1>a DEF ReplyHead, BatchInPhase
  <2>2. Len(answered) < Len(decided)
    BY SMTT(30), <1>a, <1>b, <2>1 DEF Progress
  <2>3. Len(answered') = Len(answered) + 1
    BY SMTT(30), <1>7, <1>a, <2>1, HeadTailProperties, AppendProperties
       DEF ReplyHead, TypeOK
  <2>4. Promise!Deliver
    BY <1>7, <2>1, <2>2, <2>3 DEF ReplyHead, Promise!Deliver
  <2> QED
    BY <2>4 DEF Promise!Next
<1>8. ASSUME UNCHANGED <<closed, accepted, decided, answered, batch, closer>>,
             \/ phase' = phase
             \/ phase # "execute" /\ phase' # "execute"
      PROVE  UNCHANGED Promise!vars
  BY <1>8
<1> QED
  BY <1>1, <1>2, <1>3, <1>4, <1>5, <1>6, <1>7, <1>8 DEF Next, Worker,
     SubmitNil, SubmitClosed, Park, Exit, vars

\* Every behaviour of the queue is one its documentation allows: in-order,
\* exactly-once answers, executions that begin after the submissions they
\* answer, coalescing only of reconciles, and a Close that waits.
THEOREM QueueKeepsPromise == Spec => Implements
<1> QED
  BY PromiseInit, PromiseStep, Inductive, PTL
     DEF Spec, Implements, Promise!Spec

-----------------------------------------------------------------------------
(***************************************************************************)
(* A topic of the pub/sub engine (PubSub).  The lock (Locked) keeps the    *)
(* list and the fan-outs apart, so a fan-out reaches each subscriber once  *)
(* (Unsent).  Each channel operation then keeps what was put into a        *)
(* channel whole (Whole): it is kept in order or evicted.                  *)
(***************************************************************************)

-----------------------------------------------------------------------------
(* Sequences *)

\* What occurs in a sequence that grows at its end, and in what order.
LEMMA GrownSeq ==
    ASSUME NEW S, NEW q \in Seq(S), NEW x \in S
    PROVE  /\ Range(Append(q, x)) = Range(q) \cup {x}
           /\ \A e, f : Before(Append(q, x), e, f)
                 <=> Before(q, e, f) \/ (e \in Range(q) /\ f = x)
<1>1. /\ Len(q) \in Nat
      /\ DOMAIN q = 1 .. Len(q)
      /\ DOMAIN Append(q, x) = 1 .. (Len(q) + 1)
      /\ \A i \in 1 .. Len(q) : Append(q, x)[i] = q[i]
      /\ Append(q, x)[Len(q) + 1] = x
  BY SMTT(30), AppendProperties, LenProperties
<1>2. Range(Append(q, x)) = Range(q) \cup {x}
  BY SMTT(30), <1>1 DEF Range
<1>3. ASSUME NEW e, NEW f, Before(Append(q, x), e, f)
      PROVE  Before(q, e, f) \/ (e \in Range(q) /\ f = x)
  <2>1. PICK i \in 1 .. (Len(q) + 1), j \in 1 .. (Len(q) + 1) :
            i < j /\ Append(q, x)[i] = e /\ Append(q, x)[j] = f
    BY <1>1, <1>3 DEF Before
  <2>2. i \in 1 .. Len(q) /\ q[i] = e
    BY SMTT(30), <1>1, <2>1
  <2>3. CASE j = Len(q) + 1
    BY <1>1, <2>1, <2>2, <2>3 DEF Range
  <2>4. CASE j \in 1 .. Len(q)
    BY <1>1, <2>1, <2>2, <2>4 DEF Before
  <2> QED
    BY SMTT(30), <1>1, <2>3, <2>4
<1>4. ASSUME NEW e, NEW f,
             Before(q, e, f) \/ (e \in Range(q) /\ f = x)
      PROVE  Before(Append(q, x), e, f)
  BY SMTT(30), <1>1, <1>4 DEF Before, Range
<1>5. \A e, f : Before(Append(q, x), e, f)
          <=> Before(q, e, f) \/ (e \in Range(q) /\ f = x)
  <2> TAKE e, f
  <2> QED
    BY SMTT(30), <1>3, <1>4
<1> QED
  BY <1>2, <1>5

\* What occurs in a sequence that loses the element after its prefix a, when
\* nothing occurs in it twice.
LEMMA CutSeq ==
    ASSUME NEW S, NEW a \in Seq(S), NEW b \in Seq(S), b # <<>>,
           \A e \in S : ~Before(a \o b, e, e)
    PROVE  /\ Range(a \o Tail(b)) = Range(a \o b) \ {Head(b)}
           /\ Head(b) \in Range(a \o b)
           /\ \A e, f : Before(a \o Tail(b), e, f)
                           => Before(a \o b, e, f)
<1> DEFINE n == Len(a)
           m == Len(b)
           k == a \o b
           c == a \o Tail(b)
<1>1. /\ n \in Nat /\ m \in Nat \ {0}
      /\ Tail(b) \in Seq(S) /\ Len(Tail(b)) = m - 1
      /\ \A i \in 1 .. m - 1 : Tail(b)[i] = b[i + 1]
      /\ Head(b) = b[1]
  BY SMTT(30), HeadTailProperties, LenProperties, EmptySeq
<1>2. /\ DOMAIN k = 1 .. (n + m) /\ DOMAIN c = 1 .. (n + m - 1)
      /\ k \in Seq(S)
      /\ \A i \in 1 .. n : k[i] = a[i] /\ c[i] = a[i]
      /\ \A i \in (n + 1) .. (n + m) : k[i] = b[i - n]
      /\ \A i \in (n + 1) .. (n + m - 1) : c[i] = Tail(b)[i - n]
  BY SMTT(30), <1>1, ConcatProperties, LenProperties
<1>3. /\ \A i \in 1 .. n : c[i] = k[i]
      /\ \A i \in (n + 1) .. (n + m - 1) : c[i] = k[i + 1]
      /\ k[n + 1] = Head(b)
  BY SMTT(30), <1>1, <1>2
<1> HIDE DEF c, k, n, m
<1>4. \A i \in 1 .. (n + m) : k[i] \in S
  BY SMTT(30), <1>1, <1>2, LenProperties, ElementOfSeq
<1>5. \A i, j \in 1 .. (n + m) : i < j => k[i] # k[j]
  <2> SUFFICES ASSUME NEW i \in 1 .. (n + m), NEW j \in 1 .. (n + m),
                      i < j, k[i] = k[j]
               PROVE  FALSE
    OBVIOUS
  <2>1. Before(k, k[i], k[i])
    BY <1>2 DEF Before
  <2> QED
    BY <1>4, <2>1 DEF k
<1>6. Range(c) = Range(k) \ {Head(b)}
  <2>1. ASSUME NEW i \in 1 .. (n + m - 1)
        PROVE  \E j \in 1 .. (n + m) : j # n + 1 /\ c[i] = k[j]
    <3>1. CASE i <= n
      <4>1. i \in 1 .. (n + m) /\ i # n + 1 /\ c[i] = k[i]
        BY SMTT(30), <1>1, <1>3, <3>1
      <4> QED
        BY <4>1
    <3>2. CASE i > n
      <4>1. i \in (n + 1) .. (n + m - 1) /\ c[i] = k[i + 1]
        BY SMTT(30), <1>1, <1>3, <3>2
      <4>2. i + 1 \in 1 .. (n + m) /\ i + 1 # n + 1
        BY SMTT(30), <1>1, <4>1
      <4> QED
        BY <4>1, <4>2
    <3>3. i <= n \/ i > n
      BY SMTT(30), <1>1
    <3> QED
      BY <3>1, <3>2, <3>3
  <2>2. ASSUME NEW j \in 1 .. (n + m), j # n + 1
        PROVE  \E i \in 1 .. (n + m - 1) : c[i] = k[j]
    <3>1. CASE j <= n
      <4>1. j \in 1 .. n /\ j \in 1 .. (n + m - 1)
        BY SMTT(30), <1>1, <2>2, <3>1
      <4> QED
        BY <1>3, <4>1
    <3>2. CASE j > n + 1
      <4>1. j - 1 \in (n + 1) .. (n + m - 1) /\ c[j - 1] = k[j]
        BY SMTT(30), <1>1, <1>3, <2>2, <3>2
      <4> QED
        BY SMTT(30), <1>1, <4>1
    <3> QED
      BY SMTT(30), <1>1, <2>2, <3>1, <3>2
  <2>3. \A j \in 1 .. (n + m) : k[j] = Head(b) <=> j = n + 1
    BY SMTT(30), <1>1, <1>3, <1>5
  <2> QED
    <3>1. ASSUME NEW y \in Range(c)
          PROVE  y \in Range(k) /\ y # Head(b)
      <4>1. PICK i \in 1 .. (n + m - 1) : y = c[i]
        BY <1>2, <3>1 DEF Range
      <4>2. PICK j \in 1 .. (n + m) : j # n + 1 /\ c[i] = k[j]
        BY <2>1
      <4> QED
        BY <1>2, <2>3, <4>1, <4>2 DEF Range
    <3>2. ASSUME NEW y \in Range(k), y # Head(b)
          PROVE  y \in Range(c)
      <4>1. PICK j \in 1 .. (n + m) : y = k[j]
        BY <1>2, <3>2 DEF Range
      <4>2. PICK i \in 1 .. (n + m - 1) : c[i] = k[j]
        BY <2>2, <2>3, <3>2, <4>1
      <4> QED
        BY <1>2, <4>1, <4>2 DEF Range
    <3> QED
      BY <3>1, <3>2
<1>7. Head(b) \in Range(k)
  BY SMTT(30), <1>1, <1>2, <1>3 DEF Range
<1>8. ASSUME NEW e, NEW f, Before(c, e, f) PROVE Before(k, e, f)
  <2>1. PICK i \in 1 .. (n + m - 1), j \in 1 .. (n + m - 1) :
            i < j /\ c[i] = e /\ c[j] = f
    BY <1>2, <1>8 DEF Before
  <2> DEFINE old(x) == IF x <= n THEN x ELSE x + 1
  <2>2. ASSUME NEW x \in 1 .. (n + m - 1)
        PROVE  old(x) \in 1 .. (n + m) /\ c[x] = k[old(x)]
    <3>1. CASE x <= n
      <4>1. x \in 1 .. n /\ old(x) = x /\ x \in 1 .. (n + m)
        BY SMTT(30), <1>1, <3>1
      <4> QED
        BY <1>3, <4>1
    <3>2. CASE x > n
      <4>1. x \in (n + 1) .. (n + m - 1) /\ old(x) = x + 1
        BY SMTT(30), <1>1, <3>2
      <4> QED
        BY SMTT(30), <1>1, <1>3, <4>1
    <3> QED
      BY SMTT(30), <1>1, <3>1, <3>2
  <2>3. old(i) < old(j)
    BY SMTT(30), <1>1, <2>1
  <2>4. /\ old(i) \in DOMAIN k /\ k[old(i)] = e
        /\ old(j) \in DOMAIN k /\ k[old(j)] = f
    BY <1>2, <2>1, <2>2
  <2> HIDE DEF old
  <2> QED
    BY <2>3, <2>4 DEF Before
<1> QED
  BY <1>6, <1>7, <1>8 DEF c, k

-----------------------------------------------------------------------------
(* The invariant *)

\* The read lock: no fan-out outlives Close, each stays within the list, and
\* the list holds a subscriber once.
Locked ==
    /\ NoSendOnClosed
    /\ \A p \in Readers : at[p] >= 1 /\ count[p] >= 1
    /\ \A p \in Producer : pc[p] = "rlock" => count[p] >= 1
    /\ \A p \in Producer : pc[p] = "evict" => at[p] <= Len(subscribers)
    /\ \A i, j \in DOMAIN subscribers :
          subscribers[i] = subscribers[j] => i = j
    /\ topicClosed => subscribers = <<>>

\* A subscriber without a drain goroutine has nothing left, and a Close that
\* has returned has seen the last of them end.
Ended ==
    /\ \A s \in Subscriber \ draining : queue[s] = <<>> /\ hand[s] = <<>>
    /\ \A k \in TopicCloser :
          topicCloser[k] \in {"waiting", "returned"} => topicClosed
    /\ \A k \in TopicCloser : topicCloser[k] = "returned" => draining = {}

\* An event is sent to a subscriber once: a fan-out has not reached those that
\* it has still to serve.
Unsent ==
    /\ \A s \in Subscriber, p \in Producer, n \in Nat :
          n > count[p] => <<p, n>> \notin Range(sent[s])
    /\ \A p \in Producer, s \in Subscriber :
          pc[p] = "rlock" => Current(p) \notin Range(sent[s])
    /\ \A p \in Readers, i \in DOMAIN subscribers :
          i >= at[p] =>
             Current(p) \notin Range(sent[subscribers[i]])

\* The last event put into a channel is evicted only by a fan-out that is
\* about to put in a newer one.
Superseded ==
    \A s \in Subscriber :
       sent[s] # <<>> /\ sent[s][Len(sent[s])] \in evicted[s] =>
          \E p \in Readers :
             at[p] <= Len(subscribers) /\ Target(p) = s

\* What was put in, q, is what is kept, k, and what was evicted, v.
Whole(k, q, v) ==
    /\ Range(q) = Range(k) \cup v
    /\ Range(k) \cap v = {}
    /\ \A e, f \in Event :
          Before(k, e, f) => e # f /\ Before(q, e, f)

TopicInv ==
    /\ TopicTypeOK
    /\ Locked
    /\ Ended
    /\ Unsent
    /\ Superseded
    /\ \A s \in Subscriber : Whole(Kept(s), sent[s], evicted[s])

\* The empty sequence has no elements.
LEMMA EmptyRange == Range(<<>>) = {} /\ \A e, f : ~Before(<<>>, e, f)
  BY SMTT(30) DEF Range, Before

\* An empty topic satisfies the invariant.
LEMMA TopicStarts == TopicInit => TopicInv
<1> SUFFICES ASSUME TopicInit PROVE TopicInv
  OBVIOUS
<1> USE DEF TopicInit
<1>1. <<>> \in Seq(Subscriber) /\ <<>> \in Seq(Event) /\ Len(<<>>) = 0
  BY SMTT(30)
<1>2. Events \in Nat /\ Buffer \in Nat /\ 0 <= Buffer /\ 0 <= 1
      /\ 0 \in 0 .. Events
  BY SMTT(30), BufferAssumption, EventsAssumption
<1>3. TopicTypeOK
  BY <1>1, <1>2, EmptyRange DEF TopicTypeOK
<1>4. Readers = {}
  BY DEF Readers
<1>5. DOMAIN subscribers = {}
  BY SMTT(30)
<1>6. Locked
  BY <1>4, <1>5 DEF Locked, NoSendOnClosed
<1>7. Ended
  BY DEF Ended
<1>8. Unsent
  BY <1>4, <1>5, EmptyRange DEF Unsent
<1>9. Superseded
  BY DEF Superseded
<1>10. \A s \in Subscriber : Kept(s) = <<>>
  BY SMTT(30) DEF Kept
<1>11. ASSUME NEW s \in Subscriber
       PROVE  Whole(Kept(s), sent[s], evicted[s])
  <2>1. /\ Range(sent[s]) = {}
        /\ Range(Kept(s)) = {}
        /\ evicted[s] = {}
        /\ \A e, f : ~Before(Kept(s), e, f)
    BY <1>10, EmptyRange
  <2> QED
    BY <2>1 DEF Whole
<1> QED
  BY <1>3, <1>6, <1>7, <1>8, <1>9, <1>11 DEF TopicInv

\* The subscriber that a fan-out serves is one of the list.
LEMMA TargetListed ==
    ASSUME TopicTypeOK, Locked, NEW p \in Readers,
           at[p] <= Len(subscribers)
    PROVE  /\ at[p] \in DOMAIN subscribers
           /\ Target(p) \in Subscriber
           /\ Target(p) \in draining
<1>1. subscribers \in Seq(Subscriber) /\ at[p] \in Nat /\ at[p] >= 1
  BY DEF TopicTypeOK, Locked, Readers
<1>2. at[p] \in DOMAIN subscribers
  BY SMTT(30), <1>1, LenProperties
<1>3. Target(p) \in Range(subscribers)
  BY <1>2 DEF Target, Range
<1> QED
  BY <1>2, <1>3 DEF TopicTypeOK

\* The event of a producer that is publishing.
LEMMA CurrentIsEvent ==
    ASSUME TopicTypeOK, NEW p \in Producer, count[p] >= 1
    PROVE  Current(p) \in Event
<1>1. count[p] \in 0 .. Events /\ Events \in Nat
  BY EventsAssumption DEF TopicTypeOK
<1>2. count[p] \in 1 .. Events
  BY SMTT(30), <1>1
<1> QED
  BY <1>2 DEF Current, Event

\* Every step keeps the types and the bounds of the channels.
LEMMA TopicTypeStep ==
    ASSUME TopicTypeOK, Locked, [TopicNext]_topicVars
    PROVE  TopicTypeOK'
<1> USE DEF TopicTypeOK, pubVars, subVars
<1>a. Events \in Nat /\ Buffer \in Nat \ {0} /\ Inner \subseteq Producer
  BY BufferAssumption, EventsAssumption, NoneAssumption
<1>1. ASSUME NEW s \in Subscriber, Subscribe(s) PROVE TopicTypeOK'
  <2>1. subscribers' \in Seq(Subscriber)
        /\ Range(subscribers)' = Range(subscribers) \cup {s}
    <3>1. subscribers' = Append(subscribers, s)
      BY <1>1 DEF Subscribe
    <3>2. Append(subscribers, s) \in Seq(Subscriber)
      BY AppendProperties
    <3>3. Range(Append(subscribers, s))
             = Range(subscribers) \cup {s}
      BY GrownSeq
    <3> QED
      BY <3>1, <3>2, <3>3
  <2> QED
    BY ZenonT(60), <1>1, <2>1 DEF Subscribe
<1>2. ASSUME NEW s \in Subscriber, Receive(s) PROVE TopicTypeOK'
  <2>1. /\ Tail(queue[s]) \in Seq(Event)
        /\ Len(Tail(queue[s])) <= Buffer
        /\ <<Head(queue[s])>> \in Seq(Event)
        /\ Len(<<Head(queue[s])>>) <= 1
    BY SMTT(30), <1>2, <1>a, HeadTailProperties DEF Receive
  <2>2. /\ queue' \in [Subscriber -> Seq(Event)]
        /\ hand' \in [Subscriber -> Seq(Event)]
        /\ \A x \in Subscriber : Len(queue'[x]) <= Buffer
                                 /\ Len(hand'[x]) <= 1
    BY <1>2, <2>1 DEF Receive
  <2> QED
    BY ZenonT(60), <1>2, <2>2 DEF Receive
<1>3. ASSUME NEW s \in Subscriber, Handled(s) PROVE TopicTypeOK'
  <2>1. /\ delivered[s] \o hand[s] \in Seq(Event)
        /\ <<>> \in Seq(Event)
        /\ Len(<<>>) <= 1
    BY SMTT(30), ConcatProperties
  <2>2. /\ delivered' \in [Subscriber -> Seq(Event)]
        /\ hand' \in [Subscriber -> Seq(Event)]
        /\ \A x \in Subscriber : Len(hand'[x]) <= 1
    BY <1>3, <2>1 DEF Handled
  <2> QED
    BY ZenonT(60), <1>3, <2>2 DEF Handled
<1>4. ASSUME NEW s \in Subscriber, DrainExit(s) PROVE TopicTypeOK'
  <2>1. Range(subscribers) = {}
    BY <1>4, EmptyRange DEF DrainExit, Locked
  <2> QED
    BY ZenonT(60), <1>4, <2>1 DEF DrainExit
<1>5. ASSUME NEW p \in Producer, NEW s \in Subscriber \cup {None},
             Publish(p, s)
      PROVE  TopicTypeOK'
  <2>1. count[p] + 1 \in 0 .. Events
    BY SMTT(30), <1>5, <1>a DEF Publish
  <2> QED
    BY ZenonT(60), <1>5, <2>1 DEF Publish
<1>6. ASSUME NEW p \in Producer, PublishRefused(p) PROVE TopicTypeOK'
  BY ZenonT(60), <1>6 DEF PublishRefused
<1>7. ASSUME NEW p \in Producer, FanOut(p) PROVE TopicTypeOK'
  <2>1. 1 \in Nat
    BY SMTT(30)
  <2> QED
    BY ZenonT(60), <1>7, <2>1 DEF FanOut
<1>8. ASSUME NEW p \in Producer, PublishDone(p) PROVE TopicTypeOK'
  <2>1. publishedTotal + 1 \in Nat
    BY SMTT(30)
  <2> QED
    BY ZenonT(60), <1>8, <2>1 DEF PublishDone
<1>9. ASSUME NEW p \in Producer, Send(p) PROVE TopicTypeOK'
  <2> DEFINE t == Target(p)
             e == Current(p)
  <2>1. p \in Readers /\ at[p] <= Len(subscribers)
    BY <1>9 DEF Send, Readers
  <2>2. t \in Subscriber /\ e \in Event
    BY <2>1, TargetListed, CurrentIsEvent DEF Locked
  <2> HIDE DEF t, e
  <2>3. /\ Append(queue[t], e) \in Seq(Event)
        /\ Append(sent[t], e) \in Seq(Event)
        /\ Len(Append(queue[t], e)) = Len(queue[t]) + 1
    BY SMTT(30), <2>2, AppendProperties
  <2>4. Len(queue[t]) < Buffer
    BY <1>9 DEF Send, t
  <2>5. Len(Append(queue[t], e)) <= Buffer /\ at[p] + 1 \in Nat
    BY SMTT(30), <1>a, <2>2, <2>3, <2>4, LenProperties
  <2>6. /\ queue' = [queue EXCEPT ![t] = Append(queue[t], e)]
        /\ sent' = [sent EXCEPT ![t] = Append(sent[t], e)]
        /\ at' = [at EXCEPT ![p] = at[p] + 1]
    BY <1>9 DEF Send, t, e
  <2>7. /\ queue' \in [Subscriber -> Seq(Event)]
        /\ sent' \in [Subscriber -> Seq(Event)]
        /\ at' \in [Producer -> Nat]
        /\ \A x \in Subscriber : Len(queue'[x]) <= Buffer
    BY <2>2, <2>3, <2>5, <2>6
  <2> QED
    BY ZenonT(60), <1>9, <2>7 DEF Send
<1>10. ASSUME NEW p \in Producer, Full(p) PROVE TopicTypeOK'
  BY ZenonT(60), <1>10 DEF Full
<1>11. ASSUME NEW p \in Producer, Evict(p) PROVE TopicTypeOK'
  <2> DEFINE t == Target(p)
  <2>1. p \in Readers /\ at[p] <= Len(subscribers)
    BY <1>11 DEF Evict, Readers, Locked
  <2>2. t \in Subscriber
    BY <2>1, TargetListed
  <2> HIDE DEF t
  <2>3. CASE queue[t] = <<>>
    BY ZenonT(60), <1>11, <2>3 DEF Evict, t
  <2>4. CASE queue[t] # <<>>
    <3>1. /\ Tail(queue[t]) \in Seq(Event)
          /\ Len(Tail(queue[t])) <= Buffer
          /\ Head(queue[t]) \in Event
          /\ droppedTotal + 1 \in Nat
      BY SMTT(30), <1>a, <2>2, <2>4, HeadTailProperties, LenProperties
    <3>2. /\ queue' = [queue EXCEPT ![t] = Tail(queue[t])]
          /\ evicted' = [evicted EXCEPT
                            ![t] = evicted[t] \cup {Head(queue[t])}]
          /\ droppedTotal' = droppedTotal + 1
      BY <1>11, <2>4 DEF Evict, t
    <3>3. /\ queue' \in [Subscriber -> Seq(Event)]
          /\ evicted' \in [Subscriber -> SUBSET Event]
          /\ \A x \in Subscriber : Len(queue'[x]) <= Buffer
      BY <2>2, <3>1, <3>2
    <3> QED
      BY ZenonT(60), <1>11, <3>1, <3>2, <3>3 DEF Evict
  <2> QED
    BY <2>3, <2>4
<1>12. ASSUME NEW k \in TopicCloser,
              CloseCall(k) \/ TopicCloseAgain(k) \/ TopicCloseReturn(k)
       PROVE  TopicTypeOK'
  BY ZenonT(60), <1>12 DEF CloseCall, TopicCloseAgain,
     TopicCloseReturn
<1>13. ASSUME NEW k \in TopicCloser, TopicCloseFirst(k) PROVE TopicTypeOK'
  <2>1. subscribers' \in Seq(Subscriber) /\ Range(subscribers)' = {}
    BY SMTT(30), <1>13, EmptyRange DEF TopicCloseFirst
  <2> QED
    BY ZenonT(60), <1>13, <2>1 DEF TopicCloseFirst
<1>14. CASE UNCHANGED topicVars
  BY ZenonT(60), <1>14 DEF topicVars
<1> QED
  BY <1>1, <1>2, <1>3, <1>4, <1>5, <1>6, <1>7, <1>8, <1>9, <1>10, <1>11,
     <1>12, <1>13, <1>14
     DEF TopicNext, InPublish, Drain, InClose

\* A fan-out starts only before Close, and Close and Subscribe only between
\* fan-outs.
LEMMA LockedStep ==
    ASSUME TopicTypeOK, Locked, [TopicNext]_topicVars
    PROVE  Locked'
<1> USE DEF Locked, NoSendOnClosed, Readers, pubVars,
            subVars
<1>a. /\ pc \in [Producer -> {"out", "rlock", "send", "evict"}]
      /\ at \in [Producer -> Nat]
      /\ count \in [Producer -> 0 .. Events]
      /\ subscribers \in Seq(Subscriber)
  BY DEF TopicTypeOK
<1>1. ASSUME NEW s \in Subscriber, Subscribe(s) PROVE Locked'
  <2>1. /\ subscribers' = Append(subscribers, s)
        /\ s \notin Range(subscribers)
        /\ Readers = {} /\ ~topicClosed
        /\ UNCHANGED <<pc, at, count, topicClosed>>
    BY <1>1 DEF Subscribe
  <2>2. /\ DOMAIN subscribers = 1 .. Len(subscribers)
        /\ DOMAIN subscribers' = 1 .. (Len(subscribers) + 1)
        /\ \A i \in 1 .. Len(subscribers) : subscribers'[i] = subscribers[i]
        /\ subscribers'[Len(subscribers) + 1] = s
        /\ Len(subscribers) \in Nat
    BY SMTT(30), <1>a, <2>1, AppendProperties, LenProperties
  <2>3. \A i \in 1 .. Len(subscribers) : subscribers[i] # s
    BY <2>1, <2>2 DEF Range
  <2>4. ASSUME NEW i \in DOMAIN subscribers', NEW j \in DOMAIN subscribers',
               subscribers'[i] = subscribers'[j]
        PROVE  i = j
    <3>1. i \in 1 .. Len(subscribers) \/ i = Len(subscribers) + 1
      BY SMTT(30), <2>2
    <3>2. j \in 1 .. Len(subscribers) \/ j = Len(subscribers) + 1
      BY SMTT(30), <2>2
    <3> QED
      BY <2>2, <2>3, <2>4, <3>1, <3>2
  <2>5. Readers' = {} /\ \A p \in Producer : pc'[p] # "evict"
    BY <2>1
  <2> QED
    BY <2>1, <2>4, <2>5
<1>2. ASSUME UNCHANGED <<subscribers, topicClosed, pc, at, count>>
      PROVE  Locked'
  BY <1>2
<1>3. ASSUME NEW p \in Producer, NEW s, Publish(p, s) PROVE Locked'
  <2>1. /\ pc' = [pc EXCEPT ![p] = "rlock"]
        /\ count' = [count EXCEPT ![p] = count[p] + 1]
        /\ UNCHANGED <<subscribers, topicClosed, at>>
    BY <1>3 DEF Publish
  <2>2. count[p] + 1 >= 1
    BY SMTT(30), <1>a
  <2> QED
    BY <1>a, <2>1, <2>2
<1>4. ASSUME NEW p \in Producer, PublishRefused(p) \/ PublishDone(p)
      PROVE  Locked'
  <2>1. /\ pc' = [pc EXCEPT ![p] = "out"]
        /\ UNCHANGED <<subscribers, topicClosed, at, count>>
    BY <1>4 DEF PublishRefused, PublishDone
  <2> QED
    BY <1>a, <2>1
<1>5. ASSUME NEW p \in Producer, FanOut(p) PROVE Locked'
  <2>1. 1 >= 1
    BY SMTT(30)
  <2> QED
    BY <1>5, <1>a, <2>1 DEF FanOut
<1>6. ASSUME NEW p \in Producer, Send(p) PROVE Locked'
  <2>1. at[p] + 1 >= 1
    BY SMTT(30), <1>a
  <2>2. /\ pc[p] = "send"
        /\ at' = [at EXCEPT ![p] = at[p] + 1]
        /\ UNCHANGED <<subscribers, topicClosed, pc, count>>
    BY <1>6 DEF Send
  <2> QED
    BY <1>a, <2>1, <2>2
<1>7. ASSUME NEW p \in Producer, Full(p) \/ Evict(p) PROVE Locked'
  <2>1. /\ p \in Readers
        /\ \/ pc' = [pc EXCEPT ![p] = "send"]
           \/ pc' = [pc EXCEPT ![p] = "evict"] /\ at[p] <= Len(subscribers)
        /\ UNCHANGED <<subscribers, topicClosed, at, count>>
    BY <1>7 DEF Full, Evict
  <2> QED
    BY <1>a, <2>1
<1>8. ASSUME NEW k \in TopicCloser, TopicCloseFirst(k) PROVE Locked'
  <2>1. DOMAIN subscribers' = {}
    BY SMTT(30), <1>8 DEF TopicCloseFirst
  <2> QED
    BY <1>8, <2>1 DEF TopicCloseFirst
<1> QED
  BY <1>1, <1>2, <1>3, <1>4, <1>5, <1>6, <1>7, <1>8
     DEF TopicNext, InPublish, Drain, InClose,
         Receive, Handled, DrainExit, CloseCall,
         TopicCloseAgain, TopicCloseReturn, topicVars

\* A channel is fed only while its drain goroutine runs, and that goroutine
\* ends only when nothing is left.
LEMMA EndedStep ==
    ASSUME TopicTypeOK, Locked, Ended,
           [TopicNext]_topicVars
    PROVE  Ended'
<1> USE DEF Ended, pubVars, subVars
<1>a. /\ queue \in [Subscriber -> Seq(Event)]
      /\ hand \in [Subscriber -> Seq(Event)]
      /\ topicCloser \in [TopicCloser -> {"idle", "locking", "waiting",
                                          "returned", "again"}]
  BY DEF TopicTypeOK
<1>1. ASSUME NEW s \in Subscriber, Subscribe(s) PROVE Ended'
  <2>1. ~topicClosed /\ draining' = draining \cup {s}
        /\ UNCHANGED <<queue, hand, topicCloser, topicClosed>>
    BY <1>1 DEF Subscribe
  <2> QED
    BY <2>1
<1>2. ASSUME NEW s \in draining,
             \A x \in Subscriber : x # s =>
                queue'[x] = queue[x] /\ hand'[x] = hand[x],
             UNCHANGED <<draining, topicCloser, topicClosed>>
      PROVE  Ended'
  BY <1>2
<1>3. ASSUME NEW s \in Subscriber, Receive(s) PROVE Ended'
  BY <1>a, <1>2, <1>3 DEF Receive
<1>4. ASSUME NEW s \in Subscriber, Handled(s) PROVE Ended'
  BY <1>a, <1>2, <1>4 DEF Handled
<1>5. ASSUME NEW s \in Subscriber, DrainExit(s) PROVE Ended'
  BY <1>5 DEF DrainExit
<1>6. ASSUME NEW p \in Producer, Send(p) \/ Evict(p) PROVE Ended'
  <2>1. p \in Readers /\ at[p] <= Len(subscribers)
    BY <1>6 DEF Send, Evict, Readers, Locked
  <2>2. Target(p) \in draining
    BY <2>1, TargetListed
  <2>3. \A x \in Subscriber : x # Target(p) => queue'[x] = queue[x]
    BY <1>6, <1>a DEF Send, Evict
  <2>4. UNCHANGED <<hand, draining, topicCloser, topicClosed>>
    BY <1>6 DEF Send, Evict
  <2> QED
    BY <1>2, <2>2, <2>3, <2>4
<1>7. ASSUME NEW k \in TopicCloser,
             \/ CloseCall(k) \/ TopicCloseFirst(k)
             \/ TopicCloseAgain(k) \/ TopicCloseReturn(k)
      PROVE  Ended'
  <2>1. UNCHANGED <<queue, hand, draining>>
    BY <1>7 DEF CloseCall, TopicCloseFirst, TopicCloseAgain,
       TopicCloseReturn
  <2>2. topicClosed' \/ topicClosed' = topicClosed
    BY <1>7 DEF CloseCall, TopicCloseFirst, TopicCloseAgain,
       TopicCloseReturn
  <2>3. \/ topicCloser' = [topicCloser EXCEPT ![k] = "locking"]
        \/ topicCloser' = [topicCloser EXCEPT ![k] = "waiting"] /\ topicClosed'
        \/ topicCloser' = [topicCloser EXCEPT ![k] = "again"]
        \/ /\ topicCloser' = [topicCloser EXCEPT ![k] = "returned"]
           /\ topicCloser[k] = "waiting"
           /\ draining = {}
    BY <1>7 DEF CloseCall, TopicCloseFirst, TopicCloseAgain,
       TopicCloseReturn
  <2>4. \A c \in TopicCloser :
           topicCloser'[c] \in {"waiting", "returned"} => topicClosed'
    <3> SUFFICES ASSUME NEW c \in TopicCloser,
                        topicCloser'[c] \in {"waiting", "returned"}
                 PROVE  topicClosed'
      OBVIOUS
    <3>1. topicClosed => topicClosed'
      BY <2>2
    <3>2. topicCloser[c] \in {"waiting", "returned"} \/ topicClosed'
      BY <1>a, <2>3
    <3> QED
      BY <3>1, <3>2
  <2>5. \A c \in TopicCloser : topicCloser'[c] = "returned" => draining = {}
    BY <1>a, <2>3
  <2> QED
    BY <2>1, <2>4, <2>5
<1>8. ASSUME UNCHANGED <<queue, hand, draining, topicCloser, topicClosed>>
      PROVE  Ended'
  BY <1>8
<1> QED
  BY <1>1, <1>3, <1>4, <1>5, <1>6, <1>7, <1>8
     DEF TopicNext, InPublish, Drain, InClose,
         Publish, PublishRefused, FanOut,
         PublishDone, Full, topicVars

\* A Send, as its effect on the channel it feeds.
LEMMA SendFeeds ==
    ASSUME TopicTypeOK, Locked, Unsent,
           NEW p \in Producer, Send(p)
    PROVE  /\ p \in Readers /\ at[p] \in DOMAIN subscribers
           /\ Target(p) \in Subscriber
           /\ Current(p) \in Event
           /\ Current(p) \notin Range(sent[Target(p)])
           /\ sent'[Target(p)]
                 = Append(sent[Target(p)], Current(p))
           /\ Range(sent'[Target(p)])
                 = Range(sent[Target(p)]) \cup {Current(p)}
           /\ \A s \in Subscriber : s # Target(p) => sent'[s] = sent[s]
<1>1. p \in Readers /\ at[p] <= Len(subscribers)
  BY DEF Send, Readers
<1>2. /\ at[p] \in DOMAIN subscribers
      /\ Target(p) \in Subscriber
      /\ Current(p) \in Event
  BY <1>1, TargetListed, CurrentIsEvent DEF Locked
<1>3. at[p] \in Nat
  BY DEF TopicTypeOK
<1>4. at[p] >= at[p]
  BY SMTT(30), <1>3
<1>5. Current(p) \notin Range(sent[Target(p)])
  BY <1>1, <1>2, <1>4 DEF Unsent, Target
<1>6. /\ sent'[Target(p)]
            = Append(sent[Target(p)], Current(p))
      /\ \A s \in Subscriber : s # Target(p) => sent'[s] = sent[s]
  BY <1>2 DEF Send, TopicTypeOK
<1>7. sent[Target(p)] \in Seq(Event)
  BY <1>2 DEF TopicTypeOK
<1>8. Range(Append(sent[Target(p)], Current(p)))
         = Range(sent[Target(p)]) \cup {Current(p)}
  BY <1>2, <1>7, GrownSeq
<1> QED
  BY <1>1, <1>2, <1>5, <1>6, <1>8

\* Events are numbered by their publisher, and a fan-out serves each
\* subscriber of the list once.
LEMMA UnsentStep ==
    ASSUME TopicTypeOK, Locked, Unsent,
           [TopicNext]_topicVars
    PROVE  Unsent'
<1> USE DEF pubVars, subVars
<1>a. /\ pc \in [Producer -> {"out", "rlock", "send", "evict"}]
      /\ at \in [Producer -> Nat]
      /\ count \in [Producer -> 0 .. Events]
      /\ subscribers \in Seq(Subscriber)
      /\ \A i \in DOMAIN subscribers : subscribers[i] \in Subscriber
      /\ DOMAIN subscribers \subseteq Nat
  <2>1. subscribers \in Seq(Subscriber)
    BY DEF TopicTypeOK
  <2>2. /\ \A i \in DOMAIN subscribers : subscribers[i] \in Subscriber
        /\ DOMAIN subscribers \subseteq Nat
    BY SMTT(30), <2>1, LenProperties, ElementOfSeq
  <2> QED
    BY <2>1, <2>2 DEF TopicTypeOK
<1>1. ASSUME Readers = {}, UNCHANGED <<pc, count, sent>> PROVE Unsent'
  BY <1>1 DEF Unsent, Readers, Current
<1>2. ASSUME NEW p \in Producer, NEW s, Publish(p, s) PROVE Unsent'
  <2>1. /\ pc[p] = "out"
        /\ pc' = [pc EXCEPT ![p] = "rlock"]
        /\ count' = [count EXCEPT ![p] = count[p] + 1]
        /\ UNCHANGED <<subscribers, at, sent>>
    BY <1>2 DEF Publish
  <2>2. count[p] + 1 \in Nat /\ count[p] + 1 > count[p]
        /\ \A n \in Nat : n > count[p] + 1 => n > count[p]
    BY SMTT(30), <1>a
  <2>3. \A q \in Producer : q # p => count'[q] = count[q] /\ pc'[q] = pc[q]
    BY <1>a, <2>1
  <2>4. count'[p] = count[p] + 1 /\ pc'[p] = "rlock"
    BY <1>a, <2>1
  <2>5. \A x \in Subscriber, q \in Producer, n \in Nat :
           n > count'[q] => <<q, n>> \notin Range(sent'[x])
    <3> SUFFICES ASSUME NEW x \in Subscriber, NEW q \in Producer,
                        NEW n \in Nat, n > count'[q]
                 PROVE  <<q, n>> \notin Range(sent[x])
      BY <2>1
    <3>1. n > count[q]
      BY <2>2, <2>3, <2>4
    <3> QED
      BY <3>1 DEF Unsent
  <2>6. \A q \in Producer, x \in Subscriber :
           pc'[q] = "rlock" => Current(q)' \notin Range(sent'[x])
    <3> SUFFICES ASSUME NEW q \in Producer, NEW x \in Subscriber,
                        pc'[q] = "rlock"
                 PROVE  Current(q)' \notin Range(sent'[x])
      OBVIOUS
    <3>1. CASE q = p
      BY <2>1, <2>2, <2>4, <3>1 DEF Unsent, Current
    <3>2. CASE q # p
      BY <2>1, <2>3, <3>2 DEF Unsent, Current
    <3> QED
      BY <3>1, <3>2
  <2>7. \A q \in Readers' : q \in Readers /\ q # p
    BY <2>3, <2>4 DEF Readers
  <2> QED
    BY <2>1, <2>3, <2>5, <2>6, <2>7 DEF Unsent, Current, Readers
<1>3. ASSUME UNCHANGED <<subscribers, at, count, sent>>,
             \A q \in Producer : pc'[q] = "rlock" => pc[q] = "rlock",
             Readers' \subseteq Readers
      PROVE  Unsent'
  BY <1>3 DEF Unsent, Current
<1>4. ASSUME NEW p \in Producer, FanOut(p) PROVE Unsent'
  <2>1. /\ pc[p] = "rlock"
        /\ pc' = [pc EXCEPT ![p] = "send"]
        /\ at' = [at EXCEPT ![p] = 1]
        /\ UNCHANGED <<subscribers, count, sent>>
    BY <1>4 DEF FanOut
  <2>2. \A q \in Producer : q # p => pc'[q] = pc[q] /\ at'[q] = at[q]
    BY <1>a, <2>1
  <2>3. pc'[p] = "send"
    BY <1>a, <2>1
  <2>4. ASSUME NEW q \in Readers', NEW i \in DOMAIN subscribers,
               i >= at'[q]
        PROVE  Current(q) \notin Range(sent[subscribers[i]])
    <3>1. CASE q = p
      BY <1>a, <2>1, <3>1 DEF Unsent
    <3>2. CASE q # p
      BY <2>2, <2>4, <3>2 DEF Unsent, Readers
    <3> QED
      BY <3>1, <3>2
  <2> QED
    BY <2>1, <2>2, <2>3, <2>4 DEF Unsent, Current
<1>5. ASSUME NEW p \in Producer, Send(p) PROVE Unsent'
  <2> DEFINE t == Target(p)
             e == Current(p)
  <2>1. /\ pc[p] = "send"
        /\ at' = [at EXCEPT ![p] = at[p] + 1]
        /\ UNCHANGED <<subscribers, pc, count>>
    BY <1>5 DEF Send
  <2>2. /\ at[p] \in DOMAIN subscribers /\ p \in Readers
        /\ Range(sent'[t]) = Range(sent[t]) \cup {e}
        /\ \A s \in Subscriber : s # t => sent'[s] = sent[s]
    BY <1>5, SendFeeds
  <2>3. \A q \in Producer : q # p => Current(q) # e
    BY SMTT(30) DEF Current
  <2>4. \A q \in Producer, n \in Nat : n > count[q] => <<q, n>> # e
    BY SMTT(30), <1>a DEF Current
  <2> HIDE DEF e
  <2>5. \A s \in Subscriber : \A x :
           x \in Range(sent'[s]) => x \in Range(sent[s]) \/ x = e
    BY <2>2
  <2>6. ASSUME NEW q \in Readers, NEW i \in DOMAIN subscribers,
               i >= at'[q]
        PROVE  Current(q) \notin Range(sent'[subscribers[i]])
    <3>1. CASE q = p
      <4>1. i >= at[p] /\ i # at[p]
        BY SMTT(30), <1>a, <2>1, <2>6, <3>1
      <4>2. subscribers[i] # t /\ subscribers[i] \in Subscriber
        BY <1>a, <2>2, <4>1 DEF Locked, Target
      <4> QED
        BY <2>2, <3>1, <4>1, <4>2 DEF Unsent
    <3>2. CASE q # p
      <4>1. i >= at[q] /\ q \in Producer
        BY <1>a, <2>1, <2>6, <3>2 DEF Readers
      <4> QED
        BY <1>a, <2>3, <2>5, <3>2, <4>1 DEF Unsent
    <3> QED
      BY <3>1, <3>2
  <2>7. \A s \in Subscriber, q \in Producer, n \in Nat :
           n > count[q] => <<q, n>> \notin Range(sent'[s])
    BY <2>4, <2>5 DEF Unsent
  <2>8. \A q \in Producer, s \in Subscriber :
           pc[q] = "rlock" => Current(q) \notin Range(sent'[s])
    BY <2>1, <2>3, <2>5 DEF Unsent
  <2> QED
    BY <2>1, <2>6, <2>7, <2>8 DEF Unsent, Current, Readers
<1>6. ASSUME NEW p \in Producer,
             \/ PublishRefused(p) \/ PublishDone(p)
             \/ Full(p) \/ Evict(p)
      PROVE  Unsent'
  <2>1. /\ \/ pc' = [pc EXCEPT ![p] = "out"]
           \/ p \in Readers /\ pc' = [pc EXCEPT ![p] = "evict"]
           \/ p \in Readers /\ pc' = [pc EXCEPT ![p] = "send"]
        /\ UNCHANGED <<subscribers, at, count, sent>>
    BY <1>6 DEF PublishRefused, PublishDone, Full,
       Evict, Readers
  <2>2. /\ \A q \in Producer : pc'[q] = "rlock" => pc[q] = "rlock"
        /\ Readers' \subseteq Readers
    BY <1>a, <2>1 DEF Readers
  <2> QED
    BY <1>3, <2>1, <2>2
<1>7. ASSUME UNCHANGED <<subscribers, pc, at, count, sent>> PROVE Unsent'
  BY <1>3, <1>7 DEF Readers
<1> QED
  BY <1>1, <1>2, <1>4, <1>5, <1>6, <1>7
     DEF TopicNext, InPublish, Drain, InClose,
         Subscribe, Receive, Handled, DrainExit,
         CloseCall, TopicCloseFirst, TopicCloseAgain,
         TopicCloseReturn, topicVars

\* Whoever evicts the last event of a channel has its own still to send.
LEMMA SupersededStep ==
    ASSUME TopicInv, [TopicNext]_topicVars
    PROVE  Superseded'
<1> USE DEF pubVars, subVars
<1>a. /\ TopicTypeOK /\ Locked /\ Unsent /\ Superseded
      /\ pc \in [Producer -> {"out", "rlock", "send", "evict"}]
      /\ at \in [Producer -> Nat]
      /\ evicted \in [Subscriber -> SUBSET Event]
      /\ subscribers \in Seq(Subscriber)
  BY DEF TopicInv, TopicTypeOK
<1>1. ASSUME Readers = {}, UNCHANGED <<sent, evicted>> PROVE Superseded'
  BY <1>1, <1>a DEF Superseded
<1>2. ASSUME UNCHANGED <<subscribers, at, sent, evicted>>,
             \A q \in Readers :
                at[q] <= Len(subscribers) => q \in Readers'
      PROVE  Superseded'
  BY <1>2, <1>a DEF Superseded, Target
<1>3. ASSUME NEW p \in Producer, NEW s,
             \/ Publish(p, s) \/ PublishRefused(p)
             \/ Full(p) \/ PublishDone(p)
      PROVE  Superseded'
  <2>1. /\ UNCHANGED <<subscribers, at, sent, evicted>>
        /\ \/ p \notin Readers /\ \E c : pc' = [pc EXCEPT ![p] = c]
           \/ pc' = [pc EXCEPT ![p] = "evict"]
           \/ at[p] > Len(subscribers) /\ pc' = [pc EXCEPT ![p] = "out"]
    BY <1>3 DEF Publish, PublishRefused, Full,
       PublishDone, Readers
  <2>2. at[p] > Len(subscribers) => ~(at[p] <= Len(subscribers))
    BY SMTT(30), <1>a, LenProperties
  <2>3. \A q \in Readers :
           at[q] <= Len(subscribers) => q \in Readers'
    BY <1>a, <2>1, <2>2 DEF Readers
  <2> QED
    BY <1>2, <2>1, <2>3
<1>4. ASSUME NEW p \in Producer, FanOut(p) PROVE Superseded'
  <2>1. /\ UNCHANGED <<subscribers, sent, evicted>>
        /\ \A q \in Readers : q \in Readers' /\ at'[q] = at[q]
    BY <1>4, <1>a DEF FanOut, Readers
  <2> QED
    BY <1>a, <2>1 DEF Superseded, Target
<1>5. ASSUME NEW p \in Producer, Send(p) PROVE Superseded'
  <2>1. /\ UNCHANGED <<subscribers, pc, evicted>>
        /\ \A q \in Producer : q # p => at'[q] = at[q]
    BY <1>5, <1>a DEF Send
  <2> DEFINE t == Target(p)
             e == Current(p)
  <2>2. /\ t \in Subscriber
        /\ e \notin Range(sent[t])
        /\ sent'[t] = Append(sent[t], e)
        /\ \A s \in Subscriber : s # t => sent'[s] = sent[s]
    BY <1>5, <1>a, SendFeeds
  <2> HIDE DEF e
  <2>3. sent[t] \in Seq(Event) /\ e \in Event
    BY <1>5, <1>a, <2>2, SendFeeds DEF TopicTypeOK, e
  <2>4. sent'[t][Len(sent'[t])] = e
    BY SMTT(30), <2>2, <2>3, AppendProperties, LenProperties
  <2>5. e \notin evicted[t]
    BY <2>2 DEF TopicInv, Whole
  <2>6. ASSUME NEW s \in Subscriber, s # t,
               sent'[s] # <<>>, sent'[s][Len(sent'[s])] \in evicted'[s]
        PROVE  \E q \in Readers' :
                  at'[q] <= Len(subscribers') /\ Target(q)' = s
    <3>1. PICK q \in Readers :
             at[q] <= Len(subscribers) /\ Target(q) = s
      BY <1>a, <2>1, <2>2, <2>6 DEF Superseded
    <3>2. q # p /\ q \in Producer
      BY <2>6, <3>1 DEF Readers
    <3>3. q \in Readers' /\ at'[q] = at[q]
      BY <2>1, <3>1, <3>2 DEF Readers
    <3> QED
      BY <2>1, <3>1, <3>3 DEF Target
  <2> QED
    BY <2>1, <2>4, <2>5, <2>6 DEF Superseded
<1>6. ASSUME NEW p \in Producer, Evict(p) PROVE Superseded'
  <2> DEFINE t == Target(p)
  <2>1. /\ p \in Readers /\ at[p] <= Len(subscribers)
        /\ pc' = [pc EXCEPT ![p] = "send"]
        /\ UNCHANGED <<subscribers, at, sent>>
    BY <1>6, <1>a DEF Evict, Readers, Locked
  <2>2. Readers' = Readers
    BY <1>a, <2>1 DEF Readers
  <2>3. \A s \in Subscriber : s # t => evicted'[s] = evicted[s]
    BY <1>6, <1>a DEF Evict
  <2> QED
    BY <1>a, <2>1, <2>2, <2>3 DEF Superseded, Target
<1>7. ASSUME UNCHANGED <<subscribers, pc, at, sent, evicted>>
      PROVE  Superseded'
  BY <1>2, <1>7 DEF Readers
<1> QED
  BY <1>1, <1>3, <1>4, <1>5, <1>6, <1>7
     DEF TopicNext, InPublish, Drain, InClose,
         Subscribe, Receive, Handled, DrainExit,
         CloseCall, TopicCloseFirst, TopicCloseAgain,
         TopicCloseReturn, topicVars

\* Taking an event from the channel, or finishing it, moves it along.
LEMMA KeptMoves ==
    ASSUME TopicTypeOK, NEW s \in Subscriber,
           Receive(s) \/ Handled(s), NEW x \in Subscriber
    PROVE  Kept(x)' = Kept(x)
<1>a. /\ queue \in [Subscriber -> Seq(Event)]
      /\ hand \in [Subscriber -> Seq(Event)]
      /\ delivered \in [Subscriber -> Seq(Event)]
  BY DEF TopicTypeOK
<1>1. CASE x # s
  <2>1. UNCHANGED <<queue[x], hand[x], delivered[x]>>
    BY <1>1, <1>a DEF Receive, Handled
  <2> QED
    BY <2>1 DEF Kept
<1>2. CASE x = s /\ Receive(s)
  <2> DEFINE d == delivered[s]
             q == queue[s]
  <2>1. /\ hand[s] = <<>> /\ q # <<>>
        /\ hand'[s] = <<Head(q)>> /\ queue'[s] = Tail(q)
        /\ delivered'[s] = d
    BY <1>2, <1>a DEF Receive
  <2>2. d \in Seq(Event) /\ q \in Seq(Event)
    BY <1>a
  <2> HIDE DEF d, q
  <2>3. Append(d, Head(q)) \o Tail(q) = d \o q
    BY SMTT(30), <2>1, <2>2, MoveHead
  <2>4. Append(d, Head(q)) = d \o <<Head(q)>> /\ d \o <<>> = d
    BY SMTT(30), <2>1, <2>2, HeadTailProperties, AppendIsConcat,
       ConcatEmptySeq
  <2> QED
    BY <1>2, <2>1, <2>3, <2>4 DEF Kept, d, q
<1>3. CASE x = s /\ Handled(s)
  <2>1. /\ delivered'[s] = delivered[s] \o hand[s]
        /\ hand'[s] = <<>> /\ queue'[s] = queue[s]
    BY <1>3, <1>a DEF Handled
  <2>2. delivered[s] \o hand[s] \in Seq(Event)
    BY <1>a, ConcatProperties
  <2>3. (delivered[s] \o hand[s]) \o <<>> = delivered[s] \o hand[s]
    BY <2>2, ConcatEmptySeq
  <2> QED
    BY <1>3, <2>1, <2>3 DEF Kept
<1> QED
  BY <1>1, <1>2, <1>3

\* A new event goes to the end of both.
LEMMA WholeGrows ==
    ASSUME NEW k \in Seq(Event), NEW q \in Seq(Event), NEW v,
           NEW x \in Event, x \notin Range(q), Whole(k, q, v)
    PROVE  Whole(Append(k, x), Append(q, x), v)
<1>1. /\ Range(Append(q, x)) = Range(q) \cup {x}
      /\ Range(Append(k, x)) = Range(k) \cup {x}
  BY SMTT(30), GrownSeq
<1>2. \A e, f : Before(Append(k, x), e, f)
         => Before(k, e, f) \/ (e \in Range(k) /\ f = x)
  BY SMTT(30), GrownSeq
<1>3. \A e, f : Before(q, e, f) \/ (e \in Range(q) /\ f = x)
         => Before(Append(q, x), e, f)
  BY SMTT(30), GrownSeq
<1>4. ASSUME NEW e \in Event, NEW f \in Event,
             Before(Append(k, x), e, f)
      PROVE  e # f /\ Before(Append(q, x), e, f)
  <2>1. CASE Before(k, e, f)
    BY <1>3, <2>1 DEF Whole
  <2>2. CASE e \in Range(k) /\ f = x
    BY <1>3, <2>2 DEF Whole
  <2> QED
    BY SMTT(30), <1>2, <1>4, <2>1, <2>2
<1>5. /\ Range(Append(q, x)) = Range(Append(k, x)) \cup v
      /\ Range(Append(k, x)) \cap v = {}
  BY SMTT(30), <1>1 DEF Whole
<1> QED
  BY <1>4, <1>5 DEF Whole

\* An eviction moves the oldest event of the channel from k to v.
LEMMA WholeCut ==
    ASSUME NEW a \in Seq(Event), NEW b \in Seq(Event), b # <<>>,
           NEW q, NEW v, Whole(a \o b, q, v)
    PROVE  /\ Head(b) \notin v
           /\ Whole(a \o Tail(b), q, v \cup {Head(b)})
<1>1. \A e \in Event : ~Before(a \o b, e, e)
  BY DEF Whole
<1>2. /\ Range(a \o Tail(b)) = Range(a \o b) \ {Head(b)}
      /\ Head(b) \in Range(a \o b)
  BY SMTT(30), <1>1, CutSeq
<1>3. \A e, f : Before(a \o Tail(b), e, f)
                   => Before(a \o b, e, f)
  BY SMTT(30), <1>1, CutSeq
<1> HIDE DEF Before, Range
<1>4. PICK k, c : k = a \o b /\ c = a \o Tail(b)
  OBVIOUS
<1> QED
  BY <1>2, <1>3, <1>4 DEF Whole

\* DroppedTotal moves with the evictions.
Counts ==
    \/ UNCHANGED droppedTotal /\ Dropped' = Dropped
    \/ /\ droppedTotal' = droppedTotal + 1
       /\ \E d : d \notin Dropped
                /\ Dropped' = Dropped \cup {d}

\* An event put into a channel is neither lost nor handled twice.
LEMMA LostStep ==
    ASSUME TopicInv, [TopicNext]_topicVars
    PROVE  /\ \A s \in Subscriber :
                 Whole(Kept(s)', sent'[s], evicted'[s])
           /\ Counts
<1> USE DEF pubVars, subVars
<1>a. /\ TopicTypeOK /\ Locked /\ Unsent
      /\ queue \in [Subscriber -> Seq(Event)]
      /\ hand \in [Subscriber -> Seq(Event)]
      /\ sent \in [Subscriber -> Seq(Event)]
      /\ delivered \in [Subscriber -> Seq(Event)]
      /\ evicted \in [Subscriber -> SUBSET Event]
  BY DEF TopicInv, TopicTypeOK
<1>b. \A s \in Subscriber : /\ Kept(s) \in Seq(Event)
                            /\ Whole(Kept(s), sent[s], evicted[s])
  <2>1. \A s \in Subscriber : Kept(s) \in Seq(Event)
    BY <1>a, ConcatProperties DEF Kept
  <2> QED
    BY <2>1 DEF TopicInv
<1> DEFINE Goal ==
       /\ \A s \in Subscriber : Whole(Kept(s)', sent'[s], evicted'[s])
       /\ Counts
<1>1. ASSUME UNCHANGED <<sent, evicted, droppedTotal>>,
             \A s \in Subscriber : Kept(s)' = Kept(s)
      PROVE  Goal
  <2>1. Dropped' = Dropped
    BY <1>1 DEF Dropped
  <2> QED
    BY <1>1, <1>a, <1>b, <2>1 DEF Counts
<1>2. ASSUME NEW p \in Producer, Send(p) PROVE Goal
  <2>1. PICK t, e : t = Target(p) /\ e = Current(p)
    OBVIOUS
  <2>2. /\ t \in Subscriber /\ e \in Event
        /\ e \notin Range(sent[t])
        /\ sent'[t] = Append(sent[t], e)
        /\ \A s \in Subscriber : s # t => sent'[s] = sent[s]
    BY <1>2, <1>a, <2>1, SendFeeds
  <2>3. /\ queue' = [queue EXCEPT ![t] = Append(queue[t], e)]
        /\ UNCHANGED <<hand, delivered, evicted, droppedTotal>>
    BY <1>2, <2>1 DEF Send
  <2>4. Kept(t)' = Append(Kept(t), e)
    <3>1. PICK d : d = delivered[t] \o hand[t]
      OBVIOUS
    <3>2. d \in Seq(Event) /\ queue[t] \in Seq(Event)
      BY <1>a, <2>2, <3>1, ConcatProperties
    <3>3. queue'[t] = Append(queue[t], e)
      BY <1>a, <2>2, <2>3
    <3>4. Kept(t) = d \o queue[t] /\ Kept(t)' = d \o queue'[t]
      BY <2>3, <3>1 DEF Kept
    <3>5. d \o Append(queue[t], e) = Append(d \o queue[t], e)
      BY SMTT(30), <2>2, <3>2, AppendIsConcat, ConcatAssociative,
         ConcatProperties
    <3> QED
      BY <3>3, <3>4, <3>5
  <2>5. Whole(Append(Kept(t), e), Append(sent[t], e), evicted[t])
    BY <1>a, <1>b, <2>2, WholeGrows
  <2>6. \A s \in Subscriber : s # t => Kept(s)' = Kept(s)
    BY <1>a, <2>3 DEF Kept
  <2>7. Dropped' = Dropped
    BY <2>3 DEF Dropped
  <2>8. ASSUME NEW s \in Subscriber
        PROVE  Whole(Kept(s)', sent'[s], evicted'[s])
    <3>1. CASE s = t
      BY <2>2, <2>3, <2>4, <2>5, <3>1
    <3>2. CASE s # t
      BY <1>b, <2>2, <2>3, <2>6, <3>2
    <3> QED
      BY <3>1, <3>2
  <2> QED
    BY <2>3, <2>7, <2>8 DEF Counts
<1>3. ASSUME NEW p \in Producer, Evict(p) PROVE Goal
  <2>1. PICK t, q : t = Target(p) /\ q = queue[t]
    OBVIOUS
  <2>2. p \in Readers /\ at[p] <= Len(subscribers)
    BY <1>3, <1>a DEF Evict, Readers, Locked
  <2>3. t \in Subscriber /\ q \in Seq(Event)
    BY <1>a, <2>1, <2>2, TargetListed
  <2>4. CASE q = <<>>
    <3>1. UNCHANGED <<queue, hand, delivered, sent, evicted, droppedTotal>>
      BY <1>3, <2>1, <2>4 DEF Evict
    <3> QED
      BY <1>1, <3>1 DEF Kept
  <2>5. CASE q # <<>>
    <3>1. /\ queue' = [queue EXCEPT ![t] = Tail(q)]
          /\ evicted' = [evicted EXCEPT ![t] = evicted[t] \cup {Head(q)}]
          /\ droppedTotal' = droppedTotal + 1
          /\ UNCHANGED <<hand, delivered, sent>>
      BY <1>3, <2>1, <2>5 DEF Evict
    <3>2. PICK d : d = delivered[t] \o hand[t]
      OBVIOUS
    <3>3. d \in Seq(Event)
      BY <1>a, <2>3, <3>2, ConcatProperties
    <3>4. Kept(t) = d \o q /\ Kept(t)' = d \o Tail(q)
      BY <1>a, <2>1, <2>3, <3>1, <3>2 DEF Kept
    <3>5. /\ Head(q) \notin evicted[t]
          /\ Whole(d \o Tail(q), sent[t], evicted[t] \cup {Head(q)})
      BY <1>b, <2>3, <2>5, <3>3, <3>4, WholeCut
    <3>6. Head(q) \in Event
      BY SMTT(30), <2>3, <2>5, HeadTailProperties
    <3>7. evicted'[t] = evicted[t] \cup {Head(q)}
          /\ \A s \in Subscriber : s # t => evicted'[s] = evicted[s]
      BY <1>a, <2>3, <3>1
    <3>8. Dropped' = Dropped \cup {<<t, Head(q)>>}
          /\ <<t, Head(q)>> \notin Dropped
      BY SMTT(30), <2>3, <3>5, <3>6, <3>7 DEF Dropped
    <3>9. ASSUME NEW s \in Subscriber
           PROVE  Whole(Kept(s)', sent'[s], evicted'[s])
      <4>1. CASE s = t
        BY <3>1, <3>4, <3>5, <3>7, <4>1
      <4>2. CASE s # t
        BY <1>a, <1>b, <3>1, <3>7, <4>2 DEF Kept
      <4> QED
        BY <4>1, <4>2
    <3> QED
      BY <3>1, <3>8, <3>9 DEF Counts
  <2> QED
    BY <2>4, <2>5
<1>4. ASSUME NEW s \in Subscriber, Receive(s) \/ Handled(s)
      PROVE  Goal
  <2>1. UNCHANGED <<sent, evicted, droppedTotal>>
    BY <1>4 DEF Receive, Handled
  <2>2. \A x \in Subscriber : Kept(x)' = Kept(x)
    BY <1>4, <1>a, KeptMoves
  <2> QED
    BY <1>1, <2>1, <2>2
<1>5. ASSUME UNCHANGED <<queue, hand, delivered, sent, evicted, droppedTotal>>
      PROVE  Goal
  BY <1>1, <1>5 DEF Kept
<1> HIDE DEF Goal
<1>6. Goal
  BY <1>2, <1>3, <1>4, <1>5
     DEF TopicNext, InPublish, Drain, InClose,
         Subscribe, Publish, PublishRefused, FanOut,
         PublishDone, Full, DrainExit, CloseCall,
         TopicCloseFirst, TopicCloseAgain, TopicCloseReturn, topicVars
<1> QED
  BY <1>6 DEF Goal

\* The invariant is inductive.
LEMMA TopicInductive == TopicSpec => []TopicInv
<1>1. TopicInit => TopicInv
  BY TopicStarts
<1>2. TopicInv /\ [TopicNext]_topicVars => TopicInv'
  BY TopicTypeStep, LockedStep, EndedStep, UnsentStep, SupersededStep,
     LostStep DEF TopicInv
<1> QED
  BY <1>1, <1>2, PTL DEF TopicSpec

\* No Publish is in its fan-out once Close has closed the channels: none of
\* its sends can panic (topic.Publish, topic.Close).
THEOREM NoSendOnClosedHolds == TopicSpec => []NoSendOnClosed
<1>1. TopicInv => NoSendOnClosed
  BY DEF TopicInv, Locked
<1> QED
  BY <1>1, TopicInductive, PTL

\* Between fan-outs the newest event of every channel is still there or has
\* been handled: drop-oldest never drops it (enqueue).
THEOREM NewestSurvivesHolds == TopicSpec => []NewestSurvives
<1>1. TopicInv => NewestSurvives
  BY DEF TopicInv, Superseded, NewestSurvives
<1> QED
  BY <1>1, TopicInductive, PTL

\* Once the first Close has returned no event waits in a channel or in a
\* handler, and none ever will (topic.Close, drain).
THEOREM TopicDrainsHolds == TopicSpec => []TopicDrains
<1>1. TopicInv => TopicDrains
  BY DEF TopicInv, Ended, TopicDrains
<1> QED
  BY <1>1, TopicInductive, PTL

INSTANCE FiniteSetTheorems

\* DroppedTotal is the number of evictions.
Counted == IsFiniteSet(Dropped)
           /\ droppedTotal = Cardinality(Dropped)

\* Whatever the interleaving of senders, evictions and drain goroutines, an
\* event put into a channel is handled once and in order or is evicted, and
\* DroppedTotal counts the evictions (enqueue, drain).
THEOREM NothingLostHolds == TopicSpec => []NothingLost
<1>1. TopicInit => Counted
  <2>1. TopicInit => Dropped = {} /\ droppedTotal = 0
    BY DEF TopicInit, Dropped
  <2> QED
    BY <2>1, FS_EmptySet DEF Counted
<1>2. TopicInv /\ Counted /\ [TopicNext]_topicVars => Counted'
  <2> SUFFICES ASSUME TopicInv, Counted, [TopicNext]_topicVars
               PROVE  Counted'
    OBVIOUS
  <2>1. CASE UNCHANGED droppedTotal /\ Dropped' = Dropped
    BY <2>1 DEF Counted
  <2>2. ASSUME NEW d, d \notin Dropped, droppedTotal' = droppedTotal + 1,
               Dropped' = Dropped \cup {d}
        PROVE  Counted'
    BY <2>2, FS_AddElement DEF Counted
  <2> QED
    BY <2>1, <2>2, LostStep DEF Counts
<1>3. TopicInv /\ Counted => NothingLost
  BY DEF TopicInv, Counted, Whole, NothingLost
<1> QED
  BY <1>1, <1>2, <1>3, TopicInductive, PTL DEF TopicSpec

=============================================================================
