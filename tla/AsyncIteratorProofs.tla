------------------------ MODULE AsyncIteratorProofs ------------------------
(***************************************************************************)
(* AsyncIteratorHandler keeps its contract for every set of values and     *)
(* every number of pushes and calls.  The two queues are determined by the *)
(* counts: pushQueue is the part of what was pushed that no call has asked *)
(* for, pullQueue the calls that no push has reached.  With that as the    *)
(* inductive invariant each operation computes the contract's answers.     *)
(***************************************************************************)
EXTENDS AsyncIterator, SequenceTheorems, TLAPS

\* The answers are those of the contract.
AnswersRight ==
    \A k \in DOMAIN answers :
        answers[k] = IF k <= Len(pushed) THEN Served(pushed[k]) ELSE Final(status)

\* What is buffered is what was pushed beyond the last call.
BufferRight ==
    /\ Len(pushQueue) = IF Len(answers) <= Len(pushed)
                        THEN Len(pushed) - Len(answers) ELSE 0
    /\ \A j \in 1..Len(pushQueue) : pushQueue[j] = pushed[Len(answers) + j]

\* While the iterator is open, who waits are the calls beyond the last push.
WaitersRight ==
    status = "open" =>
        /\ Len(pullQueue) = IF Len(pushed) <= Len(answers)
                            THEN Len(answers) - Len(pushed) ELSE 0
        /\ \A j \in 1..Len(pullQueue) : pullQueue[j] = Len(pushed) + j

IInv == TypeOK /\ AnswersRight /\ BufferRight /\ WaitersRight

\* The kinds of answer are distinct.
LEMMA AnswerKinds ==
    /\ Final("open") = Pending
    /\ Final("ended") # Pending
    /\ Final("failed") # Pending
    /\ \A v : Served(v) # Pending
<1>1. /\ Final("ended").kind = "ended" /\ Final("failed").kind = "failed"
      /\ Pending.kind = "pending" /\ \A v : Served(v).kind = "value"
  BY DEF Final, Pending, Served
<1>2. QED
  BY <1>1 DEF Final

LEMMA InitIInv == Init => IInv
BY DEF Init, IInv, TypeOK, AnswersRight, BufferRight, WaitersRight

\* The types and the invariant, spelled out over index intervals.
LEMMA Unfold ==
    ASSUME IInv
    PROVE  /\ pullQueue \in Seq(Nat) /\ pushQueue \in Seq(Value)
           /\ answers \in Seq(Answer) /\ pushed \in Seq(Value)
           /\ Len(answers) \in Nat /\ Len(pushed) \in Nat
           /\ Len(pushQueue) \in Nat /\ Len(pullQueue) \in Nat
           /\ DOMAIN answers = 1..Len(answers)
           /\ DOMAIN pullQueue = 1..Len(pullQueue)
           /\ status \in {"open", "ended", "failed"}
           /\ lastCall \in {"none", "returned", "threw"}
           /\ \A i \in 1..Len(pullQueue) : pullQueue[i] \in 1..Len(answers)
BY DEF IInv, TypeOK

\* One more call of next() with the answer the contract gives it.
LEMMA OneMoreAnswer ==
    ASSUME IInv, UNCHANGED <<status, pushed>>,
           NEW a \in Answer,
           a = IF Len(answers) + 1 <= Len(pushed)
               THEN Served(pushed[Len(answers) + 1]) ELSE Final(status),
           answers' = Append(answers, a)
    PROVE  /\ answers' \in Seq(Answer)
           /\ Len(answers') = Len(answers) + 1
           /\ DOMAIN answers' = 1..Len(answers')
           /\ AnswersRight'
<1>1. /\ answers' \in Seq(Answer)
      /\ Len(answers') = Len(answers) + 1
      /\ DOMAIN answers' = 1..Len(answers')
      /\ \A k \in 1..Len(answers) : answers'[k] = answers[k]
      /\ answers'[Len(answers) + 1] = a
  BY Unfold
<1>2. \A k \in 1..Len(answers) :
        answers[k] = IF k <= Len(pushed) THEN Served(pushed[k]) ELSE Final(status)
  BY Unfold DEF IInv, AnswersRight
<1>3. AnswersRight'
  BY <1>1, <1>2, Unfold DEF AnswersRight
<1>4. QED
  BY <1>1, <1>3

LEMMA NextCallIInv ==
    ASSUME IInv, NextCall
    PROVE  IInv'
<1>0. UNCHANGED <<status, pushed, lastCall>>
  BY DEF NextCall
<1>1. CASE PullBuffered
  <2>1. Len(pushQueue) >= 1 /\ Head(pushQueue) = pushQueue[1] /\ pushQueue[1] \in Value
    BY <1>1, Unfold DEF PullBuffered
  <2>2. /\ Len(pushQueue) = Len(pushed) - Len(answers)
        /\ \A j \in 1..Len(pushQueue) : pushQueue[j] = pushed[Len(answers) + j]
    BY <2>1, Unfold DEF IInv, BufferRight
  <2>3. /\ pushQueue' \in Seq(Value)
        /\ Len(pushQueue') = Len(pushQueue) - 1
        /\ \A j \in 1..Len(pushQueue') : pushQueue'[j] = pushQueue[j + 1]
    BY <1>1, <2>1, Unfold DEF PullBuffered
  <2>4. /\ answers' = Append(answers, Served(pushQueue[1]))
        /\ Served(pushQueue[1]) \in Answer
        /\ pullQueue' = pullQueue
    BY <1>1, <2>1 DEF PullBuffered, Answer
  <2>5. Len(answers) + 1 <= Len(pushed) /\ pushQueue[1] = pushed[Len(answers) + 1]
    BY <2>1, <2>2, Unfold
  <2>6. /\ answers' \in Seq(Answer) /\ AnswersRight'
        /\ Len(answers') = Len(answers) + 1
        /\ DOMAIN answers' = 1..Len(answers')
    BY <1>0, <2>4, <2>5, OneMoreAnswer
  <2>7. TypeOK'
    BY <1>0, <2>3, <2>4, <2>6, Unfold DEF TypeOK
  <2>8. BufferRight'
    <3>1. Len(pushQueue') = Len(pushed') - Len(answers')
      BY <1>0, <2>2, <2>3, <2>6, Unfold
    <3>2. ASSUME NEW j \in 1..Len(pushQueue')
          PROVE  pushQueue'[j] = pushed'[Len(answers') + j]
      <4>1. j + 1 \in 1..Len(pushQueue) /\ Len(answers) + (j + 1) = Len(answers') + j
        BY <2>3, <2>6, Unfold
      <4>2. QED
        BY <1>0, <2>2, <2>3, <4>1
    <3>3. QED
      BY <1>0, <2>3, <2>5, <2>6, <3>1, <3>2, Unfold DEF BufferRight
  <2>9. WaitersRight'
    BY <1>0, <2>4, <2>5, <2>6, Unfold DEF IInv, WaitersRight
  <2>10. QED
    BY <2>6, <2>7, <2>8, <2>9 DEF IInv
<1>2. ASSUME pushQueue = <<>>
      PROVE  Len(pushQueue) = 0 /\ Len(pushed) <= Len(answers)
  BY <1>2, Unfold DEF IInv, BufferRight
<1>3. CASE PullWaits
  <2>1. Len(pushQueue) = 0 /\ Len(pushed) <= Len(answers) /\ status = "open"
    BY <1>2, <1>3 DEF PullWaits
  <2>2. /\ answers' = Append(answers, Pending) /\ pushQueue' = pushQueue
        /\ pullQueue' = Append(pullQueue, Len(answers) + 1)
    BY <1>3 DEF PullWaits
  <2>3. /\ answers' \in Seq(Answer) /\ AnswersRight'
        /\ Len(answers') = Len(answers) + 1
        /\ DOMAIN answers' = 1..Len(answers')
    <3>1. Pending \in Answer /\ Pending = Final(status)
          /\ ~(Len(answers) + 1 <= Len(pushed))
      BY <2>1, AnswerKinds, Unfold DEF Answer
    <3>2. QED
      BY <1>0, <2>2, <3>1, OneMoreAnswer
  <2>4. /\ pullQueue' \in Seq(Nat)
        /\ Len(pullQueue') = Len(pullQueue) + 1
        /\ DOMAIN pullQueue' = 1..Len(pullQueue')
        /\ \A j \in 1..Len(pullQueue) : pullQueue'[j] = pullQueue[j]
        /\ pullQueue'[Len(pullQueue) + 1] = Len(answers) + 1
    BY <2>2, Unfold
  <2>5. TypeOK'
    <3>1. ASSUME NEW i \in 1..Len(pullQueue')
          PROVE  pullQueue'[i] \in 1..Len(answers')
      <4>1. CASE i = Len(pullQueue) + 1
        BY <2>3, <2>4, <4>1, Unfold
      <4>2. CASE i \in 1..Len(pullQueue)
        <5>1. pullQueue'[i] = pullQueue[i] /\ pullQueue[i] \in 1..Len(answers)
          BY <2>4, <4>2, Unfold
        <5>2. QED
          BY <2>3, <5>1, Unfold
      <4>3. QED
        BY <2>4, <4>1, <4>2, Unfold
    <3>2. QED
      BY <1>0, <2>2, <2>3, <2>4, <3>1, Unfold DEF TypeOK
  <2>6. BufferRight'
    BY <1>0, <2>1, <2>2, <2>3, Unfold DEF BufferRight
  <2>7. WaitersRight'
    <3>1. Len(pullQueue) = Len(answers) - Len(pushed)
          /\ \A j \in 1..Len(pullQueue) : pullQueue[j] = Len(pushed) + j
      BY <2>1, Unfold DEF IInv, WaitersRight
    <3>2. ASSUME NEW j \in 1..Len(pullQueue')
          PROVE  pullQueue'[j] = Len(pushed) + j
      <4>1. CASE j = Len(pullQueue) + 1
        BY <2>4, <3>1, <4>1, Unfold
      <4>2. CASE j \in 1..Len(pullQueue)
        BY <2>4, <3>1, <4>2
      <4>3. QED
        BY <2>4, <4>1, <4>2, Unfold
    <3>3. QED
      BY <1>0, <2>1, <2>3, <2>4, <3>1, <3>2, Unfold DEF WaitersRight
  <2>8. QED
    BY <2>3, <2>5, <2>6, <2>7 DEF IInv
<1>4. CASE PullFinal
  <2>1. /\ Len(pushQueue) = 0 /\ Len(pushed) <= Len(answers)
        /\ status \in {"ended", "failed"}
    BY <1>2, <1>4, Unfold DEF PullFinal
  <2>2. answers' = Append(answers, Final(status)) /\ UNCHANGED <<pullQueue, pushQueue>>
    BY <1>4 DEF PullFinal
  <2>3. /\ answers' \in Seq(Answer) /\ AnswersRight'
        /\ Len(answers') = Len(answers) + 1
        /\ DOMAIN answers' = 1..Len(answers')
    <3>1. Final(status) \in Answer /\ ~(Len(answers) + 1 <= Len(pushed))
      BY <2>1, Unfold DEF Answer
    <3>2. QED
      BY <1>0, <2>2, <3>1, OneMoreAnswer
  <2>4. TypeOK'
    BY <1>0, <2>2, <2>3, Unfold DEF TypeOK
  <2>5. BufferRight' /\ WaitersRight'
    BY <1>0, <2>1, <2>2, <2>3, Unfold DEF BufferRight, WaitersRight
  <2>6. QED
    BY <2>3, <2>4, <2>5 DEF IInv
<1>5. QED
  BY <1>1, <1>3, <1>4 DEF NextCall

LEMMA PushIInv ==
    ASSUME IInv, NEW v \in Value, Push(v)
    PROVE  IInv'
<1>1. /\ status = "open" /\ status' = status /\ lastCall' = "returned"
      /\ pushed' = Append(pushed, v)
  BY DEF Push
<1>2. /\ Len(pushed') = Len(pushed) + 1
      /\ \A k \in 1..Len(pushed) : pushed'[k] = pushed[k]
      /\ pushed'[Len(pushed) + 1] = v
      /\ pushed' \in Seq(Value)
  BY <1>1, Unfold
<1>3. \A k \in 1..Len(answers) :
        answers[k] = IF k <= Len(pushed) THEN Served(pushed[k]) ELSE Final(status)
  BY Unfold DEF IInv, AnswersRight
<1>4. CASE pullQueue # <<>>
  <2>1. /\ answers' = Settle({Head(pullQueue)}, Served(v))
        /\ pullQueue' = Tail(pullQueue)
        /\ pushQueue' = pushQueue
    BY <1>4 DEF Push
  <2>2. Len(pullQueue) >= 1 /\ Head(pullQueue) = pullQueue[1]
    BY <1>4, Unfold
  <2>3. /\ Len(pullQueue) = Len(answers) - Len(pushed)
        /\ \A j \in 1..Len(pullQueue) : pullQueue[j] = Len(pushed) + j
    BY <1>1, <2>2, Unfold DEF IInv, WaitersRight
  <2>4. /\ Len(pushed) + 1 \in 1..Len(answers)
        /\ Head(pullQueue) = Len(pushed) + 1
        /\ answers[Len(pushed) + 1] = Pending
    BY <1>1, <1>3, <2>2, <2>3, AnswerKinds, Unfold
  <2>5. /\ answers' \in Seq(Answer)
        /\ Len(answers') = Len(answers)
        /\ DOMAIN answers' = 1..Len(answers)
        /\ \A k \in 1..Len(answers) :
              answers'[k] = IF k = Len(pushed) + 1 THEN Served(v) ELSE answers[k]
    <3>1. answers' = [k \in 1..Len(answers) |->
                        IF k = Len(pushed) + 1 THEN Served(v) ELSE answers[k]]
      BY <2>1, <2>4, Unfold DEF Settle
    <3>2. \A k \in 1..Len(answers) : answers'[k] \in Answer
      BY <3>1, Unfold DEF Answer
    <3>3. QED
      BY <3>1, <3>2, Unfold
  <2>6. /\ pullQueue' \in Seq(Nat)
        /\ Len(pullQueue') = Len(pullQueue) - 1
        /\ DOMAIN pullQueue' = 1..Len(pullQueue')
        /\ \A j \in 1..Len(pullQueue') : pullQueue'[j] = pullQueue[j + 1]
    BY <2>1, <2>2, Unfold
  <2>7. \A j \in 1..Len(pullQueue') : pullQueue'[j] = Len(pushed') + j
    BY <1>2, <2>3, <2>6, Unfold
  <2>8. TypeOK'
    <3>1. ASSUME NEW j \in 1..Len(pullQueue')
          PROVE  pullQueue'[j] \in 1..Len(answers')
      <4>1. pullQueue'[j] = pullQueue[j + 1] /\ j + 1 \in 1..Len(pullQueue)
        BY <2>6, Unfold
      <4>2. QED
        BY <2>5, <4>1, Unfold
    <3>2. QED
      BY <1>1, <1>2, <2>1, <2>5, <2>6, <3>1, Unfold DEF TypeOK
  <2>9. AnswersRight'
    <3>1. ASSUME NEW k \in 1..Len(answers)
          PROVE  answers'[k] = IF k <= Len(pushed') THEN Served(pushed'[k]) ELSE Final(status')
      <4>1. CASE k = Len(pushed) + 1
        BY <1>2, <2>5, <4>1, Unfold
      <4>2. CASE k # Len(pushed) + 1
        BY <1>1, <1>2, <1>3, <2>5, <4>2, Unfold
      <4>3. QED
        BY <4>1, <4>2
    <3>2. QED
      BY <2>5, <3>1 DEF AnswersRight
  <2>10. BufferRight'
    <3>1. Len(pushed) < Len(answers) /\ Len(pushQueue) = 0
      BY <2>2, <2>3, Unfold DEF IInv, BufferRight
    <3>2. Len(pushQueue') = 0 /\ Len(pushed') <= Len(answers')
      BY <1>2, <2>1, <2>5, <3>1, Unfold
    <3>3. Len(pushed') \in Nat /\ Len(answers') \in Nat
      BY <1>2, <2>5, Unfold
    <3>4. Len(answers') <= Len(pushed') => Len(pushed') - Len(answers') = 0
      BY <3>2, <3>3
    <3>5. QED
      BY <3>2, <3>3, <3>4 DEF BufferRight
  <2>11. WaitersRight'
    BY <1>2, <2>2, <2>3, <2>5, <2>6, <2>7, Unfold DEF WaitersRight
  <2>12. QED
    BY <2>8, <2>9, <2>10, <2>11 DEF IInv
<1>5. CASE pullQueue = <<>>
  <2>1. pushQueue' = Append(pushQueue, v) /\ UNCHANGED <<answers, pullQueue>>
    BY <1>5 DEF Push
  <2>2. Len(answers) <= Len(pushed) /\ Len(pullQueue) = 0
    BY <1>1, <1>5, Unfold DEF IInv, WaitersRight
  <2>3. /\ pushQueue' \in Seq(Value)
        /\ Len(pushQueue') = Len(pushQueue) + 1
        /\ \A j \in 1..Len(pushQueue) : pushQueue'[j] = pushQueue[j]
        /\ pushQueue'[Len(pushQueue) + 1] = v
    BY <2>1, Unfold
  <2>4. TypeOK'
    BY <1>1, <1>2, <2>1, <2>3, Unfold DEF TypeOK
  <2>5. AnswersRight'
    BY <1>1, <1>2, <1>3, <2>1, <2>2, Unfold DEF AnswersRight
  <2>6. BufferRight'
    <3>1. /\ Len(pushQueue) = Len(pushed) - Len(answers)
          /\ \A j \in 1..Len(pushQueue) : pushQueue[j] = pushed[Len(answers) + j]
      BY <2>2, Unfold DEF IInv, BufferRight
    <3>2. ASSUME NEW j \in 1..Len(pushQueue')
          PROVE  pushQueue'[j] = pushed'[Len(answers) + j]
      <4>1. CASE j = Len(pushQueue) + 1
        BY <1>2, <2>3, <3>1, <4>1, Unfold
      <4>2. CASE j \in 1..Len(pushQueue)
        BY <1>2, <2>3, <3>1, <4>2, Unfold
      <4>3. QED
        BY <2>3, <4>1, <4>2, Unfold
    <3>3. QED
      BY <1>2, <2>1, <2>2, <2>3, <3>1, <3>2, Unfold DEF BufferRight
  <2>7. WaitersRight'
    <3>1. ~(Len(pushed') <= Len(answers')) /\ Len(pullQueue') = 0
      BY <1>2, <2>1, <2>2, Unfold
    <3>2. QED
      BY <3>1 DEF WaitersRight
  <2>8. QED
    BY <2>4, <2>5, <2>6, <2>7 DEF IInv
<1>6. QED
  BY <1>4, <1>5

LEMMA CloseIInv ==
    ASSUME IInv, NEW s \in {"ended", "failed"}, Close(s)
    PROVE  IInv'
<1>1. /\ status = "open" /\ status' = s /\ lastCall' = "returned"
      /\ UNCHANGED <<pullQueue, pushQueue, pushed>>
      /\ answers' = Settle({pullQueue[i] : i \in DOMAIN pullQueue}, Final(s))
  BY DEF Close
<1>2. \A k \in 1..Len(answers) :
        answers[k] = IF k <= Len(pushed) THEN Served(pushed[k]) ELSE Final(status)
  BY Unfold DEF IInv, AnswersRight
<1>3. ASSUME NEW k \in 1..Len(answers), ~(k <= Len(pushed))
      PROVE  k \in {pullQueue[i] : i \in DOMAIN pullQueue}
  <2>1. /\ Len(pullQueue) = Len(answers) - Len(pushed)
        /\ \A j \in 1..Len(pullQueue) : pullQueue[j] = Len(pushed) + j
    BY <1>1, <1>3, Unfold DEF IInv, WaitersRight
  <2>2. k - Len(pushed) \in 1..Len(pullQueue) /\ Len(pushed) + (k - Len(pushed)) = k
    BY <1>3, <2>1, Unfold
  <2>3. pullQueue[k - Len(pushed)] = k /\ k - Len(pushed) \in DOMAIN pullQueue
    BY <2>1, <2>2, Unfold
  <2>4. QED
    BY <2>3
<1>4. /\ answers' \in Seq(Answer)
      /\ Len(answers') = Len(answers)
      /\ DOMAIN answers' = 1..Len(answers)
      /\ \A k \in 1..Len(answers) :
            answers'[k] = IF k <= Len(pushed) THEN Served(pushed[k]) ELSE Final(s)
  <2>1. answers' = [k \in 1..Len(answers) |->
                      IF k \in {pullQueue[i] : i \in DOMAIN pullQueue}
                         /\ answers[k] = Pending
                      THEN Final(s) ELSE answers[k]]
    BY <1>1, Unfold DEF Settle
  <2>2. ASSUME NEW k \in 1..Len(answers)
        PROVE  answers'[k] = IF k <= Len(pushed) THEN Served(pushed[k]) ELSE Final(s)
    <3>1. CASE k <= Len(pushed)
      BY <1>2, <2>1, <3>1, AnswerKinds
    <3>2. CASE ~(k <= Len(pushed))
      BY <1>1, <1>2, <1>3, <2>1, <3>2, AnswerKinds
    <3>3. QED
      BY <3>1, <3>2
  <2>3. \A k \in 1..Len(answers) : answers'[k] \in Answer
    BY <2>1, Unfold DEF Answer
  <2>4. QED
    BY <2>1, <2>2, <2>3, Unfold
<1>5. TypeOK'
  BY <1>1, <1>4, Unfold DEF TypeOK
<1>6. AnswersRight'
  BY <1>1, <1>4, Unfold DEF AnswersRight
<1>7. BufferRight' /\ WaitersRight'
  BY <1>1, <1>4 DEF IInv, BufferRight, WaitersRight
<1>8. QED
  BY <1>5, <1>6, <1>7 DEF IInv

LEMMA StepIInv == IInv /\ [Next]_vars => IInv'
<1> SUFFICES ASSUME IInv, [Next]_vars
             PROVE  IInv'
  OBVIOUS
<1>1. CASE NextCall
  BY <1>1, NextCallIInv
<1>2. ASSUME NEW v \in Value, Push(v)
      PROVE  IInv'
  BY <1>2, PushIInv
<1>3. CASE End \/ Error
  BY <1>3, CloseIInv DEF End, Error
<1>4. CASE EndAgain \/ Closed
  BY <1>4 DEF EndAgain, Closed, IInv, TypeOK, AnswersRight, BufferRight, WaitersRight
<1>5. CASE UNCHANGED vars
  BY <1>5 DEF vars, IInv, TypeOK, AnswersRight, BufferRight, WaitersRight
<1>6. QED
  BY <1>1, <1>2, <1>3, <1>4, <1>5 DEF Next

LEMMA Inductive == Spec => []IInv
BY InitIInv, StepIInv, PTL DEF Spec

-----------------------------------------------------------------------------
\* The queues of the handler hold calls and values and nothing else
\* (AsyncIteratorHandler.ts:5-6).
THEOREM TypeCorrect == Spec => []TypeOK
<1>1. IInv => TypeOK
  BY DEF IInv
<1>2. QED
  BY <1>1, Inductive, PTL

\* However pushes and calls of next() interleave, the k-th call is answered
\* with the k-th push (push 14-25 against pull 27-33).
THEOREM DeliversInOrder == Spec => []InOrderOnce
<1>1. IInv => InOrderOnce
  BY DEF IInv, InOrderOnce, AnswersRight
<1>2. QED
  BY <1>1, Inductive, PTL

\* After end() or error() no promise of next() is left pending (close 51-62).
THEOREM ClosingAnswersAll == Spec => []NoneWaitsAfterClose
<1>1. IInv => NoneWaitsAfterClose
  BY AnswerKinds DEF IInv, TypeOK, NoneWaitsAfterClose, AnswersRight
<1>2. QED
  BY <1>1, Inductive, PTL

-----------------------------------------------------------------------------
\* Each step of the handler is a step of the contract, or changes nothing
\* the contract speaks of.
LEMMA ContractAnswers ==
    IInv => answers = Contract!AnswersOf(pushed, status, Len(answers))
BY Unfold DEF IInv, AnswersRight, Contract!AnswersOf, Contract!Served,
              Contract!Final, Contract!Pending, Served, Final, Pending

LEMMA StepRefines ==
    ASSUME IInv, IInv', [Next]_vars
    PROVE  [Contract!Next]_(Contract!cvars)
<1>0. /\ answers' = Contract!AnswersOf(pushed', status', Len(answers'))
      /\ Len(answers) \in Nat
  <2>1. (IInv => answers = Contract!AnswersOf(pushed, status, Len(answers)))'
    BY ContractAnswers, PTL
  <2>2. QED
    BY <2>1, Unfold
<1>1. CASE NextCall
  <2>1. Len(answers') = Len(answers) + 1
    BY <1>1, Unfold DEF NextCall, PullBuffered, PullWaits, PullFinal
  <2>2. Contract!Ask
    BY <1>0, <1>1, <2>1 DEF NextCall, Contract!Ask
  <2>3. QED
    BY <2>2 DEF Contract!Next
<1>2. ASSUME NEW v \in Value, Push(v)
      PROVE  Contract!Accept(v)
  <2>1. Len(answers') = Len(answers)
    BY <1>2, Unfold DEF Push, Settle
  <2>2. QED
    BY <1>0, <1>2, <2>1 DEF Push, Contract!Accept
<1>3. ASSUME NEW s \in {"ended", "failed"}, Close(s)
      PROVE  Contract!Close(s)
  <2>1. Len(answers') = Len(answers)
    BY <1>3, Unfold DEF Close, Settle
  <2>2. QED
    BY <1>0, <1>3, <2>1 DEF Close, Contract!Close
<1>4. CASE EndAgain
  BY <1>4 DEF EndAgain, Contract!EndAgain, Contract!Next
<1>5. CASE Closed
  BY <1>5 DEF Closed, Contract!Refuse, Contract!Next
<1>6. CASE UNCHANGED vars
  BY <1>6 DEF vars, Contract!cvars
<1>7. QED
  BY <1>1, <1>2, <1>3, <1>4, <1>5, <1>6
     DEF Next, End, Error, Contract!Next, Contract!Closings

\* AsyncIteratorHandler implements its contract: however the calls interleave,
\* its users cannot tell it from an iterator without queues, whose k-th answer
\* is the k-th push or else the ending.
THEOREM ImplementsContract == Spec => ContractSpec
<1>1. Init => Contract!Init
  BY DEF Init, Contract!Init
<1>2. Spec => [][Contract!Next]_(Contract!cvars)
  BY Inductive, StepRefines, PTL DEF Spec
<1>3. QED
  BY <1>1, <1>2, PTL DEF Spec, ContractSpec, Contract!Spec
=============================================================================
