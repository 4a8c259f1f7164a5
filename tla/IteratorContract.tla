-------------------------- MODULE IteratorContract --------------------------
(***************************************************************************)
(* What @http4t/core's AsyncIteratorHandler promises to the code that      *)
(* bridges event emitters to async iteration: the k-th call of next() is   *)
(* answered with the k-th accepted push, calls beyond the last push wait   *)
(* while the iterator is open and share its ending once it is closed, and  *)
(* a producer that keeps talking after the ending is refused.  There are   *)
(* no queues here: the answers are a function of what was pushed.          *)
(***************************************************************************)
EXTENDS Naturals, Sequences

CONSTANTS Value,      \* what is pushed (chunks of a body)
          MaxPushes,  \* bound on the pushes that are accepted
          MaxNexts    \* bound on the calls of next()

VARIABLES pushed,     \* the values accepted so far, in order
          status,     \* "open", "ended" or "failed"
          answers,    \* answers[k]: the promise returned by the k-th next()
          lastCall    \* how the producer's last call came back

cvars == <<pushed, status, answers, lastCall>>

Closings == {"ended", "failed"}

Pending   == [kind |-> "pending"]
Served(v) == [kind |-> "value", value |-> v]

\* What a call gets when there is no value for it.
Final(s) == IF s = "open" THEN Pending ELSE [kind |-> s]

AnswersOf(p, s, n) ==
    [k \in 1..n |-> IF k <= Len(p) THEN Served(p[k]) ELSE Final(s)]

Init ==
    /\ pushed = <<>>
    /\ status = "open"
    /\ answers = <<>>
    /\ lastCall = "none"

Ask ==
    /\ Len(answers) < MaxNexts
    /\ answers' = AnswersOf(pushed, status, Len(answers) + 1)
    /\ UNCHANGED <<pushed, status, lastCall>>

Accept(v) ==
    /\ status = "open"
    /\ Len(pushed) < MaxPushes
    /\ pushed' = Append(pushed, v)
    /\ answers' = AnswersOf(pushed', status, Len(answers))
    /\ lastCall' = "returned"
    /\ UNCHANGED status

Close(s) ==
    /\ status = "open"
    /\ status' = s
    /\ answers' = AnswersOf(pushed, s, Len(answers))
    /\ lastCall' = "returned"
    /\ UNCHANGED pushed

\* Ending twice is harmless ...
EndAgain ==
    /\ status = "ended"
    /\ lastCall' = "returned"
    /\ UNCHANGED <<pushed, status, answers>>

\* ... every other call on a closed iterator throws and changes nothing.
Refuse ==
    /\ status # "open"
    /\ lastCall' = "threw"
    /\ UNCHANGED <<pushed, status, answers>>

Next ==
    \/ Ask
    \/ \E v \in Value : Accept(v)
    \/ \E s \in Closings : Close(s)
    \/ EndAgain
    \/ Refuse

Spec == Init /\ [][Next]_cvars
=============================================================================
