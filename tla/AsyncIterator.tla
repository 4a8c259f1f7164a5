--------------------------- MODULE AsyncIterator ---------------------------
(***************************************************************************)
(* packages/core/src/util/AsyncIteratorHandler.ts: an iterator fed by      *)
(* push/end/error callbacks and drained by next().  Two queues meet in it: *)
(* pullQueue holds the callbacks of next() promises nobody answered yet,   *)
(* pushQueue the values nobody asked for yet.  close() ends both sides by  *)
(* replacing the methods push, pull and close; status says which versions  *)
(* are installed.  Calls of next() are numbered, so a callback is the      *)
(* number of its call.                                                     *)
(***************************************************************************)
EXTENDS Naturals, Sequences

CONSTANTS Value,      \* what is pushed (chunks of a body)
          MaxPushes,  \* bound on the pushes that are accepted
          MaxNexts    \* bound on the calls of next()

ASSUME BoundsAssumption == MaxPushes \in Nat /\ MaxNexts \in Nat

VARIABLES pullQueue,  \* calls of next() waiting for a value
          pushQueue,  \* values waiting for a call of next()
          status,     \* which methods are installed
          answers,    \* answers[k]: state of the promise of the k-th next()
          pushed,     \* history: every value accepted by push
          lastCall    \* whether the producer's last call returned or threw

vars == <<pullQueue, pushQueue, status, answers, pushed, lastCall>>

Contract == INSTANCE IteratorContract

Pending   == [kind |-> "pending"]
Served(v) == [kind |-> "value", value |-> v]

\* The closure passed to close(): resolve({done: true}) or reject(e).
Final(s) == IF s = "open" THEN Pending ELSE [kind |-> s]

Init ==
    /\ pullQueue = <<>>
    /\ pushQueue = <<>>
    /\ status = "open"
    /\ answers = <<>>
    /\ pushed = <<>>
    /\ lastCall = "none"

\* Run the callbacks of the calls ks: a promise settles at most once, later
\* calls of its callbacks do nothing.
Settle(ks, outcome) ==
    [k \in DOMAIN answers |->
        IF k \in ks /\ answers[k] = Pending THEN outcome ELSE answers[k]]

-----------------------------------------------------------------------------
\* Mutation of PullBuffered: pop() for shift(), the newest value is served.
PullNewest ==
    /\ pushQueue # <<>>
    /\ answers' = Append(answers, Served(pushQueue[Len(pushQueue)]))
    /\ pushQueue' = SubSeq(pushQueue, 1, Len(pushQueue) - 1)
    /\ UNCHANGED pullQueue

\* A buffered value is served first, also after closing.
PullBuffered ==
    /\ pushQueue # <<>>
    /\ answers' = Append(answers, Served(Head(pushQueue)))
    /\ pushQueue' = Tail(pushQueue)
    /\ UNCHANGED pullQueue

\* Mutation of PullWaits: close() leaves pull as it was, later calls wait.
PullAlwaysWaits ==
    /\ pushQueue = <<>>
    /\ answers' = Append(answers, Pending)
    /\ pullQueue' = Append(pullQueue, Len(answers) + 1)
    /\ UNCHANGED pushQueue

\* Mutation of PullWaits: the call is queued among the values.
PullQueuedAsValue ==
    /\ pushQueue = <<>>
    /\ status = "open"
    /\ answers' = Append(answers, Pending)
    /\ pushQueue' = <<Len(answers) + 1>>
    /\ UNCHANGED pullQueue

\* Nothing buffered and still open: the call waits.
PullWaits ==
    /\ pushQueue = <<>>
    /\ status = "open"
    /\ answers' = Append(answers, Pending)
    /\ pullQueue' = Append(pullQueue, Len(answers) + 1)
    /\ UNCHANGED pushQueue

\* Nothing buffered and closed: the replaced pull answers with final.
PullFinal ==
    /\ pushQueue = <<>>
    /\ status # "open"
    /\ answers' = Append(answers, Final(status))
    /\ UNCHANGED <<pullQueue, pushQueue>>

NextCall ==
    /\ Len(answers) < MaxNexts
    /\ PullBuffered \/ PullWaits \/ PullFinal
    /\ UNCHANGED <<status, pushed, lastCall>>

\* push before close(): serve the longest waiting call, else buffer.
Push(v) ==
    /\ status = "open"
    /\ Len(pushed) < MaxPushes
    /\ pushed' = Append(pushed, v)
    /\ \/ /\ pullQueue # <<>>
          /\ answers' = Settle({Head(pullQueue)}, Served(v))
          /\ pullQueue' = Tail(pullQueue)
          /\ UNCHANGED pushQueue
       \/ /\ pullQueue = <<>>
          /\ pushQueue' = Append(pushQueue, v)
          /\ UNCHANGED <<answers, pullQueue>>
    /\ lastCall' = "returned"
    /\ UNCHANGED status

\* Mutation of Close: what is still buffered is dropped.
CloseAndDrop(s) ==
    /\ status = "open"
    /\ answers' = Settle({pullQueue[i] : i \in DOMAIN pullQueue}, Final(s))
    /\ status' = s
    /\ pushQueue' = <<>>
    /\ lastCall' = "returned"
    /\ UNCHANGED <<pullQueue, pushed>>

\* close(final): every waiting call gets final; pullQueue is not emptied.
Close(s) ==
    /\ status = "open"
    /\ answers' = Settle({pullQueue[i] : i \in DOMAIN pullQueue}, Final(s))
    /\ status' = s
    /\ lastCall' = "returned"
    /\ UNCHANGED <<pullQueue, pushQueue, pushed>>

End   == Close("ended")
Error == Close("failed")

\* end() has replaced itself by a no-op.
EndAgain ==
    /\ status = "ended"
    /\ lastCall' = "returned"
    /\ UNCHANGED <<pullQueue, pushQueue, status, answers, pushed>>

\* closed(): push and error after any closing, end after error.
Closed ==
    /\ status # "open"
    /\ lastCall' = "threw"
    /\ UNCHANGED <<pullQueue, pushQueue, status, answers, pushed>>

Next ==
    \/ NextCall
    \/ \E v \in Value : Push(v)
    \/ End
    \/ Error
    \/ EndAgain
    \/ Closed

Spec == Init /\ [][Next]_vars

-----------------------------------------------------------------------------
Answer == {Pending, Final("ended"), Final("failed")} \union {Served(v) : v \in Value}

\* Every variable has its type; a waiting callback belongs to a call that
\* was made (AsyncIteratorHandler.ts:5-6).
TypeOK ==
    /\ pullQueue \in Seq(Nat)
    /\ pushQueue \in Seq(Value)
    /\ status \in {"open", "ended", "failed"}
    /\ answers \in Seq(Answer)
    /\ pushed \in Seq(Value)
    /\ lastCall \in {"none", "returned", "threw"}
    /\ \A i \in DOMAIN pullQueue : pullQueue[i] \in DOMAIN answers

\* The k-th next() gets the k-th push whichever came first, so no chunk is
\* lost, duplicated or reordered by the hand-over between the two queues
\* (push 14-25, pull 27-33).
InOrderOnce ==
    \A k \in DOMAIN answers :
        k <= Len(pushed) => answers[k] = Served(pushed[k])

\* No call is left waiting by an ending: once end() or error() has run, every
\* promise is settled, those made before it, after it, and between the last
\* push and it (close 51-62).
NoneWaitsAfterClose ==
    status # "open" => \A k \in DOMAIN answers : answers[k] # Pending

\* The handler implements the contract: queues are invisible to its users.
ContractSpec == Contract!Spec
=============================================================================
