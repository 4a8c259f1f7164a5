------------------------------ MODULE NodeBody ------------------------------
(***************************************************************************)
(* packages/node/src/streams.ts readableStreamToBody: the body of an       *)
(* incoming message.  Iterating it makes an AsyncIteratorHandler and adds  *)
(* its push, end and error as listeners to node's stream; a new iteration  *)
(* makes a new one, which hears only what is emitted from then on.  The    *)
(* stream (external) is paused until the first listener, emits its chunks  *)
(* in order, and then 'end', or 'error' when the sender goes away, which it *)
(* may do before anyone listens.                                           *)
(* What a reader gets out of its iterator is what IteratorContract says:   *)
(* the pushes in order, then the ending.                                   *)
(***************************************************************************)
EXTENDS Naturals

CONSTANTS Request,   \* the messages, one body each
          MaxChunks  \* bound on the chunks of a body

VARIABLES total,   \* chunks the sender sends
          sent,    \* chunks emitted so far
          stream,  \* "open", "ended" or "failed"
          reader,  \* state of the newest iteration
          from     \* chunks that had been emitted when it subscribed

bodyVars == <<total, sent, stream, reader, from>>

Init ==
    /\ total \in [Request -> 0..MaxChunks]
    /\ sent = [r \in Request |-> 0]
    /\ stream = [r \in Request |-> "open"]
    /\ reader = [r \in Request |-> "none"]
    /\ from = [r \in Request |-> 0]

\* Mutation of Subscribe: the listeners are not added.
SubscribeToNothing(r) ==
    /\ reader[r] # "reading"
    /\ UNCHANGED bodyVars

\* The body is iterated, for the first time or again.
Subscribe(r) ==
    /\ reader[r] # "reading"
    /\ reader' = [reader EXCEPT ![r] = "reading"]
    /\ from' = [from EXCEPT ![r] = sent[r]]
    /\ UNCHANGED <<total, sent, stream>>

\* The first 'data' listener starts the flow, and nothing stops it.
Flowing(r) == stream[r] = "open" /\ reader[r] # "none"

\* 'data'
Data(r) ==
    /\ Flowing(r) /\ sent[r] < total[r]
    /\ sent' = [sent EXCEPT ![r] = @ + 1]
    /\ UNCHANGED <<total, stream, reader, from>>

\* Mutation of Finish: nobody listens to 'end' and 'error'.
FinishUnheard(r, how, reading) ==
    /\ stream' = [stream EXCEPT ![r] = how]
    /\ UNCHANGED <<total, sent, reader, from>>

\* Mutation of Finish: 'error' calls end.
FinishAsEnd(r, how, reading) ==
    /\ stream' = [stream EXCEPT ![r] = how]
    /\ reader' = [reader EXCEPT ![r] = IF @ = "reading" THEN "whole" ELSE @]
    /\ UNCHANGED <<total, sent, from>>

\* 'end' and 'error' end the iteration that has subscribed before.
Finish(r, how, reading) ==
    /\ stream' = [stream EXCEPT ![r] = how]
    /\ reader' = [reader EXCEPT ![r] = IF @ = "reading" THEN reading ELSE @]
    /\ UNCHANGED <<total, sent, from>>

EndOfBody(r) ==
    Flowing(r) /\ sent[r] = total[r] /\ Finish(r, "ended", "whole")

\* The sender goes away, and node destroys the stream, listened to or not: who
\* has no listener by then does not hear of it.
Broken(r) ==
    stream[r] = "open" /\ Finish(r, "failed", "failed")

\* This iteration began when there was nothing more to hear: next() is never
\* answered.
Deaf(r) == reader[r] = "reading" /\ stream[r] # "open"

TypeOK ==
    /\ total \in [Request -> 0..MaxChunks]
    /\ stream \in [Request -> {"open", "ended", "failed"}]
    /\ reader \in [Request -> {"none", "reading", "whole", "failed"}]
    /\ sent \in [Request -> 0..MaxChunks]
    /\ from \in [Request -> 0..MaxChunks]
    /\ \A r \in Request : from[r] <= sent[r] /\ sent[r] <= total[r]
=============================================================================
