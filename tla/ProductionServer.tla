-------------------------- MODULE ProductionServer --------------------------
(***************************************************************************)
(* A router with the ProductionRequestLifecycle behind NodeServer          *)
(* (packages/node/src/server.ts): the request's body is node's stream, a   *)
(* lens may read it, the lifecycle's serverError reads it to log it, and   *)
(* the adapter writes the answer to node's response.  Requests share the   *)
(* server, which can be closed.                                            *)
(***************************************************************************)
EXTENDS Router

CONSTANTS MaxChunks,  \* bound on the chunks of a request's body
          JsonRoute,  \* routes whose lens parses the body (JsonLens)
          UnionRoute, \* those of them with two such lenses (UnionLens)
          TextRoute   \* routes whose lens takes the body as it is (TextLens)

ASSUME ReadingAssumption ==
    /\ JsonRoute \subseteq Route /\ TextRoute \subseteq Route /\ JsonRoute \cap TextRoute = {}
    /\ UnionRoute \subseteq JsonRoute
    /\ MaxChunks \in Nat

VARIABLES total, sent, stream, reader, from,  \* the bodies: NodeBody
          reading,  \* who reads the body of r: "nobody", "lens", "second", "report"
          conn,     \* node's response: "none", "open", "writing", "ended"
          wire,     \* the status line that was sent
          server    \* "listening", "closing", "closed"

Body == INSTANCE NodeBody

bodyVars     == <<total, sent, stream, reader, from>>
exchangeVars == <<conn, wire>>
serverVars == <<routerVars, bodyVars, reading, exchangeVars, server>>

ReadingRoute == JsonRoute \union TextRoute

ServerInit ==
    /\ RouterInit
    /\ Body!Init
    /\ reading = [r \in Request |-> "nobody"]
    /\ conn = [r \in Request |-> "none"]
    /\ wire = [r \in Request |-> "none"]
    /\ server = "listening"

-----------------------------------------------------------------------------
(* The router with ProductionRequestLifecycle.                             *)

\* Nothing is read or written in this step.
Aside == UNCHANGED <<bodyVars, reading, exchangeVars, server>>

ProdBegin(r) ==
    conn[r] = "open" /\ Begin(r, "returns") /\ Aside

\* Method and path are compared before the body is looked at (requests.ts:37-48).
GetUnread(r) ==
    /\ pc[r] = "get" /\ reading[r] = "nobody"
    /\ \/ Get(r, "wrong")
       \/ RouteOf(r) \notin ReadingRoute /\ \E v \in Verdict : Get(r, v)
    /\ Aside

\* The lens of the right path begins to read.
LensReads(r) ==
    /\ pc[r] = "get" /\ RouteOf(r) \in ReadingRoute
    /\ reading[r] = "nobody"
    /\ Body!Subscribe(r)
    /\ reading' = [reading EXCEPT ![r] = "lens"]
    /\ UNCHANGED <<routerVars, exchangeVars, server>>

\* The first lens of a union has read the body and failed: the second one reads it.
SecondReads(r) ==
    /\ reading[r] = "lens" /\ RouteOf(r) \in UnionRoute
    /\ Body!Subscribe(r)
    /\ reading' = [reading EXCEPT ![r] = "second"]
    /\ UNCHANGED <<routerVars, exchangeVars, server>>

\* It has the body, or the stream failed: JsonLens turns that into a client
\* error, TextLens lets it through.  A union fails as its second lens does, which
\* may be for another path.
GetRead(r) ==
    /\ reading[r] \in {"lens", "second"}
    /\ \/ reader[r] = "whole" /\ \E v \in {"ok", "failed", "throws"} : Get(r, v)
       \/ /\ reader[r] = "failed"
          /\ Get(r, IF RouteOf(r) \in JsonRoute THEN "failed" ELSE "throws")
       \/ reader[r] # "reading" /\ RouteOf(r) \in UnionRoute /\ Get(r, "wrong")
    /\ reading' = [reading EXCEPT ![r] = "nobody"]
    /\ UNCHANGED <<bodyVars, exchangeVars, server>>

ProdMismatch(r) == Mismatch(r, "returns") /\ Aside
ProdExecute(r)  == (\E how \in Ran : Execute(r, how)) /\ Aside
ProdSet(r)      == (\E how \in {"returns", "rejects"} : SetResponse(r, how)) /\ Aside

\* match, clientError and noMatchFound only add a header.
ProdAnswer(r) ==
    /\ Match(r, "returns") \/ ClientError(r, "returns") \/ NoMatchFound(r, "returns")
    /\ Aside

\* serverError awaits reportServerError, which begins with reading the body.
ReportReads(r) ==
    /\ pc[r] = "serverError"
    /\ reading[r] = "nobody"
    /\ Body!Subscribe(r)
    /\ reading' = [reading EXCEPT ![r] = "report"]
    /\ UNCHANGED <<routerVars, exchangeVars, server>>

\* The body was read, or could not be; a thrown undefined has no toString.
ProdServerError(r) ==
    /\ reading[r] = "report"
    /\ \/ reader[r] = "whole" /\ \E how \in {"returns", "rejects"} : ServerError(r, how)
       \/ reader[r] = "failed" /\ ServerError(r, "rejects")
    /\ reading' = [reading EXCEPT ![r] = "nobody"]
    /\ UNCHANGED <<bodyVars, exchangeVars, server>>

-----------------------------------------------------------------------------
(* NodeServer and its adapter.                                             *)

Wire(r, status) == wire' = [wire EXCEPT ![r] = status]
Conn(r, state)  == conn' = [conn EXCEPT ![r] = state]

OnlyExchange == UNCHANGED <<routerVars, bodyVars, reading, server>>

Accept(r) ==
    /\ server = "listening" /\ conn[r] = "none"
    /\ Conn(r, "open")
    /\ UNCHANGED wire /\ OnlyExchange

\* handler.handle came back: the status and the headers are set.
Respond(r) ==
    /\ conn[r] = "open" /\ pc[r] = "settled" /\ answer[r] # "rejected"
    /\ Conn(r, "writing")
    /\ UNCHANGED wire /\ OnlyExchange

\* Mutation of RespondRejected: the rejection is only logged.
RejectedOnlyLogged(r) ==
    /\ conn[r] = "open" /\ answer[r] = "rejected"
    /\ UNCHANGED exchangeVars /\ OnlyExchange

\* handler.handle rejected: the catch answers 500.
RespondRejected(r) ==
    /\ conn[r] = "open" /\ answer[r] = "rejected"
    /\ Conn(r, "ended") /\ Wire(r, "adapter500")
    /\ OnlyExchange

\* bodyToWriteStream: the first chunk sends the status line with it.
WriteFirst(r) ==
    /\ conn[r] = "writing" /\ wire[r] = "none"
    /\ Wire(r, answer[r])
    /\ UNCHANGED conn /\ OnlyExchange

WriteEnd(r) ==
    /\ conn[r] = "writing"
    /\ Conn(r, "ended") /\ Wire(r, answer[r])
    /\ OnlyExchange

\* A header is refused, or the response's body fails: 'error' without listener
\* throws, the catch sets 500, too late when the status line is out, and ends.
WriteFails(r) ==
    /\ conn[r] = "writing"
    /\ Conn(r, "ended")
    /\ \/ wire[r] = "none" /\ Wire(r, "adapter500")
       \/ wire[r] # "none" /\ UNCHANGED wire
    /\ OnlyExchange

Close ==
    /\ server = "listening"
    /\ server' = "closing"
    /\ UNCHANGED <<routerVars, bodyVars, reading, exchangeVars>>

\* The client went away before the body was whole, and its connection with it.
Gone(r) == stream[r] = "failed"

\* server.close calls back when the last connection is gone: its response has
\* ended, or its client has left.
Closed ==
    /\ server = "closing"
    /\ \A r \in Request : conn[r] \in {"none", "ended"} \/ Gone(r)
    /\ server' = "closed"
    /\ UNCHANGED <<routerVars, bodyVars, reading, exchangeVars>>

\* The client's side of the body.
BodyArrives(r) ==
    /\ Body!Data(r) \/ Body!EndOfBody(r)
    /\ UNCHANGED <<routerVars, reading, exchangeVars, server>>

\* A client may leave as long as it has not got its answer.
BodyBreaks(r) ==
    /\ conn[r] \in {"open", "writing"}
    /\ Body!Broken(r)
    /\ UNCHANGED <<routerVars, reading, exchangeVars, server>>

-----------------------------------------------------------------------------
Handle(r) ==
    \/ ProdBegin(r) \/ GetUnread(r) \/ LensReads(r) \/ SecondReads(r) \/ GetRead(r)
    \/ ProdMismatch(r)
    \/ ProdExecute(r) \/ ProdSet(r) \/ ProdAnswer(r) \/ ReportReads(r) \/ ProdServerError(r)
    \/ Respond(r) \/ RespondRejected(r) \/ WriteFirst(r) \/ WriteEnd(r) \/ WriteFails(r)

ServerNext ==
    \/ \E r \in Request : Accept(r) \/ Handle(r) \/ BodyArrives(r) \/ BodyBreaks(r)
    \/ Close \/ Closed

ServerSpec == ServerInit /\ [][ServerNext]_serverVars

\* Promises that can be resolved are, senders finish what they send (or break),
\* and node calls back.
FairServerSpec ==
    /\ ServerSpec
    /\ \A r \in Request : WF_serverVars(Handle(r)) /\ WF_serverVars(BodyArrives(r))
    /\ WF_serverVars(Closed)

-----------------------------------------------------------------------------
\* Every variable has its type; who reads a body has subscribed to it.
ServerTypeOK ==
    /\ RouterTypeOK
    /\ Body!TypeOK
    /\ reading \in [Request -> {"nobody", "lens", "second", "report"}]
    /\ conn \in [Request -> {"none", "open", "writing", "ended"}]
    /\ wire \in [Request -> Answers \union {"none", "adapter500"}]
    /\ server \in {"listening", "closing", "closed"}
    /\ \A r \in Request : reading[r] # "nobody" => reader[r] # "none"

\* A lens that accepts a body has seen all of it, although the stream does not
\* wait for readers once it flows (streams.ts:24-40).
AcceptedBodyIsWhole ==
    \A r \in Request : \A k \in ReadingRoute :
        verdict[r][k] = "ok" => stream[r] = "ended" /\ sent[r] = total[r]
            /\ (reading[r] = "nobody" => from[r] = 0)

\* A union has passed on a body that its first lens has read.
ReadInVain(r) == \E k \in UnionRoute : verdict[r][k] = "wrong"

\* The report, the second lens of a union or a route behind it reads a body that
\* was read to its end before.
Rereads(r) ==
    /\ Body!Deaf(r) /\ ~Gone(r)
    /\ \/ reading[r] = "report" /\ \E k \in ReadingRoute : verdict[r][k] \in {"ok", "failed", "throws"}
       \/ reading[r] = "second"
       \/ reading[r] \in {"lens", "report"} /\ ReadInVain(r)

\* The body is asked for when the client is gone: handle() never comes back, and
\* only the closed connection ends the exchange.
AsksTooLate(r) == Body!Deaf(r) /\ Gone(r)

\* Whatever lenses, api functions, lifecycle and the client do, a request that
\* was accepted is answered, except that an error is never reported once the
\* body was read (ProductionRequestLifecycle.ts:10-11), nor does a lens come to
\* an end after the first lens of a union has read it in vain (UnionLens.ts:17-21),
\* and that nobody comes to an end who asks for the body of a client that has
\* left (streams.ts:27-36).
AnsweredUnlessDeaf ==
    \A r \in Request : conn[r] = "open" ~> (conn[r] = "ended" \/ Rereads(r) \/ AsksTooLate(r))

\* close() resolves, whatever is in flight when it is called and whichever
\* clients leave, unless one that stays never gets its answer (server.ts:28-34).
CloseCompletes ==
    server = "closing" ~> (server = "closed" \/ \E r \in Request : Rereads(r))

\* router.ts:56 says of serverError: "The Router will not consider any more
\* routes, and will return the result of this method, which would usually be a
\* 500".  Not even a client that waits for it gets one.
ServerErrorIsAnswered ==
    \A r \in Request : pc[r] = "serverError" ~> (pc[r] = "settled" \/ Gone(r))
=============================================================================
