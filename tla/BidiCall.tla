------------------------------ MODULE BidiCall ------------------------------
(***************************************************************************)
(* A call of a bidi client: packages/bidi/src/client.ts builds a request   *)
(* with the route's lens, an http handler takes it to a Router with the    *)
(* production lifecycle and back, and the client tells from a header of    *)
(* the response whether there is a result to read.  Routes may be secured  *)
(* with a token on both sides (auth, bidi-jwt).                            *)
(*                                                                         *)
(* A response is its status and what kind of body it has.  A route is the  *)
(* only one at its place, its method and path; a client of another version *)
(* may call a place with no route, without a token or with a body that is  *)
(* not json.                                                               *)
(***************************************************************************)
EXTENDS Router

CONSTANTS Place,          \* the functions of the client, named as their routes are
          Transport,      \* among "memory", "node", "fetch"
          Call,           \* the calls clients make
          BodyRoute,      \* routes with a json body in the request
          SecuredRoute,   \* routes behind jwtRoutes
          OrNotFoundRoute, StatusRoute, AuthErrorRoute, \* lenses of their responses
          Issued,         \* tokens the server has signed
          Nameless,       \* those of them that name no user
          OtherScheme,    \* Authentication headers that are no bearer's
          NoToken

\* authErrorOr wraps a lens that looks at the status: under a bare json() it would
\* read every AuthError as a success.
ASSUME CallAssumption ==
    /\ Route \subseteq Place
    /\ Transport \subseteq {"memory", "node", "fetch"}
    /\ \A c \in Call : c.place \in Place /\ c.readable \in BOOLEAN /\ c.via \in Transport
    /\ BodyRoute \subseteq Route /\ SecuredRoute \subseteq Route
    /\ OrNotFoundRoute \subseteq Place /\ StatusRoute \subseteq Place
    /\ AuthErrorRoute \subseteq OrNotFoundRoute \union StatusRoute
    /\ Nameless \subseteq Issued
    /\ OtherScheme \intersect Issued = {} /\ NoToken \notin Issued \union OtherScheme

VARIABLES call,     \* call[r]: its place, its token, whether its body is json, and its way
          expired,  \* tokens that jwtVerify no longer accepts
          claims,   \* the token whose claims the api function is given
          result,   \* what the api function returned
          built,    \* the response that a lens has built
          outcome,  \* what became of the call
          clients   \* the process of the clients: "up" or "dead"

serverVars == <<claims, result, built>>
clientVars == <<call, outcome, clients>>
vars == <<routerVars, serverVars, clientVars, expired>>

Blank(status) == [status |-> status, body |-> "empty"]
Reasons == {"forbidden", "unauthorized"}

Init ==
    /\ RouterInit
    /\ call \in [Request -> Call]
    /\ expired = {}
    /\ claims = [r \in Request |-> NoToken]
    /\ result = [r \in Request |-> "none"]
    /\ built = [r \in Request |-> Blank(200)]
    /\ outcome = [r \in Request |-> "calling"]
    /\ clients = "up"

Concludes(r, o) ==
    /\ outcome' = [outcome EXCEPT ![r] = o]
    /\ UNCHANGED <<routerVars, serverVars, call, clients, expired>>

\* route.request.set; the token function or the lens may fail.
Send(r) ==
    /\ outcome[r] = "calling" /\ clients = "up"
    /\ \E o \in {"sent", "unsent"} : Concludes(r, o)

-----------------------------------------------------------------------------
(* The server.  What runs in the clients' process ends with it.            *)

Serving(r) ==
    /\ outcome[r] \notin {"calling", "unsent"}
    /\ call[r].via = "memory" => clients = "up"

OnlyRouter == UNCHANGED <<serverVars, clientVars, expired>>

ServerBegin(r) == Serving(r) /\ Begin(r, "returns") /\ OnlyRouter

\* What a request lens says: the result for the router, and the response where it failed.
Found == [result |-> "ok", response |-> Blank(200)]
WrongRoute == [result |-> "wrong", response |-> Blank(404)]
RouteFailed(response) == [result |-> "failed", response |-> response]

\* routeFailed without a response of its own.
Refused400 == RouteFailed([status |-> 400, body |-> "message"])

\* The second lens is asked where the first has succeeded.
Both(first, second) == IF first = Found THEN second ELSE first

MethodAndPath(r, k) == IF k = call[r].place THEN Found ELSE WrongRoute

JsonGet(r) == IF call[r].readable THEN Found ELSE Refused400

Unsecured(r, k) ==
    Both(MethodAndPath(r, k), IF k \in BodyRoute THEN JsonGet(r) ELSE Found)

HeaderGet(r) == IF call[r].token = NoToken THEN Refused400 ELSE Found

BearerGet(r) ==
    Both(HeaderGet(r), IF call[r].token \in OtherScheme THEN RouteFailed(Blank(403)) ELSE Found)

\* Mutation of Verify: the token is decoded, not verified.
Decode(r) == Found

\* Not signed by us, or no longer valid.
Verify(r) == IF call[r].token \in Issued \ expired THEN Found ELSE RouteFailed(Blank(403))

ClaimsGet(r) == Both(Verify(r), IF call[r].token \in Nameless THEN Refused400 ELSE Found)

\* Mutation of Secured: the token is looked at before the route is known.
SecuredTokenFirst(r, k) == Both(Both(BearerGet(r), ClaimsGet(r)), Unsecured(r, k))

Secured(r, k) == Both(Both(Unsecured(r, k), BearerGet(r)), ClaimsGet(r))

\* The lens as the server gives it to the router, with claims for the token.
ServerGet(r) ==
    LET k     == RouteOf(r)
        found == IF k \in SecuredRoute THEN Secured(r, k) ELSE Unsecured(r, k)
    IN  /\ Serving(r) /\ pc[r] = "get"
        /\ Get(r, found.result)
        /\ built' = IF found.result = "failed" THEN [built EXCEPT ![r] = found.response] ELSE built
        /\ claims' = IF found = Found /\ k \in SecuredRoute
                     THEN [claims EXCEPT ![r] = call[r].token] ELSE claims
        /\ UNCHANGED <<result, clientVars, expired>>

ServerMismatch(r) == Serving(r) /\ Mismatch(r, "returns") /\ OnlyRouter

\* A value that JSON.stringify refuses is "unwritable".
Results(k) ==
    {"value", "unwritable", "nothing"} \union (IF k \in AuthErrorRoute THEN Reasons ELSE {})

ServerExecute(r) ==
    /\ Serving(r)
    /\ \/ /\ Execute(r, "returns")
          /\ \E v \in Results(RouteOf(r)) : result' = [result EXCEPT ![r] = v]
       \/ /\ \E how \in {"rejects", "unbuilt"} : Execute(r, how)
          /\ UNCHANGED result
    /\ UNCHANGED <<claims, built, clientVars, expired>>

\* JsonLens.set within a status.
WithStatus(status, v) == [status |-> status, body |-> v]

SetAuthError(v) == WithStatus(IF v = "unauthorized" THEN 401 ELSE 403, v)

SetOrNotFound(v) == IF v = "nothing" THEN Blank(404) ELSE WithStatus(200, v)

\* ResultLens.set, where the route has one, else the lens of the success.
Encoded(k, v) ==
    IF v \in Reasons THEN SetAuthError(v)
    ELSE IF k \in OrNotFoundRoute THEN SetOrNotFound(v) ELSE WithStatus(200, v)

\* There is no JsonBody of undefined.
ServerSet(r) ==
    /\ Serving(r)
    /\ \/ /\ result[r] = "nothing" /\ RouteOf(r) \notin OrNotFoundRoute
          /\ SetResponse(r, "rejects")
          /\ UNCHANGED built
       \/ /\ result[r] = "nothing" => RouteOf(r) \in OrNotFoundRoute
          /\ SetResponse(r, "returns")
          /\ built' = [built EXCEPT ![r] = Encoded(RouteOf(r), result[r])]
    /\ UNCHANGED <<claims, result, clientVars, expired>>

ServerAnswer(r) ==
    /\ Serving(r)
    /\ Match(r, "returns") \/ ClientError(r, "returns") \/ NoMatchFound(r, "returns")
    /\ OnlyRouter

\* The report waits forever for a body that came from a stream and was read.
CannotReport(r) ==
    pc[r] = "serverError" /\ call[r].via # "memory" /\ RouteOf(r) \in BodyRoute

ServerReport(r) ==
    /\ Serving(r) /\ ~CannotReport(r)
    /\ \E how \in {"returns", "rejects"} : ServerError(r, how)
    /\ OnlyRouter

-----------------------------------------------------------------------------
(* The way back.                                                           *)

\* What the lifecycle's header says; a rejection is the adapter's to answer.
Mark(a) ==
    CASE a = "match"        -> "Success"
      [] a = "clientError"  -> "ClientError"
      [] a = "noMatchFound" -> "NoMatch"
      [] a = "serverError"  -> "ServerError"
      [] OTHER              -> "none"

Answered(a, b) ==
    CASE a \in {"match", "clientError"} -> b
      [] a = "noMatchFound"             -> Blank(404)
      [] OTHER                          -> Blank(500)

Written(b) == IF b.body = "unwritable" THEN Blank(500) ELSE b

\* Mutation of Received: a proxy in between drops the headers it does not know.
ReceivedUnmarked(r) ==
    LET w == Written(Answered(answer[r], built[r]))
    IN  [status |-> w.status, body |-> w.body, mark |-> "none"]

\* A body that cannot be written leaves the headers as they are set already.
\* toHttp4tResponse of the browser puts each header's value where its name belongs.
Received(r) ==
    LET w == Written(Answered(answer[r], built[r]))
    IN  [status |-> w.status, body |-> w.body,
         mark |-> IF call[r].via = "fetch" THEN "none" ELSE Mark(answer[r])]

\* The lenses' get: a set with the value read, empty where the lens fails.
ReadJson(m) ==
    CASE m.body = "message" -> {}
      [] m.body = "empty"   -> {"nothing"}
      [] OTHER              -> {m.body}

ReadByStatus(m, statuses) == IF m.status \in statuses THEN ReadJson(m) ELSE {}

ReadOrNotFound(m) == IF m.status = 404 THEN {"nothing"} ELSE ReadByStatus(m, {200})

\* An error read for a value is none, nor a missing one.
AsSuccess(read) == {IF v \in Reasons THEN "misread" ELSE v : v \in read}
AsFailure(read) == {IF v = "nothing" THEN "noReason" ELSE v : v \in read}

\* Mutation of ReadSuccess: a json() where response(status, json()) belongs.
ReadSuccessBlindly(k, m) == AsSuccess(ReadJson(m))

ReadSuccess(k, m) ==
    AsSuccess(IF k \in OrNotFoundRoute THEN ReadOrNotFound(m)
              ELSE IF k \in StatusRoute THEN ReadByStatus(m, {200}) ELSE ReadJson(m))

\* ResultLens.get: the success first, then the failure.
ReadResult(k, m) ==
    IF ReadSuccess(k, m) # {} \/ k \notin AuthErrorRoute THEN ReadSuccess(k, m)
    ELSE AsFailure(ReadByStatus(m, {401, 403}))

\* The validator: a routing error throws, whatever the response lens would say of it.
Validated(k, m) ==
    IF m.mark \notin {"Success", "none"} \/ ReadResult(k, m) = {} THEN {"threw"}
    ELSE ReadResult(k, m)

\* Mutation of Receive: the handler's promise never rejects.
ReceiveUnlessRejected(r) ==
    /\ outcome[r] = "sent" /\ clients = "up" /\ pc[r] = "settled"
    /\ call[r].via = "memory" => answer[r] # "rejected" /\ built[r].body # "unwritable"
    /\ \E o \in Validated(call[r].place, Received(r)) : Concludes(r, o)

\* The handler's promise resolves, the body is buffered and validated.
Receive(r) ==
    /\ outcome[r] = "sent" /\ clients = "up" /\ pc[r] = "settled"
    /\ \/ /\ call[r].via = "memory"
          /\ answer[r] = "rejected" \/ built[r].body = "unwritable"
          /\ Concludes(r, "threw")
       \/ /\ call[r].via = "memory" => answer[r] # "rejected" /\ built[r].body # "unwritable"
          /\ \E o \in Validated(call[r].place, Received(r)) : Concludes(r, o)

\* fetch rejects; a response that breaks off fails while it is buffered.
BreakOff(r) ==
    /\ outcome[r] = "sent" /\ clients = "up"
    /\ call[r].via # "memory"
    /\ call[r].via = "node" => pc[r] = "settled"
    /\ Concludes(r, "threw")

\* Nobody listens for the 'error' of node's request.
Disconnect(r) ==
    /\ outcome[r] = "sent" /\ clients = "up" /\ call[r].via = "node"
    /\ clients' = "dead"
    /\ UNCHANGED <<routerVars, serverVars, call, outcome, expired>>

\* It makes no difference to calls that are routed already.
Expire(t) ==
    /\ t \in Issued \ expired
    /\ \E r \in Request : call[r].token = t /\ pc[r] \in {"begin", "get"}
    /\ expired' = expired \union {t}
    /\ UNCHANGED <<routerVars, serverVars, clientVars>>

-----------------------------------------------------------------------------
ServerStep(r) ==
    \/ ServerBegin(r) \/ ServerGet(r) \/ ServerMismatch(r) \/ ServerExecute(r)
    \/ ServerSet(r) \/ ServerAnswer(r) \/ ServerReport(r)

Step(r) == Send(r) \/ ServerStep(r) \/ Receive(r)

Next ==
    \/ \E r \in Request : Step(r) \/ BreakOff(r) \/ Disconnect(r)
    \/ \E t \in Issued : Expire(t)

Spec == Init /\ [][Next]_vars

\* Promises that can be resolved are; connections need not hold.
FairSpec == Spec /\ \A r \in Request : WF_vars(Step(r))

-----------------------------------------------------------------------------
Outcomes ==
    {"calling", "unsent", "sent", "threw", "value", "nothing", "noReason", "misread"}
        \union Reasons

\* Every variable has its type; nothing is in the server that was not sent.
CallTypeOK ==
    /\ RouterTypeOK
    /\ call \in [Request -> Call]
    /\ expired \subseteq Issued
    /\ claims \in [Request -> Issued \union {NoToken}]
    /\ result \in [Request -> {"none", "value", "unwritable", "nothing"} \union Reasons]
    /\ built \in [Request -> [status : {200, 400, 401, 403, 404},
                               body : {"empty", "message", "value", "unwritable"} \union Reasons]]
    /\ outcome \in [Request -> Outcomes]
    /\ clients \in {"up", "dead"}
    /\ \A r \in Request : outcome[r] \in {"calling", "unsent"} => pc[r] = "begin"

\* A secured function runs with the claims of the token its caller sent, and a
\* call is refused for its token only where the function it calls is secured:
\* the router asks the lenses of other secured routes first, and they must find
\* the place wrong before they find the token missing (auth/index.ts:20-24).
TokensDecide ==
    \A r \in Request :
        /\ \A i \in DOMAIN ran[r] :
              ran[r][i] \in SecuredRoute =>
                  claims[r] = call[r].token /\ call[r].token \in Issued \ Nameless
        /\ (answer[r] = "clientError" /\ call[r].readable) =>
              /\ call[r].place \in SecuredRoute
              /\ call[r].token \notin Issued \ (Nameless \union expired)

\* "We want to immediately throw an error for responses to requests that the
\* server did not understand at all, rather than trying to parse them with a
\* response lens" (client.ts:50-51).
RoutingFailureThrows ==
    \A r \in Request :
        (answer[r] \in {"clientError", "noMatchFound", "serverError"}) =>
            outcome[r] \in {"calling", "sent", "threw"}

\* To its caller, a call is a call of the api function: it returns what that
\* returned, or throws (client.ts:93-106).
Contract == INSTANCE CallContract WITH
    Blind  <- Place \ (OrNotFoundRoute \union StatusRoute),
    Result <- {"value", "unwritable", "nothing"} \union Reasons,
    asked  <- [r \in Request |-> call[r].place],
    ran    <- [r \in Request |-> {ran[r][i] : i \in DOMAIN ran[r]}]

ContractSpec == Contract!Spec

\* Every call comes back, unless its clients die of a lost connection or the
\* server cannot report its error (client.ts:93-106 with node's client.ts:41).
EveryCallReturns ==
    \A r \in Request :
        <>(outcome[r] \notin {"calling", "sent"} \/ clients = "dead" \/ CannotReport(r))
=============================================================================
