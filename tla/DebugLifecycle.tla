--------------------------- MODULE DebugLifecycle ---------------------------
(***************************************************************************)
(* packages/bidi/src/lifecycles/DebugRequestLifecycle.ts under the router: *)
(* one lifecycle object is shared by all requests in flight and keeps, in  *)
(* requestMismatches, the routes each of them failed to match, to print    *)
(* them with the answer.  A request finds its entry through an id header   *)
(* that begin appends; getHeaderValue reads the FIRST header of that name, *)
(* so a request that arrives with one (forwarded by a handler, or by       *)
(* another http4t server) goes by that id.                                 *)
(***************************************************************************)
EXTENDS Router

CONSTANTS Forwarder,  \* the requests that may arrive with an id header
          Foreign,    \* an id that another lifecycle object made up
          OwnId       \* the request has no id header but the one begin adds

ASSUME IdAssumption == Foreign \notin Request /\ OwnId \notin Request /\ Foreign # OwnId

VARIABLES carries,     \* the id header each request arrives with
          mismatches,  \* requestMismatches: id -> route keys, in order
          reported     \* the mismatches consumeUnmatched gave each request

debugVars == <<carries, mismatches, reported>>
vars == <<routerVars, debugVars>>

\* A request made from within another copies its id, or brings one from afar.
Init ==
    /\ RouterInit
    /\ carries \in {c \in [Request -> Request \union {Foreign, OwnId}] :
                      \A r \in Request :
                          c[r] # OwnId => r \in Forwarder /\ c[r] \notin Forwarder}
    /\ mismatches = [id \in {} |-> <<>>]
    /\ reported = [r \in Request |-> <<>>]

\* Mutation of IdOf: one list for whatever request is in flight.
SharedId(r) == CHOOSE q \in Request : TRUE

\* The first id header of the request that begin returned.
IdOf(r) == IF carries[r] = OwnId THEN r ELSE carries[r]

\* requestMismatches[id] = [], where begin's own uuid is the request itself.
With(id, list) ==
    [i \in DOMAIN mismatches \union {id} |-> IF i = id THEN list ELSE mismatches[i]]

\* Mutation of ConsumeUnmatched: the entry is read and kept.
ReadUnmatched(r) ==
    /\ reported' = [reported EXCEPT ![r] =
                       IF IdOf(r) \in DOMAIN mismatches THEN mismatches[IdOf(r)] ELSE <<>>]
    /\ UNCHANGED <<mismatches, carries>>

\* consumeUnmatched: read the entry (or an empty list) and delete it.
ConsumeUnmatched(r) ==
    /\ reported' = [reported EXCEPT ![r] =
                       IF IdOf(r) \in DOMAIN mismatches THEN mismatches[IdOf(r)] ELSE <<>>]
    /\ mismatches' = [id \in DOMAIN mismatches \ {IdOf(r)} |-> mismatches[id]]
    /\ UNCHANGED carries

-----------------------------------------------------------------------------
\* Mutation of DebugBegin: the entry is made under the id the request came with.
BeginUnderCarried(r) ==
    /\ carries[r] \in Request => pc[carries[r]] # "begin"
    /\ \E how \in {"returns", "rejects"} : Begin(r, how)
    /\ mismatches' = With(IdOf(r), <<>>)
    /\ UNCHANGED <<carries, reported>>

\* A copied id is that of a request that has begun.
\* The entry is made first; then the body is buffered, which fails if the
\* request's stream does.
DebugBegin(r) ==
    /\ carries[r] \in Request => pc[carries[r]] # "begin"
    /\ \E how \in {"returns", "rejects"} : Begin(r, how)
    /\ mismatches' = With(r, <<>>)
    /\ UNCHANGED <<carries, reported>>

DebugGet(r) == (\E v \in Verdict : Get(r, v)) /\ UNCHANGED debugVars

\* push on requestMismatches[id], a TypeError when there is no such entry.
DebugMismatch(r) ==
    \/ /\ IdOf(r) \in DOMAIN mismatches
       /\ Mismatch(r, "returns")
       /\ mismatches' = With(IdOf(r), Append(mismatches[IdOf(r)], RouteOf(r)))
       /\ UNCHANGED <<carries, reported>>
    \/ /\ IdOf(r) \notin DOMAIN mismatches
       /\ Mismatch(r, "rejects")
       /\ UNCHANGED debugVars

DebugExecute(r) == (\E how \in Ran : Execute(r, how)) /\ UNCHANGED debugVars

DebugSet(r) ==
    (\E how \in {"returns", "rejects"} : SetResponse(r, how)) /\ UNCHANGED debugVars

\* match prints before it consumes: printing reads the response's body, and if
\* that fails the entry stays.
DebugMatch(r) ==
    \/ Match(r, "returns") /\ ConsumeUnmatched(r)
    \/ Match(r, "rejects") /\ UNCHANGED debugVars

\* The others consume first; printing the body of the lens's own response may
\* fail (clientError), so may reading .stack of a thrown undefined (serverError).
DebugClientError(r) ==
    (\E how \in {"returns", "rejects"} : ClientError(r, how)) /\ ConsumeUnmatched(r)

DebugServerError(r) ==
    (\E how \in {"returns", "rejects"} : ServerError(r, how)) /\ ConsumeUnmatched(r)

DebugNoMatchFound(r) ==
    NoMatchFound(r, "returns") /\ ConsumeUnmatched(r)

Step(r) ==
    \/ DebugBegin(r) \/ DebugGet(r) \/ DebugMismatch(r) \/ DebugExecute(r)
    \/ DebugSet(r)
    \/ DebugMatch(r) \/ DebugClientError(r) \/ DebugServerError(r)
    \/ DebugNoMatchFound(r)

Next == \E r \in Request : Step(r)

Spec == Init /\ [][Next]_vars

-----------------------------------------------------------------------------
\* The lifecycle's own state has its type; the header decides whose entry a
\* request works on (DebugRequestLifecycle.ts:92).
TypeOK ==
    /\ RouterTypeOK
    /\ carries \in [Request -> Request \union {Foreign, OwnId}]
    /\ DOMAIN mismatches \subseteq Request
    /\ \A id \in DOMAIN mismatches : mismatches[id] \in Seq(Route)
    /\ reported \in [Request -> Seq(Route)]

\* A request that made its own id, and whose id no other request copied.
Isolated(r) == carries[r] = OwnId /\ \A q \in Request : carries[q] # r

\* Although all requests share one map, what is printed with a request's answer
\* are exactly the routes it was tried against before the one that answered, in
\* order, and nothing of a request handled meanwhile (mismatch 108-114 against
\* consumeUnmatched 204-209).
OwnMismatchesReported ==
    \A r \in Request :
        Isolated(r) /\ answer[r] \in Answers \ {"empty500"} =>
            /\ reported[r] = SubSeq(order, 1, pos[r] - 1)
            /\ \A i \in DOMAIN reported[r] : verdict[r][reported[r][i]] = "wrong"

\* The map does not grow with the requests served: when a request has settled
\* its entry is gone, unless begin could not read the request (the entry is made
\* before the body is buffered, 102-105), match could not print the response
\* (it consumes last, 130), or the request went by another id all along.
LeftoversExplained ==
    \A r \in DOMAIN mismatches :
        \/ pc[r] # "settled"
        \/ <<"begin", "rejects">> \in failed[r]
        \/ <<"match", "rejects">> \in failed[r]
        \/ carries[r] # OwnId
=============================================================================
