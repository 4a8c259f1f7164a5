------------------------------- MODULE Router -------------------------------
(***************************************************************************)
(* packages/bidi/src/router.ts: Router.handle walks the routes in name     *)
(* order, asks each route's request lens, and lets a RequestLifecycle      *)
(* observe and produce the answer.  One action per call the loop makes;    *)
(* `how` is the way that call came back: it returned, its promise          *)
(* rejected, or it threw before making a promise.  Which of those can      *)
(* happen is for the lifecycle to say: DebugLifecycle and                  *)
(* ProductionServer conjoin these actions with their own state.            *)
(***************************************************************************)
EXTENDS Naturals, Sequences, FiniteSets

CONSTANTS Request,   \* calls of handle(), in flight together
          Route      \* route names, numbered so that < is localeCompare

ASSUME RouteAssumption == Route \subseteq Nat /\ IsFiniteSet(Route)

VARIABLES order,     \* alphaOrderedRoutes
          pc,        \* the call that handle() of each request makes next
          pos,       \* index of the route under consideration
          verdict,   \* verdict[r][k]: what route k's request lens said of r
          ran,       \* the routes whose api function was called for r
          failed,    \* <<call, how>> of the lifecycle calls that failed for r
          answer     \* how handle() settled

routerVars == <<order, pc, pos, verdict, ran, failed, answer>>

How     == {"returns", "rejects", "throws"}
Ran     == {"returns", "rejects", "unbuilt"}
Verdict == {"wrong", "failed", "ok", "throws"}
Answers == {"match", "clientError", "noMatchFound", "serverError", "empty500"}

\* Object.entries may list the routes in any order.
Entries ==
    {e \in [1..Cardinality(Route) -> Route] :
        \A k \in Route : \E i \in DOMAIN e : e[i] = k}

\* Mutation of AlphaOrdered: the routes are taken as Object.entries lists them.
AsListed(e) == {e}

AlphaOrdered(e) ==
    {s \in Entries : \A i, j \in DOMAIN s : i < j => s[i] < s[j]}

RouterInit ==
    /\ \E e \in Entries : order \in AlphaOrdered(e)
    /\ pc = [r \in Request |-> "begin"]
    /\ pos = [r \in Request |-> 1]
    /\ verdict = [r \in Request |-> [k \in Route |-> "unasked"]]
    /\ ran = [r \in Request |-> <<>>]
    /\ failed = [r \in Request |-> {}]
    /\ answer = [r \in Request |-> "none"]

-----------------------------------------------------------------------------
RouteOf(r) == order[pos[r]]

\* Mutation of AtRoute: the loop runs one route too far.
AtRouteTooFar(i) == IF i <= Len(order) + 1 THEN "get" ELSE "noMatchFound"

\* The loop at its i-th route, or past the last one.
AtRoute(i) == IF i <= Len(order) THEN "get" ELSE "noMatchFound"

Go(r, next) ==
    /\ pc' = [pc EXCEPT ![r] = next]
    /\ UNCHANGED answer

Settle(r, a) ==
    /\ pc' = [pc EXCEPT ![r] = "settled"]
    /\ answer' = [answer EXCEPT ![r] = a]

Note(r, how) ==
    failed' = IF how = "returns" THEN failed
              ELSE [failed EXCEPT ![r] = @ \union {<<pc[r], how>>}]

\* `return lifecycle.m(...)` inside an async function: the promise becomes the
\* result of handle() and is not awaited, so its rejection is handle()'s own; a
\* call that throws first is caught by the enclosing catch, which goes `caught`.
ReturnedCall(r, how, caught) ==
    /\ \/ how = "returns" /\ Settle(r, pc[r])
       \/ how = "rejects" /\ Settle(r, "rejected")
       \/ how = "throws" /\ caught
    /\ Note(r, how)
    /\ UNCHANGED <<order, pos, verdict, ran>>

\* await lifecycle.begin: its failure reaches the outer catch.
Begin(r, how) ==
    /\ pc[r] = "begin"
    /\ Note(r, how)
    /\ \/ how = "returns" /\ Go(r, AtRoute(1))
       \/ how # "returns" /\ Settle(r, "empty500")
    /\ UNCHANGED <<order, pos, verdict, ran>>

\* Mutation of Get: the two failure types are mistaken for each other.
GetConfused(r, v) ==
    /\ pc[r] = "get"
    /\ verdict' = [verdict EXCEPT ![r][RouteOf(r)] = v]
    /\ Go(r, CASE v = "wrong"  -> "clientError"
               [] v = "failed" -> "mismatch"
               [] v = "ok"     -> "execute"
               [] v = "throws" -> "serverError")
    /\ UNCHANGED <<order, pos, ran, failed>>

\* await route.request.get, then the switch on the failure's type.
Get(r, v) ==
    /\ pc[r] = "get"
    /\ verdict' = [verdict EXCEPT ![r][RouteOf(r)] = v]
    /\ Go(r, CASE v = "wrong"  -> "mismatch"
               [] v = "failed" -> "clientError"
               [] v = "ok"     -> "execute"
               [] v = "throws" -> "serverError")
    /\ UNCHANGED <<order, pos, ran, failed>>

\* Mutation of Mismatch: the loop forgets to move on.
MismatchStays(r, how) ==
    /\ pc[r] = "mismatch"
    /\ Note(r, how)
    /\ Go(r, IF how = "returns" THEN "get" ELSE "serverError")
    /\ UNCHANGED <<order, pos, verdict, ran>>

\* await lifecycle.mismatch, continue.
Mismatch(r, how) ==
    /\ pc[r] = "mismatch"
    /\ Note(r, how)
    /\ \/ /\ how = "returns"
          /\ pos' = [pos EXCEPT ![r] = @ + 1]
          /\ Go(r, AtRoute(pos[r] + 1))
       \/ /\ how # "returns"
          /\ Go(r, "serverError")
          /\ UNCHANGED pos
    /\ UNCHANGED <<order, verdict, ran>>

\* await executeApiFn: build the api for this request, call the route's
\* function; `unbuilt` is a failing ApiBuilder.
Execute(r, how) ==
    /\ pc[r] = "execute"
    /\ \/ how = "unbuilt" /\ UNCHANGED ran
       \/ how # "unbuilt" /\ ran' = [ran EXCEPT ![r] = Append(@, RouteOf(r))]
    /\ Go(r, IF how = "returns" THEN "set" ELSE "serverError")
    /\ UNCHANGED <<order, pos, verdict, failed>>

\* await route.response.set(responseOf(200), apiResult)
SetResponse(r, how) ==
    /\ pc[r] = "set"
    /\ Go(r, IF how = "returns" THEN "match" ELSE "serverError")
    /\ UNCHANGED <<order, pos, verdict, ran, failed>>

Match(r, how) ==
    pc[r] = "match" /\ ReturnedCall(r, how, Go(r, "serverError"))

ClientError(r, how) ==
    pc[r] = "clientError" /\ ReturnedCall(r, how, Go(r, "serverError"))

ServerError(r, how) ==
    pc[r] = "serverError" /\ ReturnedCall(r, how, Settle(r, "empty500"))

NoMatchFound(r, how) ==
    pc[r] = "noMatchFound" /\ ReturnedCall(r, how, Settle(r, "empty500"))

\* handle() with a lifecycle of which nothing is known.
RouterStep(r) ==
    \/ \E v \in Verdict : Get(r, v)
    \/ \E how \in Ran : Execute(r, how)
    \/ \E how \in {"returns", "rejects"} : SetResponse(r, how)
    \/ \E how \in How :
           \/ Begin(r, how) \/ Mismatch(r, how) \/ Match(r, how)
           \/ ClientError(r, how) \/ ServerError(r, how) \/ NoMatchFound(r, how)

RouterNext ==
    \E r \in Request : RouterStep(r)

RouterSpec == RouterInit /\ [][RouterNext]_routerVars

\* Lenses, api functions and lifecycle calls all come back, one way or another.
FairRouterSpec == RouterSpec /\ \A r \in Request : WF_routerVars(RouterStep(r))

-----------------------------------------------------------------------------
Calls == {"begin", "mismatch", "match", "clientError", "serverError", "noMatchFound"}

\* Every variable has its type, and the loop is inside the list of routes
\* whenever it looks at one (router.ts:96-98).
RouterTypeOK ==
    /\ order \in Entries
    /\ pc \in [Request -> Calls \union {"get", "execute", "set", "settled"}]
    /\ pos \in [Request -> 1..Cardinality(Route) + 1]
    /\ verdict \in [Request -> [Route -> Verdict \union {"unasked"}]]
    /\ ran \in [Request -> Seq(Route)]
    /\ failed \in [Request -> SUBSET (Calls \X {"rejects", "throws"})]
    /\ answer \in [Request -> Answers \union {"none", "rejected"}]
    /\ \A r \in Request :
          /\ answer[r] = "none" <=> pc[r] # "settled"
          /\ pc[r] \in {"get", "mismatch", "execute", "set", "match", "clientError"} =>
                pos[r] <= Len(order)

\* At most one api function runs for a request, and it is the one whose name
\* comes first among the routes whose lens accepts it, whatever order
\* Object.entries gave (the comment at router.ts:78-86).
FirstMatchRuns ==
    \A r \in Request :
        /\ Len(ran[r]) <= 1
        /\ \A i \in DOMAIN ran[r] :
              /\ verdict[r][ran[r][i]] = "ok"
              /\ \A k \in Route : k < ran[r][i] => verdict[r][k] = "wrong"

Truthful(r) ==
    /\ answer[r] = "match" => Len(ran[r]) = 1 /\ failed[r] = {}
    /\ answer[r] = "clientError" =>
          ran[r] = <<>> /\ \E k \in Route : verdict[r][k] = "failed"
    /\ answer[r] = "noMatchFound" =>
          ran[r] = <<>> /\ \A k \in Route : verdict[r][k] = "wrong"

\* What the answer says happened is what happened.  Clients and the bidi
\* client's orNotFound rely on it: a success or a client error never hides an
\* api call of another outcome, and a no-match means every lens said so.
AnswerTellsTruth == \A r \in Request : Truthful(r)

\* Every request gets an answer or a rejection: no sequence of failing lenses,
\* api functions and lifecycle calls leaves handle() waiting (router.ts:92-126).
EveryRequestSettles == \A r \in Request : <>(pc[r] = "settled")

\* router.ts:59 says of serverError: "If this method ever throws an exception the
\* router will print stack trace and return an empty 500".
ServerErrorFailureGives500 ==
    \A r \in Request :
        (\E how \in How : <<"serverError", how>> \in failed[r]) =>
            answer[r] = "empty500"
=============================================================================
