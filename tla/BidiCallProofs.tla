--------------------------- MODULE BidiCallProofs ---------------------------
(***************************************************************************)
(* Calls of a bidi client, for any routes, calls and tokens.  Every step   *)
(* is the router's or leaves it alone, so RouterProofs' invariant holds.   *)
(* Beyond it: what a lens said of a call was said of its place and of its  *)
(* token (Asked), what the server has built is what its function returned  *)
(* (Computed), and a call ends only after its request has (Told).          *)
(***************************************************************************)
EXTENDS BidiCall, RouterProofs

CallTypes ==
    /\ call \in [Request -> Call]
    /\ expired \subseteq Issued
    /\ claims \in [Request -> Issued \union {NoToken}]
    /\ result \in [Request -> {"none", "value", "unwritable", "nothing"} \union Reasons]
    /\ built \in [Request -> [status : {200, 400, 401, 403, 404},
                               body : {"empty", "message", "value", "unwritable"} \union Reasons]]
    /\ outcome \in [Request -> Outcomes]
    /\ clients \in {"up", "dead"}

\* What the request lenses said of a call.
Asked(r) ==
    /\ \A k \in Route : verdict[r][k] \in {"ok", "failed"} => k = call[r].place
    /\ \A k \in SecuredRoute : verdict[r][k] = "ok" =>
          claims[r] = call[r].token /\ call[r].token \in Issued \ Nameless
    /\ \A k \in Route : verdict[r][k] = "failed" /\ call[r].readable =>
          k \in SecuredRoute /\ call[r].token \notin Issued \ (Nameless \union expired)

\* What its function returned and what the response lens made of it.
Computed(r) ==
    /\ ran[r] = <<>> => result[r] = "none"
    /\ pc[r] \in {"set", "match"} \/ answer[r] = "match" => result[r] \in Results(call[r].place)
    /\ pc[r] = "match" \/ answer[r] = "match" =>
          /\ built[r] = Encoded(call[r].place, result[r])
          /\ result[r] = "nothing" => call[r].place \in OrNotFoundRoute
    /\ pc[r] = "serverError" \/ answer[r] = "rejected" => result[r] \in {"none", "nothing"}
    /\ answer[r] # "empty500"

\* What became of the call.
Told(r) ==
    /\ outcome[r] \in {"calling", "unsent"} => pc[r] = "begin"
    /\ outcome[r] \notin {"calling", "unsent", "sent", "threw"} => pc[r] = "settled"

Tracked(r) == Asked(r) /\ Computed(r) /\ Told(r)

CallInv == RInv /\ CallTypes /\ \A r \in Request : Tracked(r)

\* A step of one call.
OthersKeep(r) ==
    /\ call' = call /\ expired \subseteq expired'
    /\ \A q \in Request \ {r} :
          /\ pc'[q] = pc[q] /\ verdict'[q] = verdict[q] /\ ran'[q] = ran[q]
          /\ answer'[q] = answer[q] /\ claims'[q] = claims[q] /\ result'[q] = result[q]
          /\ built'[q] = built[q] /\ outcome'[q] = outcome[q]

-----------------------------------------------------------------------------
\* What a step does to one call decides.
LEMMA CallFrame ==
    ASSUME CallInv, RInv', CallTypes', NEW r \in Request, OthersKeep(r), Tracked(r)'
    PROVE  CallInv'
<1>1. ASSUME NEW q \in Request \ {r} PROVE Tracked(q)'
  <2>1. /\ pc'[q] = pc[q] /\ verdict'[q] = verdict[q] /\ ran'[q] = ran[q]
        /\ answer'[q] = answer[q] /\ claims'[q] = claims[q] /\ result'[q] = result[q]
        /\ built'[q] = built[q] /\ outcome'[q] = outcome[q]
        /\ call' = call /\ expired \subseteq expired' /\ Tracked(q)
    BY DEF OthersKeep, CallInv
  <2>2. Asked(q)'
    BY <2>1 DEF Tracked, Asked
  <2>3. Computed(q)'
    BY <2>1 DEF Tracked, Computed
  <2>4. Told(q)'
    BY <2>1 DEF Tracked, Told
  <2> QED BY <2>2, <2>3, <2>4 DEF Tracked
<1> QED BY <1>1 DEF CallInv

\* The steps of the server are the router's.
LEMMA ServesAsRouter ==
    ASSUME NEW r \in Request, ServerStep(r)
    PROVE  RouterNext
<1>1. RouterStep(r)
  <2>1. CASE ServerGet(r)
    <3>1. \E v \in Verdict : Get(r, v)
      BY <2>1, SMTT(60) DEF ServerGet, Verdict, Secured, Unsecured, Both, Found, WrongRoute, RouteFailed,
         Refused400, MethodAndPath, JsonGet, BearerGet, HeaderGet, ClaimsGet, Verify
    <3> QED BY <3>1 DEF RouterStep
  <2>2. CASE ServerExecute(r)
    BY <2>2 DEF ServerExecute, RouterStep, Ran
  <2>3. CASE ServerBegin(r) \/ ServerMismatch(r) \/ ServerSet(r) \/ ServerAnswer(r) \/ ServerReport(r)
    BY <2>3 DEF ServerBegin, ServerMismatch, ServerSet, ServerAnswer, ServerReport, RouterStep, How
  <2> QED BY <2>1, <2>2, <2>3 DEF ServerStep
<1> QED BY <1>1 DEF RouterNext

\* The variables of the invariant and what it says of one call.
LEMMA CallFacts ==
    ASSUME CallInv, NEW r \in Request
    PROVE  /\ RInv /\ RouterTypeOK /\ CallTypes
           /\ Asked(r) /\ Computed(r) /\ Told(r)
           /\ answer[r] = "none" <=> pc[r] # "settled"
           /\ call[r] \in Call /\ call[r].place \in Place
           /\ pc[r] \in {"execute", "set", "match"} =>
                 RouteOf(r) \in Route /\ RouteOf(r) = call[r].place
           /\ pc[r] \in {"get", "mismatch"} => RouteOf(r) \in Route
           /\ pc[r] \in {"begin", "get", "mismatch", "execute", "clientError", "noMatchFound"} =>
                 ran[r] = <<>>
<1>1. RInv /\ RouterTypeOK /\ CallTypes /\ Asked(r) /\ Computed(r) /\ Told(r)
  BY DEF CallInv, Tracked, RInv
<1>2. (answer[r] = "none" <=> pc[r] # "settled") /\ RanHere(r) /\ VerdictLed(r)
  BY <1>1, Before DEF InRange
<1>3. call[r] \in Call /\ call[r].place \in Place
  BY <1>1, CallAssumption DEF CallTypes
<1>4. pc[r] \in {"get", "mismatch", "execute", "set", "match"} => RouteOf(r) \in Route
  BY <1>1, InLoop
<1>5. pc[r] \in {"execute", "set", "match"} => RouteOf(r) = call[r].place
  BY <1>1, <1>2, <1>4 DEF VerdictLed, Asked
<1>6. pc[r] \in {"begin", "get", "mismatch", "execute", "clientError", "noMatchFound"} => ran[r] = <<>>
  BY <1>2 DEF RanHere
<1> QED BY <1>1, <1>2, <1>3, <1>4, <1>5, <1>6

LEMMA CallInitInv == Init => CallInv
<1> SUFFICES ASSUME Init PROVE CallInv
  OBVIOUS
<1>1. RInv
  BY RouterInitInv DEF Init
<1>2. CallTypes
  BY DEF Init, CallTypes, Blank, Outcomes
<1>3. ASSUME NEW r \in Request PROVE Tracked(r)
  <2>1. Asked(r)
    BY CallAssumption DEF Init, RouterInit, Asked
  <2>2. Computed(r) /\ Told(r)
    BY DEF Init, RouterInit, Computed, Told
  <2> QED BY <2>1, <2>2 DEF Tracked
<1> QED BY <1>1, <1>2, <1>3 DEF CallInv

-----------------------------------------------------------------------------
\* A request that is served has been sent, and its client still waits for it.
LEMMA Waiting ==
    ASSUME CallInv, NEW r \in Request, Serving(r), pc[r] # "settled"
    PROVE  outcome[r] \in {"sent", "threw"} /\ answer[r] = "none"
BY CallFacts DEF Serving, Told

\* begin and mismatch: the loop goes to the next route.
LEMMA MovesOn ==
    ASSUME CallInv, NEW r \in Request, ServerBegin(r) \/ ServerMismatch(r)
    PROVE  OthersKeep(r) /\ CallTypes' /\ Tracked(r)'
<1>1. /\ Serving(r) /\ OnlyRouter /\ pc[r] \in {"begin", "mismatch"}
      /\ verdict' = verdict /\ ran' = ran /\ answer' = answer
      /\ \E i \in Nat : pc' = [pc EXCEPT ![r] = AtRoute(i)]
  <2>1. CASE ServerBegin(r)
    BY <2>1 DEF ServerBegin, Begin, Go
  <2>2. CASE ServerMismatch(r)
    <3>1. pos[r] + 1 \in Nat
      BY CallFacts, RouteAssumption, FS_CardinalityType DEF RouterTypeOK
    <3> QED BY <2>2, <3>1 DEF ServerMismatch, Mismatch, Go
  <2> QED BY <2>1, <2>2
<1>2. UNCHANGED <<claims, result, built, call, outcome, clients, expired>>
  BY <1>1 DEF OnlyRouter, serverVars, clientVars
<1>3. /\ pc'[r] \in {"get", "noMatchFound"}
      /\ \A q \in Request \ {r} : pc'[q] = pc[q]
  BY <1>1, CallFacts DEF RouterTypeOK, AtRoute
<1>4. OthersKeep(r) /\ CallTypes'
  BY <1>1, <1>2, <1>3, CallFacts DEF OthersKeep, CallTypes
<1>5. Tracked(r)'
  BY <1>1, <1>2, <1>3, CallFacts, Waiting DEF Tracked, Asked, Computed, Told
<1> QED BY <1>4, <1>5

\* What a lens says of a call, which the router notes.
LEMMA LensesLookAtPlaceAndToken ==
    ASSUME CallInv, NEW r \in Request, NEW k \in Route, NEW found,
           found = IF k \in SecuredRoute THEN Secured(r, k) ELSE Unsecured(r, k)
    PROVE  /\ found.result \in {"ok", "wrong", "failed"}
           /\ found.result = "ok" <=> found = Found
           /\ found.result \in {"ok", "failed"} => k = call[r].place
           /\ found.result = "ok" /\ k \in SecuredRoute => call[r].token \in Issued \ Nameless
           /\ found.result = "failed" /\ call[r].readable =>
                 k \in SecuredRoute /\ call[r].token \notin Issued \ (Nameless \union expired)
           /\ found.result = "failed" =>
                 found.response \in {Blank(403), [status |-> 400, body |-> "message"]}
<1>1. CASE k # call[r].place
  BY <1>1 DEF Secured, Unsecured, Both, MethodAndPath, WrongRoute, Found
<1>2. CASE k = call[r].place /\ k \notin SecuredRoute
  BY <1>2 DEF Unsecured, Both, MethodAndPath, JsonGet, Refused400, RouteFailed, Found
<1>3. CASE k = call[r].place /\ k \in SecuredRoute
  BY <1>3, CallAssumption DEF Secured, Unsecured, Both, MethodAndPath, JsonGet, Refused400,
     RouteFailed, Found, BearerGet, HeaderGet, ClaimsGet, Verify
<1> QED BY <1>1, <1>2, <1>3

LEMMA GetTracked ==
    ASSUME CallInv, NEW r \in Request, ServerGet(r)
    PROVE  OthersKeep(r) /\ CallTypes' /\ Tracked(r)'
<1> DEFINE k == RouteOf(r)
           found == IF k \in SecuredRoute THEN Secured(r, k) ELSE Unsecured(r, k)
<1>1. /\ Serving(r) /\ pc[r] = "get" /\ Get(r, found.result)
      /\ built' = IF found.result = "failed" THEN [built EXCEPT ![r] = found.response] ELSE built
      /\ claims' = IF found = Found /\ k \in SecuredRoute
                   THEN [claims EXCEPT ![r] = call[r].token] ELSE claims
      /\ UNCHANGED <<result, call, outcome, clients, expired>>
  BY DEF ServerGet, clientVars
<1>2. k \in Route /\ RouterTypeOK /\ CallTypes /\ Asked(r) /\ Computed(r) /\ Told(r) /\ ran[r] = <<>>
  BY <1>1, CallFacts
<1>3. outcome[r] \in {"sent", "threw"} /\ answer[r] = "none"
  BY <1>1, Waiting
<1>4. /\ found.result \in {"ok", "wrong", "failed"}
      /\ found.result = "ok" <=> found = Found
      /\ found.result \in {"ok", "failed"} => k = call[r].place
      /\ found.result = "ok" /\ k \in SecuredRoute => call[r].token \in Issued \ Nameless
      /\ found.result = "failed" /\ call[r].readable =>
            k \in SecuredRoute /\ call[r].token \notin Issued \ (Nameless \union expired)
      /\ found.result = "failed" =>
            found.response \in {Blank(403), [status |-> 400, body |-> "message"]}
  BY <1>2, LensesLookAtPlaceAndToken
<1> HIDE DEF found, k
<1>5. /\ verdict' = [verdict EXCEPT ![r][k] = found.result]
      /\ ran' = ran /\ answer' = answer
      /\ pc'[r] \in {"mismatch", "clientError", "execute"}
      /\ \A q \in Request \ {r} : pc'[q] = pc[q]
  BY <1>1, <1>2, <1>4 DEF Get, Go, RouterTypeOK, k
<1>6. /\ verdict'[r][k] = found.result
      /\ \A j \in Route : j # k => verdict'[r][j] = verdict[r][j]
      /\ \A q \in Request \ {r} : verdict'[q] = verdict[q]
  BY <1>2, <1>5 DEF RouterTypeOK
<1>7. /\ claims' \in [Request -> Issued \union {NoToken}]
      /\ \A q \in Request \ {r} : claims'[q] = claims[q]
      /\ claims'[r] = IF found = Found /\ k \in SecuredRoute THEN call[r].token ELSE claims[r]
  BY <1>1, <1>2, <1>4 DEF CallTypes
<1>8. /\ built' \in [Request -> [status : {200, 400, 401, 403, 404},
                     body : {"empty", "message", "value", "unwritable"} \union Reasons]]
      /\ \A q \in Request \ {r} : built'[q] = built[q]
  <2>1. found.result = "failed" =>
           found.response \in [status : {200, 400, 401, 403, 404},
                     body : {"empty", "message", "value", "unwritable"} \union Reasons]
    BY <1>4 DEF Blank
  <2> QED BY <1>1, <1>2, <2>1 DEF CallTypes
<1>9. OthersKeep(r)
  BY <1>1, <1>5, <1>6, <1>7, <1>8 DEF OthersKeep
<1>10. CallTypes'
  BY <1>1, <1>2, <1>7, <1>8 DEF CallTypes
<1>11. Asked(r)'
  <2>1. \A j \in Route : verdict'[r][j] \in {"ok", "failed"} => j = call'[r].place
    BY <1>1, <1>2, <1>4, <1>6 DEF Asked
  <2>2. \A j \in SecuredRoute : verdict'[r][j] = "ok" =>
           claims'[r] = call'[r].token /\ call'[r].token \in Issued \ Nameless
    <3> SUFFICES ASSUME NEW j \in SecuredRoute, verdict'[r][j] = "ok"
                 PROVE  claims'[r] = call[r].token /\ call[r].token \in Issued \ Nameless
      BY <1>1
    <3>1. j \in Route
      BY CallAssumption
    <3>2. CASE j = k
      BY <1>4, <1>6, <1>7, <3>2
    <3>3. CASE j # k
      BY <1>2, <1>6, <1>7, <3>1, <3>3 DEF Asked
    <3> QED BY <3>2, <3>3
  <2>3. \A j \in Route : verdict'[r][j] = "failed" /\ call'[r].readable =>
           j \in SecuredRoute /\ call'[r].token \notin Issued \ (Nameless \union expired')
    BY <1>1, <1>2, <1>4, <1>6 DEF Asked
  <2> QED BY <2>1, <2>2, <2>3 DEF Asked
<1>12. Computed(r)' /\ Told(r)'
  BY <1>1, <1>2, <1>3, <1>5 DEF Computed, Told
<1> QED BY <1>9, <1>10, <1>11, <1>12 DEF Tracked

\* The function runs once, for the call's place, and what it returns is noted.
LEMMA ExecuteTracked ==
    ASSUME CallInv, NEW r \in Request, ServerExecute(r)
    PROVE  /\ OthersKeep(r) /\ CallTypes' /\ Tracked(r)'
           /\ \/ ran'[r] = <<call[r].place>>
                 /\ \E v \in Results(call[r].place) \union {"none"} :
                       result' = [result EXCEPT ![r] = v]
              \/ ran' = ran /\ result' = result
<1>1. PICK how \in Ran : Execute(r, how)
  BY DEF ServerExecute, Ran
<1>2. /\ Serving(r) /\ UNCHANGED <<claims, built, call, outcome, clients, expired>>
      /\ pc[r] = "execute" /\ verdict' = verdict /\ answer' = answer
      /\ pc' = [pc EXCEPT ![r] = IF how = "returns" THEN "set" ELSE "serverError"]
      /\ \/ how = "unbuilt" /\ ran' = ran
         \/ how # "unbuilt" /\ ran' = [ran EXCEPT ![r] = Append(@, RouteOf(r))]
  BY <1>1 DEF ServerExecute, clientVars, Execute, Go
<1>3. /\ RouteOf(r) = call[r].place /\ ran[r] = <<>> /\ RouteOf(r) \in Route
      /\ CallTypes /\ Asked(r) /\ Computed(r) /\ Told(r) /\ RouterTypeOK
      /\ outcome[r] \in {"sent", "threw"} /\ answer[r] = "none"
  BY <1>2, CallFacts, Waiting
<1>4. result[r] = "none"
  BY <1>3 DEF Computed
<1>5. PICK v \in Results(call[r].place) \union {"none"} :
         /\ result' = [result EXCEPT ![r] = v]
         /\ how = "returns" => v # "none"
         /\ how # "returns" => v = "none" /\ result' = result
  <2>1. CASE how = "returns"
    <3>1. ~ \E h \in {"rejects", "unbuilt"} : Execute(r, h)
      <4>1. pc'[r] = "set"
        BY <1>2, <1>3, <2>1 DEF RouterTypeOK
      <4>2. ASSUME NEW h \in {"rejects", "unbuilt"}, Execute(r, h) PROVE FALSE
        <5>1. pc' = [pc EXCEPT ![r] = "serverError"]
          BY <4>2 DEF Execute, Go
        <5> QED BY <1>3, <4>1, <5>1 DEF RouterTypeOK
      <4> QED BY <4>2
    <3>2. \E v \in Results(RouteOf(r)) : result' = [result EXCEPT ![r] = v]
      BY <3>1 DEF ServerExecute
    <3> QED BY <1>3, <2>1, <3>2 DEF Results, Reasons
  <2>2. CASE how # "returns"
    <3>1. ~ Execute(r, "returns")
      <4>1. pc'[r] = "serverError"
        BY <1>2, <1>3, <2>2 DEF RouterTypeOK
      <4>2. ASSUME Execute(r, "returns") PROVE FALSE
        <5>1. pc' = [pc EXCEPT ![r] = "set"]
          BY <4>2 DEF Execute, Go
        <5> QED BY <1>3, <4>1, <5>1 DEF RouterTypeOK
      <4> QED BY <4>2
    <3>2. result' = result
      BY <3>1 DEF ServerExecute
    <3>3. result' = [result EXCEPT ![r] = "none"]
      BY <1>3, <1>4, <3>2 DEF CallTypes
    <3> QED BY <2>2, <3>2, <3>3
  <2> QED BY <2>1, <2>2
<1>6. /\ result' \in [Request -> {"none", "value", "unwritable", "nothing"} \union Reasons]
      /\ result'[r] = v /\ \A q \in Request \ {r} : result'[q] = result[q]
  BY <1>3, <1>5 DEF CallTypes, Results, Reasons
<1>7. /\ \A q \in Request \ {r} : ran'[q] = ran[q]
      /\ how = "unbuilt" => ran' = ran
      /\ how # "unbuilt" => ran'[r] = <<call[r].place>>
  <2>1. Append(ran[r], RouteOf(r)) = <<RouteOf(r)>>
    BY <1>3
  <2> QED BY <1>2, <1>3, <2>1 DEF RouterTypeOK
<1>8. /\ pc'[r] = (IF how = "returns" THEN "set" ELSE "serverError")
      /\ \A q \in Request \ {r} : pc'[q] = pc[q]
  BY <1>2, <1>3 DEF RouterTypeOK
<1>9. OthersKeep(r) /\ CallTypes'
  BY <1>2, <1>3, <1>6, <1>7, <1>8 DEF OthersKeep, CallTypes
<1>10. Asked(r)' /\ Told(r)'
  BY <1>2, <1>3, <1>8 DEF Asked, Told
<1>11. Computed(r)'
  <2>1. how = "returns" => v \in Results(call[r].place)
    BY <1>5
  <2>2. ran'[r] = <<>> => v = "none"
    BY <1>5, <1>7
  <2> QED BY <1>2, <1>3, <1>5, <1>6, <1>8, <2>1, <2>2 DEF Computed
<1>12. \/ ran'[r] = <<call[r].place>> /\ result' = [result EXCEPT ![r] = v]
       \/ ran' = ran /\ result' = result
  BY <1>5, <1>7
<1> QED BY <1>9, <1>10, <1>11, <1>12 DEF Tracked

\* The response lens writes what the function returned.
LEMMA SetTracked ==
    ASSUME CallInv, NEW r \in Request, ServerSet(r)
    PROVE  OthersKeep(r) /\ CallTypes' /\ Tracked(r)' /\ ran' = ran /\ result' = result
<1>1. /\ Serving(r) /\ UNCHANGED <<claims, result, call, outcome, clients, expired>>
      /\ pc[r] = "set" /\ verdict' = verdict /\ answer' = answer /\ ran' = ran
  BY DEF ServerSet, clientVars, SetResponse, Go
<1>2. /\ RouteOf(r) = call[r].place /\ result[r] \in Results(call[r].place)
      /\ CallTypes /\ Asked(r) /\ Computed(r) /\ Told(r) /\ RouterTypeOK
      /\ outcome[r] \in {"sent", "threw"} /\ answer[r] = "none"
  BY <1>1, CallFacts, Waiting DEF Computed
<1>3. \/ /\ pc' = [pc EXCEPT ![r] = "serverError"] /\ built' = built /\ result[r] = "nothing"
      \/ /\ pc' = [pc EXCEPT ![r] = "match"]
         /\ built' = [built EXCEPT ![r] = Encoded(call[r].place, result[r])]
         /\ result[r] = "nothing" => call[r].place \in OrNotFoundRoute
  BY <1>2 DEF ServerSet, SetResponse, Go
<1>4. Encoded(call[r].place, result[r]) \in [status : {200, 400, 401, 403, 404},
                     body : {"empty", "message", "value", "unwritable"} \union Reasons]
      \/ (result[r] = "nothing" /\ call[r].place \notin OrNotFoundRoute)
  BY <1>2 DEF Encoded, SetAuthError, SetOrNotFound, WithStatus, Blank, Results, Reasons
<1>5. CASE pc' = [pc EXCEPT ![r] = "serverError"] /\ built' = built /\ result[r] = "nothing"
  <2>1. pc'[r] = "serverError" /\ \A q \in Request \ {r} : pc'[q] = pc[q]
    BY <1>2, <1>5 DEF RouterTypeOK
  <2>2. OthersKeep(r) /\ CallTypes' /\ Asked(r)' /\ Told(r)'
    BY <1>1, <1>2, <1>5, <2>1 DEF OthersKeep, CallTypes, Asked, Told
  <2>3. Computed(r)'
    BY <1>1, <1>2, <1>5, <2>1 DEF Computed
  <2> QED BY <1>1, <2>2, <2>3 DEF Tracked
<1>6. CASE /\ pc' = [pc EXCEPT ![r] = "match"]
           /\ built' = [built EXCEPT ![r] = Encoded(call[r].place, result[r])]
           /\ result[r] = "nothing" => call[r].place \in OrNotFoundRoute
  <2>1. /\ pc'[r] = "match" /\ built'[r] = Encoded(call[r].place, result[r])
        /\ \A q \in Request \ {r} : pc'[q] = pc[q] /\ built'[q] = built[q]
    BY <1>2, <1>6 DEF RouterTypeOK, CallTypes
  <2>2. OthersKeep(r) /\ Asked(r)' /\ Told(r)'
    BY <1>1, <1>2, <2>1 DEF OthersKeep, Asked, Told
  <2>3. CallTypes'
    BY <1>1, <1>2, <1>4, <1>6 DEF CallTypes
  <2>4. Computed(r)'
    BY <1>1, <1>2, <1>6, <2>1 DEF Computed
  <2> QED BY <1>1, <2>2, <2>3, <2>4 DEF Tracked
<1> QED BY <1>3, <1>5, <1>6

\* The lifecycle answers; of a call that failed so far, maybe not even that.
LEMMA AnswersTracked ==
    ASSUME CallInv, NEW r \in Request, ServerAnswer(r) \/ ServerReport(r)
    PROVE  /\ OthersKeep(r) /\ CallTypes' /\ Tracked(r)'
           /\ ran' = ran /\ result' = result /\ outcome' = outcome
           /\ outcome[r] \in {"sent", "threw"}
<1>1. PICK a \in {"match", "clientError", "noMatchFound", "serverError", "rejected"} :
         /\ Serving(r) /\ OnlyRouter /\ verdict' = verdict /\ ran' = ran
         /\ pc[r] \in {"match", "clientError", "noMatchFound", "serverError"}
         /\ Settle(r, a)
         /\ a = "match" => pc[r] = "match"
         /\ a = "rejected" => pc[r] = "serverError"
  <2>1. CASE ServerAnswer(r)
    BY <2>1 DEF ServerAnswer, Match, ClientError, NoMatchFound, ReturnedCall
  <2>2. CASE ServerReport(r)
    <3>1. PICK how \in {"returns", "rejects"} : ServerError(r, how)
      BY <2>2 DEF ServerReport
    <3>2. pc[r] = "serverError" /\ verdict' = verdict /\ ran' = ran
          /\ (Settle(r, "serverError") \/ Settle(r, "rejected"))
      BY <3>1 DEF ServerError, ReturnedCall
    <3> QED BY <2>2, <3>2 DEF ServerReport
  <2> QED BY <2>1, <2>2
<1>2. UNCHANGED <<claims, result, built, call, outcome, clients, expired>>
  BY <1>1 DEF OnlyRouter, serverVars, clientVars
<1>3. /\ CallTypes /\ Asked(r) /\ Computed(r) /\ Told(r) /\ RouterTypeOK
      /\ outcome[r] \in {"sent", "threw"}
  BY <1>1, CallFacts, Waiting
<1>4. /\ pc'[r] = "settled" /\ answer'[r] = a
      /\ \A q \in Request \ {r} : pc'[q] = pc[q] /\ answer'[q] = answer[q]
  BY <1>1, <1>3 DEF Settle, RouterTypeOK
<1>5. OthersKeep(r) /\ CallTypes' /\ Asked(r)' /\ Told(r)'
  BY <1>1, <1>2, <1>3, <1>4 DEF OthersKeep, CallTypes, Asked, Told
<1>6. Computed(r)'
  BY <1>1, <1>2, <1>3, <1>4 DEF Computed
<1> QED BY <1>1, <1>2, <1>3, <1>5, <1>6 DEF Tracked

-----------------------------------------------------------------------------
\* The client's steps change the outcome of one call.
LEMMA ConcludesTracked ==
    ASSUME CallInv, NEW r \in Request, NEW o \in Outcomes, Concludes(r, o),
           \/ outcome[r] = "calling" /\ o \in {"sent", "unsent"}
           \/ outcome[r] = "sent" /\ o = "threw"
           \/ outcome[r] = "sent" /\ o \notin {"calling", "unsent"} /\ pc[r] = "settled"
    PROVE  CallInv'
<1>1. /\ UNCHANGED <<routerVars, claims, result, built, call, clients, expired>>
      /\ outcome' = [outcome EXCEPT ![r] = o]
  BY DEF Concludes, serverVars
<1>2. UNCHANGED <<order, pc, pos, verdict, ran, failed, answer>>
  BY <1>1 DEF routerVars
<1>3. RInv /\ CallTypes /\ Asked(r) /\ Computed(r) /\ Told(r)
  BY CallFacts
<1>4. RInv'
  BY <1>1, <1>3, RouterStepInv
<1>5. OthersKeep(r) /\ CallTypes' /\ outcome'[r] = o
  BY <1>1, <1>2, <1>3 DEF OthersKeep, CallTypes
<1>6. Asked(r)' /\ Computed(r)'
  BY <1>1, <1>2, <1>3 DEF Asked, Computed
<1>7. Told(r)'
  BY <1>2, <1>3, <1>5 DEF Told
<1> QED BY <1>4, <1>5, <1>6, <1>7, CallFrame DEF Tracked

\* What arrives has a body that could be written.
LEMMA Arrives ==
    ASSUME CallInv, NEW r \in Request
    PROVE  /\ Received(r).body \in {"empty", "message", "value"} \union Reasons
           /\ Received(r).body \in {"empty", "message"} \/
                 /\ answer[r] \in {"match", "clientError"}
                 /\ built[r].body # "unwritable"
                 /\ Received(r).body = built[r].body /\ Received(r).status = built[r].status
           /\ Received(r).mark = IF call[r].via = "fetch" THEN "none" ELSE Mark(answer[r])
<1>1. built[r] \in [status : {200, 400, 401, 403, 404},
                    body : {"empty", "message", "value", "unwritable"} \union Reasons]
  BY CallFacts DEF CallTypes
<1> QED BY <1>1 DEF Received, Written, Answered, Blank, Reasons

\* What a validator can say.
LEMMA ValidatedType ==
    ASSUME CallInv, NEW r \in Request, NEW o \in Validated(call[r].place, Received(r))
    PROVE  o \in {"threw", "value", "nothing", "noReason", "misread"} \union Reasons
<1> DEFINE m == Received(r)
           k == call[r].place
<1>1. m.body \in {"empty", "message", "value"} \union Reasons
  BY Arrives
<1> HIDE DEF m, k
<1>2. ReadJson(m) \subseteq {"nothing", "value"} \union Reasons
  BY <1>1 DEF ReadJson, Reasons
<1>3. \A statuses : ReadByStatus(m, statuses) \subseteq {"nothing", "value"} \union Reasons
  BY <1>2 DEF ReadByStatus
<1>4. ReadOrNotFound(m) \subseteq {"nothing", "value"} \union Reasons
  BY <1>3 DEF ReadOrNotFound
<1>5. ReadSuccess(k, m) \subseteq {"nothing", "value", "misread"}
  BY <1>2, <1>3, <1>4 DEF ReadSuccess, AsSuccess
<1>6. AsFailure(ReadByStatus(m, {401, 403})) \subseteq {"noReason", "value"} \union Reasons
  BY <1>3 DEF AsFailure
<1>7. o \in Validated(k, m)
  BY DEF k, m
<1> QED BY <1>5, <1>6, <1>7 DEF Validated, ReadResult

\* Every step of the client keeps the invariant.
LEMMA ClientInv ==
    ASSUME CallInv, NEW r \in Request, Send(r) \/ Receive(r) \/ BreakOff(r) \/ Disconnect(r)
    PROVE  CallInv'
<1>1. CASE Send(r)
  BY <1>1, ConcludesTracked DEF Send, Outcomes
<1>2. CASE Receive(r)
  <2>1. PICK o \in {"threw"} \union Validated(call[r].place, Received(r)) : Concludes(r, o)
    BY <1>2 DEF Receive
  <2>2. o \in {"threw", "value", "nothing", "noReason", "misread"} \union Reasons
    BY <2>1, ValidatedType
  <2>3. o \in Outcomes /\ o \notin {"calling", "unsent"}
    BY <2>2 DEF Outcomes, Reasons
  <2>4. outcome[r] = "sent" /\ pc[r] = "settled"
    BY <1>2 DEF Receive
  <2> QED BY <2>1, <2>3, <2>4, ConcludesTracked
<1>3. CASE BreakOff(r)
  BY <1>3, ConcludesTracked DEF BreakOff, Outcomes
<1>4. CASE Disconnect(r)
  <2>1. /\ UNCHANGED <<routerVars, claims, result, built, call, outcome, expired>>
        /\ clients' = "dead"
    BY <1>4 DEF Disconnect, serverVars
  <2>2. UNCHANGED <<order, pc, pos, verdict, ran, failed, answer>>
    BY <2>1 DEF routerVars
  <2>3. RInv'
    BY <2>1, CallFacts, RouterStepInv
  <2>4. OthersKeep(r) /\ CallTypes'
    BY <2>1, <2>2, CallFacts DEF OthersKeep, CallTypes
  <2>5. Tracked(r)'
    BY <2>1, <2>2, CallFacts DEF Tracked, Asked, Computed, Told
  <2> QED BY <2>3, <2>4, <2>5, CallFrame
<1> QED BY <1>1, <1>2, <1>3, <1>4

\* A token that expires is one less that could have been refused wrongly.
LEMMA ExpireInv ==
    ASSUME CallInv, NEW t \in Issued, Expire(t)
    PROVE  CallInv'
<1>1. /\ UNCHANGED <<routerVars, claims, result, built, call, outcome, clients>>
      /\ expired' = expired \union {t}
  BY DEF Expire, serverVars, clientVars
<1>2. UNCHANGED <<order, pc, pos, verdict, ran, failed, answer>>
  BY <1>1 DEF routerVars
<1>3. RInv' /\ CallTypes'
  BY <1>1, RouterStepInv DEF CallInv, CallTypes
<1>4. ASSUME NEW q \in Request PROVE Tracked(q)'
  BY <1>1, <1>2, CallFacts DEF Tracked, Asked, Computed, Told
<1> QED BY <1>3, <1>4 DEF CallInv

LEMMA ServerInv ==
    ASSUME CallInv, NEW r \in Request, ServerStep(r)
    PROVE  CallInv'
<1>1. RInv'
  BY ServesAsRouter, RouterStepInv DEF CallInv
<1>2. OthersKeep(r) /\ CallTypes' /\ Tracked(r)'
  BY MovesOn, GetTracked, ExecuteTracked, SetTracked, AnswersTracked DEF ServerStep
<1> QED BY <1>1, <1>2, CallFrame

LEMMA CallStepInv == CallInv /\ [Next]_vars => CallInv'
<1> SUFFICES ASSUME CallInv, [Next]_vars PROVE CallInv'
  OBVIOUS
<1>1. CASE UNCHANGED vars
  <2>1. UNCHANGED <<routerVars, claims, result, built, call, outcome, clients, expired>>
    BY <1>1 DEF vars, serverVars, clientVars
  <2>2. UNCHANGED <<order, pc, pos, verdict, ran, failed, answer>>
    BY <2>1 DEF routerVars
  <2>3. RInv' /\ CallTypes'
    BY <2>1, RouterStepInv DEF CallInv, CallTypes
  <2>4. ASSUME NEW q \in Request PROVE Tracked(q)'
    BY <2>1, <2>2, CallFacts DEF Tracked, Asked, Computed, Told
  <2> QED BY <2>3, <2>4 DEF CallInv
<1>2. CASE Next
  BY <1>2, ServerInv, ClientInv, ExpireInv DEF Next, Step
<1> QED BY <1>1, <1>2

LEMMA CallInductive == Spec => []CallInv
BY CallInitInv, CallStepInv, PTL DEF Spec

-----------------------------------------------------------------------------
\* Every variable has its type, and the server knows only what was sent
\* (client.ts:93-106).
THEOREM CallTypeCorrect == Spec => []CallTypeOK
<1>1. CallInv => CallTypeOK
  BY CallFacts DEF CallInv, CallTypes, RInv, Tracked, Told, CallTypeOK
<1>2. QED
  BY <1>1, CallInductive, PTL

\* For any routes, tokens and calls: a secured function runs with the claims of
\* its caller's token, and only a call of a secured function is refused for its
\* token (auth/index.ts:20-24).
THEOREM TokensAlwaysDecide == Spec => []TokensDecide
<1>1. ASSUME CallInv, NEW r \in Request, NEW i \in DOMAIN ran[r], ran[r][i] \in SecuredRoute
      PROVE  claims[r] = call[r].token /\ call[r].token \in Issued \ Nameless
  <2>1. RanHere(r) /\ Asked(r)
    BY <1>1, CallFacts, Before
  <2>2. ran[r][i] = RouteOf(r) /\ verdict[r][RouteOf(r)] = "ok"
    BY <1>1, <2>1 DEF RanHere
  <2> QED BY <1>1, <2>1, <2>2 DEF Asked
<1>2. ASSUME CallInv, NEW r \in Request, answer[r] = "clientError", call[r].readable
      PROVE  /\ call[r].place \in SecuredRoute
             /\ call[r].token \notin Issued \ (Nameless \union expired)
  <2>1. Truthful(r) /\ Asked(r)
    BY <1>2, CallFacts, Before
  <2>2. PICK k \in Route : verdict[r][k] = "failed"
    BY <1>2, <2>1 DEF Truthful
  <2> QED BY <1>2, <2>1, <2>2 DEF Asked
<1>3. CallInv => TokensDecide
  BY <1>1, <1>2 DEF TokensDecide
<1>4. QED
  BY <1>3, CallInductive, PTL

-----------------------------------------------------------------------------
\* Transports whose responses keep their headers.
HeadersKept == "fetch" \notin Transport

\* Behind a header that tells of a routing failure nothing is read.
LEMMA MarkedFailureThrows ==
    ASSUME CallInv, HeadersKept, NEW r \in Request,
           answer[r] \in {"clientError", "noMatchFound", "serverError"},
           NEW o \in Validated(call[r].place, Received(r))
    PROVE  o = "threw"
<1>1. call[r].via # "fetch"
  BY CallFacts, CallAssumption DEF HeadersKept
<1>2. Received(r).mark \notin {"Success", "none"}
  BY <1>1, Arrives DEF Mark
<1> QED BY <1>2 DEF Validated

LEMMA FailureThrowsStep ==
    CallInv /\ HeadersKept /\ RoutingFailureThrows /\ [Next]_vars => RoutingFailureThrows'
<1> SUFFICES ASSUME CallInv, HeadersKept, RoutingFailureThrows, [Next]_vars,
                    NEW q \in Request,
                    answer'[q] \in {"clientError", "noMatchFound", "serverError"}
             PROVE  outcome'[q] \in {"calling", "sent", "threw"}
  BY DEF RoutingFailureThrows
<1>1. CASE answer'[q] = answer[q] /\ outcome'[q] = outcome[q]
  BY <1>1 DEF RoutingFailureThrows
<1>2. ASSUME NEW r \in Request, ServerStep(r)
      PROVE  outcome'[q] \in {"calling", "sent", "threw"}
  <2>1. CASE ServerAnswer(r) \/ ServerReport(r)
    BY <1>1, <2>1, AnswersTracked DEF OthersKeep
  <2>2. CASE ServerBegin(r) \/ ServerMismatch(r)
    BY <1>1, <2>2 DEF ServerBegin, ServerMismatch, Begin, Mismatch, Go, OnlyRouter, clientVars,
       Settle
  <2>3. CASE ServerGet(r)
    BY <1>1, <2>3 DEF ServerGet, Get, Go, clientVars
  <2>4. CASE ServerExecute(r)
    <3>1. \E how : Execute(r, how)
      BY <2>4 DEF ServerExecute
    <3>2. answer' = answer /\ outcome' = outcome
      BY <2>4, <3>1 DEF ServerExecute, Execute, Go, clientVars
    <3> QED BY <1>1, <3>2
  <2>5. CASE ServerSet(r)
    BY <1>1, <2>5 DEF ServerSet, SetResponse, Go, clientVars
  <2> QED BY <1>2, <2>1, <2>2, <2>3, <2>4, <2>5 DEF ServerStep
<1>3. ASSUME NEW r \in Request, NEW o, Concludes(r, o), o \in {"sent", "threw"} \/ q # r
      PROVE  outcome'[q] \in {"calling", "sent", "threw"}
  BY <1>1, <1>3, CallFacts DEF Concludes, routerVars, CallTypes
<1>4. ASSUME NEW r \in Request, Send(r)
      PROVE  outcome'[q] \in {"calling", "sent", "threw"}
  <2>1. pc[r] = "begin" /\ answer[r] = "none" /\ answer' = answer
    BY <1>4, CallFacts DEF Send, Told, Concludes, routerVars
  <2>2. q # r
    BY <2>1
  <2> QED BY <1>3, <1>4, <2>2 DEF Send
<1>5. ASSUME NEW r \in Request, Receive(r)
      PROVE  outcome'[q] \in {"calling", "sent", "threw"}
  <2>1. PICK o \in {"threw"} \union Validated(call[r].place, Received(r)) : Concludes(r, o)
    BY <1>5 DEF Receive
  <2>2. answer' = answer
    BY <2>1 DEF Concludes, routerVars
  <2>3. q = r => o = "threw"
    BY <2>1, <2>2, MarkedFailureThrows
  <2> QED BY <1>3, <2>1, <2>3
<1>6. ASSUME NEW r \in Request, BreakOff(r)
      PROVE  outcome'[q] \in {"calling", "sent", "threw"}
  BY <1>3, <1>6 DEF BreakOff
<1>7. ASSUME NEW r \in Request, Disconnect(r) PROVE outcome'[q] \in {"calling", "sent", "threw"}
  BY <1>1, <1>7 DEF Disconnect, routerVars
<1>8. ASSUME NEW t \in Issued, Expire(t) PROVE outcome'[q] \in {"calling", "sent", "threw"}
  BY <1>1, <1>8 DEF Expire, routerVars, clientVars
<1>9. CASE UNCHANGED vars
  BY <1>1, <1>9 DEF vars, routerVars, clientVars
<1> QED BY <1>2, <1>4, <1>5, <1>6, <1>7, <1>8, <1>9 DEF Next, Step

\* Where headers are kept, a call that its server could not route or run throws,
\* whatever response lens its route has (client.ts:50-51).
THEOREM RoutingFailuresAlwaysThrow == HeadersKept => (Spec => []RoutingFailureThrows)
<1> SUFFICES ASSUME HeadersKept PROVE Spec => []RoutingFailureThrows
  OBVIOUS
<1>1. Init => RoutingFailureThrows
  BY DEF Init, RouterInit, RoutingFailureThrows
<1>2. CallInv /\ RoutingFailureThrows /\ [Next]_vars => RoutingFailureThrows'
  BY FailureThrowsStep
<1>3. QED
  BY <1>1, <1>2, CallInductive, PTL DEF Spec

-----------------------------------------------------------------------------
\* What the contract sees of a call.
Asks == [r \in Request |-> call[r].place]
Runs == [r \in Request |-> {ran[r][i] : i \in DOMAIN ran[r]}]

\* No response lens of these looks at the status.
BlindPlace == Place \ (OrNotFoundRoute \union StatusRoute)

\* The lenses' get, case by case.
LEMMA Reading ==
    ASSUME NEW k, NEW m
    PROVE  /\ k \in OrNotFoundRoute => ReadSuccess(k, m) = AsSuccess(ReadOrNotFound(m))
           /\ k \notin OrNotFoundRoute /\ k \in StatusRoute =>
                 ReadSuccess(k, m) = AsSuccess(ReadByStatus(m, {200}))
           /\ k \notin OrNotFoundRoute \union StatusRoute =>
                 ReadSuccess(k, m) = AsSuccess(ReadJson(m))
           /\ m.body = "empty" => ReadJson(m) = {"nothing"}
           /\ m.body \notin {"empty", "message"} => ReadJson(m) = {m.body}
           /\ AsSuccess({}) = {} /\ AsFailure({}) = {}
           /\ AsSuccess({"nothing"}) = {"nothing"} /\ AsSuccess({"value"}) = {"value"}
           /\ \A v \in Reasons : AsFailure({v}) = {v}
<1>1. /\ k \in OrNotFoundRoute => ReadSuccess(k, m) = AsSuccess(ReadOrNotFound(m))
      /\ k \notin OrNotFoundRoute /\ k \in StatusRoute =>
            ReadSuccess(k, m) = AsSuccess(ReadByStatus(m, {200}))
      /\ k \notin OrNotFoundRoute \union StatusRoute =>
            ReadSuccess(k, m) = AsSuccess(ReadJson(m))
  BY DEF ReadSuccess
<1>2. /\ m.body = "empty" => ReadJson(m) = {"nothing"}
      /\ m.body \notin {"empty", "message"} => ReadJson(m) = {m.body}
  BY DEF ReadJson
<1>3. /\ AsSuccess({}) = {} /\ AsFailure({}) = {}
      /\ AsSuccess({"nothing"}) = {"nothing"} /\ AsSuccess({"value"}) = {"value"}
      /\ \A v \in Reasons : AsFailure({v}) = {v}
  BY DEF AsSuccess, AsFailure, Reasons
<1> QED BY <1>1, <1>2, <1>3

\* What the response lens reads is what the function returned, unless the response
\* is that of a failure and the lens is blind to it.
LEMMA ReadsResult ==
    ASSUME CallInv, HeadersKept, NEW r \in Request, pc[r] = "settled",
           NEW o \in Validated(call[r].place, Received(r)), o # "threw"
    PROVE  \/ ran[r] # <<>> /\ result[r] \notin {"none", "unwritable"} /\ o = result[r]
           \/ /\ call[r].place \in BlindPlace /\ o = "nothing"
              /\ result[r] \in {"none", "nothing", "unwritable"}
<1> DEFINE k == call[r].place
           m == Received(r)
<1>1. /\ k = call[r].place /\ k \in Place /\ call[r].via # "fetch" /\ Computed(r)
      /\ answer[r] \in Answers \union {"rejected"} /\ answer[r] # "empty500"
      /\ AuthErrorRoute \subseteq OrNotFoundRoute \union StatusRoute
  BY CallFacts, CallAssumption DEF HeadersKept, RouterTypeOK, Computed
<1>2. answer[r] \in {"match", "rejected"}
  BY <1>1, MarkedFailureThrows DEF Answers
<1>3. o \in ReadResult(k, m)
  BY DEF Validated
<1>9. /\ m.status = Written(Answered(answer[r], built[r])).status
      /\ m.body = Written(Answered(answer[r], built[r])).body
  BY DEF Received
<1>10. /\ k \in OrNotFoundRoute => ReadSuccess(k, m) = AsSuccess(ReadOrNotFound(m))
       /\ k \notin OrNotFoundRoute /\ k \in StatusRoute =>
             ReadSuccess(k, m) = AsSuccess(ReadByStatus(m, {200}))
       /\ k \notin OrNotFoundRoute \union StatusRoute =>
             ReadSuccess(k, m) = AsSuccess(ReadJson(m))
       /\ m.body = "empty" => ReadJson(m) = {"nothing"}
       /\ m.body \notin {"empty", "message"} => ReadJson(m) = {m.body}
  BY Reading
<1>11. /\ AsSuccess({}) = {} /\ AsFailure({}) = {}
       /\ AsSuccess({"nothing"}) = {"nothing"} /\ AsSuccess({"value"}) = {"value"}
       /\ \A v \in Reasons : AsFailure({v}) = {v}
  BY Reading
<1> HIDE DEF k, m
<1>4. ASSUME m.status = 500, m.body = "empty"
      PROVE  k \in BlindPlace /\ o = "nothing"
  <2>1. \A statuses : 500 \notin statuses => ReadByStatus(m, statuses) = {}
    BY <1>4 DEF ReadByStatus
  <2>2. ReadByStatus(m, {200}) = {} /\ ReadByStatus(m, {401, 403}) = {} /\ ReadOrNotFound(m) = {}
    BY <1>4, <2>1 DEF ReadOrNotFound
  <2>3. CASE k \in OrNotFoundRoute \union StatusRoute
    <3>1. ReadSuccess(k, m) = {} /\ AsFailure(ReadByStatus(m, {401, 403})) = {}
      BY <2>2, <2>3, <1>10, <1>11
    <3> QED BY <1>3, <3>1 DEF ReadResult
  <2>4. CASE k \notin OrNotFoundRoute \union StatusRoute
    <3>1. ReadSuccess(k, m) = {"nothing"} /\ k \notin AuthErrorRoute
      BY <1>1, <1>4, <2>4, <1>10, <1>11, SMTT(30)
    <3> QED BY <1>1, <1>3, <2>4, <3>1 DEF ReadResult, BlindPlace
  <2> QED BY <2>3, <2>4
<1>5. CASE answer[r] = "rejected"
  <2>1. m.status = 500 /\ m.body = "empty"
    BY <1>5, <1>9 DEF Answered, Written, Blank
  <2>2. result[r] \in {"none", "nothing"}
    BY <1>1, <1>5 DEF Computed
  <2> QED BY <1>1, <1>4, <2>1, <2>2
<1>6. CASE answer[r] = "match"
  <2>1. /\ result[r] \in Results(k) /\ result[r] # "none" /\ ran[r] # <<>>
        /\ built[r] = Encoded(k, result[r])
        /\ result[r] = "nothing" => k \in OrNotFoundRoute
        /\ m.status = Written(built[r]).status /\ m.body = Written(built[r]).body
    BY <1>1, <1>6, <1>9 DEF Computed, Results, Reasons, Answered
  <2>2. CASE result[r] = "unwritable"
    <3>1. built[r] = WithStatus(200, "unwritable")
      BY <2>1, <2>2 DEF Encoded, SetOrNotFound, Reasons
    <3>2. m.status = 500 /\ m.body = "empty"
      BY <2>1, <3>1 DEF Written, WithStatus, Blank
    <3> QED BY <1>1, <1>4, <2>2, <3>2
  <2>3. CASE result[r] = "value"
    <3>1. m.status = 200 /\ m.body = "value"
      BY <2>1, <2>3 DEF Encoded, SetOrNotFound, Reasons, Written, WithStatus
    <3>2. ReadJson(m) = {"value"} /\ ReadByStatus(m, {200}) = {"value"}
      BY <3>1, <1>10, <1>11 DEF ReadByStatus
    <3>3. ReadOrNotFound(m) = {"value"}
      BY <3>1, <3>2 DEF ReadOrNotFound
    <3>4. ReadSuccess(k, m) = {"value"}
      BY <3>2, <3>3, <1>10, <1>11
    <3>5. o = "value"
      BY <1>3, <3>4 DEF ReadResult
    <3> QED BY <2>1, <2>3, <3>5
  <2>4. CASE result[r] = "nothing"
    <3>1. m.status = 404 /\ k \in OrNotFoundRoute
      BY <2>1, <2>4 DEF Encoded, SetOrNotFound, Reasons, Written, Blank
    <3>2. ReadSuccess(k, m) = {"nothing"}
      BY <3>1, <1>10, <1>11 DEF ReadOrNotFound
    <3>3. o = "nothing"
      BY <1>3, <3>2 DEF ReadResult
    <3> QED BY <2>1, <2>4, <3>3
  <2>5. CASE result[r] \in Reasons
    <3>1. /\ k \in AuthErrorRoute /\ m.status \in {401, 403} /\ m.body = result[r]
          /\ m.body \in Reasons
      BY <2>1, <2>5 DEF Results, Encoded, SetAuthError, Written, WithStatus, Reasons
    <3>2. ReadSuccess(k, m) = {}
      <4>1. ReadByStatus(m, {200}) = {} /\ ReadOrNotFound(m) = {}
        BY <3>1 DEF ReadOrNotFound, ReadByStatus
      <4> QED BY <1>1, <3>1, <4>1, <1>10, <1>11
    <3>3. ReadByStatus(m, {401, 403}) = {m.body}
      BY <3>1, <1>10, <1>11 DEF ReadByStatus, Reasons
    <3>4. o = m.body
      BY <1>3, <3>1, <3>2, <3>3, <1>10, <1>11 DEF ReadResult
    <3> QED BY <2>1, <2>5, <3>1, <3>4 DEF Reasons
  <2> QED BY <2>1, <2>2, <2>3, <2>4, <2>5 DEF Results, Reasons
<1> QED BY <1>2, <1>5, <1>6

\* A step of the server is a run of the function, or unseen.
LEMMA ServerRefines ==
    ASSUME CallInv, NEW r \in Request, ServerStep(r)
    PROVE  Contract!Run(r) \/ UNCHANGED <<Asks, Runs, result, outcome>>
<1>1. CASE ServerExecute(r)
  <2>1. /\ OthersKeep(r) /\ call' = call
        /\ \/ ran'[r] = <<call[r].place>>
              /\ \E v \in Results(call[r].place) \union {"none"} :
                    result' = [result EXCEPT ![r] = v]
           \/ ran' = ran /\ result' = result
    BY <1>1, ExecuteTracked DEF OthersKeep
  <2>2. /\ Serving(r) /\ pc[r] = "execute" /\ outcome' = outcome
    BY <1>1 DEF ServerExecute, Execute, clientVars
  <2>3. ran[r] = <<>> /\ outcome[r] \in {"sent", "threw"}
    BY <2>2, CallFacts, Waiting
  <2>4. CASE ran' = ran /\ result' = result
    BY <2>1, <2>2, <2>4 DEF Asks, Runs
  <2>5. ASSUME NEW v \in Results(call[r].place) \union {"none"}, ran'[r] = <<call[r].place>>,
               result' = [result EXCEPT ![r] = v]
        PROVE  Contract!Run(r)
    <3>1. Asks' = Asks /\ Asks[r] = call[r].place
      BY <2>1 DEF Asks
    <3>2. Runs[r] = {}
      BY <2>3 DEF Runs
    <3>3. Runs' = [Runs EXCEPT ![r] = {Asks[r]}]
      <4>1. {ran'[r][i] : i \in DOMAIN ran'[r]} = {call[r].place}
        BY <2>5
      <4>2. \A q \in Request \ {r} : ran'[q] = ran[q]
        BY <2>1 DEF OthersKeep
      <4> DEFINE a(q) == {ran[q][i] : i \in DOMAIN ran[q]}
                 b(q) == {ran'[q][i] : i \in DOMAIN ran'[q]}
      <4>3. Runs = [q \in Request |-> a(q)] /\ Runs' = [q \in Request |-> b(q)]
        BY DEF Runs
      <4>4. b(r) = {Asks[r]} /\ \A q \in Request \ {r} : b(q) = a(q)
        BY <3>1, <4>1, <4>2
      <4> HIDE DEF a, b
      <4> QED BY <4>3, <4>4
    <3>4. v \in {"value", "unwritable", "nothing"} \union Reasons \union {"none"}
      BY <2>5 DEF Results
    <3> QED BY <2>2, <2>3, <2>5, <3>1, <3>2, <3>3, <3>4 DEF Contract!Run, Contract!Sent, Asks, Runs
  <2> QED BY <2>1, <2>4, <2>5
<1>2. CASE ~ServerExecute(r)
  <2>1. ran' = ran /\ result' = result /\ call' = call /\ outcome' = outcome
    <3>1. CASE ServerBegin(r) \/ ServerMismatch(r)
      BY <3>1 DEF ServerBegin, ServerMismatch, Begin, Mismatch, OnlyRouter, serverVars, clientVars
    <3>2. CASE ServerGet(r)
      BY <3>2 DEF ServerGet, Get, clientVars
    <3>3. CASE ServerSet(r)
      BY <3>3 DEF ServerSet, SetResponse, clientVars
    <3>4. CASE ServerAnswer(r) \/ ServerReport(r)
      BY <3>4, AnswersTracked DEF OthersKeep
    <3> QED BY <1>2, <3>1, <3>2, <3>3, <3>4 DEF ServerStep
  <2> QED BY <2>1 DEF Asks, Runs
<1> QED BY <1>1, <1>2

\* A step of the client sends, throws, or returns what it has read.
LEMMA ClientRefines ==
    ASSUME CallInv, HeadersKept, NEW r \in Request,
           Send(r) \/ Receive(r) \/ BreakOff(r) \/ Disconnect(r)
    PROVE  \/ \/ Contract!Send(r) \/ Contract!Fail(r) \/ Contract!Return(r)
              \/ Contract!Throw(r) \/ Contract!FailUnseen(r)
           \/ UNCHANGED <<Asks, Runs, result, outcome>>
<1>1. ASSUME NEW o, Concludes(r, o), outcome[r] \in {"calling", "sent"}
      PROVE  Contract!Ends(r, o)
  <2>1. outcome' = [outcome EXCEPT ![r] = o] /\ UNCHANGED <<call, ran, result>>
    BY <1>1 DEF Concludes, routerVars, serverVars
  <2> QED BY <1>1, <2>1 DEF Contract!Ends, Contract!Pending
<1>2. CASE Send(r)
  BY <1>1, <1>2 DEF Send, Contract!Send, Contract!Fail
<1>3. CASE BreakOff(r)
  BY <1>1, <1>3 DEF BreakOff, Contract!Throw
<1>4. CASE Disconnect(r)
  BY <1>4 DEF Disconnect, routerVars, serverVars, Asks, Runs
<1>5. CASE Receive(r)
  <2>1. PICK o \in {"threw"} \union Validated(call[r].place, Received(r)) : Concludes(r, o)
    BY <1>5 DEF Receive
  <2>2. outcome[r] = "sent" /\ pc[r] = "settled" /\ Contract!Ends(r, o)
    BY <1>1, <1>5, <2>1 DEF Receive
  <2>3. CASE o = "threw"
    BY <2>2, <2>3 DEF Contract!Throw
  <2>4. CASE ran[r] # <<>> /\ result[r] \notin {"none", "unwritable"} /\ o = result[r]
    <3>1. {ran[r][i] : i \in DOMAIN ran[r]} # {}
      <4>1. ran[r] = <<RouteOf(r)>>
        BY <2>4, CallFacts, Before DEF RanHere
      <4> QED BY <4>1
    <3> QED BY <2>2, <2>4, <3>1 DEF Contract!Return
  <2>5. CASE /\ call[r].place \in BlindPlace /\ o = "nothing"
             /\ result[r] \in {"none", "nothing", "unwritable"}
    BY <2>2, <2>5 DEF Contract!FailUnseen, BlindPlace
  <2> QED BY <2>1, <2>2, <2>3, <2>4, <2>5, ReadsResult
<1> QED BY <1>2, <1>3, <1>4, <1>5

LEMMA CallRefines ==
    CallInv /\ HeadersKept /\ [Next]_vars => [Contract!Next]_(Contract!cvars)
<1> SUFFICES ASSUME CallInv, HeadersKept, [Next]_vars
             PROVE  Contract!Next \/ UNCHANGED <<Asks, Runs, result, outcome>>
  BY DEF Contract!cvars, Asks, Runs
<1>1. ASSUME NEW t \in Issued, Expire(t) PROVE UNCHANGED <<Asks, Runs, result, outcome>>
  BY <1>1 DEF Expire, routerVars, serverVars, clientVars, Asks, Runs
<1>2. CASE UNCHANGED vars
  BY <1>2 DEF vars, routerVars, serverVars, clientVars, Asks, Runs
<1> QED BY <1>1, <1>2, ServerRefines, ClientRefines DEF Next, Step, Contract!Next

\* Where headers are kept, to its caller a call is the api function or an
\* exception (client.ts:93-106): what the server runs, and what the lenses make of
\* it on the way back, cannot be told from CallContract.
THEOREM CallsImplementContract == HeadersKept => (Spec => ContractSpec)
<1> SUFFICES ASSUME HeadersKept PROVE Spec => ContractSpec
  OBVIOUS
<1>1. Init => Contract!Init
  BY CallAssumption DEF Init, RouterInit, Contract!Init
<1>2. CallInv /\ [Next]_vars => [Contract!Next]_(Contract!cvars)
  BY CallRefines
<1>3. QED
  BY <1>1, <1>2, CallInductive, PTL DEF Spec, ContractSpec, Contract!Spec
=============================================================================
