---------------------------- MODULE RouterProofs ----------------------------
(***************************************************************************)
(* Router.handle for any set of requests and any routes.  The invariant    *)
(* says what the loop has established at each of its calls: everything     *)
(* before the route under consideration refused the request, the verdict   *)
(* on that route decided which call comes next, and the api function has   *)
(* run exactly when the loop is past it.                                   *)
(***************************************************************************)
EXTENDS Router, FiniteSetTheorems, SequenceTheorems, TLAPS

\* The routes are in ascending order.
Ascending == \A i, j \in DOMAIN order : i < j => order[i] < order[j]

\* The routes passed by refused the request.
PassedWrong(r) ==
    \A i \in DOMAIN order : i < pos[r] => verdict[r][order[i]] = "wrong"

\* The verdict on the present route is the one that led to the present call.
VerdictLed(r) ==
    /\ pc[r] = "mismatch" => verdict[r][RouteOf(r)] = "wrong"
    /\ pc[r] = "clientError" => verdict[r][RouteOf(r)] = "failed"
    /\ pc[r] \in {"execute", "set", "match"} => verdict[r][RouteOf(r)] = "ok"
    /\ pc[r] = "noMatchFound" => pos[r] = Len(order) + 1
    /\ pc[r] = "begin" => pos[r] = 1

\* An api function ran only for the present route, after its lens said ok.
RanHere(r) ==
    \/ ran[r] = <<>> /\ pc[r] \notin {"set", "match"}
    \/ /\ ran[r] = <<RouteOf(r)>>
       /\ pos[r] \in DOMAIN order
       /\ verdict[r][RouteOf(r)] = "ok"
       /\ pc[r] \in {"set", "match", "serverError", "settled"}

\* While the loop goes on no lifecycle call has failed.
NoneFailedYet(r) ==
    pc[r] \notin {"serverError", "settled"} => failed[r] = {}

RequestInv(r) ==
    /\ PassedWrong(r) /\ VerdictLed(r) /\ RanHere(r)
    /\ NoneFailedYet(r) /\ Truthful(r)

RInv == RouterTypeOK /\ Ascending /\ \A r \in Request : RequestInv(r)

Control == Calls \union {"get", "execute", "set", "settled"}

\* The parts of RouterTypeOK that relate the variables of a request.
InRange(r) ==
    /\ answer[r] = "none" <=> pc[r] # "settled"
    /\ pc[r] \in {"get", "mismatch", "execute", "set", "match", "clientError"} =>
          pos[r] <= Len(order)

\* A step changes the variables of one request, within their types.
StepOf(r) ==
    /\ order' = order
    /\ pc' \in [Request -> Control]
    /\ pos' \in [Request -> 1..Cardinality(Route) + 1]
    /\ verdict' \in [Request -> [Route -> Verdict \union {"unasked"}]]
    /\ ran' \in [Request -> Seq(Route)]
    /\ failed' \in [Request -> SUBSET (Calls \X {"rejects", "throws"})]
    /\ answer' \in [Request -> Answers \union {"none", "rejected"}]
    /\ \A q \in Request \ {r} :
          /\ pc'[q] = pc[q] /\ pos'[q] = pos[q] /\ verdict'[q] = verdict[q]
          /\ ran'[q] = ran[q] /\ failed'[q] = failed[q] /\ answer'[q] = answer[q]

-----------------------------------------------------------------------------
\* The list of routes and its index set.
LEMMA OrderFacts ==
    ASSUME order \in Entries
    PROVE  /\ Cardinality(Route) \in Nat
           /\ Len(order) = Cardinality(Route)
           /\ DOMAIN order = 1..Len(order)
           /\ \A i \in 1..Len(order) : order[i] \in Route
           /\ \A k \in Route : \E i \in 1..Len(order) : order[i] = k
<1>1. Cardinality(Route) \in Nat
  BY RouteAssumption, FS_CardinalityType
<1>2. order \in [1..Cardinality(Route) -> Route]
  BY DEF Entries
<1>3. order \in Seq(Route)
  BY <1>1, <1>2, SeqDef
<1>4. Len(order) = Cardinality(Route)
  BY <1>1, <1>2, <1>3
<1>5. QED
  BY <1>1, <1>2, <1>4 DEF Entries

\* The types, spelled out for one request.
LEMMA Types ==
    ASSUME RouterTypeOK, NEW r \in Request
    PROVE  /\ order \in Entries
           /\ pc[r] \in Calls \union {"get", "execute", "set", "settled"}
           /\ pos[r] \in 1..Len(order) + 1
           /\ verdict[r] \in [Route -> Verdict \union {"unasked"}]
           /\ ran[r] \in Seq(Route)
           /\ pc[r] \in {"get", "mismatch", "execute", "set", "match", "clientError"} =>
                 pos[r] \in 1..Len(order) /\ RouteOf(r) \in Route
BY OrderFacts DEF RouterTypeOK, RouteOf

\* What a step does to one request decides: the others keep their invariant.
LEMMA Frame ==
    ASSUME RInv, NEW r \in Request, StepOf(r), InRange(r)', RequestInv(r)'
    PROVE  RInv'
<1>1. ASSUME NEW q \in Request \ {r} PROVE RequestInv(q)' /\ InRange(q)'
  <2>1. /\ order' = order /\ pc'[q] = pc[q] /\ pos'[q] = pos[q]
        /\ verdict'[q] = verdict[q] /\ ran'[q] = ran[q]
        /\ failed'[q] = failed[q] /\ answer'[q] = answer[q]
    BY DEF StepOf
  <2>2. RequestInv(q) /\ InRange(q)
    BY DEF RInv, RouterTypeOK, InRange
  <2>3. PassedWrong(q)' /\ VerdictLed(q)' /\ InRange(q)'
    BY <2>1, <2>2 DEF RequestInv, PassedWrong, VerdictLed, InRange, RouteOf
  <2>4. RanHere(q)' /\ NoneFailedYet(q)'
    BY <2>1, <2>2 DEF RequestInv, RanHere, NoneFailedYet, RouteOf
  <2>5. Truthful(q)'
    BY <2>1, <2>2 DEF RequestInv, Truthful
  <2>6. QED
    BY <2>3, <2>4, <2>5 DEF RequestInv
<1>2. \A q \in Request : RequestInv(q)' /\ InRange(q)'
  BY <1>1
<1>3. RouterTypeOK'
  BY <1>2 DEF StepOf, RInv, RouterTypeOK, InRange, Control
<1>4. Ascending'
  BY DEF StepOf, RInv, Ascending
<1>5. QED
  BY <1>2, <1>3, <1>4 DEF RInv

LEMMA RouterInitInv == RouterInit => RInv
<1> SUFFICES ASSUME RouterInit PROVE RInv
  OBVIOUS
<1>1. order \in Entries /\ Ascending
  BY DEF RouterInit, AlphaOrdered, Ascending
<1>2. RouterTypeOK
  BY <1>1, OrderFacts DEF RouterInit, RouterTypeOK, Calls, Answers
<1>3. ASSUME NEW r \in Request PROVE RequestInv(r)
  <2>1. PassedWrong(r)
    BY <1>1, OrderFacts DEF RouterInit, PassedWrong
  <2>2. VerdictLed(r) /\ RanHere(r) /\ NoneFailedYet(r) /\ Truthful(r)
    BY DEF RouterInit, VerdictLed, RanHere, NoneFailedYet, Truthful
  <2>3. QED
    BY <2>1, <2>2 DEF RequestInv
<1>4. QED
  BY <1>1, <1>2, <1>3 DEF RInv

\* The loop at its i-th route.
LEMMA AtRouteType ==
    ASSUME order \in Entries, NEW i \in Nat
    PROVE  /\ AtRoute(i) \in {"get", "noMatchFound"}
           /\ AtRoute(i) = "get" <=> i <= Len(order)
BY OrderFacts DEF AtRoute

\* What the invariant says of the request that takes the step.
LEMMA Before ==
    ASSUME RInv, NEW r \in Request
    PROVE  /\ RouterTypeOK /\ order \in Entries
           /\ PassedWrong(r) /\ VerdictLed(r) /\ RanHere(r)
           /\ NoneFailedYet(r) /\ Truthful(r) /\ InRange(r)
BY DEF RInv, RequestInv, RouterTypeOK, InRange

\* A lifecycle call's failure is recorded under its name.
LEMMA NoteType ==
    ASSUME RouterTypeOK, NEW r \in Request, pc[r] \in Calls,
           NEW how \in How, Note(r, how)
    PROVE  /\ failed' \in [Request -> SUBSET (Calls \X {"rejects", "throws"})]
           /\ \A q \in Request \ {r} : failed'[q] = failed[q]
           /\ how = "returns" => failed' = failed
<1>1. CASE how = "returns"
  BY <1>1 DEF Note, RouterTypeOK
<1>2. CASE how # "returns"
  <2>1. <<pc[r], how>> \in Calls \X {"rejects", "throws"}
    BY <1>2 DEF How
  <2>2. failed' = [failed EXCEPT ![r] = @ \union {<<pc[r], how>>}]
    BY <1>2 DEF Note
  <2>3. QED
    BY <1>2, <2>1, <2>2 DEF RouterTypeOK
<1>3. QED
  BY <1>1, <1>2

LEMMA BeginInv ==
    ASSUME RInv, NEW r \in Request, NEW how \in How, Begin(r, how)
    PROVE  RInv'
<1>1. /\ pc[r] = "begin" /\ UNCHANGED <<order, pos, verdict, ran>>
      /\ RouterTypeOK /\ order \in Entries /\ Note(r, how)
  BY Before DEF Begin
<1>2. ran[r] = <<>> /\ answer[r] = "none" /\ failed[r] = {} /\ PassedWrong(r)
  BY <1>1, Before DEF RanHere, NoneFailedYet, InRange
<1>3. pc[r] \in Calls
  BY <1>1 DEF Calls
<1>4. CASE how = "returns"
  <2>1. pc' = [pc EXCEPT ![r] = AtRoute(1)] /\ answer' = answer /\ failed' = failed
    BY <1>1, <1>4 DEF Begin, Go, Note
  <2>2. /\ AtRoute(1) \in {"get", "noMatchFound"}
        /\ AtRoute(1) = "get" <=> 1 <= Len(order)
        /\ pos[r] = 1 /\ Len(order) \in Nat
    BY <1>1, AtRouteType, OrderFacts, Before DEF VerdictLed
  <2>3. StepOf(r)
    BY <1>1, <2>1, <2>2 DEF StepOf, RouterTypeOK, Control, Calls
  <2>4. InRange(r)'
    BY <1>1, <1>2, <2>1, <2>2 DEF InRange, RouterTypeOK
  <2>5. RequestInv(r)'
    BY <1>1, <1>2, <2>1, <2>2 DEF RouterTypeOK, RequestInv, PassedWrong, VerdictLed,
       RanHere, NoneFailedYet, Truthful
  <2>6. QED
    BY <2>3, <2>4, <2>5, Frame
<1>5. CASE how # "returns"
  <2>1. /\ pc' = [pc EXCEPT ![r] = "settled"]
        /\ answer' = [answer EXCEPT ![r] = "empty500"]
    BY <1>1, <1>5 DEF Begin, Settle
  <2>2. StepOf(r)
    BY <1>1, <1>3, <2>1, NoteType DEF StepOf, RouterTypeOK, Control, Answers
  <2>3. InRange(r)'
    BY <1>1, <2>1 DEF InRange, RouterTypeOK
  <2>4. RequestInv(r)'
    BY <1>1, <1>2, <2>1 DEF RouterTypeOK, RequestInv, PassedWrong, VerdictLed, RanHere,
       NoneFailedYet, Truthful
  <2>5. QED
    BY <2>2, <2>3, <2>4, Frame
<1>6. QED
  BY <1>4, <1>5

\* A request in the loop, and a step that only moves its pc.
LEMMA InLoop ==
    ASSUME RInv, NEW r \in Request,
           pc[r] \in {"get", "mismatch", "execute", "set", "match", "clientError"}
    PROVE  /\ pos[r] \in 1..Len(order) /\ Len(order) \in Nat
           /\ pos[r] \in DOMAIN order /\ RouteOf(r) \in Route
           /\ answer[r] = "none" /\ failed[r] = {}
BY Before, OrderFacts DEF InRange, NoneFailedYet, RouterTypeOK, RouteOf

LEMMA GetInv ==
    ASSUME RInv, NEW r \in Request, NEW v \in Verdict, Get(r, v)
    PROVE  RInv'
<1>1. /\ pc[r] = "get" /\ verdict' = [verdict EXCEPT ![r][RouteOf(r)] = v]
      /\ order' = order /\ pos' = pos /\ ran' = ran
      /\ failed' = failed /\ answer' = answer
  BY DEF Get, Go
<1>2. pc' = [pc EXCEPT ![r] = CASE v = "wrong"  -> "mismatch"
                                [] v = "failed" -> "clientError"
                                [] v = "ok"     -> "execute"
                                [] v = "throws" -> "serverError"]
  BY DEF Get, Go
<1>3. /\ pos[r] \in 1..Len(order) /\ Len(order) \in Nat
      /\ pos[r] \in DOMAIN order /\ RouteOf(r) \in Route
      /\ answer[r] = "none" /\ failed[r] = {} /\ ran[r] = <<>>
      /\ RouterTypeOK /\ PassedWrong(r) /\ Ascending
  BY <1>1, InLoop, Before DEF RanHere, RInv
<1>4. /\ pc'[r] \in {"mismatch", "clientError", "execute", "serverError"}
      /\ pc'[r] = "mismatch" => v = "wrong"
      /\ pc'[r] = "clientError" => v = "failed"
      /\ pc'[r] = "execute" => v = "ok"
      /\ pc' \in [Request -> Control]
      /\ \A q \in Request \ {r} : pc'[q] = pc[q]
  BY <1>2, <1>3 DEF Control, Calls, RouterTypeOK, Verdict
<1>5. /\ verdict' \in [Request -> [Route -> Verdict \union {"unasked"}]]
      /\ verdict'[r][RouteOf(r)] = v
      /\ \A k \in Route : k # RouteOf(r) => verdict'[r][k] = verdict[r][k]
      /\ \A q \in Request \ {r} : verdict'[q] = verdict[q]
  BY <1>1, <1>3 DEF RouterTypeOK
<1>6. StepOf(r)
  BY <1>1, <1>3, <1>4, <1>5 DEF StepOf, RouterTypeOK
<1>7. InRange(r)'
  <2>1. /\ answer'[r] = "none" /\ pc'[r] # "settled"
        /\ pos'[r] <= Len(order')
    BY <1>1, <1>3, <1>4
  <2>2. QED
    BY <2>1 DEF InRange
<1>8. PassedWrong(r)'
  <2>1. ASSUME NEW i \in DOMAIN order, i < pos[r]
        PROVE  verdict'[r][order[i]] = "wrong"
    <3>1. order[i] < RouteOf(r) /\ order[i] \in Route
      BY <1>3, <2>1, OrderFacts, Before, RouteAssumption DEF Ascending, RouteOf
    <3>2. order[i] # RouteOf(r)
      <4>1. order[i] \in Nat /\ RouteOf(r) \in Nat
        BY <1>3, <3>1, RouteAssumption
      <4>2. QED
        BY <3>1, <4>1
    <3>3. QED
      BY <1>3, <1>5, <2>1, <3>1, <3>2 DEF PassedWrong
  <2>2. QED
    BY <1>1, <2>1 DEF PassedWrong
<1>9. VerdictLed(r)' /\ RanHere(r)' /\ NoneFailedYet(r)' /\ Truthful(r)'
  BY <1>1, <1>3, <1>4, <1>5 DEF VerdictLed, RanHere, NoneFailedYet, Truthful, RouteOf
<1>10. QED
  BY <1>6, <1>7, <1>8, <1>9, Frame DEF RequestInv

LEMMA MismatchInv ==
    ASSUME RInv, NEW r \in Request, NEW how \in How, Mismatch(r, how)
    PROVE  RInv'
<1>1. /\ pc[r] = "mismatch" /\ UNCHANGED <<order, verdict, ran, answer>>
      /\ Note(r, how)
  BY DEF Mismatch, Go
<1>2. /\ pos[r] \in 1..Len(order) /\ Len(order) \in Nat
      /\ pos[r] \in DOMAIN order /\ DOMAIN order = 1..Len(order)
      /\ Len(order) = Cardinality(Route)
      /\ answer[r] = "none" /\ failed[r] = {} /\ ran[r] = <<>>
      /\ RouterTypeOK /\ PassedWrong(r) /\ verdict[r][RouteOf(r)] = "wrong"
  BY <1>1, InLoop, Before, OrderFacts DEF RanHere, VerdictLed
<1>3. CASE how = "returns"
  <2>1. /\ pos' = [pos EXCEPT ![r] = @ + 1] /\ failed' = failed
        /\ pc' = [pc EXCEPT ![r] = AtRoute(pos[r] + 1)]
    BY <1>1, <1>3 DEF Mismatch, Note, Go
  <2>2. /\ AtRoute(pos[r] + 1) \in {"get", "noMatchFound"}
        /\ AtRoute(pos[r] + 1) = "get" <=> pos[r] + 1 <= Len(order)
    BY <1>2, AtRouteType, Before
  <2>3. pos'[r] = pos[r] + 1 /\ pc'[r] = AtRoute(pos[r] + 1)
    BY <1>2, <2>1 DEF RouterTypeOK
  <2>4. StepOf(r)
    BY <1>1, <1>2, <2>1, <2>2 DEF StepOf, RouterTypeOK, Control, Calls
  <2>5. InRange(r)'
    BY <1>1, <1>2, <2>2, <2>3 DEF InRange
  <2>6. PassedWrong(r)'
    BY <1>1, <1>2, <2>3 DEF PassedWrong, RouteOf
  <2>7. VerdictLed(r)'
    BY <1>1, <1>2, <2>2, <2>3 DEF VerdictLed
  <2>8. RanHere(r)' /\ NoneFailedYet(r)' /\ Truthful(r)'
    BY <1>1, <1>2, <2>1, <2>2, <2>3 DEF RanHere, NoneFailedYet, Truthful
  <2>9. QED
    BY <2>4, <2>5, <2>6, <2>7, <2>8, Frame DEF RequestInv
<1>4. CASE how # "returns"
  <2>1. pc' = [pc EXCEPT ![r] = "serverError"] /\ pos' = pos
    BY <1>4 DEF Mismatch, Go
  <2>2. StepOf(r)
    BY <1>1, <1>2, <2>1, NoteType DEF StepOf, RouterTypeOK, Control, Calls
  <2>3. InRange(r)' /\ RequestInv(r)'
    BY <1>1, <1>2, <2>1 DEF InRange, RouterTypeOK, RequestInv, PassedWrong,
       VerdictLed, RanHere, NoneFailedYet, Truthful
  <2>4. QED
    BY <2>2, <2>3, Frame
<1>5. QED
  BY <1>3, <1>4

LEMMA ExecuteInv ==
    ASSUME RInv, NEW r \in Request, NEW how \in Ran, Execute(r, how)
    PROVE  RInv'
<1>1. /\ pc[r] = "execute" /\ order' = order /\ pos' = pos
      /\ verdict' = verdict /\ failed' = failed /\ answer' = answer
      /\ pc' = [pc EXCEPT ![r] = IF how = "returns" THEN "set" ELSE "serverError"]
      /\ \/ how = "unbuilt" /\ ran' = ran
         \/ how # "unbuilt" /\ ran' = [ran EXCEPT ![r] = Append(@, RouteOf(r))]
  BY DEF Execute, Go
<1>2. /\ pos[r] \in 1..Len(order) /\ pos[r] \in DOMAIN order /\ RouteOf(r) \in Route
      /\ answer[r] = "none" /\ failed[r] = {} /\ ran[r] = <<>>
      /\ RouterTypeOK /\ PassedWrong(r) /\ verdict[r][RouteOf(r)] = "ok"
  BY <1>1, InLoop, Before DEF RanHere, VerdictLed
<1>3. /\ pc'[r] \in {"set", "serverError"} /\ pc'[r] = "set" => how # "unbuilt"
      /\ pc' \in [Request -> Control]
      /\ \A q \in Request \ {r} : pc'[q] = pc[q]
  BY <1>1, <1>2 DEF Control, Calls, RouterTypeOK
<1>4. /\ ran' \in [Request -> Seq(Route)]
      /\ \A q \in Request \ {r} : ran'[q] = ran[q]
      /\ \/ how = "unbuilt" /\ ran'[r] = <<>>
         \/ ran'[r] = <<RouteOf(r)>>
  <2>1. Append(ran[r], RouteOf(r)) = <<RouteOf(r)>> /\ <<RouteOf(r)>> \in Seq(Route)
    BY <1>2
  <2>2. CASE how = "unbuilt"
    BY <1>1, <1>2, <2>2 DEF RouterTypeOK
  <2>3. CASE ran' = [ran EXCEPT ![r] = <<RouteOf(r)>>]
    BY <1>2, <2>1, <2>3 DEF RouterTypeOK
  <2>4. QED
    BY <1>1, <2>1, <2>2, <2>3
<1>5. StepOf(r)
  BY <1>1, <1>2, <1>3, <1>4 DEF StepOf, RouterTypeOK
<1>6. InRange(r)' /\ PassedWrong(r)' /\ VerdictLed(r)'
  BY <1>1, <1>2, <1>3 DEF InRange, PassedWrong, VerdictLed, RouteOf
<1>7. RanHere(r)'
  BY <1>1, <1>2, <1>3, <1>4 DEF RanHere, RouteOf
<1>8. NoneFailedYet(r)' /\ Truthful(r)'
  BY <1>1, <1>2, <1>3 DEF NoneFailedYet, Truthful
<1>9. QED
  BY <1>5, <1>6, <1>7, <1>8, Frame DEF RequestInv

LEMMA SetResponseInv ==
    ASSUME RInv, NEW r \in Request, NEW how, SetResponse(r, how)
    PROVE  RInv'
<1>1. /\ pc[r] = "set" /\ order' = order /\ pos' = pos /\ ran' = ran
      /\ verdict' = verdict /\ failed' = failed /\ answer' = answer
      /\ pc' = [pc EXCEPT ![r] = IF how = "returns" THEN "match" ELSE "serverError"]
  BY DEF SetResponse, Go
<1>2. /\ pos[r] \in 1..Len(order) /\ answer[r] = "none" /\ failed[r] = {}
      /\ RouterTypeOK /\ PassedWrong(r) /\ RanHere(r)
      /\ verdict[r][RouteOf(r)] = "ok"
  BY <1>1, InLoop, Before DEF VerdictLed
<1>3. /\ pc'[r] \in {"match", "serverError"}
      /\ pc' \in [Request -> Control]
      /\ \A q \in Request \ {r} : pc'[q] = pc[q]
  BY <1>1, <1>2 DEF Control, Calls, RouterTypeOK
<1>4. StepOf(r)
  BY <1>1, <1>2, <1>3 DEF StepOf, RouterTypeOK
<1>5. InRange(r)' /\ PassedWrong(r)' /\ VerdictLed(r)'
  BY <1>1, <1>2, <1>3 DEF InRange, PassedWrong, VerdictLed, RouteOf
<1>6. RanHere(r)' /\ NoneFailedYet(r)' /\ Truthful(r)'
  BY <1>1, <1>2, <1>3 DEF RanHere, RouteOf, NoneFailedYet, Truthful
<1>7. QED
  BY <1>4, <1>5, <1>6, Frame DEF RequestInv

\* The calls whose promise handle() returns: Match, ClientError, ServerError
\* and NoMatchFound settle the request with the call's own name, with its
\* rejection, or go where a call that throws at once is caught.
LEMMA SettleInv ==
    ASSUME RInv, NEW r \in Request, NEW a \in Answers \union {"rejected"}, NEW how \in How,
           pc[r] \in Calls, Settle(r, a), Note(r, how),
           UNCHANGED <<order, pos, verdict, ran>>,
           a \in {"match", "clientError", "noMatchFound"} => pc[r] = a /\ how = "returns"
    PROVE  RInv'
<1>1. /\ order' = order /\ pos' = pos /\ verdict' = verdict /\ ran' = ran
      /\ pc' = [pc EXCEPT ![r] = "settled"] /\ answer' = [answer EXCEPT ![r] = a]
      /\ RouterTypeOK /\ order \in Entries
  BY Before DEF Settle
<1>2. pc'[r] = "settled" /\ answer'[r] = a /\ a # "none"
  BY <1>1 DEF RouterTypeOK, Answers
<1>3. StepOf(r)
  BY <1>1, NoteType DEF StepOf, RouterTypeOK, Control
<1>4. InRange(r)' /\ PassedWrong(r)' /\ VerdictLed(r)' /\ NoneFailedYet(r)'
  BY <1>1, <1>2, Before DEF InRange, PassedWrong, VerdictLed, NoneFailedYet
<1>5. RanHere(r)'
  BY <1>1, <1>2, Before DEF RanHere, RouteOf
<1>6. Truthful(r)'
  <2>1. CASE a = "match"
    <3>1. pc[r] = "match" /\ failed' = failed
      BY <2>1 DEF Note
    <3>2. ran[r] = <<RouteOf(r)>> /\ failed[r] = {}
      BY <3>1, Before DEF RanHere, NoneFailedYet
    <3>3. Len(ran'[r]) = 1 /\ failed'[r] = {}
      BY <1>1, <3>1, <3>2
    <3>4. QED
      BY <1>2, <2>1, <3>3 DEF Truthful
  <2>2. CASE a = "clientError"
    <3>1. pc[r] = "clientError"
      BY <2>2
    <3>2. ran[r] = <<>> /\ verdict[r][RouteOf(r)] = "failed" /\ RouteOf(r) \in Route
      BY <3>1, Before, InLoop DEF RanHere, VerdictLed
    <3>3. QED
      BY <1>1, <1>2, <2>2, <3>2 DEF Truthful
  <2>3. CASE a = "noMatchFound"
    <3>1. pc[r] = "noMatchFound" /\ ran[r] = <<>> /\ pos[r] = Len(order) + 1
      BY <2>3, Before DEF RanHere, VerdictLed
    <3>2. ASSUME NEW k \in Route PROVE verdict[r][k] = "wrong"
      <4>1. PICK i \in 1..Len(order) : order[i] = k
        BY <1>1, OrderFacts
      <4>2. i \in DOMAIN order /\ i < pos[r]
        BY <1>1, <3>1, OrderFacts
      <4>3. QED
        BY <4>1, <4>2, Before DEF PassedWrong
    <3>3. QED
      BY <1>1, <1>2, <2>3, <3>1, <3>2 DEF Truthful
  <2>4. CASE a \notin {"match", "clientError", "noMatchFound"}
    BY <1>2, <2>4 DEF Truthful
  <2>5. QED
    BY <2>1, <2>2, <2>3, <2>4
<1>7. QED
  BY <1>3, <1>4, <1>5, <1>6, Frame DEF RequestInv

\* match or clientError threw at once: the catch inside the loop.
LEMMA ThrownInv ==
    ASSUME RInv, NEW r \in Request, NEW how \in How,
           pc[r] \in {"match", "clientError"}, Go(r, "serverError"), Note(r, how),
           UNCHANGED <<order, pos, verdict, ran>>
    PROVE  RInv'
<1>1. /\ order' = order /\ pos' = pos /\ verdict' = verdict /\ ran' = ran
      /\ pc' = [pc EXCEPT ![r] = "serverError"] /\ answer' = answer
      /\ RouterTypeOK /\ pc[r] \in Calls /\ answer[r] = "none"
  BY Before, InLoop DEF Go, Calls
<1>2. pc'[r] = "serverError"
  BY <1>1 DEF RouterTypeOK
<1>3. StepOf(r)
  BY <1>1, NoteType DEF StepOf, RouterTypeOK, Control, Calls
<1>4. InRange(r)' /\ PassedWrong(r)' /\ VerdictLed(r)' /\ NoneFailedYet(r)'
  BY <1>1, <1>2, Before DEF InRange, PassedWrong, VerdictLed, NoneFailedYet
<1>5. RanHere(r)' /\ Truthful(r)'
  BY <1>1, <1>2, Before DEF RanHere, RouteOf, Truthful
<1>6. QED
  BY <1>3, <1>4, <1>5, Frame DEF RequestInv

LEMMA ReturnedInv ==
    ASSUME RInv, NEW r \in Request, NEW how \in How,
           \/ Match(r, how) \/ ClientError(r, how)
           \/ ServerError(r, how) \/ NoMatchFound(r, how)
    PROVE  RInv'
<1>1. /\ pc[r] \in {"match", "clientError", "serverError", "noMatchFound"}
      /\ pc[r] \in Calls /\ pc[r] \in Answers
      /\ Note(r, how) /\ UNCHANGED <<order, pos, verdict, ran>>
  BY DEF Match, ClientError, ServerError, NoMatchFound, ReturnedCall, Calls, Answers
<1>2. \/ how = "returns" /\ Settle(r, pc[r])
      \/ Settle(r, "rejected") \/ Settle(r, "empty500")
      \/ pc[r] \in {"match", "clientError"} /\ Go(r, "serverError")
  BY DEF Match, ClientError, ServerError, NoMatchFound, ReturnedCall
<1>3. CASE how = "returns" /\ Settle(r, pc[r])
  BY <1>1, <1>3, SettleInv
<1>4. CASE Settle(r, "rejected") \/ Settle(r, "empty500")
  BY <1>1, <1>4, SettleInv DEF Answers
<1>5. CASE pc[r] \in {"match", "clientError"} /\ Go(r, "serverError")
  BY <1>1, <1>5, ThrownInv
<1>6. QED
  BY <1>2, <1>3, <1>4, <1>5

LEMMA RouterStepInv == RInv /\ [RouterNext]_routerVars => RInv'
<1> SUFFICES ASSUME RInv, [RouterNext]_routerVars PROVE RInv'
  OBVIOUS
<1>1. ASSUME NEW r \in Request, RouterStep(r) PROVE RInv'
  BY <1>1, BeginInv, GetInv, MismatchInv, ExecuteInv, SetResponseInv, ReturnedInv
     DEF RouterStep
<1>2. CASE UNCHANGED routerVars
  BY <1>2 DEF routerVars, RInv, RouterTypeOK, Ascending, RequestInv, PassedWrong,
     VerdictLed, RanHere, NoneFailedYet, Truthful, RouteOf
<1>3. QED
  BY <1>1, <1>2 DEF RouterNext

LEMMA RouterInductive == RouterSpec => []RInv
BY RouterInitInv, RouterStepInv, PTL DEF RouterSpec

-----------------------------------------------------------------------------
\* The loop never looks at a route it does not have, and handle() has an answer
\* exactly when it is done (router.ts:92-126).
THEOREM RouterTypeCorrect == RouterSpec => []RouterTypeOK
<1>1. RInv => RouterTypeOK
  BY DEF RInv
<1>2. QED
  BY <1>1, RouterInductive, PTL

\* For any number of routes, listed in any order, at most one api function runs
\* for a request, and no route of a smaller name accepts that request
\* (the comment at router.ts:78-86).
THEOREM FirstMatchAlways == RouterSpec => []FirstMatchRuns
<1>1. RInv => FirstMatchRuns
  <2> SUFFICES ASSUME RInv, NEW r \in Request
               PROVE  /\ Len(ran[r]) <= 1
                      /\ \A i \in DOMAIN ran[r] :
                            /\ verdict[r][ran[r][i]] = "ok"
                            /\ \A k \in Route : k < ran[r][i] => verdict[r][k] = "wrong"
    BY DEF FirstMatchRuns
  <2>1. CASE ran[r] = <<>>
    BY <2>1
  <2>2. CASE ran[r] # <<>>
    <3>1. /\ ran[r] = <<RouteOf(r)>> /\ pos[r] \in DOMAIN order
          /\ verdict[r][RouteOf(r)] = "ok" /\ order \in Entries
      BY <2>2, Before DEF RanHere
    <3>2. ASSUME NEW k \in Route, k < RouteOf(r) PROVE verdict[r][k] = "wrong"
      <4>1. PICK j \in 1..Len(order) : order[j] = k
        BY <3>1, OrderFacts
      <4>2. /\ DOMAIN order = 1..Len(order) /\ Len(order) \in Nat
            /\ \A i \in 1..Len(order) : order[i] \in Nat
        BY <3>1, OrderFacts, RouteAssumption
      <4>3. j < pos[r]
        BY <3>1, <3>2, <4>1, <4>2 DEF RInv, Ascending, RouteOf
      <4>4. QED
        BY <4>1, <4>2, <4>3, Before DEF PassedWrong
    <3>3. QED
      BY <3>1, <3>2
  <2>3. QED
    BY <2>1, <2>2
<1>2. QED
  BY <1>1, RouterInductive, PTL

\* A success, a client error and a no-match are answered only when that is what
\* lenses, api function and lifecycle did.
THEOREM AnswerAlwaysTrue == RouterSpec => []AnswerTellsTruth
<1>1. RInv => AnswerTellsTruth
  BY DEF RInv, RequestInv, AnswerTellsTruth
<1>2. QED
  BY <1>1, RouterInductive, PTL
=============================================================================
