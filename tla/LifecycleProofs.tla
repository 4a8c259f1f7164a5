-------------------------- MODULE LifecycleProofs --------------------------
(***************************************************************************)
(* The two lifecycles that http4t comes with, for any requests and routes. *)
(* Every step of either is a step of the router with some lifecycle, or    *)
(* leaves the router alone, so what RouterProofs shows of the loop holds   *)
(* of both.                                                                *)
(*   DebugRequestLifecycle comes first.  As to its shared map, a step      *)
(* opens an entry, extends it, closes it or leaves the map alone; and no   *)
(* request works on the entry of one whose id nobody copied.               *)
(*   ProductionRequestLifecycle behind NodeServer comes second.  A body    *)
(* flows once: while it does, one reader has been there from the start;    *)
(* whoever comes later never gets to an end, and so says nothing.          *)
(***************************************************************************)
EXTENDS DebugLifecycle, ProductionServer, RouterProofs

DebugTypes ==
    /\ carries \in [Request -> Request \union {Foreign, OwnId}]
    /\ DOMAIN mismatches \subseteq Request
    /\ \A id \in DOMAIN mismatches : mismatches[id] \in Seq(Route)
    /\ reported \in [Request -> Seq(Route)]

Passed(r) == SubSeq(order, 1, pos[r] - 1)

\* While a request is in the loop its entry lists the routes it was tried against.
KeepsList ==
    \A r \in Request :
        Isolated(r) /\ pc[r] \notin {"begin", "settled"} =>
            r \in DOMAIN mismatches /\ mismatches[r] = Passed(r)

\* With its answer they are printed.
TellsList ==
    \A r \in Request :
        Isolated(r) /\ answer[r] \in Answers \ {"empty500"} => reported[r] = Passed(r)

DebugInv == RInv /\ DebugTypes /\ KeepsList /\ TellsList /\ LeftoversExplained

-----------------------------------------------------------------------------
\* The four things a step of r may do to the map.
Opens(r) ==
    /\ pc[r] = "begin" /\ pos' = pos
    /\ mismatches' = With(r, <<>>) /\ UNCHANGED <<carries, reported>>
    /\ \/ pc'[r] # "settled" /\ answer' = answer
       \/ answer'[r] = "empty500" /\ <<"begin", "rejects">> \in failed'[r]

Extends(r) ==
    /\ pc[r] = "mismatch" /\ pc'[r] # "settled" /\ answer' = answer
    /\ pos' = [pos EXCEPT ![r] = @ + 1]
    /\ IdOf(r) \in DOMAIN mismatches
    /\ mismatches' = With(IdOf(r), Append(mismatches[IdOf(r)], RouteOf(r)))
    /\ UNCHANGED <<carries, reported>>

LeavesAlone(r) ==
    /\ UNCHANGED debugVars /\ pos' = pos
    /\ pc[r] \notin {"begin", "settled"}
    /\ \/ pc'[r] # "settled" /\ answer' = answer
       \/ answer'[r] = "rejected" /\ <<"match", "rejects">> \in failed'[r]

Closes(r) ==
    /\ ConsumeUnmatched(r) /\ pos' = pos
    /\ pc[r] \notin {"begin", "settled"} /\ pc'[r] = "settled"

Elsewhere(r) ==
    /\ order' = order
    /\ \A q \in Request \ {r} :
          pc'[q] = pc[q] /\ failed'[q] = failed[q] /\ answer'[q] = answer[q]
    /\ \A q \in Request : failed[q] \subseteq failed'[q]

\* A step of the debugging lifecycle is one of the router's.
LEMMA IsRouterStep ==
    ASSUME NEW r \in Request, Step(r)
    PROVE  RouterStep(r)
BY DEF Step, RouterStep, How, DebugBegin, DebugGet, DebugMismatch, DebugExecute, DebugSet,
   DebugMatch, DebugClientError, DebugServerError, DebugNoMatchFound

\* A failure is added to those of its request, and is noted under the call's name.
LEMMA Noted ==
    ASSUME RouterTypeOK, NEW r \in Request, NEW how \in How, Note(r, how)
    PROVE  /\ \A q \in Request \ {r} : failed'[q] = failed[q]
           /\ \A q \in Request : failed[q] \subseteq failed'[q]
           /\ how = "rejects" => <<pc[r], "rejects">> \in failed'[r]
BY DEF RouterTypeOK, Note

\* begin makes an entry, whether it can read the request or not.
LEMMA BeginOpens ==
    ASSUME RouterTypeOK, NEW r \in Request, DebugBegin(r)
    PROVE  Opens(r) /\ Elsewhere(r)
<1>1. PICK how \in {"returns", "rejects"} : Begin(r, how)
  BY DEF DebugBegin
<1>2. how \in How /\ Note(r, how)
  BY <1>1 DEF Begin, How
<1>3. Elsewhere(r)
  BY <1>1, <1>2, Noted DEF Begin, Go, Settle, RouterTypeOK, Elsewhere
<1>4. Opens(r)
  <2>1. CASE how = "returns"
    BY <1>1, <2>1 DEF DebugBegin, Begin, Go, AtRoute, RouterTypeOK, Opens
  <2>2. CASE how = "rejects"
    BY <1>1, <1>2, <2>2, Noted DEF DebugBegin, Begin, Settle, RouterTypeOK, Opens
  <2> QED BY <1>1, <2>1, <2>2
<1> QED BY <1>3, <1>4

\* A mismatch is added to the entry of the request's id, if there is one.
LEMMA MismatchExtends ==
    ASSUME RouterTypeOK, NEW r \in Request, DebugMismatch(r)
    PROVE  (Extends(r) \/ (LeavesAlone(r) /\ IdOf(r) \notin DOMAIN mismatches)) /\ Elsewhere(r)
<1>1. CASE IdOf(r) \in DOMAIN mismatches
  <2>1. Mismatch(r, "returns")
    BY <1>1 DEF DebugMismatch
  <2> QED
    BY <1>1, <2>1 DEF DebugMismatch, Mismatch, Note, Go, AtRoute, RouterTypeOK, Extends, Elsewhere
<1>2. CASE IdOf(r) \notin DOMAIN mismatches
  <2>1. Mismatch(r, "rejects") /\ Note(r, "rejects") /\ UNCHANGED debugVars
    BY <1>2 DEF DebugMismatch, Mismatch
  <2>2. Elsewhere(r)
    BY <2>1, Noted DEF Mismatch, Go, RouterTypeOK, Elsewhere, How
  <2> QED BY <1>2, <2>1, <2>2 DEF Mismatch, Go, RouterTypeOK, LeavesAlone
<1> QED BY <1>1, <1>2

\* Lenses and api functions know nothing of the map.
LEMMA LoopLeavesAlone ==
    ASSUME RouterTypeOK, NEW r \in Request, DebugGet(r) \/ DebugExecute(r) \/ DebugSet(r)
    PROVE  LeavesAlone(r) /\ Elsewhere(r) /\ pc[r] # "mismatch"
<1>1. CASE DebugGet(r)
  BY <1>1 DEF DebugGet, Get, Go, RouterTypeOK, LeavesAlone, Elsewhere, Verdict
<1>2. CASE DebugExecute(r)
  BY <1>2 DEF DebugExecute, Execute, Go, RouterTypeOK, LeavesAlone, Elsewhere
<1>3. CASE DebugSet(r)
  BY <1>3 DEF DebugSet, SetResponse, Go, RouterTypeOK, LeavesAlone, Elsewhere
<1> QED BY <1>1, <1>2, <1>3

\* A call whose promise is returned settles the request.
LEMMA ReturnsSettle ==
    ASSUME RouterTypeOK, NEW r \in Request, NEW how \in {"returns", "rejects"}, NEW caught,
           ReturnedCall(r, how, caught)
    PROVE  /\ pos' = pos /\ pc'[r] = "settled" /\ Elsewhere(r) /\ Note(r, how)
           /\ how = "rejects" => answer'[r] = "rejected"
<1>1. how \in How /\ Note(r, how)
  BY DEF ReturnedCall, How
<1>2. pos' = pos /\ order' = order /\ \E a : Settle(r, a)
  BY DEF ReturnedCall
<1>3. pc'[r] = "settled" /\ \A q \in Request \ {r} : pc'[q] = pc[q] /\ answer'[q] = answer[q]
  BY <1>2 DEF Settle, RouterTypeOK
<1>4. how = "rejects" => answer'[r] = "rejected"
  BY DEF ReturnedCall, Settle, RouterTypeOK
<1> QED BY <1>1, <1>2, <1>3, <1>4, Noted DEF Elsewhere

\* An answer closes the entry, unless match could not print it.
LEMMA AnswersClose ==
    ASSUME RouterTypeOK, NEW r \in Request,
           \/ DebugMatch(r) \/ DebugClientError(r) \/ DebugServerError(r) \/ DebugNoMatchFound(r)
    PROVE  (Closes(r) \/ LeavesAlone(r)) /\ Elsewhere(r) /\ pc[r] # "mismatch"
<1>1. CASE DebugMatch(r)
  <2>1. CASE Match(r, "returns") /\ ConsumeUnmatched(r)
    BY <2>1, ReturnsSettle DEF Match, Closes
  <2>2. CASE Match(r, "rejects") /\ UNCHANGED debugVars
    BY <2>2, ReturnsSettle, Noted DEF Match, LeavesAlone, How
  <2> QED BY <1>1, <2>1, <2>2 DEF DebugMatch
<1>2. CASE DebugClientError(r)
  BY <1>2, ReturnsSettle DEF DebugClientError, ClientError, Closes
<1>3. CASE DebugServerError(r)
  BY <1>3, ReturnsSettle DEF DebugServerError, ServerError, Closes
<1>4. CASE DebugNoMatchFound(r)
  BY <1>4, ReturnsSettle DEF DebugNoMatchFound, NoMatchFound, Closes
<1> QED BY <1>1, <1>2, <1>3, <1>4

\* Every step does one of the four.
LEMMA StepEffect ==
    ASSUME RouterTypeOK, NEW r \in Request, Step(r)
    PROVE  /\ Elsewhere(r)
           /\ \/ Opens(r) \/ Extends(r) \/ Closes(r)
              \/ LeavesAlone(r) /\ (pc[r] = "mismatch" => IdOf(r) \notin DOMAIN mismatches)
BY BeginOpens, MismatchExtends, LoopLeavesAlone, AnswersClose DEF Step

-----------------------------------------------------------------------------
\* The passed routes: none at first, and one more after a mismatch.
LEMMA PassedFacts ==
    ASSUME RouterTypeOK, NEW r \in Request
    PROVE  /\ Passed(r) \in Seq(Route)
           /\ Len(Passed(r)) = pos[r] - 1
           /\ \A i \in 1..pos[r] - 1 : Passed(r)[i] = order[i]
<1>1. /\ pos[r] \in 1..Len(order) + 1 /\ Len(order) \in Nat
      /\ \A i \in 1..Len(order) : order[i] \in Route
  BY Types, OrderFacts DEF RouterTypeOK
<1>2. \A i \in 1..pos[r] - 1 : order[i] \in Route
  BY <1>1
<1> DEFINE n == pos[r] - 1
<1>3. 1 \in Int /\ n \in Int /\ 1 <= n + 1 /\ \A i \in 1..n : order[i] \in Route
  BY <1>1, <1>2
<1> HIDE DEF n
<1>4. /\ SubSeq(order, 1, n) \in Seq(Route)
      /\ Len(SubSeq(order, 1, n)) = IF 1 <= n THEN n - 1 + 1 ELSE 0
      /\ \A i \in 1..n - 1 + 1 : SubSeq(order, 1, n)[i] = order[1 + i - 1]
  BY <1>3, SubSeqProperties
<1>5. Len(SubSeq(order, 1, n)) = n /\ \A i \in 1..n : SubSeq(order, 1, n)[i] = order[i]
  BY <1>3, <1>4
<1> QED BY <1>4, <1>5 DEF Passed, n

\* An id that no request shares is used by its own request only.
LEMMA OthersKeepOff ==
    ASSUME DebugTypes, NEW q \in Request, NEW r \in Request, Isolated(q)
    PROVE  IF r = q THEN IdOf(r) = q ELSE IdOf(r) # q
BY DEF Isolated, IdOf

\* Which requests are isolated never changes.
LEMMA IsolatedStays ==
    ASSUME carries' = carries, NEW q \in Request
    PROVE  Isolated(q)' = Isolated(q)
BY DEF Isolated

\* begin: the request's entry is the empty list, and nothing is passed yet.
LEMMA OpensInv ==
    ASSUME DebugInv, RouterTypeOK', NEW r \in Request, Opens(r), Elsewhere(r)
    PROVE  (DebugTypes /\ KeepsList /\ TellsList /\ LeftoversExplained)'
<1>1. /\ mismatches' = With(r, <<>>) /\ carries' = carries /\ reported' = reported
      /\ pos' = pos /\ order' = order /\ pc[r] = "begin"
  BY DEF Opens, Elsewhere
<1>2. /\ RInv /\ RouterTypeOK /\ DebugTypes /\ KeepsList /\ TellsList /\ LeftoversExplained
      /\ pos[r] = 1
  BY <1>1 DEF DebugInv, RInv, RequestInv, VerdictLed
<1>3. /\ DOMAIN mismatches' = DOMAIN mismatches \union {r} /\ mismatches'[r] = <<>>
      /\ \A id \in DOMAIN mismatches \ {r} : mismatches'[id] = mismatches[id]
  BY <1>1 DEF With
<1>4. DebugTypes'
  <2>1. \A id \in DOMAIN mismatches' : mismatches'[id] \in Seq(Route)
    <3>1. <<>> \in Seq(Route)
      OBVIOUS
    <3> QED BY <1>2, <1>3, <3>1 DEF DebugTypes
  <2> QED BY <1>1, <1>2, <1>3, <2>1 DEF DebugTypes
<1>5. \A q \in Request : Passed(q)' = Passed(q)
  BY <1>1 DEF Passed
<1>6. Passed(r) = <<>>
  BY <1>2, PassedFacts
<1>7. KeepsList'
  <2> SUFFICES ASSUME NEW q \in Request, Isolated(q)', pc'[q] \notin {"begin", "settled"}
               PROVE  q \in DOMAIN mismatches' /\ mismatches'[q] = Passed(q)'
    BY DEF KeepsList
  <2>1. CASE q = r
    BY <2>1, <1>3, <1>5, <1>6
  <2>2. CASE q # r
    <3>1. Isolated(q) /\ pc[q] \notin {"begin", "settled"}
      BY <2>2, <1>1, IsolatedStays DEF Elsewhere
    <3> QED BY <2>2, <3>1, <1>2, <1>3, <1>5 DEF KeepsList
  <2> QED BY <2>1, <2>2
<1>8. TellsList'
  <2> SUFFICES ASSUME NEW q \in Request, Isolated(q)', answer'[q] \in Answers \ {"empty500"}
               PROVE  reported'[q] = Passed(q)'
    BY DEF TellsList
  <2>1. answer[q] = answer'[q]
    BY DEF Opens, Elsewhere
  <2> QED BY <2>1, <1>1, <1>2, <1>5, IsolatedStays DEF TellsList
<1>9. LeftoversExplained'
  BY <1>1, <1>2, <1>3 DEF LeftoversExplained, Elsewhere, Opens, DebugTypes
<1> QED BY <1>4, <1>7, <1>8, <1>9

\* mismatch: the entry of the request's id grows by the route that is passed.
LEMMA ExtendsInv ==
    ASSUME DebugInv, RouterTypeOK', NEW r \in Request, Extends(r), Elsewhere(r)
    PROVE  (DebugTypes /\ KeepsList /\ TellsList /\ LeftoversExplained)'
<1>1. /\ carries' = carries /\ reported' = reported /\ order' = order /\ answer' = answer
      /\ pc[r] = "mismatch" /\ pc'[r] # "settled"
      /\ IdOf(r) \in DOMAIN mismatches
      /\ mismatches' = With(IdOf(r), Append(mismatches[IdOf(r)], RouteOf(r)))
  BY DEF Extends, Elsewhere
<1>2. /\ RouterTypeOK /\ DebugTypes /\ KeepsList /\ TellsList /\ LeftoversExplained
      /\ pos[r] \in 1..Len(order) /\ RouteOf(r) \in Route
  BY <1>1, Types DEF DebugInv, RInv
<1>3. /\ DOMAIN mismatches' = DOMAIN mismatches
      /\ mismatches'[IdOf(r)] = Append(mismatches[IdOf(r)], RouteOf(r))
      /\ \A id \in DOMAIN mismatches \ {IdOf(r)} : mismatches'[id] = mismatches[id]
  BY <1>1 DEF With
<1>4. pos'[r] = pos[r] + 1 /\ \A q \in Request \ {r} : pos'[q] = pos[q]
  BY <1>2 DEF Extends, RouterTypeOK
<1>5. DebugTypes'
  <2>1. Append(mismatches[IdOf(r)], RouteOf(r)) \in Seq(Route)
    BY <1>1, <1>2 DEF DebugTypes
  <2> QED BY <1>1, <1>2, <1>3, <2>1 DEF DebugTypes
<1>6. \A q \in Request \ {r} : Passed(q)' = Passed(q)
  BY <1>1, <1>4 DEF Passed
<1>7. Passed(r)' = Append(Passed(r), RouteOf(r))
  <2>1. /\ Passed(r) \in Seq(Route) /\ Len(Passed(r)) = pos[r] - 1
        /\ \A i \in 1..pos[r] - 1 : Passed(r)[i] = order[i]
    BY <1>2, PassedFacts
  <2>2. /\ Passed(r)' \in Seq(Route) /\ Len(Passed(r)') = pos[r]
        /\ \A i \in 1..pos[r] : Passed(r)'[i] = order[i]
    <3>1. /\ SubSeq(order', 1, pos'[r] - 1) \in Seq(Route)
          /\ Len(SubSeq(order', 1, pos'[r] - 1)) = pos'[r] - 1
          /\ \A i \in 1..pos'[r] - 1 : SubSeq(order', 1, pos'[r] - 1)[i] = order'[i]
      <4>1. /\ pos'[r] - 1 = pos[r] /\ pos[r] \in Int /\ 1 <= pos[r]
            /\ \A i \in 1..pos[r] : order[i] \in Route
        BY <1>2, <1>4, OrderFacts DEF RouterTypeOK
      <4>2. /\ SubSeq(order, 1, pos[r]) \in Seq(Route)
            /\ Len(SubSeq(order, 1, pos[r])) = pos[r]
            /\ \A i \in 1..pos[r] : SubSeq(order, 1, pos[r])[i] = order[i]
        BY <4>1, SubSeqProperties
      <4> QED BY <1>1, <4>1, <4>2
    <3> QED BY <3>1, <1>1, <1>2, <1>4 DEF Passed
  <2>3. Append(Passed(r), RouteOf(r)) \in Seq(Route)
        /\ Len(Append(Passed(r), RouteOf(r))) = pos[r]
        /\ \A i \in 1..pos[r] : Append(Passed(r), RouteOf(r))[i] = order[i]
    BY <1>2, <2>1 DEF RouteOf
  <2> QED BY <2>2, <2>3, SeqEqual
<1>8. KeepsList'
  <2> SUFFICES ASSUME NEW q \in Request, Isolated(q)', pc'[q] \notin {"begin", "settled"}
               PROVE  q \in DOMAIN mismatches' /\ mismatches'[q] = Passed(q)'
    BY DEF KeepsList
  <2>1. Isolated(q)
    BY <1>1, IsolatedStays
  <2>2. CASE q = r
    <3>1. IdOf(r) = r /\ mismatches[r] = Passed(r)
      BY <1>1, <1>2, <2>1, <2>2, OthersKeepOff DEF KeepsList
    <3> QED BY <1>1, <1>3, <1>7, <2>2, <3>1
  <2>3. CASE q # r
    <3>1. IdOf(r) # q
      BY <1>2, <2>1, <2>3, OthersKeepOff
    <3>2. pc[q] = pc'[q]
      BY <2>3 DEF Elsewhere
    <3> QED BY <1>2, <1>3, <1>6, <2>1, <2>3, <3>1, <3>2 DEF KeepsList
  <2> QED BY <2>2, <2>3
<1>9. TellsList'
  <2> SUFFICES ASSUME NEW q \in Request, Isolated(q)', answer'[q] \in Answers \ {"empty500"}
               PROVE  reported'[q] = Passed(q)'
    BY DEF TellsList
  <2>1. q # r
    BY <1>1, <1>2 DEF RouterTypeOK, Answers
  <2> QED BY <2>1, <1>1, <1>2, <1>6, IsolatedStays DEF TellsList
<1>10. LeftoversExplained'
  BY <1>1, <1>2, <1>3 DEF LeftoversExplained, Elsewhere, DebugTypes
<1> QED BY <1>5, <1>8, <1>9, <1>10

\* Where the map is left alone, a request that settles was rejected by match.
LEMMA LeavesAloneInv ==
    ASSUME DebugInv, RouterTypeOK', NEW r \in Request, LeavesAlone(r), Elsewhere(r)
    PROVE  (DebugTypes /\ KeepsList /\ TellsList /\ LeftoversExplained)'
<1>1. /\ carries' = carries /\ mismatches' = mismatches /\ reported' = reported
      /\ pos' = pos /\ order' = order /\ pc[r] \notin {"begin", "settled"}
  BY DEF LeavesAlone, Elsewhere, debugVars
<1>2. RouterTypeOK /\ DebugTypes /\ KeepsList /\ TellsList /\ LeftoversExplained
  BY DEF DebugInv, RInv
<1>3. \A q \in Request : Passed(q)' = Passed(q)
  BY <1>1 DEF Passed
<1>4. KeepsList'
  <2> SUFFICES ASSUME NEW q \in Request, Isolated(q)', pc'[q] \notin {"begin", "settled"}
               PROVE  q \in DOMAIN mismatches' /\ mismatches'[q] = Passed(q)'
    BY DEF KeepsList
  <2>1. Isolated(q) /\ pc[q] \notin {"begin", "settled"}
    BY <1>1, IsolatedStays DEF Elsewhere
  <2> QED BY <1>1, <1>2, <1>3, <2>1 DEF KeepsList
<1>5. TellsList'
  <2> SUFFICES ASSUME NEW q \in Request, Isolated(q)', answer'[q] \in Answers \ {"empty500"}
               PROVE  reported'[q] = Passed(q)'
    BY DEF TellsList
  <2>1. answer[q] = answer'[q]
    BY DEF LeavesAlone, Elsewhere, Answers
  <2> QED BY <2>1, <1>1, <1>2, <1>3, IsolatedStays DEF TellsList
<1>6. LeftoversExplained'
  BY <1>1, <1>2 DEF LeftoversExplained, Elsewhere, LeavesAlone, DebugTypes
<1>7. DebugTypes'
  BY <1>1, <1>2 DEF DebugTypes
<1> QED BY <1>4, <1>5, <1>6, <1>7

\* consumeUnmatched: the answer tells the list, and the entry is gone.
LEMMA ClosesInv ==
    ASSUME DebugInv, RouterTypeOK', NEW r \in Request, Closes(r), Elsewhere(r)
    PROVE  (DebugTypes /\ KeepsList /\ TellsList /\ LeftoversExplained)'
<1>1. /\ carries' = carries /\ pos' = pos /\ order' = order
      /\ pc[r] \notin {"begin", "settled"} /\ pc'[r] = "settled"
      /\ reported' = [reported EXCEPT ![r] =
            IF IdOf(r) \in DOMAIN mismatches THEN mismatches[IdOf(r)] ELSE <<>>]
      /\ mismatches' = [id \in DOMAIN mismatches \ {IdOf(r)} |-> mismatches[id]]
  BY DEF Closes, ConsumeUnmatched, Elsewhere
<1>2. RouterTypeOK /\ DebugTypes /\ KeepsList /\ TellsList /\ LeftoversExplained
  BY DEF DebugInv, RInv
<1>3. /\ DOMAIN mismatches' = DOMAIN mismatches \ {IdOf(r)}
      /\ \A id \in DOMAIN mismatches' : mismatches'[id] = mismatches[id]
  BY <1>1
<1>4. /\ IdOf(r) \in DOMAIN mismatches => reported'[r] = mismatches[IdOf(r)]
      /\ \A q \in Request \ {r} : reported'[q] = reported[q]
      /\ reported' \in [Request -> Seq(Route)]
  <2>1. (IF IdOf(r) \in DOMAIN mismatches THEN mismatches[IdOf(r)] ELSE <<>>) \in Seq(Route)
    BY <1>2 DEF DebugTypes
  <2> QED BY <1>1, <1>2, <2>1 DEF DebugTypes
<1>5. \A q \in Request : Passed(q)' = Passed(q)
  BY <1>1 DEF Passed
<1>6. DebugTypes'
  BY <1>1, <1>2, <1>3, <1>4 DEF DebugTypes
<1>7. KeepsList'
  <2> SUFFICES ASSUME NEW q \in Request, Isolated(q)', pc'[q] \notin {"begin", "settled"}
               PROVE  q \in DOMAIN mismatches' /\ mismatches'[q] = Passed(q)'
    BY DEF KeepsList
  <2>1. q # r /\ Isolated(q) /\ pc[q] \notin {"begin", "settled"}
    BY <1>1, IsolatedStays DEF Elsewhere
  <2>2. IdOf(r) # q
    BY <1>2, <2>1, OthersKeepOff
  <2> QED BY <1>2, <1>3, <1>5, <2>1, <2>2 DEF KeepsList
<1>8. TellsList'
  <2> SUFFICES ASSUME NEW q \in Request, Isolated(q)', answer'[q] \in Answers \ {"empty500"}
               PROVE  reported'[q] = Passed(q)'
    BY DEF TellsList
  <2>1. Isolated(q)
    BY <1>1, IsolatedStays
  <2>2. CASE q = r
    <3>1. IdOf(r) = r /\ r \in DOMAIN mismatches /\ mismatches[r] = Passed(r)
      BY <1>1, <1>2, <2>1, <2>2, OthersKeepOff DEF KeepsList
    <3> QED BY <1>4, <1>5, <2>2, <3>1
  <2>3. CASE q # r
    BY <1>2, <1>4, <1>5, <2>1, <2>3 DEF TellsList, Elsewhere
  <2> QED BY <2>2, <2>3
<1>9. LeftoversExplained'
  <2> SUFFICES ASSUME NEW q \in DOMAIN mismatches'
               PROVE  \/ pc'[q] # "settled" \/ <<"begin", "rejects">> \in failed'[q]
                      \/ <<"match", "rejects">> \in failed'[q] \/ carries'[q] # OwnId
    BY DEF LeftoversExplained
  <2>1. q \in DOMAIN mismatches /\ q # IdOf(r) /\ q \in Request
    BY <1>2, <1>3 DEF DebugTypes
  <2>2. CASE q = r
    BY <1>1, <2>1, <2>2 DEF IdOf
  <2>3. CASE q # r
    BY <1>1, <1>2, <2>1, <2>3 DEF LeftoversExplained, Elsewhere
  <2> QED BY <2>2, <2>3
<1> QED BY <1>6, <1>7, <1>8, <1>9

-----------------------------------------------------------------------------
LEMMA DebugInitInv == Init => DebugInv
<1> SUFFICES ASSUME Init PROVE DebugInv
  OBVIOUS
<1>1. RInv
  BY RouterInitInv DEF Init
<1>2. DebugTypes
  BY DEF Init, DebugTypes
<1>3. KeepsList /\ TellsList /\ LeftoversExplained
  BY DEF Init, RouterInit, KeepsList, TellsList, LeftoversExplained, Answers
<1> QED BY <1>1, <1>2, <1>3 DEF DebugInv

\* Every step, stuttering included, is one of the router's.
LEMMA RefinesRouter == [Next]_vars => [RouterNext]_routerVars
BY IsRouterStep DEF Next, RouterNext, vars

LEMMA DebugStepInv == DebugInv /\ [Next]_vars => DebugInv'
<1> SUFFICES ASSUME DebugInv, [Next]_vars PROVE DebugInv'
  OBVIOUS
<1>1. RInv' /\ RouterTypeOK'
  BY RefinesRouter, RouterStepInv DEF DebugInv, RInv
<1>2. ASSUME NEW r \in Request, Step(r)
      PROVE  (DebugTypes /\ KeepsList /\ TellsList /\ LeftoversExplained)'
  BY <1>1, <1>2, StepEffect, OpensInv, ExtendsInv, LeavesAloneInv, ClosesInv
     DEF DebugInv, RInv
<1>3. ASSUME UNCHANGED vars
      PROVE  (DebugTypes /\ KeepsList /\ TellsList /\ LeftoversExplained)'
  <2>1. /\ DebugTypes /\ KeepsList /\ TellsList /\ LeftoversExplained
        /\ UNCHANGED <<order, pc, pos, failed, answer, carries, mismatches, reported>>
    BY <1>3 DEF DebugInv, vars, routerVars, debugVars
  <2>2. \A r \in Request : Passed(r)' = Passed(r) /\ Isolated(r)' = Isolated(r)
    BY <2>1 DEF Passed, Isolated
  <2>3. DebugTypes' /\ LeftoversExplained'
    BY <2>1 DEF DebugTypes, LeftoversExplained
  <2>4. KeepsList'
    BY <2>1, <2>2 DEF KeepsList
  <2>5. TellsList'
    BY <2>1, <2>2 DEF TellsList
  <2> QED BY <2>3, <2>4, <2>5
<1>4. CASE Next
  <2>1. PICK r \in Request : Step(r)
    BY <1>4 DEF Next
  <2> QED BY <1>1, <1>2, <2>1 DEF DebugInv
<1>5. CASE UNCHANGED vars
  BY <1>1, <1>3, <1>5 DEF DebugInv
<1> QED BY <1>4, <1>5

LEMMA DebugInductive == Spec => []DebugInv
BY DebugInitInv, DebugStepInv, PTL DEF Spec

\* The map holds lists of routes under the ids of requests, whatever ids the
\* requests arrive with (DebugRequestLifecycle.ts:92).
THEOREM DebugTypeCorrect == Spec => []TypeOK
<1>1. DebugInv => TypeOK
  BY DEF DebugInv, RInv, DebugTypes, TypeOK
<1> QED BY <1>1, DebugInductive, PTL

\* However many requests are in flight over the one map, a request whose id is
\* its own is answered with exactly the routes it was tried against, in order,
\* each of which had refused it (108-114 against 204-209).
THEOREM OwnMismatchesAlways == Spec => []OwnMismatchesReported
<1>1. ASSUME DebugInv PROVE OwnMismatchesReported
  <2> SUFFICES ASSUME NEW r \in Request, Isolated(r), answer[r] \in Answers \ {"empty500"}
               PROVE  /\ reported[r] = SubSeq(order, 1, pos[r] - 1)
                      /\ \A i \in DOMAIN reported[r] : verdict[r][reported[r][i]] = "wrong"
    BY DEF OwnMismatchesReported
  <2>1. RInv /\ RouterTypeOK /\ TellsList /\ PassedWrong(r)
    BY <1>1 DEF DebugInv, RInv, RequestInv
  <2>2. reported[r] = Passed(r)
    BY <2>1 DEF TellsList
  <2>3. pos[r] \in 1..Len(order) + 1 /\ Len(order) \in Nat /\ DOMAIN order = 1..Len(order)
    BY <2>1, Types, OrderFacts DEF RouterTypeOK
  <2>4. ASSUME NEW i \in DOMAIN reported[r] PROVE verdict[r][reported[r][i]] = "wrong"
    <3>1. i \in 1..pos[r] - 1 /\ reported[r][i] = order[i]
      BY <2>1, <2>2, PassedFacts
    <3> QED BY <2>1, <2>3, <3>1 DEF PassedWrong
  <2> QED BY <2>2, <2>4 DEF Passed
<1> QED BY <1>1, DebugInductive, PTL

\* A settled request has left nothing in the map but in the cases the property
\* names: no interleaving of requests leaks an entry (130 and 204-209).
THEOREM LeftoversAlwaysExplained == Spec => []LeftoversExplained
<1>1. DebugInv => LeftoversExplained
  BY DEF DebugInv
<1> QED BY <1>1, DebugInductive, PTL

\* Whatever the debugging lifecycle does, what the router promises of any
\* lifecycle holds of it.
THEOREM DebugIsARouter == Spec => RouterSpec
<1>1. Init => RouterInit
  BY DEF Init
<1> QED BY <1>1, RefinesRouter, PTL DEF Spec, RouterSpec

-----------------------------------------------------------------------------
(* ProductionRequestLifecycle behind NodeServer.                           *)

ExchangeTypes ==
    /\ Body!TypeOK
    /\ reading \in [Request -> {"nobody", "lens", "second", "report"}]
    /\ conn \in [Request -> {"none", "open", "writing", "ended"}]
    /\ wire \in [Request -> Answers \union {"none", "adapter500"}]
    /\ server \in {"listening", "closing", "closed"}

\* The body of one request and who reads it.
FlowsOnce(r) ==
    /\ reader[r] = "none" => stream[r] \in {"open", "failed"} /\ sent[r] = 0
    /\ stream[r] = "open" => reader[r] \in {"none", "reading"} /\ from[r] = 0
    /\ stream[r] = "ended" => sent[r] = total[r]
    /\ reader[r] \in {"whole", "failed"} => from[r] = 0
    /\ reader[r] = "whole" => stream[r] = "ended"
    /\ reading[r] = "nobody" => reader[r] # "reading" /\ from[r] = 0
    /\ reading[r] # "nobody" => reader[r] # "none"

\* A lens that reads the body accepts after it has ended.
AcceptsEnded(r) ==
    \A k \in ReadingRoute : verdict[r][k] = "ok" => stream[r] = "ended"

BodyInv(r) == FlowsOnce(r) /\ AcceptsEnded(r)

\* A response is written when handle() has come back with it.
Answering == \A r \in Request : conn[r] = "writing" => answer[r] \in Answers

ProdInv == RInv /\ ExchangeTypes /\ Answering /\ \A r \in Request : BodyInv(r)

\* A step for one request.
OthersUnread(r) ==
    \A q \in Request \ {r} :
        /\ total'[q] = total[q] /\ sent'[q] = sent[q] /\ stream'[q] = stream[q]
        /\ reader'[q] = reader[q] /\ from'[q] = from[q] /\ reading'[q] = reading[q]
        /\ verdict'[q] = verdict[q]

-----------------------------------------------------------------------------
\* What a step does to one body decides.
LEMMA BodyFrame ==
    ASSUME ProdInv, RInv', ExchangeTypes', Answering', NEW r \in Request,
           OthersUnread(r), BodyInv(r)'
    PROVE  ProdInv'
<1>1. ASSUME NEW q \in Request \ {r} PROVE BodyInv(q)'
  BY DEF ProdInv, BodyInv, OthersUnread, FlowsOnce, AcceptsEnded
<1> QED BY <1>1 DEF ProdInv

LEMMA ProdFacts ==
    ASSUME ProdInv, NEW r \in Request
    PROVE  /\ RInv /\ RouterTypeOK /\ ExchangeTypes /\ FlowsOnce(r) /\ AcceptsEnded(r)
           /\ total[r] \in 0..MaxChunks /\ sent[r] \in 0..MaxChunks /\ from[r] \in 0..MaxChunks
           /\ from[r] <= sent[r] /\ sent[r] <= total[r]
           /\ stream[r] \in {"open", "ended", "failed"}
           /\ reader[r] \in {"none", "reading", "whole", "failed"}
BY DEF ProdInv, BodyInv, RInv, ExchangeTypes, Body!TypeOK

LEMMA ProdInitInv == ServerInit => ProdInv
<1> SUFFICES ASSUME ServerInit PROVE ProdInv
  OBVIOUS
<1>1. RInv
  BY RouterInitInv DEF ServerInit
<1>2. ExchangeTypes
  BY ReadingAssumption DEF ServerInit, Body!Init, ExchangeTypes, Body!TypeOK
<1>3. ASSUME NEW r \in Request PROVE BodyInv(r)
  BY ReadingAssumption DEF ServerInit, RouterInit, Body!Init, BodyInv, FlowsOnce, AcceptsEnded,
     ReadingRoute
<1>4. Answering
  BY DEF ServerInit, Answering
<1> QED BY <1>1, <1>2, <1>3, <1>4 DEF ProdInv

\* What Handle does of the router's, the router could do with any lifecycle.
Routes(r) ==
    \/ ProdBegin(r) \/ GetUnread(r) \/ GetRead(r) \/ ProdMismatch(r) \/ ProdExecute(r)
    \/ ProdSet(r) \/ ProdAnswer(r) \/ ProdServerError(r)

LEMMA RoutesAsRouter ==
    ASSUME NEW r \in Request, Routes(r)
    PROVE  RouterNext
<1>1. RouterStep(r)
  BY DEF Routes, RouterStep, How, Ran, Verdict, ProdBegin, GetUnread, GetRead, ProdMismatch,
     ProdExecute, ProdSet, ProdAnswer, ProdServerError
<1> QED BY <1>1 DEF RouterNext

\* An answer is final.
LEMMA AnswersStay ==
    ASSUME ProdInv, NEW r \in Request, Routes(r), conn' = conn
    PROVE  Answering'
<1>1. pc[r] # "settled" /\ ((\E a : Settle(r, a)) \/ answer' = answer)
  <2>1. CASE ProdBegin(r) \/ ProdMismatch(r)
    BY <2>1 DEF ProdBegin, Begin, ProdMismatch, Mismatch, Go
  <2>2. CASE GetUnread(r) \/ GetRead(r)
    BY <2>2 DEF GetUnread, GetRead, Get, Go
  <2>3. CASE ProdExecute(r) \/ ProdSet(r)
    BY <2>3 DEF ProdExecute, Execute, ProdSet, SetResponse, Go
  <2>4. CASE ProdAnswer(r)
    BY <2>4 DEF ProdAnswer, Match, ClientError, NoMatchFound, ReturnedCall
  <2>5. CASE ProdServerError(r)
    BY <2>5 DEF ProdServerError, ServerError, ReturnedCall
  <2> QED BY <2>1, <2>2, <2>3, <2>4, <2>5 DEF Routes
<1>2. answer[r] = "none"
  BY <1>1, Before DEF ProdInv, InRange
<1>3. \A q \in Request \ {r} : answer'[q] = answer[q]
  BY <1>1 DEF Settle, ProdInv, RInv, RouterTypeOK
<1> QED BY <1>2, <1>3 DEF ProdInv, Answering, Answers

\* The verdict of the present route is noted, and nothing else.
LEMMA VerdictNoted ==
    ASSUME ProdInv, NEW r \in Request, pc[r] = "get", NEW v \in Verdict,
           verdict' = [verdict EXCEPT ![r][RouteOf(r)] = v]
    PROVE  /\ \A q \in Request \ {r} : verdict'[q] = verdict[q]
           /\ \A k \in Route : verdict'[r][k] = IF k = RouteOf(r) THEN v ELSE verdict[r][k]
BY ProdFacts, InLoop DEF RouterTypeOK

\* The router's steps that read nothing say nothing of a body.
LEMMA RoutesUnread ==
    ASSUME ProdInv, NEW r \in Request,
           \/ ProdBegin(r) \/ GetUnread(r) \/ ProdMismatch(r) \/ ProdExecute(r)
           \/ ProdSet(r) \/ ProdAnswer(r)
    PROVE  ProdInv'
<1>1. RInv'
  BY RoutesAsRouter, RouterStepInv DEF Routes, ProdInv
<1>2. UNCHANGED <<total, sent, stream, reader, from, reading, conn, wire, server>>
  BY DEF ProdBegin, GetUnread, ProdMismatch, ProdExecute, ProdSet, ProdAnswer, Aside, bodyVars,
     exchangeVars
<1>3. ExchangeTypes'
  BY <1>2 DEF ProdInv, ExchangeTypes, Body!TypeOK
<1>4. \/ verdict' = verdict
      \/ pc[r] = "get" /\ \E v \in Verdict :
            /\ verdict' = [verdict EXCEPT ![r][RouteOf(r)] = v]
            /\ v = "wrong" \/ RouteOf(r) \notin ReadingRoute
  <2>1. CASE GetUnread(r)
    BY <2>1 DEF GetUnread, Get, Verdict
  <2>2. CASE ProdBegin(r) \/ ProdMismatch(r) \/ ProdExecute(r) \/ ProdSet(r)
    BY <2>2 DEF ProdBegin, Begin, ProdMismatch, Mismatch, ProdExecute, Execute, ProdSet, SetResponse
  <2>3. CASE ProdAnswer(r)
    BY <2>3 DEF ProdAnswer, Match, ClientError, NoMatchFound, ReturnedCall
  <2> QED BY <2>1, <2>2, <2>3
<1>5. /\ \A q \in Request \ {r} : verdict'[q] = verdict[q]
      /\ \A k \in ReadingRoute : verdict'[r][k] = "ok" => verdict[r][k] = "ok"
  <2>1. ReadingRoute \subseteq Route
    BY ReadingAssumption DEF ReadingRoute
  <2>2. ASSUME pc[r] = "get", NEW v \in Verdict,
               verdict' = [verdict EXCEPT ![r][RouteOf(r)] = v],
               v = "wrong" \/ RouteOf(r) \notin ReadingRoute
        PROVE  /\ \A q \in Request \ {r} : verdict'[q] = verdict[q]
               /\ \A k \in ReadingRoute : verdict'[r][k] = "ok" => verdict[r][k] = "ok"
    BY <2>1, <2>2, VerdictNoted
  <2> QED BY <1>4, <2>2
<1>6. OthersUnread(r) /\ BodyInv(r)'
  BY <1>2, <1>5, ProdFacts DEF OthersUnread, BodyInv, FlowsOnce, AcceptsEnded
<1>7. Answering'
  BY <1>2, AnswersStay DEF Routes
<1> QED BY <1>1, <1>3, <1>6, <1>7, BodyFrame

\* Who begins to read a body subscribes to its stream: with the flow, or too late.
LEMMA Subscribes ==
    ASSUME ProdInv, NEW r \in Request, NEW who \in {"lens", "second", "report"},
           Body!Subscribe(r), reading' = [reading EXCEPT ![r] = who],
           UNCHANGED <<routerVars, exchangeVars, server>>
    PROVE  ProdInv'
<1>1. UNCHANGED <<total, sent, stream, conn, wire, server, verdict>>
  BY DEF Body!Subscribe, exchangeVars, routerVars
<1>2. /\ reader[r] # "reading"
      /\ reader' = [reader EXCEPT ![r] = "reading"]
      /\ from' = [from EXCEPT ![r] = sent[r]]
  BY DEF Body!Subscribe
<1>3. RInv'
  BY RouterStepInv DEF ProdInv
<1>4. /\ reader'[r] = "reading" /\ from'[r] = sent[r] /\ reading'[r] = who
      /\ \A q \in Request \ {r} :
            reader'[q] = reader[q] /\ from'[q] = from[q] /\ reading'[q] = reading[q]
  BY <1>2, ProdFacts DEF ExchangeTypes, Body!TypeOK
<1>5. ExchangeTypes'
  <2>1. /\ reader' \in [Request -> {"none", "reading", "whole", "failed"}]
        /\ from' \in [Request -> 0..MaxChunks]
        /\ reading' \in [Request -> {"nobody", "lens", "second", "report"}]
    BY <1>2, ProdFacts DEF ExchangeTypes, Body!TypeOK
  <2>2. \A q \in Request : from'[q] <= sent'[q] /\ sent'[q] <= total'[q]
    BY <1>1, <1>4, ProdFacts
  <2> QED BY <1>1, <2>1, <2>2, ProdFacts DEF ExchangeTypes, Body!TypeOK
<1>6. BodyInv(r)'
  BY <1>1, <1>2, <1>4, ProdFacts DEF BodyInv, FlowsOnce, AcceptsEnded
<1>7. OthersUnread(r)
  BY <1>1, <1>4 DEF OthersUnread
<1>8. Answering'
  BY DEF ProdInv, Answering, routerVars, exchangeVars
<1> QED BY <1>3, <1>5, <1>6, <1>7, <1>8, BodyFrame

\* Who has read to the end, or has failed, was there from the start.
LEMMA ReadsToTheEnd ==
    ASSUME ProdInv, NEW r \in Request, GetRead(r) \/ ProdServerError(r)
    PROVE  ProdInv'
<1>1. RInv'
  BY RoutesAsRouter, RouterStepInv DEF Routes, ProdInv
<1>2. /\ UNCHANGED <<total, sent, stream, reader, from, conn, wire, server>>
      /\ reading' = [reading EXCEPT ![r] = "nobody"] /\ reading[r] # "nobody"
      /\ reader[r] # "reading"
  BY DEF GetRead, ProdServerError, bodyVars, exchangeVars
<1>3. reader[r] \in {"whole", "failed"} /\ from[r] = 0
  BY <1>2, ProdFacts DEF FlowsOnce
<1>4. /\ reading'[r] = "nobody" /\ \A q \in Request \ {r} : reading'[q] = reading[q]
      /\ ExchangeTypes'
  BY <1>2, ProdFacts DEF ExchangeTypes, Body!TypeOK
<1>5. \/ verdict' = verdict
      \/ pc[r] = "get" /\ \E v \in Verdict :
            /\ verdict' = [verdict EXCEPT ![r][RouteOf(r)] = v]
            /\ v = "ok" => reader[r] = "whole"
  <2>1. CASE GetRead(r)
    BY <2>1 DEF GetRead, Get, Verdict
  <2>2. CASE ProdServerError(r)
    BY <2>2 DEF ProdServerError, ServerError, ReturnedCall
  <2> QED BY <2>1, <2>2
<1>6. /\ \A q \in Request \ {r} : verdict'[q] = verdict[q]
      /\ \A k \in ReadingRoute : verdict'[r][k] = "ok" =>
            verdict[r][k] = "ok" \/ reader[r] = "whole"
  <2>1. ReadingRoute \subseteq Route
    BY ReadingAssumption DEF ReadingRoute
  <2>2. ASSUME pc[r] = "get", NEW v \in Verdict,
               verdict' = [verdict EXCEPT ![r][RouteOf(r)] = v], v = "ok" => reader[r] = "whole"
        PROVE  /\ \A q \in Request \ {r} : verdict'[q] = verdict[q]
               /\ \A k \in ReadingRoute : verdict'[r][k] = "ok" =>
                     verdict[r][k] = "ok" \/ reader[r] = "whole"
    BY <2>1, <2>2, VerdictNoted
  <2> QED BY <1>5, <2>2
<1>7. OthersUnread(r) /\ BodyInv(r)'
  BY <1>2, <1>3, <1>4, <1>6, ProdFacts DEF OthersUnread, BodyInv, FlowsOnce, AcceptsEnded
<1>8. Answering'
  BY <1>2, AnswersStay DEF Routes
<1> QED BY <1>1, <1>4, <1>7, <1>8, BodyFrame

\* Chunks arrive, and the stream ends once.
LEMMA Flows ==
    ASSUME ProdInv, NEW r \in Request, BodyArrives(r) \/ BodyBreaks(r)
    PROVE  ProdInv'
<1>1. /\ UNCHANGED <<reading, conn, wire, server, verdict>> /\ RInv' /\ Answering'
      /\ stream[r] = "open" /\ total' = total /\ from' = from
  <2>1. UNCHANGED <<routerVars, reading, exchangeVars, server>>
    BY DEF BodyArrives, BodyBreaks
  <2>2. stream[r] = "open" /\ total' = total /\ from' = from
    BY DEF BodyArrives, BodyBreaks, Body!Data, Body!EndOfBody, Body!Broken, Body!Finish, Body!Flowing
  <2>3. RInv' /\ Answering'
    BY <2>1, RouterStepInv DEF ProdInv, Answering, routerVars, exchangeVars
  <2> QED BY <2>1, <2>2, <2>3 DEF routerVars, exchangeVars
<1>2. reader[r] \in {"none", "reading"} /\ from[r] = 0
  BY <1>1, ProdFacts DEF FlowsOnce
<1>3. CASE Body!Data(r)
  <2>1. /\ sent[r] < total[r] /\ sent' = [sent EXCEPT ![r] = @ + 1]
        /\ stream' = stream /\ reader' = reader /\ reader[r] # "none"
    BY <1>3 DEF Body!Data, Body!Flowing
  <2>2. /\ sent'[r] = sent[r] + 1 /\ sent'[r] \in 0..MaxChunks
        /\ \A q \in Request \ {r} : sent'[q] = sent[q]
    BY <2>1, ProdFacts, ReadingAssumption DEF ExchangeTypes, Body!TypeOK
  <2>3. sent' \in [Request -> 0..MaxChunks]
    BY <2>1, <2>2, ProdFacts DEF ExchangeTypes, Body!TypeOK
  <2>4. \A q \in Request : from'[q] <= sent'[q] /\ sent'[q] <= total'[q]
    <3> TAKE q \in Request
    <3>1. CASE q = r
      BY <1>1, <2>1, <2>2, <3>1, ProdFacts, ReadingAssumption
    <3>2. CASE q # r
      BY <1>1, <2>2, <3>2, ProdFacts
    <3> QED BY <3>1, <3>2
  <2>5. ExchangeTypes'
    BY <1>1, <2>1, <2>3, <2>4, ProdFacts DEF ExchangeTypes, Body!TypeOK
  <2>6. OthersUnread(r) /\ BodyInv(r)'
    BY <1>1, <1>2, <2>1, <2>2, ProdFacts DEF OthersUnread, BodyInv, FlowsOnce, AcceptsEnded
  <2> QED BY <1>1, <2>5, <2>6, BodyFrame
<1>4. ASSUME NEW how \in {"ended", "failed"}, NEW read \in {"whole", "failed"},
             Body!Finish(r, how, read),
             how = "ended" => sent[r] = total[r] /\ reader[r] # "none",
             read = "whole" => how = "ended"
      PROVE  ProdInv'
  <2>1. /\ stream' = [stream EXCEPT ![r] = how] /\ sent' = sent
        /\ reader' = [reader EXCEPT ![r] = IF @ = "reading" THEN read ELSE @]
    BY <1>4 DEF Body!Finish
  <2>2. /\ stream'[r] = how
        /\ reader'[r] = IF reader[r] = "reading" THEN read ELSE "none"
        /\ \A q \in Request \ {r} : stream'[q] = stream[q] /\ reader'[q] = reader[q]
        /\ ExchangeTypes'
    BY <1>1, <1>2, <2>1, ProdFacts DEF ExchangeTypes, Body!TypeOK
  <2>3. reader[r] = "reading" => reading[r] # "nobody"
    BY ProdFacts DEF FlowsOnce
  <2>4. AcceptsEnded(r)'
    BY <1>1, <1>2, ProdFacts DEF AcceptsEnded
  <2>5. OthersUnread(r) /\ BodyInv(r)'
    BY <1>1, <1>2, <1>4, <2>1, <2>2, <2>3, <2>4, ProdFacts DEF OthersUnread, BodyInv, FlowsOnce
  <2> QED BY <1>1, <2>2, <2>5, BodyFrame
<1>5. CASE Body!EndOfBody(r)
  BY <1>4, <1>5 DEF Body!EndOfBody, Body!Flowing
<1>6. CASE Body!Broken(r)
  BY <1>4, <1>6 DEF Body!Broken
<1> QED BY <1>3, <1>5, <1>6 DEF BodyArrives, BodyBreaks

\* What node and the adapter do with connections touches no body.
LEMMA Exchanges ==
    ASSUME ProdInv,
           \/ \E r \in Request : \/ Accept(r) \/ Respond(r) \/ RespondRejected(r)
                                 \/ WriteFirst(r) \/ WriteEnd(r) \/ WriteFails(r)
           \/ Close \/ Closed \/ UNCHANGED serverVars
    PROVE  ProdInv'
<1>1. UNCHANGED <<routerVars, bodyVars, reading>>
  BY DEF Accept, Respond, RespondRejected, WriteFirst, WriteEnd, WriteFails, Close, Closed,
     serverVars, OnlyExchange
<1>2. UNCHANGED <<total, sent, stream, reader, from, reading, verdict>>
  BY <1>1 DEF bodyVars, routerVars
<1>3. RInv'
  BY <1>1, RouterStepInv DEF ProdInv
<1>4. /\ conn' \in [Request -> {"none", "open", "writing", "ended"}]
      /\ wire' \in [Request -> Answers \union {"none", "adapter500"}]
      /\ server' \in {"listening", "closing", "closed"}
  <2>1. ASSUME NEW r \in Request, NEW to \in {"open", "writing", "ended"}, Conn(r, to)
        PROVE  conn' \in [Request -> {"none", "open", "writing", "ended"}]
    BY <2>1 DEF Conn, ProdInv, ExchangeTypes
  <2>2. ASSUME NEW r \in Request, NEW status \in Answers \union {"none", "adapter500"},
               Wire(r, status)
        PROVE  wire' \in [Request -> Answers \union {"none", "adapter500"}]
    BY <2>2 DEF Wire, ProdInv, ExchangeTypes
  <2>3. ASSUME NEW r \in Request, \/ Accept(r) \/ Respond(r) \/ RespondRejected(r)
                                  \/ WriteFirst(r) \/ WriteEnd(r) \/ WriteFails(r)
        PROVE  /\ conn' \in [Request -> {"none", "open", "writing", "ended"}]
               /\ wire' \in [Request -> Answers \union {"none", "adapter500"}]
               /\ server' = server
    <3>1. conn' = conn \/ \E to \in {"open", "writing", "ended"} : Conn(r, to)
      BY <2>3 DEF Accept, Respond, RespondRejected, WriteFirst, WriteEnd, WriteFails
    <3>2. wire' = wire \/ (Wire(r, answer[r]) /\ conn[r] = "writing") \/ Wire(r, "adapter500")
      BY <2>3 DEF Accept, Respond, RespondRejected, WriteFirst, WriteEnd, WriteFails
    <3>3. conn[r] = "writing" => answer[r] \in Answers
      BY DEF ProdInv, Answering
    <3> QED BY <2>1, <2>2, <2>3, <3>1, <3>2, <3>3 DEF OnlyExchange, ProdInv, ExchangeTypes,
         Accept, Respond, RespondRejected, WriteFirst, WriteEnd, WriteFails
  <2> QED BY <2>3 DEF ProdInv, ExchangeTypes, Close, Closed, serverVars, exchangeVars
<1>5. ExchangeTypes'
  BY <1>2, <1>4 DEF ProdInv, ExchangeTypes, Body!TypeOK
<1>6. ASSUME NEW r \in Request PROVE BodyInv(r)'
  BY <1>2 DEF ProdInv, BodyInv, FlowsOnce, AcceptsEnded
<1>7. Answering'
  <2>1. answer' = answer
    BY <1>1 DEF routerVars
  <2>2. ASSUME NEW r \in Request, Respond(r) PROVE answer[r] \in Answers
    BY <2>2, Before DEF Respond, ProdInv, InRange, RouterTypeOK
  <2>3. ASSUME NEW r \in Request, NEW q \in Request, conn'[q] = "writing",
               \/ Accept(r) \/ Respond(r) \/ RespondRejected(r)
               \/ WriteFirst(r) \/ WriteEnd(r) \/ WriteFails(r)
        PROVE  conn[q] = "writing" \/ (q = r /\ Respond(r))
    BY <2>3 DEF Accept, Respond, RespondRejected, WriteFirst, WriteEnd, WriteFails, Conn,
       ProdInv, ExchangeTypes
  <2> QED BY <2>1, <2>2, <2>3 DEF ProdInv, Answering, Close, Closed, serverVars, exchangeVars
<1> QED BY <1>3, <1>5, <1>6, <1>7 DEF ProdInv

LEMMA ProdStepInv == ProdInv /\ [ServerNext]_serverVars => ProdInv'
<1> SUFFICES ASSUME ProdInv, [ServerNext]_serverVars PROVE ProdInv'
  OBVIOUS
<1>1. ASSUME NEW r \in Request, LensReads(r) \/ SecondReads(r) \/ ReportReads(r) PROVE ProdInv'
  BY <1>1, Subscribes DEF LensReads, SecondReads, ReportReads
<1> QED BY <1>1, RoutesUnread, ReadsToTheEnd, Flows, Exchanges DEF ServerNext, Handle

LEMMA ProdInductive == ServerSpec => []ProdInv
BY ProdInitInv, ProdStepInv, PTL DEF ServerSpec

-----------------------------------------------------------------------------
\* For any requests, bodies and routes: connections, readers and streams keep
\* their types, and who reads a body has subscribed to it (streams.ts:24-40).
THEOREM ProductionTypeCorrect == ServerSpec => []ServerTypeOK
<1>1. ProdInv => ServerTypeOK
  BY DEF ProdInv, RInv, ExchangeTypes, BodyInv, FlowsOnce, ServerTypeOK
<1>2. QED
  BY <1>1, ProdInductive, PTL

\* For any number of chunks, readers and requests, a lens that accepts a body has
\* seen all of it, from the first chunk to its end (streams.ts:24-40).
THEOREM AcceptedBodiesAreWhole == ServerSpec => []AcceptedBodyIsWhole
<1>1. ProdInv => AcceptedBodyIsWhole
  BY DEF ProdInv, BodyInv, FlowsOnce, AcceptsEnded, AcceptedBodyIsWhole
<1>2. QED
  BY <1>1, ProdInductive, PTL

\* The production lifecycle is a lifecycle: behind NodeServer, the loop over the
\* routes does what it does with any other (router.ts:92-126).
THEOREM ProductionIsARouter == ServerSpec => RouterSpec
<1>1. ServerInit => RouterInit
  BY DEF ServerInit
<1>2. [ServerNext]_serverVars => [RouterNext]_routerVars
  <2> SUFFICES ASSUME [ServerNext]_serverVars PROVE RouterNext \/ UNCHANGED routerVars
    OBVIOUS
  <2>1. ASSUME NEW r \in Request, Handle(r) PROVE RouterNext \/ UNCHANGED routerVars
    BY <2>1, RoutesAsRouter DEF Handle, Routes, LensReads, SecondReads, ReportReads, Respond,
       RespondRejected, WriteFirst, WriteEnd, WriteFails, OnlyExchange
  <2>2. ASSUME NEW r \in Request, Accept(r) \/ BodyArrives(r) \/ BodyBreaks(r)
        PROVE  UNCHANGED routerVars
    BY <2>2 DEF Accept, OnlyExchange, BodyArrives, BodyBreaks
  <2>3. CASE Close \/ Closed \/ UNCHANGED serverVars
    BY <2>3 DEF Close, Closed, serverVars
  <2> QED BY <2>1, <2>2, <2>3 DEF ServerNext
<1>3. QED
  BY <1>1, <1>2, PTL DEF ServerSpec, RouterSpec
=============================================================================
