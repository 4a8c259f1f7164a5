------------------------------ MODULE Problems ------------------------------
(***************************************************************************)
(* What the caller of an api function learns when the client cannot read   *)
(* the response: the lenses' problems with their paths                     *)
(* (result/src/JsonPathResult.ts), gathered from alternatives (UnionLens,   *)
(* ResultLens), moved behind "response" (client.ts) and shown in place of  *)
(* the values they are about (result/src/JsonPathError.ts).  That error's  *)
(* actual value has one message's body as the body of both (client.ts:18,  *)
(* 22, 74, 79): the request's if the server did not answer with a result,  *)
(* and the response's if no lens can read it.                              *)
(*                                                                         *)
(* A lens is a tree of alternatives over readers; a reader makes checks in *)
(* turn (intersect, named, statuses, value and mapped lenses inside each   *)
(* other) and fails with the first that fails.  A response is what it      *)
(* fails.  A problem's message stands as its check, producedBy as the list *)
(* of its parts, which the code joins with ";", and every key as a name.   *)
(***************************************************************************)
EXTENDS Naturals, FiniteSets, SequencesExt, Picks

CONSTANTS Lens,        \* response lenses
          RouteName    \* the name of the api function

VARIABLES lens,        \* the route's response lens
          fails,       \* the checks that the response fails
          routed,      \* whether the response is a result, by its header
          report       \* what the caller got

problemVars == <<lens, fails, routed, report>>

\* The checks of the lenses that read responses, and the path each blames.
Blames ==
    [status |-> <<"status">>,                       \* ResponseByStatusLens, OrNotFoundLens
     header |-> <<"headers">>,                      \* HeaderLens
     bearer |-> <<"headers", "Authentication">>,    \* bearerAuthHeader
     json   |-> <<"body">>,                         \* JsonLens
     value  |-> <<>>,                               \* StaticValueLens
     mapped |-> <<"body", "name">>]                 \* what a getter given to MapLens may say

Check == DOMAIN Blames

\* The keys of requests, responses and their headers that paths are made of.
Key == {"request", "response", "status", "headers", "Authentication", "body", "name"}

\* The lenses that a lens asks.
Asks(l) ==
    CASE l.kind = "reader" -> {}
      [] l.kind = "union"  -> {l.a, l.b}
      [] l.kind = "result" -> {l.success, l.failure}

\* How far down its last reader is.
Depth[l \in Lens] == IF Asks(l) = {} THEN 0 ELSE 1 + Max({Depth[m] : m \in Asks(l)})

\* A lens makes checks or asks lenses, which were there before it was made.
ASSUME ProblemsAssumption ==
    \A l \in Lens :
        /\ l.kind \in {"reader", "union", "result"}
        /\ l.kind = "reader" => l.checks \in Seq(Check)
        /\ Asks(l) \subseteq Lens
        /\ Depth[l] \in Nat /\ \A m \in Asks(l) : Depth[m] < Depth[l]

Problem(m, p, by) == [message |-> m, path |-> p, producedBy |-> by]

Success(v)  == [ok |-> TRUE, value |-> v, error |-> <<>>]
Failure(ps) == [ok |-> FALSE, value |-> <<>>, error |-> ps]

-----------------------------------------------------------------------------
\* Each problem is made anew from its message and path: who produced it is lost.
Prefix(ps, p) ==
    [i \in DOMAIN ps |-> Problem(ps[i].message, p \o ps[i].path, <<>>)]

PrefixProducedBy(ps, by) ==
    [i \in DOMAIN ps |-> [ps[i] EXCEPT !.producedBy = <<by>> \o @]]

\* The first check of a reader that the response fails is the one at i.
FailsAt(checks, i) == checks[i] \in fails /\ \A j \in 1..(i - 1) : checks[j] \notin fails

Read(checks) ==
    IF \E i \in DOMAIN checks : checks[i] \in fails
    THEN LET c == checks[CHOOSE i \in DOMAIN checks : FailsAt(checks, i)]
         IN  Failure(<<Problem(c, Blames[c], <<>>)>>)
    ELSE Success(<<checks>>)

OnUnion(a, b) ==
    IF a.ok \/ b.ok THEN IF a.ok THEN a ELSE b
    ELSE Failure(a.error \o b.error)

\* The value says which of the two it is: success(s) or success(failure(f.value)).
OnResult(s, f) ==
    IF s.ok \/ f.ok
    THEN Success(IF s.ok THEN <<"success">> \o s.value ELSE <<"failure">> \o f.value)
    ELSE Failure(PrefixProducedBy(s.error, "success") \o PrefixProducedBy(f.error, "failure"))

\* What a lens gives, if got is what the lenses give that it asks.
GetOf(got, l) ==
    CASE l.kind = "reader" -> Read(l.checks)
      [] l.kind = "union"  -> OnUnion(got[l.a], got[l.b])
      [] l.kind = "result" -> OnResult(got[l.success], got[l.failure])

Get[l \in Lens] == GetOf(Get, l)

-----------------------------------------------------------------------------
\* What JavaScript values are made of; a list of problems shown for a value.
Tree(kind, said, parts) == [kind |-> kind, said |-> said, parts |-> parts]

None == [k \in {} |-> k]
Prim(v) == Tree("primitive", <<v>>, None)
Undefined == Prim("undefined")
ProblemList(ms) == Tree("problems", ms, None)
Object(f) == Tree("object", <<>>, f)
Array(f) == Tree("array", <<>>, f)

IsPrimitive(t) == t.kind = "primitive"

\* Each thing in g lies where it lay, and its parts below it.
Further(g) ==
    [p \in DOMAIN g \union UNION {{Append(q, k) : k \in DOMAIN g[q].parts} : q \in DOMAIN g} |->
        IF p \in DOMAIN g THEN g[p] ELSE g[Front(p)].parts[Last(p)]]

\* What lies where in t, by the keys that lead there: no value has parts further down.
Layout(t) == Further(Further(Further(Further(Further([p \in {<<>>} |-> t])))))

MyProblems(ps, p) ==
    LET mine == Pick(ps, {i \in DOMAIN ps : ps[i].path = p})
    IN  [i \in DOMAIN mine |-> mine[i].message]

\* Mutation of MissingKeys: only the keys that actual has are gone through.
NoKeysMissing(actual, ps, p) == {}

\* Keys that problems are about and actual does not have.
MissingKeys(actual, ps, p) ==
    {Last(x.path) : x \in {x \in Range(ps) : /\ Len(x.path) = Len(p) + 1
                                             /\ IsPrefix(p, x.path)
                                             /\ Last(x.path) \notin DOMAIN actual.parts}}

\* What is shown at p, if at is what is shown below: problems, or what actual has there.
ShownAt(at, given, ps, p) ==
    LET here == IF p \in DOMAIN given THEN given[p] ELSE Undefined
    IN  IF MyProblems(ps, p) # <<>> THEN ProblemList(MyProblems(ps, p))
        ELSE IF IsPrimitive(here) THEN here
        ELSE [here EXCEPT !.parts =
                 [k \in DOMAIN @ \union MissingKeys(here, ps, p) |-> at[Append(p, k)]]]

Intertwingle(actual, ps) ==
    LET given == Layout(actual)
        at[p \in DOMAIN given \union {ps[i].path : i \in DOMAIN ps}] == ShownAt(at, given, ps, p)
    IN  at[<<>>]

\* What JsonPathError is given: request and response, the one text as the body of both;
\* no problem is inside of a uri.
Pairs ==
    Array([i \in {"0"} |->
        Array([j \in {"0", "1"} |-> IF j = "0" THEN Prim("name") ELSE Prim("value")])])

Exchange(text) ==
    Object([request  |-> Object([method |-> Prim("method"), uri |-> Prim("uri"),
                                 headers |-> Pairs, body |-> Prim(text)]),
            response |-> Object([status |-> Prim("status"),
                                 headers |-> Pairs, body |-> Prim(text)])])

-----------------------------------------------------------------------------
NoReport ==
    [kind |-> "none", value |-> <<>>, problems |-> <<>>, actual |-> Undefined, expected |-> Undefined]

Returned(v) == [NoReport EXCEPT !.kind = "returned", !.value = v]

\* new JsonPathError(actual, problems)
Thrown(actual, ps) ==
    [NoReport EXCEPT !.kind = "thrown", !.problems = ps,
                     !.actual = actual, !.expected = Intertwingle(actual, ps)]

ProblemsInit ==
    /\ lens \in Lens /\ fails \in SUBSET Check /\ routed \in BOOLEAN
    /\ report = NoReport

Told(r) == report = NoReport /\ report' = r /\ UNCHANGED <<lens, fails, routed>>

RoutingError ==
    /\ ~routed
    /\ Told(Thrown(Exchange("request text"), <<Problem("routing", <<"request">>, <<RouteName>>)>>))

Validate ==
    /\ routed
    /\ LET result == Get[lens]
       IN  Told(IF result.ok THEN Returned(result.value)
                ELSE Thrown(Exchange("response text"),
                            PrefixProducedBy(Prefix(result.error, <<"response">>), RouteName)))

ProblemsNext == RoutingError \/ Validate

ProblemsSpec == ProblemsInit /\ [][ProblemsNext]_problemVars

-----------------------------------------------------------------------------
ProblemsTypeOK ==
    /\ lens \in Lens /\ fails \subseteq Check /\ routed \in BOOLEAN
    /\ report.kind \in {"none", "returned", "thrown"}
    /\ \A p \in Range(report.problems) :
          p.message \in Check \union {"routing"} /\ p.path \in Seq(Key) /\ p.producedBy \in Seq({RouteName})

\* The readers of a lens in the order they are asked, each with the value it would give.
As(tag, rs) == [i \in DOMAIN rs |-> [rs[i] EXCEPT !.value = <<tag>> \o @]]

ReadersIn(of, l) ==
    CASE l.kind = "reader" -> <<[checks |-> l.checks, value |-> <<l.checks>>]>>
      [] l.kind = "union"  -> of[l.a] \o of[l.b]
      [] l.kind = "result" -> As("success", of[l.success]) \o As("failure", of[l.failure])

ReadersOf[l \in Lens] == ReadersIn(ReadersOf, l)

Accepts(r) == Range(r.checks) \cap fails = {}

\* p is what reader r has to say of the response, under the name of the route.
Explains(p, r) ==
    \E i \in DOMAIN r.checks :
        /\ p = Problem(r.checks[i], <<"response">> \o Blames[r.checks[i]], <<RouteName>>)
        /\ FailsAt(r.checks, i)

Blamed == {p.path : p \in Range(report.problems)}

\* A problem is shown where it is, unless it is inside of something that has one
\* or of a text, as what a mapped lens says of a body always is.
ShownInPlace(p, given, shown) ==
    \/ \E q \in Blamed : IsStrictPrefix(q, p.path)
    \/ Front(p.path) \in DOMAIN given => IsPrimitive(given[Front(p.path)])
    \/ /\ p.path \in DOMAIN shown
       /\ shown[p.path].kind = "problems" /\ p.message \in Range(shown[p.path].said)
       /\ Len(shown[p.path].said) = Cardinality({i \in DOMAIN report.problems : report.problems[i].path = p.path})

\* What no problem is about is shown as it was given, and nothing is made up.
OthersShown(given, shown) ==
    \A p \in DOMAIN given \union DOMAIN shown :
        \/ \E q \in Blamed : IsPrefix(q, p)
        \/ /\ p \in DOMAIN given /\ p \in DOMAIN shown
           /\ given[p].kind = shown[p].kind
           /\ given[p].said = shown[p].said

\* A response is read by the first alternative that can.  If none can, the error has
\* one problem of each in the order they were asked, below "response" and under
\* the name of the route only.
AlternativesAreAsked ==
    LET rs == ReadersOf[lens]
    IN  /\ report.kind = "returned" =>
              \E i \in DOMAIN rs : /\ report.value = rs[i].value /\ Accepts(rs[i])
                                   /\ \A j \in 1..(i - 1) : ~Accepts(rs[j])
        /\ report.kind = "thrown" /\ routed =>
              /\ Len(report.problems) = Len(rs)
              /\ \A i \in DOMAIN rs : Explains(report.problems[i], rs[i])

\* That, and the error's expected value differs from its actual one in what the problems
\* are about and nowhere else ("a copy of `actual`, but with the faulty values replaced
\* with the `message` of any problems", result/src/README.md:67-68).  The actual value is
\* what client.ts makes of request and response, with a body that may be the other's.
ReportTellsAll ==
    /\ AlternativesAreAsked
    /\ report.kind = "thrown" =>
          LET given == Layout(report.actual)
              shown == Layout(report.expected)
          IN  /\ OthersShown(given, shown)
              /\ \A p \in Range(report.problems) : ShownInPlace(p, given, shown)
=============================================================================
