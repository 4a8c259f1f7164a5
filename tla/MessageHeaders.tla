--------------------------- MODULE MessageHeaders ---------------------------
(***************************************************************************)
(* packages/core/src/headers.ts: the headers of a message are a list of    *)
(* pairs; every operation compares names in lower case and keeps their     *)
(* spelling and order.  A program edits the list, then one of the          *)
(* transports (packages/node, lambda, browser) carries it to the program   *)
(* on the other side, through an object or a map of its own.               *)
(*                                                                         *)
(* A value is a sequence of tokens, the empty one being the empty string:  *)
(* transports join values, and some add a token of their own.  Transports  *)
(* write headers of their own as well, over what the program wrote or       *)
(* where it wrote nothing: those have the value Itself.                     *)
(***************************************************************************)
EXTENDS Naturals, SequencesExt, Picks

CONSTANTS Name,        \* header names as programs spell them
          Lower(_),    \* toLowerCase
          HeaderValue, \* the values programs write
          Batch,       \* the lists given to setHeaders and appendHeaders
          Edit,        \* the functions given to updateHeaders
          MaxEdits     \* bound on the operations of one program

Itself  == "itself"      \* what a transport writes itself
Comma   == ","           \* ", " between joined values
Cr      == "\r"          \* left over from a line that is split at "\n"
True    == "true"        \* what `delete` returns, in place of a value
ByValue == "by value"    \* stands for any value used as a name
Nameless == ""           \* the name in a line that is empty

\* How the length of a body is told: not at all, or by one of two headers.
Lengths == <<"content-length", "transfer-encoding">>
Framing == {<<>>, <<Lengths[1]>>, <<Lengths[2]>>}

\* What API Gateway writes into every event.
Gateway == <<"host", "x-forwarded-for", "x-forwarded-port", "x-forwarded-proto", "x-amzn-trace-id">>

\* What only a browser may write (unsafeHeaders knows of two of them), and what it
\* does not show.
Forbidden ==
    {"accept-charset", "accept-encoding", "connection", "content-length", "cookie", "date",
     "dnt", "expect", "host", "keep-alive", "origin", "referer", "te", "trailer",
     "transfer-encoding", "upgrade", "via"}

Hidden == {"set-cookie", "set-cookie2"}

Unsafe == {"content-length", "host"}

ASSUME HeadersAssumption ==
    /\ \A n \in Name : Lower(Lower(n)) = Lower(n) /\ Lower(n) \notin {Lower(Nameless), Lower(ByValue)}
    /\ \A n \in Forbidden \union Hidden \union ToSet(Gateway) : Lower(n) = n
    /\ Batch \subseteq Seq(Name \X HeaderValue)
    /\ \A f \in Edit : f \in [HeaderValue -> HeaderValue]
    /\ MaxEdits \in Nat

VARIABLES headers,     \* message.headers
          sent,        \* message.headers when the transport took it
          transport,   \* the transport that carried it, or "none"
          headerEdits  \* operations so far

headerVars == <<headers, sent, transport, headerEdits>>

Header == Name \X HeaderValue

-----------------------------------------------------------------------------
\* getHeaders and getHeaderValues, of which getHeaderValue is the first.
GetHeaders(hs, n) == Pick(hs, {i \in DOMAIN hs : Lower(hs[i][1]) = Lower(n)})

GetHeaderValues(hs, n) ==
    LET found == GetHeaders(hs, n) IN [i \in DOMAIN found |-> found[i][2]]

AppendHeader(hs, n, v) == Append(hs, <<n, v>>)

AppendHeaders(hs, new) == hs \o new

RemoveHeaders(hs, ns) ==
    Pick(hs, {i \in DOMAIN hs : Lower(hs[i][1]) \notin {Lower(n) : n \in ns}})

\* Mutation of SetHeader: the old headers are found by their spelling.
SetSpelledHeader(hs, n, v) == Append(Pick(hs, {i \in DOMAIN hs : hs[i][1] # n}), <<n, v>>)

SetHeader(hs, n, v) == Append(RemoveHeaders(hs, {n}), <<n, v>>)

SetHeaders(hs, new) ==
    LET set[i \in 0..Len(new)] ==
            IF i = 0 THEN hs ELSE SetHeader(set[i - 1], new[i][1], new[i][2])
    IN  set[Len(new)]

UpdateHeaders(hs, n, f) ==
    [i \in DOMAIN hs |->
        IF Lower(hs[i][1]) = Lower(n) THEN <<hs[i][1], f[hs[i][2]]>> ELSE hs[i]]

SelectHeaders(hs, ns) ==
    Pick(hs, {i \in DOMAIN hs : Lower(hs[i][1]) \in {Lower(n) : n \in ns}})

-----------------------------------------------------------------------------
\* The transports put headers under keys, names as they are spelled or in lower
\* case: one group for each key, in the order in which the keys come up.
Groups(hs, key) ==
    LET firsts == Pick([i \in DOMAIN hs |-> i],
                       {i \in DOMAIN hs : \A j \in 1..(i - 1) : key[hs[j][1]] # key[hs[i][1]]})
    IN  [g \in DOMAIN firsts |->
            Pick(hs, {i \in DOMAIN hs : key[hs[i][1]] = key[hs[firsts[g]][1]]})]

Spelling  == [n \in Name |-> n]
LowerCase == [n \in Name |-> Lower(n)]

Combine(values) ==
    LET joined[i \in 1..Len(values)] ==
            IF i = 1 THEN values[i] ELSE joined[i - 1] \o <<Comma>> \o values[i]
    IN  joined[Len(values)]

\* One line for each name in lower case, as Headers and XMLHttpRequest keep them.
Combined(hs) ==
    LET groups == Groups(hs, LowerCase)
    IN  [g \in DOMAIN groups |->
            <<Lower(groups[g][1][1]), Combine(GetHeaderValues(groups[g], groups[g][1][1]))>>]

\* Mutation of OutgoingValues: each header replaces the one before.
OnlyLast(group) == <<Last(group)>>

\* acc[n] in toOutgoingHeaders: a string, or an array once a second value comes;
\* an empty string counts as none.
OutgoingValues(group) ==
    LET truthy == {i \in DOMAIN group : group[i][2] # <<>>}
        start  == CHOOSE i \in truthy : \A j \in truthy : i <= j
    IN  IF truthy = {} THEN <<Last(group)>> ELSE SubSeq(group, start, Len(group))

\* node keeps what it was given last for a name in lower case.
NodeKeeps(groups) ==
    Pick([g \in DOMAIN groups |-> g],
         {g \in DOMAIN groups : \A k \in (g + 1)..Len(groups) :
                                    Lower(groups[k][1][1]) # Lower(groups[g][1][1])})

\* The headers of a request that a program of node writes.
NodeWrites(hs) ==
    LET groups == Groups(hs, Spelling)
        kept == NodeKeeps(groups)
    IN  FlattenSeq([k \in DOMAIN kept |-> OutgoingValues(groups[kept[k]])])

\* responseHttp4tToNode: setHeader for each value that is not empty.
NodeSets(hs) ==
    LET groups == Groups(Pick(hs, {i \in DOMAIN hs : hs[i][2] # <<>>}), LowerCase)
    IN  [g \in DOMAIN groups |-> Last(groups[g])]

\* The event has the last value of a header in headers, all in multiValueHeaders.
Event(hs) ==
    LET groups == Groups(hs, Spelling)
    IN  [g \in DOMAIN groups |-> Last(groups[g])] \o FlattenSeq(groups)

Its(names) == [i \in DOMAIN names |-> <<names[i], <<Itself>>>>]

\* A transport writes what it has to, if the program has written nothing of names.
Supply(hs, names, own) ==
    IF \E i \in DOMAIN hs : Lower(hs[i][1]) \in names THEN hs ELSE hs \o Its(own)

\* An empty Host is as good as none to ClientRequest.
OverNodeRequest(hs, framing) ==
    LET written == NodeWrites(hs)
        hosted == IF \E i \in DOMAIN written : Lower(written[i][1]) = "host" /\ written[i][2] # <<>>
                  THEN written
                  ELSE RemoveHeaders(written, {"host"}) \o Its(<<"host">>)
    IN  Supply(Supply(hosted, {"connection"}, <<"connection">>), ToSet(Lengths), framing)

OverNodeResponse(hs, framing) ==
    LET dated == Supply(NodeSets(hs), {"date"}, <<"date">>)
    IN  Supply(Supply(dated, {"connection"}, <<"connection", "keep-alive">>), ToSet(Lengths), framing)

\* The gateway writes its own into headers and into multiValueHeaders.
OverLambdaRequest(hs) == Event(RemoveHeaders(hs, ToSet(Gateway))) \o Its(Gateway \o Gateway)

\* addHeader: the second header of a name turns the first into `true`.
WithTrue(group) ==
    IF Len(group) = 1 THEN group ELSE <<<<group[1][1], <<True>>>>>> \o Tail(group)

OverLambdaResponse(hs) ==
    LET groups == Groups(hs, Spelling)
    IN  FlattenSeq([g \in DOMAIN groups |-> WithTrue(groups[g])])

Safe(hs) == Pick(hs, {i \in DOMAIN hs : Lower(hs[i][1]) \notin Unsafe})

\* toFetchHeaders, and setHeaders of xhr.ts; then the browser.
OverBrowserRequest(hs, framing) ==
    Combined(RemoveHeaders(Safe(hs), Forbidden)) \o Its(<<"host", "connection">> \o framing)

\* toHttp4tResponse: forEach hands out the value first.
OverFetchResponse(hs) ==
    LET lines == Combined(RemoveHeaders(hs, Hidden))
    IN  [i \in DOMAIN lines |-> <<ByValue, <<lines[i][1]>>>>]

\* getHeaders of xhr.ts: lines end in "\r\n", and one more is read behind the last.
OverXhrResponse(hs) ==
    LET lines == Combined(RemoveHeaders(hs, Hidden))
    IN  Append([i \in DOMAIN lines |-> <<lines[i][1], Append(lines[i][2], Cr)>>],
               <<Nameless, <<>>>>)

Transport == {"nodeRequest", "nodeResponse", "lambdaRequest", "lambdaResponse",
              "browserRequest", "fetchResponse", "xhrResponse"}

Over(t, hs, framing) ==
    CASE t = "nodeRequest"    -> OverNodeRequest(hs, framing)
      [] t = "nodeResponse"   -> OverNodeResponse(hs, framing)
      [] t = "lambdaRequest"  -> OverLambdaRequest(hs)
      [] t = "lambdaResponse" -> OverLambdaResponse(hs)
      [] t = "browserRequest" -> OverBrowserRequest(hs, framing)
      [] t = "fetchResponse"  -> OverFetchResponse(hs)
      [] t = "xhrResponse"    -> OverXhrResponse(hs)

-----------------------------------------------------------------------------
HeadersInit ==
    /\ headers = <<>> /\ sent = <<>>
    /\ transport = "none" /\ headerEdits = 0

\* modify() makes a new message with the new list.
Becomes(hs) ==
    /\ transport = "none" /\ headerEdits < MaxEdits
    /\ headers' = hs
    /\ headerEdits' = headerEdits + 1
    /\ UNCHANGED <<sent, transport>>

AddHeader(n, v) == Becomes(AppendHeader(headers, n, v))

PutHeader(n, v) == Becomes(SetHeader(headers, n, v))

AddHeaders(new) == Becomes(AppendHeaders(headers, new))

PutHeaders(new) == Becomes(SetHeaders(headers, new))

Update(n, f) == Becomes(UpdateHeaders(headers, n, f))

DropHeaders(ns) == Becomes(RemoveHeaders(headers, ns))

KeepHeaders(ns) == Becomes(SelectHeaders(headers, ns))

Carry(t) ==
    /\ transport = "none"
    /\ transport' = t
    /\ sent' = headers
    /\ \E framing \in Framing : headers' = Over(t, headers, framing)
    /\ UNCHANGED headerEdits

HeadersNext ==
    \/ \E n \in Name, v \in HeaderValue : AddHeader(n, v) \/ PutHeader(n, v)
    \/ \E new \in Batch : AddHeaders(new) \/ PutHeaders(new)
    \/ \E n \in Name, f \in Edit : Update(n, f)
    \/ \E ns \in SUBSET Name : DropHeaders(ns) \/ KeepHeaders(ns)
    \/ \E t \in Transport : Carry(t)

-----------------------------------------------------------------------------
HeadersTypeOK ==
    /\ transport \in Transport \union {"none"}
    /\ transport = "none" => headers \in Seq(Header)
    /\ sent \in Seq(Header)
    /\ headerEdits \in 0..MaxEdits

\* The names a transport writes whatever the program did, and those it writes for a
\* program that did not.
Overwrites(t) ==
    CASE t = "lambdaRequest"  -> ToSet(Gateway)
      [] t = "browserRequest" -> Forbidden
      [] t = "nodeResponse"   -> {"keep-alive"}
      [] OTHER                -> {}

Supplies(t) ==
    CASE t = "nodeRequest"  -> {"host", "connection"} \union ToSet(Lengths)
      [] t = "nodeResponse" -> {"date", "connection"} \union ToSet(Lengths)
      [] OTHER              -> {}

\* A header written once, with a value, is what getHeaderValue finds on the other
\* side, but for the two ways in which a browser's answer is misread and for the
\* headers a transport writes over.
OnceArrives(n) ==
    (/\ Len(GetHeaders(sent, n)) = 1 /\ GetHeaders(sent, n)[1][2] # <<>>
     /\ transport \notin {"fetchResponse", "xhrResponse"}
     /\ Lower(n) \notin Overwrites(transport)) =>
        /\ GetHeaderValues(headers, n) # <<>>
        /\ GetHeaderValues(headers, n)[1] = GetHeaderValues(sent, n)[1]

SpelledAlike(hs, n) ==
    \A i, j \in DOMAIN hs :
        Lower(hs[i][1]) = Lower(n) /\ Lower(hs[j][1]) = Lower(n) => hs[i][1] = hs[j][1]

\* Headers written several times arrive in order: on a request of node if they are
\* spelled alike and the first is not empty; on an answer of a lambda if they are
\* spelled alike, but for the first, which turns into `true`; from a browser joined
\* into one; to XMLHttpRequest the same, with the end of the line.
RepeatsArrive(n) ==
    LET before == GetHeaderValues(sent, n)
        after  == GetHeaderValues(headers, n)
    IN  before # <<>> =>
          /\ transport = "nodeRequest" /\ SpelledAlike(sent, n) /\ before[1] # <<>> =>
                after = before
          /\ transport = "lambdaResponse" /\ SpelledAlike(sent, n) /\ Len(before) > 1 =>
                after = <<<<True>>>> \o Tail(before)
          /\ transport = "browserRequest" /\ Lower(n) \notin Forbidden =>
                after = <<Combine(before)>>
          /\ transport = "xhrResponse" /\ Lower(n) \notin Hidden =>
                after = <<Append(Combine(before), Cr)>>

\* Over node and into lambda no value turns up that was not sent, but for the
\* transport's own: there only under a name it writes over, or under one that it
\* supplies and for which the program wrote nothing, or an empty value.
NoneInvented(n) ==
    LET before == ToSet(GetHeaderValues(sent, n))
        after  == ToSet(GetHeaderValues(headers, n))
    IN  transport \in {"nodeRequest", "nodeResponse", "lambdaRequest"} =>
          /\ after \subseteq before \union {<<Itself>>}
          /\ <<Itself>> \in after \ before =>
                \/ Lower(n) \in Overwrites(transport)
                \/ Lower(n) \in Supplies(transport) /\ (before = {} \/ <<>> \in before)

\* Whatever a program did to its headers, the program on the other side of a
\* transport reads what was meant, but where OnceArrives, RepeatsArrive and
\* NoneInvented say otherwise (conversions.ts:40-81 of node, 29-36 of browser,
\* apiGateway.ts:6-35, xhr.ts:8-23).
HeadersArrive ==
    transport # "none" =>
        \A n \in Name : OnceArrives(n) /\ RepeatsArrive(n) /\ NoneInvented(n)
=============================================================================
