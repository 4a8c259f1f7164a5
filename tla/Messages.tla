------------------------------ MODULE Messages ------------------------------
(***************************************************************************)
(* A message (packages/core/src/contract.ts) is a path, a query, a list of  *)
(* headers and a body.  Every operation makes a new message with one field  *)
(* changed (modify, util/objects.ts) and no code reads one field to change  *)
(* another, so a program that works on one part leaves the others alone:    *)
(* part is the one it works on.  The last part is a whole response that a   *)
(* client's lens reads, and what it reports (Problems).                     *)
(*                                                                         *)
(* What each operation does to headers and query is shown to be what        *)
(* MessageContract says of the operation of its name.                       *)
(***************************************************************************)
EXTENDS Paths, MessageHeaders, MessageQuery, MessageBody, Problems

\* Something of each kind stands for the parts a program leaves alone.
ASSUME MessagesAssumption == Template # {} /\ Foreign # {} /\ Lens # {}

VARIABLE part   \* "path", "headers", "query", "body" or "report"

messageVars == <<vars, headerVars, queryVars, bodyVars, problemVars, part>>

\* A request that somebody else sent, with nothing but a path.
AnyPath ==
    /\ template = CHOOSE t \in Template : TRUE
    /\ path = CHOOSE p \in Foreign : TRUE
    /\ from = "elsewhere" /\ phase = "consume"
    /\ texts = <<>> /\ spans = <<>> /\ level = 1 /\ at = 1

NoQuery == query = <<>> /\ touched = {} /\ changes = 0

NoBody ==
    /\ body = Body("data", <<TextChunk(<<>>)>>)
    /\ got = [outcome |-> "none", bytes |-> <<>>] /\ did = "send" /\ hops = 0

Unread ==
    /\ lens = CHOOSE l \in Lens : TRUE
    /\ fails = {} /\ routed = TRUE /\ report = NoReport

MessagesInit ==
    /\ part \in {"path", "headers", "query", "body", "report"}
    /\ IF part = "path" THEN Init ELSE AnyPath
    /\ HeadersInit
    /\ IF part = "query" THEN QueryInit ELSE NoQuery
    /\ IF part = "body" THEN BodyInit ELSE NoBody
    /\ IF part = "report" THEN ProblemsInit ELSE Unread

OnPath ==
    part = "path" /\ Next /\ UNCHANGED <<headerVars, queryVars, bodyVars, problemVars>>

OnHeaders ==
    part = "headers" /\ HeadersNext /\ UNCHANGED <<vars, queryVars, bodyVars, problemVars>>

OnQuery ==
    part = "query" /\ QueryNext /\ UNCHANGED <<vars, headerVars, bodyVars, problemVars>>

OnBody ==
    part = "body" /\ BodyNext /\ UNCHANGED <<vars, headerVars, queryVars, problemVars>>

OnReport ==
    part = "report" /\ ProblemsNext /\ UNCHANGED <<vars, headerVars, queryVars, bodyVars>>

MessagesNext == (OnPath \/ OnHeaders \/ OnQuery \/ OnBody \/ OnReport) /\ UNCHANGED part

MessagesSpec == MessagesInit /\ [][MessagesNext]_messageVars

-----------------------------------------------------------------------------
\* Every part of a message has its type (the path's is PathsTypeOK).
MessageTypeOK == HeadersTypeOK /\ QueryTypeOK /\ BodyTypeOK /\ ProblemsTypeOK

LowerNames(ns) == {Lower(n) : n \in ns}

\* The headers as the program that edits them has them.
Own == IF transport = "none" THEN headers ELSE sent

\* The values of headers by their names in lower case.
ValuesOf(hs) == [k \in LowerNames(Name) |-> GetHeaderValues(hs, k)]

\* The pairs of a query in plain text; nothing between two &s is none.
PairsOf(q) == Pick(DecodePairs(q), {i \in DOMAIN q : q[i] # <<>>})

\* The batch with its names in lower case.
Lowered(b) == [i \in DOMAIN b |-> <<Lower(b[i][1]), b[i][2]>>]

Contract == INSTANCE MessageContract WITH
    Key         <- LowerNames(Name),
    HeaderBatch <- {Lowered(b) : b \in Batch},
    values      <- ValuesOf(Own),
    pairs       <- PairsOf(query)

Leave == UNCHANGED Contract!contractVars

HeaderOperations ==
    /\ \A n \in Name, v \in HeaderValue :
          /\ AddHeader(n, v) => Contract!AppendHeader(Lower(n), v)
          /\ PutHeader(n, v) => Contract!SetHeader(Lower(n), v)
    /\ \A b \in Batch :
          /\ AddHeaders(b) => Contract!AppendHeaders(Lowered(b))
          /\ PutHeaders(b) => Contract!SetHeaders(Lowered(b))
    /\ \A n \in Name, f \in Edit : Update(n, f) => Contract!UpdateHeaders(Lower(n), f)
    /\ \A ns \in SUBSET Name :
          /\ DropHeaders(ns) => Contract!RemoveHeaders(LowerNames(ns))
          /\ KeepHeaders(ns) => Contract!SelectHeaders(LowerNames(ns))
    /\ \A t \in Transport : Carry(t) => Leave

QueryOperations ==
    /\ \A n \in QueryName, vs \in QueryValues :
          /\ AppendOne(n, vs) => Contract!AppendQuery(n, vs)
          /\ SetOne(n, vs) => Contract!SetQuery(n, vs)
    /\ \A batch \in QueryBatch :
          /\ AppendAll(batch) => Contract!AppendQueries(batch)
          /\ SetAll(batch) => Contract!SetQueries(batch)
    /\ \A ns \in BoundedSeq(QueryName, 2) \ {<<>>} : RemoveAll(ns) => Contract!RemoveQueries(ToSet(ns))
    /\ Throws => Leave

\* Whatever the spelling of names and the escapes of others, each operation, for the
\* name and the values it is given, does to the headers' values and to the query's pairs
\* what the contract says of the operation of its name, and so nothing to those of other
\* names; one that throws does nothing ("these operate on headers in a
\* case-insensitive way", messages.ts:6; queries.ts:15-54).
ContractSpec == Contract!Init /\ [][HeaderOperations /\ QueryOperations]_<<headerVars, queryVars>>
=============================================================================
