---------------------------- MODULE MessageQuery ----------------------------
(***************************************************************************)
(* packages/core/src/queries.ts and urlEncoding.ts: the query of a uri is  *)
(* kept as it is written; to change it the code decodes the pairs, drops   *)
(* some, and encodes all that remain.  A query comes from the program or   *)
(* from anybody else, and is read by http4t and by others.                 *)
(*                                                                         *)
(* A query is the sequence of what stands between its &s, each a sequence  *)
(* of units: a plain character, an escape ("%20"), "+", "=" or a stray     *)
(* "%".  <<>> is undefined, <<<<>>>> the empty string.  A decoded value is *)
(* {} where it is undefined, and {text} otherwise.                         *)
(***************************************************************************)
EXTENDS Naturals, SequencesExt, Picks

CONSTANTS Letter,       \* characters
          QueryName,    \* decoded names that programs use
          QueryValues,  \* lists of decoded values, {} among them, given for a name
          QueryBatch,   \* lists of <<name, values>> given to appendQueries and setQueries
          ForeignQuery, \* queries others have written
          MaxChanges    \* bound on the operations of one program

Escapes == {"%20", "%2B", "%3D", "%25"}

Unit == Letter \union Escapes

\* A list of decoded values, each of them undefined or a text.
IsValues(vs) ==
    vs \in Seq(SUBSET Seq(Letter)) /\ \A i \in DOMAIN vs : \A t, u \in vs[i] : t = u

ASSUME QueryAssumption ==
    /\ {" ", "+", "=", "%", "undefined"} \subseteq Letter /\ Letter \cap Escapes = {}
    /\ QueryName \subseteq Seq(Letter)
    /\ \A vs \in QueryValues : IsValues(vs)
    /\ \A batch \in QueryBatch :
          /\ batch \in Seq(QueryName \X Seq(SUBSET Seq(Letter)))
          /\ \A i \in DOMAIN batch : IsValues(batch[i][2])
    /\ ForeignQuery \subseteq Seq(Seq(Unit))
    /\ MaxChanges \in Nat

VARIABLES query,        \* request.uri.query
          touched,      \* the names the last operation was about
          changes       \* operations so far

queryVars == <<query, touched, changes>>

Escape(c) ==
    CASE c = " " -> "%20" [] c = "+" -> "%2B" [] c = "=" -> "%3D" [] c = "%" -> "%25" [] OTHER -> c

Unescape(u) ==
    CASE u = "%20" -> " " [] u = "%2B" -> "+" [] u = "%3D" -> "=" [] u = "%25" -> "%" [] OTHER -> u

\* The place of the first x in s, or one past its end.
Place(s, x) ==
    LET places == {i \in DOMAIN s : s[i] = x} \union {Len(s) + 1}
    IN  CHOOSE i \in places : \A j \in places : i <= j

-----------------------------------------------------------------------------
\* Mutation of Encode: encodeURI, which leaves the plus alone.
EncodeLeavingPlus(t) ==
    LET first == Place(t, " ")
    IN  [i \in DOMAIN t |-> IF i = first \/ t[i] = "+" THEN "+" ELSE Escape(t[i])]

\* encodeURIComponent, and then only the first %20 becomes a plus.
Encode(t) ==
    LET first == Place(t, " ")
    IN  [i \in DOMAIN t |-> IF i = first THEN "+" ELSE Escape(t[i])]

\* Only the first plus is a space.
Decode(s) ==
    LET first == Place(s, "+")
    IN  [i \in DOMAIN s |-> IF i = first THEN " " ELSE Unescape(s[i])]

Malformed(s) == \E i \in DOMAIN s : s[i] = "%"

NamePart(p) == SubSeq(p, 1, Place(p, "=") - 1)
Behind(p)   == SubSeq(p, Place(p, "=") + 1, Len(p))

\* const [name, value] = pair.split('='): what follows a second = is dropped.
DecodePair(p) ==
    <<Decode(NamePart(p)),
      IF Place(p, "=") > Len(p) THEN {} ELSE {Decode(NamePart(Behind(p)))}>>

DecodePairs(q) == [i \in DOMAIN q |-> DecodePair(q[i])]

\* decodeURIComponent throws a URIError; it is not asked what split('=') drops.
DecodeThrows(q) ==
    \E i \in DOMAIN q :
        \/ Malformed(NamePart(q[i]))
        \/ Place(q[i], "=") <= Len(q[i]) /\ Malformed(NamePart(Behind(q[i])))

EncodePair(n, v) == Encode(n) \o (IF v = {} THEN <<>> ELSE <<"=">> \o Encode(CHOOSE t \in v : TRUE))

EncodePairs(pairs) == [i \in DOMAIN pairs |-> EncodePair(pairs[i][1], pairs[i][2])]

IsEmpty(q) == q = <<>> \/ q = <<<<>>>>

Expanded(n, vs) == [i \in DOMAIN vs |-> <<n, vs[i]>>]

\* Mutation of AppendQuery: the new pairs come first.
PrependQuery(q, n, vs) == EncodePairs(Expanded(n, vs)) \o (IF IsEmpty(q) THEN <<>> ELSE q)

\* Without a value encodePairs is undefined, which the template string spells out.
AppendQuery(q, n, vs) ==
    IF IsEmpty(q) THEN EncodePairs(Expanded(n, vs))
    ELSE q \o (IF vs = <<>> THEN <<<<"undefined">>>> ELSE EncodePairs(Expanded(n, vs)))

AppendQueries(q, batch) ==
    LET acc[i \in 0..Len(batch)] ==
            IF i = 0 THEN q ELSE AppendQuery(acc[i - 1], batch[i][1], batch[i][2])
    IN  acc[Len(batch)]

Filtered(q, ns) ==
    EncodePairs(Pick(DecodePairs(q), {i \in DOMAIN q : DecodePair(q[i])[1] \notin ns}))

RemoveQuery(q, n) == Filtered(q, {n})

SetQuery(q, n, vs) == AppendQuery(RemoveQuery(q, n), n, vs)

NamesOf(batch) == {batch[i][1] : i \in DOMAIN batch}

SetQueries(q, batch) == AppendQueries(Filtered(q, NamesOf(batch)), batch)

RemoveQueries(q, ns) ==
    LET result[i \in 0..Len(ns)] == IF i = 0 THEN q ELSE RemoveQuery(result[i - 1], ns[i])
    IN  result[Len(ns)]

-----------------------------------------------------------------------------
QueryInit ==
    /\ query \in ForeignQuery
    /\ touched = {} /\ changes = 0

\* modify() makes a new request with a new uri.
Changed(q, ns) ==
    /\ changes < MaxChanges
    /\ query' = q
    /\ touched' = ns
    /\ changes' = changes + 1

AppendOne(n, vs) == Changed(AppendQuery(query, n, vs), {n})

AppendAll(batch) == Changed(AppendQueries(query, batch), NamesOf(batch))

\* What has to decode the query first throws where it cannot.
SetOne(n, vs) == ~DecodeThrows(query) /\ Changed(SetQuery(query, n, vs), {n})

SetAll(batch) == ~DecodeThrows(query) /\ Changed(SetQueries(query, batch), NamesOf(batch))

RemoveAll(ns) == ~DecodeThrows(query) /\ Changed(RemoveQueries(query, ns), ToSet(ns))

Throws == DecodeThrows(query) /\ Changed(query, {})

QueryNext ==
    \/ \E n \in QueryName, vs \in QueryValues : AppendOne(n, vs) \/ SetOne(n, vs)
    \/ \E batch \in QueryBatch : AppendAll(batch) \/ SetAll(batch)
    \/ \E ns \in BoundedSeq(QueryName, 2) \ {<<>>} : RemoveAll(ns)
    \/ Throws

-----------------------------------------------------------------------------
\* How anybody else reads a form: every plus is a space, only the first = parts, and
\* nothing between two &s is nothing.
OthersDecode(s) == [i \in DOMAIN s |-> IF s[i] = "+" THEN " " ELSE Unescape(s[i])]

OthersValue(p) == IF Place(p, "=") > Len(p) THEN {} ELSE {OthersDecode(Behind(p))}

OthersRead(q, n) ==
    LET named == Pick(q, {i \in DOMAIN q : q[i] # <<>> /\ OthersDecode(NamePart(q[i])) = n})
    IN  [i \in DOMAIN named |-> OthersValue(named[i])]

Pluses(s) == {i \in DOMAIN s : s[i] = "+"}

\* No name and no value has two pluses, and no value an =: what http4t writes, and
\* much of what others do.
ReadsAlike(p) ==
    /\ \A i, j \in Pluses(NamePart(p)) : i = j
    /\ \A i, j \in Pluses(Behind(p)) : i = j
    /\ Place(Behind(p), "=") > Len(Behind(p))

QueryTypeOK ==
    /\ query \in Seq(Seq(Unit))
    /\ touched \subseteq QueryName
    /\ changes \in 0..MaxChanges

\* Although every operation but append encodes anew what it did not write, a
\* program that sets or removes a parameter leaves the others as any reader of
\* the uri understands them, unless http4t itself misreads the query: it takes
\* the second plus of a value for a plus and drops what follows a second =
\* (urlEncoding.ts:4, 12, queries.ts:36-54).  The parameter called undefined may
\* come with any other that is given no value.
OthersReadTheSame ==
    [][(\A i \in DOMAIN query : ReadsAlike(query[i])) =>
          \A n \in QueryName \ (touched' \union {<<"undefined">>}) :
              OthersRead(query', n) = OthersRead(query, n)]_queryVars
=============================================================================
