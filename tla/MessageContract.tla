--------------------------- MODULE MessageContract ---------------------------
(***************************************************************************)
(* What the comments of headers.ts, messages.ts:6-9 and queries.ts promise: *)
(* headers go by their names whatever the casing, each name with a list of *)
(* values; the query is a list of named values in plain text.  A program   *)
(* puts, adds, changes and removes them by name, and a name it does not    *)
(* mention keeps its values in their order.  Each action is one operation, *)
(* for the names and values that it is given.                               *)
(***************************************************************************)
EXTENDS Naturals, Sequences, Picks

CONSTANTS Key,         \* header names in lower case
          HeaderValue, HeaderBatch, Edit,
          Letter, QueryName, QueryValues, QueryBatch

VARIABLES values,      \* the values of each header
          pairs        \* the named values of the query

contractVars == <<values, pairs>>

Pair == Seq(Letter) \X SUBSET Seq(Letter)

Init ==
    /\ values = [k \in Key |-> <<>>]
    /\ pairs \in Seq(Pair)

-----------------------------------------------------------------------------
\* The values that a list of named values has for k.
Given(new, k) ==
    LET mine == Pick(new, {i \in DOMAIN new : new[i][1] = k}) IN [i \in DOMAIN mine |-> mine[i][2]]

Added(old, k, v) == [old EXCEPT ![k] = Append(@, v)]
Put(old, k, v)   == [old EXCEPT ![k] = <<v>>]

AddedAll(old, new) == [k \in Key |-> old[k] \o Given(new, k)]

\* Of several values for a name the last one stays.
PutAll(old, new) ==
    [k \in Key |-> LET vs == Given(new, k) IN IF vs = <<>> THEN old[k] ELSE <<vs[Len(vs)]>>]

Edited(old, k, f) == [old EXCEPT ![k] = [i \in DOMAIN @ |-> f[@[i]]]]

Without(old, K) == [k \in Key |-> IF k \in K THEN <<>> ELSE old[k]]

\* The operations on headers; k and K are names in lower case.
AppendHeader(k, v)  == values' = Added(values, k, v) /\ UNCHANGED pairs
SetHeader(k, v)     == values' = Put(values, k, v) /\ UNCHANGED pairs
AppendHeaders(new)  == values' = AddedAll(values, new) /\ UNCHANGED pairs
SetHeaders(new)     == values' = PutAll(values, new) /\ UNCHANGED pairs
UpdateHeaders(k, f) == values' = Edited(values, k, f) /\ UNCHANGED pairs
RemoveHeaders(K)    == values' = Without(values, K) /\ UNCHANGED pairs
SelectHeaders(K)    == values' = Without(values, Key \ K) /\ UNCHANGED pairs

HeaderOp ==
    \/ \E k \in Key, v \in HeaderValue : AppendHeader(k, v) \/ SetHeader(k, v)
    \/ \E new \in HeaderBatch : AppendHeaders(new) \/ SetHeaders(new)
    \/ \E k \in Key, f \in Edit : UpdateHeaders(k, f)
    \/ \E K \in SUBSET Key : RemoveHeaders(K) \/ SelectHeaders(K)

-----------------------------------------------------------------------------
\* A pair with neither name nor value is nothing, as nothing is written of it.
Named(n, vs) == Pick([i \in DOMAIN vs |-> <<n, vs[i]>>], {i \in DOMAIN vs : n # <<>> \/ vs[i] # {}})

Others(ps, N) == Pick(ps, {i \in DOMAIN ps : ps[i][1] \notin N})

\* No comment promises it, but adding no value to a query with pairs leaves a parameter
\* called undefined behind them (queries.ts:24), and so it may to one without.
Stray == <<<<"undefined">>, {}>>

\* The lists that adding values may lead to.
Add(ps, n, vs) ==
    IF vs # <<>> THEN {ps \o Named(n, vs)}
    ELSE IF ps # <<>> THEN {Append(ps, Stray)}
    ELSE {<<>>, <<Stray>>}

AddAll(ps, batch) ==
    LET after[i \in 0..Len(batch)] ==
            IF i = 0 THEN {ps} ELSE UNION {Add(p, batch[i][1], batch[i][2]) : p \in after[i - 1]}
    IN  after[Len(batch)]

NamesIn(batch) == {batch[i][1] : i \in DOMAIN batch}

\* The operations on the query.
AppendQuery(n, vs)   == pairs' \in Add(pairs, n, vs) /\ UNCHANGED values
SetQuery(n, vs)      == pairs' \in Add(Others(pairs, {n}), n, vs) /\ UNCHANGED values
AppendQueries(batch) == pairs' \in AddAll(pairs, batch) /\ UNCHANGED values
SetQueries(batch)    == pairs' \in AddAll(Others(pairs, NamesIn(batch)), batch) /\ UNCHANGED values
RemoveQueries(N)     == pairs' = Others(pairs, N) /\ UNCHANGED values

QueryOp ==
    \/ \E n \in QueryName, vs \in QueryValues : AppendQuery(n, vs) \/ SetQuery(n, vs)
    \/ \E batch \in QueryBatch : AppendQueries(batch) \/ SetQueries(batch)
    \/ \E N \in SUBSET QueryName : RemoveQueries(N)

-----------------------------------------------------------------------------
Next == HeaderOp \/ QueryOp

Spec == Init /\ [][Next]_contractVars
=============================================================================
