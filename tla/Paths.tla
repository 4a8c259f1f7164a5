-------------------------------- MODULE Paths --------------------------------
(***************************************************************************)
(* packages/bidi/src/paths: one template writes a path in the client and   *)
(* reads it on the server.  A call expands its template one Joined level   *)
(* at a time, travels in memory or over node's http, and is consumed one   *)
(* matcher at a time; PathLens has the last word.  Paths from anywhere     *)
(* else (Foreign) are only consumed.                                       *)
(*                                                                         *)
(* A text is a sequence of characters.  A consumer is the relation Takes:  *)
(* which j it stops before when it starts at p.  Parsed values stand as    *)
(* the text they are written as; a parser is what it accepts.              *)
(***************************************************************************)
EXTENDS Naturals, Sequences, FiniteSets

CONSTANTS Char,       \* characters, "/", "?" and "#" among them
          Template,   \* what path() was called with
          Text,       \* what a variable may be written as
          Foreign     \* paths written by others than the client

Digits == {"0", "1", "2", "3", "4", "5", "6", "7", "8", "9"}
Hex    == Digits \union {"a", "b", "c", "d", "e", "f"}
Kinds  == {"literal", "segment", "int", "hex", "upToChars", "exactlyChars",
           "upToSegments", "exactlySegments", "restOfPath"}

Matcher == [kind : Kinds, text : Seq(Char), count : Nat \ {0}]

\* A bare template is its only matcher, not wrapped by join().
ASSUME PathsAssumption ==
    /\ "/" \in Char
    /\ Text \subseteq Seq(Char) /\ Foreign \subseteq Seq(Char)
    /\ \A t \in Template :
          t.pieces \in Seq(Matcher) /\ (t.bare => Len(t.pieces) = 1)

VARIABLES template, \* the template that writes, or reads, or both
          texts,    \* texts[i]: what the client writes for the i-th matcher
          from,     \* who wrote the path: "memory" and "node" are clients
          phase,    \* "expand", "consume", "matched" or "wrongRoute"
          level,    \* the matcher whose turn it is
          path,     \* expanded so far, then received
          at,       \* path[at] is the first character not consumed
          spans     \* spans[i] = <<p, j>>: the i-th matcher captured path[p..j-1]

vars == <<template, texts, from, phase, level, path, at, spans>>

Pieces == template.pieces

-----------------------------------------------------------------------------
SlashesOnly(s, a, b) == \A k \in a..(b - 1) : s[k] = "/"

\* stripSlashes: without its leading and its trailing slashes.
StripSlashes(s) ==
    IF SlashesOnly(s, 1, Len(s) + 1) THEN <<>>
    ELSE LET inked == {k \in DOMAIN s : s[k] # "/"}
             first == CHOOSE k \in inked : \A l \in inked : k <= l
             last  == CHOOSE k \in inked : \A l \in inked : l <= k
         IN  SubSeq(s, first, last)

\* Mutation of JoinPaths: the segments are glued together.
Glued(a, b) == a \o StripSlashes(b)

Joining(s) == IF s = <<"/">> THEN <<>> ELSE <<"/">> \o StripSlashes(s)

JoinPaths(a, b) == Joining(a) \o Joining(b)

\* Where s, read from a on, comes upon one of the characters in stop, or ends.
FirstOf(s, a, stop) ==
    LET ends == {k \in a..(Len(s) + 1) : k = Len(s) + 1 \/ s[k] \in stop}
    IN  CHOOSE k \in ends : \A l \in ends : k <= l

\* The path group of Uri.RFC_3986: not the authority, nor the query.
UriPath(url) ==
    LET start == IF Len(url) >= 2 /\ url[1] = "/" /\ url[2] = "/"
                 THEN FirstOf(url, 3, {"/", "?", "#"}) ELSE 1
    IN  SubSeq(url, start, FirstOf(url, start, {"?", "#"}) - 1)

\* In memory the request keeps its parsed uri; node writes path into the request
\* line and the server parses that.
Received(p) ==
    IF from = "memory" THEN p
    ELSE IF p # <<>> /\ p[1] = "/" THEN UriPath(p)
    ELSE UriPath(<<"/">> \o p)

-----------------------------------------------------------------------------
AtBoundary(s, j) == j = Len(s) + 1 \/ s[j] = "/"

SlashCount(s, p, j) == Cardinality({k \in p..(j - 1) : s[k] = "/"})

\* A consumer gives the index j - p for s read from p on, where no slash leads;
\* it gives -1 when there is no such j.
TakesLiteral(m, s, p, j) ==
    m.kind = "literal" /\ SubSeq(s, p, j - 1) = StripSlashes(m.text)

TakesSegment(m, s, p, j) ==
    /\ m.kind \in {"segment", "int", "hex"}
    /\ p <= Len(s) /\ SlashCount(s, p, j) = 0 /\ AtBoundary(s, j)

\* What the parser behind a segment accepts.
Parses(m, s, p, j) ==
    m.kind \in {"int", "hex"} => \A k \in p..(j - 1) : s[k] \in Digits

TakesChars(m, s, p, j) ==
    \/ m.kind = "exactlyChars" /\ j = p + m.count
    \/ m.kind = "upToChars" /\ j <= p + m.count /\ (j < p + m.count => j = Len(s) + 1)

TakesSegments(m, s, p, j) ==
    /\ m.kind \in {"exactlySegments", "upToSegments"} /\ AtBoundary(s, j)
    /\ \/ SlashCount(s, p, j) = m.count - 1
       \/ /\ m.kind = "upToSegments"
          /\ SlashCount(s, p, j) < m.count - 1 /\ j = Len(s) + 1

TakesRest(m, s, p, j) ==
    m.kind = "restOfPath" /\ p <= Len(s) /\ j = Len(s) + 1

Takes(m, s, p, j) ==
    \/ TakesLiteral(m, s, p, j)  \/ TakesSegment(m, s, p, j)
    \/ TakesChars(m, s, p, j)    \/ TakesSegments(m, s, p, j)
    \/ TakesRest(m, s, p, j)

\* Where consume() starts to capture: behind the leading slashes.
Leads(s, a, p) ==
    SlashesOnly(s, a, p) /\ (p <= Len(s) => s[p] # "/")

\* What the i-th matcher can capture of path from at on: at most one span.
Captures(m) ==
    {w \in (at..Len(path) + 1) \X (at..Len(path) + 1) :
        /\ w[1] <= w[2] /\ Leads(path, at, w[1])
        /\ Takes(m, path, w[1], w[2]) /\ Parses(m, path, w[1], w[2])}

-----------------------------------------------------------------------------
\* What unparse makes of a value: base 10 and base 16 numbers have no slashes.
Written(m) ==
    CASE m.kind = "literal" -> {m.text}
      [] m.kind = "int"     -> {t \in Text : t # <<>> /\ \A k \in DOMAIN t : t[k] \in Digits}
      [] m.kind = "hex"     -> {t \in Text : t # <<>> /\ \A k \in DOMAIN t : t[k] \in Hex}
      [] OTHER              -> Text

Init ==
    /\ template \in Template
    /\ level = 1 /\ at = 1 /\ spans = <<>>
    /\ \/ /\ from \in {"memory", "node"}
          /\ texts \in [DOMAIN Pieces -> Text \union {Pieces[i].text : i \in DOMAIN Pieces}]
          /\ \A i \in DOMAIN Pieces : texts[i] \in Written(Pieces[i])
          /\ phase = "expand" /\ path = <<>>
       \/ /\ from = "elsewhere"
          /\ texts = <<>>
          /\ phase = "consume" /\ path \in Foreign

\* Joined.expand: the paths of the levels below, joined with this matcher's.
Expand ==
    /\ phase = "expand" /\ level <= Len(Pieces)
    /\ path' = IF template.bare THEN texts[level] ELSE JoinPaths(path, texts[level])
    /\ level' = level + 1
    /\ UNCHANGED <<template, texts, from, phase, at, spans>>

Send ==
    /\ phase = "expand" /\ level > Len(Pieces)
    /\ path' = Received(path)
    /\ phase' = "consume" /\ level' = 1
    /\ UNCHANGED <<template, texts, from, at, spans>>

\* Mutation of Consume: what follows a capture is passed over unseen.
ConsumeAndSkip ==
    /\ phase = "consume" /\ level <= Len(Pieces)
    /\ \/ \E w \in Captures(Pieces[level]) :
             /\ at' = IF w[2] <= Len(path) THEN w[2] + 1 ELSE w[2]
             /\ spans' = Append(spans, w)
             /\ level' = level + 1
             /\ UNCHANGED phase
       \/ /\ Captures(Pieces[level]) = {}
          /\ phase' = "wrongRoute"
          /\ UNCHANGED <<at, spans, level>>
    /\ UNCHANGED <<template, texts, from, path>>

\* Mutation of Consume: the slash behind a capture is consumed with it, there or not.
ConsumeTooFar ==
    /\ phase = "consume" /\ level <= Len(Pieces)
    /\ \/ \E w \in Captures(Pieces[level]) :
             /\ at' = w[2] + 1
             /\ spans' = Append(spans, w)
             /\ level' = level + 1
             /\ UNCHANGED phase
       \/ /\ Captures(Pieces[level]) = {}
          /\ phase' = "wrongRoute"
          /\ UNCHANGED <<at, spans, level>>
    /\ UNCHANGED <<template, texts, from, path>>

\* Joined.consume: each matcher continues where the last one stopped; the first
\* failure is the template's.
Consume ==
    /\ phase = "consume" /\ level <= Len(Pieces)
    /\ \/ \E w \in Captures(Pieces[level]) :
             /\ at' = w[2]
             /\ spans' = Append(spans, w)
             /\ level' = level + 1
             /\ UNCHANGED phase
       \/ /\ Captures(Pieces[level]) = {}
          /\ phase' = "wrongRoute"
          /\ UNCHANGED <<at, spans, level>>
    /\ UNCHANGED <<template, texts, from, path>>

\* Mutation of Decide: PathLens does not ask whether the full path was consumed.
DecideLeniently ==
    /\ phase = "consume" /\ level > Len(Pieces)
    /\ phase' = "matched"
    /\ UNCHANGED <<template, texts, from, level, path, at, spans>>

\* PathLens.get: nothing but slashes may remain.
Decide ==
    /\ phase = "consume" /\ level > Len(Pieces)
    /\ phase' = IF SlashesOnly(path, at, Len(path) + 1) THEN "matched" ELSE "wrongRoute"
    /\ UNCHANGED <<template, texts, from, level, path, at, spans>>

Next == Expand \/ Send \/ Consume \/ Decide

Spec == Init /\ [][Next]_vars

-----------------------------------------------------------------------------
\* Every variable has its type; a matcher never stops beyond the end of the path,
\* which consume() would answer with an exception (consume.ts:31).
PathsTypeOK ==
    /\ template \in Template
    /\ from \in {"memory", "node", "elsewhere"}
    /\ phase \in {"expand", "consume", "matched", "wrongRoute"}
    /\ level \in 1..Len(Pieces) + 1
    /\ path \in Seq(Char)
    /\ at \in 1..Len(path) + 1
    /\ spans \in Seq((1..Len(path) + 1) \X (1..Len(path) + 1))

\* Whatever the template, the matchers read the path from left to right, each
\* from where the last one stopped, and pass over nothing but slashes
\* (consume.ts:20-37, Joined.ts:15-22).
OnlySlashesAreSkipped ==
    phase # "expand" =>
        /\ \A i \in DOMAIN spans :
              /\ spans[i][1] <= spans[i][2] /\ spans[i][2] <= at
              /\ \A k \in DOMAIN spans : k < i => spans[k][2] <= spans[i][1]
        /\ \A k \in 1..(at - 1) :
              \/ path[k] = "/"
              \/ \E i \in DOMAIN spans : k \in spans[i][1]..(spans[i][2] - 1)

Captured(i) == SubSeq(path, spans[i][1], spans[i][2] - 1)

\* What the client writes for the i-th matcher, as joinPaths leaves it.
Stripped(i) == StripSlashes(texts[i])

\* A text a matcher can tell from what follows it: no slash at its ends, as many
\* characters or segments as it takes, and short of that only at the end; and no
\* "?" or "#" that a server would read as the end of the path.
Plain(i) ==
    LET m == Pieces[i]
        t == texts[i]
        slashes == SlashCount(t, 1, Len(t) + 1)
        last == i = Len(Pieces)
    IN  /\ from = "node" => \A k \in DOMAIN t : t[k] \notin {"?", "#"}
        /\ \/ m.kind = "literal"
           \/ /\ t # <<>> /\ t = StripSlashes(t)
              /\ CASE m.kind = "segment"         -> slashes = 0
                   [] m.kind \in {"int", "hex"}  -> \A k \in DOMAIN t : t[k] \in Digits
                   [] m.kind = "exactlyChars"    -> Len(t) = m.count
                   [] m.kind = "upToChars"       -> Len(t) = m.count \/ (last /\ Len(t) < m.count)
                   [] m.kind = "exactlySegments" -> slashes + 1 = m.count
                   [] m.kind = "upToSegments"    -> slashes + 1 = m.count \/ (last /\ slashes + 1 < m.count)
                   [] m.kind = "restOfPath"      -> last

\* What joinPaths writes begins with two slashes while all that is joined to the
\* last text is blank, but for a lone "/".
SingleLead ==
    IF template.bare
    THEN ~(Len(texts[1]) >= 2 /\ texts[1][1] = "/" /\ texts[1][2] = "/")
    ELSE \/ \E i \in 1..(Len(Pieces) - 1) : Stripped(i) # <<>>
         \/ Len(Pieces) = 2 /\ texts[1] = <<"/">>

\* "By using the same lenses ... we ensure that the server and client always
\* understand one another" (lenses.ts:67-72): a path made of plain texts is never
\* refused, and reads as what was written.  But over a wire for a template that
\* expands to a path of two leading slashes, as one joined matcher does: the
\* server takes its first segment for an authority (Joined.ts:39, uri.ts:118); and
\* for a base 16 number with a letter, which is written but not read
\* (IntParser.ts:5).
ServerUnderstandsClient ==
    (from \in {"memory", "node"} /\ (from = "node" => SingleLead)
       /\ \A i \in DOMAIN Pieces : Plain(i)) =>
        /\ phase # "wrongRoute"
        /\ phase \in {"consume", "matched"} =>
              \A i \in DOMAIN spans : Captured(i) = Stripped(i)

\* Nothing is encoded, so a text may hold slashes: the server may refuse such a
\* call, but in memory, where every matcher is a literal, a segment or a number and no
\* text is blank, it never takes it for a call with other arguments (Literal.ts:29,
\* consume.ts:65, PathLens.ts:16).
MatchedMeansWhatWasWritten ==
    (/\ phase = "matched" /\ from = "memory"
     /\ \A i \in DOMAIN Pieces :
           /\ Pieces[i].kind \in {"literal", "segment", "int", "hex"}
           /\ Stripped(i) # <<>>) =>
        \A i \in DOMAIN Pieces : Captured(i) = Stripped(i)
=============================================================================
