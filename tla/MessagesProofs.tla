---------------------------- MODULE MessagesProofs ----------------------------
(***************************************************************************)
(* What holds of every message, whatever the templates, texts, names,      *)
(* values and chunks: the matchers stay inside the path they read, pass    *)
(* over nothing but slashes and give back what the client wrote; a header  *)
(* that is carried to the other side is found there; a body is read as it  *)
(* was written; a query says of other parameters what it said.  The paths  *)
(* come first, the bodies next, what a whole message takes from both, then *)
(* the headers and the query.                                              *)
(***************************************************************************)
EXTENDS Messages, Integers, WellFoundedInduction, SequenceTheorems,
        FiniteSetTheorems, FunctionTheorems, TLAPS

\* What the assumption says of the texts.
LEMMA Texts == "/" \in Char /\ Text \subseteq Seq(Char) /\ Foreign \subseteq Seq(Char)
BY PathsAssumption, Zenon

\* A nonempty set of naturals has a least member.
LEMMA Smallest ==
    ASSUME NEW S \in SUBSET Nat, S # {}
    PROVE  \E m \in S : \A k \in S : m <= k
<1>1. PICK m \in S : \A k \in S : ~ (<<k, m>> \in OpToRel(<, Nat))
  BY NatLessThanWellFounded, WFMin, Zenon
<1>2. \A k \in S : ~(k < m)
  <2> TAKE k \in S
  <2>1. ~ (<<k, m>> \in {ss \in Nat \X Nat : ss[1] < ss[2]})
    BY <1>1, Zenon DEF OpToRel
  <2>2. k \in Nat /\ m \in Nat
    OBVIOUS
  <2> QED BY <2>1, <2>2, SMT
<1>3. \A k \in S : k \in Nat
  OBVIOUS
<1> QED BY <1>2, <1>3

\* A set of naturals that holds 0 and the next one of each holds all.
LEMMA Induct ==
    ASSUME NEW S \in SUBSET Nat, 0 \in S, \A n \in S : n + 1 \in S
    PROVE  \A n \in Nat : n \in S
<1> SUFFICES ASSUME NEW n \in Nat, n \notin S PROVE FALSE
  OBVIOUS
<1> DEFINE T == {k \in Nat : k \notin S}
<1>1. PICK m \in T : \A k \in T : m <= k
  <2>1. T \in SUBSET Nat /\ T # {}
    OBVIOUS
  <2> HIDE DEF T
  <2> QED BY <2>1, Smallest
<1>2. m # 0 /\ m - 1 \in Nat
  OBVIOUS
<1>3. m - 1 \in S
  BY <1>1, <1>2
<1> QED BY <1>1, <1>2, <1>3

\* A nonempty set of naturals up to n has a greatest member.
LEMMA Greatest ==
    ASSUME NEW n \in Nat, NEW S \in SUBSET (0..n), S # {}
    PROVE  \E m \in S : \A k \in S : k <= m
<1> DEFINE T == {n - k : k \in S}
<1>1. T \in SUBSET Nat /\ T # {}
  <2>1. \A k \in S : n - k \in Nat
    OBVIOUS
  <2> QED BY <2>1
<1>2. PICK t \in T : \A u \in T : t <= u
  BY <1>1, Smallest
<1>3. PICK m \in S : t = n - m
  OBVIOUS
<1>4. ASSUME NEW k \in S PROVE k <= m
  <2>1. t <= n - k
    BY <1>2
  <2> QED BY <2>1, <1>3
<1> QED BY <1>4

\* A stretch of a text is a text.
LEMMA Stretch ==
    ASSUME NEW s \in Seq(Char), NEW a \in 1..(Len(s) + 1), NEW b \in 0..Len(s)
    PROVE  SubSeq(s, a, b) \in Seq(Char)
<1>1. \A i \in a..b : s[i] \in Char
  OBVIOUS
<1> QED BY <1>1, SubSeqProperties

\* stripSlashes makes a text of a text.
LEMMA StripSlashesType ==
    ASSUME NEW s \in Seq(Char)
    PROVE  StripSlashes(s) \in Seq(Char)
<1> DEFINE inked == {k \in DOMAIN s : s[k] # "/"}
           first == CHOOSE k \in inked : \A l \in inked : k <= l
           last  == CHOOSE k \in inked : \A l \in inked : l <= k
<1>1. CASE SlashesOnly(s, 1, Len(s) + 1)
  BY <1>1 DEF StripSlashes
<1>2. CASE ~SlashesOnly(s, 1, Len(s) + 1)
  <2>1. /\ inked # {} /\ inked \in SUBSET Nat /\ Len(s) \in Nat
        /\ inked \in SUBSET (0..Len(s)) /\ inked \in SUBSET (1..Len(s))
    BY <1>2 DEF SlashesOnly
  <2>2. first \in inked
    <3>1. \E k \in inked : \A l \in inked : k <= l
      <4> HIDE DEF inked
      <4> QED BY <2>1, Smallest
    <3> QED BY <3>1
  <2>3. last \in inked
    <3>1. \E k \in inked : \A l \in inked : l <= k
      <4> HIDE DEF inked
      <4> QED BY <2>1, Greatest
    <3> QED BY <3>1
  <2>4. SubSeq(s, first, last) \in Seq(Char)
    <3> HIDE DEF first, last, inked
    <3>1. first \in 1..(Len(s) + 1) /\ last \in 0..Len(s)
      BY <2>1, <2>2, <2>3
    <3> QED BY <3>1, Stretch
  <2> QED BY <2>4, <1>2 DEF StripSlashes
<1> QED BY <1>1, <1>2

\* joinPaths makes a text of two texts.
LEMMA JoinPathsType ==
    ASSUME NEW a \in Seq(Char), NEW b \in Seq(Char)
    PROVE  JoinPaths(a, b) \in Seq(Char)
<1>1. ASSUME NEW s \in Seq(Char) PROVE Joining(s) \in Seq(Char)
  BY StripSlashesType, Texts DEF Joining
<1> QED BY <1>1 DEF JoinPaths

\* The first of some characters is inside the text or right behind it.
LEMMA FirstOfType ==
    ASSUME NEW s \in Seq(Char), NEW a \in 1..(Len(s) + 1), NEW stop
    PROVE  FirstOf(s, a, stop) \in a..(Len(s) + 1)
<1> DEFINE ends == {k \in a..(Len(s) + 1) : k = Len(s) + 1 \/ s[k] \in stop}
<1>1. ends \in SUBSET Nat /\ Len(s) + 1 \in ends
  OBVIOUS
<1>2. \E k \in ends : \A l \in ends : k <= l
  <2> HIDE DEF ends
  <2> QED BY <1>1, Smallest
<1>3. (CHOOSE k \in ends : \A l \in ends : k <= l) \in ends
  BY <1>2
<1> QED BY <1>3 DEF FirstOf

\* The path group of a url is a text.
LEMMA UriPathType ==
    ASSUME NEW url \in Seq(Char)
    PROVE  UriPath(url) \in Seq(Char)
<1> DEFINE start == IF Len(url) >= 2 /\ url[1] = "/" /\ url[2] = "/"
                    THEN FirstOf(url, 3, {"/", "?", "#"}) ELSE 1
           end   == FirstOf(url, start, {"?", "#"})
<1>1. start \in 1..(Len(url) + 1)
  <2>1. Len(url) >= 2 => FirstOf(url, 3, {"/", "?", "#"}) \in 3..(Len(url) + 1)
    BY FirstOfType
  <2> QED BY <2>1
<1>2. end \in start..(Len(url) + 1)
  <2> HIDE DEF start
  <2> QED BY <1>1, FirstOfType
<1>3. SubSeq(url, start, end - 1) \in Seq(Char)
  <2> HIDE DEF start, end
  <2>1. end - 1 \in 0..Len(url)
    BY <1>1, <1>2
  <2> QED BY <1>1, <2>1, Stretch
<1> QED BY <1>3 DEF UriPath

-----------------------------------------------------------------------------
\* What the assumption says of the matchers of a template.
LEMMA TemplateType ==
    ASSUME template \in Template
    PROVE  Pieces \in Seq(Matcher) /\ (template.bare => Len(Pieces) = 1)
BY PathsAssumption, Zenon DEF Pieces

\* The inductive invariant: before a path is received nothing has been captured,
\* and what is being written is made of texts.
PInv ==
    /\ PathsTypeOK
    /\ phase = "expand" =>
          at = 1 /\ spans = <<>> /\ texts \in [DOMAIN Pieces -> Seq(Char)]
    /\ OnlySlashesAreSkipped

LEMMA InitPInv == Init => PInv
<1> SUFFICES ASSUME Init PROVE PInv
  OBVIOUS
<1>1. Pieces \in Seq(Matcher)
  BY TemplateType DEF Init
<1>2. path \in Seq(Char)
  <2>1. path = <<>> \/ path \in Foreign
    BY DEF Init
  <2>2. <<>> \in Seq(Char)
    OBVIOUS
  <2> QED BY <2>1, <2>2, Texts, Zenon
<1>3. phase = "expand" => texts \in [DOMAIN Pieces -> Seq(Char)]
  <2> SUFFICES ASSUME phase = "expand" PROVE texts \in [DOMAIN Pieces -> Seq(Char)]
    OBVIOUS
  <2>1. texts \in [DOMAIN Pieces -> Text \union {Pieces[i].text : i \in DOMAIN Pieces}]
    BY DEF Init
  <2>2. \A i \in DOMAIN Pieces : Pieces[i].text \in Seq(Char)
    <3> TAKE i \in DOMAIN Pieces
    <3>1. Pieces[i] \in Matcher
      BY <1>1
    <3> QED BY <3>1 DEF Matcher
  <2>3. Text \union {Pieces[i].text : i \in DOMAIN Pieces} \subseteq Seq(Char)
    BY <2>2, Texts
  <2> QED BY <2>1, <2>3
<1>4. PathsTypeOK
  BY <1>1, <1>2 DEF Init, PathsTypeOK
<1>5. OnlySlashesAreSkipped
  BY <1>2 DEF Init, OnlySlashesAreSkipped
<1> QED BY <1>3, <1>4, <1>5 DEF Init, PInv

\* Expanding a level keeps the invariant: a joined path is a text.
LEMMA ExpandPInv == PInv /\ Expand => PInv'
<1> SUFFICES ASSUME PInv, Expand PROVE PInv'
  OBVIOUS
<1> USE DEF PInv, PathsTypeOK, Expand
<1>1. Pieces \in Seq(Matcher) /\ Pieces' = Pieces
  BY TemplateType DEF Pieces
<1>2. texts[level] \in Seq(Char)
  BY <1>1
<1>3. path' \in Seq(Char)
  BY <1>2, JoinPathsType
<1>4. level' \in 1..Len(Pieces') + 1
  BY <1>1
<1>5. PathsTypeOK'
  BY <1>3, <1>4
<1> QED BY <1>1, <1>5 DEF OnlySlashesAreSkipped

\* What is received is a text, of which nothing is consumed yet.
LEMMA SendPInv == PInv /\ Send => PInv'
<1> SUFFICES ASSUME PInv, Send PROVE PInv'
  OBVIOUS
<1> USE DEF PInv, PathsTypeOK, Send
<1>1. Pieces \in Seq(Matcher) /\ Pieces' = Pieces
  BY TemplateType DEF Pieces
<1>2. path' \in Seq(Char)
  <2>1. path \in Seq(Char) /\ <<"/">> \o path \in Seq(Char)
    BY Texts
  <2> QED BY <2>1, UriPathType DEF Received
<1>3. PathsTypeOK'
  BY <1>1, <1>2
<1> QED BY <1>1, <1>2, <1>3 DEF OnlySlashesAreSkipped

\* A capture starts behind slashes and ends inside the path.
LEMMA ConsumePInv == PInv /\ Consume => PInv'
<1> SUFFICES ASSUME PInv, Consume PROVE PInv'
  OBVIOUS
<1> USE DEF PInv, PathsTypeOK, Consume
<1>1. Pieces \in Seq(Matcher) /\ Pieces' = Pieces
  BY TemplateType DEF Pieces
<1>2. CASE Captures(Pieces[level]) = {}
  BY <1>1, <1>2 DEF OnlySlashesAreSkipped
<1>3. ASSUME NEW w \in Captures(Pieces[level]),
             at' = w[2], spans' = Append(spans, w), level' = level + 1, phase' = phase
      PROVE  PInv'
  <2> DEFINE Span == (1..Len(path) + 1) \X (1..Len(path) + 1)
  <2>1. /\ w \in Span /\ at <= w[1] /\ w[1] <= w[2]
        /\ \A k \in at..(w[1] - 1) : path[k] = "/"
    BY <1>3 DEF Captures, Leads, SlashesOnly
  <2>2. spans \in Seq(Span) /\ spans' \in Seq(Span) /\ Len(spans') = Len(spans) + 1
    <3> HIDE DEF Span
    <3>1. spans \in Seq(Span)
      BY DEF Span
    <3> QED BY <1>3, <2>1, <3>1
  <2>3. /\ spans'[Len(spans) + 1] = w
        /\ \A i \in DOMAIN spans : spans'[i] = spans[i]
        /\ DOMAIN spans' = DOMAIN spans \union {Len(spans) + 1}
        /\ \A i \in DOMAIN spans : i \in 1..Len(spans)
    <3> HIDE DEF Span
    <3>1. spans \in Seq(Span) /\ w \in Span /\ spans' = Append(spans, w)
      BY <1>3, <2>1, <2>2
    <3>2. DOMAIN spans = 1..Len(spans) /\ DOMAIN spans' = 1..(Len(spans) + 1)
      BY <3>1, <2>2
    <3>3. \A i \in 1..Len(spans) : Append(spans, w)[i] = spans[i]
      BY <3>1
    <3>4. Append(spans, w)[Len(spans) + 1] = w
      BY <3>1
    <3>5. Len(spans) \in Nat
      BY <3>1
    <3>6. 1..(Len(spans) + 1) = 1..Len(spans) \union {Len(spans) + 1}
      BY <3>5
    <3>7. DOMAIN spans' = DOMAIN spans \union {Len(spans) + 1}
      BY <3>2, <3>6, Zenon
    <3>8. \A i \in DOMAIN spans : spans'[i] = spans[i]
      BY <3>1, <3>2, <3>3, Zenon
    <3> QED BY <3>1, <3>2, <3>4, <3>7, <3>8, Zenon
  <2>4. PathsTypeOK'
    <3>1. spans' \in Seq((1..Len(path') + 1) \X (1..Len(path') + 1))
      BY <2>2
    <3> HIDE DEF Span
    <3> QED BY <1>1, <1>3, <2>1, <3>1
  <2>5. \A i \in DOMAIN spans' :
           /\ spans'[i][1] <= spans'[i][2] /\ spans'[i][2] <= at'
           /\ \A k \in DOMAIN spans' : k < i => spans'[k][2] <= spans'[i][1]
    <3> TAKE i \in DOMAIN spans'
    <3>0. \A n \in DOMAIN spans : spans[n] \in Span
      BY <2>2
    <3>1. CASE i \in DOMAIN spans
      <4>1. spans'[i] = spans[i] /\ i < Len(spans) + 1
        BY <3>1, <2>2, <2>3
      <4>2. spans[i][1] <= spans[i][2] /\ spans[i][2] <= at
        BY <3>1 DEF OnlySlashesAreSkipped
      <4>3. \A k \in DOMAIN spans : k < i => spans[k][2] <= spans[i][1]
        BY <3>1 DEF OnlySlashesAreSkipped
      <4>4. at' = w[2] /\ spans[i][2] <= w[2]
        BY <4>2, <1>3, <2>1, <3>0, <3>1
      <4> QED BY <4>1, <4>2, <4>3, <4>4, <2>3, SMTT(30)
    <3>2. CASE i = Len(spans) + 1
      <4>1. \A k \in DOMAIN spans : spans[k][2] <= at /\ spans[k][2] \in Nat
        BY <3>0 DEF OnlySlashesAreSkipped
      <4>2. \A k \in DOMAIN spans : spans[k][2] <= w[1]
        <5> TAKE k \in DOMAIN spans
        <5>1. spans[k][2] <= at /\ spans[k][2] \in Nat
          BY <4>1, Zenon
        <5> DEFINE m == spans[k][2]
        <5> HIDE DEF m
        <5>2. m <= w[1]
          BY <5>1, <2>1, SMTT(30) DEF m
        <5> QED BY <5>2 DEF m
      <4> QED BY <3>2, <4>2, <1>3, <2>1, <2>3
    <3> QED BY <3>1, <3>2, <2>3
  <2>6. \A k \in 1..(at' - 1) :
           \/ path'[k] = "/"
           \/ \E i \in DOMAIN spans' : k \in spans'[i][1]..(spans'[i][2] - 1)
    <3> TAKE k \in 1..(at' - 1)
    <3>1. CASE k < at
      BY <3>1, <2>3 DEF OnlySlashesAreSkipped
    <3>2. CASE k >= at /\ k < w[1]
      BY <3>2, <2>1
    <3>3. CASE k >= w[1]
      BY <3>3, <1>3, <2>1, <2>3
    <3> QED BY <3>1, <3>2, <3>3, <2>1
  <2> QED BY <1>3, <2>4, <2>5, <2>6 DEF OnlySlashesAreSkipped
<1> QED BY <1>2, <1>3

\* Deciding changes nothing but the phase.
LEMMA DecidePInv == PInv /\ Decide => PInv'
BY DEF PInv, PathsTypeOK, Decide, Pieces, OnlySlashesAreSkipped

LEMMA StutterPInv == PInv /\ UNCHANGED vars => PInv'
BY DEF PInv, PathsTypeOK, vars, Pieces, OnlySlashesAreSkipped

\* The invariant holds of every behaviour of the specification.
THEOREM PathsInductive == Spec => []PInv
<1>1. PInv /\ [Next]_vars => PInv'
  BY ExpandPInv, SendPInv, ConsumePInv, DecidePInv, StutterPInv DEF Next
<1> QED BY InitPInv, <1>1, PTL DEF Spec

\* No matcher reads beyond the end of a path (consume.ts:31), whatever was joined,
\* sent or received.
THEOREM PathsTypeCorrect == Spec => []PathsTypeOK
<1>1. PInv => PathsTypeOK
  BY DEF PInv
<1> QED BY PathsInductive, <1>1, PTL

\* Nothing but slashes is passed over between captures, whatever the template
\* (consume.ts:20-37, Joined.ts:15-22).
THEOREM PathsReadWhole == Spec => []OnlySlashesAreSkipped
<1>1. PInv => OnlySlashesAreSkipped
  BY DEF PInv
<1> QED BY PathsInductive, <1>1, PTL

-----------------------------------------------------------------------------
\* f[i] is the first i sequences, joined.
Joins(f, seqs, n) ==
    f = [i \in 1..n |-> IF i = 1 THEN seqs[i] ELSE f[i - 1] \o seqs[i]]

\* The function by which FlattenSeq is defined exists.
LEMMA JoinsExists ==
    ASSUME NEW seqs
    PROVE  \A n \in Nat : \E f : Joins(f, seqs, n)
<1> DEFINE S == {n \in Nat : \E f : Joins(f, seqs, n)}
<1>1. 0 \in S
  <2> DEFINE e == [i \in {} |-> i]
  <2>1. e = [i \in 1..0 |-> IF i = 1 THEN seqs[i] ELSE e[i - 1] \o seqs[i]]
    OBVIOUS
  <2> QED BY <2>1 DEF Joins
<1>2. ASSUME NEW n \in S PROVE n + 1 \in S
  <2>0. n \in Nat
    OBVIOUS
  <2>1. PICK f : f = [i \in 1..n |-> IF i = 1 THEN seqs[i] ELSE f[i - 1] \o seqs[i]]
    BY DEF Joins
  <2> DEFINE g == [i \in 1..(n + 1) |-> IF i = 1 THEN seqs[i] ELSE f[i - 1] \o seqs[i]]
  <2>2. \A i \in 1..n : g[i] = f[i]
    <3> TAKE i \in 1..n
    <3>1. i \in 1..(n + 1)
      BY <2>0
    <3>2. f[i] = IF i = 1 THEN seqs[i] ELSE f[i - 1] \o seqs[i]
      BY <2>1
    <3> QED BY <3>1, <3>2
  <2>3. ASSUME NEW i \in 1..(n + 1) PROVE g[i] = IF i = 1 THEN seqs[i] ELSE g[i - 1] \o seqs[i]
    <3>1. i # 1 => g[i - 1] = f[i - 1]
      <4>1. i # 1 => i - 1 \in 1..n
        BY <2>0
      <4> HIDE DEF g
      <4> QED BY <4>1, <2>2
    <3> QED BY <3>1
  <2>4. Joins(g, seqs, n + 1)
    <3>1. g = [i \in 1..(n + 1) |-> g[i]]
      OBVIOUS
    <3> HIDE DEF g
    <3> QED BY <2>3, <3>1 DEF Joins
  <2> HIDE DEF g
  <2> QED BY <2>0, <2>4
<1>3. \A n \in Nat : n \in S
  <2>1. S \in SUBSET Nat
    OBVIOUS
  <2> HIDE DEF S
  <2> QED BY <1>1, <1>2, <2>1, Induct
<1> QED BY <1>3

\* It begins with the first and goes on with the next.
JoinsOn(f, seqs, n) ==
    /\ n > 0 => f[1] = seqs[1]
    /\ \A i, k \in 1..n : k = i + 1 => f[k] = f[i] \o seqs[k]

LEMMA JoinsStep ==
    ASSUME NEW seqs, NEW n \in Nat, NEW f, Joins(f, seqs, n)
    PROVE  JoinsOn(f, seqs, n)
<1> DEFINE F(g, i) == IF i = 1 THEN seqs[i] ELSE g[i - 1] \o seqs[i]
<1>1. f = [i \in 1..n |-> F(f, i)]
  BY Zenon DEF Joins
<1>2. \A i \in 1..n : f[i] = F(f, i)
  <2> HIDE DEF F
  <2> QED BY <1>1
<1>3. n > 0 => f[1] = seqs[1]
  BY <1>2
<1>4. ASSUME NEW i \in 1..n, NEW k \in 1..n, k = i + 1 PROVE f[k] = f[i] \o seqs[k]
  <2>1. k # 1 /\ k - 1 = i
    BY <1>4
  <2> QED BY <1>2, <2>1, Zenon
<1> QED BY <1>3, <1>4, Zenon DEF JoinsOn

\* FlattenSeq joins the sequences one by one.
LEMMA FlattenIs ==
    ASSUME NEW seqs, Len(seqs) \in Nat \ {0}
    PROVE  \E f : Joins(f, seqs, Len(seqs)) /\ FlattenSeq(seqs) = f[Len(seqs)]
<1> DEFINE flatten[i \in 1..Len(seqs)] ==
              IF i = 1 THEN seqs[i] ELSE flatten[i - 1] \o seqs[i]
<1>1. Len(seqs) \in Nat /\ Len(seqs) # 0
  OBVIOUS
<1>2. \E f : f = [i \in 1..Len(seqs) |-> IF i = 1 THEN seqs[i] ELSE f[i - 1] \o seqs[i]]
  BY <1>1, JoinsExists, Zenon DEF Joins
<1>3. flatten = [i \in 1..Len(seqs) |-> IF i = 1 THEN seqs[i] ELSE flatten[i - 1] \o seqs[i]]
  BY <1>2, Zenon
<1>4. FlattenSeq(seqs) = flatten[Len(seqs)]
  BY <1>1, Zenon DEF FlattenSeq
<1> HIDE DEF flatten
<1> QED BY <1>3, <1>4, Zenon DEF Joins

\* One sequence is itself, and two are joined.
LEMMA FlattenFew ==
    ASSUME NEW seqs
    PROVE  /\ Len(seqs) = 0 => FlattenSeq(seqs) = seqs
           /\ Len(seqs) = 1 => FlattenSeq(seqs) = seqs[1]
           /\ Len(seqs) = 2 => FlattenSeq(seqs) = seqs[1] \o seqs[2]
<1>1. ASSUME Len(seqs) = 1 \/ Len(seqs) = 2
      PROVE  \E f : Joins(f, seqs, Len(seqs)) /\ FlattenSeq(seqs) = f[Len(seqs)]
  <2>1. Len(seqs) \in Nat \ {0}
    BY <1>1
  <2> QED BY <2>1, FlattenIs, Zenon
<1>2. Len(seqs) = 0 => FlattenSeq(seqs) = seqs
  BY Zenon DEF FlattenSeq
<1>3. ASSUME Len(seqs) = 1 PROVE FlattenSeq(seqs) = seqs[1]
  <2>1. PICK f : Joins(f, seqs, 1) /\ FlattenSeq(seqs) = f[1]
    BY <1>1, <1>3
  <2>2. 1 \in Nat /\ 1 > 0
    OBVIOUS
  <2>3. JoinsOn(f, seqs, 1)
    BY <2>1, <2>2, JoinsStep, Zenon
  <2> QED BY <2>1, <2>2, <2>3, Zenon DEF JoinsOn
<1>4. ASSUME Len(seqs) = 2 PROVE FlattenSeq(seqs) = seqs[1] \o seqs[2]
  <2>1. PICK f : Joins(f, seqs, Len(seqs)) /\ FlattenSeq(seqs) = f[Len(seqs)]
    BY <1>1, <1>4
  <2> DEFINE R(i, k) == f[k] = f[i] \o seqs[k]
  <2>2. Len(seqs) \in Nat /\ Len(seqs) > 0
    BY <1>4
  <2>3. f[1] = seqs[1] /\ \A i, k \in 1..Len(seqs) : k = i + 1 => R(i, k)
    <3>1. JoinsOn(f, seqs, Len(seqs))
      BY <2>1, <2>2, JoinsStep, Zenon
    <3> QED BY <2>2, <3>1, Zenon DEF JoinsOn
  <2>4. R(1, 2) /\ FlattenSeq(seqs) = f[2]
    <3> HIDE DEF R
    <3> QED BY <1>4, <2>1, <2>3
  <2> QED BY <2>1, <2>3, <2>4, Zenon
<1> QED BY <1>2, <1>3, <1>4

\* Joining sequences gives a sequence of the same elements.
LEMMA FlattenType ==
    ASSUME NEW T, NEW seqs \in Seq(Seq(T))
    PROVE  FlattenSeq(seqs) \in Seq(T)
<1>1. CASE Len(seqs) = 0
  <2>1. seqs = <<>> /\ <<>> \in Seq(T)
    BY <1>1
  <2> QED BY <1>1, <2>1, FlattenFew, Zenon
<1>2. CASE Len(seqs) # 0
  <2>1. Len(seqs) \in Nat \ {0} /\ \A i \in 1..Len(seqs) : seqs[i] \in Seq(T)
    BY <1>2
  <2>2. PICK f : Joins(f, seqs, Len(seqs)) /\ FlattenSeq(seqs) = f[Len(seqs)]
    BY <2>1, FlattenIs, Zenon
  <2>3. f[1] = seqs[1] /\ \A i, k \in 1..Len(seqs) : k = i + 1 => f[k] = f[i] \o seqs[k]
    <3>1. Len(seqs) \in Nat /\ Len(seqs) > 0
      BY <2>1
    <3>2. JoinsOn(f, seqs, Len(seqs))
      BY <2>2, <3>1, JoinsStep, Zenon
    <3> QED BY <3>1, <3>2, Zenon DEF JoinsOn
  <2> DEFINE S == {n \in Nat : n \in 1..Len(seqs) => f[n] \in Seq(T)}
  <2>4. ASSUME NEW n \in S PROVE n + 1 \in S
    <3>1. CASE n + 1 \in 1..Len(seqs) /\ n # 0
      <4>1. n \in 1..Len(seqs)
        BY <2>1, <3>1
      <4>2. f[n] \in Seq(T) /\ seqs[n + 1] \in Seq(T)
        BY <2>1, <3>1, <4>1
      <4>3. f[n] \o seqs[n + 1] \in Seq(T)
        BY <4>2
      <4>4. f[n + 1] \in Seq(T)
        BY <2>3, <3>1, <4>1, <4>3, Zenon
      <4> QED BY <4>4
    <3>2. CASE n = 0
      BY <3>2, <2>1, <2>3
    <3> QED BY <3>1, <3>2
  <2>5. \A n \in Nat : n \in S
    <3>1. S \in SUBSET Nat /\ 0 \in S
      OBVIOUS
    <3> HIDE DEF S
    <3> QED BY <2>4, <3>1, Induct
  <2> QED BY <2>1, <2>2, <2>5
<1> QED BY <1>1, <1>2

-----------------------------------------------------------------------------
\* What bodies are made of.
Chunk    == [binary : BOOLEAN, bytes : Seq(Byte), view : BOOLEAN]
BodyType == [kind : Kind, chunks : Seq(Chunk), used : BOOLEAN]

\* A function on the numbers up to n is a sequence.
LEMMA FunctionIsSeq ==
    ASSUME NEW T, NEW n \in Nat, NEW f \in [1..n -> T]
    PROVE  f \in Seq(T) /\ Len(f) = n /\ DOMAIN f = 1..n
<1>1. f \in Seq(T)
  BY SeqDef, Zenon
<1>2. DOMAIN f = 1..n
  OBVIOUS
<1>3. DOMAIN f = 1..Len(f) /\ Len(f) \in Nat
  BY <1>1
<1> QED BY <1>1, <1>2, <1>3

LEMMA ChunkTypes ==
    ASSUME NEW bytes \in Seq(Byte), NEW view \in BOOLEAN
    PROVE  /\ TextChunk(bytes) \in Chunk /\ TextChunk(bytes).bytes = bytes
           /\ BinaryChunk(bytes, view) \in Chunk /\ BinaryChunk(bytes, view).bytes = bytes
BY DEF Chunk, TextChunk, BinaryChunk

\* Encoding a chunk keeps its bytes, and so does decoding one of whole characters.
LEMMA Conversions ==
    ASSUME NEW c \in Chunk
    PROVE  /\ AsBinary(c) \in Chunk /\ AsBinary(c).bytes = c.bytes
           /\ AsBinary(c).view => c.view
           /\ AsString(c) \in Chunk
           /\ ~(c.binary /\ Halves(c.bytes) # {}) => AsString(c).bytes = c.bytes
<1>1. /\ AsBinary(c) \in Chunk /\ AsBinary(c).bytes = c.bytes
      /\ AsBinary(c).view => c.view
  BY DEF AsBinary, BinaryChunk, Chunk
<1>2. c.bytes \in Seq(Byte) /\ c.binary \in BOOLEAN
  BY DEF Chunk
<1>3. Decoded(c.bytes) \in Seq(Byte)
  <2>1. \A i \in DOMAIN c.bytes : (IF i \in Halves(c.bytes) THEN Replacement ELSE c.bytes[i]) \in Byte
    <3>1. Replacement \in Byte
      BY BodyAssumption, Zenon
    <3>2. \A i \in DOMAIN c.bytes : c.bytes[i] \in Byte
      BY <1>2
    <3> QED BY <3>1, <3>2, Zenon
  <2>2. DOMAIN c.bytes = 1..Len(c.bytes) /\ Len(c.bytes) \in Nat
    BY <1>2
  <2> DEFINE d(i) == IF i \in Halves(c.bytes) THEN Replacement ELSE c.bytes[i]
  <2>3. [i \in 1..Len(c.bytes) |-> d(i)] \in Seq(Byte)
    <3>1. \A i \in 1..Len(c.bytes) : d(i) \in Byte
      BY <2>1, <2>2, Zenon
    <3>2. [i \in 1..Len(c.bytes) |-> d(i)] \in [1..Len(c.bytes) -> Byte]
      BY <3>1, Zenon
    <3> HIDE DEF d
    <3> QED BY <2>2, <3>2, FunctionIsSeq, Zenon
  <2> QED BY <2>2, <2>3, Zenon DEF Decoded
<1>4. AsString(c) \in Chunk
  BY <1>3 DEF AsString, TextChunk, Chunk
<1>5. ASSUME Halves(c.bytes) = {} PROVE Decoded(c.bytes) = c.bytes
  BY <1>2, <1>5 DEF Decoded
<1>6. ~(c.binary /\ Halves(c.bytes) # {}) => AsString(c).bytes = c.bytes
  BY <1>2, <1>5 DEF AsString, TextChunk
<1> QED BY <1>1, <1>4, <1>6

\* What chunks say is a text, and is the same for chunks of the same bytes.
LEMMA BytesType ==
    ASSUME NEW cs \in Seq(Chunk)
    PROVE  Bytes(cs) \in Seq(Byte)
<1>1. [i \in DOMAIN cs |-> cs[i].bytes] \in Seq(Seq(Byte))
  <2>1. \A i \in 1..Len(cs) : cs[i].bytes \in Seq(Byte)
    <3>1. \A i \in 1..Len(cs) : cs[i] \in Chunk
      OBVIOUS
    <3>2. \A c \in Chunk : c.bytes \in Seq(Byte)
      BY DEF Chunk
    <3> QED BY <3>1, <3>2
  <2>2. Len(cs) \in Nat /\ DOMAIN cs = 1..Len(cs)
    OBVIOUS
  <2> DEFINE d(i) == cs[i].bytes
  <2>3. [i \in 1..Len(cs) |-> d(i)] \in Seq(Seq(Byte))
    <3>1. [i \in 1..Len(cs) |-> d(i)] \in [1..Len(cs) -> Seq(Byte)]
      BY <2>1
    <3> QED BY <2>2, <3>1, FunctionIsSeq, ZenonT(40)
  <2> QED BY <2>2, <2>3, Zenon
<1> QED BY <1>1, FlattenType, Zenon DEF Bytes

LEMMA SameBytes ==
    ASSUME NEW cs, NEW ds, DOMAIN ds = DOMAIN cs, \A i \in DOMAIN cs : ds[i].bytes = cs[i].bytes
    PROVE  Bytes(ds) = Bytes(cs)
<1>1. [i \in DOMAIN ds |-> ds[i].bytes] = [i \in DOMAIN cs |-> cs[i].bytes]
  OBVIOUS
<1> QED BY <1>1, Zenon DEF Bytes

\* A single chunk says its bytes, and no chunk says nothing.
LEMMA FewBytes ==
    /\ Bytes(<<>>) = <<>>
    /\ \A c : Bytes(<<c>>) = c.bytes
<1>1. Bytes(<<>>) = <<>>
  <2>1. [i \in DOMAIN <<>> |-> <<>>[i].bytes] = <<>> /\ Len(<<>>) = 0
    OBVIOUS
  <2> QED BY <2>1, FlattenFew, Zenon DEF Bytes
<1>2. ASSUME NEW c PROVE Bytes(<<c>>) = c.bytes
  <2> DEFINE s == [i \in DOMAIN <<c>> |-> <<c>>[i].bytes]
  <2>1. Len(s) = 1 /\ s[1] = c.bytes
    OBVIOUS
  <2>2. FlattenSeq(s) = s[1]
    <3> HIDE DEF s
    <3> QED BY <2>1, FlattenFew, Zenon
  <2> QED BY <2>1, <2>2, Zenon DEF Bytes
<1> QED BY <1>1, <1>2, Zenon

\* Cutting bytes into chunks leaves what they say.
LEMMA CutsSay ==
    ASSUME NEW bytes \in Seq(Byte), NEW cut \in Cuts(bytes)
    PROVE  cut \in Seq(Seq(Byte)) /\ FlattenSeq(cut) = bytes
<1>1. CASE bytes = <<>>
  <2>1. cut = <<>> /\ Len(cut) = 0 /\ cut \in Seq(Seq(Byte))
    BY <1>1 DEF Cuts
  <2> QED BY <1>1, <2>1, FlattenFew, Zenon
<1>2. CASE cut = <<bytes>>
  <2>1. Len(cut) = 1 /\ cut[1] = bytes /\ cut \in Seq(Seq(Byte))
    BY <1>2
  <2> QED BY <2>1, FlattenFew, Zenon
<1>3. ASSUME NEW k \in 1..(Len(bytes) - 1),
             cut = <<SubSeq(bytes, 1, k), SubSeq(bytes, k + 1, Len(bytes))>>
      PROVE  cut \in Seq(Seq(Byte)) /\ FlattenSeq(cut) = bytes
  <2>1. SubSeq(bytes, 1, k) \in Seq(Byte) /\ SubSeq(bytes, k + 1, Len(bytes)) \in Seq(Byte)
    <3>1. \A i \in 1..Len(bytes) : bytes[i] \in Byte
      OBVIOUS
    <3> QED BY <1>3, <3>1, SubSeqProperties
  <2>2. SubSeq(bytes, 1, k) \o SubSeq(bytes, k + 1, Len(bytes)) = bytes
    <3>1. SubSeq(bytes, 1, Len(bytes)) = bytes
      BY SubSeqFull
    <3> QED BY <1>3, <3>1, ConcatAdjacentSubSeq
  <2>3. /\ Len(cut) = 2 /\ cut \in Seq(Seq(Byte))
        /\ cut[1] = SubSeq(bytes, 1, k) /\ cut[2] = SubSeq(bytes, k + 1, Len(bytes))
    BY <1>3, <2>1
  <2>4. FlattenSeq(cut) = cut[1] \o cut[2]
    BY <2>3, FlattenFew, Zenon
  <2> QED BY <2>2, <2>3, <2>4, Zenon
<1> QED BY <1>1, <1>2, <1>3 DEF Cuts

\* What is iterated is chunks.
LEMMA YieldsType ==
    ASSUME NEW b \in BodyType
    PROVE  Yields(b) \in Seq(Chunk)
<1>1. Promised \in Seq(Byte)
  BY BodyAssumption, Zenon
<1>2. <<TextChunk(Promised)>> \in Seq(Chunk) /\ <<>> \in Seq(Chunk)
  <2>1. TextChunk(Promised) \in Chunk
    BY <1>1, ChunkTypes
  <2> QED BY <2>1
<1>3. b.chunks \in Seq(Chunk)
  BY DEF BodyType
<1>4. CASE b.kind = "parsed"
  BY <1>2, <1>4, Zenon DEF Yields
<1>5. CASE b.kind # "parsed" /\ b.used
  BY <1>2, <1>5 DEF Yields
<1>6. CASE b.kind # "parsed" /\ ~b.used
  BY <1>3, <1>6 DEF Yields
<1> QED BY <1>4, <1>5, <1>6

\* An unread body that parseJson has not made yields what it holds.
LEMMA YieldsAll ==
    ASSUME NEW b \in BodyType, ~b.used, b.kind # "parsed"
    PROVE  Yields(b) = b.chunks /\ Outcome(b) = "ok"
BY DEF Yields, Outcome

\* Decoding chunk by chunk gives a text, and the one that is said if no
\* character is cut in two.
LEMMA TextRead ==
    ASSUME NEW b \in BodyType
    PROVE  /\ MapChunks(AsString, Yields(b)) \in Seq(Chunk)
           /\ BufferText(b) \in Seq(Byte)
           /\ ~b.used /\ b.kind # "parsed" /\ ~SplitsCharacter(b) =>
                 /\ BufferText(b) = Says(b)
                 /\ Bytes(MapChunks(AsString, Yields(b))) = Says(b)
<1> DEFINE ys == Yields(b)
           ts == MapChunks(AsString, Yields(b))
<1>1. ys \in Seq(Chunk)
  BY YieldsType
<1>2. ts = [i \in DOMAIN ys |-> AsString(ys[i])]
  BY Zenon DEF MapChunks
<1>3. \A i \in DOMAIN ys : ys[i] \in Chunk
  <2> HIDE DEF ys
  <2> QED BY <1>1
<1>4. ts \in Seq(Chunk) /\ DOMAIN ts = DOMAIN ys
  <2> HIDE DEF ys
  <2>1. DOMAIN ys = 1..Len(ys) /\ Len(ys) \in Nat
    BY <1>1
  <2>2. ts \in [1..Len(ys) -> Chunk]
    BY <1>2, <1>3, <2>1, Conversions
  <2> QED BY <2>1, <2>2, FunctionIsSeq, Zenon
<1>5. ASSUME ~b.used, b.kind # "parsed", ~SplitsCharacter(b)
      PROVE  Bytes(ts) = Says(b)
  <2>1. ys = b.chunks
    BY <1>5, YieldsAll
  <2>2. \A i \in DOMAIN b.chunks : ts[i].bytes = b.chunks[i].bytes
    <3> TAKE i \in DOMAIN b.chunks
    <3>1. ts[i] = AsString(b.chunks[i]) /\ b.chunks[i] \in Chunk
      BY <1>2, <1>3, <2>1, Zenon
    <3>2. ~(b.chunks[i].binary /\ Halves(b.chunks[i].bytes) # {})
      BY <1>5 DEF SplitsCharacter
    <3> QED BY <3>1, <3>2, Conversions, Zenon
  <2>3. DOMAIN ts = DOMAIN b.chunks
    BY <1>4, <2>1
  <2> HIDE DEF ts
  <2> QED BY <2>2, <2>3, SameBytes, Zenon DEF Says
<1>6. Bytes(ts) \in Seq(Byte)
  BY <1>4, BytesType
<1> QED BY <1>4, <1>5, <1>6 DEF BufferText

\* Encoding chunk by chunk keeps what is said.
LEMMA BinaryRead ==
    ASSUME NEW b \in BodyType
    PROVE  /\ MapChunks(AsBinary, Yields(b)) \in Seq(Chunk)
           /\ Bytes(MapChunks(AsBinary, Yields(b))) = Bytes(Yields(b))
           /\ DOMAIN MapChunks(AsBinary, Yields(b)) = DOMAIN Yields(b)
           /\ \A i \in DOMAIN Yields(b) :
                 MapChunks(AsBinary, Yields(b))[i].view => Yields(b)[i].view
<1> DEFINE ys == Yields(b)
           bs == MapChunks(AsBinary, Yields(b))
<1>1. ys \in Seq(Chunk)
  BY YieldsType
<1>2. bs = [i \in DOMAIN ys |-> AsBinary(ys[i])]
  BY Zenon DEF MapChunks
<1>3. \A i \in DOMAIN ys : ys[i] \in Chunk
  <2> HIDE DEF ys
  <2> QED BY <1>1
<1>4. bs \in Seq(Chunk) /\ DOMAIN bs = DOMAIN ys
  <2> HIDE DEF ys
  <2>1. DOMAIN ys = 1..Len(ys) /\ Len(ys) \in Nat
    BY <1>1
  <2>2. bs \in [1..Len(ys) -> Chunk]
    BY <1>2, <1>3, <2>1, Conversions
  <2> QED BY <2>1, <2>2, FunctionIsSeq, Zenon
<1>5. \A i \in DOMAIN ys : bs[i].bytes = ys[i].bytes /\ (bs[i].view => ys[i].view)
  <2> TAKE i \in DOMAIN ys
  <2>1. bs[i] = AsBinary(ys[i]) /\ ys[i] \in Chunk
    BY <1>2, <1>3, Zenon
  <2> QED BY <2>1, Conversions, Zenon
<1>6. Bytes(bs) = Bytes(ys)
  <2> HIDE DEF bs, ys
  <2> QED BY <1>4, <1>5, SameBytes, Zenon
<1> QED BY <1>4, <1>5, <1>6

\* The function that reduces chunks to one exists.
Merges(f, cs, n) ==
    f = [i \in 0..n |-> IF i = 0 THEN BinaryChunk(<<>>, FALSE) ELSE Merge(f[i - 1], cs[i])]

LEMMA MergesExists ==
    ASSUME NEW cs
    PROVE  \A n \in Nat : \E f : Merges(f, cs, n)
<1> DEFINE S == {n \in Nat : \E f : Merges(f, cs, n)}
           F(g, i) == IF i = 0 THEN BinaryChunk(<<>>, FALSE) ELSE Merge(g[i - 1], cs[i])
<1>1. 0 \in S
  <2> DEFINE e == [i \in 0..0 |-> BinaryChunk(<<>>, FALSE)]
  <2>1. \A i \in 0..0 : F(e, i) = BinaryChunk(<<>>, FALSE)
    OBVIOUS
  <2>2. e = [i \in 0..0 |-> F(e, i)]
    <3> HIDE DEF F
    <3> QED BY <2>1
  <2>3. Merges(e, cs, 0)
    BY <2>2, Zenon DEF Merges
  <2> HIDE DEF e
  <2> QED BY <2>3
<1>2. ASSUME NEW n \in S PROVE n + 1 \in S
  <2>0. n \in Nat
    OBVIOUS
  <2>1. PICK f : f = [i \in 0..n |-> F(f, i)]
    BY Zenon DEF Merges
  <2> DEFINE g == [i \in 0..(n + 1) |-> F(f, i)]
  <2>2. \A i \in 0..n : g[i] = f[i]
    <3> HIDE DEF F
    <3> TAKE i \in 0..n
    <3>1. i \in 0..(n + 1)
      BY <2>0
    <3>2. f[i] = F(f, i)
      BY <2>1
    <3> QED BY <3>1, <3>2
  <2>3. ASSUME NEW i \in 0..(n + 1) PROVE F(f, i) = F(g, i)
    <3>1. i # 0 => g[i - 1] = f[i - 1]
      <4>1. i # 0 => i - 1 \in 0..n
        BY <2>0
      <4> HIDE DEF g
      <4> QED BY <4>1, <2>2
    <3> HIDE DEF g
    <3> QED BY <3>1, Zenon
  <2>4. g = [i \in 0..(n + 1) |-> F(g, i)]
    <3> HIDE DEF F
    <3> QED BY <2>3
  <2>5. Merges(g, cs, n + 1)
    BY <2>4, Zenon DEF Merges
  <2> HIDE DEF g
  <2> QED BY <2>0, <2>5
<1>3. \A n \in Nat : n \in S
  <2>1. S \in SUBSET Nat
    OBVIOUS
  <2> HIDE DEF S
  <2> QED BY <1>1, <1>2, <2>1, Induct
<1> QED BY <1>3

\* Merging two chunks joins their bytes, whatever is empty.
LEMMA MergeJoins ==
    ASSUME NEW a \in Chunk, NEW b \in Chunk
    PROVE  Merge(a, b) \in Chunk /\ Merge(a, b).bytes = a.bytes \o b.bytes
<1>0. a.bytes \in Seq(Byte) /\ b.bytes \in Seq(Byte)
  BY DEF Chunk
<1>1. CASE a.bytes = <<>>
  <2>1. Merge(a, b) = b
    BY <1>1 DEF Merge
  <2>2. a.bytes \o b.bytes = b.bytes
    BY <1>0, <1>1
  <2> QED BY <2>1, <2>2
<1>2. CASE a.bytes # <<>> /\ b.bytes = <<>>
  <2>1. Merge(a, b) = a
    BY <1>2 DEF Merge
  <2>2. a.bytes \o b.bytes = a.bytes
    BY <1>0, <1>2
  <2> QED BY <2>1, <2>2
<1>3. CASE a.bytes # <<>> /\ b.bytes # <<>>
  <2>1. Merge(a, b) = BinaryChunk(a.bytes \o b.bytes, FALSE)
    BY <1>3, Zenon DEF Merge
  <2>2. a.bytes \o b.bytes \in Seq(Byte)
    BY <1>0
  <2> QED BY <2>1, <2>2, ChunkTypes, Zenon
<1> QED BY <1>1, <1>2, <1>3

\* Reducing chunks to one keeps what they say.
LEMMA BinaryBuffered ==
    ASSUME NEW b \in BodyType
    PROVE  BufferBinary(b) \in Chunk /\ BufferBinary(b).bytes = Bytes(Yields(b))
<1> DEFINE bs == MapChunks(AsBinary, Yields(b))
           merged[i \in 0..Len(bs)] ==
              IF i = 0 THEN BinaryChunk(<<>>, FALSE) ELSE Merge(merged[i - 1], bs[i])
<1>1. bs \in Seq(Chunk) /\ Bytes(bs) = Bytes(Yields(b))
  BY BinaryRead, Zenon
<1>2. Len(bs) \in Nat /\ DOMAIN bs = 1..Len(bs) /\ \A i \in 1..Len(bs) : bs[i] \in Chunk
  <2> HIDE DEF bs
  <2> QED BY <1>1
<1>3. \E f : f = [i \in 0..Len(bs) |-> IF i = 0 THEN BinaryChunk(<<>>, FALSE) ELSE Merge(f[i - 1], bs[i])]
  <2> HIDE DEF bs
  <2> QED BY <1>2, MergesExists, Zenon DEF Merges
<1>4. merged = [i \in 0..Len(bs) |-> IF i = 0 THEN BinaryChunk(<<>>, FALSE) ELSE Merge(merged[i - 1], bs[i])]
  <2> HIDE DEF bs
  <2> QED BY <1>3, Zenon
<1>5. BufferBinary(b) = merged[Len(bs)]
  BY Zenon DEF BufferBinary
<1> HIDE DEF merged, bs
<1>6. merged[0] = BinaryChunk(<<>>, FALSE)
  BY <1>2, <1>4
<1>7. \A i, k \in 0..Len(bs) : k = i + 1 => merged[k] = Merge(merged[i], bs[k])
  <2> TAKE i, k \in 0..Len(bs)
  <2> HAVE k = i + 1
  <2>1. k # 0 /\ k - 1 = i
    OBVIOUS
  <2>2. merged[k] = IF k = 0 THEN BinaryChunk(<<>>, FALSE) ELSE Merge(merged[k - 1], bs[k])
    <3> DEFINE F(i_1) == IF i_1 = 0 THEN BinaryChunk(<<>>, FALSE) ELSE Merge(merged[i_1 - 1], bs[i_1])
    <3>1. merged = [i_1 \in 0..Len(bs) |-> F(i_1)]
      BY <1>4, Zenon
    <3> HIDE DEF F
    <3>2. merged[k] = F(k)
      BY <3>1
    <3> QED BY <3>2, Zenon DEF F
  <2> QED BY <2>1, <2>2, Zenon
<1>8. BinaryChunk(<<>>, FALSE) \in Chunk /\ BinaryChunk(<<>>, FALSE).bytes = <<>>
  <2>1. <<>> \in Seq(Byte) /\ FALSE \in BOOLEAN
    OBVIOUS
  <2> QED BY <2>1, ChunkTypes, Zenon
<1>9. CASE Len(bs) = 0
  <2>1. bs = <<>> /\ Bytes(bs) = <<>>
    BY <1>1, <1>9, FewBytes
  <2> QED BY <1>1, <1>5, <1>6, <1>8, <1>9, <2>1
<1>10. CASE Len(bs) # 0
  <2> DEFINE said == [i \in DOMAIN bs |-> bs[i].bytes]
  <2>0. DOMAIN said = 1..Len(bs) /\ Len(said) = Len(bs) /\ \A i \in 1..Len(bs) : said[i] = bs[i].bytes
    <3>1. \A i \in 1..Len(bs) : bs[i].bytes \in Seq(Byte)
      <4>1. \A c \in Chunk : c.bytes \in Seq(Byte)
        BY DEF Chunk
      <4> QED BY <4>1, <1>2
    <3>2. said \in [1..Len(bs) -> Seq(Byte)]
      BY <1>2, <3>1
    <3>3. Len(said) = Len(bs) /\ DOMAIN said = 1..Len(bs)
      <4> HIDE DEF said
      <4> QED BY <1>2, <3>2, FunctionIsSeq, Zenon
    <3> QED BY <1>2, <3>3
  <2>1. PICK f : Joins(f, said, Len(said)) /\ FlattenSeq(said) = f[Len(said)]
    <3> HIDE DEF said
    <3>1. Len(said) \in Nat \ {0}
      BY <1>2, <1>10, <2>0
    <3> QED BY <3>1, FlattenIs, Zenon
  <2>2. Bytes(bs) = f[Len(bs)]
    BY <2>0, <2>1, Zenon DEF Bytes
  <2> HIDE DEF said
  <2>3. f[1] = said[1] /\ \A i, k \in 1..Len(bs) : k = i + 1 => f[k] = f[i] \o said[k]
    <3>1. Len(said) \in Nat /\ Len(said) > 0
      BY <1>2, <1>10, <2>0
    <3>2. f[1] = said[1] /\ \A i, k \in 1..Len(said) : k = i + 1 => f[k] = f[i] \o said[k]
      <4>1. JoinsOn(f, said, Len(said))
        BY <2>1, <3>1, JoinsStep, Zenon
      <4> QED BY <3>1, <4>1, Zenon DEF JoinsOn
    <3> QED BY <2>0, <3>2, Zenon
  <2> DEFINE S == {n \in Nat : n \in 0..Len(bs) => merged[n] \in Chunk /\ (n # 0 => merged[n].bytes = f[n])}
  <2>4. ASSUME NEW n \in S PROVE n + 1 \in S
    <3>0. n \in Nat
      OBVIOUS
    <3> SUFFICES ASSUME n + 1 \in 0..Len(bs)
                 PROVE  merged[n + 1] \in Chunk /\ merged[n + 1].bytes = f[n + 1]
      BY <3>0
    <3>1. n \in 0..Len(bs) /\ n + 1 \in 1..Len(bs) /\ merged[n] \in Chunk /\ bs[n + 1] \in Chunk
      BY <1>2, <3>0
    <3>2. merged[n + 1] = Merge(merged[n], bs[n + 1])
      BY <1>7, <3>1
    <3>3. merged[n + 1] \in Chunk /\ merged[n + 1].bytes = merged[n].bytes \o bs[n + 1].bytes
      BY <3>1, <3>2, MergeJoins, Zenon
    <3>4. CASE n = 0
      <4>1. merged[n].bytes = <<>>
        BY <1>6, <1>8, <3>4
      <4>2. bs[n + 1].bytes \in Seq(Byte)
        BY <3>1 DEF Chunk
      <4>3. <<>> \o bs[n + 1].bytes = bs[n + 1].bytes
        BY <4>2
      <4>4. f[n + 1] = bs[n + 1].bytes
        BY <2>0, <2>3, <3>1, <3>4
      <4> QED BY <3>3, <4>1, <4>3, <4>4, Zenon
    <3>5. CASE n # 0
      <4>1. n \in 1..Len(bs) /\ merged[n].bytes = f[n]
        BY <3>0, <3>1, <3>5
      <4> DEFINE R(i, k) == f[k] = f[i] \o said[k]
      <4>2. R(n, n + 1)
        <5>1. \A i, k \in 1..Len(bs) : k = i + 1 => R(i, k)
          BY <2>3, Zenon
        <5> HIDE DEF R
        <5> QED BY <5>1, <4>1, <3>1
      <4>3. said[n + 1] = bs[n + 1].bytes
        BY <2>0, <3>1
      <4> QED BY <3>3, <4>1, <4>2, <4>3, Zenon
    <3> QED BY <3>4, <3>5
  <2>5. \A n \in Nat : n \in S
    <3>1. S \in SUBSET Nat /\ 0 \in S
      BY <1>6, <1>8
    <3> HIDE DEF S
    <3> QED BY <2>4, <3>1, Induct
  <2>6. Len(bs) \in S /\ Len(bs) \in 0..Len(bs)
    BY <2>5, <1>2
  <2> QED BY <1>1, <1>5, <1>10, <2>2, <2>6
<1> QED BY <1>9, <1>10

\* What is written over a wire is what is said, if no chunk is a view.
LEMMA Wired ==
    ASSUME NEW b \in BodyType
    PROVE  /\ Wire(b) \in Seq(Byte)
           /\ (\A i \in DOMAIN Yields(b) : ~Yields(b)[i].view) => Wire(b) = Bytes(Yields(b))
<1> DEFINE bs == MapChunks(AsBinary, Yields(b))
           ps == MapChunks(Padded, bs)
<1>1. /\ bs \in Seq(Chunk) /\ Bytes(bs) = Bytes(Yields(b)) /\ DOMAIN bs = DOMAIN Yields(b)
      /\ \A i \in DOMAIN Yields(b) : bs[i].view => Yields(b)[i].view
  BY BinaryRead, Zenon
<1>2. ps = [i \in DOMAIN bs |-> Padded(bs[i])]
  BY Zenon DEF MapChunks
<1>3. Wire(b) = FlattenSeq(ps)
  BY Zenon DEF Wire
<1>4. ps \in Seq(Seq(Byte))
  <2> HIDE DEF bs
  <2>1. Len(bs) \in Nat /\ DOMAIN bs = 1..Len(bs) /\ \A i \in 1..Len(bs) : bs[i] \in Chunk
    BY <1>1
  <2>2. \A c \in Chunk : Padded(c) \in Seq(Byte)
    <3> TAKE c \in Chunk
    <3>1. c.bytes \in Seq(Byte) /\ Zero \in Byte
      BY BodyAssumption DEF Chunk
    <3>2. <<Zero>> \in Seq(Byte)
      BY <3>1
    <3> QED BY <3>1, <3>2 DEF Padded
  <2>3. ps \in [1..Len(bs) -> Seq(Byte)]
    BY <1>2, <2>1, <2>2
  <2> QED BY <2>1, <2>3, FunctionIsSeq, Zenon
<1>5. ASSUME \A i \in DOMAIN Yields(b) : ~Yields(b)[i].view
      PROVE  FlattenSeq(ps) = Bytes(bs)
  <2>1. \A i \in DOMAIN bs : Padded(bs[i]) = bs[i].bytes
    BY <1>1, <1>5, Zenon DEF Padded
  <2>2. ps = [i \in DOMAIN bs |-> bs[i].bytes]
    <3> HIDE DEF bs
    <3> QED BY <1>2, <2>1
  <2> QED BY <2>2, Zenon DEF Bytes
<1>6. FlattenSeq(ps) \in Seq(Byte)
  <2> HIDE DEF ps
  <2> QED BY <1>4, FlattenType
<1> QED BY <1>1, <1>3, <1>5, <1>6, Zenon

\* Bytes that are cut into chunks.
LEMMA CutInChunks ==
    ASSUME NEW bytes \in Seq(Byte), NEW cut \in Cuts(bytes), NEW view \in BOOLEAN
    PROVE  /\ [i \in DOMAIN cut |-> BinaryChunk(cut[i], view)] \in Seq(Chunk)
           /\ Bytes([i \in DOMAIN cut |-> BinaryChunk(cut[i], view)]) = bytes
<1> DEFINE cs == [i \in DOMAIN cut |-> BinaryChunk(cut[i], view)]
<1>1. cut \in Seq(Seq(Byte)) /\ FlattenSeq(cut) = bytes
  BY CutsSay
<1>2. Len(cut) \in Nat /\ DOMAIN cut = 1..Len(cut) /\ \A i \in 1..Len(cut) : cut[i] \in Seq(Byte)
  BY <1>1
<1>3. \A i \in DOMAIN cut : BinaryChunk(cut[i], view) \in Chunk /\ BinaryChunk(cut[i], view).bytes = cut[i]
  BY <1>2, ChunkTypes
<1>4. cs \in Seq(Chunk)
  <2>1. cs \in [1..Len(cut) -> Chunk]
    BY <1>2, <1>3
  <2> HIDE DEF cs
  <2> QED BY <1>2, <2>1, FunctionIsSeq, Zenon
<1>5. [i \in DOMAIN cs |-> cs[i].bytes] = cut
  <2>1. \A i \in DOMAIN cut : cs[i].bytes = cut[i]
    BY <1>3
  <2>2. DOMAIN cs = DOMAIN cut
    OBVIOUS
  <2>3. cut = [i \in DOMAIN cut |-> cut[i]]
    BY <1>1
  <2> HIDE DEF cs
  <2> QED BY <2>1, <2>2, <2>3
<1> QED BY <1>1, <1>4, <1>5, Zenon DEF Bytes

-----------------------------------------------------------------------------
Single == {"data", "promise", "json", "parsed"}

\* What a body is at any time.
Fits(b) ==
    /\ b \in BodyType
    /\ b.used => b.kind \in OneShot
    /\ b.kind \in Single => Len(b.chunks) = 1

\* The inductive invariant of the chain.
BodyInv ==
    /\ Fits(body)
    /\ got.outcome \in {"none", "ok", "hangs", "throws"}
    /\ hops \in 0..MaxHops

\* What BodyKept says of a hop that is not lossy.
Kept ==
    /\ Says(body') = Says(body)
    /\ got'.outcome = (IF did' \in Readers THEN "ok" ELSE "none")
    /\ did' \in Readers => got'.bytes = Says(body)

\* What a hop preserves.
Hopped ==
    /\ Fits(body') /\ got'.outcome \in {"none", "ok", "hangs", "throws"}
    /\ Lossy(did', body) \/ Kept

LEMMA NewFits ==
    ASSUME NEW kind \in Kind, NEW chunks \in Seq(Chunk), kind \in Single => Len(chunks) = 1
    PROVE  Fits(Body(kind, chunks)) /\ Says(Body(kind, chunks)) = Bytes(chunks)
BY DEF Fits, BodyType, Body, Says

\* A body of one chunk.
LEMMA OneFits ==
    ASSUME NEW kind \in Kind, NEW c \in Chunk
    PROVE  Fits(Body(kind, <<c>>)) /\ Says(Body(kind, <<c>>)) = c.bytes
<1>1. <<c>> \in Seq(Chunk) /\ Len(<<c>>) = 1
  OBVIOUS
<1> QED BY <1>1, NewFits, FewBytes, Zenon

\* Reading fails in one of two ways, or not.
LEMMA Outcomes == \A b : Outcome(b) \in {"ok", "hangs", "throws"} /\ BinaryOutcome(b) \in {"ok", "hangs", "throws"}
BY DEF Outcome, BinaryOutcome

\* A body is replaced by one that fits, and says the same if the old one is unread.
LEMMA ReplacedHops ==
    ASSUME BodyInv, NEW outcome \in {"ok", "hangs", "throws"}, NEW new, Replaced(outcome, new),
           Fits(new), did' \notin Readers,
           ~Lossy(did', body) => outcome = "ok" /\ Says(new) = Says(body)
    PROVE  Hopped
<1>1. CASE outcome = "ok"
  <2>1. body' = new /\ got' = [outcome |-> "none", bytes |-> <<>>]
    BY <1>1 DEF Replaced
  <2> QED BY <1>1, <2>1 DEF Hopped, Kept
<1>2. CASE outcome # "ok"
  <2>1. body' = body /\ got' = [outcome |-> outcome, bytes |-> <<>>]
    BY <1>2 DEF Replaced
  <2> QED BY <1>2, <2>1 DEF Hopped, BodyInv
<1> QED BY <1>1, <1>2

\* What a hop that is not lossy may rely on.
LEMMA Sound ==
    ASSUME BodyInv, NEW hop, ~Lossy(hop, body)
    PROVE  /\ ~body.used /\ Outcome(body) = "ok"
           /\ hop \notin {"readJson", "parseJson"} =>
                 body.kind # "parsed" /\ Yields(body) = body.chunks /\ Bytes(Yields(body)) = Says(body)
           /\ hop \in AsText => ~SplitsCharacter(body)
           /\ hop \in AsText /\ hop \notin {"readJson", "parseJson"} => BufferText(body) = Says(body)
           /\ hop \in {"node", "xhr"} => \A i \in DOMAIN body.chunks : ~body.chunks[i].view
           /\ hop = "bufferBinary" => BinaryOutcome(body) = "ok"
<1>1. body \in BodyType /\ ~body.used
  BY DEF BodyInv, Fits, Lossy
<1>2. Outcome(body) = "ok"
  BY <1>1 DEF Outcome
<1>3. hop \notin {"readJson", "parseJson"} => body.kind # "parsed"
  BY DEF Lossy
<1>4. body.kind # "parsed" => Yields(body) = body.chunks /\ Bytes(Yields(body)) = Says(body)
  BY <1>1, YieldsAll, Zenon DEF Says
<1>5. hop \in AsText => ~SplitsCharacter(body)
  BY DEF Lossy
<1>6. hop \in AsText /\ hop \notin {"readJson", "parseJson"} => BufferText(body) = Says(body)
  BY <1>1, <1>3, <1>5, TextRead, Zenon
<1>7. hop \in {"node", "xhr"} => \A i \in DOMAIN body.chunks : ~body.chunks[i].view
  BY Zenon DEF Lossy
<1>8. hop = "bufferBinary" => BinaryOutcome(body) = "ok"
  <2>1. hop = "bufferBinary" => BinaryOutcome(body) # "throws"
    BY DEF Lossy
  <2> QED BY <1>2, <2>1 DEF BinaryOutcome
<1> QED BY <1>1, <1>2, <1>3, <1>4, <1>5, <1>6, <1>7, <1>8, Zenon

LEMMA TextHops ==
    ASSUME BodyInv, BufferedAsText \/ OverLambda
    PROVE  Hopped
<1>1. PICK name \in {"bufferText", "lambda"} :
         /\ did' = name
         /\ Replaced(Outcome(body), Body("data", <<TextChunk(BufferText(body))>>))
  BY DEF BufferedAsText, OverLambda, Hop
<1>2. body \in BodyType
  BY DEF BodyInv, Fits
<1>3. TextChunk(BufferText(body)) \in Chunk /\ TextChunk(BufferText(body)).bytes = BufferText(body)
  BY <1>2, TextRead, ChunkTypes
<1>4. /\ Fits(Body("data", <<TextChunk(BufferText(body))>>))
      /\ Says(Body("data", <<TextChunk(BufferText(body))>>)) = BufferText(body)
  <2>1. "data" \in Kind
    BY DEF Kind
  <2> QED BY <1>3, <2>1, OneFits, Zenon
<1>5. did' \notin Readers /\ did' \in AsText /\ did' \notin {"readJson", "parseJson"}
  BY <1>1 DEF Readers, AsText
<1>6. ~Lossy(did', body) => Outcome(body) = "ok" /\ BufferText(body) = Says(body)
  BY <1>5, Sound, Zenon
<1>7. Outcome(body) \in {"ok", "hangs", "throws"}
  BY Outcomes
<1> QED BY <1>1, <1>4, <1>5, <1>6, <1>7, ReplacedHops, Zenon

LEMMA BinaryHops ==
    ASSUME BodyInv, BufferedAsBinary
    PROVE  Hopped
<1>1. did' = "bufferBinary" /\ Replaced(BinaryOutcome(body), Body("data", <<BufferBinary(body)>>))
  BY DEF BufferedAsBinary, Hop
<1>2. body \in BodyType
  BY DEF BodyInv, Fits
<1>3. BufferBinary(body) \in Chunk /\ BufferBinary(body).bytes = Bytes(Yields(body))
  BY <1>2, BinaryBuffered
<1>4. /\ Fits(Body("data", <<BufferBinary(body)>>))
      /\ Says(Body("data", <<BufferBinary(body)>>)) = Bytes(Yields(body))
  <2>1. "data" \in Kind
    BY DEF Kind
  <2> QED BY <1>3, <2>1, OneFits, Zenon
<1>5. did' \notin Readers /\ did' \notin {"readJson", "parseJson"} /\ did' = "bufferBinary"
  BY <1>1 DEF Readers
<1>6. ~Lossy(did', body) => BinaryOutcome(body) = "ok" /\ Bytes(Yields(body)) = Says(body)
  BY <1>5, Sound, Zenon
<1>7. BinaryOutcome(body) \in {"ok", "hangs", "throws"}
  BY Outcomes
<1> QED BY <1>1, <1>4, <1>5, <1>6, <1>7, ReplacedHops, Zenon

LEMMA StreamHops ==
    ASSUME BodyInv, Streamed
    PROVE  Hopped
<1>0. body \in BodyType /\ Outcome(body) \in {"ok", "hangs", "throws"}
  BY Outcomes DEF BodyInv, Fits
<1>1. ASSUME NEW cs \in Seq(Chunk), NEW name \in {"streamText", "streamBinary"}, did' = name,
             Replaced(Outcome(body), Body("generator", cs)),
             ~Lossy(did', body) => Bytes(cs) = Says(body)
      PROVE  Hopped
  <2>1. Fits(Body("generator", cs)) /\ Says(Body("generator", cs)) = Bytes(cs)
    BY NewFits DEF Kind, Single
  <2>2. did' \notin Readers
    BY <1>1 DEF Readers
  <2>3. ~Lossy(did', body) => Outcome(body) = "ok"
    BY Sound, Zenon
  <2> QED BY <1>0, <1>1, <2>1, <2>2, <2>3, ReplacedHops, Zenon
<1>2. CASE did' = "streamText" /\ Replaced(Outcome(body), Body("generator", MapChunks(AsString, Yields(body))))
  <2>1. did' \in AsText /\ did' \notin {"readJson", "parseJson"}
    BY <1>2 DEF AsText
  <2>2. ~Lossy(did', body) => Bytes(MapChunks(AsString, Yields(body))) = Says(body)
    BY <1>0, <2>1, Sound, TextRead, Zenon
  <2>3. MapChunks(AsString, Yields(body)) \in Seq(Chunk)
    BY <1>0, TextRead
  <2> QED BY <1>1, <1>2, <2>2, <2>3, Zenon
<1>3. CASE did' = "streamBinary" /\ Replaced(Outcome(body), Body("generator", MapChunks(AsBinary, Yields(body))))
  <2>1. did' \notin {"readJson", "parseJson"}
    BY <1>3
  <2>2. ~Lossy(did', body) => Bytes(MapChunks(AsBinary, Yields(body))) = Says(body)
    BY <1>0, <2>1, Sound, BinaryRead, Zenon
  <2>3. MapChunks(AsBinary, Yields(body)) \in Seq(Chunk)
    BY <1>0, BinaryRead
  <2> QED BY <1>1, <1>3, <2>2, <2>3, Zenon
<1> QED BY <1>2, <1>3, Zenon DEF Streamed, Hop

\* Reading a body leaves what it says, and uses up what can be read once.
LEMMA UsedFits ==
    ASSUME NEW b, Fits(b)
    PROVE  Fits(Used(b)) /\ Says(Used(b)) = Says(b)
<1> DEFINE v == b.kind \in OneShot
<1>1. Used(b) = [b EXCEPT !.used = v]
  BY Zenon DEF Used
<1>2. v \in BOOLEAN /\ (v => b.kind \in OneShot)
  OBVIOUS
<1>3. b \in BodyType /\ (b.kind \in Single => Len(b.chunks) = 1)
  BY DEF Fits
<1> HIDE DEF v
<1>4. /\ Used(b) \in BodyType /\ Used(b).kind = b.kind /\ Used(b).chunks = b.chunks
      /\ Used(b).used = v
  BY <1>1, <1>2, <1>3 DEF BodyType
<1> QED BY <1>2, <1>3, <1>4, Zenon DEF Fits, Says

LEMMA ReadTextHops ==
    ASSUME BodyInv, ReadText
    PROVE  Hopped
<1>1. /\ did' = "readText" /\ body' = Used(body) /\ got'.outcome = Outcome(body)
      /\ Outcome(body) = "ok" => got'.bytes = BufferText(body)
  BY DEF ReadText, Hop
<1>2. Fits(body') /\ Says(body') = Says(body)
  BY <1>1, UsedFits DEF BodyInv
<1>3. Outcome(body) \in {"ok", "hangs", "throws"}
  BY Outcomes
<1>4. did' \in AsText /\ did' \notin {"readJson", "parseJson"} /\ did' \in Readers
  BY <1>1 DEF AsText, Readers
<1>5. ~Lossy(did', body) => Outcome(body) = "ok" /\ BufferText(body) = Says(body)
  BY <1>4, Sound, Zenon
<1> QED BY <1>1, <1>2, <1>3, <1>4, <1>5 DEF Hopped, Kept

LEMMA ReadJsonHops ==
    ASSUME BodyInv, ReadJson
    PROVE  Hopped
<1> DEFINE held == body.kind \in {"json", "parsed"}
           text == IF held THEN Says(body) ELSE BufferText(body)
           outcome == IF ~held /\ Outcome(body) # "ok" THEN Outcome(body)
                      ELSE IF text = <<>> \/ ParsesAsJson(text) THEN "ok" ELSE "throws"
<1>1. /\ did' = "readJson" /\ got'.outcome = outcome
      /\ outcome = "ok" => got'.bytes = text
      /\ body' = IF held THEN body ELSE Used(body)
  BY DEF ReadJson, Hop
<1>2. Fits(body') /\ Says(body') = Says(body)
  BY <1>1, UsedFits DEF BodyInv
<1>3. outcome \in {"ok", "hangs", "throws"}
  BY Outcomes
<1>4. did' \in AsText /\ did' \in Readers
  BY <1>1 DEF AsText, Readers
<1>5. ASSUME ~Lossy(did', body) PROVE outcome = "ok" /\ text = Says(body)
  <2>1. Outcome(body) = "ok" /\ ~body.used /\ ~SplitsCharacter(body)
    BY <1>4, <1>5, Sound, Zenon
  <2>2. ~held => BufferText(body) = Says(body)
    BY <2>1, TextRead DEF BodyInv, Fits
  <2>3. Says(body) = <<>> \/ ParsesAsJson(Says(body))
    BY <1>1, <1>5 DEF Lossy
  <2> QED BY <2>1, <2>2, <2>3
<1> HIDE DEF outcome, text, held
<1> QED BY <1>1, <1>2, <1>3, <1>4, <1>5 DEF Hopped, Kept

LEMMA ParseJsonHops ==
    ASSUME BodyInv, ParseJson
    PROVE  Hopped
<1>1. did' = "parseJson" /\ did' \in AsText /\ did' \notin Readers /\ got'.outcome = "none"
  BY DEF ParseJson, Hop, AsText, Readers
<1>2. CASE body.kind \in {"json", "parsed"} /\ UNCHANGED body
  BY <1>1, <1>2 DEF Hopped, Kept, BodyInv
<1>3. CASE /\ body.kind \notin {"json", "parsed"}
           /\ body' = Body("parsed", <<TextChunk(BufferText(body))>>)
  <2>1. body \in BodyType
    BY DEF BodyInv, Fits
  <2>2. TextChunk(BufferText(body)) \in Chunk /\ TextChunk(BufferText(body)).bytes = BufferText(body)
    BY <2>1, TextRead, ChunkTypes
  <2>3. Fits(body') /\ Says(body') = BufferText(body)
    <3>1. "parsed" \in Kind
      BY DEF Kind
    <3> QED BY <1>3, <2>2, <3>1, OneFits, Zenon
  <2>4. ~Lossy(did', body) => BufferText(body) = Says(body)
    <3>1. ~Lossy(did', body) => ~body.used /\ ~SplitsCharacter(body)
      BY <1>1, Sound, Zenon
    <3> QED BY <1>3, <2>1, <3>1, TextRead
  <2> QED BY <1>1, <2>3, <2>4 DEF Hopped, Kept
<1> QED BY <1>2, <1>3 DEF ParseJson

LEMMA NodeHops ==
    ASSUME BodyInv, OverNode
    PROVE  Hopped
<1>1. PICK cut \in Cuts(Wire(body)), view \in BOOLEAN :
         Replaced(Outcome(body), Body("node", [i \in DOMAIN cut |-> BinaryChunk(cut[i], view)]))
  BY DEF OverNode
<1> DEFINE cs == [i \in DOMAIN cut |-> BinaryChunk(cut[i], view)]
<1>2. did' = "node" /\ did' \notin Readers /\ did' \notin {"readJson", "parseJson"}
  BY DEF OverNode, Hop, Readers
<1>3. body \in BodyType /\ Outcome(body) \in {"ok", "hangs", "throws"}
  BY Outcomes DEF BodyInv, Fits
<1>4. cs \in Seq(Chunk) /\ Bytes(cs) = Wire(body)
  <2>1. Wire(body) \in Seq(Byte)
    BY <1>3, Wired
  <2> QED BY <2>1, CutInChunks, Zenon
<1>5. Fits(Body("node", cs)) /\ Says(Body("node", cs)) = Bytes(cs)
  <2> HIDE DEF cs
  <2> QED BY <1>4, NewFits DEF Kind, Single
<1>6. ~Lossy(did', body) => Outcome(body) = "ok" /\ Wire(body) = Says(body)
  <2>1. did' \in {"node", "xhr"}
    BY <1>2
  <2> QED BY <1>2, <1>3, <2>1, Sound, Wired, Zenon
<1> QED BY <1>1, <1>2, <1>3, <1>4, <1>5, <1>6, ReplacedHops, Zenon

LEMMA XhrHops ==
    ASSUME BodyInv, ToXhr
    PROVE  Hopped
<1>1. Replaced(Outcome(body), Body("iterable", <<BinaryChunk(Wire(body), FALSE)>>))
  BY DEF ToXhr
<1>2. did' = "xhr" /\ did' \notin Readers /\ did' \notin {"readJson", "parseJson"} /\ did' \in {"node", "xhr"}
  BY DEF ToXhr, Hop, Readers
<1>3. body \in BodyType /\ Outcome(body) \in {"ok", "hangs", "throws"}
  BY Outcomes DEF BodyInv, Fits
<1>4. BinaryChunk(Wire(body), FALSE) \in Chunk /\ BinaryChunk(Wire(body), FALSE).bytes = Wire(body)
  BY <1>3, Wired, ChunkTypes
<1>5. /\ Fits(Body("iterable", <<BinaryChunk(Wire(body), FALSE)>>))
      /\ Says(Body("iterable", <<BinaryChunk(Wire(body), FALSE)>>)) = Wire(body)
  <2>1. "iterable" \in Kind
    BY DEF Kind
  <2> QED BY <1>4, <2>1, OneFits, Zenon
<1>6. ~Lossy(did', body) => Outcome(body) = "ok" /\ Wire(body) = Says(body)
  BY <1>2, <1>3, Sound, Wired, Zenon
<1> QED BY <1>1, <1>2, <1>3, <1>5, <1>6, ReplacedHops, Zenon

LEMMA FetchRequestHops ==
    ASSUME BodyInv, ToFetchAdapter
    PROVE  Hopped
<1> DEFINE text == BufferText(body)
           new  == IF text = <<>> THEN Body("data", <<TextChunk(<<>>)>>)
                   ELSE Body("generator", <<BinaryChunk(text, FALSE)>>)
<1>1. Replaced(Outcome(body), new)
  BY Zenon DEF ToFetchAdapter, FetchText
<1>2. did' = "fetchRequest" /\ did' \notin Readers /\ did' \notin {"readJson", "parseJson"} /\ did' \in AsText
  BY DEF ToFetchAdapter, Hop, Readers, AsText
<1>3. body \in BodyType /\ Outcome(body) \in {"ok", "hangs", "throws"}
  BY Outcomes DEF BodyInv, Fits
<1>4. text \in Seq(Byte)
  BY <1>3, TextRead
<1>5. Fits(new) /\ Says(new) = text
  <2>1. /\ TextChunk(text) \in Chunk /\ TextChunk(text).bytes = text
        /\ BinaryChunk(text, FALSE) \in Chunk /\ BinaryChunk(text, FALSE).bytes = text
    BY <1>4, ChunkTypes
  <2>2. "data" \in Kind /\ "generator" \in Kind
    BY DEF Kind
  <2>3. CASE text = <<>>
    <3>1. new = Body("data", <<TextChunk(text)>>)
      BY <2>3, Zenon
    <3> HIDE DEF new, text
    <3> QED BY <2>1, <2>2, <3>1, OneFits, Zenon
  <2>4. CASE text # <<>>
    <3>1. new = Body("generator", <<BinaryChunk(text, FALSE)>>)
      BY <2>4, Zenon
    <3> HIDE DEF new, text
    <3> QED BY <2>1, <2>2, <3>1, OneFits, Zenon
  <2> QED BY <2>3, <2>4
<1>6. ~Lossy(did', body) => Outcome(body) = "ok" /\ text = Says(body)
  BY <1>2, Sound, Zenon
<1> HIDE DEF new, text
<1> QED BY <1>1, <1>2, <1>3, <1>5, <1>6, ReplacedHops, Zenon

LEMMA FetchResponseHops ==
    ASSUME BodyInv, FromFetchAdapter
    PROVE  Hopped
<1> DEFINE cs == MapChunks(AsBinary, Yields(body))
<1>1. Replaced(Outcome(body), Body("fetched", cs))
  BY Zenon DEF FromFetchAdapter, Enqueued
<1>2. did' = "fetchResponse" /\ did' \notin Readers /\ did' \notin {"readJson", "parseJson"}
  BY DEF FromFetchAdapter, Hop, Readers
<1>3. body \in BodyType /\ Outcome(body) \in {"ok", "hangs", "throws"}
  BY Outcomes DEF BodyInv, Fits
<1>4. cs \in Seq(Chunk) /\ Bytes(cs) = Bytes(Yields(body))
  BY <1>3, BinaryRead, Zenon
<1>5. Fits(Body("fetched", cs)) /\ Says(Body("fetched", cs)) = Bytes(cs)
  <2> HIDE DEF cs
  <2> QED BY <1>4, NewFits DEF Kind, Single
<1>6. ~Lossy(did', body) => Outcome(body) = "ok" /\ Bytes(cs) = Says(body)
  BY <1>2, <1>4, Sound, Zenon
<1> HIDE DEF cs
<1> QED BY <1>1, <1>2, <1>3, <1>5, <1>6, ReplacedHops, Zenon

\* Every hop preserves the invariant, and loses nothing but what Lossy says.
LEMMA BodyStep ==
    ASSUME BodyInv, BodyNext
    PROVE  BodyInv' /\ (Lossy(did', body) \/ Kept)
<1>1. Hopped
  BY TextHops, BinaryHops, StreamHops, ReadTextHops, ReadJsonHops, ParseJsonHops, NodeHops, XhrHops,
     FetchRequestHops, FetchResponseHops, Zenon DEF BodyNext
<1>2. hops' = hops + 1 /\ hops < MaxHops
  BY DEF BodyNext, BufferedAsText, BufferedAsBinary, Streamed, ReadText, ReadJson, ParseJson,
         OverNode, ToXhr, OverLambda, ToFetchAdapter, FromFetchAdapter, Hop
<1>3. hops' \in 0..MaxHops
  BY <1>2, BodyAssumption DEF BodyInv
<1> QED BY <1>1, <1>3 DEF Hopped, BodyInv

\* The sender's body fits, whatever it is made of.
LEMMA BodyInitInv == BodyInit => BodyInv
<1> SUFFICES ASSUME BodyInit PROVE BodyInv
  OBVIOUS
<1>1. PICK c \in Content :
         \/ \E chunk \in {TextChunk(c), BinaryChunk(c, FALSE), BinaryChunk(c, TRUE)} :
               \E kind \in {"data", "promise"} : body = Body(kind, <<chunk>>)
         \/ \E cut \in Cuts(c) : \E kind \in {"iterable", "generator"} :
               body = Body(kind, [i \in DOMAIN cut |-> BinaryChunk(cut[i], FALSE)])
         \/ ParsesAsJson(c) /\ body = Body("json", <<TextChunk(c)>>)
  BY Zenon DEF BodyInit
<1>2. c \in Seq(Byte) /\ MaxHops \in Nat
  BY BodyAssumption, Zenon
<1>3. {"data", "promise", "iterable", "generator", "json"} \subseteq Kind /\ {"iterable", "generator"} \cap Single = {}
  BY DEF Kind, Single
<1>4. TextChunk(c) \in Chunk /\ BinaryChunk(c, FALSE) \in Chunk /\ BinaryChunk(c, TRUE) \in Chunk
  BY <1>2, ChunkTypes
<1>5. ASSUME NEW chunk \in Chunk, NEW kind \in Kind, body = Body(kind, <<chunk>>) PROVE Fits(body)
  BY <1>5, OneFits, Zenon
<1>6. ASSUME NEW cut \in Cuts(c), NEW kind \in {"iterable", "generator"},
             body = Body(kind, [i \in DOMAIN cut |-> BinaryChunk(cut[i], FALSE)])
      PROVE  Fits(body)
  <2> DEFINE cs == [i \in DOMAIN cut |-> BinaryChunk(cut[i], FALSE)]
  <2>1. cs \in Seq(Chunk)
    BY <1>2, CutInChunks, Zenon
  <2>2. kind \in Kind /\ kind \notin Single
    BY <1>3
  <2>3. body = Body(kind, cs)
    BY <1>6, Zenon
  <2> HIDE DEF cs
  <2> QED BY <2>1, <2>2, <2>3, NewFits, Zenon
<1>7. Fits(body)
  BY <1>1, <1>3, <1>4, <1>5, <1>6
<1> QED BY <1>2, <1>7 DEF BodyInit, BodyInv

LEMMA BodyInductive == BodySpec => []BodyInv
<1>1. BodyInv /\ UNCHANGED bodyVars => BodyInv'
  BY DEF BodyInv, bodyVars
<1>2. BodyInv /\ [BodyNext]_bodyVars => BodyInv'
  BY <1>1, BodyStep, Zenon
<1> QED BY BodyInitInv, <1>2, PTL DEF BodySpec

\* Whatever the senders, the chain and its length: what a message says survives
\* every hop that is not one of the six lossy ones (bodies.ts, json.ts,
\* buffered.ts, streams.ts).
THEOREM BodiesAreKept == BodySpec => BodyKept
<1>1. BodyInv /\ [BodyNext]_bodyVars =>
         [Lossy(did', body)
          \/ /\ Says(body') = Says(body)
             /\ got'.outcome = (IF did' \in Readers THEN "ok" ELSE "none")
             /\ did' \in Readers => got'.bytes = Says(body)]_bodyVars
  BY BodyStep, Zenon DEF Kept
<1> QED BY BodyInductive, <1>1, PTL DEF BodySpec, BodyKept

-----------------------------------------------------------------------------
\* What a stretch of a text is made of.
LEMMA StretchIs ==
    ASSUME NEW s \in Seq(Char), NEW a \in 1..Len(s), NEW b \in a..Len(s)
    PROVE  /\ SubSeq(s, a, b) \in Seq(Char)
           /\ Len(SubSeq(s, a, b)) = b - a + 1
           /\ \A x \in 1..(b - a + 1) : SubSeq(s, a, b)[x] = s[a + x - 1]
<1>1. SubSeq(s, a, b) \in Seq(Char)
  BY Stretch
<1>2. Len(SubSeq(s, a, b)) = b - a + 1 /\ \A x \in 1..(b - a + 1) : SubSeq(s, a, b)[x] = s[a + x - 1]
  OBVIOUS
<1> QED BY <1>1, <1>2

\* Texts of the same characters are the same.
LEMMA SameText ==
    ASSUME NEW s \in Seq(Char), NEW t \in Seq(Char), Len(s) = Len(t),
           \A i \in 1..Len(s) : s[i] = t[i]
    PROVE  s = t
BY SeqEqual, Zenon

\* What stripSlashes leaves: nothing of slashes, else what is between the first and
\* the last other character.
LEMMA StripIs ==
    ASSUME NEW s \in Seq(Char)
    PROVE  \/ (\A k \in 1..Len(s) : s[k] = "/") /\ StripSlashes(s) = <<>>
           \/ \E a \in 1..Len(s) : \E b \in a..Len(s) :
                 /\ s[a] # "/" /\ s[b] # "/"
                 /\ \A k \in 1..Len(s) : k < a \/ b < k => s[k] = "/"
                 /\ StripSlashes(s) = SubSeq(s, a, b)
<1> DEFINE inked == {k \in DOMAIN s : s[k] # "/"}
           first == CHOOSE k \in inked : \A l \in inked : k <= l
           last  == CHOOSE k \in inked : \A l \in inked : l <= k
<1>0. DOMAIN s = 1..Len(s) /\ Len(s) \in Nat
  OBVIOUS
<1>1. CASE SlashesOnly(s, 1, Len(s) + 1)
  <2>1. \A k \in 1..Len(s) : s[k] = "/"
    BY <1>0, <1>1 DEF SlashesOnly
  <2> QED BY <1>1, <2>1 DEF StripSlashes
<1>2. CASE ~SlashesOnly(s, 1, Len(s) + 1)
  <2>1. /\ inked # {} /\ inked \in SUBSET Nat
        /\ inked \in SUBSET (0..Len(s)) /\ inked \in SUBSET (1..Len(s))
    BY <1>0, <1>2 DEF SlashesOnly
  <2>2. first \in inked /\ \A l \in inked : first <= l
    <3>1. \E k \in inked : \A l \in inked : k <= l
      <4> HIDE DEF inked
      <4> QED BY <2>1, Smallest
    <3> HIDE DEF inked
    <3> QED BY <3>1
  <2>3. last \in inked /\ \A l \in inked : l <= last
    <3>1. \E k \in inked : \A l \in inked : l <= k
      <4> HIDE DEF inked
      <4> QED BY <1>0, <2>1, Greatest
    <3> HIDE DEF inked
    <3> QED BY <3>1
  <2>4. StripSlashes(s) = SubSeq(s, first, last)
    BY <1>2 DEF StripSlashes
  <2> HIDE DEF first, last
  <2>5. first \in 1..Len(s) /\ last \in first..Len(s) /\ s[first] # "/" /\ s[last] # "/"
    BY <1>0, <2>2, <2>3
  <2>6. \A k \in 1..Len(s) : k < first \/ last < k => s[k] = "/"
    BY <1>0, <2>2, <2>3
  <2> QED BY <2>4, <2>5, <2>6
<1> QED BY <1>1, <1>2

\* What is left begins and ends with something else than a slash.
Tidy(t) == t \in Seq(Char) /\ (t # <<>> => t[1] # "/" /\ t[Len(t)] # "/")

\* What joinPaths leaves of a text begins and ends with no slash, and adds nothing.
LEMMA StripTidies ==
    ASSUME NEW s \in Seq(Char)
    PROVE  /\ Tidy(StripSlashes(s))
           /\ \A x \in 1..Len(StripSlashes(s)) : \E k \in 1..Len(s) : StripSlashes(s)[x] = s[k]
<1>1. CASE StripSlashes(s) = <<>>
  BY <1>1 DEF Tidy
<1>2. ASSUME NEW a \in 1..Len(s), NEW b \in a..Len(s), s[a] # "/", s[b] # "/",
             StripSlashes(s) = SubSeq(s, a, b)
      PROVE  /\ Tidy(StripSlashes(s))
             /\ \A x \in 1..Len(StripSlashes(s)) : \E k \in 1..Len(s) : StripSlashes(s)[x] = s[k]
  <2> DEFINE t == SubSeq(s, a, b)
  <2>1. t \in Seq(Char) /\ Len(t) = b - a + 1 /\ \A x \in 1..(b - a + 1) : t[x] = s[a + x - 1]
    BY StretchIs
  <2>2. t[1] = s[a] /\ t[Len(t)] = s[b]
    <3>1. Len(s) \in Nat
      OBVIOUS
    <3> HIDE DEF t
    <3>2. 1 \in 1..(b - a + 1) /\ b - a + 1 \in 1..(b - a + 1)
      BY <3>1
    <3>3. t[1] = s[a + 1 - 1] /\ t[b - a + 1] = s[a + (b - a + 1) - 1]
      BY <2>1, <3>2, Zenon
    <3>4. a + 1 - 1 = a /\ a + (b - a + 1) - 1 = b
      BY <3>1
    <3> QED BY <2>1, <3>3, <3>4
  <2>3. \A x \in 1..Len(t) : \E k \in 1..Len(s) : t[x] = s[k]
    <3> TAKE x \in 1..Len(t)
    <3>1. Len(s) \in Nat
      OBVIOUS
    <3> HIDE DEF t
    <3>2. x \in 1..(b - a + 1) /\ a + x - 1 \in 1..Len(s)
      BY <2>1, <3>1
    <3> QED BY <2>1, <3>2
  <2> QED BY <1>2, <2>1, <2>2, <2>3 DEF Tidy
<1> QED BY <1>1, <1>2, StripIs

\* A slash before a text.
LEMMA BehindSlash ==
    ASSUME NEW t \in Seq(Char)
    PROVE  /\ <<"/">> \o t \in Seq(Char)
           /\ Len(<<"/">> \o t) = Len(t) + 1
           /\ (<<"/">> \o t)[1] = "/"
           /\ \A x \in 1..Len(t) : (<<"/">> \o t)[x + 1] = t[x]
BY Texts

-----------------------------------------------------------------------------
\* B says where each of the first k texts ss begins in the path p: in order, none
\* touching the next, and with nothing but slashes around them.  Blank ones are
\* nowhere.
Laid(B, p, ss, k) ==
    /\ B \in [1..k -> Nat]
    /\ \A i \in 1..k : ss[i] # <<>> =>
          /\ B[i] >= 1 /\ B[i] + Len(ss[i]) <= Len(p) + 1
          /\ \A x \in 1..Len(ss[i]) : p[B[i] + x - 1] = ss[i][x]
    /\ \A i, j \in 1..k : i < j /\ ss[i] # <<>> /\ ss[j] # <<>> => B[i] + Len(ss[i]) < B[j]
    /\ \A q \in 1..Len(p) :
          \/ p[q] = "/"
          \/ \E i \in 1..k : ss[i] # <<>> /\ B[i] <= q /\ q < B[i] + Len(ss[i])

\* All is d characters further in C than in B.
Shifted(C, B, ss, k, d) == \A i \in 1..k : ss[i] # <<>> => C[i] = B[i] + d

\* A path that is moved by d characters, between slashes, is laid out the same.
LEMMA Moved ==
    ASSUME NEW k \in Nat, NEW ss, \A i \in 1..k : Tidy(ss[i]),
           NEW p \in Seq(Char), NEW q \in Seq(Char), NEW d \in Int,
           NEW B, Laid(B, p, ss, k),
           \A x \in 1..Len(p) : p[x] # "/" => x + d \in 1..Len(q),
           \A y \in 1..Len(q) : q[y] = IF y - d \in 1..Len(p) THEN p[y - d] ELSE "/"
    PROVE  \E C : Laid(C, q, ss, k) /\ Shifted(C, B, ss, k, d)
<1> DEFINE C == [i \in 1..k |-> IF ss[i] = <<>> THEN 0 ELSE B[i] + d]
<1>0. Len(p) \in Nat /\ Len(q) \in Nat
  OBVIOUS
<1>1. ASSUME NEW i \in 1..k, ss[i] # <<>>
      PROVE  /\ C[i] = B[i] + d /\ C[i] \in Nat /\ B[i] \in Nat /\ Len(ss[i]) \in Nat \ {0}
             /\ C[i] >= 1 /\ C[i] + Len(ss[i]) <= Len(q) + 1
             /\ \A x \in 1..Len(ss[i]) : q[C[i] + x - 1] = ss[i][x]
  <2>1. /\ B[i] \in Nat /\ B[i] >= 1 /\ B[i] + Len(ss[i]) <= Len(p) + 1
        /\ \A x \in 1..Len(ss[i]) : p[B[i] + x - 1] = ss[i][x]
    BY <1>1 DEF Laid
  <2>2. ss[i] \in Seq(Char) /\ Len(ss[i]) \in Nat \ {0} /\ ss[i][1] # "/" /\ ss[i][Len(ss[i])] # "/"
    <3>1. ss[i] \in Seq(Char) /\ ss[i][1] # "/" /\ ss[i][Len(ss[i])] # "/"
      BY <1>1 DEF Tidy
    <3> QED BY <3>1, <1>1
  <2>3. C[i] = B[i] + d
    BY <1>1
  <2> DEFINE n == Len(ss[i])
             b == B[i]
  <2>4. b \in 1..Len(p) /\ b + n - 1 \in 1..Len(p) /\ p[b] # "/" /\ p[b + n - 1] # "/"
    <3>0. (\A x \in 1..n : p[b + x - 1] = ss[i][x]) /\ 1 \in 1..n /\ n \in 1..n
      BY <2>1, <2>2
    <3>1. p[b + 1 - 1] = ss[i][1] /\ p[b + n - 1] = ss[i][n]
      <4> HIDE DEF n, b
      <4> QED BY <3>0, Zenon
    <3>2. b + 1 - 1 = b /\ b \in 1..Len(p) /\ b + n - 1 \in 1..Len(p)
      <4>1. b \in Nat /\ b >= 1 /\ b + n <= Len(p) + 1 /\ n \in Nat \ {0}
        BY <2>1, <2>2, Zenon
      <4> HIDE DEF n, b
      <4> QED BY <4>1, <1>0
    <3> QED BY <2>2, <3>1, <3>2
  <2>5. b + d \in 1..Len(q) /\ b + n - 1 + d \in 1..Len(q)
    BY <2>4
  <2>6. \A x \in 1..n : q[b + d + x - 1] = ss[i][x]
    <3> TAKE x \in 1..n
    <3> DEFINE y == b + d + x - 1
    <3>0. b \in Nat /\ n \in Nat
      BY <2>1, <2>2
    <3> HIDE DEF n, b
    <3>1. y \in 1..Len(q) /\ y - d = b + x - 1 /\ y - d \in 1..Len(p)
      BY <3>0, <2>4, <2>5, <1>0
    <3>2. q[y] = p[y - d]
      <4> HIDE DEF y
      <4> QED BY <3>1
    <3>3. p[b + x - 1] = ss[i][x]
      BY <2>1 DEF n, b
    <3>4. q[y] = ss[i][x]
      <4> HIDE DEF y
      <4> QED BY <3>1, <3>2, <3>3
    <3> QED BY <3>4
  <2>7. \A x \in 1..n : q[C[i] + x - 1] = ss[i][x]
    BY <2>3, <2>6, Zenon
  <2>8. C[i] \in Nat /\ C[i] >= 1 /\ C[i] + n <= Len(q) + 1
    <3>1. b \in Nat /\ n \in Nat /\ C[i] = b + d
      BY <2>1, <2>2, <2>3
    <3> HIDE DEF C, n, b
    <3> QED BY <2>5, <3>1, <1>0
  <2> QED BY <2>1, <2>2, <2>3, <2>7, <2>8, Zenon
<1>2. C \in [1..k -> Nat]
  BY <1>1
<1>3. ASSUME NEW i \in 1..k, NEW j \in 1..k, i < j, ss[i] # <<>>, ss[j] # <<>>
      PROVE  C[i] + Len(ss[i]) < C[j]
  <2>1. B[i] + Len(ss[i]) < B[j]
    BY <1>3 DEF Laid
  <2>2. C[i] = B[i] + d /\ B[i] \in Nat /\ C[j] = B[j] + d /\ B[j] \in Nat /\ Len(ss[i]) \in Nat
    BY <1>1, <1>3
  <2> DEFINE b == B[i]
             c == B[j]
             n == Len(ss[i])
  <2>3. b + d + n < c + d
    <3>1. b \in Nat /\ c \in Nat /\ n \in Nat /\ b + n < c
      BY <2>1, <2>2, Zenon
    <3> HIDE DEF b, c, n
    <3> QED BY <3>1
  <2> HIDE DEF C
  <2> QED BY <2>2, <2>3, Zenon
<1>4. ASSUME NEW y \in 1..Len(q), q[y] # "/"
      PROVE  \E i \in 1..k : ss[i] # <<>> /\ C[i] <= y /\ y < C[i] + Len(ss[i])
  <2>1. y - d \in 1..Len(p) /\ q[y] = p[y - d]
    BY <1>4
  <2>2. PICK i \in 1..k : ss[i] # <<>> /\ B[i] <= y - d /\ y - d < B[i] + Len(ss[i])
    BY <2>1, <1>4 DEF Laid
  <2>3. C[i] = B[i] + d /\ B[i] \in Nat /\ Len(ss[i]) \in Nat
    BY <1>1, <2>2
  <2> HIDE DEF C
  <2>4. C[i] <= y /\ y < C[i] + Len(ss[i])
    BY <2>2, <2>3
  <2> QED BY <2>2, <2>4
<1>5. Laid(C, q, ss, k)
  <2>1. \A i \in 1..k : ss[i] # <<>> =>
          /\ C[i] >= 1 /\ C[i] + Len(ss[i]) <= Len(q) + 1
          /\ \A x \in 1..Len(ss[i]) : q[C[i] + x - 1] = ss[i][x]
    BY <1>1
  <2> HIDE DEF C
  <2> QED BY <1>2, <1>3, <1>4, <2>1 DEF Laid
<1>6. Shifted(C, B, ss, k, d)
  BY <1>1 DEF Shifted
<1> HIDE DEF C
<1> QED BY <1>5, <1>6, Zenon

\* Joining makes a path of a path, laid out the same; if anything is written, one
\* slash leads.
LEMMA JoiningLaid ==
    ASSUME NEW k \in Nat, NEW ss, \A i \in 1..k : Tidy(ss[i]),
           NEW p \in Seq(Char), NEW B, Laid(B, p, ss, k)
    PROVE  /\ Joining(p) \in Seq(Char)
           /\ \E C : Laid(C, Joining(p), ss, k)
           /\ (\E i \in 1..k : ss[i] # <<>>) =>
                 Len(Joining(p)) >= 2 /\ Joining(p)[1] = "/" /\ Joining(p)[2] # "/"
<1>0. Len(p) \in Nat
  OBVIOUS
<1>1. Joining(p) \in Seq(Char)
  BY StripSlashesType, Texts DEF Joining
<1>2. CASE (\A x \in 1..Len(p) : p[x] = "/") /\ StripSlashes(p) = <<>>
  <2> DEFINE q == Joining(p)
  <2>1. q = <<>> \/ q = <<"/">>
    BY <1>2 DEF Joining
  <2>2. \A y \in 1..Len(q) : q[y] = IF y - 0 \in 1..Len(p) THEN p[y - 0] ELSE "/"
    <3> HIDE DEF q
    <3> TAKE y \in 1..Len(q)
    <3>1. q[y] = "/" /\ y - 0 = y
      BY <2>1
    <3> QED BY <1>2, <3>1
  <2>3. \E C : Laid(C, q, ss, k)
    <3> HIDE DEF q
    <3>1. q \in Seq(Char)
      BY <1>1 DEF q
    <3>2. \A x \in 1..Len(p) : p[x] # "/" => x + 0 \in 1..Len(q)
      BY <1>2
    <3>3. 0 \in Int
      OBVIOUS
    <3> QED BY <2>2, <3>1, <3>2, <3>3, Moved, Zenon
  <2>4. ASSUME NEW i \in 1..k, ss[i] # <<>> PROVE FALSE
    <3>1. ss[i] \in Seq(Char) /\ ss[i][1] # "/" /\ B[i] \in Nat /\ B[i] >= 1
          /\ B[i] + Len(ss[i]) <= Len(p) + 1
          /\ \A x \in 1..Len(ss[i]) : p[B[i] + x - 1] = ss[i][x]
      BY <2>4 DEF Laid, Tidy
    <3>2. Len(ss[i]) \in Nat /\ Len(ss[i]) >= 1
      BY <2>4, <3>1
    <3>3. B[i] + 1 - 1 \in 1..Len(p) /\ 1 \in 1..Len(ss[i])
      BY <3>1, <3>2, <1>0
    <3>4. p[B[i] + 1 - 1] = ss[i][1]
      BY <3>1, <3>3, Zenon
    <3> QED BY <1>2, <3>1, <3>3, <3>4, Zenon
  <2> QED BY <1>1, <2>3, <2>4
<1>3. ASSUME NEW a \in 1..Len(p), NEW b \in a..Len(p), p[a] # "/", p[b] # "/",
             \A x \in 1..Len(p) : x < a \/ b < x => p[x] = "/",
             StripSlashes(p) = SubSeq(p, a, b)
      PROVE  /\ \E C : Laid(C, Joining(p), ss, k)
             /\ Len(Joining(p)) >= 2 /\ Joining(p)[1] = "/" /\ Joining(p)[2] # "/"
  <2> DEFINE t == SubSeq(p, a, b)
             q == <<"/">> \o t
             d == 2 - a
  <2>1. t \in Seq(Char) /\ Len(t) = b - a + 1 /\ \A x \in 1..(b - a + 1) : t[x] = p[a + x - 1]
    BY StretchIs
  <2>2. Joining(p) = q
    <3>1. p # <<"/">>
      BY <1>3
    <3> QED BY <1>3, <3>1 DEF Joining
  <2>3. Len(q) = b - a + 2 /\ q[1] = "/" /\ \A y \in 2..(b - a + 2) : q[y] = p[y - d]
    <3>1. a \in Nat /\ b \in Nat /\ a <= b
      BY <1>0
    <3> HIDE DEF t
    <3>2. Len(q) = b - a + 2 /\ q[1] = "/" /\ \A x \in 1..Len(t) : q[x + 1] = t[x]
      <4>1. Len(q) = Len(t) + 1 /\ q[1] = "/" /\ \A x \in 1..Len(t) : q[x + 1] = t[x]
        BY <2>1, BehindSlash
      <4> HIDE DEF q
      <4> QED BY <2>1, <3>1, <4>1
    <3>3. ASSUME NEW y \in 2..(b - a + 2) PROVE q[y] = p[y - d]
      <4>1. q[y] = t[y - 1] /\ y - 1 \in 1..(b - a + 1)
        <5> DEFINE z == y - 1
        <5>1. z \in 1..Len(t) /\ z + 1 = y /\ z \in 1..(b - a + 1)
          BY <2>1, <3>1
        <5> HIDE DEF z, q
        <5>2. q[z + 1] = t[z]
          BY <3>2, <5>1
        <5> QED BY <5>1, <5>2 DEF z
      <4>2. t[y - 1] = p[a + (y - 1) - 1]
        <5> DEFINE z == y - 1
        <5> HIDE DEF z
        <5>1. z \in 1..(b - a + 1)
          BY <4>1 DEF z
        <5>2. t[z] = p[a + z - 1]
          BY <2>1, <5>1
        <5> QED BY <5>2 DEF z
      <4>3. a + (y - 1) - 1 = y - d
        BY <3>1
      <4> QED BY <4>1, <4>2, <4>3
    <3> QED BY <3>2, <3>3
  <2>4. \A y \in 1..Len(q) : q[y] = IF y - d \in 1..Len(p) THEN p[y - d] ELSE "/"
    <3> HIDE DEF q
    <3> TAKE y \in 1..Len(q)
    <3>1. CASE y = 1
      <4>1. y - d = a - 1
        BY <3>1, <1>0
      <4>2. a - 1 \in 1..Len(p) => p[a - 1] = "/"
        BY <1>0, <1>3
      <4> HIDE DEF d
      <4> QED BY <3>1, <4>1, <4>2, <2>3
    <3>2. CASE y # 1
      <4>1. y \in 2..(b - a + 2) /\ y - d \in 1..Len(p)
        BY <3>2, <2>3, <1>0
      <4> HIDE DEF d
      <4> QED BY <4>1, <2>3
    <3> QED BY <3>1, <3>2
  <2>5. \A x \in 1..Len(p) : p[x] # "/" => x + d \in 1..Len(q)
    <3> HIDE DEF q
    <3> TAKE x \in 1..Len(p)
    <3>1. p[x] # "/" => a <= x /\ x <= b
      BY <1>0, <1>3
    <3> QED BY <3>1, <2>3, <1>0
  <2>6. d \in Int /\ q \in Seq(Char)
    BY <1>0, <1>1, <2>2
  <2>7. \E C : Laid(C, q, ss, k)
    <3> HIDE DEF q, d
    <3> QED BY <2>4, <2>5, <2>6, Moved, Zenon
  <2>8. q[2] # "/" /\ Len(q) >= 2
    <3>1. 2 - d = a /\ 2 \in 2..(b - a + 2) /\ b - a + 2 >= 2
      BY <1>0
    <3> HIDE DEF q, d
    <3>2. q[2] = p[2 - d]
      BY <2>3, <3>1
    <3> QED BY <3>1, <3>2, <2>3, <1>3
  <2> HIDE DEF q
  <2> QED BY <2>2, <2>3, <2>7, <2>8
<1>4. CASE \E a \in 1..Len(p) : \E b \in a..Len(p) :
                 /\ p[a] # "/" /\ p[b] # "/"
                 /\ \A k_1 \in 1..Len(p) : k_1 < a \/ b < k_1 => p[k_1] = "/"
                 /\ StripSlashes(p) = SubSeq(p, a, b)
  BY <1>1, <1>3, <1>4, Zenon
<1> QED BY <1>1, <1>2, <1>4, StripIs, Zenon

\* The last text ends where the path ends.
EndsIt(B, p, ss, k) == ss[k] # <<>> => B[k] + Len(ss[k]) = Len(p) + 1

\* One more text behind a slash is laid out behind the others.
LEMMA AppendLaid ==
    ASSUME NEW k \in Nat, NEW ss, \A i \in 1..(k + 1) : Tidy(ss[i]),
           NEW p \in Seq(Char), NEW B, Laid(B, p, ss, k),
           NEW t \in Seq(Char), StripSlashes(t) = ss[k + 1]
    PROVE  LET q == p \o Joining(t)
           IN  \E C : Laid(C, q, ss, k + 1) /\ EndsIt(C, q, ss, k + 1)
<1> DEFINE q == p \o Joining(t)
           u == ss[k + 1]
           C == [i \in 1..(k + 1) |-> IF i = k + 1 THEN Len(p) + 2 ELSE B[i]]
<1>0. Len(p) \in Nat /\ u \in Seq(Char) /\ Len(u) \in Nat
  <2>1. k + 1 \in 1..(k + 1)
    OBVIOUS
  <2> QED BY <2>1 DEF Tidy
<1>1. \/ Joining(t) = <<>> /\ u = <<>>
      \/ Joining(t) = <<"/">> \o u
  <2>1. StripSlashes(<<"/">>) = <<>>
    BY DEF StripSlashes, SlashesOnly
  <2> QED BY <2>1 DEF Joining
<1>2. /\ q \in Seq(Char) /\ Len(q) >= Len(p) /\ Len(q) \in Nat
      /\ \A x \in 1..Len(p) : q[x] = p[x]
  <2>1. Joining(t) \in Seq(Char)
    BY StripSlashesType, Texts DEF Joining
  <2> HIDE DEF u
  <2> QED BY <2>1
<1>3. \/ u = <<>> /\ (\A x \in 1..Len(q) : Len(p) < x => q[x] = "/")
      \/ /\ u # <<>> /\ Len(q) = Len(p) + 1 + Len(u)
         /\ q[Len(p) + 1] = "/"
         /\ \A x \in 1..Len(u) : q[Len(p) + 2 + x - 1] = u[x]
  <2> HIDE DEF u
  <2>1. CASE Joining(t) = <<>> /\ u = <<>>
    BY <2>1, <1>0
  <2>2. CASE Joining(t) = <<"/">> \o u
    <3> DEFINE v == <<"/">> \o u
    <3>1. v \in Seq(Char) /\ Len(v) = Len(u) + 1 /\ v[1] = "/" /\ \A x \in 1..Len(u) : v[x + 1] = u[x]
      BY <1>0, Texts
    <3>2. q = p \o v
      BY <2>2
    <3> HIDE DEF v
    <3>3. Len(q) = Len(p) + 1 + Len(u) /\ q[Len(p) + 1] = v[1]
      BY <1>0, <3>1, <3>2
    <3>4. ASSUME NEW x \in 1..Len(u) PROVE q[Len(p) + 2 + x - 1] = u[x]
      <4>1. q[Len(p) + (x + 1)] = v[x + 1]
        BY <1>0, <3>1, <3>2
      <4>2. Len(p) + (x + 1) = Len(p) + 2 + x - 1
        BY <1>0
      <4> QED BY <4>1, <4>2, <3>1
    <3>5. u = <<>> => \A x \in 1..Len(q) : Len(p) < x => q[x] = "/"
      <4>1. u = <<>> => Len(q) = Len(p) + 1
        BY <3>3, <1>0
      <4> QED BY <4>1, <3>1, <3>3, <1>0
    <3> QED BY <3>1, <3>3, <3>4, <3>5
  <2> QED BY <1>1, <2>1, <2>2
<1>4. /\ B \in [1..k -> Nat]
      /\ \A i \in 1..k : C[i] = B[i] /\ C[i] \in Nat
      /\ C[k + 1] = Len(p) + 2 /\ C \in [1..(k + 1) -> Nat]
  <2>1. B \in [1..k -> Nat]
    BY DEF Laid
  <2>2. \A i \in 1..k : i \in 1..(k + 1) /\ i # k + 1
    OBVIOUS
  <2>3. \A i \in 1..(k + 1) : i # k + 1 => i \in 1..k
    OBVIOUS
  <2>4. \A i \in 1..k : C[i] = B[i] /\ C[i] \in Nat
    BY <2>1, <2>2
  <2>5. C[k + 1] = Len(p) + 2
    OBVIOUS
  <2>6. C \in [1..(k + 1) -> Nat]
    BY <2>1, <2>3, <1>0
  <2> QED BY <2>1, <2>4, <2>5, <2>6
<1> HIDE DEF C, q
<1>5. \A i \in 1..(k + 1) : i \in 1..k \/ i = k + 1
  OBVIOUS
<1>6. ASSUME NEW i \in 1..(k + 1), ss[i] # <<>>
      PROVE  /\ C[i] >= 1 /\ C[i] + Len(ss[i]) <= Len(q) + 1
             /\ \A x \in 1..Len(ss[i]) : q[C[i] + x - 1] = ss[i][x]
  <2>1. CASE i \in 1..k
    <3>1. /\ C[i] \in Nat /\ C[i] >= 1 /\ C[i] + Len(ss[i]) <= Len(p) + 1
          /\ \A x \in 1..Len(ss[i]) : p[C[i] + x - 1] = ss[i][x]
      <4>1. C[i] = B[i] /\ C[i] \in Nat
        BY <2>1, <1>4
      <4>2. /\ B[i] >= 1 /\ B[i] + Len(ss[i]) <= Len(p) + 1
            /\ \A x \in 1..Len(ss[i]) : p[B[i] + x - 1] = ss[i][x]
        BY <2>1, <1>6, Zenon DEF Laid
      <4> QED BY <4>1, <4>2
    <3>2. Len(ss[i]) \in Nat
      BY DEF Tidy
    <3>3. \A x \in 1..Len(ss[i]) : C[i] + x - 1 \in 1..Len(p)
      BY <3>1, <3>2, <1>0, SMTT(30)
    <3>4. \A x \in 1..Len(ss[i]) : q[C[i] + x - 1] = ss[i][x]
      BY <3>1, <3>3, <1>2, Zenon
    <3>5. C[i] + Len(ss[i]) <= Len(q) + 1
      BY <3>1, <3>2, <1>2, <1>0
    <3> QED BY <3>1, <3>4, <3>5
  <2>2. CASE i = k + 1
    <3>1. u # <<>> /\ ss[i] = u /\ C[i] = Len(p) + 2
      BY <1>6, <2>2, <1>4
    <3>2. /\ Len(q) = Len(p) + 1 + Len(u)
          /\ \A x \in 1..Len(u) : q[Len(p) + 2 + x - 1] = u[x]
      BY <3>1, <1>3
    <3> HIDE DEF u
    <3> QED BY <3>1, <3>2, <1>0
  <2> QED BY <2>1, <2>2, <1>5
<1>7. ASSUME NEW i \in 1..(k + 1), NEW j \in 1..(k + 1), i < j, ss[i] # <<>>, ss[j] # <<>>
      PROVE  C[i] + Len(ss[i]) < C[j]
  <2>1. i \in 1..k /\ (j \in 1..k \/ j = k + 1)
    BY <1>7
  <2>2. C[i] = B[i] /\ C[i] \in Nat /\ Len(ss[i]) \in Nat
    BY <2>1, <1>4 DEF Tidy
  <2>3. CASE j \in 1..k
    <3>1. B[i] + Len(ss[i]) < B[j]
      BY <2>1, <2>3, <1>7, Zenon DEF Laid
    <3> QED BY <3>1, <2>2, <2>3, <1>4
  <2>4. CASE j = k + 1
    <3>1. B[i] + Len(ss[i]) <= Len(p) + 1
      BY <2>1, <1>7, Zenon DEF Laid
    <3> QED BY <3>1, <2>2, <2>4, <1>4, <1>0
  <2> QED BY <2>1, <2>3, <2>4
<1>8. ASSUME NEW x \in 1..Len(q), q[x] # "/"
      PROVE  \E i \in 1..(k + 1) : ss[i] # <<>> /\ C[i] <= x /\ x < C[i] + Len(ss[i])
  <2>1. CASE x <= Len(p)
    <3>1. x \in 1..Len(p) /\ p[x] # "/"
      BY <2>1, <1>8, <1>2, <1>0
    <3>2. PICK i \in 1..k : ss[i] # <<>> /\ B[i] <= x /\ x < B[i] + Len(ss[i])
      BY <3>1, Zenon DEF Laid
    <3>3. i \in 1..(k + 1) /\ C[i] = B[i]
      BY <1>4
    <3> QED BY <3>2, <3>3
  <2>2. CASE ~(x <= Len(p))
    <3>0. x \in Nat /\ Len(p) < x
      BY <2>2, <1>0, <1>2
    <3>1. u # <<>> /\ Len(q) = Len(p) + 1 + Len(u) /\ q[Len(p) + 1] = "/"
      <4> HIDE DEF u
      <4>1. ~ \A x_1 \in 1..Len(q) : Len(p) < x_1 => q[x_1] = "/"
        BY <3>0, <1>8, Zenon
      <4> QED BY <4>1, <1>3, Zenon
    <3>2. x # Len(p) + 1
      BY <3>1, <1>8
    <3> HIDE DEF u
    <3>3. Len(p) + 2 <= x /\ x < Len(p) + 2 + Len(u)
      BY <3>0, <3>1, <3>2, <1>0
    <3>4. k + 1 \in 1..(k + 1)
      OBVIOUS
    <3>5. C[k + 1] <= x /\ x < C[k + 1] + Len(u)
      BY <3>3, <1>4
    <3>6. ss[k + 1] # <<>> /\ C[k + 1] <= x /\ x < C[k + 1] + Len(ss[k + 1])
      BY <3>1, <3>5, Zenon DEF u
    <3> QED BY <3>4, <3>6, Zenon
  <2> QED BY <2>1, <2>2
<1>9. Laid(C, q, ss, k + 1)
  BY <1>4, <1>6, <1>7, <1>8 DEF Laid
<1>10. EndsIt(C, q, ss, k + 1)
  <2> HIDE DEF u
  <2>1. u # <<>> => C[k + 1] + Len(u) = Len(q) + 1
    <3>1. u # <<>> => Len(q) = Len(p) + 1 + Len(u)
      BY <1>3, Zenon
    <3>2. C[k + 1] = Len(p) + 2
      BY <1>4
    <3> DEFINE c == C[k + 1]
               l == Len(p)
               m == Len(q)
               n == Len(u)
    <3>3. l \in Nat /\ n \in Nat /\ c = l + 2 /\ (u # <<>> => m = l + 1 + n)
      BY <1>0, <3>1, <3>2, Zenon
    <3> HIDE DEF c, l, m, n
    <3>4. u # <<>> => c + n = m + 1
      BY <3>3
    <3> QED BY <3>4, Zenon DEF c, m, n
  <2> QED BY <2>1 DEF EndsIt, u
<1> QED BY <1>9, <1>10 DEF q

\* A bare text is laid out by itself.
LEMMA BareLaid ==
    ASSUME NEW ss, NEW t \in Seq(Char), StripSlashes(t) = ss[1]
    PROVE  \E C : Laid(C, t, ss, 1) /\ (t = ss[1] => EndsIt(C, t, ss, 1))
<1>0. Len(t) \in Nat /\ 1..1 = {1}
  OBVIOUS
<1>1. CASE (\A x \in 1..Len(t) : t[x] = "/") /\ StripSlashes(t) = <<>>
  <2> DEFINE C == [i \in 1..1 |-> 0]
  <2>1. C \in [1..1 -> Nat]
    OBVIOUS
  <2>2. \A i \in 1..1 : ss[i] = <<>>
    <3>1. ss[1] = <<>>
      BY <1>1, Zenon
    <3>2. \A i \in 1..1 : i = 1
      OBVIOUS
    <3> QED BY <3>1, <3>2, Zenon
  <2> HIDE DEF C
  <2>3. Laid(C, t, ss, 1)
    BY <1>1, <2>1, <2>2, Zenon DEF Laid
  <2>4. EndsIt(C, t, ss, 1)
    BY <1>1, Zenon DEF EndsIt
  <2> QED BY <2>3, <2>4, Zenon
<1>2. ASSUME NEW a \in 1..Len(t), NEW b \in a..Len(t), t[a] # "/", t[b] # "/",
             \A x \in 1..Len(t) : x < a \/ b < x => t[x] = "/",
             StripSlashes(t) = SubSeq(t, a, b)
      PROVE  \E C : Laid(C, t, ss, 1) /\ (t = ss[1] => EndsIt(C, t, ss, 1))
  <2> DEFINE C == [i \in 1..1 |-> a]
             u == SubSeq(t, a, b)
  <2>1. u \in Seq(Char) /\ Len(u) = b - a + 1 /\ \A x \in 1..(b - a + 1) : u[x] = t[a + x - 1]
    BY StretchIs
  <2>2. C \in [1..1 -> Nat] /\ (\A i \in 1..1 : C[i] = a) /\ a \in Nat /\ b \in Nat /\ a >= 1 /\ b <= Len(t)
    BY <1>0
  <2>3. \A i \in 1..1 : i = 1 /\ ss[i] = u
    <3>1. ss[1] = u
      BY <1>2, Zenon
    <3>2. \A i \in 1..1 : i = 1
      OBVIOUS
    <3> QED BY <3>1, <3>2, Zenon
  <2> HIDE DEF C, u
  <2>4. \A i \in 1..1 : /\ C[i] >= 1 /\ C[i] + Len(ss[i]) <= Len(t) + 1
                        /\ \A x \in 1..Len(ss[i]) : t[C[i] + x - 1] = ss[i][x]
    <3> TAKE i \in 1..1
    <3>1. C[i] = a /\ ss[i] = u
      BY <2>2, <2>3
    <3>2. a >= 1 /\ a + Len(u) <= Len(t) + 1
      BY <1>0, <2>1, <2>2
    <3>3. \A x \in 1..Len(u) : t[a + x - 1] = u[x]
      BY <2>1
    <3> QED BY <3>1, <3>2, <3>3
  <2>5. \A i, j \in 1..1 : ~(i < j)
    OBVIOUS
  <2>6. ASSUME NEW q \in 1..Len(t), t[q] # "/"
        PROVE  \E i \in 1..1 : ss[i] # <<>> /\ C[i] <= q /\ q < C[i] + Len(ss[i])
    <3>1. a <= q /\ q <= b
      BY <2>6, <1>2, <1>0
    <3>2. 1 \in 1..1 /\ C[1] = a /\ ss[1] = u
      BY <2>2, <2>3, <1>0
    <3>3. u # <<>> /\ a <= q /\ q < a + Len(u)
      BY <3>1, <2>1, <2>2
    <3> QED BY <3>2, <3>3
  <2>7. Laid(C, t, ss, 1)
    BY <2>2, <2>4, <2>5, <2>6, Zenon DEF Laid
  <2>8. ASSUME t = ss[1] PROVE EndsIt(C, t, ss, 1)
    <3>1. C[1] = a /\ t = u /\ ss[1] = u
      BY <2>8, <1>0, <2>2, <2>3
    <3>2. a + Len(u) = Len(t) + 1
      BY <3>1, <2>1, <2>2, <1>0
    <3> QED BY <3>1, <3>2 DEF EndsIt
  <2> QED BY <2>7, <2>8, Zenon
<1>3. CASE \E a \in 1..Len(t) : \E b \in a..Len(t) :
                 /\ t[a] # "/" /\ t[b] # "/"
                 /\ \A k \in 1..Len(t) : k < a \/ b < k => t[k] = "/"
                 /\ StripSlashes(t) = SubSeq(t, a, b)
  BY <1>2, <1>3, Zenon
<1> QED BY <1>1, <1>3, StripIs, Zenon

\* A url that begins with two slashes.
TwoLeads(p) == Len(p) >= 2 /\ p[1] = "/" /\ p[2] = "/"

\* The path group of a url without an authority, a query and a fragment is all of it.
LEMMA UriPathWhole ==
    ASSUME NEW p \in Seq(Char), ~TwoLeads(p), \A k \in 1..Len(p) : p[k] \notin {"?", "#"}
    PROVE  UriPath(p) = p
<1> DEFINE stop == {"?", "#"}
           ends == {k \in 1..(Len(p) + 1) : k = Len(p) + 1 \/ p[k] \in stop}
<1>0. Len(p) \in Nat
  OBVIOUS
<1>1. ends = {Len(p) + 1}
  <2>1. \A k \in 1..(Len(p) + 1) : k \in 1..Len(p) \/ k = Len(p) + 1
    BY <1>0
  <2>2. Len(p) + 1 \in ends
    BY <1>0
  <2> QED BY <2>1, <2>2
<1>2. FirstOf(p, 1, stop) = Len(p) + 1
  <2>1. \A l \in ends : Len(p) + 1 <= l
    BY <1>0, <1>1
  <2>2. (CHOOSE k \in ends : \A l \in ends : k <= l) = Len(p) + 1
    <3> HIDE DEF ends
    <3> QED BY <1>1, <2>1
  <2> QED BY <2>2 DEF FirstOf
<1>3. UriPath(p) = SubSeq(p, 1, Len(p) + 1 - 1)
  BY <1>2 DEF UriPath, TwoLeads
<1>4. Len(p) + 1 - 1 = Len(p)
  BY <1>0
<1>5. SubSeq(p, 1, Len(p)) = p
  OBVIOUS
<1> QED BY <1>3, <1>4, <1>5

\* Where no slash is, is a character of a text.
LEMMA LaidInk ==
    ASSUME NEW k \in Nat, NEW ss, \A i \in 1..k : ss[i] \in Seq(Char),
           NEW p \in Seq(Char), NEW B, Laid(B, p, ss, k),
           NEW q \in 1..Len(p), p[q] # "/"
    PROVE  \E i \in 1..k : \E x \in 1..Len(ss[i]) : p[q] = ss[i][x]
<1>1. PICK i \in 1..k : ss[i] # <<>> /\ B[i] <= q /\ q < B[i] + Len(ss[i])
  BY Zenon DEF Laid
<1>2. B[i] \in Nat /\ \A x \in 1..Len(ss[i]) : p[B[i] + x - 1] = ss[i][x]
  BY <1>1 DEF Laid
<1> DEFINE y == q - B[i] + 1
<1>3. Len(ss[i]) \in Nat
  OBVIOUS
<1>4. y \in 1..Len(ss[i]) /\ B[i] + y - 1 = q
  BY <1>1, <1>2, <1>3
<1> HIDE DEF y
<1>5. p[B[i] + y - 1] = ss[i][y]
  BY <1>2, <1>4
<1> QED BY <1>4, <1>5

\* A path behind a slash is laid out one further.
LEMMA MovedBySlash ==
    ASSUME NEW p \in Seq(Char)
    PROVE  LET q == <<"/">> \o p
           IN  \A y \in 1..Len(q) : q[y] = IF y - 1 \in 1..Len(p) THEN p[y - 1] ELSE "/"
<1> DEFINE q == <<"/">> \o p
<1>0. Len(p) \in Nat
  OBVIOUS
<1>1. q \in Seq(Char) /\ Len(q) = Len(p) + 1 /\ q[1] = "/" /\ \A x \in 1..Len(p) : q[x + 1] = p[x]
  BY BehindSlash
<1> HIDE DEF q
<1>2. ASSUME NEW y \in 1..Len(q)
      PROVE  q[y] = IF y - 1 \in 1..Len(p) THEN p[y - 1] ELSE "/"
  <2>1. CASE y = 1
    BY <2>1, <1>1
  <2>2. CASE y # 1
    <3> DEFINE z == y - 1
    <3>1. z \in 1..Len(p) /\ z + 1 = y
      BY <2>2, <1>1, <1>0
    <3> HIDE DEF z
    <3>2. q[y] = p[z]
      BY <1>1, <3>1
    <3> QED BY <3>1, <3>2 DEF z
  <2> QED BY <2>1, <2>2
<1> QED BY <1>2 DEF q

\* So a path that is laid out stays so behind a slash.
LEMMA LaidBehindSlash ==
    ASSUME NEW k \in Nat, NEW ss, \A i \in 1..k : Tidy(ss[i]),
           NEW p \in Seq(Char), NEW B, Laid(B, p, ss, k)
    PROVE  \E C : Laid(C, <<"/">> \o p, ss, k) /\ Shifted(C, B, ss, k, 1)
<1> DEFINE q == <<"/">> \o p
           d == 1
<1>1. q \in Seq(Char) /\ Len(q) = Len(p) + 1 /\ d \in Int
  BY BehindSlash
<1>2. \A y \in 1..Len(q) : q[y] = IF y - d \in 1..Len(p) THEN p[y - d] ELSE "/"
  BY MovedBySlash
<1> HIDE DEF q
<1>3. \A x \in 1..Len(p) : p[x] # "/" => x + d \in 1..Len(q)
  <2>1. Len(p) \in Nat
    OBVIOUS
  <2>2. \A x \in 1..Len(p) : x + d \in 1..Len(q)
    BY <1>1, <2>1
  <2> QED BY <2>2, Zenon
<1> HIDE DEF d
<1>4. \E C : Laid(C, q, ss, k) /\ Shifted(C, B, ss, k, d)
  BY <1>1, <1>2, <1>3, Moved, Zenon
<1> QED BY <1>4, Zenon DEF q, d

\* What the server receives over a wire is laid out as it was written.
LEMMA SentLaid ==
    ASSUME NEW k \in Nat, NEW ss, \A i \in 1..k : Tidy(ss[i]),
           NEW p \in Seq(Char), NEW B, Laid(B, p, ss, k), ~TwoLeads(p),
           \A i \in 1..k : \A x \in 1..Len(ss[i]) : ss[i][x] \notin {"?", "#"}
    PROVE  LET q == IF p # <<>> /\ p[1] = "/" THEN UriPath(p) ELSE UriPath(<<"/">> \o p)
           IN  /\ q \in Seq(Char)
               /\ \E C : Laid(C, q, ss, k) /\ (k \in 1..k /\ EndsIt(B, p, ss, k) => EndsIt(C, q, ss, k))
<1>0. Len(p) \in Nat /\ \A i \in 1..k : ss[i] \in Seq(Char)
  BY DEF Tidy
<1>1. \A x \in 1..Len(p) : p[x] \notin {"?", "#"}
  <2> SUFFICES ASSUME NEW x \in 1..Len(p), p[x] \in {"?", "#"} PROVE FALSE
    OBVIOUS
  <2>1. p[x] # "/"
    OBVIOUS
  <2>2. PICK i \in 1..k : \E z \in 1..Len(ss[i]) : p[x] = ss[i][z]
    BY <2>1, <1>0, LaidInk
  <2> QED BY <2>2
<1>2. CASE p # <<>> /\ p[1] = "/"
  <2>1. UriPath(p) = p
    BY <1>1, UriPathWhole
  <2> QED BY <1>2, <2>1
<1>3. CASE ~(p # <<>> /\ p[1] = "/")
  <2> DEFINE q == <<"/">> \o p
  <2>1. q \in Seq(Char) /\ Len(q) = Len(p) + 1 /\ q[1] = "/" /\ \A x \in 1..Len(p) : q[x + 1] = p[x]
    BY BehindSlash
  <2> HIDE DEF q
  <2>2. \A y \in 1..Len(q) : q[y] = IF y - 1 \in 1..Len(p) THEN p[y - 1] ELSE "/"
    BY MovedBySlash DEF q
  <2>3. UriPath(q) = q
    <3>1. ~TwoLeads(q)
      <4> SUFFICES ASSUME TwoLeads(q) PROVE FALSE
        OBVIOUS
      <4>1. Len(p) >= 1 /\ q[2] = "/"
        BY <2>1, <1>0 DEF TwoLeads
      <4>2. 2 - 1 = 1 /\ 2 \in 1..Len(q) /\ 1 \in 1..Len(p)
        BY <4>1, <2>1, <1>0
      <4>3. q[2] = p[1]
        BY <2>2, <4>2
      <4>4. p # <<>>
        BY <4>1
      <4> QED BY <4>1, <4>3, <4>4, <1>3
    <3>2. \A y \in 1..Len(q) : q[y] \notin {"?", "#"}
      BY <2>2, <1>1
    <3> QED BY <3>1, <3>2, <2>1, UriPathWhole
  <2>4. PICK C : Laid(C, <<"/">> \o p, ss, k) /\ Shifted(C, B, ss, k, 1)
    BY LaidBehindSlash, Zenon
  <2>7. Laid(C, q, ss, k)
    BY <2>4, Zenon DEF q
  <2>5. ASSUME k \in 1..k, EndsIt(B, p, ss, k) PROVE EndsIt(C, q, ss, k)
    <3> SUFFICES ASSUME ss[k] # <<>> PROVE C[k] + Len(ss[k]) = Len(q) + 1
      BY DEF EndsIt
    <3>1. C[k] = B[k] + 1 /\ B[k] + Len(ss[k]) = Len(p) + 1
      BY <2>4, <2>5 DEF EndsIt, Shifted
    <3>2. B[k] \in Nat /\ Len(ss[k]) \in Nat
      BY <2>5, <1>0 DEF Laid
    <3> QED BY <3>1, <3>2, <2>1, <1>0
  <2>6. UriPath(<<"/">> \o p) = q
    BY <2>3 DEF q
  <2> QED BY <1>3, <2>1, <2>5, <2>6, <2>7, Zenon
<1> QED BY <1>2, <1>3

\* joinPaths puts one slash before a text.
LEMMA JoiningLeads ==
    ASSUME NEW t \in Seq(Char)
    PROVE  Joining(t) \in Seq(Char) /\ ~TwoLeads(Joining(t))
<1>1. Joining(t) \in Seq(Char)
  BY StripSlashesType, Texts DEF Joining
<1>2. CASE t = <<"/">>
  <2>1. Joining(t) = <<>>
    BY <1>2 DEF Joining
  <2> QED BY <1>1, <2>1 DEF TwoLeads
<1>3. CASE t # <<"/">>
  <2> DEFINE u == StripSlashes(t)
             q == <<"/">> \o u
  <2>1. Joining(t) = q /\ Tidy(u)
    BY <1>3, StripTidies DEF Joining
  <2>2. Len(q) = Len(u) + 1 /\ \A x \in 1..Len(u) : q[x + 1] = u[x]
    BY <2>1, BehindSlash DEF Tidy
  <2> HIDE DEF u, q
  <2>3. ASSUME TwoLeads(q) PROVE FALSE
    <3>1. Len(u) \in Nat /\ Len(u) >= 1 /\ q[2] = "/"
      BY <2>1, <2>2, <2>3 DEF Tidy, TwoLeads
    <3>2. 1 \in 1..Len(u) /\ 1 + 1 = 2 /\ u # <<>>
      BY <3>1
    <3>3. q[1 + 1] = u[1]
      BY <2>2, <3>2
    <3> QED BY <2>1, <3>1, <3>2, <3>3 DEF Tidy
  <2> QED BY <1>1, <2>1, <2>3
<1> QED BY <1>2, <1>3

\* An empty path has no texts.
LEMMA NoneLaid == ASSUME NEW ss PROVE \E B : Laid(B, <<>>, ss, 0)
<1> DEFINE B == [i \in 1..0 |-> 0]
<1>1. B \in [1..0 -> Nat]
  OBVIOUS
<1>2. (\A i \in 1..0 : FALSE) /\ \A i \in 1..Len(<<>>) : FALSE
  OBVIOUS
<1> HIDE DEF B
<1>3. Laid(B, <<>>, ss, 0)
  BY <1>1, <1>2, Zenon DEF Laid
<1> QED BY <1>3, Zenon

-----------------------------------------------------------------------------
FromClient == from \in {"memory", "node"}

\* All that a client writes, and how many texts.
Ss == [i \in 1..Len(Pieces) |-> Stripped(i)]
All == Len(Pieces)

\* The first k texts are laid out in the path, and the last ends it.
Lies(k) ==
    \E B : /\ Laid(B, path, Ss, k)
           /\ k > 0 /\ (template.bare => texts[1] = Ss[1]) => EndsIt(B, path, Ss, k)

\* What Joined.expand has written so far, and how many slashes lead.
WrittenSoFar ==
    /\ Lies(level - 1)
    /\ level = 1 => path = <<>>
    /\ template.bare /\ level = 2 => path = texts[1]
    /\ ~template.bare =>
          /\ level = 2 /\ texts[1] = <<"/">> => path = <<"/">>
          /\ level = 3 /\ texts[1] = <<"/">> => ~TwoLeads(path)
          /\ (\E i \in 1..(level - 2) : Ss[i] # <<>>) => ~TwoLeads(path)

\* The server reads the path to its end.
Whole ==
    from = "node" =>
        SingleLead /\ \A i \in 1..All : \A k \in 1..Len(texts[i]) : texts[i][k] \notin {"?", "#"}

LayInv ==
    FromClient =>
        /\ texts \in [1..All -> Seq(Char)]
        /\ \A i \in 1..All : Pieces[i].kind = "literal" => texts[i] = Pieces[i].text
        /\ phase = "expand" => WrittenSoFar
        /\ phase # "expand" /\ Whole => Lies(All)

\* Nothing is written at first.
LEMMA InitLayInv == Init => LayInv
<1> SUFFICES ASSUME Init, FromClient PROVE LayInv
  BY DEF LayInv
<1>1. Pieces \in Seq(Matcher) /\ DOMAIN Pieces = 1..All /\ All \in Nat
  BY TemplateType DEF Init, All
<1>2. /\ texts \in [DOMAIN Pieces -> Text \union {Pieces[i].text : i \in DOMAIN Pieces}]
      /\ \A i \in DOMAIN Pieces : texts[i] \in Written(Pieces[i])
      /\ phase = "expand" /\ path = <<>> /\ level = 1
  BY DEF Init, FromClient
<1>3. \A i \in DOMAIN Pieces : Pieces[i].text \in Seq(Char)
  <2>1. \A i \in DOMAIN Pieces : Pieces[i] \in Matcher
    BY <1>1
  <2> QED BY <2>1 DEF Matcher
<1>4. texts \in [1..All -> Seq(Char)]
  <2>1. Text \union {Pieces[i].text : i \in DOMAIN Pieces} \subseteq Seq(Char)
    BY <1>3, Texts
  <2> QED BY <1>1, <1>2, <2>1
<1>5. \A i \in 1..All : Pieces[i].kind = "literal" => texts[i] = Pieces[i].text
  <2> TAKE i \in 1..All
  <2> HAVE Pieces[i].kind = "literal"
  <2>1. texts[i] \in Written(Pieces[i])
    BY <1>1, <1>2
  <2>2. Written(Pieces[i]) = {Pieces[i].text}
    BY DEF Written
  <2> QED BY <2>1, <2>2
<1>6. WrittenSoFar
  <2>1. level - 1 = 0 /\ ~(level = 2) /\ ~(level = 3) /\ ~(0 > 0) /\ \A i \in 1..(level - 2) : FALSE
    BY <1>2
  <2>2. Lies(0)
    BY <1>2, <2>1, NoneLaid, Zenon DEF Lies
  <2> QED BY <1>2, <2>1, <2>2, Zenon DEF WrittenSoFar
<1> QED BY <1>2, <1>4, <1>5, <1>6 DEF LayInv

\* What the texts of a client look like.
LEMMA SsType ==
    ASSUME All \in Nat, texts \in [1..All -> Seq(Char)]
    PROVE  /\ \A i \in 1..All : Tidy(Ss[i]) /\ Ss[i] = StripSlashes(texts[i]) /\ Ss[i] = Stripped(i)
           /\ \A i \in 1..All : \A x \in 1..Len(Ss[i]) : \E k \in 1..Len(texts[i]) : Ss[i][x] = texts[i][k]
<1>1. \A i \in 1..All : Ss[i] = StripSlashes(texts[i]) /\ Ss[i] = Stripped(i) /\ texts[i] \in Seq(Char)
  BY DEF Ss, All, Stripped
<1>2. ASSUME NEW i \in 1..All
      PROVE  Tidy(Ss[i]) /\ \A x \in 1..Len(Ss[i]) : \E k \in 1..Len(texts[i]) : Ss[i][x] = texts[i][k]
  BY <1>1, StripTidies
<1> QED BY <1>1, <1>2, Zenon

\* Every level of Joined.expand writes its text behind the ones before.
LEMMA ExpandLayInv == PInv /\ LayInv /\ Expand => LayInv'
<1> SUFFICES ASSUME PInv, LayInv, Expand, FromClient PROVE LayInv'
  BY DEF LayInv, FromClient, Expand
<1>1. /\ level \in 1..All /\ All \in Nat /\ path \in Seq(Char)
      /\ template.bare => All = 1
      /\ UNCHANGED <<All, Ss>> /\ level' = level + 1 /\ phase' = "expand" /\ phase = "expand"
      /\ template' = template /\ texts' = texts
  <2>1. template \in Template /\ level \in 1..(Len(Pieces) + 1) /\ path \in Seq(Char)
    BY DEF PInv, PathsTypeOK
  <2>2. Pieces \in Seq(Matcher) /\ (template.bare => Len(Pieces) = 1)
    BY <2>1, TemplateType
  <2>3. UNCHANGED <<template, texts>> /\ level <= Len(Pieces) /\ level' = level + 1 /\ phase' = phase /\ phase = "expand"
    BY DEF Expand
  <2>4. UNCHANGED <<All, Ss>>
    BY <2>3 DEF All, Ss, Pieces, Stripped
  <2> QED BY <2>1, <2>2, <2>3, <2>4 DEF All
<1>2. /\ texts \in [1..All -> Seq(Char)] /\ WrittenSoFar
      /\ \A i \in 1..All : Pieces[i].kind = "literal" => texts[i] = Pieces[i].text
  BY <1>1 DEF LayInv
<1>3. \A i \in 1..All : Tidy(Ss[i]) /\ Ss[i] = StripSlashes(texts[i])
  BY <1>1, <1>2, SsType
<1>4. level \in Nat /\ level - 1 \in Nat /\ texts[level] \in Seq(Char) /\ level - 1 + 1 = level
      /\ (\A i \in 1..level : i \in 1..All) /\ (\A i \in 1..(level - 1) : i \in 1..All /\ i \in 1..level)
  BY <1>1, <1>2
<1>5. CASE template.bare
  <2>1. level = 1 /\ path' = texts[1] /\ All = 1
    BY <1>1, <1>5 DEF Expand
  <2>2. PICK C : Laid(C, texts[1], Ss, 1) /\ (texts[1] = Ss[1] => EndsIt(C, texts[1], Ss, 1))
    <3>1. StripSlashes(texts[1]) = Ss[1] /\ texts[1] \in Seq(Char)
      BY <1>3, <1>4, <2>1
    <3> QED BY <3>1, BareLaid, Zenon
  <2>4. level' = 2 /\ level' - 1 = 1 /\ level' # 1
    BY <1>1, <2>1
  <2>3. Lies(level - 1)'
    BY <1>1, <1>5, <2>1, <2>2, <2>4, Zenon DEF Lies
  <2>5. WrittenSoFar'
    BY <1>1, <1>5, <2>1, <2>3, <2>4, Zenon DEF WrittenSoFar
  <2> QED BY <1>1, <1>2, <2>5 DEF LayInv, FromClient, All, Pieces
<1>6. CASE ~template.bare
  <2> DEFINE p == Joining(path)
             t == texts[level]
  <2>1. path' = p \o Joining(t)
    BY <1>6 DEF Expand, JoinPaths
  <2>2. PICK B : Laid(B, path, Ss, level - 1)
    BY <1>2, Zenon DEF WrittenSoFar, Lies
  <2>3. /\ p \in Seq(Char)
        /\ \E C : Laid(C, p, Ss, level - 1)
        /\ (\E i \in 1..(level - 1) : Ss[i] # <<>>) =>
              Len(p) >= 2 /\ p[1] = "/" /\ p[2] # "/"
    <3>1. \A i \in 1..(level - 1) : Tidy(Ss[i])
      BY <1>3, <1>4
    <3> QED BY <1>1, <1>4, <2>2, <3>1, JoiningLaid, Zenon
  <2>4. PICK D : Laid(D, path', Ss, level) /\ EndsIt(D, path', Ss, level)
    <3>1. PICK C : Laid(C, p, Ss, level - 1)
      BY <2>3, Zenon
    <3> DEFINE k == level - 1
    <3>2. \A i \in 1..(k + 1) : Tidy(Ss[i])
      BY <1>3, <1>4
    <3>3. k \in Nat /\ StripSlashes(t) = Ss[k + 1] /\ t \in Seq(Char) /\ Laid(C, p, Ss, k)
      BY <1>3, <1>4, <3>1
    <3>4. k + 1 = level
      BY <1>4
    <3> HIDE DEF k, p, t
    <3>5. \E D : Laid(D, p \o Joining(t), Ss, k + 1) /\ EndsIt(D, p \o Joining(t), Ss, k + 1)
      BY <2>3, <3>2, <3>3, AppendLaid, Zenon
    <3> QED BY <2>1, <3>4, <3>5
  <2>5. Lies(level - 1)'
    <3>1. level' - 1 = level
      BY <1>1
    <3> QED BY <1>1, <2>4, <3>1, Zenon DEF Lies
  <2>6. level' # 1 /\ ~template'.bare
    BY <1>1, <1>6
  <2>7. ASSUME level' = 2, texts'[1] = <<"/">> PROVE path' = <<"/">>
    <3>1. level = 1 /\ path = <<>> /\ t = <<"/">>
      BY <1>1, <1>2, <2>7 DEF WrittenSoFar
    <3>2. StripSlashes(<<>>) = <<>> /\ Joining(<<"/">>) = <<>>
      BY DEF StripSlashes, SlashesOnly, Joining
    <3>3. Joining(<<>>) = <<"/">> \o <<>>
      BY <3>2 DEF Joining
    <3> QED BY <2>1, <3>1, <3>2, <3>3, Texts, SMTT(20)
  <2>8. ASSUME level' = 3, texts'[1] = <<"/">> PROVE ~TwoLeads(path')
    <3>1. level = 2 /\ path = <<"/">>
      BY <1>1, <1>2, <1>6, <2>8 DEF WrittenSoFar
    <3>2. p = <<>>
      BY <3>1 DEF Joining
    <3>3. Joining(t) \in Seq(Char) /\ ~TwoLeads(Joining(t))
      BY <1>4, JoiningLeads
    <3>4. <<>> \o Joining(t) = Joining(t)
      BY <3>3
    <3> QED BY <2>1, <3>2, <3>3, <3>4
  <2>9. ASSUME NEW i \in 1..(level' - 2), Ss'[i] # <<>> PROVE ~TwoLeads(path')
    <3>1. i \in 1..(level - 1) /\ Ss[i] # <<>>
      BY <1>1, <2>9
    <3>2. Len(p) >= 2 /\ p[2] # "/"
      BY <2>3, <3>1, Zenon
    <3>3. Joining(t) \in Seq(Char)
      BY <1>4, JoiningLeads
    <3>4. path'[2] = p[2]
      <4> HIDE DEF p
      <4> QED BY <2>1, <2>3, <3>2, <3>3
    <3> QED BY <3>2, <3>4 DEF TwoLeads
  <2>10. WrittenSoFar'
    BY <2>5, <2>6, <2>7, <2>8, <2>9, Zenon DEF WrittenSoFar
  <2> QED BY <1>1, <1>2, <2>10 DEF LayInv, FromClient, All, Pieces
<1> QED BY <1>5, <1>6

\* The server reads all of it: in memory always, over node unless an authority, a
\* query or a fragment is read into it.
LEMMA SendLayInv == PInv /\ LayInv /\ Send => LayInv'
<1> SUFFICES ASSUME PInv, LayInv, Send, FromClient PROVE LayInv'
  BY DEF LayInv, FromClient, Send
<1>1. /\ level = All + 1 /\ All \in Nat /\ path \in Seq(Char) /\ phase = "expand"
      /\ template.bare => All = 1
      /\ UNCHANGED <<All, Ss>> /\ phase' = "consume" /\ path' = Received(path)
      /\ template' = template /\ texts' = texts /\ from' = from
  <2>1. template \in Template /\ level \in 1..(Len(Pieces) + 1) /\ path \in Seq(Char)
    BY DEF PInv, PathsTypeOK
  <2>2. Pieces \in Seq(Matcher) /\ (template.bare => Len(Pieces) = 1)
    BY <2>1, TemplateType
  <2>3. /\ UNCHANGED <<template, texts, from>> /\ level > Len(Pieces) /\ phase' = "consume" /\ phase = "expand"
        /\ path' = Received(path)
    BY DEF Send
  <2>4. UNCHANGED <<All, Ss>>
    BY <2>3 DEF All, Ss, Pieces, Stripped
  <2> QED BY <2>1, <2>2, <2>3, <2>4 DEF All
<1>2. /\ texts \in [1..All -> Seq(Char)] /\ WrittenSoFar
      /\ \A i \in 1..All : Pieces[i].kind = "literal" => texts[i] = Pieces[i].text
  BY <1>1 DEF LayInv
<1>3. /\ \A i \in 1..All : Tidy(Ss[i]) /\ Ss[i] = Stripped(i)
      /\ \A i \in 1..All : \A x \in 1..Len(Ss[i]) : \E k \in 1..Len(texts[i]) : Ss[i][x] = texts[i][k]
  BY <1>1, <1>2, SsType
<1>4. level - 1 = All /\ level - 2 = All - 1
  BY <1>1
<1>5. PICK B : /\ Laid(B, path, Ss, All)
               /\ All > 0 /\ (template.bare => texts[1] = Ss[1]) => EndsIt(B, path, Ss, All)
  BY <1>2, <1>4, Zenon DEF WrittenSoFar, Lies
<1>6. ASSUME Whole PROVE Lies(All)'
  <2>1. CASE from = "memory"
    <3>1. path' = path
      BY <1>1, <2>1 DEF Received
    <3> QED BY <1>1, <1>5, <3>1, Zenon DEF Lies
  <2>2. CASE from = "node"
    <3>1. SingleLead /\ \A i \in 1..All : \A k \in 1..Len(texts[i]) : texts[i][k] \notin {"?", "#"}
      BY <1>6, <2>2 DEF Whole
    <3>2. \A i \in 1..All : \A x \in 1..Len(Ss[i]) : Ss[i][x] \notin {"?", "#"}
      <4> TAKE i \in 1..All
      <4> TAKE x \in 1..Len(Ss[i])
      <4>1. PICK k \in 1..Len(texts[i]) : Ss[i][x] = texts[i][k]
        BY <1>3, Zenon
      <4> QED BY <3>1, <4>1
    <3>3. ~TwoLeads(path)
      <4>1. CASE template.bare
        <5>1. path = texts[1]
          BY <1>1, <1>2, <4>1 DEF WrittenSoFar
        <5> QED BY <3>1, <4>1, <5>1 DEF SingleLead, TwoLeads
      <4>2. CASE ~template.bare /\ \E i \in 1..(All - 1) : Stripped(i) # <<>>
        <5>1. \A i \in 1..(All - 1) : i \in 1..All
          BY <1>1
        <5>2. \E i \in 1..(All - 1) : Ss[i] # <<>>
          BY <1>3, <4>2, <5>1, Zenon
        <5> QED BY <1>2, <1>4, <4>2, <5>2, Zenon DEF WrittenSoFar
      <4>3. CASE ~template.bare /\ All = 2 /\ texts[1] = <<"/">>
        BY <1>1, <1>2, <4>3 DEF WrittenSoFar
      <4> QED BY <3>1, <4>1, <4>2, <4>3, Zenon DEF SingleLead, All
    <3>4. PICK C : /\ Laid(C, path', Ss, All)
                   /\ All \in 1..All /\ EndsIt(B, path, Ss, All) => EndsIt(C, path', Ss, All)
      <4>1. \A i \in 1..All : Tidy(Ss[i])
        BY <1>3, Zenon
      <4>2. path' = IF path # <<>> /\ path[1] = "/" THEN UriPath(path) ELSE UriPath(<<"/">> \o path)
        BY <1>1, <2>2 DEF Received
      <4> HIDE DEF Ss, All
      <4> QED BY <1>1, <1>5, <3>2, <3>3, <4>1, <4>2, SentLaid
    <3>5. All > 0 => All \in 1..All
      BY <1>1
    <3> QED BY <1>1, <1>5, <3>4, <3>5, Zenon DEF Lies
  <2> QED BY <2>1, <2>2 DEF FromClient
<1>7. Whole' => Whole
  BY <1>1 DEF Whole, SingleLead, All, Pieces, Stripped
<1> QED BY <1>1, <1>2, <1>6, <1>7 DEF LayInv, All, Pieces

\* While the path is read nothing is written.
LEMMA SameLayInv ==
    ASSUME PInv, LayInv, UNCHANGED <<template, texts, from, path>>,
           phase # "expand", phase' # "expand"
    PROVE  LayInv'
<1>1. Lies(All)' = Lies(All)
  BY DEF Lies, All, Pieces, Ss, Stripped
<1>2. Whole' = Whole /\ FromClient' = FromClient /\ All' = All /\ Pieces' = Pieces
  BY DEF Whole, SingleLead, All, Pieces, Stripped, FromClient
<1> QED BY <1>1, <1>2 DEF LayInv

\* So neither a capture changes what was written,
LEMMA ConsumeLayInv == PInv /\ LayInv /\ Consume => LayInv'
<1> SUFFICES ASSUME PInv, LayInv, Consume PROVE LayInv'
  OBVIOUS
<1>1. UNCHANGED <<template, texts, from, path>> /\ phase # "expand" /\ phase' # "expand"
  BY DEF Consume
<1> QED BY <1>1, SameLayInv

\* nor what PathLens decides,
LEMMA DecideLayInv == PInv /\ LayInv /\ Decide => LayInv'
<1> SUFFICES ASSUME PInv, LayInv, Decide PROVE LayInv'
  OBVIOUS
<1>1. UNCHANGED <<template, texts, from, path>> /\ phase # "expand" /\ phase' # "expand"
  BY DEF Decide
<1> QED BY <1>1, SameLayInv

\* nor a step of something else.
LEMMA StutterLayInv == LayInv /\ UNCHANGED vars => LayInv'
<1> SUFFICES ASSUME LayInv, UNCHANGED vars PROVE LayInv'
  OBVIOUS
<1>1. WrittenSoFar' = WrittenSoFar /\ Lies(All)' = Lies(All)
  BY DEF vars, WrittenSoFar, Lies, All, Pieces, Ss, Stripped
<1>2. Whole' = Whole /\ FromClient' = FromClient /\ All' = All /\ Pieces' = Pieces
  BY DEF vars, Whole, SingleLead, All, Pieces, Stripped, FromClient
<1> QED BY <1>1, <1>2 DEF LayInv, vars

\* Whatever is written, it lies in the path that is read as it was written.
THEOREM WrittenInOrder == Spec => []LayInv
<1>1. PInv /\ LayInv /\ [Next]_vars => LayInv'
  BY ExpandLayInv, SendLayInv, ConsumeLayInv, DecideLayInv, StutterLayInv, Zenon DEF Next
<1> QED BY InitLayInv, PathsInductive, <1>1, PTL DEF Spec

-----------------------------------------------------------------------------
\* The text t, between slashes, is in p from b up to e.
TextLies(p, b, e, t) ==
    /\ Len(p) \in Nat /\ Len(t) \in Nat /\ b \in 1..Len(p)
    /\ e = b + Len(t) /\ b < e /\ e <= Len(p) + 1
    /\ p[b] # "/" /\ p[e - 1] # "/"
    /\ e <= Len(p) => p[e] = "/"
    /\ \A x \in 1..Len(t) : p[b + x - 1] = t[x]
    /\ SubSeq(p, b, e - 1) = t

\* A text that is laid out is in the path, and a slash or the end is behind it.
LEMMA LaidText ==
    ASSUME NEW k \in Nat, NEW ss, \A i \in 1..k : Tidy(ss[i]),
           NEW p \in Seq(Char), NEW B, Laid(B, p, ss, k),
           NEW i \in 1..k, ss[i] # <<>>
    PROVE  TextLies(p, B[i], B[i] + Len(ss[i]), ss[i])
<1> DEFINE b == B[i]
           n == Len(ss[i])
           e == b + n
<1>1. /\ Len(p) \in Nat /\ b \in Nat /\ ss[i] \in Seq(Char) /\ n \in Nat /\ n # 0
      /\ ss[i][1] # "/" /\ ss[i][n] # "/"
      /\ b >= 1 /\ e <= Len(p) + 1
      /\ \A x \in 1..n : p[b + x - 1] = ss[i][x]
  <2>1. ss[i] \in Seq(Char) /\ ss[i][1] # "/" /\ ss[i][n] # "/"
    BY DEF Tidy
  <2>2. b \in Nat /\ b >= 1 /\ e <= Len(p) + 1 /\ \A x \in 1..n : p[b + x - 1] = ss[i][x]
    BY DEF Laid
  <2> QED BY <2>1, <2>2
<1>2. b + 1 - 1 = b /\ b + n - 1 = e - 1 /\ 1 \in 1..n /\ n \in 1..n
  <2> HIDE DEF b, n
  <2> QED BY <1>1
<1>3. p[b] # "/" /\ p[e - 1] # "/"
  <2>1. p[b + 1 - 1] = ss[i][1] /\ p[b + n - 1] = ss[i][n]
    <3> HIDE DEF b, n
    <3> QED BY <1>1, <1>2, Zenon
  <2> HIDE DEF b, n, e
  <2> QED BY <1>1, <1>2, <2>1
<1>4. b \in 1..Len(p) /\ e \in 2..(Len(p) + 1) /\ b < e /\ n = e - b /\ e - 1 \in b..Len(p)
  <2> HIDE DEF b, n
  <2> QED BY <1>1, SMTT(30)
<1>5. ASSUME e <= Len(p), p[e] # "/" PROVE FALSE
  <2>1. e \in 1..Len(p)
    BY <1>1, <1>4, <1>5
  <2>2. PICK j \in 1..k : ss[j] # <<>> /\ B[j] <= e /\ e < B[j] + Len(ss[j])
    BY <1>5, <2>1, Zenon DEF Laid
  <2>3. B[j] \in Nat /\ Len(ss[j]) \in Nat
    BY DEF Laid, Tidy
  <2>4. CASE j < i
    <3>1. B[j] + Len(ss[j]) < B[i]
      BY <2>2, <2>4, Zenon DEF Laid
    <3> HIDE DEF n
    <3> QED BY <1>1, <2>2, <2>3, <3>1, SMTT(30)
  <2>5. CASE j = i
    BY <1>1, <2>2, <2>3, <2>5
  <2>6. CASE i < j
    <3>1. e < B[j]
      BY <2>2, <2>6, Zenon DEF Laid
    <3> HIDE DEF e
    <3> QED BY <1>4, <2>2, <2>3, <3>1
  <2> QED BY <2>4, <2>5, <2>6
<1>6. SubSeq(p, b, e - 1) = ss[i]
  <2> HIDE DEF b, e, n
  <2> DEFINE u == SubSeq(p, b, e - 1)
  <2>1. /\ u \in Seq(Char) /\ Len(u) = e - 1 - b + 1
        /\ \A x \in 1..(e - 1 - b + 1) : u[x] = p[b + x - 1]
    BY <1>4, StretchIs
  <2>2. e - 1 - b + 1 = n
    BY <1>1, <1>4
  <2>3. ss[i] \in Seq(Char) /\ Len(ss[i]) = n
    BY <1>1 DEF n
  <2> HIDE DEF u
  <2>4. Len(u) = Len(ss[i]) /\ \A x \in 1..Len(u) : u[x] = ss[i][x]
    BY <1>1, <2>1, <2>2, <2>3
  <2>5. u = ss[i]
    BY <2>1, <2>3, <2>4, SameText
  <2> QED BY <2>5 DEF u
<1>7. b < e /\ e <= Len(p) + 1 /\ b \in 1..Len(p)
  BY <1>1, <1>4
<1>8. e <= Len(p) => p[e] = "/"
  BY <1>5, Zenon
<1>9. e = b + Len(ss[i]) /\ n = Len(ss[i])
  OBVIOUS
<1>10. TextLies(p, b, e, ss[i])
  <2> HIDE DEF b, n, e
  <2>1. \A x \in 1..Len(ss[i]) : p[b + x - 1] = ss[i][x]
    BY <1>1, <1>9, Zenon
  <2>2. Len(p) \in Nat /\ Len(ss[i]) \in Nat
    BY <1>1, <1>9, Zenon
  <2> QED BY <1>3, <1>6, <1>7, <1>8, <1>9, <2>1, <2>2, Zenon DEF TextLies
<1> QED BY <1>10

\* Slashes lead no further than to the first other character.
LEMMA LeadsTo ==
    ASSUME NEW p \in Seq(Char), NEW a \in Nat, NEW b \in a..Len(p), p[b] # "/",
           NEW w \in a..(Len(p) + 1), Leads(p, a, w)
    PROVE  w <= b /\ (SlashesOnly(p, a, b) => w = b)
<1>0. Len(p) \in Nat
  OBVIOUS
<1>1. w <= b
  BY <1>0 DEF Leads, SlashesOnly
<1>2. ASSUME SlashesOnly(p, a, b), w < b PROVE FALSE
  BY <1>0, <1>2 DEF Leads, SlashesOnly
<1> QED BY <1>0, <1>1, <1>2

\* There is a place to which slashes lead.
LEMMA LeadsExist ==
    ASSUME NEW p \in Seq(Char), NEW a \in 1..(Len(p) + 1)
    PROVE  \E w \in a..(Len(p) + 1) : Leads(p, a, w)
<1> DEFINE ends == {k \in a..(Len(p) + 1) : k = Len(p) + 1 \/ p[k] # "/"}
<1>0. Len(p) \in Nat
  OBVIOUS
<1>1. ends \in SUBSET Nat /\ Len(p) + 1 \in ends
  BY <1>0
<1>2. PICK w \in ends : \A k \in ends : w <= k
  <2> HIDE DEF ends
  <2> QED BY <1>1, Smallest
<1>3. w \in a..(Len(p) + 1) /\ (w <= Len(p) => p[w] # "/")
  BY <1>0
<1>4. \A k \in a..(w - 1) : p[k] = "/"
  <2> TAKE k \in a..(w - 1)
  <2>1. k \notin ends /\ k \in a..(Len(p) + 1)
    BY <1>0, <1>2, <1>3
  <2> QED BY <2>1
<1> QED BY <1>3, <1>4 DEF Leads, SlashesOnly

\* How many slashes there are.
LEMMA SlashCountType ==
    ASSUME NEW s, NEW p \in Nat, NEW j \in Nat
    PROVE  /\ IsFiniteSet({k \in p..(j - 1) : s[k] = "/"})
           /\ SlashCount(s, p, j) \in Nat
           /\ SlashCount(s, p, j) = 0 <=> \A k \in p..(j - 1) : s[k] # "/"
<1> DEFINE S == {k \in p..(j - 1) : s[k] = "/"}
<1>1. IsFiniteSet(S)
  <2>1. IsFiniteSet(p..(j - 1)) /\ S \in SUBSET (p..(j - 1))
    BY FS_Interval
  <2> HIDE DEF S
  <2> QED BY <2>1, FS_Subset
<1>2. Cardinality(S) \in Nat /\ (Cardinality(S) = 0 <=> S = {})
  <2> HIDE DEF S
  <2> QED BY <1>1, FS_CardinalityType, FS_EmptySet
<1>3. S = {} <=> \A k \in p..(j - 1) : s[k] # "/"
  OBVIOUS
<1> QED BY <1>1, <1>2, <1>3 DEF SlashCount

\* Further on there are no fewer, and more behind a slash.
LEMMA SlashCountGrows ==
    ASSUME NEW s, NEW p \in Nat, NEW i \in Nat, NEW j \in Nat, p <= i, i <= j
    PROVE  /\ SlashCount(s, p, i) <= SlashCount(s, p, j)
           /\ i < j /\ s[i] = "/" => SlashCount(s, p, i) < SlashCount(s, p, j)
<1> DEFINE S == {k \in p..(i - 1) : s[k] = "/"}
           T == {k \in p..(j - 1) : s[k] = "/"}
<1>1. IsFiniteSet(T) /\ Cardinality(S) \in Nat /\ Cardinality(T) \in Nat
  BY SlashCountType DEF SlashCount
<1>2. S \in SUBSET T
  OBVIOUS
<1>3. i < j /\ s[i] = "/" => S # T
  <2> SUFFICES ASSUME i < j, s[i] = "/" PROVE S # T
    OBVIOUS
  <2>1. i \in T /\ i \notin S
    OBVIOUS
  <2> HIDE DEF S, T
  <2> QED BY <2>1
<1>4. Cardinality(S) <= Cardinality(T) /\ (Cardinality(T) = Cardinality(S) => T = S)
  <2> HIDE DEF S, T
  <2> QED BY <1>1, <1>2, FS_Subset
<1>5. /\ Cardinality(S) <= Cardinality(T)
      /\ i < j /\ s[i] = "/" => Cardinality(S) < Cardinality(T)
  <2> HIDE DEF S, T
  <2> QED BY <1>1, <1>3, <1>4
<1> QED BY <1>5 DEF SlashCount

\* Wherever a text stands it has as many.
LEMMA SlashCountMoves ==
    ASSUME NEW p, NEW t, NEW n \in Nat, NEW b \in Nat,
           \A x \in 1..n : p[b + x - 1] = t[x]
    PROVE  SlashCount(p, b, b + n) = SlashCount(t, 1, n + 1)
<1> DEFINE S == {k \in 1..(n + 1 - 1) : t[k] = "/"}
           T == {k \in b..(b + n - 1) : p[k] = "/"}
           f == [x \in S |-> b + x - 1]
<1>1. IsFiniteSet(S)
  <2>1. IsFiniteSet(1..n) /\ S \in SUBSET (1..n)
    BY FS_Interval
  <2> HIDE DEF S
  <2> QED BY <2>1, FS_Subset
<1>2. \A x \in S : x \in 1..n /\ f[x] = b + x - 1 /\ f[x] \in T
  <2> TAKE x \in S
  <2>1. x \in 1..n /\ t[x] = "/" /\ b + x - 1 \in b..(b + n - 1)
    OBVIOUS
  <2>2. p[b + x - 1] = "/"
    BY <2>1
  <2> QED BY <2>1, <2>2
<1>3. \A y \in T : \E x \in S : f[x] = y
  <2> TAKE y \in T
  <2> DEFINE x == y - b + 1
  <2>1. x \in 1..n /\ b + x - 1 = y /\ p[y] = "/" /\ n + 1 - 1 = n
    OBVIOUS
  <2> HIDE DEF x
  <2>2. p[b + x - 1] = t[x]
    BY <2>1
  <2>3. x \in S
    BY <2>1, <2>2
  <2> QED BY <2>1, <2>3
<1>4. f \in Bijection(S, T)
  <2>1. f \in [S -> T]
    BY <1>2
  <2>2. \A x, y \in S : f[x] = f[y] => x = y
    <3>1. \A x \in S : x \in Nat /\ f[x] = b + x - 1
      BY <1>2
    <3> HIDE DEF S, f
    <3> QED BY <3>1
  <2>3. DOMAIN f = S
    OBVIOUS
  <2> HIDE DEF S, T, f
  <2> QED BY <1>3, <2>1, <2>2, <2>3 DEF Bijection, Injection, Surjection, IsInjective
<1>5. Cardinality(T) = Cardinality(S)
  <2> HIDE DEF S, T, f
  <2>1. ExistsBijection(S, T)
    BY <1>4 DEF ExistsBijection
  <2> QED BY <1>1, <2>1, FS_Bijection
<1> QED BY <1>5 DEF SlashCount

-----------------------------------------------------------------------------
\* Each matcher whose turn is over has captured something, and behind what matches
\* there is nothing but slashes.
Turns ==
    /\ phase # "expand" => Len(spans) = level - 1
    /\ phase = "matched" => level = All + 1 /\ SlashesOnly(path, at, Len(path) + 1)

\* Each step of the reading counts its captures.
LEMMA TurnsStep == PInv /\ Turns /\ [Next]_vars => Turns'
<1> SUFFICES ASSUME PInv, Turns, [Next]_vars PROVE Turns'
  OBVIOUS
<1>1. /\ level \in 1..(All + 1) /\ All \in Nat /\ spans \in Seq((1..Len(path) + 1) \X (1..Len(path) + 1))
      /\ phase = "expand" => spans = <<>>
  <2>1. template \in Template /\ level \in 1..(Len(Pieces) + 1)
        /\ spans \in Seq((1..Len(path) + 1) \X (1..Len(path) + 1))
        /\ (phase = "expand" => spans = <<>>)
    BY DEF PInv, PathsTypeOK
  <2>2. Pieces \in Seq(Matcher)
    BY <2>1, TemplateType
  <2> QED BY <2>1, <2>2 DEF All
<1>2. CASE Expand
  BY <1>2 DEF Expand, Turns
<1>3. CASE Send
  <2>1. spans' = <<>> /\ level' = 1 /\ phase' = "consume"
    BY <1>1, <1>3 DEF Send
  <2> QED BY <2>1 DEF Turns
<1>4. CASE Consume
  <2>1. phase = "consume" /\ Len(spans) = level - 1
    BY <1>4 DEF Consume, Turns
  <2>2. CASE \E w \in Captures(Pieces[level]) :
             /\ at' = w[2] /\ spans' = Append(spans, w) /\ level' = level + 1 /\ UNCHANGED phase
    <3>1. PICK w \in Captures(Pieces[level]) : spans' = Append(spans, w) /\ level' = level + 1 /\ phase' = phase
      BY <2>2
    <3>2. Len(spans') = Len(spans) + 1
      BY <1>1, <3>1
    <3> QED BY <1>1, <2>1, <3>1, <3>2 DEF Turns
  <2>3. CASE phase' = "wrongRoute" /\ UNCHANGED <<at, spans, level>>
    BY <2>1, <2>3 DEF Turns
  <2> QED BY <1>4, <2>2, <2>3, Zenon DEF Consume
<1>5. CASE Decide
  <2>1. /\ phase = "consume" /\ level > All /\ UNCHANGED <<template, level, path, at, spans>>
        /\ phase' = IF SlashesOnly(path, at, Len(path) + 1) THEN "matched" ELSE "wrongRoute"
    BY <1>5 DEF Decide, All
  <2>2. level = All + 1 /\ All' = All
    BY <1>1, <2>1 DEF All, Pieces
  <2>3. SlashesOnly(path, at, Len(path) + 1)' <=> SlashesOnly(path, at, Len(path) + 1)
    BY <2>1 DEF SlashesOnly
  <2> QED BY <2>1, <2>2, <2>3 DEF Turns
<1>6. CASE UNCHANGED vars
  <2>1. All' = All /\ (SlashesOnly(path, at, Len(path) + 1)' <=> SlashesOnly(path, at, Len(path) + 1))
    BY <1>6 DEF vars, All, Pieces, SlashesOnly
  <2> QED BY <1>6, <2>1 DEF vars, Turns
<1> QED BY <1>2, <1>3, <1>4, <1>5, <1>6, Zenon DEF Next

\* So they are counted at all times.
LEMMA TurnsInv == Spec => []Turns
<1>1. Init => Turns
  BY DEF Init, Turns
<1> QED BY <1>1, TurnsStep, PathsInductive, PTL DEF Spec

-----------------------------------------------------------------------------
\* Every matcher takes one segment, and no text is blank.
Segmental ==
    /\ from = "memory"
    /\ \A i \in 1..All : Pieces[i].kind \in {"literal", "segment", "int", "hex"} /\ Ss[i] # <<>>

\* Where the i-th text ends.
EndOf(B, ss, i) == IF i = 0 THEN 1 ELSE B[i] + Len(ss[i])

\* What the i-th matcher captured of p.
Cut(p, s, i) == SubSeq(p, s[i][1], s[i][2] - 1)

\* The matchers have come no further than what was written for them, and as far
\* only if they captured it.
NoFurther(B) ==
    /\ at <= EndOf(B, Ss, level - 1)
    /\ at = EndOf(B, Ss, level - 1) => \A h \in 1..(level - 1) : Cut(path, spans, h) = Ss[h]

MatchInv ==
    Segmental /\ phase \in {"consume", "matched"} =>
        \E B : Laid(B, path, Ss, All) /\ NoFurther(B)

\* Between two texts are slashes.
LEMMA Between ==
    ASSUME NEW k \in Nat, NEW ss, \A i \in 1..k : Tidy(ss[i]) /\ ss[i] # <<>>,
           NEW p \in Seq(Char), NEW B, Laid(B, p, ss, k), NEW i \in 1..k
    PROVE  LET e == IF i = 1 THEN 1 ELSE B[i - 1] + Len(ss[i - 1])
           IN  e \in 1..B[i] /\ SlashesOnly(p, e, B[i]) /\ (i # 1 => e < B[i])
<1> DEFINE e == IF i = 1 THEN 1 ELSE B[i - 1] + Len(ss[i - 1])
<1>1. /\ Len(p) \in Nat /\ B[i] \in Nat /\ Len(ss[i]) \in Nat /\ B[i] >= 1 /\ B[i] <= Len(p)
  <2>1. (\A j \in 1..k : Tidy(ss[j])) /\ ss[i] # <<>>
    OBVIOUS
  <2>2. Len(p) \in Nat /\ B[i] \in 1..Len(p) /\ Len(ss[i]) \in Nat
    <3>1. TextLies(p, B[i], B[i] + Len(ss[i]), ss[i])
      BY <2>1, LaidText, Zenon
    <3> QED BY <3>1 DEF TextLies
  <2> QED BY <2>2
<1>2. \A j \in 1..k : B[j] \in Nat /\ Len(ss[j]) \in Nat
  BY DEF Laid, Tidy
<1>3. i # 1 => i - 1 \in 1..k /\ i - 1 < i
  OBVIOUS
<1>4. i # 1 => B[i - 1] + Len(ss[i - 1]) < B[i] /\ B[i - 1] >= 1
  BY <1>3, Zenon DEF Laid
<1>5. e \in 1..B[i] /\ (i # 1 => e < B[i])
  BY <1>1, <1>2, <1>3, <1>4
<1>6. ASSUME NEW q \in e..(B[i] - 1), p[q] # "/" PROVE FALSE
  <2>1. q \in 1..Len(p) /\ q < B[i] /\ e <= q
    <3> HIDE DEF e
    <3> QED BY <1>1, <1>5
  <2>2. PICK j \in 1..k : ss[j] # <<>> /\ B[j] <= q /\ q < B[j] + Len(ss[j])
    BY <1>6, <2>1, Zenon DEF Laid
  <2>3. CASE i <= j
    <3>1. CASE i = j
      BY <1>1, <2>1, <2>2, <3>1
    <3>2. CASE i < j
      <4>1. B[i] + Len(ss[i]) < B[j]
        BY <3>2, Zenon DEF Laid
      <4> HIDE DEF e
      <4> QED BY <1>1, <1>2, <2>1, <2>2, <4>1
    <3> QED BY <2>3, <3>1, <3>2
  <2>4. CASE j < i
    <3>1. i # 1 /\ e = B[i - 1] + Len(ss[i - 1])
      BY <2>4
    <3> HIDE DEF e
    <3>2. CASE j = i - 1
      BY <1>1, <1>2, <1>3, <2>1, <2>2, <3>1, <3>2
    <3>3. CASE j < i - 1
      <4>1. B[j] + Len(ss[j]) < B[i - 1]
        BY <1>3, <3>1, <3>3, Zenon DEF Laid
      <4>2. B[i - 1] \in Nat /\ Len(ss[i - 1]) \in Nat /\ B[j] \in Nat /\ Len(ss[j]) \in Nat
        BY <1>2, <1>3, <3>1, Zenon
      <4>3. B[i - 1] <= q
        <5>1. q \in Nat
          BY <2>1
        <5> QED BY <2>1, <3>1, <4>2, <5>1
      <4> QED BY <2>1, <2>2, <4>1, <4>2, <4>3
    <3> QED BY <2>4, <3>2, <3>3
  <2> QED BY <2>3, <2>4
<1>7. e \in 1..B[i] /\ SlashesOnly(p, e, B[i]) /\ (i # 1 => e < B[i])
  BY <1>5, <1>6 DEF SlashesOnly
<1> QED BY <1>7

\* What a literal or a segment takes of a path.
LEMMA TakesOne ==
    ASSUME NEW p \in Seq(Char), NEW m, m.kind \in {"literal", "segment", "int", "hex"},
           NEW b \in 1..(Len(p) + 1), NEW j \in b..(Len(p) + 1), Takes(m, p, b, j)
    PROVE  \/ m.kind = "literal" /\ SubSeq(p, b, j - 1) = StripSlashes(m.text)
           \/ /\ m.kind # "literal" /\ b <= Len(p) /\ (j = Len(p) + 1 \/ p[j] = "/")
              /\ \A k \in b..(j - 1) : p[k] # "/"
<1>1. TakesLiteral(m, p, b, j) \/ TakesSegment(m, p, b, j)
  BY DEF Takes, TakesChars, TakesSegments, TakesRest
<1>2. CASE TakesLiteral(m, p, b, j)
  BY <1>2 DEF TakesLiteral
<1>3. CASE TakesSegment(m, p, b, j)
  <2>1. b \in Nat /\ j \in Nat
    OBVIOUS
  <2>2. m.kind # "literal" /\ b <= Len(p) /\ (j = Len(p) + 1 \/ p[j] = "/") /\ SlashCount(p, b, j) = 0
    BY <1>3 DEF TakesSegment, AtBoundary
  <2> QED BY <2>1, <2>2, SlashCountType
<1> QED BY <1>1, <1>2, <1>3

\* What the invariants say while a path of a client is read.
Reading ==
    /\ FromClient /\ All \in Nat /\ Pieces \in Seq(Matcher) /\ path \in Seq(Char)
    /\ \A i \in 1..All : Tidy(Ss[i]) /\ Ss[i] = StripSlashes(texts[i]) /\ texts[i] \in Seq(Char)
    /\ \A i \in 1..All : Pieces[i].kind = "literal" => texts[i] = Pieces[i].text
    /\ at \in 1..(Len(path) + 1) /\ level \in 1..(All + 1)
    /\ spans \in Seq((1..Len(path) + 1) \X (1..Len(path) + 1)) /\ Len(spans) = level - 1
    /\ template.bare => All = 1

\* The invariants say so.
LEMMA ReadingHolds ==
    ASSUME PInv, LayInv, Turns, FromClient, phase # "expand" PROVE Reading
<1>1. /\ template \in Template /\ path \in Seq(Char) /\ at \in 1..(Len(path) + 1)
      /\ level \in 1..(Len(Pieces) + 1) /\ spans \in Seq((1..Len(path) + 1) \X (1..Len(path) + 1))
  BY DEF PInv, PathsTypeOK
<1>2. Pieces \in Seq(Matcher) /\ All \in Nat /\ (template.bare => All = 1)
  <2>1. Pieces \in Seq(Matcher) /\ (template.bare => Len(Pieces) = 1)
    BY <1>1, TemplateType
  <2> QED BY <2>1 DEF All
<1>3. /\ texts \in [1..All -> Seq(Char)]
      /\ \A i \in 1..All : Pieces[i].kind = "literal" => texts[i] = Pieces[i].text
  BY DEF LayInv
<1>4. \A i \in 1..All : Tidy(Ss[i]) /\ Ss[i] = StripSlashes(texts[i]) /\ texts[i] \in Seq(Char)
  BY <1>2, <1>3, SsType
<1> QED BY <1>1, <1>2, <1>3, <1>4 DEF Turns, Reading, All

\* A capture of a matcher and what the ones before captured.
LEMMA CapturedThen ==
    ASSUME Reading, NEW w \in Captures(Pieces[level]),
           path' = path, spans' = Append(spans, w)
    PROVE  /\ w[1] \in at..(Len(path) + 1) /\ w[2] \in w[1]..(Len(path) + 1)
           /\ Leads(path, at, w[1]) /\ Takes(Pieces[level], path, w[1], w[2])
           /\ Parses(Pieces[level], path, w[1], w[2])
           /\ Cut(path', spans', level) = SubSeq(path, w[1], w[2] - 1)
           /\ \A h \in 1..(level - 1) : Cut(path', spans', h) = Cut(path, spans, h)
<1>1. Len(path) \in Nat /\ at \in Nat /\ level \in Nat /\ Len(spans) = level - 1
      /\ spans \in Seq((1..Len(path) + 1) \X (1..Len(path) + 1))
  BY DEF Reading
<1>2. /\ w \in (at..Len(path) + 1) \X (at..Len(path) + 1)
      /\ w[1] <= w[2] /\ Leads(path, at, w[1])
      /\ Takes(Pieces[level], path, w[1], w[2]) /\ Parses(Pieces[level], path, w[1], w[2])
  BY DEF Captures
<1>3. w[1] \in at..(Len(path) + 1) /\ w[2] \in w[1]..(Len(path) + 1)
  BY <1>1, <1>2
<1>4. spans'[level] = w /\ \A h \in 1..(level - 1) : spans'[h] = spans[h]
  BY <1>1
<1>5. Cut(path', spans', level) = SubSeq(path, w[1], w[2] - 1)
  BY <1>4, Zenon DEF Cut
<1>6. \A h \in 1..(level - 1) : Cut(path', spans', h) = Cut(path, spans, h)
  BY <1>4, Zenon DEF Cut
<1> QED BY <1>2, <1>3, <1>5, <1>6, Zenon

\* A matcher that is no further than its text captures no more than that text, and
\* all of it only if the ones before did so too.
LEMMA MatchMove ==
    ASSUME Reading, Segmental, level <= All,
           NEW B, Laid(B, path, Ss, All), NoFurther(B),
           NEW w \in Captures(Pieces[level]),
           UNCHANGED <<template, texts, from, path>>,
           at' = w[2], spans' = Append(spans, w), level' = level + 1
    PROVE  NoFurther(B)'
<1> DEFINE i == level
           S == Ss[i]
           b == B[i]
           d == IF i = 1 THEN 1 ELSE B[i - 1] + Len(Ss[i - 1])
           e == b + Len(S)
           m == Pieces[i]
<1>1. /\ All \in Nat /\ path \in Seq(Char) /\ Len(path) \in Nat /\ i \in 1..All
      /\ \A h \in 1..All : Tidy(Ss[h]) /\ Ss[h] # <<>> /\ Ss[h] = StripSlashes(texts[h])
      /\ \A h \in 1..All : Pieces[h].kind = "literal" => texts[h] = Pieces[h].text
      /\ \A h \in 1..All : Pieces[h].kind \in {"literal", "segment", "int", "hex"}
      /\ at \in 1..(Len(path) + 1)
  <2>1. All \in Nat /\ path \in Seq(Char) /\ at \in 1..(Len(path) + 1) /\ level \in 1..(All + 1)
    BY DEF Reading
  <2>2. level \in 1..All /\ Len(path) \in Nat
    BY <2>1
  <2>3. \A h \in 1..All : Tidy(Ss[h]) /\ Ss[h] = StripSlashes(texts[h])
    BY DEF Reading
  <2>4. \A h \in 1..All : Pieces[h].kind = "literal" => texts[h] = Pieces[h].text
    BY DEF Reading
  <2>5. \A h \in 1..All : Pieces[h].kind \in {"literal", "segment", "int", "hex"} /\ Ss[h] # <<>>
    BY DEF Segmental
  <2> QED BY <2>1, <2>2, <2>3, <2>4, <2>5, Zenon
<1>2. /\ w[1] \in at..(Len(path) + 1) /\ w[2] \in w[1]..(Len(path) + 1)
      /\ Leads(path, at, w[1]) /\ Takes(m, path, w[1], w[2])
      /\ Cut(path', spans', i) = SubSeq(path, w[1], w[2] - 1)
      /\ \A h \in 1..(i - 1) : Cut(path', spans', h) = Cut(path, spans, h)
  BY CapturedThen
<1>3. /\ b \in 1..Len(path) /\ e \in 2..(Len(path) + 1) /\ b < e
      /\ Len(S) \in Nat /\ Len(S) = e - b
      /\ path[b] # "/" /\ (e <= Len(path) => path[e] = "/") /\ SubSeq(path, b, e - 1) = S
  <2>1. (\A h \in 1..All : Tidy(Ss[h])) /\ Ss[i] # <<>>
    BY <1>1, Zenon
  <2>2. TextLies(path, b, e, S)
    <3> HIDE DEF i
    <3> QED BY <1>1, <2>1, LaidText, Zenon
  <2> HIDE DEF b, S, e
  <2>3. e = b + Len(S)
    BY <2>2, Zenon DEF TextLies
  <2>4. Len(S) \in Nat /\ b \in Nat /\ Len(path) \in Nat
    BY <2>2 DEF TextLies
  <2>5. b \in 1..Len(path) /\ e \in 2..(Len(path) + 1) /\ b < e /\ Len(S) = e - b
    BY <2>2, <2>3, <2>4 DEF TextLies
  <2>6. path[b] # "/"
    BY <2>2, Zenon DEF TextLies
  <2>7. e <= Len(path) => path[e] = "/"
    BY <2>2, Zenon DEF TextLies
  <2>8. SubSeq(path, b, e - 1) = S
    BY <2>2, Zenon DEF TextLies
  <2> QED BY <2>4, <2>5, <2>6, <2>7, <2>8
<1>4. d \in 1..b /\ SlashesOnly(path, d, b) /\ (i # 1 => d < b)
  <2>1. \A h \in 1..All : Tidy(Ss[h]) /\ Ss[h] # <<>>
    BY <1>1, Zenon
  <2> HIDE DEF i
  <2> QED BY <1>1, <2>1, Between, Zenon
<1>5. EndOf(B, Ss, level - 1) = d /\ EndOf(B, Ss, i) = e /\ level' - 1 = i /\ Ss' = Ss
  <2>1. Ss' = Ss
    BY DEF Ss, Pieces, Stripped
  <2>2. (i - 1 = 0 <=> i = 1) /\ i # 0 /\ level' - 1 = i
    BY <1>1
  <2> QED BY <2>1, <2>2 DEF EndOf
<1> HIDE DEF S, b, d, e, m
<1>0. /\ w[1] \in Nat /\ w[2] \in Nat /\ at \in Nat /\ b \in Nat /\ e \in Nat /\ Len(path) \in Nat
      /\ Len(S) \in Nat /\ Len(S) = e - b
      /\ 1 <= at /\ at <= w[1] /\ w[1] <= w[2] /\ w[2] <= Len(path) + 1
  <2>1. w[1] \in at..(Len(path) + 1) /\ w[2] \in w[1]..(Len(path) + 1)
    BY <1>2, Zenon
  <2>2. at \in Nat /\ Len(path) \in Nat /\ 1 <= at
    BY <1>1
  <2>3. w[1] \in Nat /\ w[2] \in Nat /\ at <= w[1] /\ w[1] <= w[2] /\ w[2] <= Len(path) + 1
    BY <2>1, <2>2
  <2> QED BY <1>3, <2>2, <2>3
<1>6. /\ w[2] <= e
      /\ w[2] = e => at = d /\ SubSeq(path, w[1], w[2] - 1) = S
  <2>1. \/ m.kind = "literal" /\ SubSeq(path, w[1], w[2] - 1) = S
        \/ /\ m.kind # "literal" /\ w[1] <= Len(path) /\ (w[2] = Len(path) + 1 \/ path[w[2]] = "/")
           /\ \A k \in w[1]..(w[2] - 1) : path[k] # "/"
    <3>1. m.kind \in {"literal", "segment", "int", "hex"} /\ (m.kind = "literal" => StripSlashes(m.text) = S)
      BY <1>1 DEF m, S
    <3>2. w[1] \in 1..(Len(path) + 1) /\ w[2] \in w[1]..(Len(path) + 1)
      BY <1>1, <1>2
    <3>3. \/ m.kind = "literal" /\ SubSeq(path, w[1], w[2] - 1) = StripSlashes(m.text)
          \/ /\ m.kind # "literal" /\ w[1] <= Len(path) /\ (w[2] = Len(path) + 1 \/ path[w[2]] = "/")
             /\ \A k \in w[1]..(w[2] - 1) : path[k] # "/"
      <4> DEFINE p == w[1]
                 j == w[2]
      <4>1. path \in Seq(Char) /\ p \in 1..(Len(path) + 1) /\ j \in p..(Len(path) + 1) /\ Takes(m, path, p, j)
        BY <1>1, <1>2, <3>2, Zenon
      <4> HIDE DEF p, j
      <4>2. \/ m.kind = "literal" /\ SubSeq(path, p, j - 1) = StripSlashes(m.text)
            \/ /\ m.kind # "literal" /\ p <= Len(path) /\ (j = Len(path) + 1 \/ path[j] = "/")
               /\ \A k \in p..(j - 1) : path[k] # "/"
        BY <3>1, <4>1, TakesOne
      <4> QED BY <4>2, Zenon DEF p, j
    <3> QED BY <3>1, <3>3, Zenon
  <2>2. SubSeq(path, w[1], w[2] - 1) = S => w[2] = w[1] + Len(S)
    <3> SUFFICES ASSUME SubSeq(path, w[1], w[2] - 1) = S PROVE w[2] = w[1] + Len(S)
      OBVIOUS
    <3>1. CASE w[1] = w[2]
      <4>1. SubSeq(path, w[1], w[2] - 1) = <<>>
        BY <1>1, <1>2, <3>1
      <4> QED BY <1>1, <4>1 DEF S
    <3>2. CASE w[1] # w[2]
      <4>1. w[1] \in 1..Len(path) /\ w[2] - 1 \in w[1]..Len(path)
        <5> DEFINE start == w[1]
                   end == w[2]
                   l == Len(path)
        <5>1. /\ start \in Nat /\ end \in Nat /\ at \in Nat /\ l \in Nat /\ start # end
              /\ 1 <= at /\ at <= start /\ start <= end /\ end <= l + 1
          BY <1>0, <3>2, Zenon
        <5> HIDE DEF start, end, l
        <5>2. start \in 1..l /\ end - 1 \in start..l
          BY <5>1, SMT
        <5> QED BY <5>2, Zenon DEF start, end, l
      <4>2. Len(SubSeq(path, w[1], w[2] - 1)) = w[2] - 1 - w[1] + 1
        BY <1>1, <4>1, StretchIs
      <4>3. Len(S) = w[2] - 1 - w[1] + 1
        BY <4>2, Zenon
      <4> DEFINE x == w[1]
                 y == w[2]
                 n == Len(S)
      <4>4. x \in Nat /\ y \in Nat /\ n \in Nat /\ n = y - 1 - x + 1
        BY <1>0, <4>3, Zenon
      <4> HIDE DEF x, y, n
      <4>5. y = x + n
        BY <4>4
      <4> QED BY <4>5, Zenon DEF x, y, n
    <3> QED BY <3>1, <3>2
  <2>3. at <= d
    BY <1>5 DEF NoFurther
  <2>4. CASE at = d
    <3>1. w[1] = b
      <4>1. at \in Nat /\ b \in at..Len(path)
        BY <1>1, <1>3, <1>4, <2>4
      <4> QED BY <1>1, <1>2, <1>3, <1>4, <2>4, <4>1, LeadsTo
    <3>2. CASE SubSeq(path, w[1], w[2] - 1) = S
      <4>1. w[2] = w[1] + Len(S)
        BY <2>2, <3>2
      <4>2. w[2] = e
        <5>1. w[2] = b + Len(S)
          BY <3>1, <4>1, Zenon
        <5> QED BY <1>0, <5>1
      <4>3. e \in Nat
        BY <1>1, <1>3
      <4> QED BY <2>4, <3>2, <4>2, <4>3
    <3>3. CASE (w[2] = Len(path) + 1 \/ path[w[2]] = "/") /\ \A k \in w[1]..(w[2] - 1) : path[k] # "/"
      <4>1. w[2] <= e
        <5> SUFFICES ASSUME e < w[2] PROVE FALSE
          BY <1>0
        <5>1. e \in w[1]..(w[2] - 1) /\ e <= Len(path)
          <6>1. b < e
            BY <1>3
          <6> QED BY <1>0, <3>1, <6>1
        <5> QED BY <1>3, <3>3, <5>1
      <4>2. w[2] = e => SubSeq(path, w[1], w[2] - 1) = S
        BY <1>3, <3>1
      <4> QED BY <2>4, <4>1, <4>2
    <3> QED BY <2>1, <3>2, <3>3
  <2>5. CASE at < d
    <3>1. i # 1 /\ d = B[i - 1] + Len(Ss[i - 1]) /\ i - 1 \in 1..All /\ d < b
      BY <1>1, <1>4, <2>5 DEF d
    <3>2. path[d - 1] # "/" /\ d <= Len(path) + 1 /\ d \in Nat /\ (d <= Len(path) => path[d] = "/") /\ d >= 2
      <4>1. (\A h \in 1..All : Tidy(Ss[h])) /\ Ss[i - 1] # <<>>
        BY <1>1, <3>1, Zenon
      <4> HIDE DEF i
      <4> DEFINE g == i - 1
      <4> HIDE DEF g
      <4>2. TextLies(path, B[g], B[g] + Len(Ss[g]), Ss[g])
        <5>1. g \in 1..All /\ Ss[g] # <<>>
          BY <3>1, <4>1, Zenon DEF g
        <5> QED BY <1>1, <4>1, <5>1, LaidText, Zenon
      <4>3. d = B[g] + Len(Ss[g])
        BY <3>1 DEF g
      <4>4. TextLies(path, B[g], d, Ss[g])
        BY <4>2, <4>3, Zenon
      <4>5. d \in Nat /\ d >= 2
        <5>1. B[g] \in 1..Len(path) /\ Len(Ss[g]) \in Nat /\ d = B[g] + Len(Ss[g]) /\ B[g] < d /\ Len(path) \in Nat
          BY <4>4, Zenon DEF TextLies
        <5> QED BY <5>1
      <4>6. path[d - 1] # "/"
        BY <4>4, Zenon DEF TextLies
      <4>7. d <= Len(path) => path[d] = "/"
        BY <4>4, Zenon DEF TextLies
      <4>8. d <= Len(path) + 1
        BY <4>4, Zenon DEF TextLies
      <4> QED BY <4>5, <4>6, <4>7, <4>8
    <3>3. w[1] <= d - 1
      <4>1. at \in Nat /\ d - 1 \in at..Len(path)
        BY <1>1, <2>5, <3>2
      <4> QED BY <1>1, <1>2, <3>2, <4>1, LeadsTo
    <3>4. w[2] < e
      <4>1. CASE SubSeq(path, w[1], w[2] - 1) = S
        <5>1. w[2] = w[1] + Len(S) /\ Len(S) = e - b
          <6>1. w[2] = w[1] + Len(S)
            BY <2>2, <4>1
          <6> QED BY <1>3, <6>1
        <5>2. w[1] \in Nat /\ w[2] \in Nat /\ b \in Nat /\ e \in Nat /\ d \in Nat
          BY <1>0, <3>2
        <5>3. w[1] <= d - 1 /\ d < b
          BY <3>1, <3>3
        <5> QED BY <5>1, <5>2, <5>3
      <4>2. CASE (w[2] = Len(path) + 1 \/ path[w[2]] = "/") /\ \A k \in w[1]..(w[2] - 1) : path[k] # "/"
        <5>1. w[2] <= d
          <6> SUFFICES ASSUME d < w[2] PROVE FALSE
            BY <1>0, <3>2
          <6>1. d \in w[1]..(w[2] - 1) /\ d <= Len(path)
            BY <1>0, <3>2, <3>3
          <6> QED BY <3>2, <4>2, <6>1
        <5>2. d < b /\ b < e
          BY <1>3, <3>1
        <5> QED BY <1>0, <3>2, <5>1, <5>2
      <4> QED BY <2>1, <4>1, <4>2
    <3> QED BY <1>0, <3>4
  <2> QED BY <1>1, <1>4, <2>3, <2>4, <2>5
<1>7. at' <= EndOf(B, Ss', level' - 1)
  BY <1>5, <1>6, Zenon
<1>8. ASSUME at' = EndOf(B, Ss', level' - 1), NEW h \in 1..(level' - 1)
      PROVE  Cut(path', spans', h) = Ss'[h]
  <2>1. w[2] = e
    BY <1>5, <1>8, Zenon
  <2>2. at = EndOf(B, Ss, level - 1) /\ Cut(path', spans', i) = Ss[i]
    BY <1>2, <1>5, <1>6, <2>1, Zenon DEF S
  <2>3. CASE h = i
    BY <1>5, <2>2, <2>3, Zenon
  <2>4. CASE h # i
    <3>1. h \in 1..(i - 1)
      BY <1>1, <1>5, <2>4
    <3>2. Cut(path, spans, h) = Ss[h]
      BY <2>2, <3>1, Zenon DEF NoFurther
    <3> QED BY <1>2, <1>5, <3>1, <3>2, Zenon
  <2> QED BY <2>3, <2>4
<1> QED BY <1>7, <1>8, Zenon DEF NoFurther

\* The matchers stay behind what was written for them.
LEMMA MatchStep == PInv /\ LayInv /\ LayInv' /\ Turns /\ MatchInv /\ [Next]_vars => MatchInv'
<1> SUFFICES ASSUME PInv, LayInv, LayInv', Turns, MatchInv, [Next]_vars,
                    Segmental', phase' \in {"consume", "matched"}
             PROVE  \E B : Laid(B, path', Ss', All') /\ NoFurther(B)'
  BY DEF MatchInv
<1>1. CASE Expand
  BY <1>1 DEF Expand
<1>2. CASE Send
  <2>1. at' = 1 /\ level' = 1
    BY <1>2 DEF Send, PInv
  <2>2. Lies(All)'
    <3>1. from' = "memory" /\ phase' # "expand"
      BY DEF Segmental
    <3>2. FromClient' /\ Whole'
      BY <3>1 DEF FromClient, Whole
    <3> QED BY <3>1, <3>2 DEF LayInv
  <2>3. PICK B : Laid(B, path', Ss', All')
    BY <2>2, Zenon DEF Lies
  <2>4. level' - 1 = 0
    BY <2>1
  <2>5. EndOf(B, Ss', level' - 1) = 1
    BY <2>4 DEF EndOf
  <2>6. at' <= EndOf(B, Ss', level' - 1) /\ \A h \in 1..(level' - 1) : FALSE
    BY <2>1, <2>4, <2>5
  <2>7. NoFurther(B)'
    BY <2>6, Zenon DEF NoFurther
  <2> QED BY <2>3, <2>7
<1>3. CASE Consume
  <2>1. /\ phase = "consume" /\ UNCHANGED <<template, texts, from, path>> /\ level <= All
        /\ \/ \E w \in Captures(Pieces[level]) : at' = w[2] /\ spans' = Append(spans, w) /\ level' = level + 1
           \/ phase' = "wrongRoute"
    BY <1>3 DEF Consume, All
  <2>2. Segmental /\ Ss' = Ss /\ All' = All
    BY <2>1 DEF Segmental, Ss, All, Pieces, Stripped
  <2>3. Reading
    <3>1. from = "memory"
      BY <2>2 DEF Segmental
    <3> QED BY <2>1, <3>1, ReadingHolds DEF FromClient
  <2>4. PICK B : Laid(B, path, Ss, All) /\ NoFurther(B)
    BY <2>1, <2>2, Zenon DEF MatchInv
  <2>5. PICK w \in Captures(Pieces[level]) : at' = w[2] /\ spans' = Append(spans, w) /\ level' = level + 1
    BY <2>1
  <2>6. NoFurther(B)'
    BY <2>1, <2>2, <2>3, <2>4, <2>5, MatchMove
  <2> QED BY <2>1, <2>2, <2>4, <2>6, Zenon
<1>4. ASSUME UNCHANGED <<template, texts, from, level, path, at, spans>>, phase \in {"consume", "matched"}
      PROVE  \E B : Laid(B, path', Ss', All') /\ NoFurther(B)'
  <2>1. Segmental /\ Ss' = Ss /\ All' = All
    BY <1>4 DEF Segmental, Ss, All, Pieces, Stripped
  <2>2. PICK B : Laid(B, path, Ss, All) /\ NoFurther(B)
    BY <1>4, <2>1, Zenon DEF MatchInv
  <2>3. NoFurther(B)'
    BY <1>4, <2>1, <2>2 DEF NoFurther
  <2> QED BY <1>4, <2>1, <2>2, <2>3
<1>5. CASE Decide
  BY <1>4, <1>5 DEF Decide
<1>6. CASE UNCHANGED vars
  BY <1>4, <1>6 DEF vars
<1> QED BY <1>1, <1>2, <1>3, <1>5, <1>6 DEF Next

\* They do so in every behaviour.
LEMMA MatchInvHolds == Spec => []MatchInv
<1>1. Init => MatchInv
  BY DEF Init, MatchInv, Segmental
<1> QED BY <1>1, MatchStep, PathsInductive, WrittenInOrder, TurnsInv, PTL DEF Spec

\* When only slashes are left, the last matcher came as far as its text: so each
\* captured its own.
LEMMA MatchMeans == PInv /\ LayInv /\ Turns /\ MatchInv => MatchedMeansWhatWasWritten
<1> SUFFICES ASSUME PInv, LayInv, Turns, MatchInv, phase = "matched", from = "memory",
                    \A i \in DOMAIN Pieces :
                       /\ Pieces[i].kind \in {"literal", "segment", "int", "hex"}
                       /\ Stripped(i) # <<>>
             PROVE  \A i \in DOMAIN Pieces : Captured(i) = Stripped(i)
  BY DEF MatchedMeansWhatWasWritten
<1>1. Reading
  BY ReadingHolds DEF FromClient
<1>2. DOMAIN Pieces = 1..All /\ All \in Nat /\ at \in Nat /\ at >= 1 /\ path \in Seq(Char) /\ Len(path) \in Nat
  BY <1>1 DEF Reading, All
<1>3. \A i \in 1..All : Tidy(Ss[i]) /\ Ss[i] = Stripped(i)
  BY <1>1 DEF Reading, Stripped
<1>4. Segmental
  BY <1>2, <1>3 DEF Segmental
<1>5. PICK B : Laid(B, path, Ss, All) /\ NoFurther(B)
  BY <1>4, Zenon DEF MatchInv
<1>6. level - 1 = All /\ SlashesOnly(path, at, Len(path) + 1)
  BY <1>2 DEF Turns
<1>7. at = EndOf(B, Ss, level - 1)
  <2>1. at <= EndOf(B, Ss, All)
    BY <1>5, <1>6, Zenon DEF NoFurther
  <2>2. CASE All = 0
    <3>1. EndOf(B, Ss, All) = 1
      BY <2>2 DEF EndOf
    <3> QED BY <1>2, <1>6, <2>1, <3>1
  <2>3. CASE All # 0
    <3> DEFINE e == B[All] + Len(Ss[All])
    <3>1. TextLies(path, B[All], e, Ss[All])
      <4>1. All \in 1..All /\ Ss[All] # <<>> /\ \A i \in 1..All : Tidy(Ss[i])
        BY <1>2, <1>3, <1>4, <2>3 DEF Segmental
      <4> QED BY <1>2, <1>5, <4>1, LaidText, Zenon
    <3>2. EndOf(B, Ss, All) = e
      BY <2>3 DEF EndOf
    <3> HIDE DEF e
    <3>3. path[e - 1] # "/" /\ e <= Len(path) + 1
      BY <3>1, Zenon DEF TextLies
    <3>4. e \in Nat
      <4>1. B[All] \in Nat /\ Len(Ss[All]) \in Nat /\ e = B[All] + Len(Ss[All])
        BY <3>1 DEF TextLies
      <4> QED BY <4>1
    <3>5. ASSUME at < e PROVE FALSE
      <4>1. e - 1 \in at..(Len(path) + 1 - 1)
        BY <1>2, <3>3, <3>4, <3>5
      <4> QED BY <1>6, <3>3, <4>1 DEF SlashesOnly
    <3>6. at = e
      BY <1>2, <2>1, <3>2, <3>4, <3>5
    <3> QED BY <1>6, <3>2, <3>6
  <2> QED BY <2>2, <2>3
<1>8. \A h \in 1..All : Cut(path, spans, h) = Ss[h]
  BY <1>5, <1>6, <1>7, Zenon DEF NoFurther
<1> QED BY <1>2, <1>3, <1>8 DEF Captured, Cut

\* Whatever the characters: a path that is written in memory and matches, where every
\* matcher is a literal, a segment or a number and no text is blank, is read as the
\* arguments it was written from (Literal.ts:29, consume.ts:65, PathLens.ts:16).
THEOREM MatchedAsWritten == Spec => []MatchedMeansWhatWasWritten
BY MatchMeans, MatchInvHolds, PathsInductive, WrittenInOrder, TurnsInv, PTL

-----------------------------------------------------------------------------
\* What Plain says of the text t of the matcher m.
PlainText(m, t, last) ==
    \/ m.kind = "literal" /\ t = m.text
    \/ LET slashes == SlashCount(t, 1, Len(t) + 1)
       IN  /\ m.kind # "literal" /\ t # <<>> /\ t = StripSlashes(t)
           /\ m.kind = "segment" => slashes = 0
           /\ m.kind \in {"int", "hex"} => \A k \in 1..Len(t) : t[k] \in Digits
           /\ m.kind = "exactlyChars" => Len(t) = m.count
           /\ m.kind = "upToChars" => Len(t) = m.count \/ (last /\ Len(t) < m.count)
           /\ m.kind = "exactlySegments" => slashes + 1 = m.count
           /\ m.kind = "upToSegments" => slashes + 1 = m.count \/ (last /\ slashes + 1 < m.count)
           /\ m.kind = "restOfPath" => last

\* Where m starts at b it stops before e, and nowhere else.
TakesTo(m, p, b, e) == \A j \in b..(Len(p) + 1) : Takes(m, p, b, j) <=> j = e

\* How many slashes there are in a text that is laid out.
LEMMA TextSlashes ==
    ASSUME NEW p, NEW b, NEW e, NEW t, TextLies(p, b, e, t)
    PROVE  SlashCount(p, b, e) = SlashCount(t, 1, Len(t) + 1)
<1>1. b \in Nat /\ Len(t) \in Nat /\ e = b + Len(t) /\ \A x \in 1..Len(t) : p[b + x - 1] = t[x]
  BY DEF TextLies
<1> DEFINE n == Len(t)
<1>2. n \in Nat /\ e = b + n /\ \A x \in 1..n : p[b + x - 1] = t[x]
  BY <1>1
<1> HIDE DEF n
<1>3. SlashCount(p, b, b + n) = SlashCount(t, 1, n + 1)
  BY <1>1, <1>2, SlashCountMoves, ZenonT(40)
<1> QED BY <1>2, <1>3, Zenon DEF n

\* A text ends where as many slashes are behind as it has.
LEMMA EndsThere ==
    ASSUME NEW p, NEW b, NEW e, NEW t, TextLies(p, b, e, t),
           NEW j \in b..(Len(p) + 1), AtBoundary(p, j)
    PROVE  /\ AtBoundary(p, e) /\ SlashCount(p, b, e) \in Nat /\ SlashCount(p, b, j) \in Nat
           /\ j < e => SlashCount(p, b, j) < SlashCount(p, b, e)
           /\ e < j => SlashCount(p, b, e) < SlashCount(p, b, j)
<1>1. /\ b \in Nat /\ e \in Nat /\ Len(p) \in Nat /\ b < e /\ e <= Len(p) + 1
      /\ e <= Len(p) => p[e] = "/"
  BY DEF TextLies
<1>2. j \in Nat /\ b <= j /\ j <= Len(p) + 1
  BY <1>1
<1>3. AtBoundary(p, e)
  BY <1>1 DEF AtBoundary
<1>4. SlashCount(p, b, e) \in Nat /\ SlashCount(p, b, j) \in Nat
  BY <1>1, <1>2, SlashCountType
<1>5. ASSUME j < e PROVE SlashCount(p, b, j) < SlashCount(p, b, e)
  <2>1. p[j] = "/"
    BY <1>1, <1>2, <1>5 DEF AtBoundary
  <2> QED BY <1>1, <1>2, <1>5, <2>1, SlashCountGrows
<1>6. ASSUME e < j PROVE SlashCount(p, b, e) < SlashCount(p, b, j)
  <2>1. p[e] = "/"
    BY <1>1, <1>2, <1>6
  <2> QED BY <1>1, <1>2, <1>6, <2>1, SlashCountGrows
<1> QED BY <1>3, <1>4, <1>5, <1>6

\* A literal takes the text that is written for it.
LEMMA LiteralTakes ==
    ASSUME NEW p \in Seq(Char), NEW m, NEW b, NEW e, NEW t, TextLies(p, b, e, t),
           m.kind = "literal", StripSlashes(m.text) = t
    PROVE  TakesTo(m, p, b, e)
<1> SUFFICES ASSUME NEW j \in b..(Len(p) + 1) PROVE Takes(m, p, b, j) <=> j = e
  BY DEF TakesTo
<1>1. /\ b \in Nat /\ e \in Nat /\ Len(p) \in Nat /\ b < e /\ e <= Len(p) + 1 /\ b \in 1..Len(p)
      /\ Len(t) \in Nat /\ e = b + Len(t) /\ SubSeq(p, b, e - 1) = t
  BY DEF TextLies
<1>2. Takes(m, p, b, j) <=> SubSeq(p, b, j - 1) = t
  BY DEF Takes, TakesLiteral, TakesSegment, TakesChars, TakesSegments, TakesRest
<1>3. ASSUME SubSeq(p, b, j - 1) = t PROVE j = e
  <2>1. CASE j = b
    <3>1. SubSeq(p, b, j - 1) = <<>>
      BY <1>1, <2>1
    <3> QED BY <1>1, <1>3, <3>1
  <2>2. CASE j # b
    <3>1. b \in 1..Len(p) /\ j - 1 \in b..Len(p)
      BY <1>1, <2>2
    <3>2. Len(SubSeq(p, b, j - 1)) = j - 1 - b + 1
      BY <3>1, StretchIs
    <3>3. Len(t) = j - 1 - b + 1
      BY <1>3, <3>2, Zenon
    <3>4. j \in Nat
      BY <1>1
    <3> QED BY <1>1, <3>3, <3>4
  <2> QED BY <2>1, <2>2
<1>4. ASSUME j = e PROVE SubSeq(p, b, j - 1) = t
  BY <1>1, <1>4, Zenon
<1> QED BY <1>2, <1>3, <1>4

\* A segment takes a text without slashes.
LEMMA SegmentTakes ==
    ASSUME NEW p \in Seq(Char), NEW m, NEW b, NEW e, NEW t, TextLies(p, b, e, t),
           m.kind \in {"segment", "int", "hex"}, SlashCount(t, 1, Len(t) + 1) = 0
    PROVE  TakesTo(m, p, b, e)
<1> SUFFICES ASSUME NEW j \in b..(Len(p) + 1) PROVE Takes(m, p, b, j) <=> j = e
  BY DEF TakesTo
<1>1. /\ b \in Nat /\ e \in Nat /\ Len(p) \in Nat /\ b < e /\ e <= Len(p) + 1 /\ b \in 1..Len(p)
  BY DEF TextLies
<1>2. Takes(m, p, b, j) <=> SlashCount(p, b, j) = 0 /\ AtBoundary(p, j)
  BY <1>1 DEF Takes, TakesLiteral, TakesSegment, TakesChars, TakesSegments, TakesRest
<1>3. SlashCount(p, b, e) = 0
  BY TextSlashes, Zenon
<1>4. ASSUME AtBoundary(p, j), SlashCount(p, b, j) = 0 PROVE j = e
  <2>1. ~(j < e) /\ ~(e < j)
    BY <1>3, <1>4, EndsThere
  <2> QED BY <1>1, <2>1
<1>5. e \in b..(Len(p) + 1) /\ AtBoundary(p, e)
  BY <1>1 DEF AtBoundary, TextLies
<1> QED BY <1>2, <1>3, <1>4, <1>5, Zenon

\* A number of characters is taken if there are as many, or if the path ends.
LEMMA CharsTake ==
    ASSUME NEW p \in Seq(Char), NEW m, NEW b, NEW e, NEW t, TextLies(p, b, e, t), m.count \in Nat,
           \/ m.kind = "exactlyChars" /\ Len(t) = m.count
           \/ m.kind = "upToChars" /\ (Len(t) = m.count \/ (Len(t) < m.count /\ e = Len(p) + 1))
    PROVE  TakesTo(m, p, b, e)
<1> SUFFICES ASSUME NEW j \in b..(Len(p) + 1) PROVE Takes(m, p, b, j) <=> j = e
  BY DEF TakesTo
<1>1. /\ b \in Nat /\ e \in Nat /\ Len(p) \in Nat /\ b < e /\ e <= Len(p) + 1 /\ b \in 1..Len(p)
      /\ Len(t) \in Nat /\ e = b + Len(t) /\ j \in Nat /\ b <= j /\ j <= Len(p) + 1
  BY DEF TextLies
<1> DEFINE c == m.count
           n == Len(t)
<1>2. Takes(m, p, b, j) <=>
         \/ m.kind = "exactlyChars" /\ j = b + c
         \/ m.kind = "upToChars" /\ j <= b + c /\ (j < b + c => j = Len(p) + 1)
  BY DEF Takes, TakesLiteral, TakesSegment, TakesChars, TakesSegments, TakesRest
<1>3. c \in Nat /\ n \in Nat /\ e = b + n
  BY <1>1
<1>4. CASE m.kind = "exactlyChars"
  <2>1. n = c
    BY <1>4
  <2> HIDE DEF c, n
  <2> QED BY <1>2, <1>3, <1>4, <2>1
<1>5. CASE m.kind = "upToChars"
  <2>1. n = c \/ (n < c /\ e = Len(p) + 1)
    BY <1>5
  <2> HIDE DEF c, n
  <2>2. j <= b + c /\ (j < b + c => j = Len(p) + 1) <=> j = e
    BY <1>1, <1>3, <2>1
  <2> QED BY <1>2, <1>5, <2>2
<1> QED BY <1>4, <1>5

\* A number of segments is taken if there are as many, or if the path ends.
LEMMA SegmentsTake ==
    ASSUME NEW p \in Seq(Char), NEW m, NEW b, NEW e, NEW t, TextLies(p, b, e, t), m.count \in Nat,
           \/ m.kind = "exactlySegments" /\ SlashCount(t, 1, Len(t) + 1) + 1 = m.count
           \/ /\ m.kind = "upToSegments"
              /\ \/ SlashCount(t, 1, Len(t) + 1) + 1 = m.count
                 \/ SlashCount(t, 1, Len(t) + 1) + 1 < m.count /\ e = Len(p) + 1
    PROVE  TakesTo(m, p, b, e)
<1> SUFFICES ASSUME NEW j \in b..(Len(p) + 1) PROVE Takes(m, p, b, j) <=> j = e
  BY DEF TakesTo
<1>1. /\ b \in Nat /\ e \in Nat /\ Len(p) \in Nat /\ b < e /\ e <= Len(p) + 1 /\ b \in 1..Len(p)
      /\ j \in Nat /\ b <= j /\ j <= Len(p) + 1
  BY DEF TextLies
<1> DEFINE c == m.count
           n == SlashCount(p, b, e)
           i == SlashCount(p, b, j)
<1>2. Takes(m, p, b, j) <=>
         /\ AtBoundary(p, j)
         /\ i = c - 1 \/ (m.kind = "upToSegments" /\ i < c - 1 /\ j = Len(p) + 1)
  BY DEF Takes, TakesLiteral, TakesSegment, TakesChars, TakesSegments, TakesRest
<1>3. \/ m.kind = "exactlySegments" /\ n + 1 = c
      \/ m.kind = "upToSegments" /\ (n + 1 = c \/ (n + 1 < c /\ e = Len(p) + 1))
  <2>1. n = SlashCount(t, 1, Len(t) + 1)
    BY TextSlashes, Zenon
  <2> HIDE DEF n
  <2> QED BY <2>1
<1>4. AtBoundary(p, e)
  <2>1. e <= Len(p) => p[e] = "/"
    BY Zenon DEF TextLies
  <2> QED BY <1>1, <2>1 DEF AtBoundary
<1>5. c \in Nat /\ n \in Nat /\ i \in Nat
  BY <1>1, SlashCountType
<1>6. AtBoundary(p, j) => (j < e => i < n) /\ (e < j => n < i)
  BY EndsThere
<1>7. j = e => i = n
  OBVIOUS
<1> HIDE DEF c, n, i
<1>8. ASSUME AtBoundary(p, j), i = c - 1 \/ (m.kind = "upToSegments" /\ i < c - 1 /\ j = Len(p) + 1)
      PROVE  j = e
  BY <1>1, <1>3, <1>5, <1>6, <1>8
<1>9. ASSUME j = e
      PROVE  AtBoundary(p, j) /\ (i = c - 1 \/ (m.kind = "upToSegments" /\ i < c - 1 /\ j = Len(p) + 1))
  <2>1. AtBoundary(p, j)
    BY <1>4, <1>9, Zenon
  <2>2. i = c - 1 \/ (m.kind = "upToSegments" /\ i < c - 1 /\ j = Len(p) + 1)
    BY <1>3, <1>5, <1>7, <1>9
  <2> QED BY <2>1, <2>2
<1> QED BY <1>2, <1>8, <1>9, Zenon

\* The rest is all there is.
LEMMA RestTakes ==
    ASSUME NEW p \in Seq(Char), NEW m, NEW b, NEW e, NEW t, TextLies(p, b, e, t),
           m.kind = "restOfPath", e = Len(p) + 1
    PROVE  TakesTo(m, p, b, e)
<1> SUFFICES ASSUME NEW j \in b..(Len(p) + 1) PROVE Takes(m, p, b, j) <=> j = e
  BY DEF TakesTo
<1>1. b <= Len(p)
  BY DEF TextLies
<1> QED BY <1>1 DEF Takes, TakesLiteral, TakesSegment, TakesChars, TakesSegments, TakesRest

\* A matcher takes a plain text to its end, and no other stretch from there.
LEMMA PlainTakes ==
    ASSUME NEW p \in Seq(Char), NEW m \in Matcher, NEW b, NEW e, NEW t, NEW s \in Seq(Char),
           StripSlashes(s) = t, TextLies(p, b, e, t),
           NEW last \in BOOLEAN, PlainText(m, s, last),
           last /\ m.kind # "literal" => e = Len(p) + 1
    PROVE  TakesTo(m, p, b, e) /\ Parses(m, p, b, e)
<1>0. m.kind \in Kinds /\ m.count \in Nat
  BY DEF Matcher
<1>1. CASE m.kind = "literal"
  <2>1. StripSlashes(m.text) = t
    BY <1>1 DEF PlainText
  <2>2. TakesTo(m, p, b, e)
    BY <1>1, <2>1, LiteralTakes, Zenon
  <2>3. Parses(m, p, b, e)
    BY <1>1 DEF Parses
  <2> QED BY <2>2, <2>3
<1>2. CASE m.kind # "literal"
  <2> DEFINE n == SlashCount(t, 1, Len(t) + 1)
  <2>1. /\ m.kind = "segment" => n = 0
        /\ m.kind \in {"int", "hex"} => \A k \in 1..Len(t) : t[k] \in Digits
        /\ m.kind = "exactlyChars" => Len(t) = m.count
        /\ m.kind = "upToChars" => Len(t) = m.count \/ (e = Len(p) + 1 /\ Len(t) < m.count)
        /\ m.kind = "exactlySegments" => n + 1 = m.count
        /\ m.kind = "upToSegments" => n + 1 = m.count \/ (e = Len(p) + 1 /\ n + 1 < m.count)
        /\ m.kind = "restOfPath" => e = Len(p) + 1
    <3>1. s = t
      BY <1>2, Zenon DEF PlainText
    <3> HIDE DEF n
    <3> QED BY <1>2, <3>1, Zenon DEF PlainText, n
  <2>2. CASE m.kind \in {"segment", "int", "hex"}
    <3>1. m.kind \in {"int", "hex"} => \A k \in 1..Len(t) : t[k] # "/"
      BY <2>1 DEF Digits
    <3>2. n = 0
      <4>1. CASE m.kind = "segment"
        BY <2>1, <4>1
      <4>2. CASE m.kind # "segment"
        <5> DEFINE l == Len(t) + 1
        <5>1. l \in Nat /\ \A k \in 1..(l - 1) : t[k] # "/"
          BY <2>2, <3>1, <4>2 DEF TextLies
        <5> HIDE DEF l
        <5>2. SlashCount(t, 1, l) = 0
          BY <5>1, SlashCountType
        <5> QED BY <5>2, Zenon DEF l
      <4> QED BY <4>1, <4>2
    <3>3. TakesTo(m, p, b, e)
      BY <2>2, <3>2, SegmentTakes
    <3>4. ASSUME m.kind \in {"int", "hex"}, NEW k \in b..(e - 1) PROVE p[k] \in Digits
      <4> DEFINE x == k - b + 1
      <4>1. x \in 1..Len(t) /\ b + x - 1 = k
        BY DEF TextLies
      <4> HIDE DEF x
      <4>2. p[b + x - 1] = t[x]
        BY <4>1 DEF TextLies
      <4> QED BY <2>1, <3>4, <4>1, <4>2
    <3> QED BY <3>3, <3>4 DEF Parses
  <2>3. m.kind \notin {"int", "hex"} => Parses(m, p, b, e)
    BY DEF Parses
  <2>4. CASE m.kind \in {"exactlyChars", "upToChars"}
    <3>1. \/ m.kind = "exactlyChars" /\ Len(t) = m.count
          \/ m.kind = "upToChars" /\ (Len(t) = m.count \/ (Len(t) < m.count /\ e = Len(p) + 1))
      BY <2>1, <2>4
    <3>2. TakesTo(m, p, b, e)
      <4> HIDE DEF n
      <4> QED BY <1>0, <3>1, CharsTake, Zenon
    <3> QED BY <2>3, <2>4, <3>2
  <2>5. CASE m.kind \in {"exactlySegments", "upToSegments"}
    BY <1>0, <2>1, <2>3, <2>5, SegmentsTake
  <2>6. CASE m.kind = "restOfPath"
    BY <2>1, <2>3, <2>6, RestTakes
  <2> QED BY <1>0, <1>2, <2>2, <2>4, <2>5, <2>6 DEF Kinds
<1> QED BY <1>1, <1>2

\* What m can capture of p from a on.
SpansOf(m, p, a) ==
    {w \in (a..Len(p) + 1) \X (a..Len(p) + 1) :
        /\ w[1] <= w[2] /\ Leads(p, a, w[1])
        /\ Takes(m, p, w[1], w[2]) /\ Parses(m, p, w[1], w[2])}

\* A span begins where slashes lead.
LEMMA SpanIs ==
    ASSUME NEW p \in Seq(Char), NEW m, NEW a \in 1..(Len(p) + 1), NEW w \in SpansOf(m, p, a)
    PROVE  /\ w[1] \in a..(Len(p) + 1) /\ w[2] \in w[1]..(Len(p) + 1)
           /\ Leads(p, a, w[1]) /\ Takes(m, p, w[1], w[2])
<1>1. /\ w \in (a..Len(p) + 1) \X (a..Len(p) + 1)
      /\ w[1] <= w[2] /\ Leads(p, a, w[1]) /\ Takes(m, p, w[1], w[2])
  BY DEF SpansOf
<1>2. w[1] \in a..(Len(p) + 1) /\ w[2] \in w[1]..(Len(p) + 1)
  <2>1. a \in Nat /\ Len(p) \in Nat
    OBVIOUS
  <2>2. w[1] \in a..Len(p) + 1 /\ w[2] \in a..Len(p) + 1 /\ w[1] <= w[2]
    BY <1>1
  <2> QED BY <2>1, <2>2
<1> QED BY <1>1, <1>2

\* The other way round.
LEMMA SpanIf ==
    ASSUME NEW p \in Seq(Char), NEW m, NEW a \in 1..(Len(p) + 1),
           NEW b \in a..(Len(p) + 1), NEW e \in b..(Len(p) + 1),
           Leads(p, a, b), Takes(m, p, b, e), Parses(m, p, b, e)
    PROVE  <<b, e>> \in SpansOf(m, p, a)
<1> DEFINE w == <<b, e>>
<1>1. w[1] = b /\ w[2] = e /\ b <= e /\ e \in a..(Len(p) + 1)
  OBVIOUS
<1>2. w \in (a..Len(p) + 1) \X (a..Len(p) + 1)
  BY <1>1
<1> HIDE DEF w
<1>3. w \in SpansOf(m, p, a)
  BY <1>1, <1>2, Zenon DEF SpansOf
<1> QED BY <1>3 DEF w

\* Of a plain text that comes next there is one capture, all of it.
LEMMA PlainSpan ==
    ASSUME NEW p \in Seq(Char), NEW m, NEW a \in 1..(Len(p) + 1), NEW b, NEW e, NEW t,
           TextLies(p, b, e, t), TakesTo(m, p, b, e), Parses(m, p, b, e),
           a <= b, SlashesOnly(p, a, b)
    PROVE  /\ \E w : w \in SpansOf(m, p, a)
           /\ \A w \in SpansOf(m, p, a) : w[1] = b /\ w[2] = e
<1>1. /\ Len(p) \in Nat /\ b \in 1..Len(p) /\ b \in a..(Len(p) + 1) /\ e \in b..(Len(p) + 1)
      /\ a \in Nat /\ b \in a..Len(p)
  <2>1. Len(p) \in Nat /\ b \in 1..Len(p) /\ Len(t) \in Nat /\ e = b + Len(t) /\ b < e /\ e <= Len(p) + 1
    BY DEF TextLies
  <2> QED BY <2>1
<1>2. p[b] # "/"
  BY DEF TextLies
<1>3. Leads(p, a, b) /\ Takes(m, p, b, e)
  BY <1>1, <1>2 DEF Leads, TakesTo
<1>4. <<b, e>> \in SpansOf(m, p, a)
  BY <1>1, <1>3, SpanIf
<1>5. ASSUME NEW w \in SpansOf(m, p, a) PROVE w[1] = b /\ w[2] = e
  <2> DEFINE x == w[1]
             y == w[2]
  <2>1. x \in a..(Len(p) + 1) /\ y \in x..(Len(p) + 1) /\ Leads(p, a, x) /\ Takes(m, p, x, y)
    BY SpanIs, Zenon
  <2> HIDE DEF x, y
  <2>2. x = b
    BY <1>1, <1>2, <2>1, LeadsTo
  <2>3. y = e
    <3>1. y \in b..(Len(p) + 1) /\ Takes(m, p, b, y)
      BY <2>1, <2>2, Zenon
    <3> QED BY <3>1, Zenon DEF TakesTo
  <2> QED BY <2>2, <2>3, Zenon DEF x, y
<1> QED BY <1>4, <1>5, Zenon

\* Of a blank text there is an empty one.
LEMMA BlankSpan ==
    ASSUME NEW p \in Seq(Char), NEW m, NEW a \in 1..(Len(p) + 1),
           m.kind = "literal", StripSlashes(m.text) = <<>>
    PROVE  /\ \E w : w \in SpansOf(m, p, a)
           /\ \A w \in SpansOf(m, p, a) : w[2] = w[1] /\ SubSeq(p, w[1], w[2] - 1) = <<>>
<1>0. Len(p) \in Nat /\ a \in Nat
  OBVIOUS
<1>1. PICK l \in a..(Len(p) + 1) : Leads(p, a, l)
  BY LeadsExist
<1>2. Takes(m, p, l, l) /\ Parses(m, p, l, l)
  <2>1. SubSeq(p, l, l - 1) = <<>>
    BY <1>0
  <2> QED BY <2>1 DEF Takes, TakesLiteral, Parses
<1>3. <<l, l>> \in SpansOf(m, p, a)
  <2>1. l \in l..(Len(p) + 1)
    BY <1>0
  <2> QED BY <1>1, <1>2, <2>1, SpanIf
<1>4. ASSUME NEW w \in SpansOf(m, p, a) PROVE w[2] = w[1] /\ SubSeq(p, w[1], w[2] - 1) = <<>>
  <2> DEFINE x == w[1]
             y == w[2]
  <2>1. x \in a..(Len(p) + 1) /\ y \in x..(Len(p) + 1) /\ Takes(m, p, x, y)
    BY SpanIs, Zenon
  <2> HIDE DEF x, y
  <2>2. SubSeq(p, x, y - 1) = <<>>
    BY <2>1 DEF Takes, TakesLiteral, TakesSegment, TakesChars, TakesSegments, TakesRest
  <2>3. ASSUME y # x PROVE FALSE
    <3>1. x \in 1..Len(p) /\ y - 1 \in x..Len(p)
      BY <1>0, <2>1, <2>3
    <3>2. Len(SubSeq(p, x, y - 1)) = y - 1 - x + 1
      BY <3>1, StretchIs
    <3> DEFINE z == y - 1
    <3>3. Len(<<>>) = 0 /\ Len(<<>>) = z - x + 1
      BY <2>2, <3>2
    <3>4. x \in Nat /\ z \in Nat /\ x <= z
      <4> HIDE DEF z
      <4> QED BY <1>0, <3>1 DEF z
    <3> HIDE DEF z
    <3> QED BY <3>3, <3>4
  <2> QED BY <2>2, <2>3, Zenon DEF x, y
<1> QED BY <1>3, <1>4, Zenon

-----------------------------------------------------------------------------
\* The first l - 1 of the k texts are behind a, the others before it.
Follows(B, ss, k, l, a) ==
    \A j \in 1..k : ss[j] # <<>> => IF j < l THEN B[j] + Len(ss[j]) <= a ELSE a <= B[j]

\* So there is nothing between a and the next but slashes,
LEMMA NextText ==
    ASSUME NEW k \in Nat, NEW ss, \A i \in 1..k : Tidy(ss[i]),
           NEW p \in Seq(Char), NEW B, Laid(B, p, ss, k),
           NEW l \in Nat, NEW a \in 1..(Len(p) + 1), Follows(B, ss, k, l, a),
           NEW q \in a..Len(p), p[q] # "/"
    PROVE  \E j \in 1..k : l <= j /\ ss[j] # <<>> /\ B[j] <= q
<1>1. q \in 1..Len(p) /\ a <= q /\ q \in Nat /\ a \in Nat
  OBVIOUS
<1>2. PICK j \in 1..k : ss[j] # <<>> /\ B[j] <= q /\ q < B[j] + Len(ss[j])
  BY <1>1, Zenon DEF Laid
<1>3. ASSUME j < l PROVE FALSE
  <2>1. B[j] + Len(ss[j]) <= a
    BY <1>2, <1>3, Zenon DEF Follows
  <2>2. B[j] \in Nat /\ Len(ss[j]) \in Nat
    BY DEF Laid, Tidy
  <2> QED BY <1>1, <1>2, <2>1, <2>2
<1>4. l <= j
  BY <1>3
<1> QED BY <1>2, <1>4

\* up to where the next one is,
LEMMA SlashesBefore ==
    ASSUME NEW k \in Nat, NEW ss, \A i \in 1..k : Tidy(ss[i]),
           NEW p \in Seq(Char), NEW B, Laid(B, p, ss, k),
           NEW l \in 1..k, NEW a \in 1..(Len(p) + 1), Follows(B, ss, k, l, a), ss[l] # <<>>
    PROVE  a <= B[l] /\ SlashesOnly(p, a, B[l])
<1>0. l \in Nat /\ a \in Nat /\ Len(p) \in Nat
  OBVIOUS
<1>1. \A j \in 1..k : B[j] \in Nat /\ Len(ss[j]) \in Nat
  BY DEF Laid, Tidy
<1>2. a <= B[l]
  <2>1. ~(l < l)
    BY <1>0
  <2> QED BY <2>1, Zenon DEF Follows
<1>3. B[l] <= Len(p)
  <2>1. TextLies(p, B[l], B[l] + Len(ss[l]), ss[l])
    BY LaidText, Zenon
  <2> QED BY <2>1 DEF TextLies
<1>4. ASSUME NEW q \in a..(B[l] - 1), p[q] # "/" PROVE FALSE
  <2>1. q \in a..Len(p) /\ q < B[l] /\ q \in Nat
    BY <1>0, <1>1, <1>3
  <2>2. PICK j \in 1..k : l <= j /\ ss[j] # <<>> /\ B[j] <= q
    BY <1>0, <1>4, <2>1, NextText, Zenon
  <2>3. CASE j = l
    BY <1>1, <2>1, <2>2, <2>3
  <2>4. CASE l < j
    <3>1. B[l] + Len(ss[l]) < B[j]
      BY <2>2, <2>4, Zenon DEF Laid
    <3>2. B[l] \in Nat /\ Len(ss[l]) \in Nat /\ B[j] \in Nat
      BY <1>1
    <3> QED BY <2>1, <2>2, <3>1, <3>2
  <2> QED BY <1>0, <2>2, <2>3, <2>4
<1> QED BY <1>2, <1>4 DEF SlashesOnly

\* and none but slashes are left behind the last.
LEMMA SlashesAfter ==
    ASSUME NEW k \in Nat, NEW ss, \A i \in 1..k : Tidy(ss[i]),
           NEW p \in Seq(Char), NEW B, Laid(B, p, ss, k),
           NEW l \in Nat, k < l, NEW a \in 1..(Len(p) + 1), Follows(B, ss, k, l, a)
    PROVE  SlashesOnly(p, a, Len(p) + 1)
<1>1. ASSUME NEW q \in a..(Len(p) + 1 - 1), p[q] # "/" PROVE FALSE
  <2>1. q \in a..Len(p)
    OBVIOUS
  <2>2. PICK j \in 1..k : l <= j
    BY <1>1, <2>1, NextText, Zenon
  <2> QED BY <2>2
<1> QED BY <1>1 DEF SlashesOnly

\* A text that is captured is behind.
LEMMA FollowsText ==
    ASSUME NEW k \in Nat, NEW ss, \A i \in 1..k : Tidy(ss[i]),
           NEW p, NEW B, Laid(B, p, ss, k),
           NEW l \in 1..k, NEW a \in Nat, Follows(B, ss, k, l, a), ss[l] # <<>>, a <= B[l]
    PROVE  Follows(B, ss, k, l + 1, B[l] + Len(ss[l]))
<1>1. \A j \in 1..k : B[j] \in Nat /\ Len(ss[j]) \in Nat
  BY DEF Laid, Tidy
<1> DEFINE e == B[l] + Len(ss[l])
<1>2. e \in Nat /\ a <= e
  BY <1>1
<1> HIDE DEF e
<1>3. ASSUME NEW j \in 1..k, ss[j] # <<>>
      PROVE  IF j < l + 1 THEN B[j] + Len(ss[j]) <= e ELSE e <= B[j]
  <2>1. CASE j < l
    <3>1. B[j] + Len(ss[j]) <= a
      BY <1>3, <2>1, Zenon DEF Follows
    <3>2. B[j] \in Nat /\ Len(ss[j]) \in Nat /\ j < l + 1
      BY <1>1, <2>1
    <3> QED BY <1>2, <3>1, <3>2
  <2>2. CASE j = l
    <3>1. B[j] + Len(ss[j]) = e /\ j < l + 1
      BY <2>2 DEF e
    <3> QED BY <1>2, <3>1
  <2>3. CASE l < j
    <3>1. e < B[j]
      BY <1>3, <2>3, Zenon DEF Laid, e
    <3>2. B[j] \in Nat /\ ~(j < l + 1)
      BY <1>1, <2>3
    <3> QED BY <1>2, <3>1, <3>2
  <2> QED BY <2>1, <2>2, <2>3
<1>4. Follows(B, ss, k, l + 1, e)
  BY <1>3, Zenon DEF Follows
<1> QED BY <1>4 DEF e

\* Nothing has to be captured of a blank one.
LEMMA FollowsBlank ==
    ASSUME NEW k \in Nat, NEW ss, \A i \in 1..k : Tidy(ss[i]),
           NEW p \in Seq(Char), NEW B, Laid(B, p, ss, k),
           NEW l \in 1..k, NEW a \in 1..(Len(p) + 1), Follows(B, ss, k, l, a), ss[l] = <<>>,
           NEW x \in a..(Len(p) + 1), Leads(p, a, x)
    PROVE  Follows(B, ss, k, l + 1, x)
<1>1. \A j \in 1..k : B[j] \in Nat /\ Len(ss[j]) \in Nat
  BY DEF Laid, Tidy
<1>2. x \in Nat /\ a \in Nat /\ a <= x /\ Len(p) \in Nat
  OBVIOUS
<1>3. ASSUME NEW j \in 1..k, ss[j] # <<>>
      PROVE  IF j < l + 1 THEN B[j] + Len(ss[j]) <= x ELSE x <= B[j]
  <2>1. CASE j < l
    <3>1. B[j] + Len(ss[j]) <= a
      BY <1>3, <2>1, Zenon DEF Follows
    <3>2. B[j] \in Nat /\ Len(ss[j]) \in Nat /\ j < l + 1
      BY <1>1, <2>1
    <3> QED BY <1>2, <3>1, <3>2
  <2>2. CASE j = l
    BY <1>3, <2>2
  <2>3. CASE l < j
    <3>1. a <= B[j]
      <4>1. ~(j < l)
        BY <2>3
      <4> QED BY <1>3, <4>1, Zenon DEF Follows
    <3>2. TextLies(p, B[j], B[j] + Len(ss[j]), ss[j])
      BY <1>3, LaidText, Zenon
    <3>3. p[B[j]] # "/" /\ B[j] \in 1..Len(p)
      BY <3>2, Zenon DEF TextLies
    <3> DEFINE b == B[j]
    <3>4. b \in a..Len(p) /\ p[b] # "/"
      BY <1>1, <1>2, <3>1, <3>3
    <3> HIDE DEF b
    <3>5. x <= b
      BY <1>2, <3>4, LeadsTo
    <3>6. ~(j < l + 1)
      BY <2>3
    <3> QED BY <3>5, <3>6 DEF b
  <2> QED BY <2>1, <2>2, <2>3
<1> QED BY <1>3, Zenon DEF Follows

-----------------------------------------------------------------------------
\* A path that every matcher can tell from what follows it.
Understandable ==
    /\ FromClient /\ (from = "node" => SingleLead)
    /\ \A i \in 1..All : Plain(i)

\* The last text ends the path, but for what surrounds a bare one.
Ended(B) == All > 0 /\ (template.bare => texts[1] = Ss[1]) => EndsIt(B, path, Ss, All)

\* It is never refused; while it is read, the texts before the level are captured
\* as they were written, and the others are behind the place that was reached.
UndInv ==
    Understandable =>
        /\ phase # "wrongRoute"
        /\ phase \in {"consume", "matched"} =>
              \E B : /\ Laid(B, path, Ss, All) /\ Ended(B)
                     /\ Follows(B, Ss, All, level, at)
                     /\ \A h \in 1..(level - 1) : Cut(path, spans, h) = Ss[h]

\* This is what Plain says, for every kind of matcher.
LEMMA PlainIs ==
    ASSUME Reading, Understandable, NEW i \in 1..All
    PROVE  PlainText(Pieces[i], texts[i], i = All)
<1> DEFINE m == Pieces[i]
           t == texts[i]
           slashes == SlashCount(t, 1, Len(t) + 1)
           last == i = All
<1>1. m \in Matcher /\ (m.kind = "literal" => t = m.text) /\ t \in Seq(Char)
  BY DEF Reading, All
<1>2. m.kind \in Kinds
  BY <1>1 DEF Matcher
<1>3. Plain(i)
  BY DEF Understandable
<1>4. DOMAIN t = 1..Len(t)
  BY <1>1
<1>5. CASE m.kind = "literal"
  BY <1>1, <1>5 DEF PlainText
<1>6. CASE m.kind # "literal"
  <2>1. t # <<>> /\ t = StripSlashes(t)
    BY <1>3, <1>6 DEF Plain
  <2>2. ASSUME m.kind = "segment" PROVE slashes = 0
    BY <1>3, <2>2 DEF Plain
  <2>3. ASSUME m.kind \in {"int", "hex"} PROVE \A k \in 1..Len(t) : t[k] \in Digits
    BY <1>3, <1>4, <2>3 DEF Plain
  <2>4. ASSUME m.kind = "exactlyChars" PROVE Len(t) = m.count
    BY <1>3, <2>4 DEF Plain
  <2>5. ASSUME m.kind = "upToChars" PROVE Len(t) = m.count \/ (last /\ Len(t) < m.count)
    BY <1>3, <2>5 DEF Plain, All
  <2>6. ASSUME m.kind = "exactlySegments" PROVE slashes + 1 = m.count
    BY <1>3, <2>6 DEF Plain
  <2>7. ASSUME m.kind = "upToSegments" PROVE slashes + 1 = m.count \/ (last /\ slashes + 1 < m.count)
    BY <1>3, <2>7 DEF Plain, All
  <2>8. ASSUME m.kind = "restOfPath" PROVE last
    BY <1>3, <2>8 DEF Plain, All
  <2> HIDE DEF m, t, last
  <2>9. PlainText(m, t, last)
    BY <1>6, <2>1, <2>2, <2>3, <2>4, <2>5, <2>6, <2>7, <2>8, Zenon DEF PlainText
  <2> QED BY <2>9 DEF m, t, last
<1> QED BY <1>5, <1>6

\* Such a path arrives whole.
LEMMA UnderstoodWhole ==
    ASSUME Understandable, texts \in [1..All -> Seq(Char)] PROVE Whole
<1>1. ASSUME from = "node", NEW i \in 1..All, NEW k \in 1..Len(texts[i])
      PROVE  texts[i][k] \notin {"?", "#"}
  <2>1. texts[i] \in Seq(Char)
    OBVIOUS
  <2>2. k \in DOMAIN texts[i] /\ Plain(i)
    BY <2>1 DEF Understandable
  <2> QED BY <1>1, <2>2 DEF Plain
<1> QED BY <1>1 DEF Understandable, Whole

\* The matcher whose turn it is captures its text, all of it and nothing else.
LEMMA UnderstoodMove ==
    ASSUME Reading, Understandable, level <= All,
           NEW B, Laid(B, path, Ss, All), Ended(B), Follows(B, Ss, All, level, at)
    PROVE  /\ \E w : w \in Captures(Pieces[level])
           /\ \A w \in Captures(Pieces[level]) :
                 SubSeq(path, w[1], w[2] - 1) = Ss[level] /\ Follows(B, Ss, All, level + 1, w[2])
<1> DEFINE m == Pieces[level]
           S == Ss[level]
           b == B[level]
           e == b + Len(S)
           last == level = All
           l == level
           a == at
<1>1. /\ All \in Nat /\ path \in Seq(Char) /\ l \in 1..All /\ a \in 1..(Len(path) + 1)
      /\ \A i \in 1..All : Tidy(Ss[i])
  <2>1. All \in Nat /\ path \in Seq(Char) /\ l \in 1..(All + 1) /\ a \in 1..(Len(path) + 1)
    BY DEF Reading
  <2>2. l \in 1..All
    BY <2>1
  <2>3. \A i \in 1..All : Tidy(Ss[i])
    BY DEF Reading
  <2> QED BY <2>1, <2>2, <2>3
<1>2. m \in Matcher /\ texts[l] \in Seq(Char) /\ StripSlashes(texts[l]) = S
  BY <1>1 DEF Reading, All
<1>3. PlainText(m, texts[l], last)
  BY <1>1, PlainIs
<1>4. Captures(m) = SpansOf(m, path, a)
  BY DEF Captures, SpansOf
<1>5. CASE S # <<>>
  <2>1. TextLies(path, b, e, S)
    <3> HIDE DEF l
    <3> QED BY <1>1, <1>5, LaidText, Zenon DEF l
  <2>2. a <= b /\ SlashesOnly(path, a, b)
    <3> HIDE DEF a, l
    <3>1. Follows(B, Ss, All, l, a) /\ Ss[l] # <<>>
      BY <1>5, Zenon DEF l, a
    <3>2. a <= B[l] /\ SlashesOnly(path, a, B[l])
      BY <1>1, <3>1, SlashesBefore, Zenon
    <3> QED BY <3>2, Zenon DEF l
  <2>3. last /\ m.kind # "literal" => e = Len(path) + 1
    <3> SUFFICES ASSUME last, m.kind # "literal" PROVE e = Len(path) + 1
      OBVIOUS
    <3>1. template.bare => texts[1] = Ss[1]
      <4> SUFFICES ASSUME template.bare PROVE texts[1] = Ss[1]
        OBVIOUS
      <4>1. l = 1
        BY <1>1 DEF Reading
      <4>2. texts[l] = StripSlashes(texts[l])
        BY <1>3 DEF PlainText
      <4> QED BY <1>2, <4>1, <4>2
    <3>2. All > 0
      BY <1>1
    <3>3. EndsIt(B, path, Ss, All)
      BY <3>1, <3>2, Zenon DEF Ended
    <3> QED BY <1>5, <3>3 DEF EndsIt
  <2>4. TakesTo(m, path, b, e) /\ Parses(m, path, b, e)
    <3>1. last \in BOOLEAN
      OBVIOUS
    <3> HIDE DEF m, b, e, S, last
    <3> QED BY <1>1, <1>2, <1>3, <2>1, <2>3, <3>1, PlainTakes, Zenon
  <2>5. /\ \E w : w \in SpansOf(m, path, a)
        /\ \A w \in SpansOf(m, path, a) : w[1] = b /\ w[2] = e
    <3> HIDE DEF m, b, e, S, a
    <3> QED BY <1>1, <2>1, <2>2, <2>4, PlainSpan, Zenon
  <2>6. SubSeq(path, b, e - 1) = S
    BY <2>1, Zenon DEF TextLies
  <2>7. Follows(B, Ss, All, level + 1, e)
    <3>1. Follows(B, Ss, All, l, a) /\ Ss[l] # <<>> /\ a <= B[l] /\ a \in Nat
      BY <1>1, <1>5, <2>2
    <3> HIDE DEF l, a
    <3>2. Follows(B, Ss, All, l + 1, B[l] + Len(Ss[l]))
      BY <1>1, <3>1, FollowsText, Zenon
    <3> QED BY <3>2 DEF l
  <2> HIDE DEF m, S, b, e
  <2> QED BY <1>4, <2>5, <2>6, <2>7, Zenon DEF m, S
<1>6. CASE S = <<>>
  <2>1. m.kind = "literal" /\ StripSlashes(m.text) = <<>>
    <3>1. ~(texts[l] # <<>> /\ texts[l] = StripSlashes(texts[l]))
      BY <1>2, <1>6
    <3>2. m.kind = "literal" /\ texts[l] = m.text
      BY <1>3, <3>1 DEF PlainText
    <3> QED BY <1>2, <1>6, <3>2
  <2>2. /\ \E w : w \in SpansOf(m, path, a)
        /\ \A w \in SpansOf(m, path, a) : w[2] = w[1] /\ SubSeq(path, w[1], w[2] - 1) = <<>>
    <3> HIDE DEF m, a
    <3> QED BY <1>1, <2>1, BlankSpan, Zenon
  <2>3. ASSUME NEW w \in SpansOf(m, path, a) PROVE Follows(B, Ss, All, level + 1, w[2])
    <3> DEFINE x == w[1]
    <3>1. x \in a..(Len(path) + 1) /\ Leads(path, a, x)
      <4> HIDE DEF m, a
      <4> QED BY <1>1, SpanIs, Zenon
    <3>2. Follows(B, Ss, All, l, a) /\ Ss[l] = <<>>
      BY <1>6
    <3> HIDE DEF x, l, a
    <3>3. Follows(B, Ss, All, l + 1, x)
      BY <1>1, <3>1, <3>2, FollowsBlank, Zenon
    <3>4. w[2] = x
      BY <2>2, Zenon DEF x
    <3> QED BY <3>3, <3>4 DEF l
  <2> HIDE DEF m, S
  <2> QED BY <1>4, <1>6, <2>2, <2>3, Zenon DEF m, S
<1> QED BY <1>5, <1>6

\* So each step leaves every text either captured as it was written or still to come.
LEMMA UnderstoodStep == PInv /\ LayInv /\ LayInv' /\ Turns /\ UndInv /\ [Next]_vars => UndInv'
<1> SUFFICES ASSUME PInv, LayInv, LayInv', Turns, UndInv, [Next]_vars, Understandable'
             PROVE  /\ phase' # "wrongRoute"
                    /\ phase' \in {"consume", "matched"} =>
                          \E B : /\ Laid(B, path', Ss', All') /\ Ended(B)'
                                 /\ Follows(B, Ss', All', level', at')
                                 /\ \A h \in 1..(level' - 1) : Cut(path', spans', h) = Ss'[h]
  BY DEF UndInv
<1>1. UNCHANGED <<template, texts, from>> /\ Ss' = Ss /\ All' = All /\ Pieces' = Pieces /\ Understandable
  <2>1. UNCHANGED <<template, texts, from>>
    BY DEF Next, Expand, Send, Consume, Decide, vars
  <2> QED BY <2>1 DEF Understandable, FromClient, SingleLead, Plain, Stripped, Ss, All, Pieces
<1>2. CASE Expand
  BY <1>2 DEF Expand
<1>3. CASE Send
  <2>1. at' = 1 /\ level' = 1 /\ phase' = "consume"
    BY <1>3 DEF Send, PInv
  <2>2. Lies(All)'
    <3>1. FromClient' /\ texts' \in [1..All' -> Seq(Char)]
      BY DEF Understandable, LayInv
    <3>2. Whole'
      <4>1. FromClient /\ texts \in [1..All -> Seq(Char)]
        <5>1. texts' = texts /\ All' = All /\ FromClient
          BY <1>1 DEF Understandable
        <5> QED BY <3>1, <5>1, Zenon
      <4>2. Whole
        BY <1>1, <4>1, UnderstoodWhole
      <4> QED BY <1>1, <4>2 DEF Whole, SingleLead, Stripped
    <3> QED BY <2>1, <3>1, <3>2 DEF LayInv
  <2>3. PICK B : Laid(B, path', Ss', All') /\ Ended(B)'
    BY <2>2, Zenon DEF Lies, Ended
  <2>4. Follows(B, Ss', All', level', at')
    <3>1. ASSUME NEW j \in 1..All', Ss'[j] # <<>> PROVE ~(j < 1) /\ 1 <= B[j]
      <4>1. ~(j < 1)
        OBVIOUS
      <4>2. B[j] \in Nat /\ B[j] >= 1
        <5>1. B[j] >= 1
          BY <2>3, <3>1, Zenon DEF Laid
        <5>2. B \in [1..All' -> Nat]
          BY <2>3, Zenon DEF Laid
        <5> QED BY <5>1, <5>2
      <4> QED BY <4>1, <4>2
    <3> QED BY <2>1, <3>1, Zenon DEF Follows
  <2>5. \A h \in 1..(level' - 1) : FALSE
    BY <2>1
  <2> QED BY <2>1, <2>3, <2>4, <2>5, Zenon
<1>4. CASE Consume
  <2>1. /\ phase = "consume" /\ path' = path /\ level <= All
        /\ \/ \E w \in Captures(Pieces[level]) :
                  at' = w[2] /\ spans' = Append(spans, w) /\ level' = level + 1 /\ phase' = phase
           \/ Captures(Pieces[level]) = {}
    BY <1>4 DEF Consume, All
  <2>2. Reading
    BY <1>1, <2>1, ReadingHolds DEF Understandable
  <2>3. PICK B : /\ Laid(B, path, Ss, All) /\ Ended(B)
                 /\ Follows(B, Ss, All, level, at)
                 /\ \A h \in 1..(level - 1) : Cut(path, spans, h) = Ss[h]
    BY <1>1, <2>1, Zenon DEF UndInv
  <2>4. /\ \E w : w \in Captures(Pieces[level])
        /\ \A w \in Captures(Pieces[level]) :
              SubSeq(path, w[1], w[2] - 1) = Ss[level] /\ Follows(B, Ss, All, level + 1, w[2])
    BY <1>1, <2>1, <2>2, <2>3, UnderstoodMove, Zenon
  <2>5. PICK w \in Captures(Pieces[level]) :
            at' = w[2] /\ spans' = Append(spans, w) /\ level' = level + 1 /\ phase' = phase
    <3>1. Captures(Pieces[level]) # {}
      BY <2>4, Zenon
    <3> QED BY <2>1, <3>1, Zenon
  <2>6. Ended(B)' /\ Laid(B, path', Ss', All')
    BY <1>1, <2>1, <2>3 DEF Ended
  <2>7. Follows(B, Ss', All', level', at')
    BY <1>1, <2>4, <2>5, Zenon
  <2>8. ASSUME NEW h \in 1..(level' - 1) PROVE Cut(path', spans', h) = Ss'[h]
    <3>1. /\ Cut(path', spans', level) = SubSeq(path, w[1], w[2] - 1)
          /\ \A g \in 1..(level - 1) : Cut(path', spans', g) = Cut(path, spans, g)
      BY <2>1, <2>2, <2>5, CapturedThen, Zenon
    <3>2. level \in Nat
      BY <2>2 DEF Reading
    <3>3. CASE h = level
      BY <1>1, <2>4, <3>1, <3>3, Zenon
    <3>4. CASE h # level
      <4>1. h \in 1..(level - 1)
        BY <2>5, <3>2, <3>4
      <4> QED BY <1>1, <2>3, <3>1, <4>1, Zenon
    <3> QED BY <3>3, <3>4
  <2>9. phase' # "wrongRoute"
    BY <2>1, <2>5
  <2> QED BY <2>6, <2>7, <2>8, <2>9, Zenon
<1>5. ASSUME UNCHANGED <<template, texts, from, level, path, at, spans>>, phase \in {"consume", "matched"}
      PROVE  \E B : /\ Laid(B, path', Ss', All') /\ Ended(B)'
                    /\ Follows(B, Ss', All', level', at')
                    /\ \A h \in 1..(level' - 1) : Cut(path', spans', h) = Ss'[h]
  <2>1. PICK B : /\ Laid(B, path, Ss, All) /\ Ended(B)
                 /\ Follows(B, Ss, All, level, at)
                 /\ \A h \in 1..(level - 1) : Cut(path, spans, h) = Ss[h]
    BY <1>1, <1>5, Zenon DEF UndInv
  <2>2. Ended(B)'
    BY <1>1, <1>5, <2>1 DEF Ended
  <2> QED BY <1>1, <1>5, <2>1, <2>2
<1>6. CASE Decide
  <2>1. /\ phase = "consume" /\ UNCHANGED <<template, texts, from, level, path, at, spans>> /\ level > All
        /\ phase' = IF SlashesOnly(path, at, Len(path) + 1) THEN "matched" ELSE "wrongRoute"
    BY <1>6 DEF Decide, All
  <2>2. Reading
    BY <1>1, <2>1, ReadingHolds DEF Understandable
  <2>3. PICK B : Laid(B, path, Ss, All) /\ Follows(B, Ss, All, level, at)
    BY <1>1, <2>1, Zenon DEF UndInv
  <2>4. SlashesOnly(path, at, Len(path) + 1)
    <3> DEFINE l == level
    <3>1. All \in Nat /\ path \in Seq(Char) /\ l \in Nat /\ All < l /\ at \in 1..(Len(path) + 1)
      BY <2>1, <2>2 DEF Reading
    <3>2. \A i \in 1..All : Tidy(Ss[i])
      BY <2>2 DEF Reading
    <3>3. Laid(B, path, Ss, All) /\ Follows(B, Ss, All, l, at)
      BY <2>3
    <3> HIDE DEF l
    <3> QED BY <3>1, <3>2, <3>3, SlashesAfter, Zenon
  <2>5. phase' = "matched"
    BY <2>1, <2>4
  <2> QED BY <1>5, <2>1, <2>5
<1>7. CASE UNCHANGED vars
  <2>1. UNCHANGED <<template, texts, from, level, path, at, spans>> /\ phase' = phase
    BY <1>7 DEF vars
  <2>2. phase # "wrongRoute"
    BY <1>1 DEF UndInv
  <2> QED BY <1>5, <2>1, <2>2
<1> QED BY <1>2, <1>3, <1>4, <1>6, <1>7 DEF Next

\* They stay so in every behaviour.
LEMMA UnderstoodInv == Spec => []UndInv
<1>1. Init => UndInv
  BY DEF Init, UndInv, Understandable, FromClient
<1> QED BY <1>1, UnderstoodStep, PathsInductive, WrittenInOrder, TurnsInv, PTL DEF Spec

\* That is to be understood.
LEMMA UnderstoodMeans == PInv /\ LayInv /\ Turns /\ UndInv => ServerUnderstandsClient
<1> SUFFICES ASSUME PInv, LayInv, Turns, UndInv,
                    from \in {"memory", "node"}, from = "node" => SingleLead,
                    \A i \in DOMAIN Pieces : Plain(i)
             PROVE  /\ phase # "wrongRoute"
                    /\ phase \in {"consume", "matched"} =>
                          \A i \in DOMAIN spans : Captured(i) = Stripped(i)
  BY DEF ServerUnderstandsClient
<1>1. Understandable
  <2>1. DOMAIN Pieces = 1..All
    <3>1. template \in Template
      BY DEF PInv, PathsTypeOK
    <3>2. Pieces \in Seq(Matcher)
      BY <3>1, TemplateType
    <3> QED BY <3>2 DEF All
  <2> QED BY <2>1 DEF Understandable, FromClient
<1>2. phase # "wrongRoute"
  BY <1>1 DEF UndInv
<1>3. ASSUME phase \in {"consume", "matched"}, NEW i \in DOMAIN spans PROVE Captured(i) = Stripped(i)
  <2>1. Reading
    BY <1>1, <1>3, ReadingHolds DEF Understandable
  <2>2. i \in 1..(level - 1) /\ i \in 1..All
    BY <2>1 DEF Reading
  <2>3. Cut(path, spans, i) = Ss[i]
    BY <1>1, <1>3, <2>2, Zenon DEF UndInv
  <2>4. Ss[i] = Stripped(i)
    BY <2>1, <2>2 DEF Reading, Stripped
  <2> QED BY <2>3, <2>4 DEF Captured, Cut
<1> QED BY <1>2, <1>3

\* Whatever the template, the texts and the transport: the server reads a path made of
\* plain texts as what the client wrote (lenses.ts:67-72).
THEOREM Understood == Spec => []ServerUnderstandsClient
BY UnderstoodMeans, UnderstoodInv, PathsInductive, WrittenInOrder, TurnsInv, PTL

-----------------------------------------------------------------------------
\* A message does to its path what Paths says, and leaves it alone otherwise.
LEMMA PathsPart == MessagesSpec => Spec
<1>1. AnyPath => Init
  <2>1. (CHOOSE t \in Template : TRUE) \in Template
    BY MessagesAssumption, Zenon
  <2>2. (CHOOSE p \in Foreign : TRUE) \in Foreign
    BY MessagesAssumption, Zenon
  <2> QED BY <2>1, <2>2 DEF AnyPath, Init
<1>2. MessagesInit => Init
  BY <1>1, Zenon DEF MessagesInit
<1>3. [MessagesNext]_messageVars => [Next]_vars
  BY Zenon DEF MessagesNext, OnPath, OnHeaders, OnQuery, OnBody, OnReport, messageVars, vars
<1> QED BY <1>2, <1>3, PTL DEF MessagesSpec, Spec

\* The same for its headers.
LEMMA HeadersPart == MessagesSpec => HeadersInit /\ [][HeadersNext]_headerVars
<1>1. MessagesInit => HeadersInit
  BY Zenon DEF MessagesInit
<1>2. [MessagesNext]_messageVars => [HeadersNext]_headerVars
  BY Zenon DEF MessagesNext, OnPath, OnHeaders, OnQuery, OnBody, OnReport, messageVars, headerVars
<1> QED BY <1>1, <1>2, PTL DEF MessagesSpec

\* Whatever part of a message a program works on, what is proved of paths holds.
THEOREM PathsOfMessages ==
    MessagesSpec => [](/\ PathsTypeOK /\ OnlySlashesAreSkipped
                       /\ ServerUnderstandsClient /\ MatchedMeansWhatWasWritten)
BY PathsPart, PathsTypeCorrect, PathsReadWhole, Understood, MatchedAsWritten, PTL

\* A message that is not about its body has an empty one.
LEMMA NoBodyInv == NoBody => BodyInv
<1> SUFFICES ASSUME NoBody PROVE BodyInv
  OBVIOUS
<1>1. <<>> \in Seq(Byte)
  OBVIOUS
<1>2. TextChunk(<<>>) \in Chunk
  BY <1>1, ChunkTypes, Zenon
<1>3. Fits(Body("data", <<TextChunk(<<>>)>>))
  <2>1. "data" \in Kind
    BY DEF Kind
  <2> QED BY <1>2, <2>1, OneFits, Zenon
<1> QED
  BY <1>3, BodyAssumption DEF NoBody, BodyInv

\* Whatever part of a message a program works on, its body keeps what it says.
THEOREM BodiesOfMessages == MessagesSpec => BodyKept /\ []BodyTypeOK
<1>1. MessagesInit => BodyInv
  BY BodyInitInv, NoBodyInv, Zenon DEF MessagesInit
<1>2. [MessagesNext]_messageVars => [BodyNext]_bodyVars
  BY Zenon DEF MessagesNext, OnPath, OnHeaders, OnQuery, OnBody, OnReport, messageVars, bodyVars
<1>3. BodyInv /\ UNCHANGED bodyVars => BodyInv'
  BY DEF BodyInv, bodyVars
<1>4. BodyInv /\ [BodyNext]_bodyVars => BodyInv'
  BY <1>3, BodyStep, Zenon
<1>5. BodyInv /\ [BodyNext]_bodyVars =>
         [Lossy(did', body)
          \/ /\ Says(body') = Says(body)
             /\ got'.outcome = (IF did' \in Readers THEN "ok" ELSE "none")
             /\ did' \in Readers => got'.bytes = Says(body)]_bodyVars
  BY BodyStep, Zenon DEF Kept
<1>6. BodyInv => BodyTypeOK
  <2> SUFFICES ASSUME BodyInv PROVE BodyTypeOK
    OBVIOUS
  <2>1. body.kind \in Kind /\ body.used \in BOOLEAN /\ body.chunks \in Seq(Chunk)
    BY DEF BodyInv, Fits, BodyType
  <2>2. ASSUME NEW i \in DOMAIN body.chunks PROVE body.chunks[i].bytes \in Seq(Byte)
    <3>1. body.chunks[i] \in Chunk
      BY <2>1, ElementOfSeq
    <3> QED BY <3>1 DEF Chunk
  <2> QED BY <2>1, <2>2, Zenon DEF BodyInv, BodyTypeOK, Fits, Single
<1> QED BY <1>1, <1>2, <1>4, <1>5, <1>6, PTL DEF MessagesSpec, BodyKept

-----------------------------------------------------------------------------
\* e counts up the n members of S.
Ordered(e, n, S) ==
    /\ e \in [1..n -> S]
    /\ \A i, j \in 1..n : i < j => e[i] < e[j]
    /\ \A x \in S : \E k \in 1..n : e[k] = x

\* The first k of them are those up to the k-th.
LEMMA Ranked ==
    ASSUME NEW S \in SUBSET Nat, NEW n \in Nat, NEW e, Ordered(e, n, S)
    PROVE  /\ Cardinality(S) = n
           /\ \A k \in 1..n : Cardinality({j \in S : j <= e[k]}) = k
<1>0. ASSUME NEW i \in 1..n, NEW j \in 1..n
      PROVE  e[i] \in Nat /\ (i <= j <=> e[i] <= e[j]) /\ (e[i] = e[j] => i = j)
  <2>1. e[i] \in Nat /\ e[j] \in Nat /\ (i < j => e[i] < e[j]) /\ (j < i => e[j] < e[i])
    BY DEF Ordered
  <2> QED BY <2>1
<1>1. ASSUME NEW k \in 0..n, NEW T \in SUBSET S,
             \A i \in 1..k : e[i] \in T, \A x \in T : \E i \in 1..k : e[i] = x
      PROVE  Cardinality(T) = k
  <2> DEFINE f == [i \in 1..k |-> e[i]]
  <2>1. f \in Bijection(1..k, T)
    <3>1. 1..k \subseteq 1..n
      OBVIOUS
    <3>2. f \in [1..k -> T] /\ \A i, j \in 1..k : f[i] = f[j] => i = j
      BY <1>0, <1>1, <3>1
    <3>3. \A x \in T : \E i \in 1..k : f[i] = x
      BY <1>1
    <3> HIDE DEF f
    <3> QED BY <3>2, <3>3 DEF Bijection, Injection, Surjection, IsInjective
  <2>2. ExistsBijection(1..k, T)
    BY <2>1 DEF ExistsBijection
  <2>3. IsFiniteSet(1..k) /\ Cardinality(1..k) = k
    BY FS_Interval
  <2> QED BY <2>2, <2>3, FS_Bijection
<1>2. Cardinality(S) = n
  <2>1. n \in 0..n /\ S \in SUBSET S
    OBVIOUS
  <2>2. (\A i \in 1..n : e[i] \in S) /\ \A x \in S : \E i \in 1..n : e[i] = x
    BY DEF Ordered
  <2> QED BY <1>1, <2>1, <2>2, Zenon
<1>3. ASSUME NEW k \in 1..n PROVE Cardinality({j \in S : j <= e[k]}) = k
  <2> DEFINE T == {j \in S : j <= e[k]}
  <2>1. k \in 0..n /\ T \in SUBSET S
    OBVIOUS
  <2>2. \A i \in 1..k : e[i] \in T
    <3> TAKE i \in 1..k
    <3>1. i \in 1..n /\ i <= k
      OBVIOUS
    <3>2. e[i] <= e[k] /\ e[i] \in S
      BY <1>0, <3>1 DEF Ordered
    <3> QED BY <3>2
  <2>3. \A x \in T : \E i \in 1..k : e[i] = x
    <3> TAKE x \in T
    <3>1. PICK i \in 1..n : e[i] = x
      BY DEF Ordered
    <3>2. i <= k
      BY <1>0, <3>1
    <3> QED BY <3>1, <3>2
  <2> HIDE DEF T
  <2>4. Cardinality(T) = k
    BY <1>1, <2>1, <2>2, <2>3, Zenon
  <2> QED BY <2>4 DEF T
<1> QED BY <1>2, <1>3

\* The members of s where e counts.
Along(s, e, n) == [k \in 1..n |-> s[e[k]]]

\* So what is picked stands in that order.
LEMMA PickIs ==
    ASSUME NEW S \in SUBSET Nat, NEW n \in Nat, NEW e, Ordered(e, n, S)
    PROVE  \A s : Pick(s, S) = Along(s, e, n)
<1> TAKE s
<1>1. Cardinality(S) = n /\ \A k \in 1..n : Cardinality({j \in S : j <= e[k]}) = k
  BY Ranked
<1>2. ASSUME NEW k \in 1..n
      PROVE  (CHOOSE i \in S : Cardinality({j \in S : j <= i}) = k) = e[k]
  <2>1. e[k] \in S
    BY DEF Ordered
  <2>2. ASSUME NEW i \in S, Cardinality({j \in S : j <= i}) = k PROVE i = e[k]
    <3>1. PICK l \in 1..n : e[l] = i
      BY DEF Ordered
    <3>2. Cardinality({j \in S : j <= e[l]}) = l
      BY <1>1
    <3> QED BY <2>2, <3>1, <3>2, Zenon
  <2> QED BY <1>1, <2>1, <2>2, Zenon
<1>3. Pick(s, S) = [k \in 1..n |-> s[CHOOSE i \in S : Cardinality({j \in S : j <= i}) = k]]
  BY <1>1, Zenon DEF Pick
<1> QED BY <1>2, <1>3, Zenon DEF Along

\* Numbers up to m can be counted up.
LEMMA OrderedExists ==
    \A m \in Nat : \A S \in SUBSET (1..m) : \E n \in Nat : \E e : Ordered(e, n, S)
<1> DEFINE M == {m \in Nat : \A S \in SUBSET (1..m) : \E n \in Nat : \E e : Ordered(e, n, S)}
<1>1. 0 \in M
  <2> SUFFICES ASSUME NEW S \in SUBSET (1..0) PROVE \E n \in Nat : \E e : Ordered(e, n, S)
    OBVIOUS
  <2> DEFINE e == [i \in 1..0 |-> i]
  <2>1. S = {}
    OBVIOUS
  <2>2. Ordered(e, 0, S)
    BY <2>1 DEF Ordered
  <2>3. 0 \in Nat
    OBVIOUS
  <2> HIDE DEF e
  <2> QED BY <2>2, <2>3, Zenon
<1>2. ASSUME NEW m \in M PROVE m + 1 \in M
  <2> SUFFICES ASSUME NEW S \in SUBSET (1..(m + 1)) PROVE \E n \in Nat : \E e : Ordered(e, n, S)
    OBVIOUS
  <2> DEFINE R == S \ {m + 1}
  <2>1. m \in Nat /\ R \in SUBSET (1..m)
    OBVIOUS
  <2>2. PICK n \in Nat : \E e : Ordered(e, n, R)
    <3>1. \A Q \in SUBSET (1..m) : \E n \in Nat : \E e : Ordered(e, n, Q)
      OBVIOUS
    <3> HIDE DEF R, M
    <3> QED BY <2>1, <3>1, Zenon
  <2>3. PICK e : Ordered(e, n, R)
    BY <2>2
  <2>4. CASE m + 1 \notin S
    <3>1. R = S
      BY <2>4
    <3> QED BY <2>3, <3>1, Zenon
  <2>5. CASE m + 1 \in S
    <3> DEFINE f == [k \in 1..(n + 1) |-> IF k = n + 1 THEN m + 1 ELSE e[k]]
               d == n + 1
    <3>1. d \in Nat /\ d = n + 1
      OBVIOUS
    <3>2. ASSUME NEW k \in 1..n PROVE f[k] = e[k] /\ e[k] \in S /\ e[k] \in 1..m
      <4>1. e[k] \in R
        <5> HIDE DEF R
        <5> QED BY <2>3 DEF Ordered
      <4>2. k \in 1..(n + 1) /\ k # n + 1
        OBVIOUS
      <4>3. f[k] = e[k]
        BY <4>2
      <4> HIDE DEF f
      <4> QED BY <2>1, <4>1, <4>3
    <3>3. f[n + 1] = m + 1 /\ DOMAIN f = 1..(n + 1)
      OBVIOUS
    <3>4. \A k \in 1..(n + 1) : k \in 1..n \/ k = n + 1
      OBVIOUS
    <3>5. f \in [1..(n + 1) -> S]
      <4>1. \A k \in 1..(n + 1) : f[k] \in S
        BY <2>5, <3>2, <3>3, <3>4
      <4> QED BY <4>1
    <3>6. ASSUME NEW i \in 1..(n + 1), NEW j \in 1..(n + 1), i < j PROVE f[i] < f[j]
      <4>1. i \in 1..n
        BY <3>6
      <4>2. CASE j = n + 1
        <5>1. f[i] \in 1..m /\ f[j] = m + 1
          BY <3>2, <3>3, <4>1, <4>2
        <5> HIDE DEF f
        <5> QED BY <2>1, <5>1
      <4>3. CASE j \in 1..n
        <5>1. e[i] < e[j]
          BY <2>3, <3>6, <4>1, <4>3 DEF Ordered
        <5>2. f[i] = e[i] /\ f[j] = e[j]
          BY <3>2, <4>1, <4>3
        <5> HIDE DEF f
        <5> QED BY <5>1, <5>2
      <4> QED BY <3>4, <4>2, <4>3
    <3>7. ASSUME NEW x \in S PROVE \E k \in 1..(n + 1) : f[k] = x
      <4>1. CASE x = m + 1
        <5>1. n + 1 \in 1..(n + 1)
          OBVIOUS
        <5> HIDE DEF f
        <5> QED BY <3>3, <4>1, <5>1
      <4>2. CASE x # m + 1
        <5>1. PICK k \in 1..n : e[k] = x
          BY <2>3, <4>2 DEF Ordered
        <5>2. k \in 1..(n + 1) /\ f[k] = x
          BY <3>2, <5>1
        <5> HIDE DEF f
        <5> QED BY <5>2
      <4> QED BY <4>1, <4>2
    <3> HIDE DEF f
    <3>8. Ordered(f, d, S)
      BY <3>5, <3>6, <3>7 DEF Ordered
    <3> HIDE DEF d
    <3> QED BY <3>1, <3>8, Zenon
  <2> QED BY <2>4, <2>5
<1>3. \A m \in Nat : m \in M
  <2>1. M \in SUBSET Nat
    OBVIOUS
  <2> HIDE DEF M
  <2> QED BY <1>1, <1>2, <2>1, Induct
<1> QED BY <1>3

\* What is picked from a sequence is a sequence of what stands at the places.
LEMMA PickType ==
    ASSUME NEW T, NEW s \in Seq(T), NEW S \in SUBSET (1..Len(s))
    PROVE  /\ Pick(s, S) \in Seq(T)
           /\ \A k \in 1..Len(Pick(s, S)) : \E i \in S : Pick(s, S)[k] = s[i]
           /\ \A i \in S : \E k \in 1..Len(Pick(s, S)) : Pick(s, S)[k] = s[i]
<1>0. Len(s) \in Nat /\ S \in SUBSET Nat
  OBVIOUS
<1>1. PICK n \in Nat : \E e : Ordered(e, n, S)
  BY <1>0, OrderedExists, Zenon
<1>2. PICK e : Ordered(e, n, S)
  BY <1>1
<1>3. Pick(s, S) = [k \in 1..n |-> s[e[k]]]
  <2>1. Pick(s, S) = Along(s, e, n)
    BY <1>0, <1>2, PickIs, Zenon
  <2> QED BY <2>1, Zenon DEF Along
<1>4. \A k \in 1..n : e[k] \in S /\ s[e[k]] \in T
  <2> TAKE k \in 1..n
  <2>1. e[k] \in S
    BY <1>2 DEF Ordered
  <2> DEFINE i == e[k]
  <2>2. i \in 1..Len(s)
    BY <2>1
  <2> HIDE DEF i
  <2>3. s[i] \in T
    BY <2>2
  <2> QED BY <2>1, <2>3 DEF i
<1> DEFINE p == [k \in 1..n |-> s[e[k]]]
<1>5. p \in Seq(T) /\ Len(p) = n
  <2>1. p \in [1..n -> T]
    BY <1>4
  <2> HIDE DEF p
  <2> QED BY <2>1, FunctionIsSeq
<1>6. \A k \in 1..n : \E i \in S : p[k] = s[i]
  BY <1>4
<1>7. \A i \in S : \E k \in 1..n : p[k] = s[i]
  <2> TAKE i \in S
  <2>1. PICK k \in 1..n : e[k] = i
    BY <1>2 DEF Ordered
  <2>2. p[k] = s[i]
    BY <2>1
  <2> QED BY <2>2
<1> HIDE DEF p
<1> QED BY <1>3, <1>5, <1>6, <1>7 DEF p

\* All that there is, or nothing.
LEMMA PickAll ==
    ASSUME NEW T, NEW s \in Seq(T)
    PROVE  Pick(s, 1..Len(s)) = s /\ Pick(s, {}) = <<>>
<1>0. Len(s) \in Nat /\ 1..Len(s) \in SUBSET Nat /\ {} \in SUBSET Nat /\ 0 \in Nat
  OBVIOUS
<1>1. Pick(s, 1..Len(s)) = s
  <2> DEFINE e == [k \in 1..Len(s) |-> k]
  <2>1. Ordered(e, Len(s), 1..Len(s))
    BY DEF Ordered
  <2>2. Pick(s, 1..Len(s)) = [k \in 1..Len(s) |-> s[e[k]]]
    <3> HIDE DEF e
    <3>1. Pick(s, 1..Len(s)) = Along(s, e, Len(s))
      BY <1>0, <2>1, PickIs, Zenon
    <3> QED BY <3>1, Zenon DEF Along
  <2>3. \A k \in 1..Len(s) : e[k] = k
    OBVIOUS
  <2>4. Pick(s, 1..Len(s)) = [k \in 1..Len(s) |-> s[k]]
    <3> HIDE DEF e
    <3> QED BY <2>2, <2>3, Zenon
  <2> QED BY <2>4
<1>2. Pick(s, {}) = <<>>
  <2> DEFINE e == [k \in 1..0 |-> k]
  <2>1. Ordered(e, 0, {})
    BY DEF Ordered
  <2> HIDE DEF e
  <2>2. Pick(s, {}) = Along(s, e, 0)
    BY <1>0, <2>1, PickIs, Zenon
  <2> QED BY <2>2 DEF Along
<1> QED BY <1>1, <1>2

-----------------------------------------------------------------------------
\* The places where a member of X stands, and what is left if only those are kept.
In(s, X)   == {i \in 1..Len(s) : s[i] \in X}
Keep(s, X) == Pick(s, In(s, X))

\* The members of u are those of s before those of t.
Joint(u, s, t) ==
    /\ Len(u) = Len(s) + Len(t)
    /\ \A i \in 1..(Len(s) + Len(t)) : u[i] = IF i <= Len(s) THEN s[i] ELSE t[i - Len(s)]

LEMMA JointIs ==
    ASSUME NEW T, NEW s \in Seq(T), NEW t \in Seq(T)
    PROVE  s \o t \in Seq(T) /\ Joint(s \o t, s, t)
BY ConcatProperties, Zenon DEF Joint

\* What is kept of two lists, one behind the other.
KeptOfBoth(s, t, X) == Keep(s \o t, X) = Keep(s, X) \o Keep(t, X)

LEMMA KeepBoth ==
    ASSUME NEW T, NEW s \in Seq(T), NEW t \in Seq(T), NEW X
    PROVE  KeptOfBoth(s, t, X)
<1> DEFINE S == In(s, X)
           R == In(t, X)
           u == s \o t
           U == In(u, X)
           l == Len(s)
<1>0. /\ l \in Nat /\ Len(t) \in Nat /\ u \in Seq(T) /\ Len(u) = l + Len(t)
      /\ \A i \in 1..Len(u) : u[i] = IF i <= l THEN s[i] ELSE t[i - l]
      /\ S \in SUBSET (1..l) /\ R \in SUBSET (1..Len(t)) /\ S \in SUBSET Nat /\ R \in SUBSET Nat
  <2>1. l \in Nat /\ Len(t) \in Nat /\ u \in Seq(T) /\ Len(u) = l + Len(t)
    OBVIOUS
  <2>2. \A i \in 1..Len(u) : u[i] = IF i <= l THEN s[i] ELSE t[i - l]
    OBVIOUS
  <2>3. S \in SUBSET (1..l) /\ R \in SUBSET (1..Len(t))
    BY DEF In
  <2> QED BY <2>1, <2>2, <2>3
<1>1. PICK p \in Nat : \E e : Ordered(e, p, S)
  BY <1>0, OrderedExists, Zenon
<1>2. PICK e : Ordered(e, p, S)
  BY <1>1
<1>3. PICK q \in Nat : \E f : Ordered(f, q, R)
  BY <1>0, OrderedExists, Zenon
<1>4. PICK f : Ordered(f, q, R)
  BY <1>3
<1> DEFINE g == [k \in 1..(p + q) |-> IF k <= p THEN e[k] ELSE l + f[k - p]]
<1>5. \A k \in 1..p : e[k] \in S /\ e[k] \in 1..l
  BY <1>0, <1>2 DEF Ordered
<1>6. \A k \in 1..q : f[k] \in R /\ f[k] \in 1..Len(t)
  BY <1>0, <1>4 DEF Ordered
<1>7. \A k \in 1..p : k \in 1..(p + q) /\ g[k] = e[k]
  OBVIOUS
<1>8. \A k \in 1..q : p + k \in 1..(p + q) /\ g[p + k] = l + f[k]
  <2> TAKE k \in 1..q
  <2>1. p + k \in 1..(p + q) /\ ~(p + k <= p) /\ p + k - p = k
    OBVIOUS
  <2> QED BY <2>1
<1>9. \A k \in 1..(p + q) : k \in 1..p \/ \E j \in 1..q : k = p + j
  <2> TAKE k \in 1..(p + q)
  <2>1. k \in 1..p \/ (k - p \in 1..q /\ k = p + (k - p))
    OBVIOUS
  <2> QED BY <2>1, Zenon
<1>10. \A i \in U : i \in S \/ \E j \in R : i = l + j
  <2> TAKE i \in U
  <2>1. i \in 1..Len(u) /\ u[i] \in X
    BY DEF In
  <2>2. CASE i <= l
    <3>1. i \in 1..l /\ u[i] = s[i]
      BY <1>0, <2>1, <2>2
    <3> QED BY <2>1, <3>1 DEF In
  <2>3. CASE ~(i <= l)
    <3> DEFINE j == i - l
    <3>1. j \in 1..Len(t) /\ u[i] = t[j] /\ i = l + j
      BY <1>0, <2>1, <2>3
    <3> HIDE DEF j
    <3>2. j \in R
      BY <2>1, <3>1 DEF In
    <3> QED BY <3>1, <3>2
  <2> QED BY <2>2, <2>3
<1>11. \A i \in S : i \in U
  <2> TAKE i \in S
  <2>1. i \in 1..l /\ s[i] \in X
    BY DEF In
  <2>2. i \in 1..Len(u) /\ u[i] = s[i]
    BY <1>0, <2>1
  <2> QED BY <2>1, <2>2 DEF In
<1>12. \A j \in R : l + j \in U /\ u[l + j] = t[j]
  <2> TAKE j \in R
  <2>1. j \in 1..Len(t) /\ t[j] \in X
    BY DEF In
  <2> DEFINE i == l + j
  <2>2. i \in 1..Len(u) /\ ~(i <= l) /\ i - l = j
    BY <1>0, <2>1
  <2>3. u[i] = t[j]
    BY <1>0, <2>2
  <2> HIDE DEF i
  <2>4. i \in U
    BY <2>1, <2>2, <2>3 DEF In
  <2> QED BY <2>3, <2>4 DEF i
<1> HIDE DEF S, R, U, u, l
<1>13. Ordered(g, p + q, U)
  <2>1. ASSUME NEW k \in 1..(p + q) PROVE g[k] \in U
    <3>1. CASE k \in 1..p
      BY <1>5, <1>7, <1>11, <3>1
    <3>2. ASSUME NEW j \in 1..q, k = p + j PROVE g[k] \in U
      BY <1>6, <1>8, <1>12, <3>2
    <3> QED BY <1>9, <3>1, <3>2
  <2>2. ASSUME NEW i \in 1..(p + q), NEW j \in 1..(p + q), i < j PROVE g[i] < g[j]
    <3>1. CASE j \in 1..p
      <4>1. i \in 1..p
        BY <2>2, <3>1
      <4>2. e[i] < e[j]
        BY <1>2, <2>2, <3>1, <4>1 DEF Ordered
      <4> QED BY <1>7, <3>1, <4>1, <4>2, Zenon
    <3>2. ASSUME NEW k \in 1..q, j = p + k PROVE g[i] < g[j]
      <4>1. g[j] = l + f[k] /\ f[k] \in 1..Len(t)
        BY <1>6, <1>8, <3>2, Zenon
      <4>2. CASE i \in 1..p
        <5>1. g[i] = e[i] /\ e[i] \in 1..l
          BY <1>5, <1>7, <4>2, Zenon
        <5> HIDE DEF g
        <5> QED BY <1>0, <4>1, <5>1
      <4>3. ASSUME NEW h \in 1..q, i = p + h PROVE g[i] < g[j]
        <5>1. h < k
          BY <2>2, <3>2, <4>3
        <5>2. f[h] < f[k]
          BY <1>4, <5>1 DEF Ordered
        <5>3. g[i] = l + f[h] /\ f[h] \in 1..Len(t)
          BY <1>6, <1>8, <4>3, Zenon
        <5> HIDE DEF g
        <5> QED BY <1>0, <4>1, <5>2, <5>3
      <4> QED BY <1>9, <4>2, <4>3
    <3> QED BY <1>9, <3>1, <3>2
  <2>3. ASSUME NEW x \in U PROVE \E k \in 1..(p + q) : g[k] = x
    <3>1. CASE x \in S
      <4>1. PICK k \in 1..p : e[k] = x
        BY <1>2, <3>1 DEF Ordered
      <4> QED BY <1>7, <4>1, Zenon
    <3>2. ASSUME NEW j \in R, x = l + j PROVE \E k \in 1..(p + q) : g[k] = x
      <4>1. PICK k \in 1..q : f[k] = j
        BY <1>4 DEF Ordered
      <4> QED BY <1>8, <3>2, <4>1, Zenon
    <3> QED BY <1>10, <3>1, <3>2
  <2>4. g \in [1..(p + q) -> U]
    <3>1. g = [k \in 1..(p + q) |-> g[k]]
      OBVIOUS
    <3> HIDE DEF g
    <3> QED BY <2>1, <3>1
  <2> HIDE DEF g
  <2> QED BY <2>2, <2>3, <2>4 DEF Ordered
<1>14. /\ Pick(s, S) = [k \in 1..p |-> s[e[k]]]
       /\ Pick(t, R) = [k \in 1..q |-> t[f[k]]]
       /\ Pick(u, U) = [k \in 1..(p + q) |-> u[g[k]]]
  <2>1. p + q \in Nat /\ U \in SUBSET Nat
    BY <1>0 DEF U, In
  <2> HIDE DEF g
  <2>2. Pick(s, S) = Along(s, e, p)
    BY <1>0, <1>2, PickIs, Zenon
  <2>3. Pick(t, R) = Along(t, f, q)
    BY <1>0, <1>4, PickIs, Zenon
  <2>4. Pick(u, U) = Along(u, g, p + q)
    BY <1>13, <2>1, PickIs, Zenon
  <2> QED BY <2>2, <2>3, <2>4 DEF Along
<1>15. /\ Pick(s, S) \in Seq(T) /\ Pick(t, R) \in Seq(T) /\ Pick(u, U) \in Seq(T)
       /\ Len(Pick(s, S)) = p /\ Len(Pick(t, R)) = q /\ Len(Pick(u, U)) = p + q
  <2>1. Pick(s, S) \in Seq(T) /\ Pick(t, R) \in Seq(T) /\ Pick(u, U) \in Seq(T)
    <3>1. U \in SUBSET (1..Len(u))
      BY DEF U, In
    <3>2. S \in SUBSET (1..Len(s)) /\ R \in SUBSET (1..Len(t)) /\ u \in Seq(T)
      BY <1>0 DEF l
    <3> QED BY <3>1, <3>2, PickType, Zenon
  <2> HIDE DEF g
  <2> QED BY <1>14, <2>1
<1>16. ASSUME NEW k \in 1..(p + q) PROVE Pick(u, U)[k] = (Pick(s, S) \o Pick(t, R))[k]
  <2>1. CASE k \in 1..p
    <3>1. Pick(u, U)[k] = u[e[k]] /\ Pick(s, S)[k] = s[e[k]]
      BY <1>7, <1>14, <2>1
    <3> DEFINE x == e[k]
    <3>2. x \in 1..l
      BY <1>5, <2>1
    <3> HIDE DEF x
    <3>3. u[x] = s[x]
      BY <1>0, <3>2
    <3>4. (Pick(s, S) \o Pick(t, R))[k] = Pick(s, S)[k]
      BY <1>15, <2>1
    <3> QED BY <3>1, <3>3, <3>4 DEF x
  <2>2. ASSUME NEW j \in 1..q, k = p + j PROVE Pick(u, U)[k] = (Pick(s, S) \o Pick(t, R))[k]
    <3>1. Pick(u, U)[k] = u[l + f[j]] /\ Pick(t, R)[j] = t[f[j]]
      BY <1>8, <1>14, <2>2
    <3>2. u[l + f[j]] = t[f[j]]
      BY <1>6, <1>12, Zenon
    <3>3. (Pick(s, S) \o Pick(t, R))[k] = Pick(t, R)[j]
      BY <1>15, <2>2, SMTT(30)
    <3> QED BY <3>1, <3>2, <3>3, Zenon
  <2> QED BY <1>9, <2>1, <2>2
<1>17. Pick(u, U) = Pick(s, S) \o Pick(t, R)
  <2> DEFINE v == Pick(s, S) \o Pick(t, R)
             w == Pick(u, U)
  <2>1. v \in Seq(T) /\ w \in Seq(T) /\ Len(v) = p + q /\ Len(w) = Len(v)
    <3> DEFINE x == Pick(s, S)
               y == Pick(t, R)
    <3>1. x \in Seq(T) /\ y \in Seq(T) /\ Len(x) = p /\ Len(y) = q /\ w \in Seq(T) /\ Len(w) = p + q
      BY <1>15
    <3> HIDE DEF x, y, w
    <3>2. x \o y \in Seq(T) /\ Len(x \o y) = Len(x) + Len(y)
      BY <3>1, ConcatProperties, Zenon
    <3> QED BY <3>1, <3>2 DEF x, y
  <2>2. \A k \in 1..Len(w) : w[k] = v[k]
    BY <1>15, <1>16
  <2> HIDE DEF v, w
  <2>3. w = v
    BY <2>1, <2>2, SeqEqual, Zenon
  <2> QED BY <2>3 DEF v, w
<1>18. Keep(s, X) = Pick(s, S) /\ Keep(t, X) = Pick(t, R) /\ Keep(u, X) = Pick(u, U)
  BY Zenon DEF S, R, U, Keep
<1> QED BY <1>17, <1>18 DEF u, KeptOfBoth

\* What is kept of what was picked.
KeptOfPicked(s, S, X) == Keep(Pick(s, S), X) = Pick(s, S \cap In(s, X))

LEMMA KeepPicked ==
    ASSUME NEW T, NEW s \in Seq(T), NEW S \in SUBSET (1..Len(s)), NEW X
    PROVE  KeptOfPicked(s, S, X)
<1> DEFINE p == Pick(s, S)
           R == In(p, X)
           H == S \cap In(s, X)
<1>0. S \in SUBSET Nat /\ H \in SUBSET Nat /\ Len(s) \in Nat
  BY DEF In
<1>1. PICK m \in Nat : \E e : Ordered(e, m, S)
  BY <1>0, OrderedExists, Zenon
<1>2. PICK e : Ordered(e, m, S)
  BY <1>1
<1>3. p \in Seq(T)
  BY PickType, Zenon
<1>4. p = [k \in 1..m |-> s[e[k]]]
  <2>1. p = Along(s, e, m)
    BY <1>0, <1>2, PickIs, Zenon
  <2> QED BY <2>1 DEF Along
<1>5. Len(p) = m
  <2> HIDE DEF p
  <2> QED BY <1>3, <1>4
<1>6. R \in SUBSET (1..m) /\ R \in SUBSET Nat
  BY <1>5 DEF In
<1>7. PICK q \in Nat : \E f : Ordered(f, q, R)
  <2> HIDE DEF R
  <2> QED BY <1>6, OrderedExists, Zenon
<1>8. PICK f : Ordered(f, q, R)
  BY <1>7
<1> DEFINE g == [k \in 1..q |-> e[f[k]]]
<1>9. \A k \in 1..m : e[k] \in S /\ e[k] \in 1..Len(s) /\ p[k] = s[e[k]]
  <2> HIDE DEF p
  <2> QED BY <1>2, <1>4 DEF Ordered
<1>10. \A k \in 1..q : f[k] \in R /\ f[k] \in 1..m
  <2> HIDE DEF R
  <2> QED BY <1>6, <1>8 DEF Ordered
<1>11. \A k \in R : e[k] \in H
  <2> TAKE k \in R
  <2>1. k \in 1..m /\ p[k] \in X
    BY <1>5 DEF In
  <2> HIDE DEF p, R
  <2> QED BY <1>9, <2>1 DEF In
<1>12. \A x \in H : \E k \in R : e[k] = x
  <2> TAKE x \in H
  <2>1. PICK k \in 1..m : e[k] = x
    BY <1>2 DEF Ordered
  <2>2. s[x] \in X
    BY DEF In
  <2>3. k \in R
    <3> HIDE DEF p
    <3> QED BY <1>5, <1>9, <2>1, <2>2 DEF In
  <2> QED BY <2>1, <2>3
<1> HIDE DEF p, R, H
<1>13. Ordered(g, q, H)
  <2>1. g \in [1..q -> H]
    BY <1>10, <1>11
  <2>2. ASSUME NEW i \in 1..q, NEW j \in 1..q, i < j PROVE g[i] < g[j]
    <3>1. f[i] < f[j] /\ f[i] \in 1..m /\ f[j] \in 1..m
      BY <1>8, <1>10, <2>2 DEF Ordered
    <3>2. e[f[i]] < e[f[j]]
      BY <1>2, <3>1, Zenon DEF Ordered
    <3> QED BY <3>2
  <2>3. ASSUME NEW x \in H PROVE \E k \in 1..q : g[k] = x
    <3>1. PICK l \in R : e[l] = x
      BY <1>12
    <3>2. PICK k \in 1..q : f[k] = l
      BY <1>8 DEF Ordered
    <3> QED BY <3>1, <3>2
  <2> HIDE DEF g
  <2> QED BY <2>1, <2>2, <2>3 DEF Ordered
<1>14. Pick(s, H) = Along(s, g, q) /\ Pick(p, R) = Along(p, f, q)
  <2> HIDE DEF g, p, R, H
  <2>1. Pick(s, H) = Along(s, g, q)
    BY <1>0, <1>13, PickIs, Zenon
  <2>2. Pick(p, R) = Along(p, f, q)
    BY <1>6, <1>8, PickIs, Zenon
  <2> QED BY <2>1, <2>2, Zenon
<1>15. Along(s, g, q) = Along(p, f, q)
  <2>1. \A k \in 1..q : s[g[k]] = p[f[k]]
    <3> TAKE k \in 1..q
    <3>1. g[k] = e[f[k]]
      OBVIOUS
    <3> HIDE DEF g
    <3> QED BY <1>9, <1>10, <3>1, Zenon
  <2> HIDE DEF g
  <2> QED BY <2>1, Zenon DEF Along
<1>16. Keep(p, X) = Pick(p, R)
  BY Zenon DEF Keep, R
<1> QED BY <1>14, <1>15, <1>16, Zenon DEF p, H, KeptOfPicked

\* What is kept is a list of members of X.
KeptType(s, X, T) ==
    /\ Keep(s, X) \in Seq(T)
    /\ \A k \in 1..Len(Keep(s, X)) : Keep(s, X)[k] \in X

LEMMA KeepType ==
    ASSUME NEW T, NEW s \in Seq(T), NEW X
    PROVE  KeptType(s, X, T)
<1>1. In(s, X) \in SUBSET (1..Len(s)) /\ \A i \in In(s, X) : s[i] \in X
  BY DEF In
<1> DEFINE S == In(s, X)
           p == Pick(s, S)
<1> HIDE DEF S
<1>2. p \in Seq(T) /\ \A k \in 1..Len(p) : \E i \in S : p[k] = s[i]
  BY <1>1, PickType, Zenon DEF S
<1>3. \A k \in 1..Len(p) : p[k] \in X
  BY <1>1, <1>2, Zenon DEF S
<1> QED BY <1>2, <1>3, Zenon DEF KeptType, Keep, S

\* What is kept of what was kept.
KeptOfKept(s, X, Y) == Keep(Keep(s, X), Y) = Keep(s, X \cap Y)

LEMMA KeepKept ==
    ASSUME NEW T, NEW s \in Seq(T), NEW X, NEW Y
    PROVE  KeptOfKept(s, X, Y)
<1> DEFINE S == In(s, X)
<1>1. S \in SUBSET (1..Len(s)) /\ S \cap In(s, Y) = In(s, X \cap Y)
  BY DEF In
<1> HIDE DEF S
<1>2. KeptOfPicked(s, S, Y)
  BY <1>1, KeepPicked, Zenon
<1>3. Keep(Pick(s, S), Y) = Pick(s, In(s, X \cap Y))
  BY <1>1, <1>2, Zenon DEF KeptOfPicked
<1> QED BY <1>3, Zenon DEF Keep, S, KeptOfKept

\* All of it, or nothing.
LEMMA KeepAll ==
    ASSUME NEW T, NEW s \in Seq(T), NEW X, \A i \in 1..Len(s) : s[i] \in X
    PROVE  Keep(s, X) = s
<1>1. In(s, X) = 1..Len(s)
  BY DEF In
<1>2. Pick(s, 1..Len(s)) = s
  BY PickAll, Zenon
<1> QED BY <1>1, <1>2, Zenon DEF Keep

LEMMA KeepNone ==
    ASSUME NEW T, NEW s \in Seq(T), NEW X, \A i \in 1..Len(s) : s[i] \notin X
    PROVE  Keep(s, X) = <<>>
<1>1. In(s, X) = {}
  BY DEF In
<1>2. Pick(s, {}) = <<>>
  BY PickAll, Zenon
<1> QED BY <1>1, <1>2, Zenon DEF Keep

\* The same is kept of what is alike.
LEMMA KeepSame ==
    ASSUME NEW s, NEW X, NEW Y, \A i \in 1..Len(s) : s[i] \in X <=> s[i] \in Y
    PROVE  Keep(s, X) = Keep(s, Y)
<1>1. In(s, X) = In(s, Y)
  BY DEF In
<1> QED BY <1>1, Zenon DEF Keep

\* The members at the same places, all of them in S, are kept of both lists.
AtSamePlaces(p, s, q, t, S) ==
    \E m \in Nat : \E e : /\ \A k \in 1..m : e[k] \in S
                          /\ p = Along(s, e, m) /\ q = Along(t, e, m)

LEMMA KeepAlike ==
    ASSUME NEW s, NEW t, NEW X, NEW Y, Len(s) \in Nat, Len(t) = Len(s),
           \A i \in 1..Len(s) : s[i] \in X <=> t[i] \in Y
    PROVE  AtSamePlaces(Keep(s, X), s, Keep(t, Y), t, In(s, X))
<1> DEFINE S == In(s, X)
           R == In(t, Y)
<1>1. S = R /\ S \in SUBSET (1..Len(s)) /\ S \in SUBSET Nat /\ Len(s) \in Nat
  BY DEF In
<1> HIDE DEF S, R
<1>2. PICK m \in Nat : \E e : Ordered(e, m, S)
  BY <1>1, OrderedExists, Zenon
<1>3. PICK e : Ordered(e, m, S)
  BY <1>2
<1>4. \A k \in 1..m : e[k] \in S
  BY <1>3 DEF Ordered
<1>5. Pick(s, S) = Along(s, e, m)
  BY <1>1, <1>3, PickIs, Zenon
<1>6. Pick(t, S) = Along(t, e, m)
  BY <1>1, <1>3, PickIs, Zenon
<1>7. Keep(s, X) = Along(s, e, m) /\ Keep(t, Y) = Along(t, e, m)
  BY <1>1, <1>5, <1>6, Zenon DEF Keep, S, R
<1> QED BY <1>4, <1>7, Zenon DEF AtSamePlaces, S

\* The second parts of pairs.
Seconds(s) == [i \in 1..Len(s) |-> s[i][2]]

\* v is a list of the second parts of s.
SecondsOf(v, s, B) ==
    /\ v \in Seq(B) /\ Len(v) = Len(s)
    /\ \A i \in 1..Len(s) : v[i] = s[i][2]

\* They are a list.
LEMMA SecondsType ==
    ASSUME NEW A, NEW B, NEW s \in Seq(A \X B)
    PROVE  SecondsOf(Seconds(s), s, B)
<1> DEFINE r == Seconds(s)
           h(i) == s[i][2]
           n == Len(s)
<1>1. n \in Nat /\ \A i \in 1..n : h(i) \in B
  <2>1. \A i \in 1..Len(s) : s[i] \in A \X B
    OBVIOUS
  <2>2. \A p \in A \X B : p[2] \in B
    OBVIOUS
  <2> QED BY <2>1, <2>2
<1>2. r = [i \in 1..n |-> h(i)]
  BY DEF Seconds
<1> HIDE DEF r, h, n
<1>3. r \in [1..n -> B] /\ \A i \in 1..n : r[i] = h(i)
  BY <1>1, <1>2
<1>4. r \in Seq(B) /\ Len(r) = n
  BY <1>1, <1>3, FunctionIsSeq, Zenon
<1>5. \A i \in 1..Len(s) : r[i] = s[i][2]
  BY <1>3, Zenon DEF h, n
<1> QED BY <1>4, <1>5, Zenon DEF r, n, SecondsOf

\* Those of two lists are those of the first before those of the second.
SecondsOfBoth(s, t) == Seconds(s \o t) = Seconds(s) \o Seconds(t)

LEMMA SecondsBoth ==
    ASSUME NEW A, NEW B, NEW s \in Seq(A \X B), NEW t \in Seq(A \X B)
    PROVE  SecondsOfBoth(s, t)
<1> DEFINE u == s \o t
           a == Seconds(s)
           b == Seconds(t)
           c == Seconds(u)
           d == a \o b
           P == A \X B
<1>1. u \in Seq(P) /\ Joint(u, s, t)
  <2>1. s \in Seq(P) /\ t \in Seq(P)
    OBVIOUS
  <2> HIDE DEF P
  <2> QED BY <2>1, JointIs, Zenon
<1>2. Len(s) \in Nat /\ Len(t) \in Nat
  OBVIOUS
<1>3. SecondsOf(a, s, B) /\ SecondsOf(b, t, B)
  BY SecondsType, Zenon
<1>4. SecondsOf(c, u, B)
  <2>1. u \in Seq(A \X B)
    BY <1>1
  <2> HIDE DEF u
  <2> QED BY <2>1, SecondsType, Zenon
<1> HIDE DEF a, b, c, u, P
<1>5. a \in Seq(B) /\ b \in Seq(B) /\ Len(a) = Len(s) /\ Len(b) = Len(t)
  BY <1>3, Zenon DEF SecondsOf
<1>6. d \in Seq(B) /\ Joint(d, a, b)
  BY <1>5, JointIs, Zenon
<1> HIDE DEF d
<1>7. Len(c) = Len(s) + Len(t) /\ Len(d) = Len(s) + Len(t) /\ c \in Seq(B)
  BY <1>1, <1>4, <1>5, <1>6, Zenon DEF Joint, SecondsOf
<1>8. ASSUME NEW i \in 1..(Len(s) + Len(t)) PROVE c[i] = d[i]
  <2>1. c[i] = u[i][2] /\ u[i] = (IF i <= Len(s) THEN s[i] ELSE t[i - Len(s)])
    BY <1>1, <1>4, Zenon DEF Joint, SecondsOf
  <2>2. d[i] = IF i <= Len(s) THEN a[i] ELSE b[i - Len(s)]
    BY <1>5, <1>6, Zenon DEF Joint
  <2>3. CASE i <= Len(s)
    <3>1. i \in 1..Len(s)
      BY <1>2, <2>3
    <3>2. a[i] = s[i][2]
      BY <1>3, <3>1, Zenon DEF SecondsOf
    <3> QED BY <2>1, <2>2, <2>3, <3>2, Zenon
  <2>4. CASE ~(i <= Len(s))
    <3> DEFINE j == i - Len(s)
    <3>1. j \in 1..Len(t)
      BY <1>2, <2>4
    <3>2. u[i] = t[j] /\ d[i] = b[j]
      BY <2>1, <2>2, <2>4, Zenon
    <3> HIDE DEF j
    <3>3. b[j] = t[j][2]
      BY <1>3, <3>1, Zenon DEF SecondsOf
    <3> QED BY <2>1, <3>2, <3>3, Zenon
  <2> QED BY <2>3, <2>4, Zenon
<1>9. c = d
  <2>1. \A i \in 1..Len(c) : c[i] = d[i]
    BY <1>7, <1>8
  <2>2. d \in Seq(B) /\ Len(c) = Len(d)
    BY <1>6, <1>7, Zenon
  <2> QED BY <1>7, <2>1, <2>2, SeqEqual, Zenon
<1> QED BY <1>9, Zenon DEF a, b, c, d, u, SecondsOfBoth

\* The second parts of what is kept at some places.
IsSecondsAlong(v, s, e, m) == v = [k \in 1..m |-> s[e[k]][2]]

LEMMA SecondsAlong ==
    ASSUME NEW m \in Nat, NEW s, NEW e
    PROVE  IsSecondsAlong(Seconds(Along(s, e, m)), s, e, m)
<1> DEFINE p == Along(s, e, m)
           h(k) == s[e[k]]
<1>1. p = [k \in 1..m |-> h(k)]
  BY Zenon DEF Along
<1> HIDE DEF p, h
<1>2. Len(p) = m /\ \A k \in 1..m : p[k] = h(k)
  BY <1>1
<1>3. Seconds(p) = [k \in 1..m |-> p[k][2]]
  BY <1>2, Zenon DEF Seconds
<1>4. [k \in 1..m |-> p[k][2]] = [k \in 1..m |-> h(k)[2]]
  BY <1>2, Zenon
<1> QED BY <1>3, <1>4, Zenon DEF p, h, IsSecondsAlong

\* Lists whose second parts are the same.
SameSeconds(p, q) == Seconds(p) = Seconds(q)

LEMMA SecondsAlike ==
    ASSUME NEW p, NEW s, NEW q, NEW t, NEW S, AtSamePlaces(p, s, q, t, S),
           \A i \in S : s[i][2] = t[i][2]
    PROVE  SameSeconds(p, q)
<1>1. PICK m \in Nat : \E e : /\ \A k \in 1..m : e[k] \in S
                              /\ p = Along(s, e, m) /\ q = Along(t, e, m)
  BY Zenon DEF AtSamePlaces
<1>2. PICK e : (\A k \in 1..m : e[k] \in S) /\ p = Along(s, e, m) /\ q = Along(t, e, m)
  BY <1>1, Zenon
<1>3. Seconds(p) = [k \in 1..m |-> s[e[k]][2]]
  <2>1. IsSecondsAlong(Seconds(Along(s, e, m)), s, e, m)
    BY SecondsAlong, Zenon
  <2> QED BY <1>2, <2>1, Zenon DEF IsSecondsAlong
<1>4. Seconds(q) = [k \in 1..m |-> t[e[k]][2]]
  <2>1. IsSecondsAlong(Seconds(Along(t, e, m)), t, e, m)
    BY SecondsAlong, Zenon
  <2> QED BY <1>2, <2>1, Zenon DEF IsSecondsAlong
<1>5. \A k \in 1..m : s[e[k]][2] = t[e[k]][2]
  BY <1>2, Zenon
<1> QED BY <1>3, <1>4, <1>5, Zenon DEF SameSeconds

\* And lists where f has been put to them.
SecondsPut(q, p, f) == Seconds(q) = [i \in DOMAIN Seconds(p) |-> f[Seconds(p)[i]]]

LEMMA SecondsChanged ==
    ASSUME NEW p, NEW s, NEW q, NEW t, NEW S, AtSamePlaces(p, s, q, t, S), NEW f,
           \A i \in S : t[i][2] = f[s[i][2]]
    PROVE  SecondsPut(q, p, f)
<1>1. PICK m \in Nat : \E e : /\ \A k \in 1..m : e[k] \in S
                              /\ p = Along(s, e, m) /\ q = Along(t, e, m)
  BY Zenon DEF AtSamePlaces
<1>2. PICK e : (\A k \in 1..m : e[k] \in S) /\ p = Along(s, e, m) /\ q = Along(t, e, m)
  BY <1>1, Zenon
<1> DEFINE v == Seconds(p)
           w == Seconds(q)
<1>3. v = [k \in 1..m |-> s[e[k]][2]]
  <2>1. IsSecondsAlong(Seconds(Along(s, e, m)), s, e, m)
    BY SecondsAlong, Zenon
  <2> QED BY <1>2, <2>1, Zenon DEF IsSecondsAlong
<1>4. w = [k \in 1..m |-> t[e[k]][2]]
  <2>1. IsSecondsAlong(Seconds(Along(t, e, m)), t, e, m)
    BY SecondsAlong, Zenon
  <2> QED BY <1>2, <2>1, Zenon DEF IsSecondsAlong
<1>5. \A k \in 1..m : t[e[k]][2] = f[s[e[k]][2]]
  BY <1>2, Zenon
<1> HIDE DEF v, w
<1>6. DOMAIN v = 1..m /\ \A k \in 1..m : v[k] = s[e[k]][2]
  BY <1>3, Zenon
<1>7. w = [k \in 1..m |-> f[v[k]]]
  BY <1>4, <1>5, <1>6, Zenon
<1> QED BY <1>6, <1>7, Zenon DEF SecondsPut, v, w

-----------------------------------------------------------------------------
\* The places of the headers of a name.
Hits(s, n) == {i \in 1..Len(s) : Lower(s[i][1]) = Lower(n)}

\* p is made of what stands in s at the places in S.
Taken(p, s, S) ==
    /\ \A k \in 1..Len(p) : \E i \in S : p[k] = s[i]
    /\ \A i \in S : \E k \in 1..Len(p) : p[k] = s[i]

\* What getHeaders finds.
LEMMA HeadersGot ==
    ASSUME NEW T, NEW s \in Seq(T), NEW n
    PROVE  /\ GetHeaders(s, n) = Pick(s, Hits(s, n))
           /\ GetHeaders(s, n) \in Seq(T)
           /\ Taken(GetHeaders(s, n), s, Hits(s, n))
<1>1. DOMAIN s = 1..Len(s)
  OBVIOUS
<1> DEFINE S == Hits(s, n)
<1>2. GetHeaders(s, n) = Pick(s, S)
  BY <1>1, Zenon DEF GetHeaders, Hits
<1>3. S \in SUBSET (1..Len(s))
  BY DEF Hits
<1> HIDE DEF S
<1>4. Pick(s, S) \in Seq(T) /\ Taken(Pick(s, S), s, S)
  BY <1>3, PickType, Zenon DEF Taken
<1> QED BY <1>2, <1>4 DEF S

\* All the headers, or none.
LEMMA GetAll ==
    ASSUME NEW T, NEW s \in Seq(T), NEW n, \A i \in 1..Len(s) : Lower(s[i][1]) = Lower(n)
    PROVE  GetHeaders(s, n) = s
<1>1. Hits(s, n) = 1..Len(s)
  BY DEF Hits
<1>2. GetHeaders(s, n) = Pick(s, Hits(s, n))
  BY HeadersGot, Zenon
<1>3. Pick(s, 1..Len(s)) = s /\ Pick(s, {}) = <<>>
  BY PickAll, Zenon
<1> QED BY <1>1, <1>2, <1>3, Zenon

\* Nothing is found where no name is the same.
LEMMA GetNone ==
    ASSUME NEW T, NEW s \in Seq(T), NEW n, \A i \in 1..Len(s) : Lower(s[i][1]) # Lower(n)
    PROVE  GetHeaders(s, n) = <<>>
<1>1. Hits(s, n) = {}
  BY DEF Hits
<1>2. GetHeaders(s, n) = Pick(s, Hits(s, n))
  BY HeadersGot, Zenon
<1>3. Pick(s, 1..Len(s)) = s /\ Pick(s, {}) = <<>>
  BY PickAll, Zenon
<1> QED BY <1>1, <1>2, <1>3, Zenon

\* The members of T that have the name, whatever its spelling.
Alike(T, n) == {h \in T : Lower(h[1]) = Lower(n)}

\* getHeaders keeps those.
GetsKept(s, n, T) == GetHeaders(s, n) = Keep(s, Alike(T, n)) /\ In(s, Alike(T, n)) = Hits(s, n)

LEMMA GotAreKept ==
    ASSUME NEW T, NEW s \in Seq(T), NEW n
    PROVE  GetsKept(s, n, T)
<1>1. \A i \in 1..Len(s) : s[i] \in T
  OBVIOUS
<1>2. In(s, Alike(T, n)) = Hits(s, n)
  BY <1>1 DEF In, Alike, Hits
<1>3. GetHeaders(s, n) = Pick(s, Hits(s, n))
  BY HeadersGot, Zenon
<1> QED BY <1>2, <1>3, Zenon DEF GetsKept, Keep

\* The headers of two lists, one behind the other.
GotOfBoth(s, t, n) == GetHeaders(s \o t, n) = GetHeaders(s, n) \o GetHeaders(t, n)

\* The headers of the first come before those of the second.
LEMMA GetJoined ==
    ASSUME NEW T, NEW s \in Seq(T), NEW t \in Seq(T), NEW n
    PROVE  GotOfBoth(s, t, n)
<1> DEFINE u == s \o t
           X == Alike(T, n)
<1>1. u \in Seq(T)
  BY JointIs, Zenon
<1> HIDE DEF u
<1>2. GetsKept(s, n, T) /\ GetsKept(t, n, T) /\ GetsKept(u, n, T)
  BY <1>1, GotAreKept, Zenon
<1> HIDE DEF X
<1>3. KeptOfBoth(s, t, X)
  BY KeepBoth, Zenon
<1>4. Keep(u, X) = Keep(s, X) \o Keep(t, X)
  BY <1>3, Zenon DEF KeptOfBoth, u
<1> QED BY <1>2, <1>4, Zenon DEF GetsKept, GotOfBoth, X, u

\* If but one of some lists has headers of a name, all of them together have those.
LEMMA GetFlat ==
    ASSUME NEW T, NEW seqs \in Seq(Seq(T)), NEW n, NEW g \in 1..Len(seqs),
           \A h \in 1..Len(seqs) : h # g => GetHeaders(seqs[h], n) = <<>>
    PROVE  GetHeaders(FlattenSeq(seqs), n) = GetHeaders(seqs[g], n)
<1> DEFINE N == Len(seqs)
           G == GetHeaders(seqs[g], n)
<1>1. N \in Nat \ {0} /\ N \in Nat /\ N > 0 /\ g \in Nat /\ \A i \in 1..N : seqs[i] \in Seq(T)
  OBVIOUS
<1>2. PICK f : Joins(f, seqs, N) /\ FlattenSeq(seqs) = f[N]
  BY <1>1, FlattenIs, Zenon
<1>3. f[1] = seqs[1] /\ \A i, k \in 1..N : k = i + 1 => f[k] = f[i] \o seqs[k]
  <2>1. N \in Nat /\ N > 0
    BY <1>1
  <2> HIDE DEF N
  <2>2. JoinsOn(f, seqs, N)
    BY <1>2, <2>1, JoinsStep, Zenon
  <2> QED BY <2>1, <2>2, Zenon DEF JoinsOn
<1>4. G \in Seq(T)
  BY <1>1, HeadersGot, Zenon
<1> DEFINE S == {i \in Nat : i \in 1..N => f[i] \in Seq(T) /\ GetHeaders(f[i], n) = IF i < g THEN <<>> ELSE G}
<1>5. ASSUME NEW i \in S PROVE i + 1 \in S
  <2> DEFINE k == i + 1
  <2>0. i \in Nat /\ k \in Nat
    OBVIOUS
  <2>1. CASE k \in 1..N /\ i = 0
    <3>1. k = 1 /\ seqs[1] \in Seq(T) /\ 1 \in 1..N
      BY <1>1, <2>1
    <3>2. f[k] = seqs[1]
      BY <1>3, <3>1
    <3>3. GetHeaders(f[k], n) = IF k < g THEN <<>> ELSE G
      <4>1. CASE g = 1
        BY <3>1, <3>2, <4>1
      <4>2. CASE g # 1
        <5>1. k < g /\ GetHeaders(seqs[1], n) = <<>>
          BY <1>1, <3>1, <4>2
        <5> QED BY <3>2, <5>1
      <4> QED BY <4>1, <4>2
    <3> HIDE DEF G
    <3> QED BY <2>0, <3>1, <3>2, <3>3
  <2>2. CASE k \in 1..N /\ i # 0
    <3>1. i \in 1..N
      BY <2>0, <2>2
    <3>2. f[i] \in Seq(T) /\ GetHeaders(f[i], n) = IF i < g THEN <<>> ELSE G
      BY <3>1
    <3>3. f[k] = f[i] \o seqs[k] /\ seqs[k] \in Seq(T)
      BY <1>1, <1>3, <2>2, <3>1
    <3> HIDE DEF k, G
    <3>4. GetHeaders(f[k], n) = GetHeaders(f[i], n) \o GetHeaders(seqs[k], n)
      <4> DEFINE x == f[i]
                 y == seqs[k]
      <4>1. x \in Seq(T) /\ y \in Seq(T) /\ f[k] = x \o y
        BY <3>2, <3>3
      <4> HIDE DEF x, y
      <4>2. GotOfBoth(x, y, n)
        BY <4>1, GetJoined, Zenon
      <4> QED BY <4>1, <4>2 DEF x, y, GotOfBoth
    <3>5. f[k] \in Seq(T)
      BY <3>2, <3>3, ConcatProperties, Zenon
    <3>6. GetHeaders(f[k], n) = IF k < g THEN <<>> ELSE G
      <4>1. CASE k = g
        <5>1. i < g /\ ~(k < g)
          BY <1>1, <2>0, <4>1 DEF k
        <5>2. GetHeaders(f[k], n) = <<>> \o G
          BY <3>2, <3>4, <4>1, <5>1 DEF G
        <5> QED BY <1>4, <5>1, <5>2
      <4>2. CASE k # g
        <5>1. GetHeaders(seqs[k], n) = <<>>
          BY <2>2, <4>2
        <5>2. i < g <=> k < g
          BY <1>1, <2>0, <4>2 DEF k
        <5>3. GetHeaders(f[k], n) = GetHeaders(f[i], n) \o <<>>
          BY <3>4, <5>1
        <5>4. GetHeaders(f[i], n) \in Seq(T)
          BY <3>2, HeadersGot, Zenon
        <5>5. GetHeaders(f[k], n) = GetHeaders(f[i], n)
          BY <5>3, <5>4
        <5> QED BY <3>2, <5>2, <5>5
      <4> QED BY <4>1, <4>2
    <3> QED BY <2>0, <3>5, <3>6 DEF k
  <2>3. CASE k \notin 1..N
    BY <2>0, <2>3
  <2> QED BY <2>1, <2>2, <2>3
<1>6. \A i \in Nat : i \in S
  <2>1. S \in SUBSET Nat /\ 0 \in S
    OBVIOUS
  <2> HIDE DEF S
  <2> QED BY <1>5, <2>1, Induct
<1>7. N \in 1..N /\ ~(N < g)
  BY <1>1
<1> HIDE DEF G
<1> QED BY <1>1, <1>2, <1>6, <1>7 DEF G

\* getHeaderValue gives v.
ReadAs(s, n, v) == GetHeaderValues(s, n) # <<>> /\ GetHeaderValues(s, n)[1] = v

\* A value is read if some header of the name has it and none has another.
LEMMA Arrives ==
    ASSUME NEW T, NEW s \in Seq(T), NEW n, NEW v,
           \E i \in 1..Len(s) : Lower(s[i][1]) = Lower(n),
           \A i \in 1..Len(s) : Lower(s[i][1]) = Lower(n) => s[i][2] = v
    PROVE  ReadAs(s, n, v)
<1> DEFINE G == GetHeaders(s, n)
<1>1. /\ G \in Seq(T)
      /\ \A k \in 1..Len(G) : \E i \in Hits(s, n) : G[k] = s[i]
      /\ \A i \in Hits(s, n) : \E k \in 1..Len(G) : G[k] = s[i]
  <2>1. G \in Seq(T) /\ Taken(G, s, Hits(s, n))
    BY HeadersGot, Zenon
  <2> HIDE DEF G
  <2> QED BY <2>1 DEF Taken
<1>2. PICK i \in Hits(s, n) : TRUE
  BY DEF Hits
<1>3. \E k \in 1..Len(G) : TRUE
  BY <1>1, <1>2
<1> HIDE DEF G
<1>4. Len(G) \in Nat /\ 1 \in 1..Len(G) /\ DOMAIN G = 1..Len(G)
  BY <1>1, <1>3
<1>5. G[1][2] = v
  <2>1. PICK j \in Hits(s, n) : G[1] = s[j]
    BY <1>1, <1>4
  <2>2. s[j][2] = v
    BY DEF Hits
  <2> QED BY <2>1, <2>2
<1>6. GetHeaderValues(s, n) = [k \in 1..Len(G) |-> G[k][2]]
  BY <1>4 DEF GetHeaderValues, G
<1>7. GetHeaderValues(s, n)[1] = v /\ DOMAIN GetHeaderValues(s, n) # {}
  BY <1>4, <1>5, <1>6
<1> QED BY <1>7 DEF ReadAs

\* Headers taken from a list have no values but of that list.
LEMMA NothingNew ==
    ASSUME NEW T, NEW s \in Seq(T), NEW U, NEW t \in Seq(U), NEW n,
           \A i \in 1..Len(s) : \E j \in 1..Len(t) : s[i] = t[j]
    PROVE  ToSet(GetHeaderValues(s, n)) \subseteq ToSet(GetHeaderValues(t, n))
<1> DEFINE G == GetHeaders(s, n)
           F == GetHeaders(t, n)
<1>1. G \in Seq(T) /\ Taken(G, s, Hits(s, n))
  BY HeadersGot, Zenon
<1>2. F \in Seq(U) /\ Taken(F, t, Hits(t, n))
  BY HeadersGot, Zenon
<1>3. GetHeaderValues(s, n) = [k \in DOMAIN G |-> G[k][2]] /\ GetHeaderValues(t, n) = [k \in DOMAIN F |-> F[k][2]]
  BY Zenon DEF GetHeaderValues
<1> HIDE DEF G, F
<1>4. DOMAIN G = 1..Len(G) /\ DOMAIN F = 1..Len(F)
  BY <1>1, <1>2
<1>5. ASSUME NEW k \in 1..Len(G) PROVE \E l \in 1..Len(F) : G[k] = F[l]
  <2>1. PICK i \in Hits(s, n) : G[k] = s[i]
    BY <1>1 DEF Taken
  <2>2. i \in 1..Len(s) /\ Lower(s[i][1]) = Lower(n)
    BY DEF Hits
  <2>3. PICK j \in 1..Len(t) : s[i] = t[j]
    BY <2>2
  <2>4. j \in Hits(t, n)
    BY <2>2, <2>3 DEF Hits
  <2>5. PICK l \in 1..Len(F) : F[l] = t[j]
    BY <1>2, <2>4 DEF Taken
  <2> QED BY <2>1, <2>3, <2>5
<1>6. \A k \in DOMAIN G : \E l \in DOMAIN F : G[k][2] = F[l][2]
  BY <1>4, <1>5
<1> DEFINE v == [k \in DOMAIN G |-> G[k][2]]
           w == [k \in DOMAIN F |-> F[k][2]]
<1>7. \A k \in DOMAIN v : \E l \in DOMAIN w : v[k] = w[l]
  BY <1>6
<1> HIDE DEF v, w
<1>8. ToSet(v) \subseteq ToSet(w)
  BY <1>7 DEF ToSet
<1> QED BY <1>3, <1>8 DEF v, w

-----------------------------------------------------------------------------
\* gs has for each key one group: the headers of hs with that key.  c has the keys.
Grouped(gs, c, hs, key) ==
    /\ \A g \in 1..Len(gs) :
          /\ gs[g] = Pick(hs, {i \in 1..Len(hs) : key[hs[i][1]] = c[g]})
          /\ \E i \in 1..Len(hs) : key[hs[i][1]] = c[g]
    /\ \A g, h \in 1..Len(gs) : c[g] = c[h] => g = h
    /\ \A i \in 1..Len(hs) : \E g \in 1..Len(gs) : key[hs[i][1]] = c[g]

\* Groups makes one group for each key that comes up.
LEMMA GroupsAre ==
    ASSUME NEW T, NEW hs \in Seq(T), NEW key
    PROVE  /\ Groups(hs, key) \in Seq(Seq(T))
           /\ \E c : Grouped(Groups(hs, key), c, hs, key)
<1> DEFINE m == Len(hs)
           K(i) == key[hs[i][1]]
           F == {i \in 1..m : \A j \in 1..(i - 1) : K(j) # K(i)}
           ids == [i \in 1..m |-> i]
           firsts == Pick(ids, F)
           gs == Groups(hs, key)
<1>0. m \in Nat /\ DOMAIN hs = 1..m /\ F \in SUBSET (1..m) /\ F \in SUBSET Nat
  OBVIOUS
<1>1. PICK n \in Nat : \E f : Ordered(f, n, F)
  <2> HIDE DEF F
  <2> QED BY <1>0, OrderedExists, Zenon
<1>2. PICK f : Ordered(f, n, F)
  BY <1>1
<1>3. \A g \in 1..n : f[g] \in F
  <2> HIDE DEF F
  <2> QED BY <1>2 DEF Ordered
<1>4. firsts = [g \in 1..n |-> f[g]]
  <2>1. firsts = Along(ids, f, n)
    <3> HIDE DEF F, ids
    <3> QED BY <1>0, <1>2, PickIs, Zenon
  <2>2. \A g \in 1..n : ids[f[g]] = f[g]
    <3> TAKE g \in 1..n
    <3> DEFINE x == f[g]
    <3>1. x \in 1..m
      BY <1>3
    <3> HIDE DEF x
    <3>2. ids[x] = x
      BY <3>1
    <3> QED BY <3>2 DEF x
  <2> HIDE DEF ids, F
  <2> QED BY <2>1, <2>2, Zenon DEF Along
<1> DEFINE c == [g \in 1..n |-> K(f[g])]
           P(x) == {i \in 1..m : K(i) = x}
<1>5. gs = [g \in 1..n |-> Pick(hs, P(c[g]))]
  <2>1. gs = [g \in DOMAIN firsts |-> Pick(hs, {i \in 1..m : K(i) = K(firsts[g])})]
    BY <1>0, Zenon DEF Groups
  <2>2. DOMAIN firsts = 1..n /\ \A g \in 1..n : firsts[g] = f[g]
    <3> HIDE DEF firsts
    <3> QED BY <1>4
  <2>3. gs = [g \in 1..n |-> Pick(hs, {i \in 1..m : K(i) = K(f[g])})]
    <3> HIDE DEF firsts, gs
    <3> QED BY <2>1, <2>2, Zenon
  <2>4. \A g \in 1..n : c[g] = K(f[g])
    OBVIOUS
  <2> HIDE DEF gs, c
  <2> QED BY <2>3, <2>4, Zenon
<1>6. \A g \in 1..n : Pick(hs, P(c[g])) \in Seq(T)
  <2> TAKE g \in 1..n
  <2> DEFINE S == P(c[g])
  <2>1. S \in SUBSET (1..m)
    OBVIOUS
  <2> HIDE DEF S
  <2> QED BY <2>1, PickType, Zenon DEF S
<1>7. gs \in Seq(Seq(T)) /\ Len(gs) = n
  <2>1. gs \in [1..n -> Seq(T)]
    <3> DEFINE q == [g \in 1..n |-> Pick(hs, P(c[g]))]
    <3>1. gs = q
      BY <1>5
    <3> HIDE DEF gs, P, c
    <3>2. q \in [1..n -> Seq(T)]
      BY <1>6
    <3> HIDE DEF q
    <3> QED BY <3>1, <3>2
  <2> HIDE DEF gs
  <2> QED BY <2>1, FunctionIsSeq
<1>8. \A g \in 1..n : c[g] = K(f[g]) /\ f[g] \in 1..m /\ \A j \in 1..(f[g] - 1) : K(j) # K(f[g])
  <2> TAKE g \in 1..n
  <2>1. c[g] = K(f[g])
    OBVIOUS
  <2>2. \A x \in F : x \in 1..m /\ \A j \in 1..(x - 1) : K(j) # K(x)
    OBVIOUS
  <2> HIDE DEF F, K, c
  <2> QED BY <1>3, <2>1, <2>2, Zenon
<1>9. \A g, h \in 1..n : c[g] = c[h] => g = h
  <2> SUFFICES ASSUME NEW g \in 1..n, NEW h \in 1..n, g < h, c[g] = c[h] PROVE FALSE
    <3>1. \A a \in 1..n, b \in 1..n : a < b \/ b < a \/ a = b
      OBVIOUS
    <3> HIDE DEF c
    <3> QED BY <3>1, Zenon
  <2>1. f[g] < f[h] /\ f[g] \in 1..m /\ f[h] \in 1..m
    <3>1. f[g] < f[h]
      <4> HIDE DEF F, c
      <4> QED BY <1>2 DEF Ordered
    <3> QED BY <1>8, <3>1, Zenon
  <2>2. f[g] \in 1..(f[h] - 1)
    <3> HIDE DEF c
    <3> QED BY <1>0, <2>1
  <2>3. K(f[g]) # K(f[h])
    <3> HIDE DEF c, K
    <3> QED BY <1>8, <2>2, Zenon
  <2>4. K(f[g]) = K(f[h])
    <3> HIDE DEF c, K
    <3>1. c[g] = c[h]
      BY Zenon
    <3> QED BY <1>8, <3>1, Zenon
  <2> QED BY <2>3, <2>4
<1>10. \A i \in 1..m : \E g \in 1..n : K(i) = c[g]
  <2> TAKE i \in 1..m
  <2> DEFINE E == {j \in 1..m : K(j) = K(i)}
  <2>1. E \in SUBSET Nat /\ E # {}
    BY <1>0
  <2>2. PICK j \in E : \A k \in E : j <= k
    <3> HIDE DEF E
    <3> QED BY <2>1, Smallest
  <2>3. j \in 1..m /\ K(j) = K(i) /\ \A k \in 1..m : K(k) = K(i) => j <= k
    BY <2>2
  <2>4. j \in F
    <3> SUFFICES ASSUME NEW k \in 1..(j - 1), K(k) = K(j) PROVE FALSE
      BY <2>3
    <3>1. k \in 1..m /\ ~(j <= k)
      BY <1>0, <2>3
    <3> HIDE DEF K
    <3> QED BY <2>3, <3>1
  <2>5. PICK g \in 1..n : f[g] = j
    <3> HIDE DEF F
    <3> QED BY <1>2, <2>4 DEF Ordered
  <2>6. K(i) = c[g]
    <3> HIDE DEF c, K
    <3> QED BY <1>8, <2>3, <2>5, Zenon
  <2> QED BY <2>6
<1>11. \A g \in 1..n : gs[g] = Pick(hs, P(c[g])) /\ \E i \in 1..m : K(i) = c[g]
  <2> TAKE g \in 1..n
  <2>1. gs[g] = Pick(hs, P(c[g]))
    <3> HIDE DEF gs, P, c
    <3> QED BY <1>5
  <2>2. \E i \in 1..m : K(i) = c[g]
    <3> HIDE DEF c, K
    <3> QED BY <1>8, Zenon
  <2> QED BY <2>1, <2>2
<1>12. Grouped(gs, c, hs, key)
  <2> HIDE DEF gs, c
  <2> QED BY <1>7, <1>9, <1>10, <1>11, Zenon DEF Grouped
<1> HIDE DEF gs, c
<1> QED BY <1>7, <1>12, Zenon DEF gs

\* Header n is no other than that at i.
Only(s, n, i) ==
    /\ i \in 1..Len(s) /\ Lower(s[i][1]) = Lower(n)
    /\ \A j \in 1..Len(s) : Lower(s[j][1]) = Lower(n) => j = i

\* One header is got if it is the only one of the name.
LEMMA GetOnly ==
    ASSUME NEW T, NEW s \in Seq(T), NEW n, NEW i, Only(s, n, i)
    PROVE  GetHeaders(s, n) = <<s[i]>>
<1> DEFINE S == Hits(s, n)
           e == [k \in 1..1 |-> i]
<1>0. 1 \in Nat /\ S \in SUBSET Nat
  BY DEF Hits
<1>1. i \in S /\ \A x \in S : x = i
  BY DEF Hits, Only
<1>2. Ordered(e, 1, S)
  <2>1. e \in [1..1 -> S] /\ 1 \in 1..1 /\ e[1] = i
    <3> HIDE DEF S
    <3> QED BY <1>1
  <2>2. \A k, l \in 1..1 : ~(k < l)
    OBVIOUS
  <2> HIDE DEF e, S
  <2> QED BY <1>1, <2>1, <2>2, Zenon DEF Ordered
<1>3. Pick(s, S) = Along(s, e, 1)
  <2> HIDE DEF e, S
  <2> QED BY <1>0, <1>2, PickIs, Zenon
<1>4. Along(s, e, 1) = [k \in 1..1 |-> s[i]]
  BY DEF Along
<1>5. [k \in 1..1 |-> s[i]] = <<s[i]>>
  OBVIOUS
<1>6. GetHeaders(s, n) = Pick(s, S)
  BY HeadersGot, Zenon
<1> HIDE DEF e, S
<1> QED BY <1>3, <1>4, <1>5, <1>6

\* And only then.
LEMMA OnlyGot ==
    ASSUME NEW T, NEW s \in Seq(T), NEW n, Len(GetHeaders(s, n)) = 1
    PROVE  \E i : Only(s, n, i) /\ GetHeaders(s, n)[1] = s[i]
<1> DEFINE S == Hits(s, n)
           G == GetHeaders(s, n)
<1>1. S \in SUBSET (1..Len(s)) /\ S \in SUBSET Nat /\ Len(s) \in Nat
  BY DEF Hits
<1>2. PICK m \in Nat : \E e : Ordered(e, m, S)
  <2> HIDE DEF S
  <2> QED BY <1>1, OrderedExists, Zenon
<1>3. PICK e : Ordered(e, m, S)
  BY <1>2
<1>4. G = Along(s, e, m)
  <2>1. G = Pick(s, S)
    BY HeadersGot, Zenon
  <2>2. Pick(s, S) = Along(s, e, m)
    <3> HIDE DEF S
    <3> QED BY <1>1, <1>3, PickIs, Zenon
  <2> QED BY <2>1, <2>2
<1> HIDE DEF G
<1>5. m = 1 /\ G[1] = s[e[1]]
  <2>1. G = [k \in 1..m |-> s[e[k]]]
    BY <1>4 DEF Along
  <2>2. Len(G) = m
    BY <2>1
  <2>3. m = 1
    BY <2>2 DEF G
  <2> QED BY <2>1, <2>3
<1>6. e[1] \in S /\ \A x \in S : x = e[1]
  <2>1. e \in [1..1 -> S] /\ \A x \in S : \E k \in 1..1 : e[k] = x
    <3> HIDE DEF S
    <3> QED BY <1>3, <1>5, Zenon DEF Ordered
  <2>2. 1 \in 1..1 /\ \A k \in 1..1 : k = 1
    OBVIOUS
  <2> HIDE DEF S
  <2> QED BY <2>1, <2>2, Zenon
<1> DEFINE i == e[1]
<1>7. i \in S /\ \A x \in S : x = i
  BY <1>6
<1> HIDE DEF i
<1>8. Only(s, n, i)
  BY <1>7 DEF Only, Hits
<1>9. G[1] = s[i]
  BY <1>5 DEF i
<1> QED BY <1>8, <1>9 DEF G

\* Headers are found among those picked if none of them was left.
LEMMA GetPicked ==
    ASSUME NEW T, NEW s \in Seq(T), NEW S \in SUBSET (1..Len(s)), NEW n, Hits(s, n) \subseteq S
    PROVE  GetHeaders(Pick(s, S), n) = GetHeaders(s, n)
<1> DEFINE p == Pick(s, S)
           X == Alike(T, n)
<1>1. p \in Seq(T)
  BY PickType, Zenon
<1>2. KeptOfPicked(s, S, X)
  <2> HIDE DEF X
  <2> QED BY KeepPicked, Zenon
<1> HIDE DEF p
<1>3. GetsKept(p, n, T)
  BY <1>1, GotAreKept, Zenon
<1>4. GetsKept(s, n, T)
  BY GotAreKept, Zenon
<1>5. In(s, X) = Hits(s, n)
  BY <1>4, Zenon DEF GetsKept
<1>6. S \cap In(s, X) = Hits(s, n)
  <2> HIDE DEF X
  <2> QED BY <1>5
<1>7. GetHeaders(p, n) = Pick(s, Hits(s, n))
  BY <1>2, <1>3, <1>6, Zenon DEF GetsKept, KeptOfPicked, p
<1>8. GetHeaders(s, n) = Pick(s, Hits(s, n))
  BY HeadersGot, Zenon
<1> QED BY <1>7, <1>8, Zenon DEF p

-----------------------------------------------------------------------------
\* What a list is made of.
Made(hs) == {hs[i] : i \in 1..Len(hs)}

\* A list is made of its headers.
LEMMA MadeType == ASSUME NEW T, NEW hs \in Seq(T) PROVE hs \in Seq(Made(hs))
<1>1. DOMAIN hs = 1..Len(hs) /\ Len(hs) \in Nat
  OBVIOUS
<1>2. \A i \in 1..Len(hs) : hs[i] \in Made(hs)
  BY DEF Made
<1>3. hs \in [1..Len(hs) -> Made(hs)]
  BY <1>1, <1>2
<1> QED BY <1>1, <1>3, FunctionIsSeq, Zenon

\* A list made of another has no new values, and the only header of a name is read
\* if it is there.
LEMMA MadeOf ==
    ASSUME NEW hs \in Seq(Header), NEW r \in Seq(Made(hs)), NEW n
    PROVE  /\ ToSet(GetHeaderValues(r, n)) \subseteq ToSet(GetHeaderValues(hs, n))
           /\ \A i : (Only(hs, n, i) /\ \E k \in 1..Len(r) : Lower(r[k][1]) = Lower(n)) =>
                 ReadAs(r, n, hs[i][2])
<1>1. \A k \in 1..Len(r) : \E j \in 1..Len(hs) : r[k] = hs[j]
  BY DEF Made
<1>2. ToSet(GetHeaderValues(r, n)) \subseteq ToSet(GetHeaderValues(hs, n))
  BY <1>1, NothingNew, Zenon
<1>3. ASSUME NEW i, Only(hs, n, i), \E k \in 1..Len(r) : Lower(r[k][1]) = Lower(n)
      PROVE  ReadAs(r, n, hs[i][2])
  <2> DEFINE v == hs[i][2]
  <2>1. \A k \in 1..Len(r) : Lower(r[k][1]) = Lower(n) => r[k][2] = v
    BY <1>1, <1>3, Zenon DEF Only
  <2> HIDE DEF v
  <2>2. ReadAs(r, n, v)
    BY <1>3, <2>1, Arrives, Zenon
  <2> QED BY <2>2 DEF v
<1> QED BY <1>2, <1>3

\* G is made of headers of hs that have the key x.
Belongs(G, hs, key, x) ==
    /\ Len(G) \in Nat \ {0}
    /\ \A k \in 1..Len(G) : key[G[k][1]] = x /\ \E i \in 1..Len(hs) : G[k] = hs[i]

\* Each group is made of headers of its key.
LEMMA GroupHolds ==
    ASSUME NEW T, NEW hs \in Seq(T), NEW key, NEW gs, NEW c, Grouped(gs, c, hs, key),
           NEW g \in 1..Len(gs)
    PROVE  gs[g] \in Seq(T) /\ Belongs(gs[g], hs, key, c[g])
<1> DEFINE S == {i \in 1..Len(hs) : key[hs[i][1]] = c[g]}
           G == gs[g]
<1>1. G = Pick(hs, S) /\ \E i \in 1..Len(hs) : key[hs[i][1]] = c[g]
  BY Zenon DEF Grouped
<1>2. S \in SUBSET (1..Len(hs)) /\ \E i : i \in S
  BY <1>1
<1>3. \A i \in S : i \in 1..Len(hs) /\ key[hs[i][1]] = c[g]
  OBVIOUS
<1> HIDE DEF G, S
<1>4. G \in Seq(T) /\ Taken(G, hs, S)
  BY <1>1, <1>2, PickType, Zenon DEF Taken
<1>5. \E k : k \in 1..Len(G)
  BY <1>2, <1>4, Zenon DEF Taken
<1>6. Len(G) \in Nat \ {0}
  BY <1>4, <1>5
<1>7. ASSUME NEW k \in 1..Len(G) PROVE key[G[k][1]] = c[g] /\ \E i \in 1..Len(hs) : G[k] = hs[i]
  <2>1. PICK i \in S : G[k] = hs[i]
    BY <1>4 DEF Taken
  <2> QED BY <1>3, <2>1
<1> QED BY <1>4, <1>6, <1>7, Zenon DEF G, Belongs

\* Keys that tell no more names apart than the lower case does.
Telling(key) == \A a, b \in Name : key[a] = key[b] => Lower(a) = Lower(b)

\* The transports use two such keys.
LEMMA BothTell ==
    /\ Telling(Spelling) /\ Telling(LowerCase)
    /\ \A a \in Name : Spelling[a] = a /\ LowerCase[a] = Lower(a)
BY DEF Telling, Spelling, LowerCase

\* G is the only one of some lists in which there are headers of the name.
Sole(gs, g, n) ==
    \A h \in 1..Len(gs) : h # g => \A k \in 1..Len(gs[h]) : Lower(gs[h][k][1]) # Lower(n)

HasAll(gs, hs, n) == \E g \in 1..Len(gs) : gs[g] = GetHeaders(hs, n) /\ Sole(gs, g, n)

\* If the headers of a name have one key, one group has them all.
LEMMA OneGroup ==
    ASSUME NEW hs \in Seq(Header), NEW key, Telling(key), NEW gs, NEW c, Grouped(gs, c, hs, key),
           NEW n, NEW x \in Hits(hs, n), \A i \in Hits(hs, n) : key[hs[i][1]] = key[hs[x][1]]
    PROVE  HasAll(gs, hs, n)
<1>0. \A i \in 1..Len(hs) : hs[i][1] \in Name
  BY DEF Header
<1>1. x \in 1..Len(hs) /\ Lower(hs[x][1]) = Lower(n)
  BY DEF Hits
<1>2. PICK g \in 1..Len(gs) : key[hs[x][1]] = c[g]
  BY <1>1, Zenon DEF Grouped
<1>3. Hits(hs, n) = {i \in 1..Len(hs) : key[hs[i][1]] = c[g]}
  <2>1. ASSUME NEW i \in 1..Len(hs), key[hs[i][1]] = c[g] PROVE Lower(hs[i][1]) = Lower(n)
    BY <1>0, <1>1, <1>2, <2>1, Zenon DEF Telling
  <2> QED BY <1>2, <2>1 DEF Hits
<1>4. gs[g] = GetHeaders(hs, n)
  <2>1. GetHeaders(hs, n) = Pick(hs, Hits(hs, n))
    BY HeadersGot, Zenon
  <2>2. gs[g] = Pick(hs, {i \in 1..Len(hs) : key[hs[i][1]] = c[g]})
    BY Zenon DEF Grouped
  <2> QED BY <1>3, <2>1, <2>2
<1>5. ASSUME NEW h \in 1..Len(gs), h # g, NEW k \in 1..Len(gs[h]), Lower(gs[h][k][1]) = Lower(n)
      PROVE  FALSE
  <2>1. key[gs[h][k][1]] = c[h] /\ \E i \in 1..Len(hs) : gs[h][k] = hs[i]
    <3>1. Belongs(gs[h], hs, key, c[h])
      BY GroupHolds, Zenon
    <3> QED BY <3>1, Zenon DEF Belongs
  <2>2. PICK i \in 1..Len(hs) : gs[h][k] = hs[i]
    BY <2>1
  <2>3. i \in Hits(hs, n)
    BY <1>5, <2>2 DEF Hits
  <2>4. c[h] = c[g]
    BY <1>2, <2>1, <2>2, <2>3
  <2> QED BY <1>5, <2>4, Zenon DEF Grouped
<1> QED BY <1>4, <1>5, Zenon DEF HasAll, Sole

\* The places of some of the first numbers, in order.
LEMMA PickIds ==
    ASSUME NEW m \in Nat, NEW F \in SUBSET (1..m)
    PROVE  \E q \in Nat : \E f : Ordered(f, q, F) /\ Pick([i \in 1..m |-> i], F) = f
<1> DEFINE ids == [i \in 1..m |-> i]
<1>0. F \in SUBSET Nat
  OBVIOUS
<1>1. PICK q \in Nat : \E f : Ordered(f, q, F)
  BY OrderedExists, Zenon
<1>2. PICK f : Ordered(f, q, F)
  BY <1>1
<1>3. f = [k \in 1..q |-> f[k]] /\ \A k \in 1..q : f[k] \in 1..m
  BY <1>2 DEF Ordered
<1>4. Pick(ids, F) = [k \in 1..q |-> ids[f[k]]]
  <2>1. Pick(ids, F) = Along(ids, f, q)
    <3> HIDE DEF ids
    <3> QED BY <1>0, <1>2, PickIs, Zenon
  <2> HIDE DEF ids
  <2> QED BY <2>1 DEF Along
<1>5. \A x \in 1..m : ids[x] = x
  OBVIOUS
<1>6. Pick(ids, F) = f
  <2> HIDE DEF ids
  <2>1. \A k \in 1..q : ids[f[k]] = f[k]
    BY <1>3, <1>5, Zenon
  <2>2. Pick(ids, F) = [k \in 1..q |-> f[k]]
    BY <1>4, <2>1, Zenon
  <2> QED BY <1>3, <2>2, Zenon
<1> QED BY <1>2, <1>6, Zenon

\* What node is given of a group is made of it, and is all of it if the first value
\* is not empty.
LEMMA Outgoing ==
    ASSUME NEW T, NEW G \in Seq(T), Len(G) # 0
    PROVE  /\ OutgoingValues(G) \in Seq(T)
           /\ G[1][2] # <<>> => OutgoingValues(G) = G
           /\ Len(OutgoingValues(G)) # 0
<1> DEFINE truthy == {i \in DOMAIN G : G[i][2] # <<>>}
           start  == CHOOSE i \in truthy : \A j \in truthy : i <= j
<1>0. Len(G) \in Nat \ {0} /\ DOMAIN G = 1..Len(G) /\ truthy \in SUBSET Nat /\ truthy \in SUBSET (1..Len(G))
  OBVIOUS
<1>1. CASE truthy = {}
  <2>1. OutgoingValues(G) = <<Last(G)>>
    BY <1>1, Zenon DEF OutgoingValues
  <2>2. Last(G) \in T
    BY <1>0 DEF Last
  <2>3. ~(G[1][2] # <<>>)
    <3>1. 1 \in DOMAIN G
      BY <1>0
    <3> QED BY <1>1, <3>1
  <2>4. <<Last(G)>> \in Seq(T) /\ Len(<<Last(G)>>) # 0
    BY <2>2
  <2> QED BY <2>1, <2>3, <2>4
<1>2. CASE truthy # {}
  <2>1. start \in truthy /\ \A j \in truthy : start <= j
    <3>1. \E i \in truthy : \A j \in truthy : i <= j
      <4> HIDE DEF truthy
      <4> QED BY <1>0, <1>2, Smallest
    <3> HIDE DEF truthy
    <3> QED BY <3>1
  <2>2. OutgoingValues(G) = SubSeq(G, start, Len(G))
    BY <1>2, Zenon DEF OutgoingValues
  <2>3. start \in 1..Len(G)
    <3> HIDE DEF truthy, start
    <3> QED BY <1>0, <2>1
  <2>4. G[1][2] # <<>> => start = 1
    <3> SUFFICES ASSUME G[1][2] # <<>> PROVE start = 1
      OBVIOUS
    <3>1. 1 \in truthy
      BY <1>0
    <3> HIDE DEF start, truthy
    <3> QED BY <2>1, <2>3, <3>1
  <2> HIDE DEF start, truthy
  <2>5. SubSeq(G, start, Len(G)) \in Seq(T) /\ Len(SubSeq(G, start, Len(G))) # 0
    BY <2>3
  <2>6. SubSeq(G, 1, Len(G)) = G
    OBVIOUS
  <2> QED BY <2>2, <2>4, <2>5, <2>6
<1> QED BY <1>1, <1>2

\* The last header of each group.
Lasts(gs) == [g \in DOMAIN gs |-> Last(gs[g])]

\* Each has the key of its group.
LastsHold(gs, key, c) ==
    /\ Len(Lasts(gs)) = Len(gs)
    /\ \A g \in 1..Len(gs) : Lasts(gs)[g] = Last(gs[g]) /\ key[Last(gs[g])[1]] = c[g]

\* The last ones are a list, one for each key.
LEMMA LastOnes ==
    ASSUME NEW T, NEW hs \in Seq(T), NEW key, NEW gs \in Seq(Seq(T)), NEW c, Grouped(gs, c, hs, key)
    PROVE  Lasts(gs) \in Seq(T) /\ LastsHold(gs, key, c)
<1>1. ASSUME NEW g \in 1..Len(gs) PROVE Last(gs[g]) \in T /\ key[Last(gs[g])[1]] = c[g]
  <2> DEFINE G == gs[g]
             l == Len(G)
  <2>1. G \in Seq(T) /\ Belongs(G, hs, key, c[g])
    BY GroupHolds, Zenon
  <2>2. l \in 1..l /\ Last(G) = G[l]
    BY <2>1 DEF Belongs, Last
  <2>3. G[l] \in T /\ key[G[l][1]] = c[g]
    <3> HIDE DEF G
    <3>1. G[l] \in T
      BY <2>1, <2>2
    <3> HIDE DEF l
    <3> QED BY <2>1, <2>2, <3>1 DEF Belongs, l
  <2> QED BY <2>2, <2>3
<1>2. DOMAIN gs = 1..Len(gs) /\ Len(gs) \in Nat
  OBVIOUS
<1> DEFINE r == [g \in 1..Len(gs) |-> Last(gs[g])]
<1>3. r \in [1..Len(gs) -> T]
  BY <1>1
<1>4. \A g \in 1..Len(gs) : r[g] = Last(gs[g])
  OBVIOUS
<1>5. Lasts(gs) = r
  BY <1>2 DEF Lasts
<1> HIDE DEF r
<1>6. r \in Seq(T) /\ Len(r) = Len(gs)
  BY <1>2, <1>3, FunctionIsSeq, Zenon
<1> QED BY <1>1, <1>4, <1>5, <1>6 DEF LastsHold

-----------------------------------------------------------------------------
\* What one of some lists holds, all of them together hold.
Holds(s, x) == \E i \in 1..Len(s) : s[i] = x

LEMMA FlatHolds ==
    ASSUME NEW T, NEW seqs \in Seq(Seq(T)), NEW g \in 1..Len(seqs), NEW x, Holds(seqs[g], x)
    PROVE  Holds(FlattenSeq(seqs), x)
<1> DEFINE N == Len(seqs)
<1>1. N \in Nat \ {0} /\ N \in Nat /\ N > 0 /\ g \in 1..N /\ g \in Nat /\ \A i \in 1..N : seqs[i] \in Seq(T)
  OBVIOUS
<1>2. PICK f : Joins(f, seqs, N) /\ FlattenSeq(seqs) = f[N]
  BY <1>1, FlattenIs, Zenon
<1>3. f[1] = seqs[1] /\ \A i, k \in 1..N : k = i + 1 => f[k] = f[i] \o seqs[k]
  <2>1. N \in Nat /\ N > 0
    BY <1>1
  <2> HIDE DEF N
  <2>2. JoinsOn(f, seqs, N)
    BY <1>2, <2>1, JoinsStep, Zenon
  <2> QED BY <2>1, <2>2, Zenon DEF JoinsOn
<1> DEFINE S == {i \in Nat : i \in 1..N => f[i] \in Seq(T) /\ (i >= g => Holds(f[i], x))}
<1>4. 0 \in S
  OBVIOUS
<1>5. ASSUME NEW i \in S PROVE i + 1 \in S
  <2> DEFINE k == i + 1
  <2>0. i \in Nat /\ k \in Nat
    OBVIOUS
  <2> SUFFICES ASSUME k \in 1..N PROVE f[k] \in Seq(T) /\ (k >= g => Holds(f[k], x))
    BY <2>0
  <2>1. CASE i = 0
    <3>1. f[k] = seqs[1] /\ seqs[1] \in Seq(T) /\ k = 1 /\ (k >= g => g = 1)
      BY <1>1, <1>3, <2>1
    <3> QED BY <3>1
  <2>2. CASE i # 0
    <3>1. i \in 1..N /\ f[i] \in Seq(T) /\ (i >= g => Holds(f[i], x))
      BY <2>0, <2>2
    <3> DEFINE a == f[i]
               b == seqs[k]
    <3>2. f[k] = a \o b /\ a \in Seq(T) /\ b \in Seq(T)
      BY <1>1, <1>3, <3>1
    <3>3. k >= g => Holds(a, x) \/ Holds(b, x)
      <4>1. k >= g => i >= g \/ k = g
        BY <1>1, <2>0
      <4> QED BY <3>1, <4>1
    <3> HIDE DEF a, b, k
    <3>4. Joint(a \o b, a, b) /\ a \o b \in Seq(T)
      BY <3>2, JointIs, Zenon
    <3>5. Holds(a, x) \/ Holds(b, x) => Holds(a \o b, x)
      <4> DEFINE c == a \o b
      <4>1. Len(a) \in Nat /\ Len(b) \in Nat
        BY <3>2
      <4> HIDE DEF c
      <4>2. /\ Len(c) = Len(a) + Len(b)
            /\ \A l \in 1..(Len(a) + Len(b)) : c[l] = IF l <= Len(a) THEN a[l] ELSE b[l - Len(a)]
        BY <3>4, Zenon DEF Joint, c
      <4>3. ASSUME NEW l \in 1..Len(a), a[l] = x PROVE Holds(c, x)
        <5>1. l \in 1..Len(c) /\ l \in 1..(Len(a) + Len(b)) /\ l <= Len(a)
          BY <4>1, <4>2
        <5>2. c[l] = a[l]
          BY <4>2, <5>1, Zenon
        <5> QED BY <4>3, <5>1, <5>2, Zenon DEF Holds
      <4>4. ASSUME NEW l \in 1..Len(b), b[l] = x PROVE Holds(c, x)
        <5>1. /\ Len(a) + l \in 1..Len(c) /\ Len(a) + l \in 1..(Len(a) + Len(b))
              /\ ~(Len(a) + l <= Len(a)) /\ (Len(a) + l) - Len(a) = l
          BY <4>1, <4>2
        <5>2. c[Len(a) + l] = b[(Len(a) + l) - Len(a)]
          BY <4>2, <5>1, Zenon
        <5> QED BY <4>4, <5>1, <5>2, Zenon DEF Holds
      <4> QED BY <4>3, <4>4, Zenon DEF Holds, c
    <3> QED BY <3>2, <3>3, <3>4, <3>5
  <2> QED BY <2>1, <2>2
<1>6. \A i \in Nat : i \in S
  <2>1. S \in SUBSET Nat
    OBVIOUS
  <2> HIDE DEF S
  <2> QED BY <1>4, <1>5, <2>1, Induct
<1>7. N \in 1..N /\ N >= g
  BY <1>1
<1> QED BY <1>1, <1>2, <1>6, <1>7

\* A list with a header of the name, and one with a value.
HasName(s, n) == \E i \in 1..Len(s) : Lower(s[i][1]) = Lower(n)

Filled(s, n) == \E i \in 1..Len(s) : Lower(s[i][1]) = Lower(n) /\ s[i][2] # <<>>

\* A request of node: made of what was sent, something of every name, and all of the
\* headers that are spelled alike, if the first has a value.
LEMMA NodeRequestCarries ==
    ASSUME NEW hs \in Seq(Header)
    PROVE  /\ NodeWrites(hs) \in Seq(Made(hs))
           /\ \A n : (/\ GetHeaders(hs, n) # <<>> /\ GetHeaders(hs, n)[1][2] # <<>>
                      /\ \A i, j \in Hits(hs, n) : hs[i][1] = hs[j][1]) =>
                 GetHeaders(NodeWrites(hs), n) = GetHeaders(hs, n)
           /\ \A n : HasName(hs, n) => HasName(NodeWrites(hs), n)
<1> DEFINE gs == Groups(hs, Spelling)
           T == Made(hs)
           m == Len(gs)
           ids == [g \in 1..m |-> g]
           Later(g, k) == Lower(gs[k][1][1]) # Lower(gs[g][1][1])
           K == {g \in 1..m : \A k \in (g + 1)..m : Later(g, k)}
<1>0. hs \in Seq(T)
  BY MadeType, Zenon
<1>1. gs \in Seq(Seq(T)) /\ \E c : Grouped(gs, c, hs, Spelling)
  BY <1>0, GroupsAre, Zenon
<1>2. PICK c : Grouped(gs, c, hs, Spelling)
  BY <1>1
<1>3. m \in Nat /\ DOMAIN gs = 1..m /\ \A g \in 1..m : gs[g] \in Seq(T)
  <2> HIDE DEF gs, T
  <2> QED BY <1>1
<1>4. \A g \in 1..m : Len(gs[g]) # 0 /\ \A k \in 1..Len(gs[g]) : Spelling[gs[g][k][1]] = c[g]
  <2> TAKE g \in 1..m
  <2>1. Belongs(gs[g], hs, Spelling, c[g])
    <3> HIDE DEF gs, T
    <3> QED BY <1>0, <1>2, GroupHolds, Zenon
  <2> HIDE DEF gs
  <2> QED BY <2>1 DEF Belongs
<1>5. K \in SUBSET (1..m)
  OBVIOUS
<1>6. PICK q \in Nat : \E e : Ordered(e, q, K) /\ Pick(ids, K) = e
  <2> HIDE DEF K, m
  <2> QED BY <1>3, <1>5, PickIds, Zenon
<1>7. PICK e : Ordered(e, q, K) /\ Pick(ids, K) = e
  BY <1>6
<1>8. \A k \in 1..q : e[k] \in K /\ e[k] \in 1..m
  <2> HIDE DEF K
  <2> QED BY <1>5, <1>7 DEF Ordered
<1> DEFINE ps == [k \in 1..q |-> OutgoingValues(gs[e[k]])]
<1>9. NodeWrites(hs) = FlattenSeq(ps)
  <2>1. NodeKeeps(gs) = e
    BY <1>3, <1>7, Zenon DEF NodeKeeps
  <2>2. DOMAIN e = 1..q
    <3> HIDE DEF K
    <3> QED BY <1>7 DEF Ordered
  <2> HIDE DEF gs
  <2> QED BY <2>1, <2>2, Zenon DEF NodeWrites, gs
<1> HIDE DEF gs, T, m
<1>10. ASSUME NEW k \in 1..q
       PROVE  /\ OutgoingValues(gs[e[k]]) \in Seq(T)
              /\ gs[e[k]][1][2] # <<>> => OutgoingValues(gs[e[k]]) = gs[e[k]]
              /\ \A U : gs[e[k]] \in Seq(U) => OutgoingValues(gs[e[k]]) \in Seq(U)
              /\ Len(OutgoingValues(gs[e[k]])) # 0
  <2> DEFINE G == gs[e[k]]
  <2>1. G \in Seq(T) /\ Len(G) # 0
    BY <1>3, <1>4, <1>8, Zenon
  <2> HIDE DEF G
  <2> QED BY <2>1, Outgoing, Zenon DEF G
<1>11. ps \in Seq(Seq(T)) /\ Len(ps) = q /\ \A k \in 1..q : ps[k] = OutgoingValues(gs[e[k]])
  <2>1. ps \in [1..q -> Seq(T)]
    BY <1>10
  <2>2. \A k \in 1..q : ps[k] = OutgoingValues(gs[e[k]])
    OBVIOUS
  <2> HIDE DEF ps
  <2> QED BY <2>1, <2>2, FunctionIsSeq, Zenon
<1> HIDE DEF ps
<1>12. NodeWrites(hs) \in Seq(T)
  BY <1>9, <1>11, FlattenType, Zenon
<1>13. ASSUME NEW n, GetHeaders(hs, n) # <<>>, GetHeaders(hs, n)[1][2] # <<>>,
              \A i, j \in Hits(hs, n) : hs[i][1] = hs[j][1]
       PROVE  GetHeaders(NodeWrites(hs), n) = GetHeaders(hs, n)
  <2> DEFINE G == GetHeaders(hs, n)
  <2>1. G \in Seq(Header) /\ Taken(G, hs, Hits(hs, n))
    BY HeadersGot, Zenon
  <2>2. PICK x \in Hits(hs, n) : TRUE
    <3>1. 1 \in 1..Len(G)
      <4>1. G # <<>>
        BY <1>13
      <4> HIDE DEF G
      <4> QED BY <2>1, <4>1
    <3> HIDE DEF G
    <3> QED BY <2>1, <3>1 DEF Taken
  <2>3. PICK g \in 1..m : /\ gs[g] = G
                          /\ \A h \in 1..m : h # g =>
                                \A k \in 1..Len(gs[h]) : Lower(gs[h][k][1]) # Lower(n)
    <3>1. \A i \in Hits(hs, n) : Spelling[hs[i][1]] = Spelling[hs[x][1]]
      BY <1>13, Zenon
    <3>2. HasAll(gs, hs, n)
      <4>1. Telling(Spelling)
        BY BothTell, Zenon
      <4> QED BY <1>2, <2>2, <3>1, <4>1, OneGroup, Zenon
    <3> QED BY <3>2, Zenon DEF HasAll, Sole, m
  <2>4. \A k \in 1..Len(G) : Lower(G[k][1]) = Lower(n)
    <3>1. \A i \in Hits(hs, n) : Lower(hs[i][1]) = Lower(n)
      BY DEF Hits
    <3> HIDE DEF G
    <3> TAKE k \in 1..Len(G)
    <3>2. PICK i \in Hits(hs, n) : G[k] = hs[i]
      BY <2>1 DEF Taken
    <3> QED BY <3>1, <3>2
  <2>5. g \in K
    <3> SUFFICES ASSUME NEW k \in (g + 1)..m PROVE Lower(gs[k][1][1]) # Lower(gs[g][1][1])
      BY DEF K
    <3>1. k \in 1..m /\ k # g
      BY <1>3
    <3>2. 1 \in 1..Len(gs[k]) /\ 1 \in 1..Len(gs[g])
      <4>1. \A h \in 1..m : 1 \in 1..Len(gs[h])
        BY <1>3, <1>4
      <4> QED BY <3>1, <4>1
    <3>3. Lower(gs[k][1][1]) # Lower(n)
      BY <2>3, <3>1, <3>2, Zenon
    <3>4. Lower(gs[g][1][1]) = Lower(n)
      BY <2>3, <2>4, <3>2, Zenon
    <3> QED BY <3>3, <3>4
  <2>6. PICK k \in 1..q : e[k] = g
    <3> HIDE DEF K
    <3> QED BY <1>7, <2>5 DEF Ordered
  <2>7. ps[k] = G
    <3>1. gs[e[k]] = G /\ gs[e[k]][1][2] # <<>>
      BY <1>13, <2>3, <2>6
    <3> QED BY <1>10, <1>11, <3>1
  <2>8. ASSUME NEW l \in 1..q, l # k PROVE GetHeaders(ps[l], n) = <<>>
    <3> DEFINE h == e[l]
               U == {y \in T : Lower(y[1]) # Lower(n)}
    <3>1. h \in 1..m /\ h # g
      <4>1. h \in 1..m
        BY <1>8
      <4>2. \A i, j \in 1..q : e[i] \in Nat /\ (i < j => e[i] < e[j])
        BY <1>8, <1>7 DEF Ordered
      <4>3. l < k \/ k < l
        BY <2>8
      <4>4. e[l] < e[k] \/ e[k] < e[l]
        BY <4>2, <4>3, Zenon
      <4>5. e[l] \in Nat /\ e[k] \in Nat
        BY <4>2
      <4> QED BY <2>6, <4>1, <4>4, <4>5
    <3>2. gs[h] \in Seq(U)
      <4>1. gs[h] \in Seq(T) /\ \A j \in 1..Len(gs[h]) : Lower(gs[h][j][1]) # Lower(n)
        BY <1>3, <2>3, <3>1, Zenon
      <4> DEFINE H == gs[h]
      <4> HIDE DEF H
      <4>2. H \in Seq(T) /\ \A j \in 1..Len(H) : Lower(H[j][1]) # Lower(n)
        BY <4>1 DEF H
      <4>3. H \in [1..Len(H) -> U] /\ Len(H) \in Nat
        <5>1. \A j \in 1..Len(H) : H[j] \in U
          BY <4>2
        <5>2. H \in [1..Len(H) -> T] /\ Len(H) \in Nat
          BY <4>2
        <5> HIDE DEF U
        <5> QED BY <5>1, <5>2
      <4> HIDE DEF U
      <4>4. H \in Seq(U)
        BY <4>3, FunctionIsSeq, Zenon
      <4> QED BY <4>4 DEF H
    <3>3. ps[l] \in Seq(U)
      <4> HIDE DEF U
      <4>1. OutgoingValues(gs[e[l]]) \in Seq(U)
        BY <1>10, <3>2, Zenon
      <4> QED BY <1>11, <4>1
    <3>4. \A j \in 1..Len(ps[l]) : Lower(ps[l][j][1]) # Lower(n)
      <4> DEFINE P == ps[l]
      <4> HIDE DEF P
      <4>1. P \in Seq(U)
        BY <3>3 DEF P
      <4>2. \A j \in 1..Len(P) : P[j] \in U
        <5> HIDE DEF U
        <5> QED BY <4>1
      <4>3. \A j \in 1..Len(P) : Lower(P[j][1]) # Lower(n)
        BY <4>2
      <4> QED BY <4>3 DEF P
    <3> HIDE DEF U
    <3> QED BY <3>3, <3>4, GetNone, Zenon
  <2>9. GetHeaders(FlattenSeq(ps), n) = GetHeaders(ps[k], n)
    BY <1>11, <2>8, GetFlat, Zenon
  <2>10. GetHeaders(G, n) = G
    <3> HIDE DEF G
    <3> QED BY <2>1, <2>4, GetAll, Zenon
  <2> HIDE DEF G
  <2> QED BY <1>9, <2>7, <2>9, <2>10 DEF G
<1>14. ASSUME NEW n, HasName(hs, n) PROVE HasName(NodeWrites(hs), n)
  <2> DEFINE A == {g \in 1..m : Lower(gs[g][1][1]) = Lower(n)}
             U == {y \in T : Lower(y[1]) = Lower(n)}
  <2>1. \A g \in 1..m : \A j \in 1..Len(gs[g]) : Lower(gs[g][j][1]) = Lower(gs[g][1][1])
    <3> TAKE g \in 1..m
    <3> DEFINE G == gs[g]
    <3>1. G \in Seq(T) /\ Len(G) # 0 /\ \A k \in 1..Len(G) : Spelling[G[k][1]] = c[g]
      BY <1>3, <1>4
    <3> HIDE DEF G
    <3>2. \A k \in 1..Len(G) : G[k][1] \in Name
      <4>1. \A k \in 1..Len(G) : G[k] \in Header
        BY <3>1 DEF T, Made
      <4> QED BY <4>1 DEF Header
    <3>3. 1 \in 1..Len(G)
      BY <3>1
    <3> QED BY <3>1, <3>2, <3>3, BothTell, Zenon DEF G
  <2>2. A # {}
    <3>1. PICK x \in 1..Len(hs) : Lower(hs[x][1]) = Lower(n)
      BY <1>14 DEF HasName
    <3>2. PICK g \in 1..m : Spelling[hs[x][1]] = c[g]
      BY <1>2, Zenon DEF Grouped, m
    <3>3. Spelling[gs[g][1][1]] = c[g] /\ gs[g][1] \in Header
      <4> DEFINE G == gs[g]
      <4>1. G \in Seq(T) /\ Len(G) # 0 /\ \A k \in 1..Len(G) : Spelling[G[k][1]] = c[g]
        BY <1>3, <1>4
      <4> HIDE DEF G
      <4> QED BY <4>1 DEF T, Made, G
    <3>4. hs[x][1] \in Name /\ gs[g][1][1] \in Name
      BY <3>3 DEF Header
    <3>5. gs[g][1][1] = hs[x][1]
      BY <3>2, <3>3, <3>4, BothTell
    <3> QED BY <3>1, <3>5
  <2>3. PICK g \in A : \A k \in A : k <= g
    <3>1. A \in SUBSET (0..m)
      OBVIOUS
    <3> HIDE DEF A
    <3> QED BY <1>3, <2>2, <3>1, Greatest
  <2>4. g \in 1..m /\ g \in K
    <3> SUFFICES ASSUME NEW k \in (g + 1)..m PROVE Lower(gs[k][1][1]) # Lower(gs[g][1][1])
      BY DEF K
    <3>1. k \in 1..m /\ ~(k <= g)
      BY <1>3
    <3> QED BY <2>3, <3>1
  <2>5. PICK k \in 1..q : e[k] = g
    <3> HIDE DEF K
    <3> QED BY <1>7, <2>4 DEF Ordered
  <2>6. gs[g] \in Seq(U)
    <3> DEFINE G == gs[g]
    <3>1. G \in Seq(T) /\ \A j \in 1..Len(G) : Lower(G[j][1]) = Lower(n)
      BY <1>3, <2>1, <2>4
    <3> HIDE DEF G
    <3>2. G \in [1..Len(G) -> U] /\ Len(G) \in Nat
      <4>1. \A j \in 1..Len(G) : G[j] \in U
        BY <3>1
      <4>2. G \in [1..Len(G) -> T] /\ Len(G) \in Nat
        BY <3>1
      <4> HIDE DEF U
      <4> QED BY <4>1, <4>2
    <3> HIDE DEF U
    <3>3. G \in Seq(U)
      BY <3>2, FunctionIsSeq, Zenon
    <3> QED BY <3>3 DEF G
  <2>7. ps[k] \in Seq(U) /\ Len(ps[k]) # 0
    <3> HIDE DEF U
    <3>1. OutgoingValues(gs[e[k]]) \in Seq(U) /\ Len(OutgoingValues(gs[e[k]])) # 0
      BY <1>10, <2>5, <2>6, Zenon
    <3> QED BY <1>11, <3>1
  <2>8. Holds(FlattenSeq(ps), ps[k][1])
    <3>1. Holds(ps[k], ps[k][1])
      <4> DEFINE P == ps[k]
      <4>1. P \in Seq(U) /\ Len(P) # 0
        BY <2>7
      <4> HIDE DEF P, U
      <4>2. 1 \in 1..Len(P)
        BY <4>1
      <4> QED BY <4>2 DEF Holds, P
    <3> QED BY <1>11, <3>1, FlatHolds, Zenon
  <2>9. Lower(ps[k][1][1]) = Lower(n)
    <3> DEFINE P == ps[k]
    <3> HIDE DEF P
    <3>1. P \in Seq(U) /\ Len(P) # 0
      BY <2>7 DEF P
    <3>2. P[1] \in U
      <4> HIDE DEF U
      <4> QED BY <3>1
    <3> QED BY <3>2 DEF P
  <2> QED BY <1>9, <2>8, <2>9 DEF HasName, Holds
<1> QED BY <1>12, <1>13, <1>14 DEF T

\* What is read of the other side: nothing but what was sent, and something of every
\* name with a value.
Carried(r, hs) ==
    /\ r \in Seq(Made(hs))
    /\ \A n : Filled(hs, n) => HasName(r, n)

\* gs has headers of every name of us.
LastFor(us, gs) ==
    \A n : (\E j \in 1..Len(us) : Lower(us[j][1]) = Lower(n)) =>
              \E g \in 1..Len(gs) : Lower(Last(gs[g])[1]) = Lower(n)

\* The last of each group, for every name that was sent.
LEMMA LastCarry ==
    ASSUME NEW hs \in Seq(Header), NEW T, NEW us \in Seq(T), T \subseteq Header, NEW key, Telling(key),
           NEW gs \in Seq(Seq(T)), NEW c, Grouped(gs, c, us, key)
    PROVE  LastFor(us, gs)
<1> SUFFICES ASSUME NEW n, NEW j \in 1..Len(us), Lower(us[j][1]) = Lower(n)
             PROVE  \E g \in 1..Len(gs) : Lower(Last(gs[g])[1]) = Lower(n)
  BY DEF LastFor
<1>1. PICK g \in 1..Len(gs) : key[us[j][1]] = c[g]
  BY Zenon DEF Grouped
<1> DEFINE l == Last(gs[g])
           r == Lasts(gs)
<1>2. r \in Seq(T) /\ LastsHold(gs, key, c)
  BY LastOnes, Zenon
<1>3. r[g] = l /\ key[l[1]] = c[g] /\ Len(r) = Len(gs)
  BY <1>2, Zenon DEF LastsHold
<1>4. l \in T /\ key[l[1]] = c[g]
  <2>1. r[g] \in T
    <3> HIDE DEF r
    <3> QED BY <1>2, <1>3
  <2> HIDE DEF r
  <2> QED BY <1>3, <2>1
<1>5. us[j][1] \in Name /\ l[1] \in Name
  <2>1. us[j] \in Header /\ l \in Header
    <3> HIDE DEF l
    <3> QED BY <1>4
  <2> HIDE DEF l
  <2> QED BY <2>1 DEF Header
<1>6. Lower(l[1]) = Lower(n)
  <2> HIDE DEF l
  <2> QED BY <1>1, <1>4, <1>5, Zenon DEF Telling
<1> QED BY <1>6

\* An answer of node.
LEMMA NodeResponseCarries ==
    ASSUME NEW hs \in Seq(Header)
    PROVE  Carried(NodeSets(hs), hs)
<1> DEFINE T == Made(hs)
           S == {i \in DOMAIN hs : hs[i][2] # <<>>}
           us == Pick(hs, S)
           gs == Groups(us, LowerCase)
           r == Lasts(gs)
<1>0. hs \in Seq(T) /\ S \in SUBSET (1..Len(hs)) /\ DOMAIN hs = 1..Len(hs)
  <2>1. hs \in Seq(T)
    BY MadeType, Zenon
  <2> HIDE DEF T
  <2> QED BY <2>1
<1>1. us \in Seq(T) /\ Taken(us, hs, S)
  <2> HIDE DEF S, T
  <2> QED BY <1>0, PickType, Zenon DEF Taken
<1>2. T \subseteq Header
  BY DEF Made
<1>3. gs \in Seq(Seq(T)) /\ \E c : Grouped(gs, c, us, LowerCase)
  <2> HIDE DEF us, T
  <2> QED BY <1>1, GroupsAre, Zenon
<1>4. PICK c : Grouped(gs, c, us, LowerCase)
  BY <1>3
<1>5. NodeSets(hs) = r
  BY Zenon DEF NodeSets, Lasts
<1> HIDE DEF gs, us, T
<1>6. r \in Seq(T) /\ Len(r) = Len(gs) /\ \A g \in 1..Len(gs) : r[g] = Last(gs[g])
  <2>1. r \in Seq(T) /\ LastsHold(gs, LowerCase, c)
    BY <1>1, <1>3, <1>4, LastOnes, Zenon
  <2> QED BY <2>1 DEF LastsHold
<1> HIDE DEF r
<1>7. ASSUME NEW n, Filled(hs, n) PROVE HasName(r, n)
  <2>1. PICK i \in S : Lower(hs[i][1]) = Lower(n)
    BY <1>0, <1>7 DEF Filled
  <2>2. \E j \in 1..Len(us) : Lower(us[j][1]) = Lower(n)
    <3> HIDE DEF S
    <3>1. PICK j \in 1..Len(us) : us[j] = hs[i]
      BY <1>1, <2>1 DEF Taken
    <3> QED BY <2>1, <3>1
  <2>3. PICK g \in 1..Len(gs) : Lower(Last(gs[g])[1]) = Lower(n)
    <3>1. LastFor(us, gs)
      BY <1>1, <1>2, <1>3, <1>4, LastCarry, BothTell, Zenon
    <3> QED BY <2>2, <3>1, Zenon DEF LastFor
  <2> QED BY <1>6, <2>3 DEF HasName
<1> QED BY <1>5, <1>6, <1>7 DEF Carried, T

\* A request of a lambda: the last of each group, and all of them again.
LEMMA LambdaRequestCarries ==
    ASSUME NEW hs \in Seq(Header)
    PROVE  Carried(Event(hs), hs)
<1> DEFINE T == Made(hs)
           gs == Groups(hs, Spelling)
           a == Lasts(gs)
           b == FlattenSeq(gs)
           r == a \o b
<1>1. hs \in Seq(T)
  BY MadeType, Zenon
<1>2. T \subseteq Header
  BY DEF Made
<1>3. gs \in Seq(Seq(T)) /\ \E c : Grouped(gs, c, hs, Spelling)
  <2> HIDE DEF T
  <2> QED BY <1>1, GroupsAre, Zenon
<1>4. PICK c : Grouped(gs, c, hs, Spelling)
  BY <1>3
<1>5. Event(hs) = r
  BY Zenon DEF Event, Lasts
<1> HIDE DEF gs, T
<1>6. a \in Seq(T) /\ Len(a) = Len(gs) /\ \A g \in 1..Len(gs) : a[g] = Last(gs[g])
  <2>1. a \in Seq(T) /\ LastsHold(gs, Spelling, c)
    BY <1>1, <1>3, <1>4, LastOnes, Zenon
  <2> QED BY <2>1 DEF LastsHold
<1>7. b \in Seq(T)
  BY <1>3, FlattenType, Zenon
<1> HIDE DEF a, b
<1>8. r \in Seq(T) /\ \A g \in 1..Len(a) : g \in 1..Len(r) /\ r[g] = a[g]
  BY <1>6, <1>7
<1> HIDE DEF r
<1>9. ASSUME NEW n, Filled(hs, n) PROVE HasName(r, n)
  <2>1. \E j \in 1..Len(hs) : Lower(hs[j][1]) = Lower(n)
    BY <1>9 DEF Filled
  <2>2. PICK g \in 1..Len(gs) : Lower(Last(gs[g])[1]) = Lower(n)
    <3>1. LastFor(hs, gs)
      BY <1>1, <1>2, <1>3, <1>4, LastCarry, BothTell, Zenon
    <3> QED BY <2>1, <3>1, Zenon DEF LastFor
  <2>3. g \in 1..Len(r) /\ r[g] = Last(gs[g])
    <3>1. g \in 1..Len(a) /\ a[g] = Last(gs[g])
      BY <1>6
    <3> QED BY <1>8, <3>1
  <2> QED BY <2>2, <2>3 DEF HasName
<1> QED BY <1>5, <1>8, <1>9 DEF Carried, T

\* An answer of a lambda has the headers that are spelled alike, but for the first
\* value if there are several.
LEMMA LambdaResponseCarries ==
    ASSUME NEW hs \in Seq(Header), NEW n, NEW x \in Hits(hs, n),
           \A j \in Hits(hs, n) : hs[j][1] = hs[x][1]
    PROVE  GetHeaders(OverLambdaResponse(hs), n) = WithTrue(GetHeaders(hs, n))
<1> DEFINE gs == Groups(hs, Spelling)
           T == Name \X (HeaderValue \union {<<True>>})
           ps == [g \in DOMAIN gs |-> WithTrue(gs[g])]
<1>1. gs \in Seq(Seq(Header)) /\ \E c : Grouped(gs, c, hs, Spelling)
  BY GroupsAre, Zenon
<1>2. PICK c : Grouped(gs, c, hs, Spelling)
  BY <1>1
<1>3. OverLambdaResponse(hs) = FlattenSeq(ps)
  BY Zenon DEF OverLambdaResponse
<1> HIDE DEF gs
<1>4. DOMAIN gs = 1..Len(gs) /\ Len(gs) \in Nat
  BY <1>1
<1>5. ASSUME NEW g \in 1..Len(gs)
      PROVE  /\ WithTrue(gs[g]) \in Seq(T)
             /\ \A k \in 1..Len(WithTrue(gs[g])) :
                   k \in 1..Len(gs[g]) /\ WithTrue(gs[g])[k][1] = gs[g][k][1]
  <2> DEFINE G == gs[g]
  <2>1. G \in Seq(Header) /\ Belongs(G, hs, Spelling, c[g])
    BY <1>2, GroupHolds, Zenon
  <2> HIDE DEF G
  <2>2. Len(G) \in Nat \ {0} /\ \A k \in 1..Len(G) : G[k] \in Header /\ G[k] \in T
    <3>1. Len(G) \in Nat \ {0}
      BY <2>1 DEF Belongs
    <3>2. \A h \in Header : h \in T
      BY DEF Header
    <3>3. \A k \in 1..Len(G) : G[k] \in Header
      BY <2>1
    <3> HIDE DEF T
    <3> QED BY <3>1, <3>2, <3>3
  <2>3. CASE Len(G) = 1
    <3>1. WithTrue(G) = G
      BY <2>3 DEF WithTrue
    <3>2. G \in Seq(T)
      <4>1. G \in [1..Len(G) -> T] /\ Len(G) \in Nat
        <5>1. G \in [1..Len(G) -> Header]
          BY <2>1
        <5> HIDE DEF T
        <5> QED BY <2>2, <5>1
      <4> HIDE DEF T
      <4> QED BY <4>1, FunctionIsSeq, Zenon
    <3> HIDE DEF T
    <3> QED BY <3>1, <3>2 DEF G
  <2>4. CASE Len(G) # 1
    <3> DEFINE t == Tail(G)
               f == <<G[1][1], <<True>>>>
               s == <<f>> \o t
               L == Len(G)
    <3>1. WithTrue(G) = s
      BY <2>4 DEF WithTrue
    <3>2. Len(t) = L - 1 /\ L \in Nat \ {0} /\ \A k \in 1..(L - 1) : t[k] = G[k + 1]
      BY <2>1, <2>2
    <3>3. f \in T
      <4>1. G[1] \in Header
        BY <2>2
      <4> QED BY <4>1 DEF Header
    <3>4. t \in [1..(L - 1) -> T]
      <4>1. t \in Seq(Header)
        BY <2>1, <2>2
      <4>2. \A k \in 1..(L - 1) : t[k] \in T
        <5> TAKE k \in 1..(L - 1)
        <5>1. k + 1 \in 1..L
          BY <3>2
        <5> HIDE DEF T, t
        <5> QED BY <2>2, <3>2, <5>1
      <4> HIDE DEF T, t, L
      <4> QED BY <3>2, <4>1, <4>2
    <3>5. t \in Seq(T)
      <4>1. L - 1 \in Nat
        BY <3>2
      <4> HIDE DEF T, t, L
      <4> QED BY <3>4, <4>1, FunctionIsSeq, Zenon
    <3>6. s \in Seq(T) /\ Len(s) = L /\ s[1] = f /\ \A k \in 2..L : s[k] = t[k - 1]
      <4> HIDE DEF T, t, L, f
      <4> QED BY <3>2, <3>3, <3>5
    <3>7. \A k \in 1..L : s[k][1] = G[k][1]
      <4> TAKE k \in 1..L
      <4>1. CASE k = 1
        <5>1. s[1] = f
          BY <3>6
        <5>2. f[1] = G[1][1]
          OBVIOUS
        <5> HIDE DEF s, f
        <5> QED BY <4>1, <5>1, <5>2
      <4>2. CASE k # 1
        <5>1. k \in 2..L /\ k - 1 \in 1..(L - 1) /\ (k - 1) + 1 = k
          BY <3>2, <4>2
        <5>2. s[k] = t[k - 1] /\ t[k - 1] = G[k]
          <6> HIDE DEF s, t, L
          <6>1. t[k - 1] = G[(k - 1) + 1]
            BY <3>2, <5>1, Zenon
          <6> QED BY <3>6, <5>1, <6>1
        <5> HIDE DEF s, t
        <5> QED BY <5>2
      <4> QED BY <4>1, <4>2
    <3>8. \A k \in 1..Len(s) : k \in 1..Len(G) /\ s[k][1] = G[k][1]
      <4> HIDE DEF s
      <4> QED BY <3>6, <3>7
    <3> HIDE DEF T, s
    <3> QED BY <3>1, <3>6, <3>8 DEF G
  <2> HIDE DEF T
  <2> QED BY <2>3, <2>4
<1>6. ps \in Seq(Seq(T)) /\ Len(ps) = Len(gs) /\ \A g \in 1..Len(gs) : ps[g] = WithTrue(gs[g])
  <2>1. \A g \in 1..Len(gs) : ps[g] = WithTrue(gs[g])
    BY <1>4
  <2>2. ps \in [1..Len(gs) -> Seq(T)]
    <3> HIDE DEF T
    <3> QED BY <1>4, <1>5
  <2> HIDE DEF ps, T
  <2> QED BY <1>4, <2>1, <2>2, FunctionIsSeq, Zenon
<1>12. \A g \in 1..Len(gs) : \A k \in 1..Len(ps[g]) : k \in 1..Len(gs[g]) /\ ps[g][k][1] = gs[g][k][1]
  <2> HIDE DEF ps, T
  <2> TAKE g \in 1..Len(gs)
  <2>1. ps[g] = WithTrue(gs[g])
    BY <1>6
  <2>2. \A k \in 1..Len(WithTrue(gs[g])) : k \in 1..Len(gs[g]) /\ WithTrue(gs[g])[k][1] = gs[g][k][1]
    BY <1>5
  <2> QED BY <2>1, <2>2
<1>7. PICK g \in 1..Len(gs) : gs[g] = GetHeaders(hs, n) /\ Sole(gs, g, n)
  <2>1. \A j \in Hits(hs, n) : Spelling[hs[j][1]] = Spelling[hs[x][1]]
    BY Zenon
  <2>2. HasAll(gs, hs, n)
    <3>1. Telling(Spelling)
      BY BothTell, Zenon
    <3> QED BY <1>2, <2>1, <3>1, OneGroup, Zenon
  <2> QED BY <2>2, Zenon DEF HasAll
<1>8. ps[g] = WithTrue(GetHeaders(hs, n)) /\ ps[g] \in Seq(T) /\ g \in 1..Len(ps)
  <2> HIDE DEF ps, T
  <2> QED BY <1>5, <1>6, <1>7
<1>9. ASSUME NEW h \in 1..Len(ps), h # g PROVE GetHeaders(ps[h], n) = <<>>
  <2> HIDE DEF ps, T
  <2>1. h \in 1..Len(gs) /\ ps[h] = WithTrue(gs[h]) /\ ps[h] \in Seq(T)
    BY <1>5, <1>6
  <2>2. \A k \in 1..Len(gs[h]) : Lower(gs[h][k][1]) # Lower(n)
    BY <1>7, <1>9, <2>1, Zenon DEF Sole
  <2>3. \A k \in 1..Len(ps[h]) : Lower(ps[h][k][1]) # Lower(n)
    <3>1. \A k \in 1..Len(ps[h]) : k \in 1..Len(gs[h]) /\ ps[h][k][1] = gs[h][k][1]
      BY <1>12, <2>1, Zenon
    <3> QED BY <2>2, <3>1, Zenon
  <2> QED BY <2>1, <2>3, GetNone, Zenon
<1>10. GetHeaders(FlattenSeq(ps), n) = GetHeaders(ps[g], n)
  <2> HIDE DEF ps, T
  <2> QED BY <1>6, <1>8, <1>9, GetFlat, Zenon
<1>11. GetHeaders(ps[g], n) = ps[g]
  <2>1. \A k \in 1..Len(gs[g]) : Lower(gs[g][k][1]) = Lower(n)
    <3> DEFINE G == GetHeaders(hs, n)
    <3>1. Taken(G, hs, Hits(hs, n)) /\ \A j \in Hits(hs, n) : Lower(hs[j][1]) = Lower(n)
      BY HeadersGot, Zenon DEF Hits
    <3> HIDE DEF G
    <3>2. \A k \in 1..Len(G) : Lower(G[k][1]) = Lower(n)
      <4> TAKE k \in 1..Len(G)
      <4>1. PICK j \in Hits(hs, n) : G[k] = hs[j]
        BY <3>1 DEF Taken
      <4> QED BY <3>1, <4>1
    <3> QED BY <1>7, <3>2 DEF G
  <2> HIDE DEF ps, T
  <2>2. \A k \in 1..Len(ps[g]) : k \in 1..Len(gs[g]) /\ ps[g][k][1] = gs[g][k][1]
    BY <1>12
  <2>3. \A k \in 1..Len(ps[g]) : Lower(ps[g][k][1]) = Lower(n)
    BY <2>1, <2>2
  <2> QED BY <1>8, <2>3, GetAll, Zenon
<1> HIDE DEF ps
<1> QED BY <1>3, <1>8, <1>10, <1>11

\* r is z with y in front.
IsFront(r, y, z) ==
    /\ Len(r) = Len(z) + 1 /\ DOMAIN r = 1..(Len(z) + 1)
    /\ r[1] = y /\ \A k \in 2..(Len(z) + 1) : r[k] = z[k - 1]

LEMMA FrontIs ==
    ASSUME NEW S, NEW z \in Seq(S), NEW y
    PROVE  <<y>> \o z \in Seq(S \union {y}) /\ IsFront(<<y>> \o z, y, z)
<1> DEFINE T == S \union {y}
           f == <<y>>
<1>1. f \in Seq(T) /\ z \in Seq(T) /\ Len(f) = 1 /\ f[1] = y /\ Len(z) \in Nat
  <2>1. z \in [1..Len(z) -> T] /\ Len(z) \in Nat
    OBVIOUS
  <2> QED BY <2>1
<1> HIDE DEF T, f
<1> DEFINE r == f \o z
<1>2. r \in Seq(T) /\ Joint(r, f, z)
  BY <1>1, JointIs, Zenon
<1> HIDE DEF r
<1>3. IsFront(r, y, z)
  BY <1>1, <1>2 DEF Joint, IsFront
<1> QED BY <1>2, <1>3 DEF r, f, T

\* The values of headers whose first has become `true`.
LEMMA TrueValues ==
    ASSUME NEW T, NEW G \in Seq(T), NEW v, v = [k \in 1..Len(G) |-> G[k][2]], Len(G) > 1
    PROVE  [k \in DOMAIN WithTrue(G) |-> WithTrue(G)[k][2]] = <<<<True>>>> \o Tail(v)
<1> DEFINE W == WithTrue(G)
           L == Len(G)
           f == <<G[1][1], <<True>>>>
           t == Tail(G)
           w == [k \in DOMAIN W |-> W[k][2]]
           u == Tail(v)
           r == <<<<True>>>> \o u
<1>1. L \in Nat /\ L > 1 /\ L # 1 /\ Len(v) = L /\ \A k \in 1..L : v[k] = G[k][2]
  OBVIOUS
<1>2. Len(t) = L - 1 /\ t \in Seq(T) /\ \A k \in 1..(L - 1) : t[k] = G[k + 1]
  BY <1>1
<1>3. W = <<f>> \o t
  BY <1>1, Zenon DEF WithTrue
<1>4. Len(u) = L - 1 /\ DOMAIN u = 1..(L - 1) /\ \A k \in 1..(L - 1) : u[k] = v[k + 1]
  <2>1. v \in Seq({G[k][2] : k \in 1..L})
    <3> DEFINE S == {G[k][2] : k \in 1..L}
    <3>1. v \in [1..L -> S]
      BY <1>1
    <3> HIDE DEF S
    <3> QED BY <1>1, <3>1
  <2> HIDE DEF L
  <2> QED BY <1>1, <2>1
<1>13. \E S : u \in Seq(S)
  <2> DEFINE S == {v[k] : k \in 1..L}
  <2>1. v \in Seq(S)
    <3>1. v \in [1..L -> S]
      BY <1>1
    <3> HIDE DEF S
    <3> QED BY <1>1, <3>1
  <2>2. u \in Seq(S)
    <3> HIDE DEF S
    <3> QED BY <1>1, <2>1
  <2> HIDE DEF S, u
  <2> QED BY <2>2
<1> HIDE DEF u, t, f
<1>5. Len(W) = L /\ DOMAIN W = 1..L /\ W[1] = f /\ \A k \in 2..L : W[k] = t[k - 1]
  <2> HIDE DEF W, L
  <2>1. IsFront(W, f, t)
    BY <1>2, <1>3, FrontIs, Zenon
  <2>2. Len(t) + 1 = L
    BY <1>1, <1>2
  <2> QED BY <2>1, <2>2 DEF IsFront
<1>6. (\E S : r \in Seq(S)) /\ Len(r) = L /\ DOMAIN r = 1..L /\ r[1] = <<True>> /\ \A k \in 2..L : r[k] = u[k - 1]
  <2>1. PICK S : u \in Seq(S)
    BY <1>13
  <2> HIDE DEF L
  <2>2. r \in Seq(S \union {<<True>>}) /\ IsFront(r, <<True>>, u)
    BY <2>1, FrontIs, Zenon
  <2>3. Len(u) + 1 = L
    BY <1>1, <1>4
  <2> HIDE DEF r, u
  <2> QED BY <2>2, <2>3 DEF IsFront
<1>7. f[2] = <<True>>
  BY DEF f
<1> HIDE DEF W, r, L
<1>8. \A k \in 1..L : W[k][2] = r[k]
  <2> TAKE k \in 1..L
  <2>1. CASE k = 1
    BY <1>5, <1>6, <1>7, <2>1
  <2>2. CASE k # 1
    <3>1. k \in 2..L /\ k - 1 \in 1..(L - 1) /\ (k - 1) + 1 = k
      BY <1>1, <2>2
    <3>2. W[k] = G[k] /\ r[k] = v[k]
      <4>1. t[k - 1] = G[(k - 1) + 1] /\ u[k - 1] = v[(k - 1) + 1]
        BY <1>2, <1>4, <3>1, Zenon
      <4> QED BY <1>5, <1>6, <3>1, <4>1
    <3> QED BY <1>1, <3>2
  <2> QED BY <2>1, <2>2
<1>9. w = [k \in 1..L |-> W[k][2]]
  BY <1>5
<1>10. r = [k \in 1..L |-> r[k]]
  <2>1. PICK S : r \in Seq(S)
    BY <1>6
  <2>2. r \in [1..L -> S]
    BY <1>6, <2>1
  <2> QED BY <2>2
<1>11. [k \in 1..L |-> W[k][2]] = [k \in 1..L |-> r[k]]
  BY <1>8, Zenon
<1>14. w = r
  BY <1>9, <1>10, <1>11, Zenon
<1> QED BY <1>14 DEF W, r, u

\* A value alone is not joined with anything.
LEMMA CombineOne == \A v : Combine(<<v>>) = v
<1> TAKE v
<1> DEFINE w == <<v>>
           joined[i \in 1..Len(w)] == IF i = 1 THEN w[i] ELSE joined[i - 1] \o <<Comma>> \o w[i]
<1>1. Len(w) = 1 /\ w[1] = v /\ 1 \in 1..Len(w)
  OBVIOUS
<1>2. \E f : f = [i \in 1..Len(w) |-> IF i = 1 THEN w[i] ELSE f[i - 1] \o <<Comma>> \o w[i]]
  <2> DEFINE f == [i \in 1..1 |-> v]
  <2>1. f = [i \in 1..Len(w) |-> IF i = 1 THEN w[i] ELSE f[i - 1] \o <<Comma>> \o w[i]]
    BY <1>1
  <2> HIDE DEF f
  <2> QED BY <2>1
<1> HIDE DEF w
<1>3. joined = [i \in 1..Len(w) |-> IF i = 1 THEN w[i] ELSE joined[i - 1] \o <<Comma>> \o w[i]]
  BY <1>2, Zenon
<1>4. Combine(w) = joined[Len(w)]
  BY Zenon DEF Combine
<1> HIDE DEF joined
<1>5. joined[1] = w[1]
  BY <1>1, <1>3
<1> QED BY <1>1, <1>4, <1>5 DEF w

\* One line of a combined list: the name in lower case and the values, joined.
Line(G) == <<Lower(G[1][1]), Combine(GetHeaderValues(G, G[1][1]))>>

\* ls has one line of the name, with the value v.
OneLine(ls, n, v) == \E g : Only(ls, n, g) /\ ls[g][2] = v

\* The headers of a name are one line.
LEMMA CombinedHas ==
    ASSUME NEW hs \in Seq(Header), NEW n, GetHeaders(hs, n) # <<>>
    PROVE  OneLine(Combined(hs), n, Combine(GetHeaderValues(hs, n)))
<1> DEFINE gs == Groups(hs, LowerCase)
           G == GetHeaders(hs, n)
           ls == [g \in DOMAIN gs |-> Line(gs[g])]
<1>0. G \in Seq(Header) /\ Taken(G, hs, Hits(hs, n))
  BY HeadersGot, Zenon
<1>1. gs \in Seq(Seq(Header)) /\ \E c : Grouped(gs, c, hs, LowerCase)
  BY GroupsAre, Zenon
<1>2. PICK c : Grouped(gs, c, hs, LowerCase)
  BY <1>1
<1>3. Combined(hs) = ls
  BY Zenon DEF Combined, Line
<1>4. 1 \in 1..Len(G) /\ Len(G) \in Nat /\ DOMAIN G = 1..Len(G)
  <2>1. G # <<>>
    OBVIOUS
  <2> HIDE DEF G
  <2> QED BY <1>0, <2>1
<1> HIDE DEF gs
<1>5. \A k \in 1..Len(G) : Lower(G[k][1]) = Lower(n)
  <2>1. \A i \in Hits(hs, n) : Lower(hs[i][1]) = Lower(n)
    BY DEF Hits
  <2> HIDE DEF G
  <2> TAKE k \in 1..Len(G)
  <2>2. PICK i \in Hits(hs, n) : G[k] = hs[i]
    BY <1>0 DEF Taken
  <2> QED BY <2>1, <2>2
<1>6. PICK g \in 1..Len(gs) : gs[g] = G /\ Sole(gs, g, n)
  <2>1. PICK x \in Hits(hs, n) : TRUE
    <3> HIDE DEF G
    <3> QED BY <1>0, <1>4 DEF Taken
  <2>2. \A i \in Hits(hs, n) : LowerCase[hs[i][1]] = LowerCase[hs[x][1]]
    <3> TAKE i \in Hits(hs, n)
    <3>1. /\ hs[i] \in Header /\ hs[x] \in Header
          /\ Lower(hs[i][1]) = Lower(n) /\ Lower(hs[x][1]) = Lower(n)
      BY <2>1 DEF Hits
    <3>2. hs[i][1] \in Name /\ hs[x][1] \in Name
      BY <3>1 DEF Header
    <3> QED BY <3>1, <3>2, BothTell, ZenonT(40)
  <2>3. HasAll(gs, hs, n)
    <3>1. Telling(LowerCase)
      BY BothTell, Zenon
    <3> QED BY <1>2, <2>1, <2>2, <3>1, OneGroup, Zenon
  <2> QED BY <2>3, Zenon DEF HasAll
<1>7. DOMAIN gs = 1..Len(gs) /\ Len(gs) \in Nat
  BY <1>1
<1>8. \A h \in 1..Len(gs) : gs[h][1][1] \in Name /\ Len(gs[h]) \in Nat \ {0}
  <2> TAKE h \in 1..Len(gs)
  <2> DEFINE H == gs[h]
  <2>1. H \in Seq(Header) /\ Belongs(H, hs, LowerCase, c[h])
    BY <1>2, GroupHolds, Zenon
  <2> HIDE DEF H
  <2>2. Len(H) \in Nat \ {0}
    BY <2>1 DEF Belongs
  <2>3. H[1] \in Header
    BY <2>1, <2>2
  <2> QED BY <2>2, <2>3 DEF Header, H
<1>9. \A h \in 1..Len(gs) : ls[h] = Line(gs[h]) /\ ls[h][1] = Lower(gs[h][1][1])
  <2>1. \A h \in 1..Len(gs) : ls[h] = Line(gs[h])
    BY <1>7
  <2> HIDE DEF ls
  <2> QED BY <2>1 DEF Line
<1> DEFINE T == {Line(gs[h]) : h \in 1..Len(gs)}
<1>10. ls \in Seq(T) /\ Len(ls) = Len(gs)
  <2>1. ls \in [1..Len(gs) -> T]
    BY <1>7
  <2> HIDE DEF ls, T
  <2> QED BY <1>7, <2>1, FunctionIsSeq, Zenon
<1> HIDE DEF ls, T
<1>11. Only(ls, n, g)
  <2>1. Lower(ls[g][1]) = Lower(n)
    <3>1. Lower(gs[g][1][1]) = Lower(n)
      <4>1. \A k \in 1..Len(gs[g]) : Lower(gs[g][k][1]) = Lower(n)
        BY <1>5, <1>6
      <4>2. 1 \in 1..Len(gs[g])
        BY <1>4, <1>6
      <4> QED BY <4>1, <4>2, Zenon
    <3>2. gs[g][1][1] \in Name
      BY <1>8
    <3> QED BY <1>9, <3>1, <3>2, HeadersAssumption, Zenon
  <2>2. ASSUME NEW h \in 1..Len(ls), Lower(ls[h][1]) = Lower(n) PROVE h = g
    <3> SUFFICES ASSUME h # g PROVE FALSE
      OBVIOUS
    <3>1. h \in 1..Len(gs)
      BY <1>10
    <3>2. 1 \in 1..Len(gs[h])
      <4>1. Len(gs[h]) \in Nat \ {0}
        BY <1>8, <3>1
      <4> QED BY <4>1
    <3>3. Lower(gs[h][1][1]) # Lower(n)
      BY <1>6, <3>1, <3>2, Zenon DEF Sole
    <3>4. gs[h][1][1] \in Name /\ ls[h][1] = Lower(gs[h][1][1])
      BY <1>8, <1>9, <3>1, Zenon
    <3>5. Lower(ls[h][1]) = Lower(gs[h][1][1])
      BY <3>4, HeadersAssumption, Zenon
    <3> QED BY <2>2, <3>3, <3>5
  <2> QED BY <1>10, <2>1, <2>2 DEF Only
<1>14. ls[g][2] = Combine(GetHeaderValues(G, G[1][1]))
  BY <1>6, <1>9 DEF Line
<1>15. GetHeaderValues(G, G[1][1]) = GetHeaderValues(hs, n)
  <2> DEFINE m == G[1][1]
  <2>1. GetHeaders(G, m) = G
    <3>1. \A k \in 1..Len(G) : Lower(G[k][1]) = Lower(m)
      BY <1>4, <1>5
    <3> HIDE DEF m, G
    <3> QED BY <1>0, <3>1, GetAll, Zenon
  <2> HIDE DEF m
  <2>2. GetHeaders(G, m) = GetHeaders(hs, n)
    BY <2>1
  <2> HIDE DEF G
  <2>3. GetHeaderValues(G, m) = GetHeaderValues(hs, n)
    BY <2>2, Zenon DEF GetHeaderValues
  <2> QED BY <2>3 DEF m
<1> HIDE DEF G
<1> QED BY <1>3, <1>11, <1>14, <1>15 DEF OneLine

\* Whose value is read.
LEMMA LineRead ==
    ASSUME NEW T, NEW ls \in Seq(T), NEW n, NEW v, OneLine(ls, n, v)
    PROVE  GetHeaderValues(ls, n) = <<v>>
<1>1. PICK g : Only(ls, n, g) /\ ls[g][2] = v
  BY DEF OneLine
<1>2. GetHeaders(ls, n) = <<ls[g]>>
  BY <1>1, GetOnly, Zenon
<1> QED BY <1>1, <1>2 DEF GetHeaderValues

\* Lines are a list.
LEMMA CombinedType ==
    ASSUME NEW hs \in Seq(Header)
    PROVE  Combined(hs) \in Seq({Line(Groups(hs, LowerCase)[g]) : g \in 1..Len(Groups(hs, LowerCase))})
<1> DEFINE gs == Groups(hs, LowerCase)
           ls == [g \in DOMAIN gs |-> Line(gs[g])]
           T == {Line(gs[g]) : g \in 1..Len(gs)}
<1>1. gs \in Seq(Seq(Header))
  BY GroupsAre, Zenon
<1>2. Combined(hs) = ls
  BY Zenon DEF Combined, Line
<1> HIDE DEF gs
<1>3. DOMAIN gs = 1..Len(gs) /\ Len(gs) \in Nat
  BY <1>1
<1>4. ls \in [1..Len(gs) -> T]
  BY <1>3
<1> HIDE DEF ls, T
<1>5. ls \in Seq(T)
  BY <1>3, <1>4, FunctionIsSeq, Zenon
<1> QED BY <1>2, <1>5 DEF T, gs

\* The names that transports write, and headers that are theirs.
OwnNames == Forbidden \union ToSet(Gateway)

Owned(N) == {<<m, <<Itself>>>> : m \in N}

\* Those names are in lower case.
LEMMA OwnLower == \A m \in OwnNames : Lower(m) = m
BY HeadersAssumption DEF OwnNames

\* The headers a transport writes have its names and no other.
LEMMA ItsOwn ==
    ASSUME NEW N \in SUBSET OwnNames, NEW own \in Seq(N)
    PROVE  /\ Its(own) \in Seq(Owned(N))
           /\ \A n : Lower(n) \notin N => GetHeaders(Its(own), n) = <<>>
<1>1. DOMAIN own = 1..Len(own) /\ Len(own) \in Nat /\ \A i \in 1..Len(own) : own[i] \in N
  OBVIOUS
<1> DEFINE s == [i \in 1..Len(own) |-> <<own[i], <<Itself>>>>]
<1>2. Its(own) = s
  BY <1>1 DEF Its
<1>3. s \in [1..Len(own) -> Owned(N)]
  BY <1>1 DEF Owned
<1> HIDE DEF s
<1>4. s \in Seq(Owned(N))
  BY <1>1, <1>3, FunctionIsSeq, Zenon
<1>5. ASSUME NEW n, Lower(n) \notin N PROVE GetHeaders(s, n) = <<>>
  <2>1. \A i \in 1..Len(s) : s[i] \in Owned(N)
    BY <1>4
  <2>2. \A h \in Owned(N) : Lower(h[1]) \in N
    BY OwnLower DEF Owned
  <2>3. \A i \in 1..Len(s) : Lower(s[i][1]) # Lower(n)
    BY <1>5, <2>1, <2>2
  <2> QED BY <1>4, <2>3, GetNone, Zenon
<1> QED BY <1>2, <1>4, <1>5

\* A list of some is a list of more.
LEMMA Wider == ASSUME NEW S, NEW T, S \subseteq T, NEW s \in Seq(S) PROVE s \in Seq(T)
<1>1. s \in [1..Len(s) -> T] /\ Len(s) \in Nat
  OBVIOUS
<1> QED BY <1>1, FunctionIsSeq, Zenon

\* A list with headers of a name has it, and they are got.
LEMMA NamedGot ==
    ASSUME NEW T, NEW s \in Seq(T), NEW n
    PROVE  /\ HasName(s, n) <=> GetHeaders(s, n) # <<>>
           /\ GetHeaders(s, n) # <<>> /\ GetHeaders(s, n)[1][2] # <<>> => Filled(s, n)
           /\ Filled(s, n) => HasName(s, n)
<1> DEFINE G == GetHeaders(s, n)
<1>1. G \in Seq(T) /\ Taken(G, s, Hits(s, n))
  BY HeadersGot, Zenon
<1> HIDE DEF G
<1>2. ASSUME HasName(s, n) PROVE G # <<>>
  <2>1. PICK i \in Hits(s, n) : TRUE
    BY <1>2 DEF HasName, Hits
  <2>2. PICK k \in 1..Len(G) : G[k] = s[i]
    BY <1>1 DEF Taken
  <2>3. \A j : j \notin 1..Len(<<>>)
    OBVIOUS
  <2> QED BY <2>2, <2>3
<1>3. ASSUME G # <<>> PROVE \E i \in Hits(s, n) : G[1] = s[i]
  <2>1. 1 \in 1..Len(G)
    BY <1>1, <1>3
  <2> QED BY <1>1, <2>1 DEF Taken
<1>4. G # <<>> => HasName(s, n)
  BY <1>3 DEF HasName, Hits
<1>5. G # <<>> /\ G[1][2] # <<>> => Filled(s, n)
  BY <1>3 DEF Filled, Hits
<1>6. Filled(s, n) => HasName(s, n)
  BY DEF Filled, HasName
<1> QED BY <1>2, <1>4, <1>5, <1>6 DEF G

\* r is s with own headers of the names N, and has what s has under names that are
\* written in s and among names, or else not in N.
LeavesWritten(r, s, T, N, names) ==
    /\ r \in Seq(T \union Owned(N))
    /\ \A n : GetHeaders(s, n) # <<>> /\ (Lower(n) \in names \/ Lower(n) \notin N) =>
          GetHeaders(r, n) = GetHeaders(s, n)

\* What a transport supplies leaves alone what the program wrote.
LEMMA Supplied ==
    ASSUME NEW T, NEW s \in Seq(T), NEW names, NEW N \in SUBSET OwnNames, NEW own \in Seq(N)
    PROVE  LeavesWritten(Supply(s, names, own), s, T, N, names)
<1> DEFINE V == T \union Owned(N)
           C == \E i \in DOMAIN s : Lower(s[i][1]) \in names
           t == Its(own)
<1>0. DOMAIN s = 1..Len(s)
  OBVIOUS
<1>1. s \in Seq(V) /\ t \in Seq(V)
  <2>1. Its(own) \in Seq(Owned(N))
    BY ItsOwn, Zenon
  <2>2. T \subseteq V /\ Owned(N) \subseteq V
    OBVIOUS
  <2> HIDE DEF V
  <2> QED BY <2>1, <2>2, Wider, Zenon
<1>2. Supply(s, names, own) = IF C THEN s ELSE s \o t
  BY Zenon DEF Supply
<1>3. s \o t \in Seq(V)
  <2> HIDE DEF V, t
  <2> QED BY <1>1, JointIs, Zenon
<1>4. ASSUME NEW n, GetHeaders(s, n) # <<>>, Lower(n) \in names \/ Lower(n) \notin N, ~C
      PROVE  GetHeaders(s \o t, n) = GetHeaders(s, n)
  <2>1. Lower(n) \notin names
    <3>1. HasName(s, n)
      BY <1>4, NamedGot, Zenon
    <3> QED BY <1>0, <1>4, <3>1 DEF HasName
  <2>2. GetHeaders(t, n) = <<>>
    BY <1>4, <2>1, ItsOwn, Zenon
  <2>3. GotOfBoth(s, t, n)
    <3> HIDE DEF V, t
    <3> QED BY <1>1, GetJoined, Zenon
  <2>4. GetHeaders(s, n) \in Seq(T)
    BY HeadersGot, Zenon
  <2> HIDE DEF t
  <2>5. GetHeaders(s, n) \o <<>> = GetHeaders(s, n)
    BY <2>4
  <2> QED BY <2>2, <2>3, <2>5 DEF GotOfBoth
<1> HIDE DEF C, t
<1> QED BY <1>1, <1>2, <1>3, <1>4 DEF LeavesWritten

\* The same of every name outside N.
LeavesOthers(r, s, T, N) ==
    /\ r \in Seq(T \union Owned(N))
    /\ \A n : Lower(n) \notin N => GetHeaders(r, n) = GetHeaders(s, n)

\* Own headers behind leave alone those of other names.
LEMMA OwnBehind ==
    ASSUME NEW T, NEW s \in Seq(T), NEW N \in SUBSET OwnNames, NEW own \in Seq(N)
    PROVE  LeavesOthers(s \o Its(own), s, T, N)
<1> DEFINE V == T \union Owned(N)
           t == Its(own)
<1>1. s \in Seq(V) /\ t \in Seq(V)
  <2>1. Its(own) \in Seq(Owned(N))
    BY ItsOwn, Zenon
  <2>2. T \subseteq V /\ Owned(N) \subseteq V
    OBVIOUS
  <2> HIDE DEF V
  <2> QED BY <2>1, <2>2, Wider, Zenon
<1>2. s \o t \in Seq(V)
  <2> HIDE DEF V, t
  <2> QED BY <1>1, JointIs, Zenon
<1>3. ASSUME NEW n, Lower(n) \notin N PROVE GetHeaders(s \o t, n) = GetHeaders(s, n)
  <2>1. GetHeaders(t, n) = <<>>
    BY <1>3, ItsOwn, Zenon
  <2>2. GotOfBoth(s, t, n)
    <3> HIDE DEF V, t
    <3> QED BY <1>1, GetJoined, Zenon
  <2>3. GetHeaders(s, n) \in Seq(T)
    BY HeadersGot, Zenon
  <2> HIDE DEF t
  <2>4. GetHeaders(s, n) \o <<>> = GetHeaders(s, n)
    BY <2>3
  <2> QED BY <2>1, <2>2, <2>4 DEF GotOfBoth
<1>4. LeavesOthers(s \o t, s, T, N)
  <2> HIDE DEF t
  <2> QED BY <1>2, <1>3, Zenon DEF LeavesOthers
<1> QED BY <1>4

\* Headers are found in what is left when others are removed.
LEMMA GetUnremoved ==
    ASSUME NEW T, NEW s \in Seq(T), NEW N \in SUBSET (OwnNames \union Hidden)
    PROVE  /\ RemoveHeaders(s, N) \in Seq(T) /\ RemoveHeaders(s, N) \in Seq(Made(s))
           /\ \A n : Lower(n) \notin N => GetHeaders(RemoveHeaders(s, N), n) = GetHeaders(s, n)
<1> DEFINE S == {i \in DOMAIN s : Lower(s[i][1]) \notin {Lower(m) : m \in N}}
<1>1. \A m \in N : Lower(m) = m
  BY HeadersAssumption DEF OwnNames
<1>2. {Lower(m) : m \in N} = N
  BY <1>1
<1>3. S \in SUBSET (1..Len(s)) /\ DOMAIN s = 1..Len(s)
  OBVIOUS
<1>4. RemoveHeaders(s, N) = Pick(s, S)
  BY Zenon DEF RemoveHeaders
<1>5. ASSUME NEW n, Lower(n) \notin N PROVE Hits(s, n) \subseteq S
  BY <1>2, <1>3, <1>5 DEF Hits
<1> HIDE DEF S
<1>6. Pick(s, S) \in Seq(T)
  BY <1>3, PickType, Zenon
<1>7. Pick(s, S) \in Seq(Made(s))
  BY <1>3, PickType, MadeType, Zenon
<1> QED BY <1>3, <1>4, <1>5, <1>6, <1>7, GetPicked, Zenon

\* The values of headers are those at the places of the name.
LEMMA ValuesHit ==
    ASSUME NEW T, NEW s \in Seq(T), NEW n
    PROVE  ToSet(GetHeaderValues(s, n)) = {s[i][2] : i \in Hits(s, n)}
<1> DEFINE G == GetHeaders(s, n)
           v == [k \in 1..Len(G) |-> G[k][2]]
<1>1. G \in Seq(T) /\ Taken(G, s, Hits(s, n))
  BY HeadersGot, Zenon
<1>2. GetHeaderValues(s, n) = [k \in DOMAIN G |-> G[k][2]]
  BY Zenon DEF GetHeaderValues
<1> HIDE DEF G
<1>3. DOMAIN G = 1..Len(G)
  BY <1>1
<1>4. GetHeaderValues(s, n) = v
  BY <1>2, <1>3
<1>5. DOMAIN v = 1..Len(G) /\ \A k \in 1..Len(G) : v[k] = G[k][2]
  OBVIOUS
<1> HIDE DEF v
<1>6. ToSet(v) = {G[k][2] : k \in 1..Len(G)}
  BY <1>5 DEF ToSet
<1>7. {G[k][2] : k \in 1..Len(G)} = {s[i][2] : i \in Hits(s, n)}
  <2> DEFINE L == {G[k][2] : k \in 1..Len(G)}
             R == {s[i][2] : i \in Hits(s, n)}
  <2>1. ASSUME NEW x \in L PROVE x \in R
    <3>1. PICK k \in 1..Len(G) : x = G[k][2]
      OBVIOUS
    <3>2. PICK i \in Hits(s, n) : G[k] = s[i]
      BY <1>1, Zenon DEF Taken
    <3> QED BY <3>1, <3>2
  <2>2. ASSUME NEW x \in R PROVE x \in L
    <3>1. PICK i \in Hits(s, n) : x = s[i][2]
      OBVIOUS
    <3>2. PICK k \in 1..Len(G) : G[k] = s[i]
      BY <1>1, Zenon DEF Taken
    <3> QED BY <3>1, <3>2
  <2> HIDE DEF L, R
  <2>3. L = R
    BY <2>1, <2>2
  <2> QED BY <2>3 DEF L, R
<1> QED BY <1>4, <1>6, <1>7

\* What is made of a list and of a transport's own headers has the values of both.
LEMMA Brought ==
    ASSUME NEW hs \in Seq(Header), NEW N \in SUBSET OwnNames,
           NEW r \in Seq(Made(hs) \union Owned(N)), NEW n
    PROVE  /\ ToSet(GetHeaderValues(r, n)) \subseteq ToSet(GetHeaderValues(hs, n)) \union {<<Itself>>}
           /\ Lower(n) \notin N =>
                 ToSet(GetHeaderValues(r, n)) \subseteq ToSet(GetHeaderValues(hs, n))
<1>1. ToSet(GetHeaderValues(r, n)) = {r[i][2] : i \in Hits(r, n)}
  BY ValuesHit, Zenon
<1>2. ToSet(GetHeaderValues(hs, n)) = {hs[i][2] : i \in Hits(hs, n)}
  BY ValuesHit, Zenon
<1>3. ASSUME NEW i \in Hits(r, n)
      PROVE  \/ \E j \in Hits(hs, n) : r[i] = hs[j]
             \/ Lower(n) \in N /\ r[i][2] = <<Itself>>
  <2>1. Lower(r[i][1]) = Lower(n) /\ (r[i] \in Made(hs) \/ r[i] \in Owned(N))
    <3>1. i \in 1..Len(r)
      BY DEF Hits
    <3> QED BY <3>1 DEF Hits
  <2>2. ASSUME r[i] \in Made(hs) PROVE \E j \in Hits(hs, n) : r[i] = hs[j]
    BY <2>1, <2>2 DEF Made, Hits
  <2>3. ASSUME r[i] \in Owned(N) PROVE Lower(n) \in N /\ r[i][2] = <<Itself>>
    <3>1. PICK m \in N : r[i] = <<m, <<Itself>>>>
      BY <2>3 DEF Owned
    <3>2. Lower(m) = m
      BY OwnLower
    <3> QED BY <2>1, <3>1, <3>2
  <2> QED BY <2>1, <2>2, <2>3
<1> QED BY <1>1, <1>2, <1>3

\* The names and lists of them that the transports use.
LEMMA OwnLists ==
    /\ {"host"} \in SUBSET OwnNames /\ {"connection"} \in SUBSET OwnNames
    /\ {"date"} \in SUBSET OwnNames /\ {"connection", "keep-alive"} \in SUBSET OwnNames
    /\ ToSet(Lengths) \in SUBSET OwnNames /\ ToSet(Gateway) \in SUBSET OwnNames
    /\ Forbidden \in SUBSET OwnNames
    /\ <<"host">> \in Seq({"host"}) /\ <<"connection">> \in Seq({"connection"})
    /\ <<"date">> \in Seq({"date"})
    /\ <<"connection", "keep-alive">> \in Seq({"connection", "keep-alive"})
    /\ Gateway \o Gateway \in Seq(ToSet(Gateway))
    /\ \A f \in Framing : f \in Seq(ToSet(Lengths)) /\ <<"host", "connection">> \o f \in Seq(Forbidden)
<1>1. ToSet(Lengths) = {"content-length", "transfer-encoding"}
  BY DEF ToSet, Lengths
<1>2. /\ "host" \in OwnNames /\ "connection" \in OwnNames /\ "date" \in OwnNames
      /\ "keep-alive" \in OwnNames /\ ToSet(Lengths) \subseteq OwnNames
  BY <1>1 DEF OwnNames, Forbidden
<1>3. Gateway \in Seq(ToSet(Gateway))
  <2>1. Gateway \in [1..5 -> ToSet(Gateway)]
    BY DEF Gateway, ToSet
  <2>2. 5 \in Nat
    OBVIOUS
  <2> QED BY <2>1, <2>2, FunctionIsSeq, Zenon
<1>4. Gateway \o Gateway \in Seq(ToSet(Gateway))
  BY <1>3, JointIs, Zenon
<1>5. ASSUME NEW f \in Framing
      PROVE  f \in Seq(ToSet(Lengths)) /\ <<"host", "connection">> \o f \in Seq(Forbidden)
  <2>1. f \in Seq(ToSet(Lengths))
    <3>1. \/ f = <<>>
          \/ f = <<"content-length">>
          \/ f = <<"transfer-encoding">>
      BY DEF Framing, Lengths
    <3> DEFINE L == ToSet(Lengths)
    <3>2. "content-length" \in L /\ "transfer-encoding" \in L
      BY <1>1
    <3> HIDE DEF L
    <3>3. <<>> \in Seq(L) /\ <<"content-length">> \in Seq(L) /\ <<"transfer-encoding">> \in Seq(L)
      BY <3>2
    <3>4. f \in Seq(L)
      BY <3>1, <3>3, Zenon
    <3> QED BY <3>4, Zenon DEF L
  <2>2. ToSet(Lengths) \subseteq Forbidden
    BY <1>1 DEF Forbidden
  <2>3. f \in Seq(Forbidden)
    BY <2>1, <2>2, Wider, Zenon
  <2>4. <<"host", "connection">> \in Seq(Forbidden)
    BY DEF Forbidden
  <2> QED BY <2>1, <2>3, <2>4, JointIs, Zenon
<1>6. /\ <<"host">> \in Seq({"host"}) /\ <<"connection">> \in Seq({"connection"})
      /\ <<"date">> \in Seq({"date"})
      /\ <<"connection", "keep-alive">> \in Seq({"connection", "keep-alive"})
  OBVIOUS
<1>7. Forbidden \in SUBSET OwnNames /\ ToSet(Gateway) \in SUBSET OwnNames
  BY DEF OwnNames
<1> QED BY <1>2, <1>4, <1>5, <1>6, <1>7

\* The same of what is written, under "connection" and under every name but k.
LeavesBut(r, s, T, N, k) ==
    /\ r \in Seq(T \union Owned(N))
    /\ \A n : GetHeaders(s, n) # <<>> /\ (Lower(n) = "connection" \/ Lower(n) # k) =>
          GetHeaders(r, n) = GetHeaders(s, n)

\* What node supplies besides.
LEMMA Supplement ==
    ASSUME NEW T, NEW s \in Seq(T), NEW own, NEW k \in OwnNames, NEW framing \in Framing,
           \/ own = <<"connection">> /\ k = "connection"
           \/ own = <<"connection", "keep-alive">> /\ k = "keep-alive",
           NEW N, {"connection", k} \union ToSet(Lengths) \subseteq N
    PROVE  LeavesBut(Supply(Supply(s, {"connection"}, own), ToSet(Lengths), framing), s, T, N, k)
<1> DEFINE C == {"connection", k}
           D == ToSet(Lengths)
           a == Supply(s, {"connection"}, own)
           b == Supply(a, D, framing)
           U == T \union Owned(C)
           V == U \union Owned(D)
<1>1. own \in Seq(C) /\ C \in SUBSET OwnNames
  BY OwnLists
<1>2. D \in SUBSET OwnNames /\ framing \in Seq(D)
  BY OwnLists
<1>3. a \in Seq(U) /\ \A n : GetHeaders(s, n) # <<>> /\ (Lower(n) \in {"connection"} \/ Lower(n) \notin C) =>
                                GetHeaders(a, n) = GetHeaders(s, n)
  <2> HIDE DEF C
  <2>1. LeavesWritten(a, s, T, C, {"connection"})
    BY <1>1, Supplied, Zenon
  <2> HIDE DEF a
  <2> QED BY <2>1, Zenon DEF LeavesWritten
<1>4. b \in Seq(V) /\ \A n : GetHeaders(a, n) # <<>> => GetHeaders(b, n) = GetHeaders(a, n)
  <2> HIDE DEF a, D, U
  <2>1. LeavesWritten(b, a, U, D, D)
    BY <1>2, <1>3, Supplied, Zenon
  <2> HIDE DEF b
  <2> QED BY <2>1, Zenon DEF LeavesWritten
<1>5. V \subseteq T \union Owned(N)
  BY DEF Owned
<1>6. b \in Seq(T \union Owned(N))
  <2> HIDE DEF b, V
  <2> QED BY <1>4, <1>5, Wider, Zenon
<1>7. ASSUME NEW n, GetHeaders(s, n) # <<>>, Lower(n) = "connection" \/ Lower(n) # k
      PROVE  GetHeaders(b, n) = GetHeaders(s, n)
  <2>1. Lower(n) \in {"connection"} \/ Lower(n) \notin C
    BY <1>7
  <2>2. GetHeaders(a, n) = GetHeaders(s, n)
    BY <1>3, <1>7, <2>1, Zenon
  <2>3. GetHeaders(a, n) # <<>>
    BY <1>7, <2>2
  <2>4. GetHeaders(b, n) = GetHeaders(a, n)
    BY <1>4, <2>3, Zenon
  <2> QED BY <2>2, <2>4
<1>8. LeavesBut(b, s, T, N, k)
  <2> HIDE DEF b
  <2> QED BY <1>6, <1>7 DEF LeavesBut
<1> QED BY <1>8

\* A request of node arrives as it was written, with what was missing.
LEMMA NodeRequestArrives ==
    ASSUME NEW hs \in Seq(Header), NEW framing \in Framing
    PROVE  /\ OverNodeRequest(hs, framing) \in Seq(Made(hs) \union Owned(Supplies("nodeRequest")))
           /\ \A n : Filled(NodeWrites(hs), n) =>
                 GetHeaders(OverNodeRequest(hs, framing), n) = GetHeaders(NodeWrites(hs), n)
<1> DEFINE w == NodeWrites(hs)
           T == Made(hs)
           N == Supplies("nodeRequest")
           C == \E i \in DOMAIN w : Lower(w[i][1]) = "host" /\ w[i][2] # <<>>
           rest == RemoveHeaders(w, {"host"})
           h == IF C THEN w ELSE rest \o Its(<<"host">>)
           U == T \union Owned({"host"})
           r == Supply(Supply(h, {"connection"}, <<"connection">>), ToSet(Lengths), framing)
<1>1. w \in Seq(T)
  BY NodeRequestCarries, Zenon
<1>2. OverNodeRequest(hs, framing) = r
  BY Zenon DEF OverNodeRequest
<1>3. N = {"host", "connection"} \union ToSet(Lengths) /\ N \in SUBSET OwnNames
  BY OwnLists DEF Supplies
<1> HIDE DEF w, T, N
<1>4. DOMAIN w = 1..Len(w)
  BY <1>1
<1>5. rest \in Seq(T) /\ \A n : Lower(n) \notin {"host"} => GetHeaders(rest, n) = GetHeaders(w, n)
  <2>1. {"host"} \in SUBSET (OwnNames \union Hidden)
    BY OwnLists
  <2> QED BY <1>1, <2>1, GetUnremoved, Zenon
<1> HIDE DEF rest
<1>6. /\ rest \o Its(<<"host">>) \in Seq(U)
      /\ \A n : Lower(n) \notin {"host"} => GetHeaders(rest \o Its(<<"host">>), n) = GetHeaders(rest, n)
  <2>1. LeavesOthers(rest \o Its(<<"host">>), rest, T, {"host"})
    BY <1>5, OwnLists, OwnBehind, Zenon
  <2> QED BY <2>1, Zenon DEF LeavesOthers
<1>7. h \in Seq(U)
  <2>1. T \subseteq U
    OBVIOUS
  <2> HIDE DEF U, C
  <2>2. w \in Seq(U)
    BY <1>1, <2>1, Wider, Zenon
  <2> QED BY <1>6, <2>2
<1>8. ASSUME NEW n, Filled(w, n) PROVE GetHeaders(h, n) = GetHeaders(w, n)
  <2>1. C \/ Lower(n) \notin {"host"}
    BY <1>4, <1>8 DEF Filled
  <2> HIDE DEF C
  <2> QED BY <1>5, <1>6, <2>1
<1> HIDE DEF h, U
<1>9. /\ r \in Seq(U \union Owned(N))
      /\ \A n : GetHeaders(h, n) # <<>> /\ (Lower(n) = "connection" \/ Lower(n) # "connection") =>
            GetHeaders(r, n) = GetHeaders(h, n)
  <2>1. {"connection", "connection"} \union ToSet(Lengths) \subseteq N /\ "connection" \in OwnNames
    BY <1>3, OwnLists
  <2>2. LeavesBut(r, h, U, N, "connection")
    BY <1>7, <2>1, Supplement, Zenon
  <2> HIDE DEF r
  <2> QED BY <2>2, Zenon DEF LeavesBut
<1> HIDE DEF r
<1>10. r \in Seq(T \union Owned(N))
  <2>1. U \union Owned(N) \subseteq T \union Owned(N)
    BY <1>3 DEF U, Owned
  <2> QED BY <1>9, <2>1, Wider, Zenon
<1>11. ASSUME NEW n, Filled(w, n) PROVE GetHeaders(r, n) = GetHeaders(w, n)
  <2>1. GetHeaders(w, n) # <<>>
    BY <1>1, <1>11, NamedGot, Zenon
  <2> QED BY <1>8, <1>9, <1>11, <2>1
<1> QED BY <1>2, <1>10, <1>11 DEF w, T, N

\* And so does an answer.
LEMMA NodeResponseArrives ==
    ASSUME NEW hs \in Seq(Header), NEW framing \in Framing
    PROVE  /\ OverNodeResponse(hs, framing) \in
                 Seq(Made(hs) \union Owned(Supplies("nodeResponse") \union Overwrites("nodeResponse")))
           /\ \A n : HasName(NodeSets(hs), n) /\ Lower(n) \notin Overwrites("nodeResponse") =>
                 GetHeaders(OverNodeResponse(hs, framing), n) = GetHeaders(NodeSets(hs), n)
<1> DEFINE w == NodeSets(hs)
           T == Made(hs)
           N == Supplies("nodeResponse") \union Overwrites("nodeResponse")
           h == Supply(w, {"date"}, <<"date">>)
           U == T \union Owned({"date"})
           r == Supply(Supply(h, {"connection"}, <<"connection", "keep-alive">>), ToSet(Lengths), framing)
<1>1. w \in Seq(T)
  BY NodeResponseCarries, Zenon DEF Carried
<1>2. OverNodeResponse(hs, framing) = r
  BY Zenon DEF OverNodeResponse
<1>3. /\ N = {"date", "connection", "keep-alive"} \union ToSet(Lengths)
      /\ N \in SUBSET OwnNames /\ Overwrites("nodeResponse") = {"keep-alive"}
  BY OwnLists DEF Supplies, Overwrites
<1> HIDE DEF w, T, N
<1>4. h \in Seq(U) /\ \A n : GetHeaders(w, n) # <<>> /\ (Lower(n) \in {"date"} \/ Lower(n) \notin {"date"}) =>
                                GetHeaders(h, n) = GetHeaders(w, n)
  <2>1. LeavesWritten(h, w, T, {"date"}, {"date"})
    BY <1>1, OwnLists, Supplied, Zenon
  <2> HIDE DEF h
  <2> QED BY <2>1, Zenon DEF LeavesWritten
<1> HIDE DEF h, U
<1>5. /\ r \in Seq(U \union Owned(N))
      /\ \A n : GetHeaders(h, n) # <<>> /\ (Lower(n) = "connection" \/ Lower(n) # "keep-alive") =>
            GetHeaders(r, n) = GetHeaders(h, n)
  <2>1. {"connection", "keep-alive"} \union ToSet(Lengths) \subseteq N /\ "keep-alive" \in OwnNames
    BY <1>3, OwnLists
  <2>2. LeavesBut(r, h, U, N, "keep-alive")
    BY <1>4, <2>1, Supplement, Zenon
  <2> HIDE DEF r
  <2> QED BY <2>2, Zenon DEF LeavesBut
<1> HIDE DEF r
<1>6. r \in Seq(T \union Owned(N))
  <2>1. U \union Owned(N) \subseteq T \union Owned(N)
    BY <1>3 DEF U, Owned
  <2> QED BY <1>5, <2>1, Wider, Zenon
<1>7. ASSUME NEW n, HasName(w, n), Lower(n) \notin Overwrites("nodeResponse")
      PROVE  GetHeaders(r, n) = GetHeaders(w, n)
  <2>1. GetHeaders(w, n) # <<>>
    BY <1>1, <1>7, NamedGot, Zenon
  <2>2. GetHeaders(h, n) = GetHeaders(w, n)
    BY <1>4, <2>1
  <2> QED BY <1>3, <1>5, <1>7, <2>1, <2>2
<1> QED BY <1>2, <1>6, <1>7 DEF w, T, N

\* A request of a lambda has what is not the gateway's.
LEMMA LambdaRequestArrives ==
    ASSUME NEW hs \in Seq(Header)
    PROVE  LET sub == RemoveHeaders(hs, ToSet(Gateway))
           IN  /\ sub \in Seq(Header) /\ Carried(Event(sub), sub)
               /\ OverLambdaRequest(hs) \in Seq(Made(hs) \union Owned(Overwrites("lambdaRequest")))
               /\ \A n : Lower(n) \notin Overwrites("lambdaRequest") =>
                     /\ GetHeaders(sub, n) = GetHeaders(hs, n)
                     /\ GetHeaders(OverLambdaRequest(hs), n) = GetHeaders(Event(sub), n)
<1> DEFINE N == ToSet(Gateway)
           sub == RemoveHeaders(hs, N)
           e == Event(sub)
           own == Gateway \o Gateway
           r == e \o Its(own)
           T == Made(hs)
<1>1. Overwrites("lambdaRequest") = N
  BY DEF Overwrites
<1>2. OverLambdaRequest(hs) = r
  BY Zenon DEF OverLambdaRequest
<1>3. N \in SUBSET OwnNames /\ N \in SUBSET (OwnNames \union Hidden) /\ own \in Seq(N)
  BY OwnLists
<1> HIDE DEF N, own
<1>4. /\ sub \in Seq(Header) /\ sub \in Seq(T)
      /\ \A n : Lower(n) \notin N => GetHeaders(sub, n) = GetHeaders(hs, n)
  BY <1>3, GetUnremoved, Zenon
<1> HIDE DEF sub
<1>5. Carried(e, sub)
  BY <1>4, LambdaRequestCarries, Zenon
<1> HIDE DEF e, T
<1>6. e \in Seq(T)
  <2>1. e \in Seq(Made(sub))
    BY <1>5 DEF Carried
  <2>2. Made(sub) \subseteq T
    BY <1>4 DEF Made
  <2> QED BY <2>1, <2>2, Wider, Zenon
<1>7. r \in Seq(T \union Owned(N)) /\ \A n : Lower(n) \notin N => GetHeaders(r, n) = GetHeaders(e, n)
  <2>1. LeavesOthers(r, e, T, N)
    BY <1>3, <1>6, OwnBehind, Zenon
  <2> HIDE DEF r
  <2> QED BY <2>1, Zenon DEF LeavesOthers
<1> HIDE DEF r
<1> QED BY <1>1, <1>2, <1>4, <1>5, <1>7 DEF sub, e, T, N

\* A request of a browser has the headers of each name joined, but for those that
\* it writes itself.
LEMMA BrowserRequestCarries ==
    ASSUME NEW hs \in Seq(Header), NEW framing \in Framing, NEW n, Lower(n) \notin Forbidden,
           GetHeaders(hs, n) # <<>>
    PROVE  GetHeaderValues(OverBrowserRequest(hs, framing), n) = <<Combine(GetHeaderValues(hs, n))>>
<1> DEFINE S == {i \in DOMAIN hs : Lower(hs[i][1]) \notin Unsafe}
           us == Pick(hs, S)
           vs == RemoveHeaders(us, Forbidden)
           own == <<"host", "connection">> \o framing
<1>1. S \in SUBSET (1..Len(hs))
  OBVIOUS
<1>2. Hits(hs, n) \subseteq S
  BY DEF Hits, Forbidden, Unsafe
<1>3. us \in Seq(Header)
  <2> HIDE DEF S
  <2> QED BY <1>1, PickType, Zenon
<1>4. GetHeaders(us, n) = GetHeaders(hs, n)
  <2> HIDE DEF S
  <2> QED BY <1>1, <1>2, GetPicked, Zenon
<1>5. OverBrowserRequest(hs, framing) = Combined(vs) \o Its(own)
  BY Zenon DEF OverBrowserRequest, Safe
<1>6. own \in Seq(Forbidden) /\ Forbidden \in SUBSET OwnNames /\ Forbidden \in SUBSET (OwnNames \union Hidden)
  BY OwnLists
<1> HIDE DEF us, own
<1>7. vs \in Seq(Header) /\ GetHeaders(vs, n) = GetHeaders(us, n)
  BY <1>3, <1>6, GetUnremoved, Zenon
<1> HIDE DEF vs
<1>8. OneLine(Combined(vs), n, Combine(GetHeaderValues(vs, n)))
  <2>1. GetHeaders(vs, n) # <<>>
    BY <1>4, <1>7
  <2> QED BY <1>7, <2>1, CombinedHas, Zenon
<1>9. \E T : Combined(vs) \in Seq(T)
  BY <1>7, CombinedType, Zenon
<1>10. PICK T : Combined(vs) \in Seq(T)
  BY <1>9
<1>11. GetHeaderValues(Combined(vs), n) = <<Combine(GetHeaderValues(vs, n))>>
  BY <1>8, <1>10, LineRead, Zenon
<1>12. GetHeaders(Combined(vs) \o Its(own), n) = GetHeaders(Combined(vs), n)
  <2> DEFINE c == Combined(vs)
  <2>1. LeavesOthers(c \o Its(own), c, T, Forbidden)
    BY <1>6, <1>10, OwnBehind, Zenon
  <2> QED BY <2>1, Zenon DEF LeavesOthers
<1>13. GetHeaderValues(Combined(vs) \o Its(own), n) = GetHeaderValues(Combined(vs), n)
  BY <1>12, Zenon DEF GetHeaderValues
<1>14. GetHeaderValues(vs, n) = GetHeaderValues(hs, n)
  BY <1>4, <1>7, Zenon DEF GetHeaderValues
<1> QED BY <1>5, <1>11, <1>13, <1>14

\* To XMLHttpRequest they are joined, with the end of the line.
LEMMA XhrResponseCarries ==
    ASSUME NEW hs \in Seq(Header), NEW n \in Name, Lower(n) \notin Hidden, GetHeaders(hs, n) # <<>>
    PROVE  GetHeaderValues(OverXhrResponse(hs), n) = <<Append(Combine(GetHeaderValues(hs, n)), Cr)>>
<1> DEFINE us == RemoveHeaders(hs, Hidden)
           ls == Combined(us)
           v == Combine(GetHeaderValues(us, n))
           H(i) == <<ls[i][1], Append(ls[i][2], Cr)>>
           ms == [i \in DOMAIN ls |-> H(i)]
           z == <<Nameless, <<>>>>
           r == Append(ms, z)
<1>1. us \in Seq(Header) /\ GetHeaders(us, n) = GetHeaders(hs, n)
  <2>1. Hidden \in SUBSET (OwnNames \union Hidden)
    OBVIOUS
  <2> QED BY <2>1, GetUnremoved, Zenon
<1>2. OverXhrResponse(hs) = r
  BY Zenon DEF OverXhrResponse
<1> HIDE DEF us
<1>3. OneLine(ls, n, v)
  <2>1. GetHeaders(us, n) # <<>>
    BY <1>1
  <2> QED BY <1>1, <2>1, CombinedHas, Zenon
<1>4. \E T : ls \in Seq(T)
  BY <1>1, CombinedType, Zenon
<1> HIDE DEF ls, v
<1>5. DOMAIN ls = 1..Len(ls) /\ Len(ls) \in Nat
  BY <1>4
<1>6. PICK g : Only(ls, n, g) /\ ls[g][2] = v
  BY <1>3 DEF OneLine
<1> DEFINE U == {H(i) : i \in 1..Len(ls)} \union {z}
<1>7. ms \in Seq(U) /\ Len(ms) = Len(ls) /\ z \in U
  <2>1. ms \in [1..Len(ls) -> U]
    BY <1>5
  <2> HIDE DEF ms, H
  <2> QED BY <1>5, <2>1
<1>8. \A i \in 1..Len(ls) : ms[i] = H(i)
  BY <1>5
<1>9. H(g)[2] = Append(v, Cr) /\ \A i : H(i)[1] = ls[i][1]
  BY <1>6
<1> HIDE DEF ms, H, U
<1>10. /\ r \in Seq(U) /\ Len(r) = Len(ls) + 1 /\ r[Len(ls) + 1] = z
       /\ \A i \in 1..Len(ls) : r[i] = H(i)
  BY <1>5, <1>7, <1>8
<1>11. Lower(z[1]) # Lower(n)
  BY HeadersAssumption
<1> HIDE DEF r, z
<1>12. Only(r, n, g) /\ r[g] = H(g)
  <2>1. g \in 1..Len(ls) /\ g \in 1..Len(r) /\ r[g] = H(g)
    BY <1>5, <1>6, <1>10 DEF Only
  <2>2. Lower(r[g][1]) = Lower(n)
    BY <1>6, <1>9, <2>1 DEF Only
  <2>3. ASSUME NEW j \in 1..Len(r), Lower(r[j][1]) = Lower(n) PROVE j = g
    <3>1. j # Len(ls) + 1
      BY <1>10, <1>11, <2>3
    <3>2. j \in 1..Len(ls)
      BY <1>5, <1>10, <3>1
    <3>3. Lower(ls[j][1]) = Lower(n)
      BY <1>9, <1>10, <2>3, <3>2
    <3> QED BY <1>6, <3>2, <3>3 DEF Only
  <2> QED BY <2>1, <2>2, <2>3 DEF Only
<1>13. OneLine(r, n, Append(v, Cr))
  BY <1>9, <1>12 DEF OneLine
<1>14. GetHeaderValues(r, n) = <<Append(v, Cr)>>
  BY <1>10, <1>13, LineRead, Zenon
<1>15. GetHeaderValues(us, n) = GetHeaderValues(hs, n)
  BY <1>1, Zenon DEF GetHeaderValues
<1> QED BY <1>2, <1>14, <1>15 DEF v

-----------------------------------------------------------------------------
\* What a program has is made of names and values; what arrives is what the
\* transport makes of it.
HeadersInv ==
    /\ headerEdits \in 0..MaxEdits
    /\ sent \in Seq(Header)
    /\ \/ transport = "none" /\ headers \in Seq(Header)
       \/ transport \in Transport /\ \E framing \in Framing : headers = Over(transport, sent, framing)

\* A header that is set is a header.
LEMMA SetHeaderType ==
    ASSUME NEW hs \in Seq(Header), NEW n \in Name, NEW v \in HeaderValue
    PROVE  SetHeader(hs, n, v) \in Seq(Header)
<1> DEFINE S == {i \in DOMAIN hs : Lower(hs[i][1]) \notin {Lower(m) : m \in {n}}}
<1>1. S \in SUBSET (1..Len(hs))
  OBVIOUS
<1>2. RemoveHeaders(hs, {n}) = Pick(hs, S)
  BY Zenon DEF RemoveHeaders
<1> HIDE DEF S
<1>3. RemoveHeaders(hs, {n}) \in Seq(Header)
  <2>1. Pick(hs, S) \in Seq(Header)
    BY <1>1, PickType, Zenon
  <2> QED BY <1>2, <2>1
<1>4. <<n, v>> \in Header
  BY DEF Header
<1> QED BY <1>3, <1>4 DEF SetHeader

\* f counts through the headers that are set.
SetSoFar(f, hs, new, n) ==
    f = [i \in 0..n |-> IF i = 0 THEN hs ELSE SetHeader(f[i - 1], new[i][1], new[i][2])]

\* There is such a function.
LEMMA SetExists ==
    ASSUME NEW hs, NEW new
    PROVE  \A n \in Nat : \E f : SetSoFar(f, hs, new, n)
<1> DEFINE S == {n \in Nat : \E f : SetSoFar(f, hs, new, n)}
           F(g, i) == IF i = 0 THEN hs ELSE SetHeader(g[i - 1], new[i][1], new[i][2])
<1>1. 0 \in S
  <2> DEFINE e == [i \in 0..0 |-> hs]
  <2>1. \A i \in 0..0 : F(e, i) = hs
    OBVIOUS
  <2>2. e = [i \in 0..0 |-> F(e, i)]
    <3> HIDE DEF F
    <3> QED BY <2>1
  <2>3. SetSoFar(e, hs, new, 0)
    BY <2>2, Zenon DEF SetSoFar
  <2> HIDE DEF e
  <2> QED BY <2>3
<1>2. ASSUME NEW n \in S PROVE n + 1 \in S
  <2>0. n \in Nat
    OBVIOUS
  <2>1. PICK f : f = [i \in 0..n |-> F(f, i)]
    BY Zenon DEF SetSoFar
  <2> DEFINE g == [i \in 0..(n + 1) |-> F(f, i)]
  <2>2. \A i \in 0..n : g[i] = f[i]
    <3> HIDE DEF F
    <3> TAKE i \in 0..n
    <3>1. i \in 0..(n + 1)
      BY <2>0
    <3>2. f[i] = F(f, i)
      BY <2>1
    <3> QED BY <3>1, <3>2
  <2>3. ASSUME NEW i \in 0..(n + 1) PROVE F(f, i) = F(g, i)
    <3>1. i # 0 => g[i - 1] = f[i - 1]
      <4>1. i # 0 => i - 1 \in 0..n
        BY <2>0
      <4> HIDE DEF g
      <4> QED BY <4>1, <2>2
    <3> HIDE DEF g
    <3> QED BY <3>1, Zenon
  <2>4. g = [i \in 0..(n + 1) |-> F(g, i)]
    <3> HIDE DEF F
    <3> QED BY <2>3
  <2>5. SetSoFar(g, hs, new, n + 1)
    BY <2>4, Zenon DEF SetSoFar
  <2> HIDE DEF g
  <2> QED BY <2>0, <2>5
<1>3. \A n \in Nat : n \in S
  <2>1. S \in SUBSET Nat
    OBVIOUS
  <2> HIDE DEF S
  <2> QED BY <1>1, <1>2, <2>1, Induct
<1> QED BY <1>3

\* setHeaders sets one header after the other.
LEMMA SetHeadersIs ==
    ASSUME NEW hs, NEW new, Len(new) \in Nat
    PROVE  \E f : SetSoFar(f, hs, new, Len(new)) /\ SetHeaders(hs, new) = f[Len(new)]
<1> DEFINE set[i \in 0..Len(new)] ==
              IF i = 0 THEN hs ELSE SetHeader(set[i - 1], new[i][1], new[i][2])
<1>1. \E f : f = [i \in 0..Len(new) |-> IF i = 0 THEN hs ELSE SetHeader(f[i - 1], new[i][1], new[i][2])]
  <2>1. \E f : SetSoFar(f, hs, new, Len(new))
    BY SetExists, Zenon
  <2> QED BY <2>1, Zenon DEF SetSoFar
<1>2. set = [i \in 0..Len(new) |-> IF i = 0 THEN hs ELSE SetHeader(set[i - 1], new[i][1], new[i][2])]
  BY <1>1, Zenon
<1>3. SetHeaders(hs, new) = set[Len(new)]
  BY Zenon DEF SetHeaders
<1> HIDE DEF set
<1> QED BY <1>2, <1>3, Zenon DEF SetSoFar

\* What comes of it are headers.
LEMMA SetHeadersType ==
    ASSUME NEW hs \in Seq(Header), NEW new \in Seq(Header)
    PROVE  SetHeaders(hs, new) \in Seq(Header)
<1> DEFINE n == Len(new)
           F(f, i) == IF i = 0 THEN hs ELSE SetHeader(f[i - 1], new[i][1], new[i][2])
<1>1. n \in Nat
  OBVIOUS
<1>2. PICK f : SetSoFar(f, hs, new, n) /\ SetHeaders(hs, new) = f[n]
  BY <1>1, SetHeadersIs, Zenon
<1>3. \A i \in 0..n : f[i] = F(f, i)
  <2>1. f = [i \in 0..n |-> F(f, i)]
    BY <1>2, Zenon DEF SetSoFar
  <2> HIDE DEF F
  <2> QED BY <2>1
<1> DEFINE S == {i \in Nat : i \in 0..n => f[i] \in Seq(Header)}
<1>4. 0 \in S
  <2>1. 0 \in 0..n /\ F(f, 0) = hs
    BY <1>1
  <2> HIDE DEF F
  <2> QED BY <1>3, <2>1
<1>5. ASSUME NEW i \in S PROVE i + 1 \in S
  <2> DEFINE k == i + 1
  <2> SUFFICES ASSUME k \in 0..n PROVE f[k] \in Seq(Header)
    OBVIOUS
  <2>1. i \in 0..n /\ k - 1 = i /\ k # 0 /\ k \in 1..n /\ f[i] \in Seq(Header)
    BY <1>1
  <2>2. f[k] = SetHeader(f[i], new[k][1], new[k][2])
    <3>1. f[k] = F(f, k)
      <4> HIDE DEF F, k
      <4> QED BY <1>3
    <3> HIDE DEF k
    <3> QED BY <2>1, <3>1
  <2>3. new[k][1] \in Name /\ new[k][2] \in HeaderValue
    <3>1. new[k] \in Header
      <4> HIDE DEF k
      <4> QED BY <2>1
    <3> QED BY <3>1 DEF Header
  <2> HIDE DEF k
  <2>4. SetHeader(f[i], new[k][1], new[k][2]) \in Seq(Header)
    BY <2>1, <2>3, SetHeaderType, Zenon
  <2> QED BY <2>2, <2>4
<1>6. \A i \in Nat : i \in S
  <2>1. S \in SUBSET Nat
    OBVIOUS
  <2> HIDE DEF S
  <2> QED BY <1>4, <1>5, <2>1, Induct
<1>7. n \in 0..n
  BY <1>1
<1> QED BY <1>1, <1>2, <1>6, <1>7

\* Every operation makes headers of headers.
LEMMA EditType ==
    ASSUME HeadersInv, transport = "none", HeadersNext, transport' = "none"
    PROVE  headers' \in Seq(Header) /\ sent' = sent /\ headerEdits' = headerEdits + 1 /\ headerEdits < MaxEdits
<1>0. headers \in Seq(Header)
  BY DEF HeadersInv, Transport
<1>1. ASSUME NEW hs \in Seq(Header), Becomes(hs)
      PROVE  headers' \in Seq(Header) /\ sent' = sent /\ headerEdits' = headerEdits + 1 /\ headerEdits < MaxEdits
  BY <1>1 DEF Becomes
<1>2. ASSUME NEW n \in Name, NEW v \in HeaderValue
      PROVE  AppendHeader(headers, n, v) \in Seq(Header) /\ SetHeader(headers, n, v) \in Seq(Header)
  <2>1. <<n, v>> \in Header
    BY DEF Header
  <2>2. AppendHeader(headers, n, v) \in Seq(Header)
    BY <1>0, <2>1 DEF AppendHeader
  <2> QED BY <1>0, <2>2, SetHeaderType, Zenon
<1>3. ASSUME NEW new \in Batch
      PROVE  AppendHeaders(headers, new) \in Seq(Header) /\ SetHeaders(headers, new) \in Seq(Header)
  <2>1. new \in Seq(Header)
    BY HeadersAssumption DEF Header
  <2>2. AppendHeaders(headers, new) \in Seq(Header)
    BY <1>0, <2>1 DEF AppendHeaders
  <2> QED BY <1>0, <2>1, <2>2, SetHeadersType, Zenon
<1>4. ASSUME NEW n \in Name, NEW f \in Edit PROVE UpdateHeaders(headers, n, f) \in Seq(Header)
  <2> DEFINE u == UpdateHeaders(headers, n, f)
  <2>1. Len(headers) \in Nat /\ DOMAIN headers = 1..Len(headers) /\ f \in [HeaderValue -> HeaderValue]
    BY <1>0, HeadersAssumption
  <2>2. u = [i \in 1..Len(headers) |->
               IF Lower(headers[i][1]) = Lower(n) THEN <<headers[i][1], f[headers[i][2]]>> ELSE headers[i]]
    BY <2>1, Zenon DEF UpdateHeaders
  <2>3. \A i \in 1..Len(headers) : headers[i] \in Header /\ <<headers[i][1], f[headers[i][2]]>> \in Header
    <3> TAKE i \in 1..Len(headers)
    <3>1. headers[i] \in Header
      BY <1>0
    <3> DEFINE h == headers[i]
    <3>2. h[1] \in Name /\ h[2] \in HeaderValue
      BY <3>1 DEF Header
    <3> HIDE DEF h
    <3>3. <<h[1], f[h[2]]>> \in Header
      BY <2>1, <3>2 DEF Header
    <3> QED BY <3>1, <3>3 DEF h
  <2> HIDE DEF u
  <2>4. u \in [1..Len(headers) -> Header]
    BY <2>2, <2>3
  <2>5. u \in Seq(Header)
    BY <2>1, <2>4, FunctionIsSeq, Zenon
  <2> QED BY <2>5 DEF u
<1>5. ASSUME NEW ns PROVE RemoveHeaders(headers, ns) \in Seq(Header) /\ SelectHeaders(headers, ns) \in Seq(Header)
  <2> DEFINE S == {i \in DOMAIN headers : Lower(headers[i][1]) \notin {Lower(m) : m \in ns}}
             R == {i \in DOMAIN headers : Lower(headers[i][1]) \in {Lower(m) : m \in ns}}
  <2>1. S \in SUBSET (1..Len(headers)) /\ R \in SUBSET (1..Len(headers))
    BY <1>0
  <2>2. RemoveHeaders(headers, ns) = Pick(headers, S) /\ SelectHeaders(headers, ns) = Pick(headers, R)
    BY Zenon DEF RemoveHeaders, SelectHeaders
  <2> HIDE DEF S, R
  <2>3. Pick(headers, S) \in Seq(Header)
    BY <1>0, <2>1, PickType, Zenon
  <2>4. Pick(headers, R) \in Seq(Header)
    BY <1>0, <2>1, PickType, Zenon
  <2> QED BY <2>2, <2>3, <2>4
<1>6. ASSUME NEW t \in Transport, Carry(t) PROVE FALSE
  BY <1>6 DEF Carry, Transport
<1> QED BY <1>1, <1>2, <1>3, <1>4, <1>5, <1>6, Zenon
    DEF HeadersNext, AddHeader, PutHeader, AddHeaders, PutHeaders, Update, DropHeaders, KeepHeaders

\* Every operation and every transport keeps the invariant.
LEMMA HeadersStep == HeadersInv /\ [HeadersNext]_headerVars => HeadersInv'
<1> SUFFICES ASSUME HeadersInv, [HeadersNext]_headerVars PROVE HeadersInv'
  OBVIOUS
<1>0. headerEdits \in 0..MaxEdits /\ MaxEdits \in Nat /\ sent \in Seq(Header) /\ "none" \notin Transport
  BY HeadersAssumption DEF HeadersInv, Transport
<1>1. CASE UNCHANGED headerVars
  BY <1>1 DEF headerVars, HeadersInv
<1>2. ASSUME NEW hs, Becomes(hs) PROVE transport = "none" /\ transport' = "none"
  BY <1>2 DEF Becomes
<1>3. ASSUME NEW t \in Transport, Carry(t) PROVE HeadersInv'
  <2>1. /\ transport' = t /\ sent' = headers
        /\ \E framing \in Framing : headers' = Over(t, headers, framing)
        /\ headerEdits' = headerEdits /\ transport = "none"
    BY <1>3 DEF Carry
  <2>2. headers \in Seq(Header)
    BY <1>0, <2>1, Zenon DEF HeadersInv
  <2> QED BY <1>0, <2>1, <2>2, Zenon DEF HeadersInv
<1>4. ASSUME HeadersNext, transport = "none", transport' = "none" PROVE HeadersInv'
  <2>1. headers' \in Seq(Header) /\ sent' = sent /\ headerEdits' = headerEdits + 1 /\ headerEdits < MaxEdits
    BY <1>4, EditType, Zenon
  <2>2. headerEdits' \in 0..MaxEdits
    BY <1>0, <2>1
  <2> QED BY <1>0, <1>4, <2>1, <2>2, Zenon DEF HeadersInv
<1>5. CASE HeadersNext
  <2>1. (\E hs : Becomes(hs)) \/ \E t \in Transport : Carry(t)
    BY <1>5, Zenon DEF HeadersNext, AddHeader, PutHeader, AddHeaders, PutHeaders, Update, DropHeaders, KeepHeaders
  <2> QED BY <1>2, <1>3, <1>4, <1>5, <2>1, Zenon
<1> QED BY <1>1, <1>5

\* So it holds of every message.
LEMMA HeadersInductive == MessagesSpec => []HeadersInv
<1>1. MessagesInit => HeadersInv
  <2> SUFFICES ASSUME HeadersInit PROVE HeadersInv
    BY Zenon DEF MessagesInit
  <2> QED BY HeadersAssumption DEF HeadersInit, HeadersInv
<1>2. [MessagesNext]_messageVars => [HeadersNext]_headerVars
  BY Zenon DEF MessagesNext, OnPath, OnHeaders, OnQuery, OnBody, OnReport, messageVars, headerVars
<1> QED BY <1>1, <1>2, HeadersStep, PTL DEF MessagesSpec

\* Whatever the names, their lower case and the operations: a program's headers
\* are pairs of names and values.
THEOREM HeadersTypeCorrect == MessagesSpec => []HeadersTypeOK
<1>1. HeadersInv => HeadersTypeOK
  BY DEF HeadersInv, HeadersTypeOK, Transport
<1> QED BY <1>1, HeadersInductive, PTL

\* Each transport by its name.
LEMMA OverEach ==
    \A hs, f : /\ Over("nodeRequest", hs, f) = OverNodeRequest(hs, f)
               /\ Over("nodeResponse", hs, f) = OverNodeResponse(hs, f)
               /\ Over("lambdaRequest", hs, f) = OverLambdaRequest(hs)
               /\ Over("lambdaResponse", hs, f) = OverLambdaResponse(hs)
               /\ Over("browserRequest", hs, f) = OverBrowserRequest(hs, f)
               /\ Over("xhrResponse", hs, f) = OverXhrResponse(hs)
BY DEF Over

\* The values of headers, and the first of them.
ValuesAre(s, n) ==
    /\ GetHeaderValues(s, n) = [k \in 1..Len(GetHeaders(s, n)) |-> GetHeaders(s, n)[k][2]]
    /\ Len(GetHeaders(s, n)) \in Nat
    /\ GetHeaders(s, n) # <<>> => Len(GetHeaders(s, n)) # 0

\* The values are those of the headers that are found.
LEMMA ValuesFound ==
    ASSUME NEW T, NEW s \in Seq(T), NEW n
    PROVE  ValuesAre(s, n)
<1>1. GetHeaders(s, n) \in Seq(T)
  BY HeadersGot, Zenon
<1>2. DOMAIN GetHeaders(s, n) = 1..Len(GetHeaders(s, n))
  BY <1>1
<1>3. GetHeaderValues(s, n) = [k \in DOMAIN GetHeaders(s, n) |-> GetHeaders(s, n)[k][2]]
  BY Zenon DEF GetHeaderValues
<1>4. Len(GetHeaders(s, n)) \in Nat /\ (GetHeaders(s, n) # <<>> => Len(GetHeaders(s, n)) # 0)
  BY <1>1
<1> QED BY <1>2, <1>3, <1>4, Zenon DEF ValuesAre

\* Whoever finds the same headers reads the first value.
LEMMA SameRead ==
    ASSUME NEW T, NEW s \in Seq(T), NEW n, NEW r, GetHeaders(s, n) # <<>>,
           GetHeaderValues(r, n) = GetHeaderValues(s, n)
    PROVE  ReadAs(r, n, GetHeaders(s, n)[1][2])
<1> DEFINE F == GetHeaders(s, n)
           v == GetHeaderValues(s, n)
<1>1. v = [k \in 1..Len(F) |-> F[k][2]] /\ Len(F) \in Nat /\ Len(F) # 0
  <2>1. ValuesAre(s, n)
    BY ValuesFound, Zenon
  <2> QED BY <2>1, Zenon DEF ValuesAre
<1> HIDE DEF F, v
<1>2. 1 \in 1..Len(F)
  BY <1>1
<1>3. v[1] = F[1][2] /\ v # <<>>
  <2> DEFINE h(k) == F[k][2]
  <2>1. v = [k \in 1..Len(F) |-> h(k)]
    BY <1>1
  <2> HIDE DEF h
  <2>2. v[1] = h(1) /\ v # <<>>
    BY <1>2, <2>1
  <2> QED BY <2>2 DEF h
<1> QED BY <1>3, Zenon DEF ReadAs, F, v

\* Whoever finds the same headers finds the same values.
LEMMA SameValues ==
    ASSUME NEW r, NEW s, NEW n, GetHeaders(r, n) = GetHeaders(s, n)
    PROVE  GetHeaderValues(r, n) = GetHeaderValues(s, n)
BY Zenon DEF GetHeaderValues

-----------------------------------------------------------------------------
\* A header that is carried is read.
LEMMA CarriedRead ==
    ASSUME NEW hs \in Seq(Header), NEW r, Carried(r, hs), NEW n, Len(GetHeaders(hs, n)) = 1,
           GetHeaders(hs, n)[1][2] # <<>>
    PROVE  ReadAs(r, n, GetHeaders(hs, n)[1][2]) /\ HasName(r, n)
<1> DEFINE F == GetHeaders(hs, n)
           v == F[1][2]
<1>1. PICK i : Only(hs, n, i) /\ F[1] = hs[i]
  BY OnlyGot, Zenon
<1>2. hs[i][2] = v /\ v # <<>>
  <2>1. v # <<>>
    OBVIOUS
  <2> HIDE DEF F
  <2> QED BY <1>1, <2>1
<1>3. Filled(hs, n)
  BY <1>1, <1>2 DEF Filled, Only
<1>4. r \in Seq(Made(hs)) /\ HasName(r, n)
  BY <1>3, Zenon DEF Carried
<1>5. ReadAs(r, n, hs[i][2])
  BY <1>1, <1>4, MadeOf, Zenon DEF HasName
<1> QED BY <1>2, <1>4, <1>5

\* Whoever reads the same values reads the same first.
LEMMA ReadAlike ==
    ASSUME NEW r, NEW s, NEW n, NEW v, GetHeaders(r, n) = GetHeaders(s, n), ReadAs(s, n, v)
    PROVE  ReadAs(r, n, v)
BY SameValues, Zenon DEF ReadAs

\* A header written once is read on the other side.
LEMMA OnceRead ==
    ASSUME NEW hs \in Seq(Header), NEW t \in Transport, NEW framing \in Framing, NEW n \in Name,
           Len(GetHeaders(hs, n)) = 1, GetHeaders(hs, n)[1][2] # <<>>,
           t \notin {"fetchResponse", "xhrResponse"}, Lower(n) \notin Overwrites(t)
    PROVE  ReadAs(Over(t, hs, framing), n, GetHeaders(hs, n)[1][2])
<1> DEFINE F == GetHeaders(hs, n)
           v == F[1][2]
           r == Over(t, hs, framing)
<1>1. PICK i : Only(hs, n, i) /\ F[1] = hs[i]
  BY OnlyGot, Zenon
<1>2. F # <<>> /\ hs[i][2] = v /\ v # <<>> /\ Len(F) = 1
  <2>1. Len(F) = 1 /\ v # <<>>
    OBVIOUS
  <2> HIDE DEF F
  <2> QED BY <1>1, <2>1
<1>3. i \in Hits(hs, n) /\ \A a, b \in Hits(hs, n) : hs[a][1] = hs[b][1]
  BY <1>1 DEF Hits, Only
<1>4. ASSUME GetHeaderValues(r, n) = GetHeaderValues(hs, n) PROVE ReadAs(r, n, v)
  BY <1>2, <1>4, SameRead, Zenon
<1>5. CASE t = "nodeRequest"
  <2>1. r = OverNodeRequest(hs, framing)
    BY <1>5, OverEach, Zenon
  <2>2. GetHeaders(NodeWrites(hs), n) = GetHeaders(hs, n) /\ NodeWrites(hs) \in Seq(Made(hs))
    BY <1>2, <1>3, NodeRequestCarries, Zenon
  <2>3. Filled(NodeWrites(hs), n)
    BY <1>2, <2>2, NamedGot, Zenon
  <2>4. GetHeaders(r, n) = GetHeaders(hs, n)
    BY <2>1, <2>2, <2>3, NodeRequestArrives, Zenon
  <2> QED BY <1>4, <2>4, SameValues, Zenon
<1>6. CASE t = "nodeResponse"
  <2>1. r = OverNodeResponse(hs, framing) /\ Lower(n) \notin Overwrites("nodeResponse")
    BY <1>6, OverEach, Zenon
  <2>2. ReadAs(NodeSets(hs), n, v) /\ HasName(NodeSets(hs), n)
    BY NodeResponseCarries, CarriedRead, Zenon
  <2>3. GetHeaders(r, n) = GetHeaders(NodeSets(hs), n)
    BY <2>1, <2>2, NodeResponseArrives, Zenon
  <2> QED BY <2>2, <2>3, ReadAlike, Zenon
<1>7. CASE t = "lambdaRequest"
  <2> DEFINE sub == RemoveHeaders(hs, ToSet(Gateway))
  <2>1. r = OverLambdaRequest(hs) /\ Lower(n) \notin Overwrites("lambdaRequest")
    BY <1>7, OverEach, Zenon
  <2>2. /\ sub \in Seq(Header) /\ Carried(Event(sub), sub) /\ GetHeaders(sub, n) = F
        /\ GetHeaders(r, n) = GetHeaders(Event(sub), n)
    BY <2>1, LambdaRequestArrives, Zenon
  <2> HIDE DEF sub, F
  <2>3. Len(GetHeaders(sub, n)) = 1 /\ GetHeaders(sub, n)[1][2] # <<>>
    BY <1>2, <2>2
  <2>4. ReadAs(Event(sub), n, GetHeaders(sub, n)[1][2])
    BY <2>2, <2>3, CarriedRead, Zenon
  <2>5. GetHeaders(sub, n)[1][2] = v
    BY <2>2
  <2> HIDE DEF r, v
  <2>6. ReadAs(Event(sub), n, v)
    BY <2>4, <2>5
  <2> DEFINE e == Event(sub)
  <2>7. GetHeaders(r, n) = GetHeaders(e, n) /\ ReadAs(e, n, v)
    BY <2>2, <2>6
  <2> HIDE DEF e
  <2>8. ReadAs(r, n, v)
    BY <2>7, ReadAlike, Zenon
  <2> QED BY <2>8 DEF r, v, F
<1>8. CASE t = "lambdaResponse"
  <2>1. GetHeaders(r, n) = WithTrue(F)
    BY <1>3, <1>8, OverEach, LambdaResponseCarries, Zenon
  <2>2. WithTrue(F) = F
    BY <1>2, Zenon DEF WithTrue
  <2>3. GetHeaders(r, n) = GetHeaders(hs, n)
    <3> HIDE DEF r
    <3> QED BY <2>1, <2>2
  <2>4. GetHeaderValues(r, n) = GetHeaderValues(hs, n)
    BY <2>3, SameValues, Zenon
  <2> QED BY <1>4, <2>4
<1>9. CASE t = "browserRequest"
  <2>1. r = OverBrowserRequest(hs, framing) /\ Lower(n) \notin Forbidden
    <3>1. Overwrites("browserRequest") = Forbidden
      BY DEF Overwrites
    <3> QED BY <1>9, <3>1, OverEach, Zenon
  <2>2. GetHeaderValues(r, n) = <<Combine(GetHeaderValues(hs, n))>>
    BY <1>2, <2>1, BrowserRequestCarries, Zenon
  <2>3. GetHeaderValues(hs, n) = <<v>>
    <3>1. GetHeaderValues(hs, n) = [k \in 1..Len(F) |-> F[k][2]] /\ Len(F) = 1
      <4>1. ValuesAre(hs, n)
        BY ValuesFound, Zenon
      <4> QED BY <4>1, Zenon DEF ValuesAre
    <3> DEFINE f == [k \in 1..1 |-> F[k][2]]
    <3>3. GetHeaderValues(hs, n) = f
      <4> DEFINE h(k) == F[k][2]
      <4>1. GetHeaderValues(hs, n) = [k \in 1..Len(F) |-> h(k)] /\ Len(F) = 1
        BY <3>1
      <4> HIDE DEF h, F
      <4>2. GetHeaderValues(hs, n) = [k \in 1..1 |-> h(k)]
        BY <4>1
      <4> QED BY <4>2 DEF h
    <3>4. f = <<f[1]>> /\ f[1] = F[1][2]
      <4> HIDE DEF F
      <4> QED OBVIOUS
    <3> HIDE DEF f
    <3> QED BY <3>3, <3>4
  <2>4. GetHeaderValues(r, n) = <<v>>
    BY <2>2, <2>3, CombineOne, Zenon
  <2> QED BY <1>4, <2>3, <2>4, Zenon
<1>10. t \in {"nodeRequest", "nodeResponse", "lambdaRequest", "lambdaResponse", "browserRequest"}
  BY DEF Transport
<1> HIDE DEF r, v
<1> QED BY <1>5, <1>6, <1>7, <1>8, <1>9, <1>10

\* Headers that are written several times are read as RepeatsArrive says.
LEMMA RepeatsRead ==
    ASSUME HeadersInv, transport # "none", NEW n \in Name
    PROVE  RepeatsArrive(n)
<1> DEFINE F == GetHeaders(sent, n)
           before == GetHeaderValues(sent, n)
           after == GetHeaderValues(headers, n)
<1>1. sent \in Seq(Header) /\ \E framing \in Framing : headers = Over(transport, sent, framing)
  BY DEF HeadersInv
<1>2. PICK framing \in Framing : headers = Over(transport, sent, framing)
  BY <1>1
<1>3. SUFFICES ASSUME before # <<>>
               PROVE  /\ transport = "nodeRequest" /\ SpelledAlike(sent, n) /\ before[1] # <<>> =>
                            after = before
                      /\ transport = "lambdaResponse" /\ SpelledAlike(sent, n) /\ Len(before) > 1 =>
                            after = <<<<True>>>> \o Tail(before)
                      /\ transport = "browserRequest" /\ Lower(n) \notin Forbidden =>
                            after = <<Combine(before)>>
                      /\ transport = "xhrResponse" /\ Lower(n) \notin Hidden =>
                            after = <<Append(Combine(before), Cr)>>
  BY Zenon DEF RepeatsArrive
<1>4. before = [k \in 1..Len(F) |-> F[k][2]] /\ Len(F) \in Nat /\ F \in Seq(Header)
  <2>1. ValuesAre(sent, n)
    BY <1>1, ValuesFound, Zenon
  <2>2. F \in Seq(Header)
    BY <1>1, HeadersGot, Zenon
  <2> QED BY <2>1, <2>2, Zenon DEF ValuesAre
<1>5. F # <<>>
  <2> SUFFICES ASSUME F = <<>> PROVE FALSE
    OBVIOUS
  <2>1. before = [k \in 1..0 |-> F[k][2]]
    <3> DEFINE h(k) == F[k][2]
    <3>1. before = [k \in 1..Len(F) |-> h(k)] /\ Len(F) = 0
      BY <1>4
    <3> HIDE DEF h, F
    <3>2. before = [k \in 1..0 |-> h(k)]
      BY <3>1
    <3> QED BY <3>2 DEF h
  <2>2. [k \in 1..0 |-> F[k][2]] = <<>>
    OBVIOUS
  <2> HIDE DEF F
  <2> QED BY <1>3, <2>1, <2>2
<1>6. PICK x \in Hits(sent, n) : TRUE
  <2>1. HasName(sent, n)
    BY <1>1, <1>5, NamedGot, Zenon
  <2> QED BY <2>1 DEF HasName, Hits
<1>7. SpelledAlike(sent, n) => \A i, j \in Hits(sent, n) : sent[i][1] = sent[j][1]
  <2>1. DOMAIN sent = 1..Len(sent)
    BY <1>1
  <2> QED BY <2>1, Zenon DEF SpelledAlike, Hits
<1>8. ASSUME transport = "nodeRequest", SpelledAlike(sent, n), before[1] # <<>>
      PROVE  after = before
  <2>1. F[1][2] # <<>>
    <3>1. ReadAs(sent, n, F[1][2])
      BY <1>1, <1>5, SameRead, Zenon
    <3> QED BY <1>8, <3>1, Zenon DEF ReadAs
  <2>2. GetHeaders(NodeWrites(sent), n) = F /\ NodeWrites(sent) \in Seq(Made(sent))
    BY <1>1, <1>5, <1>7, <1>8, <2>1, NodeRequestCarries, Zenon
  <2>3. Filled(NodeWrites(sent), n)
    BY <1>5, <2>1, <2>2, NamedGot, Zenon
  <2>4. headers = OverNodeRequest(sent, framing)
    BY <1>2, <1>8, OverEach, Zenon
  <2>5. GetHeaders(headers, n) = F
    BY <1>1, <2>2, <2>3, <2>4, NodeRequestArrives, Zenon
  <2> QED BY <2>5, SameValues, Zenon
<1>9. ASSUME transport = "lambdaResponse", SpelledAlike(sent, n), Len(before) > 1
      PROVE  after = <<<<True>>>> \o Tail(before)
  <2>1. headers = OverLambdaResponse(sent)
    BY <1>2, <1>9, OverEach, Zenon
  <2>2. GetHeaders(headers, n) = WithTrue(F)
    BY <1>1, <1>6, <1>7, <1>9, <2>1, LambdaResponseCarries, Zenon
  <2>3. after = [k \in DOMAIN WithTrue(F) |-> WithTrue(F)[k][2]]
    BY <2>2, Zenon DEF GetHeaderValues
  <2>4. Len(F) > 1
    <3> HIDE DEF F
    <3>1. Len(before) = Len(F)
      BY <1>4
    <3> QED BY <1>9, <3>1
  <2> HIDE DEF F, before
  <2>5. [k \in DOMAIN WithTrue(F) |-> WithTrue(F)[k][2]] = <<<<True>>>> \o Tail(before)
    BY <1>4, <2>4, TrueValues, Zenon
  <2> QED BY <2>3, <2>5, Zenon
<1>10. ASSUME transport = "browserRequest", Lower(n) \notin Forbidden
       PROVE  after = <<Combine(before)>>
  <2>1. headers = OverBrowserRequest(sent, framing)
    BY <1>2, <1>10, OverEach, Zenon
  <2>2. GetHeaderValues(OverBrowserRequest(sent, framing), n) = <<Combine(GetHeaderValues(sent, n))>>
    BY <1>1, <1>5, <1>10, BrowserRequestCarries, Zenon
  <2> QED BY <2>1, <2>2
<1>11. ASSUME transport = "xhrResponse", Lower(n) \notin Hidden
       PROVE  after = <<Append(Combine(before), Cr)>>
  BY <1>1, <1>2, <1>5, <1>11, OverEach, XhrResponseCarries, Zenon
<1> QED BY <1>8, <1>9, <1>10, <1>11, Zenon

\* Over node a name with values, and none of them empty, has no other.
LEMMA NodeKeepsNames ==
    ASSUME NEW hs \in Seq(Header), NEW framing \in Framing, NEW n,
           ToSet(GetHeaderValues(hs, n)) # {}, <<>> \notin ToSet(GetHeaderValues(hs, n))
    PROVE  /\ ToSet(GetHeaderValues(OverNodeRequest(hs, framing), n)) \subseteq ToSet(GetHeaderValues(hs, n))
           /\ Lower(n) \notin Overwrites("nodeResponse") =>
                 ToSet(GetHeaderValues(OverNodeResponse(hs, framing), n)) \subseteq ToSet(GetHeaderValues(hs, n))
<1>1. ToSet(GetHeaderValues(hs, n)) = {hs[i][2] : i \in Hits(hs, n)}
  BY ValuesHit, Zenon
<1>2. HasName(hs, n) /\ Filled(hs, n) /\ \A i \in Hits(hs, n) : hs[i][2] # <<>>
  BY <1>1 DEF Hits, HasName, Filled
<1>3. ToSet(GetHeaderValues(OverNodeRequest(hs, framing), n)) \subseteq ToSet(GetHeaderValues(hs, n))
  <2> DEFINE w == NodeWrites(hs)
  <2>1. w \in Seq(Made(hs)) /\ HasName(w, n)
    BY <1>2, NodeRequestCarries, Zenon
  <2> HIDE DEF w
  <2>2. Filled(w, n)
    <3>1. PICK i \in 1..Len(w) : Lower(w[i][1]) = Lower(n)
      BY <2>1 DEF HasName
    <3>2. w[i] \in Made(hs)
      BY <2>1
    <3>3. PICK j \in 1..Len(hs) : w[i] = hs[j]
      BY <3>2 DEF Made
    <3>4. j \in Hits(hs, n)
      BY <3>1, <3>3 DEF Hits
    <3> QED BY <1>2, <3>1, <3>3, <3>4 DEF Filled
  <2>3. GetHeaders(OverNodeRequest(hs, framing), n) = GetHeaders(w, n)
    BY <2>2, NodeRequestArrives, Zenon DEF w
  <2>4. ToSet(GetHeaderValues(w, n)) \subseteq ToSet(GetHeaderValues(hs, n))
    BY <2>1, MadeOf, Zenon
  <2>5. GetHeaderValues(OverNodeRequest(hs, framing), n) = GetHeaderValues(w, n)
    BY <2>3, SameValues, Zenon
  <2> QED BY <2>4, <2>5
<1>4. ASSUME Lower(n) \notin Overwrites("nodeResponse")
      PROVE  ToSet(GetHeaderValues(OverNodeResponse(hs, framing), n)) \subseteq ToSet(GetHeaderValues(hs, n))
  <2> DEFINE w == NodeSets(hs)
  <2>1. w \in Seq(Made(hs)) /\ HasName(w, n)
    BY <1>2, NodeResponseCarries, Zenon DEF Carried
  <2> HIDE DEF w
  <2>2. GetHeaders(OverNodeResponse(hs, framing), n) = GetHeaders(w, n)
    BY <1>4, <2>1, NodeResponseArrives, Zenon DEF w
  <2>3. ToSet(GetHeaderValues(w, n)) \subseteq ToSet(GetHeaderValues(hs, n))
    BY <2>1, MadeOf, Zenon
  <2>4. GetHeaderValues(OverNodeResponse(hs, framing), n) = GetHeaderValues(w, n)
    BY <2>2, SameValues, Zenon
  <2> QED BY <2>3, <2>4
<1> QED BY <1>3, <1>4

\* Nothing is invented but what NoneInvented says.
LEMMA NoneTurnsUp ==
    ASSUME HeadersInv, transport # "none", NEW n \in Name
    PROVE  NoneInvented(n)
<1> DEFINE before == ToSet(GetHeaderValues(sent, n))
           after == ToSet(GetHeaderValues(headers, n))
           N == Supplies(transport) \union Overwrites(transport)
<1>1. sent \in Seq(Header) /\ \E framing \in Framing : headers = Over(transport, sent, framing)
  BY DEF HeadersInv
<1>2. PICK framing \in Framing : headers = Over(transport, sent, framing)
  BY <1>1
<1>3. SUFFICES ASSUME transport \in {"nodeRequest", "nodeResponse", "lambdaRequest"}
               PROVE  /\ after \subseteq before \union {<<Itself>>}
                      /\ <<Itself>> \in after \ before =>
                            \/ Lower(n) \in Overwrites(transport)
                            \/ Lower(n) \in Supplies(transport) /\ (before = {} \/ <<>> \in before)
  BY Zenon DEF NoneInvented
<1>4. N \in SUBSET OwnNames
  BY <1>3, OwnLists DEF Supplies, Overwrites
<1>5. headers \in Seq(Made(sent) \union Owned(N))
  <2>1. ASSUME transport = "nodeRequest" PROVE headers \in Seq(Made(sent) \union Owned(N))
    <3>1. N = Supplies("nodeRequest")
      BY <2>1 DEF Overwrites
    <3>2. headers = OverNodeRequest(sent, framing)
      BY <1>2, <2>1, OverEach, Zenon
    <3> HIDE DEF N
    <3>3. OverNodeRequest(sent, framing) \in Seq(Made(sent) \union Owned(Supplies("nodeRequest")))
      BY <1>1, NodeRequestArrives, Zenon
    <3> QED BY <3>1, <3>2, <3>3
  <2>2. ASSUME transport = "nodeResponse" PROVE headers \in Seq(Made(sent) \union Owned(N))
    <3>1. N = Supplies("nodeResponse") \union Overwrites("nodeResponse")
      BY <2>2
    <3>2. headers = OverNodeResponse(sent, framing)
      BY <1>2, <2>2, OverEach, Zenon
    <3> HIDE DEF N
    <3>3. OverNodeResponse(sent, framing) \in
            Seq(Made(sent) \union Owned(Supplies("nodeResponse") \union Overwrites("nodeResponse")))
      BY <1>1, NodeResponseArrives, Zenon
    <3> QED BY <3>1, <3>2, <3>3
  <2>3. ASSUME transport = "lambdaRequest" PROVE headers \in Seq(Made(sent) \union Owned(N))
    <3>1. N = Overwrites("lambdaRequest")
      BY <2>3 DEF Supplies
    <3>2. headers = OverLambdaRequest(sent)
      BY <1>2, <2>3, OverEach, Zenon
    <3> HIDE DEF N
    <3>3. OverLambdaRequest(sent) \in Seq(Made(sent) \union Owned(Overwrites("lambdaRequest")))
      BY <1>1, LambdaRequestArrives, Zenon
    <3> QED BY <3>1, <3>2, <3>3
  <2> HIDE DEF N
  <2> QED BY <1>3, <2>1, <2>2, <2>3, Zenon
<1>6. after \subseteq before \union {<<Itself>>} /\ (Lower(n) \notin N => after \subseteq before)
  <2> HIDE DEF N
  <2> QED BY <1>1, <1>4, <1>5, Brought, Zenon
<1>7. ASSUME Lower(n) \in Supplies(transport), Lower(n) \notin Overwrites(transport), before # {}, <<>> \notin before
      PROVE  after \subseteq before
  <2>1. CASE transport = "nodeRequest"
    BY <1>1, <1>2, <1>7, <2>1, OverEach, NodeKeepsNames, Zenon
  <2>2. CASE transport = "nodeResponse"
    BY <1>1, <1>2, <1>7, <2>2, OverEach, NodeKeepsNames, Zenon
  <2>3. CASE transport = "lambdaRequest"
    BY <1>7, <2>3 DEF Supplies
  <2> QED BY <1>3, <2>1, <2>2, <2>3
<1> HIDE DEF before, after
<1> QED BY <1>6, <1>7 DEF N

\* What each name finds after the transport.
LEMMA NamesArrive ==
    ASSUME HeadersInv, transport # "none", NEW n \in Name
    PROVE  OnceArrives(n) /\ RepeatsArrive(n) /\ NoneInvented(n)
<1>1. sent \in Seq(Header) /\ transport \in Transport /\ \E framing \in Framing : headers = Over(transport, sent, framing)
  BY DEF HeadersInv
<1>2. OnceArrives(n)
  <2> SUFFICES ASSUME Len(GetHeaders(sent, n)) = 1, GetHeaders(sent, n)[1][2] # <<>>,
                      transport \notin {"fetchResponse", "xhrResponse"},
                      Lower(n) \notin Overwrites(transport)
               PROVE  /\ GetHeaderValues(headers, n) # <<>>
                      /\ GetHeaderValues(headers, n)[1] = GetHeaderValues(sent, n)[1]
    BY Zenon DEF OnceArrives
  <2>1. ReadAs(headers, n, GetHeaders(sent, n)[1][2])
    BY <1>1, OnceRead, Zenon
  <2>2. GetHeaders(sent, n) # <<>>
    <3> DEFINE F == GetHeaders(sent, n)
    <3>1. Len(F) = 1
      OBVIOUS
    <3> HIDE DEF F
    <3>2. F # <<>>
      BY <3>1
    <3> QED BY <3>2 DEF F
  <2>3. ReadAs(sent, n, GetHeaders(sent, n)[1][2])
    BY <1>1, <2>2, SameRead, Zenon
  <2> QED BY <2>1, <2>3, Zenon DEF ReadAs
<1> QED BY <1>2, RepeatsRead, NoneTurnsUp

\* Whatever a program does to its headers, the program on the other side of any
\* transport reads what was meant, but where OnceArrives and RepeatsArrive say
\* otherwise.
THEOREM HeadersCross == MessagesSpec => []HeadersArrive
<1>1. HeadersInv => HeadersArrive
  <2> SUFFICES ASSUME HeadersInv, transport # "none", NEW n \in Name
               PROVE  OnceArrives(n) /\ RepeatsArrive(n) /\ NoneInvented(n)
    BY Zenon DEF HeadersArrive
  <2> QED BY NamesArrive, Zenon
<1> QED BY <1>1, HeadersInductive, PTL

-----------------------------------------------------------------------------
\* What the assumption says of characters, one by one.
LEMMA Letters ==
    /\ " " \in Letter /\ "+" \in Letter /\ "=" \in Letter /\ "%" \in Letter /\ "undefined" \in Letter
    /\ "%20" \notin Letter /\ "%2B" \notin Letter /\ "%3D" \notin Letter /\ "%25" \notin Letter
    /\ "%20" \in Unit /\ "%2B" \in Unit /\ "%3D" \in Unit /\ "%25" \in Unit
    /\ Letter \subseteq Unit
BY QueryAssumption DEF Unit, Escapes

\* An escaped character is no = and no plus, and is read as what it was.
LEMMA EscapeIs ==
    ASSUME NEW c \in Letter
    PROVE  /\ Escape(c) \in Unit /\ Escape(c) # "=" /\ Escape(c) # "+"
           /\ Unescape(Escape(c)) = c
BY Letters DEF Escape, Unescape

\* What is unescaped is a character.
LEMMA UnescapeIs == ASSUME NEW u \in Unit PROVE Unescape(u) \in Letter
BY Letters DEF Unescape, Unit, Escapes

-----------------------------------------------------------------------------
\* p is the place of the first x in s.
IsPlace(s, x, p) ==
    /\ p \in 1..(Len(s) + 1)
    /\ p <= Len(s) => s[p] = x
    /\ \A j \in 1..Len(s) : j < p => s[j] # x

\* Place finds it.
LEMMA PlaceIs ==
    ASSUME NEW T, NEW s \in Seq(T), NEW x
    PROVE  IsPlace(s, x, Place(s, x))
<1> DEFINE P == {i \in DOMAIN s : s[i] = x} \union {Len(s) + 1}
<1>1. Len(s) \in Nat /\ DOMAIN s = 1..Len(s)
  OBVIOUS
<1>2. P \in SUBSET Nat /\ P # {}
  BY <1>1
<1>3. \E m \in P : \A k \in P : m <= k
  <2> HIDE DEF P
  <2> QED BY <1>2, Smallest
<1>4. Place(s, x) = CHOOSE i \in P : \A j \in P : i <= j
  BY Zenon DEF Place
<1>5. Place(s, x) \in P /\ \A j \in P : Place(s, x) <= j
  <2> HIDE DEF P
  <2> QED BY <1>3, <1>4
<1> QED BY <1>1, <1>5 DEF IsPlace

\* There is no other.
LEMMA OnePlace ==
    ASSUME NEW T, NEW s \in Seq(T), NEW x, NEW p, IsPlace(s, x, p)
    PROVE  Place(s, x) = p
<1> DEFINE r == Place(s, x)
<1>1. IsPlace(s, x, r)
  BY PlaceIs, Zenon
<1>2. Len(s) \in Nat
  OBVIOUS
<1> HIDE DEF r
<1>3. r = p
  BY <1>1, <1>2 DEF IsPlace
<1> QED BY <1>3 DEF r

\* Nothing in s is x.
LEMMA NoPlace ==
    ASSUME NEW T, NEW s \in Seq(T), NEW x, \A i \in 1..Len(s) : s[i] # x
    PROVE  Place(s, x) = Len(s) + 1
<1>1. IsPlace(s, x, Len(s) + 1)
  <2>1. Len(s) \in Nat
    OBVIOUS
  <2> QED BY <2>1 DEF IsPlace
<1> QED BY <1>1, OnePlace, Zenon

-----------------------------------------------------------------------------
\* s is a text as encodeURIComponent writes it: others read it as t.
Encodes(s, t) ==
    /\ s \in Seq(Unit) /\ Len(s) = Len(t)
    /\ \A i \in 1..Len(s) : s[i] # "="
    /\ \A i, j \in Pluses(s) : i = j
    /\ OthersDecode(s) = t

\* That is how encodeURIComponent writes, the first space being a plus.
LEMMA EncodeIs ==
    ASSUME NEW t \in Seq(Letter)
    PROVE  Encodes(Encode(t), t)
<1> DEFINE s == Encode(t)
           f == Place(t, " ")
           n == Len(t)
<1>1. n \in Nat /\ DOMAIN t = 1..n /\ t = [i \in 1..n |-> t[i]] /\ \A i \in 1..n : t[i] \in Letter
  OBVIOUS
<1>2. IsPlace(t, " ", f)
  BY PlaceIs, Zenon
<1>3. s = [i \in 1..n |-> IF i = f THEN "+" ELSE Escape(t[i])]
  <2>1. s = [i \in DOMAIN t |-> IF i = f THEN "+" ELSE Escape(t[i])]
    BY Zenon DEF Encode
  <2> QED BY <1>1, <2>1, Zenon
<1> HIDE DEF f, n
<1>4. \A i \in 1..n : s[i] = (IF i = f THEN "+" ELSE Escape(t[i]))
  <2> HIDE DEF s
  <2> QED BY <1>3
<1>5. \A i \in 1..n : /\ s[i] \in Unit /\ s[i] # "="
                      /\ s[i] = "+" => i = f
                      /\ i = f => t[i] = " "
                      /\ (IF s[i] = "+" THEN " " ELSE Unescape(s[i])) = t[i]
  <2> TAKE i \in 1..n
  <2>1. t[i] \in Letter
    BY <1>1
  <2>2. /\ Escape(t[i]) \in Unit /\ Escape(t[i]) # "=" /\ Escape(t[i]) # "+"
        /\ Unescape(Escape(t[i])) = t[i]
    BY <2>1, EscapeIs, Zenon
  <2>3. i = f => t[i] = " "
    <3>1. f <= n => t[f] = " "
      BY <1>2, Zenon DEF IsPlace, n
    <3>2. i <= n
      BY <1>1
    <3> QED BY <3>1, <3>2, Zenon
  <2>4. "+" \in Unit
    BY Letters
  <2> DEFINE e == Escape(t[i])
  <2> HIDE DEF s, e
  <2>5. s[i] = (IF i = f THEN "+" ELSE e)
    BY <1>4, Zenon DEF e
  <2>6. e \in Unit /\ e # "=" /\ e # "+" /\ Unescape(e) = t[i]
    BY <2>2 DEF e
  <2>7. CASE i = f
    <3>1. s[i] = "+" /\ "+" # "="
      BY <2>5, <2>7
    <3> QED BY <2>3, <2>4, <2>7, <3>1, Zenon
  <2>8. CASE i # f
    <3>1. s[i] = e
      BY <2>5, <2>8
    <3> QED BY <2>6, <2>8, <3>1, Zenon
  <2> QED BY <2>7, <2>8, Zenon
<1> HIDE DEF s
<1>6. s \in Seq(Unit) /\ Len(s) = n /\ DOMAIN s = 1..n
  <2>1. s \in [1..n -> Unit]
    BY <1>3, <1>5
  <2>2. s \in Seq(Unit)
    BY <1>1, <2>1, FunctionIsSeq, Zenon
  <2> QED BY <1>1, <2>1, <2>2
<1>7. OthersDecode(s) = [i \in 1..n |-> IF s[i] = "+" THEN " " ELSE Unescape(s[i])]
  BY <1>6, Zenon DEF OthersDecode
<1>8. OthersDecode(s) = t
  <2>1. [i \in 1..n |-> IF s[i] = "+" THEN " " ELSE Unescape(s[i])] = [i \in 1..n |-> t[i]]
    BY <1>5
  <2> QED BY <1>1, <1>7, <2>1, Zenon
<1>9. \A i, j \in Pluses(s) : i = j
  BY <1>5, <1>6 DEF Pluses
<1>10. Len(s) = Len(t)
  BY <1>6 DEF n
<1>11. Encodes(s, t)
  BY <1>5, <1>6, <1>8, <1>9, <1>10 DEF Encodes
<1> QED BY <1>11 DEF s

\* What is decoded is made of characters, and with no second plus it is what others read.
Decodes(s) ==
    /\ Decode(s) \in Seq(Letter) /\ Len(Decode(s)) = Len(s)
    /\ (\A i, j \in Pluses(s) : i = j) => Decode(s) = OthersDecode(s)

\* Both hold of what is made of units.
LEMMA DecodeIs == ASSUME NEW s \in Seq(Unit) PROVE Decodes(s)
<1> DEFINE f == Place(s, "+")
           n == Len(s)
           d == Decode(s)
<1>1. n \in Nat /\ DOMAIN s = 1..n /\ \A i \in 1..n : s[i] \in Unit
  OBVIOUS
<1>2. IsPlace(s, "+", f)
  BY PlaceIs, Zenon
<1>3. d = [i \in 1..n |-> IF i = f THEN " " ELSE Unescape(s[i])]
  <2>1. d = [i \in DOMAIN s |-> IF i = f THEN " " ELSE Unescape(s[i])]
    BY Zenon DEF Decode
  <2> QED BY <1>1, <2>1, Zenon
<1>4. OthersDecode(s) = [i \in 1..n |-> IF s[i] = "+" THEN " " ELSE Unescape(s[i])]
  BY <1>1, Zenon DEF OthersDecode
<1> HIDE DEF d
<1>5. d \in Seq(Letter) /\ Len(d) = n
  <2>1. \A i \in 1..n : Unescape(s[i]) \in Letter
    BY <1>1, UnescapeIs, Zenon
  <2>2. " " \in Letter
    BY Letters
  <2> HIDE DEF f, n
  <2>3. d \in [1..n -> Letter]
    BY <1>3, <2>1, <2>2
  <2>4. d \in Seq(Letter)
    BY <1>1, <2>3, FunctionIsSeq, Zenon
  <2> QED BY <1>1, <2>3, <2>4
<1>6. ASSUME \A i, j \in Pluses(s) : i = j PROVE d = OthersDecode(s)
  <2>1. \A i \in 1..n : i = f <=> s[i] = "+"
    <3>1. \A i \in 1..n : i = f => s[i] = "+"
      BY <1>1, <1>2 DEF IsPlace
    <3>2. ASSUME NEW i \in 1..n, s[i] = "+" PROVE i = f
      <4>1. f \in 1..n
        BY <1>1, <1>2, <3>2 DEF IsPlace
      <4>2. i \in Pluses(s) /\ f \in Pluses(s)
        BY <1>1, <3>1, <3>2, <4>1 DEF Pluses
      <4> QED BY <1>6, <4>2, Zenon
    <3> QED BY <3>1, <3>2
  <2> HIDE DEF f, n
  <2> QED BY <1>3, <1>4, <2>1
<1>7. Decodes(s)
  BY <1>5, <1>6, Zenon DEF d, n, Decodes
<1> QED BY <1>7

-----------------------------------------------------------------------------
\* What stands before the first = and what behind it.
Parts(p, e, b, k) == NamePart(p) = e /\ Behind(p) = b /\ Place(p, "=") = k

\* Without an = all is name.
LEMMA PartsAlone ==
    ASSUME NEW s \in Seq(Unit), \A i \in 1..Len(s) : s[i] # "="
    PROVE  Parts(s, s, <<>>, Len(s) + 1)
<1>1. Place(s, "=") = Len(s) + 1
  BY NoPlace, Zenon
<1>2. SubSeq(s, 1, Len(s) + 1 - 1) = s
  <2>1. Len(s) + 1 - 1 = Len(s)
    OBVIOUS
  <2>2. SubSeq(s, 1, Len(s)) = s
    BY SubSeqFull
  <2> QED BY <2>1, <2>2, Zenon
<1>3. SubSeq(s, Len(s) + 1 + 1, Len(s)) = <<>>
  <2> DEFINE n == Len(s)
             k == n + 1 + 1
  <2>1. n \in Int /\ k \in Int /\ n < k
    OBVIOUS
  <2> HIDE DEF n, k
  <2>2. SubSeq(s, k, n) = <<>>
    BY <2>1, SubSeqEmpty, Zenon
  <2> QED BY <2>2 DEF n, k
<1>4. NamePart(s) = SubSeq(s, 1, Place(s, "=") - 1) /\ Behind(s) = SubSeq(s, Place(s, "=") + 1, Len(s))
  BY Zenon DEF NamePart, Behind
<1>5. NamePart(s) = s /\ Behind(s) = <<>>
  <2> DEFINE k == Len(s) + 1
             h == k - 1
             l == k + 1
             r == Place(s, "=")
  <2>1. NamePart(s) = SubSeq(s, 1, r - 1) /\ Behind(s) = SubSeq(s, r + 1, Len(s)) /\ r = k
    BY <1>1, <1>4
  <2>2. SubSeq(s, 1, h) = s /\ SubSeq(s, l, Len(s)) = <<>>
    BY <1>2, <1>3
  <2> HIDE DEF k, r
  <2> QED BY <2>1, <2>2
<1> QED BY <1>1, <1>5, Zenon DEF Parts

\* A letter alone.
LEMMA OneLetter ==
    ASSUME NEW T, NEW c \in T
    PROVE  <<c>> \in Seq(T) /\ Len(<<c>>) = 1 /\ <<c>>[1] = c
OBVIOUS

\* One letter between two texts.
Parted(p, e, q, b) ==
    /\ Len(p) = Len(e) + 1 + Len(b)
    /\ \A i \in 1..Len(e) : p[i] = e[i]
    /\ p[Len(e) + 1] = q[1]
    /\ \A i \in 1..Len(b) : p[Len(e) + 1 + i] = b[i]

\* So it is where one is put between.
LEMMA PartedIs ==
    ASSUME NEW T, NEW e \in Seq(T), NEW q \in Seq(T), Len(q) = 1, NEW b \in Seq(T)
    PROVE  Parted(e \o (q \o b), e, q, b) /\ e \o (q \o b) \in Seq(T)
<1> DEFINE f == q \o b
           p == e \o f
           l == Len(e)
           m == Len(b)
<1>1. l \in Nat /\ m \in Nat
  OBVIOUS
<1>2. /\ f \in Seq(T) /\ Len(f) = Len(q) + Len(b)
      /\ \A i \in 1..Len(f) : f[i] = IF i <= Len(q) THEN q[i] ELSE b[i - Len(q)]
  <2>1. f \in Seq(T) /\ Joint(f, q, b)
    BY JointIs, Zenon
  <2> HIDE DEF f
  <2> QED BY <2>1 DEF Joint
<1> HIDE DEF f
<1>3. /\ p \in Seq(T) /\ Len(p) = Len(e) + Len(f)
      /\ \A i \in 1..Len(p) : p[i] = IF i <= Len(e) THEN e[i] ELSE f[i - Len(e)]
  <2>1. f \in Seq(T)
    BY <1>2, Zenon
  <2>2. p \in Seq(T) /\ Joint(p, e, f)
    BY <2>1, JointIs, Zenon
  <2> HIDE DEF p
  <2> QED BY <2>2 DEF Joint
<1> HIDE DEF p, l, m
<1>4. Len(f) = 1 + m /\ \A i \in 1..Len(f) : f[i] = IF i <= 1 THEN q[i] ELSE b[i - 1]
  BY <1>2 DEF m
<1>5. Len(p) = l + 1 + m /\ \A i \in 1..Len(p) : p[i] = IF i <= l THEN e[i] ELSE f[i - l]
  BY <1>1, <1>3, <1>4 DEF l
<1>6. \A i \in 1..l : p[i] = e[i]
  BY <1>1, <1>5
<1>7. p[l + 1] = q[1]
  <2> DEFINE k == l + 1
  <2>1. k \in 1..Len(p) /\ ~(k <= l) /\ k - l = 1 /\ 1 \in 1..Len(f) /\ 1 <= 1
    BY <1>1, <1>4, <1>5
  <2> HIDE DEF k
  <2>2. p[k] = f[k - l] /\ f[1] = q[1]
    BY <1>4, <1>5, <2>1
  <2> QED BY <2>1, <2>2 DEF k
<1>8. \A i \in 1..m : p[l + 1 + i] = b[i]
  <2> TAKE i \in 1..m
  <2> DEFINE k == l + 1 + i
             h == 1 + i
  <2>1. ~(k <= l) /\ k \in 1..Len(p) /\ k - l = h /\ h \in 1..Len(f) /\ ~(h <= 1) /\ h - 1 = i
    BY <1>1, <1>4, <1>5
  <2> HIDE DEF k, h
  <2>2. p[k] = f[k - l] /\ f[h] = b[h - 1]
    BY <1>4, <1>5, <2>1
  <2> QED BY <2>1, <2>2 DEF k
<1>9. Parted(p, e, q, b) /\ p \in Seq(T)
  BY <1>3, <1>5, <1>6, <1>7, <1>8, Zenon DEF Parted, l, m
<1> QED BY <1>9 DEF p, f

\* With one = it is the place where the pair is parted.
LEMMA PartsOf ==
    ASSUME NEW e \in Seq(Unit), NEW b \in Seq(Unit), \A i \in 1..Len(e) : e[i] # "="
    PROVE  /\ Parts(e \o (<<"=">> \o b), e, b, Len(e) + 1)
           /\ e \o (<<"=">> \o b) \in Seq(Unit)
           /\ Len(e \o (<<"=">> \o b)) = Len(e) + 1 + Len(b)
<1> DEFINE q == <<"=">>
           p == e \o (q \o b)
           l == Len(e)
           m == Len(b)
<1>0. q \in Seq(Unit) /\ Len(q) = 1 /\ q[1] = "="
  <2>1. "=" \in Unit
    BY Letters
  <2> QED BY <2>1, OneLetter, Zenon
<1> HIDE DEF q
<1>1. l \in Nat /\ m \in Nat
  OBVIOUS
<1>2. Parted(p, e, q, b) /\ p \in Seq(Unit)
  BY <1>0, PartedIs, Zenon
<1>3. p \in Seq(Unit) /\ Len(p) = l + 1 + m
  BY <1>2, Zenon DEF Parted
<1>4. /\ \A i \in 1..l : p[i] = e[i]
      /\ p[l + 1] = "="
      /\ \A i \in 1..m : p[l + 1 + i] = b[i]
  <2>1. p[l + 1] = q[1]
    BY <1>2, Zenon DEF Parted
  <2>2. p[l + 1] = "="
    BY <1>0, <2>1, Zenon
  <2> QED BY <1>2, <2>2, Zenon DEF Parted
<1> HIDE DEF p
<1>5. Place(p, "=") = l + 1
  <2>1. IsPlace(p, "=", l + 1)
    <3>1. l + 1 \in 1..(Len(p) + 1)
      BY <1>1, <1>3
    <3>2. \A j \in 1..Len(p) : j < l + 1 => p[j] # "="
      <4> TAKE j \in 1..Len(p)
      <4> SUFFICES ASSUME j < l + 1 PROVE p[j] # "="
        OBVIOUS
      <4>1. j \in 1..l
        BY <1>1, <1>3
      <4> QED BY <1>4, <4>1, Zenon DEF l
    <3> QED BY <1>4, <3>1, <3>2, Zenon DEF IsPlace
  <2> QED BY <1>3, <2>1, OnePlace, Zenon
<1>6. NamePart(p) = e
  <2>1. SubSeq(p, 1, l) \in Seq(Unit) /\ Len(SubSeq(p, 1, l)) = l /\ \A i \in 1..l : SubSeq(p, 1, l)[i] = p[i]
    BY <1>1, <1>3, SubSeqProperties
  <2>2. SubSeq(p, 1, l) = e
    <3> DEFINE r == SubSeq(p, 1, l)
    <3>1. r \in Seq(Unit) /\ Len(r) = Len(e) /\ \A i \in 1..Len(r) : r[i] = e[i]
      BY <1>4, <2>1
    <3> HIDE DEF r
    <3>2. r = e
      BY <3>1, SeqEqual
    <3> QED BY <3>2 DEF r
  <2>3. l + 1 - 1 = l
    BY <1>1
  <2> DEFINE k == l + 1
             h == k - 1
  <2>4. NamePart(p) = SubSeq(p, 1, h)
    <3> HIDE DEF k
    <3>1. Place(p, "=") = k
      BY <1>5 DEF k
    <3> QED BY <3>1, Zenon DEF NamePart
  <2>5. h = l
    BY <1>1
  <2> QED BY <2>2, <2>4, <2>5, Zenon
<1>7. Behind(p) = b
  <2> DEFINE a == l + 2
             z == l + 1 + m
             r == SubSeq(p, a, z)
  <2>1. r \in Seq(Unit) /\ Len(r) = m /\ \A i \in 1..m : r[i] = p[l + 1 + i]
    BY <1>1, <1>3, SubSeqProperties
  <2> HIDE DEF r
  <2>2. r = b
    BY <1>4, <2>1, SeqEqual
  <2>3. Behind(p) = SubSeq(p, l + 1 + 1, Len(p))
    BY <1>5, Zenon DEF Behind
  <2>4. l + 1 + 1 = a /\ Len(p) = z
    BY <1>1, <1>3
  <2> QED BY <2>2, <2>3, <2>4, Zenon DEF r
<1>8. Parts(p, e, b, l + 1)
  BY <1>5, <1>6, <1>7, Zenon DEF Parts
<1> QED BY <1>3, <1>8, Zenon DEF p, l, m, q

-----------------------------------------------------------------------------
\* A decoded value: undefined or one text.
IsValue(v) == v \in SUBSET Seq(Letter) /\ \A t, u \in v : t = u

\* Others read p as name n with value v, and http4t does not misread it.
Shows(p, n, v) ==
    /\ p \in Seq(Unit) /\ ReadsAlike(p)
    /\ OthersDecode(NamePart(p)) = n /\ OthersValue(p) = v
    /\ p = <<>> <=> n = <<>> /\ v = {}

\* A pair that http4t writes is read by others as it was meant.
LEMMA EncodePairShows ==
    ASSUME NEW n \in Seq(Letter), NEW v, IsValue(v)
    PROVE  Shows(EncodePair(n, v), n, v)
<1> DEFINE e == Encode(n)
           p == EncodePair(n, v)
<1>1. Encodes(e, n)
  BY EncodeIs, Zenon
<1>2. e \in Seq(Unit) /\ Len(e) \in Nat /\ Len(e) = Len(n) /\ \A i \in 1..Len(e) : e[i] # "="
  <2>1. e \in Seq(Unit) /\ Len(e) = Len(n) /\ \A i \in 1..Len(e) : e[i] # "="
    BY <1>1, Zenon DEF Encodes
  <2> HIDE DEF e
  <2> QED BY <2>1
<1>3. (\A i, j \in Pluses(e) : i = j) /\ OthersDecode(e) = n
  BY <1>1, Zenon DEF Encodes
<1> HIDE DEF e
<1>4. CASE v = {}
  <2>1. p = e
    <3>1. p = e \o <<>>
      BY <1>4, Zenon DEF EncodePair, e
    <3> QED BY <1>2, <3>1
  <2>2. Parts(p, e, <<>>, Len(e) + 1)
    BY <1>2, <2>1, PartsAlone, Zenon
  <2>3. NamePart(p) = e /\ Behind(p) = <<>> /\ Place(p, "=") > Len(p)
    BY <1>2, <2>1, <2>2 DEF Parts
  <2>4. Pluses(<<>>) = {} /\ Place(<<>>, "=") = 1 /\ Len(<<>>) = 0
    <3>1. <<>> \in Seq(Unit) /\ Len(<<>>) = 0 /\ DOMAIN <<>> = {}
      OBVIOUS
    <3>2. Place(<<>>, "=") = Len(<<>>) + 1
      <4> DEFINE z == <<>>
      <4>1. z \in Seq(Unit) /\ \A i \in 1..Len(z) : z[i] # "="
        BY <3>1
      <4> HIDE DEF z
      <4>2. Place(z, "=") = Len(z) + 1
        BY <4>1, NoPlace, Zenon
      <4> QED BY <4>2 DEF z
    <3> QED BY <3>1, <3>2 DEF Pluses
  <2>5. ReadsAlike(p)
    BY <1>3, <2>3, <2>4 DEF ReadsAlike
  <2>6. OthersValue(p) = v
    BY <1>4, <2>3, Zenon DEF OthersValue
  <2>7. p = <<>> <=> n = <<>>
    BY <1>2, <2>1
  <2> QED BY <1>2, <1>3, <1>4, <2>1, <2>3, <2>5, <2>6, <2>7, Zenon DEF Shows
<1>5. CASE v # {}
  <2>1. PICK t \in v : v = {t} /\ t \in Seq(Letter)
    BY <1>5 DEF IsValue
  <2> DEFINE b == Encode(t)
  <2>2. Encodes(b, t)
    BY <2>1, EncodeIs, Zenon
  <2>3. /\ b \in Seq(Unit) /\ \A i \in 1..Len(b) : b[i] # "="
        /\ \A i, j \in Pluses(b) : i = j
        /\ OthersDecode(b) = t
    BY <2>2, Zenon DEF Encodes
  <2>4. p = e \o (<<"=">> \o b)
    <3>1. (CHOOSE x \in v : TRUE) = t
      BY <2>1
    <3> QED BY <1>5, <3>1, Zenon DEF EncodePair, e
  <2> HIDE DEF b, p
  <2>5. Parts(p, e, b, Len(e) + 1) /\ p \in Seq(Unit) /\ Len(p) = Len(e) + 1 + Len(b)
    BY <1>2, <2>3, <2>4, PartsOf, Zenon
  <2>6. NamePart(p) = e /\ Behind(p) = b /\ ~(Place(p, "=") > Len(p)) /\ p # <<>>
    <3>1. Len(b) \in Nat
      BY <2>3
    <3> QED BY <1>2, <2>5, <3>1 DEF Parts
  <2>7. Place(b, "=") > Len(b)
    <3>1. Place(b, "=") = Len(b) + 1 /\ Len(b) \in Nat
      BY <2>3, NoPlace
    <3> QED BY <3>1
  <2>8. ReadsAlike(p)
    BY <1>3, <2>3, <2>6, <2>7, Zenon DEF ReadsAlike
  <2>9. OthersValue(p) = v
    <3>1. OthersValue(p) = {OthersDecode(b)}
      BY <2>6, Zenon DEF OthersValue
    <3> QED BY <2>1, <2>3, <3>1
  <2>10. Shows(p, n, v)
    BY <1>3, <1>5, <2>5, <2>6, <2>8, <2>9, Zenon DEF Shows
  <2> QED BY <2>10 DEF p
<1> QED BY <1>4, <1>5, Zenon

-----------------------------------------------------------------------------
\* The parts of a pair are made of units.
LEMMA PartTypes ==
    ASSUME NEW p \in Seq(Unit)
    PROVE  /\ NamePart(p) \in Seq(Unit) /\ Behind(p) \in Seq(Unit)
           /\ Place(p, "=") > Len(p) => NamePart(p) = p
<1> DEFINE k == Place(p, "=")
           n == Len(p)
<1>1. n \in Nat /\ \A i \in 1..n : p[i] \in Unit
  OBVIOUS
<1>2. k \in 1..(n + 1)
  <2>1. IsPlace(p, "=", k)
    BY PlaceIs, Zenon
  <2> QED BY <2>1, Zenon DEF IsPlace
<1>3. NamePart(p) = SubSeq(p, 1, k - 1) /\ Behind(p) = SubSeq(p, k + 1, n)
  BY Zenon DEF NamePart, Behind
<1> HIDE DEF k, n
<1>4. SubSeq(p, 1, k - 1) \in Seq(Unit)
  <2> DEFINE h == k - 1
  <2>1. h \in Int /\ \A i \in 1..h : p[i] \in Unit
    BY <1>1, <1>2
  <2> HIDE DEF h
  <2>2. SubSeq(p, 1, h) \in Seq(Unit)
    BY <2>1, SubSeqProperties
  <2> QED BY <2>2 DEF h
<1>5. SubSeq(p, k + 1, n) \in Seq(Unit)
  <2> DEFINE h == k + 1
  <2>1. h \in Int /\ n \in Int /\ \A i \in h..n : p[i] \in Unit
    BY <1>1, <1>2
  <2> HIDE DEF h
  <2>2. SubSeq(p, h, n) \in Seq(Unit)
    BY <2>1, SubSeqProperties
  <2> QED BY <2>2 DEF h
<1>6. k > n => SubSeq(p, 1, k - 1) = p
  <2> SUFFICES ASSUME k > n PROVE SubSeq(p, 1, k - 1) = p
    OBVIOUS
  <2>1. k - 1 = n
    BY <1>1, <1>2
  <2>2. SubSeq(p, 1, n) = p
    BY SubSeqFull DEF n
  <2> QED BY <2>1, <2>2, Zenon
<1>7. NamePart(p) \in Seq(Unit) /\ Behind(p) \in Seq(Unit) /\ (k > n => NamePart(p) = p)
  BY <1>3, <1>4, <1>5, <1>6
<1> QED BY <1>7 DEF k, n

\* What is decoded of a pair: where nothing is misread, what others read of it.
DecodesPair(p) ==
    /\ DecodePair(p)[1] \in Seq(Letter) /\ IsValue(DecodePair(p)[2])
    /\ p = <<>> <=> DecodePair(p)[1] = <<>> /\ DecodePair(p)[2] = {}
    /\ ReadsAlike(p) => /\ DecodePair(p)[1] = OthersDecode(NamePart(p))
                        /\ DecodePair(p)[2] = OthersValue(p)

\* It is so for every pair.
LEMMA DecodePairIs == ASSUME NEW p \in Seq(Unit) PROVE DecodesPair(p)
<1> DEFINE e == NamePart(p)
           b == Behind(p)
           c == NamePart(b)
           none == Place(p, "=") > Len(p)
           v == DecodePair(p)[2]
<1>1. e \in Seq(Unit) /\ b \in Seq(Unit) /\ (none => e = p)
  BY PartTypes, Zenon
<1>2. c \in Seq(Unit) /\ (Place(b, "=") > Len(b) => c = b)
  <2> HIDE DEF b
  <2> QED BY <1>1, PartTypes, Zenon
<1>3. Decodes(e) /\ Decodes(c)
  BY <1>1, <1>2, DecodeIs, Zenon
<1>4. DecodePair(p)[1] = Decode(e) /\ v = (IF none THEN {} ELSE {Decode(c)})
  BY DEF DecodePair
<1>5. OthersValue(p) = (IF none THEN {} ELSE {OthersDecode(b)})
  BY Zenon DEF OthersValue
<1> HIDE DEF v
<1>6. Decode(e) \in Seq(Letter) /\ Decode(c) \in Seq(Letter)
  BY <1>3, Zenon DEF Decodes
<1>7. IsValue(v)
  <2> DEFINE d == Decode(c)
  <2>1. v = {} \/ v = {d}
    BY <1>4
  <2> HIDE DEF d
  <2>2. d \in Seq(Letter)
    BY <1>6 DEF d
  <2> QED BY <2>1, <2>2 DEF IsValue
<1>8. ASSUME p = <<>> PROVE Decode(e) = <<>> /\ v = {}
  <2>1. p \in Seq(Unit) /\ Len(p) = 0 /\ \A i \in 1..Len(p) : p[i] # "="
    BY <1>8
  <2>2. Place(p, "=") = Len(p) + 1
    BY <2>1, NoPlace, Zenon
  <2>3. none
    BY <2>1, <2>2
  <2>4. Len(e) = 0
    BY <1>1, <2>1, <2>3, Zenon
  <2>5. Decode(e) \in Seq(Letter) /\ Len(Decode(e)) = Len(e)
    BY <1>3, Zenon DEF Decodes
  <2>6. Decode(e) = <<>>
    <3> DEFINE d == Decode(e)
    <3>1. d \in Seq(Letter) /\ Len(d) = 0
      BY <2>4, <2>5
    <3> HIDE DEF d
    <3>2. d = <<>>
      BY <3>1, EmptySeq
    <3> QED BY <3>2 DEF d
  <2> QED BY <1>4, <2>3, <2>6
<1>9. ASSUME Decode(e) = <<>>, v = {} PROVE p = <<>>
  <2>1. none
    BY <1>4, <1>9
  <2>2. Len(Decode(e)) = Len(e)
    BY <1>3, Zenon DEF Decodes
  <2>3. Len(p) = 0
    <3>1. Len(<<>>) = 0
      OBVIOUS
    <3> QED BY <1>1, <1>9, <2>1, <2>2, <3>1, Zenon
  <2> QED BY <2>3, EmptySeq
<1>10. ASSUME ReadsAlike(p) PROVE Decode(e) = OthersDecode(e) /\ v = OthersValue(p)
  <2>1. /\ \A i, j \in Pluses(e) : i = j
        /\ \A i, j \in Pluses(b) : i = j
        /\ Place(b, "=") > Len(b)
    BY <1>10, Zenon DEF ReadsAlike
  <2>2. c = b
    BY <1>2, <2>1, Zenon
  <2>3. Decode(e) = OthersDecode(e)
    BY <1>3, <2>1, Zenon DEF Decodes
  <2>4. Decode(c) = OthersDecode(b)
    BY <1>3, <2>1, <2>2, Zenon DEF Decodes
  <2> QED BY <1>4, <1>5, <2>3, <2>4, Zenon
<1>11. DecodesPair(p)
  <2>1. DecodePair(p)[1] \in Seq(Letter)
    BY <1>4, <1>6, Zenon
  <2>2. p = <<>> <=> DecodePair(p)[1] = <<>> /\ v = {}
    <3>1. p = <<>> => DecodePair(p)[1] = <<>> /\ v = {}
      BY <1>4, <1>8, Zenon
    <3>2. DecodePair(p)[1] = <<>> /\ v = {} => p = <<>>
      BY <1>4, <1>9, Zenon
    <3> QED BY <3>1, <3>2, Zenon
  <2>3. ReadsAlike(p) => DecodePair(p)[1] = OthersDecode(NamePart(p)) /\ v = OthersValue(p)
    BY <1>4, <1>10, Zenon
  <2> QED BY <1>7, <2>1, <2>2, <2>3, Zenon DEF DecodesPair, v
<1> QED BY <1>11

-----------------------------------------------------------------------------
\* The places of what others read under a name.
Named(q, n) == {i \in 1..Len(q) : q[i] # <<>> /\ OthersDecode(NamePart(q[i])) = n}

\* The values of the pairs where e counts.
ReadAlong(q, e, m) == [k \in 1..m |-> OthersValue(q[e[k]])]

\* Others read the values at the places of the name, in order.
LEMMA ReadIs ==
    ASSUME NEW q \in Seq(Seq(Unit)), NEW n, NEW m \in Nat, NEW e, Ordered(e, m, Named(q, n))
    PROVE  OthersRead(q, n) = ReadAlong(q, e, m)
<1> DEFINE S == Named(q, n)
           p == Pick(q, S)
<1>1. S = {i \in DOMAIN q : q[i] # <<>> /\ OthersDecode(NamePart(q[i])) = n} /\ S \in SUBSET Nat
  BY DEF Named
<1>2. OthersRead(q, n) = [i \in DOMAIN p |-> OthersValue(p[i])]
  <2> DEFINE R == {i \in DOMAIN q : q[i] # <<>> /\ OthersDecode(NamePart(q[i])) = n}
  <2>1. OthersRead(q, n) = [i \in DOMAIN Pick(q, R) |-> OthersValue(Pick(q, R)[i])]
    BY Zenon DEF OthersRead
  <2> QED BY <1>1, <2>1, Zenon
<1> HIDE DEF S
<1>3. p = Along(q, e, m)
  <2>1. Ordered(e, m, S)
    BY DEF S
  <2> QED BY <1>1, <2>1, PickIs, Zenon
<1> HIDE DEF p
<1>4. p = [k \in 1..m |-> q[e[k]]]
  BY <1>3, Zenon DEF Along
<1>5. DOMAIN p = 1..m /\ \A k \in 1..m : p[k] = q[e[k]]
  BY <1>4, Zenon
<1> QED BY <1>2, <1>5, Zenon DEF ReadAlong

\* The same pairs at the same places are read the same.
LEMMA ReadLike ==
    ASSUME NEW q \in Seq(Seq(Unit)), NEW r \in Seq(Seq(Unit)), NEW n,
           Named(q, n) = Named(r, n), \A i \in Named(q, n) : q[i] = r[i]
    PROVE  OthersRead(q, n) = OthersRead(r, n)
<1> DEFINE S == Named(q, n)
<1>1. S \in SUBSET (1..Len(q)) /\ Len(q) \in Nat
  BY DEF Named
<1> HIDE DEF S
<1>2. PICK m \in Nat : \E e : Ordered(e, m, S)
  BY <1>1, OrderedExists, Zenon
<1>3. PICK e : Ordered(e, m, S)
  BY <1>2
<1>4. Ordered(e, m, Named(q, n)) /\ Ordered(e, m, Named(r, n))
  BY <1>3, Zenon DEF S
<1>5. OthersRead(q, n) = ReadAlong(q, e, m) /\ OthersRead(r, n) = ReadAlong(r, e, m)
  BY <1>4, ReadIs, Zenon
<1>6. \A k \in 1..m : q[e[k]] = r[e[k]]
  <2> TAKE k \in 1..m
  <2>1. e[k] \in S
    BY <1>3 DEF Ordered
  <2> QED BY <2>1, Zenon DEF S
<1>7. ReadAlong(q, e, m) = ReadAlong(r, e, m)
  BY <1>6, Zenon DEF ReadAlong
<1> QED BY <1>5, <1>7, Zenon

\* No pair of q is read under the name n.
Unnamed(q, n) == \A i \in 1..Len(q) : q[i] = <<>> \/ OthersDecode(NamePart(q[i])) # n

\* Neither list says anything under the name.
LEMMA ReadNone ==
    ASSUME NEW q \in Seq(Seq(Unit)), NEW r \in Seq(Seq(Unit)), NEW n, Unnamed(q, n), Unnamed(r, n)
    PROVE  OthersRead(q, n) = OthersRead(r, n)
<1>1. Named(q, n) = {} /\ Named(r, n) = {}
  BY DEF Named, Unnamed
<1>2. Named(q, n) = Named(r, n) /\ \A i \in Named(q, n) : q[i] = r[i]
  BY <1>1
<1> QED BY <1>2, ReadLike, Zenon

\* What is put behind under other names is not noticed.
LEMMA ReadBehind ==
    ASSUME NEW q \in Seq(Seq(Unit)), NEW r \in Seq(Seq(Unit)), NEW n, Unnamed(r, n)
    PROVE  OthersRead(q \o r, n) = OthersRead(q, n)
<1> DEFINE u == q \o r
           l == Len(q)
           m == Len(r)
<1>1. u \in Seq(Seq(Unit)) /\ Len(u) = l + m
  BY ConcatProperties
<1>2. \A i \in 1..Len(u) : u[i] = IF i <= l THEN q[i] ELSE r[i - l]
  BY ConcatProperties
<1>3. l \in Nat /\ m \in Nat
  OBVIOUS
<1> HIDE DEF u
<1>4. \A i \in 1..l : i \in 1..Len(u) /\ u[i] = q[i]
  <2> TAKE i \in 1..l
  <2> HIDE DEF l, m
  <2>1. i \in 1..Len(u) /\ i <= l
    BY <1>1, <1>3
  <2> QED BY <1>2, <2>1
<1>5. \A i \in 1..Len(u) : i \in 1..l \/ \E j \in 1..m : u[i] = r[j]
  <2> TAKE i \in 1..Len(u)
  <2> HIDE DEF l, m
  <2> DEFINE j == i - l
  <2>1. i \in 1..l \/ (~(i <= l) /\ j \in 1..m)
    BY <1>1, <1>3
  <2>2. ~(i <= l) => u[i] = r[j]
    BY <1>2
  <2> HIDE DEF j
  <2> QED BY <2>1, <2>2, Zenon
<1>6. Named(u, n) = Named(q, n)
  <2>1. ASSUME NEW i \in Named(u, n) PROVE i \in Named(q, n)
    <3>1. i \in 1..Len(u) /\ u[i] # <<>> /\ OthersDecode(NamePart(u[i])) = n
      BY DEF Named
    <3>2. i \in 1..l
      BY <1>5, <3>1, Zenon DEF Unnamed, m
    <3>3. u[i] = q[i]
      BY <1>4, <3>2, Zenon
    <3> QED BY <3>1, <3>2, <3>3 DEF Named, l
  <2>2. ASSUME NEW i \in Named(q, n) PROVE i \in Named(u, n)
    <3>1. i \in 1..l /\ q[i] # <<>> /\ OthersDecode(NamePart(q[i])) = n
      BY DEF Named
    <3>2. i \in 1..Len(u) /\ u[i] = q[i]
      BY <1>4, <3>1, Zenon
    <3> QED BY <3>1, <3>2 DEF Named
  <2> QED BY <2>1, <2>2, Zenon
<1>7. \A i \in Named(u, n) : u[i] = q[i]
  BY <1>4, <1>6 DEF Named
<1>8. OthersRead(u, n) = OthersRead(q, n)
  BY <1>1, <1>6, <1>7, ReadLike, Zenon
<1> QED BY <1>8 DEF u

-----------------------------------------------------------------------------
\* A pair decoded and encoded anew.
Rewritten(p) == EncodePair(DecodePair(p)[1], DecodePair(p)[2])

\* Others read r as they read p.
ReadSame(r, p) ==
    /\ r = <<>> <=> p = <<>>
    /\ OthersDecode(NamePart(r)) = OthersDecode(NamePart(p))
    /\ OthersValue(r) = OthersValue(p)

\* To rewrite a pair changes nothing for others, unless http4t misreads it.
LEMMA RewrittenIs ==
    ASSUME NEW p \in Seq(Unit)
    PROVE  /\ Rewritten(p) \in Seq(Unit) /\ ReadsAlike(Rewritten(p))
           /\ ReadsAlike(p) =>
                 /\ ReadSame(Rewritten(p), p)
                 /\ OthersDecode(NamePart(p)) = DecodePair(p)[1]
<1> DEFINE n == DecodePair(p)[1]
           v == DecodePair(p)[2]
           r == Rewritten(p)
<1>1. DecodesPair(p)
  BY DecodePairIs, Zenon
<1>2. n \in Seq(Letter) /\ IsValue(v)
  BY <1>1, Zenon DEF DecodesPair
<1>3. r = EncodePair(n, v)
  BY Zenon DEF Rewritten
<1> HIDE DEF n, v, r
<1>4. Shows(r, n, v)
  BY <1>2, <1>3, EncodePairShows, Zenon
<1>5. r \in Seq(Unit) /\ ReadsAlike(r)
  BY <1>4, Zenon DEF Shows
<1>6. ASSUME ReadsAlike(p) PROVE ReadSame(r, p) /\ OthersDecode(NamePart(p)) = n
  <2>1. n = OthersDecode(NamePart(p)) /\ v = OthersValue(p) /\ (p = <<>> <=> n = <<>> /\ v = {})
    BY <1>1, <1>6, Zenon DEF DecodesPair, n, v
  <2>2. OthersDecode(NamePart(r)) = n /\ OthersValue(r) = v /\ (r = <<>> <=> n = <<>> /\ v = {})
    BY <1>4, Zenon DEF Shows
  <2> QED BY <2>1, <2>2, Zenon DEF ReadSame
<1> QED BY <1>5, <1>6, Zenon DEF r, n

\* The places of the pairs that are not filtered out.
KeptPairs(q, ns) == {i \in 1..Len(q) : DecodePair(q[i])[1] \notin ns}

\* f is what remains of q, encoded anew.
IsFiltered(f, q, e, m) ==
    /\ f \in Seq(Seq(Unit)) /\ Len(f) = m
    /\ \A k \in 1..m : f[k] = Rewritten(q[e[k]])

\* The pairs that remain stand in their order.
LEMMA FilteredIs ==
    ASSUME NEW q \in Seq(Seq(Unit)), NEW ns, NEW m \in Nat, NEW e, Ordered(e, m, KeptPairs(q, ns))
    PROVE  IsFiltered(Filtered(q, ns), q, e, m)
<1> DEFINE S == KeptPairs(q, ns)
           d == DecodePairs(q)
           p == Pick(d, S)
           f == Filtered(q, ns)
<1>0. DOMAIN q = 1..Len(q) /\ \A i \in 1..Len(q) : q[i] \in Seq(Unit)
  OBVIOUS
<1>1. S = {i \in DOMAIN q : DecodePair(q[i])[1] \notin ns} /\ S \in SUBSET Nat /\ S \in SUBSET (1..Len(q))
  BY <1>0 DEF KeptPairs
<1>2. f = EncodePairs(p)
  <2> DEFINE R == {i \in DOMAIN q : DecodePair(q[i])[1] \notin ns}
  <2>1. f = EncodePairs(Pick(d, R))
    BY Zenon DEF Filtered
  <2> QED BY <1>1, <2>1, Zenon
<1>3. d = [i \in 1..Len(q) |-> DecodePair(q[i])]
  BY <1>0, Zenon DEF DecodePairs
<1>4. Ordered(e, m, S)
  OBVIOUS
<1> HIDE DEF S, d
<1>5. p = Along(d, e, m)
  BY <1>1, <1>4, PickIs, Zenon
<1>6. p = [k \in 1..m |-> d[e[k]]]
  BY <1>5, Zenon DEF Along
<1> HIDE DEF p
<1>7. DOMAIN p = 1..m /\ \A k \in 1..m : p[k] = d[e[k]]
  BY <1>6, Zenon
<1>8. \A k \in 1..m : e[k] \in 1..Len(q)
  BY <1>1, <1>4 DEF Ordered
<1>9. \A k \in 1..m : p[k] = DecodePair(q[e[k]])
  BY <1>3, <1>7, <1>8, Zenon
<1>10. f = [k \in 1..m |-> EncodePair(p[k][1], p[k][2])]
  BY <1>2, <1>7, Zenon DEF EncodePairs
<1> HIDE DEF f
<1>11. \A k \in 1..m : f[k] = Rewritten(q[e[k]])
  BY <1>9, <1>10, Zenon DEF Rewritten
<1>12. f \in Seq(Seq(Unit)) /\ Len(f) = m
  <2>1. \A k \in 1..m : f[k] \in Seq(Unit)
    <3> TAKE k \in 1..m
    <3>1. q[e[k]] \in Seq(Unit)
      BY <1>0, <1>8, Zenon
    <3>2. Rewritten(q[e[k]]) \in Seq(Unit)
      BY <3>1, RewrittenIs, Zenon
    <3> QED BY <1>11, <3>2, Zenon
  <2>2. f \in [1..m -> Seq(Unit)]
    <3>1. f = [k \in 1..m |-> f[k]]
      BY <1>10, Zenon
    <3> QED BY <2>1, <3>1
  <2> QED BY <2>2, FunctionIsSeq, Zenon
<1>13. IsFiltered(f, q, e, m)
  BY <1>11, <1>12, Zenon DEF IsFiltered
<1> QED BY <1>13 DEF f

\* Nobody misreads a pair of q.
Clean(q) == \A i \in 1..Len(q) : ReadsAlike(q[i])

\* What remains is written by http4t, so that nobody misreads it.
LEMMA FilteredType ==
    ASSUME NEW q \in Seq(Seq(Unit)), NEW ns
    PROVE  Filtered(q, ns) \in Seq(Seq(Unit)) /\ Clean(Filtered(q, ns))
<1> DEFINE S == KeptPairs(q, ns)
           f == Filtered(q, ns)
<1>1. S \in SUBSET (1..Len(q)) /\ Len(q) \in Nat
  BY DEF KeptPairs
<1>2. \A i \in 1..Len(q) : q[i] \in Seq(Unit)
  OBVIOUS
<1> HIDE DEF S
<1>3. PICK m \in Nat : \E e : Ordered(e, m, S)
  BY <1>1, OrderedExists, Zenon
<1>4. PICK e : Ordered(e, m, S)
  BY <1>3
<1>5. IsFiltered(f, q, e, m)
  <2>1. Ordered(e, m, KeptPairs(q, ns))
    BY <1>4, Zenon DEF S
  <2> QED BY <2>1, FilteredIs, Zenon
<1> HIDE DEF f
<1>6. \A k \in 1..m : e[k] \in 1..Len(q)
  BY <1>1, <1>4 DEF Ordered
<1>7. \A k \in 1..m : ReadsAlike(f[k])
  <2> TAKE k \in 1..m
  <2>1. q[e[k]] \in Seq(Unit)
    BY <1>2, <1>6, Zenon
  <2>2. ReadsAlike(Rewritten(q[e[k]]))
    BY <2>1, RewrittenIs, Zenon
  <2> QED BY <1>5, <2>2, Zenon DEF IsFiltered
<1>8. f \in Seq(Seq(Unit)) /\ Clean(f)
  BY <1>5, <1>7, Zenon DEF IsFiltered, Clean
<1> QED BY <1>8, Zenon DEF f

\* What is read under a name that is not filtered out stays as it was.
LEMMA ReadFiltered ==
    ASSUME NEW q \in Seq(Seq(Unit)), Clean(q), NEW ns, NEW n, n \notin ns
    PROVE  OthersRead(Filtered(q, ns), n) = OthersRead(q, n)
<1> DEFINE f == Filtered(q, ns)
           S == KeptPairs(q, ns)
           R == Named(f, n)
           H == Named(q, n)
<1>0. S \in SUBSET (1..Len(q)) /\ S \in SUBSET Nat /\ H \in SUBSET Nat /\ Len(q) \in Nat
  BY DEF KeptPairs, Named
<1>1. \A i \in 1..Len(q) : q[i] \in Seq(Unit)
  OBVIOUS
<1>2. PICK m \in Nat : \E e : Ordered(e, m, S)
  <2> HIDE DEF S
  <2> QED BY <1>0, OrderedExists, Zenon
<1>3. PICK e : Ordered(e, m, S)
  BY <1>2
<1>4. IsFiltered(f, q, e, m)
  BY <1>3, FilteredIs, Zenon
<1>5. \A i \in 1..Len(q) : ReadSame(Rewritten(q[i]), q[i]) /\ OthersDecode(NamePart(q[i])) = DecodePair(q[i])[1]
  BY <1>1, RewrittenIs, Zenon DEF Clean
<1>6. f \in Seq(Seq(Unit)) /\ Len(f) = m
  BY <1>4, Zenon DEF IsFiltered
<1> HIDE DEF f
<1>7. \A k \in 1..m : e[k] \in S /\ e[k] \in 1..Len(q) /\ f[k] = Rewritten(q[e[k]])
  <2>1. \A k \in 1..m : e[k] \in S
    <3> HIDE DEF S
    <3> QED BY <1>3 DEF Ordered
  <2>2. \A k \in 1..m : f[k] = Rewritten(q[e[k]])
    BY <1>4, Zenon DEF IsFiltered
  <2> QED BY <1>0, <2>1, <2>2, Zenon
<1>8. \A k \in 1..m : ReadSame(f[k], q[e[k]])
  BY <1>5, <1>7, Zenon
<1>9. R \in SUBSET (1..m) /\ R \in SUBSET Nat
  BY <1>6 DEF Named
<1>10. H \subseteq S
  <2> SUFFICES ASSUME NEW i \in H PROVE i \in S
    OBVIOUS
  <2>1. i \in 1..Len(q) /\ OthersDecode(NamePart(q[i])) = n
    BY DEF Named
  <2>2. DecodePair(q[i])[1] = n
    BY <1>5, <2>1, Zenon
  <2> QED BY <2>1, <2>2 DEF KeptPairs
<1>11. PICK l \in Nat : \E g : Ordered(g, l, R)
  <2> HIDE DEF R
  <2> QED BY <1>9, OrderedExists, Zenon
<1>12. PICK g : Ordered(g, l, R)
  BY <1>11
<1> DEFINE h == [k \in 1..l |-> e[g[k]]]
<1>13. \A k \in 1..l : g[k] \in R /\ g[k] \in 1..m
  <2> HIDE DEF R
  <2> QED BY <1>9, <1>12 DEF Ordered
<1>14. \A k \in R : e[k] \in H
  <2> TAKE k \in R
  <2>1. k \in 1..m /\ f[k] # <<>> /\ OthersDecode(NamePart(f[k])) = n
    BY <1>6 DEF Named
  <2>2. ReadSame(f[k], q[e[k]]) /\ e[k] \in 1..Len(q)
    BY <1>7, <1>8, <2>1, Zenon
  <2>3. q[e[k]] # <<>> /\ OthersDecode(NamePart(q[e[k]])) = n
    BY <2>1, <2>2, Zenon DEF ReadSame
  <2> QED BY <2>2, <2>3 DEF Named
<1>15. \A x \in H : \E k \in R : e[k] = x
  <2> TAKE x \in H
  <2>1. PICK k \in 1..m : e[k] = x
    BY <1>3, <1>10 DEF Ordered
  <2>2. q[x] # <<>> /\ OthersDecode(NamePart(q[x])) = n
    BY DEF Named
  <2>3. ReadSame(f[k], q[x])
    BY <1>8, <2>1, Zenon
  <2>4. f[k] # <<>> /\ OthersDecode(NamePart(f[k])) = n
    BY <2>2, <2>3, Zenon DEF ReadSame
  <2>5. k \in R
    BY <1>6, <2>4 DEF Named
  <2> QED BY <2>1, <2>5
<1> HIDE DEF R, H, S
<1>16. Ordered(h, l, H)
  <2>1. h \in [1..l -> H]
    BY <1>13, <1>14
  <2>2. ASSUME NEW i \in 1..l, NEW j \in 1..l, i < j PROVE h[i] < h[j]
    <3>1. g[i] < g[j] /\ g[i] \in 1..m /\ g[j] \in 1..m
      BY <1>12, <1>13, <2>2 DEF Ordered
    <3>2. e[g[i]] < e[g[j]]
      BY <1>3, <3>1, Zenon DEF Ordered
    <3> QED BY <3>2
  <2>3. ASSUME NEW x \in H PROVE \E k \in 1..l : h[k] = x
    <3>1. PICK j \in R : e[j] = x
      BY <1>15
    <3>2. PICK k \in 1..l : g[k] = j
      BY <1>12 DEF Ordered
    <3> QED BY <3>1, <3>2
  <2> HIDE DEF h
  <2> QED BY <2>1, <2>2, <2>3 DEF Ordered
<1>17. OthersRead(q, n) = ReadAlong(q, h, l) /\ OthersRead(f, n) = ReadAlong(f, g, l)
  <2> HIDE DEF h
  <2>1. OthersRead(q, n) = ReadAlong(q, h, l)
    <3>1. Ordered(h, l, Named(q, n))
      BY <1>16, Zenon DEF H
    <3> QED BY <3>1, ReadIs, Zenon
  <2>2. OthersRead(f, n) = ReadAlong(f, g, l)
    <3>1. Ordered(g, l, Named(f, n))
      BY <1>12, Zenon DEF R
    <3> QED BY <1>6, <3>1, ReadIs, Zenon
  <2> QED BY <2>1, <2>2
<1>18. ReadAlong(q, h, l) = ReadAlong(f, g, l)
  <2>1. \A k \in 1..l : OthersValue(q[h[k]]) = OthersValue(f[g[k]])
    <3> TAKE k \in 1..l
    <3>1. h[k] = e[g[k]]
      OBVIOUS
    <3>2. ReadSame(f[g[k]], q[e[g[k]]])
      BY <1>8, <1>13, Zenon
    <3> HIDE DEF h
    <3> QED BY <3>1, <3>2, Zenon DEF ReadSame
  <2> HIDE DEF h
  <2> QED BY <2>1, Zenon DEF ReadAlong
<1> QED BY <1>17, <1>18, Zenon DEF f

-----------------------------------------------------------------------------
\* The pairs of r read as those of q do, but for the names in ns and undefined.
Untouched(r, q, ns) ==
    /\ r \in Seq(Seq(Unit))
    /\ \A m : m \notin ns /\ m # <<"undefined">> => OthersRead(r, m) = OthersRead(q, m)

\* What is appended for a name is read under that name.
LEMMA NewPairs ==
    ASSUME NEW n \in Seq(Letter), NEW vs, IsValues(vs)
    PROVE  /\ EncodePairs(Expanded(n, vs)) \in Seq(Seq(Unit))
           /\ \A m : m # n => Unnamed(EncodePairs(Expanded(n, vs)), m)
<1> DEFINE x == Expanded(n, vs)
           r == EncodePairs(x)
           l == Len(vs)
<1>1. l \in Nat /\ DOMAIN vs = 1..l
  BY DEF IsValues
<1>2. \A i \in 1..l : IsValue(vs[i])
  <2> TAKE i \in 1..l
  <2>1. vs \in Seq(SUBSET Seq(Letter)) /\ \A t, u \in vs[i] : t = u
    BY <1>1, Zenon DEF IsValues
  <2>2. vs[i] \in SUBSET Seq(Letter)
    BY <2>1
  <2> QED BY <2>1, <2>2, Zenon DEF IsValue
<1> HIDE DEF l
<1>3. x = [i \in 1..l |-> <<n, vs[i]>>]
  BY <1>1, Zenon DEF Expanded
<1> HIDE DEF x
<1>4. DOMAIN x = 1..l /\ \A i \in 1..l : x[i][1] = n /\ x[i][2] = vs[i]
  BY <1>3
<1>5. r = [i \in 1..l |-> EncodePair(x[i][1], x[i][2])]
  BY <1>4, Zenon DEF EncodePairs
<1> HIDE DEF r
<1>6. \A i \in 1..l : r[i] = EncodePair(n, vs[i])
  BY <1>4, <1>5, Zenon
<1>7. \A i \in 1..l : Shows(r[i], n, vs[i])
  <2> TAKE i \in 1..l
  <2>1. IsValue(vs[i])
    BY <1>2, Zenon
  <2>2. Shows(EncodePair(n, vs[i]), n, vs[i])
    BY <2>1, EncodePairShows, Zenon
  <2> QED BY <1>6, <2>2, Zenon
<1>8. r \in Seq(Seq(Unit)) /\ Len(r) = l
  <2>1. r = [i \in 1..l |-> r[i]]
    BY <1>5, Zenon
  <2>2. \A i \in 1..l : r[i] \in Seq(Unit)
    BY <1>7, Zenon DEF Shows
  <2>3. r \in [1..l -> Seq(Unit)]
    BY <2>1, <2>2
  <2> QED BY <1>1, <2>3, FunctionIsSeq, Zenon
<1>9. \A m : m # n => Unnamed(r, m)
  BY <1>7, <1>8, Zenon DEF Shows, Unnamed
<1> QED BY <1>8, <1>9, Zenon DEF r, x

\* The stray text undefined is read under that name.
LEMMA Stray ==
    /\ <<<<"undefined">>>> \in Seq(Seq(Unit))
    /\ \A m : m # <<"undefined">> => Unnamed(<<<<"undefined">>>>, m)
<1> DEFINE c == "undefined"
           p == <<c>>
           q == <<p>>
<1>1. c \in Unit /\ c # "=" /\ c # "+" /\ Unescape(c) = c
  BY Letters DEF Unescape
<1> HIDE DEF c
<1>2. p \in Seq(Unit) /\ Len(p) = 1 /\ p[1] = c
  BY <1>1, OneLetter, Zenon
<1>3. q \in Seq(Seq(Unit)) /\ Len(q) = 1 /\ q[1] = p
  <2> HIDE DEF p
  <2> QED BY <1>2, OneLetter, Zenon
<1>4. p = [i \in 1..1 |-> c]
  OBVIOUS
<1> HIDE DEF q, p
<1>5. NamePart(p) = p
  <2>1. \A i \in 1..Len(p) : p[i] # "="
    BY <1>1, <1>2
  <2>2. Parts(p, p, <<>>, Len(p) + 1)
    BY <1>2, <2>1, PartsAlone, Zenon
  <2> QED BY <2>2, Zenon DEF Parts
<1>6. OthersDecode(p) = p
  <2>1. OthersDecode(p) = [i \in 1..1 |-> IF p[i] = "+" THEN " " ELSE Unescape(p[i])]
    <3>1. DOMAIN p = 1..1
      BY <1>4
    <3> QED BY <3>1, Zenon DEF OthersDecode
  <2>2. \A i \in 1..1 : (IF p[i] = "+" THEN " " ELSE Unescape(p[i])) = c
    <3> TAKE i \in 1..1
    <3>1. i = 1
      OBVIOUS
    <3> QED BY <1>1, <1>2, <3>1, Zenon
  <2> QED BY <1>4, <2>1, <2>2, Zenon
<1>7. \A m : m # p => Unnamed(q, m)
  <2>1. \A i \in 1..Len(q) : q[i] = p
    BY <1>3
  <2> QED BY <1>5, <1>6, <2>1, Zenon DEF Unnamed
<1>8. q \in Seq(Seq(Unit))
  BY <1>3, Zenon
<1> QED BY <1>7, <1>8, Zenon DEF q, p, c

\* Nobody but the readers of n (or of undefined) notices what is appended for n.
LEMMA AppendOneIs ==
    ASSUME NEW q \in Seq(Seq(Unit)), NEW n \in Seq(Letter), NEW vs, IsValues(vs)
    PROVE  Untouched(AppendQuery(q, n, vs), q, {n})
<1> DEFINE r == EncodePairs(Expanded(n, vs))
           s == <<<<"undefined">>>>
           d == <<"undefined">>
<1>1. r \in Seq(Seq(Unit)) /\ \A m : m # n => Unnamed(r, m)
  BY NewPairs, Zenon
<1>2. s \in Seq(Seq(Unit)) /\ \A m : m # d => Unnamed(s, m)
  BY Stray, Zenon
<1>3. AppendQuery(q, n, vs) = IF IsEmpty(q) THEN r ELSE q \o (IF vs = <<>> THEN s ELSE r)
  BY Zenon DEF AppendQuery
<1> HIDE DEF r, s, d
<1>4. CASE IsEmpty(q)
  <2>1. \A m : Unnamed(q, m)
    BY <1>4 DEF IsEmpty, Unnamed
  <2>2. \A m : m # n => OthersRead(r, m) = OthersRead(q, m)
    BY <1>1, <2>1, ReadNone, Zenon
  <2>3. AppendQuery(q, n, vs) = r
    BY <1>3, <1>4, Zenon
  <2>4. \A m : m \notin {n} /\ m # d => OthersRead(r, m) = OthersRead(q, m)
    BY <2>2
  <2> QED BY <1>1, <2>3, <2>4, Zenon DEF Untouched, d
<1>5. ASSUME ~IsEmpty(q), NEW w \in Seq(Seq(Unit)), \A m : m # n /\ m # d => Unnamed(w, m),
             AppendQuery(q, n, vs) = q \o w
      PROVE  Untouched(AppendQuery(q, n, vs), q, {n})
  <2>1. q \o w \in Seq(Seq(Unit))
    BY ConcatProperties, Zenon
  <2>2. \A m : m # n /\ m # d => OthersRead(q \o w, m) = OthersRead(q, m)
    BY <1>5, ReadBehind, Zenon
  <2>3. \A m : m \notin {n} /\ m # d => OthersRead(q \o w, m) = OthersRead(q, m)
    BY <2>2
  <2> QED BY <1>5, <2>1, <2>3, Zenon DEF Untouched, d
<1>6. CASE ~IsEmpty(q) /\ vs = <<>>
  <2>1. AppendQuery(q, n, vs) = q \o s
    BY <1>3, <1>6, Zenon
  <2> QED BY <1>2, <1>5, <1>6, <2>1, Zenon
<1>7. CASE ~IsEmpty(q) /\ vs # <<>>
  <2>1. AppendQuery(q, n, vs) = q \o r
    BY <1>3, <1>7, Zenon
  <2> QED BY <1>1, <1>5, <1>7, <2>1, Zenon
<1> QED BY <1>4, <1>6, <1>7, Zenon

-----------------------------------------------------------------------------
\* f counts through the batches that are appended.
AppendSoFar(f, q, batch, n) ==
    f = [i \in 0..n |-> IF i = 0 THEN q ELSE AppendQuery(f[i - 1], batch[i][1], batch[i][2])]

\* There is such a function.
LEMMA AppendExists ==
    ASSUME NEW q, NEW batch
    PROVE  \A n \in Nat : \E f : AppendSoFar(f, q, batch, n)
<1> DEFINE S == {n \in Nat : \E f : AppendSoFar(f, q, batch, n)}
           F(g, i) == IF i = 0 THEN q ELSE AppendQuery(g[i - 1], batch[i][1], batch[i][2])
<1>1. 0 \in S
  <2> DEFINE e == [i \in 0..0 |-> q]
  <2>1. \A i \in 0..0 : F(e, i) = q
    OBVIOUS
  <2>2. e = [i \in 0..0 |-> F(e, i)]
    <3> HIDE DEF F
    <3> QED BY <2>1
  <2>3. AppendSoFar(e, q, batch, 0)
    BY <2>2, Zenon DEF AppendSoFar
  <2> HIDE DEF e
  <2> QED BY <2>3
<1>2. ASSUME NEW n \in S PROVE n + 1 \in S
  <2>0. n \in Nat
    OBVIOUS
  <2>1. PICK f : f = [i \in 0..n |-> F(f, i)]
    BY Zenon DEF AppendSoFar
  <2> DEFINE g == [i \in 0..(n + 1) |-> F(f, i)]
  <2>2. \A i \in 0..n : g[i] = f[i]
    <3> HIDE DEF F
    <3> TAKE i \in 0..n
    <3>1. i \in 0..(n + 1)
      BY <2>0
    <3>2. f[i] = F(f, i)
      BY <2>1
    <3> QED BY <3>1, <3>2
  <2>3. ASSUME NEW i \in 0..(n + 1) PROVE F(f, i) = F(g, i)
    <3>1. i # 0 => g[i - 1] = f[i - 1]
      <4>1. i # 0 => i - 1 \in 0..n
        BY <2>0
      <4> HIDE DEF g
      <4> QED BY <4>1, <2>2
    <3> HIDE DEF g
    <3> QED BY <3>1, Zenon
  <2>4. g = [i \in 0..(n + 1) |-> F(g, i)]
    <3> HIDE DEF F
    <3> QED BY <2>3
  <2>5. AppendSoFar(g, q, batch, n + 1)
    BY <2>4, Zenon DEF AppendSoFar
  <2> HIDE DEF g
  <2> QED BY <2>0, <2>5
<1>3. \A n \in Nat : n \in S
  <2>1. S \in SUBSET Nat
    OBVIOUS
  <2> HIDE DEF S
  <2> QED BY <1>1, <1>2, <2>1, Induct
<1> QED BY <1>3

\* appendQueries appends one after the other.
LEMMA AppendQueriesIs ==
    ASSUME NEW q, NEW batch, Len(batch) \in Nat
    PROVE  \E f : AppendSoFar(f, q, batch, Len(batch)) /\ AppendQueries(q, batch) = f[Len(batch)]
<1> DEFINE acc[i \in 0..Len(batch)] == IF i = 0 THEN q ELSE AppendQuery(acc[i - 1], batch[i][1], batch[i][2])
<1>1. \E f : f = [i \in 0..Len(batch) |-> IF i = 0 THEN q ELSE AppendQuery(f[i - 1], batch[i][1], batch[i][2])]
  <2>1. \E f : AppendSoFar(f, q, batch, Len(batch))
    BY AppendExists, Zenon
  <2> QED BY <2>1, Zenon DEF AppendSoFar
<1>2. acc = [i \in 0..Len(batch) |-> IF i = 0 THEN q ELSE AppendQuery(acc[i - 1], batch[i][1], batch[i][2])]
  BY <1>1, Zenon
<1>3. AppendQueries(q, batch) = acc[Len(batch)]
  BY Zenon DEF AppendQueries
<1> HIDE DEF acc
<1> QED BY <1>2, <1>3, Zenon DEF AppendSoFar

\* f counts through the names that are removed.
RemoveSoFar(f, q, ns, n) ==
    f = [i \in 0..n |-> IF i = 0 THEN q ELSE RemoveQuery(f[i - 1], ns[i])]

\* There is such a function.
LEMMA RemoveExists ==
    ASSUME NEW q, NEW ns
    PROVE  \A n \in Nat : \E f : RemoveSoFar(f, q, ns, n)
<1> DEFINE S == {n \in Nat : \E f : RemoveSoFar(f, q, ns, n)}
           F(g, i) == IF i = 0 THEN q ELSE RemoveQuery(g[i - 1], ns[i])
<1>1. 0 \in S
  <2> DEFINE e == [i \in 0..0 |-> q]
  <2>1. \A i \in 0..0 : F(e, i) = q
    OBVIOUS
  <2>2. e = [i \in 0..0 |-> F(e, i)]
    <3> HIDE DEF F
    <3> QED BY <2>1
  <2>3. RemoveSoFar(e, q, ns, 0)
    BY <2>2, Zenon DEF RemoveSoFar
  <2> HIDE DEF e
  <2> QED BY <2>3
<1>2. ASSUME NEW n \in S PROVE n + 1 \in S
  <2>0. n \in Nat
    OBVIOUS
  <2>1. PICK f : f = [i \in 0..n |-> F(f, i)]
    BY Zenon DEF RemoveSoFar
  <2> DEFINE g == [i \in 0..(n + 1) |-> F(f, i)]
  <2>2. \A i \in 0..n : g[i] = f[i]
    <3> HIDE DEF F
    <3> TAKE i \in 0..n
    <3>1. i \in 0..(n + 1)
      BY <2>0
    <3>2. f[i] = F(f, i)
      BY <2>1
    <3> QED BY <3>1, <3>2
  <2>3. ASSUME NEW i \in 0..(n + 1) PROVE F(f, i) = F(g, i)
    <3>1. i # 0 => g[i - 1] = f[i - 1]
      <4>1. i # 0 => i - 1 \in 0..n
        BY <2>0
      <4> HIDE DEF g
      <4> QED BY <4>1, <2>2
    <3> HIDE DEF g
    <3> QED BY <3>1, Zenon
  <2>4. g = [i \in 0..(n + 1) |-> F(g, i)]
    <3> HIDE DEF F
    <3> QED BY <2>3
  <2>5. RemoveSoFar(g, q, ns, n + 1)
    BY <2>4, Zenon DEF RemoveSoFar
  <2> HIDE DEF g
  <2> QED BY <2>0, <2>5
<1>3. \A n \in Nat : n \in S
  <2>1. S \in SUBSET Nat
    OBVIOUS
  <2> HIDE DEF S
  <2> QED BY <1>1, <1>2, <2>1, Induct
<1> QED BY <1>3

\* removeQueries removes one after the other.
LEMMA RemoveQueriesIs ==
    ASSUME NEW q, NEW ns, Len(ns) \in Nat
    PROVE  \E f : RemoveSoFar(f, q, ns, Len(ns)) /\ RemoveQueries(q, ns) = f[Len(ns)]
<1> DEFINE acc[i \in 0..Len(ns)] == IF i = 0 THEN q ELSE RemoveQuery(acc[i - 1], ns[i])
<1>1. \E f : f = [i \in 0..Len(ns) |-> IF i = 0 THEN q ELSE RemoveQuery(f[i - 1], ns[i])]
  <2>1. \E f : RemoveSoFar(f, q, ns, Len(ns))
    BY RemoveExists, Zenon
  <2> QED BY <2>1, Zenon DEF RemoveSoFar
<1>2. acc = [i \in 0..Len(ns) |-> IF i = 0 THEN q ELSE RemoveQuery(acc[i - 1], ns[i])]
  BY <1>1, Zenon
<1>3. RemoveQueries(q, ns) = acc[Len(ns)]
  BY Zenon DEF RemoveQueries
<1> HIDE DEF acc
<1> QED BY <1>2, <1>3, Zenon DEF RemoveSoFar

\* What a program may give for several names.
IsBatch(batch) ==
    /\ batch \in Seq(QueryName \X Seq(SUBSET Seq(Letter)))
    /\ \A i \in 1..Len(batch) : IsValues(batch[i][2])

\* Nobody but the readers of the names in the batch notices.
LEMMA AppendedIs ==
    ASSUME NEW q \in Seq(Seq(Unit)), NEW batch, IsBatch(batch)
    PROVE  Untouched(AppendQueries(q, batch), q, NamesOf(batch))
<1> DEFINE n == Len(batch)
           F(f, i) == IF i = 0 THEN q ELSE AppendQuery(f[i - 1], batch[i][1], batch[i][2])
           N == NamesOf(batch)
<1>1. n \in Nat /\ DOMAIN batch = 1..n
  BY DEF IsBatch
<1>2. PICK f : AppendSoFar(f, q, batch, n) /\ AppendQueries(q, batch) = f[n]
  BY <1>1, AppendQueriesIs, Zenon
<1>3. \A i \in 0..n : f[i] = F(f, i)
  <2>1. f = [i \in 0..n |-> F(f, i)]
    BY <1>2, Zenon DEF AppendSoFar
  <2> HIDE DEF F
  <2> QED BY <2>1
<1>4. \A i \in 1..n : batch[i][1] \in Seq(Letter) /\ batch[i][1] \in N /\ IsValues(batch[i][2])
  <2> TAKE i \in 1..n
  <2>1. batch[i] \in QueryName \X Seq(SUBSET Seq(Letter))
    BY DEF IsBatch
  <2>2. batch[i][1] \in QueryName
    BY <2>1
  <2>3. batch[i][1] \in Seq(Letter)
    BY <2>2, QueryAssumption
  <2>4. batch[i][1] \in N
    BY <1>1, Zenon DEF NamesOf
  <2> QED BY <2>3, <2>4, Zenon DEF IsBatch
<1> HIDE DEF N
<1> DEFINE S == {i \in Nat : i \in 0..n => Untouched(f[i], q, N)}
<1>5. 0 \in S
  <2>1. 0 \in 0..n /\ F(f, 0) = q
    BY <1>1
  <2> HIDE DEF F, n
  <2>2. f[0] = q
    BY <1>3, <2>1
  <2>3. Untouched(q, q, N)
    BY Zenon DEF Untouched
  <2> QED BY <2>2, <2>3
<1>6. ASSUME NEW i \in S PROVE i + 1 \in S
  <2> DEFINE k == i + 1
  <2> SUFFICES ASSUME k \in 0..n PROVE Untouched(f[k], q, N)
    OBVIOUS
  <2>1. i \in 0..n /\ k - 1 = i /\ k # 0 /\ k \in 1..n /\ Untouched(f[i], q, N)
    BY <1>1
  <2>2. f[k] = AppendQuery(f[i], batch[k][1], batch[k][2])
    <3>1. f[k] = F(f, k)
      <4> HIDE DEF F, k
      <4> QED BY <1>3
    <3> HIDE DEF k
    <3> QED BY <2>1, <3>1
  <2> HIDE DEF k, n
  <2> DEFINE p == f[i]
             m == batch[k][1]
             vs == batch[k][2]
  <2>3. m \in Seq(Letter) /\ m \in N /\ IsValues(vs)
    BY <1>4, <2>1, Zenon
  <2>4. p \in Seq(Seq(Unit)) /\ Untouched(p, q, N)
    BY <2>1, Zenon DEF Untouched
  <2> HIDE DEF p, m, vs
  <2>5. Untouched(AppendQuery(p, m, vs), p, {m})
    BY <2>3, <2>4, AppendOneIs, Zenon
  <2>6. Untouched(AppendQuery(p, m, vs), q, N)
    <3>1. \A x : x \notin N => x \notin {m}
      BY <2>3
    <3> QED BY <2>4, <2>5, <3>1, Zenon DEF Untouched
  <2> QED BY <2>2, <2>6, Zenon DEF p, m, vs
<1>7. \A i \in Nat : i \in S
  <2>1. S \in SUBSET Nat
    OBVIOUS
  <2> HIDE DEF S
  <2> QED BY <1>5, <1>6, <2>1, Induct
<1>8. n \in 0..n
  BY <1>1
<1>9. Untouched(f[n], q, N)
  BY <1>1, <1>7, <1>8
<1> QED BY <1>2, <1>9, Zenon DEF N

\* Filtering hides what it drops and nothing else, unless others misread the query.
LEMMA FilteredOnly ==
    ASSUME NEW q \in Seq(Seq(Unit)), Clean(q), NEW ns
    PROVE  Untouched(Filtered(q, ns), q, ns)
<1>1. Filtered(q, ns) \in Seq(Seq(Unit))
  BY FilteredType, Zenon
<1>2. \A m : m \notin ns => OthersRead(Filtered(q, ns), m) = OthersRead(q, m)
  BY ReadFiltered, Zenon
<1> QED BY <1>1, <1>2, Zenon DEF Untouched

\* Nor does removing several names, one after the other.
LEMMA RemovedIs ==
    ASSUME NEW q \in Seq(Seq(Unit)), NEW ns, NEW T, ns \in Seq(T)
    PROVE  /\ RemoveQueries(q, ns) \in Seq(Seq(Unit))
           /\ Clean(q) => Untouched(RemoveQueries(q, ns), q, ToSet(ns))
<1> DEFINE n == Len(ns)
           F(f, i) == IF i = 0 THEN q ELSE RemoveQuery(f[i - 1], ns[i])
           N == ToSet(ns)
           Good(r) == r \in Seq(Seq(Unit)) /\ (Clean(q) => Clean(r) /\ Untouched(r, q, N))
<1>1. n \in Nat /\ DOMAIN ns = 1..n
  OBVIOUS
<1>2. PICK f : RemoveSoFar(f, q, ns, n) /\ RemoveQueries(q, ns) = f[n]
  BY <1>1, RemoveQueriesIs, Zenon
<1>3. \A i \in 0..n : f[i] = F(f, i)
  <2>1. f = [i \in 0..n |-> F(f, i)]
    BY <1>2, Zenon DEF RemoveSoFar
  <2> HIDE DEF F
  <2> QED BY <2>1
<1>4. \A i \in 1..n : ns[i] \in N
  BY <1>1, Zenon DEF ToSet
<1> HIDE DEF N
<1> DEFINE S == {i \in Nat : i \in 0..n => Good(f[i])}
<1>5. 0 \in S
  <2>1. 0 \in 0..n /\ F(f, 0) = q
    BY <1>1
  <2> HIDE DEF F, n
  <2>2. f[0] = q
    BY <1>3, <2>1
  <2>3. Good(q)
    BY Zenon DEF Untouched
  <2> HIDE DEF Good
  <2> QED BY <2>2, <2>3
<1>6. ASSUME NEW i \in S PROVE i + 1 \in S
  <2> DEFINE k == i + 1
  <2> SUFFICES ASSUME k \in 0..n PROVE Good(f[k])
    <3> HIDE DEF Good
    <3> QED OBVIOUS
  <2>1. i \in 0..n /\ k - 1 = i /\ k # 0 /\ k \in 1..n /\ Good(f[i])
    <3> HIDE DEF Good
    <3> QED BY <1>1
  <2>2. f[k] = RemoveQuery(f[i], ns[k])
    <3>1. f[k] = F(f, k)
      <4> HIDE DEF F, k, Good
      <4> QED BY <1>3
    <3> HIDE DEF k, Good
    <3> QED BY <2>1, <3>1
  <2> HIDE DEF k, n
  <2> DEFINE p == f[i]
             m == ns[k]
             r == Filtered(p, {m})
  <2>3. m \in N
    BY <1>4, <2>1, Zenon
  <2>4. p \in Seq(Seq(Unit)) /\ (Clean(q) => Clean(p) /\ Untouched(p, q, N))
    BY <2>1, Zenon
  <2>5. f[k] = r
    BY <2>2, Zenon DEF RemoveQuery
  <2> HIDE DEF p, m
  <2>6. r \in Seq(Seq(Unit)) /\ Clean(r)
    BY <2>4, FilteredType, Zenon
  <2>7. ASSUME Clean(q) PROVE Untouched(r, q, N)
    <3>1. Untouched(r, p, {m})
      BY <2>4, <2>7, FilteredOnly, Zenon
    <3>2. \A x : x \notin N => x \notin {m}
      BY <2>3
    <3> HIDE DEF r
    <3> QED BY <2>4, <2>7, <3>1, <3>2, Zenon DEF Untouched
  <2>8. Good(r)
    BY <2>6, <2>7, Zenon
  <2> HIDE DEF Good
  <2> QED BY <2>5, <2>8, Zenon
<1>7. \A i \in Nat : i \in S
  <2>1. S \in SUBSET Nat
    OBVIOUS
  <2> HIDE DEF S
  <2> QED BY <1>5, <1>6, <2>1, Induct
<1>8. n \in 0..n
  BY <1>1
<1>9. Good(f[n])
  <2> HIDE DEF Good
  <2> QED BY <1>1, <1>7, <1>8
<1> QED BY <1>2, <1>9, Zenon DEF N

-----------------------------------------------------------------------------
\* The same for its query.
LEMMA QueryPart == MessagesSpec => (QueryInit \/ NoQuery) /\ [][QueryNext]_queryVars
<1>1. MessagesInit => QueryInit \/ NoQuery
  BY Zenon DEF MessagesInit
<1>2. [MessagesNext]_messageVars => [QueryNext]_queryVars
  BY Zenon DEF MessagesNext, OnPath, OnHeaders, OnQuery, OnBody, OnReport, messageVars, queryVars
<1> QED BY <1>1, <1>2, PTL DEF MessagesSpec

\* The names that a bounded list holds.
LEMMA NameLists ==
    ASSUME NEW ns \in BoundedSeq(QueryName, 2)
    PROVE  ns \in Seq(QueryName) /\ ToSet(ns) \subseteq QueryName
<1>1. ns \in UNION {[1..k -> QueryName] : k \in 0..2}
  BY Zenon DEF BoundedSeq, SeqOf
<1>2. PICK k \in 0..2 : ns \in [1..k -> QueryName]
  BY <1>1
<1>3. ns \in Seq(QueryName)
  BY <1>2, FunctionIsSeq
<1>4. ToSet(ns) \subseteq QueryName
  BY <1>2 DEF ToSet
<1> QED BY <1>3, <1>4

\* What an operation does to the query, and the names it is about.
Does(q, ns) ==
    /\ Changed(q, ns)
    /\ q \in Seq(Seq(Unit)) /\ ns \subseteq QueryName
    /\ Clean(query) => Untouched(q, query, ns)

\* Every operation is about some names and does no more than that.
LEMMA QueryDoes ==
    ASSUME QueryTypeOK, QueryNext
    PROVE  \E q, ns : Does(q, ns)
<1>0. query \in Seq(Seq(Unit))
  BY DEF QueryTypeOK
<1>1. ASSUME NEW n \in QueryName, NEW vs \in QueryValues
      PROVE  /\ n \in Seq(Letter) /\ IsValues(vs) /\ {n} \subseteq QueryName
             /\ Untouched(AppendQuery(query, n, vs), query, {n})
             /\ SetQuery(query, n, vs) \in Seq(Seq(Unit))
             /\ Clean(query) => Untouched(SetQuery(query, n, vs), query, {n})
  <2>1. n \in Seq(Letter) /\ IsValues(vs)
    BY QueryAssumption
  <2>2. Untouched(AppendQuery(query, n, vs), query, {n})
    BY <1>0, <2>1, AppendOneIs, Zenon
  <2> DEFINE r == Filtered(query, {n})
             s == AppendQuery(r, n, vs)
  <2>3. r \in Seq(Seq(Unit)) /\ (Clean(query) => Untouched(r, query, {n}))
    BY <1>0, FilteredType, FilteredOnly, Zenon
  <2>4. SetQuery(query, n, vs) = s
    BY Zenon DEF SetQuery, RemoveQuery
  <2> HIDE DEF r
  <2>5. Untouched(s, r, {n})
    BY <2>1, <2>3, AppendOneIs, Zenon
  <2> HIDE DEF s
  <2>6. s \in Seq(Seq(Unit)) /\ (Clean(query) => Untouched(s, query, {n}))
    BY <2>3, <2>5, Zenon DEF Untouched
  <2>7. {n} \subseteq QueryName
    OBVIOUS
  <2> QED BY <2>1, <2>2, <2>4, <2>6, <2>7, Zenon
<1>2. ASSUME NEW batch \in QueryBatch
      PROVE  /\ NamesOf(batch) \subseteq QueryName
             /\ Untouched(AppendQueries(query, batch), query, NamesOf(batch))
             /\ SetQueries(query, batch) \in Seq(Seq(Unit))
             /\ Clean(query) => Untouched(SetQueries(query, batch), query, NamesOf(batch))
  <2> DEFINE N == NamesOf(batch)
             r == Filtered(query, N)
             s == AppendQueries(r, batch)
  <2>0. /\ batch \in Seq(QueryName \X Seq(SUBSET Seq(Letter)))
        /\ \A i \in DOMAIN batch : IsValues(batch[i][2])
    BY QueryAssumption, Zenon
  <2>1. batch \in Seq(QueryName \X Seq(SUBSET Seq(Letter))) /\ DOMAIN batch = 1..Len(batch)
    BY <2>0
  <2>2. IsBatch(batch)
    BY <2>0, <2>1, Zenon DEF IsBatch
  <2>3. N \subseteq QueryName
    <3>1. \A i \in 1..Len(batch) : batch[i][1] \in QueryName
      <4> TAKE i \in 1..Len(batch)
      <4>1. batch[i] \in QueryName \X Seq(SUBSET Seq(Letter))
        BY <2>1
      <4> QED BY <4>1
    <3> QED BY <2>1, <3>1 DEF NamesOf
  <2>4. Untouched(AppendQueries(query, batch), query, N)
    BY <1>0, <2>2, AppendedIs, Zenon
  <2>5. r \in Seq(Seq(Unit)) /\ (Clean(query) => Untouched(r, query, N))
    BY <1>0, FilteredType, FilteredOnly, Zenon
  <2>6. SetQueries(query, batch) = s
    BY Zenon DEF SetQueries
  <2> HIDE DEF r
  <2>7. Untouched(s, r, N)
    BY <2>2, <2>5, AppendedIs, Zenon
  <2> HIDE DEF s, N
  <2>8. s \in Seq(Seq(Unit)) /\ (Clean(query) => Untouched(s, query, N))
    BY <2>5, <2>7, Zenon DEF Untouched
  <2> QED BY <2>3, <2>4, <2>6, <2>8, Zenon DEF N
<1>3. CASE \E n \in QueryName, vs \in QueryValues : AppendOne(n, vs) \/ SetOne(n, vs)
  <2>1. PICK n \in QueryName, vs \in QueryValues : AppendOne(n, vs) \/ SetOne(n, vs)
    BY <1>3
  <2>2. CASE AppendOne(n, vs)
    <3>1. Changed(AppendQuery(query, n, vs), {n})
      BY <2>2, Zenon DEF AppendOne
    <3>2. Does(AppendQuery(query, n, vs), {n})
      BY <1>1, <3>1, Zenon DEF Does, Untouched
    <3> QED BY <3>2, Zenon
  <2>3. CASE SetOne(n, vs)
    <3>1. Changed(SetQuery(query, n, vs), {n})
      BY <2>3, Zenon DEF SetOne
    <3> QED BY <1>1, <3>1, Zenon DEF Does
  <2> QED BY <2>1, <2>2, <2>3, Zenon
<1>4. CASE \E batch \in QueryBatch : AppendAll(batch) \/ SetAll(batch)
  <2>1. PICK batch \in QueryBatch : AppendAll(batch) \/ SetAll(batch)
    BY <1>4
  <2>2. CASE AppendAll(batch)
    <3>1. Changed(AppendQueries(query, batch), NamesOf(batch))
      BY <2>2, Zenon DEF AppendAll
    <3>2. Does(AppendQueries(query, batch), NamesOf(batch))
      BY <1>2, <3>1, Zenon DEF Does, Untouched
    <3> QED BY <3>2, Zenon
  <2>3. CASE SetAll(batch)
    <3>1. Changed(SetQueries(query, batch), NamesOf(batch))
      BY <2>3, Zenon DEF SetAll
    <3> QED BY <1>2, <3>1, Zenon DEF Does
  <2> QED BY <2>1, <2>2, <2>3, Zenon
<1>5. CASE \E ns \in BoundedSeq(QueryName, 2) \ {<<>>} : RemoveAll(ns)
  <2>1. PICK ns \in BoundedSeq(QueryName, 2) : RemoveAll(ns)
    BY <1>5
  <2>2. ns \in Seq(QueryName) /\ ToSet(ns) \subseteq QueryName
    BY NameLists, Zenon
  <2>3. Changed(RemoveQueries(query, ns), ToSet(ns))
    BY <2>1, Zenon DEF RemoveAll
  <2>4. /\ RemoveQueries(query, ns) \in Seq(Seq(Unit))
        /\ Clean(query) => Untouched(RemoveQueries(query, ns), query, ToSet(ns))
    BY <1>0, <2>2, RemovedIs, Zenon
  <2> QED BY <2>2, <2>3, <2>4, Zenon DEF Does
<1>6. CASE Throws
  <2>1. Changed(query, {})
    BY <1>6, Zenon DEF Throws
  <2>2. {} \subseteq QueryName
    OBVIOUS
  <2>3. Untouched(query, query, {})
    BY <1>0, Zenon DEF Untouched
  <2> QED BY <1>0, <2>1, <2>2, <2>3, Zenon DEF Does
<1> QED BY <1>3, <1>4, <1>5, <1>6, Zenon DEF QueryNext

\* So the query stays what it should be.
LEMMA QueryStep == QueryTypeOK /\ [QueryNext]_queryVars => QueryTypeOK'
<1> SUFFICES ASSUME QueryTypeOK, [QueryNext]_queryVars PROVE QueryTypeOK'
  OBVIOUS
<1>1. CASE QueryNext
  <2>1. PICK q, ns : Does(q, ns)
    BY <1>1, QueryDoes, Zenon
  <2>2. /\ query' = q /\ touched' = ns /\ changes' = changes + 1 /\ changes < MaxChanges
        /\ q \in Seq(Seq(Unit)) /\ ns \subseteq QueryName
    BY <2>1, Zenon DEF Does, Changed
  <2>3. MaxChanges \in Nat /\ changes \in 0..MaxChanges
    BY QueryAssumption DEF QueryTypeOK
  <2>4. changes' \in 0..MaxChanges
    BY <2>2, <2>3
  <2> QED BY <2>2, <2>4, Zenon DEF QueryTypeOK
<1>2. CASE UNCHANGED queryVars
  BY <1>2, Zenon DEF QueryTypeOK, queryVars
<1> QED BY <1>1, <1>2

\* Whatever a program makes of its query, or others give it, it is a list of pairs
\* made of characters and escapes.
THEOREM QueryTypeCorrect == MessagesSpec => []QueryTypeOK
<1>1. QueryInit \/ NoQuery => QueryTypeOK
  <2>1. <<>> \in Seq(Seq(Unit)) /\ {} \subseteq QueryName /\ 0 \in 0..MaxChanges
    <3>1. MaxChanges \in Nat
      BY QueryAssumption, Zenon
    <3>2. 0 \in 0..MaxChanges
      BY <3>1
    <3>3. <<>> \in Seq(Seq(Unit))
      OBVIOUS
    <3> QED BY <3>2, <3>3
  <2>2. ForeignQuery \subseteq Seq(Seq(Unit))
    BY QueryAssumption
  <2>3. NoQuery => QueryTypeOK
    BY <2>1, Zenon DEF NoQuery, QueryTypeOK
  <2>4. QueryInit => QueryTypeOK
    <3> SUFFICES ASSUME QueryInit PROVE QueryTypeOK
      OBVIOUS
    <3>1. query \in ForeignQuery /\ touched = {} /\ changes = 0
      BY Zenon DEF QueryInit
    <3>2. query \in Seq(Seq(Unit))
      BY <2>2, <3>1
    <3> QED BY <2>1, <3>1, <3>2, Zenon DEF QueryTypeOK
  <2> QED BY <2>3, <2>4, Zenon
<1> QED BY <1>1, QueryStep, QueryPart, PTL

\* Setting, appending and removing parameters leaves the others as any reader of the
\* uri understands them, however they were escaped, unless http4t misreads the query.
THEOREM OthersUnchanged == MessagesSpec => OthersReadTheSame
<1> DEFINE Same == (\A i \in DOMAIN query : ReadsAlike(query[i])) =>
                      \A n \in QueryName \ (touched' \union {<<"undefined">>}) :
                          OthersRead(query', n) = OthersRead(query, n)
<1>1. QueryTypeOK /\ QueryNext => Same
  <2> SUFFICES ASSUME QueryTypeOK, QueryNext,
                      \A i \in DOMAIN query : ReadsAlike(query[i]),
                      NEW n \in QueryName \ (touched' \union {<<"undefined">>})
               PROVE  OthersRead(query', n) = OthersRead(query, n)
    OBVIOUS
  <2>1. DOMAIN query = 1..Len(query)
    BY DEF QueryTypeOK
  <2>2. Clean(query)
    BY <2>1, Zenon DEF Clean
  <2>3. PICK q, ns : Does(q, ns)
    BY QueryDoes, Zenon
  <2>4. query' = q /\ touched' = ns /\ Untouched(q, query, ns)
    BY <2>2, <2>3, Zenon DEF Does, Changed
  <2>5. n \notin ns /\ n # <<"undefined">>
    BY <2>4
  <2> QED BY <2>4, <2>5, Zenon DEF Untouched
<1>2. QueryTypeOK /\ [QueryNext]_queryVars => [Same]_queryVars
  BY <1>1, Zenon
<1>3. OthersReadTheSame <=> [][Same]_queryVars
  BY DEF OthersReadTheSame
<1> QED BY <1>2, <1>3, QueryTypeCorrect, QueryPart, PTL
=============================================================================
