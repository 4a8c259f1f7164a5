------------------------- MODULE WholeMessageProofs -------------------------
(***************************************************************************)
(* What the parts of a message do together.  The headers and the query, as *)
(* the operations and the transports leave them, implement MessageContract *)
(* step by step.  Then what a client makes of a response: whatever lenses  *)
(* are nested in whatever others, every alternative was asked, and the     *)
(* error's expected value shows each problem where it is.                  *)
(***************************************************************************)
EXTENDS MessagesProofs

\* The contract counts and picks as the operations do.
LEMMA ContractPick ==
    ASSUME NEW s, NEW S
    PROVE  Contract!Pick(s, S) = Pick(s, S)
<1>1. \A T : Contract!Cardinality(T) = Cardinality(T)
  BY DEF Cardinality, Contract!Cardinality
<1> DEFINE c(T) == Cardinality(T)
           d(T) == Contract!Cardinality(T)
           e(k) == s[CHOOSE i \in S : c({j \in S : j <= i}) = k]
           g(k) == s[CHOOSE i \in S : d({j \in S : j <= i}) = k]
<1>2. Pick(s, S) = [k \in 1..c(S) |-> e(k)] /\ Contract!Pick(s, S) = [k \in 1..d(S) |-> g(k)]
  BY Zenon DEF Pick, Contract!Pick
<1>3. \A T : c(T) = d(T)
  BY <1>1, Zenon
<1> HIDE DEF c, d
<1>4. \A k : e(k) = g(k)
  BY <1>3
<1> HIDE DEF e, g
<1> QED BY <1>2, <1>3, <1>4

\* The headers of a name.
Called(k) == {h \in Header : Lower(h[1]) = Lower(k)}

\* getHeaderValues reads the second parts of what is kept of the name.
Reads(s, k) ==
    /\ GetHeaderValues(s, k) = Seconds(Keep(s, Called(k)))
    /\ Keep(s, Called(k)) \in Seq(Header)

LEMMA ReadsIs ==
    ASSUME NEW s \in Seq(Header), NEW k
    PROVE  Reads(s, k)
<1> DEFINE p == Keep(s, Called(k))
<1>1. DOMAIN s = 1..Len(s) /\ \A i \in 1..Len(s) : s[i] \in Header
  OBVIOUS
<1>2. {i \in DOMAIN s : Lower(s[i][1]) = Lower(k)} = In(s, Called(k))
  BY <1>1 DEF In, Called
<1>3. GetHeaders(s, k) = p
  BY <1>2, Zenon DEF GetHeaders, Keep
<1>4. KeptType(s, Called(k), Header)
  BY KeepType, Zenon
<1>5. p \in Seq(Header)
  BY <1>4, Zenon DEF KeptType
<1> HIDE DEF p
<1>6. DOMAIN p = 1..Len(p)
  BY <1>5
<1>7. GetHeaderValues(s, k) = [i \in DOMAIN p |-> p[i][2]]
  BY <1>3, Zenon DEF GetHeaderValues
<1>8. GetHeaderValues(s, k) = Seconds(p)
  BY <1>6, <1>7, Zenon DEF Seconds
<1> QED BY <1>5, <1>8, Zenon DEF Reads, p

\* What is read are values.
LEMMA ReadsValues ==
    ASSUME NEW s \in Seq(Header), NEW k
    PROVE  GetHeaderValues(s, k) \in Seq(HeaderValue)
<1> DEFINE p == Keep(s, Called(k))
<1>1. GetHeaderValues(s, k) = Seconds(p) /\ p \in Seq(Header)
  <2>1. Reads(s, k)
    BY ReadsIs, Zenon
  <2> QED BY <2>1, Zenon DEF Reads
<1>2. p \in Seq(Name \X HeaderValue)
  BY <1>1, Zenon DEF Header
<1> HIDE DEF p
<1>3. SecondsOf(Seconds(p), p, HeaderValue)
  BY <1>2, SecondsType, Zenon
<1> QED BY <1>1, <1>3, Zenon DEF SecondsOf

\* The values of two lists, one behind the other.
ReadsBoth(s, t, k) == GetHeaderValues(s \o t, k) = GetHeaderValues(s, k) \o GetHeaderValues(t, k)

LEMMA ReadsBothIs ==
    ASSUME NEW s \in Seq(Header), NEW t \in Seq(Header), NEW k
    PROVE  ReadsBoth(s, t, k) /\ s \o t \in Seq(Header)
<1> DEFINE u == s \o t
           X == Called(k)
           p == Keep(s, X)
           q == Keep(t, X)
<1>1. u \in Seq(Header)
  BY JointIs, Zenon
<1>2. KeptOfBoth(s, t, X)
  BY KeepBoth, Zenon
<1>3. Reads(s, k) /\ Reads(t, k)
  BY ReadsIs, Zenon
<1>4. Reads(u, k)
  <2> HIDE DEF u
  <2> QED BY <1>1, ReadsIs, Zenon
<1>5. p \in Seq(Header) /\ q \in Seq(Header)
  BY <1>3, Zenon DEF Reads
<1>6. p \in Seq(Name \X HeaderValue) /\ q \in Seq(Name \X HeaderValue)
  BY <1>5, Zenon DEF Header
<1> HIDE DEF p, q
<1>7. SecondsOfBoth(p, q)
  BY <1>6, SecondsBoth, Zenon
<1>8. Keep(u, X) = p \o q
  BY <1>2, Zenon DEF KeptOfBoth, p, q
<1>9. GetHeaderValues(u, k) = Seconds(p \o q)
  BY <1>4, <1>8, Zenon DEF Reads
<1>10. GetHeaderValues(s, k) = Seconds(p) /\ GetHeaderValues(t, k) = Seconds(q)
  BY <1>3, Zenon DEF Reads, p, q
<1>11. ReadsBoth(s, t, k)
  BY <1>7, <1>9, <1>10, Zenon DEF SecondsOfBoth, ReadsBoth
<1> QED BY <1>1, <1>11, Zenon

\* One header has one value or none.
ReadsOne(n, v, k) == GetHeaderValues(<<<<n, v>>>>, k) = IF Lower(n) = Lower(k) THEN <<v>> ELSE <<>>

LEMMA ReadsOneIs ==
    ASSUME NEW n \in Name, NEW v \in HeaderValue, NEW k
    PROVE  ReadsOne(n, v, k)
<1> DEFINE h == <<n, v>>
           s == <<h>>
<1>1. h \in Header /\ h[1] = n /\ h[2] = v
  BY DEF Header
<1> HIDE DEF h
<1>2. s \in Seq(Header) /\ Len(s) = 1 /\ \A i \in 1..Len(s) : s[i] = h
  <2>1. s \in Seq(Header) /\ Len(s) = 1 /\ s[1] = h
    BY <1>1
  <2>2. \A i \in 1..1 : i = 1
    OBVIOUS
  <2> HIDE DEF s
  <2> QED BY <2>1, <2>2, Zenon
<1> HIDE DEF s
<1>3. GetHeaderValues(s, k) = Seconds(Keep(s, Called(k)))
  <2>1. Reads(s, k)
    BY <1>2, ReadsIs, Zenon
  <2> QED BY <2>1, Zenon DEF Reads
<1>4. CASE Lower(n) = Lower(k)
  <2>1. \A i \in 1..Len(s) : s[i] \in Called(k)
    BY <1>1, <1>2, <1>4, Zenon DEF Called
  <2>2. Keep(s, Called(k)) = s
    BY <1>2, <2>1, KeepAll, Zenon
  <2>3. Seconds(s) = <<v>>
    <3>1. Seconds(s) = [i \in 1..1 |-> s[i][2]]
      BY <1>2, Zenon DEF Seconds
    <3>2. \A i \in 1..1 : s[i][2] = v
      BY <1>1, <1>2, Zenon
    <3>3. Seconds(s) = [i \in 1..1 |-> v]
      BY <3>1, <3>2, Zenon
    <3> QED BY <3>3
  <2> QED BY <1>3, <1>4, <2>2, <2>3, Zenon DEF ReadsOne, s, h
<1>5. CASE Lower(n) # Lower(k)
  <2>1. \A i \in 1..Len(s) : s[i] \notin Called(k)
    BY <1>1, <1>2, <1>5, Zenon DEF Called
  <2>2. Keep(s, Called(k)) = <<>>
    BY <1>2, <2>1, KeepNone, Zenon
  <2>3. Seconds(<<>>) = <<>>
    BY DEF Seconds
  <2> QED BY <1>3, <1>5, <2>2, <2>3, Zenon DEF ReadsOne, s, h
<1> QED BY <1>4, <1>5, Zenon

\* So is one that is appended.
AddsOne(hs, n, v, k) ==
    GetHeaderValues(Append(hs, <<n, v>>), k) =
        IF Lower(n) = Lower(k) THEN Append(GetHeaderValues(hs, k), v) ELSE GetHeaderValues(hs, k)

LEMMA AddsOneIs ==
    ASSUME NEW hs \in Seq(Header), NEW n \in Name, NEW v \in HeaderValue, NEW k
    PROVE  AddsOne(hs, n, v, k)
<1> DEFINE h == <<n, v>>
           g == GetHeaderValues(hs, k)
<1>1. h \in Header
  BY DEF Header
<1>2. ReadsOne(n, v, k)
  BY ReadsOneIs, Zenon
<1>3. g \in Seq(HeaderValue)
  BY ReadsValues, Zenon
<1> HIDE DEF h
<1>4. <<h>> \in Seq(Header) /\ Append(hs, h) = hs \o <<h>>
  BY <1>1
<1>5. ReadsBoth(hs, <<h>>, k)
  BY <1>4, ReadsBothIs, Zenon
<1>6. GetHeaderValues(Append(hs, h), k) = g \o GetHeaderValues(<<h>>, k)
  BY <1>4, <1>5, Zenon DEF ReadsBoth
<1> HIDE DEF g
<1>7. g \o <<v>> = Append(g, v) /\ g \o <<>> = g
  BY <1>3
<1>8. GetHeaderValues(<<h>>, k) = IF Lower(n) = Lower(k) THEN <<v>> ELSE <<>>
  BY <1>2, Zenon DEF ReadsOne, h
<1>9. CASE Lower(n) = Lower(k)
  BY <1>6, <1>7, <1>8, <1>9, Zenon DEF AddsOne, h, g
<1>10. CASE Lower(n) # Lower(k)
  BY <1>6, <1>7, <1>8, <1>10, Zenon DEF AddsOne, h, g
<1> QED BY <1>9, <1>10, Zenon

\* What is left when the headers of some names are removed, or only theirs are kept.
LEMMA LeftIs ==
    ASSUME NEW hs \in Seq(Header), NEW ns
    PROVE  /\ RemoveHeaders(hs, ns) = Keep(hs, {h \in Header : Lower(h[1]) \notin {Lower(n) : n \in ns}})
           /\ SelectHeaders(hs, ns) = Keep(hs, {h \in Header : Lower(h[1]) \in {Lower(n) : n \in ns}})
<1> DEFINE N == {Lower(n) : n \in ns}
           X == {h \in Header : Lower(h[1]) \notin N}
           Y == {h \in Header : Lower(h[1]) \in N}
<1>1. DOMAIN hs = 1..Len(hs) /\ \A i \in 1..Len(hs) : hs[i] \in Header
  OBVIOUS
<1>2. RemoveHeaders(hs, ns) = Pick(hs, {i \in DOMAIN hs : Lower(hs[i][1]) \notin N})
  BY Zenon DEF RemoveHeaders
<1>3. SelectHeaders(hs, ns) = Pick(hs, {i \in DOMAIN hs : Lower(hs[i][1]) \in N})
  BY Zenon DEF SelectHeaders
<1> HIDE DEF N
<1>4. {i \in DOMAIN hs : Lower(hs[i][1]) \notin N} = In(hs, X)
  BY <1>1 DEF In
<1>5. {i \in DOMAIN hs : Lower(hs[i][1]) \in N} = In(hs, Y)
  BY <1>1 DEF In
<1> HIDE DEF X, Y
<1> QED BY <1>2, <1>3, <1>4, <1>5, Zenon DEF Keep, X, Y, N

\* The values that are left.
Leaves(hs, ns, k) ==
    /\ RemoveHeaders(hs, ns) \in Seq(Header) /\ SelectHeaders(hs, ns) \in Seq(Header)
    /\ GetHeaderValues(RemoveHeaders(hs, ns), k) =
           IF Lower(k) \in {Lower(n) : n \in ns} THEN <<>> ELSE GetHeaderValues(hs, k)
    /\ GetHeaderValues(SelectHeaders(hs, ns), k) =
           IF Lower(k) \in {Lower(n) : n \in ns} THEN GetHeaderValues(hs, k) ELSE <<>>

LEMMA LeavesIs ==
    ASSUME NEW hs \in Seq(Header), NEW ns, NEW k
    PROVE  Leaves(hs, ns, k)
<1> DEFINE N == {Lower(n) : n \in ns}
           X == {h \in Header : Lower(h[1]) \notin N}
           Y == {h \in Header : Lower(h[1]) \in N}
           C == Called(k)
           r == RemoveHeaders(hs, ns)
           s == SelectHeaders(hs, ns)
<1>1. r = Keep(hs, X) /\ s = Keep(hs, Y)
  BY LeftIs, Zenon
<1>2. KeptType(hs, X, Header) /\ KeptType(hs, Y, Header) /\ KeptType(hs, C, Header)
  BY KeepType, Zenon
<1>3. r \in Seq(Header) /\ s \in Seq(Header)
  BY <1>1, <1>2, Zenon DEF KeptType
<1>4. Keep(Keep(hs, X), C) = Keep(hs, X \cap C) /\ Keep(Keep(hs, Y), C) = Keep(hs, Y \cap C)
  <2>1. KeptOfKept(hs, X, C) /\ KeptOfKept(hs, Y, C)
    BY KeepKept, Zenon
  <2> QED BY <2>1, Zenon DEF KeptOfKept
<1> HIDE DEF r, s
<1>5. Reads(r, k) /\ Reads(s, k) /\ Reads(hs, k)
  BY <1>3, ReadsIs, Zenon
<1>6. /\ GetHeaderValues(r, k) = Seconds(Keep(hs, X \cap C))
      /\ GetHeaderValues(s, k) = Seconds(Keep(hs, Y \cap C))
      /\ GetHeaderValues(hs, k) = Seconds(Keep(hs, C))
  BY <1>1, <1>4, <1>5, Zenon DEF Reads
<1> HIDE DEF N
<1>7. Seconds(Keep(hs, {})) = <<>>
  <2>1. Keep(hs, {}) = <<>>
    <3>1. \A i \in 1..Len(hs) : hs[i] \notin {}
      OBVIOUS
    <3> QED BY <3>1, KeepNone, Zenon
  <2>2. Seconds(<<>>) = <<>>
    BY DEF Seconds
  <2> QED BY <2>1, <2>2, Zenon
<1>8. CASE Lower(k) \in N
  <2>1. X \cap C = {} /\ Y \cap C = C
    BY <1>8 DEF Called
  <2> HIDE DEF X, Y, C
  <2>2. GetHeaderValues(r, k) = <<>> /\ GetHeaderValues(s, k) = GetHeaderValues(hs, k)
    BY <1>6, <1>7, <2>1, Zenon
  <2> QED BY <1>3, <1>8, <2>2, Zenon DEF Leaves, N, r, s
<1>9. CASE Lower(k) \notin N
  <2>1. X \cap C = C /\ Y \cap C = {}
    BY <1>9 DEF Called
  <2> HIDE DEF X, Y, C
  <2>2. GetHeaderValues(s, k) = <<>> /\ GetHeaderValues(r, k) = GetHeaderValues(hs, k)
    BY <1>6, <1>7, <2>1, Zenon
  <2> QED BY <1>3, <1>9, <2>2, Zenon DEF Leaves, N, r, s
<1> QED BY <1>8, <1>9, Zenon

\* A header that is set is the only one of its name.
SetsOne(hs, n, v, k) ==
    GetHeaderValues(SetHeader(hs, n, v), k) = IF Lower(n) = Lower(k) THEN <<v>> ELSE GetHeaderValues(hs, k)

LEMMA SetsOneIs ==
    ASSUME NEW hs \in Seq(Header), NEW n \in Name, NEW v \in HeaderValue, NEW k
    PROVE  SetsOne(hs, n, v, k)
<1> DEFINE r == RemoveHeaders(hs, {n})
           g == GetHeaderValues(r, k)
           h == GetHeaderValues(hs, k)
<1>1. Leaves(hs, {n}, k)
  BY LeavesIs, Zenon
<1>2. r \in Seq(Header) /\ g = IF Lower(k) \in {Lower(m) : m \in {n}} THEN <<>> ELSE h
  BY <1>1, Zenon DEF Leaves
<1>3. Lower(k) \in {Lower(m) : m \in {n}} <=> Lower(n) = Lower(k)
  BY Zenon
<1> HIDE DEF r
<1>4. AddsOne(r, n, v, k)
  BY <1>2, AddsOneIs, Zenon
<1>5. GetHeaderValues(SetHeader(hs, n, v), k) = IF Lower(n) = Lower(k) THEN Append(g, v) ELSE g
  BY <1>4, Zenon DEF AddsOne, SetHeader, r
<1> HIDE DEF g, h
<1>6. CASE Lower(n) = Lower(k)
  <2>1. g = <<>>
    BY <1>2, <1>3, <1>6, Zenon
  <2>2. Append(<<>>, v) = <<v>>
    OBVIOUS
  <2> QED BY <1>5, <1>6, <2>1, <2>2, Zenon DEF SetsOne
<1>7. CASE Lower(n) # Lower(k)
  <2>1. g = h
    BY <1>2, <1>3, <1>7, Zenon
  <2> QED BY <1>5, <1>7, <2>1, Zenon DEF SetsOne, h
<1> QED BY <1>6, <1>7, Zenon

\* Of several values the last, of none what there was.
LastOf(vs, old) == IF vs = <<>> THEN old ELSE <<vs[Len(vs)]>>

\* Of the headers that are set for a name the last stays.
SetsAll(hs, new, k) ==
    /\ SetHeaders(hs, new) \in Seq(Header)
    /\ GetHeaderValues(SetHeaders(hs, new), k) =
           LastOf(GetHeaderValues(new, k), GetHeaderValues(hs, k))

LEMMA SetsAllIs ==
    ASSUME NEW hs \in Seq(Header), NEW new \in Seq(Header), NEW k
    PROVE  SetsAll(hs, new, k)
<1> DEFINE V(s) == GetHeaderValues(s, k)
           to(n) == SubSeq(new, 1, n)
           l == Len(new)
<1>0. l \in Nat
  OBVIOUS
<1>1. PICK f : SetSoFar(f, hs, new, l) /\ SetHeaders(hs, new) = f[l]
  BY <1>0, SetHeadersIs, Zenon
<1>2. f[0] = hs /\ \A n \in 0..l : n # 0 => f[n] = SetHeader(f[n - 1], new[n][1], new[n][2])
  <2>1. \A n \in 0..l : f[n] = IF n = 0 THEN hs ELSE SetHeader(f[n - 1], new[n][1], new[n][2])
    BY <1>1, Zenon DEF SetSoFar
  <2>2. 0 \in 0..l
    BY <1>0
  <2> QED BY <2>1, <2>2, Zenon
<1>3. to(0) = <<>> /\ to(l) = new /\ \A n \in 0..l : to(n) \in Seq(Header)
  OBVIOUS
<1>4. \A n \in 0..l : n + 1 <= l => to(n + 1) = Append(to(n), new[n + 1])
  OBVIOUS
<1>5. \A n \in 1..l : new[n][1] \in Name /\ new[n][2] \in HeaderValue /\ new[n] = <<new[n][1], new[n][2]>>
  <2> TAKE n \in 1..l
  <2>1. new[n] \in Header
    OBVIOUS
  <2> QED BY <2>1 DEF Header
<1> HIDE DEF l, to, V
<1> DEFINE S == {n \in Nat : n <= l => f[n] \in Seq(Header) /\ V(f[n]) = LastOf(V(to(n)), V(hs))}
<1>6. 0 \in S
  <2>1. V(<<>>) = <<>>
    <3>1. <<>> \in Seq(Header) /\ \A i \in 1..Len(<<>>) : <<>>[i] \notin Called(k)
      OBVIOUS
    <3>2. Keep(<<>>, Called(k)) = <<>>
      BY <3>1, KeepNone, Zenon
    <3>3. Reads(<<>>, k)
      BY <3>1, ReadsIs, Zenon
    <3>4. Seconds(<<>>) = <<>>
      BY DEF Seconds
    <3> QED BY <3>2, <3>3, <3>4, Zenon DEF Reads, V
  <2>2. V(f[0]) = LastOf(V(to(0)), V(hs))
    BY <1>2, <1>3, <2>1, Zenon DEF LastOf
  <2>3. f[0] \in Seq(Header) /\ 0 \in Nat
    BY <1>2
  <2> QED BY <2>2, <2>3, Zenon
<1>7. ASSUME NEW n \in S PROVE n + 1 \in S
  <2>0. n \in Nat /\ n + 1 \in Nat
    OBVIOUS
  <2> SUFFICES ASSUME n + 1 <= l PROVE f[n + 1] \in Seq(Header) /\ V(f[n + 1]) = LastOf(V(to(n + 1)), V(hs))
    BY <2>0, Zenon
  <2>1. n \in 0..l /\ n + 1 \in 1..l /\ n + 1 \in 0..l /\ n + 1 # 0 /\ n + 1 - 1 = n /\ n <= l
    BY <1>0, <2>0
  <2>2. f[n] \in Seq(Header) /\ V(f[n]) = LastOf(V(to(n)), V(hs))
    BY <2>1
  <2> DEFINE m == n + 1
             a == new[m][1]
             v == new[m][2]
             g == f[n]
             t == to(n)
  <2>3. a \in Name /\ v \in HeaderValue /\ new[m] = <<a, v>>
    BY <1>5, <2>1, Zenon
  <2>4. f[m] = SetHeader(g, a, v)
    <3>1. m \in 0..l /\ m # 0 /\ m - 1 = n
      BY <2>1
    <3> HIDE DEF m
    <3>2. f[m] = SetHeader(f[m - 1], new[m][1], new[m][2])
      BY <1>2, <3>1, Zenon
    <3>3. f[m - 1] = f[n]
      BY <3>1
    <3> QED BY <3>2, <3>3, Zenon
  <2>5. t \in Seq(Header) /\ to(m) = Append(t, <<a, v>>)
    BY <1>3, <1>4, <2>1, <2>3, Zenon
  <2> HIDE DEF a, v, g, t, S, m
  <2>6. SetHeader(g, a, v) \in Seq(Header) /\ SetsOne(g, a, v, k)
    BY <2>2, <2>3, SetHeaderType, SetsOneIs, Zenon DEF g
  <2>7. AddsOne(t, a, v, k)
    BY <2>3, <2>5, AddsOneIs, Zenon
  <2>8. V(f[m]) = IF Lower(a) = Lower(k) THEN <<v>> ELSE V(g)
    BY <2>4, <2>6, Zenon DEF SetsOne, V
  <2>9. V(to(m)) = IF Lower(a) = Lower(k) THEN Append(V(t), v) ELSE V(t)
    BY <2>5, <2>7, Zenon DEF AddsOne, V
  <2>10. V(f[m]) = LastOf(V(to(m)), V(hs))
    <3>1. CASE Lower(a) = Lower(k)
      <4>1. V(t) \in Seq(HeaderValue)
        BY <2>5, ReadsValues, Zenon DEF V
      <4> DEFINE w == V(t)
      <4> HIDE DEF w
      <4>2. LastOf(Append(w, v), V(hs)) = <<v>>
        <5>1. Append(w, v) # <<>> /\ Append(w, v)[Len(Append(w, v))] = v
          BY <2>3, <4>1 DEF w
        <5> QED BY <5>1, Zenon DEF LastOf
      <4> QED BY <2>8, <2>9, <3>1, <4>2, Zenon DEF w
    <3>2. CASE Lower(a) # Lower(k)
      BY <2>2, <2>8, <2>9, <3>2, Zenon DEF g, t
    <3> QED BY <3>1, <3>2, Zenon
  <2> QED BY <2>4, <2>6, <2>10, Zenon DEF m
<1>8. \A n \in Nat : n \in S
  <2>1. S \in SUBSET Nat
    OBVIOUS
  <2> HIDE DEF S
  <2> QED BY <1>6, <1>7, <2>1, Induct
<1>9. f[l] \in Seq(Header) /\ V(f[l]) = LastOf(V(to(l)), V(hs))
  <2>1. l \in S /\ l <= l
    BY <1>0, <1>8
  <2> QED BY <2>1
<1> QED BY <1>1, <1>3, <1>9, Zenon DEF SetsAll, V

\* Updating changes the values of the name and no others.
Updates(hs, n, f, k) ==
    /\ UpdateHeaders(hs, n, f) \in Seq(Header)
    /\ GetHeaderValues(UpdateHeaders(hs, n, f), k) =
           IF Lower(n) = Lower(k)
           THEN [i \in DOMAIN GetHeaderValues(hs, k) |-> f[GetHeaderValues(hs, k)[i]]]
           ELSE GetHeaderValues(hs, k)

LEMMA UpdatesIs ==
    ASSUME NEW hs \in Seq(Header), NEW n, NEW f \in [HeaderValue -> HeaderValue], NEW k
    PROVE  Updates(hs, n, f, k)
<1> DEFINE u == UpdateHeaders(hs, n, f)
           C == Called(k)
           h(i) == IF Lower(hs[i][1]) = Lower(n) THEN <<hs[i][1], f[hs[i][2]]>> ELSE hs[i]
           l == Len(hs)
<1>1. l \in Nat /\ DOMAIN hs = 1..l /\ \A i \in 1..l : hs[i] \in Header
  OBVIOUS
<1>2. \A i \in 1..l : /\ h(i) \in Header /\ h(i)[1] = hs[i][1]
                      /\ Lower(hs[i][1]) = Lower(n) => h(i)[2] = f[hs[i][2]]
                      /\ Lower(hs[i][1]) # Lower(n) => h(i)[2] = hs[i][2]
  <2> TAKE i \in 1..l
  <2> DEFINE x == hs[i]
  <2>1. x \in Header
    BY <1>1
  <2> HIDE DEF x
  <2>2. x[1] \in Name /\ f[x[2]] \in HeaderValue
    BY <2>1 DEF Header
  <2>3. <<x[1], f[x[2]]>> \in Header
    BY <2>2 DEF Header
  <2> QED BY <2>1, <2>3 DEF x
<1>3. u = [i \in 1..l |-> h(i)]
  BY <1>1, Zenon DEF UpdateHeaders
<1> HIDE DEF u, h, l
<1>4. u \in [1..l -> Header] /\ \A i \in 1..l : u[i] = h(i)
  BY <1>2, <1>3
<1>5. u \in Seq(Header) /\ Len(u) = l
  BY <1>1, <1>4, FunctionIsSeq, Zenon
<1>6. \A i \in 1..l : hs[i] \in C <=> u[i] \in C
  BY <1>1, <1>2, <1>4, Zenon DEF Called
<1>7. AtSamePlaces(Keep(hs, C), hs, Keep(u, C), u, In(hs, C))
  <2>1. Len(hs) \in Nat /\ Len(u) = Len(hs) /\ \A i \in 1..Len(hs) : hs[i] \in C <=> u[i] \in C
    BY <1>1, <1>5, <1>6, Zenon DEF l
  <2> HIDE DEF C
  <2> QED BY <2>1, KeepAlike, Zenon
<1>8. Reads(hs, k) /\ Reads(u, k)
  BY <1>5, ReadsIs, Zenon
<1>9. \A i \in In(hs, C) : i \in 1..l /\ Lower(hs[i][1]) = Lower(k)
  BY DEF In, Called, l
<1> DEFINE p == Keep(hs, C)
           q == Keep(u, C)
           S == In(hs, C)
<1>10. GetHeaderValues(hs, k) = Seconds(p) /\ GetHeaderValues(u, k) = Seconds(q)
  BY <1>8, Zenon DEF Reads
<1>11. AtSamePlaces(p, hs, q, u, S)
  BY <1>7
<1>12. CASE Lower(n) = Lower(k)
  <2>1. \A i \in S : u[i][2] = f[hs[i][2]]
    BY <1>2, <1>4, <1>9, <1>12, Zenon
  <2> HIDE DEF p, q, S
  <2>2. SecondsPut(q, p, f)
    BY <1>11, <2>1, SecondsChanged, SMT
  <2> QED BY <1>5, <1>10, <1>12, <2>2, Zenon DEF SecondsPut, Updates, u
<1>13. CASE Lower(n) # Lower(k)
  <2>1. \A i \in S : hs[i][2] = u[i][2]
    <3> TAKE i \in S
    <3>1. i \in 1..l /\ Lower(hs[i][1]) # Lower(n)
      BY <1>9, <1>13, Zenon
    <3>2. h(i)[2] = hs[i][2] /\ u[i] = h(i)
      BY <1>2, <1>4, <3>1, Zenon
    <3> QED BY <3>2, Zenon
  <2> HIDE DEF p, q, S
  <2>2. SameSeconds(p, q)
    BY <1>11, <2>1, SecondsAlike, Zenon
  <2> QED BY <1>5, <1>10, <1>13, <2>2, Zenon DEF SameSeconds, Updates, u
<1> QED BY <1>12, <1>13, Zenon

-----------------------------------------------------------------------------
\* Names in lower case.
LowerKey == LowerNames(Name)

LEMMA LoweredIs ==
    /\ \A k \in LowerKey : Lower(k) = k
    /\ \A n \in Name : Lower(n) \in LowerKey
BY HeadersAssumption, Zenon DEF LowerKey, LowerNames

\* A list of named values gives the values that are read of it as headers.
LEMMA GivenIs ==
    ASSUME NEW b \in Seq(Header), NEW k \in LowerKey
    PROVE  Contract!Given(Lowered(b), k) = GetHeaderValues(b, k)
<1> DEFINE l == Lowered(b)
           T == LowerKey \X HeaderValue
           Y == {p \in T : p[1] = k}
           C == Called(k)
           h(i) == <<Lower(b[i][1]), b[i][2]>>
           n == Len(b)
<1>0. Lower(k) = k
  BY LoweredIs, Zenon
<1>1. n \in Nat /\ DOMAIN b = 1..n /\ \A i \in 1..n : b[i] \in Header
  OBVIOUS
<1>2. \A i \in 1..n : h(i) \in T /\ h(i)[1] = Lower(b[i][1]) /\ h(i)[2] = b[i][2]
  <2> TAKE i \in 1..n
  <2>1. b[i][1] \in Name /\ b[i][2] \in HeaderValue
    BY <1>1 DEF Header
  <2>2. Lower(b[i][1]) \in LowerKey
    BY <2>1, LoweredIs, Zenon
  <2> QED BY <2>1, <2>2
<1>3. l = [i \in 1..n |-> h(i)]
  BY <1>1, Zenon DEF Lowered
<1> HIDE DEF l, h, n, T
<1>4. l \in [1..n -> T] /\ \A i \in 1..n : l[i] = h(i)
  BY <1>2, <1>3
<1>5. l \in Seq(T) /\ Len(l) = n
  BY <1>1, <1>4, FunctionIsSeq, Zenon
<1>6. \A i \in 1..n : b[i] \in C <=> l[i] \in Y
  BY <1>0, <1>1, <1>2, <1>4, Zenon DEF Called
<1> DEFINE p == Keep(b, C)
           q == Keep(l, Y)
           S == In(b, C)
<1>7. AtSamePlaces(p, b, q, l, S)
  <2>1. Len(b) \in Nat /\ Len(l) = Len(b) /\ \A i \in 1..Len(b) : b[i] \in C <=> l[i] \in Y
    BY <1>1, <1>5, <1>6, Zenon DEF n
  <2> HIDE DEF C, Y
  <2> QED BY <2>1, KeepAlike, Zenon
<1>8. \A i \in S : b[i][2] = l[i][2]
  <2> TAKE i \in S
  <2>1. i \in 1..n
    BY Zenon DEF In, n
  <2>2. h(i)[2] = b[i][2] /\ l[i] = h(i)
    BY <1>2, <1>4, <2>1, Zenon
  <2> QED BY <2>2
<1>9. KeptType(l, Y, T)
  <2> HIDE DEF Y
  <2> QED BY <1>5, KeepType, Zenon
<1>10. q \in Seq(T)
  BY <1>9, Zenon DEF KeptType
<1>11. {i \in DOMAIN l : l[i][1] = k} = In(l, Y)
  <2>1. DOMAIN l = 1..Len(l) /\ \A i \in 1..Len(l) : l[i] \in T
    BY <1>5
  <2> QED BY <2>1, Zenon DEF In
<1>12. Contract!Pick(l, In(l, Y)) = q
  BY ContractPick, Zenon DEF Keep
<1> HIDE DEF p, q, S
<1>13. SameSeconds(p, q)
  BY <1>7, <1>8, SecondsAlike, Zenon
<1>14. GetHeaderValues(b, k) = Seconds(p)
  <2>1. Reads(b, k)
    BY ReadsIs, Zenon
  <2> QED BY <2>1, Zenon DEF Reads, p
<1>15. DOMAIN q = 1..Len(q)
  BY <1>10
<1>16. Contract!Given(l, k) = [i \in DOMAIN q |-> q[i][2]]
  BY <1>11, <1>12, Zenon DEF Contract!Given
<1>17. Contract!Given(l, k) = Seconds(q)
  BY <1>15, <1>16, Zenon DEF Seconds
<1> QED BY <1>13, <1>14, <1>17, Zenon DEF SameSeconds, l

-----------------------------------------------------------------------------
\* What each operation makes of the values of all names is what the contract says.
LEMMA ValuesAdded ==
    ASSUME NEW hs \in Seq(Header), NEW n \in Name, NEW v \in HeaderValue
    PROVE  ValuesOf(AppendHeader(hs, n, v)) = Contract!Added(ValuesOf(hs), Lower(n), v)
<1> DEFINE h(k) == GetHeaderValues(hs, k)
           g(k) == GetHeaderValues(AppendHeader(hs, n, v), k)
           c == Lower(n)
           f == ValuesOf(hs)
<1>1. \A k \in LowerKey : g(k) = IF k = c THEN Append(h(k), v) ELSE h(k)
  <2> TAKE k \in LowerKey
  <2>1. Lower(k) = k
    BY LoweredIs, Zenon
  <2>2. AddsOne(hs, n, v, k)
    BY AddsOneIs, Zenon
  <2>3. g(k) = IF Lower(n) = Lower(k) THEN Append(h(k), v) ELSE h(k)
    BY <2>2, Zenon DEF AddsOne, AppendHeader
  <2> HIDE DEF g, h
  <2> QED BY <2>1, <2>3
<1>2. f = [k \in LowerKey |-> h(k)] /\ ValuesOf(AppendHeader(hs, n, v)) = [k \in LowerKey |-> g(k)]
  BY Zenon DEF ValuesOf, LowerKey, LowerNames
<1>3. Contract!Added(f, c, v) = [f EXCEPT ![c] = Append(f[c], v)]
  BY Zenon DEF Contract!Added
<1>4. c \in LowerKey
  BY LoweredIs, Zenon
<1> HIDE DEF h, g, c, f
<1>5. [f EXCEPT ![c] = Append(f[c], v)] = [k \in LowerKey |-> IF k = c THEN Append(h(k), v) ELSE h(k)]
  BY <1>2, <1>4
<1>6. [k \in LowerKey |-> g(k)] = [k \in LowerKey |-> IF k = c THEN Append(h(k), v) ELSE h(k)]
  BY <1>1
<1> QED BY <1>2, <1>3, <1>5, <1>6, Zenon DEF c, f

LEMMA ValuesPut ==
    ASSUME NEW hs \in Seq(Header), NEW n \in Name, NEW v \in HeaderValue
    PROVE  ValuesOf(SetHeader(hs, n, v)) = Contract!Put(ValuesOf(hs), Lower(n), v)
<1> DEFINE h(k) == GetHeaderValues(hs, k)
           g(k) == GetHeaderValues(SetHeader(hs, n, v), k)
           c == Lower(n)
           f == ValuesOf(hs)
<1>1. \A k \in LowerKey : g(k) = IF k = c THEN <<v>> ELSE h(k)
  <2> TAKE k \in LowerKey
  <2>1. Lower(k) = k
    BY LoweredIs, Zenon
  <2>2. SetsOne(hs, n, v, k)
    BY SetsOneIs, Zenon
  <2>3. g(k) = IF Lower(n) = Lower(k) THEN <<v>> ELSE h(k)
    BY <2>2, Zenon DEF SetsOne
  <2> HIDE DEF g, h
  <2> QED BY <2>1, <2>3
<1>2. f = [k \in LowerKey |-> h(k)] /\ ValuesOf(SetHeader(hs, n, v)) = [k \in LowerKey |-> g(k)]
  BY Zenon DEF ValuesOf, LowerKey, LowerNames
<1>3. Contract!Put(f, c, v) = [f EXCEPT ![c] = <<v>>]
  BY Zenon DEF Contract!Put
<1>4. c \in LowerKey
  BY LoweredIs, Zenon
<1> HIDE DEF h, g, c, f
<1>5. [f EXCEPT ![c] = <<v>>] = [k \in LowerKey |-> IF k = c THEN <<v>> ELSE h(k)]
  BY <1>2, <1>4
<1>6. [k \in LowerKey |-> g(k)] = [k \in LowerKey |-> IF k = c THEN <<v>> ELSE h(k)]
  BY <1>1
<1> QED BY <1>2, <1>3, <1>5, <1>6, Zenon DEF c, f

LEMMA ValuesAddedAll ==
    ASSUME NEW hs \in Seq(Header), NEW new \in Seq(Header)
    PROVE  ValuesOf(AppendHeaders(hs, new)) = Contract!AddedAll(ValuesOf(hs), Lowered(new))
<1> DEFINE h(k) == GetHeaderValues(hs, k)
           g(k) == GetHeaderValues(AppendHeaders(hs, new), k)
           w(k) == Contract!Given(Lowered(new), k)
           f == ValuesOf(hs)
<1>1. \A k \in LowerKey : g(k) = h(k) \o w(k)
  <2> TAKE k \in LowerKey
  <2>1. ReadsBoth(hs, new, k)
    BY ReadsBothIs, Zenon
  <2>2. Contract!Given(Lowered(new), k) = GetHeaderValues(new, k)
    BY GivenIs, Zenon
  <2> QED BY <2>1, <2>2, Zenon DEF ReadsBoth, AppendHeaders
<1>2. f = [k \in LowerKey |-> h(k)] /\ ValuesOf(AppendHeaders(hs, new)) = [k \in LowerKey |-> g(k)]
  BY Zenon DEF ValuesOf, LowerKey, LowerNames
<1>3. Contract!AddedAll(f, Lowered(new)) = [k \in LowerKey |-> f[k] \o w(k)]
  BY Zenon DEF Contract!AddedAll, LowerKey, LowerNames
<1> HIDE DEF h, g, w, f
<1>4. \A k \in LowerKey : f[k] = h(k)
  BY <1>2
<1>5. [k \in LowerKey |-> g(k)] = [k \in LowerKey |-> f[k] \o w(k)]
  BY <1>1, <1>4, Zenon
<1> QED BY <1>2, <1>3, <1>5, Zenon DEF f

LEMMA ValuesPutAll ==
    ASSUME NEW hs \in Seq(Header), NEW new \in Seq(Header)
    PROVE  ValuesOf(SetHeaders(hs, new)) = Contract!PutAll(ValuesOf(hs), Lowered(new))
<1> DEFINE h(k) == GetHeaderValues(hs, k)
           g(k) == GetHeaderValues(SetHeaders(hs, new), k)
           w(k) == Contract!Given(Lowered(new), k)
           f == ValuesOf(hs)
<1>1. \A k \in LowerKey : g(k) = LastOf(w(k), h(k))
  <2> TAKE k \in LowerKey
  <2>1. SetsAll(hs, new, k)
    BY SetsAllIs, Zenon
  <2>2. Contract!Given(Lowered(new), k) = GetHeaderValues(new, k)
    BY GivenIs, Zenon
  <2> QED BY <2>1, <2>2, Zenon DEF SetsAll
<1>2. f = [k \in LowerKey |-> h(k)] /\ ValuesOf(SetHeaders(hs, new)) = [k \in LowerKey |-> g(k)]
  BY Zenon DEF ValuesOf, LowerKey, LowerNames
<1>3. Contract!PutAll(f, Lowered(new)) = [k \in LowerKey |-> LastOf(w(k), f[k])]
  BY Zenon DEF Contract!PutAll, LowerKey, LowerNames, LastOf
<1> HIDE DEF h, g, w, f
<1>4. \A k \in LowerKey : f[k] = h(k)
  BY <1>2
<1>5. [k \in LowerKey |-> g(k)] = [k \in LowerKey |-> LastOf(w(k), f[k])]
  BY <1>1, <1>4, Zenon
<1> QED BY <1>2, <1>3, <1>5, Zenon DEF f

LEMMA ValuesEdited ==
    ASSUME NEW hs \in Seq(Header), NEW n \in Name, NEW e \in [HeaderValue -> HeaderValue]
    PROVE  ValuesOf(UpdateHeaders(hs, n, e)) = Contract!Edited(ValuesOf(hs), Lower(n), e)
<1> DEFINE h(k) == GetHeaderValues(hs, k)
           g(k) == GetHeaderValues(UpdateHeaders(hs, n, e), k)
           c == Lower(n)
           f == ValuesOf(hs)
           d(s) == [i \in DOMAIN s |-> e[s[i]]]
<1>1. \A k \in LowerKey : g(k) = IF k = c THEN d(h(k)) ELSE h(k)
  <2> TAKE k \in LowerKey
  <2>1. Lower(k) = k
    BY LoweredIs, Zenon
  <2>2. Updates(hs, n, e, k)
    BY UpdatesIs, Zenon
  <2>3. g(k) = IF Lower(n) = Lower(k) THEN d(h(k)) ELSE h(k)
    BY <2>2, Zenon DEF Updates
  <2> HIDE DEF g, h, d
  <2> QED BY <2>1, <2>3
<1>2. f = [k \in LowerKey |-> h(k)] /\ ValuesOf(UpdateHeaders(hs, n, e)) = [k \in LowerKey |-> g(k)]
  BY Zenon DEF ValuesOf, LowerKey, LowerNames
<1>3. Contract!Edited(f, c, e) = [f EXCEPT ![c] = d(f[c])]
  BY Zenon DEF Contract!Edited
<1>4. c \in LowerKey
  BY LoweredIs, Zenon
<1> HIDE DEF h, g, c, f, d
<1>5. [f EXCEPT ![c] = d(f[c])] = [k \in LowerKey |-> IF k = c THEN d(h(k)) ELSE h(k)]
  BY <1>2, <1>4
<1>6. [k \in LowerKey |-> g(k)] = [k \in LowerKey |-> IF k = c THEN d(h(k)) ELSE h(k)]
  BY <1>1
<1> QED BY <1>2, <1>3, <1>5, <1>6, Zenon DEF c, f

\* Names that are removed, or the others if only they are kept.
LEMMA ValuesLeft ==
    ASSUME NEW hs \in Seq(Header), NEW ns
    PROVE  LET N == {Lower(n) : n \in ns}
           IN  /\ ValuesOf(RemoveHeaders(hs, ns)) = Contract!Without(ValuesOf(hs), N)
               /\ ValuesOf(SelectHeaders(hs, ns)) = Contract!Without(ValuesOf(hs), LowerKey \ N)
<1> DEFINE N == {Lower(n) : n \in ns}
           h(k) == GetHeaderValues(hs, k)
           r(k) == GetHeaderValues(RemoveHeaders(hs, ns), k)
           s(k) == GetHeaderValues(SelectHeaders(hs, ns), k)
           f == ValuesOf(hs)
<1>1. \A k \in LowerKey : /\ r(k) = IF k \in N THEN <<>> ELSE h(k)
                         /\ s(k) = IF k \in LowerKey \ N THEN <<>> ELSE h(k)
  <2> TAKE k \in LowerKey
  <2>1. Lower(k) = k
    BY LoweredIs, Zenon
  <2>2. Leaves(hs, ns, k)
    BY LeavesIs, Zenon
  <2>3. r(k) = IF Lower(k) \in N THEN <<>> ELSE h(k)
    BY <2>2, Zenon DEF Leaves
  <2>4. s(k) = IF Lower(k) \in N THEN h(k) ELSE <<>>
    BY <2>2, Zenon DEF Leaves
  <2> HIDE DEF r, s, h, N
  <2> QED BY <2>1, <2>3, <2>4
<1>2. /\ f = [k \in LowerKey |-> h(k)]
      /\ ValuesOf(RemoveHeaders(hs, ns)) = [k \in LowerKey |-> r(k)]
      /\ ValuesOf(SelectHeaders(hs, ns)) = [k \in LowerKey |-> s(k)]
  BY Zenon DEF ValuesOf, LowerKey, LowerNames
<1>3. \A K : Contract!Without(f, K) = [k \in LowerKey |-> IF k \in K THEN <<>> ELSE f[k]]
  BY Zenon DEF Contract!Without, LowerKey, LowerNames
<1> HIDE DEF h, r, s, f, N
<1>4. \A k \in LowerKey : f[k] = h(k)
  BY <1>2
<1>5. [k \in LowerKey |-> r(k)] = [k \in LowerKey |-> IF k \in N THEN <<>> ELSE f[k]]
  BY <1>1, <1>4
<1>6. [k \in LowerKey |-> s(k)] = [k \in LowerKey |-> IF k \in LowerKey \ N THEN <<>> ELSE f[k]]
  BY <1>1, <1>4
<1> QED BY <1>2, <1>3, <1>5, <1>6, Zenon DEF f, N

-----------------------------------------------------------------------------
\* A decoded pair, and one of which something is written.
PlainPairs   == {p \in Seq(Letter) \X SUBSET Seq(Letter) : IsValue(p[2])}
Something == {p \in PlainPairs : ~(p[1] = <<>> /\ p[2] = {})}

\* What is decoded of a pair that http4t has encoded.
LEMMA DecodeEncoded ==
    ASSUME NEW n \in Seq(Letter), NEW v, IsValue(v)
    PROVE  DecodePair(EncodePair(n, v)) = <<n, v>> /\ EncodePair(n, v) \in Seq(Unit)
<1> DEFINE p == EncodePair(n, v)
           d == DecodePair(p)
<1>1. Shows(p, n, v)
  BY EncodePairShows, Zenon
<1>2. p \in Seq(Unit) /\ ReadsAlike(p) /\ OthersDecode(NamePart(p)) = n /\ OthersValue(p) = v
  BY <1>1, Zenon DEF Shows
<1> HIDE DEF p
<1>3. DecodesPair(p)
  BY <1>2, DecodePairIs, Zenon
<1>4. d[1] = n /\ d[2] = v
  BY <1>2, <1>3, Zenon DEF DecodesPair
<1>5. \E a, b : d = <<a, b>>
  BY Zenon DEF DecodePair
<1> HIDE DEF d
<1>6. d = <<n, v>>
  BY <1>4, <1>5
<1> QED BY <1>2, <1>6, Zenon DEF p, d

\* The decoded pairs of a query.
DecodesAll(d, q) ==
    /\ d \in Seq(PlainPairs) /\ Len(d) = Len(q)
    /\ \A i \in 1..Len(q) : d[i] = DecodePair(q[i]) /\ (d[i] \in Something <=> q[i] # <<>>)

LEMMA DecodePairsIs ==
    ASSUME NEW q \in Seq(Seq(Unit))
    PROVE  DecodesAll(DecodePairs(q), q)
<1> DEFINE h(i) == DecodePair(q[i])
           n == Len(q)
           d == DecodePairs(q)
<1>1. n \in Nat /\ DOMAIN q = 1..n /\ \A i \in 1..n : q[i] \in Seq(Unit)
  OBVIOUS
<1>2. \A i \in 1..n : h(i) \in PlainPairs /\ (h(i) \in Something <=> q[i] # <<>>)
  <2> TAKE i \in 1..n
  <2> DEFINE p == q[i]
             e == DecodePair(p)
  <2>1. DecodesPair(p)
    BY <1>1, DecodePairIs, Zenon
  <2>2. \E a, b : e = <<a, b>>
    BY Zenon DEF DecodePair
  <2>3. /\ e[1] \in Seq(Letter) /\ IsValue(e[2])
        /\ p = <<>> <=> e[1] = <<>> /\ e[2] = {}
    BY <2>1, Zenon DEF DecodesPair
  <2> HIDE DEF e, p
  <2>4. e \in Seq(Letter) \X SUBSET Seq(Letter)
    BY <2>2, <2>3 DEF IsValue
  <2>5. e \in PlainPairs /\ (e \in Something <=> p # <<>>)
    BY <2>3, <2>4, Zenon DEF PlainPairs, Something
  <2> QED BY <2>5 DEF e, p
<1>3. d = [i \in 1..n |-> h(i)]
  BY <1>1, Zenon DEF DecodePairs
<1> HIDE DEF d, h, n
<1>4. d \in [1..n -> PlainPairs] /\ \A i \in 1..n : d[i] = h(i)
  BY <1>2, <1>3
<1>5. d \in Seq(PlainPairs) /\ Len(d) = n
  BY <1>1, <1>4, FunctionIsSeq, Zenon
<1> QED BY <1>2, <1>4, <1>5, Zenon DEF DecodesAll, d, h, n

\* The pairs of a query are the decoded ones of which something is written.
ReadsPairs(q) ==
    /\ PairsOf(q) = Keep(DecodePairs(q), Something)
    /\ PairsOf(q) \in Seq(PlainPairs)

LEMMA PairsIs ==
    ASSUME NEW q \in Seq(Seq(Unit))
    PROVE  ReadsPairs(q)
<1> DEFINE d == DecodePairs(q)
           n == Len(q)
<1>1. DecodesAll(d, q)
  BY DecodePairsIs, Zenon
<1>2. d \in Seq(PlainPairs) /\ Len(d) = n /\ \A i \in 1..n : d[i] \in Something <=> q[i] # <<>>
  BY <1>1, Zenon DEF DecodesAll
<1>3. DOMAIN q = 1..n
  OBVIOUS
<1> HIDE DEF d, n
<1>4. {i \in DOMAIN q : q[i] # <<>>} = In(d, Something)
  BY <1>2, <1>3 DEF In
<1>5. PairsOf(q) = Keep(d, Something)
  BY <1>4, Zenon DEF PairsOf, Keep, d
<1>6. KeptType(d, Something, PlainPairs)
  BY <1>2, KeepType, Zenon
<1> QED BY <1>5, <1>6, Zenon DEF KeptType, ReadsPairs, d

\* The pairs of two queries, one behind the other.
PairsOfBoth(q, r) == PairsOf(q \o r) = PairsOf(q) \o PairsOf(r)

LEMMA PairsBoth ==
    ASSUME NEW q \in Seq(Seq(Unit)), NEW r \in Seq(Seq(Unit))
    PROVE  PairsOfBoth(q, r) /\ q \o r \in Seq(Seq(Unit))
<1> DEFINE u == q \o r
           a == DecodePairs(q)
           b == DecodePairs(r)
           c == DecodePairs(u)
           d == a \o b
<1>1. u \in Seq(Seq(Unit)) /\ Joint(u, q, r)
  BY JointIs, Zenon
<1>2. DecodesAll(a, q) /\ DecodesAll(b, r)
  BY DecodePairsIs, Zenon
<1>3. DecodesAll(c, u)
  <2> HIDE DEF u
  <2> QED BY <1>1, DecodePairsIs, Zenon
<1>4. a \in Seq(PlainPairs) /\ b \in Seq(PlainPairs) /\ Len(a) = Len(q) /\ Len(b) = Len(r)
  BY <1>2, Zenon DEF DecodesAll
<1> HIDE DEF a, b, c, u
<1>5. d \in Seq(PlainPairs) /\ Joint(d, a, b)
  BY <1>4, JointIs, Zenon
<1> HIDE DEF d
<1>6. Len(q) \in Nat /\ Len(r) \in Nat
  OBVIOUS
<1>7. c \in Seq(PlainPairs) /\ Len(c) = Len(u) /\ \A i \in 1..Len(u) : c[i] = DecodePair(u[i])
  BY <1>3, Zenon DEF DecodesAll
<1>8. /\ \A i \in 1..Len(q) : a[i] = DecodePair(q[i])
      /\ \A i \in 1..Len(r) : b[i] = DecodePair(r[i])
  BY <1>2, Zenon DEF DecodesAll
<1>9. /\ Len(u) = Len(q) + Len(r)
      /\ \A i \in 1..(Len(q) + Len(r)) : u[i] = IF i <= Len(q) THEN q[i] ELSE r[i - Len(q)]
  BY <1>1, Zenon DEF Joint
<1>10. /\ Len(d) = Len(q) + Len(r)
       /\ \A i \in 1..(Len(q) + Len(r)) : d[i] = IF i <= Len(q) THEN a[i] ELSE b[i - Len(q)]
  BY <1>4, <1>5, Zenon DEF Joint
<1>11. \A i \in 1..Len(c) : c[i] = d[i]
  <2> TAKE i \in 1..Len(c)
  <2>1. i \in 1..(Len(q) + Len(r)) /\ i \in 1..Len(u)
    BY <1>7, <1>9
  <2>2. CASE i <= Len(q)
    <3>1. i \in 1..Len(q)
      BY <2>1, <2>2
    <3>2. u[i] = q[i] /\ d[i] = a[i]
      BY <1>9, <1>10, <2>1, <2>2, Zenon
    <3> QED BY <1>7, <1>8, <2>1, <3>1, <3>2, Zenon
  <2>3. CASE ~(i <= Len(q))
    <3> DEFINE j == i - Len(q)
    <3>1. j \in 1..Len(r)
      BY <1>6, <2>1, <2>3
    <3>2. u[i] = r[j] /\ d[i] = b[j]
      BY <1>9, <1>10, <2>1, <2>3, Zenon
    <3> HIDE DEF j
    <3> QED BY <1>7, <1>8, <2>1, <3>1, <3>2, Zenon
  <2> QED BY <2>2, <2>3
<1>12. c = d
  <2>1. Len(c) = Len(d)
    BY <1>7, <1>9, <1>10, Zenon
  <2> QED BY <1>5, <1>7, <1>11, <2>1, SeqEqual, Zenon
<1>13. KeptOfBoth(a, b, Something)
  BY <1>4, KeepBoth, Zenon
<1>14. ReadsPairs(q) /\ ReadsPairs(r) /\ ReadsPairs(u)
  BY <1>1, PairsIs, Zenon
<1>15. PairsOf(q) = Keep(a, Something) /\ PairsOf(r) = Keep(b, Something) /\ PairsOf(u) = Keep(c, Something)
  BY <1>14, Zenon DEF ReadsPairs, a, b, c
<1>16. PairsOf(u) = PairsOf(q) \o PairsOf(r)
  BY <1>12, <1>13, <1>15, Zenon DEF KeptOfBoth, d
<1> QED BY <1>1, <1>16, Zenon DEF PairsOfBoth, u

\* Pairs that http4t writes are read as they were meant.
WritesPairs(ps) ==
    /\ EncodePairs(ps) \in Seq(Seq(Unit))
    /\ DecodePairs(EncodePairs(ps)) = ps
    /\ PairsOf(EncodePairs(ps)) = Keep(ps, Something)

LEMMA WritesPairsIs ==
    ASSUME NEW ps \in Seq(PlainPairs)
    PROVE  WritesPairs(ps)
<1> DEFINE h(i) == EncodePair(ps[i][1], ps[i][2])
           n == Len(ps)
           q == EncodePairs(ps)
           d == DecodePairs(q)
<1>1. n \in Nat /\ DOMAIN ps = 1..n /\ \A i \in 1..n : ps[i] \in PlainPairs
  OBVIOUS
<1>2. \A i \in 1..n : h(i) \in Seq(Unit) /\ DecodePair(h(i)) = ps[i]
  <2> TAKE i \in 1..n
  <2> DEFINE p == ps[i]
  <2>1. p \in PlainPairs
    BY <1>1
  <2> HIDE DEF p
  <2>2. p[1] \in Seq(Letter) /\ IsValue(p[2]) /\ p = <<p[1], p[2]>>
    BY <2>1 DEF PlainPairs
  <2>3. EncodePair(p[1], p[2]) \in Seq(Unit) /\ DecodePair(EncodePair(p[1], p[2])) = p
    BY <2>2, DecodeEncoded, Zenon
  <2> QED BY <2>3 DEF p
<1>3. q = [i \in 1..n |-> h(i)]
  BY <1>1, Zenon DEF EncodePairs
<1> HIDE DEF q, h, n
<1>4. q \in [1..n -> Seq(Unit)] /\ \A i \in 1..n : q[i] = h(i)
  BY <1>2, <1>3
<1>5. q \in Seq(Seq(Unit)) /\ Len(q) = n
  BY <1>1, <1>4, FunctionIsSeq, Zenon
<1>6. DecodesAll(d, q) /\ ReadsPairs(q)
  BY <1>5, DecodePairsIs, PairsIs, Zenon
<1> HIDE DEF d
<1>7. d \in Seq(PlainPairs) /\ Len(d) = n /\ \A i \in 1..n : d[i] = DecodePair(q[i])
  BY <1>5, <1>6, Zenon DEF DecodesAll
<1>8. \A i \in 1..n : d[i] = ps[i]
  BY <1>2, <1>4, <1>7, Zenon
<1>9. d = ps
  <2>1. Len(d) = Len(ps) /\ \A i \in 1..Len(d) : d[i] = ps[i]
    BY <1>7, <1>8, Zenon DEF n
  <2> QED BY <1>7, <2>1, SeqEqual, Zenon
<1>10. PairsOf(q) = Keep(d, Something)
  BY <1>6, Zenon DEF ReadsPairs, d
<1> QED BY <1>5, <1>9, <1>10, Zenon DEF WritesPairs, q, d

\* What remains of a query has the other pairs.
OthersOf(q, N) == PairsOf(Filtered(q, N)) = Contract!Others(PairsOf(q), N)

\* The pairs of other names.
Elsewhere(N) == {p \in PlainPairs : p[1] \notin N}

LEMMA OthersIs ==
    ASSUME NEW ps \in Seq(PlainPairs), NEW N
    PROVE  Contract!Others(ps, N) = Keep(ps, Elsewhere(N))
<1>1. DOMAIN ps = 1..Len(ps) /\ \A i \in 1..Len(ps) : ps[i] \in PlainPairs
  OBVIOUS
<1>2. {i \in DOMAIN ps : ps[i][1] \notin N} = In(ps, Elsewhere(N))
  BY <1>1 DEF In, Elsewhere
<1> QED BY <1>2, ContractPick, Zenon DEF Contract!Others, Keep

LEMMA PairsFiltered ==
    ASSUME NEW q \in Seq(Seq(Unit)), NEW N
    PROVE  OthersOf(q, N)
<1> DEFINE d == DecodePairs(q)
           E == Elsewhere(N)
           f == Keep(d, E)
           n == Len(q)
<1>1. DecodesAll(d, q) /\ ReadsPairs(q)
  BY DecodePairsIs, PairsIs, Zenon
<1> HIDE DEF d
<1>2. d \in Seq(PlainPairs) /\ Len(d) = n /\ \A i \in 1..n : d[i] = DecodePair(q[i]) /\ d[i] \in PlainPairs
  <2>1. d \in Seq(PlainPairs) /\ Len(d) = n /\ \A i \in 1..n : d[i] = DecodePair(q[i])
    BY <1>1, Zenon DEF DecodesAll
  <2>2. \A i \in 1..Len(d) : d[i] \in PlainPairs
    BY <2>1
  <2> QED BY <2>1, <2>2, Zenon
<1>3. DOMAIN q = 1..n
  OBVIOUS
<1> HIDE DEF n
<1>4. {i \in DOMAIN q : DecodePair(q[i])[1] \notin N} = In(d, E)
  BY <1>2, <1>3 DEF In, Elsewhere
<1>5. Filtered(q, N) = EncodePairs(f)
  BY <1>4, Zenon DEF Filtered, Keep, d
<1>6. KeptType(d, E, PlainPairs)
  <2> HIDE DEF E
  <2> QED BY <1>2, KeepType, Zenon
<1>7. f \in Seq(PlainPairs)
  BY <1>6, Zenon DEF KeptType
<1>8. WritesPairs(f)
  <2> HIDE DEF f
  <2> QED BY <1>7, WritesPairsIs, Zenon
<1>9. PairsOf(Filtered(q, N)) = Keep(f, Something)
  BY <1>5, <1>8, Zenon DEF WritesPairs
<1> HIDE DEF E
<1>10. KeptOfKept(d, E, Something) /\ KeptOfKept(d, Something, E)
  BY <1>2, KeepKept, Zenon
<1>11. E \cap Something = Something \cap E
  BY Zenon
<1>12. Keep(f, Something) = Keep(Keep(d, Something), E)
  BY <1>10, <1>11, Zenon DEF KeptOfKept
<1>13. PairsOf(q) = Keep(d, Something) /\ PairsOf(q) \in Seq(PlainPairs)
  BY <1>1, Zenon DEF ReadsPairs, d
<1>14. Contract!Others(PairsOf(q), N) = Keep(PairsOf(q), E)
  BY <1>13, OthersIs, Zenon DEF E
<1> QED BY <1>9, <1>12, <1>13, <1>14, Zenon DEF OthersOf

\* A query in which nothing is written has no pairs.
LEMMA NoPairs ==
    ASSUME NEW q \in Seq(Seq(Unit)), \A i \in 1..Len(q) : q[i] = <<>>
    PROVE  PairsOf(q) = <<>>
<1> DEFINE d == DecodePairs(q)
<1>1. DecodesAll(d, q) /\ ReadsPairs(q)
  BY DecodePairsIs, PairsIs, Zenon
<1>2. PairsOf(q) = Keep(d, Something)
  BY <1>1, Zenon DEF ReadsPairs
<1> HIDE DEF d
<1>3. d \in Seq(PlainPairs) /\ \A i \in 1..Len(d) : d[i] \notin Something
  BY <1>1, Zenon DEF DecodesAll
<1>4. Keep(d, Something) = <<>>
  BY <1>3, KeepNone, Zenon
<1> QED BY <1>2, <1>4, Zenon

LEMMA EmptyPairs == ASSUME NEW q, IsEmpty(q) PROVE PairsOf(q) = <<>>
<1>1. CASE q = <<>>
  <2>1. q \in Seq(Seq(Unit)) /\ \A i \in 1..Len(q) : q[i] = <<>>
    BY <1>1
  <2> QED BY <2>1, NoPairs, Zenon
<1>2. CASE q = <<<<>>>>
  <2> DEFINE e == <<>>
  <2>1. e \in Seq(Unit)
    OBVIOUS
  <2> HIDE DEF e
  <2>2. <<e>> \in Seq(Seq(Unit)) /\ \A i \in 1..Len(<<e>>) : <<e>>[i] = e
    BY <2>1
  <2>3. q \in Seq(Seq(Unit)) /\ \A i \in 1..Len(q) : q[i] = <<>>
    BY <1>2, <2>2, Zenon DEF e
  <2> QED BY <2>3, NoPairs, Zenon
<1> QED BY <1>1, <1>2, Zenon DEF IsEmpty

\* New pairs of a name.
Names(n, vs) ==
    /\ EncodePairs(Expanded(n, vs)) \in Seq(Seq(Unit))
    /\ PairsOf(EncodePairs(Expanded(n, vs))) = Contract!Named(n, vs)
    /\ Contract!Named(n, vs) \in Seq(PlainPairs)
    /\ vs = <<>> => EncodePairs(Expanded(n, vs)) = <<>>

LEMMA NamesIs ==
    ASSUME NEW n \in Seq(Letter), NEW vs, IsValues(vs)
    PROVE  Names(n, vs)
<1> DEFINE h(i) == <<n, vs[i]>>
           l == Len(vs)
           e == Expanded(n, vs)
           q == EncodePairs(e)
<1>1. l \in Nat /\ DOMAIN vs = 1..l /\ \A i \in 1..l : IsValue(vs[i])
  BY DEF IsValues, IsValue
<1>2. \A i \in 1..l : h(i) \in PlainPairs /\ (h(i) \in Something <=> n # <<>> \/ vs[i] # {})
  <2> TAKE i \in 1..l
  <2> DEFINE v == vs[i]
             p == <<n, v>>
  <2>1. IsValue(v)
    BY <1>1
  <2> HIDE DEF v
  <2>2. p \in Seq(Letter) \X SUBSET Seq(Letter) /\ p[1] = n /\ p[2] = v
    BY <2>1 DEF IsValue
  <2> HIDE DEF p
  <2>3. p \in PlainPairs /\ (p \in Something <=> n # <<>> \/ v # {})
    BY <2>1, <2>2, Zenon DEF PlainPairs, Something
  <2> QED BY <2>3 DEF p, v
<1>3. e = [i \in 1..l |-> h(i)]
  BY <1>1, Zenon DEF Expanded
<1> HIDE DEF e, h, l
<1>4. e \in [1..l -> PlainPairs] /\ \A i \in 1..l : e[i] = h(i)
  BY <1>2, <1>3
<1>5. e \in Seq(PlainPairs) /\ Len(e) = l
  BY <1>1, <1>4, FunctionIsSeq, Zenon
<1>6. WritesPairs(e) /\ KeptType(e, Something, PlainPairs)
  BY <1>5, WritesPairsIs, KeepType, Zenon
<1>7. {i \in DOMAIN vs : n # <<>> \/ vs[i] # {}} = In(e, Something)
  BY <1>1, <1>2, <1>4, <1>5, Zenon DEF In
<1>8. Contract!Named(n, vs) = Keep(e, Something)
  BY <1>7, ContractPick, Zenon DEF Contract!Named, Keep, e, Expanded
<1>9. q \in Seq(Seq(Unit)) /\ PairsOf(q) = Keep(e, Something)
  BY <1>6, Zenon DEF WritesPairs
<1>10. Keep(e, Something) \in Seq(PlainPairs)
  BY <1>6, Zenon DEF KeptType
<1>11. ASSUME vs = <<>> PROVE q = <<>>
  <2>1. l = 0
    BY <1>11 DEF l
  <2>2. e = <<>>
    BY <1>5, <2>1
  <2> QED BY <2>2 DEF EncodePairs
<1> QED BY <1>8, <1>9, <1>10, <1>11, Zenon DEF Names, e

\* What a pair without a value says is its text.
LEMMA StrayPairs ==
    /\ <<<<"undefined">>>> \in Seq(Seq(Unit))
    /\ PairsOf(<<<<"undefined">>>>) = <<Contract!Stray>>
<1> DEFINE w == "undefined"
           t == <<w>>
           v == {}
           p == <<t, v>>
           ps == <<p>>
<1>1. w \in Letter /\ Escape(w) = w /\ w # " "
  <2>1. w \in Letter
    BY Letters, Zenon
  <2>2. w # " " /\ w # "+" /\ w # "=" /\ w # "%"
    OBVIOUS
  <2>3. Escape(w) = w
    BY <2>2, Zenon DEF Escape
  <2> QED BY <2>1, <2>2, <2>3, Zenon
<1> HIDE DEF w
<1>2. t \in Seq(Letter) /\ Len(t) = 1 /\ t[1] = w /\ DOMAIN t = 1..1
  <2>1. t \in Seq(Letter)
    <3>1. w \in Letter
      BY <1>1, Zenon
    <3> QED BY <3>1
  <2>2. Len(t) = 1 /\ t[1] = w
    OBVIOUS
  <2> HIDE DEF t
  <2> QED BY <2>1, <2>2
<1> HIDE DEF t
<1>3. \A i \in 1..Len(t) : i = 1 /\ t[i] = w
  BY <1>2
<1>4. Place(t, " ") = 2
  <2>1. \A i \in 1..Len(t) : t[i] # " "
    BY <1>1, <1>3, Zenon
  <2> DEFINE m == Place(t, " ")
  <2>2. m = Len(t) + 1
    BY <1>2, <2>1, NoPlace, Zenon
  <2> HIDE DEF m
  <2>3. m = 2
    BY <1>2, <2>2
  <2> QED BY <2>3, Zenon DEF m
<1>5. Encode(t) = t
  <2>1. Encode(t) = [i \in DOMAIN t |-> IF i = 2 THEN "+" ELSE Escape(t[i])]
    BY <1>4, Zenon DEF Encode
  <2>2. \A i \in DOMAIN t : i # 2 /\ Escape(t[i]) = t[i]
    <3> TAKE i \in DOMAIN t
    <3>1. i = 1 /\ i # 2
      BY <1>2
    <3>2. Escape(t[1]) = t[1]
      BY <1>1, <1>2, Zenon
    <3> QED BY <3>1, <3>2, Zenon
  <2>3. Encode(t) = [i \in DOMAIN t |-> t[i]]
    BY <2>1, <2>2, Zenon
  <2>4. t = [i \in DOMAIN t |-> t[i]]
    BY <1>2
  <2> QED BY <2>3, <2>4, Zenon
<1>6. EncodePair(t, v) = t
  <2>1. t \o <<>> = t
    BY <1>2
  <2> QED BY <1>5, <2>1, Zenon DEF EncodePair
<1>7. p \in Seq(Letter) \X SUBSET Seq(Letter) /\ p[1] = t /\ p[2] = v /\ t # <<>>
  BY <1>2
<1>8. p \in PlainPairs /\ p \in Something
  <2> HIDE DEF p
  <2> QED BY <1>7, Zenon DEF PlainPairs, Something, IsValue
<1> HIDE DEF p, v
<1>9. ps \in Seq(PlainPairs) /\ Len(ps) = 1 /\ \A i \in DOMAIN ps : ps[i] = p
  BY <1>8
<1>10. WritesPairs(ps)
  <2> HIDE DEF ps
  <2> QED BY <1>9, WritesPairsIs, Zenon
<1>11. EncodePairs(ps) = <<t>>
  <2>1. DOMAIN ps = 1..1
    OBVIOUS
  <2>2. \A i \in 1..1 : ps[i][1] = t /\ ps[i][2] = v
    BY <1>7, <1>9, <2>1, Zenon
  <2> HIDE DEF ps
  <2>3. EncodePairs(ps) = [i \in 1..1 |-> EncodePair(ps[i][1], ps[i][2])]
    BY <2>1, Zenon DEF EncodePairs
  <2>4. EncodePairs(ps) = [i \in 1..1 |-> t]
    BY <1>6, <2>2, <2>3, Zenon
  <2>5. [i \in 1..1 |-> t] = <<t>>
    OBVIOUS
  <2> QED BY <2>4, <2>5, Zenon
<1>12. Keep(ps, Something) = ps
  <2>1. \A i \in 1..Len(ps) : ps[i] \in Something
    <3>1. DOMAIN ps = 1..Len(ps)
      BY <1>9
    <3> QED BY <1>8, <1>9, <3>1, Zenon
  <2> HIDE DEF ps
  <2> QED BY <1>9, <2>1, KeepAll, Zenon
<1>13. <<t>> \in Seq(Seq(Unit)) /\ PairsOf(<<t>>) = ps
  BY <1>10, <1>11, <1>12, Zenon DEF WritesPairs
<1> QED BY <1>13, Zenon DEF t, w, ps, p, v, Contract!Stray

\* What appending leads to.
Adds(q, n, vs) ==
    /\ AppendQuery(q, n, vs) \in Seq(Seq(Unit))
    /\ PairsOf(AppendQuery(q, n, vs)) \in Contract!Add(PairsOf(q), n, vs)

LEMMA AddsIs ==
    ASSUME NEW q \in Seq(Seq(Unit)), NEW n \in Seq(Letter), NEW vs, IsValues(vs)
    PROVE  Adds(q, n, vs)
<1> DEFINE e == EncodePairs(Expanded(n, vs))
           s == <<<<"undefined">>>>
           m == Contract!Named(n, vs)
           ps == PairsOf(q)
<1>1. Names(n, vs)
  BY NamesIs, Zenon
<1>2. e \in Seq(Seq(Unit)) /\ PairsOf(e) = m /\ m \in Seq(PlainPairs) /\ (vs = <<>> => e = <<>>)
  BY <1>1, Zenon DEF Names
<1>3. ReadsPairs(q)
  BY PairsIs, Zenon
<1>4. ps \in Seq(PlainPairs)
  BY <1>3, Zenon DEF ReadsPairs
<1>5. s \in Seq(Seq(Unit)) /\ PairsOf(s) = <<Contract!Stray>>
  BY StrayPairs, Zenon
<1> HIDE DEF e, s, m
<1>6. PairsOfBoth(q, e) /\ q \o e \in Seq(Seq(Unit)) /\ PairsOfBoth(q, s) /\ q \o s \in Seq(Seq(Unit))
  BY <1>2, <1>5, PairsBoth, Zenon
<1>7. PairsOf(q \o e) = ps \o m /\ PairsOf(q \o s) = ps \o <<Contract!Stray>>
  BY <1>2, <1>5, <1>6, Zenon DEF PairsOfBoth
<1> HIDE DEF ps
<1>8. CASE IsEmpty(q)
  <2>1. ps = <<>>
    BY <1>8, EmptyPairs, Zenon DEF ps
  <2>2. AppendQuery(q, n, vs) = e
    BY <1>8, Zenon DEF AppendQuery, e
  <2>3. CASE vs = <<>>
    <3>1. PairsOf(e) = ps
      <4>1. IsEmpty(e)
        BY <1>2, <2>3, Zenon DEF IsEmpty
      <4> QED BY <2>1, <4>1, EmptyPairs, Zenon
    <3>2. Contract!Add(ps, n, vs) = {<<>>, <<Contract!Stray>>}
      BY <2>1, <2>3, Zenon DEF Contract!Add
    <3>3. ps \in Contract!Add(ps, n, vs)
      BY <2>1, <3>2, Zenon
    <3> QED BY <1>2, <2>2, <3>1, <3>3, Zenon DEF Adds, ps
  <2>4. CASE vs # <<>>
    <3>1. m = <<>> \o m
      BY <1>2
    <3>2. m = ps \o m
      BY <2>1, <3>1, Zenon
    <3>3. ps \o m \in Contract!Add(ps, n, vs)
      BY <2>4, Zenon DEF Contract!Add, m
    <3> QED BY <1>2, <2>2, <3>2, <3>3, Zenon DEF Adds, ps
  <2> QED BY <2>3, <2>4, Zenon
<1>9. CASE ~IsEmpty(q)
  <2>1. CASE vs = <<>>
    <3>1. AppendQuery(q, n, vs) = q \o s
      BY <1>9, <2>1, Zenon DEF AppendQuery, s
    <3> DEFINE x == Contract!Stray
    <3> HIDE DEF x
    <3>2. ps \o <<x>> = Append(ps, x)
      BY <1>4
    <3>3. Append(ps, x) \in Contract!Add(ps, n, vs)
      <4>1. ps # <<>> => Contract!Add(ps, n, vs) = {Append(ps, x)}
        BY <2>1, Zenon DEF Contract!Add, x
      <4>2. ps = <<>> => Contract!Add(ps, n, vs) = {<<>>, <<x>>} /\ Append(ps, x) = <<x>>
        <5>1. Append(<<>>, x) = <<x>>
          OBVIOUS
        <5> QED BY <2>1, <5>1, Zenon DEF Contract!Add, x
      <4> QED BY <4>1, <4>2, Zenon
    <3> QED BY <1>6, <1>7, <3>1, <3>2, <3>3, Zenon DEF Adds, ps, x
  <2>2. CASE vs # <<>>
    <3>1. AppendQuery(q, n, vs) = q \o e
      BY <1>9, <2>2, Zenon DEF AppendQuery, e
    <3>2. ps \o m \in Contract!Add(ps, n, vs)
      BY <2>2, Zenon DEF Contract!Add, m
    <3> QED BY <1>6, <1>7, <3>1, <3>2, Zenon DEF Adds, ps
  <2> QED BY <2>1, <2>2, Zenon
<1> QED BY <1>8, <1>9, Zenon

\* f counts through what adding a batch may lead to.
AfterSoFar(f, ps, batch, n) ==
    f = [i \in 0..n |->
            IF i = 0 THEN {ps}
            ELSE UNION {Contract!Add(p, batch[i][1], batch[i][2]) : p \in f[i - 1]}]

\* There is such a function.
LEMMA AfterExists ==
    ASSUME NEW ps, NEW batch
    PROVE  \A n \in Nat : \E f : AfterSoFar(f, ps, batch, n)
<1> DEFINE S == {n \in Nat : \E f : AfterSoFar(f, ps, batch, n)}
           G(x, i) == UNION {Contract!Add(p, batch[i][1], batch[i][2]) : p \in x}
           F(g, i) == IF i = 0 THEN {ps} ELSE G(g[i - 1], i)
<1>1. 0 \in S
  <2> DEFINE e == [i \in 0..0 |-> {ps}]
  <2>1. \A i \in 0..0 : F(e, i) = {ps}
    <3> HIDE DEF G
    <3> QED OBVIOUS
  <2>2. e = [i \in 0..0 |-> F(e, i)]
    <3> HIDE DEF F
    <3> QED BY <2>1
  <2>3. AfterSoFar(e, ps, batch, 0)
    BY <2>2, Zenon DEF AfterSoFar
  <2> HIDE DEF e
  <2> QED BY <2>3
<1>2. ASSUME NEW n \in S PROVE n + 1 \in S
  <2>0. n \in Nat
    OBVIOUS
  <2>1. PICK f : f = [i \in 0..n |-> F(f, i)]
    BY Zenon DEF AfterSoFar
  <2> DEFINE g == [i \in 0..(n + 1) |-> F(f, i)]
  <2>2. \A i \in 0..n : g[i] = f[i]
    <3> HIDE DEF F
    <3> TAKE i \in 0..n
    <3>1. i \in 0..(n + 1)
      BY <2>0
    <3>2. f[i] = F(f, i)
      BY <2>1
    <3> QED BY <3>1, <3>2
  <2>3. ASSUME NEW i \in 0..(n + 1) PROVE F(f, i) = F(g, i)
    <3>1. i # 0 => g[i - 1] = f[i - 1]
      <4>1. i # 0 => i - 1 \in 0..n
        BY <2>0
      <4> HIDE DEF g
      <4> QED BY <4>1, <2>2
    <3> HIDE DEF g, G
    <3> QED BY <3>1, Zenon
  <2>4. g = [i \in 0..(n + 1) |-> F(g, i)]
    <3> HIDE DEF F
    <3> QED BY <2>3
  <2>5. AfterSoFar(g, ps, batch, n + 1)
    BY <2>4, Zenon DEF AfterSoFar
  <2> HIDE DEF g
  <2> QED BY <2>0, <2>5
<1>3. \A n \in Nat : n \in S
  <2>1. S \in SUBSET Nat
    OBVIOUS
  <2> HIDE DEF S
  <2> QED BY <1>1, <1>2, <2>1, Induct
<1> QED BY <1>3

\* What adding a batch may lead to, pair by pair.
LEMMA AddAllIs ==
    ASSUME NEW ps, NEW batch, Len(batch) \in Nat
    PROVE  \E f : AfterSoFar(f, ps, batch, Len(batch)) /\ Contract!AddAll(ps, batch) = f[Len(batch)]
<1> DEFINE after[i \in 0..Len(batch)] ==
              IF i = 0 THEN {ps}
              ELSE UNION {Contract!Add(p, batch[i][1], batch[i][2]) : p \in after[i - 1]}
<1>1. \E f : f = [i \in 0..Len(batch) |->
                     IF i = 0 THEN {ps}
                     ELSE UNION {Contract!Add(p, batch[i][1], batch[i][2]) : p \in f[i - 1]}]
  <2>1. \E f : AfterSoFar(f, ps, batch, Len(batch))
    BY AfterExists, Zenon
  <2> QED BY <2>1, Zenon DEF AfterSoFar
<1>2. after = [i \in 0..Len(batch) |->
                  IF i = 0 THEN {ps}
                  ELSE UNION {Contract!Add(p, batch[i][1], batch[i][2]) : p \in after[i - 1]}]
  BY <1>1, Zenon
<1>3. Contract!AddAll(ps, batch) = after[Len(batch)]
  BY Zenon DEF Contract!AddAll
<1> HIDE DEF after
<1> QED BY <1>2, <1>3, Zenon DEF AfterSoFar

\* What appending a batch leads to.
AddsBatch(q, batch) ==
    PairsOf(AppendQueries(q, batch)) \in Contract!AddAll(PairsOf(q), batch)

LEMMA AddsBatchIs ==
    ASSUME NEW q \in Seq(Seq(Unit)), NEW batch, IsBatch(batch)
    PROVE  AddsBatch(q, batch)
<1> DEFINE l == Len(batch)
           ps == PairsOf(q)
<1>0. l \in Nat /\ \A n \in 1..l : batch[n][1] \in Seq(Letter) /\ IsValues(batch[n][2])
  <2>1. l \in Nat /\ \A n \in 1..l : batch[n] \in QueryName \X Seq(SUBSET Seq(Letter))
    BY DEF IsBatch
  <2>2. QueryName \subseteq Seq(Letter)
    BY QueryAssumption, Zenon
  <2>3. \A p \in QueryName \X Seq(SUBSET Seq(Letter)) : p[1] \in QueryName
    OBVIOUS
  <2>4. \A n \in 1..l : IsValues(batch[n][2])
    BY Zenon DEF IsBatch
  <2> HIDE DEF l
  <2> QED BY <2>1, <2>2, <2>3, <2>4, Zenon
<1>1. PICK f : AppendSoFar(f, q, batch, l) /\ AppendQueries(q, batch) = f[l]
  BY <1>0, AppendQueriesIs, Zenon
<1>2. PICK g : AfterSoFar(g, ps, batch, l) /\ Contract!AddAll(ps, batch) = g[l]
  BY <1>0, AddAllIs, Zenon
<1> HIDE DEF l, ps
<1>3. 0 \in 0..l
  BY <1>0
<1>4. f[0] = q /\ \A n \in 0..l : n # 0 => f[n] = AppendQuery(f[n - 1], batch[n][1], batch[n][2])
  <2>1. \A n \in 0..l : f[n] = IF n = 0 THEN q ELSE AppendQuery(f[n - 1], batch[n][1], batch[n][2])
    BY <1>1, Zenon DEF AppendSoFar
  <2> QED BY <1>3, <2>1, Zenon
<1>5. g[0] = {ps} /\ \A n \in 0..l : n # 0 =>
          \A p \in g[n - 1] : Contract!Add(p, batch[n][1], batch[n][2]) \subseteq g[n]
  <2>1. \A n \in 0..l : g[n] = IF n = 0 THEN {ps}
                               ELSE UNION {Contract!Add(p, batch[n][1], batch[n][2]) : p \in g[n - 1]}
    BY <1>2, Zenon DEF AfterSoFar
  <2>2. g[0] = {ps}
    BY <1>3, <2>1, Zenon
  <2>3. ASSUME NEW n \in 0..l, n # 0, NEW p \in g[n - 1]
        PROVE  Contract!Add(p, batch[n][1], batch[n][2]) \subseteq g[n]
    <3> DEFINE A(r) == Contract!Add(r, batch[n][1], batch[n][2])
               before == g[n - 1]
               U == {A(r) : r \in before}
    <3>1. g[n] = UNION U
      BY <2>1, <2>3, Zenon
    <3> HIDE DEF A, before
    <3>2. A(p) \in U
      BY <2>3, Zenon DEF before
    <3> HIDE DEF U
    <3>3. A(p) \subseteq UNION U
      BY <3>2, Zenon
    <3> QED BY <3>1, <3>3, Zenon DEF A
  <2> QED BY <2>2, <2>3, Zenon
<1> DEFINE S == {n \in Nat : n <= l => f[n] \in Seq(Seq(Unit)) /\ PairsOf(f[n]) \in g[n]}
<1>6. 0 \in S
  <2>1. f[0] \in Seq(Seq(Unit)) /\ PairsOf(f[0]) \in g[0]
    BY <1>4, <1>5, Zenon DEF ps
  <2>2. 0 \in Nat
    OBVIOUS
  <2> QED BY <2>1, <2>2, Zenon
<1>7. ASSUME NEW n \in S PROVE n + 1 \in S
  <2>0. n \in Nat /\ n + 1 \in Nat
    OBVIOUS
  <2> SUFFICES ASSUME n + 1 <= l PROVE f[n + 1] \in Seq(Seq(Unit)) /\ PairsOf(f[n + 1]) \in g[n + 1]
    BY <2>0, Zenon
  <2>1. n + 1 \in 0..l /\ n + 1 # 0 /\ n + 1 \in 1..l /\ n + 1 - 1 = n /\ n <= l
    BY <1>0, <2>0
  <2>2. f[n] \in Seq(Seq(Unit)) /\ PairsOf(f[n]) \in g[n]
    BY <2>1
  <2> DEFINE m == n + 1
             a == batch[m][1]
             b == batch[m][2]
  <2>3. f[m] = AppendQuery(f[n], a, b) /\ Contract!Add(PairsOf(f[n]), a, b) \subseteq g[m]
    <3>1. m \in 0..l /\ m # 0 /\ m - 1 = n
      BY <2>1
    <3> HIDE DEF m
    <3>2. f[m] = AppendQuery(f[m - 1], a, b) /\ \A p \in g[m - 1] : Contract!Add(p, a, b) \subseteq g[m]
      BY <1>4, <1>5, <3>1, Zenon
    <3>3. f[m - 1] = f[n] /\ g[m - 1] = g[n]
      BY <3>1
    <3> QED BY <2>2, <3>2, <3>3, Zenon
  <2>4. a \in Seq(Letter) /\ IsValues(b)
    BY <1>0, <2>1, Zenon
  <2> HIDE DEF a, b, m, S
  <2>5. Adds(f[n], a, b)
    BY <2>2, <2>4, AddsIs, Zenon
  <2>6. f[m] \in Seq(Seq(Unit)) /\ PairsOf(f[m]) \in g[m]
    BY <2>3, <2>5, Zenon DEF Adds
  <2> QED BY <2>6, Zenon DEF m
<1>8. \A n \in Nat : n \in S
  <2>1. S \in SUBSET Nat
    OBVIOUS
  <2> HIDE DEF S
  <2> QED BY <1>6, <1>7, <2>1, Induct
<1>9. PairsOf(f[l]) \in g[l]
  <2>1. l \in S /\ l <= l
    BY <1>0, <1>8
  <2> QED BY <2>1
<1> QED BY <1>1, <1>2, <1>9, Zenon DEF AddsBatch, ps

-----------------------------------------------------------------------------
\* The others of the others, and of no names all.
OthersTwice(ps, N, M) == Contract!Others(Contract!Others(ps, N), M) = Contract!Others(ps, N \union M)

LEMMA OthersAgain ==
    ASSUME NEW ps \in Seq(PlainPairs), NEW N, NEW M
    PROVE  OthersTwice(ps, N, M)
<1> DEFINE o == Keep(ps, Elsewhere(N))
<1>1. Contract!Others(ps, N) = o
  BY OthersIs, Zenon
<1>2. KeptType(ps, Elsewhere(N), PlainPairs)
  BY KeepType, Zenon
<1>3. o \in Seq(PlainPairs)
  BY <1>2, Zenon DEF KeptType
<1>4. Contract!Others(o, M) = Keep(o, Elsewhere(M))
  <2> HIDE DEF o
  <2> QED BY <1>3, OthersIs, Zenon
<1>5. KeptOfKept(ps, Elsewhere(N), Elsewhere(M))
  BY KeepKept, Zenon
<1>6. Elsewhere(N) \cap Elsewhere(M) = Elsewhere(N \union M)
  BY DEF Elsewhere
<1>7. Contract!Others(ps, N \union M) = Keep(ps, Elsewhere(N \union M))
  BY OthersIs, Zenon
<1> QED BY <1>1, <1>4, <1>5, <1>6, <1>7, Zenon DEF KeptOfKept, OthersTwice

LEMMA OthersAll == ASSUME NEW ps \in Seq(PlainPairs) PROVE Contract!Others(ps, {}) = ps
<1>1. \A i \in 1..Len(ps) : ps[i] \in Elsewhere({})
  BY DEF Elsewhere
<1>2. Keep(ps, Elsewhere({})) = ps
  BY <1>1, KeepAll, Zenon
<1> QED BY <1>2, OthersIs, Zenon

\* What removing several names leads to.
Removes(q, ns) == PairsOf(RemoveQueries(q, ns)) = Contract!Others(PairsOf(q), ToSet(ns))

LEMMA RemovesIs ==
    ASSUME NEW q \in Seq(Seq(Unit)), NEW T, NEW ns \in Seq(T)
    PROVE  Removes(q, ns)
<1> DEFINE l == Len(ns)
           ps == PairsOf(q)
           to(n) == {ns[i] : i \in 1..n}
<1>0. l \in Nat
  OBVIOUS
<1>1. PICK f : RemoveSoFar(f, q, ns, l) /\ RemoveQueries(q, ns) = f[l]
  BY <1>0, RemoveQueriesIs, Zenon
<1>2. ReadsPairs(q)
  BY PairsIs, Zenon
<1>3. ps \in Seq(PlainPairs)
  BY <1>2, Zenon DEF ReadsPairs
<1>4. to(0) = {} /\ to(l) = ToSet(ns)
  <2>1. 1..0 = {} /\ DOMAIN ns = 1..l
    BY <1>0
  <2> HIDE DEF l
  <2> QED BY <2>1, Zenon DEF ToSet
<1>5. \A n \in Nat : to(n + 1) = to(n) \union {ns[n + 1]}
  <2> TAKE n \in Nat
  <2>1. 1..(n + 1) = (1..n) \union {n + 1}
    OBVIOUS
  <2> QED BY <2>1, Zenon
<1> HIDE DEF l, ps, to
<1>6. 0 \in 0..l
  BY <1>0
<1>7. f[0] = q /\ \A n \in 0..l : n # 0 => f[n] = Filtered(f[n - 1], {ns[n]})
  <2>1. \A n \in 0..l : f[n] = IF n = 0 THEN q ELSE RemoveQuery(f[n - 1], ns[n])
    BY <1>1, Zenon DEF RemoveSoFar
  <2> QED BY <1>6, <2>1, Zenon DEF RemoveQuery
<1> DEFINE S == {n \in Nat : n <= l => f[n] \in Seq(Seq(Unit)) /\ PairsOf(f[n]) = Contract!Others(ps, to(n))}
<1>8. 0 \in S
  <2>1. f[0] \in Seq(Seq(Unit)) /\ PairsOf(f[0]) = Contract!Others(ps, to(0))
    <3>1. Contract!Others(ps, {}) = ps
      BY <1>3, OthersAll, Zenon
    <3> QED BY <1>4, <1>7, <3>1, Zenon DEF ps
  <2>2. 0 \in Nat
    OBVIOUS
  <2> QED BY <2>1, <2>2, Zenon
<1>9. ASSUME NEW n \in S PROVE n + 1 \in S
  <2>0. n \in Nat /\ n + 1 \in Nat
    OBVIOUS
  <2> SUFFICES ASSUME n + 1 <= l
               PROVE  f[n + 1] \in Seq(Seq(Unit)) /\ PairsOf(f[n + 1]) = Contract!Others(ps, to(n + 1))
    BY <2>0, Zenon
  <2>1. n + 1 \in 0..l /\ n + 1 # 0 /\ n + 1 - 1 = n /\ n <= l
    BY <1>0, <2>0
  <2>2. f[n] \in Seq(Seq(Unit)) /\ PairsOf(f[n]) = Contract!Others(ps, to(n))
    BY <2>1
  <2> DEFINE m == n + 1
             N == {ns[m]}
  <2>3. f[m] = Filtered(f[n], N) /\ to(m) = to(n) \union N
    <3>1. to(m) = to(n) \union N
      BY <1>5, <2>0, Zenon
    <3>2. m \in 0..l /\ m # 0 /\ m - 1 = n
      BY <2>1
    <3> HIDE DEF m
    <3>3. f[m] = Filtered(f[m - 1], N)
      BY <1>7, <3>2, Zenon
    <3>4. f[m - 1] = f[n]
      BY <3>2
    <3> QED BY <3>1, <3>3, <3>4, Zenon
  <2> HIDE DEF m, N, S
  <2>4. f[m] \in Seq(Seq(Unit)) /\ OthersOf(f[n], N)
    BY <2>2, <2>3, FilteredType, PairsFiltered, Zenon
  <2>5. PairsOf(f[m]) = Contract!Others(Contract!Others(ps, to(n)), N)
    BY <2>2, <2>3, <2>4, Zenon DEF OthersOf
  <2>6. PairsOf(f[m]) = Contract!Others(ps, to(m))
    <3> DEFINE M == to(n)
    <3> HIDE DEF M
    <3>1. OthersTwice(ps, M, N)
      BY <1>3, OthersAgain, Zenon
    <3> QED BY <2>3, <2>5, <3>1, Zenon DEF OthersTwice, M
  <2> QED BY <2>4, <2>6, Zenon DEF m
<1>10. \A n \in Nat : n \in S
  <2>1. S \in SUBSET Nat
    OBVIOUS
  <2> HIDE DEF S
  <2> QED BY <1>8, <1>9, <2>1, Induct
<1>11. PairsOf(f[l]) = Contract!Others(ps, to(l))
  <2>1. l \in S /\ l <= l
    BY <1>0, <1>10
  <2> QED BY <2>1
<1> QED BY <1>1, <1>4, <1>11, Zenon DEF Removes, ps

-----------------------------------------------------------------------------
\* An edit of the headers is one of what the program has, and the query stays.
Edits(hs) ==
    /\ headers \in Seq(Header)
    /\ ValuesOf(Own) = ValuesOf(headers)
    /\ ValuesOf(Own)' = ValuesOf(hs)
    /\ PairsOf(query)' = PairsOf(query)

LEMMA EditsIs ==
    ASSUME HeadersInv, UNCHANGED queryVars, NEW hs, Becomes(hs)
    PROVE  Edits(hs)
<1>1. transport = "none" /\ transport' = "none" /\ headers' = hs
  BY Zenon DEF Becomes
<1>2. "none" \notin Transport
  BY DEF Transport
<1>3. headers \in Seq(Header) /\ Own = headers /\ Own' = hs
  BY <1>1, <1>2, Zenon DEF HeadersInv, Own
<1>4. ValuesOf(Own)' = ValuesOf(hs)
  <2>1. ValuesOf(Own') = ValuesOf(hs)
    BY <1>3, Zenon
  <2> QED BY <2>1
<1>5. PairsOf(query)' = PairsOf(query)
  <2>1. query' = query
    BY Zenon DEF queryVars
  <2>2. PairsOf(query') = PairsOf(query)
    BY <2>1, Zenon
  <2> QED BY <2>2
<1> QED BY <1>3, <1>4, <1>5, Zenon DEF Edits

\* Each operation on the headers does what the contract says of it.
LEMMA HeadersDo ==
    ASSUME HeadersInv, UNCHANGED queryVars
    PROVE  HeaderOperations
<1> DEFINE f == ValuesOf(Own)
<1>1. ASSUME NEW n \in Name, NEW v \in HeaderValue, AddHeader(n, v)
      PROVE  Contract!AppendHeader(Lower(n), v)
  <2>1. Edits(AppendHeader(headers, n, v))
    BY <1>1, EditsIs, Zenon DEF AddHeader
  <2>2. ValuesOf(AppendHeader(headers, n, v)) = Contract!Added(ValuesOf(headers), Lower(n), v)
    BY <2>1, ValuesAdded, Zenon DEF Edits
  <2> QED BY <2>1, <2>2, Zenon DEF Edits, Contract!AppendHeader
<1>2. ASSUME NEW n \in Name, NEW v \in HeaderValue, PutHeader(n, v)
      PROVE  Contract!SetHeader(Lower(n), v)
  <2>1. Edits(SetHeader(headers, n, v))
    BY <1>2, EditsIs, Zenon DEF PutHeader
  <2>2. ValuesOf(SetHeader(headers, n, v)) = Contract!Put(ValuesOf(headers), Lower(n), v)
    BY <2>1, ValuesPut, Zenon DEF Edits
  <2> QED BY <2>1, <2>2, Zenon DEF Edits, Contract!SetHeader
<1>3. ASSUME NEW b \in Batch PROVE b \in Seq(Header)
  BY HeadersAssumption, Zenon DEF Header
<1>4. ASSUME NEW b \in Batch, AddHeaders(b) PROVE Contract!AppendHeaders(Lowered(b))
  <2>1. Edits(AppendHeaders(headers, b))
    BY <1>4, EditsIs, Zenon DEF AddHeaders
  <2>2. ValuesOf(AppendHeaders(headers, b)) = Contract!AddedAll(ValuesOf(headers), Lowered(b))
    BY <1>3, <2>1, ValuesAddedAll, Zenon DEF Edits
  <2> QED BY <2>1, <2>2, Zenon DEF Edits, Contract!AppendHeaders
<1>5. ASSUME NEW b \in Batch, PutHeaders(b) PROVE Contract!SetHeaders(Lowered(b))
  <2>1. Edits(SetHeaders(headers, b))
    BY <1>5, EditsIs, Zenon DEF PutHeaders
  <2>2. ValuesOf(SetHeaders(headers, b)) = Contract!PutAll(ValuesOf(headers), Lowered(b))
    BY <1>3, <2>1, ValuesPutAll, Zenon DEF Edits
  <2> QED BY <2>1, <2>2, Zenon DEF Edits, Contract!SetHeaders
<1>6. ASSUME NEW n \in Name, NEW e \in Edit, Update(n, e)
      PROVE  Contract!UpdateHeaders(Lower(n), e)
  <2>1. Edits(UpdateHeaders(headers, n, e))
    BY <1>6, EditsIs, Zenon DEF Update
  <2>2. e \in [HeaderValue -> HeaderValue]
    BY HeadersAssumption, Zenon
  <2>3. ValuesOf(UpdateHeaders(headers, n, e)) = Contract!Edited(ValuesOf(headers), Lower(n), e)
    BY <2>1, <2>2, ValuesEdited, Zenon DEF Edits
  <2> QED BY <2>1, <2>3, Zenon DEF Edits, Contract!UpdateHeaders
<1>7. ASSUME NEW ns \in SUBSET Name, DropHeaders(ns) PROVE Contract!RemoveHeaders(LowerNames(ns))
  <2>1. Edits(RemoveHeaders(headers, ns))
    BY <1>7, EditsIs, Zenon DEF DropHeaders
  <2>2. ValuesOf(RemoveHeaders(headers, ns)) = Contract!Without(ValuesOf(headers), LowerNames(ns))
    BY <2>1, ValuesLeft, Zenon DEF Edits, LowerNames
  <2> QED BY <2>1, <2>2, Zenon DEF Edits, Contract!RemoveHeaders
<1>8. ASSUME NEW ns \in SUBSET Name, KeepHeaders(ns) PROVE Contract!SelectHeaders(LowerNames(ns))
  <2>1. Edits(SelectHeaders(headers, ns))
    BY <1>8, EditsIs, Zenon DEF KeepHeaders
  <2>2. ValuesOf(SelectHeaders(headers, ns)) =
            Contract!Without(ValuesOf(headers), LowerNames(Name) \ LowerNames(ns))
    BY <2>1, ValuesLeft, Zenon DEF Edits, LowerNames, LowerKey
  <2> QED BY <2>1, <2>2, Zenon DEF Edits, Contract!SelectHeaders
<1>9. ASSUME NEW t \in Transport, Carry(t) PROVE Leave
  <2>1. transport = "none" /\ transport' = t /\ sent' = headers
    BY <1>9, Zenon DEF Carry
  <2>2. t # "none"
    BY DEF Transport
  <2>3. Own' = Own /\ query' = query
    BY <2>1, <2>2, Zenon DEF Own, queryVars
  <2>4. ValuesOf(Own') = ValuesOf(Own) /\ PairsOf(query') = PairsOf(query)
    BY <2>3, Zenon
  <2> QED BY <2>4 DEF Leave, Contract!contractVars
<1> QED BY <1>1, <1>2, <1>4, <1>5, <1>6, <1>7, <1>8, <1>9, Zenon DEF HeaderOperations

\* A change of the query is one of its pairs, and the headers stay.
Changes(q) ==
    /\ query \in Seq(Seq(Unit))
    /\ PairsOf(query)' = PairsOf(q)
    /\ ValuesOf(Own)' = ValuesOf(Own)

LEMMA ChangesIs ==
    ASSUME QueryTypeOK, UNCHANGED headerVars, NEW q, NEW ns, Changed(q, ns)
    PROVE  Changes(q)
<1>1. query' = q /\ Own' = Own
  BY Zenon DEF Changed, headerVars, Own
<1>2. PairsOf(query') = PairsOf(q) /\ ValuesOf(Own') = ValuesOf(Own)
  BY <1>1, Zenon
<1> QED BY <1>2 DEF Changes, QueryTypeOK

\* Each operation on the query does what the contract says of it.
LEMMA QueryDo ==
    ASSUME QueryTypeOK, UNCHANGED headerVars
    PROVE  QueryOperations
<1> DEFINE ps == PairsOf(query)
<1>0. query \in Seq(Seq(Unit)) /\ QueryName \subseteq Seq(Letter) /\ \A vs \in QueryValues : IsValues(vs)
  BY QueryAssumption, Zenon DEF QueryTypeOK
<1>1. \A batch \in QueryBatch : IsBatch(batch) /\ NamesOf(batch) = Contract!NamesIn(batch)
  <2> TAKE batch \in QueryBatch
  <2>1. batch \in Seq(QueryName \X Seq(SUBSET Seq(Letter))) /\ \A i \in DOMAIN batch : IsValues(batch[i][2])
    BY QueryAssumption, Zenon
  <2>2. DOMAIN batch = 1..Len(batch)
    BY <2>1
  <2> QED BY <2>1, <2>2, Zenon DEF IsBatch, NamesOf, Contract!NamesIn
<1>2. \A N : Filtered(query, N) \in Seq(Seq(Unit)) /\ PairsOf(Filtered(query, N)) = Contract!Others(ps, N)
  <2> TAKE N
  <2>1. OthersOf(query, N)
    BY <1>0, PairsFiltered, Zenon
  <2> QED BY <1>0, <2>1, FilteredType, Zenon DEF OthersOf
<1>3. ASSUME NEW n \in QueryName, NEW vs \in QueryValues
      PROVE  /\ AppendOne(n, vs) => Contract!AppendQuery(n, vs)
             /\ SetOne(n, vs) => Contract!SetQuery(n, vs)
  <2> DEFINE o == Filtered(query, {n})
  <2>1. n \in Seq(Letter) /\ IsValues(vs)
    BY <1>0
  <2>2. Adds(query, n, vs) /\ Adds(o, n, vs)
    BY <1>0, <1>2, <2>1, AddsIs, Zenon
  <2>3. PairsOf(AppendQuery(query, n, vs)) \in Contract!Add(ps, n, vs)
    BY <2>2, Zenon DEF Adds
  <2>4. PairsOf(AppendQuery(o, n, vs)) \in Contract!Add(Contract!Others(ps, {n}), n, vs)
    BY <1>2, <2>2, Zenon DEF Adds
  <2>5. AppendOne(n, vs) => Changes(AppendQuery(query, n, vs))
    BY ChangesIs, Zenon DEF AppendOne
  <2>6. SetOne(n, vs) => Changes(AppendQuery(o, n, vs))
    BY ChangesIs, Zenon DEF SetOne, SetQuery, RemoveQuery
  <2> QED BY <2>3, <2>4, <2>5, <2>6, Zenon DEF Changes, Contract!AppendQuery, Contract!SetQuery
<1>4. ASSUME NEW batch \in QueryBatch
      PROVE  /\ AppendAll(batch) => Contract!AppendQueries(batch)
             /\ SetAll(batch) => Contract!SetQueries(batch)
  <2> DEFINE N == Contract!NamesIn(batch)
             o == Filtered(query, N)
  <2>1. IsBatch(batch) /\ NamesOf(batch) = N
    BY <1>1
  <2>2. AddsBatch(query, batch) /\ AddsBatch(o, batch)
    BY <1>0, <1>2, <2>1, AddsBatchIs, Zenon
  <2>3. PairsOf(AppendQueries(query, batch)) \in Contract!AddAll(ps, batch)
    BY <2>2, Zenon DEF AddsBatch
  <2>4. PairsOf(AppendQueries(o, batch)) \in Contract!AddAll(Contract!Others(ps, N), batch)
    BY <1>2, <2>2, Zenon DEF AddsBatch
  <2>5. AppendAll(batch) => Changes(AppendQueries(query, batch))
    BY ChangesIs, Zenon DEF AppendAll
  <2>6. SetAll(batch) => Changes(AppendQueries(o, batch))
    BY <2>1, ChangesIs, Zenon DEF SetAll, SetQueries
  <2> QED BY <2>3, <2>4, <2>5, <2>6, Zenon DEF Changes, Contract!AppendQueries, Contract!SetQueries
<1>5. ASSUME NEW ns \in BoundedSeq(QueryName, 2) \ {<<>>}, RemoveAll(ns)
      PROVE  Contract!RemoveQueries(ToSet(ns))
  <2>1. ns \in Seq(QueryName)
    BY NameLists, Zenon
  <2>2. Removes(query, ns)
    BY <1>0, <2>1, RemovesIs, Zenon
  <2>3. Changes(RemoveQueries(query, ns))
    BY <1>5, ChangesIs, Zenon DEF RemoveAll
  <2> QED BY <2>2, <2>3, Zenon DEF Removes, Changes, Contract!RemoveQueries
<1>6. ASSUME Throws PROVE Leave
  <2>1. Changes(query)
    BY <1>6, ChangesIs, Zenon DEF Throws
  <2>2. PairsOf(query)' = PairsOf(query) /\ ValuesOf(Own)' = ValuesOf(Own)
    BY <2>1, Zenon DEF Changes
  <2> QED BY <2>2 DEF Leave, Contract!contractVars
<1> QED BY <1>3, <1>4, <1>5, <1>6, Zenon DEF QueryOperations

\* No operation on the headers is taken by a step on the query, nor the other way round.
LEMMA NoHeaderOperation ==
    ASSUME HeadersInv, UNCHANGED headerVars
    PROVE  HeaderOperations
<1>1. headerEdits \in Nat /\ headerEdits' = headerEdits /\ transport' = transport
  BY DEF HeadersInv, headerVars
<1>2. \A hs : ~Becomes(hs)
  <2>1. headerEdits + 1 # headerEdits
    BY <1>1
  <2> QED BY <1>1, <2>1, Zenon DEF Becomes
<1>3. \A t \in Transport : ~Carry(t)
  <2>1. "none" \notin Transport
    BY DEF Transport
  <2> QED BY <1>1, <2>1, Zenon DEF Carry
<1> QED BY <1>2, <1>3, Zenon DEF HeaderOperations, AddHeader, PutHeader, AddHeaders, PutHeaders,
                                 Update, DropHeaders, KeepHeaders

LEMMA NoQueryOperation ==
    ASSUME QueryTypeOK, UNCHANGED queryVars
    PROVE  QueryOperations
<1>1. changes \in Nat /\ changes' = changes
  <2>1. changes \in 0..MaxChanges /\ changes' = changes
    BY Zenon DEF QueryTypeOK, queryVars
  <2> QED BY <2>1
<1>2. \A q, ns : ~Changed(q, ns)
  <2>1. changes + 1 # changes
    BY <1>1
  <2> QED BY <1>1, <2>1, Zenon DEF Changed
<1> QED BY <1>2, Zenon DEF QueryOperations, AppendOne, SetOne, AppendAll, SetAll, RemoveAll, Throws

\* At first there are no headers, and the pairs of what others wrote.
LEMMA ContractInit ==
    ASSUME HeadersInit, QueryTypeOK
    PROVE  Contract!Init
<1>1. Own = <<>>
  BY Zenon DEF HeadersInit, Own
<1>2. \A k : GetHeaderValues(<<>>, k) = <<>>
  <2> TAKE k
  <2>1. <<>> \in Seq(Header) /\ \A i \in 1..Len(<<>>) : <<>>[i] \notin Called(k)
    OBVIOUS
  <2>2. Keep(<<>>, Called(k)) = <<>>
    BY <2>1, KeepNone, Zenon
  <2>3. Reads(<<>>, k)
    BY <2>1, ReadsIs, Zenon
  <2>4. Seconds(<<>>) = <<>>
    BY DEF Seconds
  <2> QED BY <2>2, <2>3, <2>4, Zenon DEF Reads
<1>3. ValuesOf(Own) = [k \in LowerNames(Name) |-> <<>>]
  BY <1>1, <1>2, Zenon DEF ValuesOf
<1>4. ReadsPairs(query)
  BY PairsIs, Zenon DEF QueryTypeOK
<1>5. PairsOf(query) \in Seq(PlainPairs)
  BY <1>4, Zenon DEF ReadsPairs
<1>6. PlainPairs \subseteq Seq(Letter) \X SUBSET Seq(Letter)
  BY DEF PlainPairs
<1> DEFINE ps == PairsOf(query)
           T == Seq(Letter) \X SUBSET Seq(Letter)
<1> HIDE DEF ps, T
<1>7. ps \in Seq(T)
  BY <1>5, <1>6 DEF ps, T
<1> QED BY <1>3, <1>7, Zenon DEF Contract!Init, Contract!Pair, ps, T

\* Every step of a message does what the contract says of the operation it is.
LEMMA ContractStep ==
    ASSUME HeadersInv, QueryTypeOK, [MessagesNext]_messageVars
    PROVE  [HeaderOperations /\ QueryOperations]_<<headerVars, queryVars>>
<1>1. CASE UNCHANGED queryVars /\ ~UNCHANGED headerVars
  BY <1>1, HeadersDo, NoQueryOperation, Zenon
<1>2. CASE UNCHANGED headerVars
  BY <1>2, NoHeaderOperation, QueryDo, Zenon
<1>3. UNCHANGED queryVars \/ UNCHANGED headerVars
  BY Zenon DEF MessagesNext, OnPath, OnHeaders, OnQuery, OnBody, OnReport, messageVars
<1> QED BY <1>1, <1>2, <1>3, Zenon

\* Whatever the spelling of names, the escapes of others and the number of operations:
\* each operation does to the values of headers and the pairs of the query what the
\* contract says of the operation of its name (messages.ts:6, queries.ts:15-54).
THEOREM MessagesImplementContract == MessagesSpec => ContractSpec
<1>1. MessagesSpec => HeadersInit
  BY Zenon DEF MessagesSpec, MessagesInit
<1>2. HeadersInit /\ QueryTypeOK => Contract!Init
  BY ContractInit
<1>3. HeadersInv /\ QueryTypeOK /\ [MessagesNext]_messageVars =>
          [HeaderOperations /\ QueryOperations]_<<headerVars, queryVars>>
  BY ContractStep
<1> QED BY <1>1, <1>2, <1>3, HeadersInductive, QueryTypeCorrect, PTL DEF MessagesSpec, ContractSpec

\* So every step is a step of the contract, or leaves headers and query as they are.
LEMMA ContractNext ==
    ASSUME HeadersInv, QueryTypeOK, [MessagesNext]_messageVars
    PROVE  [Contract!Next]_(Contract!contractVars)
<1>1. ASSUME UNCHANGED headerVars, UNCHANGED queryVars PROVE UNCHANGED Contract!contractVars
  <2>1. Own' = Own /\ query' = query
    BY <1>1, Zenon DEF headerVars, queryVars, Own
  <2>2. ValuesOf(Own') = ValuesOf(Own) /\ PairsOf(query') = PairsOf(query)
    BY <2>1, Zenon
  <2> QED BY <2>2 DEF Contract!contractVars
<1>2. ASSUME HeadersNext, UNCHANGED queryVars PROVE Contract!HeaderOp \/ UNCHANGED Contract!contractVars
  <2>1. HeaderOperations
    BY <1>2, HeadersDo, Zenon
  <2>2. \A n \in Name : Lower(n) \in LowerNames(Name)
    BY Zenon DEF LowerNames
  <2>3. \A b \in Batch : Lowered(b) \in {Lowered(c) : c \in Batch}
    BY Zenon
  <2>4. \A ns \in SUBSET Name : LowerNames(ns) \in SUBSET LowerNames(Name)
    BY Zenon DEF LowerNames
  <2>5. ASSUME NEW n \in Name, NEW v \in HeaderValue, AddHeader(n, v) \/ PutHeader(n, v)
        PROVE  Contract!HeaderOp
    <3>1. Contract!AppendHeader(Lower(n), v) \/ Contract!SetHeader(Lower(n), v)
      BY <2>1, <2>5, Zenon DEF HeaderOperations
    <3> QED BY <2>2, <3>1, Zenon DEF Contract!HeaderOp
  <2>6. ASSUME NEW b \in Batch, AddHeaders(b) \/ PutHeaders(b) PROVE Contract!HeaderOp
    <3>1. Contract!AppendHeaders(Lowered(b)) \/ Contract!SetHeaders(Lowered(b))
      BY <2>1, <2>6, Zenon DEF HeaderOperations
    <3> QED BY <2>3, <3>1, Zenon DEF Contract!HeaderOp
  <2>7. ASSUME NEW n \in Name, NEW f \in Edit, Update(n, f) PROVE Contract!HeaderOp
    <3>1. Contract!UpdateHeaders(Lower(n), f)
      BY <2>1, <2>7, Zenon DEF HeaderOperations
    <3> QED BY <2>2, <3>1, Zenon DEF Contract!HeaderOp
  <2>8. ASSUME NEW ns \in SUBSET Name, DropHeaders(ns) \/ KeepHeaders(ns) PROVE Contract!HeaderOp
    <3>1. Contract!RemoveHeaders(LowerNames(ns)) \/ Contract!SelectHeaders(LowerNames(ns))
      BY <2>1, <2>8, Zenon DEF HeaderOperations
    <3> QED BY <2>4, <3>1, Zenon DEF Contract!HeaderOp
  <2>9. ASSUME NEW t \in Transport, Carry(t) PROVE UNCHANGED Contract!contractVars
    BY <2>1, <2>9, Zenon DEF HeaderOperations, Leave
  <2> QED BY <1>2, <2>5, <2>6, <2>7, <2>8, <2>9, Zenon DEF HeadersNext
<1>3. ASSUME QueryNext, UNCHANGED headerVars PROVE Contract!QueryOp \/ UNCHANGED Contract!contractVars
  <2>1. QueryOperations
    BY <1>3, QueryDo, Zenon
  <2>2. ASSUME NEW n \in QueryName, NEW vs \in QueryValues, AppendOne(n, vs) \/ SetOne(n, vs)
        PROVE  Contract!QueryOp
    <3>1. Contract!AppendQuery(n, vs) \/ Contract!SetQuery(n, vs)
      BY <2>1, <2>2, Zenon DEF QueryOperations
    <3> QED BY <3>1, Zenon DEF Contract!QueryOp
  <2>3. ASSUME NEW batch \in QueryBatch, AppendAll(batch) \/ SetAll(batch) PROVE Contract!QueryOp
    <3>1. Contract!AppendQueries(batch) \/ Contract!SetQueries(batch)
      BY <2>1, <2>3, Zenon DEF QueryOperations
    <3> QED BY <3>1, Zenon DEF Contract!QueryOp
  <2>4. ASSUME NEW ns \in BoundedSeq(QueryName, 2) \ {<<>>}, RemoveAll(ns) PROVE Contract!QueryOp
    <3>1. Contract!RemoveQueries(ToSet(ns))
      BY <2>1, <2>4, Zenon DEF QueryOperations
    <3>2. ToSet(ns) \in SUBSET QueryName
      BY NameLists, Zenon
    <3> QED BY <3>1, <3>2, Zenon DEF Contract!QueryOp
  <2>5. ASSUME Throws PROVE UNCHANGED Contract!contractVars
    BY <2>1, <2>5, Zenon DEF QueryOperations, Leave
  <2> QED BY <1>3, <2>2, <2>3, <2>4, <2>5, Zenon DEF QueryNext
<1>4. \/ HeadersNext /\ UNCHANGED queryVars
      \/ QueryNext /\ UNCHANGED headerVars
      \/ UNCHANGED headerVars /\ UNCHANGED queryVars
  BY Zenon DEF MessagesNext, OnPath, OnHeaders, OnQuery, OnBody, OnReport, messageVars
<1> QED BY <1>1, <1>2, <1>3, <1>4, Zenon DEF Contract!Next

\* A message behaves as the contract's headers and query do (messages.ts:6,
\* queries.ts:15-54): that each operation is the one of its name, the theorem before says.
THEOREM MessagesAreContract == MessagesSpec => Contract!Spec
<1>1. MessagesSpec => HeadersInit
  BY Zenon DEF MessagesSpec, MessagesInit
<1>2. HeadersInit /\ QueryTypeOK => Contract!Init
  BY ContractInit
<1>3. HeadersInv /\ QueryTypeOK /\ [MessagesNext]_messageVars => [Contract!Next]_(Contract!contractVars)
  BY ContractNext
<1> QED BY <1>1, <1>2, <1>3, HeadersInductive, QueryTypeCorrect, PTL DEF MessagesSpec, Contract!Spec

-----------------------------------------------------------------------------
\* What a lens gives depends on what the lenses give that it asks and on nothing else.
LEMMA GetOfAsked ==
    ASSUME NEW f, NEW g, NEW l \in Lens, \A m \in Asks(l) : f[m] = g[m]
    PROVE  GetOf(f, l) = GetOf(g, l)
<1>1. CASE l.kind = "reader"
  BY <1>1 DEF GetOf
<1>2. CASE l.kind = "union"
  <2>1. l.a \in Asks(l) /\ l.b \in Asks(l)
    BY <1>2 DEF Asks
  <2>2. f[l.a] = g[l.a] /\ f[l.b] = g[l.b]
    BY <2>1, Zenon
  <2>3. GetOf(f, l) = OnUnion(f[l.a], f[l.b]) /\ GetOf(g, l) = OnUnion(g[l.a], g[l.b])
    BY <1>2 DEF GetOf
  <2> QED BY <2>2, <2>3, Zenon
<1>3. CASE l.kind = "result"
  <2>1. l.success \in Asks(l) /\ l.failure \in Asks(l)
    BY <1>3 DEF Asks
  <2>2. f[l.success] = g[l.success] /\ f[l.failure] = g[l.failure]
    BY <2>1, Zenon
  <2>3. /\ GetOf(f, l) = OnResult(f[l.success], f[l.failure])
        /\ GetOf(g, l) = OnResult(g[l.success], g[l.failure])
    BY <1>3 DEF GetOf
  <2> QED BY <2>2, <2>3, Zenon
<1> QED BY <1>1, <1>2, <1>3, ProblemsAssumption, Zenon

\* f gives what lenses give that are nested less deep than n.
GetsTo(f, n) == \A l \in Lens : Depth[l] < n => f[l] = GetOf(f, l)

LEMMA GetsToExists == \A n \in Nat : \E f : GetsTo(f, n)
<1> DEFINE S == {n \in Nat : \E f : GetsTo(f, n)}
<1>1. 0 \in S
  <2>1. \A l \in Lens : ~(Depth[l] < 0)
    BY ProblemsAssumption
  <2> DEFINE z == 0
  <2> HIDE DEF z
  <2>2. GetsTo(z, 0)
    BY <2>1, Zenon DEF GetsTo
  <2> QED BY <2>2
<1>2. ASSUME NEW n \in S PROVE n + 1 \in S
  <2>1. PICK f : GetsTo(f, n)
    BY Zenon
  <2> DEFINE e(l) == GetOf(f, l)
             g == [l \in Lens |-> e(l)]
  <2>2. \A l \in Lens : g[l] = e(l)
    <3> HIDE DEF e
    <3> QED OBVIOUS
  <2> HIDE DEF g
  <2>3. ASSUME NEW l \in Lens, Depth[l] < n + 1 PROVE g[l] = GetOf(g, l)
    <3>1. ASSUME NEW m \in Asks(l) PROVE f[m] = g[m]
      <4>1. m \in Lens /\ Depth[m] < n
        BY <2>3, ProblemsAssumption
      <4>2. f[m] = GetOf(f, m)
        BY <2>1, <4>1, Zenon DEF GetsTo
      <4> QED BY <2>2, <4>1, <4>2, Zenon
    <3>2. GetOf(f, l) = GetOf(g, l)
      BY <3>1, GetOfAsked, Zenon
    <3> QED BY <2>2, <3>2, Zenon
  <2>4. GetsTo(g, n + 1)
    BY <2>3, Zenon DEF GetsTo
  <2> QED BY <2>4
<1> HIDE DEF S
<1>3. S \in SUBSET Nat
  BY DEF S
<1> QED BY <1>1, <1>2, <1>3, Induct DEF S

\* Two such functions agree where both do.
LEMMA GetsToSame ==
    ASSUME NEW f, NEW g, NEW m \in Nat, NEW n \in Nat, GetsTo(f, m), GetsTo(g, n)
    PROVE  \A l \in Lens : Depth[l] < m /\ Depth[l] < n => f[l] = g[l]
<1> DEFINE P(l) == Depth[l] < m /\ Depth[l] < n => f[l] = g[l]
           S == {k \in Nat : \A l \in Lens : Depth[l] < k => P(l)}
<1>1. 0 \in S
  BY ProblemsAssumption
<1>2. ASSUME NEW k \in S PROVE k + 1 \in S
  <2>1. ASSUME NEW l \in Lens, Depth[l] < k + 1, Depth[l] < m, Depth[l] < n PROVE f[l] = g[l]
    <3>1. ASSUME NEW p \in Asks(l) PROVE f[p] = g[p]
      <4>1. p \in Lens /\ Depth[p] < k /\ Depth[p] < m /\ Depth[p] < n
        BY <2>1, ProblemsAssumption
      <4> QED BY <4>1
    <3>2. GetOf(f, l) = GetOf(g, l)
      BY <3>1, GetOfAsked, Zenon
    <3> QED BY <2>1, <3>2, Zenon DEF GetsTo
  <2> QED BY <2>1
<1> HIDE DEF S
<1>3. S \in SUBSET Nat
  BY DEF S
<1>4. \A k \in Nat : k \in S
  BY <1>1, <1>2, <1>3, Induct
<1> QED
  <2> TAKE l \in Lens
  <2>1. Depth[l] \in Nat /\ Depth[l] + 1 \in Nat /\ Depth[l] < Depth[l] + 1
    BY ProblemsAssumption
  <2> QED BY <1>4, <2>1 DEF S

\* So a lens gives what its definition says.
LEMMA GetIs == \A l \in Lens : Get[l] = GetOf(Get, l)
<1> DEFINE d(l) == Depth[l] + 1
           g(n) == CHOOSE f : GetsTo(f, n)
           F == [l \in Lens |-> g(d(l))[l]]
<1>1. \A n \in Nat : GetsTo(g(n), n)
  BY GetsToExists, Zenon
<1>2. \A l \in Lens : d(l) \in Nat /\ Depth[l] < d(l)
  BY ProblemsAssumption
<1>3. \A l \in Lens : \A m \in Asks(l) : m \in Lens /\ Depth[m] < d(l)
  BY ProblemsAssumption
<1> HIDE DEF d, g
<1>4. \A l \in Lens : F[l] = g(d(l))[l]
  OBVIOUS
<1>5. ASSUME NEW l \in Lens PROVE F[l] = GetOf(F, l)
  <2> DEFINE h == g(d(l))
  <2>1. GetsTo(h, d(l))
    BY <1>1, <1>2
  <2>2. ASSUME NEW m \in Asks(l) PROVE h[m] = F[m]
    <3> DEFINE k == g(d(m))
    <3>1. m \in Lens /\ Depth[m] < d(l) /\ d(m) \in Nat /\ Depth[m] < d(m) /\ d(l) \in Nat
      BY <1>2, <1>3
    <3>2. GetsTo(k, d(m))
      BY <1>1, <3>1
    <3> HIDE DEF h, k
    <3>3. h[m] = k[m]
      BY <2>1, <3>1, <3>2, GetsToSame
    <3> QED BY <1>4, <3>1, <3>3, Zenon DEF k
  <2> HIDE DEF F
  <2>3. GetOf(h, l) = GetOf(F, l)
    <3> HIDE DEF h
    <3> QED BY <2>2, GetOfAsked, Zenon
  <2>4. h[l] = GetOf(h, l)
    <3> HIDE DEF h
    <3> QED BY <1>2, <2>1, Zenon DEF GetsTo
  <2> QED BY <1>4, <2>3, <2>4, Zenon
<1>6. F = [l \in Lens |-> GetOf(F, l)]
  <2>1. F = [l \in Lens |-> F[l]]
    OBVIOUS
  <2> HIDE DEF F
  <2> QED BY <1>5, <2>1, Zenon
<1> HIDE DEF F
<1>7. \E f : f = [l \in Lens |-> GetOf(f, l)]
  BY <1>6, Zenon
<1>8. Get = [l \in Lens |-> GetOf(Get, l)]
  BY <1>7, Zenon DEF Get
<1> DEFINE e(l) == GetOf(Get, l)
           G == Get
<1>9. G = [l \in Lens |-> e(l)]
  BY <1>8, Zenon
<1> HIDE DEF e, G
<1>10. \A l \in Lens : G[l] = e(l)
  BY <1>9
<1> QED BY <1>10, Zenon DEF e, G

-----------------------------------------------------------------------------
\* So do the readers of a lens.
LEMMA ReadersInAsked ==
    ASSUME NEW f, NEW g, NEW l \in Lens, \A m \in Asks(l) : f[m] = g[m]
    PROVE  ReadersIn(f, l) = ReadersIn(g, l)
<1>1. CASE l.kind = "reader"
  BY <1>1 DEF ReadersIn
<1>2. CASE l.kind = "union"
  <2>1. l.a \in Asks(l) /\ l.b \in Asks(l)
    BY <1>2 DEF Asks
  <2>2. f[l.a] = g[l.a] /\ f[l.b] = g[l.b]
    BY <2>1, Zenon
  <2>3. ReadersIn(f, l) = f[l.a] \o f[l.b] /\ ReadersIn(g, l) = g[l.a] \o g[l.b]
    BY <1>2 DEF ReadersIn
  <2> QED BY <2>2, <2>3, Zenon
<1>3. CASE l.kind = "result"
  <2>1. l.success \in Asks(l) /\ l.failure \in Asks(l)
    BY <1>3 DEF Asks
  <2>2. f[l.success] = g[l.success] /\ f[l.failure] = g[l.failure]
    BY <2>1, Zenon
  <2>3. /\ ReadersIn(f, l) = As("success", f[l.success]) \o As("failure", f[l.failure])
        /\ ReadersIn(g, l) = As("success", g[l.success]) \o As("failure", g[l.failure])
    BY <1>3 DEF ReadersIn
  <2> QED BY <2>2, <2>3, Zenon
<1> QED BY <1>1, <1>2, <1>3, ProblemsAssumption, Zenon

\* f has the readers of lenses that are nested less deep than n.
ReadersTo(f, n) == \A l \in Lens : Depth[l] < n => f[l] = ReadersIn(f, l)

LEMMA ReadersToExist == \A n \in Nat : \E f : ReadersTo(f, n)
<1> DEFINE S == {n \in Nat : \E f : ReadersTo(f, n)}
<1>1. 0 \in S
  <2>1. \A l \in Lens : ~(Depth[l] < 0)
    BY ProblemsAssumption
  <2> DEFINE z == 0
  <2> HIDE DEF z
  <2>2. ReadersTo(z, 0)
    BY <2>1, Zenon DEF ReadersTo
  <2> QED BY <2>2
<1>2. ASSUME NEW n \in S PROVE n + 1 \in S
  <2>1. PICK f : ReadersTo(f, n)
    BY Zenon
  <2> DEFINE e(l) == ReadersIn(f, l)
             g == [l \in Lens |-> e(l)]
  <2>2. \A l \in Lens : g[l] = e(l)
    <3> HIDE DEF e
    <3> QED OBVIOUS
  <2> HIDE DEF g
  <2>3. ASSUME NEW l \in Lens, Depth[l] < n + 1 PROVE g[l] = ReadersIn(g, l)
    <3>1. ASSUME NEW m \in Asks(l) PROVE f[m] = g[m]
      <4>1. m \in Lens /\ Depth[m] < n
        BY <2>3, ProblemsAssumption
      <4>2. f[m] = ReadersIn(f, m)
        BY <2>1, <4>1, Zenon DEF ReadersTo
      <4> QED BY <2>2, <4>1, <4>2, Zenon
    <3>2. ReadersIn(f, l) = ReadersIn(g, l)
      BY <3>1, ReadersInAsked, Zenon
    <3> QED BY <2>2, <3>2, Zenon
  <2>4. ReadersTo(g, n + 1)
    BY <2>3, Zenon DEF ReadersTo
  <2> QED BY <2>4
<1> HIDE DEF S
<1>3. S \in SUBSET Nat
  BY DEF S
<1> QED BY <1>1, <1>2, <1>3, Induct DEF S

\* Two such functions agree where both do.
LEMMA ReadersToSame ==
    ASSUME NEW f, NEW g, NEW m \in Nat, NEW n \in Nat, ReadersTo(f, m), ReadersTo(g, n)
    PROVE  \A l \in Lens : Depth[l] < m /\ Depth[l] < n => f[l] = g[l]
<1> DEFINE P(l) == Depth[l] < m /\ Depth[l] < n => f[l] = g[l]
           S == {k \in Nat : \A l \in Lens : Depth[l] < k => P(l)}
<1>1. 0 \in S
  BY ProblemsAssumption
<1>2. ASSUME NEW k \in S PROVE k + 1 \in S
  <2>1. ASSUME NEW l \in Lens, Depth[l] < k + 1, Depth[l] < m, Depth[l] < n PROVE f[l] = g[l]
    <3>1. ASSUME NEW p \in Asks(l) PROVE f[p] = g[p]
      <4>1. p \in Lens /\ Depth[p] < k /\ Depth[p] < m /\ Depth[p] < n
        BY <2>1, ProblemsAssumption
      <4> QED BY <4>1
    <3>2. ReadersIn(f, l) = ReadersIn(g, l)
      BY <3>1, ReadersInAsked, Zenon
    <3> QED BY <2>1, <3>2, Zenon DEF ReadersTo
  <2> QED BY <2>1
<1> HIDE DEF S
<1>3. S \in SUBSET Nat
  BY DEF S
<1>4. \A k \in Nat : k \in S
  BY <1>1, <1>2, <1>3, Induct
<1> QED
  <2> TAKE l \in Lens
  <2>1. Depth[l] \in Nat /\ Depth[l] + 1 \in Nat /\ Depth[l] < Depth[l] + 1
    BY ProblemsAssumption
  <2> QED BY <1>4, <2>1 DEF S

\* So the readers are those of the definition.
LEMMA ReadersOfIs == \A l \in Lens : ReadersOf[l] = ReadersIn(ReadersOf, l)
<1> DEFINE d(l) == Depth[l] + 1
           g(n) == CHOOSE f : ReadersTo(f, n)
           F == [l \in Lens |-> g(d(l))[l]]
<1>1. \A n \in Nat : ReadersTo(g(n), n)
  BY ReadersToExist, Zenon
<1>2. \A l \in Lens : d(l) \in Nat /\ Depth[l] < d(l)
  BY ProblemsAssumption
<1>3. \A l \in Lens : \A m \in Asks(l) : m \in Lens /\ Depth[m] < d(l)
  BY ProblemsAssumption
<1> HIDE DEF d, g
<1>4. \A l \in Lens : F[l] = g(d(l))[l]
  OBVIOUS
<1>5. ASSUME NEW l \in Lens PROVE F[l] = ReadersIn(F, l)
  <2> DEFINE h == g(d(l))
  <2>1. ReadersTo(h, d(l))
    BY <1>1, <1>2
  <2>2. ASSUME NEW m \in Asks(l) PROVE h[m] = F[m]
    <3> DEFINE k == g(d(m))
    <3>1. m \in Lens /\ Depth[m] < d(l) /\ d(m) \in Nat /\ Depth[m] < d(m) /\ d(l) \in Nat
      BY <1>2, <1>3
    <3>2. ReadersTo(k, d(m))
      BY <1>1, <3>1
    <3> HIDE DEF h, k
    <3>3. h[m] = k[m]
      BY <2>1, <3>1, <3>2, ReadersToSame
    <3> QED BY <1>4, <3>1, <3>3, Zenon DEF k
  <2> HIDE DEF F
  <2>3. ReadersIn(h, l) = ReadersIn(F, l)
    <3> HIDE DEF h
    <3> QED BY <2>2, ReadersInAsked, Zenon
  <2>4. h[l] = ReadersIn(h, l)
    <3> HIDE DEF h
    <3> QED BY <1>2, <2>1, Zenon DEF ReadersTo
  <2> QED BY <1>4, <2>3, <2>4, Zenon
<1>6. F = [l \in Lens |-> ReadersIn(F, l)]
  <2>1. F = [l \in Lens |-> F[l]]
    OBVIOUS
  <2> HIDE DEF F
  <2> QED BY <1>5, <2>1, Zenon
<1> HIDE DEF F
<1>7. \E f : f = [l \in Lens |-> ReadersIn(f, l)]
  BY <1>6, Zenon
<1>8. ReadersOf = [l \in Lens |-> ReadersIn(ReadersOf, l)]
  BY <1>7, Zenon DEF ReadersOf
<1> DEFINE e(l) == ReadersIn(ReadersOf, l)
           G == ReadersOf
<1>9. G = [l \in Lens |-> e(l)]
  BY <1>8, Zenon
<1> HIDE DEF e, G
<1>10. \A l \in Lens : G[l] = e(l)
  BY <1>9
<1> QED BY <1>10, Zenon DEF e, G

-----------------------------------------------------------------------------
\* Readers, and problems as lenses make them.
ReadersGiving(V) == [checks : Seq(Check), value : V]

Tag == {"success", "failure"}

Blaming == [message : Check, path : Seq(Key), producedBy : Seq(Tag)]

LEMMA BlamesKeys == \A c \in Check : Blames[c] \in Seq(Key)
<1> TAKE c \in Check
<1>1. c \in {"status", "header", "bearer", "json", "value", "mapped"}
  BY DEF Check, Blames
<1>2. {"status", "headers", "Authentication", "body", "name"} \subseteq Key
  BY Zenon DEF Key
<1> DEFINE a == "status"
           b == "headers"
           d == "Authentication"
           e == "body"
           g == "name"
<1>3. a \in Key /\ b \in Key /\ d \in Key /\ e \in Key /\ g \in Key
  BY <1>2, Zenon
<1>4. Blames[c] \in {<<a>>, <<b>>, <<b, d>>, <<e>>, <<>>, <<e, g>>}
  BY <1>1 DEF Blames
<1> HIDE DEF a, b, d, e, g, Key
<1>5. <<a>> \in Seq(Key) /\ <<b>> \in Seq(Key) /\ <<b, d>> \in Seq(Key) /\ <<e>> \in Seq(Key)
  BY <1>3
<1>6. <<>> \in Seq(Key) /\ <<e, g>> \in Seq(Key)
  BY <1>3
<1> QED BY <1>4, <1>5, <1>6, Zenon

\* p is what reader r has to say.
Tells(p, r) ==
    \E i \in DOMAIN r.checks :
        p.message = r.checks[i] /\ p.path = Blames[r.checks[i]] /\ FailsAt(r.checks, i)

\* A reader that has something to say does not accept the response.
LEMMA TellsNo == ASSUME NEW p, NEW r, Tells(p, r) PROVE ~Accepts(r)
<1>1. PICK i \in DOMAIN r.checks : r.checks[i] \in fails
  BY Zenon DEF Tells, FailsAt
<1>2. r.checks[i] \in Range(r.checks)
  BY Zenon DEF Range
<1> QED BY <1>1, <1>2 DEF Accepts

\* The first that accepts is found, or each has something to say.
Finds(r, rs) ==
    /\ r.ok
    /\ \E i \in 1..Len(rs) : /\ r.value = rs[i].value /\ Accepts(rs[i])
                             /\ \A j \in 1..(i - 1) : ~Accepts(rs[j])

Refuses(r, rs) ==
    /\ ~r.ok /\ r.error \in Seq(Blaming) /\ Len(r.error) = Len(rs)
    /\ \A i \in 1..Len(rs) : Tells(r.error[i], rs[i])

Answers(r, rs) == Finds(r, rs) \/ Refuses(r, rs)

\* What is made of successes and failures.
LEMMA ResultsTell ==
    /\ \A v : Success(v).ok /\ Success(v).value = v
    /\ \A e : ~Failure(e).ok /\ Failure(e).error = e
BY Zenon DEF Success, Failure

\* A reader fails with the first check that fails.
LEMMA ReadAnswers ==
    ASSUME NEW checks \in Seq(Check)
    PROVE  Answers(Read(checks), <<[checks |-> checks, value |-> <<checks>>]>>)
<1> DEFINE v == <<checks>>
           r == [checks |-> checks, value |-> v]
           rs == <<r>>
<1>1. r.checks = checks /\ r.value = v
  OBVIOUS
<1> HIDE DEF r, v
<1>2. Len(rs) = 1 /\ rs[1] = r
  OBVIOUS
<1>3. \A i \in 1..1 : i = 1
  OBVIOUS
<1> HIDE DEF rs
<1>4. CASE \E i \in DOMAIN checks : checks[i] \in fails
  <2> DEFINE S == {i \in DOMAIN checks : checks[i] \in fails}
             k == CHOOSE i \in DOMAIN checks : FailsAt(checks, i)
             c == checks[k]
             p == Problem(c, Blames[c], <<>>)
             ps == <<p>>
  <2>1. DOMAIN checks = 1..Len(checks) /\ Len(checks) \in Nat
    OBVIOUS
  <2>2. S \in SUBSET Nat /\ S # {} /\ S \in SUBSET (1..Len(checks))
    BY <1>4, <2>1
  <2>3. PICK m \in S : \A n \in S : m <= n
    <3> HIDE DEF S
    <3> QED BY <2>2, Smallest
  <2>4. FailsAt(checks, m) /\ m \in DOMAIN checks
    <3>1. \A j \in 1..(m - 1) : j \in DOMAIN checks /\ ~(m <= j)
      BY <2>1, <2>2
    <3>2. \A j \in 1..(m - 1) : checks[j] \notin fails
      BY <2>3, <3>1
    <3> QED BY <3>2, <2>1 DEF FailsAt
  <2>5. k \in DOMAIN checks /\ FailsAt(checks, k)
    BY <2>4, Zenon
  <2> HIDE DEF k
  <2>6. c \in Check
    BY <2>1, <2>5
  <2>7. p.message = c /\ p.path = Blames[c] /\ p \in Blaming
    <3>1. Blames[c] \in Seq(Key) /\ <<>> \in Seq(Tag)
      <4>1. Blames[c] \in Seq(Key)
        BY <2>6, BlamesKeys, Zenon
      <4>2. <<>> \in Seq(Tag)
        OBVIOUS
      <4> QED BY <4>1, <4>2, Zenon
    <3> DEFINE b == Blames[c]
               e == <<>>
    <3>2. p = [message |-> c, path |-> b, producedBy |-> e]
      BY Zenon DEF Problem
    <3>3. c \in Check /\ b \in Seq(Key) /\ e \in Seq(Tag)
      BY <2>6, <3>1
    <3> HIDE DEF b, c, e, p
    <3>4. p.message = c /\ p.path = b /\ p \in Blaming
      BY <3>2, <3>3 DEF Blaming
    <3> QED BY <3>4 DEF b
  <2>8. Tells(p, r)
    <3> HIDE DEF p
    <3> QED BY <1>1, <2>5, <2>7, Zenon DEF Tells
  <2> HIDE DEF p
  <2>9. ps \in Seq(Blaming) /\ Len(ps) = 1 /\ ps[1] = p
    BY <2>7
  <2> HIDE DEF ps
  <2>10. Read(checks) = Failure(ps)
    BY <1>4, Zenon DEF Read, ps, p, c, k
  <2>11. Refuses(Failure(ps), rs)
    BY <1>2, <1>3, <2>8, <2>9, ResultsTell, Zenon DEF Refuses
  <2> QED BY <2>10, <2>11, Zenon DEF Answers, rs, r, v
<1>5. CASE ~\E i \in DOMAIN checks : checks[i] \in fails
  <2>1. Read(checks) = Success(v)
    BY <1>5, Zenon DEF Read, v
  <2>2. Accepts(r)
    BY <1>1, <1>5 DEF Accepts, Range
  <2>3. 1 \in 1..Len(rs) /\ 1..(1 - 1) = {}
    BY <1>2
  <2>4. Finds(Success(v), rs)
    <3> DEFINE one == 1
    <3>1. one \in 1..Len(rs) /\ rs[one] = r /\ \A j \in 1..(one - 1) : ~Accepts(rs[j])
      BY <1>2, <2>3
    <3> HIDE DEF one
    <3> QED BY <1>1, <2>2, <3>1, ResultsTell, Zenon DEF Finds
  <2> QED BY <2>1, <2>4, Zenon DEF Answers, rs, r, v
<1> QED BY <1>4, <1>5

\* The readers of the second alternative are asked where none of the first accepts.
LEMMA UnionAnswers ==
    ASSUME NEW T, NEW rs \in Seq(T), NEW qs \in Seq(T), NEW a, NEW b, Answers(a, rs), Answers(b, qs)
    PROVE  Answers(OnUnion(a, b), rs \o qs)
<1> DEFINE u == rs \o qs
           l == Len(rs)
           m == Len(qs)
<1>0. u \in Seq(T) /\ Joint(u, rs, qs)
  BY JointIs, Zenon
<1>1. l \in Nat /\ m \in Nat
  OBVIOUS
<1> HIDE DEF u
<1>2. /\ Len(u) = l + m
      /\ \A i \in 1..l : i \in 1..Len(u) /\ u[i] = rs[i]
      /\ \A i \in 1..m : l + i \in 1..Len(u) /\ u[l + i] = qs[i]
      /\ \A i \in 1..Len(u) : i \in 1..l \/ \E j \in 1..m : i = l + j
  <2>1. Len(u) = l + m /\ \A i \in 1..(l + m) : u[i] = IF i <= l THEN rs[i] ELSE qs[i - l]
    BY <1>0 DEF Joint
  <2> HIDE DEF l, m
  <2>2. \A i \in 1..l : i \in 1..Len(u) /\ u[i] = rs[i]
    BY <1>1, <2>1
  <2>3. ASSUME NEW i \in 1..m PROVE l + i \in 1..Len(u) /\ u[l + i] = qs[i]
    <3> DEFINE k == l + i
    <3>1. k \in 1..(l + m) /\ ~(k <= l) /\ k - l = i
      BY <1>1
    <3> HIDE DEF k
    <3> QED BY <2>1, <3>1 DEF k
  <2>4. ASSUME NEW i \in 1..Len(u), i \notin 1..l PROVE \E j \in 1..m : i = l + j
    <3>1. i - l \in 1..m /\ i = l + (i - l)
      BY <1>1, <2>1, <2>4
    <3> QED BY <3>1
  <2> QED BY <2>1, <2>2, <2>3, <2>4, Zenon
<1> HIDE DEF l, m
<1>3. CASE Finds(a, rs)
  <2>1. a.ok /\ OnUnion(a, b) = a
    BY <1>3, Zenon DEF Finds, OnUnion
  <2>2. PICK i \in 1..l : /\ a.value = rs[i].value /\ Accepts(rs[i])
                          /\ \A j \in 1..(i - 1) : ~Accepts(rs[j])
    BY <1>3, Zenon DEF Finds, l
  <2>3. \A j \in 1..(i - 1) : j \in 1..l
    BY <1>1
  <2>4. \A j \in 1..(i - 1) : ~Accepts(u[j])
    BY <1>2, <2>2, <2>3, Zenon
  <2>5. i \in 1..Len(u) /\ u[i] = rs[i]
    BY <1>2, Zenon
  <2>6. Finds(a, u)
    BY <2>1, <2>2, <2>4, <2>5, Zenon DEF Finds
  <2> QED BY <2>1, <2>6, Zenon DEF Answers, u
<1>4. CASE Refuses(a, rs) /\ Finds(b, qs)
  <2>1. ~a.ok /\ b.ok /\ OnUnion(a, b) = b
    BY <1>4, Zenon DEF Finds, Refuses, OnUnion
  <2>2. PICK i \in 1..m : /\ b.value = qs[i].value /\ Accepts(qs[i])
                          /\ \A j \in 1..(i - 1) : ~Accepts(qs[j])
    BY <1>4, Zenon DEF Finds, m
  <2> DEFINE k == l + i
  <2>3. k \in 1..Len(u) /\ u[k] = qs[i]
    BY <1>2, Zenon
  <2>4. ASSUME NEW j \in 1..(k - 1) PROVE ~Accepts(u[j])
    <3>1. CASE j \in 1..l
      <4>1. Tells(a.error[j], rs[j]) /\ u[j] = rs[j]
        BY <1>2, <1>4, <3>1, Zenon DEF Refuses, l
      <4> QED BY <4>1, TellsNo, Zenon
    <3>2. CASE j \notin 1..l
      <4> DEFINE h == j - l
      <4>1. h \in 1..(i - 1) /\ h \in 1..m /\ j = l + h
        BY <1>1, <3>2
      <4> HIDE DEF h
      <4>2. u[j] = qs[h]
        BY <1>2, <4>1, Zenon
      <4> QED BY <2>2, <4>1, <4>2, Zenon
    <3> QED BY <3>1, <3>2
  <2> HIDE DEF k
  <2>5. Finds(b, u)
    BY <2>1, <2>2, <2>3, <2>4, Zenon DEF Finds
  <2> QED BY <2>1, <2>5, Zenon DEF Answers, u
<1>5. CASE Refuses(a, rs) /\ Refuses(b, qs)
  <2> DEFINE e == a.error \o b.error
             p == a.error
             q == b.error
  <2>1. /\ ~a.ok /\ p \in Seq(Blaming) /\ Len(p) = l /\ \A i \in 1..l : Tells(p[i], rs[i])
        /\ ~b.ok /\ q \in Seq(Blaming) /\ Len(q) = m /\ \A i \in 1..m : Tells(q[i], qs[i])
    BY <1>5, Zenon DEF Refuses, l, m
  <2>2. OnUnion(a, b) = Failure(e)
    BY <2>1, Zenon DEF OnUnion
  <2> HIDE DEF p, q
  <2>3. e \in Seq(Blaming) /\ Joint(e, p, q)
    BY <2>1, JointIs, Zenon DEF p, q
  <2> HIDE DEF e
  <2>4. Len(e) = l + m /\ \A i \in 1..(l + m) : e[i] = IF i <= l THEN p[i] ELSE q[i - l]
    BY <2>1, <2>3 DEF Joint
  <2>5. ASSUME NEW i \in 1..Len(u) PROVE Tells(e[i], u[i])
    <3>1. CASE i \in 1..l
      <4>1. i \in 1..(l + m) /\ i <= l
        BY <1>1, <3>1
      <4>2. e[i] = p[i] /\ u[i] = rs[i]
        BY <1>2, <2>4, <3>1, <4>1, Zenon
      <4> QED BY <2>1, <3>1, <4>2, Zenon
    <3>2. ASSUME NEW j \in 1..m, i = l + j PROVE Tells(e[i], u[i])
      <4>1. i \in 1..(l + m) /\ ~(i <= l) /\ i - l = j
        BY <1>1, <3>2
      <4>2. e[i] = q[j]
        <5>1. e[i] = q[i - l]
          BY <2>4, <4>1, Zenon
        <5> QED BY <4>1, <5>1, Zenon
      <4>3. u[i] = qs[j]
        BY <1>2, <3>2, Zenon
      <4> QED BY <2>1, <4>2, <4>3, Zenon
    <3> QED BY <1>2, <3>1, <3>2, Zenon
  <2>6. Refuses(Failure(e), u)
    BY <1>2, <2>3, <2>4, <2>5, ResultsTell, Zenon DEF Refuses
  <2> QED BY <2>2, <2>6, Zenon DEF Answers, u
<1> QED BY <1>3, <1>4, <1>5, Zenon DEF Answers

\* What the alternatives of a result give says which of the two it is.
Tagged(t, r) ==
    IF r.ok THEN Success(<<t>> \o r.value) ELSE Failure(PrefixProducedBy(r.error, t))

LEMMA ResultIsUnion ==
    ASSUME NEW s, NEW f
    PROVE  OnResult(s, f) = OnUnion(Tagged("success", s), Tagged("failure", f))
<1> DEFINE a == Tagged("success", s)
           b == Tagged("failure", f)
           v == <<"success">> \o s.value
           w == <<"failure">> \o f.value
           p == PrefixProducedBy(s.error, "success")
           q == PrefixProducedBy(f.error, "failure")
<1>1. a = IF s.ok THEN Success(v) ELSE Failure(p)
  BY Zenon DEF Tagged
<1>2. b = IF f.ok THEN Success(w) ELSE Failure(q)
  BY Zenon DEF Tagged
<1>3. OnResult(s, f) = IF s.ok \/ f.ok THEN Success(IF s.ok THEN v ELSE w) ELSE Failure(p \o q)
  BY Zenon DEF OnResult
<1> HIDE DEF a, b, v, w, p, q
<1>4. OnUnion(a, b) = IF a.ok \/ b.ok THEN IF a.ok THEN a ELSE b ELSE Failure(a.error \o b.error)
  BY Zenon DEF OnUnion
<1>5. CASE s.ok
  BY <1>1, <1>3, <1>4, <1>5, ResultsTell, Zenon DEF a, b
<1>6. CASE ~s.ok /\ f.ok
  BY <1>1, <1>2, <1>3, <1>4, <1>6, ResultsTell, Zenon DEF a, b
<1>7. CASE ~s.ok /\ ~f.ok
  BY <1>1, <1>2, <1>3, <1>4, <1>7, ResultsTell, Zenon DEF a, b
<1> QED BY <1>5, <1>6, <1>7, Zenon

\* What is put in front of values and of problems.
LEMMA AsType ==
    ASSUME NEW V, NEW rs \in Seq(ReadersGiving(V)), NEW t
    PROVE  /\ As(t, rs) \in Seq(ReadersGiving({<<t>> \o v : v \in V})) /\ Len(As(t, rs)) = Len(rs)
           /\ \A i \in 1..Len(rs) : As(t, rs)[i].checks = rs[i].checks /\ As(t, rs)[i].value = <<t>> \o rs[i].value
<1> DEFINE W == {<<t>> \o v : v \in V}
           n == Len(rs)
           a == As(t, rs)
           h(i) == [rs[i] EXCEPT !.value = <<t>> \o @]
<1>1. n \in Nat /\ DOMAIN rs = 1..n /\ \A i \in 1..n : rs[i] \in ReadersGiving(V)
  OBVIOUS
<1>2. \A i \in 1..n : h(i) \in ReadersGiving(W) /\ h(i).checks = rs[i].checks /\ h(i).value = <<t>> \o rs[i].value
  <2> TAKE i \in 1..n
  <2> DEFINE r == rs[i]
             v == <<t>> \o r.value
  <2>1. r \in ReadersGiving(V)
    BY <1>1
  <2>2. r.value \in V
    <3> HIDE DEF r
    <3> QED BY <2>1 DEF ReadersGiving
  <2>3. v \in W
    BY <2>2
  <2> HIDE DEF r, v, W
  <2>4. [r EXCEPT !.value = v] \in ReadersGiving(W) /\ [r EXCEPT !.value = v].checks = r.checks
        /\ [r EXCEPT !.value = v].value = v
    BY <2>1, <2>3 DEF ReadersGiving
  <2> QED BY <2>4 DEF r, v
<1>3. a = [i \in 1..n |-> h(i)]
  BY <1>1, Zenon DEF As
<1> HIDE DEF a, h, n, W
<1>4. a \in [1..n -> ReadersGiving(W)] /\ \A i \in 1..n : a[i] = h(i)
  BY <1>2, <1>3
<1>5. a \in Seq(ReadersGiving(W)) /\ Len(a) = n
  BY <1>1, <1>4, FunctionIsSeq, Zenon
<1>6. \A i \in 1..n : a[i].checks = rs[i].checks /\ a[i].value = <<t>> \o rs[i].value
  BY <1>2, <1>4, Zenon
<1> QED BY <1>5, <1>6, Zenon DEF a, W, n

LEMMA ProducedByType ==
    ASSUME NEW ps \in Seq(Blaming), NEW t \in Tag
    PROVE  /\ PrefixProducedBy(ps, t) \in Seq(Blaming) /\ Len(PrefixProducedBy(ps, t)) = Len(ps)
           /\ \A i \in 1..Len(ps) : /\ PrefixProducedBy(ps, t)[i].message = ps[i].message
                                    /\ PrefixProducedBy(ps, t)[i].path = ps[i].path
<1> DEFINE n == Len(ps)
           a == PrefixProducedBy(ps, t)
           h(i) == [ps[i] EXCEPT !.producedBy = <<t>> \o @]
<1>1. n \in Nat /\ DOMAIN ps = 1..n /\ \A i \in 1..n : ps[i] \in Blaming
  OBVIOUS
<1>2. \A i \in 1..n : h(i) \in Blaming /\ h(i).message = ps[i].message /\ h(i).path = ps[i].path
  <2> TAKE i \in 1..n
  <2> DEFINE r == ps[i]
             v == <<t>> \o r.producedBy
  <2>1. r \in Blaming
    BY <1>1
  <2>2. r.producedBy \in Seq(Tag)
    <3> HIDE DEF r
    <3> QED BY <2>1 DEF Blaming
  <2>3. v \in Seq(Tag)
    <3> DEFINE u == <<t>>
               w == r.producedBy
    <3>1. u \in Seq(Tag) /\ w \in Seq(Tag)
      BY <2>2
    <3> HIDE DEF u, w
    <3>2. u \o w \in Seq(Tag)
      BY <3>1, JointIs, Zenon
    <3> QED BY <3>2 DEF u, w
  <2> HIDE DEF r, v
  <2>4. [r EXCEPT !.producedBy = v] \in Blaming /\ [r EXCEPT !.producedBy = v].message = r.message
        /\ [r EXCEPT !.producedBy = v].path = r.path
    BY <2>1, <2>3 DEF Blaming
  <2> QED BY <2>4 DEF r, v
<1>3. a = [i \in 1..n |-> h(i)]
  BY <1>1, Zenon DEF PrefixProducedBy
<1> HIDE DEF a, h, n
<1>4. a \in [1..n -> Blaming] /\ \A i \in 1..n : a[i] = h(i)
  BY <1>2, <1>3
<1>5. a \in Seq(Blaming) /\ Len(a) = n
  BY <1>1, <1>4, FunctionIsSeq, Zenon
<1>6. \A i \in 1..n : a[i].message = ps[i].message /\ a[i].path = ps[i].path
  BY <1>2, <1>4, Zenon
<1> QED BY <1>5, <1>6, Zenon DEF a, n

LEMMA TaggedAnswers ==
    ASSUME NEW V, NEW rs \in Seq(ReadersGiving(V)), NEW t \in Tag, NEW r, Answers(r, rs)
    PROVE  Answers(Tagged(t, r), As(t, rs))
<1> DEFINE l == Len(rs)
           a == As(t, rs)
           v == <<t>> \o r.value
           e == r.error
           p == PrefixProducedBy(e, t)
<1>1. /\ Len(a) = l
      /\ \A i \in 1..l : a[i].checks = rs[i].checks /\ a[i].value = <<t>> \o rs[i].value
  BY AsType, Zenon
<1>2. Tagged(t, r) = IF r.ok THEN Success(v) ELSE Failure(p)
  BY Zenon DEF Tagged
<1>3. l \in Nat
  OBVIOUS
<1>4. \A i \in 1..l : Accepts(a[i]) <=> Accepts(rs[i])
  BY <1>1, Zenon DEF Accepts
<1> HIDE DEF a, p, l, v
<1>5. CASE Finds(r, rs)
  <2>1. PICK i \in 1..l : /\ r.value = rs[i].value /\ Accepts(rs[i])
                          /\ \A j \in 1..(i - 1) : ~Accepts(rs[j])
    BY <1>5, Zenon DEF Finds, l
  <2>2. \A j \in 1..(i - 1) : j \in 1..l
    BY <1>3
  <2>3. \A j \in 1..(i - 1) : ~Accepts(a[j])
    BY <1>4, <2>1, <2>2, Zenon
  <2>4. v = a[i].value /\ Accepts(a[i])
    BY <1>1, <1>4, <2>1, Zenon DEF v
  <2>5. Finds(Success(v), a)
    BY <1>1, <2>3, <2>4, ResultsTell, Zenon DEF Finds
  <2>6. Tagged(t, r) = Success(v)
    BY <1>2, <1>5, Zenon DEF Finds
  <2> QED BY <2>5, <2>6, Zenon DEF Answers, a
<1>6. CASE Refuses(r, rs)
  <2>1. e \in Seq(Blaming) /\ Len(e) = l /\ \A i \in 1..l : Tells(e[i], rs[i])
    BY <1>6, Zenon DEF Refuses, l
  <2> HIDE DEF e
  <2>2. /\ p \in Seq(Blaming) /\ Len(p) = l
        /\ \A i \in 1..l : p[i].message = e[i].message /\ p[i].path = e[i].path
    BY <2>1, ProducedByType, Zenon DEF p
  <2>3. \A i \in 1..l : Tells(p[i], a[i])
    BY <1>1, <2>1, <2>2, Zenon DEF Tells
  <2>4. Refuses(Failure(p), a)
    BY <1>1, <2>2, <2>3, ResultsTell, Zenon DEF Refuses
  <2>5. Tagged(t, r) = Failure(p)
    BY <1>2, <1>6, Zenon DEF Refuses
  <2> QED BY <2>4, <2>5, Zenon DEF Answers, a
<1> QED BY <1>5, <1>6, Zenon DEF Answers

\* What a lens gives is what its readers have to say.
Asked(l) == (\E V : ReadersOf[l] \in Seq(ReadersGiving(V))) /\ Answers(Get[l], ReadersOf[l])

LEMMA LensesAnswer == \A l \in Lens : Asked(l)
<1> DEFINE S == {n \in Nat : \A l \in Lens : Depth[l] < n => Asked(l)}
<1>1. 0 \in S
  BY ProblemsAssumption
<1>2. ASSUME NEW n \in S PROVE n + 1 \in S
  <2>1. ASSUME NEW l \in Lens, Depth[l] < n + 1 PROVE Asked(l)
    <3>1. \A m \in Asks(l) : m \in Lens /\ Asked(m)
      <4> TAKE m \in Asks(l)
      <4>1. m \in Lens /\ Depth[m] < n
        BY <2>1, ProblemsAssumption
      <4> QED BY <4>1
    <3>2. Get[l] = GetOf(Get, l) /\ ReadersOf[l] = ReadersIn(ReadersOf, l)
      BY GetIs, ReadersOfIs, Zenon
    <3>3. CASE l.kind = "reader"
      <4> DEFINE c == l.checks
                 r == [checks |-> c, value |-> <<c>>]
      <4>1. c \in Seq(Check)
        BY <3>3, ProblemsAssumption
      <4>2. Get[l] = Read(c) /\ ReadersOf[l] = <<r>>
        BY <3>2, <3>3 DEF GetOf, ReadersIn
      <4>3. Answers(Read(c), <<r>>)
        BY <4>1, ReadAnswers, Zenon
      <4>4. r \in ReadersGiving({<<c>>})
        BY <4>1 DEF ReadersGiving
      <4> HIDE DEF r
      <4>5. <<r>> \in Seq(ReadersGiving({<<c>>}))
        BY <4>4
      <4> QED BY <4>2, <4>3, <4>5, Zenon DEF Asked
    <3>4. CASE l.kind = "union"
      <4>1. l.a \in Asks(l) /\ l.b \in Asks(l)
        BY <3>4 DEF Asks
      <4> DEFINE a == Get[l.a]
                 b == Get[l.b]
                 rs == ReadersOf[l.a]
                 qs == ReadersOf[l.b]
      <4>2. Answers(a, rs) /\ Answers(b, qs)
        BY <3>1, <4>1, Zenon DEF Asked
      <4>3. PICK V : rs \in Seq(ReadersGiving(V))
        BY <3>1, <4>1, Zenon DEF Asked
      <4>4. PICK W : qs \in Seq(ReadersGiving(W))
        BY <3>1, <4>1, Zenon DEF Asked
      <4>5. Get[l] = OnUnion(a, b) /\ ReadersOf[l] = rs \o qs
        BY <3>2, <3>4 DEF GetOf, ReadersIn
      <4> HIDE DEF a, b, rs, qs
      <4> DEFINE T == ReadersGiving(V \union W)
      <4>6. rs \in Seq(T) /\ qs \in Seq(T)
        <5>1. ReadersGiving(V) \subseteq T /\ ReadersGiving(W) \subseteq T
          BY DEF ReadersGiving
        <5> HIDE DEF T
        <5> QED BY <4>3, <4>4, <5>1
      <4> HIDE DEF T
      <4>7. rs \o qs \in Seq(T) /\ Answers(OnUnion(a, b), rs \o qs)
        BY <4>2, <4>6, UnionAnswers, JointIs, Zenon
      <4> QED BY <4>5, <4>7, Zenon DEF Asked, T
    <3>5. CASE l.kind = "result"
      <4>1. l.success \in Asks(l) /\ l.failure \in Asks(l)
        BY <3>5 DEF Asks
      <4> DEFINE s == Get[l.success]
                 f == Get[l.failure]
                 g == "success"
                 h == "failure"
                 a == Tagged(g, s)
                 b == Tagged(h, f)
                 ss == ReadersOf[l.success]
                 fs == ReadersOf[l.failure]
                 rs == As(g, ss)
                 qs == As(h, fs)
      <4>2. Answers(s, ss) /\ Answers(f, fs)
        BY <3>1, <4>1, Zenon DEF Asked
      <4>3. PICK V : ss \in Seq(ReadersGiving(V))
        BY <3>1, <4>1, Zenon DEF Asked
      <4>4. PICK W : fs \in Seq(ReadersGiving(W))
        BY <3>1, <4>1, Zenon DEF Asked
      <4>5. Get[l] = OnUnion(a, b) /\ ReadersOf[l] = rs \o qs
        <5>1. Get[l] = OnResult(s, f) /\ ReadersOf[l] = rs \o qs
          BY <3>2, <3>5 DEF GetOf, ReadersIn
        <5> QED BY <5>1, ResultIsUnion, Zenon
      <4>6. g \in Tag /\ h \in Tag
        BY Zenon DEF Tag
      <4> HIDE DEF g, h, s, f, ss, fs
      <4>7. Answers(a, rs) /\ Answers(b, qs)
        BY <4>2, <4>3, <4>4, <4>6, TaggedAnswers, Zenon
      <4>8. PICK X : rs \in Seq(ReadersGiving(X))
        BY <4>3, AsType, Zenon
      <4>9. PICK Y : qs \in Seq(ReadersGiving(Y))
        BY <4>4, AsType, Zenon
      <4> HIDE DEF a, b, rs, qs
      <4> DEFINE T == ReadersGiving(X \union Y)
      <4>10. rs \in Seq(T) /\ qs \in Seq(T)
        <5>1. ReadersGiving(X) \subseteq T /\ ReadersGiving(Y) \subseteq T
          BY DEF ReadersGiving
        <5> HIDE DEF T
        <5> QED BY <4>8, <4>9, <5>1
      <4> HIDE DEF T
      <4>11. rs \o qs \in Seq(T) /\ Answers(OnUnion(a, b), rs \o qs)
        BY <4>7, <4>10, UnionAnswers, JointIs, Zenon
      <4> QED BY <4>5, <4>11, Zenon DEF Asked, T
    <3> QED BY <3>3, <3>4, <3>5, ProblemsAssumption, Zenon
  <2> HIDE DEF S
  <2>2. n + 1 \in Nat
    <3>1. S \in SUBSET Nat
      BY DEF S
    <3> QED BY <3>1
  <2> QED BY <2>1, <2>2 DEF S
<1> HIDE DEF S
<1>3. S \in SUBSET Nat
  BY DEF S
<1>4. \A n \in Nat : n \in S
  BY <1>1, <1>2, <1>3, Induct
<1> QED
  <2> TAKE l \in Lens
  <2>1. Depth[l] + 1 \in Nat /\ Depth[l] < Depth[l] + 1
    BY ProblemsAssumption
  <2> QED BY <1>4, <2>1 DEF S

\* Problems as the caller gets them.
Reported == [message : Check \union {"routing"}, path : Seq(Key), producedBy : Seq({RouteName})]

\* What the caller gets is there whatever was wrong.
LEMMA ReportsAre ==
    /\ NoReport.kind = "none" /\ NoReport.problems = <<>>
    /\ \A v : Returned(v).kind = "returned" /\ Returned(v).value = v /\ Returned(v).problems = <<>>
    /\ \A a, ps : /\ Thrown(a, ps).kind = "thrown" /\ Thrown(a, ps).problems = ps
                  /\ Thrown(a, ps).actual = a /\ Thrown(a, ps).expected = Intertwingle(a, ps)
BY DEF NoReport, Returned, Thrown

\* One problem on its way to the caller.
LEMMA OneReported ==
    ASSUME NEW p \in Blaming
    PROVE  LET q == [Problem(p.message, <<"response">> \o p.path, <<>>) EXCEPT !.producedBy = <<RouteName>> \o @]
           IN  q \in Reported /\ q = Problem(p.message, <<"response">> \o p.path, <<RouteName>>)
<1> DEFINE m == p.message
           k == "response"
           o == <<k>>
           w == p.path
           way == o \o w
           z == <<>>
           by == <<RouteName>>
           q == [Problem(m, way, z) EXCEPT !.producedBy = by \o @]
<1>1. m \in Check /\ w \in Seq(Key)
  BY DEF Blaming
<1>2. k \in Key
  BY Zenon DEF Key
<1> HIDE DEF k, m, w
<1>3. o \in Seq(Key)
  BY <1>2
<1> HIDE DEF o
<1>4. way \in Seq(Key)
  BY <1>1, <1>3, JointIs, Zenon
<1>5. by \o z = by /\ by \in Seq({RouteName})
  OBVIOUS
<1> HIDE DEF way, z, by
<1>6. Problem(m, way, z).producedBy = z /\ [Problem(m, way, z) EXCEPT !.producedBy = by] = Problem(m, way, by)
  BY DEF Problem
<1>7. q = Problem(m, way, by)
  BY <1>5, <1>6
<1>8. Problem(m, way, by) \in Reported
  BY <1>1, <1>4, <1>5 DEF Reported, Problem
<1> QED BY <1>7, <1>8, Zenon DEF m, k, o, w, way, z, by

\* Each reader that refused the response is in the error with what it had to say.
LEMMA AllReported ==
    ASSUME NEW r, NEW rs, Refuses(r, rs), Len(rs) \in Nat
    PROVE  LET ps == PrefixProducedBy(Prefix(r.error, <<"response">>), RouteName)
           IN  /\ ps \in Seq(Reported) /\ Len(ps) = Len(rs)
               /\ \A i \in 1..Len(rs) : Explains(ps[i], rs[i])
<1> DEFINE e == r.error
           n == Len(rs)
           o == <<"response">>
           f == Prefix(e, o)
           ps == PrefixProducedBy(f, RouteName)
           g(i) == Problem(e[i].message, o \o e[i].path, <<>>)
           h(i) == [g(i) EXCEPT !.producedBy = <<RouteName>> \o @]
<1>1. e \in Seq(Blaming) /\ Len(e) = n /\ \A i \in 1..n : Tells(e[i], rs[i])
  BY Zenon DEF Refuses
<1>2. DOMAIN e = 1..n /\ \A i \in 1..n : e[i] \in Blaming
  <2> HIDE DEF e, n
  <2> QED BY <1>1
<1>3. f = [i \in 1..n |-> g(i)]
  BY <1>2, Zenon DEF Prefix
<1> HIDE DEF f, e, n
<1>4. DOMAIN f = 1..n /\ \A i \in 1..n : f[i] = g(i)
  <2> HIDE DEF g
  <2> QED BY <1>3
<1>5. ps = [i \in 1..n |-> h(i)]
  <2>1. ps = [i \in 1..n |-> [f[i] EXCEPT !.producedBy = <<RouteName>> \o @]]
    BY <1>4, Zenon DEF PrefixProducedBy
  <2>2. \A i \in 1..n : [f[i] EXCEPT !.producedBy = <<RouteName>> \o @] = h(i)
    <3> TAKE i \in 1..n
    <3>1. f[i] = g(i)
      BY <1>4
    <3> HIDE DEF g
    <3> QED BY <3>1
  <2> HIDE DEF ps, h
  <2> QED BY <2>1, <2>2
<1>6. \A i \in 1..n : h(i) \in Reported /\ h(i) = Problem(e[i].message, o \o e[i].path, <<RouteName>>)
  BY <1>2, OneReported, Zenon
<1> HIDE DEF ps, h
<1>7. ps \in [1..n -> Reported] /\ \A i \in 1..n : ps[i] = h(i)
  BY <1>5, <1>6
<1>8. n \in Nat
  BY DEF n
<1>9. ps \in Seq(Reported) /\ Len(ps) = n
  BY <1>7, <1>8, FunctionIsSeq, Zenon
<1>10. \A i \in 1..n : Explains(ps[i], rs[i])
  <2> TAKE i \in 1..n
  <2>1. PICK j \in DOMAIN rs[i].checks :
            /\ e[i].message = rs[i].checks[j] /\ e[i].path = Blames[rs[i].checks[j]]
            /\ FailsAt(rs[i].checks, j)
    BY <1>1, Zenon DEF Tells
  <2>2. ps[i] = Problem(e[i].message, o \o e[i].path, <<RouteName>>)
    BY <1>6, <1>7, Zenon
  <2> QED BY <2>1, <2>2, Zenon DEF Explains
<1> QED BY <1>9, <1>10, Zenon DEF ps, n, f, e

\* The error's actual value is an exchange.
Exchanged == \E text : report.actual = Exchange(text)

-----------------------------------------------------------------------------
\* The invariant: the types of what is reported, how an error is made of its problems, and
\* that the alternatives were asked.
ReportInv ==
    /\ lens \in Lens /\ fails \subseteq Check /\ routed \in BOOLEAN
    /\ report.kind \in {"none", "returned", "thrown"}
    /\ report.problems \in Seq(Reported)
    /\ report.kind = "thrown" =>
          Exchanged /\ report.expected = Intertwingle(report.actual, report.problems)
    /\ AlternativesAreAsked

LEMMA NothingReported ==
    ASSUME lens \in Lens, fails \subseteq Check, routed \in BOOLEAN, report = NoReport PROVE ReportInv
<1>1. report.kind = "none" /\ report.problems \in Seq(Reported)
  BY ReportsAre
<1>2. "none" # "returned" /\ "none" # "thrown"
  OBVIOUS
<1> QED BY <1>1, <1>2, Zenon DEF ReportInv, AlternativesAreAsked

LEMMA ReportStep == ReportInv /\ [ProblemsNext]_problemVars => ReportInv'
<1> SUFFICES ASSUME ReportInv, [ProblemsNext]_problemVars PROVE ReportInv'
  OBVIOUS
<1>1. CASE UNCHANGED problemVars
  BY <1>1 DEF ReportInv, Exchanged, AlternativesAreAsked, Accepts, Explains, FailsAt, problemVars
<1> DEFINE rs == ReadersOf[lens]
<1>2. /\ lens \in Lens /\ fails \subseteq Check /\ routed \in BOOLEAN
      /\ "none" # "returned" /\ "none" # "thrown" /\ "returned" # "thrown"
  BY DEF ReportInv
<1>3. CASE RoutingError
  <2> DEFINE p == Problem("routing", <<"request">>, <<RouteName>>)
  <2>1. ~routed /\ report' = Thrown(Exchange("request text"), <<p>>) /\ lens' = lens /\ fails' = fails /\ routed' = routed
    BY <1>3, Zenon DEF RoutingError, Told
  <2>2. p \in Reported
    <3> DEFINE k == "request"
               w == <<k>>
               m == "routing"
    <3>1. k \in Key
      BY Zenon DEF Key
    <3> HIDE DEF k
    <3>2. w \in Seq(Key) /\ <<RouteName>> \in Seq({RouteName})
      BY <3>1
    <3>3. m \in Check \union {m}
      OBVIOUS
    <3> QED BY <3>2, <3>3 DEF Problem, Reported, k
  <2> HIDE DEF p
  <2>3. <<p>> \in Seq(Reported)
    BY <2>2
  <2>4. /\ report'.kind = "thrown" /\ report'.problems \in Seq(Reported)
        /\ report'.actual = Exchange("request text")
        /\ report'.expected = Intertwingle(report'.actual, report'.problems)
    <3> DEFINE a == Exchange("request text")
    <3>1. report' = Thrown(a, <<p>>)
      BY <2>1, Zenon
    <3> HIDE DEF a
    <3>2. /\ Thrown(a, <<p>>).kind = "thrown" /\ Thrown(a, <<p>>).problems = <<p>>
          /\ Thrown(a, <<p>>).actual = a /\ Thrown(a, <<p>>).expected = Intertwingle(a, <<p>>)
      BY ReportsAre, Zenon
    <3>3. /\ report'.kind = "thrown" /\ report'.problems \in Seq(Reported)
          /\ report'.actual = a /\ report'.expected = Intertwingle(report'.actual, report'.problems)
      BY <2>3, <3>1, <3>2
    <3> QED BY <3>3, Zenon DEF a
  <2>5. AlternativesAreAsked'
    BY <1>2, <2>1, <2>4, Zenon DEF AlternativesAreAsked
  <2> QED BY <1>2, <2>1, <2>4, <2>5, Zenon DEF ReportInv, Exchanged
<1>4. CASE Validate
  <2> DEFINE r == Get[lens]
             ps == PrefixProducedBy(Prefix(r.error, <<"response">>), RouteName)
  <2>1. /\ report' = (IF r.ok THEN Returned(r.value) ELSE Thrown(Exchange("response text"), ps))
        /\ lens' = lens /\ fails' = fails /\ routed' = routed /\ routed
    BY <1>4, Zenon DEF Validate, Told
  <2>2. PICK V : rs \in Seq(ReadersGiving(V))
    BY <1>2, LensesAnswer, Zenon DEF Asked
  <2>3. Answers(r, rs)
    BY <1>2, LensesAnswer, Zenon DEF Asked
  <2> HIDE DEF r
  <2>4. Len(rs) \in Nat /\ DOMAIN rs = 1..Len(rs)
    <3> HIDE DEF rs
    <3> QED BY <2>2
  <2>5. CASE Finds(r, rs)
    <3>1. r.ok /\ \E i \in 1..Len(rs) : /\ r.value = rs[i].value /\ Accepts(rs[i])
                                        /\ \A j \in 1..(i - 1) : ~Accepts(rs[j])
      BY <2>5, Zenon DEF Finds
    <3>2. report'.kind = "returned" /\ report'.value = r.value /\ report'.problems = <<>>
      BY <2>1, <3>1, ReportsAre, Zenon
    <3>3. AlternativesAreAsked'
      <4>1. \A t : Accepts(t)' <=> Accepts(t)
        BY <2>1, Zenon DEF Accepts
      <4>2. \E i \in DOMAIN rs : /\ report'.value = rs[i].value /\ Accepts(rs[i])
                                 /\ \A j \in 1..(i - 1) : ~Accepts(rs[j])
        BY <2>4, <3>1, <3>2, Zenon
      <4> QED BY <1>2, <2>1, <3>2, <4>2, Zenon DEF AlternativesAreAsked, Accepts
    <3>4. <<>> \in Seq(Reported)
      OBVIOUS
    <3> QED BY <1>2, <2>1, <3>2, <3>3, <3>4, Zenon DEF ReportInv
  <2>6. CASE Refuses(r, rs)
    <3>1. ~r.ok
      BY <2>6, Zenon DEF Refuses
    <3>2. /\ ps \in Seq(Reported) /\ Len(ps) = Len(rs)
          /\ \A i \in 1..Len(rs) : Explains(ps[i], rs[i])
      BY <2>4, <2>6, AllReported, Zenon
    <3>3. /\ report'.kind = "thrown" /\ report'.problems = ps
          /\ report'.actual = Exchange("response text")
          /\ report'.expected = Intertwingle(report'.actual, report'.problems)
      <4> DEFINE a == Exchange("response text")
      <4>1. report' = Thrown(a, ps)
        BY <2>1, <3>1, Zenon
      <4> HIDE DEF a, ps
      <4>2. /\ Thrown(a, ps).kind = "thrown" /\ Thrown(a, ps).problems = ps
            /\ Thrown(a, ps).actual = a /\ Thrown(a, ps).expected = Intertwingle(a, ps)
        BY ReportsAre, Zenon
      <4>3. /\ report'.kind = "thrown" /\ report'.problems = ps
            /\ report'.actual = a /\ report'.expected = Intertwingle(report'.actual, report'.problems)
        BY <4>1, <4>2
      <4> QED BY <4>3, Zenon DEF a
    <3>4. AlternativesAreAsked'
      <4> HIDE DEF ps
      <4>1. \A i \in DOMAIN rs : Explains(report'.problems[i], rs[i])
        BY <2>4, <3>2, <3>3, Zenon
      <4>2. \A q, t : Explains(q, t)' <=> Explains(q, t)
        BY <2>1, Zenon DEF Explains, FailsAt
      <4>3. Len(report'.problems) = Len(rs) /\ report'.kind # "returned"
        BY <1>2, <3>2, <3>3, Zenon
      <4> QED BY <2>1, <4>1, <4>2, <4>3, Zenon DEF AlternativesAreAsked, Explains, FailsAt
    <3> QED BY <1>2, <2>1, <3>2, <3>3, <3>4, Zenon DEF ReportInv, Exchanged
  <2> QED BY <2>3, <2>5, <2>6, Zenon DEF Answers
<1> QED BY <1>1, <1>3, <1>4, Zenon DEF ProblemsNext

LEMMA ReportTypes == ReportInv => ProblemsTypeOK /\ AlternativesAreAsked
<1> SUFFICES ASSUME ReportInv PROVE ProblemsTypeOK /\ AlternativesAreAsked
  OBVIOUS
<1>1. \A p \in Range(report.problems) : p \in Reported
  <2> DEFINE s == report.problems
  <2>1. s \in Seq(Reported)
    BY Zenon DEF ReportInv
  <2> HIDE DEF s
  <2>2. \A i \in DOMAIN s : s[i] \in Reported
    BY <2>1
  <2> QED BY <2>2, Zenon DEF Range, s
<1>2. \A p \in Reported : p.message \in Check \union {"routing"} /\ p.path \in Seq(Key) /\ p.producedBy \in Seq({RouteName})
  BY DEF Reported
<1> QED BY <1>1, <1>2, Zenon DEF ReportInv, ProblemsTypeOK

-----------------------------------------------------------------------------
\* What one more key makes of the way to a thing.
Longer(K, s, k) ==
    /\ Append(s, k) \in Seq(K) /\ Len(Append(s, k)) = Len(s) + 1 /\ Append(s, k) # <<>>
    /\ Front(Append(s, k)) = s /\ Last(Append(s, k)) = k

LEMMA LongerIs == ASSUME NEW K, NEW s \in Seq(K), NEW k \in K PROVE Longer(K, s, k)
<1> DEFINE t == Append(s, k)
           f == SubSeq(t, 1, Len(s))
<1>1. /\ t \in Seq(K) /\ Len(t) = Len(s) + 1 /\ t # <<>> /\ Len(s) \in Nat
      /\ \A i \in 1..Len(s) : t[i] = s[i]
      /\ t[Len(s) + 1] = k
  BY AppendProperties
<1> HIDE DEF t
<1>2. f \in Seq(K) /\ Len(f) = Len(s) /\ \A i \in 1..Len(s) : f[i] = t[i]
  BY <1>1
<1>3. f = s
  <2> HIDE DEF f
  <2>1. \A i \in 1..Len(s) : f[i] = s[i]
    BY <1>1, <1>2, Zenon
  <2> QED BY <1>2, <2>1, SeqEqual, Zenon
<1>4. Len(t) - 1 = Len(s)
  BY <1>1
<1>5. Front(t) = s /\ Last(t) = k
  BY <1>1, <1>3, <1>4, Zenon DEF Front, Last
<1> QED BY <1>1, <1>5, Zenon DEF Longer, t

\* g says what lies in t up to n keys down.
Spread(g, n, t) ==
    /\ \E K : DOMAIN g \subseteq Seq(K)
    /\ <<>> \in DOMAIN g /\ g[<<>>] = t
    /\ \A p \in DOMAIN g : Len(p) <= n
    /\ \A p \in DOMAIN g : \A k \in DOMAIN g[p].parts :
          Len(p) < n => Append(p, k) \in DOMAIN g /\ g[Append(p, k)] = g[p].parts[k]
    /\ \A p \in DOMAIN g : p # <<>> => \E q \in DOMAIN g : \E k \in DOMAIN g[q].parts : p = Append(q, k)

\* One step further down.
LEMMA LiesFurther ==
    ASSUME NEW g, NEW n \in Nat, NEW t, Spread(g, n, t) PROVE Spread(Further(g), n + 1, t)
<1> DEFINE h == Further(g)
           D == DOMAIN g
           N == UNION {{Append(q, k) : k \in DOMAIN g[q].parts} : q \in D}
           J == UNION {DOMAIN g[q].parts : q \in D}
           v(p) == IF p \in D THEN g[p] ELSE g[Front(p)].parts[Last(p)]
<1>1. PICK I : D \subseteq Seq(I)
  BY Zenon DEF Spread
<1> DEFINE K == I \union J
<1>2. D \subseteq Seq(K) /\ \A q \in D : DOMAIN g[q].parts \subseteq K
  BY <1>1
<1>3. \A q \in D : \A k \in DOMAIN g[q].parts : Append(q, k) \in N /\ Longer(K, q, k)
  <2> TAKE q \in D
  <2> TAKE k \in DOMAIN g[q].parts
  <2>1. Append(q, k) \in N
    OBVIOUS
  <2>2. q \in Seq(K) /\ k \in K
    BY <1>2
  <2> QED BY <2>1, <2>2, LongerIs, Zenon
<1>4. \A p \in N : \E q \in D : \E k \in DOMAIN g[q].parts : p = Append(q, k)
  OBVIOUS
<1>5. h = [p \in D \union N |-> v(p)]
  BY Zenon DEF Further
<1> HIDE DEF N, K
<1>6. DOMAIN h = D \union N /\ \A p \in D \union N : h[p] = v(p)
  <2> HIDE DEF v, D, h
  <2> QED BY <1>5
<1> HIDE DEF h
<1>7. \A p \in D : Len(p) \in Nat /\ Len(p) <= n
  <2>1. \A p \in D : p \in Seq(K)
    BY <1>2
  <2>2. \A p \in D : Len(p) <= n
    BY Zenon DEF Spread
  <2> HIDE DEF D
  <2> QED BY <2>1, <2>2
<1>8. \A p \in D : p \in DOMAIN h /\ h[p] = g[p]
  BY <1>6, Zenon
<1>9. ASSUME NEW q \in D, NEW k \in DOMAIN g[q].parts
      PROVE  Append(q, k) \in DOMAIN h /\ h[Append(q, k)] = g[q].parts[k]
  <2> DEFINE p == Append(q, k)
  <2>1. p \in N /\ Longer(K, q, k)
    BY <1>3, Zenon
  <2>2. Len(p) = Len(q) + 1 /\ Front(p) = q /\ Last(p) = k
    BY <2>1, Zenon DEF Longer
  <2>3. CASE p \in D
    <3>1. Len(q) < n
      <4> HIDE DEF D, p
      <4> QED BY <1>7, <2>2, <2>3
    <3>2. g[p] = g[q].parts[k]
      BY <3>1, Zenon DEF Spread
    <3> QED BY <1>8, <2>3, <3>2, Zenon
  <2>4. CASE p \notin D
    <3> HIDE DEF p, D
    <3>1. h[p] = v(p) /\ p \in DOMAIN h
      BY <1>6, <2>1
    <3> QED BY <2>2, <2>4, <3>1, Zenon DEF p
  <2> QED BY <2>3, <2>4
<1>10. DOMAIN h \subseteq Seq(K)
  <2> SUFFICES ASSUME NEW p \in N PROVE p \in Seq(K)
    BY <1>2, <1>6
  <2>0. PICK q \in D : \E k \in DOMAIN g[q].parts : p = Append(q, k)
    BY <1>4, Zenon
  <2>1. PICK k \in DOMAIN g[q].parts : p = Append(q, k)
    BY <2>0, Zenon
  <2> QED BY <1>3, <2>1, Zenon DEF Longer
<1>11. <<>> \in DOMAIN h /\ h[<<>>] = t
  BY <1>8, Zenon DEF Spread
<1>12. ASSUME NEW p \in DOMAIN h, p \notin D PROVE Len(p) = n + 1
  <2>0. PICK q \in D : \E k \in DOMAIN g[q].parts : p = Append(q, k)
    BY <1>4, <1>6, <1>12, Zenon
  <2>1. PICK k \in DOMAIN g[q].parts : p = Append(q, k)
    BY <2>0, Zenon
  <2>2. Len(p) = Len(q) + 1
    BY <1>3, <2>1, Zenon DEF Longer
  <2>3. ~(Len(q) < n)
    BY <1>12, <2>1, Zenon DEF Spread
  <2> HIDE DEF D
  <2> QED BY <1>7, <2>2, <2>3
<1>13. \A p \in DOMAIN h : Len(p) <= n + 1
  <2> HIDE DEF D
  <2> QED BY <1>7, <1>12
<1>14. ASSUME NEW p \in DOMAIN h, NEW k \in DOMAIN h[p].parts, Len(p) < n + 1
       PROVE  Append(p, k) \in DOMAIN h /\ h[Append(p, k)] = h[p].parts[k]
  <2>1. p \in D
    <3> HIDE DEF D
    <3> QED BY <1>12, <1>14
  <2>2. h[p] = g[p]
    BY <1>8, <2>1, Zenon
  <2> QED BY <1>9, <2>1, <2>2, <1>14, Zenon
<1>15. ASSUME NEW p \in DOMAIN h, p # <<>>
       PROVE  \E q \in DOMAIN h : \E k \in DOMAIN h[q].parts : p = Append(q, k)
  <2>1. \E q \in D : \E k \in DOMAIN g[q].parts : p = Append(q, k)
    <3>1. CASE p \in D
      BY <1>15, <3>1, Zenon DEF Spread
    <3>2. CASE p \in N
      BY <1>4, <3>2, Zenon
    <3> QED BY <1>6, <3>1, <3>2, Zenon
  <2> QED BY <1>8, <2>1, Zenon
<1> QED BY <1>10, <1>11, <1>13, <1>14, <1>15, Zenon DEF Spread, h

\* So Layout says what lies up to five keys down.
LEMMA LaidIs == \A t : Spread(Layout(t), 5, t)
<1> TAKE t
<1> DEFINE z == [p \in {<<>>} |-> t]
           a == Further(z)
           b == Further(a)
           c == Further(b)
           d == Further(c)
           e == Further(d)
<1>1. Spread(z, 0, t)
  <2>1. DOMAIN z = {<<>>} /\ z[<<>>] = t
    OBVIOUS
  <2>2. {<<>>} \subseteq Seq({})
    OBVIOUS
  <2>3. Len(<<>>) = 0 /\ ~(0 < 0) /\ 0 <= 0
    OBVIOUS
  <2> HIDE DEF z
  <2> QED BY <2>1, <2>2, <2>3, Zenon DEF Spread
<1>2. /\ \A g : Spread(g, 0, t) => Spread(Further(g), 1, t)
      /\ \A g : Spread(g, 1, t) => Spread(Further(g), 2, t)
      /\ \A g : Spread(g, 2, t) => Spread(Further(g), 3, t)
      /\ \A g : Spread(g, 3, t) => Spread(Further(g), 4, t)
      /\ \A g : Spread(g, 4, t) => Spread(Further(g), 5, t)
  <2>1. ASSUME NEW g, NEW n \in Nat, NEW m, m = n + 1, Spread(g, n, t) PROVE Spread(Further(g), m, t)
    BY <2>1, LiesFurther, Zenon
  <2>2. /\ 0 \in Nat /\ 1 \in Nat /\ 2 \in Nat /\ 3 \in Nat /\ 4 \in Nat
        /\ 1 = 0 + 1 /\ 2 = 1 + 1 /\ 3 = 2 + 1 /\ 4 = 3 + 1 /\ 5 = 4 + 1
    OBVIOUS
  <2> QED BY <2>1, <2>2, Zenon
<1>3. Layout(t) = e
  BY Zenon DEF Layout
<1> HIDE DEF z
<1>4. Spread(a, 1, t)
  BY <1>1, <1>2, Zenon
<1> HIDE DEF a
<1>5. Spread(b, 2, t)
  BY <1>2, <1>4, Zenon
<1> HIDE DEF b
<1>6. Spread(c, 3, t)
  BY <1>2, <1>5, Zenon
<1> HIDE DEF c
<1>7. Spread(d, 4, t)
  BY <1>2, <1>6, Zenon
<1> HIDE DEF d
<1>8. Spread(e, 5, t)
  BY <1>2, <1>7, Zenon
<1> QED BY <1>3, <1>8, Zenon

\* A value is made of its parts, which are in S; nothing lies in a primitive.
MadeOfParts(t, S) ==
    /\ t = Tree(t.kind, t.said, t.parts)
    /\ IsPrimitive(t) => DOMAIN t.parts = {}
    /\ \A k \in DOMAIN t.parts : t.parts[k] \in S

\* What lies n keys down in an exchange of a text.
Level(text, n) ==
    CASE n = 0 -> {Exchange(text)}
      [] n = 1 -> {Exchange(text).parts.request, Exchange(text).parts.response}
      [] n = 2 -> {Prim("method"), Prim("uri"), Pairs, Prim(text), Prim("status")}
      [] n = 3 -> {Pairs.parts["0"]}
      [] n = 4 -> {Prim("name"), Prim("value")}
      [] OTHER -> {}

LEMMA PrimHolds == \A v, S : MadeOfParts(Prim(v), S)
BY DEF MadeOfParts, Prim, Tree, None

LEMMA ObjectHolds ==
    ASSUME NEW f, NEW S, \A k \in DOMAIN f : f[k] \in S
    PROVE  MadeOfParts(Object(f), S) /\ MadeOfParts(Array(f), S) /\ Object(f).parts = f /\ Array(f).parts = f
<1>1. /\ Object(f).parts = f /\ Array(f).parts = f
      /\ ~IsPrimitive(Object(f)) /\ ~IsPrimitive(Array(f))
  BY DEF Object, Array, Tree, IsPrimitive
<1>2. \A t : t = Object(f) \/ t = Array(f) => t = Tree(t.kind, t.said, t.parts)
  BY DEF Object, Array, Tree
<1> QED BY <1>1, <1>2, Zenon DEF MadeOfParts

LEMMA LevelHolds ==
    ASSUME NEW text PROVE \A n \in Nat : \A t \in Level(text, n) : MadeOfParts(t, Level(text, n + 1))
<1> DEFINE nm == Prim("name")
           vl == Prim("value")
           me == Prim("method")
           ur == Prim("uri")
           tx == Prim(text)
           st == Prim("status")
           pr == [j \in {"0", "1"} |-> IF j = "0" THEN nm ELSE vl]
           ps == [i \in {"0"} |-> Array(pr)]
           rq == [method |-> me, uri |-> ur, headers |-> Pairs, body |-> tx]
           rs == [status |-> st, headers |-> Pairs, body |-> tx]
           ex == [request |-> Object(rq), response |-> Object(rs)]
<1>1. Pairs = Array(ps) /\ Exchange(text) = Object(ex)
  BY Zenon DEF Pairs, Exchange
<1>2. Pairs.parts = ps /\ Exchange(text).parts = ex
  BY <1>1 DEF Object, Array, Tree
<1>3. \A S : MadeOfParts(nm, S) /\ MadeOfParts(vl, S) /\ MadeOfParts(me, S) /\ MadeOfParts(ur, S) /\ MadeOfParts(tx, S) /\ MadeOfParts(st, S)
  BY PrimHolds, Zenon
<1> HIDE DEF nm, vl, me, ur, tx, st
<1>4. ps["0"] = Array(pr)
  BY DEF ps
<1>5. ex.request = Object(rq) /\ ex.response = Object(rs)
  BY DEF ex
<1>6. /\ \A S : nm \in S /\ vl \in S => \A k \in DOMAIN pr : pr[k] \in S
      /\ \A S : me \in S /\ ur \in S /\ tx \in S /\ Pairs \in S => \A k \in DOMAIN rq : rq[k] \in S
      /\ \A S : st \in S /\ tx \in S /\ Pairs \in S => \A k \in DOMAIN rs : rs[k] \in S
  <2>1. \A k \in DOMAIN pr : pr[k] = nm \/ pr[k] = vl
    BY DEF pr
  <2>2. \A k \in DOMAIN rq : rq[k] = me \/ rq[k] = ur \/ rq[k] = Pairs \/ rq[k] = tx
    BY DEF rq
  <2>3. \A k \in DOMAIN rs : rs[k] = st \/ rs[k] = Pairs \/ rs[k] = tx
    BY DEF rs
  <2> HIDE DEF pr, rq, rs
  <2> QED BY <2>1, <2>2, <2>3, Zenon
<1> HIDE DEF pr, rq, rs
<1>7. /\ \A S : Object(rq) \in S /\ Object(rs) \in S => \A k \in DOMAIN ex : ex[k] \in S
      /\ \A S : Array(pr) \in S => \A k \in DOMAIN ps : ps[k] \in S
  <2>1. \A k \in DOMAIN ex : ex[k] = Object(rq) \/ ex[k] = Object(rs)
    BY DEF ex
  <2>2. \A k \in DOMAIN ps : ps[k] = Array(pr)
    BY DEF ps
  <2> HIDE DEF ex, ps
  <2> QED BY <2>1, <2>2, Zenon
<1>8. /\ Level(text, 0) = {Exchange(text)} /\ Level(text, 1) = {Object(rq), Object(rs)}
      /\ Level(text, 2) = {me, ur, Pairs, tx, st} /\ Level(text, 3) = {Array(pr)} /\ Level(text, 4) = {nm, vl}
  <2>1. Level(text, 0) = {Exchange(text)}
    BY DEF Level
  <2>2. Level(text, 1) = {Exchange(text).parts.request, Exchange(text).parts.response}
    BY DEF Level
  <2>3. Level(text, 2) = {Prim("method"), Prim("uri"), Pairs, Prim(text), Prim("status")}
    BY DEF Level
  <2>4. Level(text, 3) = {Pairs.parts["0"]}
    BY DEF Level
  <2>5. Level(text, 4) = {Prim("name"), Prim("value")}
    BY DEF Level
  <2> HIDE DEF ex, ps
  <2> QED BY <1>2, <1>4, <1>5, <2>1, <2>2, <2>3, <2>4, <2>5, Zenon DEF nm, vl, me, ur, tx, st
<1>9. \A n \in Nat : n \notin {0, 1, 2, 3, 4} => Level(text, n) = {}
  BY DEF Level
<1> HIDE DEF ex, ps
<1>10. \A t \in Level(text, 0) : MadeOfParts(t, Level(text, 1))
  <2>1. Object(rq) \in Level(text, 1) /\ Object(rs) \in Level(text, 1)
    BY <1>8, Zenon
  <2>2. \A k \in DOMAIN ex : ex[k] \in Level(text, 1)
    BY <1>7, <2>1, Zenon
  <2>3. MadeOfParts(Object(ex), Level(text, 1))
    BY <2>2, ObjectHolds, Zenon
  <2> QED BY <1>1, <1>8, <2>3, Zenon
<1>11. \A t \in Level(text, 1) : MadeOfParts(t, Level(text, 2))
  <2>1. me \in Level(text, 2) /\ ur \in Level(text, 2) /\ tx \in Level(text, 2) /\ st \in Level(text, 2) /\ Pairs \in Level(text, 2)
    BY <1>8, Zenon
  <2>2. MadeOfParts(Object(rq), Level(text, 2)) /\ MadeOfParts(Object(rs), Level(text, 2))
    BY <1>6, <2>1, ObjectHolds, Zenon
  <2> QED BY <1>8, <2>2, Zenon
<1>12. \A t \in Level(text, 2) : MadeOfParts(t, Level(text, 3))
  <2>1. Array(pr) \in Level(text, 3)
    BY <1>8, Zenon
  <2>2. \A k \in DOMAIN ps : ps[k] \in Level(text, 3)
    BY <1>7, <2>1, Zenon
  <2>3. MadeOfParts(Pairs, Level(text, 3))
    BY <1>1, <2>2, ObjectHolds, Zenon
  <2> QED BY <1>3, <1>8, <2>3, Zenon
<1>13. \A t \in Level(text, 3) : MadeOfParts(t, Level(text, 4))
  <2>1. nm \in Level(text, 4) /\ vl \in Level(text, 4)
    BY <1>8, Zenon
  <2>2. MadeOfParts(Array(pr), Level(text, 4))
    BY <1>6, <2>1, ObjectHolds, Zenon
  <2> QED BY <1>8, <2>2, Zenon
<1>14. \A t \in Level(text, 4) : MadeOfParts(t, Level(text, 5))
  BY <1>3, <1>8, ZenonT(40)
<1> QED
  <2> TAKE n \in Nat
  <2>1. CASE n \in {0, 1, 2, 3, 4}
    <3>1. 0 + 1 = 1 /\ 1 + 1 = 2 /\ 2 + 1 = 3 /\ 3 + 1 = 4 /\ 4 + 1 = 5
      OBVIOUS
    <3>2. n = 0 \/ n = 1 \/ n = 2 \/ n = 3 \/ n = 4
      BY <2>1
    <3> QED BY <1>10, <1>11, <1>12, <1>13, <1>14, <3>1, <3>2, Zenon
  <2>2. CASE n \notin {0, 1, 2, 3, 4}
    BY <1>9, <2>2, Zenon
  <2> QED BY <2>1, <2>2

\* What lies where in the error's actual value.
Given == Layout(report.actual)

\* Nothing lies deeper in an exchange than a header's name, and nothing lies in a primitive.
Shape ==
    \A p \in DOMAIN Given :
        /\ Len(p) \in 0..4
        /\ Given[p] = Tree(Given[p].kind, Given[p].said, Given[p].parts)
        /\ IsPrimitive(Given[p]) => DOMAIN Given[p].parts = {}

LEMMA ShapeIs == Exchanged => Shape
<1> SUFFICES ASSUME Exchanged PROVE Shape
  OBVIOUS
<1>0. PICK text : report.actual = Exchange(text)
  BY Zenon DEF Exchanged
<1> DEFINE D == DOMAIN Given
           S == {n \in Nat : \A p \in D : Len(p) < n => Given[p] \in Level(text, Len(p))}
<1>1. Spread(Given, 5, Exchange(text))
  BY <1>0, LaidIs, Zenon DEF Given
<1>2. PICK K : D \subseteq Seq(K)
  BY <1>1, Zenon DEF Spread
<1>3. \A p \in D : Len(p) \in Nat /\ Len(p) <= 5
  <2>1. \A p \in D : p \in Seq(K)
    BY <1>2, Zenon
  <2>2. \A p \in D : Len(p) <= 5
    BY <1>1, Zenon DEF Spread
  <2> HIDE DEF D
  <2> QED BY <2>1, <2>2
<1>4. \A p \in D : \A k : Len(Append(p, k)) = Len(p) + 1
  <2>1. \A p \in D : p \in Seq(K)
    BY <1>2, Zenon
  <2> TAKE p \in D
  <2> TAKE k
  <2>2. p \in Seq(K \union {k}) /\ k \in K \union {k}
    BY <2>1
  <2> QED BY <2>2, AppendProperties, Zenon
<1>5. 0 \in S
  BY <1>3
<1>6. ASSUME NEW n \in S PROVE n + 1 \in S
  <2>1. ASSUME NEW p \in D, Len(p) < n + 1 PROVE Given[p] \in Level(text, Len(p))
    <3>1. CASE p = <<>>
      <4>1. Given[p] = Exchange(text)
        BY <1>1, <3>1, Zenon DEF Spread
      <4>2. Len(p) = 0 /\ Level(text, 0) = {Exchange(text)}
        BY <3>1 DEF Level
      <4> QED BY <4>1, <4>2, Zenon
    <3>2. CASE p # <<>>
      <4>1. PICK q \in D : \E k \in DOMAIN Given[q].parts : p = Append(q, k)
        BY <1>1, <3>2, Zenon DEF Spread
      <4>2. PICK k \in DOMAIN Given[q].parts : p = Append(q, k)
        BY <4>1, Zenon
      <4>3. Len(p) = Len(q) + 1
        BY <1>4, <4>2, Zenon
      <4>4. Len(q) \in Nat /\ Len(q) < n /\ Len(q) < 5
        <5> HIDE DEF D
        <5>1. n \in Nat
          OBVIOUS
        <5> QED BY <1>3, <2>1, <4>3, <5>1
      <4>5. Given[q] \in Level(text, Len(q))
        BY <4>4
      <4>6. Given[p] = Given[q].parts[k]
        BY <1>1, <4>2, <4>4, Zenon DEF Spread
      <4>7. MadeOfParts(Given[q], Level(text, Len(q) + 1))
        BY <4>4, <4>5, LevelHolds, Zenon
      <4> QED BY <4>2, <4>3, <4>6, <4>7, Zenon DEF MadeOfParts
    <3> QED BY <3>1, <3>2
  <2>2. n + 1 \in Nat
    OBVIOUS
  <2> QED BY <2>1, <2>2
<1>7. \A n \in Nat : n \in S
  <2>1. S \in SUBSET Nat
    OBVIOUS
  <2> HIDE DEF S
  <2> QED BY <1>5, <1>6, <2>1, Induct, Zenon
<1>8. \A p \in D : Given[p] \in Level(text, Len(p))
  <2> TAKE p \in D
  <2>1. Len(p) + 1 \in Nat /\ Len(p) < Len(p) + 1
    BY <1>3
  <2> QED BY <1>7, <2>1
<1> HIDE DEF S
<1>9. Level(text, 5) = {}
  BY DEF Level
<1> QED
  <2> SUFFICES ASSUME NEW p \in D
               PROVE  /\ Len(p) \in 0..4
                      /\ Given[p] = Tree(Given[p].kind, Given[p].said, Given[p].parts)
                      /\ IsPrimitive(Given[p]) => DOMAIN Given[p].parts = {}
    BY Zenon DEF Shape
  <2>1. Len(p) # 5
    BY <1>8, <1>9, Zenon
  <2>2. Len(p) \in 0..4
    <3> DEFINE n == Len(p)
    <3>1. n \in Nat /\ n <= 5 /\ n # 5
      BY <1>3, <2>1, Zenon
    <3> HIDE DEF n
    <3>2. n \in 0..4
      BY <3>1
    <3> QED BY <3>2 DEF n
  <2>3. MadeOfParts(Given[p], Level(text, Len(p) + 1))
    BY <1>3, <1>8, LevelHolds, Zenon
  <2> QED BY <2>2, <2>3, Zenon DEF MadeOfParts

\* What it is to be a prefix.
LEMMA PrefixIs ==
    ASSUME NEW K, NEW s \in Seq(K), NEW t \in Seq(K)
    PROVE  IsPrefix(s, t) <=> Len(s) <= Len(t) /\ \A i \in 1..Len(s) : s[i] = t[i]
<1> DEFINE u == SubSeq(s, 1, Len(s))
           v == SubSeq(t, 1, Len(s))
<1>1. u \in Seq(K) /\ Len(u) = Len(s) /\ \A i \in 1..Len(s) : u[i] = s[i]
  OBVIOUS
<1>2. ASSUME Len(s) <= Len(t)
      PROVE  v \in Seq(K) /\ Len(v) = Len(s) /\ \A i \in 1..Len(s) : v[i] = t[i]
  <2>1. \A i \in 1..Len(s) : i \in 1..Len(t)
    BY <1>2
  <2> QED BY <1>2, <2>1
<1>3. IsPrefix(s, t) <=> Len(s) <= Len(t) /\ u = v
  BY Zenon DEF IsPrefix
<1> HIDE DEF u, v
<1>4. ASSUME Len(s) <= Len(t), \A i \in 1..Len(s) : s[i] = t[i] PROVE u = v
  <2>1. \A i \in 1..Len(u) : u[i] = v[i]
    BY <1>1, <1>2, <1>4, Zenon
  <2> QED BY <1>1, <1>2, <1>4, <2>1, SeqEqual, Zenon
<1>5. ASSUME Len(s) <= Len(t), u = v PROVE \A i \in 1..Len(s) : s[i] = t[i]
  BY <1>1, <1>2, <1>5, Zenon
<1> QED BY <1>3, <1>4, <1>5, Zenon

\* A thing one key further than its prefix.
LEMMA PrefixOfNext ==
    ASSUME NEW K, NEW s \in Seq(K), NEW t \in Seq(K), IsPrefix(s, t), Len(t) = Len(s) + 1
    PROVE  t = Append(s, Last(t)) /\ Last(t) \in K
<1> DEFINE k == Last(t)
           u == Append(s, k)
<1>1. \A i \in 1..Len(s) : s[i] = t[i]
  <2>1. IsPrefix(s, t) <=> Len(s) <= Len(t) /\ \A i \in 1..Len(s) : s[i] = t[i]
    BY PrefixIs
  <2> QED BY <2>1
<1>2. Len(s) \in Nat /\ k = t[Len(s) + 1] /\ k \in K
  BY DEF Last
<1> HIDE DEF k
<1>3. u \in Seq(K) /\ Len(u) = Len(s) + 1 /\ u[Len(s) + 1] = k /\ \A i \in 1..Len(s) : u[i] = s[i]
  BY <1>2, AppendProperties
<1> HIDE DEF u
<1>4. \A i \in 1..Len(t) : t[i] = u[i]
  <2> TAKE i \in 1..Len(t)
  <2>1. i \in 1..Len(s) \/ i = Len(s) + 1
    BY <1>2
  <2> QED BY <1>1, <1>2, <1>3, <2>1, Zenon
<1>5. t = u
  BY <1>3, <1>4, SeqEqual, Zenon
<1> QED BY <1>2, <1>5, Zenon DEF u, k

-----------------------------------------------------------------------------
\* Where something is shown; what is asked for what is shown at p; how far that goes.
Ways(ps) == DOMAIN Given \union {ps[i].path : i \in DOMAIN ps}

Below(ps, p) ==
    {Append(p, k) : k \in DOMAIN Given[p].parts \union MissingKeys(Given[p], ps, p)}

Rest(p) == IF p \in DOMAIN Given THEN 5 - Len(p) ELSE 0

\* All that is one sort of key.
LEMMA WaysType == \E K : Key \subseteq K /\ DOMAIN Given \subseteq Seq(K)
<1>1. PICK I : DOMAIN Given \subseteq Seq(I)
  BY LaidIs, Zenon DEF Spread, Given
<1> DEFINE K == I \union Key
           D == DOMAIN Given
<1> HIDE DEF D
<1>2. D \subseteq Seq(K)
  BY <1>1 DEF D
<1> QED BY <1>2 DEF D

LEMMA RestIs ==
    ASSUME Exchanged PROVE \A p : Rest(p) \in Nat /\ (p \in DOMAIN Given => Rest(p) = 5 - Len(p) /\ Rest(p) > 0)
<1> TAKE p
<1>1. CASE p \in DOMAIN Given
  <2>1. Len(p) \in 0..4 /\ Rest(p) = 5 - Len(p)
    BY <1>1, ShapeIs, Zenon DEF Shape, Rest
  <2> DEFINE n == Len(p)
             r == Rest(p)
  <2>2. n \in 0..4 /\ r = 5 - n
    BY <2>1, Zenon
  <2> HIDE DEF n, r
  <2>3. r \in Nat /\ r > 0
    BY <2>2
  <2> QED BY <1>1, <2>2, <2>3, Zenon DEF n, r
<1>2. CASE p \notin DOMAIN Given
  BY <1>2 DEF Rest
<1> QED BY <1>1, <1>2

\* What is asked is shown too, and nearer to the end.
LEMMA BelowIs ==
    ASSUME Exchanged, NEW ps \in Seq(Reported), NEW p \in DOMAIN Given, NEW q \in Below(ps, p)
    PROVE  q \in Ways(ps) /\ Rest(q) < Rest(p)
<1>1. PICK K : Key \subseteq K /\ DOMAIN Given \subseteq Seq(K)
  BY WaysType, Zenon
<1>2. PICK k \in DOMAIN Given[p].parts \union MissingKeys(Given[p], ps, p) : q = Append(p, k)
  BY Zenon DEF Below
<1>3. p \in Seq(K)
  BY <1>1
<1>4. q \in Ways(ps)
  <2>1. CASE k \in DOMAIN Given[p].parts
    <3>1. Len(p) < 5
      <4>1. Len(p) \in 0..4
        BY ShapeIs, Zenon DEF Shape
      <4> DEFINE n == Len(p)
      <4>2. n \in 0..4
        BY <4>1
      <4> HIDE DEF n
      <4>3. n < 5
        BY <4>2
      <4> QED BY <4>3 DEF n
    <3>2. Append(p, k) \in DOMAIN Given
      BY <2>1, <3>1, LaidIs, Zenon DEF Spread, Given
    <3> QED BY <1>2, <3>2, Zenon DEF Ways
  <2>2. CASE k \in MissingKeys(Given[p], ps, p)
    <3>1. PICK x \in Range(ps) : k = Last(x.path) /\ Len(x.path) = Len(p) + 1 /\ IsPrefix(p, x.path)
      BY <2>2, Zenon DEF MissingKeys
    <3>2. PICK i \in DOMAIN ps : x = ps[i]
      BY <3>1, Zenon DEF Range
    <3>3. x \in Reported
      BY <3>2
    <3>4. x.path \in Seq(K)
      <4>1. x.path \in Seq(Key)
        BY <3>3 DEF Reported
      <4> QED BY <1>1, <4>1
    <3>5. x.path = q
      BY <1>2, <1>3, <3>1, <3>4, PrefixOfNext, Zenon
    <3> QED BY <3>2, <3>5, Zenon DEF Ways
  <2> QED BY <1>2, <2>1, <2>2
<1>5. Rest(q) < Rest(p)
  <2>1. Len(q) = Len(p) + 1
    <3>1. p \in Seq(K \union {k}) /\ k \in K \union {k}
      BY <1>3
    <3> QED BY <1>2, <3>1, AppendProperties, Zenon
  <2>2. Rest(p) = 5 - Len(p) /\ Rest(p) > 0 /\ Rest(q) \in Nat /\ Rest(p) \in Nat
    BY RestIs
  <2>3. q \in DOMAIN Given => Rest(q) = 5 - Len(q)
    BY RestIs, Zenon
  <2>4. q \notin DOMAIN Given => Rest(q) = 0
    BY Zenon DEF Rest
  <2>5. Len(p) \in Nat
    BY <1>3
  <2> DEFINE n == Len(p)
             m == Len(q)
             r == Rest(p)
             o == Rest(q)
  <2> HIDE DEF n, m, r, o
  <2>6. m = n + 1 /\ r = 5 - n /\ r > 0 /\ o \in Nat /\ r \in Nat /\ n \in Nat /\ (o = 5 - m \/ o = 0)
    BY <2>1, <2>2, <2>3, <2>4, <2>5, Zenon DEF n, m, r, o
  <2>7. o < r
    BY <2>6
  <2> QED BY <2>7 DEF o, r
<1> QED BY <1>4, <1>5

\* f and g are the same for what is asked at p.
Agree(f, g, ps, p) == p \in DOMAIN Given => \A q \in Below(ps, p) : f[q] = g[q]

SameAt(f, g, ps, p) == ShownAt(f, Given, ps, p) = ShownAt(g, Given, ps, p)

\* What is shown at a place depends on what is shown at those asked and on nothing else.
LEMMA ShownAtAsked ==
    ASSUME NEW f, NEW g, NEW ps, NEW p, Agree(f, g, ps, p)
    PROVE  SameAt(f, g, ps, p)
<1>1. CASE p \notin DOMAIN Given
  <2>1. IsPrimitive(Undefined)
    BY DEF Undefined, Prim, Tree, IsPrimitive
  <2> QED BY <1>1, <2>1, Zenon DEF ShownAt, SameAt
<1>2. CASE p \in DOMAIN Given
  <2> DEFINE here == Given[p]
             ks == DOMAIN here.parts \union MissingKeys(here, ps, p)
             c(k) == f[Append(p, k)]
             d(k) == g[Append(p, k)]
             a == [k \in ks |-> c(k)]
             b == [k \in ks |-> d(k)]
  <2>1. \A k \in ks : c(k) = d(k)
    BY <1>2, Zenon DEF Agree, Below
  <2>2. a = b
    <3> HIDE DEF ks, c, d
    <3> QED BY <2>1
  <2> DEFINE v(x) == IF MyProblems(ps, p) # <<>> THEN ProblemList(MyProblems(ps, p))
                     ELSE IF IsPrimitive(here) THEN here ELSE [here EXCEPT !.parts = x]
  <2>3. ShownAt(f, Given, ps, p) = v(a) /\ ShownAt(g, Given, ps, p) = v(b)
    BY <1>2, Zenon DEF ShownAt
  <2> HIDE DEF a, b, v
  <2> QED BY <2>2, <2>3, Zenon DEF SameAt
<1> QED BY <1>1, <1>2

\* f is what is shown wherever the rest is less than n.
ShowsTo(f, ps, n) == \A p \in Ways(ps) : Rest(p) < n => f[p] = ShownAt(f, Given, ps, p)

LEMMA ShowsToExist ==
    ASSUME Exchanged, NEW ps \in Seq(Reported) PROVE \A n \in Nat : \E f : ShowsTo(f, ps, n)
<1> DEFINE S == {n \in Nat : \E f : ShowsTo(f, ps, n)}
<1>1. 0 \in S
  <2>1. \A p \in Ways(ps) : ~(Rest(p) < 0)
    BY RestIs
  <2> DEFINE z == 0
  <2> HIDE DEF z
  <2>2. ShowsTo(z, ps, 0)
    BY <2>1, Zenon DEF ShowsTo
  <2> QED BY <2>2
<1>2. ASSUME NEW n \in S PROVE n + 1 \in S
  <2>1. PICK f : ShowsTo(f, ps, n)
    BY Zenon
  <2> DEFINE e(p) == ShownAt(f, Given, ps, p)
             g == [p \in Ways(ps) |-> e(p)]
  <2>2. \A p \in Ways(ps) : g[p] = e(p)
    <3> HIDE DEF e
    <3> QED OBVIOUS
  <2> HIDE DEF g
  <2>3. ASSUME NEW p \in Ways(ps), Rest(p) < n + 1 PROVE g[p] = ShownAt(g, Given, ps, p)
    <3>1. ASSUME p \in DOMAIN Given, NEW q \in Below(ps, p) PROVE f[q] = g[q]
      <4>1. q \in Ways(ps) /\ Rest(q) < Rest(p)
        BY <3>1, BelowIs, Zenon
      <4>2. Rest(q) < n
        BY <2>3, <4>1, RestIs
      <4>3. f[q] = ShownAt(f, Given, ps, q)
        BY <2>1, <4>1, <4>2, Zenon DEF ShowsTo
      <4> QED BY <2>2, <4>1, <4>3, Zenon
    <3>2. Agree(f, g, ps, p)
      BY <3>1, Zenon DEF Agree
    <3>3. SameAt(f, g, ps, p)
      BY <3>2, ShownAtAsked, Zenon
    <3> QED BY <2>2, <3>3, Zenon DEF SameAt
  <2>4. ShowsTo(g, ps, n + 1)
    BY <2>3, Zenon DEF ShowsTo
  <2> QED BY <2>4
<1> HIDE DEF S
<1>3. S \in SUBSET Nat
  BY DEF S
<1> QED BY <1>1, <1>2, <1>3, Induct DEF S

\* Two such functions agree where both do.
LEMMA ShowsToSame ==
    ASSUME Exchanged, NEW ps \in Seq(Reported), NEW f, NEW g, NEW m \in Nat, NEW n \in Nat,
           ShowsTo(f, ps, m), ShowsTo(g, ps, n)
    PROVE  \A p \in Ways(ps) : Rest(p) < m /\ Rest(p) < n => f[p] = g[p]
<1> DEFINE P(p) == Rest(p) < m /\ Rest(p) < n => f[p] = g[p]
           S == {k \in Nat : \A p \in Ways(ps) : Rest(p) < k => P(p)}
<1>1. 0 \in S
  BY RestIs
<1>2. ASSUME NEW k \in S PROVE k + 1 \in S
  <2>1. ASSUME NEW p \in Ways(ps), Rest(p) < k + 1, Rest(p) < m, Rest(p) < n PROVE f[p] = g[p]
    <3>1. ASSUME p \in DOMAIN Given, NEW q \in Below(ps, p) PROVE f[q] = g[q]
      <4>1. q \in Ways(ps) /\ Rest(q) < Rest(p)
        BY <3>1, BelowIs, Zenon
      <4>2. Rest(q) < k /\ Rest(q) < m /\ Rest(q) < n
        BY <2>1, <4>1, RestIs
      <4> QED BY <4>1, <4>2
    <3>2. Agree(f, g, ps, p)
      BY <3>1, Zenon DEF Agree
    <3>3. SameAt(f, g, ps, p)
      BY <3>2, ShownAtAsked, Zenon
    <3> QED BY <2>1, <3>3, Zenon DEF ShowsTo, SameAt
  <2> QED BY <2>1
<1> HIDE DEF S
<1>3. S \in SUBSET Nat
  BY DEF S
<1>4. \A k \in Nat : k \in S
  BY <1>1, <1>2, <1>3, Induct
<1> QED
  <2> TAKE p \in Ways(ps)
  <2>1. Rest(p) \in Nat /\ Rest(p) + 1 \in Nat /\ Rest(p) < Rest(p) + 1
    BY RestIs
  <2> QED BY <1>4, <2>1 DEF S

\* f is what is shown everywhere.
Displays(f, ps) == \A p \in Ways(ps) : f[p] = ShownAt(f, Given, ps, p)

\* So the error's expected value is what is shown at its root.
LEMMA IntertwinglesAre ==
    ASSUME Exchanged, NEW ps \in Seq(Reported)
    PROVE  \E f : Displays(f, ps) /\ Intertwingle(report.actual, ps) = f[<<>>]
<1> DEFINE d(p) == Rest(p) + 1
           g(n) == CHOOSE f : ShowsTo(f, ps, n)
           W == Ways(ps)
           v(p) == g(d(p))[p]
           F == [p \in W |-> v(p)]
<1>1. \A n \in Nat : ShowsTo(g(n), ps, n)
  BY ShowsToExist, Zenon
<1>2. \A p : d(p) \in Nat /\ Rest(p) < d(p) /\ Rest(p) \in Nat
  BY RestIs
<1>3. ASSUME NEW p \in DOMAIN Given, NEW q \in Below(ps, p) PROVE q \in W /\ Rest(q) < d(p)
  <2>1. q \in W /\ Rest(q) < Rest(p)
    BY BelowIs, Zenon
  <2> HIDE DEF W
  <2> QED BY <1>2, <2>1
<1> HIDE DEF d, g
<1>4. \A p \in W : F[p] = g(d(p))[p]
  <2> HIDE DEF W
  <2> QED OBVIOUS
<1>5. ASSUME NEW p \in W PROVE F[p] = ShownAt(F, Given, ps, p)
  <2> DEFINE h == g(d(p))
  <2>1. ShowsTo(h, ps, d(p))
    BY <1>1, <1>2
  <2>2. ASSUME p \in DOMAIN Given, NEW q \in Below(ps, p) PROVE h[q] = F[q]
    <3> DEFINE k == g(d(q))
    <3>1. q \in W /\ Rest(q) < d(p) /\ d(q) \in Nat /\ Rest(q) < d(q) /\ d(p) \in Nat
      BY <1>2, <1>3, <2>2, Zenon
    <3>2. ShowsTo(k, ps, d(q))
      BY <1>1, <3>1
    <3> HIDE DEF h, k
    <3>3. h[q] = k[q]
      BY <2>1, <3>1, <3>2, ShowsToSame
    <3> QED BY <1>4, <3>1, <3>3, Zenon DEF k
  <2> HIDE DEF F
  <2>3. ShownAt(h, Given, ps, p) = ShownAt(F, Given, ps, p)
    <3> HIDE DEF h
    <3>1. Agree(h, F, ps, p)
      BY <2>2, Zenon DEF Agree
    <3>2. SameAt(h, F, ps, p)
      BY <3>1, ShownAtAsked, Zenon
    <3> QED BY <3>2, Zenon DEF SameAt
  <2>4. h[p] = ShownAt(h, Given, ps, p)
    <3> HIDE DEF h
    <3> QED BY <1>2, <2>1, Zenon DEF ShowsTo
  <2> QED BY <1>4, <2>3, <2>4, Zenon
<1>6. F = [p \in W |-> ShownAt(F, Given, ps, p)]
  <2>1. F = [p \in W |-> F[p]]
    OBVIOUS
  <2> HIDE DEF F
  <2> QED BY <1>5, <2>1, Zenon
<1> DEFINE G == CHOOSE f : f = [p \in W |-> ShownAt(f, Given, ps, p)]
<1> HIDE DEF F
<1>7. G = [p \in W |-> ShownAt(G, Given, ps, p)]
  <2>1. \E f : f = [p \in W |-> ShownAt(f, Given, ps, p)]
    BY <1>6, Zenon
  <2> HIDE DEF W
  <2> QED BY <2>1, Zenon
<1>8. Intertwingle(report.actual, ps) = G[<<>>]
  BY Zenon DEF Intertwingle, Given, Ways
<1> DEFINE e(p) == ShownAt(G, Given, ps, p)
<1>9. G = [p \in W |-> e(p)]
  BY <1>7, Zenon
<1> HIDE DEF e, G, W
<1>10. \A p \in W : G[p] = e(p)
  BY <1>9
<1>11. Displays(G, ps)
  BY <1>10, Zenon DEF Displays, e, W
<1> QED BY <1>8, <1>11, Zenon

\* The places of the problems at p, and what is said there.
About(ps, p) == {i \in DOMAIN ps : ps[i].path = p}

SaidAt(ps, p) ==
    /\ MyProblems(ps, p) = <<>> <=> About(ps, p) = {}
    /\ Len(MyProblems(ps, p)) = Cardinality(About(ps, p))
    /\ \A i \in About(ps, p) : ps[i].message \in Range(MyProblems(ps, p))

LEMMA MineAre == ASSUME NEW ps \in Seq(Reported), NEW p PROVE SaidAt(ps, p)
<1> DEFINE S == About(ps, p)
           mine == Pick(ps, S)
           m == MyProblems(ps, p)
           c == Cardinality(S)
<1>1. S \in SUBSET (1..Len(ps)) /\ Len(ps) \in Nat
  BY DEF About
<1>2. /\ mine \in Seq(Reported)
      /\ \A k \in 1..Len(mine) : \E i \in S : mine[k] = ps[i]
      /\ \A i \in S : \E k \in 1..Len(mine) : mine[k] = ps[i]
  BY <1>1, PickType, Zenon
<1>3. c \in Nat
  <2>1. IsFiniteSet(1..Len(ps))
    BY <1>1, FS_Interval
  <2>2. IsFiniteSet(S)
    BY <1>1, <2>1, FS_Subset
  <2> QED BY <2>2, FS_CardinalityType
<1>4. DOMAIN mine = 1..c
  BY Zenon DEF Pick
<1>5. m = [k \in DOMAIN mine |-> mine[k].message]
  BY Zenon DEF MyProblems, About
<1> HIDE DEF S, mine, m, c
<1>6. Len(mine) = c
  BY <1>2, <1>3, <1>4
<1>7. DOMAIN m = 1..c /\ \A k \in 1..c : m[k] = mine[k].message
  <2> DEFINE v(k) == mine[k].message
  <2>1. m = [k \in 1..c |-> v(k)]
    BY <1>4, <1>5, Zenon
  <2> HIDE DEF v
  <2>2. DOMAIN m = 1..c /\ \A k \in 1..c : m[k] = v(k)
    BY <2>1
  <2> QED BY <2>2 DEF v
<1>8. Len(m) = c
  <2>1. \A k \in 1..c : m[k] \in {m[j] : j \in 1..c}
    OBVIOUS
  <2>2. m = [k \in 1..c |-> m[k]]
    <3>1. m = [k \in DOMAIN m |-> m[k]]
      <4> DEFINE v(k) == mine[k].message
      <4>1. m = [k \in 1..c |-> v(k)]
        BY <1>4, <1>5, Zenon
      <4> HIDE DEF v
      <4> QED BY <4>1
    <3> QED BY <1>7, <3>1, Zenon
  <2>3. m \in [1..c -> {m[j] : j \in 1..c}]
    BY <2>1, <2>2
  <2> QED BY <1>3, <2>3, FunctionIsSeq, Zenon
<1>9. ASSUME NEW i \in S PROVE ps[i].message \in Range(m)
  <2>1. PICK k \in 1..c : mine[k] = ps[i]
    BY <1>2, <1>6, Zenon
  <2>2. m[k] = ps[i].message /\ k \in DOMAIN m
    BY <1>7, <2>1, Zenon
  <2> QED BY <2>2, Zenon DEF Range
<1>10. m = <<>> => S = {}
  <2> SUFFICES ASSUME m = <<>>, NEW i \in S PROVE FALSE
    BY Zenon
  <2>1. c = 0
    BY <1>8
  <2>2. \E k \in 1..c : TRUE
    BY <1>2, <1>6, Zenon
  <2> QED BY <2>1, <2>2
<1>11. S = {} => m = <<>>
  <2> SUFFICES ASSUME S = {} PROVE m = <<>>
    OBVIOUS
  <2>1. c = 0
    <3>1. Cardinality({}) = 0
      BY FS_EmptySet
    <3> QED BY <3>1, Zenon DEF c
  <2>2. m = [k \in {} |-> mine[k].message]
    <3>1. 1..c = {}
      BY <2>1
    <3> QED BY <1>4, <1>5, <3>1, Zenon
  <2> QED BY <2>2
<1> QED BY <1>8, <1>9, <1>10, <1>11, Zenon DEF SaidAt, S, m, c

\* Problems are shown at p; or p is a place in the exchange, and a primitive is shown as
\* it is, anything else with what is shown below.
ProblemsAt(f, p) == f[p].kind = "problems" /\ DOMAIN f[p].parts = {}

ValueAt(f, ps, p) ==
    /\ p \in DOMAIN Given /\ f[p].kind = Given[p].kind /\ f[p].said = Given[p].said
    /\ IsPrimitive(Given[p]) => DOMAIN f[p].parts = {}
    /\ ~IsPrimitive(Given[p]) =>
          /\ DOMAIN f[p].parts = DOMAIN Given[p].parts \union MissingKeys(Given[p], ps, p)
          /\ \A k \in DOMAIN f[p].parts : f[p].parts[k] = f[Append(p, k)]

ShownCases(f, ps, p) ==
    /\ About(ps, p) # {} => ProblemsAt(f, p) /\ f[p].said = MyProblems(ps, p)
    /\ About(ps, p) = {} => ValueAt(f, ps, p)

LEMMA CasesAre ==
    ASSUME Exchanged, NEW ps \in Seq(Reported), NEW f, Displays(f, ps), NEW p \in Ways(ps)
    PROVE  ShownCases(f, ps, p)
<1> DEFINE m == MyProblems(ps, p)
           t == Given[p]
           ks == DOMAIN t.parts \union MissingKeys(t, ps, p)
           v(k) == f[Append(p, k)]
           a == [k \in ks |-> v(k)]
<1>1. f[p] = ShownAt(f, Given, ps, p)
  BY Zenon DEF Displays
<1>2. m = <<>> <=> About(ps, p) = {}
  BY MineAre, Zenon DEF SaidAt
<1>3. CASE About(ps, p) # {}
  <2>1. f[p] = ProblemList(m)
    BY <1>1, <1>2, <1>3, Zenon DEF ShownAt
  <2> HIDE DEF m
  <2>2. ProblemList(m).kind = "problems" /\ DOMAIN ProblemList(m).parts = {} /\ ProblemList(m).said = m
    BY DEF ProblemList, Tree, None
  <2> QED BY <1>3, <2>1, <2>2, Zenon DEF ShownCases, ProblemsAt, m
<1>4. CASE About(ps, p) = {}
  <2>1. p \in DOMAIN Given
    <3>1. ~(\E i \in DOMAIN ps : ps[i].path = p)
      BY <1>4, Zenon DEF About
    <3>2. p \notin {ps[i].path : i \in DOMAIN ps}
      BY <3>1
    <3> QED BY <3>2, Zenon DEF Ways
  <2>2. f[p] = IF IsPrimitive(t) THEN t ELSE [t EXCEPT !.parts = a]
    BY <1>1, <1>2, <1>4, <2>1, Zenon DEF ShownAt
  <2>3. t = Tree(t.kind, t.said, t.parts) /\ (IsPrimitive(t) => DOMAIN t.parts = {})
    BY <2>1, ShapeIs, Zenon DEF Shape
  <2>4. CASE IsPrimitive(t)
    <3>1. f[p] = t /\ DOMAIN t.parts = {}
      BY <2>2, <2>3, <2>4, Zenon
    <3> QED BY <1>4, <2>1, <2>4, <3>1, Zenon DEF ShownCases, ValueAt
  <2>5. CASE ~IsPrimitive(t)
    <3> DEFINE u == [t EXCEPT !.parts = a]
    <3>1. f[p] = u
      BY <2>2, <2>5, Zenon
    <3>2. u.kind = t.kind /\ u.said = t.said /\ u.parts = a
      <4> HIDE DEF t, a
      <4> DEFINE x == t.kind
                 y == t.said
                 z == t.parts
      <4>1. t = Tree(x, y, z)
        BY <2>3
      <4> HIDE DEF x, y, z
      <4> QED BY <4>1 DEF Tree
    <3>3. DOMAIN a = ks /\ \A k \in ks : a[k] = v(k)
      <4> HIDE DEF ks, v
      <4> QED OBVIOUS
    <3> HIDE DEF u, a
    <3>4. /\ f[p].kind = t.kind /\ f[p].said = t.said
          /\ DOMAIN f[p].parts = ks /\ \A k \in DOMAIN f[p].parts : f[p].parts[k] = f[Append(p, k)]
      BY <3>1, <3>2, <3>3, Zenon
    <3> QED BY <1>4, <2>1, <2>5, <3>4, Zenon DEF ShownCases, ValueAt
  <2> QED BY <2>4, <2>5
<1> QED BY <1>3, <1>4

\* What lies in the expected value is what is shown there.
LEMMA LiesAsShown ==
    ASSUME Exchanged, NEW ps \in Seq(Reported), NEW f, Displays(f, ps)
    PROVE  \A p \in DOMAIN Layout(f[<<>>]) : p \in Ways(ps) /\ Layout(f[<<>>])[p] = f[p]
<1> DEFINE L == Layout(f[<<>>])
           D == DOMAIN L
           P(p) == p \in Ways(ps) /\ L[p] = f[p]
           S == {n \in Nat : \A p \in D : Len(p) < n => P(p)}
<1>1. Spread(L, 5, f[<<>>])
  BY LaidIs, Zenon
<1>2. PICK K : D \subseteq Seq(K)
  BY <1>1, Zenon DEF Spread
<1>3. \A p \in D : Len(p) \in Nat /\ Len(p) <= 5
  <2>1. \A p \in D : p \in Seq(K)
    BY <1>2, Zenon
  <2>2. \A p \in D : Len(p) <= 5
    BY <1>1, Zenon DEF Spread
  <2> HIDE DEF D
  <2> QED BY <2>1, <2>2
<1>4. \A p \in D : \A k : Len(Append(p, k)) = Len(p) + 1
  <2>1. \A p \in D : p \in Seq(K)
    BY <1>2, Zenon
  <2> TAKE p \in D
  <2> TAKE k
  <2>2. p \in Seq(K \union {k}) /\ k \in K \union {k}
    BY <2>1
  <2> QED BY <2>2, AppendProperties, Zenon
<1>5. 0 \in S
  <2> HIDE DEF D, P
  <2> QED BY <1>3
<1>6. ASSUME NEW n \in S PROVE n + 1 \in S
  <2>1. ASSUME NEW p \in D, Len(p) < n + 1 PROVE P(p)
    <3>1. CASE p = <<>>
      <4>1. p \in DOMAIN Given /\ L[p] = f[p]
        BY <1>1, <3>1, LaidIs, Zenon DEF Spread, Given
      <4> QED BY <4>1, Zenon DEF Ways
    <3>2. CASE p # <<>>
      <4>1. PICK q \in D : \E k \in DOMAIN L[q].parts : p = Append(q, k)
        BY <1>1, <3>2, Zenon DEF Spread
      <4>2. PICK k \in DOMAIN L[q].parts : p = Append(q, k)
        BY <4>1, Zenon
      <4>3. Len(p) = Len(q) + 1
        BY <1>4, <4>2, Zenon
      <4>4. Len(q) \in Nat /\ Len(q) < n /\ Len(q) < 5
        <5> HIDE DEF D, P
        <5>1. n \in Nat
          OBVIOUS
        <5> QED BY <1>3, <2>1, <4>3, <5>1
      <4>5. q \in Ways(ps) /\ L[q] = f[q]
        <5>1. P(q)
          <6> HIDE DEF P, D
          <6> QED BY <4>4
        <5> QED BY <5>1
      <4>6. L[p] = f[q].parts[k] /\ k \in DOMAIN f[q].parts
        BY <1>1, <4>2, <4>4, <4>5, ZenonT(40) DEF Spread
      <4>7. ShownCases(f, ps, q)
        BY <4>5, CasesAre, Zenon
      <4>8. DOMAIN f[q].parts # {}
        BY <4>6, Zenon
      <4>9. ValueAt(f, ps, q)
        BY <4>7, <4>8, Zenon DEF ShownCases, ProblemsAt
      <4>10. ~IsPrimitive(Given[q]) /\ q \in DOMAIN Given
        BY <4>8, <4>9, Zenon DEF ValueAt
      <4>11. /\ k \in DOMAIN Given[q].parts \union MissingKeys(Given[q], ps, q)
             /\ f[q].parts[k] = f[p]
        BY <4>2, <4>6, <4>9, <4>10, Zenon DEF ValueAt
      <4>12. p \in Below(ps, q)
        BY <4>2, <4>11, Zenon DEF Below
      <4> QED BY <4>6, <4>10, <4>11, <4>12, BelowIs, Zenon
    <3> QED BY <3>1, <3>2
  <2>2. n + 1 \in Nat
    <3> HIDE DEF P, D
    <3> QED OBVIOUS
  <2> HIDE DEF P, D
  <2> QED BY <2>1, <2>2
<1>7. \A n \in Nat : n \in S
  <2>1. S \in SUBSET Nat
    <3> HIDE DEF P, D
    <3> QED OBVIOUS
  <2> HIDE DEF S
  <2> QED BY <1>5, <1>6, <2>1, Induct, Zenon
<1>8. \A p \in D : P(p)
  <2> TAKE p \in D
  <2>1. Len(p) + 1 \in Nat /\ Len(p) < Len(p) + 1
    BY <1>3
  <2> HIDE DEF P, D
  <2> QED BY <1>7, <2>1
<1> QED BY <1>8, Zenon

BlamedIn(ps) == {x.path : x \in Range(ps)}

\* Nothing that p is in has problems, p itself included.
Unblamed(ps, p) == \A q \in BlamedIn(ps) : ~IsPrefix(q, p)

\* Where problems are.
BlamedAre(ps) ==
    /\ BlamedIn(ps) \subseteq Seq(Key) /\ BlamedIn(ps) \subseteq Ways(ps)
    /\ \A p : About(ps, p) = {} <=> p \notin BlamedIn(ps)

LEMMA BlamedAreKeys == ASSUME NEW ps \in Seq(Reported) PROVE BlamedAre(ps)
<1>1. \A x \in Range(ps) : \E i \in DOMAIN ps : x = ps[i]
  BY Zenon DEF Range
<1>2. \A i \in DOMAIN ps : ps[i] \in Range(ps)
  BY Zenon DEF Range
<1>3. \A i \in DOMAIN ps : ps[i].path \in Seq(Key)
  <2> TAKE i \in DOMAIN ps
  <2>1. ps[i] \in Reported
    OBVIOUS
  <2> QED BY <2>1 DEF Reported
<1>4. BlamedIn(ps) = {ps[i].path : i \in DOMAIN ps}
  <2>1. ASSUME NEW p \in BlamedIn(ps) PROVE p \in {ps[i].path : i \in DOMAIN ps}
    BY <1>1, Zenon DEF BlamedIn
  <2>2. ASSUME NEW i \in DOMAIN ps PROVE ps[i].path \in BlamedIn(ps)
    BY <1>2, Zenon DEF BlamedIn
  <2> QED BY <2>1, <2>2
<1>5. BlamedIn(ps) \subseteq Seq(Key)
  BY <1>3, <1>4
<1>6. BlamedIn(ps) \subseteq Ways(ps)
  BY <1>4, Zenon DEF Ways
<1>7. \A p : About(ps, p) = {} <=> p \notin BlamedIn(ps)
  BY <1>4 DEF About
<1> QED BY <1>5, <1>6, <1>7, Zenon DEF BlamedAre

\* Prefixes of what is one key further.
PrefixTells(K, q, p, k) ==
    /\ IsPrefix(p, p)
    /\ IsPrefix(q, p) => IsStrictPrefix(q, Append(p, k))
    /\ IsStrictPrefix(q, Append(p, k)) => IsPrefix(q, p)

LEMMA PrefixesTell ==
    ASSUME NEW K, NEW q \in Seq(K), NEW p \in Seq(K), NEW k \in K
    PROVE  PrefixTells(K, q, p, k)
<1> DEFINE t == Append(p, k)
           n == Len(p)
           m == Len(q)
<1>1. t \in Seq(K) /\ Len(t) = n + 1 /\ (\A i \in 1..n : t[i] = p[i]) /\ n \in Nat /\ m \in Nat
  BY AppendProperties
<1>2. IsPrefix(p, p) <=> n <= n /\ \A i \in 1..n : p[i] = p[i]
  BY PrefixIs
<1>3. IsPrefix(q, p) <=> m <= n /\ \A i \in 1..m : q[i] = p[i]
  BY PrefixIs
<1> HIDE DEF t
<1>4. IsPrefix(q, t) <=> m <= Len(t) /\ \A i \in 1..m : q[i] = t[i]
  BY <1>1, PrefixIs
<1> HIDE DEF n, m
<1>5. IsPrefix(p, p)
  BY <1>1, <1>2
<1>6. ASSUME IsPrefix(q, p) PROVE IsPrefix(q, t) /\ q # t
  <2>1. m <= n /\ \A i \in 1..m : q[i] = p[i]
    BY <1>3, <1>6
  <2>2. \A i \in 1..m : i \in 1..n
    BY <1>1, <2>1
  <2>3. m <= Len(t) /\ \A i \in 1..m : q[i] = t[i]
    BY <1>1, <2>1, <2>2
  <2>4. m # Len(t)
    BY <1>1, <2>1
  <2> QED BY <1>4, <2>3, <2>4, Zenon DEF m
<1>7. ASSUME IsPrefix(q, t), q # t PROVE IsPrefix(q, p)
  <2>1. m <= n + 1 /\ \A i \in 1..m : q[i] = t[i]
    BY <1>1, <1>4, <1>7
  <2>2. CASE m = n + 1
    <3>1. Len(q) = Len(t) /\ \A i \in 1..Len(q) : q[i] = t[i]
      BY <1>1, <2>1, <2>2, Zenon DEF m
    <3> QED BY <1>1, <1>7, <3>1, SeqEqual, Zenon
  <2>3. CASE m # n + 1
    <3>1. m <= n /\ \A i \in 1..m : i \in 1..n
      BY <1>1, <2>1, <2>3
    <3>2. \A i \in 1..m : q[i] = p[i]
      BY <1>1, <2>1, <3>1, Zenon
    <3> QED BY <1>3, <3>1, <3>2, Zenon
  <2> QED BY <2>2, <2>3
<1> QED BY <1>5, <1>6, <1>7, Zenon DEF PrefixTells, IsStrictPrefix, t

\* What is in nothing that has problems is reached.
LEMMA Reached ==
    ASSUME Exchanged, NEW ps \in Seq(Reported), NEW f, Displays(f, ps)
    PROVE  \A p \in DOMAIN Given : Unblamed(ps, p) => p \in DOMAIN Layout(f[<<>>])
<1> DEFINE L == Layout(f[<<>>])
           D == DOMAIN Given
           P(p) == Unblamed(ps, p) => p \in DOMAIN L
           S == {n \in Nat : \A p \in D : Len(p) < n => P(p)}
<1>1. Spread(L, 5, f[<<>>]) /\ Spread(Given, 5, report.actual)
  BY LaidIs, Zenon DEF Given
<1>2. PICK K : Key \subseteq K /\ D \subseteq Seq(K)
  BY WaysType, Zenon
<1>3. \A p \in D : Len(p) \in 0..4 /\ Len(p) \in Nat /\ Len(p) < 5
  <2> TAKE p \in D
  <2> DEFINE n == Len(p)
  <2>1. n \in 0..4
    BY ShapeIs, Zenon DEF Shape
  <2> HIDE DEF n
  <2>2. n \in 0..4 /\ n \in Nat /\ n < 5
    BY <2>1
  <2> QED BY <2>2 DEF n
<1>4. ASSUME NEW p \in D, NEW q \in D, NEW k \in DOMAIN Given[q].parts, p = Append(q, k), Unblamed(ps, p)
      PROVE  Len(p) = Len(q) + 1 /\ Unblamed(ps, q) /\ q \notin BlamedIn(ps)
  <2>1. q \in Seq(K \union {k}) /\ k \in K \union {k}
    BY <1>2
  <2>2. Len(p) = Len(q) + 1
    BY <1>4, <2>1, AppendProperties, Zenon
  <2>3. ASSUME NEW r \in BlamedIn(ps) PROVE ~IsPrefix(r, q) /\ r # q
    <3>1. r \in Seq(K \union {k})
      <4>1. r \in Seq(Key)
        BY BlamedAreKeys, Zenon DEF BlamedAre
      <4> QED BY <1>2, <4>1
    <3>2. PrefixTells(K \union {k}, r, q, k)
      BY <2>1, <3>1, PrefixesTell, Zenon
    <3>3. ~IsPrefix(r, p)
      BY <1>4, Zenon DEF Unblamed
    <3> QED BY <1>4, <3>2, <3>3, Zenon DEF PrefixTells, IsStrictPrefix
  <2> QED BY <2>2, <2>3, Zenon DEF Unblamed
<1>5. 0 \in S
  <2> HIDE DEF D, P
  <2> QED BY <1>3
<1>6. ASSUME NEW n \in S PROVE n + 1 \in S
  <2>1. ASSUME NEW p \in D, Len(p) < n + 1, Unblamed(ps, p) PROVE p \in DOMAIN L
    <3>1. CASE p = <<>>
      BY <1>1, <3>1, Zenon DEF Spread
    <3>2. CASE p # <<>>
      <4>1. PICK q \in D : \E k \in DOMAIN Given[q].parts : p = Append(q, k)
        BY <1>1, <3>2, Zenon DEF Spread
      <4>2. PICK k \in DOMAIN Given[q].parts : p = Append(q, k)
        BY <4>1, Zenon
      <4>3. Len(p) = Len(q) + 1 /\ Unblamed(ps, q) /\ q \notin BlamedIn(ps)
        BY <1>4, <2>1, <4>2, Zenon
      <4>4. Len(q) < n
        <5> HIDE DEF D, P
        <5>1. n \in Nat
          OBVIOUS
        <5> QED BY <1>3, <2>1, <4>3, <5>1
      <4>5. q \in DOMAIN L
        <5>1. P(q)
          <6> HIDE DEF P, D
          <6> QED BY <4>4
        <5> QED BY <4>3, <5>1
      <4>6. q \in Ways(ps) /\ L[q] = f[q]
        BY <4>5, LiesAsShown, Zenon
      <4>7. ShownCases(f, ps, q)
        BY <4>6, CasesAre, Zenon
      <4>8. About(ps, q) = {}
        BY <4>3, BlamedAreKeys, Zenon DEF BlamedAre
      <4>9. ValueAt(f, ps, q)
        BY <4>7, <4>8, Zenon DEF ShownCases
      <4>10. ~IsPrimitive(Given[q])
        <5>1. IsPrimitive(Given[q]) => DOMAIN Given[q].parts = {}
          BY ShapeIs, Zenon DEF Shape
        <5> QED BY <4>2, <5>1, Zenon
      <4>11. DOMAIN f[q].parts = DOMAIN Given[q].parts \union MissingKeys(Given[q], ps, q)
        BY <4>9, <4>10, Zenon DEF ValueAt
      <4>12. k \in DOMAIN L[q].parts
        BY <4>2, <4>6, <4>11, Zenon
      <4>13. Len(q) < 5
        BY <1>3
      <4> QED BY <1>1, <4>2, <4>5, <4>12, <4>13, Zenon DEF Spread
    <3> QED BY <3>1, <3>2
  <2>2. n + 1 \in Nat
    <3> HIDE DEF P, D
    <3> QED OBVIOUS
  <2>3. \A p \in D : Len(p) < n + 1 => P(p)
    BY <2>1
  <2> HIDE DEF P, D
  <2> QED BY <2>2, <2>3
<1>7. \A n \in Nat : n \in S
  <2>1. S \in SUBSET Nat
    <3> HIDE DEF P, D
    <3> QED OBVIOUS
  <2> HIDE DEF S
  <2> QED BY <1>5, <1>6, <2>1, Induct, Zenon
<1>8. \A p \in D : P(p)
  <2> TAKE p \in D
  <2>1. Len(p) + 1 \in Nat /\ Len(p) < Len(p) + 1
    BY <1>3
  <2> HIDE DEF P, D
  <2> QED BY <1>7, <2>1
<1> QED BY <1>8, Zenon

\* The error's expected value is the exchange intertwined with its problems.
Intertwined ==
    /\ report.problems \in Seq(Reported) /\ Exchanged
    /\ report.expected = Intertwingle(report.actual, report.problems)

\* What no problem is about is shown as it came, and nothing else is shown.
LEMMA OthersAreShown == Intertwined => OthersShown(Given, Layout(report.expected))
<1> SUFFICES ASSUME Intertwined PROVE OthersShown(Given, Layout(report.expected))
  OBVIOUS
<1> DEFINE ps == report.problems
<1>1. ps \in Seq(Reported) /\ Exchanged
  BY Zenon DEF Intertwined
<1>2. PICK f : Displays(f, ps) /\ Intertwingle(report.actual, ps) = f[<<>>]
  BY <1>1, IntertwinglesAre, Zenon
<1>3. report.expected = f[<<>>]
  BY <1>2, Zenon DEF Intertwined
<1> DEFINE L == Layout(f[<<>>])
<1>4. Blamed = BlamedIn(ps)
  BY Zenon DEF Blamed, BlamedIn
<1> HIDE DEF ps
<1>5. ASSUME NEW p \in DOMAIN Given \union DOMAIN L, \A q \in Blamed : ~IsPrefix(q, p)
      PROVE  /\ p \in DOMAIN Given /\ p \in DOMAIN L
             /\ Given[p].kind = L[p].kind /\ Given[p].said = L[p].said
  <2>1. Unblamed(ps, p)
    BY <1>4, <1>5, Zenon DEF Unblamed
  <2>2. p \in DOMAIN L
    BY <1>1, <1>2, <1>5, <2>1, Reached, Zenon
  <2>3. p \in Ways(ps) /\ L[p] = f[p]
    BY <1>1, <1>2, <2>2, LiesAsShown, Zenon
  <2>4. p \notin BlamedIn(ps)
    <3> SUFFICES ASSUME p \in BlamedIn(ps) PROVE FALSE
      OBVIOUS
    <3>1. p \in Seq(Key)
      BY <1>1, BlamedAreKeys, Zenon DEF BlamedAre
    <3>2. IsPrefix(p, p) <=> Len(p) <= Len(p) /\ \A i \in 1..Len(p) : p[i] = p[i]
      BY <3>1, PrefixIs
    <3>3. Len(p) <= Len(p)
      BY <3>1
    <3>4. IsPrefix(p, p)
      BY <3>2, <3>3, Zenon
    <3> QED BY <2>1, <3>4, Zenon DEF Unblamed
  <2>5. About(ps, p) = {}
    BY <1>1, <2>4, BlamedAreKeys, Zenon DEF BlamedAre
  <2>6. ShownCases(f, ps, p)
    BY <1>1, <1>2, <2>3, CasesAre, Zenon
  <2>7. ValueAt(f, ps, p)
    BY <2>5, <2>6, Zenon DEF ShownCases
  <2> QED BY <2>2, <2>3, <2>7, Zenon DEF ValueAt
<1> QED BY <1>3, <1>5, Zenon DEF OthersShown

\* Each problem is shown at its path.
LEMMA ProblemsAreShown ==
    Intertwined => \A p \in Range(report.problems) : ShownInPlace(p, Given, Layout(report.expected))
<1> SUFFICES ASSUME Intertwined, NEW x \in Range(report.problems)
             PROVE  ShownInPlace(x, Given, Layout(report.expected))
  OBVIOUS
<1> DEFINE ps == report.problems
           p == x.path
<1>1. ps \in Seq(Reported) /\ Exchanged
  BY Zenon DEF Intertwined
<1>2. PICK f : Displays(f, ps) /\ Intertwingle(report.actual, ps) = f[<<>>]
  BY <1>1, IntertwinglesAre, Zenon
<1>3. report.expected = f[<<>>]
  BY <1>2, Zenon DEF Intertwined
<1> DEFINE L == Layout(f[<<>>])
<1>4. Blamed = BlamedIn(ps)
  BY Zenon DEF Blamed, BlamedIn
<1>5. p \in BlamedIn(ps)
  BY Zenon DEF BlamedIn
<1>6. PICK i \in DOMAIN ps : x = ps[i]
  BY Zenon DEF Range
<1> HIDE DEF ps
<1>7. p \in Seq(Key) /\ p \in Ways(ps) /\ About(ps, p) # {}
  BY <1>1, <1>5, BlamedAreKeys, Zenon DEF BlamedAre
<1>8. Spread(L, 5, f[<<>>]) /\ Spread(Given, 5, report.actual)
  BY LaidIs, Zenon DEF Given
<1>9. PICK K : Key \subseteq K /\ DOMAIN Given \subseteq Seq(K)
  BY WaysType, Zenon
<1> DEFINE q == Front(p)
           k == Last(p)
<1> HIDE DEF p
<1>10. ASSUME p # <<>>, q \in DOMAIN Given, ~IsPrimitive(Given[q]), \A r \in Blamed : ~IsStrictPrefix(r, p)
       PROVE  p \in DOMAIN L
  <2>1. p \in Seq(K)
    BY <1>7, <1>9
  <2>2. PICK s \in Seq(K) : \E e \in K : p = Append(s, e)
    BY <1>10, <2>1, SequenceEmptyOrAppend, Zenon
  <2>3. PICK e \in K : p = Append(s, e)
    BY <2>2, Zenon
  <2>4. Longer(K, s, e)
    BY LongerIs, Zenon
  <2>5. q = s /\ k = e /\ p = Append(q, k) /\ Len(p) = Len(q) + 1 /\ k \in K
    BY <2>3, <2>4, Zenon DEF Longer
  <2>6. q \in Seq(K)
    BY <2>5, Zenon
  <2> HIDE DEF q, k
  <2>7. ASSUME NEW r \in BlamedIn(ps) PROVE ~IsPrefix(r, q)
    <3>1. r \in Seq(K)
      <4>1. r \in Seq(Key)
        BY <1>1, BlamedAreKeys, Zenon DEF BlamedAre
      <4> QED BY <1>9, <4>1
    <3>2. PrefixTells(K, r, q, k)
      BY <2>5, <2>6, <3>1, PrefixesTell, Zenon
    <3> QED BY <1>4, <1>10, <2>5, <3>2, Zenon DEF PrefixTells
  <2>8. IsPrefix(q, p) /\ IsPrefix(q, q)
    <3>1. PrefixTells(K, q, q, k)
      BY <2>5, <2>6, PrefixesTell, Zenon
    <3> QED BY <2>5, <3>1, Zenon DEF PrefixTells, IsStrictPrefix
  <2>9. q \notin BlamedIn(ps)
    BY <2>7, <2>8, Zenon
  <2>10. q \in DOMAIN L
    BY <1>1, <1>2, <1>10, <2>7, Reached, Zenon DEF Unblamed
  <2>11. q \in Ways(ps) /\ L[q] = f[q]
    BY <1>1, <1>2, <2>10, LiesAsShown, Zenon
  <2>12. ShownCases(f, ps, q) /\ About(ps, q) = {}
    BY <1>1, <1>2, <2>9, <2>11, CasesAre, BlamedAreKeys, Zenon DEF BlamedAre
  <2>13. DOMAIN f[q].parts = DOMAIN Given[q].parts \union MissingKeys(Given[q], ps, q)
    BY <1>10, <2>12, Zenon DEF ShownCases, ValueAt
  <2>14. k \in DOMAIN Given[q].parts \/ k \in MissingKeys(Given[q], ps, q)
    <3> SUFFICES ASSUME k \notin DOMAIN Given[q].parts PROVE k \in MissingKeys(Given[q], ps, q)
      OBVIOUS
    <3>1. /\ Len(x.path) = Len(q) + 1 /\ IsPrefix(q, x.path) /\ Last(x.path) \notin DOMAIN Given[q].parts
          /\ k = Last(x.path)
      BY <2>5, <2>8, Zenon DEF p, k
    <3>2. x \in Range(ps)
      BY Zenon DEF ps
    <3> QED BY <3>1, <3>2, Zenon DEF MissingKeys
  <2>15. k \in DOMAIN L[q].parts
    BY <2>11, <2>13, <2>14, Zenon
  <2>16. Len(q) < 5
    <3> DEFINE n == Len(q)
    <3>1. n \in 0..4
      BY <1>1, <1>10, ShapeIs, Zenon DEF Shape
    <3> HIDE DEF n
    <3>2. n < 5
      BY <3>1
    <3> QED BY <3>2 DEF n
  <2> QED BY <1>8, <2>5, <2>10, <2>15, <2>16, Zenon DEF Spread
<1>11. p = <<>> => p \in DOMAIN L
  BY <1>8, Zenon DEF Spread
<1>12. p \in DOMAIN L => /\ L[p].kind = "problems" /\ x.message \in Range(L[p].said)
                         /\ Len(L[p].said) = Cardinality({j \in DOMAIN ps : ps[j].path = p})
  <2> SUFFICES ASSUME p \in DOMAIN L
               PROVE  /\ L[p].kind = "problems" /\ x.message \in Range(L[p].said)
                      /\ Len(L[p].said) = Cardinality({j \in DOMAIN ps : ps[j].path = p})
    OBVIOUS
  <2>1. L[p] = f[p]
    BY <1>1, <1>2, LiesAsShown, Zenon
  <2>2. ShownCases(f, ps, p)
    BY <1>1, <1>2, <1>7, CasesAre, Zenon
  <2>3. f[p].kind = "problems" /\ f[p].said = MyProblems(ps, p)
    BY <1>7, <2>2, Zenon DEF ShownCases, ProblemsAt
  <2>4. SaidAt(ps, p)
    BY <1>1, MineAre, Zenon
  <2>5. i \in About(ps, p)
    BY <1>6, Zenon DEF About, p
  <2>6. x.message \in Range(MyProblems(ps, p))
    BY <1>6, <2>4, <2>5, Zenon DEF SaidAt
  <2>7. Len(MyProblems(ps, p)) = Cardinality({j \in DOMAIN ps : ps[j].path = p})
    BY <2>4, Zenon DEF SaidAt, About
  <2> QED BY <2>1, <2>3, <2>6, <2>7, Zenon
<1>13. \/ \E r \in Blamed : IsStrictPrefix(r, p)
       \/ q \in DOMAIN Given => IsPrimitive(Given[q])
       \/ p \in DOMAIN L
  BY <1>10, <1>11, Zenon
<1>14. \/ \E r \in Blamed : IsStrictPrefix(r, p)
       \/ q \in DOMAIN Given => IsPrimitive(Given[q])
       \/ /\ p \in DOMAIN L /\ L[p].kind = "problems" /\ x.message \in Range(L[p].said)
          /\ Len(L[p].said) = Cardinality({j \in DOMAIN ps : ps[j].path = p})
  BY <1>12, <1>13, Zenon
<1> QED BY <1>3, <1>14, Zenon DEF ShownInPlace, ps, p

LEMMA ReportTellsIt == ReportInv => ReportTellsAll
<1> SUFFICES ASSUME ReportInv PROVE ReportTellsAll
  OBVIOUS
<1> DEFINE shown == Layout(report.expected)
<1>1. AlternativesAreAsked
  BY Zenon DEF ReportInv
<1>2. report.kind = "thrown" => Intertwined
  BY Zenon DEF ReportInv, Intertwined
<1>3. report.kind = "thrown" => OthersShown(Given, shown) /\ \A p \in Range(report.problems) : ShownInPlace(p, Given, shown)
  BY <1>2, OthersAreShown, ProblemsAreShown, Zenon
<1> QED BY <1>1, <1>3, Zenon DEF ReportTellsAll, Given

-----------------------------------------------------------------------------
\* What a client reports holds its invariant whatever part of a message a program works on.
LEMMA ReportInductive == MessagesSpec => []ReportInv
<1>1. MessagesInit => ReportInv
  <2>1. ASSUME ProblemsInit PROVE ReportInv
    <3>1. lens \in Lens /\ fails \subseteq Check /\ routed \in BOOLEAN /\ report = NoReport
      BY <2>1, Zenon DEF ProblemsInit
    <3> QED BY <3>1, NothingReported, Zenon
  <2>2. ASSUME Unread PROVE ReportInv
    <3>1. lens \in Lens
      BY <2>2, MessagesAssumption, Zenon DEF Unread
    <3>2. fails \subseteq Check /\ routed \in BOOLEAN /\ report = NoReport
      BY <2>2, Zenon DEF Unread
    <3> QED BY <3>1, <3>2, NothingReported, Zenon
  <2> QED BY <2>1, <2>2, Zenon DEF MessagesInit
<1>2. [MessagesNext]_messageVars => [ProblemsNext]_problemVars
  BY Zenon DEF MessagesNext, OnPath, OnHeaders, OnQuery, OnBody, OnReport, messageVars, problemVars
<1> QED BY <1>1, <1>2, ReportStep, PTL DEF MessagesSpec

\* Whatever the lenses are nested in and whatever checks the response fails: a client
\* returns what the first reader gives that can read it, or throws one problem of each
\* reader, in the order they are asked, below "response" and under the name of the
\* route (lenses/UnionLens.ts, ResultLens.ts, client.ts).
THEOREM AlternativesAlwaysAsked == MessagesSpec => []AlternativesAreAsked
BY ReportTypes, ReportInductive, PTL

\* And the error's expected value shows each problem where it is, unless that is inside of
\* a value that is shown as a whole, and everything else as in its actual value
\* (result/src/README.md:67-68).
THEOREM ReportsTellAll == MessagesSpec => []ReportTellsAll
BY ReportTellsIt, ReportInductive, PTL

\* Whatever the program does to whichever part of a message, every part has its type.
THEOREM MessageTypeCorrect == MessagesSpec => []MessageTypeOK
<1>1. ReportInv => ProblemsTypeOK
  BY ReportTypes, Zenon
<1>2. HeadersTypeOK /\ QueryTypeOK /\ BodyTypeOK /\ ProblemsTypeOK => MessageTypeOK
  BY Zenon DEF MessageTypeOK
<1> QED BY <1>1, <1>2, HeadersTypeCorrect, QueryTypeCorrect, BodiesOfMessages, ReportInductive, PTL
=============================================================================
