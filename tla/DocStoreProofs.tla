---------------------------- MODULE DocStoreProofs ----------------------------
(***************************************************************************)
(* The document store for any requests, users, documents, pool and number  *)
(* of crashes.  The invariant follows a document from its INSERT to the    *)
(* answer: who has inserted but not committed, what a decided post means   *)
(* for the table, and which request a stored row belongs to; and a client  *)
(* of the pool from the connect to the release.  From it follows that the  *)
(* store implements DocStoreContract, in the last part of the module.      *)
(***************************************************************************)
EXTENDS DocStore, FiniteSetTheorems, SequenceTheorems, TLAPS

\* An INSERT in progress is the only one of its id, and there is no such row.
Uncommitted(r) ==
    r \in written =>
        /\ pc[r] \in {"commit", "rollback"}
        /\ rows[Doc(r)] = Nobody
        /\ pc[r] = "commit" => Op(r) = "post" /\ outcome[r] = "posted"

\* A post that decided to say "posted" is in the table, or about to be.
Posted(r) ==
    outcome[r] = "posted" =>
        /\ pc[r] \in {"commit", "committed", "release", "done"}
        /\ IF pc[r] = "commit" THEN r \in written ELSE rows[Doc(r)] = r

AnsweredAsDecided(r) ==
    /\ pc[r] \in {"commit", "committed", "rollback", "release"} => outcome[r] # "undecided"
    /\ answer[r] # "none" => pc[r] = "done" /\ answer[r] = outcome[r]

\* A row belongs to a post that has committed, and what became of that.
Stored(id) ==
    rows[id] # Nobody =>
        /\ Op(rows[id]) = "post" /\ Doc(rows[id]) = id
        /\ pc[rows[id]] \in {"committed", "release", "rollback", "done"}
        /\ outcome[rows[id]] \in {"posted", "lost"} \/ rows[id] \in doubtful

StoreInv ==
    /\ \A r \in Request : Uncommitted(r) /\ Posted(r) /\ AnsweredAsDecided(r)
    /\ \A id \in Id : Stored(id)
    /\ \A q, r \in written : Doc(q) = Doc(r) => q = r

\* A client is out exactly while its request is handled, or since BEGIN failed.
HasClient(r) ==
    /\ r \in holders <=> (pc[r] \in Holding \/ r \in unbegun)
    /\ r \in unbegun => pc[r] = "done"

\* Whoever waits, waits once.
QueueInv ==
    /\ \A i \in 1..Len(queue) : pc[queue[i]] = "waiting"
    /\ \A i, j \in 1..Len(queue) : queue[i] = queue[j] => i = j

PoolInv ==
    /\ \A r \in Request : HasClient(r)
    /\ QueueInv
    /\ IsFiniteSet(holders)

DInv == TypeOK /\ StoreInv /\ PoolInv

-----------------------------------------------------------------------------
\* Nothing happens to the rows, and to other requests nothing at all.
LEMMA StoreFrame ==
    ASSUME StoreInv, NEW r \in Request, call' = call, rows' = rows,
           \A q \in Request \ {r} :
               /\ pc'[q] = pc[q] /\ outcome'[q] = outcome[q] /\ answer'[q] = answer[q]
               /\ q \in written' <=> q \in written,
           written' \subseteq Request,
           r \in written' => r \in written,
           doubtful \subseteq doubtful',
           Uncommitted(r)', Posted(r)', AnsweredAsDecided(r)',
           \A id \in Id : rows[id] = r => Stored(id)',
           rows \in [Id -> Request \union {Nobody}]
    PROVE  StoreInv'
<1>1. ASSUME NEW q \in Request PROVE Uncommitted(q)' /\ Posted(q)' /\ AnsweredAsDecided(q)'
  BY DEF StoreInv, Uncommitted, Posted, AnsweredAsDecided, Doc, Op
<1>2. ASSUME NEW id \in Id PROVE Stored(id)'
  <2>1. CASE rows[id] \notin {r, Nobody}
    <3>1. rows[id] \in Request \ {r}
      BY <2>1
    <3>2. Stored(id)
      BY DEF StoreInv
    <3>3. QED
      BY <3>1, <3>2 DEF Stored, Doc, Op
  <2>2. CASE rows[id] = Nobody
    BY <2>2 DEF Stored
  <2>3. QED
    BY <2>1, <2>2
<1>3. ASSUME NEW p \in written', NEW q \in written', Doc(p)' = Doc(q)' PROVE p = q
  BY <1>3 DEF StoreInv, Doc
<1>4. QED
  BY <1>1, <1>2, <1>3 DEF StoreInv

\* Nobody joins or leaves the queue, and only r may get or release a client.
LEMMA PoolFrame ==
    ASSUME PoolInv, NEW r \in Request, queue' = queue, queue \in Seq(Request),
           pc[r] # "waiting",
           \A q \in Request \ {r} :
               /\ pc'[q] = pc[q]
               /\ q \in holders' <=> q \in holders
               /\ q \in unbegun' <=> q \in unbegun,
           HasClient(r)', IsFiniteSet(holders')
    PROVE  PoolInv'
<1>1. ASSUME NEW q \in Request PROVE HasClient(q)'
  BY DEF PoolInv, HasClient
<1>2. QueueInv'
  <2>1. ASSUME NEW i \in 1..Len(queue) PROVE pc'[queue[i]] = "waiting"
    <3>1. queue[i] \in Request /\ pc[queue[i]] = "waiting"
      BY DEF PoolInv, QueueInv
    <3>2. QED
      BY <3>1
  <2>2. QED
    BY <2>1 DEF PoolInv, QueueInv
<1>3. QED
  BY <1>1, <1>2 DEF PoolInv

LEMMA InitInv == Init => DInv
<1> SUFFICES ASSUME Init PROVE DInv
  OBVIOUS
<1>1. IsFiniteSet(holders) /\ Cardinality(holders) = 0
  BY FS_EmptySet DEF Init
<1>2. TypeOK
  BY <1>1, PoolAssumption DEF Init, TypeOK, Outcomes
<1>3. StoreInv
  BY NobodyAssumption DEF Init, StoreInv, Uncommitted, Posted, AnsweredAsDecided, Stored
<1>4. PoolInv
  BY <1>1 DEF Init, PoolInv, HasClient, QueueInv, Holding
<1>5. QED
  BY <1>2, <1>3, <1>4 DEF DInv

\* A step of the request in the api function, which has not returned.
LEMMA DecideInv ==
    ASSUME DInv, NEW r \in Request, pc[r] \in {"run", "insert"},
           NEW x \in Outcomes \ {"posted"}, NEW where \in {"commit", "insert", "rollback"},
           where # "insert" => x # "undecided", Decide(r, x, where),
           UNCHANGED <<call, poolVars, dbVars, history, answer, crashes>>,
           creds' \in [User -> Request \union {Nobody}]
    PROVE  DInv'
<1>1. /\ pc' = [pc EXCEPT ![r] = where] /\ outcome' = [outcome EXCEPT ![r] = x]
      /\ call' = call /\ rows' = rows /\ written' = written /\ answer' = answer
      /\ doubtful' = doubtful /\ unbegun' = unbegun /\ queue' = queue
      /\ holders' = holders /\ crashes' = crashes
  BY DEF Decide, Go, poolVars, dbVars, history
<1>2. pc'[r] = where /\ outcome'[r] = x
  BY <1>1 DEF DInv, TypeOK
<1>3. TypeOK'
  BY <1>1 DEF DInv, TypeOK, Holding
<1>4. r \notin written /\ answer[r] = "none"
  BY DEF DInv, StoreInv, Uncommitted, AnsweredAsDecided
<1>5. StoreInv'
  <2>1. Uncommitted(r)' /\ Posted(r)' /\ AnsweredAsDecided(r)'
    BY <1>1, <1>2, <1>4 DEF Uncommitted, Posted, AnsweredAsDecided
  <2>2. \A id \in Id : rows[id] # r
    BY NobodyAssumption DEF DInv, StoreInv, Stored
  <2>3. QED
    BY <1>1, <1>2, <2>1, <2>2, StoreFrame DEF DInv, TypeOK
<1>6. PoolInv'
  <2>1. HasClient(r)'
    BY <1>1, <1>2 DEF DInv, PoolInv, HasClient, Holding
  <2>2. QED
    BY <1>1, <2>1, PoolFrame DEF DInv, TypeOK, PoolInv
<1>7. QED
  BY <1>3, <1>5, <1>6 DEF DInv

LEMMA ApiInv ==
    ASSUME DInv, NEW r \in Request,
           \/ Get(r) \/ PostSelect(r) \/ FailSelect(r) \/ InsertDuplicate(r)
           \/ Register(r) \/ Login(r) \/ Probe(r) \/ ApiThrows(r)
    PROVE  DInv'
<1>1. pc[r] \in {"run", "insert"}
  BY DEF Get, PostSelect, FailSelect, InsertDuplicate, Register, Login, Probe, ApiThrows
<1>2. CASE \E x \in Outcomes \ {"posted"}, where \in {"commit", "insert", "rollback"} :
               (where # "insert" => x # "undecided") /\ OnlyDecides(r, x, where)
  BY <1>1, <1>2, DecideInv DEF OnlyDecides, DInv, TypeOK
<1>3. CASE /\ Decide(r, "registered", "commit")
           /\ creds' = [creds EXCEPT ![Principal(r)] = r]
           /\ UNCHANGED <<call, poolVars, dbVars, history, answer, crashes>>
  <2>1. creds' \in [User -> Request \union {Nobody}]
    BY <1>3 DEF DInv, TypeOK
  <2>2. QED
    BY <1>1, <1>3, <2>1, DecideInv DEF Outcomes
<1>4. QED
  BY <1>2, <1>3 DEF Get, PostSelect, FailSelect, InsertDuplicate, Register, Login, Probe,
     ApiThrows, Outcomes

-----------------------------------------------------------------------------
LEMMA AskInv ==
    ASSUME DInv, NEW r \in Request, Ask(r)
    PROVE  DInv'
<1>1. /\ pc[r] = "connect" /\ pc' = [pc EXCEPT ![r] = "waiting"]
      /\ queue' = Append(queue, r) /\ holders' = holders /\ unbegun' = unbegun
      /\ call' = call /\ rows' = rows /\ written' = written /\ doubtful' = doubtful
      /\ outcome' = outcome /\ answer' = answer /\ creds' = creds /\ crashes' = crashes
  BY DEF Ask, Go, dbVars, history
<1>2. TypeOK /\ pc'[r] = "waiting"
  BY <1>1 DEF DInv, TypeOK
<1>3. TypeOK'
  BY <1>1, <1>2 DEF TypeOK
<1>4. StoreInv'
  <2>1. r \notin written /\ outcome[r] # "posted" /\ answer[r] = "none"
    BY <1>1 DEF DInv, StoreInv, Uncommitted, Posted, AnsweredAsDecided
  <2>2. Uncommitted(r)' /\ Posted(r)' /\ AnsweredAsDecided(r)'
    BY <1>1, <1>2, <2>1 DEF Uncommitted, Posted, AnsweredAsDecided
  <2>3. \A id \in Id : rows[id] # r
    BY <1>1, NobodyAssumption DEF DInv, StoreInv, Stored
  <2>4. QED
    BY <1>1, <1>2, <2>2, <2>3, StoreFrame DEF DInv, TypeOK
<1>5. PoolInv'
  <2>1. ASSUME NEW q \in Request PROVE HasClient(q)'
    BY <1>1, <1>2 DEF DInv, PoolInv, HasClient, TypeOK, Holding
  <2>2. /\ queue \in Seq(Request) /\ Len(queue) \in Nat /\ Len(queue') = Len(queue) + 1
        /\ \A i \in 1..Len(queue) : queue'[i] = queue[i] /\ queue[i] \in Request
        /\ queue'[Len(queue) + 1] = r
    BY <1>1, <1>2 DEF TypeOK
  <2>3. \A i \in 1..Len(queue) : pc[queue[i]] = "waiting" /\ queue[i] # r
    BY <1>1, <1>2 DEF DInv, PoolInv, QueueInv, TypeOK
  <2>4. ASSUME NEW i \in 1..Len(queue') PROVE pc'[queue'[i]] = "waiting"
    <3>1. CASE i \in 1..Len(queue)
      BY <1>1, <1>2, <2>2, <2>3, <3>1 DEF TypeOK
    <3>2. CASE i = Len(queue) + 1
      BY <1>2, <2>2, <3>2
    <3>3. QED
      BY <2>2, <3>1, <3>2
  <2>5. ASSUME NEW i \in 1..Len(queue'), NEW j \in 1..Len(queue'), queue'[i] = queue'[j]
        PROVE  i = j
    BY <2>2, <2>3, <2>5 DEF DInv, PoolInv, QueueInv
  <2>6. QED
    BY <1>1, <2>1, <2>4, <2>5 DEF DInv, PoolInv, QueueInv
<1>6. QED
  BY <1>3, <1>4, <1>5 DEF DInv

\* The request at the head of the queue leaves it.
LEMMA HeadLeaves ==
    ASSUME DInv, queue # <<>>, queue' = Tail(queue), NEW where, where # "waiting",
           pc' = [pc EXCEPT ![Head(queue)] = where]
    PROVE  /\ Head(queue) \in Request /\ pc[Head(queue)] = "waiting"
           /\ pc'[Head(queue)] = where /\ queue' \in Seq(Request)
           /\ QueueInv'
<1>1. /\ queue \in Seq(Request) /\ Len(queue) \in Nat /\ Len(queue) # 0
      /\ Head(queue) = queue[1] /\ Head(queue) \in Request
      /\ queue' \in Seq(Request) /\ Len(queue') = Len(queue) - 1
      /\ \A i \in 1..Len(queue') : queue'[i] = queue[i + 1] /\ queue[i + 1] \in Request
  BY DEF DInv, TypeOK
<1>2. pc \in [Request -> Holding \union {"connect", "waiting", "done"}]
  BY DEF DInv, TypeOK
<1>3. pc[Head(queue)] = "waiting" /\ pc'[Head(queue)] = where
  BY <1>1, <1>2 DEF DInv, PoolInv, QueueInv
<1>4. ASSUME NEW i \in 1..Len(queue') PROVE pc'[queue'[i]] = "waiting"
  <2>1. i + 1 \in 1..Len(queue) /\ i + 1 # 1 /\ 1 \in 1..Len(queue)
    BY <1>1
  <2>2. queue[i + 1] # queue[1] /\ pc[queue[i + 1]] = "waiting"
    BY <2>1 DEF DInv, PoolInv, QueueInv
  <2>3. QED
    BY <1>1, <1>2, <2>2
<1>5. ASSUME NEW i \in 1..Len(queue'), NEW j \in 1..Len(queue'), queue'[i] = queue'[j]
      PROVE  i = j
  <2>1. i + 1 \in 1..Len(queue) /\ j + 1 \in 1..Len(queue) /\ queue[i + 1] = queue[j + 1]
    BY <1>1, <1>5
  <2>2. i + 1 = j + 1
    BY <2>1 DEF DInv, PoolInv, QueueInv
  <2>3. QED
    BY <1>1, <2>2
<1>6. QED
  BY <1>1, <1>3, <1>4, <1>5 DEF QueueInv

LEMMA GetClientInv ==
    ASSUME DInv, NEW r \in Request, r = Head(queue), GetClient
    PROVE  DInv'
<1>1. /\ queue # <<>> /\ queue' = Tail(queue) /\ pc' = [pc EXCEPT ![r] = "begin"]
      /\ holders' = holders \union {r} /\ Cardinality(holders) < MaxClients
      /\ call' = call /\ rows' = rows /\ written' = written /\ doubtful' = doubtful
      /\ outcome' = outcome /\ answer' = answer /\ creds' = creds /\ crashes' = crashes
      /\ unbegun' = unbegun
  BY DEF GetClient, Go, dbVars, history
<1>2. /\ r \in Request /\ pc[r] = "waiting" /\ pc'[r] = "begin"
      /\ queue' \in Seq(Request) /\ QueueInv'
  BY <1>1, HeadLeaves
<1>3. IsFiniteSet(holders') /\ Cardinality(holders') <= MaxClients
  <2>1. /\ IsFiniteSet(holders) /\ Cardinality(holders) \in Nat
        /\ IsFiniteSet(holders \union {r})
        /\ Cardinality(holders \union {r}) \in {Cardinality(holders), Cardinality(holders) + 1}
    BY FS_AddElement, FS_CardinalityType DEF DInv, PoolInv
  <2>2. QED
    BY <1>1, <2>1, PoolAssumption
<1>4. TypeOK'
  BY <1>1, <1>2, <1>3 DEF DInv, TypeOK, Holding
<1>5. StoreInv'
  <2>1. r \notin written /\ outcome[r] # "posted" /\ answer[r] = "none"
    BY <1>2 DEF DInv, StoreInv, Uncommitted, Posted, AnsweredAsDecided
  <2>2. Uncommitted(r)' /\ Posted(r)' /\ AnsweredAsDecided(r)'
    BY <1>1, <1>2, <2>1 DEF Uncommitted, Posted, AnsweredAsDecided
  <2>3. \A id \in Id : rows[id] # r
    BY <1>2, NobodyAssumption DEF DInv, StoreInv, Stored
  <2>4. QED
    BY <1>1, <1>2, <2>2, <2>3, StoreFrame DEF DInv, TypeOK
<1>6. ASSUME NEW q \in Request PROVE HasClient(q)'
  BY <1>1, <1>2 DEF DInv, PoolInv, HasClient, TypeOK, Holding
<1>7. QED
  BY <1>2, <1>3, <1>4, <1>5, <1>6 DEF DInv, PoolInv

LEMMA ConnectFailsInv ==
    ASSUME DInv, NEW r \in Request, r = Head(queue), ConnectFails
    PROVE  DInv'
<1>1. /\ queue # <<>> /\ queue' = Tail(queue) /\ pc' = [pc EXCEPT ![r] = "done"]
      /\ outcome' = [outcome EXCEPT ![r] = "error"]
      /\ answer' = [answer EXCEPT ![r] = "error"]
      /\ call' = call /\ rows' = rows /\ written' = written /\ doubtful' = doubtful
      /\ holders' = holders /\ unbegun' = unbegun /\ creds' = creds /\ crashes' = crashes
  BY DEF ConnectFails, EndInError, Go, dbVars, history
<1>2. /\ r \in Request /\ pc[r] = "waiting" /\ pc'[r] = "done"
      /\ queue' \in Seq(Request) /\ QueueInv'
  BY <1>1, HeadLeaves
<1>3. TypeOK'
  BY <1>1, <1>2 DEF DInv, TypeOK, Outcomes
<1>4. StoreInv'
  <2>1. r \notin written
    BY <1>2 DEF DInv, StoreInv, Uncommitted
  <2>2. outcome'[r] = "error" /\ answer'[r] = "error"
    BY <1>1, <1>2 DEF DInv, TypeOK
  <2>3. Uncommitted(r)' /\ Posted(r)' /\ AnsweredAsDecided(r)'
    BY <1>1, <1>2, <2>1, <2>2 DEF Uncommitted, Posted, AnsweredAsDecided
  <2>4. \A id \in Id : rows[id] # r
    BY <1>2, NobodyAssumption DEF DInv, StoreInv, Stored
  <2>5. QED
    BY <1>1, <1>2, <2>3, <2>4, StoreFrame DEF DInv, TypeOK
<1>5. ASSUME NEW q \in Request PROVE HasClient(q)'
  BY <1>1, <1>2 DEF DInv, PoolInv, HasClient, TypeOK, Holding
<1>6. QED
  BY <1>1, <1>2, <1>3, <1>4, <1>5 DEF DInv, PoolInv

-----------------------------------------------------------------------------
\* A request with a client, not in the api function, moves on without touching
\* the table or the pool.
LEMMA MoveInv ==
    ASSUME DInv, NEW r \in Request, NEW where \in Holding, pc[r] \in Holding,
           pc' = [pc EXCEPT ![r] = where],
           UNCHANGED <<call, poolVars, rows, unbegun, outcome, answer, creds, crashes>>,
           written' \in {written, written \ {r}}, doubtful' = doubtful,
           \/ /\ r \notin written' /\ where = "run" /\ outcome[r] # "posted"
              /\ \A id \in Id : rows[id] # r
           \/ /\ pc[r] \in {"commit", "committed", "rollback"}
              /\ r \notin written' /\ where \in {"committed", "release"}
              /\ outcome[r] = "posted" => rows[Doc(r)] = r
    PROVE  DInv'
<1>1. /\ call' = call /\ rows' = rows /\ queue' = queue /\ holders' = holders
      /\ unbegun' = unbegun /\ outcome' = outcome /\ answer' = answer
      /\ creds' = creds /\ crashes' = crashes
  BY DEF poolVars
<1>2. pc'[r] = where /\ answer[r] = "none" /\ pc[r] # "waiting"
  BY DEF DInv, TypeOK, StoreInv, AnsweredAsDecided, Holding
<1>3. TypeOK'
  BY <1>1 DEF DInv, TypeOK
<1>4. StoreInv'
  <2>1. AnsweredAsDecided(r)'
    BY <1>1, <1>2 DEF DInv, StoreInv, AnsweredAsDecided
  <2>2. Uncommitted(r)' /\ Posted(r)'
    BY <1>1, <1>2 DEF Uncommitted, Posted, Doc
  <2>3. ASSUME NEW id \in Id, rows[id] = r PROVE Stored(id)'
    BY <1>1, <1>2, <2>3 DEF DInv, StoreInv, Stored, Doc, Op
  <2>4. QED
    BY <1>1, <1>2, <2>1, <2>2, <2>3, StoreFrame DEF DInv, TypeOK
<1>5. PoolInv'
  <2>1. HasClient(r)'
    BY <1>1, <1>2 DEF DInv, PoolInv, HasClient, Holding
  <2>2. QED
    BY <1>1, <1>2, <2>1, PoolFrame DEF DInv, TypeOK, PoolInv
<1>6. QED
  BY <1>3, <1>4, <1>5 DEF DInv

LEMMA BeginInv ==
    ASSUME DInv, NEW r \in Request, Begin(r)
    PROVE  DInv'
<1>1. /\ pc[r] = "begin" /\ pc' = [pc EXCEPT ![r] = "run"]
      /\ written' = written /\ doubtful' = doubtful
      /\ UNCHANGED <<call, poolVars, rows, unbegun, outcome, answer, creds, crashes>>
  BY DEF Begin, Go, dbVars, history
<1>2. r \notin written /\ outcome[r] # "posted" /\ \A id \in Id : rows[id] # r
  BY <1>1, NobodyAssumption DEF DInv, StoreInv, Uncommitted, Posted, Stored
<1>3. QED
  BY <1>1, <1>2, MoveInv DEF Holding

LEMMA BeginFailsInv ==
    ASSUME DInv, NEW r \in Request, BeginFails(r)
    PROVE  DInv'
<1>1. /\ pc[r] = "begin" /\ pc' = [pc EXCEPT ![r] = "done"]
      /\ outcome' = [outcome EXCEPT ![r] = "error"]
      /\ answer' = [answer EXCEPT ![r] = "error"]
      /\ unbegun' = unbegun \union {r}
      /\ call' = call /\ queue' = queue /\ holders' = holders /\ rows' = rows
      /\ written' = written /\ doubtful' = doubtful /\ creds' = creds /\ crashes' = crashes
  BY DEF BeginFails, EndInError, Go, poolVars, dbVars
<1>2. pc'[r] = "done" /\ outcome'[r] = "error" /\ answer'[r] = "error"
  BY <1>1 DEF DInv, TypeOK
<1>3. TypeOK'
  BY <1>1 DEF DInv, TypeOK, Outcomes
<1>4. StoreInv'
  <2>1. r \notin written /\ \A id \in Id : rows[id] # r
    BY <1>1, NobodyAssumption DEF DInv, StoreInv, Uncommitted, Stored
  <2>2. Uncommitted(r)' /\ Posted(r)' /\ AnsweredAsDecided(r)'
    BY <1>1, <1>2, <2>1 DEF Uncommitted, Posted, AnsweredAsDecided
  <2>3. QED
    BY <1>1, <2>1, <2>2, StoreFrame DEF DInv, TypeOK
<1>5. PoolInv'
  <2>1. HasClient(r)'
    BY <1>1, <1>2 DEF DInv, PoolInv, HasClient, Holding
  <2>2. QED
    BY <1>1, <2>1, PoolFrame DEF DInv, TypeOK, PoolInv
<1>6. QED
  BY <1>3, <1>4, <1>5 DEF DInv

\* The INSERT waits until it is the only one of its id.
LEMMA InsertInv ==
    ASSUME DInv, NEW r \in Request, Insert(r)
    PROVE  DInv'
<1>1. PICK x \in {"posted", "error"}, where \in {"commit", "rollback"} :
          /\ pc' = [pc EXCEPT ![r] = where] /\ outcome' = [outcome EXCEPT ![r] = x]
          /\ where = "commit" => Op(r) = "post"
          /\ x = "posted" <=> where = "commit"
  BY DEF Insert, Decide, Go
<1>2. /\ pc[r] = "insert" /\ rows[Doc(r)] = Nobody /\ written' = written \union {r}
      /\ \A q \in written : Doc(q) # Doc(r)
      /\ call' = call /\ queue' = queue /\ holders' = holders /\ rows' = rows
      /\ doubtful' = doubtful /\ unbegun' = unbegun /\ answer' = answer
      /\ creds' = creds /\ crashes' = crashes
  BY DEF Insert, Exists, Writers, poolVars, history
<1>3. pc'[r] = where /\ outcome'[r] = x /\ TypeOK
  BY <1>1 DEF DInv, TypeOK
<1>4. TypeOK'
  BY <1>1, <1>2 DEF DInv, TypeOK, Outcomes, Holding
<1>5. StoreInv'
  <2>1. answer[r] = "none" /\ \A id \in Id : rows[id] # r
    BY <1>2, NobodyAssumption DEF DInv, StoreInv, AnsweredAsDecided, Stored
  <2>2. ASSUME NEW q \in Request
        PROVE  Uncommitted(q)' /\ Posted(q)' /\ AnsweredAsDecided(q)'
    <3>1. CASE q = r
      BY <1>1, <1>2, <1>3, <2>1, <3>1 DEF Uncommitted, Posted, AnsweredAsDecided, Doc, Op
    <3>2. CASE q # r
      <4>1. /\ pc'[q] = pc[q] /\ outcome'[q] = outcome[q]
            /\ q \in written' <=> q \in written
        BY <1>1, <1>2, <1>3, <3>2 DEF TypeOK
      <4>2. QED
        BY <1>2, <4>1 DEF DInv, StoreInv, Uncommitted, Posted, AnsweredAsDecided, Doc, Op
    <3>3. QED
      BY <3>1, <3>2
  <2>3. ASSUME NEW id \in Id PROVE Stored(id)'
    <3>1. rows[id] # Nobody => rows[id] \in Request \ {r}
      BY <1>3, <2>1 DEF TypeOK
    <3>2. QED
      BY <1>1, <1>2, <1>3, <3>1 DEF DInv, StoreInv, Stored, TypeOK, Doc, Op
  <2>4. ASSUME NEW p \in written', NEW q \in written', Doc(p)' = Doc(q)' PROVE p = q
    BY <1>2, <2>4 DEF DInv, StoreInv, Doc
  <2>5. QED
    BY <2>2, <2>3, <2>4 DEF StoreInv
<1>6. PoolInv'
  <2>1. HasClient(r)'
    BY <1>1, <1>2, <1>3 DEF DInv, PoolInv, HasClient, Holding
  <2>2. QED
    BY <1>1, <1>2, <2>1, PoolFrame DEF DInv, TypeOK, PoolInv
<1>7. QED
  BY <1>4, <1>5, <1>6 DEF DInv

\* COMMIT: the only INSERT of its id becomes the row of its id.
LEMMA CommitInv ==
    ASSUME DInv, NEW r \in Request, Commit(r)
    PROVE  DInv'
<1>1. /\ pc[r] = "commit" /\ pc' = [pc EXCEPT ![r] = "committed"]
      /\ rows' = [id \in Id |-> IF r \in written /\ Doc(r) = id THEN r ELSE rows[id]]
      /\ written' = written \ {r}
      /\ call' = call /\ queue' = queue /\ holders' = holders
      /\ doubtful' = doubtful /\ unbegun' = unbegun /\ outcome' = outcome
      /\ answer' = answer /\ creds' = creds /\ crashes' = crashes
  BY DEF Commit, Go, poolVars, history
<1>2. pc'[r] = "committed" /\ TypeOK /\ StoreInv
  BY <1>1 DEF DInv, TypeOK
<1>3. ASSUME NEW q \in Request PROVE Doc(q) \in Id
  BY <1>2 DEF TypeOK, Calls, Doc
<1>4. TypeOK'
  BY <1>1, <1>2 DEF TypeOK, Holding
<1>5. StoreInv'
  <2>1. r \in written => rows[Doc(r)] = Nobody /\ Op(r) = "post" /\ outcome[r] = "posted"
    BY <1>1, <1>2 DEF StoreInv, Uncommitted
  <2>2. ASSUME NEW q \in written' PROVE rows'[Doc(q)] = rows[Doc(q)]
    BY <1>1, <1>2, <1>3 DEF StoreInv, TypeOK
  <2>3. ASSUME NEW q \in Request, rows[Doc(q)] = q PROVE rows'[Doc(q)] = q
    BY <1>1, <1>3, <2>1, <2>3, NobodyAssumption
  <2>4. ASSUME NEW q \in Request
        PROVE  Uncommitted(q)' /\ Posted(q)' /\ AnsweredAsDecided(q)'
    <3>1. CASE q = r
      <4>1. outcome[r] = "posted" => rows'[Doc(r)] = r
        BY <1>1, <1>2, <1>3 DEF StoreInv, Posted
      <4>2. answer[r] = "none" /\ outcome[r] # "undecided"
        BY <1>1, <1>2 DEF StoreInv, AnsweredAsDecided
      <4>3. QED
        BY <1>1, <1>2, <3>1, <4>1, <4>2 DEF Uncommitted, Posted, AnsweredAsDecided, Doc
    <3>2. CASE q # r
      <4>1. pc'[q] = pc[q] /\ (q \in written' <=> q \in written)
        BY <1>1, <1>2, <3>2 DEF TypeOK
      <4>2. Uncommitted(q) /\ Posted(q) /\ AnsweredAsDecided(q)
        BY <1>2 DEF StoreInv
      <4>3. AnsweredAsDecided(q)'
        BY <1>1, <4>1, <4>2 DEF AnsweredAsDecided
      <4>4. Posted(q)'
        BY <1>1, <2>3, <4>1, <4>2 DEF Posted, Doc
      <4>5. Uncommitted(q)'
        BY <1>1, <2>2, <4>1, <4>2 DEF Uncommitted, Doc, Op
      <4>6. QED
        BY <4>3, <4>4, <4>5
    <3>3. QED
      BY <3>1, <3>2
  <2>5. ASSUME NEW id \in Id PROVE Stored(id)'
    <3>1. CASE rows'[id] = r /\ r \in written /\ Doc(r) = id
      BY <1>1, <1>2, <2>1, <3>1 DEF Stored, Doc, Op
    <3>2. CASE rows'[id] = rows[id]
      <4>1. Stored(id) /\ (rows[id] # Nobody => rows[id] \in Request)
        BY <1>2 DEF StoreInv, TypeOK
      <4>2. rows[id] # Nobody => rows[id] # r
        BY <1>1, <4>1 DEF Stored
      <4>3. QED
        BY <1>1, <1>2, <3>2, <4>1, <4>2 DEF Stored, TypeOK, Doc, Op
    <3>3. QED
      BY <1>1, <3>1, <3>2
  <2>6. ASSUME NEW p \in written', NEW q \in written', Doc(p)' = Doc(q)' PROVE p = q
    BY <1>1, <1>2, <2>6 DEF StoreInv, Doc
  <2>7. QED
    BY <2>4, <2>5, <2>6 DEF StoreInv
<1>6. PoolInv'
  <2>1. HasClient(r)'
    BY <1>1, <1>2 DEF DInv, PoolInv, HasClient, Holding
  <2>2. QED
    BY <1>1, <2>1, PoolFrame DEF DInv, TypeOK, PoolInv
<1>7. QED
  BY <1>4, <1>5, <1>6 DEF DInv

LEMMA CommitConfirmedInv ==
    ASSUME DInv, NEW r \in Request, CommitConfirmed(r)
    PROVE  DInv'
<1>1. /\ pc[r] = "committed" /\ pc' = [pc EXCEPT ![r] = "release"]
      /\ written' = written /\ doubtful' = doubtful
      /\ UNCHANGED <<call, poolVars, rows, unbegun, outcome, answer, creds, crashes>>
  BY DEF CommitConfirmed, Go, dbVars, history
<1>2. r \notin written' /\ (outcome[r] = "posted" => rows[Doc(r)] = r)
  BY <1>1 DEF DInv, StoreInv, Uncommitted, Posted
<1>3. QED
  BY <1>1, <1>2, MoveInv DEF Holding

LEMMA CommitFailsInv ==
    ASSUME DInv, NEW r \in Request, CommitFails(r)
    PROVE  DInv'
<1>1. /\ pc[r] \in {"commit", "committed"} /\ pc' = [pc EXCEPT ![r] = "rollback"]
      /\ outcome' = [outcome EXCEPT ![r] = "error"]
      /\ doubtful' = doubtful \union {r}
      /\ call' = call /\ queue' = queue /\ holders' = holders /\ rows' = rows
      /\ written' = written /\ unbegun' = unbegun /\ answer' = answer
      /\ creds' = creds /\ crashes' = crashes
  BY DEF CommitFails, Decide, Go, poolVars, dbVars
<1>2. pc'[r] = "rollback" /\ outcome'[r] = "error" /\ TypeOK /\ StoreInv
  BY <1>1 DEF DInv, TypeOK
<1>3. TypeOK'
  BY <1>1, <1>2 DEF TypeOK, Outcomes, Holding
<1>4. StoreInv'
  <2>1. Uncommitted(r)' /\ Posted(r)' /\ AnsweredAsDecided(r)'
    BY <1>1, <1>2 DEF StoreInv, Uncommitted, Posted, AnsweredAsDecided, Doc
  <2>2. ASSUME NEW id \in Id, rows[id] = r PROVE Stored(id)'
    BY <1>1, <1>2, <2>2 DEF StoreInv, Stored, Doc, Op
  <2>3. QED
    BY <1>1, <1>2, <2>1, <2>2, StoreFrame DEF TypeOK
<1>5. PoolInv'
  <2>1. HasClient(r)'
    BY <1>1, <1>2 DEF DInv, PoolInv, HasClient, Holding
  <2>2. QED
    BY <1>1, <2>1, PoolFrame DEF DInv, TypeOK, PoolInv
<1>6. QED
  BY <1>3, <1>4, <1>5 DEF DInv

LEMMA RollbackInv ==
    ASSUME DInv, NEW r \in Request, Rollback(r)
    PROVE  DInv'
<1>1. /\ pc[r] = "rollback" /\ pc' = [pc EXCEPT ![r] = "release"]
      /\ written' = written \ {r} /\ doubtful' = doubtful
      /\ UNCHANGED <<call, poolVars, rows, unbegun, outcome, answer, creds, crashes>>
  BY DEF Rollback, Go, history
<1>2. outcome[r] # "posted"
  BY <1>1 DEF DInv, StoreInv, Posted
<1>3. QED
  BY <1>1, <1>2, MoveInv DEF Holding

LEMMA ReleaseInv ==
    ASSUME DInv, NEW r \in Request, Release(r)
    PROVE  DInv'
<1>1. /\ pc[r] = "release" /\ pc' = [pc EXCEPT ![r] = "done"]
      /\ answer' = [answer EXCEPT ![r] = outcome[r]] /\ holders' = holders \ {r}
      /\ call' = call /\ queue' = queue /\ rows' = rows /\ written' = written
      /\ doubtful' = doubtful /\ unbegun' = unbegun /\ outcome' = outcome
      /\ creds' = creds /\ crashes' = crashes
  BY DEF Release, Go, dbVars, history
<1>2. pc'[r] = "done" /\ answer'[r] = outcome[r] /\ TypeOK /\ StoreInv
  BY <1>1 DEF DInv, TypeOK
<1>3. IsFiniteSet(holders') /\ Cardinality(holders') <= MaxClients
  <2>1. /\ IsFiniteSet(holders \ {r}) /\ Cardinality(holders \ {r}) \in Nat
        /\ Cardinality(holders \ {r}) \in {Cardinality(holders), Cardinality(holders) - 1}
        /\ Cardinality(holders) \in Nat
    BY FS_RemoveElement, FS_CardinalityType DEF DInv, PoolInv
  <2>2. QED
    BY <1>1, <1>2, <2>1, PoolAssumption DEF TypeOK
<1>4. TypeOK'
  <2>1. outcome[r] \in Outcomes \ {"undecided"}
    BY <1>1, <1>2 DEF StoreInv, AnsweredAsDecided, TypeOK
  <2>2. QED
    BY <1>1, <1>2, <1>3, <2>1 DEF TypeOK
<1>5. StoreInv'
  <2>1. Uncommitted(r)' /\ Posted(r)' /\ AnsweredAsDecided(r)'
    BY <1>1, <1>2 DEF StoreInv, Uncommitted, Posted, AnsweredAsDecided, Doc
  <2>2. ASSUME NEW id \in Id, rows[id] = r PROVE Stored(id)'
    BY <1>1, <1>2, <2>2 DEF StoreInv, Stored, Doc, Op
  <2>3. QED
    BY <1>1, <1>2, <2>1, <2>2, StoreFrame DEF TypeOK
<1>6. PoolInv'
  <2>1. HasClient(r)'
    BY <1>1, <1>2 DEF DInv, PoolInv, HasClient, Holding
  <2>2. QED
    BY <1>1, <1>2, <1>3, <2>1, PoolFrame DEF DInv, TypeOK
<1>7. QED
  BY <1>4, <1>5, <1>6 DEF DInv

\* What Postgres committed is all that survives.
LEMMA CrashInv ==
    ASSUME DInv, Crash
    PROVE  DInv'
<1> DEFINE InFlight == {r \in Request : pc[r] \notin {"connect", "done"}}
<1>1. /\ crashes < MaxCrashes /\ crashes' = crashes + 1
      /\ pc' = [r \in Request |-> IF r \in InFlight THEN "done" ELSE pc[r]]
      /\ outcome' = [r \in Request |-> IF r \in InFlight THEN "lost" ELSE outcome[r]]
      /\ answer' = [r \in Request |-> IF r \in InFlight THEN "lost" ELSE answer[r]]
      /\ queue' = <<>> /\ holders' = {} /\ unbegun' = {} /\ written' = {}
      /\ creds' = [u \in User |-> Nobody]
      /\ call' = call /\ rows' = rows /\ doubtful' = doubtful
  BY DEF Crash
<1>2. TypeOK /\ StoreInv
  BY DEF DInv
<1>3. IsFiniteSet(holders') /\ Cardinality(holders') = 0
  BY <1>1, FS_EmptySet
<1>4. TypeOK'
  BY <1>1, <1>2, <1>3, PoolAssumption DEF TypeOK, Outcomes
<1>5. StoreInv'
  <2>1. ASSUME NEW r \in Request
        PROVE  Uncommitted(r)' /\ Posted(r)' /\ AnsweredAsDecided(r)'
    <3>1. CASE r \in InFlight
      BY <1>1, <3>1 DEF Uncommitted, Posted, AnsweredAsDecided
    <3>2. CASE r \notin InFlight
      <4>1. pc'[r] = pc[r] /\ outcome'[r] = outcome[r] /\ answer'[r] = answer[r]
        BY <1>1, <3>2
      <4>2. pc[r] \in {"connect", "done"}
        BY <3>2
      <4>3. QED
        BY <1>1, <1>2, <4>1, <4>2
           DEF StoreInv, Uncommitted, Posted, AnsweredAsDecided, Doc
    <3>3. QED
      BY <3>1, <3>2
  <2>2. ASSUME NEW id \in Id PROVE Stored(id)'
    <3>1. Stored(id) /\ (rows[id] # Nobody => rows[id] \in Request)
      BY <1>2 DEF StoreInv, TypeOK
    <3>2. ASSUME NEW r \in Request, rows[id] = r, rows[id] # Nobody PROVE Stored(id)'
      <4>1. /\ pc'[r] = "done"
            /\ outcome'[r] = "lost" \/ outcome'[r] = outcome[r]
        BY <1>1, <3>1, <3>2 DEF Stored
      <4>2. QED
        BY <1>1, <3>1, <3>2, <4>1 DEF Stored, Doc, Op
    <3>3. QED
      BY <1>1, <3>1, <3>2 DEF Stored
  <2>3. QED
    BY <1>1, <2>1, <2>2 DEF StoreInv
<1>6. PoolInv'
  <2>1. ASSUME NEW r \in Request PROVE HasClient(r)'
    BY <1>1, <1>2 DEF HasClient, Holding, TypeOK
  <2>2. QED
    BY <1>1, <1>3, <2>1 DEF PoolInv, QueueInv
<1>7. QED
  BY <1>4, <1>5, <1>6 DEF DInv

LEMMA StepInv == DInv /\ [Next]_vars => DInv'
<1> SUFFICES ASSUME DInv, [Next]_vars PROVE DInv'
  OBVIOUS
<1>1. ASSUME NEW r \in Request, Ask(r) \/ Handle(r) PROVE DInv'
  BY <1>1, AskInv, BeginInv, BeginFailsInv, ApiInv, InsertInv, CommitInv,
     CommitConfirmedInv, CommitFailsInv, RollbackInv, ReleaseInv DEF Handle, Serve
<1>2. CASE GetClient \/ ConnectFails
  <2>1. queue # <<>> /\ queue \in Seq(Request)
    BY <1>2 DEF GetClient, ConnectFails, DInv, TypeOK
  <2>2. PICK r \in Request : r = Head(queue)
    BY <2>1
  <2>3. QED
    BY <1>2, <2>2, GetClientInv, ConnectFailsInv
<1>3. CASE Crash
  BY <1>3, CrashInv
<1>4. CASE UNCHANGED vars
  <2>1. /\ call' = call /\ pc' = pc /\ queue' = queue /\ holders' = holders
        /\ rows' = rows /\ written' = written /\ outcome' = outcome /\ answer' = answer
        /\ doubtful' = doubtful /\ unbegun' = unbegun /\ creds' = creds
        /\ crashes' = crashes
    BY <1>4 DEF vars, poolVars, dbVars, history
  <2>2. TypeOK'
    BY <2>1 DEF DInv, TypeOK
  <2>3. StoreInv'
    BY <2>1 DEF DInv, StoreInv, Uncommitted, Posted, AnsweredAsDecided, Stored, Doc, Op
  <2>4. PoolInv'
    BY <2>1 DEF DInv, PoolInv, HasClient, QueueInv
  <2>5. QED
    BY <2>2, <2>3, <2>4 DEF DInv
<1>5. QED
  BY <1>1, <1>2, <1>3, <1>4 DEF Next

LEMMA Inductive == Spec => []DInv
BY InitInv, StepInv, PTL DEF Spec

-----------------------------------------------------------------------------
\* Every variable keeps its type, and no more clients are out than the pool has.
THEOREM TypeCorrect == Spec => []TypeOK
<1>1. DInv => TypeOK
  BY DEF DInv
<1>2. QED
  BY <1>1, Inductive, PTL

\* However many posts race for an id, and whatever fails or crashes, a post that
\* was acknowledged is the one that is stored (decorate.ts:24-36 around
\* docStoreLogic.post).
THEOREM AcknowledgedIsStored == Spec => []PostedIsStored
<1>1. DInv => PostedIsStored
  BY DEF DInv, StoreInv, PostedIsStored, Posted, AnsweredAsDecided
<1>2. QED
  BY <1>1, Inductive, PTL

\* The document of a request that failed is not stored (docstore.test.ts:52),
\* unless it was the COMMIT that failed.
THEOREM FailureRollsBack == Spec => []RollsBackOnError
<1>1. DInv => RollsBackOnError
  <2> SUFFICES ASSUME DInv, NEW id \in Id, rows[id] # Nobody
               PROVE  /\ Op(rows[id]) = "post" /\ Doc(rows[id]) = id
                      /\ \/ answer[rows[id]] \in {"none", "posted", "lost"}
                         \/ rows[id] \in doubtful
    BY DEF RollsBackOnError
  <2>1. Stored(id) /\ rows[id] \in Request
    BY DEF DInv, StoreInv, TypeOK
  <2>2. AnsweredAsDecided(rows[id])
    BY <2>1 DEF DInv, StoreInv
  <2>3. QED
    BY <2>1, <2>2 DEF Stored, AnsweredAsDecided
<1>2. QED
  BY <1>1, Inductive, PTL

\* Clients of the pool belong to requests being handled, but for those whose
\* BEGIN was refused, outside the try (decorate.ts:25).
THEOREM NoOtherLeak == Spec => []ClientsComeBack
<1>1. DInv => ClientsComeBack
  BY DEF DInv, TypeOK, PoolInv, HasClient, ClientsComeBack
<1>2. QED
  BY <1>1, Inductive, PTL
-----------------------------------------------------------------------------
(* The document store implements DocStoreContract.                         *)

Early == {"connect", "waiting", "begin", "run", "insert"}

\* Until its api function returns, nothing is decided of a request.
Fresh == \A r \in Request : pc[r] \in Early => outcome[r] = "undecided"

Told == [r \in Request |-> pc[r] = "done"]

\* A step of one request.
OnlyOf(r) ==
    /\ \A q \in Request \ {r} : pc'[q] = pc[q] /\ outcome'[q] = outcome[q]
    /\ call' = call

Others == {"exists", "registered", "token", "unknown", "alive"}

\* Result of one request, without its CASE.
LEMMA ResultIs ==
    ASSUME NEW r \in Request
    PROVE  Result[r] = IF pc[r] = "commit" /\ outcome[r] = "posted" THEN "undecided"
                       ELSE IF outcome[r] \in Others THEN "other" ELSE outcome[r]
BY DEF Result, Others

LEMMA ResultIsNext ==
    ASSUME NEW r \in Request
    PROVE  Result'[r] = IF pc'[r] = "commit" /\ outcome'[r] = "posted" THEN "undecided"
                        ELSE IF outcome'[r] \in Others THEN "other" ELSE outcome'[r]
BY DEF Result, Others

\* What others were told and what was decided of them stays.
LEMMA ResultFrame ==
    ASSUME NEW r \in Request, OnlyOf(r)
    PROVE  /\ Result' = [Result EXCEPT ![r] = Result'[r]]
           /\ Told' = [Told EXCEPT ![r] = (pc'[r] = "done")]
<1>1. ASSUME NEW q \in Request \ {r} PROVE Result'[q] = Result[q] /\ Told'[q] = Told[q]
  BY ResultIs, ResultIsNext DEF OnlyOf, Told
<1>2. Result = [q \in Request |-> Result[q]] /\ Result' = [q \in Request |-> Result'[q]]
  BY DEF Result
<1>3. Told = [q \in Request |-> Told[q]] /\ Told' = [q \in Request |-> Told'[q]]
  BY DEF Told
<1>4. Told'[r] = (pc'[r] = "done")
  BY DEF Told
<1> QED BY <1>1, <1>2, <1>3, <1>4

LEMMA FreshFrame ==
    ASSUME Fresh, NEW r \in Request, OnlyOf(r),
           pc'[r] \in Early => outcome'[r] = "undecided"
    PROVE  Fresh'
BY DEF Fresh, OnlyOf

\* A step after which its request has decided and told what it had before.
LEMMA Stutters ==
    ASSUME NEW r \in Request, OnlyOf(r), rows' = rows, Result'[r] = Result[r],
           pc[r] = "done" <=> pc'[r] = "done"
    PROVE  UNCHANGED Contract!dvars
<1>1. Result' = [Result EXCEPT ![r] = Result[r]] /\ Told' = [Told EXCEPT ![r] = Told[r]]
  BY ResultFrame DEF Told
<1>2. Result' = Result /\ Told' = Told
  BY <1>1 DEF Result, Told
<1> QED BY <1>2 DEF Contract!dvars, OnlyOf, Told

\* A step that decides and tells nothing.
LEMMA Decides ==
    ASSUME NEW r \in Request, OnlyOf(r), pc[r] # "done", pc'[r] # "done",
           Result[r] = "undecided"
    PROVE  Contract!Decide(r, Result'[r])
<1>1. Result' = [Result EXCEPT ![r] = Result'[r]] /\ Told' = [Told EXCEPT ![r] = Told[r]]
  BY ResultFrame DEF Told
<1>2. Told' = Told
  BY <1>1 DEF Told
<1> QED BY <1>1, <1>2 DEF Contract!Decide, Contract!Undecided, OnlyOf, Told

\* A step that makes an error of what was decided.
LEMMA Errs ==
    ASSUME NEW r \in Request, OnlyOf(r), rows' = rows, pc[r] # "done", outcome'[r] = "error"
    PROVE  Contract!Next
<1>1. Result'[r] = "error"
  BY ResultIsNext DEF Others
<1>2. Result' = [Result EXCEPT ![r] = "error"] /\ Told' = [Told EXCEPT ![r] = (pc'[r] = "done")]
  BY <1>1, ResultFrame
<1>3. ~Told[r]
  BY DEF Told
<1>4. CASE pc'[r] = "done"
  BY <1>2, <1>3, <1>4 DEF Contract!Next, Contract!FailAndTell, OnlyOf, Told
<1>5. CASE pc'[r] # "done"
  <2>1. Told' = Told
    BY <1>2, <1>3, <1>5 DEF Told
  <2> QED BY <1>2, <1>3, <2>1 DEF Contract!Next, Contract!Fail, OnlyOf, Told
<1> QED BY <1>4, <1>5

-----------------------------------------------------------------------------
\* An api function returns or throws, having read the table at one instant.
LEMMA ApiRefines ==
    ASSUME DInv, Fresh, NEW r \in Request,
           \/ Get(r) \/ PostSelect(r) \/ FailSelect(r) \/ InsertDuplicate(r)
           \/ Register(r) \/ Login(r) \/ Probe(r) \/ ApiThrows(r)
    PROVE  Fresh' /\ (Contract!Next \/ UNCHANGED Contract!dvars)
<1>1. PICK x \in Outcomes \ {"posted"}, where \in {"commit", "insert", "rollback"} :
         /\ Decide(r, x, where) /\ rows' = rows /\ call' = call
         /\ \/ Get(r) /\ where = "commit" /\ x = (IF Owns(r) THEN "doc" ELSE "nothing")
            \/ Op(r) = "post" /\ where = "commit" /\ x = "forbidden" /\ Exists(r) /\ ~Owns(r)
            \/ where = "insert" /\ x = "undecided"
            \/ where = "rollback" /\ x = "error"
            \/ Op(r) \notin DocOps /\ where = "commit" /\ x \in Others
  BY DEF Get, PostSelect, FailSelect, InsertDuplicate, Register, Login, Probe, ApiThrows,
     OnlyDecides, Outcomes, Others, DocOps, dbVars
<1>2. pc[r] \in {"run", "insert"} /\ outcome[r] = "undecided"
  BY DEF Fresh, Early, Get, PostSelect, FailSelect, InsertDuplicate, Register, Login, Probe,
     ApiThrows
<1>3. OnlyOf(r) /\ pc'[r] = where /\ outcome'[r] = x
  BY <1>1 DEF Decide, Go, OnlyOf, DInv, TypeOK
<1>4. Fresh'
  BY <1>1, <1>3, FreshFrame DEF Early
<1>5. Result[r] = "undecided"
  BY <1>2, ResultIs DEF Others
<1>6. CASE where = "commit"
  <2>1. Contract!Decide(r, Result'[r]) /\ Result'[r] = IF x \in Others THEN "other" ELSE x
    BY <1>2, <1>3, <1>5, <1>6, ResultIsNext, Decides
  <2>2. Contract!Op(r) = Op(r) /\ (Contract!Owns(r) <=> Owns(r))
    BY DEF Contract!Op, Contract!Owns, Contract!Doc, Contract!Principal, Op, Owns, Exists, Doc,
       Principal
  <2>3. CASE Get(r) /\ x = (IF Owns(r) THEN "doc" ELSE "nothing")
    <3>1. Result'[r] = (IF Contract!Owns(r) THEN "doc" ELSE "nothing") /\ Op(r) = "get"
      BY <2>1, <2>2, <2>3 DEF Others, Get
    <3>2. Contract!Get(r)
      BY <1>1, <2>1, <2>2, <3>1 DEF Contract!Get
    <3> QED BY <1>4, <3>2 DEF Contract!Next
  <2>4. CASE Op(r) = "post" /\ x = "forbidden" /\ Exists(r) /\ ~Owns(r)
    <3>1. Result'[r] = "forbidden" /\ rows[Contract!Doc(r)] # Nobody
      BY <2>1, <2>4 DEF Others, Exists, Doc, Contract!Doc
    <3>2. Contract!Forbid(r)
      BY <1>1, <2>1, <2>2, <2>4, <3>1 DEF Contract!Forbid
    <3> QED BY <1>4, <3>2 DEF Contract!Next
  <2>5. CASE Op(r) \notin DocOps /\ x \in Others
    <3>1. Contract!Other(r)
      BY <1>1, <2>1, <2>2, <2>5 DEF Contract!Other, DocOps
    <3> QED BY <1>4, <3>1 DEF Contract!Next
  <2> QED BY <1>1, <1>6, <2>3, <2>4, <2>5
<1>7. CASE where = "insert"
  <2>1. Result'[r] = "undecided"
    BY <1>1, <1>3, <1>7, ResultIsNext DEF Others
  <2> QED BY <1>1, <1>2, <1>3, <1>4, <1>5, <1>7, <2>1, Stutters
<1>8. CASE where = "rollback"
  BY <1>1, <1>2, <1>3, <1>4, <1>8, Errs
<1> QED BY <1>1, <1>4, <1>6, <1>7, <1>8

\* The steps that decide nothing.
LEMMA MoveRefines ==
    ASSUME DInv, Fresh, NEW r \in Request,
           \/ Ask(r) \/ Begin(r) \/ CommitConfirmed(r) \/ Rollback(r)
           \/ GetClient /\ r = Head(queue)
    PROVE  Fresh' /\ UNCHANGED Contract!dvars
<1>1. PICK where \in {"waiting", "begin", "run", "release"} :
         /\ pc' = [pc EXCEPT ![r] = where] /\ outcome' = outcome /\ rows' = rows /\ call' = call
         /\ where = "release" \/ pc[r] \in Early
         /\ pc[r] \in {"connect", "begin", "committed", "rollback", "waiting"}
         /\ outcome[r] = "posted" => pc[r] # "commit"
  <2>1. CASE GetClient /\ r = Head(queue)
    <3>1. pc[r] = "waiting"
      BY <2>1, HeadLeaves DEF GetClient, Go
    <3> QED BY <2>1, <3>1 DEF GetClient, Go, dbVars, Early
  <2>2. CASE Ask(r) \/ Begin(r) \/ CommitConfirmed(r) \/ Rollback(r)
    BY <2>2 DEF Ask, Begin, CommitConfirmed, Rollback, Go, dbVars, Early
  <2> QED BY <2>1, <2>2
<1>2. OnlyOf(r) /\ pc'[r] = where /\ outcome'[r] = outcome[r]
  BY <1>1 DEF OnlyOf, DInv, TypeOK
<1>3. Fresh'
  BY <1>1, <1>2, FreshFrame DEF Fresh, Early
<1>4. Result'[r] = Result[r]
  BY <1>1, <1>2, ResultIs, ResultIsNext
<1> QED BY <1>1, <1>2, <1>3, <1>4, Stutters

\* A connect or a BEGIN is refused, or the COMMIT.
LEMMA RefusalRefines ==
    ASSUME DInv, Fresh, NEW r \in Request,
           \/ BeginFails(r)
           \/ CommitFails(r)
           \/ ConnectFails /\ r = Head(queue)
    PROVE  Fresh' /\ Contract!Next
<1>1. PICK where \in {"done", "rollback"} :
         /\ pc' = [pc EXCEPT ![r] = where] /\ outcome' = [outcome EXCEPT ![r] = "error"]
         /\ rows' = rows /\ call' = call /\ pc[r] # "done"
  <2>1. CASE ConnectFails /\ r = Head(queue)
    <3>1. pc[r] = "waiting"
      BY <2>1, HeadLeaves DEF ConnectFails, EndInError, Go
    <3> QED BY <2>1, <3>1 DEF ConnectFails, EndInError, Go, dbVars
  <2>2. CASE BeginFails(r) \/ CommitFails(r)
    BY <2>2 DEF BeginFails, CommitFails, EndInError, Decide, Go, dbVars
  <2> QED BY <2>1, <2>2
<1>2. OnlyOf(r) /\ pc'[r] = where /\ outcome'[r] = "error"
  BY <1>1 DEF OnlyOf, DInv, TypeOK
<1>3. Fresh'
  BY <1>1, <1>2, FreshFrame DEF Early
<1> QED BY <1>1, <1>2, <1>3, Errs

\* An INSERT decides about errors only: a post is decided by its COMMIT.
LEMMA InsertRefines ==
    ASSUME DInv, Fresh, NEW r \in Request, Insert(r)
    PROVE  Fresh' /\ (Contract!Next \/ UNCHANGED Contract!dvars)
<1>1. PICK x \in {"posted", "error"}, where \in {"commit", "rollback"} :
         /\ pc' = [pc EXCEPT ![r] = where] /\ outcome' = [outcome EXCEPT ![r] = x]
         /\ rows' = rows /\ call' = call /\ pc[r] = "insert"
         /\ x = "posted" <=> where = "commit"
  BY DEF Insert, Decide, Go
<1>2. /\ OnlyOf(r) /\ pc'[r] = where /\ outcome'[r] = x /\ outcome[r] = "undecided"
  BY <1>1 DEF OnlyOf, DInv, TypeOK, Fresh, Early
<1>3. Fresh'
  BY <1>1, <1>2, FreshFrame DEF Early
<1>4. CASE x = "posted"
  <2>1. Result[r] = "undecided" /\ Result'[r] = "undecided"
    BY <1>1, <1>2, <1>4, ResultIs, ResultIsNext DEF Others
  <2> QED BY <1>1, <1>2, <1>3, <1>4, <2>1, Stutters
<1>5. CASE x = "error"
  BY <1>1, <1>2, <1>3, <1>5, Errs
<1> QED BY <1>4, <1>5

\* With its COMMIT a post takes place; the other functions were decided before.
LEMMA CommitRefines ==
    ASSUME DInv, Fresh, NEW r \in Request, Commit(r)
    PROVE  Fresh' /\ (Contract!Next \/ UNCHANGED Contract!dvars)
<1>1. /\ pc[r] = "commit" /\ pc' = [pc EXCEPT ![r] = "committed"] /\ outcome' = outcome
      /\ rows' = [id \in Id |-> IF r \in written /\ Doc(r) = id THEN r ELSE rows[id]]
      /\ call' = call
  BY DEF Commit, Go
<1>2. OnlyOf(r) /\ pc'[r] = "committed" /\ rows \in [Id -> Request \union {Nobody}]
  BY <1>1 DEF OnlyOf, DInv, TypeOK
<1>3. Fresh'
  BY <1>1, <1>2, FreshFrame DEF Early
<1>4. Uncommitted(r) /\ Posted(r)
  BY DEF DInv, StoreInv
<1>5. CASE outcome[r] = "posted"
  <2>1. r \in written /\ rows[Doc(r)] = Nobody /\ Op(r) = "post"
    BY <1>1, <1>4, <1>5 DEF Uncommitted, Posted
  <2>2. rows' = [rows EXCEPT ![Doc(r)] = r]
    BY <1>1, <1>2, <2>1
  <2>3. Result[r] = "undecided" /\ Result'[r] = "posted"
    BY <1>1, <1>2, <1>5, ResultIs, ResultIsNext DEF Others
  <2>4. Contract!Decide(r, "posted")
    BY <1>1, <1>2, <2>3, Decides
  <2>5. Contract!Post(r)
    BY <2>1, <2>2, <2>4 DEF Contract!Post, Contract!Op, Contract!Doc, Op, Doc
  <2> QED BY <1>3, <2>5 DEF Contract!Next
<1>6. CASE outcome[r] # "posted"
  <2>1. r \notin written
    BY <1>1, <1>4, <1>6 DEF Uncommitted
  <2>2. rows' = rows
    BY <1>1, <1>2, <2>1
  <2>3. Result'[r] = Result[r]
    BY <1>1, <1>2, <1>6, ResultIs, ResultIsNext
  <2> QED BY <1>1, <1>2, <1>3, <2>2, <2>3, Stutters
<1> QED BY <1>5, <1>6

\* The answer tells what was decided.
LEMMA ReleaseRefines ==
    ASSUME DInv, Fresh, NEW r \in Request, Release(r)
    PROVE  Fresh' /\ Contract!Next
<1>1. /\ pc[r] = "release" /\ pc' = [pc EXCEPT ![r] = "done"] /\ outcome' = outcome
      /\ rows' = rows /\ call' = call
  BY DEF Release, Go, dbVars
<1>2. OnlyOf(r) /\ pc'[r] = "done" /\ outcome[r] # "undecided"
  BY <1>1 DEF OnlyOf, DInv, TypeOK, StoreInv, AnsweredAsDecided
<1>3. Fresh'
  BY <1>1, <1>2, FreshFrame DEF Early
<1>4. Result'[r] = Result[r] /\ Result[r] # "undecided"
  BY <1>1, <1>2, ResultIs, ResultIsNext
<1>5. Result' = [Result EXCEPT ![r] = Result[r]] /\ Told' = [Told EXCEPT ![r] = TRUE]
  BY <1>2, <1>4, ResultFrame
<1>6. Result' = Result
  BY <1>5 DEF Result
<1>7. Contract!Tell(r)
  BY <1>1, <1>4, <1>5, <1>6 DEF Contract!Tell, Contract!Undecided, Told
<1> QED BY <1>3, <1>7 DEF Contract!Next

\* A crash drops the requests in flight, and no row.
LEMMA CrashRefines ==
    ASSUME DInv, Fresh, Crash
    PROVE  Fresh' /\ Contract!Next
<1> DEFINE InFlight == {r \in Request : pc[r] \notin {"connect", "done"}}
<1>1. /\ pc' = [r \in Request |-> IF r \in InFlight THEN "done" ELSE pc[r]]
      /\ outcome' = [r \in Request |-> IF r \in InFlight THEN "lost" ELSE outcome[r]]
      /\ rows' = rows /\ call' = call
  BY DEF Crash
<1>2. Fresh'
  BY <1>1 DEF Fresh, Early
<1>3. ASSUME NEW r \in Request
      PROVE  /\ Result'[r] = IF r \in InFlight THEN "lost" ELSE Result[r]
             /\ Told'[r] = (r \in InFlight \/ Told[r])
  BY <1>1, ResultIs, ResultIsNext DEF Told, Others
<1>4. Result' = [r \in Request |-> IF r \in InFlight THEN "lost" ELSE Result[r]]
  <2>1. Result' = [r \in Request |-> Result'[r]]
    BY DEF Result
  <2> QED BY <1>3, <2>1
<1>5. Told' = [r \in Request |-> r \in InFlight \/ Told[r]]
  <2>1. Told' = [r \in Request |-> Told'[r]]
    BY DEF Told
  <2> QED BY <1>3, <2>1
<1>6. PICK S \in SUBSET Request : S = InFlight
  OBVIOUS
<1>7. \A r \in S : ~Told[r]
  BY <1>6 DEF Told
<1>8. Contract!Drop(S)
  BY <1>1, <1>4, <1>5, <1>6, <1>7 DEF Contract!Drop, Told
<1> QED BY <1>2, <1>8 DEF Contract!Next

LEMMA StoreRefines ==
    DInv /\ Fresh /\ [Next]_vars => Fresh' /\ [Contract!Next]_(Contract!dvars)
<1> SUFFICES ASSUME DInv, Fresh, [Next]_vars
             PROVE  Fresh' /\ (Contract!Next \/ UNCHANGED Contract!dvars)
  OBVIOUS
<1>1. ASSUME NEW r \in Request, Ask(r) \/ Handle(r)
      PROVE  Fresh' /\ (Contract!Next \/ UNCHANGED Contract!dvars)
  BY <1>1, ApiRefines, MoveRefines, RefusalRefines, InsertRefines, CommitRefines, ReleaseRefines
     DEF Handle, Serve
<1>2. CASE GetClient \/ ConnectFails
  <2>1. queue # <<>> /\ queue \in Seq(Request)
    BY <1>2 DEF GetClient, ConnectFails, DInv, TypeOK
  <2>2. PICK r \in Request : r = Head(queue)
    BY <2>1
  <2> QED BY <1>2, <2>2, MoveRefines, RefusalRefines
<1>3. CASE Crash
  BY <1>3, CrashRefines
<1>4. CASE UNCHANGED vars
  <2>1. call' = call /\ pc' = pc /\ rows' = rows /\ outcome' = outcome
    BY <1>4 DEF vars, dbVars
  <2> QED BY <2>1 DEF Fresh, Contract!dvars, Result
<1> QED BY <1>1, <1>2, <1>3, <1>4 DEF Next

\* However requests interleave and whatever fails or crashes, users see documents
\* that are stored by their COMMIT, and read and refused at one instant
\* (docstore/logic.ts:17-37 inside decorate.ts:24-36).
THEOREM ImplementsContract == Spec => ContractSpec
<1>1. Init => Contract!Init
  <2> SUFFICES ASSUME Init PROVE Contract!Init
    OBVIOUS
  <2>1. Result = [r \in Request |-> "undecided"] /\ Told = [r \in Request |-> FALSE]
    <3>1. \A r \in Request : Result[r] = "undecided" /\ Told[r] = FALSE
      BY ResultIs DEF Init, Told, Others
    <3> QED BY <3>1 DEF Result, Told
  <2> QED BY <2>1 DEF Init, Calls, Contract!Init, Contract!Undecided, Told
<1>2. Init => Fresh
  BY DEF Init, Fresh
<1>3. QED
  BY <1>1, <1>2, Inductive, StoreRefines, PTL DEF Spec, ContractSpec, Contract!Spec
=============================================================================
