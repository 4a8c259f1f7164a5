------------------------------ MODULE DocStore ------------------------------
(***************************************************************************)
(* examples/http4t-bidi-eg/server: the example document store.  Each       *)
(* request takes a client from the Postgres pool, and the api function it  *)
(* was routed to runs between BEGIN and COMMIT or ROLLBACK on that client  *)
(* (docStoreApi.ts, decorate.ts, wrapTransactions.ts).  Requests interleave*)
(* at every await.  The pool (pg-pool: a bounded number of clients, a FIFO *)
(* of waiting connects without a timeout) and Postgres (READ COMMITTED,    *)
(* the unique index on store.id) are external.  Any query may be refused;  *)
(* a refused COMMIT may have been executed.  Losing the connection of a    *)
(* client in use is an 'error' event nobody listens to, which ends the     *)
(* process: Crash.                                                         *)
(***************************************************************************)
EXTENDS Naturals, Sequences, FiniteSets

CONSTANTS Request,     \* the requests ever made
          Id,          \* document ids
          User,        \* user names
          Ops,         \* the api functions that are called
          MaxClients,  \* size of the pool
          MaxCrashes,  \* bound on the crashes of the server
          Nobody       \* no request

ASSUME PoolAssumption == MaxClients \in Nat \ {0} /\ MaxCrashes \in Nat
ASSUME NobodyAssumption == Nobody \notin Request

VARIABLES call,     \* call[r]: the api function, user and document id of r
          pc,       \* where the handling of each request is
          queue,    \* connects waiting for a client
          holders,  \* requests with a client they have not released
          rows,     \* the committed table: rows[id] is the request that stored it
          written,  \* requests with an INSERT not yet committed
          outcome,  \* what the api function returned, or "error"
          answer,   \* what the client was answered
          doubtful, \* history: requests whose COMMIT was refused
          unbegun,  \* history: requests whose BEGIN was refused by this process
          creds,    \* InMemoryCredentialRepository: who registered each name
          crashes   \* crashes so far

poolVars == <<queue, holders>>
dbVars   == <<rows, written>>
history  == <<doubtful, unbegun>>
vars == <<call, pc, poolVars, dbVars, history, outcome, answer, creds, crashes>>

DocOps   == {"get", "post", "storeDocThenFail"}
AllOps   == DocOps \union {"login", "register", "probe"}
Calls    == [op : Ops, user : User, id : Id]

Op(r)  == call[r].op
Doc(r) == call[r].id
Principal(r) == call[r].user

\* The points at which a request should have a client.
Holding == {"begin", "run", "insert", "commit", "committed", "rollback", "release"}

Init ==
    /\ call \in [Request -> Calls]
    /\ pc = [r \in Request |-> "connect"]
    /\ queue = <<>>
    /\ holders = {}
    /\ rows = [id \in Id |-> Nobody]
    /\ written = {}
    /\ outcome = [r \in Request |-> "undecided"]
    /\ answer = [r \in Request |-> "none"]
    /\ doubtful = {}
    /\ unbegun = {}
    /\ creds = [u \in User |-> Nobody]
    /\ crashes = 0

-----------------------------------------------------------------------------
Go(r, where) == pc' = [pc EXCEPT ![r] = where]

Decide(r, x, where) ==
    /\ outcome' = [outcome EXCEPT ![r] = x]
    /\ Go(r, where)

\* Nothing but outcome and pc changes.
OnlyDecides(r, x, where) ==
    /\ Decide(r, x, where)
    /\ UNCHANGED <<call, poolVars, dbVars, history, answer, creds, crashes>>

\* The request is over without its api function having returned.
EndInError(r) ==
    /\ Go(r, "done")
    /\ outcome' = [outcome EXCEPT ![r] = "error"]
    /\ answer' = [answer EXCEPT ![r] = "error"]

\* getTransaction: pool.connect().
Ask(r) ==
    /\ pc[r] = "connect"
    /\ Go(r, "waiting")
    /\ queue' = Append(queue, r)
    /\ UNCHANGED <<call, holders, dbVars, history, outcome, answer, creds, crashes>>

\* Mutation of GetClient: the pool is thought to have room for one more.
GetClientTooMany ==
    /\ queue # <<>>
    /\ Cardinality(holders) <= MaxClients
    /\ Go(Head(queue), "begin")
    /\ queue' = Tail(queue)
    /\ holders' = holders \union {Head(queue)}
    /\ UNCHANGED <<call, dbVars, history, outcome, answer, creds, crashes>>

\* The pool has an idle client, or room for a new one, for the longest waiting.
GetClient ==
    /\ queue # <<>>
    /\ Cardinality(holders) < MaxClients
    /\ Go(Head(queue), "begin")
    /\ queue' = Tail(queue)
    /\ holders' = holders \union {Head(queue)}
    /\ UNCHANGED <<call, dbVars, history, outcome, answer, creds, crashes>>

\* A new client cannot connect: the api builder rejects.
ConnectFails ==
    /\ queue # <<>>
    /\ Cardinality(holders) < MaxClients
    /\ EndInError(Head(queue))
    /\ queue' = Tail(queue)
    /\ UNCHANGED <<call, holders, dbVars, history, creds, crashes>>

\* beforeExecution: BEGIN
Begin(r) ==
    /\ pc[r] = "begin"
    /\ Go(r, "run")
    /\ UNCHANGED <<call, poolVars, dbVars, history, outcome, answer, creds, crashes>>

\* beforeExecution is awaited outside of the try: no ROLLBACK, no release.
BeginFails(r) ==
    /\ pc[r] = "begin"
    /\ EndInError(r)
    /\ unbegun' = unbegun \union {r}
    /\ UNCHANGED <<call, poolVars, dbVars, doubtful, creds, crashes>>

-----------------------------------------------------------------------------
(* The api functions.                                                      *)

Exists(r) == rows[Doc(r)] # Nobody

\* Mutation of Owns: the owner's name is not compared.
OwnsAnything(r) == Exists(r)

Owns(r) == Exists(r) /\ Principal(rows[Doc(r)]) = Principal(r)

\* docStoreLogic.get: one SELECT, then only the owner is shown the document.
Get(r) ==
    /\ pc[r] = "run" /\ Op(r) = "get"
    /\ OnlyDecides(r, IF Owns(r) THEN "doc" ELSE "nothing", "commit")

\* docStoreLogic.post begins with a SELECT: who owns the id already?
PostSelect(r) ==
    /\ pc[r] = "run" /\ Op(r) = "post"
    /\ \/ /\ Exists(r) /\ ~Owns(r)
          /\ OnlyDecides(r, "forbidden", "commit")
       \/ /\ ~Exists(r) \/ Owns(r)
          /\ OnlyDecides(r, "undecided", "insert")

\* storeDocThenFail does not look first.
FailSelect(r) ==
    /\ pc[r] = "run" /\ Op(r) = "storeDocThenFail"
    /\ OnlyDecides(r, "undecided", "insert")

\* Mutation of Writers: the unique index ignores transactions in progress.
NoWriters(id) == {}

\* Transactions in progress that have inserted id: an INSERT of it waits.
Writers(id) == {q \in written : Doc(q) = id}

\* store.save: the INSERT goes through; storeDocThenFail then throws.
Insert(r) ==
    /\ pc[r] = "insert"
    /\ ~Exists(r) /\ Writers(Doc(r)) = {}
    /\ written' = written \union {r}
    /\ \/ Op(r) = "post" /\ Decide(r, "posted", "commit")
       \/ Op(r) # "post" /\ Decide(r, "error", "rollback")
    /\ UNCHANGED <<call, poolVars, rows, history, answer, creds, crashes>>

\* ... or violates the unique index.
InsertDuplicate(r) ==
    /\ pc[r] = "insert"
    /\ Exists(r) /\ Writers(Doc(r)) = {}
    /\ OnlyDecides(r, "error", "rollback")

\* authLogic.register, InMemoryCredentialRepository.save
Register(r) ==
    /\ pc[r] = "run" /\ Op(r) = "register"
    /\ \/ /\ creds[Principal(r)] # Nobody
          /\ OnlyDecides(r, "exists", "commit")
       \/ /\ creds[Principal(r)] = Nobody
          /\ Decide(r, "registered", "commit")
          /\ creds' = [creds EXCEPT ![Principal(r)] = r]
          /\ UNCHANGED <<call, poolVars, dbVars, history, answer, crashes>>

\* authLogic.login with the right password, InMemoryCredentialRepository.check
Login(r) ==
    /\ pc[r] = "run" /\ Op(r) = "login"
    /\ OnlyDecides(r, IF creds[Principal(r)] # Nobody THEN "token" ELSE "unknown", "commit")

\* healthLogic.live and ready
Probe(r) ==
    /\ pc[r] = "run" /\ Op(r) = "probe"
    /\ OnlyDecides(r, "alive", "commit")

\* A query is refused, or signing the token fails: onException follows.
ApiThrows(r) ==
    /\ \/ pc[r] = "insert"
       \/ pc[r] = "run" /\ Op(r) \in {"get", "post", "login"}
    /\ OnlyDecides(r, "error", "rollback")

-----------------------------------------------------------------------------
\* Mutation of Commit: afterSuccess is forgotten.
CommitForgotten(r) ==
    /\ pc[r] = "commit"
    /\ Go(r, "committed")
    /\ written' = written \ {r}
    /\ UNCHANGED <<call, poolVars, rows, history, outcome, answer, creds, crashes>>

\* afterSuccess: Postgres executes COMMIT.
Commit(r) ==
    /\ pc[r] = "commit"
    /\ Go(r, "committed")
    /\ rows' = [id \in Id |-> IF r \in written /\ Doc(r) = id THEN r ELSE rows[id]]
    /\ written' = written \ {r}
    /\ UNCHANGED <<call, poolVars, history, outcome, answer, creds, crashes>>

\* Its confirmation arrives.
CommitConfirmed(r) ==
    /\ pc[r] = "committed"
    /\ Go(r, "release")
    /\ UNCHANGED <<call, poolVars, dbVars, history, outcome, answer, creds, crashes>>

\* COMMIT is refused, before or after it was executed; it is inside the try, so
\* onException follows.
CommitFails(r) ==
    /\ pc[r] \in {"commit", "committed"}
    /\ Decide(r, "error", "rollback")
    /\ doubtful' = doubtful \union {r}
    /\ UNCHANGED <<call, poolVars, dbVars, unbegun, answer, creds, crashes>>

\* Mutation of Rollback: COMMIT for ROLLBACK.
RollbackCommits(r) ==
    /\ pc[r] = "rollback"
    /\ Go(r, "release")
    /\ rows' = [id \in Id |-> IF r \in written /\ Doc(r) = id THEN r ELSE rows[id]]
    /\ written' = written \ {r}
    /\ UNCHANGED <<call, poolVars, history, outcome, answer, creds, crashes>>

\* Mutation of Rollback: the transaction stays open.
RollbackSkipped(r) ==
    /\ pc[r] = "rollback"
    /\ Go(r, "release")
    /\ UNCHANGED <<call, poolVars, dbVars, history, outcome, answer, creds, crashes>>

\* onException: ROLLBACK.  If it is refused, another error is thrown in place
\* of the first one; the release follows in either case.
Rollback(r) ==
    /\ pc[r] = "rollback"
    /\ Go(r, "release")
    /\ written' = written \ {r}
    /\ UNCHANGED <<call, poolVars, rows, history, outcome, answer, creds, crashes>>

\* Mutation of Release: a client whose transaction failed is not given back.
ReleaseOnSuccess(r) ==
    /\ pc[r] = "release"
    /\ Go(r, "done")
    /\ answer' = [answer EXCEPT ![r] = outcome[r]]
    /\ holders' = IF outcome[r] = "error" THEN holders ELSE holders \ {r}
    /\ UNCHANGED <<call, queue, dbVars, history, outcome, creds, crashes>>

\* finally: release; the result is returned or the error thrown on, and the
\* router answers.
Release(r) ==
    /\ pc[r] = "release"
    /\ Go(r, "done")
    /\ answer' = [answer EXCEPT ![r] = outcome[r]]
    /\ holders' = holders \ {r}
    /\ UNCHANGED <<call, queue, dbVars, history, outcome, creds, crashes>>

\* The process dies and is started again: Postgres aborts what was in progress,
\* who was waiting gets no answer, the registered names are forgotten.
Crash ==
    /\ crashes < MaxCrashes
    /\ crashes' = crashes + 1
    /\ LET InFlight == {r \in Request : pc[r] \notin {"connect", "done"}} IN
          /\ pc' = [r \in Request |-> IF r \in InFlight THEN "done" ELSE pc[r]]
          /\ outcome' = [r \in Request |-> IF r \in InFlight THEN "lost" ELSE outcome[r]]
          /\ answer' = [r \in Request |-> IF r \in InFlight THEN "lost" ELSE answer[r]]
    /\ queue' = <<>>
    /\ holders' = {}
    /\ unbegun' = {}
    /\ written' = {}
    /\ creds' = [u \in User |-> Nobody]
    /\ UNCHANGED <<call, rows, doubtful>>

-----------------------------------------------------------------------------
\* What the server and the database do for a request once it has a client: its
\* statements come back, but an INSERT that waits for another transaction.
Serve(r) ==
    \/ Begin(r) \/ BeginFails(r)
    \/ Get(r) \/ PostSelect(r) \/ FailSelect(r) \/ Insert(r) \/ InsertDuplicate(r)
    \/ Register(r) \/ Login(r) \/ Probe(r)
    \/ Commit(r) \/ CommitConfirmed(r) \/ CommitFails(r) \/ Rollback(r) \/ Release(r)

Handle(r) == Serve(r) \/ ApiThrows(r)

Next ==
    \/ \E r \in Request : Ask(r) \/ Handle(r)
    \/ GetClient \/ ConnectFails
    \/ Crash

Spec == Init /\ [][Next]_vars

\* Statements come back, and the pool hands out the clients it has.  Nothing is
\* assumed of an INSERT that waits: no lock timeout is set, and it need not fail.
FairSpec ==
    /\ Spec
    /\ \A r \in Request : WF_vars(Serve(r))
    /\ WF_vars(GetClient \/ ConnectFails)

-----------------------------------------------------------------------------
Outcomes == {"undecided", "doc", "nothing", "forbidden", "posted", "error", "lost",
             "exists", "registered", "token", "unknown", "alive"}

\* Every variable has its type; the pool never has more clients out than it may.
TypeOK ==
    /\ call \in [Request -> Calls]
    /\ pc \in [Request -> Holding \union {"connect", "waiting", "done"}]
    /\ queue \in Seq(Request)
    /\ holders \subseteq Request
    /\ rows \in [Id -> Request \union {Nobody}]
    /\ written \subseteq Request
    /\ outcome \in [Request -> Outcomes]
    /\ answer \in [Request -> (Outcomes \ {"undecided"}) \union {"none"}]
    /\ doubtful \subseteq Request
    /\ unbegun \subseteq Request
    /\ creds \in [User -> Request \union {Nobody}]
    /\ crashes \in 0..MaxCrashes
    /\ Cardinality(holders) <= MaxClients

\* A post that was acknowledged is what is stored, whatever other posts of the
\* same id, failures and crashes came with it and after it.
PostedIsStored ==
    \A r \in Request : answer[r] = "posted" => rows[Doc(r)] = r

\* The test 'rolls back transactions on error' (docstore.test.ts:52) for every
\* way of failing: what is stored was stored by a post, and by one that is
\* answered with an error only if it was its COMMIT that was refused.
RollsBackOnError ==
    \A id \in Id : rows[id] # Nobody =>
        /\ Op(rows[id]) = "post" /\ Doc(rows[id]) = id
        /\ answer[rows[id]] \in {"none", "posted", "lost"} \/ rows[id] \in doubtful

\* A client that is out belongs to a request being handled, or to one whose
\* BEGIN was refused: after anything else that goes wrong it is released, and
\* none is used by a request that has released it (decorate.ts:24-36).
ClientsComeBack ==
    /\ {r \in Request : pc[r] \in Holding} \subseteq holders
    /\ \A r \in holders : pc[r] \in Holding \/ r \in unbegun

\* No request waits forever, unless so many BEGINs were refused that the pool
\* has no client left (it waits without a timeout).
AnsweredUnlessDrained ==
    \A r \in Request :
        pc[r] = "waiting" ~> (pc[r] = "done" \/ Cardinality(unbegun) >= MaxClients)

-----------------------------------------------------------------------------
\* A post is decided when it is committed, the rest when the api function
\* returns.
Result ==
    [r \in Request |->
        CASE pc[r] = "commit" /\ outcome[r] = "posted" -> "undecided"
          [] outcome[r] \in {"exists", "registered", "token", "unknown", "alive"} -> "other"
          [] OTHER -> outcome[r]]

Contract == INSTANCE DocStoreContract
                WITH result <- Result, told <- [r \in Request |-> pc[r] = "done"]

\* Statements of concurrent requests interleave, yet users see documents that
\* are stored, read and refused atomically.
ContractSpec == Contract!Spec
=============================================================================
