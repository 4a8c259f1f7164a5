-------------------------- MODULE DocStoreContract --------------------------
(***************************************************************************)
(* What the example document store promises its users, without clients,    *)
(* transactions or queries: a document is stored by its first post, once   *)
(* and for all; a get or a refusal tells what was stored at one instant;   *)
(* a request that ends in an error, or is never answered, changes nothing  *)
(* unless it is a post.  A result is decided before it is told, and until  *)
(* then it may still turn into an error.                                   *)
(***************************************************************************)
EXTENDS Naturals

CONSTANTS Request,  \* the requests ever made
          Id,       \* document ids
          User,     \* user names
          Ops,      \* the api functions that are called
          Nobody    \* no request: there is no such document

VARIABLES call,    \* call[r]: the api function, user and document id of r
          rows,    \* rows[id]: the post whose document is stored under id
          result,  \* what has been decided for each request
          told     \* whether the request has been answered (or dropped)

dvars == <<call, rows, result, told>>

Undecided == "undecided"

Op(r)  == call[r].op
Doc(r) == call[r].id
Principal(r) == call[r].user

Init ==
    /\ call \in [Request -> [op : Ops, user : User, id : Id]]
    /\ rows = [id \in Id |-> Nobody]
    /\ result = [r \in Request |-> Undecided]
    /\ told = [r \in Request |-> FALSE]

Owns(r) == rows[Doc(r)] # Nobody /\ Principal(rows[Doc(r)]) = Principal(r)

Decide(r, x) ==
    /\ result[r] = Undecided
    /\ result' = [result EXCEPT ![r] = x]
    /\ UNCHANGED <<call, told>>

Get(r) ==
    /\ Op(r) = "get"
    /\ Decide(r, IF Owns(r) THEN "doc" ELSE "nothing")
    /\ UNCHANGED rows

Forbid(r) ==
    /\ Op(r) = "post"
    /\ rows[Doc(r)] # Nobody /\ ~Owns(r)
    /\ Decide(r, "forbidden")
    /\ UNCHANGED rows

Post(r) ==
    /\ Op(r) = "post"
    /\ rows[Doc(r)] = Nobody
    /\ rows' = [rows EXCEPT ![Doc(r)] = r]
    /\ Decide(r, "posted")

\* The requests that are not about documents.
Other(r) ==
    /\ Op(r) \notin {"get", "post", "storeDocThenFail"}
    /\ Decide(r, "other")
    /\ UNCHANGED rows

\* Until it is told, any result may become an error.
Fail(r) ==
    /\ ~told[r]
    /\ result' = [result EXCEPT ![r] = "error"]
    /\ UNCHANGED <<call, rows, told>>

FailAndTell(r) ==
    /\ ~told[r]
    /\ result' = [result EXCEPT ![r] = "error"]
    /\ told' = [told EXCEPT ![r] = TRUE]
    /\ UNCHANGED <<call, rows>>

Tell(r) ==
    /\ result[r] # Undecided
    /\ told' = [told EXCEPT ![r] = TRUE]
    /\ UNCHANGED <<call, rows, result>>

\* The server dies: some requests are never answered.
Drop(S) ==
    /\ \A r \in S : ~told[r]
    /\ result' = [r \in Request |-> IF r \in S THEN "lost" ELSE result[r]]
    /\ told' = [r \in Request |-> r \in S \/ told[r]]
    /\ UNCHANGED <<call, rows>>

Next ==
    \/ \E r \in Request :
          \/ Get(r) \/ Forbid(r) \/ Post(r) \/ Other(r)
          \/ Fail(r) \/ FailAndTell(r) \/ Tell(r)
    \/ \E S \in SUBSET Request : Drop(S)

Spec == Init /\ [][Next]_dvars
=============================================================================
