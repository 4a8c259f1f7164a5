----------------------------- MODULE MCDocStore -----------------------------
(* TLC instances of DocStore: three requests, so that two race for one      *)
(* document while the third waits for a client, and a pool smaller than     *)
(* that.                                                                    *)
EXTENDS DocStore, TLC

DocSymmetry == Permutations(Request) \union Permutations(User) \union Permutations(Id)

MCDocOps == DocOps

\* The ways to need a client: with and without waiting for another transaction.
MCLoadOps == {"post", "storeDocThenFail", "register", "login", "probe"}
=============================================================================
