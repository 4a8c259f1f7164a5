---------------------------- MODULE CallContract ----------------------------
(***************************************************************************)
(* What a bidi client promises to who calls one of its functions, without  *)
(* requests, responses, lenses or headers: the call returns what the       *)
(* function of that name returned on the server, which ran for it once, or *)
(* it throws; what it throws says nothing of whether the function ran.     *)
(* Where no header tells and no status is looked at (Blind), a failure may *)
(* pass for an empty result.                                               *)
(***************************************************************************)
CONSTANTS Request,  \* the calls
          Place,    \* the functions of the client
          Blind,    \* those whose response lens takes an empty body for undefined
          Result    \* what api functions return; "nothing" is undefined

VARIABLES asked,    \* the function that is called
          ran,      \* the functions run on the server for the call
          result,   \* what it returned there
          outcome   \* what the call came to here

cvars == <<asked, ran, result, outcome>>

Pending == {"calling", "sent"}

Sent == {"sent", "threw"}

Init ==
    /\ asked \in [Request -> Place]
    /\ ran = [r \in Request |-> {}]
    /\ result = [r \in Request |-> "none"]
    /\ outcome = [r \in Request |-> "calling"]

Ends(r, o) ==
    /\ outcome[r] \in Pending
    /\ outcome' = [outcome EXCEPT ![r] = o]
    /\ UNCHANGED <<asked, ran, result>>

Send(r) == outcome[r] = "calling" /\ Ends(r, "sent")

\* Nothing is sent, so nothing will run.
Fail(r) == outcome[r] = "calling" /\ Ends(r, "unsent")

\* The function runs and returns, or fails ("none"), maybe after all hope was lost.
Run(r) ==
    /\ outcome[r] \in Sent /\ ran[r] = {}
    /\ ran' = [ran EXCEPT ![r] = {asked[r]}]
    /\ \E v \in Result \union {"none"} : result' = [result EXCEPT ![r] = v]
    /\ UNCHANGED <<asked, outcome>>

\* An unwritable result cannot be told.
Return(r) ==
    /\ outcome[r] = "sent" /\ ran[r] # {} /\ result[r] \notin {"none", "unwritable"}
    /\ Ends(r, result[r])

Throw(r) == outcome[r] = "sent" /\ Ends(r, "threw")

\* The exception.
FailUnseen(r) ==
    /\ outcome[r] = "sent" /\ asked[r] \in Blind
    /\ ran[r] # {} => result[r] \in {"none", "nothing", "unwritable"}
    /\ Ends(r, "nothing")

Next ==
    \E r \in Request : Send(r) \/ Fail(r) \/ Run(r) \/ Return(r) \/ Throw(r) \/ FailUnseen(r)

Spec == Init /\ [][Next]_cvars
=============================================================================
