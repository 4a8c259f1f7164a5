----------------------------- MODULE Lifecycles -----------------------------
(***************************************************************************)
(* A Router is made with one RequestLifecycle (router.ts:66-72): either one *)
(* of which nothing is known, each of whose calls may return, reject or     *)
(* throw, or DebugRequestLifecycle with its shared map.  The first leaves   *)
(* the map of the second alone.                                             *)
(***************************************************************************)
EXTENDS DebugLifecycle

VARIABLE lifecycle   \* the one the router was constructed with

allVars == <<vars, lifecycle>>

\* No request has an id that the unknown lifecycle made.
LifecyclesInit ==
    \/ lifecycle = "debug" /\ Init
    \/ /\ lifecycle = "any" /\ RouterInit
       /\ carries = [r \in Request |-> Foreign]
       /\ mismatches = [id \in {} |-> <<>>]
       /\ reported = [r \in Request |-> <<>>]

AnyStep(r) == lifecycle = "any" /\ RouterStep(r) /\ UNCHANGED debugVars

DebugStep(r) == lifecycle = "debug" /\ Step(r)

HandleStep(r) == (AnyStep(r) \/ DebugStep(r)) /\ UNCHANGED lifecycle

LifecyclesNext == \E r \in Request : HandleStep(r)

\* Lenses, api functions and lifecycle calls all come back, one way or another.
LifecyclesSpec ==
    /\ LifecyclesInit /\ [][LifecyclesNext]_allVars
    /\ \A r \in Request : WF_allVars(HandleStep(r))
=============================================================================
