-------------------------- MODULE MCAsyncIterator --------------------------
(* TLC instance of AsyncIterator: two distinct chunks, up to four pushes   *)
(* and five calls of next(), so that either side can run ahead of the      *)
(* other by more than one and calls come before and after each ending.     *)
EXTENDS AsyncIterator, TLC

\* The handler never looks at a value.
ValueSymmetry == Permutations(Value)
=============================================================================
