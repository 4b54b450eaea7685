------------------------------ MODULE Iteration -------------------------------
(***************************************************************************)
(* Loops of a known number of turns, as functions.  The library's folds    *)
(* take the step as an operator, and nothing can be proved of those; here  *)
(* the step of turn n is the function F[n], on a named set of states.      *)
(***************************************************************************)
EXTENDS Integers, Sequences

\* The states after 0, 1, ..., N turns, from x0.
Turns(N, x0, F) ==
    LET after[n \in 0..N] == IF n = 0 THEN x0 ELSE F[n][after[n - 1]]
    IN  after

\* The state after the last.
Iterate(N, x0, F) == Turns(N, x0, F)[N]

\* The loop over the elements of a list; G[a] is the step for the element a.
FoldList(w, x0, G) == Iterate(Len(w), x0, [n \in 1..Len(w) |-> G[w[n]]])
=============================================================================
