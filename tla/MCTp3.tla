------------------------------- MODULE MCTp3 -------------------------------
(***************************************************************************)
(* Three pairs: two requests may be compared while a third is postponed.   *)
(* A client that asks twice makes the second request with a number that    *)
(* depends on the requests it saw in between.                              *)
(***************************************************************************)
EXTENDS Tp3

R(a, b, c) == [r \in Clients |-> CASE r = 1 -> a [] r = 3 -> b [] r = 5 -> c]

MCRepartos == {R(2, 1, 1), R(0, 1, 2)}

=============================================================================
