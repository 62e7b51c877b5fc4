----------------------------- MODULE MCBackend -----------------------------
(***************************************************************************)
(* Two players on a board with two directions and a cell between two       *)
(* others.  Five commands are enough for one player to put the same cell   *)
(* twice in a word after the other withdrew it.                            *)
(***************************************************************************)
EXTENDS Backend, TLC

Symmetry == Permutations(Players)
=============================================================================
