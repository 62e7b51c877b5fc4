----------------------------- MODULE MCFrontend -----------------------------
(* Two browsers whose users may not wait for an answer, and the ids they   *)
(* need when they do: a page starts one session.                           *)
EXTENDS Frontend

CONSTANTS b1, b2, i1, i2

MCNavegadores == {b1, b2}
MCIds == {i1, i2}

=============================================================================
