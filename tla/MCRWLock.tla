------------------------------ MODULE MCRWLock ------------------------------
(***************************************************************************)
(* Five threads, each asking for the lock again and again: enough for two  *)
(* requests to queue behind a holder while a third arrives.                *)
(***************************************************************************)
EXTENDS RWLock
=============================================================================
