---------------------------- MODULE MCRetainStore ----------------------------
(* TLC instance of RetainStore. *)
EXTENDS RetainStore
=============================================================================
