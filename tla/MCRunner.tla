------------------------------ MODULE MCRunner ------------------------------
(* Runner on small instances. *)
EXTENDS Runner

CONSTANT t1
=============================================================================
