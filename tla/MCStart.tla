------------------------------ MODULE MCStart ------------------------------
(* Start with two previous replicas for TLC. *)
EXTENDS Start
=============================================================================
