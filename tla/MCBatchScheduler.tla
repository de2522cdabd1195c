-------------------------- MODULE MCBatchScheduler --------------------------
(* Instances of BatchScheduler for TLC. *)
EXTENDS BatchScheduler
=============================================================================
