--------------------------- MODULE MCMultiplexer ---------------------------
(* Instances of Multiplexer for TLC. *)
EXTENDS MultiplexerLink
CONSTANTS c1, c2, u1, u2, d1

\* two hosts that connect in any order, and two replicas of one host that
\* share its connection
TwoJobs == {[hostOf |-> (u1 :> c1) @@ (u2 :> c2), batches |-> 1, mayCrash |-> {}],
            [hostOf |-> (u1 :> c1) @@ (u2 :> c1), batches |-> 2, mayCrash |-> {d1}]}
=============================================================================
