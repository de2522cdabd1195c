------------------------------- MODULE MCEnd -------------------------------
(* Instances of End for TLC. *)
EXTENDS End
CONSTANTS u1, u2

Endpoints == {<<1, 0>>, <<1, 1>>, <<2, 0>>, <<3, 0>>}

\* one replica before the two replicas of a block
Plain(strategy, mode) ==
    [up |-> {u1}, dest |-> {<<1, 0>>, <<1, 1>>}, ignored |-> {}, feedback |-> 0,
     next_strategy |-> strategy, batch_mode |-> mode, keys |-> {0, 1}, rounds |-> 1, maxSent |-> 2]

\* two replicas before the two replicas of a block
GroupBy == [Plain("GroupBy", "Single") EXCEPT !.up = {u1, u2}, !.maxSent = 1]

\* two next blocks, as after a split
Split == [Plain("GroupBy", "Fixed") EXCEPT !.dest = {<<1, 0>>, <<1, 1>>, <<2, 0>>}, !.rounds = 2, !.maxSent = 1]

\* the end of a loop body: block 1 in the loop, the start of the loop as
\* block 2, and block 3, which it must ignore
Loop(mode) ==
    [Plain("OnlyOne", mode) EXCEPT !.dest = {<<1, 0>>, <<2, 0>>, <<3, 0>>}, !.ignored = {3},
                                   !.feedback = 2, !.keys = {0}, !.maxSent = 1]

AllJobs ==
    {Plain("GroupBy", mode) : mode \in {"Fixed", "Adaptive", "Timed", "Single"}}
        \cup {Plain("All", "Adaptive"), Plain("Random", "Adaptive"), GroupBy, Split}
        \cup {Loop(mode) : mode \in {"Timed", "Adaptive"}}
=============================================================================
