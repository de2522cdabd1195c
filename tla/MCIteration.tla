----------------------------- MODULE MCIteration -----------------------------
(***************************************************************************)
(* Instances of Iteration: the placement of the replicas on hosts and the  *)
(* elements that enter the loop.                                           *)
(***************************************************************************)
EXTENDS LoopConservation

\* two replicas share a host (its barrier), one is alone on another
HostOfTwoOne == (1 :> "a") @@ (2 :> "a") @@ (3 :> "b")
\* two replicas on two hosts
HostOfOneOne == (1 :> "a") @@ (2 :> "b")
\* two replicas on one host
HostOfTwo == (1 :> "a") @@ (2 :> "a")

\* a loop that no element enters, of three replicas
NoItem == [kr \in {1} \X {1, 2, 3} |-> <<>>]
\* one element in each of two rounds
ItemPerRound == [kr \in {1, 2} \X {1, 2} |->
                    IF kr[1] = kr[2] THEN <<kr[1]>> ELSE <<>>]
\* one element, at the first of two replicas
ItemFirst == [kr \in {1} \X {1, 2} |-> IF kr[2] = 1 THEN <<1>> ELSE <<>>]
\* one element at each of two replicas
ItemPerReplica == [kr \in {1} \X {1, 2} |-> <<kr[2]>>]

Loop(hosts, items, rounds, branch) ==
    [hostOf |-> hosts, input |-> items, rounds |-> rounds, sideBranch |-> branch]

PairJobs == {Loop(HostOfOneOne, ItemPerRound, 2, FALSE),
             Loop(HostOfTwo, ItemFirst, 1, TRUE)}
AllJobs == PairJobs \cup {Loop(HostOfTwoOne, NoItem, 1, FALSE)}
SideJob == {Loop(HostOfOneOne, ItemPerReplica, 1, TRUE)}
=============================================================================
