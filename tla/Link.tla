-------------------------------- MODULE Link --------------------------------
(***************************************************************************)
(* What a connection between two replicas promises the operators: the      *)
(* elements that one replica hands to another are read by it one after the *)
(* other, in that order, none of them lost, repeated or invented.  How     *)
(* they travel (batches, timers, bounded channels) is not visible here.    *)
(***************************************************************************)
EXTENDS Naturals, Sequences, SequencesExt

CONSTANTS
    From,      \* the replicas that send
    To,        \* the endpoints they send to
    Element    \* what they send

VARIABLE queue \* per sender and endpoint, what was sent and not yet read

Init == queue = [u \in From |-> [d \in To |-> <<>>]]

\* an element is sent
Put(old, new) == new # <<>> /\ Front(new) = old /\ Last(new) \in Element

\* a batch is read
Get(old, new) == \E n \in 1 .. Len(old) : new = SubSeq(old, n + 1, Len(old))

Next ==
    \A u \in From, d \in To :
        \/ queue'[u][d] = queue[u][d]
        \/ Put(queue[u][d], queue'[u][d])
        \/ Get(queue[u][d], queue'[u][d])

Spec == Init /\ [][Next]_queue
=============================================================================
