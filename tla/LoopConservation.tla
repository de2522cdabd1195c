--------------------------- MODULE LoopConservation ---------------------------
(***************************************************************************)
(* What the loop of Iteration does with the elements that enter it.        *)
(***************************************************************************)
EXTENDS Iteration, SequencesExt

\* what a replica of Iterate and of the body have, from the input to the output
Held(r) ==
    FlattenSeq(input[r]) \o input_stash[r] \o body_channel[r] \o <<reading[r]>>
        \o feedback[r] \o feedback_content[r] \o content[r] \o output[r]

(* Every element is at every moment in exactly one place of the loop, which*)
(* hands it from the stash to the body, the feedback queue and the content *)
(* of the next iteration.  When all has terminated every element has left  *)
(* it, and the output of each replica has one FlushAndRestart per run of   *)
(* the loop and ends with Terminate.  The counters never underflow.        *)
LoopConserves ==
    /\ TypeOK
    /\ \A k \in 1 .. Rounds, r \in Replica : \A id \in Range(job.input[k, r]) :
          LET copies == [q \in Replica |-> SelectSeq(Held(q), LAMBDA el : el.id = id)]
          IN  \E q \in Replica : /\ Len(copies[q]) = 1
                                 /\ \A p \in Replica \ {q} : copies[p] = <<>>
    /\ Terminated => \A r \in Replica :
          /\ Held(r) = <<None>> \o output[r]
          /\ Last(output[r]) = Terminate
          /\ Len(SelectSeq(output[r], LAMBDA el : el.kind = "FlushAndRestart")) = Rounds
===============================================================================
