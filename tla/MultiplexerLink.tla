-------------------------- MODULE MultiplexerLink --------------------------
(***************************************************************************)
(* What the multiplexers and demultiplexers of a connection implement.     *)
(***************************************************************************)
EXTENDS Multiplexer

\* What was sent from u to d and not yet read.
InFlight(u, d) ==
    LET m == SelectSeq(channel[d] \o stream[ClientOf(u)] \o mux[ClientOf(u)],
                       LAMBDA x : x.sender = u /\ x.dest = d)
    IN  [i \in DOMAIN m |-> m[i].el]

\* The shared connection is invisible: between each pair of replicas the
\* elements are a reliable queue, like those of a local channel.
links == INSTANCE Link WITH From <- Sender, To <- Endpoint,
                            queue <- [u \in Sender |-> [d \in Endpoint |-> InFlight(u, d)]]
RefinesLink == links!Spec
=============================================================================
