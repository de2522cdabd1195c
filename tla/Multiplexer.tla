---------------------------- MODULE Multiplexer ----------------------------
(***************************************************************************)
(* The connections of the replicas of a block on several hosts to the      *)
(* replicas of the next block on another host (src/src/network/sync).      *)
(* All the replicas of a host share one multiplexer, a thread that owns a  *)
(* TCP connection; on the other host bind_remotes accepts one connection   *)
(* per multiplexer and a demultiplexer thread for each of them hands the   *)
(* messages to the local channels.                                         *)
(*                                                                         *)
(* The job decides where the replicas are, how many messages each of them  *)
(* sends to each endpoint before it leaves, numbered from 1, and the       *)
(* endpoints whose worker may panic at any time.                           *)
(***************************************************************************)
EXTENDS Integers, Sequences, FiniteSets, SequencesExt

CONSTANTS
    Host,            \* the hosts that may send
    Sender,          \* the replicas on them
    Endpoint,        \* the local receivers of the demultiplexers
    Jobs,            \* the jobs that may be run
    MaxBatches,      \* bound: messages from a replica to an endpoint
    ConnectAttempts, \* CONNECT_ATTEMPTS
    MuxCapacity,     \* MUX_CHANNEL_CAPACITY
    StreamCapacity,  \* bound: messages in the buffers of a connection
    Capacity         \* CHANNEL_CAPACITY

ASSUME JobsAssumption == Jobs \subseteq [hostOf : [Sender -> Host], batches : 1 .. MaxBatches,
                                         mayCrash : SUBSET Endpoint]
ASSUME MuxBoundsAssumption == /\ ConnectAttempts \in Nat \ {0} /\ MuxCapacity \in Nat \ {0}
                              /\ StreamCapacity \in Nat \ {0} /\ Capacity \in Nat \ {0}

Element == 1 .. MaxBatches
Message(u, d, n) == [sender |-> u, dest |-> d, el |-> n]

VARIABLES
    job,
    \* the hosts that send
    sent,          \* messages sent, per replica and endpoint
    attempt,       \* the attempts of connect_remote
    connection,    \* "connecting", "connected", "failed", "shutdown"
    mux,           \* the channel to the multiplexer
    stream,        \* what is in the TCP connection
    \* the host that receives
    listener,      \* "unbound", "listening", "dropped"
    accepted,      \* the clients whose connection was accepted
    handle,        \* the topology has not dropped the DemuxHandle yet
    to_register,   \* the endpoints that have not been set up yet
    rx_senders,    \* the endpoints that were registered with the DemuxHandle
    tx_broadcast,  \* bind_remotes holds the channels to the demultiplexers
    demux_rx,      \* per demultiplexer
    senders,       \* per demultiplexer, the endpoints it knows
    demux,         \* "none", "collecting", "running", "finished"
    channel,       \* per endpoint
    received,      \* messages received, per endpoint and replica
    gone,          \* the endpoints whose receiver was dropped by a panic
    unknown        \* a demultiplexer looked up an endpoint it does not know

sending == <<sent, attempt, connection, mux>>
binding == <<listener, accepted, handle, to_register, rx_senders, tx_broadcast>>
demuxes == <<demux_rx, senders, demux>>
receiving == <<channel, received, gone>>
vars == <<job, sending, stream, binding, demuxes, receiving, unknown>>

ClientOf(u) == job.hostOf[u]
Client == {ClientOf(u) : u \in Sender}   \* one multiplexer each
Replicas(c) == {u \in Sender : ClientOf(u) = c}

Init ==
    /\ job \in Jobs
    /\ sent = [u \in Sender |-> [d \in Endpoint |-> 0]]
    /\ attempt = [c \in Host |-> 1]
    /\ connection = [c \in Host |-> "connecting"]
    /\ mux = [c \in Host |-> <<>>]
    /\ stream = [c \in Host |-> <<>>]
    /\ listener = "unbound"
    /\ accepted = {}
    /\ handle = TRUE
    /\ to_register = Endpoint
    /\ rx_senders = <<>>
    /\ tx_broadcast = TRUE
    /\ demux_rx = [c \in Host |-> <<>>]
    /\ senders = [c \in Host |-> {}]
    /\ demux = [c \in Host |-> "none"]
    /\ channel = [d \in Endpoint |-> <<>>]
    /\ received = [d \in Endpoint |-> [u \in Sender |-> 0]]
    /\ gone = {}
    /\ unknown = FALSE
-----------------------------------------------------------------------------
(* The hosts that send *)

\* NetworkSender::send, with room in the channel of the multiplexer
Send(u, d) ==
    LET c == ClientOf(u)
    IN  /\ sent[u][d] < job.batches
        /\ connection[c] # "failed" /\ Len(mux[c]) < MuxCapacity
        /\ sent' = [sent EXCEPT ![u][d] = @ + 1]
        /\ mux' = [mux EXCEPT ![c] = Append(@, Message(u, d, sent[u][d] + 1))]
        /\ UNCHANGED <<job, attempt, connection, stream, binding, demuxes, receiving, unknown>>

\* one attempt of connect_remote
Connect(c) ==
    /\ c \in Client /\ connection[c] = "connecting"
    /\ IF listener = "listening"
       THEN connection' = [connection EXCEPT ![c] = "connected"] /\ UNCHANGED attempt
       ELSE IF attempt[c] < ConnectAttempts
       THEN attempt' = [attempt EXCEPT ![c] = @ + 1] /\ UNCHANGED connection
       ELSE connection' = [connection EXCEPT ![c] = "failed"] /\ UNCHANGED attempt
    /\ UNCHANGED <<job, sent, mux, stream, binding, demuxes, receiving, unknown>>

\* remote_send of one message
MuxSendLast(c) ==
    /\ connection[c] = "connected" /\ mux[c] # <<>>
    /\ Len(stream[c]) < StreamCapacity
    /\ mux' = [mux EXCEPT ![c] = Front(@)]
    /\ stream' = [stream EXCEPT ![c] = Append(@, Last(mux[c]))]
    /\ UNCHANGED <<job, sent, attempt, connection, binding, demuxes, receiving, unknown>>
MuxSend(c) ==
    /\ connection[c] = "connected" /\ mux[c] # <<>>
    /\ Len(stream[c]) < StreamCapacity
    /\ mux' = [mux EXCEPT ![c] = Tail(@)]
    /\ stream' = [stream EXCEPT ![c] = Append(@, Head(mux[c]))]
    /\ UNCHANGED <<job, sent, attempt, connection, binding, demuxes, receiving, unknown>>

\* The senders of all the replicas are dropped: rx.recv() fails.
Left(u) == \A d \in Endpoint : sent[u][d] = job.batches
MuxFinish(c) ==
    /\ connection[c] = "connected" /\ mux[c] = <<>>
    /\ \A u \in Replicas(c) : Left(u)
    /\ connection' = [connection EXCEPT ![c] = "shutdown"]
    /\ UNCHANGED <<job, sent, attempt, mux, stream, binding, demuxes, receiving, unknown>>

ClientNext(c) == Connect(c) \/ MuxSend(c) \/ MuxFinish(c) \/ \E u \in Replicas(c), d \in Endpoint : Send(u, d)
-----------------------------------------------------------------------------
(* bind_remotes and the setup of the host that receives *)

\* register_demux, when the channel of the endpoint is registered
Register(d) ==
    /\ d \in to_register
    /\ to_register' = to_register \ {d}
    /\ rx_senders' = Append(rx_senders, d)
    /\ UNCHANGED <<job, sending, stream, listener, accepted, handle, tx_broadcast, demuxes, receiving,
                   unknown>>

\* NetworkTopology::finalize, after all the workers were set up
FinalizeEarly ==
    /\ handle /\ rx_senders # <<>>
    /\ handle' = FALSE
    /\ UNCHANGED <<job, sending, stream, listener, accepted, to_register, rx_senders, tx_broadcast,
                   demuxes, receiving, unknown>>
Finalize ==
    /\ handle /\ to_register = {}
    /\ handle' = FALSE
    /\ UNCHANGED <<job, sending, stream, listener, accepted, to_register, rx_senders, tx_broadcast,
                   demuxes, receiving, unknown>>

\* The first endpoint that is registered starts the thread.
Bind ==
    /\ listener = "unbound" /\ to_register # Endpoint
    /\ listener' = "listening"
    /\ UNCHANGED <<job, sending, stream, accepted, handle, to_register, rx_senders, tx_broadcast,
                   demuxes, receiving, unknown>>

\* a connection is accepted and gets a demultiplexer; the last one closes
\* the listener
Accept(c) ==
    /\ listener = "listening"
    /\ connection[c] \in {"connected", "shutdown"} /\ c \notin accepted
    /\ accepted' = accepted \cup {c}
    /\ demux' = [demux EXCEPT ![c] = "collecting"]
    /\ listener' = IF accepted' = Client THEN "dropped" ELSE listener
    /\ UNCHANGED <<job, sending, stream, handle, to_register, rx_senders, tx_broadcast, demux_rx,
                   senders, receiving, unknown>>

\* the endpoints are broadcast to the demultiplexers
Broadcast ==
    /\ listener = "dropped" /\ rx_senders # <<>>
    /\ rx_senders' = Tail(rx_senders)
    /\ demux_rx' = [c \in Host |-> IF c \in accepted THEN Append(demux_rx[c], Head(rx_senders))
                                          ELSE <<>>]
    /\ UNCHANGED <<job, sending, stream, listener, accepted, handle, to_register, tx_broadcast,
                   senders, demux, receiving, unknown>>

StartDemuxes ==
    /\ listener = "dropped" /\ rx_senders = <<>> /\ ~handle /\ tx_broadcast
    /\ tx_broadcast' = FALSE
    /\ UNCHANGED <<job, sending, stream, listener, accepted, handle, to_register, rx_senders, demuxes,
                   receiving, unknown>>

BindRemotes == Bind \/ Broadcast \/ StartDemuxes \/ \E c \in Client : Accept(c)
SetupHost == Finalize \/ \E d \in Endpoint : Register(d)
-----------------------------------------------------------------------------
(* The demultiplexers *)

Collect(c) ==
    /\ demux[c] = "collecting"
    /\ IF demux_rx[c] # <<>>
       THEN /\ demux_rx' = [demux_rx EXCEPT ![c] = Tail(@)]
            /\ senders' = [senders EXCEPT ![c] = @ \cup {Head(demux_rx[c])}]
            /\ UNCHANGED demux
       ELSE /\ ~tx_broadcast
            /\ demux' = [demux EXCEPT ![c] = "running"]
            /\ UNCHANGED <<job, demux_rx, senders>>
    /\ UNCHANGED <<job, sending, stream, binding, receiving, unknown>>

\* remote_recv and the send to the channel of the endpoint, which waits for
\* room; a message for an endpoint that is gone is dropped with a warning
DemuxRecvStops(c) ==
    LET m == Head(stream[c])
    IN  /\ demux[c] = "running" /\ stream[c] # <<>> /\ ~unknown
        /\ m.dest \notin gone /\ Len(channel[m.dest]) < Capacity
        /\ stream' = [stream EXCEPT ![c] = Tail(@)]
        /\ channel' = [channel EXCEPT ![m.dest] = Append(@, m)]
        /\ UNCHANGED <<job, sending, binding, demuxes, received, gone, unknown>>
DemuxRecv(c) ==
    LET m == Head(stream[c])
    IN  /\ demux[c] = "running" /\ stream[c] # <<>> /\ ~unknown
        /\ IF m.dest \notin senders[c]
           THEN unknown' = TRUE /\ UNCHANGED <<job, stream, channel>>
           ELSE /\ m.dest \in gone \/ Len(channel[m.dest]) < Capacity
                /\ stream' = [stream EXCEPT ![c] = Tail(@)]
                /\ channel' = [channel EXCEPT ![m.dest] = IF m.dest \in gone THEN @ ELSE Append(@, m)]
                /\ UNCHANGED unknown
        /\ UNCHANGED <<job, sending, binding, demuxes, received, gone>>

DemuxFinishEarly(c) ==
    /\ demux[c] = "running" /\ connection[c] = "shutdown"
    /\ demux' = [demux EXCEPT ![c] = "finished"]
    /\ UNCHANGED <<job, sending, stream, binding, demux_rx, senders, receiving, unknown>>
DemuxFinish(c) ==
    /\ demux[c] = "running" /\ stream[c] = <<>> /\ connection[c] = "shutdown"
    /\ demux' = [demux EXCEPT ![c] = "finished"]
    /\ UNCHANGED <<job, sending, stream, binding, demux_rx, senders, receiving, unknown>>

Demux(c) == Collect(c) \/ DemuxRecv(c) \/ DemuxFinish(c)

Receive(d) ==
    /\ d \notin gone /\ channel[d] # <<>>
    /\ channel' = [channel EXCEPT ![d] = Tail(@)]
    /\ received' = [received EXCEPT ![d][Head(channel[d]).sender] = @ + 1]
    /\ UNCHANGED <<job, sending, stream, binding, demuxes, gone, unknown>>

Crash(d) ==
    /\ d \in job.mayCrash \ gone
    /\ gone' = gone \cup {d}
    /\ channel' = [channel EXCEPT ![d] = <<>>]
    /\ UNCHANGED <<job, sending, stream, binding, demuxes, received, unknown>>

\* stop_and_wait returns on all the hosts
Stopped == \A c \in Client : connection[c] = "shutdown" /\ demux[c] = "finished"
Failed == \E c \in Client : connection[c] = "failed"

Finished == (Stopped \/ Failed) /\ UNCHANGED vars

Next ==
    \/ \E c \in Client : ClientNext(c) \/ Demux(c)
    \/ BindRemotes \/ SetupHost
    \/ \E d \in Endpoint : Receive(d) \/ Crash(d)
    \/ Finished

Spec == Init /\ [][Next]_vars

\* All the threads are scheduled, and the replicas send what they have.
FairSpec ==
    /\ Spec
    /\ \A c \in Host : WF_vars(Connect(c)) /\ WF_vars(MuxSend(c)) /\ WF_vars(MuxFinish(c))
    /\ \A c \in Host : WF_vars(Demux(c))
    /\ \A u \in Sender, d \in Endpoint : SF_vars(Send(u, d))
    /\ WF_vars(BindRemotes) /\ WF_vars(SetupHost)
    /\ \A d \in Endpoint : WF_vars(Receive(d))
-----------------------------------------------------------------------------
(* Properties *)

TypeOK ==
    /\ sent \in [Sender -> [Endpoint -> 0 .. job.batches]]
    /\ attempt \in [Host -> 1 .. ConnectAttempts]
    /\ connection \in [Host -> {"connecting", "connected", "failed", "shutdown"}]
    /\ \A c \in Host : Len(mux[c]) <= MuxCapacity /\ Len(stream[c]) <= StreamCapacity
    /\ listener \in {"unbound", "listening", "dropped"}
    /\ accepted \subseteq Client
    /\ handle \in BOOLEAN /\ tx_broadcast \in BOOLEAN
    /\ to_register \subseteq Endpoint /\ rx_senders \in Seq(Endpoint)
    /\ demux_rx \in [Host -> Seq(Endpoint)] /\ senders \in [Host -> SUBSET Endpoint]
    /\ demux \in [Host -> {"none", "collecting", "running", "finished"}]
    /\ \A d \in Endpoint : Len(channel[d]) <= Capacity
    /\ received \in [Endpoint -> [Sender -> 0 .. job.batches]]
    /\ gone \subseteq job.mayCrash
    /\ unknown \in BOOLEAN

\* The lookup senders[&dest] (demultiplexer.rs:183) never fails: a
\* demultiplexer reads its connection only after it has got all the
\* endpoints of its host, whenever they are registered.  No queue exceeds its
\* capacity meanwhile.
EndpointsKnown == TypeOK /\ ~unknown

\* A demultiplexer that is joined by stop_and_wait has delivered everything.
FinishedIsEmpty ==
    \A c \in Client : demux[c] = "finished" => stream[c] = <<>> /\ mux[c] = <<>>

\* All the threads of the network end and every endpoint receives all that was
\* sent to it, although the endpoints share connections, a full one stops the
\* others and the worker of another one may panic; unless a host gave up
\* connecting before the other one was listening.
SurvivorsServed ==
    <>(Failed \/ (Stopped /\ \A d \in Endpoint \ gone, u \in Sender : received[d][u] = job.batches))
=============================================================================
