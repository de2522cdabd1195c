------------------------- MODULE MultiplexerProofs -------------------------
(***************************************************************************)
(* The safety of the connections between two hosts, for every number of    *)
(* hosts, replicas, endpoints and messages and every capacity.             *)
(***************************************************************************)
EXTENDS Multiplexer, TLAPS

-----------------------------------------------------------------------------
(* The inductive invariant *)

Frame == [sender : Sender, dest : Endpoint, el : Nat]

Typed ==
    /\ job \in Jobs
    /\ sent \in [Sender -> [Endpoint -> Nat]]
    /\ connection \in [Host -> {"connecting", "connected", "failed", "shutdown"}]
    /\ mux \in [Host -> Seq(Frame)] /\ stream \in [Host -> Seq(Frame)]
    /\ rx_senders \in Seq(Endpoint) /\ demux_rx \in [Host -> Seq(Endpoint)]
    /\ senders \in [Host -> SUBSET Endpoint]
    /\ demux \in [Host -> {"none", "collecting", "running", "finished"}]

\* An endpoint is on its way to the demultiplexers until all of them know it, and none of
\* them reads its connection before bind_remotes has dropped the channels to them.
KnownInv ==
    /\ \A d \in Endpoint :
          \/ d \in to_register
          \/ d \in Range(rx_senders)
          \/ /\ listener = "dropped"
             /\ \A c \in Client : d \in senders[c] \cup Range(demux_rx[c])
    /\ listener = "dropped" => accepted = Client
    /\ ~handle => to_register = {}
    /\ ~tx_broadcast => listener = "dropped" /\ ~handle /\ rx_senders = <<>>
    /\ \A c \in Host : demux[c] \in {"running", "finished"} => ~tx_broadcast /\ demux_rx[c] = <<>>

\* A connection is shut down after its last message, and left when it is empty.
DrainedInv ==
    \A c \in Host :
        /\ connection[c] = "shutdown" => mux[c] = <<>> /\ \A u \in Replicas(c) : Left(u)
        /\ demux[c] = "finished" => connection[c] = "shutdown" /\ stream[c] = <<>>

IInv == Typed /\ KnownInv /\ DrainedInv /\ ~unknown

-----------------------------------------------------------------------------
(* Queues *)

\* A queue holds what is appended to it.
LEMMA AppendElements ==
    ASSUME NEW S, NEW q \in Seq(S), NEW e \in S
    PROVE  Append(q, e) \in Seq(S) /\ Range(Append(q, e)) = Range(q) \cup {e}
<1>0. Len(q) \in Nat /\ DOMAIN q = 1 .. Len(q)
  OBVIOUS
<1> DEFINE a == Append(q, e)
<1>1. /\ a \in Seq(S) /\ DOMAIN a = 1 .. Len(q) + 1
      /\ a[Len(q) + 1] = e /\ \A i \in 1 .. Len(q) : a[i] = q[i]
  OBVIOUS
<1> HIDE DEF a
<1>2. \A i \in 1 .. Len(q) + 1 : i \in 1 .. Len(q) \/ i = Len(q) + 1
  BY <1>0
<1>3. \A i \in 1 .. Len(q) : i \in 1 .. Len(q) + 1
  BY <1>0
<1>4. Len(q) + 1 \in 1 .. Len(q) + 1
  BY <1>0
<1>5. Range(a) = Range(q) \cup {e}
  BY <1>0, <1>1, <1>2, <1>3, <1>4, Zenon DEF Range
<1>. QED
  BY <1>1, <1>5 DEF a

\* Its head is one of its elements, and the others are in its tail.
LEMMA QueueElements ==
    ASSUME NEW S, NEW q \in Seq(S), q # <<>>
    PROVE  Head(q) \in S /\ Tail(q) \in Seq(S) /\ Range(q) = {Head(q)} \cup Range(Tail(q))
<1>0. Len(q) \in Nat /\ DOMAIN q = 1 .. Len(q)
  OBVIOUS
<1>1. Len(q) >= 1 /\ Head(q) = q[1] /\ Head(q) \in S
  BY <1>0
<1>2. /\ Tail(q) \in Seq(S) /\ DOMAIN Tail(q) = 1 .. Len(q) - 1
      /\ \A i \in 1 .. Len(q) - 1 : Tail(q)[i] = q[i + 1]
  BY <1>0, <1>1
<1>3. \A i \in 1 .. Len(q) : i = 1 \/ (i - 1 \in 1 .. Len(q) - 1 /\ (i - 1) + 1 = i)
  BY <1>0
<1>4. \A i \in 1 .. Len(q) - 1 : i + 1 \in 1 .. Len(q)
  BY <1>0
<1>5. 1 \in 1 .. Len(q)
  BY <1>0, <1>1
<1>6. Range(Tail(q)) \cup {q[1]} = Range(q)
  <2>1. ASSUME NEW x \in Range(q) PROVE x \in Range(Tail(q)) \cup {q[1]}
    <3>1. PICK i \in 1 .. Len(q) : x = q[i]
      BY <1>0, Zenon DEF Range
    <3>2. CASE i = 1
      BY <3>1, <3>2
    <3>3. CASE i - 1 \in 1 .. Len(q) - 1 /\ (i - 1) + 1 = i
      <4>1. x = Tail(q)[i - 1]
        BY <1>2, <3>1, <3>3
      <4>. QED
        BY <1>2, <3>3, <4>1, Zenon DEF Range
    <3>. QED
      BY <1>3, <3>2, <3>3
  <2>2. ASSUME NEW x \in Range(Tail(q)) PROVE x \in Range(q)
    <3>1. PICK i \in 1 .. Len(q) - 1 : x = Tail(q)[i]
      BY <1>2, Zenon DEF Range
    <3>. QED
      BY <1>0, <1>2, <1>4, <3>1, Zenon DEF Range
  <2>3. q[1] \in Range(q)
    BY <1>0, <1>5, Zenon DEF Range
  <2>. QED
    BY <2>1, <2>2, <2>3, Zenon
<1>. QED
  BY <1>1, <1>2, <1>6

\* A client is a host.
LEMMA ClientsAreHosts ==
    ASSUME Typed
    PROVE  Client \subseteq Host /\ \A u \in Sender : ClientOf(u) \in Client
<1>1. \A u \in Sender : job.hostOf[u] \in Host
  BY JobsAssumption DEF Typed
<1>. QED
  BY <1>1 DEF Client, ClientOf

LEMMA InitIInv == Init => IInv
<1> SUFFICES ASSUME Init PROVE IInv
  OBVIOUS
<1>1. Typed
  <2>1. sent \in [Sender -> [Endpoint -> Nat]]
    BY DEF Init
  <2>2. mux \in [Host -> Seq(Frame)] /\ stream \in [Host -> Seq(Frame)]
    BY DEF Init
  <2>3. rx_senders \in Seq(Endpoint) /\ demux_rx \in [Host -> Seq(Endpoint)]
    BY DEF Init
  <2>. QED
    BY <2>1, <2>2, <2>3 DEF Init, Typed
<1>2. KnownInv
  BY DEF Init, KnownInv
<1>3. DrainedInv
  BY DEF Init, DrainedInv
<1>. QED
  BY <1>1, <1>2, <1>3 DEF Init, IInv

-----------------------------------------------------------------------------
(* What a step leaves alone *)

LEMMA SameKnown ==
    ASSUME IInv, UNCHANGED <<job, binding, demuxes>>
    PROVE  KnownInv'
BY DEF IInv, KnownInv, Client, ClientOf, binding, demuxes

LEMMA SameDrained ==
    ASSUME IInv, UNCHANGED <<job, sending, stream, demux>>
    PROVE  DrainedInv'
BY DEF IInv, DrainedInv, Replicas, Left, ClientOf, sending

-----------------------------------------------------------------------------
(* The hosts that send *)

\* A replica that has left sends nothing more.
LEMMA SendIInv ==
    ASSUME IInv, NEW u \in Sender, NEW d \in Endpoint, Send(u, d)
    PROVE  IInv'
<1> DEFINE c == ClientOf(u)
           m == Message(u, d, sent[u][d] + 1)
<1>0. /\ sent[u][d] < job.batches
      /\ sent' = [sent EXCEPT ![u][d] = @ + 1]
      /\ mux' = [mux EXCEPT ![c] = Append(@, m)]
      /\ UNCHANGED <<job, attempt, connection, stream, binding, demuxes, receiving, unknown>>
  BY DEF Send
<1>1. c \in Host /\ m \in Frame /\ sent[u][d] \in Nat
  <2>1. sent[u][d] \in Nat
    BY DEF IInv, Typed
  <2>2. m \in Frame
    BY <2>1 DEF Message, Frame
  <2>. QED
    BY <2>1, <2>2, ClientsAreHosts DEF IInv
<1> HIDE DEF m
<1>2. mux[c] \in Seq(Frame)
  BY <1>1 DEF IInv, Typed
<1>3. Append(mux[c], m) \in Seq(Frame)
  BY <1>1, <1>2
<1>4. Typed'
  <2>1. mux' \in [Host -> Seq(Frame)]
    BY <1>0, <1>1, <1>3 DEF IInv, Typed
  <2>2. sent' \in [Sender -> [Endpoint -> Nat]]
    BY <1>0, <1>1 DEF IInv, Typed
  <2>. QED
    BY <1>0, <2>1, <2>2 DEF IInv, Typed, binding, demuxes
<1>5. connection[c] # "shutdown"
  <2>1. u \in Replicas(c)
    BY DEF Replicas
  <2>2. ~Left(u)
    <3>1. job.batches \in Nat
      BY JobsAssumption DEF IInv, Typed
    <3>. QED
      BY <1>0, <1>1, <3>1 DEF Left
  <2>. QED
    BY <1>1, <2>1, <2>2 DEF IInv, DrainedInv
<1>6. DrainedInv'
  <2> SUFFICES ASSUME NEW b \in Host
               PROVE  /\ connection[b] = "shutdown" => mux'[b] = <<>> /\ \A v \in Replicas(b) : Left(v)'
                      /\ demux[b] = "finished" => connection[b] = "shutdown" /\ stream[b] = <<>>
    BY <1>0 DEF DrainedInv, Replicas, ClientOf, demuxes
  <2>1. demux[b] = "finished" => connection[b] = "shutdown" /\ stream[b] = <<>>
    BY DEF IInv, DrainedInv
  <2>2. ASSUME connection[b] = "shutdown"
        PROVE  mux'[b] = <<>> /\ \A v \in Replicas(b) : Left(v)'
    <3>1. b # c
      BY <1>5, <2>2
    <3>2. mux'[b] = mux[b]
      BY <1>0, <3>1 DEF IInv, Typed
    <3>3. \A v \in Replicas(b) : v \in Sender /\ v # u
      BY <3>1 DEF Replicas
    <3>4. \A v \in Replicas(b) : sent'[v] = sent[v]
      BY <1>0, <3>3 DEF IInv, Typed
    <3>5. mux[b] = <<>> /\ \A v \in Replicas(b) : Left(v)
      BY <2>2 DEF IInv, DrainedInv
    <3>6. job' = job
      BY <1>0
    <3>7. \A v \in Replicas(b) : Left(v)'
      BY <3>4, <3>5, <3>6, Zenon DEF Left
    <3>. QED
      BY <3>2, <3>5, <3>7, Zenon
  <2>. QED
    BY <2>1, <2>2
<1>7. KnownInv'
  BY <1>0, SameKnown
<1>. QED
  BY <1>0, <1>4, <1>6, <1>7 DEF IInv

LEMMA ConnectIInv ==
    ASSUME IInv, NEW c \in Client, Connect(c)
    PROVE  IInv'
<1>0. /\ connection[c] = "connecting"
      /\ \/ UNCHANGED connection
         \/ connection' = [connection EXCEPT ![c] = "connected"]
         \/ connection' = [connection EXCEPT ![c] = "failed"]
      /\ UNCHANGED <<job, sent, mux, stream, binding, demuxes, receiving, unknown>>
  BY DEF Connect
<1>1. c \in Host
  BY ClientsAreHosts DEF IInv
<1>2. /\ connection' \in [Host -> {"connecting", "connected", "failed", "shutdown"}]
      /\ \A b \in Host : (connection'[b] = "shutdown") <=> (connection[b] = "shutdown")
  BY <1>0, <1>1, Zenon DEF IInv, Typed
<1>3. Typed'
  BY <1>0, <1>2 DEF IInv, Typed, binding, demuxes
<1>4. DrainedInv'
  BY <1>0, <1>2 DEF IInv, DrainedInv, Replicas, ClientOf, Left, demuxes
<1>5. KnownInv'
  BY <1>0, SameKnown
<1>. QED
  BY <1>0, <1>3, <1>4, <1>5 DEF IInv

LEMMA MuxSendIInv ==
    ASSUME IInv, NEW c \in Client, MuxSend(c)
    PROVE  IInv'
<1>0. /\ connection[c] = "connected" /\ mux[c] # <<>>
      /\ mux' = [mux EXCEPT ![c] = Tail(@)]
      /\ stream' = [stream EXCEPT ![c] = Append(@, Head(mux[c]))]
      /\ UNCHANGED <<job, sent, attempt, connection, binding, demuxes, receiving, unknown>>
  BY DEF MuxSend
<1>1. c \in Host
  BY ClientsAreHosts DEF IInv
<1>2. mux[c] \in Seq(Frame) /\ stream[c] \in Seq(Frame)
  BY <1>1 DEF IInv, Typed
<1>3. Tail(mux[c]) \in Seq(Frame) /\ Append(stream[c], Head(mux[c])) \in Seq(Frame)
  <2>1. Tail(mux[c]) \in Seq(Frame) /\ Head(mux[c]) \in Frame
    BY <1>0, <1>2, QueueElements, Zenon
  <2>. QED
    BY <1>2, <2>1, AppendElements, Zenon
<1>4. Typed'
  <2>1. mux' \in [Host -> Seq(Frame)] /\ stream' \in [Host -> Seq(Frame)]
    BY <1>0, <1>3, Zenon DEF IInv, Typed
  <2>. QED
    BY <1>0, <2>1 DEF IInv, Typed, binding, demuxes
<1>5. \A b \in Host : b # c => mux'[b] = mux[b] /\ stream'[b] = stream[b]
  BY <1>0 DEF IInv, Typed
<1>6. DrainedInv'
  BY <1>0, <1>5 DEF IInv, DrainedInv, Replicas, ClientOf, Left, demuxes
<1>7. KnownInv'
  BY <1>0, SameKnown
<1>. QED
  BY <1>0, <1>4, <1>6, <1>7 DEF IInv

LEMMA MuxFinishIInv ==
    ASSUME IInv, NEW c \in Client, MuxFinish(c)
    PROVE  IInv'
<1>0. /\ connection[c] = "connected" /\ mux[c] = <<>> /\ \A u \in Replicas(c) : Left(u)
      /\ connection' = [connection EXCEPT ![c] = "shutdown"]
      /\ UNCHANGED <<job, sent, attempt, mux, stream, binding, demuxes, receiving, unknown>>
  BY DEF MuxFinish
<1>1. /\ connection' \in [Host -> {"connecting", "connected", "failed", "shutdown"}]
      /\ \A b \in Host : b # c => connection'[b] = connection[b]
  BY <1>0, Zenon DEF IInv, Typed
<1>2. Typed'
  BY <1>0, <1>1 DEF IInv, Typed, binding, demuxes
<1>3. DrainedInv'
  BY <1>0, <1>1 DEF IInv, DrainedInv, Replicas, ClientOf, Left, demuxes
<1>4. KnownInv'
  BY <1>0, SameKnown
<1>. QED
  BY <1>0, <1>2, <1>3, <1>4 DEF IInv

-----------------------------------------------------------------------------
(* bind_remotes and the setup of the host that receives *)

LEMMA RegisterIInv ==
    ASSUME IInv, NEW d \in Endpoint, Register(d)
    PROVE  IInv'
<1>0. /\ d \in to_register /\ to_register' = to_register \ {d}
      /\ rx_senders' = Append(rx_senders, d)
      /\ UNCHANGED <<job, sending, stream, listener, accepted, handle, tx_broadcast, demuxes, unknown>>
  BY DEF Register
<1>1. rx_senders' \in Seq(Endpoint) /\ Range(rx_senders') = Range(rx_senders) \cup {d}
  <2>1. rx_senders \in Seq(Endpoint)
    BY DEF IInv, Typed
  <2>. QED
    BY <1>0, <2>1, AppendElements
<1>2. Typed'
  BY <1>0, <1>1 DEF IInv, Typed, sending, demuxes
<1>3. DrainedInv'
  BY <1>0, SameDrained DEF demuxes
<1>4. KnownInv'
  <2>1. handle /\ tx_broadcast
    BY <1>0 DEF IInv, KnownInv
  <2>2. Client' = Client
    BY <1>0 DEF Client, ClientOf
  <2>3. ASSUME NEW e \in Endpoint
        PROVE  \/ e \in to_register'
               \/ e \in Range(rx_senders')
               \/ listener = "dropped" /\ \A c \in Client : e \in senders[c] \cup Range(demux_rx[c])
    BY <1>0, <1>1 DEF IInv, KnownInv
  <2>. QED
    BY <1>0, <2>1, <2>2, <2>3 DEF IInv, KnownInv, demuxes
<1>. QED
  BY <1>0, <1>2, <1>3, <1>4 DEF IInv

LEMMA FinalizeIInv ==
    ASSUME IInv, Finalize
    PROVE  IInv'
<1>0. /\ to_register = {} /\ handle' = FALSE
      /\ UNCHANGED <<job, sending, stream, listener, accepted, to_register, rx_senders, tx_broadcast,
                     demuxes, unknown>>
  BY DEF Finalize
<1>1. Typed'
  BY <1>0 DEF IInv, Typed, sending, demuxes
<1>2. DrainedInv'
  BY <1>0, SameDrained DEF demuxes
<1>3. KnownInv'
  BY <1>0 DEF IInv, KnownInv, Client, ClientOf, demuxes
<1>. QED
  BY <1>0, <1>1, <1>2, <1>3 DEF IInv

LEMMA BindIInv ==
    ASSUME IInv, Bind
    PROVE  IInv'
<1>0. /\ listener = "unbound" /\ listener' = "listening"
      /\ UNCHANGED <<job, sending, stream, accepted, handle, to_register, rx_senders, tx_broadcast,
                     demuxes, unknown>>
  BY DEF Bind
<1>1. Typed'
  BY <1>0 DEF IInv, Typed, sending, demuxes
<1>2. DrainedInv'
  BY <1>0, SameDrained DEF demuxes
<1>3. KnownInv'
  BY <1>0 DEF IInv, KnownInv, Client, ClientOf, demuxes
<1>. QED
  BY <1>0, <1>1, <1>2, <1>3 DEF IInv

LEMMA AcceptIInv ==
    ASSUME IInv, NEW c \in Client, Accept(c)
    PROVE  IInv'
<1>0. /\ listener = "listening" /\ accepted' = accepted \cup {c}
      /\ demux' = [demux EXCEPT ![c] = "collecting"]
      /\ listener' = (IF accepted' = Client THEN "dropped" ELSE listener)
      /\ UNCHANGED <<job, sending, stream, handle, to_register, rx_senders, tx_broadcast, demux_rx,
                     senders, unknown>>
  BY DEF Accept
<1>1. /\ demux' \in [Host -> {"none", "collecting", "running", "finished"}]
      /\ \A b \in Host : demux'[b] = demux[b] \/ demux'[b] = "collecting"
  BY <1>0, Zenon DEF IInv, Typed
<1>2. Typed'
  BY <1>0, <1>1 DEF IInv, Typed, sending
<1>3. DrainedInv'
  BY <1>0, <1>1 DEF IInv, DrainedInv, Replicas, ClientOf, Left, sending
<1>4. KnownInv'
  <2>1. Client' = Client
    BY <1>0 DEF Client, ClientOf
  <2>2. \A d \in Endpoint : d \in to_register \/ d \in Range(rx_senders)
    BY <1>0 DEF IInv, KnownInv
  <2>3. tx_broadcast
    BY <1>0 DEF IInv, KnownInv
  <2>4. listener' = "dropped" => accepted' = Client
    BY <1>0
  <2>5. \A b \in Host : demux'[b] \notin {"running", "finished"}
    BY <1>1, <2>3 DEF IInv, KnownInv
  <2>. QED
    BY <1>0, <2>1, <2>2, <2>3, <2>4, <2>5 DEF IInv, KnownInv
<1>. QED
  BY <1>0, <1>2, <1>3, <1>4 DEF IInv

\* An endpoint is sent to all the demultiplexers at once: the connections have all been
\* accepted.
LEMMA BroadcastIInv ==
    ASSUME IInv, Broadcast
    PROVE  IInv'
<1>0. /\ listener = "dropped" /\ rx_senders # <<>> /\ rx_senders' = Tail(rx_senders)
      /\ demux_rx' = [c \in Host |-> IF c \in accepted THEN Append(demux_rx[c], Head(rx_senders))
                                     ELSE <<>>]
      /\ UNCHANGED <<job, sending, stream, listener, accepted, handle, to_register, tx_broadcast,
                     senders, demux, unknown>>
  BY DEF Broadcast
<1>1. accepted = Client /\ Client \subseteq Host /\ tx_broadcast /\ Client' = Client
  BY <1>0, ClientsAreHosts DEF IInv, KnownInv, Client, ClientOf
<1>2. /\ Head(rx_senders) \in Endpoint /\ rx_senders' \in Seq(Endpoint)
      /\ Range(rx_senders) = {Head(rx_senders)} \cup Range(rx_senders')
  BY <1>0, QueueElements, Zenon DEF IInv, Typed
<1>3. ASSUME NEW c \in Host
      PROVE  /\ Append(demux_rx[c], Head(rx_senders)) \in Seq(Endpoint)
             /\ Range(Append(demux_rx[c], Head(rx_senders))) = Range(demux_rx[c]) \cup {Head(rx_senders)}
  <2>1. demux_rx[c] \in Seq(Endpoint)
    BY DEF IInv, Typed
  <2>. QED
    BY <1>2, <2>1, AppendElements
<1>4. Typed'
  <2>1. demux_rx' \in [Host -> Seq(Endpoint)]
    BY <1>0, <1>3
  <2>. QED
    BY <1>0, <1>2, <2>1 DEF IInv, Typed, sending
<1>5. DrainedInv'
  BY <1>0, SameDrained
<1>6. KnownInv'
  <2>1. ASSUME NEW d \in Endpoint, d \notin to_register, d \notin Range(rx_senders'), NEW c \in Client
        PROVE  d \in senders[c] \cup Range(demux_rx'[c])
    <3>1. Range(demux_rx'[c]) = Range(demux_rx[c]) \cup {Head(rx_senders)}
      BY <1>0, <1>1, <1>3, Zenon
    <3>2. d = Head(rx_senders) \/ d \notin Range(rx_senders)
      BY <1>2, <2>1
    <3>. QED
      BY <2>1, <3>1, <3>2 DEF IInv, KnownInv
  <2>2. \A c \in Host : demux[c] \notin {"running", "finished"}
    BY <1>1 DEF IInv, KnownInv
  <2>. QED
    BY <1>0, <1>1, <2>1, <2>2, Zenon DEF IInv, KnownInv
<1>. QED
  BY <1>0, <1>4, <1>5, <1>6 DEF IInv

LEMMA StartDemuxesIInv ==
    ASSUME IInv, StartDemuxes
    PROVE  IInv'
<1>0. /\ listener = "dropped" /\ rx_senders = <<>> /\ ~handle /\ tx_broadcast' = FALSE
      /\ UNCHANGED <<job, sending, stream, listener, accepted, handle, to_register, rx_senders, demuxes,
                     unknown>>
  BY DEF StartDemuxes
<1>1. Typed'
  BY <1>0 DEF IInv, Typed, sending, demuxes
<1>2. DrainedInv'
  BY <1>0, SameDrained DEF demuxes
<1>3. KnownInv'
  BY <1>0 DEF IInv, KnownInv, Client, ClientOf, demuxes
<1>. QED
  BY <1>0, <1>1, <1>2, <1>3 DEF IInv

-----------------------------------------------------------------------------
(* The demultiplexers *)

LEMMA CollectIInv ==
    ASSUME IInv, NEW c \in Client, Collect(c)
    PROVE  IInv'
<1>0. demux[c] = "collecting" /\ UNCHANGED <<job, sending, stream, binding, unknown>> /\ Client' = Client
  BY DEF Collect, Client, ClientOf
<1>1. c \in Host
  BY ClientsAreHosts DEF IInv
<1>2. CASE demux_rx[c] # <<>>
  <2>1. /\ demux_rx' = [demux_rx EXCEPT ![c] = Tail(@)]
        /\ senders' = [senders EXCEPT ![c] = @ \cup {Head(demux_rx[c])}]
        /\ UNCHANGED demux
    BY <1>2 DEF Collect
  <2>2. demux_rx[c] \in Seq(Endpoint)
    BY <1>1 DEF IInv, Typed
  <2>3. /\ Head(demux_rx[c]) \in Endpoint /\ Tail(demux_rx[c]) \in Seq(Endpoint)
        /\ Range(demux_rx[c]) = {Head(demux_rx[c])} \cup Range(Tail(demux_rx[c]))
    BY <1>2, <2>2, QueueElements, Zenon
  <2>4. /\ demux_rx'[c] = Tail(demux_rx[c]) /\ senders'[c] = senders[c] \cup {Head(demux_rx[c])}
        /\ \A b \in Host : b # c => demux_rx'[b] = demux_rx[b] /\ senders'[b] = senders[b]
    BY <1>1, <2>1 DEF IInv, Typed
  <2>5. Typed'
    <3>1. demux_rx' \in [Host -> Seq(Endpoint)] /\ senders' \in [Host -> SUBSET Endpoint]
      BY <1>1, <2>1, <2>3 DEF IInv, Typed
    <3>. QED
      BY <1>0, <2>1, <3>1, SMTT(20) DEF IInv, Typed, sending, binding
  <2>6. DrainedInv'
    BY <1>0, <2>1, SameDrained, SMTT(20)
  <2>7. KnownInv'
    <3>1. \A b \in Client : senders'[b] \cup Range(demux_rx'[b]) = senders[b] \cup Range(demux_rx[b])
      BY <2>3, <2>4, ClientsAreHosts DEF IInv
    <3>2. \A b \in Host : demux[b] \in {"running", "finished"} => demux_rx'[b] = <<>>
      BY <1>0, <2>4 DEF IInv, KnownInv
    <3>. QED
      BY <1>0, <2>1, <3>1, <3>2, SMTT(20) DEF IInv, KnownInv, binding
  <2>. QED
    BY <1>0, <2>5, <2>6, <2>7 DEF IInv
<1>3. CASE demux_rx[c] = <<>>
  <2>1. ~tx_broadcast /\ demux' = [demux EXCEPT ![c] = "running"] /\ UNCHANGED <<demux_rx, senders>>
    BY <1>3 DEF Collect
  <2>2. /\ demux' \in [Host -> {"none", "collecting", "running", "finished"}]
        /\ demux'[c] = "running" /\ \A b \in Host : b # c => demux'[b] = demux[b]
    BY <1>1, <2>1 DEF IInv, Typed
  <2>3. Typed'
    BY <1>0, <2>1, <2>2 DEF IInv, Typed, sending, binding
  <2>4. DrainedInv'
    BY <1>0, <2>2 DEF IInv, DrainedInv, Replicas, ClientOf, Left, sending
  <2>5. KnownInv'
    <3>1. \A b \in Host : demux'[b] \in {"running", "finished"} => demux_rx[b] = <<>>
      BY <1>3, <2>2 DEF IInv, KnownInv
    <3>. QED
      BY <1>0, <2>1, <3>1, SMTT(20) DEF IInv, KnownInv, binding
  <2>. QED
    BY <1>0, <2>3, <2>4, <2>5 DEF IInv
<1>. QED
  BY <1>2, <1>3

\* A demultiplexer that reads its connection knows all the endpoints.
LEMMA RunningKnowsAll ==
    ASSUME IInv, NEW c \in Client, demux[c] = "running"
    PROVE  Endpoint \subseteq senders[c]
<1>1. c \in Host
  BY ClientsAreHosts DEF IInv
<1>2. ~tx_broadcast /\ demux_rx[c] = <<>>
  BY <1>1 DEF IInv, KnownInv
<1>3. to_register = {} /\ rx_senders = <<>>
  BY <1>2 DEF IInv, KnownInv
<1>4. Range(<<>>) = {}
  BY DEF Range
<1>. QED
  BY <1>2, <1>3, <1>4 DEF IInv, KnownInv

LEMMA DemuxRecvIInv ==
    ASSUME IInv, NEW c \in Client, DemuxRecv(c)
    PROVE  IInv'
<1> DEFINE m == Head(stream[c])
<1>0. /\ demux[c] = "running" /\ stream[c] # <<>>
      /\ UNCHANGED <<job, sending, binding, demuxes>>
      /\ m.dest \in senders[c] => UNCHANGED unknown /\ stream' = [stream EXCEPT ![c] = Tail(@)]
  BY DEF DemuxRecv
<1>1. c \in Host
  BY ClientsAreHosts DEF IInv
<1>2. m \in Frame /\ Tail(stream[c]) \in Seq(Frame)
  <2>1. stream[c] \in Seq(Frame)
    BY <1>1 DEF IInv, Typed
  <2>. QED
    BY <1>0, <2>1, QueueElements, Zenon
<1>3. m.dest \in senders[c]
  <2>1. m.dest \in Endpoint
    BY <1>2 DEF Frame
  <2>. QED
    BY <1>0, <2>1, RunningKnowsAll
<1>4. UNCHANGED unknown /\ stream' = [stream EXCEPT ![c] = Tail(@)]
  BY <1>0, <1>3
<1>5. Typed'
  <2>1. stream' \in [Host -> Seq(Frame)]
    BY <1>1, <1>2, <1>4, SMTT(20) DEF IInv, Typed
  <2>. QED
    BY <1>0, <2>1 DEF IInv, Typed, sending, binding, demuxes
<1>6. DrainedInv'
  <2>1. \A b \in Host : b # c => stream'[b] = stream[b]
    BY <1>4 DEF IInv, Typed
  <2>. QED
    BY <1>0, <2>1 DEF IInv, DrainedInv, Replicas, ClientOf, Left, sending, demuxes
<1>7. KnownInv'
  BY <1>0, SameKnown
<1>. QED
  BY <1>4, <1>5, <1>6, <1>7 DEF IInv

LEMMA DemuxFinishIInv ==
    ASSUME IInv, NEW c \in Client, DemuxFinish(c)
    PROVE  IInv'
<1>0. /\ demux[c] = "running" /\ stream[c] = <<>> /\ connection[c] = "shutdown"
      /\ demux' = [demux EXCEPT ![c] = "finished"]
      /\ UNCHANGED <<job, sending, stream, binding, demux_rx, senders, unknown>>
  BY DEF DemuxFinish
<1>1. c \in Host
  BY ClientsAreHosts DEF IInv
<1>2. /\ demux' \in [Host -> {"none", "collecting", "running", "finished"}]
      /\ \A b \in Host : b # c => demux'[b] = demux[b]
  BY <1>0, <1>1 DEF IInv, Typed
<1>3. Typed'
  BY <1>0, <1>2, SMTT(20) DEF IInv, Typed, sending, binding
<1>4. DrainedInv'
  BY <1>0, <1>2, SMTT(20) DEF IInv, DrainedInv, Replicas, ClientOf, Left, sending
<1>5. KnownInv'
  <2>1. \A b \in Host : demux'[b] \in {"running", "finished"} => ~tx_broadcast /\ demux_rx[b] = <<>>
    BY <1>0, <1>2 DEF IInv, KnownInv
  <2>. QED
    BY <1>0, <2>1, SMTT(20) DEF IInv, KnownInv, Client, ClientOf, binding
<1>. QED
  BY <1>0, <1>3, <1>4, <1>5, SMTT(20) DEF IInv

-----------------------------------------------------------------------------
(* The theorems *)

\* The invariant holds in every reachable state, for any number of hosts and of replicas.
THEOREM InductiveInvariant == Spec => []IInv
<1>1. Init => IInv
  BY InitIInv
<1>2. IInv /\ [Next]_vars => IInv'
  <2> SUFFICES ASSUME IInv, [Next]_vars PROVE IInv'
    OBVIOUS
  <2>1. ASSUME UNCHANGED <<job, sending, stream, binding, demuxes, unknown>> PROVE IInv'
    <3>1. Typed'
      BY <2>1 DEF IInv, Typed, sending, binding, demuxes
    <3>2. KnownInv' /\ DrainedInv'
      BY <2>1, SameKnown, SameDrained DEF demuxes
    <3>. QED
      BY <2>1, <3>1, <3>2 DEF IInv
  <2>2. ASSUME NEW c \in Client, ClientNext(c) PROVE IInv'
    <3>1. \A u \in Replicas(c) : u \in Sender
      BY DEF Replicas
    <3>. QED
      BY <2>2, <3>1, SendIInv, ConnectIInv, MuxSendIInv, MuxFinishIInv DEF ClientNext
  <2>3. ASSUME NEW c \in Client, Demux(c) PROVE IInv'
    BY <2>3, CollectIInv, DemuxRecvIInv, DemuxFinishIInv DEF Demux
  <2>4. CASE BindRemotes
    BY <2>4, BindIInv, BroadcastIInv, StartDemuxesIInv, AcceptIInv DEF BindRemotes
  <2>5. CASE SetupHost
    BY <2>5, FinalizeIInv, RegisterIInv, SMTT(20) DEF SetupHost
  <2>6. ASSUME NEW d \in Endpoint, Receive(d) \/ Crash(d) PROVE IInv'
    BY <2>1, <2>6 DEF Receive, Crash
  <2>7. CASE UNCHANGED vars
    BY <2>1, <2>7 DEF vars
  <2>. QED
    BY <2>2, <2>3, <2>4, <2>5, <2>6, <2>7 DEF Next, Finished
<1>. QED
  BY <1>1, <1>2, PTL DEF Spec

\* A demultiplexer never looks up an endpoint it does not know (demultiplexer.rs:183), in
\* whatever order the endpoints are registered and the connections accepted.
THEOREM NoUnknownEndpoint == Spec => []~unknown
<1>1. IInv => ~unknown
  BY DEF IInv
<1>. QED
  BY <1>1, InductiveInvariant, PTL

\* Nothing is left in a connection, on either side, whose demultiplexer has ended: joining
\* the threads (topology.rs:178) is enough to deliver everything.
THEOREM JoinedIsDrained == Spec => []FinishedIsEmpty
<1>1. IInv => FinishedIsEmpty
  BY ClientsAreHosts DEF IInv, DrainedInv, FinishedIsEmpty
<1>. QED
  BY <1>1, InductiveInvariant, PTL
=============================================================================
