----------------------------- MODULE Deployment -----------------------------
(***************************************************************************)
(* From a program to its execution graph.  Every host runs the same        *)
(* program, which builds the job graph with the methods of Stream          *)
(* (src/src/stream.rs, operator/mod.rs, operator/iteration).  Then every   *)
(* host by itself places the replicas of the blocks                        *)
(* (src/src/scheduler.rs), connects them, numbers the sockets and sets up  *)
(* its workers, which ask the topology for their channels                  *)
(* (src/src/network/topology.rs).  No host tells another what it has       *)
(* computed: they must agree.                                              *)
(*                                                                         *)
(* A block is its position in blocks.  All streams have items of one type, *)
(* the worst case for a topology that tells channels apart by type.        *)
(***************************************************************************)
EXTENDS Integers, Sequences, FiniteSets, SequencesExt, FiniteSetsExt

CONSTANTS
    Configs,      \* the runtime configurations: remote, and the cores of each host
    Replications, \* the replications a program asks for
    MaxOps        \* how many methods of Stream a program calls

ASSUME ConfigAssumption ==
    \A c \in Configs : c.remote \in BOOLEAN /\ c.cores \in Seq(Nat \ {0}) /\ c.cores # <<>>
ASSUME BoundAssumption == MaxOps \in Nat

VARIABLES
    config,
    ops,         \* methods called so far
    blocks,      \* the blocks of the program
    edges,       \* next_blocks and prev_blocks of the scheduler
    block_info,  \* the blocks scheduled
    topology     \* the NetworkTopology of each host, once it is built

program == <<ops, blocks, edges, block_info>>
vars == <<config, program, topology>>

Unlimited == [kind |-> "Unlimited", n |-> 0]
Limited(n) == [kind |-> "Limited", n |-> n]
OnePerHost == [kind |-> "Host", n |-> 0]
One == [kind |-> "One", n |-> 0]

Intersect(r, s) ==
    CASE One \in {r, s} -> One
      [] One \notin {r, s} /\ OnePerHost \in {r, s} -> OnePerHost
      [] r.kind = "Limited" /\ s.kind = "Limited" -> Limited(Min({r.n, s.n}))
      [] r = Unlimited -> s
      [] OTHER -> r

\* A block: from which blocks it receives, of which types it sends with
\* get_senders, whether its End has the OnlyOne strategy, the blocks to which a
\* RoutingEnd sends, the block where Iterate puts its output and the leader to
\* which IterationEnd sends.
NewBlock(prev, replication) ==
    [replication |-> replication, receives |-> prev, sends |-> {}, only_one |-> FALSE,
     routes |-> {}, output |-> {}, leader |-> {}]

Edge(from, to, typ) == [from |-> from, to |-> to, typ |-> typ, fragile |-> FALSE]

Open == DOMAIN blocks \ block_info
NewId(i) == Len(blocks) + i

Unbuilt == [next |-> {}, panicked |-> FALSE]
Hosts == 1 .. Len(config.cores)

Init ==
    /\ config \in Configs
    /\ ops = 0
    /\ blocks = <<>> /\ edges = {} /\ block_info = {}
    /\ topology = <<>>
-----------------------------------------------------------------------------
(* The program *)

Programming == ops < MaxOps /\ topology = <<>> /\ ops' = ops + 1
\* the block ends with an End, or with an operator that sends otherwise
Ending(b, only_one) == [blocks EXCEPT ![b].sends = @ \cup {"T"}, ![b].only_one = only_one]

\* StreamContext::stream
Source(r) ==
    /\ Programming
    /\ blocks' = Append(blocks, NewBlock({}, r))
    /\ UNCHANGED <<config, edges, block_info, topology>>

\* split_block, and the replication asked for the new block
SplitBlock(b, only_one, r) ==
    /\ Programming
    /\ blocks' = Append(Ending(b, only_one), NewBlock({b}, Intersect(Unlimited, r)))
    /\ edges' = edges \cup {Edge(b, NewId(1), "T")}
    /\ block_info' = block_info \cup {b}
    /\ UNCHANGED <<config, topology>>

\* split(2): the new block is cloned with its connections
Split(b) ==
    /\ Programming
    /\ LET new == NewBlock({b}, blocks[b].replication)
       IN  blocks' = Ending(b, TRUE) \o <<new, new>>
    /\ edges' = edges \cup {Edge(b, NewId(1), "T"), Edge(b, NewId(2), "T")}
    /\ block_info' = block_info \cup {b}
    /\ UNCHANGED <<config, topology>>

\* route with two routes; a RoutingEnd does not make the block OnlyOne
Route(b) ==
    /\ Programming
    /\ LET new == NewBlock({b}, blocks[b].replication)
       IN  blocks' = [Ending(b, FALSE) EXCEPT ![b].routes = {NewId(1), NewId(2)}] \o <<new, new>>
    /\ edges' = edges \cup {Edge(b, NewId(1), "T"), Edge(b, NewId(2), "T")}
    /\ block_info' = block_info \cup {b}
    /\ UNCHANGED <<config, topology>>

\* the parallelism of a block with two inputs
BinaryReplication(b, c, one_b, one_c) ==
    IF one_b THEN blocks[b].replication
    ELSE IF one_c THEN blocks[c].replication
    ELSE Unlimited

\* binary_connection, and the replication asked for the new block (zip); it
\* panics when both sides are OnlyOne with different parallelism
BinaryConnection(b, c, one_b, one_c, r) ==
    /\ Programming
    /\ b # c
    /\ one_b /\ one_c => blocks[b].replication = blocks[c].replication
    /\ LET ended == [Ending(b, one_b) EXCEPT ![c].sends = @ \cup {"T"}, ![c].only_one = one_c]
           replication == Intersect(BinaryReplication(b, c, one_b, one_c), r)
       IN  blocks' = Append(ended, NewBlock({b, c}, replication))
    /\ edges' = edges \cup {Edge(b, NewId(1), "T"), Edge(c, NewId(1), "T")}
    /\ block_info' = block_info \cup {b, c}
    /\ UNCHANGED <<config, topology>>

\* the loop of Iterate; its body is empty or a shuffle.  The blocks are those
\* of the leader, of Iterate, of the output, of the body, of its end (which
\* feeds back), of the delta updates and of the final state.
Iterate(b, shuffled) ==
    LET leader == NewId(1)  iter == NewId(2)  output == NewId(3)  body == NewId(4)
        tail == IF shuffled THEN body ELSE iter
        end == IF shuffled THEN NewId(5) ELSE NewId(4)
        state == end + 1
        final == end + 2
        new == [i \in leader .. final |->
                  CASE i = leader -> [NewBlock({state}, One) EXCEPT !.sends = {"Feedback", "State"}]
                    [] i = iter -> [NewBlock({b, end, leader}, Unlimited) EXCEPT
                                        !.output = {output}, !.sends = {"T"}, !.only_one = ~shuffled]
                    [] i = output -> NewBlock({iter}, Unlimited)
                    [] i = end -> [NewBlock({tail}, Unlimited) EXCEPT
                                        !.sends = {"T"}, !.only_one = TRUE]
                    [] i = state -> [NewBlock({end}, Unlimited) EXCEPT !.leader = {leader}]
                    [] i = final -> NewBlock({leader}, Unlimited)
                    [] OTHER -> [NewBlock({iter}, Unlimited) EXCEPT
                                        !.sends = {"T"}, !.only_one = TRUE]]
    IN  /\ Programming
        /\ blocks[b].replication = Unlimited
        /\ blocks' = Ending(b, TRUE) \o [i \in 1 .. final - leader + 1 |-> new[leader + i - 1]]
        /\ edges' = edges \cup
              {Edge(b, iter, "T"), Edge(tail, end, "T"), Edge(end, state, "T"),
               Edge(state, leader, "Delta"), Edge(leader, iter, "Feedback"),
               Edge(end, iter, "T"), [Edge(iter, output, "T") EXCEPT !.fragile = TRUE],
               Edge(leader, final, "State")}
              \cup (IF shuffled THEN {Edge(iter, body, "T")} ELSE {})
        /\ block_info' = block_info \cup {iter, tail, state, end, b, leader}
        /\ UNCHANGED <<config, topology>>

\* the loop of Replay, which is an operator of the block itself
Replay(b, shuffled) ==
    LET leader == NewId(1)  body == NewId(2)
        end == IF shuffled THEN body ELSE b
        final == IF shuffled THEN NewId(3) ELSE NewId(2)
        replay == [blocks EXCEPT ![b].receives = @ \cup {leader},
                                 ![b].sends = IF shuffled THEN {"T"} ELSE {},
                                 ![b].leader = IF shuffled THEN {} ELSE {leader}]
        lead == [NewBlock({end}, One) EXCEPT !.sends = {"Feedback", "State"}]
        fold == [NewBlock({b}, Unlimited) EXCEPT !.leader = {leader}]
    IN  /\ Programming
        /\ blocks[b].replication = Unlimited
        /\ blocks' = replay \o <<lead>> \o (IF shuffled THEN <<fold>> ELSE <<>>)
                            \o <<NewBlock({leader}, Unlimited)>>
        /\ edges' = edges \cup {Edge(end, leader, "Delta"), Edge(leader, b, "Feedback"),
                                Edge(leader, final, "State")}
                          \cup (IF shuffled THEN {Edge(b, body, "T")} ELSE {})
        /\ block_info' = block_info \cup {b, end, leader}
        /\ UNCHANGED <<config, topology>>

\* The program puts a sink after every stream and calls execute.
Execute ==
    /\ topology = <<>> /\ blocks # <<>>
    /\ block_info' = DOMAIN blocks
    /\ topology' = [h \in Hosts |-> Unbuilt]
    /\ UNCHANGED <<config, ops, blocks, edges>>

Program ==
    \/ \E r \in Replications : Source(r)
    \/ \E b \in Open, r \in Replications, one \in BOOLEAN : SplitBlock(b, one, r)
    \/ \E b \in Open : Split(b) \/ Route(b)
    \/ \E b, c \in Open, one_b, one_c \in BOOLEAN, r \in {Unlimited, One} :
          BinaryConnection(b, c, one_b, one_c, r)
    \/ \E b \in Open, shuffled \in BOOLEAN : Iterate(b, shuffled) \/ Replay(b, shuffled)
    \/ Execute
-----------------------------------------------------------------------------
(* The scheduler: a replica is <<block, host, replica>> *)

Clamp(r, n) ==
    CASE r.kind = "Unlimited" -> n
      [] r.kind = "Limited" -> Min({n, r.n})
      [] OTHER -> 1

\* what is left of a limit for a host after the ones before it
Remaining(n, h) == Max({0, n - FoldSeq(LAMBDA x, y : x + y, 0, SubSeq(config.cores, 1, h - 1))})

\* local_block_info and remote_block_info
Instances(r, h) ==
    IF ~config.remote THEN Clamp(r, config.cores[h])
    ELSE CASE r.kind = "Unlimited" -> config.cores[h]
           [] r.kind = "Limited" -> Min({Remaining(r.n, h), config.cores[h]})
           [] r.kind = "Host" -> 1
           [] r.kind = "One" -> IF h = 1 THEN 1 ELSE 0

Replicas(b) ==
    UNION {{<<b, h, i>> : i \in 0 .. Instances(blocks[b].replication, h) - 1} : h \in Hosts}

SameReplica(f, t) == f[2] = t[2] /\ f[3] = t[3]

ConnectedSame(e, f, t) == (blocks[e.from].only_one \/ e.fragile) => SameReplica(f, t)
ConnectedFragile(e, f, t) ==
    blocks[e.from].only_one => Cardinality(Replicas(e.to)) = 1 \/ SameReplica(f, t)

\* build_execution_graph
Connected(e, f, t) ==
    (blocks[e.from].only_one \/ e.fragile) =>
        Cardinality(Replicas(e.to)) = 1 \/ SameReplica(f, t)
Connections ==
    UNION {{[from |-> f, to |-> t, typ |-> e.typ, fragile |-> e.fragile] :
              <<f, t>> \in {p \in Replicas(e.from) \X Replicas(e.to) : Connected(e, p[1], p[2])}}
           : e \in edges}
-----------------------------------------------------------------------------
(* The topology of a host *)

Endpoint(t, prev) == [coord |-> t, prev |-> prev]
\* DemuxCoord: the block, the host and the previous block
DemuxCoord(e) == <<e.coord[1], e.coord[2], e.prev>>
ConnectionEndpoint(c) == Endpoint(c.to, c.from[1])

SendersMetadataFrom(h, next) ==
    {ConnectionEndpoint(c) : c \in {d \in next : d.from[2] = h}}

\* connect: channels between two other hosts are known, but have no metadata
SendersMetadata(h, next) ==
    {ConnectionEndpoint(c) : c \in {d \in next : d.from[2] = h \/ d.to[2] = h}}

Less(a, b) ==
    \/ a[1] < b[1]
    \/ a[1] = b[1] /\ a[2] < b[2]
    \/ a[1] = b[1] /\ a[2] = b[2] /\ a[3] < b[3]

\* build: the sockets of a host get its ports in the order of their coordinates;
\* a local job has none
Addresses(next) ==
    LET coords == {DemuxCoord(ConnectionEndpoint(c)) : c \in {d \in next : config.remote}}
    IN  [a \in coords |-> [host |-> a[2],
                           port |-> Cardinality({b \in coords : b[2] = a[2] /\ Less(b, a)})]]

KnownHere(h) == {c \in Connections : c.from[2] = h \/ c.to[2] = h}

\* connect keeps also the channels between two other hosts in next, since they
\* count in the numbering of the sockets
Known(h) == Connections

Workers(h) == {w \in UNION {Replicas(b) : b \in DOMAIN blocks} : w[2] = h}

\* what the operators of a worker ask for in setup: get_receiver
Receivers(w) == {Endpoint(w, p) : p \in blocks[w[1]].receives}

\* get_senders, which skips fragile connections, and get_sender
Senders(w, next) ==
    LET b == blocks[w[1]]
    IN  {ConnectionEndpoint(c) :
            c \in {d \in next : d.from = w /\ ~d.fragile /\ d.typ \in b.sends}}
        \cup {Endpoint(<<o, w[2], w[3]>>, w[1]) : o \in b.output}
        \cup {Endpoint(l, w[1]) : l \in UNION {Replicas(leader) : leader \in b.leader}}

\* the assertions and unwraps of the setup of a worker
SetupPanics(w, next, metadata) ==
    LET b == blocks[w[1]]
        senders == Senders(w, next)
    IN  \/ ~(Receivers(w) \cup senders \subseteq metadata)
        \/ b.only_one /\ \E e, f \in senders : e # f /\ e.coord[1] = f.coord[1]
        \/ \E r \in b.routes : \A e \in senders : e.coord[1] # r
        \/ \E l \in b.leader : Cardinality(Replicas(l)) # 1

\* register_demux: the blocks of other hosts that will connect
Clients(a, next) ==
    {<<c.from[1], c.from[2]>> :
        c \in {d \in next : d.from[2] # a[2] /\ DemuxCoord(ConnectionEndpoint(d)) = a}}

\* build_all: the workers are set up one after the other by the main thread;
\* a channel is registered by whoever asks for it first
BuildAll(h) ==
    LET next == Known(h)
        metadata == SendersMetadata(h, next)
        used == UNION {Receivers(w) \cup Senders(w, next) : w \in Workers(h)}
        local == {DemuxCoord(e) : e \in {d \in used : d.coord[2] = h}}
    IN  /\ topology # <<>> /\ topology[h] = Unbuilt
        /\ topology' = [topology EXCEPT ![h] =
              [next |-> next,
               panicked |-> \E w \in Workers(h) : SetupPanics(w, next, metadata),
               addresses |-> Addresses(next),
               senders |-> [w \in Workers(h) |-> Senders(w, next)],
               demuxes |-> [a \in {d \in local : Clients(d, next) # {}} |->
                                Cardinality(Clients(a, next))],
               muxes |-> {DemuxCoord(e) : e \in {d \in used : d.coord[2] # h}}]]
        /\ UNCHANGED <<config, program>>

Built == topology # <<>> /\ \A h \in Hosts : topology[h] # Unbuilt
Finished == Built /\ UNCHANGED vars

Next == Program \/ (\E h \in Hosts : BuildAll(h)) \/ Finished

Spec == Init /\ [][Next]_vars
-----------------------------------------------------------------------------
(* Properties *)

Block == [replication : Replications \cup {Unlimited, One},
          receives : SUBSET (1 .. Len(blocks)), sends : SUBSET {"T", "Feedback", "State"},
          only_one : BOOLEAN, routes : SUBSET (1 .. Len(blocks)),
          output : SUBSET (1 .. Len(blocks)), leader : SUBSET (1 .. Len(blocks))]

TypeOK ==
    /\ config \in Configs
    /\ ops \in 0 .. MaxOps
    /\ \A b \in DOMAIN blocks : blocks[b] \in Block
    /\ \A e \in edges : e.from \in DOMAIN blocks /\ e.to \in DOMAIN blocks
    /\ block_info \subseteq DOMAIN blocks

\* The doc of NextStrategy::OnlyOne: the next block is not replicated, or it is
\* replicated as much as the current one; "otherwise the execution graph is
\* malformed".
WellFormed ==
    \A e \in edges : (blocks[e.from].only_one \/ e.fragile) =>
        \/ Cardinality(Replicas(e.to)) = 1
        \/ \A h \in Hosts : Instances(blocks[e.from].replication, h) =
                            Instances(blocks[e.to].replication, h)

\* The setup of the workers never panics on a well formed graph: each channel
\* asked for was registered (topology.rs:371), OnlyOne finds one replica
\* (end.rs:142), a route a destination (route.rs:163) and IterationEnd one
\* leader (iteration_end.rs:74).
NeverPanics ==
    TypeOK /\ (Built /\ WellFormed => \A h \in Hosts : ~topology[h].panicked)

\* The hosts, which have not talked to each other yet, agree on the address of
\* every demultiplexer (topology.rs:515-529), no two of which have the same one;
\* a multiplexer connects only to one that exists, and register_demux awaits as
\* many connections as will be made: with another number the accept loop would
\* wait forever or leave a host out.
HostsAgree ==
    Built /\ (\A h \in Hosts : ~topology[h].panicked) => \A h \in Hosts :
        LET demuxes == topology[h].demuxes
        IN  /\ IsInjective(topology[h].addresses)
            /\ \A k \in Hosts : topology[k].addresses = topology[h].addresses
            /\ \A m \in topology[h].muxes : m \in DOMAIN topology[m[2]].demuxes
            /\ \A a \in DOMAIN demuxes :
                  demuxes[a] = Cardinality({k \in Hosts : a \in topology[k].muxes})

\* Start counts the FlushAndRestart and Terminate of the replicas that prev
\* names (simple.rs:38-47): exactly they have a sender to its endpoint, although
\* the senders come from elsewhere (get_senders, or get_sender for the output of
\* Iterate and for the leader).
CountersMatch ==
    Built /\ (\A h \in Hosts : ~topology[h].panicked) => \A h \in Hosts :
        \A w \in Workers(h) : \A p \in blocks[w[1]].receives :
            {c.from : c \in {d \in topology[h].next : d.to = w /\ d.from[1] = p}} =
            {f \in Replicas(p) : Endpoint(w, p) \in topology[f[2]].senders[f]}

Reaches(f, b) == \E e \in topology[f[2]].senders[f] : e.coord[1] = b

\* In a well formed graph each replica sends to some replica of each next block
\* of it, and each replica of the next block has one that sends to it
\* (build_execution_graph, scheduler.rs:286-299).
NextBlockReached ==
    Built /\ WellFormed => \A e \in edges :
        /\ \A f \in Replicas(e.from) : Reaches(f, e.to)
        /\ \A t \in Replicas(e.to) : \E f \in Replicas(e.from) :
              Endpoint(t, e.from) \in topology[f[2]].senders[f]
=============================================================================
