-------------------------------- MODULE End --------------------------------
(***************************************************************************)
(* The End operator (src/src/operator/end.rs) of the replicas of a block,  *)
(* with one Batcher (src/src/block/batcher.rs) per destination, the timer  *)
(* thread that flushes Timed batches in the background, and the bounded    *)
(* channels to the destinations.                                           *)
(*                                                                         *)
(* A call of next() is a list of operations on the batchers, `todo`.  An   *)
(* operation that has to send a batch blocks while the channel is full;    *)
(* meanwhile it holds the mutex of its batcher.  Everything else that      *)
(* happens under a mutex is one step.                                      *)
(***************************************************************************)
EXTENDS Integers, Sequences, FiniteSets, SequencesExt

CONSTANTS
    Replica,     \* the replicas the block may have
    Endpoint,    \* the endpoints they may be connected to: <<block, replica>>
    Jobs,        \* the jobs the block may be part of
    Key,         \* the hashes of the keys of the items
    BatchSize,   \* the max_size of the batch mode
    Capacity,    \* the capacity of a channel (CHANNEL_CAPACITY)
    MaxSent      \* bound: elements of a round

\* A job says how the block is deployed and what it is given.
Job == [up : SUBSET Replica,             \* the replicas of the block
        dest : SUBSET Endpoint,          \* the endpoints after it
        ignored : SUBSET Nat,            \* ignore_block_ids
        feedback : Nat,                  \* feedback_id, the block at the start of the loop, or 0
        next_strategy : {"OnlyOne", "Random", "GroupBy", "All"},
        batch_mode : {"Fixed", "Adaptive", "Timed", "Single"},
        keys : SUBSET Key,               \* of the items it is given
        rounds : Nat \ {0},              \* the number of rounds before Terminate
        maxSent : 0 .. MaxSent]

ASSUME EndpointAssumption == Endpoint \subseteq Nat \X Nat
ASSUME JobAssumption == \A j \in Jobs : j \in Job
ASSUME EndBoundsAssumption == /\ BatchSize \in Nat \ {0}
                              /\ Capacity \in Nat \ {0}
                              /\ MaxSent \in Nat
                              /\ Key \subseteq Nat

Item(k) == [kind |-> "Item", key |-> k]
Signal(kind) == [kind |-> kind, key |-> 0]
Watermark == Signal("Watermark")
FlushBatch == Signal("FlushBatch")
FlushAndRestart == Signal("FlushAndRestart")
Terminate == Signal("Terminate")
Element == {Item(k) : k \in Key} \cup {Watermark, FlushBatch, FlushAndRestart, Terminate}

BlockOf(d) == d[1]

\* what End does to one batcher
Op(op, d, el) == [op |-> op, dest |-> d, el |-> el]
NoSend == [dest |-> <<>>, batch |-> <<>>]

VARIABLES
    job,
    \* End, per replica
    senders,       \* the endpoints of the batchers
    block_senders, \* the batchers grouped by block
    round,         \* FlushAndRestart received from the operators before End
    sent,          \* elements received in this round
    returned,      \* the message of the last call of next()
    todo,          \* what is left to do of that call
    \* the batchers, per replica and endpoint
    buffer,
    sending,       \* the batch whose send is under way, its mutex held
    cancel_token,
    \* the timer thread of BatchScheduler
    tasks,         \* the batchers that are registered
    tick,          \* the task it is at, 0 while it sleeps
    checked,       \* whether it has checked the token of that task
    \* the network and the replicas at its other end
    channel,
    gone,          \* the receiver of the endpoint has been dropped
    flushes,       \* FlushAndRestart read, per endpoint and sender
    terminates,    \* Terminate read, per endpoint and sender
    \* observations
    routed,        \* where the items of a key went
    panicked       \* a send failed

operators == <<job, senders, block_senders>>
input == <<round, sent, returned>>
batchers == <<buffer, sending, cancel_token>>
timer == <<tasks, tick, checked>>
receivers == <<gone, flushes, terminates>>
vars == <<operators, input, todo, batchers, timer, channel, receivers, routed, panicked>>

Connected == {d \in job.dest : BlockOf(d) \notin job.ignored}
-----------------------------------------------------------------------------
(* Setup *)

\* the derived order of ReceiverEndpoint
Less(d, e) == d[1] < e[1] \/ (d[1] = e[1] /\ d[2] < e[2])

SortSendersNot(found) == found
SortSenders(found) == SetToSortSeq(ToSet(found), Less)

\* the senders grouped by block, in the order of a hash map of blocks
GroupSenders(sorted, blocks) ==
    IF job.next_strategy = "All"
    THEN [i \in DOMAIN sorted |-> <<sorted[i]>>]
    ELSE [i \in DOMAIN blocks |-> SelectSeq(sorted, LAMBDA d : BlockOf(d) = blocks[i])]

\* network.get_senders returns the endpoints in any order
Setup ==
    \E found \in [job.up -> SetToSeqs(Connected)],
       blocks \in [job.up -> SetToSeqs({BlockOf(d) : d \in Connected})],
       order \in SetToSeqs(job.up) :
        /\ senders = [u \in job.up |-> SortSenders(found[u])]
        /\ block_senders = [u \in job.up |-> GroupSenders(SortSenders(found[u]), blocks[u])]
        /\ tasks = IF job.batch_mode = "Timed"
                   THEN FlattenSeq([i \in DOMAIN order |->
                            [j \in DOMAIN found[order[i]] |->
                                <<order[i], found[order[i]][j]>>]])
                   ELSE <<>>

Init ==
    /\ job \in Jobs
    /\ Setup
    /\ round = [u \in Replica |-> 0]
    /\ sent = [u \in Replica |-> 0]
    /\ returned = [u \in Replica |-> FlushBatch]
    /\ todo = [u \in Replica |-> <<>>]
    /\ buffer = [u \in Replica |-> [d \in Endpoint |-> <<>>]]
    /\ sending = [u \in Replica |-> NoSend]
    /\ cancel_token = [u \in Replica |-> [d \in Endpoint |-> FALSE]]
    /\ tick = 0
    /\ checked = FALSE
    /\ channel = [d \in Endpoint |-> <<>>]
    /\ gone = [d \in Endpoint |-> FALSE]
    /\ flushes = [d \in Endpoint |-> [u \in Replica |-> 0]]
    /\ terminates = [d \in Endpoint |-> [u \in Replica |-> 0]]
    /\ routed = [k \in Key |-> {}]
    /\ panicked = FALSE
-----------------------------------------------------------------------------
(* End::next *)

Idle(u) == todo[u] = <<>> /\ sending[u] = NoSend /\ ~panicked
Running(u) == returned[u] # Terminate

\* The end of the feedback loop does not send Terminate back into it.
SkipsNever(d, m) == FALSE
Skips(d, m) == m = Terminate /\ BlockOf(d) = job.feedback

Broadcast(u, m) ==
    LET to == SelectSeq(FlattenSeq(block_senders[u]), LAMBDA d : ~Skips(d, m))
    IN  [i \in DOMAIN to |-> Op("enqueue", to[i], m)]

\* NextStrategy::index
Indexes(m) ==
    CASE job.next_strategy \in {"OnlyOne", "All"} -> {0}
      [] job.next_strategy = "Random" -> 0 .. Cardinality(job.dest) - 1
      [] job.next_strategy = "GroupBy" -> {m.key}

Direct(u, m, index) ==
    [i \in DOMAIN block_senders[u] |->
        LET block == block_senders[u][i]
        IN  Op("enqueue", block[(index % Len(block)) + 1], m)]

ForAllSenders(u, op) == [i \in DOMAIN senders[u] |-> Op(op, senders[u][i], FlushBatch)]

\* the calls that follow the enqueues
FlushingNot(u, m) ==
    CASE m = FlushBatch -> ForAllSenders(u, "flush")
      [] m = Terminate -> FlattenSeq([i \in DOMAIN senders[u] |->
            <<Op("cancel", senders[u][i], m), Op("end", senders[u][i], m)>>])
      [] OTHER -> <<>>
Flushing(u, m) ==
    CASE m \in {FlushAndRestart, FlushBatch} -> ForAllSenders(u, "flush")
      [] m = Terminate -> FlattenSeq([i \in DOMAIN senders[u] |->
            <<Op("cancel", senders[u][i], m), Op("end", senders[u][i], m)>>])
      [] OTHER -> <<>>

\* The message m of the operators before End.
EndNext(u, m) ==
    /\ u \in job.up /\ Idle(u) /\ Running(u)
    /\ returned' = [returned EXCEPT ![u] = m]
    /\ IF m.kind = "Item"
       THEN \E index \in Indexes(m) :
                /\ todo' = [todo EXCEPT ![u] = Direct(u, m, index)]
                /\ routed' = [routed EXCEPT ![m.key] =
                                @ \cup {op.dest : op \in ToSet(Direct(u, m, index))}]
       ELSE /\ todo' = [todo EXCEPT ![u] =
                IF m = FlushBatch THEN Flushing(u, m) ELSE Broadcast(u, m) \o Flushing(u, m)]
            /\ UNCHANGED routed
    /\ UNCHANGED <<operators, batchers, timer, channel, receivers, panicked>>

\* The operators before End return rounds of elements, then Terminate.
NextElement(u) ==
    /\ round[u] < job.rounds /\ sent[u] < job.maxSent
    /\ sent' = [sent EXCEPT ![u] = @ + 1]
    /\ UNCHANGED round
    /\ \E m \in {Item(k) : k \in job.keys} \cup {Watermark} : EndNext(u, m)

NextFlushBatch(u) ==
    /\ UNCHANGED <<round, sent>>
    /\ EndNext(u, FlushBatch)

NextFlushAndRestart(u) ==
    /\ round[u] < job.rounds
    /\ round' = [round EXCEPT ![u] = @ + 1]
    /\ sent' = [sent EXCEPT ![u] = 0]
    /\ EndNext(u, FlushAndRestart)

NextTerminate(u) ==
    /\ round[u] = job.rounds
    /\ UNCHANGED <<round, sent>>
    /\ EndNext(u, Terminate)

Call(u) ==
    NextElement(u) \/ NextFlushBatch(u) \/ NextFlushAndRestart(u) \/ NextTerminate(u)
-----------------------------------------------------------------------------
(* The batchers *)

Doing(u, op) ==
    /\ todo[u] # <<>> /\ sending[u] = NoSend /\ ~panicked
    /\ Head(todo[u]).op = op
    /\ todo' = [todo EXCEPT ![u] = Tail(@)]

\* swap the buffer out and start to send it, if there is anything in it
Flush(u, d, contents) ==
    /\ buffer' = [buffer EXCEPT ![u][d] = <<>>]
    /\ sending' = [sending EXCEPT ![u] =
            IF contents = <<>> THEN NoSend ELSE [dest |-> d, batch |-> contents]]

\* whether an enqueue flushes: the Adaptive mode looks at its clock too
MayFlush(contents) ==
    CASE job.batch_mode = "Single" -> {TRUE}
      [] job.batch_mode = "Adaptive" -> {Len(contents) >= BatchSize, TRUE}
      [] OTHER -> {Len(contents) >= BatchSize}

Enqueue(u) ==
    /\ Doing(u, "enqueue")
    /\ LET d == Head(todo[u]).dest
           contents == Append(buffer[u][d], Head(todo[u]).el)
       IN  \E flush \in MayFlush(contents) :
             IF flush THEN Flush(u, d, contents)
             ELSE buffer' = [buffer EXCEPT ![u][d] = contents] /\ UNCHANGED sending
    /\ UNCHANGED <<operators, input, cancel_token, timer, channel, receivers, routed, panicked>>

FlushBuffer(u) ==
    /\ Doing(u, "flush")
    /\ Flush(u, Head(todo[u]).dest, buffer[u][Head(todo[u]).dest])
    /\ UNCHANGED <<operators, input, cancel_token, timer, channel, receivers, routed, panicked>>

\* Batcher::end stores the token, and then takes the mutex
Cancel(u) ==
    /\ Doing(u, "cancel")
    /\ cancel_token' = [cancel_token EXCEPT ![u][Head(todo[u]).dest] = (job.batch_mode = "Timed")]
    /\ UNCHANGED <<operators, input, buffer, sending, timer, channel, receivers, routed, panicked>>

EndBatcherDrop(u) ==
    /\ Doing(u, "end")
    /\ UNCHANGED <<operators, input, batchers, timer, channel, receivers, routed, panicked>>
EndBatcher(u) ==
    /\ Doing(u, "end")
    /\ Flush(u, Head(todo[u]).dest, buffer[u][Head(todo[u]).dest])
    /\ UNCHANGED <<operators, input, cancel_token, timer, channel, receivers, routed, panicked>>

\* NetworkSender::send blocks while the channel is full; it fails, and the
\* worker panics, when the receiver is gone.
Send(u) ==
    LET d == sending[u].dest
    IN  /\ sending[u] # NoSend /\ ~panicked
        /\ gone[d] \/ Len(channel[d]) < Capacity
        /\ sending' = [sending EXCEPT ![u] = NoSend]
        /\ IF gone[d]
           THEN panicked' = TRUE /\ UNCHANGED channel
           ELSE /\ channel' = [channel EXCEPT ![d] =
                                Append(@, [sender |-> u, batch |-> sending[u].batch])]
                /\ UNCHANGED panicked
        /\ UNCHANGED <<operators, input, todo, buffer, cancel_token, timer, receivers, routed>>

Work(u) == Enqueue(u) \/ FlushBuffer(u) \/ Cancel(u) \/ EndBatcher(u) \/ Send(u)
-----------------------------------------------------------------------------
(* The timer thread of BatchScheduler (BatchMode::Timed) *)

\* the task after position p, or sleep
AdvanceOnce(p, left) == tick' = (IF p = 1 /\ left # <<>> THEN 1 ELSE 0) /\ checked' = FALSE
Advance(p, left) == tick' = (IF p <= Len(left) THEN p ELSE 0) /\ checked' = FALSE

TimerWake ==
    /\ tick = 0 /\ tasks # <<>>
    /\ Advance(1, tasks)
    /\ UNCHANGED <<operators, input, todo, batchers, tasks, channel, receivers, routed, panicked>>

\* retain_mut drops a task whose token is set
TimerCheck ==
    /\ tick # 0 /\ ~checked
    /\ IF cancel_token[tasks[tick][1]][tasks[tick][2]]
       THEN tasks' = RemoveAt(tasks, tick) /\ Advance(tick, tasks')
       ELSE checked' = TRUE /\ UNCHANGED <<tasks, tick>>
    /\ UNCHANGED <<operators, input, todo, batchers, channel, receivers, routed, panicked>>

\* try_flush puts the batch back when the channel is full
TimerTryFlushDrops ==
    LET u == tasks[tick][1]
        d == tasks[tick][2]
    IN  /\ tick # 0 /\ checked /\ sending[u].dest # d
        /\ Advance(tick + 1, tasks)
        /\ buffer' = [buffer EXCEPT ![u][d] = <<>>]
        /\ IF Len(channel[d]) < Capacity /\ buffer[u][d] # <<>>
           THEN channel' = [channel EXCEPT ![d] =
                                Append(@, [sender |-> u, batch |-> buffer[u][d]])]
           ELSE UNCHANGED channel
        /\ UNCHANGED <<operators, input, todo, sending, cancel_token, tasks, receivers, routed,
                       panicked>>
TimerTryFlush ==
    LET u == tasks[tick][1]
        d == tasks[tick][2]
    IN  /\ tick # 0 /\ checked /\ sending[u].dest # d
        /\ Advance(tick + 1, tasks)
        /\ IF buffer[u][d] = <<>> \/ (~gone[d] /\ Len(channel[d]) >= Capacity)
           THEN UNCHANGED <<buffer, channel, panicked>>
           ELSE /\ buffer' = [buffer EXCEPT ![u][d] = <<>>]
                /\ IF gone[d]
                   THEN panicked' = TRUE /\ UNCHANGED channel
                   ELSE /\ channel' = [channel EXCEPT ![d] =
                                Append(@, [sender |-> u, batch |-> buffer[u][d]])]
                        /\ UNCHANGED panicked
        /\ UNCHANGED <<operators, input, todo, sending, cancel_token, tasks, receivers, routed>>

Timer == TimerWake \/ TimerCheck \/ TimerTryFlush
-----------------------------------------------------------------------------
(* The replicas at the other end *)

Count(kind, batch) == Cardinality({i \in DOMAIN batch : batch[i].kind = kind})

Receive(d) ==
    /\ ~gone[d] /\ channel[d] # <<>>
    /\ LET m == Head(channel[d])
       IN  /\ flushes' = [flushes EXCEPT ![d][m.sender] = @ + Count("FlushAndRestart", m.batch)]
           /\ terminates' = [terminates EXCEPT ![d][m.sender] = @ + Count("Terminate", m.batch)]
    /\ channel' = [channel EXCEPT ![d] = Tail(@)]
    /\ UNCHANGED <<operators, input, todo, batchers, timer, gone, routed, panicked>>

\* A Start leaves when every sender has terminated.  The start of a loop
\* leaves when its own input terminates, after the last round came back.
Leave(d) ==
    /\ d \in Connected /\ ~gone[d]
    /\ \A u \in job.up : IF BlockOf(d) = job.feedback THEN flushes[d][u] = job.rounds
                                              ELSE terminates[d][u] = 1
    /\ gone' = [gone EXCEPT ![d] = TRUE]
    /\ UNCHANGED <<operators, input, todo, batchers, timer, channel, flushes, terminates, routed,
                   panicked>>

Terminated ==
    /\ \A u \in job.up : Idle(u) /\ ~Running(u)
    /\ \A d \in Connected : gone[d]
    /\ tasks = <<>>

Finished == Terminated /\ UNCHANGED vars

Next ==
    \/ \E u \in Replica : Call(u) \/ Work(u)
    \/ Timer
    \/ \E d \in Endpoint : Receive(d) \/ Leave(d)
    \/ Finished

Spec == Init /\ [][Next]_vars

\* The threads of the replicas and of the timer are scheduled.
ThreadFairness ==
    /\ \A u \in Replica : WF_vars(Work(u))
    /\ \A d \in Endpoint : WF_vars(Receive(d)) /\ WF_vars(Leave(d))
    /\ WF_vars(Timer)

\* A round ends, and so does the stream, however often the
\* operators before End ask for a flush.
InputFairness ==
    \A u \in Replica : SF_vars(NextFlushAndRestart(u)) /\ SF_vars(NextTerminate(u))

FairSpec == Spec /\ ThreadFairness
-----------------------------------------------------------------------------
(* Properties *)

TypeOK ==
    /\ \A u \in job.up : ToSet(senders[u]) = Connected /\ Len(senders[u]) = Cardinality(Connected)
    /\ round \in [Replica -> 0 .. job.rounds] /\ sent \in [Replica -> 0 .. MaxSent]
    /\ returned \in [Replica -> Element]
    /\ \A u \in Replica : \A op \in ToSet(todo[u]) : op.dest \in Connected
    /\ \A u \in Replica, d \in Endpoint : ToSet(buffer[u][d]) \subseteq Element \ {FlushBatch}
    /\ \A u \in Replica : sending[u] = NoSend \/ sending[u].dest \in Connected
    /\ cancel_token \in [Replica -> [Endpoint -> BOOLEAN]]
    /\ ToSet(tasks) \subseteq Replica \X Connected
    /\ tick \in 0 .. Len(tasks) /\ checked \in BOOLEAN
    /\ \A d \in Endpoint : Len(channel[d]) <= Capacity
    /\ gone \in [Endpoint -> BOOLEAN]
    /\ flushes \in [Endpoint -> [Replica -> 0 .. job.rounds]]
    /\ terminates \in [Endpoint -> [Replica -> 0 .. 1]]
    /\ routed \in [Key -> SUBSET Connected]
    /\ panicked \in BOOLEAN

\* The unwrap of a send (batcher.rs:102, 119, 159) and the panic of try_flush
\* (batcher.rs:146) are never reached: no batcher, and not the timer thread
\* either, sends to an endpoint whose receiver is gone, the start of a
\* feedback loop included, and the timer never indexes beyond the tasks.
NeverPanics == TypeOK /\ ~panicked

\* What was sent from u to d and not yet read: in the channel, in the send
\* that is under way and in the buffer.
InFlight(u, d) ==
    LET mine == SelectSeq(channel[d], LAMBDA m : m.sender = u)
    IN  FlattenSeq([i \in DOMAIN mine |-> mine[i].batch])
          \o (IF sending[u].dest = d THEN sending[u].batch ELSE <<>>)
          \o buffer[u][d]

\* When next() has returned FlushAndRestart, FlushBatch or Terminate no
\* element is left in a batch: the replicas of the next block can finish the
\* round although this one may stay silent from now on.
RoundFlushed ==
    \A u \in Replica : (Idle(u) /\ returned[u] \in {FlushAndRestart, FlushBatch, Terminate})
                     => \A d \in Connected : buffer[u][d] = <<>>

\* All the replicas route the items of a key to the same replica of each
\* next block, in whatever order the network hands out their senders
\* (the sort of setup_senders), and to every next block.
OneReplicaPerKey ==
    job.next_strategy = "GroupBy" =>
        \A k \in Key :
            /\ \A d, e \in routed[k] : BlockOf(d) = BlockOf(e) => d = e
            /\ routed[k] # {} => {BlockOf(d) : d \in routed[k]} = {BlockOf(d) : d \in Connected}

\* Batches, timers and bounded channels are invisible: from the enqueue to
\* the receiver the elements of each pair of replicas are a reliable queue.
links == INSTANCE Link WITH From <- Replica, To <- Endpoint,
                            queue <- [u \in Replica |-> [d \in Endpoint |-> InFlight(u, d)]]
RefinesLink == links!Spec

\* A stream that ends makes every next replica leave, and the timer thread
\* forgets the batchers: nobody waits for anybody forever.
Terminates == InputFairness => <>Terminated

\* Timed batches are sent although the operators before End stay silent after
\* any element, and although the channel may be full when the timer tries.
TimedFlush ==
    <>[](job.batch_mode = "Timed" => \A u \in job.up, d \in Connected : buffer[u][d] = <<>>)
=============================================================================
