------------------------------- MODULE Start -------------------------------
(***************************************************************************)
(* The Start operator (src/src/operator/start/mod.rs) of one replica of a  *)
(* block: it merges the streams of all the replicas of the previous block, *)
(* computes the watermark frontier, aligns the FlushAndRestart messages    *)
(* that end a round (an iteration of an enclosing loop), waits for the     *)
(* iteration state before it lets a new round through, and turns a silent  *)
(* input into one FlushBatch.                                              *)
(*                                                                         *)
(* The previous replicas are the End operators of the upstream block.      *)
(* They share one bounded channel.  A batch is modelled with one element   *)
(* in it: batches only make elements of one sender travel together.        *)
(***************************************************************************)
EXTENDS Integers, Sequences, FiniteSets

CONSTANTS
    Prev,        \* the replicas of the previous block
    MaxTs,       \* Timestamp::MAX, the largest timestamp
    Rounds,      \* the number of rounds before Terminate
    MaxSent,     \* bound: elements a previous replica sends in a round
    Capacity,    \* the capacity of the channel (CHANNEL_CAPACITY)
    HasMaxDelay, \* whether the batch mode has a max_delay
    HasLock      \* whether the block is in the body of an iteration

ASSUME PrevAssumption == IsFiniteSet(Prev) /\ Prev # {}
ASSUME MaxTsAssumption == MaxTs \in Nat
ASSUME BoundsAssumption == /\ Rounds \in Nat \ {0}
                           /\ MaxSent \in Nat
                           /\ Capacity \in Nat \ {0}
ASSUME SenderAssumption == "none" \notin Prev /\ "default" \notin Prev
ASSUME FlagsAssumption == HasMaxDelay \in BOOLEAN /\ HasLock \in BOOLEAN

\* Option<Timestamp>: None is below every timestamp
None == -1
Timestamp == 0 .. MaxTs
OptTimestamp == {None} \cup Timestamp

\* StreamElement; Timestamped stands for Item too, which takes the same path
Timestamped(ts) == [kind |-> "Timestamped", ts |-> ts]
Watermark(ts) == [kind |-> "Watermark", ts |-> ts]
FlushBatch == [kind |-> "FlushBatch", ts |-> None]
FlushAndRestart == [kind |-> "FlushAndRestart", ts |-> None]
Terminate == [kind |-> "Terminate", ts |-> None]
Kind == {"Timestamped", "Watermark", "FlushBatch", "FlushAndRestart", "Terminate"}
Element == [kind : Kind, ts : OptTimestamp]

\* NetworkMessage: a batch and its sender
NetworkMessage == [sender : Prev, el : Element]
\* batch_iter = None, and the sender Coord::default() of the fake batch
NoBatch == [sender |-> "none", el |-> FlushBatch]
FakeBatch == [sender |-> "default", el |-> FlushBatch]
Batch == NetworkMessage \cup {NoBatch, FakeBatch}

VARIABLES
    \* the End of each previous replica
    send_round,  \* how many FlushAndRestart it has sent
    send_wm,     \* the last watermark it sent in the current round
    send_phase,  \* "run", "flushed" after FlushAndRestart, "terminated"
    sent,        \* how many elements it sent in the current round
    \* the network channel and the lock of the iteration state
    channel,
    generation,
    \* the fields of Start
    batch_iter,
    missing_terminate,
    missing_flush_and_restart,
    flushed_batch,
    already_timed_out,
    map,         \* WatermarkFrontier.map
    front,       \* WatermarkFrontier.front
    wait_for_state,
    state_generation,
    \* what has been observed of the calls of next()
    ret,         \* the value the last call returned
    out_wm,      \* the last watermark returned in the current round
    rounds_out,  \* how many FlushAndRestart were returned
    got,         \* how many FlushAndRestart were consumed, per replica
    unflushed    \* an element was returned after the last flush request

upstream == <<send_round, send_wm, send_phase, sent>>
counters == <<missing_terminate, missing_flush_and_restart>>
frontier == <<map, front>>
state == <<wait_for_state, state_generation>>
observed == <<ret, out_wm, rounds_out, got, unflushed>>
vars == <<upstream, channel, generation, batch_iter, counters, flushed_batch,
          already_timed_out, frontier, state, observed>>

TypeOK ==
    /\ send_round \in [Prev -> 0 .. Rounds]
    /\ send_wm \in [Prev -> OptTimestamp]
    /\ send_phase \in [Prev -> {"run", "flushed", "terminated"}]
    /\ sent \in [Prev -> 0 .. MaxSent]
    /\ channel \in Seq(NetworkMessage)
    /\ generation \in Nat
    /\ batch_iter \in Batch
    /\ missing_terminate \in 0 .. Cardinality(Prev)
    /\ missing_flush_and_restart \in 0 .. Cardinality(Prev)
    /\ flushed_batch \in BOOLEAN
    /\ already_timed_out \in BOOLEAN
    /\ map \in [Prev -> OptTimestamp]
    /\ front \in OptTimestamp
    /\ wait_for_state \in BOOLEAN
    /\ state_generation \in Nat
    /\ ret \in Element
    /\ out_wm \in OptTimestamp
    /\ rounds_out \in 0 .. Rounds
    /\ got \in [Prev -> 0 .. Rounds]
    /\ unflushed \in BOOLEAN

Init ==
    /\ send_round = [r \in Prev |-> 0]
    /\ send_wm = [r \in Prev |-> None]
    /\ send_phase = [r \in Prev |-> "run"]
    /\ sent = [r \in Prev |-> 0]
    /\ channel = <<>>
    /\ generation = 0
    /\ batch_iter = NoBatch
    /\ missing_terminate = Cardinality(Prev)
    /\ missing_flush_and_restart = Cardinality(Prev)
    /\ flushed_batch = FALSE
    /\ already_timed_out = FALSE
    /\ map = [r \in Prev |-> None]
    /\ front = None
    /\ wait_for_state = FALSE
    /\ state_generation = 0
    /\ ret = FlushAndRestart
    /\ out_wm = None
    /\ rounds_out = 0
    /\ got = [r \in Prev |-> 0]
    /\ unflushed = FALSE

-----------------------------------------------------------------------------
(* The previous replicas: a stream is                                      *)
(* ((Item | Timestamped | Watermark)* FlushAndRestart)+ Terminate, and a   *)
(* replica respects the watermarks it sent.                                *)

startUnchanged == UNCHANGED <<generation, batch_iter, counters, flushed_batch,
                              already_timed_out, frontier, state, observed>>

\* NetworkSender::send blocks while the channel is full
Send(r, el) ==
    /\ Len(channel) < Capacity
    /\ channel' = Append(channel, [sender |-> r, el |-> el])

SendTimestamped(r, ts) ==
    /\ send_phase[r] = "run"
    /\ sent[r] < MaxSent
    /\ ts > send_wm[r]
    /\ Send(r, Timestamped(ts))
    /\ sent' = [sent EXCEPT ![r] = @ + 1]
    /\ UNCHANGED <<send_round, send_wm, send_phase>>
    /\ startUnchanged

SendWatermark(r, ts) ==
    /\ send_phase[r] = "run"
    /\ sent[r] < MaxSent
    /\ ts >= send_wm[r]
    /\ Send(r, Watermark(ts))
    /\ sent' = [sent EXCEPT ![r] = @ + 1]
    /\ send_wm' = [send_wm EXCEPT ![r] = ts]
    /\ UNCHANGED <<send_round, send_phase>>
    /\ startUnchanged

SendFlushAndRestart(r) ==
    /\ send_phase[r] = "run"
    /\ Send(r, FlushAndRestart)
    /\ send_phase' = [send_phase EXCEPT ![r] = "flushed"]
    /\ send_round' = [send_round EXCEPT ![r] = @ + 1]
    /\ UNCHANGED <<send_wm, sent>>
    /\ startUnchanged

\* The loop around the block starts a new round only after every block of
\* its body has passed the FlushAndRestart of the previous one (the
\* Iteration module checks that it does).
NextRound(r) ==
    /\ send_phase[r] = "flushed"
    /\ send_round[r] < Rounds
    /\ send_round[r] <= rounds_out
    /\ send_phase' = [send_phase EXCEPT ![r] = "run"]
    /\ send_wm' = [send_wm EXCEPT ![r] = None]
    /\ sent' = [sent EXCEPT ![r] = 0]
    /\ UNCHANGED <<send_round, channel>>
    /\ startUnchanged

SendTerminate(r) ==
    /\ send_phase[r] = "flushed"
    /\ send_round[r] = Rounds
    /\ Send(r, Terminate)
    /\ send_phase' = [send_phase EXCEPT ![r] = "terminated"]
    /\ UNCHANGED <<send_round, send_wm, sent>>
    /\ startUnchanged

\* The iteration state of the host is updated and its lock released, once
\* per round, after this block ended the round.
UpdateState ==
    /\ HasLock
    /\ generation < 2 * rounds_out
    /\ generation' = generation + 2
    /\ UNCHANGED <<upstream, channel, batch_iter, counters, flushed_batch,
                   already_timed_out, frontier, state, observed>>

-----------------------------------------------------------------------------
(* WatermarkFrontier *)

ComputeFrontierOfSome(m) ==
    IF \E r \in Prev : m[r] # None
    THEN CHOOSE ts \in Timestamp :
            /\ \A r \in Prev : m[r] # None => ts <= m[r]
            /\ \E r \in Prev : ts = m[r]
    ELSE None

\* the smallest watermark of the replicas, None while one is missing
ComputeFrontier(m) ==
    IF \A r \in Prev : m[r] # None
    THEN CHOOSE ts \in Timestamp : /\ \A r \in Prev : ts <= m[r]
                                   /\ \E r \in Prev : ts = m[r]
    ELSE None

IsOld(r, ts) == map[r] >= ts

Updated(r, ts) == IF IsOld(r, ts) THEN map ELSE [map EXCEPT ![r] = ts]

\* update(coord, ts): the next map and front, and the watermark returned
FrontierUpdate(r, ts) ==
    /\ map' = Updated(r, ts)
    /\ front' = IF IsOld(r, ts) THEN front ELSE ComputeFrontier(Updated(r, ts))

UpdateReturnsOwn(r, ts) ==
    LET new == ComputeFrontier(Updated(r, ts))
    IN  IF IsOld(r, ts) \/ new = None \/ new = front THEN None ELSE ts

UpdateReturns(r, ts) ==
    LET new == ComputeFrontier(Updated(r, ts))
    IN  IF IsOld(r, ts) \/ new = None \/ new = front THEN None ELSE new

FrontierReset ==
    /\ map' = [r \in Prev |-> None]
    /\ front' = None

-----------------------------------------------------------------------------
(* Start::next *)

\* the worker calls next() until it returns Terminate
Running == ret # Terminate

AllTerminatedEarly == missing_terminate <= 1

\* all the previous replicas sent an end
AllTerminated == missing_terminate = 0

AllFlushedEarly == missing_flush_and_restart <= 1

\* all the previous replicas ended the round
AllFlushed == missing_flush_and_restart = 0

EmitTerminate ==
    /\ Running
    /\ AllTerminated
    /\ ret' = Terminate
    /\ unflushed' = FALSE
    /\ UNCHANGED <<upstream, channel, generation, batch_iter, counters,
                   flushed_batch, already_timed_out, frontier, state, out_wm,
                   rounds_out, got>>

\* the count of the replicas whose FlushAndRestart is missing starts again
CountAgain == missing_flush_and_restart' = Cardinality(Prev)

EmitFlushAndRestart ==
    /\ Running
    /\ ~AllTerminated
    /\ AllFlushed
    /\ CountAgain
    /\ FrontierReset
    /\ wait_for_state' = TRUE
    /\ state_generation' = state_generation + 2
    /\ ret' = FlushAndRestart
    /\ out_wm' = None
    /\ rounds_out' = rounds_out + 1
    /\ unflushed' = FALSE
    /\ UNCHANGED <<upstream, channel, generation, batch_iter, missing_terminate,
                   flushed_batch, already_timed_out, got>>

StateReadyEarly == HasLock => generation + 2 >= state_generation
StateReadyLate == HasLock => generation > state_generation

\* wait_for_update returns
StateReady == HasLock => generation >= state_generation

WaitForState ==
    /\ Running
    /\ ~AllTerminated
    /\ ~AllFlushed
    /\ wait_for_state
    /\ StateReady
    /\ wait_for_state' = FALSE
    /\ UNCHANGED <<upstream, channel, generation, batch_iter, counters,
                   flushed_batch, already_timed_out, frontier,
                   state_generation, observed>>

\* the loop has passed the three tests above
Proceed ==
    /\ Running
    /\ ~AllTerminated
    /\ ~AllFlushed
    /\ ~wait_for_state

ProcessWatermark ==
    /\ Proceed
    /\ batch_iter # NoBatch
    /\ batch_iter.el.kind = "Watermark"
    /\ LET r == batch_iter.sender
           safe == UpdateReturns(r, batch_iter.el.ts)
       IN  /\ FrontierUpdate(r, batch_iter.el.ts)
           /\ ret' = IF safe # None THEN Watermark(safe) ELSE ret
           /\ out_wm' = IF safe # None THEN safe ELSE out_wm
           /\ unflushed' = (safe # None \/ unflushed)
    /\ batch_iter' = NoBatch
    /\ UNCHANGED <<upstream, channel, generation, counters, flushed_batch,
                   already_timed_out, state, rounds_out, got>>

\* the watermark that update returns is dropped
ProcessFlushAndRestart ==
    /\ Proceed
    /\ batch_iter # NoBatch
    /\ batch_iter.el = FlushAndRestart
    /\ FrontierUpdate(batch_iter.sender, MaxTs)
    /\ missing_flush_and_restart' = missing_flush_and_restart - 1
    /\ got' = [got EXCEPT ![batch_iter.sender] = @ + 1]
    /\ batch_iter' = NoBatch
    /\ UNCHANGED <<upstream, channel, generation, missing_terminate,
                   flushed_batch, already_timed_out, state, ret, out_wm,
                   rounds_out, unflushed>>

ProcessTerminate ==
    /\ Proceed
    /\ batch_iter # NoBatch
    /\ batch_iter.el = Terminate
    /\ missing_terminate' = missing_terminate - 1
    /\ batch_iter' = NoBatch
    /\ UNCHANGED <<upstream, channel, generation, missing_flush_and_restart,
                   flushed_batch, already_timed_out, frontier, state, observed>>

IgnoreFlushBatch ==
    /\ Proceed
    /\ batch_iter # NoBatch
    /\ batch_iter.el = FlushBatch
    /\ flushed_batch
    /\ batch_iter' = NoBatch
    /\ UNCHANGED <<upstream, channel, generation, counters, flushed_batch,
                   already_timed_out, frontier, state, observed>>

EmitFlushBatch ==
    /\ Proceed
    /\ batch_iter # NoBatch
    /\ batch_iter.el = FlushBatch
    /\ ~flushed_batch
    /\ flushed_batch' = TRUE
    /\ ret' = FlushBatch
    /\ unflushed' = FALSE
    /\ batch_iter' = NoBatch
    /\ UNCHANGED <<upstream, channel, generation, counters, already_timed_out,
                   frontier, state, out_wm, rounds_out, got>>

EmitTimestamped ==
    /\ Proceed
    /\ batch_iter # NoBatch
    /\ batch_iter.el.kind = "Timestamped"
    /\ flushed_batch' = FALSE
    /\ ret' = batch_iter.el
    /\ unflushed' = TRUE
    /\ batch_iter' = NoBatch
    /\ UNCHANGED <<upstream, channel, generation, counters, already_timed_out,
                   frontier, state, out_wm, rounds_out, got>>

\* recv_timeout while the last wait did not time out, else recv
Recv ==
    /\ Proceed
    /\ batch_iter = NoBatch
    /\ channel # <<>>
    /\ batch_iter' = Head(channel)
    /\ channel' = Tail(channel)
    /\ already_timed_out' = FALSE
    /\ UNCHANGED <<upstream, generation, counters, flushed_batch, frontier,
                   state, observed>>

Timeout ==
    /\ Proceed
    /\ batch_iter = NoBatch
    /\ HasMaxDelay
    /\ ~already_timed_out
    /\ channel = <<>>
    /\ already_timed_out' = TRUE
    /\ batch_iter' = FakeBatch
    /\ UNCHANGED <<upstream, channel, generation, counters, flushed_batch,
                   frontier, state, observed>>

\* the worker's thread has returned
Finished ==
    /\ ret = Terminate
    /\ UNCHANGED vars

Upstream(r) ==
    \/ \E ts \in Timestamp : SendTimestamped(r, ts)
    \/ \E ts \in Timestamp : SendWatermark(r, ts)
    \/ SendFlushAndRestart(r)
    \/ NextRound(r)
    \/ SendTerminate(r)

StartNext ==
    \/ EmitTerminate
    \/ EmitFlushAndRestart
    \/ WaitForState
    \/ ProcessWatermark
    \/ ProcessFlushAndRestart
    \/ ProcessTerminate
    \/ IgnoreFlushBatch
    \/ EmitFlushBatch
    \/ EmitTimestamped
    \/ Recv
    \/ Timeout

Next ==
    \/ \E r \in Prev : Upstream(r)
    \/ UpdateState
    \/ StartNext
    \/ Finished

Spec == Init /\ [][Next]_vars

\* The threads of the replicas and of Start are scheduled, a stream ends its
\* rounds, and the loop publishes its state.
Fairness ==
    /\ \A r \in Prev : WF_vars(Upstream(r))
    /\ WF_vars(UpdateState)
    /\ WF_vars(StartNext)

FairSpec == Spec /\ Fairness

-----------------------------------------------------------------------------
(* Properties *)

\* What StreamElement::Watermark promises to the operators after Start: once
\* a watermark was returned, no element with a timestamp less or equal to it
\* is returned in the same round, although every sender only knows its own
\* watermarks and a sender that ended its round counts as Timestamp::MAX.
WatermarkSafe == ret.kind = "Timestamped" => ret.ts > out_wm

\* The watermarks returned in a round only grow: WatermarkFrontier::update
\* never makes the frontier fall back before reset().
WatermarksGrow ==
    [][out_wm' # out_wm => out_wm' > out_wm \/ rounds_out' > rounds_out]_vars

\* The frontier is never behind what was returned, and it is ahead of it only
\* in a round that some replica has already ended: then next() has dropped
\* the watermark that update() returned for the FlushAndRestart.
FrontierPublished ==
    /\ front >= out_wm
    /\ front # out_wm => \E r \in Prev : got[r] > rounds_out

\* Every element Start handles belongs to the round Start is in: a replica
\* that has already ended the round is not heard of until all the others
\* have ended it too, and one FlushAndRestart is returned for all of them.
RoundsAligned ==
    batch_iter \in NetworkMessage /\ batch_iter.el.kind # "Terminate"
        => got[batch_iter.sender] = rounds_out

\* In the body of an iteration an element is let through only after the state
\* of its iteration was published: the lock of the host has reached the
\* generation 2k before anything of round k is returned.
StateBeforeData ==
    HasLock /\ ret.kind \in {"Timestamped", "Watermark"}
        => generation >= 2 * rounds_out

\* Terminate is returned only when nothing is left behind: all the rounds were
\* closed and no message is in the channel or in the current batch.
NothingLost ==
    ret = Terminate => /\ rounds_out = Rounds
                       /\ channel = <<>>
                       /\ batch_iter = NoBatch

\* Start stops: with a bounded channel, timeouts, a lock to wait for and
\* rounds to align, Terminate is always returned in the end.
Terminates == <>(ret = Terminate)

\* The comment in next() on the untimed wait: "next time we wait indefinitely
\* without the timeout since the batch is currently empty" - whenever next()
\* waits without a timeout after it has timed out, everything it returned has
\* been flushed.
BatchEmptyWhenWaiting ==
    already_timed_out /\ batch_iter = NoBatch => ~unflushed

-----------------------------------------------------------------------------
(* The inductive invariant behind the safety properties.  The messages in  *)
(* flight are the current batch, at position 0, and those in the channel.  *)

Pending == IF batch_iter \in NetworkMessage THEN 0 .. Len(channel) ELSE 1 .. Len(channel)
Msg(i) == IF i = 0 THEN batch_iter ELSE channel[i]

Data == {"Timestamped", "Watermark"}
InRound == Data \cup {"FlushAndRestart"}

\* what is in flight of one sender is in the order in which it was sent
OrderInv ==
    \A i, j \in Pending :
        (i < j /\ Msg(i).sender = Msg(j).sender) =>
            /\ Msg(i).el.kind = "FlushAndRestart" => Msg(j).el.kind = "Terminate"
            /\ Msg(i).el.kind # "Terminate"
            /\ (Msg(i).el.kind = "Watermark" /\ Msg(j).el.kind = "Timestamped")
                  => Msg(i).el.ts < Msg(j).el.ts

\* a message in flight is of the round of Start, and its timestamp is above
\* the last watermark of its sender that Start has seen
MessageOK(r, el) ==
    /\ el.kind \in InRound \cup {"Terminate"}
    /\ el.kind \in InRound => got[r] = rounds_out
    /\ el.kind \in InRound => \/ send_phase[r] = "run" /\ el.kind \in Data
                              \/ send_phase[r] # "run" /\ send_round[r] = got[r] + 1
    /\ el.kind \in Data => el.ts \in Timestamp
    /\ el.kind = "Timestamped" => el.ts > map[r]
    /\ (el.kind = "Watermark" /\ send_phase[r] = "run") => el.ts <= send_wm[r]
    /\ el.kind = "Terminate" => send_phase[r] = "terminated"

MessageInv == \A i \in Pending : MessageOK(Msg(i).sender, Msg(i).el)

\* the FlushAndRestart, or the Terminate, of a replica is in flight
Flushing(r) ==
    \E i \in Pending : Msg(i).sender = r /\ Msg(i).el.kind = "FlushAndRestart"
Terminating(r) ==
    \E i \in Pending : Msg(i).sender = r /\ Msg(i).el.kind = "Terminate"

\* a replica sends only in the round of Start
SenderOK(r) ==
    /\ got[r] = rounds_out \/ got[r] = rounds_out + 1
    /\ send_phase[r] = "run" => /\ send_round[r] = rounds_out
                                /\ got[r] = rounds_out
                                /\ send_round[r] < Rounds
                                /\ map[r] <= send_wm[r]
    /\ send_phase[r] # "run" =>
            \/ send_round[r] = got[r] /\ (got[r] = rounds_out => map[r] = None)
            \/ send_round[r] = got[r] + 1 /\ Flushing(r)
    /\ send_phase[r] = "terminated" => /\ send_round[r] = Rounds
                                       /\ Flushing(r) => Terminating(r)

SenderInv == \A r \in Prev : SenderOK(r)

\* the replicas whose Terminate Start has not counted yet
Unterminated == {r \in Prev : send_phase[r] # "terminated" \/ Terminating(r)}

CountInv ==
    /\ missing_flush_and_restart = Cardinality({r \in Prev : got[r] = rounds_out})
    /\ missing_terminate = Cardinality(Unterminated)
    /\ missing_terminate = 0 => rounds_out = Rounds /\ batch_iter = NoBatch
    /\ ret = Terminate => missing_terminate = 0

FrontierInv ==
    /\ front = ComputeFrontier(map)
    /\ out_wm <= front
    /\ \A r \in Prev : got[r] = rounds_out + 1 => map[r] = MaxTs
    /\ (\A r \in Prev : got[r] = rounds_out) => front = out_wm
    /\ WatermarkSafe

StateInv ==
    /\ state_generation = 2 * rounds_out
    /\ ret.kind \in Data => ~wait_for_state
    /\ (HasLock /\ ~wait_for_state) => generation >= state_generation

\* Start and its previous replicas agree on the round, on what is in flight
\* and on the watermarks.
IInv ==
    /\ TypeOK
    /\ OrderInv
    /\ MessageInv
    /\ SenderInv
    /\ CountInv
    /\ FrontierInv
    /\ StateInv
=============================================================================
