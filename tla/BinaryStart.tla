---------------------------- MODULE BinaryStart ----------------------------
(***************************************************************************)
(* Start with two previous blocks (src/src/operator/start/binary.rs): the  *)
(* receiver behind joins, merges and zips.  It tags the elements with      *)
(* their side, announces the end of a side with LeftEnd or RightEnd just   *)
(* before its last FlushAndRestart, and waits only for the side that still *)
(* has something to send in the round.                                     *)
(*                                                                         *)
(* When one side comes from outside the loop that the other one is in, it  *)
(* sends its data only once.  The receiver caches it and replays it in     *)
(* every later round of the loop.                                          *)
(*                                                                         *)
(* The loop of Start::next on top of it is modelled without watermarks and *)
(* without the lock of the iteration state, which are in module Start.  A  *)
(* batch that arrives holds one element.                                   *)
(***************************************************************************)
EXTENDS Integers, Sequences, FiniteSets, SequencesExt

CONSTANTS
    Left, Right, \* the replicas of the two previous blocks
    Cached,      \* the sides that may be cached: "none", "left", "right"
    Rounds,      \* the number of rounds of the loop
    MaxSent,     \* bound: elements a replica sends in a round
    Capacity,    \* the capacity of the channels (CHANNEL_CAPACITY)
    HasMaxDelay  \* whether the batch mode has a max_delay

ASSUME ReplicasAssumption == /\ IsFiniteSet(Left) /\ Left # {}
                             /\ IsFiniteSet(Right) /\ Right # {}
                             /\ Left \cap Right = {}
ASSUME CachedAssumption == Cached \subseteq {"none", "left", "right"}

Side == {"left", "right"}
Other(s) == IF s = "left" THEN "right" ELSE "left"
Prev == Left \cup Right
SideOf(r) == IF r \in Left THEN "left" ELSE "right"
Instances(s) == Cardinality(IF s = "left" THEN Left ELSE Right)
NumPrevious == Instances("left") + Instances("right")

\* an Item of a side carries the round in which it was sent; End(s) is the
\* item LeftEnd or RightEnd
Item(s, k) == [kind |-> "Item", side |-> s, round |-> k]
End(s) == [kind |-> "End", side |-> s, round |-> 0]
Signal(kind) == [kind |-> kind, side |-> "left", round |-> 0]
FlushBatch == Signal("FlushBatch")
FlushAndRestart == Signal("FlushAndRestart")
Terminate == Signal("Terminate")

VARIABLES
    \* the replicas of the previous blocks
    send_round,  \* how many FlushAndRestart it has sent
    send_phase,  \* "run", "flushed" after FlushAndRestart, "terminated"
    sent,        \* how many elements it sent in its round
    channel,     \* per side
    \* BinaryStartReceiver
    cached,      \* the side that is cached
    missing_fr,  \* missing_flush_and_restart, per side
    missing_end, \* missing_terminate, per side
    cache,       \* the batches of the cached side
    cache_full,
    cache_pointer,
    first_message,
    \* Start
    batch_iter,
    missing_terminate,
    missing_flush_and_restart,
    flushed_batch,
    already_timed_out,
    panicked,    \* recv() failed
    \* what has been observed of the calls of next()
    ret,         \* the value the last call returned
    rounds_out,  \* how many FlushAndRestart were returned
    seen,        \* the elements returned in this round, per side
    ends,        \* the ends returned in this round, per side
    total        \* the elements sent in each round, per side

upstream == <<send_round, send_phase, sent>>
caching == <<cache, cache_full, cache_pointer>>
receiver == <<cached, missing_fr, missing_end, caching, first_message>>
counters == <<missing_terminate, missing_flush_and_restart>>
flags == <<flushed_batch, already_timed_out, panicked>>
observed == <<ret, rounds_out, seen, ends>>
vars == <<upstream, channel, receiver, batch_iter, counters, flags, observed, total>>

Init ==
    /\ send_round = [r \in Prev |-> 0]
    /\ send_phase = [r \in Prev |-> "run"]
    /\ sent = [r \in Prev |-> 0]
    /\ channel = [s \in Side |-> <<>>]
    /\ cached \in Cached
    /\ missing_fr = [s \in Side |-> Instances(s)]
    /\ missing_end = [s \in Side |-> Instances(s)]
    /\ cache = <<>>
    /\ cache_full = FALSE
    /\ cache_pointer = 0
    /\ first_message = FALSE
    /\ batch_iter = <<>>
    /\ missing_terminate = NumPrevious
    /\ missing_flush_and_restart = NumPrevious
    /\ flushed_batch = FALSE
    /\ already_timed_out = FALSE
    /\ panicked = FALSE
    /\ ret = FlushAndRestart
    /\ rounds_out = 0
    /\ seen = [s \in Side |-> 0]
    /\ ends = [s \in Side |-> 0]
    /\ total = [s \in Side |-> [k \in 1 .. Rounds |-> 0]]
-----------------------------------------------------------------------------
(* The previous replicas *)

RoundsOf(s) == IF s = cached THEN 1 ELSE Rounds

Send(r, el) ==
    LET s == SideOf(r)
    IN  /\ Len(channel[s]) < Capacity
        /\ channel' = [channel EXCEPT ![s] = Append(@, el)]
        /\ UNCHANGED <<receiver, batch_iter, counters, flags, observed>>

SendItem(r) ==
    LET s == SideOf(r)
        k == send_round[r] + 1
    IN  /\ send_phase[r] = "run" /\ sent[r] < MaxSent
        /\ sent' = [sent EXCEPT ![r] = @ + 1]
        /\ total' = [total EXCEPT ![s][k] = @ + 1]
        /\ Send(r, Item(s, k))
        /\ UNCHANGED <<send_round, send_phase>>

SendFlushAndRestart(r) ==
    /\ send_phase[r] = "run"
    /\ send_phase' = [send_phase EXCEPT ![r] = "flushed"]
    /\ send_round' = [send_round EXCEPT ![r] = @ + 1]
    /\ Send(r, FlushAndRestart)
    /\ UNCHANGED <<sent, total>>

\* the loop starts a round when the block has finished the one before
NextRound(r) ==
    /\ send_phase[r] = "flushed" /\ send_round[r] < RoundsOf(SideOf(r))
    /\ send_round[r] = rounds_out
    /\ send_phase' = [send_phase EXCEPT ![r] = "run"]
    /\ sent' = [sent EXCEPT ![r] = 0]
    /\ UNCHANGED <<send_round, channel, receiver, batch_iter, counters, flags, observed, total>>

\* a loop ends when the block has finished the last round
SendTerminate(r) ==
    /\ send_phase[r] = "flushed" /\ send_round[r] = RoundsOf(SideOf(r))
    /\ (SideOf(r) # cached /\ Rounds > 1) => rounds_out = Rounds
    /\ send_phase' = [send_phase EXCEPT ![r] = "terminated"]
    /\ Send(r, Terminate)
    /\ UNCHANGED <<send_round, sent, total>>

Upstream(r) == SendItem(r) \/ SendFlushAndRestart(r) \/ NextRound(r) \/ SendTerminate(r)
-----------------------------------------------------------------------------
(* SideReceiver and BinaryStartReceiver::select *)

IsTerminated(s) == missing_end[s] = 0
IsEnded(s) == IF s = cached THEN IsTerminated(s) ELSE missing_fr[s] = 0
CacheFinished == cache_pointer >= Len(cache)

\* select() first resets both sides when the round has ended on both; these
\* are the fields after that
NewRound == (\A s \in Side : IsEnded(s)) /\ CacheFinished
HasCache == cached # "none"
ResetMissing == IF NewRound THEN [s \in Side |-> Instances(s)] ELSE missing_fr
ResetFull == cache_full \/ (NewRound /\ HasCache)
ResetPointer == IF NewRound /\ HasCache THEN 0 ELSE cache_pointer
ResetFirst == first_message \/ NewRound
EndedNow(s) == IF s = cached THEN IsTerminated(s) ELSE ResetMissing[s] = 0

\* the first message of a round is asked of the side without the cache
AskFirst == ResetFirst /\ HasCache
Replay == ~AskFirst /\ HasCache /\ ResetFull /\ ResetPointer < Len(cache)

\* the sides that select() receives from otherwise
AwaitedBoth == {s \in Side : ~IsTerminated(s)}
Awaited ==
    IF AskFirst THEN {Other(cached)}
    ELSE IF EndedNow("left") THEN {"right"}
    ELSE IF EndedNow("right") THEN {"left"}
    ELSE {s \in Side : ~IsTerminated(s)}

\* both sides have terminated, but Start has not seen that of the cached one
TerminatesDueEarly == HasCache /\ IsTerminated(cached)
TerminatesDue == HasCache /\ \A s \in Side : IsTerminated(s)

Running == ret # Terminate /\ ~panicked
Proceed == Running /\ missing_terminate # 0 /\ missing_flush_and_restart # 0
\* Start::next asks the receiver for a batch
Waiting == Proceed /\ batch_iter = <<>>

SelectTerminates ==
    /\ Waiting /\ TerminatesDue
    /\ batch_iter' = [i \in 1 .. Instances(cached) |-> Terminate]
    /\ already_timed_out' = FALSE
    /\ UNCHANGED <<upstream, channel, receiver, counters, flushed_batch, panicked, observed, total>>

\* next_cached_item
SelectCached ==
    /\ Waiting /\ ~TerminatesDue /\ Replay
    /\ cache_pointer' = ResetPointer + 1
    /\ cache_full' = ResetFull
    /\ missing_fr' = IF cache_pointer' >= Len(cache)
                     THEN [ResetMissing EXCEPT ![cached] = 0] ELSE ResetMissing
    /\ batch_iter' = cache[cache_pointer']
    /\ first_message' = ResetFirst
    /\ already_timed_out' = FALSE
    /\ UNCHANGED <<upstream, channel, cached, missing_end, cache, counters, flushed_batch,
                   panicked, observed, total>>

\* process_side: what a batch of side s with element el becomes, when left
\* replicas of the side have not sent FlushAndRestart yet
MappedEndFirst(s, el, left) ==
    IF el = FlushAndRestart THEN <<End(s), el>>
    ELSE IF el = Terminate /\ s = cached THEN <<>>
    ELSE <<el>>
Mapped(s, el, left) ==
    IF el = FlushAndRestart /\ left = 0 THEN <<End(s), el>>
    ELSE IF el = Terminate /\ s = cached THEN <<>>
    ELSE <<el>>

ProcessSide(s, el) ==
    /\ missing_fr' = [ResetMissing EXCEPT ![s] = IF el = FlushAndRestart THEN @ - 1 ELSE @]
    /\ missing_end' = [missing_end EXCEPT ![s] = IF el = Terminate THEN @ - 1 ELSE @]
    /\ batch_iter' = Mapped(s, el, missing_fr'[s])
    /\ IF s = cached
       THEN cache' = Append(cache, batch_iter') /\ cache_pointer' = Len(cache')
       ELSE cache_pointer' = ResetPointer /\ UNCHANGED cache

SelectRecv(s) ==
    /\ Waiting /\ ~TerminatesDue /\ ~Replay
    /\ s \in Awaited /\ channel[s] # <<>>
    /\ ProcessSide(s, Head(channel[s]))
    /\ channel' = [channel EXCEPT ![s] = Tail(@)]
    /\ cache_full' = ResetFull
    /\ first_message' = (ResetFirst /\ ~AskFirst)
    /\ already_timed_out' = FALSE
    /\ UNCHANGED <<upstream, cached, counters, flushed_batch, panicked, observed, total>>

\* nothing to receive.  recv_timeout fails, which Start::next makes a
\* FlushBatch; recv() fails, which is a panic, when the senders are gone
SelectFails ==
    /\ Waiting /\ ~TerminatesDue /\ ~Replay
    /\ \A s \in Awaited : channel[s] = <<>>
    /\ LET timed == HasMaxDelay /\ ~already_timed_out
       IN  /\ timed \/ \A s \in Awaited : IsTerminated(s)
           /\ panicked' = ~timed
    /\ missing_fr' = ResetMissing
    /\ cache_full' = ResetFull
    /\ cache_pointer' = ResetPointer
    /\ first_message' = (ResetFirst /\ ~AskFirst)
    /\ already_timed_out' = TRUE
    /\ batch_iter' = <<FlushBatch>>
    /\ UNCHANGED <<upstream, channel, cached, missing_end, cache, counters, flushed_batch,
                   observed, total>>

Select == SelectTerminates \/ SelectCached \/ SelectFails
            \/ \E s \in Side : SelectRecv(s)
-----------------------------------------------------------------------------
(* Start::next *)

EmitTerminate ==
    /\ Running /\ missing_terminate = 0
    /\ ret' = Terminate
    /\ UNCHANGED <<upstream, channel, receiver, batch_iter, counters, flags, rounds_out, seen,
                   ends, total>>

EmitFlushAndRestart ==
    /\ Running /\ missing_terminate # 0 /\ missing_flush_and_restart = 0
    /\ missing_flush_and_restart' = NumPrevious
    /\ ret' = FlushAndRestart
    /\ rounds_out' = rounds_out + 1
    /\ seen' = [s \in Side |-> 0]
    /\ ends' = [s \in Side |-> 0]
    /\ UNCHANGED <<upstream, channel, receiver, batch_iter, missing_terminate, flags, total>>

TakeSignal ==
    /\ Proceed /\ batch_iter # <<>>
    /\ batch_iter' = Tail(batch_iter)
    /\ \/ /\ Head(batch_iter) = FlushAndRestart
          /\ missing_flush_and_restart' = missing_flush_and_restart - 1
          /\ UNCHANGED missing_terminate
       \/ /\ Head(batch_iter) = Terminate
          /\ missing_terminate' = missing_terminate - 1
          /\ UNCHANGED missing_flush_and_restart
       \/ /\ Head(batch_iter) = FlushBatch /\ flushed_batch
          /\ UNCHANGED counters
    /\ UNCHANGED <<upstream, channel, receiver, flags, observed, total>>

EmitItem ==
    /\ Proceed /\ batch_iter # <<>>
    /\ LET el == Head(batch_iter)
       IN  /\ el.kind \in {"Item", "End"} \/ (el = FlushBatch /\ ~flushed_batch)
           /\ ret' = el
           /\ flushed_batch' = (el = FlushBatch)
           /\ seen' = [seen EXCEPT ![el.side] = IF el.kind = "Item" THEN @ + 1 ELSE @]
           /\ ends' = [ends EXCEPT ![el.side] = IF el.kind = "End" THEN @ + 1 ELSE @]
    /\ batch_iter' = Tail(batch_iter)
    /\ UNCHANGED <<upstream, channel, receiver, counters, already_timed_out, panicked,
                   rounds_out, total>>

StartNext == Select \/ EmitTerminate \/ EmitFlushAndRestart \/ TakeSignal \/ EmitItem

Finished == ret = Terminate /\ UNCHANGED vars

Next == (\E r \in Prev : Upstream(r)) \/ StartNext \/ Finished

Spec == Init /\ [][Next]_vars

\* The threads are scheduled, and the streams end their rounds.
FairSpec ==
    /\ Spec
    /\ \A r \in Prev : WF_vars(Upstream(r))
    /\ WF_vars(StartNext)
-----------------------------------------------------------------------------
(* Properties *)

TypeOK ==
    /\ send_round \in [Prev -> 0 .. Rounds]
    /\ send_phase \in [Prev -> {"run", "flushed", "terminated"}]
    /\ cached \in Cached
    /\ \A s \in Side : Len(channel[s]) <= Capacity
    /\ \A s \in Side : missing_fr[s] \in 0 .. Instances(s)
    /\ \A s \in Side : missing_end[s] \in 0 .. Instances(s)
    /\ cache_pointer \in 0 .. Len(cache)
    /\ missing_terminate \in 0 .. NumPrevious
    /\ missing_flush_and_restart \in 0 .. NumPrevious
    /\ rounds_out \in 0 .. Rounds

\* A FlushAndRestart is returned only when the round is complete: exactly the
\* elements that both sides sent in it were returned, for a cached side all
\* that it ever sent, and each end was announced once, after all of the side:
\* a join drops what it keeps when it sees LeftEnd or RightEnd.
RoundComplete ==
    [][\A s \in Side :
         /\ rounds_out' # rounds_out =>
               /\ seen[s] = total[s][IF s = cached THEN 1 ELSE rounds_out + 1]
               /\ ends[s] = 1
         /\ seen'[s] > seen[s] => ends[s] = 0]_vars

\* When Terminate is returned nothing is left of either side; on the way there
\* the counters never underflow and recv() never fails: the receiver waits only
\* for a side that is not over.
NothingLost ==
    /\ TypeOK /\ ~panicked
    /\ ret = Terminate => /\ rounds_out = Rounds /\ batch_iter = <<>>
                          /\ \A s \in Side : channel[s] = <<>>

\* Terminate is returned in the end.
Terminates == <>(ret = Terminate)

\* "we need to ask to the other side FIRST to know if this is the end of the
\* stream or a new iteration is about to start" (binary.rs:235-236): nothing
\* of the cache is returned after the last round.
NoReplayAfterLastRound == rounds_out = Rounds => ret.kind \notin {"Item", "End"}
=============================================================================
