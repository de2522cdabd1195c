# A TLA+ verification of Renoir

Renoir executes a data-flow program on many threads and hosts. The program is
cut into *blocks*; every block is replicated, a replica is a worker thread that
pulls elements through a chain of operators. A block begins with a `Start` (or a
source), which merges what the replicas of the previous blocks send, and ends
with an `End` (or a sink), which routes its output to the replicas of the next
blocks. Blocks synchronise only through the elements they exchange: items,
timestamped items, watermarks, `FlushBatch`, `FlushAndRestart` (the end of a
round of an enclosing loop) and `Terminate`.

This directory models the engine at three levels. The *protocol*: who may send
what and when, how batches, timers, sockets and loops get in the way, and why the
operators nevertheless see ordered streams, aligned rounds, valid watermarks and
an end. The *operators* of a chain, windows, joins and sinks among them, element by
element on every such stream. And the *methods* of the API, the sources and the
examples, over several replicas. TLC checks the modules on small instances; TLAPS
proves the safety of `Start`, of the timer threads and of the connections, and the
division of ranges among replicas, for every value of the constants.

## 1. Inventory

| part | source | state | operations | what makes it hard | module |
|---|---|---|---|---|---|
| Start | `operator/start/{mod,simple,watermark_frontier}.rs` | frontier map, counters of missing `FlushAndRestart`/`Terminate`, current batch, timeout flags, wait for the state | `next`, `setup` | replicas in different rounds, timeouts in any state, dropped watermarks | `Start`, `StartProofs` |
| binary Start receiver | `operator/start/binary.rs` | per side: counters, cache, pointer; `first_message` | `select`, `process_side` | which side to wait for, replay of a cached side | `BinaryStart` |
| End, batchers, channels | `operator/end.rs`, `block/batcher.rs`, `block/next_strategy.rs`, `network/network_channel.rs` | senders by block, buffers, mutexes, cancel tokens | `next`, `enqueue`, `flush`, `try_flush`, `end` | timer thread against worker, full channels, receivers that leave | `End`, `Link` |
| timer threads, start of the workers | `block/batcher.rs`, `scheduler.rs`, `worker.rs` | concurrent map of tasks, threads | `register`, `build_all`, `do_work` | threads that come and go, locks held across blocking sends | `BatchScheduler`, `BatchSchedulerProofs` |
| loops | `operator/iteration/*.rs` | stashes and contents of `Iterate`, state cell, barrier, lock generation, counters of the leader | `Iterate::next`, `IterationEnd::next`, `IterationLeader::next`, `wait_sync_state`, `lock`/`unlock` | unsynchronised cell, cyclic waits, early elements of other hosts, nesting | `Iteration` |
| deployment | `environment.rs`, `stream.rs`, `scheduler.rs`, `block/mod.rs`, `network/topology.rs`, the methods that build loops, splits and routes | job graph, replicas, connections, ports, channels | `split_block`, `binary_connection`, `split`, `route`, `iterate`, `replay`, `build_all` | every host computes the graph alone; three sources of truth about who sends to whom | `Deployment` |
| connections between hosts | `network/sync/*.rs`, `network/topology.rs` | sockets, registered senders, threads | `connect_remote`, `mux_thread`, `bind_remotes`, `demux_thread`, `finalize` | hosts that start late, data before registration, shared connections, a panic at one end | `Multiplexer`, `MultiplexerLink`, `MultiplexerProofs`, `Link` |
| operators of a chain | `operator/{map,filter,...,fold,keyed_fold,reorder,limit_sorted,route,map_async,map_memo}.rs` | accumulators, heaps, pending elements, futures, one batch per route | `next` | state spread over several calls of `next`, reset between rounds, watermarks | `Elements`, `Unary`, `Operators` |
| joins, zip | `operator/join/*.rs`, `operator/zip.rs`, `operator/interval_join.rs` | hash maps, sorted buffers, ends of the sides | `next` | sides that end in any order, state dropped early | `Join`, `Operators` |
| windows | `operator/window/` | a manager per key, open windows, accumulators, wall clock | `process`, `recycle` | windows opened and closed by elements, watermarks and ends | `Windows`, `Operators` |
| sinks | `operator/sink/*.rs` | what was collected, written, flushed | `next` | several rounds, when a writer is finalised | `Sinks`, `Operators` |
| methods of streams | `operator/mod.rs`, `operator/join/{ship,keyed_join}.rs`, `operator/merge.rs`, `operator/iteration/*.rs` | what each replica holds | the methods of `Stream` and `KeyedStream` that exchange data | hashes, placements and orders of arrival; partial results that must meet | `Streams`, `Pipelines` |
| sources, caches | `operator/source/*.rs`, `operator/cache/*.rs` | byte ranges, retries, registry of a cache | `setup`, `next` | borders between replicas, waiting without a flush | `Sources`, `SourcesProofs`, `Pipelines` |
| examples | `examples/*.rs` | | whole programs | | `Examples`, `Pipelines` |

`PROJECT.json` lists all the parts with what is left out of each; section 8 says why.

## 2. The modules

All definitions keep the names of the fields and functions of the source, and
`PROJECT.json` maps each of them to its lines. Operators whose name extends that
of the definition after it (`FinalizeEarly` before `Finalize`) are mutated forms:
plausible mistakes in that code, each of which violates the property it is listed
with. No specification uses them.

**Deployment.** A program is any sequence of at most `MaxOps` calls that create
blocks; `blocks` and `edges` are the job graph that every host builds alike. Then
`BuildAll(h)` does on one host all that the main thread does before the workers
run: it places the replicas (`Instances`), connects them (`Connected`), numbers
the sockets (`Addresses`) and sets up the workers, whose operators ask for
receivers and senders. All items have one type, which is the worst case for a
topology that keeps channels by type. `WellFormed` is the condition in the doc of
`NextStrategy::OnlyOne`; only `replication` can break it.

**Start.** `Upstream(r)` is the `End` of a previous replica: it sends a bounded
number of timestamped items and watermarks that honour its own watermarks, then
`FlushAndRestart`, waits for Start to close the round before it starts the next
(this is what the loop guarantees, see `Iteration!ReadsOwnIteration`), and finally
`Terminate`. `StartNext` is one step of the loop in `Start::next`, with the
early returns in the order of the code. `Timestamped` stands for `Item` too. A
batch holds one element: batching only makes elements of one sender travel
together. Auxiliary variables: `got`, `out_wm`, `rounds_out`, `unflushed`.

**BinaryStart.** The receiver for two previous blocks under the same loop of
`Start::next`, reduced to what the receiver influences. `Cached` picks the side
that comes from outside the loop; `select` is split by outcome (made-up
`Terminate`, replay of the cache, a message, a timeout or a disconnection).

**End, Link.** A call of `End::next` is turned into the list of operations on
batchers it performs (`todo`); an operation that must send holds the mutex of its
batcher while the channel is full. The timer thread tries the registered batchers
in turn. The order in which the network hands out the senders is arbitrary in
`Init`. `Link` is the promise: one reliable FIFO queue per pair of replicas.
`RefinesLink` maps channel, send under way and buffer to that queue.

**BatchScheduler.** `build_all` sets up and starts the workers of a pipeline one
after the other; setting one up registers its batcher in the concurrent map. The
timer thread holds the entry while it scans it; tasks take the batcher's mutex.

**Iteration.** A loop made by `Stream::iterate` with a one-block body reached by
a shuffle, on several hosts: the threads of `Iterate`, of the body, of a side
branch that does not reach `IterationEnd`, of `IterationEnd` and of the leader.
Elements carry the iteration in which they were sent, as history.

**Multiplexer.** Several hosts send to the replicas of one block on another host.
A host has one multiplexer; `bind_remotes` accepts one connection for each and
tells the demultiplexers the endpoints when the topology has been finalised. The
framing is abstracted: a message is written and read whole. `MultiplexerLink` holds
the refinement mapping to `Link`.

**Elements, Unary, Join, Windows, Sinks.** An operator of a chain is a state and a
step. A step takes one element from the operator before it and yields a set of
results: the state it is left in, and the elements it returns in all the calls of
`next` that this element answers. More than one result means a choice the code does
not make: the iteration order of a hash map, the clock, the order in which futures
are polled. The user's function is one that tells values and orders apart. In
`Windows` a description `d` selects the manager (count, event time, processing
time, session, transaction, last k, all) and the accumulator; the wall clock moves
by any of `Ticks` between two elements. In `Join` the end of a side is an element,
as in the code. In `Sinks` the state keeps what has left the process.

**Operators.** One of these operators on every legal stream: rounds of elements,
watermarks and flushes, each ended by `FlushAndRestart`, then `Terminate`. That
upstream is what `Start` is shown to provide (`WatermarkSafe`, `RoundsAligned`,
`NothingLost`). `RightData` is the reference: what a round returns as a function of
that round's data alone, by set and sequence definitions (all matching pairs of a
join, the windows of a sequence, the fold of the values).

**Streams, Examples.** The methods as functions of the *partitions* of a stream,
what every replica holds of one round. The operators inside a block are those above,
taken by what a round of them returns; what these modules model is how a method
ships, partitions, folds twice, broadcasts, iterates and collects. Hashes,
placements and orders of arrival are parameters (`sched`). `Examples` are programs
over these methods, each with the answer it should give, defined directly.

**Sources.** A line is its length in bytes, a file a sequence of lines; `file`,
`csv` and `range` compute the share of a replica with the arithmetic of the code.
The sources that wait (channel, Kafka, asynchronous streams) are machines that
answer `next`, with the retries before they block. The registry of a cache counts the sinks that are
missing.

**Pipelines, Library.** `Pipelines` executes one call (a method, an example, a
source, or a cache written in one execution and read in the next) on every small
input, schedule and placement. `Library` joins `Operators` and `Pipelines`: a
behaviour is one operator in a chain, or one call over all the replicas.

## 3. The runs

Each `MC*.tla` only names model values and jobs. Where a component is used in
several ways, a constant `Jobs` lists them, `Init` picks one in the variable
`job`, and no step changes it: one run then answers the question for all of them.

| run | instance | distinct states | what it shows |
|---|---|---|---|
| `deployment` | programs of 3 calls; a local job on 2 cores, hosts with 2 and 1 cores, 3 hosts with 1 | 24 432 | the setup of a well formed graph does not panic and every replica has its successors; hosts agree on ports and numbers of connections; `Start` counts exactly the replicas that send to it |
| `start` | 2 replicas, 2 rounds, timestamps 0..2, 2 elements a round | 308 813 | watermarks are safe and only grow; rounds align; the state of the iteration precedes its data; nothing is lost at `Terminate`, which is always returned; the inductive invariant of the proof holds |
| `binary_start` | 2 left, 1 right replica, none/left/right cached, 2 rounds | 78 034 | in every round exactly what was sent is returned, each end announced once and last; `recv` never meets a closed channel; termination, also when the `Terminate`s of the cached side are made up |
| `end` | jobs: all batch modes and strategies, two replicas with two next blocks, split over 2 rounds, a loop whose start leaves first | 86 691 | all replicas send a key to the same place; refinement of `Link`; nothing stays in a batch after a flush; no send to a receiver that is gone; a `Timed` batch is sent although the block is silent; everyone leaves |
| `batch_scheduler` | 4 workers | 39 939 | no batcher is lost or left without a thread; every batcher is visited |
| `iteration` | jobs: 3 replicas on 2 hosts, no element; 2 replicas on 2 hosts, 2 runs; 2 replicas on a host with a side branch; 2 iterations each | 229 580 | the cell is not written while it may be read; iterations never mix; clean restart; every element is in exactly one place and leaves in the end; every thread terminates |
| `multiplexer` | jobs: 2 hosts with a sender each; 1 host with 2 senders, where an endpoint may panic; 2 endpoints | 136 333 | endpoints are known before data is read; joined threads have delivered everything; refinement of `Link`; the network threads end and the other endpoints receive everything |
| `library` | 65 jobs, an operator with its parameters each, on streams of one or two rounds with up to 4 elements; 44 methods, 16 examples and 14 sources on 2 replicas (sources on up to 4) | 510 964 | an operator forwards every end once and in its place, never returns an element behind its watermark, and computes a round from that round alone; a method returns what it returns on one replica and keeps a key together where it promises to; a source that blocks has asked for a flush |

The remaining four runs are expected to fail; see section 6.

## 4. Bounds

Two replicas are the least that can disagree on a round, a watermark or a route;
three in `iteration` put two on one host and one on another, so that the barrier
and the lock are shared by part of the replicas (no element enters that loop; those
of two replicas have one, on one host and on two). Two rounds
exercise every reset. Capacities of 1 or 2 make every channel both full and empty;
the code's `CHANNEL_CAPACITY` is larger, which only removes blocking. `MaxSent`
bounds elements per round, never control messages. `ConnectAttempts` 2 has a
failure, a retry and a success. Three calls in `deployment` are a source followed
by a loop and another operator, or two sources and a binary one; three hosts are
the least for a channel that does not concern one of them. In `library` a first
round of one element is enough to leave something behind for the second; up to
four elements fill a window and overlap the next (two where an operator looks at one
element at a time, or three timestamps multiply the cases), give two elements to each side of
a join, and overtake each other; timestamps 0..2 have one strictly between two
watermarks. Two replicas and two hash buckets separate and mix any two keys; the
sources divide ranges of up to 10 numbers and files of up to 3 lines of 1 to 3
bytes, so that borders fall before, in and after a line. No run uses symmetry: most of them check liveness
together with safety.

## 5. Fairness

Threads are scheduled by the operating system, so every thread has weak fairness
on its step as a whole; `Iteration` asks for less, that some thread that can take
a step does. Strong fairness appears in two places: in `End`, for the operators
before it to end their round (they may ask for flushes any number of times, but
the input is finite), and in `Multiplexer`, for a send that competes with others
for the channel of a multiplexer (the library serves waiting senders in order).
The input of a block may stay silent: `FairSpec` of `End` and `SilentSpec` of
`BatchScheduler` have no fairness on it, and `End!Terminates` states the fairness
of the input as its hypothesis, so that `TimedFlush` is checked without it.
`Library` states no fairness: it checks only safety, and an operator whose input
stays silent may wait.

## 6. Disagreements with the repository's documentation

Each is a run in which TLC violates a statement made in a comment or doc; the
statement is quoted in `PROJECT.json`.

1. `start_batch`: after a timeout, `Start` waits without a timeout although a
   watermark it returned has not been flushed (`start/mod.rs:257`, `:279`); the
   comment says the batch is empty.
2. `iteration_side`: a branch of the body that does not lead to `IterationEnd`
   can be reading the state cell while it is written (`state_handler.rs:121`).
3. `batch_scheduler_start`: setting up a later worker, the timer and a blocked
   worker can wait for each other forever (`batcher.rs:327`).
4. `binary_start_replay`: after the last round the cached side may be replayed
   once more (`binary.rs:240`). The same sentence of the doc of `Terminate` fails
   for a `FlushBatch` that a timeout makes `Start` return there (`start/mod.rs:303`).

Found while modelling the operators, and not runs of their own. The models follow
the code in each case, and `RightData` and the jobs avoid asking for more:

* `alloc_windows` jumps to the last watermark to "Skip empty windows"
  (`event_time.rs:23`). With a slide smaller than the size it also skips windows
  that begin before the watermark and end after it, which are not empty: with size 4
  and slide 2 TLC finds an element missing from one of its two windows. The run
  `library` asks of sliding windows that every element is in some window that covers
  it, and in no other.
* `unique_assoc_by_key` "will contain exactly one occurrence for each unique key"
  (`operator/mod.rs:981-982`), but lets an element pass when `insert` says that the
  key was there (`:1001`), and partitions by the element, not by its key.
* An element older than the first event-time window of its key is dropped silently;
  the result of an event-time window may carry the timestamp of the watermark that
  closed it, which is why `WatermarkSafe` allows equality there.
* `AllWindow` panics at `FlushAndRestart` for a key that had elements only in an
  earlier round (`all.rs:38-41`); a transaction left open goes on in the next round;
  `rich_map` keeps its closure's state across rounds.
* `LimitSorted` returns one more `FlushAndRestart` before `Terminate`.
* The source of Kafka returns `Terminate` without a `FlushAndRestart` when its
  reader disconnects (`kafka.rs:118-151`); the sink does not wait for what it sent
  (`sink/kafka.rs`).

## 7. The proofs

`StartProofs` proves, for any finite set of previous replicas and any number of
rounds, elements, timestamps and channel capacity: `TypeCorrect`,
`WatermarksAreSafe`, `FrontierIsPublished`, `RoundsAreAligned`,
`StateIsPublishedBeforeData`, `NothingIsLost` and `WatermarksOnlyGrow`. The
assumptions are those named in `Start`; the constants have the types of the code.

None of these invariants is inductive. That a returned item is above the returned
watermark depends on what every replica may still send, hence on the messages in
flight and on their order. The inductive invariant `IInv` therefore says:

* `OrderInv`: the messages in flight of one sender are in the order it sent them;
* `MessageInv`: each belongs to the round of `Start` and is above the last
  watermark of its sender that `Start` has seen;
* `SenderInv`: a replica is in the round of `Start`, or has ended it and its
  `FlushAndRestart` is in flight or counted;
* `CountInv`: the two counters are the cardinalities of the sets of replicas they
  stand for, which is why they never underflow;
* `FrontierInv`: the frontier is the minimum over the replicas, is not behind what
  was returned, and a replica that has ended the round counts as the maximum;
* `StateInv`: the generation awaited is twice the number of closed rounds.

`Pending` and `Msg` number the current batch and the channel as one queue. Lemmas
state how this queue changes when a message is sent, taken or finished; then there
is one lemma per action, and `InductiveInvariant` combines them. TLC checks `IInv`
in the run `start` first. The other theorems follow from `IInv`; `WatermarksOnlyGrow`
also uses that raising one entry of the map never lowers the minimum.

`BatchSchedulerProofs` proves `EntryIsServed` (`EntryHasThread`) and `NoTaskIsLost`
(`NoTaskLost`) for any number of workers and batches and any capacity. Neither is
inductive: that `remove_if` throws away no batcher needs that the thread that holds
the entry is the only one to scan it (`GuardInv`), that the entry holds each
batcher at most once and only registered ones (`TasksInv`), and that a registered
batcher leaves it only when cancelled (`KeptInv`). `FlowInv`, on the batches between
two workers, is what keeps the counters in their types. One lemma per action;
`RemoveAtKeeps` says what a list is after one task was dropped.

`MultiplexerProofs` proves `NoUnknownEndpoint` and `JoinedIsDrained`
(`FinishedIsEmpty`) for any set of hosts, replicas and endpoints, any job and any
capacities. `KnownInv`: an endpoint that is not known to all the demultiplexers is
still to be registered, or with `bind_remotes`, or in the queue of each
demultiplexer that lacks it; and no demultiplexer reads its connection before all of
that is empty. `DrainedInv`: a connection is shut down only after its last message,
and left only when it is empty. The type invariant that `EndpointsKnown` includes
bounds what is received by what is sent; that part is a count over three queues and
stays with TLC.

`SourcesProofs` proves `RangeIsPartitioned` and `RangeU64IsPartitioned`: for every
`lo <= hi` and every number of replicas the chunks of the two versions of
`generate_iterator` are disjoint and together the range, although the last ones may
be short, empty or begin past its end. The integers are unbounded there: that
`hi - lo` fits its type is assumed, as in the code.

Only model-checked: all liveness (fairness is out of the reach of the prover), the
refinements of `Link`, and the invariants of the other modules. What the operators
compute (`RightData`, `Streams`) is defined by folds over sequences; a proof for
every stream needs induction over data, which is out of its reach too.

## 8. Not modelled, and why

* Formats and input/output without protocol state: the encoding of CSV, Avro,
  Parquet and of frames, ssh, parsing of configurations, profiling, graph output.
* The `tokio` variants of the network threads and of the timers, off by default;
  `channel.rs`, which wraps a library and is a bounded queue wherever it is used.
* `Replay` has no thread model of its own: it shares leader, state handler and lock
  with `Iterate`, which `Iteration` models. `iterate_delta` composes a loop with
  joins and closures of the user.
* `rich_map_custom`, whose closure pulls the operator before it; `boxed`, the
  `*_arc` variants and the wrappers on keyed streams, which only forward.
* Capacities of the channels inside a loop: nothing in the repository bounds what a
  body may send, so there is no statement to check.
* Examples in floating point (pagerank, k-means, logistic regression), and those
  made of windows over time (nexmark 4 to 8, the windowed word counts): their
  operators are in `Windows`, their answers depend on the clock or on rounding.
* Not compiled: `map_async_memo.rs`, `window/aggr/{collect,columnar,first,last}.rs`,
  and `cache/vec.rs` from line 38.

Next would be the counting invariant of `BinaryStart`, the refinement of `Link` by
`End` and by `MultiplexerLink`, and `HostsAgree` and `CountersMatch` for every
program and configuration, as proofs.
