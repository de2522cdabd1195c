------------------------------- MODULE Unary --------------------------------
(***************************************************************************)
(* The operators of a chain that take one stream (src/operator/*.rs).  Each *)
(* has the state New gives it and a step (Elements).  The function an       *)
(* operator is given is one that tells values and orders apart.             *)
(***************************************************************************)
EXTENDS Elements, FiniteSets

CONSTANTS Keys,      \* keys of the elements
          BatchSize, \* elements of a full batch
          Capacity   \* entries of the cache of map_memo

Stateless == <<>>

\* the functions given to the operators, on a value <<key, x>>
Increment(v) == <<v[1], v[2] + 1>>
Odd(v) == v[2] % 2 = 1
Repeat(v) == [i \in 1..v[2] |-> <<v[1], i>>]
Rekey(v) == <<v[2] % 2>> \o v

-----------------------------------------------------------------------------
(* Operators without state *)

MapNext(s, e) == Return(s, <<map(e, Increment)>>)

FilterNext(s, e) == Return(s, IF value(e) /\ ~Odd(e.v) THEN <<>> ELSE <<e>>)

FilterMapNext(s, e) ==
    Return(s, IF value(e) /\ ~Odd(e.v) THEN <<>> ELSE <<map(e, Increment)>>)

KeyByNext(s, e) == Return(s, <<map(e, Rekey)>>)

\* The closure of inspect sees each value once, in order, before the rest of the chain.
InspectNext(s, e) == Return(IF value(e) THEN Append(s, e.v) ELSE s, <<e>>)

\* An element is replaced by the elements of its iterator, all with its timestamp.
FlatMapNext(s, e) ==
    Return(s, IF value(e) THEN MapSeq(Repeat(e.v), LAMBDA v : [e EXCEPT !.v = v]) ELSE <<e>>)

KeyedFlatMapNext(s, e) ==
    Return(s, IF value(e)
              THEN [i \in 1..e.v[2] |-> [e EXCEPT !.v = <<key(e), i>>]] ELSE <<e>>)

FlattenNext(s, e) ==
    Return(s, IF value(e) THEN MapSeq(Repeat(e.v), LAMBDA v : WithTimestamp(v, e.ts)) ELSE <<e>>)

KeyedFlattenNext(s, e) ==
    Return(s, IF value(e) THEN [i \in 1..e.v[2] |-> WithTimestamp(<<key(e), i>>, e.ts)] ELSE <<e>>)

\* The watermark of an element waits in pending_watermark for the next call of next().
AddTimestampNext(s, e) ==
    Return(s, IF e.kind \in {"timestamped", "watermark"} THEN <<Panic>>
              ELSE IF value(e) THEN <<Timestamped(e.v, e.v[2])>>
                                    \o (IF Odd(e.v) THEN <<>> ELSE <<Watermark(e.v[2])>>)
              ELSE <<e>>)

DropTimestampNext(s, e) ==
    Return(s, IF IsWatermark(e) THEN <<>> ELSE IF value(e) THEN <<Item(e.v)>> ELSE <<e>>)

-----------------------------------------------------------------------------
(* Operators that wait for the end of the round *)

FoldNew == [accumulator |-> <<>>, timestamp |-> NoTs, max_watermark |-> NoTs]

\* init.clone() on the first element, then the fold: here, all the values in order
Accumulate(accumulator, v) == Append(IF accumulator = <<>> THEN <<0>> ELSE accumulator, v[2])

FoldNext(s, e) ==
    CASE value(e) -> Return([s EXCEPT !.accumulator = Accumulate(@, e.v),
                                      !.timestamp = MaxTs(@, e.ts)], <<>>)
      [] IsWatermark(e) -> Return([s EXCEPT !.max_watermark = MaxTs(@, e.ts)], <<>>)
      [] e = FlushBatch -> Return(s, <<>>)
      [] IsEnd(e) ->
           Return(FoldNew, (IF s.accumulator = <<>> THEN <<>>
                            ELSE <<WithTimestamp(s.accumulator, s.timestamp)>>)
                           \o WatermarkIfAny(s.max_watermark) \o <<e>>)

KeyedFoldNew == [accumulators |-> [k \in Keys |-> <<>>], timestamps |-> [k \in Keys |-> NoTs],
                 max_watermark |-> NoTs]

process_item(s, k, v) == [s EXCEPT !.accumulators[k] = Accumulate(@, v)]

\* The accumulators leave the hash map in any order.
KeyedFoldNext(s, e) ==
    CASE value(e) -> Return([process_item(s, key(e), e.v)
                                EXCEPT !.timestamps[key(e)] = MaxTs(@, e.ts)], <<>>)
      [] IsWatermark(e) -> Return([s EXCEPT !.max_watermark = MaxTs(@, e.ts)], <<>>)
      [] e = FlushBatch -> Return(s, <<>>)
      [] IsEnd(e) ->
           {[s |-> KeyedFoldNew,
             out |-> MapSeq(ready, LAMBDA k : WithTimestamp(<<k>> \o s.accumulators[k],
                                                            s.timestamps[k]))
                     \o WatermarkIfAny(s.max_watermark) \o <<e>>] :
              ready \in SetToSeqs({k \in Keys : s.accumulators[k] # <<>>})}

\* buffer: the elements of the round; timestamp and max_watermark outlive it
LimitSortedNew == [buffer |-> <<>>, timestamp |-> NoTs, max_watermark |-> NoTs]

Before(a, b) == a[2] < b[2]

\* the values that are left once `offset` are skipped and `limit` are taken
Sorting(buffer, sorted, offset, limit) ==
    LET items == IF sorted THEN StableSort(buffer, Before) ELSE buffer
    IN  Slice(items, offset, limit)

LimitSortedNext(s, e, sorted, offset, limit) ==
    CASE value(e) -> Return([s EXCEPT !.buffer = Append(@, e.v), !.timestamp = MaxTs(@, e.ts)], <<>>)
      [] IsWatermark(e) -> Return([s EXCEPT !.max_watermark = MaxTs(@, e.ts)], <<>>)
      [] e = FlushBatch -> Return(s, <<>>)
      [] IsEnd(e) ->
           Return([s EXCEPT !.buffer = <<>>],
                  MapSeq(Sorting(s.buffer, sorted, offset, limit),
                         LAMBDA v : WithTimestamp(v, s.timestamp))
                  \o (IF e = Terminate THEN <<FlushAndRestart>> ELSE WatermarkIfAny(s.max_watermark))
                  \o <<e>>)

-----------------------------------------------------------------------------
(* Operators that keep elements or functions *)

ReorderNew == <<>>

ByTimestamp(a, b) == a.ts < b.ts

\* Timestamped elements wait for a watermark or for the end of the round.
ReorderNext(buffer, e) ==
    LET sorted == StableSort(buffer, ByTimestamp)
    IN  CASE e.kind = "timestamped" -> Return(Append(buffer, e), <<>>)
          [] IsWatermark(e) -> Return(SelectSeq(sorted, LAMBDA x : x.ts > e.ts),
                                      SelectSeq(sorted, LAMBDA x : x.ts <= e.ts) \o <<e>>)
          [] e = FlushAndRestart -> Return(<<>>, sorted \o <<e>>)
          [] OTHER -> Return(buffer, <<e>>)

\* maps_fn: a clone of the function per key, here with the values it was called with
RichMapNew == [k \in Keys |-> <<>>]

RichMapNext(maps_fn, e) ==
    IF ~value(e) THEN Return(maps_fn, <<e>>)
    ELSE LET called == Append(maps_fn[key(e)], e.v[2])
         IN  Return([maps_fn EXCEPT ![key(e)] = called], <<[e EXCEPT !.v = <<key(e)>> \o called]>>)

\* the cache of map_memo: pairs of a key and the result kept for it
MapMemoNew == {}

\* A full cache evicts any of its entries (quick_cache), perhaps the new one.
MapMemoNext(cache, e) ==
    LET hits == {c \in cache : value(e) /\ c[1] = e.v}
        entry == IF hits = {} THEN <<e.v, Increment(e.v)>> ELSE CHOOSE c \in hits : TRUE
        after == IF hits # {} THEN {cache}
                 ELSE {c \in SUBSET (cache \cup {entry}) : Cardinality(c) <= Capacity}
    IN  IF value(e) THEN {[s |-> c, out |-> <<[e EXCEPT !.v = entry[2]]>>] : c \in after}
        ELSE Return(cache, <<e>>)

\* the buffer of the Batcher of map_async
MapAsyncNew == <<>>

\* The batches of Batcher::enqueue: full, or (elapsed) older than the delay of the mode.
enqueue(buffer, e, elapsed) ==
    IF Len(buffer) + 1 >= BatchSize \/ elapsed THEN [batch |-> Append(buffer, e), buffer |-> <<>>]
    ELSE [batch |-> <<>>, buffer |-> Append(buffer, e)]

\* `buffered` returns the results in the order of the batch.
run_batch(batch) == MapSeq(batch, LAMBDA e : map(e, Increment))

MapAsyncNext(buffer, e) ==
    {LET q == enqueue(buffer, e, elapsed)
     IN  IF IsEnd(e) \/ e = FlushBatch
         THEN [s |-> <<>>, out |-> run_batch(q.batch \o q.buffer)]
         ELSE [s |-> q.buffer, out |-> run_batch(q.batch)] : elapsed \in BOOLEAN}

\* RoutingEnd as the receiver of one route sees it; buffer is the batch for that receiver.
RoutingEndNew(route) == [route |-> route, buffer |-> <<>>]

\* the filters of the routes, tried in order
is_match(route, v) == IF route = 1 THEN Odd(v) ELSE v[2] > 0

RoutedTo(route, v) == is_match(route, v) /\ \A r \in 1..route - 1 : ~is_match(r, v)

\* Control is sent to every route, data to the first route that matches; a batch is sent
\* when it is full, and on FlushBatch and at the ends.
RoutingEndNext(s, e) ==
    LET queued == IF e = FlushBatch \/ (value(e) /\ ~RoutedTo(s.route, e.v)) THEN s.buffer
                  ELSE Append(s.buffer, e)
        flush == Len(queued) >= BatchSize \/ e = FlushBatch \/ IsEnd(e)
    IN  IF flush THEN Return([s EXCEPT !.buffer = <<>>], queued)
        ELSE Return([s EXCEPT !.buffer = queued], <<>>)
=============================================================================
