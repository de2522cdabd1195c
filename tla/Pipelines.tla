----------------------------- MODULE Pipelines ------------------------------
(***************************************************************************)
(* Executions of one method of the API, of one example or of one source, on *)
(* every small input, every placement of its elements, every hash and every *)
(* order of the senders.  A call is a method m, its input and the input of  *)
(* the other stream of a method of two.                                     *)
(***************************************************************************)
EXTENDS Examples, Sources, Bags

CONSTANTS Calls,      \* the methods and their inputs
          BatchSize,  \* of the cache on file
          NumIter,    \* iterations of the examples with a loop
          Peers       \* most replicas of a source

VARIABLES call,     \* chosen at the start
          done,     \* the method has returned
          result,   \* the partitions it returned
          expected, \* what it promises, as one sequence
          queue, open, \* input of a source that waits and whether its producer is there
          reps,     \* state of the replicas of a source, and what each returned
          cache     \* registry of a cached stream

vars == <<call, sched, done, result, expected, queue, open, reps, cache>>

\* An execution puts element i of the input on replica place[i].
Placed(q, from) == Strict([r \in Replica |-> LET at == SelectSeq([i \in DOMAIN q |-> i], LAMBDA i : sched.place[from + i] = r)
                                     IN  [j \in DOMAIN at |-> q[at[j]]]])
S == Placed(call.in, 0)
T == Placed(call.rhs, Len(call.in))

Waits == {"channel", "kafka", "async_stream"}
Divided == {"file", "csv", "csv_headers", "range", "range_u64", "nexmark_events", "topic_source"}
Iterated == {"iterator", "avro", "parquet"}
Spread == call.m \notin Waits \cup Divided \cup Iterated   \* the input is on the replicas
Orders == {o \in [Replica -> Replica] : IsInjective(o)}
Free(free, set) == IF free THEN set ELSE {CHOOSE x \in set : TRUE}

Init ==
    /\ call \in Calls
    /\ sched \in [place : Free(Spread, [1..Len(call.in) + Len(call.rhs) -> Replica]),
                  hash : Free(Spread /\ call.m # "cache", [1..Buckets -> Replica]),
                  order : Free(Spread /\ call.m # "cache", Orders),
                  random : Free(call.m = "shuffle", [1..2 -> Replica]),
                  race : Free(call.m = "unique_assoc", BOOLEAN),
                  host : Free(call.m \in {"unique_assoc", "collect_all"}, {[r \in Replica |-> 1], [r \in Replica |-> r]})]
    /\ done = FALSE /\ result = <<>> /\ expected = <<>>
    /\ queue = IF call.m \in Waits THEN <<>> ELSE call.in
    /\ open = (call.m \in Waits)
    /\ reps = [r \in Replica |-> [s |-> SourceNew, out |-> <<>>, phase |-> "new", acc |-> [buf |-> <<>>, file |-> <<>>]]]
    /\ cache = CacheRegistryNew

-----------------------------------------------------------------------------
(* What the methods promise: the same on one sequence *)

Key(v) == <<v[1]>>
Val(v) == v[2]
Sum(a, b) == <<a[1] + b[1], a[2] + b[2]>>
Id(v) == v
Less(a, b) == a[1] < b[1] \/ (a[1] = b[1] /\ a[2] < b[2])

MapQ(q, f(_)) == Strict([i \in DOMAIN q |-> f(q[i])])
SumQ(q) == FoldLeft(LAMBDA a, v : a + Val(v), 0, q)
OnlyKey(q, keyer(_), k) == SelectSeq(q, LAMBDA v : keyer(v) = k)
PerKey(q, keyer(_), F(_)) ==
    LET ks == Listing({keyer(q[i]) : i \in DOMAIN q})
    IN  MapQ(ks, LAMBDA k : [k |-> k, v |-> F(OnlyKey(q, keyer, k))])
Keyed(q, keyer(_)) == MapQ(q, LAMBDA v : [k |-> keyer(v), v |-> v])
NonEmpty(q, x) == IF q = <<>> THEN <<>> ELSE <<x>>
PairsOf(q, p, pair(_, _)) ==
    FlattenSeq(MapQ(q, LAMBDA v : MapQ(OnlyKey(p, Key, Key(v)), LAMBDA w : pair(v, w))))
Alone(q, p) == SelectSeq(q, LAMBDA v : OnlyKey(p, Key, Key(v)) = <<>>)
Words(q) == MapQ(FlattenSeq(q), LAMBDA w : <<w>>)
CountOf(q) == MapQ(PerKey(q, Id, Len), LAMBDA e : e.k \o <<e.v>>)

Inner(q, p) == PairsOf(q, p, LAMBDA v, w : [k |-> Key(v), v |-> <<v, w>>])
InnerOptions(q, p) == PairsOf(q, p, LAMBDA v, w : [k |-> Key(v), v |-> <<<<v>>, <<w>>>>])
LeftAlone(q, p) == MapQ(Alone(q, p), LAMBDA v : [k |-> Key(v), v |-> <<<<v>>, <<>>>>])
Outer(q, p) == InnerOptions(q, p) \o LeftAlone(q, p) \o MapQ(Alone(p, q), LAMBDA w : [k |-> Key(w), v |-> <<<<>>, <<w>>>>])
LeftJoined(q, p) == PairsOf(q, p, LAMBDA v, w : [k |-> Key(v), v |-> <<v, <<w>>>>])
                    \o MapQ(Alone(q, p), LAMBDA v : [k |-> Key(v), v |-> <<v, <<>>>>])

\* graphs, for sets of edges
Undirected(q) == {<<q[i][1], q[i][2]>> : i \in DOMAIN q} \cup {<<q[i][2], q[i][1]>> : i \in DOMAIN q}
Closure(E, V) ==
    LET R[n \in 0..Cardinality(V)] == IF n = 0 THEN E
            ELSE R[n - 1] \cup {<<x, y>> \in V \X V : \E z \in V : <<x, z>> \in R[n - 1] /\ <<z, y>> \in R[n - 1]}
    IN  R[Cardinality(V)]
Vertices(q) == UNION {{q[i][1], q[i][2]} : i \in DOMAIN q}
Triangles(q) == LET E == Undirected(q)
                    V == Vertices(q)
                IN  Cardinality({t \in V \X V \X V : t[1] < t[2] /\ t[2] < t[3]
                                    /\ <<t[1], t[2]>> \in E /\ <<t[2], t[3]>> \in E /\ <<t[1], t[3]>> \in E})

AtFirst(x) == [r \in Replica |-> IF r = 1 THEN <<x>> ELSE <<>>]
EveryHost(q) == FlattenSeq(MapQ(Listing(FirstOfHost), LAMBDA r : q))

-----------------------------------------------------------------------------
\* A method runs on the streams of the call; `promised` is what it says it returns.
Call(m, returned, promised) ==
    /\ call.m = m
    /\ ~done
    /\ done' = TRUE
    /\ result' = returned
    /\ expected' = promised
    /\ UNCHANGED <<call, sched, queue, open, reps, cache>>

CallRepartitionBy == Call("repartition_by", key_by(repartition_by(S, Key), Key), Keyed(call.in, Key))
CallGroupBy == Call("group_by", group_by(S, Key), Keyed(call.in, Key))
CallRoute ==
    Call("route", LET both == route(S, LAMBDA i, v : v[i] = 1, 2) IN merge(smap(both[1], LAMBDA v : <<1>> \o v), smap(both[2], LAMBDA v : <<2>> \o v)),
            FlattenSeq(MapQ(call.in, LAMBDA v : IF v[1] = 1 THEN <<<<1>> \o v>> ELSE IF v[2] = 1 THEN <<<<2>> \o v>> ELSE <<>>)))

Repartitioning ==
    \/ CallRepartitionBy \/ CallGroupBy \/ CallRoute
    \/ Call("replication", replication(S, "One"), call.in)
    \/ Call("shuffle", shuffle(S), call.in)
    \/ Call("broadcast", broadcast(S), FlattenSeq([r \in Replica |-> call.in]))
    \/ Call("split", LET both == split(S, 2) IN merge(both[1], both[2]), call.in \o call.in)
    \/ Call("to_rows", to_rows(S), MapQ(FlattenSeq(call.in), LAMBDA n : <<n>>))
    \/ Call("merge", merge(S, T), call.in \o call.rhs)
    \/ Call("collect", collect(S), call.in)
    \/ Call("collect_vec", collect_vec(S), call.in)
    \/ Call("collect_channel", collect_channel(S), call.in)
    \/ Call("collect_channel_parallel", collect_channel_parallel(S), call.in)
    \/ Call("collect_all", collect_all(S), EveryHost(call.in))
    \/ Call("collect_count", collect_count(S), <<<<Len(call.in)>>>>)

CallFold == Call("fold", fold(S, <<0, 0>>, Sum), NonEmpty(call.in, FoldLeft(Sum, <<0, 0>>, call.in)))
CallFoldAssoc == Call("fold_assoc", fold_assoc(S, <<0, 0>>, Sum, Sum), NonEmpty(call.in, FoldLeft(Sum, <<0, 0>>, call.in)))
CallReduce == Call("reduce", reduce(S, Sum), NonEmpty(call.in, FoldLeft(Sum, <<0, 0>>, call.in)))
CallReduceAssoc == Call("reduce_assoc", reduce_assoc(S, Sum), NonEmpty(call.in, FoldLeft(Sum, <<0, 0>>, call.in)))
CallGroupByFold ==
    Call("group_by_fold", group_by_fold(S, Key, <<0, 0>>, Sum, Sum), PerKey(call.in, Key, LAMBDA q : FoldLeft(Sum, <<0, 0>>, q)))
CallGroupByReduce ==
    Call("group_by_reduce", group_by_reduce(S, Key, Sum), PerKey(call.in, Key, LAMBDA q : FoldLeft(Sum, <<0, 0>>, q)))
CallGroupByMaxElement ==
    Call("group_by_max_element", group_by_max_element(S, Key, Val),
            PerKey(call.in, Key, LAMBDA q : CHOOSE v \in ToSet(q) : \A w \in ToSet(q) : Val(v) >= Val(w)))
CallGroupByMinElement ==
    Call("group_by_min_element", group_by_min_element(S, Key, Val),
            PerKey(call.in, Key, LAMBDA q : CHOOSE v \in ToSet(q) : \A w \in ToSet(q) : Val(v) <= Val(w)))
CallGroupBySum == Call("group_by_sum", group_by_sum(S, Key, Val), PerKey(call.in, Key, LAMBDA q : <<SumQ(q)>>))
CallGroupByAvg == Call("group_by_avg", group_by_avg(S, Key, Val), PerKey(call.in, Key, LAMBDA q : <<SumQ(q), Len(q)>>))
CallGroupByCount == Call("group_by_count", group_by_count(S, Key), PerKey(call.in, Key, LAMBDA q : <<Len(q)>>))
CallKeyedFold ==
    Call("keyed_fold", keyed_fold(group_by(S, Key), <<0, 0>>, Sum), PerKey(call.in, Key, LAMBDA q : FoldLeft(Sum, <<0, 0>>, q)))
CallKeyedReduce ==
    Call("keyed_reduce", keyed_reduce(group_by(S, Key), Sum), PerKey(call.in, Key, LAMBDA q : FoldLeft(Sum, <<0, 0>>, q)))
CallFoldScan ==
    Call("fold_scan", fold_scan(S, <<0, 0>>, Sum, Sum, <<0, 0>>, LAMBDA v, total : v \o total),
            MapQ(call.in, LAMBDA v : v \o FoldLeft(Sum, <<0, 0>>, call.in)))
CallReduceScan ==
    Call("reduce_scan", reduce_scan(S, Id, Sum, LAMBDA v, total : v \o total),
            MapQ(call.in, LAMBDA v : v \o FoldLeft(Sum, <<0, 0>>, call.in)))
CallKeyedFoldScan ==
    Call("keyed_fold_scan", keyed_fold_scan(group_by(S, Key), <<0, 0>>, Sum, LAMBDA total, v : v \o total),
            MapQ(Keyed(call.in, Key), LAMBDA e : [e EXCEPT !.v = @ \o FoldLeft(Sum, <<0, 0>>, OnlyKey(call.in, Key, e.k))]))
CallKeyedReduceScan ==
    Call("keyed_reduce_scan", keyed_reduce_scan(group_by(S, Key), Id, Sum, LAMBDA total, v : v \o total),
            MapQ(Keyed(call.in, Key), LAMBDA e : [e EXCEPT !.v = @ \o FoldLeft(Sum, <<0, 0>>, OnlyKey(call.in, Key, e.k))]))
CallIterate ==
    Call("iterate", iterate(S, NumIter, 0, LAMBDA q, state : smap(q, LAMBDA v : <<v[1] + state, v[2]>>), 0, LAMBDA l, v : l + v[2],
                               LAMBDA g, l : g + l, LAMBDA g : [state |-> g, more |-> g < 4]).items,
            LET total[i \in 0..NumIter] == IF i = 0 THEN 0 ELSE IF i > 1 /\ total[i - 1] >= 4 THEN total[i - 1] ELSE total[i - 1] + SumQ(call.in)
                ran == {i \in 1..NumIter : \A j \in 1..i - 1 : total[j] < 4}
                added == FoldLeft(LAMBDA a, i : IF i \in ran THEN a + total[i - 1] ELSE a, 0, [i \in 1..NumIter |-> i])
            IN  MapQ(call.in, LAMBDA v : <<v[1] + added, v[2]>>))
CallReplay ==
    Call("replay", AtFirst(<<replay(S, NumIter, 0, LAMBDA q, state : smap(q, LAMBDA v : <<v[1] + state, v[2]>>), 0, LAMBDA l, v : l + v[1],
                                       LAMBDA g, l : g + l, LAMBDA g : [state |-> g, more |-> TRUE])>>),
            LET ones == FoldLeft(LAMBDA a, v : a + v[1], 0, call.in)
                state[i \in 0..NumIter] == IF i = 0 THEN 0 ELSE state[i - 1] + ones + Len(call.in) * state[i - 1]
            IN  <<<<state[NumIter]>>>>)

Folding ==
    \/ CallFold \/ CallFoldAssoc \/ CallReduce \/ CallReduceAssoc \/ CallGroupByFold
    \/ CallGroupByReduce \/ CallGroupByMaxElement \/ CallGroupByMinElement \/ CallGroupBySum \/ CallGroupByAvg
    \/ CallGroupByCount \/ CallKeyedFold \/ CallKeyedReduce \/ CallFoldScan \/ CallReduceScan
    \/ CallKeyedFoldScan \/ CallKeyedReduceScan \/ CallIterate \/ CallReplay
    \/ Call("unique_assoc", unique_assoc(S), Listing(ToSet(call.in)))

CallJoin == Call("join", join(S, T, Key, Key), Inner(call.in, call.rhs))
CallLeftJoin == Call("left_join", left_join(S, T, Key, Key), LeftJoined(call.in, call.rhs))
CallOuterJoin == Call("outer_join", outer_join(S, T, Key, Key), Outer(call.in, call.rhs))
CallJoinBroadcast == Call("join_broadcast", join_with_broadcast(S, T, Key, Key, "inner"), InnerOptions(call.in, call.rhs))
CallLeftJoinBroadcast ==
    Call("left_join_broadcast", join_with_broadcast(S, T, Key, Key, "left"),
            InnerOptions(call.in, call.rhs) \o LeftAlone(call.in, call.rhs))
CallSortedLimitBy ==
    Call("sorted_limit_by", sorted_limit_by(ToOne(S), Less, 1, 2),
            SubSeq(SortSeq(call.in, Less), 2, Smaller(3, Len(call.in))))

Joining ==
    \/ CallJoin \/ CallLeftJoin \/ CallOuterJoin \/ CallJoinBroadcast \/ CallLeftJoinBroadcast
    \/ CallSortedLimitBy
    \/ Call("keyed_join", keyed_join(group_by(S, Key), group_by(T, Key)), Inner(call.in, call.rhs))
    \/ Call("keyed_join_outer", keyed_join_outer(group_by(S, Key), group_by(T, Key)), Outer(call.in, call.rhs))
    \/ Call("zip", smap(zip(S, T), LAMBDA v : <<Len(v)>>), [i \in 1..Smaller(Len(call.in), Len(call.rhs)) |-> <<4>>])

RunningExamples ==
    \/ Call("wordcount", wordcount(S), CountOf(Words(call.in)))
    \/ Call("wordcount_assoc", wordcount_assoc(S), CountOf(Words(call.in)))
    \/ Call("wordcount_opt", wordcount_opt(S),
            NonEmpty(call.in, [w \in ToSet(Words(call.in)) |-> Len(OnlyKey(Words(call.in), Id, w))]))
    \/ Call("kafka_wordcount", kafka_wordcount(S),
            FlattenSeq(MapQ(PerKey(Words(call.in), Id, Len), LAMBDA e : [i \in 1..e.v |-> e.k \o <<i>>])))
    \/ Call("simple", smap(simple(S), LAMBDA v : <<v[1], Len(v) - 1>>),
            MapQ(PerKey(call.in, LAMBDA v : <<v[1] % 5>>, LAMBDA q : 2 * Len(q)), LAMBDA e : e.k \o <<e.v>>))
    \/ Call("collatz", collatz(S, NumIter),
            NonEmpty(call.in, LET steps == {<<Steps(call.in[i][1], NumIter), call.in[i][1]>> : i \in DOMAIN call.in}
                             IN  CHOOSE a \in steps : \A b \in steps : Greater(a, b)))
    \/ Call("triangles_fold", triangles_fold(S), IF Triangles(call.in) = 0 THEN <<>> ELSE <<<<Triangles(call.in)>>>>)
    \/ Call("triangles_rich_map", triangles_rich_map(S), IF Triangles(call.in) = 0 THEN <<>> ELSE <<<<Triangles(call.in)>>>>)
    \/ Call("connected_components", AtFirst(connected_components(S, T, NumIter)),
            LET V == {call.in[i][1] : i \in DOMAIN call.in}
                R == Closure(Undirected(call.rhs), V)
            IN  <<[x \in V |-> Min({x} \cup {y \in V : <<x, y>> \in R})]>>)
    \/ Call("transitive_closure", transitive_closure(S, NumIter),
            Listing({p \in Closure(ToSet(call.in), Vertices(call.in)) : p[1] # p[2]}))
    \/ Call("accidents1", accidents1(S), MapQ(PerKey(call.in, Key, LAMBDA q : SumQ(MapQ(q, LAMBDA a : <<0, Lethal(a)>>))), LAMBDA e : e.k \o <<e.v>>))
    \/ Call("accidents2", accidents2(S),
            LET factors == {f \in UNION {{call.in[i][4], call.in[i][5]} : i \in DOMAIN call.in} : f # 0}
                With(f) == SelectSeq(call.in, LAMBDA a : f \in {a[4], a[5]})
            IN  MapQ(Listing(factors), LAMBDA f : <<f, Len(With(f)), SumQ(MapQ(With(f), LAMBDA a : <<0, Lethal(a)>>))>>))
    \/ Call("accidents3", LET out == accidents3(S) IN merge(out.res, out.avg_per_week),
            LET Totals(q) == <<Len(q), SumQ(MapQ(q, LAMBDA a : <<0, Lethal(a)>>))>>
                By(keyer(_)) == MapQ(PerKey(call.in, keyer, Totals), LAMBDA e : e.k \o e.v)
            IN  By(LAMBDA a : <<a[2], a[1]>>) \o By(LAMBDA a : <<a[2], a[1] % 100>>))
    \/ Call("nexmark1", nexmark1(S), MapQ(SelectSeq(call.in, LAMBDA e : e[1] = 3), LAMBDA b : [b EXCEPT ![3] = (@ * 908) \div 1000]))
    \/ Call("nexmark2", nexmark2(S), SelectSeq(call.in, LAMBDA e : e[1] = 3 /\ e[2] % 123 = 0))
    \/ Call("nexmark3", nexmark3(S),
            LET persons == SelectSeq(call.in, LAMBDA e : e[1] = 1 /\ e[3] \in 1..3)
                auctions == SelectSeq(call.in, LAMBDA e : e[1] = 2 /\ e[4] = 10)
            IN  FlattenSeq(MapQ(persons, LAMBDA p : MapQ(SelectSeq(auctions, LAMBDA a : a[3] = p[2]), LAMBDA a : p \o <<a[2]>>))))

\* The sources that divide their input among n replicas: the input is a file, or <<lo, hi>>.
Upwards(lo, hi) == [i \in 1..hi - lo |-> lo + i - 1]
Dividing ==
    \E n \in 1..Peers :
        LET Shares(share(_), NextOf(_, _, _)) == [id \in 1..n |-> Pulled(share(id - 1), NextOf)]
            Ending(q) == q \o FlattenSeq([id \in 1..n |-> <<RestartMsg, TerminateMsg>>])
            lines == Upwards(1, Len(call.in) + 1)
            lo == call.in[1]
            hi == call.in[2]
        IN  \/ Call("file", Shares(LAMBDA id : FileLines(call.in, id, n), FileNext), Ending(lines))
            \/ Call("csv", Shares(LAMBDA id : CsvRecords(call.in, id, n, FALSE), CsvNext), Ending(lines))
            \/ Call("csv_headers", Shares(LAMBDA id : CsvRecords(call.in, id, n, TRUE), CsvNext), Ending(Tail(lines)))
            \/ Call("range", Shares(LAMBDA id : generate_iterator(lo, hi, id, n), ParallelIteratorNext), Ending(Upwards(lo, hi)))
            \/ Call("range_u64", Shares(LAMBDA id : u64_generate_iterator(lo, hi, id, n), ParallelIteratorNext),
                    Ending(Upwards(lo, hi)))
            \/ Call("nexmark_events", Shares(LAMBDA id : nexmark_events(id, n, lo), ParallelIteratorNext), Ending(Upwards(0, lo)))
            \/ Call("topic_source", Shares(LAMBDA id : topic_source(id, n, lo), ParallelIteratorNext), Ending(Upwards(0, lo + 1)))

-----------------------------------------------------------------------------
(* Sources that wait, and a cached stream *)

Sent == Len(queue) + FoldLeft(LAMBDA n, r : n + Len(SelectSeq(reps[r].out, LAMBDA x : x > 0)), 0, [r \in Replica |-> r])
Send ==
    /\ call.m \in Waits /\ open /\ Sent < Len(call.in)
    /\ queue' = Append(queue, call.in[Sent + 1])
    /\ UNCHANGED <<call, sched, done, result, expected, open, reps, cache>>
Close ==
    /\ call.m \in Waits /\ open /\ Sent = Len(call.in)
    /\ open' = FALSE
    /\ UNCHANGED <<call, sched, done, result, expected, queue, reps, cache>>

HasTerminated(r) == reps[r].out # <<>> /\ Last(reps[r].out) = TerminateMsg
Ask(m, r, NextOf(_, _, _)) ==
    /\ call.m = m /\ ~HasTerminated(r)
    /\ \E a \in NextOf(reps[r].s, queue, open) :
          /\ queue' = a.q
          /\ reps' = [reps EXCEPT ![r].s = a.s, ![r].out = @ \o a.out]
    /\ UNCHANGED <<call, sched, done, result, expected, open, cache>>

\* setup and next of a CacheSink on replica r, which holds S[r]
CacheSetup(r) ==
    /\ call.m = "cache" /\ reps[r].phase = "new"
    /\ cache' = register(cache)
    /\ reps' = [reps EXCEPT ![r].phase = "running"]
    /\ UNCHANGED <<call, sched, done, result, expected, queue, open>>
CacheAppend(r) ==
    /\ reps[r].phase = "running" /\ Len(reps[r].out) < Len(S[r])
    /\ LET x == S[r][Len(reps[r].out) + 1]
       IN  reps' = [reps EXCEPT ![r].acc = append_item(@, x, BatchSize), ![r].out = Append(@, x)]
    /\ UNCHANGED <<call, sched, done, result, expected, queue, open, cache>>
CacheTerminate(r) ==
    /\ reps[r].phase = "running" /\ Len(reps[r].out) = Len(S[r])
    /\ cache' = insert(cache, r, finalize(reps[r].acc))
    /\ reps' = [reps EXCEPT ![r].phase = "cached"]
    /\ UNCHANGED <<call, sched, done, result, expected, queue, open>>
\* The execution is over and another one starts from the cache: setup of a CacheSource.
CacheStream(r) ==
    /\ \A q \in Replica : reps[q].phase \in {"cached", "streamed"}
    /\ reps[r].phase = "cached"
    /\ reps' = [reps EXCEPT ![r].phase = IF is_complete(cache) /\ r \in DOMAIN cache.data THEN "streamed" ELSE "panic",
                            ![r].acc = IF r \in DOMAIN cache.data THEN replayed(cache.data[r]) ELSE <<>>]
    /\ cache' = remove(cache, r)
    /\ UNCHANGED <<call, sched, done, result, expected, queue, open>>

Waiting ==
    \/ Send
    \/ Close
    \/ \E r \in Replica : Ask("channel", r, ChannelNext)
    \/ \E r \in Replica : Ask("kafka", r, KafkaNext)
    \/ Ask("async_stream", 1, AsyncStreamNext)
    \/ Ask("iterator", 1, IteratorNext)
    \/ Ask("avro", 1, AvroNext)
    \/ Ask("parquet", 1, ParquetNext)
    \/ \E r \in Replica : CacheSetup(r) \/ CacheAppend(r) \/ CacheTerminate(r) \/ CacheStream(r)

Over ==
    /\ \/ done
       \/ call.m \in {"channel", "kafka"} /\ \A r \in Replica : HasTerminated(r)
       \/ call.m \in Iterated \cup {"async_stream"} /\ HasTerminated(1)
       \/ \A r \in Replica : reps[r].phase = "streamed"
    /\ UNCHANGED vars

Next == Repartitioning \/ Folding \/ Joining \/ RunningExamples \/ Dividing \/ Waiting \/ Over

Spec == Init /\ [][Next]_vars

-----------------------------------------------------------------------------
All(s) == FlattenSeq(s)
SameBag(p, q) == ToBag(p) = ToBag(q)
Consumed(r) == SelectSeq(reps[r].out, LAMBDA x : x > 0)


\* The methods that promise it leave the elements of a key on one replica: repartition_by,
\* group_by, the group_by_* methods and the joins that ship by hash.
Together == {"repartition_by", "group_by", "group_by_fold", "group_by_reduce", "group_by_max_element", "group_by_min_element",
             "group_by_sum", "group_by_avg", "group_by_count", "keyed_fold", "keyed_reduce", "keyed_fold_scan",
             "keyed_reduce_scan", "join", "left_join", "outer_join", "keyed_join", "keyed_join_outer"}
KeysTogether ==
    (done /\ call.m \in Together) =>
        \A p, r \in Replica : p # r => {e.k : e \in ToSet(result[p])} \cap {e.k : e \in ToSet(result[r])} = {}

LastOf(q) == IF q = <<>> THEN 0 ELSE Last(q)

=============================================================================
