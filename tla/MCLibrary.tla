------------------------------ MODULE MCLibrary ------------------------------
(***************************************************************************)
(* Every operator, and every call with two replicas, on one host or on two, *)
(* and inputs of up to three elements.                                      *)
(***************************************************************************)
EXTENDS Library, MCOperators

Call(m, input, rhs) == [m |-> m, in |-> input, rhs |-> rhs]
Upto(set, n) == UNION {[1..i -> set] : i \in 0..n}
Pairs == {<<1, 1>>, <<1, 2>>, <<2, 1>>}

Inputs == Upto(Pairs, 1) \cup {<<<<1, 2>>, <<1, 1>>>>, <<<<2, 1>>, <<1, 1>>>>, <<<<1, 1>>, <<1, 1>>>>,
                              <<<<1, 2>>, <<2, 1>>, <<1, 1>>>>, <<<<1, 1>>, <<1, 2>>, <<1, 1>>>>}
OneStream == {"to_rows", "replication", "broadcast", "repartition_by", "group_by", "split", "route", "collect", "collect_vec",
              "collect_channel", "collect_channel_parallel", "collect_all", "collect_count", "fold", "fold_assoc", "reduce",
              "reduce_assoc", "group_by_fold", "group_by_reduce", "group_by_max_element", "group_by_min_element",
              "group_by_sum", "group_by_avg", "group_by_count", "keyed_fold", "keyed_reduce", "unique_assoc", "fold_scan",
              "reduce_scan", "keyed_fold_scan", "keyed_reduce_scan", "iterate", "replay", "sorted_limit_by", "shuffle"}
TwoStreams == {"merge", "join", "left_join", "outer_join", "join_broadcast", "left_join_broadcast", "keyed_join",
               "keyed_join_outer", "zip"}
MethodCalls == {Call(m, q, <<>>) : m \in OneStream, q \in Inputs}
              \cup {Call(m, q, p) : m \in TwoStreams, q \in {<<>>, <<<<1, 1>>>>, <<<<1, 1>>, <<2, 1>>>>, <<<<1, 1>>, <<1, 1>>>>}, p \in Upto({<<1, 3>>, <<2, 4>>}, 1) \cup {<<<<1, 3>>, <<1, 4>>>>}}

Listed(E) == FoldSet(LAMBDA e, q : Append(q, e), <<>>, E)
Edges == {<<1, 2>>, <<2, 3>>, <<1, 3>>, <<3, 4>>}
GraphCalls == {Call(m, Listed(E), <<>>) : m \in {"triangles_fold", "triangles_rich_map"}, E \in SUBSET Edges}
             \cup {Call("transitive_closure", Listed(E), <<>>) : E \in SUBSET {<<1, 2>>, <<2, 3>>, <<3, 1>>, <<3, 4>>}}
             \cup {Call("connected_components", <<<<1>>, <<2>>, <<3>>>>, Listed(E)) : E \in SUBSET {<<1, 2>>, <<3, 2>>, <<1, 3>>}}
Lines == {<<>>, <<1>>, <<1, 2>>, <<2, 2>>}
Accidents == {<<201901, 1, 0, 1, 0>>, <<202001, 1, 2, 2, 2>>, <<202002, 2, 1, 1, 2>>}
Events == {<<1, 1, 2>>, <<1, 2, 4>>, <<2, 7, 1, 10>>, <<2, 8, 1, 9>>, <<3, 123, 1000>>, <<3, 5, 10>>}
ExampleCalls == GraphCalls
               \cup {Call(m, q, <<>>) : m \in {"wordcount", "wordcount_assoc", "wordcount_opt", "kafka_wordcount"}, q \in Upto(Lines, 2)}
               \cup {Call("simple", q, <<>>) : q \in Upto({<<1, 0>>, <<6, 0>>, <<7, 0>>}, 2)}
               \cup {Call("collatz", q, <<>>) : q \in Upto({<<1>>, <<2>>, <<3>>, <<8>>}, 2)}
               \cup {Call(m, q, <<>>) : m \in {"accidents1", "accidents2", "accidents3"}, q \in Upto(Accidents, 2)}
               \cup {Call(m, q, <<>>) : m \in {"nexmark1", "nexmark2", "nexmark3"},
                                     q \in Upto(Events, 1) \cup {<<<<1, 1, 2>>, e, <<2, 7, 1, 10>>>> : e \in Events}}

SourceCalls == {Call(m, f, <<>>) : m \in {"file", "csv"}, f \in Upto(1..3, 3)}
              \cup {Call("csv_headers", f, <<>>) : f \in Upto(1..3, 3) \ {<<>>}}
              \cup {Call(m, <<lo, hi>>, <<>>) : m \in {"range", "range_u64"}, lo \in {0, 3}, hi \in 3..10}
              \cup {Call(m, <<n>>, <<>>) : m \in {"nexmark_events", "topic_source"}, n \in 0..7}
              \cup {Call(m, <<1, 2, 3>>, <<>>) : m \in {"channel", "kafka", "async_stream", "iterator", "avro", "parquet"}}
              \cup {Call("cache", <<1, 2, 3>>, <<>>)}

AllCalls == MethodCalls \cup ExampleCalls \cup SourceCalls
=============================================================================
