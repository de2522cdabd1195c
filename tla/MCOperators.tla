---------------------------- MODULE MCOperators -----------------------------
(***************************************************************************)
(* Every operator, with streams of two to four elements in the last round   *)
(* and of one in the round before it.                                       *)
(***************************************************************************)
EXTENDS Operators

Basic == [timed |-> FALSE, rising |-> FALSE, ends |-> FALSE, keep |-> FALSE, n |-> <<1, 3>>,
        vals |-> {<<1, 1>>, <<1, 2>>, <<2, 1>>}, variant |-> "", route |-> 0, offset |-> 0, limit |-> 0,
        window |-> <<>>]
Op(op) == [op |-> op] @@ Basic
Timed(op) == [Op(op) EXCEPT !.timed = TRUE, !.vals = {<<1, 1>>, <<2, 2>>}]
Short(j) == [j EXCEPT !.n = <<1, 2>>]
Kept(op) == [Op(op) EXCEPT !.keep = TRUE]
Limit(variant, offset, limit) ==
    [Timed("limit_sorted") EXCEPT !.variant = variant, !.offset = offset, !.limit = limit,
                                  !.vals = {<<1, 2>>, <<2, 1>>}, !.timed = offset = 0]
Sides == {<<1, 1, Left>>, <<2, 2, Left>>, <<1, 3, Right>>, <<2, 4, Right>>}
Binary(op, variant) == [Op(op) EXCEPT !.ends = TRUE, !.vals = Sides, !.variant = variant, !.n = <<1, 4>>]
Window(kind, size, slide, exact, aggr) ==
    [Op("window") EXCEPT !.window = [kind |-> kind, size |-> size, slide |-> slide, exact |-> exact,
                                     aggr |-> aggr]]
TimedWindow(kind, size, slide, exact, aggr) ==
    [Window(kind, size, slide, exact, aggr) EXCEPT !.timed = TRUE, !.rising = TRUE,
                                                   !.vals = {<<1, 0>>, <<2, 0>>}]
Transaction(vals, keep, n) ==
    [Window("transaction", 1, 1, TRUE, "collect_vec") EXCEPT !.timed = TRUE, !.vals = vals, !.keep = keep, !.n = n]
SlidingJob == [TimedWindow("event_time", 2, 1, FALSE, "collect_vec") EXCEPT !.vals = {<<1, 0>>}]

StatelessJobs ==
    {Op(op) : op \in {"map", "filter_map", "flat_map", "keyed_flatten", "keyed_flat_map", "map_memo", "map_async"}}
    \cup {Short(Timed(op)) : op \in {"filter", "key_by", "flatten", "drop_timestamps", "map_async"}}
    \cup {Kept("inspect"), Kept("rich_map"), [Op("add_timestamps") EXCEPT !.vals = {<<1, 1>>}]}
    \cup {[Short(Timed("route")) EXCEPT !.route = r] : r \in {1, 2}}
RoundJobs ==
    {Op("fold"), Short(Timed("fold")), Op("keyed_fold"), Short(Timed("keyed_fold")), [Timed("reorder") EXCEPT !.vals = {<<1, 1>>}],
     Short(Limit("sorted", 0, 1)), Limit("sorted", 1, 1), Short(Limit("first", 0, 1))}
BinaryJobs ==
    {[Binary(op, variant) EXCEPT !.n = <<1, 3>>] : op \in {"join_hash", "join_sort_merge"}, variant \in {"inner", "left"}}
    \cup {[Binary(op, "") EXCEPT !.n = <<1, 3>>] : op \in {"join_keyed_outer", "join_keyed_inner", "zip"}}
    \cup {Binary("join_sort_merge", "outer"), Binary("join_hash", "outer")}
    \cup {[Timed("interval_join") EXCEPT !.rising = TRUE, !.n = <<1, 3>>,
                                         !.vals = {<<1, 0, Left>>, <<1, 0, Right>>, <<2, 0, Right>>}]}
WindowJobs ==
    {Window("count", 2, 1, FALSE, aggr) : aggr \in {"fold", "count", "max", "min", "first", "last"}}
    \cup {Window("count", 3, 2, TRUE, "collect_vec"), Window("count", 2, 2, FALSE, "collect_vec"),
          Window("last_k", 2, 1, TRUE, "collect_vec"),
          Window("session", 1, 1, TRUE, "collect_vec"),
          Window("processing_time", 2, 2, TRUE, "collect_vec"),
          Window("processing_time", 2, 1, TRUE, "collect_vec"),
          TimedWindow("event_time", 2, 2, TRUE, "collect_vec"), SlidingJob,
          Short(TimedWindow("last_k", 2, 1, TRUE, "last")), Short(TimedWindow("count", 2, 1, TRUE, "first")),
          [Window("all", 1, 1, TRUE, "collect_vec") EXCEPT !.n = <<3>>],
          [Window("count", 4, 4, FALSE, "join") EXCEPT !.vals = Sides, !.n = <<4>>],
          Transaction({<<1, 1>>, <<1, 2>>}, TRUE, <<1, 2>>),
          Transaction({<<1, 1>>, <<1, 2>>, <<1, 4>>}, FALSE, <<2>>),
          Transaction({<<1, 1>>, <<1, 3>>}, FALSE, <<2>>)}
SinkJobs ==
    {Short(Kept(op)) : op \in {"collect", "collect_vec", "collect_count", "collect_channel", "for_each", "write_kafka"}}
    \cup {[Short(Kept("write")) EXCEPT !.variant = format] : format \in {"csv", "avro", "parquet"}}

AllJobs == StatelessJobs \cup RoundJobs \cup BinaryJobs \cup WindowJobs \cup SinkJobs
MCTimes == 0..2
MCKeys == {1, 2}
MCTicks == {0, 2}
=============================================================================
