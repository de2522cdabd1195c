------------------------------ MODULE Operators -----------------------------
(***************************************************************************)
(* One operator of a chain, pulled by the one after it, on every legal      *)
(* stream: rounds of elements, watermarks and at most one FlushBatch, each  *)
(* ended by FlushAndRestart, then Terminate.  A job names the operator and  *)
(* bounds the stream:                                                       *)
(*   op, and for some operators variant (join, format, sorted), window,     *)
(*   route, offset and limit;                                               *)
(*   n: the elements of each round; vals: their values;                     *)
(*   timed: elements have timestamps; rising: in order, and each value is   *)
(*   its timestamp; ends: each side of a binary stream has an end;          *)
(*   keep: the data of past rounds is kept to state the property.           *)
(***************************************************************************)
EXTENDS Unary, Join, Windows, Sinks

CONSTANTS Jobs,   \* the operators and the streams
          Times   \* timestamps

VARIABLES job,   \* chosen at the start
          st,    \* state of the operator
          in,    \* what it took in this round
          out,   \* what it returned in this round
          round, \* rounds that are over
          past   \* data of the rounds that are over, if the job keeps it

vars == <<job, st, in, out, round, past>>

New(j) ==
    CASE j.op = "fold" -> FoldNew
      [] j.op = "keyed_fold" -> KeyedFoldNew
      [] j.op = "limit_sorted" -> LimitSortedNew
      [] j.op = "reorder" -> ReorderNew
      [] j.op = "rich_map" -> RichMapNew
      [] j.op = "map_async" -> MapAsyncNew
      [] j.op = "map_memo" -> MapMemoNew
      [] j.op = "route" -> RoutingEndNew(j.route)
      [] j.op \in {"join_hash", "join_keyed_outer"} -> JoinLocalHashNew
      [] j.op = "join_keyed_inner" -> JoinKeyedInnerNew
      [] j.op = "join_sort_merge" -> JoinLocalSortMergeNew
      [] j.op = "zip" -> ZipNew
      [] j.op = "interval_join" -> IntervalJoinNew
      [] j.op = "window" -> WindowNew
      [] j.op \in {"collect", "collect_vec", "collect_channel"} -> CollectNew
      [] j.op = "collect_count" -> CollectCountNew
      [] j.op = "write" -> WriterNew
      [] j.op = "write_kafka" -> KafkaSinkNew
      [] OTHER -> Stateless

Init ==
    /\ job \in Jobs
    /\ st = New(job)
    /\ in = <<>> /\ out = <<>> /\ round = 0 /\ past = <<>>

-----------------------------------------------------------------------------
(* The stream *)

Fresh == in # <<>> /\ Last(in) = FlushAndRestart
Ended == in # <<>> /\ Last(in) = Terminate
\* what the round has given so far, and how many rounds came before
Given == IF Fresh THEN <<>> ELSE in
Rounds == IF Fresh THEN round + 1 ELSE round

LastTime == FoldLeft(LAMBDA t, e : MaxTs(t, e.ts), 0, Data(Given))
SideOver(s) == \E i \in DOMAIN Given : IsSideEnd(Given[i]) /\ EndedSide(Given[i]) = s

Elements ==
    LET open == {v \in job.vals : job.ends => ~SideOver(v[3])}
        times == {t \in Times : t > LastWatermark(Given) /\ (job.rising => t >= LastTime)}
    IN  IF Len(SelectSeq(Given, LAMBDA e : value(e) /\ ~(job.ends /\ IsSideEnd(e)))) >= job.n[Rounds + 1]
        THEN {}
        ELSE IF ~job.timed THEN {Item(v) : v \in open}
        ELSE {Timestamped(IF job.rising THEN [v EXCEPT ![2] = t] ELSE v, t) : v \in open, t \in times}

\* Reorder, which precedes the interval join, returns a watermark after what it covers.
Controls ==
    (IF job.timed
     THEN {Watermark(t) : t \in {t \in Times : t > LastWatermark(Given) /\ (job.op = "interval_join" => t >= LastTime)}}
     ELSE {})
    \cup (IF FlushBatch \in ToSet(Given) THEN {} ELSE {FlushBatch})
    \cup (IF job.ends THEN {Item(<<0, 0, s + 2>>) : s \in {s \in {Left, Right} : ~SideOver(s)}} ELSE {})
    \cup (IF job.ends /\ \E s \in {Left, Right} : ~SideOver(s) THEN {} ELSE {FlushAndRestart})

Arrivals ==
    (IF Rounds < Len(job.n) THEN Elements \cup Controls ELSE {})
    \cup (IF Fresh THEN {Terminate} ELSE {})

\* The operator takes an element of the one before it and returns what it answers.
Pull(op, Step(_, _)) ==
    /\ job.op = op
    /\ ~Ended
    /\ \E e \in Arrivals : \E r \in Step(st, e) :
          /\ st' = r.s
          /\ in' = Append(Given, e)
          /\ out' = IF Fresh THEN r.out ELSE out \o r.out
    /\ round' = Rounds
    /\ past' = IF Fresh /\ job.keep THEN past \o Data(in) ELSE past
    /\ UNCHANGED job

Done == Ended /\ UNCHANGED vars

Next ==
    \/ Pull("map", MapNext)
    \/ Pull("filter", FilterNext)
    \/ Pull("filter_map", FilterMapNext)
    \/ Pull("key_by", KeyByNext)
    \/ Pull("inspect", InspectNext)
    \/ Pull("flat_map", FlatMapNext)
    \/ Pull("keyed_flat_map", KeyedFlatMapNext)
    \/ Pull("flatten", FlattenNext)
    \/ Pull("keyed_flatten", KeyedFlattenNext)
    \/ Pull("add_timestamps", AddTimestampNext)
    \/ Pull("drop_timestamps", DropTimestampNext)
    \/ Pull("fold", FoldNext)
    \/ Pull("keyed_fold", KeyedFoldNext)
    \/ Pull("limit_sorted", LAMBDA s, e : LimitSortedNext(s, e, job.variant = "sorted", job.offset, job.limit))
    \/ Pull("reorder", ReorderNext)
    \/ Pull("rich_map", RichMapNext)
    \/ Pull("map_memo", MapMemoNext)
    \/ Pull("map_async", MapAsyncNext)
    \/ Pull("route", RoutingEndNext)
    \/ Pull("join_hash", LAMBDA s, e : JoinLocalHashNext(s, e, job.variant))
    \/ Pull("join_keyed_outer", JoinKeyedOuterNext)
    \/ Pull("join_keyed_inner", JoinKeyedInnerNext)
    \/ Pull("join_sort_merge", LAMBDA s, e : JoinLocalSortMergeNext(s, e, job.variant))
    \/ Pull("zip", ZipNext)
    \/ Pull("interval_join", IntervalJoinNext)
    \/ Pull("window", LAMBDA s, e : WindowNext(s, e, job.window))
    \/ Pull("collect", CollectNext)
    \/ Pull("collect_vec", CollectVecNext)
    \/ Pull("collect_count", CollectCountNext)
    \/ Pull("collect_channel", CollectChannelNext)
    \/ Pull("for_each", ForEachNext)
    \/ Pull("write", LAMBDA s, e : WriterNext(s, e, job.variant))
    \/ Pull("write_kafka", KafkaSinkNext)
    \/ Done

Spec == Init /\ [][Next]_vars

-----------------------------------------------------------------------------
(* What the operators promise *)

Xs(q) == MapSeq(q, LAMBDA e : e.v[2])
SameBag(p, q) == ToBag(p) = ToBag(q)
OfKey(q, k) == SelectSeq(q, LAMBDA e : key(e) = k)
OfSide(q, s) == SelectSeq(q, LAMBDA e : IsSide(e) /\ side(e) = s)
MaxTimestamp(q) == FoldLeft(LAMBDA t, e : MaxTs(t, e.ts), NoTs, q)
KeysOf(q) == {key(q[i]) : i \in DOMAIN q}
SumOf(q) == FoldLeft(LAMBDA sum, x : sum + x, 0, q)

\* The tuples of a join of the elements of the round, each pair once.
JoinedTuples(d, variant) ==
    LET left == OfSide(d, Left)
        right == OfSide(d, Right)
        Unmatched(l, r, own) ==
            MapSeq(SelectSeq(l, LAMBDA e : key(e) \notin KeysOf(r)),
                   LAMBDA e : Pair(own, key(e), e.v[2], Missing))
        matched == {<<i, j>> \in (DOMAIN left) \X (DOMAIN right) : key(left[i]) = key(right[j])}
    IN  MapSeq(SetToSeq(matched),
               LAMBDA ij : <<key(left[ij[1]]), left[ij[1]].v[2], right[ij[2]].v[2]>>)
        \o (IF left_outer(variant) THEN Unmatched(left, right, Left) ELSE <<>>)
        \o (IF right_outer(variant) THEN Unmatched(right, left, Right) ELSE <<>>)

\* The pairs of an interval join.
JoinedInterval(d) ==
    LET left == OfSide(d, Left)
        right == OfSide(d, Right)
        near == {<<i, j>> \in (DOMAIN left) \X (DOMAIN right) :
                    /\ key(left[i]) = key(right[j])
                    /\ right[j].ts \in left[i].ts - LowerBound..left[i].ts + UpperBound}
    IN  MapSeq(SetToSeq(near),
               LAMBDA ij : Timestamped(<<key(left[ij[1]]), left[ij[1]].v[2], right[ij[2]].v[2]>>,
                                       MaxTs(left[ij[1]].ts, right[ij[2]].ts)))

Zipped(d) ==
    LET left == OfSide(d, Left)
        right == OfSide(d, Right)
    IN  [i \in 1..(IF Len(left) < Len(right) THEN Len(left) ELSE Len(right)) |->
            WithTimestamp(<<key(left[i]), left[i].v[2], right[i].v[2]>>, MaxTs(left[i].ts, right[i].ts))]

\* The value of an accumulator for the elements of a window.
Aggregate(aggr, q) ==
    CASE aggr = "fold" -> <<SumOf(Xs(q))>>
      [] aggr = "count" -> <<Len(q)>>
      [] aggr = "max" -> <<CHOOSE x \in ToSet(Xs(q)) : \A y \in ToSet(Xs(q)) : x >= y>>
      [] aggr = "min" -> <<CHOOSE x \in ToSet(Xs(q)) : \A y \in ToSet(Xs(q)) : x <= y>>
      [] aggr = "first" -> <<Head(Xs(q))>>
      [] aggr = "last" -> <<Last(Xs(q))>>
      [] aggr = "collect_vec" -> Xs(q)
      [] aggr = "join" -> FlattenSeq(MapSeq(Xs(OfSide(q, Left)), LAMBDA x :
                              FlattenSeq(MapSeq(Xs(OfSide(q, Right)), LAMBDA y : <<x, y>>))))

\* The windows of size elements, one every slide, and the first one that is not full.
CountWindows(w, q) ==
    LET full == IF Len(q) < w.size THEN 0 ELSE ((Len(q) - w.size) \div w.slide) + 1
        rest == SubSeq(q, full * w.slide + 1, Len(q))
    IN  [i \in 1..full |-> SubSeq(q, (i - 1) * w.slide + 1, (i - 1) * w.slide + w.size)]
        \o (IF w.exact \/ rest = <<>> THEN <<>> ELSE <<rest>>)
LastKWindows(w, q) == [i \in DOMAIN q |-> SubSeq(q, IF i < w.size THEN 1 ELSE i - w.size + 1, i)]

\* The transactions committed in the round: from after the last Commit or Discard to Commit.
Committed(old, q) ==
    LET all == old \o q
        Closes(i) == logic(all[i].v) \in {"Commit", "Discard"}
        Start(i) == 1 + FoldLeft(LAMBDA m, j : IF j < i /\ Closes(j) THEN j ELSE m, 0,
                                 [j \in DOMAIN all |-> j])
        commits == SelectSeq([j \in DOMAIN all |-> j],
                             LAMBDA i : i > Len(old) /\ logic(all[i].v) = "Commit")
    IN  MapSeq(commits, LAMBDA i : SubSeq(all, Start(i), i))

\* The results `res` (without the key) of the windows of a key are those of its elements q.
WindowsOfKey(w, old, q, res) ==
    LET contents == FlattenSeq(MapSeq(res, LAMBDA e : e.v))
        Are(windows) == MapSeq(res, LAMBDA e : e.v) = MapSeq(windows, LAMBDA c : Aggregate(w.aggr, c))
        InWindow(e) == \A i \in DOMAIN e.v : e.v[i] \in e.ts - w.size..e.ts - 1
    IN  CASE w.kind = "count" -> Are(CountWindows(w, q))
          [] w.kind = "last_k" -> Are(LastKWindows(w, q))
          [] w.kind = "all" -> Are(IF q = <<>> THEN <<>> ELSE <<q>>)
          [] w.kind = "session" -> contents = Xs(q)
          [] w.kind \in {"event_time", "processing_time"} ->
               /\ IF w.size = w.slide THEN contents = Xs(q) ELSE ToSet(contents) = ToSet(Xs(q))
               /\ w.kind = "event_time" => \A i \in DOMAIN res : InWindow(res[i])
          [] w.kind = "transaction" ->
               IF \E i \in DOMAIN q : logic(q[i].v) = "CommitAfter"
               THEN /\ contents = SubSeq(Xs(q), 1, Len(contents))
                    /\ \A i \in Len(contents) + 1..Len(q) : logic(q[i].v) # "CommitAfter"
               ELSE Are(Committed(old, q))

WindowResults(d, res) ==
    \A k \in Keys :
        WindowsOfKey(job.window, OfKey(past, k), OfKey(d, k),
                     MapSeq(OfKey(res, k), LAMBDA e : [e EXCEPT !.v = Tail(@)]))

\* The data `res` that the operator returned in a round with the data d.
RightData(d, res) ==
    CASE job.op \in {"map", "map_memo", "map_async"} ->
           res = MapSeq(d, LAMBDA e : map(e, Increment))
      [] job.op = "filter" -> res = SelectSeq(d, LAMBDA e : Odd(e.v))
      [] job.op = "filter_map" ->
           res = MapSeq(SelectSeq(d, LAMBDA e : Odd(e.v)), LAMBDA e : map(e, Increment))
      [] job.op = "key_by" -> res = MapSeq(d, LAMBDA e : map(e, Rekey))
      [] job.op = "inspect" -> res = d /\ st = MapSeq(past \o d, LAMBDA e : e.v)
      [] job.op \in {"flat_map", "keyed_flat_map", "flatten", "keyed_flatten"} ->
           res = FlattenSeq(MapSeq(d, LAMBDA e : MapSeq(Repeat(e.v), LAMBDA v : [e EXCEPT !.v = v])))
      [] job.op = "add_timestamps" -> res = MapSeq(d, LAMBDA e : Timestamped(e.v, e.v[2]))
      [] job.op = "drop_timestamps" -> res = MapSeq(d, LAMBDA e : Item(e.v))
      [] job.op = "fold" ->
           res = IF d = <<>> THEN <<>> ELSE <<WithTimestamp(<<0>> \o Xs(d), MaxTimestamp(d))>>
      [] job.op = "keyed_fold" ->
           SameBag(res, MapSeq(SetToSeq(KeysOf(d)), LAMBDA k :
                               WithTimestamp(<<k, 0>> \o Xs(OfKey(d, k)), MaxTimestamp(OfKey(d, k)))))
      [] job.op = "limit_sorted" ->
           LET least == IF job.variant = "sorted" THEN SortSeq(Xs(d), <) ELSE Xs(d)
           IN  Xs(res) = Slice(least, job.offset, job.limit)
      [] job.op = "reorder" ->
           SameBag(res, d) /\ \A i \in 2..Len(res) : res[i - 1].ts <= res[i].ts
      [] job.op = "rich_map" ->
           res = [i \in DOMAIN d |->
                    [d[i] EXCEPT !.v = <<key(d[i])>> \o Xs(OfKey(past \o SubSeq(d, 1, i), key(d[i])))]]
      [] job.op = "route" -> res = SelectSeq(d, LAMBDA e : RoutedTo(job.route, e.v))
      [] job.op \in {"join_hash", "join_sort_merge"} -> SameBag(res, Items(JoinedTuples(d, job.variant)))
      [] job.op = "join_keyed_outer" -> SameBag(res, Items(JoinedTuples(d, "outer")))
      [] job.op = "join_keyed_inner" -> SameBag(res, Items(JoinedTuples(d, "inner")))
      [] job.op = "zip" -> res = Zipped(d)
      [] job.op = "interval_join" -> SameBag(res, JoinedInterval(d))
      [] job.op = "window" -> WindowResults(d, res)
      [] OTHER -> TRUE

\* What has left the process when a round is over (all of it once the stream ended).
RightSink(d) ==
    CASE job.op \in {"collect", "collect_vec", "collect_count"} -> st.ready = Ended
      [] job.op = "collect_channel" -> st.output = d
      [] job.op = "for_each" -> st = d
      [] job.op = "write" -> st.file = IF job.variant = "avro" /\ ~Ended THEN <<>> ELSE d
      [] job.op = "write_kafka" -> SameBag(st.sent \o st.pending, d)
      [] OTHER -> TRUE

RightOutput(d) ==
    CASE job.op \in {"collect", "collect_vec"} -> st.output = d
      [] job.op = "collect_count" -> st.output = SumOf(MapSeq(d, LAMBDA v : v[2]))
      [] OTHER -> TRUE


\* An operator never returns an element that a watermark it returned before has ruled out;
\* a window that closes at the watermark (event_time) may.
WatermarkSafe ==
    \A i, j \in DOMAIN out :
        (i < j /\ IsWatermark(out[i]) /\ out[j].ts # NoTs) =>
            \/ out[j].ts > out[i].ts
            \/ job.op = "window" /\ job.window.kind = "event_time" /\ out[j].ts = out[i].ts

=============================================================================
