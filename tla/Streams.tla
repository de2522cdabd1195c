------------------------------- MODULE Streams ------------------------------
(***************************************************************************)
(* The methods of Stream and KeyedStream as functions of the partitions of  *)
(* a stream: what every replica of a block holds of one round, and what the *)
(* replicas of the next block receive.  The operators inside a block are    *)
(* those of Unary, Join and Windows; here they are what a round of them     *)
(* returns (RoundResult of Operators), and what is at stake is how a method *)
(* spreads its work over replicas, hosts and blocks.                        *)
(*                                                                          *)
(* An element is a sequence of integers, an element of a KeyedStream a      *)
(* record of its key and its value, an Option a sequence of at most one.    *)
(***************************************************************************)
EXTENDS Integers, Sequences, FiniteSets, SequencesExt, FiniteSetsExt, Functions

CONSTANTS Replicas, \* replicas of a block that is not limited
          Buckets   \* values of the hash of a key

\* What an execution is free to choose: where the source put each element, the replica of
\* each hash, the replica a random strategy takes for each element, the order in which the
\* senders are heard, whether replicas of a host race for a shared set, the host of each replica.
VARIABLE sched

Replica == 1..Replicas
FirstOfHost == {r \in Replica : \A q \in Replica : sched.host[q] = sched.host[r] => r <= q}

group_by_hash(k) == sched.hash[(FoldLeft(LAMBDA a, b : a + b, 0, k) % Buckets) + 1]

\* Every replica works on what it has.  (Appending <<>> has TLC evaluate a sequence once.)
Strict(q) == q \o <<>>
Listing(set) == FoldSet(LAMBDA x, q : Append(q, x), <<>>, set)
Local(s, F(_)) == Strict([r \in Replica |-> Strict(F(s[r]))])

\* Every element goes to the replicas that Dest(sender, position, element) names.
Exchange(s, Dest(_, _, _)) ==
    LET Sent(r, t) == FlattenSeq([i \in DOMAIN s[r] |-> IF t \in Dest(r, i, s[r][i]) THEN <<s[r][i]>> ELSE <<>>])
    IN  Strict([t \in Replica |-> FlattenSeq([j \in Replica |-> Sent(sched.order[j], t)])])

-----------------------------------------------------------------------------
(* Replication and partitioning *)

\* Without ToOne a stream keeps its replicas: a sender has the receiver of the same index.
ToOne(s) == Exchange(s, LAMBDA r, i, v : {1})
replication(s, to) == IF to = "One" THEN ToOne(s) ELSE s
shuffle(s) == Exchange(s, LAMBDA r, i, v : {sched.random[((r + i) % Len(sched.random)) + 1]})
broadcast(s) == Exchange(s, LAMBDA r, i, v : Replica)
repartition_by(s, partition_fn(_)) == Exchange(s, LAMBDA r, i, v : {group_by_hash(partition_fn(v))})
repartition_all(s) == Exchange(s, LAMBDA r, i, v : FirstOfHost)
split(s, n) == [i \in 1..n |-> s]
route(s, filters(_, _), n) ==
    [i \in 1..n |-> Local(s, LAMBDA q : SelectSeq(q, LAMBDA v : filters(i, v) /\ \A j \in 1..i - 1 : ~filters(j, v)))]

-----------------------------------------------------------------------------
(* One operator in the block *)

smap(s, f(_)) == Local(s, LAMBDA q : [i \in DOMAIN q |-> f(q[i])])
filter(s, p(_)) == Local(s, LAMBDA q : SelectSeq(q, p))
flat_map(s, f(_)) == Local(s, LAMBDA q : FlattenSeq([i \in DOMAIN q |-> f(q[i])]))
filter_map(s, f(_)) == flat_map(s, f)
\* a batch of rows of a parquet file
to_rows(s) == flat_map(s, LAMBDA batch : [i \in DOMAIN batch |-> <<batch[i]>>])
key_by(s, keyer(_)) == smap(s, LAMBDA v : [k |-> keyer(v), v |-> v])
unkey(s) == smap(s, LAMBDA e : e.k \o e.v)
drop_key(s) == smap(s, LAMBDA e : e.v)
keyed_map(s, f(_, _)) == smap(s, LAMBDA e : [k |-> e.k, v |-> f(e.k, e.v)])
keyed_flat_map(s, f(_, _)) ==
    flat_map(s, LAMBDA e : LET vs == f(e.k, e.v) IN [i \in DOMAIN vs |-> [k |-> e.k, v |-> vs[i]]])

\* A closure with a state, here step(state, element) = [st, out]: one for the replica ...
rich_flat_map(s, init, step(_, _)) ==
    Local(s, LAMBDA q :
        FoldLeft(LAMBDA a, v : LET n == step(a.st, v) IN [st |-> n.st, out |-> a.out \o n.out],
                 [st |-> init, out |-> <<>>], q).out)
\* ... or one for each key.
keyed_rich_flat_map(s, init, step(_, _)) ==
    Local(s, LAMBDA q :
        LET keys == {q[i].k : i \in DOMAIN q}
        IN  FoldLeft(LAMBDA a, e :
                        LET n == step(a.st[e.k], e.v)
                        IN  [st |-> [a.st EXCEPT ![e.k] = n.st],
                             out |-> a.out \o [i \in DOMAIN n.out |-> [k |-> e.k, v |-> n.out[i]]]],
                     [st |-> [k \in keys |-> init], out |-> <<>>], q).out)

\* sorted_by, limit and sorted_limit_by are LimitSorted in the same block.
sorted_by(s, before(_, _)) == Local(s, LAMBDA q : SortSeq(q, before))
limit(s, offset, n) ==
    Local(s, LAMBDA q : SubSeq(q, offset + 1, IF offset + n < Len(q) THEN offset + n ELSE Len(q)))
sorted_limit_by(s, before(_, _), offset, n) == limit(sorted_by(s, before), offset, n)

-----------------------------------------------------------------------------
(* Folds *)

Fold(s, init, f(_, _)) == Local(s, LAMBDA q : IF q = <<>> THEN <<>> ELSE <<FoldLeft(f, init, q)>>)
KeyedFold(s, init, f(_, _)) ==
    Local(s, LAMBDA q :
        LET keys == Listing({q[i].k : i \in DOMAIN q})
            Of(k) == SelectSeq(q, LAMBDA e : e.k = k)
        IN  [i \in DOMAIN keys |->
                [k |-> keys[i], v |-> FoldLeft(LAMBDA a, e : f(a, e.v), init, Of(keys[i]))]])
\* mutant: the local results stay where they are
GroupByKeyStays(s) == s
GroupByKey(s) == Exchange(s, LAMBDA r, i, e : {group_by_hash(e.k)})

Unwrap(o) == o[1]
SomeOf(f(_, _), acc, v) == IF acc = <<>> THEN <<v>> ELSE <<f(acc[1], v)>>

fold(s, init, f(_, _)) == Fold(ToOne(s), init, f)
fold_assoc(s, init, local(_, _), global(_, _)) == Fold(ToOne(Fold(s, init, local)), init, global)
group_by_fold(s, keyer(_), init, local(_, _), global(_, _)) ==
    KeyedFold(GroupByKey(KeyedFold(key_by(s, keyer), init, local)), init, global)
reduce(s, f(_, _)) == smap(fold(s, <<>>, LAMBDA acc, v : SomeOf(f, acc, v)), Unwrap)
reduce_assoc(s, f(_, _)) ==
    smap(fold_assoc(s, <<>>, LAMBDA acc, v : SomeOf(f, acc, v),
                    LAMBDA acc, o : IF o = <<>> THEN acc ELSE SomeOf(f, acc, o[1])), Unwrap)
group_by_reduce(s, keyer(_), f(_, _)) ==
    keyed_map(group_by_fold(s, keyer, <<>>, LAMBDA acc, v : SomeOf(f, acc, v),
                            LAMBDA acc, o : IF o = <<>> THEN acc ELSE SomeOf(f, acc, o[1])),
              LAMBDA k, o : Unwrap(o))
group_by(s, keyer(_)) == key_by(Exchange(s, LAMBDA r, i, v : {group_by_hash(keyer(v))}), keyer)
group_by_max_element(s, keyer(_), get(_)) ==
    group_by_reduce(s, keyer, LAMBDA out, v : IF get(v) > get(out) THEN v ELSE out)
group_by_min_element(s, keyer(_), get(_)) ==
    group_by_reduce(s, keyer, LAMBDA out, v : IF get(v) < get(out) THEN v ELSE out)
group_by_sum(s, keyer(_), get(_)) ==
    keyed_map(group_by_fold(s, keyer, <<>>, LAMBDA acc, v : IF acc = <<>> THEN <<get(v)>> ELSE <<acc[1] + get(v)>>,
                            LAMBDA acc, o : IF acc = <<>> THEN o ELSE IF o = <<>> THEN acc ELSE <<acc[1] + o[1]>>),
              LAMBDA k, o : <<Unwrap(o)>>)
\* the sum and the count that group_by_avg divides
group_by_avg(s, keyer(_), get(_)) ==
    group_by_fold(s, keyer, <<0, 0>>, LAMBDA acc, v : <<acc[1] + get(v), acc[2] + 1>>,
                  LAMBDA acc, o : <<acc[1] + o[1], acc[2] + o[2]>>)
group_by_count(s, keyer(_)) ==
    group_by_fold(s, keyer, <<0>>, LAMBDA acc, v : <<acc[1] + 1>>, LAMBDA acc, o : <<acc[1] + o[1]>>)
keyed_fold(s, init, f(_, _)) == KeyedFold(s, init, f)
keyed_reduce(s, f(_, _)) ==
    keyed_map(keyed_fold(s, <<>>, LAMBDA acc, v : SomeOf(f, acc, v)), LAMBDA k, o : Unwrap(o))

-----------------------------------------------------------------------------
(* Deduplication *)

FirstOnly(seen, v) == IF v \in seen THEN [st |-> seen, out |-> <<>>] ELSE [st |-> seen \cup {v}, out |-> <<v>>]

\* The replicas of a host before r in the order of this execution.
Before(r) == {q \in Replica : sched.host[q] = sched.host[r] /\ \E i, j \in Replica : i < j /\ sched.order[i] = q /\ sched.order[j] = r}
ElementsOf(s, rs) == UNION {ToSet(s[q]) : q \in rs}

\* local_set is shared by the replicas of a host: contains and insert are two calls, so a
\* replica may miss what another one is inserting.
local_unique(s) ==
    LET seen(r) == IF sched.race THEN {} ELSE ElementsOf(s, Before(r))
    IN  [r \in Replica |->
            FoldLeft(LAMBDA a, v : IF v \in a.st THEN a ELSE [st |-> a.st \cup {v}, out |-> Append(a.out, v)],
                     [st |-> seen(r), out |-> <<>>], s[r]).out]
unique_assoc(s) == rich_flat_map(repartition_by(local_unique(s), LAMBDA v : <<group_by_hash(v)>>), {}, FirstOnly)

-----------------------------------------------------------------------------
(* Loops: what Iteration shows of a loop, as a function of its input *)

Looping(s, n, init, Body(_, _), default, local(_, _), global(_, _), cond(_), again(_)) ==
    LET run[i \in 0..n] ==
            IF i = 0 THEN [items |-> s, state |-> init, more |-> TRUE]
            ELSE LET p == run[i - 1]
                     items == Body(IF again(i) THEN s ELSE p.items, p.state)
                     deltas == Strict([r \in Replica |-> FoldLeft(local, default, items[r])])
                     c == cond(FoldLeft(LAMBDA g, r : global(g, deltas[r]), p.state, sched.order))
                 IN  IF p.more THEN [items |-> items, state |-> c.state, more |-> c.more] ELSE p
    IN  run[n]
iterate(s, n, init, Body(_, _), default, local(_, _), global(_, _), cond(_)) ==
    Looping(s, n, init, Body, default, local, global, cond, LAMBDA i : FALSE)
replay(s, n, init, Body(_, _), default, local(_, _), global(_, _), cond(_)) ==
    Looping(s, n, init, Body, default, local, global, cond, LAMBDA i : TRUE).state

\* Two passes of a loop: the first folds, the second maps with what was folded.
First(v) == [pass |-> 1, el |-> v]
fold_scan(s, default, local(_, _), global(_, _), init, map(_, _)) ==
    LET Body(q, state) == smap(q, LAMBDA t : [pass |-> t.pass + 1, el |-> IF t.pass = 1 THEN t.el ELSE map(t.el, state[1])])
        Global(state, l) == <<global(IF state = <<>> THEN init ELSE state[1], l)>>
        two == iterate(smap(s, First), 2, <<>>, Body, default,
                       LAMBDA l, t : IF t.pass = 2 THEN local(l, t.el) ELSE l, Global,
                       LAMBDA state : [state |-> state, more |-> TRUE])
    IN  smap(two.items, LAMBDA t : t.el)
reduce_scan(s, first(_), f(_, _), second(_, _)) ==
    fold_scan(s, <<>>, LAMBDA acc, v : SomeOf(f, acc, first(v)),
              LAMBDA g, l : IF l = <<>> THEN g ELSE SomeOf(f, g, l[1]), <<>>,
              LAMBDA v, state : second(v, Unwrap(state)))
\* The state of a key is that of the last replica heard: global.extend(local).
keyed_fold_scan(s, init, f(_, _), map(_, _)) ==
    LET Body(q, state) == smap(q, LAMBDA t : [t EXCEPT !.pass = @ + 1,
                                                       !.v = IF t.pass = 1 THEN @ ELSE map(state[t.k], @)])
        Add(l, t) == IF t.pass # 2 THEN l
                     ELSE (t.k :> f(IF t.k \in DOMAIN l THEN l[t.k] ELSE init, t.v)) @@ l
        two == iterate(smap(s, LAMBDA e : [pass |-> 1, k |-> e.k, v |-> e.v]), 2, <<>>, Body, <<>>, Add,
                       LAMBDA g, l : l @@ g, LAMBDA state : [state |-> state, more |-> TRUE])
    IN  smap(two.items, LAMBDA t : [k |-> t.k, v |-> t.v])
keyed_reduce_scan(s, first(_), f(_, _), second(_, _)) ==
    keyed_fold_scan(s, <<>>, LAMBDA acc, v : SomeOf(f, acc, first(v)), LAMBDA state, v : second(Unwrap(state), v))

-----------------------------------------------------------------------------
(* Two streams *)

merge(l, r) == Strict([p \in Replica |-> l[p] \o r[p]])
zip(l, r) ==
    LET a == ToOne(l)
        b == ToOne(r)
        Paired(p) == IF Len(a[p]) < Len(b[p]) THEN Len(a[p]) ELSE Len(b[p])
    IN  [p \in Replica |-> [i \in 1..Paired(p) |-> a[p][i] \o b[p][i]]]

\* The round of a join operator on keyed sides; a missing partner is an empty Option.
LocalJoin(l, r, variant) ==
    LET Partners(e, q) == SelectSeq(q, LAMBDA o : o.k = e.k)
        Matches(e, q) == LET ps == Partners(e, q) IN [i \in DOMAIN ps |-> [k |-> e.k, v |-> <<<<e.v>>, <<ps[i].v>>>>]]
        LeftOf(p) == FlattenSeq([i \in DOMAIN l[p] |->
                        IF variant # "inner" /\ Partners(l[p][i], r[p]) = <<>>
                        THEN <<[k |-> l[p][i].k, v |-> <<<<l[p][i].v>>, <<>>>>]>>
                        ELSE Matches(l[p][i], r[p])])
        RightOf(p) == IF variant # "outer" THEN <<>>
                      ELSE LET alone == SelectSeq(r[p], LAMBDA e : Partners(e, l[p]) = <<>>)
                           IN  [i \in DOMAIN alone |-> [k |-> alone[i].k, v |-> <<<<>>, <<alone[i].v>>>>]]
    IN  Strict([p \in Replica |-> LeftOf(p) \o RightOf(p)])

ship_hash(s, keyer(_)) == group_by(s, keyer)
ship_broadcast_right(s, keyer(_)) == key_by(broadcast(s), keyer)
join_with_hash(l, r, k1(_), k2(_), variant) == LocalJoin(ship_hash(l, k1), ship_hash(r, k2), variant)
join_with_broadcast(l, r, k1(_), k2(_), variant) == LocalJoin(key_by(l, k1), ship_broadcast_right(r, k2), variant)
\* the pairs of an inner join, the Options taken away
join(l, r, k1(_), k2(_)) ==
    keyed_map(join_with_hash(l, r, k1, k2, "inner"), LAMBDA k, p : <<Unwrap(p[1]), Unwrap(p[2])>>)
left_join(l, r, k1(_), k2(_)) ==
    keyed_map(join_with_hash(l, r, k1, k2, "left"), LAMBDA k, p : <<Unwrap(p[1]), p[2]>>)
outer_join(l, r, k1(_), k2(_)) == join_with_hash(l, r, k1, k2, "outer")
\* A join of KeyedStreams leaves both sides where they are.
keyed_join(l, r) == keyed_map(LocalJoin(l, r, "inner"), LAMBDA k, p : <<Unwrap(p[1]), Unwrap(p[2])>>)
keyed_join_outer(l, r) == LocalJoin(l, r, "outer")

-----------------------------------------------------------------------------
(* Sinks *)

collect(s) == ToOne(s)
collect_vec(s) == ToOne(s)
collect_channel(s) == ToOne(s)
collect_channel_parallel(s) == s
\* every replica counts its own, the sink adds the counts up
collect_count(s) ==
    LET counts == ToOne(Fold(s, <<0>>, LAMBDA n, v : <<n[1] + 1>>))
    IN  [r \in Replica |-> IF r = 1 THEN <<FoldLeft(LAMBDA n, m : <<n[1] + m[1]>>, <<0>>, counts[r])>> ELSE <<>>]
collect_all(s) == repartition_all(s)
=============================================================================
