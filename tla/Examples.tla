------------------------------ MODULE Examples ------------------------------
(***************************************************************************)
(* The programs of examples/ that use no floating point and no window, as   *)
(* the pipelines they build.                                                *)
(***************************************************************************)
EXTENDS Streams

\* A line is the sequence of its words.
tokenize(line) == [i \in DOMAIN line |-> <<line[i]>>]
Same(v) == v

wordcount(lines) == collect_vec(unkey(keyed_fold(group_by(flat_map(lines, tokenize), Same), <<0>>, LAMBDA n, w : <<n[1] + 1>>)))
wordcount_assoc(lines) == collect_vec(unkey(group_by_count(flat_map(lines, tokenize), Same)))
\* a map of counts for every replica, added up by one of them
Counts(acc, w, n) == (w :> (n + IF w \in DOMAIN acc THEN acc[w] ELSE 0)) @@ acc
wordcount_opt(lines) ==
    collect_vec(fold_assoc(lines, <<>>, LAMBDA acc, line : FoldLeft(LAMBDA a, w : Counts(a, <<w>>, 1), acc, line),
                           LAMBDA a, b : FoldLeft(LAMBDA acc, w : Counts(acc, w, b[w]), a, Listing(DOMAIN b))))
\* the number of the occurrence of each word so far
kafka_wordcount(lines) ==
    rich_flat_map(drop_key(group_by(flat_map(lines, tokenize), Same)), <<>>,
                  LAMBDA acc, w : LET n == Counts(acc, w, 1) IN [st |-> n, out |-> <<w \o <<n[w]>>>>])
simple(s) == collect_vec(unkey(keyed_fold(group_by(s, LAMBDA v : <<v[1] % 5>>), <<>>, LAMBDA acc, v : acc \o v)))

-----------------------------------------------------------------------------
Greater(a, b) == a[1] > b[1] \/ (a[1] = b[1] /\ a[2] >= b[2])
Steps(n, num_iter) ==
    LET cur[c \in 0..num_iter] ==
            IF c = 0 THEN n
            ELSE IF c > 1 /\ cur[c - 1] <= 1 THEN cur[c - 1]
            ELSE IF cur[c - 1] % 2 = 0 THEN cur[c - 1] \div 2 ELSE 3 * cur[c - 1] + 1
        over == {c \in 1..num_iter : cur[c] <= 1}
    IN  IF over = {} THEN num_iter ELSE Min(over)
collatz(s, num_iter) ==
    collect_vec(reduce_assoc(smap(s, LAMBDA v : <<Steps(v[1], num_iter), v[1]>>),
                             LAMBDA a, b : IF Greater(a, b) THEN a ELSE b))

-----------------------------------------------------------------------------
(* Graphs: an element is an edge *)

Ordered(e) == IF e[1] <= e[2] THEN e ELSE <<e[2], e[1]>>
\* open triangles (v1, v2, v3) that have the edge v2 v3 too, counted
CountClosed(open, edges) ==
    collect_vec(fold_assoc(join(open, edges, LAMBDA t : <<t[2], t[3]>>, Same), <<0>>,
                           LAMBDA n, e : <<n[1] + 1>>, LAMBDA n, m : <<n[1] + m[1]>>))
triangles_fold(s) ==
    LET edges == split(smap(s, Ordered), 2)
        adjacent == group_by_fold(edges[2], LAMBDA e : <<e[1]>>, <<>>, LAMBDA a, e : Append(a, e[2]), LAMBDA a, b : a \o b)
        Pairs(v1, vs) == FlattenSeq([i \in DOMAIN vs |-> [j \in 1..i - 1 |-> Ordered(<<vs[i], vs[j]>>)]])
    IN  CountClosed(unkey(keyed_flat_map(adjacent, Pairs)), edges[1])
triangles_rich_map(s) ==
    LET edges == split(smap(s, Ordered), 2)
        Pairs(old, e) == [st |-> Append(old, e[2]), out |-> [i \in DOMAIN old |-> Ordered(<<old[i], e[2]>>)]]
    IN  CountClosed(unkey(keyed_rich_flat_map(group_by(edges[2], LAMBDA e : <<e[1]>>), <<>>, Pairs)), edges[1])

connected_components(vertices, edges, n) ==
    LET both == flat_map(edges, LAMBDA e : <<e, <<e[2], e[1]>>>>)
        FirstOf(e) == <<e[1]>>
        Body(s, state) ==
            LET moved == drop_key(keyed_map(join(s, both, FirstOf, FirstOf), LAMBDA k, p : <<p[2][2], p[1][2]>>))
            IN  filter_map(drop_key(group_by_min_element(moved, FirstOf, LAMBDA e : e[2])),
                           LAMBDA e : IF state.component[e[1]] <= e[2] THEN <<>> ELSE <<e>>)
        Apply(state, changes) ==
            [component |-> FoldLeft(LAMBDA c, e : [c EXCEPT ![e[1]] = e[2]], state.component, changes),
             updated |-> state.updated \/ changes # <<>>]
        ids == UNION {{v[1] : v \in ToSet(vertices[r])} : r \in Replica}
    IN  iterate(smap(vertices, LAMBDA v : <<v[1], v[1]>>), n, [component |-> [x \in ids |-> x], updated |-> FALSE],
                Body, <<>>, Append, Apply,
                LAMBDA state : [state |-> [state EXCEPT !.updated = FALSE], more |-> state.updated]).state.component

transitive_closure(s, n) ==
    LET edges == split(s, 2)
        Body(paths, state) ==
            LET longer == drop_key(keyed_map(join(paths, edges[1], LAMBDA p : <<p[2]>>, LAMBDA e : <<e[1]>>),
                                             LAMBDA k, p : <<p[1][1], p[2][2]>>))
            IN  filter(drop_key(group_by_reduce(merge(longer, paths), Same, LAMBDA a, b : a)), LAMBDA p : p[1] # p[2])
    IN  collect_vec(iterate(edges[2], n, <<0, 0>>, Body, 0, LAMBDA c, p : c + 1, LAMBDA st, c : <<st[1], st[2] + c>>,
                            LAMBDA st : [state |-> <<st[2], 0>>, more |-> st[1] # st[2]]).items)

-----------------------------------------------------------------------------
(* car_accidents: an accident is <<week, borough, killed, factors ...>>, 0 no factor, *)
(* and a week <<year, number>> is year * 100 + number                                  *)

Lethal(a) == IF a[3] > 0 THEN 1 ELSE 0
Both(a, b) == <<a[1] + b[1], a[2] + b[2]>>
accidents1(s) ==
    collect_vec(unkey(group_by_sum(smap(s, LAMBDA a : <<a[1], Lethal(a)>>), LAMBDA w : <<w[1]>>, LAMBDA w : w[2])))
accidents2(s) ==
    LET Factors(a) == Listing({<<a[i], 1, Lethal(a)>> : i \in 4..Len(a)})
    IN  collect_vec(unkey(group_by_fold(filter(flat_map(s, Factors), LAMBDA f : f[1] # 0), LAMBDA f : <<f[1]>>, <<0, 0>>,
                                        LAMBDA acc, f : Both(acc, <<f[2], f[3]>>), Both)))
\* by borough and week, and then by borough and number of the week
accidents3(s) ==
    LET Sums(q) == unkey(group_by_fold(q, LAMBDA a : <<a[1], a[2]>>, <<0, 0>>,
                                       LAMBDA acc, a : Both(acc, <<a[3], a[4]>>), Both))
        splitted == split(Sums(smap(s, LAMBDA a : <<a[2], a[1], 1, Lethal(a)>>)), 2)
    IN  [res |-> collect_vec(splitted[2]),
         avg_per_week |-> collect_vec(Sums(smap(splitted[1], LAMBDA a : [a EXCEPT ![2] = @ % 100])))]

-----------------------------------------------------------------------------
(* nexmark: <<1, id, state>> is a person, <<2, id, seller, category>> an auction, *)
(* <<3, auction, price>> a bid                                                     *)

filter_bid(e) == IF e[1] = 3 THEN <<e>> ELSE <<>>
nexmark1(events) == smap(filter_map(events, filter_bid), LAMBDA b : [b EXCEPT ![3] = (@ * 908) \div 1000])
nexmark2(events) == filter(filter_map(events, filter_bid), LAMBDA b : b[2] % 123 = 0)
nexmark3(events) ==
    LET routes == route(events, LAMBDA i, e : e[1] = i, 2)
        person == filter(routes[1], LAMBDA p : p[3] \in {1, 2, 3})
        auction == filter(routes[2], LAMBDA a : a[4] = 10)
    IN  smap(drop_key(join(person, auction, LAMBDA p : <<p[2]>>, LAMBDA a : <<a[3]>>)), LAMBDA p : p[1] \o <<p[2][2]>>)
\* the numbers of the events that generator i of n makes of tot
nexmark_events(i, n, tot) == [c \in 1..(tot \div n) + (IF i < tot % n THEN 1 ELSE 0) |-> i + (c - 1) * n]
\* and of the topics up to the last one
topic_source(id, instances, last) ==
    SelectSeq([c \in 1..last + 1 |-> (c - 1) * instances + id], LAMBDA nth : nth <= last)
=============================================================================
