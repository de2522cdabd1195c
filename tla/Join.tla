-------------------------------- MODULE Join --------------------------------
(***************************************************************************)
(* The operators that take two streams (src/operator/join, zip.rs,         *)
(* interval_join.rs).  Start returns their elements tagged with a side: a  *)
(* value is <<key, x, side>>, and the end of a side is a value too.  The   *)
(* tuple of a join is <<key, x, y>>, with Missing for None.                *)
(***************************************************************************)
EXTENDS Elements, FiniteSets

CONSTANTS JoinKeys,   \* keys of the elements
          LowerBound, \* how far before a left element the interval join looks
          UpperBound  \* and how far after it

Left == 1
Right == 2
LeftEnd == 3
RightEnd == 4
Other(side) == 3 - side
side(e) == e.v[3]
IsSide(e) == value(e) /\ side(e) \in {Left, Right}
IsSideEnd(e) == value(e) /\ side(e) \in {LeftEnd, RightEnd}
EndedSide(e) == side(e) - 2

Missing == 0
Pair(own, k, x, y) == IF own = Left THEN <<k, x, y>> ELSE <<k, y, x>>
Items(tuples) == MapSeq(tuples, Item)

left_outer(variant) == variant \in {"left", "outer"}
right_outer(variant) == variant = "outer"
Outer(variant, own) == IF own = Left THEN left_outer(variant) ELSE right_outer(variant)

TakeWhile(s, P(_)) ==
    LET first == SelectInSeq(s, LAMBDA x : ~P(x))
    IN  IF first = 0 THEN s ELSE SubSeq(s, 1, first - 1)
DropWhile(s, P(_)) == SubSeq(s, Len(TakeWhile(s, P)) + 1, Len(s))

-----------------------------------------------------------------------------
(* JoinLocalHash *)

SideHashMap == [data |-> [k \in JoinKeys |-> <<>>], keys |-> {}, ended |-> FALSE]
JoinLocalHashNew == <<SideHashMap, SideHashMap>>

add_item(s, own, k, x, variant) ==
    LET matching == s[Other(own)].data[k]
        ended == s[Other(own)].ended
        tuples == IF matching # <<>> THEN MapSeq(matching, LAMBDA y : Pair(own, k, x, y))
                  ELSE IF ended /\ Outer(variant, own) THEN <<Pair(own, k, x, Missing)>>
                  ELSE <<>>
        keys == IF Outer(variant, Other(own)) THEN s[own].keys \cup {k} ELSE s[own].keys
        data == IF ended THEN s[own].data ELSE [s[own].data EXCEPT ![k] = Append(@, x)]
    IN  Return([s EXCEPT ![own] = [data |-> data, keys |-> keys, ended |-> @.ended]],
               Items(tuples))

\* The side own ended: what the other side keeps is matched or will never be.
side_ended(s, own, variant) ==
    LET other == s[Other(own)]
        unmatched == IF Outer(variant, Other(own))
                     THEN {k \in JoinKeys : other.data[k] # <<>> /\ k \notin s[own].keys} ELSE {}
        Tuples(k) == MapSeq(other.data[k], LAMBDA y : Pair(own, k, Missing, y))
    IN  {[s |-> [s EXCEPT ![Other(own)].data = SideHashMap.data,
                          ![own].keys = {}, ![own].ended = TRUE],
          out |-> Items(FlattenSeq(MapSeq(order, Tuples)))] : order \in SetToSeqs(unmatched)}

\* FlushAndRestart asserts that nothing is left of the round.
AllEmpty(s) == \A own \in {Left, Right} :
    s[own].ended /\ s[own].data = SideHashMap.data /\ s[own].keys = {}

JoinLocalHashNext(s, e, variant) ==
    CASE e.kind \in {"timestamped", "watermark"} -> Return(s, <<Panic>>)
      [] IsSide(e) -> add_item(s, side(e), key(e), e.v[2], variant)
      [] IsSideEnd(e) -> side_ended(s, EndedSide(e), variant)
      [] e = FlushAndRestart ->
           Return([own \in {Left, Right} |-> [s[own] EXCEPT !.ended = FALSE]],
                  IF AllEmpty(s) THEN <<e>> ELSE <<Panic>>)
      [] OTHER -> Return(s, <<e>>)

-----------------------------------------------------------------------------
(* JoinKeyedOuter and JoinKeyedInner *)

\* process_item writes out add_item and side_ended for each side.
KeyedOuterItem(s, e) ==
    IF IsSide(e) THEN add_item(s, side(e), key(e), e.v[2], "outer")
    ELSE side_ended(s, EndedSide(e), "outer")

JoinKeyedOuterNext(s, e) ==
    CASE e.kind \in {"timestamped", "watermark"} -> Return(s, <<Panic>>)
      [] value(e) -> KeyedOuterItem(s, e)
      [] e = FlushAndRestart -> Return(JoinLocalHashNew, IF AllEmpty(s) THEN <<e>> ELSE <<Panic>>)
      [] OTHER -> Return(s, <<e>>)

JoinKeyedInnerNew == [data |-> <<SideHashMap.data, SideHashMap.data>>, ended |-> <<FALSE, FALSE>>]

\* The end of a side drops what the other side kept, and everything once both ended.
KeyedInnerItem(s, e) ==
    IF IsSide(e)
    THEN Return([s EXCEPT !.data[side(e)][key(e)] = Append(@, e.v[2])],
                Items(MapSeq(s.data[Other(side(e))][key(e)],
                             LAMBDA y : Pair(side(e), key(e), e.v[2], y))))
    ELSE LET own == EndedSide(e)
         IN  Return([ended |-> [s.ended EXCEPT ![own] = TRUE],
                     data |-> IF s.ended[Other(own)] THEN JoinKeyedInnerNew.data
                              ELSE [s.data EXCEPT ![Other(own)] = SideHashMap.data]], <<>>)

JoinKeyedInnerNext(s, e) ==
    CASE e.kind \in {"timestamped", "watermark"} -> Return(s, <<Panic>>)
      [] value(e) -> KeyedInnerItem(s, e)
      [] e = FlushAndRestart -> Return([s EXCEPT !.ended = <<FALSE, FALSE>>],
                                       IF s.data = JoinKeyedInnerNew.data THEN <<e>> ELSE <<Panic>>)
      [] OTHER -> Return(s, <<e>>)

-----------------------------------------------------------------------------
(* JoinLocalSortMerge *)

JoinLocalSortMergeNew == [items |-> <<<<>>, <<>>>>, ended |-> <<FALSE, FALSE>>]

ByKey(a, b) == a[1] < b[1]

\* A right element matched if the last left element had its key.
discard_right(right, last_left_key, variant) ==
    IF last_left_key # right[1] /\ right_outer(variant)
    THEN <<Pair(Right, right[1], right[2], Missing)>> ELSE <<>>

\* Both sides are taken from their greatest key down; an element of the right side stays
\* until a smaller key comes from the left.
advance(left, right, variant) ==
    LET Match(m, l) ==
            LET larger == TakeWhile(m.right, LAMBDA r : r[1] > l[1])
                rest == DropWhile(m.right, LAMBDA r : r[1] > l[1])
                equal == TakeWhile(rest, LAMBDA r : r[1] = l[1])
                tuples == IF equal # <<>> THEN MapSeq(equal, LAMBDA r : Pair(Left, l[1], l[2], r[2]))
                          ELSE IF left_outer(variant) THEN <<Pair(Left, l[1], l[2], Missing)>>
                          ELSE <<>>
            IN  [right |-> rest, last |-> l[1],
                 out |-> m.out \o FlattenSeq(MapSeq(larger, LAMBDA r : discard_right(r, m.last, variant)))
                               \o tuples]
        end == FoldLeft(Match, [right |-> Reverse(right), last |-> Missing, out |-> <<>>], Reverse(left))
    IN  end.out \o FlattenSeq(MapSeq(end.right, LAMBDA r : discard_right(r, end.last, variant)))

JoinLocalSortMergeNext(s, e, variant) ==
    CASE e.kind \in {"timestamped", "watermark"} -> Return(s, <<Panic>>)
      [] IsSide(e) -> Return([s EXCEPT !.items[side(e)] = Append(@, <<key(e), e.v[2]>>)], <<>>)
      [] IsSideEnd(e) ->
           LET own == EndedSide(e)
               items == [s.items EXCEPT ![own] = StableSort(@, ByKey)]
               ended == [s.ended EXCEPT ![own] = TRUE]
           IN  IF ended[Other(own)]
               THEN Return([items |-> <<<<>>, <<>>>>, ended |-> ended],
                           Items(advance(items[Left], items[Right], variant)))
               ELSE Return([items |-> items, ended |-> ended], <<>>)
      [] e = FlushAndRestart ->
           Return(JoinLocalSortMergeNew,
                  IF s.ended = <<TRUE, TRUE>> /\ s.items = <<<<>>, <<>>>> THEN <<e>> ELSE <<Panic>>)
      [] OTHER -> Return(s, <<e>>)

-----------------------------------------------------------------------------
(* Zip *)

\* the elements of each side that wait for one of the other side
ZipNew == <<<<>>, <<>>>>

ZipPair(a, b) ==
    IF a.kind # b.kind THEN Panic
    ELSE WithTimestamp(<<a.v[1], a.v[2], b.v[2]>>, MaxTs(a.ts, b.ts))

ZipNext(stash, e) ==
    CASE IsSideEnd(e) -> Return(stash, <<>>)
      [] IsSide(e) ->
           LET after == [stash EXCEPT ![side(e)] = Append(@, e)]
           IN  IF after[Other(side(e))] = <<>> THEN Return(after, <<>>)
               ELSE Return(<<Tail(after[Left]), Tail(after[Right])>>,
                           <<ZipPair(Head(after[Left]), Head(after[Right]))>>)
      [] e = FlushAndRestart -> Return(ZipNew, <<e>>)
      [] OTHER -> Return(stash, <<e>>)

-----------------------------------------------------------------------------
(* IntervalJoin: one stream, ordered by Reorder, with the elements of both sides *)

IntervalJoinNew == [left |-> <<>>, right |-> [k \in JoinKeys |-> <<>>], last_seen |-> 0]

\* The left elements whose interval is over, or all of them at the end of the round,
\* with the right elements of their interval.
advance_interval(s, received_restart) ==
    LET Over(l) == received_restart \/ l.ts + UpperBound < s.last_seen
        Match(m, l) ==
            LET kept == DropWhile(m.right[key(l)], LAMBDA r : r.ts < l.ts - LowerBound)
                found == TakeWhile(kept, LAMBDA r : r.ts <= l.ts + UpperBound)
            IN  [right |-> [m.right EXCEPT ![key(l)] = kept],
                 out |-> m.out \o MapSeq(found, LAMBDA r :
                            Timestamped(<<key(l), l.v[2], r.v[2]>>, MaxTs(l.ts, r.ts)))]
        end == FoldLeft(Match, [right |-> s.right, out |-> <<>>], TakeWhile(s.left, Over))
    IN  [s |-> [s EXCEPT !.left = DropWhile(@, Over),
                         !.right = IF received_restart THEN IntervalJoinNew.right ELSE end.right],
         out |-> end.out]

\* Watermarks are not forwarded.
IntervalJoinNext(s, e) ==
    LET seen == CASE e.kind = "timestamped" /\ side(e) = Left ->
                       [s EXCEPT !.left = Append(@, e), !.last_seen = e.ts]
                  [] e.kind = "timestamped" /\ side(e) = Right ->
                       [s EXCEPT !.right[key(e)] = Append(@, e), !.last_seen = e.ts]
                  [] IsWatermark(e) -> [s EXCEPT !.last_seen = e.ts]
                  [] OTHER -> s
        adv == advance_interval(seen, e = FlushAndRestart)
    IN  CASE e.kind = "item" \/ (e.ts # NoTs /\ e.ts < s.last_seen) -> Return(s, <<Panic>>)
          [] e \in {FlushBatch, Terminate} -> Return(s, <<e>>)
          [] e = FlushAndRestart -> Return([adv.s EXCEPT !.last_seen = 0], adv.out \o <<e>>)
          [] OTHER -> {adv}
=============================================================================
