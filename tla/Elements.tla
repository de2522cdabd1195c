------------------------------ MODULE Elements ------------------------------
(***************************************************************************)
(* The elements of a stream (src/operator/mod.rs) and what the operators   *)
(* do with one.  A value is a tuple of integers whose first component is   *)
(* its key, so any two elements can be compared.                           *)
(*                                                                         *)
(* An operator of a chain is pulled: next() asks the operator before it    *)
(* for elements until it has one to return.  Here one step stands for one  *)
(* element taken from the operator before and all the calls of next() that *)
(* it answers: a step is a set of results, each with the state the         *)
(* operator is left in and the elements it returns.                        *)
(***************************************************************************)
EXTENDS Integers, Sequences, SequencesExt

NoTs == -1
Element(kind, v, ts) == [kind |-> kind, v |-> v, ts |-> ts]
Item(v) == Element("item", v, NoTs)
Timestamped(v, ts) == Element("timestamped", v, ts)
Watermark(ts) == Element("watermark", <<>>, ts)
FlushBatch == Element("flush_batch", <<>>, NoTs)
FlushAndRestart == Element("flush_and_restart", <<>>, NoTs)
Terminate == Element("terminate", <<>>, NoTs)
\* what a panic of the operator leaves in its output
Panic == Element("panic", <<>>, NoTs)

value(e) == e.kind \in {"item", "timestamped"}
IsEnd(e) == e.kind \in {"flush_and_restart", "terminate"}
IsWatermark(e) == e.kind = "watermark"
map(e, f(_)) == IF value(e) THEN [e EXCEPT !.v = f(e.v)] ELSE e
key(e) == e.v[1]
\* Timestamped(v, ts) when there is a timestamp, Item(v) otherwise
WithTimestamp(v, ts) == IF ts = NoTs THEN Item(v) ELSE Timestamped(v, ts)
WatermarkIfAny(ts) == IF ts = NoTs THEN <<>> ELSE <<Watermark(ts)>>
MaxTs(a, b) == IF a < b THEN b ELSE a

\* The data of a sequence of elements, and the last watermark in it.
Data(s) == SelectSeq(s, value)
LastWatermark(s) == FoldLeft(LAMBDA w, e : IF IsWatermark(e) THEN e.ts ELSE w, NoTs, s)
MapSeq(s, f(_)) == [i \in DOMAIN s |-> f(s[i])]
\* s in the order of Before, elements it does not tell apart in the order of s
StableSort(s, Before(_, _)) ==
    FoldLeft(LAMBDA sorted, e : SelectSeq(sorted, LAMBDA x : ~Before(e, x)) \o <<e>>
                                    \o SelectSeq(sorted, LAMBDA x : Before(e, x)), <<>>, s)

\* s without its first `offset` elements, and then at most `limit` of them
Slice(s, offset, limit) ==
    SubSeq(s, offset + 1, IF offset + limit < Len(s) THEN offset + limit ELSE Len(s))

\* The only result of a step that leaves the state s and returns out.
Return(s, out) == {[s |-> s, out |-> out]}
=============================================================================
