------------------------------- MODULE Windows ------------------------------
(***************************************************************************)
(* The window operator (src/operator/window): a window manager per key, and *)
(* in each window an accumulator.  A window description d is a record with  *)
(* the kind of the manager, its size, slide and exact flag, and the kind of *)
(* the accumulator (aggr).  The wall clock of the session and processing    *)
(* time windows is part of the state of the operator and moves between two  *)
(* elements by any of Ticks.                                                *)
(***************************************************************************)
EXTENDS Elements, FiniteSets

CONSTANTS Ticks,       \* how far the wall clock moves between two elements
          CommitTime   \* timestamp a transaction is committed after

-----------------------------------------------------------------------------
(* Accumulators: a tuple that is empty or the initial value, what an element *)
(* <<key, x>> or <<key, x, side>> changes, and what the window returns.      *)

FoldAcc(acc, v) == <<acc[1] + v[2]>>
CountAcc(acc, v) == <<acc[1] + 1>>
FoldFirstAcc(acc, v, Better(_, _)) ==
    IF acc = <<>> \/ Better(v[2], acc[1]) THEN <<v[2]>> ELSE acc
MaxAcc(acc, v) == FoldFirstAcc(acc, v, LAMBDA x, max : x > max)
MinAcc(acc, v) == FoldFirstAcc(acc, v, LAMBDA x, min : x < min)
FirstAcc(acc, v) == IF acc = <<>> THEN <<v[2]>> ELSE acc
LastAcc(acc, v) == <<v[2]>>
CollectVecAcc(acc, v) == Append(acc, v[2])
JoinAcc(acc, v) == [acc EXCEPT ![v[3]] = Append(@, v[2])]

\* The pairs of the iterator of a window join: j runs over right for each i of left.
ProductIterator(left, right) ==
    [n \in 1..Len(left) * Len(right) |->
        <<left[((n - 1) \div Len(right)) + 1], right[((n - 1) % Len(right)) + 1]>>]

init(aggr) == CASE aggr \in {"fold", "count"} -> <<0>>
                [] aggr = "join" -> <<<<>>, <<>>>>
                [] OTHER -> <<>>

process(aggr, acc, v) ==
    CASE aggr = "fold" -> FoldAcc(acc, v)
      [] aggr = "count" -> CountAcc(acc, v)
      [] aggr = "max" -> MaxAcc(acc, v)
      [] aggr = "min" -> MinAcc(acc, v)
      [] aggr = "first" -> FirstAcc(acc, v)
      [] aggr = "last" -> LastAcc(acc, v)
      [] aggr = "collect_vec" -> CollectVecAcc(acc, v)
      [] aggr = "join" -> JoinAcc(acc, v)

\* the result of a window; the pairs of a join are flattened by window_join
output(aggr, acc) ==
    IF aggr = "join" THEN FlattenSeq(ProductIterator(acc[1], acc[2])) ELSE acc

-----------------------------------------------------------------------------
(* Window managers: state, and what process() leaves and returns *)

Managed(m, out) == [m |-> m, out |-> out]

\* The results of the windows ws that received an element.
Results(d, ws, ts(_)) ==
    MapSeq(SelectSeq(ws, LAMBDA w : w.active), LAMBDA w : WithTimestamp(output(d.aggr, w.acc), ts(w)))

\* CountWindow
CountSlot(d) == [count |-> 0, acc |-> init(d.aggr), ts |-> NoTs]

update_slot(d, slot, e) == [count |-> slot.count + 1, acc |-> process(d.aggr, slot.acc, e.v),
                            ts |-> MaxTs(slot.ts, e.ts)]

CountProcess(d, ws, e) ==
    LET slots == (d.size + d.slide - 1) \div d.slide
        full == ws \o [i \in 1..slots - Len(ws) |-> CountSlot(d)]
        k == (full[1].count \div d.slide) + 1
        updated == [i \in DOMAIN full |-> IF i <= k THEN update_slot(d, full[i], e) ELSE full[i]]
        Result(slot) == WithTimestamp(output(d.aggr, slot.acc), slot.ts)
    IN  CASE value(e) /\ updated[1].count = d.size -> Managed(Tail(updated), <<Result(updated[1])>>)
          [] value(e) /\ updated[1].count # d.size -> Managed(updated, <<>>)
          [] IsEnd(e) -> Managed(<<>>, IF d.exact \/ ws = <<>> \/ ws[1].count = 0 THEN <<>>
                                       ELSE <<Result(ws[1])>>)
          [] OTHER -> Managed(ws, <<>>)

\* LastKWindow: the window that is not full is returned as well, and stays open.
LastKProcess(d, ws, e) ==
    LET full == ws \o [i \in 1..d.size - Len(ws) |-> CountSlot(d)]
        k == full[1].count + 1
        updated == [i \in DOMAIN full |-> IF i <= k THEN update_slot(d, full[i], e) ELSE full[i]]
    IN  CASE value(e) -> Managed(IF updated[1].count = d.size THEN Tail(updated) ELSE updated,
                                 <<WithTimestamp(output(d.aggr, updated[1].acc), updated[1].ts)>>)
          [] IsEnd(e) -> Managed(<<>>, <<>>)
          [] OTHER -> Managed(ws, <<>>)

\* AllWindow: open tells whether there is an accumulator.
AllNew(d) == [open |-> FALSE, acc |-> init(d.aggr), tsmin |-> NoTs]

AllProcess(d, m, e) ==
    LET tsmin == IF e.ts = NoTs \/ (m.tsmin # NoTs /\ m.tsmin < e.ts) THEN m.tsmin ELSE e.ts
        result == WithTimestamp(output(d.aggr, m.acc), tsmin)
    IN  CASE value(e) -> Managed([open |-> TRUE, acc |-> process(d.aggr, m.acc, e.v),
                                  tsmin |-> tsmin], <<>>)
          [] e = FlushAndRestart -> Managed(AllNew(d), IF m.open THEN <<result>> ELSE <<Panic>>)
          [] e = Terminate -> Managed(AllNew(d), IF m.open THEN <<result>> ELSE <<>>)
          [] OTHER -> Managed([m EXCEPT !.tsmin = tsmin], <<>>)

\* EventTimeWindow and ProcessingTimeWindow
TimeSlot(d, start) == [acc |-> init(d.aggr), start |-> start, end |-> start + d.size,
                       active |-> FALSE]

\* The windows are allocated from the last one up to the one that starts at ts or later;
\* those before the watermark are skipped.
RECURSIVE alloc_windows(_, _, _, _)
alloc_windows(d, ws, last_watermark, ts) ==
    IF ws # <<>> /\ Last(ws).start >= ts THEN ws
    ELSE LET next_start == IF ws = <<>> THEN ts ELSE Last(ws).start + d.slide
             skipped == IF last_watermark = NoTs THEN 0
                        ELSE (MaxTs(last_watermark - next_start, 0) \div d.slide) * d.slide
         IN  alloc_windows(d, Append(ws, TimeSlot(d, next_start + skipped)), last_watermark, ts)

\* Every window of ws that is open at ts takes the value.
Assign(d, ws, v, ts) ==
    MapSeq(ws, LAMBDA w : IF w.start <= ts /\ ts < w.end
                          THEN [w EXCEPT !.acc = process(d.aggr, @, v), !.active = TRUE] ELSE w)

EventTimeNew == [last_watermark |-> NoTs, ws |-> <<>>]

EventTimeProcess(d, m, e) ==
    LET Closed(w) == IsEnd(e) \/ w.end < e.ts
        closed == Results(d, SelectSeq(m.ws, Closed), LAMBDA w : w.end)
    IN  CASE e.kind = "item" \/ (value(e) /\ e.ts < m.last_watermark) -> Managed(m, <<Panic>>)
          [] e.kind = "timestamped" /\ e.ts >= m.last_watermark ->
               Managed([m EXCEPT !.ws = Assign(d, alloc_windows(d, @, m.last_watermark, e.ts),
                                               e.v, e.ts)], <<>>)
          [] IsWatermark(e) -> Managed([last_watermark |-> e.ts,
                                        ws |-> SelectSeq(m.ws, LAMBDA w : ~Closed(w))], closed)
          [] IsEnd(e) -> Managed([m EXCEPT !.ws = <<>>], closed)

ProcessingTimeProcess(d, ws, e, now) ==
    LET allocated == IF value(e) THEN Assign(d, alloc_windows(d, ws, NoTs, now), e.v, now) ELSE ws
        Closed(w) == IsEnd(e) \/ w.end < now
    IN  Managed(SelectSeq(allocated, LAMBDA w : ~Closed(w)),
                Results(d, SelectSeq(allocated, Closed), LAMBDA w : NoTs))

\* SessionWindow: at most one window, over when no element came for longer than size.
SessionProcess(d, w, e, now) ==
    LET over == w # <<>> /\ now - w[1].last > d.size
        ret == IF over \/ (IsEnd(e) /\ w # <<>>) THEN <<Item(output(d.aggr, w[1].acc))>> ELSE <<>>
        acc == IF w = <<>> \/ over THEN init(d.aggr) ELSE w[1].acc
    IN  CASE value(e) -> Managed(<<[acc |-> process(d.aggr, acc, e.v), last |-> now]>>, ret)
          [] IsEnd(e) -> Managed(<<>>, ret)
          [] OTHER -> Managed(IF over THEN <<>> ELSE w, ret)

\* TransactionWindow: the logic of the user, on the value of an element
logic(v) == CASE v[2] = 1 -> "Continue"
              [] v[2] = 2 -> "Commit"
              [] v[2] = 3 -> "CommitAfter"
              [] OTHER -> "Discard"

TransactionProcess(d, w, e) ==
    LET slot == IF w = <<>> THEN [acc |-> init(d.aggr), close |-> NoTs] ELSE w[1]
        filled == IF value(e) THEN [slot EXCEPT !.acc = process(d.aggr, @, e.v)] ELSE slot
        result == <<Item(output(d.aggr, filled.acc))>>
    IN  CASE e.kind = "item" -> Managed(w, <<Panic>>)
          [] e.kind = "timestamped" /\ logic(e.v) = "Continue" -> Managed(<<filled>>, <<>>)
          [] e.kind = "timestamped" /\ logic(e.v) = "Commit" -> Managed(<<>>, result)
          [] e.kind = "timestamped" /\ logic(e.v) = "CommitAfter" ->
               Managed(<<[filled EXCEPT !.close = CommitTime]>>, <<>>)
          [] e.kind = "timestamped" /\ logic(e.v) = "Discard" -> Managed(<<>>, <<>>)
          [] ~value(e) /\ slot.close # NoTs /\ (IsEnd(e) \/ slot.close < e.ts) ->
               Managed(<<>>, result)
          [] OTHER -> Managed(w, <<>>)

-----------------------------------------------------------------------------
(* WindowOperator *)

\* WindowDescription::build
build(d) == CASE d.kind = "all" -> AllNew(d)
              [] d.kind = "event_time" -> EventTimeNew
              [] OTHER -> <<>>

manager_process(d, m, e, now) ==
    CASE d.kind = "count" -> CountProcess(d, m, e)
      [] d.kind = "last_k" -> LastKProcess(d, m, e)
      [] d.kind = "all" -> AllProcess(d, m, e)
      [] d.kind = "event_time" -> EventTimeProcess(d, m, e)
      [] d.kind = "processing_time" -> ProcessingTimeProcess(d, m, e, now)
      [] d.kind = "session" -> SessionProcess(d, m, e, now)
      [] d.kind = "transaction" -> TransactionProcess(d, m, e)

recycle(d, m) == CASE d.kind = "event_time" -> m.ws = <<>>
                   [] d.kind = "transaction" -> m = <<>>
                   [] OTHER -> FALSE

\* windows: the managers of the keys seen so far
WindowNew == [windows |-> <<>>, now |-> 0]

WithKey(k, out) == MapSeq(out, LAMBDA e : [e EXCEPT !.v = <<k>> \o @])

\* An element goes to the manager of its key; control goes to all of them, in any order,
\* and follows their results.
WindowNext(s, e, d) ==
    LET Process(k, now) ==
            manager_process(d, IF k \in DOMAIN s.windows THEN s.windows[k] ELSE build(d), e, now)
        Element1(now) ==
            LET r == Process(key(e), now)
            IN  [s |-> [windows |-> [k \in DOMAIN s.windows \cup {key(e)} |->
                                        IF k = key(e) THEN r.m ELSE s.windows[k]],
                        now |-> now],
                 out |-> WithKey(key(e), r.out)]
        Control(now, order) ==
            LET kept == {k \in DOMAIN s.windows : ~recycle(d, Process(k, now).m)}
            IN  [s |-> [windows |-> [k \in kept |-> Process(k, now).m], now |-> now],
                 out |-> FlattenSeq(MapSeq(order, LAMBDA k : WithKey(k, Process(k, now).out)))
                         \o <<e>>]
        times == IF d.kind \in {"processing_time", "session"} THEN {s.now + t : t \in Ticks}
                 ELSE {s.now}
    IN  CASE value(e) -> {Element1(now) : now \in times}
          [] e = FlushBatch -> Return(s, <<e>>)
          [] OTHER -> {Control(now, order) : now \in times, order \in SetToSeqs(DOMAIN s.windows)}
=============================================================================
