------------------------------- MODULE Sources ------------------------------
(***************************************************************************)
(* The sources: how a file, a table or a range is divided among replicas,   *)
(* and how a source that waits for its input answers next().  A line is its *)
(* length in bytes, and a file the sequence of its lines.                   *)
(***************************************************************************)
EXTENDS Integers, Sequences, FiniteSets, SequencesExt, FiniteSetsExt

CONSTANT MaxRetry   \* MAX_RETRY of channel.rs

\* what a source returns beside its items, which are positive
FlushMsg == -1
RestartMsg == -2
TerminateMsg == -3

-----------------------------------------------------------------------------
(* Division among replicas; ids start at 0 *)

Size(file) == FoldLeft(LAMBDA a, b : a + b, 0, file)
LineStart(file, i) == Size(SubSeq(file, 1, i - 1))
\* read_until and read_line: the bytes up to the end of the line at pos
ReadLine(file, pos) ==
    LET ends == {LineStart(file, i) + file[i] : i \in DOMAIN file}
        after == {e \in ends : e > pos}
    IN  IF after = {} THEN 0 ELSE Min(after) - pos
\* the indices of the lines that start in a range of bytes
LinesIn(file, first, last) == SelectSeq([i \in DOMAIN file |-> i], LAMBDA i : LineStart(file, i) \in first..last)

\* A replica reads on while the line starts at or before the end of its range.
FileLines(file, id, n) ==
    LET range == Size(file) \div n
        start == range * id
        end == IF id = n - 1 THEN Size(file) ELSE start + range
        current == IF id # 0 THEN start + ReadLine(file, start) ELSE start
    IN  LinesIn(file, current, end)

\* Both ends of the range of a replica move to the end of a line; the header is not divided.
CsvRecords(file, id, n, has_headers) ==
    LET header == IF has_headers THEN ReadLine(file, 0) ELSE 0
        range == (Size(file) - header) \div n
        start == header + range * id
        end == IF id = n - 1 THEN Size(file) ELSE start + range
        Aligned(pos) == pos + ReadLine(file, pos)
    IN  LinesIn(file, IF id # 0 THEN Aligned(start) ELSE start, (IF id # n - 1 THEN Aligned(end) ELSE end) - 1)

\* Range<u64>, and the other integers through i64; a range lo..hi is the integers below hi
Larger(a, b) == IF a > b THEN a ELSE b
Smaller(a, b) == IF a < b THEN a ELSE b
Chunk(lo, hi, id, chunk) ==
    LET start == lo + id * chunk
        end == Larger(Smaller(start + chunk, hi), lo)
    IN  [i \in 1..Larger(end - start, 0) |-> start + i - 1]
u64_generate_iterator(lo, hi, id, peers) == Chunk(lo, hi, id, (hi - lo) \div peers + IF (hi - lo) % peers > 0 THEN 1 ELSE 0)
generate_iterator(lo, hi, id, peers) == Chunk(lo, hi, id, (hi - lo + peers - 1) \div peers)

-----------------------------------------------------------------------------
(* Answers of next(): the state s of the replica, the shared input q and whether *)
(* its other end is open give the possible [s, q, out]; none when the call waits *)

Answer(s, q, out) == {[s |-> s, q |-> q, out |-> out]}
SourceNew == [terminated |-> FALSE, retry_count |-> 0, cooldown |-> FALSE]

\* a source that has all of its input
IteratorNext(s, q, open) ==
    IF s.terminated THEN Answer(s, q, <<TerminateMsg>>)
    ELSE IF q # <<>> THEN Answer(s, Tail(q), <<Head(q)>>)
    ELSE Answer([s EXCEPT !.terminated = TRUE], q, <<RestartMsg>>)
\* ... and one that waits for it
AsyncStreamNext(s, q, open) == IF ~s.terminated /\ q = <<>> /\ open THEN {} ELSE IteratorNext(s, q, open)

\* Sources that iterate over their share: of a file, of its records, of a range, of what a
\* reader finds.
FileNext(s, q, open) == IteratorNext(s, q, open)
CsvNext(s, q, open) == IteratorNext(s, q, open)
ParallelIteratorNext(s, q, open) == IteratorNext(s, q, open)
AvroNext(s, q, open) == IteratorNext(s, q, open)
\* asks its reader also when it has ended
ParquetNext(s, q, open) ==
    IF q # <<>> THEN Answer(s, Tail(q), <<Head(q)>>)
    ELSE Answer([s EXCEPT !.terminated = TRUE], q, <<IF s.terminated THEN TerminateMsg ELSE RestartMsg>>)

\* What the calls of next() return of the share q, up to the last one.
Pulled(q, NextOf(_, _, _)) ==
    LET calls[i \in 0..Len(q) + 2] ==
            IF i = 0 THEN [s |-> SourceNew, q |-> q, out |-> <<>>]
            ELSE LET p == calls[i - 1]
                     a == CHOOSE a \in NextOf(p.s, p.q, FALSE) : TRUE
                 IN  [a EXCEPT !.out = p.out \o @]
    IN  calls[Len(q) + 2].out

\* One turn of the loop: spin, then ask for a flush, then block.
ChannelNext(s, q, open) ==
    IF s.terminated THEN Answer(s, q, <<TerminateMsg>>)
    ELSE IF q # <<>> THEN Answer([s EXCEPT !.retry_count = 0], Tail(q), <<Head(q)>>)
    ELSE IF ~open THEN Answer([s EXCEPT !.terminated = TRUE], q, <<RestartMsg>>)
    ELSE IF s.retry_count > MaxRetry THEN {}
    ELSE Answer([s EXCEPT !.retry_count = @ + 1], q, IF s.retry_count < MaxRetry THEN <<>> ELSE <<FlushMsg>>)

\* A timeout asks for a flush, and the call after it blocks.
KafkaNext(s, q, open) ==
    IF q # <<>> THEN Answer([s EXCEPT !.cooldown = FALSE], Tail(q), <<Head(q)>>)
    ELSE IF ~open THEN Answer([s EXCEPT !.terminated = TRUE], q, <<TerminateMsg>>)
    ELSE IF s.cooldown THEN {}
    ELSE Answer([s EXCEPT !.cooldown = TRUE], q, <<FlushMsg>>)

-----------------------------------------------------------------------------
(* A cached stream: the sinks of one execution fill a registry, the sources of the *)
(* next one take from it                                                            *)

CacheRegistryNew == [setup |-> FALSE, missing |-> 0, data |-> <<>>]
register(c) == [c EXCEPT !.setup = TRUE, !.missing = @ + 1]
insert(c, id, items) == [c EXCEPT !.missing = @ - 1, !.data = (id :> items) @@ @]
remove(c, id) == [c EXCEPT !.data = [i \in DOMAIN @ \ {id} |-> @[i]]]
is_complete(c) == c.setup /\ c.missing = 0

\* BincodeCacher: the items go to the file in batches, the rest with finalize
append_item(a, x, batch_size) ==
    LET buf == Append(a.buf, x)
    IN  IF Len(buf) = batch_size THEN [buf |-> <<>>, file |-> Append(a.file, buf)] ELSE [a EXCEPT !.buf = buf]
finalize(a) == IF a.buf = <<>> THEN a.file ELSE Append(a.file, a.buf)
\* the items that BincodeReplayer reads from it, batch by batch
replayed(file) == FlattenSeq(file)
=============================================================================
