-------------------------------- MODULE Sinks -------------------------------
(***************************************************************************)
(* The sinks (src/operator/sink).  A sink returns the control it takes and, *)
(* for an element, a unit item.  The state keeps what has left the process: *)
(* the output of a collect, the elements given to a closure or a channel,   *)
(* the part of a file that is flushed.                                      *)
(***************************************************************************)
EXTENDS Elements, FiniteSets

Unit == Item(<<>>)
Forward(e) == IF value(e) THEN <<Unit>> ELSE <<e>>

\* Collect: one call of next() that returns at Terminate; output is None until then.
CollectNew == [result |-> <<>>, ready |-> FALSE, output |-> <<>>]

CollectNext(s, e) ==
    CASE value(e) -> Return([s EXCEPT !.result = Append(@, e.v)], <<>>)
      [] e = Terminate -> Return([s EXCEPT !.ready = TRUE, !.output = s.result], <<e>>)
      [] OTHER -> Return(s, <<>>)

\* CollectVecSink: the result is taken at Terminate.
CollectVecNext(s, e) ==
    Return(CASE value(e) -> [s EXCEPT !.result = Append(@, e.v)]
             [] e = Terminate -> [result |-> <<>>, ready |-> TRUE, output |-> s.result]
             [] OTHER -> s, Forward(e))

\* CollectCountSink: the sum of the counts of the replicas before it
CollectCountNew == [result |-> 0, ready |-> FALSE, output |-> 0]

CollectCountNext(s, e) ==
    Return(CASE value(e) -> [s EXCEPT !.result = @ + e.v[2]]
             [] e = Terminate -> [s EXCEPT !.ready = TRUE, !.output = s.result]
             [] OTHER -> s, Forward(e))

\* CollectChannelSink: what was sent; ready when tx is dropped, which the receiver sees
CollectChannelNext(s, e) ==
    Return(CASE value(e) /\ ~s.ready -> [s EXCEPT !.output = Append(@, e.v)]
             [] e = Terminate -> [s EXCEPT !.ready = TRUE]
             [] OTHER -> s, Forward(e))

\* ForEach: the calls of the closure; elements are not returned.
ForEachNext(calls, e) ==
    Return(IF value(e) THEN Append(calls, e.v) ELSE calls, IF value(e) THEN <<>> ELSE <<e>>)

-----------------------------------------------------------------------------
(* WriterOperator: write() takes elements up to the next control, which then *)
(* flushes or closes.  `buffer` is in the writer, `file` in the file.        *)

WriterNew == [buffer |-> <<>>, file |-> <<>>, open |-> TRUE]

\* CsvWriteOp: the csv writer is flushed, and flushed by its drop
csv_flush(w) == [w EXCEPT !.buffer = <<>>, !.file = @ \o w.buffer]
csv_finalize(w) == [csv_flush(w) EXCEPT !.open = FALSE]

\* AvroSink: write() flushes into a BufWriter that only finalize() flushes
avro_flush(w) == w
avro_finalize(w) == [csv_flush(w) EXCEPT !.open = FALSE]

\* ParquetSink: flush() writes the rows of the decoder; close() forgets them
parquet_flush(w) == csv_flush(w)
parquet_finalize(w) == [w EXCEPT !.buffer = <<>>, !.open = FALSE]

WriterNext(w, e, format) ==
    CASE value(e) -> Return([w EXCEPT !.buffer = Append(@, e.v)], <<>>)
      [] e \in {FlushBatch, FlushAndRestart} ->
           Return(CASE format = "csv" -> csv_flush(w)
                    [] format = "avro" -> avro_flush(w)
                    [] format = "parquet" -> parquet_flush(w), <<e>>)
      [] e = Terminate ->
           Return(CASE format = "csv" -> csv_finalize(w)
                    [] format = "avro" -> avro_finalize(w)
                    [] format = "parquet" -> parquet_finalize(w), <<e>>)
      [] OTHER -> Return(w, <<e>>)

\* KafkaSink: each element is sent by a task of its own; the tasks end in any order, and
\* nobody waits for them.
KafkaSinkNew == [pending |-> <<>>, sent |-> <<>>]

KafkaSinkNext(s, e) ==
    LET pending == IF value(e) THEN Append(s.pending, e.v) ELSE s.pending
        Done(tasks) == [n \in 1..Cardinality(tasks) |->
                           pending[CHOOSE i \in tasks : Cardinality({j \in tasks : j <= i}) = n]]
    IN  {[s |-> [pending |-> Done(DOMAIN pending \ tasks), sent |-> s.sent \o Done(tasks)],
          out |-> IF value(e) THEN <<>> ELSE <<e>>] : tasks \in SUBSET DOMAIN pending}
=============================================================================
