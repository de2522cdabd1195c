----------------------------- MODULE StartProofs -----------------------------
(***************************************************************************)
(* The safety properties of Start, for every number of previous replicas,  *)
(* of rounds and of elements, every capacity of the channel and every      *)
(* largest timestamp.                                                      *)
(***************************************************************************)
EXTENDS Start, TLAPS, FiniteSetTheorems, WellFoundedInduction

-----------------------------------------------------------------------------
(* The frontier *)

\* A nonempty set of natural numbers has a smallest element.
LEMMA SmallestNat ==
    ASSUME NEW T, T \subseteq Nat, T # {}
    PROVE  \E x \in T : \A y \in T : x <= y
<1> DEFINE R == {ss \in Nat \X Nat : ss[1] < ss[2]}
<1>1. IsWellFoundedOn(R, Nat)
  BY NatLessThanWellFounded, Zenon DEF OpToRel
<1>2. \E x \in T : \A y \in T : ~ (<<y, x>> \in R)
  <2> HIDE DEF R
  <2> QED BY <1>1, WFMin, Zenon
<1>3. PICK x \in T : \A y \in T : ~ (<<y, x>> \in R)
  BY <1>2
<1>4. ASSUME NEW y \in T PROVE x <= y
  <2>1. x \in Nat /\ y \in Nat
    OBVIOUS
  <2>2. y < x => <<y, x>> \in R
    BY <2>1
  <2> HIDE DEF R
  <2> QED BY <1>3, <2>1, <2>2
<1> QED
  BY <1>4

\* compute_frontier gives the smallest watermark of the replicas, or None
\* exactly when a replica has not sent one.
LEMMA FrontierIsMinimum ==
    ASSUME NEW m \in [Prev -> OptTimestamp]
    PROVE  /\ ComputeFrontier(m) \in OptTimestamp
           /\ \A r \in Prev : ComputeFrontier(m) <= m[r]
           /\ \E r \in Prev : ComputeFrontier(m) = m[r]
<1>1. CASE \A r \in Prev : m[r] # None
  <2> DEFINE T == {m[r] : r \in Prev}
  <2>1. T \subseteq Nat /\ T # {}
    BY <1>1, PrevAssumption, MaxTsAssumption DEF OptTimestamp, Timestamp, None
  <2>2. PICK x \in T : \A y \in T : x <= y
    BY <2>1, SmallestNat, Zenon
  <2>3. x \in Timestamp
    BY <1>1 DEF OptTimestamp
  <2>4. \E ts \in Timestamp : /\ \A r \in Prev : ts <= m[r]
                              /\ \E r \in Prev : ts = m[r]
    BY <2>2, <2>3
  <2>5. /\ ComputeFrontier(m) \in Timestamp
        /\ \A r \in Prev : ComputeFrontier(m) <= m[r]
        /\ \E r \in Prev : ComputeFrontier(m) = m[r]
    BY <1>1, <2>4, Zenon DEF ComputeFrontier
  <2> QED
    BY <2>5 DEF OptTimestamp
<1>2. CASE \E r \in Prev : m[r] = None
  BY <1>2, MaxTsAssumption DEF ComputeFrontier, OptTimestamp, Timestamp, None
<1> QED
  BY <1>1, <1>2

\* A watermark above the one the map holds never lowers the frontier.
LEMMA FrontierGrows ==
    ASSUME NEW m \in [Prev -> OptTimestamp], NEW n \in [Prev -> OptTimestamp],
           \A r \in Prev : m[r] <= n[r]
    PROVE  ComputeFrontier(m) <= ComputeFrontier(n)
<1>1. PICK r \in Prev : ComputeFrontier(n) = n[r]
  BY FrontierIsMinimum
<1>2. ComputeFrontier(m) <= m[r]
  BY FrontierIsMinimum
<1>3. ComputeFrontier(m) \in Int /\ m[r] \in Int /\ n[r] \in Int
  BY FrontierIsMinimum, MaxTsAssumption DEF OptTimestamp, Timestamp, None
<1> QED
  BY <1>1, <1>2, <1>3

\* Option<Timestamp> as an integer
LEMMA OptTimestampInt == OptTimestamp \subseteq Int /\ \A t \in OptTimestamp : None <= t
  BY MaxTsAssumption DEF OptTimestamp, Timestamp, None

-----------------------------------------------------------------------------
(* What is in flight *)

\* the fake batches are not messages
LEMMA FakeBatches == NoBatch \notin NetworkMessage /\ FakeBatch \notin NetworkMessage
  BY SenderAssumption DEF NoBatch, FakeBatch, NetworkMessage

LEMMA PendingType ==
    ASSUME TypeOK
    PROVE  \A i \in Pending : /\ i \in Nat
                              /\ Msg(i) \in NetworkMessage
                              /\ Msg(i).sender \in Prev
                              /\ Msg(i).el \in Element
                              /\ Msg(i).el.kind \in Kind
                              /\ Msg(i).el.ts \in OptTimestamp
<1>1. \A i \in Pending : i \in Nat /\ Msg(i) \in NetworkMessage
  BY DEF TypeOK, Pending, Msg
<1> QED
  BY <1>1 DEF NetworkMessage, Element

\* Send adds a message at the end.
LEMMA PendingSent ==
    ASSUME TypeOK, NEW r \in Prev, NEW el \in Element, Send(r, el),
           UNCHANGED batch_iter, NEW n, n = Len(channel) + 1
    PROVE  /\ Pending' = Pending \cup {n}
           /\ n \in Nat
           /\ \A i \in Pending : i < n /\ Msg(i)' = Msg(i)
           /\ Msg(n)'.sender = r
           /\ Msg(n)'.el = el
<1> DEFINE m == [sender |-> r, el |-> el]
<1>1. m \in NetworkMessage /\ channel \in Seq(NetworkMessage) /\ channel' = Append(channel, m)
  BY DEF TypeOK, Send, NetworkMessage
<1>2. /\ Len(channel) \in Nat
      /\ Len(channel') = Len(channel) + 1
      /\ \A i \in 1 .. Len(channel) : channel'[i] = channel[i]
      /\ channel'[Len(channel) + 1] = m
  <2> HIDE DEF m
  <2> QED BY <1>1
<1>3. Pending' = Pending \cup {n} /\ n \in Nat
  BY <1>2 DEF Pending
<1>4. \A i \in Pending : i < n /\ Msg(i)' = Msg(i)
  BY <1>2 DEF Pending, Msg
<1>5. Msg(n)' = m
  BY <1>2 DEF Msg
<1> QED
  BY <1>3, <1>4, <1>5

\* Receiving moves every message one place ahead.
LEMMA PendingReceived ==
    ASSUME TypeOK, batch_iter = NoBatch, channel # <<>>,
           batch_iter' = Head(channel), channel' = Tail(channel)
    PROVE  /\ \A i \in Pending' : i \in Nat /\ i + 1 \in Pending /\ Msg(i)' = Msg(i + 1)
           /\ \A i \in Pending : i - 1 \in Pending' /\ Msg(i - 1)' = Msg(i)
<1>1. channel \in Seq(NetworkMessage)
  BY DEF TypeOK
<1>2. /\ Len(channel) \in Nat
      /\ Len(channel) > 0
      /\ Len(channel') = Len(channel) - 1
      /\ batch_iter' = channel[1]
      /\ channel[1] \in NetworkMessage
      /\ \A i \in 1 .. Len(channel') : channel'[i] = channel[i + 1]
  BY <1>1
<1>3. Pending = 1 .. Len(channel) /\ Pending' = 0 .. Len(channel')
  BY <1>2, FakeBatches DEF Pending
<1>4. ASSUME NEW i \in Pending'
      PROVE  i \in Nat /\ i + 1 \in Pending /\ Msg(i)' = Msg(i + 1)
  BY <1>2, <1>3 DEF Msg
<1>5. ASSUME NEW i \in Pending
      PROVE  i - 1 \in Pending' /\ Msg(i - 1)' = Msg(i)
  BY <1>2, <1>3 DEF Msg
<1> QED
  BY <1>4, <1>5

\* Handling the element of the current batch leaves the channel.
LEMMA PendingTaken ==
    ASSUME TypeOK, batch_iter \in NetworkMessage, batch_iter' = NoBatch,
           UNCHANGED channel
    PROVE  /\ Pending = Pending' \cup {0}
           /\ Msg(0) = batch_iter
           /\ \A i \in Pending' : i \in Nat /\ 0 < i /\ Msg(i)' = Msg(i)
  BY FakeBatches DEF TypeOK, Pending, Msg

LEMMA PendingSame ==
    ASSUME TypeOK, batch_iter = batch_iter' \/ {batch_iter, batch_iter'} \subseteq {NoBatch, FakeBatch},
           UNCHANGED channel
    PROVE  Pending' = Pending /\ \A i \in Pending : Msg(i)' = Msg(i)
  BY FakeBatches DEF TypeOK, Pending, Msg

-----------------------------------------------------------------------------
(* The steps of the previous replicas *)

LEMMA SendTimestampedInv ==
    ASSUME IInv, NEW r \in Prev, NEW ts \in Timestamp, SendTimestamped(r, ts)
    PROVE  IInv'
<1> USE DEF startUnchanged, counters, frontier, state, observed
<1>0. PICK n : n = Len(channel) + 1
  OBVIOUS
<1>1. Timestamped(ts) \in Element /\ Timestamped(ts).kind = "Timestamped" /\ Timestamped(ts).ts = ts
  BY DEF Timestamped, Element, Kind, OptTimestamp
<1>2. /\ Pending' = Pending \cup {n}
      /\ n \in Nat
      /\ \A i \in Pending : i < n /\ Msg(i)' = Msg(i)
      /\ Msg(n)'.sender = r
      /\ Msg(n)'.el = Timestamped(ts)
  BY <1>0, <1>1, PendingSent DEF IInv, SendTimestamped
<1>3. \A i \in Pending : i \in Nat /\ Msg(i).sender \in Prev /\ Msg(i).el.ts \in Int
  BY PendingType, OptTimestampInt, Zenon DEF IInv
<1>a. send_wm[r] \in Int /\ map[r] \in Int /\ ts \in Int /\ map[r] <= send_wm[r] /\ send_wm[r] < ts
  <2>1. send_wm[r] \in OptTimestamp /\ map[r] \in OptTimestamp /\ ts \in OptTimestamp
    BY DEF IInv, TypeOK, OptTimestamp
  <2>2. map[r] <= send_wm[r] /\ send_wm[r] < ts
    BY DEF IInv, SenderInv, SenderOK, SendTimestamped
  <2> QED
    BY <2>1, <2>2, OptTimestampInt, Zenon
<1>4. TypeOK'
  <2>1. channel' \in Seq(NetworkMessage)
    BY <1>1 DEF IInv, TypeOK, SendTimestamped, Send, NetworkMessage
  <2> QED
    BY <2>1, BoundsAssumption, SMTT(30) DEF IInv, TypeOK, SendTimestamped
<1>5. \A i \in Pending : Msg(i).sender = r =>
            /\ Msg(i).el.kind \in Data
            /\ Msg(i).el.kind = "Watermark" => Msg(i).el.ts <= send_wm[r]
  BY DEF IInv, MessageInv, MessageOK, SendTimestamped, InRound, Data
<1>6. OrderInv'
  <2> SUFFICES ASSUME NEW i \in Pending', NEW j \in Pending', i < j, Msg(i)'.sender = Msg(j)'.sender
               PROVE  /\ Msg(i)'.el.kind = "FlushAndRestart" => Msg(j)'.el.kind = "Terminate"
                      /\ Msg(i)'.el.kind # "Terminate"
                      /\ (Msg(i)'.el.kind = "Watermark" /\ Msg(j)'.el.kind = "Timestamped")
                            => Msg(i)'.el.ts < Msg(j)'.el.ts
    BY DEF OrderInv
  <2>1. CASE j \in Pending
    BY <1>2, <1>3, <2>1 DEF IInv, OrderInv
  <2>2. CASE j = n
    BY <1>1, <1>2, <1>3, <1>5, <1>a, <2>2 DEF Data
  <2> QED
    BY <1>2, <2>1, <2>2
<1>7. MessageInv'
  <2> SUFFICES ASSUME NEW i \in Pending' PROVE MessageOK(Msg(i).sender, Msg(i).el)'
    BY DEF MessageInv
  <2>1. CASE i \in Pending
    <3>1. MessageOK(Msg(i).sender, Msg(i).el) /\ Msg(i)' = Msg(i) /\ Msg(i).sender \in Prev
      BY <1>2, <1>3, <2>1 DEF IInv, MessageInv
    <3>2. (Msg(i).el.kind = "Watermark" /\ Msg(i).sender = r) => Msg(i).el.ts <= ts
      BY <1>3, <1>5, <1>a, <2>1
    <3> QED
      BY <3>1, <3>2 DEF IInv, TypeOK, MessageOK, SendTimestamped
  <2>2. CASE i = n
    BY <1>1, <1>2, <1>a, <2>2, SMTT(60) DEF IInv, TypeOK, MessageOK, SenderInv, SenderOK, SendTimestamped, InRound, Data
  <2> QED
    BY <1>2, <2>1, <2>2
<1>8. SenderInv'
  <2> SUFFICES ASSUME NEW q \in Prev PROVE SenderOK(q)'
    BY DEF SenderInv
  <2>1. Flushing(q)' = Flushing(q) /\ Terminating(q)' = Terminating(q)
    BY <1>1, <1>2 DEF Flushing, Terminating
  <2> QED
    BY <1>a, <2>1 DEF IInv, TypeOK, SenderInv, SenderOK, SendTimestamped
<1>9. CountInv'
  <2>1. Unterminated' = Unterminated
    BY <1>1, <1>2 DEF Unterminated, Terminating, SendTimestamped
  <2> QED
    BY <2>1 DEF IInv, CountInv, SendTimestamped
<1>10. FrontierInv' /\ StateInv'
  BY DEF IInv, FrontierInv, StateInv, WatermarkSafe, ComputeFrontier, SendTimestamped
<1> QED
  BY <1>4, <1>6, <1>7, <1>8, <1>9, <1>10 DEF IInv

LEMMA SendWatermarkInv ==
    ASSUME IInv, NEW r \in Prev, NEW ts \in Timestamp, SendWatermark(r, ts)
    PROVE  IInv'
<1> USE DEF startUnchanged, counters, frontier, state, observed
<1>0. PICK n : n = Len(channel) + 1
  OBVIOUS
<1>1. Watermark(ts) \in Element /\ Watermark(ts).kind = "Watermark" /\ Watermark(ts).ts = ts
  BY DEF Watermark, Element, Kind, OptTimestamp
<1>2. /\ Pending' = Pending \cup {n}
      /\ n \in Nat
      /\ \A i \in Pending : i < n /\ Msg(i)' = Msg(i)
      /\ Msg(n)'.sender = r
      /\ Msg(n)'.el = Watermark(ts)
  BY <1>0, <1>1, PendingSent, ZenonT(60) DEF IInv, SendWatermark
<1>3. \A i \in Pending : i \in Nat /\ Msg(i).sender \in Prev /\ Msg(i).el.ts \in Int
  BY PendingType, OptTimestampInt, Zenon DEF IInv
<1>a. send_wm[r] \in Int /\ map[r] \in Int /\ ts \in Int /\ map[r] <= send_wm[r] /\ send_wm[r] <= ts
  <2>1. send_wm[r] \in OptTimestamp /\ map[r] \in OptTimestamp /\ ts \in OptTimestamp
    BY DEF IInv, TypeOK, OptTimestamp
  <2>2. map[r] <= send_wm[r] /\ send_wm[r] <= ts
    BY DEF IInv, SenderInv, SenderOK, SendWatermark
  <2> QED
    BY <2>1, <2>2, OptTimestampInt
<1>4. TypeOK'
  <2>1. channel' \in Seq(NetworkMessage)
    BY <1>1 DEF IInv, TypeOK, SendWatermark, Send, NetworkMessage
  <2> QED
    BY <2>1, BoundsAssumption, SMTT(30) DEF IInv, TypeOK, SendWatermark, OptTimestamp
<1>5. \A i \in Pending : Msg(i).sender = r =>
            /\ Msg(i).el.kind \in Data
            /\ Msg(i).el.kind = "Watermark" => Msg(i).el.ts <= send_wm[r]
  BY DEF IInv, MessageInv, MessageOK, SendWatermark, InRound, Data
<1>6. OrderInv'
  <2> SUFFICES ASSUME NEW i \in Pending', NEW j \in Pending', i < j, Msg(i)'.sender = Msg(j)'.sender
               PROVE  /\ Msg(i)'.el.kind = "FlushAndRestart" => Msg(j)'.el.kind = "Terminate"
                      /\ Msg(i)'.el.kind # "Terminate"
                      /\ (Msg(i)'.el.kind = "Watermark" /\ Msg(j)'.el.kind = "Timestamped")
                            => Msg(i)'.el.ts < Msg(j)'.el.ts
    BY DEF OrderInv
  <2>1. CASE j \in Pending
    BY <1>2, <1>3, <2>1 DEF IInv, OrderInv
  <2>2. CASE j = n
    BY <1>1, <1>2, <1>3, <1>5, <1>a, <2>2 DEF Data
  <2> QED
    BY <1>2, <2>1, <2>2
<1>7. MessageInv'
  <2> SUFFICES ASSUME NEW i \in Pending' PROVE MessageOK(Msg(i).sender, Msg(i).el)'
    BY DEF MessageInv
  <2>1. CASE i \in Pending
    <3>1. MessageOK(Msg(i).sender, Msg(i).el) /\ Msg(i)' = Msg(i) /\ Msg(i).sender \in Prev
      BY <1>2, <1>3, <2>1 DEF IInv, MessageInv
    <3>2. (Msg(i).el.kind = "Watermark" /\ Msg(i).sender = r) => Msg(i).el.ts <= ts
      BY <1>3, <1>5, <1>a, <2>1
    <3> QED
      BY <3>1, <3>2, SMTT(30) DEF IInv, TypeOK, MessageOK, SendWatermark
  <2>2. CASE i = n
    BY <1>1, <1>2, <1>a, <2>2, SMTT(60) DEF IInv, TypeOK, MessageOK, SenderInv, SenderOK, SendWatermark, InRound, Data
  <2> QED
    BY <1>2, <2>1, <2>2
<1>8. SenderInv'
  <2> SUFFICES ASSUME NEW q \in Prev PROVE SenderOK(q)'
    BY DEF SenderInv
  <2>1. Flushing(q)' = Flushing(q) /\ Terminating(q)' = Terminating(q)
    BY <1>1, <1>2 DEF Flushing, Terminating
  <2> QED
    BY <1>a, <2>1 DEF IInv, TypeOK, SenderInv, SenderOK, SendWatermark
<1>9. CountInv'
  <2>1. Unterminated' = Unterminated
    BY <1>1, <1>2 DEF Unterminated, Terminating, SendWatermark
  <2> QED
    BY <2>1 DEF IInv, CountInv, SendWatermark
<1>10. FrontierInv' /\ StateInv'
  BY DEF IInv, FrontierInv, StateInv, WatermarkSafe, ComputeFrontier, SendWatermark
<1> QED
  BY <1>4, <1>6, <1>7, <1>8, <1>9, <1>10 DEF IInv

LEMMA SendFlushAndRestartInv ==
    ASSUME IInv, NEW r \in Prev, SendFlushAndRestart(r)
    PROVE  IInv'
<1> USE DEF startUnchanged, counters, frontier, state, observed
<1>0. PICK n : n = Len(channel) + 1
  OBVIOUS
<1>1. FlushAndRestart \in Element /\ FlushAndRestart.kind = "FlushAndRestart"
  BY DEF FlushAndRestart, Element, Kind, OptTimestamp
<1>2. /\ Pending' = Pending \cup {n}
      /\ n \in Nat
      /\ \A i \in Pending : i < n /\ Msg(i)' = Msg(i)
      /\ Msg(n)'.sender = r
      /\ Msg(n)'.el = FlushAndRestart
  BY <1>0, <1>1, PendingSent DEF IInv, SendFlushAndRestart
<1>3. \A i \in Pending : i \in Nat /\ Msg(i).sender \in Prev
  BY PendingType DEF IInv
<1>4. /\ send_round[r] = got[r] /\ got[r] = rounds_out /\ send_round[r] < Rounds
      /\ got[r] \in Nat
  BY BoundsAssumption DEF IInv, TypeOK, SenderInv, SenderOK, SendFlushAndRestart
<1>5. \A i \in Pending : Msg(i).sender = r => Msg(i).el.kind \in Data
  BY DEF IInv, MessageInv, MessageOK, SendFlushAndRestart, InRound, Data
<1>6. TypeOK'
  <2>1. channel' \in Seq(NetworkMessage)
    BY <1>1 DEF IInv, TypeOK, SendFlushAndRestart, Send, NetworkMessage
  <2> QED
    BY <1>4, <2>1, BoundsAssumption, SMTT(30) DEF IInv, TypeOK, SendFlushAndRestart
<1>7. OrderInv'
  <2> SUFFICES ASSUME NEW i \in Pending', NEW j \in Pending', i < j, Msg(i)'.sender = Msg(j)'.sender
               PROVE  /\ Msg(i)'.el.kind = "FlushAndRestart" => Msg(j)'.el.kind = "Terminate"
                      /\ Msg(i)'.el.kind # "Terminate"
                      /\ (Msg(i)'.el.kind = "Watermark" /\ Msg(j)'.el.kind = "Timestamped")
                            => Msg(i)'.el.ts < Msg(j)'.el.ts
    BY DEF OrderInv
  <2>1. CASE j \in Pending
    BY <1>2, <1>3, <2>1 DEF IInv, OrderInv
  <2>2. CASE j = n
    BY <1>1, <1>2, <1>3, <1>5, <2>2 DEF Data
  <2> QED
    BY <1>2, <2>1, <2>2
<1>8. MessageInv'
  <2> SUFFICES ASSUME NEW i \in Pending' PROVE MessageOK(Msg(i).sender, Msg(i).el)'
    BY DEF MessageInv
  <2>1. CASE i \in Pending
    <3>1. MessageOK(Msg(i).sender, Msg(i).el) /\ Msg(i)' = Msg(i) /\ Msg(i).sender \in Prev
      BY <1>2, <1>3, <2>1 DEF IInv, MessageInv
    <3> QED
      BY <1>4, <1>5, <2>1, <3>1 DEF IInv, TypeOK, MessageOK, SendFlushAndRestart, InRound, Data
  <2>2. CASE i = n
    BY <1>1, <1>2, <1>4, <2>2, SMTT(30) DEF IInv, TypeOK, MessageOK, SendFlushAndRestart, InRound, Data
  <2> QED
    BY <1>2, <2>1, <2>2
<1>9. SenderInv'
  <2> SUFFICES ASSUME NEW q \in Prev PROVE SenderOK(q)'
    BY DEF SenderInv
  <2>1. q # r => Flushing(q)' = Flushing(q) /\ Terminating(q)' = Terminating(q)
    BY <1>1, <1>2 DEF Flushing, Terminating
  <2>2. Flushing(r)'
    BY <1>1, <1>2 DEF Flushing
  <2> QED
    BY <1>4, <2>1, <2>2 DEF IInv, TypeOK, SenderInv, SenderOK, SendFlushAndRestart
<1>10. CountInv'
  <2>1. Unterminated' = Unterminated
    BY <1>1, <1>2, SMTT(60) DEF IInv, TypeOK, Unterminated, Terminating, SendFlushAndRestart
  <2> QED
    BY <2>1 DEF IInv, CountInv, SendFlushAndRestart
<1>11. FrontierInv' /\ StateInv'
  BY DEF IInv, FrontierInv, StateInv, WatermarkSafe, ComputeFrontier, SendFlushAndRestart
<1> QED
  BY <1>6, <1>7, <1>8, <1>9, <1>10, <1>11 DEF IInv

LEMMA SendTerminateInv ==
    ASSUME IInv, NEW r \in Prev, SendTerminate(r)
    PROVE  IInv'
<1> USE DEF startUnchanged, counters, frontier, state, observed
<1>0. PICK n : n = Len(channel) + 1
  OBVIOUS
<1>1. Terminate \in Element /\ Terminate.kind = "Terminate"
  BY DEF Terminate, Element, Kind, OptTimestamp
<1>2. /\ Pending' = Pending \cup {n}
      /\ n \in Nat
      /\ \A i \in Pending : i < n /\ Msg(i)' = Msg(i)
      /\ Msg(n)'.sender = r
      /\ Msg(n)'.el = Terminate
  BY <1>0, <1>1, PendingSent DEF IInv, SendTerminate
<1>3. \A i \in Pending : i \in Nat /\ Msg(i).sender \in Prev
  BY PendingType DEF IInv
<1>4. \A i \in Pending : Msg(i).sender = r => Msg(i).el.kind # "Terminate"
  BY DEF IInv, MessageInv, MessageOK, SendTerminate
<1>5. TypeOK'
  <2>1. channel' \in Seq(NetworkMessage)
    BY <1>1 DEF IInv, TypeOK, SendTerminate, Send, NetworkMessage
  <2> QED
    BY <2>1 DEF IInv, TypeOK, SendTerminate
<1>6. OrderInv'
  <2> SUFFICES ASSUME NEW i \in Pending', NEW j \in Pending', i < j, Msg(i)'.sender = Msg(j)'.sender
               PROVE  /\ Msg(i)'.el.kind = "FlushAndRestart" => Msg(j)'.el.kind = "Terminate"
                      /\ Msg(i)'.el.kind # "Terminate"
                      /\ (Msg(i)'.el.kind = "Watermark" /\ Msg(j)'.el.kind = "Timestamped")
                            => Msg(i)'.el.ts < Msg(j)'.el.ts
    BY DEF OrderInv
  <2>1. CASE j \in Pending
    BY <1>2, <1>3, <2>1 DEF IInv, OrderInv
  <2>2. CASE j = n
    <3>1. i \in Pending /\ Msg(i)' = Msg(i)
      BY <1>2, <1>3, <2>2
    <3>2. Msg(j)'.sender = r /\ Msg(j)'.el.kind = "Terminate"
      BY <1>1, <1>2, <2>2
    <3> QED
      BY <1>4, <3>1, <3>2
  <2> QED
    BY <1>2, <2>1, <2>2
<1>7. MessageInv'
  <2> SUFFICES ASSUME NEW i \in Pending' PROVE MessageOK(Msg(i).sender, Msg(i).el)'
    BY DEF MessageInv
  <2>1. CASE i \in Pending
    <3>1. MessageOK(Msg(i).sender, Msg(i).el) /\ Msg(i)' = Msg(i) /\ Msg(i).sender \in Prev
      BY <1>2, <1>3, <2>1 DEF IInv, MessageInv
    <3> QED
      BY <3>1, Zenon DEF IInv, TypeOK, MessageOK, SendTerminate
  <2>2. CASE i = n
    BY <1>1, <1>2, <2>2, SMTT(30) DEF IInv, TypeOK, MessageOK, SendTerminate, InRound, Data
  <2> QED
    BY <1>2, <2>1, <2>2
<1>8. SenderInv'
  <2> SUFFICES ASSUME NEW q \in Prev PROVE SenderOK(q)'
    BY DEF SenderInv
  <2>1. Flushing(q) => Flushing(q)'
    BY <1>2 DEF Flushing
  <2>2. Terminating(q) \/ q = r => Terminating(q)'
    BY <1>1, <1>2 DEF Terminating
  <2>3. Flushing(q)' => Flushing(q)
    BY <1>1, <1>2 DEF Flushing
  <2> QED
    BY <2>1, <2>2, <2>3, SMTT(30) DEF IInv, TypeOK, SenderInv, SenderOK, SendTerminate
<1>9. CountInv'
  <2>1. Unterminated' = Unterminated
    BY <1>1, <1>2, SMTT(60) DEF IInv, TypeOK, Unterminated, Terminating, SendTerminate
  <2> QED
    BY <2>1 DEF IInv, CountInv, SendTerminate
<1>10. FrontierInv' /\ StateInv'
  BY DEF IInv, FrontierInv, StateInv, WatermarkSafe, ComputeFrontier, SendTerminate
<1> QED
  BY <1>5, <1>6, <1>7, <1>8, <1>9, <1>10 DEF IInv

LEMMA NextRoundInv ==
    ASSUME IInv, NEW r \in Prev, NextRound(r)
    PROVE  IInv'
<1> USE DEF startUnchanged, counters, frontier, state, observed
<1>1. Pending' = Pending /\ \A i \in Pending : Msg(i)' = Msg(i) /\ Msg(i).sender \in Prev
  BY PendingSame, PendingType DEF IInv, NextRound
<1>2. /\ send_round[r] = got[r] /\ got[r] = rounds_out /\ map[r] = None
      /\ got[r] \in Nat
  BY BoundsAssumption, SMTT(30) DEF IInv, TypeOK, SenderInv, SenderOK, NextRound
<1>3. \A i \in Pending : Msg(i).sender # r
  BY <1>2, SMTT(60) DEF IInv, MessageInv, MessageOK, NextRound
<1>4. TypeOK'
  BY BoundsAssumption, SMTT(30) DEF IInv, TypeOK, NextRound, OptTimestamp
<1>5. OrderInv'
  BY <1>1 DEF IInv, OrderInv
<1>6. MessageInv'
  <2> SUFFICES ASSUME NEW i \in Pending PROVE MessageOK(Msg(i).sender, Msg(i).el)'
    BY <1>1 DEF MessageInv
  <2>1. MessageOK(Msg(i).sender, Msg(i).el) /\ Msg(i)' = Msg(i) /\ Msg(i).sender \in Prev \ {r}
    BY <1>1, <1>3 DEF IInv, MessageInv
  <2> QED
    BY <2>1 DEF IInv, TypeOK, MessageOK, NextRound
<1>7. SenderInv'
  <2> SUFFICES ASSUME NEW q \in Prev PROVE SenderOK(q)'
    BY DEF SenderInv
  <2>1. Flushing(q)' = Flushing(q) /\ Terminating(q)' = Terminating(q)
    BY <1>1 DEF Flushing, Terminating
  <2> QED
    BY <1>2, <2>1, SMTT(60) DEF IInv, TypeOK, SenderInv, SenderOK, NextRound, None
<1>8. CountInv'
  <2>1. Unterminated' = Unterminated
    BY <1>1 DEF IInv, TypeOK, Unterminated, Terminating, NextRound
  <2> QED
    BY <2>1 DEF IInv, CountInv, NextRound
<1>9. FrontierInv' /\ StateInv'
  BY DEF IInv, FrontierInv, StateInv, WatermarkSafe, ComputeFrontier, NextRound
<1> QED
  BY <1>4, <1>5, <1>6, <1>7, <1>8, <1>9 DEF IInv

-----------------------------------------------------------------------------
(* The steps of Start that leave alone what is in flight *)

LEMMA Undisturbed ==
    ASSUME IInv, Pending' = Pending, \A i \in Pending : Msg(i)' = Msg(i),
           UNCHANGED <<upstream, map, got, rounds_out>>
    PROVE  OrderInv' /\ MessageInv' /\ SenderInv' /\ Unterminated' = Unterminated
<1>1. \A r : Flushing(r)' = Flushing(r) /\ Terminating(r)' = Terminating(r)
  BY DEF Flushing, Terminating
<1>2. OrderInv'
  BY DEF IInv, OrderInv
<1>3. MessageInv'
  BY DEF IInv, MessageInv, MessageOK, upstream
<1>4. SenderInv'
  BY <1>1 DEF IInv, SenderInv, SenderOK, upstream
<1>5. Unterminated' = Unterminated
  BY <1>1 DEF Unterminated, upstream
<1> QED
  BY <1>2, <1>3, <1>4, <1>5

LEMMA UpdateStateInv ==
    ASSUME IInv, UpdateState
    PROVE  IInv'
<1> USE DEF counters, frontier, state, observed
<1>1. OrderInv' /\ MessageInv' /\ SenderInv' /\ Unterminated' = Unterminated
  BY Undisturbed, PendingSame DEF IInv, UpdateState
<1>2. TypeOK' /\ StateInv'
  BY DEF IInv, TypeOK, StateInv, UpdateState, upstream
<1>3. CountInv' /\ FrontierInv'
  BY <1>1 DEF IInv, CountInv, FrontierInv, WatermarkSafe, ComputeFrontier, UpdateState
<1> QED
  BY <1>1, <1>2, <1>3 DEF IInv

LEMMA EmitTerminateInv ==
    ASSUME IInv, EmitTerminate
    PROVE  IInv'
<1> USE DEF counters, frontier, state
<1>1. OrderInv' /\ MessageInv' /\ SenderInv' /\ Unterminated' = Unterminated
  BY Undisturbed, PendingSame DEF IInv, EmitTerminate
<1>2. Terminate \in Element /\ Terminate.kind = "Terminate"
  BY DEF Terminate, Element, Kind, OptTimestamp
<1>3. TypeOK' /\ StateInv'
  BY <1>2, Zenon DEF IInv, TypeOK, StateInv, Data, EmitTerminate, upstream
<1>4. CountInv'
  BY <1>1, Zenon DEF IInv, CountInv, EmitTerminate, AllTerminated
<1>5. FrontierInv'
  BY <1>2 DEF IInv, FrontierInv, WatermarkSafe, ComputeFrontier, EmitTerminate
<1> QED
  BY <1>1, <1>3, <1>4, <1>5 DEF IInv

LEMMA WaitForStateInv ==
    ASSUME IInv, WaitForState
    PROVE  IInv'
<1> USE DEF counters, frontier, observed
<1>1. OrderInv' /\ MessageInv' /\ SenderInv' /\ Unterminated' = Unterminated
  BY Undisturbed, PendingSame DEF IInv, WaitForState
<1>2. TypeOK' /\ StateInv'
  BY Zenon DEF IInv, TypeOK, StateInv, WaitForState, StateReady, upstream
<1>3. CountInv' /\ FrontierInv'
  BY <1>1 DEF IInv, CountInv, FrontierInv, WatermarkSafe, ComputeFrontier, WaitForState
<1> QED
  BY <1>1, <1>2, <1>3 DEF IInv

\* only the fake batch of a timeout holds a FlushBatch
LEMMA OnlyFakeBatch ==
    ASSUME IInv, batch_iter.el = FlushBatch, batch_iter # NoBatch
    PROVE  batch_iter = FakeBatch
<1>1. batch_iter \notin NetworkMessage
  <2> SUFFICES ASSUME batch_iter \in NetworkMessage PROVE FALSE
    OBVIOUS
  <2>1. 0 \in Pending /\ Msg(0) = batch_iter
    BY DEF IInv, TypeOK, Pending, Msg
  <2>2. MessageOK(batch_iter.sender, FlushBatch)
    BY <2>1 DEF IInv, MessageInv
  <2> QED
    BY <2>2 DEF MessageOK, InRound, Data, FlushBatch
<1> QED
  BY <1>1 DEF IInv, TypeOK, Batch

LEMMA FlushBatchInv ==
    ASSUME IInv, IgnoreFlushBatch \/ EmitFlushBatch
    PROVE  IInv'
<1> USE DEF counters, frontier, state, observed
<1>1. batch_iter = FakeBatch /\ batch_iter' = NoBatch /\ UNCHANGED channel
  BY OnlyFakeBatch DEF IgnoreFlushBatch, EmitFlushBatch
<1>2. Pending' = Pending /\ \A i \in Pending : Msg(i)' = Msg(i)
  BY <1>1, PendingSame DEF IInv
<1>3. OrderInv' /\ MessageInv' /\ SenderInv' /\ Unterminated' = Unterminated
  BY <1>2, Undisturbed DEF IgnoreFlushBatch, EmitFlushBatch
<1>4. FlushBatch \in Element /\ FlushBatch.kind = "FlushBatch" /\ FlushBatch # Terminate
  BY DEF FlushBatch, Terminate, Element, Kind, OptTimestamp
<1>5. TypeOK' /\ StateInv'
  <2>1. CASE IgnoreFlushBatch
    BY <1>1, <2>1 DEF IInv, TypeOK, StateInv, IgnoreFlushBatch, Batch, upstream
  <2>2. CASE EmitFlushBatch
    BY <1>1, <1>4, <2>2, Zenon DEF IInv, TypeOK, StateInv, Data, EmitFlushBatch, Batch, upstream
  <2> QED
    BY <2>1, <2>2
<1>6. CountInv'
  BY <1>1, <1>3, <1>4 DEF IInv, CountInv, IgnoreFlushBatch, EmitFlushBatch, Proceed, Running
<1>7. FrontierInv'
  BY <1>4, Zenon DEF IInv, FrontierInv, WatermarkSafe, ComputeFrontier, IgnoreFlushBatch, EmitFlushBatch
<1> QED
  BY <1>3, <1>5, <1>6, <1>7 DEF IInv

LEMMA TimeoutInv ==
    ASSUME IInv, Timeout
    PROVE  IInv'
<1> USE DEF counters, frontier, state, observed
<1>1. OrderInv' /\ MessageInv' /\ SenderInv' /\ Unterminated' = Unterminated
  BY Undisturbed, PendingSame DEF IInv, Timeout
<1>2. TypeOK' /\ StateInv'
  BY DEF IInv, TypeOK, StateInv, Timeout, Batch, upstream
<1>3. CountInv' /\ FrontierInv'
  BY <1>1 DEF IInv, CountInv, FrontierInv, WatermarkSafe, ComputeFrontier, Timeout, Proceed, AllTerminated
<1> QED
  BY <1>1, <1>2, <1>3 DEF IInv

LEMMA RecvInv ==
    ASSUME IInv, Recv
    PROVE  IInv'
<1> USE DEF counters, frontier, state, observed
<1>1. /\ \A i \in Pending' : i \in Nat /\ i + 1 \in Pending /\ Msg(i)' = Msg(i + 1)
      /\ \A i \in Pending : i - 1 \in Pending' /\ Msg(i - 1)' = Msg(i)
  BY PendingReceived DEF IInv, Recv
<1>2. \A r : Flushing(r)' = Flushing(r) /\ Terminating(r)' = Terminating(r)
  <2> TAKE r
  <2>1. Flushing(r)' <=> Flushing(r)
    BY <1>1 DEF Flushing
  <2>2. Terminating(r)' <=> Terminating(r)
    BY <1>1 DEF Terminating
  <2> QED
    BY <2>1, <2>2 DEF Flushing, Terminating
<1>3. TypeOK'
  <2>1. channel \in Seq(NetworkMessage) /\ channel # <<>>
    BY DEF IInv, TypeOK, Recv
  <2>2. Head(channel) \in NetworkMessage /\ Tail(channel) \in Seq(NetworkMessage)
    BY <2>1
  <2> QED
    BY <2>2, Zenon DEF IInv, TypeOK, Recv, Batch, upstream
<1>4. OrderInv'
  BY <1>1, SMTT(60) DEF IInv, OrderInv
<1>5. MessageInv'
  BY <1>1, ZenonT(60) DEF IInv, MessageInv, MessageOK, Recv, upstream
<1>6. SenderInv'
  BY <1>2 DEF IInv, SenderInv, SenderOK, Recv, upstream
<1>7. CountInv'
  <2>1. Unterminated' = Unterminated
    BY <1>2 DEF Unterminated, Recv, upstream
  <2> QED
    BY <2>1 DEF IInv, CountInv, Recv, Proceed, AllTerminated
<1>8. FrontierInv' /\ StateInv'
  BY Zenon DEF IInv, FrontierInv, StateInv, WatermarkSafe, ComputeFrontier, Recv
<1> QED
  BY <1>3, <1>4, <1>5, <1>6, <1>7, <1>8 DEF IInv

-----------------------------------------------------------------------------
(* The steps of Start that handle the element of the current batch *)

\* what holds of the element that Start handles
LEMMA Handled ==
    ASSUME IInv, batch_iter # NoBatch, batch_iter.el.kind # "FlushBatch",
           batch_iter' = NoBatch, UNCHANGED channel
    PROVE  /\ batch_iter \in NetworkMessage
           /\ batch_iter.sender \in Prev
           /\ batch_iter.el.ts \in OptTimestamp
           /\ MessageOK(batch_iter.sender, batch_iter.el)
           /\ Pending = Pending' \cup {0}
           /\ Msg(0) = batch_iter
           /\ \A i \in Pending' : i \in Nat /\ 0 < i /\ Msg(i)' = Msg(i)
           /\ \A i \in Pending' : Msg(i).sender = batch_iter.sender =>
                /\ batch_iter.el.kind = "FlushAndRestart" => Msg(i).el.kind = "Terminate"
                /\ batch_iter.el.kind # "Terminate"
                /\ (batch_iter.el.kind = "Watermark" /\ Msg(i).el.kind = "Timestamped")
                      => batch_iter.el.ts < Msg(i).el.ts
           /\ OrderInv'
<1>1. batch_iter \in NetworkMessage
  BY DEF IInv, TypeOK, Batch, FakeBatch, FlushBatch
<1>2. /\ Pending = Pending' \cup {0}
      /\ Msg(0) = batch_iter
      /\ \A i \in Pending' : i \in Nat /\ 0 < i /\ Msg(i)' = Msg(i)
  BY <1>1, PendingTaken DEF IInv
<1>3. batch_iter.sender \in Prev /\ batch_iter.el.ts \in OptTimestamp
  BY <1>1 DEF NetworkMessage, Element
<1>4. MessageOK(batch_iter.sender, batch_iter.el)
  BY <1>2 DEF IInv, MessageInv
<1>5. \A i \in Pending' : Msg(i).sender = batch_iter.sender =>
                /\ batch_iter.el.kind = "FlushAndRestart" => Msg(i).el.kind = "Terminate"
                /\ batch_iter.el.kind # "Terminate"
                /\ (batch_iter.el.kind = "Watermark" /\ Msg(i).el.kind = "Timestamped")
                      => batch_iter.el.ts < Msg(i).el.ts
  BY <1>2 DEF IInv, OrderInv
<1>6. OrderInv'
  BY <1>2 DEF IInv, OrderInv
<1> QED
  BY <1>1, <1>2, <1>3, <1>4, <1>5, <1>6

LEMMA EmitTimestampedInv ==
    ASSUME IInv, EmitTimestamped
    PROVE  IInv'
<1> USE DEF counters, frontier, state
<1>1. batch_iter # NoBatch /\ batch_iter.el.kind = "Timestamped" /\ batch_iter' = NoBatch /\ UNCHANGED channel
  BY DEF EmitTimestamped
<1>2. /\ batch_iter \in NetworkMessage
      /\ batch_iter.sender \in Prev
      /\ batch_iter.el.ts \in OptTimestamp
      /\ MessageOK(batch_iter.sender, batch_iter.el)
      /\ Pending = Pending' \cup {0}
      /\ Msg(0) = batch_iter
      /\ \A i \in Pending' : i \in Nat /\ 0 < i /\ Msg(i)' = Msg(i)
      /\ OrderInv'
  BY <1>1, Handled
<1>3. \A r : Flushing(r)' = Flushing(r) /\ Terminating(r)' = Terminating(r)
  BY <1>1, <1>2 DEF Flushing, Terminating
<1>4. TypeOK'
  BY <1>2, Zenon DEF IInv, TypeOK, EmitTimestamped, Batch, NetworkMessage, upstream
<1>5. MessageInv'
  <2> SUFFICES ASSUME NEW i \in Pending' PROVE MessageOK(Msg(i).sender, Msg(i).el)'
    BY DEF MessageInv
  <2>1. MessageOK(Msg(i).sender, Msg(i).el) /\ Msg(i)' = Msg(i)
    BY <1>2 DEF IInv, MessageInv
  <2> QED
    BY <2>1, Zenon DEF MessageOK, EmitTimestamped, upstream
<1>6. SenderInv'
  BY <1>3, Zenon DEF IInv, SenderInv, SenderOK, EmitTimestamped, upstream
<1>7. CountInv'
  <2>1. Unterminated' = Unterminated
    BY <1>3 DEF Unterminated, EmitTimestamped, upstream
  <2>2. batch_iter.el # Terminate
    BY <1>1, SMTT(60) DEF Terminate
  <2> QED
    BY <2>1, <2>2, Zenon DEF IInv, CountInv, EmitTimestamped, Proceed, AllTerminated
<1>8. FrontierInv'
  <2>a. batch_iter.el.ts > map[batch_iter.sender]
    BY <1>1, <1>2, Zenon DEF MessageOK
  <2>b. front = ComputeFrontier(map) /\ out_wm <= front
    BY DEF IInv, FrontierInv
  <2>c. map \in [Prev -> OptTimestamp] /\ batch_iter.sender \in Prev
    BY <1>2, Zenon DEF IInv, TypeOK
  <2>d. ComputeFrontier(map) <= map[batch_iter.sender]
    BY <2>c, FrontierIsMinimum, Zenon
  <2>1. /\ batch_iter.el.ts > map[batch_iter.sender]
        /\ front <= map[batch_iter.sender]
        /\ out_wm <= front
    BY <2>a, <2>b, <2>d, Zenon
  <2>2. /\ batch_iter.el.ts \in Int
        /\ map[batch_iter.sender] \in Int
        /\ front \in Int
        /\ out_wm \in Int
    BY <1>2, OptTimestampInt, Zenon DEF IInv, TypeOK
  <2>3. batch_iter.el.ts > out_wm
    BY <2>1, <2>2
  <2> QED
    BY <2>3 DEF IInv, FrontierInv, WatermarkSafe, ComputeFrontier, EmitTimestamped
<1>9. StateInv'
  BY DEF IInv, StateInv, EmitTimestamped, Proceed
<1> QED
  BY <1>2, <1>4, <1>5, <1>6, <1>7, <1>8, <1>9 DEF IInv

LEMMA ProcessTerminateInv ==
    ASSUME IInv, ProcessTerminate
    PROVE  IInv'
<1> USE DEF counters, frontier, state, observed
<1>0. PICK r : r = batch_iter.sender
  OBVIOUS
<1>1. batch_iter # NoBatch /\ batch_iter.el.kind = "Terminate" /\ batch_iter' = NoBatch /\ UNCHANGED channel
  BY SMTT(60) DEF ProcessTerminate, Terminate
<1>2. /\ r \in Prev
      /\ MessageOK(r, batch_iter.el)
      /\ Pending = Pending' \cup {0}
      /\ Msg(0) = batch_iter
      /\ \A i \in Pending' : i \in Nat /\ 0 < i /\ Msg(i)' = Msg(i) /\ Msg(i).sender # r
      /\ OrderInv'
  BY <1>0, <1>1, Handled
<1>3. \A q : Flushing(q)' = Flushing(q) /\ (q # r => Terminating(q)' = Terminating(q))
  BY <1>0, <1>1, <1>2 DEF Flushing, Terminating
<1>4. ~Terminating(r)' /\ ~Flushing(r)' /\ Terminating(r)
  BY <1>0, <1>1, <1>2 DEF Flushing, Terminating
<1>5. send_phase[r] = "terminated"
  BY <1>1, <1>2 DEF MessageOK
<1>6. Unterminated' = Unterminated \ {r} /\ r \in Unterminated
  BY <1>2, <1>3, <1>4, <1>5, Zenon DEF Unterminated, ProcessTerminate, upstream
<1>7. /\ missing_terminate' = Cardinality(Unterminated')
      /\ missing_terminate' \in 0 .. Cardinality(Prev)
      /\ missing_terminate' = 0 => Unterminated' = {}
  <2>1. IsFiniteSet(Unterminated) /\ IsFiniteSet(Unterminated')
    BY PrevAssumption, FS_Subset DEF Unterminated, ProcessTerminate, upstream
  <2>2. Cardinality(Unterminated \ {r}) = Cardinality(Unterminated) - 1
    BY <1>6, <2>1, FS_RemoveElement
  <2>3. missing_terminate' = Cardinality(Unterminated')
    BY <1>6, <2>2 DEF IInv, CountInv, ProcessTerminate
  <2>4. missing_terminate' \in 0 .. Cardinality(Prev)
    BY PrevAssumption, FS_CardinalityType, SMTT(60) DEF IInv, TypeOK, ProcessTerminate, Proceed, AllTerminated
  <2> QED
    BY <2>1, <2>3, <2>4, FS_EmptySet
<1>8. ASSUME Unterminated' = {} PROVE rounds_out = Rounds
  <2>1. PICK q \in Prev : got[q] = rounds_out
    <3>1. missing_flush_and_restart # 0
      BY DEF ProcessTerminate, Proceed, AllFlushed
    <3>2. {q \in Prev : got[q] = rounds_out} # {}
      BY <3>1, FS_EmptySet DEF IInv, CountInv
    <3> QED
      BY <3>2
  <2>2. send_phase[q] = "terminated" /\ ~Terminating(q)'
    BY <1>8 DEF Unterminated, ProcessTerminate, upstream
  <2>3. ~Flushing(q)
    BY <1>3, <1>4, <2>2, Zenon DEF IInv, SenderInv, SenderOK
  <2> QED
    BY <2>1, <2>2, <2>3 DEF IInv, SenderInv, SenderOK
<1>9. TypeOK'
  BY <1>7 DEF IInv, TypeOK, ProcessTerminate, Batch, upstream
<1>10. MessageInv'
  BY <1>2, ZenonT(60) DEF IInv, MessageInv, MessageOK, ProcessTerminate, upstream
<1>11. SenderInv'
  BY <1>3, <1>4 DEF IInv, SenderInv, SenderOK, ProcessTerminate, upstream
<1>12. CountInv'
  BY <1>1, <1>7, <1>8, Zenon DEF IInv, CountInv, ProcessTerminate, Proceed, Running
<1>13. FrontierInv' /\ StateInv'
  BY Zenon DEF IInv, FrontierInv, StateInv, WatermarkSafe, ComputeFrontier, ProcessTerminate
<1> QED
  BY <1>2, <1>9, <1>10, <1>11, <1>12, <1>13 DEF IInv

\* update() keeps the map typed, raises only the entry of the sender, and
\* leaves the frontier of the new map in front.
LEMMA FrontierUpdated ==
    ASSUME IInv, NEW r \in Prev, NEW ts \in OptTimestamp, FrontierUpdate(r, ts)
    PROVE  /\ map' \in [Prev -> OptTimestamp]
           /\ front' \in OptTimestamp
           /\ map'[r] = (IF map[r] >= ts THEN map[r] ELSE ts)
           /\ \A q \in Prev : q # r => map'[q] = map[q]
           /\ front' = ComputeFrontier(map')
           /\ front <= front'
<1>1. map \in [Prev -> OptTimestamp] /\ front = ComputeFrontier(map)
  BY DEF IInv, TypeOK, FrontierInv
<1>2. /\ map' \in [Prev -> OptTimestamp]
      /\ map'[r] = (IF map[r] >= ts THEN map[r] ELSE ts)
      /\ \A q \in Prev : q # r => map'[q] = map[q]
  BY <1>1 DEF FrontierUpdate, Updated, IsOld
<1>3. front' = ComputeFrontier(map')
  BY <1>1 DEF FrontierUpdate, Updated, IsOld
<1>4. \A q \in Prev : map[q] <= map'[q]
  <2> TAKE q \in Prev
  <2>1. map[q] \in Int /\ map'[q] \in Int /\ ts \in Int /\ map[r] \in Int
    BY <1>1, <1>2, OptTimestampInt, Zenon
  <2> QED
    BY <1>2, <2>1
<1>5. front <= front' /\ front' \in OptTimestamp
  BY <1>1, <1>2, <1>3, <1>4, FrontierGrows, FrontierIsMinimum
<1> QED
  BY <1>2, <1>3, <1>5

LEMMA ProcessWatermarkInv ==
    ASSUME IInv, ProcessWatermark
    PROVE  IInv'
<1> USE DEF counters, state
<1>0. PICK r, ts : r = batch_iter.sender /\ ts = batch_iter.el.ts
  OBVIOUS
<1>1. batch_iter # NoBatch /\ batch_iter.el.kind = "Watermark" /\ batch_iter' = NoBatch /\ UNCHANGED channel
  BY DEF ProcessWatermark
<1>2. /\ r \in Prev
      /\ ts \in OptTimestamp
      /\ MessageOK(r, batch_iter.el)
      /\ Pending = Pending' \cup {0}
      /\ Msg(0) = batch_iter
      /\ \A i \in Pending' : i \in Nat /\ 0 < i /\ Msg(i)' = Msg(i)
      /\ \A i \in Pending' : Msg(i).sender = r /\ Msg(i).el.kind = "Timestamped" => ts < Msg(i).el.ts
      /\ OrderInv'
  BY <1>0, <1>1, Handled
<1>3. /\ map' \in [Prev -> OptTimestamp]
      /\ front' \in OptTimestamp
      /\ map'[r] = (IF map[r] >= ts THEN map[r] ELSE ts)
      /\ \A q \in Prev : q # r => map'[q] = map[q]
      /\ front' = ComputeFrontier(map')
      /\ front <= front'
  BY <1>0, <1>2, FrontierUpdated, Zenon DEF ProcessWatermark
<1>4. /\ got[r] = rounds_out
      /\ \/ send_phase[r] = "run" /\ ts <= send_wm[r]
         \/ send_phase[r] # "run" /\ send_round[r] = got[r] + 1
      /\ ts \in Timestamp
  BY <1>0, <1>1, <1>2, Zenon DEF MessageOK, InRound, Data
<1>5. \A q : Flushing(q)' = Flushing(q) /\ Terminating(q)' = Terminating(q)
  BY <1>1, <1>2 DEF Flushing, Terminating
<1>6. PICK safe : safe = UpdateReturns(r, ts)
  OBVIOUS
<1>7. /\ ret' = IF safe # None THEN Watermark(safe) ELSE ret
      /\ out_wm' = IF safe # None THEN safe ELSE out_wm
      /\ safe # None => safe = front'
      /\ safe = None => front' = front \/ front' = None
  BY <1>0, <1>6, Zenon DEF ProcessWatermark, UpdateReturns, FrontierUpdate
<1>8. TypeOK'
  <2>1. ret' \in Element
    BY <1>3, <1>7 DEF IInv, TypeOK, Watermark, Element, Kind
  <2>2. unflushed' \in BOOLEAN
    BY Zenon DEF IInv, TypeOK, ProcessWatermark
  <2> QED
    BY <1>1, <1>3, <1>7, <2>1, <2>2, Zenon DEF IInv, TypeOK, ProcessWatermark, Batch, upstream
<1>9. MessageInv'
  <2> SUFFICES ASSUME NEW i \in Pending' PROVE MessageOK(Msg(i).sender, Msg(i).el)'
    BY DEF MessageInv
  <2>1. MessageOK(Msg(i).sender, Msg(i).el) /\ Msg(i)' = Msg(i) /\ Msg(i).sender \in Prev
    BY <1>2, PendingType, Zenon DEF IInv, MessageInv
  <2>2. Msg(i).el.kind = "Timestamped" => Msg(i).el.ts > map'[Msg(i).sender]
    BY <1>2, <1>3, <2>1, Zenon DEF MessageOK
  <2> QED
    BY <2>1, <2>2, Zenon DEF MessageOK, ProcessWatermark, upstream
<1>10. SenderInv'
  <2> SUFFICES ASSUME NEW q \in Prev PROVE SenderOK(q)'
    BY DEF SenderInv
  <2>1. CASE q = r
    <3>0. /\ SenderOK(r)
          /\ got[r] \in 0 .. Rounds
          /\ send_wm[r] \in OptTimestamp /\ map[r] \in OptTimestamp
      BY <1>2, Zenon DEF IInv, TypeOK, SenderInv
    <3>a. ts \in OptTimestamp
      BY <1>2
    <3>1. got[r] \in Int /\ send_wm[r] \in Int /\ map[r] \in Int /\ ts \in Int
      <4>1. got[r] \in Int
        BY <3>0
      <4> QED
        BY <3>0, <3>a, <4>1, OptTimestampInt, Zenon
    <3>2. send_phase[r] = "run" => map'[r] <= send_wm[r]
      BY <1>3, <1>4, <3>0, <3>1, Zenon DEF SenderOK
    <3>3. send_phase[r] # "run" => send_round[r] = got[r] + 1 /\ Flushing(r)
      <4>1. got[r] # got[r] + 1
        BY <3>1
      <4> QED
        BY <1>4, <3>0, <4>1, Zenon DEF SenderOK
    <3> QED
      BY <1>5, <2>1, <3>0, <3>2, <3>3, Zenon DEF SenderOK, ProcessWatermark, upstream
  <2>2. CASE q # r
    BY <1>3, <1>5, <2>2, Zenon DEF IInv, SenderInv, SenderOK, ProcessWatermark, upstream
  <2> QED
    BY <2>1, <2>2
<1>11. CountInv'
  <2>1. Unterminated' = Unterminated
    BY <1>5, Zenon DEF Unterminated, ProcessWatermark, upstream
  <2>a. \A x : Watermark(x) # Terminate
    BY DEF Watermark, Terminate
  <2>b. ret # Terminate
    BY Zenon DEF ProcessWatermark, Proceed, Running
  <2>2. ret' # Terminate
    BY <1>7, <2>a, <2>b, Zenon
  <2> QED
    BY <2>1, <2>2, Zenon DEF IInv, CountInv, ProcessWatermark, Proceed, AllTerminated
<1>12. FrontierInv'
  <2>1. front \in Int /\ front' \in Int /\ out_wm \in Int /\ None <= out_wm /\ out_wm <= front /\ None \in Int
    BY <1>3, OptTimestampInt, SMTT(30) DEF IInv, TypeOK, FrontierInv, None
  <2>2. out_wm' <= front'
    BY <1>3, <1>7, <2>1
  <2>3. \A q \in Prev : got'[q] = rounds_out' + 1 => map'[q] = MaxTs
    <3> SUFFICES ASSUME NEW q \in Prev, got[q] = rounds_out + 1 PROVE map'[q] = MaxTs
      BY DEF ProcessWatermark
    <3>1. rounds_out \in Int
      BY DEF IInv, TypeOK
    <3>2. q # r
      BY <1>4, <3>1
    <3> QED
      BY <1>3, <3>2 DEF IInv, FrontierInv
  <2>4. (\A q \in Prev : got'[q] = rounds_out') => front' = out_wm'
    <3> SUFFICES ASSUME \A q \in Prev : got[q] = rounds_out PROVE front' = out_wm'
      BY DEF ProcessWatermark
    <3>1. front = out_wm
      BY DEF IInv, FrontierInv
    <3>2. front <= front'
      BY <1>3
    <3> QED
      BY <1>7, <2>1, <3>1, <3>2
  <2>5. WatermarkSafe'
    BY <1>7 DEF IInv, FrontierInv, WatermarkSafe, Watermark
  <2> QED
    BY <1>3, <2>2, <2>3, <2>4, <2>5 DEF FrontierInv
<1>13. StateInv'
  BY DEF IInv, StateInv, ProcessWatermark, Proceed
<1> QED
  BY <1>2, <1>8, <1>9, <1>10, <1>11, <1>12, <1>13 DEF IInv

LEMMA ProcessFlushAndRestartInv ==
    ASSUME IInv, ProcessFlushAndRestart
    PROVE  IInv'
<1> USE DEF state
<1>0. PICK r : r = batch_iter.sender
  OBVIOUS
<1>1. batch_iter # NoBatch /\ batch_iter.el.kind = "FlushAndRestart" /\ batch_iter' = NoBatch /\ UNCHANGED channel
  <2>1. batch_iter # NoBatch /\ batch_iter.el = FlushAndRestart /\ batch_iter' = NoBatch /\ UNCHANGED channel
    BY DEF ProcessFlushAndRestart
  <2>2. FlushAndRestart.kind = "FlushAndRestart"
    BY DEF FlushAndRestart
  <2> QED
    BY <2>1, <2>2
<1>2. /\ r \in Prev
      /\ MessageOK(r, batch_iter.el)
      /\ Pending = Pending' \cup {0}
      /\ Msg(0) = batch_iter
      /\ \A i \in Pending' : i \in Nat /\ 0 < i /\ Msg(i)' = Msg(i)
      /\ \A i \in Pending' : Msg(i).sender = r => Msg(i).el.kind = "Terminate"
      /\ OrderInv'
  BY <1>0, <1>1, Handled
<1>3. /\ map' \in [Prev -> OptTimestamp]
      /\ front' \in OptTimestamp
      /\ map'[r] = MaxTs
      /\ \A q \in Prev : q # r => map'[q] = map[q]
      /\ front' = ComputeFrontier(map')
      /\ front <= front'
  <2>0. r \in Prev /\ map \in [Prev -> OptTimestamp]
    BY <1>2, Zenon DEF IInv, TypeOK
  <2>1. MaxTs \in OptTimestamp /\ map[r] \in OptTimestamp
    BY <2>0, MaxTsAssumption DEF OptTimestamp, Timestamp
  <2>2. map[r] >= MaxTs => map[r] = MaxTs
    BY <2>1, MaxTsAssumption DEF OptTimestamp, Timestamp, None
  <2> QED
    BY <1>0, <1>2, <2>1, <2>2, FrontierUpdated, Zenon DEF ProcessFlushAndRestart
<1>4. /\ got[r] = rounds_out
      /\ send_phase[r] # "run"
      /\ send_round[r] = got[r] + 1
      /\ got' = [got EXCEPT ![r] = got[r] + 1]
      /\ got[r] \in Nat /\ rounds_out \in Nat /\ got[r] + 1 \in 0 .. Rounds
  <2>1. got[r] = rounds_out /\ send_phase[r] # "run" /\ send_round[r] = got[r] + 1
    BY <1>0, <1>1, <1>2 DEF MessageOK, InRound, Data
  <2>2. send_round[r] \in 0 .. Rounds /\ got[r] \in 0 .. Rounds
    BY <1>2, Zenon DEF IInv, TypeOK
  <2>3. got' = [got EXCEPT ![r] = got[r] + 1]
    BY <1>0, Zenon DEF ProcessFlushAndRestart
  <2>4. got[r] \in Nat /\ rounds_out \in Nat /\ got[r] + 1 \in 0 .. Rounds
    BY <2>1, <2>2
  <2> QED
    BY <2>1, <2>3, <2>4, Zenon
<1>5. \A q : (q # r => Flushing(q)' = Flushing(q)) /\ Terminating(q)' = Terminating(q)
  BY <1>0, <1>1, <1>2 DEF Flushing, Terminating
<1>6. ~Flushing(r)'
  BY <1>2 DEF Flushing
<1>7. TypeOK'
  <2>1. missing_flush_and_restart - 1 \in 0 .. Cardinality(Prev)
    BY PrevAssumption, FS_CardinalityType, SMTT(60) DEF IInv, TypeOK, ProcessFlushAndRestart, Proceed, AllFlushed
  <2> QED
    BY <1>1, <1>3, <1>4, <2>1, ZenonT(60) DEF IInv, TypeOK, ProcessFlushAndRestart, Batch, upstream
<1>8. MessageInv'
  <2> SUFFICES ASSUME NEW i \in Pending' PROVE MessageOK(Msg(i).sender, Msg(i).el)'
    BY DEF MessageInv
  <2>1. MessageOK(Msg(i).sender, Msg(i).el) /\ Msg(i)' = Msg(i) /\ Msg(i).sender \in Prev
    BY <1>2, PendingType, Zenon DEF IInv, MessageInv
  <2>2. CASE Msg(i).sender = r
    BY <1>2, <2>1, <2>2, Zenon DEF MessageOK, InRound, Data, ProcessFlushAndRestart, upstream
  <2>3. CASE Msg(i).sender # r
    BY <1>3, <1>4, <2>1, <2>3, ZenonT(60) DEF IInv, TypeOK, MessageOK, ProcessFlushAndRestart, upstream
  <2> QED
    BY <2>2, <2>3
<1>9. SenderInv'
  <2> SUFFICES ASSUME NEW q \in Prev PROVE SenderOK(q)'
    BY DEF SenderInv
  <2>1. CASE q = r
    <3>1. SenderOK(r) /\ got'[r] = rounds_out + 1
      BY <1>2, <1>4, Zenon DEF IInv, TypeOK, SenderInv
    <3>2. /\ rounds_out' = rounds_out /\ send_phase' = send_phase /\ send_round' = send_round
          /\ rounds_out + 1 # rounds_out
      BY <1>4 DEF ProcessFlushAndRestart, upstream
    <3> QED
      BY <1>4, <1>6, <2>1, <3>1, <3>2, Zenon DEF SenderOK
  <2>2. CASE q # r
    BY <1>3, <1>4, <1>5, <2>2, Zenon DEF IInv, TypeOK, SenderInv, SenderOK, ProcessFlushAndRestart, upstream
  <2> QED
    BY <2>1, <2>2
<1>10. CountInv'
  <2> DEFINE S == {q \in Prev : got[q] = rounds_out}
  <2>1. {q \in Prev : got'[q] = rounds_out'} = S \ {r} /\ r \in S
    <3>1. got \in [Prev -> 0 .. Rounds]
      BY DEF IInv, TypeOK
    <3>2. \A q \in Prev : got'[q] = IF q = r THEN rounds_out + 1 ELSE got[q]
      BY <1>4, <3>1
    <3>3. rounds_out' = rounds_out /\ rounds_out + 1 # rounds_out
      BY <1>4 DEF ProcessFlushAndRestart
    <3>4. r \in Prev /\ got[r] = rounds_out
      BY <1>2, <1>4
    <3> QED
      BY <3>2, <3>3, <3>4
  <2>2. Cardinality(S \ {r}) = Cardinality(S) - 1
    <3>1. IsFiniteSet(S)
      BY PrevAssumption, FS_Subset
    <3> HIDE DEF S
    <3> QED
      BY <2>1, <3>1, FS_RemoveElement
  <2>3. Unterminated' = Unterminated
    BY <1>5 DEF Unterminated, ProcessFlushAndRestart, upstream
  <2> QED
    BY <2>1, <2>2, <2>3, Zenon DEF IInv, CountInv, ProcessFlushAndRestart, Proceed, AllTerminated
<1>11. FrontierInv'
  <2>1. out_wm' <= front'
    BY <1>3, OptTimestampInt, SMTT(60) DEF IInv, TypeOK, FrontierInv, ProcessFlushAndRestart
  <2>2. \A q \in Prev : got'[q] = rounds_out' + 1 => map'[q] = MaxTs
    BY <1>3, <1>4, SMTT(30) DEF IInv, TypeOK, FrontierInv, ProcessFlushAndRestart
  <2>3. ~ \A q \in Prev : got'[q] = rounds_out'
    <3>1. got'[r] = rounds_out + 1
      BY <1>2, <1>4, Zenon DEF IInv, TypeOK
    <3>2. rounds_out' = rounds_out /\ rounds_out + 1 # rounds_out
      BY <1>4 DEF ProcessFlushAndRestart
    <3>3. r \in Prev
      BY <1>2
    <3> QED
      BY <3>1, <3>2, <3>3
  <2>4. WatermarkSafe'
    BY Zenon DEF IInv, FrontierInv, WatermarkSafe, ProcessFlushAndRestart
  <2> QED
    BY <1>3, <2>1, <2>2, <2>3, <2>4 DEF FrontierInv
<1>12. StateInv'
  BY DEF IInv, StateInv, ProcessFlushAndRestart
<1> QED
  BY <1>2, <1>7, <1>8, <1>9, <1>10, <1>11, <1>12 DEF IInv

-----------------------------------------------------------------------------
(* The end of a round *)

LEMMA EmitFlushAndRestartInv ==
    ASSUME IInv, EmitFlushAndRestart
    PROVE  IInv'
<1>1. Pending' = Pending /\ \A i \in Pending : Msg(i)' = Msg(i) /\ Msg(i).sender \in Prev
  BY PendingSame, PendingType DEF IInv, EmitFlushAndRestart
<1>2. \A r \in Prev : /\ got[r] = rounds_out + 1
                      /\ got[r] \in Nat /\ got[r] <= Rounds
                      /\ rounds_out \in Nat
  <2>1. Cardinality({r \in Prev : got[r] = rounds_out}) = 0
    BY DEF IInv, CountInv, EmitFlushAndRestart, AllFlushed
  <2>2. IsFiniteSet({r \in Prev : got[r] = rounds_out})
    BY PrevAssumption, FS_Subset
  <2>3. {r \in Prev : got[r] = rounds_out} = {}
    BY <2>1, <2>2, FS_EmptySet
  <2>4. \A r \in Prev : got[r] \in 0 .. Rounds /\ rounds_out \in 0 .. Rounds
    BY DEF IInv, TypeOK
  <2> QED
    BY <2>3, <2>4, BoundsAssumption, SMTT(60) DEF IInv, SenderInv, SenderOK
<1>3. \A i \in Pending : Msg(i).el.kind = "Terminate"
  <2> SUFFICES ASSUME NEW i \in Pending PROVE Msg(i).el.kind = "Terminate"
    OBVIOUS
  <2>1. MessageOK(Msg(i).sender, Msg(i).el)
    BY DEF IInv, MessageInv
  <2>2. got[Msg(i).sender] = rounds_out + 1 /\ rounds_out \in Nat
    BY <1>1, <1>2
  <2> QED
    BY <2>1, <2>2, SMTT(30) DEF MessageOK
<1>4. FlushAndRestart \in Element /\ FlushAndRestart.kind = "FlushAndRestart" /\ FlushAndRestart # Terminate
  BY DEF FlushAndRestart, Terminate, Element, Kind, OptTimestamp
<1>5. \A r : Flushing(r)' = Flushing(r) /\ Terminating(r)' = Terminating(r) /\ ~Flushing(r)
  BY <1>1, <1>3 DEF Flushing, Terminating
<1>6. TypeOK'
  <2>1. rounds_out + 1 \in 0 .. Rounds
    BY <1>2, PrevAssumption, BoundsAssumption
  <2>2. Cardinality(Prev) \in 0 .. Cardinality(Prev)
    BY PrevAssumption, FS_CardinalityType
  <2>3. /\ missing_flush_and_restart' \in 0 .. Cardinality(Prev)
        /\ rounds_out' \in 0 .. Rounds
    BY <2>1, <2>2 DEF EmitFlushAndRestart, CountAgain
  <2>5. state_generation' \in Nat
    BY DEF IInv, TypeOK, EmitFlushAndRestart
  <2>6. wait_for_state' \in BOOLEAN /\ unflushed' \in BOOLEAN
    BY Zenon DEF EmitFlushAndRestart
  <2>4. /\ map' \in [Prev -> OptTimestamp]
        /\ front' \in OptTimestamp
        /\ out_wm' \in OptTimestamp
        /\ ret' \in Element
    BY <1>4 DEF EmitFlushAndRestart, FrontierReset, OptTimestamp
  <2> QED
    BY <2>3, <2>4, <2>5, <2>6 DEF IInv, TypeOK, EmitFlushAndRestart, upstream
<1>7. OrderInv'
  BY <1>1, SMTT(60) DEF IInv, OrderInv
<1>8. MessageInv'
  BY <1>1, <1>3, Zenon DEF IInv, MessageInv, MessageOK, InRound, Data, EmitFlushAndRestart, upstream
<1>9. SenderInv'
  <2> SUFFICES ASSUME NEW r \in Prev PROVE SenderOK(r)'
    BY DEF SenderInv
  <2>1. SenderOK(r) /\ got'[r] = got[r] /\ got'[r] = rounds_out'
    BY <1>2 DEF IInv, SenderInv, EmitFlushAndRestart
  <2>2. send_phase[r] # "run" /\ send_round[r] = got[r]
    <3>1. ~Flushing(r) /\ got[r] # rounds_out
      BY <1>2, <1>5
    <3> QED
      BY <2>1, <3>1 DEF SenderOK
  <2> QED
    BY <1>5, <2>1, <2>2, Zenon DEF SenderOK, EmitFlushAndRestart, FrontierReset, upstream
<1>10. CountInv'
  <2>1. Unterminated' = Unterminated
    BY <1>5 DEF Unterminated, EmitFlushAndRestart, upstream
  <2>2. {r \in Prev : got'[r] = rounds_out'} = Prev
    BY <1>2 DEF EmitFlushAndRestart
  <2>3. missing_flush_and_restart' = Cardinality(Prev) /\ missing_terminate # 0
    BY DEF EmitFlushAndRestart, CountAgain, AllTerminated
  <2> QED
    BY <1>4, <2>1, <2>2, <2>3 DEF IInv, CountInv, EmitFlushAndRestart
<1>11. FrontierInv'
  <2>1. map' = [r \in Prev |-> None] /\ front' = None /\ out_wm' = None
    BY DEF EmitFlushAndRestart, FrontierReset
  <2>2. ComputeFrontier(map') = None
    BY <2>1, PrevAssumption DEF ComputeFrontier
  <2>3. \A r \in Prev : got'[r] # rounds_out' + 1
    BY <1>2 DEF EmitFlushAndRestart
  <2>4. WatermarkSafe'
    BY <1>4 DEF WatermarkSafe, EmitFlushAndRestart
  <2> QED
    BY <2>1, <2>2, <2>3, <2>4 DEF FrontierInv, None
<1>12. StateInv'
  <2>1. rounds_out \in Nat
    BY <1>2, PrevAssumption
  <2> QED
    BY <1>4, <2>1 DEF IInv, StateInv, Data, EmitFlushAndRestart
<1> QED
  BY <1>6, <1>7, <1>8, <1>9, <1>10, <1>11, <1>12 DEF IInv

-----------------------------------------------------------------------------
(* The theorems *)

LEMMA InitInv ==
    ASSUME Init
    PROVE  IInv
<1> USE DEF Init
<1>1. Pending = {}
  BY FakeBatches DEF Pending
<1>2. FlushAndRestart \in Element /\ FlushAndRestart.kind = "FlushAndRestart" /\ FlushAndRestart # Terminate
  BY DEF FlushAndRestart, Terminate, Element, Kind, OptTimestamp
<1>3. Cardinality(Prev) \in Nat /\ Cardinality(Prev) # 0
  BY PrevAssumption, FS_CardinalityType, FS_EmptySet
<1>4. TypeOK
  <2>1. /\ send_round \in [Prev -> 0 .. Rounds]
        /\ got \in [Prev -> 0 .. Rounds]
        /\ sent \in [Prev -> 0 .. MaxSent]
        /\ rounds_out \in 0 .. Rounds
    BY BoundsAssumption
  <2>2. /\ send_wm \in [Prev -> OptTimestamp]
        /\ map \in [Prev -> OptTimestamp]
        /\ front \in OptTimestamp
        /\ out_wm \in OptTimestamp
    BY DEF OptTimestamp
  <2>3. /\ send_phase \in [Prev -> {"run", "flushed", "terminated"}]
        /\ channel \in Seq(NetworkMessage)
        /\ batch_iter \in Batch
    BY DEF Batch
  <2>4. /\ missing_terminate \in 0 .. Cardinality(Prev)
        /\ missing_flush_and_restart \in 0 .. Cardinality(Prev)
    BY <1>3
  <2>5. /\ generation \in Nat
        /\ state_generation \in Nat
    OBVIOUS
  <2>6. /\ flushed_batch \in BOOLEAN
        /\ already_timed_out \in BOOLEAN
        /\ wait_for_state \in BOOLEAN
        /\ unflushed \in BOOLEAN
    BY Zenon
  <2>7. ret \in Element
    BY <1>2
  <2> QED
    BY <2>1, <2>2, <2>3, <2>4, <2>5, <2>6, <2>7 DEF TypeOK
<1>5. OrderInv /\ MessageInv
  BY <1>1 DEF OrderInv, MessageInv
<1>6. SenderInv
  BY BoundsAssumption DEF SenderInv, SenderOK, None
<1>7. CountInv
  <2>1. {r \in Prev : got[r] = rounds_out} = Prev /\ Unterminated = Prev
    BY DEF Unterminated
  <2> QED
    BY <1>2, <1>3, <2>1, Zenon DEF CountInv
<1>8. FrontierInv
  <2>1. ComputeFrontier(map) = None
    BY PrevAssumption DEF ComputeFrontier
  <2> QED
    BY <1>2, <2>1 DEF FrontierInv, WatermarkSafe, None
<1>9. StateInv
  BY <1>2 DEF StateInv, Data
<1> QED
  BY <1>4, <1>5, <1>6, <1>7, <1>8, <1>9 DEF IInv

LEMMA StutterInv ==
    ASSUME IInv, UNCHANGED vars
    PROVE  IInv'
<1> USE DEF vars, counters, frontier, state, observed
<1>1. OrderInv' /\ MessageInv' /\ SenderInv' /\ Unterminated' = Unterminated
  BY Undisturbed, PendingSame DEF IInv
<1>2. TypeOK' /\ StateInv'
  BY DEF IInv, TypeOK, StateInv, upstream
<1>3. CountInv' /\ FrontierInv'
  BY <1>1, Zenon DEF IInv, CountInv, FrontierInv, WatermarkSafe, ComputeFrontier
<1> QED
  BY <1>1, <1>2, <1>3 DEF IInv

LEMMA NextInv ==
    ASSUME IInv, [Next]_vars
    PROVE  IInv'
<1>1. ASSUME NEW r \in Prev, Upstream(r) PROVE IInv'
  BY <1>1, SendTimestampedInv, SendWatermarkInv, SendFlushAndRestartInv, NextRoundInv,
     SendTerminateInv DEF Upstream
<1>2. CASE UpdateState
  BY <1>2, UpdateStateInv
<1>3. CASE StartNext
  BY <1>3, EmitTerminateInv, EmitFlushAndRestartInv, WaitForStateInv, ProcessWatermarkInv,
     ProcessFlushAndRestartInv, ProcessTerminateInv, FlushBatchInv, EmitTimestampedInv,
     RecvInv, TimeoutInv DEF StartNext
<1>4. CASE Finished \/ UNCHANGED vars
  BY <1>4, StutterInv DEF Finished
<1> QED
  BY <1>1, <1>2, <1>3, <1>4 DEF Next

\* The inductive invariant holds in every state of Start and its senders.
THEOREM InductiveInvariant == Spec => []IInv
<1>1. Init => IInv
  BY InitInv
<1>2. IInv /\ [Next]_vars => IInv'
  BY NextInv
<1> QED
  BY <1>1, <1>2, PTL DEF Spec

\* The fields of Start keep their types: in particular the two counters of
\* missing messages never fall below zero, where the usize of the code would
\* overflow.
THEOREM TypeCorrect == Spec => []TypeOK
<1>1. IInv => TypeOK
  BY DEF IInv
<1> QED
  BY <1>1, InductiveInvariant, PTL

\* What StreamElement::Watermark promises holds after the merge, however many
\* replicas are merged: no element returned by Start is at or below a
\* watermark it has returned in the round.
THEOREM WatermarksAreSafe == Spec => []WatermarkSafe
<1>1. IInv => WatermarkSafe
  BY DEF IInv, FrontierInv
<1> QED
  BY <1>1, InductiveInvariant, PTL

\* update() and next() lose a watermark only for a round that a replica has
\* ended, however the watermarks of the replicas interleave.
THEOREM FrontierIsPublished == Spec => []FrontierPublished
<1>1. IInv => FrontierPublished
  <2> SUFFICES ASSUME IInv PROVE FrontierPublished
    OBVIOUS
  <2>1. front \in Int /\ out_wm \in Int /\ front >= out_wm
    BY OptTimestampInt DEF IInv, TypeOK, FrontierInv
  <2>2. ASSUME front # out_wm PROVE \E r \in Prev : got[r] > rounds_out
    <3>1. PICK r \in Prev : got[r] # rounds_out
      BY <2>2 DEF IInv, FrontierInv
    <3>2. got[r] = rounds_out + 1 /\ rounds_out \in 0 .. Rounds
      BY <3>1 DEF IInv, TypeOK, SenderInv, SenderOK
    <3>3. got[r] > rounds_out
      BY <3>2
    <3> QED
      BY <3>3
  <2> QED
    BY <2>1, <2>2 DEF FrontierPublished
<1> QED
  BY <1>1, InductiveInvariant, PTL

\* next() never handles an element of a round other than its own.
THEOREM RoundsAreAligned == Spec => []RoundsAligned
<1>1. IInv => RoundsAligned
  <2> SUFFICES ASSUME IInv, batch_iter \in NetworkMessage, batch_iter.el.kind # "Terminate"
               PROVE  got[batch_iter.sender] = rounds_out
    BY DEF RoundsAligned
  <2>1. 0 \in Pending /\ Msg(0) = batch_iter
    BY SMTT(60) DEF IInv, TypeOK, Pending, Msg
  <2> QED
    BY <2>1 DEF IInv, MessageInv, MessageOK
<1> QED
  BY <1>1, InductiveInvariant, PTL

\* In the body of an iteration next() returns no element of a round before
\* the state of the round is published.
THEOREM StateIsPublishedBeforeData == Spec => []StateBeforeData
<1>1. IInv => StateBeforeData
  BY DEF IInv, StateInv, StateBeforeData, Data
<1> QED
  BY <1>1, InductiveInvariant, PTL

\* next() returns Terminate only when no message is left, in the channel or in
\* the batch, and all the rounds were closed.
THEOREM NothingIsLost == Spec => []NothingLost
<1>1. IInv => NothingLost
  <2> SUFFICES ASSUME IInv, ret = Terminate
               PROVE  rounds_out = Rounds /\ channel = <<>> /\ batch_iter = NoBatch
    BY DEF NothingLost
  <2>1. missing_terminate = 0 /\ rounds_out = Rounds /\ batch_iter = NoBatch
    BY DEF IInv, CountInv
  <2>2. Unterminated = {}
    <3>1. IsFiniteSet(Unterminated) /\ Cardinality(Unterminated) = 0
      BY <2>1, PrevAssumption, FS_Subset DEF IInv, CountInv, Unterminated
    <3> HIDE DEF Unterminated
    <3> QED BY <3>1, FS_EmptySet
  <2>3. ASSUME channel # <<>> PROVE FALSE
    <3>1. 1 \in Pending
      BY <2>3 DEF IInv, TypeOK, Pending
    <3>2. PICK r : r = Msg(1).sender
      OBVIOUS
    <3>3. r \in Prev /\ MessageOK(r, Msg(1).el)
      BY <3>1, <3>2, PendingType DEF IInv, MessageInv
    <3>4. Msg(1).el.kind # "Terminate" /\ send_phase[r] = "terminated"
      BY <2>2, <3>1, <3>2, <3>3 DEF Unterminated, Terminating
    <3>5. send_round[r] = got[r] + 1 /\ got[r] = Rounds
      BY <2>1, <3>3, <3>4 DEF MessageOK
    <3>6. send_round[r] \in 0 .. Rounds
      BY <3>3 DEF IInv, TypeOK
    <3> QED
      BY <3>5, <3>6, BoundsAssumption
  <2> QED
    BY <2>1, <2>3
<1> QED
  BY <1>1, InductiveInvariant, PTL

\* Within a round the watermarks next() returns only grow.
THEOREM WatermarksOnlyGrow == Spec => WatermarksGrow
<1> DEFINE Grows == out_wm' # out_wm => out_wm' > out_wm \/ rounds_out' > rounds_out
<1>1. ASSUME IInv, Next, out_wm' # out_wm
      PROVE  out_wm' > out_wm \/ rounds_out' > rounds_out
  <2> USE DEF counters, frontier, state, observed, upstream, vars
  <2>1. EmitFlushAndRestart \/ ProcessWatermark
    BY <1>1, Zenon DEF Next, Upstream, StartNext, UpdateState, Finished, SendTimestamped,
       SendWatermark, SendFlushAndRestart, NextRound, SendTerminate, startUnchanged,
       EmitTerminate, WaitForState, ProcessFlushAndRestart, ProcessTerminate,
       IgnoreFlushBatch, EmitFlushBatch, EmitTimestamped, Recv, Timeout
  <2>2. CASE EmitFlushAndRestart
    <3>1. rounds_out \in Int /\ rounds_out' = rounds_out + 1
      BY <1>1, <2>2, SMTT(60) DEF IInv, TypeOK, EmitFlushAndRestart
    <3> QED
      BY <3>1
  <2>3. CASE ProcessWatermark
    <3>0. PICK r, ts : r = batch_iter.sender /\ ts = batch_iter.el.ts
      OBVIOUS
    <3>1. r \in Prev /\ ts \in OptTimestamp /\ FrontierUpdate(r, ts)
      BY <1>1, <2>3, <3>0, Handled, Zenon DEF ProcessWatermark
    <3>2. front <= front' /\ front' \in OptTimestamp
      BY <1>1, <3>1, FrontierUpdated
    <3>3. out_wm' = UpdateReturns(r, ts) /\ UpdateReturns(r, ts) # None
      BY <1>1, <2>3, <3>0, Zenon DEF ProcessWatermark
    <3>4. out_wm' = front' /\ front' # front
      BY <3>1, <3>3 DEF UpdateReturns, FrontierUpdate
    <3>5. front \in Int /\ front' \in Int /\ out_wm \in Int /\ out_wm <= front
      BY <1>1, <3>2, OptTimestampInt DEF IInv, TypeOK, FrontierInv
    <3> QED
      BY <3>2, <3>4, <3>5
  <2> QED
    BY <2>1, <2>2, <2>3
<1>2. IInv /\ [Next]_vars => [Grows]_vars
  BY <1>1
<1> QED
  BY <1>2, InductiveInvariant, PTL DEF Spec, WatermarksGrow
=============================================================================
