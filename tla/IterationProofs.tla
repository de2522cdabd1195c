--------------------------- MODULE IterationProofs ---------------------------
(***************************************************************************)
(* The safety of the iteration state: the steps of IterationEnd and of the *)
(* leader keep the invariant of IterationInv, and what follows from it.    *)
(***************************************************************************)
EXTENDS IterationBody

\* time limits of the provers
USE SMTT(20), ZenonT(20)

-----------------------------------------------------------------------------
(* The block of IterationEnd *)

EndRecord == [folding : BOOLEAN, wait : BOOLEAN, generation : Nat, terminated : BOOLEAN]

\* The record of the block of IterationEnd keeps its type, and its generation
\* changes only when it restarts.
LEMMA EndRecordTyped ==
    ASSUME NEW x \in EndRecord
    PROVE  /\ [x EXCEPT !.folding = TRUE, !.wait = FALSE] \in EndRecord
           /\ [x EXCEPT !.wait = FALSE, !.terminated = TRUE] \in EndRecord
           /\ [Restart(x) EXCEPT !.folding = FALSE] \in EndRecord
           /\ [x EXCEPT !.folding = TRUE, !.wait = FALSE].generation = x.generation
           /\ [x EXCEPT !.wait = FALSE, !.terminated = TRUE].generation = x.generation
           /\ [Restart(x) EXCEPT !.folding = FALSE].generation = x.generation + 2
<1>1. \A y \in EndRecord, v \in BOOLEAN : [y EXCEPT !.folding = v] \in EndRecord
  BY DEF EndRecord
<1>2. \A y \in EndRecord, v \in BOOLEAN : [y EXCEPT !.wait = v] \in EndRecord
  BY DEF EndRecord
<1>3. \A y \in EndRecord, v \in BOOLEAN : [y EXCEPT !.terminated = v] \in EndRecord
  BY DEF EndRecord
<1>4. \A y \in EndRecord, g \in Nat : [y EXCEPT !.generation = g] \in EndRecord
  BY DEF EndRecord
<1>5. /\ [x EXCEPT !.folding = TRUE, !.wait = FALSE] = [[x EXCEPT !.folding = TRUE] EXCEPT !.wait = FALSE]
      /\ [x EXCEPT !.wait = FALSE, !.terminated = TRUE] = [[x EXCEPT !.wait = FALSE] EXCEPT !.terminated = TRUE]
      /\ Restart(x) = [[x EXCEPT !.wait = TRUE] EXCEPT !.generation = x.generation + 2]
  BY DEF Restart, EndRecord
<1>6. x.generation + 2 \in Nat
  BY DEF EndRecord
<1>7. /\ [[x EXCEPT !.folding = TRUE] EXCEPT !.wait = FALSE] \in EndRecord
      /\ [[x EXCEPT !.wait = FALSE] EXCEPT !.terminated = TRUE] \in EndRecord
      /\ [[x EXCEPT !.wait = TRUE] EXCEPT !.generation = x.generation + 2] \in EndRecord
  BY <1>1, <1>2, <1>3, <1>4, <1>6, Zenon
<1>8. [Restart(x) EXCEPT !.folding = FALSE] \in EndRecord
  BY <1>1, <1>5, <1>7, Zenon
<1>9. /\ [x EXCEPT !.folding = TRUE, !.wait = FALSE].generation = x.generation
      /\ [x EXCEPT !.wait = FALSE, !.terminated = TRUE].generation = x.generation
  BY DEF EndRecord
<1>10. [Restart(x) EXCEPT !.folding = FALSE].generation = x.generation + 2
  BY DEF EndRecord, Restart
<1> QED
  BY <1>5, <1>7, <1>8, <1>9, <1>10, Zenon

\* A delta update that comes to the leader is the first of its replica in the
\* iteration.
LEMMA LeaderAppend ==
    ASSUME IInv, NEW d \in Delta, UNCHANGED <<job, leader, folded>>,
           leader_channel' = Append(leader_channel, d),
           \A q \in Replica : q # d.sender => end'[q].generation = end[q].generation,
           d.kind = "Delta" => /\ d.iter = Current
                               /\ end[d.sender].generation # 2 * Current + 2
                               /\ end'[d.sender].generation = 2 * Current + 2,
           d.kind # "Delta" => end'[d.sender].generation = end[d.sender].generation
    PROVE  LeaderInv' /\ LeaderTyped'
<1> DEFINE s == leader_channel
           t == leader_channel'
           Sent(x) == x.iter = Current /\ end'[x.sender].generation = 2 * Current + 2
<1>1. Replica' = Replica /\ N' = N /\ Current' = Current /\ Delta' = Delta
  <2>1. Replica' = Replica /\ N' = N /\ Current' = Current
    BY Fixed DEF Current
  <2> QED BY <2>1, Zenon DEF Delta
<1>2. s \in Seq(Delta) /\ folded \in Seq(Delta) /\ LeaderTyped /\ LeaderInv
  BY Zenon DEF IInv, Typed, LeaderTyped
<1>3. /\ t \in Seq(Delta) /\ DOMAIN t = 1 .. Len(s) + 1 /\ Len(s) \in Nat
      /\ DOMAIN s = 1 .. Len(s)
      /\ \A i \in 1 .. Len(s) : t[i] = s[i]
      /\ t[Len(s) + 1] = d
  BY <1>2
<1>4. LeaderTyped'
  <2> HIDE DEF s, t
  <2> QED BY <1>1, <1>2, <1>3 DEF LeaderTyped, t
<1>5. /\ \A i \in DOMAIN s : s[i].sender \in Replica
      /\ \A i \in DOMAIN folded : folded[i].sender \in Replica
      /\ d.sender \in Replica
  <2>1. (\A i \in DOMAIN s : s[i] \in Delta) /\ \A i \in DOMAIN folded : folded[i] \in Delta
    BY <1>2
  <2> HIDE DEF s, t
  <2> QED BY <2>1, Zenon DEF Delta
<1>6. ASSUME NEW x, x.sender \in Replica, DeltaOf(x) PROVE Sent(x) /\ (d.kind = "Delta" => x.sender # d.sender)
  BY <1>1, <1>6, Zenon DEF DeltaOf
<1>7. d.kind = "Delta" => Sent(d)
  BY <1>1, Zenon DEF DeltaOf
<1>8. /\ \A i \in DOMAIN folded :
            /\ DeltaOf(folded[i])
            /\ \A j \in DOMAIN folded : i # j => folded[i].sender # folded[j].sender
      /\ \A i \in DOMAIN s : s[i].kind = "Delta" =>
            /\ DeltaOf(s[i])
            /\ \A j \in DOMAIN s : i # j /\ s[j].kind = "Delta" => s[i].sender # s[j].sender
            /\ \A j \in DOMAIN folded : s[i].sender # folded[j].sender
  BY <1>2, Zenon DEF LeaderInv
<1>9. \A i \in DOMAIN folded : Sent(folded[i])
  BY <1>5, <1>6, <1>8, Zenon
<1>10. ASSUME NEW i \in DOMAIN t, t[i].kind = "Delta"
       PROVE  /\ Sent(t[i])
              /\ \A j \in DOMAIN t : i # j /\ t[j].kind = "Delta" => t[i].sender # t[j].sender
              /\ \A j \in DOMAIN folded : t[i].sender # folded[j].sender
  <2>1. CASE i \in DOMAIN s
    <3>1. t[i] = s[i] /\ s[i].kind = "Delta" /\ DeltaOf(s[i]) /\ s[i].sender \in Replica
      BY <1>3, <1>5, <1>8, <1>10, <2>1, Zenon
    <3>2. Sent(s[i]) /\ (d.kind = "Delta" => s[i].sender # d.sender)
      BY <1>6, <3>1, Zenon
    <3>3. ASSUME NEW j \in DOMAIN t, i # j, t[j].kind = "Delta" PROVE s[i].sender # t[j].sender
      <4>1. (j \in DOMAIN s /\ t[j] = s[j]) \/ t[j] = d
        BY <1>3
      <4> HIDE DEF s, t
      <4> QED BY <1>8, <2>1, <3>1, <3>2, <3>3, <4>1
    <3> HIDE DEF s, t
    <3> QED BY <1>8, <2>1, <3>1, <3>2, <3>3
  <2>2. CASE i = Len(s) + 1
    <3>1. t[i] = d /\ d.kind = "Delta"
      BY <1>3, <1>10, <2>2, Zenon
    <3>2. ASSUME NEW j \in DOMAIN t, i # j, t[j].kind = "Delta" PROVE d.sender # t[j].sender
      <4>1. j \in DOMAIN s /\ t[j] = s[j]
        BY <1>3, <2>2, <3>2
      <4>2. DeltaOf(s[j]) /\ s[j].sender \in Replica
        BY <1>5, <1>8, <3>2, <4>1, Zenon
      <4> HIDE DEF s, t
      <4> QED BY <1>6, <3>1, <4>1, <4>2
    <3>3. \A j \in DOMAIN folded : d.sender # folded[j].sender
      BY <1>5, <1>6, <1>8, <3>1, Zenon
    <3> HIDE DEF s, t
    <3> QED BY <1>7, <3>1, <3>2, <3>3
  <2> QED BY <1>3, <2>1, <2>2
<1>11. LeaderInv'
  <2>1. leader' = leader /\ folded' = folded
    BY Zenon
  <2> HIDE DEF s, t
  <2>2. leader_channel' = t
    BY Zenon DEF t
  <2>3. leader.missing_updates = N - Len(folded) /\ (Len(folded) < N \/ N = 0)
    BY <1>2, Zenon DEF LeaderInv
  <2>4. /\ leader'.missing_updates = N' - Len(folded')
        /\ Len(folded') < N' \/ N' = 0
    BY <1>1, <2>1, <2>3, Zenon
  <2> HIDE DEF Sent
  <2>5. \A i \in DOMAIN folded' :
            /\ Sent(folded'[i])
            /\ \A j \in DOMAIN folded' : i # j => folded'[i].sender # folded'[j].sender
    BY <1>8, <1>9, <2>1
  <2>6. \A i \in DOMAIN t : t[i].kind = "Delta" =>
            /\ Sent(t[i])
            /\ \A j \in DOMAIN t : i # j /\ t[j].kind = "Delta" => t[i].sender # t[j].sender
            /\ \A j \in DOMAIN folded' : t[i].sender # folded'[j].sender
    BY <1>10, <2>1
  <2> QED BY <1>1, <2>2, <2>4, <2>5, <2>6 DEF LeaderInv, DeltaOf, Sent
<1> QED
  BY <1>4, <1>11

\* What the block of IterationEnd does leaves the rest of the loop alone.
LEMMA EndIndependent ==
    ASSUME IInv, NEW e \in Replica, EndReceive(e)
    PROVE  /\ IterateInv' /\ ContentInv' /\ HostInv' /\ BodyInv' /\ FeedbackInv'
           /\ IterateTyped' /\ HostTyped' /\ BodyTyped'
           /\ end_channel' \in [Replica -> Seq(Element)]
<1> USE DEF bodyVars, leaderVars
<1>1. IterateInv' /\ ContentInv' /\ HostInv' /\ HostTyped'
      /\ \A q \in Replica : Passed(q)' = Passed(q) /\ Flushed(q)' = Flushed(q)
  BY BodyIndependent, Zenon DEF EndReceive
<1>2. BodyInv'
  <2>1. \A r \in Replica : Done(r)' <=> Done(r)
    BY <1>1, Zenon DEF Done, Current, iterateVars, EndReceive
  <2> QED BY <2>1, BodyFrame, Zenon DEF IInv, hostVars, EndReceive
<1>3. FeedbackInv'
  BY FeedbackFrame, Zenon DEF IInv, iterateVars, EndReceive
<1>4. IterateTyped'
  BY Fixed, Zenon DEF IInv, Typed, IterateTyped, iterateVars, EndReceive
<1>5. BodyTyped'
  BY TypedFrame, Zenon DEF IInv, Typed, EndReceive
<1>6. end_channel' \in [Replica -> Seq(Element)]
  <2>1. Tail(end_channel[e]) \in Seq(Element) /\ end_channel \in [Replica -> Seq(Element)]
    BY TypedAt DEF IInv, EndReceive, Typed, EndTyped
  <2> QED BY <2>1 DEF EndReceive
<1> QED
  BY <1>1, <1>2, <1>3, <1>4, <1>5, <1>6, Zenon

\* The deltas come from replicas.
LEMMA SendersKnown ==
    ASSUME Typed
    PROVE  /\ \A i \in DOMAIN leader_channel : leader_channel[i] \in Delta /\ leader_channel[i].sender \in Replica
           /\ \A i \in DOMAIN folded : folded[i] \in Delta /\ folded[i].sender \in Replica
<1>1. /\ \A i \in DOMAIN leader_channel : leader_channel[i] \in Delta
      /\ \A i \in DOMAIN folded : folded[i] \in Delta
  BY DEF Typed, LeaderTyped
<1>2. \A d \in Delta : d.sender \in Replica
  BY DEF Delta
<1> QED
  BY <1>1, <1>2, Zenon

\* Taking an element out of the channel of IterationEnd; only the FlushAndRestart
\* changes the generation.
LEMMA EndTake ==
    ASSUME IInv, NEW e \in Replica, EndReceive(e),
           \A q \in Replica : q # e => end'[q].generation = end[q].generation,
           \/ end'[e].generation = end[e].generation
           \/ /\ end_channel[e][1].kind = "FlushAndRestart"
              /\ end'[e].generation = end[e].generation + 2
    PROVE  \A q \in Replica : EndOK(q)'
<1>1. UNCHANGED <<job, leader, body>> /\ Replica' = Replica /\ Current' = Current
  BY Fixed, Zenon DEF EndReceive, bodyVars, leaderVars, Current
<1>2. end_channel \in [Replica -> Seq(Element)] /\ end_channel[e] # <<>> /\ Current \in Nat
  BY TypedAt, Zenon DEF IInv, Typed, EndTyped, EndReceive
<1>3. end_channel'[e] = Tail(end_channel[e])
      /\ \A q \in Replica : q # e => end_channel'[q] = end_channel[q]
  BY <1>2, Zenon DEF EndReceive
<1>4. ASSUME NEW q \in Replica, q # e PROVE EndOK(q)'
  <2>1. end_channel'[q] = end_channel[q] /\ EndOK(q) /\ end'[q].generation = end[q].generation
    BY <1>3, <1>4, Zenon DEF IInv, EndInv
  <2> QED BY <1>1, <2>1, Zenon DEF EndOK
<1>5. EndOK(e)'
  <2> DEFINE s == end_channel[e]
             t == Tail(s)
  <2>1. /\ s \in Seq(Element) /\ Len(s) \in Nat \ {0} /\ DOMAIN s = 1 .. Len(s)
        /\ DOMAIN t = 1 .. Len(s) - 1
        /\ \A i \in DOMAIN t : t[i] = s[i + 1] /\ i + 1 \in DOMAIN s /\ i \in Nat /\ 1 < i + 1
    BY <1>2
  <2>2. \A i \in Flushes(t) : i + 1 \in Flushes(s)
    BY <1>2, FlushesTail, Zenon
  <2>3. EndOK(e)
    BY Zenon DEF IInv, EndInv
  <2>4. 1 \in DOMAIN s
    BY <2>1
  <2>5. end_channel[e] = s /\ end_channel'[e] = t
    BY <1>3, Zenon
  <2>6. CASE end'[e].generation = end[e].generation
    <3> HIDE DEF s, t
    <3>1. \A i \in DOMAIN t : t[i].kind # "Terminate" =>
             t[i].iter = Current /\ end[e].generation = 2 * Current
      BY <2>1, <2>3, <2>5 DEF EndOK
    <3>2. ASSUME NEW i \in Flushes(t)
          PROVE  /\ body[e].generation = 2 * Current + 2
                 /\ \A j \in DOMAIN t : i < j => t[j].kind = "Terminate"
      <4>1. i + 1 \in Flushes(s) /\ i \in DOMAIN t
        BY <2>2, Zenon DEF Flushes
      <4>2. /\ body[e].generation = 2 * Current + 2
            /\ \A j \in DOMAIN s : i + 1 < j => s[j].kind = "Terminate"
        BY <2>3, <2>5, <4>1, Zenon DEF EndOK
      <4> QED BY <2>1, <4>1, <4>2
    <3> QED BY <1>1, <2>3, <2>5, <2>6, <3>1, <3>2, Zenon DEF EndOK
  <2>7. CASE s[1].kind = "FlushAndRestart" /\ end'[e].generation = end[e].generation + 2
    <3>1. 1 \in Flushes(s)
      BY <2>4, <2>7, Zenon DEF Flushes
    <3> HIDE DEF s, t
    <3>2. /\ end[e].generation = 2 * Current /\ body[e].generation = 2 * Current + 2
          /\ \A j \in DOMAIN s : 1 < j => s[j].kind = "Terminate"
      BY <2>3, <2>4, <2>5, <2>7, <3>1, Zenon DEF EndOK
    <3>3. \A i \in DOMAIN t : t[i].kind = "Terminate"
      BY <2>1, <3>2
    <3>4. Flushes(t) = {}
      BY <3>3, Zenon DEF Flushes
    <3>5. end'[e].generation = 2 * Current + 2 /\ 2 * Current + 2 <= 2 * Current + 2
      BY <1>2, <2>7, <3>2
    <3> QED BY <1>1, <2>5, <3>2, <3>3, <3>4, <3>5, Zenon DEF EndOK
  <2> QED BY <2>6, <2>7, Zenon
<1> QED
  BY <1>4, <1>5, Zenon

\* The block of IterationEnd takes an element that does not end the iteration.
LEMMA EndSame ==
    ASSUME IInv, NEW e \in Replica, EndReceive(e),
           UNCHANGED <<leader_channel>>,
           end' \in [Replica -> EndRecord],
           \A q \in Replica : end'[q].generation = end[q].generation
    PROVE  EndInv' /\ LeaderInv' /\ EndTyped' /\ LeaderTyped'
<1>1. UNCHANGED <<job, leader, folded, body>>
  BY Zenon DEF EndReceive, bodyVars, leaderVars
<1>2. Replica' = Replica /\ Current' = Current /\ N' = N
  BY <1>1, Fixed, Zenon DEF Current
<1>3. LeaderTyped'
  BY <1>1, TypedFrame, Zenon DEF IInv, Typed
<1>4. LeaderInv'
  <2>1. /\ \A i \in DOMAIN leader_channel : leader_channel[i].sender \in Replica
        /\ \A i \in DOMAIN folded : folded[i].sender \in Replica
    BY SendersKnown, Zenon DEF IInv
  <2> QED BY <1>1, <1>2, <2>1 DEF IInv, LeaderInv, DeltaOf
<1>5. EndTyped'
  BY <1>2, EndIndependent, Zenon DEF EndTyped, EndRecord
<1>6. EndInv'
  BY <1>1, <1>2, EndTake, Zenon DEF EndInv
<1> QED
  BY <1>3, <1>4, <1>5, <1>6, Zenon

\* The fold takes an element of the iteration.
LEMMA EndItemInv ==
    ASSUME IInv, NEW e \in Replica, EndItem(e)
    PROVE  IInv'
<1>1. EndReceive(e) /\ UNCHANGED <<job, iterateVars, body, leader, folded, leader_channel>>
  BY Zenon DEF EndItem, EndReceive, bodyVars, leaderVars
<1>2. end' = [end EXCEPT ![e] = [end[e] EXCEPT !.folding = TRUE, !.wait = FALSE]]
  BY Zenon DEF EndItem
<1>3. end \in [Replica -> EndRecord]
  BY Zenon DEF IInv, Typed, EndTyped, EndRecord
<1>4. /\ end' \in [Replica -> EndRecord]
      /\ \A q \in Replica : end'[q].generation = end[q].generation
  <2>1. \A x \in EndRecord : /\ [end EXCEPT ![e] = x] \in [Replica -> EndRecord]
                             /\ [end EXCEPT ![e] = x][e] = x
                             /\ \A q \in Replica : q # e => [end EXCEPT ![e] = x][q] = end[q]
    BY <1>3, Zenon
  <2>2. end[e] \in EndRecord
    BY <1>3, Zenon
  <2>3. [end[e] EXCEPT !.folding = TRUE, !.wait = FALSE] \in EndRecord
        /\ [end[e] EXCEPT !.folding = TRUE, !.wait = FALSE].generation = end[e].generation
    BY <2>2, EndRecordTyped, Zenon
  <2> QED BY <1>2, <2>1, <2>3, Zenon
<1>5. EndInv' /\ LeaderInv' /\ EndTyped' /\ LeaderTyped'
  BY <1>1, <1>4, EndSame, Zenon
<1> QED
  BY <1>1, <1>5, EndIndependent, Zenon DEF IInv, Typed

\* IterationEnd sends one delta update at the end of an iteration, with or without
\* elements to fold.
LEMMA OneDeltaUpdate ==
    ASSUME NEW S, NEW s \in Seq(S), NEW d \in S, NEW folding \in BOOLEAN
    PROVE  s \o DeltaUpdates(d, folding) = Append(s, d)
<1>1. CASE folding = TRUE
  <2>1. DeltaUpdates(d, folding) = <<d>> \o <<>>
    BY <1>1, Zenon DEF DeltaUpdates
  <2>2. <<d>> \o <<>> = <<d>>
    OBVIOUS
  <2>3. s \o <<d>> = Append(s, d)
    OBVIOUS
  <2> QED BY <2>1, <2>2, <2>3, Zenon
<1>2. CASE folding = FALSE
  <2>1. DeltaUpdates(d, folding) = <<>> \o <<d>>
    BY <1>2, Zenon DEF DeltaUpdates
  <2>2. <<>> \o <<d>> = <<d>>
    OBVIOUS
  <2>3. s \o <<d>> = Append(s, d)
    OBVIOUS
  <2> QED BY <2>1, <2>2, <2>3, Zenon
<1> QED
  BY <1>1, <1>2, Zenon

\* The FlushAndRestart of the iteration makes IterationEnd send its delta update.
LEMMA EndFlushAndRestartInv ==
    ASSUME IInv, NEW e \in Replica, EndFlushAndRestart(e)
    PROVE  IInv'
<1>1. EndReceive(e) /\ UNCHANGED <<job, leader, folded, body>>
  BY Zenon DEF EndFlushAndRestart, EndReceive, bodyVars, leaderVars
<1>2. end' = [end EXCEPT ![e] = [Restart(end[e]) EXCEPT !.folding = FALSE]]
  BY Zenon DEF EndFlushAndRestart
<1>3. end \in [Replica -> EndRecord] /\ leader_channel \in Seq(Delta)
  BY Zenon DEF IInv, Typed, EndTyped, LeaderTyped, EndRecord
<1>4. /\ end' \in [Replica -> EndRecord]
      /\ \A q \in Replica : q # e => end'[q].generation = end[q].generation
      /\ end'[e].generation = end[e].generation + 2
  <2>1. \A x \in EndRecord : /\ [end EXCEPT ![e] = x] \in [Replica -> EndRecord]
                             /\ [end EXCEPT ![e] = x][e] = x
                             /\ \A q \in Replica : q # e => [end EXCEPT ![e] = x][q] = end[q]
    BY <1>3
  <2>2. end[e] \in EndRecord
    BY <1>3
  <2>3. [Restart(end[e]) EXCEPT !.folding = FALSE] \in EndRecord
        /\ [Restart(end[e]) EXCEPT !.folding = FALSE].generation = end[e].generation + 2
    BY <2>2, EndRecordTyped, Zenon
  <2> QED BY <1>2, <2>1, <2>3, Zenon
<1>5. /\ end_channel[e][1].kind = "FlushAndRestart" /\ end_channel[e][1].iter = Current
      /\ end[e].generation = 2 * Current
      /\ Head(end_channel[e]) = end_channel[e][1]
      /\ Current \in Nat
  <2>1. /\ end_channel[e] \in Seq(Element) /\ end_channel[e] # <<>>
        /\ Current \in Nat
    BY <1>1, TypedAt, Zenon DEF IInv, EndReceive
  <2>2. 1 \in DOMAIN end_channel[e] /\ Head(end_channel[e]) = end_channel[e][1]
    BY <2>1
  <2>3. end_channel[e][1].kind = "FlushAndRestart"
    BY <2>2, Zenon DEF EndFlushAndRestart
  <2> QED BY <2>1, <2>2, <2>3, Zenon DEF IInv, EndInv, EndOK
<1> DEFINE d == [kind |-> "Delta", sender |-> e, iter |-> Head(end_channel[e]).iter]
<1>6. d \in Delta /\ d.kind = "Delta" /\ d.sender = e /\ d.iter = Current
  BY <1>5, Zenon DEF Delta
<1>7. leader_channel' = Append(leader_channel, d)
  <2>1. leader_channel' = leader_channel \o DeltaUpdates(d, end[e].folding)
    BY Zenon DEF EndFlushAndRestart
  <2>2. end[e].folding \in BOOLEAN
    BY <1>3 DEF EndRecord
  <2> HIDE DEF d
  <2> QED BY <1>3, <1>6, <2>1, <2>2, OneDeltaUpdate, Zenon
<1>8. LeaderInv' /\ LeaderTyped'
  <2>1. 2 * Current # 2 * Current + 2 /\ end'[e].generation = 2 * Current + 2
    BY <1>4, <1>5
  <2> HIDE DEF d
  <2> QED BY <1>1, <1>4, <1>5, <1>6, <1>7, <2>1, LeaderAppend, Zenon
<1>9. Replica' = Replica
  BY <1>1, Fixed
<1>10. EndInv'
  BY <1>1, <1>4, <1>5, <1>9, EndTake, Zenon DEF EndInv
<1>11. EndTyped'
  BY <1>1, <1>4, <1>9, EndIndependent, Zenon DEF EndTyped, EndRecord
<1> QED
  BY <1>1, <1>8, <1>10, <1>11, EndIndependent DEF IInv, Typed

\* IterationEnd tells the leader that it terminates.
LEMMA EndTerminateInv ==
    ASSUME IInv, NEW e \in Replica, EndTerminate(e)
    PROVE  IInv'
<1>1. EndReceive(e) /\ UNCHANGED <<job, leader, folded, body>>
  BY Zenon DEF EndTerminate, EndReceive, bodyVars, leaderVars
<1>2. end' = [end EXCEPT ![e] = [end[e] EXCEPT !.wait = FALSE, !.terminated = TRUE]]
  BY Zenon DEF EndTerminate
<1>3. end \in [Replica -> EndRecord]
  BY DEF IInv, Typed, EndTyped, EndRecord
<1>4. /\ end' \in [Replica -> EndRecord]
      /\ \A q \in Replica : end'[q].generation = end[q].generation
  <2>1. \A x \in EndRecord : /\ [end EXCEPT ![e] = x] \in [Replica -> EndRecord]
                             /\ [end EXCEPT ![e] = x][e] = x
                             /\ \A q \in Replica : q # e => [end EXCEPT ![e] = x][q] = end[q]
    BY <1>3
  <2>2. end[e] \in EndRecord
    BY <1>3
  <2>3. [end[e] EXCEPT !.wait = FALSE, !.terminated = TRUE] \in EndRecord
        /\ [end[e] EXCEPT !.wait = FALSE, !.terminated = TRUE].generation = end[e].generation
    BY <2>2, EndRecordTyped, Zenon
  <2> QED BY <1>2, <2>1, <2>3, Zenon
<1> DEFINE d == [kind |-> "Terminate", sender |-> e, iter |-> 0]
<1>5. d \in Delta /\ d.kind # "Delta" /\ d.sender = e
  BY Zenon DEF Delta
<1>6. leader_channel' = Append(leader_channel, d)
  BY DEF EndTerminate
<1>7. LeaderInv' /\ LeaderTyped'
  <2> HIDE DEF d
  <2> QED BY <1>1, <1>4, <1>5, <1>6, LeaderAppend, Zenon
<1>8. Replica' = Replica
  BY <1>1, Fixed
<1>9. EndInv'
  BY <1>1, <1>4, <1>8, EndTake, Zenon DEF EndInv
<1>10. EndTyped'
  BY <1>1, <1>4, <1>8, EndIndependent, Zenon DEF EndTyped, EndRecord
<1> QED
  BY <1>1, <1>7, <1>9, <1>10, EndIndependent DEF IInv, Typed

-----------------------------------------------------------------------------
(* The leader *)

\* As many different elements of a finite set as it has are all of them.
LEMMA Pigeonhole ==
    ASSUME NEW S, IsFiniteSet(S), NEW n \in Nat, Cardinality(S) = n,
           NEW f \in Injection(1 .. n, S)
    PROVE  f \in Surjection(1 .. n, S)
<1>1. 1 \in Int /\ n \in Int
  OBVIOUS
<1>2. Cardinality(1 .. n) = IF 1 > n THEN 0 ELSE n - 1 + 1
  BY <1>1, FS_Interval, Zenon
<1>3. Cardinality(1 .. n) = n
  BY <1>2
<1> QED
  BY <1>3, FS_Injection, Zenon

\* The Delta messages that the leader folds with the last one come from all the
\* replicas.
LEMMA AllDeltas ==
    ASSUME IInv, leader_channel # <<>>, leader_channel[1].kind = "Delta", LastUpdate
    PROVE  \A q \in Replica : \/ \E i \in DOMAIN folded : folded[i].sender = q
                              \/ leader_channel[1].sender = q
<1> DEFINE h == leader_channel[1]
           f == [i \in 1 .. N |-> IF i < N THEN folded[i].sender ELSE h.sender]
<1>1. /\ Typed /\ LeaderInv /\ N \in Nat /\ IsFiniteSet(Replica) /\ N = Cardinality(Replica)
      /\ folded \in Seq(Delta) /\ leader_channel \in Seq(Delta)
  BY Replicas DEF IInv, Typed, LeaderTyped, N
<1>2. 1 \in DOMAIN leader_channel
  BY <1>1
<1>3. DOMAIN folded = 1 .. N - 1 /\ N # 0
  BY <1>1 DEF LeaderInv, LastUpdate
<1>4. /\ \A i \in 1 .. N - 1 : folded[i].sender \in Replica
      /\ h.sender \in Replica
  BY <1>1, <1>2, <1>3, SendersKnown
<1>5. /\ \A i, j \in 1 .. N - 1 : i # j => folded[i].sender # folded[j].sender
      /\ \A i \in 1 .. N - 1 : h.sender # folded[i].sender
  <2>1. /\ \A i, j \in DOMAIN folded : i # j => folded[i].sender # folded[j].sender
        /\ \A j \in DOMAIN folded : h.sender # folded[j].sender
    BY <1>1, <1>2, Zenon DEF LeaderInv
  <2> HIDE DEF h
  <2> QED BY <1>3, <2>1
<1> HIDE DEF h
<1>6. f \in [1 .. N -> Replica]
  BY <1>1, <1>3, <1>4
<1>7. \A i, j \in 1 .. N : i # j => f[i] # f[j]
  BY <1>1, <1>3, <1>5
<1>8. \A i \in 1 .. N : f[i] = h.sender \/ \E k \in DOMAIN folded : f[i] = folded[k].sender
  BY <1>1, <1>3
<1> HIDE DEF f
<1>9. \A q \in Replica : \E i \in 1 .. N : f[i] = q
  <2>1. N \in Nat /\ Cardinality(Replica) = N /\ IsFiniteSet(Replica)
    BY <1>1, Zenon
  <2> HIDE DEF N
  <2>2. f \in Injection(1 .. N, Replica)
    BY <1>6, <1>7, Zenon DEF Injection, IsInjective
  <2>3. f \in Surjection(1 .. N, Replica)
    BY <2>1, <2>2, Pigeonhole, Zenon
  <2> QED BY <2>3, Zenon DEF Surjection
<1>10. \A q \in Replica : h.sender = q \/ \E k \in DOMAIN folded : folded[k].sender = q
  <2>1. ASSUME NEW q \in Replica
        PROVE  h.sender = q \/ \E k \in DOMAIN folded : folded[k].sender = q
    <3>1. PICK i \in 1 .. N : f[i] = q
      BY <1>9, Zenon
    <3> QED BY <1>8, <3>1, Zenon
  <2> QED BY <2>1, Zenon
<1> QED
  BY <1>10 DEF h

\* When the leader has the last delta update, the block of IterationEnd and the
\* body of every replica have finished the iteration, and every replica of
\* Iterate has sent all of it.
LEMMA AllFinished ==
    ASSUME IInv, leader_channel # <<>>, leader_channel[1].kind = "Delta", LastUpdate,
           NEW q \in Replica
    PROVE  /\ end[q].generation = 2 * Current + 2
           /\ body[q].generation = 2 * Current + 2
           /\ Done(q)
           /\ reading[q] = None
           /\ \A i \in DOMAIN body_channel[q] : body_channel[q][i].kind = "Terminate"
           /\ \A i \in DOMAIN end_channel[q] : end_channel[q][i].kind = "Terminate"
<1>1. 1 \in DOMAIN leader_channel
  BY DEF IInv, Typed, LeaderTyped
<1>2. DeltaOf(leader_channel[1]) /\ \A i \in DOMAIN folded : DeltaOf(folded[i])
  BY <1>1, Zenon DEF IInv, LeaderInv
<1>3. end[q].generation = 2 * Current + 2
  BY <1>2, AllDeltas DEF DeltaOf
<1>4. Current \in Nat /\ EndOK(q) /\ BodyOK(q)
  BY TypedAt, Zenon DEF IInv, EndInv, BodyInv
<1>5. body[q].generation = 2 * Current + 2 /\ 2 * Current + 2 # 2 * Current
  BY <1>3, <1>4 DEF EndOK, BodyOK
<1>6. Done(q) /\ reading[q] = None
      /\ \A i \in DOMAIN body_channel[q] : body_channel[q][i].kind = "Terminate"
  BY <1>4, <1>5, Zenon DEF BodyOK
<1>7. \A i \in DOMAIN end_channel[q] : end_channel[q][i].kind = "Terminate"
  BY <1>3, <1>4, <1>5, Zenon DEF EndOK
<1> QED
  BY <1>3, <1>5, <1>6, <1>7, Zenon

LeaderRecord == [missing_updates : Int, missing_terminate : Int,
                 iteration_index : Nat, state : Nat]

\* The leader takes a delta update that is not the last one that is missing.
LEMMA FoldInv ==
    ASSUME IInv, leader_channel # <<>>, leader_channel[1].kind = "Delta", ~LastUpdate,
           leader_channel' = Tail(leader_channel), job' = job, end' = end,
           leader'.missing_updates = leader.missing_updates - 1,
           leader'.state = leader.state,
           folded' = Append(folded, leader_channel[1])
    PROVE  LeaderInv'
<1> DEFINE c == leader_channel
           h == leader_channel[1]
           t == Tail(leader_channel)
           g == Append(folded, leader_channel[1])
           Sent(x) == x.iter = Current /\ end[x.sender].generation = 2 * Current + 2
<1>1. Replica' = Replica /\ N' = N /\ Current' = Current
  BY Fixed DEF Current
<1>2. /\ c \in Seq(Delta) /\ folded \in Seq(Delta) /\ LeaderInv /\ N \in Nat
      /\ IsFiniteSet(Replica) /\ N = Cardinality(Replica)
  BY Replicas, Zenon DEF IInv, Typed, LeaderTyped, N
<1>3. /\ 1 \in DOMAIN c
      /\ DOMAIN t = 1 .. Len(c) - 1 /\ Len(c) \in Nat
      /\ \A i \in DOMAIN t : t[i] = c[i + 1] /\ i + 1 \in DOMAIN c /\ i + 1 # 1 /\ i \in Nat
      /\ DOMAIN g = 1 .. Len(folded) + 1 /\ Len(g) = Len(folded) + 1
      /\ Len(folded) \in Nat /\ DOMAIN folded = 1 .. Len(folded)
      /\ g[Len(folded) + 1] = h
      /\ \A i \in DOMAIN folded : g[i] = folded[i]
  <2>1. h \in Delta
    BY <1>2
  <2> QED BY <1>2, <2>1
<1>4. /\ leader.missing_updates = N - Len(folded)
      /\ Len(folded) < N \/ N = 0
      /\ \A i \in DOMAIN folded :
            /\ Sent(folded[i])
            /\ \A j \in DOMAIN folded : i # j => folded[i].sender # folded[j].sender
      /\ \A i \in DOMAIN c : c[i].kind = "Delta" =>
            /\ Sent(c[i])
            /\ \A j \in DOMAIN c : i # j /\ c[j].kind = "Delta" => c[i].sender # c[j].sender
            /\ \A j \in DOMAIN folded : c[i].sender # folded[j].sender
  BY <1>2, Zenon DEF LeaderInv, DeltaOf
<1>5. N # 0
  <2>1. h.sender \in Replica
    BY <1>3, SendersKnown, Zenon DEF IInv
  <2>2. Replica # {}
    BY <2>1
  <2> QED BY <1>2, <2>2, FS_EmptySet, Zenon
<1>6. leader'.missing_updates = N' - Len(g) /\ Len(g) < N'
  <2>1. leader.missing_updates # 1 /\ Len(g) = Len(folded) + 1 /\ N' = N
    BY <1>1, <1>3, Zenon DEF LastUpdate
  <2>2. /\ leader.missing_updates = N - Len(folded) /\ Len(folded) < N
        /\ N \in Nat /\ Len(folded) \in Nat
    BY <1>2, <1>3, <1>4, <1>5, Zenon
  <2> HIDE DEF g
  <2> QED BY <2>1, <2>2
<1> HIDE DEF Sent
<1>7. ASSUME NEW i \in DOMAIN g
      PROVE  /\ Sent(g[i])
             /\ \A j \in DOMAIN g : i # j => g[i].sender # g[j].sender
  <2>1. \A j \in DOMAIN g : \/ j \in DOMAIN folded /\ g[j] = folded[j]
                            \/ j = Len(folded) + 1 /\ g[j] = c[1]
    BY <1>3
  <2>a. c[1].kind = "Delta"
    BY Zenon
  <2>2. c[1].kind = "Delta" /\ 1 \in DOMAIN c
    BY <1>3, <2>a, Zenon
  <2> HIDE DEF c, g, h
  <2>3. Sent(c[1]) /\ \A j \in DOMAIN folded : c[1].sender # folded[j].sender
    BY <1>4, <2>2, Zenon
  <2>4. Sent(g[i])
    BY <1>4, <2>1, <2>3, Zenon
  <2>5. ASSUME NEW j \in DOMAIN g, i # j PROVE g[i].sender # g[j].sender
    BY <1>4, <2>1, <2>3, <2>5
  <2> QED BY <2>4, <2>5, Zenon
<1>8. ASSUME NEW i \in DOMAIN t, t[i].kind = "Delta"
      PROVE  /\ Sent(t[i])
             /\ \A j \in DOMAIN t : i # j /\ t[j].kind = "Delta" => t[i].sender # t[j].sender
             /\ \A j \in DOMAIN g : t[i].sender # g[j].sender
  <2>1. \A j \in DOMAIN g : (j \in DOMAIN folded /\ g[j] = folded[j]) \/ g[j] = c[1]
    BY <1>3
  <2>2. \A j \in DOMAIN t : i # j => i + 1 # j + 1
    BY <1>3
  <2>3. c[1].kind = "Delta"
    OBVIOUS
  <2> HIDE DEF c, g, h, t
  <2>4. t[i] = c[i + 1] /\ i + 1 \in DOMAIN c /\ i + 1 # 1 /\ c[i + 1].kind = "Delta"
    BY <1>3, <1>8, Zenon
  <2>5. /\ Sent(c[i + 1])
        /\ \A j \in DOMAIN c : i + 1 # j /\ c[j].kind = "Delta" => c[i + 1].sender # c[j].sender
        /\ \A j \in DOMAIN folded : c[i + 1].sender # folded[j].sender
    BY <1>4, <2>4, Zenon
  <2>6. ASSUME NEW j \in DOMAIN t, i # j, t[j].kind = "Delta" PROVE t[i].sender # t[j].sender
    <3>1. t[j] = c[j + 1] /\ j + 1 \in DOMAIN c /\ i + 1 # j + 1
      BY <1>3, <2>2, <2>6, Zenon
    <3> QED BY <2>4, <2>5, <2>6, <3>1, Zenon
  <2>7. \A j \in DOMAIN g : t[i].sender # g[j].sender
    BY <1>3, <2>1, <2>3, <2>4, <2>5, Zenon
  <2> QED BY <2>4, <2>5, <2>6, <2>7, Zenon
<1>9. leader_channel' = t /\ folded' = g
  BY Zenon
<1> HIDE DEF c, g, h, t
<1> QED
  BY <1>1, <1>6, <1>7, <1>8, <1>9 DEF LeaderInv, DeltaOf, Sent

\* The leader has all the delta updates and decides: the iteration is over for
\* the body and for IterationEnd, and the next one begins.
LEMMA DecideInv ==
    ASSUME IInv, leader_channel # <<>>, leader_channel[1].kind = "Delta", LastUpdate,
           leader_channel' = Tail(leader_channel),
           UNCHANGED <<job, iterateVars, feedback, hostVars, body_channel, bodyVars,
                       end_channel, end>>,
           leader'.missing_updates = N, leader'.state = leader.state + 1,
           NEW continue \in BOOLEAN,
           state_channel' = [r \in Replica |-> Append(state_channel[r],
                    [continue |-> continue, state |-> leader.state + 1])],
           folded' = <<>>
    PROVE  /\ IterateInv' /\ ContentInv' /\ HostInv' /\ BodyInv' /\ FeedbackInv' /\ EndInv'
           /\ LeaderInv' /\ state_channel' \in [Replica -> Seq(StateFeedback)]
<1> USE DEF bodyVars
<1>1. /\ Replica' = Replica /\ N' = N /\ HostOf' = HostOf /\ Current' = Current + 1
      /\ Current \in Nat /\ Current = leader.state
  BY Fixed, Zenon DEF Current, IInv, Typed, LeaderTyped
<1>2. \A q \in Replica : Passed(q)' = Passed(q) /\ Flushed(q)' = Flushed(q)
  BY Zenon DEF Passed, Past, Flushed, iterateVars
<1>3. ContentInv' /\ HostInv'
  <2> USE DEF iterateVars, hostVars
  <2>1. ContentInv'
    BY <1>1, Zenon DEF IInv, ContentInv, ContentOK
  <2>2. HostInv'
    BY <1>2, HostFrame, Zenon DEF IInv
  <2> QED BY <2>1, <2>2, Zenon
<1>4. FeedbackInv'
  <2>1. UNCHANGED <<pc, iter, feedback, feedback_content, body>> /\ FeedbackInv
    BY Zenon DEF IInv, iterateVars
  <2> QED BY <2>1, FeedbackFrame, Zenon
<1>5. ASSUME NEW r \in Replica PROVE IterateOK(r)' /\ ~Done(r)'
  <2>1. Done(r) /\ IterateOK(r) /\ iter[r] \in Nat
    BY AllFinished, TypedAt, Zenon DEF IInv, IterateInv
  <2>2. iter[r] = Current /\ Flushed(r) /\ state_channel[r] = <<>> /\ pc[r] \in {"run", "wait_update"}
    BY <1>1, <2>1 DEF Done, IterateOK, Flushed
  <2>3. state_channel'[r] = <<[continue |-> continue, state |-> Current + 1]>>
    <3>1. state_channel'[r] = Append(<<>>, [continue |-> continue, state |-> Current + 1])
      BY <1>1, <2>2, Zenon
    <3>2. ASSUME NEW x PROVE Append(<<>>, x) = <<x>>
      OBVIOUS
    <3> QED BY <3>1, <3>2, Zenon
  <2>4. Len(state_channel'[r]) = 1 /\ state_channel'[r][1].state = Current + 1
    <3>1. ASSUME NEW x PROVE Len(<<x>>) = 1 /\ <<x>>[1] = x
      BY Zenon
    <3>2. Len(state_channel'[r]) = 1 /\ state_channel'[r][1] = [continue |-> continue, state |-> Current + 1]
      BY <2>3, <3>1, Zenon
    <3>3. [continue |-> continue, state |-> Current + 1].state = Current + 1
      BY Zenon
    <3> QED BY <3>2, <3>3, Zenon
  <2>5. iter' = iter /\ pc' = pc
    BY Zenon DEF iterateVars
  <2>6. iter'[r] + 1 = Current' /\ iter'[r] # Current'
    BY <1>1, <2>2, <2>5
  <2> QED BY <1>1, <1>2, <2>2, <2>4, <2>5, <2>6, Zenon DEF IterateOK, Done
<1>6. ASSUME NEW q \in Replica PROVE BodyOK(q)' /\ EndOK(q)'
  <2>1. /\ end[q].generation = 2 * Current + 2
        /\ body[q].generation = 2 * Current + 2
        /\ reading[q] = None
        /\ \A i \in DOMAIN body_channel[q] : body_channel[q][i].kind = "Terminate"
        /\ \A i \in DOMAIN end_channel[q] : end_channel[q][i].kind = "Terminate"
    BY AllFinished, Zenon
  <2>2. /\ UNCHANGED <<body, reading, body_channel, end, end_channel, generation>>
        /\ BodyOK(q) /\ EndOK(q)
    BY Zenon DEF IInv, BodyInv, EndInv, hostVars
  <2>3. Flushes(body_channel[q]) = {} /\ Flushes(end_channel[q]) = {}
    BY <2>1, Zenon DEF Flushes
  <2>4. {r \in Replica' : Done(r)'} = {}
    BY <1>1, <1>5, Zenon
  <2>5. Cardinality({}) = 0 /\ N \in Nat
    BY FS_EmptySet, Replicas, Zenon DEF IInv
  <2>6. body[q].missing_flush = N /\ body[q].missing_flush \in 1 .. N
    BY <2>1, <2>2, Zenon DEF BodyOK
  <2>7. 2 * Current' = 2 * Current + 2 /\ 2 * Current' + 2 # 2 * Current + 2
        /\ 2 * Current + 2 <= 2 * Current + 2
    <3>1. \A x \in Nat : /\ 2 * (x + 1) = 2 * x + 2 /\ 2 * (x + 1) + 2 # 2 * x + 2
                         /\ 2 * x + 2 <= 2 * x + 2
      OBVIOUS
    <3> QED BY <1>1, <3>1, Zenon
  <2>8. Cardinality(Flushes(body_channel[q])) + N - body[q].missing_flush
            = Cardinality({r \in Replica' : Done(r)'})
    <3>1. 0 + N - N = 0
      BY <2>5
    <3> QED BY <2>3, <2>4, <2>5, <2>6, <3>1, Zenon
  <2>9. BodyOK(q)'
    BY <1>1, <2>1, <2>2, <2>6, <2>7, <2>8, Zenon DEF BodyOK
  <2>10. EndOK(q)'
    BY <1>1, <2>1, <2>2, <2>3, <2>7, Zenon DEF EndOK
  <2> QED BY <2>9, <2>10, Zenon
<1>7. LeaderInv'
  <2> DEFINE t == Tail(leader_channel)
  <2>1. leader_channel \in Seq(Delta) /\ N \in Nat /\ LeaderInv
    BY Replicas, Zenon DEF IInv, Typed, LeaderTyped
  <2>2. 1 \in DOMAIN leader_channel
        /\ \A i \in DOMAIN t : t[i] = leader_channel[i + 1] /\ i + 1 \in DOMAIN leader_channel /\ i + 1 # 1
    BY <2>1
  <2>3. ASSUME NEW i \in DOMAIN t, t[i].kind = "Delta" PROVE FALSE
    <3>1. leader_channel[i + 1].sender \in Replica
      BY <2>2, SendersKnown, Zenon DEF IInv
    <3>2. /\ leader_channel[i + 1].sender # leader_channel[1].sender
          /\ \A j \in DOMAIN folded : leader_channel[i + 1].sender # folded[j].sender
      <4>1. /\ leader_channel[i + 1].kind = "Delta" /\ i + 1 \in DOMAIN leader_channel
            /\ i + 1 # 1 /\ 1 \in DOMAIN leader_channel /\ LeaderInv
        BY <2>1, <2>2, <2>3, Zenon
      <4> QED BY <4>1, Zenon DEF LeaderInv
    <3> QED BY <3>1, <3>2, AllDeltas, Zenon
  <2>4. leader_channel' = t /\ DOMAIN folded' = {} /\ Len(folded') = 0
    OBVIOUS
  <2> HIDE DEF t
  <2>5. leader'.missing_updates = N' - Len(folded') /\ (Len(folded') < N' \/ N' = 0)
    BY <1>1, <2>1, <2>4
  <2> QED BY <2>3, <2>4, <2>5, Zenon DEF LeaderInv
<1>8. state_channel' \in [Replica -> Seq(StateFeedback)]
  <2>1. [continue |-> continue, state |-> leader.state + 1] \in StateFeedback
    BY <1>1 DEF StateFeedback
  <2>2. state_channel \in [Replica -> Seq(StateFeedback)]
    BY Zenon DEF IInv, Typed, IterateTyped
  <2> QED BY <2>1, <2>2
<1> QED
  BY <1>1, <1>3, <1>4, <1>5, <1>6, <1>7, <1>8, Zenon DEF IterateInv, BodyInv, EndInv

\* The record of the leader after a decision.
LEMMA LeaderRecordTyped ==
    ASSUME NEW x \in LeaderRecord, NEW n \in Int, NEW k \in Nat, NEW v \in Nat
    PROVE  /\ [x EXCEPT !.missing_updates = n, !.iteration_index = k, !.state = v].missing_updates = n
           /\ [x EXCEPT !.missing_updates = n, !.iteration_index = k, !.state = v].state = v
           /\ [x EXCEPT !.missing_updates = n, !.iteration_index = k, !.state = v] \in LeaderRecord
<1> DEFINE w == [x EXCEPT !.missing_updates = n, !.iteration_index = k, !.state = v]
<1>1. [x EXCEPT !.missing_updates = n] \in LeaderRecord
  BY DEF LeaderRecord
<1>2. \A y \in LeaderRecord : [y EXCEPT !.iteration_index = k] \in LeaderRecord
  BY DEF LeaderRecord
<1>3. \A y \in LeaderRecord : [y EXCEPT !.state = v] \in LeaderRecord
  BY DEF LeaderRecord
<1>4. w = [[[x EXCEPT !.missing_updates = n] EXCEPT !.iteration_index = k] EXCEPT !.state = v]
  BY DEF LeaderRecord
<1>5. w.missing_updates = n /\ w.state = v
  BY DEF LeaderRecord
<1>6. w \in LeaderRecord
  <2> HIDE DEF w
  <2> QED BY <1>1, <1>2, <1>3, <1>4, Zenon
<1> QED
  BY <1>5, <1>6, Zenon

\* The leader takes a delta update, and decides when it has the last one.
LEMMA LeaderUpdateInv ==
    ASSUME IInv, LeaderUpdate
    PROVE  IInv'
<1> USE DEF bodyVars, leaderVars
<1>1. /\ leader_channel \in Seq(Delta) /\ leader_channel # <<>>
      /\ leader_channel[1].kind = "Delta" /\ Head(leader_channel) = leader_channel[1]
      /\ leader_channel[1] \in Delta
      /\ leader_channel' = Tail(leader_channel) /\ leader_channel' \in Seq(Delta)
      /\ leader \in LeaderRecord /\ folded \in Seq(Delta) /\ N \in Nat
  <2>1. /\ leader_channel \in Seq(Delta) /\ leader_channel # <<>>
        /\ leader_channel' = Tail(leader_channel) /\ Head(leader_channel).kind = "Delta"
        /\ leader \in LeaderRecord /\ folded \in Seq(Delta) /\ N \in Nat
    BY Replicas, Zenon DEF IInv, Typed, LeaderTyped, LeaderUpdate, LeaderRecord
  <2> QED BY <2>1
<1>2. /\ UNCHANGED <<job, iterateVars, feedback, hostVars, body_channel, body, reading,
                     end_channel, end>>
      /\ Replica' = Replica /\ Delta' = Delta
  <2>1. UNCHANGED <<job, iterateVars, feedback, hostVars, body_channel, body, reading,
                    end_channel, end>>
    BY Zenon DEF LeaderUpdate
  <2>2. Replica' = Replica
    BY <2>1, Fixed
  <2> QED BY <2>1, <2>2, Zenon DEF Delta
<1>3. HostTyped' /\ BodyTyped' /\ EndTyped'
  BY <1>2, TypedFrame DEF IInv, Typed, hostVars
<1>4. state_channel' \in [Replica -> Seq(StateFeedback)] => IterateTyped'
  <2>1. IterateTyped /\ UNCHANGED <<iterateVars, feedback>>
    BY <1>2, Zenon DEF IInv, Typed
  <2> QED BY <1>2, <2>1, Zenon DEF IterateTyped, iterateVars
<1>5. leader' \in LeaderRecord /\ folded' \in Seq(Delta) => LeaderTyped'
  BY <1>1, <1>2, Zenon DEF LeaderTyped, LeaderRecord
<1>6. CASE ~LastUpdate
  <2>1. /\ leader' = [leader EXCEPT !.missing_updates = leader.missing_updates - 1]
        /\ folded' = Append(folded, leader_channel[1])
        /\ state_channel' = state_channel
    BY <1>1, <1>6, Zenon DEF LeaderUpdate
  <2>2. /\ leader'.missing_updates = leader.missing_updates - 1
        /\ leader'.state = leader.state
        /\ leader' \in LeaderRecord
    <3>1. leader.missing_updates - 1 \in Int
      BY <1>1 DEF LeaderRecord
    <3>2. \A n \in Int : /\ [leader EXCEPT !.missing_updates = n].missing_updates = n
                         /\ [leader EXCEPT !.missing_updates = n].state = leader.state
                         /\ [leader EXCEPT !.missing_updates = n] \in LeaderRecord
      BY <1>1, Zenon DEF LeaderRecord
    <3> QED BY <2>1, <3>1, <3>2, Zenon
  <2>3. folded' \in Seq(Delta)
    BY <1>1, <2>1
  <2>4. LeaderInv'
    BY <1>1, <1>2, <1>6, <2>1, <2>2, FoldInv, Zenon
  <2>5. /\ \A q \in Replica : Passed(q)' = Passed(q) /\ Flushed(q)' = Flushed(q)
        /\ Current' = Current
    BY <1>2, <2>2, Zenon DEF Passed, Past, Flushed, iterateVars, Current
  <2>6. IterateInv' /\ ContentInv'
    BY <1>2, <2>1, <2>5 DEF IInv, IterateInv, IterateOK, ContentInv, ContentOK, iterateVars
  <2>7. HostInv'
    BY <1>2, <2>5, HostFrame, Zenon DEF IInv, iterateVars, hostVars
  <2>8. \A r \in Replica : Done(r)' <=> Done(r)
    BY <1>2, <2>5, Zenon DEF Done, iterateVars
  <2>9. BodyInv'
    <3>1. ASSUME NEW q \in Replica PROVE BodyOK(q)'
      <4>1. BodyOK(q)
        BY Zenon DEF IInv, BodyInv
      <4> QED BY <1>2, <2>5, <2>8, <4>1, BodySame, Zenon DEF hostVars
    <3> QED BY <1>2, <3>1, Zenon DEF BodyInv
  <2>10. FeedbackInv'
    <3>1. UNCHANGED <<pc, iter, feedback, feedback_content, body>> /\ FeedbackInv
      BY <1>2, Zenon DEF IInv, iterateVars
    <3> QED BY <1>2, <3>1, FeedbackFrame, Zenon
  <2>11. EndInv'
    BY <1>2, <2>5, Zenon DEF IInv, EndInv, EndOK
  <2>12. IterateTyped'
    BY <1>4, <2>1, Zenon DEF IInv, Typed, IterateTyped
  <2> QED BY <1>3, <1>5, <2>2, <2>3, <2>4, <2>6, <2>7, <2>9, <2>10, <2>11, <2>12, Zenon DEF IInv, Typed
<1>7. CASE LastUpdate
  <2>1. PICK continue \in LeaderDecision :
          /\ leader' = [leader EXCEPT
                  !.missing_updates = Cardinality(Replica),
                  !.iteration_index = IF continue THEN @ + 1 ELSE 0,
                  !.state = @ + 1]
          /\ state_channel' = [r \in Replica |-> Append(state_channel[r],
                  [continue |-> continue, state |-> leader.state + 1])]
          /\ folded' = <<>>
    BY <1>7, Zenon DEF LeaderUpdate
  <2>2. continue \in BOOLEAN
    BY Zenon DEF LeaderDecision
  <2>3. /\ leader'.missing_updates = N /\ leader'.state = leader.state + 1
        /\ leader' \in LeaderRecord
    <3> DEFINE k == IF continue THEN leader.iteration_index + 1 ELSE 0
    <3>1. leader.iteration_index \in Nat
      BY <1>1, Zenon DEF LeaderRecord
    <3>2. k \in Nat
      BY <3>1
    <3>3. leader' = [leader EXCEPT !.missing_updates = N, !.iteration_index = k, !.state = leader.state + 1]
      BY <2>1, Zenon DEF N
    <3> HIDE DEF k
    <3>4. leader.state + 1 \in Nat /\ N \in Int
      BY <1>1 DEF LeaderRecord
    <3> DEFINE w == [leader EXCEPT !.missing_updates = N, !.iteration_index = k,
                                   !.state = leader.state + 1]
    <3>6. w.missing_updates = N /\ w.state = leader.state + 1 /\ w \in LeaderRecord
      <4>1. leader \in LeaderRecord
        BY <1>1, Zenon
      <4> DEFINE v == leader.state + 1
      <4>2. v \in Nat
        BY <3>4, Zenon
      <4> HIDE DEF v
      <4>3. /\ [leader EXCEPT !.missing_updates = N, !.iteration_index = k, !.state = v].missing_updates = N
            /\ [leader EXCEPT !.missing_updates = N, !.iteration_index = k, !.state = v].state = v
            /\ [leader EXCEPT !.missing_updates = N, !.iteration_index = k, !.state = v] \in LeaderRecord
        BY <3>2, <3>4, <4>1, <4>2, LeaderRecordTyped, Zenon
      <4> QED BY <4>3, Zenon DEF v
    <3>7. leader' = w
      BY <3>3
    <3> HIDE DEF w
    <3> QED BY <3>6, <3>7, Zenon
  <2>4. /\ IterateInv' /\ ContentInv' /\ HostInv' /\ BodyInv' /\ FeedbackInv' /\ EndInv'
        /\ LeaderInv' /\ state_channel' \in [Replica -> Seq(StateFeedback)]
    BY <1>1, <1>2, <1>7, <2>1, <2>2, <2>3, DecideInv, Zenon
  <2>5. folded' \in Seq(Delta)
    BY <2>1
  <2> QED BY <1>3, <1>4, <1>5, <2>3, <2>4, <2>5, Zenon DEF IInv, Typed
<1> QED
  BY <1>6, <1>7, Zenon

\* The leader counts the replicas that terminate.
LEMMA LeaderTerminateInv ==
    ASSUME IInv, LeaderTerminate
    PROVE  IInv'
<1> USE DEF bodyVars
<1>1. UNCHANGED <<job, iterateVars, feedback, state_channel, hostVars, body_channel,
                  body, reading, end_channel, end, folded>>
  BY Zenon DEF LeaderTerminate
<1>2. /\ leader' = [leader EXCEPT !.missing_terminate = leader.missing_terminate - 1]
      /\ leader \in LeaderRecord
      /\ leader_channel \in Seq(Delta) /\ leader_channel # <<>>
      /\ leader_channel' = Tail(leader_channel)
  BY Zenon DEF LeaderTerminate, IInv, Typed, LeaderTyped, LeaderRecord
<1>3. /\ leader'.missing_updates = leader.missing_updates
      /\ leader'.state = leader.state
      /\ leader' \in LeaderRecord
  BY <1>2 DEF LeaderRecord
<1>4. Replica' = Replica /\ N' = N /\ Current' = Current
  BY <1>1, <1>3, Fixed, Zenon DEF Current
<1>5. \A q \in Replica : Passed(q)' = Passed(q) /\ Flushed(q)' = Flushed(q)
  BY <1>1, Zenon DEF Passed, Past, Flushed, iterateVars
<1>6. IterateInv' /\ ContentInv'
  BY <1>1, <1>4, <1>5 DEF IInv, IterateInv, IterateOK, ContentInv, ContentOK, iterateVars
<1>7. HostInv'
  BY <1>1, <1>5, HostFrame, Zenon DEF IInv, iterateVars, hostVars
<1>8. BodyInv'
  <2>1. \A r \in Replica : Done(r)' <=> Done(r)
    BY <1>1, <1>4, <1>5, Zenon DEF Done, iterateVars
  <2>3. ASSUME NEW q \in Replica PROVE BodyOK(q)'
    <3>1. BodyOK(q) /\ UNCHANGED <<job, body, reading, body_channel, generation>>
      BY <1>1, Zenon DEF IInv, BodyInv, hostVars
    <3> QED BY <1>4, <2>1, <3>1, BodySame, Zenon
  <2> QED BY <1>4, <2>3, Zenon DEF BodyInv
<1>9. FeedbackInv'
  <2>1. UNCHANGED <<pc, iter, feedback, feedback_content, body>> /\ FeedbackInv
    BY <1>1 DEF IInv, iterateVars
  <2> QED BY <1>1, <2>1, FeedbackFrame, Zenon
<1>10. EndInv'
  BY <1>1, <1>4, Zenon DEF IInv, EndInv, EndOK
<1>11. LeaderInv'
  <2> DEFINE t == Tail(leader_channel)
  <2>1. \A i \in DOMAIN t : /\ t[i] = leader_channel[i + 1] /\ i + 1 \in DOMAIN leader_channel
                            /\ \A j \in DOMAIN t : i # j => i + 1 # j + 1
    BY <1>2
  <2>2. LeaderInv /\ end' = end /\ folded' = folded
    BY <1>1, Zenon DEF IInv
  <2>3. leader_channel' = t
    BY <1>2
  <2> HIDE DEF t
  <2>4. \A i \in DOMAIN t : t[i].kind = "Delta" =>
            /\ DeltaOf(leader_channel[i + 1])
            /\ \A j \in DOMAIN t : i # j /\ t[j].kind = "Delta" => t[i].sender # t[j].sender
            /\ \A j \in DOMAIN folded : t[i].sender # folded[j].sender
    BY <2>1, <2>2 DEF LeaderInv
  <2> QED BY <1>3, <1>4, <2>1, <2>2, <2>3, <2>4 DEF LeaderInv, DeltaOf
<1>12. HostTyped' /\ BodyTyped' /\ EndTyped'
  BY <1>1, TypedFrame, Zenon DEF IInv, Typed, hostVars
<1>13. IterateTyped'
  BY <1>1, <1>4, Zenon DEF IInv, Typed, IterateTyped, iterateVars
<1>14. LeaderTyped'
  <2>1. Delta' = Delta /\ leader_channel' \in Seq(Delta) /\ folded' = folded /\ folded \in Seq(Delta)
    BY <1>1, <1>2, <1>4 DEF Delta, IInv, Typed, LeaderTyped
  <2> QED BY <1>3, <2>1, Zenon DEF LeaderTyped, LeaderRecord
<1> QED
  BY <1>6, <1>7, <1>8, <1>9, <1>10, <1>11, <1>12, <1>13, <1>14, Zenon DEF IInv, Typed

-----------------------------------------------------------------------------
(* The invariant *)

\* The batches of the previous block are sequences of elements.
LEMMA InputTyped ==
    ASSUME job \in Jobs, NEW r \in Replica
    PROVE  InputBatches(r) \in Seq(Seq(Element))
<1>1. /\ Rounds \in Nat
      /\ DOMAIN job.input = (1 .. Rounds) \X Replica
      /\ \A kr \in DOMAIN job.input : job.input[kr] \in Seq(Nat \ {0})
  BY JobsAssumption DEF JobOk, Rounds, Replica
<1>2. <<Terminate>> \in Seq(Element)
  BY DEF Terminate, Element, NoId
<1>3. ASSUME NEW k \in 1 .. Rounds + 1, ~(k > Rounds)
      PROVE  Append([i \in 1 .. Len(job.input[k, r]) |-> Item(job.input[k, r][i], 0)],
                    FlushAndRestart(0)) \in Seq(Element)
  <2> DEFINE q == job.input[k, r]
  <2>1. <<k, r>> \in DOMAIN job.input
    BY <1>1, <1>3
  <2>2. q \in Seq(Nat \ {0})
    BY <1>1, <2>1, Zenon
  <2> HIDE DEF q
  <2>3. /\ \A i \in 1 .. Len(q) : Item(q[i], 0) \in Element
        /\ FlushAndRestart(0) \in Element
    BY <2>2 DEF Item, FlushAndRestart, Element, NoId
  <2>4. [i \in 1 .. Len(q) |-> Item(q[i], 0)] \in Seq(Element)
    BY <2>2, <2>3
  <2>5. Append([i \in 1 .. Len(q) |-> Item(q[i], 0)], FlushAndRestart(0)) \in Seq(Element)
    BY <2>3, <2>4
  <2> QED BY <2>5, Zenon DEF q
<1>4. \A k \in 1 .. Rounds + 1 :
        (IF k > Rounds THEN <<Terminate>>
         ELSE Append([i \in 1 .. Len(job.input[k, r]) |-> Item(job.input[k, r][i], 0)],
                     FlushAndRestart(0))) \in Seq(Element)
  BY <1>2, <1>3, Zenon
<1>5. InputBatches(r) \in [1 .. Rounds + 1 -> Seq(Element)]
  BY <1>4, Zenon DEF InputBatches
<1>6. \A S, n : n \in Nat => \A f \in [1 .. n -> S] : f \in Seq(S)
  OBVIOUS
<1>7. Rounds + 1 \in Nat
  BY <1>1
<1> QED
  BY <1>5, <1>6, <1>7, Zenon

\* The invariant holds initially.
LEMMA InitInv ==
    ASSUME Init
    PROVE  IInv
<1>1. /\ IsFiniteSet(Replica) /\ N \in Nat /\ N = Cardinality(Replica)
      /\ \A r \in Replica : HostOf[r] \in Host
  <2>1. job \in Jobs /\ job.hostOf \in Seq(Host)
    BY JobsAssumption, Zenon DEF Init, JobOk
  <2>2. Replica = 1 .. Len(job.hostOf) /\ Len(job.hostOf) \in Nat
    BY <2>1 DEF Replica
  <2>3. 1 \in Int /\ Len(job.hostOf) \in Int
    BY <2>2
  <2>4. IsFiniteSet(Replica)
    BY <2>2, <2>3, FS_Interval, Zenon
  <2> QED BY <2>1, <2>4, FS_CardinalityType DEF N, HostOf, Replica
<1>2. Typed
  <2>1. HostTyped
    BY Zenon DEF Init, HostTyped
  <2>2. IterateTyped
    <3>1. input \in [Replica -> Seq(Seq(Element))]
      BY InputTyped, Zenon DEF Init
    <3>2. update \in [Replica -> StateFeedback]
      BY Zenon DEF Init, StateFeedback
    <3>3. <<>> \in Seq(Element) /\ <<>> \in Seq(StateFeedback)
      OBVIOUS
    <3>4. /\ pc \in [Replica -> {"run", "wait_update", "set", "barrier", "unlock",
                                 "resume", "terminated"}]
          /\ iter \in [Replica -> Nat]
      BY Zenon DEF Init
    <3>5. input_finished \in [Replica -> BOOLEAN]
      BY Zenon DEF Init
    <3>6. /\ input_stash \in [Replica -> Seq(Element)] /\ content \in [Replica -> Seq(Element)]
          /\ feedback_content \in [Replica -> Seq(Element)]
          /\ feedback \in [Replica -> Seq(Element)]
          /\ state_channel \in [Replica -> Seq(StateFeedback)]
      BY <3>3, Zenon DEF Init
    <3> QED BY <3>1, <3>2, <3>4, <3>5, <3>6, Zenon DEF IterateTyped
  <2>3. BodyTyped
    <3>1. [missing_flush |-> Cardinality(Replica), missing_terminate |-> Cardinality(Replica),
           wait |-> FALSE, generation |-> 0]
            \in [missing_flush : Nat, missing_terminate : Int, wait : BOOLEAN, generation : Nat]
      BY <1>1
    <3>2. body \in [Replica -> [missing_flush : Nat, missing_terminate : Int,
                                wait : BOOLEAN, generation : Nat]]
      BY <3>1, Zenon DEF Init
    <3>3. body_channel \in [Replica -> Seq(Element)] /\ reading \in [Replica -> Element \cup {None}]
      BY DEF Init
    <3> QED BY <3>2, <3>3, Zenon DEF BodyTyped
  <2>4. EndTyped
    <3>1. [folding |-> FALSE, wait |-> FALSE, generation |-> 0, terminated |-> FALSE]
            \in [folding : BOOLEAN, wait : BOOLEAN, generation : Nat, terminated : BOOLEAN]
      BY Zenon
    <3>2. end \in [Replica -> [folding : BOOLEAN, wait : BOOLEAN, generation : Nat,
                               terminated : BOOLEAN]]
      BY <3>1, Zenon DEF Init
    <3>3. end_channel \in [Replica -> Seq(Element)]
      BY DEF Init
    <3> QED BY <3>2, <3>3, Zenon DEF EndTyped
  <2>5. LeaderTyped
    BY <1>1 DEF Init, LeaderTyped
  <2> QED BY <2>1, <2>2, <2>3, <2>4, <2>5, Zenon DEF Typed
<1>3. /\ Current = 0
      /\ \A r \in Replica : /\ pc[r] = "run" /\ iter[r] = 0 /\ ~input_finished[r]
                            /\ content[r] = <<>> /\ feedback[r] = <<>>
                            /\ feedback_content[r] = <<>> /\ state_channel[r] = <<>>
                            /\ body_channel[r] = <<>> /\ end_channel[r] = <<>>
                            /\ reading[r] = None
                            /\ cell[HostOf[r]] = 0 /\ generation[HostOf[r]] = 0
  BY <1>1, Zenon DEF Init, Current
<1>4. \A r \in Replica : /\ body[r].generation = 0 /\ body[r].missing_flush = N
                         /\ ~body[r].wait
                         /\ end[r].generation = 0
  BY <1>1, Zenon DEF Init
<1>5. \A r \in Replica : ~Flushed(r) /\ Passed(r) = 0 /\ ~Done(r)
  BY <1>3, Zenon DEF Flushed, Passed, Past, Done
<1>6. DOMAIN <<>> = {} /\ Len(<<>>) = 0
  OBVIOUS
<1>7. IterateInv
  BY <1>3, Zenon DEF IterateInv, IterateOK
<1>8. ContentInv /\ FeedbackInv
  BY <1>3, <1>6, Zenon DEF ContentInv, ContentOK, FeedbackInv, FeedbackOK
<1>9. HostInv
  <2>1. ASSUME NEW r \in Replica PROVE HostOK(r)
    <3>1. 0 \in {2 * 0, 2 * 0 + 1}
      OBVIOUS
    <3> QED BY <1>3, <1>5, <3>1, Zenon DEF HostOK
  <2> QED BY <2>1, Zenon DEF HostInv
<1>10. ASSUME NEW b \in Replica PROVE BodyOK(b)
  <2>1. N \in 1 .. N
    <3>1. Replica # {}
      OBVIOUS
    <3>2. N # 0
      BY <1>1, <3>1, FS_EmptySet, Zenon
    <3> QED BY <1>1, <3>2
  <2>2. Flushes(body_channel[b]) = {} /\ {r \in Replica : Done(r)} = {}
    BY <1>3, <1>5, <1>6, Zenon DEF Flushes
  <2>3. Cardinality({}) = 0 /\ 0 + N - N = 0
    BY <1>1, FS_EmptySet
  <2>4. Cardinality(Flushes(body_channel[b])) + N - body[b].missing_flush
            = Cardinality({r \in Replica : Done(r)})
    BY <1>4, <2>2, <2>3, Zenon
  <2>5. 0 \in {2 * 0, 2 * 0 + 2} /\ 0 >= 0 /\ 0 # 2 * 0 + 2
    OBVIOUS
  <2> QED BY <1>3, <1>4, <1>6, <2>1, <2>4, <2>5, Zenon DEF BodyOK
<1>11. EndInv
  <2>1. 0 \in {2 * 0, 2 * 0 + 2} /\ 0 <= 0
    OBVIOUS
  <2>2. \A e \in Replica : Flushes(end_channel[e]) = {}
    BY <1>3, <1>6, Zenon DEF Flushes
  <2> QED BY <1>3, <1>4, <1>6, <2>1, <2>2, Zenon DEF EndInv, EndOK
<1>12. LeaderInv
  <2>1. folded = <<>> /\ leader_channel = <<>> /\ leader.missing_updates = N
    BY <1>1, Zenon DEF Init
  <2> QED BY <1>1, <1>6, <2>1 DEF LeaderInv
<1> QED
  BY <1>2, <1>7, <1>8, <1>9, <1>10, <1>11, <1>12, Zenon DEF IInv, BodyInv

\* A step keeps the invariant.
LEMMA NextInv ==
    ASSUME IInv, [Next]_vars
    PROVE  IInv'
<1>1. ASSUME NEW r \in Replica, IterateNext(r) PROVE IInv'
  BY <1>1, ReceiveInputInv, ReceiveFeedbackInv, NextInputInv, NextStoredInv, SwapInv,
     WaitUpdateInv, SetStateInv, UnlockStateInv, ResumeInv DEF IterateNext
<1>2. ASSUME NEW r \in Replica, BodyNext(r) PROVE IInv'
  BY <1>2, BodyItemInv, BodyReturnInv, BodyFlushAndRestartInv, BodyTerminateInv DEF BodyNext
<1>3. ASSUME NEW r \in Replica, SideNext(r) PROVE IInv'
  BY <1>3, SideInv
<1>4. ASSUME NEW r \in Replica, EndNext(r) PROVE IInv'
  BY <1>4, EndItemInv, EndFlushAndRestartInv, EndTerminateInv DEF EndNext
<1>5. ASSUME NEW h \in Host, Barrier(h) PROVE IInv'
  BY <1>5, BarrierInv
<1>6. ASSUME LeaderNext PROVE IInv'
  BY <1>6, LeaderUpdateInv, LeaderTerminateInv DEF LeaderNext
<1>7. ASSUME UNCHANGED vars PROVE IInv'
  BY <1>7, Frame DEF vars
<1> QED
  BY <1>1, <1>2, <1>3, <1>4, <1>5, <1>6, <1>7 DEF Next, Finished

\* The invariant of the loop of Stream::iterate, for every placement, input and
\* number of iterations.
THEOREM IterationInvariant == Spec => []IInv
<1>1. Init => IInv
  BY InitInv
<1>2. IInv /\ [Next]_vars => IInv'
  BY NextInv
<1> QED
  BY <1>1, <1>2, PTL DEF Spec

-----------------------------------------------------------------------------
(* What follows from it *)

\* The first replica of a host is about to write the state: the generation of the
\* lock is still the one before.
LEMMA Writing ==
    ASSUME IInv, NEW r \in Replica, pc[r] = "set"
    PROVE  /\ iter[r] + 1 = Current /\ update[r].state = Current
           /\ iter[r] \in Nat /\ Current \in Nat
           /\ Passed(r) = iter[r]
           /\ generation[HostOf[r]] = 2 * iter[r] + 1
<1>1. IterateOK(r) /\ HostOK(r) /\ iter[r] \in Nat /\ Current \in Nat
  BY TypedAt, Zenon DEF IInv, IterateInv, HostInv
<1>2. iter[r] + 1 = Current /\ update[r].state = Current
  BY <1>1 DEF IterateOK
<1>3. Passed(r) = iter[r] /\ Flushed(r)
  BY DEF Passed, Past, Flushed
<1>4. generation[HostOf[r]] = 2 * iter[r] + 1
  BY <1>1, <1>3, Zenon DEF HostOK
<1> QED
  BY <1>1, <1>2, <1>3, <1>4

\* The cell of a host whose replicas have passed the barrier of the running
\* iteration holds the state of it.
LEMMA CellOfCurrent ==
    ASSUME IInv, NEW r \in Replica, Passed(r) = Current
    PROVE  cell[HostOf[r]] = Current
<1>1. PICK l \in Replica : HostOf[l] = HostOf[r] /\ IsLocalLeader(l)
  BY LeaderOfHost DEF IInv
<1>2. /\ IterateOK(l) /\ HostOK(l) /\ HostOK(r)
      /\ iter[l] \in Nat /\ Current \in Nat
  BY TypedAt DEF IInv, IterateInv, HostInv
<1>3. Passed(l) = Current
  BY <1>1, <1>2, Zenon DEF HostOK
<1>4. cell[HostOf[l]] = IF pc[l] \in {"barrier", "unlock", "resume"} THEN iter[l] + 1 ELSE iter[l]
  BY <1>1, <1>2, Zenon DEF HostOK
<1>5. pc[l] # "barrier"
  BY <1>2, <1>3 DEF Passed, Past, IterateOK
<1> QED
  BY <1>1, <1>3, <1>4, <1>5 DEF Passed, Past

\* The unsafe write of the state cell in wait_sync_state (StateRaceFree): no
\* thread of the host reads the cell meanwhile, for any number of hosts, replicas,
\* elements and iterations.
THEOREM StateIsRaceFree == Spec => []StateRaceFree
<1>1. IInv => StateRaceFree
  <2> SUFFICES ASSUME IInv, NEW r \in Replica, NEW b \in Replica,
                      pc[r] = "set", HostOf[r] = HostOf[b]
               PROVE  reading[b] = None /\ ~IterateReads(b)
    BY DEF StateRaceFree
  <2>1. /\ iter[r] + 1 = Current /\ iter[r] \in Nat /\ Current \in Nat
        /\ Passed(r) = iter[r] /\ generation[HostOf[b]] = 2 * iter[r] + 1
    BY Writing, Zenon
  <2>2. reading[b] = None
    <3>1. ~ (generation[HostOf[b]] >= 2 * Current)
      BY <2>1
    <3> QED BY <3>1, Zenon DEF IInv, BodyInv, BodyOK
  <2>3. Passed(b) = iter[r] /\ IterateOK(b) /\ iter[b] \in Nat
    BY <2>1, TypedAt, Zenon DEF IInv, HostInv, HostOK, IterateInv
  <2>4. ASSUME pc[b] = "run" PROVE Flushed(b)
    <3>1. iter[b] # Current
      BY <2>1, <2>3, <2>4 DEF Passed, Past
    <3> QED BY <2>3, <3>1, Zenon DEF IterateOK
  <2> QED BY <2>2, <2>4 DEF IterateReads, Flushed
<1> QED
  BY <1>1, IterationInvariant, PTL

\* Whoever processes an element of an iteration reads the state of that iteration
\* (ReadsOwnIteration), and Start takes no element of another one.
THEOREM ReadsTheStateOfItsIteration == Spec => []ReadsOwnIteration
<1>1. IInv => ReadsOwnIteration
  <2> SUFFICES ASSUME IInv, NEW r \in Replica
               PROVE  /\ IterateReads(r) => cell[HostOf[r]] = iter[r]
                      /\ reading[r] # None => /\ cell[HostOf[r]] = reading[r].iter
                                              /\ body[r].generation = 2 * reading[r].iter
                      /\ (body_channel[r] # <<>> /\ Updated(r, body[r])) =>
                            LET el == Head(body_channel[r])
                            IN  el.kind = "Terminate" \/ body[r].generation = 2 * el.iter
    BY Zenon DEF ReadsOwnIteration
  <2>1. ASSUME IterateReads(r) PROVE cell[HostOf[r]] = iter[r]
    <3>1. pc[r] = "run" /\ ~Flushed(r)
      BY <2>1 DEF IterateReads, Flushed
    <3>2. iter[r] = Current
      BY <3>1, Zenon DEF IInv, IterateInv, IterateOK
    <3>3. Passed(r) = Current
      BY <3>1, <3>2, Zenon DEF Passed, Past
    <3> QED BY <3>2, <3>3, CellOfCurrent
  <2>2. ASSUME reading[r] # None
        PROVE  cell[HostOf[r]] = reading[r].iter /\ body[r].generation = 2 * reading[r].iter
    <3>1. /\ reading[r].iter = Current /\ body[r].generation = 2 * Current
          /\ generation[HostOf[r]] >= 2 * Current
      BY <2>2, Zenon DEF IInv, BodyInv, BodyOK
    <3>2. Passed(r) = Current
      BY <3>1, PassedBarrier DEF IInv
    <3> QED BY <3>1, <3>2, CellOfCurrent, Zenon
  <2>3. ASSUME body_channel[r] # <<>>, Updated(r, body[r])
        PROVE  \/ Head(body_channel[r]).kind = "Terminate"
               \/ body[r].generation = 2 * Head(body_channel[r]).iter
    <3>1. Head(body_channel[r]) = body_channel[r][1]
      BY <2>3, TypedAt DEF IInv
    <3> QED BY <2>3, <3>1, BodyReady, Zenon
  <2> QED BY <2>1, <2>2, <2>3, Zenon
<1> QED
  BY <1>1, IterationInvariant, PTL

\* The SAFETY comment of wait_sync_state for the path to IterationEnd
\* (LoopEmptyAtUpdate): when a state is written, nothing of the earlier iterations
\* is left in the operators of the loop or in its channels.
THEOREM LoopIsEmptyAtUpdate == Spec => []LoopEmptyAtUpdate
<1>1. IInv => LoopEmptyAtUpdate
  <2> SUFFICES ASSUME IInv, NEW r \in Replica, pc[r] = "set", NEW b \in Replica
               PROVE  /\ reading[b] = None \/ reading[b].iter >= update[r].state
                      /\ \A el \in Range(body_channel[b]) \cup Range(end_channel[b]) :
                            el.kind = "Terminate" \/ el.iter >= update[r].state
                      /\ \A el \in Range(feedback[b]) :
                            el.iter >= update[r].state \/ pc[b] = "run"
    BY Zenon DEF LoopEmptyAtUpdate
  <2>1. /\ iter[r] + 1 = Current /\ update[r].state = Current
        /\ iter[r] \in Nat /\ Current \in Nat
    BY Writing
  <2>2. BodyOK(b) /\ EndOK(b) /\ FeedbackOK(b) /\ IterateOK(b)
    BY DEF IInv, BodyInv, EndInv, FeedbackInv, IterateInv
  <2>3. Current >= Current
    BY <2>1
  <2>4. reading[b] = None \/ reading[b].iter >= update[r].state
    BY <2>1, <2>2, <2>3, Zenon DEF BodyOK
  <2>5. \A el \in Range(body_channel[b]) : el.kind = "Terminate" \/ el.iter >= update[r].state
    BY <2>1, <2>2, <2>3, Zenon DEF BodyOK, Range
  <2>6. \A el \in Range(end_channel[b]) : el.kind = "Terminate" \/ el.iter >= update[r].state
    BY <2>1, <2>2, <2>3, Zenon DEF EndOK, Range
  <2>7. ASSUME NEW i \in DOMAIN feedback[b], pc[b] # "run" PROVE feedback[b][i].iter >= update[r].state
    <3>1. feedback[b] # <<>>
      OBVIOUS
    <3>2. pc[b] \notin {"wait_update", "set", "barrier"}
      BY <2>2, <3>1, Zenon DEF FeedbackOK
    <3>3. Passed(b) = Current
      BY <2>2, <2>7, <3>2, Zenon DEF IterateOK, Passed, Past
    <3> QED BY <2>1, <2>2, <2>3, <3>3, Zenon DEF FeedbackOK
  <2>8. \A el \in Range(feedback[b]) : el.iter >= update[r].state \/ pc[b] = "run"
    BY <2>7, Zenon DEF Range
  <2> QED BY <2>4, <2>5, <2>6, <2>8, Zenon
<1> QED
  BY <1>1, IterationInvariant, PTL

\* feedback_finished looks only at the last element of feedback_content; nothing of
\* the next iteration comes back before the swap (FeedbackSeparated).
THEOREM FeedbackIsSeparated == Spec => []FeedbackSeparated
<1>1. IInv => FeedbackSeparated
  <2>1. ASSUME IInv, NEW r \in Replica
        PROVE  FeedbackOK(r) /\ DOMAIN feedback_content[r] = 1 .. Len(feedback_content[r])
    BY <2>1, TypedAt DEF IInv, FeedbackInv
  <2> QED BY <2>1, Zenon DEF FeedbackSeparated, FeedbackOK
<1> QED
  BY <1>1, IterationInvariant, PTL

\* process_updates of the leader (DeltasOfOneIteration): what it folds together is
\* of the running iteration, and one delta update of each replica.
THEOREM FoldsOneIteration == Spec => []DeltasOfOneIteration
<1>1. IInv => DeltasOfOneIteration
  <2>1. ASSUME IInv PROVE LeaderInv /\ DOMAIN folded = 1 .. Len(folded)
    BY <2>1 DEF IInv, Typed, LeaderTyped
  <2> QED BY <2>1, Zenon DEF DeltasOfOneIteration, LeaderInv, DeltaOf, Current
<1> QED
  BY <1>1, IterationInvariant, PTL
===============================================================================
