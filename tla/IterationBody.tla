---------------------------- MODULE IterationBody ----------------------------
(***************************************************************************)
(* The steps of the body of the loop keep the invariant of IterationInv.   *)
(***************************************************************************)
EXTENDS IterationInv

\* time limits of the provers
USE SMTT(20), ZenonT(20)

-----------------------------------------------------------------------------
(* The body takes and returns elements *)

\* A replica of the body that may go on is in the running iteration, which its
\* host has been told of.
LEMMA BodyReady ==
    ASSUME IInv, NEW b \in Replica, Updated(b, body[b]), body_channel[b] # <<>>
    PROVE  /\ generation[HostOf[b]] >= body[b].generation
           /\ body_channel[b][1].kind # "Terminate" =>
                 /\ body_channel[b][1].iter = Current
                 /\ body[b].generation = 2 * Current
                 /\ Passed(b) = Current
<1>1. generation[HostOf[b]] >= body[b].generation
  BY Zenon DEF IInv, BodyInv, BodyOK, Updated
<1>2. 1 \in DOMAIN body_channel[b]
  BY TypedAt DEF IInv
<1>3. body_channel[b][1].kind # "Terminate" =>
          body_channel[b][1].iter = Current /\ body[b].generation = 2 * Current
  BY <1>2, Zenon DEF IInv, BodyInv, BodyOK
<1>4. body_channel[b][1].kind # "Terminate" => Passed(b) = Current
  BY <1>1, <1>3, PassedBarrier DEF IInv
<1> QED
  BY <1>1, <1>3, <1>4, Zenon

\* What a replica of the body knows stays when nothing it looks at changes.
LEMMA BodySame ==
    ASSUME NEW q \in Replica, BodyOK(q), UNCHANGED <<job, generation>>, Current' = Current,
           body'[q] = body[q], reading'[q] = reading[q], body_channel'[q] = body_channel[q],
           \A r \in Replica : Done(r)' <=> Done(r)
    PROVE  BodyOK(q)'
<1>1. Replica' = Replica /\ HostOf' = HostOf /\ N' = N /\ Current' = Current
  BY Fixed
<1>2. {r \in Replica' : Done(r)'} = {r \in Replica : Done(r)}
  BY <1>1
<1>3. Cardinality({r \in Replica' : Done(r)'}) = Cardinality({r \in Replica : Done(r)})
  BY <1>2, Zenon
<1>4. body'[q].generation = 2 * Current' =>
          Cardinality(Flushes(body_channel'[q])) + N' - body'[q].missing_flush
            = Cardinality({r \in Replica' : Done(r)'})
  BY <1>1, <1>3, Zenon DEF BodyOK
<1> QED
  BY <1>1, <1>4, Zenon DEF BodyOK

\* The Start of the body takes an element and counts a FlushAndRestart, which is
\* not the last one it misses.
Takes(b) ==
    /\ body_channel' = [body_channel EXCEPT ![b] = Tail(@)]
    /\ body_channel[b][1].kind = "FlushAndRestart" =>
          body[b].missing_flush # 1 /\ body'[b].missing_flush = body[b].missing_flush - 1
    /\ body_channel[b][1].kind # "FlushAndRestart" =>
          body'[b].missing_flush = body[b].missing_flush

\* Taking an element out of the channel that does not end the iteration.
LEMMA BodyTake ==
    ASSUME IInv, NEW b \in Replica, Updated(b, body[b]), body_channel[b] # <<>>,
           UNCHANGED <<job, leader, generation, pc, iter, content, input_finished>>,
           \A q \in Replica : q # b => body'[q] = body[q] /\ reading'[q] = reading[q],
           body'[b].generation = body[b].generation,
           Takes(b),
           reading'[b] # None => reading'[b] = reading[b] \/ (reading'[b] = body_channel[b][1] /\ reading'[b].kind = "Item")
    PROVE  BodyInv'
<1>1. Replica' = Replica /\ HostOf' = HostOf /\ N' = N /\ Current' = Current
  BY Fixed DEF Current
<1>2. \A q \in Replica : Done(q)' = Done(q)
  BY <1>1 DEF Done, Flushed
<1>3. {q \in Replica' : Done(q)'} = {q \in Replica : Done(q)}
  BY <1>1, <1>2
<1>4. body_channel \in [Replica -> Seq(Element)]
  BY Zenon DEF IInv, Typed, BodyTyped
<1>5. BodyOK(b)'
  <2> DEFINE s == body_channel[b]
             t == Tail(body_channel[b])
  <2>1. /\ body_channel'[b] = t
        /\ s \in Seq(Element) /\ Len(s) \in Nat \ {0} /\ DOMAIN s = 1 .. Len(s)
        /\ DOMAIN t = 1 .. Len(s) - 1
        /\ \A i \in 1 .. Len(s) - 1 : t[i] = s[i + 1]
    BY <1>4 DEF Takes
  <2>2. /\ Cardinality(Flushes(t)) + N - body'[b].missing_flush
              = Cardinality(Flushes(s)) + N - body[b].missing_flush
        /\ body[b].missing_flush \in 1 .. N => body'[b].missing_flush \in 1 .. N
    <3>a. s \in Seq(Element) /\ t \in Seq(Element)
      BY <1>4
    <3>1. Cardinality(Flushes(s)) \in Nat /\ Cardinality(Flushes(t)) \in Nat
      BY <3>a, FlushesFinite, Zenon
    <3>2. Head(s) = s[1]
      BY <1>4
    <3>3. Cardinality(Flushes(s)) = Cardinality(Flushes(t))
              + (IF s[1].kind = "FlushAndRestart" THEN 1 ELSE 0)
      BY <1>4, <3>2, FlushesTail
    <3>4. N \in Nat /\ body[b].missing_flush \in Nat
      BY Replicas, TypedAt, Zenon DEF IInv
    <3> DEFINE m == body[b].missing_flush
               n == body'[b].missing_flush
               c == Cardinality(Flushes(s))
               d == Cardinality(Flushes(t))
    <3>5. CASE s[1].kind = "FlushAndRestart"
      <4>1. m \in Nat /\ m # 1 /\ n = m - 1 /\ c = d + 1 /\ d \in Nat /\ N \in Nat
        BY <3>1, <3>3, <3>4, <3>5, Zenon DEF Takes
      <4> HIDE DEF m, n, c, d
      <4>2. d + N - n = c + N - m /\ (m \in 1 .. N => n \in 1 .. N)
        BY <4>1
      <4> QED BY <4>2, Zenon DEF m, n, c, d
    <3>6. CASE s[1].kind # "FlushAndRestart"
      <4>1. n = m /\ c = d
        BY <3>1, <3>3, <3>6 DEF Takes
      <4> QED BY <4>1, Zenon
    <3> QED BY <3>5, <3>6, Zenon
  <2>3. \A i \in Flushes(s) : i # 1 => i - 1 \in Flushes(t)
    BY <1>4, FlushesTail
  <2>4. BodyOK(b) /\ generation[HostOf[b]] >= body[b].generation
    BY BodyReady, Zenon DEF IInv, BodyInv
  <2>5. reading'[b] # None => /\ reading'[b].kind = "Item"
                              /\ reading'[b].iter = Current
                              /\ body[b].generation = 2 * Current
                              /\ generation[HostOf[b]] >= 2 * Current
    BY <2>4, BodyReady, Zenon DEF BodyOK
  <2>6. ASSUME NEW i \in DOMAIN t
        PROVE  /\ t[i].kind # "Terminate" => t[i].iter = Current /\ body[b].generation = 2 * Current
               /\ t[i].kind = "Item" => \/ \E r \in Replica : ~Done(r)
                                        \/ \E j \in Flushes(t) : i < j
    <3>1. i + 1 \in DOMAIN s /\ t[i] = s[i + 1] /\ i \in Nat /\ i # 0
      BY <2>1
    <3>2. /\ s[i + 1].kind # "Terminate" => s[i + 1].iter = Current /\ body[b].generation = 2 * Current
          /\ s[i + 1].kind = "Item" => \/ \E r \in Replica : ~Done(r)
                                       \/ \E j \in Flushes(s) : i + 1 < j
      BY <2>4, <3>1, Zenon DEF BodyOK
    <3>3. ASSUME NEW j \in Flushes(s), i + 1 < j
          PROVE  \E k \in Flushes(t) : i < k
      <4>1. j \in Nat /\ j # 1
        BY <2>1, <3>1, <3>3 DEF Flushes
      <4>2. j - 1 \in Flushes(t) /\ i < j - 1
        BY <2>3, <3>1, <3>3, <4>1
      <4> QED BY <4>2, Zenon
    <3> HIDE DEF s, t
    <3> QED BY <3>1, <3>2, <3>3, Zenon
  <2> HIDE DEF s, t
  <2>7. body_channel[b] = s
    BY Zenon DEF s
  <2>8. body'[b].generation = 2 * Current' =>
          Cardinality(Flushes(t)) + N' - body'[b].missing_flush
            = Cardinality({r \in Replica' : Done(r)'})
    <3>1. body[b].generation = 2 * Current =>
            Cardinality(Flushes(s)) + N - body[b].missing_flush
              = Cardinality({r \in Replica : Done(r)})
      BY <2>4, <2>7, Zenon DEF BodyOK
    <3>2. Cardinality({r \in Replica' : Done(r)'}) = Cardinality({r \in Replica : Done(r)})
      BY <1>3, Zenon
    <3> HIDE <1>3
    <3> QED BY <1>1, <2>2, <3>1, <3>2, Zenon
  <2>9. /\ body'[b].generation \in {2 * Current', 2 * Current' + 2}
        /\ body'[b].missing_flush \in 1 .. N'
        /\ ~body'[b].wait => generation'[HostOf'[b]] >= body'[b].generation
    BY <1>1, <2>2, <2>4, Zenon DEF BodyOK
  <2>10. body'[b].generation = 2 * Current' + 2 =>
          body'[b].missing_flush = N' /\ \A r \in Replica' : Done(r)'
    <3>1. 2 * Current + 2 # 2 * Current
      BY TypedAt DEF IInv
    <3>2. s[1].kind # "FlushAndRestart" \/ body[b].generation # 2 * Current + 2
      BY <2>7, <3>1, BodyReady, Zenon
    <3>3. body[b].generation = 2 * Current + 2 => body'[b].missing_flush = body[b].missing_flush
      BY <2>7, <3>2, Zenon DEF Takes
    <3> QED BY <1>1, <1>2, <2>4, <3>3, Zenon DEF BodyOK
  <2>11. \A i \in DOMAIN t :
          t[i].kind = "Item" => \/ \E r \in Replica' : ~Done(r)'
                               \/ \E j \in Flushes(t) : i < j
    BY <1>1, <1>2, <2>6, Zenon
  <2> QED BY <1>1, <2>1, <2>5, <2>6, <2>8, <2>9, <2>10, <2>11, Zenon DEF BodyOK
<1>6. ASSUME NEW q \in Replica, q # b PROVE BodyOK(q)'
  <2>1. body_channel'[q] = body_channel[q]
    BY <1>4, <1>6, Zenon DEF Takes
  <2>2. body'[q] = body[q] /\ reading'[q] = reading[q] /\ generation' = generation /\ BodyOK(q)
    BY <1>6, Zenon DEF IInv, BodyInv
  <2> QED BY <1>1, <1>2, <2>1, <2>2, BodySame, Zenon
<1> QED
  BY <1>1, <1>5, <1>6 DEF BodyInv

\* Nothing else depends on the body when its generation stays.
LEMMA BodyIndependent ==
    ASSUME IInv, UNCHANGED <<job, iterateVars, state_channel, hostVars, leader>>
    PROVE  IterateInv' /\ ContentInv' /\ HostInv' /\ HostTyped'
           /\ \A q \in Replica : Passed(q)' = Passed(q) /\ Flushed(q)' = Flushed(q)
<1> USE DEF iterateVars, hostVars
<1>1. \A q \in Replica : Passed(q)' = Passed(q) /\ Flushed(q)' = Flushed(q)
  BY Zenon DEF Passed, Past, Flushed
<1>2. IterateInv' /\ ContentInv'
  BY <1>1, Fixed DEF IInv, IterateInv, IterateOK, ContentInv, ContentOK, Current
<1>3. HostInv'
  BY <1>1, HostFrame, Zenon DEF IInv
<1> QED
  BY <1>1, <1>2, <1>3, TypedFrame, Zenon DEF IInv, Typed

\* The Start of the body takes an element.
LEMMA BodyItemInv ==
    ASSUME IInv, NEW b \in Replica, BodyItem(b)
    PROVE  IInv'
<1> USE DEF bodyVars, leaderVars
<1>1. /\ body_channel[b] \in Seq(Element) /\ body_channel[b] # <<>>
      /\ Head(body_channel[b]) = body_channel[b][1] /\ Head(body_channel[b]) \in Element
      /\ Tail(body_channel[b]) \in Seq(Element)
      /\ body_channel[b][1].kind = "Item"
      /\ reading'[b] = body_channel[b][1]
      /\ body'[b].generation = body[b].generation
      /\ body'[b].missing_flush = body[b].missing_flush
      /\ \A q \in Replica : q # b => body'[q] = body[q] /\ reading'[q] = reading[q]
  <2>1. body_channel[b] \in Seq(Element) /\ body_channel[b] # <<>>
    BY TypedAt, Zenon DEF IInv, BodyItem
  <2>2. /\ Head(body_channel[b]) = body_channel[b][1] /\ Head(body_channel[b]) \in Element
        /\ Tail(body_channel[b]) \in Seq(Element)
    BY <2>1
  <2> QED BY <2>1, <2>2 DEF IInv, Typed, BodyTyped, BodyItem
<1>2. BodyInv'
  BY <1>1, BodyTake, Zenon DEF BodyItem, Takes, iterateVars, hostVars
<1>3. IterateInv' /\ ContentInv' /\ HostInv' /\ HostTyped'
      /\ \A q \in Replica : Passed(q)' = Passed(q)
  BY BodyIndependent, Zenon DEF BodyItem
<1>4. Typed'
  <2>1. BodyTyped'
    <3>1. body_channel' \in [Replica -> Seq(Element)] /\ reading' \in [Replica -> Element \cup {None}]
      BY <1>1, Zenon DEF IInv, Typed, BodyTyped, BodyItem
    <3>2. body' \in [Replica -> [missing_flush : Nat, missing_terminate : Int,
                                wait : BOOLEAN, generation : Nat]]
      BY Zenon DEF IInv, Typed, BodyTyped, BodyItem
    <3> QED BY <3>1, <3>2, Fixed, Zenon DEF BodyTyped, BodyItem
  <2>2. IterateTyped'
    BY Fixed, Zenon DEF IInv, Typed, IterateTyped, BodyItem, iterateVars
  <2> QED BY <1>3, <2>1, <2>2, TypedFrame, Zenon DEF IInv, Typed, BodyItem
<1>5. \A q \in Replica : body'[q].generation = body[q].generation
  BY <1>1, Zenon
<1>6. FeedbackInv'
  BY <1>3, <1>5, Fixed DEF IInv, FeedbackInv, FeedbackOK, BodyItem, iterateVars
<1>7. EndInv'
  BY <1>5, Fixed DEF IInv, EndInv, EndOK, BodyItem, Current
<1>8. LeaderInv'
  BY LeaderFrame DEF IInv, BodyItem
<1> QED
  BY <1>2, <1>3, <1>4, <1>6, <1>7, <1>8 DEF IInv

\* What End sends on belongs to the running iteration, and no FlushAndRestart of
\* that iteration is on its way yet.
LEMMA SendOnInv ==
    ASSUME IInv, NEW b \in Replica, NEW el \in Element, el.kind # "Terminate",
           el.iter = Current, body[b].generation = 2 * Current, Passed(b) = Current,
           SendOn(b, el), UNCHANGED <<job, iterateVars, leader, end>>,
           \A q \in Replica : q # b => body'[q].generation = body[q].generation,
           body'[b].generation = IF el.kind = "FlushAndRestart" THEN 2 * Current + 2
                                 ELSE 2 * Current
    PROVE  /\ FeedbackInv' /\ EndInv' /\ EndTyped'
           /\ feedback' \in [Replica -> Seq(Element)]
<1>1. Replica' = Replica /\ Current' = Current
      /\ \A q \in Replica : Passed(q)' = Passed(q) /\ Current \in Nat /\ iter[q] \in Nat
  BY Fixed, TypedAt, Zenon DEF Current, IInv, Passed, Past, iterateVars
<1>2. feedback \in [Replica -> Seq(Element)] /\ end_channel \in [Replica -> Seq(Element)]
  BY Zenon DEF IInv, Typed, IterateTyped, EndTyped
<1>3. feedback' \in [Replica -> Seq(Element)] /\ end_channel' \in [Replica -> Seq(Element)]
  BY <1>2 DEF SendOn
<1>4. \A q \in Replica : q # b => feedback'[q] = feedback[q] /\ end_channel'[q] = end_channel[q]
  BY <1>2 DEF SendOn
<1>5. feedback'[b] = Append(feedback[b], el) /\ end_channel'[b] = Append(end_channel[b], el)
  BY <1>2 DEF SendOn
<1>6. UNCHANGED <<pc, iter, feedback_content, end>>
  BY DEF iterateVars
<1>7. FeedbackOK(b)'
  <2>1. FeedbackOK(b) /\ ContentOK(b) /\ 2 * Current + 2 # 2 * Current
    BY <1>1 DEF IInv, FeedbackInv, ContentInv
  <2>2. pc[b] \notin {"wait_update", "set", "barrier"}
    BY <2>1, Zenon DEF FeedbackOK, Passed, Past
  <2>3. \A i \in DOMAIN feedback[b] : feedback[b][i].kind # "FlushAndRestart"
    BY <2>1, Zenon DEF FeedbackOK
  <2>4. \A i \in DOMAIN feedback_content[b] : feedback_content[b][i].kind # "FlushAndRestart"
    BY <2>1 DEF FeedbackOK, ContentOK, Passed, Past
  <2> DEFINE s == feedback[b]
             t == feedback'[b]
  <2>5. /\ DOMAIN t = 1 .. Len(s) + 1 /\ Len(t) = Len(s) + 1 /\ Len(s) \in Nat
        /\ DOMAIN s = 1 .. Len(s)
        /\ \A i \in 1 .. Len(s) : t[i] = s[i]
        /\ t[Len(s) + 1] = el
    BY <1>2, <1>5
  <2>6. ASSUME NEW i \in DOMAIN t
        PROVE  /\ t[i].kind # "Terminate"
               /\ t[i].iter = Passed(b)
               /\ t[i].kind = "FlushAndRestart" =>
                     i = Len(t) /\ body'[b].generation = 2 * Passed(b) + 2
    <3>1. CASE i \in 1 .. Len(s)
      BY <2>1, <2>3, <2>5, <3>1, Zenon DEF FeedbackOK
    <3>2. CASE i = Len(s) + 1
      BY <2>5, <3>2, Zenon
    <3> QED BY <2>5, <3>1, <3>2
  <2> HIDE DEF s, t
  <2>7. feedback'[b] = t
    BY DEF t
  <2> QED BY <1>1, <1>6, <2>1, <2>2, <2>4, <2>6, <2>7, Zenon DEF FeedbackOK
<1>8. ASSUME NEW q \in Replica, q # b PROVE FeedbackOK(q)'
  <2>1. feedback'[q] = feedback[q] /\ body'[q].generation = body[q].generation /\ FeedbackOK(q)
    BY <1>4, <1>8, Zenon DEF IInv, FeedbackInv
  <2> QED BY <1>1, <1>6, <2>1, Zenon DEF FeedbackOK
<1>9. EndOK(b)'
  <2>1. EndOK(b) /\ 2 * Current + 2 # 2 * Current /\ ~(2 * Current + 2 <= 2 * Current)
    BY <1>1 DEF IInv, EndInv
  <2>2. end[b].generation = 2 * Current
    BY <2>1, Zenon DEF EndOK
  <2>3. Flushes(end_channel[b]) = {}
    BY <2>1, Zenon DEF EndOK
  <2> DEFINE s == end_channel[b]
             t == end_channel'[b]
  <2>4. /\ DOMAIN t = 1 .. Len(s) + 1 /\ Len(s) \in Nat
        /\ DOMAIN s = 1 .. Len(s)
        /\ \A i \in 1 .. Len(s) : t[i] = s[i]
        /\ t[Len(s) + 1] = el
    BY <1>2, <1>5
  <2>a. \A i \in DOMAIN t : (i \in DOMAIN s /\ t[i] = s[i]) \/ (i = Len(s) + 1 /\ t[i] = el)
    <3> HIDE DEF s, t
    <3> QED BY <2>4
  <2>5. \A i \in DOMAIN t : t[i].kind # "Terminate" => t[i].iter = Current
    BY <1>1, <2>1, <2>a, Zenon DEF EndOK
  <2>6. \A i \in Flushes(t) : i = Len(s) + 1 /\ el.kind = "FlushAndRestart"
    BY <2>3, <2>a, Zenon DEF Flushes
  <2>7. \A i \in Flushes(t) : /\ body'[b].generation = 2 * Current + 2
                              /\ \A j \in DOMAIN t : ~ i < j
    BY <2>4, <2>6
  <2>8. /\ end'[b].generation = 2 * Current
        /\ end'[b].generation <= body'[b].generation
    BY <1>1, <1>6, <2>2
  <2> HIDE DEF s, t
  <2>9. end_channel'[b] = t
    BY DEF t
  <2> QED BY <1>1, <1>6, <2>2, <2>5, <2>7, <2>8, <2>9, Zenon DEF EndOK
<1>10. ASSUME NEW q \in Replica, q # b PROVE EndOK(q)'
  <2>1. end_channel'[q] = end_channel[q] /\ body'[q].generation = body[q].generation /\ EndOK(q)
    BY <1>4, <1>10, Zenon DEF IInv, EndInv
  <2> QED BY <1>1, <1>6, <2>1, Zenon DEF EndOK
<1>11. EndTyped'
  BY <1>1, <1>3, <1>6, Zenon DEF IInv, Typed, EndTyped
<1> QED
  BY <1>1, <1>3, <1>7, <1>8, <1>9, <1>10, <1>11, Zenon DEF FeedbackInv, EndInv

\* The operators of the body return and End sends the element on.
LEMMA BodyReturnInv ==
    ASSUME IInv, NEW b \in Replica, BodyReturn(b)
    PROVE  IInv'
<1> USE DEF bodyVars, leaderVars
<1>1. /\ reading[b] \in Element /\ reading[b].kind = "Item" /\ reading[b].iter = Current
      /\ body[b].generation = 2 * Current
      /\ generation[HostOf[b]] >= 2 * Current
  BY Zenon DEF IInv, Typed, BodyTyped, BodyInv, BodyOK, BodyReturn
<1>2. Passed(b) = Current
  BY <1>1, PassedBarrier DEF IInv
<1>3. /\ FeedbackInv' /\ EndInv' /\ EndTyped'
      /\ feedback' \in [Replica -> Seq(Element)]
  BY <1>1, <1>2, SendOnInv, Zenon DEF BodyReturn
<1>4. IterateInv' /\ ContentInv' /\ HostInv' /\ HostTyped'
  BY BodyIndependent DEF BodyReturn
<1>5. reading' = [reading EXCEPT ![b] = None] /\ reading \in [Replica -> Element \cup {None}]
  BY Zenon DEF IInv, Typed, BodyTyped, BodyReturn
<1>6. BodyInv'
  <2>1. Replica' = Replica /\ HostOf' = HostOf /\ N' = N /\ Current' = Current
    BY Fixed DEF Current, BodyReturn
  <2>2. \A r \in Replica : Done(r)' <=> Done(r)
    BY <2>1, Zenon DEF Done, Flushed, BodyReturn, iterateVars
  <2>3. {r \in Replica' : Done(r)'} = {r \in Replica : Done(r)}
    BY <2>1, <2>2
  <2>4. ASSUME NEW q \in Replica PROVE BodyOK(q)'
    <3>1. BodyOK(q) /\ UNCHANGED <<body, body_channel, generation>>
      BY DEF IInv, BodyInv, BodyReturn, hostVars
    <3>2. reading'[q] = None \/ reading'[q] = reading[q]
      BY <1>5
    <3> QED BY <2>1, <2>2, <2>3, <3>1, <3>2, Zenon DEF BodyOK
  <2> QED BY <2>1, <2>4 DEF BodyInv
<1>7. BodyTyped'
  BY <1>5, Fixed, Zenon DEF IInv, Typed, BodyTyped, BodyReturn
<1>8. IterateTyped'
  BY <1>3, Fixed, Zenon DEF IInv, Typed, IterateTyped, BodyReturn, iterateVars
<1>9. LeaderInv' /\ LeaderTyped'
  BY LeaderFrame, TypedFrame, Zenon DEF IInv, Typed, BodyReturn
<1> QED
  BY <1>3, <1>4, <1>6, <1>7, <1>8, <1>9 DEF IInv, Typed

-----------------------------------------------------------------------------
(* The body ends the iteration *)

\* The last FlushAndRestart that the Start of the body misses: every replica of
\* Iterate has sent its own, and nothing of the iteration is left behind it.
LEMMA LastFlushOfBody ==
    ASSUME IInv, NEW b \in Replica, body_channel[b] # <<>>,
           body[b].generation = 2 * Current, body[b].missing_flush = 1,
           body_channel[b][1].kind = "FlushAndRestart"
    PROVE  /\ \A r \in Replica : Done(r)
           /\ \A i \in DOMAIN Tail(body_channel[b]) : Tail(body_channel[b])[i].kind = "Terminate"
<1> DEFINE s == body_channel[b]
           t == Tail(body_channel[b])
           D == {r \in Replica : Done(r)}
<1>1. /\ s \in Seq(Element) /\ Len(s) \in Nat \ {0} /\ DOMAIN s = 1 .. Len(s)
      /\ t \in Seq(Element) /\ DOMAIN t = 1 .. Len(s) - 1
      /\ \A i \in 1 .. Len(s) - 1 : t[i] = s[i + 1] /\ t[i] \in Element
      /\ Head(s) = s[1]
  <2>1. s \in Seq(Element) /\ s # <<>>
    BY TypedAt DEF IInv
  <2>2. t \in Seq(Element)
    BY <2>1
  <2> QED BY <2>1, <2>2
<1>2. /\ Cardinality(Flushes(s)) = Cardinality(Flushes(t)) + 1
      /\ \A i \in Flushes(s) : i # 1 => i - 1 \in Flushes(t)
  BY <1>1, FlushesTail, Zenon
<1>3. Cardinality(Flushes(s)) \in Nat /\ Cardinality(Flushes(t)) \in Nat /\ IsFiniteSet(Flushes(t))
  BY <1>1, FlushesFinite, Zenon
<1>4. /\ IsFiniteSet(D) /\ Cardinality(D) \in Nat /\ Cardinality(D) <= N
      /\ (Cardinality(D) = N => D = Replica)
  <2>1. D \subseteq Replica /\ IsFiniteSet(Replica) /\ Cardinality(Replica) = N
    BY Replicas DEF IInv, N
  <2> HIDE DEF D
  <2> QED BY <2>1, FS_Subset, FS_CardinalityType
<1>5. Cardinality(Flushes(s)) + N - 1 = Cardinality(D) /\ N \in Nat
  BY Replicas, Zenon DEF IInv, BodyInv, BodyOK
<1>6. Cardinality(Flushes(t)) = 0 /\ Cardinality(D) = N
  <2> DEFINE c == Cardinality(Flushes(s))
             e == Cardinality(Flushes(t))
             d == Cardinality(D)
  <2>1. c = e + 1 /\ e \in Nat /\ d \in Nat /\ d <= N /\ c + N - 1 = d /\ N \in Nat
    BY <1>2, <1>3, <1>4, <1>5, Zenon
  <2> HIDE DEF c, e, d
  <2>2. e = 0 /\ d = N
    BY <2>1
  <2> QED BY <2>2 DEF e, d
<1>7. Flushes(t) = {}
  BY <1>3, <1>6, FS_EmptySet, Zenon
<1>8. D = Replica
  BY <1>4, <1>6
<1>9. ASSUME NEW i \in DOMAIN t PROVE t[i].kind = "Terminate"
  <2>1. i + 1 \in DOMAIN s /\ t[i] = s[i + 1] /\ i \in Nat /\ i # 0
        /\ t[i].kind \in {"Item", "FlushAndRestart", "Terminate"}
    <3>1. i + 1 \in DOMAIN s /\ t[i] = s[i + 1] /\ i \in Nat /\ i # 0 /\ t[i] \in Element
      BY <1>1
    <3> HIDE DEF s, t
    <3> QED BY <3>1 DEF Element
  <2>2. t[i].kind # "FlushAndRestart"
    BY <1>7 DEF Flushes
  <2>3. ASSUME s[i + 1].kind = "Item" PROVE FALSE
    <3>1. \/ \E r \in Replica : ~Done(r)
          \/ \E j \in Flushes(s) : i + 1 < j
      BY <2>1, <2>3, Zenon DEF IInv, BodyInv, BodyOK
    <3>2. PICK j \in Flushes(s) : i + 1 < j
      BY <1>8, <3>1, Zenon
    <3>3. j \in Nat /\ j # 1
      BY <1>1, <2>1, <3>2 DEF Flushes
    <3> QED BY <1>2, <1>7, <3>3
  <2> HIDE DEF s, t
  <2> QED BY <2>1, <2>2, <2>3
<1> QED
  BY <1>8, <1>9

\* The record of the Start of the body keeps its type when an iteration ends.
LEMMA RestartTyped ==
    ASSUME NEW s \in [missing_flush : Nat, missing_terminate : Int,
                      wait : BOOLEAN, generation : Nat], N \in Nat
    PROVE  ResetMissing(Restart(s)) \in [missing_flush : Nat, missing_terminate : Int,
                                         wait : BOOLEAN, generation : Nat]
<1>1. s.generation + 2 \in Nat /\ N = Cardinality(Replica)
  BY DEF N
<1> DEFINE Record == [missing_flush : Nat, missing_terminate : Int,
                      wait : BOOLEAN, generation : Nat]
<1>2. ASSUME NEW x \in Record, NEW g \in Nat
      PROVE  [x EXCEPT !.wait = TRUE, !.generation = g] \in Record
  <2>a. \A v \in BOOLEAN : [x EXCEPT !.wait = v] \in Record
    OBVIOUS
  <2>1. [x EXCEPT !.wait = TRUE] \in Record
    <3> HIDE DEF Record
    <3> QED BY <2>a, Zenon
  <2>2. \A y \in Record : [y EXCEPT !.generation = g] \in Record
    OBVIOUS
  <2>3. [[x EXCEPT !.wait = TRUE] EXCEPT !.generation = g] \in Record
    <3> HIDE DEF Record
    <3> QED BY <2>1, <2>2, Zenon
  <2>4. [[x EXCEPT !.wait = TRUE] EXCEPT !.generation = g] = [x EXCEPT !.wait = TRUE, !.generation = g]
    OBVIOUS
  <2> QED BY <2>3, <2>4, Zenon
<1>3. \A x \in Record, n \in Nat : [x EXCEPT !.missing_flush = n] \in Record
  OBVIOUS
<1> HIDE DEF Record
<1>4. s \in Record
  BY DEF Record
<1>5. [s EXCEPT !.wait = TRUE, !.generation = s.generation + 2] \in Record
  BY <1>1, <1>2, <1>4, Zenon
<1>6. Restart(s) \in Record
  BY <1>5, Zenon DEF Restart
<1>7. ResetMissing(Restart(s)) \in Record
  BY <1>1, <1>3, <1>6, Zenon DEF ResetMissing
<1> QED
  BY <1>7 DEF Record

\* The Start of the body counts the FlushAndRestart of the iteration and returns
\* the last one, which ends the iteration for the body.
LEMMA BodyFlushAndRestartInv ==
    ASSUME IInv, NEW b \in Replica, BodyFlushAndRestart(b)
    PROVE  IInv'
<1> USE DEF bodyVars, leaderVars
<1>1. /\ body_channel[b] \in Seq(Element) /\ body_channel[b] # <<>>
      /\ Head(body_channel[b]) = body_channel[b][1] /\ Head(body_channel[b]) \in Element
      /\ Tail(body_channel[b]) \in Seq(Element)
      /\ body_channel[b][1].kind = "FlushAndRestart"
  <2>1. body_channel[b] \in Seq(Element) /\ body_channel[b] # <<>>
    BY TypedAt, Zenon DEF IInv, BodyFlushAndRestart
  <2> QED BY <2>1 DEF BodyFlushAndRestart
<1>2. /\ generation[HostOf[b]] >= body[b].generation
      /\ body_channel[b][1].iter = Current
      /\ body[b].generation = 2 * Current
      /\ Passed(b) = Current
  BY <1>1, BodyReady, Zenon DEF BodyFlushAndRestart
<1>3. IterateInv' /\ ContentInv' /\ HostInv' /\ HostTyped'
      /\ \A q \in Replica : Passed(q)' = Passed(q) /\ Flushed(q)' = Flushed(q)
  BY BodyIndependent, Zenon DEF BodyFlushAndRestart
<1>4. LeaderInv' /\ LeaderTyped'
  BY LeaderFrame, TypedFrame, Zenon DEF IInv, Typed, BodyFlushAndRestart
<1>5. Replica' = Replica /\ HostOf' = HostOf /\ N' = N /\ Current' = Current
  BY Fixed, Zenon DEF Current, BodyFlushAndRestart
<1>6. /\ body \in [Replica -> [missing_flush : Nat, missing_terminate : Int,
                               wait : BOOLEAN, generation : Nat]]
      /\ body_channel \in [Replica -> Seq(Element)] /\ N \in Nat /\ Current \in Nat
      /\ body[b].missing_flush \in 1 .. N
  BY Replicas, TypedAt, Zenon DEF IInv, Typed, BodyTyped, BodyInv, BodyOK
<1>7. CASE ~LastFlush(body[b])
  <2>1. /\ body' = [body EXCEPT ![b] = [body[b] EXCEPT !.missing_flush = body[b].missing_flush - 1,
                                                       !.wait = FALSE]]
        /\ UNCHANGED <<feedback, end_channel>>
        /\ body[b].missing_flush # 1
    BY <1>7, Zenon DEF BodyFlushAndRestart, LastFlush
  <2>2. /\ \A q \in Replica : q # b => body'[q] = body[q]
        /\ body'[b].generation = body[b].generation
        /\ body'[b].missing_flush = body[b].missing_flush - 1
    BY <1>6, <2>1, Zenon
  <2>3. BodyInv'
    <3>1. Takes(b)
      BY <1>1, <2>1, <2>2, Zenon DEF Takes, BodyFlushAndRestart
    <3> QED BY <1>1, <2>2, <3>1, BodyTake, Zenon DEF BodyFlushAndRestart, iterateVars, hostVars
  <2>4. body' \in [Replica -> [missing_flush : Nat, missing_terminate : Int,
                               wait : BOOLEAN, generation : Nat]]
    <3>1. body[b].missing_flush - 1 \in Nat
      BY <1>6
    <3> QED BY <1>6, <2>1, <3>1, Zenon
  <2>5. BodyTyped'
    <3>1. body_channel' \in [Replica -> Seq(Element)]
      BY <1>1, <1>6, Zenon DEF BodyFlushAndRestart
    <3> QED BY <1>5, <2>4, <3>1, Zenon DEF IInv, Typed, BodyTyped, BodyFlushAndRestart
  <2>6. \A q \in Replica : body'[q].generation = body[q].generation
    BY <2>2, Zenon
  <2>7. FeedbackInv'
    <3>1. ASSUME NEW q \in Replica PROVE FeedbackOK(q)'
      BY <1>3, <2>1, <2>6, FeedbackSame, Zenon DEF IInv, FeedbackInv, BodyFlushAndRestart, iterateVars
    <3> QED BY <1>5, <3>1, Zenon DEF FeedbackInv
  <2>8. EndInv'
    <3>1. ASSUME NEW q \in Replica PROVE EndOK(q)'
      <4>1. EndOK(q) /\ end' = end /\ end_channel' = end_channel
        BY <2>1, Zenon DEF IInv, EndInv, BodyFlushAndRestart
      <4> QED BY <1>5, <2>6, <4>1, Zenon DEF EndOK
    <3> QED BY <1>5, <3>1, Zenon DEF EndInv
  <2>9. IterateTyped' /\ EndTyped'
    BY <1>5, <2>1, Zenon DEF IInv, Typed, IterateTyped, EndTyped, BodyFlushAndRestart, iterateVars
  <2> QED BY <1>3, <1>4, <2>3, <2>5, <2>7, <2>8, <2>9 DEF IInv, Typed
<1>8. CASE LastFlush(body[b])
  <2>1. /\ body' = [body EXCEPT ![b] = ResetMissing(Restart(body[b]))]
        /\ SendOn(b, body_channel[b][1])
        /\ body[b].missing_flush = 1
    BY <1>1, <1>8, Zenon DEF BodyFlushAndRestart, LastFlush
  <2>2. /\ \A q \in Replica : q # b => body'[q] = body[q]
        /\ body'[b].generation = 2 * Current + 2
        /\ body'[b].missing_flush = N
        /\ body'[b].wait
    BY <1>2, <1>6, <2>1, Zenon DEF ResetMissing, Restart, N
  <2>3. /\ \A r \in Replica : Done(r)
        /\ \A i \in DOMAIN Tail(body_channel[b]) : Tail(body_channel[b])[i].kind = "Terminate"
    BY <1>1, <1>2, <2>1, LastFlushOfBody, Zenon
  <2>4. \A r \in Replica : Done(r)' <=> Done(r)
    BY <1>3, <1>5, Zenon DEF Done, BodyFlushAndRestart, iterateVars
  <2>5. body_channel'[b] = Tail(body_channel[b]) /\ reading'[b] = None
        /\ \A q \in Replica : q # b => body_channel'[q] = body_channel[q]
        /\ reading' = reading /\ generation' = generation
    BY <1>6, Zenon DEF BodyFlushAndRestart, hostVars
  <2>6. BodyOK(b)'
    <3>1. N \in 1 .. N
      BY <1>6
    <3>2. 2 * Current + 2 # 2 * Current
      BY <1>6
    <3> DEFINE t == Tail(body_channel[b])
    <3>3. body_channel'[b] = t /\ \A i \in DOMAIN t : t[i].kind = "Terminate"
      BY <2>3, <2>5, Zenon
    <3> HIDE DEF t
    <3> QED BY <1>5, <2>2, <2>3, <2>4, <2>5, <3>1, <3>2, <3>3, Zenon DEF BodyOK
  <2>7. ASSUME NEW q \in Replica, q # b PROVE BodyOK(q)'
    <3>1. BodyOK(q)
      BY DEF IInv, BodyInv
    <3> QED BY <1>5, <2>2, <2>4, <2>5, <2>7, <3>1, BodySame, Zenon DEF BodyFlushAndRestart
  <2>8. BodyInv'
    BY <1>5, <2>6, <2>7 DEF BodyInv
  <2>9. /\ FeedbackInv' /\ EndInv' /\ EndTyped'
        /\ feedback' \in [Replica -> Seq(Element)]
    BY <1>1, <1>2, <2>1, <2>2, SendOnInv DEF BodyFlushAndRestart
  <2>10. BodyTyped'
    <3>1. body_channel' \in [Replica -> Seq(Element)]
      BY <1>1, <1>6 DEF BodyFlushAndRestart
    <3>2. ResetMissing(Restart(body[b])) \in [missing_flush : Nat, missing_terminate : Int,
                               wait : BOOLEAN, generation : Nat]
      BY <1>6, RestartTyped, Zenon
    <3>3. body' \in [Replica -> [missing_flush : Nat, missing_terminate : Int,
                               wait : BOOLEAN, generation : Nat]]
      BY <1>6, <2>1, <3>2, Zenon
    <3> QED BY <1>5, <3>1, <3>3, Zenon DEF IInv, Typed, BodyTyped, BodyFlushAndRestart
  <2>11. IterateTyped'
    <3>1. UNCHANGED iterateVars /\ UNCHANGED state_channel /\ IterateTyped
      BY DEF IInv, Typed, BodyFlushAndRestart
    <3> QED BY <1>5, <2>9, <3>1, Zenon DEF IterateTyped, iterateVars
  <2> QED BY <1>3, <1>4, <2>8, <2>9, <2>10, <2>11, Zenon DEF IInv, Typed
<1> QED
  BY <1>7, <1>8

\* The side branch is not part of what the path to IterationEnd relies on.
LEMMA Frame ==
    ASSUME IInv, UNCHANGED <<job, iterateVars, feedback, state_channel, hostVars, body_channel,
                             bodyVars, end_channel, end, leader_channel, leaderVars>>
    PROVE  IInv'
<1> USE DEF bodyVars, leaderVars
<1>1. IterateInv' /\ ContentInv' /\ HostInv' /\ HostTyped'
      /\ \A q \in Replica : Passed(q)' = Passed(q) /\ Flushed(q)' = Flushed(q)
  BY BodyIndependent
<1>2. BodyInv'
  <2>1. \A r \in Replica : Done(r)' <=> Done(r)
    BY <1>1 DEF Done, Current, iterateVars
  <2> QED BY <2>1, BodyFrame DEF IInv, hostVars
<1>3. FeedbackInv'
  BY FeedbackFrame, Zenon DEF IInv, iterateVars
<1>4. EndInv' /\ LeaderInv'
  BY EndFrame, LeaderFrame, Zenon DEF IInv
<1>5. IterateTyped'
  BY Fixed, Zenon DEF IInv, Typed, IterateTyped, iterateVars
<1>6. BodyTyped' /\ EndTyped' /\ LeaderTyped'
  BY TypedFrame, Zenon DEF IInv, Typed
<1> QED
  BY <1>1, <1>2, <1>3, <1>4, <1>5, <1>6, Zenon DEF IInv, Typed

\* The steps of the side branch.
LEMMA SideInv ==
    ASSUME IInv, NEW b \in Replica, SideNext(b)
    PROVE  IInv'
  BY Frame, Zenon DEF SideNext, SideItem, SideReceive, SideReturn, SideFlushAndRestart, SideTerminate

\* The Start of the body counts the Terminate of the replicas of Iterate; the
\* last one goes to the block of IterationEnd.
LEMMA BodyTerminateInv ==
    ASSUME IInv, NEW b \in Replica, BodyTerminate(b)
    PROVE  IInv'
<1> USE DEF bodyVars, leaderVars
<1>1. /\ body_channel[b] \in Seq(Element) /\ body_channel[b] # <<>>
      /\ Tail(body_channel[b]) \in Seq(Element)
      /\ body_channel[b][1].kind = "Terminate"
  <2>1. body_channel[b] \in Seq(Element) /\ body_channel[b] # <<>>
    BY TypedAt, Zenon DEF IInv, BodyTerminate
  <2> QED BY <2>1 DEF BodyTerminate
<1>2. /\ body \in [Replica -> [missing_flush : Nat, missing_terminate : Int,
                               wait : BOOLEAN, generation : Nat]]
      /\ body_channel \in [Replica -> Seq(Element)]
      /\ end_channel \in [Replica -> Seq(Element)]
  BY Zenon DEF IInv, Typed, BodyTyped, EndTyped
<1>3. body' = [body EXCEPT ![b] = [body[b] EXCEPT !.missing_terminate = body[b].missing_terminate - 1,
                                                  !.wait = FALSE]]
  BY Zenon DEF BodyTerminate
<1>4. /\ \A q \in Replica : q # b => body'[q] = body[q]
      /\ body'[b].generation = body[b].generation
      /\ body'[b].missing_flush = body[b].missing_flush
  BY <1>2, <1>3
<1>5. BodyInv'
  <2>1. Takes(b)
    BY <1>1, <1>4, Zenon DEF Takes, BodyTerminate
  <2> QED BY <1>1, <1>4, <2>1, BodyTake, Zenon DEF BodyTerminate, iterateVars, hostVars
<1>6. IterateInv' /\ ContentInv' /\ HostInv' /\ HostTyped'
      /\ \A q \in Replica : Passed(q)' = Passed(q)
  BY BodyIndependent, Zenon DEF BodyTerminate
<1>7. Replica' = Replica /\ Current' = Current
  BY Fixed, Zenon DEF Current, BodyTerminate
<1>8. \A q \in Replica : body'[q].generation = body[q].generation
  BY <1>4
<1>9. BodyTyped'
  <2>1. body' \in [Replica -> [missing_flush : Nat, missing_terminate : Int,
                               wait : BOOLEAN, generation : Nat]]
    <3>1. body[b].missing_terminate - 1 \in Int
      BY <1>2
    <3> DEFINE Record == [missing_flush : Nat, missing_terminate : Int,
                          wait : BOOLEAN, generation : Nat]
    <3>2. \A n \in Int, v \in BOOLEAN :
             [body[b] EXCEPT !.missing_terminate = n, !.wait = v] \in Record
      <4>1. \A x \in Record, n \in Int : [x EXCEPT !.missing_terminate = n] \in Record
        OBVIOUS
      <4>2. \A x \in Record, v \in BOOLEAN : [x EXCEPT !.wait = v] \in Record
        OBVIOUS
      <4>3. body[b] \in Record
        BY <1>2
      <4>4. ASSUME NEW n \in Int, NEW v \in BOOLEAN
            PROVE  [body[b] EXCEPT !.missing_terminate = n, !.wait = v]
                     = [[body[b] EXCEPT !.missing_terminate = n] EXCEPT !.wait = v]
        OBVIOUS
      <4> HIDE DEF Record
      <4>5. \A n \in Int, v \in BOOLEAN :
               [[body[b] EXCEPT !.missing_terminate = n] EXCEPT !.wait = v] \in Record
        BY <4>1, <4>2, <4>3, Zenon
      <4> QED BY <4>4, <4>5, Zenon
    <3>3. body \in [Replica -> Record]
      BY <1>2
    <3> HIDE DEF Record
    <3>4. [body[b] EXCEPT !.missing_terminate = body[b].missing_terminate - 1, !.wait = FALSE] \in Record
      BY <3>1, <3>2, Zenon
    <3>5. \A x \in Record : [body EXCEPT ![b] = x] \in [Replica -> Record]
      BY <3>3
    <3>6. body' \in [Replica -> Record]
      BY <1>3, <3>4, <3>5, Zenon
    <3> QED BY <3>6, Zenon DEF Record
  <2>2. body_channel' \in [Replica -> Seq(Element)]
    BY <1>1, <1>2 DEF BodyTerminate
  <2> QED BY <1>7, <2>1, <2>2, Zenon DEF IInv, Typed, BodyTyped, BodyTerminate
<1>10. IterateTyped'
  BY <1>7, Zenon DEF IInv, Typed, IterateTyped, BodyTerminate, iterateVars
<1>11. FeedbackInv'
  <2>1. UNCHANGED <<pc, iter, feedback, feedback_content>> /\ FeedbackInv
    BY DEF IInv, BodyTerminate, iterateVars
  <2> QED BY <1>6, <1>7, <1>8, <2>1 DEF FeedbackInv, FeedbackOK
<1>12. LeaderInv' /\ LeaderTyped'
  BY LeaderFrame, TypedFrame, Zenon DEF IInv, Typed, BodyTerminate
<1>13. ASSUME NEW q \in Replica
       PROVE  /\ EndOK(q)'
              /\ end_channel' \in [Replica -> Seq(Element)]
  <2>1. Terminate \in Element /\ Terminate.kind = "Terminate"
    BY DEF Terminate, Element, NoId
  <2>2. \/ end_channel' = [end_channel EXCEPT ![b] = Append(@, Terminate)]
        \/ end_channel' = end_channel
    BY Zenon DEF BodyTerminate
  <2>3. end_channel' \in [Replica -> Seq(Element)]
    <3>1. Append(end_channel[b], Terminate) \in Seq(Element)
      BY <1>2, <2>1
    <3>2. [end_channel EXCEPT ![b] = Append(@, Terminate)] \in [Replica -> Seq(Element)]
      BY <1>2, <3>1
    <3> QED BY <1>2, <2>2, <3>2, Zenon
  <2>4. EndOK(q) /\ end' = end
    BY Zenon DEF IInv, EndInv, BodyTerminate
  <2>5. CASE end_channel'[q] = end_channel[q]
    BY <1>7, <1>8, <2>3, <2>4, <2>5, Zenon DEF EndOK
  <2>6. CASE end_channel'[q] = Append(end_channel[q], Terminate)
    <3> DEFINE s == end_channel[q]
               t == end_channel'[q]
    <3>1. /\ DOMAIN t = 1 .. Len(s) + 1 /\ Len(s) \in Nat
          /\ DOMAIN s = 1 .. Len(s)
          /\ \A i \in 1 .. Len(s) : t[i] = s[i]
          /\ t[Len(s) + 1] = Terminate
      BY <1>2, <2>6
    <3>2. Flushes(t) = Flushes(s)
      BY <1>2, <2>1, <2>6, FlushesAppend
    <3>3. \A i \in DOMAIN t : i \in DOMAIN s \/ t[i].kind = "Terminate"
      BY <2>1, <3>1
    <3>4. \A i \in DOMAIN s : t[i] = s[i]
      BY <3>1, Zenon
    <3> HIDE DEF s, t
    <3>5. end_channel[q] = s /\ end_channel'[q] = t
      BY Zenon DEF s, t
    <3> QED BY <1>7, <1>8, <2>3, <2>4, <3>2, <3>3, <3>4, <3>5 DEF EndOK
  <2> QED BY <1>2, <2>2, <2>5, <2>6, Zenon
<1>14. EndInv' /\ EndTyped'
  BY <1>7, <1>13, Zenon DEF EndInv, IInv, Typed, EndTyped, BodyTerminate
<1> QED
  BY <1>5, <1>6, <1>9, <1>10, <1>11, <1>12, <1>14 DEF IInv, Typed
===============================================================================
