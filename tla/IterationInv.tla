----------------------------- MODULE IterationInv -----------------------------
(***************************************************************************)
(* The inductive invariant of the loop of Stream::iterate, for every       *)
(* placement of the replicas on hosts, every input and every number of     *)
(* iterations, and that the steps of Iterate keep it.                      *)
(***************************************************************************)
EXTENDS Iteration, TLAPS, FiniteSetTheorems, WellFoundedInduction

-----------------------------------------------------------------------------
(* The inductive invariant *)

Element == [kind : {"Item", "FlushAndRestart", "Terminate"}, id : Nat, iter : Nat]
StateFeedback == [continue : BOOLEAN, state : Nat]
Delta == [kind : {"Delta", "Terminate"}, sender : Replica, iter : Nat]

IterateTyped ==
    /\ pc \in [Replica -> {"run", "wait_update", "set", "barrier", "unlock",
                           "resume", "terminated"}]
    /\ input \in [Replica -> Seq(Seq(Element))]
    /\ input_stash \in [Replica -> Seq(Element)]
    /\ input_finished \in [Replica -> BOOLEAN]
    /\ content \in [Replica -> Seq(Element)]
    /\ feedback_content \in [Replica -> Seq(Element)]
    /\ update \in [Replica -> StateFeedback]
    /\ iter \in [Replica -> Nat]
    /\ feedback \in [Replica -> Seq(Element)]
    /\ state_channel \in [Replica -> Seq(StateFeedback)]
HostTyped ==
    /\ job \in Jobs
    /\ cell \in [Host -> Nat]
    /\ generation \in [Host -> Nat]
BodyTyped ==
    /\ body_channel \in [Replica -> Seq(Element)]
    /\ body \in [Replica -> [missing_flush : Nat, missing_terminate : Int,
                             wait : BOOLEAN, generation : Nat]]
    /\ reading \in [Replica -> Element \cup {None}]
EndTyped ==
    /\ end_channel \in [Replica -> Seq(Element)]
    /\ end \in [Replica -> [folding : BOOLEAN, wait : BOOLEAN, generation : Nat,
                            terminated : BOOLEAN]]
LeaderTyped ==
    /\ leader_channel \in Seq(Delta)
    /\ leader \in [missing_updates : Int, missing_terminate : Int,
                   iteration_index : Nat, state : Nat]
    /\ folded \in Seq(Delta)
Typed == IterateTyped /\ HostTyped /\ BodyTyped /\ EndTyped /\ LeaderTyped

\* the iteration that is running: how many the leader has decided on
Current == leader.state

\* r is past the barrier of its host
Past(r) == pc[r] \in {"unlock", "resume"}
Passed(r) == IF Past(r) THEN iter[r] + 1 ELSE iter[r]

\* r has sent the FlushAndRestart of its iteration
Flushed(r) ==
    \/ pc[r] \in {"wait_update", "set", "barrier", "unlock", "resume"}
    \/ pc[r] = "run" /\ input_finished[r] /\ content[r] = <<>>

\* it is the one of the running iteration
Done(r) == iter[r] = Current /\ Flushed(r)

\* A replica of Iterate is in the running iteration, or it has finished the one
\* before and the decision of the leader is on its way to it, or applied by it.
IterateOK(r) ==
    \/ /\ iter[r] = Current
       /\ state_channel[r] = <<>>
       /\ pc[r] \in {"run", "wait_update", "terminated"}
    \/ /\ iter[r] + 1 = Current
       /\ Flushed(r)
       /\ \/ /\ pc[r] \in {"run", "wait_update"}
             /\ Len(state_channel[r]) = 1
             /\ state_channel[r][1].state = Current
          \/ /\ pc[r] \in {"set", "barrier", "unlock", "resume"}
             /\ state_channel[r] = <<>>
             /\ update[r].state = Current
IterateInv == \A r \in Replica : IterateOK(r)

\* The content ends with its only FlushAndRestart; it is filled by the swap.
ContentOK(r) ==
    /\ content[r] # <<>> => input_finished[r]
    /\ \A i \in DOMAIN content[r] :
          content[r][i].kind = "FlushAndRestart" <=> i = Len(content[r])
    /\ pc[r] \notin {"run", "terminated"} =>
          content[r] # <<>> /\ feedback_content[r] = <<>>
ContentInv == \A r \in Replica : ContentOK(r)

\* The barrier keeps the replicas of a host together, and its first replica
\* writes the cell and the generation of the lock.
HostOK(r) ==
    /\ \A q \in Replica : HostOf[q] = HostOf[r] => Passed(q) = Passed(r)
    /\ pc[r] \in {"set", "unlock"} => IsLocalLeader(r)
    /\ IsLocalLeader(r) =>
          LET known == IF pc[r] = "resume" THEN iter[r] + 1 ELSE iter[r]
          IN  /\ cell[HostOf[r]] = IF pc[r] \in {"barrier", "unlock", "resume"}
                                   THEN iter[r] + 1 ELSE iter[r]
              /\ generation[HostOf[r]] \in {2 * known, 2 * known + 1}
              /\ Flushed(r) /\ pc[r] # "resume" =>
                    generation[HostOf[r]] = 2 * known + 1
HostInv == \A r \in Replica : HostOK(r)

\* the places of the FlushAndRestart in a channel
Flushes(s) == {i \in DOMAIN s : s[i].kind = "FlushAndRestart"}

\* The body has finished the iterations before the running one, and perhaps
\* that one.  Its Start counts the FlushAndRestart of the running iteration;
\* behind every element there is one, or some replica has still to send it.
BodyOK(b) ==
    /\ body[b].generation \in {2 * Current, 2 * Current + 2}
    /\ body[b].missing_flush \in 1 .. N
    /\ ~body[b].wait => generation[HostOf[b]] >= body[b].generation
    /\ reading[b] # None => /\ reading[b].kind = "Item"
                            /\ reading[b].iter = Current
                            /\ body[b].generation = 2 * Current
                            /\ generation[HostOf[b]] >= 2 * Current
    /\ \A i \in DOMAIN body_channel[b] :
          body_channel[b][i].kind # "Terminate" =>
             body_channel[b][i].iter = Current /\ body[b].generation = 2 * Current
    /\ body[b].generation = 2 * Current + 2 =>
          body[b].missing_flush = N /\ \A r \in Replica : Done(r)
    /\ body[b].generation = 2 * Current =>
          Cardinality(Flushes(body_channel[b])) + N - body[b].missing_flush
            = Cardinality({r \in Replica : Done(r)})
    /\ \A i \in DOMAIN body_channel[b] :
          body_channel[b][i].kind = "Item" =>
             \/ \E r \in Replica : ~Done(r)
             \/ \E j \in Flushes(body_channel[b]) : i < j
BodyInv == \A b \in Replica : BodyOK(b)

\* What comes back to a replica of Iterate is of the iteration for which it
\* has passed the barrier, and ends with the FlushAndRestart of it.
FeedbackOK(r) ==
    /\ \A i \in DOMAIN feedback[r] :
          /\ feedback[r][i].kind # "Terminate"
          /\ feedback[r][i].iter = Passed(r)
          /\ feedback[r][i].kind = "FlushAndRestart" =>
                i = Len(feedback[r]) /\ body[r].generation = 2 * Passed(r) + 2
    /\ \A i \in DOMAIN feedback_content[r] :
          /\ feedback_content[r][i].kind # "Terminate"
          /\ feedback_content[r][i].iter = iter[r]
          /\ feedback_content[r][i].kind = "FlushAndRestart" =>
                /\ i = Len(feedback_content[r])
                /\ feedback[r] = <<>>
                /\ body[r].generation = 2 * iter[r] + 2
    /\ pc[r] \in {"wait_update", "set", "barrier"} =>
          feedback[r] = <<>> /\ body[r].generation = 2 * iter[r] + 2
FeedbackInv == \A r \in Replica : FeedbackOK(r)

\* The block of IterationEnd follows the body.
EndOK(e) ==
    /\ end[e].generation \in {2 * Current, 2 * Current + 2}
    /\ end[e].generation <= body[e].generation
    /\ \A i \in DOMAIN end_channel[e] :
          end_channel[e][i].kind # "Terminate" =>
             /\ end_channel[e][i].iter = Current
             /\ end[e].generation = 2 * Current
    /\ \A i \in Flushes(end_channel[e]) :
          /\ body[e].generation = 2 * Current + 2
          /\ \A j \in DOMAIN end_channel[e] : i < j => end_channel[e][j].kind = "Terminate"
EndInv == \A e \in Replica : EndOK(e)

\* A replica sends one delta update in an iteration, the one that ends it.
DeltaOf(d) == d.iter = Current /\ end[d.sender].generation = 2 * Current + 2

LeaderInv ==
    /\ leader.missing_updates = N - Len(folded)
    /\ Len(folded) < N \/ N = 0
    /\ \A i \in DOMAIN folded :
          /\ DeltaOf(folded[i])
          /\ \A j \in DOMAIN folded : i # j => folded[i].sender # folded[j].sender
    /\ \A i \in DOMAIN leader_channel : leader_channel[i].kind = "Delta" =>
          /\ DeltaOf(leader_channel[i])
          /\ \A j \in DOMAIN leader_channel :
                i # j /\ leader_channel[j].kind = "Delta" =>
                    leader_channel[i].sender # leader_channel[j].sender
          /\ \A j \in DOMAIN folded : leader_channel[i].sender # folded[j].sender

IInv == Typed /\ IterateInv /\ ContentInv /\ HostInv /\ BodyInv /\ FeedbackInv /\ EndInv
           /\ LeaderInv

\* time limits of the provers
USE SMTT(20), ZenonT(20)

-----------------------------------------------------------------------------
(* The replicas and their hosts *)

\* A sequence of length 0 is empty.
LEMMA EmptySeq == ASSUME NEW S, NEW s \in Seq(S), Len(s) = 0 PROVE s = <<>>
  OBVIOUS

\* A nonempty set of natural numbers has a smallest element.
LEMMA SmallestNat ==
    ASSUME NEW T, T \subseteq Nat, T # {}
    PROVE  \E x \in T : \A y \in T : x <= y
<1> DEFINE R == {ss \in Nat \X Nat : ss[1] < ss[2]}
<1>1. IsWellFoundedOn(R, Nat)
  BY NatLessThanWellFounded, Zenon DEF OpToRel
<1>2. \E x \in T : \A y \in T : ~ (<<y, x>> \in R)
  <2> HIDE DEF R
  <2> QED BY <1>1, WFMin, Zenon
<1>3. PICK x \in T : \A y \in T : ~ (<<y, x>> \in R)
  BY <1>2
<1>4. ASSUME NEW y \in T PROVE x <= y
  <2>1. y < x => <<y, x>> \in R
    OBVIOUS
  <2> HIDE DEF R
  <2> QED BY <1>3, <2>1
<1> QED
  BY <1>4

\* The replicas are numbered, so that there are finitely many of them.
LEMMA Replicas ==
    ASSUME Typed
    PROVE  /\ Replica \subseteq Nat
           /\ IsFiniteSet(Replica)
           /\ N \in Nat
           /\ \A r \in Replica : HostOf[r] \in Host
<1>1. job.hostOf \in Seq(Host)
  BY JobsAssumption DEF Typed, HostTyped, JobOk
<1>2. Replica = 1 .. Len(job.hostOf) /\ Len(job.hostOf) \in Nat
  BY <1>1 DEF Replica
<1>3. IsFiniteSet(Replica)
  <2>1. 1 \in Int /\ Len(job.hostOf) \in Int
    BY <1>2
  <2> QED BY <1>2, <2>1, FS_Interval, Zenon
<1>4. N \in Nat
  BY <1>3, FS_CardinalityType DEF N
<1> QED
  BY <1>1, <1>2, <1>3, <1>4 DEF HostOf

\* The types, at a replica.
LEMMA TypedAt ==
    ASSUME Typed, NEW r \in Replica
    PROVE  /\ Current \in Nat /\ iter[r] \in Nat
           /\ input_finished[r] \in BOOLEAN
           /\ input[r] \in Seq(Seq(Element)) /\ input_stash[r] \in Seq(Element)
           /\ content[r] \in Seq(Element) /\ feedback_content[r] \in Seq(Element)
           /\ update[r].state \in Nat /\ state_channel[r] \in Seq(StateFeedback)
           /\ feedback[r] \in Seq(Element) /\ body_channel[r] \in Seq(Element)
           /\ end_channel[r] \in Seq(Element)
           /\ cell[HostOf[r]] \in Nat /\ generation[HostOf[r]] \in Nat
           /\ body[r].missing_flush \in Nat /\ body[r].generation \in Nat
           /\ body[r].wait \in BOOLEAN
           /\ end[r].generation \in Nat
<1>1. HostOf[r] \in Host
  BY Replicas
<1>2. /\ iter[r] \in Nat
      /\ input_finished[r] \in BOOLEAN
      /\ input[r] \in Seq(Seq(Element)) /\ input_stash[r] \in Seq(Element)
      /\ content[r] \in Seq(Element) /\ feedback_content[r] \in Seq(Element)
      /\ update[r].state \in Nat /\ state_channel[r] \in Seq(StateFeedback)
      /\ feedback[r] \in Seq(Element)
  BY DEF Typed, IterateTyped, StateFeedback
<1> QED
  BY <1>1, <1>2, Zenon DEF Typed, HostTyped, BodyTyped, EndTyped, LeaderTyped, Current

\* select_leader finds a replica of the host.
LEMMA LeaderOfHost ==
    ASSUME Typed, NEW r \in Replica
    PROVE  \E l \in Replica : HostOf[l] = HostOf[r] /\ IsLocalLeader(l)
<1> DEFINE h == HostOf[r]
<1>1. Local(h) \subseteq Nat /\ Local(h) # {}
  BY Replicas DEF Local
<1>2. \E l \in Local(h) : \A q \in Local(h) : l <= q
  BY <1>1, SmallestNat, Zenon
<1>3. LocalLeader(h) \in Local(h)
  BY <1>2, Zenon DEF LocalLeader
<1>4. LocalLeader(h) \in Replica /\ HostOf[LocalLeader(h)] = h
  BY <1>3 DEF Local
<1> QED
  BY <1>4 DEF IsLocalLeader

\* A host whose generation has reached the running iteration has passed the
\* barrier for it.
LEMMA PassedBarrier ==
    ASSUME Typed, IterateInv, HostInv, NEW b \in Replica,
           generation[HostOf[b]] >= 2 * Current
    PROVE  Passed(b) = Current
<1>1. PICK l \in Replica : HostOf[l] = HostOf[b] /\ IsLocalLeader(l)
  BY LeaderOfHost
<1>2. Current \in Nat /\ iter[l] \in Nat /\ iter[b] \in Nat
  BY <1>1, TypedAt
<1>3. IF pc[l] = "resume" THEN generation[HostOf[b]] <= 2 * (iter[l] + 1) + 1
                          ELSE generation[HostOf[b]] <= 2 * iter[l] + 1
  BY <1>1, <1>2 DEF HostInv, HostOK
<1>4. iter[l] = Current \/ pc[l] = "resume"
  <2>1. generation[HostOf[b]] \in Nat
    BY TypedAt
  <2> QED BY <1>2, <1>3, <2>1 DEF IterateInv, IterateOK
<1>5. Passed(l) = Current
  BY <1>4 DEF IterateInv, IterateOK, Passed, Past
<1> QED
  BY <1>1, <1>5 DEF HostInv, HostOK

-----------------------------------------------------------------------------
(* The places of the FlushAndRestart *)

\* A channel holds finitely many FlushAndRestart.
LEMMA FlushesFinite ==
    ASSUME NEW s \in Seq(Element)
    PROVE  IsFiniteSet(Flushes(s)) /\ Cardinality(Flushes(s)) \in Nat
<1>1. Flushes(s) \subseteq 1 .. Len(s) /\ Len(s) \in Nat
  BY DEF Flushes
<1>2. 1 \in Int /\ Len(s) \in Int
  BY <1>1
<1>3. IsFiniteSet(1 .. Len(s))
  BY <1>2, FS_Interval, Zenon
<1> QED
  BY <1>1, <1>3, FS_Subset, FS_CardinalityType

\* Sending adds at most one of them.
LEMMA FlushesAppend ==
    ASSUME NEW s \in Seq(Element), NEW el \in Element
    PROVE  /\ el.kind = "FlushAndRestart" =>
                 /\ Flushes(Append(s, el)) = Flushes(s) \cup {Len(s) + 1}
                 /\ Cardinality(Flushes(Append(s, el))) = Cardinality(Flushes(s)) + 1
           /\ el.kind # "FlushAndRestart" => Flushes(Append(s, el)) = Flushes(s)
<1>1. el.kind = "FlushAndRestart" => Flushes(Append(s, el)) = Flushes(s) \cup {Len(s) + 1}
  BY DEF Flushes
<1>2. el.kind # "FlushAndRestart" => Flushes(Append(s, el)) = Flushes(s)
  BY DEF Flushes
<1>3. Len(s) + 1 \notin Flushes(s)
  BY DEF Flushes
<1>4. Cardinality(Flushes(s) \cup {Len(s) + 1}) = Cardinality(Flushes(s)) + 1
  BY <1>3, FlushesFinite, FS_AddElement, Zenon
<1> QED
  BY <1>1, <1>2, <1>4, Zenon

\* Receiving takes away at most one of them.
LEMMA FlushesTail ==
    ASSUME NEW s \in Seq(Element), s # <<>>
    PROVE  /\ \A i \in Flushes(Tail(s)) : i + 1 \in Flushes(s)
           /\ \A i \in Flushes(s) : i # 1 => i - 1 \in Flushes(Tail(s))
           /\ Cardinality(Flushes(s)) = Cardinality(Flushes(Tail(s)))
                    + (IF Head(s).kind = "FlushAndRestart" THEN 1 ELSE 0)
<1> DEFINE F == Flushes(s)
           G == Flushes(Tail(s))
           H == F \ {1}
           f == [i \in G |-> i + 1]
<1>1. /\ Len(s) \in Nat /\ Len(s) > 0 /\ Tail(s) \in Seq(Element)
      /\ Len(Tail(s)) = Len(s) - 1
      /\ \A i \in 1 .. Len(s) - 1 : Tail(s)[i] = s[i + 1]
      /\ Head(s) = s[1]
  OBVIOUS
<1>2. \A i \in G : i \in Nat /\ i + 1 \in F /\ i # 0
  BY <1>1 DEF Flushes
<1>3. \A i \in F : i \in Nat /\ (i # 1 => i - 1 \in G)
  BY <1>1 DEF Flushes
<1>4. 1 \in F <=> Head(s).kind = "FlushAndRestart"
  BY <1>1 DEF Flushes
<1>5. IsFiniteSet(F) /\ IsFiniteSet(G) /\ IsFiniteSet(H)
      /\ Cardinality(F) \in Nat /\ Cardinality(G) \in Nat /\ Cardinality(H) \in Nat
  BY <1>1, FlushesFinite, FS_Subset, FS_CardinalityType, Zenon
<1>6. f \in Bijection(G, H)
  <2> HIDE DEF F, G
  <2>1. f \in [G -> H]
    BY <1>2
  <2>2. \A i, j \in G : f[i] = f[j] => i = j
    BY <1>2
  <2>3. \A k \in H : \E i \in G : f[i] = k
    BY <1>3
  <2> HIDE DEF f
  <2> QED BY <2>1, <2>2, <2>3 DEF Bijection, Injection, Surjection, IsInjective
<1>7. Cardinality(G) = Cardinality(H)
  <2> HIDE DEF F, G, H, f
  <2> QED BY <1>5, <1>6, FS_Bijection DEF ExistsBijection
<1>8. Cardinality(F) = Cardinality(H) + (IF 1 \in F THEN 1 ELSE 0)
  <2> HIDE DEF F
  <2> QED BY <1>5, FS_RemoveElement
<1> HIDE DEF F, G, H, f
<1>9. Cardinality(F) = Cardinality(G) + (IF Head(s).kind = "FlushAndRestart" THEN 1 ELSE 0)
  BY <1>4, <1>5, <1>7, <1>8
<1> QED
  BY <1>2, <1>3, <1>9 DEF F, G

-----------------------------------------------------------------------------
(* What a step leaves alone *)

\* The job is fixed.
LEMMA Fixed ==
    ASSUME job' = job
    PROVE  /\ Replica' = Replica /\ HostOf' = HostOf /\ N' = N
           /\ \A r : IsLocalLeader(r)' <=> IsLocalLeader(r)
  BY DEF Replica, HostOf, N, IsLocalLeader, LocalLeader, Local

\* The generation of a lock never decreases.
LEMMA GenerationGrows ==
    ASSUME Typed,
           generation' = generation \/ \E h \in Host : generation' = [generation EXCEPT ![h] = @ + 1],
           NEW b \in Replica, NEW n \in Nat, generation[HostOf[b]] >= n
    PROVE  generation'[HostOf[b]] >= n
<1>1. HostOf[b] \in Host /\ generation \in [Host -> Nat]
  BY Replicas DEF Typed, HostTyped
<1>2. generation'[HostOf[b]] \in {generation[HostOf[b]], generation[HostOf[b]] + 1}
  BY <1>1
<1> QED
  BY <1>1, <1>2

\* What the body knows stays when nothing it looks at changes.
LEMMA BodyFrame ==
    ASSUME Typed, BodyInv,
           UNCHANGED <<job, leader, body, reading, body_channel>>,
           generation' = generation \/ \E h \in Host : generation' = [generation EXCEPT ![h] = @ + 1],
           \A r \in Replica : Done(r)' <=> Done(r)
    PROVE  BodyInv'
<1>1. Replica' = Replica /\ HostOf' = HostOf /\ N' = N /\ Current' = Current
  BY Fixed DEF Current
<1>2. {r \in Replica' : Done(r)'} = {r \in Replica : Done(r)}
  BY <1>1
<1>3. ASSUME NEW b \in Replica
      PROVE  BodyOK(b)'
  <2>1. body[b].generation \in Nat /\ 2 * Current \in Nat
    BY TypedAt
  <2>2. /\ generation[HostOf[b]] >= body[b].generation => generation'[HostOf[b]] >= body[b].generation
        /\ generation[HostOf[b]] >= 2 * Current => generation'[HostOf[b]] >= 2 * Current
    BY <2>1, GenerationGrows, Zenon
  <2>3. BodyOK(b)
    BY DEF BodyInv
  <2> QED BY <1>1, <1>2, <2>2, <2>3, Zenon DEF BodyOK
<1> QED
  BY <1>1, <1>3 DEF BodyInv

\* What the block of IterationEnd knows stays when nothing it looks at changes.
LEMMA EndFrame ==
    ASSUME EndInv, UNCHANGED <<job, leader, body, end, end_channel>>
    PROVE  EndInv'
  BY DEF EndInv, EndOK, Replica, Current, Flushes

\* The same of the leader.
LEMMA LeaderFrame ==
    ASSUME LeaderInv, UNCHANGED <<job, leader, folded, end, leader_channel>>
    PROVE  LeaderInv'
  BY Fixed DEF LeaderInv, DeltaOf, Current

\* What is known of one replica of Iterate stays when nothing it speaks of
\* changes.
LEMMA IterateSame ==
    ASSUME NEW q \in Replica, IterateOK(q), Current' = Current,
           pc'[q] = pc[q], iter'[q] = iter[q], Flushed(q)' = Flushed(q),
           state_channel'[q] = state_channel[q], update'[q] = update[q]
    PROVE  IterateOK(q)'
  BY Zenon DEF IterateOK

\* The same of its content, also when it goes on in the update of the state.
LEMMA ContentSame ==
    ASSUME NEW q \in Replica, ContentOK(q),
           pc'[q] \notin {"run", "terminated"} => pc[q] \notin {"run", "terminated"},
           content'[q] = content[q], input_finished'[q] = input_finished[q],
           feedback_content'[q] = feedback_content[q]
    PROVE  ContentOK(q)'
  BY Zenon DEF ContentOK

\* The same of what it knows of its host.
LEMMA HostSame ==
    ASSUME NEW q \in Replica, HostOK(q), job' = job,
           \A p \in Replica : Passed(p)' = Passed(p),
           pc'[q] = pc[q], iter'[q] = iter[q], Flushed(q)' = Flushed(q),
           IsLocalLeader(q) => /\ cell'[HostOf[q]] = cell[HostOf[q]]
                               /\ generation'[HostOf[q]] = generation[HostOf[q]]
    PROVE  HostOK(q)'
  BY Fixed, Zenon DEF HostOK

\* The same of what comes back to it.
LEMMA FeedbackSame ==
    ASSUME NEW q \in Replica, FeedbackOK(q), Passed(q)' = Passed(q), iter'[q] = iter[q],
           feedback'[q] = feedback[q], feedback_content'[q] = feedback_content[q],
           body'[q].generation = body[q].generation,
           pc'[q] \in {"wait_update", "set", "barrier"} => pc[q] \in {"wait_update", "set", "barrier"}
    PROVE  FeedbackOK(q)'
  BY Zenon DEF FeedbackOK

\* A step that leaves Iterate and the iteration state alone.
LEMMA HostFrame ==
    ASSUME HostInv, UNCHANGED <<job, pc, iter, cell, generation>>,
           \A q \in Replica : Passed(q)' = Passed(q) /\ Flushed(q)' = Flushed(q)
    PROVE  HostInv'
<1>1. ASSUME NEW q \in Replica PROVE HostOK(q)'
  BY HostSame, Zenon DEF HostInv
<1> QED
  BY <1>1, Fixed, Zenon DEF HostInv

\* A step that leaves Iterate, the feedback and the body alone.
LEMMA FeedbackFrame ==
    ASSUME FeedbackInv, UNCHANGED <<job, pc, iter, feedback, feedback_content, body>>
    PROVE  FeedbackInv'
<1>1. \A q \in Replica : Passed(q)' = Passed(q)
  BY Zenon DEF Passed, Past
<1>2. ASSUME NEW q \in Replica PROVE FeedbackOK(q)'
  BY <1>1, FeedbackSame, Zenon DEF FeedbackInv
<1> QED
  BY <1>2, Fixed, Zenon DEF FeedbackInv

\* The parts of the type invariant that a step leaves alone.
LEMMA TypedFrame ==
    ASSUME job' = job
    PROVE  /\ HostTyped /\ UNCHANGED <<cell, generation>> => HostTyped'
           /\ BodyTyped /\ UNCHANGED <<body_channel, body, reading>> => BodyTyped'
           /\ EndTyped /\ UNCHANGED <<end_channel, end>> => EndTyped'
           /\ LeaderTyped /\ UNCHANGED <<leader_channel, leader, folded>> => LeaderTyped'
  BY Zenon DEF HostTyped, BodyTyped, EndTyped, LeaderTyped, Replica, Delta

-----------------------------------------------------------------------------
(* Iterate *)

\* Iterate receives a batch of the previous block.
LEMMA ReceiveInputInv ==
    ASSUME IInv, NEW r \in Replica, ReceiveInput(r)
    PROVE  IInv'
<1> USE DEF hostVars, bodyVars, leaderVars
<1>1. Typed'
  <2>a. Head(input[r]) \in Seq(Element) /\ Tail(input[r]) \in Seq(Seq(Element))
    BY TypedAt DEF IInv, ReceiveInput
  <2>1. input_stash[r] \o Head(input[r]) \in Seq(Element) /\ Tail(input[r]) \in Seq(Seq(Element))
    BY <2>a, TypedAt DEF IInv
  <2>2. IterateTyped'
    BY <2>1, Zenon DEF IInv, Typed, IterateTyped, ReceiveInput, Replica
  <2> QED BY <2>2, TypedFrame, Zenon DEF IInv, Typed, ReceiveInput
<1>2. IterateInv' /\ ContentInv'
  BY DEF IInv, IterateInv, ContentInv, IterateOK, ContentOK, ReceiveInput, Replica, Flushed, Current
<1>3. HostInv'
  BY HostFrame, Zenon DEF IInv, ReceiveInput, Flushed, Passed, Past
<1>4. BodyInv'
  BY BodyFrame, Zenon DEF IInv, ReceiveInput, Done, Flushed, Current
<1>5. FeedbackInv'
  BY FeedbackFrame, Zenon DEF IInv, ReceiveInput
<1>6. EndInv' /\ LeaderInv'
  BY EndFrame, LeaderFrame, Zenon DEF IInv, ReceiveInput
<1> QED
  BY <1>1, <1>2, <1>3, <1>4, <1>5, <1>6 DEF IInv

\* Iterate receives an element of the feedback.
LEMMA ReceiveFeedbackInv ==
    ASSUME IInv, NEW r \in Replica, ReceiveFeedback(r)
    PROVE  IInv'
<1> USE DEF hostVars, bodyVars, leaderVars
<1>1. Typed'
  <2>1. Head(feedback[r]) \in Element /\ Tail(feedback[r]) \in Seq(Element)
    BY TypedAt DEF IInv, ReceiveFeedback
  <2>2. IterateTyped'
    <3>1. Append(feedback_content[r], Head(feedback[r])) \in Seq(Element)
      BY <2>1, TypedAt DEF IInv
    <3> QED BY <2>1, <3>1, Zenon DEF IInv, Typed, IterateTyped, ReceiveFeedback, Replica
  <2> QED BY <2>2, TypedFrame, Zenon DEF IInv, Typed, ReceiveFeedback
<1>2. IterateInv'
  BY DEF IInv, IterateInv, IterateOK, ReceiveFeedback, Replica, Flushed, Current
<1>3. ContentInv'
  BY Zenon DEF IInv, Typed, IterateTyped, ContentInv, ContentOK, ReceiveFeedback, Replica
<1>4. HostInv'
  BY HostFrame, Zenon DEF IInv, ReceiveFeedback, Flushed, Passed, Past
<1>5. BodyInv'
  BY BodyFrame, Zenon DEF IInv, ReceiveFeedback, Done, Flushed, Current
<1>6. FeedbackInv'
  <2>1. /\ feedback[r] \in Seq(Element) /\ feedback_content[r] \in Seq(Element)
        /\ feedback[r] # <<>> /\ pc[r] = "run"
        /\ feedback'[r] = Tail(feedback[r])
        /\ feedback_content'[r] = Append(feedback_content[r], feedback[r][1])
        /\ pc' = pc /\ iter' = iter /\ body' = body
    BY TypedAt DEF IInv, Typed, IterateTyped, ReceiveFeedback
  <2>2. FeedbackOK(r)
    BY DEF IInv, FeedbackInv
  <2>3. FeedbackOK(r)'
    <3>1. /\ Len(feedback[r]) \in Nat /\ Len(feedback'[r]) = Len(feedback[r]) - 1
          /\ DOMAIN feedback[r] = 1 .. Len(feedback[r])
          /\ DOMAIN feedback'[r] = 1 .. Len(feedback[r]) - 1
          /\ \A i \in DOMAIN feedback'[r] : feedback'[r][i] = feedback[r][i + 1]
          /\ 1 \in DOMAIN feedback[r]
      BY <2>1
    <3>2. /\ Len(feedback_content[r]) \in Nat
          /\ Len(feedback_content'[r]) = Len(feedback_content[r]) + 1
          /\ DOMAIN feedback_content[r] = 1 .. Len(feedback_content[r])
          /\ DOMAIN feedback_content'[r] = 1 .. Len(feedback_content[r]) + 1
          /\ \A i \in DOMAIN feedback_content[r] : feedback_content'[r][i] = feedback_content[r][i]
          /\ feedback_content'[r][Len(feedback_content[r]) + 1] = feedback[r][1]
      BY <2>1
    <3>3. Passed(r) = iter[r] /\ Passed(r)' = iter[r]
      BY <2>1, Zenon DEF Passed, Past
    <3>4. \A i \in DOMAIN feedback'[r] :
              /\ feedback'[r][i].kind # "Terminate"
              /\ feedback'[r][i].iter = Passed(r)'
              /\ feedback'[r][i].kind = "FlushAndRestart" =>
                    i = Len(feedback'[r]) /\ body'[r].generation = 2 * Passed(r)' + 2
      <4> SUFFICES ASSUME NEW i \in 1 .. Len(feedback[r]) - 1
                   PROVE  /\ feedback[r][i + 1].kind # "Terminate"
                          /\ feedback[r][i + 1].iter = iter[r]
                          /\ feedback[r][i + 1].kind = "FlushAndRestart" =>
                                /\ i = Len(feedback[r]) - 1
                                /\ body[r].generation = 2 * iter[r] + 2
        BY <2>1, <3>1, <3>3, Zenon
      <4>1. i + 1 \in DOMAIN feedback[r]
        BY <3>1
      <4>2. /\ feedback[r][i + 1].kind # "Terminate" /\ feedback[r][i + 1].iter = iter[r]
            /\ feedback[r][i + 1].kind = "FlushAndRestart" =>
                  i + 1 = Len(feedback[r]) /\ body[r].generation = 2 * iter[r] + 2
        BY <2>2, <3>3, <4>1, Zenon DEF FeedbackOK
      <4> QED BY <3>1, <4>2
    <3>5. \A i \in DOMAIN feedback_content[r] : feedback_content[r][i].kind # "FlushAndRestart"
      BY <2>1, <2>2, Zenon DEF FeedbackOK
    <3>6. feedback[r][1].kind = "FlushAndRestart" => feedback'[r] = <<>>
      <4>1. feedback[r][1].kind = "FlushAndRestart" => 1 = Len(feedback[r])
        BY <2>2, <3>1, Zenon DEF FeedbackOK
      <4>2. feedback'[r] \in Seq(Element) /\ (feedback[r][1].kind = "FlushAndRestart" => Len(feedback'[r]) = 0)
        BY <2>1, <3>1, <4>1
      <4> QED BY <4>2, EmptySeq, Zenon
    <3>7. \A i \in DOMAIN feedback_content'[r] :
              /\ feedback_content'[r][i].kind # "Terminate"
              /\ feedback_content'[r][i].iter = iter'[r]
              /\ feedback_content'[r][i].kind = "FlushAndRestart" =>
                    /\ i = Len(feedback_content'[r])
                    /\ feedback'[r] = <<>>
                    /\ body'[r].generation = 2 * iter'[r] + 2
      <4> SUFFICES ASSUME NEW i \in 1 .. Len(feedback_content[r]) + 1
                   PROVE  /\ feedback_content'[r][i].kind # "Terminate"
                          /\ feedback_content'[r][i].iter = iter[r]
                          /\ feedback_content'[r][i].kind = "FlushAndRestart" =>
                                /\ i = Len(feedback_content[r]) + 1
                                /\ feedback'[r] = <<>>
                                /\ body[r].generation = 2 * iter[r] + 2
        BY <2>1, <3>2, Zenon
      <4>1. CASE i \in DOMAIN feedback_content[r]
        BY <2>2, <3>2, <3>5, <4>1, Zenon DEF FeedbackOK
      <4>2. CASE i = Len(feedback_content[r]) + 1
        <5>1. /\ feedback[r][1].kind # "Terminate" /\ feedback[r][1].iter = iter[r]
              /\ feedback[r][1].kind = "FlushAndRestart" => body[r].generation = 2 * iter[r] + 2
          BY <2>2, <3>1, <3>3, Zenon DEF FeedbackOK
        <5> QED BY <3>2, <3>6, <4>2, <5>1, Zenon
      <4>3. i \in DOMAIN feedback_content[r] \/ i = Len(feedback_content[r]) + 1
        BY <3>2
      <4> QED BY <4>1, <4>2, <4>3, Zenon
    <3> QED BY <2>1, <3>4, <3>7, Zenon DEF FeedbackOK
  <2>4. ASSUME NEW q \in Replica, q # r
        PROVE  FeedbackOK(q)'
    <3>1. feedback'[q] = feedback[q] /\ feedback_content'[q] = feedback_content[q]
      BY <2>4, Zenon DEF IInv, Typed, IterateTyped, ReceiveFeedback
    <3>2. Passed(q)' = Passed(q)
      BY <2>1, Zenon DEF Passed, Past
    <3> QED BY <2>1, <3>1, <3>2, FeedbackSame, Zenon DEF IInv, FeedbackInv
  <2> QED BY <2>3, <2>4, Zenon DEF FeedbackInv, Replica, ReceiveFeedback
<1>7. EndInv' /\ LeaderInv'
  BY EndFrame, LeaderFrame, Zenon DEF IInv, ReceiveFeedback
<1> QED
  BY <1>1, <1>2, <1>3, <1>4, <1>5, <1>6, <1>7 DEF IInv

\* At the swap nothing is left in the feedback channel.
LEMMA SwapInv ==
    ASSUME IInv, NEW r \in Replica, Swap(r)
    PROVE  IInv'
<1> USE DEF hostVars, bodyVars, leaderVars
<1>1. /\ content[r] = <<>> /\ pc[r] = "run" /\ pc'[r] = "wait_update" /\ input_finished[r]
      /\ content'[r] = feedback_content[r] /\ feedback_content'[r] = <<>>
      /\ \A q \in Replica : q # r => /\ pc'[q] = pc[q] /\ content'[q] = content[q]
                                     /\ feedback_content'[q] = feedback_content[q]
      /\ iter' = iter /\ body' = body /\ feedback' = feedback
      /\ input_finished' = input_finished
  BY Zenon DEF IInv, Typed, IterateTyped, Swap, SwapContent
<1>2. /\ feedback_content[r] \in Seq(Element) /\ feedback_content[r] # <<>>
      /\ Len(feedback_content[r]) \in DOMAIN feedback_content[r]
      /\ feedback_content[r][Len(feedback_content[r])].kind = "FlushAndRestart"
  <2>1. feedback_content[r] \in Seq(Element)
    BY TypedAt DEF IInv
  <2> QED BY <2>1 DEF Swap, FeedbackFinished
<1>3. \A i \in DOMAIN feedback_content[r] :
          feedback_content[r][i].kind = "FlushAndRestart" <=> i = Len(feedback_content[r])
  BY <1>2, Zenon DEF IInv, FeedbackInv, FeedbackOK
<1>4. feedback[r] = <<>> /\ body[r].generation = 2 * iter[r] + 2
  BY <1>2, Zenon DEF IInv, FeedbackInv, FeedbackOK
<1>5. \A q \in Replica : Flushed(q)' = Flushed(q) /\ Passed(q)' = Passed(q) /\ Past(q)' = Past(q)
  BY <1>1 DEF Flushed, Passed, Past
<1>6. Typed'
  <2>1. IterateTyped'
    BY <1>2, Zenon DEF IInv, Typed, IterateTyped, Swap, SwapContent, Replica
  <2> QED BY <2>1, TypedFrame, Zenon DEF IInv, Typed, Swap
<1>7. IterateInv'
  <2>1. state_channel' = state_channel /\ update' = update /\ Current' = Current
    BY Zenon DEF Swap, Current
  <2>2. ASSUME NEW q \in Replica PROVE IterateOK(q)'
    <3>1. IterateOK(q)
      BY DEF IInv, IterateInv
    <3> QED BY <1>1, <1>5, <2>1, <3>1, Zenon DEF IterateOK
  <2> QED BY <2>2, Fixed, Zenon DEF IterateInv, Swap
<1>8. ContentInv'
  <2>1. ContentOK(r)'
    BY <1>1, <1>2, <1>3 DEF ContentOK
  <2>2. \A q \in Replica : q # r => ContentOK(q)'
    BY <1>1, ContentSame DEF IInv, ContentInv
  <2> QED BY <2>1, <2>2, Fixed, Zenon DEF ContentInv, Swap
<1>9. HostInv'
  <2>1. cell' = cell /\ generation' = generation /\ job' = job
    BY DEF Swap, Current
  <2>2. ASSUME NEW q \in Replica PROVE HostOK(q)'
    <3>1. HostOK(q)
      BY DEF IInv, HostInv
    <3> QED BY <1>1, <1>5, <2>1, <3>1, Fixed, Zenon DEF HostOK
  <2> QED BY <2>2, Fixed DEF HostInv, Swap
<1>10. BodyInv'
  BY <1>5, BodyFrame, Zenon DEF IInv, Swap, Done, Current
<1>11. FeedbackInv'
  <2>1. FeedbackOK(r)'
    BY <1>1, <1>4 DEF FeedbackOK
  <2>2. \A q \in Replica : q # r => FeedbackOK(q)'
    BY <1>1, <1>5, FeedbackSame, Zenon DEF IInv, FeedbackInv
  <2> QED BY <2>1, <2>2, Fixed DEF FeedbackInv, Swap
<1>12. EndInv' /\ LeaderInv'
  BY EndFrame, LeaderFrame, Zenon DEF IInv, Swap
<1> QED
  BY <1>6, <1>7, <1>8, <1>9, <1>10, <1>11, <1>12 DEF IInv

\* Iterate receives the decision of the leader.
LEMMA WaitUpdateInv ==
    ASSUME IInv, NEW r \in Replica, WaitUpdate(r)
    PROVE  IInv'
<1> USE DEF hostVars, bodyVars, leaderVars
<1>1. /\ pc[r] = "wait_update" /\ pc'[r] = (IF IsLocalLeader(r) THEN "set" ELSE "barrier")
      /\ \A q \in Replica : q # r => /\ pc'[q] = pc[q] /\ state_channel'[q] = state_channel[q]
                                     /\ update'[q] = update[q]
      /\ iter' = iter /\ body' = body /\ feedback' = feedback /\ content' = content
      /\ input_finished' = input_finished /\ feedback_content' = feedback_content
      /\ update'[r] = Head(state_channel[r]) /\ state_channel'[r] = Tail(state_channel[r])
  BY Zenon DEF IInv, Typed, IterateTyped, WaitUpdate
<1>2. /\ iter[r] + 1 = Current /\ update'[r].state = Current /\ state_channel'[r] = <<>>
  <2>1. state_channel[r] \in Seq(StateFeedback) /\ state_channel[r] # <<>>
    BY TypedAt, Zenon DEF IInv, WaitUpdate
  <2>2. iter[r] + 1 = Current /\ Len(state_channel[r]) = 1 /\ state_channel[r][1].state = Current
    BY <1>1, <2>1, Zenon DEF IInv, IterateInv, IterateOK
  <2>3. Tail(state_channel[r]) \in Seq(StateFeedback) /\ Len(Tail(state_channel[r])) = 0
    BY <2>1, <2>2
  <2>4. Tail(state_channel[r]) = <<>>
    BY <2>3, EmptySeq, Zenon
  <2>5. Head(state_channel[r]) = state_channel[r][1]
    BY <2>1
  <2> QED BY <1>1, <2>2, <2>4, <2>5, Zenon
<1>3. \A q \in Replica : Flushed(q)' = Flushed(q) /\ Passed(q)' = Passed(q) /\ Past(q)' = Past(q)
  BY <1>1 DEF Flushed, Passed, Past
<1>4. Typed'
  <2>1. Head(state_channel[r]) \in StateFeedback /\ Tail(state_channel[r]) \in Seq(StateFeedback)
    <3>1. state_channel[r] \in Seq(StateFeedback) /\ state_channel[r] # <<>>
      BY TypedAt, Zenon DEF IInv, WaitUpdate
    <3> QED BY <3>1
  <2>2. IterateTyped'
    BY <2>1, Zenon DEF IInv, Typed, IterateTyped, WaitUpdate, Replica
  <2> QED BY <2>2, TypedFrame, Zenon DEF IInv, Typed, WaitUpdate
<1>5. IterateInv'
  <2>1. IterateOK(r)'
    BY <1>1, <1>2, Zenon DEF IterateOK, Current, Flushed, WaitUpdate
  <2>2. \A q \in Replica : q # r => IterateOK(q)'
    <3>1. Current' = Current
      BY Zenon DEF WaitUpdate, Current
    <3> QED BY <1>1, <1>3, <3>1, IterateSame, Zenon DEF IInv, IterateInv
  <2> QED BY <2>1, <2>2, Fixed DEF IterateInv, WaitUpdate
<1>6. ContentInv'
  <2>1. ASSUME NEW q \in Replica PROVE ContentOK(q)'
    BY <1>1, ContentSame, Zenon DEF IInv, ContentInv
  <2> QED BY <2>1, Fixed, Zenon DEF ContentInv, WaitUpdate
<1>7. HostInv'
  <2>1. cell' = cell /\ generation' = generation /\ job' = job
    BY Zenon DEF WaitUpdate, Current
  <2>2. ASSUME NEW q \in Replica PROVE HostOK(q)'
    <3>1. HostOK(q)
      BY DEF IInv, HostInv
    <3> QED BY <1>1, <1>3, <2>1, <3>1, Fixed, Zenon DEF HostOK
  <2> QED BY <2>2, Fixed DEF HostInv, WaitUpdate
<1>8. BodyInv'
  BY <1>3, BodyFrame, Zenon DEF IInv, WaitUpdate, Done, Current
<1>9. FeedbackInv'
  <2>1. ASSUME NEW q \in Replica PROVE FeedbackOK(q)'
    BY <1>1, <1>3, FeedbackSame, Zenon DEF IInv, FeedbackInv
  <2> QED BY <2>1, Fixed DEF FeedbackInv, WaitUpdate
<1>10. EndInv' /\ LeaderInv'
  BY EndFrame, LeaderFrame, Zenon DEF IInv, WaitUpdate
<1> QED
  BY <1>4, <1>5, <1>6, <1>7, <1>8, <1>9, <1>10 DEF IInv

\* Only the first replica of the host writes the cell.
LEMMA SetStateInv ==
    ASSUME IInv, NEW r \in Replica, SetState(r)
    PROVE  IInv'
<1> USE DEF hostVars, bodyVars, leaderVars
<1>1. /\ pc[r] = "set" /\ pc'[r] = "barrier"
      /\ \A q \in Replica : q # r => pc'[q] = pc[q]
      /\ iter' = iter /\ body' = body /\ feedback' = feedback /\ content' = content
      /\ input_finished' = input_finished /\ feedback_content' = feedback_content
  BY Zenon DEF IInv, Typed, IterateTyped, SetState
<1>2. /\ iter[r] + 1 = Current /\ update[r].state = Current /\ IsLocalLeader(r)
  BY <1>1, Zenon DEF IInv, IterateInv, IterateOK, HostInv, HostOK
<1>3. \A q \in Replica : Flushed(q)' = Flushed(q) /\ Passed(q)' = Passed(q) /\ Past(q)' = Past(q)
  BY <1>1 DEF Flushed, Passed, Past
<1>4. Typed'
  <2>1. IterateTyped'
    BY Zenon DEF IInv, Typed, IterateTyped, SetState, Replica
  <2>2. HostTyped'
    BY TypedAt, Zenon DEF IInv, Typed, HostTyped, SetState
  <2> QED BY <2>1, <2>2, TypedFrame, Zenon DEF IInv, Typed, SetState
<1>5. IterateInv' /\ ContentInv'
  <2>1. state_channel' = state_channel /\ update' = update /\ Current' = Current
    BY Zenon DEF SetState, Current
  <2>2. ASSUME NEW q \in Replica PROVE IterateOK(q)'
    <3>1. IterateOK(q)
      BY DEF IInv, IterateInv
    <3> QED BY <1>1, <1>3, <2>1, <3>1, Zenon DEF IterateOK
  <2>3. ASSUME NEW q \in Replica PROVE ContentOK(q)'
    BY <1>1, ContentSame, Zenon DEF IInv, ContentInv
  <2> QED BY <2>2, <2>3, Fixed, Zenon DEF IterateInv, ContentInv, SetState
<1>6. HostInv'
  <2>1. HostOf[r] \in Host /\ cell \in [Host -> Nat]
    BY Replicas DEF IInv, Typed, HostTyped
  <2>2. ASSUME NEW q \in Replica PROVE HostOK(q)'
    <3>1. IsLocalLeader(q) /\ q # r => HostOf[q] # HostOf[r]
      BY <1>2 DEF IsLocalLeader
    <3>2. IsLocalLeader(q) => cell'[HostOf[q]] = IF q = r THEN Current ELSE cell[HostOf[q]]
      BY <1>2, <2>1, <3>1 DEF SetState
    <3>3. HostOK(q) /\ generation' = generation /\ job' = job
      BY Zenon DEF IInv, HostInv, SetState
    <3> QED BY <1>1, <1>2, <1>3, <3>2, <3>3, Fixed, Zenon DEF HostOK
  <2> QED BY <2>2, Fixed, Zenon DEF HostInv, SetState
<1>7. BodyInv'
  BY <1>3, BodyFrame, Zenon DEF IInv, SetState, Done, Current
<1>8. FeedbackInv'
  <2>1. ASSUME NEW q \in Replica PROVE FeedbackOK(q)'
    BY <1>1, <1>3, FeedbackSame, Zenon DEF IInv, FeedbackInv
  <2> QED BY <2>1, Fixed, Zenon DEF FeedbackInv, SetState
<1>9. EndInv' /\ LeaderInv'
  BY EndFrame, LeaderFrame, Zenon DEF IInv, SetState
<1> QED
  BY <1>4, <1>5, <1>6, <1>7, <1>8, <1>9 DEF IInv

\* The replicas of a host leave the barrier together.
LEMMA BarrierInv ==
    ASSUME IInv, NEW h \in Host, Barrier(h)
    PROVE  IInv'
<1> USE DEF hostVars, bodyVars, leaderVars
<1>1. /\ \A q \in Replica : IF HostOf[q] # h THEN pc'[q] = pc[q]
                            ELSE /\ pc[q] = "barrier"
                                 /\ pc'[q] = IF IsLocalLeader(q) THEN "unlock" ELSE "resume"
      /\ iter' = iter /\ body' = body /\ feedback' = feedback /\ content' = content
      /\ input_finished' = input_finished /\ feedback_content' = feedback_content
      /\ state_channel' = state_channel /\ update' = update
  BY DEF Barrier, Local
<1>2. \A q \in Replica : Flushed(q)' = Flushed(q)
  BY <1>1 DEF Flushed
<1>3. \A q \in Replica : HostOf[q] = h =>
          /\ iter[q] + 1 = Current /\ Passed(q)' = Passed(q) + 1 /\ Passed(q) = iter[q]
          /\ feedback[q] = <<>>
  BY <1>1, Zenon DEF IInv, IterateInv, IterateOK, FeedbackInv, FeedbackOK, Passed, Past
<1>4. \A q \in Replica : HostOf[q] # h => Passed(q)' = Passed(q)
  BY <1>1 DEF Passed, Past
<1>5. Typed'
  <2>1. IterateTyped'
    BY Zenon DEF IInv, Typed, IterateTyped, Barrier, Replica
  <2> QED BY <2>1, TypedFrame DEF IInv, Typed, Barrier
<1>6. IterateInv' /\ ContentInv'
  <2>1. ASSUME NEW q \in Replica PROVE IterateOK(q)' /\ ContentOK(q)'
    <3>1. IterateOK(q) /\ Current' = Current
      BY Zenon DEF IInv, IterateInv, Barrier, Current
    <3>2. IterateOK(q)'
      BY <1>1, <1>2, <3>1, Zenon DEF IterateOK
    <3>3. ContentOK(q)'
      BY <1>1, ContentSame, Zenon DEF IInv, ContentInv
    <3> QED BY <3>2, <3>3
  <2> QED BY <2>1, Fixed, Zenon DEF IterateInv, ContentInv, Barrier
<1>7. HostInv'
  <2>1. ASSUME NEW q \in Replica PROVE HostOK(q)'
    <3>1. HostOK(q)
      BY DEF IInv, HostInv
    <3>2. \A p \in Replica : HostOf[p] = HostOf[q] => Passed(p)' = Passed(q)'
      BY <1>3, <1>4, <3>1, Zenon DEF HostOK
    <3>3. (pc[q] \in {"set", "unlock"} => IsLocalLeader(q))'
      BY <1>1, <3>1, Fixed, Zenon DEF HostOK, Barrier
    <3> QED BY <1>1, <1>2, <3>1, <3>2, <3>3, Fixed, Zenon DEF HostOK, Barrier
  <2> QED BY <2>1, Fixed, Zenon DEF HostInv, Barrier
<1>8. BodyInv'
  BY <1>1, <1>2, BodyFrame, Zenon DEF IInv, Barrier, Done, Current
<1>9. FeedbackInv'
  <2>1. ASSUME NEW q \in Replica PROVE FeedbackOK(q)'
    <3>1. FeedbackOK(q)
      BY DEF IInv, FeedbackInv
    <3>2. CASE HostOf[q] = h
      <4>1. /\ feedback'[q] = <<>> /\ feedback_content'[q] = feedback_content[q]
            /\ iter'[q] = iter[q] /\ body' = body /\ pc'[q] \in {"unlock", "resume"}
            /\ feedback[q] = <<>>
        BY <1>1, <1>3, <3>2, Zenon
      <4>2. DOMAIN <<>> = {}
        OBVIOUS
      <4> QED BY <3>1, <4>1, <4>2, Zenon DEF FeedbackOK
    <3>3. CASE HostOf[q] # h
      BY <1>1, <1>4, <3>1, <3>3, FeedbackSame, Zenon
    <3> QED BY <3>2, <3>3
  <2> QED BY <2>1, Fixed, Zenon DEF FeedbackInv, Barrier
<1>10. EndInv' /\ LeaderInv'
  BY EndFrame, LeaderFrame, Zenon DEF IInv, Barrier
<1> QED
  BY <1>5, <1>6, <1>7, <1>8, <1>9, <1>10 DEF IInv

\* The first replica of the host unlocks the state.
LEMMA UnlockStateInv ==
    ASSUME IInv, NEW r \in Replica, UnlockState(r)
    PROVE  IInv'
<1> USE DEF hostVars, bodyVars, leaderVars
<1>1. /\ pc[r] = "unlock" /\ pc'[r] = "resume"
      /\ \A q \in Replica : q # r => pc'[q] = pc[q]
      /\ iter' = iter /\ body' = body /\ feedback' = feedback /\ content' = content
      /\ input_finished' = input_finished /\ feedback_content' = feedback_content
      /\ generation' = [generation EXCEPT ![HostOf[r]] = @ + 1]
  BY Zenon DEF IInv, Typed, IterateTyped, UnlockState, Unlock
<1>2. HostOf[r] \in Host /\ IsLocalLeader(r) /\ generation \in [Host -> Nat] /\ Flushed(r)
  BY <1>1, Replicas, Zenon DEF IInv, Typed, HostTyped, HostInv, HostOK, Flushed
<1>3. \A q \in Replica : Flushed(q)' = Flushed(q) /\ Passed(q)' = Passed(q) /\ Past(q)' = Past(q)
  BY <1>1 DEF Flushed, Passed, Past
<1>4. Typed'
  <2>1. IterateTyped'
    BY Zenon DEF IInv, Typed, IterateTyped, UnlockState, Replica
  <2>2. HostTyped'
    BY <1>1, <1>2 DEF IInv, Typed, HostTyped, UnlockState
  <2> QED BY <2>1, <2>2, TypedFrame, Zenon DEF IInv, Typed, UnlockState
<1>5. IterateInv' /\ ContentInv'
  <2>1. state_channel' = state_channel /\ update' = update /\ Current' = Current
    BY DEF UnlockState, Current
  <2>2. ASSUME NEW q \in Replica PROVE IterateOK(q)'
    <3>1. IterateOK(q)
      BY DEF IInv, IterateInv
    <3> QED BY <1>1, <1>3, <2>1, <3>1, Zenon DEF IterateOK
  <2>3. ASSUME NEW q \in Replica PROVE ContentOK(q)'
    BY <1>1, ContentSame, Zenon DEF IInv, ContentInv
  <2> QED BY <2>2, <2>3, Fixed, Zenon DEF IterateInv, ContentInv, UnlockState
<1>6. HostInv'
  <2>1. ASSUME NEW q \in Replica PROVE HostOK(q)'
    <3>1. HostOK(q)
      BY DEF IInv, HostInv
    <3>2. CASE q = r
      <4>1. generation[HostOf[r]] = 2 * iter[r] + 1 /\ iter[r] \in Nat
        BY <1>1, <1>2, <3>1, <3>2, TypedAt, Zenon DEF IInv, HostOK
      <4>2. generation'[HostOf[r]] = 2 * (iter[r] + 1)
        BY <1>1, <1>2, <4>1
      <4> QED BY <1>1, <1>3, <3>1, <3>2, <4>2, Fixed, Zenon DEF HostOK, UnlockState
    <3>3. CASE q # r
      <4>1. IsLocalLeader(q) => HostOf[q] # HostOf[r]
        BY <1>2, <3>3 DEF IsLocalLeader
      <4>2. IsLocalLeader(q) => generation'[HostOf[q]] = generation[HostOf[q]]
        BY <1>1, <1>2, <4>1
      <4> QED BY <1>1, <1>3, <3>1, <3>3, <4>2, Fixed, Zenon DEF HostOK, UnlockState
    <3> QED BY <3>2, <3>3
  <2> QED BY <2>1, Fixed DEF HostInv, UnlockState
<1>7. BodyInv'
  BY <1>1, <1>2, <1>3, BodyFrame, Zenon DEF IInv, UnlockState, Done, Current
<1>8. FeedbackInv'
  <2>1. ASSUME NEW q \in Replica PROVE FeedbackOK(q)'
    BY <1>1, <1>3, FeedbackSame, Zenon DEF IInv, FeedbackInv
  <2> QED BY <2>1, Fixed DEF FeedbackInv, UnlockState
<1>9. EndInv' /\ LeaderInv'
  BY EndFrame, LeaderFrame, Zenon DEF IInv, UnlockState
<1> QED
  BY <1>4, <1>5, <1>6, <1>7, <1>8, <1>9 DEF IInv

\* A replica that resumes has something of the next iteration to send.
LEMMA ResumeInv ==
    ASSUME IInv, NEW r \in Replica, Resume(r)
    PROVE  IInv'
<1> USE DEF hostVars, bodyVars, leaderVars
<1>1. /\ pc[r] = "resume" /\ pc'[r] = "run" /\ iter'[r] = iter[r] + 1
      /\ \A q \in Replica : q # r => /\ pc'[q] = pc[q] /\ iter'[q] = iter[q]
                                     /\ content'[q] = content[q]
                                     /\ input_finished'[q] = input_finished[q]
      /\ body' = body /\ feedback' = feedback /\ feedback_content' = feedback_content
      /\ state_channel' = state_channel /\ update' = update
      /\ \/ content'[r] = content[r] /\ input_finished'[r] = input_finished[r]
         \/ content'[r] = <<>> /\ input_finished'[r] = FALSE
  BY DEF IInv, Typed, IterateTyped, Resume, Finish
<1>2. /\ iter[r] + 1 = Current /\ state_channel[r] = <<>>
      /\ content[r] # <<>> /\ feedback_content[r] = <<>>
  BY <1>1, Zenon DEF IInv, IterateInv, IterateOK, ContentInv, ContentOK
<1>3. ~Flushed(r)' /\ Passed(r)' = Passed(r) /\ Passed(r) = iter[r] + 1
  BY <1>1, <1>2, Zenon DEF Flushed, Passed, Past
<1>4. \A q \in Replica : q # r => Flushed(q)' = Flushed(q) /\ Passed(q)' = Passed(q)
  BY <1>1 DEF Flushed, Passed, Past
<1>5. Typed'
  <2>1. IterateTyped'
    <3>1. input_finished' \in [Replica -> BOOLEAN] /\ content' \in [Replica -> Seq(Element)]
      <4>1. <<>> \in Seq(Element)
        OBVIOUS
      <4>2. input_finished \in [Replica -> BOOLEAN] /\ content \in [Replica -> Seq(Element)]
        BY Zenon DEF IInv, Typed, IterateTyped
      <4>3. CASE update[r].continue
        BY <4>2, <4>3, Zenon DEF Resume
      <4>4. CASE ~update[r].continue
        <5>1. /\ input_finished' = [input_finished EXCEPT ![r] = FALSE]
              /\ content' = [content EXCEPT ![r] = <<>>]
          BY <4>4, Zenon DEF Resume, Finish
        <5>2. input_finished' \in [Replica -> BOOLEAN]
          BY <4>2, <5>1
        <5>3. content' \in [Replica -> Seq(Element)]
          BY <4>1, <4>2, <5>1, Zenon
        <5> QED BY <5>2, <5>3
      <4> QED BY <4>3, <4>4, Zenon
    <3>2. iter' \in [Replica -> Nat]
      BY DEF IInv, Typed, IterateTyped, Resume
    <3>3. pc' = [pc EXCEPT ![r] = "run"]
      BY DEF Resume
    <3> QED BY <3>1, <3>2, <3>3, Zenon DEF IInv, Typed, IterateTyped, Resume, Replica
  <2> QED BY <2>1, TypedFrame, Zenon DEF IInv, Typed, Resume
<1>6. IterateInv'
  <2>1. IterateOK(r)'
    BY <1>1, <1>2, Zenon DEF IterateOK, Current, Resume
  <2>2. \A q \in Replica : q # r => IterateOK(q)'
    <3>1. Current' = Current
      BY Zenon DEF Resume, Current
    <3> QED BY <1>1, <1>4, <3>1, IterateSame, Zenon DEF IInv, IterateInv
  <2> QED BY <2>1, <2>2, Fixed, Zenon DEF IterateInv, Resume
<1>7. ContentInv'
  <2>1. ContentOK(r)'
    <3>1. ContentOK(r)
      BY DEF IInv, ContentInv
    <3>2. /\ pc'[r] = "run"
          /\ \/ content'[r] = content[r] /\ input_finished'[r] = input_finished[r]
             \/ content'[r] = <<>>
      BY <1>1, Zenon
    <3>3. DOMAIN <<>> = {}
      OBVIOUS
    <3> QED BY <3>1, <3>2, <3>3, Zenon DEF ContentOK
  <2>2. \A q \in Replica : q # r => ContentOK(q)'
    BY <1>1, ContentSame, Zenon DEF IInv, ContentInv
  <2> QED BY <2>1, <2>2, Fixed DEF ContentInv, Resume
<1>8. HostInv'
  <2>0. cell' = cell /\ generation' = generation /\ job' = job
    BY Zenon DEF Resume
  <2>1. HostOK(r)'
    <3>1. HostOK(r)
      BY DEF IInv, HostInv
    <3> QED BY <1>1, <1>2, <1>3, <1>4, <2>0, <3>1, Fixed, Zenon DEF HostOK
  <2>2. ASSUME NEW q \in Replica, q # r PROVE HostOK(q)'
    BY <1>1, <1>3, <1>4, <2>0, <2>2, HostSame, Zenon DEF IInv, HostInv
  <2> QED BY <2>1, <2>2, Fixed, Zenon DEF HostInv, Resume
<1>9. BodyInv'
  <2>1. Done(r)' = FALSE /\ Done(r) = FALSE
    <3>1. iter[r] \in Nat /\ Current \in Nat
      BY TypedAt, Zenon DEF IInv
    <3> QED BY <1>2, <1>3, <3>1 DEF Done
  <2>2. \A q \in Replica : q # r => Done(q)' = Done(q)
    BY <1>1, <1>4, Zenon DEF Done, Current, Resume
  <2> QED BY <2>1, <2>2, BodyFrame, Zenon DEF IInv, Resume
<1>10. FeedbackInv'
  <2>1. FeedbackOK(r)'
    <3>1. FeedbackOK(r)
      BY Zenon DEF IInv, FeedbackInv
    <3>2. /\ pc'[r] = "run" /\ body' = body /\ feedback' = feedback
          /\ feedback_content'[r] = <<>>
      BY <1>1, <1>2, Zenon
    <3>3. DOMAIN <<>> = {}
      OBVIOUS
    <3> QED BY <1>3, <3>1, <3>2, <3>3, Zenon DEF FeedbackOK
  <2>2. \A q \in Replica : q # r => FeedbackOK(q)'
    BY <1>1, <1>4, FeedbackSame, Zenon DEF IInv, FeedbackInv
  <2> QED BY <2>1, <2>2, Fixed DEF FeedbackInv, Resume
<1>11. EndInv' /\ LeaderInv'
  BY EndFrame, LeaderFrame, Zenon DEF IInv, Resume
<1> QED
  BY <1>5, <1>6, <1>7, <1>8, <1>9, <1>10, <1>11 DEF IInv

\* While a replica of Iterate has something to send, no replica of the body has
\* finished the iteration.
LEMMA Unfinished ==
    ASSUME IInv, NEW r \in Replica, pc[r] = "run", ~Flushed(r)
    PROVE  /\ iter[r] = Current /\ ~Done(r)
           /\ \A b \in Replica : body[b].generation = 2 * Current
<1>1. iter[r] = Current /\ ~Done(r)
  BY DEF IInv, IterateInv, IterateOK, Done
<1> QED
  BY <1>1, Zenon DEF IInv, BodyInv, BodyOK

\* What Iterate sends to the body is of the running iteration, and its
\* FlushAndRestart comes after all the rest.
LEMMA ForwardInv ==
    ASSUME IInv, NEW r \in Replica, pc[r] = "run", ~Flushed(r),
           NEW el \in Element, el.kind # "Terminate" => el.iter = iter[r], Forward(el),
           UNCHANGED <<job, leader, body, reading>>,
           generation' = generation \/ \E h \in Host : generation' = [generation EXCEPT ![h] = @ + 1],
           \A q \in Replica : Done(q)' <=> (Done(q) \/ (q = r /\ el.kind = "FlushAndRestart"))
    PROVE  BodyTyped' /\ BodyInv'
<1>1. Replica' = Replica /\ HostOf' = HostOf /\ N' = N /\ Current' = Current
  BY Fixed DEF Current
<1>2. iter[r] = Current /\ ~Done(r) /\ \A b \in Replica : body[b].generation = 2 * Current
  BY Unfinished
<1>3. body_channel \in [Replica -> Seq(Element)]
  BY DEF IInv, Typed, BodyTyped
<1>4. ASSUME NEW b \in Replica
      PROVE  \/ body_channel'[b] = body_channel[b] /\ el.kind = "Item"
             \/ body_channel'[b] = Append(body_channel[b], el)
  BY <1>3, Zenon DEF Forward
<1>5. BodyTyped'
  <2>1. body_channel' \in [Replica -> Seq(Element)]
    <3>1. \A b \in Replica : Append(body_channel[b], el) \in Seq(Element)
      BY <1>3
    <3>2. CASE el.kind = "Item"
      BY <1>3, <3>1, <3>2, Zenon DEF Forward
    <3>3. CASE el.kind # "Item"
      BY <1>3, <3>1, <3>3, Zenon DEF Forward
    <3> QED BY <3>2, <3>3
  <2> QED BY <1>1, <2>1, Zenon DEF IInv, Typed, BodyTyped
<1>6. /\ el.kind = "FlushAndRestart" =>
            Cardinality({q \in Replica : Done(q)'}) = Cardinality({q \in Replica : Done(q)}) + 1
      /\ el.kind # "FlushAndRestart" =>
            {q \in Replica : Done(q)'} = {q \in Replica : Done(q)}
  <2> DEFINE D == {q \in Replica : Done(q)}
  <2>1. IsFiniteSet(D) /\ r \notin D
    BY <1>2, Replicas, FS_Subset DEF IInv
  <2>2. el.kind = "FlushAndRestart" => {q \in Replica : Done(q)'} = D \cup {r}
    OBVIOUS
  <2>3. Cardinality(D \cup {r}) = Cardinality(D) + 1
    <3> HIDE DEF D
    <3> QED BY <2>1, FS_AddElement, Zenon
  <2> QED BY <2>2, <2>3
<1>7. el.kind # "FlushAndRestart" => ~Done(r)'
  BY <1>2
<1>8. ASSUME NEW b \in Replica
      PROVE  BodyOK(b)'
  <2>1. body_channel[b] \in Seq(Element) /\ body[b].generation = 2 * Current
        /\ body[b].generation \in Nat /\ Current \in Nat
    BY <1>2, TypedAt, Zenon DEF IInv
  <2>2. /\ generation[HostOf[b]] >= body[b].generation => generation'[HostOf[b]] >= body[b].generation
        /\ generation[HostOf[b]] >= 2 * Current => generation'[HostOf[b]] >= 2 * Current
    BY <2>1, GenerationGrows, Zenon DEF IInv
  <2>3. BodyOK(b)
    BY DEF IInv, BodyInv
  <2>4. \A i \in DOMAIN body_channel'[b] :
              body_channel'[b][i].kind # "Terminate" => body_channel'[b][i].iter = Current
    <3>1. \A i \in DOMAIN body_channel[b] :
              body_channel[b][i].kind # "Terminate" => body_channel[b][i].iter = Current
      BY <2>3, Zenon DEF BodyOK
    <3>2. CASE body_channel'[b] = body_channel[b]
      BY <3>1, <3>2, Zenon
    <3>3. CASE body_channel'[b] = Append(body_channel[b], el)
      BY <1>2, <2>1, <3>1, <3>3
    <3> QED BY <1>4, <3>2, <3>3, Zenon
  <2>5. Cardinality(Flushes(body_channel'[b])) + N - body[b].missing_flush
            = Cardinality({q \in Replica : Done(q)'})
    <3>1. Cardinality(Flushes(body_channel[b])) \in Nat
      BY <2>1, FlushesFinite, Zenon
    <3>2. Cardinality(Flushes(body_channel'[b])) = Cardinality(Flushes(body_channel[b]))
              + (IF el.kind = "FlushAndRestart" THEN 1 ELSE 0)
      <4>1. CASE el.kind = "FlushAndRestart"
        <5>1. body_channel'[b] = Append(body_channel[b], el)
          BY <1>4, <4>1, Zenon
        <5>2. Cardinality(Flushes(body_channel'[b])) = Cardinality(Flushes(body_channel[b])) + 1
          BY <2>1, <4>1, <5>1, FlushesAppend, Zenon
        <5> QED BY <4>1, <5>2, Zenon
      <4>2. CASE el.kind # "FlushAndRestart"
        <5>1. Flushes(body_channel'[b]) = Flushes(body_channel[b])
          BY <1>4, <2>1, <4>2, FlushesAppend, Zenon
        <5> QED BY <3>1, <4>2, <5>1
      <4> QED BY <4>1, <4>2, Zenon
    <3>3. Cardinality(Flushes(body_channel[b])) + N - body[b].missing_flush
            = Cardinality({q \in Replica : Done(q)})
      BY <2>1, <2>3, Zenon DEF BodyOK
    <3>4. N \in Nat /\ body[b].missing_flush \in Nat
      BY Replicas, TypedAt, Zenon DEF IInv
    <3> DEFINE c == Cardinality({q \in Replica : Done(q)})
               d == Cardinality({q \in Replica : Done(q)'})
    <3>5. d = c + (IF el.kind = "FlushAndRestart" THEN 1 ELSE 0)
      <4>1. c \in Int
        BY <3>1, <3>3, <3>4
      <4> QED BY <1>6, <4>1
    <3> HIDE DEF c, d
    <3>6. Cardinality(Flushes(body_channel[b])) + N - body[b].missing_flush = c
      BY <3>3, Zenon DEF c
    <3>7. Cardinality(Flushes(body_channel'[b])) + N - body[b].missing_flush = d
      BY <3>1, <3>2, <3>4, <3>5, <3>6
    <3> QED BY <3>7 DEF d
  <2>6. ASSUME NEW i \in DOMAIN body_channel'[b]
        PROVE  body_channel'[b][i].kind = "Item" =>
                  \/ \E q \in Replica : ~Done(q)'
                  \/ \E j \in Flushes(body_channel'[b]) : i < j
    <3>1. CASE el.kind # "FlushAndRestart"
      BY <1>7, <3>1, Zenon
    <3>2. CASE el.kind = "FlushAndRestart"
      <4>1. body_channel'[b] = Append(body_channel[b], el)
        BY <1>4, <3>2, Zenon
      <4>2. /\ Len(body_channel[b]) + 1 \in Flushes(body_channel'[b])
            /\ i \in 1 .. Len(body_channel[b]) + 1
            /\ i = Len(body_channel[b]) + 1 => body_channel'[b][i].kind # "Item"
        BY <2>1, <3>2, <4>1 DEF Flushes
      <4> QED BY <2>1, <4>2
    <3> QED BY <3>1, <3>2, Zenon
  <2> QED
    BY <1>1, <2>1, <2>2, <2>3, <2>4, <2>5, <2>6, Zenon DEF BodyOK
<1> QED
  BY <1>1, <1>5, <1>8 DEF BodyInv

\* The generations of a locked and an unlocked state.
LEMMA Parity == \A k \in Nat : (2 * k) % 2 = 0 /\ (2 * k + 1) % 2 = 1
  OBVIOUS

\* The lock is taken by whoever sends FlushAndRestart first, and by the first
\* replica of the host if it was unlocked meanwhile.
LEMMA LockInv ==
    ASSUME IInv, NEW r \in Replica, pc[r] = "run",
           generation' = generation \/ Lock(HostOf[r]),
           Flushed(r)' => Lock(HostOf[r]),
           UNCHANGED <<job, cell, iter>>, pc'[r] \in {"run", "terminated"},
           \A q \in Replica : q # r => pc'[q] = pc[q] /\ Flushed(q)' = Flushed(q)
    PROVE  /\ HostTyped' /\ HostInv'
           /\ generation' = generation \/ \E h \in Host : generation' = [generation EXCEPT ![h] = @ + 1]
<1>1. HostOf[r] \in Host /\ generation \in [Host -> Nat]
  BY Replicas, Zenon DEF IInv, Typed, HostTyped
<1>2. generation' = generation \/ \E h \in Host : generation' = [generation EXCEPT ![h] = @ + 1]
  BY <1>1, Zenon DEF Lock
<1>3. HostTyped'
  BY <1>1, <1>2 DEF IInv, Typed, HostTyped
<1>4. \A q \in Replica : Passed(q)' = Passed(q)
  BY Zenon DEF Passed, Past
<1>5. ASSUME NEW q \in Replica PROVE HostOK(q)'
  <2>1. HostOK(q) /\ iter[q] \in Nat /\ HostOf[q] \in Host
    BY TypedAt, Replicas, Zenon DEF IInv, HostInv
  <2>2. CASE HostOf[q] # HostOf[r]
    <3>1. generation'[HostOf[q]] = generation[HostOf[q]] /\ q # r
      BY <1>1, <2>1, <2>2, Zenon DEF Lock
    <3> QED BY <1>4, <2>1, <3>1, Fixed, Zenon DEF HostOK
  <2>3. CASE HostOf[q] = HostOf[r]
    <3> DEFINE known == IF pc[q] = "resume" THEN iter[q] + 1 ELSE iter[q]
    <3>1. known \in Nat /\ (2 * known) % 2 = 0 /\ (2 * known + 1) % 2 = 1
      BY <2>1, Parity
    <3>2. (IF pc[q] = "resume" THEN iter[q] + 1 ELSE iter[q])' = known /\ (pc'[q] = "resume" <=> pc[q] = "resume")
          /\ (pc'[q] \in {"barrier", "unlock", "resume"} <=> pc[q] \in {"barrier", "unlock", "resume"})
          /\ (pc'[q] \in {"set", "unlock"} => pc[q] \in {"set", "unlock"})
      BY Zenon
    <3>3. IsLocalLeader(q) => generation[HostOf[q]] \in {2 * known, 2 * known + 1}
      BY <2>1, Zenon DEF HostOK
    <3>4. IsLocalLeader(q) /\ Flushed(q) /\ pc[q] # "resume" => generation[HostOf[q]] = 2 * known + 1
      BY <2>1, Zenon DEF HostOK
    <3> HIDE DEF known
    <3>5. Lock(HostOf[r]) /\ IsLocalLeader(q) => generation'[HostOf[q]] = 2 * known + 1
      BY <1>1, <2>3, <3>1, <3>3 DEF Lock
    <3>6. IsLocalLeader(q) /\ ~Lock(HostOf[r]) =>
              generation'[HostOf[q]] = generation[HostOf[q]] /\ (Flushed(q)' => Flushed(q))
      BY <2>3, Zenon
    <3>7. IsLocalLeader(q) =>
            /\ generation'[HostOf[q]] \in {2 * known, 2 * known + 1}
            /\ Flushed(q)' /\ pc[q] # "resume" => generation'[HostOf[q]] = 2 * known + 1
      BY <3>3, <3>4, <3>5, <3>6, Zenon
    <3> QED BY <1>4, <2>1, <3>2, <3>7, Fixed, Zenon DEF HostOK
  <2> QED BY <2>2, <2>3
<1> QED
  BY <1>2, <1>3, <1>5, Fixed, Zenon DEF HostInv

\* An element that Iterate sends is of the iteration of the replica.
LEMMA Stamped ==
    ASSUME IInv, NEW r \in Replica, NEW el \in Element
    PROVE  /\ Stamp(r, el) \in Element /\ Stamp(r, el).kind = el.kind
           /\ el.kind # "Terminate" => Stamp(r, el).iter = iter[r]
  BY TypedAt, Zenon DEF IInv, Stamp, Element

\* Iterate returns an element of the input.
LEMMA NextInputInv ==
    ASSUME IInv, NEW r \in Replica, NextInput(r)
    PROVE  IInv'
<1> USE DEF hostVars, bodyVars, leaderVars
<1> DEFINE el == Head(input_stash[r])
<1>1. /\ el \in Element /\ Tail(input_stash[r]) \in Seq(Element)
      /\ el.kind \in {"Item", "FlushAndRestart", "Terminate"}
  <2>1. el \in Element /\ Tail(input_stash[r]) \in Seq(Element)
    BY TypedAt DEF IInv, NextInput
  <2> QED BY <2>1, Zenon DEF Element
<1>2. /\ pc[r] = "run" /\ ~input_finished[r]
      /\ Forward(Stamp(r, el))
      /\ pc'[r] = (IF el.kind = "Terminate" THEN "terminated" ELSE "run")
      /\ input_finished'[r] = (el.kind = "FlushAndRestart")
      /\ content' = content /\ iter' = iter /\ job' = job /\ leader' = leader
      /\ \A q \in Replica : q # r => pc'[q] = pc[q] /\ input_finished'[q] = input_finished[q]
      /\ (IF el.kind = "FlushAndRestart" THEN Lock(HostOf[r]) ELSE generation' = generation)
  BY <1>1, Zenon DEF IInv, Typed, IterateTyped, NextInput
<1> HIDE DEF el
<1>3. content[r] = <<>>
  BY <1>2 DEF IInv, ContentInv, ContentOK
<1>4. ~Flushed(r) /\ (Flushed(r)' <=> el.kind = "FlushAndRestart")
  BY <1>1, <1>2, <1>3, Zenon DEF Flushed
<1>5. \A q \in Replica : q # r => Flushed(q)' = Flushed(q)
  BY <1>2 DEF Flushed
<1>6. iter[r] = Current /\ ~Done(r) /\ Current' = Current
  BY <1>2, <1>4, Unfinished DEF Current
<1>7. \A q \in Replica : Done(q)' <=> (Done(q) \/ (q = r /\ el.kind = "FlushAndRestart"))
  BY <1>2, <1>4, <1>5, <1>6, Zenon DEF Done
<1>8. /\ HostTyped' /\ HostInv'
      /\ generation' = generation \/ \E h \in Host : generation' = [generation EXCEPT ![h] = @ + 1]
  BY <1>2, <1>4, <1>5, LockInv, Zenon DEF NextInput
<1>9. BodyTyped' /\ BodyInv'
  <2>1. /\ Stamp(r, el) \in Element /\ Stamp(r, el).kind = el.kind
        /\ el.kind # "Terminate" => Stamp(r, el).iter = iter[r]
    BY <1>1, Stamped, Zenon
  <2>2. UNCHANGED <<job, leader, body, reading>>
    BY Zenon DEF NextInput
  <2>3. \A q \in Replica : Done(q)' <=> (Done(q) \/ (q = r /\ Stamp(r, el).kind = "FlushAndRestart"))
    BY <1>7, <2>1, Zenon
  <2>4. Stamp(r, el).kind # "Terminate" => Stamp(r, el).iter = iter[r]
    BY <2>1, Zenon
  <2> QED BY <1>2, <1>4, <1>8, <2>1, <2>2, <2>3, <2>4, ForwardInv, Zenon
<1>10. Typed'
  <2>1. pc' \in [Replica -> {"run", "wait_update", "set", "barrier", "unlock",
                           "resume", "terminated"}]
        /\ input_finished' \in [Replica -> BOOLEAN]
    BY <1>1, Zenon DEF IInv, Typed, IterateTyped, NextInput
  <2>2. IterateTyped'
    BY <1>1, <2>1, Zenon DEF IInv, Typed, IterateTyped, NextInput, Replica, el
  <2> QED BY <1>8, <1>9, <2>2, TypedFrame, Zenon DEF IInv, Typed, NextInput
<1>11. IterateInv'
  <2>1. IterateOK(r)'
    BY <1>2, <1>4, <1>6, Zenon DEF IInv, IterateInv, IterateOK, NextInput
  <2>2. \A q \in Replica : q # r => IterateOK(q)'
    <3>1. state_channel' = state_channel /\ update' = update
      BY Zenon DEF NextInput
    <3> QED BY <1>2, <1>5, <1>6, <3>1, IterateSame, Zenon DEF IInv, IterateInv
  <2> QED BY <2>1, <2>2, Fixed, Zenon DEF IterateInv, NextInput
<1>12. ContentInv'
  <2>1. ASSUME NEW q \in Replica PROVE ContentOK(q)'
    <3>1. CASE q = r
      <4>1. DOMAIN <<>> = {}
        OBVIOUS
      <4> QED BY <1>2, <1>3, <3>1, <4>1, Zenon DEF ContentOK
    <3>2. CASE q # r
      BY <1>2, <3>2, ContentSame, Zenon DEF IInv, ContentInv, NextInput
    <3> QED BY <3>1, <3>2
  <2> QED BY <2>1, Fixed, Zenon DEF ContentInv, NextInput
<1>13. FeedbackInv'
  <2>1. ASSUME NEW q \in Replica PROVE FeedbackOK(q)'
    <3>1. Passed(q)' = Passed(q)
      BY <1>2, Zenon DEF Passed, Past
    <3>2. /\ feedback' = feedback /\ feedback_content' = feedback_content /\ body' = body
          /\ pc'[q] \in {"wait_update", "set", "barrier"} => pc[q] \in {"wait_update", "set", "barrier"}
      BY <1>2, Zenon DEF NextInput
    <3> QED BY <1>2, <3>1, <3>2, FeedbackSame, Zenon DEF IInv, FeedbackInv
  <2> QED BY <2>1, Fixed, Zenon DEF FeedbackInv, NextInput
<1>14. EndInv' /\ LeaderInv'
  BY EndFrame, LeaderFrame, Zenon DEF IInv, NextInput
<1> QED
  BY <1>8, <1>9, <1>10, <1>11, <1>12, <1>13, <1>14 DEF IInv

\* Iterate returns an element of the content of the iteration.
LEMMA NextStoredInv ==
    ASSUME IInv, NEW r \in Replica, NextStored(r)
    PROVE  IInv'
<1> USE DEF hostVars, bodyVars, leaderVars
<1> DEFINE el == Head(content[r])
<1>1. /\ content[r] \in Seq(Element) /\ content[r] # <<>>
      /\ el \in Element /\ el = content[r][1] /\ Tail(content[r]) \in Seq(Element)
      /\ Len(Tail(content[r])) = Len(content[r]) - 1 /\ Len(content[r]) \in Nat \ {0}
      /\ \A i \in 1 .. Len(content[r]) - 1 : Tail(content[r])[i] = content[r][i + 1]
      /\ DOMAIN content[r] = 1 .. Len(content[r])
      /\ DOMAIN Tail(content[r]) = 1 .. Len(content[r]) - 1
  <2>1. content[r] \in Seq(Element) /\ content[r] # <<>>
    BY TypedAt, Zenon DEF IInv, NextStored
  <2> QED BY <2>1
<1>2. /\ pc[r] = "run" /\ input_finished[r]
      /\ Forward(Stamp(r, el))
      /\ content'[r] = Tail(content[r])
      /\ pc' = pc /\ input_finished' = input_finished
      /\ iter' = iter /\ job' = job /\ leader' = leader
      /\ \A q \in Replica : q # r => content'[q] = content[q]
      /\ (IF el.kind = "FlushAndRestart" THEN Lock(HostOf[r]) ELSE generation' = generation)
  BY <1>1, Zenon DEF IInv, Typed, IterateTyped, NextStored
<1>3. \A i \in DOMAIN content[r] :
          content[r][i].kind = "FlushAndRestart" <=> i = Len(content[r])
  BY DEF IInv, ContentInv, ContentOK
<1> HIDE DEF el
<1>4. ~Flushed(r) /\ (Flushed(r)' <=> el.kind = "FlushAndRestart")
  <2>1. el.kind = "FlushAndRestart" <=> Len(content[r]) = 1
    <3>1. 1 \in DOMAIN content[r]
      BY <1>1
    <3>2. content[r][1].kind = "FlushAndRestart" <=> 1 = Len(content[r])
      BY <1>3, <3>1, Zenon
    <3> QED BY <1>1, <3>2, Zenon
  <2>2. Tail(content[r]) = <<>> <=> Len(content[r]) = 1
    <3>1. Len(content[r]) = 1 => Len(Tail(content[r])) = 0
      BY <1>1
    <3>2. Len(content[r]) = 1 => Tail(content[r]) = <<>>
      BY <1>1, <3>1, EmptySeq, Zenon
    <3>a. Len(<<>>) = 0
      OBVIOUS
    <3>3. Tail(content[r]) = <<>> => Len(Tail(content[r])) = 0
      BY <3>a, Zenon
    <3> QED BY <1>1, <3>2, <3>3
  <2> QED BY <1>1, <1>2, <2>1, <2>2, Zenon DEF Flushed
<1>5. \A q \in Replica : q # r => Flushed(q)' = Flushed(q)
  BY <1>2, Zenon DEF Flushed
<1>6. iter[r] = Current /\ ~Done(r) /\ Current' = Current
  BY <1>2, <1>4, Unfinished, Zenon DEF Current
<1>7. \A q \in Replica : Done(q)' <=> (Done(q) \/ (q = r /\ el.kind = "FlushAndRestart"))
  BY <1>2, <1>4, <1>5, <1>6, Zenon DEF Done
<1>8. /\ HostTyped' /\ HostInv'
      /\ generation' = generation \/ \E h \in Host : generation' = [generation EXCEPT ![h] = @ + 1]
  BY <1>2, <1>4, <1>5, LockInv, Zenon DEF NextStored
<1>9. BodyTyped' /\ BodyInv'
  <2>1. /\ Stamp(r, el) \in Element /\ Stamp(r, el).kind = el.kind
        /\ el.kind # "Terminate" => Stamp(r, el).iter = iter[r]
    BY <1>1, Stamped, Zenon
  <2> QED BY <1>2, <1>4, <1>7, <1>8, <2>1, ForwardInv, Zenon DEF NextStored
<1>10. Typed'
  <2>1. IterateTyped'
    BY <1>1, Zenon DEF IInv, Typed, IterateTyped, NextStored, Replica
  <2> QED BY <1>8, <1>9, <2>1, TypedFrame, Zenon DEF IInv, Typed, NextStored
<1>11. IterateInv'
  <2>1. IterateOK(r)'
    BY <1>2, <1>4, <1>6, Zenon DEF IInv, IterateInv, IterateOK, NextStored
  <2>2. \A q \in Replica : q # r => IterateOK(q)'
    <3>1. state_channel' = state_channel /\ update' = update
      BY Zenon DEF NextStored
    <3> QED BY <1>2, <1>5, <1>6, <3>1, IterateSame, Zenon DEF IInv, IterateInv
  <2> QED BY <2>1, <2>2, Fixed, Zenon DEF IterateInv, NextStored
<1>12. ContentInv'
  <2>1. ContentOK(r)'
    <3>1. \A i \in DOMAIN content'[r] :
              content'[r][i].kind = "FlushAndRestart" <=> i = Len(content'[r])
      <4>0. /\ DOMAIN content'[r] = 1 .. Len(content[r]) - 1
            /\ Len(content'[r]) = Len(content[r]) - 1
            /\ \A i \in 1 .. Len(content[r]) - 1 : content'[r][i] = content[r][i + 1]
        BY <1>1, <1>2, Zenon
      <4> SUFFICES ASSUME NEW i \in 1 .. Len(content[r]) - 1
                   PROVE  content[r][i + 1].kind = "FlushAndRestart" <=> i = Len(content[r]) - 1
        BY <4>0
      <4>1. i + 1 \in DOMAIN content[r]
        BY <1>1
      <4> QED BY <1>1, <1>3, <4>1
    <3> QED BY <1>2, <3>1, Zenon DEF ContentOK
  <2>2. \A q \in Replica : q # r => ContentOK(q)'
    BY <1>2, ContentSame, Zenon DEF IInv, ContentInv, NextStored
  <2> QED BY <2>1, <2>2, Fixed, Zenon DEF ContentInv, NextStored
<1>13. FeedbackInv'
  <2>1. ASSUME NEW q \in Replica PROVE FeedbackOK(q)'
    <3>1. Passed(q)' = Passed(q)
      BY <1>2, Zenon DEF Passed, Past
    <3>2. /\ feedback' = feedback /\ feedback_content' = feedback_content /\ body' = body
          /\ pc'[q] \in {"wait_update", "set", "barrier"} => pc[q] \in {"wait_update", "set", "barrier"}
      BY <1>2, Zenon DEF NextStored
    <3> QED BY <1>2, <3>1, <3>2, FeedbackSame, Zenon DEF IInv, FeedbackInv
  <2> QED BY <2>1, Fixed, Zenon DEF FeedbackInv, NextStored
<1>14. EndInv' /\ LeaderInv'
  BY EndFrame, LeaderFrame, Zenon DEF IInv, NextStored
<1> QED
  BY <1>8, <1>9, <1>10, <1>11, <1>12, <1>13, <1>14 DEF IInv
===============================================================================
