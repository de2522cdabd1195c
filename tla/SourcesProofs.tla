---------------------------- MODULE SourcesProofs ----------------------------
(***************************************************************************)
(* The chunks that the replicas of a parallel source take of a range are a  *)
(* partition of it, for every range and every number of replicas.           *)
(***************************************************************************)
EXTENDS Sources, TLAPS

\* Every element of the range is in exactly one of the shares, and they hold nothing else.
Partitions(share, lo, hi, peers) ==
    /\ \A id \in 0..peers - 1 : Range(share[id]) \subseteq lo..hi - 1
    /\ \A v \in lo..hi - 1 : \E id \in 0..peers - 1 : v \in Range(share[id])
    /\ \A p, q \in 0..peers - 1 : p # q => Range(share[p]) \cap Range(share[q]) = {}

\* Division rounded down (the / of the code on non-negative numbers).
LEMMA DivisionBounds ==
    ASSUME NEW a \in Int, NEW c \in Nat \ {0}
    PROVE  /\ a \div c \in Int
           /\ c * (a \div c) <= a
           /\ a < c * (a \div c) + c
BY SMT

\* What a chunk of generate_iterator holds: the integers from its start up to its end, or
\* nothing when it starts past the end of the range.
LEMMA ChunkElements ==
    ASSUME NEW lo \in Int, NEW hi \in Int, NEW id \in Nat, NEW chunk \in Nat, lo <= hi
    PROVE  Range(Chunk(lo, hi, id, chunk)) =
             {v \in lo..hi - 1 : lo + id * chunk <= v /\ v < lo + id * chunk + chunk}
<1> DEFINE start == lo + id * chunk
           end == Larger(Smaller(start + chunk, hi), lo)
           share == [i \in 1..Larger(end - start, 0) |-> start + i - 1]
<1>1. id * chunk \in Nat
  BY SMT
<1>2. /\ start \in Int /\ start >= lo
      /\ end \in Int
      /\ end = IF start + chunk < hi THEN start + chunk ELSE hi
  BY <1>1 DEF Larger, Smaller
<1>3. Chunk(lo, hi, id, chunk) = share
  BY DEF Chunk
<1>4. Range(share) = {v \in Int : start <= v /\ v < end}
  <2> HIDE DEF start, end
  <2>1. ASSUME NEW v \in Range(share)
        PROVE  v \in Int /\ start <= v /\ v < end
    <3>1. PICK i \in DOMAIN share : v = share[i]
      BY <2>1 DEF Range
    <3>2. i \in 1..Larger(end - start, 0) /\ v = start + i - 1
      BY <3>1
    <3>. QED
      BY <1>2, <3>2 DEF Larger
  <2>2. ASSUME NEW v \in Int, start <= v, v < end
        PROVE  v \in Range(share)
    <3>1. v - start + 1 \in 1..Larger(end - start, 0)
      BY <1>2, <2>2 DEF Larger
    <3>2. share[v - start + 1] = v
      BY <1>2, <2>2, <3>1
    <3>. QED
      BY <3>1, <3>2 DEF Range
  <2>. QED
    BY <2>1, <2>2
<1>. QED
  BY <1>2, <1>3, <1>4

\* Chunks of a size that covers the range when there is one for every replica.
LEMMA ChunksPartition ==
    ASSUME NEW lo \in Int, NEW hi \in Int, NEW peers \in Nat \ {0}, NEW chunk \in Nat,
           lo <= hi, hi - lo <= chunk * peers
    PROVE  Partitions([id \in 0..peers - 1 |-> Chunk(lo, hi, id, chunk)], lo, hi, peers)
<1>1. \A id \in 0..peers - 1 : Range(Chunk(lo, hi, id, chunk)) =
         {v \in lo..hi - 1 : lo + id * chunk <= v /\ v < lo + id * chunk + chunk}
  BY ChunkElements
<1>2. ASSUME NEW v \in lo..hi - 1
      PROVE  \E id \in 0..peers - 1 : v \in Range(Chunk(lo, hi, id, chunk))
  <2>1. chunk \in Nat \ {0}
    BY <1>2, SMT
  <2> DEFINE id == (v - lo) \div chunk
  <2>2. /\ id \in Int
        /\ chunk * id <= v - lo
        /\ v - lo < chunk * id + chunk
    BY <2>1, <1>2, DivisionBounds
  <2> HIDE DEF id
  <2>3. id >= 0
    BY <1>2, <2>1, <2>2, SMT
  <2>4. chunk * id < chunk * peers
    BY <1>2, <2>2, SMT
  <2>5. id \in 0..peers - 1
    BY <2>1, <2>2, <2>3, <2>4, SMT
  <2>6. lo + id * chunk <= v /\ v < lo + id * chunk + chunk
    BY <2>2, SMT
  <2>. QED
    BY <1>1, <1>2, <2>5, <2>6
<1>3. ASSUME NEW p \in 0..peers - 1, NEW q \in 0..peers - 1, p < q
      PROVE  Range(Chunk(lo, hi, p, chunk)) \cap Range(Chunk(lo, hi, q, chunk)) = {}
  <2>1. p * chunk + chunk <= q * chunk
    BY <1>3, SMT
  <2>2. p * chunk \in Nat /\ q * chunk \in Nat
    BY SMT
  <2>. QED
    BY <1>1, <2>1, <2>2
<1>4. ASSUME NEW p \in 0..peers - 1, NEW q \in 0..peers - 1, p # q
      PROVE  Range(Chunk(lo, hi, p, chunk)) \cap Range(Chunk(lo, hi, q, chunk)) = {}
  <2>1. p < q \/ q < p
    BY <1>4
  <2>. QED
    BY <1>3, <2>1
<1>. QED
  BY <1>1, <1>2, <1>4 DEF Partitions

\* generate_iterator of Range<u8>, ..., Range<isize> (parallel_iterator.rs:42-62): whatever the
\* number of replicas, each element of the range is generated by one of them, once.
THEOREM RangeIsPartitioned ==
    ASSUME NEW lo \in Int, NEW hi \in Int, NEW peers \in Nat \ {0}, lo <= hi
    PROVE  Partitions([id \in 0..peers - 1 |-> generate_iterator(lo, hi, id, peers)], lo, hi, peers)
<1> DEFINE chunk == (hi - lo + peers - 1) \div peers
<1>1. /\ chunk \in Int
      /\ peers * chunk <= hi - lo + peers - 1
      /\ hi - lo + peers - 1 < peers * chunk + peers
  BY DivisionBounds
<1> HIDE DEF chunk
<1>2. chunk \in Nat /\ hi - lo <= chunk * peers
  BY <1>1, SMT
<1>3. Partitions([id \in 0..peers - 1 |-> Chunk(lo, hi, id, chunk)], lo, hi, peers)
  BY <1>2, ChunksPartition
<1>. QED
  BY <1>3 DEF Partitions, generate_iterator, chunk

\* The same for Range<u64> (parallel_iterator.rs:22-40), which rounds up in another way.
THEOREM RangeU64IsPartitioned ==
    ASSUME NEW lo \in Int, NEW hi \in Int, NEW peers \in Nat \ {0}, lo <= hi
    PROVE  Partitions([id \in 0..peers - 1 |-> u64_generate_iterator(lo, hi, id, peers)], lo, hi, peers)
<1> DEFINE floor == (hi - lo) \div peers
           chunk == floor + IF (hi - lo) % peers > 0 THEN 1 ELSE 0
<1>1. /\ floor \in Int
      /\ hi - lo = peers * floor + ((hi - lo) % peers)
      /\ 0 <= (hi - lo) % peers /\ (hi - lo) % peers < peers
  BY SMT
<1> HIDE DEF floor
<1>2. floor \in Nat
  BY <1>1, SMT
<1>3. chunk \in Nat /\ hi - lo <= chunk * peers
  <2>1. CASE (hi - lo) % peers > 0
    BY <1>1, <1>2, <2>1, SMT
  <2>2. CASE (hi - lo) % peers = 0
    BY <1>1, <1>2, <2>2, SMT
  <2>. QED
    BY <1>1, <2>1, <2>2
<1> HIDE DEF chunk
<1>4. Partitions([id \in 0..peers - 1 |-> Chunk(lo, hi, id, chunk)], lo, hi, peers)
  BY <1>3, ChunksPartition
<1>. QED
  BY <1>4 DEF Partitions, u64_generate_iterator, chunk, floor
=============================================================================
