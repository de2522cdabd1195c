------------------------ MODULE BatchSchedulerProofs ------------------------
(***************************************************************************)
(* The safety of the timers, for every number of workers and of batches and *)
(* every capacity of the channels.                                          *)
(***************************************************************************)
EXTENDS BatchScheduler, TLAPS, FiniteSetTheorems, SequenceTheorems

-----------------------------------------------------------------------------
(* The inductive invariant *)

\* What a worker has sent is in the channel or with the next one, and it sends no more
\* than it has.
FlowInv ==
    \A w \in Batching :
        /\ consumed[w + 1] + channel[w] = produced[w]
        /\ produced[w] <= Available(w)
        /\ locked[w] => produced[w] < Available(w)

\* The thread that holds the entry is the one that scans it, at one of its tasks.
GuardInv ==
    \A t \in Thread :
        /\ pc[t] \in {"scan", "flush"} <=> guard = t
        /\ guard = t => tasks # Absent /\ index[t] >= 1
        /\ pc[t] = "flush" => index[t] <= Len(tasks)

\* The entry has every batcher at most once, and only registered ones.
TasksInv ==
    tasks # Absent =>
        /\ \A i \in DOMAIN tasks : Registered(tasks[i])
        /\ \A i, j \in DOMAIN tasks : tasks[i] = tasks[j] => i = j

KeptInv ==
    \A w \in Batching : (Registered(w) /\ ~cancel_token[w]) =>
        tasks # Absent /\ \E i \in DOMAIN tasks : tasks[i] = w

IInv == TypeOK /\ FlowInv /\ GuardInv /\ EntryHasThread /\ TasksInv /\ KeptInv

-----------------------------------------------------------------------------
(* Sequences *)

\* retain_mut drops one task at a time, and leaves the others in their order.
LEMMA RemoveAtKeeps ==
    ASSUME NEW S, NEW s \in Seq(S), NEW i \in 1 .. Len(s)
    PROVE  /\ RemoveAt(s, i) \in Seq(S)
           /\ Len(RemoveAt(s, i)) = Len(s) - 1
           /\ \A j \in 1 .. Len(s) - 1 :
                 RemoveAt(s, i)[j] = IF j < i THEN s[j] ELSE s[j + 1]
<1> DEFINE a == SubSeq(s, 1, i - 1)
           b == SubSeq(s, i + 1, Len(s))
<1>0. Len(s) \in Nat
  OBVIOUS
<1>1. a \in Seq(S) /\ Len(a) = i - 1 /\ \A j \in 1 .. i - 1 : a[j] = s[j]
  OBVIOUS
<1>2. b \in Seq(S) /\ Len(b) = Len(s) - i /\ \A j \in 1 .. Len(s) - i : b[j] = s[i + j]
  OBVIOUS
<1>3. RemoveAt(s, i) = a \o b
  BY DEF RemoveAt
<1> HIDE DEF a, b
<1>4. a \o b \in Seq(S) /\ Len(a \o b) = Len(s) - 1
  <2>1. a \o b \in Seq(S) /\ Len(a \o b) = Len(a) + Len(b)
    BY <1>1, <1>2, ConcatProperties, Zenon
  <2>. QED
    BY <1>0, <1>1, <1>2, <2>1
<1>5. ASSUME NEW j \in 1 .. Len(s) - 1
      PROVE  (a \o b)[j] = IF j < i THEN s[j] ELSE s[j + 1]
  <2>1. CASE j < i
    BY <1>1, <1>2, <2>1
  <2>2. CASE j >= i
    <3>1. (a \o b)[j] = b[j - (i - 1)]
      BY <1>1, <1>2, <2>2
    <3>2. j - (i - 1) \in 1 .. Len(s) - i
      BY <2>2
    <3>. QED
      BY <1>2, <2>2, <3>1, <3>2
  <2>3. j < i \/ j >= i
    BY <1>0
  <2>. QED
    BY <2>1, <2>2, <2>3, Zenon
<1>. QED
  BY <1>3, <1>4, <1>5

\* Absent is not a list of batchers.
LEMMA AbsentIsNoList == Absent \notin Seq(Batching)
BY DEF Absent, Batching

LEMMA InitIInv == Init => IInv
<1> SUFFICES ASSUME Init PROVE IInv
  OBVIOUS
<1>1. TypeOK
  <2>1. building \in 1 .. N + 1 /\ guard \in {0} \cup Thread
    BY WorkersAssumption DEF Init
  <2>2. consumed \in [Worker -> 0 .. Batches] /\ produced \in [Worker -> 0 .. Batches]
    BY BatchesAssumption DEF Init
  <2>3. channel \in [Batching -> 0 .. Capacity] /\ index \in [Thread -> Nat]
    BY BatchesAssumption DEF Init
  <2>4. pc \in [Thread -> Control] /\ (tasks = Absent \/ tasks \in Seq(Batching))
    BY DEF Init, Control
  <2>5. /\ started \in [Worker -> BOOLEAN] /\ finished \in [Worker -> BOOLEAN]
        /\ locked \in [Batching -> BOOLEAN] /\ cancel_token \in [Batching -> BOOLEAN]
        /\ is_set_up \in BOOLEAN /\ returned \in BOOLEAN
    BY Zenon DEF Init
  <2>. QED
    BY <2>1, <2>2, <2>3, <2>4, <2>5 DEF TypeOK
<1>2. FlowInv
  BY WorkersAssumption, BatchesAssumption DEF Init, FlowInv, Worker, Batching, Available
<1>3. GuardInv
  BY DEF Init, GuardInv, Thread
<1>4. EntryHasThread /\ TasksInv
  BY <1>1 DEF Init, EntryHasThread, TasksInv
<1>5. KeptInv
  BY DEF Init, KeptInv, Registered, Batching
<1>. QED
  BY <1>1, <1>2, <1>3, <1>4, <1>5 DEF IInv

-----------------------------------------------------------------------------
(* build_all *)

\* Registering puts the batcher in the entry, with a thread to serve it.
LEMMA RegisterIInv ==
    ASSUME IInv, SetUp, building \in Batching
    PROVE  IInv'
<1> DEFINE w == building
<1>1. /\ guard = 0 /\ UNCHANGED <<guard, index>>
      /\ building' = building /\ is_set_up' = TRUE /\ ~is_set_up
      /\ UNCHANGED <<returned, workers>>
  BY DEF SetUp, Register
<1>2. \A v \in Batching : Registered(v)' <=> (Registered(v) \/ v = w)
  BY <1>1 DEF Registered, IInv, TypeOK, Batching
<1>3. ~Registered(w)
  BY <1>1 DEF Registered, IInv, TypeOK, Batching
<1>4. CASE tasks # Absent
  <2>1. tasks' = Append(tasks, w) /\ UNCHANGED pc
    BY <1>4 DEF SetUp, Register
  <2>2. /\ tasks \in Seq(Batching) /\ tasks' \in Seq(Batching)
        /\ Len(tasks') = Len(tasks) + 1 /\ Len(tasks) \in Nat
        /\ \A i \in 1 .. Len(tasks) : tasks'[i] = tasks[i]
        /\ tasks'[Len(tasks) + 1] = w
        /\ DOMAIN tasks = 1 .. Len(tasks) /\ DOMAIN tasks' = 1 .. Len(tasks) + 1
    BY <1>4, <2>1 DEF IInv, TypeOK
  <2>3. tasks' # Absent
    BY <2>2, AbsentIsNoList
  <2>4. TypeOK'
    BY <1>1, <2>1, <2>2 DEF IInv, TypeOK, workers, flow
  <2>5. FlowInv'
    BY <1>1 DEF IInv, FlowInv, Available, workers, flow
  <2>6. GuardInv'
    BY <1>1, <2>1, <2>2, <2>3 DEF IInv, GuardInv, Thread
  <2>7. EntryHasThread'
    BY <1>4, <2>1, <2>4 DEF IInv, EntryHasThread, Alive
  <2>8. TasksInv'
    <3>1. \A i \in 1 .. Len(tasks) : tasks[i] # w /\ Registered(tasks[i]) /\ tasks[i] \in Batching
      BY <1>3, <1>4, <2>2 DEF IInv, TasksInv
    <3>. QED
      BY <1>2, <1>4, <2>2, <3>1 DEF IInv, TasksInv
  <2>9. KeptInv'
    BY <1>1, <1>2, <1>4, <2>2, <2>3 DEF IInv, KeptInv, workers
  <2>. QED
    BY <2>4, <2>5, <2>6, <2>7, <2>8, <2>9 DEF IInv
<1>5. CASE tasks = Absent
  <2>1. tasks' = <<w>> /\ \E t \in Thread : pc[t] = "unused" /\ pc' = [pc EXCEPT ![t] = "sleep"]
    BY <1>5 DEF SetUp, Register
  <2>2. PICK t \in Thread : pc[t] = "unused" /\ pc' = [pc EXCEPT ![t] = "sleep"]
    BY <2>1, Zenon
  <2>3. /\ tasks' \in Seq(Batching) /\ tasks' # Absent /\ Len(tasks') = 1 /\ tasks'[1] = w
        /\ DOMAIN tasks' = {1}
    BY <2>1 DEF Absent, Batching
  <2>4. /\ pc' \in [Thread -> Control] /\ pc'[t] = "sleep"
        /\ \A u \in Thread : u # t => pc'[u] = pc[u]
    BY <2>2 DEF IInv, TypeOK, Control
  <2>5. TypeOK'
    BY <1>1, <2>3, <2>4 DEF IInv, TypeOK, workers, flow
  <2>6. FlowInv'
    BY <1>1 DEF IInv, FlowInv, Available, workers, flow
  <2>7. GuardInv'
    BY <1>1, <2>2, <2>3, <2>4 DEF IInv, GuardInv, Thread
  <2>8. EntryHasThread'
    BY <2>4, <2>5 DEF EntryHasThread, Alive
  <2>9. TasksInv'
    BY <1>2, <2>3 DEF TasksInv
  <2>10. KeptInv'
    BY <1>1, <1>2, <1>5, <2>3 DEF IInv, KeptInv, workers
  <2>. QED
    BY <2>5, <2>6, <2>7, <2>8, <2>9, <2>10 DEF IInv
<1>. QED
  BY <1>4, <1>5

\* The setup of the sink, the start of a worker and the final join leave the timers alone;
\* a worker is registered before it is started.
LEMMA MainIInv ==
    ASSUME IInv, Main
    PROVE  IInv'
<1>1. CASE SetUp /\ building \in Batching
  BY <1>1, RegisterIInv
<1>2. ASSUME UNCHANGED <<clock, flow, cancel_token>>, TypeOK',
             \A w \in Batching : Registered(w)' <=> Registered(w)
      PROVE  IInv'
  <2>1. FlowInv'
    BY <1>2 DEF IInv, FlowInv, Available, flow
  <2>2. GuardInv' /\ EntryHasThread'
    BY <1>2 DEF IInv, GuardInv, EntryHasThread, Alive, clock
  <2>3. TasksInv'
    <3>1. tasks # Absent => \A i \in DOMAIN tasks : tasks[i] \in Batching
      BY DEF IInv, TypeOK
    <3>. QED
      BY <1>2, <3>1 DEF IInv, TasksInv, clock
  <2>4. KeptInv'
    BY <1>2 DEF IInv, KeptInv, clock
  <2>. QED
    BY <1>2, <2>1, <2>2, <2>3, <2>4 DEF IInv
<1>3. CASE SetUp /\ building \notin Batching
  <2>1. UNCHANGED <<clock, flow, cancel_token>> /\ TypeOK'
    BY <1>3 DEF SetUp, workers, flow, clock, IInv, TypeOK
  <2>2. \A w \in Batching : Registered(w)' <=> Registered(w)
    BY <1>3 DEF SetUp, Registered, Batching, IInv, TypeOK
  <2>. QED
    BY <1>2, <2>1, <2>2
<1>4. CASE Spawn
  <2>1. UNCHANGED <<clock, flow, cancel_token>>
    BY <1>4 DEF Spawn, flow, clock
  <2>2. started' \in [Worker -> BOOLEAN]
    BY <1>4 DEF Spawn, IInv, TypeOK
  <2>3. building' \in 1 .. N + 1 /\ is_set_up' \in BOOLEAN
    <3>1. building' = building + 1 /\ building \in 1 .. N /\ is_set_up' = FALSE
      BY <1>4 DEF Spawn, Worker
    <3>2. building' \in 1 .. N + 1
      BY <3>1, WorkersAssumption
    <3>3. is_set_up' \in BOOLEAN
      BY <3>1, Zenon
    <3>. QED
      BY <3>2, <3>3
  <2>4. TypeOK'
    BY <1>4, <2>1, <2>2, <2>3 DEF Spawn, flow, clock, IInv, TypeOK
  <2>5. \A w \in Batching : Registered(w)' <=> Registered(w)
    BY <1>4 DEF Spawn, Registered, Batching, Worker, IInv, TypeOK
  <2>. QED
    BY <1>2, <2>1, <2>4, <2>5
<1>5. CASE Join
  <2>1. UNCHANGED <<clock, flow, cancel_token>> /\ TypeOK'
    BY <1>5 DEF Join, workers, flow, clock, IInv, TypeOK
  <2>2. \A w \in Batching : Registered(w)' <=> Registered(w)
    BY <1>5 DEF Join, Registered
  <2>. QED
    BY <1>2, <2>1, <2>2
<1>. QED
  BY <1>1, <1>3, <1>4, <1>5 DEF Main

-----------------------------------------------------------------------------
(* The workers *)

\* A step of a worker changes only the flow of the batches and its cancel token, which is
\* never taken back.
LEMMA WorkersLeaveTimers ==
    ASSUME IInv, UNCHANGED <<main, clock>>, TypeOK', FlowInv',
           \A w \in Batching : cancel_token[w] => cancel_token'[w]
    PROVE  IInv'
<1>1. GuardInv' /\ EntryHasThread' /\ TasksInv'
  BY DEF IInv, GuardInv, EntryHasThread, Alive, TasksInv, Registered, main, clock
<1>2. KeptInv'
  BY DEF IInv, KeptInv, Registered, main, clock
<1>. QED
  BY <1>1, <1>2 DEF IInv

LEMMA RecvIInv ==
    ASSUME IInv, NEW w \in Worker, Recv(w)
    PROVE  IInv'
<1>1. /\ w - 1 \in Batching /\ w \in 2 .. N
      /\ UNCHANGED <<main, clock, started, finished, produced, locked, cancel_token>>
      /\ channel' = [channel EXCEPT ![w - 1] = @ - 1] /\ channel[w - 1] > 0
      /\ consumed' = [consumed EXCEPT ![w] = @ + 1]
      /\ w \in Batching => produced[w] = consumed[w]
  BY WorkersAssumption DEF Recv, Worker, Batching
<1>2. consumed[w] + channel[w - 1] = produced[w - 1]
  BY <1>1 DEF IInv, FlowInv, TypeOK, Worker, Batching
<1>3. channel' \in [Batching -> 0 .. Capacity] /\ consumed' \in [Worker -> 0 .. Batches]
  <2>1. /\ channel[w - 1] \in 1 .. Capacity /\ consumed[w] \in Nat /\ produced[w - 1] \in 0 .. Batches
    <3>1. w - 1 \in Batching /\ w - 1 \in Worker
      BY <1>1, WorkersAssumption DEF Worker
    <3>2. channel[w - 1] \in 0 .. Capacity /\ consumed[w] \in 0 .. Batches /\ produced[w - 1] \in 0 .. Batches
      BY <3>1 DEF IInv, TypeOK
    <3>. QED
      BY <1>1, <3>2, BatchesAssumption
  <2>2. channel[w - 1] - 1 \in 0 .. Capacity /\ consumed[w] + 1 \in 0 .. Batches
    BY <1>2, <2>1, BatchesAssumption
  <2>. QED
    BY <1>1, <2>2 DEF IInv, TypeOK
<1>4. TypeOK'
  BY <1>1, <1>3 DEF IInv, TypeOK, main, clock
<1>5. FlowInv'
  <2> SUFFICES ASSUME NEW v \in Batching
               PROVE  /\ consumed'[v + 1] + channel'[v] = produced[v]
                      /\ produced[v] <= Available(v)'
                      /\ locked[v] => produced[v] < Available(v)'
    BY <1>1 DEF FlowInv
  <2>0. v \in Worker /\ v + 1 \in Worker /\ v \in Int /\ w \in Int
    BY WorkersAssumption DEF Worker, Batching
  <2>1. /\ consumed[v + 1] + channel[v] = produced[v]
        /\ produced[v] <= Available(v)
        /\ locked[v] => produced[v] < Available(v)
    BY DEF IInv, FlowInv
  <2>2. /\ consumed[v] \in Nat /\ consumed[v + 1] \in Nat /\ channel[v] \in Nat /\ produced[v] \in Nat
    BY <2>0 DEF IInv, TypeOK
  <2>3. consumed'[v + 1] + channel'[v] = produced[v]
    <3>1. CASE v + 1 = w
      <4>1. v = w - 1
        BY <2>0, <3>1
      <4>2. consumed'[v + 1] = consumed[v + 1] + 1 /\ channel'[v] = channel[v] - 1
        BY <1>1, <2>0, <3>1, <4>1 DEF IInv, TypeOK
      <4>. QED
        BY <2>1, <2>2, <4>2
    <3>2. CASE v + 1 # w
      <4>1. v # w - 1
        BY <2>0, <3>2
      <4>2. consumed'[v + 1] = consumed[v + 1] /\ channel'[v] = channel[v]
        BY <1>1, <2>0, <3>2, <4>1 DEF IInv, TypeOK
      <4>. QED
        BY <2>1, <4>2
    <3>. QED
      BY <3>1, <3>2
  <2>4. consumed'[v] = consumed[v] \/ consumed'[v] = consumed[v] + 1
    BY <1>1, <2>0 DEF IInv, TypeOK
  <2>. QED
    BY <2>1, <2>2, <2>3, <2>4, BatchesAssumption DEF Available
<1>. QED
  BY <1>1, <1>4, <1>5, WorkersLeaveTimers DEF IInv

LEMMA LockIInv ==
    ASSUME IInv, NEW w \in Worker, Lock(w)
    PROVE  IInv'
<1>1. /\ w \in Batching /\ produced[w] < Available(w)
      /\ locked' = [locked EXCEPT ![w] = TRUE]
      /\ UNCHANGED <<main, clock, started, finished, consumed, produced, channel, cancel_token>>
  BY DEF Lock
<1>2. TypeOK'
  <2>1. locked' \in [Batching -> BOOLEAN]
    BY <1>1 DEF IInv, TypeOK
  <2>. QED
    BY <1>1, <2>1 DEF IInv, TypeOK, main, clock
<1>3. FlowInv'
  <2>1. \A v \in Batching : v # w => locked'[v] = locked[v]
    BY <1>1 DEF IInv, TypeOK
  <2>. QED
    BY <1>1, <2>1 DEF IInv, FlowInv, Available
<1>. QED
  BY <1>1, <1>2, <1>3, WorkersLeaveTimers

LEMMA SendIInv ==
    ASSUME IInv, NEW w \in Worker, Send(w)
    PROVE  IInv'
<1>1. /\ w \in Batching /\ locked[w] /\ channel[w] < Capacity
      /\ channel' = [channel EXCEPT ![w] = @ + 1]
      /\ produced' = [produced EXCEPT ![w] = @ + 1]
      /\ locked' = [locked EXCEPT ![w] = FALSE]
      /\ UNCHANGED <<main, clock, started, finished, consumed, cancel_token>>
  BY DEF Send
<1>2. produced[w] < Available(w) /\ Available(w) \in 0 .. Batches /\ produced[w] \in Nat
  BY <1>1, BatchesAssumption DEF IInv, FlowInv, TypeOK, Available
<1>3. TypeOK'
  <2>1. channel' \in [Batching -> 0 .. Capacity] /\ produced' \in [Worker -> 0 .. Batches]
    BY <1>1, <1>2, BatchesAssumption DEF IInv, TypeOK
  <2>2. locked' \in [Batching -> BOOLEAN]
    BY <1>1 DEF IInv, TypeOK
  <2>. QED
    BY <1>1, <2>1, <2>2 DEF IInv, TypeOK, main, clock
<1>4. FlowInv'
  <2> SUFFICES ASSUME NEW v \in Batching
               PROVE  /\ consumed[v + 1] + channel'[v] = produced'[v]
                      /\ produced'[v] <= Available(v)
                      /\ locked'[v] => produced'[v] < Available(v)
    BY <1>1 DEF FlowInv, Available
  <2>0. v \in Worker /\ v + 1 \in Worker
    BY WorkersAssumption DEF Worker, Batching
  <2>1. CASE v = w
    <3>1. channel'[v] = channel[v] + 1 /\ produced'[v] = produced[v] + 1 /\ ~locked'[v]
      BY <1>1, <2>0, <2>1 DEF IInv, TypeOK
    <3>2. consumed[v + 1] \in Nat /\ channel[v] \in Nat
      BY <2>0 DEF IInv, TypeOK
    <3>. QED
      BY <1>2, <2>1, <3>1, <3>2 DEF IInv, FlowInv
  <2>2. CASE v # w
    <3>1. channel'[v] = channel[v] /\ produced'[v] = produced[v] /\ locked'[v] = locked[v]
      BY <1>1, <2>0, <2>2 DEF IInv, TypeOK
    <3>. QED
      BY <3>1 DEF IInv, FlowInv
  <2>. QED
    BY <2>1, <2>2
<1>. QED
  BY <1>1, <1>3, <1>4, WorkersLeaveTimers

LEMMA FinishIInv ==
    ASSUME IInv, NEW w \in Worker, Finish(w)
    PROVE  IInv'
<1>1. /\ finished' = [finished EXCEPT ![w] = TRUE]
      /\ cancel_token' = [v \in Batching |-> cancel_token[v] \/ v = w]
      /\ UNCHANGED <<main, clock, started, flow>>
  BY DEF Finish
<1>2. finished' \in [Worker -> BOOLEAN] /\ cancel_token' \in [Batching -> BOOLEAN]
  BY <1>1 DEF IInv, TypeOK
<1>3. TypeOK'
  BY <1>1, <1>2 DEF IInv, TypeOK, main, clock, flow
<1>4. FlowInv'
  BY <1>1 DEF IInv, FlowInv, Available, flow
<1>5. \A v \in Batching : cancel_token[v] => cancel_token'[v]
  BY <1>1, Zenon
<1>. QED
  BY <1>1, <1>3, <1>4, <1>5, WorkersLeaveTimers, Zenon

-----------------------------------------------------------------------------
(* The timer threads *)

\* A step of a timer changes nothing of the workers.
LEMMA TimersLeaveWorkers ==
    ASSUME IInv, UNCHANGED <<main, workers>>,
           tasks' = Absent \/ tasks' \in Seq(Batching),
           guard' \in {0} \cup Thread, pc' \in [Thread -> Control], index' \in [Thread -> Nat],
           GuardInv', TasksInv', KeptInv',
           NEW t \in Thread, tasks' # Absent => Alive(t)'
    PROVE  IInv'
<1>1. TypeOK'
  BY DEF IInv, TypeOK, main, workers, flow
<1>2. FlowInv'
  BY DEF IInv, FlowInv, Available, workers, flow
<1>. QED
  BY <1>1, <1>2 DEF IInv, EntryHasThread

\* Where a step leaves the entry as it is, what is in it needs no argument.
LEMMA SameTasks ==
    ASSUME IInv, UNCHANGED <<main, workers, tasks>>
    PROVE  TasksInv' /\ KeptInv' /\ (tasks' = Absent \/ tasks' \in Seq(Batching))
BY DEF IInv, TypeOK, TasksInv, KeptInv, Registered, main, workers

LEMMA WakeIInv ==
    ASSUME IInv, NEW t \in Thread, Wake(t)
    PROVE  IInv'
<1>0. t \in 1 .. N - 1 /\ guard = 0 /\ pc[t] = "sleep" /\ UNCHANGED <<main, workers, tasks>>
  BY DEF Wake, Thread
<1>1. CASE tasks # Absent
  <2>1. guard' = t /\ pc' = [pc EXCEPT ![t] = "scan"] /\ index' = [index EXCEPT ![t] = 1]
    BY <1>1 DEF Wake
  <2>2. guard' \in {0} \cup Thread /\ pc' \in [Thread -> Control] /\ index' \in [Thread -> Nat]
    BY <2>1 DEF IInv, TypeOK, Control
  <2>3. pc'[t] = "scan" /\ index'[t] = 1 /\ \A u \in Thread : u # t => pc'[u] = pc[u]
    BY <2>1 DEF IInv, TypeOK
  <2>4. \A u \in Thread : pc[u] \notin {"scan", "flush"}
    BY <1>0 DEF IInv, GuardInv, Thread
  <2>5. GuardInv'
    BY <1>0, <1>1, <2>1, <2>3, <2>4, SMTT(20) DEF GuardInv
  <2>6. Alive(t)'
    BY <2>3 DEF Alive
  <2>. QED
    BY <1>0, <2>2, <2>5, <2>6, SameTasks, TimersLeaveWorkers, SMTT(20)
<1>2. CASE tasks = Absent
  <2>1. UNCHANGED <<guard, pc, index>>
    BY <1>2 DEF Wake
  <2>2. GuardInv'
    BY <1>0, <2>1 DEF IInv, GuardInv
  <2>3. guard' \in {0} \cup Thread /\ pc' \in [Thread -> Control] /\ index' \in [Thread -> Nat]
    BY <2>1 DEF IInv, TypeOK
  <2>. QED
    BY <1>0, <1>2, <2>2, <2>3, SameTasks, TimersLeaveWorkers, Zenon
<1>. QED
  BY <1>1, <1>2

\* Only a task whose batcher is cancelled leaves the entry.
LEMMA ScanTaskIInv ==
    ASSUME IInv, NEW t \in Thread, ScanTask(t)
    PROVE  IInv'
<1> DEFINE k == index[t]
<1>0. /\ pc[t] = "scan" /\ guard = t /\ tasks \in Seq(Batching) /\ k \in 1 .. Len(tasks)
      /\ UNCHANGED <<main, workers, guard, index>>
  <2>1. pc[t] = "scan" /\ k <= Len(tasks) /\ UNCHANGED <<main, workers, guard, index>>
    BY DEF ScanTask
  <2>2. guard = t
    BY <2>1 DEF IInv, GuardInv
  <2>3. tasks # Absent /\ k >= 1
    BY <2>2 DEF IInv, GuardInv
  <2>4. tasks \in Seq(Batching) /\ k \in Nat
    BY <2>3 DEF IInv, TypeOK
  <2>5. k \in 1 .. Len(tasks)
    BY <2>1, <2>3, <2>4
  <2>. QED
    BY <2>1, <2>2, <2>4, <2>5, Zenon
<1>1. guard' \in {0} \cup Thread /\ index' \in [Thread -> Nat]
  BY <1>0 DEF IInv, TypeOK
<1>2. CASE cancel_token[tasks[k]]
  <2>1. tasks' = RemoveAt(tasks, k) /\ UNCHANGED pc
    BY <1>2 DEF ScanTask
  <2>2. /\ tasks' \in Seq(Batching) /\ Len(tasks') = Len(tasks) - 1
        /\ \A j \in 1 .. Len(tasks) - 1 : tasks'[j] = IF j < k THEN tasks[j] ELSE tasks[j + 1]
    BY <1>0, <2>1, RemoveAtKeeps, Zenon
  <2>3. tasks' # Absent
    BY <2>2, AbsentIsNoList
  <2>4. DOMAIN tasks = 1 .. Len(tasks) /\ DOMAIN tasks' = 1 .. Len(tasks) - 1 /\ Len(tasks) \in Nat
    BY <1>0, <2>2
  <2> HIDE DEF k
  <2>5. \A w : Registered(w)' <=> Registered(w)
    BY <1>0 DEF Registered, main
  <2>6. TasksInv'
    <3>1. \A i \in DOMAIN tasks : Registered(tasks[i])
      BY <1>0, AbsentIsNoList DEF IInv, TasksInv
    <3>2. \A i, j \in DOMAIN tasks : tasks[i] = tasks[j] => i = j
      BY <1>0, AbsentIsNoList DEF IInv, TasksInv
    <3>3. \A i \in DOMAIN tasks' : Registered(tasks'[i])
      <4> SUFFICES ASSUME NEW i \in DOMAIN tasks' PROVE Registered(tasks'[i])
        OBVIOUS
      <4>1. i \in 1 .. Len(tasks) /\ i + 1 \in 1 .. Len(tasks)
        BY <2>4
      <4>2. tasks'[i] = tasks[i] \/ tasks'[i] = tasks[i + 1]
        BY <2>2, <2>4
      <4>. QED
        BY <2>4, <3>1, <4>1, <4>2
    <3>4. ASSUME NEW i \in DOMAIN tasks', NEW j \in DOMAIN tasks', tasks'[i] = tasks'[j]
          PROVE  i = j
      <4> DEFINE p(x) == IF x < k THEN x ELSE x + 1
      <4>1. p(i) \in DOMAIN tasks /\ p(j) \in DOMAIN tasks
        BY <2>4
      <4>2. tasks'[i] = tasks[p(i)] /\ tasks'[j] = tasks[p(j)]
        BY <2>2, <2>4
      <4>3. p(i) = p(j)
        BY <3>2, <3>4, <4>1, <4>2, Zenon
      <4>. QED
        BY <1>0, <2>4, <4>3
    <3>. QED
      BY <2>5, <3>3, <3>4 DEF TasksInv
  <2>7. KeptInv'
    <3> SUFFICES ASSUME NEW w \in Batching, Registered(w), ~cancel_token[w]
                 PROVE  \E i \in DOMAIN tasks' : tasks'[i] = w
      BY <1>0, <2>3, <2>5 DEF KeptInv, workers
    <3>1. PICK i \in DOMAIN tasks : tasks[i] = w
      BY DEF IInv, KeptInv
    <3>2. i # k
      BY <1>2, <3>1 DEF k
    <3>3. CASE i < k
      <4>1. i \in DOMAIN tasks' /\ tasks'[i] = w
        BY <1>0, <2>2, <2>4, <3>1, <3>3, SMTT(20)
      <4>. QED
        BY <4>1
    <3>4. CASE i > k
      <4>1. i - 1 \in DOMAIN tasks' /\ ~(i - 1 < k) /\ (i - 1) + 1 = i
        BY <1>0, <2>4, <3>4
      <4>2. tasks'[i - 1] = w
        BY <2>2, <2>4, <3>1, <4>1, SMTT(20)
      <4>. QED
        BY <4>1, <4>2
    <3>. QED
      BY <1>0, <2>4, <3>2, <3>3, <3>4, SMTT(20)
  <2>8. GuardInv'
    <3>1. \A u \in Thread : pc[u] # "flush"
      BY <1>0 DEF IInv, GuardInv
    <3>. QED
      BY <1>0, <2>1, <2>3, <3>1, SMTT(20) DEF IInv, GuardInv
  <2>9. Alive(t)' /\ pc' \in [Thread -> Control]
    BY <1>0, <2>1 DEF Alive, IInv, TypeOK
  <2>. QED
    BY <1>0, <1>1, <2>2, <2>6, <2>7, <2>8, <2>9, TimersLeaveWorkers, Zenon
<1>3. CASE ~cancel_token[tasks[k]]
  <2>1. pc' = [pc EXCEPT ![t] = "flush"] /\ UNCHANGED tasks
    BY <1>3 DEF ScanTask
  <2>2. pc' \in [Thread -> Control] /\ pc'[t] = "flush" /\ \A u \in Thread : u # t => pc'[u] = pc[u]
    BY <2>1 DEF IInv, TypeOK, Control
  <2>3. GuardInv'
    BY <1>0, <2>1, <2>2 DEF IInv, GuardInv
  <2>4. Alive(t)'
    BY <2>2 DEF Alive
  <2>. QED
    BY <1>0, <1>1, <2>1, <2>2, <2>3, <2>4, SameTasks, TimersLeaveWorkers
<1>. QED
  BY <1>2, <1>3

LEMMA FlushIInv ==
    ASSUME IInv, NEW t \in Thread, Flush(t)
    PROVE  IInv'
<1>0. /\ pc[t] = "flush" /\ pc' = [pc EXCEPT ![t] = "scan"] /\ index' = [index EXCEPT ![t] = @ + 1]
      /\ UNCHANGED <<main, workers, tasks, guard>>
  BY DEF Flush
<1>1. guard = t
  BY <1>0 DEF IInv, GuardInv
<1>2. /\ guard' \in {0} \cup Thread /\ pc' \in [Thread -> Control] /\ index' \in [Thread -> Nat]
      /\ pc'[t] = "scan" /\ index'[t] = index[t] + 1 /\ index[t] \in Nat
      /\ \A u \in Thread : u # t => pc'[u] = pc[u] /\ index'[u] = index[u]
  BY <1>0 DEF IInv, TypeOK, Control
<1>3. GuardInv'
  BY <1>0, <1>1, <1>2 DEF IInv, GuardInv
<1>4. Alive(t)'
  BY <1>2 DEF Alive
<1>. QED
  BY <1>0, <1>2, <1>3, <1>4, SameTasks, TimersLeaveWorkers, Zenon

LEMMA ScanEndIInv ==
    ASSUME IInv, NEW t \in Thread, ScanEnd(t)
    PROVE  IInv'
<1>0. /\ pc[t] = "scan" /\ guard' = 0 /\ index' = [index EXCEPT ![t] = 0]
      /\ pc' = [pc EXCEPT ![t] = IF tasks = <<>> THEN "remove" ELSE "sleep"]
      /\ UNCHANGED <<main, workers, tasks>>
  BY DEF ScanEnd
<1>1. guard = t
  BY <1>0 DEF IInv, GuardInv
<1>2. /\ guard' \in {0} \cup Thread /\ pc' \in [Thread -> Control] /\ index' \in [Thread -> Nat]
      /\ pc'[t] \in {"remove", "sleep"} /\ \A u \in Thread : u # t => pc'[u] = pc[u]
  BY <1>0 DEF IInv, TypeOK, Control
<1>3. \A u \in Thread : pc'[u] \notin {"scan", "flush"}
  BY <1>1, <1>2 DEF IInv, GuardInv
<1>4. GuardInv'
  BY <1>0, <1>3 DEF GuardInv, Thread
<1>5. Alive(t)'
  BY <1>2 DEF Alive
<1>. QED
  BY <1>0, <1>2, <1>4, <1>5, SameTasks, TimersLeaveWorkers, Zenon

\* remove_if takes the entry away only when it has no task, so that no batcher goes with it.
LEMMA RemoveIfEmptyIInv ==
    ASSUME IInv, NEW t \in Thread, RemoveIfEmpty(t)
    PROVE  IInv'
<1>0. /\ pc[t] = "remove" /\ guard = 0 /\ tasks' = (IF tasks = <<>> THEN Absent ELSE tasks)
      /\ pc' = [pc EXCEPT ![t] = "contains"] /\ UNCHANGED <<main, workers, guard, index>>
  BY DEF RemoveIfEmpty
<1>1. /\ guard' \in {0} \cup Thread /\ pc' \in [Thread -> Control] /\ index' \in [Thread -> Nat]
      /\ pc'[t] = "contains" /\ \A u \in Thread : u # t => pc'[u] = pc[u]
  BY <1>0 DEF IInv, TypeOK, Control
<1>2. GuardInv'
  <2>1. \A u \in Thread : pc[u] \notin {"scan", "flush"} /\ guard # u
    BY <1>0 DEF IInv, GuardInv, Thread
  <2>. QED
    BY <1>0, <1>1, <2>1 DEF GuardInv
<1>3. Alive(t)'
  BY <1>1 DEF Alive
<1>4. CASE tasks = <<>>
  <2>1. tasks' = Absent
    BY <1>0, <1>4
  <2>2. TasksInv'
    BY <2>1 DEF TasksInv, Absent
  <2>3. KeptInv'
    <3>1. \A w \in Batching : ~(Registered(w) /\ ~cancel_token[w])
      BY <1>4 DEF IInv, KeptInv
    <3>. QED
      BY <1>0, <3>1 DEF KeptInv, Registered, main, workers
  <2>. QED
    BY <1>0, <1>1, <1>2, <1>3, <2>1, <2>2, <2>3, TimersLeaveWorkers, SMTT(20) DEF Absent
<1>5. CASE tasks # <<>>
  BY <1>0, <1>1, <1>2, <1>3, <1>5, SameTasks, TimersLeaveWorkers, Zenon
<1>. QED
  BY <1>4, <1>5

\* The thread ends only where there is no entry.
LEMMA ContainsKeyIInv ==
    ASSUME IInv, NEW t \in Thread, ContainsKey(t)
    PROVE  IInv'
<1>0. /\ pc[t] = "contains" /\ guard = 0 /\ UNCHANGED <<main, workers, tasks, guard, index>>
      /\ pc' = [pc EXCEPT ![t] = IF tasks = Absent THEN "ended" ELSE "sleep"]
  BY DEF ContainsKey
<1>1. /\ guard' \in {0} \cup Thread /\ pc' \in [Thread -> Control] /\ index' \in [Thread -> Nat]
      /\ pc'[t] \in {"ended", "sleep"} /\ (tasks # Absent => pc'[t] = "sleep")
      /\ \A u \in Thread : u # t => pc'[u] = pc[u]
  BY <1>0 DEF IInv, TypeOK, Control
<1>2. GuardInv'
  <2>1. \A u \in Thread : pc[u] \notin {"scan", "flush"} /\ guard # u
    BY <1>0 DEF IInv, GuardInv, Thread
  <2>. QED
    BY <1>0, <1>1, <2>1 DEF GuardInv
<1>3. tasks' # Absent => Alive(t)'
  BY <1>0, <1>1 DEF Alive, Absent
<1>. QED
  BY <1>0, <1>1, <1>2, <1>3, SameTasks, TimersLeaveWorkers, Zenon

-----------------------------------------------------------------------------
(* The theorems *)

\* The invariant of the timers holds in every reachable state, for any number of workers.
THEOREM InductiveInvariant == Spec => []IInv
<1>1. Init => IInv
  BY InitIInv
<1>2. IInv /\ [Next]_vars => IInv'
  <2> SUFFICES ASSUME IInv, [Next]_vars PROVE IInv'
    OBVIOUS
  <2>1. CASE Main
    BY <2>1, MainIInv
  <2>2. ASSUME NEW w \in Worker, Work(w) PROVE IInv'
    BY <2>2, RecvIInv, LockIInv, SendIInv, FinishIInv DEF Work
  <2>3. ASSUME NEW t \in Thread, Tick(t) PROVE IInv'
    BY <2>3, WakeIInv, ScanTaskIInv, FlushIInv, ScanEndIInv, RemoveIfEmptyIInv, ContainsKeyIInv, Zenon
       DEF Tick
  <2>4. CASE UNCHANGED vars
    <3>1. UNCHANGED <<main, clock>> /\ UNCHANGED workers
      BY <2>4 DEF vars
    <3>2. TypeOK' /\ FlowInv'
      BY <3>1 DEF IInv, TypeOK, FlowInv, Available, main, clock, workers, flow
    <3>3. \A w \in Batching : cancel_token[w] => cancel_token'[w]
      BY <3>1 DEF workers
    <3>. QED
      BY <3>1, <3>2, <3>3, WorkersLeaveTimers, Zenon
  <2>. QED
    BY <2>1, <2>2, <2>3, <2>4 DEF Next, Returned
<1>. QED
  BY <1>1, <1>2, PTL DEF Spec

\* However the workers are started and finish, an entry of the map has a thread to serve it:
\* register, remove_if and contains_key leave no gap (batcher.rs:325-359).
THEOREM EntryIsServed == Spec => []EntryHasThread
<1>1. IInv => EntryHasThread
  BY DEF IInv
<1>. QED
  BY <1>1, InductiveInvariant, PTL

\* A batcher that is registered and not finished is in the entry exactly once: the timer
\* drops no task but the cancelled ones (batcher.rs:340-347).
THEOREM NoTaskIsLost == Spec => []NoTaskLost
<1>1. IInv => NoTaskLost
  <2> SUFFICES ASSUME IInv, NEW w \in Batching, Registered(w), ~cancel_token[w]
               PROVE  tasks # Absent /\ Cardinality({i \in DOMAIN tasks : tasks[i] = w}) = 1
    BY DEF NoTaskLost
  <2>1. tasks # Absent /\ \E i \in DOMAIN tasks : tasks[i] = w
    BY DEF IInv, KeptInv
  <2>2. PICK i \in DOMAIN tasks : tasks[i] = w
    BY <2>1
  <2>3. {j \in DOMAIN tasks : tasks[j] = w} = {i}
    BY <2>1, <2>2 DEF IInv, TasksInv
  <2>. QED
    BY <2>1, <2>3, FS_Singleton, Zenon
<1>. QED
  BY <1>1, InductiveInvariant, PTL
=============================================================================
