--------------------------- MODULE BatchScheduler ---------------------------
(***************************************************************************)
(* The start of a job and the timers of its Timed batchers.                *)
(*                                                                         *)
(* Scheduler::build_all sets up the workers one after the other, on the    *)
(* calling thread, and starts each of them at once.  The setup of a worker *)
(* registers its batchers with BatchScheduler, a concurrent map from the   *)
(* period to the tasks of one timer thread.  The thread holds the entry of *)
(* the map while it runs its tasks, and a task takes the mutex of its      *)
(* batcher, which the worker holds while it waits for room in a channel.   *)
(*                                                                         *)
(* The workers are a pipeline: worker w sends batches to worker w + 1 and  *)
(* all have the same batch interval, the default.  The last one is a sink. *)
(***************************************************************************)
EXTENDS Integers, Sequences, FiniteSets, SequencesExt

CONSTANTS
    N,         \* the number of workers
    Batches,   \* the number of batches the source sends
    Capacity   \* the capacity of a channel (CHANNEL_CAPACITY)

ASSUME WorkersAssumption == N \in Nat /\ N >= 2
ASSUME BatchesAssumption == Batches \in Nat \ {0} /\ Capacity \in Nat \ {0}

Worker == 1 .. N
Batching == 1 .. N - 1     \* the workers that have a batcher
Thread == 1 .. N - 1       \* the timer threads that can be spawned

Absent == <<0>>            \* the map has no entry for the period

VARIABLES
    \* build_all
    building,   \* the worker it is at; N + 1 when it joins the workers
    is_set_up,  \* whether that worker has been set up
    returned,   \* execute_blocking has returned
    \* the workers
    started,
    finished,
    consumed,   \* batches received
    produced,   \* batches sent
    channel,    \* the length of the channel to the next worker
    locked,     \* the worker holds the mutex of its batcher
    cancel_token,
    \* BatchScheduler
    tasks,      \* the entry of the period
    guard,      \* the thread that holds the entry, 0 if none
    pc,         \* where each timer thread is
    index       \* the task it is at

main == <<building, is_set_up, returned>>
flow == <<consumed, produced, channel, locked>>
workers == <<started, finished, flow, cancel_token>>
clock == <<tasks, guard, pc, index>>
vars == <<main, workers, clock>>

Control == {"unused", "sleep", "scan", "flush", "remove", "contains", "ended"}

TypeOK ==
    /\ building \in 1 .. N + 1 /\ is_set_up \in BOOLEAN /\ returned \in BOOLEAN
    /\ started \in [Worker -> BOOLEAN] /\ finished \in [Worker -> BOOLEAN]
    /\ consumed \in [Worker -> 0 .. Batches] /\ produced \in [Worker -> 0 .. Batches]
    /\ channel \in [Batching -> 0 .. Capacity]
    /\ locked \in [Batching -> BOOLEAN] /\ cancel_token \in [Batching -> BOOLEAN]
    /\ tasks = Absent \/ tasks \in Seq(Batching)
    /\ guard \in {0} \cup Thread
    /\ pc \in [Thread -> Control]
    /\ index \in [Thread -> Nat]

Init ==
    /\ building = 1 /\ is_set_up = FALSE /\ returned = FALSE
    /\ started = [w \in Worker |-> FALSE] /\ finished = [w \in Worker |-> FALSE]
    /\ consumed = [w \in Worker |-> 0] /\ produced = [w \in Worker |-> 0]
    /\ channel = [w \in Batching |-> 0]
    /\ locked = [w \in Batching |-> FALSE] /\ cancel_token = [w \in Batching |-> FALSE]
    /\ tasks = Absent
    /\ guard = 0
    /\ pc = [t \in Thread |-> "unused"]
    /\ index = [t \in Thread |-> 0]
-----------------------------------------------------------------------------
(* Scheduler::build_all and start_blocking *)

\* BatchScheduler::register waits for the entry; without one it spawns the
\* thread of the period.
Register(w) ==
    /\ guard = 0
    /\ IF tasks # Absent
       THEN tasks' = Append(tasks, w) /\ UNCHANGED pc
       ELSE /\ tasks' = <<w>>
            /\ \E t \in Thread : /\ pc[t] = "unused"
                                 /\ pc' = [pc EXCEPT ![t] = "sleep"]
    /\ UNCHANGED <<guard, index>>

\* the setup of the operators; the sink has no batcher
SetUp ==
    /\ building \in Worker /\ ~is_set_up
    /\ is_set_up' = TRUE
    /\ IF building \in Batching THEN Register(building) ELSE UNCHANGED clock
    /\ UNCHANGED <<building, returned, workers>>

Spawn ==
    /\ building \in Worker /\ is_set_up
    /\ started' = [started EXCEPT ![building] = TRUE]
    /\ building' = building + 1
    /\ is_set_up' = FALSE
    /\ UNCHANGED <<returned, finished, flow, cancel_token, clock>>

Join ==
    /\ building = N + 1 /\ ~returned
    /\ \A w \in Worker : finished[w]
    /\ returned' = TRUE
    /\ UNCHANGED <<building, is_set_up, workers, clock>>

Main == SetUp \/ Spawn \/ Join
-----------------------------------------------------------------------------
(* The workers *)

Available(w) == IF w = 1 THEN Batches ELSE consumed[w]

Recv(w) ==
    /\ w > 1 /\ started[w] /\ ~finished[w]
    /\ w \in Batching => produced[w] = consumed[w]
    /\ channel[w - 1] > 0
    /\ channel' = [channel EXCEPT ![w - 1] = @ - 1]
    /\ consumed' = [consumed EXCEPT ![w] = @ + 1]
    /\ UNCHANGED <<main, started, finished, produced, locked, cancel_token, clock>>

\* Batcher::enqueue takes the mutex, and flush sends under it
Lock(w) ==
    /\ w \in Batching /\ started[w] /\ ~finished[w] /\ ~locked[w]
    /\ produced[w] < Available(w)
    /\ locked' = [locked EXCEPT ![w] = TRUE]
    /\ UNCHANGED <<main, started, finished, consumed, produced, channel, cancel_token, clock>>

Send(w) ==
    /\ w \in Batching /\ locked[w]
    /\ channel[w] < Capacity
    /\ channel' = [channel EXCEPT ![w] = @ + 1]
    /\ produced' = [produced EXCEPT ![w] = @ + 1]
    /\ locked' = [locked EXCEPT ![w] = FALSE]
    /\ UNCHANGED <<main, started, finished, consumed, cancel_token, clock>>

\* The worker returns Terminate; its End drops the batchers.
Finish(w) ==
    /\ started[w] /\ ~finished[w]
    /\ IF w \in Batching THEN produced[w] = Batches /\ ~locked[w] ELSE consumed[w] = Batches
    /\ finished' = [finished EXCEPT ![w] = TRUE]
    /\ cancel_token' = [v \in Batching |-> cancel_token[v] \/ v = w]
    /\ UNCHANGED <<main, started, flow, clock>>

Work(w) == Recv(w) \/ Lock(w) \/ Send(w) \/ Finish(w)
-----------------------------------------------------------------------------
(* The timer threads *)

\* The sleep is over.  A thread that finds no entry sleeps again.
Wake(t) ==
    /\ pc[t] = "sleep" /\ guard = 0
    /\ IF tasks # Absent
       THEN /\ guard' = t
            /\ pc' = [pc EXCEPT ![t] = "scan"]
            /\ index' = [index EXCEPT ![t] = 1]
       ELSE UNCHANGED <<guard, pc, index>>
    /\ UNCHANGED <<main, workers, tasks>>

ScanTask(t) ==
    /\ pc[t] = "scan" /\ index[t] <= Len(tasks)
    /\ IF cancel_token[tasks[index[t]]]
       THEN tasks' = RemoveAt(tasks, index[t]) /\ UNCHANGED pc
       ELSE pc' = [pc EXCEPT ![t] = "flush"] /\ UNCHANGED tasks
    /\ UNCHANGED <<main, workers, guard, index>>


\* the task: try_flush, which never waits, under the mutex of the batcher
Flush(t) ==
    /\ pc[t] = "flush" /\ ~locked[tasks[index[t]]]
    /\ pc' = [pc EXCEPT ![t] = "scan"]
    /\ index' = [index EXCEPT ![t] = @ + 1]
    /\ UNCHANGED <<main, workers, tasks, guard>>

ScanEnd(t) ==
    /\ pc[t] = "scan" /\ index[t] > Len(tasks)
    /\ guard' = 0
    /\ pc' = [pc EXCEPT ![t] = IF tasks = <<>> THEN "remove" ELSE "sleep"]
    /\ index' = [index EXCEPT ![t] = 0]
    /\ UNCHANGED <<main, workers, tasks>>

RemoveAnyway(t) ==
    /\ pc[t] = "remove" /\ guard = 0
    /\ tasks' = Absent
    /\ pc' = [pc EXCEPT ![t] = "contains"]
    /\ UNCHANGED <<main, workers, guard, index>>
RemoveIfEmpty(t) ==
    /\ pc[t] = "remove" /\ guard = 0
    /\ tasks' = IF tasks = <<>> THEN Absent ELSE tasks
    /\ pc' = [pc EXCEPT ![t] = "contains"]
    /\ UNCHANGED <<main, workers, guard, index>>

ContainsIgnored(t) ==
    /\ pc[t] = "contains" /\ guard = 0
    /\ pc' = [pc EXCEPT ![t] = "ended"]
    /\ UNCHANGED <<main, workers, tasks, guard, index>>
ContainsKey(t) ==
    /\ pc[t] = "contains" /\ guard = 0
    /\ pc' = [pc EXCEPT ![t] = IF tasks = Absent THEN "ended" ELSE "sleep"]
    /\ UNCHANGED <<main, workers, tasks, guard, index>>

Tick(t) ==
    Wake(t) \/ ScanTask(t) \/ Flush(t) \/ ScanEnd(t) \/ RemoveIfEmpty(t) \/ ContainsKey(t)

\* the process may go on after the job
Returned == returned /\ UNCHANGED vars

Next ==
    \/ Main
    \/ \E w \in Worker : Work(w)
    \/ \E t \in Thread : Tick(t)
    \/ Returned

Spec == Init /\ [][Next]_vars

\* All the threads are scheduled.
FairSpec ==
    /\ Spec
    /\ WF_vars(Main)
    /\ \A w \in Worker : WF_vars(Work(w))
    /\ \A t \in Thread : WF_vars(Tick(t))

\* The timers run, and a send that can proceed does, but a worker may wait
\* for its input forever.
SilentSpec ==
    /\ Spec
    /\ WF_vars(Main)
    /\ \A w \in Worker : WF_vars(Send(w))
    /\ \A t \in Thread : WF_vars(Tick(t))
-----------------------------------------------------------------------------
(* Properties *)

Alive(t) == pc[t] \notin {"unused", "ended"}

\* As long as the map has an entry for the period a timer thread is alive to
\* serve it: register spawns one only when there is no entry, and the thread
\* that finds its tasks gone looks again before it ends (batcher.rs:355-359).
EntryHasThread == TypeOK /\ (tasks # Absent => \E t \in Thread : Alive(t))

Registered(w) == w \in Batching /\ (building > w \/ (building = w /\ is_set_up))

\* A batcher that was registered and is not finished stays registered, once:
\* remove_if does not throw away what was pushed after the scan.
NoTaskLost ==
    \A w \in Batching : (Registered(w) /\ ~cancel_token[w]) =>
        tasks # Absent /\ Cardinality({i \in DOMAIN tasks : tasks[i] = w}) = 1


\* "This function will return when the computation ends" (environment.rs:39).
ExecuteReturns == <>returned
=============================================================================
