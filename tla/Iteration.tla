------------------------------ MODULE Iteration ------------------------------
(***************************************************************************)
(* The loop built by Stream::iterate (src/src/operator/iteration): the     *)
(* Iterate operator that feeds the loop, the blocks of the body, the block *)
(* that folds the elements into a delta update and ends with IterationEnd, *)
(* the IterationLeader that decides whether to go on, and on every host    *)
(* the cell with the iteration state, guarded by a barrier among the       *)
(* Iterate replicas of the host and by the generation of an                *)
(* IterationStateLock.                                                     *)
(*                                                                         *)
(* Every replica of a block is a thread.  The body is one block reached by *)
(* a shuffle: each element goes to some replica of it, also on other hosts.*)
(* An element carries its identity and, as a history field, the iteration  *)
(* (counted over the whole run) in which Iterate sent it.                  *)
(***************************************************************************)
EXTENDS Integers, Sequences, FiniteSets, Functions

CONSTANTS
    Host,
    Jobs,         \* the jobs the loop may be part of
    MaxIterations \* max_iterations of the leader

\* A job says where the replicas of the blocks run, the elements that enter the
\* loop at a replica in each round (the loop is run again by an outer loop), and
\* whether the body also feeds a block that does not reach IterationEnd.
JobOk(j) ==
    /\ DOMAIN j = {"hostOf", "input", "rounds", "sideBranch"}
    /\ j.hostOf \in Seq(Host)
    /\ j.rounds \in Nat
    /\ DOMAIN j.input = (1 .. j.rounds) \X DOMAIN j.hostOf
    /\ \A kr \in DOMAIN j.input : j.input[kr] \in Seq(Nat \ {0})
    /\ j.sideBranch \in BOOLEAN

ASSUME JobsAssumption == \A j \in Jobs : JobOk(j)
ASSUME BoundAssumption == MaxIterations \in Nat

VARIABLE job

HostOf == job.hostOf
Replica == DOMAIN job.hostOf
Rounds == job.rounds

Local(h) == {r \in Replica : HostOf[r] = h}

\* select_leader: the smallest coordinate among the replicas of the host
LocalLeader(h) == CHOOSE r \in Local(h) : \A q \in Local(h) : r <= q
IsLocalLeader(r) == LocalLeader(HostOf[r]) = r

NoId == 0
Item(id, iter) == [kind |-> "Item", id |-> id, iter |-> iter]
FlushAndRestart(iter) == [kind |-> "FlushAndRestart", id |-> NoId, iter |-> iter]
Terminate == [kind |-> "Terminate", id |-> NoId, iter |-> 0]
None == [kind |-> "None", id |-> NoId, iter |-> 0]

VARIABLES
    \* Iterate
    pc,               \* where next() is
    input,            \* channel: the batches of the previous block
    input_stash,
    input_finished,
    content,
    feedback_content,
    update,           \* the StateFeedback being applied
    iter,             \* history: iterations completed by the replica
    output,           \* history: what was sent to the output block
    \* channels into Iterate
    feedback,
    state_channel,
    \* the state cell and the lock of each host
    cell,
    generation,
    \* the body: its channel, its Start and the element in its operators
    body_channel,
    body,
    reading,
    \* the side branch: the same, in a block of its own
    side_channel,
    side,
    side_reading,
    \* the block of IterationEnd
    end_channel,
    end,
    \* the leader
    leader_channel,
    leader,
    folded            \* history: the deltas folded since the last decision

iterateVars == <<pc, input, input_stash, input_finished, content,
                 feedback_content, update, iter, output>>
hostVars == <<cell, generation>>
bodyVars == <<body, reading>>
sideVars == <<side_channel, side, side_reading>>
leaderVars == <<leader, folded>>
vars == <<job, iterateVars, feedback, state_channel, hostVars, body_channel,
          bodyVars, sideVars, end_channel, end, leader_channel, leaderVars>>

\* the input of a replica: one batch per round, then Terminate
InputBatches(r) ==
    [k \in 1 .. Rounds + 1 |->
        IF k > Rounds THEN <<Terminate>>
        ELSE Append([i \in 1 .. Len(job.input[k, r]) |-> Item(job.input[k, r][i], 0)],
                    FlushAndRestart(0))]

Init ==
    /\ job \in Jobs
    /\ pc = [r \in Replica |-> "run"]
    /\ input = [r \in Replica |-> InputBatches(r)]
    /\ input_stash = [r \in Replica |-> <<>>]
    /\ input_finished = [r \in Replica |-> FALSE]
    /\ content = [r \in Replica |-> <<>>]
    /\ feedback_content = [r \in Replica |-> <<>>]
    /\ update = [r \in Replica |-> [continue |-> TRUE, state |-> 0]]
    /\ iter = [r \in Replica |-> 0]
    /\ output = [r \in Replica |-> <<>>]
    /\ feedback = [r \in Replica |-> <<>>]
    /\ state_channel = [r \in Replica |-> <<>>]
    /\ cell = [h \in Host |-> 0]
    /\ generation = [h \in Host |-> 0]
    /\ body_channel = [r \in Replica |-> <<>>]
    /\ body = [r \in Replica |-> [missing_flush |-> Cardinality(Replica),
                                  missing_terminate |-> Cardinality(Replica),
                                  wait |-> FALSE, generation |-> 0]]
    /\ reading = [r \in Replica |-> None]
    /\ side_channel = [r \in Replica |-> <<>>]
    /\ side = [r \in Replica |-> [wait |-> FALSE, generation |-> 0, terminated |-> ~job.sideBranch]]
    /\ side_reading = [r \in Replica |-> None]
    /\ end_channel = [r \in Replica |-> <<>>]
    /\ end = [r \in Replica |-> [folding |-> FALSE, wait |-> FALSE,
                                 generation |-> 0, terminated |-> FALSE]]
    /\ leader_channel = <<>>
    /\ leader = [missing_updates |-> Cardinality(Replica),
                 missing_terminate |-> Cardinality(Replica),
                 iteration_index |-> 0, state |-> 0]
    /\ folded = <<>>

-----------------------------------------------------------------------------
(* IterationStateLock *)

Lock(h) ==
    generation' = IF generation[h] % 2 = 0
                  THEN [generation EXCEPT ![h] = @ + 1]
                  ELSE generation


Unlock(h) == generation' = [generation EXCEPT ![h] = @ + 1]

UpdatedAlways(r, s) == s.generation >= 0

\* wait_for_update, if the Start has to wait
Updated(r, s) == s.wait => generation[HostOf[r]] >= s.generation

RestartNextGeneration(s) == [s EXCEPT !.wait = TRUE, !.generation = @ + 1]

\* a Start that emits FlushAndRestart waits for the next state
Restart(s) == [s EXCEPT !.wait = TRUE, !.generation = @ + 2]

-----------------------------------------------------------------------------
(* Iterate *)

\* the End of the block of Iterate: elements are shuffled, the rest is sent
\* to every replica
Forward(el) ==
    IF el.kind = "Item"
    THEN \E b \in Replica : body_channel' = [body_channel EXCEPT ![b] = Append(@, el)]
    ELSE body_channel' = [b \in Replica |-> Append(body_channel[b], el)]

Stamp(r, el) == IF el.kind = "Terminate" THEN el ELSE [el EXCEPT !.iter = iter[r]]

FeedbackFinished(r) ==
    /\ feedback_content[r] # <<>>
    /\ feedback_content[r][Len(feedback_content[r])].kind = "FlushAndRestart"

ReceiveInput(r) ==
    /\ input[r] # <<>>
    /\ \/ pc[r] = "run" /\ ~input_finished[r] /\ input_stash[r] = <<>>
       \/ pc[r] = "run" /\ input_finished[r] /\ content[r] = <<>> /\ ~FeedbackFinished(r)
       \/ pc[r] = "wait_update"
    /\ input_stash' = [input_stash EXCEPT ![r] = @ \o Head(input[r])]
    /\ input' = [input EXCEPT ![r] = Tail(@)]
    /\ UNCHANGED <<job, pc, input_finished, content, feedback_content, update, iter,
                   output, feedback, state_channel, hostVars, body_channel,
                   bodyVars, sideVars, end_channel, end, leader_channel, leaderVars>>

\* try_recv at the top of next(), or the other branch of the select
ReceiveFeedback(r) ==
    /\ pc[r] = "run"
    /\ feedback[r] # <<>>
    /\ feedback_content' = [feedback_content EXCEPT ![r] = Append(@, Head(feedback[r]))]
    /\ feedback' = [feedback EXCEPT ![r] = Tail(@)]
    /\ UNCHANGED <<job, pc, input, input_stash, input_finished, content, update, iter,
                   output, state_channel, hostVars, body_channel, bodyVars, sideVars,
                   end_channel, end, leader_channel, leaderVars>>

NextInput(r) ==
    /\ pc[r] = "run"
    /\ ~input_finished[r]
    /\ input_stash[r] # <<>>
    /\ LET el == Head(input_stash[r])
       IN  /\ Forward(Stamp(r, el))
           /\ input_finished' = [input_finished EXCEPT ![r] = el.kind = "FlushAndRestart"]
           /\ IF el.kind = "FlushAndRestart" THEN Lock(HostOf[r]) ELSE UNCHANGED generation
           /\ IF el.kind = "Terminate"
              THEN /\ output' = [output EXCEPT ![r] = Append(@, Terminate)]
                   /\ pc' = [pc EXCEPT ![r] = "terminated"]
              ELSE UNCHANGED <<output, pc>>
    /\ input_stash' = [input_stash EXCEPT ![r] = Tail(@)]
    /\ UNCHANGED <<job, input, content, feedback_content, update, iter, feedback,
                   state_channel, cell, bodyVars, sideVars, end_channel, end,
                   leader_channel, leaderVars>>

NextStored(r) ==
    /\ pc[r] = "run"
    /\ input_finished[r]
    /\ content[r] # <<>>
    /\ LET el == Head(content[r])
       IN  /\ Forward(Stamp(r, el))
           /\ IF el.kind = "FlushAndRestart" THEN Lock(HostOf[r]) ELSE UNCHANGED generation
    /\ content' = [content EXCEPT ![r] = Tail(@)]
    /\ UNCHANGED <<job, pc, input, input_stash, input_finished, feedback_content,
                   update, iter, output, feedback, state_channel, cell,
                   bodyVars, sideVars, end_channel, end, leader_channel, leaderVars>>

SwapClones(r) ==
    /\ content' = [content EXCEPT ![r] = feedback_content[r]]
    /\ feedback_content' = feedback_content

\* mem::swap, where content is empty
SwapContent(r) ==
    /\ content' = [content EXCEPT ![r] = feedback_content[r]]
    /\ feedback_content' = [feedback_content EXCEPT ![r] = <<>>]

Swap(r) ==
    /\ pc[r] = "run"
    /\ input_finished[r]
    /\ content[r] = <<>>
    /\ FeedbackFinished(r)
    /\ SwapContent(r)
    /\ pc' = [pc EXCEPT ![r] = "wait_update"]
    /\ UNCHANGED <<job, input, input_stash, input_finished, update, iter, output,
                   feedback, state_channel, hostVars, body_channel, bodyVars, sideVars,
                   end_channel, end, leader_channel, leaderVars>>

WaitUpdate(r) ==
    /\ pc[r] = "wait_update"
    /\ state_channel[r] # <<>>
    /\ update' = [update EXCEPT ![r] = Head(state_channel[r])]
    /\ state_channel' = [state_channel EXCEPT ![r] = Tail(@)]
    /\ pc' = [pc EXCEPT ![r] = IF IsLocalLeader(r) THEN "set" ELSE "barrier"]
    /\ UNCHANGED <<job, input, input_stash, input_finished, content, feedback_content,
                   iter, output, feedback, hostVars, body_channel, bodyVars, sideVars,
                   end_channel, end, leader_channel, leaderVars>>

\* state_ref.set: while pc is "set" the cell is being written
SetState(r) ==
    /\ pc[r] = "set"
    /\ cell' = [cell EXCEPT ![HostOf[r]] = update[r].state]
    /\ pc' = [pc EXCEPT ![r] = "barrier"]
    /\ UNCHANGED <<job, input, input_stash, input_finished, content, feedback_content,
                   update, iter, output, feedback, state_channel, generation,
                   body_channel, bodyVars, sideVars, end_channel, end, leader_channel,
                   leaderVars>>

BarrierOfOne(h) ==
    \E r \in Local(h) :
        /\ pc[r] = "barrier"
        /\ pc' = [pc EXCEPT ![r] = IF IsLocalLeader(r) THEN "unlock" ELSE "resume"]
        /\ UNCHANGED <<job, input, input_stash, input_finished, content,
                       feedback_content, update, iter, output, feedback,
                       state_channel, hostVars, body_channel, bodyVars, sideVars,
                       end_channel, end, leader_channel, leaderVars>>

\* state_barrier.wait of all the replicas of the host
Barrier(h) ==
    /\ Local(h) # {}
    /\ \A r \in Local(h) : pc[r] = "barrier"
    /\ pc' = [r \in Replica |-> IF HostOf[r] # h THEN pc[r]
                                ELSE IF IsLocalLeader(r) THEN "unlock" ELSE "resume"]
    /\ UNCHANGED <<job, input, input_stash, input_finished, content, feedback_content,
                   update, iter, output, feedback, state_channel, hostVars,
                   body_channel, bodyVars, sideVars, end_channel, end, leader_channel,
                   leaderVars>>

UnlockState(r) ==
    /\ pc[r] = "unlock"
    /\ Unlock(HostOf[r])
    /\ pc' = [pc EXCEPT ![r] = "resume"]
    /\ UNCHANGED <<job, input, input_stash, input_finished, content, feedback_content,
                   update, iter, output, feedback, state_channel, cell,
                   body_channel, bodyVars, sideVars, end_channel, end, leader_channel,
                   leaderVars>>

\* the loop is over: the content goes to the output block
Finish(r) ==
    /\ input_finished' = [input_finished EXCEPT ![r] = FALSE]
    /\ output' = [output EXCEPT ![r] = @ \o content[r]]
    /\ content' = [content EXCEPT ![r] = <<>>]

Resume(r) ==
    /\ pc[r] = "resume"
    /\ IF update[r].continue
       THEN UNCHANGED <<input_finished, content, output>>
       ELSE Finish(r)
    /\ iter' = [iter EXCEPT ![r] = @ + 1]
    /\ pc' = [pc EXCEPT ![r] = "run"]
    /\ UNCHANGED <<job, input, input_stash, feedback_content, update, feedback,
                   state_channel, hostVars, body_channel, bodyVars, sideVars,
                   end_channel, end, leader_channel, leaderVars>>

-----------------------------------------------------------------------------
(* The body: Start, the operators that read the state, End *)

SendSide(b, el) ==
    side_channel' = IF job.sideBranch THEN [side_channel EXCEPT ![b] = Append(@, el)]
                    ELSE side_channel

SendOn(b, el) ==
    /\ feedback' = [feedback EXCEPT ![b] = Append(@, el)]
    /\ end_channel' = [end_channel EXCEPT ![b] = Append(@, el)]
    /\ SendSide(b, el)

\* Start takes an element out of the channel and passes it to the operators
BodyItem(b) ==
    /\ reading[b] = None
    /\ Updated(b, body[b])
    /\ body_channel[b] # <<>>
    /\ Head(body_channel[b]).kind = "Item"
    /\ reading' = [reading EXCEPT ![b] = Head(body_channel[b])]
    /\ body_channel' = [body_channel EXCEPT ![b] = Tail(@)]
    /\ body' = [body EXCEPT ![b].wait = FALSE]
    /\ UNCHANGED <<job, iterateVars, feedback, state_channel, hostVars, sideVars,
                   end_channel, end, leader_channel, leaderVars>>

\* the operators return and End sends the element on
BodyReturn(b) ==
    /\ reading[b] # None
    /\ SendOn(b, reading[b])
    /\ reading' = [reading EXCEPT ![b] = None]
    /\ UNCHANGED <<job, iterateVars, state_channel, hostVars, body_channel, body,
                   side, side_reading, end, leader_channel, leaderVars>>

ResetMissing(s) == [s EXCEPT !.missing_flush = Cardinality(Replica)]

LastFlush(s) == s.missing_flush = 1

\* the last missing FlushAndRestart is returned, the others are counted
BodyFlushAndRestart(b) ==
    /\ reading[b] = None
    /\ Updated(b, body[b])
    /\ body_channel[b] # <<>>
    /\ Head(body_channel[b]).kind = "FlushAndRestart"
    /\ IF LastFlush(body[b])
       THEN /\ body' = [body EXCEPT ![b] = ResetMissing(Restart(@))]
            /\ SendOn(b, Head(body_channel[b]))
       ELSE /\ body' = [body EXCEPT ![b].missing_flush = @ - 1, ![b].wait = FALSE]
            /\ UNCHANGED <<feedback, side_channel, end_channel>>
    /\ body_channel' = [body_channel EXCEPT ![b] = Tail(@)]
    /\ UNCHANGED <<job, iterateVars, state_channel, hostVars, reading, side,
                   side_reading, end, leader_channel, leaderVars>>

\* Terminate is not sent on the feedback edge
BodyTerminate(b) ==
    /\ reading[b] = None
    /\ Updated(b, body[b])
    /\ body_channel[b] # <<>>
    /\ Head(body_channel[b]).kind = "Terminate"
    /\ body' = [body EXCEPT ![b].missing_terminate = @ - 1, ![b].wait = FALSE]
    /\ IF body[b].missing_terminate = 1
       THEN /\ end_channel' = [end_channel EXCEPT ![b] = Append(@, Terminate)]
            /\ SendSide(b, Terminate)
       ELSE UNCHANGED <<end_channel, side_channel>>
    /\ body_channel' = [body_channel EXCEPT ![b] = Tail(@)]
    /\ UNCHANGED <<job, iterateVars, feedback, state_channel, hostVars, reading,
                   side, side_reading, end, leader_channel, leaderVars>>

-----------------------------------------------------------------------------
(* A branch of the body that ends in a sink; its operators may read the    *)
(* state too                                                               *)

SideReceive(b) ==
    /\ side_reading[b] = None
    /\ side_channel[b] # <<>>
    /\ Updated(b, side[b])
    /\ side_channel' = [side_channel EXCEPT ![b] = Tail(@)]
    /\ UNCHANGED <<job, iterateVars, feedback, state_channel, hostVars, body_channel,
                   bodyVars, end_channel, end, leader_channel, leaderVars>>

SideItem(b) ==
    /\ SideReceive(b)
    /\ Head(side_channel[b]).kind = "Item"
    /\ side_reading' = [side_reading EXCEPT ![b] = Head(side_channel[b])]
    /\ side' = [side EXCEPT ![b].wait = FALSE]

SideReturn(b) ==
    /\ side_reading[b] # None
    /\ side_reading' = [side_reading EXCEPT ![b] = None]
    /\ UNCHANGED <<job, iterateVars, feedback, state_channel, hostVars, body_channel,
                   bodyVars, side_channel, side, end_channel, end,
                   leader_channel, leaderVars>>

SideFlushAndRestart(b) ==
    /\ SideReceive(b)
    /\ Head(side_channel[b]).kind = "FlushAndRestart"
    /\ side' = [side EXCEPT ![b] = Restart(@)]
    /\ UNCHANGED side_reading

SideTerminate(b) ==
    /\ SideReceive(b)
    /\ Head(side_channel[b]).kind = "Terminate"
    /\ side' = [side EXCEPT ![b].wait = FALSE, ![b].terminated = TRUE]
    /\ UNCHANGED side_reading

-----------------------------------------------------------------------------
(* Start, Fold and IterationEnd: one delta update per iteration *)

EndReceive(e) ==
    /\ end_channel[e] # <<>>
    /\ Updated(e, end[e])
    /\ end_channel' = [end_channel EXCEPT ![e] = Tail(@)]
    /\ UNCHANGED <<job, iterateVars, feedback, state_channel, hostVars, body_channel,
                   bodyVars, sideVars, leaderVars>>

EndItem(e) ==
    /\ EndReceive(e)
    /\ Head(end_channel[e]).kind = "Item"
    /\ end' = [end EXCEPT ![e].folding = TRUE, ![e].wait = FALSE]
    /\ UNCHANGED leader_channel

DeltaUpdatesTwice(delta, folding) ==
    (IF folding THEN <<delta>> ELSE <<>>) \o <<delta>>

\* what IterationEnd sends to the leader: the accumulator that the fold gives
\* at the end of the iteration, or else the default delta update
DeltaUpdates(delta, folding) ==
    LET has_received_item == folding
    IN  (IF folding THEN <<delta>> ELSE <<>>)
            \o (IF has_received_item THEN <<>> ELSE <<delta>>)

EndFlushAndRestart(e) ==
    /\ EndReceive(e)
    /\ Head(end_channel[e]).kind = "FlushAndRestart"
    /\ leader_channel' = leader_channel \o
            DeltaUpdates([kind |-> "Delta", sender |-> e, iter |-> Head(end_channel[e]).iter],
                         end[e].folding)
    /\ end' = [end EXCEPT ![e] = [Restart(@) EXCEPT !.folding = FALSE]]

EndTerminate(e) ==
    /\ EndReceive(e)
    /\ Head(end_channel[e]).kind = "Terminate"
    /\ leader_channel' = Append(leader_channel,
            [kind |-> "Terminate", sender |-> e, iter |-> 0])
    /\ end' = [end EXCEPT ![e].wait = FALSE, ![e].terminated = TRUE]

-----------------------------------------------------------------------------
(* IterationLeader *)

\* final_result: loop_condition is the user's, max_iterations bounds it
LeaderDecision ==
    {c \in BOOLEAN : c => leader.iteration_index + 1 < MaxIterations}

LastUpdateEarly == leader.missing_updates <= 2

\* the delta update received is the last one that is missing
LastUpdate == leader.missing_updates = 1

\* process_updates for one delta update and, when none is missing, the
\* decision and the state feedback to every Iterate
LeaderUpdate ==
    /\ leader_channel # <<>>
    /\ Head(leader_channel).kind = "Delta"
    /\ leader_channel' = Tail(leader_channel)
    /\ IF ~LastUpdate
       THEN /\ leader' = [leader EXCEPT !.missing_updates = @ - 1]
            /\ folded' = Append(folded, Head(leader_channel))
            /\ UNCHANGED state_channel
       ELSE \E continue \in LeaderDecision :
            /\ leader' = [leader EXCEPT
                    !.missing_updates = Cardinality(Replica),
                    !.iteration_index = IF continue THEN @ + 1 ELSE 0,
                    !.state = @ + 1]
            /\ state_channel' = [r \in Replica |-> Append(state_channel[r],
                    [continue |-> continue, state |-> leader.state + 1])]
            /\ folded' = <<>>
    /\ UNCHANGED <<job, iterateVars, feedback, hostVars, body_channel, bodyVars, sideVars,
                   end_channel, end>>

LeaderTerminate ==
    /\ leader_channel # <<>>
    /\ Head(leader_channel).kind = "Terminate"
    /\ leader_channel' = Tail(leader_channel)
    /\ leader' = [leader EXCEPT !.missing_terminate = @ - 1]
    /\ UNCHANGED <<job, iterateVars, feedback, state_channel, hostVars, body_channel,
                   bodyVars, sideVars, end_channel, end, folded>>

-----------------------------------------------------------------------------

Terminated ==
    /\ \A r \in Replica : /\ pc[r] = "terminated"
                          /\ body[r].missing_terminate = 0
                          /\ side[r].terminated
                          /\ end[r].terminated
    /\ leader.missing_terminate = 0

Finished == Terminated /\ UNCHANGED vars

IterateNext(r) ==
    \/ ReceiveInput(r)
    \/ ReceiveFeedback(r)
    \/ NextInput(r)
    \/ NextStored(r)
    \/ Swap(r)
    \/ WaitUpdate(r)
    \/ SetState(r)
    \/ UnlockState(r)
    \/ Resume(r)

BodyNext(b) ==
    \/ BodyItem(b)
    \/ BodyReturn(b)
    \/ BodyFlushAndRestart(b)
    \/ BodyTerminate(b)

SideNext(b) ==
    \/ SideItem(b)
    \/ SideReturn(b)
    \/ SideFlushAndRestart(b)
    \/ SideTerminate(b)

EndNext(e) ==
    \/ EndItem(e)
    \/ EndFlushAndRestart(e)
    \/ EndTerminate(e)

LeaderNext == LeaderUpdate \/ LeaderTerminate

Next ==
    \/ \E r \in Replica : IterateNext(r) \/ BodyNext(r) \/ SideNext(r) \/ EndNext(r)
    \/ \E h \in Host : Barrier(h)
    \/ LeaderNext
    \/ Finished

Spec == Init /\ [][Next]_vars
-----------------------------------------------------------------------------
(* Properties *)

Start == [wait : BOOLEAN, generation : Nat, terminated : BOOLEAN]
N == Cardinality(Replica)

(* The variables keep the types of the fields of Iterate, Start and         *)
(* IterationLeader.                                                        *)
TypeOK ==
    /\ pc \in [Replica -> {"run", "wait_update", "set", "barrier", "unlock",
                           "resume", "terminated"}]
    /\ input_finished \in [Replica -> BOOLEAN]
    /\ update \in [Replica -> [continue : BOOLEAN, state : Nat]]
    /\ iter \in [Replica -> Nat]
    /\ cell \in [Host -> Nat]
    /\ generation \in [Host -> Nat]
    /\ body \in [Replica -> [missing_flush : 1 .. N, missing_terminate : 0 .. N,
                             wait : BOOLEAN, generation : Nat]]
    /\ side \in [Replica -> Start]
    /\ end \in [Replica -> [folding : BOOLEAN, wait : BOOLEAN, generation : Nat,
                            terminated : BOOLEAN]]
    /\ leader \in [missing_updates : 1 .. N, missing_terminate : 0 .. N,
                   iteration_index : Nat, state : Nat]

\* the operators chained to Iterate, in its thread, may be reading the state
IterateReads(r) ==
    /\ pc[r] = "run"
    /\ ~input_finished[r] \/ content[r] # <<>>

(* The unsafe write of the state cell (wait_sync_state) never runs while a *)
(* thread of the host may read the cell: neither an Iterate replica that   *)
(* has elements of the iteration to return, nor a replica of the body that *)
(* is processing an element, also one that came early from another host.   *)
StateRaceFree ==
    \A r, b \in Replica :
        (pc[r] = "set" /\ HostOf[r] = HostOf[b]) =>
            reading[b] = None /\ ~IterateReads(b)

(* Whoever processes an element of an iteration reads the state of that    *)
(* iteration, on every host, and the Start of the body never takes an      *)
(* element of one iteration while it is in another: the assumption under   *)
(* which Start counts the FlushAndRestart of its previous replicas.        *)
ReadsOwnIteration ==
    \A r \in Replica :
        /\ IterateReads(r) => cell[HostOf[r]] = iter[r]
        /\ reading[r] # None => /\ cell[HostOf[r]] = reading[r].iter
                                /\ body[r].generation = 2 * reading[r].iter
        /\ (body_channel[r] # <<>> /\ Updated(r, body[r])) =>
              LET el == Head(body_channel[r])
              IN  el.kind = "Terminate" \/ body[r].generation = 2 * el.iter

(* The SAFETY comment of wait_sync_state for the path to IterationEnd: when*)
(* the state of an iteration is written, the operators of the loop have    *)
(* finished the previous ones and their channels hold nothing of them; only*)
(* the last FlushAndRestart may still be in the feedback of a replica.     *)
LoopEmptyAtUpdate ==
    \A r \in Replica : pc[r] = "set" =>
        /\ \A b \in Replica :
            /\ reading[b] = None \/ reading[b].iter >= update[r].state
            /\ \A el \in Range(body_channel[b]) \cup Range(end_channel[b]) :
                  el.kind = "Terminate" \/ el.iter >= update[r].state
        /\ \A b \in Replica : \A el \in Range(feedback[b]) :
              el.iter >= update[r].state \/ pc[b] = "run"

(* feedback_finished looks only at the last element, so the content of the *)
(* next iteration is right only if no element of the next iteration comes  *)
(* back before the swap.                                                   *)
FeedbackSeparated ==
    \A r \in Replica : \A i \in 1 .. Len(feedback_content[r]) :
        LET el == feedback_content[r][i]
        IN  /\ el.iter = iter[r]
            /\ el.kind = "FlushAndRestart" => i = Len(feedback_content[r])

(* The leader never folds the delta updates of two iterations together, and*)
(* takes one from each replica.                                            *)
DeltasOfOneIteration ==
    \A i, j \in 1 .. Len(folded) :
        /\ folded[i].iter = leader.state
        /\ i # j => folded[i].sender # folded[j].sender

(* The loop always stops: every thread terminates.                         *)
Terminates == <>Terminated

(* The SAFETY comment of wait_sync_state for the whole loop: "at this point*)
(* we are sure that all the operators inside the loop have finished and    *)
(* empty".                                                                 *)
AllOperatorsFinished ==
    \A r, b \in Replica :
        (pc[r] = "set" /\ HostOf[r] = HostOf[b]) => side_reading[b] = None

\* The operating system runs the threads: as long as some thread can take a step,
\* one is taken.  This asks less than fairness to every thread, which the
\* scheduler also gives.
Fairness == WF_vars(Next)

FairSpec == Spec /\ Fairness
=============================================================================
