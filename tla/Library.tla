------------------------------- MODULE Library ------------------------------
(***************************************************************************)
(* The library seen from its two sides: one operator in the chain of a      *)
(* block (Operators), or one call of the API over all the replicas          *)
(* (Pipelines).  A behaviour is one or the other.                           *)
(***************************************************************************)
EXTENDS Operators

CONSTANTS Calls, Replicas, Buckets, MaxRetry, NumIter, Peers   \* of Pipelines

VARIABLES call, sched, done, result, expected, queue, open, reps, cache

P == INSTANCE Pipelines
callVars == <<call, sched, done, result, expected, queue, open, reps, cache>>

NoOperator ==
    /\ job = [op |-> "none"]
    /\ st = <<>> /\ in = <<>> /\ out = <<>> /\ round = 0 /\ past = <<>>
NoCall ==
    /\ call = [m |-> "none", in |-> <<>>, rhs |-> <<>>]
    /\ sched = <<>> /\ done = FALSE /\ result = <<>> /\ expected = <<>>
    /\ queue = <<>> /\ open = FALSE /\ reps = <<>> /\ cache = P!CacheRegistryNew

LibraryInit == (Init /\ NoCall) \/ (P!Init /\ NoOperator)
LibraryNext ==
    \/ call.m = "none" /\ Next /\ UNCHANGED callVars
    \/ call.m # "none" /\ P!Next /\ UNCHANGED vars
LibrarySpec == LibraryInit /\ [][LibraryNext]_<<vars, callVars>>

-----------------------------------------------------------------------------

\* The methods that promise it leave the elements of a key on one replica (see Pipelines).
KeysTogether == call.m # "none" => P!KeysTogether

=============================================================================
