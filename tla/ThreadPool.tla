------------------------------ MODULE ThreadPool ------------------------------
(***************************************************************************)
(* thread_pool_t (src/helpers/thread/thread_pool.c) and the threads it     *)
(* starts (thread.c).  One thread, the owner, calls the pool; the threads  *)
(* of the pool run beside it and see the struct thread_t they are given,   *)
(* whose id the owner sets after it has started them.                      *)
(*                                                                         *)
(* Threads are numbered from 1 in the order they are started; 0 is NULL.   *)
(***************************************************************************)
EXTENDS Integers, SequencesExt

CONSTANT MaxThreads   \* how many threads the program starts

ASSUME ThreadsAssumption == MaxThreads \in Nat

VARIABLES
    status,   \* of each thread: "running", "returned", or "freed" once joined
    id,       \* thread->id
    pool,     \* self->thread_array
    opc,      \* what the owner is doing
    i         \* the index it joins

poolVars == <<status, id, pool, opc, i>>

PoolInit ==    \* make_thread_pool
    /\ status = <<>> /\ id = <<>> /\ pool = <<>>
    /\ opc = "idle" /\ i = 1

\* thread_start: the struct is cleared memory
thread_start ==
    /\ opc = "idle"
    /\ Len(status) < MaxThreads
    /\ status' = Append(status, "running")
    /\ id' = Append(id, 0)
    /\ opc' = "register"
    /\ UNCHANGED <<pool, i>>

\* A slip: the first free entry is used again and the id is the length.
thread_pool_start_reusing ==
    LET Free == {k \in DOMAIN pool : pool[k] = 0}
    IN /\ opc = "register"
       /\ pool' = IF Free = {} THEN Append(pool, Len(status))
                  ELSE [pool EXCEPT ![Min(Free)] = Len(status)]
       /\ id' = [id EXCEPT ![Len(status)] = Len(pool)]
       /\ opc' = "idle"
       /\ UNCHANGED <<status, i>>

\* The rest of thread_pool_start: array_set past the end appends.
thread_pool_start ==
    /\ opc = "register"
    /\ pool' = Append(pool, Len(status))
    /\ id' = [id EXCEPT ![Len(status)] = Len(pool)]
    /\ opc' = "idle"
    /\ UNCHANGED <<status, i>>

\* pthread_start_fn: the thread function has returned
thread_return(t) ==
    /\ status[t] = "running"
    /\ status' = [status EXCEPT ![t] = "returned"]
    /\ UNCHANGED <<id, pool, opc, i>>

\* thread_join(t) by the owner, which goes on at label; of a thread that has
\* been freed it is undefined behaviour.
thread_join(t, label) ==
    \/ /\ status[t] = "returned"
       /\ status' = [status EXCEPT ![t] = "freed"]
       /\ opc' = label
    \/ /\ status[t] = "freed"
       /\ opc' = "wild"
       /\ UNCHANGED status

thread_pool_join(k) ==
    /\ opc = "idle"
    /\ k \in DOMAIN pool
    /\ i' = k
    /\ opc' = IF pool[k] = 0 THEN "abort" ELSE "join"   \* assert(thread)
    /\ UNCHANGED <<status, id, pool>>

Join ==
    /\ opc = "join"
    /\ thread_join(pool[i], "idle")
    /\ pool' = [pool EXCEPT ![i] = 0]
    /\ UNCHANGED <<id, i>>

thread_pool_join_all ==
    /\ opc = "idle"
    /\ i' = 1
    /\ opc' = "join_all"
    /\ UNCHANGED <<status, id, pool>>

\* A slip: the loop ends at the first entry that is NULL.
JoinNext_stopping ==
    /\ opc = "join_all"
    /\ IF i > Len(pool) \/ (i <= Len(pool) /\ pool[i] = 0)
       THEN opc' = "idle" /\ UNCHANGED <<status, i>>
       ELSE thread_join(pool[i], "join_all") /\ i' = i + 1
    /\ UNCHANGED <<id, pool>>

\* A slip: the index is advanced only past a thread.
JoinNext_stuck ==
    /\ opc = "join_all"
    /\ IF i > Len(pool)
       THEN opc' = "idle" /\ UNCHANGED <<status, i>>
       ELSE IF pool[i] = 0 THEN UNCHANGED <<status, opc, i>>
            ELSE thread_join(pool[i], "join_all") /\ i' = i + 1
    /\ UNCHANGED <<id, pool>>

\* A turn of the loop of thread_pool_join_all
JoinNext ==
    /\ opc = "join_all"
    /\ IF i > Len(pool)
       THEN opc' = "idle" /\ UNCHANGED <<status, i>>
       ELSE /\ i' = i + 1
            /\ IF pool[i] = 0 THEN UNCHANGED <<status, opc>>
               ELSE thread_join(pool[i], "join_all")
    /\ UNCHANGED <<id, pool>>

\* What the owner does inside an operation, and what it may begin
OwnerProceed == thread_pool_start \/ Join \/ JoinNext

OwnerBegin ==
    \/ thread_start
    \/ \E k \in 1 .. MaxThreads : thread_pool_join(k)
    \/ thread_pool_join_all

PoolNext ==
    \/ OwnerBegin
    \/ OwnerProceed
    \/ \E t \in DOMAIN status : thread_return(t)

PoolSpec == PoolInit /\ [][PoolNext]_poolVars

-----------------------------------------------------------------------------

PoolTypeOK ==
    /\ status \in Seq({"running", "returned", "freed"})
    /\ Len(status) <= MaxThreads
    /\ id \in Seq(0 .. MaxThreads - 1) /\ Len(id) = Len(status)
    /\ pool \in Seq(0 .. MaxThreads)
    /\ opc \in {"idle", "register", "join", "join_all", "abort", "wild"}
    /\ i \in 1 .. MaxThreads + 1

\* Between calls, the entry at the id of a thread that has not been joined is
\* that thread: no two threads share an id, and none is out of reach of a join
\* (thread_pool.c:28-32 and 40).
Registered ==
    opc = "idle" =>
      \A t \in DOMAIN status : status[t] # "freed" =>
        id[t] + 1 \in DOMAIN pool /\ pool[id[t] + 1] = t

\* No thread outlives a call of thread_pool_join_all, whatever
\* thread_pool_join has joined before.
AllJoined ==
    [][opc = "join_all" /\ opc' = "idle"
         => \A t \in DOMAIN status' : status'[t] = "freed"]_poolVars

\* A call of a join returns.
JoinEnds ==
    opc \in {"join", "join_all"} ~> opc \in {"idle", "wild"}
=============================================================================
