----------------------------- MODULE StatsCounter -----------------------------
(***************************************************************************)
(* stats_counter_t (src/helpers/counter/stats_counter.c): a counter spread *)
(* over one atomic word per thread.  Thread t of a pool adds to the word   *)
(* at its thread->id and only the sum of the words is ever asked for, so   *)
(* that no thread waits for another.  The program around it is that of     *)
(* test_stats_counter.c: the owner starts threads, asks for the total, and *)
(* joins the threads, in any order and as often as it likes.               *)
(*                                                                         *)
(* Every access to a word is relaxed.  history[j] are the values word j    *)
(* has had, and a thread may load any of them not older than one it has    *)
(* seen; joining a thread shows the owner all that the thread has seen.    *)
(* thread->id is a plain field that the owner sets while the thread may be *)
(* reading it: until a thread has seen it, it may read the 0 of the        *)
(* cleared struct.                                                         *)
(***************************************************************************)
EXTENDS ThreadPool

CONSTANTS
    Limit,   \* how often each thread adds
    Ops      \* with which of "add1" and "sub1"

ASSUME CounterAssumption == Limit \in Nat /\ Ops \subseteq {"add1", "sub1"}

VARIABLES
    history,   \* of each counter, the values it has had
    seen,      \* of each thread and counter, the newest of them it has seen
    load,      \* of each thread, <<>>, or the counter and count it has loaded
    added,     \* of each thread, what it has added so far
    knows,     \* the threads that have seen their id
    misread,   \* a thread has read another thread's id
    at,        \* the counter stats_counter_total is at, or None
    acc,       \* its sum so far
    total      \* what it returned last

counterVars == <<history, seen, load, added, knows, misread>>
totalVars == <<at, acc, total>>
vars == <<poolVars, counterVars, totalVars>>

Amount(op) == IF op = "add1" THEN 1 ELSE -1

Counters == 0 .. MaxThreads - 1
Main == 0     \* the owner, among the threads
None == -1

Init ==    \* make_stats_counter
    /\ PoolInit
    /\ history = [j \in Counters |-> <<0>>]
    /\ seen = [u \in 0 .. MaxThreads |-> [j \in Counters |-> 1]]
    /\ load = [t \in 1 .. MaxThreads |-> <<>>]
    /\ added = [t \in 1 .. MaxThreads |-> <<>>]
    /\ knows = {} /\ misread = FALSE
    /\ at = None /\ acc = 0 /\ total = 0

\* What thread t may read from thread->id, which the owner may not have set
IdRead(t) == IF t \in knows THEN {id[t]} ELSE {0, id[t]}

\* What a relaxed load of counter j by thread u may find
Loads(u, j) == seen[u][j] .. Len(history[j])

Running(t) == t \in DOMAIN status /\ status[t] = "running"

\* A slip: every thread counts in the first word.
Load_shared(t) ==
    /\ Running(t) /\ load[t] = <<>> /\ Len(added[t]) < Limit
    /\ \E v \in Loads(t, 0) :
         /\ load' = [load EXCEPT ![t] = <<0, history[0][v]>>]
         /\ seen' = [seen EXCEPT ![t][0] = v]
    /\ UNCHANGED <<history, added, knows, misread>>

\* The load of stats_counter_per_thread_add1 and sub1
Load(t) ==
    /\ Running(t) /\ load[t] = <<>> /\ Len(added[t]) < Limit
    /\ \E j \in IdRead(t) : \E v \in Loads(t, j) :
         /\ load' = [load EXCEPT ![t] = <<j, history[j][v]>>]
         /\ seen' = [seen EXCEPT ![t][j] = v]
         /\ knows' = IF j = t - 1 THEN knows \union {t} ELSE knows
         /\ misread' = (misread \/ j # t - 1)
    /\ UNCHANGED <<history, added>>

\* The store of stats_counter_per_thread_add1 or sub1
Store(t, op) ==
    /\ load[t] # <<>>
    /\ LET j == load[t][1]
       IN /\ history' = [history EXCEPT ![j] = Append(@, load[t][2] + Amount(op))]
          /\ seen' = [seen EXCEPT ![t][j] = Len(history[j]) + 1]
    /\ load' = [load EXCEPT ![t] = <<>>]
    /\ added' = [added EXCEPT ![t] = Append(@, op)]
    /\ UNCHANGED <<knows, misread>>

\* The thread function returns after its last turn.
Return(t) == t \in DOMAIN status /\ load[t] = <<>> /\ Len(added[t]) = Limit /\ thread_return(t)

\* What the owner has seen once the threads of T are joined
SeenWith(T) ==
    [j \in Counters |-> Max({seen[u][j] : u \in T \union {Main}})]

\* A step of the owner in the pool
PoolStep(step) ==
    /\ at = None
    /\ step
    /\ LET J == {t \in DOMAIN status :
                   status[t] = "returned" /\ status'[t] = "freed"}
       IN seen' = [seen EXCEPT ![Main] = SeenWith(J)]
    /\ UNCHANGED <<history, load, added, knows, misread, totalVars>>

\* A slip: the sum goes on from that of the last call.
stats_counter_total_kept ==
    /\ opc = "idle" /\ at = None
    /\ at' = 0
    /\ UNCHANGED <<poolVars, counterVars, acc, total>>

stats_counter_total ==
    /\ opc = "idle" /\ at = None
    /\ at' = 0 /\ acc' = 0
    /\ UNCHANGED <<poolVars, counterVars, total>>

\* A slip: the last counter is left out.
AddCount_short ==
    /\ at \in Counters
    /\ \E v \in Loads(Main, at) :
         /\ acc' = IF at = MaxThreads - 1 THEN acc ELSE acc + history[at][v]
         /\ seen' = [seen EXCEPT ![Main][at] = v]
    /\ at' = at + 1
    /\ UNCHANGED <<poolVars, history, load, added, knows, misread, total>>

\* A turn of its loop
AddCount ==
    /\ at \in Counters
    /\ \E v \in Loads(Main, at) :
         /\ acc' = acc + history[at][v]
         /\ seen' = [seen EXCEPT ![Main][at] = v]
    /\ at' = at + 1
    /\ UNCHANGED <<poolVars, history, load, added, knows, misread, total>>

ReturnTotal ==
    /\ at = MaxThreads
    /\ total' = acc /\ at' = None
    /\ UNCHANGED <<poolVars, counterVars, acc>>

CounterStep(t) ==
    /\ Load(t) \/ \E op \in Ops : Store(t, op)
    /\ UNCHANGED <<poolVars, totalVars>>

ReturnStep(t) == Return(t) /\ UNCHANGED <<counterVars, totalVars>>

ThreadStep(t) == CounterStep(t) \/ ReturnStep(t)

Next ==
    \/ PoolStep(OwnerBegin)
    \/ PoolStep(OwnerProceed)
    \/ stats_counter_total \/ AddCount \/ ReturnTotal
    \/ \E t \in 1 .. MaxThreads : ThreadStep(t)

\* The threads, and the owner inside an operation, keep running.
Spec ==
    /\ Init /\ [][Next]_vars
    /\ WF_vars(PoolStep(OwnerProceed))
    /\ WF_vars(AddCount \/ ReturnTotal)
    /\ \A t \in 1 .. MaxThreads : WF_vars(ThreadStep(t))

-----------------------------------------------------------------------------

\* The sum of f[1], ..., f[n]
SumTo(f, n) ==
    LET upto[k \in 0 .. n] == IF k = 0 THEN 0 ELSE upto[k - 1] + f[k]
    IN upto[n]

\* What turns add up to
Turns(turns, op) == {k \in DOMAIN turns : turns[k] = op}
Net(turns) == Cardinality(Turns(turns, "add1")) - Cardinality(Turns(turns, "sub1"))

\* What all threads have added, and how often
AllAdded == SumTo([t \in 1 .. MaxThreads |-> Net(added[t])], MaxThreads)
AllTurns == SumTo([t \in 1 .. MaxThreads |-> Len(added[t])], MaxThreads)
OnlyAdds == \A t \in 1 .. MaxThreads : Range(added[t]) \subseteq {"add1"}

Joined == \A t \in DOMAIN status : status[t] = "freed"

\* A total asked for while the threads count is never ahead of them
\* (stats_counter.c:49-59), even if they share a word by mistake.
TotalNotAhead ==
    /\ total <= AllTurns
    /\ OnlyAdds => total <= AllAdded

\* Nor does it ever go back while the threads only add, although nothing
\* orders the loads of one total with those of the next but that they load the
\* same words.
TotalMonotone == [][OnlyAdds /\ ~misread => total' >= total]_vars

\* Once the threads are joined the total is what they have added, if each has
\* counted in its own word.
FinalTotalKnown == at = MaxThreads /\ Joined /\ ~misread => acc = AllAdded

\* test_stats_counter.c:34 asserts it whatever ids the threads have read.
FinalTotal == at = MaxThreads /\ Joined => acc = AllAdded
=============================================================================
