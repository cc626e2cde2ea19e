--------------------------------- MODULE Deque ---------------------------------
(***************************************************************************)
(* deque_t (src/helpers/deque/deque.c): a list under a fast_spinlock_t,    *)
(* shared by threads.  The list is the sequence that List shows it to be;  *)
(* since only the lock protects it, a list function is two steps: what it  *)
(* reads, and what it then writes.                                         *)
(***************************************************************************)
EXTENDS Containers

CONSTANTS
    Threads,
    Calls,       \* that the threads make
    DequeBound   \* no push is called beyond this length

ASSUME DequeAssumption ==
    /\ NULL \notin Calls /\ DequeBound \in Nat
    /\ \A c \in Calls :
         \/ c.name \in {"push_front", "push_back"} /\ c.value \in Values
         \/ c.name \in {"pop_front", "pop_back", "length", "is_empty"}
         \/ c.name = "get" /\ c.index \in Nat

VARIABLES
    deque_items,       \* self->list
    atomic_is_locked,  \* of self->fast_spinlock
    dpc,               \* where each thread is
    call,              \* what it was called with
    snapshot,          \* what its list function has read
    answer             \* what its last call returned

deque_vars == <<deque_items, atomic_is_locked, dpc, call, snapshot, answer>>

Shared == INSTANCE AtomicDeque WITH items <- deque_items, waiting <- call

DequeInit ==    \* make_deque
    /\ deque_items = <<>>
    /\ atomic_is_locked = FALSE
    /\ dpc = [t \in Threads |-> "idle"]
    /\ call = [t \in Threads |-> NULL]
    /\ snapshot = [t \in Threads |-> <<>>]
    /\ answer = [t \in Threads |-> NULL]

DequeGoto(t, label) == dpc' = [dpc EXCEPT ![t] = label]

Pushes == {"push_front", "push_back"}

\* Any of the functions of deque.h.
Call(t, c) ==
    /\ dpc[t] = "idle"
    /\ c.name \in Pushes =>
         Len(deque_items)
           + Cardinality({u \in Threads : call[u] # NULL /\ call[u].name \in Pushes})
           < DequeBound
    /\ call' = [call EXCEPT ![t] = c]
    /\ DequeGoto(t, "load")
    /\ UNCHANGED <<deque_items, atomic_is_locked, snapshot, answer>>

\* A slip: a lock that looks free is stored to without looking again.
Exchange_store(t) ==
    /\ dpc[t] = "exchange"
    /\ atomic_is_locked' = TRUE
    /\ DequeGoto(t, "read")
    /\ UNCHANGED <<deque_items, call, snapshot, answer>>

\* The relaxed load in fast_spinlock_lock, which may return an old value; when
\* it is TRUE the thread sleeps and loads again.
Load(t) ==
    /\ dpc[t] = "load"
    /\ \/ DequeGoto(t, "exchange")
       \/ UNCHANGED dpc
    /\ UNCHANGED <<deque_items, atomic_is_locked, call, snapshot, answer>>

\* atomic_exchange_explicit, which returns what it replaces.
Exchange(t) ==
    /\ dpc[t] = "exchange"
    /\ atomic_is_locked' = TRUE
    /\ DequeGoto(t, IF atomic_is_locked THEN "load" ELSE "read")
    /\ UNCHANGED <<deque_items, call, snapshot, answer>>

Read(t) ==
    /\ dpc[t] = "read"
    /\ snapshot' = [snapshot EXCEPT ![t] = deque_items]
    /\ DequeGoto(t, "write")
    /\ UNCHANGED <<deque_items, atomic_is_locked, call, answer>>

Write(t) ==
    /\ dpc[t] = "write"
    /\ deque_items' = Shared!After(snapshot[t], call[t])
    /\ answer' = [answer EXCEPT ![t] = Shared!Returned(snapshot[t], call[t])]
    /\ snapshot' = [snapshot EXCEPT ![t] = <<>>]
    /\ call' = [call EXCEPT ![t] = NULL]
    /\ DequeGoto(t, "unlock")
    /\ UNCHANGED atomic_is_locked

\* fast_spinlock_unlock
DequeUnlock(t) ==
    /\ dpc[t] = "unlock"
    /\ atomic_is_locked' = FALSE
    /\ DequeGoto(t, "idle")
    /\ UNCHANGED <<deque_items, call, snapshot, answer>>

DequeNext ==
    \E t \in Threads :
      \/ \E c \in Calls : Call(t, c)
      \/ Load(t) \/ Exchange(t) \/ Read(t) \/ Write(t) \/ DequeUnlock(t)

DequeSpec == DequeInit /\ [][DequeNext]_deque_vars

-----------------------------------------------------------------------------

Inside == {"read", "write", "unlock"}

DequeTypeOK ==
    /\ deque_items \in Seq(Values)
    /\ atomic_is_locked \in BOOLEAN
    /\ dpc \in [Threads -> Inside \cup {"idle", "load", "exchange"}]
    /\ call \in [Threads -> Calls \cup {NULL}]
    /\ snapshot \in [Threads -> Seq(Values)]
    /\ DOMAIN answer = Threads

\* Between fast_spinlock_lock and fast_spinlock_unlock (deque.c:46-73) there is
\* one thread at most, although the lock is tested and taken in two steps and
\* the test may be out of date; and the lock is set just when there is one.
OneInside ==
    /\ atomic_is_locked <=> \E t \in Threads : dpc[t] \in Inside
    /\ \A t, u \in Threads : dpc[t] \in Inside /\ dpc[u] \in Inside => t = u

\* To the threads every call of a deque happens at one moment between its start
\* and its return: no push is lost, no value is popped twice, and lengths and
\* gets are those of that moment.
DequeIsAtomic == Shared!Spec
=============================================================================
