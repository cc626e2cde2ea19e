------------------------------- MODULE Allocator -------------------------------
(***************************************************************************)
(* allocator_t (src/helpers/allocator/allocator.c): free values in one     *)
(* shared stack under a mutex, and in a private stack, the cache, of each  *)
(* thread.  Values move between the two cache_size at a time.              *)
(*                                                                         *)
(* A step of a thread is a piece of code that touches the shared stack at  *)
(* most once: a pop and a push of it read its length in one step and write *)
(* it in another, so that only the mutex keeps two threads apart.          *)
(***************************************************************************)
EXTENDS Integers, SequencesExt

CONSTANTS
    Threads,
    Values,      \* what the program fills the allocator with, never NULL
    CacheSize,   \* make_allocator(cache_size)
    Hold,        \* how many values a thread of the program uses at a time
    NULL

ASSUME AllocatorAssumption ==
    /\ CacheSize \in Nat
    /\ Hold \in Nat \ {0}
    /\ NULL \notin Values \cup Threads
    /\ IsFiniteSet(Values)

VARIABLES
    stack,    \* self->stack
    holder,   \* the thread that holds self->mutex
    cache,    \* the stack that each thread passes
    held,     \* the values that each thread uses
    arg,      \* the value that a thread is giving back
    pc,
    i,        \* of the loops
    length    \* the length that stack_pop or stack_push has read

vars == <<stack, holder, cache, held, arg, pc, i, length>>

\* The program fills self->stack before it starts its threads.
Init ==
    /\ stack \in [1 .. Cardinality(Values) -> Values]
    /\ IsInjective(stack) /\ Range(stack) = Values
    /\ holder = NULL
    /\ cache = [t \in Threads |-> <<>>]
    /\ held = [t \in Threads |-> {}]
    /\ arg = [t \in Threads |-> NULL]
    /\ pc = [t \in Threads |-> "idle"]
    /\ i = [t \in Threads |-> 0]
    /\ length = [t \in Threads |-> 0]

Goto(t, label) == pc' = [pc EXCEPT ![t] = label]

\* mutex_lock and mutex_unlock, by a thread at from that goes on at to
Lock(t, from, to) ==
    /\ pc[t] = from
    /\ holder = NULL
    /\ holder' = t
    /\ i' = [i EXCEPT ![t] = 0]
    /\ Goto(t, to)
    /\ UNCHANGED <<stack, cache, held, arg, length>>

Unlock(t, from, to) ==
    /\ pc[t] = from
    /\ holder' = NULL
    /\ Goto(t, to)
    /\ UNCHANGED <<stack, cache, held, arg, i, length>>

-----------------------------------------------------------------------------
(* allocator_maybe_allocate *)

allocator_maybe_allocate(t) ==
    /\ pc[t] = "idle"
    /\ Cardinality(held[t]) < Hold
    /\ Goto(t, IF cache[t] = <<>> THEN "lock_refill" ELSE "take")
    /\ UNCHANGED <<stack, holder, cache, held, arg, i, length>>

LockRefill(t) == Lock(t, "lock_refill", "refill")

\* A slip: an empty stack ends the call in the middle of the critical section.
Refill_return(t) ==
    /\ pc[t] = "refill"
    /\ IF i[t] < CacheSize /\ stack # <<>>
       THEN /\ length' = [length EXCEPT ![t] = Len(stack)]
            /\ Goto(t, "refill_pop")
       ELSE /\ Goto(t, IF stack = <<>> THEN "take" ELSE "unlock_refill")
            /\ UNCHANGED length
    /\ UNCHANGED <<stack, holder, cache, held, arg, i>>

\* A slip: the loop makes one turn too many.
Refill_long(t) ==
    /\ pc[t] = "refill"
    /\ IF i[t] <= CacheSize /\ stack # <<>>
       THEN /\ length' = [length EXCEPT ![t] = Len(stack)]
            /\ Goto(t, "refill_pop")
       ELSE /\ Goto(t, "unlock_refill")
            /\ UNCHANGED length
    /\ UNCHANGED <<stack, holder, cache, held, arg, i>>

\* A slip: the loop stops one value early.
Refill_short(t) ==
    /\ pc[t] = "refill"
    /\ IF i[t] + 1 < CacheSize /\ stack # <<>>
       THEN /\ length' = [length EXCEPT ![t] = Len(stack)]
            /\ Goto(t, "refill_pop")
       ELSE /\ Goto(t, "unlock_refill")
            /\ UNCHANGED length
    /\ UNCHANGED <<stack, holder, cache, held, arg, i>>

\* The tests of a turn of the loop, and the first half of stack_pop.
Refill(t) ==
    /\ pc[t] = "refill"
    /\ IF i[t] < CacheSize /\ stack # <<>>
       THEN /\ length' = [length EXCEPT ![t] = Len(stack)]
            /\ Goto(t, "refill_pop")
       ELSE /\ Goto(t, "unlock_refill")
            /\ UNCHANGED length
    /\ UNCHANGED <<stack, holder, cache, held, arg, i>>

RefillPop(t) ==
    /\ pc[t] = "refill_pop"
    /\ cache' = [cache EXCEPT ![t] = Append(@, stack[length[t]])]
    /\ stack' = SubSeq(stack, 1, length[t] - 1)
    /\ i' = [i EXCEPT ![t] = @ + 1]
    /\ Goto(t, "refill")
    /\ UNCHANGED <<holder, held, arg, length>>

UnlockRefill(t) == Unlock(t, "unlock_refill", "take")

\* A slip: stack_top where the code has stack_pop.
Take_top(t) ==
    /\ pc[t] = "take"
    /\ IF cache[t] = <<>>
       THEN Goto(t, "refused") /\ UNCHANGED held
       ELSE /\ held' = [held EXCEPT ![t] = @ \cup {Last(cache[t])}]
            /\ Goto(t, "idle")
    /\ UNCHANGED <<stack, holder, cache, arg, i, length>>

\* NULL for an empty cache, where allocator_allocate exits the program.
Take(t) ==
    /\ pc[t] = "take"
    /\ IF cache[t] = <<>>
       THEN Goto(t, "refused") /\ UNCHANGED <<cache, held>>
       ELSE /\ held' = [held EXCEPT ![t] = @ \cup {Last(cache[t])}]
            /\ cache' = [cache EXCEPT ![t] = Front(@)]
            /\ Goto(t, "idle")
    /\ UNCHANGED <<stack, holder, arg, i, length>>

\* The program goes on without the value.
Refused(t) ==
    /\ pc[t] = "refused"
    /\ Goto(t, "idle")
    /\ UNCHANGED <<stack, holder, cache, held, arg, i, length>>

-----------------------------------------------------------------------------
(* allocator_recycle, which clears the caller's pointer, and allocator_free *)

\* A slip: a cache may get one value more than two batches.
allocator_recycle_late(t, value) ==
    /\ pc[t] = "idle"
    /\ value \in held[t]
    /\ held' = [held EXCEPT ![t] = @ \ {value}]
    /\ arg' = [arg EXCEPT ![t] = value]
    /\ Goto(t, IF Len(cache[t]) > 2 * CacheSize THEN "lock_flush" ELSE "put")
    /\ UNCHANGED <<stack, holder, cache, i, length>>

allocator_recycle(t, value) ==
    /\ pc[t] = "idle"
    /\ value \in held[t]
    /\ held' = [held EXCEPT ![t] = @ \ {value}]
    /\ arg' = [arg EXCEPT ![t] = value]
    /\ Goto(t, IF Len(cache[t]) >= 2 * CacheSize THEN "lock_flush" ELSE "put")
    /\ UNCHANGED <<stack, holder, cache, i, length>>

LockFlush(t) == Lock(t, "lock_flush", "flush")

\* A slip: allocator_free does not unlock.
Flush_locked(t) ==
    /\ pc[t] = "flush"
    /\ IF i[t] < CacheSize
       THEN /\ length' = [length EXCEPT ![t] = Len(stack)]
            /\ Goto(t, "flush_push")
       ELSE /\ Goto(t, "put")
            /\ UNCHANGED length
    /\ UNCHANGED <<stack, holder, cache, held, arg, i>>

\* The test of a turn of the loop, and the first half of stack_push.
Flush(t) ==
    /\ pc[t] = "flush"
    /\ IF i[t] < CacheSize
       THEN /\ length' = [length EXCEPT ![t] = Len(stack)]
            /\ Goto(t, "flush_push")
       ELSE /\ Goto(t, "unlock_flush")
            /\ UNCHANGED length
    /\ UNCHANGED <<stack, holder, cache, held, arg, i>>

FlushPush(t) ==
    /\ pc[t] = "flush_push"
    /\ stack' = Append(SubSeq(stack, 1, length[t]), Last(cache[t]))
    /\ cache' = [cache EXCEPT ![t] = Front(@)]
    /\ i' = [i EXCEPT ![t] = @ + 1]
    /\ Goto(t, "flush")
    /\ UNCHANGED <<holder, held, arg, length>>

UnlockFlush(t) == Unlock(t, "unlock_flush", "put")

Put(t) ==
    /\ pc[t] = "put"
    /\ cache' = [cache EXCEPT ![t] = Append(@, arg[t])]
    /\ arg' = [arg EXCEPT ![t] = NULL]
    /\ Goto(t, "idle")
    /\ UNCHANGED <<stack, holder, held, i, length>>

-----------------------------------------------------------------------------

\* What a thread does once it is inside an operation.
Proceed(t) ==
    \/ LockRefill(t) \/ Refill(t) \/ RefillPop(t) \/ UnlockRefill(t)
    \/ Take(t) \/ Refused(t)
    \/ LockFlush(t) \/ Flush(t) \/ FlushPush(t) \/ UnlockFlush(t)
    \/ Put(t)

Next ==
    \E t \in Threads :
      \/ allocator_maybe_allocate(t)
      \/ \E value \in Values : allocator_recycle(t, value)
      \/ Proceed(t)

Spec == Init /\ [][Next]_vars

\* A thread inside an operation keeps running.  Nothing is assumed of the
\* order in which a mutex serves the threads that wait for it.
Fairness == \A t \in Threads : WF_vars(Proceed(t))

-----------------------------------------------------------------------------

Refilling == {"refill", "refill_pop", "unlock_refill"}
Flushing == {"flush", "flush_push", "unlock_flush"}
Giving == Flushing \cup {"lock_flush", "put"}

TypeOK ==
    /\ stack \in Seq(Values)
    /\ holder \in Threads \cup {NULL}
    /\ cache \in [Threads -> Seq(Values)]
    /\ held \in [Threads -> SUBSET Values]
    /\ arg \in [Threads -> Values \cup {NULL}]
    /\ pc \in [Threads -> Refilling \cup Giving
                            \cup {"idle", "lock_refill", "take", "refused"}]
    /\ i \in [Threads -> 0 .. CacheSize]
    /\ length \in [Threads -> Nat]

\* A thread is between mutex_lock and mutex_unlock exactly when it holds the
\* mutex, and the length of the shared stack it has read is still its length.
MutexHeld ==
    \A t \in Threads :
      /\ pc[t] \in Refilling \cup Flushing <=> holder = t
      /\ pc[t] \in {"refill_pop", "flush_push"} => length[t] = Len(stack)

OfThread(t) == Range(cache[t]) \cup held[t] \cup ({arg[t]} \ {NULL})

\* No value is lost, and none is given to two threads or twice to one: each is
\* in exactly one place, the shared stack, one slot of one cache, or in the
\* hands of one thread (what test_allocator_thread_safe.c:17-32 tests by
\* writing to the values).
Conserved ==
    /\ IsInjective(stack)
    /\ \A t \in Threads :
         /\ IsInjective(cache[t])
         /\ Range(cache[t]) \cap held[t] = {}
         /\ arg[t] \notin Range(cache[t]) \cup held[t]
         /\ OfThread(t) \cap Range(stack) = {}
         /\ \A u \in Threads \ {t} : OfThread(t) \cap OfThread(u) = {}
    /\ Range(stack) \cup UNION {OfThread(t) : t \in Threads} = Values

\* How far the loops have come.
LoopsOK ==
    \A t \in Threads :
      /\ pc[t] = "lock_refill" => cache[t] = <<>>
      /\ pc[t] \in Refilling => Len(cache[t]) = i[t]
      /\ pc[t] = "refill_pop" => i[t] < CacheSize /\ stack # <<>>
      /\ pc[t] = "unlock_refill" => i[t] = CacheSize \/ stack = <<>>
      /\ pc[t] = "lock_flush" => Len(cache[t]) >= 2 * CacheSize
      /\ pc[t] \in Flushing => Len(cache[t]) + i[t] >= 2 * CacheSize
      /\ pc[t] \in Flushing /\ CacheSize > 0
           => Len(cache[t]) + i[t] <= 2 * CacheSize
      /\ pc[t] = "flush_push" => i[t] < CacheSize
      /\ pc[t] = "unlock_flush" => i[t] = CacheSize
      /\ pc[t] = "put" /\ CacheSize > 0 => Len(cache[t]) < 2 * CacheSize
      /\ arg[t] = NULL <=> pc[t] \notin Giving

\* A thread keeps at most two batches of free values to itself.
CacheBound ==
    CacheSize > 0 => \A t \in Threads : Len(cache[t]) <= 2 * CacheSize

\* A thread that comes out of the shared stack with nothing has found it
\* empty, and it is still empty when the thread gives up the mutex.
EmptyWhenRefused ==
    \A t \in Threads :
      pc[t] = "unlock_refill" /\ cache[t] = <<>> /\ CacheSize > 0
        => stack = <<>>

\* The inductive invariant of the proofs.
IInv == TypeOK /\ MutexHeld /\ LoopsOK /\ CacheBound /\ Conserved

\* What a thread owns: in its cache, in use, and being given back.
Owned(t) ==
    Len(cache[t]) + Cardinality(held[t]) + (IF arg[t] = NULL THEN 0 ELSE 1)

\* A thread goes to the shared stack only with an empty cache, and so never owns
\* more than it uses by a whole batch (allocator.c:40-56).  Hence no thread is
\* refused, although the caches of the others are out of its reach, as long as
\* there is a value more than Hold - 1 for each thread and CacheSize for each of
\* the others, as in test_allocator_thread_safe.c:44.
OwnsLittle == \A t \in Threads : Owned(t) < Hold + CacheSize

\* What makes OwnsLittle inductive: who is about to refill asks for one more.
Asking ==
    \A t \in Threads :
      pc[t] \in Refilling \cup {"lock_refill"} => Cardinality(held[t]) < Hold

\* Both branches of an operation give the mutex back.
MutexReleased == \A t \in Threads : holder = t ~> holder # t
=============================================================================
