-------------------------------- MODULE Queue --------------------------------
(***************************************************************************)
(* queue_t (src/helpers/queue/queue.c): the single producer, single        *)
(* consumer circular queue with atomic cursors and cached copies of them.  *)
(*                                                                         *)
(* A step is one access to shared memory.  The C11 memory model is kept in *)
(* the part the code depends on:                                           *)
(*   - a load of the other thread's cursor may return any value from the   *)
(*     last one this thread saw (coherence) up to the newest one;          *)
(*   - an acquire load that returns a cursor also makes visible what the   *)
(*     other thread did before it stored that cursor; a relaxed load does  *)
(*     not.  hb_front and hb_back are that knowledge: the consumer's reads *)
(*     before hb_front happen before the producer's next step, and the     *)
(*     producer's writes before hb_back before the consumer's.             *)
(* A thread's loads of its own cursor are exact.                           *)
(*                                                                         *)
(* cursor_t is a size_t that wraps: cursors live in 0 .. CursorMod - 1.    *)
(***************************************************************************)
EXTENDS Integers, Sequences

CONSTANTS
    Size,        \* make_queue(size): a power of two, at least 2
    CursorMod,   \* 2^64 in the code
    Values,      \* what is pushed; any pointer, NULL included
    NULL

\* make_queue asserts that size is a power of two larger than one.  What the
\* algorithm needs of that is that size divides the range of the cursors.
ASSUME SizeAssumption ==
    /\ Size \in Nat /\ Size > 1
    /\ CursorMod \in Nat
    /\ \E k \in 2 .. CursorMod : CursorMod = k * Size

VARIABLES
    values,                \* the buffer
    front_cursor, back_cursor,
    cached_front_cursor,   \* owned by the producer
    cached_back_cursor,    \* owned by the consumer
    seen_front, hb_front,  \* the producer's knowledge of front_cursor
    seen_back, hb_back,    \* the consumer's knowledge of back_cursor
    ppc, parg, presult,    \* producer: program point, value pushed, last answer
    cpc, cvalue, cresult   \* consumer: program point, value read, last answer

cursorVars == <<front_cursor, back_cursor, cached_front_cursor,
                cached_back_cursor, seen_front, hb_front, seen_back, hb_back>>
producerVars == <<ppc, parg, presult>>
consumerVars == <<cpc, cvalue, cresult>>
vars == <<values, cursorVars, producerVars, consumerVars>>

Cursor == 0 .. CursorMod - 1

\* A slip: a cursor that does not wrap.
next_unwrapped(cursor) == cursor + 1

\* size_t arithmetic
next(cursor) == (cursor + 1) % CursorMod
distance(from, to) == (to - from) % CursorMod

\* cursor & mask
slot(cursor) == cursor % Size

get_value(cursor) == values[slot(cursor)]

set_value(cursor, value) == values' = [values EXCEPT ![slot(cursor)] = value]

\* A slip: one value too many.
is_full_late(front, back) == distance(front, back) = Size + 1

is_full(front, back) == distance(front, back) = Size

is_empty(front, back) == back = front

\* What a load of a cursor may return to a thread that last saw it at seen.
Visible(seen, newest) ==
    {c \in Cursor : distance(seen, c) <= distance(seen, newest)}

Init ==    \* make_queue
    /\ values = [i \in 0 .. Size - 1 |-> NULL]
    /\ front_cursor = 0 /\ back_cursor = 0
    /\ cached_front_cursor = 0 /\ cached_back_cursor = 0
    /\ seen_front = 0 /\ hb_front = 0
    /\ seen_back = 0 /\ hb_back = 0
    /\ ppc = "idle" /\ parg = NULL /\ presult = <<"full", TRUE>>
    /\ cpc = "idle" /\ cvalue = NULL /\ cresult = <<"empty", TRUE>>

-----------------------------------------------------------------------------
(* The producer *)

PushBegin(v) ==
    /\ ppc = "idle"
    /\ parg' = v
    /\ ppc' = IF is_full(cached_front_cursor, back_cursor)
              THEN "reload" ELSE "write"
    /\ UNCHANGED <<values, cursorVars, presult, consumerVars>>

\* A slip: the load is relaxed.
PushReload_relaxed(c) ==
    /\ ppc = "reload"
    /\ c \in Visible(seen_front, front_cursor)
    /\ cached_front_cursor' = c
    /\ seen_front' = c
    /\ IF is_full(c, back_cursor)
       THEN ppc' = "idle" /\ presult' = <<"push", FALSE>>
       ELSE ppc' = "write" /\ UNCHANGED presult
    /\ UNCHANGED <<values, front_cursor, back_cursor, cached_back_cursor,
                   hb_front, seen_back, hb_back, parg, consumerVars>>

\* A slip: no second test after the load.
PushReload_untested(c) ==
    /\ ppc = "reload"
    /\ c \in Visible(seen_front, front_cursor)
    /\ cached_front_cursor' = c
    /\ seen_front' = c
    /\ hb_front' = c
    /\ ppc' = "write"
    /\ UNCHANGED <<values, front_cursor, back_cursor, cached_back_cursor,
                   seen_back, hb_back, parg, presult, consumerVars>>

\* A slip: the second test is on the old cache, which stays.
PushReload_uncached(c) ==
    /\ ppc = "reload"
    /\ c \in Visible(seen_front, front_cursor)
    /\ seen_front' = c
    /\ hb_front' = c
    /\ IF is_full(cached_front_cursor, back_cursor)
       THEN ppc' = "idle" /\ presult' = <<"push", FALSE>>
       ELSE ppc' = "write" /\ UNCHANGED presult
    /\ UNCHANGED <<values, front_cursor, back_cursor, cached_front_cursor,
                   cached_back_cursor, seen_back, hb_back, parg, consumerVars>>

\* acquire_load(self->front_cursor) into the cache, and the second test
PushReload(c) ==
    /\ ppc = "reload"
    /\ c \in Visible(seen_front, front_cursor)
    /\ cached_front_cursor' = c
    /\ seen_front' = c
    /\ hb_front' = c
    /\ IF is_full(c, back_cursor)
       THEN ppc' = "idle" /\ presult' = <<"push", FALSE>>
       ELSE ppc' = "write" /\ UNCHANGED presult
    /\ UNCHANGED <<values, front_cursor, back_cursor, cached_back_cursor,
                   seen_back, hb_back, parg, consumerVars>>

PushWrite ==
    /\ ppc = "write"
    /\ set_value(back_cursor, parg)
    /\ ppc' = "publish"
    /\ UNCHANGED <<cursorVars, parg, presult, consumerVars>>

\* release_store(self->back_cursor, back_cursor + 1)
PushPublish ==
    /\ ppc = "publish"
    /\ back_cursor' = next(back_cursor)
    /\ ppc' = "idle"
    /\ presult' = <<"push", TRUE>>
    /\ UNCHANGED <<values, front_cursor, cached_front_cursor,
                   cached_back_cursor, seen_front, hb_front, seen_back,
                   hb_back, parg, consumerVars>>

\* relaxed_load(self->front_cursor) by the producer
producer_relaxed_load(c) ==
    /\ ppc = "idle"
    /\ c \in Visible(seen_front, front_cursor)
    /\ seen_front' = c
    /\ UNCHANGED <<values, front_cursor, back_cursor, cached_front_cursor,
                   cached_back_cursor, hb_front, seen_back, hb_back, ppc,
                   parg, consumerVars>>

queue_is_full(c) ==
    /\ producer_relaxed_load(c)
    /\ presult' = <<"full", is_full(c, back_cursor)>>

\* A slip: the cursors are swapped.
producer_queue_length_swapped(c) ==
    /\ producer_relaxed_load(c)
    /\ presult' = <<"length", distance(back_cursor, c)>>

producer_queue_length(c) ==
    /\ producer_relaxed_load(c)
    /\ presult' = <<"length", distance(c, back_cursor)>>

-----------------------------------------------------------------------------
(* The consumer *)

PopBegin ==
    /\ cpc = "idle"
    /\ cpc' = IF is_empty(front_cursor, cached_back_cursor)
              THEN "reload" ELSE "read"
    /\ UNCHANGED <<values, cursorVars, producerVars, cvalue, cresult>>

\* A slip: no second test after the load.
PopReload_untested(c) ==
    /\ cpc = "reload"
    /\ c \in Visible(seen_back, back_cursor)
    /\ cached_back_cursor' = c
    /\ seen_back' = c
    /\ hb_back' = c
    /\ cpc' = "read"
    /\ UNCHANGED <<values, front_cursor, back_cursor, cached_front_cursor,
                   seen_front, hb_front, producerVars, cvalue, cresult>>

\* acquire_load(self->back_cursor) into the cache, and the second test
PopReload(c) ==
    /\ cpc = "reload"
    /\ c \in Visible(seen_back, back_cursor)
    /\ cached_back_cursor' = c
    /\ seen_back' = c
    /\ hb_back' = c
    /\ IF is_empty(front_cursor, c)
       THEN cpc' = "idle" /\ cresult' = <<"pop", NULL>>
       ELSE cpc' = "read" /\ UNCHANGED cresult
    /\ UNCHANGED <<values, front_cursor, back_cursor, cached_front_cursor,
                   seen_front, hb_front, producerVars, cvalue>>

PopRead ==
    /\ cpc = "read"
    /\ cvalue' = get_value(front_cursor)
    /\ cpc' = "publish"
    /\ UNCHANGED <<values, cursorVars, producerVars, cresult>>

\* release_store(self->front_cursor, front_cursor + 1)
PopPublish ==
    /\ cpc = "publish"
    /\ front_cursor' = next(front_cursor)
    /\ cpc' = "idle"
    /\ cresult' = <<"pop", cvalue>>
    /\ UNCHANGED <<values, back_cursor, cached_front_cursor,
                   cached_back_cursor, seen_front, hb_front, seen_back,
                   hb_back, producerVars, cvalue>>

\* relaxed_load(self->back_cursor) by the consumer
consumer_relaxed_load(c) ==
    /\ cpc = "idle"
    /\ c \in Visible(seen_back, back_cursor)
    /\ seen_back' = c
    /\ UNCHANGED <<values, front_cursor, back_cursor, cached_front_cursor,
                   cached_back_cursor, seen_front, hb_front, hb_back, cpc,
                   cvalue, producerVars>>

queue_is_empty(c) ==
    /\ consumer_relaxed_load(c)
    /\ cresult' = <<"empty", is_empty(front_cursor, c)>>

consumer_queue_length(c) ==
    /\ consumer_relaxed_load(c)
    /\ cresult' = <<"length", distance(front_cursor, c)>>

-----------------------------------------------------------------------------
(* The owner of the queue, with no thread inside an operation.  Joining    *)
(* both threads, or running alone, makes everything they did visible.      *)

Quiescent == ppc = "idle" /\ cpc = "idle"

AllVisible ==
    /\ seen_front' = front_cursor' /\ hb_front' = front_cursor'
    /\ seen_back' = back_cursor' /\ hb_back' = back_cursor'
    /\ presult' = <<"full", TRUE>>
    /\ cresult' = <<"empty", TRUE>>

\* thread_join on both, and a new producer and a new consumer
Rejoin ==
    /\ Quiescent
    /\ UNCHANGED <<values, front_cursor, back_cursor, cached_front_cursor,
                   cached_back_cursor, ppc, parg, cpc, cvalue>>
    /\ AllVisible

\* queue_get is NOT thread safe: one thread holds both ends.  All it changes
\* is the consumer's cache.
queue_get ==
    /\ Quiescent
    /\ is_empty(front_cursor, cached_back_cursor)
    /\ cached_back_cursor' = back_cursor
    /\ UNCHANGED <<values, front_cursor, back_cursor, cached_front_cursor,
                   ppc, parg, cpc, cvalue>>
    /\ AllVisible

\* queue_pop_front until queue_is_empty: the last pop that finds its cache
\* empty loads back_cursor
queue_purge ==
    /\ Quiescent
    /\ front_cursor' = back_cursor
    /\ cached_back_cursor' = back_cursor
    /\ UNCHANGED <<values, back_cursor, cached_front_cursor,
                   ppc, parg, cpc, cvalue>>
    /\ AllVisible

-----------------------------------------------------------------------------

ProducerStep ==
    \/ \E c \in Cursor : PushReload(c)
    \/ PushWrite
    \/ PushPublish

ConsumerStep ==
    \/ \E c \in Cursor : PopReload(c)
    \/ PopRead
    \/ PopPublish

Next ==
    \/ \E v \in Values : PushBegin(v)
    \/ PopBegin
    \/ ProducerStep
    \/ ConsumerStep
    \/ \E c \in Cursor :
        \/ queue_is_full(c) \/ producer_queue_length(c)
        \/ queue_is_empty(c) \/ consumer_queue_length(c)
    \/ Rejoin
    \/ queue_get
    \/ queue_purge

Spec == Init /\ [][Next]_vars

-----------------------------------------------------------------------------

ProducerAnswers ==
    ({"push", "full"} \X BOOLEAN) \cup ({"length"} \X Cursor)

ConsumerAnswers ==
    ({"pop"} \X (Values \cup {NULL})) \cup ({"empty"} \X BOOLEAN)
        \cup ({"length"} \X Cursor)

TypeOK ==
    /\ values \in [0 .. Size - 1 -> Values \cup {NULL}]
    /\ front_cursor \in Cursor /\ back_cursor \in Cursor
    /\ cached_front_cursor \in Cursor /\ cached_back_cursor \in Cursor
    /\ seen_front \in Cursor /\ hb_front \in Cursor
    /\ seen_back \in Cursor /\ hb_back \in Cursor
    /\ ppc \in {"idle", "reload", "write", "publish"}
    /\ parg \in Values \cup {NULL}
    /\ ppc # "idle" => parg \in Values
    /\ presult \in ProducerAnswers
    /\ cpc \in {"idle", "reload", "read", "publish"}
    /\ cvalue \in Values \cup {NULL}
    /\ cresult \in ConsumerAnswers

\* The cursors keep their order around the circle, whatever the caches and
\* the stale loads say: no cursor the producer knows is ahead of front_cursor
\* or more than Size behind back_cursor, none the consumer knows is behind
\* front_cursor or ahead of back_cursor (queue.c:19-21).
CursorOrder ==
    /\ distance(front_cursor, back_cursor) <= distance(seen_front, back_cursor)
    /\ distance(seen_front, back_cursor) <= distance(hb_front, back_cursor)
    /\ distance(hb_front, back_cursor)
         <= distance(cached_front_cursor, back_cursor)
    /\ distance(cached_front_cursor, back_cursor) <= Size
    /\ distance(front_cursor, cached_back_cursor)
         <= distance(front_cursor, hb_back)
    /\ distance(front_cursor, hb_back) <= distance(front_cursor, seen_back)
    /\ distance(front_cursor, seen_back) <= distance(front_cursor, back_cursor)

\* No data race on a slot: when the producer writes a slot, the consumer's
\* read of the slot's previous value happens before it, and when the consumer
\* reads a slot, the producer's write of it happens before.
NoDataRace ==
    /\ ppc = "write" => distance(hb_front, back_cursor) < Size
    /\ cpc = "read" => distance(front_cursor, hb_back) > 0

\* The producer writes, and publishes what it wrote, only where there is room,
\* and a "not full" that queue_is_full has answered stays true until it pushes.
RoomToPush ==
    /\ ppc \in {"write", "publish"}
         => distance(cached_front_cursor, back_cursor) < Size
    /\ presult = <<"full", FALSE>> => distance(seen_front, back_cursor) < Size
    /\ ppc = "publish" => get_value(back_cursor) = parg

\* The consumer reads, and gives up what it read, only where there is a value,
\* and a "not empty" that queue_is_empty has answered stays true until it
\* pops; the slot keeps the value until the consumer has given it up.
ValueToPop ==
    /\ cpc \in {"read", "publish"}
         => 0 < distance(front_cursor, cached_back_cursor)
    /\ cresult = <<"empty", FALSE>> => 0 < distance(front_cursor, seen_back)
    /\ cpc = "publish" => get_value(front_cursor) = cvalue

\* The inductive invariant of the proofs.
IInv == TypeOK /\ CursorOrder /\ RoomToPush /\ ValueToPop

\* The values between the cursors.
contents ==
    [i \in 1 .. distance(front_cursor, back_cursor) |->
        get_value(front_cursor + i - 1)]

Fifo == INSTANCE BoundedFifo WITH Capacity <- Size, q <- contents

\* The lock-free code, with its cached cursors and stale loads, implements a
\* bounded queue with atomic operations, in which "not full" and "not empty"
\* are answers the next push and the next pop can rely on.
ImplementsFifo == Fifo!Spec
=============================================================================
