----------------------------- MODULE QueueProofs -----------------------------
(***************************************************************************)
(* Proofs about queue_t: the cursors keep their order, the two threads     *)
(* never race on a slot, and the queue implements BoundedFifo, for every   *)
(* size, every range of the cursors that size divides, and every set of    *)
(* values.                                                                 *)
(***************************************************************************)
EXTENDS Queue, SequenceTheorems, TLAPS

-----------------------------------------------------------------------------
(* Arithmetic modulo n *)

\* Euclidean division.
LEMMA DivMod ==
    ASSUME NEW n \in Nat \ {0}, NEW a \in Int
    PROVE  /\ a \div n \in Int
           /\ a % n \in 0 .. n - 1
           /\ a = n * (a \div n) + (a % n)
  OBVIOUS

\* A positive multiple of n is at least n.
LEMMA PositiveMultiple ==
    ASSUME NEW n \in Nat \ {0}, NEW x \in Int, x >= 1
    PROVE  n * x >= n
  OBVIOUS

\* Quotient and remainder are unique.
LEMMA UniqueRemainder ==
    ASSUME NEW n \in Nat \ {0}, NEW p \in Int, NEW q \in Int,
           NEW r \in 0 .. n - 1, NEW s \in 0 .. n - 1,
           n * p + r = n * q + s
    PROVE  r = s
<1>1. PICK d \in Int : d = p - q
  OBVIOUS
<1>2. n * d = s - r
  BY <1>1
<1>3. s - r < n /\ s - r > -n /\ n \in Nat
  OBVIOUS
<1>4. CASE d >= 1
  <2>1. n * d >= n
    BY <1>4, PositiveMultiple
  <2> QED BY ONLY <1>1, <1>2, <1>3, <2>1
<1>5. CASE -d >= 1
  <2>1. n * (-d) >= n /\ n * (-d) = -(s - r)
    BY <1>2, <1>5, PositiveMultiple
  <2> QED BY ONLY <1>1, <1>3, <2>1
<1>6. CASE d = 0
  BY <1>2, <1>6
<1> QED BY <1>4, <1>5, <1>6

\* Adding a multiple of n does not change the remainder.
LEMMA RemainderPeriodic ==
    ASSUME NEW n \in Nat \ {0}, NEW k \in Int, NEW a \in Int
    PROVE  (a + n * k) % n = a % n
<1> DEFINE b == a + n * k
           p == b \div n
           q == (a \div n) + k
           r == b % n
           s == a % n
<1>1. b \in Int /\ b = n * p + r /\ p \in Int /\ r \in 0 .. n - 1
  <2>1. b \in Int
    OBVIOUS
  <2> HIDE DEF b
  <2> QED BY <2>1, DivMod
<1>2. n * q + s = b /\ q \in Int /\ s \in 0 .. n - 1
  <2>1. PICK d \in Int : d = a \div n
    BY DivMod
  <2>2. a = n * d + s /\ s \in 0 .. n - 1
    BY <2>1, DivMod
  <2>3. n * (d + k) = n * d + n * k
    OBVIOUS
  <2> HIDE DEF s
  <2>4. n * (d + k) + s = a + n * k
    BY <2>2, <2>3
  <2> QED BY <2>1, <2>2, <2>4
<1> HIDE DEF b, p, q, r, s
<1>3. r = s
  BY <1>1, <1>2, UniqueRemainder
<1> QED BY <1>3 DEF b, r, s

\* Two numbers less than n apart have different remainders.
LEMMA RemainderDistinct ==
    ASSUME NEW n \in Nat \ {0}, NEW d \in 1 .. n - 1, NEW a \in Int
    PROVE  (a + d) % n # a % n
<1> SUFFICES ASSUME (a + d) % n = a % n
             PROVE  FALSE
  OBVIOUS
<1> DEFINE b == a + d
           p == b \div n
           q == a \div n
<1>1. p \in Int /\ b = n * p + (a % n)
  BY DivMod
<1>2. q \in Int /\ a = n * q + (a % n)
  BY DivMod
<1>3. a % n \in 0 .. n - 1
  BY DivMod
<1>4. 0 \in 0 .. n - 1 /\ d \in 0 .. n - 1
  OBVIOUS
<1>5. n * p + 0 = n * q + d
  BY <1>1, <1>2, <1>3
<1> HIDE DEF b, p, q
<1>6. 0 = d
  BY <1>1, <1>2, <1>4, <1>5, UniqueRemainder
<1> QED BY <1>6

-----------------------------------------------------------------------------
(* Cursors and slots *)

\* The size divides the range of the cursors, which is at least twice as large.
LEMMA Sizes ==
    /\ Size \in Nat \ {0} /\ Size > 1
    /\ CursorMod \in Nat \ {0} /\ CursorMod >= 2 * Size
    /\ \E k \in Nat \ {0} : CursorMod = Size * k
<1>1. PICK k \in 2 .. CursorMod : CursorMod = k * Size
  BY SizeAssumption
<1>2. Size \in Nat \ {0} /\ Size > 1 /\ CursorMod \in Nat /\ k \in Nat \ {0}
  BY <1>1, SizeAssumption
<1>3. CursorMod = Size * k /\ k - 2 \in Nat
  BY <1>1, <1>2, SizeAssumption
<1>4. Size * (k - 2) >= 0
  BY <1>2, <1>3
<1>5. Size * (k - 2) = CursorMod - 2 * Size
  BY <1>2, <1>3
<1> QED BY <1>2, <1>3, <1>4, <1>5

\* distance by cases, without the remainder.
LEMMA DistanceCases ==
    ASSUME NEW a \in Cursor, NEW b \in Cursor
    PROVE  distance(a, b) = IF b >= a THEN b - a ELSE b - a + CursorMod
  BY Sizes DEF distance, Cursor

\* next by cases, without the remainder.
LEMMA NextCases ==
    ASSUME NEW a \in Cursor
    PROVE  next(a) = IF a = CursorMod - 1 THEN 0 ELSE a + 1
<1>1. CASE a = CursorMod - 1
  BY <1>1, Sizes DEF next, Cursor
<1>2. CASE a # CursorMod - 1
  BY <1>2, Sizes DEF next, Cursor
<1> QED BY <1>1, <1>2

\* A slot is an index of the buffer, and a cursor that wraps keeps its slot.
LEMMA SlotPeriodic ==
    ASSUME NEW a \in Int
    PROVE  slot(a) \in 0 .. Size - 1 /\ slot(a + CursorMod) = slot(a)
<1>1. PICK k \in Nat \ {0} : CursorMod = Size * k
  BY Sizes
<1>2. (a + Size * k) % Size = a % Size
  <2>1. Size \in Nat \ {0} /\ k \in Int
    BY Sizes
  <2> QED BY <2>1, RemainderPeriodic
<1>3. slot(a) \in 0 .. Size - 1
  BY Sizes, DivMod DEF slot
<1> QED BY <1>1, <1>2, <1>3 DEF slot

\* Walking d cursors from a reaches the slot of the cursor at distance d.
LEMMA SlotOfDistance ==
    ASSUME NEW a \in Cursor, NEW b \in Cursor
    PROVE  slot(a + distance(a, b)) = slot(b)
<1>1. CASE b >= a
  BY <1>1, DistanceCases, Sizes DEF Cursor
<1>2. CASE ~ b >= a
  <2>1. a + distance(a, b) = b + CursorMod
    BY <1>2, DistanceCases, Sizes DEF Cursor
  <2> QED BY <2>1, SlotPeriodic DEF Cursor
<1> QED BY <1>1, <1>2

\* Fewer than Size cursors from a, the slots are different.
LEMMA SlotDistinct ==
    ASSUME NEW a \in Int, NEW d \in 1 .. Size - 1
    PROVE  slot(a + d) # slot(a)
  BY Sizes, RemainderDistinct DEF slot

\* distance is a cursor.
LEMMA DistanceType ==
    ASSUME NEW a \in Cursor, NEW b \in Cursor
    PROVE  distance(a, b) \in Cursor
  BY DistanceCases, Sizes DEF Cursor

\* next is a cursor.
LEMMA NextType ==
    ASSUME NEW a \in Cursor
    PROVE  next(a) \in Cursor
  BY NextCases, Sizes DEF Cursor

\* Moving the far end one cursor on makes the distance one longer.
LEMMA DistanceGrows ==
    ASSUME NEW a \in Cursor, NEW b \in Cursor, distance(a, b) <= Size - 1
    PROVE  distance(a, next(b)) = distance(a, b) + 1
<1>1. distance(a, b) = IF b >= a THEN b - a ELSE b - a + CursorMod
  BY DistanceCases
<1>2. distance(a, next(b)) =
        IF next(b) >= a THEN next(b) - a ELSE next(b) - a + CursorMod
  BY NextType, DistanceCases
<1> QED BY <1>1, <1>2, NextCases, Sizes DEF Cursor

\* Moving the near end one cursor on makes the distance one shorter.
LEMMA DistanceShrinks ==
    ASSUME NEW a \in Cursor, NEW b \in Cursor, distance(a, b) > 0
    PROVE  distance(next(a), b) = distance(a, b) - 1
<1>1. distance(a, b) = IF b >= a THEN b - a ELSE b - a + CursorMod
  BY DistanceCases
<1>2. distance(next(a), b) =
        IF b >= next(a) THEN b - next(a) ELSE b - next(a) + CursorMod
  BY NextType, DistanceCases
<1> QED BY <1>1, <1>2, NextCases, Sizes DEF Cursor

\* Only equal cursors are at distance 0.
LEMMA DistanceZero ==
    ASSUME NEW a \in Cursor, NEW b \in Cursor
    PROVE  distance(a, b) = 0 <=> a = b
<1>1. distance(a, b) = IF b >= a THEN b - a ELSE b - a + CursorMod
  BY DistanceCases
<1> QED BY <1>1, Sizes DEF Cursor

\* Whatever the producer's load of front_cursor returns lies between what the
\* producer knew and front_cursor.
LEMMA FrontLoad ==
    ASSUME NEW seen \in Cursor, NEW front \in Cursor, NEW back \in Cursor,
           distance(front, back) <= distance(seen, back),
           NEW c \in Visible(seen, front)
    PROVE  /\ c \in Cursor
           /\ distance(front, back) <= distance(c, back)
           /\ distance(c, back) <= distance(seen, back)
<1>1. c \in Cursor /\ distance(seen, c) <= distance(seen, front)
  BY DEF Visible
<1>2. /\ distance(front, back) =
           IF back >= front THEN back - front ELSE back - front + CursorMod
      /\ distance(seen, back) =
           IF back >= seen THEN back - seen ELSE back - seen + CursorMod
      /\ distance(c, back) =
           IF back >= c THEN back - c ELSE back - c + CursorMod
      /\ distance(seen, front) =
           IF front >= seen THEN front - seen ELSE front - seen + CursorMod
      /\ distance(seen, c) =
           IF c >= seen THEN c - seen ELSE c - seen + CursorMod
  BY <1>1, DistanceCases
<1> QED BY <1>1, <1>2, Sizes DEF Cursor

\* Whatever the consumer's load of back_cursor returns lies between what the
\* consumer knew and back_cursor.
LEMMA BackLoad ==
    ASSUME NEW seen \in Cursor, NEW front \in Cursor, NEW back \in Cursor,
           distance(front, seen) <= distance(front, back),
           NEW c \in Visible(seen, back)
    PROVE  /\ c \in Cursor
           /\ distance(front, seen) <= distance(front, c)
           /\ distance(front, c) <= distance(front, back)
<1>1. c \in Cursor /\ distance(seen, c) <= distance(seen, back)
  BY DEF Visible
<1>2. /\ distance(front, back) =
           IF back >= front THEN back - front ELSE back - front + CursorMod
      /\ distance(front, seen) =
           IF seen >= front THEN seen - front ELSE seen - front + CursorMod
      /\ distance(front, c) =
           IF c >= front THEN c - front ELSE c - front + CursorMod
      /\ distance(seen, back) =
           IF back >= seen THEN back - seen ELSE back - seen + CursorMod
      /\ distance(seen, c) =
           IF c >= seen THEN c - seen ELSE c - seen + CursorMod
  BY <1>1, DistanceCases
<1> QED BY <1>1, <1>2, Sizes DEF Cursor

-----------------------------------------------------------------------------
(* Types *)

\* Every step of either thread and of the owner keeps the types.
LEMMA TypeStep == TypeOK /\ [Next]_vars => TypeOK'
<1> SUFFICES ASSUME TypeOK, [Next]_vars
             PROVE  TypeOK'
  OBVIOUS
<1> USE DEF TypeOK
<1>1. ASSUME NEW v \in Values, PushBegin(v)
      PROVE  TypeOK'
  BY <1>1 DEF PushBegin, cursorVars, consumerVars
<1>2. ASSUME NEW c \in Cursor, PushReload(c)
      PROVE  TypeOK'
  <2>1. presult' = presult \/ presult' = <<"push", FALSE>>
    BY <1>2 DEF PushReload
  <2>2. <<"push", FALSE>> \in ProducerAnswers
    BY DEF ProducerAnswers
  <2> QED BY <1>2, <2>1, <2>2 DEF PushReload, consumerVars
<1>3. CASE PushWrite
  BY <1>3, SlotPeriodic DEF PushWrite, set_value, cursorVars, consumerVars, Cursor
<1>4. CASE PushPublish
  BY <1>4, NextType DEF PushPublish, consumerVars, ProducerAnswers
<1>5. ASSUME NEW c \in Cursor, queue_is_full(c)
      PROVE  TypeOK'
  BY <1>5 DEF queue_is_full, producer_relaxed_load, consumerVars, ProducerAnswers, is_full
<1>6. ASSUME NEW c \in Cursor, producer_queue_length(c)
      PROVE  TypeOK'
  BY <1>6, DistanceType DEF producer_queue_length, producer_relaxed_load, consumerVars, ProducerAnswers
<1>7. CASE PopBegin
  BY <1>7 DEF PopBegin, cursorVars, producerVars
<1>8. ASSUME NEW c \in Cursor, PopReload(c)
      PROVE  TypeOK'
  BY <1>8 DEF PopReload, producerVars, ConsumerAnswers
<1>9. CASE PopRead
  <2>1. slot(front_cursor) \in 0 .. Size - 1
    BY SlotPeriodic DEF Cursor
  <2> QED BY <1>9, <2>1 DEF PopRead, get_value, cursorVars, producerVars
<1>10. CASE PopPublish
  BY <1>10, NextType DEF PopPublish, producerVars, ConsumerAnswers
<1>11. ASSUME NEW c \in Cursor, queue_is_empty(c)
      PROVE  TypeOK'
  BY <1>11 DEF queue_is_empty, consumer_relaxed_load, producerVars, ConsumerAnswers, is_empty
<1>12. ASSUME NEW c \in Cursor, consumer_queue_length(c)
      PROVE  TypeOK'
  BY <1>12, DistanceType DEF consumer_queue_length, consumer_relaxed_load, producerVars, ConsumerAnswers
<1>13. CASE Rejoin
  BY <1>13 DEF Rejoin, AllVisible, ProducerAnswers, ConsumerAnswers, Quiescent
<1>14. CASE queue_get
  BY <1>14 DEF queue_get, AllVisible, ProducerAnswers, ConsumerAnswers, Quiescent
<1>15. CASE queue_purge
  BY <1>15 DEF queue_purge, AllVisible, ProducerAnswers, ConsumerAnswers, Quiescent
<1>16. CASE UNCHANGED vars
  BY <1>16 DEF vars, cursorVars, producerVars, consumerVars
<1> QED BY <1>1, <1>2, <1>3, <1>4, <1>5, <1>6, <1>7, <1>8, <1>9, <1>10, <1>11,
           <1>12, <1>13, <1>14, <1>15, <1>16
        DEF Next, ProducerStep, ConsumerStep

-----------------------------------------------------------------------------
(* The inductive invariant *)

\* Every step keeps the cursors in order: loads by FrontLoad and BackLoad,
\* stores because each thread has found room or a value first.
LEMMA OrderStep == IInv /\ [Next]_vars => CursorOrder'
<1> SUFFICES ASSUME IInv, [Next]_vars
             PROVE  CursorOrder'
  OBVIOUS
<1>a. /\ front_cursor \in Cursor /\ back_cursor \in Cursor
      /\ cached_front_cursor \in Cursor /\ cached_back_cursor \in Cursor
      /\ seen_front \in Cursor /\ hb_front \in Cursor
      /\ seen_back \in Cursor /\ hb_back \in Cursor
  BY DEF IInv, TypeOK
<1>b. \A a, b \in Cursor : distance(a, b) \in Int /\ distance(a, b) >= 0
  BY DistanceType DEF Cursor
<1>c. CursorOrder
  BY DEF IInv
<1> USE DEF CursorOrder
<1>1. ASSUME NEW c \in Cursor, PushReload(c)
      PROVE  CursorOrder'
  <2>1. /\ distance(front_cursor, back_cursor) <= distance(c, back_cursor)
        /\ distance(c, back_cursor) <= distance(seen_front, back_cursor)
    BY <1>1, <1>a, <1>c, FrontLoad DEF PushReload
  <2>2. distance(c, back_cursor) <= Size
    BY <2>1, <1>a, <1>b, <1>c, Sizes
  <2> QED BY <1>1, <1>a, <1>b, <1>c, <2>1, <2>2 DEF PushReload
<1>2. CASE PushPublish
  <2>1. distance(cached_front_cursor, back_cursor) <= Size - 1
    BY <1>2, <1>a, <1>b, Sizes DEF PushPublish, IInv, RoomToPush
  <2>2. \A x \in {front_cursor, seen_front, hb_front, cached_front_cursor} :
           distance(x, back_cursor) <= Size - 1
    BY <1>a, <1>b, <1>c, <2>1, Sizes
  <2>3. \A x \in {front_cursor, seen_front, hb_front, cached_front_cursor} :
           distance(x, next(back_cursor)) = distance(x, back_cursor) + 1
    BY <1>a, <2>2, DistanceGrows
  <2> QED BY <1>2, <1>a, <1>b, <1>c, <2>1, <2>2, <2>3, Sizes DEF PushPublish
<1>3. ASSUME NEW c \in Cursor, producer_relaxed_load(c)
      PROVE  CursorOrder'
  <2>1. /\ distance(front_cursor, back_cursor) <= distance(c, back_cursor)
        /\ distance(c, back_cursor) <= distance(seen_front, back_cursor)
    BY <1>3, <1>a, <1>c, FrontLoad DEF producer_relaxed_load
  <2> QED BY <1>3, <1>a, <1>b, <1>c, <2>1 DEF producer_relaxed_load
<1>4. ASSUME NEW c \in Cursor, PopReload(c)
      PROVE  CursorOrder'
  <2>1. /\ distance(front_cursor, seen_back) <= distance(front_cursor, c)
        /\ distance(front_cursor, c) <= distance(front_cursor, back_cursor)
    BY <1>4, <1>a, <1>c, BackLoad DEF PopReload
  <2> QED BY <1>4, <1>a, <1>b, <1>c, <2>1 DEF PopReload
<1>5. CASE PopPublish
  <2>1. distance(front_cursor, cached_back_cursor) > 0
    BY <1>5, <1>a, <1>b DEF PopPublish, IInv, ValueToPop
  <2>2. \A x \in {cached_back_cursor, hb_back, seen_back, back_cursor} :
           distance(front_cursor, x) > 0
    BY <1>a, <1>b, <1>c, <2>1
  <2>3. \A x \in {cached_back_cursor, hb_back, seen_back, back_cursor} :
           distance(next(front_cursor), x) = distance(front_cursor, x) - 1
    BY <1>a, <2>2, DistanceShrinks
  <2> QED BY <1>5, <1>a, <1>b, <1>c, <2>1, <2>2, <2>3 DEF PopPublish
<1>6. ASSUME NEW c \in Cursor, consumer_relaxed_load(c)
      PROVE  CursorOrder'
  <2>1. /\ distance(front_cursor, seen_back) <= distance(front_cursor, c)
        /\ distance(front_cursor, c) <= distance(front_cursor, back_cursor)
    BY <1>6, <1>a, <1>c, BackLoad DEF consumer_relaxed_load
  <2> QED BY <1>6, <1>a, <1>b, <1>c, <2>1 DEF consumer_relaxed_load
<1>7. CASE Rejoin
  BY <1>7, <1>a, <1>b, <1>c DEF Rejoin, AllVisible
<1>8. CASE queue_get
  BY <1>8, <1>a, <1>b, <1>c DEF queue_get, AllVisible
<1>9. CASE queue_purge
  <2>1. distance(back_cursor, back_cursor) = 0
    BY <1>a, DistanceZero
  <2>2. distance(cached_front_cursor, back_cursor) <= Size
    BY <1>c
  <2> QED BY <1>9, <1>a, <1>b, <2>1, <2>2 DEF queue_purge, AllVisible
<1>10. ASSUME UNCHANGED <<front_cursor, back_cursor, cached_front_cursor,
                          cached_back_cursor, seen_front, hb_front,
                          seen_back, hb_back>>
       PROVE  CursorOrder'
  BY <1>10, <1>c
<1> QED
  BY <1>1, <1>2, <1>3, <1>4, <1>5, <1>6, <1>7, <1>8, <1>9, <1>10
  DEF Next, ProducerStep, ConsumerStep, PushBegin, PushWrite, PopBegin,
      PopRead, queue_is_full, producer_queue_length, queue_is_empty,
      consumer_queue_length, vars, cursorVars

\* Every step keeps the room that the producer has found.
LEMMA RoomStep == IInv /\ [Next]_vars => RoomToPush'
<1> SUFFICES ASSUME IInv, [Next]_vars
             PROVE  RoomToPush'
  OBVIOUS
<1>a. /\ front_cursor \in Cursor /\ back_cursor \in Cursor
      /\ cached_front_cursor \in Cursor /\ seen_front \in Cursor
      /\ hb_front \in Cursor
  BY DEF IInv, TypeOK
<1>b. \A a, b \in Cursor : distance(a, b) \in Int /\ distance(a, b) >= 0
  BY DistanceType DEF Cursor
<1>c. CursorOrder /\ RoomToPush
  BY DEF IInv
<1>d. distance(cached_front_cursor, back_cursor) <= Size
  BY <1>c DEF CursorOrder
<1>e. distance(seen_front, back_cursor) <= Size
  BY <1>a, <1>b, <1>c, Sizes DEF CursorOrder
<1> USE DEF RoomToPush
<1>1. ASSUME NEW v \in Values, PushBegin(v)
      PROVE  RoomToPush'
  <2>1. ppc' = "write" => distance(cached_front_cursor, back_cursor) # Size
    BY <1>1 DEF PushBegin, is_full
  <2>2. ppc' = "write" => distance(cached_front_cursor, back_cursor) < Size
    BY <2>1, <1>a, <1>b, <1>d, Sizes
  <2>3. ppc' \in {"write", "reload"}
    BY <1>1 DEF PushBegin
  <2> QED BY <1>1, <1>c, <2>2, <2>3 DEF PushBegin, cursorVars
<1>2. ASSUME NEW c \in Cursor, PushReload(c)
      PROVE  RoomToPush'
  <2>1. distance(c, back_cursor) <= distance(seen_front, back_cursor)
    BY <1>2, <1>a, <1>c, FrontLoad DEF PushReload, CursorOrder
  <2>2. distance(c, back_cursor) <= Size
    BY <2>1, <1>a, <1>b, <1>e, Sizes
  <2>0. ppc' \in {"write", "publish"} => distance(c, back_cursor) # Size
    BY <1>2 DEF PushReload, is_full
  <2>3. ppc' \in {"write", "publish"} => distance(c, back_cursor) < Size
    BY <2>0, <2>2, <1>a, <1>b, Sizes
  <2>4. presult' = <<"full", FALSE>> => presult = <<"full", FALSE>>
    <3>1. <<"push", FALSE>> # <<"full", FALSE>>
      OBVIOUS
    <3>2. presult' = <<"push", FALSE>> \/ presult' = presult
      BY <1>2 DEF PushReload
    <3> QED BY <3>1, <3>2
  <2>5. presult' = <<"full", FALSE>> => distance(c, back_cursor) < Size
    BY <2>1, <2>4, <1>a, <1>b, <1>c, Sizes
  <2>6. ppc' # "publish"
    BY <1>2 DEF PushReload
  <2> QED BY <1>2, <2>3, <2>5, <2>6 DEF PushReload
<1>3. CASE PushWrite
  <2>1. slot(back_cursor) \in 0 .. Size - 1
    BY <1>a, SlotPeriodic DEF Cursor
  <2>2. values \in [0 .. Size - 1 -> Values \cup {NULL}]
    BY DEF IInv, TypeOK
  <2>3. get_value(back_cursor)' = parg'
    BY <1>3, <2>1, <2>2 DEF PushWrite, set_value, get_value, slot, cursorVars
  <2> QED BY <1>3, <1>c, <2>3 DEF PushWrite, cursorVars
<1>4. CASE PushPublish
  BY <1>4 DEF PushPublish
<1>5. ASSUME NEW c \in Cursor, queue_is_full(c)
      PROVE  RoomToPush'
  <2>1. distance(c, back_cursor) <= distance(seen_front, back_cursor)
    BY <1>5, <1>a, <1>c, FrontLoad
    DEF queue_is_full, producer_relaxed_load, CursorOrder
  <2>2. distance(c, back_cursor) <= Size
    BY <2>1, <1>a, <1>b, <1>e, Sizes
  <2>3. presult' = <<"full", FALSE>> => distance(c, back_cursor) # Size
    BY <1>5 DEF queue_is_full, is_full
  <2>4. presult' = <<"full", FALSE>> => distance(c, back_cursor) < Size
    BY <2>2, <2>3, <1>a, <1>b, Sizes
  <2> QED BY <1>5, <1>c, <2>4 DEF queue_is_full, producer_relaxed_load
<1>6. ASSUME NEW c \in Cursor, producer_queue_length(c)
      PROVE  RoomToPush'
  <2>1. presult' # <<"full", FALSE>>
    BY <1>6 DEF producer_queue_length
  <2> QED BY <1>6, <2>1 DEF producer_queue_length, producer_relaxed_load
<1>7. CASE Rejoin \/ queue_get \/ queue_purge
  <2>1. <<"full", TRUE>> # <<"full", FALSE>>
    OBVIOUS
  <2> QED
    BY <1>7, <2>1 DEF Rejoin, queue_get, queue_purge, Quiescent, AllVisible
<1>8. ASSUME UNCHANGED <<values, back_cursor, cached_front_cursor, seen_front,
                         ppc, parg, presult>>
      PROVE  RoomToPush'
  BY <1>8, <1>c DEF get_value
<1> QED
  BY <1>1, <1>2, <1>3, <1>4, <1>5, <1>6, <1>7, <1>8
  DEF Next, ProducerStep, ConsumerStep, PopBegin, PopReload, PopRead,
      PopPublish, queue_is_empty, consumer_queue_length,
      consumer_relaxed_load, vars, cursorVars, producerVars

\* While the consumer holds a slot, the producer writes another one.
LEMMA OtherSlot ==
    ASSUME IInv, ppc = "write", cpc \in {"read", "publish"}
    PROVE  slot(back_cursor) # slot(front_cursor)
<1>a. /\ front_cursor \in Cursor /\ back_cursor \in Cursor
      /\ cached_front_cursor \in Cursor /\ cached_back_cursor \in Cursor
      /\ seen_front \in Cursor /\ hb_front \in Cursor
      /\ seen_back \in Cursor /\ hb_back \in Cursor
  BY DEF IInv, TypeOK
<1>b. \A a, b \in Cursor : distance(a, b) \in Int /\ distance(a, b) >= 0
  BY DistanceType DEF Cursor
<1>1. distance(front_cursor, back_cursor) < Size
  BY <1>a, <1>b, Sizes DEF IInv, CursorOrder, RoomToPush
<1>2. 0 < distance(front_cursor, back_cursor)
  BY <1>a, <1>b DEF IInv, CursorOrder, ValueToPop
<1>3. distance(front_cursor, back_cursor) \in 1 .. Size - 1
  BY <1>1, <1>2, <1>a, <1>b, Sizes
<1>4. front_cursor \in Int
  BY <1>a DEF Cursor
<1> QED BY <1>a, <1>3, <1>4, SlotOfDistance, SlotDistinct

\* Every step keeps the value that the consumer has found.
LEMMA ValueStep == IInv /\ [Next]_vars => ValueToPop'
<1> SUFFICES ASSUME IInv, [Next]_vars
             PROVE  ValueToPop'
  OBVIOUS
<1>a. /\ front_cursor \in Cursor /\ back_cursor \in Cursor
      /\ cached_back_cursor \in Cursor
      /\ seen_back \in Cursor /\ hb_back \in Cursor
  BY DEF IInv, TypeOK
<1>b. \A a, b \in Cursor : distance(a, b) \in Int /\ distance(a, b) >= 0
  BY DistanceType DEF Cursor
<1>c. CursorOrder /\ ValueToPop
  BY DEF IInv
<1> USE DEF ValueToPop
<1>1. CASE PushWrite
  <2>1. slot(back_cursor) \in 0 .. Size - 1 /\ slot(front_cursor) \in 0 .. Size - 1
    BY <1>a, SlotPeriodic DEF Cursor
  <2>2. values \in [0 .. Size - 1 -> Values \cup {NULL}]
    BY DEF IInv, TypeOK
  <2>3. cpc = "publish" => slot(back_cursor) # slot(front_cursor)
    BY <1>1, OtherSlot DEF PushWrite
  <2>4. cpc = "publish" => get_value(front_cursor)' = get_value(front_cursor)
    BY <1>1, <2>1, <2>2, <2>3
    DEF PushWrite, set_value, get_value, slot, cursorVars
  <2> QED BY <1>1, <1>c, <2>4 DEF PushWrite, cursorVars, consumerVars
<1>2. CASE PopBegin
  <2>1. cached_back_cursor # front_cursor
           => 0 < distance(front_cursor, cached_back_cursor)
    BY <1>a, <1>b, DistanceZero
  <2> QED BY <1>2, <1>c, <2>1 DEF PopBegin, is_empty, cursorVars
<1>3. ASSUME NEW c \in Cursor, PopReload(c)
      PROVE  ValueToPop'
  <2>1. distance(front_cursor, seen_back) <= distance(front_cursor, c)
    BY <1>3, <1>a, <1>c, BackLoad DEF PopReload, CursorOrder
  <2>2. c # front_cursor => 0 < distance(front_cursor, c)
    BY <1>a, <1>b, DistanceZero
  <2>3. cpc' \in {"read", "publish"} => 0 < distance(front_cursor, c)
    BY <1>3, <2>2 DEF PopReload, is_empty
  <2>4. cresult' = <<"empty", FALSE>> => cresult = <<"empty", FALSE>>
    <3>1. <<"pop", NULL>> # <<"empty", FALSE>>
      OBVIOUS
    <3>2. cresult' = <<"pop", NULL>> \/ cresult' = cresult
      BY <1>3 DEF PopReload
    <3> QED BY <3>1, <3>2
  <2>5. cresult' = <<"empty", FALSE>> => 0 < distance(front_cursor, c)
    BY <2>1, <2>4, <1>a, <1>b, <1>c
  <2>6. cpc' # "publish"
    BY <1>3 DEF PopReload
  <2> QED BY <1>3, <2>3, <2>5, <2>6 DEF PopReload
<1>4. CASE PopRead
  BY <1>4, <1>c DEF PopRead, get_value, cursorVars
<1>5. CASE PopPublish
  BY <1>5 DEF PopPublish
<1>6. ASSUME NEW c \in Cursor, queue_is_empty(c)
      PROVE  ValueToPop'
  <2>1. c # front_cursor => 0 < distance(front_cursor, c)
    BY <1>a, <1>b, DistanceZero
  <2>2. cresult' = <<"empty", FALSE>> => 0 < distance(front_cursor, c)
    BY <1>6, <2>1 DEF queue_is_empty, is_empty
  <2> QED BY <1>6, <2>2 DEF queue_is_empty, consumer_relaxed_load
<1>7. ASSUME NEW c \in Cursor, consumer_queue_length(c)
      PROVE  ValueToPop'
  <2>1. cresult' # <<"empty", FALSE>>
    BY <1>7 DEF consumer_queue_length
  <2> QED BY <1>7, <2>1 DEF consumer_queue_length, consumer_relaxed_load
<1>8. CASE Rejoin \/ queue_get \/ queue_purge
  <2>1. <<"empty", TRUE>> # <<"empty", FALSE>>
    OBVIOUS
  <2> QED
    BY <1>8, <2>1 DEF Rejoin, queue_get, queue_purge, Quiescent, AllVisible
<1>9. ASSUME UNCHANGED <<values, front_cursor, cached_back_cursor, seen_back,
                         cpc, cvalue, cresult>>
      PROVE  ValueToPop'
  BY <1>9, <1>c DEF get_value
<1> QED
  BY <1>1, <1>2, <1>3, <1>4, <1>5, <1>6, <1>7, <1>8, <1>9
  DEF Next, ProducerStep, ConsumerStep, PushBegin, PushReload, PushPublish,
      queue_is_full, producer_queue_length,
      producer_relaxed_load, vars, cursorVars, consumerVars

\* The invariant holds of the empty queue of make_queue.
LEMMA InitIInv == Init => IInv
<1> SUFFICES ASSUME Init
             PROVE  IInv
  OBVIOUS
<1>1. 0 \in Cursor
  BY Sizes DEF Cursor
<1>2. distance(0, 0) = 0
  BY <1>1, DistanceZero
<1>3. TypeOK
  BY <1>1 DEF Init, TypeOK, ProducerAnswers, ConsumerAnswers
<1>4. CursorOrder
  BY <1>2, Sizes DEF Init, CursorOrder
<1>5. RoomToPush /\ ValueToPop
  BY DEF Init, RoomToPush, ValueToPop
<1> QED BY <1>3, <1>4, <1>5 DEF IInv

\* The strengthened invariant of queue_t holds in every reachable state.
THEOREM InductiveInvariant == Spec => []IInv
<1>1. Init => IInv
  BY InitIInv
<1>2. IInv /\ [Next]_vars => IInv'
  BY TypeStep, OrderStep, RoomStep, ValueStep DEF IInv
<1> QED BY <1>1, <1>2, PTL DEF Spec

-----------------------------------------------------------------------------
(* What the invariant gives *)

\* The variables keep their types.
THEOREM TypeCorrect == Spec => []TypeOK
<1>1. IInv => TypeOK
  BY DEF IInv
<1> QED BY <1>1, InductiveInvariant, PTL

\* The caches and the stale loads never put the cursors out of order.
THEOREM CursorsOrdered == Spec => []CursorOrder
<1>1. IInv => CursorOrder
  BY DEF IInv
<1> QED BY <1>1, InductiveInvariant, PTL

\* The producer only ever writes and publishes where there is room, and can
\* rely on an answer of queue_is_full until its next push.
THEOREM RoomFound == Spec => []RoomToPush
<1>1. IInv => RoomToPush
  BY DEF IInv
<1> QED BY <1>1, InductiveInvariant, PTL

\* The consumer only ever takes what is there, and can rely on an answer of
\* queue_is_empty until its next pop.
THEOREM ValueFound == Spec => []ValueToPop
<1>1. IInv => ValueToPop
  BY DEF IInv
<1> QED BY <1>1, InductiveInvariant, PTL

\* Every write of a slot happens after the read of the value it overwrites,
\* and every read of a slot after the write of the value it reads.
THEOREM RaceFree == Spec => []NoDataRace
<1>1. IInv => NoDataRace
  <2> SUFFICES ASSUME IInv
               PROVE  NoDataRace
    OBVIOUS
  <2>1. /\ front_cursor \in Cursor /\ back_cursor \in Cursor
        /\ cached_front_cursor \in Cursor /\ cached_back_cursor \in Cursor
        /\ hb_front \in Cursor /\ hb_back \in Cursor
    BY DEF IInv, TypeOK
  <2>2. \A a, b \in Cursor : distance(a, b) \in Int /\ distance(a, b) >= 0
    BY DistanceType DEF Cursor
  <2>3. ppc = "write" => distance(hb_front, back_cursor) < Size
    BY <2>1, <2>2, Sizes DEF IInv, CursorOrder, RoomToPush
  <2>4. cpc = "read" => distance(front_cursor, hb_back) > 0
    BY <2>1, <2>2 DEF IInv, CursorOrder, ValueToPop
  <2> QED BY <2>3, <2>4 DEF NoDataRace
<1> QED BY <1>1, InductiveInvariant, PTL

-----------------------------------------------------------------------------
(* The refinement *)

\* What a slot may hold.
Slots == Values \cup {NULL}

\* What is needed of contents, without the function constructor.
ContentsOK ==
    /\ contents \in Seq(Slots)
    /\ Len(contents) = distance(front_cursor, back_cursor)
    /\ \A i \in 1 .. distance(front_cursor, back_cursor) :
          contents[i] = get_value(front_cursor + i - 1)

\* The values between the cursors form a sequence of their distance.
LEMMA ContentsType == TypeOK => ContentsOK
<1> SUFFICES ASSUME TypeOK
             PROVE  ContentsOK
  OBVIOUS
<1>1. distance(front_cursor, back_cursor) \in Nat
  BY DistanceType, Sizes DEF TypeOK, Cursor
<1>2. \A i \in 1 .. distance(front_cursor, back_cursor) :
         get_value(front_cursor + i - 1) \in Slots
  <2> SUFFICES ASSUME NEW i \in 1 .. distance(front_cursor, back_cursor)
               PROVE  get_value(front_cursor + i - 1) \in Slots
    OBVIOUS
  <2>1. front_cursor + i - 1 \in Int
    BY <1>1 DEF TypeOK, Cursor
  <2>2. slot(front_cursor + i - 1) \in 0 .. Size - 1
    BY <2>1, SlotPeriodic
  <2> QED BY <2>2 DEF TypeOK, Slots, get_value
<1> QED BY <1>1, <1>2 DEF contents, ContentsOK

\* And so they do after a step.
LEMMA ContentsNext == TypeOK' => ContentsOK'
  BY ContentsType, PTL

\* Publishing a written slot appends its value.
LEMMA ContentsPush ==
    ASSUME IInv, TypeOK', PushPublish
    PROVE  /\ Len(contents) < Size
           /\ contents' = Append(contents, parg)
<1> DEFINE d == distance(front_cursor, back_cursor)
<1>a. /\ front_cursor \in Cursor /\ back_cursor \in Cursor
      /\ cached_front_cursor \in Cursor /\ seen_front \in Cursor
      /\ hb_front \in Cursor
  BY DEF IInv, TypeOK
<1>b. \A a, b \in Cursor : distance(a, b) \in Nat
  BY DistanceType, Sizes DEF Cursor
<1>1. d \in Nat /\ d < Size
  <2>1. distance(cached_front_cursor, back_cursor) < Size
    BY DEF PushPublish, IInv, RoomToPush
  <2> QED BY <2>1, <1>a, <1>b, Sizes DEF IInv, CursorOrder
<1>2. /\ contents \in Seq(Slots) /\ Len(contents) = d
      /\ \A i \in 1 .. d : contents[i] = get_value(front_cursor + i - 1)
  BY ContentsType DEF IInv, ContentsOK
<1>3. distance(front_cursor, back_cursor)' = d + 1
  <2>1. d <= Size - 1
    BY <1>1, Sizes
  <2> QED BY <2>1, <1>a, DistanceGrows DEF PushPublish
<1>4. /\ contents' \in Seq(Slots) /\ Len(contents') = d + 1
      /\ \A i \in 1 .. d + 1 :
            contents'[i] = get_value(front_cursor + i - 1)
  <2>1. /\ contents' \in Seq(Slots)
        /\ Len(contents') = distance(front_cursor, back_cursor)'
        /\ \A i \in 1 .. distance(front_cursor, back_cursor)' :
              contents'[i] = get_value(front_cursor + i - 1)'
    BY ContentsNext DEF ContentsOK
  <2> QED BY <2>1, <1>3 DEF PushPublish, get_value
<1>5. get_value(front_cursor + (d + 1) - 1) = parg
  <2>1. front_cursor + (d + 1) - 1 = front_cursor + d
    BY <1>1, <1>a DEF Cursor
  <2>2. get_value(back_cursor) = parg
    BY DEF PushPublish, IInv, RoomToPush
  <2> QED BY <2>1, <2>2, <1>a, SlotOfDistance DEF get_value
<1>6. parg \in Slots
  BY DEF IInv, TypeOK, Slots
<1>7. /\ Append(contents, parg) \in Seq(Slots)
      /\ Len(Append(contents, parg)) = d + 1
      /\ \A i \in 1 .. d : Append(contents, parg)[i] = contents[i]
      /\ Append(contents, parg)[d + 1] = parg
  BY <1>2, <1>6, AppendProperties
<1>8. \A i \in 1 .. d + 1 : contents'[i] = Append(contents, parg)[i]
  <2> SUFFICES ASSUME NEW i \in 1 .. d + 1
               PROVE  contents'[i] = Append(contents, parg)[i]
    OBVIOUS
  <2>1. CASE i = d + 1
    <3>1. contents'[d + 1] = get_value(front_cursor + (d + 1) - 1)
      BY <1>1, <1>4
    <3>2. contents'[d + 1] = Append(contents, parg)[d + 1]
      BY <3>1, <1>5, <1>7
    <3> QED BY <2>1, <3>2
  <2>2. CASE i \in 1 .. d
    <3>1. contents[i] = get_value(front_cursor + i - 1)
      BY <2>2, <1>2
    <3>2. contents'[i] = get_value(front_cursor + i - 1)
      BY <1>4
    <3>3. Append(contents, parg)[i] = contents[i]
      BY <2>2, <1>7
    <3> QED BY <3>1, <3>2, <3>3
  <2>3. i = d + 1 \/ i \in 1 .. d
    BY <1>1
  <2> QED BY <2>1, <2>2, <2>3
<1>9. contents' = Append(contents, parg)
  BY <1>4, <1>7, <1>8, SeqEqual
<1> QED BY <1>1, <1>2, <1>9

\* Publishing a read slot takes its value off the front.
LEMMA ContentsPop ==
    ASSUME IInv, TypeOK', PopPublish
    PROVE  /\ contents # <<>>
           /\ cvalue = Head(contents)
           /\ contents' = Tail(contents)
<1> DEFINE d == distance(front_cursor, back_cursor)
<1>a. /\ front_cursor \in Cursor /\ back_cursor \in Cursor
      /\ cached_back_cursor \in Cursor /\ seen_back \in Cursor
      /\ hb_back \in Cursor
  BY DEF IInv, TypeOK
<1>b. \A a, b \in Cursor : distance(a, b) \in Nat
  BY DistanceType, Sizes DEF Cursor
<1>1. d \in Nat \ {0}
  <2>1. 0 < distance(front_cursor, cached_back_cursor)
    BY DEF PopPublish, IInv, ValueToPop
  <2> QED BY <2>1, <1>a, <1>b DEF IInv, CursorOrder
<1>2. /\ contents \in Seq(Slots) /\ Len(contents) = d
      /\ \A i \in 1 .. d : contents[i] = get_value(front_cursor + i - 1)
  BY ContentsType DEF IInv, ContentsOK
<1>3. contents # <<>>
  BY <1>1, <1>2
<1>4. cvalue = Head(contents)
  <2>1. Head(contents) = get_value(front_cursor + 1 - 1)
    BY <1>1, <1>2, <1>3
  <2>2. front_cursor + 1 - 1 = front_cursor
    BY <1>a DEF Cursor
  <2> QED BY <2>1, <2>2 DEF PopPublish, IInv, ValueToPop
<1>5. distance(front_cursor, back_cursor)' = d - 1
  BY <1>1, <1>a, DistanceShrinks DEF PopPublish
<1>6. /\ contents' \in Seq(Slots) /\ Len(contents') = d - 1
      /\ \A i \in 1 .. d - 1 :
            contents'[i] = get_value(next(front_cursor) + i - 1)
  <2>1. /\ contents' \in Seq(Slots)
        /\ Len(contents') = distance(front_cursor, back_cursor)'
        /\ \A i \in 1 .. distance(front_cursor, back_cursor)' :
              contents'[i] = get_value(front_cursor + i - 1)'
    BY ContentsNext DEF ContentsOK
  <2> QED BY <2>1, <1>5 DEF PopPublish, get_value
<1>7. /\ Tail(contents) \in Seq(Slots) /\ Len(Tail(contents)) = d - 1
      /\ \A i \in 1 .. d - 1 : Tail(contents)[i] = contents[i + 1]
  BY <1>2, <1>3, HeadTailProperties
<1>8. \A i \in 1 .. d - 1 : contents'[i] = Tail(contents)[i]
  <2> SUFFICES ASSUME NEW i \in 1 .. d - 1
               PROVE  contents'[i] = Tail(contents)[i]
    OBVIOUS
  <2>1. i + 1 \in 1 .. d
    BY <1>1
  <2>2. contents[i + 1] = get_value(front_cursor + (i + 1) - 1)
    BY <2>1, <1>2
  <2>3. slot(next(front_cursor) + i - 1) = slot(front_cursor + (i + 1) - 1)
    <3>1. CASE front_cursor = CursorMod - 1
      <4>1. next(front_cursor) + i - 1 = i - 1
        BY <3>1, <1>a, NextCases
      <4>2. front_cursor + (i + 1) - 1 = (i - 1) + CursorMod
        BY <3>1, Sizes
      <4>3. i - 1 \in Int
        OBVIOUS
      <4> QED BY <4>1, <4>2, <4>3, SlotPeriodic
    <3>2. CASE front_cursor # CursorMod - 1
      <4>1. next(front_cursor) + i - 1 = front_cursor + (i + 1) - 1
        BY <3>2, <1>a, NextCases DEF Cursor
      <4> QED BY <4>1
    <3> QED BY <3>1, <3>2
  <2> QED BY <1>6, <1>7, <2>2, <2>3 DEF get_value
<1>9. contents' = Tail(contents)
  BY <1>6, <1>7, <1>8, SeqEqual
<1> QED BY <1>3, <1>4, <1>9

\* Writing a slot that is not yet published changes nothing in the queue.
LEMMA ContentsWrite ==
    ASSUME IInv, TypeOK', PushWrite
    PROVE  contents' = contents
<1> DEFINE d == distance(front_cursor, back_cursor)
<1>a. /\ front_cursor \in Cursor /\ back_cursor \in Cursor
      /\ cached_front_cursor \in Cursor /\ seen_front \in Cursor
      /\ hb_front \in Cursor
  BY DEF IInv, TypeOK
<1>b. \A a, b \in Cursor : distance(a, b) \in Nat
  BY DistanceType, Sizes DEF Cursor
<1>1. d \in Nat /\ d < Size
  <2>1. distance(cached_front_cursor, back_cursor) < Size
    BY DEF PushWrite, IInv, RoomToPush
  <2> QED BY <2>1, <1>a, <1>b, Sizes DEF IInv, CursorOrder
<1>2. /\ contents \in Seq(Slots) /\ Len(contents) = d
      /\ \A i \in 1 .. d : contents[i] = get_value(front_cursor + i - 1)
  BY ContentsType DEF IInv, ContentsOK
<1>3. /\ front_cursor' = front_cursor /\ back_cursor' = back_cursor
      /\ values' = [values EXCEPT ![slot(back_cursor)] = parg]
  BY DEF PushWrite, cursorVars, set_value
<1>4. /\ contents' \in Seq(Slots) /\ Len(contents') = d
      /\ \A i \in 1 .. d : contents'[i] = values'[slot(front_cursor + i - 1)]
  BY <1>3, ContentsNext DEF ContentsOK, get_value
<1>5. \A i \in 1 .. d : contents'[i] = contents[i]
  <2> SUFFICES ASSUME NEW i \in 1 .. d
               PROVE  contents'[i] = contents[i]
    OBVIOUS
  <2>1. front_cursor + i - 1 \in Int
    BY <1>1, <1>a DEF Cursor
  <2>2. slot(front_cursor + i - 1) # slot(back_cursor)
    <3>1. d - i + 1 \in 1 .. Size - 1
      BY <1>1, Sizes
    <3>2. (front_cursor + i - 1) + (d - i + 1) = front_cursor + d
      BY <1>1, <1>a DEF Cursor
    <3>3. slot((front_cursor + i - 1) + (d - i + 1)) # slot(front_cursor + i - 1)
      BY <2>1, <3>1, SlotDistinct
    <3> QED BY <3>2, <3>3, <1>a, SlotOfDistance
  <2>3. slot(front_cursor + i - 1) \in 0 .. Size - 1
    BY <2>1, SlotPeriodic
  <2>4. values'[slot(front_cursor + i - 1)] = values[slot(front_cursor + i - 1)]
    BY <1>3, <2>2, <2>3 DEF IInv, TypeOK
  <2> QED BY <1>2, <1>4, <2>4 DEF get_value
<1> QED BY <1>2, <1>4, <1>5, SeqEqual

\* A step that leaves the buffer and both cursors alone leaves the queue alone.
LEMMA ContentsSame ==
    ASSUME UNCHANGED <<values, front_cursor, back_cursor>>
    PROVE  contents' = contents
  BY DEF contents, get_value

\* The empty queue of make_queue is the empty abstract queue.
LEMMA RefineInit == Init => Fifo!Init
<1> SUFFICES ASSUME Init
             PROVE  Fifo!Init
  OBVIOUS
<1>1. distance(front_cursor, back_cursor) = 0
  BY Sizes, DistanceZero DEF Init, Cursor
<1>2. contents = <<>>
  BY <1>1 DEF contents
<1> QED BY <1>2 DEF Init, Fifo!Init

\* Every step is an operation of the abstract queue, or leaves it alone.
LEMMA RefineStep == IInv /\ IInv' /\ [Next]_vars => [Fifo!Next]_Fifo!vars
<1> SUFFICES ASSUME IInv, IInv', [Next]_vars
             PROVE  [Fifo!Next]_Fifo!vars
  OBVIOUS
<1> DEFINE d == distance(front_cursor, back_cursor)
<1>a. /\ front_cursor \in Cursor /\ back_cursor \in Cursor
      /\ cached_front_cursor \in Cursor /\ cached_back_cursor \in Cursor
      /\ seen_front \in Cursor /\ hb_front \in Cursor
      /\ seen_back \in Cursor /\ hb_back \in Cursor
  BY DEF IInv, TypeOK
<1>b. \A a, b \in Cursor : distance(a, b) \in Nat
  BY DistanceType, Sizes DEF Cursor
<1>c. TypeOK /\ TypeOK' /\ CursorOrder /\ RoomToPush /\ ValueToPop
  BY DEF IInv
<1>d. /\ Len(contents) = d /\ contents \in Seq(Slots)
      /\ contents = <<>> => d = 0
      /\ d \in Nat
  <2>1. /\ Len(contents) = d /\ contents \in Seq(Slots)
    BY <1>c, ContentsType DEF ContentsOK
  <2> QED BY <2>1, <1>a, <1>b
<1>1. ASSUME NEW c \in Cursor, PushReload(c)
      PROVE  [Fifo!Next]_Fifo!vars
  <2>1. contents' = contents /\ cresult' = cresult
    BY <1>1, ContentsSame DEF PushReload, consumerVars
  <2>2. CASE is_full(c, back_cursor)
    <3>1. distance(c, back_cursor) <= distance(seen_front, back_cursor)
      BY <1>1, <1>a, <1>c, FrontLoad DEF PushReload, CursorOrder
    <3>2. distance(seen_front, back_cursor) \in Nat /\ distance(c, back_cursor) = Size
      BY <2>2, <1>a, <1>b DEF is_full
    <3>4. ~ distance(seen_front, back_cursor) < Size
      BY <3>1, <3>2, Sizes
    <3>5. presult # <<"full", FALSE>>
      BY <3>4, <1>c DEF RoomToPush
    <3>3. presult' = <<"push", FALSE>>
      BY <1>1, <2>2 DEF PushReload
    <3> QED BY <2>1, <3>3, <3>5 DEF Fifo!Next, Fifo!Refuse
  <2>3. CASE ~ is_full(c, back_cursor)
    BY <1>1, <2>1, <2>3 DEF PushReload, Fifo!vars
  <2> QED BY <2>2, <2>3
<1>2. CASE PushWrite
  <2>1. contents' = contents
    BY <1>2, <1>c, ContentsWrite
  <2> QED BY <1>2, <2>1 DEF PushWrite, consumerVars, Fifo!vars
<1>3. CASE PushPublish
  <2>1. Len(contents) < Size /\ contents' = Append(contents, parg)
    BY <1>3, <1>c, ContentsPush
  <2>2. parg \in Values
    BY <1>3, <1>c DEF PushPublish, TypeOK
  <2>3. presult' = <<"push", TRUE>> /\ cresult' = cresult
    BY <1>3 DEF PushPublish, consumerVars
  <2> QED BY <2>1, <2>2, <2>3 DEF Fifo!Next, Fifo!Push
<1>4. ASSUME NEW c \in Cursor, producer_relaxed_load(c)
      PROVE  /\ contents' = contents /\ cresult' = cresult
             /\ d <= distance(c, back_cursor)
             /\ distance(c, back_cursor) <= Size
  <2>1. contents' = contents /\ cresult' = cresult
    BY <1>4, ContentsSame DEF producer_relaxed_load, consumerVars
  <2>2. /\ d <= distance(c, back_cursor)
        /\ distance(c, back_cursor) <= distance(seen_front, back_cursor)
    BY <1>4, <1>a, <1>c, FrontLoad DEF producer_relaxed_load, CursorOrder
  <2>3. distance(c, back_cursor) <= Size
    BY <2>2, <1>a, <1>b, <1>c, Sizes DEF CursorOrder
  <2> QED BY <2>1, <2>2, <2>3
<1>5. ASSUME NEW c \in Cursor, queue_is_full(c)
      PROVE  [Fifo!Next]_Fifo!vars
  <2> DEFINE answer == is_full(c, back_cursor)
  <2>1. producer_relaxed_load(c) /\ presult' = <<"full", answer>>
    BY <1>5 DEF queue_is_full
  <2>2. answer \in BOOLEAN
    BY DEF is_full
  <2>3. ~ answer => Len(contents) < Size
    <3>1. /\ d <= distance(c, back_cursor)
          /\ distance(c, back_cursor) <= Size
          /\ distance(c, back_cursor) \in Nat
      BY <2>1, <1>4, <1>a, <1>b
    <3>2. ~ answer => distance(c, back_cursor) # Size
      BY DEF is_full
    <3> QED BY <3>1, <3>2, <1>d, Sizes
  <2> HIDE DEF answer
  <2>4. Fifo!AskFull(answer)
    BY <2>1, <2>3, <1>4 DEF Fifo!AskFull
  <2> QED BY <2>2, <2>4 DEF Fifo!Next
<1>6. ASSUME NEW c \in Cursor, producer_queue_length(c)
      PROVE  [Fifo!Next]_Fifo!vars
  <2> DEFINE n == distance(c, back_cursor)
  <2>1. producer_relaxed_load(c) /\ presult' = <<"length", n>>
    BY <1>6 DEF producer_queue_length
  <2>2. n \in Len(contents) .. Size /\ n \in 0 .. Size
    BY <2>1, <1>4, <1>a, <1>b, <1>d, Sizes
  <2> HIDE DEF n
  <2>3. Fifo!ProducerLength(n)
    BY <2>1, <2>2, <1>4 DEF Fifo!ProducerLength
  <2> QED BY <2>2, <2>3 DEF Fifo!Next
<1>7. ASSUME NEW c \in Cursor, PopReload(c)
      PROVE  [Fifo!Next]_Fifo!vars
  <2>1. contents' = contents /\ presult' = presult
    BY <1>7, ContentsSame DEF PopReload, producerVars
  <2>2. CASE is_empty(front_cursor, c)
    <3>1. distance(front_cursor, seen_back) <= distance(front_cursor, c)
      BY <1>7, <1>a, <1>c, BackLoad DEF PopReload, CursorOrder
    <3>2. distance(front_cursor, c) = 0
      BY <2>2, <1>a, DistanceZero DEF is_empty
    <3>3. distance(front_cursor, seen_back) = 0
      BY <3>1, <3>2, <1>a, <1>b
    <3>4. cresult # <<"empty", FALSE>>
      <4>1. cresult = <<"empty", FALSE>>
               => 0 < distance(front_cursor, seen_back)
        BY <1>c DEF ValueToPop
      <4>2. ~ 0 < distance(front_cursor, seen_back)
        BY <3>3
      <4> QED BY <4>1, <4>2
    <3>5. cresult' = <<"pop", NULL>>
      BY <1>7, <2>2 DEF PopReload
    <3> QED BY <2>1, <3>4, <3>5 DEF Fifo!Next, Fifo!FindNothing
  <2>3. CASE ~ is_empty(front_cursor, c)
    BY <1>7, <2>1, <2>3 DEF PopReload, Fifo!vars
  <2> QED BY <2>2, <2>3
<1>8. CASE PopPublish
  <2>1. /\ contents # <<>> /\ cvalue = Head(contents)
        /\ contents' = Tail(contents)
    BY <1>8, <1>c, ContentsPop
  <2>2. cresult' = <<"pop", cvalue>> /\ presult' = presult
    BY <1>8 DEF PopPublish, producerVars
  <2> QED BY <2>1, <2>2 DEF Fifo!Next, Fifo!Pop
<1>9. ASSUME NEW c \in Cursor, consumer_relaxed_load(c)
      PROVE  /\ contents' = contents /\ presult' = presult
             /\ distance(front_cursor, c) <= d
  <2>1. contents' = contents /\ presult' = presult
    BY <1>9, ContentsSame DEF consumer_relaxed_load, producerVars
  <2>2. distance(front_cursor, c) <= d
    BY <1>9, <1>a, <1>c, BackLoad DEF consumer_relaxed_load, CursorOrder
  <2> QED BY <2>1, <2>2
<1>10. ASSUME NEW c \in Cursor, queue_is_empty(c)
       PROVE  [Fifo!Next]_Fifo!vars
  <2> DEFINE answer == is_empty(front_cursor, c)
  <2>1. consumer_relaxed_load(c) /\ cresult' = <<"empty", answer>>
    BY <1>10 DEF queue_is_empty
  <2>2. answer \in BOOLEAN
    BY DEF is_empty
  <2>3. ~ answer => contents # <<>>
    <3>1. ~ answer => distance(front_cursor, c) # 0
      BY <1>a, DistanceZero DEF is_empty
    <3>2. distance(front_cursor, c) <= d /\ distance(front_cursor, c) \in Nat
      BY <2>1, <1>9, <1>a, <1>b
    <3> QED BY <3>1, <3>2, <1>d
  <2> HIDE DEF answer
  <2>4. Fifo!AskEmpty(answer)
    BY <2>1, <2>3, <1>9 DEF Fifo!AskEmpty
  <2> QED BY <2>2, <2>4 DEF Fifo!Next
<1>11. ASSUME NEW c \in Cursor, consumer_queue_length(c)
       PROVE  [Fifo!Next]_Fifo!vars
  <2> DEFINE n == distance(front_cursor, c)
  <2>1. consumer_relaxed_load(c) /\ cresult' = <<"length", n>>
    BY <1>11 DEF consumer_queue_length
  <2>2. d <= Size
    BY <1>a, <1>b, <1>c, Sizes DEF CursorOrder
  <2>3. n \in 0 .. Len(contents) /\ n \in 0 .. Size
    <3>1. n <= d /\ n \in Nat
      BY <2>1, <1>9, <1>a, <1>b
    <3> QED BY <3>1, <2>2, <1>d, Sizes
  <2> HIDE DEF n
  <2>4. Fifo!ConsumerLength(n)
    BY <2>1, <2>3, <1>9 DEF Fifo!ConsumerLength
  <2> QED BY <2>3, <2>4 DEF Fifo!Next
<1>12. CASE Rejoin \/ queue_get
  <2>1. contents' = contents
    BY <1>12, ContentsSame DEF Rejoin, queue_get
  <2> QED
    BY <1>12, <2>1 DEF Rejoin, queue_get, AllVisible, Fifo!Next, Fifo!Restart
<1>13. CASE queue_purge
  <2>1. distance(front_cursor, back_cursor)' = 0
    BY <1>13, <1>a, DistanceZero DEF queue_purge
  <2>2. contents' = <<>>
    BY <2>1 DEF contents
  <2> QED
    BY <1>13, <2>2 DEF queue_purge, AllVisible, Fifo!Next, Fifo!Restart
<1>14. ASSUME UNCHANGED <<values, front_cursor, back_cursor, presult, cresult>>
       PROVE  [Fifo!Next]_Fifo!vars
  BY <1>14, ContentsSame DEF Fifo!vars
<1> QED
  BY <1>1, <1>2, <1>3, <1>5, <1>6, <1>7, <1>8, <1>10, <1>11, <1>12, <1>13,
     <1>14
  DEF Next, ProducerStep, ConsumerStep, PushBegin, PopBegin, PopRead, vars,
      cursorVars, producerVars, consumerVars

\* The lock-free queue implements the bounded queue with atomic operations.
THEOREM Refinement == Spec => ImplementsFifo
<1>1. Init => Fifo!Init
  BY RefineInit
<1>2. IInv /\ IInv' /\ [Next]_vars => [Fifo!Next]_Fifo!vars
  BY RefineStep
<1> QED BY <1>1, <1>2, InductiveInvariant, PTL DEF Spec, ImplementsFifo, Fifo!Spec
=============================================================================
