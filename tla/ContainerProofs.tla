---------------------------- MODULE ContainerProofs ----------------------------
(***************************************************************************)
(* That a deque under its spinlock is an atomic one, for every set of      *)
(* threads and calls and for sequences of every length; that the block of  *)
(* pointers of array.h is a growable array and that the loops of           *)
(* stack_tuck_n tuck one value, for every size and grow_step; and that     *)
(* list_t is a sequence with a cursor, for lists of every length, and a    *)
(* loop over it misses nothing.                                            *)
(***************************************************************************)
EXTENDS List, Deque, Stack, Induction, FiniteSetTheorems, SequenceTheorems

-----------------------------------------------------------------------------
(* The deque *)

\* A thread has a call just until it writes, and what it has read stays true.
CallsOK ==
    \A t \in Threads :
      /\ call[t] # NULL <=> dpc[t] \in {"load", "exchange", "read", "write"}
      /\ dpc[t] = "write" => snapshot[t] = deque_items

DequeInv == DequeTypeOK /\ OneInside /\ CallsOK

-----------------------------------------------------------------------------

(* Every function of deque.h leaves a sequence of values. *)
LEMMA AfterType ==
    ASSUME NEW s \in Seq(Values), NEW c \in Calls
    PROVE  Shared!After(s, c) \in Seq(Values)
<1>1. CASE c.name = "push_front"
  <2>1. c.value \in Values
    BY <1>1, DequeAssumption
  <2>2. <<c.value>> \o s \in Seq(Values)
    BY <2>1, ConcatProperties
  <2> QED BY <1>1, <2>2 DEF Shared!After
<1>2. CASE c.name = "push_back"
  <2>1. c.value \in Values
    BY <1>2, DequeAssumption
  <2> QED BY <1>2, <2>1 DEF Shared!After
<1>3. CASE c.name = "pop_front" /\ s # <<>>
  BY <1>3, HeadTailProperties DEF Shared!After
<1>4. CASE c.name = "pop_back" /\ s # <<>>
  <2>1. Len(s) \in Nat /\ Len(s) > 0
    BY <1>4, EmptySeq
  <2>2. SubSeq(s, 1, Len(s) - 1) \in Seq(Values)
    BY <2>1, SubSeqProperties
  <2> QED BY <1>4, <2>2 DEF Shared!After
<1> QED BY <1>1, <1>2, <1>3, <1>4 DEF Shared!After

LEMMA DequeInitInv == DequeInit => DequeInv
<1> SUFFICES ASSUME DequeInit PROVE DequeInv
  OBVIOUS
<1>1. DequeTypeOK
  BY EmptySeq DEF DequeInit, DequeTypeOK
<1>2. OneInside
  BY DEF DequeInit, OneInside, Inside
<1>3. CallsOK
  BY DEF DequeInit, CallsOK
<1> QED BY <1>1, <1>2, <1>3 DEF DequeInv

LEMMA DequeStep == DequeInv /\ [DequeNext]_deque_vars => DequeInv'
<1> SUFFICES ASSUME DequeInv, [DequeNext]_deque_vars PROVE DequeInv'
  OBVIOUS
<1>0. DequeTypeOK /\ OneInside /\ CallsOK
  BY DEF DequeInv
<1>1. ASSUME NEW t \in Threads, NEW c \in Calls, Call(t, c) PROVE DequeInv'
  <2>1. DequeTypeOK'
    BY <1>0, <1>1 DEF DequeTypeOK, Call, DequeGoto
  <2>2. OneInside'
    BY <1>0, <1>1 DEF DequeTypeOK, OneInside, Inside, Call, DequeGoto
  <2>3. CallsOK'
    BY <1>0, <1>1, DequeAssumption DEF DequeTypeOK, CallsOK, Call, DequeGoto
  <2> QED BY <2>1, <2>2, <2>3 DEF DequeInv
<1>2. ASSUME NEW t \in Threads, Load(t) PROVE DequeInv'
  <2>1. DequeTypeOK'
    BY <1>0, <1>2 DEF DequeTypeOK, Load, DequeGoto
  <2>2. OneInside'
    BY <1>0, <1>2 DEF DequeTypeOK, OneInside, Inside, Load, DequeGoto
  <2>3. CallsOK'
    BY <1>0, <1>2 DEF DequeTypeOK, CallsOK, Load, DequeGoto
  <2> QED BY <2>1, <2>2, <2>3 DEF DequeInv
<1>3. ASSUME NEW t \in Threads, Exchange(t) PROVE DequeInv'
  <2>1. DequeTypeOK'
    BY <1>0, <1>3 DEF DequeTypeOK, Inside, Exchange, DequeGoto
  <2>2. OneInside'
    BY <1>0, <1>3 DEF DequeTypeOK, OneInside, Inside, Exchange, DequeGoto
  <2>3. CallsOK'
    BY <1>0, <1>3 DEF DequeTypeOK, CallsOK, Exchange, DequeGoto
  <2> QED BY <2>1, <2>2, <2>3 DEF DequeInv
<1>4. ASSUME NEW t \in Threads, Read(t) PROVE DequeInv'
  <2>1. DequeTypeOK'
    BY <1>0, <1>4 DEF DequeTypeOK, Inside, Read, DequeGoto
  <2>2. OneInside'
    BY <1>0, <1>4 DEF DequeTypeOK, OneInside, Inside, Read, DequeGoto
  <2>3. CallsOK'
    BY <1>0, <1>4 DEF DequeTypeOK, CallsOK, Read, DequeGoto
  <2> QED BY <2>1, <2>2, <2>3 DEF DequeInv
<1>5. ASSUME NEW t \in Threads, Write(t) PROVE DequeInv'
  <2>0. call[t] \in Calls /\ snapshot[t] \in Seq(Values) /\ dpc[t] = "write"
    BY <1>0, <1>5 DEF DequeTypeOK, CallsOK, Write
  <2>1. DequeTypeOK'
    <3>1. deque_items' \in Seq(Values)
      BY <1>5, <2>0, AfterType DEF Write
    <3>2. DOMAIN answer' = Threads
      BY <1>0, <1>5 DEF DequeTypeOK, Write
    <3> QED BY <1>0, <1>5, <3>1, <3>2, EmptySeq
            DEF DequeTypeOK, Inside, Write, DequeGoto
  <2>2. OneInside'
    BY <1>0, <1>5 DEF DequeTypeOK, OneInside, Inside, Write, DequeGoto
  <2>3. CallsOK'
    <3>1. \A u \in Threads \ {t} : dpc[u] # "write"
      BY <1>0, <2>0 DEF OneInside, Inside
    <3> QED BY <1>0, <1>5, <3>1 DEF DequeTypeOK, CallsOK, Write, DequeGoto
  <2> QED BY <2>1, <2>2, <2>3 DEF DequeInv
<1>6. ASSUME NEW t \in Threads, DequeUnlock(t) PROVE DequeInv'
  <2>1. DequeTypeOK'
    BY <1>0, <1>6 DEF DequeTypeOK, Inside, DequeUnlock, DequeGoto
  <2>2. OneInside'
    BY <1>0, <1>6 DEF DequeTypeOK, OneInside, Inside, DequeUnlock, DequeGoto
  <2>3. CallsOK'
    BY <1>0, <1>6 DEF DequeTypeOK, CallsOK, DequeUnlock, DequeGoto
  <2> QED BY <2>1, <2>2, <2>3 DEF DequeInv
<1>7. CASE UNCHANGED deque_vars
  BY <1>0, <1>7 DEF DequeInv, DequeTypeOK, OneInside, CallsOK, deque_vars
<1> QED BY <1>1, <1>2, <1>3, <1>4, <1>5, <1>6, <1>7 DEF DequeNext

(* In every reachable state the deque is a sequence of the values that were *)
(* pushed, and no thread is inside the lock of deque.c beside another.       *)
THEOREM DequeInvariant == DequeSpec => []DequeInv
BY DequeInitInv, DequeStep, PTL DEF DequeSpec

(* fast_spinlock_lock and fast_spinlock_unlock let one thread in at a time,  *)
(* although a relaxed load that may be old comes before the exchange.        *)
THEOREM DequeExclusion == DequeSpec => []OneInside
<1>1. DequeInv => OneInside
  BY DEF DequeInv
<1> QED BY <1>1, DequeInvariant, PTL

(* What a thread writes follows from what the deque is then. *)
LEMMA DequeStepMaps ==
    DequeInv /\ [DequeNext]_deque_vars => [Shared!Next]_(Shared!vars)
<1> SUFFICES ASSUME DequeInv, [DequeNext]_deque_vars
             PROVE  [Shared!Next]_(Shared!vars)
  OBVIOUS
<1>0. DequeTypeOK /\ CallsOK
  BY DEF DequeInv
<1>1. ASSUME NEW t \in Threads, NEW c \in Calls, Call(t, c) PROVE Shared!Start(t, c)
  BY <1>0, <1>1 DEF CallsOK, Call, Shared!Start
<1>2. ASSUME NEW t \in Threads, Load(t) \/ Exchange(t) \/ Read(t) \/ DequeUnlock(t)
      PROVE  UNCHANGED Shared!vars
  BY <1>2 DEF Load, Exchange, Read, DequeUnlock, Shared!vars
<1>3. ASSUME NEW t \in Threads, Write(t) PROVE Shared!Happen(t)
  <2>1. call[t] # NULL /\ snapshot[t] = deque_items
    BY <1>0, <1>3 DEF CallsOK, Write
  <2> QED BY <1>3, <2>1 DEF Write, Shared!Happen
<1>4. CASE UNCHANGED deque_vars
  BY <1>4 DEF deque_vars, Shared!vars
<1> QED BY <1>1, <1>2, <1>3, <1>4 DEF DequeNext, Shared!Next

(* Calls of a deque by any number of threads happen one at a time, each at a *)
(* moment between its start and its return.                                  *)
THEOREM DequeAtomic == DequeSpec => DequeIsAtomic
<1>1. DequeInit => Shared!Init
  BY DEF DequeInit, Shared!Init
<1> QED BY <1>1, DequeStepMaps, DequeInvariant, PTL
        DEF DequeSpec, DequeIsAtomic, Shared!Spec

-----------------------------------------------------------------------------
(* The array and the stack *)

\* A struct that array.h keeps: the cursor is within the block, and the block
\* is NULL from the cursor on.
IsArray(self) ==
    /\ DOMAIN self = {"size", "grow_step", "cursor", "values"}
    /\ self.size \in Nat
    /\ self.grow_step \in Nat \ {0}
    /\ self.cursor \in 0 .. self.size
    /\ self.values \in [0 .. self.size - 1 -> Values \cup {NULL}]
    /\ \A i \in self.cursor .. self.size - 1 : self.values[i] = NULL

\* What stack_tuck_n has still to do, and what it has in its hands.
TuckOK ==
    /\ tuck \in [phase : {"no", "pop", "push"}, target : Values \cup {NULL},
                 n : Nat, rest : Seq(Values)]
    /\ tuck.phase = "no" => tuck.rest = <<>>
    /\ tuck.phase = "pop" =>
         /\ tuck.target \in Values
         /\ tuck.n <= array.cursor
         /\ \A i \in array.cursor - tuck.n .. array.cursor - 1 : array.values[i] # NULL

\* The bound of the calls is one of the cursor, stack_tuck_n included.
Bounded ==
    array.cursor + Len(tuck.rest) + (IF tuck.phase = "pop" THEN 1 ELSE 0) <= SizeBound

StackInv == IsArray(array) /\ TuckOK /\ Bounded

-----------------------------------------------------------------------------
(* The functions of array.h *)

LEMMA MadeIsArray ==
    ASSUME NEW size \in Sizes, NEW s, s = make_array(size)
    PROVE  IsArray(s) /\ s.cursor = 0
BY StackAssumption DEF IsArray, make_array

LEMMA ResizedIsArray ==
    ASSUME NEW self, IsArray(self), NEW n \in Nat, n >= self.size,
           NEW s, s = array_resize(self, n)
    PROVE  /\ IsArray(s)
           /\ s.size = n /\ s.cursor = self.cursor /\ s.grow_step = self.grow_step
           /\ \A i \in 0 .. self.cursor - 1 : s.values[i] = self.values[i]
<1> DEFINE new == [i \in 0 .. n - 1 |-> IF i < self.size THEN self.values[i] ELSE NULL]
<1>1. s = [self EXCEPT !.size = n, !.values = new]
  BY DEF array_resize
<1>2. new \in [0 .. n - 1 -> Values \cup {NULL}]
  BY DEF IsArray
<1>3. \A i \in self.cursor .. n - 1 : new[i] = NULL
  BY DEF IsArray
<1>4. \A i \in 0 .. self.cursor - 1 : new[i] = self.values[i]
  BY DEF IsArray
<1> HIDE DEF new
<1> QED BY <1>1, <1>2, <1>3, <1>4 DEF IsArray

LEMMA PoppedIsArray ==
    ASSUME NEW self, IsArray(self), self.cursor > 0, NEW s, s = array_pop(self)
    PROVE  /\ IsArray(s)
           /\ s.cursor = self.cursor - 1
           /\ \A i \in 0 .. self.cursor - 2 : s.values[i] = self.values[i]
BY DEF IsArray, array_pop

\* What array_push and array_set leave once there is room.
Stored(self, i, v, s) ==
    /\ DOMAIN s = DOMAIN self /\ s.size = self.size /\ s.grow_step = self.grow_step
    /\ s.values = [self.values EXCEPT ![i] = v]
    /\ s.cursor = IF i >= self.cursor THEN i + 1 ELSE self.cursor

LEMMA StoredIsArray ==
    ASSUME NEW self, IsArray(self), NEW i \in 0 .. self.size - 1,
           NEW v \in Values \cup {NULL}, NEW s, Stored(self, i, v, s)
    PROVE  /\ IsArray(s)
           /\ \A j \in 0 .. s.cursor - 1 :
                s.values[j] = IF j = i THEN v
                              ELSE IF j < self.cursor THEN self.values[j] ELSE NULL
<1>1. /\ DOMAIN s = {"size", "grow_step", "cursor", "values"}
      /\ s.size \in Nat /\ s.grow_step \in Nat \ {0}
  BY DEF IsArray, Stored
<1>2. s.cursor \in 0 .. s.size /\ s.cursor > i /\ s.cursor >= self.cursor
  BY DEF IsArray, Stored
<1>3. s.values \in [0 .. s.size - 1 -> Values \cup {NULL}]
  BY DEF IsArray, Stored
<1>4. \A j \in 0 .. self.size - 1 : s.values[j] = IF j = i THEN v ELSE self.values[j]
  BY DEF IsArray, Stored
<1>5. s.size = self.size /\ s.cursor = IF i >= self.cursor THEN i + 1 ELSE self.cursor
  BY DEF Stored
<1>6. \A j \in s.cursor .. s.size - 1 : s.values[j] = NULL
  BY <1>5, <1>4 DEF IsArray
<1>7. \A j \in 0 .. s.cursor - 1 :
        s.values[j] = IF j = i THEN v
                      ELSE IF j < self.cursor THEN self.values[j] ELSE NULL
  BY <1>5, <1>4 DEF IsArray
<1> QED BY <1>1, <1>2, <1>3, <1>6, <1>7 DEF IsArray

\* An array that is larger by its grow_step has room for one more.
LEMMA GrownHasRoom ==
    ASSUME NEW self, IsArray(self), NEW i \in Nat, i >= self.size,
           NEW s, s = array_resize(self, i + self.grow_step)
    PROVE  /\ IsArray(s) /\ s.cursor = self.cursor /\ i \in 0 .. s.size - 1
           /\ \A j \in 0 .. self.cursor - 1 : s.values[j] = self.values[j]
<1>1. PICK n : n = i + self.grow_step
  OBVIOUS
<1>2. n \in Nat /\ n >= self.size /\ i \in 0 .. n - 1
  BY <1>1 DEF IsArray
<1>3. s = array_resize(self, n)
  BY <1>1
<1> QED BY <1>2, <1>3, ResizedIsArray

\* s holds what self does, but for v at index i and NULL between.
HasSet(self, i, v, s) ==
    /\ s.cursor = IF i >= self.cursor THEN i + 1 ELSE self.cursor
    /\ \A j \in 0 .. s.cursor - 1 :
         s.values[j] = IF j = i THEN v
                       ELSE IF j < self.cursor THEN self.values[j] ELSE NULL

\* array_set extends the array where it must.
LEMMA SetIsArray ==
    ASSUME NEW self, IsArray(self), NEW i \in Nat, NEW v \in Values \cup {NULL},
           NEW s, s = array_set(self, i, v)
    PROVE  IsArray(s) /\ HasSet(self, i, v, s)
<1>1. PICK larger :
        larger = IF i >= self.size
                 THEN array_resize(self, i + self.grow_step) ELSE self
  OBVIOUS
<1>2. /\ IsArray(larger) /\ larger.cursor = self.cursor /\ i \in 0 .. larger.size - 1
      /\ \A j \in 0 .. self.cursor - 1 : larger.values[j] = self.values[j]
  <2>1. CASE i >= self.size
    BY <1>1, <2>1, GrownHasRoom
  <2>2. CASE ~ (i >= self.size)
    BY <1>1, <2>2 DEF IsArray
  <2> QED BY <2>1, <2>2
<1>3. s = [larger EXCEPT !.values[i] = v, !.cursor = IF i >= @ THEN i + 1 ELSE @]
  BY <1>1 DEF array_set
<1>4. Stored(larger, i, v, s)
  BY <1>2, <1>3 DEF IsArray, Stored
<1>5. /\ IsArray(s)
      /\ \A j \in 0 .. s.cursor - 1 :
           s.values[j] = IF j = i THEN v
                         ELSE IF j < larger.cursor THEN larger.values[j] ELSE NULL
  BY <1>2, <1>4, StoredIsArray
<1>6. self.cursor \in Nat
  BY DEF IsArray
<1> QED BY <1>2, <1>4, <1>5, <1>6 DEF Stored, HasSet

\* array_push is array_set at the cursor, but for how far it extends.
LEMMA PushedIsArray ==
    ASSUME NEW self, IsArray(self), NEW v \in Values \cup {NULL},
           NEW s, s = array_push(self, v)
    PROVE  /\ IsArray(s)
           /\ s.cursor = self.cursor + 1
           /\ \A j \in 0 .. self.cursor :
                s.values[j] = IF j = self.cursor THEN v ELSE self.values[j]
<1>1. PICK larger :
        larger = IF self.cursor = self.size
                 THEN array_resize(self, self.size + self.grow_step) ELSE self
  OBVIOUS
<1>2. self.cursor \in Nat
  BY DEF IsArray
<1>3. /\ IsArray(larger) /\ larger.cursor = self.cursor
      /\ self.cursor \in 0 .. larger.size - 1
      /\ \A j \in 0 .. self.cursor - 1 : larger.values[j] = self.values[j]
  <2>1. CASE self.cursor = self.size
    <3>1. self.size \in Nat /\ self.size >= self.size
      BY DEF IsArray
    <3> QED BY <1>1, <2>1, <3>1, GrownHasRoom
  <2>2. CASE self.cursor # self.size
    BY <1>1, <2>2 DEF IsArray
  <2> QED BY <2>1, <2>2
<1>4. s = [larger EXCEPT !.cursor = @ + 1, !.values[self.cursor] = v]
  BY <1>1 DEF array_push
<1>5. Stored(larger, self.cursor, v, s)
  BY <1>2, <1>3, <1>4 DEF IsArray, Stored
<1>6. s.cursor = self.cursor + 1
  BY <1>2, <1>3, <1>5 DEF Stored
<1>7. /\ IsArray(s)
      /\ \A j \in 0 .. s.cursor - 1 :
           s.values[j] = IF j = self.cursor THEN v
                         ELSE IF j < larger.cursor THEN larger.values[j] ELSE NULL
  BY <1>3, <1>5, StoredIsArray
<1> QED BY <1>2, <1>3, <1>6, <1>7

-----------------------------------------------------------------------------
(* The invariant *)

LEMMA StackInitInv == StackInit => StackInv
<1> SUFFICES ASSUME StackInit PROVE StackInv
  OBVIOUS
<1>1. IsArray(array) /\ array.cursor = 0
  BY MadeIsArray DEF StackInit
<1>2. /\ tuck.phase = "no" /\ tuck.rest = <<>> /\ Len(tuck.rest) = 0
      /\ tuck.rest \in Seq(Values)
  BY EmptySeq DEF StackInit, NoTuck
<1>3. TuckOK
  BY <1>2 DEF StackInit, NoTuck, TuckOK
<1>4. Bounded
  BY <1>1, <1>2, StackAssumption DEF Bounded
<1> QED BY <1>1, <1>3, <1>4 DEF StackInv

\* A call that does not tuck keeps the invariant if it keeps the array.
LEMMA CallKeeps ==
    ASSUME StackInv, Idle, UNCHANGED tuck, IsArray(array'),
           array'.cursor <= SizeBound
    PROVE  StackInv'
<1>1. tuck'.phase = "no" /\ tuck'.rest = <<>> /\ Len(tuck'.rest) = 0
  BY EmptySeq DEF StackInv, TuckOK, Idle
<1>2. TuckOK'
  BY <1>1 DEF StackInv, TuckOK, Idle
<1>3. Bounded'
  BY <1>1 DEF Bounded, IsArray
<1> QED BY <1>2, <1>3 DEF StackInv

LEMMA IdleFacts ==
    ASSUME StackInv, Idle
    PROVE  /\ tuck.rest = <<>> /\ Len(tuck.rest) = 0
           /\ array.cursor \in Nat /\ array.cursor <= SizeBound
<1>1. tuck.rest = <<>> /\ Len(tuck.rest) = 0
  BY EmptySeq DEF StackInv, TuckOK, Idle
<1> QED BY <1>1 DEF StackInv, Bounded, IsArray, Idle

LEMMA StackStep == StackInv /\ [StackNext]_stack_vars => StackInv'
<1> SUFFICES ASSUME StackInv, [StackNext]_stack_vars PROVE StackInv'
  OBVIOUS
<1>0. IsArray(array) /\ TuckOK /\ Bounded /\ SizeBound \in Nat
  BY StackAssumption DEF StackInv
<1>1. ASSUME NEW n \in 0 .. SizeBound, ArrayResize(n) PROVE StackInv'
  <2>1. Idle /\ UNCHANGED tuck /\ array' = array_resize(array, n) /\ n >= array.size
    BY <1>1 DEF ArrayResize, Replies
  <2>2. IsArray(array') /\ array'.cursor = array.cursor
    BY <1>0, <2>1, ResizedIsArray
  <2> QED BY <2>1, <2>2, IdleFacts, CallKeeps
<1>2. ASSUME NEW v \in Values, ArrayPush(v) PROVE StackInv'
  <2>1. Idle /\ UNCHANGED tuck /\ array' = array_push(array, v) /\ array'.size <= SizeBound
    BY <1>2 DEF ArrayPush, Replies
  <2>2. IsArray(array')
    BY <1>0, <2>1, PushedIsArray
  <2>3. array'.cursor <= SizeBound
    BY <1>0, <2>1, <2>2 DEF IsArray
  <2> QED BY <2>1, <2>2, <2>3, CallKeeps
<1>3. CASE ArrayPop
  <2>1. Idle /\ UNCHANGED tuck /\ array' = array_pop(array) /\ array.cursor > 0
    BY <1>3 DEF ArrayPop, Replies
  <2>2. IsArray(array') /\ array'.cursor = array.cursor - 1
    BY <1>0, <2>1, PoppedIsArray
  <2>3. array'.cursor <= SizeBound
    BY <1>0, <2>1, <2>2, IdleFacts
  <2> QED BY <2>1, <2>2, <2>3, CallKeeps
<1>4. ASSUME NEW i \in 0 .. SizeBound, NEW v \in Values, ArraySet(i, v) PROVE StackInv'
  <2>1. Idle /\ UNCHANGED tuck /\ array' = array_set(array, i, v) /\ array'.size <= SizeBound
    BY <1>4 DEF ArraySet, Replies
  <2>2. IsArray(array')
    BY <1>0, <2>1, SetIsArray
  <2>3. array'.cursor <= SizeBound
    BY <1>0, <2>1, <2>2 DEF IsArray
  <2> QED BY <2>1, <2>2, <2>3, CallKeeps
<1>5. ASSUME NEW i \in 0 .. SizeBound, ArrayGet(i) \/ ArrayPick(i) PROVE StackInv'
  <2>1. Idle /\ UNCHANGED tuck /\ array' = array
    BY <1>5 DEF ArrayGet, ArrayPick, Replies
  <2> QED BY <1>0, <2>1, IdleFacts, CallKeeps
<1>6. CASE ArrayPurge
  <2>1. /\ Idle /\ UNCHANGED tuck
        /\ array' = [array EXCEPT !.cursor = 0, !.values = [i \in DOMAIN @ |-> NULL]]
    BY <1>6 DEF ArrayPurge, Replies
  <2>2. IsArray(array') /\ array'.cursor = 0
    BY <1>0, <2>1 DEF IsArray
  <2> QED BY <1>0, <2>1, <2>2, CallKeeps
<1>7. ASSUME NEW n \in 0 .. SizeBound, NEW v \in Values, TuckCall(v, n) PROVE StackInv'
  <2>1. Idle /\ array' = array /\ n <= array.cursor /\ array.cursor < SizeBound
        /\ \A i \in array.cursor - n .. array.cursor - 1 : array.values[i] # NULL
    BY <1>7 DEF TuckCall
  <2>2. tuck' = [phase |-> "pop", target |-> v, n |-> n, rest |-> <<>>]
    BY <1>7 DEF TuckCall
  <2>3. /\ tuck'.rest = <<>> /\ tuck'.phase = "pop" /\ tuck'.n = n /\ tuck'.target = v
    BY <2>2
  <2>4. Len(tuck'.rest) = 0 /\ tuck'.rest \in Seq(Values) /\ n \in Nat
    BY <1>0, <2>3, EmptySeq
  <2>5. tuck' \in [phase : {"no", "pop", "push"}, target : Values \cup {NULL},
                   n : Nat, rest : Seq(Values)]
    BY <2>2, <2>3, <2>4
  <2>6. TuckOK'
    BY <2>1, <2>3, <2>5 DEF TuckOK
  <2>7. Bounded'
    BY <1>0, <2>1, <2>3, <2>4 DEF Bounded, IsArray
  <2> QED BY <1>0, <2>1, <2>6, <2>7 DEF StackInv
<1>8. CASE TuckPop
  <2>1. PICK v : v = array.values[array.cursor - 1]
    OBVIOUS
  <2>2. PICK rest : rest = <<v>> \o tuck.rest
    OBVIOUS
  <2>3. tuck.phase = "pop" /\ tuck.n > 0 /\ array' = array_pop(array)
    BY <1>8 DEF TuckPop
  <2>4. tuck' = [tuck EXCEPT !.n = @ - 1, !.rest = rest]
    BY <1>8, <2>1, <2>2 DEF TuckPop
  <2>5. array.cursor > 0 /\ v \in Values
    <3>1. tuck.n \in Nat /\ tuck.n <= array.cursor
      BY <1>0, <2>3 DEF TuckOK
    <3>2. array.cursor - 1 \in array.cursor - tuck.n .. array.cursor - 1
      BY <1>0, <2>3, <3>1 DEF IsArray
    <3>3. array.values[array.cursor - 1] # NULL
      BY <1>0, <2>3, <3>2 DEF TuckOK
    <3> QED BY <1>0, <2>1, <2>3, <3>1, <3>3 DEF IsArray
  <2>6. /\ IsArray(array') /\ array'.cursor = array.cursor - 1
        /\ \A i \in 0 .. array.cursor - 2 : array'.values[i] = array.values[i]
    BY <1>0, <2>3, <2>5, PoppedIsArray
  <2>7. rest \in Seq(Values) /\ Len(rest) = Len(tuck.rest) + 1
    BY <1>0, <2>2, <2>5, ConcatProperties DEF TuckOK
  <2>8. /\ tuck'.phase = "pop" /\ tuck'.rest = rest
        /\ tuck'.n = tuck.n - 1 /\ tuck'.target = tuck.target
        /\ tuck' \in [phase : {"no", "pop", "push"}, target : Values \cup {NULL},
                      n : Nat, rest : Seq(Values)]
    <3>1. /\ tuck \in [phase : {"no", "pop", "push"}, target : Values \cup {NULL},
                       n : Nat, rest : Seq(Values)]
          /\ tuck.phase = "pop"
      BY <1>0, <2>3 DEF TuckOK
    <3>2. tuck.n - 1 \in Nat
      BY <2>3, <3>1
    <3> QED BY <2>4, <2>7, <3>1, <3>2
  <2>9. TuckOK'
    <3>1. tuck'.target \in Values
      BY <1>0, <2>3, <2>8 DEF TuckOK
    <3>2. tuck'.n <= array'.cursor
      BY <1>0, <2>3, <2>6, <2>8 DEF TuckOK, IsArray
    <3>3. \A i \in array'.cursor - tuck'.n .. array'.cursor - 1 : array'.values[i] # NULL
      <4>1. \A i \in array.cursor - tuck.n .. array.cursor - 1 : array.values[i] # NULL
        BY <1>0, <2>3 DEF TuckOK
      <4>2. array.cursor \in Nat /\ tuck.n \in Nat /\ tuck.n <= array.cursor
        BY <1>0, <2>3 DEF IsArray, TuckOK
      <4>3. \A i \in (array.cursor - 1) - (tuck.n - 1) .. (array.cursor - 1) - 1 :
              array'.values[i] # NULL
        BY <2>6, <4>1, <4>2
      <4>4. array'.cursor = array.cursor - 1 /\ tuck'.n = tuck.n - 1
        BY <2>6, <2>8
      <4> QED BY <4>3, <4>4
    <3> QED BY <2>8, <3>1, <3>2, <3>3 DEF TuckOK
  <2>10. Bounded'
    <3>1. Len(tuck.rest) \in Nat
      BY <1>0, LenProperties DEF TuckOK
    <3>2. tuck'.phase = "pop" /\ Len(tuck'.rest) = Len(tuck.rest) + 1
      BY <2>7, <2>8
    <3>3. array'.cursor + 1 = array.cursor /\ array.cursor \in Nat
      BY <1>0, <2>6 DEF IsArray
    <3>4. array.cursor + Len(tuck.rest) + 1 <= SizeBound
      BY <1>0, <2>3 DEF Bounded
    <3>5. array'.cursor = array.cursor - 1
      BY <2>6
    <3>6. array'.cursor + Len(tuck'.rest) + 1 <= SizeBound
      BY <1>0, <3>1, <3>2, <3>3, <3>4, <3>5
    <3> QED BY <3>2, <3>6 DEF Bounded
  <2> QED BY <2>6, <2>9, <2>10 DEF StackInv
<1>9. CASE TuckTarget
  <2>1. /\ tuck.phase = "pop" /\ array' = array_push(array, tuck.target)
        /\ tuck' = [tuck EXCEPT !.phase = "push", !.target = NULL]
    BY <1>9 DEF TuckTarget, Replies
  <2>2. IsArray(array') /\ array'.cursor = array.cursor + 1
    BY <1>0, <2>1, PushedIsArray DEF TuckOK
  <2>3. tuck'.phase = "push" /\ tuck'.rest = tuck.rest /\ TuckOK'
    BY <1>0, <2>1 DEF TuckOK
  <2>4. Bounded'
    <3>1. Len(tuck.rest) \in Nat
      BY <1>0, LenProperties DEF TuckOK
    <3> QED BY <1>0, <2>1, <2>2, <2>3, <3>1 DEF Bounded, IsArray
  <2> QED BY <2>2, <2>3, <2>4 DEF StackInv
<1>10. CASE TuckPush
  <2>1. /\ tuck.phase = "push" /\ tuck.rest # <<>>
        /\ array' = array_push(array, Head(tuck.rest))
        /\ tuck' = [tuck EXCEPT !.rest = Tail(@)]
    BY <1>10 DEF TuckPush
  <2>2. /\ Head(tuck.rest) \in Values /\ Tail(tuck.rest) \in Seq(Values)
        /\ Len(Tail(tuck.rest)) = Len(tuck.rest) - 1 /\ Len(tuck.rest) \in Nat
    BY <1>0, <2>1, HeadTailProperties, LenProperties DEF TuckOK
  <2>3. IsArray(array') /\ array'.cursor = array.cursor + 1
    BY <1>0, <2>1, <2>2, PushedIsArray
  <2>4. tuck'.phase = "push" /\ tuck'.rest = Tail(tuck.rest) /\ TuckOK'
    BY <1>0, <2>1, <2>2 DEF TuckOK
  <2>5. Bounded'
    <3>1. array.cursor + Len(tuck.rest) <= SizeBound /\ array.cursor \in Nat
      BY <1>0, <2>1, <2>2 DEF Bounded, IsArray
    <3>2. array'.cursor = array.cursor + 1 /\ Len(tuck'.rest) = Len(tuck.rest) - 1
      BY <2>2, <2>3, <2>4
    <3>3. array'.cursor + Len(tuck'.rest) + 0 <= SizeBound
      BY ONLY <2>2, <3>1, <3>2, StackAssumption
    <3> QED BY <2>4, <3>3 DEF Bounded
  <2> QED BY <2>3, <2>4, <2>5 DEF StackInv
<1>11. CASE TuckReturn
  <2>1. /\ tuck.phase = "push" /\ tuck.rest = <<>> /\ array' = array /\ tuck' = NoTuck
    BY <1>11 DEF TuckReturn
  <2>2. tuck'.phase = "no" /\ tuck'.rest = <<>> /\ TuckOK'
    BY <1>0, <2>1, EmptySeq DEF TuckOK, NoTuck
  <2>3. Bounded'
    BY <1>0, <2>1, <2>2 DEF Bounded
  <2> QED BY <1>0, <2>1, <2>2, <2>3 DEF StackInv
<1>12. CASE UNCHANGED stack_vars
  BY <1>0, <1>12 DEF StackInv, stack_vars, TuckOK, Bounded
<1> QED BY <1>1, <1>2, <1>3, <1>4, <1>5, <1>6, <1>7, <1>8, <1>9, <1>10, <1>11, <1>12
        DEF StackNext

(* In every reachable state the cursor is within the block and the block is  *)
(* NULL from the cursor on, so that nothing that was popped can be seen.     *)
THEOREM StackInvariant == StackSpec => []StackInv
BY StackInitInv, StackStep, PTL DEF StackSpec

-----------------------------------------------------------------------------
(* The array as a sequence *)

LEMMA HeldFacts ==
    ASSUME StackInv
    PROVE  /\ Held \in Seq(Values \cup {NULL})
           /\ Len(Held) = array.cursor + Len(tuck.rest)
           /\ \A i \in 1 .. array.cursor + Len(tuck.rest) :
                Held[i] = IF i <= array.cursor THEN array.values[i - 1]
                          ELSE tuck.rest[i - array.cursor]
           /\ array.cursor \in Nat /\ Len(tuck.rest) \in Nat
<1>1. array.cursor \in Nat /\ Len(tuck.rest) \in Nat
  BY LenProperties DEF StackInv, IsArray, TuckOK
<1>2. PICK n \in Nat : n = array.cursor + Len(tuck.rest)
  BY <1>1
<1>3. Held = [i \in 1 .. n |-> IF i <= array.cursor THEN array.values[i - 1]
                              ELSE tuck.rest[i - array.cursor]]
  BY <1>2 DEF Held
<1>4. ASSUME NEW i \in 1 .. n
      PROVE  (IF i <= array.cursor THEN array.values[i - 1]
              ELSE tuck.rest[i - array.cursor]) \in Values \cup {NULL}
  <2>1. CASE i <= array.cursor
    <3>1. i - 1 \in 0 .. array.size - 1
      BY <1>1, <2>1 DEF StackInv, IsArray
    <3> QED BY <2>1, <3>1 DEF StackInv, IsArray
  <2>2. CASE ~ (i <= array.cursor)
    <3>1. i - array.cursor \in 1 .. Len(tuck.rest)
      BY <1>1, <1>2, <2>2
    <3>2. tuck.rest[i - array.cursor] \in Values
      BY <3>1, ElementOfSeq DEF StackInv, TuckOK
    <3> QED BY <2>2, <3>2
  <2> QED BY <2>1, <2>2
<1>5. Held \in [1 .. n -> Values \cup {NULL}]
  BY <1>3, <1>4
<1>6. Held \in Seq(Values \cup {NULL}) /\ Len(Held) = n
  BY <1>2, <1>5, SeqDef, LenProperties
<1> QED BY <1>1, <1>2, <1>3, <1>6

\* While no tuck is under way, the array is all there is.
LEMMA HeldIdle ==
    ASSUME StackInv, Idle
    PROVE  /\ Held \in Seq(Values \cup {NULL})
           /\ Len(Held) = array.cursor
           /\ Held = [i \in 1 .. array.cursor |-> array.values[i - 1]]
           /\ array.cursor \in Nat /\ array.cursor <= SizeBound
<1>1. Len(tuck.rest) = 0 /\ array.cursor \in Nat /\ array.cursor <= SizeBound
  BY IdleFacts
<1>2. Held \in Seq(Values \cup {NULL}) /\ Len(Held) = array.cursor
  BY <1>1, HeldFacts
<1>3. Held = [i \in 1 .. array.cursor |-> array.values[i - 1]]
  BY <1>1 DEF Held
<1> QED BY <1>1, <1>2, <1>3

LEMMA NoElements ==
    ASSUME NEW S, NEW f \in [1 .. 0 -> S]
    PROVE  f = <<>>
<1>1. f \in Seq(S)
  BY SeqDef
<1>2. Len(f) = 0
  BY <1>1, LenProperties
<1> QED BY <1>1, <1>2, EmptySeq

\* What a call leaves.
LEMMA HeldAfterCall ==
    ASSUME StackInv, Idle, UNCHANGED tuck, array'.cursor \in Nat
    PROVE  Held' = [i \in 1 .. array'.cursor |-> array'.values[i - 1]]
<1>1. tuck'.rest = tuck.rest /\ Len(tuck.rest) = 0
  BY IdleFacts
<1> QED BY <1>1 DEF Held

LEMMA StoredMaps ==
    ASSUME StackInv, Idle, UNCHANGED tuck, NEW i \in Nat, NEW v,
           HasSet(array, i, v, array')
    PROVE  Held' = Growable!With(i, v)
<1>1. /\ Len(Held) = array.cursor /\ array.cursor \in Nat
      /\ Held = [j \in 1 .. array.cursor |-> array.values[j - 1]]
  BY HeldIdle
<1>2. PICK n \in Nat : n = IF i < array.cursor THEN array.cursor ELSE i + 1
  BY <1>1
<1>3. array'.cursor = n
  BY <1>1, <1>2 DEF HasSet
<1>4. Held' = [j \in 1 .. n |-> array'.values[j - 1]]
  BY <1>2, <1>3, HeldAfterCall
<1>5. ASSUME NEW j \in 1 .. n
      PROVE  array'.values[j - 1] =
               IF j = i + 1 THEN v
               ELSE IF j - 1 < Len(Held) THEN Held[(j - 1) + 1] ELSE NULL
  <2>1. j - 1 \in 0 .. array'.cursor - 1 /\ (j - 1) + 1 = j
    BY <1>2, <1>3
  <2>2. array'.values[j - 1] = IF j - 1 = i THEN v
                               ELSE IF j - 1 < array.cursor THEN array.values[j - 1] ELSE NULL
    BY <2>1 DEF HasSet
  <2>3. CASE j - 1 = i
    BY <2>2, <2>3
  <2>4. CASE j - 1 # i /\ j - 1 < array.cursor
    <3>1. Held[j] = array.values[j - 1]
      BY <1>1, <1>2, <2>4
    <3>2. array'.values[j - 1] = array.values[j - 1] /\ j # i + 1
      BY <2>2, <2>4
    <3>3. j - 1 < Len(Held)
      BY <1>1, <2>4
    <3> QED BY <2>1, <3>1, <3>2, <3>3
  <2>5. CASE j - 1 # i /\ ~ (j - 1 < array.cursor)
    BY <1>1, <2>2, <2>5
  <2> QED BY <2>3, <2>4, <2>5
<1>6. Growable!With(i, v) =
        [j \in 1 .. n |-> IF j = i + 1 THEN v
                          ELSE IF j - 1 < Len(Held) THEN Held[(j - 1) + 1] ELSE NULL]
  BY <1>1, <1>2 DEF Growable!With, Growable!At
<1> QED BY <1>4, <1>5, <1>6

\* What is asked for.
LEMMA AskMaps ==
    ASSUME StackInv, Idle, NEW i \in Nat
    PROVE  array_get(array, i) = Growable!At(i)
<1>1. /\ Len(Held) = array.cursor /\ array.cursor \in Nat
      /\ Held = [j \in 1 .. array.cursor |-> array.values[j - 1]]
  BY HeldIdle
<1>2. IsArray(array)
  BY DEF StackInv
<1>3. CASE i < array.cursor
  <2>1. Held[i + 1] = array.values[i]
    BY <1>1, <1>3
  <2> QED BY <1>1, <1>2, <1>3, <2>1 DEF array_get, Growable!At, IsArray
<1>4. CASE ~ (i < array.cursor)
  BY <1>1, <1>2, <1>4 DEF array_get, Growable!At, IsArray
<1> QED BY <1>3, <1>4

\* A step of stack_tuck_n but for the one that pushes the target changes where
\* the values are, and not which and in what order.
LEMMA TuckPopMaps == ASSUME StackInv, TuckPop PROVE UNCHANGED Held
<1>1. PICK v : v = array.values[array.cursor - 1]
  OBVIOUS
<1>2. PICK rest : rest = <<v>> \o tuck.rest
  OBVIOUS
<1>3. /\ array' = array_pop(array) /\ tuck.phase = "pop" /\ tuck.n > 0
  BY DEF TuckPop
<1>4. tuck' = [tuck EXCEPT !.n = @ - 1, !.rest = rest]
  BY <1>1, <1>2 DEF TuckPop
<1>5. tuck'.rest = rest
  <2>1. tuck \in [phase : {"no", "pop", "push"}, target : Values \cup {NULL},
                  n : Nat, rest : Seq(Values)]
    BY DEF StackInv, TuckOK
  <2> QED BY <1>4, <2>1
<1>6. /\ IsArray(array) /\ array.cursor > 0 /\ array.cursor \in Nat
      /\ v \in Values /\ tuck.rest \in Seq(Values)
  <2>1. IsArray(array) /\ TuckOK
    BY DEF StackInv
  <2>2. tuck.n \in Nat /\ tuck.n <= array.cursor /\ tuck.rest \in Seq(Values)
    BY <1>3, <2>1 DEF TuckOK
  <2>3. array.cursor - 1 \in array.cursor - tuck.n .. array.cursor - 1
    BY <1>3, <2>1, <2>2 DEF IsArray
  <2>4. array.values[array.cursor - 1] # NULL
    BY <1>3, <2>1, <2>3 DEF TuckOK
  <2> QED BY <1>1, <1>3, <2>1, <2>2, <2>4 DEF IsArray
<1>7. /\ array'.cursor = array.cursor - 1
      /\ \A i \in 0 .. array.cursor - 2 : array'.values[i] = array.values[i]
  BY <1>3, <1>6, PoppedIsArray
<1>8. /\ Len(rest) = Len(tuck.rest) + 1 /\ Len(tuck.rest) \in Nat
      /\ rest[1] = v
      /\ \A i \in 2 .. Len(tuck.rest) + 1 : rest[i] = tuck.rest[i - 1]
  BY <1>2, <1>6, ConcatProperties, LenProperties
<1>9. PICK n \in Nat : n = array.cursor + Len(tuck.rest)
  BY <1>6, <1>8
<1>10. Held = [i \in 1 .. n |-> IF i <= array.cursor THEN array.values[i - 1]
                                ELSE tuck.rest[i - array.cursor]]
  BY <1>9 DEF Held
<1>11. Held' = [i \in 1 .. n |-> IF i <= array'.cursor THEN array'.values[i - 1]
                                 ELSE rest[i - array'.cursor]]
  <2>1. array'.cursor + Len(tuck'.rest) = n
    <3>1. array'.cursor = array.cursor - 1 /\ array.cursor \in Nat
      BY <1>6, <1>7
    <3>2. Len(tuck'.rest) = Len(tuck.rest) + 1 /\ Len(tuck.rest) \in Nat
      BY <1>5, <1>8
    <3> QED BY ONLY <3>1, <3>2, <1>9
  <2> QED BY <1>5, <2>1 DEF Held
<1>12. ASSUME NEW i \in 1 .. n
       PROVE  (IF i <= array'.cursor THEN array'.values[i - 1] ELSE rest[i - array'.cursor])
                = (IF i <= array.cursor THEN array.values[i - 1]
                   ELSE tuck.rest[i - array.cursor])
  <2>1. CASE i < array.cursor
    BY <1>6, <1>7, <2>1
  <2>2. CASE i = array.cursor
    BY <1>1, <1>6, <1>7, <1>8, <2>2
  <2>3. CASE i > array.cursor
    <3>1. i <= array.cursor + Len(tuck.rest)
      BY <1>9
    <3>2. /\ i - (array.cursor - 1) \in 2 .. Len(tuck.rest) + 1
          /\ (i - (array.cursor - 1)) - 1 = i - array.cursor
      BY <1>6, <1>8, <2>3, <3>1
    <3>3. rest[i - array'.cursor] = tuck.rest[i - array.cursor]
      BY <1>7, <1>8, <3>2
    <3>4. ~ (i <= array'.cursor) /\ ~ (i <= array.cursor)
      BY <1>6, <1>7, <2>3
    <3> QED BY <3>3, <3>4
  <2> QED BY <1>6, <2>1, <2>2, <2>3
<1> QED BY <1>10, <1>11, <1>12

LEMMA TuckPushMaps == ASSUME StackInv, TuckPush PROVE UNCHANGED Held
<1>1. /\ tuck.rest # <<>> /\ array' = array_push(array, Head(tuck.rest))
      /\ tuck' = [tuck EXCEPT !.rest = Tail(@)]
  BY DEF TuckPush
<1>2. tuck.rest \in Seq(Values) /\ tuck'.rest = Tail(tuck.rest)
  <2>1. tuck \in [phase : {"no", "pop", "push"}, target : Values \cup {NULL},
                  n : Nat, rest : Seq(Values)]
    BY DEF StackInv, TuckOK
  <2> QED BY <1>1, <2>1
<1>3. /\ Head(tuck.rest) \in Values /\ Len(tuck.rest) \in Nat
      /\ Len(tuck'.rest) = Len(tuck.rest) - 1
      /\ Head(tuck.rest) = tuck.rest[1]
      /\ \A i \in 1 .. Len(tuck.rest) - 1 : tuck'.rest[i] = tuck.rest[i + 1]
  BY <1>1, <1>2, HeadTailProperties, LenProperties
<1>4. IsArray(array) /\ array.cursor \in Nat
  BY DEF StackInv, IsArray
<1>5. /\ array'.cursor = array.cursor + 1
      /\ \A j \in 0 .. array.cursor :
           array'.values[j] = IF j = array.cursor THEN Head(tuck.rest) ELSE array.values[j]
  BY <1>1, <1>3, <1>4, PushedIsArray
<1>6. PICK n \in Nat : n = array.cursor + Len(tuck.rest)
  BY <1>3, <1>4
<1>7. Held = [i \in 1 .. n |-> IF i <= array.cursor THEN array.values[i - 1]
                               ELSE tuck.rest[i - array.cursor]]
  BY <1>6 DEF Held
<1>8. Held' = [i \in 1 .. n |-> IF i <= array'.cursor THEN array'.values[i - 1]
                                ELSE tuck'.rest[i - array'.cursor]]
  <2>1. array'.cursor + Len(tuck'.rest) = n
    <3>1. array'.cursor = array.cursor + 1 /\ array.cursor \in Nat
      BY <1>4, <1>5
    <3>2. Len(tuck'.rest) = Len(tuck.rest) - 1 /\ Len(tuck.rest) \in Nat
      BY <1>3
    <3> QED BY ONLY <3>1, <3>2, <1>6
  <2> QED BY <2>1 DEF Held
<1>9. ASSUME NEW i \in 1 .. n
      PROVE  (IF i <= array'.cursor THEN array'.values[i - 1]
              ELSE tuck'.rest[i - array'.cursor])
               = (IF i <= array.cursor THEN array.values[i - 1]
                  ELSE tuck.rest[i - array.cursor])
  <2>1. CASE i <= array.cursor
    BY <1>4, <1>5, <2>1
  <2>2. CASE i = array.cursor + 1
    <3>1. /\ i <= array'.cursor /\ ~ (i <= array.cursor)
          /\ i - 1 = array.cursor /\ i - array.cursor = 1
      BY <1>4, <1>5, <2>2
    <3>2. array'.values[array.cursor] = tuck.rest[1]
      BY <1>3, <1>4, <1>5
    <3> QED BY <3>1, <3>2
  <2>3. CASE i > array.cursor + 1
    <3>1. /\ i - array'.cursor \in 1 .. Len(tuck.rest) - 1
          /\ (i - array'.cursor) + 1 = i - array.cursor
      BY <1>3, <1>4, <1>5, <1>6, <2>3, SMTT(40)
    <3>2. tuck'.rest[i - array'.cursor] = tuck.rest[i - array.cursor]
      BY <1>3, <3>1
    <3>3. ~ (i <= array'.cursor) /\ ~ (i <= array.cursor)
      BY <1>4, <1>5, <2>3
    <3> QED BY <3>2, <3>3
  <2> QED BY <1>4, <2>1, <2>2, <2>3
<1> QED BY <1>7, <1>8, <1>9

LEMMA TuckTargetMaps ==
    ASSUME StackInv, TuckTarget
    PROVE  Growable!Tuck(Len(tuck.rest), tuck.target)
<1>1. /\ tuck.phase = "pop" /\ array' = array_push(array, tuck.target)
      /\ array_reply' = <<>>
  BY DEF TuckTarget, Replies
<1>2. tuck' = [tuck EXCEPT !.phase = "push", !.target = NULL]
  BY DEF TuckTarget
<1>3. tuck.rest \in Seq(Values) /\ tuck'.rest = tuck.rest /\ tuck.target \in Values
  <2>1. /\ tuck \in [phase : {"no", "pop", "push"}, target : Values \cup {NULL},
                     n : Nat, rest : Seq(Values)]
        /\ tuck.target \in Values
    BY <1>1 DEF StackInv, TuckOK
  <2> QED BY <1>2, <2>1
<1>4. IsArray(array) /\ array.cursor \in Nat /\ Len(tuck.rest) \in Nat
  BY <1>3, LenProperties DEF StackInv, IsArray
<1>5. /\ array'.cursor = array.cursor + 1
      /\ \A j \in 0 .. array.cursor :
           array'.values[j] = IF j = array.cursor THEN tuck.target ELSE array.values[j]
  BY <1>1, <1>3, <1>4, PushedIsArray
<1>6. PICK n \in Nat : n = array.cursor + Len(tuck.rest)
  BY <1>4
<1>7. /\ Len(Held) = n
      /\ \A i \in 1 .. n : Held[i] = IF i <= array.cursor THEN array.values[i - 1]
                                     ELSE tuck.rest[i - array.cursor]
  BY <1>6, HeldFacts
<1>8. Held' = [i \in 1 .. n + 1 |-> IF i <= array'.cursor THEN array'.values[i - 1]
                                    ELSE tuck.rest[i - array'.cursor]]
  <2>1. array'.cursor + Len(tuck'.rest) = n + 1
    BY <1>3, <1>4, <1>5, <1>6
  <2> QED BY <1>3, <2>1 DEF Held
<1>9. ASSUME NEW i \in 1 .. n + 1
      PROVE  (IF i <= array'.cursor THEN array'.values[i - 1]
              ELSE tuck.rest[i - array'.cursor])
               = (IF i <= n - Len(tuck.rest) THEN Held[i]
                  ELSE IF i = n - Len(tuck.rest) + 1 THEN tuck.target ELSE Held[i - 1])
  <2>0. n - Len(tuck.rest) = array.cursor
    BY <1>4, <1>6
  <2>1. CASE i <= array.cursor
    <3>1. i \in 1 .. n /\ i - 1 \in 0 .. array.cursor /\ i - 1 # array.cursor
      BY <1>4, <1>6, <2>1
    <3>2. array'.values[i - 1] = array.values[i - 1] /\ i <= array'.cursor
      BY <1>4, <1>5, <2>1, <3>1
    <3>3. Held[i] = array.values[i - 1]
      BY <1>7, <2>1, <3>1
    <3> QED BY <2>0, <2>1, <3>2, <3>3
  <2>2. CASE i = array.cursor + 1
    <3>1. i <= array'.cursor /\ i - 1 = array.cursor /\ ~ (i <= array.cursor)
      BY <1>4, <1>5, <2>2
    <3>2. array'.values[array.cursor] = tuck.target
      BY <1>4, <1>5
    <3> QED BY <2>0, <2>2, <3>1, <3>2
  <2>3. CASE i > array.cursor + 1
    <3>1. i - 1 \in 1 .. n /\ i - array'.cursor = (i - 1) - array.cursor
      BY <1>4, <1>5, <1>6, <2>3
    <3>2. Held[i - 1] = tuck.rest[(i - 1) - array.cursor]
      BY <1>4, <1>7, <2>3, <3>1
    <3> QED BY <1>4, <1>5, <2>0, <2>3, <3>1, <3>2, SMTT(40)
  <2> QED BY <1>4, <2>1, <2>2, <2>3
<1>10. Held' = [j \in 1 .. Len(Held) + 1 |->
                 IF j <= Len(Held) - Len(tuck.rest) THEN Held[j]
                 ELSE IF j = Len(Held) - Len(tuck.rest) + 1 THEN tuck.target
                 ELSE Held[j - 1]]
  BY <1>7, <1>8, <1>9
<1> QED BY <1>1, <1>10 DEF Growable!Tuck

LEMMA StackInitMaps == StackInit => Growable!Init
<1> SUFFICES ASSUME StackInit PROVE Growable!Init
  OBVIOUS
<1>1. StackInv /\ Idle /\ array.cursor = 0 /\ array_reply = <<>>
  <2>1. StackInv
    BY StackInitInv
  <2>2. array.cursor = 0
    BY MadeIsArray DEF StackInit
  <2> QED BY <2>1, <2>2 DEF StackInit, NoTuck, Idle
<1>2. Held \in Seq(Values \cup {NULL}) /\ Len(Held) = 0
  BY <1>1, HeldIdle
<1> QED BY <1>1, <1>2, EmptySeq DEF Growable!Init

LEMMA StackStepMaps ==
    StackInv /\ [StackNext]_stack_vars => [Growable!Next]_(Growable!vars)
<1> SUFFICES ASSUME StackInv, [StackNext]_stack_vars
             PROVE  [Growable!Next]_(Growable!vars)
  OBVIOUS
<1>0. IsArray(array) /\ array.cursor \in Nat /\ SizeBound \in Nat
  BY StackAssumption DEF StackInv, IsArray
<1>1. ASSUME NEW n \in 0 .. SizeBound, ArrayResize(n) PROVE Growable!Reserve
  <2>1. /\ Idle /\ UNCHANGED tuck /\ array' = array_resize(array, n)
        /\ n >= array.size /\ array_reply' = <<>>
    BY <1>1 DEF ArrayResize, Replies
  <2>2. /\ array'.cursor = array.cursor
        /\ \A i \in 0 .. array.cursor - 1 : array'.values[i] = array.values[i]
    BY <1>0, <2>1, ResizedIsArray
  <2>3. Held' = [i \in 1 .. array.cursor |-> array'.values[i - 1]]
    BY <1>0, <2>1, <2>2, HeldAfterCall
  <2>4. Held = [i \in 1 .. array.cursor |-> array.values[i - 1]]
    BY <2>1, HeldIdle
  <2>5. \A i \in 1 .. array.cursor : array'.values[i - 1] = array.values[i - 1]
    BY <1>0, <2>2
  <2>6. Held' = Held
    BY <2>3, <2>4, <2>5
  <2> QED BY <2>1, <2>6 DEF Growable!Reserve
<1>2. ASSUME NEW v \in Values, ArrayPush(v)
      PROVE  \E i \in 0 .. SizeBound : Growable!Set(i, v)
  <2>1. /\ Idle /\ UNCHANGED tuck /\ array' = array_push(array, v)
        /\ array'.size <= SizeBound /\ array_reply' = <<>>
    BY <1>2 DEF ArrayPush, Replies
  <2>2. /\ IsArray(array') /\ array'.cursor = array.cursor + 1
        /\ \A j \in 0 .. array.cursor :
             array'.values[j] = IF j = array.cursor THEN v ELSE array.values[j]
    BY <1>0, <2>1, PushedIsArray
  <2>3. HasSet(array, array.cursor, v, array')
    BY <1>0, <2>2 DEF HasSet
  <2>4. array.cursor \in 0 .. SizeBound
    BY <1>0, <2>1, HeldIdle
  <2>5. Held' = Growable!With(array.cursor, v)
    BY <1>0, <2>1, <2>3, StoredMaps
  <2> QED BY <2>1, <2>4, <2>5 DEF Growable!Set
<1>3. CASE ArrayPop
  <2>1. /\ Idle /\ UNCHANGED tuck /\ array' = array_pop(array) /\ array.cursor > 0
        /\ array_reply' = <<array.cursor - 1, array.values[array.cursor - 1]>>
    BY <1>3 DEF ArrayPop, Replies
  <2>2. /\ array'.cursor = array.cursor - 1
        /\ \A i \in 0 .. array.cursor - 2 : array'.values[i] = array.values[i]
    BY <1>0, <2>1, PoppedIsArray
  <2>3. /\ Len(Held) = array.cursor /\ Held \in Seq(Values \cup {NULL})
        /\ Held = [i \in 1 .. array.cursor |-> array.values[i - 1]]
    BY <2>1, HeldIdle
  <2>4. Held' = [i \in 1 .. array.cursor - 1 |-> array'.values[i - 1]]
    <3>1. array'.cursor \in Nat
      BY <1>0, <2>1, <2>2
    <3> QED BY <2>1, <2>2, <3>1, HeldAfterCall
  <2>5. \A i \in 1 .. array.cursor - 1 : array'.values[i - 1] = Held[i]
    <3> SUFFICES ASSUME NEW i \in 1 .. array.cursor - 1
                 PROVE  array'.values[i - 1] = Held[i]
      OBVIOUS
    <3>1. i - 1 \in 0 .. array.cursor - 2 /\ i \in 1 .. array.cursor
      BY <1>0
    <3> QED BY <2>2, <2>3, <3>1
  <2>6. Held' = [i \in 1 .. Len(Held) - 1 |-> Held[i]]
    BY <2>3, <2>4, <2>5
  <2>7. Held # <<>>
    <3>1. Held \in Seq(Values \cup {NULL}) /\ Len(Held) # 0
      BY <1>0, <2>1, HeldIdle
    <3> QED BY <3>1, EmptySeq
  <2>8. Growable!At(Len(Held) - 1) = array.values[array.cursor - 1]
    <3>1. Held[array.cursor] = array.values[array.cursor - 1]
      BY <1>0, <2>1, <2>3
    <3>2. (array.cursor - 1) + 1 = array.cursor /\ array.cursor - 1 < array.cursor
      BY <1>0
    <3> QED BY <2>3, <3>1, <3>2 DEF Growable!At
  <2> QED BY <2>1, <2>3, <2>6, <2>7, <2>8 DEF Growable!Pop, Growable!Next
<1>4. ASSUME NEW i \in 0 .. SizeBound, NEW v \in Values, ArraySet(i, v)
      PROVE  Growable!Set(i, v)
  <2>1. /\ Idle /\ UNCHANGED tuck /\ array' = array_set(array, i, v)
        /\ array_reply' = <<>>
    BY <1>4 DEF ArraySet, Replies
  <2>2. i \in Nat
    BY <1>0
  <2>3. HasSet(array, i, v, array')
    BY <1>0, <2>1, <2>2, SetIsArray
  <2>4. Held' = Growable!With(i, v)
    BY <2>1, <2>2, <2>3, StoredMaps
  <2> QED BY <2>1, <2>4 DEF Growable!Set
<1>5. ASSUME NEW n \in 0 .. SizeBound, ArrayGet(n) \/ ArrayPick(n)
      PROVE  \E i \in 0 .. SizeBound : Growable!Ask(i)
  <2>1. PICK i \in 0 .. SizeBound :
          /\ Idle /\ UNCHANGED tuck /\ array' = array
          /\ array_reply' = <<i, array_get(array, i)>>
    <3>1. CASE ArrayGet(n)
      BY <3>1 DEF ArrayGet, Replies
    <3>2. CASE ArrayPick(n)
      <4>1. Idle /\ n < array.cursor
        BY <3>2 DEF ArrayPick
      <4>2. array.cursor - 1 - n \in 0 .. SizeBound
        BY <1>0, <4>1, HeldIdle
      <4> QED BY <3>2, <4>2 DEF ArrayPick, Replies
    <3> QED BY <1>5, <3>1, <3>2
  <2>2. array_get(array, i) = Growable!At(i)
    BY <1>0, <2>1, AskMaps
  <2>3. UNCHANGED Held
    BY <2>1 DEF Held
  <2> QED BY <2>1, <2>2, <2>3 DEF Growable!Ask
<1>6. CASE ArrayPurge
  <2>1. /\ Idle /\ UNCHANGED tuck /\ array_reply' = <<>>
        /\ array' = [array EXCEPT !.cursor = 0, !.values = [i \in DOMAIN @ |-> NULL]]
    BY <1>6 DEF ArrayPurge, Replies
  <2>2. array'.cursor = 0 /\ 0 \in Nat
    BY <1>0, <2>1 DEF IsArray
  <2>3. Held' = [i \in 1 .. 0 |-> array'.values[i - 1]]
    BY <2>1, <2>2, HeldAfterCall
  <2>4. Held' = <<>>
    <3>1. Held' \in [1 .. 0 -> {}]
      BY <2>3
    <3> QED BY <3>1, NoElements
  <2> QED BY <2>1, <2>4 DEF Growable!Purge, Growable!Next
<1>7. ASSUME NEW n \in 0 .. SizeBound, NEW v \in Values, TuckCall(v, n)
      PROVE  UNCHANGED <<Held, array_reply>>
  <2>1. Idle /\ array' = array /\ array_reply' = array_reply /\ tuck'.rest = <<>>
    BY <1>7 DEF TuckCall
  <2>2. tuck'.rest = tuck.rest
    BY <2>1, IdleFacts
  <2>3. Held' = Held
    BY <2>1, <2>2 DEF Held
  <2> QED BY <2>1, <2>3
<1>8. CASE TuckPop
  BY <1>8, TuckPopMaps DEF TuckPop, Growable!vars
<1>9. CASE TuckTarget
  <2>1. tuck.target \in Values /\ Len(tuck.rest) \in 0 .. Len(Held)
    <3>1. tuck.target \in Values
      BY <1>9 DEF TuckTarget, StackInv, TuckOK
    <3> QED BY <1>0, <3>1, HeldFacts
  <2> QED BY <1>9, <2>1, TuckTargetMaps DEF Growable!Next
<1>10. CASE TuckPush
  BY <1>10, TuckPushMaps DEF TuckPush, Growable!vars
<1>11. CASE TuckReturn
  <2>1. array' = array /\ array_reply' = array_reply /\ tuck'.rest = tuck.rest
    BY <1>11 DEF TuckReturn, NoTuck
  <2> QED BY <2>1 DEF Held, Growable!vars
<1>12. CASE UNCHANGED stack_vars
  BY <1>12 DEF stack_vars, Held, Growable!vars
<1> QED BY <1>1, <1>2, <1>3, <1>4, <1>5, <1>6, <1>7, <1>8, <1>9, <1>10, <1>11, <1>12
        DEF StackNext, Growable!Next, Growable!vars

(* An array is a sequence that answers NULL beyond its end, and stack_tuck_n *)
(* puts one value under the topmost n, wherever the block is reallocated.    *)
THEOREM StackIsGrowable == StackSpec => ArrayIsGrowable
BY StackInitMaps, StackStepMaps, StackInvariant, PTL
   DEF StackSpec, ArrayIsGrowable, Growable!Spec

-----------------------------------------------------------------------------
(* The list.  Each function is shown to turn the links of a sequence of nodes
   into the links of the sequence it should leave; chain, the nodes a loop
   comes to, is then that sequence. *)

Nodes ==
    [prev : Addresses \cup {NULL}, next : Addresses \cup {NULL}, value : Values]

\* The nodes at the addresses D
NodesAt(D) == [D -> Nodes]

At(s, k) == IF k \in 1 .. Len(s) THEN s[k] ELSE NULL

\* The struct links the nodes of s, in that order and each once, in both
\* directions, and its cursor is one of them or NULL.
Links(self, s) ==
    /\ s \in Seq(Addresses)
    /\ \A j, k \in 1 .. Len(s) : s[j] = s[k] => j = k
    /\ DOMAIN self = {"node", "first", "last", "cursor", "length"}
    /\ self.node \in [{s[k] : k \in 1 .. Len(s)} -> Nodes]
    /\ \A k \in 1 .. Len(s) :
         self.node[s[k]].prev = At(s, k - 1) /\ self.node[s[k]].next = At(s, k + 1)
    /\ self.first = At(s, 1) /\ self.last = At(s, Len(s)) /\ self.length = Len(s)
    /\ self.cursor = NULL \/ \E k \in 1 .. Len(s) : self.cursor = s[k]

-----------------------------------------------------------------------------
(* What loops over a list come to *)

LEMMA LinkFacts ==
    ASSUME NEW self, NEW s, Links(self, s)
    PROVE  /\ s \in Seq(Addresses) /\ Len(s) \in Nat /\ DOMAIN s = 1 .. Len(s)
           /\ \A k \in 1 .. Len(s) :
                /\ s[k] \in Addresses /\ s[k] # NULL /\ s[k] \in DOMAIN self.node
                /\ self.node[s[k]] \in Nodes
           /\ \A j, k \in 1 .. Len(s) : s[j] = s[k] => j = k
           /\ DOMAIN self.node = {s[k] : k \in 1 .. Len(s)}
           /\ NULL \notin DOMAIN self.node
<1>1. /\ s \in Seq(Addresses) /\ Len(s) \in Nat /\ DOMAIN s = 1 .. Len(s)
      /\ self.node \in [{s[k] : k \in 1 .. Len(s)} -> Nodes]
      /\ \A j, k \in 1 .. Len(s) : s[j] = s[k] => j = k
  BY LenProperties DEF Links
<1>2. \A k \in 1 .. Len(s) : s[k] \in Addresses
  BY <1>1, ElementOfSeq
<1> QED BY <1>1, <1>2, ListAssumption

\* There are as many nodes as the sequence is long.
LEMMA LinkCount ==
    ASSUME NEW self, NEW s, Links(self, s)
    PROVE  Cardinality(DOMAIN self.node) = Len(s)
<1> DEFINE D == DOMAIN self.node
           f == [k \in 1 .. Len(s) |-> s[k]]
<1>1. IsFiniteSet(1 .. Len(s)) /\ Cardinality(1 .. Len(s)) = Len(s) /\ Len(s) \in Nat
  <2>1. Len(s) \in Nat
    BY LinkFacts
  <2>2. PICK n \in Nat : n = Len(s)
    BY <2>1
  <2>3. IsFiniteSet(1 .. n) /\ Cardinality(1 .. n) = IF 1 > n THEN 0 ELSE n - 1 + 1
    <3>1. 1 \in Int /\ n \in Int
      OBVIOUS
    <3> QED BY <3>1, FS_Interval
  <2>4. Cardinality(1 .. n) = n
    BY <2>2, <2>3
  <2> QED BY <2>1, <2>2, <2>3, <2>4
<1>2. f \in Bijection(1 .. Len(s), D)
  <2>1. f \in [1 .. Len(s) -> D]
    BY LinkFacts
  <2>2. \A j, k \in 1 .. Len(s) : f[j] = f[k] => j = k
    BY LinkFacts
  <2>3. \A a \in D : \E k \in 1 .. Len(s) : f[k] = a
    BY LinkFacts
  <2> QED BY <2>1, <2>2, <2>3 DEF Bijection, Injection, Surjection, IsInjective
<1>3. Cardinality(D) = Cardinality(1 .. Len(s))
  BY <1>1, <1>2, FS_Bijection DEF ExistsBijection
<1> QED BY <1>1, <1>3

\* A loop from first along next comes to the nodes in their order.
LEMMA ChainIs ==
    ASSUME NEW self, NEW s, Links(self, s)
    PROVE  chain(self) = s
<1> DEFINE size == Cardinality(DOMAIN self.node)
           Step(nodes) ==
             LET next == IF nodes = <<>> THEN self.first
                         ELSE self.node[nodes[Len(nodes)]].next
             IN IF next \in DOMAIN self.node THEN Append(nodes, next) ELSE nodes
           Loops(u) == u = [i \in 0 .. size |-> IF i = 0 THEN <<>> ELSE Step(u[i - 1])]
           G == [i \in 0 .. size |-> SubSeq(s, 1, i)]
<1>1. size = Len(s) /\ size \in Nat /\ s \in Seq(Addresses)
  BY LinkFacts, LinkCount
<1>2. ASSUME NEW i \in 0 .. Len(s)
      PROVE  /\ SubSeq(s, 1, i) \in Seq(Addresses) /\ Len(SubSeq(s, 1, i)) = i
             /\ \A k \in 1 .. i : SubSeq(s, 1, i)[k] = s[k]
  <2>1. /\ SubSeq(s, 1, i) \in Seq(Addresses)
        /\ Len(SubSeq(s, 1, i)) = IF 1 <= i THEN i - 1 + 1 ELSE 0
        /\ \A k \in 1 .. i - 1 + 1 : SubSeq(s, 1, i)[k] = s[1 + k - 1]
    <3>1. \A k \in 1 .. i : s[k] \in Addresses
      BY <1>1, LinkFacts
    <3> QED BY <1>1, <3>1, SubSeqProperties
  <2> QED BY <1>1, <2>1
<1>3. ASSUME NEW i \in 0 .. Len(s), i < Len(s)
      PROVE  Step(SubSeq(s, 1, i)) = SubSeq(s, 1, i + 1)
  <2> DEFINE r == SubSeq(s, 1, i)
  <2>1. (IF r = <<>> THEN self.first ELSE self.node[r[Len(r)]].next) = s[i + 1]
    <3>1. CASE i = 0
      <4>1. r = <<>>
        BY <1>2, <3>1, EmptySeq
      <4>2. self.first = s[1]
        BY <1>1, <1>3, <3>1 DEF Links, At
      <4> QED BY <3>1, <4>1, <4>2
    <3>2. CASE i # 0
      <4>1. r # <<>> /\ r[Len(r)] = s[i] /\ i \in 1 .. Len(s) /\ i + 1 \in 1 .. Len(s)
        BY <1>1, <1>2, <1>3, <3>2, EmptySeq
      <4> QED BY <4>1 DEF Links, At
    <3> QED BY <3>1, <3>2
  <2>2. s[i + 1] \in DOMAIN self.node /\ s[i + 1] \in Addresses /\ i + 1 \in 0 .. Len(s)
    BY <1>1, <1>3, LinkFacts
  <2>3. Step(r) = Append(r, s[i + 1])
    BY <2>1, <2>2
  <2> HIDE DEF r, Step
  <2>4. Append(r, s[i + 1]) = SubSeq(s, 1, i + 1)
    <3>1. /\ Append(r, s[i + 1]) \in Seq(Addresses)
          /\ Len(Append(r, s[i + 1])) = i + 1
          /\ \A k \in 1 .. i : Append(r, s[i + 1])[k] = s[k]
          /\ Append(r, s[i + 1])[i + 1] = s[i + 1]
      BY <1>2, <2>2, AppendProperties DEF r
    <3>2. /\ SubSeq(s, 1, i + 1) \in Seq(Addresses) /\ Len(SubSeq(s, 1, i + 1)) = i + 1
          /\ \A k \in 1 .. i + 1 : SubSeq(s, 1, i + 1)[k] = s[k]
      BY <1>2, <2>2
    <3>3. \A k \in 1 .. i + 1 : Append(r, s[i + 1])[k] = SubSeq(s, 1, i + 1)[k]
      BY <3>1, <3>2
    <3> QED BY <3>1, <3>2, <3>3, SeqEqual
  <2> QED BY <2>3, <2>4 DEF r
<1> HIDE DEF Step
<1>4. SubSeq(s, 1, 0) = <<>>
  BY <1>1, <1>2, EmptySeq
<1>5. Loops(G)
  <2>1. ASSUME NEW i \in 0 .. size, i # 0 PROVE Step(G[i - 1]) = SubSeq(s, 1, i)
    <3>1. i - 1 \in 0 .. Len(s) /\ i - 1 < Len(s) /\ (i - 1) + 1 = i /\ i - 1 \in 0 .. size
      BY <1>1, <2>1
    <3>2. G[i - 1] = SubSeq(s, 1, i - 1)
      BY <3>1
    <3> QED BY <1>3, <3>1, <3>2
  <2>2. \A i \in 0 .. size : SubSeq(s, 1, i) = IF i = 0 THEN <<>> ELSE Step(G[i - 1])
    BY <1>4, <2>1
  <2> HIDE DEF size
  <2> QED BY <2>2
<1>6. PICK u : Loops(u) /\ chain(self) = u[size]
  <2>1. Loops(CHOOSE u : Loops(u))
    <3> HIDE DEF Loops, G
    <3> QED BY <1>5
  <2>2. chain(self) = (CHOOSE u : Loops(u))[size]
    BY DEF chain, Step
  <2> HIDE DEF Loops
  <2> QED BY <2>1, <2>2
<1>7. \A i \in 0 .. size : u[i] = G[i]
  <2>1. u[0] = G[0]
    BY <1>1, <1>5, <1>6
  <2>2. ASSUME NEW i \in 0 .. size, i < size, u[i] = G[i] PROVE u[i + 1] = G[i + 1]
    <3>1. i + 1 \in 0 .. size /\ i + 1 # 0 /\ (i + 1) - 1 = i
      BY <1>1, <2>2
    <3>2. u[i + 1] = Step(u[i]) /\ G[i + 1] = Step(G[i])
      <4>1. u = [j \in 0 .. size |-> IF j = 0 THEN <<>> ELSE Step(u[j - 1])]
        BY <1>6
      <4>2. G = [j \in 0 .. size |-> IF j = 0 THEN <<>> ELSE Step(G[j - 1])]
        BY <1>5
      <4> HIDE DEF G, size
      <4>3. u[i + 1] = Step(u[(i + 1) - 1])
        BY <3>1, <4>1
      <4>4. G[i + 1] = Step(G[(i + 1) - 1])
        BY <3>1, <4>2
      <4> QED BY <3>1, <4>3, <4>4
    <3> QED BY <2>2, <3>2
  <2>3. \A i \in 0 .. size : i < size /\ u[i] = G[i] => u[i + 1] = G[i + 1]
    BY <2>2
  <2>4. size \in Nat
    BY <1>1
  <2> HIDE DEF G, Loops, size
  <2> QED BY <2>1, <2>3, <2>4, RecursionUnique
<1>8. SubSeq(s, 1, Len(s)) = s
  <2>1. Len(s) \in 0 .. Len(s)
    BY <1>1
  <2>2. /\ SubSeq(s, 1, Len(s)) \in Seq(Addresses) /\ Len(SubSeq(s, 1, Len(s))) = Len(s)
        /\ \A k \in 1 .. Len(s) : SubSeq(s, 1, Len(s))[k] = s[k]
    BY <1>2, <2>1
  <2> QED BY <1>1, <2>2, SeqEqual
<1> QED BY <1>1, <1>6, <1>7, <1>8

-----------------------------------------------------------------------------
(* What the functions leave *)

\* s without its i-th element
Drop(s, i) == SubSeq(s, 1, i - 1) \o SubSeq(s, i + 1, Len(s))

LEMMA DropFacts ==
    ASSUME NEW S, NEW s \in Seq(S), NEW i \in 1 .. Len(s)
    PROVE  /\ Drop(s, i) \in Seq(S) /\ Len(Drop(s, i)) = Len(s) - 1
           /\ \A k \in 1 .. Len(s) - 1 :
                Drop(s, i)[k] = IF k < i THEN s[k] ELSE s[k + 1]
<1>1. Len(s) \in Nat /\ \A k \in 1 .. Len(s) : s[k] \in S
  BY LenProperties, ElementOfSeq
<1> DEFINE p == SubSeq(s, 1, i - 1)
           q == SubSeq(s, i + 1, Len(s))
<1>2. p \in Seq(S) /\ Len(p) = i - 1 /\ \A k \in 1 .. i - 1 : p[k] = s[k]
  <2>1. /\ p \in Seq(S) /\ Len(p) = IF 1 <= i - 1 THEN (i - 1) - 1 + 1 ELSE 0
        /\ \A k \in 1 .. (i - 1) - 1 + 1 : p[k] = s[1 + k - 1]
    <3>1. \A k \in 1 .. i - 1 : s[k] \in S
      BY <1>1
    <3> QED BY <1>1, <3>1, SubSeqProperties
  <2> QED BY <1>1, <2>1
<1>3. q \in Seq(S) /\ Len(q) = Len(s) - i /\ \A k \in 1 .. Len(s) - i : q[k] = s[i + k]
  <2>1. /\ q \in Seq(S) /\ Len(q) = IF i + 1 <= Len(s) THEN Len(s) - (i + 1) + 1 ELSE 0
        /\ \A k \in 1 .. Len(s) - (i + 1) + 1 : q[k] = s[(i + 1) + k - 1]
    <3>1. \A k \in i + 1 .. Len(s) : s[k] \in S
      BY <1>1
    <3>2. i + 1 \in Int /\ Len(s) \in Int
      BY <1>1
    <3> QED BY <3>1, <3>2, SubSeqProperties
  <2> QED BY <1>1, <2>1
<1> HIDE DEF p, q
<1>4. /\ p \o q \in Seq(S) /\ Len(p \o q) = Len(p) + Len(q)
      /\ \A k \in 1 .. Len(p) + Len(q) :
           (p \o q)[k] = IF k <= Len(p) THEN p[k] ELSE q[k - Len(p)]
  BY <1>2, <1>3, ConcatProperties
<1>5. ASSUME NEW k \in 1 .. Len(s) - 1
      PROVE  (p \o q)[k] = IF k < i THEN s[k] ELSE s[k + 1]
  <2>1. k \in 1 .. Len(p) + Len(q)
    BY <1>1, <1>2, <1>3
  <2>2. CASE k < i
    BY <1>1, <1>2, <1>4, <2>1, <2>2
  <2>3. CASE ~ (k < i)
    <3>1. k - Len(p) \in 1 .. Len(s) - i /\ i + (k - Len(p)) = k + 1
      BY <1>1, <1>2, <2>3
    <3>2. (p \o q)[k] = q[k - Len(p)]
      BY <1>1, <1>2, <1>4, <2>1, <2>3
    <3> QED BY <1>3, <2>3, <3>1, <3>2
  <2> QED BY <2>2, <2>3
<1>6. Len(p \o q) = Len(s) - 1
  BY <1>1, <1>2, <1>3, <1>4
<1>7. Drop(s, i) = p \o q
  BY DEF Drop, p, q
<1> QED BY <1>4, <1>5, <1>6, <1>7

LEMMA ConsFacts ==
    ASSUME NEW S, NEW s \in Seq(S), NEW a \in S
    PROVE  /\ <<a>> \o s \in Seq(S) /\ Len(<<a>> \o s) = 1 + Len(s) /\ (<<a>> \o s)[1] = a
           /\ \A k \in 1 .. Len(s) : (<<a>> \o s)[k + 1] = s[k]
<1> DEFINE t == <<a>> \o s
<1>1. <<a>> \in Seq(S) /\ Len(<<a>>) = 1 /\ <<a>>[1] = a /\ Len(s) \in Nat
  BY LenProperties
<1>2. /\ t \in Seq(S) /\ Len(t) = Len(<<a>>) + Len(s)
      /\ \A k \in 1 .. Len(<<a>>) + Len(s) :
           t[k] = IF k <= Len(<<a>>) THEN <<a>>[k] ELSE s[k - Len(<<a>>)]
  BY <1>1, ConcatProperties
<1> HIDE DEF t
<1>3. \A k \in 1 .. 1 + Len(s) : t[k] = IF k <= 1 THEN a ELSE s[k - 1]
  BY <1>1, <1>2
<1>4. ASSUME NEW k \in 1 .. Len(s) PROVE t[k + 1] = s[k]
  <2>1. k + 1 \in 1 .. 1 + Len(s) /\ ~ (k + 1 <= 1) /\ (k + 1) - 1 = k
    BY <1>1
  <2> QED BY <1>3, <2>1
<1>5. t[1] = a /\ Len(t) = 1 + Len(s)
  BY <1>1, <1>2, <1>3
<1> QED BY <1>2, <1>4, <1>5 DEF t

\* A link that is set, in the node if there is one.
LEMMA LinkedPrev ==
    ASSUME NEW D, NULL \notin D, NEW node \in NodesAt(D), NEW a \in D \cup {NULL},
           NEW b \in Addresses \cup {NULL}
    PROVE  /\ linked(node, a, "prev", b) \in NodesAt(D)
           /\ \A c \in D :
                /\ linked(node, a, "prev", b)[c].prev = IF c = a THEN b ELSE node[c].prev
                /\ linked(node, a, "prev", b)[c].next = node[c].next
                /\ linked(node, a, "prev", b)[c].value = node[c].value
<1> DEFINE new == linked(node, a, "prev", b)
<1>0. node \in [D -> Nodes]
  BY DEF NodesAt
<1>1. CASE a = NULL
  BY <1>1 DEF linked
<1>2. CASE a # NULL
  <2>1. a \in D /\ new = [node EXCEPT ![a]["prev"] = b]
    BY <1>2 DEF linked
  <2>2. node[a] \in Nodes
    BY <1>0, <2>1
  <2>3. /\ [node[a] EXCEPT !["prev"] = b] \in Nodes
        /\ [node[a] EXCEPT !["prev"] = b].prev = b
        /\ [node[a] EXCEPT !["prev"] = b].next = node[a].next
        /\ [node[a] EXCEPT !["prev"] = b].value = node[a].value
    BY <2>2 DEF Nodes
  <2>4. new[a] = [node[a] EXCEPT !["prev"] = b] /\ \A c \in D : c # a => new[c] = node[c]
    BY <1>0, <2>1
  <2>5. new \in [D -> Nodes]
    BY <1>0, <2>1, <2>3
  <2> QED BY <2>3, <2>4, <2>5 DEF NodesAt
<1> QED BY <1>1, <1>2

LEMMA LinkedNext ==
    ASSUME NEW D, NULL \notin D, NEW node \in NodesAt(D), NEW a \in D \cup {NULL},
           NEW b \in Addresses \cup {NULL}
    PROVE  /\ linked(node, a, "next", b) \in NodesAt(D)
           /\ \A c \in D :
                /\ linked(node, a, "next", b)[c].next = IF c = a THEN b ELSE node[c].next
                /\ linked(node, a, "next", b)[c].prev = node[c].prev
                /\ linked(node, a, "next", b)[c].value = node[c].value
<1> DEFINE new == linked(node, a, "next", b)
<1>0. node \in [D -> Nodes]
  BY DEF NodesAt
<1>1. CASE a = NULL
  BY <1>1 DEF linked
<1>2. CASE a # NULL
  <2>1. a \in D /\ new = [node EXCEPT ![a]["next"] = b]
    BY <1>2 DEF linked
  <2>2. node[a] \in Nodes
    BY <1>0, <2>1
  <2>3. /\ [node[a] EXCEPT !["next"] = b] \in Nodes
        /\ [node[a] EXCEPT !["next"] = b].next = b
        /\ [node[a] EXCEPT !["next"] = b].prev = node[a].prev
        /\ [node[a] EXCEPT !["next"] = b].value = node[a].value
    BY <2>2 DEF Nodes
  <2>4. new[a] = [node[a] EXCEPT !["next"] = b] /\ \A c \in D : c # a => new[c] = node[c]
    BY <1>0, <2>1
  <2>5. new \in [D -> Nodes]
    BY <1>0, <2>1, <2>3
  <2> QED BY <2>3, <2>4, <2>5 DEF NodesAt
<1> QED BY <1>1, <1>2

\* What is linked where, of a sequence that is linked.
LEMMA AtFacts ==
    ASSUME NEW self, NEW s, Links(self, s), NEW k \in Int
    PROVE  /\ At(s, k) \in DOMAIN self.node \cup {NULL}
           /\ At(s, k) \in Addresses \cup {NULL}
           /\ k \in 1 .. Len(s) => At(s, k) = s[k]
           /\ k \notin 1 .. Len(s) => At(s, k) = NULL
BY LinkFacts DEF At

LEMMA RemoveLinks ==
    ASSUME NEW self, NEW s, Links(self, s), NEW i \in 1 .. Len(s)
    PROVE  /\ Links(list_remove(self, s[i]), Drop(s, i))
           /\ list_remove(self, s[i]).cursor
                = IF self.cursor = s[i] THEN NULL ELSE self.cursor
           /\ \A a \in DOMAIN self.node \ {s[i]} :
                list_remove(self, s[i]).node[a].value = self.node[a].value
<1> DEFINE a == s[i]
           n == self.node[a]
           t == Drop(s, i)
           D == DOMAIN self.node
           N1 == linked(self.node, n.next, "prev", n.prev)
           N2 == linked(N1, n.prev, "next", n.next)
           R == list_remove(self, a)
<1>1. /\ Len(s) \in Nat /\ s \in Seq(Addresses) /\ a \in D /\ NULL \notin D
      /\ self.node \in NodesAt(D)
      /\ D = {s[k] : k \in 1 .. Len(s)}
      /\ \A j, k \in 1 .. Len(s) : s[j] = s[k] => j = k
      /\ \A k \in 1 .. Len(s) : s[k] \in D /\ s[k] \in Addresses
  BY LinkFacts DEF Links, NodesAt
<1>2. n.prev = At(s, i - 1) /\ n.next = At(s, i + 1)
  BY DEF Links
<1>3. /\ n.prev \in D \cup {NULL} /\ n.prev \in Addresses \cup {NULL}
      /\ n.next \in D \cup {NULL} /\ n.next \in Addresses \cup {NULL}
  <2>1. i - 1 \in Int /\ i + 1 \in Int
    OBVIOUS
  <2> QED BY <1>2, <2>1, AtFacts
<1>4. /\ N1 \in NodesAt(D)
      /\ \A c \in D : /\ N1[c].prev = IF c = n.next THEN n.prev ELSE self.node[c].prev
                      /\ N1[c].next = self.node[c].next
                      /\ N1[c].value = self.node[c].value
  <2> HIDE DEF n, N2, R, t, a, D
  <2>1. NULL \notin D /\ self.node \in NodesAt(D)
    BY <1>1
  <2>2. n.next \in D \cup {NULL} /\ n.prev \in Addresses \cup {NULL}
    BY <1>3
  <2> QED BY <2>1, <2>2, LinkedPrev
<1>5. /\ N2 \in NodesAt(D)
      /\ \A c \in D : /\ N2[c].next = IF c = n.prev THEN n.next ELSE N1[c].next
                      /\ N2[c].prev = N1[c].prev
                      /\ N2[c].value = N1[c].value
  <2> HIDE DEF n, N1, R, t, a, D
  <2>1. NULL \notin D /\ N1 \in NodesAt(D)
    BY <1>1, <1>4
  <2>2. n.prev \in D \cup {NULL} /\ n.next \in Addresses \cup {NULL}
    BY <1>3
  <2> QED BY <2>1, <2>2, LinkedNext
<1>6. /\ DOMAIN R = {"node", "first", "last", "cursor", "length"}
      /\ R.node = [c \in D \ {a} |-> N2[c]]
      /\ R.cursor = IF self.cursor = a THEN NULL ELSE self.cursor
      /\ R.first = IF self.first = a THEN n.next ELSE self.first
      /\ R.last = IF self.last = a THEN n.prev ELSE self.last
      /\ R.length = self.length - 1
  <2>1. DOMAIN self = {"node", "first", "last", "cursor", "length"}
    BY DEF Links
  <2>2. DOMAIN N2 = D
    <3> HIDE DEF N2, D
    <3> QED BY <1>5 DEF NodesAt
  <2>3. R = [self EXCEPT !.node = without_node(N2, a),
                         !.cursor = IF @ = a THEN NULL ELSE @,
                         !.first = IF @ = a THEN n.next ELSE @,
                         !.last = IF @ = a THEN n.prev ELSE @,
                         !.length = @ - 1]
    BY DEF list_remove
  <2>4. without_node(N2, a) = [c \in D \ {a} |-> N2[c]]
    <3> HIDE DEF N2, D, a
    <3> QED BY <2>2 DEF without_node
  <2> HIDE DEF N1, N2, R, n, a, D
  <2> QED BY <2>1, <2>3, <2>4
<1>7. /\ t \in Seq(Addresses) /\ Len(t) = Len(s) - 1
      /\ \A k \in 1 .. Len(s) - 1 : t[k] = IF k < i THEN s[k] ELSE s[k + 1]
  BY <1>1, DropFacts, SMTT(40)
<1>8. \A c \in D \ {a} : R.node[c] = N2[c]
  BY <1>6
<1> HIDE DEF t, N1, N2, R, D
<1>9. \A j, k \in 1 .. Len(t) : t[j] = t[k] => j = k
  <2>1. ASSUME NEW j \in 1 .. Len(t), NEW k \in 1 .. Len(t), t[j] = t[k] PROVE j = k
    <3> DEFINE x == IF j < i THEN j ELSE j + 1
               y == IF k < i THEN k ELSE k + 1
    <3>1. t[j] = s[x] /\ t[k] = s[y] /\ x \in 1 .. Len(s) /\ y \in 1 .. Len(s)
      BY <1>1, <1>7, SMTT(40)
    <3>2. x = y
      BY <1>1, <2>1, <3>1
    <3> QED BY <1>1, <1>7, <3>2
  <2> QED BY <2>1
<1>10. {t[k] : k \in 1 .. Len(t)} = D \ {a}
  <2>1. ASSUME NEW k \in 1 .. Len(t) PROVE t[k] \in D \ {a}
    <3> DEFINE x == IF k < i THEN k ELSE k + 1
    <3>1. t[k] = s[x] /\ x \in 1 .. Len(s) /\ x # i
      BY <1>1, <1>7
    <3> QED BY <1>1, <3>1
  <2>2. ASSUME NEW c \in D \ {a} PROVE \E k \in 1 .. Len(t) : c = t[k]
    <3>1. PICK j \in 1 .. Len(s) : c = s[j]
      BY <1>1
    <3>2. j # i
      BY <3>1
    <3>3. CASE j < i
      <4>1. j \in 1 .. Len(s) - 1
        BY <1>1, <3>3
      <4>2. t[j] = s[j]
        BY <1>7, <3>3, <4>1
      <4> QED BY <1>7, <3>1, <4>1, <4>2
    <3>4. CASE ~ (j < i)
      <4>1. j - 1 \in 1 .. Len(s) - 1 /\ ~ (j - 1 < i) /\ (j - 1) + 1 = j
        BY <1>1, <3>2, <3>4
      <4>2. t[j - 1] = s[(j - 1) + 1]
        BY <1>7, <4>1
      <4> QED BY <1>7, <3>1, <4>1, <4>2
    <3> QED BY <3>3, <3>4
  <2> QED BY <2>1, <2>2
<1>11. R.node \in [{t[k] : k \in 1 .. Len(t)} -> Nodes]
  BY <1>5, <1>6, <1>10 DEF NodesAt
<1>12. ASSUME NEW k \in Int
       PROVE  At(t, k) = IF k < i THEN At(s, k) ELSE At(s, k + 1)
  <2>1. CASE k < i
    <3>1. k \in 1 .. Len(t) <=> k \in 1 .. Len(s)
      BY <1>1, <1>7, <2>1, SMTT(40)
    <3> QED BY <1>7, <2>1, <3>1 DEF At
  <2>2. CASE ~ (k < i)
    <3>1. k \in 1 .. Len(t) <=> k + 1 \in 1 .. Len(s)
      BY <1>1, <1>7, <2>2
    <3> QED BY <1>7, <2>2, <3>1 DEF At
  <2> QED BY <2>1, <2>2
<1>13. ASSUME NEW k \in 1 .. Len(t)
       PROVE  R.node[t[k]].prev = At(t, k - 1) /\ R.node[t[k]].next = At(t, k + 1)
  <2> DEFINE x == IF k < i THEN k ELSE k + 1
  <2>1. t[k] = s[x] /\ x \in 1 .. Len(s) /\ x # i
    BY <1>1, <1>7
  <2>2. t[k] \in D \ {a}
    BY <1>10
  <2>3. self.node[s[x]].prev = At(s, x - 1) /\ self.node[s[x]].next = At(s, x + 1)
    BY <2>1 DEF Links
  <2>4. s[x] = n.next <=> x = i + 1
    BY <1>1, <1>2, <2>1 DEF At
  <2>5. s[x] = n.prev <=> x = i - 1
    BY <1>1, <1>2, <2>1 DEF At
  <2>6. /\ R.node[t[k]].prev = IF x = i + 1 THEN At(s, i - 1) ELSE At(s, x - 1)
        /\ R.node[t[k]].next = IF x = i - 1 THEN At(s, i + 1) ELSE At(s, x + 1)
    <3>1. N2[t[k]].prev = IF t[k] = n.next THEN n.prev ELSE self.node[t[k]].prev
      BY <1>4, <1>5, <2>2
    <3>2. N2[t[k]].next = IF t[k] = n.prev THEN n.next ELSE self.node[t[k]].next
      BY <1>4, <1>5, <2>2
    <3> HIDE DEF n, x
    <3> QED BY <1>2, <1>8, <2>1, <2>2, <2>3, <2>4, <2>5, <3>1, <3>2
  <2>7. /\ At(t, k - 1) = IF k - 1 < i THEN At(s, k - 1) ELSE At(s, k)
        /\ At(t, k + 1) = IF k + 1 < i THEN At(s, k + 1) ELSE At(s, k + 2)
    <3>1. (k - 1) + 1 = k /\ (k + 1) + 1 = k + 2 /\ k - 1 \in Int /\ k + 1 \in Int
      OBVIOUS
    <3> QED BY <1>12, <3>1
  <2>8. CASE k < i
    <3>1. x = k
      BY <2>8
    <3>2. k - 1 < i /\ k # i + 1
      BY <2>8
    <3>3. CASE k = i - 1
      <4>1. i + 1 = k + 2 /\ ~ (k + 1 < i)
        BY <3>3
      <4> QED BY <2>6, <2>7, <3>1, <3>2, <3>3, <4>1
    <3>4. CASE k # i - 1
      <4>1. k + 1 < i
        BY <2>8, <3>4
      <4> QED BY <2>6, <2>7, <3>1, <3>2, <3>4, <4>1
    <3> QED BY <3>3, <3>4
  <2>9. CASE ~ (k < i)
    <3>1. x = k + 1 /\ x # i - 1 /\ x - 1 = k /\ x + 1 = k + 2 /\ ~ (k + 1 < i)
      BY <2>9
    <3>2. R.node[t[k]].next = At(t, k + 1)
      BY <2>6, <2>7, <3>1
    <3>3. CASE k = i
      <4>1. k - 1 < i /\ x = i + 1 /\ k - 1 = i - 1
        BY <3>1, <3>3
      <4> QED BY <2>6, <2>7, <3>2, <4>1
    <3>4. CASE k # i
      <4>1. ~ (k - 1 < i) /\ x # i + 1
        BY <2>9, <3>1, <3>4
      <4> QED BY <2>6, <2>7, <3>1, <3>2, <4>1
    <3> QED BY <3>3, <3>4
  <2> QED BY <2>8, <2>9
<1>14. R.first = At(t, 1) /\ R.last = At(t, Len(t)) /\ R.length = Len(t)
  <2>1. self.first = At(s, 1) /\ self.last = At(s, Len(s)) /\ self.length = Len(s)
    BY DEF Links
  <2>2. R.length = Len(t)
    BY <1>6, <1>7, <2>1
  <2>3. self.first = a <=> i = 1
    BY <1>1, <2>1 DEF At
  <2>4. self.last = a <=> i = Len(s)
    BY <1>1, <2>1 DEF At
  <2>5. At(t, 1) = IF 1 < i THEN At(s, 1) ELSE At(s, 2)
    BY <1>12
  <2>6. At(t, Len(t)) = IF Len(s) - 1 < i THEN At(s, Len(s) - 1) ELSE At(s, Len(s))
    <3>1. Len(t) \in Int /\ Len(t) = Len(s) - 1 /\ Len(t) + 1 = Len(s)
      BY <1>1, <1>7
    <3> QED BY <1>12, <3>1
  <2>7. R.first = At(t, 1)
    <3>1. R.first = IF i = 1 THEN At(s, i + 1) ELSE At(s, 1)
      BY <1>2, <1>6, <2>1, <2>3
    <3>2. CASE i = 1
      <4>1. i + 1 = 2 /\ ~ (1 < i)
        BY <3>2
      <4> QED BY <2>5, <3>1, <3>2, <4>1
    <3>3. CASE i # 1
      <4>1. 1 < i
        BY <3>3
      <4> QED BY <2>5, <3>1, <3>3, <4>1
    <3> QED BY <3>2, <3>3
  <2>8. R.last = At(t, Len(t))
    <3>1. R.last = IF i = Len(s) THEN At(s, i - 1) ELSE At(s, Len(s))
      BY <1>2, <1>6, <2>1, <2>4
    <3>2. CASE i = Len(s)
      <4>1. Len(s) - 1 < i /\ i - 1 = Len(s) - 1
        BY <3>2, <1>1
      <4> QED BY <2>6, <3>1, <3>2, <4>1
    <3>3. CASE i # Len(s)
      <4>1. ~ (Len(s) - 1 < i)
        BY <3>3, <1>1
      <4> QED BY <2>6, <3>1, <3>3, <4>1
    <3> QED BY <3>2, <3>3
  <2> QED BY <2>2, <2>7, <2>8
<1>15. R.cursor = NULL \/ \E k \in 1 .. Len(t) : R.cursor = t[k]
  <2>1. self.cursor = NULL \/ self.cursor \in D
    BY <1>1 DEF Links
  <2>2. R.cursor = NULL \/ R.cursor \in D \ {a}
    BY <1>6, <2>1
  <2> QED BY <1>10, <2>2
<1>16. Links(R, t)
  BY <1>6, <1>7, <1>9, <1>11, <1>13, <1>14, <1>15 DEF Links
<1>17. \A c \in D \ {a} : R.node[c].value = self.node[c].value
  BY <1>4, <1>5, <1>8
<1> QED BY <1>6, <1>16, <1>17 DEF R, t, D

\* list_pop and list_shift take out the node at their end as list_remove would.
LEMMA PopRemoves ==
    ASSUME NEW self, NEW s, Links(self, s), Len(s) > 0
    PROVE  list_pop(self) = list_remove(self, s[Len(s)])
<1> DEFINE a == s[Len(s)]
           p == self.node[a].prev
<1>1. /\ Len(s) \in 1 .. Len(s) /\ a \in DOMAIN self.node /\ NULL \notin DOMAIN self.node
      /\ DOMAIN self = {"node", "first", "last", "cursor", "length"}
  <2>1. Len(s) \in 1 .. Len(s)
    BY LinkFacts
  <2> QED BY <2>1, LinkFacts DEF Links
<1>2. self.last = a /\ self.node[a].next = NULL /\ p = At(s, Len(s) - 1)
  BY <1>1, AtFacts DEF Links, At
<1>3. p # a /\ (p = NULL \/ p \in DOMAIN self.node)
  <2>1. Len(s) - 1 \in Int
    BY <1>1
  <2>2. At(s, Len(s) - 1) \in DOMAIN self.node \cup {NULL}
    BY <2>1, AtFacts
  <2>3. At(s, Len(s) - 1) # a
    BY <1>1, LinkFacts, SMTT(40) DEF At
  <2> QED BY <1>2, <2>2, <2>3
<1>4. a # NULL
  BY <1>1
<1>5. linked(self.node, NULL, "prev", p) = self.node
  BY DEF linked
<1>6. linked(without_node(self.node, a), p, "next", NULL)
        = without_node(linked(self.node, p, "next", NULL), a)
  <2> HIDE DEF p, a
  <2>1. CASE p = NULL
    BY <2>1 DEF linked
  <2>2. CASE p # NULL
    <3>1. /\ linked(without_node(self.node, a), p, "next", NULL)
               = [without_node(self.node, a) EXCEPT ![p]["next"] = NULL]
          /\ linked(self.node, p, "next", NULL) = [self.node EXCEPT ![p]["next"] = NULL]
      BY <2>2 DEF linked
    <3>2. [without_node(self.node, a) EXCEPT ![p]["next"] = NULL]
            = without_node([self.node EXCEPT ![p]["next"] = NULL], a)
      BY <1>3, <2>2 DEF without_node
    <3> QED BY <3>1, <3>2, Zenon
  <2> QED BY <2>1, <2>2
<1>7. list_remove(self, a) =
        [self EXCEPT !.node = without_node(linked(self.node, p, "next", NULL), a),
                     !.cursor = IF self.cursor = a THEN NULL ELSE self.cursor,
                     !.first = IF self.first = a THEN NULL ELSE self.first,
                     !.last = p,
                     !.length = self.length - 1]
  BY <1>2, <1>5, Zenon DEF list_remove
<1>8. list_pop(self) =
        [[self EXCEPT !.cursor = IF self.cursor = a THEN NULL ELSE self.cursor]
           EXCEPT !.node = linked(without_node(self.node, a), p, "next", NULL),
                  !.first = IF self.first = a THEN NULL ELSE self.first,
                  !.last = p,
                  !.length = self.length - 1]
  BY <1>1, <1>2, <1>4 DEF list_pop
<1> HIDE DEF a, p
<1>9. list_pop(self) =
        [[self EXCEPT !.cursor = IF self.cursor = a THEN NULL ELSE self.cursor]
           EXCEPT !.node = without_node(linked(self.node, p, "next", NULL), a),
                  !.first = IF self.first = a THEN NULL ELSE self.first,
                  !.last = p,
                  !.length = self.length - 1]
  BY <1>6, <1>8, Zenon
<1>10. list_pop(self) = list_remove(self, a)
  <2> DEFINE node == without_node(linked(self.node, p, "next", NULL), a)
             first == IF self.first = a THEN NULL ELSE self.first
             last == p
             cursor == IF self.cursor = a THEN NULL ELSE self.cursor
             length == self.length - 1
  <2>1. list_remove(self, a) = [self EXCEPT !.node = node, !.cursor = cursor, !.first = first,
                                            !.last = last, !.length = length]
    BY <1>7
  <2>2. list_pop(self) = [[self EXCEPT !.cursor = cursor]
                          EXCEPT !.node = node, !.first = first, !.last = last,
                                 !.length = length]
    BY <1>9
  <2> HIDE DEF node, first, last, cursor, length
  <2> QED BY <1>1, <2>1, <2>2
<1> QED BY <1>10 DEF a

LEMMA ShiftRemoves ==
    ASSUME NEW self, NEW s, Links(self, s), Len(s) > 0
    PROVE  list_shift(self) = list_remove(self, s[1])
<1> DEFINE a == s[1]
           p == self.node[a].next
<1>1. /\ 1 \in 1 .. Len(s) /\ a \in DOMAIN self.node /\ NULL \notin DOMAIN self.node
      /\ DOMAIN self = {"node", "first", "last", "cursor", "length"}
  <2>1. 1 \in 1 .. Len(s)
    BY LinkFacts
  <2> QED BY <2>1, LinkFacts DEF Links
<1>2. self.first = a /\ self.node[a].prev = NULL /\ p = At(s, 2)
  BY <1>1, AtFacts DEF Links, At
<1>3. p # a /\ (p = NULL \/ p \in DOMAIN self.node)
  <2>1. At(s, 2) \in DOMAIN self.node \cup {NULL}
    BY AtFacts
  <2>2. At(s, 2) # a
    BY <1>1, LinkFacts DEF At
  <2> QED BY <1>2, <2>1, <2>2
<1>4. a # NULL
  BY <1>1
<1>5. linked(linked(self.node, p, "prev", NULL), NULL, "next", p)
        = linked(self.node, p, "prev", NULL)
  BY DEF linked
<1>6. linked(without_node(self.node, a), p, "prev", NULL)
        = without_node(linked(self.node, p, "prev", NULL), a)
  <2> HIDE DEF p, a
  <2>1. CASE p = NULL
    BY <2>1 DEF linked
  <2>2. CASE p # NULL
    <3>1. /\ linked(without_node(self.node, a), p, "prev", NULL)
               = [without_node(self.node, a) EXCEPT ![p]["prev"] = NULL]
          /\ linked(self.node, p, "prev", NULL) = [self.node EXCEPT ![p]["prev"] = NULL]
      BY <2>2 DEF linked
    <3>2. [without_node(self.node, a) EXCEPT ![p]["prev"] = NULL]
            = without_node([self.node EXCEPT ![p]["prev"] = NULL], a)
      BY <1>3, <2>2 DEF without_node
    <3> QED BY <3>1, <3>2, Zenon
  <2> QED BY <2>1, <2>2
<1>7. list_remove(self, a) =
        [self EXCEPT !.node = without_node(linked(self.node, p, "prev", NULL), a),
                     !.cursor = IF self.cursor = a THEN NULL ELSE self.cursor,
                     !.first = p,
                     !.last = IF self.last = a THEN NULL ELSE self.last,
                     !.length = self.length - 1]
  BY <1>2, <1>5, Zenon DEF list_remove
<1>8. list_shift(self) =
        [[self EXCEPT !.cursor = IF self.cursor = a THEN NULL ELSE self.cursor]
           EXCEPT !.node = linked(without_node(self.node, a), p, "prev", NULL),
                  !.first = p,
                  !.last = IF self.last = a THEN NULL ELSE self.last,
                  !.length = self.length - 1]
  BY <1>1, <1>2, <1>4 DEF list_shift
<1> HIDE DEF a, p
<1>9. list_shift(self) =
        [[self EXCEPT !.cursor = IF self.cursor = a THEN NULL ELSE self.cursor]
           EXCEPT !.node = without_node(linked(self.node, p, "prev", NULL), a),
                  !.first = p,
                  !.last = IF self.last = a THEN NULL ELSE self.last,
                  !.length = self.length - 1]
  BY <1>6, <1>8, Zenon
<1>10. list_shift(self) = list_remove(self, a)
  <2> DEFINE node == without_node(linked(self.node, p, "prev", NULL), a)
             first == p
             last == IF self.last = a THEN NULL ELSE self.last
             cursor == IF self.cursor = a THEN NULL ELSE self.cursor
             length == self.length - 1
  <2>1. list_remove(self, a) = [self EXCEPT !.node = node, !.cursor = cursor, !.first = first,
                                            !.last = last, !.length = length]
    BY <1>7
  <2>2. list_shift(self) = [[self EXCEPT !.cursor = cursor]
                          EXCEPT !.node = node, !.first = first, !.last = last,
                                 !.length = length]
    BY <1>9
  <2> HIDE DEF node, first, last, cursor, length
  <2> QED BY <1>1, <2>1, <2>2
<1> QED BY <1>10 DEF a

LEMMA NewNode ==
    ASSUME NEW self, NEW s, Links(self, s), DOMAIN self.node # Addresses
    PROVE  malloc(self) \in Addresses /\ malloc(self) \notin DOMAIN self.node
           /\ malloc(self) # NULL
<1> DEFINE F == Addresses \ DOMAIN self.node
<1>1. DOMAIN self.node \subseteq Addresses
  BY LinkFacts
<1>2. F # {} /\ F \subseteq Nat
  BY <1>1, ListAssumption
<1> HIDE DEF F
<1>3. \E a \in F : \A b \in F : a <= b
  BY <1>2, LeastOf
<1>4. malloc(self) \in F
  <2>1. malloc(self) = CHOOSE a \in F : \A b \in F : a <= b
    BY Zenon DEF malloc, F
  <2> QED BY <1>3, <2>1
<1> QED BY <1>4, ListAssumption DEF F

\* A node more.
LEMMA WithNode ==
    ASSUME NEW D, NEW node \in NodesAt(D), NEW a \in Addresses, a \notin D,
           NEW p \in Addresses \cup {NULL}, NEW q \in Addresses \cup {NULL}, NEW v \in Values
    PROVE  with_node(node, a, p, q, v) \in NodesAt(D \cup {a})
<1>1. node \in [D -> Nodes] /\ DOMAIN node = D
  BY DEF NodesAt
<1>2. [prev |-> p, next |-> q, value |-> v] \in Nodes
  BY DEF Nodes
<1>3. with_node(node, a, p, q, v) = [b \in D \cup {a} |->
         IF b = a THEN [prev |-> p, next |-> q, value |-> v] ELSE node[b]]
  BY <1>1, Zenon DEF with_node
<1>4. with_node(node, a, p, q, v) \in [D \cup {a} -> Nodes]
  BY <1>1, <1>2, <1>3
<1> QED BY <1>4 DEF NodesAt

LEMMA PushLinks ==
    ASSUME NEW self, NEW s, Links(self, s), DOMAIN self.node # Addresses, NEW v \in Values
    PROVE  /\ Links(list_push(self, v), Append(s, malloc(self)))
           /\ list_push(self, v).cursor = self.cursor
           /\ list_push(self, v).last = malloc(self)
           /\ list_push(self, v).node[malloc(self)].value = v
           /\ \A c \in DOMAIN self.node :
                list_push(self, v).node[c].value = self.node[c].value
<1> DEFINE a == malloc(self)
           D == DOMAIN self.node
           z == self.last
           N1 == with_node(self.node, a, z, NULL, v)
           N2 == linked(N1, z, "next", a)
           t == Append(s, a)
           R == list_push(self, v)
<1>1. a \in Addresses \ D /\ a # NULL /\ NULL \notin D /\ NULL \notin D \cup {a}
  BY NewNode, LinkFacts
<1>2. /\ Len(s) \in Nat /\ s \in Seq(Addresses) /\ D = {s[k] : k \in 1 .. Len(s)}
      /\ \A j, k \in 1 .. Len(s) : s[j] = s[k] => j = k
      /\ \A k \in 1 .. Len(s) : s[k] \in D /\ s[k] \in Addresses
  BY LinkFacts
<1>3. self.node \in NodesAt(D)
  BY LinkFacts DEF Links, NodesAt
<1>4. z = At(s, Len(s)) /\ z \in D \cup {a} \cup {NULL} /\ z \in Addresses \cup {NULL} /\ z # a
  <2>1. z = At(s, Len(s))
    BY DEF Links
  <2>2. Len(s) \in Int
    BY <1>2
  <2>3. z \in D \cup {NULL} /\ z \in Addresses \cup {NULL}
    BY <2>1, <2>2, AtFacts
  <2> QED BY <1>1, <2>1, <2>3
<1> HIDE DEF a, D, z
<1>5. /\ N1 \in NodesAt(D \cup {a})
      /\ N1[a].prev = z /\ N1[a].next = NULL /\ N1[a].value = v
      /\ \A c \in D : N1[c] = self.node[c]
  <2>1. NULL \in Addresses \cup {NULL} /\ z \in Addresses \cup {NULL}
    BY <1>4
  <2>2. a \in Addresses /\ a \notin D
    BY <1>1
  <2>3. N1 \in NodesAt(D \cup {a})
    BY <1>3, <2>1, <2>2, WithNode
  <2>4. N1[a] = [prev |-> z, next |-> NULL, value |-> v]
    BY DEF with_node
  <2>5. \A c \in D : N1[c] = self.node[c]
    BY <2>2 DEF with_node, D
  <2> QED BY <2>3, <2>4, <2>5
<1> HIDE DEF N1
<1>6. /\ N2 \in NodesAt(D \cup {a})
      /\ \A c \in D \cup {a} : /\ N2[c].next = IF c = z THEN a ELSE N1[c].next
                               /\ N2[c].prev = N1[c].prev
                               /\ N2[c].value = N1[c].value
  <2>1. NULL \notin D \cup {a} /\ z \in (D \cup {a}) \cup {NULL} /\ a \in Addresses \cup {NULL}
    BY <1>1, <1>4
  <2>2. N1 \in NodesAt(D \cup {a})
    BY <1>5
  <2> QED BY <2>1, <2>2, LinkedNext
<1> HIDE DEF N2
<1>7. /\ DOMAIN R = {"node", "first", "last", "cursor", "length"}
      /\ R.node = N2 /\ R.cursor = self.cursor /\ R.last = a
      /\ R.first = IF z = NULL THEN a ELSE self.first
      /\ R.length = self.length + 1
  <2>1. DOMAIN self = {"node", "first", "last", "cursor", "length"}
    BY DEF Links
  <2>2. R = [self EXCEPT !.node = N2, !.first = IF z = NULL THEN a ELSE @,
                         !.last = a, !.length = @ + 1]
    BY DEF list_push, a, z, N1, N2
  <2> HIDE DEF R
  <2> QED BY <2>1, <2>2
<1> HIDE DEF R
<1>8. /\ t \in Seq(Addresses) /\ Len(t) = Len(s) + 1 /\ t[Len(s) + 1] = a
      /\ \A k \in 1 .. Len(s) : t[k] = s[k]
  BY <1>1, <1>2, AppendProperties
<1> HIDE DEF t
<1>9. \A j, k \in 1 .. Len(t) : t[j] = t[k] => j = k
  <2>1. ASSUME NEW j \in 1 .. Len(t), NEW k \in 1 .. Len(t), t[j] = t[k] PROVE j = k
    <3>1. j = Len(s) + 1 \/ j \in 1 .. Len(s)
      BY <1>2, <1>8
    <3>2. k = Len(s) + 1 \/ k \in 1 .. Len(s)
      BY <1>2, <1>8
    <3> QED BY <1>1, <1>2, <1>8, <2>1, <3>1, <3>2
  <2> QED BY <2>1
<1>10. {t[k] : k \in 1 .. Len(t)} = D \cup {a}
  <2>1. ASSUME NEW k \in 1 .. Len(t) PROVE t[k] \in D \cup {a}
    <3>1. k = Len(s) + 1 \/ k \in 1 .. Len(s)
      BY <1>2, <1>8
    <3> QED BY <1>2, <1>8, <3>1
  <2>2. ASSUME NEW c \in D PROVE \E k \in 1 .. Len(t) : c = t[k]
    <3>1. PICK k \in 1 .. Len(s) : c = s[k]
      BY <1>2
    <3> QED BY <1>2, <1>8, <3>1
  <2>3. Len(s) + 1 \in 1 .. Len(t)
    BY <1>2, <1>8
  <2> QED BY <1>8, <2>1, <2>2, <2>3
<1>11. R.node \in [{t[k] : k \in 1 .. Len(t)} -> Nodes]
  BY <1>6, <1>7, <1>10 DEF NodesAt
<1>12. ASSUME NEW k \in Int, k <= Len(s) PROVE At(t, k) = At(s, k)
  <2>1. k \in 1 .. Len(t) <=> k \in 1 .. Len(s)
    BY <1>2, <1>8, <1>12
  <2> QED BY <1>8, <2>1 DEF At
<1>13. At(t, Len(s) + 1) = a /\ At(t, Len(s) + 2) = NULL
  <2>1. Len(s) + 1 \in 1 .. Len(t) /\ Len(s) + 2 \notin 1 .. Len(t)
    BY <1>2, <1>8
  <2> QED BY <1>8, <2>1 DEF At
<1>14. ASSUME NEW k \in 1 .. Len(t)
       PROVE  R.node[t[k]].prev = At(t, k - 1) /\ R.node[t[k]].next = At(t, k + 1)
  <2>1. CASE k = Len(s) + 1
    <3>1. t[k] = a /\ k - 1 = Len(s) /\ k + 1 = Len(s) + 2 /\ Len(s) \in Int /\ Len(s) <= Len(s)
      BY <1>2, <1>8, <2>1
    <3>2. At(t, k - 1) = At(s, Len(s))
      BY <1>12, <3>1
    <3> QED BY <1>4, <1>5, <1>6, <1>7, <1>13, <3>1, <3>2
  <2>2. CASE k # Len(s) + 1
    <3>1. k \in 1 .. Len(s) /\ t[k] = s[k] /\ s[k] \in D
      BY <1>2, <1>8, <2>2
    <3>2. /\ R.node[t[k]].prev = self.node[s[k]].prev
          /\ R.node[t[k]].next = IF s[k] = z THEN a ELSE self.node[s[k]].next
      BY <1>5, <1>6, <1>7, <3>1
    <3>3. /\ self.node[s[k]].prev = At(s, k - 1)
          /\ self.node[s[k]].next = At(s, k + 1)
      BY <3>1 DEF Links
    <3>4. At(t, k - 1) = At(s, k - 1)
      <4>1. k - 1 \in Int /\ k - 1 <= Len(s)
        BY <1>2, <3>1
      <4> QED BY <1>12, <4>1
    <3>5. CASE k = Len(s)
      <4>1. s[k] = z /\ At(t, k + 1) = a
        BY <1>4, <1>13, <3>1, <3>5 DEF At
      <4> QED BY <3>2, <3>3, <3>4, <4>1
    <3>6. CASE k # Len(s)
      <4>1. k + 1 \in Int /\ k + 1 <= Len(s) /\ Len(s) \in 1 .. Len(s)
        BY <1>2, <3>1, <3>6
      <4>2. At(t, k + 1) = At(s, k + 1)
        BY <1>12, <4>1
      <4>3. s[k] # z
        <5>1. z = s[Len(s)]
          BY <1>4, <4>1 DEF At
        <5> QED BY <1>2, <3>1, <3>6, <4>1, <5>1
      <4> QED BY <3>2, <3>3, <3>4, <4>2, <4>3
    <3> QED BY <3>5, <3>6
  <2> QED BY <2>1, <2>2
<1>15. R.first = At(t, 1) /\ R.last = At(t, Len(t)) /\ R.length = Len(t)
  <2>1. R.last = At(t, Len(t)) /\ R.length = Len(t)
    BY <1>7, <1>8, <1>13 DEF Links
  <2>2. R.first = At(t, 1)
    <3>1. CASE Len(s) = 0
      <4>1. z = NULL /\ Len(s) + 1 = 1
        BY <1>4, <3>1 DEF At
      <4> QED BY <1>7, <1>13, <4>1
    <3>2. CASE Len(s) # 0
      <4>1. Len(s) \in 1 .. Len(s) /\ 1 \in Int /\ 1 <= Len(s)
        BY <1>2, <3>2
      <4>2. z # NULL
        BY <1>1, <1>2, <1>4, <4>1 DEF At
      <4>3. At(t, 1) = At(s, 1)
        BY <1>12, <4>1
      <4> QED BY <1>7, <4>2, <4>3 DEF Links
    <3> QED BY <3>1, <3>2
  <2> QED BY <2>1, <2>2
<1>16. R.cursor = NULL \/ \E k \in 1 .. Len(t) : R.cursor = t[k]
  <2>1. self.cursor = NULL \/ self.cursor \in D
    BY <1>2 DEF Links
  <2> QED BY <1>7, <1>10, <2>1
<1>17. Links(R, t)
  BY <1>7, <1>8, <1>9, <1>11, <1>14, <1>15, <1>16 DEF Links
<1>18. R.node[a].value = v /\ \A c \in D : R.node[c].value = self.node[c].value
  BY <1>5, <1>6, <1>7
<1> QED BY <1>7, <1>17, <1>18 DEF R, t, a, D

LEMMA UnshiftLinks ==
    ASSUME NEW self, NEW s, Links(self, s), DOMAIN self.node # Addresses, NEW v \in Values
    PROVE  /\ Links(list_unshift(self, v), <<malloc(self)>> \o s)
           /\ list_unshift(self, v).cursor = self.cursor
           /\ list_unshift(self, v).node[malloc(self)].value = v
           /\ \A c \in DOMAIN self.node :
                list_unshift(self, v).node[c].value = self.node[c].value
<1> DEFINE a == malloc(self)
           D == DOMAIN self.node
           z == self.first
           N1 == with_node(self.node, a, NULL, z, v)
           N2 == linked(N1, z, "prev", a)
           t == <<a>> \o s
           R == list_unshift(self, v)
<1>1. a \in Addresses \ D /\ a # NULL /\ NULL \notin D /\ NULL \notin D \cup {a}
  BY NewNode, LinkFacts
<1>2. /\ Len(s) \in Nat /\ s \in Seq(Addresses) /\ D = {s[k] : k \in 1 .. Len(s)}
      /\ \A j, k \in 1 .. Len(s) : s[j] = s[k] => j = k
      /\ \A k \in 1 .. Len(s) : s[k] \in D /\ s[k] \in Addresses
  BY LinkFacts
<1>3. self.node \in NodesAt(D)
  BY LinkFacts DEF Links, NodesAt
<1>4. z = At(s, 1) /\ z \in D \cup {a} \cup {NULL} /\ z \in Addresses \cup {NULL} /\ z # a
  <2>1. z = At(s, 1)
    BY DEF Links
  <2>2. 1 \in Int
    OBVIOUS
  <2>3. z \in D \cup {NULL} /\ z \in Addresses \cup {NULL}
    BY <2>1, <2>2, AtFacts
  <2> QED BY <1>1, <2>1, <2>3
<1> HIDE DEF a, D, z
<1>5. /\ N1 \in NodesAt(D \cup {a})
      /\ N1[a].prev = NULL /\ N1[a].next = z /\ N1[a].value = v
      /\ \A c \in D : N1[c] = self.node[c]
  <2>1. NULL \in Addresses \cup {NULL} /\ z \in Addresses \cup {NULL}
    BY <1>4
  <2>2. a \in Addresses /\ a \notin D
    BY <1>1
  <2>3. N1 \in NodesAt(D \cup {a})
    BY <1>3, <2>1, <2>2, WithNode
  <2>4. N1[a] = [prev |-> NULL, next |-> z, value |-> v]
    BY DEF with_node
  <2>5. \A c \in D : N1[c] = self.node[c]
    BY <2>2 DEF with_node, D
  <2> QED BY <2>3, <2>4, <2>5
<1> HIDE DEF N1
<1>6. /\ N2 \in NodesAt(D \cup {a})
      /\ \A c \in D \cup {a} : /\ N2[c].prev = IF c = z THEN a ELSE N1[c].prev
                               /\ N2[c].next = N1[c].next
                               /\ N2[c].value = N1[c].value
  <2>1. NULL \notin D \cup {a} /\ z \in (D \cup {a}) \cup {NULL} /\ a \in Addresses \cup {NULL}
    BY <1>1, <1>4
  <2>2. N1 \in NodesAt(D \cup {a})
    BY <1>5
  <2> QED BY <2>1, <2>2, LinkedPrev
<1> HIDE DEF N2
<1>7. /\ DOMAIN R = {"node", "first", "last", "cursor", "length"}
      /\ R.node = N2 /\ R.cursor = self.cursor /\ R.first = a
      /\ R.last = IF z = NULL THEN a ELSE self.last
      /\ R.length = self.length + 1
  <2>1. DOMAIN self = {"node", "first", "last", "cursor", "length"}
    BY DEF Links
  <2>2. R = [self EXCEPT !.node = N2, !.last = IF z = NULL THEN a ELSE @,
                         !.first = a, !.length = @ + 1]
    BY DEF list_unshift, a, z, N1, N2
  <2> HIDE DEF R
  <2> QED BY <2>1, <2>2
<1> HIDE DEF R
<1>8. /\ t \in Seq(Addresses) /\ Len(t) = Len(s) + 1 /\ t[1] = a
      /\ \A k \in 1 .. Len(s) : t[k + 1] = s[k]
  <2>1. t \in Seq(Addresses) /\ Len(t) = 1 + Len(s) /\ t[1] = a
        /\ \A k \in 1 .. Len(s) : t[k + 1] = s[k]
    BY <1>1, <1>2, ConsFacts
  <2> HIDE DEF t
  <2> QED BY <1>2, <2>1
<1> HIDE DEF t
<1>9. ASSUME NEW k \in 1 .. Len(t), k # 1
      PROVE  k - 1 \in 1 .. Len(s) /\ t[k] = s[k - 1]
  <2>1. k - 1 \in 1 .. Len(s) /\ (k - 1) + 1 = k
    BY <1>2, <1>8, <1>9
  <2> QED BY <1>8, <2>1
<1>10. \A j, k \in 1 .. Len(t) : t[j] = t[k] => j = k
  <2>1. ASSUME NEW j \in 1 .. Len(t), NEW k \in 1 .. Len(t), t[j] = t[k] PROVE j = k
    <3>1. CASE j = 1 /\ k # 1
      <4>1. k - 1 \in 1 .. Len(s) /\ t[k] = s[k - 1]
        BY <1>9, <3>1
      <4> QED BY <1>1, <1>2, <1>8, <2>1, <3>1, <4>1
    <3>2. CASE j # 1 /\ k = 1
      <4>1. j - 1 \in 1 .. Len(s) /\ t[j] = s[j - 1]
        BY <1>9, <3>2
      <4> QED BY <1>1, <1>2, <1>8, <2>1, <3>2, <4>1
    <3>3. CASE j # 1 /\ k # 1
      <4>1. j - 1 = k - 1
        BY <1>2, <1>9, <2>1, <3>3
      <4> QED BY <4>1
    <3> QED BY <3>1, <3>2, <3>3
  <2> QED BY <2>1
<1>11. {t[k] : k \in 1 .. Len(t)} = D \cup {a}
  <2>1. ASSUME NEW k \in 1 .. Len(t) PROVE t[k] \in D \cup {a}
    BY <1>2, <1>8, <1>9
  <2>2. ASSUME NEW c \in D PROVE \E k \in 1 .. Len(t) : c = t[k]
    <3>1. PICK k \in 1 .. Len(s) : c = s[k]
      BY <1>2
    <3>2. k + 1 \in 1 .. Len(t) /\ t[k + 1] = s[k]
      BY <1>2, <1>8
    <3> QED BY <3>1, <3>2
  <2>3. 1 \in 1 .. Len(t)
    BY <1>2, <1>8
  <2> QED BY <1>8, <2>1, <2>2, <2>3
<1>12. R.node \in [{t[k] : k \in 1 .. Len(t)} -> Nodes]
  BY <1>6, <1>7, <1>11 DEF NodesAt
<1>13. ASSUME NEW k \in Int, k # 0 PROVE At(t, k + 1) = At(s, k)
  <2>1. k + 1 \in 1 .. Len(t) <=> k \in 1 .. Len(s)
    BY <1>2, <1>8, <1>13
  <2> QED BY <1>8, <2>1 DEF At
<1>14. At(t, 1) = a /\ At(t, 0) = NULL
  <2>1. 1 \in 1 .. Len(t) /\ 0 \notin 1 .. Len(t)
    BY <1>2, <1>8
  <2> QED BY <1>8, <2>1 DEF At
<1>15. ASSUME NEW k \in 1 .. Len(t)
       PROVE  R.node[t[k]].prev = At(t, k - 1) /\ R.node[t[k]].next = At(t, k + 1)
  <2>1. CASE k = 1
    <3>1. t[k] = a /\ k - 1 = 0 /\ 1 \in Int
      BY <1>8, <2>1
    <3>2. At(t, k + 1) = At(s, 1)
      BY <1>13, <2>1
    <3> QED BY <1>4, <1>5, <1>6, <1>7, <1>14, <3>1, <3>2
  <2>2. CASE k # 1
    <3>1. PICK j \in 1 .. Len(s) : j = k - 1 /\ k = j + 1 /\ t[k] = s[j] /\ s[j] \in D
      <4>1. k - 1 \in 1 .. Len(s) /\ t[k] = s[k - 1] /\ k = (k - 1) + 1
        BY <1>9, <2>2
      <4> QED BY <1>2, <4>1
    <3>2. /\ R.node[t[k]].next = self.node[s[j]].next
          /\ R.node[t[k]].prev = IF s[j] = z THEN a ELSE self.node[s[j]].prev
      BY <1>5, <1>6, <1>7, <3>1
    <3>3. /\ self.node[s[j]].prev = At(s, j - 1)
          /\ self.node[s[j]].next = At(s, j + 1)
      BY DEF Links
    <3>4. At(t, k + 1) = At(s, j + 1)
      <4>1. k \in Int /\ k # 0
        OBVIOUS
      <4> QED BY <1>13, <3>1, <4>1
    <3>5. CASE j = 1
      <4>1. s[j] = z /\ At(t, k - 1) = a
        BY <1>4, <1>14, <3>1, <3>5 DEF At
      <4> QED BY <3>2, <3>3, <3>4, <4>1
    <3>6. CASE j # 1
      <4>1. j - 1 \in Int /\ j - 1 # 0 /\ (j - 1) + 1 = k - 1 /\ 1 \in 1 .. Len(s)
        BY <1>2, <3>1, <3>6
      <4>2. At(t, k - 1) = At(s, j - 1)
        BY <1>13, <4>1
      <4>3. s[j] # z
        <5>1. z = s[1]
          BY <1>4, <4>1 DEF At
        <5> QED BY <1>2, <3>6, <4>1, <5>1
      <4> QED BY <3>2, <3>3, <3>4, <4>2, <4>3
    <3> QED BY <3>5, <3>6
  <2> QED BY <2>1, <2>2
<1>16. R.first = At(t, 1) /\ R.last = At(t, Len(t)) /\ R.length = Len(t)
  <2>1. R.first = At(t, 1) /\ R.length = Len(t)
    BY <1>7, <1>8, <1>14 DEF Links
  <2>2. R.last = At(t, Len(t))
    <3>1. CASE Len(s) = 0
      <4>1. z = NULL /\ Len(t) = 1
        BY <1>4, <1>8, <3>1 DEF At
      <4> QED BY <1>7, <1>14, <4>1
    <3>2. CASE Len(s) # 0
      <4>1. 1 \in 1 .. Len(s) /\ Len(s) \in Int
        BY <1>2, <3>2
      <4>2. z # NULL
        BY <1>1, <1>2, <1>4, <4>1 DEF At
      <4>3. At(t, Len(t)) = At(s, Len(s))
        BY <1>8, <1>13, <3>2, <4>1
      <4> QED BY <1>7, <4>2, <4>3 DEF Links
    <3> QED BY <3>1, <3>2
  <2> QED BY <2>1, <2>2
<1>17. R.cursor = NULL \/ \E k \in 1 .. Len(t) : R.cursor = t[k]
  <2>1. self.cursor = NULL \/ self.cursor \in D
    BY <1>2 DEF Links
  <2> QED BY <1>7, <1>11, <2>1
<1>18. Links(R, t)
  BY <1>7, <1>8, <1>10, <1>12, <1>15, <1>16, <1>17 DEF Links
<1>19. R.node[a].value = v /\ \A c \in D : R.node[c].value = self.node[c].value
  BY <1>5, <1>6, <1>7
<1> QED BY <1>7, <1>18, <1>19 DEF R, t, a, D

-----------------------------------------------------------------------------
(* The sequence that a list stands for *)

\* The position of the cursor in a list, as PositionOfCursor has it of list.
Position(self) ==
    LET nodes == chain(self)
    IN IF self.cursor = NULL THEN 0
       ELSE IF \E i \in DOMAIN nodes : nodes[i] = self.cursor
       THEN CHOOSE i \in DOMAIN nodes : nodes[i] = self.cursor
       ELSE -1

LEMMA PositionIs ==
    ASSUME NEW self, NEW s, Links(self, s)
    PROVE  /\ Position(self) \in 0 .. Len(s)
           /\ self.cursor = NULL <=> Position(self) = 0
           /\ \A k \in 1 .. Len(s) : self.cursor = s[k] <=> Position(self) = k
<1>1. /\ chain(self) = s /\ Len(s) \in Nat /\ DOMAIN s = 1 .. Len(s)
      /\ \A j, k \in 1 .. Len(s) : s[j] = s[k] => j = k
      /\ \A k \in 1 .. Len(s) : s[k] # NULL
  BY ChainIs, LinkFacts
<1>2. CASE self.cursor = NULL
  <2>1. Position(self) = 0
    BY <1>2 DEF Position
  <2> QED BY <1>1, <1>2, <2>1
<1>3. CASE self.cursor # NULL
  <2>1. PICK k \in 1 .. Len(s) : self.cursor = s[k]
    BY <1>3 DEF Links
  <2>2. Position(self) = k
    <3>1. \E i \in DOMAIN s : s[i] = self.cursor
      BY <1>1, <2>1
    <3>2. Position(self) = CHOOSE i \in DOMAIN s : s[i] = self.cursor
      BY <1>1, <1>3, <3>1 DEF Position
    <3>3. Position(self) \in DOMAIN s /\ s[Position(self)] = self.cursor
      BY <3>1, <3>2
    <3> QED BY <1>1, <2>1, <3>3
  <2>3. k # 0
    OBVIOUS
  <2> QED BY <1>1, <1>3, <2>1, <2>2, <2>3
<1> QED BY <1>2, <1>3

LEMMA ValuesAre ==
    ASSUME NEW self, NEW s, Links(self, s)
    PROVE  /\ values(self) \in Seq(Values) /\ Len(values(self)) = Len(s)
           /\ DOMAIN values(self) = 1 .. Len(s)
           /\ \A k \in 1 .. Len(s) :
                values(self)[k] = self.node[s[k]].value /\ values(self)[k] \in Values
<1>1. /\ chain(self) = s /\ Len(s) \in Nat /\ DOMAIN s = 1 .. Len(s)
      /\ \A k \in 1 .. Len(s) : self.node[s[k]].value \in Values
  <2>1. \A k \in 1 .. Len(s) : self.node[s[k]] \in Nodes
    BY LinkFacts
  <2> QED BY <2>1, ChainIs, LinkFacts DEF Nodes
<1>2. values(self) = [k \in 1 .. Len(s) |-> self.node[s[k]].value]
  BY <1>1 DEF values
<1>3. values(self) \in Seq(Values) /\ Len(values(self)) = Len(s)
  <2>1. values(self) \in [1 .. Len(s) -> Values]
    BY <1>1, <1>2
  <2>2. values(self) \in Seq(Values)
    BY <1>1, <2>1
  <2>3. DOMAIN values(self) = 1 .. Len(values(self)) /\ Len(values(self)) \in Nat
    BY <2>2, LenProperties
  <2> QED BY <1>1, <2>1, <2>2, <2>3
<1> QED BY <1>1, <1>2, <1>3

LEMMA MatchingIs ==
    ASSUME NEW s, Links(list, s), NEW v
    PROVE  /\ Sequence!PositionOf(v) \in 0 .. Len(s)
           /\ matching(list, v) = At(s, Sequence!PositionOf(v))
           /\ matching(list, v) = NULL <=> Sequence!PositionOf(v) = 0
<1> DEFINE items == values(list)
           found == {i \in 1 .. Len(s) : items[i] = v \/ <<items[i], v>> \in Equal}
           least == CHOOSE i \in found : \A j \in found : i <= j
<1>1. /\ chain(list) = s /\ DOMAIN s = 1 .. Len(s) /\ Len(s) \in Nat
      /\ \A k \in 1 .. Len(s) : s[k] # NULL
  BY ChainIs, LinkFacts
<1>2. DOMAIN items = 1 .. Len(s) /\ \A k \in 1 .. Len(s) : items[k] = list.node[s[k]].value
  BY ValuesAre
<1>3. found = {i \in DOMAIN items : items[i] = v \/ <<items[i], v>> \in Equal}
  BY <1>2
<1>4. found = {i \in DOMAIN s : LET w == list.node[s[i]].value
                                IN w = v \/ <<w, v>> \in Equal}
  <2>1. \A k \in 1 .. Len(s) :
          (items[k] = v \/ <<items[k], v>> \in Equal)
            <=> LET w == list.node[s[k]].value IN w = v \/ <<w, v>> \in Equal
    BY <1>2
  <2> HIDE DEF items
  <2> QED BY <1>1, <2>1
<1>5. Sequence!PositionOf(v) = IF found = {} THEN 0 ELSE least
  <2> HIDE DEF found
  <2> QED BY <1>3 DEF Sequence!PositionOf, items
<1>6. matching(list, v) = IF found = {} THEN NULL ELSE s[least]
  <2> HIDE DEF found
  <2> QED BY <1>1, <1>4 DEF matching
<1>7. CASE found = {}
  BY <1>1, <1>5, <1>6, <1>7 DEF At
<1>8. CASE found # {}
  <2>1. least \in found
    <3>1. found \subseteq Nat
      OBVIOUS
    <3> HIDE DEF found
    <3>2. \E a \in found : \A b \in found : a <= b
      BY <1>8, <3>1, LeastOf
    <3> QED BY <3>2
  <2>2. least \in 1 .. Len(s)
    BY <2>1
  <2> HIDE DEF least
  <2> QED BY <1>1, <1>5, <1>6, <1>8, <2>2 DEF At
<1> QED BY <1>7, <1>8

\* The cursor moves to a node, or to none.
LEMMA MoveMeans ==
    ASSUME NEW self, NEW s, Links(self, s), NEW c \in 0 .. Len(s),
           NEW R, R = [self EXCEPT !.cursor = At(s, c)]
    PROVE  /\ Links(R, s) /\ values(R) = values(self) /\ Position(R) = c
           /\ R.node = self.node /\ R.cursor = At(s, c)
<1>1. /\ DOMAIN R = {"node", "first", "last", "cursor", "length"}
      /\ R.node = self.node /\ R.first = self.first /\ R.last = self.last
      /\ R.length = self.length /\ R.cursor = At(s, c)
  BY DEF Links
<1>2. R.cursor = NULL \/ \E k \in 1 .. Len(s) : R.cursor = s[k]
  BY <1>1 DEF At
<1>3. Links(R, s)
  BY <1>1, <1>2 DEF Links
<1>4. values(R) = values(self)
  <2>1. chain(R) = s /\ chain(self) = s
    BY <1>3, ChainIs
  <2> QED BY <1>1, <2>1 DEF values
<1>5. Position(R) = c
  <2>1. CASE c = 0
    <3>1. R.cursor = NULL
      BY <1>1, <2>1 DEF At
    <3> QED BY <1>3, <2>1, <3>1, PositionIs
  <2>2. CASE c # 0
    <3>1. c \in 1 .. Len(s)
      BY <2>2
    <3>2. R.cursor = s[c]
      BY <1>1, <3>1 DEF At
    <3> QED BY <1>3, <3>1, <3>2, PositionIs, ZenonT(60)
  <2> QED BY <2>1, <2>2
<1> QED BY <1>1, <1>3, <1>4, <1>5

LEMMA PushMeans ==
    ASSUME NEW self, NEW s, Links(self, s), DOMAIN self.node # Addresses, NEW v \in Values,
           NEW R, R = list_push(self, v)
    PROVE  values(R) = Append(values(self), v) /\ Position(R) = Position(self)
<1> DEFINE a == malloc(self)
           t == Append(s, a)
<1>1. /\ Links(R, t) /\ R.cursor = self.cursor /\ R.node[a].value = v
      /\ \A c \in DOMAIN self.node : R.node[c].value = self.node[c].value
  BY PushLinks
<1>2. /\ s \in Seq(Addresses) /\ Len(s) \in Nat /\ a \in Addresses
      /\ \A k \in 1 .. Len(s) : s[k] \in DOMAIN self.node
  BY LinkFacts, NewNode
<1> HIDE DEF a
<1>3. /\ Len(t) = Len(s) + 1 /\ t[Len(s) + 1] = a
      /\ \A k \in 1 .. Len(s) : t[k] = s[k]
  BY <1>2, AppendProperties
<1> HIDE DEF t
<1>4. values(R) = Append(values(self), v)
  <2>1. /\ values(self) \in Seq(Values) /\ Len(values(self)) = Len(s)
        /\ \A k \in 1 .. Len(s) : values(self)[k] = self.node[s[k]].value
    BY ValuesAre
  <2>2. /\ values(R) \in Seq(Values) /\ Len(values(R)) = Len(t)
        /\ \A k \in 1 .. Len(t) : values(R)[k] = R.node[t[k]].value
    BY <1>1, ValuesAre
  <2>3. /\ Append(values(self), v) \in Seq(Values)
        /\ Len(Append(values(self), v)) = Len(s) + 1
        /\ Append(values(self), v)[Len(s) + 1] = v
        /\ \A k \in 1 .. Len(s) : Append(values(self), v)[k] = values(self)[k]
    BY <2>1, AppendProperties
  <2>4. ASSUME NEW k \in 1 .. Len(t) PROVE values(R)[k] = Append(values(self), v)[k]
    <3>1. CASE k = Len(s) + 1
      BY <1>1, <1>3, <2>2, <2>3, <3>1
    <3>2. CASE k # Len(s) + 1
      <4>1. k \in 1 .. Len(s)
        BY <1>2, <1>3, <3>2
      <4> QED BY <1>1, <1>2, <1>3, <2>1, <2>2, <2>3, <4>1
    <3> QED BY <3>1, <3>2
  <2>5. Len(values(R)) = Len(Append(values(self), v))
    BY <1>3, <2>2, <2>3
  <2>6. \A k \in 1 .. Len(values(R)) : values(R)[k] = Append(values(self), v)[k]
    BY <2>2, <2>4
  <2> QED BY <2>2, <2>3, <2>5, <2>6, SeqEqual
<1>5. Position(R) = Position(self)
  <2>1. CASE self.cursor = NULL
    BY <1>1, <2>1, PositionIs
  <2>2. CASE self.cursor # NULL
    <3>1. PICK k \in 1 .. Len(s) : self.cursor = s[k]
      BY <2>2 DEF Links
    <3>2. k \in 1 .. Len(t) /\ R.cursor = t[k]
      BY <1>1, <1>2, <1>3, <3>1
    <3>3. Position(self) = k
      BY <3>1, PositionIs
    <3>4. Position(R) = k
      BY <1>1, <3>2, PositionIs
    <3> QED BY <3>3, <3>4
  <2> QED BY <2>1, <2>2
<1> QED BY <1>4, <1>5

LEMMA UnshiftMeans ==
    ASSUME NEW self, NEW s, Links(self, s), DOMAIN self.node # Addresses, NEW v \in Values,
           NEW R, R = list_unshift(self, v)
    PROVE  /\ values(R) = <<v>> \o values(self)
           /\ Position(R) = IF Position(self) = 0 THEN 0 ELSE Position(self) + 1
<1> DEFINE a == malloc(self)
           t == <<a>> \o s
           w == <<v>> \o values(self)
<1>1. /\ Links(R, t) /\ R.cursor = self.cursor /\ R.node[a].value = v
      /\ \A c \in DOMAIN self.node : R.node[c].value = self.node[c].value
  BY UnshiftLinks
<1>2. /\ s \in Seq(Addresses) /\ Len(s) \in Nat /\ a \in Addresses
      /\ \A k \in 1 .. Len(s) : s[k] \in DOMAIN self.node
  BY LinkFacts, NewNode
<1> HIDE DEF a
<1>3. /\ Len(t) = 1 + Len(s) /\ t[1] = a
      /\ \A k \in 1 .. Len(s) : t[k + 1] = s[k]
  BY <1>2, ConsFacts
<1> HIDE DEF t
<1>4. values(R) = w
  <2>1. /\ values(self) \in Seq(Values) /\ Len(values(self)) = Len(s)
        /\ \A k \in 1 .. Len(s) : values(self)[k] = self.node[s[k]].value
    BY ValuesAre
  <2>2. /\ values(R) \in Seq(Values) /\ Len(values(R)) = Len(t)
        /\ \A k \in 1 .. Len(t) : values(R)[k] = R.node[t[k]].value
    BY <1>1, ValuesAre
  <2>3. /\ w \in Seq(Values) /\ Len(w) = 1 + Len(s) /\ w[1] = v
        /\ \A k \in 1 .. Len(s) : w[k + 1] = values(self)[k]
    BY <2>1, ConsFacts
  <2> HIDE DEF w
  <2>4. ASSUME NEW k \in 1 .. Len(t) PROVE values(R)[k] = w[k]
    <3>1. CASE k = 1
      BY <1>1, <1>3, <2>2, <2>3, <3>1
    <3>2. CASE k # 1
      <4>1. PICK j \in 1 .. Len(s) : k = j + 1
        <5>1. k - 1 \in 1 .. Len(s) /\ k = (k - 1) + 1
          BY <1>2, <1>3, <3>2
        <5> QED BY <5>1
      <4>2. t[k] = s[j] /\ w[k] = values(self)[j]
        BY <1>3, <2>3, <4>1
      <4> QED BY <1>1, <1>2, <2>1, <2>2, <4>2, SMTT(40)
    <3> QED BY <3>1, <3>2
  <2>5. Len(values(R)) = Len(w)
    BY <1>3, <2>2, <2>3
  <2>6. \A k \in 1 .. Len(values(R)) : values(R)[k] = w[k]
    BY <2>2, <2>4
  <2> QED BY <2>2, <2>3, <2>5, <2>6, SeqEqual
<1>5. Position(R) = IF Position(self) = 0 THEN 0 ELSE Position(self) + 1
  <2>1. CASE self.cursor = NULL
    BY <1>1, <2>1, PositionIs
  <2>2. CASE self.cursor # NULL
    <3>1. PICK k \in 1 .. Len(s) : self.cursor = s[k]
      BY <2>2 DEF Links
    <3>2. k + 1 \in 1 .. Len(t) /\ R.cursor = t[k + 1]
      BY <1>1, <1>2, <1>3, <3>1
    <3>3. Position(self) = k /\ k # 0
      BY <3>1, PositionIs
    <3>4. Position(R) = k + 1
      BY <1>1, <3>2, PositionIs
    <3> QED BY <3>3, <3>4
  <2> QED BY <2>1, <2>2
<1> QED BY <1>4, <1>5

LEMMA RemoveMeans ==
    ASSUME NEW self, NEW s, Links(self, s), NEW i \in 1 .. Len(s),
           NEW R, R = list_remove(self, s[i])
    PROVE  /\ values(R) = Drop(values(self), i)
           /\ Position(R) = IF Position(self) = i THEN 0
                            ELSE IF Position(self) > i THEN Position(self) - 1
                            ELSE Position(self)
<1> DEFINE t == Drop(s, i)
           w == Drop(values(self), i)
<1>1. /\ Links(R, t) /\ R.cursor = IF self.cursor = s[i] THEN NULL ELSE self.cursor
      /\ \A c \in DOMAIN self.node \ {s[i]} : R.node[c].value = self.node[c].value
  BY RemoveLinks
<1>2. /\ s \in Seq(Addresses) /\ Len(s) \in Nat
      /\ \A k \in 1 .. Len(s) : s[k] \in DOMAIN self.node /\ s[k] # NULL
      /\ \A j, k \in 1 .. Len(s) : s[j] = s[k] => j = k
  BY LinkFacts
<1>3. /\ Len(t) = Len(s) - 1
      /\ \A k \in 1 .. Len(s) - 1 : t[k] = IF k < i THEN s[k] ELSE s[k + 1]
  BY <1>2, DropFacts
<1> HIDE DEF t
<1>4. values(R) = w
  <2>1. /\ values(self) \in Seq(Values) /\ Len(values(self)) = Len(s)
        /\ \A k \in 1 .. Len(s) : values(self)[k] = self.node[s[k]].value
    BY ValuesAre
  <2>2. /\ values(R) \in Seq(Values) /\ Len(values(R)) = Len(t)
        /\ \A k \in 1 .. Len(t) : values(R)[k] = R.node[t[k]].value
    BY <1>1, ValuesAre
  <2>3. i \in 1 .. Len(values(self))
    BY <2>1
  <2>4. /\ w \in Seq(Values) /\ Len(w) = Len(s) - 1
        /\ \A k \in 1 .. Len(s) - 1 :
             w[k] = IF k < i THEN values(self)[k] ELSE values(self)[k + 1]
    <3>1. /\ w \in Seq(Values) /\ Len(w) = Len(values(self)) - 1
          /\ \A k \in 1 .. Len(values(self)) - 1 :
               w[k] = IF k < i THEN values(self)[k] ELSE values(self)[k + 1]
      BY <2>1, <2>3, DropFacts
    <3> HIDE DEF w
    <3> QED BY <2>1, <3>1
  <2> HIDE DEF w
  <2>5. ASSUME NEW k \in 1 .. Len(t) PROVE values(R)[k] = w[k]
    <3>1. PICK x \in 1 .. Len(s) : x = (IF k < i THEN k ELSE k + 1) /\ x # i
      <4>1. (IF k < i THEN k ELSE k + 1) \in 1 .. Len(s) /\ (IF k < i THEN k ELSE k + 1) # i
        BY <1>2, <1>3
      <4> QED BY <4>1
    <3>2. t[k] = s[x] /\ w[k] = values(self)[x] /\ s[x] \in DOMAIN self.node \ {s[i]}
      BY <1>2, <1>3, <2>4, <3>1
    <3> QED BY <1>1, <2>1, <2>2, <3>2
  <2>6. Len(values(R)) = Len(w)
    BY <1>3, <2>2, <2>4
  <2>7. \A k \in 1 .. Len(values(R)) : values(R)[k] = w[k]
    BY <2>2, <2>5
  <2> QED BY <2>2, <2>4, <2>6, <2>7, SeqEqual
<1>5. Position(R) = IF Position(self) = i THEN 0
                    ELSE IF Position(self) > i THEN Position(self) - 1 ELSE Position(self)
  <2>1. CASE self.cursor = NULL
    <3>1. Position(self) = 0 /\ R.cursor = NULL
      BY <1>1, <2>1, PositionIs
    <3>2. Position(R) = 0
      BY <1>1, <3>1, PositionIs
    <3> QED BY <3>1, <3>2
  <2>2. CASE self.cursor # NULL
    <3>1. PICK k \in 1 .. Len(s) : self.cursor = s[k]
      BY <2>2 DEF Links
    <3>2. Position(self) = k
      BY <3>1, PositionIs
    <3>3. CASE k = i
      <4>1. R.cursor = NULL
        BY <1>1, <3>1, <3>3
      <4>2. Position(R) = 0
        BY <1>1, <4>1, PositionIs
      <4> QED BY <3>2, <3>3, <4>2
    <3>4. CASE k # i
      <4>1. PICK j \in 1 .. Len(t) : j = (IF k > i THEN k - 1 ELSE k) /\ t[j] = s[k]
        <5>1. CASE k > i
          <6>1. k - 1 \in 1 .. Len(s) - 1 /\ ~ (k - 1 < i) /\ (k - 1) + 1 = k
            BY <1>2, <5>1
          <6> QED BY <1>3, <5>1, <6>1
        <5>2. CASE ~ (k > i)
          <6>1. k \in 1 .. Len(s) - 1 /\ k < i
            BY <1>2, <3>4, <5>2
          <6> QED BY <1>3, <5>2, <6>1
        <5> QED BY <5>1, <5>2
      <4>2. R.cursor = t[j]
        BY <1>1, <1>2, <3>1, <3>4, <4>1
      <4>3. Position(R) = j
        BY <1>1, <4>2, PositionIs
      <4> QED BY <3>2, <3>4, <4>1, <4>3
    <3> QED BY <3>3, <3>4
  <2> QED BY <2>1, <2>2
<1> QED BY <1>4, <1>5

-----------------------------------------------------------------------------
(* The inductive invariant *)

\* Every node of D is one of s and after the cursor.
Ahead(self, s, D) ==
    \A c \in D : \E k \in 1 .. Len(s) : c = s[k] /\ Position(self) < k

\* What the loop has still to come to is ahead of the cursor.
WalkOK ==
    /\ walk \in {"no", "going", "ended"}
    /\ walk # "going" => due = {}
    /\ Ahead(list, chain(list), due)

ListInv == Links(list, chain(list)) /\ WalkOK

LEMMA AheadPush ==
    ASSUME NEW self, NEW s, Links(self, s), DOMAIN self.node # Addresses, NEW v \in Values,
           NEW D, Ahead(self, s, D), NEW R, R = list_push(self, v)
    PROVE  Ahead(R, Append(s, malloc(self)), D \cup {R.last})
<1> DEFINE a == malloc(self)
           t == Append(s, a)
<1>1. Position(R) = Position(self) /\ Position(self) \in 0 .. Len(s) /\ R.last = a
  BY PushLinks, PushMeans, PositionIs
<1>2. s \in Seq(Addresses) /\ Len(s) \in Nat /\ a \in Addresses
  BY LinkFacts, NewNode
<1> HIDE DEF a
<1>3. /\ Len(t) = Len(s) + 1 /\ t[Len(s) + 1] = a
      /\ \A k \in 1 .. Len(s) : t[k] = s[k]
  BY <1>2, AppendProperties
<1> HIDE DEF t
<1>4. ASSUME NEW c \in D \cup {a} PROVE \E k \in 1 .. Len(t) : c = t[k] /\ Position(R) < k
  <2>1. CASE c \in D
    <3>1. PICK k \in 1 .. Len(s) : c = s[k] /\ Position(self) < k
      BY <2>1 DEF Ahead
    <3>2. k \in 1 .. Len(t)
      BY <1>2, <1>3
    <3> QED BY <1>1, <1>3, <3>1, <3>2
  <2>2. CASE c = a
    <3>1. Len(s) + 1 \in 1 .. Len(t) /\ Position(R) < Len(s) + 1
      BY <1>1, <1>2, <1>3
    <3> QED BY <1>3, <2>2, <3>1
  <2> QED BY <2>1, <2>2
<1> QED BY <1>1, <1>4 DEF Ahead, a, t

LEMMA AheadUnshift ==
    ASSUME NEW self, NEW s, Links(self, s), DOMAIN self.node # Addresses, NEW v \in Values,
           NEW D, Ahead(self, s, D), NEW R, R = list_unshift(self, v)
    PROVE  Ahead(R, <<malloc(self)>> \o s, D)
<1> DEFINE a == malloc(self)
           t == <<a>> \o s
<1>1. /\ Position(R) = IF Position(self) = 0 THEN 0 ELSE Position(self) + 1
      /\ Position(self) \in 0 .. Len(s)
  BY UnshiftMeans, PositionIs
<1>2. s \in Seq(Addresses) /\ Len(s) \in Nat /\ a \in Addresses
  BY LinkFacts, NewNode
<1> HIDE DEF a
<1>3. Len(t) = 1 + Len(s) /\ \A k \in 1 .. Len(s) : t[k + 1] = s[k]
  BY <1>2, ConsFacts
<1> HIDE DEF t
<1>4. ASSUME NEW c \in D PROVE \E k \in 1 .. Len(t) : c = t[k] /\ Position(R) < k
  <2>1. PICK k \in 1 .. Len(s) : c = s[k] /\ Position(self) < k
    BY DEF Ahead
  <2>2. k + 1 \in 1 .. Len(t) /\ c = t[k + 1] /\ Position(R) < k + 1
    BY <1>1, <1>2, <1>3, <2>1
  <2> QED BY <2>2
<1> QED BY <1>4 DEF Ahead, a, t

LEMMA AheadRemove ==
    ASSUME NEW self, NEW s, Links(self, s), NEW i \in 1 .. Len(s),
           NEW D, Ahead(self, s, D), NEW R, R = list_remove(self, s[i])
    PROVE  Ahead(R, Drop(s, i), D \cap DOMAIN R.node)
<1> DEFINE t == Drop(s, i)
<1>1. /\ Position(R) = IF Position(self) = i THEN 0
                       ELSE IF Position(self) > i THEN Position(self) - 1
                       ELSE Position(self)
      /\ Position(self) \in 0 .. Len(s)
  BY RemoveMeans, PositionIs
<1>2. /\ s \in Seq(Addresses) /\ Len(s) \in Nat
      /\ \A j, k \in 1 .. Len(s) : s[j] = s[k] => j = k
  BY LinkFacts
<1>3. /\ Len(t) = Len(s) - 1
      /\ \A k \in 1 .. Len(s) - 1 : t[k] = IF k < i THEN s[k] ELSE s[k + 1]
  BY <1>2, DropFacts
<1>4. DOMAIN R.node = {t[k] : k \in 1 .. Len(t)}
  BY RemoveLinks, LinkFacts
<1> HIDE DEF t
<1>5. ASSUME NEW c \in D, c \in DOMAIN R.node
      PROVE  \E k \in 1 .. Len(t) : c = t[k] /\ Position(R) < k
  <2>1. PICK k \in 1 .. Len(s) : c = s[k] /\ Position(self) < k
    BY DEF Ahead
  <2>2. PICK j \in 1 .. Len(t) : c = t[j]
    BY <1>4, <1>5
  <2>3. k = IF j < i THEN j ELSE j + 1
    <3>1. (IF j < i THEN j ELSE j + 1) \in 1 .. Len(s)
      BY <1>2, <1>3
    <3>2. s[IF j < i THEN j ELSE j + 1] = s[k]
      BY <1>3, <2>1, <2>2
    <3> QED BY <1>2, <3>1, <3>2
  <2>4. Position(R) < j
    BY <1>1, <1>2, <1>3, <2>1, <2>3
  <2> QED BY <2>2, <2>4
<1> QED BY <1>5 DEF Ahead, t

\* A call that leaves the loop where it is, and may change the nodes.
LEMMA WalkStays ==
    ASSUME WalkOK, NEW added, StillDue(added),
           walk = "going" =>
             Ahead(list', chain(list'), (due \cap DOMAIN list'.node) \cup added)
    PROVE  WalkOK'
<1>1. CASE walk = "going"
  BY <1>1 DEF WalkOK, StillDue
<1>2. CASE walk # "going"
  <2>1. walk' = "no" /\ due' = {}
    BY <1>2 DEF StillDue
  <2> QED BY <2>1 DEF WalkOK, Ahead
<1> QED BY <1>1, <1>2

LEMMA NoWalkKeeps ==
    ASSUME NoWalk
    PROVE  WalkOK'
BY DEF NoWalk, WalkOK, Ahead

\* The value of the node at a position
LEMMA ValueAt ==
    ASSUME NEW self, NEW s, Links(self, s), NEW c \in 0 .. Len(s)
    PROVE  value_at(self, At(s, c))
             = IF c \in DOMAIN values(self) THEN values(self)[c] ELSE NULL
<1>1. DOMAIN values(self) = 1 .. Len(s)
  BY ValuesAre
<1>2. CASE c \in 1 .. Len(s)
  BY <1>1, <1>2, LinkFacts, ValuesAre DEF At, value_at
<1>3. CASE c \notin 1 .. Len(s)
  BY <1>1, <1>3 DEF At, value_at
<1> QED BY <1>2, <1>3

LEMMA CursorIs == PositionOfCursor = Position(list) /\ PositionOfCursor' = Position(list')
BY DEF PositionOfCursor, Position

-----------------------------------------------------------------------------
(* The calls *)

LEMMA MadeLinks ==
    ASSUME NEW R, R = make_list
    PROVE  Links(R, <<>>) /\ chain(R) = <<>> /\ values(R) = <<>> /\ Position(R) = 0
<1>1. <<>> \in Seq(Addresses) /\ Len(<<>>) = 0 /\ 1 .. Len(<<>>) = {}
  OBVIOUS
<1>2. Links(R, <<>>)
  <2>1. R.node \in [{<<>>[k] : k \in 1 .. Len(<<>>)} -> Nodes]
    <3>1. {<<>>[k] : k \in 1 .. Len(<<>>)} = {}
      BY <1>1
    <3>2. R.node \in [{} -> Nodes]
      BY DEF make_list
    <3> QED BY <3>1, <3>2
  <2>2. /\ DOMAIN R = {"node", "first", "last", "cursor", "length"}
        /\ R.first = NULL /\ R.last = NULL /\ R.cursor = NULL /\ R.length = 0
    BY DEF make_list
  <2> QED BY <1>1, <2>1, <2>2 DEF Links, At
<1>3. chain(R) = <<>>
  BY <1>2, ChainIs
<1>4. values(R) = <<>>
  BY <1>1, <1>2, ValuesAre, EmptySeq
<1>5. Position(R) = 0
  BY <1>1, <1>2, PositionIs
<1> QED BY <1>2, <1>3, <1>4, <1>5

LEMMA ListInitInv == ListInit => ListInv /\ Sequence!Init
<1> SUFFICES ASSUME ListInit PROVE ListInv /\ Sequence!Init
  OBVIOUS
<1>1. Links(list, <<>>) /\ chain(list) = <<>> /\ values(list) = <<>> /\ Position(list) = 0
  BY MadeLinks DEF ListInit
<1>2. WalkOK
  BY DEF ListInit, WalkOK, Ahead
<1> QED BY <1>1, <1>2, CursorIs DEF ListInit, ListInv, Sequence!Init

LEMMA PushStep ==
    ASSUME ListInv, NEW v \in Values, Push(v)
    PROVE  ListInv' /\ Sequence!PushBack(v)
<1>1. PICK s : s = chain(list) /\ Links(list, s)
  BY DEF ListInv
<1>2. PICK R : R = list'
  OBVIOUS
<1>3. /\ DOMAIN list.node # Addresses /\ R = list_push(list, v) /\ list_result' = <<NULL>>
      /\ StillDue({R.last})
  BY <1>2 DEF Push, Becomes
<1>4. PICK t : t = Append(s, malloc(list)) /\ Links(R, t) /\ chain(R) = t
  BY <1>1, <1>3, PushLinks, ChainIs
<1>5. values(R) = Append(values(list), v) /\ Position(R) = Position(list)
  BY <1>1, <1>3, PushMeans
<1>6. WalkOK'
  <2>1. WalkOK /\ Ahead(list, s, due)
    BY <1>1 DEF ListInv, WalkOK
  <2>2. Ahead(R, t, due \cup {R.last})
    BY <1>1, <1>3, <1>4, <2>1, AheadPush
  <2>3. Ahead(R, t, (due \cap DOMAIN R.node) \cup {R.last})
    BY <2>2 DEF Ahead
  <2>4. Ahead(list', chain(list'), (due \cap DOMAIN list'.node) \cup {R.last})
    BY <1>2, <1>4, <2>3
  <2> QED BY <1>3, <2>1, <2>4, WalkStays
<1>7. ListInv'
  BY <1>2, <1>4, <1>6 DEF ListInv
<1>8. Sequence!PushBack(v)
  BY <1>2, <1>3, <1>5, CursorIs DEF Sequence!PushBack
<1> QED BY <1>7, <1>8

LEMMA UnshiftStep ==
    ASSUME ListInv, NEW v \in Values, Unshift(v)
    PROVE  ListInv' /\ Sequence!PushFront(v)
<1>1. PICK s : s = chain(list) /\ Links(list, s)
  BY DEF ListInv
<1>2. PICK R : R = list'
  OBVIOUS
<1>3. /\ DOMAIN list.node # Addresses /\ R = list_unshift(list, v) /\ list_result' = <<NULL>>
      /\ StillDue({})
  BY <1>2 DEF Unshift, Becomes
<1>4. PICK t : t = <<malloc(list)>> \o s /\ Links(R, t) /\ chain(R) = t
  BY <1>1, <1>3, UnshiftLinks, ChainIs
<1>5. /\ values(R) = <<v>> \o values(list)
      /\ Position(R) = IF Position(list) = 0 THEN 0 ELSE Position(list) + 1
  BY <1>1, <1>3, UnshiftMeans
<1>6. WalkOK'
  <2>1. WalkOK /\ Ahead(list, s, due)
    BY <1>1 DEF ListInv, WalkOK
  <2>2. Ahead(R, t, due)
    BY <1>1, <1>3, <1>4, <2>1, AheadUnshift
  <2>3. Ahead(R, t, (due \cap DOMAIN R.node) \cup {})
    BY <2>2 DEF Ahead
  <2>4. Ahead(list', chain(list'), (due \cap DOMAIN list'.node) \cup {})
    BY <1>2, <1>4, <2>3
  <2> QED BY <1>3, <2>1, <2>4, WalkStays
<1>7. ListInv'
  BY <1>2, <1>4, <1>6 DEF ListInv
<1>8. Sequence!PushFront(v)
  BY <1>2, <1>3, <1>5, CursorIs DEF Sequence!PushFront
<1> QED BY <1>7, <1>8

\* A node leaves, by whichever function.
LEMMA LeaveStep ==
    ASSUME ListInv, NEW i \in 1 .. Len(chain(list)), NEW r,
           Becomes(list_remove(list, chain(list)[i]), r), StillDue({})
    PROVE  ListInv' /\ Sequence!Leave(i, r)
<1>1. PICK s : s = chain(list) /\ Links(list, s) /\ i \in 1 .. Len(s)
  BY DEF ListInv
<1>2. PICK R : R = list'
  OBVIOUS
<1>3. R = list_remove(list, s[i]) /\ list_result' = <<r>>
  BY <1>1, <1>2 DEF Becomes
<1>4. PICK t : t = Drop(s, i) /\ Links(R, t) /\ chain(R) = t
  BY <1>1, <1>3, RemoveLinks, ChainIs
<1>5. /\ values(R) = Drop(values(list), i)
      /\ Position(R) = IF Position(list) = i THEN 0
                       ELSE IF Position(list) > i THEN Position(list) - 1
                       ELSE Position(list)
      /\ Position(list) \in 0 .. Len(s) /\ Len(s) \in Nat
      /\ DOMAIN values(list) = 1 .. Len(s) /\ Len(values(list)) = Len(s)
  BY <1>1, <1>3, RemoveMeans, PositionIs, ValuesAre, LinkFacts
<1>6. WalkOK'
  <2>1. WalkOK /\ Ahead(list, s, due)
    BY <1>1 DEF ListInv, WalkOK
  <2>2. Ahead(R, t, due \cap DOMAIN R.node)
    BY <1>1, <1>3, <1>4, <2>1, AheadRemove
  <2>3. Ahead(R, t, (due \cap DOMAIN R.node) \cup {})
    BY <2>2 DEF Ahead
  <2>4. Ahead(list', chain(list'), (due \cap DOMAIN list'.node) \cup {})
    BY <1>2, <1>4, <2>3
  <2> QED BY <2>1, <2>4, WalkStays
<1>7. ListInv'
  BY <1>2, <1>4, <1>6 DEF ListInv
<1>8. Sequence!Leave(i, r)
  <2>1. Sequence!Without(i) = Drop(values(list), i)
    BY DEF Sequence!Without, Drop
  <2>2. values(list)' = Sequence!Without(i)
    BY <1>2, <1>5, <2>1
  <2>3. i \in DOMAIN values(list)
    BY <1>1, <1>5
  <2>4. PositionOfCursor' = CASE PositionOfCursor = i -> 0
                              [] PositionOfCursor > i -> PositionOfCursor - 1
                              [] PositionOfCursor < i -> PositionOfCursor
    <3>1. PositionOfCursor = Position(list) /\ PositionOfCursor' = Position(R)
      BY <1>2, CursorIs
    <3>2. Position(list) \in Int /\ i \in Int
      BY <1>5
    <3>3. Position(R) = CASE Position(list) = i -> 0
                          [] Position(list) > i -> Position(list) - 1
                          [] Position(list) < i -> Position(list)
      BY <1>5, <3>2
    <3> QED BY <3>1, <3>3
  <2> QED BY <1>3, <2>2, <2>3, <2>4 DEF Sequence!Leave
<1> QED BY <1>7, <1>8

\* The cursor moves, and nothing else.
LEMMA MoveStep ==
    ASSUME ListInv, NEW c \in 0 .. Len(chain(list)),
           list' = [list EXCEPT !.cursor = At(chain(list), c)]
    PROVE  /\ Links(list', chain(list')) /\ chain(list') = chain(list)
           /\ list'.node = list.node /\ list'.cursor = At(chain(list), c)
           /\ values(list') = values(list) /\ PositionOfCursor' = c /\ Position(list') = c
<1>1. PICK s : s = chain(list) /\ Links(list, s) /\ c \in 0 .. Len(s)
  BY DEF ListInv
<1>2. PICK R : R = list'
  OBVIOUS
<1>3. R = [list EXCEPT !.cursor = At(s, c)]
  BY <1>1, <1>2
<1>4. /\ Links(R, s) /\ values(R) = values(list) /\ Position(R) = c
      /\ R.node = list.node /\ R.cursor = At(s, c)
  BY <1>1, <1>3, MoveMeans
<1>5. chain(R) = s
  BY <1>4, ChainIs
<1> QED BY <1>1, <1>2, <1>4, <1>5, CursorIs

\* The list and the sequence side by side.
LEMMA Here ==
    ASSUME ListInv, NEW s, s = chain(list), NEW p, p = Position(list)
    PROVE  /\ Links(list, s) /\ WalkOK /\ Len(s) \in Nat /\ DOMAIN s = 1 .. Len(s)
           /\ p \in 0 .. Len(s) /\ p = PositionOfCursor /\ list.cursor = At(s, p)
           /\ list.cursor = NULL <=> p = 0
           /\ list.first = At(s, 1) /\ list.last = At(s, Len(s)) /\ list.length = Len(s)
           /\ Len(values(list)) = Len(s) /\ DOMAIN values(list) = 1 .. Len(s)
           /\ values(list) = <<>> <=> Len(s) = 0
           /\ Sequence!Front = (IF Len(s) = 0 THEN 0 ELSE 1)
           /\ Sequence!Front \in 0 .. Len(s) /\ At(s, 1) = At(s, Sequence!Front)
<1>1. Links(list, s) /\ WalkOK /\ Len(s) \in Nat /\ DOMAIN s = 1 .. Len(s)
  BY LinkFacts DEF ListInv
<1>2. p \in 0 .. Len(s) /\ p = PositionOfCursor /\ (list.cursor = NULL <=> p = 0)
  BY <1>1, PositionIs, CursorIs
<1>3. list.cursor = At(s, p)
  <2>1. CASE p = 0
    BY <1>2, <2>1 DEF At
  <2>2. CASE p # 0
    <3>1. p \in 1 .. Len(s)
      BY <1>2, <2>2
    <3>2. list.cursor = s[p]
      BY <1>1, <3>1, PositionIs
    <3> QED BY <3>1, <3>2 DEF At
  <2> QED BY <2>1, <2>2
<1>4. /\ values(list) \in Seq(Values) /\ Len(values(list)) = Len(s)
      /\ DOMAIN values(list) = 1 .. Len(s)
  BY <1>1, ValuesAre
<1>5. values(list) = <<>> <=> Len(s) = 0
  BY <1>4, EmptySeq
<1>6. Sequence!Front = (IF Len(s) = 0 THEN 0 ELSE 1)
  BY <1>5 DEF Sequence!Front
<1>7. Sequence!Front \in 0 .. Len(s) /\ At(s, 1) = At(s, Sequence!Front)
  BY <1>1, <1>6 DEF At
<1> QED BY <1>1, <1>2, <1>3, <1>4, <1>5, <1>6, <1>7 DEF Links

\* A call that answers and leaves the list as it is.
LEMMA AnswerStep ==
    ASSUME ListInv, NEW r, Becomes(list, r), StillDue({})
    PROVE  ListInv' /\ Sequence!Answer(r)
<1>1. list' = list /\ list_result' = <<r>>
  BY DEF Becomes
<1>2. WalkOK'
  <2>1. WalkOK /\ Ahead(list, chain(list), due)
    BY DEF ListInv, WalkOK
  <2>2. Ahead(list, chain(list), (due \cap DOMAIN list.node) \cup {})
    BY <2>1 DEF Ahead
  <2>3. Ahead(list', chain(list'), (due \cap DOMAIN list'.node) \cup {})
    BY <1>1, <2>2
  <2> QED BY <2>1, <2>3, WalkStays
<1>3. ListInv'
  BY <1>1, <1>2 DEF ListInv
<1>4. Sequence!Answer(r)
  BY <1>1, CursorIs DEF Sequence!Answer
<1> QED BY <1>3, <1>4

\* Nothing leaves an empty list, whose cursor the code sets to NULL again.
LEMMA EmptyStep ==
    ASSUME ListInv, Len(chain(list)) = 0,
           Becomes([list EXCEPT !.cursor = NULL], NULL), StillDue({})
    PROVE  ListInv' /\ Sequence!Next
<1>1. PICK s, p : s = chain(list) /\ p = Position(list)
  OBVIOUS
<1>2. p = 0 /\ p = PositionOfCursor /\ values(list) = <<>> /\ WalkOK /\ 0 \in 0 .. Len(s)
  BY <1>1, Here
<1>3. list' = [list EXCEPT !.cursor = At(chain(list), 0)] /\ list_result' = <<NULL>>
  BY <1>1, <1>2 DEF Becomes, At
<1>4. /\ Links(list', chain(list')) /\ chain(list') = chain(list) /\ list'.node = list.node
      /\ values(list') = values(list) /\ PositionOfCursor' = 0 /\ Position(list') = 0
  BY <1>1, <1>2, <1>3, MoveStep
<1>5. WalkOK'
  <2>1. Ahead(list', chain(list'), (due \cap DOMAIN list'.node) \cup {})
    BY <1>1, <1>2, <1>4 DEF Ahead, WalkOK
  <2> QED BY <1>2, <2>1, WalkStays
<1>6. Sequence!Answer(NULL)
  BY <1>1, <1>2, <1>3, <1>4 DEF Sequence!Answer
<1> QED BY <1>2, <1>4, <1>5, <1>6 DEF ListInv, Sequence!Next

\* The value that a function gives back when it has moved the cursor
LEMMA MovedTo ==
    ASSUME ListInv, NEW c \in 0 .. Len(chain(list)),
           Moved([list EXCEPT !.cursor = At(chain(list), c)])
    PROVE  Sequence!MoveTo(c) /\ list' = [list EXCEPT !.cursor = At(chain(list), c)]
<1> DEFINE R == [list EXCEPT !.cursor = At(chain(list), c)]
<1>1. list' = R /\ list_result' = <<value_at(R, R.cursor)>>
  BY DEF Moved, Becomes
<1>2. /\ Links(R, chain(list)) /\ values(R) = values(list) /\ R.cursor = At(chain(list), c)
      /\ PositionOfCursor' = c
  <2>1. Links(list, chain(list))
    BY DEF ListInv
  <2>2. list' = R => PositionOfCursor' = c
    BY MoveStep
  <2> QED BY <1>1, <2>1, <2>2, MoveMeans
<1> HIDE DEF R
<1>3. value_at(R, R.cursor) = Sequence!ItemAt(c)
  BY <1>2, ValueAt DEF Sequence!ItemAt
<1>4. Sequence!MoveTo(c)
  BY <1>1, <1>2, <1>3 DEF Sequence!MoveTo
<1> QED BY <1>1, <1>4 DEF R

LEMMA PopStep ==
    ASSUME ListInv, Pop
    PROVE  ListInv' /\ Sequence!Next
<1>1. PICK s, p : s = chain(list) /\ p = Position(list)
  OBVIOUS
<1>2. /\ Links(list, s) /\ Len(s) \in Nat /\ list.last = At(s, Len(s))
      /\ (list.cursor = NULL <=> p = 0) /\ p \in 0 .. Len(s)
      /\ Len(values(list)) = Len(s) /\ (values(list) = <<>> <=> Len(s) = 0)
  BY <1>1, Here
<1>3. Becomes(list_pop(list), value_at(list, list.last)) /\ StillDue({})
  BY DEF Pop
<1>4. value_at(list, list.last) = Sequence!ItemAt(Len(values(list)))
  <2>1. Len(s) \in 0 .. Len(s)
    BY <1>2
  <2> QED BY <1>2, <2>1, ValueAt DEF Sequence!ItemAt
<1>5. CASE Len(s) = 0
  <2>1. list.last = NULL /\ list.cursor = NULL
    BY <1>2, <1>5 DEF At
  <2>2. list_pop(list) = [list EXCEPT !.cursor = NULL]
    BY <2>1 DEF list_pop
  <2>3. Becomes([list EXCEPT !.cursor = NULL], NULL)
    BY <1>3, <2>1, <2>2 DEF value_at
  <2> QED BY <1>1, <1>3, <1>5, <2>3, EmptyStep
<1>6. CASE Len(s) # 0
  <2>1. Len(s) > 0 /\ Len(s) \in 1 .. Len(chain(list))
    BY <1>1, <1>2, <1>6
  <2>2. list_pop(list) = list_remove(list, s[Len(s)])
    BY <1>2, <2>1, PopRemoves
  <2>3. Becomes(list_remove(list, chain(list)[Len(s)]), Sequence!ItemAt(Len(values(list))))
    BY <1>1, <1>3, <1>4, <2>2
  <2>4. ListInv' /\ Sequence!Leave(Len(s), Sequence!ItemAt(Len(values(list))))
    BY <1>3, <2>1, <2>3, LeaveStep
  <2>5. Sequence!PopBack
    BY <1>2, <2>4 DEF Sequence!PopBack
  <2> QED BY <2>4, <2>5 DEF Sequence!Next
<1> QED BY <1>5, <1>6

LEMMA ShiftStep ==
    ASSUME ListInv, Shift
    PROVE  ListInv' /\ Sequence!Next
<1>1. PICK s, p : s = chain(list) /\ p = Position(list)
  OBVIOUS
<1>2. /\ Links(list, s) /\ Len(s) \in Nat /\ list.first = At(s, 1)
      /\ (list.cursor = NULL <=> p = 0) /\ p \in 0 .. Len(s)
      /\ DOMAIN values(list) = 1 .. Len(s) /\ (values(list) = <<>> <=> Len(s) = 0)
  BY <1>1, Here
<1>3. Becomes(list_shift(list), value_at(list, list.first)) /\ StillDue({})
  BY DEF Shift
<1>5. CASE Len(s) = 0
  <2>1. list.first = NULL /\ list.cursor = NULL
    BY <1>2, <1>5 DEF At
  <2>2. list_shift(list) = [list EXCEPT !.cursor = NULL]
    BY <2>1 DEF list_shift
  <2>3. Becomes([list EXCEPT !.cursor = NULL], NULL)
    BY <1>3, <2>1, <2>2 DEF value_at
  <2> QED BY <1>1, <1>3, <1>5, <2>3, EmptyStep
<1>6. CASE Len(s) # 0
  <2>1. Len(s) > 0 /\ 1 \in 1 .. Len(chain(list)) /\ 1 \in 0 .. Len(s)
    BY <1>1, <1>2, <1>6
  <2>2. list_shift(list) = list_remove(list, s[1])
    BY <1>2, <2>1, ShiftRemoves
  <2>3. value_at(list, list.first) = Sequence!ItemAt(1)
    BY <1>2, <2>1, ValueAt DEF Sequence!ItemAt
  <2>4. Becomes(list_remove(list, chain(list)[1]), Sequence!ItemAt(1))
    BY <1>1, <1>3, <2>2, <2>3
  <2>5. ListInv' /\ Sequence!Leave(1, Sequence!ItemAt(1))
    BY <1>3, <2>1, <2>4, LeaveStep
  <2> QED BY <2>5 DEF Sequence!PopFront, Sequence!Next
<1> QED BY <1>5, <1>6

LEMMA RemoveStep ==
    ASSUME ListInv, NEW v \in Values, Remove(v)
    PROVE  ListInv' /\ Sequence!Next
<1>1. PICK s, p : s = chain(list) /\ p = Position(list)
  OBVIOUS
<1>2. PICK i : i = Sequence!PositionOf(v)
  OBVIOUS
<1>3. Links(list, s)
  BY <1>1, Here
<1>4. i \in 0 .. Len(s) /\ matching(list, v) = At(s, i) /\ (matching(list, v) = NULL <=> i = 0)
  BY <1>2, <1>3, MatchingIs
<1>5. CASE i = 0
  <2>1. Becomes(list, FALSE) /\ StillDue({})
    BY <1>4, <1>5 DEF Remove
  <2>2. ListInv' /\ Sequence!Answer(FALSE)
    BY <2>1, AnswerStep
  <2>3. (Sequence!PositionOf(v) # 0) = FALSE
    BY <1>2, <1>5
  <2>4. Sequence!Answer(Sequence!PositionOf(v) # 0)
    BY <2>2, <2>3
  <2> QED BY <2>2, <2>4 DEF Sequence!Next
<1>6. CASE i # 0
  <2>1. i \in 1 .. Len(s) /\ At(s, i) = s[i]
    BY <1>4, <1>6 DEF At
  <2>2. Becomes(list_remove(list, chain(list)[i]), TRUE) /\ StillDue({})
    BY <1>1, <1>4, <1>6, <2>1 DEF Remove
  <2>3. ListInv' /\ Sequence!Leave(i, TRUE)
    BY <1>1, <2>1, <2>2, LeaveStep
  <2>4. Sequence!Remove(v)
    BY <1>2, <2>3 DEF Sequence!Remove
  <2> QED BY <2>3, <2>4 DEF Sequence!Next
<1> QED BY <1>5, <1>6

LEMMA AskStep ==
    ASSUME ListInv, Ask
    PROVE  ListInv' /\ Sequence!Next
<1>1. PICK s, p : s = chain(list) /\ p = Position(list)
  OBVIOUS
<1>2. /\ Links(list, s) /\ Len(s) \in Nat /\ p \in 0 .. Len(s) /\ p = PositionOfCursor
      /\ list.cursor = At(s, p) /\ list.last = At(s, Len(s)) /\ list.length = Len(s)
      /\ Len(values(list)) = Len(s) /\ DOMAIN values(list) = 1 .. Len(s)
  BY <1>1, Here
<1>3. StillDue({})
  BY DEF Ask
<1>4. ASSUME NEW v \in Values, Becomes(list, matching(list, v) # NULL)
      PROVE  ListInv' /\ Sequence!Next
  <2>1. (matching(list, v) # NULL) = (Sequence!PositionOf(v) # 0)
    BY <1>2, MatchingIs
  <2>2. ListInv' /\ Sequence!Answer(matching(list, v) # NULL)
    BY <1>3, <1>4, AnswerStep
  <2>3. Sequence!Answer(Sequence!PositionOf(v) # 0)
    BY <2>1, <2>2, Zenon
  <2> QED BY <2>2, <2>3 DEF Sequence!Next
<1>5. ASSUME NEW i \in 0 .. list.length,
             Becomes(list, IF i < list.length THEN values(list)[i + 1] ELSE NULL)
      PROVE  ListInv' /\ Sequence!Next
  <2>1. (IF i < list.length THEN values(list)[i + 1] ELSE NULL) = Sequence!ItemAt(i + 1)
    <3>1. i < list.length <=> i + 1 \in DOMAIN values(list)
      BY <1>2
    <3> QED BY <3>1 DEF Sequence!ItemAt
  <2>2. ListInv' /\ Sequence!Answer(Sequence!ItemAt(i + 1))
    BY <1>3, <1>5, <2>1, AnswerStep
  <2>3. i \in 0 .. Len(values(list))
    BY <1>2
  <2> QED BY <2>2, <2>3 DEF Sequence!Next
<1>6. ASSUME Becomes(list, list.cursor = list.last)
      PROVE  ListInv' /\ Sequence!Next
  <2>1. (list.cursor = list.last) = (PositionOfCursor = Len(values(list)))
    <3>1. \A k \in 1 .. Len(s) : s[k] # NULL
      BY <1>2, LinkFacts
    <3>2. \A j, k \in 1 .. Len(s) : s[j] = s[k] => j = k
      BY <1>2, LinkFacts
    <3>3. ASSUME p # Len(s) PROVE At(s, p) # At(s, Len(s))
      <4>0. Len(s) \in Nat /\ p \in 0 .. Len(s)
        BY <1>2
      <4>1. Len(s) \in 1 .. Len(s) /\ At(s, Len(s)) = s[Len(s)]
        <5>1. Len(s) \in 1 .. Len(s)
          BY <3>3, <4>0
        <5> QED BY <5>1 DEF At
      <4>2. CASE p = 0
        BY <3>1, <4>1, <4>2 DEF At
      <4>3. CASE p # 0
        <5>1. p \in 1 .. Len(s) /\ At(s, p) = s[p]
          BY <4>0, <4>3 DEF At
        <5> QED BY <3>2, <3>3, <4>1, <5>1
      <4> QED BY <4>2, <4>3
    <3> QED BY <1>2, <3>3
  <2>2. ListInv' /\ Sequence!Answer(list.cursor = list.last)
    BY <1>3, <1>6, AnswerStep
  <2>3. Sequence!Answer(PositionOfCursor = Len(values(list)))
    BY <2>1, <2>2, Zenon
  <2> QED BY <2>2, <2>3, SMTT(40) DEF Sequence!Next
<1> QED BY <1>4, <1>5, <1>6 DEF Ask

LEMMA FirstStep ==
    ASSUME ListInv, First
    PROVE  ListInv' /\ Sequence!Next
<1>1. PICK s, p, c : s = chain(list) /\ p = Position(list) /\ c = Sequence!Front
  OBVIOUS
<1>2. /\ Links(list, s) /\ Len(s) \in Nat /\ list.first = At(s, 1)
      /\ c = (IF Len(s) = 0 THEN 0 ELSE 1) /\ c \in 0 .. Len(s) /\ At(s, 1) = At(s, c)
  BY <1>1, Here
<1>3. Moved([list EXCEPT !.cursor = At(chain(list), c)])
  BY <1>1, <1>2 DEF First
<1>4. /\ Sequence!MoveTo(c) /\ Links(list', chain(list')) /\ chain(list') = s
      /\ Position(list') = c
  BY <1>1, <1>2, <1>3, MovedTo, MoveStep
<1>5. /\ walk' = IF list.first = NULL THEN "ended" ELSE "going"
      /\ due' = DOMAIN list.node \ {list.first}
  BY DEF First
<1>6. DOMAIN list.node = {s[k] : k \in 1 .. Len(s)} /\ \A k \in 1 .. Len(s) : s[k] # NULL
  BY <1>2, LinkFacts
<1>7. walk' \in {"no", "going", "ended"} /\ (walk' # "going" => due' = {})
  <2>1. CASE Len(s) = 0
    BY <1>5, <1>6, <2>1
  <2>2. CASE Len(s) # 0
    <3>1. list.first # NULL
      BY <1>2, <1>6, <2>2 DEF At
    <3> QED BY <1>5, <3>1
  <2> QED BY <2>1, <2>2
<1>8. Ahead(list', chain(list'), due')
  <2>1. ASSUME NEW a \in due' PROVE \E k \in 1 .. Len(s) : a = s[k] /\ c < k
    <3>1. PICK k \in 1 .. Len(s) : a = s[k]
      BY <1>5, <1>6
    <3>2. 1 \in 1 .. Len(s) /\ list.first = s[1] /\ c = 1
      BY <1>2 DEF At
    <3>3. k # 1
      BY <1>5, <3>1, <3>2
    <3>4. c < k
      BY <3>2, <3>3
    <3> QED BY <3>1, <3>4
  <2> QED BY <1>4, <2>1 DEF Ahead
<1>9. ListInv'
  BY <1>4, <1>7, <1>8 DEF ListInv, WalkOK
<1> QED BY <1>1, <1>4, <1>9 DEF Sequence!Next

\* Where list_next goes from the position p of n
After(p, n) == IF p = n THEN 0 ELSE p + 1

LEMMA NextMoves ==
    ASSUME ListInv, NEW s, s = chain(list), NEW p, p = Position(list)
    PROVE  list_next(list) = [list EXCEPT !.cursor = At(s, After(p, Len(s)))]
<1>1. /\ Links(list, s) /\ Len(s) \in Nat /\ p \in 0 .. Len(s) /\ list.cursor = At(s, p)
      /\ (list.cursor = NULL <=> p = 0) /\ list.first = At(s, 1)
  BY Here
<1>2. CASE p = 0
  <2>1. list_next(list) = [list EXCEPT !.cursor = list.first]
    BY <1>1, <1>2 DEF list_next
  <2>2. At(s, 1) = At(s, After(p, Len(s)))
    BY <1>1, <1>2 DEF At, After
  <2> QED BY <1>1, <2>1, <2>2
<1>3. CASE p # 0
  <2>1. list_next(list) = [list EXCEPT !.cursor = list.node[list.cursor].next]
    BY <1>1, <1>3 DEF list_next
  <2>2. p \in 1 .. Len(s) /\ list.cursor = s[p]
    BY <1>1, <1>3 DEF At
  <2>3. list.node[list.cursor].next = At(s, p + 1)
    BY <1>1, <2>2 DEF Links
  <2>4. At(s, p + 1) = At(s, After(p, Len(s)))
    BY <1>1, <2>2 DEF At, After
  <2> QED BY <2>1, <2>3, <2>4
<1> QED BY <1>2, <1>3

LEMMA ForwardStep ==
    ASSUME ListInv, Forward
    PROVE  ListInv' /\ Sequence!Forward
<1>1. PICK s, p : s = chain(list) /\ p = Position(list)
  OBVIOUS
<1>2. PICK c : c = After(p, Len(s))
  OBVIOUS
<1>3. /\ Links(list, s) /\ Len(s) \in Nat /\ p \in 0 .. Len(s) /\ p = PositionOfCursor
      /\ Len(values(list)) = Len(s) /\ WalkOK
      /\ Sequence!Front = (IF Len(s) = 0 THEN 0 ELSE 1)
  BY <1>1, Here
<1>4. c \in 0 .. Len(s)
  BY <1>2, <1>3 DEF After
<1>5. Moved([list EXCEPT !.cursor = At(chain(list), c)])
  BY <1>1, <1>2, NextMoves DEF Forward
<1>6. /\ Sequence!MoveTo(c) /\ Links(list', chain(list')) /\ chain(list') = s
      /\ Position(list') = c /\ list'.cursor = At(s, c)
  BY <1>1, <1>4, <1>5, MovedTo, MoveStep
<1>7. Sequence!Forward
  <2>1. c = IF PositionOfCursor = Len(values(list))
            THEN IF PositionOfCursor = 0 THEN Sequence!Front ELSE 0
            ELSE PositionOfCursor + 1
    BY <1>2, <1>3 DEF After
  <2> QED BY <1>6, <2>1 DEF Sequence!Forward
<1>8. WalkOK'
  <2>1. CASE walk # "going"
    BY <2>1, NoWalkKeeps DEF Forward
  <2>2. CASE walk = "going"
    <3>1. /\ walk' = IF list'.cursor = NULL THEN "ended" ELSE walk
          /\ due' = due \ {list'.cursor}
      BY <2>2 DEF Forward
    <3>2. \A a \in due : \E k \in 1 .. Len(s) : a = s[k] /\ p < k
      BY <1>1, <1>3 DEF WalkOK, Ahead
    <3>3. \A k \in 1 .. Len(s) : s[k] # NULL
      BY <1>3, LinkFacts
    <3>4. CASE p = Len(s)
      <4>1. list'.cursor = NULL
        BY <1>2, <1>6, <3>4 DEF After, At
      <4>2. due = {}
        <5>1. ASSUME NEW a \in due PROVE FALSE
          <6>1. PICK k \in 1 .. Len(s) : a = s[k] /\ p < k
            BY <3>2
          <6> QED BY <1>3, <3>4, <6>1
        <5> QED BY <5>1
      <4> QED BY <3>1, <4>1, <4>2 DEF WalkOK, Ahead
    <3>5. CASE p # Len(s)
      <4>1. c = p + 1 /\ c \in 1 .. Len(s)
        BY <1>2, <1>3, <3>5 DEF After
      <4>2. list'.cursor = s[c] /\ list'.cursor # NULL
        BY <1>6, <3>3, <4>1 DEF At
      <4>3. Ahead(list', chain(list'), due')
        <5>1. ASSUME NEW a \in due' PROVE \E k \in 1 .. Len(s) : a = s[k] /\ c < k
          <6>1. PICK k \in 1 .. Len(s) : a = s[k] /\ p < k
            BY <3>1, <3>2
          <6>2. k # c
            BY <3>1, <4>2, <6>1
          <6>3. c < k
            BY <1>3, <4>1, <6>1, <6>2
          <6> QED BY <6>1, <6>3
        <5> QED BY <1>6, <5>1 DEF Ahead
      <4> QED BY <2>2, <3>1, <4>2, <4>3 DEF WalkOK
    <3> QED BY <3>4, <3>5
  <2> QED BY <2>1, <2>2
<1>9. ListInv'
  BY <1>6, <1>8 DEF ListInv
<1> QED BY <1>7, <1>9

\* A move of the cursor that is not part of the loop
LEMMA JumpStep ==
    ASSUME ListInv, NoWalk, NEW c \in 0 .. Len(chain(list)),
           list' = [list EXCEPT !.cursor = At(chain(list), c)]
    PROVE  ListInv'
<1>1. Links(list', chain(list'))
  BY MoveStep
<1> QED BY <1>1, NoWalkKeeps DEF ListInv

LEMMA BackwardStep ==
    ASSUME ListInv, Backward
    PROVE  ListInv' /\ Sequence!Backward
<1>1. PICK s, p : s = chain(list) /\ p = Position(list)
  OBVIOUS
<1>2. PICK c : c = IF p = 0 THEN Len(s) ELSE p - 1
  OBVIOUS
<1>3. /\ Links(list, s) /\ Len(s) \in Nat /\ p \in 0 .. Len(s) /\ p = PositionOfCursor
      /\ Len(values(list)) = Len(s) /\ list.cursor = At(s, p)
      /\ (list.cursor = NULL <=> p = 0) /\ list.last = At(s, Len(s))
  BY <1>1, Here
<1>4. c \in 0 .. Len(s)
  BY <1>2, <1>3
<1>5. list_prev(list) = [list EXCEPT !.cursor = At(s, c)]
  <2>1. CASE p = 0
    <3>1. list_prev(list) = [list EXCEPT !.cursor = list.last]
      BY <1>3, <2>1 DEF list_prev
    <3> QED BY <1>2, <1>3, <2>1, <3>1
  <2>2. CASE p # 0
    <3>1. list_prev(list) = [list EXCEPT !.cursor = list.node[list.cursor].prev]
      BY <1>3, <2>2 DEF list_prev
    <3>2. p \in 1 .. Len(s) /\ list.cursor = s[p]
      BY <1>3, <2>2 DEF At
    <3>3. list.node[list.cursor].prev = At(s, p - 1)
      BY <1>3, <3>2 DEF Links
    <3> QED BY <1>2, <2>2, <3>1, <3>3
  <2> QED BY <2>1, <2>2
<1>6. Moved([list EXCEPT !.cursor = At(chain(list), c)]) /\ NoWalk
  BY <1>1, <1>5 DEF Backward
<1>7. Sequence!MoveTo(c) /\ ListInv'
  BY <1>1, <1>4, <1>6, MovedTo, JumpStep
<1>8. c = IF PositionOfCursor = 0 THEN Len(values(list)) ELSE PositionOfCursor - 1
  BY <1>2, <1>3
<1> QED BY <1>7, <1>8 DEF Sequence!Backward

LEMMA FinalStep ==
    ASSUME ListInv, Final
    PROVE  ListInv' /\ Sequence!Next
<1>1. PICK s, p : s = chain(list) /\ p = Position(list)
  OBVIOUS
<1>2. Len(s) \in 0 .. Len(s) /\ list.last = At(s, Len(s)) /\ Len(values(list)) = Len(s)
  BY <1>1, Here
<1>3. Moved([list EXCEPT !.cursor = At(chain(list), Len(s))]) /\ NoWalk
  BY <1>1, <1>2 DEF Final
<1>4. Sequence!MoveTo(Len(values(list))) /\ ListInv'
  BY <1>1, <1>2, <1>3, MovedTo, JumpStep
<1> QED BY <1>4 DEF Sequence!Next

LEMMA FindStep ==
    ASSUME ListInv, NEW v \in Values, Find(v)
    PROVE  ListInv' /\ Sequence!Find(v)
<1>1. PICK s, p, i : s = chain(list) /\ p = Position(list) /\ i = Sequence!PositionOf(v)
  OBVIOUS
<1>2. PICK c : c = IF i = 0 THEN Sequence!Front ELSE i
  OBVIOUS
<1>3. /\ Links(list, s) /\ list.first = At(s, 1) /\ Len(values(list)) = Len(s)
      /\ Sequence!Front \in 0 .. Len(s) /\ At(s, 1) = At(s, Sequence!Front)
  BY <1>1, Here
<1>4. i \in 0 .. Len(s) /\ matching(list, v) = At(s, i) /\ (matching(list, v) = NULL <=> i = 0)
  BY <1>1, <1>3, MatchingIs
<1>5. c \in 0 .. Len(s) /\ list_find(list, v) = [list EXCEPT !.cursor = At(s, c)]
  BY <1>2, <1>3, <1>4 DEF list_find
<1>6. /\ list' = [list EXCEPT !.cursor = At(chain(list), c)] /\ NoWalk
      /\ list_result' = <<value_at(list, At(s, i))>>
  BY <1>1, <1>4, <1>5 DEF Find, Becomes
<1>7. ListInv' /\ values(list') = values(list) /\ PositionOfCursor' = c
  BY <1>1, <1>5, <1>6, JumpStep, MoveStep
<1>8. value_at(list, At(s, i)) = Sequence!ItemAt(Sequence!PositionOf(v))
  BY <1>1, <1>3, <1>4, ValueAt DEF Sequence!ItemAt
<1>9. Sequence!Find(v)
  BY <1>1, <1>2, <1>6, <1>7, <1>8 DEF Sequence!Find
<1> QED BY <1>7, <1>9

LEMMA CopyStep ==
    ASSUME ListInv, Copy
    PROVE  ListInv' /\ Sequence!Next
<1>1. PICK s, p : s = chain(list) /\ p = Position(list)
  OBVIOUS
<1>2. /\ 0 \in 0 .. Len(s) /\ list.length = Len(values(list))
  BY <1>1, Here
<1>3. list' = [list EXCEPT !.cursor = At(chain(list), 0)] /\ NoWalk
  BY DEF Copy, At
<1>4. ListInv' /\ values(list') = values(list) /\ PositionOfCursor' = 0
  BY <1>1, <1>2, <1>3, JumpStep, MoveStep
<1>5. \/ list_result' = values(list)
      \/ list_result' = [i \in DOMAIN values(list) |-> values(list)[Len(values(list)) + 1 - i]]
  BY <1>2 DEF Copy, list_copy, list_copy_reversed
<1>6. \/ Sequence!Copy(values(list))
      \/ Sequence!Copy([i \in DOMAIN values(list) |-> values(list)[Len(values(list)) + 1 - i]])
  BY <1>4, <1>5 DEF Sequence!Copy
<1> QED BY <1>4, <1>6 DEF Sequence!Next

LEMMA PurgeStep ==
    ASSUME Purge
    PROVE  ListInv' /\ Sequence!Clear
<1>1. PICK R : R = list' /\ R = make_list /\ list_result' = <<NULL>>
  BY DEF Purge, Becomes
<1>2. Links(R, <<>>) /\ chain(R) = <<>> /\ values(R) = <<>> /\ Position(R) = 0
  BY <1>1, MadeLinks
<1>3. ListInv'
  BY <1>1, <1>2, NoWalkKeeps DEF ListInv, Purge
<1> QED BY <1>1, <1>2, <1>3, CursorIs DEF Sequence!Clear

\* Every call keeps the invariant and is one of the abstract sequence's.
LEMMA ListStep ==
    ListInv /\ [ListNext]_list_vars => ListInv' /\ [Sequence!Next]_(Sequence!vars)
<1> SUFFICES ASSUME ListInv, [ListNext]_list_vars
             PROVE  ListInv' /\ [Sequence!Next]_(Sequence!vars)
  OBVIOUS
<1>1. ASSUME NEW v \in Values, Push(v) \/ Unshift(v) \/ Remove(v) \/ Find(v)
      PROVE  ListInv' /\ Sequence!Next
  BY <1>1, PushStep, UnshiftStep, RemoveStep, FindStep DEF Sequence!Next
<1>2. CASE Pop \/ Shift \/ Ask
  BY <1>2, PopStep, ShiftStep, AskStep
<1>3. CASE First \/ Forward \/ Backward \/ Final
  BY <1>3, FirstStep, ForwardStep, BackwardStep, FinalStep DEF Sequence!Next
<1>4. CASE Copy \/ Purge
  BY <1>4, CopyStep, PurgeStep DEF Sequence!Next
<1>5. CASE UNCHANGED list_vars
  <2>1. list' = list /\ list_result' = list_result /\ walk' = walk /\ due' = due
    BY <1>5 DEF list_vars
  <2>2. ListInv'
    BY <2>1 DEF ListInv, WalkOK
  <2>3. UNCHANGED Sequence!vars
    BY <2>1, CursorIs DEF Sequence!vars
  <2> QED BY <2>2, <2>3
<1> QED BY <1>1, <1>2, <1>3, <1>4, <1>5 DEF ListNext

\* The links, the ends, the length and the cursor of a list always agree, and
\* what a loop has still to come to is ahead of the cursor.
THEOREM ListInvariant == ListSpec => []ListInv
BY ListInitInv, ListStep, PTL DEF ListSpec

\* No loop over a list misses a value that is in it, whatever calls its body
\* makes meanwhile (list.c:156, 218).
THEOREM ListNoneMissed == ListSpec => []NoneMissed
<1>1. ListInv => NoneMissed
  BY DEF ListInv, WalkOK, NoneMissed
<1> QED BY <1>1, ListInvariant, PTL

\* list_t is a sequence with a cursor (list.c:142-332): each function does to
\* the values, the cursor and the result what CursorList says.
THEOREM ListImplements == ListSpec => ListIsSequence
BY ListInitInv, ListStep, ListInvariant, PTL DEF ListSpec, ListIsSequence, Sequence!Spec
================================================================================
