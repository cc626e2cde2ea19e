--------------------------------- MODULE Stack ---------------------------------
(***************************************************************************)
(* array_t and stack_t (src/helpers/array/array.h, array.c,                *)
(* src/helpers/stack/stack.h): a block of pointers that is reallocated     *)
(* when it is full, and the stack on it.  stack_tuck_n takes its pops and  *)
(* pushes one at a time; the values between are in a list of its own.      *)
(***************************************************************************)
EXTENDS Containers

CONSTANTS
    Sizes,      \* that arrays are made with, and their grow_step
    SizeBound   \* no call makes an array larger

ASSUME StackAssumption == Sizes \subseteq Nat \ {0} /\ SizeBound \in Nat

VARIABLES
    array,        \* the struct, values being a function on 0 .. size - 1
    array_reply,  \* of the last call: <<>>, or an index and what was there
    tuck          \* of stack_tuck_n: its phase, target, n - i and value_list

stack_vars == <<array, array_reply, tuck>>

NoTuck == [phase |-> "no", target |-> NULL, n |-> 0, rest |-> <<>>]

make_array(size) ==
    [size |-> size, grow_step |-> size, cursor |-> 0,
     values |-> [i \in 0 .. size - 1 |-> NULL]]

StackInit ==
    /\ \E size \in Sizes : array = make_array(size)
    /\ array_reply = <<>>
    /\ tuck = NoTuck

\* reallocate_pointers clears what it adds.
array_resize(self, larger_size) ==
    [self EXCEPT
       !.size = larger_size,
       !.values = [i \in 0 .. larger_size - 1 |->
                     IF i < self.size THEN self.values[i] ELSE NULL]]

\* A slip: the pointer stays in the block.
array_pop_kept(self) == [self EXCEPT !.cursor = @ - 1]

array_pop(self) ==
    [self EXCEPT !.cursor = @ - 1, !.values[self.cursor - 1] = NULL]

array_push(self, value) ==
    LET larger == IF self.cursor = self.size
                  THEN array_resize(self, self.size + self.grow_step) ELSE self
    IN [larger EXCEPT !.cursor = @ + 1, !.values[self.cursor] = value]

array_set(self, index, value) ==
    LET larger == IF index >= self.size
                  THEN array_resize(self, index + self.grow_step) ELSE self
    IN [larger EXCEPT !.values[index] = value,
                      !.cursor = IF index >= @ THEN index + 1 ELSE @]

array_get(self, index) ==
    IF index >= self.size THEN NULL ELSE self.values[index]

-----------------------------------------------------------------------------
(* The calls, whose assertions hold *)

Idle == tuck.phase = "no"

Replies(self, r) == array' = self /\ array_reply' = r

ArrayResize(larger_size) ==
    /\ Idle /\ larger_size >= array.size
    /\ Replies(array_resize(array, larger_size), <<>>)
    /\ UNCHANGED tuck

ArrayPush(v) ==
    /\ Idle
    /\ Replies(array_push(array, v), <<>>)
    /\ array'.size <= SizeBound
    /\ UNCHANGED tuck

ArrayPop ==
    /\ Idle /\ array.cursor > 0
    /\ Replies(array_pop(array),
               <<array.cursor - 1, array.values[array.cursor - 1]>>)
    /\ UNCHANGED tuck

ArraySet(index, v) ==
    /\ Idle
    /\ Replies(array_set(array, index, v), <<>>)
    /\ array'.size <= SizeBound
    /\ UNCHANGED tuck

ArrayGet(index) ==
    /\ Idle
    /\ Replies(array, <<index, array_get(array, index)>>)
    /\ UNCHANGED tuck

\* array_pick, and array_top for a back_index of 0
ArrayPick(back_index) ==
    /\ Idle /\ back_index < array.cursor
    /\ LET index == array.cursor - 1 - back_index
       IN Replies(array, <<index, array_get(array, index)>>)
    /\ UNCHANGED tuck

ArrayPurge ==
    /\ Idle
    /\ Replies([array EXCEPT !.cursor = 0,
                             !.values = [i \in DOMAIN @ |-> NULL]], <<>>)
    /\ UNCHANGED tuck

\* stack_tuck_n asserts that none of the values it pops is NULL.
TuckCall(target, n) ==
    /\ Idle /\ n <= array.cursor /\ array.cursor < SizeBound
    /\ \A i \in array.cursor - n .. array.cursor - 1 : array.values[i] # NULL
    /\ tuck' = [phase |-> "pop", target |-> target, n |-> n, rest |-> <<>>]
    /\ UNCHANGED <<array, array_reply>>

TuckPop ==
    /\ tuck.phase = "pop" /\ tuck.n > 0
    /\ array' = array_pop(array)
    /\ tuck' = [tuck EXCEPT !.n = @ - 1,
                            !.rest = <<array.values[array.cursor - 1]>> \o @]
    /\ UNCHANGED array_reply

TuckTarget ==
    /\ tuck.phase = "pop" /\ tuck.n = 0
    /\ Replies(array_push(array, tuck.target), <<>>)
    /\ tuck' = [tuck EXCEPT !.phase = "push", !.target = NULL]

TuckPush ==
    /\ tuck.phase = "push" /\ tuck.rest # <<>>
    /\ array' = array_push(array, Head(tuck.rest))
    /\ tuck' = [tuck EXCEPT !.rest = Tail(@)]
    /\ UNCHANGED array_reply

TuckReturn ==
    /\ tuck.phase = "push" /\ tuck.rest = <<>>
    /\ tuck' = NoTuck
    /\ UNCHANGED <<array, array_reply>>

StackNext ==
    \/ \E size \in 0 .. SizeBound : ArrayResize(size) \/ ArrayGet(size)
    \/ \E v \in Values : ArrayPush(v)
    \/ \E i \in 0 .. SizeBound, v \in Values : ArraySet(i, v) \/ TuckCall(v, i)
    \/ \E i \in 0 .. SizeBound : ArrayPick(i)
    \/ ArrayPop \/ ArrayPurge
    \/ TuckPop \/ TuckTarget \/ TuckPush \/ TuckReturn

StackSpec == StackInit /\ [][StackNext]_stack_vars

-----------------------------------------------------------------------------

\* What the stack holds, with what stack_tuck_n has in its hands.
Held ==
    [i \in 1 .. array.cursor + Len(tuck.rest) |->
       IF i <= array.cursor THEN array.values[i - 1]
       ELSE tuck.rest[i - array.cursor]]

Growable == INSTANCE GrowableArray
              WITH items <- Held, reply <- array_reply, Indexes <- 0 .. SizeBound

\* Whatever is pushed, popped, set beyond the end, resized and tucked, an array
\* is a sequence that answers NULL beyond its end: nothing that was popped or
\* purged, or that realloc left in the block, is ever seen again (array.h:55-113),
\* and stack_tuck_n keeps the order of what it lifts (stack.h:51-69).
ArrayIsGrowable == Growable!Spec
=============================================================================
