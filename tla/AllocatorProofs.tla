---------------------------- MODULE AllocatorProofs ----------------------------
(***************************************************************************)
(* The allocator neither loses a value nor gives it to two threads, for    *)
(* any number of threads and values and any cache size.                    *)
(*                                                                         *)
(* The argument has two parts.  Between mutex_lock and mutex_unlock only   *)
(* one thread changes the shared stack, so the length that its stack_pop   *)
(* or stack_push has read is still the length when it writes (MutexHeld),  *)
(* and the loops stay within the stacks they pop (LoopsOK).  Then each     *)
(* step moves one value between two places (Conserved).                    *)
(***************************************************************************)
EXTENDS Allocator, SequenceTheorems, FiniteSetTheorems, TLAPS

USE AllocatorAssumption

(* Appending an element to a sequence that does not have it. *)
LEMMA AppendFacts ==
    ASSUME NEW S, NEW s \in Seq(S), NEW e \in S
    PROVE  /\ Append(s, e) \in Seq(S)
           /\ Len(Append(s, e)) = Len(s) + 1
           /\ Range(Append(s, e)) = Range(s) \cup {e}
           /\ IsInjective(s) /\ e \notin Range(s) => IsInjective(Append(s, e))
<1> DEFINE r == Append(s, e)
<1>1. /\ r \in Seq(S)
      /\ Len(r) = Len(s) + 1
      /\ \A k \in 1 .. Len(s) : r[k] = s[k]
      /\ r[Len(s) + 1] = e
  BY AppendProperties
<1>2. DOMAIN s = 1 .. Len(s) /\ DOMAIN r = 1 .. Len(s) + 1 /\ Len(s) \in Nat
  BY <1>1, LenProperties
<1> HIDE DEF r
<1>3. Range(r) = Range(s) \cup {e}
  BY <1>1, <1>2 DEF Range
<1>4. ASSUME IsInjective(s), e \notin Range(s)
      PROVE  IsInjective(r)
  BY <1>1, <1>2, <1>4 DEF IsInjective, Range
<1> QED BY <1>1, <1>3, <1>4 DEF r

(* Removing the last element of a sequence. *)
LEMMA FrontFacts ==
    ASSUME NEW S, NEW s \in Seq(S), s # <<>>
    PROVE  /\ Len(s) \in Nat \ {0}
           /\ Last(s) \in S
           /\ Last(s) \in Range(s)
           /\ Front(s) \in Seq(S)
           /\ Len(Front(s)) = Len(s) - 1
           /\ IsInjective(s) => /\ IsInjective(Front(s))
                                /\ Range(Front(s)) = Range(s) \ {Last(s)}
<1> DEFINE r == Front(s)
           n == Len(s)
<1>1. n \in Nat \ {0} /\ DOMAIN s = 1 .. n /\ \A k \in 1 .. n : s[k] \in S
  BY LenProperties, EmptySeq, ElementOfSeq
<1>2. Last(s) = s[n]
  BY DEF Last
<1>3. /\ r \in Seq(S)
      /\ Len(r) = IF 1 <= n - 1 THEN (n - 1) - 1 + 1 ELSE 0
      /\ \A k \in 1 .. (n - 1) - 1 + 1 : r[k] = s[1 + k - 1]
  <2>1. \A k \in 1 .. n - 1 : s[k] \in S
    BY <1>1
  <2>2. n - 1 \in Int /\ 1 \in Int
    BY <1>1
  <2> HIDE DEF n
  <2>3. /\ SubSeq(s, 1, n - 1) \in Seq(S)
        /\ Len(SubSeq(s, 1, n - 1)) = IF 1 <= n - 1 THEN (n - 1) - 1 + 1 ELSE 0
        /\ \A k \in 1 .. (n - 1) - 1 + 1 : SubSeq(s, 1, n - 1)[k] = s[1 + k - 1]
    BY <2>1, <2>2, SubSeqProperties
  <2> QED BY <2>3 DEF Front, n
<1> HIDE DEF r, n
<1>4. Len(r) = n - 1
  BY <1>1, <1>3
<1>5. DOMAIN r = 1 .. n - 1
  BY <1>3, <1>4, LenProperties
<1>6. \A k \in 1 .. n - 1 : r[k] = s[k]
  BY <1>1, <1>3
<1>7. Last(s) \in Range(s)
  BY <1>1, <1>2 DEF Range
<1>8. ASSUME IsInjective(s) PROVE IsInjective(r)
  BY <1>1, <1>5, <1>6, <1>8 DEF IsInjective
<1>9. ASSUME IsInjective(s) PROVE Range(r) = Range(s) \ {Last(s)}
  <2>1. ASSUME NEW x \in Range(r) PROVE x \in Range(s) /\ x # s[n]
    <3>1. PICK k \in 1 .. n - 1 : x = r[k]
      BY <1>5 DEF Range
    <3>2. x = s[k] /\ k \in 1 .. n /\ n \in 1 .. n /\ k # n
      BY <1>1, <1>6, <3>1
    <3> QED BY <1>1, <1>9, <3>2 DEF IsInjective, Range
  <2>2. ASSUME NEW x \in Range(s), x # s[n] PROVE x \in Range(r)
    <3>1. PICK k \in 1 .. n : x = s[k]
      BY <1>1 DEF Range
    <3>2. k \in 1 .. n - 1
      BY <1>1, <2>2, <3>1
    <3> QED BY <1>5, <1>6, <3>1, <3>2 DEF Range
  <2> QED BY <1>2, <2>1, <2>2
<1>10. IsInjective(s) => IsInjective(r) /\ Range(r) = Range(s) \ {Last(s)}
  BY <1>8, <1>9
<1>11. n \in Nat \ {0} /\ Last(s) \in S
  BY <1>1, <1>2
<1>12. r \in Seq(S)
  BY <1>3
<1> QED BY <1>4, <1>7, <1>10, <1>11, <1>12 DEF r, n

(* What a step of a thread needs to know of the sequences it works on. *)
LEMMA Popping ==
    ASSUME TypeOK, MutexHeld, LoopsOK, NEW t \in Threads, pc[t] = "refill_pop"
    PROVE  /\ stack # <<>>
           /\ SubSeq(stack, 1, length[t] - 1) = Front(stack)
           /\ stack[length[t]] = Last(stack)
<1>1. length[t] = Len(stack) /\ stack # <<>>
  BY DEF MutexHeld, LoopsOK
<1> QED BY <1>1 DEF Front, Last

\* The same of a step of allocator_free.
LEMMA Pushing ==
    ASSUME TypeOK, MutexHeld, LoopsOK, NEW t \in Threads, pc[t] = "flush_push"
    PROVE  /\ cache[t] # <<>>
           /\ SubSeq(stack, 1, length[t]) = stack
<1>1. length[t] = Len(stack) /\ i[t] < CacheSize
        /\ Len(cache[t]) + i[t] >= 2 * CacheSize
  BY DEF MutexHeld, LoopsOK, Flushing
<1>2. Len(cache[t]) # 0
  <2>1. Len(cache[t]) \in Nat /\ i[t] \in Nat /\ CacheSize \in Nat
    BY LenProperties DEF TypeOK
  <2> QED BY <1>1, <2>1
<1>3. cache[t] # <<>>
  BY <1>2, EmptySeq
<1>4. SubSeq(stack, 1, Len(stack)) = stack
  BY SubSeqFull DEF TypeOK
<1> QED BY <1>1, <1>3, <1>4

-----------------------------------------------------------------------------
(* TypeOK *)

\* Every step keeps the types.
LEMMA TypeStep == IInv /\ [Next]_vars => TypeOK'
<1> SUFFICES ASSUME IInv, [Next]_vars PROVE TypeOK'
  OBVIOUS
<1>0. TypeOK /\ MutexHeld /\ LoopsOK
  BY DEF IInv
<1>a. CASE UNCHANGED vars
  BY <1>0, <1>a DEF TypeOK, vars
<1>b. CASE Next
  <2>1. ASSUME NEW t \in Threads, allocator_maybe_allocate(t) PROVE TypeOK'
    BY <1>0, <2>1 DEF TypeOK, allocator_maybe_allocate, Goto
  <2>2. ASSUME NEW t \in Threads, NEW v \in Values, allocator_recycle(t, v)
        PROVE  TypeOK'
    BY <1>0, <2>2 DEF TypeOK, allocator_recycle, Goto, Giving
  <2>3. ASSUME NEW t \in Threads, Proceed(t) PROVE TypeOK'
    <3>1. CASE LockRefill(t)
      BY <1>0, <3>1 DEF TypeOK, LockRefill, Lock, Goto, Refilling
    <3>2. CASE Refill(t)
      <4>1. Len(stack) \in Nat
        BY <1>0, LenProperties DEF TypeOK
      <4>2. length' \in [Threads -> Nat]
        BY <1>0, <3>2, <4>1 DEF TypeOK, Refill
      <4>3. pc' = [pc EXCEPT ![t] = "refill_pop"]
              \/ pc' = [pc EXCEPT ![t] = "unlock_refill"]
        BY <3>2 DEF Refill, Goto
      <4> QED BY <1>0, <3>2, <4>2, <4>3 DEF TypeOK, Refill, Refilling
    <3>3. CASE RefillPop(t)
      <4>1. /\ SubSeq(stack, 1, length[t] - 1) = Front(stack)
            /\ stack[length[t]] = Last(stack)
            /\ Front(stack) \in Seq(Values)
            /\ Last(stack) \in Values
        BY <1>0, <3>3, Popping, FrontFacts DEF RefillPop, TypeOK
      <4>2. Append(cache[t], Last(stack)) \in Seq(Values)
        BY <1>0, <4>1, AppendFacts DEF TypeOK
      <4>3. i[t] + 1 \in 0 .. CacheSize
        BY <1>0, <3>3 DEF LoopsOK, RefillPop, TypeOK
      <4> QED BY <1>0, <3>3, <4>1, <4>2, <4>3
              DEF TypeOK, RefillPop, Goto, Refilling
    <3>4. CASE UnlockRefill(t)
      BY <1>0, <3>4 DEF TypeOK, UnlockRefill, Unlock, Goto
    <3>5. CASE Take(t)
      <4>1. CASE cache[t] = <<>>
        BY <1>0, <3>5, <4>1 DEF TypeOK, Take, Goto
      <4>2. CASE cache[t] # <<>>
        <5>1. Front(cache[t]) \in Seq(Values) /\ Last(cache[t]) \in Values
          BY <1>0, <4>2, FrontFacts DEF TypeOK
        <5>2. /\ cache' = [cache EXCEPT ![t] = Front(cache[t])]
              /\ held' = [held EXCEPT ![t] = held[t] \cup {Last(cache[t])}]
              /\ pc' = [pc EXCEPT ![t] = "idle"]
          BY <3>5, <4>2 DEF Take, Goto
        <5>3. cache' \in [Threads -> Seq(Values)]
          BY <1>0, <5>1, <5>2 DEF TypeOK
        <5>4. held' \in [Threads -> SUBSET Values]
          BY <1>0, <5>1, <5>2 DEF TypeOK
        <5> QED BY <1>0, <3>5, <5>2, <5>3, <5>4 DEF TypeOK, Take
      <4> QED BY <4>1, <4>2
    <3>6. CASE Refused(t)
      BY <1>0, <3>6 DEF TypeOK, Refused, Goto
    <3>7. CASE LockFlush(t)
      BY <1>0, <3>7 DEF TypeOK, LockFlush, Lock, Goto, Giving, Flushing
    <3>8. CASE Flush(t)
      <4>1. Len(stack) \in Nat
        BY <1>0, LenProperties DEF TypeOK
      <4>2. length' \in [Threads -> Nat]
        BY <1>0, <3>8, <4>1 DEF TypeOK, Flush
      <4>3. pc' = [pc EXCEPT ![t] = "flush_push"]
              \/ pc' = [pc EXCEPT ![t] = "unlock_flush"]
        BY <3>8 DEF Flush, Goto
      <4> QED BY <1>0, <3>8, <4>2, <4>3 DEF TypeOK, Flush, Giving, Flushing
    <3>9. CASE FlushPush(t)
      <4>1. /\ SubSeq(stack, 1, length[t]) = stack
            /\ Front(cache[t]) \in Seq(Values)
            /\ Last(cache[t]) \in Values
        BY <1>0, <3>9, Pushing, FrontFacts DEF FlushPush, TypeOK
      <4>2. Append(stack, Last(cache[t])) \in Seq(Values)
        BY <1>0, <4>1, AppendFacts DEF TypeOK
      <4>3. i[t] + 1 \in 0 .. CacheSize
        BY <1>0, <3>9 DEF LoopsOK, FlushPush, TypeOK
      <4> QED BY <1>0, <3>9, <4>1, <4>2, <4>3
              DEF TypeOK, FlushPush, Goto, Giving, Flushing
    <3>10. CASE UnlockFlush(t)
      BY <1>0, <3>10 DEF TypeOK, UnlockFlush, Unlock, Goto, Giving
    <3>11. CASE Put(t)
      <4>1. arg[t] \in Values
        BY <1>0, <3>11 DEF TypeOK, LoopsOK, Put, Giving
      <4>2. Append(cache[t], arg[t]) \in Seq(Values)
        BY <1>0, <4>1, AppendFacts DEF TypeOK
      <4> QED BY <1>0, <3>11, <4>2 DEF TypeOK, Put, Goto
    <3> QED BY <2>3, <3>1, <3>2, <3>3, <3>4, <3>5, <3>6, <3>7, <3>8, <3>9,
               <3>10, <3>11 DEF Proceed
  <2> QED BY <1>b, <2>1, <2>2, <2>3 DEF Next
<1> QED BY <1>a, <1>b

-----------------------------------------------------------------------------
(* MutexHeld *)

\* Every step keeps the mutex with the one thread that holds it.
LEMMA MutexStep == IInv /\ [Next]_vars => MutexHeld'
<1> SUFFICES ASSUME IInv, [Next]_vars PROVE MutexHeld'
  OBVIOUS
<1>0. TypeOK /\ MutexHeld
  BY DEF IInv
<1>a. CASE UNCHANGED vars
  BY <1>0, <1>a DEF MutexHeld, vars
<1>b. CASE Next
  <2>1. ASSUME NEW t \in Threads, allocator_maybe_allocate(t) PROVE MutexHeld'
    BY <1>0, <2>1 DEF TypeOK, MutexHeld, allocator_maybe_allocate, Goto,
                      Refilling, Flushing
  <2>2. ASSUME NEW t \in Threads, NEW v \in Values, allocator_recycle(t, v)
        PROVE  MutexHeld'
    BY <1>0, <2>2 DEF TypeOK, MutexHeld, allocator_recycle, Goto,
                      Refilling, Flushing
  <2>3. ASSUME NEW t \in Threads, Proceed(t) PROVE MutexHeld'
    <3>1. CASE LockRefill(t)
      BY <1>0, <3>1 DEF TypeOK, MutexHeld, LockRefill, Lock, Goto, Refilling,
                         Flushing
    <3>2. CASE Refill(t)
      BY <1>0, <3>2 DEF TypeOK, MutexHeld, Refill, Goto, Refilling,
                         Flushing
    <3>3. CASE RefillPop(t)
      BY <1>0, <3>3 DEF TypeOK, MutexHeld, RefillPop, Goto, Refilling,
                         Flushing
    <3>4. CASE UnlockRefill(t)
      BY <1>0, <3>4 DEF TypeOK, MutexHeld, UnlockRefill, Unlock, Goto, Refilling,
                         Flushing
    <3>5. CASE Take(t)
      BY <1>0, <3>5 DEF TypeOK, MutexHeld, Take, Goto, Refilling,
                         Flushing
    <3>6. CASE Refused(t)
      BY <1>0, <3>6 DEF TypeOK, MutexHeld, Refused, Goto, Refilling,
                         Flushing
    <3>7. CASE LockFlush(t)
      BY <1>0, <3>7 DEF TypeOK, MutexHeld, LockFlush, Lock, Goto, Refilling,
                         Flushing
    <3>8. CASE Flush(t)
      BY <1>0, <3>8 DEF TypeOK, MutexHeld, Flush, Goto, Refilling,
                         Flushing
    <3>9. CASE FlushPush(t)
      BY <1>0, <3>9 DEF TypeOK, MutexHeld, FlushPush, Goto, Refilling,
                         Flushing
    <3>10. CASE UnlockFlush(t)
      BY <1>0, <3>10 DEF TypeOK, MutexHeld, UnlockFlush, Unlock, Goto, Refilling,
                         Flushing
    <3>11. CASE Put(t)
      BY <1>0, <3>11 DEF TypeOK, MutexHeld, Put, Goto, Refilling,
                         Flushing
    <3> QED BY <2>3, <3>1, <3>2, <3>3, <3>4, <3>5, <3>6, <3>7, <3>8, <3>9,
               <3>10, <3>11 DEF Proceed
  <2> QED BY <1>b, <2>1, <2>2, <2>3 DEF Next
<1> QED BY <1>a, <1>b

-----------------------------------------------------------------------------
(* LoopsOK and CacheBound *)

\* Every step keeps the loop counters in step with the caches.
LEMMA LoopsStep == IInv /\ [Next]_vars => LoopsOK'
<1> SUFFICES ASSUME IInv, [Next]_vars PROVE LoopsOK'
  OBVIOUS
<1>0. TypeOK /\ MutexHeld /\ LoopsOK /\ CacheBound
  BY DEF IInv
<1>1. \A t \in Threads : Len(cache[t]) \in Nat /\ (Len(cache[t]) = 0 <=> cache[t] = <<>>)
  BY <1>0, LenProperties, EmptySeq DEF TypeOK
<1>a. CASE UNCHANGED vars
  BY <1>0, <1>a DEF LoopsOK, vars
<1>b. CASE Next
  <2>1. ASSUME NEW t \in Threads, allocator_maybe_allocate(t) PROVE LoopsOK'
    BY <1>0, <2>1 DEF TypeOK, LoopsOK, allocator_maybe_allocate, Goto,
                      Refilling, Flushing, Giving
  <2>2. ASSUME NEW t \in Threads, NEW v \in Values, allocator_recycle(t, v)
        PROVE  LoopsOK'
    BY <1>0, <1>1, <2>2 DEF TypeOK, LoopsOK, CacheBound, allocator_recycle,
                            Goto, Refilling, Flushing, Giving
  <2>3. ASSUME NEW t \in Threads, Proceed(t) PROVE LoopsOK'
    <3>1. CASE LockRefill(t)
      BY <1>0, <1>1, <3>1 DEF TypeOK, MutexHeld, LoopsOK, CacheBound,
            LockRefill, Lock, Goto, Refilling, Flushing, Giving
    <3>2. CASE Refill(t)
      BY <1>0, <1>1, <3>2 DEF TypeOK, MutexHeld, LoopsOK, CacheBound,
            Refill, Goto, Refilling, Flushing, Giving
    <3>3. CASE RefillPop(t)
      BY <1>0, <1>1, <3>3 DEF TypeOK, MutexHeld, LoopsOK, CacheBound,
            RefillPop, Goto, Refilling, Flushing, Giving
    <3>4. CASE UnlockRefill(t)
      BY <1>0, <1>1, <3>4 DEF TypeOK, MutexHeld, LoopsOK, CacheBound,
            UnlockRefill, Unlock, Goto, Refilling, Flushing, Giving
    <3>5. CASE Take(t)
      BY <1>0, <1>1, <3>5 DEF TypeOK, MutexHeld, LoopsOK, CacheBound,
            Take, Goto, Refilling, Flushing, Giving
    <3>6. CASE Refused(t)
      BY <1>0, <1>1, <3>6 DEF TypeOK, MutexHeld, LoopsOK, CacheBound,
            Refused, Goto, Refilling, Flushing, Giving
    <3>7. CASE LockFlush(t)
      BY <1>0, <1>1, <3>7 DEF TypeOK, MutexHeld, LoopsOK, CacheBound,
            LockFlush, Lock, Goto, Refilling, Flushing, Giving
    <3>8. CASE Flush(t)
      BY <1>0, <1>1, <3>8 DEF TypeOK, MutexHeld, LoopsOK, CacheBound,
            Flush, Goto, Refilling, Flushing, Giving
    <3>9. CASE FlushPush(t)
      <4>1. Len(Front(cache[t])) = Len(cache[t]) - 1
        BY <1>0, <3>9, Pushing, FrontFacts DEF FlushPush, TypeOK
      <4>2. cache'[t] = Front(cache[t]) /\ i'[t] = i[t] + 1 /\ pc'[t] = "flush"
        BY <1>0, <3>9 DEF FlushPush, Goto, TypeOK
      <4>3. \A u \in Threads \ {t} :
              cache'[u] = cache[u] /\ i'[u] = i[u] /\ pc'[u] = pc[u]
        BY <1>0, <3>9 DEF FlushPush, Goto, TypeOK
      <4>4. \A u \in Threads \ {t} : pc[u] \notin Refilling \cup Flushing
        BY <1>0, <3>9 DEF FlushPush, MutexHeld, Flushing
      <4>5. arg' = arg
        BY <3>9 DEF FlushPush
      <4>6. pc[t] = "flush_push"
        BY <3>9 DEF FlushPush
      <4>7. i[t] \in Nat /\ CacheSize \in Nat /\ Len(cache[t]) \in Nat
        BY <1>0, <1>1 DEF TypeOK
      <4> QED BY <1>0, <4>1, <4>2, <4>3, <4>4, <4>5, <4>6, <4>7, SMTT(40)
              DEF LoopsOK, Refilling, Flushing, Giving
    <3>10. CASE UnlockFlush(t)
      BY <1>0, <1>1, <3>10 DEF TypeOK, MutexHeld, LoopsOK, CacheBound,
            UnlockFlush, Unlock, Goto, Refilling, Flushing, Giving
    <3>11. CASE Put(t)
      BY <1>0, <1>1, <3>11 DEF TypeOK, MutexHeld, LoopsOK, CacheBound,
            Put, Goto, Refilling, Flushing, Giving
    <3> QED BY <2>3, <3>1, <3>2, <3>3, <3>4, <3>5, <3>6, <3>7, <3>8, <3>9,
               <3>10, <3>11 DEF Proceed
  <2> QED BY <1>b, <2>1, <2>2, <2>3 DEF Next
<1> QED BY <1>a, <1>b

\* Every step keeps the caches within two batches.
LEMMA BoundStep == IInv /\ [Next]_vars => CacheBound'
<1> SUFFICES ASSUME IInv, [Next]_vars, CacheSize > 0, NEW u \in Threads
             PROVE  Len(cache'[u]) <= 2 * CacheSize
  BY DEF CacheBound
<1>0. TypeOK /\ MutexHeld /\ LoopsOK /\ CacheBound
  BY DEF IInv
<1>1. Len(cache[u]) \in Nat /\ Len(cache[u]) <= 2 * CacheSize
  BY <1>0, LenProperties DEF TypeOK, CacheBound
<1>2. CASE cache'[u] = cache[u]
  BY <1>1, <1>2
<1>3. CASE cache'[u] # cache[u]
  <2>0. PICK t \in Threads :
          \/ allocator_maybe_allocate(t)
          \/ \E v \in Values : allocator_recycle(t, v)
          \/ Proceed(t)
    BY <1>3 DEF vars, Next
  <2>a. \/ RefillPop(t)
        \/ Take(t) /\ cache[t] # <<>>
        \/ FlushPush(t)
        \/ Put(t)
    <3>1. cache' # cache
      BY <1>3
    <3>2. RefillPop(t) \/ Take(t) \/ FlushPush(t) \/ Put(t)
      BY <2>0, <3>1
         DEF Proceed, allocator_maybe_allocate, allocator_recycle, LockRefill,
             Refill, UnlockRefill, Refused, LockFlush, Flush, UnlockFlush,
             Lock, Unlock
    <3>3. Take(t) => cache[t] # <<>>
      BY <3>1 DEF Take
    <3> QED BY <3>2, <3>3
  <2>b. t = u
    <3>1. t # u => cache'[u] = cache[u]
      BY <1>0, <2>a DEF TypeOK, RefillPop, Take, FlushPush, Put
    <3> QED BY <1>3, <3>1
  <2>1. Len(cache[t]) \in Nat /\ Len(cache[t]) <= 2 * CacheSize
    BY <1>1, <2>b
  <2>2. CASE RefillPop(t)
    <3>1. stack[length[t]] \in Values
      BY <1>0, <2>2, Popping, FrontFacts DEF RefillPop, TypeOK
    <3>2. Len(cache'[t]) = Len(cache[t]) + 1
      BY <1>0, <2>2, <3>1, AppendFacts DEF RefillPop, TypeOK
    <3>3. Len(cache[t]) < CacheSize
      BY <1>0, <2>2 DEF LoopsOK, RefillPop, Refilling
    <3> QED BY <2>1, <2>b, <3>2, <3>3
  <2>3. CASE Take(t) /\ cache[t] # <<>>
    <3>1. cache'[t] = Front(cache[t])
      BY <1>0, <2>3 DEF Take, TypeOK
    <3>2. Len(Front(cache[t])) = Len(cache[t]) - 1
      BY <1>0, <2>3, FrontFacts DEF TypeOK
    <3> QED BY <2>1, <2>b, <3>1, <3>2
  <2>4. CASE FlushPush(t)
    <3>1. cache'[t] = Front(cache[t])
      BY <1>0, <2>4 DEF FlushPush, TypeOK
    <3>2. Len(Front(cache[t])) = Len(cache[t]) - 1
      BY <1>0, <2>4, Pushing, FrontFacts DEF FlushPush, TypeOK
    <3> QED BY <2>1, <2>b, <3>1, <3>2
  <2>5. CASE Put(t)
    <3>1. arg[t] \in Values /\ Len(cache[t]) < 2 * CacheSize
      BY <1>0, <2>5 DEF TypeOK, LoopsOK, Put, Giving
    <3>2. Len(cache'[t]) = Len(cache[t]) + 1
      BY <1>0, <2>5, <3>1, AppendFacts DEF Put, TypeOK
    <3> QED BY <2>1, <2>b, <3>1, <3>2
  <2> QED BY <2>a, <2>2, <2>3, <2>4, <2>5
<1> QED BY <1>2, <1>3

-----------------------------------------------------------------------------
(* Conserved *)

(* A step of thread t conserves the values if it leaves what the other      *)
(* threads own alone, and has the same values in different places after it. *)
LEMMA Moving ==
    ASSUME TypeOK, Conserved, NEW t \in Threads,
           \A u \in Threads \ {t} :
             cache'[u] = cache[u] /\ held'[u] = held[u] /\ arg'[u] = arg[u],
           IsInjective(stack)',
           IsInjective(cache'[t]),
           Range(cache'[t]) \cap held'[t] = {},
           arg'[t] \notin Range(cache'[t]) \cup held'[t],
           OfThread(t)' \cap Range(stack)' = {},
           OfThread(t)' \cup Range(stack)' = OfThread(t) \cup Range(stack)
    PROVE  Conserved'
<1>1. \A u \in Threads \ {t} : OfThread(u)' = OfThread(u)
  BY DEF OfThread
<1>2. \A u \in Threads \ {t} :
        /\ OfThread(u) \cap Range(stack) = {}
        /\ OfThread(u) \cap OfThread(t) = {}
        /\ OfThread(t) \cap OfThread(u) = {}
  BY DEF Conserved
<1>3. \A u \in Threads \ {t} :
        /\ OfThread(u)' \cap Range(stack)' = {}
        /\ OfThread(u)' \cap OfThread(t)' = {}
        /\ OfThread(t)' \cap OfThread(u)' = {}
  BY <1>1, <1>2
<1>4. \A u \in Threads \ {t}, w \in Threads \ {t} :
        u # w => OfThread(u)' \cap OfThread(w)' = {}
  BY <1>1 DEF Conserved
<1>5. \A u \in Threads \ {t} :
        /\ IsInjective(cache'[u])
        /\ Range(cache'[u]) \cap held'[u] = {}
        /\ arg'[u] \notin Range(cache'[u]) \cup held'[u]
  BY DEF Conserved
<1>6. Range(stack)' \cup UNION {OfThread(u)' : u \in Threads}
        = Range(stack) \cup UNION {OfThread(u) : u \in Threads}
  <2>1. ASSUME NEW x PROVE
          (\E u \in Threads : x \in OfThread(u)') \/ x \in Range(stack)'
            <=> (\E u \in Threads : x \in OfThread(u)) \/ x \in Range(stack)
    BY <1>1
  <2> QED BY <2>1
<1>7. \A u \in Threads :
        /\ IsInjective(cache[u])'
        /\ (Range(cache[u]) \cap held[u])' = {}
        /\ (arg[u] \notin Range(cache[u]) \cup held[u])'
        /\ OfThread(u)' \cap Range(stack)' = {}
        /\ \A w \in Threads \ {u} : OfThread(u)' \cap OfThread(w)' = {}
  BY <1>3, <1>4, <1>5
<1>8. Range(stack)' \cup UNION {OfThread(u)' : u \in Threads} = Values
  BY <1>6 DEF Conserved
<1> QED BY <1>7, <1>8 DEF Conserved

\* Every step conserves the values.
LEMMA ConserveStep == IInv /\ [Next]_vars => Conserved'
<1> SUFFICES ASSUME IInv, [Next]_vars PROVE Conserved'
  OBVIOUS
<1>0. TypeOK /\ MutexHeld /\ LoopsOK /\ Conserved
  BY DEF IInv
<1>1. ASSUME UNCHANGED <<stack, cache, held, arg>> PROVE Conserved'
  BY <1>0, <1>1 DEF Conserved, OfThread
<1>2. ASSUME NEW t \in Threads
      PROVE  /\ cache[t] \in Seq(Values) /\ held[t] \subseteq Values
             /\ IsInjective(stack) /\ IsInjective(cache[t])
             /\ Range(cache[t]) \cap held[t] = {}
             /\ arg[t] \notin Range(cache[t]) \cup held[t]
             /\ OfThread(t) \cap Range(stack) = {}
             /\ Range(cache[t]) \subseteq Values
  BY <1>0, RangeOfSeq DEF TypeOK, Conserved
<1>a. CASE UNCHANGED vars
  BY <1>1, <1>a DEF vars
<1>b. CASE Next
  <2>1. ASSUME NEW t \in Threads, allocator_maybe_allocate(t) PROVE Conserved'
    BY <1>1, <2>1 DEF allocator_maybe_allocate
  <2>2. ASSUME NEW t \in Threads, NEW v \in Values, allocator_recycle(t, v)
        PROVE  Conserved'
    <3>1. /\ v \in held[t]
          /\ stack' = stack /\ cache' = cache
          /\ held'[t] = held[t] \ {v} /\ arg'[t] = v
          /\ \A u \in Threads \ {t} : held'[u] = held[u] /\ arg'[u] = arg[u]
      BY <1>0, <2>2 DEF allocator_recycle, TypeOK
    <3>2. arg[t] = NULL /\ v # NULL
      BY <1>0, <2>2 DEF LoopsOK, allocator_recycle, Giving, Flushing
    <3>3. OfThread(t)' = OfThread(t)
      BY <1>2, <3>1, <3>2 DEF OfThread
    <3> QED BY <1>0, <1>2, <3>1, <3>3, Moving
  <2>3. ASSUME NEW t \in Threads, Proceed(t) PROVE Conserved'
    <3>1. CASE RefillPop(t)
      <4> DEFINE v == Last(stack)
      <4>1. /\ stack # <<>> /\ SubSeq(stack, 1, length[t] - 1) = Front(stack)
            /\ stack[length[t]] = v
        BY <1>0, <3>1, Popping DEF RefillPop
      <4>2. /\ stack' = Front(stack) /\ cache'[t] = Append(cache[t], v)
            /\ \A u \in Threads \ {t} : cache'[u] = cache[u]
            /\ held' = held /\ arg' = arg
        BY <1>0, <3>1, <4>1 DEF RefillPop, TypeOK
      <4>3. /\ v \in Values /\ v \in Range(stack)
            /\ IsInjective(Front(stack))
            /\ Range(Front(stack)) = Range(stack) \ {v}
        BY <1>0, <1>2, <4>1, FrontFacts DEF TypeOK
      <4> HIDE DEF v
      <4>4. v \notin OfThread(t)
        BY <1>2, <4>3
      <4>5. v \notin Range(cache[t])
        BY <4>4 DEF OfThread
      <4>6. /\ IsInjective(Append(cache[t], v))
            /\ Range(Append(cache[t], v)) = Range(cache[t]) \cup {v}
        BY <1>2, <4>3, <4>5, AppendFacts
      <4>7. v # arg[t] /\ v \notin held[t]
        BY <4>3, <4>4 DEF OfThread
      <4>8. OfThread(t)' = OfThread(t) \cup {v}
        BY <4>2, <4>6 DEF OfThread
      <4>9. IsInjective(stack)' /\ Range(stack)' = Range(stack) \ {v}
        BY <4>2, <4>3
      <4>10. /\ IsInjective(cache'[t])
             /\ Range(cache'[t]) = Range(cache[t]) \cup {v}
        BY <4>2, <4>6
      <4>11. /\ Range(cache'[t]) \cap held'[t] = {}
             /\ arg'[t] \notin Range(cache'[t]) \cup held'[t]
        BY <1>2, <4>2, <4>7, <4>10
      <4>12. /\ OfThread(t)' \cap Range(stack)' = {}
             /\ OfThread(t)' \cup Range(stack)' = OfThread(t) \cup Range(stack)
        BY <1>2, <4>3, <4>8, <4>9
      <4> QED BY <1>0, <4>2, <4>9, <4>10, <4>11, <4>12, Moving
    <3>2. CASE Take(t)
      <4>1. CASE cache[t] = <<>>
        BY <1>1, <3>2, <4>1 DEF Take
      <4>2. CASE cache[t] # <<>>
        <5> DEFINE v == Last(cache[t])
        <5>1. /\ stack' = stack /\ cache'[t] = Front(cache[t])
              /\ held'[t] = held[t] \cup {v}
              /\ \A u \in Threads \ {t} :
                   cache'[u] = cache[u] /\ held'[u] = held[u]
              /\ arg' = arg
          BY <1>0, <3>2, <4>2 DEF Take, TypeOK
        <5>2. /\ v \in Range(cache[t])
              /\ IsInjective(Front(cache[t]))
              /\ Range(Front(cache[t])) = Range(cache[t]) \ {v}
          BY <1>2, <4>2, FrontFacts
        <5> HIDE DEF v
        <5>3. OfThread(t)' = OfThread(t)
          BY <5>1, <5>2 DEF OfThread
        <5>4. /\ IsInjective(cache'[t])
              /\ Range(cache'[t]) = Range(cache[t]) \ {v}
          BY <5>1, <5>2
        <5>5. /\ Range(cache'[t]) \cap held'[t] = {}
              /\ arg'[t] \notin Range(cache'[t]) \cup held'[t]
          BY <1>2, <5>1, <5>2, <5>4
        <5>6. /\ IsInjective(stack)'
              /\ OfThread(t)' \cap Range(stack)' = {}
              /\ OfThread(t)' \cup Range(stack)'
                   = OfThread(t) \cup Range(stack)
          BY <1>2, <5>1, <5>3
        <5> QED BY <1>0, <5>1, <5>4, <5>5, <5>6, Moving
      <4> QED BY <4>1, <4>2
    <3>3. CASE FlushPush(t)
      <4> DEFINE v == Last(cache[t])
      <4>1. cache[t] # <<>> /\ SubSeq(stack, 1, length[t]) = stack
        BY <1>0, <3>3, Pushing DEF FlushPush
      <4>2. /\ stack' = Append(stack, v) /\ cache'[t] = Front(cache[t])
            /\ \A u \in Threads \ {t} : cache'[u] = cache[u]
            /\ held' = held /\ arg' = arg
        BY <1>0, <3>3, <4>1 DEF FlushPush, TypeOK
      <4>3. /\ v \in Values /\ v \in Range(cache[t])
            /\ IsInjective(Front(cache[t]))
            /\ Range(Front(cache[t])) = Range(cache[t]) \ {v}
        BY <1>2, <4>1, FrontFacts
      <4> HIDE DEF v
      <4>4. v \in OfThread(t)
        BY <4>3 DEF OfThread
      <4>5. v \notin Range(stack)
        BY <1>2, <4>4
      <4>6. /\ IsInjective(Append(stack, v))
            /\ Range(Append(stack, v)) = Range(stack) \cup {v}
        BY <1>0, <1>2, <4>3, <4>5, AppendFacts DEF TypeOK
      <4>7. v # arg[t] /\ v \notin held[t]
        BY <1>2, <4>3
      <4>8. OfThread(t)' = OfThread(t) \ {v}
        BY <4>2, <4>3, <4>7 DEF OfThread
      <4>9. IsInjective(stack)' /\ Range(stack)' = Range(stack) \cup {v}
        BY <4>2, <4>6
      <4>10. /\ IsInjective(cache'[t])
             /\ Range(cache'[t]) = Range(cache[t]) \ {v}
        BY <4>2, <4>3
      <4>11. /\ Range(cache'[t]) \cap held'[t] = {}
             /\ arg'[t] \notin Range(cache'[t]) \cup held'[t]
        BY <1>2, <4>2, <4>10
      <4>12. /\ OfThread(t)' \cap Range(stack)' = {}
             /\ OfThread(t)' \cup Range(stack)' = OfThread(t) \cup Range(stack)
        BY <1>2, <4>4, <4>8, <4>9
      <4> QED BY <1>0, <4>2, <4>9, <4>10, <4>11, <4>12, Moving
    <3>4. CASE Put(t)
      <4> DEFINE v == arg[t]
      <4>1. v \in Values /\ v # NULL
        BY <1>0, <3>4 DEF TypeOK, LoopsOK, Put, Giving
      <4>2. /\ stack' = stack /\ cache'[t] = Append(cache[t], v)
            /\ arg'[t] = NULL /\ held' = held
            /\ \A u \in Threads \ {t} : cache'[u] = cache[u] /\ arg'[u] = arg[u]
        BY <1>0, <3>4 DEF Put, TypeOK
      <4>3. v \notin Range(cache[t]) /\ v \notin held[t]
        BY <1>2
      <4>4. /\ IsInjective(Append(cache[t], v))
            /\ Range(Append(cache[t], v)) = Range(cache[t]) \cup {v}
        BY <1>2, <4>1, <4>3, AppendFacts
      <4>5. OfThread(t)' = OfThread(t)
        BY <4>1, <4>2, <4>4 DEF OfThread
      <4>6. /\ IsInjective(cache'[t])
            /\ Range(cache'[t]) = Range(cache[t]) \cup {v}
        BY <4>2, <4>4
      <4>7. NULL \notin Range(cache'[t]) \cup held'[t]
        BY <1>2, <4>1, <4>2, <4>6
      <4>8. /\ Range(cache'[t]) \cap held'[t] = {}
            /\ arg'[t] \notin Range(cache'[t]) \cup held'[t]
        BY <1>2, <4>2, <4>3, <4>6, <4>7
      <4>9. /\ IsInjective(stack)'
            /\ OfThread(t)' \cap Range(stack)' = {}
            /\ OfThread(t)' \cup Range(stack)' = OfThread(t) \cup Range(stack)
        BY <1>2, <4>2, <4>5
      <4> QED BY <1>0, <4>2, <4>6, <4>8, <4>9, Moving
    <3>5. CASE LockRefill(t) \/ Refill(t) \/ UnlockRefill(t) \/ Refused(t)
                 \/ LockFlush(t) \/ Flush(t) \/ UnlockFlush(t)
      BY <1>1, <3>5 DEF LockRefill, Refill, UnlockRefill, Refused, LockFlush,
                        Flush, UnlockFlush, Lock, Unlock
    <3> QED BY <2>3, <3>1, <3>2, <3>3, <3>4, <3>5 DEF Proceed
  <2> QED BY <1>b, <2>1, <2>2, <2>3 DEF Next
<1> QED BY <1>a, <1>b

-----------------------------------------------------------------------------

(* A full shared stack and nothing anywhere else. *)
LEMMA InitIInv == Init => IInv
<1> SUFFICES ASSUME Init PROVE IInv
  OBVIOUS
<1>1. Cardinality(Values) \in Nat
  BY FS_CardinalityType
<1>2. stack \in Seq(Values)
  BY <1>1, IsASeq DEF Init
<1>3. TypeOK
  BY <1>2, EmptySeq DEF Init, TypeOK
<1>4. \A t \in Threads : Len(cache[t]) = 0 /\ cache[t] = <<>>
  BY EmptySeq DEF Init
<1>5. MutexHeld
  BY DEF Init, MutexHeld, Refilling, Flushing
<1>6. LoopsOK
  BY <1>4 DEF Init, LoopsOK, Refilling, Flushing, Giving
<1>7. CacheBound
  BY <1>4 DEF CacheBound
<1>8. Conserved
  <2>1. \A t \in Threads : Range(cache[t]) = {} /\ IsInjective(cache[t])
    BY <1>4, EmptySeq DEF Range, IsInjective
  <2>2. \A t \in Threads : held[t] = {} /\ arg[t] = NULL
    BY DEF Init
  <2>3. \A t \in Threads : OfThread(t) = {}
    BY <2>1, <2>2 DEF OfThread
  <2>4. IsInjective(stack) /\ Range(stack) = Values
    BY DEF Init
  <2>5. UNION {OfThread(t) : t \in Threads} = {}
    BY <2>3
  <2> QED BY <2>1, <2>2, <2>3, <2>4, <2>5 DEF Conserved
<1> QED BY <1>3, <1>5, <1>6, <1>7, <1>8 DEF IInv

(* The invariant holds of every state of the allocator. *)
THEOREM InductiveInvariant == Spec => []IInv
<1>1. Init => IInv
  BY InitIInv
<1>2. IInv /\ [Next]_vars => IInv'
  BY TypeStep, MutexStep, LoopsStep, BoundStep, ConserveStep DEF IInv
<1> QED BY <1>1, <1>2, PTL DEF Spec

(* The stacks only ever hold the program's values, and the loop counters stay *)
(* within cache_size.                                                         *)
THEOREM TypeCorrect == Spec => []TypeOK
<1>1. IInv => TypeOK
  BY DEF IInv
<1> QED BY <1>1, InductiveInvariant, PTL

(* One thread at a time is between mutex_lock and mutex_unlock, and no other  *)
(* thread changes the length it has read.                                     *)
THEOREM MutualExclusion == Spec => []MutexHeld
<1>1. IInv => MutexHeld
  BY DEF IInv
<1> QED BY <1>1, InductiveInvariant, PTL

(* No value is lost, and none is given to two threads. *)
THEOREM NothingLost == Spec => []Conserved
<1>1. IInv => Conserved
  BY DEF IInv
<1> QED BY <1>1, InductiveInvariant, PTL

(* No thread keeps more than two batches of free values. *)
THEOREM CachesBounded == Spec => []CacheBound
<1>1. IInv => CacheBound
  BY DEF IInv
<1> QED BY <1>1, InductiveInvariant, PTL

(* A thread that is refused has found the shared stack empty. *)
THEOREM RefusedWhenEmpty == Spec => []EmptyWhenRefused
<1>1. IInv => EmptyWhenRefused
  <2> SUFFICES ASSUME IInv, NEW t \in Threads, pc[t] = "unlock_refill",
                      cache[t] = <<>>, CacheSize > 0
               PROVE  stack = <<>>
    BY DEF EmptyWhenRefused
  <2>1. Len(cache[t]) = i[t] /\ (i[t] = CacheSize \/ stack = <<>>)
    BY DEF IInv, LoopsOK, Refilling
  <2>2. Len(cache[t]) = 0
    BY EmptySeq
  <2> QED BY <2>1, <2>2
<1> QED BY <1>1, InductiveInvariant, PTL

-----------------------------------------------------------------------------
(* OwnsLittle *)

(* What a thread uses is a finite set, and changes by one value at a time. *)
LEMMA HeldFacts ==
    ASSUME TypeOK, NEW t \in Threads
    PROVE  /\ Cardinality(held[t]) \in Nat /\ Len(cache[t]) \in Nat
           /\ \A v : Cardinality(held[t] \cup {v}) <= Cardinality(held[t]) + 1
           /\ \A v \in held[t] :
                Cardinality(held[t] \ {v}) = Cardinality(held[t]) - 1
<1>1. held[t] \in SUBSET Values
  BY DEF TypeOK
<1>2. IsFiniteSet(held[t]) /\ Cardinality(held[t]) \in Nat
  BY <1>1, FS_Subset, FS_CardinalityType
<1>3. Len(cache[t]) \in Nat
  BY LenProperties DEF TypeOK
<1>4. ASSUME NEW v PROVE Cardinality(held[t] \cup {v}) <= Cardinality(held[t]) + 1
  <2>1. Cardinality(held[t] \cup {v})
          = IF v \in held[t] THEN Cardinality(held[t]) ELSE Cardinality(held[t]) + 1
    BY <1>2, FS_AddElement, Zenon
  <2> QED BY <1>2, <2>1
<1>5. ASSUME NEW v \in held[t]
      PROVE  Cardinality(held[t] \ {v}) = Cardinality(held[t]) - 1
  BY <1>2, FS_RemoveElement
<1> QED BY <1>2, <1>3, <1>4, <1>5

\* A step of a thread changes what that thread owns as the cases say.
LEMMA OwnsStep ==
    IInv /\ OwnsLittle /\ Asking /\ [Next]_vars => OwnsLittle' /\ Asking'
<1> SUFFICES ASSUME IInv, OwnsLittle, Asking, [Next]_vars, NEW u \in Threads
             PROVE  /\ Owned(u)' < Hold + CacheSize
                    /\ pc'[u] \in Refilling \cup {"lock_refill"}
                         => Cardinality(held'[u]) < Hold
  BY DEF OwnsLittle, Asking
<1> DEFINE size == Len(cache[u])
           using == Cardinality(held[u])
           giving == IF arg[u] = NULL THEN 0 ELSE 1
<1>0. TypeOK /\ MutexHeld /\ LoopsOK /\ CacheBound
  BY DEF IInv
<1>1. /\ size \in Nat /\ using \in Nat /\ giving \in {0, 1}
      /\ size + using + giving < Hold + CacheSize
      /\ pc[u] \in Refilling \cup {"lock_refill"} => using < Hold
      /\ Hold \in Nat /\ CacheSize \in Nat
  BY <1>0, HeldFacts DEF OwnsLittle, Owned, Asking
<1>2. CASE /\ cache'[u] = cache[u] /\ held'[u] = held[u] /\ arg'[u] = arg[u]
           /\ pc'[u] = pc[u]
  BY <1>1, <1>2 DEF Owned
<1>3. CASE ~ (/\ cache'[u] = cache[u] /\ held'[u] = held[u] /\ arg'[u] = arg[u]
              /\ pc'[u] = pc[u])
  <2>0. PICK t \in Threads :
          \/ allocator_maybe_allocate(t)
          \/ \E v \in Values : allocator_recycle(t, v)
          \/ Proceed(t)
    BY <1>3 DEF vars, Next
  <2>a. t = u
    BY <1>0, <1>3, <2>0
       DEF TypeOK, Proceed, allocator_maybe_allocate, allocator_recycle,
           LockRefill, Refill, RefillPop, UnlockRefill, Take, Refused, LockFlush,
           Flush, FlushPush, UnlockFlush, Put, Lock, Unlock, Goto
  <2>1. CASE allocator_maybe_allocate(u)
    <3>1. /\ cache'[u] = cache[u] /\ held'[u] = held[u] /\ arg'[u] = arg[u]
          /\ using < Hold
      BY <2>1 DEF allocator_maybe_allocate
    <3> QED BY <1>1, <3>1 DEF Owned
  <2>2. ASSUME NEW v \in Values, allocator_recycle(u, v)
        PROVE  /\ Owned(u)' < Hold + CacheSize
               /\ pc'[u] \notin Refilling \cup {"lock_refill"}
    <3>1. /\ cache'[u] = cache[u] /\ v \in held[u]
          /\ held'[u] = held[u] \ {v} /\ arg'[u] = v
          /\ pc[u] = "idle" /\ pc'[u] \in {"lock_flush", "put"}
      BY <1>0, <2>2 DEF allocator_recycle, Goto, TypeOK
    <3>2. arg[u] = NULL /\ v # NULL
      BY <1>0, <3>1 DEF LoopsOK, Giving, Flushing
    <3>3. Cardinality(held'[u]) = using - 1
      BY <1>0, <3>1, HeldFacts
    <3> QED BY <1>1, <3>1, <3>2, <3>3 DEF Owned, Refilling
  <2>3. CASE LockRefill(u) \/ Refill(u) \/ UnlockRefill(u) \/ Refused(u)
               \/ LockFlush(u) \/ Flush(u) \/ UnlockFlush(u)
    <3>1. cache'[u] = cache[u] /\ held'[u] = held[u] /\ arg'[u] = arg[u]
      BY <2>3 DEF LockRefill, Refill, UnlockRefill, Refused, LockFlush, Flush,
                  UnlockFlush, Lock, Unlock
    <3>2. pc'[u] \in Refilling \cup {"lock_refill"} => pc[u] \in Refilling \cup {"lock_refill"}
      BY <1>0, <2>3
         DEF LockRefill, Refill, UnlockRefill, Refused, LockFlush, Flush,
             UnlockFlush, Lock, Unlock, Goto, TypeOK, Refilling
    <3> QED BY <1>1, <3>1, <3>2 DEF Owned
  <2>4. CASE RefillPop(u)
    <3>1. stack[length[u]] \in Values
      BY <1>0, <2>4, Popping, FrontFacts DEF RefillPop, TypeOK
    <3>2. Len(cache'[u]) = size + 1
      BY <1>0, <2>4, <3>1, AppendFacts DEF RefillPop, TypeOK
    <3>3. size < CacheSize /\ pc[u] \in Refilling /\ arg[u] = NULL
      BY <1>0, <2>4 DEF LoopsOK, RefillPop, Refilling, Giving, Flushing
    <3>4. held'[u] = held[u] /\ arg'[u] = arg[u]
      BY <2>4 DEF RefillPop
    <3> QED BY <1>1, <3>2, <3>3, <3>4 DEF Owned
  <2>5. CASE Take(u)
    <3>1. pc'[u] \notin Refilling \cup {"lock_refill"}
      BY <1>0, <2>5 DEF Take, Goto, TypeOK, Refilling
    <3>2. CASE cache[u] = <<>>
      BY <1>1, <2>5, <3>1, <3>2 DEF Take, Owned
    <3>3. CASE cache[u] # <<>>
      <4>1. /\ cache'[u] = Front(cache[u]) /\ arg'[u] = arg[u]
            /\ held'[u] = held[u] \cup {Last(cache[u])}
        BY <1>0, <2>5, <3>3 DEF Take, TypeOK
      <4>2. Len(cache'[u]) = size - 1
        BY <1>0, <3>3, <4>1, FrontFacts DEF TypeOK
      <4>3. Cardinality(held'[u]) <= using + 1
        BY <1>0, <4>1, HeldFacts
      <4>4. Cardinality(held'[u]) \in Nat
        <5>1. held[u] \cup {Last(cache[u])} \in SUBSET Values
          BY <1>0, <3>3, FrontFacts DEF TypeOK
        <5> QED BY <4>1, <5>1, FS_Subset, FS_CardinalityType
      <4> QED BY <1>1, <3>1, <4>1, <4>2, <4>3, <4>4 DEF Owned
    <3> QED BY <3>2, <3>3
  <2>6. CASE FlushPush(u)
    <3>1. cache'[u] = Front(cache[u]) /\ held'[u] = held[u] /\ arg'[u] = arg[u]
      BY <1>0, <2>6 DEF FlushPush, TypeOK
    <3>2. Len(cache'[u]) = size - 1
      BY <1>0, <2>6, <3>1, Pushing, FrontFacts DEF FlushPush, TypeOK
    <3>3. pc'[u] = "flush"
      BY <1>0, <2>6 DEF FlushPush, Goto, TypeOK
    <3> QED BY <1>1, <3>1, <3>2, <3>3 DEF Owned, Refilling
  <2>7. CASE Put(u)
    <3>1. arg[u] \in Values /\ arg[u] # NULL
      BY <1>0, <2>7 DEF TypeOK, LoopsOK, Put, Giving
    <3>2. Len(cache'[u]) = size + 1
      BY <1>0, <2>7, <3>1, AppendFacts DEF Put, TypeOK
    <3>3. held'[u] = held[u] /\ arg'[u] = NULL /\ pc'[u] = "idle"
      BY <1>0, <2>7 DEF Put, Goto, TypeOK
    <3> QED BY <1>1, <3>1, <3>2, <3>3 DEF Owned, Refilling
  <2> QED BY <2>0, <2>a, <2>1, <2>2, <2>3, <2>4, <2>5, <2>6, <2>7 DEF Proceed
<1> QED BY <1>2, <1>3

(* No thread owns more than it uses by a whole batch. *)
THEOREM ThreadsOwnLittle == Spec => []OwnsLittle
<1>1. Init => OwnsLittle /\ Asking
  <2> SUFFICES ASSUME Init PROVE OwnsLittle /\ Asking
    OBVIOUS
  <2>1. \A t \in Threads :
          /\ Len(cache[t]) = 0 /\ held[t] = {} /\ arg[t] = NULL
          /\ pc[t] = "idle"
    BY EmptySeq DEF Init
  <2>2. Cardinality({}) = 0
    BY FS_EmptySet
  <2>3. Hold \in Nat /\ Hold > 0 /\ CacheSize \in Nat
    BY DEF AllocatorAssumption
  <2>4. ASSUME NEW t \in Threads PROVE Owned(t) = 0
    <3>1. Cardinality(held[t]) = 0
      BY <2>1, <2>2, Zenon
    <3>2. Len(cache[t]) = 0 /\ arg[t] = NULL
      BY <2>1
    <3> QED BY <3>1, <3>2 DEF Owned
  <2>5. OwnsLittle
    <3> SUFFICES ASSUME NEW t \in Threads PROVE Owned(t) < Hold + CacheSize
      BY DEF OwnsLittle
    <3>1. 0 < Hold + CacheSize
      BY <2>3
    <3> QED BY <2>4, <3>1
  <2>6. Asking
    BY <2>1, <2>2, <2>3 DEF Asking, Refilling
  <2> QED BY <2>5, <2>6
<1> QED BY <1>1, OwnsStep, InductiveInvariant, PTL DEF Spec
=============================================================================
