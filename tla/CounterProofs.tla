----------------------------- MODULE CounterProofs -----------------------------
(***************************************************************************)
(* That every thread of a pool is where its id says, and that              *)
(* thread_pool_join_all leaves none running, for any number of threads;    *)
(* and that the program of stats_counter uses its pool in no other way.    *)
(*                                                                         *)
(* Then, that no count is lost, for any number of threads and any limit,   *)
(* as long as every thread reads its own id: a thread has its word to      *)
(* itself, so that its load finds what it has stored last, although the    *)
(* load is relaxed and the count is not one atomic step.  And that the     *)
(* totals the owner asks for meanwhile are never ahead of the threads,     *)
(* never go back, and are exact once the threads are joined.               *)
(***************************************************************************)
EXTENDS StatsCounter, Induction, SequenceTheorems, FiniteSetTheorems

-----------------------------------------------------------------------------
(* The pool.  The k-th thread gets the k-th entry of the array.  An entry is *)
(* NULL only when its thread has been freed, but not the other way round:    *)
(* thread_pool_join_all frees threads and leaves their entries.              *)

\* Between thread_start and the end of thread_pool_start there is a thread more
\* than there are entries.
Entries ==
    /\ Len(status) = Len(pool) + (IF opc = "register" THEN 1 ELSE 0)
    /\ \A k \in DOMAIN pool :
         /\ id[k] = k - 1
         /\ pool[k] = k \/ (pool[k] = 0 /\ status[k] = "freed")

\* What the owner is about to join, and has joined in thread_pool_join_all.
Joining ==
    /\ opc = "join" => i \in DOMAIN pool /\ pool[i] # 0
    /\ opc = "join_all" => \A k \in DOMAIN pool : k < i => status[k] = "freed"

PoolInv == PoolTypeOK /\ Entries /\ Joining

-----------------------------------------------------------------------------

\* A sequence that may only change at one place, or at its end.
LEMMA ExceptFacts ==
    ASSUME NEW S, NEW s \in Seq(S), NEW k \in 1 .. Len(s), NEW e \in S,
           NEW r, r = [s EXCEPT ![k] = e]
    PROVE  /\ r \in Seq(S) /\ Len(r) = Len(s) /\ DOMAIN r = DOMAIN s
           /\ r[k] = e /\ \A j \in DOMAIN s : j # k => r[j] = s[j]
<1>1. r \in Seq(S) /\ Len(r) = Len(s)
  BY ExceptSeq
<1>2. DOMAIN r = DOMAIN s /\ DOMAIN s = 1 .. Len(s)
  BY <1>1, LenProperties
<1> QED BY <1>1, <1>2

LEMMA AppendFacts ==
    ASSUME NEW S, NEW s \in Seq(S), NEW e \in S, NEW r, r = Append(s, e)
    PROVE  /\ r \in Seq(S) /\ Len(r) = Len(s) + 1 /\ Len(s) \in Nat
           /\ DOMAIN s = 1 .. Len(s) /\ DOMAIN r = 1 .. Len(s) + 1
           /\ r[Len(s) + 1] = e /\ \A j \in DOMAIN s : r[j] = s[j]
<1>1. /\ r \in Seq(S) /\ Len(r) = Len(s) + 1 /\ r[Len(s) + 1] = e
      /\ \A j \in 1 .. Len(s) : r[j] = s[j]
  BY AppendProperties
<1>2. DOMAIN s = 1 .. Len(s) /\ DOMAIN r = 1 .. Len(r) /\ Len(s) \in Nat
  BY <1>1, LenProperties
<1> QED BY <1>1, <1>2

States == {"running", "returned", "freed"}

\* The sequences of the pool, with their lengths.
LEMMA PoolFacts ==
    ASSUME PoolInv
    PROVE  /\ status \in Seq(States) /\ id \in Seq(0 .. MaxThreads - 1)
           /\ pool \in Seq(0 .. MaxThreads)
           /\ DOMAIN status = 1 .. Len(status) /\ DOMAIN id = 1 .. Len(status)
           /\ DOMAIN pool = 1 .. Len(pool)
           /\ Len(status) \in Nat /\ Len(pool) \in Nat /\ Len(id) = Len(status)
           /\ Len(status) <= MaxThreads /\ MaxThreads \in Nat
           /\ Len(pool) <= Len(status)
<1>1. /\ status \in Seq(States) /\ id \in Seq(0 .. MaxThreads - 1)
      /\ pool \in Seq(0 .. MaxThreads) /\ Len(id) = Len(status)
      /\ Len(status) <= MaxThreads
  BY DEF PoolInv, PoolTypeOK, States
<1>2. /\ DOMAIN status = 1 .. Len(status) /\ DOMAIN id = 1 .. Len(id)
      /\ DOMAIN pool = 1 .. Len(pool)
      /\ Len(status) \in Nat /\ Len(pool) \in Nat
  BY <1>1, LenProperties
<1>3. Len(pool) <= Len(status)
  BY <1>2 DEF PoolInv, Entries
<1> QED BY <1>1, <1>2, <1>3, ThreadsAssumption

LEMMA PoolInitInv == PoolInit => PoolInv
<1> SUFFICES ASSUME PoolInit PROVE PoolInv
  OBVIOUS
<1>1. /\ status \in Seq(States) /\ id \in Seq(0 .. MaxThreads - 1)
      /\ pool \in Seq(0 .. MaxThreads)
      /\ Len(status) = 0 /\ Len(id) = 0 /\ Len(pool) = 0
  BY EmptySeq DEF PoolInit
<1>2. DOMAIN pool = {}
  BY <1>1, LenProperties
<1>3. PoolTypeOK
  BY <1>1, ThreadsAssumption DEF PoolInit, PoolTypeOK, States
<1>4. Entries /\ Joining
  BY <1>1, <1>2 DEF PoolInit, Entries, Joining
<1> QED BY <1>3, <1>4 DEF PoolInv

LEMMA StartKeeps == ASSUME PoolInv, thread_start PROVE PoolInv'
<1>0. PoolTypeOK /\ Entries /\ Joining
  BY DEF PoolInv
<1>1. /\ status' \in Seq(States) /\ Len(status') = Len(status) + 1
      /\ \A k \in DOMAIN status : status'[k] = status[k]
  BY PoolFacts, AppendFacts DEF thread_start, States
<1>2. 0 \in 0 .. MaxThreads - 1 /\ Len(status) + 1 <= MaxThreads
  BY PoolFacts DEF thread_start
<1>3. /\ id' \in Seq(0 .. MaxThreads - 1) /\ Len(id') = Len(id) + 1
      /\ \A k \in DOMAIN id : id'[k] = id[k]
  BY <1>2, PoolFacts, AppendFacts DEF thread_start
<1>4. PoolTypeOK'
  BY <1>0, <1>1, <1>2, <1>3, PoolFacts DEF thread_start, PoolTypeOK, States
<1>5. Entries'
  BY <1>0, <1>1, <1>3, PoolFacts DEF thread_start, Entries
<1>6. Joining'
  BY DEF thread_start, Joining
<1> QED BY <1>4, <1>5, <1>6 DEF PoolInv

LEMMA RegisterKeeps == ASSUME PoolInv, thread_pool_start PROVE PoolInv'
<1>0. PoolTypeOK /\ Entries /\ Joining /\ Len(status) = Len(pool) + 1
  BY DEF PoolInv, Entries, thread_pool_start
<1>1. Len(status) \in 0 .. MaxThreads /\ Len(pool) \in 0 .. MaxThreads - 1
  BY <1>0, PoolFacts
<1>2. /\ pool' \in Seq(0 .. MaxThreads) /\ Len(pool') = Len(pool) + 1
      /\ DOMAIN pool' = 1 .. Len(pool) + 1
      /\ pool'[Len(pool) + 1] = Len(status)
      /\ \A k \in DOMAIN pool : pool'[k] = pool[k]
  BY <1>1, PoolFacts, AppendFacts DEF thread_pool_start
<1>3. Len(status) \in 1 .. Len(id)
  BY <1>0, PoolFacts
<1>4. /\ id' \in Seq(0 .. MaxThreads - 1) /\ Len(id') = Len(id)
      /\ id'[Len(status)] = Len(pool)
      /\ \A k \in DOMAIN id : k # Len(status) => id'[k] = id[k]
  BY <1>1, <1>3, PoolFacts, ExceptFacts DEF thread_pool_start
<1>5. PoolTypeOK'
  BY <1>0, <1>2, <1>4 DEF thread_pool_start, PoolTypeOK
<1>6. Entries'
  <2>1. Len(status') = Len(pool') /\ status' = status /\ opc' # "register"
    BY <1>0, <1>2 DEF thread_pool_start
  <2>2. ASSUME NEW k \in DOMAIN pool'
        PROVE  /\ id'[k] = k - 1
               /\ pool'[k] = k \/ (pool'[k] = 0 /\ status'[k] = "freed")
    <3>1. CASE k = Len(pool) + 1
      BY <1>0, <1>2, <1>4, <3>1, PoolFacts
    <3>2. CASE k # Len(pool) + 1
      <4>1. k \in DOMAIN pool /\ k \in DOMAIN id /\ k # Len(status)
        BY <1>0, <1>2, <3>2, PoolFacts
      <4> QED BY <1>0, <1>2, <1>4, <2>1, <4>1 DEF Entries
    <3> QED BY <3>1, <3>2
  <2> QED BY <2>1, <2>2 DEF Entries
<1>7. Joining'
  BY DEF thread_pool_start, Joining
<1> QED BY <1>5, <1>6, <1>7 DEF PoolInv

\* A thread that changes its status, and is not freed before.
LEMMA StatusKeeps ==
    ASSUME PoolInv, NEW t \in DOMAIN status, status[t] # "freed", NEW new \in States,
           status' = [status EXCEPT ![t] = new]
    PROVE  /\ status' \in Seq(States) /\ Len(status') = Len(status)
           /\ status'[t] = new
           /\ \A k \in DOMAIN status : status[k] = "freed" => status'[k] = "freed"
<1>1. t \in 1 .. Len(status)
  BY PoolFacts
<1> QED BY <1>1, PoolFacts, ExceptFacts

LEMMA ReturnKeeps ==
    ASSUME PoolInv, NEW t \in DOMAIN status, thread_return(t)
    PROVE  PoolInv'
<1>0. PoolTypeOK /\ Entries /\ Joining
  BY DEF PoolInv
<1>1. /\ status' \in Seq(States) /\ Len(status') = Len(status)
      /\ \A k \in DOMAIN status : status[k] = "freed" => status'[k] = "freed"
  BY StatusKeeps DEF thread_return, States
<1>2. PoolTypeOK'
  BY <1>0, <1>1 DEF thread_return, PoolTypeOK, States
<1>3. Entries'
  BY <1>0, <1>1, PoolFacts DEF thread_return, Entries
<1>4. Joining'
  BY <1>0, <1>1, PoolFacts DEF thread_return, Joining
<1> QED BY <1>2, <1>3, <1>4 DEF PoolInv

LEMMA CallJoinKeeps ==
    ASSUME PoolInv, NEW k \in 1 .. MaxThreads, thread_pool_join(k)
    PROVE  PoolInv'
<1>0. PoolTypeOK /\ Entries /\ Joining
  BY DEF PoolInv
<1>1. PoolTypeOK'
  BY <1>0, PoolFacts DEF thread_pool_join, PoolTypeOK
<1>2. Entries'
  BY <1>0 DEF thread_pool_join, Entries
<1>3. Joining'
  BY <1>0 DEF thread_pool_join, Joining
<1> QED BY <1>1, <1>2, <1>3 DEF PoolInv

LEMMA CallJoinAllKeeps == ASSUME PoolInv, thread_pool_join_all PROVE PoolInv'
<1>0. PoolTypeOK /\ Entries /\ Joining
  BY DEF PoolInv
<1>1. PoolTypeOK'
  BY <1>0, PoolFacts DEF thread_pool_join_all, PoolTypeOK
<1>2. Entries'
  BY <1>0 DEF thread_pool_join_all, Entries
<1>3. Joining'
  BY PoolFacts DEF thread_pool_join_all, Joining
<1> QED BY <1>1, <1>2, <1>3 DEF PoolInv

LEMMA JoinKeeps == ASSUME PoolInv, Join PROVE PoolInv'
<1>0. PoolTypeOK /\ Entries /\ Joining
  BY DEF PoolInv
<1>1. opc = "join" /\ i \in DOMAIN pool /\ pool[i] # 0 /\ pool[i] = i
  BY <1>0 DEF Join, Joining, Entries
<1>2. i \in DOMAIN status /\ i \in 1 .. Len(pool)
  BY <1>1, PoolFacts
<1>3. /\ status' \in Seq(States) /\ Len(status') = Len(status)
      /\ status'[i] = "freed" /\ opc' \in {"idle", "wild"}
      /\ \A k \in DOMAIN status : status[k] = "freed" => status'[k] = "freed"
  <2>1. CASE status[i] = "returned"
    <3>1. status' = [status EXCEPT ![i] = "freed"] /\ opc' = "idle"
      BY <1>1, <2>1 DEF Join, thread_join
    <3> QED BY <1>2, <2>1, <3>1, StatusKeeps DEF States
  <2>2. CASE status[i] = "freed"
    <3>1. status' = status /\ opc' = "wild"
      BY <1>1, <2>2 DEF Join, thread_join
    <3> QED BY <1>2, <2>2, <3>1, PoolFacts
  <2> QED BY <1>1, <2>1, <2>2 DEF Join, thread_join
<1>4. /\ pool' \in Seq(0 .. MaxThreads) /\ Len(pool') = Len(pool)
      /\ DOMAIN pool' = DOMAIN pool /\ pool'[i] = 0
      /\ \A k \in DOMAIN pool : k # i => pool'[k] = pool[k]
  BY <1>2, PoolFacts, ExceptFacts DEF Join
<1>5. PoolTypeOK'
  BY <1>0, <1>3, <1>4 DEF Join, PoolTypeOK, States
<1>6. Entries'
  <2>1. Len(status') = Len(pool') /\ opc' # "register"
    BY <1>0, <1>1, <1>3, <1>4, PoolFacts DEF Entries
  <2>2. ASSUME NEW k \in DOMAIN pool'
        PROVE  /\ id'[k] = k - 1
               /\ pool'[k] = k \/ (pool'[k] = 0 /\ status'[k] = "freed")
    <3>1. k \in DOMAIN pool /\ k \in DOMAIN status /\ id' = id
      BY <1>4, PoolFacts DEF Join
    <3> QED BY <1>0, <1>3, <1>4, <3>1 DEF Entries
  <2> QED BY <2>1, <2>2 DEF Entries
<1>7. Joining'
  BY <1>3 DEF Joining
<1> QED BY <1>5, <1>6, <1>7 DEF PoolInv

LEMMA JoinNextKeeps == ASSUME PoolInv, JoinNext PROVE PoolInv'
<1>0. PoolTypeOK /\ Entries /\ Joining /\ opc = "join_all"
  BY DEF PoolInv, JoinNext
<1>1. UNCHANGED <<id, pool>>
  BY DEF JoinNext
<1>2. CASE i > Len(pool)
  <2>1. opc' = "idle" /\ UNCHANGED <<status, i>>
    BY <1>2 DEF JoinNext
  <2> QED BY <1>0, <1>1, <2>1 DEF PoolInv, PoolTypeOK, Entries, Joining
<1>3. CASE ~ (i > Len(pool))
  <2>1. i \in DOMAIN pool /\ i \in DOMAIN status /\ i' = i + 1 /\ i' \in 1 .. MaxThreads + 1
    BY <1>0, <1>3, PoolFacts DEF JoinNext, PoolTypeOK
  <2>2. /\ status' \in Seq(States) /\ Len(status') = Len(status)
        /\ status'[i] = "freed" /\ opc' \in {"join_all", "wild"}
        /\ \A k \in DOMAIN status : status[k] = "freed" => status'[k] = "freed"
    <3>1. CASE pool[i] = 0
      <4>1. status' = status /\ opc' = opc
        BY <1>3, <3>1 DEF JoinNext
      <4>2. status[i] = "freed"
        <5>1. i # 0
          BY <2>1, PoolFacts
        <5> QED BY <1>0, <2>1, <3>1, <5>1 DEF Entries
      <4> QED BY <1>0, <4>1, <4>2, PoolFacts
    <3>2. CASE pool[i] # 0
      <4>1. pool[i] = i /\ thread_join(i, "join_all")
        BY <1>0, <1>3, <2>1, <3>2 DEF JoinNext, Entries
      <4>2. CASE status[i] = "returned"
        <5>1. status' = [status EXCEPT ![i] = "freed"] /\ opc' = "join_all"
          BY <4>1, <4>2 DEF thread_join
        <5> QED BY <2>1, <4>2, <5>1, StatusKeeps DEF States
      <4>3. CASE status[i] = "freed"
        <5>1. status' = status /\ opc' = "wild"
          BY <4>1, <4>3 DEF thread_join
        <5> QED BY <4>3, <5>1, PoolFacts
      <4> QED BY <4>1, <4>2, <4>3 DEF thread_join
    <3> QED BY <3>1, <3>2
  <2>3. PoolTypeOK'
    BY <1>0, <1>1, <2>1, <2>2 DEF PoolTypeOK, States
  <2>4. Entries'
    <3>1. Len(status') = Len(pool') /\ opc' # "register"
      BY <1>0, <1>1, <2>2 DEF Entries
    <3>2. ASSUME NEW k \in DOMAIN pool'
          PROVE  /\ id'[k] = k - 1
                 /\ pool'[k] = k \/ (pool'[k] = 0 /\ status'[k] = "freed")
      <4>1. k \in DOMAIN pool /\ k \in DOMAIN status /\ id' = id /\ pool' = pool
        BY <1>0, <1>1, <3>2, PoolFacts
      <4> QED BY <1>0, <2>2, <4>1 DEF Entries
    <3> QED BY <3>1, <3>2 DEF Entries
  <2>5. Joining'
    <3>1. ASSUME NEW k \in DOMAIN pool, k < i + 1 PROVE status'[k] = "freed"
      <4>1. k \in Nat /\ i \in Nat /\ k \in DOMAIN status
        BY <2>1, PoolFacts, SMTT(40)
      <4>2. k = i \/ k < i
        BY <3>1, <4>1
      <4> QED BY <1>0, <2>2, <4>1, <4>2 DEF Joining
    <3> QED BY <1>1, <2>1, <2>2, <3>1 DEF Joining
  <2> QED BY <2>3, <2>4, <2>5 DEF PoolInv
<1> QED BY <1>2, <1>3

LEMMA PoolStepKeeps == PoolInv /\ [PoolNext]_poolVars => PoolInv'
<1>1. CASE UNCHANGED poolVars
  BY <1>1 DEF PoolInv, PoolTypeOK, Entries, Joining, poolVars
<1> QED BY <1>1, StartKeeps, RegisterKeeps, ReturnKeeps, CallJoinKeeps,
           CallJoinAllKeeps, JoinKeeps, JoinNextKeeps
        DEF PoolNext, OwnerBegin, OwnerProceed

(* In every reachable state each thread has an entry of its own. *)
THEOREM PoolInvariant == PoolSpec => []PoolInv
BY PoolInitInv, PoolStepKeeps, PTL DEF PoolSpec

(* Between calls no two threads share an id, and none is out of reach of a   *)
(* join, in whatever order threads are started and joined.                   *)
THEOREM PoolRegisters == PoolSpec => []Registered
<1>1. PoolInv => Registered
  <2> SUFFICES ASSUME PoolInv, opc = "idle", NEW t \in DOMAIN status,
                      status[t] # "freed"
               PROVE  id[t] + 1 \in DOMAIN pool /\ pool[id[t] + 1] = t
    BY DEF Registered
  <2>1. t \in DOMAIN pool /\ t \in Nat
    BY PoolFacts DEF PoolInv, Entries
  <2>2. id[t] = t - 1 /\ pool[t] = t
    BY <2>1 DEF PoolInv, Entries
  <2>3. id[t] + 1 = t
    BY <2>1, <2>2
  <2> QED BY <2>1, <2>2, <2>3
<1> QED BY <1>1, PoolInvariant, PTL

(* thread_pool_join_all returns when every thread has been joined, those by  *)
(* thread_pool_join before it too.                                           *)
THEOREM PoolJoinsAll == PoolSpec => AllJoined
<1>1. ASSUME PoolInv, [PoolNext]_poolVars
      PROVE  [opc = "join_all" /\ opc' = "idle"
                => \A t \in DOMAIN status' : status'[t] = "freed"]_poolVars
  <2> SUFFICES ASSUME PoolNext, opc = "join_all", opc' = "idle"
               PROVE  \A t \in DOMAIN status' : status'[t] = "freed"
    BY <1>1
  <2>1. JoinNext
    BY DEF PoolNext, OwnerBegin, OwnerProceed, thread_start, thread_pool_join,
           thread_pool_join_all, thread_pool_start, Join, thread_return
  <2>2. i > Len(pool) /\ status' = status
    BY <1>1, <2>1 DEF JoinNext, thread_join
  <2>3. \A k \in DOMAIN status : k \in DOMAIN pool /\ k < i
    BY <1>1, <2>2, PoolFacts DEF PoolInv, Entries, PoolTypeOK
  <2> QED BY <1>1, <2>2, <2>3 DEF PoolInv, Joining
<1> QED BY <1>1, PoolInvariant, PTL DEF PoolSpec, AllJoined

(* The threads of the counter, and the owner that asks for totals between    *)
(* its calls, use the pool as PoolSpec lets them.                            *)
THEOREM CounterUsesPool == Spec => PoolSpec
<1>1. Init => PoolInit
  BY DEF Init
<1>2. [Next]_vars => [PoolNext]_poolVars
  <2> SUFFICES ASSUME [Next]_vars PROVE [PoolNext]_poolVars
    OBVIOUS
  <2>1. CASE PoolStep(OwnerBegin)
    BY <2>1 DEF PoolStep, PoolNext
  <2>2. CASE PoolStep(OwnerProceed)
    BY <2>2 DEF PoolStep, PoolNext
  <2>3. CASE stats_counter_total \/ AddCount \/ ReturnTotal
    BY <2>3 DEF stats_counter_total, AddCount, ReturnTotal
  <2>4. ASSUME NEW t \in 1 .. MaxThreads, ThreadStep(t) PROVE [PoolNext]_poolVars
    BY <2>4 DEF ThreadStep, CounterStep, ReturnStep, Return, PoolNext
  <2>5. CASE UNCHANGED vars
    BY <2>5 DEF vars, poolVars
  <2> QED BY <2>1, <2>2, <2>3, <2>4, <2>5 DEF Next
<1> QED BY <1>1, <1>2, PTL DEF Spec, PoolSpec

(* So the ids of the threads that count are their own entries of the pool.   *)
THEOREM CounterRegisters == Spec => []Registered
BY CounterUsesPool, PoolRegisters, PTL

(* And no thread still counts when thread_pool_join_all has returned.        *)
THEOREM CounterJoinsAll == Spec => AllJoined
BY CounterUsesPool, PoolJoinsAll, PTL

-----------------------------------------------------------------------------
(* The counter *)

Newest(t) == history[t - 1][Len(history[t - 1])]

\* The word of a thread is what the thread has added, at every moment.
WordsExact ==
    ~ misread => \A t \in 1 .. MaxThreads : Newest(t) = Net(added[t])

\* A thread has seen the newest value of its word, and works on that.
WordsOwned ==
    \A t \in 1 .. MaxThreads :
      /\ history[t - 1] \in Seq(Int) /\ Len(history[t - 1]) > 0
      /\ seen[t][t - 1] = Len(history[t - 1])
      /\ added[t] \in Seq(Ops)
      /\ load[t] = <<>> \/ load[t] = <<t - 1, Newest(t)>>
      /\ Newest(t) = Net(added[t])

CounterInv ==
    ~ misread =>
      /\ DOMAIN history = Counters
      /\ DOMAIN seen = 0 .. MaxThreads
      /\ \A u \in 0 .. MaxThreads : DOMAIN seen[u] = Counters
      /\ DOMAIN load = 1 .. MaxThreads /\ DOMAIN added = 1 .. MaxThreads
      /\ WordsOwned

-----------------------------------------------------------------------------

(* One turn more of an operation counts for one. *)
LEMMA TurnCounts ==
    ASSUME NEW s \in Seq(Ops), NEW op \in Ops, NEW r, r = Append(s, op)
    PROVE  /\ Net(s) \in Int
           /\ Net(r) = Net(s) + Amount(op)
<1>1. /\ Len(s) \in Nat /\ DOMAIN s = 1 .. Len(s)
      /\ DOMAIN r = 1 .. Len(s) + 1
      /\ \A k \in 1 .. Len(s) : r[k] = s[k]
      /\ r[Len(s) + 1] = op
  BY AppendProperties, LenProperties
<1>2. ASSUME NEW o
      PROVE  /\ IsFiniteSet(Turns(s, o)) /\ Cardinality(Turns(s, o)) \in Nat
             /\ Len(s) + 1 \notin Turns(s, o)
             /\ Turns(r, o) = IF o = op THEN Turns(s, o) \cup {Len(s) + 1}
                              ELSE Turns(s, o)
  <2>1. Turns(s, o) \subseteq 1 .. Len(s)
    BY <1>1 DEF Turns
  <2>2. IsFiniteSet(Turns(s, o)) /\ Cardinality(Turns(s, o)) \in Nat
    <3>1. IsFiniteSet(1 .. Len(s))
      BY <1>1, FS_Interval
    <3>2. IsFiniteSet(Turns(s, o))
      BY <2>1, <3>1, FS_Subset
    <3> QED BY <3>2, FS_CardinalityType
  <2>3. Len(s) + 1 \notin Turns(s, o)
    BY <1>1, <2>1
  <2>4. Turns(r, o) = IF o = op THEN Turns(s, o) \cup {Len(s) + 1} ELSE Turns(s, o)
    <3>1. ASSUME NEW k PROVE k \in Turns(r, o) <=> k \in Turns(s, o) \/ (k = Len(s) + 1 /\ o = op)
      BY <1>1 DEF Turns
    <3> QED BY <3>1
  <2> QED BY <2>2, <2>3, <2>4
<1>3. Cardinality(Turns(r, op)) = Cardinality(Turns(s, op)) + 1
  BY <1>2, FS_AddElement
<1>4. op = "add1" \/ op = "sub1"
  BY CounterAssumption
<1>5. /\ Cardinality(Turns(s, "add1")) \in Nat
      /\ Cardinality(Turns(s, "sub1")) \in Nat
  BY <1>2
<1>6. CASE op = "add1"
  <2>1. Turns(r, "sub1") = Turns(s, "sub1")
    BY <1>2, <1>6
  <2>2. Amount(op) = 1
    BY <1>6 DEF Amount
  <2>3. Cardinality(Turns(r, "add1")) = Cardinality(Turns(s, "add1")) + 1
    BY <1>3, <1>6
  <2> QED BY <1>5, <2>1, <2>2, <2>3 DEF Net
<1>7. CASE op = "sub1"
  <2>1. Turns(r, "add1") = Turns(s, "add1")
    BY <1>2, <1>7
  <2>2. Amount(op) = -1
    BY <1>7 DEF Amount
  <2>3. Cardinality(Turns(r, "sub1")) = Cardinality(Turns(s, "sub1")) + 1
    BY <1>3, <1>7
  <2> QED BY <1>5, <2>1, <2>2, <2>3 DEF Net
<1> QED BY <1>4, <1>6, <1>7

-----------------------------------------------------------------------------

LEMMA CounterInit == Init => CounterInv
<1> SUFFICES ASSUME Init PROVE CounterInv
  OBVIOUS
<1>1. MaxThreads \in Nat
  BY ThreadsAssumption
<1>2. <<>> \in Seq(Ops) /\ <<0>> \in Seq(Int) /\ Len(<<0>>) = 1 /\ <<0>>[1] = 0
  OBVIOUS
<1>3. Net(<<>>) = 0
  <2>1. Turns(<<>>, "add1") = {} /\ Turns(<<>>, "sub1") = {}
    BY DEF Turns
  <2>2. Cardinality({}) = 0
    BY FS_EmptySet
  <2>3. Net(<<>>) = 0 - 0
    BY <2>1, <2>2, Zenon DEF Net
  <2> QED BY <2>3
<1>4. ASSUME NEW t \in 1 .. MaxThreads
      PROVE  /\ t - 1 \in Counters /\ history[t - 1] = <<0>>
             /\ seen[t][t - 1] = 1 /\ load[t] = <<>> /\ added[t] = <<>>
  BY <1>1 DEF Init, Counters
<1>5. ASSUME NEW t \in 1 .. MaxThreads
      PROVE  Newest(t) = 0 /\ Net(added[t]) = 0
  BY <1>2, <1>3, <1>4 DEF Newest
<1>6. ASSUME NEW t \in 1 .. MaxThreads
      PROVE  /\ history[t - 1] \in Seq(Int) /\ Len(history[t - 1]) > 0
             /\ seen[t][t - 1] = Len(history[t - 1])
             /\ added[t] \in Seq(Ops)
  <2>1. history[t - 1] \in Seq(Int)
    BY <1>2, <1>4, Zenon
  <2>2. Len(history[t - 1]) = 1
    BY <1>2, <1>4, Zenon
  <2>3. added[t] \in Seq(Ops)
    BY <1>2, <1>4, Zenon
  <2>4. seen[t][t - 1] = 1
    BY <1>4
  <2> QED BY <2>1, <2>2, <2>3, <2>4
<1>7. WordsOwned
  BY <1>4, <1>5, <1>6, Zenon DEF WordsOwned
<1> QED BY <1>7 DEF Init, CounterInv

\* A thread that reads its own id loads the value it has stored last.
LEMMA LoadKeeps ==
    ASSUME CounterInv, NEW t \in 1 .. MaxThreads, Load(t)
    PROVE  CounterInv'
<1> SUFFICES ASSUME ~ misread' PROVE CounterInv'
  BY DEF CounterInv
<1>0. MaxThreads \in Nat
  BY ThreadsAssumption
<1>1. PICK j \in IdRead(t) : \E v \in Loads(t, j) :
         /\ load' = [load EXCEPT ![t] = <<j, history[j][v]>>]
         /\ seen' = [seen EXCEPT ![t][j] = v]
         /\ misread' = (misread \/ j # t - 1)
  BY DEF Load
<1>2. ~ misread /\ j = t - 1
  BY <1>1
<1>3. PICK v \in Loads(t, j) :
         /\ load' = [load EXCEPT ![t] = <<j, history[j][v]>>]
         /\ seen' = [seen EXCEPT ![t][j] = v]
  BY <1>1
<1>4. v = Len(history[t - 1]) /\ v \in Nat
  <2>1. Len(history[t - 1]) \in Nat
    BY <1>2, LenProperties DEF CounterInv, WordsOwned
  <2> QED BY <1>2, <1>3, <2>1 DEF CounterInv, WordsOwned, Loads
<1>5. load' = [load EXCEPT ![t] = <<t - 1, Newest(t)>>]
  BY <1>2, <1>3, <1>4 DEF Newest
<1>6. UNCHANGED <<history, added>>
  BY DEF Load
<1>7. /\ DOMAIN seen' = DOMAIN seen
      /\ \A u \in 0 .. MaxThreads : DOMAIN seen'[u] = DOMAIN seen[u]
      /\ \A u \in 1 .. MaxThreads : seen'[u][u - 1] = seen[u][u - 1]
  <2>1. seen[t][t - 1] = v
    BY <1>2, <1>4 DEF CounterInv, WordsOwned
  <2>2. seen' = [seen EXCEPT ![t] = [seen[t] EXCEPT ![t - 1] = v]]
    BY <1>2, <1>3
  <2>3. DOMAIN seen = 0 .. MaxThreads /\ DOMAIN seen[t] = Counters
    BY <1>2 DEF CounterInv
  <2> QED BY <2>1, <2>2, <2>3
<1>8. \A u \in 1 .. MaxThreads : Newest(u)' = Newest(u)
  BY <1>6 DEF Newest
<1>9. WordsOwned'
  BY <1>2, <1>5, <1>6, <1>7, <1>8 DEF CounterInv, WordsOwned
<1> QED BY <1>2, <1>5, <1>6, <1>7, <1>9 DEF CounterInv

\* A thread stores what it has stored last and its turn, in its own word.
LEMMA StoreKeeps ==
    ASSUME CounterInv, NEW t \in 1 .. MaxThreads, NEW op \in Ops, Store(t, op)
    PROVE  CounterInv'
<1> SUFFICES ASSUME ~ misread' PROVE CounterInv'
  BY DEF CounterInv
<1>0. MaxThreads \in Nat
  BY ThreadsAssumption
<1>1. ~ misread /\ WordsOwned
  BY DEF Store, CounterInv
<1>2. load[t] = <<t - 1, Newest(t)>> /\ load[t][1] = t - 1 /\ load[t][2] = Newest(t)
  BY <1>1 DEF WordsOwned, Store
<1>3. /\ history' = [history EXCEPT ![t - 1] = Append(history[t - 1], Newest(t) + Amount(op))]
      /\ seen' = [seen EXCEPT ![t] = [seen[t] EXCEPT ![t - 1] = Len(history[t - 1]) + 1]]
      /\ load' = [load EXCEPT ![t] = <<>>]
      /\ added' = [added EXCEPT ![t] = Append(added[t], op)]
  <2>1. /\ history' = [history EXCEPT ![load[t][1]] = Append(@, load[t][2] + Amount(op))]
        /\ seen' = [seen EXCEPT ![t][load[t][1]] = Len(history[load[t][1]]) + 1]
        /\ load' = [load EXCEPT ![t] = <<>>]
        /\ added' = [added EXCEPT ![t] = Append(@, op)]
    BY DEF Store
  <2> QED BY <1>2, <2>1
<1>4. Newest(t) \in Int /\ Amount(op) \in Int
  BY <1>1 DEF WordsOwned, Newest, Amount
<1>5. t - 1 \in Counters
  BY <1>0 DEF Counters
<1>6. /\ DOMAIN history' = Counters
      /\ DOMAIN seen' = 0 .. MaxThreads
      /\ \A u \in 0 .. MaxThreads : DOMAIN seen'[u] = Counters
      /\ DOMAIN load' = 1 .. MaxThreads /\ DOMAIN added' = 1 .. MaxThreads
  BY <1>1, <1>3 DEF CounterInv
<1>7. ASSUME NEW u \in 1 .. MaxThreads, u # t
      PROVE  /\ history'[u - 1] = history[u - 1] /\ seen'[u] = seen[u]
             /\ load'[u] = load[u] /\ added'[u] = added[u]
  <2>1. u - 1 \in Counters /\ u - 1 # t - 1
    BY <1>0, <1>7 DEF Counters
  <2> QED BY <1>1, <1>3, <1>7, <2>1 DEF CounterInv
<1>8. /\ history'[t - 1] = Append(history[t - 1], Newest(t) + Amount(op))
      /\ seen'[t][t - 1] = Len(history[t - 1]) + 1
      /\ load'[t] = <<>> /\ added'[t] = Append(added[t], op)
  BY <1>1, <1>3, <1>5, <1>0 DEF CounterInv
<1>9. /\ history'[t - 1] \in Seq(Int)
      /\ Len(history'[t - 1]) = Len(history[t - 1]) + 1
      /\ Newest(t)' = Newest(t) + Amount(op)
      /\ added'[t] \in Seq(Ops)
  BY <1>1, <1>4, <1>8, SMTT(40) DEF WordsOwned, Newest
<1>10. Newest(t)' = Net(added'[t])
  <2>1. added[t] \in Seq(Ops) /\ Newest(t) = Net(added[t])
    BY <1>1 DEF WordsOwned
  <2> QED BY <1>8, <1>9, <2>1, TurnCounts
<1>11. Len(history[t - 1]) \in Nat
  BY <1>1, LenProperties DEF WordsOwned
<1>12. ASSUME NEW u \in 1 .. MaxThreads
       PROVE  /\ history'[u - 1] \in Seq(Int) /\ Len(history'[u - 1]) > 0
              /\ seen'[u][u - 1] = Len(history'[u - 1])
              /\ added'[u] \in Seq(Ops)
              /\ load'[u] = <<>> \/ load'[u] = <<u - 1, Newest(u)'>>
              /\ Newest(u)' = Net(added'[u])
  <2>1. CASE u = t
    <3>1. /\ history'[t - 1] \in Seq(Int) /\ Len(history'[t - 1]) > 0
          /\ seen'[t][t - 1] = Len(history'[t - 1])
          /\ added'[t] \in Seq(Ops) /\ load'[t] = <<>>
          /\ Newest(t)' = Net(added'[t])
      BY <1>8, <1>9, <1>10, <1>11
    <3> QED BY <2>1, <3>1, Zenon DEF Newest
  <2>2. CASE u # t
    <3>1. Newest(u)' = Newest(u)
      BY <1>7, <2>2 DEF Newest
    <3> QED BY <1>1, <1>7, <2>2, <3>1 DEF WordsOwned
  <2> QED BY <2>1, <2>2
<1>13. WordsOwned'
  BY <1>12 DEF WordsOwned, Newest
<1> QED BY <1>6, <1>13 DEF CounterInv

\* Joining threads and summing up change what the owner has seen only.
LEMMA OwnerKeeps ==
    ASSUME CounterInv,
           UNCHANGED <<history, load, added, misread>>,
           DOMAIN seen' = DOMAIN seen,
           \A u \in DOMAIN seen : u # Main => seen'[u] = seen[u],
           DOMAIN seen = 0 .. MaxThreads /\ DOMAIN seen[Main] = Counters
             => DOMAIN seen'[Main] = Counters
    PROVE  CounterInv'
<1> SUFFICES ASSUME ~ misread' PROVE CounterInv'
  BY DEF CounterInv
<1>0. MaxThreads \in Nat
  BY ThreadsAssumption
<1>1. \A t \in 1 .. MaxThreads : seen'[t] = seen[t] /\ Newest(t)' = Newest(t)
  BY <1>0 DEF CounterInv, Main, Newest
<1>2. WordsOwned'
  BY <1>1 DEF CounterInv, WordsOwned
<1>3. \A u \in 0 .. MaxThreads : DOMAIN seen'[u] = Counters
  BY <1>0 DEF CounterInv, Main
<1> QED BY <1>2, <1>3 DEF CounterInv

LEMMA CounterStepKeeps == CounterInv /\ [Next]_vars => CounterInv'
<1> SUFFICES ASSUME CounterInv, [Next]_vars PROVE CounterInv'
  OBVIOUS
<1>1. ASSUME NEW J, UNCHANGED <<history, load, added, misread>>,
             seen' = [seen EXCEPT ![Main] = SeenWith(J)]
      PROVE  CounterInv'
  <2>1. DOMAIN SeenWith(J) = Counters
    BY DEF SeenWith
  <2>2. /\ DOMAIN seen' = DOMAIN seen
        /\ \A u \in DOMAIN seen : u # Main => seen'[u] = seen[u]
    BY <1>1
  <2>3. Main \in DOMAIN seen => seen'[Main] = SeenWith(J)
    BY <1>1
  <2>4. DOMAIN seen = 0 .. MaxThreads => Main \in DOMAIN seen
    BY ThreadsAssumption DEF Main
  <2> QED BY <1>1, <2>1, <2>2, <2>3, <2>4, OwnerKeeps
<1>2. CASE PoolStep(OwnerBegin)
  BY <1>1, <1>2 DEF PoolStep
<1>3. CASE PoolStep(OwnerProceed)
  BY <1>1, <1>3 DEF PoolStep
<1>4. CASE AddCount
  <2>1. PICK v : seen' = [seen EXCEPT ![Main] = [seen[Main] EXCEPT ![at] = v]]
    BY <1>4 DEF AddCount
  <2>2. DOMAIN seen' = DOMAIN seen /\ \A u \in DOMAIN seen : u # Main => seen'[u] = seen[u]
    BY <2>1
  <2>3. Main \in DOMAIN seen => DOMAIN seen'[Main] = DOMAIN seen[Main]
    BY <2>1
  <2>4. DOMAIN seen = 0 .. MaxThreads => Main \in DOMAIN seen
    BY ThreadsAssumption DEF Main
  <2>5. UNCHANGED <<history, load, added, misread>>
    BY <1>4 DEF AddCount
  <2> QED BY <2>2, <2>3, <2>4, <2>5, OwnerKeeps
<1>5. CASE UNCHANGED counterVars
  BY <1>5 DEF counterVars, CounterInv, WordsOwned, Newest
<1>6. ASSUME NEW t \in 1 .. MaxThreads, ThreadStep(t)
      PROVE  CounterInv'
  BY <1>5, <1>6, LoadKeeps, StoreKeeps DEF ThreadStep, CounterStep, ReturnStep
<1>7. stats_counter_total \/ ReturnTotal \/ UNCHANGED vars => UNCHANGED counterVars
  BY DEF stats_counter_total, ReturnTotal, vars
<1> QED BY <1>2, <1>3, <1>4, <1>5, <1>6, <1>7 DEF Next

(* No count is lost, for any number of threads and turns: as long as every *)
(* thread counts in its own word, the word is at every moment what the     *)
(* thread has added (stats_counter.c:36-47).                               *)
THEOREM NoCountLost == Spec => []WordsExact
<1>1. CounterInv => WordsExact
  BY DEF CounterInv, WordsOwned, WordsExact
<1> QED BY <1>1, CounterInit, CounterStepKeeps, PTL DEF Spec

-----------------------------------------------------------------------------
(* Sums *)

\* What SumTo computes, for every length.
LEMMA SumFacts ==
    ASSUME NEW N \in Nat, NEW f \in [1 .. N -> Int]
    PROVE  /\ SumTo(f, 0) = 0
           /\ \A n \in 0 .. N : SumTo(f, n) \in Int
           /\ \A n \in 0 .. N : n < N => SumTo(f, n + 1) = SumTo(f, n) + f[n + 1]
<1> DEFINE step == [p \in Int \X Nat |-> IF p[2] \in 1 .. N THEN p[1] + f[p[2]] ELSE 0]
<1>1. step \in Steps(Int) /\ 0 \in Int
  BY DEF Steps
<1>2. PICK F : Follows(F, Int, 0, step, N)
  <2> HIDE DEF step
  <2> QED BY <1>1, RecursionExists
<1>3. /\ F \in [0 .. N -> Int] /\ F[0] = 0
      /\ \A n \in 0 .. N : n < N => F[n + 1] = step[<<F[n], n + 1>>]
  <2> HIDE DEF step
  <2> QED BY <1>2 DEF Follows
<1>4. ASSUME NEW n \in 0 .. N, n < N PROVE F[n + 1] = F[n] + f[n + 1]
  <2>1. <<F[n], n + 1>> \in Int \X Nat /\ n + 1 \in 1 .. N
    BY <1>3, <1>4
  <2>2. step[<<F[n], n + 1>>] = F[n] + f[n + 1]
    BY <2>1
  <2> QED BY <1>3, <1>4, <2>2
<1>5. ASSUME NEW n \in 0 .. N PROVE SumTo(f, n) = F[n]
  <2> HIDE DEF step
  <2> DEFINE Sums(u) == u = [k \in 0 .. n |-> IF k = 0 THEN 0 ELSE u[k - 1] + f[k]]
             G == [k \in 0 .. n |-> F[k]]
  <2>1. Sums(G)
    <3>1. ASSUME NEW k \in 0 .. n, k # 0 PROVE F[k] = G[k - 1] + f[k]
      <4>1. k - 1 \in 0 .. N /\ k - 1 < N /\ (k - 1) + 1 = k /\ k - 1 \in 0 .. n
        BY <3>1
      <4> QED BY <1>4, <4>1
    <3> QED BY <1>3, <3>1
  <2>2. PICK u : Sums(u) /\ SumTo(f, n) = u[n]
    <3>1. Sums(CHOOSE u : Sums(u))
      <4> HIDE DEF Sums, G
      <4> QED BY <2>1
    <3>2. SumTo(f, n) = (CHOOSE u : Sums(u))[n]
      BY DEF SumTo
    <3> HIDE DEF Sums
    <3> QED BY <3>1, <3>2
  <2>3. ASSUME NEW k \in 0 .. n, k < n PROVE u[k + 1] = u[k] + f[k + 1]
    <3>1. k + 1 \in 0 .. n /\ k + 1 # 0 /\ (k + 1) - 1 = k
      BY <2>3
    <3> QED BY <2>2, <3>1
  <2>4. u[0] = F[0] /\ n \in Nat
    BY <1>3, <2>2
  <2>5. ASSUME NEW k \in 0 .. n, k < n, u[k] = F[k] PROVE u[k + 1] = F[k + 1]
    BY <1>4, <2>3, <2>5
  <2>6. \A k \in 0 .. n : k < n /\ u[k] = F[k] => u[k + 1] = F[k + 1]
    <3> HIDE DEF Sums, G
    <3> QED BY <2>5
  <2>7. \A k \in 0 .. n : u[k] = F[k]
    <3> DEFINE S == {k \in 0 .. n : u[k] = F[k]}
    <3> HIDE DEF Sums, G
    <3>1. 0 \in S
      BY <2>4
    <3>2. ASSUME NEW k \in 0 .. n, k < n, k \in S PROVE k + 1 \in S
      BY <2>6, <3>2
    <3>3. \A k \in 0 .. n : k \in S
      <4> HIDE DEF S
      <4> QED BY <2>4, <3>1, <3>2, IntervalInduction
    <3> QED BY <3>3
  <2> QED BY <2>2, <2>7
<1>6. \A n \in 0 .. N : F[n] \in Int
  BY <1>3
<1>7. SumTo(f, 0) = 0
  BY <1>3, <1>5
<1>8. \A n \in 0 .. N : SumTo(f, n) \in Int
  BY <1>5, <1>6
<1>9. ASSUME NEW n \in 0 .. N, n < N PROVE SumTo(f, n + 1) = SumTo(f, n) + f[n + 1]
  <2>1. n + 1 \in 0 .. N
    BY <1>9
  <2> QED BY <1>4, <1>5, <1>9, <2>1
<1> QED BY <1>7, <1>8, <1>9

\* A sum of terms that are not greater is not greater.
LEMMA SumAtMost ==
    ASSUME NEW N \in Nat, NEW f \in [1 .. N -> Int], NEW g \in [1 .. N -> Int],
           NEW n \in 0 .. N, \A k \in 1 .. n : f[k] <= g[k]
    PROVE  SumTo(f, n) <= SumTo(g, n)
<1> DEFINE S == {k \in 0 .. n : SumTo(f, k) <= SumTo(g, k)}
<1>1. 0 \in S
  BY SumFacts
<1>2. ASSUME NEW k \in 0 .. n, k < n, k \in S PROVE k + 1 \in S
  <2>1. /\ SumTo(f, k + 1) = SumTo(f, k) + f[k + 1]
        /\ SumTo(g, k + 1) = SumTo(g, k) + g[k + 1]
        /\ SumTo(f, k) \in Int /\ SumTo(g, k) \in Int
    <3>1. k \in 0 .. N /\ k < N
      BY <1>2
    <3> HIDE DEF S
    <3> QED BY <3>1, SumFacts
  <2>2. f[k + 1] \in Int /\ g[k + 1] \in Int /\ f[k + 1] <= g[k + 1]
    BY <1>2
  <2> QED BY <1>2, <2>1, <2>2
<1>3. \A k \in 0 .. n : k \in S
  <2>1. n \in Nat
    OBVIOUS
  <2> HIDE DEF S
  <2> QED BY <1>1, <1>2, <2>1, IntervalInduction
<1> QED BY <1>3

LEMMA SumSame ==
    ASSUME NEW N \in Nat, NEW f \in [1 .. N -> Int], NEW g \in [1 .. N -> Int],
           NEW n \in 0 .. N, \A k \in 1 .. n : f[k] = g[k]
    PROVE  SumTo(f, n) = SumTo(g, n)
<1>1. \A k \in 1 .. n : f[k] <= g[k] /\ g[k] <= f[k]
  OBVIOUS
<1>2. SumTo(f, n) <= SumTo(g, n) /\ SumTo(g, n) <= SumTo(f, n)
  BY <1>1, SumAtMost
<1> QED BY <1>2, SumFacts

\* One term that is greater by 1 makes the sum greater by 1.
LEMMA SumOneMore ==
    ASSUME NEW N \in Nat, NEW f \in [1 .. N -> Int], NEW g \in [1 .. N -> Int],
           NEW t \in 1 .. N, g[t] = f[t] + 1, \A k \in 1 .. N : k # t => g[k] = f[k]
    PROVE  SumTo(g, N) = SumTo(f, N) + 1
<1> DEFINE S == {k \in 0 .. N : SumTo(g, k) = SumTo(f, k) + (IF k < t THEN 0 ELSE 1)}
<1>1. 0 \in S
  BY SumFacts, SMTT(40)
<1>2. ASSUME NEW k \in 0 .. N, k < N, k \in S PROVE k + 1 \in S
  <2>1. /\ SumTo(f, k + 1) = SumTo(f, k) + f[k + 1]
        /\ SumTo(g, k + 1) = SumTo(g, k) + g[k + 1]
        /\ SumTo(f, k) \in Int /\ SumTo(g, k) \in Int
    BY <1>2, SumFacts
  <2>2. k + 1 \in 1 .. N /\ f[k + 1] \in Int
    BY <1>2
  <2>3. g[k + 1] = f[k + 1] + (IF k + 1 = t THEN 1 ELSE 0)
    BY <2>2
  <2>4. SumTo(g, k) = SumTo(f, k) + (IF k < t THEN 0 ELSE 1)
    BY <1>2
  <2>5. SumTo(g, k + 1) = SumTo(f, k + 1) + (IF k + 1 < t THEN 0 ELSE 1)
    <3>1. CASE k + 1 < t
      BY <2>1, <2>2, <2>3, <2>4, <3>1
    <3>2. CASE k + 1 = t
      BY <2>1, <2>2, <2>3, <2>4, <3>2
    <3>3. CASE k + 1 > t
      BY <2>1, <2>2, <2>3, <2>4, <3>3
    <3> QED BY <3>1, <3>2, <3>3
  <2> QED BY <1>2, <2>5
<1>3. \A k \in 0 .. N : k \in S
  <2> HIDE DEF S
  <2> QED BY <1>1, <1>2, IntervalInduction
<1> QED BY <1>3

-----------------------------------------------------------------------------
(* Totals *)

\* What the owner has seen of the first n words, and all stores to words
OwnerSees == [t \in 1 .. MaxThreads |-> history[t - 1][seen[Main][t - 1]]]
StoresTo == [t \in 1 .. MaxThreads |-> Len(history[t - 1]) - 1]
TurnsOf == [t \in 1 .. MaxThreads |-> Len(added[t])]

CounterTypeOK ==
    /\ history \in [Counters -> Seq(Int)]
    /\ seen \in [0 .. MaxThreads -> [Counters -> Nat]]
    /\ load \in [1 .. MaxThreads -> {<<>>} \cup (Counters \X Int)]
    /\ added \in [1 .. MaxThreads -> Seq(Ops)]
    /\ at \in (0 .. MaxThreads) \cup {None}
    /\ acc \in Int /\ total \in Int

\* Whoever stores to a word, it is not ahead of the stores to it, since what was
\* loaded is not.
WordsBounded ==
    /\ \A j \in Counters : \A v \in 1 .. Len(history[j]) : history[j][v] <= v - 1
    /\ \A u \in 0 .. MaxThreads, j \in Counters : seen[u][j] \in 1 .. Len(history[j])
    /\ \A t \in 1 .. MaxThreads :
         load[t] # <<>> => load[t][2] <= Len(history[load[t][1]]) - 1

\* Every turn of a thread is a store to some word.
TurnsStored == SumTo(StoresTo, MaxThreads) = SumTo(TurnsOf, MaxThreads)

\* What the owner has summed up is what it has seen, and it has returned no more.
TotalsOK ==
    /\ at # None => acc = SumTo(OwnerSees, at)
    /\ total <= SumTo(TurnsOf, MaxThreads)

\* Words only grow, so that what the owner sees is not less than it has returned.
Growing ==
    OnlyAdds /\ ~ misread =>
      /\ \A j \in Counters : \A v, w \in 1 .. Len(history[j]) :
           v <= w => history[j][v] <= history[j][w]
      /\ total <= SumTo(OwnerSees, MaxThreads)

\* A thread that is not running has stored what it has loaded, and the owner has
\* seen all of it once it is joined.
JoinedSeen ==
    /\ \A t \in 1 .. MaxThreads :
         ~ Running(t) => load[t] = <<>>
    /\ ~ misread =>
         \A t \in 1 .. MaxThreads :
           /\ t \notin DOMAIN status => Len(history[t - 1]) = 1
           /\ t \in DOMAIN status /\ status[t] = "freed"
                => seen[Main][t - 1] = Len(history[t - 1])

TotalInv ==
    CounterTypeOK /\ WordsBounded /\ TurnsStored /\ TotalsOK /\ Growing /\ JoinedSeen

-----------------------------------------------------------------------------

LEMMA WordFacts ==
    CounterTypeOK /\ WordsBounded =>
      /\ MaxThreads \in Nat /\ Main \in 0 .. MaxThreads
      /\ \A t \in 1 .. MaxThreads : t \in 0 .. MaxThreads /\ t # Main /\ t - 1 \in Counters
      /\ \A j \in Counters : j + 1 \in 1 .. MaxThreads /\ (j + 1) - 1 = j
      /\ \A j \in Counters :
           /\ history[j] \in Seq(Int) /\ Len(history[j]) \in Nat /\ Len(history[j]) > 0
           /\ \A v \in 1 .. Len(history[j]) : history[j][v] \in Int
           /\ seen[Main][j] \in 1 .. Len(history[j])
      /\ \A t \in 1 .. MaxThreads : added[t] \in Seq(Ops) /\ Len(added[t]) \in Nat
      /\ OwnerSees \in [1 .. MaxThreads -> Int]
      /\ StoresTo \in [1 .. MaxThreads -> Int]
      /\ TurnsOf \in [1 .. MaxThreads -> Int]
<1> SUFFICES ASSUME CounterTypeOK, WordsBounded
             PROVE  /\ MaxThreads \in Nat /\ Main \in 0 .. MaxThreads
                    /\ \A t \in 1 .. MaxThreads : t \in 0 .. MaxThreads /\ t # Main /\ t - 1 \in Counters
                    /\ \A j \in Counters : j + 1 \in 1 .. MaxThreads /\ (j + 1) - 1 = j
                    /\ \A j \in Counters :
                         /\ history[j] \in Seq(Int) /\ Len(history[j]) \in Nat /\ Len(history[j]) > 0
                         /\ \A v \in 1 .. Len(history[j]) : history[j][v] \in Int
                         /\ seen[Main][j] \in 1 .. Len(history[j])
                    /\ \A t \in 1 .. MaxThreads : added[t] \in Seq(Ops) /\ Len(added[t]) \in Nat
                    /\ OwnerSees \in [1 .. MaxThreads -> Int]
                    /\ StoresTo \in [1 .. MaxThreads -> Int]
                    /\ TurnsOf \in [1 .. MaxThreads -> Int]
  OBVIOUS
<1>1. MaxThreads \in Nat /\ Main \in 0 .. MaxThreads
  BY ThreadsAssumption DEF Main
<1>2. ASSUME NEW t \in 1 .. MaxThreads
      PROVE  t \in 0 .. MaxThreads /\ t # Main /\ t - 1 \in Counters
  BY <1>1 DEF Counters, Main
<1>3. \A j \in Counters : j + 1 \in 1 .. MaxThreads /\ (j + 1) - 1 = j
  BY <1>1 DEF Counters
<1>4. ASSUME NEW j \in Counters
      PROVE  /\ history[j] \in Seq(Int) /\ Len(history[j]) \in Nat /\ Len(history[j]) > 0
             /\ \A v \in 1 .. Len(history[j]) : history[j][v] \in Int
             /\ seen[Main][j] \in 1 .. Len(history[j])
  <2>1. history[j] \in Seq(Int) /\ seen[Main][j] \in 1 .. Len(history[j])
    BY <1>1 DEF CounterTypeOK, WordsBounded
  <2>2. Len(history[j]) \in Nat /\ \A v \in 1 .. Len(history[j]) : history[j][v] \in Int
    BY <2>1, ElementOfSeq, LenProperties
  <2> QED BY <2>1, <2>2
<1>5. ASSUME NEW t \in 1 .. MaxThreads
      PROVE  added[t] \in Seq(Ops) /\ Len(added[t]) \in Nat
  BY LenProperties DEF CounterTypeOK
<1>6. OwnerSees \in [1 .. MaxThreads -> Int]
  BY <1>2, <1>4 DEF OwnerSees
<1>7. StoresTo \in [1 .. MaxThreads -> Int]
  BY <1>2, <1>4 DEF StoresTo
<1>8. TurnsOf \in [1 .. MaxThreads -> Int]
  BY <1>5 DEF TurnsOf
<1> QED BY <1>1, <1>2, <1>3, <1>4, <1>5, <1>6, <1>7, <1>8

\* The owner has not seen more than there have been turns.
LEMMA SeenWithinTurns ==
    ASSUME CounterTypeOK, WordsBounded, TurnsStored
    PROVE  SumTo(OwnerSees, MaxThreads) <= SumTo(TurnsOf, MaxThreads)
<1>1. ASSUME NEW t \in 1 .. MaxThreads PROVE OwnerSees[t] <= StoresTo[t]
  <2>1. t - 1 \in Counters
    BY WordFacts
  <2>2. history[t - 1][seen[Main][t - 1]] <= seen[Main][t - 1] - 1
    BY <2>1, WordFacts DEF WordsBounded
  <2>3. OwnerSees[t] = history[t - 1][seen[Main][t - 1]] /\ StoresTo[t] = Len(history[t - 1]) - 1
    BY DEF OwnerSees, StoresTo
  <2>4. /\ seen[Main][t - 1] \in 1 .. Len(history[t - 1]) /\ Len(history[t - 1]) \in Nat
        /\ OwnerSees[t] \in Int
    BY <2>1, WordFacts
  <2> QED BY <2>2, <2>3, <2>4
<1>2. MaxThreads \in 0 .. MaxThreads /\ MaxThreads \in Nat
  BY WordFacts
<1>3. SumTo(OwnerSees, MaxThreads) <= SumTo(StoresTo, MaxThreads)
  BY <1>1, <1>2, WordFacts, SumAtMost
<1> QED BY <1>3 DEF TurnsStored

LEMMA TotalInit == Init => TotalInv
<1> SUFFICES ASSUME Init PROVE TotalInv
  OBVIOUS
<1>1. MaxThreads \in Nat /\ None \notin 0 .. MaxThreads /\ Main \in 0 .. MaxThreads
  BY ThreadsAssumption DEF None, Main
<1>2. /\ <<>> \in Seq(Ops) /\ <<0>> \in Seq(Int)
      /\ Len(<<0>>) = 1 /\ <<0>>[1] = 0 /\ Len(<<>>) = 0
  OBVIOUS
<1>3. CounterTypeOK
  <2>1. history \in [Counters -> Seq(Int)]
    BY <1>2 DEF Init
  <2>2. seen \in [0 .. MaxThreads -> [Counters -> Nat]]
    BY DEF Init
  <2>3. load \in [1 .. MaxThreads -> {<<>>} \cup (Counters \X Int)]
    BY DEF Init
  <2>4. added \in [1 .. MaxThreads -> Seq(Ops)]
    BY <1>2 DEF Init
  <2>5. at \in (0 .. MaxThreads) \cup {None} /\ acc \in Int /\ total \in Int
    BY DEF Init
  <2> QED BY <2>1, <2>2, <2>3, <2>4, <2>5 DEF CounterTypeOK
<1>4. \A j \in Counters : history[j] = <<0>>
  BY DEF Init
<1>5. \A u \in 0 .. MaxThreads, j \in Counters : seen[u][j] = 1
  BY DEF Init
<1>6. \A t \in 1 .. MaxThreads : load[t] = <<>> /\ added[t] = <<>>
  BY DEF Init
<1>7. WordsBounded
  <2>1. ASSUME NEW j \in Counters, NEW v \in 1 .. Len(history[j])
        PROVE  history[j][v] <= v - 1
    <3>1. history[j] = <<0>>
      BY <1>4
    <3>2. v = 1
      BY <1>2, <3>1
    <3> QED BY <1>2, <3>1, <3>2
  <2>2. ASSUME NEW u \in 0 .. MaxThreads, NEW j \in Counters
        PROVE  seen[u][j] \in 1 .. Len(history[j])
    <3>1. history[j] = <<0>> /\ seen[u][j] = 1
      BY <1>4, <1>5
    <3> QED BY <1>2, <3>1
  <2> QED BY <1>6, <2>1, <2>2 DEF WordsBounded
<1>8. ASSUME NEW t \in 1 .. MaxThreads
      PROVE  OwnerSees[t] = 0 /\ StoresTo[t] = 0 /\ TurnsOf[t] = 0
  <2>1. t - 1 \in Counters
    BY <1>1 DEF Counters
  <2>2. history[t - 1] = <<0>> /\ added[t] = <<>> /\ seen[Main][t - 1] = 1
    BY <1>1, <1>4, <1>5, <1>6, <2>1
  <2>3. OwnerSees[t] = <<0>>[1] /\ StoresTo[t] = Len(<<0>>) - 1 /\ TurnsOf[t] = Len(<<>>)
    BY <2>2, Zenon DEF OwnerSees, StoresTo, TurnsOf
  <2> QED BY <1>2, <2>3
<1>9. /\ SumTo(StoresTo, MaxThreads) = SumTo(TurnsOf, MaxThreads)
      /\ SumTo(OwnerSees, MaxThreads) = SumTo(TurnsOf, MaxThreads)
      /\ SumTo(TurnsOf, MaxThreads) >= 0
  <2>1. MaxThreads \in 0 .. MaxThreads
    BY <1>1
  <2> DEFINE zeros == [t \in 1 .. MaxThreads |-> 0]
             S == {n \in 0 .. MaxThreads : SumTo(zeros, n) = 0}
  <2>2. zeros \in [1 .. MaxThreads -> Int] /\ \A t \in 1 .. MaxThreads : zeros[t] = 0
    OBVIOUS
  <2> HIDE DEF zeros
  <2>3. 0 \in S
    BY <1>1, <2>2, SumFacts
  <2>4. ASSUME NEW n \in 0 .. MaxThreads, n < MaxThreads, n \in S PROVE n + 1 \in S
    <3>1. n + 1 \in 1 .. MaxThreads
      BY <1>1, <2>4
    <3>2. SumTo(zeros, n + 1) = SumTo(zeros, n) + zeros[n + 1]
      BY <1>1, <2>2, <2>4, SumFacts
    <3> QED BY <2>2, <2>4, <3>1, <3>2
  <2>5. SumTo(zeros, MaxThreads) = 0
    <3>1. \A n \in 0 .. MaxThreads : n \in S
      <4> HIDE DEF S
      <4> QED BY <1>1, <2>3, <2>4, IntervalInduction
    <3> QED BY <2>1, <3>1
  <2>6. /\ SumTo(StoresTo, MaxThreads) = SumTo(zeros, MaxThreads)
        /\ SumTo(OwnerSees, MaxThreads) = SumTo(zeros, MaxThreads)
        /\ SumTo(TurnsOf, MaxThreads) = SumTo(zeros, MaxThreads)
    BY <1>1, <1>3, <1>7, <1>8, <2>1, <2>2, WordFacts, SumSame
  <2> QED BY <2>5, <2>6
<1>10. TurnsStored
  BY <1>9 DEF TurnsStored
<1>11. TotalsOK
  BY <1>9 DEF Init, TotalsOK
<1>12. Growing
  <2>1. ASSUME NEW j \in Counters, NEW v \in 1 .. Len(history[j]), NEW w \in 1 .. Len(history[j])
        PROVE  history[j][v] <= history[j][w]
    <3>1. history[j] = <<0>>
      BY <1>4
    <3>2. v = 1 /\ w = 1
      BY <1>2, <3>1
    <3> QED BY <1>2, <3>1, <3>2
  <2>2. total <= SumTo(OwnerSees, MaxThreads)
    BY <1>9 DEF Init
  <2> QED BY <2>1, <2>2 DEF Growing
<1>13. JoinedSeen
  <2>1. ASSUME NEW t \in 1 .. MaxThreads PROVE Len(history[t - 1]) = 1
    <3>1. t - 1 \in Counters
      BY <1>1 DEF Counters
    <3>2. history[t - 1] = <<0>>
      BY <1>4, <3>1
    <3> QED BY <1>2, <3>2, Zenon
  <2>2. \A t : t \notin DOMAIN status
    BY DEF Init, PoolInit
  <2> QED BY <1>6, <2>1, <2>2 DEF JoinedSeen
<1> QED BY <1>3, <1>7, <1>10, <1>11, <1>12, <1>13 DEF TotalInv

\* Nothing a total depends on changes but what other threads have seen.
LEMMA SumsSame ==
    ASSUME UNCHANGED <<history, added>>, seen'[Main] = seen[Main]
    PROVE  OwnerSees' = OwnerSees /\ StoresTo' = StoresTo /\ TurnsOf' = TurnsOf
BY DEF OwnerSees, StoresTo, TurnsOf

LEMMA OnlyAddsSame == ASSUME UNCHANGED added PROVE OnlyAdds' <=> OnlyAdds
BY DEF OnlyAdds

\* What a thread loads is within the stores to the word, and only it has seen
\* anything new.
LEMMA LoadTotals ==
    ASSUME TotalInv, PoolInv, NEW t \in 1 .. MaxThreads, Load(t),
           UNCHANGED <<poolVars, totalVars>>
    PROVE  TotalInv'
<1>0. CounterTypeOK /\ WordsBounded /\ TurnsStored /\ TotalsOK /\ Growing /\ JoinedSeen
  BY DEF TotalInv
<1>1. PICK j \in IdRead(t) : \E v \in Loads(t, j) :
         /\ load' = [load EXCEPT ![t] = <<j, history[j][v]>>]
         /\ seen' = [seen EXCEPT ![t][j] = v]
         /\ misread' = (misread \/ j # t - 1)
  BY DEF Load
<1>2. PICK v \in Loads(t, j) :
         /\ load' = [load EXCEPT ![t] = <<j, history[j][v]>>]
         /\ seen' = [seen EXCEPT ![t] = [seen[t] EXCEPT ![j] = v]]
  BY <1>1
<1>3. UNCHANGED <<history, added, status, at, acc, total>> /\ Running(t)
  BY DEF Load, poolVars, totalVars
<1>4. j \in Counters
  <2>1. t \in DOMAIN status
    BY <1>3 DEF Running
  <2>2. id[t] \in 0 .. MaxThreads - 1 /\ MaxThreads \in Nat
    BY <2>1, PoolFacts
  <2> QED BY <2>2 DEF IdRead, Counters
<1>5. /\ Len(history[j]) \in Nat /\ seen[t][j] \in 1 .. Len(history[j])
      /\ t \in 0 .. MaxThreads /\ t # Main
  BY <1>0, <1>4, WordFacts DEF WordsBounded
<1>6. v \in 1 .. Len(history[j]) /\ history[j][v] \in Int
      /\ history[j][v] <= Len(history[j]) - 1
  <2>1. v \in 1 .. Len(history[j])
    BY <1>2, <1>5 DEF Loads
  <2>2. history[j][v] \in Int /\ history[j][v] <= v - 1
    BY <1>0, <1>4, <2>1, WordFacts DEF WordsBounded
  <2> QED BY <1>5, <2>1, <2>2
<1>7. /\ seen' \in [0 .. MaxThreads -> [Counters -> Nat]]
      /\ seen'[t] = [seen[t] EXCEPT ![j] = v]
      /\ \A u \in 0 .. MaxThreads : u # t => seen'[u] = seen[u]
      /\ seen'[Main] = seen[Main]
  <2>1. v \in Nat
    BY <1>5, <1>6
  <2> QED BY <1>0, <1>2, <1>4, <1>5, <2>1, WordFacts DEF CounterTypeOK
<1>8. /\ load' \in [1 .. MaxThreads -> {<<>>} \cup (Counters \X Int)]
      /\ load'[t] = <<j, history[j][v]>>
      /\ \A u \in 1 .. MaxThreads : u # t => load'[u] = load[u]
  BY <1>0, <1>2, <1>4, <1>6 DEF CounterTypeOK
<1>9. CounterTypeOK'
  BY <1>0, <1>3, <1>7, <1>8 DEF CounterTypeOK
<1>10. WordsBounded'
  <2>1. ASSUME NEW u \in 0 .. MaxThreads, NEW k \in Counters
        PROVE  seen'[u][k] \in 1 .. Len(history[k])
    <3>1. CASE u = t /\ k = j
      BY <1>0, <1>4, <1>5, <1>6, <1>7, <3>1 DEF CounterTypeOK
    <3>2. CASE ~ (u = t /\ k = j)
      <4>1. seen'[u][k] = seen[u][k]
        BY <1>0, <1>5, <1>7, <3>2 DEF CounterTypeOK
      <4> QED BY <1>0, <4>1 DEF WordsBounded
    <3> QED BY <3>1, <3>2
  <2>2. ASSUME NEW u \in 1 .. MaxThreads, load'[u] # <<>>
        PROVE  load'[u][2] <= Len(history[load'[u][1]]) - 1
    <3>1. CASE u = t
      <4>1. load'[u][1] = j /\ load'[u][2] = history[j][v]
        BY <1>8, <3>1
      <4> QED BY <1>6, <4>1
    <3>2. CASE u # t
      BY <1>0, <1>8, <2>2, <3>2 DEF WordsBounded
    <3> QED BY <3>1, <3>2
  <2> QED BY <1>0, <1>3, <2>1, <2>2 DEF WordsBounded
<1>11. OwnerSees' = OwnerSees /\ StoresTo' = StoresTo /\ TurnsOf' = TurnsOf
  BY <1>3, <1>7, SumsSame
<1>12. TurnsStored' /\ TotalsOK'
  BY <1>0, <1>3, <1>11 DEF TurnsStored, TotalsOK
<1>13. Growing'
  BY <1>0, <1>1, <1>3, <1>11, OnlyAddsSame DEF Growing
<1>14. JoinedSeen'
  BY <1>0, <1>1, <1>3, <1>7, <1>8 DEF JoinedSeen, Running
<1> QED BY <1>9, <1>10, <1>12, <1>13, <1>14 DEF TotalInv

\* If every turn was an addition with the last turn of a thread, it is one, and
\* so were those before.
LEMMA OnlyAddsBefore ==
    ASSUME added \in [1 .. MaxThreads -> Seq(Ops)], NEW t \in 1 .. MaxThreads, NEW op \in Ops,
           added' = [added EXCEPT ![t] = Append(added[t], op)], OnlyAdds'
    PROVE  OnlyAdds /\ op = "add1"
<1>1. added[t] \in Seq(Ops)
  OBVIOUS
<1>2. /\ DOMAIN added[t] = 1 .. Len(added[t]) /\ Len(added[t]) \in Nat
      /\ DOMAIN added'[t] = 1 .. Len(added[t]) + 1
      /\ added'[t][Len(added[t]) + 1] = op
      /\ \A k \in 1 .. Len(added[t]) : added'[t][k] = added[t][k]
  <2>1. added'[t] = Append(added[t], op)
    OBVIOUS
  <2> QED BY <1>1, <2>1, AppendFacts
<1>3. \A u \in 1 .. MaxThreads : Range(added'[u]) \subseteq {"add1"}
  BY DEF OnlyAdds
<1>4. ASSUME NEW k \in 1 .. Len(added[t]) + 1 PROVE added'[t][k] = "add1"
  <2>1. added'[t][k] \in Range(added'[t])
    BY <1>2 DEF Range
  <2> QED BY <1>3, <2>1
<1>5. op = "add1"
  BY <1>2, <1>4
<1>6. Range(added[t]) \subseteq {"add1"}
  <2>1. \A k \in 1 .. Len(added[t]) : added[t][k] = "add1"
    BY <1>2, <1>4
  <2> QED BY <1>2, <2>1 DEF Range
<1>7. \A u \in 1 .. MaxThreads : u # t => added'[u] = added[u]
  OBVIOUS
<1>8. \A u \in 1 .. MaxThreads : Range(added[u]) \subseteq {"add1"}
  BY <1>3, <1>6, <1>7
<1> QED BY <1>5, <1>8 DEF OnlyAdds

\* A store is one more store to a word and one more turn; what the owner has
\* seen of the word is still there.
LEMMA StoreTotals ==
    ASSUME TotalInv, CounterInv, NEW t \in 1 .. MaxThreads, NEW op \in Ops, Store(t, op),
           UNCHANGED <<poolVars, totalVars>>
    PROVE  TotalInv'
<1>0. CounterTypeOK /\ WordsBounded /\ TurnsStored /\ TotalsOK /\ Growing /\ JoinedSeen
  BY DEF TotalInv
<1>1. PICK j \in Counters, x \in Int : load[t] = <<j, x>>
  <2>1. load[t] \in Counters \X Int
    BY <1>0 DEF Store, CounterTypeOK
  <2> QED BY <2>1
<1>l. PICK L \in Nat : L = Len(history[j]) /\ L > 0
  BY <1>0, <1>1, WordFacts
<1>2. /\ history' = [history EXCEPT ![j] = Append(history[j], x + Amount(op))]
      /\ seen' = [seen EXCEPT ![t] = [seen[t] EXCEPT ![j] = L + 1]]
      /\ load' = [load EXCEPT ![t] = <<>>]
      /\ added' = [added EXCEPT ![t] = Append(added[t], op)]
      /\ UNCHANGED <<knows, misread, status, at, acc, total>>
      /\ load[t] # <<>> /\ x <= L - 1
  <2>1. load[t][1] = j /\ load[t][2] = x
    BY <1>1
  <2>2. x <= L - 1
    BY <1>0, <1>l, <2>1 DEF Store, WordsBounded
  <2> QED BY <1>l, <2>1, <2>2 DEF Store, poolVars, totalVars
<1>3. Amount(op) \in Int /\ Amount(op) <= 1 /\ (op = "add1" => Amount(op) = 1)
  BY DEF Amount
<1>4. /\ history[j] \in Seq(Int) /\ L = Len(history[j]) /\ L \in Nat /\ L > 0
      /\ j \in Counters /\ x \in Int /\ t \in 0 .. MaxThreads /\ t # Main /\ MaxThreads \in Nat
  BY <1>0, <1>1, <1>l, WordFacts
<1>5. /\ history'[j] = Append(history[j], x + Amount(op))
      /\ \A k \in Counters : k # j => history'[k] = history[k]
  BY <1>0, <1>2, <1>4 DEF CounterTypeOK
<1>6. /\ history'[j] \in Seq(Int) /\ Len(history'[j]) = L + 1
      /\ history'[j][L + 1] = x + Amount(op)
      /\ \A v \in 1 .. L : history'[j][v] = history[j][v]
  <2>1. x + Amount(op) \in Int
    BY <1>3, <1>4
  <2> QED BY <1>4, <1>5, <2>1, AppendFacts
<1>7. /\ seen'[t] = [seen[t] EXCEPT ![j] = L + 1]
      /\ \A u \in 0 .. MaxThreads : u # t => seen'[u] = seen[u]
      /\ seen' \in [0 .. MaxThreads -> [Counters -> Nat]]
      /\ seen'[Main] = seen[Main]
  <2>1. L + 1 \in Nat /\ Main \in 0 .. MaxThreads
    BY <1>4, ThreadsAssumption DEF Main
  <2>2. seen[t] \in [Counters -> Nat]
    BY <1>0, <1>4 DEF CounterTypeOK
  <2>3. [seen[t] EXCEPT ![j] = L + 1] \in [Counters -> Nat]
    BY <1>4, <2>1, <2>2
  <2> QED BY <1>0, <1>2, <1>4, <2>1, <2>3 DEF CounterTypeOK
<1>8. /\ load'[t] = <<>> /\ \A u \in 1 .. MaxThreads : u # t => load'[u] = load[u]
      /\ load' \in [1 .. MaxThreads -> {<<>>} \cup (Counters \X Int)]
  BY <1>0, <1>2 DEF CounterTypeOK
<1>9. /\ added'[t] \in Seq(Ops) /\ Len(added'[t]) = Len(added[t]) + 1
      /\ \A u \in 1 .. MaxThreads : u # t => added'[u] = added[u]
      /\ added' \in [1 .. MaxThreads -> Seq(Ops)]
  <2>1. added[t] \in Seq(Ops)
    BY <1>0 DEF CounterTypeOK
  <2>2. added'[t] = Append(added[t], op)
    BY <1>0, <1>2 DEF CounterTypeOK
  <2>3. added'[t] \in Seq(Ops) /\ Len(added'[t]) = Len(added[t]) + 1
    BY <2>1, <2>2, AppendFacts
  <2> QED BY <1>0, <1>2, <2>3 DEF CounterTypeOK
<1>10. CounterTypeOK'
  <2>1. history' \in [Counters -> Seq(Int)]
    BY <1>0, <1>2, <1>5, <1>6 DEF CounterTypeOK
  <2> QED BY <1>0, <1>2, <1>7, <1>8, <1>9, <2>1 DEF CounterTypeOK
<1>11. WordsBounded'
  <2>1. ASSUME NEW k \in Counters, NEW v \in 1 .. Len(history'[k])
        PROVE  history'[k][v] <= v - 1
    <3>1. CASE k = j /\ v = L + 1
      BY <1>2, <1>3, <1>4, <1>6, <3>1
    <3>2. CASE k = j /\ v # L + 1
      <4>1. v \in 1 .. L
        <5>1. v \in 1 .. L + 1 /\ v # L + 1
          BY <1>6, <3>2
        <5> QED BY <1>4, <5>1
      <4>2. history'[k][v] = history[k][v]
        BY <1>6, <3>2, <4>1
      <4> QED BY <1>0, <1>4, <3>2, <4>1, <4>2 DEF WordsBounded
    <3>3. CASE k # j
      BY <1>0, <1>5, <3>3 DEF WordsBounded
    <3> QED BY <3>1, <3>2, <3>3
  <2>2. ASSUME NEW u \in 0 .. MaxThreads, NEW k \in Counters
        PROVE  seen'[u][k] \in 1 .. Len(history'[k])
    <3>1. CASE u = t /\ k = j
      <4>1. seen'[t][j] = L + 1
        BY <1>0, <1>2, <1>4, <1>7 DEF CounterTypeOK
      <4>2. Len(history'[j]) = L + 1
        BY <1>6
      <4> QED BY <1>4, <3>1, <4>1, <4>2
    <3>2. CASE ~ (u = t /\ k = j)
      <4>1. seen'[u][k] = seen[u][k]
        BY <1>0, <1>4, <1>7, <3>2 DEF CounterTypeOK
      <4>2. seen[u][k] \in 1 .. Len(history[k])
        BY <1>0 DEF WordsBounded
      <4>3. history'[k] = history[k] \/ (k = j /\ Len(history'[k]) = Len(history[k]) + 1)
        BY <1>5, <1>6
      <4> QED BY <1>4, <4>1, <4>2, <4>3
    <3> QED BY <3>1, <3>2
  <2>3. ASSUME NEW u \in 1 .. MaxThreads, load'[u] # <<>>
        PROVE  load'[u][2] <= Len(history'[load'[u][1]]) - 1
    <3>1. u # t /\ load'[u] = load[u] /\ load[u] # <<>>
      BY <1>8, <2>3
    <3>2. load[u][1] \in Counters /\ load[u][2] \in Int
      BY <1>0, <3>1 DEF CounterTypeOK
    <3>3. load[u][2] <= Len(history[load[u][1]]) - 1
      BY <1>0, <3>1 DEF WordsBounded
    <3>4. CASE load[u][1] = j
      <4>1. Len(history'[load[u][1]]) = L + 1 /\ load[u][2] <= L - 1
        BY <1>4, <1>6, <3>3, <3>4
      <4> QED BY <1>4, <3>1, <3>2, <4>1
    <3>5. CASE load[u][1] # j
      BY <1>5, <3>1, <3>2, <3>3, <3>5
    <3> QED BY <3>4, <3>5
  <2> QED BY <2>1, <2>2, <2>3 DEF WordsBounded
<1>12. OwnerSees' = OwnerSees
  <2>1. ASSUME NEW u \in 1 .. MaxThreads
        PROVE  history'[u - 1][seen'[Main][u - 1]] = history[u - 1][seen[Main][u - 1]]
    <3>1. u - 1 \in Counters /\ seen[Main][u - 1] \in 1 .. Len(history[u - 1])
      BY <1>0, WordFacts
    <3>2. CASE u - 1 = j
      BY <1>4, <1>6, <1>7, <3>1, <3>2
    <3>3. CASE u - 1 # j
      BY <1>5, <1>7, <3>1, <3>3
    <3> QED BY <3>2, <3>3
  <2> QED BY <2>1 DEF OwnerSees
<1>13. SumTo(StoresTo', MaxThreads) = SumTo(StoresTo, MaxThreads) + 1
  <2>0. j + 1 \in 1 .. MaxThreads /\ (j + 1) - 1 = j
    BY <1>0, <1>4, WordFacts
  <2>1. StoresTo'[j + 1] = StoresTo[j + 1] + 1
    <3>1. StoresTo'[j + 1] = Len(history'[j]) - 1 /\ StoresTo[j + 1] = Len(history[j]) - 1
      BY <2>0 DEF StoresTo
    <3> QED BY <1>4, <1>6, <3>1
  <2>2. ASSUME NEW u \in 1 .. MaxThreads, u # j + 1 PROVE StoresTo'[u] = StoresTo[u]
    <3>1. u - 1 \in Counters
      BY <1>0, WordFacts
    <3>2. u - 1 # j
      BY <1>4, <2>0, <2>2
    <3> QED BY <1>5, <3>1, <3>2 DEF StoresTo
  <2>3. StoresTo \in [1 .. MaxThreads -> Int] /\ StoresTo' \in [1 .. MaxThreads -> Int]
    <3>1. (CounterTypeOK /\ WordsBounded)' => (StoresTo \in [1 .. MaxThreads -> Int])'
      BY WordFacts, PTL
    <3> QED BY <1>0, <1>10, <1>11, <3>1, WordFacts
  <2> QED BY <1>4, <2>0, <2>1, <2>2, <2>3, SumOneMore
<1>14. SumTo(TurnsOf', MaxThreads) = SumTo(TurnsOf, MaxThreads) + 1
  <2>1. TurnsOf'[t] = TurnsOf[t] + 1
    BY <1>9 DEF TurnsOf
  <2>2. \A u \in 1 .. MaxThreads : u # t => TurnsOf'[u] = TurnsOf[u]
    BY <1>9 DEF TurnsOf
  <2>3. TurnsOf \in [1 .. MaxThreads -> Int] /\ TurnsOf' \in [1 .. MaxThreads -> Int]
    <3>1. (CounterTypeOK /\ WordsBounded)' => (TurnsOf \in [1 .. MaxThreads -> Int])'
      BY WordFacts, PTL
    <3> QED BY <1>0, <1>10, <1>11, <3>1, WordFacts
  <2> QED BY <1>4, <2>1, <2>2, <2>3, SumOneMore
<1>15. SumTo(TurnsOf, MaxThreads) \in Int /\ SumTo(StoresTo, MaxThreads) \in Int
  <2>1. MaxThreads \in 0 .. MaxThreads
    BY <1>4
  <2> QED BY <1>0, <1>4, <2>1, WordFacts, SumFacts
<1>16. TurnsStored'
  BY <1>0, <1>13, <1>14 DEF TurnsStored
<1>17. TotalsOK'
  <2>1. total \in Int
    BY <1>0 DEF CounterTypeOK
  <2> QED BY <1>0, <1>2, <1>12, <1>14, <1>15, <2>1 DEF TotalsOK
<1>18. Growing'
  <2> SUFFICES ASSUME OnlyAdds', ~ misread'
               PROVE  /\ \A k \in Counters : \A v, w \in 1 .. Len(history'[k]) :
                           v <= w => history'[k][v] <= history'[k][w]
                      /\ total' <= SumTo(OwnerSees', MaxThreads)
    BY DEF Growing
  <2>1. OnlyAdds /\ op = "add1" /\ ~ misread
    BY <1>0, <1>2, OnlyAddsBefore DEF CounterTypeOK
  <2>2. x = history[j][L]
    <3>1. load[t] = <<t - 1, Newest(t)>>
      BY <1>2, <2>1 DEF CounterInv, WordsOwned
    <3>2. j = t - 1 /\ x = Newest(t)
      BY <1>1, <3>1
    <3> QED BY <1>4, <3>2 DEF Newest
  <2>3. ASSUME NEW k \in Counters, NEW v \in 1 .. Len(history'[k]),
               NEW w \in 1 .. Len(history'[k]), v <= w
        PROVE  history'[k][v] <= history'[k][w]
    <3>1. CASE k # j
      BY <1>0, <1>5, <2>1, <2>3, <3>1 DEF Growing
    <3>2. CASE k = j /\ w # L + 1
      <4>1. v \in 1 .. L /\ w \in 1 .. L
        <5>1. Len(history'[k]) = L + 1 /\ w # L + 1
          BY <1>6, <3>2
        <5> QED BY <1>4, <2>3, <5>1
      <4> QED BY <1>0, <1>4, <1>6, <2>1, <2>3, <3>2, <4>1 DEF Growing
    <3>3. CASE k = j /\ w = L + 1 /\ v = L + 1
      BY <1>2, <1>3, <1>6, <3>3
    <3>4. CASE k = j /\ w = L + 1 /\ v # L + 1
      <4>1. v \in 1 .. L /\ L \in 1 .. L /\ v <= L
        BY <1>4, <1>6, <3>4
      <4>2. history[j][v] <= history[j][L] /\ history[j][v] \in Int
        BY <1>0, <1>4, <2>1, <4>1, WordFacts DEF Growing
      <4>3. Amount(op) = 1 /\ history[j][L] = x
        BY <1>2, <1>3, <1>4, <2>1, <2>2, <3>4
      <4>4. history'[k][w] = x + 1 /\ history'[k][v] = history[j][v]
        BY <1>6, <3>4, <4>1, <4>3
      <4> QED BY <1>4, <4>2, <4>3, <4>4
    <3> QED BY <3>1, <3>2, <3>3, <3>4
  <2>4. total' <= SumTo(OwnerSees', MaxThreads)
    BY <1>0, <1>2, <1>12, <2>1 DEF Growing
  <2> QED BY <2>3, <2>4
<1>19. JoinedSeen'
  <2>1. Running(t)
    BY <1>0, <1>2 DEF JoinedSeen
  <2>2. \A u \in 1 .. MaxThreads : ~ Running(u)' => load'[u] = <<>>
    BY <1>0, <1>2, <1>8 DEF JoinedSeen, Running
  <2>3. ASSUME ~ misread', NEW u \in 1 .. MaxThreads
        PROVE  /\ u \notin DOMAIN status' => Len(history'[u - 1]) = 1
               /\ u \in DOMAIN status' /\ status'[u] = "freed"
                    => seen'[Main][u - 1] = Len(history'[u - 1])
    <3>1. CASE u = t
      BY <1>2, <2>1, <3>1 DEF Running
    <3>2. CASE u # t
      <4>1. j = t - 1
        <5>1. load[t] = <<t - 1, Newest(t)>>
          BY <1>2, <2>3 DEF CounterInv, WordsOwned
        <5> QED BY <1>1, <5>1
      <4>2. u - 1 \in Counters /\ u - 1 # j
        BY <1>0, <3>2, <4>1, WordFacts
      <4> QED BY <1>0, <1>2, <1>5, <1>7, <2>3, <4>2 DEF JoinedSeen
    <3> QED BY <3>1, <3>2
  <2> QED BY <2>2, <2>3 DEF JoinedSeen
<1> QED BY <1>10, <1>11, <1>16, <1>17, <1>18, <1>19 DEF TotalInv

-----------------------------------------------------------------------------

\* A set of numbers with a bound has a greatest.
LEMMA MaxFacts ==
    ASSUME NEW S, NEW N \in Nat, S # {}, \A x \in S : x \in 0 .. N
    PROVE  Max(S) \in S /\ \A x \in S : x <= Max(S)
<1>1. \E x \in S : \A y \in S : x >= y
  <2> SUFFICES ASSUME \A x \in S : \E y \in S : ~ (x >= y) PROVE FALSE
    OBVIOUS
  <2> DEFINE T == {n \in Nat : \A y \in S : y <= N - n}
  <2>1. 0 \in T
    OBVIOUS
  <2>2. ASSUME NEW n \in Nat, n \in T PROVE n + 1 \in T
    <3>1. ASSUME NEW y \in S PROVE y <= N - (n + 1)
      <4>1. PICK z \in S : ~ (y >= z)
        OBVIOUS
      <4>2. y \in Int /\ z \in Int /\ z <= N - n
        BY <2>2
      <4> QED BY <4>1, <4>2
    <3> QED BY <3>1
  <2>3. \A n \in Nat : n \in T
    <3> HIDE DEF T
    <3> QED BY <2>1, <2>2, NatSetInduction
  <2>4. N + 1 \in T
    BY <2>3
  <2> QED BY <2>4
<1>2. Max(S) \in S /\ \A y \in S : Max(S) >= y
  BY <1>1 DEF Max
<1>3. \A x \in S : x \in Int
  OBVIOUS
<1> QED BY <1>2, <1>3

\* What the owner has seen of a word can only get newer, and what it sees of words
\* that only grow is not less.
LEMMA OwnerLooks ==
    ASSUME TotalInv, UNCHANGED <<history, load, added, misread, total>>,
           NEW new \in [Counters -> Nat], seen' = [seen EXCEPT ![Main] = new],
           \A j \in Counters : new[j] \in seen[Main][j] .. Len(history[j])
    PROVE  /\ history' \in [Counters -> Seq(Int)]
           /\ seen' \in [0 .. MaxThreads -> [Counters -> Nat]]
           /\ load' \in [1 .. MaxThreads -> {<<>>} \cup (Counters \X Int)]
           /\ added' \in [1 .. MaxThreads -> Seq(Ops)]
           /\ total' \in Int
           /\ seen'[Main] = new /\ \A u \in 1 .. MaxThreads : seen'[u] = seen[u]
           /\ WordsBounded' /\ TurnsStored' /\ Growing'
           /\ TurnsOf' = TurnsOf
           /\ OwnerSees' \in [1 .. MaxThreads -> Int]
<1>0. CounterTypeOK /\ WordsBounded /\ TurnsStored /\ TotalsOK /\ Growing /\ JoinedSeen
  BY DEF TotalInv
<1>1. MaxThreads \in Nat /\ Main \in 0 .. MaxThreads
  BY ThreadsAssumption DEF Main
<1>2. seen'[Main] = new /\ \A u \in 0 .. MaxThreads : u # Main => seen'[u] = seen[u]
  BY <1>0, <1>1 DEF CounterTypeOK
<1>3. ASSUME NEW j \in Counters
      PROVE  /\ seen[Main][j] \in 1 .. Len(history[j]) /\ Len(history[j]) \in Nat
             /\ seen'[Main][j] \in 1 .. Len(history[j])
             /\ seen[Main][j] <= seen'[Main][j]
  BY <1>0, <1>2, WordFacts
<1>5. seen' \in [0 .. MaxThreads -> [Counters -> Nat]]
  BY <1>0 DEF CounterTypeOK
<1>6. WordsBounded'
  <2>1. ASSUME NEW u \in 0 .. MaxThreads, NEW j \in Counters
        PROVE  seen'[u][j] \in 1 .. Len(history[j])
    <3>1. CASE u = Main
      BY <1>3, <3>1
    <3>2. CASE u # Main
      BY <1>0, <1>2, <3>2 DEF WordsBounded
    <3> QED BY <3>1, <3>2
  <2> QED BY <1>0, <2>1 DEF WordsBounded
<1>7. StoresTo' = StoresTo /\ TurnsOf' = TurnsOf
  BY DEF StoresTo, TurnsOf
<1>8. TurnsStored'
  BY <1>0, <1>7 DEF TurnsStored
<1>9. OwnerSees' \in [1 .. MaxThreads -> Int]
  <2>1. ASSUME NEW t \in 1 .. MaxThreads PROVE history[t - 1][seen'[Main][t - 1]] \in Int
    <3>1. t - 1 \in Counters
      BY <1>0, WordFacts
    <3> QED BY <1>0, <1>3, <3>1, WordFacts
  <2> QED BY <2>1 DEF OwnerSees
<1>10. Growing'
  <2> SUFFICES ASSUME OnlyAdds, ~ misread
               PROVE  /\ \A j \in Counters : \A v, w \in 1 .. Len(history[j]) :
                           v <= w => history[j][v] <= history[j][w]
                      /\ total <= SumTo(OwnerSees', MaxThreads)
    BY OnlyAddsSame DEF Growing
  <2>1. \A j \in Counters : \A v, w \in 1 .. Len(history[j]) :
          v <= w => history[j][v] <= history[j][w]
    BY <1>0 DEF Growing
  <2>2. ASSUME NEW t \in 1 .. MaxThreads PROVE OwnerSees[t] <= OwnerSees'[t]
    <3>1. t - 1 \in Counters
      BY <1>0, WordFacts
    <3>2. history[t - 1][seen[Main][t - 1]] <= history[t - 1][seen'[Main][t - 1]]
      BY <1>3, <2>1, <3>1
    <3> QED BY <3>2 DEF OwnerSees
  <2>3. MaxThreads \in 0 .. MaxThreads
    BY <1>1
  <2>4. OwnerSees \in [1 .. MaxThreads -> Int]
    BY <1>0, WordFacts
  <2>5. SumTo(OwnerSees, MaxThreads) <= SumTo(OwnerSees', MaxThreads)
    BY <1>1, <1>9, <2>2, <2>3, <2>4, SumAtMost
  <2>6. SumTo(OwnerSees, MaxThreads) \in Int /\ SumTo(OwnerSees', MaxThreads) \in Int
    BY <1>1, <1>9, <2>3, <2>4, SumFacts
  <2>7. total <= SumTo(OwnerSees, MaxThreads) /\ total \in Int
    BY <1>0 DEF Growing, CounterTypeOK
  <2> QED BY <2>1, <2>5, <2>6, <2>7
<1>11. \A u \in 1 .. MaxThreads : seen'[u] = seen[u]
  BY <1>0, <1>2, WordFacts
<1> QED BY <1>0, <1>2, <1>5, <1>6, <1>7, <1>8, <1>9, <1>10, <1>11 DEF CounterTypeOK

\* A step of the owner starts one thread or frees one that has returned.
LEMMA OwnerStatus ==
    ASSUME PoolInv, OwnerBegin \/ OwnerProceed
    PROVE  /\ DOMAIN status \subseteq DOMAIN status'
           /\ \A t \in DOMAIN status :
                \/ status'[t] = status[t]
                \/ status[t] = "returned" /\ status'[t] = "freed"
           /\ \A t \in DOMAIN status' \ DOMAIN status : status'[t] = "running"
<1>1. CASE thread_start
  <2>1. "running" \in States /\ status \in Seq(States)
    BY PoolFacts DEF States
  <2>2. status' = Append(status, "running")
    BY <1>1 DEF thread_start
  <2>3. /\ DOMAIN status = 1 .. Len(status) /\ DOMAIN status' = 1 .. Len(status) + 1
        /\ Len(status) \in Nat /\ status'[Len(status) + 1] = "running"
        /\ \A t \in DOMAIN status : status'[t] = status[t]
    BY <2>1, <2>2, AppendFacts
  <2>4. \A t \in DOMAIN status' \ DOMAIN status : t = Len(status) + 1
    BY <2>3
  <2> QED BY <2>3, <2>4
<1>2. ASSUME NEW t, NEW label, thread_join(t, label)
      PROVE  /\ DOMAIN status' = DOMAIN status
             /\ \A u \in DOMAIN status :
                  \/ status'[u] = status[u]
                  \/ status[u] = "returned" /\ status'[u] = "freed"
  BY <1>2 DEF thread_join
<1>3. CASE Join
  BY <1>2, <1>3 DEF Join
<1>4. CASE JoinNext
  BY <1>2, <1>4 DEF JoinNext
<1>5. CASE thread_pool_start \/ thread_pool_join_all \/ \E k \in 1 .. MaxThreads : thread_pool_join(k)
  BY <1>5 DEF thread_pool_start, thread_pool_join_all, thread_pool_join
<1> QED BY <1>1, <1>3, <1>4, <1>5 DEF OwnerBegin, OwnerProceed

\* Joining a thread shows the owner all that the thread has seen.
LEMMA JoinSees ==
    ASSUME CounterTypeOK, WordsBounded, NEW J, J \subseteq 1 .. MaxThreads
    PROVE  /\ SeenWith(J) \in [Counters -> Nat]
           /\ \A j \in Counters :
                /\ SeenWith(J)[j] \in seen[Main][j] .. Len(history[j])
                /\ \A t \in J : seen[t][j] <= SeenWith(J)[j]
<1>1. Main \in 0 .. MaxThreads /\ J \subseteq 0 .. MaxThreads
  BY ThreadsAssumption DEF Main
<1>2. ASSUME NEW j \in Counters
      PROVE  /\ SeenWith(J)[j] \in seen[Main][j] .. Len(history[j])
             /\ SeenWith(J)[j] \in Nat
             /\ \A t \in J : seen[t][j] <= SeenWith(J)[j]
  <2> DEFINE S == {seen[u][j] : u \in J \union {Main}}
  <2>1. \A x \in S : x \in 0 .. Len(history[j])
    BY <1>1 DEF WordsBounded
  <2>2. Len(history[j]) \in Nat
    BY WordFacts
  <2>3. seen[Main][j] \in S /\ \A t \in J : seen[t][j] \in S
    OBVIOUS
  <2>4. SeenWith(J)[j] = Max(S)
    BY DEF SeenWith
  <2> HIDE DEF S
  <2>5. Max(S) \in S /\ \A x \in S : x <= Max(S)
    <3>1. S # {}
      BY <2>3
    <3> QED BY <2>1, <2>2, <3>1, MaxFacts
  <2>6. seen[Main][j] \in Nat
    BY <1>1 DEF CounterTypeOK
  <2> QED BY <2>1, <2>2, <2>3, <2>4, <2>5, <2>6
<1>3. SeenWith(J) = [j \in Counters |-> SeenWith(J)[j]]
  BY DEF SeenWith
<1> QED BY <1>2, <1>3

LEMMA PoolTotals ==
    ASSUME TotalInv, CounterInv, PoolInv, PoolStep(OwnerBegin) \/ PoolStep(OwnerProceed)
    PROVE  TotalInv'
<1> DEFINE J == {t \in DOMAIN status : status[t] = "returned" /\ status'[t] = "freed"}
<1>0. CounterTypeOK /\ WordsBounded /\ TurnsStored /\ TotalsOK /\ Growing /\ JoinedSeen
  BY DEF TotalInv
<1>1. /\ at = None /\ seen' = [seen EXCEPT ![Main] = SeenWith(J)]
      /\ UNCHANGED <<history, load, added, misread, at, acc, total>>
      /\ OwnerBegin \/ OwnerProceed
  BY DEF PoolStep, totalVars
<1>2. J \subseteq 1 .. MaxThreads /\ J \subseteq DOMAIN status
  BY PoolFacts
<1>3. /\ DOMAIN status \subseteq DOMAIN status'
      /\ \A t \in DOMAIN status : status'[t] = status[t] \/ t \in J
      /\ \A t \in J : status[t] = "returned" /\ status'[t] = "freed"
      /\ \A t \in DOMAIN status' \ DOMAIN status : status'[t] = "running"
  BY <1>1, OwnerStatus
<1> HIDE DEF J
<1>4. /\ SeenWith(J) \in [Counters -> Nat]
      /\ \A j \in Counters :
           /\ SeenWith(J)[j] \in seen[Main][j] .. Len(history[j])
           /\ \A t \in J : seen[t][j] <= SeenWith(J)[j]
  BY <1>0, <1>2, JoinSees
<1>5. /\ history' \in [Counters -> Seq(Int)]
      /\ seen' \in [0 .. MaxThreads -> [Counters -> Nat]]
      /\ load' \in [1 .. MaxThreads -> {<<>>} \cup (Counters \X Int)]
      /\ added' \in [1 .. MaxThreads -> Seq(Ops)]
      /\ total' \in Int
      /\ seen'[Main] = SeenWith(J)
      /\ WordsBounded' /\ TurnsStored' /\ Growing'
      /\ TurnsOf' = TurnsOf
  BY <1>1, <1>4, OwnerLooks
<1>6. CounterTypeOK'
  BY <1>0, <1>1, <1>5 DEF CounterTypeOK
<1>7. TotalsOK'
  BY <1>0, <1>1, <1>5 DEF TotalsOK
<1>8. JoinedSeen'
  <2>1. ASSUME NEW t \in 1 .. MaxThreads, ~ Running(t)' PROVE load'[t] = <<>>
    <3>1. ~ Running(t)
      BY <1>3, <2>1 DEF Running
    <3> QED BY <1>0, <1>1, <3>1 DEF JoinedSeen
  <2>2. ASSUME ~ misread', NEW t \in 1 .. MaxThreads
        PROVE  /\ t \notin DOMAIN status' => Len(history'[t - 1]) = 1
               /\ t \in DOMAIN status' /\ status'[t] = "freed"
                    => seen'[Main][t - 1] = Len(history'[t - 1])
    <3>1. t - 1 \in Counters
      BY <1>0, WordFacts
    <3>2. /\ seen[Main][t - 1] \in Nat /\ Len(history[t - 1]) \in Nat
          /\ SeenWith(J)[t - 1] \in seen[Main][t - 1] .. Len(history[t - 1])
      BY <1>0, <1>4, <3>1, WordFacts
    <3>3. CASE t \in J
      <4>1. seen[t][t - 1] = Len(history[t - 1])
        BY <1>1, <2>2 DEF CounterInv, WordsOwned
      <4>2. SeenWith(J)[t - 1] = Len(history[t - 1])
        BY <1>4, <3>1, <3>2, <3>3, <4>1
      <4> QED BY <1>1, <1>2, <1>3, <1>5, <3>3, <4>2
    <3>4. CASE t \notin J /\ t \in DOMAIN status /\ status'[t] = "freed"
      <4>1. seen[Main][t - 1] = Len(history[t - 1])
        BY <1>0, <1>1, <1>3, <2>2, <3>4 DEF JoinedSeen
      <4>2. SeenWith(J)[t - 1] = Len(history[t - 1])
        BY <3>2, <4>1
      <4> QED BY <1>1, <1>3, <1>5, <3>4, <4>2
    <3>5. CASE t \notin DOMAIN status
      <4>1. t \in DOMAIN status' => status'[t] # "freed"
        BY <1>3, <3>5
      <4> QED BY <1>0, <1>1, <2>2, <3>5, <4>1 DEF JoinedSeen
    <3>6. CASE t \in DOMAIN status /\ status'[t] # "freed"
      BY <1>3, <3>6
    <3> QED BY <3>3, <3>4, <3>5, <3>6
  <2> QED BY <2>1, <2>2 DEF JoinedSeen
<1> QED BY <1>5, <1>6, <1>7, <1>8 DEF TotalInv

LEMMA ReturnTotals ==
    ASSUME TotalInv, PoolInv, NEW t \in 1 .. MaxThreads, ReturnStep(t)
    PROVE  TotalInv'
<1>0. CounterTypeOK /\ WordsBounded /\ TurnsStored /\ TotalsOK /\ Growing /\ JoinedSeen
  BY DEF TotalInv
<1>1. /\ UNCHANGED <<history, seen, load, added, misread, at, acc, total>>
      /\ t \in DOMAIN status /\ load[t] = <<>>
      /\ status' = [status EXCEPT ![t] = "returned"]
  BY DEF ReturnStep, Return, thread_return, counterVars, totalVars
<1>2. OwnerSees' = OwnerSees /\ StoresTo' = StoresTo /\ TurnsOf' = TurnsOf
  BY <1>1 DEF OwnerSees, StoresTo, TurnsOf
<1>3. CounterTypeOK' /\ WordsBounded'
  BY <1>0, <1>1 DEF CounterTypeOK, WordsBounded
<1>4. TurnsStored' /\ TotalsOK'
  BY <1>0, <1>1, <1>2 DEF TurnsStored, TotalsOK
<1>5. Growing'
  BY <1>0, <1>1, <1>2, OnlyAddsSame DEF Growing
<1>6. JoinedSeen'
  <2>1. DOMAIN status' = DOMAIN status /\ status'[t] = "returned"
    BY <1>1
  <2>2. \A u \in DOMAIN status : u # t => status'[u] = status[u]
    BY <1>1
  <2>3. \A u \in 1 .. MaxThreads : ~ Running(u)' => load'[u] = <<>>
    BY <1>0, <1>1, <2>1, <2>2 DEF JoinedSeen, Running
  <2>4. ASSUME ~ misread', NEW u \in 1 .. MaxThreads
        PROVE  /\ u \notin DOMAIN status' => Len(history'[u - 1]) = 1
               /\ u \in DOMAIN status' /\ status'[u] = "freed"
                    => seen'[Main][u - 1] = Len(history'[u - 1])
    BY <1>0, <1>1, <2>1, <2>2, <2>4 DEF JoinedSeen
  <2> QED BY <2>3, <2>4 DEF JoinedSeen
<1> QED BY <1>3, <1>4, <1>5, <1>6 DEF TotalInv

LEMMA StartTotals == ASSUME TotalInv, stats_counter_total PROVE TotalInv'
<1>0. CounterTypeOK /\ WordsBounded /\ TurnsStored /\ TotalsOK /\ Growing /\ JoinedSeen
  BY DEF TotalInv
<1>1. /\ UNCHANGED <<history, seen, load, added, misread, status, total>>
      /\ at' = 0 /\ acc' = 0
  BY DEF stats_counter_total, counterVars, poolVars
<1>2. OwnerSees' = OwnerSees /\ StoresTo' = StoresTo /\ TurnsOf' = TurnsOf
  BY <1>1 DEF OwnerSees, StoresTo, TurnsOf
<1>3. CounterTypeOK' /\ WordsBounded'
  <2>1. 0 \in 0 .. MaxThreads /\ 0 \in Int
    BY ThreadsAssumption
  <2>2. CounterTypeOK'
    BY <1>0, <1>1, <2>1 DEF CounterTypeOK
  <2> QED BY <1>0, <1>1, <2>2 DEF WordsBounded
<1>4. TurnsStored' /\ TotalsOK'
  <2>1. SumTo(OwnerSees, 0) = 0
    BY <1>0, WordFacts, SumFacts
  <2> QED BY <1>0, <1>1, <1>2, <2>1 DEF TurnsStored, TotalsOK
<1>5. Growing'
  BY <1>0, <1>1, <1>2, OnlyAddsSame DEF Growing
<1>6. JoinedSeen'
  BY <1>0, <1>1 DEF JoinedSeen, Running
<1> QED BY <1>3, <1>4, <1>5, <1>6 DEF TotalInv

\* A turn of the loop adds what the owner sees of the next word, and it goes on
\* seeing what it has added of those before.
LEMMA AddTotals == ASSUME TotalInv, AddCount PROVE TotalInv'
<1>0. CounterTypeOK /\ WordsBounded /\ TurnsStored /\ TotalsOK /\ Growing /\ JoinedSeen
  BY DEF TotalInv
<1>1. PICK v \in Loads(Main, at) :
         /\ acc' = acc + history[at][v]
         /\ seen' = [seen EXCEPT ![Main][at] = v]
  BY DEF AddCount
<1> DEFINE new == [seen[Main] EXCEPT ![at] = v]
<1>2. /\ at \in Counters /\ at' = at + 1 /\ seen' = [seen EXCEPT ![Main] = new]
      /\ UNCHANGED <<history, load, added, misread, status, total>>
  BY <1>1 DEF AddCount, poolVars
<1>3. /\ MaxThreads \in Nat /\ Len(history[at]) \in Nat
      /\ seen[Main] \in [Counters -> Nat] /\ seen[Main][at] \in Nat
      /\ v \in seen[Main][at] .. Len(history[at]) /\ v \in 1 .. Len(history[at])
  <2>1. /\ MaxThreads \in Nat /\ Len(history[at]) \in Nat /\ Main \in 0 .. MaxThreads
        /\ seen[Main][at] \in 1 .. Len(history[at])
    BY <1>0, <1>2, WordFacts
  <2>2. v \in seen[Main][at] .. Len(history[at])
    BY <1>1 DEF Loads
  <2> QED BY <1>0, <2>1, <2>2 DEF CounterTypeOK
<1>4. /\ new \in [Counters -> Nat] /\ new[at] = v
      /\ \A j \in Counters : j # at => new[j] = seen[Main][j]
  BY <1>2, <1>3
<1> HIDE DEF new
<1>5. \A j \in Counters : new[j] \in seen[Main][j] .. Len(history[j])
  <2>1. ASSUME NEW j \in Counters PROVE new[j] \in seen[Main][j] .. Len(history[j])
    <3>1. seen[Main][j] \in 1 .. Len(history[j])
      BY <1>0, WordFacts
    <3>2. CASE j = at
      BY <1>3, <1>4, <3>2
    <3>3. CASE j # at
      BY <1>4, <3>1, <3>3
    <3> QED BY <3>2, <3>3
  <2> QED BY <2>1
<1>6. /\ history' \in [Counters -> Seq(Int)]
      /\ seen' \in [0 .. MaxThreads -> [Counters -> Nat]]
      /\ load' \in [1 .. MaxThreads -> {<<>>} \cup (Counters \X Int)]
      /\ added' \in [1 .. MaxThreads -> Seq(Ops)]
      /\ total' \in Int
      /\ seen'[Main] = new
      /\ WordsBounded' /\ TurnsStored' /\ Growing'
      /\ TurnsOf' = TurnsOf
      /\ OwnerSees' \in [1 .. MaxThreads -> Int]
  BY <1>2, <1>4, <1>5, OwnerLooks
<1>7. /\ at \in 0 .. MaxThreads /\ at < MaxThreads /\ at + 1 \in 1 .. MaxThreads
      /\ (at + 1) - 1 = at
  BY <1>2, <1>3 DEF Counters
<1>8. OwnerSees'[at + 1] = history[at][v]
  BY <1>2, <1>4, <1>6, <1>7 DEF OwnerSees
<1>9. OwnerSees \in [1 .. MaxThreads -> Int]
  BY <1>0, WordFacts
<1>10. SumTo(OwnerSees', at) = SumTo(OwnerSees, at)
  <2>1. ASSUME NEW k \in 1 .. at PROVE OwnerSees'[k] = OwnerSees[k]
    <3>1. k \in 1 .. MaxThreads /\ k - 1 \in Counters /\ k - 1 # at
      BY <1>3, <1>7 DEF Counters
    <3> QED BY <1>2, <1>4, <1>6, <3>1 DEF OwnerSees
  <2> QED BY <1>3, <1>6, <1>7, <1>9, <2>1, SumSame
<1>11. acc' = SumTo(OwnerSees', at + 1)
  <2>1. acc = SumTo(OwnerSees, at)
    <3>1. at # None
      BY <1>7 DEF None
    <3> QED BY <1>0, <3>1 DEF TotalsOK
  <2>2. SumTo(OwnerSees', at + 1) = SumTo(OwnerSees', at) + OwnerSees'[at + 1]
    BY <1>3, <1>6, <1>7, SumFacts
  <2> QED BY <1>1, <1>8, <1>10, <2>1, <2>2
<1>12. TotalsOK'
  BY <1>0, <1>2, <1>6, <1>11 DEF TotalsOK
<1>13. CounterTypeOK'
  <2>1. acc' \in Int /\ at' \in 0 .. MaxThreads
    <3>1. at + 1 \in 0 .. MaxThreads
      BY <1>3, <1>7
    <3> QED BY <1>2, <1>3, <1>6, <1>11, <3>1, SumFacts
  <2> QED BY <1>6, <2>1 DEF CounterTypeOK
<1>14. JoinedSeen'
  <2>1. \A t \in 1 .. MaxThreads : ~ Running(t)' => load'[t] = <<>>
    BY <1>0, <1>2 DEF JoinedSeen, Running
  <2>2. ASSUME ~ misread, NEW t \in 1 .. MaxThreads
        PROVE  /\ t \notin DOMAIN status => Len(history[t - 1]) = 1
               /\ t \in DOMAIN status /\ status[t] = "freed"
                    => new[t - 1] = Len(history[t - 1])
    <3>1. t - 1 \in Counters
      BY <1>0, WordFacts
    <3>2. Len(history[t - 1]) \in Nat /\ new[t - 1] \in seen[Main][t - 1] .. Len(history[t - 1])
      BY <1>0, <1>5, <3>1, WordFacts
    <3> QED BY <1>0, <2>2, <3>2 DEF JoinedSeen
  <2> QED BY <1>2, <1>6, <2>1, <2>2 DEF JoinedSeen
<1> QED BY <1>6, <1>12, <1>13, <1>14 DEF TotalInv

LEMMA EndTotals == ASSUME TotalInv, ReturnTotal PROVE TotalInv'
<1>0. CounterTypeOK /\ WordsBounded /\ TurnsStored /\ TotalsOK /\ Growing /\ JoinedSeen
  BY DEF TotalInv
<1>1. /\ UNCHANGED <<history, seen, load, added, misread, status, acc>>
      /\ at = MaxThreads /\ total' = acc /\ at' = None
  BY DEF ReturnTotal, counterVars, poolVars
<1>2. OwnerSees' = OwnerSees /\ StoresTo' = StoresTo /\ TurnsOf' = TurnsOf
  BY <1>1 DEF OwnerSees, StoresTo, TurnsOf
<1>3. CounterTypeOK' /\ WordsBounded'
  <2>1. CounterTypeOK'
    BY <1>0, <1>1 DEF CounterTypeOK
  <2> QED BY <1>0, <1>1, <2>1 DEF WordsBounded
<1>4. acc = SumTo(OwnerSees, MaxThreads)
  <2>1. at # None
    BY <1>1, ThreadsAssumption DEF None
  <2> QED BY <1>0, <1>1, <2>1 DEF TotalsOK
<1>5. TurnsStored' /\ TotalsOK'
  <2>1. total' <= SumTo(TurnsOf, MaxThreads)
    BY <1>0, <1>1, <1>4, SeenWithinTurns
  <2> QED BY <1>0, <1>1, <1>2, <2>1 DEF TurnsStored, TotalsOK
<1>6. Growing'
  <2>1. total' <= SumTo(OwnerSees, MaxThreads)
    BY <1>0, <1>1, <1>4 DEF CounterTypeOK
  <2> QED BY <1>0, <1>1, <1>2, <2>1, OnlyAddsSame DEF Growing
<1>7. JoinedSeen'
  BY <1>0, <1>1 DEF JoinedSeen, Running
<1> QED BY <1>3, <1>5, <1>6, <1>7 DEF TotalInv

LEMMA TotalStepKeeps == TotalInv /\ CounterInv /\ PoolInv /\ [Next]_vars => TotalInv'
<1> SUFFICES ASSUME TotalInv, CounterInv, PoolInv, [Next]_vars PROVE TotalInv'
  OBVIOUS
<1>1. CASE UNCHANGED vars
  <2>1. UNCHANGED <<history, seen, load, added, misread, status, at, acc, total>>
    BY <1>1 DEF vars, poolVars, counterVars, totalVars
  <2>2. OwnerSees' = OwnerSees /\ StoresTo' = StoresTo /\ TurnsOf' = TurnsOf
    BY <2>1 DEF OwnerSees, StoresTo, TurnsOf
  <2> QED BY <2>1, <2>2, OnlyAddsSame
          DEF TotalInv, CounterTypeOK, WordsBounded, TurnsStored, TotalsOK, Growing,
              JoinedSeen, Running
<1>2. ASSUME NEW t \in 1 .. MaxThreads, ThreadStep(t) PROVE TotalInv'
  BY <1>2, LoadTotals, StoreTotals, ReturnTotals DEF ThreadStep, CounterStep
<1> QED BY <1>1, <1>2, PoolTotals, StartTotals, AddTotals, EndTotals DEF Next

LEMMA TotalInvariant == Spec => [](TotalInv /\ CounterInv)
<1>1. Spec => []PoolInv
  BY CounterUsesPool, PoolInvariant, PTL
<1> QED BY <1>1, TotalInit, CounterInit, TotalStepKeeps, CounterStepKeeps, PTL DEF Spec

\* Turns that all add count for their number.
LEMMA NetWithinTurns ==
    ASSUME NEW s \in Seq(Ops)
    PROVE  Range(s) \subseteq {"add1"} => Net(s) = Len(s)
<1> SUFFICES ASSUME Range(s) \subseteq {"add1"} PROVE Net(s) = Len(s)
  OBVIOUS
<1>1. DOMAIN s = 1 .. Len(s) /\ Len(s) \in Nat
  BY LenProperties
<1>2. \A k \in 1 .. Len(s) : s[k] = "add1"
  BY <1>1 DEF Range
<1>3. Turns(s, "add1") = 1 .. Len(s)
  BY <1>1, <1>2 DEF Turns
<1>4. Turns(s, "sub1") = {}
  BY <1>1, <1>2 DEF Turns
<1>5. Cardinality(1 .. Len(s)) = Len(s) /\ Cardinality({}) = 0
  <2>1. Cardinality({}) = 0
    BY FS_EmptySet
  <2>2. Cardinality(1 .. Len(s)) = IF 1 > Len(s) THEN 0 ELSE Len(s) - 1 + 1
    BY <1>1, FS_Interval
  <2> QED BY <1>1, <2>1, <2>2
<1>6. Net(s) = Len(s) - 0
  BY <1>3, <1>4, <1>5, Zenon DEF Net
<1> QED BY <1>1, <1>6

(* A total is never ahead of what the threads have added, for any number of  *)
(* threads that come and go while the owner sums up, and even if they share  *)
(* words by mistake (stats_counter.c:49-59).                                 *)
THEOREM TotalsNotAhead == Spec => []TotalNotAhead
<1>1. TotalInv => TotalNotAhead
  <2> SUFFICES ASSUME TotalInv PROVE TotalNotAhead
    OBVIOUS
  <2>1. CounterTypeOK /\ WordsBounded /\ TotalsOK
    BY DEF TotalInv
  <2>2. total <= AllTurns
    BY <2>1 DEF TotalsOK, TurnsOf, AllTurns
  <2>3. ASSUME OnlyAdds PROVE AllAdded = AllTurns
    <3>1. ASSUME NEW t \in 1 .. MaxThreads PROVE Net(added[t]) = Len(added[t])
      <4>1. added[t] \in Seq(Ops) /\ Range(added[t]) \subseteq {"add1"}
        BY <2>1, <2>3 DEF CounterTypeOK, OnlyAdds
      <4> QED BY <4>1, NetWithinTurns
    <3> QED BY <3>1, Zenon DEF AllAdded, AllTurns
  <2> QED BY <2>2, <2>3 DEF TotalNotAhead
<1> QED BY <1>1, TotalInvariant, PTL

(* While the threads only add, each in its own word, no total is less than   *)
(* one before it, although all loads are relaxed.                            *)
THEOREM TotalsMonotone == Spec => TotalMonotone
<1>1. TotalInv /\ [Next]_vars => [OnlyAdds /\ ~ misread => total' >= total]_vars
  <2> SUFFICES ASSUME TotalInv, Next, OnlyAdds, ~ misread PROVE total' >= total
    OBVIOUS
  <2>1. CounterTypeOK /\ TotalsOK /\ Growing
    BY DEF TotalInv
  <2>2. total \in Int /\ acc \in Int
    BY <2>1 DEF CounterTypeOK
  <2>3. CASE ReturnTotal
    <3>1. acc = SumTo(OwnerSees, MaxThreads) /\ total' = acc
      BY <2>1, <2>3, ThreadsAssumption DEF ReturnTotal, TotalsOK, None
    <3> QED BY <2>1, <2>2, <3>1 DEF Growing
  <2>4. CASE total' = total
    BY <2>2, <2>4
  <2>5. Next => ReturnTotal \/ total' = total
    BY DEF Next, PoolStep, stats_counter_total, AddCount, ThreadStep, CounterStep,
           ReturnStep, totalVars
  <2> QED BY <2>3, <2>4, <2>5
<1> QED BY <1>1, TotalInvariant, PTL DEF Spec, TotalMonotone

(* When every thread has been joined a total is what they have added, if     *)
(* each has read its own id: joining shows the owner their last stores.      *)
THEOREM FinalTotalsKnown == Spec => []FinalTotalKnown
<1>1. TotalInv /\ CounterInv => FinalTotalKnown
  <2> SUFFICES ASSUME TotalInv, CounterInv, at = MaxThreads, Joined, ~ misread
               PROVE  acc = AllAdded
    BY DEF FinalTotalKnown
  <2> DEFINE nets == [t \in 1 .. MaxThreads |-> Net(added[t])]
  <2>1. CounterTypeOK /\ WordsBounded /\ TotalsOK /\ JoinedSeen /\ WordsOwned
    BY DEF TotalInv, CounterInv
  <2>2. acc = SumTo(OwnerSees, MaxThreads)
    BY <2>1, ThreadsAssumption DEF TotalsOK, None
  <2>3. ASSUME NEW t \in 1 .. MaxThreads
        PROVE  OwnerSees[t] = Net(added[t]) /\ Net(added[t]) \in Int
    <3>1. t - 1 \in Counters
      BY <2>1, WordFacts
    <3>2. seen[Main][t - 1] \in 1 .. Len(history[t - 1]) /\ OwnerSees[t] \in Int
      BY <2>1, <3>1, WordFacts
    <3>3. t \notin DOMAIN status => Len(history[t - 1]) = 1
      BY <2>1 DEF JoinedSeen
    <3>4. t \in DOMAIN status => seen[Main][t - 1] = Len(history[t - 1])
      BY <2>1 DEF JoinedSeen, Joined
    <3>5. seen[Main][t - 1] = Len(history[t - 1])
      <4>1. CASE t \in DOMAIN status
        BY <3>4, <4>1
      <4>2. CASE t \notin DOMAIN status
        <5>1. Len(history[t - 1]) = 1
          BY <3>3, <4>2
        <5> QED BY <3>2, <5>1
      <4> QED BY <4>1, <4>2
    <3>6. OwnerSees[t] = Newest(t)
      BY <3>5 DEF OwnerSees, Newest
    <3>7. Newest(t) = Net(added[t])
      BY <2>1 DEF WordsOwned
    <3> QED BY <3>2, <3>6, <3>7
  <2>4. nets \in [1 .. MaxThreads -> Int] /\ \A t \in 1 .. MaxThreads : OwnerSees[t] = nets[t]
    BY <2>3
  <2>5. AllAdded = SumTo(nets, MaxThreads)
    BY DEF AllAdded
  <2> HIDE DEF nets
  <2>6. MaxThreads \in 0 .. MaxThreads /\ MaxThreads \in Nat
    BY ThreadsAssumption
  <2>7. OwnerSees \in [1 .. MaxThreads -> Int]
    BY <2>1, WordFacts
  <2>8. SumTo(OwnerSees, MaxThreads) = SumTo(nets, MaxThreads)
    BY <2>4, <2>6, <2>7, SumSame
  <2> QED BY <2>2, <2>5, <2>8
<1> QED BY <1>1, TotalInvariant, PTL
=============================================================================
