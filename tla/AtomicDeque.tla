------------------------------ MODULE AtomicDeque ------------------------------
(***************************************************************************)
(* What threads may rely on when they share a deque_t: each call happens   *)
(* at one moment between its start and its return.                         *)
(***************************************************************************)
EXTENDS Integers, Sequences

CONSTANTS
    Threads, Values, NULL,
    Calls   \* records with the name of a function of deque.h and its argument

\* What a call leaves of the sequence s.
After(s, call) ==
    CASE call.name = "push_front" -> <<call.value>> \o s
      [] call.name = "push_back" -> Append(s, call.value)
      [] call.name = "pop_front" /\ s # <<>> -> Tail(s)
      [] call.name = "pop_back" /\ s # <<>> -> SubSeq(s, 1, Len(s) - 1)
      [] OTHER -> s

\* What it returns.
Returned(s, call) ==
    CASE call.name = "pop_front" -> IF s = <<>> THEN NULL ELSE s[1]
      [] call.name = "pop_back" -> IF s = <<>> THEN NULL ELSE s[Len(s)]
      [] call.name = "length" -> Len(s)
      [] call.name = "is_empty" -> IF s = <<>> THEN 1 ELSE 0
      [] call.name = "get" ->
           IF call.index < Len(s) THEN s[call.index + 1] ELSE NULL
      [] OTHER -> NULL

VARIABLES
    items,    \* the sequence
    waiting,  \* the call that each thread is in and that has not happened
    answer    \* what the last call of each thread returned

vars == <<items, waiting, answer>>

Init ==
    /\ items = <<>>
    /\ waiting = [t \in Threads |-> NULL]
    /\ answer = [t \in Threads |-> NULL]

Start(t, call) ==
    /\ waiting[t] = NULL
    /\ waiting' = [waiting EXCEPT ![t] = call]
    /\ UNCHANGED <<items, answer>>

Happen(t) ==
    /\ waiting[t] # NULL
    /\ items' = After(items, waiting[t])
    /\ answer' = [answer EXCEPT ![t] = Returned(items, waiting[t])]
    /\ waiting' = [waiting EXCEPT ![t] = NULL]

Next ==
    \E t \in Threads :
      (\E call \in Calls : Start(t, call)) \/ Happen(t)

Spec == Init /\ [][Next]_vars
=============================================================================
