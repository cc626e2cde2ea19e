----------------------------- MODULE BoundedFifo -----------------------------
(***************************************************************************)
(* What a single producer and a single consumer may rely on when they      *)
(* share a queue_t of queue.c: a bounded first-in first-out queue whose    *)
(* status queries may be out of date, but only on the safe side.           *)
(*                                                                         *)
(* Every operation is one atomic step.  presult and cresult are the answer *)
(* of the last call of the producer and of the consumer.                   *)
(***************************************************************************)
EXTENDS Naturals, Sequences

CONSTANTS
    Capacity,   \* how many values fit
    Values,     \* the values that are pushed
    NULL        \* the answer of a pop that found nothing

VARIABLES q, presult, cresult

vars == <<q, presult, cresult>>

ProducerAnswers ==
    ({"push", "full"} \X BOOLEAN) \cup ({"length"} \X (0 .. Capacity))

ConsumerAnswers ==
    ({"pop"} \X (Values \cup {NULL})) \cup ({"empty"} \X BOOLEAN)
        \cup ({"length"} \X (0 .. Capacity))

Init ==
    /\ q = <<>>
    /\ presult = <<"full", TRUE>>
    /\ cresult = <<"empty", TRUE>>

Push(v) ==
    /\ Len(q) < Capacity
    /\ q' = Append(q, v)
    /\ presult' = <<"push", TRUE>>
    /\ UNCHANGED cresult

\* A push may be refused although the consumer has just made room, but not
\* when the producer has already been told that there is room.
Refuse ==
    /\ presult # <<"full", FALSE>>
    /\ presult' = <<"push", FALSE>>
    /\ UNCHANGED <<q, cresult>>

\* "Not full" is reliable: only the producer could make it untrue.
AskFull(answer) ==
    /\ ~answer => Len(q) < Capacity
    /\ presult' = <<"full", answer>>
    /\ UNCHANGED <<q, cresult>>

\* The producer never sees a length below the true one.
ProducerLength(n) ==
    /\ n \in Len(q) .. Capacity
    /\ presult' = <<"length", n>>
    /\ UNCHANGED <<q, cresult>>

Pop ==
    /\ q # <<>>
    /\ q' = Tail(q)
    /\ cresult' = <<"pop", Head(q)>>
    /\ UNCHANGED presult

FindNothing ==
    /\ cresult # <<"empty", FALSE>>
    /\ cresult' = <<"pop", NULL>>
    /\ UNCHANGED <<q, presult>>

AskEmpty(answer) ==
    /\ ~answer => q # <<>>
    /\ cresult' = <<"empty", answer>>
    /\ UNCHANGED <<q, presult>>

\* The consumer never sees a length above the true one.
ConsumerLength(n) ==
    /\ n \in 0 .. Len(q)
    /\ cresult' = <<"length", n>>
    /\ UNCHANGED <<q, presult>>

\* The owner of the queue, once both threads are done, empties it or hands it
\* to a new producer and a new consumer, who have been told nothing yet.
Restart ==
    /\ q' \in {q, <<>>}
    /\ presult' = <<"full", TRUE>>
    /\ cresult' = <<"empty", TRUE>>

Next ==
    \/ \E v \in Values : Push(v)
    \/ Refuse
    \/ \E answer \in BOOLEAN : AskFull(answer) \/ AskEmpty(answer)
    \/ \E n \in 0 .. Capacity : ProducerLength(n) \/ ConsumerLength(n)
    \/ Pop
    \/ FindNothing
    \/ Restart

Spec == Init /\ [][Next]_vars
=============================================================================
