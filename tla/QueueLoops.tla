----------------------------- MODULE QueueLoops -----------------------------
(***************************************************************************)
(* The queue under any calls (Next of Queue), and, from any moment on, the *)
(* loops of the two threads of test_queue_multi_thread.c only: wait while  *)
(* full, push; wait while empty, pop.                                      *)
(***************************************************************************)
EXTENDS Queue

VARIABLE looping    \* both threads are in their loops from now on

loopVars == <<vars, looping>>

ProducerPushes == presult = <<"full", FALSE>> /\ \E v \in Values : PushBegin(v)

ConsumerPops == cresult = <<"empty", FALSE>> /\ PopBegin

ProducerAsks(c) == presult # <<"full", FALSE>> /\ queue_is_full(c)

ConsumerAsks(c) == cresult # <<"empty", FALSE>> /\ queue_is_empty(c)

EnterLoops == ~looping /\ looping' = TRUE /\ UNCHANGED vars

LoopNext ==
    \/ ProducerPushes
    \/ ConsumerPops
    \/ ProducerStep
    \/ ConsumerStep
    \/ \E c \in Cursor : ProducerAsks(c) \/ ConsumerAsks(c)

Loop(A) == looping /\ A /\ UNCHANGED looping

\* Each thread keeps running (the scheduler), and a store becomes visible to
\* a thread that keeps loading (C11 7.17.3): an answer from the newest cursor
\* comes some time.
LoopFairness ==
    /\ WF_loopVars(Loop(ProducerPushes))
    /\ WF_loopVars(Loop(ConsumerPops))
    /\ WF_loopVars(Loop(ProducerStep))
    /\ WF_loopVars(Loop(ConsumerStep))
    /\ SF_loopVars(Loop(ProducerAsks(front_cursor)))
    /\ SF_loopVars(Loop(ConsumerAsks(back_cursor)))

LoopInit == Init /\ looping = FALSE

AnyCall == ~looping /\ Next /\ UNCHANGED looping

LoopSpec ==
    /\ LoopInit
    /\ [][AnyCall \/ EnterLoops \/ Loop(LoopNext)]_loopVars
    /\ LoopFairness

\* Neither loop spins for ever, whatever was called before the threads
\* entered them: each wait while full and each wait while empty comes to an
\* end (test_queue_multi_thread.c:13, 27).
KeepsMoving ==
    /\ []<>(~looping \/ ppc = "publish")
    /\ []<>(~looping \/ cpc = "publish")
=============================================================================
