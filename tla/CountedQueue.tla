----------------------------- MODULE CountedQueue -----------------------------
(***************************************************************************)
(* A lossy queue that also counts what it accepts and hands out, as the    *)
(* statistics of kernel/core/events/event_queue.h do.                      *)
(***************************************************************************)
EXTENDS LossyQueue

VARIABLES pushed,    \* how many entries were accepted
          popped     \* how many were handed out

CountedInit == Init /\ pushed = 0 /\ popped = 0

CountedPut(e) == Put(e) /\ pushed' = pushed + 1 /\ UNCHANGED popped

CountedDrop == Drop /\ UNCHANGED <<pushed, popped>>

CountedGet == Get /\ popped' = popped + 1 /\ UNCHANGED pushed

CountedNext == (\E e \in Events : CountedPut(e)) \/ CountedDrop \/ CountedGet

CountedSpec == CountedInit /\ [][CountedNext]_<<queue, got, dropped, pushed, popped>>
=============================================================================
