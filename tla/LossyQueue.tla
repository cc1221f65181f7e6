------------------------------ MODULE LossyQueue ------------------------------
(***************************************************************************)
(* What a bounded queue of the kernel promises, the event queue            *)
(* (kernel/core/events/event_queue.h) and the shell's command queue        *)
(* (shell/core/shell.c) alike: what goes in comes out in the same order,   *)
(* nothing twice; what arrives while Room entries wait is dropped.         *)
(***************************************************************************)
EXTENDS Naturals, Sequences

CONSTANTS Events, Room

VARIABLES queue,     \* entries waiting
          got,       \* the entry handed out last, <<>> before the first
          dropped    \* how many were refused

Init == queue = <<>> /\ got = <<>> /\ dropped = 0

Put(e) == Len(queue) < Room /\ queue' = Append(queue, e) /\ UNCHANGED <<got, dropped>>

Drop == Len(queue) = Room /\ dropped' = dropped + 1 /\ UNCHANGED <<queue, got>>

Get ==
  /\ queue # <<>>
  /\ got' = <<Head(queue)>>
  /\ queue' = Tail(queue)
  /\ UNCHANGED dropped

Next == (\E e \in Events : Put(e)) \/ Drop \/ Get

Spec == Init /\ [][Next]_<<queue, got, dropped>>
=============================================================================
