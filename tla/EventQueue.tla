------------------------------ MODULE EventQueue ------------------------------
(***************************************************************************)
(* kernel/core/events/event_queue.c: the ring between the interrupt        *)
(* handlers and the kernel main loop.                                      *)
(*                                                                         *)
(* event_queue_push() runs in interrupt handlers, which nest, with its     *)
(* critical section under cli: one step, that may fall between any two     *)
(* steps of event_queue_pop().  event_queue_pop() runs in the main loop    *)
(* with interrupts open: it reads the indices, copies the record and moves *)
(* the tail in three steps.                                                *)
(***************************************************************************)
EXTENDS Naturals, Sequences

CONSTANTS Capacity,     \* NEXUS_EVENT_QUEUE_CAPACITY
          Events,       \* event records
          NoEvent,      \* content of a ring entry never written
          MaxPush       \* bound: calls of event_queue_push()

ASSUME EventQueueAssumption ==
  /\ Capacity \in Nat \ {0, 1}
  /\ MaxPush \in Nat
  /\ NoEvent \notin Events

VARIABLES ring,      \* g_queue
          head,      \* g_head
          tail,      \* g_tail
          pushed,    \* g_pushed
          dropped,   \* g_dropped
          popped,    \* g_popped
          pc,        \* where the main loop is in event_queue_pop()
          event,     \* its *event
          got        \* what the last finished call returned

vars == <<ring, head, tail, pushed, dropped, popped, pc, event, got>>

Indices == 0..(Capacity - 1)

TypeOK ==
  /\ ring \in [Indices -> Events \cup {NoEvent}]
  /\ head \in Indices
  /\ tail \in Indices
  /\ pushed \in Nat
  /\ dropped \in Nat
  /\ popped \in Nat
  /\ pc \in {"idle", "copy", "advance"}
  /\ event \in Events \cup {NoEvent}
  /\ got \in {<<>>} \cup {<<e>> : e \in Events}

\* event_queue_init(); the ring is in .bss and no record was written yet.
Init ==
  /\ ring = [i \in Indices |-> NoEvent]
  /\ head = 0 /\ tail = 0
  /\ pushed = 0 /\ dropped = 0 /\ popped = 0
  /\ pc = "idle" /\ event = NoEvent /\ got = <<>>

NextIndex(i) == (i + 1) % Capacity

\* Mutant: the head moves even when the ring is full.
PushOverwriting(e) ==
  /\ pushed + dropped < MaxPush
  /\ ring' = [ring EXCEPT ![head] = e]
  /\ head' = NextIndex(head)
  /\ pushed' = pushed + 1
  /\ UNCHANGED <<tail, dropped, popped, pc, event, got>>

\* Mutant: a dropped event is not counted as one.
PushMiscounting(e) ==
  /\ pushed + dropped < MaxPush
  /\ pushed' = pushed + 1
  /\ IF NextIndex(head) = tail
       THEN UNCHANGED <<ring, head, dropped>>
       ELSE /\ ring' = [ring EXCEPT ![head] = e]
            /\ head' = NextIndex(head)
            /\ UNCHANGED dropped
  /\ UNCHANGED <<tail, popped, pc, event, got>>

event_queue_push(e) ==
  /\ pushed + dropped < MaxPush
  /\ IF NextIndex(head) = tail
       THEN /\ dropped' = dropped + 1
            /\ UNCHANGED <<ring, head, pushed>>
       ELSE /\ ring' = [ring EXCEPT ![head] = e]
            /\ head' = NextIndex(head)
            /\ pushed' = pushed + 1
            /\ UNCHANGED dropped
  /\ UNCHANGED <<tail, popped, pc, event, got>>

\* event_queue_pop() up to the test; an empty ring ends the call.
PopTest ==
  /\ pc = "idle"
  /\ tail # head
  /\ pc' = "copy"
  /\ UNCHANGED <<ring, head, tail, pushed, dropped, popped, event, got>>

PopCopy ==
  /\ pc = "copy"
  /\ event' = ring[tail]
  /\ pc' = "advance"
  /\ UNCHANGED <<ring, head, tail, pushed, dropped, popped, got>>

PopAdvance ==
  /\ pc = "advance"
  /\ tail' = NextIndex(tail)
  /\ popped' = popped + 1
  /\ got' = <<event>>
  /\ pc' = "idle"
  /\ UNCHANGED <<ring, head, pushed, dropped, event>>

event_queue_pop == PopTest \/ PopCopy \/ PopAdvance

Next == (\E e \in Events : event_queue_push(e)) \/ event_queue_pop

Spec == Init /\ [][Next]_vars

-----------------------------------------------------------------------------
\* event_queue_count()
event_queue_count == IF head >= tail THEN head - tail ELSE Capacity - tail + head

\* The records from the tail up to the head, oldest first.
Contents == [i \in 1..event_queue_count |-> ring[(tail + i - 1) % Capacity]]

Promise == INSTANCE CountedQueue WITH queue <- Contents, Room <- Capacity - 1

\* The ring is a FIFO of Capacity - 1 events: pushes that nest anywhere inside
\* a pop neither overwrite the record being copied nor reorder, repeat or lose
\* an accepted one, and the counters the diagnostics show account for every
\* event that was pushed.
Implements == Promise!CountedSpec
=============================================================================
