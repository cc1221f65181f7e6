----------------------------- MODULE KernelEvents -----------------------------
(***************************************************************************)
(* kernel/core/events/kernel_events.c, the interrupt handlers that feed it *)
(* (idt.c, keyboard.c, mouse.c) and the main loop that drives it           *)
(* (kernel.c), over the scheduler of Scheduler.tla.                        *)
(*                                                                         *)
(* The wait queues of the scheduler are the waiters of each event type.    *)
(* kpc says where the boot thread is in the main loop:                     *)
(*   "top"      at the checks that open the loop                           *)
(*   "drain"    at event_queue_pop() in kernel_events_process()            *)
(*   "handled"  past the switch, in scheduler_process() for a timer event  *)
(*   "notify"   in the section that counts the event and wakes its         *)
(*              waiters, with interrupts closed                            *)
(*   "rest"     in the shell, GUI and start-up code                        *)
(*   "hlt"      in the hlt at the end of the loop                          *)
(*                                                                         *)
(* The ring is the FIFO that EventQueue.tla shows it to be.  A sequence    *)
(* counter is only compared for equality with an earlier reading of it, so *)
(* fresh[s] stands for g_sequence[type] != before of thread s.             *)
(***************************************************************************)
EXTENDS Scheduler

CONSTANTS Timer,        \* NEXUS_EVENT_TIMER_TICK
          EventRoom,    \* NEXUS_EVENT_QUEUE_CAPACITY - 1
          Budget        \* events one pass drains at most

None == "none"          \* NEXUS_EVENT_NONE

ASSUME EventAssumption ==
  /\ Timer \in Queues /\ None \notin Queues
  /\ EventRoom \in Nat \ {0}
  /\ Budget \in Nat \ {0}

VARIABLES evq,          \* types of the events in the ring, oldest first
          kpc,          \* see above
          event,        \* type of the event in hand
          budget,       \* events drained in this pass
          waits,        \* type each thread waits for in kernel_events_wait()
          fresh         \* see above

eventVars == <<evq, kpc, event, budget, waits, fresh>>

kvars == <<vars, eventVars>>

EventTypeOK ==
  /\ TypeOK
  /\ evq \in Seq(Queues) /\ Len(evq) <= EventRoom
  /\ kpc \in {"top", "drain", "handled", "notify", "rest", "hlt"}
  /\ event \in Queues \cup {None}
  /\ budget \in 0..Budget
  /\ waits \in [Slots -> Queues \cup {None}]
  /\ fresh \in [Slots -> BOOLEAN]

\* kernel_events_init(); the boot thread is still starting the system up.
kernel_events_init ==
  /\ evq = <<>>
  /\ kpc = "rest"
  /\ event = None
  /\ budget = 0
  /\ waits = [s \in Slots |-> None]
  /\ fresh = [s \in Slots |-> FALSE]

KInit == Init /\ kernel_events_init

-----------------------------------------------------------------------------
(* Interrupts *)

\* event_queue_push(): a full ring drops the event.
Pushed(t) == IF Len(evq) < EventRoom THEN Append(evq, t) ELSE evq

\* The handlers only queue what they read.  The main loop leaves its hlt.
Capture(t) ==
  /\ kpc # "notify"
  /\ evq' = Pushed(t)
  /\ kpc' = IF kpc = "hlt" THEN "top" ELSE kpc
  /\ UNCHANGED <<event, budget, waits, fresh>>

\* IRQ0: scheduler_tick_irq() and the event.
TimerIrq == TickIrq /\ Capture(Timer)

\* IRQ1 and IRQ12.
DeviceIrq(t) ==
  /\ t # Timer
  /\ pc \in {"run", "sched"}
  /\ Capture(t)
  /\ UNCHANGED vars

-----------------------------------------------------------------------------
(* kernel_events_process() on the boot thread *)

BootAt(where) == KernelThread /\ current = Boot /\ kpc = where

\* The heap check and the watchdog test find nothing, the loop calls
\* kernel_events_process().
LoopTop ==
  /\ BootAt("top")
  /\ kpc' = "drain"
  /\ budget' = 0
  /\ UNCHANGED <<evq, event, waits, fresh, vars>>

\* Mutant: the drain goes on as long as there are events.
MayDrainForever == evq # <<>>

MayDrain == budget < Budget /\ evq # <<>>

\* One event is taken and handled.  A timer event calls scheduler_process().
\* The keyboard and mouse handlers do not touch this state.
DrainEvent ==
  /\ BootAt("drain")
  /\ MayDrain
  /\ event' = Head(evq)
  /\ evq' = Tail(evq)
  /\ kpc' = "handled"
  /\ IF Head(evq) = Timer THEN MainLoopTick ELSE UNCHANGED vars
  /\ UNCHANGED <<budget, waits, fresh>>

\* Mutant: the sequence is not advanced.
AdvanceNothing == fresh

\* g_sequence[event]++ as every reader of that counter sees it.
AdvanceSequence == [s \in Slots |-> fresh[s] \/ waits[s] = event]

\* Mutant: the waiters are left for the next pass.
CountWithoutWaking ==
  /\ BootAt("handled")
  /\ fresh' = AdvanceSequence
  /\ kpc' = "drain"
  /\ budget' = IF budget < Budget THEN budget + 1 ELSE budget
  /\ UNCHANGED <<evq, event, waits, vars>>

CountEvent ==
  /\ BootAt("handled")
  /\ fresh' = AdvanceSequence
  /\ kpc' = "notify"
  /\ UNCHANGED <<evq, event, budget, waits, vars>>

\* Mutant: a waiter is woken and left in the queue.
WakeWithoutPopping ==
  /\ BootAt("notify")
  /\ waitq[event] # <<>>
  /\ tstate' = [s \in Slots |-> IF IsThread(s, Head(waitq[event])) THEN "ready" ELSE tstate[s]]
  /\ UNCHANGED <<tid, tpid, wake_in, current, ready, sleep, waitq, quantum, resched,
                 next_tid, thread_count, cr3, pc, procVars, eventVars>>

\* wake_event_waiters_locked() wakes the waiters of the event one by one.
WakeWaiter ==
  /\ BootAt("notify")
  /\ WakeFirstWaiter(event)
  /\ UNCHANGED eventVars

NotifyDone ==
  /\ BootAt("notify")
  /\ waitq[event] = <<>>
  /\ kpc' = "drain"
  /\ budget' = IF budget < Budget THEN budget + 1 ELSE budget
  /\ UNCHANGED <<evq, event, waits, fresh, vars>>

DrainDone ==
  /\ BootAt("drain")
  /\ ~MayDrain
  /\ kpc' = "rest"
  /\ UNCHANGED <<evq, event, budget, waits, fresh, vars>>

\* The shell and the GUI may create threads and processes.
MainLoopRest ==
  /\ BootAt("rest")
  /\ thread_create \/ Launch
  /\ UNCHANGED eventVars

MainLoopHalts ==
  /\ BootAt("rest")
  /\ kpc' = "hlt"
  /\ UNCHANGED <<evq, event, budget, waits, fresh, vars>>

MainLoop == DrainEvent \/ CountEvent \/ WakeWaiter \/ NotifyDone \/ DrainDone
              \/ MainLoopRest \/ MainLoopHalts

-----------------------------------------------------------------------------
(* The other threads *)

\* One round of the loop of kernel_events_wait().  The counter is read and
\* compared with nothing but interrupts in between, which do not advance it.
WaitRound(t) ==
  /\ thread_block_on_wait_queue(t)
  /\ waits' = [waits EXCEPT ![current] = t]
  /\ fresh' = [fresh EXCEPT ![current] = FALSE]

kernel_events_wait(t) ==
  /\ waits[current] = None
  /\ WaitRound(t)
  /\ UNCHANGED <<evq, kpc, event, budget>>

\* thread_block_on_wait_queue() has returned.
WaitResumes ==
  /\ KernelThread
  /\ waits[current] # None
  /\ IF fresh[current]
       THEN waits' = [waits EXCEPT ![current] = None] /\ UNCHANGED <<fresh, vars>>
       ELSE WaitRound(waits[current])
  /\ UNCHANGED <<evq, kpc, event, budget>>

ThreadWork ==
  /\ current # Boot
  /\ waits[current] = None
  /\ thread_yield \/ thread_exit \/ UserExit
  /\ UNCHANGED eventVars

Schedule == scheduler_process /\ UNCHANGED eventVars

KNext ==
  \/ TimerIrq
  \/ \E t \in Queues : DeviceIrq(t)
  \/ LoopTop
  \/ MainLoop
  \/ \E t \in Queues : kernel_events_wait(t)
  \/ WaitResumes
  \/ ThreadWork
  \/ Schedule

KSpec == KInit /\ [][KNext]_kvars

-----------------------------------------------------------------------------
(* Safety *)

\* The event layer is a client of the scheduler: each of its steps is one that
\* Scheduler.tla allows, so what is proved of the scheduler holds here.
UsesScheduler == Spec

\* A blocked thread waits for the type whose queue it is in, and a thread whose
\* event has been counted is not left blocked once the section that counts it
\* is over: no wake-up is lost between the counter and the queue.
NoMissedEvent ==
  \A s \in Slots : tstate[s] = "blocked" =>
    /\ waits[s] # None
    /\ tid[s] \in Range(waitq[waits[s]])
    /\ fresh[s] => kpc = "notify" /\ waits[s] = event

\* A thread that comes back from thread_block_on_wait_queue() finds the counter
\* advanced: kernel_events_wait() never goes round its loop a second time.
WakesWithNews ==
  \A s \in Slots :
    waits[s] # None /\ (tstate[s] = "ready" \/ (s = current /\ pc = "run")) => fresh[s]

\* Wake-ups are neither lost nor empty: wake_event_waiters_locked() reaches every
\* thread that waits for the event, and no thread before its event.
WakeupsExact == NoMissedEvent /\ WakesWithNews
=============================================================================
