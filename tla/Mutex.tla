--------------------------------- MODULE Mutex ---------------------------------
(***************************************************************************)
(* The blocking mutex of kernel/core/sync/sync.c over the scheduler of     *)
(* Scheduler.tla: the waiters of the mutex are the wait queue Waiters, and *)
(* every step is a step of the scheduler or leaves it alone.               *)
(*                                                                         *)
(* Kernel threads, the boot thread included, lock and unlock the mutex in  *)
(* pairs.  mpc says where each thread (by TCB slot) is: "out", "waiting"   *)
(* inside mutex_lock() at thread_block_on_wait_queue(), or "in" between    *)
(* the two calls.                                                          *)
(*                                                                         *)
(* The critical sections run with interrupts closed, and between them and  *)
(* the block of mutex_lock() only the timer interrupt can run: each call   *)
(* is one step up to the point where the thread leaves the CPU.            *)
(***************************************************************************)
EXTENDS Scheduler

CONSTANT Waiters       \* mutex->waiters

ASSUME MutexAssumption == Waiters \in Queues

VARIABLES locked,      \* mutex->locked
          owner,       \* mutex->owner, a TID
          mpc          \* see above

mutexVars == <<locked, owner, mpc>>

mvars == <<vars, mutexVars>>

MutexTypeOK ==
  /\ TypeOK
  /\ locked \in BOOLEAN
  /\ owner \in 0..MaxTid
  /\ ~locked => owner = 0
  /\ mpc \in [Slots -> {"out", "waiting", "in"}]

mutex_init == locked = FALSE /\ owner = 0 /\ mpc = [s \in Slots |-> "out"]

MInit == Init /\ mutex_init

At(where) == KernelThread /\ mpc[current] = where

GoTo(where) == mpc' = [mpc EXCEPT ![current] = where]

\* Mutant: a thread that finds the mutex locked is let through.
TakeAnyway ==
  /\ locked' = TRUE
  /\ owner' = tid[current]
  /\ GoTo("in")
  /\ UNCHANGED vars

\* mutex_try_lock() that succeeds.  One that fails changes nothing.
mutex_try_lock ==
  /\ ~locked
  /\ locked' = TRUE
  /\ owner' = tid[current]
  /\ GoTo("in")
  /\ UNCHANGED vars

\* One round of the loop of mutex_lock().  The boot thread does not wait: it
\* returns with the mutex in other hands.
LockRound ==
  \/ mutex_try_lock
  \/ /\ locked
     /\ current = Boot
     /\ GoTo("in")
     /\ UNCHANGED <<locked, owner, vars>>
  \/ /\ locked
     /\ thread_block_on_wait_queue(Waiters)
     /\ GoTo("waiting")
     /\ UNCHANGED <<locked, owner>>

\* thread_block_on_wait_queue() has returned inside mutex_lock().
MutexResume ==
  /\ At("waiting")
  /\ IF locked /\ owner = tid[current]
       THEN GoTo("in") /\ UNCHANGED <<locked, owner, vars>>
       ELSE LockRound

mutex_lock == (At("out") /\ LockRound) \/ MutexResume

\* Mutant: the mutex is freed and the first waiter only woken.
HandOffByWaking ==
  /\ locked' = FALSE
  /\ owner' = 0
  /\ WakeFirstWaiter(Waiters)

\* Mutant: the new owner is not woken.
HandOffSilently ==
  /\ owner' = Head(waitq[Waiters])
  /\ waitq' = [waitq EXCEPT ![Waiters] = Tail(@)]
  /\ UNCHANGED locked
  /\ UNCHANGED <<tstate, tid, tpid, wake_in, current, ready, sleep, quantum, resched,
                 next_tid, thread_count, cr3, pc, procVars>>

\* Mutant: ownership goes to the last waiter.
HandOffToLast ==
  /\ owner' = waitq[Waiters][Len(waitq[Waiters])]
  /\ WakeFirstWaiter(Waiters)
  /\ UNCHANGED locked

\* The first waiter becomes the owner and is woken.
HandOff ==
  /\ owner' = Head(waitq[Waiters])
  /\ WakeFirstWaiter(Waiters)
  /\ UNCHANGED locked

\* mutex_unlock(); a caller that is not the owner changes nothing.
mutex_unlock ==
  /\ At("in")
  /\ GoTo("out")
  /\ IF locked /\ owner = tid[current]
       THEN \/ waitq[Waiters] # <<>> /\ HandOff
            \/ /\ waitq[Waiters] = <<>>
               /\ locked' = FALSE
               /\ owner' = 0
               /\ UNCHANGED vars
       ELSE UNCHANGED <<locked, owner, vars>>

\* A thread inside the mutex or outside may create, yield, sleep or, outside,
\* exit; interrupts and the scheduler run wherever they do in Scheduler.tla.
Elsewhere ==
  /\ \/ TickIrq
     \/ scheduler_process
     \/ /\ mpc[current] # "waiting"
        /\ \/ thread_create
           \/ thread_yield
           \/ MainLoopTick
           \/ \E ms \in SleepMs : thread_sleep_ms(ms)
     \/ mpc[current] = "out" /\ thread_exit
  /\ UNCHANGED mutexVars

MNext == mutex_lock \/ mutex_unlock \/ Elsewhere

MSpec == MInit /\ [][MNext]_mvars

-----------------------------------------------------------------------------
(* Safety *)

Inside == {s \in Slots \ {Boot} : mpc[s] = "in"}

\* Of the threads that block, one at most is past mutex_lock(), and it owns the
\* mutex until it unlocks, whoever yields, sleeps or wakes meanwhile.
MutualExclusion ==
  /\ \A s, r \in Inside : s = r
  /\ \A s \in Inside : locked /\ owner = tid[s]

\* A free mutex has no waiters, and a locked one has an owner that can go on:
\* no thread is left blocked on a mutex nobody is going to unlock.
NoLostWakeup ==
  /\ ~locked => waitq[Waiters] = <<>>
  /\ locked => \E s \in Slots :
       /\ IsThread(s, owner)
       /\ \/ mpc[s] = "in"
          \/ mpc[s] = "waiting" /\ tstate[s] \in {"ready", "running"}

Line == INSTANCE FifoLock
          WITH line <- IF locked THEN <<owner>> \o waitq[Waiters] ELSE <<>>,
               Ids <- 0..MaxTid

\* sync/README.md: FIFO waiters and direct hand-off.  Threads get the mutex in
\* the order in which they asked for it; a thread that runs between the unlock
\* and the wake-up cannot overtake.
FifoHandOff == Line!Spec

-----------------------------------------------------------------------------
(* Liveness *)

\* What thread s does when it has the CPU: it goes on in mutex_lock(), leaves
\* the mutex if it is inside, or gives up the CPU outside.
MovesOn(s) == current = s /\ MutexResume

Leaves(s) == current = s /\ mutex_unlock

YieldsOutside(s) ==
  /\ current = s
  /\ mpc[s] = "out"
  /\ \/ s = Boot /\ MainLoopTick
     \/ s # Boot /\ thread_yield
     \/ \E ms \in SleepMs : thread_sleep_ms(ms)
     \/ thread_exit
  /\ UNCHANGED mutexVars

\* The timer and the scheduler run, and a thread that has the CPU again and
\* again leaves the mutex and gives up the CPU in the end.
MFairness ==
  /\ WF_mvars(TickIrq /\ UNCHANGED mutexVars)
  /\ WF_mvars(scheduler_process /\ UNCHANGED mutexVars)
  /\ \A s \in Slots : /\ WF_mvars(MovesOn(s))
                      /\ SF_mvars(Leaves(s))
                      /\ SF_mvars(YieldsOutside(s))

MFairSpec == MSpec /\ MFairness

\* Every thread that waits in mutex_lock() gets the mutex, given that whoever
\* holds it unlocks it and that threads give up the CPU.
WaiterGetsIn == \A s \in Slots : mpc[s] = "waiting" ~> mpc[s] = "in"
=============================================================================
