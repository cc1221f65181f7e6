---------------------------- MODULE BlockingProofs ----------------------------
(***************************************************************************)
(* What is built on the scheduler's blocking calls, for any number of      *)
(* threads.  A step of either part is a step of the scheduler, so its      *)
(* invariant IInv holds.                                                   *)
(*                                                                         *)
(* First the blocking mutex of kernel/core/sync/sync.c: MInv says how the  *)
(* mutex, its wait queue and the states of the threads hang together.      *)
(* Then the kernel's main loop, its events and their waiters, and the      *)
(* watchdog, for any event types and any budget and size of the ring: KInv *)
(* adds to IInv how waiters, sequence counters and the section that counts *)
(* an event and wakes its waiters hang together.                           *)
(***************************************************************************)
EXTENDS Mutex, Watchdog, SchedulerProofs

\* A leaf that names no prover is given to Zenon.
USE ZenonT(60)

-----------------------------------------------------------------------------
(* kernel/core/sync/sync.c *)

\* Where a thread is in mutex_lock() or mutex_unlock() agrees with its state,
\* and a waiter that may run again has been made the owner.
PlacesMatchStates ==
  \A s \in Slots :
    /\ tstate[s] \in {"free", "zombie"} => mpc[s] = "out"
    /\ tstate[s] = "blocked" => mpc[s] = "waiting"
    /\ mpc[s] = "in" /\ s # Boot => locked /\ owner = tid[s]
    /\ mpc[s] = "waiting" =>
         /\ s # Boot
         /\ tstate[s] \in {"blocked", "ready", "running"}
         /\ tstate[s] # "blocked" => locked /\ owner = tid[s]

\* The inductive invariant of the mutex.
MInv ==
  /\ IInv
  /\ locked \in BOOLEAN
  /\ owner \in Nat
  /\ mpc \in [Slots -> {"out", "waiting", "in"}]
  /\ next_tid <= MaxTid + 1
  /\ PlacesMatchStates
  /\ NoLostWakeup

-----------------------------------------------------------------------------
\* Every step of the threads that use the mutex is a step of the scheduler.
LEMMA MutexUsesScheduler == [MNext]_mvars => [Next]_vars
<1> SUFFICES ASSUME [MNext]_mvars PROVE Next \/ UNCHANGED vars
  OBVIOUS
<1>1. CASE mutex_lock
  BY <1>1, MutexAssumption DEF mutex_lock, MutexResume, LockRound, mutex_try_lock, Next
<1>2. CASE mutex_unlock
  BY <1>2, MutexAssumption DEF mutex_unlock, HandOff, Next
<1>3. CASE Elsewhere
  BY <1>3 DEF Elsewhere, Next
<1>4. CASE UNCHANGED mvars
  BY <1>4 DEF mvars
<1> QED
  BY <1>1, <1>2, <1>3, <1>4 DEF MNext

\* Before the first call the mutex is free and every thread outside.
LEMMA InitMInv == MInit => MInv
<1> SUFFICES ASSUME MInit PROVE MInv
  OBVIOUS
<1>1. IInv
  BY InitIInv DEF MInit
<1>2. /\ locked = FALSE /\ owner = 0 /\ mpc = [s \in Slots |-> "out"] /\ next_tid = 1
      /\ waitq = [q \in Queues |-> <<>>]
      /\ tstate = [s \in Slots |-> IF s = Boot THEN "running" ELSE "free"]
  BY DEF MInit, mutex_init, Init
<1>3. PlacesMatchStates
  BY <1>2 DEF PlacesMatchStates
<1>4. NoLostWakeup
  BY <1>2, MutexAssumption DEF NoLostWakeup
<1>5. locked \in BOOLEAN /\ owner \in Nat /\ mpc \in [Slots -> {"out", "waiting", "in"}]
  BY <1>2
<1>6. next_tid <= MaxTid + 1
  BY <1>2, SchedulerAssumption, SMTT(60)
<1> QED
  BY <1>1, <1>3, <1>4, <1>5, <1>6, SMTT(60) DEF MInv

-----------------------------------------------------------------------------
\* A step that leaves the mutex and its waiters alone, keeps blocked threads
\* blocked and runnable waiters runnable, and ends only threads outside the
\* mutex, keeps MInv.
LEMMA MutexFrame ==
  ASSUME MInv, IInv', UNCHANGED mutexVars, waitq' = waitq, next_tid' <= MaxTid + 1,
         \A s \in Slots :
           /\ tstate'[s] = "blocked" <=> tstate[s] = "blocked"
           /\ tstate'[s] \in {"free", "zombie"} => mpc[s] = "out"
           /\ mpc[s] = "waiting" /\ tstate[s] \in {"ready", "running"}
                => tstate'[s] \in {"ready", "running"}
           /\ tstate[s] # "free" => tid'[s] = tid[s]
  PROVE  MInv'
<1>1. locked' = locked /\ owner' = owner /\ mpc' = mpc
  BY DEF mutexVars
<1>2. \A s \in Slots : mpc[s] # "out" => tstate[s] # "free" /\ tid'[s] = tid[s] /\ tstate'[s] # "free"
  BY DEF MInv, PlacesMatchStates
<1>3. PlacesMatchStates'
  <2> SUFFICES ASSUME NEW s \in Slots
               PROVE  /\ tstate'[s] \in {"free", "zombie"} => mpc'[s] = "out"
                      /\ tstate'[s] = "blocked" => mpc'[s] = "waiting"
                      /\ mpc'[s] = "in" /\ s # Boot => locked' /\ owner' = tid'[s]
                      /\ mpc'[s] = "waiting" =>
                           /\ s # Boot
                           /\ tstate'[s] \in {"blocked", "ready", "running"}
                           /\ tstate'[s] # "blocked" => locked' /\ owner' = tid'[s]
    BY DEF PlacesMatchStates
  <2>1. /\ tstate[s] = "blocked" => mpc[s] = "waiting"
        /\ mpc[s] = "in" /\ s # Boot => locked /\ owner = tid[s]
        /\ mpc[s] = "waiting" =>
             /\ s # Boot
             /\ tstate[s] \in {"blocked", "ready", "running"}
             /\ tstate[s] # "blocked" => locked /\ owner = tid[s]
    BY DEF MInv, PlacesMatchStates
  <2> QED
    BY <2>1, <1>1, <1>2
<1>4. NoLostWakeup'
  <2>1. ~locked' => waitq'[Waiters] = <<>>
    BY <1>1 DEF MInv, NoLostWakeup
  <2>2. ASSUME locked'
        PROVE  \E s \in Slots :
                 /\ IsThread(s, owner)'
                 /\ \/ mpc'[s] = "in"
                    \/ mpc'[s] = "waiting" /\ tstate'[s] \in {"ready", "running"}
    <3>1. PICK s \in Slots : /\ tstate[s] # "free" /\ tid[s] = owner
                             /\ \/ mpc[s] = "in"
                                \/ mpc[s] = "waiting" /\ tstate[s] \in {"ready", "running"}
      BY <2>2, <1>1 DEF MInv, NoLostWakeup, IsThread
    <3>2. tstate'[s] # "free" /\ tid'[s] = owner'
      BY <3>1, <1>1, <1>2
    <3> QED
      BY <3>1, <3>2, <1>1 DEF IsThread
  <2> QED
    BY <2>1, <2>2 DEF NoLostWakeup
<1> QED
  BY <1>1, <1>3, <1>4 DEF MInv

\* The interrupt, the scheduler and what threads do besides the mutex keep MInv.
LEMMA ElsewhereMInv ==
  ASSUME MInv, IInv', Elsewhere
  PROVE  MInv'
<1>0. /\ UNCHANGED mutexVars /\ next_tid <= MaxTid + 1
      /\ tstate \in [Slots -> ThreadStates] /\ tid \in [Slots -> Nat] /\ current \in Slots
      /\ next_tid \in Nat
  BY DEF Elsewhere, MInv, IInv, TypeOK
<1>00. \A s \in Slots : /\ tstate[s] \in {"free", "zombie"} => mpc[s] = "out"
                        /\ tstate[s] = "blocked" => mpc[s] = "waiting"
  BY DEF MInv, PlacesMatchStates
<1>1. CASE TickIrq
  BY <1>0, <1>00, <1>1, MutexFrame DEF TickIrq
<1>2. CASE scheduler_process
  BY <1>0, <1>00, <1>2, SchedulerProcessMoves, MutexFrame, SMTT(60) DEF MInv
<1>3. CASE thread_create
  <2>1. PICK n \in Slots : NewThread(n, 0)
    BY <1>3 DEF thread_create
  <2>2. /\ tstate[n] = "free" /\ next_tid <= MaxTid
        /\ tstate' = [tstate EXCEPT ![n] = "ready"]
        /\ tid' = [tid EXCEPT ![n] = next_tid]
        /\ next_tid' = next_tid + 1 /\ waitq' = waitq
    BY <2>1 DEF NewThread, FirstFree
  <2>3. next_tid' <= MaxTid + 1
    BY <2>2, <1>0, SchedulerAssumption, SMTT(60)
  <2>4. \A s \in Slots : /\ s # n => tstate'[s] = tstate[s] /\ tid'[s] = tid[s]
                         /\ s = n => tstate'[s] = "ready" /\ mpc[s] = "out" /\ tstate[s] = "free"
    BY <2>2, <1>0, <1>00
  <2> QED
    BY <2>2, <2>3, <2>4, <1>0, <1>00, MutexFrame, SMTT(60)
<1>4. CASE mpc[current] # "waiting" /\ (thread_yield \/ \E ms \in SleepMs : thread_sleep_ms(ms))
  <2>1. PICK st \in {"running", "sleeping"} : tstate' = [tstate EXCEPT ![current] = st]
    BY <1>4 DEF thread_yield, thread_sleep_ms, EnterScheduler
  <2>2. tid' = tid /\ next_tid' = next_tid /\ waitq' = waitq
    BY <1>4 DEF thread_yield, thread_sleep_ms, EnterScheduler
  <2>3. \A s \in Slots : /\ s # current => tstate'[s] = tstate[s]
                         /\ s = current => tstate'[s] \in {"running", "sleeping"}
                         /\ s = current => tstate[s] # "blocked" /\ mpc[s] # "waiting"
    BY <2>1, <1>0, <1>00, <1>4
  <2> QED
    BY <2>2, <2>3, <1>0, <1>00, MutexFrame
<1>5. CASE MainLoopTick
  BY <1>0, <1>00, <1>5, MutexFrame DEF MainLoopTick
<1>6. CASE mpc[current] = "out" /\ thread_exit
  <2>1. /\ tstate' = [tstate EXCEPT ![current] = "zombie"]
        /\ tid' = tid /\ next_tid' = next_tid /\ waitq' = waitq
    BY <1>6 DEF thread_exit, EnterScheduler
  <2>2. \A s \in Slots : /\ s # current => tstate'[s] = tstate[s]
                         /\ s = current => /\ tstate'[s] = "zombie" /\ mpc[s] = "out"
                                           /\ tstate[s] # "blocked"
    BY <2>1, <1>0, <1>00, <1>6
  <2> QED
    BY <2>1, <2>2, <1>0, <1>00, MutexFrame
<1> QED
  BY <1>1, <1>2, <1>3, <1>4, <1>5, <1>6, SMTT(60) DEF Elsewhere

\* A running thread that calls mutex_lock() is outside, or has been handed the
\* mutex: the loop of mutex_lock() is never taken a second time.
LEMMA CurrentRuns ==
  ASSUME MInv, KernelThread
  PROVE  /\ current \in Slots /\ tstate[current] = "running"
         /\ mpc[current] = "waiting" => locked /\ owner = tid[current]
<1>1. current \in Slots /\ pc = "run"
  BY DEF KernelThread, Running, MInv, IInv, TypeOK
<1>2. tstate[current] = "running"
  BY <1>1 DEF MInv, IInv, QueuesMatchStates, OneRunning
<1> QED
  BY <1>1, <1>2 DEF MInv, PlacesMatchStates

\* No thread but the current one is in the mutex or has been handed it, when
\* the mutex is free or the current thread's.
LEMMA NobodyElse ==
  ASSUME MInv, KernelThread, ~locked \/ owner = tid[current],
         NEW s \in Slots, s # current
  PROVE  /\ mpc[s] = "in" => s = Boot
         /\ mpc[s] = "waiting" => tstate[s] = "blocked"
<1>1. current \in Slots /\ tstate[current] = "running"
  BY CurrentRuns
<1>2. mpc[s] # "out" => tstate[s] # "free"
  BY DEF MInv, PlacesMatchStates
<1>3. tstate[s] # "free" => tid[s] # tid[current]
  BY <1>1, SameTid DEF MInv
<1> QED
  BY <1>2, <1>3 DEF MInv, PlacesMatchStates

\* mutex_try_lock(), inside mutex_lock() or not, keeps MInv.
LEMMA TryLockMInv ==
  ASSUME MInv, IInv', KernelThread, mutex_try_lock
  PROVE  MInv'
<1>1. /\ ~locked /\ locked' = TRUE /\ owner' = tid[current]
      /\ mpc' = [mpc EXCEPT ![current] = "in"] /\ UNCHANGED vars
  BY DEF mutex_try_lock, GoTo
<1>2. /\ tstate' = tstate /\ tid' = tid /\ waitq' = waitq /\ next_tid' = next_tid
  BY <1>1 DEF vars, threadVars
<1>3. /\ current \in Slots /\ tstate[current] = "running" /\ tid[current] \in Nat
      /\ mpc \in [Slots -> {"out", "waiting", "in"}]
  BY CurrentRuns DEF MInv, IInv, TypeOK
<1>4. \A s \in Slots : mpc'[s] = IF s = current THEN "in" ELSE mpc[s]
  BY <1>1, <1>3
<1>5. PlacesMatchStates'
  <2> SUFFICES ASSUME NEW s \in Slots
               PROVE  /\ tstate[s] \in {"free", "zombie"} => mpc'[s] = "out"
                      /\ tstate[s] = "blocked" => mpc'[s] = "waiting"
                      /\ mpc'[s] = "in" /\ s # Boot => owner' = tid[s]
                      /\ mpc'[s] = "waiting" =>
                           /\ s # Boot
                           /\ tstate[s] \in {"blocked", "ready", "running"}
                           /\ tstate[s] # "blocked" => owner' = tid[s]
    BY <1>1, <1>2 DEF PlacesMatchStates
  <2>1. CASE s = current
    BY <2>1, <1>1, <1>3, <1>4
  <2>2. CASE s # current
    BY <2>2, <1>1, <1>4, NobodyElse DEF MInv, PlacesMatchStates
  <2> QED
    BY <2>1, <2>2
<1>6. NoLostWakeup'
  BY <1>1, <1>2, <1>3, <1>4 DEF NoLostWakeup, IsThread
<1> QED
  BY <1>1, <1>2, <1>3, <1>5, <1>6 DEF MInv

\* A thread that finds the mutex taken joins its wait queue; the boot thread
\* goes on without it.
LEMMA LockMInv ==
  ASSUME MInv, IInv', mutex_lock
  PROVE  MInv'
<1>0. KernelThread /\ mpc[current] \in {"out", "waiting"}
  BY DEF mutex_lock, MutexResume, At
<1>1. /\ current \in Slots /\ tstate[current] = "running"
      /\ mpc[current] = "waiting" => locked /\ owner = tid[current]
      /\ mpc \in [Slots -> {"out", "waiting", "in"}]
      /\ tstate \in [Slots -> ThreadStates]
  BY <1>0, CurrentRuns DEF MInv, IInv, TypeOK
<1>2. CASE mutex_try_lock
  BY <1>0, <1>2, TryLockMInv
<1>3. CASE locked /\ (current = Boot \/ mpc[current] = "waiting") /\ GoTo("in")
           /\ UNCHANGED <<locked, owner, vars>>
  <2>1. /\ tstate' = tstate /\ tid' = tid /\ waitq' = waitq /\ next_tid' = next_tid
        /\ locked' = locked /\ owner' = owner
    BY <1>3 DEF vars, threadVars
  <2>2. \A s \in Slots : mpc'[s] = IF s = current THEN "in" ELSE mpc[s]
    BY <1>1, <1>3 DEF GoTo
  <2>3. PlacesMatchStates'
    <3> SUFFICES ASSUME NEW s \in Slots
                 PROVE  /\ tstate[s] \in {"free", "zombie"} => mpc'[s] = "out"
                        /\ tstate[s] = "blocked" => mpc'[s] = "waiting"
                        /\ mpc'[s] = "in" /\ s # Boot => owner = tid[s]
                        /\ mpc'[s] = "waiting" =>
                             /\ s # Boot
                             /\ tstate[s] \in {"blocked", "ready", "running"}
                             /\ tstate[s] # "blocked" => owner = tid[s]
      BY <1>3, <2>1, SMTT(60) DEF PlacesMatchStates
    <3>1. CASE s = current
      BY <3>1, <1>1, <1>3, <2>2
    <3>2. CASE s # current
      BY <3>2, <2>2 DEF MInv, PlacesMatchStates
    <3> QED
      BY <3>1, <3>2
  <2>4. NoLostWakeup'
    <3>1. PICK s \in Slots : /\ tstate[s] # "free" /\ tid[s] = owner
                             /\ \/ mpc[s] = "in"
                                \/ mpc[s] = "waiting" /\ tstate[s] \in {"ready", "running"}
      BY <1>3 DEF MInv, NoLostWakeup, IsThread
    <3> QED
      BY <3>1, <1>3, <2>1, <2>2, SMTT(60) DEF NoLostWakeup, IsThread
  <2>5. mpc' \in [Slots -> {"out", "waiting", "in"}]
    BY <1>1, <1>3 DEF GoTo
  <2> QED
    BY <2>1, <2>3, <2>4, <2>5 DEF MInv
<1>4. CASE /\ locked /\ mpc[current] = "out" /\ thread_block_on_wait_queue(Waiters)
           /\ GoTo("waiting") /\ UNCHANGED <<locked, owner>>
  <2>1. /\ tstate' = [tstate EXCEPT ![current] = "blocked"] /\ tid' = tid
        /\ next_tid' = next_tid /\ current # Boot /\ locked' = locked /\ owner' = owner
    BY <1>4 DEF thread_block_on_wait_queue, EnterScheduler
  <2>2. \A s \in Slots : /\ mpc'[s] = IF s = current THEN "waiting" ELSE mpc[s]
                         /\ tstate'[s] = IF s = current THEN "blocked" ELSE tstate[s]
    BY <1>1, <1>4, <2>1 DEF GoTo
  <2>3. PlacesMatchStates'
    <3> SUFFICES ASSUME NEW s \in Slots
                 PROVE  /\ tstate'[s] \in {"free", "zombie"} => mpc'[s] = "out"
                        /\ tstate'[s] = "blocked" => mpc'[s] = "waiting"
                        /\ mpc'[s] = "in" /\ s # Boot => owner = tid[s]
                        /\ mpc'[s] = "waiting" =>
                             /\ s # Boot
                             /\ tstate'[s] \in {"blocked", "ready", "running"}
                             /\ tstate'[s] # "blocked" => owner = tid[s]
      BY <1>4, <2>1, SMTT(60) DEF PlacesMatchStates
    <3>1. CASE s = current
      BY <3>1, <2>1, <2>2, SMTT(60)
    <3>2. CASE s # current
      BY <3>2, <2>2 DEF MInv, PlacesMatchStates
    <3> QED
      BY <3>1, <3>2
  <2>4. NoLostWakeup'
    <3>1. PICK s \in Slots : /\ tstate[s] # "free" /\ tid[s] = owner
                             /\ \/ mpc[s] = "in"
                                \/ mpc[s] = "waiting" /\ tstate[s] \in {"ready", "running"}
      BY <1>4 DEF MInv, NoLostWakeup, IsThread
    <3>2. s # current
      BY <3>1, <1>4
    <3> QED
      BY <3>1, <3>2, <1>4, <2>1, <2>2, SMTT(60) DEF NoLostWakeup, IsThread
  <2>5. mpc' \in [Slots -> {"out", "waiting", "in"}]
    BY <1>1, <1>4 DEF GoTo
  <2> QED
    BY <2>1, <2>3, <2>4, <2>5 DEF MInv
<1> QED
  BY <1>0, <1>1, <1>2, <1>3, <1>4 DEF mutex_lock, MutexResume, LockRound, At

\* The hand-off takes the first waiter from the queue and makes it ready.
LEMMA HandOffWakes ==
  ASSUME MInv, KernelThread, waitq[Waiters] # <<>>, HandOff
  PROVE  \E n \in Slots :
           /\ tstate[n] = "blocked" /\ tid[n] = Head(waitq[Waiters])
           /\ tstate' = [tstate EXCEPT ![n] = "ready"]
           /\ owner' = tid[n] /\ owner' \in Nat /\ locked' = locked
           /\ tid' = tid /\ next_tid' = next_tid
           /\ waitq' = [waitq EXCEPT ![Waiters] = Tail(@)]
<1> DEFINE w == waitq[Waiters]
<1>1. w \in Seq(Nat) /\ Head(w) \in Nat /\ Head(w) \in Range(w)
  <2>1. w \in Seq(Nat)
    BY MutexAssumption DEF MInv, IInv, TypeOK
  <2>2. Len(w) \in Nat \ {0}
    BY <2>1, EmptyFacts, SMTT(60)
  <2>3. Head(w) = w[1] /\ 1 \in 1..Len(w) /\ Head(w) \in Nat
    BY <2>1, <2>2, TailFacts, SMTT(60)
  <2> QED
    BY <2>1, <2>3, RangeOfQueue, SMTT(60)
<1>2. \E s \in Slots : tstate[s] = "blocked" /\ tid[s] = Head(w)
  BY <1>1, MutexAssumption DEF MInv, IInv, QueuesMatchStates, WaitQueuesOK
<1>3. \E s \in Slots : IsThread(s, Head(w)) /\ tstate[s] = "blocked"
  BY <1>2 DEF IsThread
<1>4. PICK n \in Slots : IsThread(n, Head(w)) /\ tstate' = [tstate EXCEPT ![n] = "ready"]
  BY <1>3 DEF HandOff, WakeFirstWaiter
<1>5. tstate[n] = "blocked" /\ tid[n] = Head(w)
  BY <1>2, <1>4, SameTid DEF IsThread, MInv
<1>6. /\ owner' = Head(w) /\ locked' = locked /\ tid' = tid /\ next_tid' = next_tid
      /\ waitq' = [waitq EXCEPT ![Waiters] = Tail(@)]
  BY DEF HandOff, WakeFirstWaiter
<1> QED
  BY <1>1, <1>4, <1>5, <1>6

\* mutex_unlock() frees the mutex or hands it to its first waiter.
LEMMA UnlockMInv ==
  ASSUME MInv, IInv', mutex_unlock
  PROVE  MInv'
<1>0. /\ KernelThread /\ mpc[current] = "in"
      /\ mpc' = [mpc EXCEPT ![current] = "out"]
  BY DEF mutex_unlock, At, GoTo
<1>1. /\ current \in Slots /\ tstate[current] = "running"
      /\ mpc \in [Slots -> {"out", "waiting", "in"}]
      /\ tstate \in [Slots -> ThreadStates]
      /\ waitq \in [Queues -> Seq(Nat)]
  BY <1>0, CurrentRuns DEF MInv, IInv, TypeOK
<1>2. \A s \in Slots : mpc'[s] = IF s = current THEN "out" ELSE mpc[s]
  BY <1>0, <1>1
<1>3. mpc' \in [Slots -> {"out", "waiting", "in"}]
  BY <1>0, <1>1
<1>4. CASE locked /\ owner = tid[current] /\ waitq[Waiters] # <<>> /\ HandOff
  <2>1. PICK n \in Slots :
           /\ tstate[n] = "blocked" /\ tid[n] = Head(waitq[Waiters])
           /\ tstate' = [tstate EXCEPT ![n] = "ready"]
           /\ owner' = tid[n] /\ owner' \in Nat /\ locked' = locked
           /\ tid' = tid /\ next_tid' = next_tid
    BY <1>0, <1>4, HandOffWakes
  <2>2. n # current /\ mpc[n] = "waiting" /\ n # Boot
    BY <1>1, <2>1 DEF MInv, PlacesMatchStates
  <2>3. \A s \in Slots : tstate'[s] = IF s = n THEN "ready" ELSE tstate[s]
    BY <1>1, <2>1
  <2>4. PlacesMatchStates'
    <3> SUFFICES ASSUME NEW s \in Slots
                 PROVE  /\ tstate'[s] \in {"free", "zombie"} => mpc'[s] = "out"
                        /\ tstate'[s] = "blocked" => mpc'[s] = "waiting"
                        /\ mpc'[s] = "in" /\ s # Boot => owner' = tid[s]
                        /\ mpc'[s] = "waiting" =>
                             /\ s # Boot
                             /\ tstate'[s] \in {"blocked", "ready", "running"}
                             /\ tstate'[s] # "blocked" => owner' = tid[s]
      BY <1>4, <2>1 DEF PlacesMatchStates
    <3>1. CASE s = current
      BY <3>1, <1>1, <1>2, <2>2, <2>3, SMTT(60)
    <3>2. CASE s = n
      BY <3>2, <1>2, <2>1, <2>2, <2>3, SMTT(60)
    <3>3. CASE s # current /\ s # n
      BY <3>3, <1>0, <1>2, <1>4, <2>3, NobodyElse DEF MInv, PlacesMatchStates
    <3> QED
      BY <3>1, <3>2, <3>3
  <2>5. NoLostWakeup'
    BY <1>2, <1>4, <2>1, <2>2, <2>3, SMTT(60) DEF NoLostWakeup, IsThread
  <2> QED
    BY <1>3, <1>4, <2>1, <2>4, <2>5 DEF MInv
<1>5. CASE /\ locked /\ owner = tid[current] /\ waitq[Waiters] = <<>>
           /\ locked' = FALSE /\ owner' = 0 /\ UNCHANGED vars
  <2>1. tstate' = tstate /\ tid' = tid /\ waitq' = waitq /\ next_tid' = next_tid
    BY <1>5 DEF vars, threadVars
  <2>2. PlacesMatchStates'
    <3> SUFFICES ASSUME NEW s \in Slots
                 PROVE  /\ tstate[s] \in {"free", "zombie"} => mpc'[s] = "out"
                        /\ tstate[s] = "blocked" => mpc'[s] = "waiting"
                        /\ mpc'[s] = "in" => s = Boot
                        /\ mpc'[s] = "waiting" => s # Boot /\ tstate[s] = "blocked"
      BY <1>5, <2>1 DEF PlacesMatchStates
    <3>1. CASE s = current
      BY <3>1, <1>1, <1>2
    <3>2. CASE s # current
      BY <3>2, <1>0, <1>2, <1>5, NobodyElse DEF MInv, PlacesMatchStates
    <3> QED
      BY <3>1, <3>2
  <2>3. NoLostWakeup'
    BY <1>5, <2>1 DEF NoLostWakeup
  <2> QED
    BY <1>3, <1>5, <2>1, <2>2, <2>3 DEF MInv
<1>6. CASE ~(locked /\ owner = tid[current]) /\ UNCHANGED <<locked, owner, vars>>
  <2>1. /\ tstate' = tstate /\ tid' = tid /\ waitq' = waitq /\ next_tid' = next_tid
        /\ locked' = locked /\ owner' = owner
    BY <1>6 DEF vars, threadVars
  <2>2. current = Boot
    BY <1>0, <1>1, <1>6 DEF MInv, PlacesMatchStates
  <2>3. PlacesMatchStates'
    <3> SUFFICES ASSUME NEW s \in Slots
                 PROVE  /\ tstate[s] \in {"free", "zombie"} => mpc'[s] = "out"
                        /\ tstate[s] = "blocked" => mpc'[s] = "waiting"
                        /\ mpc'[s] = "in" /\ s # Boot => locked /\ owner = tid[s]
                        /\ mpc'[s] = "waiting" =>
                             /\ s # Boot
                             /\ tstate[s] \in {"blocked", "ready", "running"}
                             /\ tstate[s] # "blocked" => locked /\ owner = tid[s]
      BY <2>1 DEF PlacesMatchStates
    <3>1. CASE s = current
      BY <3>1, <1>1, <1>2
    <3>2. CASE s # current
      BY <3>2, <1>2 DEF MInv, PlacesMatchStates
    <3> QED
      BY <3>1, <3>2
  <2>4. NoLostWakeup'
    <3>1. ~locked' => waitq'[Waiters] = <<>>
      BY <2>1 DEF MInv, NoLostWakeup
    <3>2. ASSUME locked
          PROVE  \E s \in Slots :
                   /\ IsThread(s, owner)'
                   /\ \/ mpc'[s] = "in"
                      \/ mpc'[s] = "waiting" /\ tstate'[s] \in {"ready", "running"}
      <4>1. PICK s \in Slots : /\ tstate[s] # "free" /\ tid[s] = owner
                               /\ \/ mpc[s] = "in"
                                  \/ mpc[s] = "waiting" /\ tstate[s] \in {"ready", "running"}
        BY <3>2 DEF MInv, NoLostWakeup, IsThread
      <4>2. s # current
        BY <3>2, <4>1, <1>6
      <4> QED
        BY <4>1, <4>2, <1>2, <2>1 DEF IsThread
    <3> QED
      BY <3>1, <3>2, <2>1 DEF NoLostWakeup
  <2> QED
    BY <1>3, <2>1, <2>3, <2>4, SMTT(60) DEF MInv
<1> QED
  BY <1>4, <1>5, <1>6 DEF mutex_unlock

-----------------------------------------------------------------------------
\* MInv is inductive.
LEMMA NextMInv == MInv /\ [MNext]_mvars => MInv'
<1> SUFFICES ASSUME MInv, [MNext]_mvars PROVE MInv'
  OBVIOUS
<1>1. IInv'
  BY MutexUsesScheduler, NextIInv DEF MInv
<1>2. CASE mutex_lock
  BY <1>1, <1>2, LockMInv
<1>3. CASE mutex_unlock
  BY <1>1, <1>3, UnlockMInv, SMTT(60)
<1>4. CASE Elsewhere
  BY <1>1, <1>4, ElsewhereMInv
<1>5. CASE UNCHANGED mvars
  <2>1. UNCHANGED mutexVars /\ tstate' = tstate /\ tid' = tid /\ waitq' = waitq /\ next_tid' = next_tid
    BY <1>5 DEF mvars, vars, threadVars
  <2> QED
    BY <1>1, <2>1, MutexFrame DEF MInv, PlacesMatchStates
<1> QED
  BY <1>2, <1>3, <1>4, <1>5 DEF MNext

\* The invariant of the mutex of sync.c.
THEOREM MSpecMInv == MSpec => []MInv
BY InitMInv, NextMInv, PTL DEF MSpec

\* Of the threads that block, one at most is between mutex_lock() and
\* mutex_unlock(), and it owns the mutex.
THEOREM MSpecMutualExclusion == MSpec => []MutualExclusion
<1>1. MInv => MutualExclusion
  <2> SUFFICES ASSUME MInv PROVE MutualExclusion
    OBVIOUS
  <2>1. \A s \in Inside : /\ s \in Slots /\ locked /\ owner = tid[s] /\ tstate[s] # "free"
    BY DEF Inside, MInv, PlacesMatchStates
  <2>2. \A s, r \in Inside : s = r
    BY <2>1, SameTid, SMTT(60) DEF MInv
  <2> QED
    BY <2>1, <2>2 DEF MutualExclusion
<1> QED
  BY <1>1, MSpecMInv, PTL

\* A free mutex has no waiters and a locked one an owner that can go on: no
\* wake-up of mutex_unlock() is lost.
THEOREM MSpecNoLostWakeup == MSpec => []NoLostWakeup
<1>1. MInv => NoLostWakeup
  BY DEF MInv
<1> QED
  BY <1>1, MSpecMInv, PTL

-----------------------------------------------------------------------------
\* The owner and, behind it, the waiters.
TheLine == IF locked THEN <<owner>> \o waitq[Waiters] ELSE <<>>

\* Joining and leaving a sequence that starts with the owner.
LEMMA LineMoves ==
  ASSUME NEW o \in Nat, NEW w \in Seq(Nat), NEW id \in Nat
  PROVE  /\ <<o>> \o Append(w, id) = Append(<<o>> \o w, id)
         /\ <<o>> \o w # <<>>
         /\ Tail(<<o>> \o w) = w
         /\ w # <<>> => <<Head(w)>> \o Tail(w) = w
         /\ <<id>> \o <<>> = Append(<<>>, id)
<1>1. /\ <<o>> \in Seq(Nat) /\ Len(<<o>>) = 1
      /\ <<o>> \o w \in Seq(Nat) /\ Len(<<o>> \o w) = 1 + Len(w)
      /\ \A i \in 1..(1 + Len(w)) : (<<o>> \o w)[i] = IF i <= 1 THEN o ELSE w[i - 1]
  BY SMTT(60)
<1>2. <<o>> \o Append(w, id) = Append(<<o>> \o w, id)
  <2>1. Append(w, id) \in Seq(Nat) /\ Len(Append(w, id)) = Len(w) + 1
    BY AppendFacts
  <2>2. /\ <<o>> \o Append(w, id) \in Seq(Nat)
        /\ Append(<<o>> \o w, id) \in Seq(Nat)
        /\ Len(<<o>> \o Append(w, id)) = Len(w) + 2
        /\ Len(Append(<<o>> \o w, id)) = Len(w) + 2
    BY <1>1, <2>1, AppendFacts, SMTT(60)
  <2>3. \A i \in 1..(Len(w) + 2) : (<<o>> \o Append(w, id))[i] = Append(<<o>> \o w, id)[i]
    BY <1>1, <2>1, SMTT(60)
  <2> QED
    BY <2>2, <2>3, SameSeq
<1>3. <<o>> \o w # <<>>
  BY <1>1, SMTT(60)
<1>4. Tail(<<o>> \o w) = w
  <2>1. /\ Tail(<<o>> \o w) \in Seq(Nat)
        /\ Len(Tail(<<o>> \o w)) = Len(w)
        /\ \A i \in 1..Len(w) : Tail(<<o>> \o w)[i] = (<<o>> \o w)[i + 1]
    BY <1>1, <1>3, TailFacts, SMTT(60)
  <2>2. \A i \in 1..Len(w) : (<<o>> \o w)[i + 1] = w[i]
    BY <1>1, SMTT(60)
  <2> QED
    BY <2>1, <2>2, SameSeq
<1>5. ASSUME w # <<>> PROVE <<Head(w)>> \o Tail(w) = w
  <2>1. /\ Head(w) \in Nat /\ Tail(w) \in Seq(Nat) /\ Len(Tail(w)) = Len(w) - 1
        /\ \A i \in 1..(Len(w) - 1) : Tail(w)[i] = w[i + 1]
    BY <1>5, TailFacts
  <2>2. /\ <<Head(w)>> \o Tail(w) \in Seq(Nat)
        /\ Len(<<Head(w)>> \o Tail(w)) = Len(w)
    BY <2>1, <1>5, EmptyFacts, SMTT(60)
  <2>3. \A i \in 1..Len(w) : (<<Head(w)>> \o Tail(w))[i] = w[i]
    BY <2>1, <1>5, SMTT(60)
  <2> QED
    BY <2>2, <2>3, SameSeq
<1>6. <<id>> \o <<>> = Append(<<>>, id)
  BY SMTT(60)
<1> QED
  BY <1>2, <1>3, <1>4, <1>5, <1>6, SMTT(60)

\* Every step joins the line at its end, leaves it at its head or leaves it
\* alone.
LEMMA LineStep ==
  ASSUME MInv, MNext
  PROVE  \/ \E id \in 0..MaxTid : TheLine' = Append(TheLine, id)
         \/ TheLine # <<>> /\ TheLine' = Tail(TheLine)
         \/ TheLine' = TheLine
<1>0. /\ waitq \in [Queues -> Seq(Nat)] /\ waitq[Waiters] \in Seq(Nat) /\ owner \in Nat
      /\ ~locked => waitq[Waiters] = <<>>
  BY MutexAssumption DEF MInv, IInv, TypeOK, NoLostWakeup
<1>1. ASSUME KernelThread PROVE tid[current] \in 0..MaxTid /\ tid[current] \in Nat
  <2>1. current \in Slots /\ tstate[current] = "running"
    BY <1>1, CurrentRuns
  <2>2. tid[current] \in Nat /\ next_tid \in Nat /\ next_tid <= MaxTid + 1
    BY <2>1 DEF MInv, IInv, TypeOK
  <2>3. tid[current] < next_tid
    BY <2>1 DEF MInv, IInv, IdentitiesUnique
  <2> QED
    BY <2>2, <2>3, SchedulerAssumption, SMTT(60)
<1>2. CASE UNCHANGED <<locked, owner, waitq>>
  BY <1>2 DEF TheLine
<1>3. CASE mutex_try_lock /\ KernelThread
  <2>1. ~locked /\ locked' /\ owner' = tid[current] /\ waitq' = waitq
    BY <1>3 DEF mutex_try_lock, vars, threadVars
  <2>2. TheLine = <<>> /\ TheLine' = <<tid[current]>> \o <<>>
    BY <2>1, <1>0 DEF TheLine
  <2> QED
    BY <2>2, <1>0, <1>1, <1>3, LineMoves, SMTT(60)
<1>4. CASE KernelThread /\ locked /\ thread_block_on_wait_queue(Waiters) /\ UNCHANGED <<locked, owner>>
  <2>1. waitq' = [waitq EXCEPT ![Waiters] = scheduler_wait_queue_push(Waiters, tid[current])]
    BY <1>4 DEF thread_block_on_wait_queue
  <2>2. current \in Slots /\ tstate[current] = "running"
    BY <1>4, CurrentRuns
  <2>3. Len(waitq[Waiters]) < MaxThreads
    BY <1>4, MutexAssumption, WaitQueueHasRoom DEF KernelThread, Running, MInv
  <2>4. tid[current] \notin Range(waitq[Waiters])
    <3>1. ASSUME tid[current] \in Range(waitq[Waiters]) PROVE FALSE
      <4>1. PICK s \in Slots : tstate[s] = "blocked" /\ tid[s] = tid[current]
        BY <3>1, MutexAssumption DEF MInv, IInv, QueuesMatchStates, WaitQueuesOK
      <4> QED
        BY <4>1, <2>2, SameTid DEF MInv
    <3> QED
      BY <3>1
  <2>5. scheduler_wait_queue_push(Waiters, tid[current]) = Append(waitq[Waiters], tid[current])
    <3>1. Len(waitq[Waiters]) \in Nat
      BY <1>0, SeqFacts
    <3> QED
      BY <3>1, <2>3, <2>4, SchedulerAssumption, SMTT(60) DEF scheduler_wait_queue_push
  <2>6. waitq'[Waiters] = Append(waitq[Waiters], tid[current])
    BY <2>1, <2>5, <1>0, MutexAssumption
  <2>7. TheLine' = <<owner>> \o Append(waitq[Waiters], tid[current])
    BY <1>4, <2>6 DEF TheLine
  <2>8. TheLine = <<owner>> \o waitq[Waiters]
    BY <1>4 DEF TheLine
  <2> QED
    BY <2>7, <2>8, <1>0, <1>1, <1>4, LineMoves
<1>5. CASE KernelThread /\ locked /\ waitq[Waiters] # <<>> /\ HandOff
  <2>1. /\ owner' = Head(waitq[Waiters]) /\ locked' = locked
        /\ waitq' = [waitq EXCEPT ![Waiters] = Tail(@)]
    BY <1>5 DEF HandOff, WakeFirstWaiter
  <2>2. waitq'[Waiters] = Tail(waitq[Waiters])
    BY <2>1, <1>0, MutexAssumption, SMTT(60)
  <2>3. TheLine' = <<Head(waitq[Waiters])>> \o Tail(waitq[Waiters])
    BY <2>1, <2>2, <1>5 DEF TheLine
  <2>4. TheLine = <<owner>> \o waitq[Waiters]
    BY <1>5 DEF TheLine
  <2> QED
    BY <2>3, <2>4, <1>0, <1>5, LineMoves
<1>6. CASE locked /\ waitq[Waiters] = <<>> /\ locked' = FALSE
  <2>1. TheLine' = <<>> /\ TheLine = <<owner>> \o waitq[Waiters]
    BY <1>6 DEF TheLine
  <2> QED
    BY <2>1, <1>0, <1>6, LineMoves, SMTT(60)
<1>7. CASE mutex_lock
  BY <1>2, <1>3, <1>4, <1>7, SMTT(60) DEF mutex_lock, MutexResume, LockRound, At, vars, threadVars
<1>8. CASE mutex_unlock
  BY <1>2, <1>5, <1>6, <1>8 DEF mutex_unlock, At, vars, threadVars
<1>9. CASE Elsewhere
  BY <1>2, <1>9 DEF Elsewhere, mutexVars, TickIrq, scheduler_process, thread_create, NewThread,
       thread_yield, MainLoopTick, thread_sleep_ms, thread_exit
<1> QED
  BY <1>7, <1>8, <1>9 DEF MNext

\* sync/README.md: FIFO waiters and direct hand-off.  Threads get the mutex in
\* the order in which they asked for it.
THEOREM MSpecFifoHandOff == MSpec => FifoHandOff
<1>1. MInit => TheLine = <<>>
  BY DEF MInit, mutex_init, TheLine
<1>2. MInv /\ [MNext]_mvars =>
        [(\E id \in 0..MaxTid : TheLine' = Append(TheLine, id))
           \/ (TheLine # <<>> /\ TheLine' = Tail(TheLine))]_TheLine
  <2>1. CASE UNCHANGED mvars
    BY <2>1 DEF mvars, mutexVars, vars, threadVars, TheLine
  <2> QED
    BY <2>1, LineStep
<1>3. FifoHandOff <=> /\ TheLine = <<>>
                      /\ [][(\E id \in 0..MaxTid : TheLine' = Append(TheLine, id))
                              \/ (TheLine # <<>> /\ TheLine' = Tail(TheLine))]_TheLine
  BY DEF FifoHandOff, Line!Spec, Line!Init, Line!Next, Line!Join, Line!Leave, TheLine
<1> QED
  BY <1>1, <1>2, <1>3, MSpecMInv, PTL DEF MSpec

-----------------------------------------------------------------------------
(* The main loop: kernel/core/events and kernel/core/watchdog *)

\* A thread inside kernel_events_wait() is blocked, or has seen its event.
WaitersHaveNews ==
  \A s \in Slots : waits[s] # None =>
    /\ tstate[s] \in {"blocked", "ready", "running"}
    /\ tstate[s] # "blocked" => fresh[s]

\* The section with interrupts closed belongs to the boot thread, and everyone
\* who waits for its event has been told.
NotifyInv ==
  /\ kpc \in {"handled", "notify"} => event \in Queues
  /\ kpc = "notify" => /\ current = Boot /\ pc = "run"
                       /\ \A s \in Slots : waits[s] = event => fresh[s]

\* The inductive invariant of the main loop.
KInv ==
  /\ IInv
  /\ evq \in Seq(Queues)
  /\ waits \in [Slots -> Queues \cup {None}]
  /\ fresh \in [Slots -> BOOLEAN]
  /\ NotifyInv
  /\ WaitersHaveNews
  /\ NoMissedEvent

-----------------------------------------------------------------------------
\* Nobody waits before the first event.
LEMMA InitKInv == KInit => KInv
<1> SUFFICES ASSUME KInit PROVE KInv
  OBVIOUS
<1>1. IInv
  BY InitIInv DEF KInit
<1>2. /\ evq = <<>> /\ kpc = "rest" /\ waits = [s \in Slots |-> None]
      /\ fresh = [s \in Slots |-> FALSE]
      /\ tstate = [s \in Slots |-> IF s = Boot THEN "running" ELSE "free"]
  BY DEF KInit, kernel_events_init, Init
<1>3. fresh \in [Slots -> BOOLEAN]
  BY <1>2
<1>4. evq \in Seq(Queues) /\ waits \in [Slots -> Queues \cup {None}]
  BY <1>2, EmptyFacts
<1>5. \A s \in Slots : waits[s] = None /\ tstate[s] # "blocked"
  BY <1>2
<1> QED
  BY <1>1, <1>2, <1>3, <1>4, <1>5 DEF KInv, NotifyInv, WaitersHaveNews, NoMissedEvent

\* Every step of the event layer is a step of the scheduler, or leaves it alone.
LEMMA StepUsesScheduler == KInv /\ [KNext]_kvars => [Next]_vars
<1> SUFFICES ASSUME KInv, [KNext]_kvars PROVE Next \/ UNCHANGED vars
  OBVIOUS
<1>1. CASE TimerIrq
  BY <1>1 DEF TimerIrq, Next
<1>2. CASE \E t \in Queues : DeviceIrq(t)
  BY <1>2 DEF DeviceIrq
<1>3. CASE LoopTop
  BY <1>3 DEF LoopTop
<1>4. CASE DrainEvent
  BY <1>4 DEF DrainEvent, Next
<1>5. CASE CountEvent \/ NotifyDone \/ DrainDone \/ MainLoopHalts
  BY <1>5 DEF CountEvent, NotifyDone, DrainDone, MainLoopHalts
<1>6. CASE WakeWaiter
  <2>1. event \in Queues /\ WakeFirstWaiter(event)
    BY <1>6 DEF WakeWaiter, BootAt, KInv, NotifyInv
  <2> QED
    BY <2>1 DEF Next
<1>7. CASE MainLoopRest
  BY <1>7 DEF MainLoopRest, Next
<1>8. CASE \E t \in Queues : kernel_events_wait(t)
  BY <1>8 DEF kernel_events_wait, WaitRound, Next
<1>9. CASE WaitResumes
  <2>1. waits[current] \in Queues
    BY <1>9 DEF WaitResumes, KInv, IInv, TypeOK
  <2> QED
    BY <1>9, <2>1 DEF WaitResumes, WaitRound, Next
<1>10. CASE ThreadWork
  BY <1>10 DEF ThreadWork, Next
<1>11. CASE Schedule
  BY <1>11 DEF Schedule, Next
<1>12. CASE UNCHANGED kvars
  BY <1>12 DEF kvars
<1> QED
  BY <1>1, <1>2, <1>3, <1>4, <1>5, <1>6, <1>7, <1>8, <1>9, <1>10, <1>11, <1>12, SMTT(60)
    DEF KNext, MainLoop

-----------------------------------------------------------------------------
\* A step that leaves the waiters and the counters alone, keeps blocked threads
\* blocked and runnable waiters runnable, and neither enters nor leaves the
\* section that wakes waiters while one is left in it.
LEMMA EventFrame ==
  ASSUME KInv, IInv', evq' \in Seq(Queues), waits' = waits, fresh' = fresh, waitq' = waitq,
         kpc' \in {"handled", "notify"} => event' \in Queues,
         kpc' = "notify" => kpc = "notify" /\ event' = event /\ current' = Boot /\ pc' = "run",
         \A s \in Slots :
           /\ tstate'[s] = "blocked" <=> tstate[s] = "blocked"
           /\ tstate[s] = "blocked" /\ fresh[s] => kpc' = "notify"
           /\ waits[s] # None /\ tstate[s] \in {"ready", "running"}
                => tstate'[s] \in {"ready", "running"}
           /\ tstate[s] # "free" => tid'[s] = tid[s]
  PROVE  KInv'
<1>1. NotifyInv'
  BY DEF KInv, NotifyInv
<1>2. WaitersHaveNews'
  <2> SUFFICES ASSUME NEW s \in Slots, waits[s] # None
               PROVE  /\ tstate'[s] \in {"blocked", "ready", "running"}
                      /\ tstate'[s] # "blocked" => fresh[s]
    BY DEF WaitersHaveNews
  <2>1. /\ tstate[s] \in {"blocked", "ready", "running"}
        /\ tstate[s] # "blocked" => fresh[s]
    BY DEF KInv, WaitersHaveNews
  <2> QED
    BY <2>1
<1>3. NoMissedEvent'
  <2> SUFFICES ASSUME NEW s \in Slots, tstate'[s] = "blocked"
               PROVE  /\ waits[s] # None
                      /\ tid'[s] \in Range(waitq[waits[s]])
                      /\ fresh[s] => kpc' = "notify" /\ waits[s] = event'
    BY DEF NoMissedEvent
  <2>1. /\ tstate[s] = "blocked" /\ waits[s] # None /\ tid[s] \in Range(waitq[waits[s]])
        /\ fresh[s] => kpc = "notify" /\ waits[s] = event
    BY DEF KInv, NoMissedEvent
  <2> QED
    BY <2>1
<1>4. waits' \in [Slots -> Queues \cup {None}] /\ fresh' \in [Slots -> BOOLEAN]
  BY DEF KInv
<1> QED
  BY <1>1, <1>2, <1>3, <1>4 DEF KInv

\* No thread is left blocked with news outside the section.
LEMMA NoNewsOutside ==
  ASSUME KInv, kpc # "notify", NEW s \in Slots, tstate[s] = "blocked"
  PROVE  ~fresh[s]
BY DEF KInv, NoMissedEvent

\* What KInv says of the current state, for the steps below.
LEMMA Facts ==
  ASSUME KInv
  PROVE  /\ tstate \in [Slots -> ThreadStates] /\ tid \in [Slots -> Nat] /\ current \in Slots
         /\ waitq \in [Queues -> Seq(Nat)]
         /\ waits \in [Slots -> Queues \cup {None}] /\ evq \in Seq(Queues)
         /\ \A s \in Slots : tstate[s] \in {"free", "zombie", "sleeping"} => waits[s] = None
         /\ pc = "run" => tstate[current] = "running"
BY DEF KInv, IInv, TypeOK, WaitersHaveNews, QueuesMatchStates, OneRunning

\* A thread created by the shell or the GUI waits for nothing.
LEMMA NewThreadKInv ==
  ASSUME KInv, IInv', UNCHANGED eventVars, kpc # "notify",
         NEW n \in Slots, NEW pid, NewThread(n, pid)
  PROVE  KInv'
<1>1. /\ tstate[n] = "free" /\ tstate' = [tstate EXCEPT ![n] = "ready"]
      /\ tid' = [tid EXCEPT ![n] = next_tid] /\ waitq' = waitq
  BY DEF NewThread, FirstFree
<1>2. \A s \in Slots : /\ s # n => tstate'[s] = tstate[s] /\ tid'[s] = tid[s]
                       /\ s = n => tstate'[s] = "ready" /\ tstate[s] = "free"
  BY <1>1, Facts
<1>3. \A s \in Slots : waits[s] # None => s # n
  BY <1>1, Facts
<1>4. /\ evq' \in Seq(Queues) /\ waits' = waits /\ fresh' = fresh /\ kpc' = kpc /\ event' = event
      /\ kpc' \in {"handled", "notify"} => event' \in Queues
  BY Facts DEF eventVars, KInv, NotifyInv
<1>5. \A s \in Slots : tstate[s] = "blocked" => ~fresh[s]
  BY NoNewsOutside
<1> QED
  BY <1>1, <1>2, <1>3, <1>4, <1>5, EventFrame, SMTT(60)

\* A thread that waits for nothing yields or ends.
LEMMA ThreadWorkKInv ==
  ASSUME KInv, IInv', ThreadWork
  PROVE  KInv'
<1>1. /\ waits[current] = None /\ current # Boot /\ UNCHANGED eventVars /\ pc = "run"
      /\ tid' = tid /\ waitq' = waitq
  BY DEF ThreadWork, thread_yield, thread_exit, UserExit, EnterScheduler, KernelThread,
         UserThread, Running
<1>2. PICK st \in {"running", "zombie"} : tstate' = [tstate EXCEPT ![current] = st]
  BY DEF ThreadWork, thread_yield, thread_exit, UserExit, EnterScheduler
<1>3. kpc # "notify"
  BY <1>1 DEF KInv, NotifyInv
<1>4. \A s \in Slots : /\ s # current => tstate'[s] = tstate[s]
                       /\ s = current => tstate'[s] # "blocked" /\ tstate[s] # "blocked"
  BY <1>1, <1>2, Facts
<1>5. /\ evq' \in Seq(Queues) /\ waits' = waits /\ fresh' = fresh /\ kpc' = kpc /\ event' = event
      /\ kpc' \in {"handled", "notify"} => event' \in Queues
  BY <1>1, Facts DEF eventVars, KInv, NotifyInv
<1>6. \A s \in Slots : tstate[s] = "blocked" => ~fresh[s]
  BY <1>3, NoNewsOutside
<1> QED
  BY <1>1, <1>3, <1>4, <1>5, <1>6, EventFrame

\* The scheduler.
LEMMA ScheduleKInv ==
  ASSUME KInv, IInv', Schedule
  PROVE  KInv'
<1>1. scheduler_process /\ UNCHANGED eventVars /\ pc = "sched"
  BY DEF Schedule, scheduler_process
<1>2. kpc # "notify"
  BY <1>1 DEF KInv, NotifyInv
<1>3. /\ evq' \in Seq(Queues) /\ waits' = waits /\ fresh' = fresh /\ kpc' = kpc /\ event' = event
      /\ kpc' \in {"handled", "notify"} => event' \in Queues
  BY <1>1, Facts DEF eventVars, KInv, NotifyInv
<1>4. \A s \in Slots : tstate[s] = "blocked" => ~fresh[s]
  BY <1>2, NoNewsOutside
<1>5. /\ tid' = tid /\ waitq' = waitq
      /\ \A s \in Slots :
              /\ tstate'[s] = "blocked" <=> tstate[s] = "blocked"
              /\ tstate[s] \in {"ready", "running"} => tstate'[s] \in {"ready", "running"}
  BY <1>1, SchedulerProcessMoves DEF KInv
<1> QED
  BY <1>2, <1>3, <1>4, <1>5, EventFrame

\* The interrupts and the steps of the loop that move no thread.
LEMMA QuietKInv ==
  ASSUME KInv, IInv', tstate' = tstate, tid' = tid, waitq' = waitq, kpc # "notify",
         kpc' # "notify", evq' \in Seq(Queues), waits' = waits, fresh' = fresh,
         kpc' = "handled" => event' \in Queues
  PROVE  KInv'
<1>1. \A s \in Slots : tstate[s] = "blocked" => ~fresh[s]
  BY NoNewsOutside
<1> QED
  BY <1>1, EventFrame

\* The event ring holds event types after event_queue_push() too.
LEMMA PushedIsSeq ==
  ASSUME KInv, NEW t \in Queues
  PROVE  Pushed(t) \in Seq(Queues)
BY Facts, AppendFacts DEF Pushed

\* An interrupt that captures an event changes the ring and nothing a waiter
\* depends on.
LEMMA CaptureKInv ==
  ASSUME KInv, IInv', NEW t \in Queues, Capture(t), tstate' = tstate, tid' = tid, waitq' = waitq
  PROVE  KInv'
<1>1. /\ kpc # "notify" /\ evq' = Pushed(t) /\ waits' = waits /\ fresh' = fresh /\ event' = event
      /\ kpc' \in {kpc, "top"}
  BY DEF Capture
<1>2. kpc' = "handled" => event' \in Queues
  BY <1>1 DEF KInv, NotifyInv
<1> QED
  BY <1>1, <1>2, PushedIsSeq, QuietKInv

\* The main loop takes an event off the ring before it counts it.
LEMMA DrainEventKInv ==
  ASSUME KInv, IInv', DrainEvent
  PROVE  KInv'
<1>1. /\ kpc = "drain" /\ evq # <<>> /\ event' = Head(evq) /\ evq' = Tail(evq) /\ kpc' = "handled"
      /\ waits' = waits /\ fresh' = fresh
  BY DEF DrainEvent, BootAt, MayDrain
<1>2. tstate' = tstate /\ tid' = tid /\ waitq' = waitq
  BY DEF DrainEvent, MainLoopTick, vars, threadVars
<1>3. event' \in Queues /\ evq' \in Seq(Queues)
  BY <1>1, Facts, TailFacts
<1> QED
  BY <1>1, <1>2, <1>3, QuietKInv

\* The counter of the event is advanced: its waiters have news, and are the
\* ones the section will wake.
LEMMA CountEventKInv ==
  ASSUME KInv, IInv', CountEvent
  PROVE  KInv'
<1>1. /\ kpc = "handled" /\ kpc' = "notify" /\ current = Boot /\ pc = "run"
      /\ evq' = evq /\ event' = event /\ waits' = waits /\ UNCHANGED vars
      /\ fresh' = [s \in Slots |-> fresh[s] \/ waits[s] = event]
  BY DEF CountEvent, BootAt, KernelThread, Running, AdvanceSequence
<1>2. /\ tstate' = tstate /\ tid' = tid /\ waitq' = waitq /\ current' = current /\ pc' = pc
  BY <1>1 DEF vars, threadVars
<1>3. \A s \in Slots : fresh'[s] <=> fresh[s] \/ waits[s] = event
  BY <1>1
<1>4. fresh' \in [Slots -> BOOLEAN]
  BY <1>1
<1>5. event \in Queues
  BY <1>1 DEF KInv, NotifyInv
<1>6. NotifyInv'
  BY <1>1, <1>2, <1>3, <1>5 DEF NotifyInv
<1>7. WaitersHaveNews'
  BY <1>1, <1>2, <1>3 DEF KInv, WaitersHaveNews
<1>8. NoMissedEvent'
  <2>1. \A s \in Slots : tstate[s] = "blocked" => ~fresh[s]
    BY <1>1, NoNewsOutside
  <2> QED
    BY <1>1, <1>2, <1>3, <2>1 DEF KInv, NoMissedEvent
<1> QED
  BY <1>1, <1>4, <1>6, <1>7, <1>8 DEF KInv

\* wake_event_waiters_locked() takes a waiter that has news.
LEMMA WakeWaiterKInv ==
  ASSUME KInv, IInv', WakeWaiter
  PROVE  KInv'
<1> DEFINE w == waitq[event]
<1>1. /\ kpc = "notify" /\ w # <<>> /\ UNCHANGED eventVars /\ tid' = tid
      /\ current' = current /\ pc' = pc
      /\ waitq' = [waitq EXCEPT ![event] = Tail(@)]
  BY DEF WakeWaiter, BootAt, WakeFirstWaiter
<1>2. /\ evq' = evq /\ kpc' = kpc /\ event' = event /\ waits' = waits /\ fresh' = fresh
  BY <1>1 DEF eventVars
<1>3. event \in Queues /\ w \in Seq(Nat) /\ IsInjective(w) /\ event # None
  BY <1>1, Facts, EventAssumption, SMTT(60)
     DEF KInv, NotifyInv, IInv, QueuesMatchStates, WaitQueuesOK
<1>4. Head(w) \in Range(w) /\ Range(Tail(w)) = Range(w) \ {Head(w)}
  BY <1>1, <1>3, TailQueue
<1>5. \E s \in Slots : tstate[s] = "blocked" /\ tid[s] = Head(w)
  BY <1>3, <1>4 DEF KInv, IInv, QueuesMatchStates, WaitQueuesOK
<1>6. \E s \in Slots : IsThread(s, Head(w)) /\ tstate[s] = "blocked"
  BY <1>5 DEF IsThread
<1>7. PICK n \in Slots : IsThread(n, Head(w)) /\ tstate' = [tstate EXCEPT ![n] = "ready"]
  BY <1>6 DEF WakeWaiter, WakeFirstWaiter
<1>8. tstate[n] = "blocked" /\ tid[n] = Head(w)
  BY <1>5, <1>7, SameTid DEF IsThread, KInv
<1>9. waits[n] = event /\ fresh[n]
  <2>1. waits[n] \in Queues /\ tid[n] \in Range(waitq[waits[n]])
    BY <1>8, Facts DEF KInv, NoMissedEvent
  <2>2. waits[n] = event
    <3>1. \A q1, q2 \in Queues : \A id \in Range(waitq[q1]) : id \in Range(waitq[q2]) => q1 = q2
      BY DEF KInv, IInv, QueuesMatchStates, WaitQueuesOK
    <3>2. tid[n] \in Range(waitq[event])
      BY <1>4, <1>8
    <3> QED
      BY <2>1, <1>3, <3>1, <3>2
  <2> QED
    BY <2>2, <1>1 DEF KInv, NotifyInv
<1>10. \A s \in Slots : tstate'[s] = IF s = n THEN "ready" ELSE tstate[s]
  BY <1>7, Facts
<1>11. \A q \in Queues : waitq'[q] = IF q = event THEN Tail(w) ELSE waitq[q]
  BY <1>1, <1>3, Facts
<1>12. NotifyInv'
  BY <1>1, <1>2 DEF KInv, NotifyInv
<1>13. WaitersHaveNews'
  BY <1>2, <1>9, <1>10, SMTT(60) DEF KInv, WaitersHaveNews
<1>14. NoMissedEvent'
  <2> SUFFICES ASSUME NEW s \in Slots, tstate'[s] = "blocked"
               PROVE  /\ waits[s] # None
                      /\ tid[s] \in Range(waitq'[waits[s]])
                      /\ fresh[s] => kpc = "notify" /\ waits[s] = event
    BY <1>1, <1>2 DEF NoMissedEvent
  <2>1. s # n /\ tstate[s] = "blocked"
    BY <1>10
  <2>2. /\ waits[s] # None /\ tid[s] \in Range(waitq[waits[s]])
        /\ fresh[s] => kpc = "notify" /\ waits[s] = event
    BY <2>1 DEF KInv, NoMissedEvent
  <2>3. tid[s] # Head(w)
    BY <2>1, <1>8, SameTid DEF KInv
  <2>4. waits[s] \in Queues
    BY <2>2, Facts
  <2> QED
    BY <2>2, <2>3, <2>4, <1>4, <1>11, SMTT(60)
<1> QED
  BY <1>2, <1>12, <1>13, <1>14 DEF KInv

\* The section ends with nobody left in the queue of its event.
LEMMA NotifyDoneKInv ==
  ASSUME KInv, IInv', NotifyDone
  PROVE  KInv'
<1>1. /\ kpc = "notify" /\ kpc' = "drain" /\ waitq[event] = <<>>
      /\ evq' = evq /\ waits' = waits /\ fresh' = fresh /\ UNCHANGED vars
  BY DEF NotifyDone, BootAt
<1>2. tstate' = tstate /\ tid' = tid /\ waitq' = waitq
  BY <1>1 DEF vars, threadVars
<1>3. \A s \in Slots : tstate[s] = "blocked" => ~fresh[s]
  <2> SUFFICES ASSUME NEW s \in Slots, tstate[s] = "blocked", fresh[s] PROVE FALSE
    OBVIOUS
  <2>1. tid[s] \in Range(waitq[event])
    BY DEF KInv, NoMissedEvent
  <2>2. Range(waitq[event]) = {}
    BY <1>1, EmptyFacts, RangeOfQueue
  <2> QED
    BY <2>1, <2>2
<1>4. evq' \in Seq(Queues)
  BY <1>1, Facts
<1> QED
  BY <1>1, <1>2, <1>3, <1>4, EventFrame, SMTT(60)

\* One round of kernel_events_wait(): the thread finds room in the queue of its
\* event, whose counter it has just read.
LEMMA WaitRoundKInv ==
  ASSUME KInv, IInv', NEW t \in Queues, WaitRound(t), UNCHANGED <<evq, kpc, event>>
  PROVE  KInv'
<1>1. /\ pc = "run" /\ current # Boot /\ tid' = tid
      /\ tstate' = [tstate EXCEPT ![current] = "blocked"]
      /\ waitq' = [waitq EXCEPT ![t] = scheduler_wait_queue_push(t, tid[current])]
      /\ waits' = [waits EXCEPT ![current] = t]
      /\ fresh' = [fresh EXCEPT ![current] = FALSE]
      /\ evq' = evq /\ kpc' = kpc /\ event' = event
  BY DEF WaitRound, thread_block_on_wait_queue, EnterScheduler, KernelThread, Running
<1>2. kpc # "notify" /\ t # None
  BY <1>1, EventAssumption DEF KInv, NotifyInv
<1>3. \A s \in Slots : /\ tstate'[s] = IF s = current THEN "blocked" ELSE tstate[s]
                       /\ waits'[s] = IF s = current THEN t ELSE waits[s]
  BY <1>1, Facts
<1>4. fresh \in [Slots -> BOOLEAN]
  BY DEF KInv
<1>5. fresh' \in [Slots -> BOOLEAN] /\ ~fresh'[current]
  BY <1>1, <1>4, Facts
<1>6. \A s \in Slots : s # current => fresh'[s] = fresh[s]
  BY <1>1, <1>4
<1>7. waits' \in [Slots -> Queues \cup {None}]
  BY <1>1, Facts
<1>8. NotifyInv'
  BY <1>1, <1>2 DEF KInv, NotifyInv
<1>9. WaitersHaveNews'
  <2> SUFFICES ASSUME NEW s \in Slots, waits'[s] # None
               PROVE  /\ tstate'[s] \in {"blocked", "ready", "running"}
                      /\ tstate'[s] # "blocked" => fresh'[s]
    BY DEF WaitersHaveNews
  <2>1. CASE s = current
    BY <2>1, <1>3
  <2>2. CASE s # current
    <3>1. waits[s] # None /\ tstate'[s] = tstate[s] /\ fresh'[s] = fresh[s]
      BY <2>2, <1>3, <1>6
    <3> QED
      BY <3>1 DEF KInv, WaitersHaveNews
  <2> QED
    BY <2>1, <2>2
<1>10. NoMissedEvent'
  <2> DEFINE w == waitq[t]
             p == scheduler_wait_queue_push(t, tid[current])
  <2>1. w \in Seq(Nat) /\ IsInjective(w) /\ tid[current] \in Nat /\ Len(w) < MaxThreads
    BY <1>1, Facts, WaitQueueHasRoom, SMTT(60) DEF KInv, IInv, QueuesMatchStates, WaitQueuesOK
  <2>2. Range(p) = Range(w) \cup {tid[current]}
    <3>1. CASE tid[current] \in Range(w)
      BY <3>1 DEF scheduler_wait_queue_push
    <3>2. CASE tid[current] \notin Range(w)
      <4>1. p = Append(w, tid[current])
        BY <3>2, <2>1, SchedulerAssumption, SMTT(60) DEF scheduler_wait_queue_push
      <4> QED
        BY <4>1, <3>2, <2>1, AppendQueue, SMTT(60)
    <3> QED
      BY <3>1, <3>2
  <2>3. \A q \in Queues : waitq'[q] = IF q = t THEN p ELSE waitq[q]
    BY <1>1, Facts
  <2> HIDE DEF p
  <2> SUFFICES ASSUME NEW s \in Slots, tstate'[s] = "blocked"
               PROVE  /\ waits'[s] # None
                      /\ tid[s] \in Range(waitq'[waits'[s]])
                      /\ fresh'[s] => kpc = "notify" /\ waits'[s] = event
    BY <1>1 DEF NoMissedEvent
  <2>4. CASE s = current
    BY <2>4, <2>2, <2>3, <1>2, <1>3, <1>5, SMTT(60)
  <2>5. CASE s # current
    <3>1. /\ tstate[s] = "blocked" /\ waits'[s] = waits[s] /\ fresh'[s] = fresh[s]
      BY <2>5, <1>3, <1>6
    <3>2. /\ waits[s] # None /\ tid[s] \in Range(waitq[waits[s]])
          /\ fresh[s] => kpc = "notify" /\ waits[s] = event
      BY <3>1 DEF KInv, NoMissedEvent
    <3>3. waits[s] \in Queues
      BY <3>2, Facts
    <3> QED
      BY <3>1, <3>2, <3>3, <2>2, <2>3
  <2> QED
    BY <2>4, <2>5
<1>11. evq' \in Seq(Queues)
  BY <1>1, Facts
<1> QED
  BY <1>5, <1>7, <1>8, <1>9, <1>10, <1>11, SMTT(60) DEF KInv

\* A thread that comes back finds the counter advanced and leaves.
LEMMA WaitResumesKInv ==
  ASSUME KInv, IInv', WaitResumes
  PROVE  KInv'
<1>1. /\ pc = "run" /\ waits[current] # None /\ current \in Slots /\ tstate[current] = "running"
  BY Facts DEF WaitResumes, KernelThread, Running
<1>2. fresh[current]
  BY <1>1 DEF KInv, WaitersHaveNews
<1>3. /\ waits' = [waits EXCEPT ![current] = None] /\ fresh' = fresh /\ UNCHANGED vars
      /\ evq' = evq /\ kpc' = kpc /\ event' = event
  BY <1>2 DEF WaitResumes
<1>4. /\ tstate' = tstate /\ tid' = tid /\ waitq' = waitq /\ current' = current /\ pc' = pc
  BY <1>3 DEF vars, threadVars
<1>5. \A s \in Slots : waits'[s] = IF s = current THEN None ELSE waits[s]
  BY <1>3, Facts
<1>6. waits' \in [Slots -> Queues \cup {None}]
  BY <1>3, Facts
<1>7. NotifyInv'
  <2>1. kpc \in {"handled", "notify"} => event \in Queues /\ event # None
    BY EventAssumption DEF KInv, NotifyInv
  <2> QED
    BY <2>1, <1>3, <1>4, <1>5 DEF KInv, NotifyInv
<1>8. WaitersHaveNews'
  BY <1>3, <1>4, <1>5 DEF KInv, WaitersHaveNews
<1>9. NoMissedEvent'
  BY <1>1, <1>3, <1>4, <1>5 DEF KInv, NoMissedEvent
<1>10. evq' \in Seq(Queues) /\ fresh' \in [Slots -> BOOLEAN]
  BY <1>3 DEF KInv
<1> QED
  BY <1>6, <1>7, <1>8, <1>9, <1>10 DEF KInv

-----------------------------------------------------------------------------
(* The theorems *)

\* KInv is inductive.
LEMMA NextKInv == KInv /\ [KNext]_kvars => KInv'
<1> SUFFICES ASSUME KInv, [KNext]_kvars PROVE KInv'
  OBVIOUS
<1>0. IInv'
  BY StepUsesScheduler, NextIInv DEF KInv
<1>1. CASE TimerIrq
  <2>1. Capture(Timer) /\ tstate' = tstate /\ tid' = tid /\ waitq' = waitq
    BY <1>1 DEF TimerIrq, TickIrq
  <2> QED
    BY <1>0, <2>1, EventAssumption, CaptureKInv
<1>2. ASSUME NEW t \in Queues, DeviceIrq(t) PROVE KInv'
  <2>1. Capture(t) /\ tstate' = tstate /\ tid' = tid /\ waitq' = waitq
    BY <1>2 DEF DeviceIrq, vars, threadVars
  <2> QED
    BY <1>0, <2>1, CaptureKInv
<1>3. CASE LoopTop \/ DrainDone \/ MainLoopHalts
  <2>1. /\ kpc \in {"top", "drain", "rest"} /\ kpc' \in {"drain", "rest", "hlt"}
        /\ evq' = evq /\ waits' = waits /\ fresh' = fresh /\ UNCHANGED vars
    BY <1>3 DEF LoopTop, DrainDone, MainLoopHalts, BootAt
  <2>2. tstate' = tstate /\ tid' = tid /\ waitq' = waitq
    BY <2>1 DEF vars, threadVars
  <2>3. evq' \in Seq(Queues)
    BY <2>1, Facts
  <2> QED
    BY <1>0, <2>1, <2>2, <2>3, QuietKInv, SMTT(60)
<1>4. CASE DrainEvent
  BY <1>0, <1>4, DrainEventKInv
<1>5. CASE CountEvent
  BY <1>0, <1>5, CountEventKInv, SMTT(60)
<1>6. CASE WakeWaiter
  BY <1>0, <1>6, WakeWaiterKInv
<1>7. CASE NotifyDone
  BY <1>0, <1>7, NotifyDoneKInv
<1>8. CASE MainLoopRest
  <2>1. kpc # "notify" /\ UNCHANGED eventVars
    BY <1>8 DEF MainLoopRest, BootAt
  <2>2. \E n \in Slots, pid \in {0, next_pid} : NewThread(n, pid)
    BY <1>8 DEF MainLoopRest, thread_create, Launch
  <2> QED
    BY <1>0, <2>1, <2>2, NewThreadKInv
<1>9. ASSUME NEW t \in Queues, kernel_events_wait(t) PROVE KInv'
  BY <1>0, <1>9, WaitRoundKInv, SMTT(60) DEF kernel_events_wait
<1>10. CASE WaitResumes
  BY <1>0, <1>10, WaitResumesKInv
<1>11. CASE ThreadWork
  BY <1>0, <1>11, ThreadWorkKInv
<1>12. CASE Schedule
  BY <1>0, <1>12, ScheduleKInv
<1>13. CASE UNCHANGED kvars
  <2>1. UNCHANGED vars /\ UNCHANGED eventVars
    BY <1>13 DEF kvars
  <2> QED
    BY <1>0, <2>1 DEF vars, threadVars, eventVars, KInv, NotifyInv, WaitersHaveNews, NoMissedEvent
<1> QED
  BY <1>1, <1>2, <1>3, <1>4, <1>5, <1>6, <1>7, <1>8, <1>9, <1>10, <1>11, <1>12, <1>13, SMTT(60)
    DEF KNext, MainLoop

\* The invariant holds in every behaviour of the main loop and its threads.
THEOREM KSpecKInv == KSpec => []KInv
  BY InitKInv, NextKInv, PTL DEF KSpec

\* The event layer is a client of the scheduler: every behaviour of it is one
\* of the scheduler's, so all that is proved of the scheduler holds under it.
THEOREM KSpecUsesScheduler == KSpec => UsesScheduler
<1>1. KInit => Init
  BY DEF KInit
<1> QED
  BY <1>1, KSpecKInv, StepUsesScheduler, PTL DEF KSpec, UsesScheduler, Spec

\* wake_event_waiters_locked() reaches every thread that waits for the event,
\* and kernel_events_wait() never comes back before it.
THEOREM KSpecWakeupsExact == KSpec => []WakeupsExact
<1>1. KInv => WakeupsExact
  <2> SUFFICES ASSUME KInv PROVE WakeupsExact
    OBVIOUS
  <2>1. WakesWithNews
    <3> SUFFICES ASSUME NEW s \in Slots, waits[s] # None,
                        tstate[s] = "ready" \/ (s = current /\ pc = "run")
                 PROVE  fresh[s]
      BY DEF WakesWithNews
    <3>1. tstate[s] \in {"ready", "running"}
      BY Facts
    <3> QED
      BY <3>1 DEF KInv, WaitersHaveNews
  <2> QED
    BY <2>1 DEF WakeupsExact, KInv
<1> QED
  BY <1>1, KSpecKInv, PTL

\* The watched system is the main loop with a watchdog beside it.
LEMMA WatchedStep == [WNext]_wvars => [KNext]_kvars
<1> SUFFICES ASSUME [WNext]_wvars PROVE KNext \/ UNCHANGED kvars
  OBVIOUS
<1>1. CASE WatchedTick
  BY <1>1 DEF WatchedTick, KNext
<1>2. CASE WatchedLoopTop
  BY <1>2 DEF WatchedLoopTop, KNext
<1>3. CASE Stop
  BY <1>3 DEF Stop
<1>4. CASE WatchedDrainDone
  BY <1>4 DEF WatchedDrainDone, KNext, MainLoop
<1>5. CASE Unwatched
  BY <1>5 DEF Unwatched, KNext, MainLoop
<1>6. CASE UNCHANGED wvars
  BY <1>6 DEF wvars
<1> QED
  BY <1>1, <1>2, <1>3, <1>4, <1>5, <1>6, SMTT(60) DEF WNext

\* Under the watchdog too no wake-up is lost or empty.
THEOREM WSpecWakeupsExact == WSpec => []WakeupsExact
<1>1. WInit => KInit
  BY DEF WInit
<1> QED
  BY <1>1, WatchedStep, KSpecWakeupsExact, PTL DEF WSpec, KSpec

\* nexus_watchdog_timer_tick() raises the trip in the very tick in which the
\* main loop has been silent for longer than the timeout, and no heartbeat
\* takes it back.
THEOREM WSpecSilenceTrips == WSpec => []SilenceTrips
<1> DEFINE Inv == SilenceTrips /\ age \in Nat
<1>0. timeout_ticks \in Nat /\ timeout_ticks > 0
  <2>1. TimerHz * TimeoutMs \in Nat
    BY SchedulerAssumption, WatchdogAssumption, SMTT(60)
  <2> QED
    BY <2>1, SMTT(60) DEF timeout_ticks
<1>1. WInit => Inv
  BY <1>0, SMTT(60) DEF WInit, nexus_watchdog_init, SilenceTrips
<1>2. Inv /\ [WNext]_wvars => Inv'
  <2> SUFFICES ASSUME SilenceTrips, age \in Nat, [WNext]_wvars
               PROVE  SilenceTrips' /\ age' \in Nat
    OBVIOUS
  <2>0. timeout_ticks' = timeout_ticks
    BY DEF timeout_ticks
  <2>1. CASE WatchedTick
    <3>1. age' = Older(age) /\ trip_pending' = (trip_pending \/ Older(age) > timeout_ticks)
      BY <2>1 DEF WatchedTick, Trips
    <3>2. age' \in Nat
      BY <3>1, <1>0, SMTT(60) DEF Older
    <3>3. age' > timeout_ticks => trip_pending'
      BY <3>1
    <3> QED
      BY <2>0, <3>2, <3>3 DEF SilenceTrips
  <2>2. CASE WatchedLoopTop \/ Stop \/ WatchedDrainDone
    <3>1. age' = 0
      BY <2>2 DEF WatchedLoopTop, Stop, WatchedDrainDone, nexus_watchdog_heartbeat
    <3> QED
      BY <1>0, <2>0, <3>1, SMTT(60) DEF SilenceTrips
  <2>3. CASE Unwatched \/ UNCHANGED wvars
    <3>1. age' = age /\ trip_pending' = trip_pending
      BY <2>3 DEF Unwatched, wvars, dogVars
    <3> QED
      BY <2>0, <3>1 DEF SilenceTrips
  <2> QED
    BY <2>1, <2>2, <2>3 DEF WNext
<1>3. Inv => SilenceTrips
  OBVIOUS
<1> QED
  BY <1>1, <1>2, <1>3, PTL DEF WSpec

===============================================================================
