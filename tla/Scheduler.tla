------------------------------- MODULE Scheduler -------------------------------
(***************************************************************************)
(* kernel/core/scheduler/scheduler.c, with the process lifecycle it drives *)
(* (ProcessTable.tla), the launch of user programs (command_elf_run in     *)
(* shell/core/command_registry.c and SYS_EXEC in syscall.c) and their exit *)
(* (SYS_EXIT, the CPL3 page fault of idt.c).                               *)
(*                                                                         *)
(* One CPU.  A thread leaves the CPU only inside scheduler_process(); the  *)
(* timer interrupt never touches a queue.  pc says where the current       *)
(* thread is: "run" in its own code, "sched" between the call that asked   *)
(* for the scheduler and the point where scheduler_process() closes        *)
(* interrupts (timer ticks still land there), "halted" in the cli;hlt loop *)
(* of an empty ready queue.                                                *)
(*                                                                         *)
(* Abstractions.  The intrusive lists are sequences of TCB slots, and the  *)
(* list counters their lengths.  wake_tick is kept as wake_in, the ticks   *)
(* still to go (0 once due): the code only ever compares wake_tick with    *)
(* g_ticks and with another wake_tick.  g_wakeup_pending is left out:      *)
(* wake_due_threads() recomputes it, to 0, before its only reader looks.   *)
(* Statistics and register contents are left out.                          *)
(***************************************************************************)
EXTENDS ProcessTable, Sequences, Functions

CONSTANTS MaxThreads,   \* SCHED_MAX_THREADS
          MaxTid,       \* bound: how many threads a behaviour creates
          Queues,       \* the wait queues of the kernel
          TimerHz,      \* g_timer_hz
          QuantumMs,    \* NEXUS_SCHEDULER_DEFAULT_QUANTUM_MS
          SleepMs       \* the arguments thread_sleep_ms() is called with

ASSUME SchedulerAssumption ==
  /\ MaxThreads \in Nat \ {0}
  /\ MaxTid \in Nat
  /\ TimerHz \in Nat \ {0}
  /\ QuantumMs \in Nat
  /\ SleepMs \subseteq Nat

VARIABLES tstate,        \* TCB state; "free" is magic = 0
          tid,           \* TCB id
          tpid,          \* TCB process_pid, 0 = kernel thread
          wake_in,       \* ticks until the TCB's wake_tick
          current,       \* g_current, a slot
          ready,         \* g_ready_head .. g_ready_tail
          sleep,         \* g_sleep_head ..
          waitq,         \* each wait queue, a sequence of TIDs
          quantum,       \* g_quantum_remaining
          resched,       \* g_reschedule_pending
          next_tid,      \* g_next_tid
          thread_count,  \* g_thread_count
          cr3,           \* the loaded CR3: 0 = the kernel's, else a PID's
          pc             \* see above

threadVars == <<tstate, tid, tpid, wake_in, current, ready, sleep, waitq,
                quantum, resched, next_tid, thread_count, cr3, pc>>

vars == <<threadVars, procVars>>

Slots == 0..(MaxThreads - 1)
Boot == 0                        \* the slot, and the TID, of the boot thread

ThreadStates == {"free", "ready", "running", "sleeping", "blocked", "zombie"}

\* calculate_quantum_ticks()
quantum_ticks ==
  LET t == (TimerHz * QuantumMs) \div 1000 IN IF t = 0 THEN 1 ELSE t

\* The tick count of thread_sleep_ms()
SleepTicks(ms) ==
  LET t == (ms * TimerHz + 999) \div 1000 IN IF t = 0 THEN 1 ELSE t

TypeOK ==
  /\ ProcTypeOK
  /\ tstate \in [Slots -> ThreadStates]
  /\ tid \in [Slots -> Nat]
  /\ tpid \in [Slots -> 0..MaxPid]
  /\ wake_in \in [Slots -> Nat]
  /\ current \in Slots
  /\ ready \in Seq(Slots)
  /\ sleep \in Seq(Slots)
  /\ waitq \in [Queues -> Seq(Nat)]
  /\ quantum \in Nat \ {0}
  /\ resched \in BOOLEAN
  /\ next_tid \in Nat \ {0}
  /\ thread_count \in Int
  /\ cr3 \in 0..MaxPid
  /\ pc \in {"run", "sched", "halted"}

-----------------------------------------------------------------------------
(* scheduler_init(): the boot thread runs, every other slot is free. *)
Init ==
  /\ process_init
  /\ tstate = [s \in Slots |-> IF s = Boot THEN "running" ELSE "free"]
  /\ tid = [s \in Slots |-> 0]
  /\ tpid = [s \in Slots |-> 0]
  /\ wake_in = [s \in Slots |-> 0]
  /\ current = Boot
  /\ ready = <<>>
  /\ sleep = <<>>
  /\ waitq = [q \in Queues |-> <<>>]
  /\ quantum = quantum_ticks
  /\ resched = FALSE
  /\ next_tid = 1
  /\ thread_count = 1
  /\ cr3 = 0
  /\ pc = "run"

\* The quantum counts down and is reloaded when it is spent.
QuantumAfterTick == IF quantum = 1 THEN quantum_ticks ELSE quantum - 1

\* scheduler_tick_irq().  It may land anywhere but in a section with
\* interrupts closed, and it only moves the clock and sets the hint.
TickIrq ==
  /\ pc \in {"run", "sched"}
  /\ wake_in' = [s \in Slots |-> IF wake_in[s] > 0 THEN wake_in[s] - 1 ELSE 0]
  /\ quantum' = QuantumAfterTick
  /\ resched' = \/ resched
                \/ quantum = 1
                \/ sleep # <<>> /\ wake_in'[Head(sleep)] = 0
  /\ UNCHANGED <<tstate, tid, tpid, current, ready, sleep, waitq, next_tid,
                 thread_count, cr3, pc, procVars>>

-----------------------------------------------------------------------------
(* Calls of the current thread *)

Running == pc = "run"
KernelThread == Running /\ tpid[current] = 0
UserThread == Running /\ tpid[current] # 0

\* The slot thread_create() takes: the first free one after the boot slot.
FirstFree(s) ==
  /\ s \in 1..(MaxThreads - 1)
  /\ tstate[s] = "free"
  /\ \A r \in 1..(s - 1) : tstate[r] # "free"

\* thread_create() with a free slot and a stack from the heap.  Without either
\* it returns 0 and changes nothing.
NewThread(s, pid) ==
  /\ FirstFree(s)
  /\ next_tid <= MaxTid
  /\ tstate' = [tstate EXCEPT ![s] = "ready"]
  /\ tid' = [tid EXCEPT ![s] = next_tid]
  /\ tpid' = [tpid EXCEPT ![s] = pid]
  /\ wake_in' = [wake_in EXCEPT ![s] = 0]
  /\ ready' = Append(ready, s)
  /\ next_tid' = next_tid + 1
  /\ thread_count' = thread_count + 1
  /\ UNCHANGED <<current, sleep, waitq, quantum, cr3, pc>>

thread_create ==
  /\ KernelThread
  /\ \E s \in Slots : NewThread(s, 0)
  /\ UNCHANGED <<resched, procVars>>

\* command_elf_run() on the boot thread and SYS_EXEC in a user process:
\* process_create, the ELF load, thread_create_user_process, usermode_prepare
\* (which cannot fail once the loader has set a non-zero entry and stack) and
\* scheduler_request_reschedule.  Nothing in between gives up the CPU.
Launch ==
  /\ UserThread \/ (KernelThread /\ current = Boot)
  /\ TableHasRoom
  /\ \E s \in Slots : NewThread(s, next_pid)
  /\ resched' = TRUE
  /\ pstate' = [pstate EXCEPT ![next_pid] = "ready"]
  /\ ptid' = BindThread(next_pid, next_tid)
  /\ next_pid' = next_pid + 1
  /\ process_count' = process_count + 1
  /\ UNCHANGED <<current_pid, zombie_count>>

\* The same call when the address space, the ELF load or the thread fails:
\* process_exit and process_reap(pid, 0) undo the entry, the PID is spent.
LaunchFails ==
  /\ UserThread \/ (KernelThread /\ current = Boot)
  /\ TableHasRoom
  /\ next_pid' = next_pid + 1
  /\ UNCHANGED <<threadVars, pstate, ptid, current_pid, process_count, zombie_count>>

\* Every call that ends in scheduler_process() leaves the current thread in
\* tstate st, asks for a reschedule and opens the window before it.
EnterScheduler(st) ==
  /\ tstate' = [tstate EXCEPT ![current] = st]
  /\ resched' = TRUE
  /\ pc' = "sched"
  /\ UNCHANGED <<tid, tpid, current, ready, quantum, next_tid, cr3>>

thread_yield ==
  /\ KernelThread
  /\ EnterScheduler("running")
  /\ UNCHANGED <<wake_in, sleep, waitq, thread_count, procVars>>

\* kernel_events_process() on the boot thread calls scheduler_process() for a
\* timer event, without asking for a reschedule.
MainLoopTick ==
  /\ KernelThread
  /\ current = Boot
  /\ pc' = "sched"
  /\ UNCHANGED <<tstate, tid, tpid, wake_in, current, ready, sleep, waitq, quantum,
                 resched, next_tid, thread_count, cr3, procVars>>

\* Mutant: a new sleeper goes to the end of the list.
InsertsAtTail(k, w) == k = Len(sleep)

\* sleep_insert() walks past every entry that wakes no later than w ticks.
InsertsAfter(k, w) ==
  /\ \A i \in 1..k : wake_in[sleep[i]] <= w
  /\ k < Len(sleep) => wake_in[sleep[k + 1]] > w

thread_sleep_ms(ms) ==
  /\ KernelThread
  /\ current # Boot
  /\ wake_in' = [wake_in EXCEPT ![current] = SleepTicks(ms)]
  /\ \E k \in 0..Len(sleep) :
       /\ InsertsAfter(k, SleepTicks(ms))
       /\ sleep' = SubSeq(sleep, 1, k) \o <<current>> \o SubSeq(sleep, k + 1, Len(sleep))
  /\ EnterScheduler("sleeping")
  /\ UNCHANGED <<waitq, thread_count, procVars>>

\* scheduler_wait_queue_push_locked(): a full queue or a duplicate is ignored.
scheduler_wait_queue_push(q, id) ==
  IF Len(waitq[q]) >= MaxThreads \/ id \in Range(waitq[q])
    THEN waitq[q]
    ELSE Append(waitq[q], id)

thread_block_on_wait_queue(q) ==
  /\ KernelThread
  /\ current # Boot
  /\ waitq' = [waitq EXCEPT ![q] = scheduler_wait_queue_push(q, tid[current])]
  /\ EnterScheduler("blocked")
  /\ UNCHANGED <<wake_in, sleep, thread_count, procVars>>

\* find_thread_by_id(): s is the thread with this id.
IsThread(s, id) == tstate[s] # "free" /\ tid[s] = id

\* scheduler_wait_queue_pop_locked() and scheduler_wake_thread_locked(), the
\* pair mutex_unlock() and wake_event_waiters_locked() call.
WakeFirstWaiter(q) ==
  /\ KernelThread
  /\ waitq[q] # <<>>
  /\ waitq' = [waitq EXCEPT ![q] = Tail(@)]
  /\ IF \E s \in Slots : IsThread(s, Head(waitq[q])) /\ tstate[s] = "blocked"
       THEN \E s \in Slots :
              /\ IsThread(s, Head(waitq[q]))
              /\ tstate' = [tstate EXCEPT ![s] = "ready"]
              /\ ready' = Append(ready, s)
              /\ resched' = TRUE
       ELSE UNCHANGED <<tstate, ready, resched>>
  /\ UNCHANGED <<tid, tpid, wake_in, current, sleep, quantum, next_tid,
                 thread_count, cr3, pc, procVars>>

\* thread_wakeup(id) on a sleeping thread; on any other it changes nothing.
thread_wakeup(s) ==
  /\ KernelThread
  /\ tstate[s] = "sleeping"
  /\ \E i \in 1..Len(sleep) :
       /\ sleep[i] = s
       /\ sleep' = SubSeq(sleep, 1, i - 1) \o SubSeq(sleep, i + 1, Len(sleep))
  /\ wake_in' = [wake_in EXCEPT ![s] = 0]
  /\ tstate' = [tstate EXCEPT ![s] = "ready"]
  /\ ready' = Append(ready, s)
  /\ resched' = TRUE
  /\ UNCHANGED <<tid, tpid, current, waitq, quantum, next_tid, thread_count,
                 cr3, pc, procVars>>

\* thread_exit() of a kernel thread.
thread_exit ==
  /\ KernelThread
  /\ current # Boot
  /\ EnterScheduler("zombie")
  /\ thread_count' = thread_count - 1
  /\ UNCHANGED <<wake_in, sleep, waitq, procVars>>

\* SYS_EXIT, a CPL3 page fault or a failed usermode_enter(): process_exit and
\* then thread_exit, on the kernel stack of the process.
UserExit ==
  /\ UserThread
  /\ process_exit(tpid[current])
  /\ EnterScheduler("zombie")
  /\ thread_count' = thread_count - 1
  /\ UNCHANGED <<wake_in, sleep, waitq>>

-----------------------------------------------------------------------------
(* scheduler_process() *)

\* wake_due_threads(): the first k sleepers are due, the next one is not.
DuePrefix(k) ==
  /\ \A i \in 1..k : wake_in[sleep[i]] = 0
  /\ k < Len(sleep) => wake_in[sleep[k + 1]] > 0

\* Mutant: the current thread is not spared.
ReapedWithCurrent ==
  {s \in Slots \ {Boot} :
     /\ tstate[s] = "zombie"
     /\ tpid[s] # 0 => CanReap(tpid[s], tid[s])}

\* reap_zombies(): every zombie but the current thread; the thread of a
\* process only once process_reap() accepts it.
Reaped ==
  {s \in Slots \ {Boot, current} :
     /\ tstate[s] = "zombie"
     /\ tpid[s] # 0 => CanReap(tpid[s], tid[s])}

ReapedPids == {tpid[s] : s \in Reaped} \ {0}

\* Thread states after the k due sleepers are woken and the zombies reaped.
StateAfterReap(k) ==
  [s \in Slots |-> IF s \in Reaped THEN "free"
                   ELSE IF \E i \in 1..k : sleep[i] = s THEN "ready"
                   ELSE tstate[s]]

\* Mutant: a woken thread is not queued.
WakeWithoutQueue(k) == ready

\* Mutant: woken threads jump the queue.
WakeAtHead(k) == SubSeq(sleep, 1, k) \o ready

ReadyAfterWake(k) == ready \o SubSeq(sleep, 1, k)

\* No reschedule pending: the current thread goes on.
Resume(st, rd, ps) ==
  /\ tstate' = st
  /\ ready' = rd
  /\ pstate' = ps
  /\ pc' = "run"
  /\ UNCHANGED <<current, resched, cr3, current_pid>>

\* Mutant: CR3 is left alone when a kernel thread takes over.
SwitchToLazily(next, st, rd, ps) ==
  /\ tstate' = [st EXCEPT ![next] = "running"]
  /\ ready' = rd
  /\ current' = next
  /\ pstate' = IF tpid[next] # 0 THEN process_set_current(ps, tpid[next])
                                 ELSE process_clear_current(ps)
  /\ current_pid' = tpid[next]
  /\ cr3' = IF tpid[next] # 0 THEN tpid[next] ELSE cr3
  /\ pc' = "run"

\* The hand-off to another thread: CR3 and the current process follow it.
SwitchTo(next, st, rd, ps) ==
  /\ tstate' = [st EXCEPT ![next] = "running"]
  /\ ready' = rd
  /\ current' = next
  /\ pstate' = IF tpid[next] # 0 THEN process_set_current(ps, tpid[next])
                                 ELSE process_clear_current(ps)
  /\ current_pid' = tpid[next]
  /\ cr3' = tpid[next]
  /\ pc' = "run"

\* The branch for a thread whose process is gone: the thread becomes a zombie
\* and the old thread, wherever it is queued, is declared running.
RollBack(next, st, rd, ps) ==
  /\ tstate' = [st EXCEPT ![next] = "zombie", ![current] = "running"]
  /\ ready' = rd
  /\ pstate' = ps
  /\ pc' = "run"
  /\ UNCHANGED <<current, cr3, current_pid>>

\* Mutant: the old thread goes back to the head.
RequeueAtHead(rd) == <<current>> \o rd

\* ready_append() of the thread that gives up the CPU.
Requeue(rd) == Append(rd, current)

\* A reschedule is pending: a runnable current thread goes to the tail and the
\* head of the ready queue runs.  An empty queue halts the machine.
Dispatch(st, rd, ps) ==
  LET requeue == st[current] = "running"
      q  == IF requeue THEN Requeue(rd) ELSE rd
      st1 == IF requeue THEN [st EXCEPT ![current] = "ready"] ELSE st
      next == Head(q)
  IN /\ resched' = FALSE
     /\ IF q = <<>>
          THEN /\ tstate' = st1
               /\ pc' = "halted"
               /\ pstate' = ps
               /\ UNCHANGED <<current, ready, cr3, current_pid>>
        ELSE IF next = current
          THEN /\ tstate' = [st1 EXCEPT ![current] = "running"]
               /\ ready' = Tail(q)
               /\ pstate' = ps
               /\ pc' = "run"
               /\ UNCHANGED <<current, cr3, current_pid>>
        ELSE IF tpid[next] # 0 => Dispatchable(ps, tpid[next])
          THEN SwitchTo(next, st1, Tail(q), ps)
          ELSE RollBack(next, st1, Tail(q), ps)

scheduler_process ==
  /\ pc = "sched"
  /\ \E k \in 0..Len(sleep) :
       /\ DuePrefix(k)
       /\ sleep' = SubSeq(sleep, k + 1, Len(sleep))
       /\ IF resched
            THEN Dispatch(StateAfterReap(k), ReadyAfterWake(k), process_reap(ReapedPids))
            ELSE Resume(StateAfterReap(k), ReadyAfterWake(k), process_reap(ReapedPids))
  /\ ptid' = [p \in Pids |-> IF p \in ReapedPids THEN 0 ELSE ptid[p]]
  /\ zombie_count' = LET n == Cardinality(ReapedPids)
                     IN IF zombie_count >= n THEN zombie_count - n ELSE 0
  /\ wake_in' = [s \in Slots |-> IF s \in Reaped THEN 0 ELSE wake_in[s]]
  /\ UNCHANGED <<tid, tpid, waitq, quantum, next_tid, thread_count, next_pid,
                 process_count>>

-----------------------------------------------------------------------------
Next ==
  \/ TickIrq
  \/ thread_create
  \/ Launch
  \/ LaunchFails
  \/ thread_yield
  \/ MainLoopTick
  \/ \E ms \in SleepMs : thread_sleep_ms(ms)
  \/ \E q \in Queues : thread_block_on_wait_queue(q)
  \/ \E q \in Queues : WakeFirstWaiter(q)
  \/ \E s \in Slots : thread_wakeup(s)
  \/ thread_exit
  \/ UserExit
  \/ scheduler_process

Spec == Init /\ [][Next]_vars

-----------------------------------------------------------------------------
(* Safety *)

ReadyQueueOK == IsInjective(ready) /\ Range(ready) = {s \in Slots : tstate[s] = "ready"}

SleepListOK == IsInjective(sleep) /\ Range(sleep) = {s \in Slots : tstate[s] = "sleeping"}

WaitQueuesOK ==
  /\ \A q \in Queues : IsInjective(waitq[q])
  /\ \A q1, q2 \in Queues : \A id \in Range(waitq[q1]) : id \in Range(waitq[q2]) => q1 = q2
  /\ \A s \in Slots : tstate[s] = "blocked" => \E q \in Queues : tid[s] \in Range(waitq[q])
  /\ \A q \in Queues : \A id \in Range(waitq[q]) :
       \E s \in Slots : tstate[s] = "blocked" /\ tid[s] = id

OneRunning ==
  /\ \A s \in Slots : tstate[s] = "running" => s = current
  /\ pc = "run" => tstate[current] = "running"

\* Every TCB is in the one queue its state names, once: READY threads are the
\* ready queue, SLEEPING threads the sleep list, BLOCKED threads (by TID) are
\* in one wait queue each, and only the current thread may be RUNNING.
QueuesMatchStates == ReadyQueueOK /\ SleepListOK /\ WaitQueuesOK /\ OneRunning

\* The ready queue never runs dry while the machine is up: the boot thread is
\* always running or ready, so scheduler_process() never reaches its cli;hlt.
NeverHalts ==
  /\ tstate[Boot] \in {"running", "ready"}
  /\ pc # "halted"

\* The loaded CR3 and the current process are those of the current thread, and
\* that address space has not been destroyed: reaping waits for the switch.
ActiveAddressSpaceAlive ==
  /\ cr3 = tpid[current]
  /\ current_pid = tpid[current]
  /\ cr3 # 0 => pstate[cr3] # "unused"

\* A queued thread of a process always finds its process dispatchable, so the
\* roll-back of scheduler_process(), which would leave the old thread both
\* queued and running, is never taken; and a zombie thread's process is a
\* zombie it may reap, so no TCB slot is stuck.
ProcessFollowsThread ==
  \A s \in Slots :
    tstate[s] # "free" /\ tpid[s] # 0 =>
      /\ tstate[s] = "ready" => pstate[tpid[s]] = "ready"
      /\ tstate[s] = "running" => pstate[tpid[s]] = "running"
      /\ tstate[s] = "zombie" => pstate[tpid[s]] = "zombie" /\ ptid[tpid[s]] = tid[s]

\* TIDs and PIDs identify the threads in the table, whatever slot they sit in:
\* no two share one, a process names the thread that will reap it, and only
\* kernel threads sleep or block.
IdentitiesUnique ==
  /\ tid[Boot] = 0 /\ tpid[Boot] = 0
  /\ \A s \in Slots : tstate[s] # "free" =>
       /\ tid[s] < next_tid
       /\ tpid[s] < next_pid
       /\ tpid[s] # 0 => ptid[tpid[s]] = tid[s]
       /\ tstate[s] \in {"sleeping", "blocked"} => tpid[s] = 0
       /\ \A r \in Slots : tstate[r] # "free" /\ r # s =>
            /\ tid[r] # tid[s]
            /\ tpid[s] # 0 => tpid[r] # tpid[s]

\* A thread that put itself to sleep, blocked or ended has always asked for a
\* reschedule by the time scheduler_process() looks, so it never runs on.
LeavingThreadIsNoticed ==
  /\ tstate[current] \notin {"free", "ready"}
  /\ pc = "sched" /\ tstate[current] # "running" => resched

\* The sleep list is ordered by wake-up time, and a due sleeper is never left
\* waiting without a reschedule pending.
DueSleeperIsNoticed ==
  /\ \A i, j \in DOMAIN sleep : i < j => wake_in[sleep[i]] <= wake_in[sleep[j]]
  /\ (\E i \in DOMAIN sleep : wake_in[sleep[i]] = 0) => resched

\* The ready queue is first in, first out: of two threads that are queued
\* before and after a step, the order is kept, and a thread that joins goes
\* behind all that stay.
ReadyIsFifo ==
  [][\A s, r \in Slots, i, j \in DOMAIN ready' :
       /\ ready'[i] = s /\ ready'[j] = r /\ i < j
       /\ r \in Range(ready)
       => s \in Range(ready) /\
          \E a, b \in DOMAIN ready : ready[a] = s /\ ready[b] = r /\ a < b]_vars

\* scheduler_process() never wakes a thread before its time; only an explicit
\* thread_wakeup() may.
NoEarlyWake ==
  [][\A s \in Slots :
       pc = "sched" /\ tstate[s] = "sleeping" /\ tstate'[s] # "sleeping"
         => wake_in[s] = 0]_vars

\* A stack is given back only when its thread has left the CPU: a slot is freed
\* from ZOMBIE, by another thread.
OnlyOthersReap ==
  [][\A s \in Slots : tstate[s] # "free" /\ tstate'[s] = "free"
       => tstate[s] = "zombie" /\ s # current /\ s # current']_vars

-----------------------------------------------------------------------------
(* Liveness *)

\* The current thread, not the boot thread, gives up the CPU.
GivesUp ==
  /\ current # Boot
  /\ \/ thread_yield
     \/ \E ms \in SleepMs : thread_sleep_ms(ms)
     \/ \E q \in Queues : thread_block_on_wait_queue(q)
     \/ thread_exit
     \/ UserExit

\* The timer runs, a call of scheduler_process() completes, the boot thread's
\* main loop comes round, and every other thread gives up the CPU in the end:
\* the kernel's one service thread does (kernel_events_wait), and a cooperative
\* program exits.  Nothing in the kernel takes the CPU away from one that does
\* not: the end of a quantum only sets g_reschedule_pending.
CooperativeSpec ==
  /\ Spec
  /\ WF_vars(TickIrq)
  /\ WF_vars(scheduler_process)
  /\ WF_vars(MainLoopTick)
  /\ WF_vars(GivesUp)

\* Every thread ready_append() queues is picked by pick_next() in the end, so the
\* ready queue never runs dry either, which would halt the machine.
ReadyRuns == \A s \in Slots : tstate[s] = "ready" ~> tstate[s] = "running"

\* Every thread that ended is reclaimed by a later pass of reap_zombies(): its
\* TCB slot and, for a user thread, its process slot do not leak.
ZombieReclaimed == \A s \in Slots : tstate[s] = "zombie" ~> tstate[s] = "free"
=============================================================================
