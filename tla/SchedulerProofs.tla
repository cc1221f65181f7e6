---------------------------- MODULE SchedulerProofs ----------------------------
(***************************************************************************)
(* The theorems about Scheduler.tla: scheduler_process() keeps the         *)
(* inductive invariant IInv of SchedulerCalls.tla, so IInv holds for any   *)
(* number of threads, processes and wait queues and any timer rate, and    *)
(* the safety properties of Scheduler.tla follow.                          *)
(***************************************************************************)
EXTENDS SchedulerCalls

\* A leaf that names no prover is given to Zenon.
USE ZenonT(60)

-----------------------------------------------------------------------------
(* scheduler_process() *)

\* wake_due_threads() and reap_zombies(): the queues match the states again,
\* and no process of a thread that stays was reaped.
LEMMA AfterReap ==
  ASSUME IInv, NEW k \in 0..Len(sleep)
  PROVE  LET st == StateAfterReap(k)
             rd == ReadyAfterWake(k)
             sl == SubSeq(sleep, k + 1, Len(sleep))
         IN
         /\ st \in [Slots -> ThreadStates]
         /\ rd \in Seq(Slots) /\ IsInjective(rd) /\ Range(rd) = {s \in Slots : st[s] = "ready"}
         /\ sl \in Seq(Slots) /\ IsInjective(sl) /\ Range(sl) = {s \in Slots : st[s] = "sleeping"}
         /\ \A s \in Slots : st[s] # "free" => tstate[s] # "free"
         /\ \A s \in Slots : st[s] = "blocked" <=> tstate[s] = "blocked"
         /\ \A s \in Slots : st[s] = "running" <=> tstate[s] = "running"
         /\ \A s \in Slots : st[s] \notin {"free", "ready"} => st[s] = tstate[s]
         /\ \A s \in Slots : st[s] = "ready" => tstate[s] = "ready" \/ tpid[s] = 0
         /\ st[current] # "free" /\ st[Boot] = tstate[Boot]
<1> DEFINE st == StateAfterReap(k)
           rd == ReadyAfterWake(k)
           sl == SubSeq(sleep, k + 1, Len(sleep))
           due == {sleep[i] : i \in 1..k}
<1>1. /\ sleep \in Seq(Slots) /\ IsInjective(sleep) /\ ready \in Seq(Slots) /\ IsInjective(ready)
      /\ Range(sleep) = {s \in Slots : tstate[s] = "sleeping"}
      /\ Range(ready) = {s \in Slots : tstate[s] = "ready"}
      /\ tstate \in [Slots -> ThreadStates] /\ current \in Slots /\ Boot \in Slots
  BY Constants DEF IInv, TypeOK, QueuesMatchStates, SleepListOK, ReadyQueueOK
<1>2. /\ SubSeq(sleep, 1, k) \in Seq(Slots) /\ IsInjective(SubSeq(sleep, 1, k))
      /\ Range(SubSeq(sleep, 1, k)) = due
      /\ sl \in Seq(Slots) /\ IsInjective(sl) /\ Range(sl) = Range(sleep) \ due
  BY <1>1, SplitQueue, SMTT(60)
<1>3. due \subseteq Range(sleep)
  <2>1. Range(sleep) = {sleep[i] : i \in 1..Len(sleep)} BY <1>1, RangeOfQueue
  <2>2. Len(sleep) \in Nat BY <1>1, SeqFacts
  <2>3. QED BY <2>1, <2>2, SMTT(60)
<1>4. \A s \in Slots : st[s] = IF s \in Reaped THEN "free"
                               ELSE IF s \in due THEN "ready" ELSE tstate[s]
  BY DEF StateAfterReap
<1>5. \A s \in Slots : s \in due => tstate[s] = "sleeping"
  BY <1>1, <1>3
<1>6. \A s \in Reaped : s \in Slots /\ tstate[s] = "zombie" /\ s # current /\ s # Boot
  BY DEF Reaped
<1> HIDE DEF due
<1>7. st \in [Slots -> ThreadStates]
  BY <1>1 DEF StateAfterReap, ThreadStates
<1>8. IsInjective(rd) /\ rd \in Seq(Slots) /\ Range(rd) = Range(ready) \cup due
  <2>0. /\ \A s \in Range(ready) : tstate[s] = "ready"
        /\ \A s \in due : tstate[s] = "sleeping"
    BY <1>1, <1>3
  <2> DEFINE a == SubSeq(sleep, 1, k)
  <2>1. rd = ready \o a BY DEF ReadyAfterWake
  <2>2. ready \in Seq(Slots) /\ IsInjective(ready) BY <1>1
  <2>3. a \in Seq(Slots) /\ IsInjective(a) /\ Range(a) = due BY <1>2
  <2> HIDE DEF rd, a
  <2>4. Range(ready) \cap Range(a) = {} BY <2>0, <2>3
  <2>5. ready \o a \in Seq(Slots) /\ IsInjective(ready \o a)
        /\ Range(ready \o a) = Range(ready) \cup Range(a)
    BY <2>2, <2>3, <2>4, ConcatQueue, SMTT(60)
  <2>6. QED BY <2>1, <2>3, <2>5
<1>9. Range(rd) = {s \in Slots : st[s] = "ready"}
  BY <1>1, <1>3, <1>4, <1>5, <1>6, <1>8
<1>10. Range(sl) = {s \in Slots : st[s] = "sleeping"}
  BY <1>1, <1>2, <1>4, <1>5, <1>6
<1>11. \A s \in Slots : tstate[s] = "sleeping" => tpid[s] = 0
  BY DEF IInv, IdentitiesUnique
<1>12. tstate[Boot] \in {"running", "ready"} /\ tstate[current] # "free"
  BY DEF IInv, NeverHalts, LeavingThreadIsNoticed
<1>13. \A s \in Slots : st[s] = "ready" => tstate[s] = "ready" \/ tpid[s] = 0
  BY <1>4, <1>5, <1>6, <1>11
<1>14. st[current] # "free" /\ st[Boot] = tstate[Boot]
  BY <1>1, <1>4, <1>5, <1>6, <1>12
<1> HIDE DEF st, rd, sl
<1>15. /\ \A s \in Slots : st[s] # "free" => tstate[s] # "free"
       /\ \A s \in Slots : st[s] = "blocked" <=> tstate[s] = "blocked"
       /\ \A s \in Slots : st[s] = "running" <=> tstate[s] = "running"
       /\ \A s \in Slots : st[s] \notin {"free", "ready"} => st[s] = tstate[s]
  BY <1>4, <1>5, <1>6
<1>16. QED BY <1>2, <1>7, <1>8, <1>9, <1>10, <1>13, <1>14, <1>15 DEF st, rd, sl

\* reap_zombies() takes only the processes of the threads it frees.
LEMMA ReapSparesOthers ==
  ASSUME IInv, NEW s \in Slots, s \notin Reaped, tstate[s] # "free", tpid[s] # 0
  PROVE  tpid[s] \in Pids /\ tpid[s] \notin ReapedPids
<1>1. \A r \in Reaped : r \in Slots /\ tstate[r] = "zombie" /\ r # s
  BY DEF Reaped
<1>2. \A r \in Reaped : tpid[r] # tpid[s]
  BY <1>1 DEF IInv, IdentitiesUnique
<1>3. tpid[s] \in Pids
  BY ProcessAssumption, SMTT(60) DEF IInv, TypeOK, Pids
<1>4. QED BY <1>2, <1>3 DEF ReapedPids

\* The parts of a scheduler_process() step that do not depend on who runs next.
LEMMA ReapTypes ==
  ASSUME IInv, scheduler_process
  PROVE  /\ ptid' \in [Pids -> Nat] /\ next_pid' = next_pid
         /\ process_count' \in Int /\ zombie_count' \in Int
         /\ wake_in' \in [Slots -> Nat]
         /\ process_reap(ReapedPids) \in [Pids -> ProcStates]
<1>1. /\ ptid \in [Pids -> Nat] /\ wake_in \in [Slots -> Nat] /\ pstate \in [Pids -> ProcStates]
      /\ process_count \in Int /\ zombie_count \in Int
  BY DEF IInv, TypeOK, ProcTypeOK
<1>2. /\ ptid' = [p \in Pids |-> IF p \in ReapedPids THEN 0 ELSE ptid[p]]
      /\ wake_in' = [s \in Slots |-> IF s \in Reaped THEN 0 ELSE wake_in[s]]
      /\ process_count' = process_count /\ next_pid' = next_pid
      /\ zombie_count' = LET n == Cardinality(ReapedPids)
                         IN IF zombie_count >= n THEN zombie_count - n ELSE 0
  BY DEF scheduler_process
<1>3. Cardinality(ReapedPids) \in Nat
  <2>1. IsFiniteSet(Pids) BY ProcessAssumption, FS_Interval, SMTT(60) DEF Pids
  <2>2. ReapedPids \subseteq Pids
    BY ProcessAssumption, SMTT(60) DEF ReapedPids, Reaped, Pids, IInv, TypeOK
  <2>3. QED BY <2>1, <2>2, FS_Subset, FS_CardinalityType
<1>4. zombie_count' \in Int BY <1>1, <1>2, <1>3, SMTT(60)
<1>5. process_reap(ReapedPids) \in [Pids -> ProcStates]
  BY <1>1 DEF process_reap, ProcStates
<1>6. QED BY <1>1, <1>2, <1>4, <1>5

\* A step of scheduler_process() that leaves thread n running, every thread that
\* was running before ready, and the queues and the processes in step.
Landing(k, n, st1) ==
  /\ sleep' = SubSeq(sleep, k + 1, Len(sleep))
  /\ \A s \in Slots : st1[s] = IF StateAfterReap(k)[s] = "running" THEN "ready"
                               ELSE StateAfterReap(k)[s]
  /\ st1[n] = "ready"
  /\ tstate' = [st1 EXCEPT ![n] = "running"]
  /\ ready' \in Seq(Slots) /\ IsInjective(ready')
  /\ Range(ready') = {s \in Slots : st1[s] = "ready"} \ {n}
  /\ current' = n /\ pc' = "run" /\ resched' \in BOOLEAN
  /\ cr3' = tpid[n] /\ current_pid' = tpid[n]
  /\ pstate' \in [Pids -> ProcStates]
  /\ \A s \in Slots : tstate'[s] # "free" /\ tpid[s] # 0 =>
       pstate'[tpid[s]] = IF s = n THEN "running"
                          ELSE IF s = current /\ pstate[tpid[s]] = "running" THEN "ready"
                          ELSE pstate[tpid[s]]

\* Such a step keeps IInv.
LEMMA LandingIInv ==
  ASSUME IInv, scheduler_process, NEW k \in 0..Len(sleep), NEW n \in Slots,
         NEW st1 \in [Slots -> ThreadStates], Landing(k, n, st1)
  PROVE  IInv'
<1> DEFINE st == StateAfterReap(k)
<1>0. /\ sleep' = SubSeq(sleep, k + 1, Len(sleep))
      /\ \A s \in Slots : st1[s] = IF StateAfterReap(k)[s] = "running" THEN "ready"
                                   ELSE StateAfterReap(k)[s]
      /\ st1[n] = "ready"
      /\ tstate' = [st1 EXCEPT ![n] = "running"]
      /\ ready' \in Seq(Slots) /\ IsInjective(ready')
      /\ Range(ready') = {s \in Slots : st1[s] = "ready"} \ {n}
      /\ current' = n /\ pc' = "run"
      /\ cr3' = tpid[n] /\ current_pid' = tpid[n]
      /\ pstate' \in [Pids -> ProcStates]
      /\ \A s \in Slots : tstate'[s] # "free" /\ tpid[s] # 0 =>
           pstate'[tpid[s]] = IF s = n THEN "running"
                              ELSE IF s = current /\ pstate[tpid[s]] = "running" THEN "ready"
                              ELSE pstate[tpid[s]]
  BY DEF Landing
<1>r. resched' \in BOOLEAN BY DEF Landing
<1>1. /\ sleep' \in Seq(Slots) /\ IsInjective(sleep') /\ Range(sleep') = {s \in Slots : st[s] = "sleeping"}
      /\ \A s \in Slots : st[s] # "free" => tstate[s] # "free"
      /\ \A s \in Slots : st[s] = "blocked" <=> tstate[s] = "blocked"
      /\ \A s \in Slots : st[s] = "running" <=> tstate[s] = "running"
      /\ \A s \in Slots : st[s] \notin {"free", "ready"} => st[s] = tstate[s]
      /\ \A s \in Slots : st[s] = "ready" => tstate[s] = "ready" \/ tpid[s] = 0
      /\ st[current] # "free" /\ st[Boot] = tstate[Boot]
  BY <1>0, AfterReap
<1>2. \A s \in Slots : st[s] # "free" => s \notin Reaped
  BY DEF StateAfterReap
<1> HIDE DEF st
<1>3. \A s \in Slots : st1[s] = IF st[s] = "running" THEN "ready" ELSE st[s]
  BY <1>0 DEF st
<1>4. \A s \in Slots : tstate'[s] = IF s = n THEN "running" ELSE st1[s]
  BY <1>0
<1>5. tid' = tid /\ tpid' = tpid /\ waitq' = waitq /\ next_tid' = next_tid /\ next_pid' = next_pid
  BY DEF scheduler_process
<1>6. ReadyQueueOK'
  BY <1>0, <1>4 DEF ReadyQueueOK
<1>7. SleepListOK'
  BY <1>0, <1>1, <1>3, <1>4, SMTT(60) DEF SleepListOK
<1>8. WaitQueuesOK'
  BY <1>0, <1>1, <1>3, <1>4, <1>5, WaitQueuesFrame, SMTT(60) DEF IInv, QueuesMatchStates
<1>9. OneRunning'
  BY <1>0, <1>3, <1>4 DEF OneRunning
<1>10. NeverHalts'
  BY <1>0, <1>1, <1>3, <1>4, Constants, SMTT(60) DEF IInv, NeverHalts
<1>11. LeavingThreadIsNoticed'
  BY <1>0, <1>4 DEF LeavingThreadIsNoticed
<1>12. ActiveAddressSpaceAlive'
  BY <1>0, <1>4, <1>5 DEF ActiveAddressSpaceAlive
<1>13. \A s \in Slots : tstate'[s] # "free" =>
         /\ tstate[s] # "free" /\ s \notin Reaped
         /\ tpid[s] # 0 => ptid'[tpid[s]] = ptid[tpid[s]]
  <2> SUFFICES ASSUME NEW s \in Slots, tstate'[s] # "free"
               PROVE  /\ tstate[s] # "free" /\ s \notin Reaped
                      /\ tpid[s] # 0 => ptid'[tpid[s]] = ptid[tpid[s]]
    OBVIOUS
  <2>1. st[s] # "free" BY <1>0, <1>3, <1>4
  <2>2. tstate[s] # "free" /\ s \notin Reaped BY <1>1, <1>2, <2>1
  <2>3. tpid[s] # 0 => tpid[s] \in Pids /\ tpid[s] \notin ReapedPids
    BY <2>2, ReapSparesOthers
  <2>4. ptid' = [p \in Pids |-> IF p \in ReapedPids THEN 0 ELSE ptid[p]]
    BY DEF scheduler_process
  <2>5. QED BY <2>2, <2>3, <2>4
<1>14. IdentitiesUnique'
  <2>1. \A s \in Slots : tstate'[s] \in {"sleeping", "blocked"} => tstate[s] \in {"sleeping", "blocked"}
    BY <1>1, <1>3, <1>4, SMTT(60)
  <2>2. QED BY <1>5, <1>13, <2>1, SMTT(60) DEF IInv, IdentitiesUnique
<1>15. ProcessFollowsThread'
  <2> SUFFICES ASSUME NEW s \in Slots, tstate'[s] # "free", tpid[s] # 0
               PROVE  /\ tstate'[s] = "ready" => pstate'[tpid[s]] = "ready"
                      /\ tstate'[s] = "running" => pstate'[tpid[s]] = "running"
                      /\ tstate'[s] = "zombie" => pstate'[tpid[s]] = "zombie"
                                                  /\ ptid'[tpid[s]] = tid[s]
    BY <1>5 DEF ProcessFollowsThread
  <2>1. /\ tstate[s] = "ready" => pstate[tpid[s]] = "ready"
        /\ tstate[s] = "running" => pstate[tpid[s]] = "running" /\ s = current
        /\ tstate[s] = "zombie" => pstate[tpid[s]] = "zombie" /\ ptid[tpid[s]] = tid[s]
    BY <1>13 DEF IInv, ProcessFollowsThread, QueuesMatchStates, OneRunning
  <2>2. ptid'[tpid[s]] = ptid[tpid[s]] BY <1>13
  <2>3. CASE s = n BY <2>3, <1>0, <1>4
  <2>4. CASE s # n
    <3>1. tstate'[s] = st1[s] BY <2>4, <1>4
    <3>2. CASE st[s] = "running"
      BY <3>1, <3>2, <1>0, <1>1, <1>3, <2>1, <2>4, SMTT(60)
    <3>3. CASE st[s] # "running"
      <4>1. tstate'[s] = st[s] BY <3>1, <3>3, <1>3
      <4>2. st[s] = "ready" => tstate[s] = "ready" BY <1>1
      <4>3. st[s] = "zombie" => tstate[s] = "zombie" BY <1>1
      <4>4. QED BY <4>1, <4>2, <4>3, <1>0, <1>1, <2>1, <2>2, <2>4, <3>3, SMTT(60)
    <3>4. QED BY <3>2, <3>3
  <2>5. QED BY <2>3, <2>4
<1>16. ProcTypeOK'
  <2>1. tpid[n] \in 0..MaxPid BY DEF IInv, TypeOK
  <2>2. QED BY <2>1, <1>0, ReapTypes DEF IInv, TypeOK, ProcTypeOK
<1>17. TypeOK'
  <2>1. tstate' \in [Slots -> ThreadStates] BY <1>0 DEF ThreadStates
  <2>2. tpid[n] \in 0..MaxPid BY DEF IInv, TypeOK
  <2>3. /\ tid' \in [Slots -> Nat] /\ tpid' \in [Slots -> 0..MaxPid]
        /\ waitq' \in [Queues -> Seq(Nat)] /\ quantum' \in Nat \ {0}
        /\ next_tid' \in Nat \ {0} /\ thread_count' \in Int
    BY DEF scheduler_process, IInv, TypeOK
  <2>4. wake_in' \in [Slots -> Nat] BY ReapTypes
  <2>5. QED BY <1>0, <1>r, <1>1, <1>16, <2>1, <2>2, <2>3, <2>4 DEF TypeOK
<1>18. QED BY <1>6, <1>7, <1>8, <1>9, <1>10, <1>11, <1>12, <1>14, <1>15, <1>17
    DEF IInv, QueuesMatchStates

\* Every step of scheduler_process() is such a step: the ready queue is never
\* empty, and the roll-back is never taken.
LEMMA SchedulerProcessLands ==
  ASSUME IInv, scheduler_process
  PROVE  \E k \in 0..Len(sleep), n \in Slots, f \in [Slots -> ThreadStates] :
           DuePrefix(k) /\ Landing(k, n, f)
<1>1. PICK k \in 0..Len(sleep) :
        /\ DuePrefix(k)
        /\ sleep' = SubSeq(sleep, k + 1, Len(sleep))
        /\ IF resched
             THEN Dispatch(StateAfterReap(k), ReadyAfterWake(k), process_reap(ReapedPids))
             ELSE Resume(StateAfterReap(k), ReadyAfterWake(k), process_reap(ReapedPids))
  BY DEF scheduler_process
<1> DEFINE st == StateAfterReap(k)
           rd == ReadyAfterWake(k)
           ps == process_reap(ReapedPids)
           requeue == st[current] = "running"
           q == IF requeue THEN Append(rd, current) ELSE rd
           st1 == IF requeue THEN [st EXCEPT ![current] = "ready"] ELSE st
<1>2. /\ st \in [Slots -> ThreadStates]
      /\ rd \in Seq(Slots) /\ IsInjective(rd) /\ Range(rd) = {s \in Slots : st[s] = "ready"}
      /\ \A s \in Slots : st[s] # "free" => tstate[s] # "free"
      /\ \A s \in Slots : st[s] = "running" <=> tstate[s] = "running"
      /\ \A s \in Slots : st[s] = "ready" => tstate[s] = "ready" \/ tpid[s] = 0
      /\ st[current] # "free" /\ st[Boot] = tstate[Boot]
  BY AfterReap
<1>3. /\ current \in Slots /\ Boot \in Slots /\ cr3 = tpid[current] /\ current_pid = tpid[current]
      /\ \A s \in Slots : st[s] = "running" => s = current
      /\ tpid \in [Slots -> 0..MaxPid]
  BY <1>2, Constants DEF IInv, TypeOK, QueuesMatchStates, OneRunning, ActiveAddressSpaceAlive
<1>4. \A s \in Slots : st[s] # "free" /\ tpid[s] # 0 =>
        tpid[s] \in Pids /\ ps[tpid[s]] = pstate[tpid[s]]
  <2> SUFFICES ASSUME NEW s \in Slots, st[s] # "free", tpid[s] # 0
               PROVE  tpid[s] \in Pids /\ ps[tpid[s]] = pstate[tpid[s]]
    OBVIOUS
  <2>1. s \notin Reaped BY DEF StateAfterReap
  <2>2. tpid[s] \in Pids /\ tpid[s] \notin ReapedPids
    BY <1>2, <2>1, ReapSparesOthers
  <2>3. QED BY <2>2 DEF process_reap
<1>5. ps \in [Pids -> ProcStates]
  BY ReapTypes
<1>6. IF resched THEN Dispatch(st, rd, ps) ELSE Resume(st, rd, ps)
  BY <1>1
<1>7. \A s \in Slots : st[s] # "free" /\ tpid[s] # 0 =>
        /\ st[s] = "ready" => ps[tpid[s]] = "ready"
        /\ st[s] = "running" => ps[tpid[s]] = "running"
  BY <1>2, <1>4 DEF IInv, ProcessFollowsThread
<1> HIDE DEF st, rd, ps
<1>8. /\ st1 \in [Slots -> ThreadStates]
      /\ \A s \in Slots : st1[s] = IF st[s] = "running" THEN "ready" ELSE st[s]
      /\ q \in Seq(Slots) /\ IsInjective(q) /\ Range(q) = {s \in Slots : st1[s] = "ready"}
  <2>1. CASE requeue
    <3>1. current \notin Range(rd) BY <1>2, <2>1
    <3>2. q = Append(rd, current) /\ st1 = [st EXCEPT ![current] = "ready"] BY <2>1
    <3>3. q \in Seq(Slots) /\ IsInjective(q) /\ Range(q) = Range(rd) \cup {current}
      BY <1>2, <1>3, <3>1, <3>2, AppendQueue, SMTT(60)
    <3>4. \A s \in Slots : st1[s] = IF s = current THEN "ready" ELSE st[s]
      BY <1>2, <3>2
    <3>5. st1 \in [Slots -> ThreadStates] BY <1>2, <3>2 DEF ThreadStates
    <3> HIDE DEF q, st1
    <3>6. QED BY <1>2, <1>3, <2>1, <3>3, <3>4, <3>5, SMTT(60)
  <2>2. CASE ~requeue
    <3>1. q = rd /\ st1 = st BY <2>2
    <3> HIDE DEF q, st1
    <3>2. \A s \in Slots : st[s] # "running" BY <1>3, <2>2
    <3>3. QED BY <1>2, <3>1, <3>2
  <2>3. QED BY <2>1, <2>2
<1>9. CASE ~resched
  <2>1. tstate' = st /\ ready' = rd /\ pstate' = ps /\ pc' = "run"
        /\ current' = current /\ resched' = resched /\ cr3' = cr3 /\ current_pid' = current_pid
    BY <1>6, <1>9 DEF Resume
  <2>2. st[current] = "running"
    <3>1. pc = "sched" BY DEF scheduler_process
    <3>2. tstate[current] = "running"
      BY <1>9, <3>1 DEF IInv, LeavingThreadIsNoticed
    <3>3. QED BY <1>2, <1>3, <3>2
  <2> HIDE DEF q, st1
  <2>3. tstate' = [st1 EXCEPT ![current] = "running"]
    <3>1. \A s \in Slots : st[s] = [st1 EXCEPT ![current] = "running"][s]
      BY <1>3, <1>8, <2>2
    <3>2. [st1 EXCEPT ![current] = "running"] \in [Slots -> ThreadStates]
      BY <1>8 DEF ThreadStates
    <3>3. QED BY <1>2, <2>1, <3>1, <3>2
  <2>4. Range(ready') = {s \in Slots : st1[s] = "ready"} \ {current}
    BY <1>2, <1>3, <1>8, <2>1, <2>2, SMTT(60)
  <2>5. \A s \in Slots : tstate'[s] # "free" /\ tpid[s] # 0 =>
          pstate'[tpid[s]] = IF s = current THEN "running" ELSE pstate[tpid[s]]
    BY <1>4, <1>7, <2>1, <2>2
  <2>6. resched' \in BOOLEAN BY <2>1 DEF IInv, TypeOK
  <2>7. st1[current] = "ready" BY <1>3, <1>8, <2>2
  <2>8. /\ sleep' = SubSeq(sleep, k + 1, Len(sleep))
        /\ \A s \in Slots : st1[s] = IF StateAfterReap(k)[s] = "running" THEN "ready"
                                     ELSE StateAfterReap(k)[s]
    BY <1>1, <1>8 DEF st
  <2>9. Landing(k, current, st1)
    BY <1>2, <1>3, <1>5, <2>1, <2>3, <2>4, <2>5, <2>6, <2>7, <2>8, SMTT(60) DEF Landing
  <2>10. QED BY <1>1, <1>3, <1>8, <2>9
<1>10. CASE resched
  <2>1. Dispatch(st, rd, ps) BY <1>6, <1>10
  <2>2. q # <<>>
    <3>1. st1[Boot] = "ready" BY <1>2, <1>3, <1>8 DEF IInv, NeverHalts
    <3> HIDE DEF q, st1
    <3>2. Boot \in Range(q) BY <1>3, <1>8, <3>1
    <3>3. q = <<>> => Range(q) = {} BY <1>8, RangeOfQueue, EmptyFacts
    <3>4. QED BY <3>2, <3>3
  <2> DEFINE n == Head(q)
  <2>3. /\ n \in Slots /\ st1[n] = "ready" /\ Tail(q) \in Seq(Slots) /\ IsInjective(Tail(q))
        /\ Range(Tail(q)) = {s \in Slots : st1[s] = "ready"} \ {n}
    <3> HIDE DEF q, st1
    <3>1. QED BY <1>8, <2>2, TailQueue
  <2>4. n # current => (tpid[n] # 0 => Dispatchable(ps, tpid[n]))
    <3>1. n # current => st[n] = "ready" BY <1>3, <1>8, <2>3
    <3>2. QED BY <1>7, <2>3, <3>1 DEF Dispatchable
  <2>5. /\ tstate' = [st1 EXCEPT ![n] = "running"] /\ ready' = Tail(q)
        /\ current' = n /\ pc' = "run" /\ resched' = FALSE
        /\ cr3' = tpid[n] /\ current_pid' = tpid[n]
        /\ pstate' = IF n = current THEN ps
                     ELSE IF tpid[n] # 0 THEN process_set_current(ps, tpid[n])
                     ELSE process_clear_current(ps)
    <3>1. CASE n = current
      BY <1>3, <2>1, <2>2, <3>1 DEF Dispatch, Requeue
    <3>2. CASE n # current
      BY <2>1, <2>2, <2>4, <3>2 DEF Dispatch, Requeue, SwitchTo
    <3>3. QED BY <3>1, <3>2
  <2> HIDE DEF q, st1, n
  <2>6. pstate' \in [Pids -> ProcStates]
    BY <1>5, <2>5 DEF process_set_current, process_clear_current, ProcStates
  <2>7. \A s \in Slots : tstate'[s] # "free" => st[s] # "free"
    BY <1>8, <2>3, <2>5
  <2>8. ASSUME NEW s \in Slots, tstate'[s] # "free", tpid[s] # 0
        PROVE  pstate'[tpid[s]] = IF s = n THEN "running"
                                  ELSE IF s = current /\ pstate[tpid[s]] = "running" THEN "ready"
                                  ELSE pstate[tpid[s]]
    <3>1. tpid[s] \in Pids /\ ps[tpid[s]] = pstate[tpid[s]] BY <1>4, <2>7, <2>8
    <3>2. tstate[s] # "free" /\ tstate[n] # "free" /\ tstate[current] # "free"
      BY <1>2, <1>3, <1>8, <2>3, <2>7, <2>8
    <3>3. \A r \in Slots : r # s /\ tstate[r] # "free" => tpid[r] # tpid[s]
      BY <2>8, <3>2 DEF IInv, IdentitiesUnique
    <3>4. CASE n = current /\ s = n
      <4>1. st[s] = "running"
        BY <3>4, <1>2, <1>3, <1>8, <2>3, <2>8 DEF IInv, LeavingThreadIsNoticed
      <4>2. QED BY <4>1, <3>4, <2>5, <1>7, <2>8
    <3>5. CASE n = current /\ s # n
      BY <3>1, <3>5, <2>5
    <3>6. CASE n # current /\ s = n
      BY <3>1, <3>6, <2>5, <2>8 DEF process_set_current
    <3>7. CASE n # current /\ s # n
      <4>1. tpid[n] # tpid[s] /\ (s = current <=> tpid[s] = current_pid)
        BY <3>2, <3>3, <3>7, <1>3, <2>3
      <4>2. pstate'[tpid[s]] = IF tpid[s] = current_pid /\ ps[tpid[s]] = "running"
                               THEN "ready" ELSE ps[tpid[s]]
        BY <3>1, <3>7, <4>1, <2>5 DEF process_set_current, process_clear_current
      <4>3. QED BY <3>1, <3>7, <4>1, <4>2, SMTT(60)
    <3>8. QED BY <3>4, <3>5, <3>6, <3>7
  <2>9. resched' \in BOOLEAN BY <2>5
  <2>10. /\ sleep' = SubSeq(sleep, k + 1, Len(sleep))
         /\ \A s \in Slots : st1[s] = IF StateAfterReap(k)[s] = "running" THEN "ready"
                                      ELSE StateAfterReap(k)[s]
    BY <1>1, <1>8 DEF st
  <2>11. /\ ready' \in Seq(Slots) /\ IsInjective(ready')
         /\ Range(ready') = {s \in Slots : st1[s] = "ready"} \ {n}
    BY <2>3, <2>5
  <2>12. Landing(k, n, st1)
    BY <2>3, <2>5, <2>6, <2>8, <2>9, <2>10, <2>11 DEF Landing
  <2>13. QED BY <1>1, <1>8, <2>3, <2>12
<1>11. QED BY <1>9, <1>10

\* scheduler_process() keeps IInv.
LEMMA SchedulerProcessIInv == IInv /\ scheduler_process => IInv'
BY SchedulerProcessLands, LandingIInv

\* scheduler_process() moves threads between READY and RUNNING, wakes sleepers
\* and frees zombies; it blocks and unblocks nobody.
LEMMA SchedulerProcessMoves ==
  ASSUME IInv, scheduler_process
  PROVE  /\ tid' = tid /\ waitq' = waitq /\ next_tid' = next_tid
         /\ \A s \in Slots :
              /\ tstate'[s] = "blocked" <=> tstate[s] = "blocked"
              /\ tstate[s] \in {"ready", "running"} => tstate'[s] \in {"ready", "running"}
              /\ tstate'[s] \in {"free", "zombie"} <=> tstate[s] \in {"free", "zombie"}
              /\ tstate'[s] = "free" \/ tstate[s] # "free"
<1>1. PICK k \in 0..Len(sleep), n \in Slots, f \in [Slots -> ThreadStates] : Landing(k, n, f)
  BY SchedulerProcessLands
<1>2. tid' = tid /\ waitq' = waitq /\ next_tid' = next_tid
  BY DEF scheduler_process
<1>3. /\ \A s \in Slots : f[s] = IF StateAfterReap(k)[s] = "running" THEN "ready"
                                 ELSE StateAfterReap(k)[s]
      /\ f[n] = "ready"
      /\ tstate' = [f EXCEPT ![n] = "running"]
  BY <1>1 DEF Landing
<1>4. \A s \in Slots : tstate'[s] = IF s = n THEN "running" ELSE f[s]
  BY <1>3
<1>5. \A i \in 1..k : sleep[i] \in Slots /\ tstate[sleep[i]] = "sleeping"
  <2>1. sleep \in Seq(Slots) /\ Range(sleep) = {s \in Slots : tstate[s] = "sleeping"}
    BY DEF IInv, TypeOK, QueuesMatchStates, SleepListOK
  <2>2. \A i \in 1..Len(sleep) : sleep[i] \in Range(sleep)
    BY <2>1, RangeOfQueue, SMTT(60)
  <2>3. \A i \in 1..k : i \in 1..Len(sleep)
    BY <2>1, SeqFacts, SMTT(60)
  <2> QED
    BY <2>1, <2>2, <2>3
<1>6. \A s \in Slots : StateAfterReap(k)[s] =
         IF s \in Reaped THEN "free"
         ELSE IF \E i \in 1..k : sleep[i] = s THEN "ready" ELSE tstate[s]
  BY DEF StateAfterReap
<1>7. \A s \in Reaped : tstate[s] = "zombie"
  BY DEF Reaped
<1>8. \A s \in Slots : \/ tstate[s] = "zombie" /\ StateAfterReap(k)[s] = "free"
                       \/ tstate[s] = "sleeping" /\ StateAfterReap(k)[s] = "ready"
                       \/ StateAfterReap(k)[s] = tstate[s]
  BY <1>5, <1>6, <1>7, SMTT(60)
<1> HIDE DEF StateAfterReap
<1>9. tstate[n] \in {"ready", "running", "sleeping"}
  BY <1>3, <1>8
<1> QED
  BY <1>2, <1>3, <1>4, <1>8, <1>9

\* Two threads in the table with the same TID are the same thread.
LEMMA SameTid ==
  ASSUME IInv, NEW s \in Slots, NEW r \in Slots,
         tstate[s] # "free", tstate[r] # "free", tid[s] = tid[r]
  PROVE  s = r
BY DEF IInv, IdentitiesUnique

-----------------------------------------------------------------------------
(* The theorems *)

\* IInv is inductive.
LEMMA NextIInv == IInv /\ [Next]_vars => IInv'
<1> SUFFICES ASSUME IInv, [Next]_vars PROVE IInv' OBVIOUS
<1>1. CASE TickIrq BY <1>1, TickIrqIInv
<1>2. CASE thread_create BY <1>2, ThreadCreateIInv
<1>3. CASE Launch BY <1>3, LaunchIInv
<1>4. CASE LaunchFails BY <1>4, LaunchFailsIInv
<1>5. CASE thread_yield BY <1>5, YieldIInv
<1>6. CASE MainLoopTick BY <1>6, MainLoopTickIInv
<1>7. CASE \E ms \in SleepMs : thread_sleep_ms(ms) BY <1>7, SleepIInv
<1>8. CASE \E q \in Queues : thread_block_on_wait_queue(q) BY <1>8, BlockIInv
<1>9. CASE \E q \in Queues : WakeFirstWaiter(q) BY <1>9, WakeFirstWaiterIInv
<1>10. CASE \E s \in Slots : thread_wakeup(s) BY <1>10, WakeupIInv, SMTT(60)
<1>11. CASE thread_exit BY <1>11, ThreadExitIInv
<1>12. CASE UserExit BY <1>12, UserExitIInv
<1>13. CASE scheduler_process BY <1>13, SchedulerProcessIInv
<1>14. CASE UNCHANGED vars
  <2> USE <1>14 DEF vars, threadVars, procVars, IInv
  <2>1. TypeOK' BY DEF TypeOK, ProcTypeOK
  <2>2. ReadyQueueOK' /\ SleepListOK'
    BY ListsFrame DEF QueuesMatchStates
  <2>3. WaitQueuesOK'
    BY WaitQueuesFrame DEF QueuesMatchStates
  <2>a. OneRunning'
    BY DEF QueuesMatchStates, OneRunning
  <2>4. NeverHalts' /\ ActiveAddressSpaceAlive' /\ LeavingThreadIsNoticed'
    BY DEF NeverHalts, ActiveAddressSpaceAlive, LeavingThreadIsNoticed
  <2>5. ProcessFollowsThread' BY DEF ProcessFollowsThread
  <2>6. IdentitiesUnique' BY DEF IdentitiesUnique
  <2>7. QED BY <2>1, <2>2, <2>3, <2>a, <2>4, <2>5, <2>6, SMTT(60) DEF QueuesMatchStates
<1>15. QED
  BY <1>1, <1>2, <1>3, <1>4, <1>5, <1>6, <1>7, <1>8, <1>9, <1>10, <1>11, <1>12, <1>13,
     <1>14 DEF Next

\* IInv holds in every reachable state, for any table sizes and any timer rate.
THEOREM SpecIInv == Spec => []IInv
BY InitIInv, NextIInv, PTL DEF Spec

\* Every field of scheduler.c and process.c keeps its range.
THEOREM SpecTypeOK == Spec => []TypeOK
<1>1. IInv => TypeOK BY DEF IInv
<1>2. QED BY <1>1, SpecIInv, PTL

\* Every TCB is on the list its state names and on no other, whatever the
\* number of threads, sleeps, wake-ups and exits.
THEOREM SpecQueuesMatchStates == Spec => []QueuesMatchStates
<1>1. IInv => QueuesMatchStates BY DEF IInv
<1>2. QED BY <1>1, SpecIInv, PTL

\* scheduler_process() never reaches the cli;hlt of an empty ready queue.
THEOREM SpecNeverHalts == Spec => []NeverHalts
<1>1. IInv => NeverHalts BY DEF IInv
<1>2. QED BY <1>1, SpecIInv, PTL

\* The loaded CR3 is never that of a reaped process, and is always that of the
\* current thread.
THEOREM SpecActiveAddressSpaceAlive == Spec => []ActiveAddressSpaceAlive
<1>1. IInv => ActiveAddressSpaceAlive BY DEF IInv
<1>2. QED BY <1>1, SpecIInv, PTL

\* The scheduler never meets a queued thread without a dispatchable process:
\* the roll-back branch of scheduler_process() is dead code.
THEOREM SpecProcessFollowsThread == Spec => []ProcessFollowsThread
<1>1. IInv => ProcessFollowsThread BY DEF IInv
<1>2. QED BY <1>1, SpecIInv, PTL

\* TIDs and PIDs identify the threads of the table although slots are reused.
THEOREM SpecIdentitiesUnique == Spec => []IdentitiesUnique
<1>1. IInv => IdentitiesUnique BY DEF IInv
<1>2. QED BY <1>1, SpecIInv, PTL

\* A TCB and its stack are freed only from ZOMBIE and never under the thread
\* that is running, before or after the step.
THEOREM SpecOnlyOthersReap == Spec => OnlyOthersReap
<1> DEFINE A == \A s \in Slots : tstate[s] # "free" /\ tstate'[s] = "free"
                  => tstate[s] = "zombie" /\ s # current /\ s # current'
<1>1. IInv /\ IInv' /\ [Next]_vars => [A]_vars
  <2> SUFFICES ASSUME IInv, IInv', Next, NEW s \in Slots,
                      tstate[s] # "free", tstate'[s] = "free"
               PROVE  tstate[s] = "zombie" /\ s # current /\ s # current'
    OBVIOUS
  <2>1. tstate \in [Slots -> ThreadStates] /\ current \in Slots
    BY DEF IInv, TypeOK
  <2>2. scheduler_process
    BY <2>1 DEF Next, TickIrq, thread_create, Launch, LaunchFails, thread_yield, MainLoopTick,
                thread_sleep_ms, thread_block_on_wait_queue, WakeFirstWaiter, thread_wakeup,
                thread_exit, UserExit, NewThread, EnterScheduler, threadVars
  <2>3. PICK k \in 0..Len(sleep), n \in Slots, f \in [Slots -> ThreadStates] : Landing(k, n, f)
    BY <2>2, SchedulerProcessLands
  <2>4. StateAfterReap(k)[s] = "free"
    BY <2>3 DEF Landing
  <2>5. s \in Reaped
    BY <2>4 DEF StateAfterReap
  <2>6. s # current'
    BY DEF IInv, LeavingThreadIsNoticed
  <2>7. QED BY <2>5, <2>6 DEF Reaped
<1>2. QED BY <1>1, SpecIInv, PTL DEF Spec, OnlyOthersReap

\* The timer path wakes no thread before its wake_tick.
THEOREM SpecNoEarlyWake == Spec => NoEarlyWake
<1> DEFINE A == \A s \in Slots :
                  pc = "sched" /\ tstate[s] = "sleeping" /\ tstate'[s] # "sleeping"
                    => wake_in[s] = 0
<1>1. IInv /\ [Next]_vars => [A]_vars
  <2> SUFFICES ASSUME IInv, Next, NEW s \in Slots, pc = "sched",
                      tstate[s] = "sleeping", tstate'[s] # "sleeping"
               PROVE  wake_in[s] = 0
    OBVIOUS
  <2>1. scheduler_process
    BY DEF Next, TickIrq, thread_create, Launch, LaunchFails, thread_yield, MainLoopTick,
           thread_sleep_ms, thread_block_on_wait_queue, WakeFirstWaiter, thread_wakeup,
           thread_exit, UserExit, KernelThread, UserThread, Running
  <2>2. PICK k \in 0..Len(sleep), n \in Slots, f \in [Slots -> ThreadStates] :
          DuePrefix(k) /\ Landing(k, n, f)
    BY <2>1, SchedulerProcessLands
  <2>3. StateAfterReap(k)[s] # "sleeping"
    BY <2>2 DEF Landing
  <2>4. s \notin Reaped
    BY DEF Reaped
  <2>5. \E i \in 1..k : sleep[i] = s
    BY <2>3, <2>4 DEF StateAfterReap
  <2>6. QED BY <2>2, <2>5 DEF DuePrefix
<1>2. QED BY <1>1, SpecIInv, PTL DEF Spec, NoEarlyWake

-----------------------------------------------------------------------------
(* The sleep list is sorted *)

\* What IInv says of the sleep list.
LEMMA SleepFacts ==
  ASSUME IInv
  PROVE  /\ sleep \in Seq(Slots) /\ Len(sleep) \in Nat /\ DOMAIN sleep = 1..Len(sleep)
         /\ wake_in \in [Slots -> Nat] /\ current \in Slots
         /\ \A i \in 1..Len(sleep) : sleep[i] \in Slots /\ tstate[sleep[i]] = "sleeping"
<1>1. /\ sleep \in Seq(Slots) /\ wake_in \in [Slots -> Nat] /\ current \in Slots
      /\ Range(sleep) = {s \in Slots : tstate[s] = "sleeping"}
  BY DEF IInv, TypeOK, QueuesMatchStates, SleepListOK
<1>2. \A i \in 1..Len(sleep) : sleep[i] \in Range(sleep)
  BY <1>1, RangeOfQueue, SMTT(60)
<1> QED
  BY <1>1, <1>2, SeqFacts

\* A step that leaves the list and its wake-up times alone.
LEMMA SleepFrame ==
  ASSUME IInv, DueSleeperIsNoticed, sleep' = sleep, resched => resched',
         \A s \in Slots : tstate[s] = "sleeping" => wake_in'[s] = wake_in[s]
  PROVE  DueSleeperIsNoticed'
<1>1. \A i \in DOMAIN sleep : wake_in'[sleep[i]] = wake_in[sleep[i]]
  BY SleepFacts
<1> QED
  BY <1>1 DEF DueSleeperIsNoticed

\* A tick brings all wake-up times nearer; the hint looks at the first of them.
LEMMA TickKeepsOrder ==
  ASSUME IInv, DueSleeperIsNoticed, TickIrq
  PROVE  DueSleeperIsNoticed'
<1>1. /\ sleep' = sleep
      /\ \A s \in Slots : wake_in'[s] = IF wake_in[s] > 0 THEN wake_in[s] - 1 ELSE 0
      /\ resched' = (resched \/ quantum = 1 \/ (sleep # <<>> /\ wake_in'[Head(sleep)] = 0))
  BY DEF TickIrq
<1>2. \A i \in 1..Len(sleep) : /\ wake_in[sleep[i]] \in Nat
                               /\ wake_in'[sleep[i]] = IF wake_in[sleep[i]] > 0
                                                       THEN wake_in[sleep[i]] - 1 ELSE 0
  BY <1>1, SleepFacts
<1>3. \A i, j \in 1..Len(sleep) : i < j => wake_in[sleep[i]] <= wake_in[sleep[j]]
  BY SleepFacts DEF DueSleeperIsNoticed
<1>4. \A i, j \in 1..Len(sleep) : i < j => wake_in'[sleep[i]] <= wake_in'[sleep[j]]
  <2> SUFFICES ASSUME NEW i \in 1..Len(sleep), NEW j \in 1..Len(sleep), i < j
               PROVE  wake_in'[sleep[i]] <= wake_in'[sleep[j]]
    OBVIOUS
  <2>1. wake_in[sleep[i]] <= wake_in[sleep[j]]
    BY <1>3
  <2> QED
    BY <2>1, <1>2, SMTT(60)
<1>5. ASSUME NEW i \in 1..Len(sleep), wake_in'[sleep[i]] = 0 PROVE resched'
  <2>1. Len(sleep) \in Nat /\ 1 \in 1..Len(sleep) /\ Head(sleep) = sleep[1] /\ sleep # <<>>
    BY SleepFacts, SMTT(60)
  <2>2. wake_in'[sleep[1]] \in Nat /\ (i = 1 \/ wake_in'[sleep[1]] <= wake_in'[sleep[i]])
    BY <1>2, <1>4, <2>1, SMTT(60)
  <2>3. wake_in'[Head(sleep)] = 0
    BY <1>5, <2>1, <2>2, SMTT(60)
  <2> QED
    BY <1>1, <2>1, <2>3
<1> QED
  BY <1>1, <1>4, <1>5, SleepFacts DEF DueSleeperIsNoticed

\* sleep_insert() keeps the list sorted.
LEMMA SleepKeepsOrder ==
  ASSUME IInv, DueSleeperIsNoticed, NEW ms \in SleepMs, thread_sleep_ms(ms)
  PROVE  DueSleeperIsNoticed'
<1> DEFINE w == SleepTicks(ms)
           n == Len(sleep)
<1>1. PICK k \in 0..n : /\ InsertsAfter(k, w)
                        /\ sleep' = SubSeq(sleep, 1, k) \o <<current>> \o SubSeq(sleep, k + 1, n)
  BY DEF thread_sleep_ms
<1>2. /\ pc = "run" /\ wake_in' = [wake_in EXCEPT ![current] = w] /\ resched' = TRUE
  BY DEF thread_sleep_ms, EnterScheduler, KernelThread, Running
<1>3. tstate[current] = "running"
  BY <1>2 DEF IInv, QueuesMatchStates, OneRunning
<1>4. n \in Nat /\ k \in Nat /\ k <= n /\ w \in Nat
  BY SleepFacts, Constants, SMTT(60)
<1>5. /\ Len(sleep') = n + 1
      /\ \A i \in 1..k : sleep'[i] = sleep[i]
      /\ sleep'[k + 1] = current
      /\ \A i \in (k + 1)..n : sleep'[i + 1] = sleep[i]
  <2>1. sleep \in Seq(Slots) /\ k \in 0..Len(sleep) /\ current \in Slots
    BY SleepFacts
  <2>2. sleep' = Inserted(sleep, k, current)
    BY <1>1 DEF Inserted
  <2> QED
    BY <2>1, <2>2, InsertElements, SMTT(60)
<1>6. DOMAIN sleep' = 1..(n + 1)
  <2>1. current \notin Range(sleep) /\ IsInjective(sleep)
    BY <1>3 DEF IInv, QueuesMatchStates, SleepListOK
  <2>2. sleep' \in Seq(Slots)
    BY <1>1, <2>1, SleepFacts, InsertQueue
  <2> QED
    BY <1>5, <2>2, SeqFacts
<1> DEFINE v(i) == wake_in[sleep[i]]
<1>7. \A i \in 1..n : v(i) \in Nat /\ wake_in'[sleep[i]] = v(i)
  BY <1>2, <1>3, SleepFacts
<1>8. wake_in'[current] = w
  BY <1>2, SleepFacts
<1>9. \A i, j \in 1..n : i < j => v(i) <= v(j)
  BY SleepFacts DEF DueSleeperIsNoticed
<1>10. (\A i \in 1..k : v(i) <= w) /\ (k < n => v(k + 1) > w)
  BY <1>1 DEF InsertsAfter
<1> HIDE DEF v, w, n
<1>11. \A i \in (k + 1)..n : v(i) > w
  <2> TAKE i \in (k + 1)..n
  <2>1. k + 1 \in 1..n /\ i \in 1..n /\ v(k + 1) > w /\ (k + 1 = i \/ k + 1 < i)
    BY <1>4, <1>10, SMTT(60)
  <2> QED
    BY <2>1, <1>4, <1>7, <1>9, SMTT(60)
<1>12. \A i \in 1..(n + 1) :
         wake_in'[sleep'[i]] = IF i <= k THEN v(i) ELSE IF i = k + 1 THEN w ELSE v(i - 1)
  <2> TAKE i \in 1..(n + 1)
  <2>1. CASE i <= k
    <3>1. i \in 1..n /\ sleep'[i] = sleep[i]
      BY <2>1, <1>4, <1>5, SMTT(60)
    <3> QED
      BY <2>1, <3>1, <1>7
  <2>2. CASE i = k + 1
    <3>1. ~(i <= k) /\ sleep'[i] = current
      BY <2>2, <1>4, <1>5, SMTT(60)
    <3> QED
      BY <2>2, <3>1, <1>8
  <2>3. CASE i > k + 1
    <3>1. ~(i <= k) /\ i # k + 1 /\ i - 1 \in 1..n /\ i - 1 \in (k + 1)..n /\ i - 1 + 1 = i
      BY <2>3, <1>4, SMTT(60)
    <3>2. sleep'[i] = sleep[i - 1]
      BY <3>1, <1>5, SMTT(60)
    <3> QED
      BY <3>1, <3>2, <1>7
  <2> QED
    BY <2>1, <2>2, <2>3, <1>4, SMTT(60)
<1>13. \A i, j \in 1..(n + 1) : i < j => wake_in'[sleep'[i]] <= wake_in'[sleep'[j]]
  <2> SUFFICES ASSUME NEW i \in 1..(n + 1), NEW j \in 1..(n + 1), i < j
               PROVE  wake_in'[sleep'[i]] <= wake_in'[sleep'[j]]
    OBVIOUS
  <2>1. CASE j <= k
    BY <2>1, <1>4, <1>9, <1>12, SMTT(60)
  <2>2. CASE j = k + 1
    BY <2>2, <1>4, <1>10, <1>12, SMTT(60)
  <2>3. CASE j > k + 1
    <3>1. j - 1 \in 1..n /\ j - 1 \in (k + 1)..n /\ v(j - 1) > w /\ v(j - 1) \in Nat
      BY <2>3, <1>4, <1>7, <1>11, SMTT(60)
    <3>2. CASE i <= k
      BY <2>3, <3>1, <3>2, <1>4, <1>9, <1>12, SMTT(60)
    <3>3. CASE i = k + 1
      BY <2>3, <3>1, <3>3, <1>4, <1>12, SMTT(60)
    <3>4. CASE i > k + 1
      BY <2>3, <3>1, <3>4, <1>4, <1>9, <1>12, SMTT(60)
    <3> QED
      BY <3>2, <3>3, <3>4, <1>4, SMTT(60)
  <2> QED
    BY <2>1, <2>2, <2>3, <1>4, SMTT(60)
<1> QED
  BY <1>2, <1>6, <1>13 DEF DueSleeperIsNoticed

\* thread_wakeup() takes one thread out of the list.
LEMMA WakeupKeepsOrder ==
  ASSUME IInv, IInv', DueSleeperIsNoticed, NEW s \in Slots, thread_wakeup(s)
  PROVE  DueSleeperIsNoticed'
<1> DEFINE n == Len(sleep)
<1>1. PICK k \in 1..n : /\ sleep[k] = s
                        /\ sleep' = SubSeq(sleep, 1, k - 1) \o SubSeq(sleep, k + 1, n)
  BY DEF thread_wakeup
<1>2. wake_in' = [wake_in EXCEPT ![s] = 0] /\ resched' = TRUE
  BY DEF thread_wakeup
<1>3. n \in Nat /\ k \in Nat /\ k <= n
  BY SleepFacts, SMTT(60)
<1>4. Len(sleep') = n - 1 /\ \A i \in 1..(n - 1) : sleep'[i] = IF i < k THEN sleep[i] ELSE sleep[i + 1]
  BY <1>1, SleepFacts, RemoveElements
<1>5. \A i \in 1..n : i # k => wake_in'[sleep[i]] = wake_in[sleep[i]]
  <2>1. \A i, j \in 1..n : sleep[i] = sleep[j] => i = j
    BY SleepFacts, RangeOfQueue DEF IInv, QueuesMatchStates, SleepListOK
  <2> QED
    BY <1>1, <1>2, <2>1, SleepFacts
<1>6. \A i, j \in 1..n : i < j => wake_in[sleep[i]] <= wake_in[sleep[j]]
  BY SleepFacts DEF DueSleeperIsNoticed
<1> DEFINE at(i) == IF i < k THEN i ELSE i + 1
<1>7. \A i \in 1..(n - 1) : /\ at(i) \in 1..n /\ at(i) # k
                             /\ wake_in'[sleep'[i]] = wake_in[sleep[at(i)]]
  BY <1>3, <1>4, <1>5, SMTT(60)
<1>8. \A i, j \in 1..(n - 1) : i < j => at(i) < at(j)
  BY <1>3, SMTT(60)
<1> HIDE DEF at, n
<1>9. \A i, j \in 1..(n - 1) : i < j => wake_in'[sleep'[i]] <= wake_in'[sleep'[j]]
  BY <1>6, <1>7, <1>8
<1>10. DOMAIN sleep' = 1..(n - 1)
  <2>1. sleep' \in Seq(Slots)
    BY DEF IInv, TypeOK
  <2> QED
    BY <1>4, <2>1, SeqFacts
<1> QED
  BY <1>2, <1>9, <1>10 DEF DueSleeperIsNoticed

\* scheduler_process() leaves only sleepers that are not due.
LEMMA ProcessKeepsOrder ==
  ASSUME IInv, IInv', DueSleeperIsNoticed, scheduler_process
  PROVE  DueSleeperIsNoticed'
<1> DEFINE n == Len(sleep)
<1>1. PICK k \in 0..n : DuePrefix(k) /\ sleep' = SubSeq(sleep, k + 1, n)
  BY DEF scheduler_process
<1>2. n \in Nat /\ k \in Nat /\ k <= n /\ n <= Len(sleep)
  BY SleepFacts, SMTT(60)
<1>3. Len(sleep') = n - k /\ \A i \in 1..(n - k) : sleep'[i] = sleep[k + i]
  <2> DEFINE r == SubSeq(sleep, k + 1, n)
  <2>1. sleep \in Seq(Slots)
    BY SleepFacts
  <2>2. Len(r) = n - k /\ \A i \in 1..(n - k) : r[i] = sleep[k + i]
    BY <1>2, <2>1, PartElements, SMTT(60)
  <2>3. sleep' = r
    BY <1>1
  <2> HIDE DEF r
  <2> QED
    BY <2>2, <2>3
<1>4. \A i \in 1..n : wake_in'[sleep[i]] = wake_in[sleep[i]] /\ wake_in[sleep[i]] \in Nat
  <2>1. \A s \in Slots : wake_in'[s] = IF s \in Reaped THEN 0 ELSE wake_in[s]
    BY DEF scheduler_process
  <2>2. \A s \in Reaped : tstate[s] = "zombie"
    BY DEF Reaped
  <2> QED
    BY <2>1, <2>2, SleepFacts
<1>5. \A i, j \in 1..n : i < j => wake_in[sleep[i]] <= wake_in[sleep[j]]
  BY SleepFacts DEF DueSleeperIsNoticed
<1>6. k < n => wake_in[sleep[k + 1]] > 0
  BY <1>1 DEF DuePrefix
<1> HIDE DEF n
<1>7. \A i \in 1..(n - k) : k + i \in 1..n /\ wake_in'[sleep'[i]] = wake_in[sleep[k + i]]
  BY <1>2, <1>3, <1>4, SMTT(60)
<1>8. \A i \in 1..(n - k) : wake_in'[sleep'[i]] > 0
  <2> TAKE i \in 1..(n - k)
  <2>1. k < n /\ k + 1 \in 1..n /\ k + i \in 1..n /\ (k + 1 = k + i \/ k + 1 < k + i)
    BY <1>2, SMTT(60)
  <2>2. wake_in[sleep[k + 1]] > 0 /\ wake_in[sleep[k + 1]] \in Nat /\ wake_in[sleep[k + i]] \in Nat
    BY <2>1, <1>4, <1>6
  <2>3. wake_in[sleep[k + 1]] <= wake_in[sleep[k + i]]
    BY <2>1, <2>2, <1>5, SMTT(60)
  <2> QED
    BY <2>2, <2>3, <1>7, SMTT(60)
<1>9. \A i, j \in 1..(n - k) : i < j => wake_in'[sleep'[i]] <= wake_in'[sleep'[j]]
  <2> SUFFICES ASSUME NEW i \in 1..(n - k), NEW j \in 1..(n - k), i < j
               PROVE  wake_in'[sleep'[i]] <= wake_in'[sleep'[j]]
    OBVIOUS
  <2>1. k + i \in 1..n /\ k + j \in 1..n /\ k + i < k + j
    BY <1>2, SMTT(60)
  <2> QED
    BY <2>1, <1>5, <1>7
<1>10. DOMAIN sleep' = 1..(n - k)
  <2>1. sleep' \in Seq(Slots)
    BY DEF IInv, TypeOK
  <2> QED
    BY <1>3, <2>1, SeqFacts
<1> QED
  BY <1>8, <1>9, <1>10, SMTT(60) DEF DueSleeperIsNoticed

\* The sleep list stays sorted by wake-up time, so the interrupt's look at its
\* first entry is enough: whenever a sleeper is due, a reschedule is pending.
THEOREM SpecDueSleeperIsNoticed == Spec => []DueSleeperIsNoticed
<1>1. Init => DueSleeperIsNoticed
  BY SMTT(60) DEF Init, DueSleeperIsNoticed
<1>2. IInv /\ IInv' /\ DueSleeperIsNoticed /\ [Next]_vars => DueSleeperIsNoticed'
  <2> SUFFICES ASSUME IInv, IInv', DueSleeperIsNoticed, [Next]_vars
               PROVE  DueSleeperIsNoticed'
    OBVIOUS
  <2>1. CASE TickIrq
    BY <2>1, TickKeepsOrder
  <2>2. CASE thread_create \/ Launch
    <3>1. \E n \in Slots, pid \in {0, next_pid} : NewThread(n, pid)
      BY <2>2 DEF thread_create, Launch
    <3>2. PICK n \in Slots : /\ tstate[n] = "free" /\ wake_in' = [wake_in EXCEPT ![n] = 0]
                             /\ sleep' = sleep
      BY <3>1 DEF NewThread, FirstFree
    <3>3. resched => resched'
      BY <2>2 DEF thread_create, Launch
    <3> QED
      BY <3>2, <3>3, SleepFacts, SleepFrame
  <2>3. CASE \E ms \in SleepMs : thread_sleep_ms(ms)
    BY <2>3, SleepKeepsOrder
  <2>4. CASE \E s \in Slots : thread_wakeup(s)
    BY <2>4, WakeupKeepsOrder
  <2>5. CASE scheduler_process
    BY <2>5, ProcessKeepsOrder, SMTT(60)
  <2>6. CASE \/ LaunchFails \/ thread_yield \/ MainLoopTick \/ thread_exit \/ UserExit
             \/ \E q \in Queues : thread_block_on_wait_queue(q) \/ WakeFirstWaiter(q)
             \/ UNCHANGED vars
    <3>1. sleep' = sleep /\ wake_in' = wake_in /\ (resched => resched')
      BY <2>6, SMTT(60)
         DEF LaunchFails, thread_yield, MainLoopTick, thread_exit, UserExit, EnterScheduler,
                  thread_block_on_wait_queue, WakeFirstWaiter, vars, threadVars
    <3> QED
      BY <3>1, SleepFrame
  <2> QED
    BY <2>1, <2>2, <2>3, <2>4, <2>5, <2>6 DEF Next
<1> QED
  BY <1>1, <1>2, SpecIInv, PTL DEF Spec

-----------------------------------------------------------------------------
(* The ready queue is first in, first out *)

\* What the invariant says of the ready queue.
LEMMA ReadyFacts ==
  ASSUME IInv
  PROVE  /\ ready \in Seq(Slots) /\ Range(ready) = {s \in Slots : tstate[s] = "ready"}
         /\ current \in Slots
BY DEF IInv, TypeOK, QueuesMatchStates, ReadyQueueOK

\* A step that leaves the queue alone or appends a thread that was not ready.
LEMMA ReadyAppend ==
  ASSUME IInv, \/ ready' = ready
               \/ \E n \in Slots : tstate[n] # "ready" /\ ready' = Append(ready, n)
  PROVE  KeepsOrder(ready, ready')
<1>1. ExtendsQueue(ready, ready)
  <2>1. Len(ready) \in Nat
    BY ReadyFacts, SeqFacts
  <2> QED
    BY <2>1, SMTT(60) DEF ExtendsQueue
<1>2. CASE ready' = ready
  BY <1>1, <1>2, ReadyFacts, ExtendsKeepsOrder, SMTT(60)
<1>3. CASE \E n \in Slots : tstate[n] # "ready" /\ ready' = Append(ready, n)
  <2>1. PICK n \in Slots : tstate[n] # "ready" /\ ready' = Append(ready, n)
    BY <1>3
  <2>2. n \notin Range(ready) /\ Append(ready, n) \in Seq(Slots)
    BY <2>1, ReadyFacts, AppendFacts
  <2>3. ExtendsQueue(ready, Append(ready, n))
    BY <1>1, <2>2, ReadyFacts, AppendExtends
  <2> QED
    BY <2>1, <2>2, <2>3, ReadyFacts, ExtendsKeepsOrder
<1> QED
  BY <1>2, <1>3

\* scheduler_process() appends the sleepers it wakes and the thread that gives
\* up the CPU, and takes the head.
LEMMA ProcessKeepsReadyOrder ==
  ASSUME IInv, scheduler_process
  PROVE  KeepsOrder(ready, ready')
<1>1. PICK k \in 0..Len(sleep) :
        IF resched
          THEN Dispatch(StateAfterReap(k), ReadyAfterWake(k), process_reap(ReapedPids))
          ELSE Resume(StateAfterReap(k), ReadyAfterWake(k), process_reap(ReapedPids))
  BY DEF scheduler_process
<1> DEFINE st == StateAfterReap(k)
           rd == ReadyAfterWake(k)
           y == SubSeq(sleep, 1, k)
           requeue == st[current] = "running"
           q == IF requeue THEN Append(rd, current) ELSE rd
<1>2. y \in Seq(Slots) /\ Range(y) \subseteq {s \in Slots : tstate[s] = "sleeping"}
  <2>1. IsInjective(sleep) /\ sleep \in Seq(Slots)
    BY SleepFacts DEF IInv, QueuesMatchStates, SleepListOK
  <2>2. y \in Seq(Slots) /\ Range(y) = {sleep[i] : i \in 1..k}
    BY <2>1, SplitQueue
  <2>3. \A i \in 1..k : i \in 1..Len(sleep)
    BY SleepFacts, SMTT(60)
  <2> QED
    BY <2>2, <2>3, SleepFacts
<1> HIDE DEF y
<1>3. rd = ready \o y
  BY DEF ReadyAfterWake, y
<1>4. rd \in Seq(Slots) /\ ExtendsQueue(ready, rd)
  <2>1. Range(y) \cap Range(ready) = {}
    BY <1>2, ReadyFacts
  <2>2. ExtendsQueue(ready, ready \o y)
    BY <1>2, <2>1, ReadyFacts, ConcatExtends
  <2>3. ready \o y \in Seq(Slots)
    BY <1>2, ReadyFacts, ConcatFacts, SMTT(60)
  <2> QED
    BY <1>3, <2>2, <2>3
<1> HIDE DEF rd
<1>5. requeue => tstate[current] = "running"
  BY AfterReap, ReadyFacts
<1> HIDE DEF st
<1>6. q \in Seq(Slots) /\ ExtendsQueue(ready, q)
  <2>1. CASE requeue
    <3>1. current \notin Range(ready)
      BY <1>5, <2>1, ReadyFacts
    <3>2. Append(rd, current) \in Seq(Slots)
      BY <1>4, ReadyFacts, AppendFacts, SMTT(60)
    <3>3. ExtendsQueue(ready, Append(rd, current))
      BY <1>4, <3>1, ReadyFacts, AppendExtends, SMTT(60)
    <3> QED
      BY <2>1, <3>2, <3>3
  <2>2. CASE ~requeue
    BY <2>2, <1>4
  <2> QED
    BY <2>1, <2>2
<1>7. \/ ready' = rd
      \/ ready' = ready
      \/ q # <<>> /\ ready' = Tail(q)
  <2>1. IF resched THEN Dispatch(st, rd, process_reap(ReapedPids))
                   ELSE Resume(st, rd, process_reap(ReapedPids))
    BY <1>1 DEF st, rd
  <2>2. CASE resched
    <3>1. \/ q = <<>> /\ ready' = ready
          \/ q # <<>> /\ ready' = Tail(q)
      BY <2>1, <2>2 DEF Dispatch, Requeue, SwitchTo, RollBack
    <3> QED
      BY <3>1
  <2>3. CASE ~resched
    BY <2>1, <2>3 DEF Resume
  <2> QED
    BY <2>2, <2>3
<1> HIDE DEF q
<1>8. CASE ready' = rd
  BY <1>4, <1>8, ReadyFacts, ExtendsKeepsOrder, SMTT(60)
<1>9. CASE ready' = ready
  BY <1>9, ReadyAppend
<1>10. CASE q # <<>> /\ ready' = Tail(q)
  BY <1>6, <1>10, ReadyFacts, ExtendsKeepsOrder, SMTT(60)
<1> QED
  BY <1>7, <1>8, <1>9, <1>10

\* ready_append() and ready_pop() serve threads in the order they became ready:
\* nobody overtakes a thread that is already in the queue.
THEOREM SpecReadyIsFifo == Spec => ReadyIsFifo
<1> DEFINE A == \A s, r \in Slots, i, j \in DOMAIN ready' :
                  /\ ready'[i] = s /\ ready'[j] = r /\ i < j
                  /\ r \in Range(ready)
                  => s \in Range(ready) /\
                     \E a, b \in DOMAIN ready : ready[a] = s /\ ready[b] = r /\ a < b
<1>1. KeepsOrder(ready, ready') => A
  BY SMTT(60) DEF KeepsOrder
<1>2. IInv /\ [Next]_vars => [A]_vars
  <2> SUFFICES ASSUME IInv, Next PROVE KeepsOrder(ready, ready')
    BY <1>1
  <2>1. CASE scheduler_process
    BY <2>1, ProcessKeepsReadyOrder
  <2>2. CASE thread_create \/ Launch
    <3>1. \E n \in Slots, pid \in {0, next_pid} : NewThread(n, pid)
      BY <2>2 DEF thread_create, Launch
    <3>2. \E n \in Slots : tstate[n] # "ready" /\ ready' = Append(ready, n)
      BY <3>1 DEF NewThread, FirstFree
    <3> QED
      BY <3>2, ReadyAppend
  <2>3. ASSUME NEW q \in Queues, WakeFirstWaiter(q) PROVE KeepsOrder(ready, ready')
    <3>1. CASE \E s \in Slots : IsThread(s, Head(waitq[q])) /\ tstate[s] = "blocked"
      <4>1. PICK b \in Slots : IsThread(b, Head(waitq[q])) /\ tstate[b] = "blocked"
        BY <3>1
      <4>2. PICK s \in Slots : IsThread(s, Head(waitq[q])) /\ ready' = Append(ready, s)
        BY <2>3, <3>1 DEF WakeFirstWaiter
      <4>3. s = b
        BY <4>1, <4>2, SameTid DEF IsThread
      <4> QED
        BY <4>1, <4>2, <4>3, ReadyAppend, SMTT(60)
    <3>2. CASE ~\E s \in Slots : IsThread(s, Head(waitq[q])) /\ tstate[s] = "blocked"
      <4>1. ready' = ready
        BY <2>3, <3>2, SMTT(60) DEF WakeFirstWaiter
      <4> QED
        BY <4>1, ReadyAppend
    <3> QED
      BY <3>1, <3>2
  <2>4. CASE \E s \in Slots : thread_wakeup(s)
    <3>1. \E n \in Slots : tstate[n] # "ready" /\ ready' = Append(ready, n)
      BY <2>4 DEF thread_wakeup
    <3> QED
      BY <3>1, ReadyAppend
  <2>5. CASE \/ TickIrq \/ LaunchFails \/ thread_yield \/ MainLoopTick \/ thread_exit \/ UserExit
             \/ \E ms \in SleepMs : thread_sleep_ms(ms)
             \/ \E q \in Queues : thread_block_on_wait_queue(q)
    <3>1. ready' = ready
      BY <2>5 DEF TickIrq, LaunchFails, thread_yield, MainLoopTick, thread_exit, UserExit,
                  EnterScheduler, thread_sleep_ms, thread_block_on_wait_queue, threadVars
    <3> QED
      BY <3>1, ReadyAppend
  <2> QED
    BY <2>1, <2>2, <2>3, <2>4, <2>5 DEF Next
<1> QED
  BY <1>2, SpecIInv, PTL DEF Spec, ReadyIsFifo

===============================================================================
