----------------------------- MODULE ProcessTable -----------------------------
(***************************************************************************)
(* The lifecycle half of kernel/core/process/process.c: the fixed process  *)
(* table, the current process and the two population counters.             *)
(*                                                                         *)
(* process_create() hands out PIDs from a counter and never reuses one, so *)
(* the table is kept as a function of the PID instead of the table slot; a *)
(* PID is "unused" before it is handed out and after it has been reaped.   *)
(* A process owns a private address space (address_space_cr3 # 0) exactly  *)
(* while it is not "unused", so the address space is named by its PID.     *)
(*                                                                         *)
(* The operators below are the updates the functions make.  The module has *)
(* no next-state relation of its own: every call comes from the scheduler  *)
(* (dispatch, reaping) or from a launch or an exit in Scheduler.tla.       *)
(***************************************************************************)
EXTENDS Integers, FiniteSets

CONSTANTS MaxProcs,     \* PROCESS_MAX_COUNT
          MaxPid        \* bound: how many PIDs a behaviour hands out

ASSUME ProcessAssumption == MaxProcs \in Nat /\ MaxPid \in Nat

VARIABLES pstate,          \* state of each PID
          ptid,            \* scheduler_thread_id of each PID, 0 = none
          next_pid,        \* g_next_pid
          current_pid,     \* g_current_pid, 0 = PROCESS_INVALID_PID
          process_count,   \* g_process_count
          zombie_count     \* g_zombie_count

procVars == <<pstate, ptid, next_pid, current_pid, process_count, zombie_count>>

Pids == 1..MaxPid

ProcStates == {"unused", "ready", "running", "zombie"}

ProcTypeOK ==
  /\ pstate \in [Pids -> ProcStates]
  /\ ptid \in [Pids -> Nat]
  /\ next_pid \in 1..(MaxPid + 1)
  /\ current_pid \in 0..MaxPid
  /\ process_count \in Int
  /\ zombie_count \in Int

process_init ==
  /\ pstate = [p \in Pids |-> "unused"]
  /\ ptid = [p \in Pids |-> 0]
  /\ next_pid = 1
  /\ current_pid = 0
  /\ process_count = 0
  /\ zombie_count = 0

\* process_create() finds an unused entry; the second conjunct is the bound.
TableHasRoom ==
  /\ Cardinality({p \in Pids : pstate[p] # "unused"}) < MaxProcs
  /\ next_pid <= MaxPid

\* thread_create_user_process() records the owning thread in the process.
BindThread(p, id) == [ptid EXCEPT ![p] = id]

\* The scheduler dispatches a process only in this condition.
Dispatchable(ps, p) == ps[p] \in {"ready", "running"}

\* Mutant: the new process is not marked RUNNING.
SetCurrentSilently(ps, p) ==
  [q \in Pids |-> IF q = current_pid /\ ps[q] = "running" THEN "ready" ELSE ps[q]]

\* process_set_current(): the previous RUNNING process goes back to READY.
process_set_current(ps, p) ==
  [q \in Pids |-> IF q = p THEN "running"
                  ELSE IF q = current_pid /\ ps[q] = "running" THEN "ready"
                  ELSE ps[q]]

\* process_clear_current(): a kernel thread takes the CPU.
process_clear_current(ps) ==
  [q \in Pids |-> IF q = current_pid /\ ps[q] = "running" THEN "ready" ELSE ps[q]]

\* Mutant: the process forgets its thread when it exits.
process_exit_unbound(p) ==
  /\ pstate[p] \in {"ready", "running"}
  /\ pstate' = [pstate EXCEPT ![p] = "zombie"]
  /\ ptid' = [ptid EXCEPT ![p] = 0]
  /\ process_count' = IF process_count > 0 THEN process_count - 1 ELSE 0
  /\ zombie_count' = zombie_count + 1
  /\ UNCHANGED <<next_pid, current_pid>>

\* process_exit_with_code() on a process that is neither unused nor a zombie.
\* Its address space and its scheduler thread stay until it is reaped.
process_exit(p) ==
  /\ pstate[p] \in {"ready", "running"}
  /\ pstate' = [pstate EXCEPT ![p] = "zombie"]
  /\ process_count' = IF process_count > 0 THEN process_count - 1 ELSE 0
  /\ zombie_count' = zombie_count + 1
  /\ UNCHANGED <<ptid, next_pid, current_pid>>

\* process_reap(pid, tid) succeeds: a zombie whose scheduler thread is tid.
CanReap(p, tid) == pstate[p] = "zombie" /\ ptid[p] = tid

\* The tables after reaping every process of P.
process_reap(P) == [p \in Pids |-> IF p \in P THEN "unused" ELSE pstate[p]]
=============================================================================
