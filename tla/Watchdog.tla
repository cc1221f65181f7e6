------------------------------- MODULE Watchdog -------------------------------
(***************************************************************************)
(* kernel/core/watchdog.c and the stop it leads to (kernel.c, panic.c),    *)
(* over the main loop of KernelEvents.tla.                                 *)
(*                                                                         *)
(* age is g_tick - g_last_heartbeat_tick: only this difference is looked   *)
(* at, and only until it passes the timeout.                               *)
(***************************************************************************)
EXTENDS KernelEvents

CONSTANT TimeoutMs     \* WATCHDOG_TIMEOUT_MS

ASSUME WatchdogAssumption == TimeoutMs \in Nat

VARIABLES age,           \* see above
          trip_pending,  \* g_trip_pending
          stopped        \* critical_os_stop() was called

dogVars == <<age, trip_pending, stopped>>

wvars == <<kvars, dogVars>>

timeout_ticks ==
  LET t == (TimerHz * TimeoutMs) \div 1000 IN IF t = 0 THEN 1 ELSE t

nexus_watchdog_init ==
  /\ age = 0
  /\ trip_pending = FALSE
  /\ stopped = FALSE

WInit == KInit /\ nexus_watchdog_init

WatchdogTypeOK ==
  /\ EventTypeOK
  /\ age \in 0..(timeout_ticks + 1)
  /\ trip_pending \in BOOLEAN
  /\ stopped \in BOOLEAN

Older(n) == IF n <= timeout_ticks THEN n + 1 ELSE n

\* Mutant: the test is made before the tick is counted.
TripsLate == trip_pending \/ age > timeout_ticks

Trips == trip_pending \/ Older(age) > timeout_ticks

\* nexus_watchdog_timer_tick(), called by scheduler_tick_irq()
WatchedTick ==
  /\ TimerIrq
  /\ age' = Older(age)
  /\ trip_pending' = Trips
  /\ UNCHANGED stopped

\* Mutant: a heartbeat withdraws the trip.
HeartbeatClears ==
  /\ age' = 0
  /\ trip_pending' = FALSE

nexus_watchdog_heartbeat ==
  /\ age' = 0
  /\ UNCHANGED trip_pending

\* The top of the main loop: a heartbeat, then the test of a pending trip.
WatchedLoopTop ==
  /\ ~trip_pending
  /\ LoopTop
  /\ nexus_watchdog_heartbeat
  /\ UNCHANGED stopped

\* nexus_watchdog_clear_trip() and critical_os_stop().
Stop ==
  /\ BootAt("top")
  /\ trip_pending
  /\ age' = 0
  /\ trip_pending' = FALSE
  /\ stopped' = TRUE
  /\ UNCHANGED kvars

\* The end of kernel_events_process() is a heartbeat as well.
WatchedDrainDone == DrainDone /\ nexus_watchdog_heartbeat /\ UNCHANGED stopped

Unwatched ==
  /\ \/ \E t \in Queues : DeviceIrq(t)
     \/ DrainEvent \/ CountEvent \/ WakeWaiter \/ NotifyDone
     \/ MainLoopRest \/ MainLoopHalts
     \/ \E t \in Queues : kernel_events_wait(t)
     \/ WaitResumes
     \/ ThreadWork
     \/ Schedule
  /\ UNCHANGED dogVars

WNext ==
  /\ ~stopped
  /\ WatchedTick \/ WatchedLoopTop \/ Stop \/ WatchedDrainDone \/ Unwatched

WSpec == WInit /\ [][WNext]_wvars

-----------------------------------------------------------------------------
\* The main loop silent for more than the timeout is always noticed, whoever
\* has the CPU, and wherever in the loop it stopped.
SilenceTrips == age > timeout_ticks => trip_pending

-----------------------------------------------------------------------------
(* Liveness *)

\* The timer, the scheduler and the main loop run, and a thread that has the
\* CPU gives it up in the end.  Keys do not come so fast that every single tick
\* finds the ring full.
WFairness ==
  /\ WF_wvars(~stopped /\ WatchedTick)
  /\ SF_wvars(~stopped /\ WatchedTick /\ Len(evq) < EventRoom)
  /\ WF_wvars(~stopped /\ Schedule /\ UNCHANGED dogVars)
  /\ WF_wvars(~stopped /\ (WatchedLoopTop \/ Stop \/ WatchedDrainDone))
  /\ WF_wvars(/\ ~stopped
              /\ DrainEvent \/ CountEvent \/ WakeWaiter \/ NotifyDone \/ MainLoopHalts
              /\ UNCHANGED dogVars)
  /\ WF_wvars(~stopped /\ WaitResumes /\ UNCHANGED dogVars)
  /\ WF_wvars(/\ ~stopped
              /\ ThreadWork \/ \E t \in Queues : kernel_events_wait(t)
              /\ UNCHANGED dogVars)

WFairSpec == WSpec /\ WFairness

\* kernel_events.c: "a sustained input storm cannot monopolize the kernel": a
\* pass of the main loop that has begun to drain the ring reaches its end
\* however fast events arrive.
PassEnds == kpc = "drain" ~> kpc = "hlt"

\* Every thread that waits for the timer in kernel_events_wait() comes back,
\* although ticks that find the ring full are dropped, unless the watchdog has
\* stopped the system.
TimerWaiterReturns == \A s \in Slots : waits[s] = Timer ~> waits[s] = None \/ stopped

\* A trip of the watchdog stops the system, as soon as whoever has the CPU
\* gives it up: a main loop that comes to life again and beats does not hide
\* that it was silent.
StallStops == trip_pending ~> stopped
=============================================================================
