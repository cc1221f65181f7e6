-------------------------------- MODULE Xhci --------------------------------
(***************************************************************************)
(* drivers/usb/xhci.c: the command, control and keyboard rings the driver  *)
(* fills, the event ring it drains, and the controller at the other end of *)
(* them.  Every ring is an array whose entries carry a cycle bit; the last *)
(* entry of the three rings the driver fills is a link back to the first.  *)
(*                                                                         *)
(* A report is the set of keys it shows as held.                           *)
(***************************************************************************)
EXTENDS Integers, Sequences, FiniteSets

CONSTANTS CmdTrbs, Ep0Trbs, KbdTrbs, EvtTrbs,  \* CMD_RING_TRBS .. EVT_RING_TRBS
          HidReports,                          \* reports a keyboard sends
          XhciFaults                           \* bound: port events, errors and timeouts

ASSUME XhciAssumption ==
  /\ \A n \in {CmdTrbs, Ep0Trbs, KbdTrbs} : n \in Nat /\ n > 2
  /\ EvtTrbs \in Nat \ {0, 1}
  /\ XhciFaults \in Nat

VARIABLES x_stage,    \* "off", "try" a controller, "setup" a device, "ready", "idle" or "failed"
          untried,      \* controllers of g_xhci_controller_count still to be tried
          step,       \* the step of Script that setup_hid_on_port() is at
          awaited,    \* the ring and entry whose event is waited for, or <<>>
          cmd, ep0, kbd, \* the rings the driver fills
          evt,        \* the event ring
          reports,    \* g_kbd_reports
          last_report,
          flight,     \* reports the controller has written and the driver not handled
          faults,     \* port status changes, errors and timeouts so far
          in_order    \* every report was handled once, in order, from its own buffer

xhci_vars == <<x_stage, untried, step, awaited, cmd, ep0, kbd, evt, reports, last_report,
               flight, faults, in_order>>

\* deq and ccs are the controller's place in a ring it reads; a ring is halted
\* by a transfer error.
Ring(n) ==
  [size |-> n, enq |-> 0, cycle |-> 1, trb |-> [i \in 0..(n - 1) |-> [cycle |-> 0, buf |-> 0]],
   deq |-> 0, ccs |-> 1, halted |-> FALSE]

\* deq and cycle are the driver's place in the event ring, erdp what it last told
\* the controller, enq and pcs the controller's place.
EventRing ==
  [trb |-> [i \in 0..(EvtTrbs - 1) |-> [cycle |-> 0, ring |-> "none", trb |-> 0, cc |-> 0]],
   deq |-> 0, cycle |-> 1, erdp |-> 0, enq |-> 0, pcs |-> 1]

\* cmd_ring_push() and kbd_ring_push_normal(): the entry, and after the last one
\* the link with the same cycle bit.
Push(r, b) ==
  LET full == r.enq + 1 = r.size - 1
      put  == [r.trb EXCEPT ![r.enq] = [cycle |-> r.cycle, buf |-> b]]
  IN  IF full
        THEN [r EXCEPT !.trb = [put EXCEPT ![r.size - 1].cycle = r.cycle],
                       !.enq = 0, !.cycle = 1 - r.cycle]
        ELSE [r EXCEPT !.trb = put, !.enq = r.enq + 1]

\* The control ring has setup entries, 0, and data or status entries, 1.
ep0_ring_push_raw(r, stage) == Push(r, stage)

\* The controller moves past an entry, and past the link after it.
Fetch(r) ==
  IF r.deq + 1 < r.size - 1 THEN [r EXCEPT !.deq = r.deq + 1]
  ELSE [r EXCEPT !.deq = r.size - 1]

HasWork(r) == ~r.halted /\ r.deq < r.size - 1 /\ r.trb[r.deq].cycle = r.ccs

AtLink(r) == r.deq = r.size - 1 /\ r.trb[r.deq].cycle = r.ccs

FollowLink(r) == [r EXCEPT !.deq = 0, !.ccs = 1 - r.ccs]

RoomForEvent == (evt.enq + 1) % EvtTrbs /= evt.erdp

Post(ring, i, cc) ==
  [evt EXCEPT !.trb[evt.enq] = [cycle |-> evt.pcs, ring |-> ring, trb |-> i, cc |-> cc],
              !.enq = (evt.enq + 1) % EvtTrbs,
              !.pcs = IF evt.enq + 1 = EvtTrbs THEN 1 - evt.pcs ELSE evt.pcs]

HasEvent == evt.trb[evt.deq].cycle = evt.cycle

\* The driver's place moves on; the controller is told of the entry just read.
Advance ==
  [evt EXCEPT !.erdp = evt.deq,
              !.deq = (evt.deq + 1) % EvtTrbs,
              !.cycle = IF evt.deq + 1 = EvtTrbs THEN 1 - evt.cycle ELSE evt.cycle]

Fault(n) == faults + n <= XhciFaults /\ faults' = faults + n

XhciInit ==
  /\ x_stage = "off" /\ untried = 0 /\ step = 1 /\ awaited = <<>>
  /\ cmd = Ring(CmdTrbs) /\ ep0 = Ring(Ep0Trbs) /\ kbd = Ring(KbdTrbs)
  /\ evt = EventRing
  /\ reports = [i \in 0..(KbdTrbs - 1) |-> {}] /\ last_report = {}
  /\ flight = <<>> /\ faults = 0 /\ in_order = TRUE

----------------------------------------------------------------------------
(* Starting a controller and its first connected device.                   *)

xhci_init(count) ==
  /\ x_stage = "off"
  /\ x_stage' = "try" /\ untried' = count
  /\ UNCHANGED <<step, awaited, cmd, ep0, kbd, evt, reports, last_report, flight, faults, in_order>>

\* xhci_init() tries each controller in turn.  A controller is given up when its
\* BAR or capability registers are unusable, the firmware keeps it, it does not
\* halt, reset or start, or it wants too many scratchpad pages.  One that starts
\* is kept, with or without a device on a port that resets.
xhci_try_controller(ok, connected) ==
  /\ x_stage = "try" /\ untried > 0
  /\ untried' = untried - 1
  /\ x_stage' = CASE ~ok -> "try" [] ok /\ connected -> "setup" [] OTHER -> "idle"
  /\ cmd' = IF ok THEN Ring(CmdTrbs) ELSE cmd
  /\ evt' = IF ok THEN EventRing ELSE evt
  /\ UNCHANGED <<step, awaited, ep0, kbd, reports, last_report, flight, faults, in_order>>

xhci_none ==
  /\ x_stage = "try" /\ untried = 0
  /\ x_stage' = "failed"
  /\ UNCHANGED <<untried, step, awaited, cmd, ep0, kbd, evt, reports, last_report, flight,
                 faults, in_order>>

\* setup_hid_on_port(): commands, control transfers with and without data, and
\* whether a failure of the step ends the set-up.
Script ==
  << [op |-> "cmd",    must |-> TRUE],   \* Enable Slot
     [op |-> "cmd",    must |-> TRUE],   \* Address Device
     [op |-> "data",   must |-> TRUE],   \* device descriptor, 8 bytes
     [op |-> "cmd",    must |-> FALSE],  \* Evaluate Context, for another packet size
     [op |-> "data",   must |-> FALSE],  \* device descriptor, 18 bytes
     [op |-> "data",   must |-> TRUE],   \* configuration, 9 bytes
     [op |-> "data",   must |-> TRUE],   \* configuration, whole
     [op |-> "nodata", must |-> TRUE],   \* SET_CONFIGURATION
     [op |-> "nodata", must |-> FALSE],  \* SET_PROTOCOL
     [op |-> "nodata", must |-> FALSE],  \* SET_IDLE
     [op |-> "cmd",    must |-> TRUE] >> \* Configure Endpoint

Evaluate == 4
FindHid  == 8

SetupStep == x_stage = "setup" /\ awaited = <<>> /\ step <= Len(Script)

run_command ==
  /\ SetupStep /\ Script[step].op = "cmd"
  /\ cmd' = Push(cmd, 0)
  /\ awaited' = <<"cmd", cmd.enq>>
  /\ ep0' = IF step = 2 THEN Ring(Ep0Trbs) ELSE ep0
  /\ UNCHANGED <<x_stage, untried, step, kbd, evt, reports, last_report, flight, faults, in_order>>

\* A setup entry and a data or status entry; the last of them is waited for.
control_transfer ==
  /\ SetupStep /\ Script[step].op \in {"data", "nodata"}
  /\ LET setup == ep0_ring_push_raw(ep0, 0) IN
       /\ ep0' = ep0_ring_push_raw(setup, 1)
       /\ awaited' = <<"ep0", setup.enq, Script[step].op>>
  /\ UNCHANGED <<x_stage, untried, step, cmd, kbd, evt, reports, last_report, flight, faults,
                 in_order>>

\* After the last step the keyboard ring is filled and the device is present.
FilledRing ==
  LET Fill[i \in 0..(KbdTrbs - 1)] ==
        IF i = 0 THEN Ring(KbdTrbs) ELSE Push(Fill[i - 1], i - 1)
  IN  Fill[KbdTrbs - 1]

\* Where the set-up goes after a step: on, or to a controller without input.
\* The device may turn out not to be a boot keyboard or mouse.
AfterStep(ok) ==
  LET on == ok \/ ~Script[step].must IN
  /\ \/ on /\ step < Len(Script) /\ x_stage' = x_stage /\ step' = step + 1 /\ UNCHANGED kbd
     \/ on /\ step = Len(Script) /\ x_stage' = "ready" /\ step' = step + 1 /\ kbd' = FilledRing
     \/ on /\ step + 1 = FindHid /\ x_stage' = "idle" /\ UNCHANGED <<step, kbd>>
     \/ on /\ step + 1 = Evaluate /\ x_stage' = x_stage /\ step' = step + 2 /\ UNCHANGED kbd
     \/ ~on /\ x_stage' = "idle" /\ UNCHANGED <<step, kbd>>

\* wait_command_completion() and wait_transfer_completion(): the next event;
\* one that is not for the awaited entry is dropped.
AwaitEvent ==
  /\ awaited /= <<>> /\ HasEvent
  /\ LET e     == evt.trb[evt.deq]
         match == e.ring = awaited[1] /\ e.trb = awaited[2]
         data  == match /\ e.cc = 1 /\ Len(awaited) = 3 /\ awaited[3] = "data"
     IN  /\ evt' = Advance
         /\ \/ ~match /\ UNCHANGED <<awaited, ep0, x_stage, step, kbd>>
            \/ /\ data                          \* the status entry of a data transfer
               /\ ep0' = ep0_ring_push_raw(ep0, 1)
               /\ awaited' = <<"ep0", ep0.enq, "status">>
               /\ UNCHANGED <<x_stage, step, kbd>>
            \/ match /\ ~data /\ awaited' = <<>> /\ UNCHANGED ep0 /\ AfterStep(e.cc = 1)
  /\ UNCHANGED <<untried, cmd, reports, last_report, flight, faults, in_order>>

AwaitTimeout ==
  /\ awaited /= <<>> /\ ~HasEvent
  /\ Fault(1)
  /\ awaited' = <<>>
  /\ AfterStep(FALSE)
  /\ UNCHANGED <<untried, cmd, ep0, evt, reports, last_report, flight, in_order>>

----------------------------------------------------------------------------
(* The controller.                                                         *)

\* 1 is success, 4 a transaction error.
HcCommand(cc) ==
  /\ HasWork(cmd) /\ RoomForEvent
  /\ Fault(IF cc = 1 THEN 0 ELSE 1)
  /\ cmd' = Fetch(cmd)
  /\ evt' = Post("cmd", cmd.deq, cc)
  /\ UNCHANGED <<x_stage, untried, step, awaited, ep0, kbd, reports, last_report, flight, in_order>>

\* Only data and status entries ask for an event; an error halts the endpoint.
HcControl(cc) ==
  /\ HasWork(ep0) /\ RoomForEvent
  /\ Fault(IF cc = 1 THEN 0 ELSE 1)
  /\ LET quiet == ep0.trb[ep0.deq].buf = 0 IN
       /\ ep0' = IF cc = 1 THEN Fetch(ep0) ELSE [ep0 EXCEPT !.halted = TRUE]
       /\ evt' = IF quiet /\ cc = 1 THEN evt ELSE Post("ep0", ep0.deq, cc)
  /\ UNCHANGED <<x_stage, untried, step, awaited, cmd, kbd, reports, last_report, flight, in_order>>

HcLink ==
  /\ \/ AtLink(cmd) /\ cmd' = FollowLink(cmd) /\ UNCHANGED <<ep0, kbd>>
     \/ AtLink(ep0) /\ ep0' = FollowLink(ep0) /\ UNCHANGED <<cmd, kbd>>
     \/ AtLink(kbd) /\ kbd' = FollowLink(kbd) /\ UNCHANGED <<cmd, ep0>>
  /\ UNCHANGED <<x_stage, untried, step, awaited, evt, reports, last_report, flight, faults,
                 in_order>>

HcPort ==
  /\ x_stage \in {"setup", "ready"} /\ RoomForEvent
  /\ Fault(1)
  /\ evt' = Post("port", 0, 1)
  /\ UNCHANGED <<x_stage, untried, step, awaited, cmd, ep0, kbd, reports, last_report, flight, in_order>>

\* A report arrives in the buffer of the next entry.
HcReport(keys) ==
  /\ x_stage = "ready" /\ HasWork(kbd) /\ RoomForEvent
  /\ reports' = [reports EXCEPT ![kbd.trb[kbd.deq].buf] = keys]
  /\ flight' = Append(flight, keys)
  /\ kbd' = Fetch(kbd)
  /\ evt' = Post("kbd", kbd.deq, 1)
  /\ UNCHANGED <<x_stage, untried, step, awaited, cmd, ep0, last_report, faults, in_order>>

\* A transfer error is an event as well, and halts the endpoint.
HcReportError ==
  /\ x_stage = "ready" /\ HasWork(kbd) /\ RoomForEvent
  /\ kbd' = [kbd EXCEPT !.halted = TRUE]
  /\ evt' = Post("kbd", kbd.deq, 4)
  /\ UNCHANGED <<x_stage, untried, step, awaited, cmd, ep0, reports, last_report, flight,
                 faults, in_order>>

----------------------------------------------------------------------------

\* Mutant: the completion code is not looked at.
AnyCompletion(e) == e.ring = "kbd"

\* Success or a short packet, for the keyboard's endpoint.
Delivered(e) == e.ring = "kbd" /\ e.cc = 1

\* One turn of the loop of xhci_poll().  The buffer handled is the one with the
\* number of the entry, and the same number goes into the entry queued again.
xhci_poll ==
  /\ x_stage = "ready" /\ HasEvent
  /\ LET e == evt.trb[evt.deq]
         i == e.trb
     IN  IF Delivered(e)
         THEN /\ in_order' = (in_order /\ flight /= <<>> /\ reports[i] = Head(flight))
              /\ flight' = IF flight = <<>> THEN flight ELSE Tail(flight)
              /\ last_report' = reports[i]
              /\ kbd' = Push(kbd, i)
         ELSE UNCHANGED <<in_order, flight, last_report, kbd>>
  /\ evt' = Advance
  /\ UNCHANGED <<x_stage, untried, step, awaited, cmd, ep0, reports, faults>>

XhciNext ==
  \/ \E ok, connected \in BOOLEAN : xhci_try_controller(ok, connected)
  \/ xhci_none \/ run_command \/ control_transfer \/ AwaitEvent \/ AwaitTimeout
  \/ \E cc \in {1, 4} : HcCommand(cc) \/ HcControl(cc)
  \/ HcLink \/ HcPort \/ HcReportError
  \/ \E keys \in HidReports : HcReport(keys)
  \/ xhci_poll

\* Every report the controller delivers is handled once, in the order of
\* delivery, and read from the buffer it was written to: the rings' cycle bits,
\* links and the numbering of buffers by entry survive every wrap and every
\* port event in between.
ReportsInOrder == in_order

=============================================================================
