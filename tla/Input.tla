-------------------------------- MODULE Input --------------------------------
(***************************************************************************)
(* drivers/input/keyboard/keyboard.c and drivers/input/mouse/mouse.c over  *)
(* the event ring: the bytes the PS/2 devices send, the interrupt handlers *)
(* that queue them and the decoders that kernel_events_process() feeds.    *)
(*                                                                         *)
(* A byte is its number.  The keyboard of this module sends the keys that  *)
(* change decoder state (modifiers, locks, the 0xE0 prefix); keys that     *)
(* reach the shell or the desktop are in Desktop.tla.  The pointer moves   *)
(* along x; y is handled the same way.                                     *)
(***************************************************************************)
EXTENDS EventQueue, Integers

CONSTANTS KeyEvents,     \* byte sequences of the key presses and releases
          Packets,       \* status, x, y and wheel bytes the mouse may send
          Width,         \* screen width
          StartX

\* The events of a set-1 keyboard: one byte, or 0xE0 and one.  Shift and Ctrl have
\* their codes to themselves, and bit 7 says that a key is released.
IsKeyEvent(k) ==
  \E b \in (0..255) \ {224} :
    /\ k.bytes \in {<<b>>, <<224, b>>}
    /\ k.key = "shift" <=> b % 128 \in {42, 54}
    /\ k.key = "shift" => k.bytes = <<b>>
    /\ k.key = "ctrl" <=> b % 128 = 29
    /\ k.key \in {"shift", "ctrl"} => k.down = (b < 128)

\* The first byte of a mouse packet has bit 3 set.
Bit3(b) == (b \div 8) % 2 = 1

Key(b) == <<"key", b>>
MouseByte(b) == <<"mouse", b>>

Ack == 250

\* What the interrupt handlers push are events.
ASSUME InputAssumption ==
  /\ Key(Ack) \in Events
  /\ \A k \in KeyEvents :
       IsKeyEvent(k) /\ \A i \in DOMAIN k.bytes : Key(k.bytes[i]) \in Events
  /\ Packets \subseteq [1..4 -> 0..255]
  /\ \A p \in Packets :
       Bit3(p[1]) /\ \A i \in 1..4 : {Key(p[i]), MouseByte(p[i])} \subseteq Events

VARIABLES kbd,           \* g_shift, g_ctrl, g_alt, g_caps, g_extended
          leds,          \* keyboard_set_leds() is under way
          packet,        \* g_packet up to g_packet_index
          packet_len,    \* g_packet_len
          pointer,       \* g_x, g_buttons
          kout, mout,    \* bytes the devices have still to send (external)
          draining,      \* the keyboard handler looks for another byte
          stray,         \* bytes that the wrong reader took (not in the code)
          keys,          \* what each modifier last sent (external)
          truth          \* where the packets sent lead (external)

decoderVars == <<kbd, packet, packet_len, pointer>>
deviceVars == <<kout, mout, keys, truth>>
inputVars == <<vars, decoderVars, leds, deviceVars, draining, stray>>

\* keyboard_init(), mouse_init(): a wheel mouse answers the detection sequence.
InputInit ==
  /\ Init
  /\ kbd = [shift |-> FALSE, ctrl |-> FALSE, alt |-> FALSE, caps |-> FALSE, extended |-> FALSE]
  /\ leds = FALSE
  /\ packet = <<>> /\ packet_len \in {3, 4}
  /\ pointer = [x |-> StartX, buttons |-> 0]
  /\ kout = <<>> /\ mout = <<>> /\ draining = FALSE /\ stray = 0
  /\ keys = [shift |-> FALSE, ctrl |-> FALSE]
  /\ truth = [x |-> StartX, buttons |-> 0]

-----------------------------------------------------------------------------
(* Decoding *)

Released(sc) == sc >= 128

\* keyboard_process_scancode() up to the keys that have a character, with k for
\* the variables of the driver.
keyboard_process_scancode(k, sc) ==
  LET code == sc % 128
  IN  CASE sc = 224 -> [k EXCEPT !.extended = TRUE]
        [] sc # 224 /\ code = 29 -> [k EXCEPT !.extended = FALSE, !.ctrl = ~Released(sc)]
        [] sc # 224 /\ code = 56 -> [k EXCEPT !.extended = FALSE, !.alt = ~Released(sc)]
        [] sc # 224 /\ code \notin {29, 56} /\ k.extended -> [k EXCEPT !.extended = FALSE]
        [] ~k.extended /\ code \in {42, 54} -> [k EXCEPT !.shift = ~Released(sc)]
        [] ~k.extended /\ sc = 58 -> [k EXCEPT !.caps = ~@]
        [] OTHER -> k

clamp_coord(v) == IF v < 0 THEN 0 ELSE IF v >= Width THEN Width - 1 ELSE v

Signed(b) == IF b < 128 THEN b ELSE b - 256

\* A whole packet: one with an overflow bit is dropped.
Move(at, bytes) ==
  IF bytes[1] >= 64 THEN at
  ELSE [x |-> clamp_coord(at.x + Signed(bytes[2])),
        buttons |-> (bytes[1] % 8) + (IF Len(bytes) = 4 THEN ((bytes[4] \div 16) % 4) * 16 ELSE 0)]

\* Mutant: a packet with an overflow bit is refused at its first byte.
AssembleNoOverflow(p, b) == IF p = <<>> /\ (~Bit3(b) \/ b >= 64) THEN <<>> ELSE Append(p, b)

\* The first byte of a packet has bit 3 set; others are skipped.
Assemble(p, b) == IF p = <<>> /\ ~Bit3(b) THEN <<>> ELSE Append(p, b)

mouse_process_byte(b) ==
  LET bytes == Assemble(packet, b)
  IN  IF Len(bytes) = packet_len
        THEN packet' = <<>> /\ pointer' = Move(pointer, bytes)
        ELSE packet' = bytes /\ UNCHANGED pointer

\* kernel_events_process() hands the popped event to its decoder; a lock key sets
\* the keyboard's lights next.
Dispatch ==
  /\ PopAdvance
  /\ draining' = FALSE
  /\ IF event[1] = "key"
       THEN /\ kbd' = keyboard_process_scancode(kbd, event[2])
            /\ leds' = (kbd'.caps # kbd.caps)
            /\ UNCHANGED <<packet, pointer>>
       ELSE mouse_process_byte(event[2]) /\ UNCHANGED <<kbd, leds>>
  /\ UNCHANGED <<packet_len, deviceVars, stray>>

Pop ==
  /\ ~leds
  /\ PopTest \/ PopCopy
  /\ draining' = FALSE
  /\ UNCHANGED <<decoderVars, leds, deviceVars, stray>>

\* keyboard_set_leds(): keyboard_send() polls for the answer with interrupts open.
\* It reads it, or the handler queues it as a scan code first, or the byte it
\* reads is the next one that a device sends.
LedsAnswered ==
  /\ leds /\ leds' = FALSE
  /\ UNCHANGED <<vars, decoderVars, deviceVars, draining, stray>>

LedsAnswerQueued ==
  /\ leds /\ leds' = FALSE
  /\ event_queue_push(Key(Ack))
  /\ UNCHANGED <<decoderVars, deviceVars, draining, stray>>

LedsSwallow ==
  /\ leds /\ leds' = FALSE
  /\ stray' = stray + 1
  /\ \/ kout # <<>> /\ kout' = Tail(kout) /\ UNCHANGED mout
     \/ mout # <<>> /\ mout' = Tail(mout) /\ UNCHANGED kout
  /\ UNCHANGED <<vars, decoderVars, keys, truth, draining>>

-----------------------------------------------------------------------------
(* Devices and interrupts *)

\* The user presses or releases a key (external).
UseKey(k) ==
  /\ kout = <<>> /\ pushed + dropped < MaxPush
  /\ kout' = k.bytes
  /\ k.key \in DOMAIN keys => keys[k.key] # k.down
  /\ keys' = IF k.key \in DOMAIN keys THEN [keys EXCEPT ![k.key] = k.down] ELSE keys
  /\ UNCHANGED <<vars, decoderVars, leds, mout, truth, draining, stray>>

\* The user moves the mouse (external).
UseMouse(p) ==
  /\ mout = <<>> /\ pushed + dropped < MaxPush
  /\ mout' = SubSeq(p, 1, packet_len)
  /\ truth' = Move(truth, mout')
  /\ UNCHANGED <<vars, decoderVars, leds, kout, keys, draining, stray>>

\* keyboard_handle_irq() reads while there is a byte, whichever device sent it.
keyboard_handle_irq ==
  /\ \/ /\ kout # <<>>
        /\ event_queue_push(Key(Head(kout)))
        /\ kout' = Tail(kout)
        /\ UNCHANGED <<mout, stray>>
     \/ /\ draining /\ kout = <<>> /\ mout # <<>>
        /\ event_queue_push(Key(Head(mout)))
        /\ mout' = Tail(mout)
        /\ stray' = stray + 1
        /\ UNCHANGED kout
  /\ draining' = TRUE
  /\ UNCHANGED <<decoderVars, leds, keys, truth>>

\* mouse_handle_irq() checks that the byte is the mouse's.
mouse_handle_irq ==
  /\ mout # <<>>
  /\ event_queue_push(MouseByte(Head(mout)))
  /\ mout' = Tail(mout)
  /\ draining' = FALSE
  /\ UNCHANGED <<decoderVars, leds, kout, keys, truth, stray>>

InputNext ==
  \/ \E k \in KeyEvents : UseKey(k)
  \/ \E p \in Packets : UseMouse(p)
  \/ keyboard_handle_irq \/ mouse_handle_irq
  \/ Pop \/ Dispatch
  \/ LedsAnswered \/ LedsAnswerQueued \/ LedsSwallow

InputSpec == InputInit /\ [][InputNext]_inputVars

-----------------------------------------------------------------------------
\* While the ring dropped nothing and no byte went to the wrong reader, the
\* decoders agree with the devices whenever everything sent was decoded: a
\* modifier is down exactly when it is held, the pointer is where the packets put
\* it, and no packet is half assembled.
DecodersInSync ==
  (dropped = 0 /\ stray = 0 /\ head = tail /\ pc = "idle" /\ ~leds) =>
    /\ kout = <<>> => /\ kbd.shift = keys.shift /\ kbd.ctrl = keys.ctrl
                      /\ ~kbd.extended
    /\ mout = <<>> => pointer = truth /\ packet = <<>>
=============================================================================
