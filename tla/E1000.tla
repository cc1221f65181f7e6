-------------------------------- MODULE E1000 --------------------------------
(***************************************************************************)
(* drivers/network/e1000/e1000.c and nexus_network_init(): the transmit    *)
(* and receive rings and the card that works on them.  The card owns the   *)
(* descriptors from its head up to the tail it was last told.              *)
(***************************************************************************)
EXTENDS Integers, Sequences

CONSTANTS RingCount,   \* E1000_RING_COUNT
          Frames,      \* frames, with their lengths
          BufferSize   \* E1000_BUFFER_SIZE

ASSUME E1000Assumption == RingCount \in Nat \ {0, 1} /\ BufferSize \in Nat

VARIABLES present,            \* g_e1000.present, "probe" before the bus is looked at
          tx, tx_tail, tdh,   \* g_tx with its buffers, g_tx_tail (TDT), the card's TDH
          rx, rx_next, rdh, rdt,
          sending, arrived,   \* frames accepted and not sent, arrived and not polled
          frames_in_order

e1000_vars == <<present, tx, tx_tail, tdh, rx, rx_next, rdh, rdt, sending, arrived,
                frames_in_order>>

Slots == 0..(RingCount - 1)
After(i) == (i + 1) % RingCount
NoFrame == [id |-> "none", len |-> 0]

E1000Init ==
  /\ present = "probe"
  /\ tx = [i \in Slots |-> [dd |-> TRUE, frame |-> NoFrame]] /\ tx_tail = 0 /\ tdh = 0
  /\ rx = [i \in Slots |-> [dd |-> FALSE, frame |-> NoFrame]] /\ rx_next = 0
  /\ rdh = 0 /\ rdt = RingCount - 1
  /\ sending = <<>> /\ arrived = <<>> /\ frames_in_order = TRUE

\* The first network controller on the bus; it must be a supported one, with a
\* BAR, and the pages of setup_rings() must be there.
e1000_init(found) ==
  /\ present = "probe"
  /\ present' \in {"no"} \cup (IF found THEN {"yes"} ELSE {})
  /\ UNCHANGED <<tx, tx_tail, tdh, rx, rx_next, rdh, rdt, sending, arrived, frames_in_order>>

\* Mutant: a descriptor is reused before the card is done with it.
TxAnyway(i) == TRUE

TxFree(i) == tx[i].dd

e1000_send(f) ==
  /\ present = "yes" /\ f.len > 0 /\ f.len <= BufferSize
  /\ TxFree(tx_tail)
  /\ tx' = [tx EXCEPT ![tx_tail] = [dd |-> FALSE, frame |-> f]]
  /\ tx_tail' = After(tx_tail)
  /\ sending' = Append(sending, f)
  /\ UNCHANGED <<present, tdh, rx, rx_next, rdh, rdt, arrived, frames_in_order>>

\* A frame that is too long for the caller is taken and dropped: the descriptor
\* goes back to the card either way.
e1000_poll ==
  /\ present = "yes"
  /\ LET d == rx[rx_next] IN
       /\ d.dd
       /\ frames_in_order' = (frames_in_order /\ arrived /= <<>> /\ Head(arrived) = d.frame)
       /\ arrived' = IF arrived = <<>> THEN arrived ELSE Tail(arrived)
  /\ rx' = [rx EXCEPT ![rx_next].dd = FALSE]
  /\ rdt' = rx_next
  /\ rx_next' = After(rx_next)
  /\ UNCHANGED <<present, tx, tx_tail, tdh, rdh, sending>>

\* The card: it sends the frame at its head, and stores one that arrives.
CardSends ==
  /\ present = "yes" /\ tdh /= tx_tail
  /\ frames_in_order' = (frames_in_order /\ sending /= <<>> /\ Head(sending) = tx[tdh].frame)
  /\ sending' = IF sending = <<>> THEN sending ELSE Tail(sending)
  /\ tx' = [tx EXCEPT ![tdh].dd = TRUE]
  /\ tdh' = After(tdh)
  /\ UNCHANGED <<present, tx_tail, rx, rx_next, rdh, rdt, arrived>>

CardReceives(f) ==
  /\ present = "yes" /\ rdh /= rdt
  /\ rx' = [rx EXCEPT ![rdh] = [dd |-> TRUE, frame |-> f]]
  /\ rdh' = After(rdh)
  /\ arrived' = Append(arrived, f)
  /\ UNCHANGED <<present, tx, tx_tail, tdh, rx_next, rdt, sending, frames_in_order>>

E1000Next ==
  \/ e1000_poll \/ CardSends
  \/ \E f \in Frames : e1000_send(f) \/ CardReceives(f)

\* Frames leave in the order e1000_send() accepted them and are polled in the
\* order they arrived, none twice and none overwritten on the way, through
\* every wrap of the two rings.
FramesInOrder == frames_in_order

=============================================================================
