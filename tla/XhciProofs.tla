----------------------------- MODULE XhciProofs -----------------------------
(***************************************************************************)
(* The inductive invariant of the xHCI driver with the controller and the  *)
(* keyboard at the other end: rings of any size, any number of events and  *)
(* reports.  StartupProofs.tla puts it together with the other drivers.    *)
(***************************************************************************)
EXTENDS Xhci, WellFoundedInduction, TLAPS

\* A leaf that names no prover is given to Zenon.
USE ZenonT(60)

\* The order of the natural numbers, as a relation.
Less == {p \in Nat \X Nat : p[1] < p[2]}

\* It is well founded.
LEMMA LessWellFounded == IsWellFoundedOn(Less, Nat)
<1>1. OpToRel(<, Nat) = Less
  BY DEF OpToRel, Less
<1> QED
  BY <1>1, NatLessThanWellFounded

\* A set of natural numbers has a smallest member.  Arguments by induction over
\* the entries of a ring or the bytes of a buffer take the smallest exception.
LEMMA Smallest ==
  ASSUME NEW T, T \subseteq Nat, T # {}
  PROVE  \E x \in T : \A y \in T : x <= y
<1>1. \A x, y \in Nat : y < x => <<y, x>> \in Less
  BY SMTT(60) DEF Less
<1>2. PICK z \in T : \A y \in T : ~(<<y, z>> \in Less)
  BY LessWellFounded, WFMin
<1>3. ASSUME NEW y \in T PROVE z <= y
  <2>1. y \in Nat /\ z \in Nat /\ ~(<<y, z>> \in Less)
    BY <1>2, SMTT(60)
  <2>2. ~(y < z)
    BY <2>1, <1>1, SMTT(60)
  <2> QED
    BY <2>1, <2>2, SMTT(60)
<1> QED
  BY <1>3, SMTT(60)

\* The keyboard sends another report.
LEMMA ReportPut ==
  ASSUME NEW S, NEW q \in Seq(S), NEW e \in S
  PROVE  /\ Append(q, e) \in Seq(S) /\ Len(Append(q, e)) = Len(q) + 1
         /\ \A i \in 1..Len(q) : Append(q, e)[i] = q[i]
         /\ Append(q, e)[Len(q) + 1] = e
  BY SMTT(60)

\* The driver takes the oldest report.
LEMMA ReportTaken ==
  ASSUME NEW S, NEW q \in Seq(S), q # << >>
  PROVE  /\ Head(q) = q[1] /\ Head(q) \in S
         /\ Tail(q) \in Seq(S) /\ Len(Tail(q)) = Len(q) - 1
         /\ \A i \in 1..Len(Tail(q)) : Tail(q)[i] = q[i + 1]
  BY SMTT(60)

\* How far place s is behind place h in a ring of n.
Offset(n, h, s) == IF s >= h THEN s - h ELSE s - h + n

\* The place k after place h in a ring of n.
Place(n, h, k) == IF h + k >= n THEN h + k - n ELSE h + k

\* Cycle bits.
LEMMA FlipBit == \A b \in {0, 1} : 1 - b \in {0, 1} /\ 1 - b # b /\ 1 - (1 - b) = b
  BY SMTT(60)

-----------------------------------------------------------------------------
(* drivers/usb/xhci.c: the rings.                                          *)

\* The rings of n entries that the driver fills, the last entry a link.
Trbs == [cycle : {0, 1}, buf : Nat]

\* The arrays of a ring.
TrbArrays(n) == [0..(n - 1) -> Trbs]

\* The rings themselves.
RingsOf(n) ==
  [size : {n}, enq : 0..(n - 2), cycle : {0, 1}, trb : TrbArrays(n),
   deq : 0..(n - 1), ccs : {0, 1}, halted : BOOLEAN]

\* A cleared ring is one.
LEMMA RingTyped ==
  ASSUME NEW n \in Nat, n > 2
  PROVE  Ring(n) \in RingsOf(n)
<1>1. [i \in 0..(n - 1) |-> [cycle |-> 0, buf |-> 0]] \in TrbArrays(n)
  BY DEF TrbArrays, Trbs
<1>2. 0 \in 0..(n - 2) /\ 0 \in 0..(n - 1)
  BY SMTT(60)
<1> QED
  BY <1>1, <1>2 DEF Ring, RingsOf

\* cmd_ring_push(), ep0_ring_push_raw() and kbd_ring_push_normal(): the entry is
\* written where the driver is, which goes on round the ring.
LEMMA PushFields ==
  ASSUME NEW n \in Nat, n > 2, NEW r \in RingsOf(n), NEW b \in Nat
  PROVE  /\ Push(r, b) \in RingsOf(n)
         /\ Push(r, b).enq = Place(n - 1, r.enq, 1)
         /\ Push(r, b).cycle = IF r.enq + 1 = n - 1 THEN 1 - r.cycle ELSE r.cycle
         /\ Push(r, b).deq = r.deq /\ Push(r, b).ccs = r.ccs /\ Push(r, b).halted = r.halted
         /\ Push(r, b).trb[r.enq] = [cycle |-> r.cycle, buf |-> b]
         /\ \A i \in 0..(n - 2) : i # r.enq => Push(r, b).trb[i] = r.trb[i]
<1> DEFINE e == [cycle |-> r.cycle, buf |-> b]
           put == [r.trb EXCEPT ![r.enq] = e]
           lnk == [put EXCEPT ![n - 1].cycle = r.cycle]
           p == Push(r, b)
<1> /\ r.size = n /\ r.enq \in 0..(n - 2) /\ r.cycle \in {0, 1} /\ r.trb \in TrbArrays(n)
    /\ r.enq \in 0..(n - 1) /\ n - 1 \in 0..(n - 1) /\ r.enq # n - 1
  BY SMTT(60) DEF RingsOf
<1> e \in Trbs /\ 1 - r.cycle \in {0, 1}
  BY SMTT(60) DEF Trbs
<1> HIDE DEF e
<1> /\ put \in TrbArrays(n) /\ put[r.enq] = e /\ \A i \in 0..(n - 1) : i # r.enq => put[i] = r.trb[i]
  BY DEF TrbArrays
<1>4. [put[n - 1] EXCEPT !.cycle = r.cycle] \in Trbs
  <2>1. put[n - 1] \in Trbs
    BY DEF TrbArrays
  <2> QED
    BY <2>1 DEF Trbs
<1> HIDE DEF put
<1> /\ lnk \in TrbArrays(n) /\ \A i \in 0..(n - 2) : lnk[i] = put[i]
  <2> DEFINE l == [put[n - 1] EXCEPT !.cycle = r.cycle]
  <2>1. lnk = [put EXCEPT ![n - 1] = l]
    OBVIOUS
  <2>2. l \in Trbs
    BY <1>4
  <2> HIDE DEF l
  <2>3. [put EXCEPT ![n - 1] = l] \in TrbArrays(n)
    BY <2>2 DEF TrbArrays
  <2>4. \A i \in 0..(n - 2) : [put EXCEPT ![n - 1] = l][i] = put[i]
    BY SMTT(60) DEF TrbArrays
  <2> QED
    BY <2>1, <2>3, SMTT(60)
<1> HIDE DEF lnk
<1> CASE r.enq + 1 = n - 1
  <2> p = [r EXCEPT !.trb = lnk, !.enq = 0, !.cycle = 1 - r.cycle]
    BY DEF Push, lnk, put, e
  <2>2. 0 \in 0..(n - 2)
    BY SMTT(60)
  <2> HIDE DEF p
  <2>3. p \in RingsOf(n)
    BY <2>2 DEF RingsOf
  <2>4. /\ p.trb = lnk /\ p.enq = 0 /\ p.cycle = 1 - r.cycle
        /\ p.deq = r.deq /\ p.ccs = r.ccs /\ p.halted = r.halted
    BY DEF RingsOf
  <2>5. Place(n - 1, r.enq, 1) = 0
    BY SMTT(60) DEF Place
  <2> QED
    BY <2>3, <2>4, <2>5, SMTT(60) DEF p, e
<1> CASE r.enq + 1 # n - 1
  <2>1. p = [r EXCEPT !.trb = put, !.enq = r.enq + 1]
    BY DEF Push, put, e
  <2>2. r.enq + 1 \in 0..(n - 2)
    BY SMTT(60)
  <2> HIDE DEF p
  <2>3. p \in RingsOf(n)
    BY <2>1, <2>2 DEF RingsOf
  <2>4. /\ p.trb = put /\ p.enq = r.enq + 1 /\ p.cycle = r.cycle
        /\ p.deq = r.deq /\ p.ccs = r.ccs /\ p.halted = r.halted
    BY <2>1 DEF RingsOf
  <2>5. Place(n - 1, r.enq, 1) = r.enq + 1
    BY SMTT(60) DEF Place
  <2> QED
    BY <2>3, <2>4, <2>5, SMTT(60) DEF p, e
<1> QED
  OBVIOUS

\* The controller goes on to the next entry, the link included.
LEMMA FetchFields ==
  ASSUME NEW n \in Nat, n > 2, NEW r \in RingsOf(n), HasWork(r)
  PROVE  /\ Fetch(r) \in RingsOf(n)
         /\ Fetch(r).deq = r.deq + 1 /\ r.deq \in 0..(n - 2)
         /\ Fetch(r).enq = r.enq /\ Fetch(r).cycle = r.cycle /\ Fetch(r).trb = r.trb
         /\ Fetch(r).ccs = r.ccs /\ Fetch(r).halted = r.halted
<1> r.size = n /\ r.deq \in 0..(n - 2) /\ r.deq + 1 \in 0..(n - 1)
  BY SMTT(60) DEF HasWork, RingsOf
<1> Fetch(r) = [r EXCEPT !.deq = r.deq + 1]
  BY SMTT(60) DEF Fetch
<1>3. Fetch(r) \in RingsOf(n)
  BY DEF RingsOf
<1> QED
  BY DEF RingsOf

\* The controller goes from the link to the first entry.
LEMMA FollowFields ==
  ASSUME NEW n \in Nat, n > 2, NEW r \in RingsOf(n), AtLink(r)
  PROVE  /\ FollowLink(r) \in RingsOf(n)
         /\ r.deq = n - 1 /\ FollowLink(r).deq = 0 /\ FollowLink(r).ccs = 1 - r.ccs
         /\ FollowLink(r).enq = r.enq /\ FollowLink(r).cycle = r.cycle
         /\ FollowLink(r).trb = r.trb /\ FollowLink(r).halted = r.halted
<1> r.size = n /\ r.deq = n - 1 /\ 0 \in 0..(n - 1) /\ 1 - r.ccs \in {0, 1}
  BY SMTT(60) DEF AtLink, RingsOf
<1>2. FollowLink(r) \in RingsOf(n)
  BY DEF RingsOf, FollowLink
<1> QED
  BY <1>2 DEF RingsOf, FollowLink

\* An error halts a ring.
LEMMA HaltFields ==
  ASSUME NEW n \in Nat, n > 2, NEW r \in RingsOf(n), NEW q, q = [r EXCEPT !.halted = TRUE]
  PROVE  /\ q \in RingsOf(n) /\ q.deq = r.deq /\ q.ccs = r.ccs
         /\ q.enq = r.enq /\ q.cycle = r.cycle /\ q.trb = r.trb
<1>1. q \in RingsOf(n)
  BY DEF RingsOf
<1> QED
  BY <1>1 DEF RingsOf

-----------------------------------------------------------------------------
\* The event ring of xhci.c.
EvtPlaces == 0..(EvtTrbs - 1)

\* The events the driver tells apart, and their ring.
Events == [cycle : {0, 1}, ring : {"none", "cmd", "ep0", "port", "kbd"}, trb : Nat, cc : Nat]

\* The entries of the ring.
EventArrays == [EvtPlaces -> Events]

\* The event ring, with the places of the driver and of the controller.
EventRings ==
  [trb : EventArrays, deq : EvtPlaces, cycle : {0, 1}, erdp : EvtPlaces, enq : EvtPlaces, pcs : {0, 1}]

\* How many events the driver has still to look at.
Waiting(v) == Offset(EvtTrbs, v.deq, v.enq)

\* The event ring: the controller knows the entry the driver looked at last (or
\* that it looked at none) and keeps off it, the entries written in this lap
\* carry the controller's cycle bit and the others the one of the lap before.
EventsMark(v) ==
  /\ v \in EventRings
  /\ \/ v.deq = 0 /\ v.erdp = 0
     \/ v.deq = Place(EvtTrbs, v.erdp, 1) /\ Waiting(v) < EvtTrbs - 1
  /\ \A s \in EvtPlaces : v.trb[s].cycle = IF s < v.enq THEN v.pcs ELSE 1 - v.pcs
  /\ v.cycle = IF v.deq <= v.enq THEN v.pcs ELSE 1 - v.pcs

\* xhci_try_controller() starts a controller with an empty event ring.
LEMMA EventRingMarks == EventsMark(EventRing) /\ \A s \in EvtPlaces : EventRing.trb[s].ring = "none"
<1>1. EvtTrbs \in Nat /\ EvtTrbs > 1
  BY XhciAssumption, SMTT(60)
<1> /\ EventRing.trb \in EventArrays
    /\ \A s \in EvtPlaces : EventRing.trb[s].cycle = 0 /\ EventRing.trb[s].ring = "none"
  BY DEF EventRing, EventArrays, Events, EvtPlaces
<1> 0 \in EvtPlaces /\ \A s \in EvtPlaces : ~(s < 0)
  BY <1>1, SMTT(60) DEF EvtPlaces
<1>4. EventRing \in EventRings
  BY DEF EventRing, EventRings
<1>5. /\ EventRing.deq = 0 /\ EventRing.cycle = 1 /\ EventRing.erdp = 0
      /\ EventRing.enq = 0 /\ EventRing.pcs = 1
  BY DEF EventRing
<1> QED
  BY <1>4, <1>5, SMTT(60) DEF EventsMark

\* The controller writes an event where it is, and never over one the driver
\* has still to look at.
LEMMA PostEvent ==
  ASSUME EventsMark(evt), RoomForEvent,
         NEW rg \in {"cmd", "ep0", "port", "kbd"}, NEW i \in Nat, NEW cc \in Nat,
         NEW v, v = Post(rg, i, cc)
  PROVE  /\ EventsMark(v) /\ v.deq = evt.deq /\ evt.enq \in EvtPlaces
         /\ v.trb[evt.enq].ring = rg /\ v.trb[evt.enq].trb = i /\ v.trb[evt.enq].cc = cc
         /\ \A s \in EvtPlaces : s # evt.enq => v.trb[s] = evt.trb[s]
         /\ Waiting(v) = Waiting(evt) + 1
<1> DEFINE E == EvtTrbs
           e == [cycle |-> evt.pcs, ring |-> rg, trb |-> i, cc |-> cc]
           t2 == [evt.trb EXCEPT ![evt.enq] = e]
           q2 == (evt.enq + 1) % E
           p2 == IF evt.enq + 1 = E THEN 1 - evt.pcs ELSE evt.pcs
<1> E \in Nat /\ E > 1
  BY XhciAssumption, SMTT(60)
<1> /\ evt \in EventRings /\ evt.trb \in EventArrays /\ evt.enq \in EvtPlaces /\ evt.pcs \in {0, 1}
    /\ evt.deq \in EvtPlaces /\ evt.erdp \in EvtPlaces /\ evt.cycle \in {0, 1}
  BY DEF EventsMark, EventRings
<1> q2 \in EvtPlaces /\ q2 = Place(E, evt.enq, 1)
  BY SMTT(60) DEF EvtPlaces, Place
<1> e \in Events /\ e.cycle = evt.pcs /\ e.ring = rg /\ e.trb = i /\ e.cc = cc
  BY DEF Events
<1>4. p2 \in {0, 1}
  BY SMTT(60)
<1> v = [evt EXCEPT !.trb = t2, !.enq = q2, !.pcs = p2]
  BY DEF Post, EventRings
<1> HIDE DEF e
<1>6. /\ t2 \in EventArrays /\ t2[evt.enq] = e /\ \A s \in EvtPlaces : s # evt.enq => t2[s] = evt.trb[s]
  BY DEF EventArrays
<1> HIDE DEF t2, q2, p2
<1>7. v \in EventRings
  BY <1>4, <1>6 DEF EventRings
<1>8. /\ v.trb = t2 /\ v.enq = q2 /\ v.pcs = p2
      /\ v.deq = evt.deq /\ v.cycle = evt.cycle /\ v.erdp = evt.erdp
  BY DEF EventRings
<1> Place(E, evt.enq, 1) # evt.erdp
  BY DEF RoomForEvent, q2
<1> q2 # evt.deq /\ Waiting(v) = Waiting(evt) + 1
  BY <1>8, SMTT(60) DEF EventsMark, Waiting, Offset, Place, EvtPlaces
<1>11. \/ v.deq = 0 /\ v.erdp = 0
       \/ v.deq = Place(EvtTrbs, v.erdp, 1) /\ Waiting(v) < EvtTrbs - 1
  BY <1>8, SMTT(60) DEF EventsMark, Waiting, Offset, Place, EvtPlaces
<1>12. ASSUME NEW s \in EvtPlaces PROVE t2[s].cycle = IF s < q2 THEN p2 ELSE 1 - p2
  <2>1. t2[s].cycle = IF s = evt.enq THEN evt.pcs ELSE IF s < evt.enq THEN evt.pcs ELSE 1 - evt.pcs
    BY <1>6 DEF EventsMark
  <2> QED
    BY <2>1, SMTT(60) DEF Place, EvtPlaces, p2
<1>13. v.cycle = IF v.deq <= v.enq THEN v.pcs ELSE 1 - v.pcs
  BY <1>8, SMTT(60) DEF EventsMark, Place, EvtPlaces, p2
<1>14. EventsMark(v)
  BY <1>7, <1>8, <1>11, <1>12, <1>13, SMTT(60) DEF EventsMark
<1> QED
  BY <1>6, <1>8, <1>14

\* The driver sees an event exactly when one is waiting, and goes on to the next.
LEMMA AdvanceEvent ==
  ASSUME EventsMark(evt), HasEvent, NEW v, v = Advance
  PROVE  /\ EventsMark(v) /\ v.trb = evt.trb /\ evt.deq \in EvtPlaces
         /\ Waiting(evt) > 0 /\ Waiting(v) = Waiting(evt) - 1
         /\ Offset(EvtTrbs, evt.deq, evt.deq) = 0
         /\ \A s \in EvtPlaces : s # evt.deq =>
              Offset(EvtTrbs, v.deq, s) = Offset(EvtTrbs, evt.deq, s) - 1
         /\ Offset(EvtTrbs, v.deq, evt.deq) = EvtTrbs - 1
<1> DEFINE E == EvtTrbs
           q2 == (evt.deq + 1) % E
           c2 == IF evt.deq + 1 = E THEN 1 - evt.cycle ELSE evt.cycle
<1> E \in Nat /\ E > 1
  BY XhciAssumption, SMTT(60)
<1> /\ evt \in EventRings /\ evt.trb \in EventArrays /\ evt.enq \in EvtPlaces /\ evt.pcs \in {0, 1}
    /\ evt.deq \in EvtPlaces /\ evt.erdp \in EvtPlaces /\ evt.cycle \in {0, 1}
  BY DEF EventsMark, EventRings
<1> q2 \in EvtPlaces /\ q2 = Place(E, evt.deq, 1) /\ c2 \in {0, 1}
  BY SMTT(60) DEF EvtPlaces, Place
<1> v = [evt EXCEPT !.erdp = evt.deq, !.deq = q2, !.cycle = c2]
  BY DEF Advance
<1> HIDE DEF q2, c2
<1>4. v \in EventRings
  BY DEF EventRings
<1>5. /\ v.erdp = evt.deq /\ v.deq = q2 /\ v.cycle = c2
      /\ v.trb = evt.trb /\ v.enq = evt.enq /\ v.pcs = evt.pcs
  BY DEF EventRings
<1> ASSUME evt.deq = evt.enq PROVE FALSE
  <2> ~(evt.deq < evt.enq) /\ evt.deq <= evt.enq
    BY SMTT(60) DEF EvtPlaces
  <2>2. evt.trb[evt.deq].cycle = 1 - evt.pcs
    BY DEF EventsMark
  <2>3. evt.cycle = evt.pcs
    BY DEF EventsMark
  <2> QED
    BY <2>2, <2>3, FlipBit DEF HasEvent
<1> Waiting(evt) > 0 /\ Waiting(v) = Waiting(evt) - 1 /\ Waiting(evt) \in 0..(E - 1)
  BY <1>5, SMTT(60) DEF Waiting, Offset, Place, EvtPlaces
<1>8. v.deq = Place(EvtTrbs, v.erdp, 1) /\ Waiting(v) < EvtTrbs - 1
  BY <1>5, SMTT(60)
<1>9. v.cycle = IF v.deq <= v.enq THEN v.pcs ELSE 1 - v.pcs
  BY <1>5, SMTT(60) DEF EventsMark, Place, EvtPlaces, c2
<1>10. EventsMark(v)
  BY <1>4, <1>5, <1>8, <1>9, SMTT(60) DEF EventsMark
<1>11. /\ Offset(EvtTrbs, evt.deq, evt.deq) = 0 /\ Offset(EvtTrbs, v.deq, evt.deq) = EvtTrbs - 1
       /\ \A s \in EvtPlaces : s # evt.deq =>
            Offset(EvtTrbs, v.deq, s) = Offset(EvtTrbs, evt.deq, s) - 1
  BY <1>5, SMTT(60) DEF Offset, Place, EvtPlaces
<1> QED
  BY <1>5, <1>10, <1>11

\* CMD_RING_TRBS, EP0_RING_TRBS and KBD_RING_TRBS leave room for a link.
LEMMA RingSizes ==
  /\ CmdTrbs \in Nat /\ CmdTrbs > 2 /\ Ep0Trbs \in Nat /\ Ep0Trbs > 2
  /\ KbdTrbs \in Nat /\ KbdTrbs > 2 /\ EvtTrbs \in Nat /\ EvtTrbs > 1
<1>1. EvtTrbs \in Nat /\ EvtTrbs > 1
  BY XhciAssumption, SMTT(60)
<1> QED
  BY <1>1, XhciAssumption

\* The recursion of FilledRing, up to entry m.
Filling(g, m) == g = [i \in 0..m |-> IF i = 0 THEN Ring(KbdTrbs) ELSE Push(g[i - 1], i - 1)]

\* Such a function exists for every number of entries.
LEMMA FillingExists == \A m \in Nat : \E g : Filling(g, m)
<1> DEFINE T == {m \in Nat : ~\E g : Filling(g, m)}
<1>1. SUFFICES ASSUME T # {} PROVE FALSE
  OBVIOUS
<1>2. T \subseteq Nat
  OBVIOUS
<1>3. \E m \in T : \A k \in T : m <= k
  <2> HIDE DEF T
  <2> QED
    BY <1>1, <1>2, Smallest
<1>4. PICK m \in T : \A k \in T : m <= k
  BY <1>3
<1> m \in Nat /\ ~\E g : Filling(g, m)
  OBVIOUS
<1> CASE m = 0
  <2> DEFINE h == [i \in 0..0 |-> Ring(KbdTrbs)]
  <2>1. \A i \in 0..0 : i = 0
    BY SMTT(60)
  <2>2. h = [i \in 0..0 |-> IF i = 0 THEN Ring(KbdTrbs) ELSE Push(h[i - 1], i - 1)]
    BY <2>1
  <2> QED
    BY <2>2 DEF Filling
<1> CASE m # 0
  <2>1. m - 1 \in Nat /\ m - 1 \notin T
    BY <1>4, SMTT(60)
  <2>2. PICK g : Filling(g, m - 1)
    BY <2>1
  <2> DEFINE h == [i \in 0..m |-> IF i = 0 THEN Ring(KbdTrbs) ELSE Push(g[i - 1], i - 1)]
  <2>3. \A i \in 0..(m - 1) : g[i] = IF i = 0 THEN Ring(KbdTrbs) ELSE Push(g[i - 1], i - 1)
    BY <2>2 DEF Filling
  <2>4. \A i \in 0..m : i # 0 => i - 1 \in 0..(m - 1) /\ i - 1 \in 0..m
    BY SMTT(60)
  <2>5. \A i \in 0..m : i # 0 => h[i - 1] = g[i - 1]
    <3> SUFFICES ASSUME NEW i \in 0..m, i # 0 PROVE h[i - 1] = g[i - 1]
      OBVIOUS
    <3>1. i - 1 \in 0..(m - 1) /\ i - 1 \in 0..m
      BY SMTT(60)
    <3> DEFINE k == i - 1
    <3>2. k \in 0..(m - 1) /\ k \in 0..m
      BY SMTT(60)
    <3> HIDE DEF k
    <3>3. h[k] = g[k]
      BY <3>2, <2>3
    <3> QED
      BY <3>3 DEF k
  <2>6. h = [i \in 0..m |-> IF i = 0 THEN Ring(KbdTrbs) ELSE Push(h[i - 1], i - 1)]
    BY <2>5
  <2> HIDE DEF h
  <2>7. Filling(h, m)
    BY <2>6 DEF Filling
  <2> QED
    BY <2>7
<1> QED
  OBVIOUS

\* A keyboard ring with its first i entries pushed, and one with all of them.
Partly(r, i) ==
  /\ r.enq = i /\ r.cycle = 1
  /\ \A j \in 0..(KbdTrbs - 2) : j < i => r.trb[j].cycle = 1 /\ r.trb[j].buf = j

\* Every entry but the links was pushed.
AllPushed(r) ==
  /\ r.enq = 0 /\ r.cycle = 0
  /\ \A j \in 0..(KbdTrbs - 2) : r.trb[j].cycle = 1 /\ r.trb[j].buf = j

\* The set-up leaves a ring with a normal entry before every link, all of them
\* the controller's, each with the buffer of its own number.
LEMMA FilledRingFull ==
  /\ FilledRing \in RingsOf(KbdTrbs) /\ FilledRing.deq = 0 /\ FilledRing.ccs = 1
  /\ AllPushed(FilledRing)
<1> DEFINE K == KbdTrbs
           F == CHOOSE g : Filling(g, K - 1)
           Good(i) == /\ F[i] \in RingsOf(K) /\ F[i].deq = 0 /\ F[i].ccs = 1
                      /\ IF i = K - 1 THEN AllPushed(F[i]) ELSE Partly(F[i], i)
<1> K \in Nat /\ K > 2
  BY RingSizes
<1>1. FilledRing = F[K - 1]
  BY DEF FilledRing, Filling
<1>2. Filling(F, K - 1)
  <2>1. \E g : Filling(g, K - 1)
    BY FillingExists, SMTT(60)
  <2> QED
    BY <2>1
<1> HIDE DEF F
<1> \A i \in 0..(K - 1) : F[i] = IF i = 0 THEN Ring(K) ELSE Push(F[i - 1], i - 1)
  BY <1>2 DEF Filling
<1>4. Good(0)
  <2> F[0] = Ring(K) /\ F[0] \in RingsOf(K) /\ 0 # K - 1
    BY RingTyped, SMTT(60)
  <2>2. F[0].deq = 0 /\ F[0].ccs = 1 /\ F[0].enq = 0 /\ F[0].cycle = 1
    BY SMTT(60) DEF Ring
  <2>3. \A j \in 0..(K - 2) : ~(j < 0)
    BY SMTT(60)
  <2> QED
    BY <2>2, SMTT(60) DEF Partly
<1> ASSUME NEW i \in 0..(K - 1), i # 0, Good(i - 1) PROVE Good(i)
  <2> DEFINE r == F[i - 1]
             b == i - 1
  <2>1. F[i] = Push(r, b) /\ b \in Nat /\ b # K - 1 /\ b \in 0..(K - 2)
    BY SMTT(60)
  <2> r \in RingsOf(K) /\ r.deq = 0 /\ r.ccs = 1 /\ Partly(r, b)
    BY SMTT(60)
  <2> HIDE DEF r, b
  <2> /\ F[i] \in RingsOf(K)
      /\ F[i].enq = Place(K - 1, r.enq, 1)
      /\ F[i].cycle = IF r.enq + 1 = K - 1 THEN 1 - r.cycle ELSE r.cycle
      /\ F[i].deq = r.deq /\ F[i].ccs = r.ccs
      /\ F[i].trb[r.enq] = [cycle |-> r.cycle, buf |-> b]
      /\ \A j \in 0..(K - 2) : j # r.enq => F[i].trb[j] = r.trb[j]
    BY <2>1, PushFields, SMTT(60)
  <2> r.enq = b /\ r.cycle = 1 /\ \A j \in 0..(K - 2) : j < b => r.trb[j].cycle = 1 /\ r.trb[j].buf = j
    BY DEF Partly
  <2>5. \A j \in 0..(K - 2) : j <= b => F[i].trb[j].cycle = 1 /\ F[i].trb[j].buf = j
    BY <2>1, SMTT(60)
  <2> CASE i = K - 1
    <3>1. F[i].enq = 0 /\ F[i].cycle = 0
      BY SMTT(60) DEF Place, b
    <3>2. \A j \in 0..(K - 2) : j <= b
      BY SMTT(60) DEF b
    <3> QED
      BY <2>5, <3>1, <3>2 DEF AllPushed
  <2> CASE i # K - 1
    <3>1. F[i].enq = i /\ F[i].cycle = 1
      BY SMTT(60) DEF Place, b
    <3>2. \A j \in 0..(K - 2) : j < i => j <= b
      BY SMTT(60) DEF b
    <3> QED
      BY <2>5, <3>1, <3>2 DEF Partly
  <2> QED
    OBVIOUS
<1>6. Good(K - 1)
  <2> DEFINE T == {i \in 0..(K - 1) : ~Good(i)}
  <2>1. K - 1 \in 0..(K - 1) /\ T \subseteq Nat
    BY SMTT(60)
  <2>2. SUFFICES ASSUME T # {} PROVE FALSE
    BY <2>1
  <2>3. \E i \in T : \A j \in T : i <= j
    <3> HIDE DEF T
    <3> QED
      BY <2>1, <2>2, Smallest
  <2> HIDE DEF Good
  <2>4. PICK i \in T : \A j \in T : i <= j
    BY <2>3
  <2>5. i \in 0..(K - 1) /\ ~Good(i) /\ i # 0
    BY <1>4
  <2>6. i - 1 \in 0..(K - 1) /\ i - 1 \notin T
    BY <2>4, <2>5, SMTT(60)
  <2>7. Good(i - 1)
    BY <2>6
  <2> QED
    BY <2>5, <2>7
<1> QED
  BY <1>1, <1>6

-----------------------------------------------------------------------------
\* The places of the keyboard ring without its link.
KbdEntries == KbdTrbs - 1

\* The entries of the keyboard's ring.
KbdPlaces == 0..(KbdEntries - 1)

\* The keyboard ring r when the driver has still to handle n reports: every
\* entry has the buffer of its own number, those queued in this lap carry the
\* driver's cycle bit, and the controller is n entries ahead, perhaps still at
\* the link, with the cycle bit that goes with its place.
KbdMark(r, n) ==
  /\ r \in RingsOf(KbdTrbs) /\ n \in 0..KbdEntries
  /\ \A i \in KbdPlaces :
       r.trb[i].buf = i /\ r.trb[i].cycle = IF i < r.enq THEN r.cycle ELSE 1 - r.cycle
  /\ LET ccs == IF r.enq + n >= KbdEntries THEN r.cycle ELSE 1 - r.cycle IN
       \/ r.deq = Place(KbdEntries, r.enq, n) /\ r.ccs = ccs
       \/ r.deq = KbdEntries /\ Place(KbdEntries, r.enq, n) = 0 /\ r.ccs = 1 - ccs

\* The types behind KbdMark.
LEMMA KbdFacts ==
  ASSUME NEW r, NEW n, KbdMark(r, n)
  PROVE  /\ KbdTrbs \in Nat /\ KbdTrbs > 2 /\ KbdEntries = KbdTrbs - 1 /\ KbdEntries \in Nat /\ KbdEntries > 1
         /\ n \in 0..KbdEntries /\ r \in RingsOf(KbdTrbs) /\ r.enq \in KbdPlaces
         /\ r.cycle \in {0, 1} /\ r.ccs \in {0, 1} /\ KbdPlaces = 0..(KbdTrbs - 2)
  BY RingSizes, SMTT(60) DEF KbdMark, RingsOf, KbdEntries, KbdPlaces

\* The ring that the set-up leaves.
LEMMA KbdFilled == KbdMark(FilledRing, 0)
<1> KbdTrbs \in Nat /\ KbdTrbs > 2
  BY RingSizes
<1> DEFINE r == FilledRing
<1>2. /\ r \in RingsOf(KbdTrbs) /\ r.deq = 0 /\ r.ccs = 1 /\ r.enq = 0 /\ r.cycle = 0
      /\ \A j \in 0..(KbdTrbs - 2) : r.trb[j].cycle = 1 /\ r.trb[j].buf = j
  BY FilledRingFull DEF AllPushed
<1> HIDE DEF r
<1>3. \A j \in KbdPlaces : j \in 0..(KbdTrbs - 2) /\ ~(j < 0)
  BY SMTT(60) DEF KbdPlaces, KbdEntries
<1>4. Place(KbdEntries, 0, 0) = 0 /\ ~(0 + 0 >= KbdEntries) /\ 0 \in 0..KbdEntries
  BY SMTT(60) DEF Place, KbdEntries
<1>5. KbdMark(r, 0)
  BY <1>2, <1>3, <1>4, SMTT(60) DEF KbdMark
<1> QED
  BY <1>5 DEF r

\* The controller takes an entry: there are reports still to come.
LEMMA KbdFetch ==
  ASSUME NEW r, NEW n, KbdMark(r, n), HasWork(r)
  PROVE  /\ KbdMark(Fetch(r), n + 1) /\ n < KbdEntries
         /\ r.deq \in KbdPlaces /\ r.trb[r.deq].buf = r.deq /\ Offset(KbdEntries, r.enq, r.deq) = n
         /\ Fetch(r).enq = r.enq
<1> DEFINE N == KbdEntries
           q == Fetch(r)
<1> /\ KbdTrbs \in Nat /\ KbdTrbs > 2 /\ N = KbdTrbs - 1 /\ N \in Nat /\ N > 1
    /\ n \in 0..N /\ r \in RingsOf(KbdTrbs) /\ r.enq \in KbdPlaces
    /\ r.cycle \in {0, 1} /\ r.ccs \in {0, 1} /\ KbdPlaces = 0..(KbdTrbs - 2)
  BY KbdFacts
<1> /\ q \in RingsOf(KbdTrbs) /\ q.deq = r.deq + 1 /\ r.deq \in KbdPlaces
    /\ q.enq = r.enq /\ q.cycle = r.cycle /\ q.trb = r.trb /\ q.ccs = r.ccs
  BY FetchFields
<1> HIDE DEF q, N
<1> r.trb[r.deq].buf = r.deq /\ r.trb[r.deq].cycle = IF r.deq < r.enq THEN r.cycle ELSE 1 - r.cycle
  BY DEF KbdMark
<1>4. r.trb[r.deq].cycle = r.ccs
  BY DEF HasWork
<1> /\ r.deq = Place(N, r.enq, n)
    /\ r.ccs = IF r.enq + n >= N THEN r.cycle ELSE 1 - r.cycle
  BY SMTT(60) DEF KbdMark, KbdPlaces, N
<1> n < N
  <2>1. SUFFICES ASSUME n = N PROVE FALSE
    BY SMTT(60)
  <2> r.deq = r.enq /\ r.ccs = r.cycle
    BY <2>1, SMTT(60) DEF Place, KbdPlaces, N
  <2>3. r.ccs = 1 - r.cycle
    BY <1>4, SMTT(60) DEF KbdPlaces
  <2> QED
    BY <2>3, SMTT(60)
<1>7. Offset(N, r.enq, r.deq) = n
  BY SMTT(60) DEF Offset, Place, KbdPlaces, N
<1>8. LET ccs == IF q.enq + (n + 1) >= N THEN q.cycle ELSE 1 - q.cycle IN
        \/ q.deq = Place(N, q.enq, n + 1) /\ q.ccs = ccs
        \/ q.deq = N /\ Place(N, q.enq, n + 1) = 0 /\ q.ccs = 1 - ccs
  BY SMTT(60) DEF Place, KbdPlaces, N
<1>9. KbdMark(q, n + 1)
  BY <1>8, SMTT(60) DEF KbdMark, N
<1> QED
  BY <1>7, <1>9 DEF q, N

\* The driver queues the entry of the oldest report again.
LEMMA KbdPush ==
  ASSUME NEW r, NEW n, KbdMark(r, n), n > 0
  PROVE  /\ KbdMark(Push(r, r.enq), n - 1) /\ Push(r, r.enq).enq = Place(KbdEntries, r.enq, 1)
         /\ r.enq \in KbdPlaces
<1> DEFINE N == KbdEntries
           q == Push(r, r.enq)
<1> /\ KbdTrbs \in Nat /\ KbdTrbs > 2 /\ N = KbdTrbs - 1 /\ N \in Nat /\ N > 1
    /\ n \in 0..N /\ r \in RingsOf(KbdTrbs) /\ r.enq \in KbdPlaces
    /\ r.cycle \in {0, 1} /\ r.ccs \in {0, 1} /\ KbdPlaces = 0..(KbdTrbs - 2)
  BY KbdFacts
<1>2. r.enq \in Nat
  BY SMTT(60)
<1> /\ q \in RingsOf(KbdTrbs)
    /\ q.enq = Place(KbdTrbs - 1, r.enq, 1)
    /\ q.cycle = IF r.enq + 1 = KbdTrbs - 1 THEN 1 - r.cycle ELSE r.cycle
    /\ q.deq = r.deq /\ q.ccs = r.ccs
    /\ q.trb[r.enq] = [cycle |-> r.cycle, buf |-> r.enq]
    /\ \A i \in 0..(KbdTrbs - 2) : i # r.enq => q.trb[i] = r.trb[i]
  BY <1>2, PushFields, SMTT(60)
<1> HIDE DEF q, N
<1> \A i \in KbdPlaces :
      q.trb[i].buf = i /\ q.trb[i].cycle = IF i <= r.enq THEN r.cycle ELSE 1 - r.cycle
  <2> TAKE i \in KbdPlaces
  <2>1. r.trb[i].buf = i /\ r.trb[i].cycle = IF i < r.enq THEN r.cycle ELSE 1 - r.cycle
    BY DEF KbdMark
  <2> CASE i = r.enq
    BY SMTT(60)
  <2>3. CASE i # r.enq
    BY <2>1, SMTT(60)
  <2> QED
    BY <2>3
<1>5. \A i \in KbdPlaces : q.trb[i].cycle = IF i < q.enq THEN q.cycle ELSE 1 - q.cycle
  BY SMTT(60) DEF Place
<1>6. LET ccs == IF q.enq + (n - 1) >= N THEN q.cycle ELSE 1 - q.cycle IN
        \/ q.deq = Place(N, q.enq, n - 1) /\ q.ccs = ccs
        \/ q.deq = N /\ Place(N, q.enq, n - 1) = 0 /\ q.ccs = 1 - ccs
  <2>1. LET ccs == IF r.enq + n >= N THEN r.cycle ELSE 1 - r.cycle IN
        \/ r.deq = Place(N, r.enq, n) /\ r.ccs = ccs
        \/ r.deq = N /\ Place(N, r.enq, n) = 0 /\ r.ccs = 1 - ccs
    BY DEF KbdMark, N
  <2>2. Place(N, q.enq, n - 1) = Place(N, r.enq, n)
    BY SMTT(60) DEF Place
  <2>3. (IF q.enq + (n - 1) >= N THEN q.cycle ELSE 1 - q.cycle) = IF r.enq + n >= N THEN r.cycle ELSE 1 - r.cycle
    BY SMTT(60) DEF Place
  <2> QED
    BY <2>1, <2>2, <2>3
<1>7. KbdMark(q, n - 1)
  BY <1>5, <1>6, SMTT(60) DEF KbdMark, N
<1> QED
  BY <1>7 DEF q, N

\* The controller leaves the link.
LEMMA KbdFollow ==
  ASSUME NEW r, NEW n, KbdMark(r, n), AtLink(r)
  PROVE  KbdMark(FollowLink(r), n) /\ FollowLink(r).enq = r.enq
<1> DEFINE N == KbdEntries
           q == FollowLink(r)
<1> /\ KbdTrbs \in Nat /\ KbdTrbs > 2 /\ N = KbdTrbs - 1 /\ N \in Nat /\ N > 1
    /\ n \in 0..N /\ r \in RingsOf(KbdTrbs) /\ r.enq \in KbdPlaces
    /\ r.cycle \in {0, 1} /\ r.ccs \in {0, 1} /\ KbdPlaces = 0..(KbdTrbs - 2)
  BY KbdFacts
<1> /\ q \in RingsOf(KbdTrbs) /\ r.deq = N /\ q.deq = 0 /\ q.ccs = 1 - r.ccs
    /\ q.enq = r.enq /\ q.cycle = r.cycle /\ q.trb = r.trb
  BY FollowFields
<1> HIDE DEF q, N
<1>3. Place(N, r.enq, n) = 0 /\ r.ccs = 1 - (IF r.enq + n >= N THEN r.cycle ELSE 1 - r.cycle)
  BY SMTT(60) DEF KbdMark, Place, N
<1>4. q.deq = Place(N, q.enq, n) /\ q.ccs = IF q.enq + n >= N THEN q.cycle ELSE 1 - q.cycle
  BY <1>3, SMTT(60)
<1> QED
  BY <1>4, SMTT(60) DEF KbdMark, q, N

\* A transfer error halts the keyboard's endpoint; the ring stays as it is.
LEMMA KbdHalt ==
  ASSUME NEW r, NEW n, KbdMark(r, n), NEW q, q = [r EXCEPT !.halted = TRUE]
  PROVE  KbdMark(q, n) /\ q.enq = r.enq
<1>1. /\ q \in RingsOf(KbdTrbs) /\ q.deq = r.deq /\ q.ccs = r.ccs
      /\ q.enq = r.enq /\ q.cycle = r.cycle /\ q.trb = r.trb
  BY KbdFacts, HaltFields, SMTT(60)
<1> QED
  BY <1>1 DEF KbdMark

\* Event s is still to be looked at by xhci_poll() and delivers a report.
Deliverable(v, s) == Offset(EvtTrbs, v.deq, s) < Waiting(v) /\ Delivered(v.trb[s])

\* How far the entry of event s is from the one to be queued next.
Age(v, r, s) == Offset(KbdEntries, r.enq, v.trb[s].trb)

\* g_kbd_reports.
ReportBuffers == [0..(KbdTrbs - 1) -> HidReports \cup {{}}]

\* The reports under way: each has one event, the events are in the order of the
\* reports, and each event's entry has the buffer its report is in.
FlightMark(v, r, f, rep) ==
  /\ f \in Seq(HidReports) /\ KbdMark(r, Len(f)) /\ rep \in ReportBuffers
  /\ \A s \in EvtPlaces : Deliverable(v, s) =>
       /\ v.trb[s].trb \in KbdPlaces /\ Age(v, r, s) < Len(f)
       /\ rep[v.trb[s].trb] = f[Age(v, r, s) + 1]
  /\ \A s, t \in EvtPlaces :
       Deliverable(v, s) /\ Deliverable(v, t) /\ Offset(EvtTrbs, v.deq, s) < Offset(EvtTrbs, v.deq, t)
         => Age(v, r, s) < Age(v, r, t)
  /\ \A m \in 0..(Len(f) - 1) : \E s \in EvtPlaces : Deliverable(v, s) /\ Age(v, r, s) = m

\* It only depends on the ring's mark and on the driver's place in it, and on the
\* events that deliver a report.
LEMMA FlightSame ==
  ASSUME NEW v, NEW r, NEW f, NEW rep, FlightMark(v, r, f, rep), NEW w, NEW q,
         KbdMark(q, Len(f)), q.enq = r.enq,
         \A s \in EvtPlaces : Deliverable(w, s) <=> Deliverable(v, s),
         \A s \in EvtPlaces : Deliverable(v, s) => w.trb[s] = v.trb[s],
         \A s, t \in EvtPlaces : Deliverable(v, s) /\ Deliverable(v, t) =>
           (Offset(EvtTrbs, w.deq, s) < Offset(EvtTrbs, w.deq, t)
              => Offset(EvtTrbs, v.deq, s) < Offset(EvtTrbs, v.deq, t))
  PROVE  FlightMark(w, q, f, rep)
<1> \A s \in EvtPlaces : Deliverable(v, s) => Age(w, q, s) = Age(v, r, s) /\ w.trb[s].trb = v.trb[s].trb
  BY DEF Age
<1>2. \A s \in EvtPlaces : Deliverable(w, s) =>
       /\ w.trb[s].trb \in KbdPlaces /\ Age(w, q, s) < Len(f)
       /\ rep[w.trb[s].trb] = f[Age(w, q, s) + 1]
  BY DEF FlightMark
<1>3. \A s, t \in EvtPlaces :
       Deliverable(w, s) /\ Deliverable(w, t) /\ Offset(EvtTrbs, w.deq, s) < Offset(EvtTrbs, w.deq, t)
         => Age(w, q, s) < Age(w, q, t)
  BY DEF FlightMark
<1>4. \A m \in 0..(Len(f) - 1) : \E s \in EvtPlaces : Deliverable(w, s) /\ Age(w, q, s) = m
  BY DEF FlightMark
<1> QED
  BY <1>2, <1>3, <1>4 DEF FlightMark

\* The distances in the event ring behind EventsMark.
LEMMA EventFacts ==
  ASSUME NEW v, EventsMark(v)
  PROVE  /\ EvtTrbs \in Nat /\ EvtTrbs > 1 /\ v.deq \in EvtPlaces /\ v.enq \in EvtPlaces
         /\ EvtPlaces = 0..(EvtTrbs - 1)
         /\ Waiting(v) \in EvtPlaces /\ Offset(EvtTrbs, v.deq, v.enq) = Waiting(v)
         /\ \A s \in EvtPlaces : Offset(EvtTrbs, v.deq, s) \in EvtPlaces
         /\ \A s \in EvtPlaces : Offset(EvtTrbs, v.deq, s) = Waiting(v) => s = v.enq
<1>1. EvtTrbs \in Nat /\ EvtTrbs > 1
  BY XhciAssumption, SMTT(60)
<1>2. v.deq \in EvtPlaces /\ v.enq \in EvtPlaces
  BY DEF EventsMark, EventRings
<1> QED
  BY <1>1, <1>2, SMTT(60) DEF Waiting, Offset, EvtPlaces

\* An event that delivers no report.
LEMMA QuietPost ==
  ASSUME EventsMark(evt), RoomForEvent,
         NEW rg \in {"cmd", "ep0", "port", "kbd"}, NEW i \in Nat, NEW cc \in Nat, ~(rg = "kbd" /\ cc = 1),
         NEW v, v = Post(rg, i, cc),
         NEW r, NEW f, NEW rep, FlightMark(evt, r, f, rep), NEW q, KbdMark(q, Len(f)), q.enq = r.enq
  PROVE  FlightMark(v, q, f, rep)
<1>1. /\ EventsMark(v) /\ v.deq = evt.deq /\ evt.enq \in EvtPlaces
      /\ v.trb[evt.enq].ring = rg /\ v.trb[evt.enq].trb = i /\ v.trb[evt.enq].cc = cc
      /\ \A s \in EvtPlaces : s # evt.enq => v.trb[s] = evt.trb[s]
      /\ Waiting(v) = Waiting(evt) + 1
  BY PostEvent, SMTT(60)
<1>2. ~Delivered(v.trb[evt.enq])
  BY <1>1 DEF Delivered
<1> /\ Waiting(evt) \in Int /\ Offset(EvtTrbs, evt.deq, evt.enq) = Waiting(evt)
    /\ \A s \in EvtPlaces : Offset(EvtTrbs, evt.deq, s) \in Int
    /\ \A s \in EvtPlaces : Offset(EvtTrbs, evt.deq, s) = Waiting(evt) => s = evt.enq
  BY EventFacts, SMTT(60) DEF EvtPlaces
<1>4. \A s \in EvtPlaces : Deliverable(v, s) <=> Deliverable(evt, s)
  <2> TAKE s \in EvtPlaces
  <2> CASE s = evt.enq
    BY <1>2, SMTT(60) DEF Deliverable
  <2> CASE s # evt.enq
    BY <1>1, SMTT(60) DEF Deliverable
  <2> QED
    OBVIOUS
<1>5. \A s \in EvtPlaces : Deliverable(evt, s) => v.trb[s] = evt.trb[s]
  BY <1>1, SMTT(60) DEF Deliverable
<1> QED
  BY <1>1, <1>4, <1>5, FlightSame

\* xhci_poll() passes over an event that delivers no report.
LEMMA QuietAdvance ==
  ASSUME EventsMark(evt), HasEvent, ~Delivered(evt.trb[evt.deq]), NEW v, v = Advance,
         NEW r, NEW f, NEW rep, FlightMark(evt, r, f, rep)
  PROVE  FlightMark(v, r, f, rep)
<1> /\ EventsMark(v) /\ v.trb = evt.trb /\ evt.deq \in EvtPlaces
    /\ Waiting(evt) > 0 /\ Waiting(v) = Waiting(evt) - 1
    /\ Offset(EvtTrbs, evt.deq, evt.deq) = 0
    /\ \A s \in EvtPlaces : s # evt.deq =>
            Offset(EvtTrbs, v.deq, s) = Offset(EvtTrbs, evt.deq, s) - 1
    /\ Offset(EvtTrbs, v.deq, evt.deq) = EvtTrbs - 1
  BY AdvanceEvent
<1> /\ Waiting(evt) \in Int /\ \A s \in EvtPlaces : Offset(EvtTrbs, evt.deq, s) \in Int
  BY EventFacts, SMTT(60) DEF EvtPlaces
<1>4. \A s \in EvtPlaces : Deliverable(v, s) <=> Deliverable(evt, s)
  <2> TAKE s \in EvtPlaces
  <2> CASE s = evt.deq
    BY DEF Deliverable
  <2> CASE s # evt.deq
    BY SMTT(60) DEF Deliverable
  <2> QED
    OBVIOUS
<1>5. \A s \in EvtPlaces : Deliverable(evt, s) => s # evt.deq
  BY DEF Deliverable
<1>6. \A s, t \in EvtPlaces : Deliverable(evt, s) /\ Deliverable(evt, t) =>
           (Offset(EvtTrbs, v.deq, s) < Offset(EvtTrbs, v.deq, t)
              => Offset(EvtTrbs, evt.deq, s) < Offset(EvtTrbs, evt.deq, t))
  BY <1>5, SMTT(60)
<1>7. KbdMark(r, Len(f))
  BY DEF FlightMark
<1> QED
  BY <1>4, <1>6, <1>7, FlightSame

\* The controller delivers a report.
LEMMA ReportPost ==
  ASSUME EventsMark(evt), RoomForEvent, NEW r, NEW f, NEW rep, FlightMark(evt, r, f, rep), HasWork(r),
         NEW keys \in HidReports, NEW v, v = Post("kbd", r.deq, 1)
  PROVE  FlightMark(v, Fetch(r), Append(f, keys), [rep EXCEPT ![r.trb[r.deq].buf] = keys])
<1> DEFINE n == Len(f)
           g == Append(f, keys)
           q == Fetch(r)
           d == r.deq
           rep2 == [rep EXCEPT ![r.trb[r.deq].buf] = keys]
<1>0. KbdMark(r, n) /\ f \in Seq(HidReports) /\ n \in Nat /\ rep \in ReportBuffers
  BY SMTT(60) DEF FlightMark
<1>1. /\ KbdMark(q, n + 1) /\ n < KbdEntries
      /\ d \in KbdPlaces /\ r.trb[d].buf = d /\ Offset(KbdEntries, r.enq, d) = n
      /\ q.enq = r.enq
  <2> HIDE DEF n
  <2> QED
    BY <1>0, KbdFetch
<1>2. KbdEntries \in Nat /\ KbdEntries = KbdTrbs - 1 /\ KbdTrbs \in Nat
  BY <1>0, KbdFacts
<1>3. d \in Nat
  BY <1>1, <1>2, SMTT(60) DEF KbdPlaces
<1> /\ EventsMark(v) /\ v.deq = evt.deq /\ evt.enq \in EvtPlaces
    /\ v.trb[evt.enq].ring = "kbd" /\ v.trb[evt.enq].trb = d /\ v.trb[evt.enq].cc = 1
    /\ \A s \in EvtPlaces : s # evt.enq => v.trb[s] = evt.trb[s]
    /\ Waiting(v) = Waiting(evt) + 1
  BY <1>3, PostEvent, SMTT(60)
<1>5. /\ Waiting(evt) \in Int /\ Offset(EvtTrbs, evt.deq, evt.enq) = Waiting(evt)
      /\ \A s \in EvtPlaces : Offset(EvtTrbs, evt.deq, s) \in Int
      /\ \A s \in EvtPlaces : Offset(EvtTrbs, evt.deq, s) = Waiting(evt) => s = evt.enq
  BY EventFacts, SMTT(60) DEF EvtPlaces
<1> /\ g \in Seq(HidReports) /\ Len(g) = n + 1 /\ g[n + 1] = keys
    /\ \A m \in 1..n : g[m] = f[m]
  BY <1>0, ReportPut, SMTT(60)
<1> /\ rep2 \in ReportBuffers /\ rep2[d] = keys /\ \A i \in KbdPlaces : i # d => rep2[i] = rep[i]
  BY <1>0, <1>1, <1>2, SMTT(60) DEF ReportBuffers, KbdPlaces
<1> HIDE DEF q, g, rep2, d, n
<1> Deliverable(v, evt.enq) /\ Age(v, q, evt.enq) = n
  BY <1>1, <1>5, SMTT(60) DEF Deliverable, Delivered, Age
<1> \A s \in EvtPlaces : s # evt.enq =>
      (Deliverable(v, s) <=> Deliverable(evt, s)) /\ Age(v, q, s) = Age(evt, r, s)
      /\ v.trb[s].trb = evt.trb[s].trb
  BY <1>1, <1>5, SMTT(60) DEF Deliverable, Age
<1> \A s \in EvtPlaces : Deliverable(evt, s) =>
      /\ s # evt.enq /\ evt.trb[s].trb \in KbdPlaces /\ Age(evt, r, s) \in 0..(n - 1)
      /\ rep[evt.trb[s].trb] = f[Age(evt, r, s) + 1] /\ evt.trb[s].trb # d
      /\ Offset(EvtTrbs, evt.deq, s) < Waiting(evt)
  <2> SUFFICES ASSUME NEW s \in EvtPlaces, Deliverable(evt, s)
               PROVE  /\ s # evt.enq /\ evt.trb[s].trb \in KbdPlaces /\ Age(evt, r, s) \in 0..(n - 1)
                      /\ rep[evt.trb[s].trb] = f[Age(evt, r, s) + 1] /\ evt.trb[s].trb # d
                      /\ Offset(EvtTrbs, evt.deq, s) < Waiting(evt)
    OBVIOUS
  <2> /\ evt.trb[s].trb \in KbdPlaces /\ Age(evt, r, s) < n
      /\ rep[evt.trb[s].trb] = f[Age(evt, r, s) + 1]
    BY DEF FlightMark, n
  <2>2. s # evt.enq /\ Offset(EvtTrbs, evt.deq, s) < Waiting(evt)
    BY <1>5, SMTT(60) DEF Deliverable
  <2>3. r.enq \in KbdPlaces
    BY <1>0, KbdFacts
  <2> Age(evt, r, s) \in Nat
    BY <1>2, <2>3, SMTT(60) DEF Age, Offset, KbdPlaces
  <2>5. evt.trb[s].trb # d
    BY <1>0, <1>1, SMTT(60) DEF Age
  <2> QED
    BY <1>0, <2>2, <2>5, SMTT(60)
<1>11. \A s \in EvtPlaces : Deliverable(v, s) =>
         /\ v.trb[s].trb \in KbdPlaces /\ Age(v, q, s) < Len(g)
         /\ rep2[v.trb[s].trb] = g[Age(v, q, s) + 1]
  <2> SUFFICES ASSUME NEW s \in EvtPlaces, Deliverable(v, s)
               PROVE  /\ v.trb[s].trb \in KbdPlaces /\ Age(v, q, s) < Len(g)
                      /\ rep2[v.trb[s].trb] = g[Age(v, q, s) + 1]
    OBVIOUS
  <2>1. CASE s = evt.enq
    BY <1>0, <1>1, <2>1, SMTT(60)
  <2> CASE s # evt.enq
    BY <1>0, SMTT(60)
  <2> QED
    BY <2>1
<1>12. \A s, t \in EvtPlaces :
       Deliverable(v, s) /\ Deliverable(v, t) /\ Offset(EvtTrbs, v.deq, s) < Offset(EvtTrbs, v.deq, t)
         => Age(v, q, s) < Age(v, q, t)
  <2> SUFFICES ASSUME NEW s \in EvtPlaces, NEW t \in EvtPlaces, Deliverable(v, s), Deliverable(v, t),
                      Offset(EvtTrbs, evt.deq, s) < Offset(EvtTrbs, evt.deq, t)
               PROVE  Age(v, q, s) < Age(v, q, t)
    OBVIOUS
  <2> CASE s = evt.enq
    <3>1. t # evt.enq
      BY <1>5, SMTT(60)
    <3> QED
      BY <1>5, <3>1, SMTT(60)
  <2>2. CASE s # evt.enq /\ t = evt.enq
    BY <1>0, <2>2, SMTT(60)
  <2> CASE s # evt.enq /\ t # evt.enq
    BY DEF FlightMark
  <2> QED
    BY <2>2
<1>13. \A m \in 0..(Len(g) - 1) : \E s \in EvtPlaces : Deliverable(v, s) /\ Age(v, q, s) = m
  <2> TAKE m \in 0..(Len(g) - 1)
  <2>1. CASE m = n
    BY <2>1
  <2> CASE m # n
    <3>1. m \in 0..(n - 1)
      BY <1>0, SMTT(60)
    <3>2. PICK s \in EvtPlaces : Deliverable(evt, s) /\ Age(evt, r, s) = m
      BY <3>1 DEF FlightMark, n
    <3> QED
      BY <3>2
  <2> QED
    BY <2>1
<1>14. FlightMark(v, q, g, rep2)
  BY <1>1, <1>11, <1>12, <1>13, SMTT(60) DEF FlightMark
<1> QED
  BY <1>14 DEF q, g, rep2

\* xhci_poll() handles a report: it is the oldest, and its entry is queued again.
LEMMA ReportAdvance ==
  ASSUME EventsMark(evt), HasEvent, Delivered(evt.trb[evt.deq]), NEW v, v = Advance,
         NEW r, NEW f, NEW rep, FlightMark(evt, r, f, rep), NEW i, i = evt.trb[evt.deq].trb
  PROVE  /\ f # <<>> /\ rep[i] = Head(f) /\ i \in Nat
         /\ FlightMark(v, Push(r, i), Tail(f), rep)
<1> DEFINE n == Len(f)
           g == Tail(f)
           q == Push(r, i)
           N == KbdEntries
<1>0. KbdMark(r, n) /\ f \in Seq(HidReports) /\ n \in Nat /\ rep \in ReportBuffers
  BY SMTT(60) DEF FlightMark
<1>1. /\ EventsMark(v) /\ v.trb = evt.trb /\ evt.deq \in EvtPlaces
      /\ Waiting(evt) > 0 /\ Waiting(v) = Waiting(evt) - 1
      /\ Offset(EvtTrbs, evt.deq, evt.deq) = 0
      /\ \A s \in EvtPlaces : s # evt.deq =>
              Offset(EvtTrbs, v.deq, s) = Offset(EvtTrbs, evt.deq, s) - 1
      /\ Offset(EvtTrbs, v.deq, evt.deq) = EvtTrbs - 1
  BY AdvanceEvent
<1>2. /\ N \in Nat /\ N > 1 /\ n \in 0..N /\ r.enq \in KbdPlaces
  BY <1>0, KbdFacts
<1> /\ Waiting(evt) \in EvtPlaces /\ EvtTrbs \in Nat
    /\ \A s \in EvtPlaces : Offset(EvtTrbs, evt.deq, s) \in EvtPlaces
    /\ \A s \in EvtPlaces : s # evt.deq => Offset(EvtTrbs, evt.deq, s) > 0
  BY EventFacts, SMTT(60) DEF EvtPlaces, Offset
<1> Deliverable(evt, evt.deq)
  BY <1>1 DEF Deliverable
<1>5. \A s \in EvtPlaces : Deliverable(evt, s) =>
        /\ evt.trb[s].trb \in KbdPlaces /\ Age(evt, r, s) \in 0..(n - 1)
        /\ rep[evt.trb[s].trb] = f[Age(evt, r, s) + 1]
  BY <1>0, <1>2, SMTT(60) DEF FlightMark, Age, Offset, KbdPlaces
<1>6. Age(evt, r, evt.deq) = 0
  <2>0. \A m \in 0..(Len(f) - 1) : \E s \in EvtPlaces : Deliverable(evt, s) /\ Age(evt, r, s) = m
    BY DEF FlightMark
  <2>1. SUFFICES ASSUME Age(evt, r, evt.deq) > 0 PROVE FALSE
    BY <1>1, <1>5, SMTT(60)
  <2>2. 0 \in 0..(n - 1)
    BY <1>1, <1>5, <2>1, SMTT(60)
  <2> PICK s \in EvtPlaces : Deliverable(evt, s) /\ Age(evt, r, s) = 0
    BY <2>0, <2>2
  <2>4. s # evt.deq
    BY <2>1, SMTT(60)
  <2>5. Offset(EvtTrbs, evt.deq, evt.deq) < Offset(EvtTrbs, evt.deq, s)
    BY <1>1, <2>4
  <2>6. Age(evt, r, evt.deq) < Age(evt, r, s)
    BY <1>1, <2>5 DEF FlightMark
  <2> QED
    BY <2>1, <2>6, <1>1, <1>5, SMTT(60)
<1>7. i = r.enq /\ n > 0
  <2> i \in KbdPlaces /\ Age(evt, r, evt.deq) \in 0..(n - 1)
    BY <1>1, <1>5
  <2>2. Offset(N, r.enq, i) = 0
    BY <1>6 DEF Age
  <2>3. i = r.enq
    BY <1>2, <2>2, SMTT(60) DEF Offset, KbdPlaces
  <2>4. n > 0
    BY <1>0, <1>6, SMTT(60)
  <2> QED
    BY <2>3, <2>4
<1>8. f # <<>> /\ rep[i] = Head(f) /\ i \in Nat
  <2>1. rep[i] = f[1]
    BY <1>1, <1>5, <1>6, SMTT(60)
  <2> f # <<>>
    BY <1>7, SMTT(60)
  <2>3. f[1] = Head(f)
    BY <1>0, SMTT(60)
  <2> QED
    BY <1>2, <1>7, <2>1, <2>3, SMTT(60) DEF KbdPlaces
<1> /\ KbdMark(q, n - 1) /\ q.enq = Place(N, r.enq, 1)
  BY <1>0, <1>7, KbdPush
<1>10. /\ g \in Seq(HidReports) /\ Len(g) = n - 1 /\ \A m \in 1..(n - 1) : g[m] = f[m + 1]
  BY <1>0, <1>8, ReportTaken, SMTT(60)
<1> HIDE DEF q, g, n, N
<1> \A s \in EvtPlaces : Deliverable(v, s) =>
      /\ s # evt.deq /\ Deliverable(evt, s)
  <2> SUFFICES ASSUME NEW s \in EvtPlaces, Deliverable(v, s) PROVE s # evt.deq /\ Deliverable(evt, s)
    OBVIOUS
  <2>1. s # evt.deq
    BY <1>1, SMTT(60) DEF Deliverable, EvtPlaces
  <2> QED
    BY <1>1, <2>1, SMTT(60) DEF Deliverable, EvtPlaces
<1>12. \A s \in EvtPlaces : Deliverable(evt, s) /\ s # evt.deq =>
         Deliverable(v, s) /\ Age(v, q, s) = Age(evt, r, s) - 1 /\ Age(evt, r, s) > 0
  <2> SUFFICES ASSUME NEW s \in EvtPlaces, Deliverable(evt, s), s # evt.deq
               PROVE  Deliverable(v, s) /\ Age(v, q, s) = Age(evt, r, s) - 1 /\ Age(evt, r, s) > 0
    OBVIOUS
  <2>1. Deliverable(v, s)
    BY <1>1, SMTT(60) DEF Deliverable, EvtPlaces
  <2>2. Age(evt, r, s) > 0
    BY <1>1, <1>6 DEF FlightMark
  <2>3. Age(v, q, s) = Age(evt, r, s) - 1
    BY <1>1, <1>2, <1>5, <2>2, SMTT(60) DEF Age, Offset, Place, KbdPlaces, N
  <2> QED
    BY <2>1, <2>2, <2>3
<1>13. \A s \in EvtPlaces : Deliverable(v, s) =>
         /\ v.trb[s].trb \in KbdPlaces /\ Age(v, q, s) < Len(g)
         /\ rep[v.trb[s].trb] = g[Age(v, q, s) + 1]
  BY <1>0, <1>1, <1>5, <1>10, <1>12, SMTT(60)
<1>14. \A s, t \in EvtPlaces :
       Deliverable(v, s) /\ Deliverable(v, t) /\ Offset(EvtTrbs, v.deq, s) < Offset(EvtTrbs, v.deq, t)
         => Age(v, q, s) < Age(v, q, t)
  <2> SUFFICES ASSUME NEW s \in EvtPlaces, NEW t \in EvtPlaces, Deliverable(v, s), Deliverable(v, t),
                      Offset(EvtTrbs, v.deq, s) < Offset(EvtTrbs, v.deq, t)
               PROVE  Age(v, q, s) < Age(v, q, t)
    OBVIOUS
  <2>1. Offset(EvtTrbs, evt.deq, s) < Offset(EvtTrbs, evt.deq, t)
    BY <1>1, SMTT(60) DEF EvtPlaces
  <2>2. Age(evt, r, s) < Age(evt, r, t)
    BY <2>1 DEF FlightMark
  <2> QED
    BY <1>5, <1>12, <2>2, SMTT(60)
<1>15. \A m \in 0..(Len(g) - 1) : \E s \in EvtPlaces : Deliverable(v, s) /\ Age(v, q, s) = m
  <2> TAKE m \in 0..(Len(g) - 1)
  <2> m + 1 \in 0..(n - 1)
    BY <1>0, <1>10, SMTT(60)
  <2> PICK s \in EvtPlaces : Deliverable(evt, s) /\ Age(evt, r, s) = m + 1
    BY DEF FlightMark, n
  <2>3. s # evt.deq
    BY <1>6, SMTT(60)
  <2> QED
    BY <1>12, <2>3, SMTT(60)
<1>16. FlightMark(v, q, g, rep)
  BY <1>0, <1>10, <1>13, <1>14, <1>15 DEF FlightMark
<1> QED
  BY <1>8, <1>16 DEF q, g

\* No event of the keyboard's endpoint is in the ring.
NoReportEvent(v) == \A s \in EvtPlaces : v.trb[s].ring # "kbd"

\* The part of the driver before the keyboard is there, and after.
KeyboardMark ==
  IF x_stage = "ready"
    THEN FlightMark(evt, kbd, flight, reports)
    ELSE kbd = Ring(KbdTrbs) /\ flight = <<>> /\ reports \in ReportBuffers /\ NoReportEvent(evt)

\* The inductive invariant of xhci.c.  An event is awaited during the set-up only.
XhciInv ==
  /\ in_order = TRUE
  /\ EventsMark(evt) /\ cmd \in RingsOf(CmdTrbs) /\ ep0 \in RingsOf(Ep0Trbs)
  /\ awaited # <<>> => x_stage = "setup"
  /\ KeyboardMark

\* It holds before xhci_init().
LEMMA XhciInitInv == XhciInit => XhciInv
<1> SUFFICES ASSUME XhciInit PROVE XhciInv
  OBVIOUS
<1>1. EventsMark(evt) /\ NoReportEvent(evt)
  BY EventRingMarks DEF XhciInit, NoReportEvent
<1>2. cmd \in RingsOf(CmdTrbs) /\ ep0 \in RingsOf(Ep0Trbs)
  BY RingSizes, RingTyped DEF XhciInit
<1>3. reports \in ReportBuffers
  BY DEF XhciInit, ReportBuffers
<1> QED
  BY <1>1, <1>2, <1>3 DEF XhciInit, XhciInv, KeyboardMark

\* xhci_init() keeps it.
LEMMA XhciSetupInv == ASSUME XhciInv, NEW count, xhci_init(count) PROVE XhciInv'
<1>1. x_stage # "ready" /\ x_stage' # "ready" /\ awaited = <<>>
  BY DEF XhciInv, xhci_init
<1>2. UNCHANGED <<awaited, cmd, ep0, kbd, evt, reports, flight, in_order>>
  BY DEF xhci_init
<1> QED
  BY <1>1, <1>2 DEF XhciInv, KeyboardMark

\* Nothing but events of other rings arrives before the keyboard is there.
LEMMA QuietEvent ==
  ASSUME EventsMark(evt), RoomForEvent, KeyboardMark,
         NEW rg \in {"cmd", "ep0", "port"}, NEW i \in Nat, NEW cc \in Nat, evt' = Post(rg, i, cc),
         UNCHANGED <<x_stage, kbd, flight, reports>>
  PROVE  EventsMark(evt)' /\ KeyboardMark'
<1> DEFINE v == Post(rg, i, cc)
<1> /\ EventsMark(v) /\ evt.enq \in EvtPlaces
    /\ v.trb[evt.enq].ring = rg
    /\ \A s \in EvtPlaces : s # evt.enq => v.trb[s] = evt.trb[s]
  BY PostEvent, SMTT(60)
<1> CASE x_stage = "ready"
  <2>1. FlightMark(evt, kbd, flight, reports) /\ KbdMark(kbd, Len(flight))
    BY DEF KeyboardMark, FlightMark
  <2>2. FlightMark(v, kbd, flight, reports)
    BY <2>1, QuietPost
  <2> QED
    BY <2>2 DEF KeyboardMark
<1> CASE x_stage # "ready"
  <2>1. NoReportEvent(v)
    BY DEF KeyboardMark, NoReportEvent
  <2> QED
    BY <2>1 DEF KeyboardMark
<1> QED
  OBVIOUS

\* The set-up ends, and with its last step the keyboard ring is filled.
LEMMA StepDone ==
  ASSUME x_stage = "setup", KeyboardMark, NEW ok, AfterStep(ok), NoReportEvent(evt'),
         UNCHANGED <<flight, reports>>
  PROVE  KeyboardMark'
<1> kbd = Ring(KbdTrbs) /\ flight = <<>> /\ reports \in ReportBuffers
  BY DEF KeyboardMark
<1> CASE x_stage' # "ready"
  <2>1. kbd' = kbd
    BY DEF AfterStep
  <2> QED
    BY <2>1 DEF KeyboardMark
<1> CASE x_stage' = "ready"
  <2>1. kbd' = FilledRing
    BY DEF AfterStep
  <2> KbdMark(kbd', 0) /\ Len(flight') = 0 /\ flight' \in Seq(HidReports)
    BY <2>1, KbdFilled, SMTT(60)
  <2>3. \A s \in EvtPlaces : ~Deliverable(evt', s)
    BY DEF NoReportEvent, Deliverable, Delivered
  <2>4. 0..(Len(flight') - 1) = {}
    BY SMTT(60)
  <2>5. FlightMark(evt', kbd', flight', reports')
    BY <2>3, <2>4 DEF FlightMark
  <2> QED
    BY <2>5 DEF KeyboardMark
<1> QED
  OBVIOUS

\* What is pushed leaves a ring a ring.
LEMMA PushTyped ==
  ASSUME NEW n \in Nat, n > 2, NEW r \in RingsOf(n), NEW b \in Nat
  PROVE  Push(r, b) \in RingsOf(n)
  BY PushFields

\* Every step of the driver, the controller and the keyboard keeps it.
LEMMA XhciStepInv == XhciInv /\ XhciNext => XhciInv'
<1> SUFFICES ASSUME XhciInv, XhciNext PROVE XhciInv'
  OBVIOUS
<1> /\ in_order = TRUE
    /\ EventsMark(evt) /\ cmd \in RingsOf(CmdTrbs) /\ ep0 \in RingsOf(Ep0Trbs)
    /\ awaited # <<>> => x_stage = "setup"
    /\ KeyboardMark
  BY DEF XhciInv
<1> /\ CmdTrbs \in Nat /\ CmdTrbs > 2 /\ Ep0Trbs \in Nat /\ Ep0Trbs > 2
  BY RingSizes
<1> ASSUME NEW ok \in BOOLEAN, NEW connected \in BOOLEAN, xhci_try_controller(ok, connected)
    PROVE  XhciInv'
  <2>1. UNCHANGED <<awaited, ep0, kbd, reports, flight, in_order>>
    BY DEF xhci_try_controller
  <2> x_stage = "try" /\ x_stage' # "ready" /\ awaited = <<>>
    BY DEF xhci_try_controller
  <2>3. cmd' \in RingsOf(CmdTrbs)
    BY RingTyped DEF xhci_try_controller
  <2>4. EventsMark(evt)' /\ NoReportEvent(evt)'
    <3>1. evt' = EventRing \/ evt' = evt
      BY DEF xhci_try_controller
    <3> QED
      BY <3>1, EventRingMarks DEF NoReportEvent, KeyboardMark
  <2> QED
    BY <2>1, <2>3, <2>4 DEF XhciInv, KeyboardMark
<1>2. CASE xhci_none
  BY <1>2 DEF xhci_none, XhciInv, KeyboardMark
<1> CASE run_command
  <2>0. Push(cmd, 0) \in RingsOf(CmdTrbs) /\ Ring(Ep0Trbs) \in RingsOf(Ep0Trbs)
    BY PushTyped, RingTyped
  <2>1. cmd' \in RingsOf(CmdTrbs) /\ ep0' \in RingsOf(Ep0Trbs)
    BY <2>0 DEF run_command
  <2>2. UNCHANGED <<x_stage, kbd, evt, reports, flight, in_order>> /\ x_stage = "setup"
    BY DEF run_command, SetupStep
  <2> QED
    BY <2>1, <2>2 DEF XhciInv, KeyboardMark
<1>4. CASE control_transfer
  <2>1. Push(ep0, 0) \in RingsOf(Ep0Trbs)
    BY PushTyped
  <2>2. ep0' \in RingsOf(Ep0Trbs)
    BY <1>4, <2>1, PushTyped DEF control_transfer, ep0_ring_push_raw
  <2>3. UNCHANGED <<x_stage, cmd, kbd, evt, reports, flight, in_order>> /\ x_stage = "setup"
    BY <1>4 DEF control_transfer, SetupStep
  <2> QED
    BY <2>2, <2>3 DEF XhciInv, KeyboardMark
<1>5. CASE AwaitEvent
  <2> /\ x_stage = "setup" /\ HasEvent /\ evt' = Advance
      /\ UNCHANGED <<cmd, reports, flight, in_order>>
    BY <1>5 DEF AwaitEvent
  <2>2. EventsMark(Advance) /\ Advance.trb = evt.trb
    BY AdvanceEvent
  <2> EventsMark(evt)' /\ NoReportEvent(evt')
    BY <2>2 DEF KeyboardMark, NoReportEvent
  <2>4. ep0' \in RingsOf(Ep0Trbs)
    <3>1. Push(ep0, 1) \in RingsOf(Ep0Trbs)
      BY PushTyped
    <3> QED
      BY <1>5, <3>1 DEF AwaitEvent, ep0_ring_push_raw
  <2>5. awaited' # <<>> => x_stage' = "setup"
    BY <1>5 DEF AwaitEvent
  <2>6. KeyboardMark'
    <3> CASE UNCHANGED <<x_stage, kbd>>
      BY DEF KeyboardMark
    <3> CASE \E ok : AfterStep(ok)
      BY StepDone
    <3> QED
      BY <1>5 DEF AwaitEvent
  <2> QED
    BY <2>4, <2>5, <2>6 DEF XhciInv
<1>6. CASE AwaitTimeout
  <2> /\ x_stage = "setup" /\ awaited' = <<>> /\ AfterStep(FALSE)
      /\ UNCHANGED <<cmd, ep0, evt, reports, flight, in_order>>
    BY <1>6 DEF AwaitTimeout
  <2>2. NoReportEvent(evt')
    BY DEF KeyboardMark, NoReportEvent
  <2>3. KeyboardMark'
    BY <2>2, StepDone
  <2> QED
    BY <2>3 DEF XhciInv
<1>7. ASSUME NEW cc \in {1, 4}, HcCommand(cc) PROVE XhciInv'
  <2> /\ HasWork(cmd) /\ RoomForEvent /\ evt' = Post("cmd", cmd.deq, cc) /\ cmd' = Fetch(cmd)
      /\ UNCHANGED <<x_stage, awaited, ep0, kbd, reports, flight, in_order>>
    BY <1>7 DEF HcCommand
  <2>2. cmd' \in RingsOf(CmdTrbs) /\ cmd.deq \in Nat
    BY FetchFields, SMTT(60)
  <2>3. EventsMark(evt)' /\ KeyboardMark'
    BY <2>2, QuietEvent
  <2> QED
    BY <2>2, <2>3 DEF XhciInv
<1>8. ASSUME NEW cc \in {1, 4}, HcControl(cc) PROVE XhciInv'
  <2> /\ HasWork(ep0) /\ RoomForEvent
      /\ ep0' = IF cc = 1 THEN Fetch(ep0) ELSE [ep0 EXCEPT !.halted = TRUE]
      /\ evt' = evt \/ evt' = Post("ep0", ep0.deq, cc)
      /\ UNCHANGED <<x_stage, awaited, cmd, kbd, reports, flight, in_order>>
    BY <1>8 DEF HcControl
  <2> ep0.deq \in Nat /\ Fetch(ep0) \in RingsOf(Ep0Trbs) /\ [ep0 EXCEPT !.halted = TRUE] \in RingsOf(Ep0Trbs)
    BY FetchFields, HaltFields, SMTT(60)
  <2>3. EventsMark(evt)' /\ KeyboardMark'
    <3>1. CASE evt' = evt
      BY <3>1 DEF KeyboardMark
    <3>2. CASE evt' = Post("ep0", ep0.deq, cc)
      BY <3>2, QuietEvent
    <3> QED
      BY <3>1, <3>2
  <2> QED
    BY <2>3 DEF XhciInv
<1> CASE HcLink
  <2>1. UNCHANGED <<x_stage, awaited, evt, reports, flight, in_order>>
    BY DEF HcLink
  <2>2. CASE AtLink(cmd) /\ cmd' = FollowLink(cmd) /\ UNCHANGED <<ep0, kbd>>
    <3>1. cmd' \in RingsOf(CmdTrbs)
      BY <2>2, FollowFields
    <3> QED
      BY <2>1, <2>2, <3>1 DEF XhciInv, KeyboardMark
  <2>3. CASE AtLink(ep0) /\ ep0' = FollowLink(ep0) /\ UNCHANGED <<cmd, kbd>>
    <3>1. ep0' \in RingsOf(Ep0Trbs)
      BY <2>3, FollowFields
    <3> QED
      BY <2>1, <2>3, <3>1 DEF XhciInv, KeyboardMark
  <2> CASE AtLink(kbd) /\ kbd' = FollowLink(kbd) /\ UNCHANGED <<cmd, ep0>>
    <3> CASE x_stage = "ready"
      <4> FlightMark(evt, kbd, flight, reports) /\ KbdMark(kbd, Len(flight))
        BY DEF KeyboardMark, FlightMark
      <4>2. KbdMark(FollowLink(kbd), Len(flight)) /\ FollowLink(kbd).enq = kbd.enq
        BY KbdFollow
      <4>3. FlightMark(evt, FollowLink(kbd), flight, reports)
        BY <4>2, FlightSame
      <4> QED
        BY <2>1, <4>3 DEF XhciInv, KeyboardMark
    <3>2. CASE x_stage # "ready"
      <4>1. kbd.deq = 0 /\ kbd.size = KbdTrbs
        BY <3>2, SMTT(60) DEF KeyboardMark, Ring
      <4> QED
        BY <4>1, RingSizes, SMTT(60) DEF AtLink
    <3> QED
      BY <3>2
  <2> QED
    BY <2>2, <2>3 DEF HcLink
<1>10. CASE HcPort
  <2> /\ RoomForEvent /\ evt' = Post("port", 0, 1)
      /\ UNCHANGED <<x_stage, awaited, cmd, ep0, kbd, reports, flight, in_order>>
    BY <1>10 DEF HcPort
  <2>2. EventsMark(evt)' /\ KeyboardMark'
    BY QuietEvent
  <2> QED
    BY <2>2 DEF XhciInv
<1>11. CASE HcReportError
  <2> /\ x_stage = "ready" /\ HasWork(kbd) /\ RoomForEvent /\ kbd' = [kbd EXCEPT !.halted = TRUE]
      /\ evt' = Post("kbd", kbd.deq, 4)
      /\ UNCHANGED <<x_stage, awaited, cmd, ep0, reports, flight, in_order>>
    BY <1>11 DEF HcReportError
  <2> FlightMark(evt, kbd, flight, reports) /\ KbdMark(kbd, Len(flight))
    BY DEF KeyboardMark, FlightMark
  <2>3. KbdMark(kbd', Len(flight)) /\ kbd'.enq = kbd.enq
    BY KbdHalt
  <2>4. kbd.deq \in Nat
    BY KbdFacts, SMTT(60) DEF RingsOf
  <2>5. EventsMark(evt')
    BY <2>4, PostEvent, SMTT(60)
  <2>6. FlightMark(evt', kbd', flight, reports)
    <3>1. "kbd" \in {"cmd", "ep0", "port", "kbd"} /\ 4 \in Nat /\ ~("kbd" = "kbd" /\ 4 = 1)
      BY SMTT(60)
    <3> QED
      BY <2>3, <2>4, <3>1, QuietPost
  <2> QED
    BY <2>5, <2>6 DEF XhciInv, KeyboardMark
<1> ASSUME NEW keys \in HidReports, HcReport(keys) PROVE XhciInv'
  <2> /\ x_stage = "ready" /\ HasWork(kbd) /\ RoomForEvent /\ kbd' = Fetch(kbd)
      /\ reports' = [reports EXCEPT ![kbd.trb[kbd.deq].buf] = keys]
      /\ flight' = Append(flight, keys)
      /\ evt' = Post("kbd", kbd.deq, 1)
      /\ UNCHANGED <<x_stage, awaited, cmd, ep0, in_order>>
    BY DEF HcReport
  <2>2. FlightMark(evt, kbd, flight, reports) /\ KbdMark(kbd, Len(flight))
    BY DEF KeyboardMark, FlightMark
  <2>3. kbd.deq \in Nat
    BY <2>2, KbdFacts, SMTT(60) DEF RingsOf
  <2>4. EventsMark(evt')
    BY <2>3, PostEvent, SMTT(60)
  <2>5. FlightMark(evt', kbd', flight', reports')
    BY <2>2, ReportPost
  <2> QED
    BY <2>4, <2>5 DEF XhciInv, KeyboardMark
<1> CASE xhci_poll
  <2> DEFINE e == evt.trb[evt.deq]
  <2> /\ x_stage = "ready" /\ HasEvent /\ evt' = Advance
      /\ UNCHANGED <<x_stage, awaited, cmd, ep0, reports>>
    BY DEF xhci_poll
  <2> FlightMark(evt, kbd, flight, reports) /\ EventsMark(evt')
    BY AdvanceEvent DEF KeyboardMark
  <2> CASE Delivered(e)
    <3>1. /\ in_order' = (in_order /\ flight /= <<>> /\ reports[e.trb] = Head(flight))
          /\ flight' = IF flight = <<>> THEN flight ELSE Tail(flight)
          /\ kbd' = Push(kbd, e.trb)
      BY DEF xhci_poll
    <3>2. /\ flight # <<>> /\ reports[e.trb] = Head(flight)
          /\ FlightMark(evt', Push(kbd, e.trb), Tail(flight), reports)
      BY ReportAdvance, SMTT(60)
    <3>3. in_order' = TRUE
      BY <3>1, <3>2
    <3> QED
      BY <3>1, <3>2, <3>3 DEF XhciInv, KeyboardMark
  <2> CASE ~Delivered(e)
    <3>1. UNCHANGED <<in_order, flight, kbd>>
      BY DEF xhci_poll
    <3>2. FlightMark(evt', kbd, flight, reports)
      BY QuietAdvance
    <3> QED
      BY <3>1, <3>2 DEF XhciInv, KeyboardMark
  <2> QED
    OBVIOUS
<1> QED
  BY <1>2, <1>4, <1>5, <1>6, <1>7, <1>8, <1>10, <1>11, SMTT(60) DEF XhciNext

=============================================================================
