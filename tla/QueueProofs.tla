----------------------------- MODULE QueueProofs -----------------------------
(***************************************************************************)
(* What passes through the kernel's queues: the messages of the channels   *)
(* of ipc.c, the events of the ring of event_queue.c, and the bytes of     *)
(* keyboard and mouse that the ring carries to their decoders.             *)
(***************************************************************************)
EXTENDS Ipc, Input, TLAPS

\* A leaf that names no prover is given to Zenon.
USE ZenonT(60)

\* The empty sequence is the one of length 0.
LEMMA EmptyFacts ==
  ASSUME NEW S
  PROVE  /\ << >> \in Seq(S) /\ Len(<< >>) = 0
         /\ \A q \in Seq(S) : (q = << >>) <=> (Len(q) = 0)
  BY SMTT(60)

\* A queue with one element more.
LEMMA AppendFacts ==
  ASSUME NEW S, NEW q \in Seq(S), NEW e \in S
  PROVE  /\ Append(q, e) \in Seq(S) /\ Len(Append(q, e)) = Len(q) + 1
         /\ \A i \in 1..Len(q) : Append(q, e)[i] = q[i]
         /\ Append(q, e)[Len(q) + 1] = e
  BY SMTT(60)

\* A queue without its first element.
LEMMA TailFacts ==
  ASSUME NEW S, NEW q \in Seq(S), q # << >>
  PROVE  /\ Head(q) = q[1] /\ Head(q) \in S
         /\ Tail(q) \in Seq(S) /\ Len(Tail(q)) = Len(q) - 1
         /\ \A i \in 1..Len(Tail(q)) : Tail(q)[i] = q[i + 1]
  BY SMTT(60)

\* Sequences with the same elements are the same.
LEMMA SameSeq ==
  ASSUME NEW S, NEW q \in Seq(S), NEW r \in Seq(S), Len(q) = Len(r),
         \A i \in 1..Len(q) : q[i] = r[i]
  PROVE  q = r
  BY SMTT(60)

\* s is the part of a sequence q over S from one position to another.
IsPart(s, S, q, m, n) ==
  /\ s \in Seq(S) /\ Len(s) = IF m <= n THEN n - m + 1 ELSE 0
  /\ \A i \in 1..(n - m + 1) : s[i] = q[m + i - 1]

\* So is what SubSeq() returns.
LEMMA PartFacts ==
  ASSUME NEW S, NEW q, NEW m \in Int, NEW n \in Int, \A i \in m..n : q[i] \in S
  PROVE  IsPart(SubSeq(q, m, n), S, q, m, n)
  BY SMTT(60) DEF IsPart

\* A packet cut in two: the next byte goes over from the second part to the first.
Cut(p, len, j) ==
  /\ j = 0 => SubSeq(p, 1, j) = <<>>
  /\ j # 0 => SubSeq(p, 1, j) # <<>>
  /\ Append(SubSeq(p, 1, j), p[j + 1]) = SubSeq(p, 1, j + 1)
  /\ Len(SubSeq(p, 1, j + 1)) = j + 1
  /\ SubSeq(p, j + 1, len) # <<>> /\ Head(SubSeq(p, j + 1, len)) = p[j + 1]
  /\ Tail(SubSeq(p, j + 1, len)) = SubSeq(p, (j + 1) + 1, len)
  /\ j + 1 = len => SubSeq(p, (j + 1) + 1, len) = <<>>
  /\ j + 1 # len => j + 1 \in 0..(len - 1)

\* Every packet can be cut that way.
LEMMA PacketParts ==
  ASSUME NEW p \in [1..4 -> 0..255], NEW len \in {3, 4}, NEW j \in 0..(len - 1)
  PROVE  Cut(p, len, j)
<1> DEFINE B == 0..255
           done == SubSeq(p, 1, j)
           more == SubSeq(p, 1, j + 1)
           left == SubSeq(p, j + 1, len)
           rest == SubSeq(p, (j + 1) + 1, len)
<1>1. /\ j \in Int /\ len \in Int /\ j + 1 <= len /\ len <= 4 /\ 0 <= j
      /\ 1 \in Int /\ j + 1 \in Int /\ (j + 1) + 1 \in Int
      /\ \A i \in 1..4 : p[i] \in B
  BY SMTT(60)
<1>2. /\ \A i \in 1..j : p[i] \in B
      /\ \A i \in 1..(j + 1) : p[i] \in B
      /\ \A i \in (j + 1)..len : p[i] \in B
      /\ \A i \in ((j + 1) + 1)..len : p[i] \in B
      /\ p[j + 1] \in B
  BY <1>1, SMTT(60)
<1>3. /\ done \in Seq(B) /\ Len(done) = j /\ \A i \in 1..j : done[i] = p[i]
  <2>1. IsPart(done, B, p, 1, j)
    BY <1>1, <1>2, PartFacts
  <2> HIDE DEF done
  <2> QED
    BY <1>1, <2>1, SMTT(60) DEF IsPart
<1>4. /\ more \in Seq(B) /\ Len(more) = j + 1 /\ \A i \in 1..(j + 1) : more[i] = p[i]
  <2>1. IsPart(more, B, p, 1, j + 1)
    BY <1>1, <1>2, PartFacts
  <2> HIDE DEF more
  <2> QED
    BY <1>1, <2>1, SMTT(60) DEF IsPart
<1>5. /\ left \in Seq(B) /\ Len(left) = len - j /\ \A i \in 1..(len - j) : left[i] = p[j + i]
  <2>1. IsPart(left, B, p, j + 1, len)
    BY <1>1, <1>2, PartFacts
  <2> HIDE DEF left
  <2> QED
    BY <1>1, <2>1, SMTT(60) DEF IsPart
<1>6. /\ rest \in Seq(B) /\ Len(rest) = len - j - 1 /\ \A i \in 1..(len - j - 1) : rest[i] = p[j + 1 + i]
  <2>1. IsPart(rest, B, p, (j + 1) + 1, len)
    BY <1>1, <1>2, PartFacts
  <2> HIDE DEF rest
  <2> QED
    BY <1>1, <2>1, SMTT(60) DEF IsPart
<1> HIDE DEF done, more, left, rest, B
<1>7. Append(done, p[j + 1]) = more
  <2> DEFINE a == Append(done, p[j + 1])
  <2>1. /\ a \in Seq(B) /\ Len(a) = j + 1 /\ a[j + 1] = p[j + 1] /\ \A i \in 1..j : a[i] = done[i]
    BY <1>2, <1>3, AppendFacts, SMTT(60)
  <2> HIDE DEF a
  <2>2. \A i \in 1..(j + 1) : a[i] = more[i]
    BY <1>1, <1>3, <1>4, <2>1, SMTT(60)
  <2> QED
    BY <1>4, <2>1, <2>2, SameSeq DEF a
<1>8. left # <<>> /\ Head(left) = p[j + 1] /\ Tail(left) = rest
  <2>1. left # <<>>
    BY <1>1, <1>5, EmptyFacts, SMTT(60)
  <2>2. /\ Head(left) = left[1] /\ Tail(left) \in Seq(B) /\ Len(Tail(left)) = Len(left) - 1
        /\ \A i \in 1..Len(Tail(left)) : Tail(left)[i] = left[i + 1]
    BY <1>5, <2>1, TailFacts
  <2> DEFINE x == Tail(left)
  <2> HIDE DEF x
  <2>3. Len(x) = Len(rest) /\ \A i \in 1..Len(x) : x[i] = rest[i]
    BY <1>1, <1>5, <1>6, <2>2, SMTT(60) DEF x
  <2>4. Head(left) = p[j + 1]
    BY <1>1, <1>5, <2>2, SMTT(60)
  <2> QED
    BY <1>6, <2>1, <2>2, <2>3, <2>4, SameSeq DEF x
<1>9. (j = 0 => done = <<>>) /\ (j # 0 => done # <<>>) /\ (j + 1 = len => rest = <<>>)
  BY <1>1, <1>3, <1>6, EmptyFacts, SMTT(60)
<1>10. j + 1 # len => j + 1 \in 0..(len - 1)
  BY <1>1, SMTT(60)
<1> QED
  BY <1>4, <1>7, <1>8, <1>9, <1>10 DEF Cut, done, more, left, rest

-----------------------------------------------------------------------------
(* kernel/core/ipc/ipc.c.                                                  *)

\* Process p has a handle of channel c.
Has(p, c) == \E h \in Handles : handles[p][h] = c

\* Every handle leads to an open end of an active channel, and is the only one
\* of its process that does.
Linked ==
  \A p \in Pids, h \in Handles : handles[p][h] # 0 =>
    /\ pstate[p] = "alive"
    /\ active[handles[p][h]]
    /\ \E side \in Sides : pid[handles[p][h]][side] = p /\ ~closed[handles[p][h]][side]
    /\ \A g \in Handles : handles[p][g] = handles[p][h] => g = h

\* The ends of an active channel are two processes; one side at least is open;
\* while both are, both processes have a handle or neither has.
Paired ==
  \A c \in Channels : active[c] =>
    /\ pid[c][0] \in Pids /\ pid[c][1] \in Pids /\ pid[c][0] # pid[c][1]
    /\ ~(closed[c][0] /\ closed[c][1])
    /\ ~closed[c][0] /\ ~closed[c][1] => (Has(pid[c][0], c) <=> Has(pid[c][1], c))

\* What every call of ipc.c preserves.
IpcInv == IpcTypeOK /\ Linked /\ Paired /\ OwnMessages

-----------------------------------------------------------------------------
\* side ^ 1 on the two sides.
LEMMA OtherSide ==
  /\ Sides = {0, 1} /\ 0 # 1
  /\ Other(0) = 1 /\ Other(1) = 0
BY SMTT(60) DEF Other, Sides

\* A handle that is not 0 names a channel.
LEMMA HandleNamesChannel ==
  ASSUME IpcTypeOK, NEW p \in Pids, NEW h \in Handles
  PROVE  handles[p][h] # 0 <=> handles[p][h] \in Channels
BY IpcAssumption, SMTT(60) DEF IpcTypeOK, Channels

\* The invariant gives what the runs check of handles and channels.
LEMMA IpcInvSound == IpcInv => ChannelsSound
<1> SUFFICES ASSUME IpcInv PROVE HandlesValid /\ SidesConsistent
  BY DEF ChannelsSound
<1>1. HandlesValid
  <2> SUFFICES ASSUME NEW p \in Pids, NEW h \in Handles, handles[p][h] # 0
               PROVE  /\ pstate[p] = "alive"
                      /\ \E side \in Sides : IsEndpoint(p, h, handles[p][h], side)
                      /\ \A g \in Handles : handles[p][g] = handles[p][h] => g = h
    BY DEF HandlesValid
  <2> DEFINE c == handles[p][h]
  <2>1. /\ pstate[p] = "alive" /\ c \in Channels /\ active[c]
        /\ \E side \in Sides : pid[c][side] = p /\ ~closed[c][side]
        /\ \A g \in Handles : handles[p][g] = c => g = h
    BY HandleNamesChannel, SMTT(60) DEF IpcInv, Linked
  <2>2. pid[c][0] # pid[c][1]
    BY <2>1 DEF IpcInv, Paired
  <2>3. \E side \in Sides : IsEndpoint(p, h, c, side)
    BY <2>1, <2>2, OtherSide DEF IsEndpoint, IsSide, Exists
  <2> QED
    BY <2>1, <2>3
<1>2. SidesConsistent
  <2> SUFFICES ASSUME NEW c \in Channels, active[c]
               PROVE  /\ pid[c][0] # pid[c][1]
                      /\ ~(closed[c][0] /\ closed[c][1])
                      /\ \A p \in Pids, h \in Handles, side \in Sides :
                           IsEndpoint(p, h, c, side) /\ ~closed[c][Other(side)] =>
                             \E g \in Handles : IsEndpoint(pid[c][Other(side)], g, c, Other(side))
    BY DEF SidesConsistent
  <2>1. /\ pid[c][0] \in Pids /\ pid[c][1] \in Pids /\ pid[c][0] # pid[c][1]
        /\ ~(closed[c][0] /\ closed[c][1])
        /\ ~closed[c][0] /\ ~closed[c][1] => (Has(pid[c][0], c) <=> Has(pid[c][1], c))
    BY DEF IpcInv, Paired
  <2> SUFFICES ASSUME NEW p \in Pids, NEW h \in Handles, NEW side \in Sides,
                      IsEndpoint(p, h, c, side), ~closed[c][Other(side)]
               PROVE  \E g \in Handles : IsEndpoint(pid[c][Other(side)], g, c, Other(side))
    BY <2>1
  <2>2. pid[c][side] = p /\ ~closed[c][side] /\ Has(p, c)
    BY DEF IsEndpoint, IsSide, Has
  <2>3. Has(pid[c][Other(side)], c) /\ pid[c][Other(side)] \in Pids
    BY <2>1, <2>2, OtherSide
  <2>4. PICK g \in Handles : handles[pid[c][Other(side)]][g] = c
    BY <2>3 DEF Has
  <2>5. c # 0
    BY SMTT(60) DEF Channels
  <2>6. pstate[pid[c][Other(side)]] = "alive"
    BY <2>3, <2>4, <2>5 DEF IpcInv, Linked
  <2>7. IsSide(c, pid[c][Other(side)], Other(side))
    BY <2>1, OtherSide DEF IsSide
  <2> QED
    BY <2>4, <2>5, <2>6, <2>7 DEF IsEndpoint, Exists
<1> QED
  BY <1>1, <1>2

-----------------------------------------------------------------------------
\* nexus_ipc_init() establishes the invariant.
LEMMA IpcInitInv == IpcInit => IpcInv
<1> SUFFICES ASSUME IpcInit PROVE IpcInv
  OBVIOUS
<1>1. IpcTypeOK
  BY IpcAssumption, EmptyFacts, SMTT(60) DEF IpcInit, IpcTypeOK, Channels, Sides
<1> QED
  BY <1>1 DEF IpcInit, IpcInv, Linked, Paired, OwnMessages

\* process_create() and process_reap() touch only processes without handles.
LEMMA LifecycleInv ==
  ASSUME IpcInv, NEW p \in Pids, ProcessCreate(p) \/ ProcessReap(p)
  PROVE  IpcInv'
<1>1. /\ pstate[p] # "alive" /\ UNCHANGED chanVars
      /\ handles' = [handles EXCEPT ![p] = [h \in Handles |-> 0]]
      /\ pstate' = [pstate EXCEPT ![p] = pstate'[p]]
  BY DEF ProcessCreate, ProcessReap, IpcInv, IpcTypeOK
<1>2. UNCHANGED <<active, closed, pid, queue, created, gen>>
  BY <1>1 DEF chanVars
<1>3. \A h \in Handles : handles[p][h] = 0
  BY <1>1 DEF IpcInv, Linked
<1>4. handles' = handles
  BY <1>1, <1>3, SMTT(60) DEF IpcInv, IpcTypeOK
<1>5. IpcTypeOK'
  BY <1>2, <1>4 DEF IpcInv, IpcTypeOK, ProcessCreate, ProcessReap
<1>6. Linked'
  BY <1>1, <1>2, <1>3, <1>4, SMTT(60) DEF IpcInv, Linked, IpcTypeOK
<1>7. Paired' /\ OwnMessages'
  BY <1>2, <1>4, SMTT(60) DEF IpcInv, Paired, Has, OwnMessages
<1> QED
  BY <1>5, <1>6, <1>7 DEF IpcInv

\* nexus_ipc_send() and nexus_ipc_recv() change one queue of an active channel.
LEMMA MessageInv ==
  ASSUME IpcInv, NEW p \in Pids, NEW h \in Handles,
         nexus_ipc_send(p, h) \/ nexus_ipc_recv(p, h)
  PROVE  IpcInv'
<1>1. UNCHANGED <<pstate, handles, active, closed, pid, created, gen>>
  BY DEF nexus_ipc_send, nexus_ipc_recv
<1>2. PICK c \in Channels, side \in Sides :
        /\ active[c]
        /\ \/ Len(queue[c][side]) < Depth /\ queue' = [queue EXCEPT ![c][side] = Append(@, gen[c])]
           \/ queue[c][side] # <<>> /\ queue' = [queue EXCEPT ![c][side] = Tail(@)]
  <2>1. CASE nexus_ipc_send(p, h)
    <3>1. PICK c \in Channels, side \in Sides :
            /\ IsEndpoint(p, h, c, side)
            /\ Len(queue[c][Other(side)]) < Depth
            /\ queue' = [queue EXCEPT ![c][Other(side)] = Append(@, gen[c])]
      BY <2>1 DEF nexus_ipc_send
    <3>2. active[c]
      BY <3>1 DEF IsEndpoint, IsSide
    <3>3. Other(side) \in Sides
      BY OtherSide
    <3> HIDE DEF Other
    <3> QED
      BY <3>1, <3>2, <3>3
  <2>2. CASE nexus_ipc_recv(p, h)
    BY <2>2 DEF nexus_ipc_recv, IsEndpoint, IsSide
  <2> QED
    BY <2>1, <2>2
<1>3. queue[c][side] \in Seq(Nat) /\ gen[c] \in Nat /\ Len(queue[c][side]) <= Depth
  BY DEF IpcInv, IpcTypeOK
<1>4. \A i \in DOMAIN queue[c][side] : queue[c][side][i] = gen[c]
  BY <1>2, SMTT(60) DEF IpcInv, OwnMessages
<1>5. /\ queue'[c][side] \in Seq(Nat)
      /\ Len(queue'[c][side]) <= Depth
      /\ \A i \in DOMAIN queue'[c][side] : queue'[c][side][i] = gen[c]
  <2>1. CASE Len(queue[c][side]) < Depth /\ queue' = [queue EXCEPT ![c][side] = Append(@, gen[c])]
    <3>1. queue'[c][side] = Append(queue[c][side], gen[c])
      BY <2>1 DEF IpcInv, IpcTypeOK
    <3> QED
      BY <3>1, <2>1, <1>3, <1>4, IpcAssumption, SMTT(60)
  <2>2. CASE queue[c][side] # <<>> /\ queue' = [queue EXCEPT ![c][side] = Tail(@)]
    <3>1. queue'[c][side] = Tail(queue[c][side])
      BY <2>2 DEF IpcInv, IpcTypeOK
    <3> QED
      BY <3>1, <2>2, <1>3, <1>4, IpcAssumption, TailFacts, SMTT(60)
  <2> QED
    BY <1>2, <2>1, <2>2
<1>6. \A d \in Channels, s \in Sides :
         queue'[d][s] = IF d = c /\ s = side THEN queue'[c][side] ELSE queue[d][s]
  BY <1>2, SMTT(60) DEF IpcInv, IpcTypeOK
<1>7. /\ queue' \in [Channels -> [Sides -> Seq(Nat)]]
      /\ \A d \in Channels, s \in Sides : Len(queue'[d][s]) <= Depth
  <2>1. \A d \in Channels, s \in Sides : queue'[d][s] \in Seq(Nat) /\ Len(queue'[d][s]) <= Depth
    BY <1>5, <1>6 DEF IpcInv, IpcTypeOK
  <2>3. queue' = [d \in Channels |-> [s \in Sides |-> queue'[d][s]]]
    BY <1>2 DEF IpcInv, IpcTypeOK
  <2>4. [d \in Channels |-> [s \in Sides |-> queue'[d][s]]] \in [Channels -> [Sides -> Seq(Nat)]]
    BY <2>1
  <2> QED
    BY <2>1, <2>3, <2>4
<1>8. IpcTypeOK'
  BY <1>1, <1>7 DEF IpcInv, IpcTypeOK
<1>9. Linked' /\ Paired'
  BY <1>1, SMTT(60) DEF IpcInv, Linked, Paired, Has
<1>10. OwnMessages'
  BY <1>1, <1>5, <1>6, SMTT(60) DEF IpcInv, OwnMessages
<1> QED
  BY <1>8, <1>9, <1>10 DEF IpcInv

\* nexus_ipc_create() takes a channel no handle leads to and two free handles.
LEMMA CreateInv ==
  ASSUME IpcInv, NEW owner \in Pids, NEW peer \in Pids, nexus_ipc_create(owner, peer)
  PROVE  IpcInv'
<1>bool. PICK ho \in Handles, hp \in Handles, c \in Channels :
        /\ FreeHandle(owner, ho)
        /\ FreeHandle(peer, hp)
        /\ FreeChannel(c)
        /\ active' = [active EXCEPT ![c] = TRUE]
        /\ closed' = [closed EXCEPT ![c] = [side \in Sides |-> FALSE]]
        /\ pid' = [pid EXCEPT ![c] = [side \in Sides |-> IF side = 0 THEN owner ELSE peer]]
        /\ queue' = EmptyQueues(c)
        /\ gen' = [gen EXCEPT ![c] = created + 1]
        /\ handles' = [handles EXCEPT ![owner][ho] = c, ![peer][hp] = c]
  BY DEF nexus_ipc_create
<1>1. /\ handles[owner][ho] = 0 /\ handles[peer][hp] = 0 /\ ~active[c]
      /\ active' = [active EXCEPT ![c] = TRUE]
      /\ closed' = [closed EXCEPT ![c] = [side \in Sides |-> FALSE]]
      /\ pid' = [pid EXCEPT ![c] = [side \in Sides |-> IF side = 0 THEN owner ELSE peer]]
      /\ queue' = [queue EXCEPT ![c] = [side \in Sides |-> <<>>]]
      /\ gen' = [gen EXCEPT ![c] = created + 1]
      /\ handles' = [handles EXCEPT ![owner][ho] = c, ![peer][hp] = c]
  BY <1>bool DEF FreeHandle, FreeChannel, EmptyQueues
<1>2. /\ owner # peer /\ pstate[owner] = "alive" /\ pstate[peer] = "alive"
      /\ created' = created + 1 /\ pstate' = pstate
  BY DEF nexus_ipc_create
<1>3. c # 0 /\ c \in 0..MaxChannels
  BY IpcAssumption, SMTT(60) DEF Channels
<1>4. \A p \in Pids, h \in Handles :
         handles'[p][h] = IF (p = owner /\ h = ho) \/ (p = peer /\ h = hp) THEN c ELSE handles[p][h]
  BY <1>1, <1>2 DEF IpcInv, IpcTypeOK
<1>5. IpcTypeOK'
  <2>1. queue' \in [Channels -> [Sides -> Seq(Nat)]]
        /\ \A d \in Channels, side \in Sides : Len(queue'[d][side]) <= Depth
    BY <1>1, EmptyFacts, IpcAssumption, SMTT(60) DEF IpcInv, IpcTypeOK
  <2>2. handles' \in [Pids -> [Handles -> 0..MaxChannels]]
    BY <1>1, <1>3 DEF IpcInv, IpcTypeOK
  <2>3. /\ active' \in [Channels -> BOOLEAN] /\ gen' \in [Channels -> Nat] /\ created' \in Nat
        /\ pstate' \in [Pids -> {"unused", "alive", "zombie", "reaped"}]
    BY <1>1, <1>2, SMTT(60) DEF IpcInv, IpcTypeOK
  <2>4. closed' \in [Channels -> [Sides -> BOOLEAN]]
    BY <1>1 DEF IpcInv, IpcTypeOK
  <2>5. pid' \in [Channels -> [Sides -> Pids \cup {NoPid}]]
    BY <1>1 DEF IpcInv, IpcTypeOK
  <2> QED
    BY <2>1, <2>2, <2>3, <2>4, <2>5 DEF IpcTypeOK
<1>6. \A d \in Channels : d # c =>
         /\ active'[d] = active[d] /\ closed'[d] = closed[d] /\ pid'[d] = pid[d]
         /\ queue'[d] = queue[d] /\ gen'[d] = gen[d]
  BY <1>1 DEF IpcInv, IpcTypeOK
<1>7. /\ active'[c] /\ ~closed'[c][0] /\ ~closed'[c][1]
      /\ pid'[c][0] = owner /\ pid'[c][1] = peer
      /\ \A side \in Sides : queue'[c][side] = <<>>
  BY <1>1, OtherSide DEF IpcInv, IpcTypeOK
<1>8. \A p \in Pids, h \in Handles : handles[p][h] # c
  BY <1>1, <1>3, SMTT(60) DEF IpcInv, Linked
<1>9. Linked'
  <2> SUFFICES ASSUME NEW p \in Pids, NEW h \in Handles, handles'[p][h] # 0
               PROVE  /\ pstate'[p] = "alive"
                      /\ active'[handles'[p][h]]
                      /\ \E side \in Sides : /\ pid'[handles'[p][h]][side] = p
                                            /\ ~closed'[handles'[p][h]][side]
                      /\ \A g \in Handles : handles'[p][g] = handles'[p][h] => g = h
    BY DEF Linked
  <2>1. CASE (p = owner /\ h = ho) \/ (p = peer /\ h = hp)
    <3>1. handles'[p][h] = c
      BY <2>1, <1>4
    <3>2. \A g \in Handles : handles'[p][g] = c => g = h
      BY <2>1, <1>2, <1>4, <1>8, SMTT(60)
    <3> QED
      BY <3>1, <3>2, <2>1, <1>2, <1>7, OtherSide
  <2>2. CASE ~((p = owner /\ h = ho) \/ (p = peer /\ h = hp))
    <3>1. handles'[p][h] = handles[p][h] /\ handles[p][h] # c /\ handles[p][h] \in Channels
      BY <2>2, <1>4, <1>8, HandleNamesChannel DEF IpcInv
    <3>2. \A g \in Handles : handles'[p][g] = handles[p][h] => handles[p][g] = handles[p][h]
      BY <3>1, <1>4
    <3> QED
      BY <3>1, <3>2, <1>2, <1>6, SMTT(60) DEF IpcInv, Linked
  <2> QED
    BY <2>1, <2>2
<1>10. Paired'
  <2> SUFFICES ASSUME NEW d \in Channels, active'[d]
               PROVE  /\ pid'[d][0] \in Pids /\ pid'[d][1] \in Pids /\ pid'[d][0] # pid'[d][1]
                      /\ ~(closed'[d][0] /\ closed'[d][1])
                      /\ ~closed'[d][0] /\ ~closed'[d][1] =>
                           (Has(pid[d][0], d)' <=> Has(pid[d][1], d)')
    BY DEF Paired
  <2>1. CASE d = c
    <3>1. Has(pid[d][0], d)' /\ Has(pid[d][1], d)'
      BY <2>1, <1>4, <1>7 DEF Has
    <3> QED
      BY <3>1, <2>1, <1>2, <1>7
  <2>2. CASE d # c
    <3>1. active[d] /\ closed'[d] = closed[d] /\ pid'[d] = pid[d]
      BY <2>2, <1>6
    <3>2. \A p \in Pids, h \in Handles : handles'[p][h] = d <=> handles[p][h] = d
      <4>1. d # 0
        BY SMTT(60) DEF Channels
      <4> TAKE p \in Pids, h \in Handles
      <4>2. CASE (p = owner /\ h = ho) \/ (p = peer /\ h = hp)
        <5>1. handles'[p][h] = c
          BY <4>2, <1>4
        <5>2. handles[p][h] = 0
          BY <4>2, <1>1
        <5> QED
          BY <5>1, <5>2, <4>1, <2>2
      <4>3. CASE ~((p = owner /\ h = ho) \/ (p = peer /\ h = hp))
        BY <4>3, <1>4
      <4> QED
        BY <4>2, <4>3
    <3>3. \A p \in Pids : (\E h \in Handles : handles'[p][h] = d) <=> (\E h \in Handles : handles[p][h] = d)
      BY <3>2
    <3> QED
      BY <3>1, <3>3, SMTT(60) DEF IpcInv, Paired, Has
  <2> QED
    BY <2>1, <2>2
<1>11. OwnMessages'
  BY <1>6, <1>7, SMTT(60) DEF IpcInv, OwnMessages
<1> QED
  BY <1>5, <1>9, <1>10, <1>11 DEF IpcInv

\* nexus_ipc_close() takes one handle, and the channel with it when the other
\* side is closed.
LEMMA CloseInv ==
  ASSUME IpcInv, NEW p \in Pids, NEW h \in Handles, nexus_ipc_close(p, h)
  PROVE  IpcInv'
<1>1. PICK c \in Channels, side \in Sides :
        /\ handles[p][h] = c
        /\ IsSide(c, p, side)
        /\ closed' = [closed EXCEPT ![c][side] = TRUE]
        /\ handles' = [handles EXCEPT ![p][h] = 0]
        /\ active' = [active EXCEPT ![c] = ~closed[c][Other(side)]]
  BY DEF nexus_ipc_close
<1>2. UNCHANGED <<pstate, pid, queue, created, gen>>
  BY DEF nexus_ipc_close
<1>3. /\ active[c] /\ pid[c][side] = p /\ c # 0
      /\ pid[c][0] \in Pids /\ pid[c][1] \in Pids /\ pid[c][0] # pid[c][1]
      /\ \A g \in Handles : handles[p][g] = c => g = h
  BY <1>1, SMTT(60) DEF IsSide, Channels, IpcInv, Paired, Linked
<1>4. \A q \in Pids, g \in Handles :
         handles'[q][g] = IF q = p /\ g = h THEN 0 ELSE handles[q][g]
  BY <1>1 DEF IpcInv, IpcTypeOK
<1>5. \A d \in Channels : /\ d # c => active'[d] = active[d] /\ closed'[d] = closed[d]
                          /\ d = c => active'[d] = ~closed[c][Other(side)]
  BY <1>1 DEF IpcInv, IpcTypeOK
<1>6. /\ closed'[c][side]
      /\ closed'[c][Other(side)] = closed[c][Other(side)]
  <2>1. closed'[c] = [closed[c] EXCEPT ![side] = TRUE]
    BY <1>1 DEF IpcInv, IpcTypeOK
  <2>2. closed[c] \in [Sides -> BOOLEAN] /\ Other(side) \in Sides /\ Other(side) # side
    BY OtherSide DEF IpcInv, IpcTypeOK
  <2> QED
    BY <2>1, <2>2
<1>7. IpcTypeOK'
  <2>1. handles' \in [Pids -> [Handles -> 0..MaxChannels]]
    BY <1>1, IpcAssumption, SMTT(60) DEF IpcInv, IpcTypeOK
  <2>2. closed' \in [Channels -> [Sides -> BOOLEAN]] /\ active' \in [Channels -> BOOLEAN]
    BY <1>1, OtherSide DEF IpcInv, IpcTypeOK
  <2> QED
    BY <2>1, <2>2, <1>2 DEF IpcInv, IpcTypeOK
<1>8. \A g \in Handles : handles'[p][g] # c
  BY <1>3, <1>4, SMTT(60)
<1>9. Linked'
  <2> SUFFICES ASSUME NEW q \in Pids, NEW g \in Handles, handles'[q][g] # 0
               PROVE  /\ pstate'[q] = "alive"
                      /\ active'[handles'[q][g]]
                      /\ \E s \in Sides : /\ pid'[handles'[q][g]][s] = q
                                         /\ ~closed'[handles'[q][g]][s]
                      /\ \A k \in Handles : handles'[q][k] = handles'[q][g] => k = g
    BY DEF Linked
  <2> DEFINE d == handles[q][g]
  <2>1. handles'[q][g] = d /\ d # 0 /\ d \in Channels
    BY <1>4, HandleNamesChannel DEF IpcInv
  <2>2. /\ pstate[q] = "alive" /\ active[d]
        /\ \E s \in Sides : pid[d][s] = q /\ ~closed[d][s]
        /\ \A k \in Handles : handles[q][k] = d => k = g
    BY <2>1, SMTT(60) DEF IpcInv, Linked
  <2>3. \A k \in Handles : handles'[q][k] = d => k = g
    BY <2>1, <2>2, <1>4, SMTT(60)
  <2>4. CASE d # c
    BY <2>1, <2>2, <2>3, <2>4, <1>2, <1>5, SMTT(60)
  <2>5. CASE d = c
    <3>1. q # p
      BY <2>1, <2>5, <1>8
    <3>2. pid[c][Other(side)] = q /\ ~closed[c][Other(side)] /\ Other(side) \in Sides
      BY <3>1, <2>2, <2>5, <1>3, OtherSide
    <3> QED
      BY <3>2, <2>1, <2>2, <2>3, <2>5, <1>2, <1>5, <1>6
  <2> QED
    BY <2>4, <2>5
<1>10. Paired'
  <2> SUFFICES ASSUME NEW d \in Channels, active'[d]
               PROVE  /\ pid'[d][0] \in Pids /\ pid'[d][1] \in Pids /\ pid'[d][0] # pid'[d][1]
                      /\ ~(closed'[d][0] /\ closed'[d][1])
                      /\ ~closed'[d][0] /\ ~closed'[d][1] =>
                           (Has(pid[d][0], d)' <=> Has(pid[d][1], d)')
    BY DEF Paired
  <2>1. CASE d = c
    BY <2>1, <1>2, <1>3, <1>5, <1>6, OtherSide
  <2>2. CASE d # c
    <3>1. active[d] /\ closed'[d] = closed[d] /\ pid'[d] = pid[d]
      BY <2>2, <1>2, <1>5
    <3>2. \A q \in Pids, g \in Handles : handles'[q][g] = d <=> handles[q][g] = d
      <4>1. d # 0
        BY SMTT(60) DEF Channels
      <4> QED
        BY <4>1, <2>2, <1>1, <1>4, SMTT(60)
    <3>3. \A q \in Pids : (\E g \in Handles : handles'[q][g] = d) <=> (\E g \in Handles : handles[q][g] = d)
      BY <3>2
    <3> QED
      BY <3>1, <3>3, SMTT(60) DEF IpcInv, Paired, Has
  <2> QED
    BY <2>1, <2>2
<1>11. OwnMessages'
  BY <1>2, <1>3, <1>5, SMTT(60) DEF IpcInv, OwnMessages
<1> QED
  BY <1>7, <1>9, <1>10, <1>11 DEF IpcInv

\* What nexus_ipc_process_terminate() leaves: the process has no handle, and a
\* handle another process keeps leads to a channel the exit did not touch.
LEMMA ExitLeaves ==
  ASSUME IpcInv, NEW p \in Pids, process_exit(p)
  PROVE  /\ \A q \in Pids, h \in Handles :
              handles'[q][h] = 0 \/ (q # p /\ handles'[q][h] = handles[q][h])
         /\ \A q \in Pids, h \in Handles, side \in Sides :
              handles'[q][h] # 0 => ~Ends(p, handles[q][h], side)
         /\ \A q \in Pids, h \in Handles :
              (handles[q][h] # 0 /\ \A side \in Sides : ~Ends(p, handles[q][h], side))
                => handles'[q][h] = handles[q][h]
<1>1. \A q \in Pids, h \in Handles :
        LET c == handles[q][h] IN
        handles'[q][h] =
          IF c # 0 /\ \E side \in Sides :
               /\ Ends(p, c, side)
               /\ \/ q = p
                  \/ /\ pid[c][Other(side)] = q
                     /\ ~closed[c][Other(side)]
                     /\ Exists(q)
                     /\ \A g \in Handles : handles[q][g] = c => h <= g
            THEN 0 ELSE c
  BY DEF process_exit, HandlesAfterExit
<1>2. ASSUME NEW q \in Pids, NEW h \in Handles, handles'[q][h] # 0
      PROVE  /\ handles'[q][h] = handles[q][h] /\ q # p
             /\ \A side \in Sides : ~Ends(p, handles[q][h], side)
  <2> DEFINE c == handles[q][h]
  <2>1. handles'[q][h] = c /\ c # 0 /\ c \in Channels
    BY <1>1, <1>2, HandleNamesChannel DEF IpcInv
  <2>2. /\ pstate[q] = "alive" /\ active[c]
        /\ \A g \in Handles : handles[q][g] = c => g = h
        /\ pid[c][0] # pid[c][1]
    BY <2>1 DEF IpcInv, Linked, Paired
  <2>3. PICK s \in Sides : pid[c][s] = q /\ ~closed[c][s]
    BY <2>1 DEF IpcInv, Linked
  <2>4. IsSide(c, q, s)
    BY <2>2, <2>3, OtherSide DEF IsSide
  <2>5. q # p
    <3>1. q = p => Ends(p, c, s)
      BY <2>1, <2>4 DEF Ends
    <3> QED
      BY <3>1, <2>1, <1>1
  <2>6. ASSUME NEW side \in Sides, Ends(p, c, side) PROVE FALSE
    <3>1. pid[c][side] = p /\ s = Other(side)
      BY <2>3, <2>5, <2>6, OtherSide DEF Ends, IsSide
    <3>2. \A g \in Handles : handles[q][g] = c => h <= g
      BY <2>2, SMTT(60) DEF Handles
    <3> QED
      BY <3>1, <3>2, <2>1, <2>2, <2>3, <2>6, <1>1 DEF Exists
  <2> QED
    BY <2>1, <2>5, <2>6
<1>3. ASSUME NEW q \in Pids, NEW h \in Handles, \A side \in Sides : ~Ends(p, handles[q][h], side)
      PROVE  handles'[q][h] = handles[q][h]
  BY <1>1, <1>3
<1> QED
  BY <1>2, <1>3

\* process_exit_with_code() closes the channels of the process.
LEMMA ExitInv ==
  ASSUME IpcInv, NEW p \in Pids, process_exit(p)
  PROVE  IpcInv'
<1>1. /\ pstate' = [pstate EXCEPT ![p] = "zombie"]
      /\ UNCHANGED <<pid, queue, created, gen>>
      /\ closed' = ClosedAfterExit(p)
      /\ handles' = HandlesAfterExit(p)
      /\ active' = [c \in Channels |->
           active[c] /\ ~(\E side \in Sides : Ends(p, c, side) /\ closed[c][Other(side)])]
  BY DEF process_exit
<1>2. \A c \in Channels, side \in Sides : closed'[c][side] <=> closed[c][side] \/ Ends(p, c, side)
  BY <1>1 DEF ClosedAfterExit
<1>3. \A c \in Channels : active'[c] <=>
         active[c] /\ ~(\E side \in Sides : Ends(p, c, side) /\ closed[c][Other(side)])
  BY <1>1
<1>4. IpcTypeOK'
  <2>1. handles' \in [Pids -> [Handles -> 0..MaxChannels]]
    <3>1. \A q \in Pids, h \in Handles : handles'[q][h] \in 0..MaxChannels
      <4>1. 0 \in 0..MaxChannels
        BY IpcAssumption, SMTT(60)
      <4>2. \A q \in Pids, h \in Handles : handles[q][h] \in 0..MaxChannels
        BY DEF IpcInv, IpcTypeOK
      <4> QED
        BY <4>1, <4>2, ExitLeaves
    <3>2. handles' = [q \in Pids |-> [h \in Handles |-> handles'[q][h]]]
      BY <1>1 DEF HandlesAfterExit
    <3> QED
      BY <3>1, <3>2
  <2>2. active' \in [Channels -> BOOLEAN]
    BY <1>1
  <2>3. closed' \in [Channels -> [Sides -> BOOLEAN]]
    BY <1>1 DEF ClosedAfterExit
  <2> QED
    BY <2>1, <2>2, <2>3, <1>1 DEF IpcInv, IpcTypeOK
<1>5. Linked'
  <2> SUFFICES ASSUME NEW q \in Pids, NEW g \in Handles, handles'[q][g] # 0
               PROVE  /\ pstate'[q] = "alive"
                      /\ active'[handles'[q][g]]
                      /\ \E s \in Sides : /\ pid'[handles'[q][g]][s] = q
                                         /\ ~closed'[handles'[q][g]][s]
                      /\ \A k \in Handles : handles'[q][k] = handles'[q][g] => k = g
    BY DEF Linked
  <2> DEFINE d == handles[q][g]
  <2>1. /\ handles'[q][g] = d /\ d # 0 /\ q # p
        /\ \A side \in Sides : ~Ends(p, d, side)
    BY ExitLeaves, SMTT(60)
  <2>2. /\ pstate[q] = "alive" /\ active[d] /\ d \in Channels
        /\ \E s \in Sides : pid[d][s] = q /\ ~closed[d][s]
        /\ \A k \in Handles : handles[q][k] = d => k = g
    BY <2>1, HandleNamesChannel, SMTT(60) DEF IpcInv, Linked
  <2>3. \A k \in Handles : handles'[q][k] = d => k = g
    BY <2>1, <2>2, ExitLeaves, SMTT(60)
  <2>4. pstate'[q] = "alive"
    BY <2>1, <2>2, <1>1 DEF IpcInv, IpcTypeOK
  <2>5. active'[d] /\ \A s \in Sides : closed'[d][s] <=> closed[d][s]
    BY <2>1, <2>2, <1>2, <1>3
  <2> QED
    BY <2>1, <2>2, <2>3, <2>4, <2>5, <1>1
<1>6. Paired'
  <2> SUFFICES ASSUME NEW d \in Channels, active'[d]
               PROVE  /\ pid'[d][0] \in Pids /\ pid'[d][1] \in Pids /\ pid'[d][0] # pid'[d][1]
                      /\ ~(closed'[d][0] /\ closed'[d][1])
                      /\ ~closed'[d][0] /\ ~closed'[d][1] =>
                           (Has(pid[d][0], d)' <=> Has(pid[d][1], d)')
    BY DEF Paired
  <2>1. /\ active[d] /\ pid'[d] = pid[d]
        /\ pid[d][0] \in Pids /\ pid[d][1] \in Pids /\ pid[d][0] # pid[d][1]
        /\ ~(closed[d][0] /\ closed[d][1])
        /\ ~closed[d][0] /\ ~closed[d][1] => (Has(pid[d][0], d) <=> Has(pid[d][1], d))
        /\ \A side \in Sides : Ends(p, d, side) => ~closed[d][Other(side)]
    BY <1>1, <1>3 DEF IpcInv, Paired
  <2>2. \A side \in Sides : Ends(p, d, side) => pid[d][side] = p
    BY DEF Ends, IsSide
  <2>3. ~(Ends(p, d, 0) /\ Ends(p, d, 1))
    BY <2>1, <2>2, OtherSide
  <2>4. ~(closed'[d][0] /\ closed'[d][1])
    BY <2>1, <2>3, <1>2, OtherSide
  <2>5. ASSUME ~closed'[d][0], ~closed'[d][1]
        PROVE  Has(pid[d][0], d)' <=> Has(pid[d][1], d)'
    <3>1. \A side \in Sides : ~Ends(p, d, side) /\ ~closed[d][side]
      BY <2>5, <1>2, OtherSide
    <3>2. d # 0
      BY SMTT(60) DEF Channels
    <3>3. \A q \in Pids, h \in Handles : handles'[q][h] = d <=> handles[q][h] = d
      BY <3>1, <3>2, ExitLeaves, SMTT(60)
    <3>4. \A q \in Pids : (\E h \in Handles : handles'[q][h] = d) <=> (\E h \in Handles : handles[q][h] = d)
      BY <3>3
    <3> QED
      BY <3>1, <3>4, <2>1, OtherSide, SMTT(60) DEF Has
  <2> QED
    BY <2>1, <2>4, <2>5
<1>7. OwnMessages'
  BY <1>1, <1>3 DEF IpcInv, OwnMessages
<1> QED
  BY <1>4, <1>5, <1>6, <1>7 DEF IpcInv

-----------------------------------------------------------------------------
\* Every call keeps the invariant.
LEMMA IpcNextInv == IpcInv /\ [IpcNext]_ipcVars => IpcInv'
<1> SUFFICES ASSUME IpcInv, [IpcNext]_ipcVars PROVE IpcInv'
  OBVIOUS
<1>1. CASE \E p \in Pids : ProcessCreate(p) \/ process_exit(p) \/ ProcessReap(p)
  BY <1>1, LifecycleInv, ExitInv
<1>2. CASE \E p, q \in Pids : nexus_ipc_create(p, q)
  BY <1>2, CreateInv
<1>3. CASE \E p \in Pids, h \in Handles :
             nexus_ipc_close(p, h) \/ nexus_ipc_send(p, h) \/ nexus_ipc_recv(p, h)
  BY <1>3, CloseInv, MessageInv
<1>4. CASE UNCHANGED ipcVars
  BY <1>4, SMTT(60) DEF ipcVars, IpcInv, IpcTypeOK, Linked, Paired, Has, OwnMessages
<1> QED
  BY <1>1, <1>2, <1>3, <1>4 DEF IpcNext

\* The invariant of ipc.c.
THEOREM IpcSpecInv == IpcSpec => []IpcInv
BY IpcInitInv, IpcNextInv, PTL DEF IpcSpec

\* Handles and channels agree on both sides after any order of creates, closes
\* and exits (nexus_ipc_close(), nexus_ipc_process_terminate()).
THEOREM SpecChannelsSound == IpcSpec => []ChannelsSound
BY IpcSpecInv, IpcInvSound, PTL

\* A reader of a reused channel slot never sees a message of its last life
\* (nexus_ipc_create() resets the rings).
THEOREM SpecOwnMessages == IpcSpec => []OwnMessages
<1>1. IpcInv => OwnMessages
  BY DEF IpcInv
<1> QED
  BY <1>1, IpcSpecInv, PTL

\* The clean-up at exit takes from another process only handles of channels the
\* two share (nexus_ipc_process_terminate()).
THEOREM SpecExitSparesOthers == IpcSpec => ExitSparesOthers
<1> DEFINE Spares ==
      \A p, q \in Pids, h \in Handles :
        /\ pstate[p] = "alive" /\ pstate'[p] = "zombie"
        /\ p # q
        /\ handles'[q][h] # handles[q][h]
        => \E side \in Sides : IsSide(handles[q][h], p, side)
<1>1. IpcInv /\ [IpcNext]_ipcVars => [Spares]_ipcVars
  <2> SUFFICES ASSUME IpcInv, IpcNext,
                      NEW p \in Pids, NEW q \in Pids, NEW h \in Handles,
                      pstate[p] = "alive", pstate'[p] = "zombie", p # q,
                      handles'[q][h] # handles[q][h]
               PROVE  \E side \in Sides : IsSide(handles[q][h], p, side)
    OBVIOUS
  <2>1. process_exit(p)
    <3>1. CASE \E r \in Pids : ProcessCreate(r) \/ ProcessReap(r)
      BY <3>1 DEF ProcessCreate, ProcessReap, IpcInv, IpcTypeOK
    <3>2. CASE \E r \in Pids : process_exit(r)
      <4>1. PICK r \in Pids : process_exit(r)
        BY <3>2
      <4>2. pstate' = [pstate EXCEPT ![r] = "zombie"]
        BY <4>1 DEF process_exit
      <4>3. r = p
        BY <4>2 DEF IpcInv, IpcTypeOK
      <4> QED
        BY <4>1, <4>3
    <3>3. CASE UNCHANGED pstate
      BY <3>3
    <3> QED
      <4>1. \/ \E r \in Pids : ProcessCreate(r) \/ ProcessReap(r)
            \/ \E r \in Pids : process_exit(r)
            \/ UNCHANGED pstate
        BY DEF IpcNext, nexus_ipc_create, nexus_ipc_close, nexus_ipc_send, nexus_ipc_recv
      <4> QED
        BY <4>1, <3>1, <3>2, <3>3
  <2>2. \E side \in Sides : Ends(p, handles[q][h], side)
    BY <2>1 DEF process_exit, HandlesAfterExit
  <2> QED
    BY <2>2 DEF Ends
<1> QED
  BY <1>1, IpcSpecInv, PTL DEF IpcSpec, ExitSparesOthers

-----------------------------------------------------------------------------
(* kernel/core/events/event_queue.c: the ring implements a lossy queue.    *)

\* The entries between tail and head hold records, and the pop in progress
\* (event_queue_pop()) has a record to take, which no push can touch: the copy
\* it made is still the record at the tail.
RingInv ==
  /\ TypeOK
  /\ \A i \in 1..event_queue_count : ring[(tail + i - 1) % Capacity] \in Events
  /\ pc # "idle" => head # tail
  /\ pc = "advance" => event = ring[tail]

-----------------------------------------------------------------------------
\* Index arithmetic of the ring: an offset below the capacity wraps at most
\* once.
LEMMA WrapOnce ==
  ASSUME NEW t \in Indices, NEW k \in Nat, k < Capacity
  PROVE  (t + k) % Capacity = IF t + k < Capacity THEN t + k ELSE t + k - Capacity
BY EventQueueAssumption, SMTT(60) DEF Indices

\* NextIndex() of event_queue.c stays inside the ring.
LEMMA NextIndexWraps ==
  ASSUME NEW t \in Indices
  PROVE  /\ NextIndex(t) = IF t = Capacity - 1 THEN 0 ELSE t + 1
         /\ NextIndex(t) \in Indices
<1>1. NextIndex(t) = IF t + 1 < Capacity THEN t + 1 ELSE t + 1 - Capacity
  BY EventQueueAssumption, WrapOnce, SMTT(60) DEF NextIndex
<1> QED
  BY <1>1, EventQueueAssumption, SMTT(60) DEF Indices

\* The entry after the newest record is the one at the head, and
\* event_queue_count() is at most the capacity less one.
LEMMA CountProperties ==
  ASSUME TypeOK
  PROVE  /\ event_queue_count \in Nat
         /\ event_queue_count < Capacity
         /\ (tail + event_queue_count) % Capacity = head
         /\ event_queue_count = 0 <=> head = tail
         /\ event_queue_count = Capacity - 1 <=> NextIndex(head) = tail
<1>1. /\ event_queue_count \in Nat
      /\ event_queue_count < Capacity
      /\ event_queue_count = 0 <=> head = tail
  BY EventQueueAssumption, SMTT(60) DEF TypeOK, Indices, event_queue_count
<1>2. (tail + event_queue_count) % Capacity = head
  <2>1. (tail + event_queue_count) % Capacity
          = IF tail + event_queue_count < Capacity
              THEN tail + event_queue_count ELSE tail + event_queue_count - Capacity
    BY <1>1, WrapOnce DEF TypeOK
  <2> QED
    BY <2>1, EventQueueAssumption, SMTT(60) DEF TypeOK, Indices, event_queue_count
<1>3. event_queue_count = Capacity - 1 <=> NextIndex(head) = tail
  BY NextIndexWraps, EventQueueAssumption, SMTT(60) DEF TypeOK, Indices, event_queue_count
<1> QED
  BY <1>1, <1>2, <1>3

\* What waits in the ring is a sequence of events, as long as
\* event_queue_count() says, with the record at the tail first.
LEMMA ContentsProperties ==
  ASSUME RingInv
  PROVE  /\ Contents \in Seq(Events)
         /\ Len(Contents) = event_queue_count
         /\ \A i \in 1..event_queue_count : Contents[i] = ring[(tail + i - 1) % Capacity]
<1>1. event_queue_count \in Nat
  BY CountProperties DEF RingInv
<1>2. Contents \in [1..event_queue_count -> Events]
  BY DEF RingInv, Contents
<1> QED
  BY <1>1, <1>2, SMTT(60) DEF Contents

-----------------------------------------------------------------------------
\* event_queue_push() keeps the invariant, and either appends its event to
\* what waits or drops it because the ring is full.
LEMMA PushStep ==
  ASSUME RingInv, NEW e \in Events, event_queue_push(e)
  PROVE  RingInv' /\ (Promise!CountedPut(e) \/ Promise!CountedDrop)
<1> USE EventQueueAssumption
<1>t. TypeOK'
  BY NextIndexWraps, SMTT(60) DEF RingInv, TypeOK, event_queue_push
<1>c. /\ event_queue_count \in Nat
      /\ event_queue_count < Capacity
      /\ (tail + event_queue_count) % Capacity = head
      /\ event_queue_count = 0 <=> head = tail
      /\ event_queue_count = Capacity - 1 <=> NextIndex(head) = tail
  BY CountProperties DEF RingInv
<1>s. /\ Contents \in Seq(Events)
      /\ Len(Contents) = event_queue_count
      /\ \A i \in 1..event_queue_count : Contents[i] = ring[(tail + i - 1) % Capacity]
  BY ContentsProperties
<1>1. CASE NextIndex(head) = tail
  <2>1. UNCHANGED <<ring, head, tail, pc, event, got, pushed, popped>> /\ dropped' = dropped + 1
    BY <1>1 DEF event_queue_push
  <2>2. event_queue_count' = event_queue_count /\ Contents' = Contents
    BY <2>1 DEF event_queue_count, Contents
  <2>3. RingInv'
    BY <2>1, <2>2, <1>t DEF RingInv
  <2>4. Promise!CountedDrop
    BY <1>1, <1>c, <1>s, <2>1, <2>2 DEF Promise!CountedDrop, Promise!Drop
  <2> QED
    BY <2>3, <2>4
<1>2. CASE NextIndex(head) # tail
  <2>1. /\ UNCHANGED <<tail, pc, event, got, dropped, popped>>
        /\ pushed' = pushed + 1
        /\ ring' = [ring EXCEPT ![head] = e]
        /\ head' = NextIndex(head)
    BY <1>2 DEF event_queue_push
  <2>2. event_queue_count' = event_queue_count + 1
    <3>1. head \in Indices /\ tail \in Indices
      BY DEF RingInv, TypeOK
    <3>2. head' = (IF head = Capacity - 1 THEN 0 ELSE head + 1) /\ head' # tail
      BY <3>1, <1>2, <2>1, NextIndexWraps
    <3> QED
      BY <3>1, <3>2, <2>1, SMTT(60) DEF event_queue_count, Indices
  <2>3. \A i \in 1..event_queue_count :
           /\ (tail + i - 1) % Capacity \in Indices
           /\ (tail + i - 1) % Capacity # head
    <3> TAKE i \in 1..event_queue_count
    <3>1. (tail + (i - 1)) % Capacity
            = IF tail + (i - 1) < Capacity THEN tail + (i - 1) ELSE tail + (i - 1) - Capacity
      <4>1. i - 1 \in Nat /\ i - 1 < Capacity
        BY <1>c, SMTT(60)
      <4> QED
        BY <4>1, WrapOnce DEF RingInv, TypeOK
    <3>2. tail + i - 1 = tail + (i - 1)
      BY <1>c DEF RingInv, TypeOK, Indices
    <3>3. i \in Nat /\ i >= 1 /\ i <= event_queue_count
      BY <1>c, SMTT(60)
    <3>4. (tail + i - 1) % Capacity \in Indices
      BY <3>1, <3>2, <3>3, <1>c, SMTT(60) DEF RingInv, TypeOK, Indices
    <3>5. (tail + i - 1) % Capacity # head
      BY <3>1, <3>2, <3>3, SMTT(60) DEF RingInv, TypeOK, Indices, event_queue_count
    <3> QED
      BY <3>4, <3>5
  <2>4. \A i \in 1..event_queue_count :
           ring'[(tail' + i - 1) % Capacity] = ring[(tail + i - 1) % Capacity]
    BY <2>1, <2>3 DEF RingInv, TypeOK
  <2>5. ring'[(tail' + (event_queue_count + 1) - 1) % Capacity] = e
    <3>1. tail' + (event_queue_count + 1) - 1 = tail + event_queue_count
      BY <1>c, <2>1, SMTT(60) DEF RingInv, TypeOK, Indices
    <3> QED
      BY <3>1, <1>c, <2>1 DEF RingInv, TypeOK
  <2>6. \A i \in 1..event_queue_count' : ring'[(tail' + i - 1) % Capacity] \in Events
    BY <1>c, <2>2, <2>4, <2>5, SMTT(60) DEF RingInv
  <2>7. head' # tail'
    BY <1>2, <2>1
  <2>8. ring'[tail'] = ring[tail] \/ pc = "idle"
    BY <2>1 DEF RingInv, TypeOK
  <2>9. RingInv'
    BY <1>t, <2>1, <2>6, <2>7, <2>8 DEF RingInv
  <2>10. /\ Contents' \in Seq(Events)
         /\ Len(Contents') = event_queue_count'
         /\ \A i \in 1..event_queue_count' : Contents'[i] = ring'[(tail' + i - 1) % Capacity]
    <3>1. Contents' \in [1..event_queue_count' -> Events]
      BY <2>6 DEF Contents
    <3> QED
      BY <3>1, <2>2, <1>c, SMTT(60) DEF Contents
  <2>11. Contents' = Append(Contents, e)
    <3>1. /\ Append(Contents, e) \in Seq(Events)
          /\ Len(Append(Contents, e)) = event_queue_count + 1
          /\ \A i \in 1..event_queue_count : Append(Contents, e)[i] = Contents[i]
          /\ Append(Contents, e)[event_queue_count + 1] = e
      BY <1>s, AppendFacts, SMTT(60)
    <3>2. \A i \in 1..event_queue_count + 1 : Contents'[i] = Append(Contents, e)[i]
      BY <3>1, <1>c, <1>s, <2>2, <2>4, <2>5, <2>10, SMTT(60)
    <3> QED
      BY <3>1, <3>2, <2>2, <2>10, SameSeq, SMTT(60)
  <2>12. Promise!CountedPut(e)
    BY <1>2, <1>c, <1>s, <2>1, <2>11, SMTT(60) DEF Promise!CountedPut, Promise!Put
  <2> QED
    BY <2>9, <2>12
<1> QED
  BY <1>1, <1>2

\* The test and the copy of event_queue_pop() change nothing of what waits.
LEMMA PopQuietStep ==
  ASSUME RingInv, PopTest \/ PopCopy
  PROVE  RingInv' /\ UNCHANGED <<Contents, got, dropped, pushed, popped>>
<1>1. UNCHANGED <<ring, head, tail, pushed, dropped, popped, got>>
  BY DEF PopTest, PopCopy
<1>2. event_queue_count' = event_queue_count /\ Contents' = Contents
  BY <1>1 DEF event_queue_count, Contents
<1>3. TypeOK'
  BY <1>1 DEF RingInv, TypeOK, PopTest, PopCopy
<1>4. (pc # "idle" => head # tail)' /\ (pc = "advance" => event = ring[tail])'
  BY <1>1 DEF RingInv, PopTest, PopCopy
<1> QED
  BY <1>1, <1>2, <1>3, <1>4 DEF RingInv

\* The last step of event_queue_pop() hands out the oldest record.
LEMMA PopAdvanceStep ==
  ASSUME RingInv, PopAdvance
  PROVE  RingInv' /\ Promise!CountedGet
<1> USE EventQueueAssumption
<1>c. /\ event_queue_count \in Nat
      /\ event_queue_count < Capacity
      /\ event_queue_count = 0 <=> head = tail
  BY CountProperties DEF RingInv
<1>s. /\ Contents \in Seq(Events)
      /\ Len(Contents) = event_queue_count
      /\ \A i \in 1..event_queue_count : Contents[i] = ring[(tail + i - 1) % Capacity]
  BY ContentsProperties
<1>1. /\ UNCHANGED <<ring, head, pushed, dropped, event>>
      /\ tail' = NextIndex(tail) /\ popped' = popped + 1
      /\ got' = <<event>> /\ pc = "advance" /\ pc' = "idle"
  BY DEF PopAdvance
<1>2. head \in Indices /\ tail \in Indices /\ head # tail /\ event = ring[tail]
  BY <1>1 DEF RingInv, TypeOK
<1>3. tail' = (IF tail = Capacity - 1 THEN 0 ELSE tail + 1) /\ tail' \in Indices
  BY <1>1, <1>2, NextIndexWraps
<1>4. event_queue_count' = event_queue_count - 1
  BY <1>1, <1>2, <1>3, SMTT(60) DEF event_queue_count, Indices
<1>5. event_queue_count >= 1 /\ event_queue_count - 1 \in Nat
  BY <1>c, <1>2, SMTT(60)
<1>6. Contents[1] = event /\ event \in Events
  <2>1. (tail + 1 - 1) % Capacity = tail
    <3>1. (tail + 0) % Capacity = IF tail + 0 < Capacity THEN tail + 0 ELSE tail + 0 - Capacity
      BY <1>2, WrapOnce, SMTT(60)
    <3>2. tail + 1 - 1 = tail /\ tail + 0 = tail /\ tail < Capacity
      BY <1>2, SMTT(60) DEF Indices
    <3> QED
      BY <3>1, <3>2
  <2>2. 1 \in 1..event_queue_count
    BY <1>5, <1>c, SMTT(60)
  <2> QED
    BY <2>1, <2>2, <1>s, <1>2 DEF RingInv
<1>7. \A i \in 1..event_queue_count' :
         (tail' + i - 1) % Capacity = (tail + (i + 1) - 1) % Capacity
  <2> TAKE i \in 1..event_queue_count'
  <2>1. i \in Nat /\ i >= 1 /\ i < event_queue_count
    BY <1>4, <1>5, <1>c, SMTT(60)
  <2>2. (tail' + (i - 1)) % Capacity
          = IF tail' + (i - 1) < Capacity THEN tail' + (i - 1) ELSE tail' + (i - 1) - Capacity
    <3>1. i - 1 \in Nat /\ i - 1 < Capacity
      BY <2>1, <1>c, SMTT(60)
    <3> QED
      BY <3>1, <1>3, WrapOnce
  <2>3. (tail + i) % Capacity = IF tail + i < Capacity THEN tail + i ELSE tail + i - Capacity
    BY <2>1, <1>c, <1>2, WrapOnce, SMTT(60)
  <2>4. tail' + i - 1 = tail' + (i - 1) /\ tail + (i + 1) - 1 = tail + i
    BY <2>1, <1>2, <1>3, SMTT(60) DEF Indices
  <2>5. (tail' + (i - 1)) % Capacity = (tail + i) % Capacity
    BY <2>1, <2>2, <2>3, <1>2, <1>3, <1>c, SMTT(60) DEF Indices
  <2> QED
    BY <2>4, <2>5
<1>8. \A i \in 1..event_queue_count' :
         /\ i + 1 \in 1..event_queue_count
         /\ ring'[(tail' + i - 1) % Capacity] = Contents[i + 1]
  BY <1>1, <1>4, <1>5, <1>7, <1>c, <1>s, SMTT(60)
<1>9. \A i \in 1..event_queue_count' : ring'[(tail' + i - 1) % Capacity] \in Events
  BY <1>8, <1>s DEF RingInv
<1>10. RingInv'
  <2>1. TypeOK'
    BY <1>1, <1>3, <1>6, SMTT(60) DEF RingInv, TypeOK
  <2> QED
    BY <1>1, <1>9, <2>1 DEF RingInv
<1>11. /\ Contents' \in Seq(Events)
       /\ Len(Contents') = event_queue_count'
       /\ \A i \in 1..event_queue_count' : Contents'[i] = ring'[(tail' + i - 1) % Capacity]
  <2>1. Contents' \in [1..event_queue_count' -> Events]
    BY <1>9 DEF Contents
  <2>2. event_queue_count' \in Nat
    BY <1>4, <1>5
  <2> QED
    BY <2>1, <2>2, SMTT(60) DEF Contents
<1>12. Contents' = Tail(Contents) /\ Contents # <<>> /\ Head(Contents) = event
  <2>1. Contents # <<>>
    BY <1>s, <1>5, EmptyFacts, SMTT(60)
  <2>2. /\ Tail(Contents) \in Seq(Events)
        /\ Len(Tail(Contents)) = event_queue_count'
        /\ \A i \in 1..event_queue_count' : Tail(Contents)[i] = Contents[i + 1]
    BY <2>1, <1>s, <1>4, TailFacts
  <2>3. \A i \in 1..event_queue_count' : Contents'[i] = Tail(Contents)[i]
    BY <2>2, <1>8, <1>11
  <2>4. Contents' = Tail(Contents)
    BY <2>2, <2>3, <1>11, SameSeq
  <2>5. Head(Contents) = event
    BY <2>1, <1>6, <1>s, SMTT(60)
  <2> QED
    BY <2>1, <2>4, <2>5
<1>13. Promise!CountedGet
  BY <1>1, <1>12 DEF Promise!CountedGet, Promise!Get
<1> QED
  BY <1>10, <1>13

-----------------------------------------------------------------------------
\* The ring's indices, records and the pop in progress stay consistent
\* whatever interrupts event_queue_pop() (event_queue.c).
THEOREM RingConsistent == Spec => []RingInv
<1>1. Init => RingInv
  BY EventQueueAssumption, SMTT(60) DEF Init, RingInv, TypeOK, Indices, event_queue_count
<1>2. RingInv /\ [Next]_vars => RingInv'
  <2> SUFFICES ASSUME RingInv, [Next]_vars PROVE RingInv'
    OBVIOUS
  <2>1. CASE \E e \in Events : event_queue_push(e)
    BY <2>1, PushStep
  <2>2. CASE event_queue_pop
    BY <2>2, PopQuietStep, PopAdvanceStep DEF event_queue_pop
  <2>3. CASE UNCHANGED vars
    BY <2>3 DEF vars, RingInv, TypeOK, event_queue_count
  <2> QED
    BY <2>1, <2>2, <2>3 DEF Next
<1> QED
  BY <1>1, <1>2, PTL DEF Spec

\* The ring of event_queue.c is a FIFO of Capacity - 1 events with exact
\* counters: no nesting of pushes inside a pop loses, repeats or reorders an
\* accepted event.
THEOREM RingImplementsQueue == Spec => Implements
<1>1. Init => Promise!CountedInit
  <2> SUFFICES ASSUME Init PROVE Promise!CountedInit
    OBVIOUS
  <2>1. event_queue_count = 0
    BY SMTT(60) DEF Init, event_queue_count
  <2>2. Contents = <<>>
    BY <2>1, SMTT(60) DEF Contents
  <2> QED
    BY <2>2 DEF Init, Promise!CountedInit, Promise!Init
<1>2. RingInv /\ [Next]_vars
        => [Promise!CountedNext]_<<Contents, got, dropped, pushed, popped>>
  <2> SUFFICES ASSUME RingInv, [Next]_vars
               PROVE  Promise!CountedNext \/ UNCHANGED <<Contents, got, dropped, pushed, popped>>
    OBVIOUS
  <2>1. CASE \E e \in Events : event_queue_push(e)
    BY <2>1, PushStep DEF Promise!CountedNext
  <2>2. CASE event_queue_pop
    BY <2>2, PopQuietStep, PopAdvanceStep DEF event_queue_pop, Promise!CountedNext
  <2>3. CASE UNCHANGED vars
    BY <2>3 DEF vars, Contents, event_queue_count
  <2> QED
    BY <2>1, <2>2, <2>3 DEF Next
<1> QED
  BY <1>1, <1>2, RingConsistent, PTL DEF Spec, Implements, Promise!CountedSpec

-----------------------------------------------------------------------------
(* drivers/input: the decoders behind the ring.                            *)

\* The state of the decoders, and what an event makes of it.
Decoders(k, p, x) == [kbd |-> k, packet |-> p, pointer |-> x]

Decoded(len, s, e) ==
  IF e[1] = "key"
    THEN Decoders(keyboard_process_scancode(s.kbd, e[2]), s.packet, s.pointer)
    ELSE LET bytes == Assemble(s.packet, e[2])
         IN  IF Len(bytes) = len THEN Decoders(s.kbd, <<>>, Move(s.pointer, bytes))
                                 ELSE Decoders(s.kbd, bytes, s.pointer)

\* The states on the way from s through the events c, and where they lead.
Follows(len, run, s, c) ==
  run[0] = s /\ \A i \in 1..Len(c) : run[i] = Decoded(len, run[i - 1], c[i])

Leads(len, s, c, t) == \E run : Follows(len, run, s, c) /\ run[Len(c)] = t

\* What the keyboard driver knows is what is held down; nothing is half read.
Held(k, ks) == k.shift = ks.shift /\ k.ctrl = ks.ctrl /\ ~k.extended

Keyboards == [shift : BOOLEAN, ctrl : BOOLEAN, alt : BOOLEAN, caps : BOOLEAN, extended : BOOLEAN]

\* The driver with the 0xE0 forgotten, as an answer of the keyboard in between
\* makes it.
Plain(k) == [k EXCEPT !.extended = FALSE]

\* The bytes the keyboard has still to send will lead there, with or without an
\* answer in between.
Settles(k, b, ks) ==
  /\ Held(keyboard_process_scancode(k, b), ks)
  /\ Held(keyboard_process_scancode(Plain(k), b), ks)

KeysEnd(k, bytes, ks) ==
  /\ k \in Keyboards
  /\ \/ bytes = <<>> /\ Held(k, ks)
     \/ \E b \in Int : bytes = <<b>> /\ Settles(k, b, ks)
     \/ \E b \in Int : bytes = <<224, b>> /\ Settles([k EXCEPT !.extended = TRUE], b, ks)

\* So will the bytes of the mouse: the rest of a packet whose beginning is there.
MouseEnd(len, s, bytes, t) ==
  \/ bytes = <<>> /\ s.packet = <<>> /\ s.pointer = t
  \/ \E p \in Packets, j \in 0..(len - 1) :
       /\ s.packet = SubSeq(p, 1, j) /\ bytes = SubSeq(p, j + 1, len)
       /\ t = Move(s.pointer, SubSeq(p, 1, len))

\* What the ring and the devices still hold leads to what the devices say.
Agree ==
  \E t : /\ Leads(packet_len, Decoders(kbd, packet, pointer), Contents, t)
         /\ KeysEnd(t.kbd, kout, keys) /\ MouseEnd(packet_len, t, mout, truth)

KeyBytes == {b \in 0..255 : Key(b) \in Events}
MouseBytes == {b \in 0..255 : Key(b) \in Events /\ MouseByte(b) \in Events}

\* The inductive invariant of the input drivers.
InputInv ==
  /\ RingInv /\ packet_len \in {3, 4} /\ stray \in Nat /\ keys \in [shift : BOOLEAN, ctrl : BOOLEAN]
  /\ kout \in Seq(KeyBytes) /\ mout \in Seq(MouseBytes)
  /\ dropped = 0 /\ stray = 0 => Agree

-----------------------------------------------------------------------------
\* Nothing to decode leads nowhere else.
LEMMA LeadsNowhere ==
  ASSUME NEW len, NEW s
  PROVE  Leads(len, s, <<>>, s) /\ \A t : Leads(len, s, <<>>, t) => s = t
<1>1. Len(<<>>) = 0 /\ \A i \in 1..0 : FALSE
  BY EmptyFacts, SMTT(60)
<1> DEFINE run == [i \in {0} |-> s]
<1>2. Follows(len, run, s, <<>>) /\ run[0] = s
  BY <1>1 DEF Follows
<1> QED
  BY <1>1, <1>2 DEF Leads, Follows

\* One event more.
LEMMA LeadsFurther ==
  ASSUME NEW len, NEW S, NEW c \in Seq(S), NEW e \in S, NEW s, NEW t, Leads(len, s, c, t)
  PROVE  Leads(len, s, Append(c, e), Decoded(len, t, e))
<1> DEFINE n == Len(c)
           d == Append(c, e)
<1>1. PICK run : Follows(len, run, s, c) /\ run[n] = t
  BY DEF Leads
<1>2. n \in Nat /\ Len(d) = n + 1 /\ d[n + 1] = e /\ \A i \in 1..n : d[i] = c[i]
  BY AppendFacts, SMTT(60)
<1> DEFINE far == [i \in 0..(n + 1) |-> IF i = n + 1 THEN Decoded(len, t, e) ELSE run[i]]
<1>3. run[0] = s /\ \A i \in 1..n : run[i] = Decoded(len, run[i - 1], c[i])
  BY <1>1 DEF Follows
<1> HIDE DEF n, d
<1>4. /\ 0 \in 0..(n + 1) /\ 0 # n + 1 /\ n \in 0..(n + 1) /\ n # n + 1 /\ n + 1 \in 0..(n + 1) /\ n + 1 - 1 = n
      /\ \A i \in 1..(n + 1) : i = n + 1 \/ (i \in 1..n /\ i # n + 1)
      /\ \A i \in 1..n : i \in 0..(n + 1) /\ i - 1 \in 0..(n + 1) /\ i - 1 # n + 1 /\ i # n + 1
  BY <1>2, SMTT(60)
<1>5. far[0] = s /\ far[n] = t /\ far[n + 1] = Decoded(len, t, e)
  BY <1>1, <1>3, <1>4 DEF n
<1>6. \A i \in 1..n : far[i] = run[i] /\ far[i - 1] = run[i - 1]
  BY <1>4
<1> HIDE DEF far
<1>7. \A i \in 1..(n + 1) : far[i] = Decoded(len, far[i - 1], d[i])
  <2> SUFFICES ASSUME NEW i \in 1..(n + 1) PROVE far[i] = Decoded(len, far[i - 1], d[i])
    OBVIOUS
  <2>1. CASE i = n + 1
    <3>1. i - 1 = n
      BY <1>2, <2>1, SMTT(60)
    <3> QED
      BY <1>2, <1>5, <2>1, <3>1
  <2>2. CASE i \in 1..n
    BY <1>2, <1>3, <1>6, <2>2
  <2> QED
    BY <1>4, <2>1, <2>2
<1>8. Follows(len, far, s, d) /\ far[Len(d)] = Decoded(len, t, e)
  BY <1>2, <1>5, <1>7 DEF Follows
<1> QED
  BY <1>8 DEF Leads, d

\* One event decoded.
LEMMA LeadsOn ==
  ASSUME NEW len, NEW S, NEW c \in Seq(S), c # <<>>, NEW s, NEW t, Leads(len, s, c, t)
  PROVE  Leads(len, Decoded(len, s, Head(c)), Tail(c), t)
<1> DEFINE n == Len(c)
           d == Tail(c)
<1>1. PICK run : Follows(len, run, s, c) /\ run[n] = t
  BY DEF Leads
<1>2. n \in Nat /\ n > 0 /\ Len(d) = n - 1 /\ Head(c) = c[1] /\ \A i \in 1..(n - 1) : d[i] = c[i + 1]
  BY TailFacts, EmptyFacts, SMTT(60)
<1> DEFINE rest == [i \in 0..(n - 1) |-> run[i + 1]]
<1>3. run[0] = s /\ \A i \in 1..n : run[i] = Decoded(len, run[i - 1], c[i])
  BY <1>1 DEF Follows
<1> HIDE DEF n, d
<1>4. /\ 0 \in 0..(n - 1) /\ 0 + 1 = 1 /\ 1 \in 1..n /\ 1 - 1 = 0 /\ n - 1 \in 0..(n - 1) /\ n - 1 + 1 = n
      /\ \A i \in 1..(n - 1) : /\ i \in 0..(n - 1) /\ i - 1 \in 0..(n - 1) /\ i + 1 \in 1..n
                               /\ i - 1 + 1 = i /\ i + 1 - 1 = i
  BY <1>2, SMTT(60)
<1>5. rest[0] = Decoded(len, s, Head(c)) /\ rest[n - 1] = t
  BY <1>1, <1>2, <1>3, <1>4 DEF n
<1>6. \A i \in 1..(n - 1) : rest[i] = run[i + 1] /\ rest[i - 1] = run[i]
  BY <1>4
<1> HIDE DEF rest
<1>7. \A i \in 1..(n - 1) : rest[i] = Decoded(len, rest[i - 1], d[i])
  <2> SUFFICES ASSUME NEW i \in 1..(n - 1) PROVE rest[i] = Decoded(len, rest[i - 1], d[i])
    OBVIOUS
  <2> DEFINE j == i + 1
  <2>1. j \in 1..n /\ j - 1 = i
    BY <1>2, SMTT(60)
  <2>2. rest[i] = run[j] /\ rest[i - 1] = run[i] /\ d[i] = c[j]
    BY <1>2, <1>6
  <2> HIDE DEF j
  <2> QED
    BY <1>3, <2>1, <2>2
<1>8. Follows(len, rest, Decoded(len, s, Head(c)), d) /\ rest[Len(d)] = t
  BY <1>2, <1>5, <1>7 DEF Follows
<1> QED
  BY <1>8 DEF Leads, d

-----------------------------------------------------------------------------
\* keyboard_process_scancode(), case by case.
LEMMA ScanCases ==
  ASSUME NEW k, NEW b \in Int, NEW c, c = b % 128
  PROVE  /\ b = 224 => keyboard_process_scancode(k, b) = [k EXCEPT !.extended = TRUE]
         /\ b # 224 /\ c = 29 =>
              keyboard_process_scancode(k, b) = [k EXCEPT !.extended = FALSE, !.ctrl = ~Released(b)]
         /\ b # 224 /\ c = 56 =>
              keyboard_process_scancode(k, b) = [k EXCEPT !.extended = FALSE, !.alt = ~Released(b)]
         /\ b # 224 /\ c \notin {29, 56} /\ k.extended =>
              keyboard_process_scancode(k, b) = [k EXCEPT !.extended = FALSE]
         /\ ~k.extended /\ c \in {42, 54} => keyboard_process_scancode(k, b) = [k EXCEPT !.shift = ~Released(b)]
         /\ ~k.extended /\ b = 58 => keyboard_process_scancode(k, b) = [k EXCEPT !.caps = ~@]
         /\ ~k.extended /\ b \notin {58, 224} /\ c \notin {29, 56, 42, 54} => keyboard_process_scancode(k, b) = k
  BY SMTT(60) DEF keyboard_process_scancode

\* The answer to keyboard_set_leds(), taken for a scan code.
LEMMA AckCases ==
  ASSUME NEW k
  PROVE  /\ k.extended => keyboard_process_scancode(k, Ack) = [k EXCEPT !.extended = FALSE]
         /\ ~k.extended => keyboard_process_scancode(k, Ack) = k
  BY SMTT(60) DEF keyboard_process_scancode, Ack

\* What a scan code does to the variables of the driver.
LEMMA ScanFields ==
  ASSUME NEW k \in Keyboards, NEW b \in Int
  PROVE  LET x == keyboard_process_scancode(k, b)
         IN  /\ x \in Keyboards
             /\ b # 224 => ~x.extended
             /\ x.ctrl = IF b % 128 = 29 THEN ~Released(b) ELSE k.ctrl
             /\ x.shift = IF b % 128 \in {42, 54} /\ ~k.extended THEN ~Released(b) ELSE k.shift
<1> DEFINE c == b % 128
           x == keyboard_process_scancode(k, b)
           down == ~Released(b)
<1>1. /\ b = 224 => c \notin {29, 42, 54, 56}
      /\ b = 58 => c \notin {29, 42, 54, 56} /\ b # 224
      /\ c = 29 => c \notin {42, 54}
      /\ c = 56 => c \notin {29, 42, 54}
      /\ c \in {42, 54} => c \notin {29, 56} /\ b # 224
      /\ down \in BOOLEAN
  BY SMTT(60) DEF Released
<1>2. /\ b = 224 => x = [k EXCEPT !.extended = TRUE]
      /\ b # 224 /\ c = 29 => x = [k EXCEPT !.extended = FALSE, !.ctrl = down]
      /\ b # 224 /\ c = 56 => x = [k EXCEPT !.extended = FALSE, !.alt = down]
      /\ b # 224 /\ c \notin {29, 56} /\ k.extended => x = [k EXCEPT !.extended = FALSE]
      /\ ~k.extended /\ c \in {42, 54} => x = [k EXCEPT !.shift = down]
      /\ ~k.extended /\ b = 58 => x = [k EXCEPT !.caps = ~@]
      /\ ~k.extended /\ b \notin {58, 224} /\ c \notin {29, 56, 42, 54} => x = k
  BY ScanCases
<1> HIDE DEF c, x, down
<1>bool. down \in BOOLEAN
  BY <1>1
<1>3. /\ x \in Keyboards
      /\ b # 224 => ~x.extended
      /\ x.ctrl = IF c = 29 THEN down ELSE k.ctrl
      /\ x.shift = IF c \in {42, 54} /\ ~k.extended THEN down ELSE k.shift
  <2>1. CASE b = 224
    <3>1. x = [k EXCEPT !.extended = TRUE]
      BY <1>2, <2>1
    <3>2. x \in Keyboards /\ x.extended = TRUE /\ x.ctrl = k.ctrl /\ x.shift = k.shift
      BY <1>bool, <3>1 DEF Keyboards
    <3> QED
      BY <1>1, <2>1, <3>2
  <2>2. CASE b # 224 /\ c = 29
    <3>1. x = [k EXCEPT !.extended = FALSE, !.ctrl = down]
      BY <1>2, <2>2
    <3>2. x \in Keyboards /\ x.extended = FALSE /\ x.ctrl = down /\ x.shift = k.shift
      BY <1>bool, <3>1 DEF Keyboards
    <3> QED
      BY <1>1, <2>2, <3>2
  <2>3. CASE b # 224 /\ c = 56
    <3>1. x = [k EXCEPT !.extended = FALSE, !.alt = down]
      BY <1>2, <2>3
    <3>2. x \in Keyboards /\ x.extended = FALSE /\ x.ctrl = k.ctrl /\ x.shift = k.shift
      BY <1>bool, <3>1 DEF Keyboards
    <3> QED
      BY <1>1, <2>3, <3>2
  <2>4. CASE b # 224 /\ c \notin {29, 56} /\ k.extended
    <3>1. x = [k EXCEPT !.extended = FALSE]
      BY <1>2, <2>4
    <3>2. x \in Keyboards /\ x.extended = FALSE /\ x.ctrl = k.ctrl /\ x.shift = k.shift
      BY <1>bool, <3>1 DEF Keyboards
    <3> QED
      BY <1>1, <2>4, <3>2
  <2>5. CASE ~k.extended /\ c \in {42, 54}
    <3>1. x = [k EXCEPT !.shift = down]
      BY <1>2, <2>5
    <3>2. x \in Keyboards /\ x.extended = k.extended /\ x.ctrl = k.ctrl /\ x.shift = down
      BY <1>bool, <3>1 DEF Keyboards
    <3> QED
      BY <1>1, <2>5, <3>2
  <2>6. CASE ~k.extended /\ b = 58
    <3>1. x = [k EXCEPT !.caps = ~@]
      BY <1>2, <2>6
    <3>2. x \in Keyboards /\ x.extended = k.extended /\ x.ctrl = k.ctrl /\ x.shift = k.shift
      BY <1>bool, <3>1 DEF Keyboards
    <3> QED
      BY <1>1, <2>6, <3>2
  <2>7. CASE ~k.extended /\ b \notin {58, 224} /\ c \notin {29, 56, 42, 54}
    BY <1>2, <2>7
  <2> QED
    BY <1>1, <2>1, <2>2, <2>3, <2>4, <2>5, <2>6, <2>7
<1> QED
  BY <1>3 DEF c, x, down

\* 0xE0 and the keyboard's answer touch the prefix only.
LEMMA PrefixOnly ==
  ASSUME NEW k \in Keyboards
  PROVE  /\ keyboard_process_scancode(k, 224) = [k EXCEPT !.extended = TRUE]
         /\ keyboard_process_scancode(k, Ack) = Plain(k)
         /\ Plain(k) \in Keyboards /\ Plain(Plain(k)) = Plain(k)
         /\ [Plain(k) EXCEPT !.extended = TRUE] = [k EXCEPT !.extended = TRUE]
         /\ [k EXCEPT !.extended = TRUE] \in Keyboards
         /\ ~k.extended => Plain(k) = k
<1>1. 224 \in Int
  BY SMTT(60)
<1>2. keyboard_process_scancode(k, 224) = [k EXCEPT !.extended = TRUE]
  BY <1>1, ScanCases
<1>3. ~k.extended => Plain(k) = k
  BY DEF Plain, Keyboards
<1>4. keyboard_process_scancode(k, Ack) = Plain(k)
  <2>1. CASE k.extended
    BY <2>1, AckCases DEF Plain
  <2>2. CASE ~k.extended
    BY <1>3, <2>2, AckCases
  <2> QED
    BY <2>1, <2>2
<1>5. Plain(k) \in Keyboards /\ Plain(Plain(k)) = Plain(k)
  BY DEF Plain, Keyboards
<1>6. [Plain(k) EXCEPT !.extended = TRUE] = [k EXCEPT !.extended = TRUE] /\ [k EXCEPT !.extended = TRUE] \in Keyboards
  BY DEF Plain, Keyboards
<1> QED
  BY <1>2, <1>3, <1>4, <1>5, <1>6

\* A byte of the keyboard goes into the ring.
LEMMA KeysGoOn ==
  ASSUME NEW k, NEW S, NEW bytes \in Seq(S), NEW ks, KeysEnd(k, bytes, ks), bytes # <<>>
  PROVE  KeysEnd(keyboard_process_scancode(k, Head(bytes)), Tail(bytes), ks)
<1>1. k \in Keyboards
  BY DEF KeysEnd
<1>2. ASSUME NEW b \in Int, bytes = <<b>>, Settles(k, b, ks)
      PROVE  KeysEnd(keyboard_process_scancode(k, Head(bytes)), Tail(bytes), ks)
  <2>1. Head(bytes) = b /\ Tail(bytes) = <<>>
    BY <1>2, SMTT(60)
  <2> QED
    <3>1. keyboard_process_scancode(k, b) \in Keyboards
      BY <1>1, ScanFields
    <3> QED
      BY <1>2, <2>1, <3>1 DEF KeysEnd, Settles
<1>3. ASSUME NEW b \in Int, bytes = <<224, b>>, Settles([k EXCEPT !.extended = TRUE], b, ks)
      PROVE  KeysEnd(keyboard_process_scancode(k, Head(bytes)), Tail(bytes), ks)
  <2>1. Head(bytes) = 224 /\ Tail(bytes) = <<b>>
    BY <1>3, SMTT(60)
  <2> QED
    <3> DEFINE y == [k EXCEPT !.extended = TRUE]
    <3>1. keyboard_process_scancode(k, 224) = y /\ y \in Keyboards
      BY <1>1, PrefixOnly
    <3> HIDE DEF y
    <3> QED
      BY <1>3, <2>1, <3>1 DEF KeysEnd, y
<1> QED
  BY <1>2, <1>3 DEF KeysEnd

\* An answer of the keyboard goes into the ring before them.
LEMMA KeysWithAnswer ==
  ASSUME NEW k, NEW bytes, NEW ks, KeysEnd(k, bytes, ks)
  PROVE  KeysEnd(keyboard_process_scancode(k, Ack), bytes, ks)
<1>1. k \in Keyboards /\ keyboard_process_scancode(k, Ack) = Plain(k) /\ Plain(k) \in Keyboards
  BY PrefixOnly DEF KeysEnd
<1>2. CASE bytes = <<>> /\ Held(k, ks)
  BY <1>1, <1>2, PrefixOnly DEF KeysEnd, Held
<1>3. ASSUME NEW b \in Int, bytes = <<b>>, Settles(k, b, ks) PROVE KeysEnd(Plain(k), bytes, ks)
  BY <1>1, <1>3, PrefixOnly DEF KeysEnd, Settles
<1>4. ASSUME NEW b \in Int, bytes = <<224, b>>, Settles([k EXCEPT !.extended = TRUE], b, ks)
      PROVE  KeysEnd(Plain(k), bytes, ks)
  BY <1>1, <1>4, PrefixOnly DEF KeysEnd
<1> QED
  BY <1>1, <1>2, <1>3, <1>4 DEF KeysEnd

\* A key is pressed or released.
LEMMA KeysBegin ==
  ASSUME NEW k \in Keyboards, NEW ks \in [shift : BOOLEAN, ctrl : BOOLEAN], Held(k, ks),
         NEW e \in KeyEvents, NEW new,
         new = IF e.key \in DOMAIN ks THEN [ks EXCEPT ![e.key] = e.down] ELSE ks
  PROVE  KeysEnd(k, e.bytes, new)
<1>1. PICK b \in (0..255) \ {224} :
        /\ e.bytes \in {<<b>>, <<224, b>>}
        /\ e.key = "shift" <=> b % 128 \in {42, 54}
        /\ e.key = "shift" => e.bytes = <<b>>
        /\ e.key = "ctrl" <=> b % 128 = 29
        /\ e.key \in {"shift", "ctrl"} => e.down = (b < 128)
  BY InputAssumption DEF IsKeyEvent
<1>2. DOMAIN ks = {"shift", "ctrl"} /\ "shift" # "ctrl"
  OBVIOUS
<1>3. /\ b \in Int /\ b # 224 /\ (b < 128) = ~Released(b) /\ Released(b) \in BOOLEAN
      /\ (b % 128 = 29 => b % 128 \notin {42, 54})
  BY SMTT(60) DEF Released
<1>4. /\ new.shift = IF b % 128 \in {42, 54} THEN ~Released(b) ELSE ks.shift
      /\ new.ctrl = IF b % 128 = 29 THEN ~Released(b) ELSE ks.ctrl
  <2>1. CASE e.key = "shift"
    BY <1>1, <1>2, <1>3, <2>1
  <2>2. CASE e.key = "ctrl"
    BY <1>1, <1>2, <1>3, <2>2
  <2>3. CASE e.key \notin {"shift", "ctrl"}
    BY <1>1, <1>2, <2>3
  <2> QED
    BY <2>1, <2>2, <2>3
<1>5. ASSUME NEW x \in Keyboards, x.shift = k.shift, x.ctrl = k.ctrl, x.extended => b % 128 \notin {42, 54}
      PROVE  Held(keyboard_process_scancode(x, b), new)
  <2> DEFINE z == keyboard_process_scancode(x, b)
  <2>1. /\ ~z.extended
        /\ z.ctrl = IF b % 128 = 29 THEN ~Released(b) ELSE x.ctrl
        /\ z.shift = IF b % 128 \in {42, 54} /\ ~x.extended THEN ~Released(b) ELSE x.shift
    BY <1>3, ScanFields
  <2> HIDE DEF z
  <2>2. x.ctrl = ks.ctrl /\ x.shift = ks.shift
    BY <1>5 DEF Held
  <2>3. z.ctrl = new.ctrl
    BY <1>4, <2>1, <2>2
  <2>4. z.shift = new.shift
    BY <1>4, <1>5, <2>1, <2>2
  <2> QED
    BY <2>1, <2>3, <2>4 DEF Held, z
<1> DEFINE y == [k EXCEPT !.extended = TRUE]
<1>6. /\ y \in Keyboards /\ y.shift = k.shift /\ y.ctrl = k.ctrl
      /\ Plain(y) \in Keyboards /\ Plain(y).shift = k.shift /\ Plain(y).ctrl = k.ctrl /\ ~Plain(y).extended
  BY DEF Keyboards, Plain
<1>7. Plain(k) = k /\ ~k.extended
  BY PrefixOnly DEF Held
<1>8. CASE e.bytes = <<b>>
  BY <1>3, <1>5, <1>7, <1>8 DEF KeysEnd, Settles
<1>9. CASE e.bytes = <<224, b>> /\ e.key # "shift"
  <2> HIDE DEF y
  <2>1. Settles(y, b, new)
    BY <1>1, <1>5, <1>6, <1>9 DEF Settles
  <2> QED
    BY <1>3, <1>9, <2>1 DEF KeysEnd, y
<1> QED
  BY <1>1, <1>8, <1>9

-----------------------------------------------------------------------------
\* A packet has something left until its last byte is sent.
LEMMA SomethingLeft ==
  ASSUME NEW p \in Packets, NEW len \in {3, 4}, NEW j \in 0..(len - 1)
  PROVE  SubSeq(p, j + 1, len) # <<>>
<1>1. p \in [1..4 -> 0..255]
  BY InputAssumption
<1>2. Cut(p, len, j)
  BY <1>1, PacketParts
<1> QED
  BY <1>2 DEF Cut

\* A byte of the mouse goes into the ring.
LEMMA MouseGoesOn ==
  ASSUME NEW len \in {3, 4}, NEW s, NEW bytes, NEW t, MouseEnd(len, s, bytes, t), bytes # <<>>
  PROVE  MouseEnd(len, Decoded(len, s, MouseByte(Head(bytes))), Tail(bytes), t)
<1>1. PICK p \in Packets, j \in 0..(len - 1) :
        /\ s.packet = SubSeq(p, 1, j) /\ bytes = SubSeq(p, j + 1, len)
        /\ t = Move(s.pointer, SubSeq(p, 1, len))
  BY DEF MouseEnd
<1>2. p \in [1..4 -> 0..255] /\ Bit3(p[1])
  BY InputAssumption
<1>3. /\ j = 0 => s.packet = <<>>
      /\ j # 0 => s.packet # <<>>
      /\ Append(s.packet, p[j + 1]) = SubSeq(p, 1, j + 1)
      /\ Len(SubSeq(p, 1, j + 1)) = j + 1
      /\ Head(bytes) = p[j + 1] /\ Tail(bytes) = SubSeq(p, (j + 1) + 1, len)
      /\ j + 1 = len => Tail(bytes) = <<>>
      /\ j + 1 # len => j + 1 \in 0..(len - 1)
  <2> DEFINE done == SubSeq(p, 1, j)
             left == SubSeq(p, j + 1, len)
             rest == SubSeq(p, (j + 1) + 1, len)
  <2>1. Cut(p, len, j)
    BY <1>2, PacketParts
  <2>2. (j = 0 => done = <<>>) /\ (j # 0 => done # <<>>)
    BY <2>1 DEF Cut
  <2>3. Append(done, p[j + 1]) = SubSeq(p, 1, j + 1) /\ Len(SubSeq(p, 1, j + 1)) = j + 1
    BY <2>1 DEF Cut
  <2>4. Head(left) = p[j + 1] /\ Tail(left) = rest
    BY <2>1 DEF Cut
  <2>5. (j + 1 = len => rest = <<>>) /\ (j + 1 # len => j + 1 \in 0..(len - 1))
    BY <2>1 DEF Cut
  <2>6. s.packet = done /\ bytes = left
    BY <1>1
  <2> HIDE DEF done, left
  <2> QED
    BY ONLY <2>2, <2>3, <2>4, <2>5, <2>6, ZenonT(60) DEF rest
<1> DEFINE b == Head(bytes)
           more == SubSeq(p, 1, j + 1)
           new == Decoded(len, s, MouseByte(b))
<1>4. Assemble(s.packet, b) = more
  <2>1. j = 0 => b = p[1]
    BY <1>3, SMTT(60)
  <2> QED
    BY <1>2, <1>3, <2>1 DEF Assemble
<1>5. new = IF Len(more) = len THEN Decoders(s.kbd, <<>>, Move(s.pointer, more))
                               ELSE Decoders(s.kbd, more, s.pointer)
  <2>1. MouseByte(b)[1] # "key" /\ MouseByte(b)[2] = b
    BY SMTT(60) DEF MouseByte
  <2> QED
    BY <1>4, <2>1 DEF Decoded
<1> HIDE DEF new
<1>6. CASE j + 1 = len
  <2>1. new = Decoders(s.kbd, <<>>, t)
    BY <1>1, <1>3, <1>5, <1>6
  <2>2. new.packet = <<>> /\ new.pointer = t
    BY <2>1 DEF Decoders
  <2> QED
    BY <1>3, <1>6, <2>2 DEF MouseEnd, new
<1>7. CASE j + 1 # len
  <2>1. new = Decoders(s.kbd, more, s.pointer)
    BY <1>3, <1>5, <1>7
  <2>2. new.packet = more /\ new.pointer = s.pointer
    BY <2>1 DEF Decoders
  <2> QED
    BY <1>1, <1>3, <1>7, <2>2 DEF MouseEnd, new
<1> QED
  BY <1>6, <1>7

\* The mouse sends a packet.
LEMMA MouseBegins ==
  ASSUME NEW len \in {3, 4}, NEW s, NEW t, MouseEnd(len, s, <<>>, t), NEW p \in Packets
  PROVE  MouseEnd(len, s, SubSeq(p, 1, len), Move(t, SubSeq(p, 1, len)))
<1>1. s.packet = <<>> /\ s.pointer = t
  BY SomethingLeft DEF MouseEnd
<1>2. 0 \in 0..(len - 1) /\ 0 + 1 = 1
  BY SMTT(60)
<1>3. SubSeq(p, 1, 0) = <<>>
  <2>1. p \in [1..4 -> 0..255]
    BY InputAssumption
  <2>2. Cut(p, len, 0)
    BY <1>2, <2>1, PacketParts
  <2> QED
    BY <2>2 DEF Cut
<1> QED
  BY <1>1, <1>2, <1>3 DEF MouseEnd

\* The bytes of the devices are events.
LEMMA BytesAreEvents ==
  /\ \A k \in KeyEvents : k.bytes \in Seq(KeyBytes)
  /\ \A p \in Packets, len \in {3, 4} : SubSeq(p, 1, len) \in Seq(MouseBytes)
<1>1. ASSUME NEW k \in KeyEvents PROVE k.bytes \in Seq(KeyBytes)
  <2>1. PICK b \in 0..255 : k.bytes \in {<<b>>, <<224, b>>}
    BY InputAssumption DEF IsKeyEvent
  <2>2. \A i \in DOMAIN k.bytes : Key(k.bytes[i]) \in Events
    BY InputAssumption
  <2>3. CASE k.bytes = <<b>>
    <3>1. Key(b) \in Events
      BY <2>2, <2>3, SMTT(60)
    <3>2. b \in KeyBytes
      BY <3>1 DEF KeyBytes
    <3> HIDE DEF KeyBytes
    <3> QED
      BY <2>3, <3>2, SMTT(60)
  <2>4. CASE k.bytes = <<224, b>>
    <3>1. Key(b) \in Events /\ Key(224) \in Events /\ 224 \in 0..255
      BY <2>2, <2>4, SMTT(60)
    <3>2. b \in KeyBytes /\ 224 \in KeyBytes
      BY <3>1 DEF KeyBytes
    <3> HIDE DEF KeyBytes
    <3> QED
      BY <2>4, <3>2, SMTT(60)
  <2> QED
    BY <2>1, <2>3, <2>4
<1>2. ASSUME NEW p \in Packets, NEW len \in {3, 4} PROVE SubSeq(p, 1, len) \in Seq(MouseBytes)
  <2>1. \A i \in 1..4 : p[i] \in 0..255 /\ Key(p[i]) \in Events /\ MouseByte(p[i]) \in Events
    BY InputAssumption
  <2>2. \A i \in 1..4 : p[i] \in MouseBytes
    BY <2>1 DEF MouseBytes
  <2>3. len \in Int /\ 1 \in Int /\ \A i \in 1..len : i \in 1..4
    BY SMTT(60)
  <2>4. IsPart(SubSeq(p, 1, len), MouseBytes, p, 1, len)
    BY <2>2, <2>3, PartFacts
  <2> QED
    BY <2>4 DEF IsPart
<1> QED
  BY <1>1, <1>2

-----------------------------------------------------------------------------
\* What a push does to what waits.
LEMMA PushLeaves ==
  ASSUME RingInv, NEW e \in Events, event_queue_push(e)
  PROVE  /\ RingInv' /\ dropped \in Nat
         /\ (dropped' = dropped /\ Contents' = Append(Contents, e)) \/ dropped' = dropped + 1
         /\ Contents \in Seq(Events)
<1>1. RingInv' /\ (Promise!CountedPut(e) \/ Promise!CountedDrop)
  BY PushStep
<1>2. Contents \in Seq(Events)
  BY ContentsProperties
<1>3. dropped \in Nat
  BY DEF RingInv, TypeOK
<1> QED
  BY <1>1, <1>2, <1>3 DEF Promise!CountedPut, Promise!CountedDrop, Promise!Put, Promise!Drop

\* A count that grows is not zero.
LEMMA Grown == \A n \in Nat : n + 1 \in Nat /\ n + 1 # 0
  BY SMTT(60)

\* A ring that rests keeps its invariant and what waits in it.
LEMMA RingRests ==
  ASSUME RingInv, UNCHANGED vars
  PROVE  RingInv' /\ Contents' = Contents /\ dropped' = dropped
<1>1. event_queue_count' = event_queue_count
  BY DEF vars, event_queue_count
<1> QED
  BY <1>1 DEF vars, RingInv, TypeOK, Contents

\* It holds when the drivers start.
LEMMA InputInitInv == InputInit => InputInv
<1> SUFFICES ASSUME InputInit PROVE InputInv
  OBVIOUS
<1>1. RingInv
  BY EventQueueAssumption, SMTT(60) DEF InputInit, Init, RingInv, TypeOK, Indices, event_queue_count
<1>2. Contents = <<>>
  <2>1. event_queue_count = 0
    BY SMTT(60) DEF InputInit, Init, event_queue_count
  <2> QED
    BY <2>1, SMTT(60) DEF Contents
<1>3. /\ packet_len \in {3, 4} /\ stray = 0 /\ kout = <<>> /\ mout = <<>>
      /\ keys = [shift |-> FALSE, ctrl |-> FALSE] /\ packet = <<>> /\ pointer = truth
      /\ kbd = [shift |-> FALSE, ctrl |-> FALSE, alt |-> FALSE, caps |-> FALSE, extended |-> FALSE]
  BY DEF InputInit
<1>4. 0 \in Nat /\ kout \in Seq(KeyBytes) /\ mout \in Seq(MouseBytes)
  BY <1>3, EmptyFacts, SMTT(60)
<1>5. keys \in [shift : BOOLEAN, ctrl : BOOLEAN] /\ kbd \in Keyboards /\ Held(kbd, keys)
  BY <1>3 DEF Keyboards, Held
<1> DEFINE s == Decoders(kbd, packet, pointer)
<1>6. s.kbd = kbd /\ s.packet = packet /\ s.pointer = pointer
  BY DEF Decoders
<1>7. Leads(packet_len, s, Contents, s)
  BY <1>2, LeadsNowhere
<1> HIDE DEF s
<1>8. KeysEnd(s.kbd, kout, keys) /\ MouseEnd(packet_len, s, mout, truth)
  BY <1>3, <1>5, <1>6 DEF KeysEnd, MouseEnd
<1>9. Agree
  BY <1>7, <1>8 DEF Agree, s
<1> QED
  BY <1>1, <1>3, <1>4, <1>5, <1>9 DEF InputInv

\* The decoders take the oldest event.
LEMMA DispatchInv == InputInv /\ Dispatch => InputInv'
<1> SUFFICES ASSUME InputInv, Dispatch PROVE InputInv'
  OBVIOUS
<1>1. /\ RingInv /\ packet_len \in {3, 4} /\ stray \in Nat
      /\ kout \in Seq(KeyBytes) /\ mout \in Seq(MouseBytes) /\ keys \in [shift : BOOLEAN, ctrl : BOOLEAN]
      /\ dropped = 0 /\ stray = 0 => Agree
  BY DEF InputInv
<1>2. PopAdvance /\ UNCHANGED <<packet_len, kout, mout, keys, truth, stray>>
  BY DEF Dispatch, deviceVars
<1>3. RingInv' /\ Promise!CountedGet /\ Contents \in Seq(Events)
  BY <1>1, <1>2, PopAdvanceStep, ContentsProperties
<1>4. Contents # <<>> /\ event = Head(Contents) /\ Contents' = Tail(Contents) /\ dropped' = dropped
  <2>1. Contents # <<>> /\ got' = <<Head(Contents)>> /\ Contents' = Tail(Contents)
    BY <1>3 DEF Promise!CountedGet, Promise!Get
  <2>2. got' = <<event>> /\ dropped' = dropped
    BY <1>2 DEF PopAdvance
  <2>3. event = Head(Contents)
    BY <2>1, <2>2, SMTT(60)
  <2> QED
    BY <2>1, <2>2, <2>3
<1> DEFINE s == Decoders(kbd, packet, pointer)
<1>5. Decoders(kbd', packet', pointer') = Decoded(packet_len, s, event)
  <2>1. s.kbd = kbd /\ s.packet = packet /\ s.pointer = pointer
    BY DEF Decoders
  <2> HIDE DEF s
  <2>2. CASE event[1] = "key"
    <3>1. kbd' = keyboard_process_scancode(kbd, event[2]) /\ packet' = packet /\ pointer' = pointer
      BY <2>2 DEF Dispatch
    <3> QED
      BY <2>1, <2>2, <3>1 DEF Decoded
  <2>3. CASE event[1] # "key"
    <3>1. mouse_process_byte(event[2]) /\ kbd' = kbd
      BY <2>3 DEF Dispatch
    <3> DEFINE bytes == Assemble(packet, event[2])
    <3>2. IF Len(bytes) = packet_len THEN packet' = <<>> /\ pointer' = Move(pointer, bytes)
                                     ELSE packet' = bytes /\ pointer' = pointer
      BY <3>1 DEF mouse_process_byte
    <3>3. Decoded(packet_len, s, event) =
            IF Len(bytes) = packet_len THEN Decoders(kbd, <<>>, Move(pointer, bytes))
                                       ELSE Decoders(kbd, bytes, pointer)
      BY <2>1, <2>3 DEF Decoded
    <3> HIDE DEF bytes
    <3> QED
      BY <3>1, <3>2, <3>3
  <2> QED
    BY <2>2, <2>3
<1>6. ASSUME dropped = 0, stray = 0 PROVE Agree'
  <2>1. PICK t : /\ Leads(packet_len, s, Contents, t)
                 /\ KeysEnd(t.kbd, kout, keys) /\ MouseEnd(packet_len, t, mout, truth)
    BY <1>1, <1>6 DEF Agree
  <2> HIDE DEF s
  <2>2. Leads(packet_len, Decoded(packet_len, s, event), Contents', t)
    BY <1>3, <1>4, <2>1, LeadsOn
  <2>3. Leads(packet_len', Decoders(kbd', packet', pointer'), Contents', t)
    BY <1>2, <1>5, <2>2
  <2>4. KeysEnd(t.kbd, kout', keys') /\ MouseEnd(packet_len', t, mout', truth')
    BY <1>2, <2>1
  <2> QED
    BY <2>3, <2>4 DEF Agree
<1> QED
  BY <1>1, <1>2, <1>3, <1>4, <1>6 DEF InputInv

\* A pushed event leads on from where what waits leads.
LEMMA AgreePushed ==
  ASSUME NEW t, NEW e \in Events, Contents \in Seq(Events), Contents' = Append(Contents, e),
         UNCHANGED <<packet_len, kbd, packet, pointer>>,
         Leads(packet_len, Decoders(kbd, packet, pointer), Contents, t),
         KeysEnd(Decoded(packet_len, t, e).kbd, kout', keys'),
         MouseEnd(packet_len, Decoded(packet_len, t, e), mout', truth')
  PROVE  Agree'
<1> DEFINE u == Decoded(packet_len, t, e)
<1>1. Leads(packet_len', Decoders(kbd', packet', pointer'), Contents', u)
  BY LeadsFurther
<1> HIDE DEF u
<1>2. KeysEnd(u.kbd, kout', keys') /\ MouseEnd(packet_len', u, mout', truth')
  BY DEF u
<1> QED
  BY <1>1, <1>2 DEF Agree

\* Decoding a key's byte leaves the mouse's state alone.
LEMMA KeyAlone ==
  ASSUME NEW len, NEW s, NEW b
  PROVE  /\ Decoded(len, s, Key(b)).kbd = keyboard_process_scancode(s.kbd, b)
         /\ Decoded(len, s, Key(b)).packet = s.packet
         /\ Decoded(len, s, Key(b)).pointer = s.pointer
<1>1. Key(b)[1] = "key" /\ Key(b)[2] = b
  BY SMTT(60) DEF Key
<1>2. Decoded(len, s, Key(b)) = Decoders(keyboard_process_scancode(s.kbd, b), s.packet, s.pointer)
  BY <1>1 DEF Decoded
<1> DEFINE t == Decoded(len, s, Key(b))
           k == keyboard_process_scancode(s.kbd, b)
<1>3. t = [kbd |-> k, packet |-> s.packet, pointer |-> s.pointer]
  BY <1>2 DEF Decoders
<1> HIDE DEF t, k
<1>4. t.kbd = k /\ t.packet = s.packet /\ t.pointer = s.pointer
  BY <1>3
<1> QED
  BY <1>4 DEF t, k

\* Decoding a mouse byte leaves the keyboard's state alone.
LEMMA MouseAlone ==
  ASSUME NEW len, NEW s, NEW b
  PROVE  Decoded(len, s, MouseByte(b)).kbd = s.kbd
<1>1. MouseByte(b)[1] # "key" /\ MouseByte(b)[2] = b
  BY SMTT(60) DEF MouseByte
<1> DEFINE t == Decoded(len, s, MouseByte(b))
           bytes == Assemble(s.packet, b)
<1>2. t = IF Len(bytes) = len THEN Decoders(s.kbd, <<>>, Move(s.pointer, bytes)) ELSE Decoders(s.kbd, bytes, s.pointer)
  BY <1>1 DEF Decoded
<1> HIDE DEF t, bytes
<1>3. \A p, x : Decoders(s.kbd, p, x).kbd = s.kbd
  BY DEF Decoders
<1>4. t.kbd = s.kbd
  BY <1>2, <1>3
<1> QED
  BY <1>4 DEF t

\* The interrupt handlers.
LEMMA IrqInv == InputInv /\ (keyboard_handle_irq \/ mouse_handle_irq) => InputInv'
<1> SUFFICES ASSUME InputInv, keyboard_handle_irq \/ mouse_handle_irq PROVE InputInv'
  OBVIOUS
<1>1. /\ RingInv /\ packet_len \in {3, 4} /\ stray \in Nat
      /\ kout \in Seq(KeyBytes) /\ mout \in Seq(MouseBytes) /\ keys \in [shift : BOOLEAN, ctrl : BOOLEAN]
      /\ dropped = 0 /\ stray = 0 => Agree
  BY DEF InputInv
<1>2. UNCHANGED <<packet_len, kbd, packet, pointer, keys, truth>>
  BY DEF keyboard_handle_irq, mouse_handle_irq, decoderVars
<1>3. CASE keyboard_handle_irq /\ kout # <<>> /\ event_queue_push(Key(Head(kout))) /\ kout' = Tail(kout)
           /\ UNCHANGED <<mout, stray>>
  <2>1. Head(kout) \in KeyBytes /\ kout' \in Seq(KeyBytes)
    BY <1>1, <1>3, TailFacts
  <2> DEFINE e == Key(Head(kout))
  <2>2. e \in Events
    BY <2>1 DEF KeyBytes
  <2>3. /\ RingInv' /\ dropped \in Nat
        /\ (dropped' = dropped /\ Contents' = Append(Contents, e)) \/ dropped' = dropped + 1
        /\ Contents \in Seq(Events)
    BY <1>1, <1>3, <2>2, PushLeaves
  <2>4. ASSUME dropped' = 0, stray' = 0 PROVE Agree'
    <3>1. dropped = 0 /\ stray = 0 /\ Contents' = Append(Contents, e)
      BY <1>3, <2>3, <2>4, Grown
    <3>2. PICK t : /\ Leads(packet_len, Decoders(kbd, packet, pointer), Contents, t)
                   /\ KeysEnd(t.kbd, kout, keys) /\ MouseEnd(packet_len, t, mout, truth)
      BY <1>1, <3>1 DEF Agree
    <3> DEFINE u == Decoded(packet_len, t, e)
    <3>3. /\ u.kbd = keyboard_process_scancode(t.kbd, Head(kout))
          /\ u.packet = t.packet /\ u.pointer = t.pointer
      BY ONLY KeyAlone
    <3>4. KeysEnd(u.kbd, kout', keys')
      <4>1. KeysEnd(keyboard_process_scancode(t.kbd, Head(kout)), Tail(kout), keys)
        BY <1>1, <1>3, <3>2, KeysGoOn
      <4> QED
        BY <1>2, <1>3, <3>3, <4>1
    <3>5. MouseEnd(packet_len, u, mout', truth')
      <4> HIDE DEF u
      <4> QED
        BY <1>2, <1>3, <3>2, <3>3 DEF MouseEnd
    <3> QED
      BY <1>2, <2>2, <2>3, <3>1, <3>2, <3>4, <3>5, AgreePushed
  <2> QED
    BY <1>1, <1>2, <1>3, <2>1, <2>3, <2>4 DEF InputInv
<1>4. CASE /\ draining /\ kout = <<>> /\ mout # <<>>
           /\ event_queue_push(Key(Head(mout))) /\ mout' = Tail(mout) /\ stray' = stray + 1 /\ UNCHANGED kout
  <2>1. Head(mout) \in MouseBytes /\ mout' \in Seq(MouseBytes)
    BY <1>1, <1>4, TailFacts
  <2>2. Key(Head(mout)) \in Events
    BY <2>1 DEF MouseBytes
  <2>3. RingInv'
    BY <1>1, <1>4, <2>2, PushLeaves
  <2>4. stray' \in Nat /\ stray' # 0
    BY <1>1, <1>4, Grown
  <2> QED
    BY <1>1, <1>2, <1>4, <2>1, <2>3, <2>4 DEF InputInv
<1>5. CASE mouse_handle_irq
  <2>1. mout # <<>> /\ event_queue_push(MouseByte(Head(mout))) /\ mout' = Tail(mout) /\ UNCHANGED <<kout, stray>>
    BY <1>5 DEF mouse_handle_irq
  <2>2. Head(mout) \in MouseBytes /\ mout' \in Seq(MouseBytes)
    BY <1>1, <2>1, TailFacts
  <2> DEFINE e == MouseByte(Head(mout))
  <2>3. e \in Events
    BY <2>2 DEF MouseBytes
  <2>4. /\ RingInv' /\ dropped \in Nat
        /\ (dropped' = dropped /\ Contents' = Append(Contents, e)) \/ dropped' = dropped + 1
        /\ Contents \in Seq(Events)
    BY <1>1, <2>1, <2>3, PushLeaves
  <2>5. ASSUME dropped' = 0, stray' = 0 PROVE Agree'
    <3>1. dropped = 0 /\ stray = 0 /\ Contents' = Append(Contents, e)
      BY <2>1, <2>4, <2>5, Grown
    <3>2. PICK t : /\ Leads(packet_len, Decoders(kbd, packet, pointer), Contents, t)
                   /\ KeysEnd(t.kbd, kout, keys) /\ MouseEnd(packet_len, t, mout, truth)
      BY <1>1, <3>1 DEF Agree
    <3> DEFINE u == Decoded(packet_len, t, e)
    <3>3. KeysEnd(u.kbd, kout', keys')
      <4>1. u.kbd = t.kbd
        BY MouseAlone
      <4> QED
        BY <1>2, <2>1, <3>2, <4>1
    <3>4. MouseEnd(packet_len, u, mout', truth')
      <4>1. MouseEnd(packet_len, u, Tail(mout), truth)
        BY <1>1, <2>1, <3>2, MouseGoesOn
      <4> QED
        BY <1>2, <2>1, <4>1
    <3> QED
      BY <1>2, <2>3, <2>4, <3>1, <3>2, <3>3, <3>4, AgreePushed
  <2> QED
    BY <1>1, <1>2, <2>1, <2>2, <2>4, <2>5 DEF InputInv
<1> QED
  BY <1>3, <1>4, <1>5 DEF keyboard_handle_irq

\* keyboard_set_leds(), whoever reads the answer.
LEMMA LedsInv == InputInv /\ (LedsAnswered \/ LedsAnswerQueued \/ LedsSwallow) => InputInv'
<1> SUFFICES ASSUME InputInv, LedsAnswered \/ LedsAnswerQueued \/ LedsSwallow PROVE InputInv'
  OBVIOUS
<1>1. /\ RingInv /\ packet_len \in {3, 4} /\ stray \in Nat
      /\ kout \in Seq(KeyBytes) /\ mout \in Seq(MouseBytes) /\ keys \in [shift : BOOLEAN, ctrl : BOOLEAN]
      /\ dropped = 0 /\ stray = 0 => Agree
  BY DEF InputInv
<1>2. UNCHANGED <<packet_len, kbd, packet, pointer, keys, truth>>
  BY DEF LedsAnswered, LedsAnswerQueued, LedsSwallow, decoderVars, deviceVars
<1>3. CASE LedsAnswered
  <2>1. UNCHANGED <<kout, mout, stray>> /\ UNCHANGED vars
    BY <1>3 DEF LedsAnswered, deviceVars
  <2>2. RingInv' /\ Contents' = Contents /\ dropped' = dropped
    BY <1>1, <2>1, RingRests
  <2>3. Agree => Agree'
    BY <1>2, <2>1, <2>2 DEF Agree
  <2> QED
    BY <1>1, <1>2, <2>1, <2>2, <2>3 DEF InputInv
<1>4. CASE LedsAnswerQueued
  <2>1. event_queue_push(Key(Ack)) /\ UNCHANGED <<kout, mout, stray>> /\ Key(Ack) \in Events
    BY <1>4, InputAssumption DEF LedsAnswerQueued, deviceVars
  <2>2. /\ RingInv' /\ dropped \in Nat
        /\ (dropped' = dropped /\ Contents' = Append(Contents, Key(Ack))) \/ dropped' = dropped + 1
        /\ Contents \in Seq(Events)
    BY <1>1, <2>1, PushLeaves
  <2>3. ASSUME dropped' = 0, stray' = 0 PROVE Agree'
    <3>1. dropped = 0 /\ stray = 0 /\ Contents' = Append(Contents, Key(Ack))
      BY <2>1, <2>2, <2>3, Grown
    <3>2. PICK t : /\ Leads(packet_len, Decoders(kbd, packet, pointer), Contents, t)
                   /\ KeysEnd(t.kbd, kout, keys) /\ MouseEnd(packet_len, t, mout, truth)
      BY <1>1, <3>1 DEF Agree
    <3> DEFINE u == Decoded(packet_len, t, Key(Ack))
    <3>3. u.kbd = keyboard_process_scancode(t.kbd, Ack) /\ u.packet = t.packet /\ u.pointer = t.pointer
      BY ONLY KeyAlone
    <3>4. KeysEnd(u.kbd, kout', keys')
      BY <1>2, <2>1, <3>2, <3>3, KeysWithAnswer
    <3>5. MouseEnd(packet_len, u, mout', truth')
      <4> HIDE DEF u
      <4> QED
        BY <1>2, <2>1, <3>2, <3>3 DEF MouseEnd
    <3> QED
      BY <1>2, <2>1, <2>2, <3>1, <3>2, <3>4, <3>5, AgreePushed
  <2> QED
    BY <1>1, <1>2, <2>1, <2>2, <2>3 DEF InputInv
<1>5. CASE LedsSwallow
  <2>1. /\ UNCHANGED vars /\ stray' = stray + 1
        /\ \/ kout # <<>> /\ kout' = Tail(kout) /\ mout' = mout
           \/ mout # <<>> /\ mout' = Tail(mout) /\ kout' = kout
    BY <1>5 DEF LedsSwallow
  <2>2. RingInv'
    BY <1>1, <2>1, RingRests
  <2>3. stray' \in Nat /\ stray' # 0
    BY <1>1, <2>1, Grown
  <2>4. kout' \in Seq(KeyBytes) /\ mout' \in Seq(MouseBytes)
    BY <1>1, <2>1, TailFacts
  <2> QED
    BY <1>1, <1>2, <2>2, <2>3, <2>4 DEF InputInv
<1> QED
  BY <1>3, <1>4, <1>5

\* The user.
LEMMA UseInv ==
  InputInv /\ ((\E k \in KeyEvents : UseKey(k)) \/ (\E p \in Packets : UseMouse(p))) => InputInv'
<1> SUFFICES ASSUME InputInv, (\E k \in KeyEvents : UseKey(k)) \/ (\E p \in Packets : UseMouse(p))
             PROVE  InputInv'
  OBVIOUS
<1>1. /\ RingInv /\ packet_len \in {3, 4} /\ stray \in Nat
      /\ kout \in Seq(KeyBytes) /\ mout \in Seq(MouseBytes) /\ keys \in [shift : BOOLEAN, ctrl : BOOLEAN]
      /\ dropped = 0 /\ stray = 0 => Agree
  BY DEF InputInv
<1>2. UNCHANGED <<packet_len, kbd, packet, pointer, stray>> /\ UNCHANGED vars
  BY DEF UseKey, UseMouse, decoderVars
<1>3. RingInv' /\ Contents' = Contents /\ dropped' = dropped
  BY <1>1, <1>2, RingRests
<1>4. ASSUME NEW k \in KeyEvents, UseKey(k) PROVE InputInv'
  <2>1. /\ kout = <<>> /\ kout' = k.bytes /\ UNCHANGED <<mout, truth>>
        /\ keys' = IF k.key \in DOMAIN keys THEN [keys EXCEPT ![k.key] = k.down] ELSE keys
    BY <1>4 DEF UseKey
  <2>2. kout' \in Seq(KeyBytes)
    BY <2>1, BytesAreEvents
  <2>3. keys' \in [shift : BOOLEAN, ctrl : BOOLEAN]
    <3>1. DOMAIN keys = {"shift", "ctrl"}
      BY <1>1
    <3>2. k.key \in {"shift", "ctrl"} => k.down \in BOOLEAN
      <4>1. IsKeyEvent(k)
        BY InputAssumption
      <4>2. PICK b \in (0..255) \ {224} : k.key \in {"shift", "ctrl"} => k.down = (b < 128)
        BY <4>1 DEF IsKeyEvent
      <4>3. (b < 128) \in BOOLEAN
        BY SMTT(60)
      <4> QED
        BY <4>2, <4>3
    <3>3. CASE k.key = "shift"
      BY <1>1, <2>1, <3>1, <3>2, <3>3
    <3>4. CASE k.key = "ctrl"
      BY <1>1, <2>1, <3>1, <3>2, <3>4
    <3> QED
      BY <1>1, <2>1, <3>1, <3>3, <3>4
  <2>4. ASSUME dropped = 0, stray = 0 PROVE Agree'
    <3>1. PICK t : /\ Leads(packet_len, Decoders(kbd, packet, pointer), Contents, t)
                   /\ KeysEnd(t.kbd, kout, keys) /\ MouseEnd(packet_len, t, mout, truth)
      BY <1>1, <2>4 DEF Agree
    <3>2. t.kbd \in Keyboards /\ Held(t.kbd, keys)
      <4>1. \A b \in Int : <<b>> # <<>> /\ <<224, b>> # <<>>
        BY SMTT(60)
      <4> QED
        BY <2>1, <3>1, <4>1 DEF KeysEnd
    <3>3. KeysEnd(t.kbd, kout', keys')
      BY <1>1, <2>1, <3>2, KeysBegin
    <3> QED
      BY <1>2, <1>3, <2>1, <3>1, <3>3 DEF Agree
  <2> QED
    BY <1>1, <1>2, <1>3, <2>1, <2>2, <2>3, <2>4 DEF InputInv
<1>5. ASSUME NEW p \in Packets, UseMouse(p) PROVE InputInv'
  <2>1. /\ mout = <<>> /\ mout' = SubSeq(p, 1, packet_len) /\ truth' = Move(truth, mout')
        /\ UNCHANGED <<kout, keys>>
    BY <1>5 DEF UseMouse
  <2>2. mout' \in Seq(MouseBytes)
    BY <1>1, <2>1, BytesAreEvents
  <2>3. ASSUME dropped = 0, stray = 0 PROVE Agree'
    <3>1. PICK t : /\ Leads(packet_len, Decoders(kbd, packet, pointer), Contents, t)
                   /\ KeysEnd(t.kbd, kout, keys) /\ MouseEnd(packet_len, t, mout, truth)
      BY <1>1, <2>3 DEF Agree
    <3>2. MouseEnd(packet_len, t, mout', truth')
      BY <1>1, <2>1, <3>1, MouseBegins
    <3> QED
      BY <1>2, <1>3, <2>1, <3>1, <3>2 DEF Agree
  <2> QED
    BY <1>1, <1>2, <1>3, <2>1, <2>2, <2>3 DEF InputInv
<1> QED
  BY <1>4, <1>5

\* Every step of the devices, the handlers and the main loop keeps the invariant.
LEMMA InputNextInv == InputInv /\ [InputNext]_inputVars => InputInv'
<1> SUFFICES ASSUME InputInv, [InputNext]_inputVars PROVE InputInv'
  OBVIOUS
<1>1. CASE Pop
  <2>1. (PopTest \/ PopCopy) /\ UNCHANGED <<packet_len, kbd, packet, pointer, kout, mout, keys, truth, stray>>
    BY <1>1 DEF Pop, decoderVars, deviceVars
  <2>2. RingInv' /\ Contents' = Contents /\ dropped' = dropped
    BY <2>1, PopQuietStep DEF InputInv
  <2>3. Agree => Agree'
    BY <2>1, <2>2 DEF Agree
  <2> QED
    BY <2>1, <2>2, <2>3 DEF InputInv
<1>2. CASE UNCHANGED inputVars
  <2>1. UNCHANGED vars /\ UNCHANGED <<packet_len, kbd, packet, pointer, kout, mout, keys, truth, stray>>
    BY <1>2 DEF inputVars, decoderVars, deviceVars
  <2>2. RingInv' /\ Contents' = Contents /\ dropped' = dropped
    BY <2>1, RingRests DEF InputInv
  <2>3. Agree => Agree'
    BY <2>1, <2>2 DEF Agree
  <2> QED
    BY <2>1, <2>2, <2>3 DEF InputInv
<1> QED
  BY <1>1, <1>2, UseInv, IrqInv, LedsInv, DispatchInv DEF InputNext

\* When nothing is left to decode the decoders are where the devices are.
LEMMA InputInvSays == InputInv => DecodersInSync
<1> SUFFICES ASSUME InputInv, dropped = 0, stray = 0, head = tail
             PROVE  /\ kout = <<>> => /\ kbd.shift = keys.shift /\ kbd.ctrl = keys.ctrl
                                      /\ ~kbd.extended
                    /\ mout = <<>> => pointer = truth /\ packet = <<>>
  BY DEF DecodersInSync
<1>1. PICK t : /\ Leads(packet_len, Decoders(kbd, packet, pointer), Contents, t)
               /\ KeysEnd(t.kbd, kout, keys) /\ MouseEnd(packet_len, t, mout, truth)
  BY DEF InputInv, Agree
<1>2. Contents = <<>>
  <2>1. event_queue_count = 0 /\ Contents \in Seq(Events) /\ Len(Contents) = event_queue_count
    BY CountProperties, ContentsProperties DEF InputInv, RingInv
  <2> QED
    BY <2>1, EmptyFacts
<1>3. t = Decoders(kbd, packet, pointer)
  BY <1>1, <1>2, LeadsNowhere
<1>4. t.kbd = kbd /\ t.packet = packet /\ t.pointer = pointer
  BY <1>3 DEF Decoders
<1>5. kout = <<>> => Held(kbd, keys)
  <2>1. \A b \in Int : <<b>> # <<>> /\ <<224, b>> # <<>>
    BY SMTT(60)
  <2> QED
    BY <1>1, <1>4, <2>1 DEF KeysEnd
<1>6. mout = <<>> => pointer = truth /\ packet = <<>>
  <2>1. packet_len \in {3, 4}
    BY DEF InputInv
  <2> QED
    BY <1>1, <1>4, <2>1, SomethingLeft DEF MouseEnd
<1> QED
  BY <1>5, <1>6 DEF Held

\* DecodersInSync: however interrupts, decoding, the keyboard's answers and the user
\* interleave, once everything sent was decoded the modifiers are those held down,
\* the pointer is where the packets put it and no packet is half assembled.
THEOREM InputDecodersInSync == InputSpec => []DecodersInSync
  BY InputInitInv, InputNextInv, InputInvSays, PTL DEF InputSpec
=============================================================================
