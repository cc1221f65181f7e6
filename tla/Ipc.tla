---------------------------------- MODULE Ipc ----------------------------------
(***************************************************************************)
(* kernel/core/ipc/ipc.c: channels between two processes, and what the     *)
(* exit of a process does to them (process_exit_with_code in process.c).   *)
(*                                                                         *)
(* System calls run on the one CPU without giving it up, so every call is  *)
(* one step.  A process is known by its PID, which is never reused.  The   *)
(* message rings are sequences; a message carries the number of the        *)
(* channel creation it was sent under, and its bytes are left out.         *)
(***************************************************************************)
EXTENDS Integers, Sequences

CONSTANTS Pids,           \* processes a behaviour creates
          MaxChannels,    \* IPC_MAX_CHANNELS
          MaxHandles,     \* NEXUS_PROCESS_CHANNELS
          Depth,          \* NEXUS_CHANNEL_QUEUE_DEPTH
          MaxCreate       \* bound: channels a behaviour creates

ASSUME IpcAssumption ==
  /\ MaxChannels \in Nat
  /\ MaxHandles \in Nat
  /\ Depth \in Nat
  /\ MaxCreate \in Nat

VARIABLES pstate,         \* process state
          handles,        \* ipc_handles, a channel number or 0
          active,         \* channel fields
          closed,
          pid,
          queue,          \* messages waiting for each side
          created,        \* number of nexus_ipc_create() that succeeded
          gen             \* value of created when the channel was made

ipcVars == <<pstate, handles, active, closed, pid, queue, created, gen>>

Channels == 1..MaxChannels
Handles == 1..MaxHandles
Sides == {0, 1}
Other(side) == 1 - side          \* side ^ 1

NoPid == "none"

IpcTypeOK ==
  /\ pstate \in [Pids -> {"unused", "alive", "zombie", "reaped"}]
  /\ handles \in [Pids -> [Handles -> 0..MaxChannels]]
  /\ active \in [Channels -> BOOLEAN]
  /\ closed \in [Channels -> [Sides -> BOOLEAN]]
  /\ pid \in [Channels -> [Sides -> Pids \cup {NoPid}]]
  /\ queue \in [Channels -> [Sides -> Seq(Nat)]]
  /\ \A c \in Channels, side \in Sides : Len(queue[c][side]) <= Depth
  /\ created \in Nat
  /\ gen \in [Channels -> Nat]

\* nexus_ipc_init(), before the first process.
IpcInit ==
  /\ pstate = [p \in Pids |-> "unused"]
  /\ handles = [p \in Pids |-> [h \in Handles |-> 0]]
  /\ active = [c \in Channels |-> FALSE]
  /\ closed = [c \in Channels |-> [side \in Sides |-> FALSE]]
  /\ pid = [c \in Channels |-> [side \in Sides |-> NoPid]]
  /\ queue = [c \in Channels |-> [side \in Sides |-> <<>>]]
  /\ created = 0
  /\ gen = [c \in Channels |-> 0]

chanVars == <<active, closed, pid, queue, created, gen>>

\* process_create() and process_reap(), as far as they reach the handles.
ProcessCreate(p) ==
  /\ pstate[p] = "unused"
  /\ pstate' = [pstate EXCEPT ![p] = "alive"]
  /\ handles' = [handles EXCEPT ![p] = [h \in Handles |-> 0]]
  /\ UNCHANGED chanVars

ProcessReap(p) ==
  /\ pstate[p] = "zombie"
  /\ pstate' = [pstate EXCEPT ![p] = "reaped"]
  /\ handles' = [handles EXCEPT ![p] = [h \in Handles |-> 0]]
  /\ UNCHANGED chanVars

\* process_get()
Exists(p) == pstate[p] \in {"alive", "zombie"}

\* Mutant: the process that created the channel is taken for its only user.
OwnerSide(c, p, side) == active[c] /\ pid[c][0] = p /\ side \in Sides

\* find_side(): the lower side first.
IsSide(c, p, side) ==
  /\ active[c]
  /\ side \in Sides
  /\ pid[c][side] = p
  /\ side = 1 => pid[c][0] # p

\* find_channel_for_handle()
IsEndpoint(p, h, c, side) ==
  /\ Exists(p)
  /\ handles[p][h] = c
  /\ c # 0
  /\ IsSide(c, p, side)
  /\ ~closed[c][side]

\* find_free_handle() and find_free_channel()
FreeHandle(p, h) ==
  /\ handles[p][h] = 0
  /\ \A g \in Handles : g < h => handles[p][g] # 0

\* Mutant: a channel with one side closed is taken for free.
HalfClosedIsFree(c) ==
  /\ ~active[c] \/ closed[c][0] \/ closed[c][1]
  /\ \A d \in Channels : d < c => active[d]

FreeChannel(c) ==
  /\ ~active[c]
  /\ \A d \in Channels : d < c => active[d]

\* Mutant: the queues of the channel's last life are kept.
KeepQueues(c) == queue

EmptyQueues(c) == [queue EXCEPT ![c] = [side \in Sides |-> <<>>]]

nexus_ipc_create(owner, peer) ==
  /\ owner # peer
  /\ pstate[owner] = "alive"
  /\ pstate[peer] = "alive"
  /\ created < MaxCreate
  /\ \E ho, hp \in Handles, c \in Channels :
       /\ FreeHandle(owner, ho)
       /\ FreeHandle(peer, hp)
       /\ FreeChannel(c)
       /\ active' = [active EXCEPT ![c] = TRUE]
       /\ closed' = [closed EXCEPT ![c] = [side \in Sides |-> FALSE]]
       /\ pid' = [pid EXCEPT ![c] = [side \in Sides |-> IF side = 0 THEN owner ELSE peer]]
       /\ queue' = EmptyQueues(c)
       /\ gen' = [gen EXCEPT ![c] = created + 1]
       /\ handles' = [handles EXCEPT ![owner][ho] = c, ![peer][hp] = c]
  /\ created' = created + 1
  /\ UNCHANGED pstate

nexus_ipc_close(p, h) ==
  /\ Exists(p)
  /\ \E c \in Channels, side \in Sides :
       /\ handles[p][h] = c
       /\ IsSide(c, p, side)
       /\ closed' = [closed EXCEPT ![c][side] = TRUE]
       /\ handles' = [handles EXCEPT ![p][h] = 0]
       /\ active' = [active EXCEPT ![c] = ~closed[c][Other(side)]]
  /\ UNCHANGED <<pstate, pid, queue, created, gen>>

nexus_ipc_send(p, h) ==
  /\ pstate[p] = "alive"
  /\ \E c \in Channels, side \in Sides :
       /\ IsEndpoint(p, h, c, side)
       /\ ~closed[c][Other(side)]
       /\ Len(queue[c][Other(side)]) < Depth
       /\ queue' = [queue EXCEPT ![c][Other(side)] = Append(@, gen[c])]
  /\ UNCHANGED <<pstate, handles, active, closed, pid, created, gen>>

nexus_ipc_recv(p, h) ==
  /\ pstate[p] = "alive"
  /\ \E c \in Channels, side \in Sides :
       /\ IsEndpoint(p, h, c, side)
       /\ queue[c][side] # <<>>
       /\ queue' = [queue EXCEPT ![c][side] = Tail(@)]
  /\ UNCHANGED <<pstate, handles, active, closed, pid, created, gen>>

-----------------------------------------------------------------------------
(* nexus_ipc_process_terminate() *)

\* The side on which p ends channel c.
Ends(p, c, side) == IsSide(c, p, side) /\ \E h \in Handles : handles[p][h] = c

\* Mutant: the peers lose the handles with the same number.
PeersLoseSameHandle(p) ==
  [q \in Pids |-> [h \in Handles |->
     IF \E c \in Channels, side \in Sides :
          Ends(p, c, side) /\ handles[p][h] = c /\ q \in {p, pid[c][Other(side)]}
       THEN 0 ELSE handles[q][h]]]

\* p gives up its handles, and the peer of each channel that stays active its
\* handle to that channel.
HandlesAfterExit(p) ==
  [q \in Pids |-> [h \in Handles |->
     LET c == handles[q][h] IN
     IF c # 0 /\ \E side \in Sides :
          /\ Ends(p, c, side)
          /\ \/ q = p
             \/ /\ pid[c][Other(side)] = q
                /\ ~closed[c][Other(side)]
                /\ Exists(q)
                /\ \A g \in Handles : handles[q][g] = c => h <= g
       THEN 0 ELSE c]]

\* Only the side of p is closed.
ClosedAfterExit(p) ==
  [c \in Channels |-> [side \in Sides |-> closed[c][side] \/ Ends(p, c, side)]]

\* process_exit_with_code(): the channels are closed, then the process is a
\* zombie.
process_exit(p) ==
  /\ pstate[p] = "alive"
  /\ handles' = HandlesAfterExit(p)
  /\ closed' = ClosedAfterExit(p)
  /\ active' = [c \in Channels |->
                  active[c] /\ ~(\E side \in Sides : Ends(p, c, side) /\ closed[c][Other(side)])]
  /\ pstate' = [pstate EXCEPT ![p] = "zombie"]
  /\ UNCHANGED <<pid, queue, created, gen>>

-----------------------------------------------------------------------------
IpcNext ==
  \/ \E p \in Pids : ProcessCreate(p) \/ process_exit(p) \/ ProcessReap(p)
  \/ \E p, q \in Pids : nexus_ipc_create(p, q)
  \/ \E p \in Pids, h \in Handles :
       nexus_ipc_close(p, h) \/ nexus_ipc_send(p, h) \/ nexus_ipc_recv(p, h)

IpcSpec == IpcInit /\ [][IpcNext]_ipcVars

-----------------------------------------------------------------------------
\* A handle always leads to the channel it was made for: active, with the
\* process on one side and that side open; and a process has one handle for it.
HandlesValid ==
  \A p \in Pids, h \in Handles : handles[p][h] # 0 =>
    /\ pstate[p] = "alive"
    /\ \E side \in Sides : IsEndpoint(p, h, handles[p][h], side)
    /\ \A g \in Handles : handles[p][g] = handles[p][h] => g = h

\* Whatever the order of closes and exits: a channel is not active with both
\* sides closed, its two ends are different processes, and the process on an
\* open side is alive as long as the other end still has a handle.
SidesConsistent ==
  \A c \in Channels : active[c] =>
    /\ pid[c][0] # pid[c][1]
    /\ ~(closed[c][0] /\ closed[c][1])
    /\ \A p \in Pids, h \in Handles, side \in Sides :
         IsEndpoint(p, h, c, side) /\ ~closed[c][Other(side)] =>
           \E g \in Handles : IsEndpoint(pid[c][Other(side)], g, c, Other(side))

\* A reader never sees a message of an earlier life of the channel.
OwnMessages ==
  \A c \in Channels, side \in Sides : active[c] =>
    \A i \in DOMAIN queue[c][side] : queue[c][side][i] = gen[c]

\* The exit of a process takes from another only handles of channels the two
\* share.
ExitSparesOthers ==
  [][\A p, q \in Pids, h \in Handles :
       /\ pstate[p] = "alive" /\ pstate'[p] = "zombie"
       /\ p # q
       /\ handles'[q][h] # handles[q][h]
       => \E side \in Sides : IsSide(handles[q][h], p, side)]_ipcVars

\* docs/0.7.0/FOUNDATION.md: "Process-exit channel cleanup".  A channel that
\* no process can use or close any more is not kept active.
NoOrphanChannel ==
  \A c \in Channels : active[c] => \E p \in Pids, h \in Handles : handles[p][h] = c

\* Handles and channels agree on both sides, after any order of creates, closes
\* and exits (nexus_ipc_close(), nexus_ipc_process_exit()).
ChannelsSound == HandlesValid /\ SidesConsistent
=============================================================================
