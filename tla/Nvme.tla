-------------------------------- MODULE Nvme --------------------------------
(***************************************************************************)
(* drivers/storage/nvme.c: one submission and one completion ring for the  *)
(* administration commands, one pair for reads, and the controller that    *)
(* works on them at its own pace.  The driver polls, gives a command up    *)
(* after a bounded number of looks, and never looks at a completion's      *)
(* command identifier.                                                     *)
(*                                                                         *)
(* Addresses count from the start of a page; SectorSize and PageSize stand *)
(* for 512 and NVME_PAGE_SIZE in the same unit.                            *)
(***************************************************************************)
EXTENDS Integers, Sequences, FiniteSets

CONSTANTS QDepth,          \* NVME_QDEPTH
          CidLimit,        \* 2^16, the width of g_cid
          SectorSize, PageSize,
          Firsts, Counts,  \* buffer addresses and sector counts a caller passes
          NsSectors,       \* g_ns_sectors
          NvmeTimeouts     \* bound: reads that are given up

ASSUME NvmeAssumption ==
  /\ {QDepth, CidLimit, SectorSize, PageSize, NsSectors} \subseteq Nat \ {0}
  /\ QDepth > 1
  /\ Firsts \subseteq Nat /\ Counts \subseteq Nat
  /\ NvmeTimeouts \in Nat

VARIABLES n_stage,   \* where nvme_init() is, or "ready" or "failed"
          g_cid,
          admin, io, \* the two ring pairs
          prp_list,  \* g_prp_list, shared by every read
          polling,   \* the ring polled and the read it was for, or <<>>
          filled,    \* the read the controller served last and the bytes it wrote
          given_up,  \* reads that timed out
          own_read   \* every read reported good was the caller's own

nvme_vars == <<n_stage, g_cid, admin, io, prp_list, polling, filled, given_up, own_read>>

NoCmd == [cid |-> 0, first |-> 0, count |-> 0, pages |-> 0]

\* Tail, head and phase are the driver's; sq_head, cq_tail and cq_phase the
\* controller's.
FreshRing ==
  [sq |-> [i \in 0..(QDepth - 1) |-> NoCmd], tail |-> 0, head |-> 0, phase |-> 1,
   cq |-> [i \in 0..(QDepth - 1) |-> [phase |-> 0, cid |-> 0, ok |-> FALSE]],
   sq_head |-> 0, cq_tail |-> 0, cq_phase |-> 1]

NvmeInit ==
  /\ n_stage = "probe" /\ g_cid = 1 % CidLimit
  /\ admin = FreshRing /\ io = FreshRing
  /\ prp_list = <<>> /\ polling = <<>>
  /\ filled = <<NoCmd, {}>>
  /\ given_up = 0 /\ own_read = TRUE

Step(i) == (i + 1) % QDepth

\* A new command in the submission ring and the doorbell.
Submit(q, cmd) == [q EXCEPT !.sq[q.tail] = cmd, !.tail = Step(q.tail)]

HasCompletion(q) == q.cq[q.head].phase = q.phase

\* Mutant: the expected phase is never flipped.
TakeSamePhase(q) == [q EXCEPT !.head = Step(q.head)]

\* The completion at the head is taken, whatever command it answers.
Take(q) ==
  [q EXCEPT !.head = Step(q.head),
            !.phase = IF Step(q.head) = 0 THEN 1 - q.phase ELSE q.phase]

\* The controller answers the oldest command of a submission ring, when the
\* completion ring has room.
Answer(q, ok) ==
  [q EXCEPT !.sq_head = Step(q.sq_head),
            !.cq[q.cq_tail] = [phase |-> q.cq_phase, cid |-> q.sq[q.sq_head].cid, ok |-> ok],
            !.cq_tail = Step(q.cq_tail),
            !.cq_phase = IF Step(q.cq_tail) = 0 THEN 1 - q.cq_phase ELSE q.cq_phase]

CanAnswer(q) == q.sq_head /= q.tail /\ Step(q.cq_tail) /= q.head

----------------------------------------------------------------------------
(* nvme_init().                                                            *)

AdminSteps == <<"identify_controller", "identify_namespace", "create_cq", "create_sq">>

AfterAdmin(s) ==
  LET i == CHOOSE j \in 1..4 : AdminSteps[j] = s
  IN  IF i = 4 THEN "ready" ELSE AdminSteps[i + 1]

\* The controller is found, disabled, given its rings and enabled; each of
\* these can fail: no device or BAR, a stride out of range, a ready bit that
\* does not follow, a fatal status.
nvme_init(found) ==
  /\ n_stage = "probe"
  /\ n_stage' \in {"failed"} \cup (IF found THEN {AdminSteps[1]} ELSE {})
  /\ UNCHANGED <<g_cid, admin, io, prp_list, polling, filled, given_up, own_read>>

AdminCommand ==
  /\ polling = <<>>
  /\ \E i \in 1..4 : n_stage = AdminSteps[i]
  /\ admin' = Submit(admin, [NoCmd EXCEPT !.cid = g_cid])
  /\ g_cid' = (g_cid + 1) % CidLimit
  /\ polling' = <<"admin", NoCmd>>
  /\ UNCHANGED <<n_stage, io, prp_list, filled, given_up, own_read>>

\* A good identify_namespace is still refused for a namespace that is empty or
\* has no 512-byte sectors.
AdminDone ==
  /\ polling = <<"admin", NoCmd>> /\ HasCompletion(admin)
  /\ admin' = Take(admin)
  /\ polling' = <<>>
  /\ \/ admin.cq[admin.head].ok /\ n_stage' = AfterAdmin(n_stage)
     \/ ~admin.cq[admin.head].ok /\ n_stage' = "failed"
     \/ n_stage = "identify_namespace" /\ n_stage' = "failed"
  /\ UNCHANGED <<g_cid, io, prp_list, filled, given_up, own_read>>

AdminTimeout ==
  /\ polling = <<"admin", NoCmd>> /\ ~HasCompletion(admin)
  /\ polling' = <<>>
  /\ n_stage' = "failed"
  /\ UNCHANGED <<g_cid, admin, io, prp_list, filled, given_up, own_read>>

----------------------------------------------------------------------------
(* Reads.                                                                  *)

PageOf(a) == a - (a % PageSize)

Pages(first, count) ==
  (PageOf(first + count * SectorSize - 1) - PageOf(first)) \div PageSize + 1

\* The list io_submit_read() writes: the pages after the first, when two
\* entries do not do.
PrpList(first, pages) == [i \in 1..(pages - 1) |-> PageOf(first) + i * PageSize]

\* The bytes a controller writes for a command: its first page from the
\* offset, then the page or the list its second entry names.
Transfer(cmd, list) ==
  LET rest == IF cmd.pages = 2 THEN <<PageOf(cmd.first) + PageSize>>
              ELSE IF cmd.pages > 2 THEN list ELSE <<>>
      span == cmd.count * SectorSize
      head == PageSize - (cmd.first % PageSize)
      Nth(k) == IF k < head THEN cmd.first + k
                ELSE LET p == (k - head) \div PageSize + 1
                     IN  IF p \in DOMAIN rest THEN rest[p] + ((k - head) % PageSize) ELSE -1
  IN  {Nth(k) : k \in 0..(span - 1)}

nvme_read_sectors(lba, count, first) ==
  /\ n_stage = "ready" /\ polling = <<>>
  /\ count > 0 /\ lba < NsSectors /\ count <= NsSectors - lba
  /\ LET pages == Pages(first, count)
         cmd   == [cid |-> g_cid, first |-> first, count |-> count, pages |-> pages]
     IN  /\ prp_list' = IF pages > 2 THEN PrpList(first, pages) ELSE prp_list
         /\ io' = Submit(io, cmd)
         /\ polling' = <<"io", cmd>>
  /\ g_cid' = (g_cid + 1) % CidLimit
  /\ UNCHANGED <<n_stage, admin, filled, given_up, own_read>>

Buffer(cmd) == cmd.first..(cmd.first + cmd.count * SectorSize - 1)

ReadDone ==
  /\ polling /= <<>> /\ polling[1] = "io" /\ HasCompletion(io)
  /\ LET cqe == io.cq[io.head] IN
       own_read' = (own_read /\ (cqe.ok => filled = <<polling[2], Buffer(polling[2])>>))
  /\ io' = Take(io)
  /\ polling' = <<>>
  /\ UNCHANGED <<n_stage, g_cid, admin, prp_list, filled, given_up>>

ReadTimeout ==
  /\ polling /= <<>> /\ polling[1] = "io" /\ ~HasCompletion(io)
  /\ given_up < NvmeTimeouts
  /\ given_up' = given_up + 1
  /\ polling' = <<>>
  /\ UNCHANGED <<n_stage, g_cid, admin, io, prp_list, filled, own_read>>

\* The controller, at any time: it serves a command or reports an error.
ServeAdmin(ok) ==
  /\ CanAnswer(admin)
  /\ admin' = Answer(admin, ok)
  /\ UNCHANGED <<n_stage, g_cid, io, prp_list, polling, filled, given_up, own_read>>

ServeRead(ok) ==
  /\ CanAnswer(io)
  /\ io' = Answer(io, ok)
  /\ LET cmd == io.sq[io.sq_head] IN
       filled' = IF ok THEN <<cmd, Transfer(cmd, prp_list)>> ELSE filled
  /\ UNCHANGED <<n_stage, g_cid, admin, prp_list, polling, given_up, own_read>>

NvmeNext ==
  \/ AdminCommand \/ AdminDone \/ AdminTimeout
  \/ \E lba \in 0..NsSectors, count \in Counts, first \in Firsts :
       nvme_read_sectors(lba, count, first)
  \/ ReadDone \/ ReadTimeout
  \/ \E ok \in BOOLEAN : ServeAdmin(ok) \/ ServeRead(ok)

\* As long as no read was given up, a read that nvme_read_sectors() reports as
\* good is the one the controller served last, and the controller wrote exactly
\* the caller's buffer: the phase tells new completions from those of the
\* previous lap, and the entries or the list name every page the buffer
\* touches.  Nothing is promised after a timeout, since no completion is
\* matched with its command and the list is shared.
ReadsAreOwn == given_up = 0 => own_read

=============================================================================
