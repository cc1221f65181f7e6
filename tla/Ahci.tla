-------------------------------- MODULE Ahci --------------------------------
(***************************************************************************)
(* drivers/storage/ahci.c: the port chosen by ahci_init() and the single   *)
(* command slot that reads and writes share.  A call writes the command    *)
(* table, sets the slot's issue bit, and polls; the controller fetches the *)
(* table when it gets to it and clears the bit when the disk is done.      *)
(***************************************************************************)
EXTENDS Integers, Sequences, FiniteSets

CONSTANTS AhciPorts,     \* port numbers
          AhciCmds,      \* names for the commands callers issue
          AhciTimeouts   \* bound: commands that are given up

ASSUME AhciAssumption == AhciPorts \subseteq Nat /\ AhciTimeouts \in Nat

VARIABLES a_stage,   \* "probe", "ready" or "absent"
          table,     \* g_cmd_table: the command in it, or "torn" while it is rewritten
          ci,        \* the slot's issue bit
          disk_op,   \* the command the disk works on (PXTFD_BSY), "none" or "halted"
          tfes, err, \* PXIS_TFES and PXTFD_ERR
          a_call,    \* the call in progress: <<>>, <<cmd>> before and <<cmd, "rung">> after the bit is set
          a_served,  \* the command completed last
          a_given_up,
          a_own      \* every call that returned 1 was for a command the disk had done

ahci_vars == <<a_stage, table, ci, disk_op, tfes, err, a_call, a_served, a_given_up, a_own>>

AhciInit ==
  /\ a_stage = "probe" /\ table = "none" /\ ci = FALSE /\ disk_op = "none"
  /\ tfes = FALSE /\ err = FALSE /\ a_call = <<>> /\ a_served = "none"
  /\ a_given_up = 0 /\ a_own = TRUE

\* What a port can be: not implemented, without a link, with another device,
\* or with a disk.
PortKinds == {"absent", "no_link", "other", "disk"}

\* The first port with a linked disk.  No controller, a BAR that is not a
\* 32-bit memory BAR, or no such port leaves the driver without a disk.
ahci_init(bar, ports) ==
  /\ a_stage = "probe"
  /\ a_stage' = IF bar = "mem32" /\ \E i \in AhciPorts : ports[i] = "disk" THEN "ready" ELSE "absent"
  /\ table' = "none" /\ ci' = FALSE /\ disk_op' = "none" /\ tfes' = FALSE /\ err' = FALSE
  /\ UNCHANGED <<a_call, a_served, a_given_up, a_own>>

\* wait_while(&port->tfd, BSY | DRQ); a disk that stays busy ends the call here.
DiskFree == disk_op \in {"none", "halted"}

\* ahci_read_sectors() and ahci_write_sectors(): the table is rewritten in
\* place, whatever the issue bit says.
AhciFill(cmd) ==
  /\ a_stage = "ready" /\ a_call = <<>>
  /\ DiskFree
  /\ table' = "torn"
  /\ a_call' = <<cmd>>
  /\ UNCHANGED <<a_stage, ci, disk_op, tfes, err, a_served, a_given_up, a_own>>

\* The rest of the table, the cleared status and the issue bit.
AhciIssue ==
  /\ Len(a_call) = 1
  /\ table' = a_call[1]
  /\ tfes' = FALSE
  /\ ci' = TRUE
  /\ a_call' = <<a_call[1], "rung">>
  /\ UNCHANGED <<a_stage, disk_op, err, a_served, a_given_up, a_own>>

\* Mutant: the task file is not looked at once the bit is clear.
GoodIfCleared == TRUE

GoodResult == ~err

AhciReturn ==
  /\ Len(a_call) = 2
  /\ tfes \/ ~ci
  /\ a_own' = (a_own /\ (~tfes /\ GoodResult => a_served = a_call[1]))
  /\ a_call' = <<>>
  /\ UNCHANGED <<a_stage, table, ci, disk_op, tfes, err, a_served, a_given_up>>

AhciTimeout ==
  /\ Len(a_call) = 2
  /\ ~tfes /\ ci
  /\ a_given_up < AhciTimeouts
  /\ a_given_up' = a_given_up + 1
  /\ a_call' = <<>>
  /\ UNCHANGED <<a_stage, table, ci, disk_op, tfes, err, a_served, a_own>>

\* The controller: it fetches the table of an issued command, completes it, or
\* reports a task file error, which leaves the bit set and the port halted.
AhciFetch ==
  /\ ci /\ disk_op = "none"
  /\ disk_op' = table
  /\ UNCHANGED <<a_stage, table, ci, tfes, err, a_call, a_served, a_given_up, a_own>>

AhciComplete ==
  /\ disk_op \notin {"none", "halted"}
  /\ ci' = FALSE
  /\ \/ a_served' = disk_op /\ err' = FALSE
     \/ UNCHANGED a_served /\ err' = TRUE
  /\ disk_op' = "none"
  /\ UNCHANGED <<a_stage, table, tfes, a_call, a_given_up, a_own>>

AhciError ==
  /\ disk_op \notin {"none", "halted"}
  /\ disk_op' = "halted" /\ tfes' = TRUE /\ err' = TRUE
  /\ UNCHANGED <<a_stage, table, ci, a_call, a_served, a_given_up, a_own>>

AhciNext ==
  \/ \E cmd \in AhciCmds : AhciFill(cmd)
  \/ AhciIssue \/ AhciReturn \/ AhciTimeout
  \/ AhciFetch \/ AhciComplete \/ AhciError

\* As long as no command was given up, a read or write reported as done is one
\* the disk completed, without an error, from a table that was whole.
SlotIsOwn == a_given_up = 0 => a_own

=============================================================================
