------------------------------- MODULE Startup -------------------------------
(***************************************************************************)
(* From power-on to running drivers: the boot loader hands over to kmain() *)
(* (kernel/core/kernel.c), which initialises the kernel step by step and   *)
(* has the module manager run the drivers' init functions                  *)
(* (kernel/core/module/driver_modules.c) over the devices that pci_scan()  *)
(* (drivers/bus/pci) finds.  After that the drivers serve their callers.   *)
(***************************************************************************)
EXTENDS BootLoader, Modules, Nvme, Ahci, Xhci, E1000

CONSTANTS PciMax,     \* PCI_MAX_DEVICES
          Buses,      \* PCI buses: a sequence of slots, each a sequence of functions
          Machines    \* what differs between machines, see MachineInit

ASSUME StartupAssumption == PciMax \in Nat

VARIABLES machine,  \* the machine this is
          bus,      \* the slots of the PCI bus
          k_at,     \* the number of steps of kmain() done
          usb_try,  \* the host controller kind usb_init() is at
          usb_host, \* g_type
          gpu,      \* g_gpu.present
          disk0     \* /mnt/disk0 is in the mount table

kmain_vars == <<machine, bus, k_at, usb_try, usb_host, gpu, disk0>>

startup_vars == <<kmain_vars, boot_vars, module_vars, nvme_vars, ahci_vars, xhci_vars, e1000_vars>>

----------------------------------------------------------------------------
(* The PCI bus.  A function is the name of a device class, "none" or       *)
(* "other"; a slot of one function does not have its others looked at.     *)

Functions(slot) ==
  IF slot = <<>> \/ slot[1] = "none" THEN <<>> ELSE SelectSeq(slot, LAMBDA f : f /= "none")

pci_scan ==
  LET Found[i \in 0..Len(bus)] ==
        IF i = 0 THEN <<>> ELSE Found[i - 1] \o Functions(bus[i])
  IN  SubSeq(Found[Len(bus)], 1, Min({PciMax, Len(Found[Len(bus)])}))

pci_count_class(c) == Cardinality({i \in DOMAIN pci_scan : pci_scan[i] = c})

pci_find_class(c) == pci_count_class(c) > 0

----------------------------------------------------------------------------
(* The modules of driver_modules.c, in the order of their descriptors.     *)

Drivers == <<"pci", "pic", "pit", "input", "keyboard", "mouse", "network", "nvme", "ahci", "usb", "gpu">>

DriverPriority == <<100, 110, 120, 130, 200, 210, 300, 310, 320, 400, 410>>

\* The init function that is running.
Running(name) == in_init /\ machine /= "modules" /\ Drivers[Top.mod] = name

\* These cannot fail.
PlainInit ==
  /\ \E d \in {"pci", "pic", "pit", "input", "keyboard", "mouse"} : Running(d)
  /\ LeaveInit(TRUE)
  /\ UNCHANGED <<nvme_vars, ahci_vars, xhci_vars, e1000_vars, usb_try, usb_host, gpu>>

\* nexus_network_init() tries the first card and is content without one.
module_network_init ==
  /\ Running("network")
  /\ e1000_init(pci_find_class("net"))
  /\ LeaveInit(TRUE)
  /\ UNCHANGED <<nvme_vars, ahci_vars, xhci_vars, usb_try, usb_host, gpu>>

module_nvme_init ==
  /\ Running("nvme")
  /\ \/ nvme_init(pci_find_class("nvme")) /\ UNCHANGED module_vars
     \/ n_stage \in {"ready", "failed"} /\ LeaveInit(n_stage = "ready") /\ UNCHANGED nvme_vars
  /\ UNCHANGED <<ahci_vars, xhci_vars, e1000_vars, usb_try, usb_host, gpu>>

module_ahci_init ==
  /\ Running("ahci")
  /\ \/ /\ \E bar \in IF pci_find_class("ahci") THEN {"io", "mem64", "mem32"} ELSE {"none"},
              ports \in [AhciPorts -> PortKinds] : ahci_init(bar, ports)
        /\ UNCHANGED module_vars
     \/ a_stage /= "probe" /\ LeaveInit(a_stage = "ready") /\ UNCHANGED ahci_vars
  /\ UNCHANGED <<nvme_vars, xhci_vars, e1000_vars, usb_try, usb_host, gpu>>

HostKinds == <<"xhci", "ehci", "ohci", "uhci">>

\* The results the older controllers may have.  Each needs a usable BAR.  EHCI
\* and UHCI controllers must be running in the end.
ehci_init == IF pci_find_class("ehci") THEN BOOLEAN ELSE {FALSE}

\* An OHCI controller is not asked whether it runs.
ohci_init == IF pci_find_class("ohci") THEN BOOLEAN ELSE {FALSE}

uhci_init == IF pci_find_class("uhci") THEN BOOLEAN ELSE {FALSE}

LegacyInit(kind) == CASE kind = "ehci" -> ehci_init [] kind = "ohci" -> ohci_init [] kind = "uhci" -> uhci_init

\* usb_init() takes the first kind of controller that starts.
module_usb_init ==
  /\ Running("usb")
  /\ \/ /\ usb_try = 0                               \* any controller at all?
        /\ \/ /\ \E i \in 1..4 : pci_find_class(HostKinds[i])
              /\ usb_try' = 1 /\ xhci_init(pci_count_class("xhci"))
              /\ UNCHANGED <<usb_host, module_vars>>
           \/ /\ \A i \in 1..4 : ~pci_find_class(HostKinds[i])
              /\ LeaveInit(FALSE) /\ UNCHANGED <<usb_try, usb_host, xhci_vars>>
     \/ /\ usb_try = 1 /\ x_stage \in {"ready", "idle", "failed"}
        /\ \/ x_stage /= "failed" /\ usb_host' = "xhci" /\ LeaveInit(TRUE) /\ UNCHANGED usb_try
           \/ x_stage = "failed" /\ usb_try' = 2 /\ UNCHANGED <<usb_host, module_vars>>
        /\ UNCHANGED xhci_vars
     \/ /\ usb_try \in 2..4
        /\ \E ok \in LegacyInit(HostKinds[usb_try]) :
             \/ ok /\ usb_host' = HostKinds[usb_try] /\ LeaveInit(TRUE) /\ UNCHANGED usb_try
             \/ ~ok /\ usb_try' = usb_try + 1 /\ UNCHANGED <<usb_host, module_vars>>
        /\ UNCHANGED xhci_vars
     \/ usb_try = 5 /\ LeaveInit(FALSE) /\ UNCHANGED <<usb_try, usb_host, xhci_vars>>
  /\ UNCHANGED <<nvme_vars, ahci_vars, e1000_vars, gpu>>

module_gpu_init ==
  /\ Running("gpu")
  /\ gpu' = pci_find_class("gpu")
  /\ LeaveInit(gpu')
  /\ UNCHANGED <<nvme_vars, ahci_vars, xhci_vars, e1000_vars, usb_try, usb_host>>

DriverInits ==
  /\ \/ PlainInit \/ module_network_init \/ module_nvme_init \/ module_ahci_init
     \/ module_usb_init \/ module_gpu_init
  /\ UNCHANGED <<boot_vars, machine, bus, k_at, disk0>>

----------------------------------------------------------------------------
(* kmain().                                                                *)

\* Console, descriptor tables, memory, events, scheduler, watchdog and masks come
\* first; process table, services, user mode, system calls and desktop are "services".
KernelSteps == <<"kernel", "modules", "mount", "services", "shell">>

AtStep(s) == b_at = "kernel" /\ k_at < Len(KernelSteps) /\ KernelSteps[k_at + 1] = s

AhciLoaded == \E m \in Registered : Drivers[m] = "ahci" /\ mstate[m] = "LOADED"

\* module_load_all() has to come back first; the volume found on the disk is
\* mounted, and shell_init() starts the mount table anew.
KernelStep ==
  /\ b_at = "kernel" /\ machine = "drivers" /\ k_at < Len(KernelSteps)
  /\ AtStep("modules") => ModulesDone
  /\ k_at' = k_at + 1
  /\ disk0' \in CASE AtStep("mount") -> {FALSE} \cup (IF AhciLoaded THEN {TRUE} ELSE {})
                  [] AtStep("shell") -> {FALSE}
                  [] OTHER -> {disk0}
  /\ UNCHANGED <<boot_vars, module_vars, nvme_vars, ahci_vars, xhci_vars, e1000_vars,
                 machine, bus, usb_try, usb_host, gpu>>

LoadModules ==
  /\ AtStep("modules") \/ machine = "modules"
  /\ \/ module_load_all \/ LookAtDependency \/ EnterInit
     \/ machine = "modules" /\ \E rc \in BOOLEAN : LeaveInit(rc)
  /\ UNCHANGED <<kmain_vars, boot_vars, nvme_vars, ahci_vars, xhci_vars, e1000_vars>>

\* A driver and its device run while the driver is set up and once the kernel
\* has started; what a device does in between touches nothing else and can as
\* well come later.
Runs(name) == Running(name) \/ k_at = Len(KernelSteps)

NvmeRuns ==
  /\ Runs("nvme") /\ NvmeNext
  /\ UNCHANGED <<kmain_vars, boot_vars, module_vars, ahci_vars, xhci_vars, e1000_vars>>

AhciRuns ==
  /\ Runs("ahci") /\ AhciNext
  /\ UNCHANGED <<kmain_vars, boot_vars, module_vars, nvme_vars, xhci_vars, e1000_vars>>

XhciRuns ==
  /\ Runs("usb") /\ XhciNext
  /\ UNCHANGED <<kmain_vars, boot_vars, module_vars, nvme_vars, ahci_vars, e1000_vars>>

E1000Runs ==
  /\ Runs("network") /\ E1000Next
  /\ UNCHANGED <<kmain_vars, boot_vars, module_vars, nvme_vars, ahci_vars, xhci_vars>>

Boots ==
  /\ machine /= "modules" /\ BootNext
  /\ UNCHANGED <<kmain_vars, module_vars, nvme_vars, ahci_vars, xhci_vars, e1000_vars>>

GoodImage == CHOOSE f \in Images : load_elf(f).loaded

\* What varies: on "loader" the kernel file, the graphics mode and the firmware,
\* on "drivers" the devices; on "modules" the module manager alone is given any
\* three descriptors.
MachineInit ==
  /\ machine \in Machines
  /\ machine /= "loader" => fw_left = 0 /\ mode = 1 /\ image = GoodImage
  /\ bus \in IF machine = "drivers" THEN Buses ELSE {<<>>}
  /\ IF machine = "modules"
     THEN /\ priority = <<100, 200, 100>>
          /\ deps \in [1..3 -> SUBSET (1..4)]
     ELSE priority = DriverPriority /\ deps = [m \in 1..Len(Drivers) |-> {}]

StartupInit ==
  /\ BootInit /\ NvmeInit /\ AhciInit /\ XhciInit /\ E1000Init
  /\ k_at = 0 /\ usb_try = 0 /\ usb_host = "none" /\ gpu = FALSE /\ disk0 = FALSE
  /\ MachineInit
  /\ module_manager_init

StartupNext ==
  \/ Boots \/ KernelStep \/ LoadModules \/ DriverInits
  \/ NvmeRuns \/ AhciRuns \/ XhciRuns \/ E1000Runs

StartupSpec == StartupInit /\ [][StartupNext]_startup_vars

----------------------------------------------------------------------------

\* A sector transfer that the NVMe or the AHCI driver reports as done is one its
\* controller finished, for that call and no other, as long as no earlier
\* command was given up.
BlockIoIsOwn == ReadsAreOwn /\ SlotIsOwn

\* What the polled devices hand up, key reports of xhci_poll() and frames of
\* e1000_poll(), comes in order, each once, as do the frames sent.
DevicesInOrder == ReportsInOrder /\ FramesInOrder
=============================================================================
