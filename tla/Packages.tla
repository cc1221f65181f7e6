------------------------------- MODULE Packages -------------------------------
(***************************************************************************)
(* system/services/package_manager and system/services/app_manager: the    *)
(* installation of a package on the FAT32 volume, the discovery of what is *)
(* installed, and the registry of applications with the one that is active.*)
(*                                                                         *)
(* Installation makes one call of fat32.c after the other.  Each may fail, *)
(* may fail and have reached the disk all the same (see Fat32.tla), or may *)
(* be the last before the machine stops; a read may come up short, which   *)
(* fat32_read_file() reports as success.  Nothing else runs meanwhile.     *)
(*                                                                         *)
(* A manifest is the ID, the entry and the payload files it names, and     *)
(* whether name and ID are among its first 511 bytes, all that discovery   *)
(* reads.  Payload bytes are kept as whole or cut short.                   *)
(***************************************************************************)
EXTENDS Naturals, Sequences, SequencesExt

CONSTANTS Manifests,      \* the packages offered: [id, entry, files, early]
          NoEntry,        \* entry of a manifest that has none
          SystemApps,     \* manifests under /system/apps, in directory order
          Homes,          \* directories under /userdata/apps, in directory order
          AppMax,         \* NEXUS_APP_MAX
          DiscoveryMax,   \* NEXUS_DISCOVERY_MAX
          MaxFiles,       \* NEXUS_INSTALL_MAX_FILES
          PkgFaults       \* bound: failed calls, short reads and crashes

VARIABLES home,       \* what each directory under /userdata/apps holds
          apps,       \* g_apps and g_runtime up to g_count
          active,     \* g_active + 1
          system,     \* g_state of system/core/state.c
          found,      \* g_count of package_manager.c
          install,    \* <<>>, or <<the installation under way>>
          pfaults,    \* history: faults so far
          flawed,     \* history: a payload was cut short, or a manifest reached
                      \* the disk although the write was reported to fail
          littered    \* history: a fault left files that nobody removes

registry == <<apps, active, system, found>>
pkgVars == <<home, registry, install, pfaults, flawed, littered>>

Unpublished == [id |-> "none"]
Nothing == [dir |-> FALSE, files |-> {}, manifest |-> Unpublished]

-----------------------------------------------------------------------------
(* The registry                                                            *)

Registered(list, id) == \E i \in DOMAIN list : list[i].id = id

\* nexus_app_register(): the longer list, or the same one when it refuses.
nexus_app_register(list, id) ==
  IF Len(list) >= AppMax \/ Registered(list, id) THEN list
  ELSE Append(list, [id |-> id, state |-> "stopped"])

Builtin == <<"nexus.files", "nexus.terminal", "nexus.settings">>

\* discover_root() over the manifests ms in the order of the directory.  The
\* ones in `unread' cannot be read or come up short.
RECURSIVE discover_root(_, _, _, _)
discover_root(ms, unread, list, count) ==
  IF ms = <<>> \/ count >= DiscoveryMax THEN <<list, count>>
  ELSE LET m == Head(ms)
           more == IF m.id = "none" \/ m.id \in unread \/ ~m.early THEN list
                   ELSE nexus_app_register(list, m.id)
       IN  discover_root(Tail(ms), unread, more, count + (Len(more) - Len(list)))

\* What fat32_list_entries() shows of /userdata/apps.
Installed(h) ==
  LET dirs == SelectSeq(Homes, LAMBDA d : h[d].dir)
  IN  [i \in 1..(IF Len(dirs) > DiscoveryMax THEN DiscoveryMax ELSE Len(dirs)) |-> h[dirs[i]].manifest]

\* nexus_package_discover("/userdata/apps")
Discover(h, unread, list, count) ==
  LET seen == discover_root(Installed(h), unread, list, count)
  IN  apps' = seen[1] /\ found' = seen[2]

\* kmain(): the managers start empty, the built-in applications are registered
\* and both roots are searched.
Boot(h, unread) ==
  LET base == FoldLeft(nexus_app_register, <<>>, Builtin)
      sys == discover_root(SystemApps, unread, base, 0)
  IN  /\ Discover(h, unread, sys[1], sys[2])
      /\ active' = 0
      /\ system' = "booting"

\* Mutant: the application that was active goes on.
LaunchBeside(id) ==
  /\ install = <<>>
  /\ \E i \in DOMAIN apps :
       /\ apps[i].id = id
       /\ apps' = [apps EXCEPT ![i].state = "running"]
       /\ active' = i
  /\ system' = "application"
  /\ UNCHANGED <<home, found, install, pfaults, flawed, littered>>

\* The launch counter, which nothing reads, is left out.
nexus_app_launch(id) ==
  /\ install = <<>>
  /\ \E i \in DOMAIN apps :
       /\ apps[i].id = id
       /\ apps' = [k \in DOMAIN apps |->
                     [apps[k] EXCEPT !.state = IF k = i THEN "running" ELSE IF k = active THEN "stopped" ELSE @]]
       /\ active' = i
  /\ system' = "application"
  /\ UNCHANGED <<home, found, install, pfaults, flawed, littered>>

nexus_app_stop_id(id) ==
  /\ install = <<>>
  /\ \E i \in DOMAIN apps :
       /\ apps[i].id = id
       /\ apps' = [apps EXCEPT ![i].state = "stopped"]
       /\ IF active = i THEN active' = 0 /\ system' = "desktop" ELSE UNCHANGED <<active, system>>
  /\ UNCHANGED <<home, found, install, pfaults, flawed, littered>>

nexus_app_stop ==
  /\ install = <<>>
  /\ apps' = [k \in DOMAIN apps |-> [apps[k] EXCEPT !.state = IF k = active THEN "stopped" ELSE @]]
  /\ active' = 0
  /\ system' = "desktop"
  /\ UNCHANGED <<home, found, install, pfaults, flawed, littered>>

-----------------------------------------------------------------------------
(* Installation                                                            *)

\* The payload nexus_package_install() copies, in manifest order.  The name of a
\* single entry is copied without its end, so that has_name() may or may not
\* find it: the call is refused, which is no step, or goes on with the entry.
Payload(m) == IF m.files # <<>> THEN m.files ELSE IF m.entry # NoEntry THEN <<m.entry>> ELSE <<>>

\* All names of the model are 8.3 names.
parse_file_list(files) == Len(files) <= MaxFiles

Acceptable(m) ==
  /\ parse_file_list(m.files)
  /\ m.entry = NoEntry \/ m.entry \in Range(Payload(m))
  /\ "manifest.nxm" \notin Range(Payload(m))

\* What the manifest reads as: a read that comes up short may lose the lines
\* after the ID, and a manifest that loses its ID is refused.
Readings(m) == {m, [m EXCEPT !.entry = NoEntry, !.files = <<>>]}

Fault(is) ==
  /\ is => pfaults < PkgFaults                                       \* bound
  /\ pfaults' = IF is THEN pfaults + 1 ELSE pfaults

\* nexus_package_install() up to fat32_mkdir(): every source is read once and
\* the destination is unchanged until then.  When fat32_mkdir() fails the call
\* ends, even if the directory is on the disk.
Begin(m, d) ==
  /\ install = <<>>
  /\ ~home[d].dir
  /\ ~Registered(apps, m.id)
  /\ \E read \in Readings(m), made \in BOOLEAN :
       /\ Acceptable(read)
       /\ read # m => made
       /\ Fault(read # m \/ ~made)
       /\ home' = [home EXCEPT ![d].dir = TRUE]
       /\ install' = IF made THEN <<[m |-> read, d |-> d, left |-> Payload(read), written |-> <<>>, undo |-> FALSE]>>
                     ELSE <<>>
       /\ littered' = (littered \/ ~made)
  /\ UNCHANGED <<registry, flawed>>

\* What becomes of a file.  "short": the source is cut at a cluster that cannot
\* be read, and the copy succeeds.
copy_small_file == {"copied", "short", "failed", "reached"}

\* The next payload file.  One that reached the disk in a write that failed is
\* not among those the roll-back removes.
CopyNext ==
  /\ install # <<>>
  /\ ~install[1].undo /\ install[1].left # <<>>
  /\ LET d == install[1].d
         f == Head(install[1].left)
     IN  \E how \in copy_small_file :
           /\ Fault(how # "copied")
           /\ home' = IF how = "failed" THEN home ELSE [home EXCEPT ![d].files = @ \cup {f}]
           /\ install' = IF how \in {"failed", "reached"} THEN [install EXCEPT ![1].undo = TRUE]
                         ELSE [install EXCEPT ![1].left = Tail(@), ![1].written = Append(@, f)]
           /\ flawed' = (flawed \/ how = "short")
           /\ littered' = (littered \/ how = "reached")
  /\ UNCHANGED registry

\* Mutant: the manifest is written before the payload.
PublishFirst ==
  /\ install # <<>>
  /\ ~install[1].undo
  /\ home[install[1].d].manifest = Unpublished
  /\ home' = [home EXCEPT ![install[1].d].manifest = install[1].m]
  /\ UNCHANGED <<registry, install, pfaults, flawed, littered>>

\* The manifest is written last, then the root is searched again.
Publish ==
  /\ install # <<>>
  /\ ~install[1].undo /\ install[1].left = <<>>
  /\ LET published == [home EXCEPT ![install[1].d].manifest = install[1].m]
     IN  \E how \in {"written", "failed", "reached"} :
           /\ home' = IF how = "failed" THEN home ELSE published
           /\ flawed' = (flawed \/ how = "reached")
           /\ littered' = (littered \/ how = "reached")
           /\ \E unread \in {{}, {install[1].m.id}} :
                IF how = "written"
                THEN Fault(unread # {}) /\ Discover(published, unread, apps, found) /\ install' = <<>>
                ELSE /\ unread = {} /\ Fault(TRUE)
                     /\ install' = [install EXCEPT ![1].undo = TRUE]
                     /\ UNCHANGED <<apps, found>>
  /\ UNCHANGED <<active, system>>

\* Mutant: the roll-back stops before the first file it wrote.
RollbackButOne ==
  /\ install # <<>>
  /\ install[1].undo
  /\ LET d == install[1].d
         written == install[1].written
     IN  IF Len(written) > 1
         THEN /\ home' = [home EXCEPT ![d].files = @ \ {Last(written)}]
              /\ install' = [install EXCEPT ![1].written = Front(@)]
         ELSE /\ home' = IF home[d].files = {} THEN [home EXCEPT ![d] = Nothing] ELSE home
              /\ install' = <<>>
  /\ UNCHANGED <<registry, pfaults, flawed, littered>>

\* rollback: the files in reverse order, then the directory if it is empty;
\* what cannot be removed stays.
Rollback ==
  /\ install # <<>>
  /\ install[1].undo
  /\ \E removed \in BOOLEAN :
       LET d == install[1].d
           written == install[1].written
           empty == home[d].files = {} /\ home[d].manifest = Unpublished
       IN  /\ Fault(~removed)
           /\ littered' = (littered \/ ~removed)
           /\ IF written # <<>>
              THEN /\ home' = IF removed THEN [home EXCEPT ![d].files = @ \ {Last(written)}] ELSE home
                   /\ install' = [install EXCEPT ![1].written = Front(@)]
              ELSE /\ home' = IF removed /\ empty THEN [home EXCEPT ![d] = Nothing] ELSE home
                   /\ install' = <<>>
  /\ UNCHANGED <<registry, flawed>>

\* Power is lost, during an installation or between two calls.
Restart ==
  /\ \E unread \in {{}} \cup {{m.id} : m \in Manifests} : Boot(home, unread)
  /\ Fault(TRUE)
  /\ install' = <<>>
  /\ littered' = (littered \/ install # <<>>)
  /\ UNCHANGED <<home, flawed>>

\* The first start, from a volume on which nothing is installed yet.
PkgInit ==
  /\ home = [d \in Range(Homes) |-> Nothing]
  /\ LET base == FoldLeft(nexus_app_register, <<>>, Builtin)
         sys == discover_root(SystemApps, {}, base, 0)
     IN  apps = sys[1] /\ found = sys[2]
  /\ active = 0 /\ system = "booting"
  /\ install = <<>>
  /\ pfaults = 0 /\ flawed = FALSE /\ littered = FALSE

PkgNext ==
  \/ \E m \in Manifests, d \in Range(Homes) : Begin(m, d)
  \/ CopyNext \/ Publish \/ Rollback
  \/ Restart
  \/ \E i \in DOMAIN apps : nexus_app_launch(apps[i].id) \/ nexus_app_stop_id(apps[i].id)
  \/ nexus_app_stop

PkgSpec == PkgInit /\ [][PkgNext]_pkgVars

-----------------------------------------------------------------------------
(* Properties                                                              *)

\* package_manager.c: "Publication/commit point: discovery cannot see the app
\* until the manifest exists."  Wherever the installation fails and wherever
\* the machine stops, a directory that has a manifest has every file which it
\* names, whole; and an installation that ends without one leaves nothing
\* behind unless a second fault hits the roll-back.
InstallAllOrNothing ==
  /\ ~flawed => \A d \in DOMAIN home :
       home[d].manifest # Unpublished => Range(Payload(home[d].manifest)) \subseteq home[d].files
  /\ (install = <<>> /\ ~littered) => \A d \in DOMAIN home :
       home[d].dir => home[d].manifest # Unpublished

\* The registry agrees with the volume and with itself, through installations,
\* restarts and a registry that is full: IDs are unique, what is registered is
\* built in or has a manifest, and exactly the active application runs.
RegistrySound ==
  /\ \A i, k \in DOMAIN apps : apps[i].id = apps[k].id => i = k
  /\ \A i \in DOMAIN apps :
       \/ apps[i].id \in Range(Builtin) \cup {SystemApps[k].id : k \in DOMAIN SystemApps}
       \/ \E d \in DOMAIN home : home[d].manifest.id = apps[i].id
  /\ found = Len(apps) - Len(Builtin)
  /\ \A i \in DOMAIN apps : apps[i].state = "running" <=> i = active
  /\ active # 0 <=> system = "application"

\* The applications on the volume and those in the registry.
AppsSound == InstallAllOrNothing /\ RegistrySound
=============================================================================
