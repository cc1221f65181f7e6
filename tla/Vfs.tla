---------------------------------- MODULE Vfs ----------------------------------
(***************************************************************************)
(* fs/vfs/core/vfs.c and fs/vfs/mount/mount.c: the tree of nodes in RAM,   *)
(* the mount table and the forwarding of paths to the FAT32 volume.  The   *)
(* shell uses the calls that take a name in the working directory, user    *)
(* processes the calls that take a path, directly (mkdir, unlink, rename)  *)
(* or through a file descriptor (kernel/core/process/process.c).  Both run *)
(* to completion without a switch, so each call is one step; a call that   *)
(* fails changes nothing and is no step.                                   *)
(*                                                                         *)
(* A path is the sequence of its components and the text of a file is its  *)
(* length.  `disk' is the FAT32 volume as its driver shows it (Fat32.tla): *)
(* the sequence of names of each directory and file it holds, mapped to    *)
(* DirMark or to a length.  Its calls may fail at any time.                *)
(***************************************************************************)
EXTENDS Integers, FiniteSets, Sequences, SequencesExt

CONSTANTS MaxNodes,     \* VFS_MAX_NODES
          ContentLen,   \* VFS_CONTENT_LEN
          MountMax,     \* VFS_MOUNT_MAX
          Names,        \* names users give; "mnt", "disk0" and "tmp" exist besides
          Short,        \* what copy_truncate() keeps of each name
          CallPaths,        \* paths processes use: [rel, comps]
          MaxDepth,     \* bound: components of the working directory's path
          Sources,      \* names users copy and rename
          Lengths,      \* lengths of the texts users write
          Targets,      \* mount points users ask for
          DiskPaths     \* paths that fit on the volume

ASSUME VfsAssumption ==
  /\ MaxNodes \in Nat /\ MaxNodes > 3
  /\ ContentLen \in Nat /\ ContentLen > 1
  /\ MountMax \in Nat /\ MountMax > 1
  /\ Short \in [Names -> Names]
  /\ MaxDepth \in Nat
  /\ <<>> \in DiskPaths

VARIABLES node,        \* g_nodes
          cwd,         \* g_cwd, -1 in a mounted directory
          cwd_path,    \* g_cwd_path
          mounts,      \* the mount table
          disk,        \* see above
          fat_ready,   \* fat32_is_mounted()
          fd,          \* the open file of the process: <<>> or <<record>>
          undercut     \* history: a call has broken the tree, see TreeSound

vfsVars == <<node, cwd, cwd_path, mounts, disk, fat_ready, fd, undercut>>

Nodes == 0..(MaxNodes - 1)
DirMark == -1
Free == [type |-> "free"]
Dir(p, n) == [type |-> "dir", parent |-> p, name |-> n]
File(p, n, len) == [type |-> "file", parent |-> p, name |-> n, len |-> len]
Used(i) == node[i].type # "free"
Trunc(n) == IF n \in Names THEN Short[n] ELSE n

VfsTypeOK ==
  /\ \A i \in Nodes : node[i].type \in {"free", "dir", "file"}
  /\ cwd \in Nodes \cup {-1}
  /\ DOMAIN mounts \subseteq 0..(MountMax - 1)
  /\ DOMAIN disk \subseteq DiskPaths
  /\ fat_ready \in BOOLEAN /\ undercut \in BOOLEAN
  /\ Len(fd) <= 1

Children(p) == {i \in Nodes : Used(i) /\ node[i].parent = p}

\* The lowest of a set of slots, -1 for none.
Lowest(S) == IF S = {} THEN -1 ELSE CHOOSE i \in S : \A j \in S : i <= j

find_child(p, n) == Lowest({i \in Children(p) : node[i].name = n})

find_free_node == Lowest({i \in Nodes \ {0} : ~Used(i)})

\* Mutant: only files count as children.
HasFiles(p) == \E i \in Children(p) : node[i].type = "file"

has_children(p) == Children(p) # {}

\* resolve_ram_path(): the node of an absolute path or -1.
RECURSIVE Walk(_, _)
Walk(i, path) ==
  IF i < 0 \/ path = <<>> THEN i ELSE Walk(find_child(i, Head(path)), Tail(path))

resolve_ram_path(path) == Walk(0, path)

IsDir(i) == i >= 0 /\ node[i].type = "dir"
IsFile(i) == i >= 0 /\ node[i].type = "file"

\* normalize_absolute(): a path that does not start with a slash starts in the
\* shell's working directory, whoever uses it.
RECURSIVE Normal(_, _)
Normal(done, path) ==
  IF path = <<>> THEN done
  ELSE Normal(IF Head(path) # ".." THEN Append(done, Trunc(Head(path)))
              ELSE IF done = <<>> THEN done ELSE Front(done),
              Tail(path))

normalize_absolute(p) == Normal(<<>>, (IF p.rel THEN cwd_path ELSE <<>>) \o p.comps)

-----------------------------------------------------------------------------
(* The mount table                                                         *)

\* The virtual mounts are all treated alike: "/tmp" stands for them.
vfs_mount_init ==
  (0 :> [target |-> <<>>, fstype |-> "nexusfs"]) @@ (1 :> [target |-> <<"tmp">>, fstype |-> "tmpfs"])

\* vfs_mount_resolve(): the longest target that the path is or lies under.  The
\* root's target ends in the slash itself, so it covers the root alone.
vfs_mount_resolve(path) ==
  LET Covers(t) == IF t = <<>> THEN path = <<>> ELSE IsPrefix(t, path)
      S == {i \in DOMAIN mounts : Covers(mounts[i].target)}
  IN IF S = {} THEN -1
     ELSE CHOOSE i \in S : \A j \in S : Len(mounts[j].target) <= Len(mounts[i].target)

\* fat_relative() with the mount point of entry i
Below(path, i) == SubSeq(path, Len(mounts[i].target) + 1, Len(path))

\* Where path_is_mount(), fat32_is_mounted() and fat_relative() together send
\* a path: {} for the RAM tree, or the volume's path.  path_is_mount() hands
\* on the result of vfs_mount_resolve() as a truth value, and -1, no mount, is
\* true: fat_relative() then compares with a buffer nobody wrote, and takes
\* the path, or what follows any of its slashes but the first, or declines.
Routes(path) ==
  LET i == vfs_mount_resolve(path)
  IN IF ~fat_ready \/ i = 0 THEN {{}}
     ELSE IF i > 0 THEN {{Below(path, i)}}
     ELSE {{}, {<<>>}} \cup {{SubSeq(path, k + 1, Len(path))} : k \in 1..(Len(path) - 1)}

\* Where the calls that take a name go: these test the entry itself.
NamedRoute(path) ==
  LET i == vfs_mount_resolve(path)
  IN IF i > 0 /\ mounts[i].fstype = "fat32" /\ fat_ready THEN {Below(path, i)} ELSE {}

\* The command `mount': the entry of the same target, or the first free one.
vfs_mount(t, type) ==
  LET same == {i \in DOMAIN mounts : mounts[i].target = t}
      at == IF same # {} THEN Lowest(same) ELSE Lowest((0..(MountMax - 1)) \ DOMAIN mounts)
  IN /\ at >= 0
     /\ mounts' = (at :> [target |-> t, fstype |-> type]) @@ mounts
     /\ UNCHANGED <<node, cwd, cwd_path, disk, fat_ready, fd, undercut>>

vfs_umount(t) ==
  /\ t # <<>>
  /\ \E i \in DOMAIN mounts :
       /\ mounts[i].target = t
       /\ mounts' = [j \in DOMAIN mounts \ {i} |-> mounts[j]]
  /\ UNCHANGED <<node, cwd, cwd_path, disk, fat_ready, fd, undercut>>

-----------------------------------------------------------------------------
(* The volume                                                              *)

DiskIsDir(r) == r = <<>> \/ (r \in DOMAIN disk /\ disk[r] = DirMark)
DiskIsFile(r) == r \in DOMAIN disk /\ disk[r] # DirMark

\* fat32_mkdir() and fat32_write_file() that succeed
DiskMkdir(r) ==
  /\ r \in DiskPaths \ (DOMAIN disk \cup {<<>>})
  /\ DiskIsDir(Front(r))
  /\ disk' = (r :> DirMark) @@ disk

DiskWrite(r, len) ==
  /\ r \in DiskPaths \ {<<>>}
  /\ DiskIsDir(Front(r)) /\ ~DiskIsDir(r)
  /\ disk' = (r :> len) @@ disk

-----------------------------------------------------------------------------
(* The shell: names in the working directory                               *)

vfs_init ==
  /\ node = [i \in Nodes |-> CASE i = 0 -> Dir(-1, "/")
                               [] i = 1 -> Dir(0, "mnt")
                               [] i = 2 -> Dir(1, "disk0")
                               [] OTHER -> Free]
  /\ cwd = 0 /\ cwd_path = <<>>

VfsInit ==
  /\ vfs_init
  /\ mounts = vfs_mount_init
  /\ disk = <<>>
  /\ fat_ready \in BOOLEAN
  /\ fd = <<>>
  /\ undercut = FALSE

WorkingDir == <<cwd, cwd_path>>
Candidate(n) == Append(cwd_path, n)
SetNode(i, r) == node' = [node EXCEPT ![i] = r]

\* A new entry of the working directory.
AddHere(r) ==
  /\ cwd >= 0
  /\ find_child(cwd, r.name) = -1
  /\ find_free_node >= 0
  /\ SetNode(find_free_node, [r EXCEPT !.name = Trunc(@)])
  /\ UNCHANGED disk

Mkdir(n) ==
  LET to == NamedRoute(Candidate(n))
  IN IF to = {} THEN AddHere(Dir(cwd, n))
     ELSE (\E r \in to : DiskMkdir(r)) /\ UNCHANGED node

vfs_mkdir(n) == Mkdir(n) /\ UNCHANGED <<WorkingDir, mounts, fat_ready, fd, undercut>>

\* vfs_touch() refuses a name the RAM tree has, and empties a file of the volume.
vfs_touch(n) ==
  /\ LET to == NamedRoute(Candidate(n))
     IN IF to = {} THEN AddHere(File(cwd, n, 0))
        ELSE (\E r \in to : DiskWrite(r, 0)) /\ UNCHANGED node
  /\ UNCHANGED <<WorkingDir, mounts, fat_ready, fd, undercut>>

\* The text of a call that takes a name ends in a NUL byte inside the array.
Clip(len) == IF len > ContentLen - 1 THEN ContentLen - 1 ELSE len

\* A file of the working directory gets the length NewLen[its length].
Overwrite(n, NewLen) ==
  LET i == find_child(cwd, n)
  IN IF i < 0 THEN AddHere(File(cwd, n, NewLen[0]))
     ELSE cwd >= 0 /\ IsFile(i) /\ SetNode(i, [node[i] EXCEPT !.len = NewLen[@]]) /\ UNCHANGED disk

vfs_write(n, len) ==
  /\ LET to == NamedRoute(Candidate(n))
     IN IF to = {} THEN Overwrite(n, [old \in 0..ContentLen |-> Clip(len)])
        ELSE (\E r \in to : DiskWrite(r, len)) /\ UNCHANGED node
  /\ UNCHANGED <<WorkingDir, mounts, fat_ready, fd, undercut>>

vfs_append(n, len) ==
  /\ Overwrite(n, [old \in 0..ContentLen |-> Clip(old + len)])
  /\ UNCHANGED <<WorkingDir, mounts, fat_ready, fd, undercut>>

\* vfs_rm(), and vfs_rmdir(), which takes directories only
vfs_rm(n) ==
  LET i == find_child(cwd, n)
  IN /\ cwd >= 0 /\ i >= 0
     /\ ~(cwd = 0 /\ n = "mnt") /\ ~(cwd = 1 /\ n = "disk0")
     /\ ~(IsDir(i) /\ has_children(i))
     /\ SetNode(i, Free)
     /\ UNCHANGED <<WorkingDir, mounts, disk, fat_ready, fd, undercut>>

vfs_cp(src, dst) ==
  LET i == find_child(cwd, src)
  IN /\ cwd >= 0 /\ IsFile(i)
     /\ AddHere(File(cwd, dst, node[i].len))
     /\ UNCHANGED <<WorkingDir, mounts, fat_ready, fd, undercut>>

vfs_mv(src, dst) ==
  LET i == find_child(cwd, src)
  IN /\ cwd >= 0 /\ i >= 0
     /\ find_child(cwd, dst) = -1
     /\ SetNode(i, [node[i] EXCEPT !.name = Trunc(dst)])
     /\ UNCHANGED <<WorkingDir, mounts, disk, fat_ready, fd, undercut>>

\* vfs_cd(".."): the path is cut, and the node follows if the path has one.
CdUp ==
  LET up == IF cwd_path = <<>> THEN <<>> ELSE Front(cwd_path)
      i == resolve_ram_path(up)
  IN /\ cwd # 0
     /\ cwd_path' = up
     /\ cwd' = IF i >= 0 THEN i ELSE cwd
     /\ undercut' = (undercut \/ (i >= 0 /\ ~IsDir(i)))

\* vfs_cd() with a name or an absolute path.  While the volume is mounted, a
\* path that path_is_mount() lets through fails unless the volume has it.
CdTo(path, i) ==
  /\ Len(path) <= MaxDepth
  /\ \E to \in Routes(path) :
    \/ /\ \E r \in to : DiskIsDir(r)
       /\ cwd' = -1 /\ cwd_path' = path
    \/ /\ to = {} /\ (~fat_ready \/ vfs_mount_resolve(path) = 0)
       /\ IsDir(i)
       /\ cwd' = i /\ cwd_path' = path

\* An absolute path through directories only.
WalkDirs(path) ==
  IF \A k \in DOMAIN path : IsDir(resolve_ram_path(SubSeq(path, 1, k))) THEN resolve_ram_path(path)
  ELSE -1

vfs_cd ==
  /\ \/ CdUp
     \/ /\ \/ \E n \in Names \cup {"mnt", "disk0"} :
               CdTo(Candidate(n), find_child(IF cwd < 0 THEN 0 ELSE cwd, n))
           \/ \E p \in CallPaths : ~p.rel /\ CdTo(p.comps, WalkDirs(p.comps))
        /\ UNCHANGED undercut
  /\ UNCHANGED <<node, mounts, disk, fat_ready, fd>>

-----------------------------------------------------------------------------
(* User processes: paths                                                   *)

vfs_mkdir_path(p) ==
  LET abs == normalize_absolute(p)
      parent == resolve_ram_path(Front(abs))
  IN /\ abs # <<>>
     /\ IF Len(abs) = 1 THEN Mkdir(abs[1])
        ELSE /\ IsDir(parent) /\ find_child(parent, Last(abs)) < 0
             /\ find_free_node >= 0
             /\ SetNode(find_free_node, Dir(parent, Last(abs)))
             /\ UNCHANGED disk
     /\ UNCHANGED <<WorkingDir, mounts, fat_ready, fd, undercut>>

\* A process may remove the shell's working directory.
vfs_unlink_path(p) ==
  LET i == resolve_ram_path(normalize_absolute(p))
  IN /\ i > 2
     /\ ~(IsDir(i) /\ has_children(i))
     /\ SetNode(i, Free)
     /\ undercut' = (undercut \/ i = cwd)
     /\ UNCHANGED <<WorkingDir, mounts, disk, fat_ready, fd>>

\* The nodes from i up to the root, at most as many as there are.
RECURSIVE Ascend(_, _)
Ascend(i, k) == IF i < 0 \/ k = 0 THEN {} ELSE {i} \cup Ascend(node[i].parent, k - 1)

\* is_under(); where the walk of the code would not end, neither does this one
is_under(i, root) == root \in Ascend(node[i].parent, MaxNodes)

\* Nothing stops a directory from being moved below itself.
vfs_rename_path(src, dst) ==
  LET i == resolve_ram_path(normalize_absolute(src))
      abs == normalize_absolute(dst)
      parent == resolve_ram_path(Front(abs))
  IN /\ i > 2 /\ Len(abs) >= 2
     /\ IsDir(parent) /\ find_child(parent, Last(abs)) < 0
     /\ SetNode(i, [node[i] EXCEPT !.parent = parent, !.name = Last(abs)])
     /\ undercut' = (undercut \/ parent = i \/ is_under(parent, i))
     /\ UNCHANGED <<WorkingDir, mounts, disk, fat_ready, fd>>

\* The length after n bytes are written at off.  A file that is full to the
\* last byte gets its NUL byte one past the array, where content_len begins.
Written(len, n, off) ==
  LET end == IF n > ContentLen - off THEN ContentLen ELSE off + n
      new == IF end > len THEN end ELSE len
  IN IF new = ContentLen THEN 0 ELSE new

\* vfs_write_path() in the RAM tree.  The file is made even if off is then
\* found to be too large.
WriteRam(abs, n, off) ==
  LET i == resolve_ram_path(abs)
      parent == resolve_ram_path(Front(abs))
      fresh == File(parent, Last(abs), IF off < ContentLen THEN Written(0, n, off) ELSE 0)
  IN IF i >= 0
     THEN IsFile(i) /\ off < ContentLen /\ SetNode(i, [node[i] EXCEPT !.len = Written(@, n, off)])
     ELSE /\ Len(abs) >= 2 /\ IsDir(parent) /\ find_free_node >= 0
          /\ SetNode(find_free_node, fresh)

\* vfs_write_path() on the volume: read, extend, write back.
WriteDisk(r, n, off) ==
  LET old == IF DiskIsFile(r) THEN disk[r] ELSE 0
  IN /\ off + n <= ContentLen
     /\ DiskWrite(r, IF off + n > old THEN off + n ELSE old)

vfs_write_path(abs, n, off) ==
  \E to \in Routes(abs) :
    IF to = {} THEN WriteRam(abs, n, off) /\ UNCHANGED disk
    ELSE (\E r \in to : WriteDisk(r, n, off)) /\ UNCHANGED node

\* vfs_file_size_path() along a route: the length, none where there is no file.
SizeAt(to, abs) ==
  IF to # {} THEN {disk[r] : r \in {q \in to : DiskIsFile(q)}}
  ELSE LET i == resolve_ram_path(abs) IN IF IsFile(i) THEN {node[i].len} ELSE {}

vfs_file_size_path(abs) == UNION {SizeAt(to, abs) : to \in Routes(abs)}

\* process_fd_open(): the descriptor keeps the path as it was given.  Making the
\* file and truncating it are both a write of no bytes, which leaves the length
\* of a file that exists alone.  Without the create flag a missing file is no
\* step, and a file that exists is opened with it or without.
process_fd_open(p, trunc, append) ==
  LET abs == normalize_absolute(p)
      Opened(size) == <<[path |-> p, off |-> IF append THEN size ELSE 0]>>
  IN /\ fd = <<>>
     /\ \E to \in Routes(abs) :
          LET size == SizeAt(to, abs)
          IN /\ IF size = {} \/ trunc THEN vfs_write_path(abs, 0, 0) ELSE UNCHANGED <<node, disk>>
             /\ fd' = Opened(IF size = {} \/ trunc THEN 0 ELSE CHOOSE n \in size : TRUE)
     /\ UNCHANGED <<WorkingDir, mounts, fat_ready, undercut>>

\* Descriptors opened without the write flag are the ones never written.
process_fd_write(n) ==
  /\ fd # <<>>
  /\ LET abs == normalize_absolute(fd[1].path)
     IN vfs_write_path(abs, n, fd[1].off)
  /\ fd' = [fd EXCEPT ![1].off = IF @ + n > ContentLen THEN ContentLen ELSE @ + n]
  /\ UNCHANGED <<WorkingDir, mounts, fat_ready, undercut>>

\* process_fd_read(), vfs_read_path()
process_fd_read(n) ==
  /\ fd # <<>>
  /\ \E size \in vfs_file_size_path(normalize_absolute(fd[1].path)) :
       /\ size > fd[1].off
       /\ fd' = [fd EXCEPT ![1].off = IF @ + n > size THEN size ELSE @ + n]
  /\ UNCHANGED <<node, WorkingDir, mounts, disk, fat_ready, undercut>>

\* process_fd_seek() to any place a bounded file may have
process_fd_seek(pos) ==
  /\ fd # <<>>
  /\ vfs_file_size_path(normalize_absolute(fd[1].path)) # {}
  /\ fd' = [fd EXCEPT ![1].off = pos]
  /\ UNCHANGED <<node, WorkingDir, mounts, disk, fat_ready, undercut>>

process_fd_close ==
  /\ fd # <<>>
  /\ fd' = <<>>
  /\ UNCHANGED <<node, WorkingDir, mounts, disk, fat_ready, undercut>>

-----------------------------------------------------------------------------
Shell ==
  \/ vfs_cd
  \/ \E n \in Names : \/ vfs_mkdir(n) \/ vfs_touch(n)
                      \/ \E len \in Lengths : vfs_write(n, len) \/ vfs_append(n, len)
  \/ \E n \in Names \cup {"mnt", "disk0"} : vfs_rm(n)
  \/ \E n \in Sources, d \in Names : vfs_cp(n, d) \/ vfs_mv(n, d)
  \/ \E t \in Targets : vfs_umount(t) \/ vfs_mount(t, "fat32")

Process ==
  \/ \E p \in CallPaths : \/ vfs_mkdir_path(p) \/ vfs_unlink_path(p)
                      \/ \E q \in CallPaths : vfs_rename_path(p, q)
                      \/ \E trunc, append \in BOOLEAN : process_fd_open(p, trunc, append)
  \/ \E n \in 1..ContentLen : process_fd_write(n) \/ process_fd_read(n)
  \/ \E pos \in 0..ContentLen : process_fd_seek(pos)
  \/ process_fd_close

VfsNext == Shell \/ Process

VfsSpec == VfsInit /\ [][VfsNext]_vfsVars

-----------------------------------------------------------------------------
(* Properties                                                              *)

\* Whatever the shell and the processes do to the tree (nodes freed and used
\* again, directories renamed under the shell's feet, names cut to the same
\* text), every node hangs below the root in a directory, so that the walks of
\* vfs_du() and vfs_find() end, and the shell stands in a directory.  Three
\* calls break this, and only they: a process removes the shell's working
\* directory or moves a directory below itself, and "cd .." follows a path that
\* leads to a file.
TreeSound ==
  undercut \/
  /\ \A i \in Nodes \ {0} : Used(i) => IsDir(node[i].parent) /\ is_under(i, 0)
  /\ cwd >= 0 => IsDir(cwd)

\* vfs.c: "The RAM tree remains the primary namespace; mounted FAT32 paths are
\* forwarded to the persistent backend."  A call changes the volume only while
\* the mount table has a FAT32 entry.
VolumeOnlyThroughMount ==
  [][disk' # disk => \E i \in DOMAIN mounts : mounts[i].fstype = "fat32"]_vfsVars
=============================================================================
