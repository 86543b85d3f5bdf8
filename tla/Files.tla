------------------------------- MODULE Files -------------------------------
(***************************************************************************)
(* Descriptors, inodes and their reference counts: kern/fs/file.c, fs.c,   *)
(* sysfile.c, the VFS (kern/fs/vfs) and the inode cache and directories of *)
(* the Simple File System (kern/fs/sfs), from the start of init to the     *)
(* saving of the file system when all user processes have quit.            *)
(*                                                                         *)
(* A system call runs with interrupts off and nothing below it sleeps (the *)
(* disk is memory, so its semaphores are never contended and its transfers *)
(* never fail), except a read of stdin; each call is one action, that read *)
(* is two.  Memory may run out at any one allocation of a call.  Of a      *)
(* file's contents only whether there are any is kept: SfsFile has the     *)
(* blocks and the positions.                                               *)
(*                                                                         *)
(* The operators take and return a record of the variables a call works    *)
(* on, together with                                                       *)
(*   ret  "ok", or the error the call returns                              *)
(*   at   the inode the last look-up found                                 *)
(***************************************************************************)
EXTENDS Integers, FiniteSets, FiniteSetsExt

CONSTANTS
    Procs, InitProc,  \* the processes, and init among them
    NFd,              \* FS_STRUCT_NENTRY
    Dirs, Regs, Root, \* the inodes of the disk image, and its root directory
    Names,            \* names that can be looked up
    Entry,            \* directory -> name -> inode, or None
    Depth,            \* directory -> how many directories lie above it
    OpenFlags,        \* the flags programs open files with
    Paths,            \* the paths they use
    MaxLeaked,        \* bound: inode -> references that may be lost
    MaxOpen,          \* bound: descriptors in use in all processes together
    None

Devs == {"stdin", "stdout"}
Sfs == Dirs \union Regs
Nodes == Sfs \union Devs
Fds == 0 .. NFd - 1

\* A path is where it starts and the name that is left, none for the start
\* itself.  Three descriptors at least: fs_closeall treats the first two differently.
\* The directories of the image form a tree, as mksfs writes them, with the
\* root its own parent.
ASSUME FilesAssumption ==
    /\ IsFiniteSet(Procs) /\ InitProc \in Procs /\ NFd \in Nat /\ NFd > 2
    /\ Root \in Dirs /\ Dirs \intersect Regs = {} /\ Sfs \intersect Devs = {}
    /\ None \notin Nodes /\ None \notin Fds
    /\ Paths \subseteq [from : {"cwd", "boot", "fs", "disk0", "nodev"} \union Devs,
                       name : Names \union {""}]
    /\ Entry \in [Dirs -> [Names -> Sfs \union {None}]]
    /\ Depth \in [Dirs -> Nat] /\ ".." \in Names
    /\ \A d \in Dirs : LET up == Entry[d][".."]
                       IN  up \in Dirs /\ (up = d \/ Depth[up] < Depth[d])

VARIABLES
    node,         \* the inode in memory
    hash,         \* the SFS inodes in memory: hash_list and inode_list
    disk,         \* does the inode on disk say that the file holds anything
    super_dirty,
    fs,           \* process -> fs_struct, or NoFs
    bootfs,       \* bootfs_node
    leaked,       \* references that vfs_open took and nobody can give back
    reading,      \* process -> the descriptor it reads stdin on, or None
    phase,        \* how far init_main is
    panic         \* "none", or the assertion that failed

vars == <<node, hash, disk, super_dirty, fs, bootfs, leaked, reading, phase,
          panic>>

\* struct inode and struct sfs_inode.
NoNode == [ref |-> 0, open |-> 0, reclaim |-> 0, dirty |-> FALSE, full |-> FALSE]
\* struct file.  An entry that is FD_NONE keeps nothing worth telling.
NoFile == [status |-> "NONE", node |-> None, readable |-> FALSE,
           writable |-> FALSE, count |-> 0]
NoFs == [pwd |-> None, filemap |-> <<>>]
\* fs_create
NewFs == [pwd |-> None, filemap |-> [d \in Fds |-> NoFile]]

\* The devices are listed and the disk is mounted; init, made by idle, has
\* neither a directory nor files.
Init ==
    /\ node = [i \in Nodes |-> IF i \in Devs THEN [NoNode EXCEPT !.ref = 1]
                                             ELSE NoNode]
    /\ hash = {}
    /\ disk \in [Regs -> BOOLEAN]
    /\ super_dirty = FALSE
    /\ fs = [p \in Procs |-> IF p = InitProc THEN NewFs ELSE NoFs]
    /\ bootfs = None
    /\ leaked = [i \in Nodes |-> 0]
    /\ reading = [p \in Procs |-> None]
    /\ phase = "boot"
    /\ panic = "none"

Now == [node |-> node, hash |-> hash, disk |-> disk,
        super_dirty |-> super_dirty, fs |-> fs, bootfs |-> bootfs,
        leaked |-> leaked, panic |-> panic, ret |-> "ok", at |-> None]

Check(s, cond, name) ==
    IF cond \/ s.panic # "none" THEN s ELSE [s EXCEPT !.panic = name]
Fail(s, error) == [s EXCEPT !.ret = error]
Ok(s) == s.ret = "ok" /\ s.panic = "none"

-----------------------------------------------------------------------------
(* Inodes                                                                  *)

\* The operations an inode's table has.
Ops(i) ==
    {"open", "close", "fstat", "gettype"}
      \union (IF i \in Dirs THEN {"fsync", "reclaim", "namefile", "getdirentry",
                                  "lookup"} ELSE {})
      \union (IF i \in Regs THEN {"fsync", "reclaim", "read", "write", "tryseek",
                                  "truncate"} ELSE {})
      \union (IF i \in Devs THEN {"read", "write", "tryseek", "lookup"} ELSE {})

\* __vop_op and inode_check, before every operation.
Vop(s, i, op) ==
    Check(Check(s, op \in Ops(i), "no_operation"),
          s.node[i].ref >= s.node[i].open, "inode_check")

ref_inc(s, i) == [s EXCEPT !.node[i].ref = @ + 1]
open_inc(s, i) == [s EXCEPT !.node[i].open = @ + 1]

fsync_unwritten(s, i) ==
    IF i \in Regs /\ s.node[i].dirty
    THEN [s EXCEPT !.node[i].dirty = FALSE] ELSE s
\* sfs_fsync
fsync(s, i) ==
    IF i \in Regs /\ s.node[i].dirty
    THEN [s EXCEPT !.disk[i] = s.node[i].full, !.node[i].dirty = FALSE] ELSE s

\* sfs_remove_links and inode_kill.
inode_kill(s, i) ==
    Check([s EXCEPT !.hash = @ \ {i}, !.node[i] = NoNode],
          s.node[i].open = 0, "inode_kill")

\* sfs_reclaim.  Every inode of the image has a link.
reclaim(s, i) ==
    LET Unused(t) == IF t.node[i].reclaim # 0 \/ t.node[i].ref # 0 THEN t
                     ELSE inode_kill(fsync(t, i), i)
    IN  Unused(Check([s EXCEPT !.node[i].reclaim = @ - 1],
                     s.node[i].reclaim > 0, "reclaim_count"))

ref_dec(s, i) ==
    LET Left(t) == IF t.node[i].ref # 0 THEN t
                   ELSE reclaim(Vop(t, i, "reclaim"), i)
    IN  Left(Check([s EXCEPT !.node[i].ref = @ - 1],
                   s.node[i].ref > 0, "ref_dec"))

\* The last descriptor saves the inode (sfs_close); devices do nothing.
open_dec(s, i) ==
    LET Left(t) == IF t.node[i].open # 0 THEN t
                   ELSE fsync(Vop(t, i, "close"), i)
    IN  Left(Check([s EXCEPT !.node[i].open = @ - 1],
                   s.node[i].open > 0, "open_dec"))

\* sfs_load_inode: the inode with one more reference, read from the disk
\* unless it is in memory.
load_inode(s, i, oom) ==
    IF i \in s.hash
    THEN [s EXCEPT !.node[i].ref = @ + 1, !.at = i,
                   !.node[i].reclaim = IF s.node[i].ref = 0 THEN @ + 1 ELSE @]
    ELSE IF oom = "inode" THEN Fail(s, "E_NO_MEM")
    ELSE [s EXCEPT !.hash = @ \union {i}, !.at = i,
                   !.node[i] = [NoNode EXCEPT !.ref = 1, !.reclaim = 1,
                                   !.full = i \in Regs /\ s.disk[i]]]

\* fsop_get_root
get_root(s, oom) ==
    LET Loaded(t) == Check(t, t.ret = "ok", "load_root")
    IN  Loaded(load_inode(s, Root, oom))

-----------------------------------------------------------------------------
(* Paths                                                                   *)

\* vfs_get_curdir
get_curdir(s, p) ==
    LET pwd == s.fs[p].pwd IN
    IF pwd = None THEN Fail(s, "E_NOENT")
    ELSE [ref_inc(s, pwd) EXCEPT !.at = pwd]

\* get_device: the inode a path starts at, with a reference.
get_device(s, p, from, oom) ==
    IF from = "cwd" THEN get_curdir(s, p)
    ELSE IF from = "boot"
         THEN IF s.bootfs = None THEN Fail(s, "E_NOENT")
              ELSE [ref_inc(s, s.bootfs) EXCEPT !.at = s.bootfs]
    ELSE IF from = "fs"
         THEN LET RootOf(t) == IF Ok(t) THEN ref_dec(get_root(t, oom), t.at)
                               ELSE t
              IN  RootOf(get_curdir(s, p))
    ELSE IF from = "disk0" THEN get_root(s, oom)
    ELSE IF from \in Devs THEN [ref_inc(s, from) EXCEPT !.at = from]
    ELSE Fail(s, "E_NO_DEV")

\* sfs_lookup_once and sfs_dirent_search_nolock
lookup_once(s, d, name, oom) ==
    IF oom = "dirent" THEN Fail(s, "E_NO_MEM")
    ELSE IF Entry[d][name] = None THEN Fail(s, "E_NOENT")
    ELSE load_inode(s, Entry[d][name], oom)

\* sfs_lookup and dev_lookup, for a name that is not empty.
lookup(s, i, name, oom) ==
    IF i \in Devs THEN Fail(s, "E_NOENT")
    ELSE ref_dec(lookup_once(ref_inc(s, i), i, name, oom), i)

vfs_lookup(s, p, path, oom) ==
    LET From(t) == IF ~Ok(t) \/ path.name = "" THEN t
                   ELSE ref_dec(lookup(Vop(t, t.at, "lookup"), t.at, path.name, oom),
                                t.at)
    IN  From(get_device(s, p, path.from, oom))

\* vfs_set_curdir
set_curdir(s, p, i) ==
    LET old == s.fs[p].pwd
        Set(t) == IF old = None THEN t ELSE ref_dec(t, old)
    IN  IF i = old THEN s
        ELSE IF i \notin Dirs THEN Fail(s, "E_NOTDIR")
        ELSE Set([ref_inc(s, i) EXCEPT !.fs[p].pwd = i])

\* vfs_chdir
chdir(s, p, path, oom) ==
    LET To(t) == IF Ok(t) THEN ref_dec(set_curdir(t, p, t.at), t.at) ELSE t
    IN  To(vfs_lookup(s, p, path, oom))

\* sfs_namefile: up from d to the directory that is its own parent, holding one
\* directory at a time.
namefile(s, d, oom) ==
    LET To(w, up) ==
          IF ~Ok(up) THEN [s |-> ref_dec(up, w.d), d |-> w.d, top |-> TRUE]
          ELSE IF up.at = w.d
               THEN [s |-> ref_dec(ref_dec(up, w.d), w.d), d |-> w.d, top |-> TRUE]
               ELSE [s |-> ref_dec(up, w.d), d |-> up.at, top |-> FALSE]
        Climb(w) == IF w.top THEN w ELSE To(w, lookup_once(w.s, w.d, "..", oom))
        climbed[n \in 0 .. Depth[d] + 1] ==
          IF n = 0 THEN [s |-> ref_inc(s, d), d |-> d, top |-> FALSE]
          ELSE Climb(climbed[n - 1])
    IN  IF oom = "entry" THEN Fail(s, "E_NO_MEM") ELSE climbed[Depth[d] + 1].s

\* vfs_getcwd
getcwd(s, p, oom) ==
    LET t == get_curdir(s, p)
    IN  IF Ok(t) THEN ref_dec(namefile(Vop(t, t.at, "namefile"), t.at, oom), t.at)
                 ELSE t

-----------------------------------------------------------------------------
(* Opening                                                                 *)

Writes(flags) == flags.acc \in {"WRONLY", "RDWR"}
Plain(flags) == ~(flags.creat \/ flags.trunc \/ flags.excl \/ flags.append)

\* The vop_open of a directory, a file and the two devices.
vop_open(s, i, flags) ==
    IF i \in Dirs /\ (Writes(flags) \/ flags.append) THEN Fail(s, "E_ISDIR")
    ELSE IF i = "stdin" /\ ~(Plain(flags) /\ flags.acc = "RDONLY")
         THEN Fail(s, "E_INVAL")
    ELSE IF i = "stdout" /\ ~(Plain(flags) /\ flags.acc = "WRONLY")
         THEN Fail(s, "E_INVAL")
    ELSE s

\* sfs_truncfile to nothing, or to something: blocks are freed or allocated.
Resize(s, i, full) ==
    IF s.node[i].full = full THEN s
    ELSE [s EXCEPT !.node[i].full = full, !.node[i].dirty = TRUE,
                   !.super_dirty = TRUE]
truncate(s, i) ==
    LET t == Vop(s, i, "truncate") IN IF Ok(t) THEN Resize(t, i, FALSE) ELSE t

\* The file is to be created: vfs_lookup_parent finds the directory (a device
\* name was cut off the path by the look-up before), then vop_create.
create(s, p, path, oom) ==
    LET from == IF path.from \in {"disk0"} \union Devs THEN "cwd" ELSE path.from
        t == get_device([s EXCEPT !.ret = "ok"], p, from, oom)
    IN  IF Ok(t) THEN Vop(t, t.at, "create") ELSE t

\* The rest of vfs_open, the inode found.  With O_CREAT and O_EXCL the inode
\* keeps the reference of the look-up (vfsfile.c:45): it is counted in leaked.
open_found_keeps_ref(s, i, flags) ==
    LET Opened(t) ==
          IF ~Ok(t) THEN t
          ELSE IF flags.trunc \/ flags.creat THEN truncate(open_inc(t, i), i)
          ELSE open_inc(t, i)
    IN  IF flags.excl /\ flags.creat
        THEN [Fail(s, "E_EXISTS") EXCEPT !.leaked[i] = @ + 1]
        ELSE Opened(vop_open(s, i, flags))
open_found(s, i, flags) ==
    LET Opened(t) ==
          IF ~Ok(t) THEN ref_dec(t, i)
          ELSE IF flags.trunc \/ flags.creat THEN truncate(open_inc(t, i), i)
          ELSE open_inc(t, i)
    IN  IF flags.excl /\ flags.creat
        THEN [Fail(s, "E_EXISTS") EXCEPT !.leaked[i] = @ + 1]
        ELSE Opened(vop_open(s, i, flags))

vfs_open(s, p, path, flags, oom) ==
    LET Found(t) ==
          IF t.ret = "E_NOENT" /\ flags.creat THEN create(t, p, path, oom)
          ELSE IF ~Ok(t) THEN t ELSE open_found(t, t.at, flags)
    IN  IF flags.trunc /\ ~Writes(flags) THEN Fail(s, "E_INVAL")
        ELSE Found(vfs_lookup(s, p, path, oom))

\* vfs_close
vfs_close(s, i) == ref_dec(open_dec(s, i), i)

-----------------------------------------------------------------------------
(* The descriptors of a process                                            *)

\* file_open: filemap_alloc takes the lowest entry that is FD_NONE, a failed
\* vfs_open gives it back, filemap_open makes it usable.
file_open(s, p, path, flags, oom) ==
    LET free == {d \in Fds : s.fs[p].filemap[d].status = "NONE"}
        d == Min(free)
        Opened(t) ==
          IF ~Ok(t) THEN t
          ELSE [t EXCEPT !.fs[p].filemap[d] =
                  [status |-> "OPENED", node |-> t.at, count |-> 1,
                   readable |-> flags.acc # "WRONLY", writable |-> Writes(flags)]]
    IN  IF free = {} THEN Fail(s, "E_MAX_OPEN")
        ELSE Opened(vfs_open(
                Check(s, s.fs[p].filemap[d].count = 0, "filemap_alloc"),
                p, path, flags, oom))

\* filemap_release and the end of filemap_close: one use less, and with the
\* last one the entry is free again (filemap_free).
release(s, p, d) ==
    LET f == s.fs[p].filemap[d]
        t == Check(s, f.count > 0, "filemap_release")
    IN  IF f.count > 1 THEN [t EXCEPT !.fs[p].filemap[d].count = @ - 1]
        ELSE [vfs_close(Check(t, f.status = "CLOSED", "filemap_free"), f.node)
                EXCEPT !.fs[p].filemap[d] = NoFile]

filemap_close(s, p, d) ==
    release([Check(s, s.fs[p].filemap[d].status = "OPENED", "filemap_close")
               EXCEPT !.fs[p].filemap[d].status = "CLOSED"], p, d)

\* filemap_dup to an entry that is FD_INIT.
filemap_dup_unopened(s, p, d, f) ==
    [ref_inc(s, f.node) EXCEPT !.fs[p].filemap[d] = [f EXCEPT !.count = 1]]
filemap_dup(s, p, d, f) ==
    [open_inc(ref_inc(s, f.node), f.node)
       EXCEPT !.fs[p].filemap[d] = [f EXCEPT !.count = 1]]

\* The entries of p from first on that are FD_OPENED are closed, in order.
CloseFrom(s, p, first) ==
    LET Closed(t, d) == IF t.fs[p].filemap[d].status = "OPENED"
                        THEN filemap_close(t, p, d) ELSE t
        closed[d \in first .. NFd] ==
          IF d = first THEN s ELSE Closed(closed[d - 1], d - 1)
    IN  closed[NFd]

\* fs_closeall keeps stdin and stdout.
fs_closeall(s, p) == CloseFrom(s, p, 2)

\* fs_destroy
fs_destroy(s, p) ==
    LET t == IF s.fs[p].pwd = None THEN s ELSE ref_dec(s, s.fs[p].pwd)
        Freed(u) == [Check(u, \A d \in Fds : u.fs[p].filemap[d].status = "NONE",
                           "fs_destroy") EXCEPT !.fs[p] = NoFs]
    IN  Freed(CloseFrom(t, p, 0))

\* dup_fs into a new fs_struct.
dup_fs(s, q, p) ==
    LET pwd == s.fs[p].pwd
        Duplicated(t, d) == IF s.fs[p].filemap[d].status = "OPENED"
                            THEN filemap_dup(t, q, d, s.fs[p].filemap[d]) ELSE t
        duplicated[d \in 0 .. NFd] ==
          IF d > 0 THEN Duplicated(duplicated[d - 1], d - 1)
          ELSE IF pwd = None THEN [s EXCEPT !.fs[q] = NewFs]
          ELSE [ref_inc(s, pwd) EXCEPT !.fs[q] = [NewFs EXCEPT !.pwd = pwd]]
    IN  duplicated[NFd]

-----------------------------------------------------------------------------
(* init                                                                    *)

\* The state a call leaves; a panic stops the kernel within the call.
Finish(s) ==
    /\ panic' = s.panic
    /\ LET r == IF s.panic = "none" THEN s ELSE Now IN
       /\ node' = r.node /\ hash' = r.hash /\ disk' = r.disk
       /\ super_dirty' = r.super_dirty /\ fs' = r.fs /\ bootfs' = r.bootfs
       /\ leaked' = r.leaked

\* vfs_set_bootfs("disk0:"): the current directory of init becomes the root of
\* the disk, and the boot file system too.  Its failure stops the kernel.
SetBootfs ==
    /\ panic = "none" /\ phase = "boot"
    /\ \E oom \in {"none", "inode"} :
          LET Set(t) == IF Ok(t) THEN [t EXCEPT !.bootfs = t.at]
                        ELSE Check(t, FALSE, "set_bootfs")
              Of(t) == IF Ok(t) THEN get_curdir(t, InitProc) ELSE t
          IN  Finish(Set(Of(chdir(Now, InitProc,
                                  [from |-> "disk0", name |-> ""], oom))))
    /\ phase' = "booted"
    /\ UNCHANGED reading

\* The first user process, made by init.
StartUser(q) ==
    /\ panic = "none" /\ phase = "booted"
    /\ q # InitProc
    /\ Finish(dup_fs(Now, q, InitProc))
    /\ phase' = "running"
    /\ UNCHANGED reading

\* sfs_sync: every inode in memory is saved (fsync), then the superblock and
\* the map of free blocks.
sync(s) ==
    [s EXCEPT !.node = [i \in Nodes |->
                          IF i \in s.hash THEN [s.node[i] EXCEPT !.dirty = FALSE]
                          ELSE s.node[i]],
              !.disk = [i \in Regs |->
                          IF i \in s.hash /\ s.node[i].dirty
                          THEN s.node[i].full ELSE s.disk[i]],
              !.super_dirty = FALSE]

\* No user process is left: do_wait finds no child, fs_cleanup saves the file
\* system.
Cleanup ==
    /\ panic = "none" /\ phase = "running"
    /\ \A p \in Procs \ {InitProc} : fs[p] = NoFs
    /\ Finish(sync(Now))
    /\ phase' = "cleaned"
    /\ UNCHANGED reading

-----------------------------------------------------------------------------
(* The system calls of user processes                                      *)

\* The bounds of the model.
InUse == {u \in {q \in Procs : fs[q] # NoFs} \X Fds :
             fs[u[1]].filemap[u[2]].node # None}
Bounded ==
    /\ \A i \in Nodes : leaked'[i] <= MaxLeaked[i]
    /\ fs' # fs => Cardinality(InUse') <= MaxOpen

InUser(p) == /\ panic = "none" /\ p # InitProc
             /\ fs[p] # NoFs /\ reading[p] = None
\* fd2file
IsOpen(p, d) == fs[p].filemap[d].status = "OPENED"

\* A call that changes only the state of the file system.
Call(s) == Finish(s) /\ Bounded /\ UNCHANGED <<reading, phase>>

\* The allocations of a look-up that can fail: the directory entry, and the
\* inode when it is not in memory.
Allocs(path) ==
    {"none"} \union (IF path.name = "" THEN {} ELSE {"dirent"})
      \union {"inode" : d \in {e \in Dirs : path.name # ""
                                /\ Entry[e][path.name] \in Sfs \ hash}}

Open(p) ==
    /\ InUser(p)
    /\ \E path \in Paths : \E flags \in OpenFlags, oom \in Allocs(path) :
          Call(file_open(Now, p, path, flags, oom))

Close(p) ==
    /\ InUser(p)
    /\ \E d \in Fds : IsOpen(p, d) /\ Call(filemap_close(Now, p, d))

\* filemap_acquire, the operation op of the file, filemap_release.  What is
\* written or sought behind the end makes a file longer.
With(s, p, d, op, longer) ==
    LET i == s.fs[p].filemap[d].node
        Done(t) == IF ~Ok(t) THEN t
                   ELSE IF op = "fsync" THEN fsync(t, i)
                   ELSE IF longer /\ i \in Regs THEN Resize(t, i, TRUE)
                   ELSE t
    IN  release(Done(Vop([s EXCEPT !.fs[p].filemap[d].count = @ + 1], i, op)), p, d)

\* file_write
Write(p) ==
    /\ InUser(p)
    /\ \E d \in Fds, longer \in BOOLEAN :
          /\ IsOpen(p, d) /\ fs[p].filemap[d].writable
          /\ Call(With(Now, p, d, "write", longer))

\* file_read of a file, a directory or, with a character waiting, of stdin.
Read(p) ==
    /\ InUser(p)
    /\ \E d \in Fds : /\ IsOpen(p, d) /\ fs[p].filemap[d].readable
                      /\ Call(With(Now, p, d, "read", FALSE))

\* file_read of stdin with nothing to read: the process sleeps inside the call.
ReadSleeps(p) ==
    /\ InUser(p)
    /\ \E d \in Fds :
          /\ IsOpen(p, d) /\ fs[p].filemap[d].node = "stdin"
          /\ fs' = [fs EXCEPT ![p].filemap[d].count = @ + 1]
          /\ reading' = [reading EXCEPT ![p] = d]
    /\ UNCHANGED <<node, hash, disk, super_dirty, bootfs, leaked, phase, panic>>

ReadWakes(p) ==
    /\ panic = "none" /\ reading[p] # None
    /\ Finish(release(Now, p, reading[p]))
    /\ reading' = [reading EXCEPT ![p] = None]
    /\ UNCHANGED phase

\* file_seek: on the console it fails.
Seek(p) ==
    /\ InUser(p)
    /\ \E d \in Fds, longer \in BOOLEAN :
          /\ IsOpen(p, d) /\ Call(With(Now, p, d, "tryseek", longer))

Fstat(p) ==
    /\ InUser(p)
    /\ \E d \in Fds : IsOpen(p, d) /\ Call(With(Now, p, d, "fstat", FALSE))
Fsync(p) ==
    /\ InUser(p)
    /\ \E d \in Fds : IsOpen(p, d) /\ Call(With(Now, p, d, "fsync", FALSE))
Getdirentry(p) ==
    /\ InUser(p)
    /\ \E d \in Fds : IsOpen(p, d) /\ Call(With(Now, p, d, "getdirentry", FALSE))

\* file_dup: to the lowest free descriptor, or to one that is free.
Dup(p) ==
    /\ InUser(p)
    /\ \E d, e \in Fds :
          /\ IsOpen(p, d) /\ fs[p].filemap[e].status = "NONE"
          /\ Call(filemap_dup(Now, p, e, fs[p].filemap[d]))

Getcwd(p) ==
    /\ InUser(p)
    /\ \E oom \in {"none", "entry", "dirent", "inode"} : Call(getcwd(Now, p, oom))

\* copy_fs in do_fork; when the memory cannot be copied afterwards, put_fs
\* takes it all back.
Fork(p, q) ==
    /\ InUser(p)
    /\ q # InitProc /\ fs[q] = NoFs
    /\ \E fails \in BOOLEAN :
          LET s == dup_fs(Now, q, p)
          IN  Call(IF fails THEN fs_destroy(s, q) ELSE s)

\* do_execve: the program is opened with the lowest free descriptor, read and
\* closed; what cannot be opened or loaded ends the process.
Exec(p) ==
    /\ InUser(p)
    /\ \E path \in Paths : \E oom \in Allocs(path), good \in BOOLEAN :
          LET rdonly == [acc |-> "RDONLY", creat |-> FALSE, excl |-> FALSE,
                         trunc |-> FALSE, append |-> FALSE]
              Load(t, d) == LET u == With(t, p, d, "tryseek", FALSE)
                            IN  IF t.at \in Devs \/ ~good THEN fs_destroy(u, p)
                                ELSE filemap_close(u, p, d)
              Opened(t, d) == IF Ok(t) THEN Load(t, d) ELSE fs_destroy(t, p)
              Closed(s) == Opened(file_open(s, p, path, rdonly, oom),
                                  Min({e \in Fds : s.fs[p].filemap[e].status = "NONE"}))
          IN  Call(Closed(fs_closeall(Now, p)))

Exit(p) ==
    /\ InUser(p)
    /\ Call(fs_destroy(Now, p))

UserCall(p) ==
    \/ Open(p) \/ Close(p) \/ Read(p) \/ ReadSleeps(p)
    \/ Write(p) \/ Seek(p) \/ Fstat(p) \/ Fsync(p) \/ Getdirentry(p)
    \/ Dup(p) \/ Getcwd(p) \/ Exec(p) \/ Exit(p)
    \/ \E q \in Procs : Fork(p, q)

Next == \/ SetBootfs \/ Cleanup
        \/ \E p \in Procs : StartUser(p) \/ ReadWakes(p) \/ UserCall(p)

Spec == Init /\ [][Next]_vars

-----------------------------------------------------------------------------
(* Properties                                                              *)

\* The descriptors that name inode i, opened or in the middle of a call.
DescriptorsOf(i) ==
    {u \in {q \in Procs : fs[q] # NoFs} \X Fds : fs[u[1]].filemap[u[2]].node = i}

\* Every inode has exactly the references that descriptors, current
\* directories, the boot file system and the device list hold, and those that
\* O_CREAT|O_EXCL lost (vfsfile.c:45); its open count is that of the
\* descriptors; and an inode of the disk is in memory just while it is referred
\* to.  This is what every path through the look-ups, the failures in the
\* middle of an open, dup, fork, exec and exit has to keep.
RefExact ==
    /\ \A i \in Nodes :
         /\ node[i].open = Cardinality(DescriptorsOf(i))
         /\ node[i].ref = node[i].open + leaked[i]
                            + Cardinality({p \in Procs : fs[p].pwd = i})
                            + (IF bootfs = i THEN 1 ELSE 0)
                            + (IF i \in Devs THEN 1 ELSE 0)
    /\ hash = {i \in Sfs : node[i].ref > 0}
    /\ \A i \in hash : node[i].reclaim = 1

\* No assertion about counts and states of descriptors and inodes fails.  The
\* kernel does stop when the root cannot be loaded at the start, and when an
\* operation that the inode does not have is called (OperationsExist).
CountsNeverFail == panic \in {"none", "no_operation", "load_root", "set_bootfs"}

\* What a file holds is in memory or, when nobody refers to it, on the disk.
Holds(i) == IF i \in hash THEN node[i].full ELSE disk[i]
Abstract == INSTANCE FileSpec WITH
    Free <- None, Files <- Regs,
    table <- [p \in Procs |-> [d \in Fds |->
                 IF fs[p] # NoFs /\ fs[p].filemap[d].status = "OPENED"
                 THEN fs[p].filemap[d].node ELSE None]],
    data <- [i \in Regs |-> Holds(i)]
\* Descriptors and files are what FileSpec promises: nothing but its own calls
\* changes a process's descriptors, and neither reclaiming an inode nor loading
\* it again loses what a file holds.
FileRefinement == Abstract!Spec

\* "assert(... __node->in_ops->vop_##sym != NULL)" (inode.h:196): no system
\* call reaches an operation that the inode does not have.
OperationsExist == panic # "no_operation"
=============================================================================
