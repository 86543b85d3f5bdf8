------------------------------ MODULE SfsFile ------------------------------
(***************************************************************************)
(* Files of the Simple File System: the block map, growing, truncating and *)
(* saving of kern/fs/sfs/sfs_inode.c with the descriptors of kern/fs/file.c*)
(* that reach them, on a disk that can fill up.                            *)
(*                                                                         *)
(* A system call runs with interrupts off and nothing below it sleeps (the *)
(* disk is memory), so each call is one action.  What is written is        *)
(* abstracted away: a file is which blocks it has and how many bytes.      *)
(*                                                                         *)
(* The operators take and return a record of what one call works on:       *)
(* freemap, unused_blocks, entries, din, dirty, and                        *)
(*   ret    "ok", or "E_NO_MEM" when the disk is full                      *)
(*   ino    the block number the last look-up found                        *)
(*   panic  "none", or the name of the assertion that failed               *)
(***************************************************************************)
EXTENDS Integers, FiniteSets, FiniteSetsExt

CONSTANTS
    Files,        \* the files of the disk
    NoFile,       \* marks a descriptor that is not in use
    Fds,          \* the descriptors, of all processes together
    NBlocks,      \* blocks the files can use
    BlkSize,      \* SFS_BLKSIZE
    NDirect,      \* SFS_NDIRECT
    NEntry,       \* SFS_BLK_NENTRY
    MaxFileSize   \* SFS_MAX_FILE_SIZE

\* The disk is smaller than what direct and indirect blocks can address, as
\* the initial ram disk of the Makefile is.
ASSUME SfsAssumption ==
    /\ NoFile \notin Files
    /\ NBlocks \in Nat /\ BlkSize \in Nat \ {0}
    /\ NDirect \in Nat \ {0} /\ NEntry \in Nat \ {0}
    /\ NBlocks <= NDirect + NEntry
    /\ MaxFileSize \in Nat

VARIABLES
    freemap,        \* the free blocks
    unused_blocks,  \* super.unused_blocks
    entries,        \* what is on disk in a block used as an indirect block
    din,            \* the inode in memory
    dirty,          \* sin->dirty
    disk_din,       \* the inode on disk
    fd,             \* descriptor -> [file, pos]; file is NoFile when it is free
    panic

vars == <<freemap, unused_blocks, entries, din, dirty, disk_din, fd, panic>>

Blocks == 1 .. NBlocks
EmptyInode == [size |-> 0, blocks |-> 0, indirect |-> 0,
               direct |-> [i \in 0 .. NDirect - 1 |-> 0]]
ZeroBlock == [i \in 0 .. NEntry - 1 |-> 0]

Init ==
    /\ freemap = Blocks
    /\ unused_blocks = NBlocks
    /\ entries = [b \in Blocks |-> ZeroBlock]
    /\ din = [f \in Files |-> EmptyInode]
    /\ dirty = [f \in Files |-> FALSE]
    /\ disk_din = [f \in Files |-> EmptyInode]
    /\ fd = [d \in Fds |-> [file |-> NoFile, pos |-> 0]]
    /\ panic = "none"

-----------------------------------------------------------------------------
(* The block map                                                           *)

\* What a call on file f starts from.
Start(f) == [freemap |-> freemap, unused_blocks |-> unused_blocks,
             entries |-> entries, din |-> din[f], dirty |-> dirty[f],
             ret |-> "ok", ino |-> 0, panic |-> panic]

Check(s, cond, name) ==
    IF cond \/ s.panic # "none" THEN s ELSE [s EXCEPT !.panic = name]

\* sfs_block_alloc: the lowest free block, cleared.
block_alloc(s) ==
    IF s.freemap = {}
    THEN [s EXCEPT !.ret = "E_NO_MEM"]
    ELSE LET b == Min(s.freemap) IN
         Check([s EXCEPT !.freemap = @ \ {b}, !.ino = b,
                         !.unused_blocks = @ - 1, !.entries[b] = ZeroBlock],
               s.unused_blocks > 0, "unused_blocks")

\* sfs_block_free
block_free(s, b) ==
    Check([s EXCEPT !.freemap = @ \union {b}, !.unused_blocks = @ + 1],
          b \in Blocks \ s.freemap, "block_inuse")

\* sfs_bmap_get_sub_nolock: entry i of the indirect block, created on demand
\* together with that block, which is given back if the entry cannot be had.
get_sub(s, i) ==
    LET ent == IF s.din.indirect # 0
               THEN [s EXCEPT !.ino = s.din.indirect] ELSE block_alloc(s)
        new == block_alloc(ent)
    IN  IF s.din.indirect # 0 /\ s.entries[s.din.indirect][i] # 0
        THEN [s EXCEPT !.ino = s.entries[s.din.indirect][i]]
        ELSE IF ent.ret # "ok" THEN ent
        ELSE IF new.ret # "ok"
             THEN IF s.din.indirect = 0 THEN block_free(new, ent.ino) ELSE new
        ELSE [new EXCEPT !.entries[ent.ino][i] = new.ino,
                         !.din.indirect = ent.ino,
                         !.dirty = @ \/ s.din.indirect = 0]

\* sfs_bmap_get_nolock with create set.
bmap_create(s, index) ==
    IF index >= NDirect THEN get_sub(s, index - NDirect)
    ELSE IF s.din.direct[index] # 0
         THEN [s EXCEPT !.ino = s.din.direct[index]]
         ELSE LET new == block_alloc(s)
              IN  IF new.ret # "ok" THEN new
                  ELSE [new EXCEPT !.din.direct[index] = new.ino,
                                   !.dirty = TRUE]

\* sfs_bmap_get_nolock without it: the block number, 0 where there is none.
bmap_find(s, index) ==
    IF index < NDirect THEN s.din.direct[index]
    ELSE IF s.din.indirect = 0 THEN 0
         ELSE s.entries[s.din.indirect][index - NDirect]

bmap_load_counts_first(s, index) ==
    IF index > s.din.blocks THEN Check(s, FALSE, "index")
    ELSE IF index = s.din.blocks
         THEN LET new == bmap_create(s, index)
              IN  [new EXCEPT !.din.blocks = @ + 1]
         ELSE Check([s EXCEPT !.ino = bmap_find(s, index)],
                    bmap_find(s, index) \in Blocks \ s.freemap, "block_inuse")
\* sfs_bmap_load_nolock: the block at index, which may be the first one behind
\* the end of the file.
bmap_load(s, index) ==
    IF index > s.din.blocks THEN Check(s, FALSE, "index")
    ELSE IF index = s.din.blocks
         THEN LET new == bmap_create(s, index)
              IN  IF new.ret # "ok" THEN new
                  ELSE [new EXCEPT !.din.blocks = @ + 1]
         ELSE Check([s EXCEPT !.ino = bmap_find(s, index)],
                    bmap_find(s, index) \in Blocks \ s.freemap, "block_inuse")

\* The loads of the blocks from first to last until one fails.
LoadAll(s, first, last) ==
    LET loaded[n \in 0 .. last - first + 1] ==
            IF n = 0 THEN s
            ELSE IF loaded[n - 1].ret # "ok" \/ loaded[n - 1].panic # "none"
                 THEN loaded[n - 1]
                 ELSE bmap_load(loaded[n - 1], first + n - 1)
    IN  loaded[last - first + 1]

\* sfs_bmap_truncate_nolock: drop the last block.
bmap_truncate(s) ==
    LET index == s.din.blocks - 1
        b == bmap_find(s, index)
        freed == IF b = 0 THEN s ELSE block_free(s, b)
        unmapped == IF index < NDirect
                    THEN [freed EXCEPT !.din.direct[index] = 0]
                    ELSE [freed EXCEPT !.entries[s.din.indirect][index - NDirect] = 0]
    IN  [(IF b = 0 THEN s ELSE unmapped) EXCEPT !.din.blocks = @ - 1,
                                                !.dirty = TRUE]

\* The last k blocks, one after the other.
TruncateAll(s, k) ==
    LET dropped[n \in 0 .. k] ==
            IF n = 0 THEN s ELSE bmap_truncate(dropped[n - 1])
    IN  dropped[k]

BlocksFor(len) == (len + BlkSize - 1) \div BlkSize

\* sfs_truncfile
truncfile(s, len) ==
    LET tblks == BlocksFor(len)
        resized == IF s.din.blocks < tblks
                   THEN LoadAll(s, s.din.blocks, tblks - 1)
                   ELSE TruncateAll(s, s.din.blocks - tblks)
    IN  IF s.din.size = len
        THEN Check(s, tblks = s.din.blocks, "same_size")
        ELSE IF resized.ret # "ok" THEN resized
        ELSE Check([resized EXCEPT !.din.size = len, !.dirty = TRUE],
                   resized.din.blocks = tblks, "truncated")

\* The bytes of [offset, endpos) that lie in blocks below b.
BytesBelow(b, offset, endpos) == Max({0, Min({endpos, b * BlkSize}) - offset})

io_unmarked(s, offset, len, write) ==
    LET limit == IF write THEN MaxFileSize ELSE s.din.size
        endpos == Min({offset + len, limit})
        first == offset \div BlkSize
        t == LoadAll(s, first, (endpos - 1) \div BlkSize)
        alen == IF t.ret = "ok" THEN endpos - offset
                ELSE BytesBelow(Max({first, t.din.blocks}), offset, endpos)
    IN  IF offset >= limit THEN [alen |-> 0, s |-> s]
        ELSE IF t.panic # "none" THEN [alen |-> 0, s |-> t]
        ELSE [alen |-> alen,
              s |-> IF offset + alen > t.din.size
                    THEN [t EXCEPT !.din.size = offset + alen]
                    ELSE t]
\* sfs_io_nolock: the blocks are loaded one by one; the first that cannot be
\* had ends the transfer, and the file reaches at least to where it ended.  A
\* read stops at the end of the file.
io(s, offset, len, write) ==
    LET limit == IF write THEN MaxFileSize ELSE s.din.size
        endpos == Min({offset + len, limit})
        first == offset \div BlkSize
        t == LoadAll(s, first, (endpos - 1) \div BlkSize)
        alen == IF t.ret = "ok" THEN endpos - offset
                ELSE BytesBelow(Max({first, t.din.blocks}), offset, endpos)
    IN  IF offset >= limit THEN [alen |-> 0, s |-> s]
        ELSE IF t.panic # "none" THEN [alen |-> 0, s |-> t]
        ELSE [alen |-> alen,
              s |-> IF offset + alen > t.din.size
                    THEN [t EXCEPT !.din.size = offset + alen, !.dirty = TRUE]
                    ELSE t]

-----------------------------------------------------------------------------
(* The system calls                                                        *)

\* The state after a call on f left s.
Finish(f, s) ==
    /\ freemap' = s.freemap /\ unused_blocks' = s.unused_blocks
    /\ entries' = s.entries
    /\ din' = [din EXCEPT ![f] = s.din]
    /\ dirty' = [dirty EXCEPT ![f] = s.dirty]
    /\ panic' = s.panic

IsOpen(d) == fd[d].file # NoFile
Running == panic = "none"

\* open: O_TRUNC and O_CREAT truncate, O_APPEND starts at the end.
Open(d, f) ==
    /\ Running /\ ~IsOpen(d)
    /\ \E trunc, append \in BOOLEAN :
          LET s == IF trunc THEN truncfile(Start(f), 0) ELSE Start(f) IN
          /\ Finish(f, s)
          /\ fd' = [fd EXCEPT ![d] = [file |-> f,
                       pos |-> IF append THEN s.din.size ELSE 0]]
    /\ UNCHANGED disk_din

\* file_read and file_write of at most IOBUF_SIZE, one block.
Transfer(d, write) ==
    /\ Running /\ IsOpen(d)
    /\ \E len \in 1 .. BlkSize :
          LET f == fd[d].file
              r == io(Start(f), fd[d].pos, len, write)
          IN  /\ Finish(f, r.s)
              /\ fd' = [fd EXCEPT ![d].pos = @ + r.alen]
    /\ UNCHANGED disk_din

Read(d) == Transfer(d, FALSE)
Write(d) == Transfer(d, TRUE)

\* file_seek to pos, whence it was computed: a seek past the end of the file
\* lengthens it (sfs_tryseek).
Seek(d) ==
    /\ Running /\ IsOpen(d)
    /\ \E pos \in 0 .. MaxFileSize - 1 :
          LET f == fd[d].file
              s == IF pos > din[f].size THEN truncfile(Start(f), pos)
                                        ELSE Start(f)
          IN  /\ Finish(f, s)
              /\ fd' = [fd EXCEPT ![d].pos = IF s.ret = "ok" THEN pos ELSE @]
    /\ UNCHANGED disk_din

\* sfs_fsync: a dirty inode is written to the disk.
Saved(f) == IF dirty[f] THEN din[f] ELSE disk_din[f]

Fsync(d) ==
    /\ Running /\ IsOpen(d)
    /\ disk_din' = [disk_din EXCEPT ![fd[d].file] = Saved(fd[d].file)]
    /\ dirty' = [dirty EXCEPT ![fd[d].file] = FALSE]
    /\ UNCHANGED <<freemap, unused_blocks, entries, din, fd, panic>>

\* close: the last one saves the inode (sfs_close) and drops it from memory
\* (sfs_reclaim), so the next open finds what is on the disk.
Close(d) ==
    /\ Running /\ IsOpen(d)
    /\ fd' = [fd EXCEPT ![d] = [file |-> NoFile, pos |-> 0]]
    /\ LET f == fd[d].file
           last == \A e \in Fds \ {d} : fd[e].file # f
       IN  /\ disk_din' = IF last THEN [disk_din EXCEPT ![f] = Saved(f)] ELSE disk_din
           /\ din' = IF last THEN [din EXCEPT ![f] = Saved(f)] ELSE din
           /\ dirty' = IF last THEN [dirty EXCEPT ![f] = FALSE] ELSE dirty
    /\ UNCHANGED <<freemap, unused_blocks, entries, panic>>

Next == \E d \in Fds : \/ \E f \in Files : Open(d, f)
                       \/ Write(d) \/ Read(d) \/ Seek(d)
                       \/ Fsync(d) \/ Close(d)

Spec == Init /\ [][Next]_vars

-----------------------------------------------------------------------------
(* Properties                                                              *)

\* Everything an inode refers to, as places: a place holds at most one block.
Places(f) == {<<f, "direct", i>> : i \in 0 .. NDirect - 1}
               \union {<<f, "entry", i>> : i \in 0 .. NEntry - 1}
               \union {<<f, "indirect", 0>>}
BlockAt(p) ==
    LET node == din[p[1]] IN
    IF p[2] = "direct" THEN node.direct[p[3]]
    ELSE IF p[2] = "indirect" THEN node.indirect
    ELSE IF node.indirect = 0 THEN 0 ELSE entries[node.indirect][p[3]]
Mapped == {p \in UNION {Places(f) : f \in Files} : BlockAt(p) # 0}

\* No block belongs to two files or to two places of one file, none of them is
\* marked free, and none that is marked used is out of reach, also after a
\* write or a seek that ran out of blocks half way (sfs_inode.c:152-317).
BlocksOwnedOnce ==
    /\ \A p, q \in Mapped : BlockAt(p) = BlockAt(q) => p = q
    /\ {BlockAt(p) : p \in Mapped} = Blocks \ freemap
    /\ unused_blocks = Cardinality(freemap)

\* Every block below the end of a file is there, so no read finds a hole, and
\* the size reaches at most into the block behind them, so no read is refused
\* by the assertion of sfs_inode.c:289.  It can reach there: a write at a
\* position left behind the end by another's O_TRUNC that finds the disk full
\* sets the size to that position with no block written (sfs_inode.c:521).
FileHasItsBlocks ==
    panic = "none" => \A f \in Files :
       /\ BlocksFor(din[f].size) <= din[f].blocks + 1
       /\ \A i \in 0 .. din[f].blocks - 1 : bmap_find(Start(f), i) # 0

\* No other assertion of the block map fails than two.  One is that of
\* sfs_inode.c:289: a position kept across another's O_TRUNC lies more than one
\* block behind the end, and the next write there stops the kernel.  The other
\* is that of sfs_inode.c:780: a seek past the end that meets a full disk keeps
\* the blocks it added and the old size (sfs_inode.c:790), and the next
\* truncation to that size finds them.
MapAsserts == panic \in {"none", "index", "same_size"}

\* Blocks, files and the assertions about them hold through every order of
\* calls, with the disk full at any point (sfs_inode.c:152-317, 474-526).
BlocksExact == BlocksOwnedOnce /\ FileHasItsBlocks /\ MapAsserts

\* What the last close of a file leaves on the disk has the size the file had,
\* and it owns every block the file had.
CloseSaves ==
    [][\A f \in Files :
         (\E d \in Fds : fd[d].file = f) /\ (\A d \in Fds : fd'[d].file # f)
         => /\ disk_din'[f].size = din[f].size
            /\ disk_din'[f].direct = din[f].direct
            /\ disk_din'[f].indirect = din[f].indirect]_vars
=============================================================================
