-------------------------------- MODULE Mksfs --------------------------------
(***************************************************************************)
(* The image of the root file system: tools/mksfs.c walks a directory of   *)
(* the build host and writes the image that the kernel then mounts         *)
(* (kern/fs/sfs/sfs_fs.c) and reads (sfs_inode.c).                         *)
(*                                                                         *)
(* The walk meets the entries of a directory one by one, so the host's     *)
(* tree is chosen as the walk goes: a regular file, maybe met before under *)
(* another name, a symbolic link, a directory, or the end of the present   *)
(* one.  Names are left out.  What is skipped (dot files, devices) changes *)
(* nothing.                                                                *)
(***************************************************************************)
EXTENDS Integers, Sequences, FiniteSets, FiniteSetsExt, SequencesExt, TLC,
        Bitmap

CONSTANTS
    NInos,      \* blocks of the image
    NDirect,    \* SFS_NDIRECT
    NEntry,     \* SFS_BLK_NENTRY
    MaxBlks,    \* SFS_LN_NBLKS, at most what two levels of indexes hold
    BlkBits,    \* SFS_BLKBITS, a multiple of WordBits
    BlkSize,    \* SFS_BLKSIZE
    EntrySize,  \* sizeof(entry->name)
    Reals,      \* inode numbers of the regular files of the host
    HostSize    \* how many bytes each of them has

VARIABLES
    sfs,      \* mksfs's struct sfs_fs, see create_sfs
    stack,    \* the directories being walked, the innermost last
    phase,    \* what goes on: "walk", "failed", "closed", "mounted", "panic"
    fs,       \* the kernel's struct sfs_fs: freemap, unused and taken blocks
    kblocks   \* what sfs_do_mount has from kmalloc

mksvars == <<sfs, stack, phase, fs, kblocks>>

SFS_BLKN_SUPER == 0
SFS_BLKN_ROOT == 1
SFS_BLKN_FREEMAP == 2
MapBlocks(n) == (n + BlkBits - 1) \div BlkBits

-----------------------------------------------------------------------------
(* Building                                                                *)

NewInode(type) == [type |-> type, nlinks |-> 0, size |-> 0, blocks |-> 0,
                   direct |-> [i \in 0 .. NDirect - 1 |-> 0],
                   indirect |-> 0, db_indirect |-> 0,
                   l1 |-> 0, l2 |-> 0]    \* the cached blocks, by number
Zeroes == [i \in 0 .. NEntry - 1 |-> 0]

\* create_sfs; ok turns FALSE at "bug", asserted at a failed assertion.
create_sfs ==
    LET next == SFS_BLKN_FREEMAP + MapBlocks(NInos)
    IN  [next_ino |-> next, unused |-> NInos - next,
         inode |-> (SFS_BLKN_ROOT :> NewInode("dir")),
         index |-> <<>>,    \* the cached index blocks
         data |-> <<>>,     \* what write_block wrote
         real |-> <<>>,     \* the host's number -> our inode
         map |-> <<>>,      \* the freemap of close_sfs
         ok |-> next < NInos, asserted |-> FALSE]

sfs_alloc_ino(s) ==
    IF s.next_ino < NInos
    THEN [s EXCEPT !.next_ino = @ + 1, !.unused = @ - 1]
    ELSE [s EXCEPT !.ok = FALSE]

\* update_cache: have the index block that ino names, a new one if it is 0.
\* The search for one that is not at hand finds nothing, since
\* alloc_cache_block hashes the 0 it was called with; it must never be made.
update_cache(s, cached, ino) ==
    IF ino # 0
    THEN [s |-> IF cached = ino THEN s ELSE [s EXCEPT !.asserted = TRUE],
          ino |-> ino]
    ELSE LET t == sfs_alloc_ino(s)
         IN  [s |-> IF t.ok THEN [t EXCEPT !.index = (s.next_ino :> Zeroes) @@ @]
                            ELSE t,
              ino |-> s.next_ino]

\* append_block: block ino becomes the next block of file f.
append_block(s, f, size, ino) ==
    LET d == s.inode[f]
        n == d.blocks
        m == n - NDirect - NEntry
        one == update_cache(s, d.l1, d.indirect)
        two == update_cache(s, d.l2, d.db_indirect)
        sub == update_cache(two.s, d.l1, two.s.index[two.ino][m \div NEntry])
        grown(t) == [t EXCEPT !.inode[f].blocks = @ + 1, !.inode[f].size = @ + size]
    IN  IF n >= MaxBlks THEN [s EXCEPT !.ok = FALSE]
        ELSE IF n < NDirect THEN grown([s EXCEPT !.inode[f].direct[n] = ino])
        ELSE IF m < 0
        THEN IF ~one.s.ok THEN one.s
             ELSE grown([one.s EXCEPT !.index[one.ino][n - NDirect] = ino,
                                      !.inode[f].indirect = one.ino,
                                      !.inode[f].l1 = one.ino])
        ELSE IF ~two.s.ok THEN two.s ELSE IF ~sub.s.ok THEN sub.s
        ELSE grown([sub.s EXCEPT !.index[two.ino][m \div NEntry] = sub.ino,
                                 !.index[sub.ino][m % NEntry] = ino,
                                 !.inode[f].db_indirect = two.ino,
                                 !.inode[f].l2 = two.ino, !.inode[f].l1 = sub.ino])

\* sfs_alloc_ino, write_block and append_block, as add_entry, open_file and
\* open_link do for one block.
add_block(s, f, size, what) ==
    LET t == sfs_alloc_ino(s)
    IN  IF ~t.ok THEN t
        ELSE append_block([t EXCEPT !.data = (s.next_ino :> what) @@ @], f, size,
                          s.next_ino)

add_entry_unlinked(s, dir, file) ==
    add_block(s, dir, EntrySize, [kind |-> "entry", ino |-> file, n |-> 0])
add_entry(s, dir, file) ==
    LET t == add_entry_unlinked(s, dir, file)
    IN  IF t.ok THEN [t EXCEPT !.inode[file].nlinks = @ + 1] ELSE t

\* alloc_cache_inode with a new number
alloc_cache_inode(s, type) ==
    LET t == sfs_alloc_ino(s)
    IN  IF t.ok THEN [t EXCEPT !.inode = (s.next_ino :> NewInode(type)) @@ @] ELSE t

\* open_file: block after block until the host's read returns 0.
RECURSIVE open_file(_, _, _, _, _)
open_file(s, f, real, n, left) ==
    IF left = 0 \/ ~s.ok THEN s
    ELSE LET ret == Min({left, BlkSize})
         IN  open_file(add_block(s, f, ret, [kind |-> "data", ino |-> real, n |-> n]),
                       f, real, n + 1, left - ret)

\* add_file: a file already known by its number of the host gets one more name.
add_file(s, dir, real) ==
    LET f == s.next_ino
        new == alloc_cache_inode(s, "file")
        full == open_file([new EXCEPT !.real = (real :> f) @@ @], f, real, 0,
                          HostSize[real])
    IN  IF real \in DOMAIN s.real THEN add_entry(s, dir, s.real[real])
        ELSE IF new.ok /\ full.ok THEN add_entry(full, dir, f)
        ELSE [new EXCEPT !.ok = FALSE]

\* add_link and open_link
add_link(s, dir) ==
    LET new == alloc_cache_inode(s, "link")
        full == add_block(new, s.next_ino, 1, [kind |-> "link", ino |-> 0, n |-> 0])
    IN  IF new.ok /\ full.ok THEN add_entry(full, dir, s.next_ino)
        ELSE [new EXCEPT !.ok = FALSE]

\* The begin of add_dir and open_dir: the directory with "." and ".."
begin_dir(s, dir) ==
    LET new == alloc_cache_inode(s, "dir")
        dot == add_entry(new, s.next_ino, s.next_ino)
        dotdot == add_entry(dot, s.next_ino, dir)
    IN  IF new.ok /\ dot.ok THEN dotdot ELSE [new EXCEPT !.ok = FALSE]

\* close_sfs: the bits of the blocks not used, up to the size of the image.
map_bits_to_end(s, k) ==
    {j \in 0 .. BlkBits - 1 : k * BlkBits + j >= s.next_ino}
map_bits(s, k) ==
    {j \in 0 .. BlkBits - 1 : k * BlkBits + j >= s.next_ino
                              /\ k * BlkBits + j < NInos}
close_sfs(s) == [s EXCEPT !.map = [k \in 0 .. MapBlocks(NInos) - 1 |-> map_bits(s, k)]]

-----------------------------------------------------------------------------
(* The walk, one host entry at a time                                      *)

Top == stack[Len(stack)]
Go(s, st, ph) ==
    /\ sfs' = s
    /\ stack' = IF s.ok THEN st ELSE stack
    /\ phase' = IF s.ok THEN ph ELSE "failed"      \* bug exits
    /\ UNCHANGED <<fs, kblocks>>

InitMks ==
    LET s == create_sfs
        dot == add_entry(s, SFS_BLKN_ROOT, SFS_BLKN_ROOT)
        dotdot == add_entry(dot, SFS_BLKN_ROOT, SFS_BLKN_ROOT)
    IN  /\ sfs = dotdot
        /\ stack = <<SFS_BLKN_ROOT>>
        /\ phase = IF s.ok /\ dot.ok /\ dotdot.ok THEN "walk" ELSE "failed"
        /\ fs = <<>> /\ kblocks = {}

MeetFile(real) ==
    /\ phase = "walk"
    /\ Go(add_file(sfs, Top, real), stack, "walk")
MeetLink == phase = "walk" /\ Go(add_link(sfs, Top), stack, "walk")
MeetDir == /\ phase = "walk"
           /\ Go(begin_dir(sfs, Top), Append(stack, sfs.next_ino), "walk")

\* The end of open_dir; back in add_dir the parent gets its entry, back in
\* create_img the image is closed.
EndDir ==
    /\ phase = "walk"
    /\ IF Len(stack) > 1
       THEN Go(add_entry(sfs, stack[Len(stack) - 1], Top), Front(stack), "walk")
       ELSE Go(close_sfs(sfs), stack, "closed")

-----------------------------------------------------------------------------
(* The kernel mounts the image and uses blocks of it                       *)

\* What is left of sfs_do_mount's allocations when the one after got fails:
\* the labels at its end free all of them, bitmap_create its own.
MountKeeps(got) == IF got = 5 THEN {"fs", "buffer", "hash", "bitmap", "map"} ELSE {}

sfs_do_mount(got) ==
    LET nbits == MapBlocks(NInos) * BlkBits
        b0 == bitmap_create(nbits)
        b == [b0 EXCEPT !.map = [ix \in DOMAIN @ |->      \* sfs_init_freemap
                {o \in 0 .. WordBits - 1 :
                   (ix * WordBits + o) % BlkBits
                      \in sfs.map[(ix * WordBits + o) \div BlkBits]}]]
        ones == {i \in 0 .. nbits - 1 : bitmap_test(b, i)}
    IN  /\ phase = "closed"
        /\ kblocks' = MountKeeps(got)
        /\ IF got < 5 THEN UNCHANGED <<phase, fs>>
           ELSE /\ phase' = IF /\ b.nwords * WordBits = MapBlocks(NInos) * BlkBits
                               /\ Cardinality(ones) = sfs.unused
                            THEN "mounted" ELSE "panic"
                /\ fs' = [freemap |-> b, unused |-> sfs.unused, taken |-> {}]
        /\ UNCHANGED <<sfs, stack>>

\* sfs_block_alloc and sfs_block_inuse
sfs_block_alloc ==
    LET i == bitmap_first(fs.freemap)
    IN  /\ phase = "mounted" /\ i # -1
        /\ phase' = IF fs.unused > 0 /\ i # 0 /\ i < NInos THEN "mounted" ELSE "panic"
        /\ fs' = [freemap |-> bitmap_clear(fs.freemap, i), unused |-> fs.unused - 1,
                  taken |-> fs.taken \union {i}]
        /\ UNCHANGED <<sfs, stack, kblocks>>

sfs_block_free(i) ==
    /\ phase = "mounted" /\ i \in fs.taken
    /\ phase' = IF i < NInos /\ InRange(fs.freemap, i) /\ ~bitmap_test(fs.freemap, i)
                THEN "mounted" ELSE "panic"
    /\ fs' = [freemap |-> bitmap_free(fs.freemap, i), unused |-> fs.unused + 1,
              taken |-> fs.taken \ {i}]
    /\ UNCHANGED <<sfs, stack, kblocks>>

NextMks ==
    \/ \E real \in Reals : MeetFile(real)
    \/ MeetLink \/ MeetDir \/ EndDir
    \/ \E got \in 0 .. 5 : sfs_do_mount(got)
    \/ sfs_block_alloc
    \/ \E i \in 0 .. NInos : sfs_block_free(i)

SpecMks == InitMks /\ [][NextMks]_mksvars

-----------------------------------------------------------------------------
(* Properties                                                              *)

Inodes == DOMAIN sfs.inode
NonZero(S) == S \ {0}

\* The blocks the indexes of inode f name, index blocks included.
DirectOf(f) == NonZero({sfs.inode[f].direct[i] : i \in 0 .. NDirect - 1})
Entries(b) == IF b = 0 THEN {} ELSE NonZero({sfs.index[b][i] : i \in 0 .. NEntry - 1})
IndexOf(f) == LET d == sfs.inode[f]
              IN  NonZero({d.indirect, d.db_indirect}) \union Entries(d.db_indirect)
DataOf(f) == LET d == sfs.inode[f]
             IN  DirectOf(f) \union Entries(d.indirect)
                 \union UNION {Entries(b) : b \in Entries(d.db_indirect)}

\* How the kernel finds block i of f (sfs_bmap_get_nolock); it knows no double
\* indirect blocks.
KernelReads(f, i) ==
    LET d == sfs.inode[f]
    IN  IF i < NDirect THEN d.direct[i] ELSE sfs.index[d.indirect][i - NDirect]
Readable(f) == 0 .. Min({sfs.inode[f].blocks, NDirect + NEntry}) - 1

Finished == phase \in {"closed", "mounted", "panic"}

\* A finished image accounts for every block once: below next_ino each block is
\* the superblock, the freemap, one inode or one block of one file, and the
\* bits of the freemap and the count of the superblock tell of just the rest,
\* so that mounting never fails an assertion and what the kernel allocates
\* later is never a block of the image (mksfs.c:173-180, 312-349,
\* sfs_fs.c:165-182).
ImageAccounts ==
    /\ ~sfs.asserted /\ phase # "panic"
    /\ Finished =>
         /\ SFS_BLKN_FREEMAP + MapBlocks(NInos) .. sfs.next_ino - 1
              = (Inodes \ {SFS_BLKN_ROOT})
                 \union UNION {DataOf(f) \union IndexOf(f) : f \in Inodes}
         /\ \A f, g \in Inodes :
              /\ f # g => (DataOf(f) \union IndexOf(f))
                             \intersect (DataOf(g) \union IndexOf(g)) = {}
              /\ (DataOf(f) \union IndexOf(f)) \intersect Inodes = {}
         /\ \A f \in Inodes : Cardinality(DataOf(f)) = sfs.inode[f].blocks
    /\ phase = "mounted" =>
         /\ fs.taken \subseteq sfs.next_ino .. NInos - 1
         /\ fs.unused = NInos - sfs.next_ino - Cardinality(fs.taken)
    /\ kblocks \in {{}, {"fs", "buffer", "hash", "bitmap", "map"}}

\* What the kernel reads is what the host had: a file's blocks in their order
\* and its size, two entries "." and ".." first in each directory, and as many
\* links as there are entries of an inode (mksfs.c:397-437, 466-530,
\* sfs_inode.c:134).
ReadsBack ==
    Finished =>
      /\ \A r \in DOMAIN sfs.real : LET f == sfs.real[r] IN
           /\ \A i \in Readable(f) :
                sfs.data[KernelReads(f, i)] = [kind |-> "data", ino |-> r, n |-> i]
           /\ sfs.inode[f].size = HostSize[r]
           /\ sfs.inode[f].blocks = (HostSize[r] + BlkSize - 1) \div BlkSize
      /\ \A f \in Inodes : sfs.inode[f].type = "dir" =>
           /\ \A i \in Readable(f) : sfs.data[KernelReads(f, i)].kind = "entry"
           /\ sfs.data[KernelReads(f, 0)].ino = f
           /\ sfs.inode[sfs.data[KernelReads(f, 1)].ino].type = "dir"
      /\ \A f \in Inodes :
           /\ sfs.inode[f].nlinks # 0
           /\ sfs.inode[f].nlinks =
                Cardinality({b \in DOMAIN sfs.data :
                               sfs.data[b].kind = "entry" /\ sfs.data[b].ino = f})
=============================================================================
