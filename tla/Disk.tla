-------------------------------- MODULE Disk --------------------------------
(***************************************************************************)
(* Blocks of the disk: the RAM disk (kern/driver/ramdisk.c behind ide.c),  *)
(* the block device over it (kern/fs/devs/dev_disk0.c, with iobuf.c and    *)
(* dev.c) and the block operations of SFS (kern/fs/sfs/sfs_io.c).          *)
(*                                                                         *)
(* Data pass through two buffers that are never cleaned: disk0_buffer, for *)
(* every transfer, and sfs_buffer, for parts of blocks.  A call holds      *)
(* io_sem and disk0_sem while it uses them and sleeps on nothing else, so  *)
(* it is one step.  Memory is counted in sectors.                          *)
(***************************************************************************)
EXTENDS Integers, Sequences, FiniteSets, SequencesExt

CONSTANTS
    SECTS,      \* DISK0_BLK_NSECT, sectors of a block
    DiskSecs,   \* sectors of the RAM disk
    BufBlks,    \* blocks of disk0_buffer
    Blocks,     \* super.blocks, at most d_blocks (sfs_do_mount)
    Values      \* what a sector can hold, 0 among it

VARIABLES disk, disk0_buffer, sfs_buffer
diskvars == <<disk, disk0_buffer, sfs_buffer>>

Least(a, b) == IF a < b THEN a ELSE b
Data(n) == [1 .. n -> Values]
\* memcpy of n sectors of src, from the one after i, to dst after j
memcpy(dst, j, src, i, n) ==
    [k \in DOMAIN dst |-> IF k \in j + 1 .. j + n THEN src[k - j + i] ELSE dst[k]]
Zeros(n) == [k \in 1 .. n |-> 0]

Init ==
    /\ disk = Zeros(DiskSecs)
    /\ disk0_buffer = Zeros(BufBlks * SECTS)
    /\ sfs_buffer = Zeros(SECTS)

-----------------------------------------------------------------------------
(* The RAM disk and the block device                                       *)

\* What a call works on: the disk, the buffer, and the iobuf's memory, position
\* in it, offset on the disk and how much is left.
World(data, offset) ==
    [disk |-> disk, buffer |-> disk0_buffer, data |-> data, base |-> 0,
     offset |-> offset, resid |-> Len(data), ret |-> 0, asserted |-> FALSE]

ramdisk_read(w, secno, n) ==
    [w EXCEPT !.buffer = memcpy(@, 0, w.disk, secno, Least(n, DiskSecs - secno))]
ramdisk_write(w, secno, n) ==
    [w EXCEPT !.disk = memcpy(@, secno, w.buffer, 0, Least(n, DiskSecs - secno))]

Copied(w, len) == Least(w.resid, len)
iobuf_skip(w, n) == [w EXCEPT !.base = @ + n, !.offset = @ + n, !.resid = @ - n]
iobuf_move(w, len, m2b) ==
    iobuf_skip(IF m2b THEN [w EXCEPT !.data = memcpy(@, w.base, w.buffer, 0, Copied(w, len))]
                      ELSE [w EXCEPT !.buffer = memcpy(@, 0, w.data, w.base, Copied(w, len))],
               Copied(w, len))

d_blocks == DiskSecs \div SECTS

\* The loop of disk0_io, from block blkno on.
RECURSIVE disk0_blks(_, _, _)
disk0_blks(w, blkno, write) ==
    LET len == BufBlks * SECTS
        n == Copied(w, len)
        done == IF write
                THEN ramdisk_write(iobuf_move(w, len, FALSE), blkno * SECTS, n)
                ELSE iobuf_move(ramdisk_read(w, blkno * SECTS, n), n, TRUE)
    IN  IF w.resid = 0 THEN w
        ELSE disk0_blks([done EXCEPT !.asserted = @ \/ n % SECTS # 0],
                        blkno + n \div SECTS, write)

\* disk0_io (0, or -E_INVAL with nothing done)
disk0_io(w, write) ==
    IF \/ w.offset % SECTS # 0 \/ w.resid % SECTS # 0
       \/ (w.offset + w.resid) \div SECTS > d_blocks
    THEN [w EXCEPT !.ret = -1]
    ELSE disk0_blks(w, w.offset \div SECTS, write)

\* dev_tryseek
dev_tryseek(pos) == pos % SECTS = 0 /\ pos < d_blocks * SECTS

-----------------------------------------------------------------------------
(* Blocks of the file system                                               *)

\* sfs_rwblock_nolock on the world a call has come to: data is the block's memory.
sfs_rwblock_nolock(w, data, blkno, write, check) ==
    LET on == [w EXCEPT !.data = data, !.base = 0, !.offset = blkno * SECTS,
                        !.resid = SECTS]
    IN  [disk0_io(on, write) EXCEPT
            !.asserted = @ \/ (check /\ blkno = 0) \/ blkno >= Blocks]

\* sfs_rblock and sfs_wblock: the blocks of data one by one
RECURSIVE sfs_rwblock(_, _, _, _)
sfs_rwblock(w, data, blkno, write) ==
    LET io == sfs_rwblock_nolock(w, SubSeq(data, 1, SECTS), blkno, write, TRUE)
        rest == sfs_rwblock(io, SubSeq(data, SECTS + 1, Len(data)), blkno + 1, write)
    IN  IF data = <<>> THEN [w EXCEPT !.data = <<>>]
        ELSE IF io.ret # 0 THEN [io EXCEPT !.data = data]
        ELSE [rest EXCEPT !.data = io.data \o @]

Call(data) == World(data, 0)

\* sfs_rbuf: data is the caller's memory; sfs_buffer is what the world's data ends as
sfs_rbuf(data, blkno, offset) ==
    LET io == sfs_rwblock_nolock(Call(data), sfs_buffer, blkno, FALSE, TRUE)
    IN  [io |-> io, out |-> IF io.ret = 0 THEN memcpy(data, 0, io.data, offset, Len(data))
                                           ELSE data]

\* sfs_wbuf writes the part into what the buffer held.
sfs_wbuf_unread(data, blkno, offset) ==
    sfs_rwblock_nolock(Call(data), memcpy(sfs_buffer, offset, data, 0, Len(data)),
                       blkno, TRUE, TRUE)
sfs_wbuf(data, blkno, offset) ==
    LET io == sfs_rwblock_nolock(Call(data), sfs_buffer, blkno, FALSE, TRUE)
    IN  IF io.ret # 0 THEN io
        ELSE sfs_rwblock_nolock(io, memcpy(io.data, offset, data, 0, Len(data)),
                                blkno, TRUE, TRUE)

sfs_sync_super(super) ==
    sfs_rwblock_nolock(Call(super), memcpy(Zeros(SECTS), 0, super, 0, Len(super)),
                       0, TRUE, FALSE)

\* One block, as every caller asks for.
sfs_clear_block(blkno) == sfs_rwblock_nolock(Call(<<>>), Zeros(SECTS), blkno, TRUE, TRUE)

-----------------------------------------------------------------------------
(* Calls                                                                   *)

\* What the callers ask for: blocks of the file system, parts inside a block.
Reads == {r \in (1 .. Blocks - 1) \X (1 .. Blocks - 1) : r[1] + r[2] <= Blocks}
Parts == {p \in (1 .. Blocks - 1) \X (0 .. SECTS - 1) \X (1 .. SECTS) :
             p[2] + p[3] <= SECTS}
\* A program that opened disk0: seeks and then transfers any length.
Transfers == {t \in (0 .. d_blocks * SECTS) \X (0 .. DiskSecs) : dev_tryseek(t[1])}

Took(w) == disk' = w.disk /\ disk0_buffer' = w.buffer
Staged(w) == Took(w) /\ sfs_buffer' = w.data

Rblock == \E r \in Reads :
    /\ Took(sfs_rwblock(Call(<<>>), Zeros(r[2] * SECTS), r[1], FALSE))
    /\ UNCHANGED sfs_buffer
Wblock == \E r \in Reads : \E d \in Data(r[2] * SECTS) :
    /\ Took(sfs_rwblock(Call(<<>>), d, r[1], TRUE))
    /\ UNCHANGED sfs_buffer
Rbuf == \E p \in Parts : Staged(sfs_rbuf(Zeros(p[3]), p[1], p[2]).io)
Wbuf == \E p \in Parts : \E d \in Data(p[3]) : Staged(sfs_wbuf(d, p[1], p[2]))
SyncSuper == \E d \in Data(1) : Staged(sfs_sync_super(d))
ClearBlock == \E b \in 1 .. Blocks - 1 : Staged(sfs_clear_block(b))
DevRead == \E t \in Transfers :
    /\ Took(disk0_io(World(Zeros(t[2]), t[1]), FALSE))
    /\ UNCHANGED sfs_buffer
DevWrite == \E t \in Transfers : \E d \in Data(t[2]) :
    /\ Took(disk0_io(World(d, t[1]), TRUE))
    /\ UNCHANGED sfs_buffer

Next == Rblock \/ Wblock \/ Rbuf \/ Wbuf \/ SyncSuper \/ ClearBlock \/ DevRead \/ DevWrite
Spec == Init /\ [][Next]_diskvars

-----------------------------------------------------------------------------
(* Properties                                                              *)

Content(at, n) == SubSeq(disk, at + 1, at + n)
Stored(at, d) == memcpy(disk, at, d, 0, Len(d))

\* Whatever the buffers hold from earlier calls, a read returns exactly what is
\* on the disk, a write changes exactly the sectors it names, a transfer that is
\* not of whole blocks of the disk changes nothing, and no assertion fails
\* (sfs_io.c:9-106, dev_disk0.c:61-104).
BlocksAreKept ==
    /\ \A r \in Reads :
          sfs_rwblock(Call(<<>>), Zeros(r[2] * SECTS), r[1], FALSE).data
              = Content(r[1] * SECTS, r[2] * SECTS)
    /\ \A r \in Reads : \A d \in Data(r[2] * SECTS) :
          sfs_rwblock(Call(<<>>), d, r[1], TRUE).disk = Stored(r[1] * SECTS, d)
    /\ \A p \in Parts :
          LET io == sfs_rbuf(Zeros(p[3]), p[1], p[2])
          IN  ~io.io.asserted /\ io.out = Content(p[1] * SECTS + p[2], p[3])
    /\ \A p \in Parts : \A d \in Data(p[3]) :
          LET io == sfs_wbuf(d, p[1], p[2])
          IN  ~io.asserted /\ io.disk = Stored(p[1] * SECTS + p[2], d)
    /\ \A t \in Transfers :
          LET d == [i \in 1 .. t[2] |-> i % 2]
              fits == t[2] % SECTS = 0 /\ t[1] + t[2] <= d_blocks * SECTS
              in == disk0_io(World(Zeros(t[2]), t[1]), FALSE)
              out == disk0_io(World(d, t[1]), TRUE)
          IN  /\ ~in.asserted /\ ~out.asserted
              /\ in.data = IF fits THEN Content(t[1], t[2]) ELSE Zeros(t[2])
              /\ out.disk = IF fits THEN Stored(t[1], d) ELSE disk

=============================================================================
