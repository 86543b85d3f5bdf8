------------------------------- MODULE MCLib -------------------------------
(* What works on its own data and calls nothing else that is modelled: the *)
(* three allocators of memory, the image tool with the mount, the tree of  *)
(* rb_tree.c, the blocks of the disk and the shell.  A behaviour exercises *)
(* one of them.                                                            *)
EXTENDS Mksfs, Slab

CONSTANTS
    NPages, MaxOrder,                          \* of the buddy allocator
    FFPages,                                   \* NPages of the first-fit one
    Nodes, KeyOf,                              \* of the tree
    SECTS, DiskSecs, BufBlks, Blocks, Values,  \* of the disk
    Keys, MaxKeys, LineMax, MaxArgs, Cd        \* of the shell

VARIABLES
    part,
    mem, held, result,
    ff, ffblocks, ffresult,
    tree, created, blocks,
    disk, disk0_buffer, sfs_buffer,
    input, line, ps, ran

B == INSTANCE Buddy
F == INSTANCE DefaultPmm WITH NPages <- FFPages, blocks <- ffblocks,
                              result <- ffresult
R == INSTANCE RbTree
D == INSTANCE Disk
S == INSTANCE Shell

buddyvars == <<mem, held, result>>
ffvars == <<ff, ffblocks, ffresult>>
treevars == <<tree, created, blocks>>
diskvars == <<disk, disk0_buffer, sfs_buffer>>
shvars == <<input, line, ps, ran>>
libvars == <<part, buddyvars, ffvars, slabvars, mksvars, treevars, diskvars,
             shvars>>

LibInit ==
    /\ part \in {"buddy", "firstfit", "slab", "image", "tree", "disk", "shell"}
    /\ B!Init /\ F!Init /\ Init /\ InitMks /\ R!Init /\ D!Init /\ S!Init
    /\ part # "shell" => input = <<>>

\* The part that is exercised takes a step and the others none.
LibNext ==
    /\ UNCHANGED part
    /\ IF part = "buddy" THEN B!Next ELSE UNCHANGED buddyvars
    /\ IF part = "firstfit" THEN F!Next ELSE UNCHANGED ffvars
    /\ IF part = "slab" THEN Next ELSE UNCHANGED slabvars
    /\ IF part = "image" THEN NextMks ELSE UNCHANGED mksvars
    /\ IF part = "tree" THEN R!Next ELSE UNCHANGED treevars
    /\ IF part = "disk" THEN D!Next ELSE UNCHANGED diskvars
    /\ IF part = "shell" THEN S!Next ELSE UNCHANGED shvars

LibSpec == LibInit /\ [][LibNext]_libvars

-----------------------------------------------------------------------------
(* Instances                                                               *)

MCHostSize == <<0, 3, 9>>
MCKeyOf == <<1, 2, 2, 3, 4, 4, 5, 6>>
MCCd == <<"a", "a">>

-----------------------------------------------------------------------------
(* Properties                                                              *)

\* Buddy: lists, flags and counters tell exactly what is free, no two buddies
\* lie free side by side, and no assertion fails (buddy_pmm.c:120-217).  First
\* fit: the lengths noted in the list are those of the maximal free runs
\* (default_pmm.c:85-162).
FreePagesExact ==
    /\ part = "buddy" => B!FreeListsExact /\ B!NothingUnmerged /\ B!NoAssertFails
    /\ part = "firstfit" => F!FirstFitExact

\* Both page allocators implement PageSpec: they hand out runs nobody has, and
\* NULL only when no aligned run of the rounded size is free.  Every step of an
\* allocator is one of PageSpec, and the other parts leave its variables alone
\* (buddy_pmm.c:91-217, default_pmm.c:85-162).
PagesRefined ==
    /\ B!PageInit /\ F!PageInit
    /\ [][/\ part = "buddy" => B!PageStep
          /\ part = "firstfit" => F!PageStep]_libvars

\* The heap: every slab is on the list its use calls for with its free objects
\* chained exactly once, and no two objects handed out, nor an object and a
\* slab's own data, overlap (kmalloc.c:324-490, 492-656).
HeapExact == part = "slab" => SlabExact /\ ObjectsDisjoint

\* The tree stays a red-black tree that holds exactly what was inserted
\* (rb_tree.c:112-171, 245-327).
TreeSound == part = "tree" => R!RedBlack /\ R!TreeIsDictionary

\* Blocks of the disk keep what was written (sfs_io.c:9-106,
\* dev_disk0.c:61-104).
DiskSound == part = "disk" => D!BlocksAreKept

\* The shell runs the commands of a line, in their order (sh.c:117-215).
ShellSound == part = "shell" => S!RunsTheLine
=============================================================================
