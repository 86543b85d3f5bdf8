----------------------------- MODULE PageSpec -----------------------------
(***************************************************************************)
(* What alloc_pages and free_pages of kern/mm/pmm.h promise: a run of      *)
(* consecutive pages that nobody else has, or NULL.  NULL is allowed only  *)
(* when no aligned run of the next power of two is free.                   *)
(***************************************************************************)
EXTENDS Integers

CONSTANTS NPages, MaxOrder

VARIABLES
    used,     \* the pages that are allocated
    result    \* what the last alloc_pages returned; NPages stands for NULL

Pages == 0 .. NPages - 1
PageRun(base, n) == base .. base + n - 1

Init == used = {} /\ result = NPages

Order(n) == CHOOSE o \in 0 .. MaxOrder :
               n <= 2 ^ o /\ \A k \in 0 .. o - 1 : n > 2 ^ k

AlignedRunFree(o) ==
    \E base \in Pages : /\ base % 2 ^ o = 0
                        /\ PageRun(base, 2 ^ o) \subseteq Pages \ used

AllocPages(n) ==
    \/ \E base \in Pages :
          /\ PageRun(base, n) \subseteq Pages \ used
          /\ used' = used \union PageRun(base, n)
          /\ result' = base
    \/ /\ ~AlignedRunFree(Order(n))
       /\ result' = NPages
       /\ UNCHANGED used

FreePages(base, n) ==
    /\ PageRun(base, n) \subseteq used
    /\ used' = used \ PageRun(base, n)
    /\ UNCHANGED result

Next == \/ \E n \in 1 .. 2 ^ MaxOrder : AllocPages(n)
        \/ \E base \in Pages, n \in 1 .. NPages : FreePages(base, n)

Spec == Init /\ [][Next]_<<used, result>>
=============================================================================
