------------------------------- MODULE Buddy -------------------------------
(***************************************************************************)
(* The buddy allocator of physical pages: kern/mm/buddy_pmm.c, called with *)
(* interrupts off by alloc_pages and free_pages of kern/mm/pmm.c.  There   *)
(* is one zone; a page is its index in it (page2idx).                      *)
(***************************************************************************)
EXTENDS Integers, Sequences, FiniteSets, FiniteSetsExt, SequencesExt

CONSTANTS
    NPages,     \* the pages of the zone
    MaxOrder    \* MAX_ORDER

VARIABLES
    mem,      \* the allocator's state, see Init
    held,     \* the pages the rest of the kernel has
    result    \* what the last alloc_pages returned; NPages stands for NULL

vars == <<mem, held, result>>

Pages == 0 .. NPages - 1
Orders == 0 .. MaxOrder
PageRun(base, n) == base .. base + n - 1

\* buddy_init_memmap: as many blocks of the largest order as fit, then one of
\* each order the rest needs; list_add puts the last one first.
FirstBlocks(o) ==
    IF o = MaxOrder
    THEN LET n == NPages \div 2 ^ o IN [i \in 1 .. n |-> (n - i) * 2 ^ o]
    ELSE IF (NPages \div 2 ^ o) % 2 = 1
         THEN <<(NPages \div 2 ^ (o + 1)) * 2 ^ (o + 1)>>
         ELSE <<>>

Init ==
    /\ mem = [free_list |-> [o \in Orders |-> FirstBlocks(o)],
              nr_free |-> [o \in Orders |-> Len(FirstBlocks(o))],
              \* the pages with PG_property set
              PageProperty |-> UNION {ToSet(FirstBlocks(o)) : o \in Orders},
              \* page->property, which stays when the flag is cleared
              property |-> [p \in Pages |->
                 Max({0} \union {o \in Orders : p \in ToSet(FirstBlocks(o))})],
              asserts |-> TRUE]
    /\ held = {}
    /\ result = NPages

getorder(n) == Min({o \in Orders : n <= 2 ^ o})

-----------------------------------------------------------------------------
(* Freeing                                                                 *)

\* The block of order o that idx lies in, and the other half of its parent:
\* page_idx ^ (1 << order).
Base(idx, o) == idx - (idx % 2 ^ o)
NextBlock(idx, o) == Base(idx, o) + 2 ^ o
BuddyOf(idx, o) == IF (idx \div 2 ^ o) % 2 = 0 THEN Base(idx, o) + 2 ^ o
                                               ELSE Base(idx, o) - 2 ^ o

page_has_order(m, page, o) == page < NPages /\ m.property[page] = o
page_is_buddy(m, page, o) ==
    page < NPages /\ page \in m.PageProperty /\ m.property[page] = o

\* buddy_free_pages_sub: free the block of the given order at base, merging it
\* with its buddy as often as that is free too.
free_pages_sub(m, base, order) ==
    LET top == Max({k \in order .. MaxOrder :
                      \A j \in order .. k - 1 :
                         page_is_buddy(m, BuddyOf(base, j), j)})
        page == Base(base, top)
        merged == order .. top - 1
        unlinked == [o \in Orders |->
                       IF o \in merged
                       THEN SelectSeq(m.free_list[o],
                                      LAMBDA p : p # BuddyOf(base, o))
                       ELSE m.free_list[o]]
    IN  [free_list |-> [unlinked EXCEPT ![top] = <<page>> \o @],
         nr_free   |-> [o \in Orders |->
                          m.nr_free[o] + (IF o = top THEN 1 ELSE 0)
                                       - (IF o \in merged THEN 1 ELSE 0)],
         PageProperty |->
             (m.PageProperty \ {BuddyOf(base, j) : j \in merged}) \union {page},
         property  |-> [m.property EXCEPT ![page] = top],
         asserts   |-> /\ m.asserts
                       /\ base % 2 ^ order = 0
                       /\ PageRun(base, 2 ^ order) \intersect m.PageProperty = {}]

\* The second loop of buddy_free_pages: ever smaller blocks from an aligned
\* base on.
RECURSIVE FreeDown(_, _, _, _)
FreeDown(m, base, n, order) ==
    IF n = 0 THEN m
    ELSE LET o == Max({k \in 0 .. order : n >= 2 ^ k})
         IN  FreeDown(free_pages_sub(m, base, o), base + 2 ^ o, n - 2 ^ o, o)

\* Its first loop: ever larger blocks until the base is aligned for the rest.
RECURSIVE FreeUp(_, _, _, _)
FreeUp(m, base, n, order) ==
    IF n < 2 ^ order THEN FreeDown(m, base, n, order)
    ELSE LET ok == [m EXCEPT !.asserts = @ /\ order <= MaxOrder]
         IN  IF (base \div 2 ^ order) % 2 = 1
             THEN FreeUp(free_pages_sub(ok, base, order), base + 2 ^ order,
                         n - 2 ^ order, order + 1)
             ELSE FreeUp(ok, base, n, order + 1)

\* buddy_free_pages
free_pages(m, base, n) ==
    IF n = 1 THEN free_pages_sub(m, base, 0) ELSE FreeUp(m, base, n, 0)

-----------------------------------------------------------------------------
(* Allocating                                                              *)

\* The orders whose list can serve a request of the given order.
Serving(order) == {o \in order .. MaxOrder : mem.free_list[o] # <<>>}

\* nr_free after a block of order cur was split down to the given order.
TakenCounts(order, cur) ==
    [o \in Orders |-> mem.nr_free[o] + (IF o \in order .. cur - 1 THEN 1 ELSE 0)
                                     - (IF o = cur THEN 1 ELSE 0)]

\* buddy_alloc_pages_sub when a list of order cur serves the request: its first
\* block is split, the upper halves are freed.
alloc_pages_sub(order, cur) ==
    LET page == Head(mem.free_list[cur])
        split == order .. cur - 1
    IN  [mem EXCEPT !.free_list = [o \in Orders |->
                       IF o = cur THEN Tail(mem.free_list[o])
                       ELSE IF o \in split
                            THEN <<page + 2 ^ o>> \o mem.free_list[o]
                            ELSE mem.free_list[o]],
                    !.nr_free = TakenCounts(order, cur),
                    !.PageProperty = (@ \ {page}) \union
                                        {page + 2 ^ o : o \in split},
                    !.property =
                       [p \in Pages |->
                           IF \E o \in split : p = page + 2 ^ o
                           THEN CHOOSE o \in split : p = page + 2 ^ o
                           ELSE mem.property[p]]]

\* buddy_alloc_pages: what the block has more than n pages is freed again.
AllocPages(n) ==
    LET order == getorder(n) IN
    \/ /\ Serving(order) # {}
       /\ LET cur == Min(Serving(order))
              page == Head(mem.free_list[cur])
              taken == alloc_pages_sub(order, cur)
          IN  /\ mem' = IF n # 2 ^ order
                        THEN free_pages(taken, page + n, 2 ^ order - n)
                        ELSE taken
              /\ held' = held \union PageRun(page, n)
              /\ result' = page
    \/ /\ Serving(order) = {}
       /\ result' = NPages
       /\ UNCHANGED <<mem, held>>

\* Callers give back what they have, whole or in parts as buddy_check does, and
\* never more at once than one alloc_pages can have given.
FreePages(base, n) ==
    /\ PageRun(base, n) \subseteq held
    /\ mem' = free_pages(mem, base, n)
    /\ held' = held \ PageRun(base, n)
    /\ UNCHANGED result

Next == \/ \E n \in 1 .. 2 ^ MaxOrder : AllocPages(n)
        \/ \E base \in Pages : \E n \in 1 .. 2 ^ MaxOrder : FreePages(base, n)

Spec == Init /\ [][Next]_vars

-----------------------------------------------------------------------------
(* Properties                                                              *)

\* The free blocks, as pairs of first page and order.
FreeBlocks == UNION {{<<p, o>> : p \in ToSet(mem.free_list[o])} : o \in Orders}
BlockPages(b) == PageRun(b[1], 2 ^ b[2])

\* The free lists, the flags, the orders noted in the pages and the counters
\* agree, the blocks are aligned and disjoint, and together with what callers
\* hold they are all of memory: what buddy_check asserts at boot, in every
\* state (buddy_pmm.c:230-312).
FreeListsExact ==
    /\ \A o \in Orders : /\ IsInjective(mem.free_list[o])
                         /\ mem.nr_free[o] = Len(mem.free_list[o])
    /\ mem.PageProperty = {b[1] : b \in FreeBlocks}
    /\ \A b \in FreeBlocks : mem.property[b[1]] = b[2] /\ b[1] % 2 ^ b[2] = 0
    /\ \A b, c \in FreeBlocks :
          b # c => BlockPages(b) \intersect BlockPages(c) = {}
    /\ UNION {BlockPages(b) : b \in FreeBlocks} = Pages \ held

\* No two buddies are free side by side: freeing merges as far as possible,
\* whatever the order in which blocks come back (buddy_pmm.c:169-180).
NothingUnmerged ==
    \A b, c \in FreeBlocks :
       /\ b[2] = c[2] /\ b[2] < MaxOrder
       /\ b[1] \div 2 ^ (b[2] + 1) = c[1] \div 2 ^ (b[2] + 1)
       => b = c

\* No assertion of buddy_free_pages or buddy_free_pages_sub fails.
NoAssertFails == mem.asserts

\* The allocator hands out runs nobody has, and returns NULL only when no
\* aligned run of the rounded size is free.
PageImpl == INSTANCE PageSpec
    WITH used <- Pages \ UNION {BlockPages(b) : b \in FreeBlocks}
PageInit == PageImpl!Init
PageStep == PageImpl!Next
=============================================================================
