----------------------------- MODULE DefaultPmm -----------------------------
(***************************************************************************)
(* The first-fit page allocator of kern/mm/default_pmm.c, the other        *)
(* pmm_manager that kern/mm/pmm.c can be built with.  Every free page is   *)
(* in one list; the first page of a free block has the block's length in   *)
(* property, the others have 0.  Property is not reset when a block is     *)
(* handed out.                                                             *)
(***************************************************************************)
EXTENDS Integers, Sequences, FiniteSets, SequencesExt

CONSTANTS NPages, MaxOrder    \* as in PageSpec

VARIABLES
    ff,       \* list, property, nr_free, the reserved pages, and ok
    blocks,   \* what callers hold: pairs of first page and length
    result    \* what the last alloc_pages returned; NPages stands for NULL

ffvars == <<ff, blocks, result>>

Pages == 0 .. NPages - 1
PageRun(base, n) == base .. base + n - 1

\* default_init_memmap, for the one zone of page_init.
Init ==
    /\ ff = [list |-> [i \in 1 .. NPages |-> i - 1],
             property |-> [p \in Pages |-> IF p = 0 THEN NPages ELSE 0],
             nr_free |-> NPages, reserved |-> {}, ok |-> TRUE]
    /\ blocks = {} /\ result = NPages

\* default_alloc_pages: n entries of the list from the first that is long
\* enough; the entry behind them begins what is left of the block.
take(at, n) ==
    LET p == ff.list[at]
        taken == {ff.list[i] : i \in at .. at + n - 1}
    IN  [ff EXCEPT !.list = SubSeq(@, 1, at - 1) \o SubSeq(@, at + n, Len(@)),
                   !.property = IF ff.property[p] > n
                                THEN [@ EXCEPT ![ff.list[at + n]] = ff.property[p] - n]
                                ELSE @,
                   !.reserved = @ \union taken, !.nr_free = @ - n]

AllocPages(n) ==
    LET fits == {i \in DOMAIN ff.list : ff.property[ff.list[i]] >= n}
        at == CHOOSE i \in fits : \A j \in fits : i <= j
    IN  IF n > ff.nr_free \/ fits = {}
        THEN result' = NPages /\ UNCHANGED <<ff, blocks>>
        ELSE /\ ff' = take(at, n)
             /\ blocks' = blocks \union {<<ff.list[at], n>>}
             /\ result' = ff.list[at]

\* The property of base, with the block behind it and, if the list's entry
\* before it is the page before it, of the block that entry belongs to.
merge_right_only(prop, list, at, base, n) ==
    LET next == IF at + n <= Len(list) THEN list[at + n] ELSE -1
        joined == IF next = base + n
                  THEN [prop EXCEPT ![base] = n + prop[next], ![next] = 0]
                  ELSE [prop EXCEPT ![base] = n]
    IN  joined
merge(prop, list, at, base, n) ==
    LET joined == merge_right_only(prop, list, at, base, n)
        heads == {i \in 1 .. at - 1 : joined[list[i]] # 0}
        head == list[CHOOSE i \in heads : \A j \in heads : j <= i]
    IN  IF at > 1 /\ list[at - 1] = base - 1 /\ heads # {}
        THEN [joined EXCEPT ![head] = @ + joined[base], ![base] = 0]
        ELSE joined

\* default_free_pages: the pages go before the first entry behind them.
free_pages(base, n) ==
    LET before == SelectSeq(ff.list, LAMBDA p : p <= base)
        after == SelectSeq(ff.list, LAMBDA p : p > base)
        list == before \o [i \in 1 .. n |-> base + i - 1] \o after
    IN  [list |-> list,
         property |-> merge(ff.property, list, Len(before) + 1, base, n),
         nr_free |-> ff.nr_free + n,
         reserved |-> ff.reserved \ {base},
         ok |-> ff.ok /\ base \in ff.reserved]

\* Callers free a block, or a part of one and the rest of it later.
FreePages(b, base, n) ==
    /\ PageRun(base, n) \subseteq PageRun(b[1], b[2])
    /\ ff' = free_pages(base, n)
    /\ blocks' = (blocks \ {b}) \union
                 {x \in {<<b[1], base - b[1]>>, <<base + n, b[1] + b[2] - base - n>>} :
                    x[2] > 0}
    /\ UNCHANGED result

Next == \/ \E n \in 1 .. 2 ^ MaxOrder : AllocPages(n)
        \/ \E b \in blocks, base \in Pages, n \in 1 .. 2 ^ MaxOrder :
              FreePages(b, base, n)

Spec == Init /\ [][Next]_ffvars

-----------------------------------------------------------------------------
(* Properties                                                              *)

Free == ToSet(ff.list)

\* The list is in order and holds just the pages nobody has; the lengths noted
\* in it are those of the maximal runs, stale ones of handed-out blocks never
\* among them; and no assertion fails (default_pmm.c:85-162).
FirstFitExact ==
    /\ ff.ok /\ ff.nr_free = Len(ff.list)
    /\ \A i \in 1 .. Len(ff.list) - 1 : ff.list[i] < ff.list[i + 1]
    /\ Free = Pages \ UNION {PageRun(b[1], b[2]) : b \in blocks}
    /\ \A p \in Free :
          IF p - 1 \in Free THEN ff.property[p] = 0
          ELSE /\ PageRun(p, ff.property[p]) \subseteq Free
               /\ p + ff.property[p] \notin Free

\* It promises what the buddy allocator promises.
PageImpl == INSTANCE PageSpec WITH used <- Pages \ Free
PageInit == PageImpl!Init
PageStep == PageImpl!Next
=============================================================================
