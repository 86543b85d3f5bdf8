-------------------------------- MODULE Slab --------------------------------
(***************************************************************************)
(* The kernel heap: the slab allocator of kern/mm/kmalloc.c over           *)
(* alloc_pages.  The sizes are the real ones; an address is a byte offset  *)
(* from the first page of the zone, and 0 is NULL (page 0 is not managed). *)
(* A list is the sequence of its slabs, first element first.               *)
(***************************************************************************)
EXTENDS Integers, Sequences, FiniteSets, FiniteSetsExt, SequencesExt, TLC

CONSTANTS
    NSlabPages,   \* the pages alloc_pages can give are 1 .. NSlabPages
    Sizes,        \* the sizes the kernel asks for
    MaxLive       \* how many objects it has at a time

VARIABLES
    heap,    \* the allocator, see Init
    live     \* what callers of kmalloc hold: records [obj, size]

slabvars == <<heap, live>>

NULL == 0
PGSIZE == 4096
MIN_SIZE_ORDER == 5
SLAB_CACHE_NUM == 13
CacheIds == 0 .. SLAB_CACHE_NUM - 1
KMALLOC_MAX_ORDER == 10
ALIGN_SHIFT == 4
BUFCTL_END == -1          \* no index of an object
SlabHeader == 24          \* sizeof(slab_t)
Bufctl == 4               \* sizeof(kmem_bufctl_t)

-----------------------------------------------------------------------------
(* The shape of the caches, fixed at boot                                  *)

ROUNDUP_2N(a, n) == ((a + 2 ^ n - 1) \div 2 ^ n) * 2 ^ n

\* The control area of a slab with room for the links of num objects.
slab_mgmt_size(num) == ROUNDUP_2N(SlabHeader + num * Bufctl, ALIGN_SHIFT)

\* Only the row of order 0 is given, for the shifts 5 to 8.
slab_div_table == <<<<113, 59, 30, 15>>>>

cache_estimate(order, shift, off) ==
    LET slab_size == PGSIZE * 2 ^ order
        num == IF off THEN slab_size \div 2 ^ shift
               ELSE Max({n \in 0 .. slab_div_table[order + 1][shift - 4] :
                           slab_mgmt_size(n) + n * 2 ^ shift <= slab_size})
        mgmt == IF off THEN 0 ELSE slab_mgmt_size(num)
    IN  [num |-> num, remainder |-> slab_size - num * 2 ^ shift - mgmt]

\* The first order that wastes at most an eighth.
calculate_slab_order(shift, off) ==
    LET Good(o) == LET e == cache_estimate(o, shift, off)
                   IN  e.num # 0 /\ e.remainder * 8 <= PGSIZE * 2 ^ o
    IN  CHOOSE o \in 0 .. KMALLOC_MAX_ORDER :
           Good(o) /\ \A k \in 0 .. o - 1 : ~Good(k)

getorder(n) == CHOOSE o \in MIN_SIZE_ORDER .. MIN_SIZE_ORDER + SLAB_CACHE_NUM - 1 :
                  n <= 2 ^ o /\ (o > MIN_SIZE_ORDER => n > 2 ^ (o - 1))

\* A cache whose slabs hold e.num objects; sound is the assertion on num and
\* off_slab_limit.
cache_shape(objsize, order, e, big) ==
    LET mgmt == slab_mgmt_size(e.num)
        off == big /\ e.remainder < mgmt
    IN  [objsize |-> objsize, num |-> e.num, pages |-> 2 ^ order,
         off_slab |-> off, offset |-> IF off THEN 0 ELSE mgmt,
         slab_cachep |-> IF off THEN getorder(mgmt) - MIN_SIZE_ORDER ELSE NULL,
         sound |-> /\ e.num > 0
                   /\ big => e.num <= (objsize - SlabHeader) \div Bufctl]

init_kmem_cache(shift) ==
    LET objsize == ROUNDUP_2N(2 ^ shift, ALIGN_SHIFT)
        big == objsize >= PGSIZE \div 8
        Shape(order) ==
          cache_shape(objsize, order, cache_estimate(order, shift, big), big)
    IN  Shape(calculate_slab_order(shift, big))

\* slab_init
Caches == [c \in CacheIds |-> init_kmem_cache(c + MIN_SIZE_ORDER)]

-----------------------------------------------------------------------------
(* The heap                                                                *)

Init ==
    /\ heap = [full |-> [c \in CacheIds |-> <<>>],
               notfull |-> [c \in CacheIds |-> <<>>],
               slab |-> <<>>,    \* slab_t at its address
               page |-> <<>>,    \* cache and slab of the pages with PG_slab
               free |-> 1 .. NSlabPages,
               booted |-> FALSE,
               ok |-> \A c \in CacheIds : Caches[c].sound]
    /\ live = {}

page2kva(p) == p * PGSIZE
kva2page(a) == a \div PGSIZE
Without(f, S) == [x \in DOMAIN f \ S |-> f[x]]
PageRun(p, n) == p .. p + n - 1

\* The buddy allocator's aligned runs; which of them is given does not matter.
FreeRuns(h, n) == {p \in h.free : p % n = 0 /\ PageRun(p, n) \subseteq h.free}

\* kmem_cache_slabmgmt's assignments and kmem_cache_grow's after it.
set_up_slab(h, c, k, page, slabp) ==
    [h EXCEPT
       !.page = [p \in PageRun(page, k.pages) |-> [cache |-> c, slab |-> slabp]]
                @@ @,
       !.slab = (slabp :> [s_mem |-> page2kva(page) + k.offset,
                           offset |-> k.offset, inuse |-> 0, free |-> 0,
                           bufctl |-> [i \in 0 .. k.num - 1 |->
                             IF i = k.num - 1 THEN BUFCTL_END ELSE i + 1]])
                @@ @,
       !.notfull[c] = <<slabp>> \o @]

\* An object of the first slab that is not full.
kmem_cache_alloc_one(h, c) ==
    LET slabp == Head(h.notfull[c])
        s == h.slab[slabp]
        next == s.bufctl[s.free]
        h1 == [h EXCEPT !.slab[slabp].inuse = @ + 1, !.slab[slabp].free = next]
    IN  [obj |-> s.s_mem + s.free * Caches[c].objsize,
         heap |-> IF next = BUFCTL_END
                  THEN [h1 EXCEPT !.notfull[c] = Tail(@),
                                  !.full[c] = <<slabp>> \o @]
                  ELSE h1]

\* The end of kmem_cache_grow and kmem_cache_alloc, with the control area (or
\* without, then the pages go back).
fill_slab(h, c, k, page, slabp) ==
    IF slabp = NULL
    THEN [obj |-> NULL, heap |-> [h EXCEPT !.free = @ \union PageRun(page, k.pages)]]
    ELSE kmem_cache_alloc_one(set_up_slab(h, c, k, page, slabp), c)

\* kmem_cache_alloc, kmem_cache_grow and kmem_cache_slabmgmt: a new slab takes
\* its pages first, then its control area.
RECURSIVE kmem_cache_alloc(_, _)
kmem_cache_alloc(h, c) ==
    LET slabmgmt(k, page, h1) ==
          IF k.off_slab THEN kmem_cache_alloc(h1, k.slab_cachep)
                        ELSE [obj |-> page2kva(page), heap |-> h1]
        Filled(k, page, mgmt) == fill_slab(mgmt.heap, c, k, page, mgmt.obj)
        Grown(k, runs) ==
          LET page == Min(runs) IN
          IF runs = {} THEN [obj |-> NULL, heap |-> h]
          ELSE Filled(k, page, slabmgmt(k, page,
                  [h EXCEPT !.free = @ \ PageRun(page, k.pages)]))
    IN  IF h.notfull[c] # <<>> THEN kmem_cache_alloc_one(h, c)
        ELSE Grown(Caches[c], FreeRuns(h, Caches[c].pages))

kmalloc(h, size) == kmem_cache_alloc(h, getorder(size) - MIN_SIZE_ORDER)

\* The object becomes the first of its slab's free chain.
chain(h, slabp, objnr) ==
    LET s == h.slab[slabp]
    IN  [h EXCEPT !.slab[slabp] =
           [s EXCEPT !.bufctl[objnr] = s.free, !.free = objnr, !.inuse = @ - 1]]

\* The first part of kmem_cache_free_one; the slab moves to the other list only
\* from the full one, which it left when it had no free object.
put_back_unmoved(h, c, slabp, objnr) ==
    LET h1 == chain(h, slabp, objnr)
    IN  IF h1.slab[slabp].inuse = 0
        THEN [h1 EXCEPT !.full[c] = SelectSeq(@, LAMBDA x : x # slabp),
                        !.notfull[c] = SelectSeq(@, LAMBDA x : x # slabp)]
        ELSE h1
put_back(h, c, slabp, objnr) ==
    LET h1 == chain(h, slabp, objnr)
    IN  IF h1.slab[slabp].inuse = 0
        THEN [h1 EXCEPT !.full[c] = SelectSeq(@, LAMBDA x : x # slabp),
                        !.notfull[c] = SelectSeq(@, LAMBDA x : x # slabp)]
        ELSE IF h1.slab[slabp].inuse = Caches[c].num - 1
             THEN [h1 EXCEPT !.full[c] = SelectSeq(@, LAMBDA x : x # slabp),
                             !.notfull[c] = <<slabp>> \o @]
             ELSE h1

\* kmem_cache_free, kmem_cache_free_one and kmem_slab_destroy: a slab without
\* objects gives its pages back, then its control area to the cache it is from.
RECURSIVE kmem_cache_free(_, _, _)
kmem_cache_free(h, c, obj) ==
    LET Destroyed(h1, slabp, run) ==
          [h1 EXCEPT !.ok = @ /\ run \subseteq DOMAIN h1.page,
                     !.page = Without(@, run), !.free = @ \union run,
                     !.slab = Without(@, {slabp})]
        Freed(h1, k, slabp, s) ==
          IF h1.slab[slabp].inuse > 0 THEN h1
          ELSE LET h2 == Destroyed(h1, slabp,
                            PageRun(kva2page(s.s_mem - s.offset), k.pages))
               IN  IF k.off_slab THEN kmem_cache_free(h2, k.slab_cachep, slabp)
                                 ELSE h2
        From(k, slabp, s) ==
          Freed(put_back(h, c, slabp, (obj - s.s_mem) \div k.objsize), k, slabp, s)
        InSlab(slabp) == From(Caches[c], slabp, h.slab[slabp])
    IN  IF kva2page(obj) \notin DOMAIN h.page THEN [h EXCEPT !.ok = FALSE]
        ELSE InSlab(h.page[kva2page(obj)].slab)

\* kfree takes the cache from the page the object begins in.
kfree(h, obj) ==
    IF kva2page(obj) \notin DOMAIN h.page THEN [h EXCEPT !.ok = FALSE]
    ELSE kmem_cache_free(h, h.page[kva2page(obj)].cache, obj)

\* slab_allocated, the sum over the lists.
slab_allocated(h) ==
    MapThenSumSet(LAMBDA c : Caches[c].objsize *
        (Len(h.full[c]) * Caches[c].num
           + MapThenSumSet(LAMBDA s : h.slab[s].inuse, ToSet(h.notfull[c]))),
        CacheIds)

-----------------------------------------------------------------------------
(* The self test at boot                                                   *)

check_slab_empty(h) == \A c \in CacheIds : h.full[c] = <<>> /\ h.notfull[c] = <<>>

RECURSIVE kmalloc_times(_, _)
kmalloc_times(h, n) == IF n = 0 THEN h ELSE kmalloc_times(kmalloc(h, 16).heap, n - 1)
RECURSIVE kfree_first(_, _, _)
kfree_first(h, v, n) ==
    IF n = 0 THEN h ELSE kfree_first(kfree(h, v), v + Caches[0].objsize, n - 1)

\* assert
Must(h, cond) == [h EXCEPT !.ok = @ /\ cond]

\* The parts of check_slab are written from the last step to the first: each
\* step checks what the one before it left and passes it on.

\* Two objects of one slab.
check_pair(h) ==
    LET Empty(h1) == Must(h1, h1.notfull[0] = <<>>)
        Kfree1(h1, p0, v1) == Empty(kfree(Must(h1, h1.slab[p0].free = 0), v1))
        Kfree0(a1, p0, v0) ==
          Kfree1(kfree(Must(a1.heap, a1.obj = v0 + 32), v0), p0, a1.obj)
        Malloc1(a0, p0) ==
          Kfree0(kmalloc(Must(a0.heap,
                              /\ a0.obj # NULL /\ a0.heap.slab[p0].inuse = 1
                              /\ Len(a0.heap.notfull[0]) = 1
                              /\ a0.obj = a0.heap.slab[p0].s_mem), 16), p0, a0.obj)
        Malloc0(a0) == Malloc1(a0, Head(a0.heap.notfull[0]))
    IN  Malloc0(kmalloc(h, 16))

\* A slab is filled and another one begun; then the first, s0, is the only one
\* not full, gives its object v0 again, and is emptied.
check_refill(h, s0, v0) ==
    LET Empty(h1) == Must(h1, check_slab_empty(h1))
        KfreeAll(a) == Empty(kfree_first(Must(a.heap,
                          /\ a.obj = v0 /\ Head(a.heap.full[0]) = s0
                          /\ a.heap.notfull[0] = <<>>), a.obj, Caches[0].num))
    IN  KfreeAll(kmalloc(Must(h, h.notfull[0] = <<s0>>), 16))
check_fill(h) ==
    LET Kfree1(h1, s0, s1, v0, v1) ==
          check_refill(kfree(Must(h1, /\ h1.full[0] = <<>>
                                      /\ ToSet(h1.notfull[0]) = {s0, s1}), v1),
                       s0, v0)
        Kfree0(a, s0, v0) ==
          Kfree1(kfree(a.heap, v0), s0, Head(a.heap.notfull[0]), v0, a.obj)
        Another(h1, s0, v0) ==
          Kfree0(kmalloc(Must(h1, /\ h1.slab[s0].inuse = Caches[0].num
                                  /\ Head(h1.full[0]) = s0
                                  /\ h1.notfull[0] = <<>>), 16), s0, v0)
        Fill(a) == Another(kmalloc_times(a.heap, Caches[0].num - 1),
                           Head(a.heap.notfull[0]), a.obj)
    IN  Fill(kmalloc(h, 16))

\* An object of the first cache k0 whose control areas are in another cache, k1.
check_off(h, k0, k1) ==
    LET First(h1, k) == Head((IF Caches[k].num = 1 THEN h1.full ELSE h1.notfull)[k])
        Kfree0(a) ==
          kfree(Must(a.heap,
                     /\ k1 < k0
                     /\ page2kva(kva2page(a.obj)) = a.obj
                     /\ First(a.heap, k1) \in DOMAIN a.heap.slab
                     /\ \A p \in PageRun(kva2page(a.obj), Caches[k0].pages) :
                           a.heap.page[p] = [cache |-> k0, slab |-> First(a.heap, k0)]),
                a.obj)
    IN  Kfree0(kmalloc(h, Caches[k0].objsize))

\* The heap after check_slab, ok only if its assertions hold.
check_slab(h) ==
    LET k0 == Min({c \in CacheIds : Caches[c].off_slab
                                    /\ ~Caches[Caches[c].slab_cachep].off_slab})
        Empty(x) == check_slab_empty(x) /\ slab_allocated(x) = 0
        Passed(x) == Must(x, Empty(x) /\ Cardinality(x.free) = Cardinality(h.free))
        begin == Must(h, /\ Empty(h) /\ Caches[0].objsize = 32
                         /\ Caches[0].num > 1 /\ ~Caches[0].off_slab)
    IN  [Passed(check_off(check_fill(check_pair(begin)), k0, Caches[k0].slab_cachep))
           EXCEPT !.booted = TRUE]

-----------------------------------------------------------------------------

Boot == ~heap.booted /\ heap' = check_slab(heap) /\ UNCHANGED live

Kmalloc(size) ==
    /\ heap.booted /\ Cardinality(live) < MaxLive
    /\ LET r == kmalloc(heap, size)
       IN  /\ heap' = r.heap
           /\ live' = IF r.obj = NULL THEN live
                      ELSE live \union {[obj |-> r.obj, size |-> size]}

Kfree(x) == heap' = kfree(heap, x.obj) /\ live' = live \ {x}

Next == Boot \/ (\E size \in Sizes : Kmalloc(size)) \/ (\E x \in live : Kfree(x))

Spec == Init /\ [][Next]_slabvars

-----------------------------------------------------------------------------
(* Properties                                                              *)

Slabs == DOMAIN heap.slab
CacheOf(s) == heap.page[kva2page(heap.slab[s].s_mem)].cache
Bytes(a, n) == [lo |-> a, hi |-> a + n - 1]
Apart(x, y) == x.hi < y.lo \/ y.hi < x.lo

\* The objects a slab has handed out: those no walk along its free chain meets
\* in as many steps as there are objects.
RECURSIVE Walk(_, _, _)
Walk(bufctl, i, n) ==
    IF i = BUFCTL_END \/ n = 0 THEN {} ELSE {i} \union Walk(bufctl, bufctl[i], n - 1)
HandedOut(s) ==
    LET k == Caches[CacheOf(s)]
        idle == Walk(heap.slab[s].bufctl, heap.slab[s].free, k.num)
    IN  {heap.slab[s].s_mem + i * k.objsize : i \in (0 .. k.num - 1) \ idle}

\* The control areas that are objects of another cache.
OffSlab == {s \in Slabs : Caches[CacheOf(s)].off_slab}

\* The heap is exact in every state, between any two calls: each slab is on
\* the list its count calls for, the free chains hold just the objects nobody
\* has, what is handed out is what callers and the control areas of big slabs
\* use and kallocated is its size; the pages are tagged with their slab or
\* free; and no assertion failed, in the boot-time check_slab either
\* (kmalloc.c:369-381, 423-462, 503-656).
SlabExact ==
    /\ heap.ok
    /\ \A c \in CacheIds :
          /\ IsInjective(heap.full[c]) /\ IsInjective(heap.notfull[c])
          /\ ToSet(heap.full[c]) = {s \in Slabs : CacheOf(s) = c
                                      /\ heap.slab[s].inuse = Caches[c].num}
          /\ ToSet(heap.notfull[c]) = {s \in Slabs : CacheOf(s) = c
                            /\ heap.slab[s].inuse \in 1 .. Caches[c].num - 1}
    /\ \A s \in Slabs : Cardinality(HandedOut(s)) = heap.slab[s].inuse
    /\ UNION {HandedOut(s) : s \in Slabs} = {x.obj : x \in live} \union OffSlab
    /\ heap.free \intersect DOMAIN heap.page = {}
    /\ heap.free \union DOMAIN heap.page = 1 .. NSlabPages
    /\ \A p \in DOMAIN heap.page : heap.page[p].slab \in Slabs
    /\ slab_allocated(heap) =
         MapThenSumSet(LAMBDA x : 2 ^ getorder(x.size), live)
         + MapThenSumSet(LAMBDA s : 2 ^ getorder(
                            slab_mgmt_size(Caches[CacheOf(s)].num)), OffSlab)

\* What callers hold overlaps neither what others hold nor a control area,
\* and lies inside the pages of its slab, for the real object sizes, the
\* divisions precomputed by hand and the areas put into smaller caches
\* (kmalloc.c:169-202, 253-283).
ObjectsDisjoint ==
    LET held == {Bytes(x.obj, x.size) : x \in live}
        control == {Bytes(s, SlabHeader + Bufctl * Caches[CacheOf(s)].num) :
                      s \in Slabs}
    IN  /\ \A x, y \in held \union control : x = y \/ Apart(x, y)
        /\ Cardinality(held) = Cardinality(live)
        /\ \A x \in live :
             LET p == kva2page(x.obj)
             IN  \A q \in p .. kva2page(x.obj + x.size - 1) :
                    q \in DOMAIN heap.page /\ heap.page[q] = heap.page[p]
=============================================================================
