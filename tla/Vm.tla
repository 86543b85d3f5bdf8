--------------------------------- MODULE Vm ---------------------------------
(***************************************************************************)
(* Address spaces: mm_struct, vma_struct and page tables (kern/mm/vmm.c,   *)
(* kern/mm/pmm.c), the TLB they are loaded into (kern/trap/trap.c,         *)
(* kern/include/thumips_tlb.h), and what do_fork, do_execve and do_exit of *)
(* kern/process/proc.c do with them.  Addresses are page numbers; a page   *)
(* table has PTN entries, a TLB entry holds two neighbouring pages.        *)
(*                                                                         *)
(* The kernel is not preempted, so a system call is one step, except where *)
(* it sleeps (load_icode reading a program, which may be the console's     *)
(* input) or touches user memory (each access may miss the TLB: kacc).  No *)
(* mm is ever shared: sys_fork passes no CLONE_VM and kernel threads have  *)
(* none, so mm_count is one for a process's mm and is left out.            *)
(***************************************************************************)
EXTENDS Integers, Sequences, FiniteSets, FiniteSetsExt, SequencesExt

CONSTANTS
    Procs,      \* the processes that ever run user programs
    Idle,       \* initproc, a kernel thread that stays
    NPages,     \* pages of physical memory
    PTN,        \* NPTEENTRY: entries of a page table
    NTables,    \* NPDEENTRY: tables of a page directory
    UStack,     \* USTACKTOP - USTACKSIZE; USTACKTOP is the end of user memory
    Progs,      \* programs on the disk
    Bufs,       \* <<s, e>>: buffers user programs pass to system calls
    Calls,      \* bound: forks and execs in a behaviour
    Segs        \* Segs[prog]: its segments, as program headers of type LOAD

KSTACKPAGE == 2
Top == NTables * PTN                       \* USERTOP, which is USTACKTOP

\* The stack has room for an argument and for argv, each with a page to itself.
Segment == [s : Nat, f : Nat, e : Nat, flags : SUBSET {"R", "W", "X"}]
ASSUME VmAssumption ==
    /\ NPages \in Nat /\ NPages >= KSTACKPAGE
    /\ NTables \in Nat \ {0} /\ PTN \in Nat \ {0} /\ PTN % 2 = 0
    /\ UStack \in Nat /\ UStack + 2 <= Top
    /\ Idle \notin Procs /\ IsFiniteSet(Procs)
    /\ Bufs \subseteq Nat \X Nat /\ Calls \in Nat
    /\ Segs \in [Progs -> Seq(Segment)]

VARIABLES
    m,         \* the memory: see MemInit
    mm,        \* current->mm of each process
    cr3,       \* proc->cr3: the directory proc_run loads
    st,        \* where a process is: "none", "kthread", "user", "load", "zombie"
    kstack,    \* the pages of its kernel stack
    nmm,       \* the mm load_icode is building
    todo,      \* what load_icode has still to do
    current,
    pgd,       \* current_pgdir
    kacc,      \* accesses to user memory the running system call has to make
    calls,     \* forks and execs so far
    panic      \* why the kernel has stopped, or "no"

vars == <<m, mm, cr3, st, kstack, nmm, todo, current, pgd, kacc, calls,
          panic>>
pvars == <<calls, cr3, st, kstack, nmm, todo, current>>

Pages == 1 .. NPages
Tables == 0 .. NTables - 1
VPages == 0 .. Top - 1
Boot == 0                                  \* boot_pgdir, which maps nothing
NoPte == [pg |-> 0, w |-> FALSE]
NoDir == [t \in Tables |-> 0]
NoTab == [i \in 0 .. PTN - 1 |-> NoPte]
NoVma == [s |-> 0, e |-> 0, flags |-> {}]
NoWork == [segs |-> <<>>, mapped |-> FALSE, at |-> 0]
NoMM == [vmas |-> <<>>, cache |-> NoVma, pgdir |-> Boot]
Vals == {"img", "zero", "junk", "new"}

MemInit ==
    [free |-> Pages,
     ref |-> [p \in Pages |-> 0],               \* page->ref
     dir |-> [p \in 0 .. NPages |-> NoDir],     \* a page used as a directory,
     tab |-> [p \in Pages |-> NoTab],           \* as a page table,
     data |-> [p \in Pages |-> "junk"],         \* as memory of a program
     tlb |-> {},
     err |-> "ok"]

-----------------------------------------------------------------------------
(* Pages and page tables (pmm.c)                                           *)

\* Which free page alloc_pages returns is the allocator's business (Buddy).
alloc_page(r) == Min(r.free)
nomem(r) == [r EXCEPT !.err = "nomem"]

\* free_pages; what a free page holds is of no interest, so it is forgotten.
free_pages(r, ps) ==
    [r EXCEPT !.free = @ \union ps,
              !.ref  = [p \in Pages |-> IF p \in ps THEN 0 ELSE @[p]],
              !.dir  = [p \in 0 .. NPages |-> IF p \in ps THEN NoDir ELSE @[p]],
              !.tab  = [p \in Pages |-> IF p \in ps THEN NoTab ELSE @[p]],
              !.data = [p \in Pages |-> IF p \in ps THEN "junk" ELSE @[p]]]

\* get_pte without create, with create, and the entry it finds.
HasTable(r, d, v) == r.dir[d][v \div PTN] # 0
get_pte(r, d, v) ==
    IF HasTable(r, d, v) THEN r
    ELSE IF r.free = {} THEN nomem(r)
    ELSE LET t == alloc_page(r)
         IN  [r EXCEPT !.free = @ \ {t}, !.ref[t] = @ + 1, !.tab[t] = NoTab,
                       !.dir[d][v \div PTN] = t]
Pte(r, d, v) == IF HasTable(r, d, v)
                THEN r.tab[r.dir[d][v \div PTN]][v % PTN] ELSE NoPte
SetPte(r, d, v, pte) == [r EXCEPT !.tab[r.dir[d][v \div PTN]][v % PTN] = pte]

\* tlb_invalidate and tlb_invalidate_all
tlb_invalidate(r) == [r EXCEPT !.tlb = {}]

page_remove_pte(r, d, v) ==
    LET pg == Pte(r, d, v).pg
        fewer == [r EXCEPT !.ref[pg] = @ - 1]
        unmapped == SetPte(fewer, d, v, NoPte)
    IN  tlb_invalidate(IF pg = 0 THEN r
                       ELSE IF fewer.ref[pg] = 0 THEN free_pages(unmapped, {pg})
                       ELSE unmapped)

page_insert(r0, d, pg, v, w) ==
    LET r == get_pte(r0, d, v)
        counted == [r EXCEPT !.ref[pg] = @ + 1]
        old == Pte(r, d, v).pg
        alone == IF old = 0 THEN counted
                 ELSE IF old = pg THEN r
                 ELSE page_remove_pte(counted, d, v)
    IN  IF r.err # "ok" THEN r
        ELSE tlb_invalidate(SetPte(alone, d, v, [pg |-> pg, w |-> w]))

\* pgdir_alloc_page, and what its caller puts into the page.
pgdir_alloc_page(r, d, v, w, x) ==
    IF r.free = {} THEN nomem(r)
    ELSE LET pg == alloc_page(r)
             got == page_insert([r EXCEPT !.free = @ \ {pg}, !.data[pg] = x],
                                d, pg, v, w)
         IN  IF got.err = "ok" THEN got ELSE free_pages(got, {pg})

\* unmap_range; where a table is missing there is nothing to remove.
unmap_range(r, d, s, e) ==
    LET unmapped[n \in 0 .. e - s] ==
            IF n = 0 THEN r
            ELSE LET q == unmapped[n - 1]
                 IN  IF Pte(q, d, s + n - 1) = NoPte THEN q
                     ELSE page_remove_pte(q, d, s + n - 1)
    IN  unmapped[e - s]

exit_range(r, d, s, e) ==
    LET ts == {t \in Tables : r.dir[d][t] # 0 /\ s \div PTN <= t /\ t * PTN < e}
    IN  [free_pages(r, {r.dir[d][t] : t \in ts})
            EXCEPT !.dir[d] = [t \in Tables |-> IF t \in ts THEN 0 ELSE @[t]]]

\* Mutant: the page is shared instead of copied.
CopyPage_shares(r0, to, from, v) ==
    IF r0.err # "ok" THEN r0
    ELSE page_insert(r0, to, Pte(r0, from, v).pg, v, Pte(r0, from, v).w)

\* One page of copy_range: no table is -E_NO_MEM, no page a failed assertion.
CopyPage(r0, to, from, v) ==
    LET r == get_pte(r0, to, v)
        npage == alloc_page(r)
        old == Pte(r, from, v)
    IN  IF r0.err # "ok" THEN r0
        ELSE IF r.err # "ok" THEN r
        ELSE IF r.free = {} THEN [r EXCEPT !.err = "panic"]
        ELSE page_insert([r EXCEPT !.free = @ \ {npage},
                                   !.data[npage] = r.data[old.pg]],
                         to, npage, v, old.w)

\* copy_range: behind a missing table it goes on PTSIZE further, not at the
\* start of the next table.
CopyRound(q, to, from, e) ==
    IF q.v >= e \/ q.r.err # "ok" THEN q
    ELSE IF ~HasTable(q.r, from, q.v) THEN [q EXCEPT !.v = @ + PTN]
    ELSE [r |-> IF Pte(q.r, from, q.v) = NoPte THEN q.r
                ELSE CopyPage(q.r, to, from, q.v),
          v |-> q.v + 1]
copy_range(r, to, from, s, e) ==
    LET copied[n \in 0 .. e - s] ==
            IF n = 0 THEN [r |-> r, v |-> s]
            ELSE CopyRound(copied[n - 1], to, from, e)
    IN  copied[e - s].r

-----------------------------------------------------------------------------
(* Address spaces (vmm.c)                                                  *)

InVma(vma, v) == vma.s <= v /\ v < vma.e

\* find_vma: the cached area if v is in it, else the first that ends behind v.
\* It becomes the cached one.
find_vma(a, v) ==
    LET behind == {i \in 1 .. Len(a.vmas) : v < a.vmas[i].e}
    IN  IF InVma(a.cache, v) THEN a.cache
        ELSE IF behind = {} THEN NoVma
        ELSE a.vmas[Min(behind)]
Cached(a, vma) == IF vma = NoVma THEN a ELSE [a EXCEPT !.cache = vma]

\* insert_vma_struct: before the first area that starts behind it.
insert_vma_struct(vmas, vma) ==
    LET behind == {i \in 1 .. Len(vmas) : vmas[i].s > vma.s}
        at == IF behind = {} THEN Len(vmas) + 1 ELSE Min(behind)
    IN  [i \in 1 .. Len(vmas) + 1 |->
           IF i < at THEN vmas[i] ELSE IF i = at THEN vma ELSE vmas[i - 1]]

USER_ACCESS(s, e) == s < e /\ e <= Top

vma_create(s, e, flags) == [s |-> s, e |-> e, flags |-> flags]

\* mm_map: the mm with the new area, or NoMM for -E_INVAL or -E_NO_MEM; mem
\* says whether kmalloc has room for it.
mm_map(a, s, e, flags, mem) ==
    LET vma == find_vma(a, s)
        c == Cached(a, vma)
    IN  IF ~USER_ACCESS(s, e) \/ (vma # NoVma /\ e > vma.s) \/ ~mem THEN NoMM
        ELSE [c EXCEPT !.vmas =
                insert_vma_struct(@, vma_create(s, e, flags))]

\* dup_mmap walks the areas from the last to the first; kmalloc has room for
\* k of them.  It gives the memory and the areas of the new mm.
dup_mmap(r, to, a, k) ==
    LET copied[n \in 0 .. Len(a.vmas)] ==
            IF n = 0 THEN [r |-> r, vmas |-> <<>>]
            ELSE LET q == copied[n - 1]
                     vma == a.vmas[Len(a.vmas) - n + 1]
                 IN  IF q.r.err # "ok" THEN q
                     ELSE IF Len(q.vmas) = k THEN [q EXCEPT !.r = nomem(@)]
                     ELSE [r |-> copy_range(q.r, to, a.pgdir, vma.s, vma.e),
                           vmas |-> insert_vma_struct(q.vmas, vma)]
    IN  copied[Len(a.vmas)]

\* exit_mmap unmaps every area, then gives the page tables back.
unmap_all(r, a) ==
    LET unmapped[n \in 0 .. Len(a.vmas)] ==
            IF n = 0 THEN r
            ELSE unmap_range(unmapped[n - 1], a.pgdir, a.vmas[n].s, a.vmas[n].e)
    IN  unmapped[Len(a.vmas)]
exit_all(r, a) ==
    LET exited[n \in 0 .. Len(a.vmas)] ==
            IF n = 0 THEN r
            ELSE exit_range(exited[n - 1], a.pgdir, a.vmas[n].s, a.vmas[n].e)
    IN  exited[Len(a.vmas)]
exit_mmap(r, a) == exit_all(unmap_all(r, a), a)

\* exit_mmap, put_pgdir and mm_destroy
Destroy(r, a) == free_pages(exit_mmap(r, a), {a.pgdir})

\* setup_pgdir: boot_pgdir, which is copied, maps nothing.
setup_pgdir(r) == IF r.free = {} THEN nomem(r)
                  ELSE [r EXCEPT !.free = @ \ {alloc_page(r)},
                                 !.dir[alloc_page(r)] = NoDir]

-----------------------------------------------------------------------------
(* Processes (proc.c)                                                      *)

Init ==
    /\ \E p \in Procs :      \* user_main, about to execute the shell
          /\ st = [q \in Procs |-> IF q = p THEN "kthread" ELSE "none"]
          /\ kstack = [q \in Procs |-> IF q = p THEN 1 .. KSTACKPAGE ELSE {}]
    /\ m = [MemInit EXCEPT !.free = @ \ (1 .. KSTACKPAGE)]
    /\ mm = [p \in Procs |-> NoMM]
    /\ nmm = [p \in Procs |-> NoMM]
    /\ todo = [p \in Procs |-> NoWork]
    /\ cr3 = [p \in Procs |-> Boot]
    /\ current = Idle /\ pgd = Boot /\ kacc = <<>>
    /\ calls = 0 /\ panic = "no"

Ok(r) == [r EXCEPT !.err = "ok"]
InUser == panic = "no" /\ current \in Procs /\ st[current] = "user"

\* Mutant: the TLB is not cleared.
proc_run_keeps_tlb(q) ==
    /\ panic = "no" /\ kacc = <<>> /\ q # current
    /\ q \in Procs /\ st[q] \in {"kthread", "user", "load"}
    /\ current' = q /\ pgd' = cr3[q]
    /\ UNCHANGED <<m, mm, cr3, st, kstack, nmm, todo, kacc, calls, panic>>

\* proc_run, called by schedule: from a trap of a user program, while a system
\* call sleeps, or at the end of do_exit.
proc_run(q) ==
    /\ panic = "no" /\ kacc = <<>> /\ q # current
    /\ \/ q \in Procs /\ st[q] \in {"kthread", "user", "load"}
       \/ q = Idle /\ \E c \in Procs : st[c] = "zombie"   \* asleep in do_wait
    /\ current' = q
    /\ pgd' = (IF q = Idle THEN Boot ELSE cr3[q])
    /\ m' = tlb_invalidate(m)
    /\ UNCHANGED <<mm, cr3, st, kstack, nmm, todo, kacc, calls, panic>>

\* do_exit of the current process, with memory r.
do_exit(r) ==
    /\ m' = (IF mm[current] = NoMM THEN r ELSE Destroy(r, mm[current]))
    /\ pgd' = (IF mm[current] = NoMM THEN pgd ELSE Boot)
    /\ mm' = [mm EXCEPT ![current] = NoMM]
    /\ st' = [st EXCEPT ![current] = "zombie"]
    /\ kacc' = <<>>

Exit ==
    /\ InUser /\ kacc = <<>> /\ do_exit(m)
    /\ UNCHANGED <<cr3, kstack, nmm, todo, current, panic, calls>>

\* The end of do_wait: the parent, or initproc, frees the stack of a zombie.
Reap(c) ==
    /\ panic = "no" /\ kacc = <<>> /\ st[c] = "zombie" /\ current # c
    /\ current = Idle \/ InUser
    /\ m' = free_pages(m, kstack[c])
    /\ kstack' = [kstack EXCEPT ![c] = {}]
    /\ st' = [st EXCEPT ![c] = "none"]
    /\ UNCHANGED <<mm, cr3, nmm, todo, current, pgd, kacc, panic, calls>>

\* setup_kstack: the KSTACKPAGE pages are given back if the fork fails.
StackFrom(free) ==
    CHOOSE ps \in kSubset(KSTACKPAGE, free) : \A x \in ps, y \in free \ ps : x < y

\* copy_mm without CLONE_VM: the copy of the current mm, and the memory with
\* it, or again without it if it failed.  kmalloc has room for k areas.
copy_mm(r, k) ==
    LET d == alloc_page(r)
        dup == dup_mmap(setup_pgdir(r), d, mm[current], k)
        new == [vmas |-> dup.vmas, cache |-> NoVma, pgdir |-> d]
    IN  [mm |-> new,
         r |-> IF dup.r.err = "nomem" THEN Destroy(dup.r, new) ELSE dup.r]

\* do_fork of a user program: c becomes a copy of the current process.  A fork
\* that finds no memory for the stack, the mm or its directory changes nothing.
do_fork(c, k) ==
    LET ks == StackFrom(m.free)
        copy == copy_mm([m EXCEPT !.free = @ \ ks], k)
    IN  /\ InUser /\ kacc = <<>> /\ st[c] = "none"
        /\ Cardinality(m.free) > KSTACKPAGE
        /\ calls < Calls /\ calls' = calls + 1
        /\ \/ /\ copy.r.err = "panic"
              /\ m' = copy.r /\ panic' = "copy_range"
              /\ UNCHANGED <<mm, cr3, st, kstack>>
           \/ /\ copy.r.err = "nomem"
              /\ m' = Ok(free_pages(copy.r, ks))
              /\ UNCHANGED <<mm, cr3, st, kstack, panic>>
           \/ /\ copy.r.err = "ok"
              /\ m' = copy.r
              /\ mm' = [mm EXCEPT ![c] = copy.mm]
              /\ cr3' = [cr3 EXCEPT ![c] = copy.mm.pgdir]
              /\ st' = [st EXCEPT ![c] = "user"]
              /\ kstack' = [kstack EXCEPT ![c] = ks]
              /\ UNCHANGED panic
        /\ UNCHANGED <<nmm, todo, current, pgd, kacc>>

-----------------------------------------------------------------------------
(* Executing a program (do_execve and load_icode)                          *)

\* Where load_icode is: the segments it has still to load, and in the first of
\* them, once it is mapped, the page to fill next.
Work(prog) == [NoWork EXCEPT !.segs = Segs[prog]]
Filled(w) ==
    IF w.at + 1 < Head(w.segs).e THEN [w EXCEPT !.at = @ + 1]
    ELSE [NoWork EXCEPT !.segs = Tail(w.segs)]

\* do_execve up to load_icode's reading of the ELF header.  cr3 keeps the old
\* directory, freed now, until load_icode has a new one.  An exec that cannot
\* open the file, or finds no memory for the new mm, exits.
do_execve(prog, mem) ==
    LET r == IF mm[current] = NoMM THEN m ELSE Destroy(m, mm[current])
        ok == mem /\ setup_pgdir(r).err = "ok"
    IN  /\ panic = "no" /\ current \in Procs /\ kacc = <<>>
        /\ st[current] \in {"user", "kthread"}
        /\ calls < Calls /\ calls' = calls + 1
        /\ pgd' = (IF mm[current] = NoMM THEN pgd ELSE Boot)
        /\ mm' = [mm EXCEPT ![current] = NoMM]
        /\ m' = (IF ok THEN setup_pgdir(r) ELSE r)
        /\ st' = [st EXCEPT ![current] = IF ok THEN "load" ELSE "zombie"]
        /\ nmm' = (IF ok THEN [nmm EXCEPT ![current] =
                                [NoMM EXCEPT !.pgdir = alloc_page(r)]] ELSE nmm)
        /\ todo' = (IF ok THEN [todo EXCEPT ![current] = Work(prog)] ELSE todo)
        /\ UNCHANGED <<cr3, kstack, current, kacc, panic>>

\* Mutant: a failed load goes on at bad_elf_cleanup_pgdir.
Abort_keeps_pages(r, a) ==
    /\ m' = Ok(free_pages(r, {a.pgdir}))
    /\ nmm' = [nmm EXCEPT ![current] = NoMM]
    /\ todo' = [todo EXCEPT ![current] = NoWork]
    /\ st' = [st EXCEPT ![current] = "zombie"]

\* load_icode's bad_cleanup_mmap and do_execve's execve_exit, with memory r
\* and the areas of a.
Abort(r, a) ==
    /\ m' = Ok(Destroy(r, a))
    /\ nmm' = [nmm EXCEPT ![current] = NoMM]
    /\ todo' = [todo EXCEPT ![current] = NoWork]
    /\ st' = [st EXCEPT ![current] = "zombie"]

Loading == panic = "no" /\ current \in Procs /\ st[current] = "load"

\* A read of the file failed, or what was read is no program.
LoadFails ==
    /\ Loading /\ Abort(m, nmm[current])
    /\ UNCHANGED <<mm, cr3, kstack, current, pgd, kacc, panic, calls>>

LoadSegment(mem) ==
    LET w == todo[current]
        g == Head(w.segs)
        a == mm_map(nmm[current], g.s, g.e, g.flags, mem)
    IN  /\ Loading /\ w.segs # <<>> /\ ~w.mapped
        /\ \/ a = NoMM /\ Abort(m, nmm[current])
           \/ /\ a # NoMM
              /\ nmm' = [nmm EXCEPT ![current] = a]
              /\ todo' = [todo EXCEPT ![current] =
                            [segs |-> w.segs, mapped |-> TRUE, at |-> g.s]]
              /\ UNCHANGED <<m, st>>
        /\ UNCHANGED <<mm, cr3, kstack, current, pgd, kacc, panic, calls>>

LoadPage ==
    LET w == todo[current]
        g == Head(w.segs)
        r == pgdir_alloc_page(m, nmm[current].pgdir, w.at, "W" \in g.flags,
                              IF w.at < g.f THEN "img" ELSE "zero")
    IN  /\ Loading /\ w.mapped
        /\ \/ r.err # "ok" /\ Abort(r, nmm[current])
           \/ /\ r.err = "ok" /\ m' = r
              /\ todo' = [todo EXCEPT ![current] = Filled(w)]
              /\ UNCHANGED <<nmm, st>>
        /\ UNCHANGED <<mm, cr3, kstack, current, pgd, kacc, panic, calls>>

\* The end of load_icode: the stack is mapped, the new mm is the current one,
\* and the one argument is put on the stack's top page, argv on the one below.
LoadDone(mem) ==
    LET a == mm_map(nmm[current], UStack, Top, {"R", "W", "STACK"}, mem)
    IN  /\ Loading /\ todo[current].segs = <<>>
        /\ \/ /\ a = NoMM /\ Abort(m, nmm[current])
              /\ UNCHANGED <<mm, cr3, pgd, kacc>>
           \/ /\ a # NoMM
              /\ mm' = [mm EXCEPT ![current] = a]
              /\ cr3' = [cr3 EXCEPT ![current] = a.pgdir]
              /\ pgd' = a.pgdir
              /\ kacc' = <<[v |-> Top - 1, w |-> TRUE], [v |-> Top - 2, w |-> TRUE]>>
              /\ nmm' = [nmm EXCEPT ![current] = NoMM]
              /\ st' = [st EXCEPT ![current] = "user"]
              /\ UNCHANGED <<m, todo>>
        /\ UNCHANGED <<kstack, current, panic, calls>>

-----------------------------------------------------------------------------
(* Touching user memory: the TLB and its faults (trap.c)                   *)

\* Mutant: a buffer to be written need only be readable.
user_mem_check_read(a, s, e, write) ==
    [ok |-> find_vma(a, s) # NoVma /\ find_vma(a, s).s <= s
            /\ "R" \in find_vma(a, s).flags,
     cache |-> Cached(a, find_vma(a, s)).cache]

\* user_mem_check of the pages s .. e - 1: the answer, and the area it ended in.
CheckRound(q, a, e, write) ==
    LET vma == find_vma([a EXCEPT !.cache = q.cache], q.v)
        refused == \/ q.v < vma.s
                   \/ (IF write THEN "W" ELSE "R") \notin vma.flags
                   \/ write /\ "STACK" \in vma.flags /\ q.v < vma.s + 1
    IN  IF q.v >= e \/ ~q.ok THEN q
        ELSE IF vma = NoVma THEN [q EXCEPT !.ok = FALSE]
        ELSE IF refused THEN [q EXCEPT !.ok = FALSE, !.cache = vma]
        ELSE [ok |-> TRUE, cache |-> vma, v |-> vma.e]
user_mem_check(a, s, e, write) ==
    LET checked[n \in 0 .. e - s] ==
            IF n = 0 THEN [ok |-> TRUE, cache |-> a.cache, v |-> s]
            ELSE CheckRound(checked[n - 1], a, e, write)
    IN  IF USER_ACCESS(s, e) THEN checked[e - s]
        ELSE [ok |-> FALSE, cache |-> a.cache, v |-> s]

\* copy_to_user and copy_from_user: the check, then one access per page.
Copy(s, e, write) ==
    LET r == user_mem_check(mm[current], s, e, write)
    IN  /\ InUser /\ kacc = <<>>
        /\ mm' = [mm EXCEPT ![current].cache = r.cache]
        /\ kacc' = (IF r.ok
                    THEN [i \in 1 .. e - s |-> [v |-> s + i - 1, w |-> write]]
                    ELSE <<>>)
        /\ UNCHANGED <<m, cr3, st, kstack, nmm, todo, current, pgd, panic, calls>>

\* copy_string goes page by page, and checks one when the string reaches it.
CopyString(s) == Copy(s, s + 1, FALSE)

\* What the MMU finds for page v: the half of a matching entry, valid or not.
Half(v) == {en.lo[v % 2] : en \in {x \in m.tlb : x.vpn2 = v \div 2}}
Hits(v) == {lo \in Half(v) : lo.pg # 0}

\* tlb_refill writes both pages of the pair over some entry.
Refill(r, v) ==
    LET lo(i) == Pte(r, pgd, 2 * (v \div 2) + i)
    IN  [vpn2 |-> v \div 2, lo |-> [i \in 0 .. 1 |-> lo(i)]]
tlb_refill(v) ==
    \E old \in SUBSET m.tlb :
       /\ Cardinality(old) <= 1
       /\ m' = [m EXCEPT !.tlb = (@ \ old) \union {Refill(m, v)}]

\* do_pgfault for a page without an entry: the memory after it, whether it
\* succeeded (err), and the area it looked at.
do_pgfault(a, v, w) ==
    LET vma == find_vma(a, v)
        allowed == /\ vma # NoVma /\ vma.s <= v
                   /\ IF w THEN "W" \in vma.flags
                           ELSE vma.flags \intersect {"R", "X"} # {}
        r == get_pte(m, a.pgdir, v)
    IN  IF ~allowed THEN [m EXCEPT !.err = "inval"]
        ELSE IF r.err # "ok" THEN r
        ELSE pgdir_alloc_page(r, a.pgdir, v, "W" \in vma.flags, "junk")

\* pgfault_handler uses the mm of the current process, not current_pgdir.
pgfault_handler(v, w) == do_pgfault(mm[current], v, w)

\* handle_tlbmiss of an access to page v, by the user program or in the kernel.
handle_tlbmiss(v, w, in_kernel) ==
    LET pte == Pte(m, pgd, v)
        r == pgfault_handler(v, w)
        faulting == Cached(mm[current], find_vma(mm[current], v))
    IN  /\ Hits(v) = {}
        /\ \/ /\ pte # NoPte /\ (in_kernel \/ ~w \/ pte.w)
              /\ tlb_refill(v)
              /\ UNCHANGED <<mm, st, pgd, kacc, panic>>
           \/ /\ pte # NoPte /\ ~in_kernel /\ w /\ ~pte.w
              /\ do_exit(m) /\ UNCHANGED panic
           \/ /\ pte = NoPte /\ r.err = "ok"
              /\ m' = r
              /\ mm' = [mm EXCEPT ![current] = faulting]
              /\ UNCHANGED <<st, pgd, kacc, panic>>
           \/ /\ pte = NoPte /\ r.err # "ok" /\ ~in_kernel
              /\ do_exit(Ok(r)) /\ UNCHANGED panic
           \/ /\ pte = NoPte /\ r.err # "ok" /\ in_kernel
              /\ panic' = "unhandled pgfault" /\ m' = r
              /\ UNCHANGED <<mm, st, pgd, kacc>>
        /\ UNCHANGED <<cr3, kstack, nmm, todo, current, calls>>

\* A store to a page that is in the TLB but not writable raises EX_MOD, which
\* trap_dispatch does not know.
Modified(v) ==
    /\ Hits(v) # {} /\ \A lo \in Hits(v) : ~lo.w
    /\ panic' = "Unhandled Exception"
    /\ UNCHANGED <<m, mm, cr3, st, kstack, nmm, todo, current, pgd, kacc, calls>>

StoreTo(v) ==
    \E lo \in Hits(v) : lo.w /\ m' = [m EXCEPT !.data[lo.pg] = "new"]

\* An instruction of the user program that loads from or stores to page v, and
\* the next access of the running system call.
UserAccess(v, w) ==
    /\ InUser /\ kacc = <<>>
    /\ \/ handle_tlbmiss(v, w, FALSE)
       \/ w /\ Modified(v)
       \/ /\ w /\ StoreTo(v)
          /\ UNCHANGED <<mm, pvars, pgd, kacc, panic>>
       \/ ~w /\ Hits(v) # {} /\ UNCHANGED vars

KernelAccess ==
    /\ panic = "no" /\ kacc # <<>>
    /\ LET v == Head(kacc).v
           w == Head(kacc).w
       IN  \/ handle_tlbmiss(v, w, TRUE)
           \/ w /\ Modified(v)
           \/ /\ w /\ StoreTo(v)
              /\ kacc' = Tail(kacc)
              /\ UNCHANGED <<mm, pvars, pgd, panic>>
           \/ /\ ~w /\ Hits(v) # {}
              /\ kacc' = Tail(kacc)
              /\ UNCHANGED <<m, mm, pvars, pgd, panic>>

-----------------------------------------------------------------------------

Next ==
    \/ \E q \in Procs \union {Idle} : proc_run(q)
    \/ Exit
    \/ \E c \in Procs : Reap(c)
    \/ \E c \in Procs, k \in 0 .. 3 : do_fork(c, k)
    \/ \E prog \in Progs, mem \in BOOLEAN : do_execve(prog, mem)
    \/ LoadFails
    \/ \E mem \in BOOLEAN : LoadSegment(mem) \/ LoadDone(mem)
    \/ LoadPage
    \/ \E b \in Bufs, w \in BOOLEAN : Copy(b[1], b[2], w)
    \/ \E b \in Bufs : CopyString(b[1])
    \/ \E v \in VPages, w \in BOOLEAN : UserAccess(v, w)
    \/ KernelAccess

Spec == Init /\ [][Next]_vars

-----------------------------------------------------------------------------
(* Properties                                                              *)

MMs == {a \in {mm[p] : p \in Procs} \union {nmm[p] : p \in Procs} : a # NoMM}

\* The areas of an address space are in order and apart, the cached one is
\* among them, and whatever is mapped lies in an area that allows it (vmm.c's
\* check_vma_overlap; the permissions of load_icode, do_pgfault, copy_range).
AreasSound ==
    \A a \in MMs :
       /\ \A i \in 1 .. Len(a.vmas) : a.vmas[i].s < a.vmas[i].e
       /\ \A i, j \in 1 .. Len(a.vmas) : i < j => a.vmas[i].e <= a.vmas[j].s
       /\ a.cache = NoVma \/ a.cache \in ToSet(a.vmas)
       /\ \A v \in VPages : Pte(m, a.pgdir, v) # NoPte =>
             \E vma \in ToSet(a.vmas) :
                InVma(vma, v) /\ (Pte(m, a.pgdir, v).w <=> "W" \in vma.flags)

\* Each physical page has exactly one use: it is free, part of one kernel
\* stack, one directory, one page table, or memory mapped as often as its
\* reference count says.  This is what init_main asserts of nr_free_pages when
\* all have quit, here after every failing fork, exec and fault as well
\* (proc.c:929, pmm.c:42-348).
PagesExact ==
    LET entries == {x \in Pages \X Tables : m.dir[x[1]][x[2]] # 0}
        tables == {m.dir[x[1]][x[2]] : x \in entries}
        maps == {x \in tables \X (0 .. PTN - 1) : m.tab[x[1]][x[2]] # NoPte}
        mapped == {m.tab[x[1]][x[2]].pg : x \in maps}
        stacks == {p \in Procs : kstack[p] # {}}
    IN  panic = "no" =>
          /\ m.free \union (UNION {kstack[p] : p \in Procs}) \union
                {a.pgdir : a \in MMs} \union tables \union mapped = Pages
          /\ Cardinality(m.free) + KSTACKPAGE * Cardinality(stacks) +
                Cardinality(MMs) + Cardinality(entries) + Cardinality(maps) = NPages
          /\ \A pg \in Pages :
                m.ref[pg] = IF pg \in tables \union mapped THEN 1 ELSE 0

\* Neither a page nor an area is lost or used twice, whichever allocation of a
\* fork, an exec or a fault fails (vmm.c:104-226, pmm.c:211-348, proc.c:307-676).
MemoryExact == PagesExact /\ AreasSound

\* Whenever the current process can touch user memory, the TLB says what its
\* own page table says: lcr3 does not clear it, so somebody else has.
TlbCoherent ==
    InUser =>
       /\ pgd = mm[current].pgdir /\ pgd = cr3[current]
       /\ \A en \in m.tlb : en = Refill(m, 2 * en.vpn2)

\* The kernel itself never faults for another reason than that memory is out:
\* what user_mem_check let through, and the stack load_icode has mapped, can
\* be written in the kernel.
KernelFaultsOnlyWithoutMemory ==
    /\ panic \in {"copy_range", "unhandled pgfault"} => m.free = {}
    /\ panic = "Unhandled Exception" => kacc = <<>>

\* Every process has a memory of its own that keeps what it stores.
Content(p) == [v \in VPages |->
                 LET pg == Pte(m, mm[p].pgdir, v).pg
                 IN  IF pg = 0 THEN "none" ELSE m.data[pg]]
Image(prog) ==
    [v \in VPages |->
       IF \E i \in 1 .. Len(Segs[prog]) : Segs[prog][i].s <= v /\ v < Segs[prog][i].e
       THEN LET g == Segs[prog][CHOOSE i \in 1 .. Len(Segs[prog]) :
                                   Segs[prog][i].s <= v /\ v < Segs[prog][i].e]
            IN  IF v < g.f THEN "img" ELSE "zero"
       ELSE "none"]
Private == INSTANCE MemSpec WITH
              content <- [p \in Procs |-> Content(p)], NoPage <- "none",
              Images <- {Image(prog) : prog \in Progs}
PrivateMemory == Private!Spec
=============================================================================
