----------------------------- MODULE ProcLinks -----------------------------
(***************************************************************************)
(* The pointers behind the family relation: cptr (youngest child), yptr    *)
(* (younger sibling), optr (older sibling) and parent, as set_links,       *)
(* remove_links and the reparenting loop of do_exit change them            *)
(* (kern/process/proc.c).  Each runs with interrupts off; the loop of      *)
(* do_exit is one action per turn, so that its intermediate states show.   *)
(***************************************************************************)
EXTENDS Integers, Sequences, FiniteSets

CONSTANTS
    Procs, Idle, Initproc,    \* idleproc and initproc are two of the processes
    NULL                      \* none of them

VARIABLES
    parent, cptr, yptr, optr,
    zombie,        \* the processes that are PROC_ZOMBIE
    leaving        \* the process in the loop of do_exit, or NULL

vars == <<parent, cptr, yptr, optr, zombie, leaving>>

Ptrs == Procs \cup {NULL}

\* The processes that exist: idleproc and those with a parent.
Live == {p \in Procs : p = Idle \/ parent[p] # NULL}

Nil == [p \in Procs |-> NULL]

\* kernel_thread(init_main) made initproc the only child of idleproc.
Init ==
    /\ parent = [Nil EXCEPT ![Initproc] = Idle]
    /\ cptr = [Nil EXCEPT ![Idle] = Initproc]
    /\ yptr = Nil
    /\ optr = Nil
    /\ zombie = {}
    /\ leaving = NULL

\* f with the value v at p, unchanged if p is the null pointer.
Store(f, p, v) == [q \in Procs |-> IF q = p THEN v ELSE f[q]]

SetLinks(p, child) ==
    LET old == cptr[p]
    IN  /\ leaving = NULL
        /\ p \in Live \ (zombie \cup {Idle})
        /\ child \notin Live
        /\ parent' = Store(parent, child, p)
        /\ optr' = Store(optr, child, old)
        /\ yptr' = Store(Store(yptr, child, NULL), old, child)
        /\ cptr' = Store(Store(cptr, child, NULL), p, child)
        /\ UNCHANGED <<zombie, leaving>>

\* The child pointer of the parent moves only when its youngest child leaves.
CptrAlways(z) == Store(cptr, parent[z], optr[z])
CptrWithout(z) ==
    IF yptr[z] = NULL THEN Store(cptr, parent[z], optr[z]) ELSE cptr

\* do_wait frees the proc_struct after remove_links.
RemoveLinks(z) ==
    /\ leaving = NULL
    /\ z \in zombie
    /\ yptr' = Store(Store(yptr, optr[z], yptr[z]), z, NULL)
    /\ optr' = Store(Store(optr, yptr[z], optr[z]), z, NULL)
    /\ cptr' = Store(CptrWithout(z), z, NULL)
    /\ parent' = Store(parent, z, NULL)
    /\ zombie' = zombie \ {z}
    /\ UNCHANGED leaving

StartExit(p) ==
    /\ leaving = NULL
    /\ p \in Live \ (zombie \cup {Idle, Initproc})
    /\ zombie' = zombie \cup {p}
    /\ leaving' = p
    /\ UNCHANGED <<parent, cptr, yptr, optr>>

\* One turn of the loop: the head of the exiting process's list goes to the
\* front of initproc's.  The yptr of the new head is left stale for a turn.
AdoptedYptrStale(proc, head) == Store(yptr, head, proc)
AdoptedYptr(proc, head) == Store(Store(yptr, proc, NULL), head, proc)

AdoptChild ==
    /\ leaving # NULL
    /\ cptr[leaving] # NULL
    /\ LET proc == cptr[leaving]
           head == cptr[Initproc]
       IN  /\ cptr' = Store(Store(cptr, leaving, optr[proc]), Initproc, proc)
           /\ yptr' = AdoptedYptr(proc, head)
           /\ optr' = Store(optr, proc, head)
           /\ parent' = Store(parent, proc, Initproc)
    /\ UNCHANGED <<zombie, leaving>>

EndExit ==
    /\ leaving # NULL
    /\ cptr[leaving] = NULL
    /\ leaving' = NULL
    /\ UNCHANGED <<parent, cptr, yptr, optr, zombie>>

Next ==
    \/ \E p, child \in Procs : SetLinks(p, child)
    \/ \E z \in Procs : RemoveLinks(z)
    \/ \E p \in Procs : StartExit(p)
    \/ AdoptChild
    \/ EndExit

Spec == Init /\ [][Next]_vars

-----------------------------------------------------------------------------
(* Properties                                                              *)

\* The list that starts at p and goes on along f, as do_wait walks along optr.
\* A walk as long as there are processes has run into a cycle and is cut off.
Along(f) == [q \in Ptrs |-> IF q = NULL THEN NULL ELSE f[q]]

Places(f, p) ==
    LET next == Along(f)
        at[n \in 1 .. Cardinality(Procs)] == IF n = 1 THEN p ELSE next[at[n - 1]]
    IN  at

Walk(f, p) ==
    LET at == Places(f, p)
        len == Cardinality({n \in DOMAIN at : at[n] # NULL})
    IN  [n \in 1 .. len |-> at[n]]

Chain(p) == Walk(optr, p)

Elements(s) == {s[i] : i \in 1 .. Len(s)}

\* Walking cptr and then optr from any process, as do_wait(0) does, meets
\* exactly the processes whose parent pointer names it, in the middle of
\* do_exit's loop too: no child is lost or listed twice.
ListsAreFamilies ==
    \A p \in Procs :
        /\ Elements(Chain(cptr[p])) = {q \in Live : parent[q] = p}
        /\ Len(Chain(cptr[p])) = Cardinality({q \in Live : parent[q] = p})

\* Outside of do_exit's loop yptr is the inverse of optr, and it is NULL just
\* for the process its parent's cptr names: what remove_links relies on when
\* it decides which pointers to mend.
YoungerIsInverse ==
    leaving = NULL => \A p \in Live \ {Idle} :
        /\ optr[p] # NULL => yptr[optr[p]] = p
        /\ yptr[p] # NULL => optr[yptr[p]] = p
        /\ yptr[p] = NULL <=> cptr[parent[p]] = p

\* A process that is freed has no children left and nothing points to it.
FreedIsUnreferenced ==
    \A p \in Procs \ Live : \A q \in Procs :
        p \notin {parent[q], cptr[q], optr[q], yptr[q]}

\* The inductive invariant behind the three: what holds of the pointers, in the
\* middle of do_exit's loop too.
Pointers ==
    /\ {parent, cptr, yptr, optr} \subseteq [Procs -> Ptrs]
    /\ zombie \subseteq Live \ {Idle, Initproc}
    /\ leaving \in zombie \cup {NULL}
    /\ parent[Idle] = NULL /\ parent[Initproc] = Idle
    /\ \A p \in Procs : {parent[p], cptr[p], yptr[p], optr[p]} \subseteq Live \cup {NULL}

\* A process has no siblings when it has no parent, and no children when it was
\* freed or is through with do_exit.
NoLooseEnds ==
    /\ \A p \in Procs : parent[p] = NULL => optr[p] = NULL /\ yptr[p] = NULL
    /\ \A p \in (Procs \ Live) \cup (zombie \ {leaving}) : cptr[p] = NULL

Siblings ==
    /\ \A p \in Procs : optr[p] # NULL => /\ parent[optr[p]] = parent[p]
                                          /\ yptr[optr[p]] = p
    /\ \A p \in Procs : cptr[p] # NULL => /\ parent[cptr[p]] = p
                                          /\ \A q \in Procs : optr[q] # cptr[p]
    /\ \A p \in Procs : parent[p] # NULL /\ cptr[parent[p]] # p =>
                             yptr[p] # NULL /\ optr[yptr[p]] = p
    /\ \A p \in Procs : parent[p] # leaving /\ yptr[p] # NULL => optr[yptr[p]] = p

\* Going from older to younger siblings ends.
NoSiblingCycle ==
    \A S \in SUBSET Procs :
        S # {} => \E p \in S : \A q \in S : optr[q] # p

LinksInv == Pointers /\ NoLooseEnds /\ Siblings /\ NoSiblingCycle

\* The pointer operations implement the lists of ProcTree.
Tree == INSTANCE ProcTree
            WITH children <- [p \in Procs |-> Chain(cptr[p])]

TreeRefinement == Tree!Spec
=============================================================================
