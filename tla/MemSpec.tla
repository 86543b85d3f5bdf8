------------------------------ MODULE MemSpec ------------------------------
(***************************************************************************)
(* What the address spaces of kern/mm promise to user programs: each       *)
(* process has a memory of its own that keeps what was stored in it.  A    *)
(* page appears when it is first touched, with a content nobody vouches    *)
(* for; fork gives the child a copy; exec replaces everything by the       *)
(* image of the program.                                                   *)
(***************************************************************************)
EXTENDS Integers

CONSTANTS Procs, VPages, Vals, Images, NoPage

VARIABLE content    \* content[p][v]: what process p has at page v, or NoPage

Nothing == [v \in VPages |-> NoPage]

Init == content = [p \in Procs |-> Nothing]

\* What may happen to the memory of one process, from old to new.
Store(old, new) ==
    \E v \in VPages : /\ old[v] # NoPage /\ new[v] \in Vals
                      /\ new = [old EXCEPT ![v] = new[v]]
FirstTouch(old, new) ==
    \E v \in VPages : /\ old[v] = NoPage /\ new[v] \in Vals
                      /\ new = [old EXCEPT ![v] = new[v]]
Fork(old, new, p) == old = Nothing /\ \E q \in Procs \ {p} : new = content[q]
Exec(old, new) == old = Nothing /\ new \in Images
Drop(old, new) == new = Nothing

Next ==
    \E p \in Procs :
       LET old == content[p]
           new == content'[p]
       IN  /\ \A q \in Procs \ {p} : content'[q] = content[q]
           /\ \/ Drop(old, new)
              \/ Store(old, new)
              \/ FirstTouch(old, new)
              \/ Fork(old, new, p)
              \/ Exec(old, new)

Spec == Init /\ [][Next]_content
=============================================================================
