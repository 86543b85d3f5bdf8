------------------------------ MODULE ProcTree ------------------------------
(***************************************************************************)
(* The family relation do_wait and do_exit rely on: every process has a    *)
(* list of children, youngest first.                                       *)
(***************************************************************************)
EXTENDS Integers, Sequences

CONSTANTS Procs, Idle, Initproc

VARIABLE children     \* [Procs -> Seq(Procs)]

Elements(s) == {s[i] : i \in 1 .. Len(s)}

Linked == UNION {Elements(children[p]) : p \in Procs}

Init == children = [p \in Procs |-> IF p = Idle THEN <<Initproc>> ELSE <<>>]

\* A child is born in front of its siblings.
Fork(p, child) ==
    /\ p \in Linked
    /\ child \notin Linked \cup {Idle}
    /\ children' = [children EXCEPT ![p] = <<child>> \o @]

\* A childless process is unlinked; its siblings keep their order.
Reap(z) ==
    /\ z \in Linked
    /\ children[z] = <<>>
    /\ \E p \in Procs : \E i \in 1 .. Len(children[p]) :
          /\ children[p][i] = z
          /\ children' = [children EXCEPT ![p] = SubSeq(@, 1, i - 1) \o SubSeq(@, i + 1, Len(@))]

\* One child of an exiting process, its youngest, becomes initproc's youngest.
Adopt(p) ==
    /\ children[p] # <<>>
    /\ children' = [children EXCEPT ![p] = Tail(@),
                                    ![Initproc] = <<Head(children[p])>> \o @]

Next ==
    \/ \E p, child \in Procs : Fork(p, child)
    \/ \E z \in Procs \ {Initproc} : Reap(z)
    \/ \E p \in Procs \ {Idle, Initproc} : Adopt(p)

Spec == Init /\ [][Next]_children
=============================================================================
