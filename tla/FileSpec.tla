------------------------------ MODULE FileSpec ------------------------------
(***************************************************************************)
(* What open files promise a user program.  A process has numbered         *)
(* descriptors of its own; a descriptor names one file until it is closed, *)
(* whatever other processes do.  What a file holds is changed only by a    *)
(* process that has it open, through a call that writes or truncates it,   *)
(* and survives closing, forking, starting programs and exiting.           *)
(***************************************************************************)
EXTENDS Integers, FiniteSets

CONSTANTS Procs, NFd, Nodes, Files, Free

VARIABLES
    table,   \* process -> descriptor -> the file, or Free
    data     \* file -> does it hold anything

Fds == 0 .. NFd - 1
AllFree == [d \in Fds |-> Free]

Init == table = [p \in Procs |-> AllFree] /\ data \in [Files -> BOOLEAN]

Named(t) == {t[d] : d \in Fds} \ {Free}

\* The calls of one process are written as relations between its old and its
\* new descriptors.  Only the files in may can change, and then they hold
\* something afterwards just if full.
Changed(may, full) ==
    \A n \in Files : data'[n] # data[n] => n \in may /\ data'[n] = full

\* open takes the lowest free descriptor; it may empty the file.
Open(old, new) ==
    \E d \in Fds, n \in Nodes :
       /\ old[d] = Free /\ \A e \in 0 .. d - 1 : old[e] # Free
       /\ new = [old EXCEPT ![d] = n]
       /\ Changed({n}, FALSE)
Dup(old, new) ==
    /\ \E d, e \in Fds : old[d] # Free /\ old[e] = Free
                         /\ new = [old EXCEPT ![e] = old[d]]
    /\ data' = data
\* A close, an exec and an exit.
Close(old, new) ==
    /\ \A d \in Fds : new[d] \in {old[d], Free}
    /\ data' = data
\* write, and seek past the end.
Write(old, new) == new = old /\ Changed(Named(old), TRUE)

Call(p, old, new) ==
    /\ \A q \in Procs \ {p} : new[q] = old[q]
    /\ \/ Close(old[p], new[p]) \/ Write(old[p], new[p])
       \/ Open(old[p], new[p]) \/ Dup(old[p], new[p])

\* q starts with the descriptors of p.
Fork(p, q, old, new) ==
    /\ old[q] = AllFree
    /\ new = [old EXCEPT ![q] = old[p]]
    /\ data' = data

Next == LET old == table
            new == table'
        IN  \/ \E p \in Procs : Call(p, old, new)
            \/ \E p, q \in Procs : Fork(p, q, old, new)

Spec == Init /\ [][Next]_<<table, data>>
=============================================================================
