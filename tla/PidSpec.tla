------------------------------ MODULE PidSpec ------------------------------
(***************************************************************************)
(* What do_fork relies on get_pid for: a new process gets a pid that no    *)
(* process in proc_list has, and reaping a process gives its pid back.     *)
(***************************************************************************)
EXTENDS Integers

CONSTANT MaxPid     \* MAX_PID

VARIABLES
    used,           \* the pids of the processes in proc_list
    count           \* how many processes there are

Init == used = {} /\ count = 0

Allocate(pid) ==
    /\ pid \in 1 .. MaxPid - 1
    /\ pid \notin used
    /\ used' = used \cup {pid}
    /\ count' = count + 1

Release(pid) ==
    /\ pid \in used
    /\ used' = used \ {pid}
    /\ count' = count - 1

Next == \E pid \in 1 .. MaxPid - 1 : Allocate(pid) \/ Release(pid)

Spec == Init /\ [][Next]_<<used, count>>
=============================================================================
