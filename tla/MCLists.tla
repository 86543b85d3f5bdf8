------------------------------ MODULE MCLists ------------------------------
(* The lists of processes: proc_list, the family pointers and timer_list.  *)
(* A behaviour exercises one of them.                                      *)
EXTENDS GetPid, FiniteSets

CONSTANTS
    Procs, Idle, Initproc, NULL,    \* of the family pointers
    Sleepers, MaxSleep              \* of the timers

ASSUME ListsAssumption ==
    /\ IsFiniteSet(Procs) /\ NULL \notin Procs
    /\ Idle \in Procs /\ Initproc \in Procs /\ Idle # Initproc
    /\ MaxSleep \in Nat

VARIABLES
    part,
    parent, cptr, yptr, optr, zombie, leaving,
    timer_list, fired, failed

L == INSTANCE ProcLinks
T == INSTANCE TimerList WITH Procs <- Sleepers

links == <<parent, cptr, yptr, optr, zombie, leaving>>
timers == <<timer_list, fired, failed>>

ListsInit == part \in {"pids", "links", "timers"} /\ Init /\ L!Init /\ T!Init

ListsNext ==
    /\ UNCHANGED part
    /\ \/ part = "pids" /\ Next /\ UNCHANGED <<links, timers>>
       \/ part = "links" /\ L!Next /\ UNCHANGED <<vars, timers>>
       \/ part = "timers" /\ T!Next /\ UNCHANGED <<vars, links>>

\* get_pid is a call: it runs on.
ListsSpec == /\ ListsInit /\ [][ListsNext]_<<part, vars, links, timers>>
             /\ WF_vars(Scan \/ ScanEnd)

-----------------------------------------------------------------------------
(* Properties                                                              *)

\* The walk of do_wait from any process meets exactly its children, in the
\* middle of do_exit's loop too; remove_links can trust the sibling pointers;
\* and nothing points to a process that was freed (proc.c:133-159, 493-509).
FamiliesExact ==
    part = "links" => L!ListsAreFamilies /\ L!YoungerIsInverse /\ L!FreedIsUnreferenced

\* The pointer operations implement the lists of children of ProcTree
\* (proc.c:133-159, 493-509).
TreesRefined == L!TreeRefinement

\* Every timer expires at the tick it was set for, and the assertion of
\* run_timer_list never fails (sched.c:101-172).
TimersRefined == T!TimerRefinement /\ []T!FirstHasTime
=============================================================================
