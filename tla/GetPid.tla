------------------------------- MODULE GetPid -------------------------------
(***************************************************************************)
(* get_pid of kern/process/proc.c, one action per turn of its loop, with   *)
(* the two callers that change proc_list: do_fork links the new process in *)
(* front, do_wait unlinks a reaped one.  get_pid itself is not interrupted *)
(* by either: the kernel is not preemptive.                                *)
(*                                                                         *)
(* The code keeps in next_safe the smallest pid in use above last_pid it   *)
(* saw on its last walk, and hands out the pids below it without looking   *)
(* at the list again.                                                      *)
(***************************************************************************)
EXTENDS Integers, Sequences

CONSTANTS
    MaxPid,      \* MAX_PID
    MaxProcess   \* MAX_PROCESS

\* The static_assert of get_pid.
ASSUME PidAssumption ==
    /\ MaxPid \in Nat /\ MaxProcess \in Nat
    /\ MaxProcess >= 2 /\ MaxPid > MaxProcess

VARIABLES
    last_pid,    \* static int last_pid
    next_safe,   \* static int next_safe
    proc_list,   \* the pids in proc_list, front first; idleproc is not in it
    le,          \* the position of the list cursor
    pc           \* "out" of get_pid, in the "scan" loop, or at its "return"

vars == <<last_pid, next_safe, proc_list, le, pc>>

Init ==
    /\ last_pid = MaxPid
    /\ next_safe = MaxPid
    /\ proc_list = <<>>
    /\ le = 1
    /\ pc = "out"

StartScan ==
    /\ next_safe' = MaxPid
    /\ le' = 1
    /\ pc' = "scan"

\* The pid is not known to be free.
PastOffByOne(pid) == pid > next_safe
Past(pid) == pid >= next_safe

\* do_fork calls get_pid; nr_process counts idleproc too.
CallGetPid ==
    /\ pc = "out"
    /\ Len(proc_list) + 1 < MaxProcess
    /\ \/ /\ last_pid + 1 >= MaxPid
          /\ last_pid' = 1
          /\ StartScan
       \/ /\ last_pid + 1 < MaxPid
          /\ last_pid' = last_pid + 1
          /\ IF Past(last_pid + 1)
             THEN StartScan
             ELSE pc' = "return" /\ UNCHANGED <<next_safe, le>>
    /\ UNCHANGED proc_list

\* The pid to try after one that turned out to be in use, past the last of
\* which the search starts again from 1.
WrapClamped(pid) == IF pid >= MaxPid THEN MaxPid - 1 ELSE pid
Wrap(pid) == IF pid >= MaxPid THEN 1 ELSE pid

\* One turn of the while loop.
Scan ==
    /\ pc = "scan" /\ le <= Len(proc_list)
    /\ LET pid == proc_list[le] IN
       \/ /\ pid = last_pid
          /\ last_pid + 1 >= next_safe
          /\ last_pid' = Wrap(last_pid + 1)
          /\ StartScan
       \/ /\ pid = last_pid
          /\ last_pid + 1 < next_safe
          /\ last_pid' = last_pid + 1
          /\ le' = le + 1
          /\ UNCHANGED <<next_safe, pc>>
       \/ /\ pid # last_pid
          /\ next_safe' = IF pid > last_pid /\ next_safe > pid
                          THEN pid ELSE next_safe
          /\ le' = le + 1
          /\ UNCHANGED <<last_pid, pc>>
    /\ UNCHANGED proc_list

ScanEnd ==
    /\ pc = "scan" /\ le > Len(proc_list)
    /\ pc' = "return"
    /\ UNCHANGED <<last_pid, next_safe, proc_list, le>>

\* Back in do_fork: set_links puts the new process in front.
Link ==
    /\ pc = "return"
    /\ proc_list' = <<last_pid>> \o proc_list
    /\ le' = 1
    /\ pc' = "out"
    /\ UNCHANGED <<last_pid, next_safe>>

\* remove_links, from do_wait.  initproc, pid 1, is never reaped.
Without(s, i) == [j \in 1 .. Len(s) - 1 |-> IF j < i THEN s[j] ELSE s[j + 1]]

Reap ==
    /\ pc = "out"
    /\ \E i \in 1 .. Len(proc_list) :
          /\ proc_list[i] # 1
          /\ proc_list' = Without(proc_list, i)
    /\ UNCHANGED <<last_pid, next_safe, le, pc>>

Next == CallGetPid \/ Scan \/ ScanEnd \/ Link \/ Reap

Spec == Init /\ [][Next]_vars

-----------------------------------------------------------------------------
(* Properties                                                              *)

\* Type invariant.
TypeOK ==
    /\ last_pid \in 1 .. MaxPid
    /\ next_safe \in 1 .. MaxPid
    /\ proc_list \in Seq(1 .. MaxPid - 1)
    /\ le \in Nat \ {0}
    /\ pc \in {"out", "scan", "return"}

\* No two processes in proc_list ever have the same pid, through any sequence
\* of forks and reaps and any number of wraps past MAX_PID.
PidsDistinct ==
    \A i, j \in 1 .. Len(proc_list) : proc_list[i] = proc_list[j] => i = j

\* The cache is sound: outside of a walk no process has a pid strictly between
\* last_pid and next_safe, which is what lets get_pid skip the walk.
GapIsFree ==
    pc # "scan" =>
        \A i \in 1 .. Len(proc_list) :
            ~ (last_pid < proc_list[i] /\ proc_list[i] < next_safe)

\* The pid get_pid returns is in range and in use by nobody.
ReturnsUnused ==
    pc = "return" =>
        /\ last_pid \in 1 .. MaxPid - 1
        /\ \A i \in 1 .. Len(proc_list) : proc_list[i] # last_pid

\* During a walk the part of the list already passed holds neither the pid
\* under test nor one between it and next_safe, restarts included.
ScannedIsFree ==
    pc = "scan" =>
        /\ last_pid < next_safe
        /\ \A i \in 1 .. Len(proc_list) : i < le =>
              proc_list[i] # last_pid /\
              ~ (last_pid < proc_list[i] /\ proc_list[i] < next_safe)

\* The inductive invariant.
PidInv ==
    TypeOK /\ PidsDistinct /\ GapIsFree /\ ReturnsUnused /\ ScannedIsFree

\* get_pid returns although its loop restarts: there are more pids than
\* processes.
GetPidReturns == pc = "scan" ~> pc = "return"

\* get_pid implements the allocation of an unused pid.
Pids == INSTANCE PidSpec
            WITH used <- {proc_list[i] : i \in 1 .. Len(proc_list)},
                 count <- Len(proc_list)

PidRefinement == Pids!Spec
=============================================================================
