----------------------------- MODULE TimerList -----------------------------
(***************************************************************************)
(* timer_list of kern/schedule/sched.c: add_timer, del_timer and           *)
(* run_timer_list.  The list is ordered by expiry and each timer holds the *)
(* ticks that are left after the one before it expired.  Each operation    *)
(* runs with interrupts off.                                               *)
(***************************************************************************)
EXTENDS Integers, Sequences, FiniteSets

CONSTANTS
    Procs,       \* one timer per process: it is a local variable of do_sleep
    MaxSleep     \* the longest time that is explored

VARIABLES
    timer_list,  \* sequence of [proc |-> p, expires |-> n]
    fired,       \* the processes run_timer_list woke at the last tick
    failed       \* the assertion of run_timer_list failed

vars == <<timer_list, fired, failed>>

Init ==
    /\ timer_list = <<>>
    /\ fired = {}
    /\ failed = FALSE

Queued == {timer_list[i].proc : i \in 1 .. Len(timer_list)}

\* Ticks until the timers of s expire: the i-th after sum[i].
Expiry(s) ==
    LET sum[i \in 0 .. Len(s)] == IF i = 0 THEN 0
                                  ELSE sum[i - 1] + s[i].expires
    IN  sum

Take(s, n) == SubSeq(s, 1, n)
Drop(s, n) == SubSeq(s, n + 1, Len(s))

\* How many timers add_timer passes before it inserts one of the given time:
\* all that do not expire later.
Passed(s, time) == Cardinality({i \in 1 .. Len(s) : Expiry(s)[i] <= time})

\* The timer behind the new one has that much less left after it.
KeepTime(later, expires) == later
TakeTime(later, expires) ==
    IF later = <<>> THEN later ELSE [later EXCEPT ![1].expires = @ - expires]

AddTimer(p, time) ==
    LET n == Passed(timer_list, time)
        expires == time - Expiry(timer_list)[n]
    IN  /\ p \notin Queued
        /\ timer_list' = Append(Take(timer_list, n),
                                [proc |-> p, expires |-> expires])
                         \o TakeTime(Drop(timer_list, n), expires)
        /\ fired' = {}
        /\ UNCHANGED failed

\* The time of a deleted timer goes to the one behind it.
GiveTime(later, expires) ==
    IF later = <<>> \/ expires = 0 THEN later
    ELSE [later EXCEPT ![1].expires = @ + expires]

\* del_timer; nothing happens for a timer that is not queued, as when it
\* expired before its process ran again.
DelTimer(p) ==
    /\ \/ \E i \in 1 .. Len(timer_list) :
             /\ timer_list[i].proc = p
             /\ timer_list' = Take(timer_list, i - 1)
                    \o GiveTime(Drop(timer_list, i), timer_list[i].expires)
       \/ p \notin Queued /\ UNCHANGED timer_list
    /\ fired' = {}
    /\ UNCHANGED failed

\* The timers at the front of s whose time is up.
Expired(s) ==
    Cardinality({i \in 1 .. Len(s) : \A j \in 1 .. i : s[j].expires = 0})

\* run_timer_list: the first timer loses a tick; every timer that is at 0 then
\* is deleted and its process woken.
RunTimerList ==
    LET s == IF timer_list = <<>> THEN timer_list
             ELSE [timer_list EXCEPT ![1].expires = @ - 1]
        n == Expired(s)
    IN  /\ failed' = (timer_list # <<>> /\ timer_list[1].expires = 0)
        /\ timer_list' = Drop(s, n)
        /\ fired' = {s[i].proc : i \in 1 .. n}

Next ==
    \/ \E p \in Procs, time \in 1 .. MaxSleep : AddTimer(p, time)
    \/ \E p \in Procs : DelTimer(p)
    \/ RunTimerList

Spec == Init /\ [][Next]_vars

-----------------------------------------------------------------------------
(* Properties                                                              *)

\* The assertion in run_timer_list holds: the first timer always has ticks left,
\* even when the one before it was deleted or others expire with it.
FirstHasTime ==
    /\ ~ failed
    /\ timer_list # <<>> => timer_list[1].expires > 0

\* The inductive invariant behind it: a process has one timer at most.
TimerInv ==
    /\ timer_list \in Seq([proc : Procs, expires : Nat])
    /\ \A i, j \in 1 .. Len(timer_list) : timer_list[i].proc = timer_list[j].proc => i = j
    /\ FirstHasTime

\* Ticks until the timer of a process expires, 0 if it has none.
Remaining(s) ==
    [p \in Procs |->
        LET at == {i \in 1 .. Len(s) : s[i].proc = p}
        IN  IF at = {} THEN 0 ELSE Expiry(s)[CHOOSE i \in at : TRUE]]

\* Every timer expires at the tick it was set for, however many timers were
\* added or deleted before and behind it in the meantime.
Timers == INSTANCE TimerSpec WITH remaining <- Remaining(timer_list)

TimerRefinement == Timers!Spec
=============================================================================
