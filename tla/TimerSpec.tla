----------------------------- MODULE TimerSpec -----------------------------
(***************************************************************************)
(* What do_sleep relies on: a timer added with a number of ticks expires   *)
(* at exactly the tick that makes this number, unless it is deleted.       *)
(***************************************************************************)
EXTENDS Integers

CONSTANTS Procs, MaxSleep

VARIABLES
    remaining,   \* ticks until a process's timer expires, 0 if not queued
    fired        \* the processes whose timers expired at the last tick

vars == <<remaining, fired>>

Init ==
    /\ remaining = [p \in Procs |-> 0]
    /\ fired = {}

Add(p, ticks) ==
    /\ remaining[p] = 0
    /\ remaining' = [remaining EXCEPT ![p] = ticks]
    /\ fired' = {}

Delete(p) ==
    /\ remaining' = [remaining EXCEPT ![p] = 0]
    /\ fired' = {}

Tick ==
    /\ remaining' = [p \in Procs |-> IF remaining[p] > 0
                                     THEN remaining[p] - 1 ELSE 0]
    /\ fired' = {p \in Procs : remaining[p] = 1}

Next ==
    \/ \E p \in Procs, ticks \in 1 .. MaxSleep : Add(p, ticks)
    \/ \E p \in Procs : Delete(p)
    \/ Tick

Spec == Init /\ [][Next]_vars
=============================================================================
