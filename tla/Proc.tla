------------------------------- MODULE Proc -------------------------------
(***************************************************************************)
(* Processes and the scheduler of the kernel: kern/process/proc.c,         *)
(* kern/schedule/sched.c, kern/schedule/default_sched.c and the tail of    *)
(* mips_trap in kern/trap/trap.c.                                          *)
(*                                                                         *)
(* One CPU runs one process at a time.  A trap from user mode runs with    *)
(* interrupts off until it returns or calls schedule(), so an action is    *)
(* the code between two of the points where something else can happen:     *)
(* entering the kernel, calling schedule(), being switched back in, and    *)
(* returning to user mode.  pc[p] is where p resumes; at_schedule says     *)
(* that the current process stands at the call of schedule().  Only        *)
(* idleproc, initproc and user_main before its exec run kernel code with   *)
(* interrupts on.                                                          *)
(*                                                                         *)
(* A process is named by its pid; get_pid is module GetPid, the sibling    *)
(* pointers behind Children are module ProcLinks, and the delta list       *)
(* behind timer is module TimerList.                                       *)
(***************************************************************************)
EXTENDS Integers, FiniteSets, Sequences, Functions

CONSTANTS
    Procs,         \* the processes, each named by its pid
    idleproc,      \* pid 0
    initproc,      \* pid 1
    Null,          \* the null pointer, and the pid 0 that do_wait takes for any
    MaxProcess,    \* MAX_PROCESS: bound on nr_process
    MaxTimeSlice,  \* rq->max_time_slice
    MaxSleep       \* the longest argument of sys_sleep that is explored

ASSUME ProcAssumption ==
    /\ IsFiniteSet(Procs)
    /\ idleproc \in Procs /\ initproc \in Procs /\ idleproc # initproc
    /\ Null \notin Procs
    /\ MaxProcess \in Nat /\ MaxProcess >= 2
    /\ MaxTimeSlice \in Nat \ {0}
    /\ MaxSleep \in Nat

PROC_SLEEPING == "PROC_SLEEPING"
PROC_RUNNABLE == "PROC_RUNNABLE"
PROC_ZOMBIE == "PROC_ZOMBIE"
FREE == "FREE"                    \* no proc_struct carries this pid

WT_NONE == "WT_NONE"              \* wait_state = 0
WT_CHILD == "WT_CHILD"
WT_TIMER == "WT_TIMER"
WT_KBD == "WT_KBD"
WT_KSEM == "WT_KSEM"

\* The wait states whose WT_INTERRUPTED bit is set: do_kill may end them.
Interruptible == {WT_CHILD, WT_TIMER, WT_KBD}

VARIABLES
    current,      \* the running process
    at_schedule,  \* current stands at a call of schedule()
    state,        \* proc->state, FREE where there is no such process
    wait_state,   \* proc->wait_state
    exiting,      \* proc->flags & PF_EXITING
    need_resched, \* proc->need_resched
    time_slice,   \* proc->time_slice
    parent,       \* proc->parent
    pc,           \* where the process resumes in the kernel
    wait_pid,     \* the pid argument of the do_wait the process is in
    run_queue,    \* rq->run_list, first to run first
    timer,        \* ticks until the process's timer expires, 0 if not queued
    kbd_woken,    \* the readers of stdin whose wait_t was woken with WT_KBD
    nr_process,
    panic         \* "none", or what the kernel panicked for (see Panics)

cpuVars == <<current, at_schedule, run_queue>>
statusVars == <<state, wait_state>>
slotVars == <<exiting, need_resched, time_slice, parent, wait_pid, timer,
              kbd_woken, nr_process>>
vars == <<cpuVars, statusVars, slotVars, pc, panic>>

-----------------------------------------------------------------------------
(* The parts operations are made of                                        *)

Live == {p \in Procs : state[p] # FREE}

Children(p) == {q \in Live : parent[q] = p}

\* find_proc: idleproc is never hashed.
FindProc(pid) == {p \in Live \ {idleproc} : p = pid}

\* sched_class_enqueue leaves idleproc out, which never waits for its turn.
Queueable(S) == S \ {idleproc}

\* RR_enqueue gives a used up slice a new one.
RefillPastMax(S) == [p \in Procs |->
                IF p \in S /\ time_slice[p] = 0
                THEN MaxTimeSlice + 1
                ELSE time_slice[p]]
Refill(S) == [p \in Procs |->
                IF p \in S /\ (time_slice[p] = 0 \/ time_slice[p] > MaxTimeSlice)
                THEN MaxTimeSlice
                ELSE time_slice[p]]

\* What wakeup_proc does to a set S of processes: the ones that are not
\* PROC_RUNNABLE change, the others only cause a warning.
WarnIgnored(S) == S
Sleepers(S) == {p \in S : state[p] # PROC_RUNNABLE}
Enqueued(S) == Queueable(Sleepers(S) \ {current})
Awake(S) == [p \in Procs |-> IF p \in S THEN PROC_RUNNABLE ELSE state[p]]
NotWaiting(S) ==
    [p \in Procs |-> IF p \in Sleepers(S) THEN WT_NONE ELSE wait_state[p]]

\* Why the kernel panics: do_exit of idleproc or initproc; user_main could not
\* be created or execute the shell; a user trap it has no answer to; assert().
Panics == {"exit", "boot", "user", "assert"}

\* The orders in which the processes of a set can be queued.
Orders(S) == Bijection(1 .. Cardinality(S), S)

\* The assertions of wakeup_proc and of RR_enqueue.
WakeupAsserts(S) ==
    /\ \A p \in S : state[p] # PROC_ZOMBIE
    /\ \A p \in Enqueued(S) : p \notin Range(run_queue)

Asserts(cond) == panic' = IF cond THEN panic ELSE "assert"

\* current runs, in user mode or at the kernel code labelled l.
Running(l) == panic = "none" /\ ~at_schedule /\ pc[current] = l

Goto(l) == pc' = [pc EXCEPT ![current] = l]

Panic(why) == panic' = why /\ UNCHANGED <<cpuVars, statusVars, slotVars, pc>>

\* The trap changes nothing of what is modelled here and returns.
Return(l) == Goto(l) /\ UNCHANGED <<cpuVars, statusVars, slotVars, panic>>

-----------------------------------------------------------------------------
Init ==
    /\ current = idleproc
    /\ at_schedule = FALSE
    /\ state = [p \in Procs |-> IF p \in {idleproc, initproc}
                                THEN PROC_RUNNABLE ELSE FREE]
    /\ wait_state = [p \in Procs |-> WT_NONE]
    /\ exiting = [p \in Procs |-> FALSE]
    /\ need_resched = [p \in Procs |-> p = idleproc]
    /\ time_slice = [p \in Procs |-> IF p = initproc THEN MaxTimeSlice ELSE 0]
    /\ parent = [p \in Procs |-> IF p = initproc THEN idleproc ELSE Null]
    /\ pc = [p \in Procs |-> IF p = idleproc THEN "cpu_idle"
                             ELSE IF p = initproc THEN "init_main" ELSE "none"]
    /\ wait_pid = [p \in Procs |-> Null]
    /\ run_queue = <<initproc>>
    /\ timer = [p \in Procs |-> 0]
    /\ kbd_woken = {}
    /\ nr_process = 2
    /\ panic = "none"

-----------------------------------------------------------------------------
(* schedule() and the loop of cpu_idle                                     *)

\* The current process goes behind the others if it can run on; idleproc is
\* not queued and gets the CPU only when the queue is empty.
Schedule ==
    LET runnable == {p \in {current} : state[p] = PROC_RUNNABLE}
        again == IF Queueable(runnable) # {} THEN <<current>> ELSE <<>>
        rq == run_queue \o again
    IN  /\ panic = "none" /\ at_schedule
        /\ at_schedule' = FALSE
        /\ need_resched' = [need_resched EXCEPT ![current] = FALSE]
        /\ time_slice' = Refill(Range(again))
        /\ Asserts(Range(again) \cap Range(run_queue) = {})
        /\ IF rq = <<>>
           THEN current' = idleproc /\ run_queue' = rq
           ELSE current' = Head(rq) /\ run_queue' = Tail(rq)
        /\ UNCHANGED <<statusVars, exiting, parent, wait_pid, timer, kbd_woken,
                       nr_process, pc>>

CpuIdle ==
    /\ Running("cpu_idle")
    /\ need_resched[current]
    /\ at_schedule' = TRUE
    /\ UNCHANGED <<current, run_queue, statusVars, slotVars, pc, panic>>

-----------------------------------------------------------------------------
(* do_exit and the traps that end in it                                    *)

\* The parent is woken if it sleeps in do_wait.
ForgetParent(par) == FALSE
WakesParent(par) == wait_state[par] = WT_CHILD

\* initproc is woken for a zombie among the children it inherits.
ForgetInit(kids) == FALSE
WakesInit(kids) ==
    /\ \E k \in kids : state[k] = PROC_ZOMBIE
    /\ wait_state[initproc] = WT_CHILD

\* The children of an exiting process become initproc's.
KeepParent(kids) == parent
Reparented(kids) ==
    [p \in Procs |-> IF p \in kids THEN initproc ELSE parent[p]]

\* do_exit up to its call of schedule().  The parent is woken first; then the
\* children become initproc's, which is woken if one of them is a zombie.
DoExit ==
    LET par == parent[current]
        kids == Children(current)
        wpar == IF WakesParent(par) THEN {par} ELSE {}
        winit == IF WakesInit(kids) THEN {initproc} \ wpar ELSE {}
        woken == wpar \cup winit
    IN  IF current \in {idleproc, initproc}
        THEN Panic("exit")
        ELSE /\ Asserts(WakeupAsserts(woken))
             /\ state' = [Awake(woken) EXCEPT ![current] = PROC_ZOMBIE]
             /\ wait_state' = NotWaiting(woken)
             /\ time_slice' = Refill(Enqueued(woken))
             /\ run_queue' = run_queue
                    \o (IF Enqueued(wpar) # {} THEN <<par>> ELSE <<>>)
                    \o (IF Enqueued(winit) # {} THEN <<initproc>> ELSE <<>>)
             /\ parent' = Reparented(kids)
             /\ Goto("exited")
             /\ at_schedule' = TRUE
             /\ UNCHANGED <<current, exiting, need_resched, wait_pid, timer,
                            kbd_woken, nr_process>>

SysExit == Running("user") /\ DoExit

\* A fault in user mode: do_exit, or the panic for an address error.  The
\* panic for an undefined system call is here too.
UserFault == Running("user") /\ (DoExit \/ Panic("user"))

\* mips_trap after trap_dispatch, for a trap that came from user mode.
TrapTail ==
    /\ Running("tail")
    /\ \/ exiting[current] /\ DoExit
       \/ /\ ~exiting[current]
          /\ Goto("user")
          /\ at_schedule' = need_resched[current]
          /\ UNCHANGED <<current, run_queue, statusVars, slotVars, panic>>

-----------------------------------------------------------------------------
(* do_fork and do_execve                                                   *)

SetLinks(child) ==
    /\ parent' = [parent EXCEPT ![child] = current]
    /\ nr_process' = nr_process + 1

\* The success of do_fork: a child that starts at entry and a parent that goes
\* on at l.  get_pid finds a pid that no process has.
DoFork(entry, l) ==
    /\ nr_process < MaxProcess
    /\ \E child \in Procs \ Live :
        /\ state' = [state EXCEPT ![child] = PROC_RUNNABLE]
        /\ wait_state' = [wait_state EXCEPT ![child] = WT_NONE]
        /\ exiting' = [exiting EXCEPT ![child] = FALSE]
        /\ need_resched' = [need_resched EXCEPT ![child] = FALSE]
        /\ time_slice' = [time_slice EXCEPT ![child] = MaxTimeSlice]
        /\ SetLinks(child)
        /\ pc' = [pc EXCEPT ![current] = l, ![child] = entry]
        /\ Asserts(child \notin Range(run_queue))
        /\ run_queue' = Append(run_queue, child)
    /\ UNCHANGED <<current, at_schedule, wait_pid, timer, kbd_woken>>

\* sys_fork.  It fails when there are too many processes or no memory for one
\* of the parts of the child; what was allocated is then released.
SysFork == Running("user") /\ (DoFork("user", "tail") \/ Return("tail"))

\* sys_exec: a new program, or an error of the arguments, returns; an error
\* after the open files were closed ends the process.
SysExec == Running("user") /\ (Return("tail") \/ DoExit)

\* init_main up to its loop.
InitMain ==
    Running("init_main") /\ (DoFork("user_main", "init_loop") \/ Panic("boot"))

\* user_main executes the shell from kernel mode.
UserMain ==
    Running("user_main") /\ (Return("user") \/ DoExit \/ Panic("boot"))

-----------------------------------------------------------------------------
(* do_wait                                                                 *)

\* The children do_wait(pid) looks at.
WaitAnybody(pid) == IF pid = Null THEN Children(current) ELSE FindProc(pid)
WaitKids(pid) == IF pid = Null THEN Children(current)
                 ELSE FindProc(pid) \cap Children(current)

RemoveLinksKeepsCount(z) ==
    /\ parent' = [parent EXCEPT ![z] = Null]
    /\ nr_process' = nr_process
RemoveLinks(z) ==
    /\ parent' = [parent EXCEPT ![z] = Null]
    /\ nr_process' = nr_process - 1

\* From the label repeat of do_wait(pid) to its return or call of schedule().
\* With pid = 0 (Null) any child will do; the code takes the youngest zombie.
DoWait(pid, found, failed) ==
    LET kids == WaitKids(pid)
        zombies == {k \in kids : state[k] = PROC_ZOMBIE}
    IN  \/ /\ zombies # {}
           /\ \E z \in zombies :
               /\ state' = [state EXCEPT ![z] = FREE]
               /\ RemoveLinks(z)
               /\ pc' = [pc EXCEPT ![current] = found, ![z] = "none"]
               /\ exiting' = [exiting EXCEPT ![z] = FALSE]
               /\ need_resched' = [need_resched EXCEPT ![z] = FALSE]
               /\ time_slice' = [time_slice EXCEPT ![z] = 0]
               /\ wait_pid' = [wait_pid EXCEPT ![current] = Null, ![z] = Null]
           /\ at_schedule' = (found = "init_loop")
           /\ UNCHANGED <<current, run_queue, wait_state, timer, kbd_woken,
                          panic>>
        \/ /\ zombies = {} /\ kids # {}
           /\ state' = [state EXCEPT ![current] = PROC_SLEEPING]
           /\ wait_state' = [wait_state EXCEPT ![current] = WT_CHILD]
           /\ wait_pid' = [wait_pid EXCEPT ![current] = pid]
           /\ Goto("wait")
           /\ at_schedule' = TRUE
           /\ UNCHANGED <<current, run_queue, exiting, need_resched, time_slice,
                          parent, timer, kbd_woken, nr_process, panic>>
        \/ /\ kids = {}
           /\ Goto(failed)
           /\ wait_pid' = [wait_pid EXCEPT ![current] = Null]
           /\ UNCHANGED <<cpuVars, statusVars, exiting, need_resched, time_slice,
                          parent, timer, kbd_woken, nr_process, panic>>

SysWait == Running("user") /\ \E pid \in Procs \cup {Null} : DoWait(pid, "tail", "tail")

\* The loop of init_main: wait for any child, then schedule().
InitWait == Running("init_loop") /\ DoWait(Null, "init_loop", "init_end")

\* do_wait after its call of schedule().
WaitResumed ==
    /\ Running("wait")
    /\ \/ exiting[current] /\ DoExit
       \/ /\ ~exiting[current]
          /\ IF current = initproc
             THEN DoWait(Null, "init_loop", "init_end")
             ELSE DoWait(wait_pid[current], "tail", "tail")

\* The end of init_main: its checks, and then do_exit.
InitEnd ==
    /\ Running("init_end")
    /\ IF Children(initproc) = {} /\ nr_process = 2 /\ Live = {idleproc, initproc}
       THEN DoExit
       ELSE Panic("assert")

-----------------------------------------------------------------------------
(* do_kill, do_yield, do_sleep and the system calls that touch no process  *)

\* wakeup_proc of the processes of S, in the order ws in which they are queued.
WakeupProcs(S, ws) ==
    /\ state' = Awake(S)
    /\ wait_state' = NotWaiting(S)
    /\ run_queue' = run_queue \o ws

SysKill ==
    /\ Running("user")
    /\ Goto("tail")
    /\ \/ \E p \in Live \ {idleproc} :
          LET S == IF wait_state[p] \in Interruptible THEN {p} ELSE {}
          IN  /\ ~exiting[p]
              /\ exiting' = [exiting EXCEPT ![p] = TRUE]
              /\ Asserts(WakeupAsserts(S))
              /\ \E ws \in Orders(Enqueued(S)) : WakeupProcs(S, ws)
              /\ time_slice' = Refill(Enqueued(S))
       \/ /\ \E pid \in Procs : \A p \in FindProc(pid) : exiting[p]
          /\ UNCHANGED <<run_queue, statusVars, exiting, time_slice, panic>>
    /\ UNCHANGED <<current, at_schedule, need_resched, parent, wait_pid, timer,
                   kbd_woken, nr_process>>

SysYield ==
    /\ Running("user")
    /\ Goto("tail")
    /\ need_resched' = [need_resched EXCEPT ![current] = TRUE]
    /\ UNCHANGED <<cpuVars, statusVars, exiting, time_slice, parent, wait_pid,
                   timer, kbd_woken, nr_process, panic>>

\* sys_getpid, sys_gettime and the like, and errors of the arguments.
SysOther == Running("user") /\ Return("tail")

SysSleep ==
    /\ Running("user")
    /\ \E time \in 1 .. MaxSleep : timer' = [timer EXCEPT ![current] = time]
    /\ state' = [state EXCEPT ![current] = PROC_SLEEPING]
    /\ wait_state' = [wait_state EXCEPT ![current] = WT_TIMER]
    /\ Goto("sleep")
    /\ at_schedule' = TRUE
    /\ UNCHANGED <<current, run_queue, exiting, need_resched, time_slice,
                   parent, wait_pid, kbd_woken, nr_process, panic>>

\* do_sleep after its call of schedule(): del_timer.
SleepResumedTimerLeft ==
    /\ Running("sleep")
    /\ Return("tail")
SleepResumed ==
    /\ Running("sleep")
    /\ timer' = [timer EXCEPT ![current] = 0]
    /\ Goto("tail")
    /\ UNCHANGED <<cpuVars, statusVars, exiting, need_resched, time_slice,
                   parent, wait_pid, kbd_woken, nr_process, panic>>

\* dev_stdin_read when the buffer of stdin (module Stdin) is empty.
WaitForKey ==
    /\ state' = [state EXCEPT ![current] = PROC_SLEEPING]
    /\ wait_state' = [wait_state EXCEPT ![current] = WT_KBD]
    /\ kbd_woken' = kbd_woken \ {current}
    /\ Goto("read")
    /\ at_schedule' = TRUE
    /\ UNCHANGED <<current, run_queue, exiting, need_resched, time_slice,
                   parent, wait_pid, timer, nr_process, panic>>

SysRead == Running("user") /\ WaitForKey

\* dev_stdin_read after its call of schedule(): it leaves the wait queue.  When
\* it was woken for a key it looks again, and the buffer may be empty again.
ReadResumed ==
    /\ Running("read")
    /\ \/ current \in kbd_woken /\ WaitForKey
       \/ /\ Goto("tail")
          /\ kbd_woken' = kbd_woken \ {current}
          /\ UNCHANGED <<cpuVars, statusVars, exiting, need_resched, time_slice,
                         parent, wait_pid, timer, nr_process, panic>>

-----------------------------------------------------------------------------
(* The interrupts                                                          *)

KernelThread == current \in {idleproc, initproc} \/ pc[current] = "user_main"

InterruptsOn == panic = "none" /\ (KernelThread \/ Running("user"))

\* mips_trap goes to its tail only if the trap came from user mode.
IntReturn == IF KernelThread THEN UNCHANGED pc ELSE Goto("tail")

\* RR_proc_tick.
SliceKept == time_slice[current]
SliceLeft == IF time_slice[current] > 0 THEN time_slice[current] - 1 ELSE 0

\* run_timer_list, then sched_class_proc_tick(current).
ClockInt ==
    LET expired == {p \in Procs : timer[p] = 1}
        enqueued == Enqueued(expired)
    IN  /\ InterruptsOn
        /\ Asserts(/\ \A p \in expired : wait_state[p] \in {WT_NONE} \cup Interruptible
                   /\ WakeupAsserts(expired))
        /\ timer' = [p \in Procs |-> IF timer[p] > 0 THEN timer[p] - 1 ELSE 0]
        /\ \E ws \in Orders(enqueued) : WakeupProcs(expired, ws)
        /\ time_slice' = IF current = idleproc
                         THEN Refill(enqueued)
                         ELSE [Refill(enqueued) EXCEPT ![current] = SliceLeft]
        /\ need_resched' = [need_resched EXCEPT ![current] =
                               @ \/ current = idleproc \/ SliceLeft = 0]
        /\ IntReturn
        /\ UNCHANGED <<current, at_schedule, exiting, parent, wait_pid,
                       kbd_woken, nr_process>>

\* A key: dev_stdin_write wakes every process in the wait queue of stdin,
\* which a killed reader is in until it runs.
SerialInt ==
    LET waiting == {p \in Procs : pc[p] = "read"} \ kbd_woken
        enqueued == Enqueued(waiting)
    IN  /\ InterruptsOn
        /\ Asserts(WakeupAsserts(waiting))
        /\ \E ws \in Orders(enqueued) : WakeupProcs(waiting, ws)
        /\ time_slice' = Refill(enqueued)
        /\ kbd_woken' = kbd_woken \cup waiting
        /\ IntReturn
        /\ UNCHANGED <<current, at_schedule, exiting, need_resched, parent,
                       wait_pid, timer, nr_process>>

\* panic() does not return.
Halted == panic # "none" /\ UNCHANGED vars

-----------------------------------------------------------------------------
Kernel ==
    \/ Schedule \/ CpuIdle \/ TrapTail \/ InitMain \/ UserMain
    \/ InitWait \/ WaitResumed \/ InitEnd \/ SleepResumed \/ ReadResumed

User ==
    \/ SysExit \/ UserFault \/ SysFork \/ SysExec \/ SysWait \/ SysKill
    \/ SysYield \/ SysSleep \/ SysRead \/ SysOther

Next == Kernel \/ User \/ ClockInt \/ SerialInt \/ Halted

Spec == Init /\ [][Next]_vars

\* The timer interrupt stays pending until Compare is rewritten, so it is taken
\* when interrupts are enabled often enough; kernel code runs to completion.
Fairness == WF_vars(Kernel) /\ SF_vars(ClockInt)

FairSpec == Spec /\ Fairness

-----------------------------------------------------------------------------
(* Properties                                                              *)

Labels == {"none", "cpu_idle", "init_main", "init_loop", "init_end",
           "user_main", "user", "tail", "wait", "sleep", "read", "exited"}

\* Type invariant: every field of every proc_struct has one of its values.
TypeOK ==
    /\ current \in Procs
    /\ at_schedule \in BOOLEAN
    /\ state \in [Procs -> {FREE, PROC_SLEEPING, PROC_RUNNABLE, PROC_ZOMBIE}]
    /\ wait_state \in [Procs -> {WT_NONE, WT_CHILD, WT_TIMER, WT_KBD, WT_KSEM}]
    /\ exiting \in [Procs -> BOOLEAN]
    /\ need_resched \in [Procs -> BOOLEAN]
    /\ time_slice \in [Procs -> 0 .. MaxTimeSlice]
    /\ parent \in [Procs -> Procs \cup {Null}]
    /\ pc \in [Procs -> Labels]
    /\ wait_pid \in [Procs -> Procs \cup {Null}]
    /\ run_queue \in Seq(Procs)
    /\ timer \in [Procs -> Nat]
    /\ kbd_woken \subseteq Procs
    /\ nr_process \in Int
    /\ panic \in {"none"} \cup Panics

\* The run queue holds each runnable process other than the current one and
\* idleproc exactly once and nothing else: wakeup_proc, schedule and do_fork
\* neither lose a process nor queue it twice, whatever wakes it, and idleproc,
\* which schedule falls back on, is never in it (sched.c:16-18, 90-92).
RunQueueExact ==
    /\ Range(run_queue)
          = {p \in Procs : state[p] = PROC_RUNNABLE} \ {current, idleproc}
    /\ IsInjective(run_queue)

\* do_exit leaves no orphan: the parent of a process exists and is not a zombie,
\* so that somebody can still reap it.
ParentCanReap ==
    \A p \in Live \ {idleproc} :
        parent[p] \in Live /\ state[parent[p]] # PROC_ZOMBIE

\* q is a child whose end the do_wait of p returns for.
WaitsFor(p, q) == q \in Children(p) /\ wait_pid[p] \in {Null, q}

\* No wakeup is lost: a process asleep in do_wait has no zombie child it waits
\* for, though do_exit may run between its scan and its call of schedule(), and
\* still has a child to wait for; one asleep in do_sleep has a running timer; one
\* asleep in dev_stdin_read is in the wait queue of stdin.
NoLostWakeup ==
    \A p \in Procs :
        /\ wait_state[p] = WT_CHILD =>
              /\ \E q \in Procs : WaitsFor(p, q)
              /\ \A q \in Procs : WaitsFor(p, q) => state[q] # PROC_ZOMBIE
        /\ wait_state[p] = WT_TIMER => timer[p] > 0
        /\ wait_state[p] = WT_KBD => p \notin kbd_woken

\* The timer of do_sleep lives on the kernel stack: it is never in timer_list
\* once its process left do_sleep, killed sleepers included.
TimerInsideSleep ==
    \A p \in Procs : timer[p] > 0 =>
        pc[p] = "sleep" /\ state[p] \in {PROC_SLEEPING, PROC_RUNNABLE}

\* Where the kernel code of a process stands, its state and its wait_state agree:
\* only a process at schedule() may be current and not runnable, a sleeper is in
\* the call its wait_state names, idleproc never sleeps, initproc never ends.
UserLabels == {"none", "user_main", "user", "tail", "wait", "sleep", "read",
               "exited"}
StatesAgree ==
    /\ state[idleproc] = PROC_RUNNABLE /\ pc[idleproc] = "cpu_idle"
    /\ state[initproc] \in {PROC_RUNNABLE, PROC_SLEEPING}
    /\ pc[initproc] \in {"init_main", "init_loop", "init_end", "wait"}
    /\ parent[idleproc] = Null /\ parent[initproc] = idleproc
    /\ wait_pid[initproc] = Null
    /\ state[current] # FREE
    /\ ~ at_schedule => state[current] = PROC_RUNNABLE
    /\ \A p \in Procs :
        /\ p \notin {idleproc, initproc} => pc[p] \in UserLabels
        /\ wait_state[p] # WT_NONE <=> state[p] = PROC_SLEEPING
        /\ state[p] = PROC_ZOMBIE <=> pc[p] = "exited"
        /\ state[p] = FREE <=> pc[p] = "none"
        /\ wait_state[p] = WT_CHILD => pc[p] = "wait"
        /\ wait_state[p] = WT_TIMER => pc[p] = "sleep"
        /\ wait_state[p] = WT_KBD => pc[p] = "read"
        /\ wait_state[p] # WT_KSEM
        /\ parent[p] # p

\* The inductive invariant behind the theorems of ProcProofs.
ProcInv ==
    /\ TypeOK /\ RunQueueExact /\ StatesAgree /\ ParentCanReap
    /\ NoLostWakeup /\ TimerInsideSleep

\* nr_process counts the proc_structs that exist, so do_fork's limit is exact.
ProcCount == nr_process = Cardinality(Live) /\ nr_process <= MaxProcess

\* What the checks at the end of init_main rest on.  Whatever group of processes
\* is taken, one of them has its parent outside: nobody is its own ancestor,
\* though do_exit hangs children elsewhere and a pid is used again.
NoFamilyCycle ==
    \A S \in SUBSET (Live \ {idleproc, initproc}) :
        S # {} => \E p \in S : parent[p] \notin S

\* idleproc has no child but initproc, and initproc leaves its loop alone.
InitLeavesAlone ==
    /\ \A p \in Procs : parent[p] = idleproc => p = initproc
    /\ pc[initproc] = "init_end" =>
          current = initproc /\ ~ at_schedule /\ Children(initproc) = {}

\* No assertion of wakeup_proc, RR_enqueue, run_timer_list or the end of
\* init_main ever fails (sched.c:59, 156, proc.c:932-935), because the states
\* and the count of the processes stay consistent whoever wakes or kills whom.
ProcsConsistent == panic # "assert" /\ StatesAgree /\ ProcCount

\* The inductive invariant behind ProcsConsistent.
ConsistentInv ==
    /\ ProcInv /\ panic # "assert" /\ ProcCount
    /\ NoFamilyCycle /\ InitLeavesAlone

\* A zombie stays one until its parent frees it: it never runs again and
\* is never woken, whatever timers and waiters it left behind.
ZombieOnlyReaped ==
    [][\A p \in Procs : state[p] = PROC_ZOMBIE =>
          \/ state'[p] = PROC_ZOMBIE /\ (current' = p => at_schedule')
          \/ state'[p] = FREE /\ current = parent[p]]_vars

\* Round robin starves nobody it queues: a runnable process gets the CPU, also
\* one that is woken while idleproc runs and is not switched to before the next
\* tick (sched.c:34, 82-94).  idleproc itself may starve.
RunnableRuns ==
    \A p \in Procs \ {idleproc} :
        state[p] = PROC_RUNNABLE ~> (current = p \/ panic # "none")

\* initproc reaps every zombie that is or becomes its child.
InitReaps ==
    \A p \in Procs : (state[p] = PROC_ZOMBIE /\ parent[p] = initproc)
                         ~> (state[p] = FREE \/ panic # "none")

\* A process that was killed ends: SYS_kill sets PF_EXITING, wakes the process
\* and has it run do_exit (proc.c:59-60), so that user/spin.c waits for the child
\* it killed.  The code breaks it: do_wait and dev_stdin_read go to sleep with
\* the flag set, and a second kill finds it set and wakes nobody.
KilledDies ==
    \A p \in Procs : exiting[p] ~> (state[p] \in {PROC_ZOMBIE, FREE} \/ panic # "none")

=============================================================================
