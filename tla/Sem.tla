-------------------------------- MODULE Sem --------------------------------
(***************************************************************************)
(* Kernel semaphores: kern/sync/sem.c on the wait queues of                *)
(* kern/sync/wait.c, for one semaphore and the processes that use it.      *)
(* down and up run with interrupts off; a process gives up the CPU only in *)
(* the schedule() of __down, so an action is one of the code segments this *)
(* call separates.  Which runnable process goes on is up to the scheduler. *)
(***************************************************************************)
EXTENDS Integers, Sequences, FiniteSets, Functions

CONSTANTS
    Procs,
    Value       \* the value sem_init was called with

ASSUME SemAssumption == Value \in Nat /\ IsFiniteSet(Procs)

VARIABLES
    value,         \* sem->value
    wait_queue,    \* sem->wait_queue, first waiter first
    wait_state,    \* proc->wait_state: WT_KSEM while asleep in __down
    wakeup_flags,  \* wait->wakeup_flags of the process's wait_t
    pc,            \* "out", asleep or resumed in "down", or holding: "in"
    exiting,       \* the processes with PF_EXITING set
    failed         \* an assertion of sem.c or wait.c failed

vars == <<value, wait_queue, wait_state, wakeup_flags, pc, exiting, failed>>

\* The wait states do_kill ends: WT_KSEM lacks the WT_INTERRUPTED bit.
KillableAll == {"WT_CHILD", "WT_TIMER", "WT_KBD", "WT_KSEM"}
Killable == {"WT_CHILD", "WT_TIMER", "WT_KBD"}

Waiters == Range(wait_queue)

Init ==
    /\ value = Value
    /\ wait_queue = <<>>
    /\ wait_state = [p \in Procs |-> "0"]
    /\ wakeup_flags = [p \in Procs |-> "WT_INTERRUPTED"]
    /\ pc = [p \in Procs |-> "out"]
    /\ exiting = {}
    /\ failed = FALSE

\* __down up to its return or its call of schedule().
Down(p) ==
    /\ pc[p] = "out"
    /\ \/ /\ value > 0
          /\ value' = value - 1
          /\ pc' = [pc EXCEPT ![p] = "in"]
          /\ UNCHANGED <<wait_queue, wait_state, wakeup_flags, failed>>
       \/ /\ value <= 0
          /\ wait_state' = [wait_state EXCEPT ![p] = "WT_KSEM"]
          /\ wakeup_flags' = [wakeup_flags EXCEPT ![p] = "WT_INTERRUPTED"]
          /\ wait_queue' = Append(wait_queue, p)
          /\ failed' = (p \in Waiters)
          /\ pc' = [pc EXCEPT ![p] = "down"]
          /\ UNCHANGED value
    /\ UNCHANGED exiting

\* wait_current_del: only a process still in the queue is taken off it.
QueueUnchecked(p) == IF wait_queue = <<>> THEN <<>> ELSE Tail(wait_queue)
QueueWithout(p) == IF p \in Waiters
                   THEN SelectSeq(wait_queue, LAMBDA q : q # p)
                   ELSE wait_queue

\* __down after its call of schedule(), and the assertion of down.
DownResumed(p) ==
    /\ pc[p] = "down" /\ wait_state[p] = "0"
    /\ wait_queue' = QueueWithout(p)
    /\ failed' = (wakeup_flags[p] # "WT_KSEM")
    /\ pc' = [pc EXCEPT ![p] = "in"]
    /\ UNCHANGED <<value, wait_state, wakeup_flags, exiting>>

TryDown(p) ==
    /\ pc[p] = "out"
    /\ value > 0
    /\ value' = value - 1
    /\ pc' = [pc EXCEPT ![p] = "in"]
    /\ UNCHANGED <<wait_queue, wait_state, wakeup_flags, exiting, failed>>

\* The value after __up: a waiter gets the semaphore without it being free.
ValueAlwaysUp == value + 1
ValueUp == IF wait_queue = <<>> THEN value + 1 ELSE value

Up(p) ==
    /\ pc[p] = "in"
    /\ value' = ValueUp
    /\ IF wait_queue = <<>>
       THEN UNCHANGED <<wait_queue, wait_state, wakeup_flags, failed>>
       ELSE LET first == Head(wait_queue)
            IN  /\ failed' = (wait_state[first] # "WT_KSEM")
                /\ wait_queue' = Tail(wait_queue)
                /\ wakeup_flags' = [wakeup_flags EXCEPT ![first] = "WT_KSEM"]
                /\ wait_state' = [wait_state EXCEPT ![first] = "0"]
    /\ pc' = [pc EXCEPT ![p] = "out"]
    /\ UNCHANGED exiting

\* do_kill of a process that uses the semaphore.
Kill(p) ==
    /\ p \notin exiting
    /\ exiting' = exiting \cup {p}
    /\ wait_state' = [wait_state EXCEPT ![p] = IF @ \in Killable THEN "0" ELSE @]
    /\ UNCHANGED <<value, wait_queue, wakeup_flags, pc, failed>>

Next == \E p \in Procs :
            Down(p) \/ DownResumed(p) \/ TryDown(p) \/ Up(p) \/ Kill(p)

Spec == Init /\ [][Next]_vars

\* A runnable process is scheduled, and whoever holds the semaphore calls up:
\* no code between down and up waits for ever.
Fairness == \A p \in Procs : WF_vars(DownResumed(p)) /\ WF_vars(Up(p))

-----------------------------------------------------------------------------
(* Properties                                                              *)

\* The holders: past down, or woken in down with the semaphore handed over.
Holders == {p \in Procs : pc[p] = "in"}
               \cup {p \in Procs : pc[p] = "down" /\ wait_state[p] = "0"}

\* Type invariant.
TypeOK ==
    /\ value \in Nat
    /\ wait_queue \in Seq(Procs)
    /\ wait_state \in [Procs -> {"0", "WT_KSEM"}]
    /\ wakeup_flags \in [Procs -> {"WT_INTERRUPTED", "WT_KSEM"}]
    /\ pc \in [Procs -> {"out", "down", "in"}]
    /\ exiting \subseteq Procs
    /\ failed \in BOOLEAN

\* The queue holds exactly the processes asleep in down, each once, killed ones
\* included: nobody who waits is forgotten and nobody is woken twice.
QueueIsSleepers ==
    /\ Waiters = {p \in Procs : wait_state[p] = "WT_KSEM"}
    /\ IsInjective(wait_queue)
    /\ \A p \in Procs : wait_state[p] = "WT_KSEM" => pc[p] = "down"

\* A process resumed in down was handed the semaphore: this is why down may
\* assert that it was woken by up.
ResumedWasHanded ==
    \A p \in Procs : pc[p] = "down" /\ wait_state[p] = "0" =>
        wakeup_flags[p] = "WT_KSEM"

\* No assertion of down, __up or wait_queue_add fails.
NoAssertFails == ~ failed

\* The value is what the holders left over, through every hand-over.
ValueIsRest == value + Cardinality(Holders) = Value

\* No process sleeps while the semaphore is free.
NoIdleWait == value > 0 => wait_queue = <<>>

\* The inductive invariant.
SemInv ==
    /\ TypeOK /\ QueueIsSleepers /\ ResumedWasHanded /\ NoAssertFails
    /\ ValueIsRest /\ NoIdleWait

\* Whoever waits gets the semaphore, killed or not.
WaiterGetsIt == \A p \in Procs : pc[p] = "down" ~> pc[p] = "in"

\* down and up implement the semaphore: never more than Value holders.
Abstract == INSTANCE SemSpec WITH holders <- Holders

SemRefinement == Abstract!Spec
=============================================================================
