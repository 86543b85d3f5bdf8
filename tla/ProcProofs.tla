---------------------------- MODULE ProcProofs ----------------------------
(***************************************************************************)
(* ProcInv holds for any set of processes, any limits and any number of    *)
(* ticks.  That no assertion fails (ConsistentInv) needs that the parent   *)
(* pointers have no cycle: following them, initproc is met.                *)
(***************************************************************************)
EXTENDS Proc, Facts, FiniteSetTheorems, TLAPS

USE DEF PROC_SLEEPING, PROC_RUNNABLE, PROC_ZOMBIE, FREE, WT_NONE, WT_CHILD,
        WT_TIMER, WT_KBD, WT_KSEM

\* An order of a set of processes is a list of them without repetition.
LEMMA OrdersFacts ==
    ASSUME NEW S \in SUBSET Procs, NEW ws \in Orders(S)
    PROVE  ws \in Seq(Procs) /\ Range(ws) = S /\ IsInjective(ws)
  <1>1. Cardinality(S) \in Nat
    BY ProcAssumption, FS_Subset, FS_CardinalityType
  <1>2. /\ ws \in [1 .. Cardinality(S) -> S]
        /\ IsInjective(ws)
        /\ \A t \in S : \E i \in 1 .. Cardinality(S) : ws[i] = t
    BY DEF Orders, Bijection, Injection, Surjection
  <1>3. ws \in Seq(Procs)
    BY <1>1, <1>2
  <1>4. Range(ws) = S
    BY <1>2 DEF Range
  <1> QED BY <1>2, <1>3, <1>4

\* A queue of runnable processes gets more of them behind it.
LEMMA QueueMore ==
    ASSUME NEW rq \in Seq(Procs), IsInjective(rq),
           NEW ws \in Seq(Procs), IsInjective(ws),
           Range(rq) \cap Range(ws) = {}
    PROVE  /\ rq \o ws \in Seq(Procs)
           /\ IsInjective(rq \o ws)
           /\ Range(rq \o ws) = Range(rq) \cup Range(ws)
  BY ConcatFacts

LEMMA ProcInit == Init => ProcInv
  <1> SUFFICES ASSUME Init PROVE ProcInv
    OBVIOUS
  <1> USE ProcAssumption
  <1>1. /\ run_queue \in Seq(Procs)
        /\ Range(run_queue) = {initproc}
        /\ IsInjective(run_queue)
    BY SingletonFacts DEF Init
  <1>2. TypeOK
    <2>1. need_resched \in [Procs -> BOOLEAN] /\ exiting \in [Procs -> BOOLEAN]
      BY DEF Init
    <2>2. /\ state \in [Procs -> {FREE, PROC_SLEEPING, PROC_RUNNABLE, PROC_ZOMBIE}]
          /\ pc \in [Procs -> Labels]
          /\ parent \in [Procs -> Procs \cup {Null}]
      BY DEF Init, Labels
    <2>3. /\ time_slice \in [Procs -> 0 .. MaxTimeSlice]
          /\ wait_state \in [Procs -> {WT_NONE, WT_CHILD, WT_TIMER, WT_KBD, WT_KSEM}]
          /\ wait_pid \in [Procs -> Procs \cup {Null}]
          /\ timer \in [Procs -> Nat]
      BY DEF Init
    <2>4. nr_process = 2 /\ panic = "none" /\ kbd_woken = {} /\ current = idleproc
      BY Zenon DEF Init
    <2>5. at_schedule \in BOOLEAN
      BY Zenon DEF Init
    <2>6. nr_process \in Int /\ panic \in {"none"} \cup Panics
      BY <2>4 DEF Panics
    <2> QED BY <1>1, <2>1, <2>2, <2>3, <2>4, <2>5, <2>6 DEF TypeOK
  <1>3. RunQueueExact
    BY <1>1 DEF Init, RunQueueExact
  <1>4. StatesAgree
    BY DEF Init, StatesAgree, UserLabels
  <1>5. ParentCanReap
    BY DEF Init, ParentCanReap, Live
  <1>6. NoLostWakeup /\ TimerInsideSleep
    BY DEF Init, NoLostWakeup, TimerInsideSleep
  <1> QED BY <1>2, <1>3, <1>4, <1>5, <1>6 DEF ProcInv

\* idleproc never sleeps, so every process that wakeup_proc wakes is queued.
LEMMA EnqueuedFacts ==
    ASSUME ProcInv, NEW S
    PROVE  Enqueued(S) = Sleepers(S) \ {current}
  BY DEF Enqueued, Queueable, Sleepers, ProcInv, StatesAgree

\* do_exit, from wherever it is called.
LEMMA DoExitStep ==
    ASSUME ProcInv, ~ at_schedule, DoExit,
           pc[current] \in {"user", "tail", "user_main", "wait", "init_end"}
    PROVE  ProcInv'
  <1> USE ProcAssumption
  <1>1. CASE current \in {idleproc, initproc}
    <2>1. panic' = "exit" /\ UNCHANGED <<cpuVars, statusVars, slotVars, pc>>
      BY <1>1 DEF DoExit, Panic
    <2>2. TypeOK'
      BY <2>1 DEF ProcInv, TypeOK, Panics, cpuVars, statusVars, slotVars
    <2> QED
      BY <2>1, <2>2 DEF ProcInv, RunQueueExact, StatesAgree, ParentCanReap,
         NoLostWakeup, TimerInsideSleep, WaitsFor, Children, Live,
         cpuVars, statusVars, slotVars
  <1>2. CASE current \notin {idleproc, initproc}
    <2> DEFINE par == parent[current]
               kids == Children(current)
               wpar == IF wait_state[par] = WT_CHILD THEN {par} ELSE {}
               winit == IF WakesInit(kids) THEN {initproc} \ wpar ELSE {}
               woken == wpar \cup winit
    <2>1. /\ Asserts(WakeupAsserts(woken))
          /\ state' = [Awake(woken) EXCEPT ![current] = PROC_ZOMBIE]
          /\ wait_state' = NotWaiting(woken)
          /\ time_slice' = Refill(Enqueued(woken))
          /\ run_queue' = run_queue
                    \o (IF Enqueued(wpar) # {} THEN <<par>> ELSE <<>>)
                    \o (IF Enqueued(winit) # {} THEN <<initproc>> ELSE <<>>)
          /\ parent' = Reparented(kids)
          /\ pc' = [pc EXCEPT ![current] = "exited"]
          /\ at_schedule' = TRUE
          /\ UNCHANGED <<current, exiting, need_resched, wait_pid, timer,
                         kbd_woken, nr_process>>
      BY <1>2 DEF DoExit, Goto, WakesParent
    <2>2. /\ current \in Procs /\ state[current] = PROC_RUNNABLE
          /\ wait_state[current] = WT_NONE
          /\ par \in Procs /\ par \in Live /\ state[par] # PROC_ZOMBIE
          /\ kids \subseteq Procs
          /\ timer[current] = 0
      <3>1. /\ current \in Procs /\ state[current] = PROC_RUNNABLE
            /\ wait_state[current] = WT_NONE
        BY DEF ProcInv, TypeOK, StatesAgree
      <3>2. par \in Live /\ state[par] # PROC_ZOMBIE
        BY <1>2, <3>1 DEF ProcInv, ParentCanReap, Live
      <3>3. timer[current] = 0
        <4>1. timer[current] \in Nat /\ ~(timer[current] > 0)
          BY <3>1 DEF ProcInv, TypeOK, TimerInsideSleep
        <4> QED BY <4>1
      <3> QED BY <3>1, <3>2, <3>3 DEF Live, Children
    <2>3. /\ wpar \subseteq Procs /\ winit \subseteq Procs
          /\ wpar \subseteq {par} /\ winit \subseteq {initproc}
          /\ wpar \cap winit = {}
          /\ \A p \in woken : /\ p \in Procs /\ p # current
                              /\ wait_state[p] = WT_CHILD
                              /\ state[p] = PROC_SLEEPING
      BY <2>2 DEF ProcInv, StatesAgree, WakesInit
    <2>4. /\ Enqueued(wpar) = wpar /\ Enqueued(winit) = winit
          /\ Sleepers(woken) = woken
      BY <2>3, EnqueuedFacts DEF Sleepers
    <2> HIDE DEF wpar, winit
    <2>5. /\ state' \in [Procs -> {FREE, PROC_SLEEPING, PROC_RUNNABLE, PROC_ZOMBIE}]
          /\ state'[current] = PROC_ZOMBIE
          /\ \A p \in woken : state'[p] = PROC_RUNNABLE /\ wait_state'[p] = WT_NONE
          /\ \A p \in Procs \ woken : wait_state'[p] = wait_state[p]
          /\ \A p \in Procs \ woken : p # current => state'[p] = state[p]
          /\ wait_state' \in [Procs -> {WT_NONE, WT_CHILD, WT_TIMER, WT_KBD, WT_KSEM}]
      BY <2>1, <2>2, <2>3, <2>4 DEF Awake, NotWaiting, ProcInv, TypeOK
    <2>6. /\ run_queue' \in Seq(Procs)
          /\ IsInjective(run_queue')
          /\ Range(run_queue') = Range(run_queue) \cup woken
      <3> DEFINE s1 == IF Enqueued(wpar) # {} THEN <<par>> ELSE <<>>
                 s2 == IF Enqueued(winit) # {} THEN <<initproc>> ELSE <<>>
      <3>1. /\ s1 \in Seq(Procs) /\ Range(s1) = wpar /\ IsInjective(s1)
            /\ s2 \in Seq(Procs) /\ Range(s2) = winit /\ IsInjective(s2)
        <4>1. wpar = {} \/ wpar = {par}
          BY <2>3
        <4>2. winit = {} \/ winit = {initproc}
          BY <2>3
        <4>3. /\ <<par>> \in Seq(Procs) /\ <<>> \in Seq(Procs)
              /\ <<initproc>> \in Seq(Procs)
              /\ Range(<<par>>) = {par} /\ Range(<<>>) = {}
              /\ Range(<<initproc>>) = {initproc}
              /\ IsInjective(<<par>>) /\ IsInjective(<<>>)
              /\ IsInjective(<<initproc>>)
          BY <2>2, SingletonFacts
        <4> QED BY <2>4, <4>1, <4>2, <4>3
      <3> HIDE DEF s1, s2
      <3>2. Range(run_queue) \cap woken = {}
        BY <2>3 DEF ProcInv, RunQueueExact
      <3>3. /\ run_queue \o s1 \in Seq(Procs)
            /\ IsInjective(run_queue \o s1)
            /\ Range(run_queue \o s1) = Range(run_queue) \cup wpar
        BY <3>1, <3>2, QueueMore DEF ProcInv, TypeOK, RunQueueExact
      <3>4. /\ (run_queue \o s1) \o s2 \in Seq(Procs)
            /\ IsInjective((run_queue \o s1) \o s2)
            /\ Range((run_queue \o s1) \o s2) = Range(run_queue) \cup wpar \cup winit
        <4>1. Range(run_queue \o s1) \cap Range(s2) = {}
          BY <3>1, <3>2, <3>3, <2>3
        <4> QED BY <3>1, <3>3, <4>1, QueueMore
      <3> QED BY <2>1, <3>4 DEF s1, s2
    <2>7. TypeOK'
      <3>1. time_slice' \in [Procs -> 0 .. MaxTimeSlice]
        BY <2>1 DEF Refill, ProcInv, TypeOK
      <3>2. parent' \in [Procs -> Procs \cup {Null}] /\ pc' \in [Procs -> Labels]
        BY <2>1, <2>2 DEF Reparented, Labels, ProcInv, TypeOK
      <3>3. panic' \in {"none"} \cup Panics
        BY <2>1 DEF Asserts, Panics, ProcInv, TypeOK
      <3> QED BY <2>1, <2>5, <2>6, <3>1, <3>2, <3>3 DEF ProcInv, TypeOK
    <2>8. RunQueueExact'
      <3>1. {p \in Procs : state'[p] = PROC_RUNNABLE} \ {current, idleproc}
              = ({p \in Procs : state[p] = PROC_RUNNABLE} \ {current, idleproc})
                  \cup woken
        <4>1. idleproc \notin woken
          BY <2>3 DEF ProcInv, StatesAgree
        <4> QED BY <2>3, <2>5, <4>1
      <3> QED BY <2>1, <2>6, <3>1 DEF ProcInv, RunQueueExact
    <2>9. StatesAgree'
      <3>1. /\ state'[idleproc] = PROC_RUNNABLE /\ pc'[idleproc] = "cpu_idle"
            /\ state'[initproc] \in {PROC_RUNNABLE, PROC_SLEEPING}
            /\ pc'[initproc] \in {"init_main", "init_loop", "init_end", "wait"}
            /\ wait_pid'[initproc] = Null
            /\ state'[current'] # FREE
            /\ at_schedule'
        <4>1. idleproc # current /\ initproc # current /\ idleproc \notin woken
          BY <1>2, <2>3 DEF ProcInv, StatesAgree
        <4>2. state'[idleproc] = PROC_RUNNABLE
          BY <2>5, <4>1 DEF ProcInv, StatesAgree
        <4>3. state'[initproc] \in {PROC_RUNNABLE, PROC_SLEEPING}
          BY <2>5, <4>1 DEF ProcInv, StatesAgree
        <4>4. pc'[idleproc] = pc[idleproc] /\ pc'[initproc] = pc[initproc]
          BY <2>1, <4>1 DEF ProcInv, TypeOK
        <4> QED BY <2>1, <2>5, <4>2, <4>3, <4>4 DEF ProcInv, StatesAgree
      <3>2. parent'[idleproc] = Null /\ parent'[initproc] = idleproc
        BY <1>2, <2>1, <2>2 DEF Reparented, Children, ProcInv, StatesAgree
      <3>3. ASSUME NEW p \in Procs
            PROVE  /\ p \notin {idleproc, initproc} => pc'[p] \in UserLabels
                   /\ wait_state'[p] # WT_NONE <=> state'[p] = PROC_SLEEPING
                   /\ state'[p] = PROC_ZOMBIE <=> pc'[p] = "exited"
                   /\ state'[p] = FREE <=> pc'[p] = "none"
                   /\ wait_state'[p] = WT_CHILD => pc'[p] = "wait"
                   /\ wait_state'[p] = WT_TIMER => pc'[p] = "sleep"
                   /\ wait_state'[p] = WT_KBD => pc'[p] = "read"
                   /\ wait_state'[p] # WT_KSEM
                   /\ parent'[p] # p
        <4>0. /\ pc'[current] = "exited" /\ parent'[p] # p
              /\ p # current => pc'[p] = pc[p]
              /\ pc[current] # "exited"
          BY <2>1, <2>2, <3>2 DEF Reparented, ProcInv, TypeOK, StatesAgree
        <4>1. CASE p = current
          BY <2>2, <2>3, <2>5, <4>0, <4>1 DEF UserLabels
        <4>2. CASE p \in woken
          BY <2>3, <2>5, <4>0, <4>2 DEF ProcInv, StatesAgree
        <4>3. CASE p # current /\ p \notin woken
          BY <2>5, <4>0, <4>3 DEF ProcInv, StatesAgree
        <4> QED BY <4>1, <4>2, <4>3
      <3> QED BY <3>1, <3>2, <3>3 DEF StatesAgree
    <2>10. Live' = Live
      BY <2>2, <2>3, <2>5 DEF Live
    <2>11. ParentCanReap'
      <3> SUFFICES ASSUME NEW p \in Live, p # idleproc
                   PROVE  parent'[p] \in Live /\ state'[parent'[p]] # PROC_ZOMBIE
        BY <2>10 DEF ParentCanReap
      <3>1. CASE p \in kids
        <4>1. parent'[p] = initproc
          BY <2>1, <3>1 DEF Reparented, Live
        <4>2. initproc \in Live /\ state'[initproc] # PROC_ZOMBIE
          BY <1>2, <2>3, <2>5 DEF ProcInv, StatesAgree, Live
        <4> QED BY <4>1, <4>2
      <3>2. CASE p \notin kids
        <4>1. parent'[p] = parent[p] /\ parent[p] # current
          BY <2>1, <3>2 DEF Reparented, Live, Children
        <4>2. parent[p] \in Live /\ state[parent[p]] # PROC_ZOMBIE
          BY DEF ProcInv, ParentCanReap
        <4> QED BY <4>1, <4>2, <2>3, <2>5 DEF Live
      <3> QED BY <3>1, <3>2
    <2>12. TimerInsideSleep'
      <3> SUFFICES ASSUME NEW p \in Procs, timer'[p] > 0
                   PROVE  /\ pc'[p] = "sleep"
                          /\ state'[p] \in {PROC_SLEEPING, PROC_RUNNABLE}
        BY DEF TimerInsideSleep
      <3>1. p # current /\ pc[p] = "sleep"
                /\ state[p] \in {PROC_SLEEPING, PROC_RUNNABLE}
        BY <2>1, <2>2 DEF ProcInv, TimerInsideSleep
      <3>2. pc'[p] = pc[p]
        BY <2>1, <3>1 DEF ProcInv, TypeOK
      <3> QED BY <2>5, <3>1, <3>2
    <2>13. NoLostWakeup'
      <3> SUFFICES ASSUME NEW p \in Procs
                   PROVE  /\ wait_state'[p] = WT_CHILD =>
                                /\ \E q \in Procs : WaitsFor(p, q)'
                                /\ \A q \in Procs : WaitsFor(p, q)' =>
                                      state'[q] # PROC_ZOMBIE
                          /\ wait_state'[p] = WT_TIMER => timer'[p] > 0
                          /\ wait_state'[p] = WT_KBD => p \notin kbd_woken'
        BY DEF NoLostWakeup
      <3>1. wait_state'[p] # WT_NONE => p \notin woken /\ wait_state'[p] = wait_state[p]
        BY <2>5
      <3>2. ASSUME wait_state'[p] = WT_CHILD
            PROVE  /\ \E q \in Procs : WaitsFor(p, q)'
                   /\ \A q \in Procs : WaitsFor(p, q)' => state'[q] # PROC_ZOMBIE
        <4>1. wait_state[p] = WT_CHILD /\ p \notin woken /\ p # current
          BY <2>2, <3>1, <3>2
        <4>2. p # par
          BY <4>1 DEF wpar
        <4>3. \A q \in Procs : parent[q] = p => parent'[q] = p
          BY <2>1, <4>1 DEF Reparented, Children
        <4>4. \E q \in Procs : WaitsFor(p, q)'
          <5>1. PICK q \in Procs : WaitsFor(p, q)
            BY <4>1 DEF ProcInv, NoLostWakeup
          <5>2. WaitsFor(p, q)'
            BY <2>1, <2>10, <4>3, <5>1 DEF WaitsFor, Children
          <5> QED BY <5>2
        <4>5. ASSUME NEW q \in Procs, WaitsFor(p, q)'
              PROVE  state'[q] # PROC_ZOMBIE
          <5>1. CASE parent[q] = p
            <6>1. WaitsFor(p, q)
              BY <2>1, <2>10, <4>5, <5>1 DEF WaitsFor, Children
            <6>2. state[q] # PROC_ZOMBIE
              BY <4>1, <6>1 DEF ProcInv, NoLostWakeup
            <6>3. q # current
              BY <4>2, <5>1
            <6> QED BY <2>5, <6>2, <6>3
          <5>2. CASE parent[q] # p
            <6>1. p = initproc /\ q \in kids
              BY <2>1, <4>5, <5>2 DEF WaitsFor, Children, Reparented
            <6>2. ~ WakesInit(kids)
              BY <4>1, <6>1 DEF winit, wpar
            <6>3. state[q] # PROC_ZOMBIE
              BY <4>1, <6>1, <6>2 DEF WakesInit
            <6>4. q # current
              BY <6>1 DEF Children, ProcInv, StatesAgree
            <6> QED BY <2>5, <6>3, <6>4
          <5> QED BY <5>1, <5>2
        <4> QED BY <4>4, <4>5
      <3> QED
        BY <2>1, <3>1, <3>2 DEF ProcInv, NoLostWakeup
    <2> QED
      BY <2>7, <2>8, <2>9, <2>11, <2>12, <2>13 DEF ProcInv
  <1> QED BY <1>1, <1>2

\* A step of the current process that moves on, and touches no other process.
LEMMA MoveStep ==
    ASSUME ProcInv, TypeOK', state[current] = PROC_RUNNABLE,
           UNCHANGED <<current, run_queue, statusVars, parent>>,
           \A p \in Procs \ {current} :
              /\ pc'[p] = pc[p] /\ wait_pid'[p] = wait_pid[p]
              /\ timer'[p] = timer[p] /\ (p \in kbd_woken' <=> p \in kbd_woken),
           current = idleproc => pc'[current] = "cpu_idle",
           current = initproc => /\ pc'[current] \in {"init_main", "init_loop", "init_end", "wait"}
                                 /\ wait_pid'[current] = Null,
           current \notin {idleproc, initproc} =>
              pc'[current] \in {"user_main", "user", "tail", "wait", "sleep", "read"},
           timer'[current] > 0 => pc'[current] = "sleep"
    PROVE  ProcInv'
  <1> USE ProcAssumption
  <1>1. Live' = Live /\ current \in Procs /\ wait_state[current] = WT_NONE
    BY DEF Live, statusVars, ProcInv, TypeOK, StatesAgree
  <1>2. RunQueueExact' /\ ParentCanReap'
    BY <1>1 DEF ProcInv, RunQueueExact, ParentCanReap, statusVars
  <1>3. StatesAgree'
    <2>1. /\ state'[idleproc] = PROC_RUNNABLE /\ pc'[idleproc] = "cpu_idle"
          /\ state'[initproc] \in {PROC_RUNNABLE, PROC_SLEEPING}
          /\ pc'[initproc] \in {"init_main", "init_loop", "init_end", "wait"}
          /\ parent'[idleproc] = Null /\ parent'[initproc] = idleproc
          /\ wait_pid'[initproc] = Null
          /\ state'[current'] = PROC_RUNNABLE
      BY DEF ProcInv, StatesAgree, statusVars
    <2>2. ASSUME NEW p \in Procs
          PROVE  /\ p \notin {idleproc, initproc} => pc'[p] \in UserLabels
                 /\ wait_state'[p] # WT_NONE <=> state'[p] = PROC_SLEEPING
                 /\ state'[p] = PROC_ZOMBIE <=> pc'[p] = "exited"
                 /\ state'[p] = FREE <=> pc'[p] = "none"
                 /\ wait_state'[p] = WT_CHILD => pc'[p] = "wait"
                 /\ wait_state'[p] = WT_TIMER => pc'[p] = "sleep"
                 /\ wait_state'[p] = WT_KBD => pc'[p] = "read"
                 /\ wait_state'[p] # WT_KSEM
                 /\ parent'[p] # p
      <3>1. CASE p # current
        BY <3>1 DEF ProcInv, StatesAgree, statusVars
      <3>2. CASE p = current
        BY <1>1, <3>2 DEF ProcInv, StatesAgree, statusVars, UserLabels
      <3> QED BY <3>1, <3>2
    <2> QED BY <2>1, <2>2 DEF StatesAgree
  <1>4. TimerInsideSleep'
    BY DEF ProcInv, TimerInsideSleep, statusVars
  <1>5. NoLostWakeup'
    <2> SUFFICES ASSUME NEW p \in Procs, wait_state'[p] # WT_NONE
                 PROVE  /\ wait_state'[p] = WT_CHILD =>
                              /\ \E q \in Procs : WaitsFor(p, q)'
                              /\ \A q \in Procs : WaitsFor(p, q)' =>
                                    state'[q] # PROC_ZOMBIE
                        /\ wait_state'[p] = WT_TIMER => timer'[p] > 0
                        /\ wait_state'[p] = WT_KBD => p \notin kbd_woken'
      BY DEF NoLostWakeup
    <2>1. p # current /\ wait_state'[p] = wait_state[p]
      BY <1>1 DEF statusVars
    <2>2. \A q \in Procs : WaitsFor(p, q)' <=> WaitsFor(p, q)
      BY <1>1, <2>1 DEF WaitsFor, Children
    <2>3. \A q \in Procs : state'[q] = state[q]
      BY DEF statusVars
    <2> QED BY <2>1, <2>2, <2>3 DEF ProcInv, NoLostWakeup
  <1> QED BY <1>2, <1>3, <1>4, <1>5 DEF ProcInv

\* The current process goes to sleep in one of the calls that wait.
LEMMA SleepStep ==
    ASSUME ProcInv, TypeOK', state[current] = PROC_RUNNABLE,
           state'[current] = PROC_SLEEPING,
           \/ wait_state'[current] = WT_CHILD /\ pc'[current] = "wait"
           \/ wait_state'[current] = WT_TIMER /\ pc'[current] = "sleep"
           \/ wait_state'[current] = WT_KBD /\ pc'[current] = "read",
           current # idleproc, current = initproc => pc'[current] = "wait",
           UNCHANGED <<current, run_queue, parent>>, at_schedule' = TRUE,
           \A p \in Procs \ {current} :
              /\ state'[p] = state[p] /\ wait_state'[p] = wait_state[p]
              /\ pc'[p] = pc[p] /\ wait_pid'[p] = wait_pid[p]
              /\ timer'[p] = timer[p] /\ (p \in kbd_woken' <=> p \in kbd_woken),
           current = initproc => wait_pid'[current] = Null,
           timer'[current] > 0 <=> pc'[current] = "sleep",
           pc'[current] = "read" => current \notin kbd_woken',
           pc'[current] = "wait" =>
              /\ \E q \in Procs : WaitsFor(current, q)'
              /\ \A q \in Procs : WaitsFor(current, q)' => state[q] # PROC_ZOMBIE
    PROVE  ProcInv'
  <1> USE ProcAssumption
  <1>1. current \in Procs /\ wait_state[current] = WT_NONE
    BY DEF ProcInv, TypeOK, StatesAgree
  <1>3. Live' = Live
    BY <1>1 DEF Live
  <1>4. RunQueueExact'
    BY <1>1 DEF ProcInv, RunQueueExact
  <1>5. ParentCanReap'
    BY <1>1, <1>3 DEF ProcInv, ParentCanReap, Live
  <1>6. StatesAgree'
    <2>1. /\ state'[idleproc] = PROC_RUNNABLE /\ pc'[idleproc] = "cpu_idle"
          /\ state'[initproc] \in {PROC_RUNNABLE, PROC_SLEEPING}
          /\ pc'[initproc] \in {"init_main", "init_loop", "init_end", "wait"}
          /\ parent'[idleproc] = Null /\ parent'[initproc] = idleproc
          /\ wait_pid'[initproc] = Null
          /\ state'[current'] = PROC_SLEEPING
      BY DEF ProcInv, StatesAgree
    <2>2. ASSUME NEW p \in Procs
          PROVE  /\ p \notin {idleproc, initproc} => pc'[p] \in UserLabels
                 /\ wait_state'[p] # WT_NONE <=> state'[p] = PROC_SLEEPING
                 /\ state'[p] = PROC_ZOMBIE <=> pc'[p] = "exited"
                 /\ state'[p] = FREE <=> pc'[p] = "none"
                 /\ wait_state'[p] = WT_CHILD => pc'[p] = "wait"
                 /\ wait_state'[p] = WT_TIMER => pc'[p] = "sleep"
                 /\ wait_state'[p] = WT_KBD => pc'[p] = "read"
                 /\ wait_state'[p] # WT_KSEM
                 /\ parent'[p] # p
      <3>1. CASE p # current
        BY <3>1 DEF ProcInv, StatesAgree
      <3>2. CASE p = current
        <4>1. parent'[p] # p
          BY DEF ProcInv, StatesAgree
        <4> QED BY <3>2, <4>1 DEF UserLabels
      <3> QED BY <3>1, <3>2
    <2> QED BY <2>1, <2>2 DEF StatesAgree
  <1>7. TimerInsideSleep'
    BY <1>1 DEF ProcInv, TimerInsideSleep
  <1>8. NoLostWakeup'
    <2> SUFFICES ASSUME NEW p \in Procs
                 PROVE  /\ wait_state'[p] = WT_CHILD =>
                              /\ \E q \in Procs : WaitsFor(p, q)'
                              /\ \A q \in Procs : WaitsFor(p, q)' =>
                                    state'[q] # PROC_ZOMBIE
                        /\ wait_state'[p] = WT_TIMER => timer'[p] > 0
                        /\ wait_state'[p] = WT_KBD => p \notin kbd_woken'
      BY DEF NoLostWakeup
    <2>1. \A q \in Procs : state'[q] = PROC_ZOMBIE => state[q] = PROC_ZOMBIE
      OBVIOUS
    <2>2. CASE p = current
      BY <1>1, <2>1, <2>2
    <2>3. CASE p # current
      <3>1. \A q \in Procs : WaitsFor(p, q)' <=> WaitsFor(p, q)
        BY <1>3, <2>3 DEF WaitsFor, Children
      <3> QED BY <2>1, <2>3, <3>1 DEF ProcInv, NoLostWakeup
    <2> QED BY <2>2, <2>3
  <1> QED BY <1>4, <1>5, <1>6, <1>7, <1>8 DEF ProcInv

\* wakeup_proc of some processes, in a system call or an interrupt that then
\* goes to the tail of mips_trap or, from kernel code, back to where it was.
LEMMA WakeStep ==
    ASSUME ProcInv,
           NEW S \in SUBSET Procs, NEW ws \in Orders(Enqueued(S)),
           \A p \in S : state[p] \in {PROC_SLEEPING, PROC_RUNNABLE},
           WakeupProcs(S, ws),
           UNCHANGED <<current, at_schedule, parent, wait_pid, nr_process>>,
           exiting' \in [Procs -> BOOLEAN], need_resched' \in [Procs -> BOOLEAN],
           time_slice' \in [Procs -> 0 .. MaxTimeSlice],
           timer' \in [Procs -> Nat], kbd_woken' \subseteq Procs,
           panic' \in {"none", "assert"},
           \A p \in Procs : timer'[p] > 0 => timer[p] > 0,
           \A p \in Procs \ S : timer[p] > 0 => timer'[p] > 0,
           \A p \in Procs \ S : p \in kbd_woken' => p \in kbd_woken,
           \/ pc' = pc
           \/ /\ pc' = [pc EXCEPT ![current] = "tail"] /\ pc[current] = "user"
              /\ ~ at_schedule
    PROVE  ProcInv'
  <1> USE ProcAssumption
  <1> DEFINE W == Sleepers(S)
  <1>1. /\ W \subseteq S
        /\ \A p \in W : state[p] = PROC_SLEEPING
        /\ \A p \in S \ W : state[p] = PROC_RUNNABLE
        /\ current \in Procs
    BY DEF Sleepers, ProcInv, TypeOK
  <1>2. /\ state' \in [Procs -> {FREE, PROC_SLEEPING, PROC_RUNNABLE, PROC_ZOMBIE}]
        /\ wait_state' \in [Procs -> {WT_NONE, WT_CHILD, WT_TIMER, WT_KBD, WT_KSEM}]
        /\ \A p \in Procs \ W : state'[p] = state[p] /\ wait_state'[p] = wait_state[p]
        /\ \A p \in W : state'[p] = PROC_RUNNABLE /\ wait_state'[p] = WT_NONE
    BY <1>1 DEF WakeupProcs, Awake, NotWaiting, ProcInv, TypeOK
  <1>3. ws \in Seq(Procs) /\ Range(ws) = W \ {current} /\ IsInjective(ws)
    BY <1>1, EnqueuedFacts, OrdersFacts
  <1> HIDE DEF W
  <1>4. /\ run_queue' \in Seq(Procs)
        /\ IsInjective(run_queue')
        /\ Range(run_queue') = Range(run_queue) \cup (W \ {current})
    <2>1. Range(run_queue) \cap (W \ {current}) = {}
      BY <1>1 DEF ProcInv, RunQueueExact
    <2>2. run_queue' = run_queue \o ws
      BY DEF WakeupProcs
    <2>3. run_queue \in Seq(Procs) /\ IsInjective(run_queue)
      BY DEF ProcInv, TypeOK, RunQueueExact
    <2> QED BY <1>3, <2>1, <2>2, <2>3, QueueMore
  <1>5. /\ pc' \in [Procs -> Labels]
        /\ \A p \in Procs : \/ pc'[p] = pc[p]
                             \/ /\ p = current /\ pc'[p] = "tail" /\ pc[p] = "user"
                                /\ state[p] = PROC_RUNNABLE
    <2>1. pc \in [Procs -> Labels] /\ "tail" \in Labels
      BY DEF ProcInv, TypeOK, Labels
    <2>2. ~ at_schedule => state[current] = PROC_RUNNABLE
      BY DEF ProcInv, StatesAgree
    <2>3. CASE pc' = pc
      BY <2>1, <2>3
    <2>4. CASE /\ pc' = [pc EXCEPT ![current] = "tail"] /\ pc[current] = "user"
               /\ ~ at_schedule
      BY <1>1, <2>1, <2>2, <2>4
    <2> QED BY <2>3, <2>4
  <1>6. TypeOK'
    BY <1>2, <1>4, <1>5 DEF ProcInv, TypeOK, Panics
  <1>7. RunQueueExact'
    <2>1. {p \in Procs : state'[p] = PROC_RUNNABLE}
             = {p \in Procs : state[p] = PROC_RUNNABLE} \cup W
      BY <1>1, <1>2
    <2>2. idleproc \notin W
      BY <1>1 DEF ProcInv, StatesAgree
    <2> QED BY <1>4, <2>1, <2>2 DEF ProcInv, RunQueueExact
  <1>8. StatesAgree'
    <2>1. idleproc \notin W /\ (initproc \in W => state[initproc] = PROC_SLEEPING)
      BY <1>1 DEF ProcInv, StatesAgree
    <2>2. /\ state'[idleproc] = PROC_RUNNABLE
          /\ state'[initproc] \in {PROC_RUNNABLE, PROC_SLEEPING}
      BY <1>2, <2>1 DEF ProcInv, StatesAgree
    <2>3. /\ pc'[idleproc] = "cpu_idle"
          /\ pc'[initproc] \in {"init_main", "init_loop", "init_end", "wait"}
      BY <1>5 DEF ProcInv, StatesAgree
    <2>4. /\ state'[current'] # FREE
          /\ ~ at_schedule' => state'[current'] = PROC_RUNNABLE
          /\ parent'[idleproc] = Null /\ parent'[initproc] = idleproc
          /\ wait_pid'[initproc] = Null
      BY <1>1, <1>2 DEF ProcInv, StatesAgree
    <2>5. ASSUME NEW p \in Procs
          PROVE  /\ p \notin {idleproc, initproc} => pc'[p] \in UserLabels
                 /\ wait_state'[p] # WT_NONE <=> state'[p] = PROC_SLEEPING
                 /\ state'[p] = PROC_ZOMBIE <=> pc'[p] = "exited"
                 /\ state'[p] = FREE <=> pc'[p] = "none"
                 /\ wait_state'[p] = WT_CHILD => pc'[p] = "wait"
                 /\ wait_state'[p] = WT_TIMER => pc'[p] = "sleep"
                 /\ wait_state'[p] = WT_KBD => pc'[p] = "read"
                 /\ wait_state'[p] # WT_KSEM
                 /\ parent'[p] # p
      <3>1. CASE p \in W
        <4>1. pc'[p] = pc[p]
          BY <1>1, <1>5, <3>1
        <4> QED BY <1>1, <1>2, <3>1, <4>1 DEF ProcInv, StatesAgree
      <3>2. CASE p \notin W /\ pc'[p] = pc[p]
        BY <1>2, <3>2 DEF ProcInv, StatesAgree
      <3>3. CASE p \notin W /\ pc'[p] = "tail" /\ state[p] = PROC_RUNNABLE
        BY <1>2, <3>3 DEF ProcInv, StatesAgree, UserLabels
      <3> QED BY <1>5, <3>1, <3>2, <3>3
    <2> QED BY <2>2, <2>3, <2>4, <2>5 DEF StatesAgree
  <1>9. Live' = Live
    BY <1>1, <1>2 DEF Live
  <1>10. ParentCanReap'
    BY <1>2, <1>9 DEF ProcInv, ParentCanReap, Live
  <1>11. TimerInsideSleep'
    <2> SUFFICES ASSUME NEW p \in Procs, timer'[p] > 0
                 PROVE  /\ pc'[p] = "sleep"
                        /\ state'[p] \in {PROC_SLEEPING, PROC_RUNNABLE}
      BY DEF TimerInsideSleep
    <2>1. pc[p] = "sleep" /\ state[p] \in {PROC_SLEEPING, PROC_RUNNABLE}
      BY DEF ProcInv, TimerInsideSleep
    <2> QED BY <1>2, <1>5, <2>1
  <1>12. NoLostWakeup'
    <2> SUFFICES ASSUME NEW p \in Procs, wait_state'[p] # WT_NONE
                 PROVE  /\ wait_state'[p] = WT_CHILD =>
                              /\ \E q \in Procs : WaitsFor(p, q)'
                              /\ \A q \in Procs : WaitsFor(p, q)' =>
                                    state'[q] # PROC_ZOMBIE
                        /\ wait_state'[p] = WT_TIMER => timer'[p] > 0
                        /\ wait_state'[p] = WT_KBD => p \notin kbd_woken'
      BY DEF NoLostWakeup
    <2>1. p \notin S /\ wait_state'[p] = wait_state[p]
      BY <1>1, <1>2 DEF ProcInv, StatesAgree
    <2>2. \A q \in Procs : WaitsFor(p, q)' <=> WaitsFor(p, q)
      BY <1>9 DEF WaitsFor, Children
    <2>3. \A q \in Procs : state'[q] = PROC_ZOMBIE => state[q] = PROC_ZOMBIE
      BY <1>2
    <2> QED BY <2>1, <2>2, <2>3 DEF ProcInv, NoLostWakeup
  <1> QED BY <1>6, <1>7, <1>8, <1>10, <1>11, <1>12 DEF ProcInv

\* panic() changes nothing else.
LEMMA PanicStep ==
    ASSUME ProcInv, panic' \in {"none"} \cup Panics,
           UNCHANGED <<cpuVars, statusVars, slotVars, pc>>
    PROVE  ProcInv'
  <1>1. TypeOK'
    BY DEF ProcInv, TypeOK, cpuVars, statusVars, slotVars
  <1> QED
    BY <1>1 DEF ProcInv, RunQueueExact, StatesAgree, ParentCanReap,
       NoLostWakeup, TimerInsideSleep, WaitsFor, Children, Live,
       cpuVars, statusVars, slotVars

\* A process that can run on is queued behind the others, unless it is idleproc.
LEMMA ScheduleFacts ==
    ASSUME ProcInv, Schedule
    PROVE  LET again == IF current # idleproc /\ state[current] = PROC_RUNNABLE
                        THEN <<current>> ELSE <<>>
               rq == run_queue \o again
           IN  /\ at_schedule' = FALSE
               /\ need_resched' = [need_resched EXCEPT ![current] = FALSE]
               /\ time_slice' = Refill(Range(again))
               /\ Asserts(Range(again) \cap Range(run_queue) = {})
               /\ IF rq = <<>>
                  THEN current' = idleproc /\ run_queue' = rq
                  ELSE current' = Head(rq) /\ run_queue' = Tail(rq)
               /\ UNCHANGED <<statusVars, exiting, parent, wait_pid, timer,
                              kbd_woken, nr_process, pc>>
  <1>1. (Queueable({p \in {current} : state[p] = PROC_RUNNABLE}) # {})
           <=> (current # idleproc /\ state[current] = PROC_RUNNABLE)
    BY DEF Queueable
  <1> QED BY <1>1 DEF Schedule

LEMMA ScheduleStep == ASSUME ProcInv, Schedule PROVE ProcInv'
  <1> USE ProcAssumption
  <1> DEFINE again == IF current # idleproc /\ state[current] = PROC_RUNNABLE
                      THEN <<current>> ELSE <<>>
             rq == run_queue \o again
             runnable == {p \in Procs : state[p] = PROC_RUNNABLE}
  <1>1. /\ at_schedule' = FALSE
        /\ need_resched' = [need_resched EXCEPT ![current] = FALSE]
        /\ time_slice' = Refill(Range(again))
        /\ Asserts(Range(again) \cap Range(run_queue) = {})
        /\ IF rq = <<>>
           THEN current' = idleproc /\ run_queue' = rq
           ELSE current' = Head(rq) /\ run_queue' = Tail(rq)
        /\ UNCHANGED <<statusVars, exiting, parent, wait_pid, timer, kbd_woken,
                       nr_process, pc>>
    BY ScheduleFacts
  <1>2. current \in Procs /\ idleproc \in runnable
    BY DEF ProcInv, TypeOK, StatesAgree
  <1>3. /\ again \in Seq(Procs) /\ IsInjective(again)
        /\ Range(again) = (runnable \cap {current}) \ {idleproc}
    BY <1>2, SingletonFacts
  <1> HIDE DEF again
  <1>4. rq \in Seq(Procs) /\ IsInjective(rq) /\ Range(rq) = runnable \ {idleproc}
    <2>1. /\ run_queue \in Seq(Procs) /\ IsInjective(run_queue)
          /\ Range(run_queue) = runnable \ {current, idleproc}
      BY DEF ProcInv, TypeOK, RunQueueExact
    <2> QED BY <1>3, <2>1, QueueMore
  <1> HIDE DEF rq
  <1>6. /\ current' \in runnable
        /\ run_queue' \in Seq(Procs) /\ IsInjective(run_queue')
        /\ Range(run_queue') = runnable \ {current', idleproc}
    <2>1. CASE rq = <<>>
      <3>1. current' = idleproc /\ run_queue' = rq /\ Range(rq) = {}
        BY <1>1, <2>1, SingletonFacts
      <3> QED BY <1>2, <1>4, <3>1
    <2>2. CASE rq # <<>>
      <3>1. current' = Head(rq) /\ run_queue' = Tail(rq)
        BY <1>1, <2>2
      <3>2. /\ Head(rq) \in Range(rq) /\ Tail(rq) \in Seq(Procs)
            /\ IsInjective(Tail(rq)) /\ Range(Tail(rq)) = Range(rq) \ {Head(rq)}
        BY <1>4, <2>2, TailFacts
      <3> QED BY <1>4, <3>1, <3>2
    <2> QED BY <2>1, <2>2
  <1>7. TypeOK'
    <2>1. need_resched' \in [Procs -> BOOLEAN]
      BY <1>1, <1>2 DEF ProcInv, TypeOK
    <2>2. time_slice' \in [Procs -> 0 .. MaxTimeSlice]
      BY <1>1 DEF Refill, ProcInv, TypeOK
    <2> QED BY <1>1, <1>6, <2>1, <2>2 DEF ProcInv, TypeOK, Asserts, Panics, statusVars
  <1>8. RunQueueExact'
    BY <1>1, <1>6 DEF RunQueueExact, statusVars
  <1>9. StatesAgree'
    BY <1>1, <1>6 DEF ProcInv, StatesAgree, statusVars
  <1>10. ParentCanReap' /\ NoLostWakeup' /\ TimerInsideSleep'
    BY <1>1 DEF ProcInv, ParentCanReap, NoLostWakeup, TimerInsideSleep,
       WaitsFor, Children, Live, statusVars
  <1> QED BY <1>7, <1>8, <1>9, <1>10 DEF ProcInv

\* do_fork succeeds.
LEMMA ForkStep ==
    ASSUME ProcInv, ~ at_schedule, NEW entry, NEW l, DoFork(entry, l),
           \/ /\ pc[current] = "user" /\ entry = "user" /\ l = "tail"
           \/ /\ current = initproc /\ entry = "user_main" /\ l = "init_loop"
    PROVE  ProcInv'
  <1> USE ProcAssumption
  <1>1. PICK child \in Procs \ Live :
        /\ state' = [state EXCEPT ![child] = PROC_RUNNABLE]
        /\ wait_state' = [wait_state EXCEPT ![child] = WT_NONE]
        /\ exiting' = [exiting EXCEPT ![child] = FALSE]
        /\ need_resched' = [need_resched EXCEPT ![child] = FALSE]
        /\ time_slice' = [time_slice EXCEPT ![child] = MaxTimeSlice]
        /\ parent' = [parent EXCEPT ![child] = current]
        /\ nr_process' = nr_process + 1
        /\ pc' = [pc EXCEPT ![current] = l, ![child] = entry]
        /\ Asserts(child \notin Range(run_queue))
        /\ run_queue' = Append(run_queue, child)
    BY DEF DoFork, SetLinks
  <1>2. UNCHANGED <<current, at_schedule, wait_pid, timer, kbd_woken>>
    BY DEF DoFork
  <1>3. /\ current \in Procs /\ state[current] = PROC_RUNNABLE
        /\ wait_state[current] = WT_NONE /\ current # idleproc
        /\ ~(timer[current] > 0)
        /\ current = initproc => pc[current] # "user"
    BY DEF ProcInv, TypeOK, StatesAgree, TimerInsideSleep
  <1>4. /\ state[child] = FREE /\ pc[child] = "none" /\ ~(timer[child] > 0)
        /\ child \notin {idleproc, initproc, current}
        /\ wait_state[child] = WT_NONE
    <2>1. state[child] = FREE
      BY <1>1 DEF Live
    <2> QED BY <1>1, <1>3, <2>1 DEF ProcInv, StatesAgree, TimerInsideSleep
  <1>5. /\ state'[child] = PROC_RUNNABLE /\ wait_state'[child] = WT_NONE
        /\ parent'[child] = current /\ pc'[child] = entry
        /\ \A p \in Procs \ {child} : /\ state'[p] = state[p]
                                      /\ wait_state'[p] = wait_state[p]
                                      /\ parent'[p] = parent[p]
        /\ \A p \in Procs \ {child, current} : pc'[p] = pc[p]
        /\ pc'[current] = l
    BY <1>1, <1>3, <1>4 DEF ProcInv, TypeOK
  <1>6. /\ run_queue' \in Seq(Procs) /\ IsInjective(run_queue')
        /\ Range(run_queue') = Range(run_queue) \cup {child}
    <2>1. /\ run_queue \in Seq(Procs) /\ IsInjective(run_queue)
          /\ child \notin Range(run_queue)
      BY <1>4 DEF ProcInv, TypeOK, RunQueueExact
    <2> QED BY <1>1, <2>1, AppendFacts
  <1>7. TypeOK'
    <2>1. exiting' \in [Procs -> BOOLEAN] /\ need_resched' \in [Procs -> BOOLEAN]
      BY <1>1 DEF ProcInv, TypeOK
    <2>2. /\ state' \in [Procs -> {FREE, PROC_SLEEPING, PROC_RUNNABLE, PROC_ZOMBIE}]
          /\ wait_state' \in [Procs -> {WT_NONE, WT_CHILD, WT_TIMER, WT_KBD, WT_KSEM}]
          /\ time_slice' \in [Procs -> 0 .. MaxTimeSlice]
          /\ parent' \in [Procs -> Procs \cup {Null}]
          /\ nr_process' \in Int
      BY <1>1, <1>3 DEF ProcInv, TypeOK
    <2>3. pc' \in [Procs -> Labels]
      BY <1>1, <1>3 DEF ProcInv, TypeOK, Labels
    <2>4. panic' \in {"none"} \cup Panics
      BY <1>1 DEF ProcInv, TypeOK, Asserts, Panics
    <2> QED BY <1>2, <1>6, <2>1, <2>2, <2>3, <2>4 DEF ProcInv, TypeOK
  <1>8. RunQueueExact'
    <2>1. {p \in Procs : state'[p] = PROC_RUNNABLE} \ {current, idleproc}
            = ({p \in Procs : state[p] = PROC_RUNNABLE} \ {current, idleproc})
                \cup {child}
      BY <1>4, <1>5
    <2> QED BY <1>2, <1>6, <2>1 DEF ProcInv, RunQueueExact
  <1>9. StatesAgree'
    <2>1. /\ state'[idleproc] = PROC_RUNNABLE /\ pc'[idleproc] = "cpu_idle"
          /\ state'[initproc] \in {PROC_RUNNABLE, PROC_SLEEPING}
          /\ parent'[idleproc] = Null /\ parent'[initproc] = idleproc
          /\ wait_pid'[initproc] = Null
          /\ state'[current'] = PROC_RUNNABLE
      BY <1>2, <1>3, <1>4, <1>5 DEF ProcInv, StatesAgree
    <2>2. pc'[initproc] \in {"init_main", "init_loop", "init_end", "wait"}
      BY <1>3, <1>4, <1>5 DEF ProcInv, StatesAgree
    <2>3. ASSUME NEW p \in Procs
          PROVE  /\ p \notin {idleproc, initproc} => pc'[p] \in UserLabels
                 /\ wait_state'[p] # WT_NONE <=> state'[p] = PROC_SLEEPING
                 /\ state'[p] = PROC_ZOMBIE <=> pc'[p] = "exited"
                 /\ state'[p] = FREE <=> pc'[p] = "none"
                 /\ wait_state'[p] = WT_CHILD => pc'[p] = "wait"
                 /\ wait_state'[p] = WT_TIMER => pc'[p] = "sleep"
                 /\ wait_state'[p] = WT_KBD => pc'[p] = "read"
                 /\ wait_state'[p] # WT_KSEM
                 /\ parent'[p] # p
      <3>1. CASE p = child
        BY <1>3, <1>4, <1>5, <3>1 DEF UserLabels
      <3>2. CASE p = current
        BY <1>3, <1>4, <1>5, <3>2 DEF UserLabels, ProcInv, StatesAgree
      <3>3. CASE p \notin {child, current}
        BY <1>5, <3>3 DEF ProcInv, StatesAgree
      <3> QED BY <3>1, <3>2, <3>3
    <2> QED BY <2>1, <2>2, <2>3 DEF StatesAgree
  <1>10. Live' = Live \cup {child}
    BY <1>1, <1>5 DEF Live
  <1>11. ParentCanReap'
    <2> SUFFICES ASSUME NEW p \in Live', p # idleproc
                 PROVE  parent'[p] \in Live' /\ state'[parent'[p]] # PROC_ZOMBIE
      BY DEF ParentCanReap
    <2>1. CASE p = child
      BY <1>3, <1>4, <1>5, <1>10, <2>1 DEF Live
    <2>2. CASE p # child
      <3>1. parent[p] \in Live /\ state[parent[p]] # PROC_ZOMBIE /\ p \in Procs
        BY <1>10, <2>2 DEF ProcInv, ParentCanReap, Live
      <3> QED BY <1>1, <1>5, <1>10, <2>2, <3>1 DEF Live
    <2> QED BY <2>1, <2>2
  <1>12. TimerInsideSleep'
    BY <1>2, <1>3, <1>4, <1>5 DEF ProcInv, TimerInsideSleep
  <1>13. NoLostWakeup'
    <2> SUFFICES ASSUME NEW p \in Procs, wait_state'[p] # WT_NONE
                 PROVE  /\ wait_state'[p] = WT_CHILD =>
                              /\ \E q \in Procs : WaitsFor(p, q)'
                              /\ \A q \in Procs : WaitsFor(p, q)' =>
                                    state'[q] # PROC_ZOMBIE
                        /\ wait_state'[p] = WT_TIMER => timer'[p] > 0
                        /\ wait_state'[p] = WT_KBD => p \notin kbd_woken'
      BY DEF NoLostWakeup
    <2>1. p # child /\ p # current /\ wait_state'[p] = wait_state[p]
      BY <1>3, <1>4, <1>5
    <2>2. \A q \in Procs : WaitsFor(p, q)' <=> WaitsFor(p, q)
      BY <1>1, <1>2, <1>5, <1>10, <2>1 DEF WaitsFor, Children
    <2>3. \A q \in Procs : state'[q] = PROC_ZOMBIE => state[q] = PROC_ZOMBIE
      BY <1>5
    <2> QED BY <1>2, <2>1, <2>2, <2>3 DEF ProcInv, NoLostWakeup
  <1> QED BY <1>7, <1>8, <1>9, <1>11, <1>12, <1>13 DEF ProcInv

\* The part of do_wait that frees a zombie child.
LEMMA ReapStep ==
    ASSUME ProcInv, ~ at_schedule, NEW found, NEW z \in Procs,
           state[z] = PROC_ZOMBIE, parent[z] = current,
           pc[current] \in {"user", "wait", "init_loop"},
           current \notin {idleproc, initproc} => found = "tail",
           current = initproc => found = "init_loop",
           TypeOK',
           state'[z] = FREE, pc'[z] = "none", parent'[z] = Null,
           \A p \in Procs \ {z} : state'[p] = state[p] /\ parent'[p] = parent[p],
           \A p \in Procs \ {z, current} : /\ pc'[p] = pc[p]
                                           /\ wait_pid'[p] = wait_pid[p],
           pc'[current] = found, wait_pid'[current] = Null,
           UNCHANGED <<current, run_queue, wait_state, timer, kbd_woken>>
    PROVE  ProcInv'
  <1> USE ProcAssumption
  <1>0. /\ current \in Procs /\ state[current] = PROC_RUNNABLE
        /\ wait_state[current] = WT_NONE /\ current # idleproc
        /\ ~(timer[current] > 0)
    BY DEF ProcInv, TypeOK, TimerInsideSleep, StatesAgree
  <1>1. /\ z \in Procs /\ state[z] = PROC_ZOMBIE /\ parent[z] = current
        /\ z \notin {current, idleproc, initproc}
        /\ wait_state[z] = WT_NONE /\ ~(timer[z] > 0)
    BY <1>0 DEF ProcInv, StatesAgree, TimerInsideSleep
  <1>4. RunQueueExact'
    <2>1. {p \in Procs : state'[p] = PROC_RUNNABLE}
            = {p \in Procs : state[p] = PROC_RUNNABLE}
      BY <1>1
    <2> QED BY <2>1 DEF ProcInv, RunQueueExact
  <1>5. StatesAgree'
    <2>1. /\ state'[idleproc] = PROC_RUNNABLE /\ pc'[idleproc] = "cpu_idle"
          /\ state'[initproc] \in {PROC_RUNNABLE, PROC_SLEEPING}
          /\ parent'[idleproc] = Null /\ parent'[initproc] = idleproc
          /\ wait_pid'[initproc] = Null
          /\ state'[current'] = PROC_RUNNABLE
      BY <1>0, <1>1 DEF ProcInv, StatesAgree
    <2>2. pc'[initproc] \in {"init_main", "init_loop", "init_end", "wait"}
      BY <1>0, <1>1 DEF ProcInv, StatesAgree
    <2>3. ASSUME NEW p \in Procs
          PROVE  /\ p \notin {idleproc, initproc} => pc'[p] \in UserLabels
                 /\ wait_state'[p] # WT_NONE <=> state'[p] = PROC_SLEEPING
                 /\ state'[p] = PROC_ZOMBIE <=> pc'[p] = "exited"
                 /\ state'[p] = FREE <=> pc'[p] = "none"
                 /\ wait_state'[p] = WT_CHILD => pc'[p] = "wait"
                 /\ wait_state'[p] = WT_TIMER => pc'[p] = "sleep"
                 /\ wait_state'[p] = WT_KBD => pc'[p] = "read"
                 /\ wait_state'[p] # WT_KSEM
                 /\ parent'[p] # p
      <3>1. CASE p = z
        BY <1>1, <3>1 DEF UserLabels
      <3>2. CASE p = current
        BY <1>0, <1>1, <3>2 DEF UserLabels, ProcInv, StatesAgree
      <3>3. CASE p \notin {z, current}
        BY <3>3 DEF ProcInv, StatesAgree
      <3> QED BY <3>1, <3>2, <3>3
    <2> QED BY <2>1, <2>2, <2>3 DEF StatesAgree
  <1>6. Live' = Live \ {z}
    BY <1>1 DEF Live
  <1>7. ParentCanReap'
    <2> SUFFICES ASSUME NEW p \in Live', p # idleproc
                 PROVE  parent'[p] \in Live' /\ state'[parent'[p]] # PROC_ZOMBIE
      BY DEF ParentCanReap
    <2>1. p \in Live /\ p # z /\ p \in Procs
      BY <1>6 DEF Live
    <2>2. parent[p] \in Live /\ state[parent[p]] # PROC_ZOMBIE
      BY <2>1 DEF ProcInv, ParentCanReap
    <2> QED BY <1>1, <1>6, <2>1, <2>2 DEF Live
  <1>8. TimerInsideSleep'
    BY <1>0, <1>1 DEF ProcInv, TimerInsideSleep
  <1>9. NoLostWakeup'
    <2> SUFFICES ASSUME NEW p \in Procs, wait_state'[p] # WT_NONE
                 PROVE  /\ wait_state'[p] = WT_CHILD =>
                            /\ \E q \in Procs : WaitsFor(p, q)'
                            /\ \A q \in Procs : WaitsFor(p, q)' =>
                                  state'[q] # PROC_ZOMBIE
                        /\ wait_state'[p] = WT_TIMER => timer'[p] > 0
                        /\ wait_state'[p] = WT_KBD => p \notin kbd_woken'
      BY DEF NoLostWakeup
    <2>1. p # z /\ p # current /\ wait_state'[p] = wait_state[p]
      BY <1>0, <1>1
    <2>2. \A q \in Procs : WaitsFor(p, q)' <=> WaitsFor(p, q)
      <3> SUFFICES ASSUME NEW q \in Procs
                   PROVE  WaitsFor(p, q)' <=> WaitsFor(p, q)
        OBVIOUS
      <3>1. CASE q = z
        BY <1>1, <1>6, <2>1, <3>1 DEF WaitsFor, Children
      <3>2. CASE q # z
        BY <1>6, <2>1, <3>2 DEF WaitsFor, Children
      <3> QED BY <3>1, <3>2
    <2>3. \A q \in Procs : state'[q] = PROC_ZOMBIE => state[q] = PROC_ZOMBIE
      BY <1>1
    <2> QED BY <2>1, <2>2, <2>3 DEF ProcInv, NoLostWakeup
  <1> QED BY <1>4, <1>5, <1>7, <1>8, <1>9 DEF ProcInv

\* do_wait, from its scan of the children to its return or call of schedule().
LEMMA WaitStep ==
    ASSUME ProcInv, ~ at_schedule, NEW pid \in Procs \cup {Null},
           NEW found, NEW failed, DoWait(pid, found, failed),
           pc[current] \in {"user", "wait", "init_loop"},
           current \notin {idleproc, initproc} => found = "tail" /\ failed = "tail",
           current = initproc => /\ found = "init_loop" /\ failed = "init_end"
                                 /\ pid = Null
    PROVE  ProcInv'
  <1> USE ProcAssumption
  <1> DEFINE kids == WaitKids(pid)
             zombies == {k \in kids : state[k] = PROC_ZOMBIE}
  <1>1. /\ current \in Procs /\ state[current] = PROC_RUNNABLE
        /\ wait_state[current] = WT_NONE /\ current # idleproc
        /\ timer[current] = 0
    <2>1. timer[current] \in Nat /\ ~(timer[current] > 0)
      BY DEF ProcInv, TypeOK, TimerInsideSleep
    <2>2. timer[current] = 0
      BY <2>1
    <2> QED BY <2>2 DEF ProcInv, TypeOK, StatesAgree
  <1>2. /\ kids \subseteq Children(current)
        /\ Children(current) \subseteq Procs
        /\ \A q \in Children(current) : pid \in {Null, q} => q \in kids
    <2>1. idleproc \notin Children(current)
      BY <1>1 DEF Children, ProcInv, StatesAgree
    <2> QED BY <2>1 DEF WaitKids, FindProc, Children, Live
  <1>3. CASE /\ zombies = {} /\ kids # {}
             /\ state' = [state EXCEPT ![current] = PROC_SLEEPING]
             /\ wait_state' = [wait_state EXCEPT ![current] = WT_CHILD]
             /\ wait_pid' = [wait_pid EXCEPT ![current] = pid]
             /\ Goto("wait")
             /\ at_schedule' = TRUE
             /\ UNCHANGED <<current, run_queue, exiting, need_resched, time_slice,
                            parent, timer, kbd_woken, nr_process, panic>>
    <2>1. TypeOK'
      <3>1. pc' \in [Procs -> Labels]
        BY <1>1, <1>3 DEF Goto, ProcInv, TypeOK, Labels
      <3> QED BY <1>1, <1>3, <3>1 DEF ProcInv, TypeOK
    <2>2. Live' = Live
      BY <1>1, <1>3 DEF ProcInv, TypeOK, Live
    <2>3. \A q \in Procs : WaitsFor(current, q)' <=> q \in kids
      <3>1. wait_pid'[current] = pid
        BY <1>1, <1>3 DEF ProcInv, TypeOK
      <3>2. Children(current)' = Children(current)
        BY <1>3, <2>2 DEF Children
      <3>3. \A q \in kids : pid \in {Null, q}
        BY DEF WaitKids, FindProc
      <3> QED BY <1>2, <1>3, <3>1, <3>2, <3>3 DEF WaitsFor
    <2>4. \A p \in Procs \ {current} :
              /\ wait_pid'[p] = wait_pid[p]
              /\ timer'[p] = timer[p] /\ (p \in kbd_woken' <=> p \in kbd_woken)
      BY <1>3 DEF ProcInv, TypeOK
    <2>5. /\ \E q \in Procs : WaitsFor(current, q)'
          /\ \A q \in Procs : WaitsFor(current, q)' => state[q] # PROC_ZOMBIE
      BY <1>2, <1>3, <2>3
    <2>6. current = initproc => wait_pid'[current] = Null
      BY <1>1, <1>3 DEF ProcInv, TypeOK
    <2>7. /\ \A p \in Procs \ {current} : /\ state'[p] = state[p]
                                           /\ wait_state'[p] = wait_state[p]
                                           /\ pc'[p] = pc[p]
          /\ state'[current] = PROC_SLEEPING
          /\ wait_state'[current] = WT_CHILD /\ pc'[current] = "wait"
      BY <1>1, <1>3 DEF Goto, ProcInv, TypeOK
    <2>8. UNCHANGED <<current, run_queue, parent>> /\ at_schedule' = TRUE
      BY <1>3
    <2>9. ~(timer'[current] > 0)
      BY <1>1, <1>3
    <2> HIDE DEF kids, zombies
    <2> QED
      BY <1>1, <2>1, <2>4, <2>5, <2>6, <2>7, <2>8, <2>9, SleepStep
  <1>4. CASE /\ kids = {}
             /\ Goto(failed)
             /\ wait_pid' = [wait_pid EXCEPT ![current] = Null]
             /\ UNCHANGED <<cpuVars, statusVars, exiting, need_resched, time_slice,
                            parent, timer, kbd_woken, nr_process, panic>>
    <2>1. pc' \in [Procs -> Labels]
      BY <1>1, <1>4 DEF Goto, ProcInv, TypeOK, Labels
    <2>2. TypeOK'
      BY <1>4, <2>1 DEF ProcInv, TypeOK, cpuVars, statusVars
    <2>3. /\ \A p \in Procs \ {current} : pc'[p] = pc[p] /\ wait_pid'[p] = wait_pid[p]
          /\ pc'[current] = failed /\ wait_pid'[current] = Null
      BY <1>1, <1>4 DEF Goto, ProcInv, TypeOK
    <2> QED BY <1>1, <1>4, <2>2, <2>3, MoveStep DEF cpuVars
  <1>5. ASSUME NEW z \in zombies,
               /\ state' = [state EXCEPT ![z] = FREE]
               /\ RemoveLinks(z)
               /\ pc' = [pc EXCEPT ![current] = found, ![z] = "none"]
               /\ exiting' = [exiting EXCEPT ![z] = FALSE]
               /\ need_resched' = [need_resched EXCEPT ![z] = FALSE]
               /\ time_slice' = [time_slice EXCEPT ![z] = 0]
               /\ wait_pid' = [wait_pid EXCEPT ![current] = Null, ![z] = Null]
               /\ at_schedule' = (found = "init_loop")
               /\ UNCHANGED <<current, run_queue, wait_state, timer, kbd_woken,
                              panic>>
        PROVE  ProcInv'
    <2>1. z \in Procs /\ state[z] = PROC_ZOMBIE /\ parent[z] = current
      BY <1>2, <1>5 DEF Children
    <2> HIDE DEF kids, zombies
    <2>2. exiting' \in [Procs -> BOOLEAN] /\ need_resched' \in [Procs -> BOOLEAN]
      BY <1>5, <2>1 DEF ProcInv, TypeOK
    <2>3. at_schedule' \in BOOLEAN
      BY <1>5
    <2>4. /\ state' = [state EXCEPT ![z] = FREE]
          /\ parent' = [parent EXCEPT ![z] = Null] /\ nr_process' = nr_process - 1
          /\ pc' = [pc EXCEPT ![current] = found, ![z] = "none"]
          /\ time_slice' = [time_slice EXCEPT ![z] = 0]
          /\ wait_pid' = [wait_pid EXCEPT ![current] = Null, ![z] = Null]
          /\ UNCHANGED <<current, run_queue, wait_state, timer, kbd_woken, panic>>
      BY <1>5 DEF RemoveLinks
    <2>5. TypeOK'
      <3>1. /\ state' \in [Procs -> {FREE, PROC_SLEEPING, PROC_RUNNABLE, PROC_ZOMBIE}]
            /\ parent' \in [Procs -> Procs \cup {Null}]
        BY <2>1, <2>4 DEF ProcInv, TypeOK
      <3>4. time_slice' \in [Procs -> 0 .. MaxTimeSlice]
        BY <2>1, <2>4 DEF ProcInv, TypeOK
      <3>5. wait_pid' \in [Procs -> Procs \cup {Null}]
        BY <2>1, <2>4 DEF ProcInv, TypeOK
      <3>3. nr_process' \in Int
        BY <2>4 DEF ProcInv, TypeOK
      <3>2. pc' \in [Procs -> Labels]
        BY <1>1, <2>4 DEF ProcInv, TypeOK, Labels
      <3> QED BY <2>2, <2>3, <2>4, <3>1, <3>2, <3>3, <3>4, <3>5 DEF ProcInv, TypeOK
    <2>6. /\ state'[z] = FREE /\ pc'[z] = "none" /\ parent'[z] = Null
          /\ \A p \in Procs \ {z} : state'[p] = state[p] /\ parent'[p] = parent[p]
          /\ \A p \in Procs \ {z, current} : /\ pc'[p] = pc[p]
                                             /\ wait_pid'[p] = wait_pid[p]
          /\ pc'[current] = found /\ wait_pid'[current] = Null
      <3>1. z # current
        BY <1>1, <2>1
      <3> QED BY <1>1, <2>1, <2>4, <3>1 DEF ProcInv, TypeOK
    <2>7. UNCHANGED <<current, run_queue, wait_state, timer, kbd_woken>>
      BY <2>4
    <2> QED BY <2>1, <2>5, <2>6, <2>7, ReapStep
  <1> QED
    BY <1>3, <1>4, <1>5 DEF DoWait

\* What Running says of the process that runs.
LEMMA RunningFacts ==
    ASSUME ProcInv, NEW l, Running(l)
    PROVE  /\ ~ at_schedule /\ current \in Procs /\ pc[current] = l
           /\ state[current] = PROC_RUNNABLE
           /\ l \in {"user", "tail", "sleep", "read", "user_main"} =>
                 current \notin {idleproc, initproc}
           /\ l = "wait" => current # idleproc
           /\ l \in {"init_main", "init_loop", "init_end"} => current = initproc
           /\ l # "sleep" => timer[current] = 0
  <1> USE ProcAssumption
  <1>1. /\ ~ at_schedule /\ pc[current] = l /\ current \in Procs
        /\ state[current] = PROC_RUNNABLE
    BY DEF Running, ProcInv, TypeOK, StatesAgree
  <1>2. timer[current] \in Nat /\ (l # "sleep" => ~(timer[current] > 0))
    BY <1>1 DEF ProcInv, TypeOK, TimerInsideSleep
  <1>3. l # "sleep" => timer[current] = 0
    BY <1>2
  <1>4. l \in {"init_main", "init_loop", "init_end"} => current = initproc
    <2>1. current \notin {idleproc, initproc} => pc[current] \in UserLabels
      BY <1>1 DEF ProcInv, StatesAgree
    <2>2. pc[idleproc] = "cpu_idle"
      BY DEF ProcInv, StatesAgree
    <2> QED BY <1>1, <2>1, <2>2 DEF UserLabels
  <1>5. /\ pc[idleproc] = "cpu_idle"
        /\ pc[initproc] \in {"init_main", "init_loop", "init_end", "wait"}
    BY DEF ProcInv, StatesAgree
  <1> QED BY <1>1, <1>3, <1>4, <1>5

\* A trap that returns changes only where its process stands.
LEMMA ReturnStep ==
    ASSUME ProcInv, state[current] = PROC_RUNNABLE, timer[current] = 0,
           current \notin {idleproc, initproc},
           NEW l \in {"user", "tail"}, Return(l)
    PROVE  ProcInv'
  <1>1. /\ pc' = [pc EXCEPT ![current] = l]
        /\ UNCHANGED <<cpuVars, statusVars, slotVars, panic>>
    BY DEF Return, Goto
  <1>2. pc' \in [Procs -> Labels] /\ pc'[current] = l
        /\ \A p \in Procs \ {current} : pc'[p] = pc[p]
    BY <1>1 DEF ProcInv, TypeOK, Labels
  <1>3. TypeOK'
    BY <1>1, <1>2 DEF ProcInv, TypeOK, cpuVars, statusVars, slotVars
  <1>4. UNCHANGED <<current, run_queue, statusVars, parent, wait_pid, timer, kbd_woken>>
    BY <1>1 DEF cpuVars, slotVars
  <1>5. ~(timer'[current] > 0)
    BY <1>4
  <1> QED BY <1>2, <1>3, <1>4, <1>5, MoveStep

LEMMA CpuIdleStep == ASSUME ProcInv, CpuIdle PROVE ProcInv'
  <1>1. /\ at_schedule' = TRUE
        /\ UNCHANGED <<current, run_queue, statusVars, slotVars, pc, panic>>
    BY DEF CpuIdle
  <1>2. TypeOK'
    BY <1>1 DEF ProcInv, TypeOK, statusVars, slotVars
  <1> QED
    BY <1>1, <1>2 DEF ProcInv, RunQueueExact, StatesAgree, ParentCanReap,
       NoLostWakeup, TimerInsideSleep, WaitsFor, Children, Live,
       statusVars, slotVars

LEMMA TrapTailStep == ASSUME ProcInv, TrapTail PROVE ProcInv'
  <1>1. Running("tail")
    BY DEF TrapTail
  <1>2. CASE exiting[current] /\ DoExit
    BY <1>1, <1>2, RunningFacts, DoExitStep
  <1>3. CASE /\ ~exiting[current] /\ Goto("user")
             /\ at_schedule' = need_resched[current]
             /\ UNCHANGED <<current, run_queue, statusVars, slotVars, panic>>
    <2>1. /\ current \in Procs /\ state[current] = PROC_RUNNABLE
          /\ current \notin {idleproc, initproc} /\ timer[current] = 0
      BY <1>1, RunningFacts
    <2>2. at_schedule' \in BOOLEAN
      BY <1>3, <2>1 DEF ProcInv, TypeOK
    <2>3. pc' = [pc EXCEPT ![current] = "user"]
          /\ UNCHANGED <<current, run_queue, statusVars, slotVars, panic>>
      BY <1>3 DEF Goto
    <2>4. pc' \in [Procs -> Labels] /\ pc'[current] = "user"
          /\ \A p \in Procs \ {current} : pc'[p] = pc[p]
      BY <2>1, <2>3 DEF ProcInv, TypeOK, Labels
    <2>5. TypeOK'
      BY <2>2, <2>3, <2>4 DEF ProcInv, TypeOK, statusVars, slotVars
    <2>6. UNCHANGED <<current, run_queue, statusVars, parent, wait_pid, timer, kbd_woken>>
      BY <2>3 DEF slotVars
    <2>7. ~(timer'[current] > 0)
      BY <2>1, <2>6
    <2> QED BY <2>1, <2>4, <2>5, <2>6, <2>7, MoveStep
  <1> QED BY <1>2, <1>3 DEF TrapTail

\* The system calls and the kernel code that end in one of the above.
LEMMA SimpleStep ==
    ASSUME ProcInv,
           \/ SysExit \/ UserFault \/ SysFork \/ SysExec \/ SysWait \/ SysOther
           \/ InitMain \/ UserMain \/ InitWait \/ WaitResumed \/ InitEnd
    PROVE  ProcInv'
  <1>1. ASSUME Running("user")
        PROVE  /\ DoExit => ProcInv'
               /\ Return("tail") => ProcInv'
               /\ DoFork("user", "tail") => ProcInv'
               /\ \A pid \in Procs \cup {Null} : DoWait(pid, "tail", "tail") => ProcInv'
               /\ Panic("user") => ProcInv'
    <2>1. /\ ~ at_schedule /\ pc[current] = "user" /\ state[current] = PROC_RUNNABLE
          /\ current \notin {idleproc, initproc} /\ timer[current] = 0
      BY <1>1, RunningFacts
    <2>2. DoExit => ProcInv'
      BY <2>1, DoExitStep
    <2>3. Return("tail") => ProcInv'
      BY <2>1, ReturnStep
    <2>4. DoFork("user", "tail") => ProcInv'
      BY <2>1, ForkStep
    <2>5. ASSUME NEW pid \in Procs \cup {Null}, DoWait(pid, "tail", "tail")
          PROVE  ProcInv'
      BY <2>1, <2>5, WaitStep
    <2>6. Panic("user") => ProcInv'
      BY PanicStep DEF Panic, Panics
    <2> QED BY <2>2, <2>3, <2>4, <2>5, <2>6
  <1>2. CASE SysExit \/ UserFault \/ SysFork \/ SysExec \/ SysWait \/ SysOther
    BY <1>1, <1>2 DEF SysExit, UserFault, SysFork, SysExec, SysWait, SysOther
  <1>3. CASE InitMain
    <2>1. CASE Panic("boot")
      BY <2>1, PanicStep DEF Panic, Panics
    <2>2. CASE DoFork("user_main", "init_loop")
      <3>1. ~ at_schedule /\ current = initproc
        BY <1>3, RunningFacts DEF InitMain
      <3> QED BY <2>2, <3>1, ForkStep
    <2> QED BY <1>3, <2>1, <2>2 DEF InitMain
  <1>4. CASE UserMain
    <2>1. /\ ~ at_schedule /\ pc[current] = "user_main" /\ state[current] = PROC_RUNNABLE
          /\ current \notin {idleproc, initproc} /\ timer[current] = 0
      BY <1>4, RunningFacts DEF UserMain
    <2>2. CASE Return("user")
      BY <2>1, <2>2, ReturnStep
    <2>3. CASE DoExit
      BY <2>1, <2>3, DoExitStep
    <2>4. CASE Panic("boot")
      BY <2>4, PanicStep DEF Panic, Panics
    <2> QED BY <1>4, <2>2, <2>3, <2>4 DEF UserMain
  <1>5. CASE InitWait
    <2>1. /\ ~ at_schedule /\ current = initproc /\ pc[current] = "init_loop"
          /\ DoWait(Null, "init_loop", "init_end")
      BY <1>5, RunningFacts DEF InitWait
    <2> QED BY <2>1, WaitStep, ProcAssumption
  <1>6. CASE WaitResumed
    <2>1. ~ at_schedule /\ pc[current] = "wait" /\ current # idleproc /\ current \in Procs
      BY <1>6, RunningFacts DEF WaitResumed
    <2>2. CASE DoExit
      BY <2>1, <2>2, DoExitStep
    <2>3. CASE current = initproc /\ DoWait(Null, "init_loop", "init_end")
      BY <2>1, <2>3, WaitStep, ProcAssumption
    <2>4. CASE current # initproc /\ DoWait(wait_pid[current], "tail", "tail")
      <3>1. wait_pid[current] \in Procs \cup {Null}
        BY <2>1 DEF ProcInv, TypeOK
      <3> QED BY <2>1, <2>4, <3>1, WaitStep
    <2> QED BY <1>6, <2>2, <2>3, <2>4 DEF WaitResumed
  <1>7. CASE InitEnd
    <2>1. ~ at_schedule /\ pc[current] = "init_end"
      BY <1>7, RunningFacts DEF InitEnd
    <2>2. CASE DoExit
      BY <2>1, <2>2, DoExitStep
    <2>3. CASE Panic("assert")
      BY <2>3, PanicStep DEF Panic, Panics
    <2> QED BY <1>7, <2>2, <2>3 DEF InitEnd
  <1> QED BY <1>2, <1>3, <1>4, <1>5, <1>6, <1>7

LEMMA SysYieldStep == ASSUME ProcInv, SysYield PROVE ProcInv'
  <1>1. /\ current \in Procs /\ state[current] = PROC_RUNNABLE
        /\ current \notin {idleproc, initproc} /\ timer[current] = 0
    BY RunningFacts DEF SysYield
  <1>2. /\ pc' = [pc EXCEPT ![current] = "tail"]
        /\ UNCHANGED <<cpuVars, statusVars, exiting, time_slice, parent, wait_pid,
                       timer, kbd_woken, nr_process, panic>>
    BY DEF SysYield, Goto
  <1>3. need_resched' \in [Procs -> BOOLEAN]
    BY DEF SysYield, ProcInv, TypeOK
  <1>4. pc' \in [Procs -> Labels] /\ pc'[current] = "tail"
        /\ \A p \in Procs \ {current} : pc'[p] = pc[p]
    BY <1>1, <1>2 DEF ProcInv, TypeOK, Labels
  <1>5. TypeOK'
    BY <1>2, <1>3, <1>4 DEF ProcInv, TypeOK, cpuVars, statusVars
  <1>6. ~(timer'[current] > 0)
    BY <1>1, <1>2
  <1> QED BY <1>1, <1>2, <1>4, <1>5, <1>6, MoveStep DEF cpuVars

LEMMA SleepResumedStep == ASSUME ProcInv, SleepResumed PROVE ProcInv'
  <1>1. /\ current \in Procs /\ state[current] = PROC_RUNNABLE
        /\ current \notin {idleproc, initproc}
    BY RunningFacts DEF SleepResumed
  <1>2. /\ pc' = [pc EXCEPT ![current] = "tail"]
        /\ timer' = [timer EXCEPT ![current] = 0]
        /\ UNCHANGED <<cpuVars, statusVars, exiting, need_resched, time_slice,
                       parent, wait_pid, kbd_woken, nr_process, panic>>
    BY DEF SleepResumed, Goto
  <1>3. pc' \in [Procs -> Labels] /\ pc'[current] = "tail"
        /\ \A p \in Procs \ {current} : pc'[p] = pc[p]
    BY <1>1, <1>2 DEF ProcInv, TypeOK, Labels
  <1>4. timer' \in [Procs -> Nat] /\ timer'[current] = 0
        /\ \A p \in Procs \ {current} : timer'[p] = timer[p]
    BY <1>1, <1>2 DEF ProcInv, TypeOK
  <1>5. TypeOK'
    BY <1>2, <1>3, <1>4 DEF ProcInv, TypeOK, cpuVars, statusVars
  <1>6. ~(timer'[current] > 0)
    BY <1>4
  <1> QED BY <1>1, <1>2, <1>3, <1>4, <1>5, <1>6, MoveStep DEF cpuVars

LEMMA SysSleepStep == ASSUME ProcInv, SysSleep PROVE ProcInv'
  <1> USE ProcAssumption
  <1>1. /\ current \in Procs /\ state[current] = PROC_RUNNABLE
        /\ current \notin {idleproc, initproc}
    BY RunningFacts DEF SysSleep
  <1>2. PICK time \in 1 .. MaxSleep : timer' = [timer EXCEPT ![current] = time]
    BY DEF SysSleep
  <1>3. /\ state' = [state EXCEPT ![current] = PROC_SLEEPING]
        /\ wait_state' = [wait_state EXCEPT ![current] = WT_TIMER]
        /\ pc' = [pc EXCEPT ![current] = "sleep"]
        /\ at_schedule' = TRUE
        /\ UNCHANGED <<current, run_queue, exiting, need_resched, time_slice,
                       parent, wait_pid, kbd_woken, nr_process, panic>>
    BY DEF SysSleep, Goto
  <1>4. /\ timer' \in [Procs -> Nat] /\ timer'[current] > 0
        /\ \A p \in Procs \ {current} : timer'[p] = timer[p]
    BY <1>1, <1>2 DEF ProcInv, TypeOK
  <1>5. /\ pc' \in [Procs -> Labels]
        /\ state' \in [Procs -> {FREE, PROC_SLEEPING, PROC_RUNNABLE, PROC_ZOMBIE}]
        /\ wait_state' \in [Procs -> {WT_NONE, WT_CHILD, WT_TIMER, WT_KBD, WT_KSEM}]
    BY <1>1, <1>3 DEF ProcInv, TypeOK, Labels
  <1>6. /\ pc'[current] = "sleep" /\ state'[current] = PROC_SLEEPING
        /\ wait_state'[current] = WT_TIMER
        /\ \A p \in Procs \ {current} : /\ state'[p] = state[p]
                                        /\ wait_state'[p] = wait_state[p]
                                        /\ pc'[p] = pc[p]
    BY <1>1, <1>3 DEF ProcInv, TypeOK
  <1>7. TypeOK'
    BY <1>3, <1>4, <1>5 DEF ProcInv, TypeOK
  <1>8. UNCHANGED <<current, run_queue, parent, wait_pid, kbd_woken>>
        /\ at_schedule' = TRUE
    BY <1>3
  <1> QED BY <1>1, <1>4, <1>6, <1>7, <1>8, SleepStep

\* dev_stdin_read goes to sleep, the first time or again.
LEMMA WaitForKeyStep ==
    ASSUME ProcInv, WaitForKey, current \notin {idleproc, initproc},
           state[current] = PROC_RUNNABLE, timer[current] = 0
    PROVE  ProcInv'
  <1> USE ProcAssumption
  <1>1. current \in Procs
    BY DEF ProcInv, TypeOK
  <1>3. /\ state' = [state EXCEPT ![current] = PROC_SLEEPING]
        /\ wait_state' = [wait_state EXCEPT ![current] = WT_KBD]
        /\ kbd_woken' = kbd_woken \ {current}
        /\ pc' = [pc EXCEPT ![current] = "read"]
        /\ at_schedule' = TRUE
        /\ UNCHANGED <<current, run_queue, exiting, need_resched, time_slice,
                       parent, wait_pid, timer, nr_process, panic>>
    BY DEF WaitForKey, Goto
  <1>4. ~(timer'[current] > 0)
    BY <1>3
  <1>5. /\ pc' \in [Procs -> Labels]
        /\ state' \in [Procs -> {FREE, PROC_SLEEPING, PROC_RUNNABLE, PROC_ZOMBIE}]
        /\ wait_state' \in [Procs -> {WT_NONE, WT_CHILD, WT_TIMER, WT_KBD, WT_KSEM}]
        /\ kbd_woken' \subseteq Procs
    BY <1>1, <1>3 DEF ProcInv, TypeOK, Labels
  <1>6. /\ pc'[current] = "read" /\ state'[current] = PROC_SLEEPING
        /\ wait_state'[current] = WT_KBD /\ current \notin kbd_woken'
        /\ \A p \in Procs \ {current} : /\ state'[p] = state[p]
                                        /\ wait_state'[p] = wait_state[p]
                                        /\ pc'[p] = pc[p]
                                        /\ (p \in kbd_woken' <=> p \in kbd_woken)
    BY <1>1, <1>3 DEF ProcInv, TypeOK
  <1>7. TypeOK'
    BY <1>3, <1>5 DEF ProcInv, TypeOK
  <1>8. UNCHANGED <<current, run_queue, parent, wait_pid, timer>>
        /\ at_schedule' = TRUE
    BY <1>3
  <1> QED BY <1>1, <1>4, <1>6, <1>7, <1>8, SleepStep

LEMMA ReadStep == ASSUME ProcInv, SysRead \/ ReadResumed PROVE ProcInv'
  <1>1. /\ current \in Procs /\ state[current] = PROC_RUNNABLE
        /\ current \notin {idleproc, initproc} /\ timer[current] = 0
    BY RunningFacts DEF SysRead, ReadResumed
  <1>2. CASE WaitForKey
    BY <1>1, <1>2, WaitForKeyStep
  <1>3. CASE /\ Goto("tail")
             /\ kbd_woken' = kbd_woken \ {current}
             /\ UNCHANGED <<cpuVars, statusVars, exiting, need_resched, time_slice,
                            parent, wait_pid, timer, nr_process, panic>>
    <2>1. pc' \in [Procs -> Labels] /\ pc'[current] = "tail"
          /\ \A p \in Procs \ {current} : pc'[p] = pc[p]
      BY <1>1, <1>3 DEF Goto, ProcInv, TypeOK, Labels
    <2>2. TypeOK'
      BY <1>3, <2>1 DEF ProcInv, TypeOK, cpuVars, statusVars
    <2>3. ~(timer'[current] > 0)
      BY <1>1, <1>3
    <2>4. \A p \in Procs \ {current} : p \in kbd_woken' <=> p \in kbd_woken
      BY <1>3
    <2> QED BY <1>1, <1>3, <2>1, <2>2, <2>3, <2>4, MoveStep DEF cpuVars
  <1> QED BY <1>2, <1>3 DEF SysRead, ReadResumed

\* The slices RR_enqueue refills stay within bounds.
LEMMA RefillType ==
    ASSUME ProcInv, NEW S
    PROVE  Refill(S) \in [Procs -> 0 .. MaxTimeSlice]
  BY ProcAssumption DEF Refill, ProcInv, TypeOK

LEMMA SysKillStep == ASSUME ProcInv, SysKill PROVE ProcInv'
  <1> USE ProcAssumption
  <1>1. /\ current \in Procs /\ state[current] = PROC_RUNNABLE /\ ~ at_schedule
        /\ current \notin {idleproc, initproc} /\ timer[current] = 0
        /\ pc[current] = "user"
    BY RunningFacts DEF SysKill
  <1>2. /\ pc' = [pc EXCEPT ![current] = "tail"]
        /\ UNCHANGED <<current, at_schedule, need_resched, parent, wait_pid, timer,
                       kbd_woken, nr_process>>
    BY DEF SysKill, Goto
  <1>3. CASE UNCHANGED <<run_queue, statusVars, exiting, time_slice, panic>>
    <2>1. Return("tail")
      BY <1>2, <1>3 DEF Return, Goto, cpuVars, slotVars
    <2> QED BY <1>1, <2>1, ReturnStep
  <1>4. ASSUME NEW p \in Live \ {idleproc},
               NEW S, S = IF wait_state[p] \in Interruptible THEN {p} ELSE {},
               exiting' = [exiting EXCEPT ![p] = TRUE],
               Asserts(WakeupAsserts(S)),
               NEW ws \in Orders(Enqueued(S)), WakeupProcs(S, ws),
               time_slice' = Refill(Enqueued(S))
        PROVE  ProcInv'
    <2>1. /\ S \in SUBSET Procs
          /\ \A q \in S : state[q] \in {PROC_SLEEPING, PROC_RUNNABLE}
      BY <1>4 DEF Live, Interruptible, ProcInv, StatesAgree
    <2>2. exiting' \in [Procs -> BOOLEAN]
      BY <1>4 DEF ProcInv, TypeOK
    <2>3. time_slice' \in [Procs -> 0 .. MaxTimeSlice]
      BY <1>4, RefillType
    <2>4. panic' \in {"none", "assert"}
      BY <1>4 DEF SysKill, Running, Asserts
    <2>5. /\ need_resched' \in [Procs -> BOOLEAN] /\ timer' \in [Procs -> Nat]
          /\ kbd_woken' \subseteq Procs
      BY <1>2 DEF ProcInv, TypeOK
    <2>6. /\ UNCHANGED <<current, at_schedule, parent, wait_pid, nr_process, timer,
                         kbd_woken>>
          /\ WakeupProcs(S, ws)
      BY <1>2, <1>4
    <2> QED BY <1>1, <1>2, <2>1, <2>2, <2>3, <2>4, <2>5, <2>6, <1>4, WakeStep
  <1> QED BY <1>3, <1>4 DEF SysKill

\* Where an interrupt leaves the process it interrupted.
LEMMA IntReturnFacts ==
    ASSUME ProcInv, InterruptsOn, IntReturn
    PROVE  \/ pc' = pc
           \/ /\ pc' = [pc EXCEPT ![current] = "tail"] /\ pc[current] = "user"
              /\ ~ at_schedule
  BY DEF InterruptsOn, IntReturn, KernelThread, Running, Goto

LEMMA ClockIntStep == ASSUME ProcInv, ClockInt PROVE ProcInv'
  <1> USE ProcAssumption
  <1> DEFINE expired == {p \in Procs : timer[p] = 1}
             enqueued == Enqueued(expired)
  <1>1. /\ InterruptsOn /\ IntReturn
        /\ timer' = [p \in Procs |-> IF timer[p] > 0 THEN timer[p] - 1 ELSE 0]
        /\ time_slice' = IF current = idleproc
                         THEN Refill(enqueued)
                         ELSE [Refill(enqueued) EXCEPT ![current] = SliceLeft]
        /\ need_resched' = [need_resched EXCEPT ![current] =
                               @ \/ current = idleproc \/ SliceLeft = 0]
        /\ UNCHANGED <<current, at_schedule, exiting, parent, wait_pid,
                       kbd_woken, nr_process>>
    BY DEF ClockInt
  <1>2. PICK ws \in Orders(enqueued) : WakeupProcs(expired, ws)
    BY DEF ClockInt
  <1>3. panic' \in {"none", "assert"}
    BY DEF ClockInt, InterruptsOn, Asserts
  <1>4. current \in Procs
    BY DEF ProcInv, TypeOK
  <1>5. time_slice' \in [Procs -> 0 .. MaxTimeSlice]
    <2>1. SliceLeft \in 0 .. MaxTimeSlice
      BY <1>4 DEF SliceLeft, ProcInv, TypeOK
    <2>2. Refill(enqueued) \in [Procs -> 0 .. MaxTimeSlice]
      BY RefillType
    <2> QED BY <1>1, <2>1, <2>2
  <1>6. need_resched' \in [Procs -> BOOLEAN]
    BY <1>1 DEF ProcInv, TypeOK
  <1>7. /\ timer' \in [Procs -> Nat]
        /\ \A p \in Procs : timer'[p] > 0 => timer[p] > 0
        /\ \A p \in Procs \ expired : timer[p] > 0 => timer'[p] > 0
    BY <1>1 DEF ProcInv, TypeOK
  <1>8. \A p \in expired : state[p] \in {PROC_SLEEPING, PROC_RUNNABLE}
    BY DEF ProcInv, TimerInsideSleep
  <1>9. /\ exiting' \in [Procs -> BOOLEAN] /\ kbd_woken' \subseteq Procs
        /\ expired \in SUBSET Procs
    BY <1>1 DEF ProcInv, TypeOK
  <1>10. UNCHANGED <<current, at_schedule, parent, wait_pid, nr_process, kbd_woken>>
    BY <1>1
  <1>11. \/ pc' = pc
         \/ /\ pc' = [pc EXCEPT ![current] = "tail"] /\ pc[current] = "user"
            /\ ~ at_schedule
    BY <1>1, IntReturnFacts
  <1> HIDE DEF expired
  <1> QED
    BY <1>2, <1>3, <1>5, <1>6, <1>7, <1>8, <1>9, <1>10, <1>11, WakeStep

LEMMA SerialIntStep == ASSUME ProcInv, SerialInt PROVE ProcInv'
  <1> USE ProcAssumption
  <1> DEFINE waiting == {p \in Procs : pc[p] = "read"} \ kbd_woken
             enqueued == Enqueued(waiting)
  <1>1. /\ InterruptsOn /\ IntReturn
        /\ time_slice' = Refill(enqueued)
        /\ kbd_woken' = kbd_woken \cup waiting
        /\ UNCHANGED <<current, at_schedule, exiting, need_resched, parent,
                       wait_pid, timer, nr_process>>
    BY DEF SerialInt
  <1>2. PICK ws \in Orders(enqueued) : WakeupProcs(waiting, ws)
    BY DEF SerialInt
  <1>3. panic' \in {"none", "assert"}
    BY DEF SerialInt, InterruptsOn, Asserts
  <1>4. time_slice' \in [Procs -> 0 .. MaxTimeSlice]
    BY <1>1, RefillType
  <1>5. \A p \in waiting : state[p] \in {PROC_SLEEPING, PROC_RUNNABLE}
    <2> SUFFICES ASSUME NEW p \in Procs, pc[p] = "read"
                 PROVE  state[p] \in {PROC_SLEEPING, PROC_RUNNABLE}
      OBVIOUS
    <2>1. state[p] \in {FREE, PROC_SLEEPING, PROC_RUNNABLE, PROC_ZOMBIE}
      BY DEF ProcInv, TypeOK
    <2> QED BY <2>1 DEF ProcInv, StatesAgree
  <1>6. /\ exiting' \in [Procs -> BOOLEAN] /\ need_resched' \in [Procs -> BOOLEAN]
        /\ kbd_woken' \subseteq Procs /\ timer' \in [Procs -> Nat]
        /\ waiting \in SUBSET Procs
    BY <1>1 DEF ProcInv, TypeOK
  <1>7. \A p \in Procs \ waiting : p \in kbd_woken' => p \in kbd_woken
    BY <1>1
  <1>8. UNCHANGED <<current, at_schedule, parent, wait_pid, nr_process, timer>>
    BY <1>1
  <1>9. \/ pc' = pc
        \/ /\ pc' = [pc EXCEPT ![current] = "tail"] /\ pc[current] = "user"
           /\ ~ at_schedule
    BY <1>1, IntReturnFacts
  <1> HIDE DEF waiting
  <1> QED
    BY <1>2, <1>3, <1>4, <1>5, <1>6, <1>7, <1>8, <1>9, WakeStep

\* Every step of the kernel, of a process and of an interrupt keeps ProcInv.
LEMMA ProcStep == ProcInv /\ [Next]_vars => ProcInv'
  <1> SUFFICES ASSUME ProcInv, [Next]_vars PROVE ProcInv'
    OBVIOUS
  <1>1. CASE Kernel
    BY <1>1, ScheduleStep, CpuIdleStep, TrapTailStep, SimpleStep,
       SleepResumedStep, ReadStep DEF Kernel
  <1>2. CASE User
    BY <1>2, SimpleStep, SysKillStep, SysYieldStep, SysSleepStep, ReadStep DEF User
  <1>3. CASE ClockInt
    BY <1>3, ClockIntStep
  <1>4. CASE SerialInt
    BY <1>4, SerialIntStep
  <1>5. CASE UNCHANGED vars
    <2>1. UNCHANGED <<cpuVars, statusVars, slotVars, pc>> /\ panic' = panic
      BY <1>5 DEF vars
    <2>2. panic' \in {"none"} \cup Panics
      BY <2>1 DEF ProcInv, TypeOK
    <2> QED BY <2>1, <2>2, PanicStep
  <1> QED BY <1>1, <1>2, <1>3, <1>4, <1>5 DEF Next, Halted

\* The inductive invariant holds in every reachable state.
THEOREM ProcAlwaysInv == Spec => []ProcInv
  <1>1. Init => ProcInv
    BY ProcInit
  <1>2. ProcInv /\ [Next]_vars => ProcInv'
    BY ProcStep
  <1> QED BY <1>1, <1>2, PTL DEF Spec

\* Every field of every process has one of its values, for any number of processes.
THEOREM ProcTypes == Spec => []TypeOK
  <1>1. ProcInv => TypeOK
    BY DEF ProcInv
  <1> QED BY <1>1, ProcAlwaysInv, PTL

\* The run queue never loses a runnable process and never holds one twice.
THEOREM RunQueueAlwaysExact == Spec => []RunQueueExact
  <1>1. ProcInv => RunQueueExact
    BY DEF ProcInv
  <1> QED BY <1>1, ProcAlwaysInv, PTL

\* No process has a dead parent.
THEOREM ParentsCanReap == Spec => []ParentCanReap
  <1>1. ProcInv => ParentCanReap
    BY DEF ProcInv
  <1> QED BY <1>1, ProcAlwaysInv, PTL

\* No process sleeps in do_wait, do_sleep or dev_stdin_read after what it waits
\* for has happened.
THEOREM WakeupsNeverLost == Spec => []NoLostWakeup
  <1>1. ProcInv => NoLostWakeup
    BY DEF ProcInv
  <1> QED BY <1>1, ProcAlwaysInv, PTL

\* No timer outlives the do_sleep whose stack it is on.
THEOREM TimersStayInsideSleep == Spec => []TimerInsideSleep
  <1>1. ProcInv => TimerInsideSleep
    BY DEF ProcInv
  <1> QED BY <1>1, ProcAlwaysInv, PTL

-----------------------------------------------------------------------------
(* No assertion fails                                                      *)

\* Only the end of init_main itself, or an interrupt of it, finds initproc there.
LEMMA NotAtInitEnd ==
    ASSUME ConsistentInv,
           current # initproc \/ at_schedule \/ pc[current] # "init_end"
    PROVE  pc[initproc] # "init_end"
  BY DEF ConsistentInv, InitLeavesAlone

LEMMA FamilyInit == Init => ConsistentInv
  <1> SUFFICES ASSUME Init PROVE ConsistentInv
    OBVIOUS
  <1> USE ProcAssumption
  <1>1. ProcInv
    BY ProcInit
  <1>2. Live = {idleproc, initproc}
    BY DEF Init, Live
  <1>3. ProcCount
    <2>1. IsFiniteSet({initproc}) /\ Cardinality({initproc}) = 1
      BY FS_Singleton
    <2>2. Cardinality({initproc} \cup {idleproc}) = 2
      BY <2>1, FS_AddElement
    <2>3. Live = {initproc} \cup {idleproc}
      BY <1>2
    <2>4. nr_process = 2
      BY DEF Init
    <2> QED BY <2>2, <2>3, <2>4 DEF ProcCount
  <1>4. NoFamilyCycle
    BY <1>2 DEF NoFamilyCycle
  <1>5. InitLeavesAlone
    BY DEF Init, InitLeavesAlone
  <1>6. panic # "assert"
    BY DEF Init
  <1> QED BY <1>1, <1>3, <1>4, <1>5, <1>6 DEF ConsistentInv

\* A step that leaves every process and its parent.
LEMMA FamilyKept ==
    ASSUME ConsistentInv, ProcInv', Live' = Live, UNCHANGED <<parent, nr_process>>,
           panic' # "assert",
           pc'[initproc] = "init_end" =>
              current' = initproc /\ ~ at_schedule' /\ Children(initproc) = {}
    PROVE  ConsistentInv'
  <1>1. ProcCount' /\ NoFamilyCycle'
    BY DEF ConsistentInv, ProcCount, NoFamilyCycle
  <1>2. Children(initproc)' = Children(initproc)
    BY DEF Children
  <1>3. InitLeavesAlone'
    BY <1>2 DEF ConsistentInv, InitLeavesAlone
  <1> QED BY <1>1, <1>3 DEF ConsistentInv

\* wakeup_proc of sleepers does not fail.
LEMMA WakeupNeverAsserts ==
    ASSUME ProcInv, NEW S \in SUBSET Procs,
           \A p \in S : state[p] \in {PROC_SLEEPING, PROC_RUNNABLE}
    PROVE  WakeupAsserts(S)
  BY EnqueuedFacts DEF WakeupAsserts, Sleepers, ProcInv, RunQueueExact

\* do_exit: the children go to initproc, the parent and initproc may wake.
LEMMA ExitConsistent ==
    ASSUME ConsistentInv, ProcInv', ~ at_schedule, DoExit
    PROVE  ConsistentInv'
  <1> USE ProcAssumption
  <1>1. CASE current \in {idleproc, initproc}
    <2>1. panic' = "exit" /\ UNCHANGED <<cpuVars, statusVars, slotVars, pc>>
      BY <1>1 DEF DoExit, Panic
    <2>2. Live' = Live
      BY <2>1 DEF Live, statusVars
    <2> QED
      BY <2>1, <2>2, FamilyKept
      DEF ConsistentInv, InitLeavesAlone, cpuVars, slotVars
  <1>2. CASE current \notin {idleproc, initproc}
    <2> DEFINE par == parent[current]
               kids == Children(current)
               wpar == IF WakesParent(par) THEN {par} ELSE {}
               winit == IF WakesInit(kids) THEN {initproc} \ wpar ELSE {}
               woken == wpar \cup winit
    <2>1. /\ Asserts(WakeupAsserts(woken))
          /\ state' = [Awake(woken) EXCEPT ![current] = PROC_ZOMBIE]
          /\ parent' = Reparented(kids)
          /\ pc' = [pc EXCEPT ![current] = "exited"]
          /\ nr_process' = nr_process
      BY <1>2 DEF DoExit, Goto
    <2>2. /\ current \in Live /\ par \in Procs /\ ProcInv
          /\ kids \subseteq Procs
      BY <1>2 DEF ConsistentInv, ProcInv, StatesAgree, ParentCanReap, TypeOK, Live,
         Children
    <2>3. /\ woken \in SUBSET Procs
          /\ \A p \in woken : state[p] = PROC_SLEEPING
      BY <2>2 DEF WakesParent, WakesInit, ProcInv, StatesAgree
    <2>4. panic' # "assert"
      BY <2>1, <2>2, <2>3, WakeupNeverAsserts DEF Asserts, ConsistentInv
    <2>5. Live' = Live
      BY <2>1, <2>2, <2>3 DEF Live, Awake, ProcInv, TypeOK
    <2>6. \A p \in Procs : parent'[p] \in {initproc, parent[p]}
      BY <2>1 DEF Reparented
    <2>7. ProcCount'
      BY <2>1, <2>5 DEF ConsistentInv, ProcCount
    <2>8. NoFamilyCycle'
      <3> SUFFICES ASSUME NEW S \in SUBSET (Live \ {idleproc, initproc}), S # {}
                   PROVE  \E p \in S : parent'[p] \notin S
        BY <2>5 DEF NoFamilyCycle
      <3>1. PICK p \in S : parent[p] \notin S
        BY DEF ConsistentInv, NoFamilyCycle
      <3> QED BY <3>1, <2>6 DEF Live
    <2>9. InitLeavesAlone'
      <3>1. pc'[initproc] = pc[initproc]
        BY <1>2, <2>1, <2>2 DEF ProcInv, TypeOK
      <3>2. pc[initproc] # "init_end"
        BY <1>2, NotAtInitEnd
      <3> QED BY <3>1, <3>2, <2>6 DEF InitLeavesAlone, ConsistentInv
    <2> QED BY <2>4, <2>7, <2>8, <2>9 DEF ConsistentInv
  <1> QED BY <1>1, <1>2

\* do_fork: the child is new, so it is nobody's parent.
LEMMA ForkConsistent ==
    ASSUME ConsistentInv, ProcInv', NEW entry, NEW l, DoFork(entry, l),
           current # idleproc, entry # "init_end", l # "init_end",
           pc[current] # "init_end"
    PROVE  ConsistentInv'
  <1> USE ProcAssumption
  <1>1. PICK child \in Procs \ Live :
        /\ state' = [state EXCEPT ![child] = PROC_RUNNABLE]
        /\ parent' = [parent EXCEPT ![child] = current]
        /\ nr_process' = nr_process + 1
        /\ pc' = [pc EXCEPT ![current] = l, ![child] = entry]
        /\ Asserts(child \notin Range(run_queue))
    BY DEF DoFork, SetLinks
  <1>2. /\ nr_process < MaxProcess /\ ProcInv /\ current \in Procs
        /\ state[child] = FREE /\ child \notin {idleproc, initproc, current}
    <2>1. ProcInv /\ nr_process < MaxProcess
      BY DEF ConsistentInv, DoFork
    <2>2. state[child] = FREE
      BY <1>1 DEF Live
    <2>3. /\ state[idleproc] # FREE /\ state[initproc] # FREE /\ state[current] # FREE
          /\ current \in Procs
      BY <2>1 DEF ProcInv, TypeOK, StatesAgree
    <2> QED BY <2>1, <2>2, <2>3
  <1>3. panic' # "assert"
    BY <1>1, <1>2 DEF Asserts, ConsistentInv, ProcInv, RunQueueExact
  <1>4. Live' = Live \cup {child}
    <2>1. state'[child] # FREE /\ \A p \in Procs \ {child} : state'[p] = state[p]
      BY <1>1, <1>2 DEF ProcInv, TypeOK
    <2> QED BY <2>1 DEF Live
  <1>5. ProcCount'
    <2>1. IsFiniteSet(Live)
      BY FS_Subset DEF Live
    <2>2. Cardinality(Live') = Cardinality(Live) + 1
      BY <1>1, <1>4, <2>1, FS_AddElement
    <2>3. nr_process \in Int /\ nr_process = Cardinality(Live)
      BY <1>2 DEF ConsistentInv, ProcCount, ProcInv, TypeOK
    <2> QED BY <1>1, <1>2, <2>2, <2>3 DEF ProcCount
  <1>6. /\ parent'[child] = current
        /\ \A p \in Procs \ {child} : parent'[p] = parent[p]
    BY <1>1, <1>2 DEF ProcInv, TypeOK
  <1>7. NoFamilyCycle'
    <2> SUFFICES ASSUME NEW S \in SUBSET (Live' \ {idleproc, initproc}), S # {}
                 PROVE  \E p \in S : parent'[p] \notin S
      BY DEF NoFamilyCycle
    <2>1. CASE S = {child}
      BY <1>2, <1>6, <2>1
    <2>2. CASE S # {child}
      <3>1. /\ S \ {child} # {}
            /\ S \ {child} \in SUBSET (Live \ {idleproc, initproc})
        BY <2>2, <1>4
      <3>2. PICK p \in S \ {child} : parent[p] \notin S \ {child}
        BY <3>1 DEF ConsistentInv, NoFamilyCycle
      <3>3. parent[p] \in Live /\ p \in Procs
        BY <3>1, <3>2, <1>2 DEF ProcInv, ParentCanReap, Live
      <3> QED BY <3>2, <3>3, <1>1, <1>6
    <2> QED BY <2>1, <2>2
  <1>8. InitLeavesAlone'
    <2>1. pc[initproc] # "init_end"
      BY NotAtInitEnd
    <2>2. pc'[initproc] # "init_end"
      BY <1>1, <1>2, <2>1 DEF ProcInv, TypeOK
    <2> QED BY <2>2, <1>6 DEF InitLeavesAlone, ConsistentInv
  <1> QED BY <1>3, <1>5, <1>7, <1>8 DEF ConsistentInv

\* do_wait frees a zombie, sleeps or fails.
LEMMA WaitConsistent ==
    ASSUME ConsistentInv, ProcInv', ~ at_schedule, NEW pid,
           NEW found, NEW failed, DoWait(pid, found, failed),
           state[current] = PROC_RUNNABLE, pc[current] # "init_end",
           current = initproc => pid = Null,
           found # "init_end", failed = "init_end" => current = initproc
    PROVE  ConsistentInv'
  <1> USE ProcAssumption
  <1> DEFINE kids == WaitKids(pid)
             zombies == {k \in kids : state[k] = PROC_ZOMBIE}
  <1>1. ProcInv /\ current \in Procs /\ pc[initproc] # "init_end"
    BY NotAtInitEnd DEF ConsistentInv, ProcInv, TypeOK
  <1>2. CASE zombies # {}
    <2>1. PICK z \in zombies :
            /\ state' = [state EXCEPT ![z] = FREE]
            /\ parent' = [parent EXCEPT ![z] = Null]
            /\ nr_process' = nr_process - 1
            /\ pc' = [pc EXCEPT ![current] = found, ![z] = "none"]
      BY <1>2 DEF DoWait, RemoveLinks
    <2>2. /\ z \in Live /\ z \in Procs /\ state[z] = PROC_ZOMBIE
          /\ panic' = panic
      <3>1. kids \subseteq Live
        BY DEF WaitKids, Children
      <3>2. panic' = panic
        BY <1>2 DEF DoWait
      <3> QED BY <2>1, <3>1, <3>2 DEF Live
    <2>3. z \notin {idleproc, initproc}
      BY <1>1, <2>2 DEF ProcInv, StatesAgree
    <2>4. /\ state'[z] = FREE /\ parent'[z] = Null
          /\ \A p \in Procs \ {z} : state'[p] = state[p] /\ parent'[p] = parent[p]
      BY <1>1, <2>1, <2>2 DEF ProcInv, TypeOK
    <2>5. Live' = Live \ {z}
      BY <2>4 DEF Live
    <2>6. ProcCount'
      <3>1. IsFiniteSet(Live)
        BY FS_Subset DEF Live
      <3>2. Cardinality(Live') = Cardinality(Live) - 1
        BY <2>2, <2>5, <3>1, FS_RemoveElement
      <3>3. nr_process \in Int /\ ProcCount
        BY <1>1 DEF ConsistentInv, ProcInv, TypeOK
      <3> QED BY <2>1, <3>2, <3>3 DEF ProcCount
    <2>7. NoFamilyCycle'
      <3> SUFFICES ASSUME NEW S \in SUBSET (Live' \ {idleproc, initproc}), S # {}
                   PROVE  \E p \in S : parent'[p] \notin S
        BY DEF NoFamilyCycle
      <3>1. S \in SUBSET (Live \ {idleproc, initproc})
        BY <2>5
      <3>2. PICK p \in S : parent[p] \notin S
        BY <3>1 DEF ConsistentInv, NoFamilyCycle
      <3>3. p \in Procs \ {z}
        BY <2>5 DEF Live
      <3> QED BY <3>2, <3>3, <2>4
    <2>8. InitLeavesAlone'
      <3>1. pc'[initproc] # "init_end"
        BY <1>1, <2>1, <2>2, <2>3 DEF ProcInv, TypeOK
      <3> QED BY <3>1, <2>4 DEF InitLeavesAlone, ConsistentInv
    <2> QED BY <2>2, <2>6, <2>7, <2>8 DEF ConsistentInv
  <1>3. CASE zombies = {} /\ kids # {}
    <2>1. /\ state' = [state EXCEPT ![current] = PROC_SLEEPING]
          /\ pc' = [pc EXCEPT ![current] = "wait"]
          /\ UNCHANGED <<parent, nr_process, panic>>
      BY <1>3 DEF DoWait, Goto
    <2>2. Live' = Live
      BY <1>1, <2>1 DEF Live, ProcInv, TypeOK
    <2>3. pc'[initproc] # "init_end"
      BY <1>1, <2>1 DEF ProcInv, TypeOK
    <2> QED BY <2>1, <2>2, <2>3, FamilyKept DEF ConsistentInv
  <1>4. CASE zombies = {} /\ kids = {}
    <2>1. /\ pc' = [pc EXCEPT ![current] = failed]
          /\ UNCHANGED <<cpuVars, statusVars, parent, nr_process, panic>>
      BY <1>4 DEF DoWait, Goto
    <2>2. Live' = Live
      BY <2>1 DEF Live, statusVars
    <2>3. pc'[initproc] = "init_end" =>
             current' = initproc /\ ~ at_schedule' /\ Children(initproc) = {}
      <3> SUFFICES ASSUME pc'[initproc] = "init_end"
                   PROVE  current' = initproc /\ ~ at_schedule' /\ Children(initproc) = {}
        OBVIOUS
      <3>1. current = initproc
        BY <1>1, <2>1 DEF ProcInv, TypeOK
      <3>2. Children(initproc) = {}
        BY <1>4, <3>1 DEF WaitKids
      <3> QED BY <2>1, <3>1, <3>2 DEF cpuVars
    <2> QED BY <2>1, <2>2, <2>3, FamilyKept DEF ConsistentInv
  <1> QED BY <1>2, <1>3, <1>4

\* wakeup_proc by do_kill or an interrupt.
LEMMA WakeConsistent ==
    ASSUME ConsistentInv, ProcInv', NEW S \in SUBSET Procs,
           \A p \in S : state[p] \in {PROC_SLEEPING, PROC_RUNNABLE},
           state' = Awake(S), Asserts(WakeupAsserts(S)),
           UNCHANGED <<current, at_schedule, parent, nr_process>>,
           \/ pc' = pc
           \/ pc' = [pc EXCEPT ![current] = "tail"]
    PROVE  ConsistentInv'
  <1> USE ProcAssumption
  <1>1. ProcInv
    BY DEF ConsistentInv
  <1>2. panic' # "assert"
    BY <1>1, WakeupNeverAsserts DEF Asserts, ConsistentInv
  <1>3. Live' = Live
    BY DEF Live, Awake
  <1>4. pc'[initproc] = "init_end" => pc[initproc] = "init_end"
    BY <1>1 DEF ProcInv, TypeOK
  <1> QED BY <1>2, <1>3, <1>4, FamilyKept DEF ConsistentInv, InitLeavesAlone

\* The remaining steps move or put to sleep the current process.
LEMMA QuietConsistent ==
    ASSUME ConsistentInv, ProcInv',
           \/ Schedule \/ CpuIdle \/ SysYield \/ SysSleep \/ SleepResumed
           \/ SysRead \/ ReadResumed
    PROVE  ConsistentInv'
  <1> USE ProcAssumption
  <1>1. ProcInv /\ current \in Procs /\ panic # "assert"
    BY DEF ConsistentInv, ProcInv, TypeOK
  <1>2. CASE Schedule
    <2>1. /\ UNCHANGED <<statusVars, parent, nr_process, pc>>
          /\ Live' = Live
      BY <1>2 DEF Schedule, Live, statusVars
    <2>2. pc[initproc] # "init_end"
      BY <1>2, NotAtInitEnd DEF Schedule
    <2>3. panic' # "assert"
      <3>1. Range(IF current # idleproc /\ state[current] = PROC_RUNNABLE
                  THEN <<current>> ELSE <<>>) \subseteq {current}
        BY SingletonFacts DEF Range
      <3>2. current \notin Range(run_queue)
        BY <1>1 DEF ProcInv, RunQueueExact
      <3> QED BY <1>1, <1>2, <3>1, <3>2, ScheduleFacts DEF Asserts
    <2> QED BY <2>1, <2>2, <2>3, FamilyKept
  <1>3. ASSUME NEW l, pc' = [pc EXCEPT ![current] = l], l # "init_end",
               pc[current] # "init_end",
               \/ state' = state
               \/ state' = [state EXCEPT ![current] = PROC_SLEEPING],
               UNCHANGED <<parent, nr_process, panic>>
        PROVE  ConsistentInv'
    <2>1. Live' = Live
      <3>1. state[current] # FREE
        BY <1>1 DEF ProcInv, StatesAgree
      <3> QED BY <1>1, <1>3, <3>1 DEF Live, ProcInv, TypeOK
    <2>2. pc[initproc] # "init_end"
      BY <1>3, NotAtInitEnd
    <2>3. pc'[initproc] # "init_end"
      BY <1>1, <1>3, <2>2 DEF ProcInv, TypeOK
    <2> QED BY <1>1, <1>3, <2>1, <2>3, FamilyKept
  <1>4. CASE CpuIdle
    <2>1. /\ pc' = pc /\ UNCHANGED <<statusVars, parent, nr_process, panic>>
          /\ Live' = Live
      BY <1>4 DEF CpuIdle, slotVars, statusVars, Live
    <2>2. pc[initproc] # "init_end"
      BY <1>4, NotAtInitEnd DEF CpuIdle, Running
    <2> QED BY <1>1, <2>1, <2>2, FamilyKept
  <1>5. CASE SysYield
    BY <1>3, <1>5 DEF SysYield, Goto, Running, statusVars
  <1>6. CASE SysSleep
    BY <1>3, <1>6 DEF SysSleep, Goto, Running
  <1>7. CASE SleepResumed
    BY <1>3, <1>7 DEF SleepResumed, Goto, Running, statusVars
  <1>8. CASE SysRead \/ ReadResumed
    <2>1. pc[current] # "init_end"
      BY <1>8 DEF SysRead, ReadResumed, Running
    <2>2. CASE WaitForKey
      BY <1>3, <2>1, <2>2 DEF WaitForKey, Goto
    <2>3. CASE /\ pc' = [pc EXCEPT ![current] = "tail"]
               /\ UNCHANGED <<statusVars, parent, nr_process, panic>>
      BY <1>3, <2>1, <2>3 DEF statusVars
    <2> QED BY <1>8, <2>2, <2>3 DEF SysRead, ReadResumed, Goto
  <1> QED BY <1>2, <1>4, <1>5, <1>6, <1>7, <1>8

\* An exit, a fork, a do_wait, or a return of a process that is in one of these.
LEMMA CallConsistent ==
    ASSUME ConsistentInv, ProcInv',
           \/ TrapTail \/ SysExit \/ UserFault \/ SysFork \/ SysExec \/ SysWait
           \/ SysOther \/ InitMain \/ UserMain \/ InitWait \/ WaitResumed \/ InitEnd
    PROVE  ConsistentInv'
  <1> USE ProcAssumption
  <1>1. ProcInv /\ current \in Procs /\ panic # "assert"
    BY DEF ConsistentInv, ProcInv, TypeOK
  <1>2. ASSUME NEW l, Return(l), l # "init_end", pc[current] # "init_end"
        PROVE  ConsistentInv'
    <2>1. /\ pc' = [pc EXCEPT ![current] = l]
          /\ UNCHANGED <<statusVars, parent, nr_process, panic>>
          /\ Live' = Live
      BY <1>2 DEF Return, Goto, slotVars, statusVars, Live
    <2>2. pc'[initproc] # "init_end"
      BY <1>1, <1>2, <2>1, NotAtInitEnd DEF ProcInv, TypeOK
    <2> QED BY <1>1, <2>1, <2>2, FamilyKept
  <1>3. ASSUME NEW why, Panic(why), why # "assert"
        PROVE  ConsistentInv'
    <2>1. /\ UNCHANGED <<current, at_schedule, statusVars, parent, nr_process, pc>>
          /\ panic' = why /\ Live' = Live
      BY <1>3 DEF Panic, cpuVars, slotVars, statusVars, Live
    <2> QED BY <1>3, <2>1, FamilyKept DEF ConsistentInv, InitLeavesAlone
  <1>4. ASSUME NEW l, Running(l)
        PROVE  /\ ~ at_schedule /\ state[current] = PROC_RUNNABLE /\ pc[current] = l
               /\ l \in {"user", "tail", "user_main"} => current \notin {idleproc, initproc}
               /\ l \in {"init_main", "init_loop", "init_end"} => current = initproc
    BY <1>1, <1>4, RunningFacts
  <1>5. CASE TrapTail
    <2>1. ~ at_schedule /\ pc[current] = "tail"
      BY <1>4, <1>5 DEF TrapTail
    <2>2. CASE DoExit
      BY <2>1, <2>2, ExitConsistent
    <2>3. CASE /\ pc' = [pc EXCEPT ![current] = "user"]
               /\ UNCHANGED <<statusVars, slotVars, panic>>
      <3>1. Live' = Live /\ UNCHANGED <<parent, nr_process, panic>>
        BY <2>3 DEF slotVars, statusVars, Live
      <3>2. pc'[initproc] # "init_end"
        BY <1>1, <2>1, <2>3, NotAtInitEnd DEF ProcInv, TypeOK
      <3> QED BY <1>1, <3>1, <3>2, FamilyKept
    <2> QED BY <1>5, <2>2, <2>3 DEF TrapTail, Goto
  <1>6. CASE \/ SysExit \/ UserFault \/ SysFork \/ SysExec \/ SysWait \/ SysOther
    <2>1. Running("user")
      BY <1>6 DEF SysExit, UserFault, SysFork, SysExec, SysWait, SysOther
    <2>2. /\ ~ at_schedule /\ state[current] = PROC_RUNNABLE /\ pc[current] = "user"
          /\ current \notin {idleproc, initproc}
      BY <1>4, <2>1
    <2>3. CASE DoExit
      BY <2>2, <2>3, ExitConsistent
    <2>4. CASE Return("tail")
      BY <1>2, <2>2, <2>4
    <2>5. CASE DoFork("user", "tail")
      BY <2>2, <2>5, ForkConsistent
    <2>6. CASE Panic("user")
      BY <1>3, <2>6
    <2>7. CASE \E pid \in Procs \cup {Null} : DoWait(pid, "tail", "tail")
      BY <2>2, <2>7, WaitConsistent
    <2> QED
      BY <1>6, <2>3, <2>4, <2>5, <2>6, <2>7
      DEF SysExit, UserFault, SysFork, SysExec, SysWait, SysOther
  <1>7. CASE InitMain
    <2>1. /\ current = initproc /\ pc[current] = "init_main"
      BY <1>4, <1>7 DEF InitMain
    <2>2. CASE DoFork("user_main", "init_loop")
      BY <2>1, <2>2, ForkConsistent
    <2>3. CASE Panic("boot")
      BY <1>3, <2>3
    <2> QED BY <1>7, <2>2, <2>3 DEF InitMain
  <1>8. CASE UserMain
    <2>1. ~ at_schedule /\ pc[current] = "user_main"
      BY <1>4, <1>8 DEF UserMain
    <2>2. CASE Return("user")
      BY <1>2, <2>1, <2>2
    <2>3. CASE DoExit
      BY <2>1, <2>3, ExitConsistent
    <2>4. CASE Panic("boot")
      BY <1>3, <2>4
    <2> QED BY <1>8, <2>2, <2>3, <2>4 DEF UserMain
  <1>9. CASE InitWait
    <2>1. /\ ~ at_schedule /\ state[current] = PROC_RUNNABLE
          /\ current = initproc /\ pc[current] = "init_loop"
      BY <1>4, <1>9 DEF InitWait
    <2> QED BY <1>9, <2>1, WaitConsistent DEF InitWait
  <1>10. CASE WaitResumed
    <2>1. /\ ~ at_schedule /\ state[current] = PROC_RUNNABLE /\ pc[current] = "wait"
      BY <1>4, <1>10 DEF WaitResumed
    <2>2. CASE DoExit
      BY <2>1, <2>2, ExitConsistent
    <2>3. CASE current = initproc /\ DoWait(Null, "init_loop", "init_end")
      BY <2>1, <2>3, WaitConsistent
    <2>4. CASE current # initproc /\ DoWait(wait_pid[current], "tail", "tail")
      BY <2>1, <2>4, WaitConsistent
    <2> QED BY <1>10, <2>2, <2>3, <2>4 DEF WaitResumed
  <1>11. CASE InitEnd
    <2>1. ~ at_schedule /\ current = initproc /\ pc[current] = "init_end"
      BY <1>4, <1>11 DEF InitEnd
    <2>2. Children(initproc) = {}
      BY <2>1 DEF ConsistentInv, InitLeavesAlone
    <2>3. Live = {idleproc, initproc}
      <3>1. {idleproc, initproc} \subseteq Live
        BY <1>1 DEF ProcInv, StatesAgree, Live
      <3>2. ASSUME Live \ {idleproc, initproc} # {}
            PROVE  FALSE
        <4>1. PICK p \in Live \ {idleproc, initproc} :
                 parent[p] \notin Live \ {idleproc, initproc}
          BY <3>2 DEF ConsistentInv, NoFamilyCycle
        <4>2. parent[p] \in Live /\ p \in Procs
          BY <1>1, <4>1 DEF ProcInv, ParentCanReap, Live
        <4>3. parent[p] # initproc
          BY <2>2, <4>1 DEF Children
        <4>4. parent[p] # idleproc
          BY <4>1, <4>2 DEF ConsistentInv, InitLeavesAlone
        <4> QED BY <4>1, <4>2, <4>3, <4>4
      <3> QED BY <3>1, <3>2
    <2>4. nr_process = 2
      <3>1. IsFiniteSet({initproc}) /\ Cardinality({initproc}) = 1
        BY FS_Singleton
      <3>2. Cardinality({initproc} \cup {idleproc}) = 2
        BY <3>1, FS_AddElement
      <3>3. Live = {initproc} \cup {idleproc}
        BY <2>3
      <3> QED BY <3>2, <3>3 DEF ConsistentInv, ProcCount
    <2>5. DoExit
      BY <1>11, <2>2, <2>3, <2>4 DEF InitEnd
    <2> QED BY <2>1, <2>5, ExitConsistent
  <1> QED BY <1>5, <1>6, <1>7, <1>8, <1>9, <1>10, <1>11

\* do_kill and the interrupts wake sleepers only.
LEMMA WakeupsConsistent ==
    ASSUME ConsistentInv, ProcInv', SysKill \/ ClockInt \/ SerialInt
    PROVE  ConsistentInv'
  <1> USE ProcAssumption
  <1>1. ProcInv /\ current \in Procs /\ panic # "assert"
    BY DEF ConsistentInv, ProcInv, TypeOK
  <1>2. CASE SysKill
    <2>1. /\ pc' = [pc EXCEPT ![current] = "tail"]
          /\ UNCHANGED <<current, at_schedule, parent, nr_process>>
      BY <1>2 DEF SysKill, Goto
    <2>2. CASE UNCHANGED <<statusVars, panic>>
      <3>1. Live' = Live
        BY <2>2 DEF Live, statusVars
      <3>2. pc'[initproc] = "init_end" => pc[initproc] = "init_end"
        BY <1>1, <2>1 DEF ProcInv, TypeOK
      <3> QED
        BY <1>1, <2>1, <2>2, <3>1, <3>2, FamilyKept DEF ConsistentInv, InitLeavesAlone
    <2>3. ASSUME NEW p \in Live \ {idleproc},
                 NEW S, S = IF wait_state[p] \in Interruptible THEN {p} ELSE {},
                 Asserts(WakeupAsserts(S)), state' = Awake(S)
          PROVE  ConsistentInv'
      <3>1. /\ S \in SUBSET Procs
            /\ \A q \in S : state[q] = PROC_SLEEPING
        BY <1>1, <2>3 DEF Live, ProcInv, StatesAgree, Interruptible
      <3> QED BY <2>1, <2>3, <3>1, WakeConsistent
    <2> QED BY <1>2, <2>2, <2>3 DEF SysKill, WakeupProcs
  <1>3. CASE ClockInt
    <2> DEFINE expired == {p \in Procs : timer[p] = 1}
    <2>1. \A p \in expired : state[p] \in {PROC_SLEEPING, PROC_RUNNABLE}
      BY <1>1 DEF ProcInv, TimerInsideSleep
    <2>2. \A p \in expired : wait_state[p] \in {WT_NONE} \cup Interruptible
      BY <1>1 DEF ProcInv, TypeOK, StatesAgree, Interruptible
    <2>3. /\ state' = Awake(expired) /\ Asserts(WakeupAsserts(expired))
          /\ UNCHANGED <<current, at_schedule, parent, nr_process>>
          /\ InterruptsOn /\ IntReturn
      BY <1>3, <2>2 DEF ClockInt, WakeupProcs, Asserts
    <2>4. \/ pc' = pc \/ pc' = [pc EXCEPT ![current] = "tail"]
      BY <1>1, <2>3, IntReturnFacts
    <2>5. expired \in SUBSET Procs
      OBVIOUS
    <2> HIDE DEF expired
    <2> QED BY <2>1, <2>3, <2>4, <2>5, WakeConsistent
  <1>4. CASE SerialInt
    <2> DEFINE waiting == {p \in Procs : pc[p] = "read"} \ kbd_woken
    <2>1. \A p \in waiting : state[p] \in {PROC_SLEEPING, PROC_RUNNABLE}
      <3> SUFFICES ASSUME NEW p \in Procs, pc[p] = "read"
                   PROVE  state[p] \in {PROC_SLEEPING, PROC_RUNNABLE}
        OBVIOUS
      <3>1. state[p] \in {FREE, PROC_SLEEPING, PROC_RUNNABLE, PROC_ZOMBIE}
        BY <1>1 DEF ProcInv, TypeOK
      <3> QED BY <1>1, <3>1 DEF ProcInv, StatesAgree
    <2>2. /\ state' = Awake(waiting) /\ Asserts(WakeupAsserts(waiting))
          /\ UNCHANGED <<current, at_schedule, parent, nr_process>>
          /\ InterruptsOn /\ IntReturn
      BY <1>4 DEF SerialInt, WakeupProcs
    <2>3. \/ pc' = pc \/ pc' = [pc EXCEPT ![current] = "tail"]
      BY <1>1, <2>2, IntReturnFacts
    <2>4. waiting \in SUBSET Procs
      OBVIOUS
    <2> HIDE DEF waiting
    <2> QED BY <2>1, <2>2, <2>3, <2>4, WakeConsistent
  <1> QED BY <1>2, <1>3, <1>4

LEMMA ConsistentStep == ConsistentInv /\ [Next]_vars => ConsistentInv'
  <1> SUFFICES ASSUME ConsistentInv, [Next]_vars PROVE ConsistentInv'
    OBVIOUS
  <1>1. ProcInv'
    BY ProcStep DEF ConsistentInv
  <1>2. CASE Kernel
    BY <1>1, <1>2, QuietConsistent, CallConsistent DEF Kernel
  <1>3. CASE User
    BY <1>1, <1>3, QuietConsistent, CallConsistent, WakeupsConsistent DEF User
  <1>4. CASE ClockInt \/ SerialInt
    BY <1>1, <1>4, WakeupsConsistent
  <1>5. CASE UNCHANGED vars
    <2>1. /\ UNCHANGED <<current, at_schedule, parent, nr_process, pc, panic>>
          /\ Live' = Live
      BY <1>5 DEF vars, cpuVars, statusVars, slotVars, Live
    <2> QED BY <1>1, <2>1, FamilyKept DEF ConsistentInv, InitLeavesAlone
  <1> QED BY <1>2, <1>3, <1>4, <1>5 DEF Next, Halted

\* No assertion of the scheduler, of do_fork, of the timer list or at the end of
\* init_main ever fails, and nr_process counts the processes.
THEOREM AssertionsNeverFail == Spec => []ProcsConsistent
  <1>1. Init => ConsistentInv
    BY FamilyInit
  <1>2. ConsistentInv /\ [Next]_vars => ConsistentInv'
    BY ConsistentStep
  <1>3. ConsistentInv => ProcsConsistent
    BY DEF ConsistentInv, ProcInv, ProcsConsistent
  <1> QED BY <1>1, <1>2, <1>3, PTL DEF Spec

-----------------------------------------------------------------------------
(* Zombies                                                                 *)

\* What a step of the kernel does to a zombie.
LEMMA ZombieStep ==
    ASSUME ProcInv, [Next]_vars, NEW p \in Procs, state[p] = PROC_ZOMBIE
    PROVE  \/ state'[p] = PROC_ZOMBIE /\ (current' = p => at_schedule')
           \/ state'[p] = FREE /\ current = parent[p]
  <1> USE ProcAssumption
  <1>1. /\ current \in Procs /\ (current = p => at_schedule)
        /\ p \notin {idleproc, initproc} /\ pc[p] = "exited"
        /\ wait_state[p] = WT_NONE
    BY DEF ProcInv, TypeOK, StatesAgree
  <1>2. ASSUME NEW l, Running(l) PROVE current # p
    BY <1>1, <1>2 DEF Running
  <1>3. CASE state'[p] = state[p] /\ current' = current /\ current # p
    BY <1>3
  <1>4. ASSUME current # p, DoExit PROVE state'[p] = state[p] /\ current' = current
    <2>1. CASE current \in {idleproc, initproc}
      BY <1>4, <2>1 DEF DoExit, Panic, cpuVars, statusVars
    <2>2. CASE current \notin {idleproc, initproc}
      <3> DEFINE par == parent[current]
                 kids == Children(current)
                 wpar == IF WakesParent(par) THEN {par} ELSE {}
                 winit == IF WakesInit(kids) THEN {initproc} \ wpar ELSE {}
                 woken == wpar \cup winit
      <3>1. /\ state' = [Awake(woken) EXCEPT ![current] = PROC_ZOMBIE]
            /\ current' = current
        BY <1>4, <2>2 DEF DoExit
      <3>2. p \notin woken
        BY <1>1 DEF WakesParent, WakesInit
      <3> HIDE DEF woken
      <3> QED BY <1>1, <1>4, <3>1, <3>2 DEF Awake
    <2> QED BY <2>1, <2>2
  <1>5. ASSUME NEW entry, NEW l, DoFork(entry, l)
        PROVE  state'[p] = state[p] /\ current' = current
    BY <1>5 DEF DoFork, Live, ProcInv, TypeOK
  <1>6. ASSUME NEW pid, NEW found, NEW failed, DoWait(pid, found, failed), current # p
        PROVE  \/ state'[p] = state[p] /\ current' = current
               \/ state'[p] = FREE /\ current = parent[p]
    <2>1. /\ current' = current
          /\ \/ \E z \in WaitKids(pid) : state' = [state EXCEPT ![z] = FREE]
             \/ state' = [state EXCEPT ![current] = PROC_SLEEPING]
             \/ state' = state
      BY <1>6 DEF DoWait, cpuVars, statusVars
    <2>2. \A z \in WaitKids(pid) : parent[z] = current
      BY DEF WaitKids, Children
    <2> QED BY <1>6, <2>1, <2>2 DEF ProcInv, TypeOK
  <1>7. ASSUME NEW S, p \notin S, state' = Awake(S) PROVE state'[p] = state[p]
    BY <1>7 DEF Awake
  <1>8. CASE Schedule
    <2> DEFINE again == IF current # idleproc /\ state[current] = PROC_RUNNABLE
                        THEN <<current>> ELSE <<>>
               rq == run_queue \o again
    <2>1. /\ UNCHANGED state
          /\ IF rq = <<>> THEN current' = idleproc ELSE current' = Head(rq)
      BY <1>1, <1>8, ScheduleFacts DEF statusVars
    <2>2. /\ run_queue \in Seq(Procs) /\ again \in Seq(Procs)
          /\ Range(run_queue) = {q \in Procs : state[q] = PROC_RUNNABLE}
                                   \ {current, idleproc}
      BY <1>1 DEF ProcInv, TypeOK, RunQueueExact
    <2>3. \A i \in 1 .. Len(rq) : state[rq[i]] = PROC_RUNNABLE
      <3>1. \A i \in 1 .. Len(run_queue) : state[run_queue[i]] = PROC_RUNNABLE
        BY <2>2, RangeOfSeq
      <3> QED BY <2>2, <3>1
    <2>4. rq # <<>> => Head(rq) = rq[1] /\ 1 \in 1 .. Len(rq)
      BY <2>2
    <2> HIDE DEF rq
    <2> QED BY <1>1, <2>1, <2>3, <2>4
  <1>9. CASE UNCHANGED <<current, at_schedule, state>>
    BY <1>1, <1>9
  <1>10. CASE CpuIdle
    BY <1>2, <1>3, <1>10 DEF CpuIdle, statusVars
  <1>11. CASE TrapTail
    BY <1>2, <1>3, <1>4, <1>11 DEF TrapTail, statusVars
  <1>12. CASE SysExit \/ UserFault \/ SysExec \/ UserMain \/ InitEnd
    BY <1>2, <1>3, <1>4, <1>12
    DEF SysExit, UserFault, SysExec, UserMain, InitEnd, Return, Panic, statusVars, cpuVars
  <1>13. CASE SysFork \/ InitMain
    BY <1>2, <1>3, <1>5, <1>13
    DEF SysFork, InitMain, Return, Panic, statusVars, cpuVars
  <1>14. CASE SysWait \/ InitWait
    BY <1>1, <1>2, <1>6, <1>14 DEF SysWait, InitWait
  <1>15. CASE WaitResumed
    BY <1>1, <1>2, <1>4, <1>6, <1>15 DEF WaitResumed
  <1>16. CASE SysYield \/ SysOther \/ SleepResumed
    BY <1>9, <1>16 DEF SysYield, SysOther, Return, SleepResumed, statusVars, cpuVars
  <1>17. CASE SysSleep
    <2>1. current' = current /\ state' = [state EXCEPT ![current] = PROC_SLEEPING]
      BY <1>17 DEF SysSleep
    <2> QED BY <1>2, <1>3, <1>17, <2>1 DEF SysSleep, ProcInv, TypeOK
  <1>18. CASE SysRead \/ ReadResumed
    <2>1. current # p
      BY <1>2, <1>18 DEF SysRead, ReadResumed
    <2>2. /\ current' = current
          /\ state' = state \/ state' = [state EXCEPT ![current] = PROC_SLEEPING]
      BY <1>18 DEF SysRead, ReadResumed, WaitForKey, statusVars, cpuVars
    <2> QED BY <1>3, <2>1, <2>2 DEF ProcInv, TypeOK
  <1>19. CASE SysKill
    <2>1. current # p /\ current' = current
      BY <1>2, <1>19 DEF SysKill
    <2>2. state' = state \/ \E S : p \notin S /\ state' = Awake(S)
      BY <1>1, <1>19 DEF SysKill, WakeupProcs, Interruptible, statusVars
    <2> QED BY <1>3, <1>7, <2>1, <2>2
  <1>20. InterruptsOn => current # p
    BY <1>1 DEF InterruptsOn, KernelThread, Running
  <1>21. CASE ClockInt
    <2>1. p \notin {q \in Procs : timer[q] = 1}
      BY <1>1 DEF ProcInv, TimerInsideSleep
    <2>2. current' = current /\ state' = Awake({q \in Procs : timer[q] = 1})
      BY <1>21 DEF ClockInt, WakeupProcs
    <2> QED BY <1>3, <1>7, <1>20, <1>21, <2>1, <2>2 DEF ClockInt
  <1>22. CASE SerialInt
    <2>1. p \notin {q \in Procs : pc[q] = "read"} \ kbd_woken
      BY <1>1
    <2>2. /\ current' = current
          /\ state' = Awake({q \in Procs : pc[q] = "read"} \ kbd_woken)
      BY <1>22 DEF SerialInt, WakeupProcs
    <2> QED BY <1>3, <1>7, <1>20, <1>22, <2>1, <2>2 DEF SerialInt
  <1>23. CASE UNCHANGED vars
    BY <1>9, <1>23 DEF vars, cpuVars, statusVars
  <1> QED
    BY <1>8, <1>10, <1>11, <1>12, <1>13, <1>14, <1>15, <1>16, <1>17, <1>18, <1>19,
       <1>21, <1>22, <1>23 DEF Next, Kernel, User, Halted

\* do_kill, timers and keys never bring a zombie back, and only its parent frees it.
THEOREM ZombiesOnlyReaped == Spec => ZombieOnlyReaped
  <1>1. ProcInv /\ [Next]_vars
           => [\A p \in Procs : state[p] = PROC_ZOMBIE =>
                  \/ state'[p] = PROC_ZOMBIE /\ (current' = p => at_schedule')
                  \/ state'[p] = FREE /\ current = parent[p]]_vars
    BY ZombieStep
  <1> QED BY <1>1, ProcAlwaysInv, PTL DEF Spec, ZombieOnlyReaped
=============================================================================
