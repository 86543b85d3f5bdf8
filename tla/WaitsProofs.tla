----------------------------- MODULE WaitsProofs ----------------------------
(***************************************************************************)
(* The two users of wait queues.                                           *)
(*                                                                         *)
(* down and up are a semaphore, for any number of processes and any        *)
(* initial value.  SemInv is inductive.  Its heart is QueueIsSleepers: as  *)
(* do_kill cannot end WT_KSEM, only up wakes a waiter, so the queue and    *)
(* the sleeping processes stay the same set and a process that is resumed  *)
(* has been handed the semaphore.  The count then follows from how the set *)
(* of holders changes.                                                     *)
(*                                                                         *)
(* The readers of stdin get what the handler read from the UART, for any   *)
(* sizes of the buffers.  BytesInv is inductive: Good says it of the bytes *)
(* on their way, read ones first, and LineInv of what the handler read and *)
(* the FIFO together, against the line.  A buffer is a Window of its ring, *)
(* and a step does one of four things to the sequence of the bytes:        *)
(* nothing (a read moves bytes from one part of it to the next), a byte    *)
(* more (GoodAppends), all of a full ring less (GoodLosesRing), or the     *)
(* oldest byte of stdin_buffer replaced (GoodOverwrites).                  *)
(***************************************************************************)
EXTENDS MCWaits, Facts, FiniteSetTheorems, TLAPS

\* The set of holders is finite, and its size a number.
LEMMA HoldersFinite ==
    IsFiniteSet(Holders) /\ Cardinality(Holders) \in Nat
  <1>1. Holders \in SUBSET Procs
    BY DEF Holders
  <1> QED BY <1>1, SemAssumption, FS_Subset, FS_CardinalityType

LEMMA SemInit == Init => SemInv
  <1> SUFFICES ASSUME Init PROVE SemInv
    OBVIOUS
  <1>1. Holders = {}
    BY DEF Init, Holders
  <1>2. Range(<<>>) = {} /\ IsInjective(<<>>)
    BY DEF Range, IsInjective
  <1>3. TypeOK /\ ResumedWasHanded /\ NoAssertFails
    <2>1. <<>> \in Seq(Procs)
      OBVIOUS
    <2>2. TypeOK
      BY <2>1, SemAssumption DEF Init, TypeOK
    <2>3. ResumedWasHanded
      BY DEF Init, ResumedWasHanded
    <2>4. NoAssertFails
      BY DEF Init, NoAssertFails
    <2> QED BY <2>2, <2>3, <2>4
  <1>5. QueueIsSleepers
    BY <1>2 DEF Init, QueueIsSleepers, Waiters
  <1>4. ValueIsRest
    BY <1>1, FS_EmptySet, SemAssumption DEF Init, ValueIsRest
  <1> QED BY <1>3, <1>4, <1>5 DEF SemInv, NoIdleWait, Init

\* How the set of holders changes: this is also the step of the refinement.
LEMMA HoldersStep ==
    ASSUME SemInv, NEW p \in Procs
    PROVE  /\ Down(p) => \/ Holders' = Holders
                         \/ value > 0 /\ value' = value - 1
                            /\ p \notin Holders /\ Holders' = Holders \cup {p}
           /\ TryDown(p) => /\ value > 0 /\ value' = value - 1
                            /\ p \notin Holders /\ Holders' = Holders \cup {p}
           /\ DownResumed(p) => Holders' = Holders
           /\ Up(p) => \/ /\ wait_queue = <<>> /\ value' = value + 1
                          /\ p \in Holders /\ Holders' = Holders \ {p}
                       \/ /\ wait_queue # <<>> /\ value' = value
                          /\ Head(wait_queue) \in Procs \ Holders
                          /\ p \in Holders
                          /\ Holders' = (Holders \ {p}) \cup {Head(wait_queue)}
           /\ Kill(p) => Holders' = Holders
  <1> USE DEF SemInv, TypeOK, Holders
  <1>1. ASSUME Down(p)
        PROVE  \/ Holders' = Holders
               \/ value > 0 /\ value' = value - 1
                  /\ p \notin Holders /\ Holders' = Holders \cup {p}
    <2>1. CASE value > 0 /\ value' = value - 1 /\ pc' = [pc EXCEPT ![p] = "in"]
               /\ UNCHANGED wait_state
      BY <1>1, <2>1 DEF Down
    <2>2. CASE /\ pc' = [pc EXCEPT ![p] = "down"]
               /\ wait_state' = [wait_state EXCEPT ![p] = "WT_KSEM"]
      BY <1>1, <2>2 DEF Down
    <2> QED BY <1>1, <2>1, <2>2 DEF Down
  <1>2. ASSUME TryDown(p)
        PROVE  /\ value > 0 /\ value' = value - 1
               /\ p \notin Holders /\ Holders' = Holders \cup {p}
    BY <1>2 DEF TryDown
  <1>3. ASSUME DownResumed(p) PROVE Holders' = Holders
    BY <1>3 DEF DownResumed
  <1>4. ASSUME Up(p)
        PROVE  \/ /\ wait_queue = <<>> /\ value' = value + 1
                  /\ p \in Holders /\ Holders' = Holders \ {p}
               \/ /\ wait_queue # <<>> /\ value' = value
                  /\ Head(wait_queue) \in Procs \ Holders
                  /\ p \in Holders
                  /\ Holders' = (Holders \ {p}) \cup {Head(wait_queue)}
    <2>1. CASE wait_queue = <<>>
      <3>1. p \in Holders /\ value' = value + 1
        BY <1>4, <2>1 DEF Up, ValueUp
      <3>2. Holders' = Holders \ {p}
        BY <1>4, <2>1 DEF Up
      <3> QED BY <2>1, <3>1, <3>2
    <2>2. CASE wait_queue # <<>>
      <3> DEFINE f == Head(wait_queue)
      <3>1. f \in Procs /\ f \in Range(wait_queue)
        BY <2>2, TailFacts
      <3>2. wait_state[f] = "WT_KSEM" /\ pc[f] = "down"
        BY <3>1 DEF QueueIsSleepers, Waiters
      <3>3. /\ pc' = [pc EXCEPT ![p] = "out"]
            /\ wait_state' = [wait_state EXCEPT ![f] = "0"]
            /\ value' = value /\ pc[p] = "in"
        BY <1>4, <2>2 DEF Up, ValueUp
      <3>4. f # p /\ f \notin Holders /\ p \in Holders
        BY <3>2, <3>3
      <3>5. Holders' = (Holders \ {p}) \cup {f}
        BY <3>1, <3>2, <3>3, <3>4
      <3> QED BY <2>2, <3>1, <3>3, <3>4, <3>5
    <2> QED BY <2>1, <2>2
  <1>5. ASSUME Kill(p) PROVE Holders' = Holders
    BY <1>5 DEF Kill, Killable
  <1> QED BY <1>1, <1>2, <1>3, <1>4, <1>5

\* Every step keeps the count.
LEMMA ValueStep ==
    ASSUME SemInv, NEW p \in Procs,
           Down(p) \/ DownResumed(p) \/ TryDown(p) \/ Up(p) \/ Kill(p)
    PROVE  ValueIsRest' /\ value' \in Nat
  <1> DEFINE n == Cardinality(Holders)
  <1>1. value \in Nat /\ n \in Nat /\ value + n = Value /\ Value \in Nat
    BY SemAssumption, HoldersFinite DEF SemInv, TypeOK, ValueIsRest
  <1>2. CASE Holders' = Holders /\ value' = value
    BY <1>1, <1>2 DEF ValueIsRest
  <1>3. CASE /\ value > 0 /\ value' = value - 1
             /\ p \notin Holders /\ Holders' = Holders \cup {p}
    <2>1. Cardinality(Holders') = n + 1
      BY <1>3, HoldersFinite, FS_AddElement
    <2> QED BY <1>1, <1>3, <2>1 DEF ValueIsRest
  <1>4. CASE value' = value + 1 /\ p \in Holders /\ Holders' = Holders \ {p}
    <2>1. Cardinality(Holders') = n - 1
      BY <1>4, HoldersFinite, FS_RemoveElement
    <2> QED BY <1>1, <1>4, <2>1 DEF ValueIsRest
  <1>5. CASE /\ value' = value /\ p \in Holders
             /\ Head(wait_queue) \in Procs \ Holders
             /\ Holders' = (Holders \ {p}) \cup {Head(wait_queue)}
    <2>1. IsFiniteSet(Holders \ {p}) /\ Cardinality(Holders \ {p}) = n - 1
      BY <1>5, HoldersFinite, FS_RemoveElement
    <2>2. Head(wait_queue) \notin Holders \ {p}
      BY <1>5
    <2>3. Cardinality(Holders') = (n - 1) + 1
      BY <1>5, <2>1, <2>2, FS_AddElement
    <2> QED BY <1>1, <1>5, <2>3 DEF ValueIsRest
  <1>7. DownResumed(p) \/ Kill(p) => value' = value
    BY DEF DownResumed, Kill
  <1>8. Down(p) /\ Holders' = Holders => value' = value
    <2> SUFFICES ASSUME Down(p), value > 0, pc' = [pc EXCEPT ![p] = "in"]
                 PROVE  Holders' # Holders
      BY DEF Down
    <2> QED BY DEF Down, Holders, SemInv, TypeOK, QueueIsSleepers
  <1> QED BY <1>2, <1>3, <1>4, <1>5, <1>7, <1>8, HoldersStep

\* Every step keeps the queue, the sleepers and the assertions.
LEMMA QueueStep ==
    ASSUME SemInv, NEW p \in Procs,
           Down(p) \/ DownResumed(p) \/ TryDown(p) \/ Up(p) \/ Kill(p)
    PROVE  /\ TypeOK' /\ QueueIsSleepers' /\ ResumedWasHanded'
           /\ NoAssertFails' /\ NoIdleWait'
  <1> USE DEF SemInv
  <1>0. value' \in Nat
    BY ValueStep
  <1>1. CASE Down(p)
    <2>1. CASE value > 0 /\ UNCHANGED <<wait_queue, wait_state, wakeup_flags, failed>>
      BY <1>0, <1>1, <2>1 DEF Down, TypeOK, QueueIsSleepers, ResumedWasHanded,
         NoAssertFails, NoIdleWait, Waiters
    <2>2. CASE /\ value <= 0
               /\ wait_state' = [wait_state EXCEPT ![p] = "WT_KSEM"]
               /\ wakeup_flags' = [wakeup_flags EXCEPT ![p] = "WT_INTERRUPTED"]
               /\ wait_queue' = Append(wait_queue, p)
               /\ failed' = (p \in Waiters)
               /\ pc' = [pc EXCEPT ![p] = "down"]
               /\ UNCHANGED value
      <3>1. pc[p] = "out" /\ p \notin Waiters
        BY <1>1 DEF Down, QueueIsSleepers
      <3>2. /\ wait_queue' \in Seq(Procs)
            /\ Range(wait_queue') = Range(wait_queue) \cup {p}
            /\ IsInjective(wait_queue')
        BY <2>2, <3>1, AppendFacts DEF TypeOK, QueueIsSleepers, Waiters
      <3>3. TypeOK' /\ NoAssertFails' /\ NoIdleWait'
        BY <1>0, <1>1, <2>2, <3>1, <3>2 DEF Down, TypeOK, NoAssertFails, NoIdleWait
      <3>4. QueueIsSleepers' /\ ResumedWasHanded'
        BY <2>2, <3>1, <3>2 DEF TypeOK, QueueIsSleepers, ResumedWasHanded, Waiters
      <3> QED BY <3>3, <3>4
    <2> QED BY <1>1, <2>1, <2>2 DEF Down
  <1>2. CASE DownResumed(p)
    <2>1. p \notin Waiters /\ wait_queue' = wait_queue
      BY <1>2 DEF DownResumed, QueueIsSleepers, QueueWithout
    <2> QED
      BY <1>0, <1>2, <2>1 DEF DownResumed, TypeOK, QueueIsSleepers,
         ResumedWasHanded, NoAssertFails, NoIdleWait, Waiters
  <1>3. CASE TryDown(p)
    BY <1>0, <1>3 DEF TryDown, TypeOK, QueueIsSleepers, ResumedWasHanded,
       NoAssertFails, NoIdleWait, Waiters
  <1>4. CASE Up(p)
    <2>1. CASE wait_queue = <<>>
      BY <1>0, <1>4, <2>1 DEF Up, TypeOK, QueueIsSleepers, ResumedWasHanded,
         NoAssertFails, NoIdleWait, Waiters
    <2>2. CASE wait_queue # <<>>
      <3> DEFINE f == Head(wait_queue)
      <3>1. /\ f \in Procs /\ f \in Range(wait_queue)
            /\ wait_queue' \in Seq(Procs)
            /\ IsInjective(wait_queue')
            /\ Range(wait_queue') = Range(wait_queue) \ {f}
        <4>1. wait_queue' = Tail(wait_queue)
          BY <1>4, <2>2 DEF Up
        <4>2. wait_queue \in Seq(Procs) /\ IsInjective(wait_queue)
          BY DEF TypeOK, QueueIsSleepers
        <4> QED BY <2>2, <4>1, <4>2, TailFacts
      <3>2. wait_state[f] = "WT_KSEM" /\ pc[f] = "down" /\ f # p
        BY <1>4, <3>1 DEF Up, QueueIsSleepers, Waiters
      <3>3. /\ failed' = FALSE /\ value' = value
            /\ wakeup_flags' = [wakeup_flags EXCEPT ![f] = "WT_KSEM"]
            /\ wait_state' = [wait_state EXCEPT ![f] = "0"]
            /\ pc' = [pc EXCEPT ![p] = "out"] /\ exiting' = exiting
            /\ pc[p] = "in"
        BY <1>4, <2>2, <3>2 DEF Up, ValueUp
      <3>4. TypeOK' /\ NoAssertFails'
        BY <1>0, <3>1, <3>3 DEF TypeOK, NoAssertFails
      <3>5. NoIdleWait'
        BY <2>2, <3>3 DEF NoIdleWait, TypeOK
      <3>6. QueueIsSleepers' /\ ResumedWasHanded'
        BY <3>1, <3>2, <3>3 DEF TypeOK, QueueIsSleepers, ResumedWasHanded, Waiters
      <3> QED BY <3>4, <3>5, <3>6
    <2> QED BY <2>1, <2>2
  <1>5. CASE Kill(p)
    <2>1. wait_state' = wait_state
      BY <1>5 DEF Kill, Killable, TypeOK
    <2> QED
      BY <1>0, <1>5, <2>1 DEF Kill, TypeOK, QueueIsSleepers, ResumedWasHanded,
         NoAssertFails, NoIdleWait, Waiters
  <1> QED BY <1>1, <1>2, <1>3, <1>4, <1>5

LEMMA SemStep == SemInv /\ [Next]_vars => SemInv'
  <1> SUFFICES ASSUME SemInv, [Next]_vars PROVE SemInv'
    OBVIOUS
  <1>1. CASE Next
    BY <1>1, QueueStep, ValueStep DEF Next, SemInv
  <1>2. CASE UNCHANGED vars
    BY <1>2 DEF vars, SemInv, TypeOK, QueueIsSleepers, ResumedWasHanded,
       NoAssertFails, ValueIsRest, NoIdleWait, Waiters, Holders
  <1> QED BY <1>1, <1>2

\* A semaphore's value and its holders always add up, nobody sleeps on a free
\* semaphore, and no assertion of sem.c fails, with any number of processes.
THEOREM SemAlwaysSound == Spec => []SemInv
  BY SemInit, SemStep, PTL DEF Spec

\* down and up implement the abstract semaphore: never more than Value holders.
THEOREM SemRefined == Spec => SemRefinement
  <1>1. Init => Abstract!Init
    BY DEF Init, Abstract!Init, Holders
  <1>2. SemInv /\ [Next]_vars => [Abstract!Next]_Holders
    <2> SUFFICES ASSUME SemInv, [Next]_vars PROVE [Abstract!Next]_Holders
      OBVIOUS
    <2>1. ASSUME NEW p \in Procs, value > 0, p \notin Holders,
                 Holders' = Holders \cup {p}
          PROVE  Abstract!Next
      <3>1. Cardinality(Holders) < Value
        BY <2>1, HoldersFinite DEF SemInv, ValueIsRest, TypeOK
      <3>2. Abstract!Acquire(p)
        BY <2>1, <3>1 DEF Abstract!Acquire, Cardinality, Abstract!Cardinality
      <3> QED BY <3>2 DEF Abstract!Next
    <2>2. ASSUME NEW p \in Procs, p \in Holders, Holders' = Holders \ {p}
          PROVE  Abstract!Next
      BY <2>2 DEF Abstract!Next, Abstract!Release
    <2>3. ASSUME NEW p \in Procs, NEW q \in Procs, p \in Holders, q \notin Holders,
                 Holders' = (Holders \ {p}) \cup {q}
          PROVE  Abstract!Next
      BY <2>3 DEF Abstract!Next, Abstract!HandOver
    <2>4. CASE UNCHANGED vars
      BY <2>4 DEF vars, Holders
    <2>5. CASE Next
      <3>1. PICK p \in Procs :
               Down(p) \/ DownResumed(p) \/ TryDown(p) \/ Up(p) \/ Kill(p)
        BY <2>5 DEF Next
      <3> QED BY <3>1, <2>1, <2>2, <2>3, HoldersStep
    <2> QED BY <2>4, <2>5
  <1> QED
    BY <1>1, <1>2, SemAlwaysSound, PTL DEF Spec, SemRefinement, Abstract!Spec

-----------------------------------------------------------------------------
(* What becomes of the bytes that are read from the UART                   *)

AnyByte == [at : Nat \ {0}, c : Nat]
Byte == [at : Nat \ {0}, c : Nat \ {0}]

\* f has what Fetched makes of the first bytes of s.
Gets(s, f, n) ==
    f = [i \in 0 .. n |->
            IF i = 0 THEN <<>>
            ELSE IF T!Backspaced(s[i]).c = 0 THEN f[i - 1]
            ELSE Append(f[i - 1], T!Backspaced(s[i]))]

LEMMA BackspacedFacts ==
    ASSUME NEW b \in AnyByte
    PROVE  /\ T!Backspaced(b).at = b.at /\ T!Backspaced(b).c \in Nat
           /\ T!Backspaced(b).c # 0 => T!Backspaced(b) \in Byte
  <1>1. PICK v : v = T!Backspaced(b) /\ v = [b EXCEPT !.c = IF b.c = 127 THEN 8 ELSE b.c]
    BY DEF T!Backspaced
  <1>2. /\ b = [at |-> b.at, c |-> b.c] /\ b.at \in Nat \ {0} /\ b.c \in Nat
    BY DEF AnyByte
  <1>3. PICK k \in Nat : k = IF b.c = 127 THEN 8 ELSE b.c
    BY <1>2
  <1>4. v = [at |-> b.at, c |-> k]
    BY <1>1, <1>2, <1>3
  <1>5. v.at = b.at /\ v.c = k
    BY <1>4
  <1>6. k # 0 => v \in Byte
    BY <1>2, <1>4 DEF Byte
  <1> QED BY <1>1, <1>5, <1>6

LEMMA GetsExist ==
    ASSUME NEW s \in Seq(AnyByte), NEW N \in Nat, N <= Len(s)
    PROVE  \E f \in [0 .. N -> Seq(Byte)] : Gets(s, f, N)
  <1> DEFINE B == {k \in Nat : k <= Len(s) /\ ~ \E f \in [0 .. k -> Seq(Byte)] : Gets(s, f, k)}
  <1> SUFFICES ASSUME B # {} PROVE FALSE
    OBVIOUS
  <1>1. PICK k \in B : \A m \in B : k <= m
    <2>1. B \in SUBSET Nat /\ B # {}
      OBVIOUS
    <2> HIDE DEF B
    <2> QED BY <2>1, LeastNumber
  <1>2. k \in Nat /\ k <= Len(s) /\ ~ \E f \in [0 .. k -> Seq(Byte)] : Gets(s, f, k)
    OBVIOUS
  <1>3. k # 0
    <2> SUFFICES ASSUME k = 0 PROVE FALSE
      OBVIOUS
    <2>0. <<>> \in Seq(Byte)
      OBVIOUS
    <2>1. PICK e : e = <<>> /\ e \in Seq(Byte)
      BY <2>0
    <2>2. PICK f : f = [i \in 0 .. 0 |-> e]
      OBVIOUS
    <2>3. f \in [0 .. 0 -> Seq(Byte)]
      BY <2>1, <2>2
    <2>4. \A i \in 0 .. 0 : i = 0
      OBVIOUS
    <2>5. Gets(s, f, 0)
      BY <2>1, <2>2, <2>4 DEF Gets
    <2> QED BY <1>2, <2>3, <2>5
  <1>4. PICK g \in [0 .. k - 1 -> Seq(Byte)] : Gets(s, g, k - 1)
    <2>1. k - 1 \in Nat /\ ~(k <= k - 1) /\ k - 1 <= Len(s)
      BY <1>2, <1>3
    <2>2. k - 1 \notin B
      <3> HIDE DEF B
      <3> QED BY <1>1, <2>1
    <2> QED BY <2>1, <2>2
  <1>5. PICK b : b = T!Backspaced(s[k])
    OBVIOUS
  <1>6. b.c # 0 => b \in Byte
    <2>1. s[k] \in AnyByte
      BY <1>2, <1>3
    <2> QED BY <1>5, <2>1, BackspacedFacts
  <1>7. PICK last \in Seq(Byte) :
            last = IF b.c = 0 THEN g[k - 1] ELSE Append(g[k - 1], b)
    <2>1. k - 1 \in 0 .. k - 1
      BY <1>2, <1>3
    <2>2. g[k - 1] \in Seq(Byte)
      BY <2>1
    <2> DEFINE e == IF b.c = 0 THEN g[k - 1] ELSE Append(g[k - 1], b)
    <2>3. CASE b.c = 0
      <3>1. e = g[k - 1]
        BY <2>3
      <3> QED BY <2>2, <3>1
    <2>4. CASE b.c # 0
      <3>1. e = Append(g[k - 1], b)
        BY <2>4
      <3>2. Append(g[k - 1], b) \in Seq(Byte)
        BY <1>6, <2>2, <2>4
      <3> QED BY <3>1, <3>2
    <2> QED BY <2>3, <2>4
  <1>8. PICK h : h = [i \in 0 .. k |-> IF i < k THEN g[i] ELSE last]
    OBVIOUS
  <1>9. h \in [0 .. k -> Seq(Byte)]
    BY <1>2, <1>8
  <1>10. \A i \in 0 .. k : h[i] = IF i = 0 THEN <<>>
                                 ELSE IF T!Backspaced(s[i]).c = 0 THEN h[i - 1]
                                 ELSE Append(h[i - 1], T!Backspaced(s[i]))
    <2> SUFFICES ASSUME NEW i \in 0 .. k
                 PROVE  h[i] = IF i = 0 THEN <<>>
                               ELSE IF T!Backspaced(s[i]).c = 0 THEN h[i - 1]
                               ELSE Append(h[i - 1], T!Backspaced(s[i]))
      OBVIOUS
    <2>1. CASE i < k
      <3>1. h[i] = g[i] /\ i \in 0 .. k - 1 /\ (i # 0 => h[i - 1] = g[i - 1])
        BY <1>2, <1>8, <2>1
      <3>2. g[i] = IF i = 0 THEN <<>>
                   ELSE IF T!Backspaced(s[i]).c = 0 THEN g[i - 1]
                   ELSE Append(g[i - 1], T!Backspaced(s[i]))
        BY <1>4, <3>1 DEF Gets
      <3> QED BY <3>1, <3>2
    <2>2. CASE i = k
      <3>1. h[k] = last /\ h[k - 1] = g[k - 1]
        BY <1>2, <1>3, <1>8
      <3> QED BY <1>3, <1>5, <1>7, <2>2, <3>1
    <2> QED BY <1>2, <2>1, <2>2
  <1>11. Gets(s, h, k)
    <2>1. h = [i \in 0 .. k |-> h[i]]
      BY <1>9
    <2> QED BY <1>10, <2>1 DEF Gets
  <1> QED BY <1>2, <1>9, <1>11

\* Only the bytes up to n matter.
LEMMA GetsUnique ==
    ASSUME NEW s, NEW r, NEW n \in Nat, NEW k \in Nat, n <= k,
           NEW f, NEW g, Gets(s, f, n), Gets(r, g, k),
           \A i \in 1 .. n : s[i] = r[i]
    PROVE  f[n] = g[n]
  <1> DEFINE B == {i \in 0 .. n : f[i] # g[i]}
  <1> SUFFICES ASSUME B # {} PROVE FALSE
    OBVIOUS
  <1>1. PICK m \in B : \A i \in B : m <= i
    <2>1. B \in SUBSET Nat /\ B # {}
      OBVIOUS
    <2> HIDE DEF B
    <2> QED BY <2>1, LeastNumber
  <1>2. m \in 0 .. n /\ f[m] # g[m]
    OBVIOUS
  <1>3. /\ f[m] = IF m = 0 THEN <<>>
                  ELSE IF T!Backspaced(s[m]).c = 0 THEN f[m - 1]
                  ELSE Append(f[m - 1], T!Backspaced(s[m]))
        /\ g[m] = IF m = 0 THEN <<>>
                  ELSE IF T!Backspaced(r[m]).c = 0 THEN g[m - 1]
                  ELSE Append(g[m - 1], T!Backspaced(r[m]))
    <2>1. m \in 0 .. k
      BY <1>2
    <2> QED BY <1>2, <2>1 DEF Gets
  <1>4. m # 0
    BY <1>2, <1>3
  <1>5. m - 1 \in 0 .. n /\ ~(m <= m - 1) /\ m \in 1 .. n
    BY <1>2, <1>4
  <1>6. f[m - 1] = g[m - 1]
    BY <1>1, <1>5
  <1>7. s[m] = r[m]
    BY <1>5
  <1> HIDE DEF B
  <1> QED BY <1>2, <1>3, <1>6, <1>7

LEMMA FetchedIs ==
    ASSUME NEW s \in Seq(AnyByte)
    PROVE  \E f \in [0 .. Len(s) -> Seq(Byte)] :
               Gets(s, f, Len(s)) /\ T!Fetched(s) = f[Len(s)]
  <1>1. PICK n \in Nat : n = Len(s)
    OBVIOUS
  <1>2. PICK g \in [0 .. n -> Seq(Byte)] : Gets(s, g, n)
    BY <1>1, GetsExist
  <1>3. PICK f : Gets(s, f, n) /\ T!Fetched(s) = f[n]
    <2>1. PICK c : c = CHOOSE f : Gets(s, f, n)
      OBVIOUS
    <2>2. Gets(s, c, n)
      BY <1>2, <2>1
    <2>3. T!Fetched(s) = c[n]
      BY <1>1, <2>1 DEF T!Fetched, Gets
    <2> QED BY <2>2, <2>3
  <1>4. f[n] = g[n]
    BY <1>2, <1>3, GetsUnique
  <1> QED BY <1>1, <1>2, <1>3, <1>4

LEMMA FetchedFacts ==
    /\ T!Fetched(<<>>) = <<>>
    /\ \A s \in Seq(AnyByte) : T!Fetched(s) \in Seq(Byte)
    /\ \A s \in Seq(AnyByte), b \in AnyByte :
          T!Fetched(Append(s, b)) =
              IF b.c = 0 THEN T!Fetched(s)
              ELSE Append(T!Fetched(s), T!Backspaced(b))
  <1>1. T!Fetched(<<>>) = <<>>
    <2>1. <<>> \in Seq(AnyByte) /\ Len(<<>>) = 0
      OBVIOUS
    <2>2. PICK f : Gets(<<>>, f, 0) /\ T!Fetched(<<>>) = f[0]
      BY <2>1, FetchedIs
    <2>3. f[0] = <<>>
      BY <2>2 DEF Gets
    <2> QED BY <2>2, <2>3
  <1>2. \A s \in Seq(AnyByte) : T!Fetched(s) \in Seq(Byte)
    <2> SUFFICES ASSUME NEW s \in Seq(AnyByte) PROVE T!Fetched(s) \in Seq(Byte)
      OBVIOUS
    <2>1. PICK n \in Nat : n = Len(s)
      OBVIOUS
    <2>2. PICK f \in [0 .. n -> Seq(Byte)] : T!Fetched(s) = f[n]
      BY <2>1, FetchedIs
    <2> QED BY <2>1, <2>2
  <1>3. ASSUME NEW s \in Seq(AnyByte), NEW b \in AnyByte
        PROVE  T!Fetched(Append(s, b)) =
                   IF b.c = 0 THEN T!Fetched(s)
                   ELSE Append(T!Fetched(s), T!Backspaced(b))
    <2>1. PICK n \in Nat : n = Len(s)
      OBVIOUS
    <2>2. PICK t : t = Append(s, b)
      OBVIOUS
    <2>3. t \in Seq(AnyByte) /\ Len(t) = n + 1 /\ t[n + 1] = b /\ \A i \in 1 .. n : s[i] = t[i]
      BY <2>1, <2>2
    <2>4. PICK f : Gets(s, f, n) /\ T!Fetched(s) = f[n]
      BY <2>1, FetchedIs
    <2>5. PICK g : Gets(t, g, n + 1) /\ T!Fetched(t) = g[n + 1]
      BY <2>3, FetchedIs
    <2>6. f[n] = g[n]
      <3>1. n + 1 \in Nat /\ n <= n + 1
        OBVIOUS
      <3> QED BY <2>3, <2>4, <2>5, <3>1, GetsUnique
    <2>7. g[n + 1] = IF T!Backspaced(b).c = 0 THEN g[n] ELSE Append(g[n], T!Backspaced(b))
      <3>1. n + 1 \in 0 .. n + 1 /\ n + 1 # 0 /\ (n + 1) - 1 = n
        OBVIOUS
      <3> QED BY <2>3, <2>5, <3>1 DEF Gets
    <2>8. T!Backspaced(b).c = 0 <=> b.c = 0
      BY DEF T!Backspaced, AnyByte
    <2> QED BY <2>2, <2>4, <2>5, <2>6, <2>7, <2>8
  <1> QED BY <1>1, <1>2, <1>3
-----------------------------------------------------------------------------
(* Readers that sleep                                                      *)

\* What is needed of the counters and the queue.
ReadersOK ==
    /\ p_rpos \in Nat /\ p_wpos \in Nat /\ p_rpos <= p_wpos
    /\ readers_queue \in Seq(Readers)
    /\ left \in [Readers -> Nat]
ReadersInv == ReadersOK /\ T!SleepersHaveNothing

\* wait_current_del takes nobody else's wait_t off the queue.
LEMMA LeaveFacts ==
    ASSUME readers_queue \in Seq(Readers), NEW r \in Readers
    PROVE  /\ T!WaitCurrentDel(r) \in Seq(Readers)
           /\ \A q \in T!ToSet(readers_queue) :
                 q # r => q \in T!ToSet(T!WaitCurrentDel(r))
  <1>1. CASE r \notin T!ToSet(readers_queue)
    BY <1>1 DEF T!WaitCurrentDel
  <1>2. CASE r \in T!ToSet(readers_queue)
    <2> DEFINE s == readers_queue
    <2>1. \E i \in DOMAIN s : s[i] = r
      BY <1>2 DEF T!ToSet
    <2>2. PICK i \in DOMAIN s : i = CHOOSE j \in DOMAIN s : s[j] = r
      BY <2>1
    <2>3. s[i] = r
      BY <2>1, <2>2
    <2>4. PICK n \in Nat : n = Len(s) /\ DOMAIN s = 1 .. n /\ i \in 1 .. n
      <3>1. Len(s) \in Nat /\ DOMAIN s = 1 .. Len(s)
        BY RangeOfSeq
      <3> HIDE DEF s
      <3> QED BY <2>2, <3>1
    <2>5. PICK a, b : a = SubSeq(s, 1, i - 1) /\ b = SubSeq(s, i + 1, Len(s))
      OBVIOUS
    <2>6. /\ a \in Seq(Readers) /\ Len(a) = i - 1
          /\ \A j \in 1 .. i - 1 : a[j] = s[j]
      <3>1. i - 1 \in 0 .. Len(s)
        BY <2>4
      <3>2. SubSeq(s, 1, i - 1) \in Seq(Readers) /\ Len(SubSeq(s, 1, i - 1)) = i - 1
        BY <3>1, SplitFacts
      <3>3. \A j \in 1 .. i - 1 : SubSeq(s, 1, i - 1)[j] = s[j]
        BY <2>4
      <3> QED BY <2>5, <3>2, <3>3
    <2>7. /\ b \in Seq(Readers) /\ Len(b) = n - i
          /\ \A j \in 1 .. n - i : b[j] = s[i + j]
      <3>1. i \in 0 .. Len(s)
        BY <2>4
      <3> QED BY <2>4, <2>5, <3>1, SplitFacts
    <2>8. PICK t : t = a \o b
      OBVIOUS
    <2>9. /\ t \in Seq(Readers) /\ Len(t) = (i - 1) + (n - i)
          /\ \A j \in 1 .. i - 1 : t[j] = a[j]
          /\ \A j \in 1 .. n - i : t[(i - 1) + j] = b[j]
      BY <2>6, <2>7, <2>8, ConcatElements
    <2>10. T!WaitCurrentDel(r) = t
      BY <1>2, <2>2, <2>5, <2>8, Zenon DEF T!WaitCurrentDel, T!RemoveAt
    <2>11. ASSUME NEW q \in T!ToSet(s), q # r PROVE q \in T!ToSet(t)
      <3>1. PICK j \in 1 .. n : s[j] = q
        BY <2>4 DEF T!ToSet
      <3>2. PICK k \in DOMAIN t : t[k] = q
        <4>1. DOMAIN t = 1 .. n - 1
          BY <2>4, <2>9
        <4>2. CASE j < i
          <5>1. j \in 1 .. i - 1 /\ j \in 1 .. n - 1
            BY <2>4, <4>2
          <5> QED BY <2>6, <2>9, <3>1, <4>1, <5>1
        <4>3. CASE j > i
          <5>1. j - i \in 1 .. n - i /\ (i - 1) + (j - i) \in 1 .. n - 1 /\ i + (j - i) = j
            BY <2>4, <4>3
          <5>2. t[(i - 1) + (j - i)] = b[j - i] /\ b[j - i] = s[i + (j - i)]
            BY <2>7, <2>9, <5>1
          <5> QED BY <3>1, <4>1, <5>1, <5>2
        <4> QED BY <2>3, <2>4, <2>11, <3>1, <4>2, <4>3
      <3> QED BY <3>2 DEF T!ToSet
    <2> QED BY <2>9, <2>10, <2>11
  <1> QED BY <1>1, <1>2

\* The number of bytes a turn of the loop copies.
LEMMA MinFacts ==
    ASSUME NEW n \in Nat, NEW k \in Nat
    PROVE  T!Min({n, k}) = IF n <= k THEN n ELSE k
  <1>1. PICK m : m = IF n <= k THEN n ELSE k
    OBVIOUS
  <1>2. m \in {n, k} /\ \A y \in {n, k} : m <= y
    BY <1>1
  <1>3. \A x \in {n, k} : (\A y \in {n, k} : x <= y) => x = m
    BY <1>1
  <1>4. T!Min({n, k}) = CHOOSE x \in {n, k} : \A y \in {n, k} : x <= y
    BY DEF T!Min
  <1> QED BY <1>1, <1>2, <1>3, <1>4

\* A turn of the loop with something left to read.
LEMMA LoopSleeps ==
    ASSUME ReadersInv, NEW r \in Readers, NEW n \in Nat \ {0},
           T!ReadLoop(r, n), p_wpos' = p_wpos
    PROVE  ReadersInv'
  <1> USE DEF ReadersInv, ReadersOK
  <1>1. PICK k \in Nat : k = p_wpos - p_rpos
    OBVIOUS
  <1>2. PICK got \in Nat : got = IF n <= k THEN n ELSE k
    OBVIOUS
  <1>3. T!Min({n, p_wpos - p_rpos}) = got
    BY <1>1, <1>2, MinFacts
  <1>4. /\ p_rpos' = p_rpos + got /\ left' = [left EXCEPT ![r] = n - got]
        /\ \/ got = n /\ readers_queue' = T!WaitCurrentDel(r) /\ asleep' = asleep
           \/ /\ got < n /\ asleep' = asleep \cup {r}
              /\ readers_queue' = Append(T!WaitCurrentDel(r), r)
    BY <1>3 DEF T!ReadLoop
  <1>5. p_rpos' \in Nat /\ p_wpos' \in Nat /\ p_rpos' <= p_wpos'
    BY <1>1, <1>2, <1>4
  <1>6. left' \in [Readers -> Nat]
    BY <1>1, <1>2, <1>4
  <1>7. PICK s : s = T!WaitCurrentDel(r)
    OBVIOUS
  <1>8. s \in Seq(Readers) /\ \A q \in T!ToSet(readers_queue) : q # r => q \in T!ToSet(s)
    BY <1>7, LeaveFacts
  <1>9. CASE got = n /\ readers_queue' = s /\ asleep' = asleep
    <2>1. \A q \in Readers : q \notin asleep
      BY <1>1, <1>2, <1>9 DEF T!SleepersHaveNothing
    <2>2. T!SleepersHaveNothing'
      BY <1>9, <2>1 DEF T!SleepersHaveNothing
    <2> QED BY <1>5, <1>6, <1>8, <1>9, <2>2
  <1>10. CASE got < n /\ asleep' = asleep \cup {r} /\ readers_queue' = Append(s, r)
    <2>1. p_rpos' = p_wpos'
      BY <1>1, <1>2, <1>4, <1>10
    <2>2. readers_queue' \in Seq(Readers) /\ Range(readers_queue') = Range(s) \cup {r}
      <3>1. PICK u : u = Append(s, r)
        OBVIOUS
      <3>2. u \in Seq(Readers) /\ Range(u) = Range(s) \cup {r}
        BY <1>8, <3>1, AppendFacts
      <3> QED BY <1>10, <3>1, <3>2
    <2>3. \A q \in Readers : q \in asleep' => q \in T!ToSet(readers_queue')
      <3> SUFFICES ASSUME NEW q \in Readers, q \in asleep'
                   PROVE  q \in T!ToSet(readers_queue')
        OBVIOUS
      <3>1. q = r \/ q \in T!ToSet(s)
        BY <1>8, <1>10 DEF T!SleepersHaveNothing
      <3> QED BY <2>2, <3>1 DEF T!ToSet, Range
    <2>4. T!SleepersHaveNothing'
      BY <2>1, <2>3 DEF T!SleepersHaveNothing
    <2> QED BY <1>5, <1>6, <2>2, <2>4
  <1> QED BY <1>4, <1>7, <1>9, <1>10

LEMMA ReadersStep == ReadersInv /\ [T!Next]_stdinvars => ReadersInv'
  <1> SUFFICES ASSUME ReadersInv, [T!Next]_stdinvars PROVE ReadersInv'
    OBVIOUS
  <1> USE DEF ReadersInv, ReadersOK
  <1>1. CASE T!Receive
    BY <1>1 DEF T!Receive, T!SleepersHaveNothing
  <1>0. CASE T!Fetch
    BY <1>0 DEF T!Fetch, T!SleepersHaveNothing
  <1>2. CASE T!HandlerEnd
    <2>1. PICK byte : T!StdinWrite(byte)
      BY <1>2 DEF T!HandlerEnd
    <2>2. p_rpos' = p_rpos /\ left' = left
      BY <1>2 DEF T!HandlerEnd
    <2>3. CASE T!WakeupQueue /\ p_wpos' = IF T!StdinFull THEN p_wpos ELSE p_wpos + 1
      <3>1. p_wpos' \in Nat /\ p_rpos' <= p_wpos'
        BY <2>2, <2>3
      <3>2. readers_queue' = <<>> /\ asleep' = asleep \ T!ToSet(readers_queue)
        BY <2>3 DEF T!WakeupQueue
      <3>3. \A q \in Readers : q \notin asleep'
        BY <3>2 DEF T!SleepersHaveNothing
      <3>4. <<>> \in Seq(Readers)
        OBVIOUS
      <3> QED BY <2>2, <3>1, <3>2, <3>3, <3>4 DEF T!SleepersHaveNothing
    <2>4. CASE UNCHANGED <<p_wpos, asleep, readers_queue>>
      BY <2>2, <2>4 DEF T!SleepersHaveNothing
    <2> QED BY <2>1, <2>3, <2>4 DEF T!StdinWrite
  <1>3. ASSUME NEW r \in Readers, T!Read(r) PROVE ReadersInv'
    <2>1. PICK n \in Nat \ {0} : T!ReadLoop(r, n)
      <3>1. \A n \in 1 .. MaxLen : n \in Nat \ {0}
        BY WaitsAssumption
      <3> QED BY <1>3, <3>1 DEF T!Read
    <2>2. p_wpos' = p_wpos
      BY <1>3 DEF T!Read
    <2> QED BY <2>1, <2>2, LoopSleeps
  <1>4. ASSUME NEW r \in Readers, T!Resume(r) PROVE ReadersInv'
    <2>1. p_wpos' = p_wpos /\ left[r] \in Nat \ {0} /\ r \notin asleep
      BY <1>4 DEF T!Resume
    <2>2. CASE T!ReadLoop(r, left[r])
      BY <2>1, <2>2, LoopSleeps
    <2>3. CASE /\ left' = [left EXCEPT ![r] = 0] /\ readers_queue' = T!WaitCurrentDel(r)
               /\ UNCHANGED <<p_rpos, asleep>>
      <3>1. left' \in [Readers -> Nat]
        BY <2>3
      <3>2. PICK s : s = T!WaitCurrentDel(r)
        OBVIOUS
      <3>3. s \in Seq(Readers) /\ \A q \in T!ToSet(readers_queue) : q # r => q \in T!ToSet(s)
        BY <3>2, LeaveFacts
      <3>4. readers_queue' = s /\ p_rpos' = p_rpos /\ asleep' = asleep
        BY <2>3, <3>2
      <3>5. T!SleepersHaveNothing'
        BY <2>1, <3>3, <3>4 DEF T!SleepersHaveNothing
      <3> QED BY <2>1, <3>1, <3>3, <3>4, <3>5
    <2> QED BY <1>4, <2>2, <2>3 DEF T!Resume
  <1>5. ASSUME NEW r \in Readers, T!Kill(r) PROVE ReadersInv'
    BY <1>5 DEF T!Kill, T!SleepersHaveNothing
  <1>6. CASE UNCHANGED stdinvars
    BY <1>6 DEF stdinvars, T!SleepersHaveNothing
  <1> QED BY <1>0, <1>1, <1>2, <1>3, <1>4, <1>5, <1>6 DEF T!Next, T!Handler

-----------------------------------------------------------------------------
(* What the way of the bytes may do to them                                *)

Increasing(P) == \A i, j \in 1 .. Len(P) : i < j => P[i].at < P[j].at

\* The bytes P on their way, of the bytes I that the handler got, when the
\* buffers ov of the kernel have overrun.
Good(P, I, ov) ==
    /\ P \in Seq(Byte) /\ IsInjective(P) /\ Range(P) \subseteq Range(I)
    /\ "stdin" \notin ov => Increasing(P)
    /\ ov = {} => P = I

\* h finds the elements of R in P.
Finds(h, R, P) ==
    /\ h \in [1 .. Len(R) -> 1 .. Len(P)]
    /\ \A i \in 1 .. Len(R) : R[i] = P[h[i]]
    /\ \A i, j \in 1 .. Len(R) : h[i] = h[j] => i = j
Rises(h, R) == \A i, j \in 1 .. Len(R) : i < j => h[i] < h[j]

\* Some of the bytes are lost, and the others keep their order unless
\* stdin_buffer has overrun.
LEMMA GoodSelects ==
    ASSUME NEW P, NEW I, NEW ov, NEW ow, Good(P, I, ov), ov \subseteq ow, ow # {},
           NEW R \in Seq(Byte), NEW h, Finds(h, R, P), "stdin" \notin ow => Rises(h, R)
    PROVE  Good(R, I, ow)
  <1>0. /\ h \in [1 .. Len(R) -> 1 .. Len(P)]
        /\ \A i \in 1 .. Len(R) : R[i] = P[h[i]]
        /\ \A i, j \in 1 .. Len(R) : h[i] = h[j] => i = j
    BY DEF Finds
  <1>1. /\ P \in Seq(Byte) /\ IsInjective(P) /\ Range(P) \subseteq Range(I)
        /\ "stdin" \notin ov => Increasing(P)
    BY DEF Good
  <1>2. /\ DOMAIN P = 1 .. Len(P) /\ Range(P) = {P[i] : i \in 1 .. Len(P)}
        /\ DOMAIN R = 1 .. Len(R) /\ Range(R) = {R[i] : i \in 1 .. Len(R)}
    BY <1>1, RangeOfSeq
  <1>3. IsInjective(R)
    <2>1. \A i, j \in 1 .. Len(R) : P[h[i]] = P[h[j]] => h[i] = h[j]
      BY <1>0, <1>1, <1>2 DEF IsInjective
    <2> QED BY <1>0, <1>2, <2>1 DEF IsInjective
  <1>4. Range(R) \subseteq Range(P)
    BY <1>0, <1>2
  <1>5. ASSUME "stdin" \notin ow PROVE Increasing(R)
    <2>1. Increasing(P)
      BY <1>1, <1>5
    <2> QED BY <1>0, <1>5, <2>1 DEF Increasing, Rises
  <1> QED BY <1>1, <1>3, <1>4, <1>5 DEF Good

\* A byte is fetched, and the ring has room for it or has not.
LEMMA GoodAppends ==
    ASSUME NEW P, NEW I \in Seq(Byte), NEW ov, Good(P, I, ov), NEW x \in Byte,
           \A i \in 1 .. Len(I) : I[i].at < x.at
    PROVE  /\ Good(Append(P, x), Append(I, x), ov)
           /\ ov # {} => Good(P, Append(I, x), ov)
  <1>1. /\ P \in Seq(Byte) /\ IsInjective(P) /\ Range(P) \subseteq Range(I)
        /\ "stdin" \notin ov => Increasing(P)
        /\ ov = {} => P = I
    BY DEF Good
  <1>2. PICK Q, J : Q = Append(P, x) /\ J = Append(I, x)
    OBVIOUS
  <1>3. /\ Q \in Seq(Byte) /\ Range(Q) = Range(P) \cup {x}
        /\ IsInjective(P) /\ x \notin Range(P) => IsInjective(Q)
    BY <1>1, <1>2, AppendFacts
  <1>4. Range(J) = Range(I) \cup {x}
    BY <1>2, AppendFacts
  <1>5. \A y \in Range(I) : y.at < x.at
    BY RangeOfSeq
  <1>6. x \notin Range(P)
    <2>1. ~(x.at < x.at)
      BY DEF Byte
    <2> QED BY <1>1, <1>5, <2>1
  <1>7. ASSUME "stdin" \notin ov PROVE Increasing(Q)
    <2>1. Increasing(P)
      BY <1>1, <1>7
    <2>2. PICK n \in Nat : n = Len(P)
      BY <1>1
    <2>3. Len(Q) = n + 1 /\ Q[n + 1] = x /\ \A i \in 1 .. n : Q[i] = P[i]
      BY <1>1, <1>2, <2>2
    <2>4. \A i \in 1 .. n : P[i].at < x.at
      BY <1>1, <1>5, <2>2, RangeOfSeq
    <2>5. ASSUME NEW i \in 1 .. n + 1, NEW j \in 1 .. n + 1, i < j
          PROVE  Q[i].at < Q[j].at
      <3>1. i \in 1 .. n
        BY <2>2, <2>5
      <3>2. CASE j = n + 1
        BY <2>3, <2>4, <3>1, <3>2
      <3>3. CASE j # n + 1
        <4>1. j \in 1 .. n
          BY <2>2, <3>3
        <4> QED BY <2>1, <2>2, <2>3, <2>5, <3>1, <4>1 DEF Increasing
      <3> QED BY <3>2, <3>3
    <2> QED BY <2>3, <2>5 DEF Increasing
  <1>8. Good(Q, J, ov)
    BY <1>1, <1>2, <1>3, <1>4, <1>6, <1>7 DEF Good
  <1>9. ov # {} => Good(P, J, ov)
    BY <1>1, <1>4 DEF Good
  <1> QED BY <1>2, <1>8, <1>9

-----------------------------------------------------------------------------
(* The part of a ring buffer between its read and its write position       *)

Slot == [at : Nat, c : Nat]

\* The slot of the i-th position from r on.
SlotOf(N, r, i) == (r + i - 1) % N

Window(buf, N, r, n) == [i \in 1 .. n |-> buf[SlotOf(N, r, i)]]
IsWindow(w, N, buf, r, n) ==
    /\ w \in Seq(Slot) /\ Len(w) = n
    /\ \A i \in 1 .. n : w[i] = buf[SlotOf(N, r, i)] /\ SlotOf(N, r, i) \in 0 .. N - 1

\* The slot of a position is one of the ring's.
LEMMA WindowSlots ==
    ASSUME NEW N \in Nat \ {0}, NEW buf \in [0 .. N - 1 -> Slot], NEW r \in Nat, NEW n \in Nat
    PROVE  IsWindow(Window(buf, N, r, n), N, buf, r, n)
  <1>1. \A i \in 1 .. n : SlotOf(N, r, i) \in 0 .. N - 1
    <2> TAKE i \in 1 .. n
    <2>1. r + i - 1 \in Int
      OBVIOUS
    <2> QED BY <2>1, ModFacts DEF SlotOf
  <1>2. PICK w : w = Window(buf, N, r, n)
    OBVIOUS
  <1>3. w = [i \in 1 .. n |-> buf[SlotOf(N, r, i)]]
    BY <1>2 DEF Window
  <1>4. \A i \in 1 .. n : buf[SlotOf(N, r, i)] \in Slot
    BY <1>1
  <1>5. w \in Seq(Slot) /\ Len(w) = n /\ \A i \in 1 .. n : w[i] = buf[SlotOf(N, r, i)]
    BY <1>3, <1>4
  <1> QED BY <1>1, <1>2, <1>5 DEF IsWindow

SlotWritten(new, N, buf, r, n, b) ==
    /\ new \in [0 .. N - 1 -> Slot] /\ new[(r + n) % N] = b
    /\ \A i \in 1 .. n : (i > 1 \/ n < N) => new[SlotOf(N, r, i)] = buf[SlotOf(N, r, i)]
    /\ n = N => SlotOf(N, r, 1) = (r + n) % N

\* Writing the slot behind the window touches none of the window's, unless
\* the window is the whole ring: then it is the first one's.
LEMMA WindowWrite ==
    ASSUME NEW N \in Nat \ {0}, NEW buf \in [0 .. N - 1 -> Slot], NEW r \in Nat,
           NEW n \in 0 .. N, NEW b \in Slot, NEW new,
           new = [buf EXCEPT ![(r + n) % N] = b]
    PROVE  SlotWritten(new, N, buf, r, n, b)
  <1>1. (r + n) % N \in 0 .. N - 1
    <2>1. r + n \in Int
      OBVIOUS
    <2> QED BY <2>1, ModFacts
  <1>2. PICK m \in 0 .. N - 1 : m = (r + n) % N
    BY <1>1
  <1>3. new \in [0 .. N - 1 -> Slot] /\ new[m] = b
        /\ \A k \in 0 .. N - 1 : k # m => new[k] = buf[k]
    BY <1>2
  <1>4. ASSUME NEW i \in 1 .. n, i > 1 \/ n < N
        PROVE  new[SlotOf(N, r, i)] = buf[SlotOf(N, r, i)]
    <2>1. PICK a \in Int : a = r + i - 1
      OBVIOUS
    <2>2. PICK e \in Int : e = r + n
      OBVIOUS
    <2>3. -N < a - e /\ a - e < N /\ a # e
      BY <1>4, <2>1, <2>2
    <2>4. a % N # e % N
      BY <2>3, ModInjective
    <2>5. a % N \in 0 .. N - 1
      BY ModFacts
    <2>6. SlotOf(N, r, i) = a % N
      BY <2>1 DEF SlotOf
    <2> QED BY <1>2, <1>3, <2>2, <2>4, <2>5, <2>6
  <1>5. ASSUME n = N PROVE SlotOf(N, r, 1) = m
    <2>0. r \in Int
      OBVIOUS
    <2>1. PICK q \in Int : r = N * q + (r % N) /\ r % N \in 0 .. N - 1
      <3>1. r % N \in 0 .. N - 1 /\ r \div N \in Int /\ r = N * (r \div N) + (r % N)
        BY <2>0, ModFacts
      <3> QED BY <3>1, Zenon
    <2>2. r + n = N * (q + 1) + (r % N) /\ q + 1 \in Int /\ r + n \in Int
      BY <1>5, <2>1
    <2>3. (r + n) % N = r % N
      BY <2>1, <2>2, ModIs
    <2>4. r + 1 - 1 = r
      OBVIOUS
    <2> QED BY <1>2, <2>3, <2>4 DEF SlotOf
  <1> QED BY <1>2, <1>3, <1>4, <1>5 DEF SlotWritten

-----------------------------------------------------------------------------
(* The bytes on their way, before and after an interrupt                   *)

\* P is a, then b, then c.
Parts(P, a, b, c) ==
    /\ P \in Seq(Byte) /\ Len(P) = Len(a) + Len(b) + Len(c)
    /\ \A i \in 1 .. Len(a) : P[i] = a[i]
    /\ \A i \in 1 .. Len(b) : P[Len(a) + i] = b[i]
    /\ \A i \in 1 .. Len(c) : P[Len(a) + Len(b) + i] = c[i]

LEMMA PartsAre ==
    ASSUME NEW a \in Seq(Byte), NEW b \in Seq(Byte), NEW c \in Seq(Byte)
    PROVE  Parts((a \o b) \o c, a, b, c)
  <1>1. PICK l \in Nat, m \in Nat, n \in Nat : l = Len(a) /\ m = Len(b) /\ n = Len(c)
    OBVIOUS
  <1>2. PICK s : s = a \o b
    OBVIOUS
  <1>3. /\ s \in Seq(Byte) /\ Len(s) = l + m
        /\ \A i \in 1 .. l : s[i] = a[i]
        /\ \A i \in 1 .. m : s[l + i] = b[i]
    BY <1>1, <1>2, ConcatElements
  <1>4. PICK P : P = s \o c
    OBVIOUS
  <1>5. /\ P \in Seq(Byte) /\ Len(P) = l + m + n
        /\ \A i \in 1 .. l + m : P[i] = s[i]
        /\ \A i \in 1 .. n : P[l + m + i] = c[i]
    <2>1. /\ s \o c \in Seq(Byte) /\ Len(s \o c) = Len(s) + Len(c)
          /\ \A i \in 1 .. Len(s) : (s \o c)[i] = s[i]
          /\ \A i \in 1 .. Len(c) : (s \o c)[Len(s) + i] = c[i]
      <3>1. s \in Seq(Byte)
        BY <1>3
      <3> QED BY <3>1, ConcatElements
    <2> QED BY <1>1, <1>3, <1>4, <2>1
  <1>6. \A i \in 1 .. l : i \in 1 .. l + m
    OBVIOUS
  <1>7. \A i \in 1 .. m : l + i \in 1 .. l + m
    OBVIOUS
  <1>8. (\A i \in 1 .. l : P[i] = a[i]) /\ (\A i \in 1 .. m : P[l + i] = b[i])
    BY <1>3, <1>5, <1>6, <1>7
  <1> QED BY <1>1, <1>2, <1>4, <1>5, <1>8 DEF Parts

\* The last bytes, if any, are lost.
LEMMA GoodPrefix ==
    ASSUME NEW P, NEW I, NEW ov, NEW ow, Good(P, I, ov), ov \subseteq ow,
           NEW R \in Seq(Byte), Len(R) <= Len(P), Len(R) # Len(P) => ow # {},
           \A i \in 1 .. Len(R) : R[i] = P[i]
    PROVE  Good(R, I, ow)
  <1>1. P \in Seq(Byte)
    BY DEF Good
  <1>2. CASE ow = {}
    <2>1. ov = {} /\ Len(R) = Len(P)
      BY <1>2
    <2>2. R = P
      BY <1>1, <2>1, SameSeqs
    <2> QED BY <1>2, <2>1, <2>2
  <1>3. CASE ow # {}
    <2>1. PICK n \in Nat : n = Len(R)
      OBVIOUS
    <2>2. PICK h : h = [i \in 1 .. n |-> i]
      OBVIOUS
    <2>3. h \in [1 .. n -> 1 .. Len(P)] /\ \A i \in 1 .. n : h[i] = i
      <3>1. \A i \in 1 .. n : i \in 1 .. Len(P)
        BY <1>1, <2>1
      <3> QED BY <2>2, <3>1
    <2>4. Finds(h, R, P) /\ Rises(h, R)
      BY <2>1, <2>3 DEF Finds, Rises
    <2> QED BY <1>3, <2>4, GoodSelects
  <1> QED BY <1>2, <1>3

\* The first of the k bytes behind the m-th is overwritten by the one that comes
\* after the last of them.
LEMMA GoodOverwrites ==
    ASSUME NEW P, NEW I, NEW ov, NEW ow, Good(P, I, ov), ov \subseteq ow,
           "stdin" \in ow, NEW R \in Seq(Byte), NEW m \in Nat, NEW k \in Nat \ {0},
           Len(R) + 1 = Len(P), m + k <= Len(R),
           \A i \in 1 .. Len(R) : R[i] = IF i = m + 1 THEN P[m + k + 1]
                                         ELSE IF i <= m + k THEN P[i] ELSE P[i + 1]
    PROVE  Good(R, I, ow)
  <1>1. PICK n \in Nat : n = Len(R) /\ n + 1 = Len(P)
    <2>1. Len(R) \in Nat
      BY RangeOfSeq
    <2> QED BY <2>1, Zenon
  <1>2. PICK h : h = [i \in 1 .. n |-> IF i = m + 1 THEN m + k + 1
                                       ELSE IF i <= m + k THEN i ELSE i + 1]
    OBVIOUS
  <1>3. \A i \in 1 .. n : h[i] = IF i = m + 1 THEN m + k + 1
                                 ELSE IF i <= m + k THEN i ELSE i + 1
    BY <1>2
  <1>4. h \in [1 .. n -> 1 .. n + 1]
    <2>1. \A i \in 1 .. n : (IF i = m + 1 THEN m + k + 1
                             ELSE IF i <= m + k THEN i ELSE i + 1) \in 1 .. n + 1
      BY <1>1
    <2> QED BY <1>2, <2>1
  <1>5. \A i, j \in 1 .. n : h[i] = h[j] => i = j
    BY <1>3
  <1>6. \A i \in 1 .. n : R[i] = P[h[i]]
    BY <1>1, <1>3
  <1>7. Finds(h, R, P)
    BY <1>1, <1>4, <1>5, <1>6 DEF Finds
  <1> QED BY <1>7, GoodSelects

\* Two positions of the same slot.
SameSlot(N, a, b) == a % N = b % N

Ring == [buf : [0 .. ConsBufSize - 1 -> Slot], rpos : 0 .. ConsBufSize - 1,
         wpos : 0 .. ConsBufSize - 1]
BytesOf(ring) == Window(ring.buf, ConsBufSize, ring.rpos, T!Pending(ring))

LEMMA RingBasics ==
    ASSUME NEW ring \in Ring
    PROVE  /\ T!Pending(ring) \in 0 .. ConsBufSize - 1
           /\ SameSlot(ConsBufSize, ring.rpos + T!Pending(ring), ring.wpos)
           /\ T!Pending(ring) = 0 <=> ring.rpos = ring.wpos
           /\ IsWindow(BytesOf(ring), ConsBufSize, ring.buf, ring.rpos, T!Pending(ring))
  <1>1. PICK N \in Nat \ {0} : N = ConsBufSize
    BY WaitsAssumption
  <1>2. PICK r \in 0 .. N - 1, w \in 0 .. N - 1 : r = ring.rpos /\ w = ring.wpos
    BY <1>1 DEF Ring
  <1>3. PICK p \in 0 .. N - 1 : p = (w - r) % N
    <2>1. w - r \in Int
      OBVIOUS
    <2> QED BY <2>1, ModFacts
  <1>4. T!Pending(ring) = p
    BY <1>1, <1>2, <1>3 DEF T!Pending
  <1>5. (r + p) % N = w % N
    <2>1. w - r \in Int /\ r \in Int
      OBVIOUS
    <2>2. (((w - r) % N) + r) % N = ((w - r) + r) % N
      BY <2>1, ModAdds
    <2>3. (w - r) + r = w /\ p + r = r + p
      OBVIOUS
    <2> QED BY <1>3, <2>2, <2>3
  <1>6. p = 0 <=> r = w
    <2>1. 0 % N = 0
      <3>1. 0 \in Int /\ 0 \in 0 .. N - 1 /\ 0 = N * 0 + 0
        OBVIOUS
      <3> QED BY <3>1, ModIs
    <2>2. CASE r = w
      <3>1. w - r = 0
        BY <2>2
      <3> QED BY <1>3, <2>1, <2>2, <3>1
    <2>3. CASE r # w
      <3>1. PICK a \in Int : a = w - r
        OBVIOUS
      <3>2. -N < a - 0 /\ a - 0 < N /\ a # 0 /\ 0 \in Int
        BY <2>3, <3>1
      <3>3. a % N # 0 % N
        BY <3>2, ModInjective
      <3> QED BY <1>3, <2>1, <2>3, <3>1, <3>3
    <2> QED BY <2>2, <2>3
  <1>7. IsWindow(BytesOf(ring), ConsBufSize, ring.buf, ring.rpos, T!Pending(ring))
    <2>1. ring.buf \in [0 .. N - 1 -> Slot] /\ p \in Nat /\ r \in Nat
      BY <1>1 DEF Ring
    <2>2. IsWindow(Window(ring.buf, N, r, p), N, ring.buf, r, p)
      BY <2>1, WindowSlots
    <2> QED BY <1>1, <1>2, <1>4, <2>2 DEF BytesOf
  <1>8. SameSlot(ConsBufSize, ring.rpos + T!Pending(ring), ring.wpos)
    BY <1>1, <1>2, <1>4, <1>5 DEF SameSlot
  <1> QED BY <1>1, <1>2, <1>4, <1>6, <1>7, <1>8

\* cons_intr writes a byte behind the others; a ring that it fills is then empty.
LEMMA PutFacts ==
    ASSUME cons \in Ring, BytesOf(cons) \in Seq(Byte), NEW x \in Byte,
           NEW new, new = T!Put(cons, x)
    PROVE  /\ new \in Ring
           /\ T!Pending(cons) + 1 # ConsBufSize =>
                 BytesOf(new) = Append(BytesOf(cons), x)
           /\ T!Pending(cons) + 1 = ConsBufSize => BytesOf(new) = <<>>
  <1>1. PICK N \in Nat \ {0} : N = ConsBufSize
    BY WaitsAssumption
  <1>2. PICK b, r, w : b = cons.buf /\ r = cons.rpos /\ w = cons.wpos
    OBVIOUS
  <1>3. b \in [0 .. N - 1 -> Slot] /\ r \in 0 .. N - 1 /\ w \in 0 .. N - 1
    BY <1>1, <1>2 DEF Ring
  <1>4. PICK p \in 0 .. N - 1 : p = T!Pending(cons)
    BY <1>1, RingBasics
  <1>5. PICK u : u = BytesOf(cons)
    OBVIOUS
  <1>6. /\ u \in Seq(Byte) /\ Len(u) = p
        /\ \A i \in 1 .. p : u[i] = b[SlotOf(N, r, i)]
    BY <1>1, <1>2, <1>4, <1>5, RingBasics DEF IsWindow
  <1>7. w = (r + p) % N
    <2>1. (r + p) % N = w % N
      BY <1>1, <1>2, <1>4, RingBasics DEF SameSlot
    <2>2. 0 \in Int /\ w \in Int /\ w = N * 0 + w
      BY <1>3
    <2>3. w % N = w
      BY <1>3, <2>2, ModIs
    <2> QED BY <2>1, <2>3
  <1>8. PICK c, y : c = [b EXCEPT ![w] = x] /\ y = (w + 1) % N
    OBVIOUS
  <1>9. y \in 0 .. N - 1 /\ x \in Slot
    <2>1. w + 1 \in Int
      BY <1>3
    <2> QED BY <1>8, <2>1, ModFacts DEF Byte, Slot
  <1>10. new = [buf |-> c, rpos |-> r, wpos |-> y]
    <2>1. cons = [buf |-> b, rpos |-> r, wpos |-> w]
      BY <1>2 DEF Ring
    <2> QED BY <1>1, <1>2, <1>8, <2>1 DEF T!Put
  <1>11. /\ c \in [0 .. N - 1 -> Slot] /\ c[(r + p) % N] = x
         /\ \A i \in 1 .. p : c[SlotOf(N, r, i)] = b[SlotOf(N, r, i)]
    <2>1. r \in Nat /\ p \in 0 .. N /\ c = [b EXCEPT ![(r + p) % N] = x] /\ p < N
      BY <1>3, <1>7, <1>8
    <2>2. SlotWritten(c, N, b, r, p, x)
      BY <1>3, <1>9, <2>1, WindowWrite
    <2> QED BY <2>1, <2>2 DEF SlotWritten
  <1>12. new \in Ring /\ new.buf = c /\ new.rpos = r /\ new.wpos = y
    BY <1>1, <1>3, <1>9, <1>10, <1>11 DEF Ring
  <1>13. T!Pending(new) = IF p + 1 = N THEN 0 ELSE p + 1
    <2>1. PICK a \in Int, e \in Int : a = w - r /\ e = y - r
      BY <1>3, <1>9
    <2>2. p = a % N /\ T!Pending(new) = e % N
      BY <1>1, <1>2, <1>4, <1>12, <2>1 DEF T!Pending
    <2>3. PICK q \in Int : a = N * q + p
      <3>1. a \div N \in Int /\ a = N * (a \div N) + (a % N)
        BY ModFacts
      <3> QED BY <2>2, <3>1
    <2>4. PICK k \in Int : w + 1 = N * k + y
      <3>1. w + 1 \in Int
        BY <1>3
      <3>2. (w + 1) \div N \in Int /\ w + 1 = N * ((w + 1) \div N) + ((w + 1) % N)
        BY <3>1, ModFacts
      <3> QED BY <1>8, <3>2, Zenon
    <2>5. PICK z \in Int : z = q - k
      OBVIOUS
    <2>6. e = N * z + (p + 1)
      <3>1. PICK s \in Int, t \in Int : s = N * q /\ t = N * k
        OBVIOUS
      <3>2. N * z = s - t
        BY <2>5, <3>1
      <3>3. a = s + p /\ w + 1 = t + y
        BY <2>3, <2>4, <3>1
      <3> QED BY <1>3, <1>9, <2>1, <3>2, <3>3
    <2>7. CASE p + 1 = N
      <3>1. e = N * (z + 1) + 0 /\ z + 1 \in Int /\ 0 \in 0 .. N - 1
        BY <2>6, <2>7
      <3>2. e % N = 0
        BY <3>1, ModIs
      <3> QED BY <2>2, <2>7, <3>2
    <2>8. CASE p + 1 # N
      <3>1. p + 1 \in 0 .. N - 1
        BY <2>8
      <3>2. e % N = p + 1
        BY <2>6, <3>1, ModIs
      <3> QED BY <2>2, <2>8, <3>2
    <2> QED BY <2>7, <2>8
  <1>14. PICK v : v = BytesOf(new)
    OBVIOUS
  <1>15. PICK n \in Nat : n = IF p + 1 = N THEN 0 ELSE p + 1
    OBVIOUS
  <1>16. v \in Seq(Slot) /\ Len(v) = n /\ \A i \in 1 .. n : v[i] = c[SlotOf(N, r, i)]
    BY <1>1, <1>12, <1>13, <1>14, <1>15, RingBasics DEF IsWindow
  <1>17. CASE p + 1 = N
    <2>1. Len(v) = 0
      BY <1>15, <1>16, <1>17
    <2>2. v = <<>>
      BY <1>16, <2>1
    <2> QED BY <1>1, <1>4, <1>12, <1>14, <1>17, <2>2
  <1>18. CASE p + 1 # N
    <2>1. n = p + 1
      BY <1>15, <1>18
    <2>2. \A i \in 1 .. p : v[i] = u[i]
      <3> TAKE i \in 1 .. p
      <3>1. i \in 1 .. n
        BY <2>1
      <3> QED BY <1>6, <1>11, <1>16, <3>1
    <2>3. v[p + 1] = x
      <3>1. SlotOf(N, r, p + 1) = (r + p) % N
        <4>1. r + (p + 1) - 1 = r + p
          BY <1>3
        <4> QED BY <4>1 DEF SlotOf
      <3>2. p + 1 \in 1 .. n
        BY <2>1
      <3> QED BY <1>11, <1>16, <3>1, <3>2
    <2>4. PICK t : t = Append(u, x)
      OBVIOUS
    <2>5. /\ t \in Seq(Byte) /\ Len(t) = p + 1 /\ t[p + 1] = x
          /\ \A i \in 1 .. p : t[i] = u[i]
      BY <1>6, <2>4
    <2>6. t \in Seq(Slot)
      <3>1. \A i \in 1 .. p + 1 : t[i] \in Byte
        BY <2>5
      <3>2. \A k \in Byte : k \in Slot
        BY DEF Byte, Slot
      <3> QED BY <2>5, <3>1, <3>2
    <2>7. \A i \in 1 .. p + 1 : v[i] = t[i]
      <3> TAKE i \in 1 .. p + 1
      <3>1. CASE i = p + 1
        BY <2>3, <2>5, <3>1
      <3>2. CASE i # p + 1
        <4>1. i \in 1 .. p
          BY <3>2
        <4> QED BY <2>2, <2>5, <4>1
      <3> QED BY <3>1, <3>2
    <2>8. v = t
      BY <1>16, <2>1, <2>5, <2>6, <2>7, SameSeqs
    <2> QED BY <1>1, <1>4, <1>5, <1>12, <1>14, <1>18, <2>4, <2>8
  <1> QED BY <1>17, <1>18

\* cons_getc takes the first byte of the ring, if there is one.
LEMMA GetcFacts ==
    ASSUME NEW ring \in Ring, BytesOf(ring) \in Seq(Byte)
    PROVE  /\ T!GetcRing(ring) \in Ring
           /\ BytesOf(ring) = <<>> => /\ T!GetcByte(ring) = T!NoByte
                                      /\ T!GetcRing(ring) = ring
           /\ BytesOf(ring) # <<>> =>
                 /\ T!GetcByte(ring) = Head(BytesOf(ring))
                 /\ BytesOf(T!GetcRing(ring)) = Tail(BytesOf(ring))
  <1>1. PICK N \in Nat \ {0} : N = ConsBufSize
    BY WaitsAssumption
  <1>2. PICK b, r, w : b = ring.buf /\ r = ring.rpos /\ w = ring.wpos
    OBVIOUS
  <1>3. b \in [0 .. N - 1 -> Slot] /\ r \in 0 .. N - 1 /\ w \in 0 .. N - 1
    BY <1>1, <1>2 DEF Ring
  <1>4. PICK p \in 0 .. N - 1 : p = T!Pending(ring)
    BY <1>1, RingBasics
  <1>5. PICK u : u = BytesOf(ring)
    OBVIOUS
  <1>6. /\ u \in Seq(Byte) /\ Len(u) = p
        /\ \A i \in 1 .. p : u[i] = b[SlotOf(N, r, i)]
    BY <1>1, <1>2, <1>4, <1>5, RingBasics DEF IsWindow
  <1>7. p = 0 <=> r = w
    BY <1>2, <1>4, RingBasics
  <1>8. u = <<>> <=> p = 0
    BY <1>6
  <1>9. CASE r = w
    BY <1>2, <1>5, <1>7, <1>8, <1>9 DEF T!GetcRing, T!GetcByte
  <1>10. CASE r # w
    <2>1. PICK x \in 0 .. N - 1 : x = (r + 1) % N
      <3>1. r + 1 \in Int
        BY <1>3
      <3> QED BY <3>1, ModFacts
    <2>2. PICK new : new = T!GetcRing(ring)
      OBVIOUS
    <2>3. new = [buf |-> b, rpos |-> x, wpos |-> w]
      <3>1. ring = [buf |-> b, rpos |-> r, wpos |-> w]
        BY <1>2 DEF Ring
      <3> QED BY <1>1, <1>2, <1>10, <2>1, <2>2, <3>1 DEF T!GetcRing
    <2>4. new \in Ring /\ new.buf = b /\ new.rpos = x /\ new.wpos = w
      BY <1>1, <1>3, <2>3 DEF Ring
    <2>5. T!GetcByte(ring) = Head(u)
      <3>1. SlotOf(N, r, 1) = r
        <4>1. r \in Int /\ r + 1 - 1 = r /\ 0 \in Int /\ r = N * 0 + r
          BY <1>3
        <4>2. r % N = r
          BY <1>3, <4>1, ModIs
        <4> QED BY <4>1, <4>2 DEF SlotOf
      <3>2. T!GetcByte(ring) = b[r]
        BY <1>2, <1>10 DEF T!GetcByte
      <3>3. 1 \in 1 .. p /\ u # <<>>
        BY <1>7, <1>8, <1>10
      <3>4. Head(u) = u[1]
        BY <1>6, <3>3, HeadFacts
      <3> QED BY <1>6, <3>1, <3>2, <3>3, <3>4
    <2>6. T!Pending(new) = p - 1
      <3>1. PICK a \in Int, e \in Int : a = w - r /\ e = w - x
        BY <1>3
      <3>2. p = a % N /\ T!Pending(new) = e % N
        BY <1>1, <1>2, <1>4, <2>4, <3>1 DEF T!Pending
      <3>3. PICK q \in Int : a = N * q + p
        <4>1. a \div N \in Int /\ a = N * (a \div N) + (a % N)
          BY ModFacts
        <4> QED BY <3>2, <4>1
      <3>4. PICK k \in Int : r + 1 = N * k + x
        <4>1. r + 1 \in Int
          BY <1>3
        <4>2. (r + 1) \div N \in Int /\ r + 1 = N * ((r + 1) \div N) + ((r + 1) % N)
          BY <4>1, ModFacts
        <4> QED BY <2>1, <4>2, Zenon
      <3>5. e = N * (q + k) + (p - 1)
        <4>1. PICK y \in Int, z \in Int : y = N * q /\ z = N * k
          OBVIOUS
        <4>2. N * (q + k) = y + z
          BY <4>1
        <4>3. a = y + p /\ r + 1 = z + x
          BY <3>3, <3>4, <4>1
        <4> QED BY <1>3, <3>1, <4>2, <4>3
      <3>6. q + k \in Int /\ p - 1 \in 0 .. N - 1
        BY <1>7, <1>10
      <3> QED BY <3>2, <3>5, <3>6, ModIs
    <2>7. PICK v : v = BytesOf(new)
      OBVIOUS
    <2>8. /\ v \in Seq(Slot) /\ Len(v) = p - 1
          /\ \A i \in 1 .. p - 1 : v[i] = b[SlotOf(N, x, i)]
      BY <1>1, <2>4, <2>6, <2>7, RingBasics DEF IsWindow
    <2>9. ASSUME NEW i \in 1 .. p - 1 PROVE v[i] = u[i + 1]
      <3>1. SlotOf(N, x, i) = SlotOf(N, r, i + 1)
        <4>1. r + 1 \in Int /\ i - 1 \in Int
          BY <1>3
        <4>2. (((r + 1) % N) + (i - 1)) % N = ((r + 1) + (i - 1)) % N
          BY <4>1, ModAdds
        <4>3. (r + 1) + (i - 1) = r + (i + 1) - 1 /\ x + (i - 1) = x + i - 1
          BY <1>3
        <4> QED BY <2>1, <4>2, <4>3 DEF SlotOf
      <3>2. i + 1 \in 1 .. p
        OBVIOUS
      <3> QED BY <1>6, <2>8, <3>1, <3>2
    <2>10. v = Tail(u)
      <3>1. u # <<>>
        BY <1>7, <1>8, <1>10
      <3>2. PICK t : t = Tail(u)
        OBVIOUS
      <3>3. t \in Seq(Byte) /\ Len(t) = p - 1 /\ \A i \in 1 .. p - 1 : t[i] = u[i + 1]
        BY <1>6, <3>1, <3>2, HeadFacts
      <3>4. \A i \in 1 .. p - 1 : t[i] \in Slot
        <4>1. \A i \in 1 .. p - 1 : t[i] \in Byte
          BY <3>3
        <4>2. \A k \in Byte : k \in Slot
          BY DEF Byte, Slot
        <4> QED BY <4>1, <4>2
      <3>5. t \in Seq(Slot)
        BY <3>3, <3>4
      <3>6. v = t
        BY <2>8, <2>9, <3>3, <3>5, SameSeqs
      <3> QED BY <3>2, <3>6
    <2> QED BY <1>5, <1>7, <1>8, <1>10, <2>2, <2>4, <2>5, <2>7, <2>10
  <1> QED BY <1>9, <1>10

\* The ring loses all it holds.
LEMMA GoodLosesRing ==
    ASSUME NEW P, NEW I, NEW ov, NEW ow, Good(P, I, ov), ov \subseteq ow, ow # {},
           NEW O \in Seq(Byte), NEW U \in Seq(Byte), NEW X \in Seq(Byte),
           Parts(P, O, U, X), NEW R, Parts(R, O, U, <<>>)
    PROVE  Good(R, I, ow)
  <1>1. PICK o \in Nat, u \in Nat, d \in Nat : o = Len(O) /\ u = Len(U) /\ d = Len(X)
    OBVIOUS
  <1>2. /\ P \in Seq(Byte) /\ Len(P) = o + u + d
        /\ \A i \in 1 .. o : P[i] = O[i]
        /\ \A i \in 1 .. u : P[o + i] = U[i]
    BY <1>1 DEF Parts
  <1>3. /\ R \in Seq(Byte) /\ Len(R) = o + u
        /\ \A i \in 1 .. o : R[i] = O[i]
        /\ \A i \in 1 .. u : R[o + i] = U[i]
    BY <1>1 DEF Parts
  <1>4. ASSUME NEW i \in 1 .. o + u PROVE R[i] = P[i]
    <2>1. CASE i <= o
      BY <1>2, <1>3, <2>1
    <2>2. CASE i > o
      <3>1. PICK k \in 1 .. u : i = o + k
        <4>1. i - o \in 1 .. u /\ i = o + (i - o)
          BY <2>2
        <4> QED BY <4>1
      <3> QED BY <1>2, <1>3, <3>1
    <2> QED BY <2>1, <2>2
  <1>5. Len(R) <= Len(P)
    BY <1>2, <1>3
  <1> HIDE DEF Parts
  <1> QED BY <1>3, <1>4, <1>5, GoodPrefix

\* v is the buffer u after the byte b was written to it.
Takes(v, u, b, full) ==
    /\ v \in Seq(Byte)
    /\ ~ full => /\ Len(v) = Len(u) + 1 /\ v[Len(u) + 1] = b
                 /\ \A i \in 1 .. Len(u) : v[i] = u[i]
    /\ full => /\ Len(v) = Len(u) /\ Len(u) > 0 /\ v[1] = b
               /\ \A i \in 2 .. Len(u) : v[i] = u[i]

\* The ring passes its first byte on.
LEMMA GoodPasses ==
    ASSUME NEW P, NEW I, NEW ov, NEW ow, Good(P, I, ov), ov \subseteq ow,
           NEW O \in Seq(Byte), NEW U \in Seq(Byte), NEW C \in Seq(Byte), C # <<>>,
           Parts(P, O, U, C),
           NEW full \in BOOLEAN, full => "stdin" \in ow,
           NEW V, Takes(V, U, Head(C), full),
           NEW R, Parts(R, O, V, Tail(C))
    PROVE  Good(R, I, ow)
  <1>1. PICK o \in Nat, u \in Nat, n \in Nat \ {0} :
            o = Len(O) /\ u = Len(U) /\ n = Len(C)
    OBVIOUS
  <1>2. /\ P \in Seq(Byte) /\ Len(P) = o + u + n
        /\ \A i \in 1 .. o : P[i] = O[i]
        /\ \A i \in 1 .. u : P[o + i] = U[i]
        /\ \A i \in 1 .. n : P[o + u + i] = C[i]
    BY <1>1 DEF Parts
  <1>3. PICK c : c = Tail(C)
    OBVIOUS
  <1>4. Len(c) = n - 1 /\ Head(C) = C[1] /\ \A j \in 1 .. n - 1 : c[j] = C[j + 1]
    BY <1>1, <1>3, HeadFacts
  <1>5. Head(C) = P[o + u + 1]
    <2>1. 1 \in 1 .. n
      OBVIOUS
    <2> QED BY <1>2, <1>4, <2>1
  <1>6. \A j \in 1 .. n - 1 : c[j] = P[o + u + 1 + j]
    <2> TAKE j \in 1 .. n - 1
    <2>1. j + 1 \in 1 .. n /\ o + u + (j + 1) = o + u + 1 + j
      OBVIOUS
    <2> QED BY <1>2, <1>4, <2>1
  <1>7. PICK v \in Nat : v = Len(V)
    BY DEF Takes
  <1>8. /\ R \in Seq(Byte) /\ Len(R) = o + v + (n - 1)
        /\ \A i \in 1 .. o : R[i] = O[i]
        /\ \A i \in 1 .. v : R[o + i] = V[i]
        /\ \A i \in 1 .. n - 1 : R[o + v + i] = c[i]
    BY <1>1, <1>3, <1>4, <1>7 DEF Parts
  <1>9. CASE ~ full
    <2>1. v = u + 1 /\ V[u + 1] = Head(C) /\ \A i \in 1 .. u : V[i] = U[i]
      BY <1>1, <1>7, <1>9 DEF Takes
    <2>2. ASSUME NEW i \in 1 .. o + u + n PROVE R[i] = P[i]
      <3>1. CASE i <= o
        BY <1>2, <1>8, <3>1
      <3>2. CASE i > o /\ i <= o + u
        <4>1. PICK k \in 1 .. u : i = o + k
          <5>1. i - o \in 1 .. u /\ i = o + (i - o)
            BY <3>2
          <5> QED BY <5>1
        <4>2. k \in 1 .. v
          BY <2>1
        <4> QED BY <1>2, <1>8, <2>1, <4>1, <4>2
      <3>3. CASE i = o + u + 1
        <4>1. u + 1 \in 1 .. v /\ o + (u + 1) = i
          BY <2>1, <3>3
        <4>2. R[o + (u + 1)] = V[u + 1]
          BY <1>8, <4>1
        <4> QED BY <1>5, <2>1, <3>3, <4>1, <4>2
      <3>4. CASE i > o + u + 1
        <4>1. PICK k \in 1 .. n - 1 : i = o + v + k
          <5>1. i - (o + v) \in 1 .. n - 1 /\ i = o + v + (i - (o + v))
            BY <2>1, <3>4
          <5> QED BY <5>1
        <4>2. i = o + u + 1 + k
          BY <2>1, <4>1
        <4> QED BY <1>6, <1>8, <4>1, <4>2
      <3> QED BY <3>1, <3>2, <3>3, <3>4
    <2>3. Len(R) = o + u + n
      BY <1>8, <2>1
    <2>4. Len(R) = Len(P) /\ Len(R) <= Len(P) /\ \A i \in 1 .. Len(R) : R[i] = P[i]
      BY <1>2, <2>2, <2>3
    <2> HIDE DEF Parts
    <2> QED BY <1>8, <2>4, GoodPrefix
  <1>10. CASE full
    <2>1. v = u /\ u \in Nat \ {0} /\ V[1] = Head(C) /\ \A i \in 2 .. u : V[i] = U[i]
      BY <1>1, <1>7, <1>10 DEF Takes
    <2>2. ASSUME NEW i \in 1 .. o + u + n - 1
          PROVE  R[i] = IF i = o + 1 THEN P[o + u + 1]
                        ELSE IF i <= o + u THEN P[i] ELSE P[i + 1]
      <3>1. CASE i <= o
        <4>1. i \in 1 .. o /\ i # o + 1 /\ i <= o + u
          BY <3>1
        <4>2. R[i] = O[i] /\ P[i] = O[i]
          BY <1>2, <1>8, <4>1
        <4> QED BY <4>1, <4>2
      <3>2. CASE i = o + 1
        <4>1. 1 \in 1 .. v
          BY <2>1
        <4>2. R[o + 1] = V[1]
          BY <1>8, <4>1
        <4> QED BY <1>5, <2>1, <3>2, <4>2
      <3>3. CASE i > o + 1 /\ i <= o + u
        <4>1. PICK k \in 2 .. u : i = o + k
          <5>1. i - o \in 2 .. u /\ i = o + (i - o)
            BY <3>3
          <5> QED BY <5>1
        <4>2. k \in 1 .. v /\ k \in 1 .. u /\ i # o + 1
          BY <2>1, <3>3
        <4> QED BY <1>2, <1>8, <2>1, <3>3, <4>1, <4>2
      <3>4. CASE i > o + u
        <4>1. PICK k \in 1 .. n - 1 : i = o + v + k
          <5>1. i - (o + v) \in 1 .. n - 1 /\ i = o + v + (i - (o + v))
            BY <2>1, <3>4
          <5> QED BY <5>1
        <4>2. i + 1 = o + u + 1 + k /\ ~(i <= o + u) /\ i # o + 1
          BY <2>1, <4>1
        <4> QED BY <1>6, <1>8, <4>1, <4>2
      <3> QED BY <3>1, <3>2, <3>3, <3>4
    <2>3. /\ Len(R) + 1 = Len(P) /\ o + u <= Len(R)
          /\ \A i \in 1 .. Len(R) : R[i] = IF i = o + 1 THEN P[o + u + 1]
                        ELSE IF i <= o + u THEN P[i] ELSE P[i + 1]
      <3>1. Len(R) = o + u + n - 1
        BY <1>8, <2>1
      <3>2. Len(R) + 1 = Len(P) /\ o + u <= Len(R)
        BY <1>2, <3>1
      <3> QED BY <2>2, <3>1, <3>2
    <2>4. R \in Seq(Byte) /\ u \in Nat \ {0} /\ "stdin" \in ow
      BY <1>8, <1>10, <2>1
    <2> HIDE DEF Parts
    <2> QED BY <2>3, <2>4, GoodOverwrites
  <1> QED BY <1>9, <1>10

-----------------------------------------------------------------------------
(* The invariant of the bytes                                              *)

RingsOK ==
    /\ p_wpos - p_rpos <= StdinBufSize
    /\ stdin_buffer \in [0 .. StdinBufSize - 1 -> Slot]
    /\ cons \in Ring
    /\ output \in Seq(Byte) /\ T!Unread \in Seq(Byte) /\ T!RingBytes \in Seq(Byte)

\* The bytes of the FIFO came after the ones the handler read.
LineOK ==
    /\ fifo \in Seq(AnyByte) /\ input \in Seq(AnyByte) /\ taken \in Seq(AnyByte)
    /\ \A i, j \in 1 .. Len(fifo) : i < j => fifo[i].at < fifo[j].at
    /\ \A j \in 1 .. Len(fifo) : fifo[j].at <= Len(input)
    /\ \A i \in 1 .. Len(T!Fetched(taken)) :
          /\ T!Fetched(taken)[i].at <= Len(input)
          /\ \A j \in 1 .. Len(fifo) : T!Fetched(taken)[i].at < fifo[j].at

\* The FIFO holds the last bytes of the line, and of the bytes before them two
\* in a row are never missed.
FifoIsEnd ==
    /\ Len(fifo) <= Len(input)
    /\ \A j \in 1 .. Len(fifo) : fifo[j] = input[Len(input) - Len(fifo) + j]
    /\ \A i \in 1 .. Len(input) - Len(fifo) :
          \/ input[i] \in Range(taken)
          \/ i > 1 /\ input[i - 1] \in Range(taken)

LineInv == LineOK /\ ("fifo" \notin overrun => FifoIsEnd)

\* The buffers of the kernel that overran.
Lost == overrun \ {"fifo"}

BytesInv ==
    ReadersInv /\ RingsOK /\ LineInv /\ Good(T!Pipeline, T!Fetched(taken), Lost)

LEMMA UnreadIs ==
    ASSUME ReadersOK, stdin_buffer \in [0 .. StdinBufSize - 1 -> Slot]
    PROVE  /\ T!Unread = Window(stdin_buffer, StdinBufSize, p_rpos, p_wpos - p_rpos)
           /\ IsWindow(T!Unread, StdinBufSize, stdin_buffer, p_rpos, p_wpos - p_rpos)
  <1>1. T!Unread = Window(stdin_buffer, StdinBufSize, p_rpos, p_wpos - p_rpos)
    BY DEF T!Unread, Window, SlotOf
  <1>2. p_wpos - p_rpos \in Nat /\ p_rpos \in Nat
    BY DEF ReadersOK
  <1>3. IsWindow(Window(stdin_buffer, StdinBufSize, p_rpos, p_wpos - p_rpos),
                 StdinBufSize, stdin_buffer, p_rpos, p_wpos - p_rpos)
    BY <1>2, WaitsAssumption, WindowSlots
  <1> QED BY <1>1, <1>3

\* dev_stdin_write of a byte.
LEMMA StdinTakes ==
    ASSUME ReadersOK, RingsOK, NEW b \in Byte, p_rpos' = p_rpos,
           stdin_buffer' = [stdin_buffer EXCEPT ![p_wpos % StdinBufSize] = b],
           p_wpos' = IF T!StdinFull THEN p_wpos ELSE p_wpos + 1
    PROVE  /\ stdin_buffer' \in [0 .. StdinBufSize - 1 -> Slot]
           /\ p_wpos' \in Nat /\ p_rpos' <= p_wpos' /\ p_wpos' - p_rpos' <= StdinBufSize
           /\ Takes(T!Unread', T!Unread, b, T!StdinFull)
  <1>1. PICK M \in Nat \ {0} : M = StdinBufSize
    BY WaitsAssumption
  <1>2. PICK r \in Nat : r = p_rpos
    BY DEF ReadersOK
  <1>3. PICK n \in 0 .. M : p_wpos = r + n
    <2>1. p_wpos \in Nat /\ p_rpos <= p_wpos /\ p_wpos - p_rpos <= StdinBufSize
      BY DEF ReadersOK, RingsOK
    <2>2. p_wpos - r \in 0 .. M /\ p_wpos = r + (p_wpos - r)
      BY <1>1, <1>2, <2>1
    <2> QED BY <2>2
  <1>4. T!StdinFull <=> n = M
    BY <1>1, <1>2, <1>3 DEF T!StdinFull
  <1>5. PICK a, e : a = stdin_buffer /\ e = [a EXCEPT ![(r + n) % M] = b] /\ e = stdin_buffer'
    BY <1>1, <1>3
  <1>6. a \in [0 .. M - 1 -> Slot] /\ b \in Slot
    BY <1>1, <1>5 DEF RingsOK, Byte, Slot
  <1>7. /\ e \in [0 .. M - 1 -> Slot] /\ e[(r + n) % M] = b
        /\ \A i \in 1 .. n : (i > 1 \/ n < M) => e[SlotOf(M, r, i)] = a[SlotOf(M, r, i)]
        /\ n = M => SlotOf(M, r, 1) = (r + n) % M
    <2>1. SlotWritten(e, M, a, r, n, b)
      BY <1>5, <1>6, WindowWrite
    <2> QED BY <2>1 DEF SlotWritten
  <1>8. PICK u : u = T!Unread
    OBVIOUS
  <1>9. u \in Seq(Byte) /\ Len(u) = n /\ \A i \in 1 .. n : u[i] = a[SlotOf(M, r, i)]
    <2>1. p_wpos - p_rpos = n
      BY <1>2, <1>3
    <2>2. IsWindow(u, M, a, r, n)
      BY <1>1, <1>2, <1>5, <1>8, <2>1, UnreadIs DEF RingsOK
    <2> QED BY <1>8, <2>2 DEF IsWindow, RingsOK
  <1>10. PICK k \in Nat : k = IF n = M THEN n ELSE n + 1
    OBVIOUS
  <1>11. p_wpos' = r + k /\ p_rpos' = r
    BY <1>2, <1>3, <1>4, <1>10
  <1>12. PICK v : v = T!Unread'
    OBVIOUS
  <1>13. v = Window(e, M, r, k)
    <2>1. v = [i \in 1 .. p_wpos' - p_rpos' |-> stdin_buffer'[(p_rpos' + i - 1) % StdinBufSize]]
      BY <1>12 DEF T!Unread
    <2>2. p_wpos' - p_rpos' = k
      BY <1>11
    <2> QED BY <1>1, <1>5, <1>11, <2>1, <2>2 DEF Window, SlotOf
  <1>14. v \in Seq(Slot) /\ Len(v) = k /\ \A i \in 1 .. k : v[i] = e[SlotOf(M, r, i)]
    <2>1. IsWindow(v, M, e, r, k)
      BY <1>7, <1>13, WindowSlots
    <2> QED BY <2>1 DEF IsWindow
  <1>15. SlotOf(M, r, n + 1) = (r + n) % M
    <2>1. r + (n + 1) - 1 = r + n
      OBVIOUS
    <2> QED BY <2>1 DEF SlotOf
  <1>16. CASE n = M
    <2>1. k = n /\ n > 0
      BY <1>10, <1>16
    <2>2. v[1] = b
      BY <1>7, <1>14, <1>16, <2>1
    <2>3. \A i \in 2 .. n : v[i] = u[i]
      <3> TAKE i \in 2 .. n
      <3>1. i \in 1 .. n /\ i \in 1 .. k /\ i > 1
        BY <2>1
      <3> QED BY <1>7, <1>9, <1>14, <3>1
    <2>4. v \in Seq(Byte)
      <3>1. \A i \in 1 .. n : v[i] \in Byte
        <4> TAKE i \in 1 .. n
        <4>1. CASE i = 1
          BY <2>2, <4>1
        <4>2. CASE i # 1
          <5>1. i \in 2 .. n /\ u[i] \in Byte
            BY <1>9, <4>2
          <5> QED BY <2>3, <5>1
        <4> QED BY <4>1, <4>2
      <3> QED BY <1>14, <2>1, <3>1
    <2>5. Takes(v, u, b, T!StdinFull)
      BY <1>4, <1>9, <1>14, <1>16, <2>1, <2>2, <2>3, <2>4 DEF Takes
    <2> QED BY <1>1, <1>2, <1>3, <1>5, <1>7, <1>8, <1>11, <1>12, <2>1, <2>5
  <1>17. CASE n # M
    <2>1. k = n + 1 /\ n < M
      BY <1>10, <1>17
    <2>2. v[n + 1] = b
      <3>1. n + 1 \in 1 .. k
        BY <2>1
      <3> QED BY <1>7, <1>14, <1>15, <3>1
    <2>3. \A i \in 1 .. n : v[i] = u[i]
      <3> TAKE i \in 1 .. n
      <3>1. i \in 1 .. k
        BY <2>1
      <3> QED BY <1>7, <1>9, <1>14, <2>1, <3>1
    <2>4. v \in Seq(Byte)
      <3>1. \A i \in 1 .. n + 1 : v[i] \in Byte
        <4> TAKE i \in 1 .. n + 1
        <4>1. CASE i = n + 1
          BY <2>2, <4>1
        <4>2. CASE i # n + 1
          <5>1. i \in 1 .. n /\ u[i] \in Byte
            BY <1>9, <4>2
          <5> QED BY <2>3, <5>1
        <4> QED BY <4>1, <4>2
      <3> QED BY <1>14, <2>1, <3>1
    <2>5. Takes(v, u, b, T!StdinFull)
      BY <1>4, <1>9, <1>14, <1>17, <2>1, <2>2, <2>3, <2>4 DEF Takes
    <2>6. p_wpos' \in Nat /\ p_rpos' <= p_wpos' /\ p_wpos' - p_rpos' <= M
      BY <1>11, <2>1
    <2> QED BY <1>1, <1>5, <1>7, <1>8, <1>12, <2>5, <2>6
  <1> QED BY <1>16, <1>17

LEMMA PipelineIs ==
    ASSUME RingsOK
    PROVE  Parts(T!Pipeline, output, T!Unread, T!RingBytes)
  <1>1. PICK o, u, b : o = output /\ u = T!Unread /\ b = T!RingBytes
    OBVIOUS
  <1>2. o \in Seq(Byte) /\ u \in Seq(Byte) /\ b \in Seq(Byte)
    BY <1>1 DEF RingsOK
  <1>3. T!Pipeline = (o \o u) \o b
    BY <1>1, Zenon DEF T!Pipeline
  <1> QED BY <1>1, <1>2, <1>3, PartsAre

LEMMA ConcatAppend ==
    ASSUME NEW S, NEW s \in Seq(S), NEW r \in Seq(S), NEW e \in S
    PROVE  s \o Append(r, e) = Append(s \o r, e)
  <1>1. PICK a : a = <<e>>
    OBVIOUS
  <1>2. a \in Seq(S)
    BY <1>1
  <1>3. \A q \in Seq(S) : Append(q, e) = q \o a
    BY <1>1
  <1>4. s \o r \in Seq(S)
    OBVIOUS
  <1>5. (s \o r) \o a = s \o (r \o a)
    BY <1>2, ConcatAssoc
  <1>6. Append(r, e) = r \o a
    BY <1>3
  <1>7. Append(s \o r, e) = (s \o r) \o a
    BY <1>3, <1>4
  <1> QED BY <1>5, <1>6, <1>7

\* A byte arrives: nothing changes on the way of the bytes that were fetched.
LEMMA ReceiveStep ==
    ASSUME BytesInv, T!Receive, ReadersInv'
    PROVE  BytesInv'
  <1> USE DEF BytesInv
  <1>1. PICK c \in Bytes :
           LET byte == [at |-> Len(input) + 1, c |-> c] IN
           /\ input' = Append(input, byte)
           /\ \/ fifo' = Append(fifo, byte) /\ overrun' = overrun
              \/ overrun' = overrun \cup {"fifo"} /\ fifo' = fifo
    BY DEF T!Receive
  <1>2. UNCHANGED <<cons, stdin_buffer, p_rpos, p_wpos, output, taken>>
    BY DEF T!Receive
  <1>3. PICK b : b = [at |-> Len(input) + 1, c |-> c]
    OBVIOUS
  <1>4. PICK n \in Nat, m \in Nat : n = Len(input) /\ m = Len(fifo)
    BY DEF LineInv, LineOK
  <1>5. b \in AnyByte /\ b.at = n + 1
    BY <1>3, <1>4, WaitsAssumption DEF AnyByte
  <1>6. T!Unread' = T!Unread /\ T!RingBytes' = T!RingBytes
    BY <1>2 DEF T!Unread, T!RingBytes, T!Pending
  <1>7. T!Pipeline' = T!Pipeline
    BY <1>2, <1>6, Zenon DEF T!Pipeline
  <1>8. RingsOK'
    BY <1>2, <1>6 DEF RingsOK
  <1>9. Lost' = Lost
    BY <1>1 DEF Lost
  <1>10. Good(T!Pipeline', T!Fetched(taken'), Lost')
    BY <1>2, <1>7, <1>9
  <1>11. PICK J, G : J = Append(input, b) /\ G = Append(fifo, b)
    OBVIOUS
  <1>12. input \in Seq(AnyByte) /\ fifo \in Seq(AnyByte)
    BY DEF LineInv, LineOK
  <1>13. /\ J \in Seq(AnyByte) /\ Len(J) = n + 1 /\ J[n + 1] = b
         /\ \A i \in 1 .. n : J[i] = input[i]
    BY <1>4, <1>5, <1>11, <1>12
  <1>14. /\ G \in Seq(AnyByte) /\ Len(G) = m + 1 /\ G[m + 1] = b
         /\ \A j \in 1 .. m : G[j] = fifo[j]
    BY <1>4, <1>5, <1>11, <1>12
  <1>15. PICK F \in Seq(Byte), k \in Nat : F = T!Fetched(taken) /\ k = Len(F)
    <2>1. PICK F : F = T!Fetched(taken)
      OBVIOUS
    <2>2. F \in Seq(Byte)
      BY <2>1, FetchedFacts DEF LineInv, LineOK
    <2> QED BY <2>1, <2>2
  <1>16. /\ taken \in Seq(AnyByte)
         /\ \A i, j \in 1 .. m : i < j => fifo[i].at < fifo[j].at
         /\ \A j \in 1 .. m : fifo[j].at <= n /\ fifo[j].at \in Nat
         /\ \A i \in 1 .. k : F[i].at <= n /\ F[i].at \in Nat
         /\ \A i \in 1 .. k, j \in 1 .. m : F[i].at < fifo[j].at
    <2>1. \A j \in 1 .. m : fifo[j].at \in Nat
      <3>1. \A j \in 1 .. m : fifo[j] \in AnyByte
        BY <1>4, <1>12
      <3> QED BY <3>1 DEF AnyByte
    <2>2. \A i \in 1 .. k : F[i].at \in Nat
      <3>1. \A i \in 1 .. k : F[i] \in Byte
        BY <1>15
      <3> QED BY <3>1 DEF Byte
    <2> QED BY <1>4, <1>15, <2>1, <2>2 DEF LineInv, LineOK
  <1>17. CASE fifo' = fifo /\ overrun' = overrun \cup {"fifo"}
    <2>1. \A j \in 1 .. m : fifo[j].at <= n + 1
      BY <1>16
    <2>2. \A i \in 1 .. k : F[i].at <= n + 1
      BY <1>16
    <2>3. input' = J /\ Len(input') = n + 1
      BY <1>1, <1>3, <1>11, <1>13
    <2>4. LineOK'
      BY <1>2, <1>4, <1>12, <1>13, <1>15, <1>16, <1>17, <2>1, <2>2, <2>3 DEF LineOK
    <2> QED BY <1>8, <1>10, <1>17, <2>4 DEF LineInv
  <1>18. CASE fifo' = G /\ overrun' = overrun
    <2>1. \A j \in 1 .. m + 1 : G[j].at <= n + 1
      <3> TAKE j \in 1 .. m + 1
      <3>1. CASE j = m + 1
        BY <1>5, <1>14, <3>1
      <3>2. CASE j # m + 1
        <4>1. j \in 1 .. m
          BY <3>2
        <4> QED BY <1>14, <1>16, <4>1
      <3> QED BY <3>1, <3>2
    <2>2. \A i \in 1 .. k : F[i].at <= n + 1
      BY <1>16
    <2>3. ASSUME NEW i \in 1 .. m + 1, NEW j \in 1 .. m + 1, i < j
          PROVE  G[i].at < G[j].at
      <3>1. i \in 1 .. m
        BY <2>3
      <3>2. CASE j = m + 1
        BY <1>5, <1>14, <1>16, <3>1, <3>2
      <3>3. CASE j # m + 1
        <4>1. j \in 1 .. m
          BY <3>3
        <4> QED BY <1>14, <1>16, <2>3, <3>1, <4>1
      <3> QED BY <3>2, <3>3
    <2>4. ASSUME NEW i \in 1 .. k, NEW j \in 1 .. m + 1
          PROVE  F[i].at < G[j].at
      <3>1. CASE j = m + 1
        BY <1>5, <1>14, <1>16, <3>1
      <3>2. CASE j # m + 1
        <4>1. j \in 1 .. m
          BY <3>2
        <4> QED BY <1>14, <1>16, <4>1
      <3> QED BY <3>1, <3>2
    <2>5. input' = J /\ Len(input') = n + 1 /\ fifo' = G /\ Len(fifo') = m + 1
      BY <1>1, <1>3, <1>11, <1>13, <1>14, <1>18
    <2>6. LineOK'
      BY <1>2, <1>13, <1>14, <1>15, <1>16, <2>1, <2>2, <2>3, <2>4, <2>5 DEF LineOK
    <2>7. ASSUME FifoIsEnd PROVE FifoIsEnd'
      <3>1. /\ m <= n
            /\ \A j \in 1 .. m : fifo[j] = input[n - m + j]
            /\ \A i \in 1 .. n - m : \/ input[i] \in Range(taken)
                                     \/ i > 1 /\ input[i - 1] \in Range(taken)
        BY <1>4, <2>7 DEF FifoIsEnd
      <3>2. (n + 1) - (m + 1) = n - m
        BY <3>1
      <3>3. \A j \in 1 .. m + 1 : G[j] = J[n - m + j]
        <4> TAKE j \in 1 .. m + 1
        <4>1. CASE j = m + 1
          BY <1>13, <1>14, <4>1
        <4>2. CASE j # m + 1
          <5>1. j \in 1 .. m /\ n - m + j \in 1 .. n
            BY <3>1, <4>2
          <5> QED BY <1>13, <1>14, <3>1, <5>1
        <4> QED BY <4>1, <4>2
      <3>4. ASSUME NEW i \in 1 .. n - m
            PROVE  J[i] \in Range(taken) \/ (i > 1 /\ J[i - 1] \in Range(taken))
        <4>1. i \in 1 .. n /\ (i > 1 => i - 1 \in 1 .. n)
          OBVIOUS
        <4> QED BY <1>13, <3>1, <4>1
      <3>5. taken' = taken /\ m + 1 <= n + 1
        BY <1>2, <3>1
      <3> QED BY <2>5, <3>2, <3>3, <3>4, <3>5 DEF FifoIsEnd
    <2> QED BY <1>8, <1>10, <1>18, <2>6, <2>7 DEF LineInv
  <1> QED BY <1>1, <1>3, <1>11, <1>17, <1>18

\* A read of the data register takes one byte, or two when two are waiting.
LEMMA AfterReadFacts ==
    ASSUME NEW f \in Seq(AnyByte), f # <<>>
    PROVE  /\ T!AfterRead(f) \in Seq(AnyByte)
           /\ Len(T!AfterRead(f)) = IF Len(f) = 1 THEN 0 ELSE Len(f) - 2
           /\ \A j \in 1 .. Len(T!AfterRead(f)) : T!AfterRead(f)[j] = f[j + 2]
  <1>1. PICK m \in Nat \ {0} : m = Len(f)
    OBVIOUS
  <1>2. PICK g : g = T!AfterRead(f) /\ g = SubSeq(f, 3, m)
    BY <1>1 DEF T!AfterRead
  <1>3. CASE m = 1
    <2>1. g = <<>>
      BY <1>2, <1>3
    <2> QED BY <1>1, <1>2, <1>3, <2>1
  <1>4. CASE m # 1
    <2>1. 2 \in 0 .. Len(f) /\ 2 + 1 = 3
      BY <1>1, <1>4
    <2>2. /\ SubSeq(f, 2 + 1, Len(f)) \in Seq(AnyByte)
          /\ Len(SubSeq(f, 2 + 1, Len(f))) = Len(f) - 2
          /\ \A i \in 1 .. Len(f) - 2 : SubSeq(f, 2 + 1, Len(f))[i] = f[2 + i]
      BY <2>1, SplitFacts
    <2>3. g \in Seq(AnyByte) /\ Len(g) = m - 2 /\ \A i \in 1 .. m - 2 : g[i] = f[2 + i]
      BY <1>1, <1>2, <2>1, <2>2
    <2>4. \A i \in 1 .. m - 2 : g[i] = f[i + 2]
      <3> TAKE i \in 1 .. m - 2
      <3>1. 2 + i = i + 2
        OBVIOUS
      <3> QED BY <2>3, <3>1
    <2> QED BY <1>1, <1>2, <1>4, <2>3, <2>4
  <1> QED BY <1>3, <1>4

\* What the read leaves in the FIFO is the end of the line, and the byte that it
\* lost is the one behind the byte that it got.
LEMMA FetchKeepsLine ==
    ASSUME LineInv, T!Fetch
    PROVE  LineInv' /\ \A i \in 1 .. Len(T!Fetched(taken)) :
                          T!Fetched(taken)[i].at < Head(fifo).at
  <1>1. /\ fifo # <<>> /\ fifo' = T!AfterRead(fifo) /\ taken' = Append(taken, Head(fifo))
        /\ input' = input
        /\ overrun' = overrun \/ overrun' = overrun \cup {"cons"}
    BY DEF T!Fetch
  <1>2. fifo \in Seq(AnyByte) /\ taken \in Seq(AnyByte) /\ input \in Seq(AnyByte)
    BY DEF LineInv, LineOK
  <1>3. PICK n \in Nat, m \in Nat \ {0} : n = Len(input) /\ m = Len(fifo)
    BY <1>1, <1>2
  <1>4. PICK h \in AnyByte : h = Head(fifo) /\ h = fifo[1]
    BY <1>1, <1>2, HeadFacts
  <1>5. PICK g \in Seq(AnyByte), k \in Nat :
            /\ g = T!AfterRead(fifo) /\ k = Len(g)
            /\ k = IF m = 1 THEN 0 ELSE m - 2
            /\ \A j \in 1 .. k : g[j] = fifo[j + 2]
    <2>1. PICK g : g = T!AfterRead(fifo)
      OBVIOUS
    <2>2. /\ g \in Seq(AnyByte) /\ Len(g) = IF m = 1 THEN 0 ELSE m - 2
          /\ \A j \in 1 .. Len(g) : g[j] = fifo[j + 2]
      BY <1>1, <1>2, <1>3, <2>1, AfterReadFacts
    <2>3. Len(g) \in Nat
      BY <2>2
    <2> QED BY <2>1, <2>2, <2>3, Zenon
  <1>6. PICK t : t = Append(taken, h)
    OBVIOUS
  <1>7. t \in Seq(AnyByte) /\ Range(t) = Range(taken) \cup {h}
    BY <1>2, <1>6, AppendFacts
  <1>8. fifo' = g /\ taken' = t
    BY <1>1, <1>4, <1>5, <1>6
  <1>9. PICK F \in Seq(Byte), l \in Nat : F = T!Fetched(taken) /\ l = Len(F)
    <2>1. PICK F : F = T!Fetched(taken)
      OBVIOUS
    <2>2. F \in Seq(Byte)
      BY <1>2, <2>1, FetchedFacts
    <2> QED BY <2>1, <2>2
  <1>10. PICK x : x = T!Backspaced(h)
    OBVIOUS
  <1>11. x.at = h.at /\ (x.c # 0 => x \in Byte) /\ (h.c # 0 => x.c # 0)
    <2>1. x.at = h.at /\ (x.c # 0 => x \in Byte)
      BY <1>10, BackspacedFacts
    <2>2. h.c # 0 => x.c # 0
      BY <1>10 DEF T!Backspaced, AnyByte
    <2> QED BY <2>1, <2>2
  <1>12. PICK E : E = T!Fetched(t) /\ E = IF h.c = 0 THEN F ELSE Append(F, x)
    BY <1>2, <1>6, <1>9, <1>10, FetchedFacts
  <1>13. /\ \A i, j \in 1 .. m : i < j => fifo[i].at < fifo[j].at
         /\ \A j \in 1 .. m : fifo[j].at <= n
         /\ \A i \in 1 .. l : F[i].at <= n
         /\ \A i \in 1 .. l, j \in 1 .. m : F[i].at < fifo[j].at
    BY <1>3, <1>9 DEF LineInv, LineOK
  <1>14. \A i \in 1 .. l : F[i].at < h.at
    <2>1. 1 \in 1 .. m
      OBVIOUS
    <2> QED BY <1>4, <1>13, <2>1
  <1>15. \A j \in 1 .. k : j + 2 \in 1 .. m /\ 1 < j + 2
    BY <1>5
  <1>16. \A i \in 1 .. Len(E) : E[i] = x \/ \E e \in 1 .. l : E[i] = F[e]
    <2>1. CASE h.c = 0
      BY <1>9, <1>12, <2>1
    <2>2. CASE h.c # 0
      <3>1. Len(E) = l + 1 /\ E[l + 1] = x /\ \A i \in 1 .. l : E[i] = F[i]
        BY <1>9, <1>11, <1>12, <2>2
      <3>2. \A i \in 1 .. l + 1 : i = l + 1 \/ i \in 1 .. l
        OBVIOUS
      <3> QED BY <3>1, <3>2
    <2> QED BY <2>1, <2>2
  <1>17. \A i \in 1 .. Len(E) : E[i].at <= n /\ \A j \in 1 .. k : E[i].at < g[j].at
    <2> TAKE i \in 1 .. Len(E)
    <2>1. 1 \in 1 .. m
      OBVIOUS
    <2>2. CASE E[i] = x
      <3>1. \A j \in 1 .. k : h.at < g[j].at
        BY <1>4, <1>5, <1>13, <1>15, <2>1
      <3> QED BY <1>4, <1>11, <1>13, <2>1, <2>2, <3>1
    <2>3. CASE \E e \in 1 .. l : E[i] = F[e]
      BY <1>5, <1>13, <1>15, <2>3
    <2> QED BY <1>16, <2>2, <2>3
  <1>18. LineOK'
    <2>1. ASSUME NEW i \in 1 .. k, NEW j \in 1 .. k, i < j PROVE g[i].at < g[j].at
      <3>1. i + 2 < j + 2
        BY <2>1
      <3> QED BY <1>5, <1>13, <1>15, <3>1
    <2>2. \A j \in 1 .. k : g[j].at <= n
      BY <1>5, <1>13, <1>15
    <2>3. input' = input /\ Len(input') = n /\ Len(fifo') = k /\ T!Fetched(taken') = E
      BY <1>1, <1>3, <1>5, <1>8, <1>12
    <2> QED BY <1>2, <1>5, <1>7, <1>8, <1>17, <2>1, <2>2, <2>3 DEF LineOK
  <1>19. ASSUME FifoIsEnd PROVE FifoIsEnd'
    <2>1. /\ m <= n
          /\ \A j \in 1 .. m : fifo[j] = input[n - m + j]
          /\ \A i \in 1 .. n - m : \/ input[i] \in Range(taken)
                                   \/ i > 1 /\ input[i - 1] \in Range(taken)
      BY <1>3, <1>19 DEF FifoIsEnd
    <2>2. \A j \in 1 .. k : g[j] = input[n - k + j]
      <3> TAKE j \in 1 .. k
      <3>1. n - m + (j + 2) = n - k + j
        BY <1>5
      <3>2. fifo[j + 2] = input[n - m + (j + 2)]
        BY <1>15, <2>1
      <3> QED BY <1>5, <3>1, <3>2
    <2>3. h = input[n - m + 1]
      <3>1. 1 \in 1 .. m
        OBVIOUS
      <3> QED BY <1>4, <2>1, <3>1
    <2>4. ASSUME NEW i \in 1 .. n - k
          PROVE  input[i] \in Range(t) \/ (i > 1 /\ input[i - 1] \in Range(t))
      <3>1. CASE i <= n - m
        <4>1. i \in 1 .. n - m
          BY <3>1
        <4> QED BY <1>7, <2>1, <4>1
      <3>2. CASE i = n - m + 1
        BY <1>7, <2>3, <3>2
      <3>3. CASE i > n - m + 1
        <4>1. i - 1 = n - m + 1 /\ i > 1
          BY <1>5, <2>1, <3>3
        <4> QED BY <1>7, <2>3, <4>1
      <3> QED BY <3>1, <3>2, <3>3
    <2>5. k <= n
      BY <1>5, <2>1
    <2>6. input' = input /\ Len(input') = n /\ Len(fifo') = k
      BY <1>1, <1>3, <1>5, <1>8
    <2> QED BY <1>8, <2>2, <2>4, <2>5, <2>6 DEF FifoIsEnd
  <1>20. LineInv'
    <2>1. "fifo" \notin overrun' => "fifo" \notin overrun
      BY <1>1
    <2> QED BY <1>18, <1>19, <2>1 DEF LineInv
  <1> QED BY <1>4, <1>9, <1>14, <1>20

\* A turn of cons_intr: the byte goes to the end of the ring, or the ring is
\* full and loses all it holds.
LEMMA FetchStep ==
    ASSUME BytesInv, T!Fetch, ReadersInv'
    PROVE  BytesInv'
  <1> USE DEF BytesInv
  <1>1. PICK h : h = Head(fifo)
    OBVIOUS
  <1>2. PICK x : x = T!Backspaced(h)
    OBVIOUS
  <1>3. /\ UNCHANGED <<stdin_buffer, p_rpos, p_wpos, output>>
        /\ taken' = Append(taken, h)
        /\ \/ /\ x.c # 0 /\ cons' = T!Put(cons, x)
              /\ overrun' = IF T!Pending(cons) + 1 = ConsBufSize
                            THEN overrun \cup {"cons"} ELSE overrun
           \/ x.c = 0 /\ UNCHANGED <<cons, overrun>>
    BY <1>1, <1>2 DEF T!Fetch
  <1>4. h \in AnyByte /\ taken \in Seq(AnyByte)
    <2>1. fifo # <<>> /\ fifo \in Seq(AnyByte) /\ taken \in Seq(AnyByte)
      BY DEF T!Fetch, LineInv, LineOK
    <2> QED BY <1>1, <2>1, HeadFacts
  <1>5. x.at = h.at /\ (x.c # 0 => x \in Byte) /\ (x.c = 0 <=> h.c = 0)
    <2>1. x.at = h.at /\ (x.c # 0 => x \in Byte)
      BY <1>2, <1>4, BackspacedFacts
    <2>2. x.c = 0 <=> h.c = 0
      BY <1>2, <1>4 DEF T!Backspaced, AnyByte
    <2> QED BY <2>1, <2>2
  <1>6. PICK I : I = T!Fetched(taken)
    OBVIOUS
  <1>7. I \in Seq(Byte) /\ T!Fetched(taken') = IF h.c = 0 THEN I ELSE Append(I, x)
    <2>1. T!Fetched(Append(taken, h)) = IF h.c = 0 THEN I ELSE Append(I, x)
      BY <1>2, <1>4, <1>6, FetchedFacts
    <2> QED BY <1>3, <1>4, <1>6, <2>1, FetchedFacts
  <1>8. LineInv' /\ \A i \in 1 .. Len(I) : I[i].at < x.at
    BY <1>1, <1>5, <1>6, FetchKeepsLine
  <1>9. PICK O, U, B : O = output /\ U = T!Unread /\ B = T!RingBytes
    OBVIOUS
  <1>10. O \in Seq(Byte) /\ U \in Seq(Byte) /\ B \in Seq(Byte) /\ cons \in Ring
    BY <1>9 DEF RingsOK
  <1>11. T!Unread' = U /\ output' = O
    BY <1>3, <1>9 DEF T!Unread
  <1>12. PICK P : P = T!Pipeline /\ P = (O \o U) \o B
    BY <1>9, Zenon DEF T!Pipeline
  <1>13. Good(P, I, Lost)
    BY <1>6, <1>12
  <1>14. T!Pipeline' = (O \o U) \o T!RingBytes'
    BY <1>11, Zenon DEF T!Pipeline
  <1>15. ASSUME cons' \in Ring, T!RingBytes' \in Seq(Byte) PROVE RingsOK'
    BY <1>3, <1>10, <1>11, <1>15, <1>9 DEF RingsOK
  <1>16. CASE x.c = 0
    <2>1. cons' = cons /\ overrun' = overrun /\ T!Fetched(taken') = I
      BY <1>3, <1>5, <1>7, <1>16
    <2>2. T!RingBytes' = B
      BY <1>9, <2>1 DEF T!RingBytes, T!Pending
    <2>3. Good(T!Pipeline', T!Fetched(taken'), Lost')
      BY <1>12, <1>13, <1>14, <2>1, <2>2 DEF Lost
    <2> QED BY <1>8, <1>10, <1>15, <2>1, <2>2, <2>3
  <1>17. CASE x.c # 0
    <2>1. x \in Byte /\ cons' = T!Put(cons, x) /\ T!Fetched(taken') = Append(I, x)
      BY <1>3, <1>5, <1>7, <1>17
    <2>2. B = BytesOf(cons) /\ T!RingBytes' = BytesOf(cons')
      BY <1>9 DEF T!RingBytes, BytesOf, Window, SlotOf, T!Pending
    <2>3. /\ cons' \in Ring
          /\ T!Pending(cons) + 1 # ConsBufSize => T!RingBytes' = Append(B, x)
          /\ T!Pending(cons) + 1 = ConsBufSize => T!RingBytes' = <<>>
      BY <1>10, <2>1, <2>2, PutFacts
    <2>4. CASE T!Pending(cons) + 1 # ConsBufSize
      <3>1. overrun' = overrun /\ T!RingBytes' = Append(B, x)
        BY <1>3, <1>17, <2>3, <2>4
      <3>2. Append(B, x) \in Seq(Byte) /\ O \o U \in Seq(Byte)
        BY <1>10, <2>1
      <3>3. T!Pipeline' = Append(P, x)
        BY <1>10, <1>12, <1>14, <2>1, <3>1, <3>2, ConcatAppend
      <3>4. Good(Append(P, x), Append(I, x), Lost)
        BY <1>7, <1>8, <1>13, <2>1, GoodAppends
      <3>5. Good(T!Pipeline', T!Fetched(taken'), Lost')
        BY <2>1, <3>1, <3>3, <3>4 DEF Lost
      <3> QED BY <1>8, <1>15, <2>3, <3>1, <3>2, <3>5
    <2>5. CASE T!Pending(cons) + 1 = ConsBufSize
      <3>1. overrun' = overrun \cup {"cons"} /\ T!RingBytes' = <<>>
        BY <1>3, <1>17, <2>3, <2>5
      <3>2. Lost \subseteq Lost' /\ Lost' # {}
        BY <3>1 DEF Lost
      <3>3. <<>> \in Seq(Byte)
        OBVIOUS
      <3>4. PICK R : R = T!Pipeline' /\ R = (O \o U) \o <<>>
        BY <1>14, <3>1
      <3>5. Parts(R, O, U, <<>>) /\ Parts(P, O, U, B)
        BY <1>10, <1>12, <3>3, <3>4, PartsAre
      <3>6. Good(R, I, Lost')
        BY <1>10, <1>13, <3>2, <3>5, GoodLosesRing
      <3>7. Good(R, Append(I, x), Lost')
        BY <1>7, <1>8, <2>1, <3>2, <3>6, GoodAppends
      <3> QED BY <1>8, <1>15, <2>1, <2>3, <3>1, <3>3, <3>4, <3>7
    <2> QED BY <2>4, <2>5
  <1> QED BY <1>16, <1>17

\* The end of the handler: one byte of the ring goes to stdin_buffer.
LEMMA HandlerEndStep ==
    ASSUME BytesInv, T!HandlerEnd, ReadersInv'
    PROVE  BytesInv'
  <1> USE DEF BytesInv
  <1>1. PICK O, U, C : O = output /\ U = T!Unread /\ C = T!RingBytes
    OBVIOUS
  <1>2. O \in Seq(Byte) /\ U \in Seq(Byte) /\ C \in Seq(Byte) /\ cons \in Ring
    BY <1>1 DEF RingsOK
  <1>3. C = BytesOf(cons) /\ T!RingBytes' = BytesOf(cons')
    BY <1>1 DEF T!RingBytes, BytesOf, Window, SlotOf, T!Pending
  <1>4. PICK P, I : P = T!Pipeline /\ I = T!Fetched(taken)
    OBVIOUS
  <1>5. Good(P, I, Lost) /\ Parts(P, O, U, C)
    BY <1>1, <1>4, PipelineIs
  <1>6. /\ cons' = T!GetcRing(cons) /\ T!StdinWrite(T!GetcByte(cons))
        /\ overrun' = IF T!StdinFull /\ T!GetcByte(cons).c # 0
                      THEN overrun \cup {"stdin"} ELSE overrun
        /\ UNCHANGED <<fifo, p_rpos, input, taken, output>>
    BY DEF T!HandlerEnd
  <1>7. Lost \subseteq Lost'
    BY <1>6 DEF Lost
  <1>8. /\ cons' \in Ring
        /\ C = <<>> => T!GetcByte(cons) = T!NoByte /\ cons' = cons
        /\ C # <<>> => T!GetcByte(cons) = Head(C) /\ BytesOf(cons') = Tail(C)
    BY <1>2, <1>3, <1>6, GetcFacts
  <1>9. LineInv'
    <2>1. LineOK' /\ (FifoIsEnd => FifoIsEnd')
      BY <1>6 DEF LineInv, LineOK, FifoIsEnd
    <2>2. "fifo" \notin overrun' => "fifo" \notin overrun
      BY <1>6
    <2> QED BY <2>1, <2>2 DEF LineInv
  <1>10. PICK V, D : V = T!Unread' /\ D = T!RingBytes'
    OBVIOUS
  <1>11. T!Fetched(taken') = I
    BY <1>4, <1>6
  <1>12. T!Pipeline' = (O \o V) \o D
    BY <1>1, <1>6, <1>10, Zenon DEF T!Pipeline
  <1>13. CASE C = <<>>
    <2>1. T!NoByte.c = 0
      BY DEF T!NoByte
    <2>2. UNCHANGED <<stdin_buffer, p_wpos, overrun, cons>>
      BY <1>6, <1>8, <1>13, <2>1 DEF T!StdinWrite
    <2>3. V = U /\ D = C
      BY <1>1, <1>3, <1>6, <1>10, <2>2 DEF T!Unread
    <2>4. T!Pipeline' = P
      BY <1>1, <1>4, <1>12, <2>3, Zenon DEF T!Pipeline
    <2>5. Good(T!Pipeline', I, Lost')
      BY <1>5, <2>2, <2>4 DEF Lost
    <2>6. RingsOK'
      BY <1>1, <1>2, <1>6, <1>8, <1>10, <2>2, <2>3 DEF RingsOK
    <2> QED BY <1>9, <1>11, <2>5, <2>6
  <1>14. CASE C # <<>>
    <2>1. PICK b \in Byte : b = Head(C)
      BY <1>2, <1>14, HeadFacts
    <2>2. b = T!GetcByte(cons) /\ b.c # 0
      BY <1>8, <1>14, <2>1 DEF Byte
    <2>3. /\ stdin_buffer' = [stdin_buffer EXCEPT ![p_wpos % StdinBufSize] = b]
          /\ p_wpos' = IF T!StdinFull THEN p_wpos ELSE p_wpos + 1
      BY <1>6, <2>2 DEF T!StdinWrite
    <2>4. PICK full \in BOOLEAN : full <=> T!StdinFull
      <3>1. CASE T!StdinFull
        <4>1. TRUE \in BOOLEAN /\ (TRUE <=> T!StdinFull)
          BY <3>1
        <4> QED BY <4>1, Zenon
      <3>2. CASE ~ T!StdinFull
        <4>1. FALSE \in BOOLEAN /\ (FALSE <=> T!StdinFull)
          BY <3>2
        <4> QED BY <4>1, Zenon
      <3> QED BY <3>1, <3>2
    <2>5. /\ stdin_buffer' \in [0 .. StdinBufSize - 1 -> Slot]
          /\ p_wpos' - p_rpos' <= StdinBufSize
          /\ Takes(V, U, Head(C), full)
      <3>1. /\ stdin_buffer' \in [0 .. StdinBufSize - 1 -> Slot]
            /\ p_wpos' - p_rpos' <= StdinBufSize
            /\ Takes(T!Unread', T!Unread, b, T!StdinFull)
        BY <1>6, <2>3, StdinTakes DEF ReadersInv
      <3>2. Takes(V, U, b, full)
        BY <1>1, <1>10, <2>4, <3>1, Zenon DEF Takes
      <3> QED BY <2>1, <3>1, <3>2
    <2>6. D = Tail(C)
      BY <1>3, <1>8, <1>10, <1>14
    <2>7. V \in Seq(Byte) /\ D \in Seq(Byte)
      BY <1>2, <1>14, <2>5, <2>6, HeadFacts DEF Takes
    <2>8. Parts(T!Pipeline', O, V, Tail(C))
      BY <1>2, <1>12, <2>6, <2>7, PartsAre
    <2>9. full => "stdin" \in Lost'
      BY <1>6, <2>2, <2>4 DEF Lost
    <2>10. Good(T!Pipeline', I, Lost')
      BY <1>2, <1>5, <1>7, <1>14, <2>4, <2>5, <2>8, <2>9, GoodPasses
    <2>11. RingsOK'
      BY <1>1, <1>2, <1>6, <1>8, <1>10, <2>5, <2>7 DEF RingsOK
    <2> QED BY <1>9, <1>11, <2>10, <2>11
  <1> QED BY <1>13, <1>14

\* A turn of the loop of dev_stdin_read: the bytes it copies were the next.
LEMMA LoopKeepsBytes ==
    ASSUME BytesInv, NEW r \in Readers, NEW n \in Nat, T!ReadLoop(r, n),
           UNCHANGED <<fifo, cons, stdin_buffer, p_wpos, input, taken, overrun>>, ReadersInv'
    PROVE  BytesInv'
  <1> USE DEF BytesInv
  <1>1. PICK M \in Nat \ {0} : M = StdinBufSize
    BY WaitsAssumption
  <1>2. PICK p \in Nat : p = p_rpos /\ p_wpos \in Nat /\ p_wpos' = p_wpos
    BY DEF ReadersInv, ReadersOK
  <1>3. PICK k \in Nat : k = p_wpos - p_rpos /\ k <= M
    BY <1>1 DEF ReadersInv, ReadersOK, RingsOK
  <1>4. PICK g \in 0 .. k : g = T!Min({n, p_wpos - p_rpos})
    BY <1>3, MinFacts
  <1>5. PICK U, a, b : U = T!Unread /\ a = SubSeq(U, 1, g) /\ b = SubSeq(U, g + 1, Len(U))
    OBVIOUS
  <1>6. output' = output \o a /\ p_rpos' = p + g
    BY <1>2, <1>4, <1>5 DEF T!ReadLoop
  <1>7. U \in Seq(Byte) /\ Len(U) = k /\ \A i \in 1 .. k : U[i] = stdin_buffer[SlotOf(M, p, i)]
    <2>1. IsWindow(U, M, stdin_buffer, p, k)
      BY <1>1, <1>2, <1>3, <1>5, UnreadIs DEF ReadersInv, RingsOK
    <2> QED BY <1>5, <2>1 DEF IsWindow, RingsOK
  <1>8. /\ a \in Seq(Byte) /\ b \in Seq(Byte) /\ Len(b) = k - g /\ U = a \o b
        /\ \A i \in 1 .. k - g : b[i] = U[g + i]
    <2>1. g \in 0 .. Len(U)
      BY <1>7
    <2> QED BY <1>5, <1>7, <2>1, SplitFacts
  <1>9. PICK V : V = T!Unread'
    OBVIOUS
  <1>10. V = b
    <2>1. V = [i \in 1 .. p_wpos' - p_rpos' |-> stdin_buffer'[(p_rpos' + i - 1) % StdinBufSize]]
      BY <1>9 DEF T!Unread
    <2>2. p_wpos' - p_rpos' = k - g /\ k - g \in Nat
      BY <1>2, <1>3, <1>6
    <2>3. V = Window(stdin_buffer, M, p + g, k - g)
      BY <1>1, <1>6, <2>1, <2>2 DEF Window, SlotOf
    <2>4. stdin_buffer \in [0 .. M - 1 -> Slot] /\ p + g \in Nat
      BY <1>1 DEF RingsOK
    <2>5. IsWindow(V, M, stdin_buffer, p + g, k - g)
      BY <2>2, <2>3, <2>4, WindowSlots
    <2>6. V \in Seq(Slot) /\ Len(V) = k - g
          /\ \A i \in 1 .. k - g : V[i] = stdin_buffer[SlotOf(M, p + g, i)]
      BY <2>5 DEF IsWindow
    <2>7. \A i \in 1 .. k - g : V[i] = b[i]
      <3> TAKE i \in 1 .. k - g
      <3>1. (p + g) + i - 1 = p + (g + i) - 1 /\ g + i \in 1 .. k
        OBVIOUS
      <3>2. SlotOf(M, p + g, i) = SlotOf(M, p, g + i)
        BY <3>1 DEF SlotOf
      <3> QED BY <1>7, <1>8, <2>6, <3>1, <3>2
    <2>8. b \in Seq(Slot)
      <3>1. \A i \in 1 .. Len(b) : b[i] \in Byte
        BY <1>8
      <3>2. \A x \in Byte : x \in Slot
        BY DEF Byte, Slot
      <3> QED BY <1>8, <3>1, <3>2
    <2> QED BY <1>8, <2>6, <2>7, <2>8, SameSeqs
  <1>11. T!RingBytes' = T!RingBytes
    BY DEF T!RingBytes, T!Pending
  <1>12. output \in Seq(Byte) /\ output' \in Seq(Byte)
    <2>1. output \in Seq(Byte)
      BY DEF RingsOK
    <2>2. output \o a \in Seq(Byte)
      BY <1>8, <2>1
    <2> QED BY <1>6, <2>1, <2>2
  <1>13. T!Pipeline' = T!Pipeline
    <2>1. (output \o a) \o b = output \o (a \o b)
      <3>1. output \in Seq(Byte)
        BY <1>12
      <3> QED BY <1>8, <3>1, ConcatAssoc
    <2>2. output' \o T!Unread' = output \o T!Unread
      BY <1>5, <1>6, <1>8, <1>9, <1>10, <2>1
    <2>3. T!Pipeline' = (output' \o T!Unread') \o T!RingBytes'
      BY Zenon DEF T!Pipeline
    <2>4. T!Pipeline = (output \o T!Unread) \o T!RingBytes
      BY Zenon DEF T!Pipeline
    <2> QED BY <1>11, <2>2, <2>3, <2>4
  <1>14. RingsOK'
    <2>1. p_wpos' - p_rpos' <= StdinBufSize
      BY <1>1, <1>2, <1>3, <1>6
    <2>2. T!Unread' \in Seq(Byte)
      BY <1>8, <1>9, <1>10
    <2> QED BY <1>11, <1>12, <2>1, <2>2 DEF RingsOK
  <1>15. LineInv'
    BY DEF LineInv, LineOK, FifoIsEnd
  <1>16. Good(T!Pipeline', T!Fetched(taken'), Lost')
    BY <1>13 DEF Lost
  <1> QED BY <1>14, <1>15, <1>16

LEMMA SameBytes ==
    ASSUME BytesInv, ReadersInv',
           UNCHANGED <<fifo, cons, stdin_buffer, p_rpos, p_wpos, input, taken, output,
                       overrun>>
    PROVE  BytesInv'
  <1>1. T!Unread' = T!Unread /\ T!RingBytes' = T!RingBytes
    BY DEF T!Unread, T!RingBytes, T!Pending
  <1>2. T!Pipeline' = T!Pipeline
    BY <1>1, Zenon DEF T!Pipeline
  <1>3. RingsOK' /\ LineInv'
    BY <1>1 DEF BytesInv, RingsOK, LineInv, LineOK, FifoIsEnd
  <1>4. Good(T!Pipeline', T!Fetched(taken'), Lost')
    BY <1>2 DEF BytesInv, Lost
  <1> QED BY <1>3, <1>4 DEF BytesInv

LEMMA BytesStep == BytesInv /\ [T!Next]_stdinvars => BytesInv'
  <1> SUFFICES ASSUME BytesInv, [T!Next]_stdinvars PROVE BytesInv'
    OBVIOUS
  <1>0. ReadersInv'
    BY ReadersStep DEF BytesInv
  <1>1. CASE T!Receive
    BY <1>0, <1>1, ReceiveStep
  <1>2. CASE T!Fetch
    BY <1>0, <1>2, FetchStep
  <1>7. CASE T!HandlerEnd
    BY <1>0, <1>7, HandlerEndStep
  <1>3. ASSUME NEW r \in Readers, T!Read(r) PROVE BytesInv'
    <2>1. PICK n \in Nat : T!ReadLoop(r, n)
      <3>1. \A n \in 1 .. MaxLen : n \in Nat
        BY WaitsAssumption
      <3> QED BY <1>3, <3>1 DEF T!Read
    <2>2. UNCHANGED <<fifo, cons, stdin_buffer, p_wpos, input, taken, overrun>>
      BY <1>3 DEF T!Read
    <2> QED BY <1>0, <2>1, <2>2, LoopKeepsBytes
  <1>4. ASSUME NEW r \in Readers, T!Resume(r) PROVE BytesInv'
    <2>1. UNCHANGED <<fifo, cons, stdin_buffer, p_wpos, input, taken, overrun>>
      BY <1>4 DEF T!Resume
    <2>2. CASE T!ReadLoop(r, left[r])
      <3>1. left[r] \in Nat
        BY DEF BytesInv, ReadersInv, ReadersOK
      <3> QED BY <1>0, <2>1, <2>2, <3>1, LoopKeepsBytes
    <2>3. CASE UNCHANGED <<output, p_rpos>>
      BY <1>0, <2>1, <2>3, SameBytes
    <2> QED BY <1>4, <2>2, <2>3 DEF T!Resume
  <1>5. ASSUME NEW r \in Readers, T!Kill(r) PROVE BytesInv'
    BY <1>0, <1>5, SameBytes DEF T!Kill
  <1>6. CASE UNCHANGED stdinvars
    BY <1>0, <1>6, SameBytes DEF stdinvars
  <1> QED BY <1>1, <1>2, <1>3, <1>4, <1>5, <1>6, <1>7 DEF T!Next, T!Handler

LEMMA BytesInit == T!Init => BytesInv
  <1> SUFFICES ASSUME T!Init PROVE BytesInv
    OBVIOUS
  <1>1. PICK N \in Nat \ {0} : N = ConsBufSize
    BY WaitsAssumption
  <1>2. T!NoByte \in Slot
    BY DEF T!NoByte, Slot
  <1>3. cons = [buf |-> [i \in 0 .. N - 1 |-> T!NoByte], rpos |-> 0, wpos |-> 0]
    BY <1>1 DEF T!Init
  <1>4. cons \in Ring /\ cons.rpos = 0 /\ cons.wpos = 0
    BY <1>1, <1>2, <1>3 DEF Ring
  <1>5. stdin_buffer \in [0 .. StdinBufSize - 1 -> Slot]
    BY <1>2 DEF T!Init
  <1>6. <<>> \in Seq(Byte) /\ <<>> \in Seq(AnyByte) /\ <<>> \in Seq(Readers)
    OBVIOUS
  <1>7. ReadersInv
    BY <1>6 DEF T!Init, ReadersInv, ReadersOK, T!SleepersHaveNothing
  <1>8. T!Pending(cons) = 0
    BY <1>4, RingBasics
  <1>9. \A f : [i \in 1 .. 0 |-> f[i]] = <<>>
    OBVIOUS
  <1>10. T!RingBytes = <<>>
    BY <1>8 DEF T!RingBytes
  <1>11. T!Unread = <<>>
    BY DEF T!Unread, T!Init
  <1>12. /\ fifo = <<>> /\ input = <<>> /\ taken = <<>> /\ output = <<>>
         /\ overrun = {} /\ p_rpos = 0 /\ p_wpos = 0
    BY DEF T!Init
  <1>13. T!Fetched(taken) = <<>>
    BY <1>12, FetchedFacts
  <1>14. T!Pipeline = <<>>
    <2>1. T!Pipeline = (<<>> \o <<>>) \o <<>>
      BY <1>10, <1>11, <1>12, Zenon DEF T!Pipeline
    <2>2. <<>> \o <<>> = <<>>
      BY <1>6, ConcatEmpty
    <2> QED BY <2>1, <2>2
  <1>15. Good(<<>>, <<>>, {})
    <2>1. IsInjective(<<>>)
      BY DEF IsInjective
    <2>2. Increasing(<<>>)
      BY DEF Increasing
    <2> QED BY <1>6, <2>1, <2>2 DEF Good
  <1>16. RingsOK
    BY <1>4, <1>5, <1>6, <1>10, <1>11, <1>12, WaitsAssumption DEF RingsOK
  <1>17. LineInv
    <2>1. Len(<<>>) = 0 /\ \A i \in 1 .. 0 : FALSE
      OBVIOUS
    <2>2. LineOK
      BY <1>6, <1>12, <1>13, <2>1 DEF LineOK
    <2>3. FifoIsEnd
      BY <1>12, <2>1 DEF FifoIsEnd
    <2> QED BY <2>2, <2>3 DEF LineInv
  <1>18. Lost = {}
    BY <1>12 DEF Lost
  <1> QED BY <1>7, <1>13, <1>14, <1>15, <1>16, <1>17, <1>18 DEF BytesInv

\* The part of a behaviour of the two users of wait queues that is about stdin.
LEMMA StdinAlways == WaitsSpec => [](part = "stdin" => BytesInv)
  <1> DEFINE Inv == part = "stdin" => BytesInv
  <1>1. WaitsInit => Inv
    BY BytesInit DEF WaitsInit
  <1>2. Inv /\ [WaitsNext]_<<part, vars, stdinvars>> => Inv'
    <2> SUFFICES ASSUME Inv, [WaitsNext]_<<part, vars, stdinvars>>, part' = "stdin"
                 PROVE  BytesInv'
      OBVIOUS
    <2>1. part' = part
      BY DEF WaitsNext
    <2>2. BytesInv
      BY <2>1
    <2>3. [T!Next]_stdinvars
      BY <2>1 DEF WaitsNext
    <2> QED BY <2>2, <2>3, BytesStep
  <1> QED BY <1>1, <1>2, PTL DEF WaitsSpec

\* A reader that sleeps in dev_stdin_read has nothing to read and is in the
\* queue that dev_stdin_write wakes (dev_stdin.c:33, 47-55), for every number
\* of readers, size of the buffers and interleaving of interrupts and kills.
THEOREM SleepersNeverMiss == WaitsSpec => []SleepersHaveNothing
  <1>1. (part = "stdin" => BytesInv) => SleepersHaveNothing
    BY DEF BytesInv, ReadersInv, SleepersHaveNothing
  <1> QED BY <1>1, StdinAlways, PTL

\* What the readers of stdin get is what the handler read from the UART: exactly,
\* while neither buffer of the kernel overran; in its order, unless stdin_buffer
\* did; and each byte once in any case (console.c:145-156, dev_stdin.c:21-68).
\* While the FIFO did not overrun, that is the line without some of the bytes
\* that came right behind one that was read (uart_controller.v:53).
THEOREM ReadsAreAlwaysTheInput == WaitsSpec => []ReadsAreTheInput
  <1>1. BytesInv => T!NothingLost
    <2> SUFFICES ASSUME BytesInv, overrun \subseteq {"fifo"}
                 PROVE  T!Pipeline = T!Fetched(taken)
      BY DEF T!NothingLost
    <2>1. Lost = {}
      BY DEF Lost
    <2> QED BY <2>1 DEF BytesInv, Good
  <1>2. BytesInv => T!InOrder
    <2> SUFFICES ASSUME BytesInv, "stdin" \notin overrun
                 PROVE  \A i, j \in DOMAIN T!Pipeline :
                           i < j => T!Pipeline[i].at < T!Pipeline[j].at
      BY DEF T!InOrder
    <2>1. "stdin" \notin Lost
      BY DEF Lost
    <2>2. T!Pipeline \in Seq(Byte) /\ Increasing(T!Pipeline)
      BY <2>1 DEF BytesInv, Good
    <2>3. DOMAIN T!Pipeline = 1 .. Len(T!Pipeline)
      BY <2>2, RangeOfSeq
    <2> QED BY <2>2, <2>3 DEF Increasing
  <1>3. BytesInv => T!ReadOnce
    <2> SUFFICES ASSUME BytesInv PROVE T!ReadOnce
      OBVIOUS
    <2>1. IsInjective(T!Pipeline) /\ Range(T!Pipeline) \subseteq Range(T!Fetched(taken))
      BY DEF BytesInv, Good
    <2>2. T!IsInjective(T!Pipeline)
      BY <2>1 DEF T!IsInjective, IsInjective
    <2>3. T!ToSet(T!Pipeline) \subseteq T!ToSet(T!Fetched(taken))
      BY <2>1 DEF T!ToSet, Range
    <2> QED BY <2>2, <2>3 DEF T!ReadOnce
  <1>4. BytesInv => T!MissesOnlyNeighbours
    <2> SUFFICES ASSUME BytesInv, "fifo" \notin overrun, NEW i \in DOMAIN input
                 PROVE  \/ input[i] \in T!ToSet(taken \o fifo)
                        \/ i > 1 /\ input[i - 1] \in T!ToSet(taken)
      BY DEF T!MissesOnlyNeighbours
    <2>1. input \in Seq(AnyByte) /\ fifo \in Seq(AnyByte) /\ taken \in Seq(AnyByte)
      BY DEF BytesInv, LineInv, LineOK
    <2>2. PICK n \in Nat, m \in Nat : n = Len(input) /\ m = Len(fifo) /\ i \in 1 .. n
      BY <2>1
    <2>3. /\ m <= n
          /\ \A j \in 1 .. m : fifo[j] = input[n - m + j]
          /\ \A j \in 1 .. n - m : \/ input[j] \in Range(taken)
                                   \/ j > 1 /\ input[j - 1] \in Range(taken)
      BY <2>2 DEF BytesInv, LineInv, FifoIsEnd
    <2>4. PICK s : s = taken \o fifo
      OBVIOUS
    <2>5. Range(s) = Range(taken) \cup Range(fifo)
      BY <2>1, <2>4, ConcatFacts
    <2>6. T!ToSet(s) = Range(s) /\ T!ToSet(taken) = Range(taken)
      BY DEF T!ToSet, Range
    <2>7. CASE i <= n - m
      <3>1. i \in 1 .. n - m
        BY <2>2, <2>7
      <3> QED BY <2>3, <2>4, <2>5, <2>6, <3>1
    <2>8. CASE i > n - m
      <3>1. PICK j \in 1 .. m : i = n - m + j
        <4>1. i - (n - m) \in 1 .. m /\ i = n - m + (i - (n - m))
          BY <2>2, <2>3, <2>8
        <4> QED BY <4>1
      <3>2. input[i] \in Range(fifo)
        BY <2>1, <2>2, <2>3, <3>1, RangeOfSeq
      <3> QED BY <2>4, <2>5, <2>6, <3>2
    <2> QED BY <2>2, <2>3, <2>7, <2>8
  <1>5. (part = "stdin" => BytesInv) => ReadsAreTheInput
    BY <1>1, <1>2, <1>3, <1>4 DEF ReadsAreTheInput
  <1> QED BY <1>5, StdinAlways, PTL
=============================================================================
