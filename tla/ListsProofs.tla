---------------------------- MODULE ListsProofs ----------------------------
(***************************************************************************)
(* The process list, the family pointers and the timer list, for any       *)
(* number of processes: get_pid never returns a pid in use, the pointers   *)
(* stay the lists of children of ProcTree, through the loop of do_exit,    *)
(* and the list of differences stays the times of TimerSpec.               *)
(***************************************************************************)
EXTENDS MCLists, Facts, FiniteSetTheorems, TLAPS

-----------------------------------------------------------------------------
(* get_pid.  PidInv is inductive: the walk establishes, element by         *)
(* element, that the pids from last_pid up to next_safe are free           *)
(* (ScannedIsFree), the end of the walk turns this into the two facts      *)
(* get_pid is used for (ReturnsUnused, GapIsFree), and linking and reaping *)
(* keep the gap free.                                                      *)

\* A list that lost the element at i (remove_links) has the other elements and
\* no others, in their order.
LEMMA WithoutFacts ==
    ASSUME NEW S, NEW s \in Seq(S), NEW i \in 1 .. Len(s)
    PROVE  /\ Without(s, i) \in Seq(S)
           /\ Len(Without(s, i)) = Len(s) - 1
           /\ \A j \in 1 .. Len(s) - 1 : j < i => Without(s, i)[j] = s[j]
           /\ \A j \in 1 .. Len(s) - 1 : j >= i => Without(s, i)[j] = s[j + 1]
           /\ \A k \in 1 .. Len(s) : k # i =>
                 \E j \in 1 .. Len(s) - 1 : Without(s, i)[j] = s[k]
  <1>1. Len(s) \in Nat /\ Len(s) - 1 \in Nat
    OBVIOUS
  <1>2. \A j \in 1 .. Len(s) - 1 : s[j] \in S /\ s[j + 1] \in S
    OBVIOUS
  <1>3. Without(s, i) \in [1 .. Len(s) - 1 -> S]
    BY <1>1, <1>2 DEF Without
  <1>4. Without(s, i) \in Seq(S) /\ Len(Without(s, i)) = Len(s) - 1
    BY <1>1, <1>3
  <1>5. /\ \A j \in 1 .. Len(s) - 1 : j < i => Without(s, i)[j] = s[j]
        /\ \A j \in 1 .. Len(s) - 1 : j >= i => Without(s, i)[j] = s[j + 1]
    BY <1>1 DEF Without
  <1>6. ASSUME NEW k \in 1 .. Len(s), k # i
        PROVE  \E j \in 1 .. Len(s) - 1 : Without(s, i)[j] = s[k]
    <2>1. CASE k < i
      <3>1. k \in 1 .. Len(s) - 1
        BY <2>1, <1>1
      <3> QED BY <2>1, <3>1, <1>5
    <2>2. CASE k > i
      <3>1. /\ k - 1 \in 1 .. Len(s) - 1
            /\ k - 1 >= i
            /\ (k - 1) + 1 = k
        BY <2>2, <1>1
      <3> QED BY <3>1, <1>5
    <2> QED BY <1>6, <2>1, <2>2, <1>1
  <1> QED
    BY <1>4, <1>5, <1>6

\* Type correctness and the freedom of the gap hold initially.
LEMMA PidInit == Init => PidInv
  BY PidAssumption DEF Init, PidInv, TypeOK, PidsDistinct, GapIsFree,
     ReturnsUnused, ScannedIsFree

\* Every step keeps PidInv.
LEMMA PidStep == PidInv /\ [Next]_vars => PidInv'
  <1> SUFFICES ASSUME PidInv, [Next]_vars PROVE PidInv'
    OBVIOUS
  <1> USE PidAssumption
  <1>1. CASE CallGetPid
    BY <1>1 DEF CallGetPid, StartScan, Past, PidInv, TypeOK, PidsDistinct,
       GapIsFree, ReturnsUnused, ScannedIsFree
  <1>2. CASE Scan
    <2>1. TypeOK' /\ PidsDistinct' /\ GapIsFree' /\ ReturnsUnused'
      BY SMTT(30), ZenonT(90), <1>2 DEF Scan, StartScan, Wrap, PidInv, TypeOK, PidsDistinct,
         GapIsFree, ReturnsUnused, ScannedIsFree
    <2>2. ScannedIsFree'
      BY SMTT(30), ZenonT(90), <1>2 DEF Scan, StartScan, Wrap, PidInv, TypeOK, ScannedIsFree
    <2> QED BY <2>1, <2>2 DEF PidInv
  <1>3. CASE ScanEnd
    BY <1>3 DEF ScanEnd, PidInv, TypeOK, PidsDistinct, GapIsFree,
       ReturnsUnused, ScannedIsFree
  <1>4. CASE Link
    <2>1. /\ Len(proc_list') = Len(proc_list) + 1
          /\ proc_list'[1] = last_pid
          /\ \A i \in 2 .. Len(proc_list) + 1 : proc_list'[i] = proc_list[i - 1]
          /\ proc_list' \in Seq(1 .. MaxPid - 1)
      BY <1>4 DEF Link, PidInv, TypeOK, ReturnsUnused
    <2>2. PidsDistinct'
      BY SMTT(30), ZenonT(90), <1>4, <2>1 DEF Link, PidInv, TypeOK, PidsDistinct, ReturnsUnused
    <2> QED
      BY <1>4, <2>1, <2>2 DEF Link, PidInv, TypeOK, GapIsFree, ReturnsUnused,
         ScannedIsFree
  <1>5. CASE Reap
    <2>1. PICK i \in 1 .. Len(proc_list) :
             proc_list[i] # 1 /\ proc_list' = Without(proc_list, i)
      BY <1>5 DEF Reap
    <2> DEFINE n == Len(proc_list)
    <2>2. /\ proc_list' \in Seq(1 .. MaxPid - 1)
          /\ Len(proc_list') = n - 1
          /\ \A j \in 1 .. n - 1 : j < i => proc_list'[j] = proc_list[j]
          /\ \A j \in 1 .. n - 1 : j >= i => proc_list'[j] = proc_list[j + 1]
      BY <2>1, WithoutFacts DEF PidInv, TypeOK
    <2>3. n \in Nat /\ \A j \in 1 .. n - 1 : j \in 1 .. n /\ j + 1 \in 1 .. n
      BY DEF PidInv, TypeOK
    <2>4. \A j \in 1 .. n - 1 : \E k \in 1 .. n : proc_list'[j] = proc_list[k]
      <3> TAKE j \in 1 .. n - 1
      <3>1. j < i \/ j >= i
        BY <2>3
      <3>2. proc_list'[j] = proc_list[j] \/ proc_list'[j] = proc_list[j + 1]
        BY <2>2, <3>1
      <3> QED BY <2>3, <3>2
    <2>5. PidsDistinct'
      <3> SUFFICES ASSUME NEW j \in 1 .. n - 1, NEW k \in 1 .. n - 1,
                          proc_list'[j] = proc_list'[k]
                   PROVE  j = k
        BY <2>2 DEF PidsDistinct
      <3>1. \A a, b \in 1 .. n : proc_list[a] = proc_list[b] => a = b
        BY DEF PidInv, PidsDistinct
      <3>2. CASE j < i /\ k < i
        BY <2>2, <2>3, <3>1, <3>2
      <3>3. CASE j < i /\ k >= i
        <4>1. proc_list[j] = proc_list[k + 1]
          BY <2>2, <3>3
        <4> QED BY <2>3, <3>1, <3>3, <4>1
      <3>4. CASE j >= i /\ k < i
        <4>1. proc_list[j + 1] = proc_list[k]
          BY <2>2, <3>4
        <4> QED BY <2>3, <3>1, <3>4, <4>1
      <3>5. CASE j >= i /\ k >= i
        <4>1. proc_list[j + 1] = proc_list[k + 1]
          BY <2>2, <3>5
        <4>2. j + 1 = k + 1
          BY <2>3, <3>1, <4>1
        <4> QED BY <4>2, <2>3
      <3> QED BY <3>2, <3>3, <3>4, <3>5, <2>3
    <2>6. GapIsFree'
      BY <1>5, <2>2, <2>4 DEF Reap, PidInv, GapIsFree
    <2> QED
      BY <1>5, <2>2, <2>5, <2>6 DEF Reap, PidInv, TypeOK, ReturnsUnused,
         ScannedIsFree
  <1>6. CASE UNCHANGED vars
    BY <1>6 DEF vars, PidInv, TypeOK, PidsDistinct, GapIsFree, ReturnsUnused,
       ScannedIsFree
  <1> QED
    BY <1>1, <1>2, <1>3, <1>4, <1>5, <1>6 DEF Next

\* get_pid's cache of the next pid in use stays sound, and no two processes
\* have the same pid.
THEOREM PidsAlwaysSound == Spec => []PidInv
  BY PidInit, PidStep, PTL DEF Spec

\* get_pid with do_fork's set_links and do_wait's remove_links implements the
\* allocation and release of unused pids.
THEOREM PidsRefined == Spec => PidRefinement
  <1> DEFINE U == {proc_list[i] : i \in 1 .. Len(proc_list)}
  <1>1. Init => Pids!Init
    BY DEF Init, Pids!Init
  <1>2. PidInv /\ [Next]_vars => [Pids!Next]_<<U, Len(proc_list)>>
    <2> SUFFICES ASSUME PidInv, [Next]_vars PROVE [Pids!Next]_<<U, Len(proc_list)>>
      OBVIOUS
    <2> USE PidAssumption
    <2>1. CASE Link
      <3>1. /\ Len(proc_list') = Len(proc_list) + 1
            /\ proc_list'[1] = last_pid
            /\ \A i \in 2 .. Len(proc_list) + 1 :
                  proc_list'[i] = proc_list[i - 1]
        BY <2>1 DEF Link, PidInv, TypeOK
      <3>2. \A i \in 1 .. Len(proc_list) :
               /\ i + 1 \in 1 .. Len(proc_list')
               /\ proc_list'[i + 1] = proc_list[i]
        <4> TAKE i \in 1 .. Len(proc_list)
        <4>1. /\ i + 1 \in 2 .. Len(proc_list) + 1
              /\ i + 1 \in 1 .. Len(proc_list')
              /\ (i + 1) - 1 = i
          BY <3>1 DEF PidInv, TypeOK
        <4> QED BY <3>1, <4>1
      <3>3. U' = U \cup {last_pid}
        <4>1. U' \subseteq U \cup {last_pid}
          <5> SUFFICES ASSUME NEW k \in 1 .. Len(proc_list')
                       PROVE  proc_list'[k] \in U \cup {last_pid}
            OBVIOUS
          <5>1. CASE k = 1
            BY <3>1, <5>1
          <5>2. CASE k # 1
            <6>1. /\ k \in 2 .. Len(proc_list) + 1
                  /\ k - 1 \in 1 .. Len(proc_list)
              BY <3>1, <5>2 DEF PidInv, TypeOK
            <6> QED BY <3>1, <6>1
          <5> QED BY <5>1, <5>2
        <4>2. last_pid \in U'
          <5>1. 1 \in 1 .. Len(proc_list')
            BY <3>1 DEF PidInv, TypeOK
          <5> QED BY <3>1, <5>1
        <4>3. U \subseteq U'
          BY <3>2
        <4> QED BY <4>1, <4>2, <4>3
      <3>4. last_pid \in 1 .. MaxPid - 1 /\ last_pid \notin U
        BY <2>1 DEF Link, PidInv, ReturnsUnused
      <3> QED BY <3>1, <3>3, <3>4 DEF Pids!Next, Pids!Allocate
    <2>2. CASE Reap
      <3>1. PICK i \in 1 .. Len(proc_list) :
               proc_list' = Without(proc_list, i)
        BY <2>2 DEF Reap
      <3> DEFINE n == Len(proc_list)
      <3>2. /\ Len(proc_list') = n - 1
            /\ \A j \in 1 .. n - 1 : j < i => proc_list'[j] = proc_list[j]
            /\ \A j \in 1 .. n - 1 : j >= i => proc_list'[j] = proc_list[j + 1]
            /\ \A k \in 1 .. n : k # i =>
                  \E j \in 1 .. n - 1 : proc_list'[j] = proc_list[k]
        BY SMTT(30), ZenonT(90), <3>1, WithoutFacts DEF PidInv, TypeOK
      <3>3. /\ n \in Nat
            /\ \A j \in 1 .. n - 1 : j \in 1 .. n /\ j + 1 \in 1 .. n
            /\ \A a, b \in 1 .. n : proc_list[a] = proc_list[b] => a = b
        BY DEF PidInv, TypeOK, PidsDistinct
      <3>4. \A j \in 1 .. n - 1 :
               proc_list'[j] \in U /\ proc_list'[j] # proc_list[i]
        <4> TAKE j \in 1 .. n - 1
        <4>1. CASE j < i
          BY <3>2, <3>3, <4>1
        <4>2. CASE j >= i
          <5>1. proc_list'[j] = proc_list[j + 1] /\ j + 1 # i
            BY <3>2, <3>3, <4>2
          <5> QED BY <3>3, <5>1
        <4> QED BY <4>1, <4>2, <3>3
      <3>5. U' = U \ {proc_list[i]}
        <4>1. U' \subseteq U \ {proc_list[i]}
          BY <3>2, <3>4
        <4>2. \A k \in 1 .. n : k # i => proc_list[k] \in U'
          BY <3>2
        <4>3. U \ {proc_list[i]} \subseteq U'
          BY <4>2
        <4> QED BY <4>1, <4>3
      <3>6. proc_list[i] \in U /\ proc_list[i] \in 1 .. MaxPid - 1
        BY DEF PidInv, TypeOK
      <3> QED BY <3>2, <3>5, <3>6 DEF Pids!Next, Pids!Release
    <2>3. CASE UNCHANGED proc_list
      BY <2>3
    <2> QED
      BY <2>1, <2>2, <2>3 DEF Next, vars, CallGetPid, Scan, ScanEnd
  <1> QED
    BY <1>1, <1>2, PidsAlwaysSound, PTL DEF Spec, PidRefinement, Pids!Spec

-----------------------------------------------------------------------------

LEMMA SameCardinality == \A S : L!Cardinality(S) = Cardinality(S)
  BY DEF L!Cardinality, Cardinality

-----------------------------------------------------------------------------
(* The pointers                                                            *)

LEMMA LinksInit == L!Init => L!LinksInv
  <1> SUFFICES ASSUME L!Init PROVE L!LinksInv
    OBVIOUS
  <1> USE ListsAssumption
  <1>1. /\ parent \in [Procs -> L!Ptrs] /\ cptr \in [Procs -> L!Ptrs]
        /\ yptr \in [Procs -> L!Ptrs] /\ optr \in [Procs -> L!Ptrs]
        /\ \A p \in Procs : /\ parent[p] = IF p = Initproc THEN Idle ELSE NULL
                            /\ cptr[p] = IF p = Idle THEN Initproc ELSE NULL
                            /\ yptr[p] = NULL /\ optr[p] = NULL
        /\ zombie = {} /\ leaving = NULL
    BY DEF L!Init, L!Nil, L!Ptrs
  <1>2. L!Live = {Idle, Initproc}
    BY <1>1 DEF L!Live
  <1>3. L!Pointers
    BY <1>1, <1>2 DEF L!Pointers
  <1>4. L!NoLooseEnds
    BY <1>1, <1>2 DEF L!NoLooseEnds
  <1>5. L!Siblings
    BY <1>1 DEF L!Siblings
  <1>6. L!NoSiblingCycle
    BY <1>1 DEF L!NoSiblingCycle
  <1> QED BY <1>3, <1>4, <1>5, <1>6 DEF L!LinksInv

\* What Store writes.
LEMMA StoreFacts ==
    ASSUME NEW f \in [Procs -> L!Ptrs], NEW p, NEW v \in L!Ptrs
    PROVE  /\ L!Store(f, p, v) \in [Procs -> L!Ptrs]
           /\ \A q \in Procs : L!Store(f, p, v)[q] = IF q = p THEN v ELSE f[q]
  BY DEF L!Store

\* The pointers of a process lead to processes that exist.
LEMMA PointerFacts ==
    ASSUME L!LinksInv
    PROVE  /\ parent \in [Procs -> L!Ptrs] /\ cptr \in [Procs -> L!Ptrs]
           /\ yptr \in [Procs -> L!Ptrs] /\ optr \in [Procs -> L!Ptrs]
           /\ L!Live \subseteq Procs /\ L!Ptrs = Procs \cup {NULL}
           /\ Idle \in L!Live /\ Initproc \in L!Live
           /\ \A p \in Procs : parent[p] \in L!Live \cup {NULL}
           /\ \A p \in Procs : cptr[p] \in L!Live \cup {NULL}
           /\ \A p \in Procs : yptr[p] \in L!Live \cup {NULL}
           /\ \A p \in Procs : optr[p] \in L!Live \cup {NULL}
           /\ \A p \in Procs : p \in L!Live <=> p = Idle \/ parent[p] # NULL
           /\ zombie \subseteq L!Live \ {Idle, Initproc} /\ leaving \in zombie \cup {NULL}
           /\ parent[Idle] = NULL /\ parent[Initproc] = Idle
  BY ListsAssumption DEF L!LinksInv, L!Pointers, L!Live, L!Ptrs

LEMMA SetLinksStep ==
    ASSUME L!LinksInv, NEW p \in Procs, NEW child \in Procs, L!SetLinks(p, child)
    PROVE  /\ L!LinksInv'
           /\ p \in L!Live /\ p # Idle /\ child \notin L!Live
           /\ \A q \in Procs :
                /\ optr'[q] = IF q = child THEN cptr[p] ELSE optr[q]
                /\ cptr'[q] = IF q = p THEN child ELSE IF q = child THEN NULL ELSE cptr[q]
  <1> USE ListsAssumption
  <1> DEFINE old == cptr[p]
  <1>1. /\ leaving = NULL /\ p \in L!Live \ zombie /\ p # Idle /\ child \notin L!Live
        /\ parent' = L!Store(parent, child, p)
        /\ optr' = L!Store(optr, child, old)
        /\ yptr' = L!Store(L!Store(yptr, child, NULL), old, child)
        /\ cptr' = L!Store(L!Store(cptr, child, NULL), p, child)
        /\ zombie' = zombie /\ leaving' = leaving
    BY DEF L!SetLinks
  <1>2. /\ parent \in [Procs -> L!Ptrs] /\ cptr \in [Procs -> L!Ptrs]
        /\ yptr \in [Procs -> L!Ptrs] /\ optr \in [Procs -> L!Ptrs]
        /\ L!Live \subseteq Procs /\ L!Ptrs = Procs \cup {NULL}
        /\ Idle \in L!Live /\ Initproc \in L!Live
        /\ \A q \in Procs : parent[q] \in L!Live \cup {NULL}
        /\ \A q \in Procs : cptr[q] \in L!Live \cup {NULL}
        /\ \A q \in Procs : yptr[q] \in L!Live \cup {NULL}
        /\ \A q \in Procs : optr[q] \in L!Live \cup {NULL}
        /\ \A q \in Procs : q \in L!Live <=> q = Idle \/ parent[q] # NULL
        /\ zombie \subseteq L!Live \ {Idle, Initproc} /\ leaving \in zombie \cup {NULL}
        /\ parent[Idle] = NULL /\ parent[Initproc] = Idle
    BY PointerFacts
  <1>3. /\ parent' \in [Procs -> L!Ptrs] /\ cptr' \in [Procs -> L!Ptrs]
        /\ yptr' \in [Procs -> L!Ptrs] /\ optr' \in [Procs -> L!Ptrs]
        /\ \A q \in Procs :
             /\ parent'[q] = IF q = child THEN p ELSE parent[q]
             /\ optr'[q] = IF q = child THEN old ELSE optr[q]
             /\ yptr'[q] = IF q = old THEN child ELSE IF q = child THEN NULL ELSE yptr[q]
             /\ cptr'[q] = IF q = p THEN child ELSE IF q = child THEN NULL ELSE cptr[q]
    <2>1. child \in L!Ptrs /\ NULL \in L!Ptrs /\ old \in L!Ptrs /\ p \in L!Ptrs
      BY <1>2
    <2>2. /\ L!Store(yptr, child, NULL) \in [Procs -> L!Ptrs]
          /\ L!Store(cptr, child, NULL) \in [Procs -> L!Ptrs]
          /\ \A q \in Procs :
               /\ L!Store(yptr, child, NULL)[q] = IF q = child THEN NULL ELSE yptr[q]
               /\ L!Store(cptr, child, NULL)[q] = IF q = child THEN NULL ELSE cptr[q]
      BY <1>2, <2>1, StoreFacts
    <2> QED BY <1>1, <1>2, <2>1, <2>2, StoreFacts
  <1>4. L!Live' = L!Live \cup {child}
    BY <1>1, <1>2, <1>3 DEF L!Live
  <1>5. L!Pointers'
    <2>1. \A q \in Procs : /\ parent'[q] \in L!Live' \cup {NULL}
                           /\ cptr'[q] \in L!Live' \cup {NULL}
                           /\ yptr'[q] \in L!Live' \cup {NULL}
                           /\ optr'[q] \in L!Live' \cup {NULL}
      BY <1>1, <1>2, <1>3, <1>4
    <2>2. zombie' \subseteq L!Live' \ {Idle, Initproc} /\ leaving' \in zombie' \cup {NULL}
      BY <1>1, <1>2, <1>4
    <2>3. parent'[Idle] = NULL /\ parent'[Initproc] = Idle
      BY <1>1, <1>2, <1>3
    <2> QED BY <1>3, <2>1, <2>2, <2>3 DEF L!Pointers, L!Ptrs
  <1>6. L!NoLooseEnds'
    <2>1. L!NoLooseEnds /\ L!Siblings
      BY DEF L!LinksInv
    <2>2. old # NULL => parent[old] = p /\ old \in Procs
      BY <1>1, <1>2, <2>1 DEF L!Siblings
    <2>3. ASSUME NEW q \in Procs, parent'[q] = NULL PROVE optr'[q] = NULL /\ yptr'[q] = NULL
      <3>1. q # child /\ parent[q] = NULL
        BY <1>1, <1>2, <1>3, <2>3
      <3>2. q # old
        BY <1>1, <1>2, <2>2, <3>1
      <3>3. optr[q] = NULL /\ yptr[q] = NULL
        BY <2>1, <3>1 DEF L!NoLooseEnds
      <3> QED BY <1>3, <3>1, <3>2, <3>3
    <2>4. ASSUME NEW q \in (Procs \ L!Live') \cup (zombie' \ {leaving'})
          PROVE  cptr'[q] = NULL
      <3>1. q \in Procs /\ q # p /\ q \in (Procs \ L!Live) \cup (zombie \ {leaving})
        BY <1>1, <1>2, <1>4
      <3>2. cptr[q] = NULL
        BY <2>1, <3>1 DEF L!NoLooseEnds
      <3> QED BY <1>3, <3>1, <3>2
    <2> QED BY <2>3, <2>4 DEF L!NoLooseEnds
  <1>7. L!Siblings'
    <2>1. L!Siblings
      BY DEF L!LinksInv
    <2>2. \A q \in Procs : /\ optr[q] # child /\ cptr[q] # child /\ yptr[q] # child
                           /\ parent[q] # child
      BY <1>1, <1>2
    <2>3. ASSUME NEW q \in Procs, optr'[q] # NULL
          PROVE  parent'[optr'[q]] = parent'[q] /\ yptr'[optr'[q]] = q
      <3>1. CASE q = child
        BY <1>1, <1>2, <1>3, <2>1, <2>2, <2>3, <3>1 DEF L!Siblings
      <3>2. CASE q # child
        <4>1. optr'[q] = optr[q] /\ optr[q] \in L!Live /\ optr[q] \in Procs
          BY <1>2, <1>3, <2>3, <3>2
        <4>2. optr[q] # old /\ optr[q] # child
          BY <1>2, <2>1, <2>2, <2>3, <4>1 DEF L!Siblings
        <4>3. parent[optr[q]] = parent[q] /\ yptr[optr[q]] = q
          BY <2>1, <2>3, <4>1 DEF L!Siblings
        <4> QED BY <1>3, <3>2, <4>1, <4>2, <4>3
      <3> QED BY <3>1, <3>2
    <2>4. \A q \in Procs : cptr'[q] # NULL =>
             parent'[cptr'[q]] = q /\ \A r \in Procs : optr'[r] # cptr'[q]
      BY <1>1, <1>2, <1>3, <2>1, <2>2 DEF L!Siblings
    <2>5. \A q \in Procs : parent'[q] # NULL /\ cptr'[parent'[q]] # q =>
             yptr'[q] # NULL /\ optr'[yptr'[q]] = q
      BY <1>1, <1>2, <1>3, <2>1, <2>2 DEF L!Siblings
    <2>6. \A q \in Procs : parent'[q] # leaving' /\ yptr'[q] # NULL => optr'[yptr'[q]] = q
      BY <1>1, <1>2, <1>3, <2>1, <2>2 DEF L!Siblings
    <2> QED BY <2>3, <2>4, <2>5, <2>6 DEF L!Siblings
  <1>8. L!NoSiblingCycle'
    <2> SUFFICES ASSUME NEW S \in SUBSET Procs, S # {}
                 PROVE  \E q \in S : \A r \in S : optr'[r] # q
      BY DEF L!NoSiblingCycle
    <2>1. CASE child \in S
      BY <1>1, <1>2, <1>3, <2>1
    <2>2. CASE child \notin S
      BY <1>3, <2>2 DEF L!LinksInv, L!NoSiblingCycle
    <2> QED BY <2>1, <2>2
  <1> QED BY <1>1, <1>3, <1>5, <1>6, <1>7, <1>8 DEF L!LinksInv

\* A process that heads no list has no children: going from a child to younger
\* and younger siblings would never end.
LEMMA NoHeadNoChildren ==
    ASSUME L!LinksInv, NEW x \in Procs, cptr[x] = NULL
    PROVE  \A p \in Procs : parent[p] # x
  <1> USE ListsAssumption
  <1> DEFINE S == {p \in Procs : parent[p] = x}
  <1> SUFFICES ASSUME S # {} PROVE FALSE
    OBVIOUS
  <1>1. L!Siblings /\ L!NoSiblingCycle
    BY DEF L!LinksInv
  <1>2. PICK p \in S : \A q \in S : optr[q] # p
    BY <1>1 DEF L!NoSiblingCycle
  <1>3. yptr[p] \in Procs /\ optr[yptr[p]] = p
    <2>1. parent[p] # NULL /\ cptr[parent[p]] # p /\ p # NULL
      OBVIOUS
    <2>2. yptr[p] # NULL /\ optr[yptr[p]] = p
      BY <1>1, <2>1 DEF L!Siblings
    <2> QED BY <2>2, PointerFacts
  <1>4. yptr[p] \in S
    BY <1>1, <1>3 DEF L!Siblings
  <1> QED BY <1>2, <1>3, <1>4

LEMMA RemoveLinksStep ==
    ASSUME L!LinksInv, NEW z \in Procs, L!RemoveLinks(z)
    PROVE  /\ L!LinksInv'
           /\ cptr[z] = NULL /\ parent[z] \in Procs /\ parent[z] # z /\ z # Initproc
           /\ yptr[z] = NULL <=> cptr[parent[z]] = z
           /\ \A q \in Procs : optr[q] = z => q = yptr[z]
           /\ \A q \in Procs :
                /\ optr'[q] = IF q = z THEN NULL ELSE IF q = yptr[z] THEN optr[z] ELSE optr[q]
                /\ cptr'[q] = IF q = z THEN NULL
                              ELSE IF yptr[z] = NULL /\ q = parent[z] THEN optr[z] ELSE cptr[q]
  <1> USE ListsAssumption
  <1>1. PICK o \in L!Ptrs, y \in L!Ptrs, p \in L!Ptrs :
            o = optr[z] /\ y = yptr[z] /\ p = parent[z]
    BY PointerFacts
  <1>2. /\ parent \in [Procs -> L!Ptrs] /\ cptr \in [Procs -> L!Ptrs]
        /\ yptr \in [Procs -> L!Ptrs] /\ optr \in [Procs -> L!Ptrs]
        /\ L!Live \subseteq Procs /\ L!Ptrs = Procs \cup {NULL}
        /\ Idle \in L!Live /\ Initproc \in L!Live
        /\ \A q \in Procs : parent[q] \in L!Live \cup {NULL}
        /\ \A q \in Procs : cptr[q] \in L!Live \cup {NULL}
        /\ \A q \in Procs : yptr[q] \in L!Live \cup {NULL}
        /\ \A q \in Procs : optr[q] \in L!Live \cup {NULL}
        /\ \A q \in Procs : q \in L!Live <=> q = Idle \/ parent[q] # NULL
        /\ zombie \subseteq L!Live \ {Idle, Initproc} /\ leaving \in zombie \cup {NULL}
        /\ parent[Idle] = NULL /\ parent[Initproc] = Idle
    BY PointerFacts
  <1>3. /\ leaving = NULL /\ leaving' = NULL
        /\ z \in zombie /\ zombie' = zombie \ {z}
        /\ z \in L!Live /\ z # Idle /\ z # Initproc
        /\ p \in L!Live /\ p # NULL /\ z # NULL
    BY <1>1, <1>2 DEF L!RemoveLinks
  <1>4. L!NoLooseEnds /\ L!Siblings /\ L!NoSiblingCycle
    BY DEF L!LinksInv
  \* What is known of the process that goes and of its neighbours.
  <1>5. /\ cptr[z] = NULL /\ \A q \in Procs : parent[q] # z
        /\ p # z
    <2>1. cptr[z] = NULL
      BY <1>3, <1>4 DEF L!NoLooseEnds
    <2> QED BY <1>1, <2>1, NoHeadNoChildren
  <1>6. \A q \in Procs : optr[q] = z => q = y
    BY <1>1, <1>3, <1>4 DEF L!Siblings
  <1>7. y # NULL => /\ y \in L!Live /\ optr[y] = z /\ parent[y] = p
    BY <1>1, <1>2, <1>3, <1>4 DEF L!Siblings
  <1>8. o # NULL => /\ o \in L!Live /\ yptr[o] = z /\ parent[o] = p
    BY <1>1, <1>2, <1>3, <1>4 DEF L!Siblings
  <1>9. o # z /\ y # z
    <2>1. optr[z] # z
      <3>1. {z} \in SUBSET Procs /\ {z} # {}
        OBVIOUS
      <3>2. \E q \in {z} : \A r \in {z} : optr[r] # q
        BY <1>4, <3>1 DEF L!NoSiblingCycle
      <3> QED BY <3>2
    <2> QED BY <1>1, <1>3, <1>7, <2>1
  <1>10. \A q \in Procs : yptr[q] = z => q = o
    <2> SUFFICES ASSUME NEW q \in Procs, yptr[q] = z PROVE q = o
      OBVIOUS
    <2>1. parent[q] # NULL
      BY <1>3, <1>4 DEF L!NoLooseEnds
    <2> QED BY <1>1, <1>3, <1>4, <2>1 DEF L!Siblings
  <1>11. y = NULL <=> cptr[p] = z
    <2>1. cptr[p] = z => y = NULL
      BY <1>2, <1>3, <1>4, <1>7 DEF L!Siblings
    <2>2. cptr[p] # z => y # NULL
      BY <1>1, <1>3, <1>4 DEF L!Siblings
    <2> QED BY <2>1, <2>2
  <1>12. \A q \in Procs : cptr[q] = z => q = p
    BY <1>1, <1>3, <1>4 DEF L!Siblings
  \* The pointers after the step.
  <1>13. /\ parent' \in [Procs -> L!Ptrs] /\ cptr' \in [Procs -> L!Ptrs]
         /\ yptr' \in [Procs -> L!Ptrs] /\ optr' \in [Procs -> L!Ptrs]
         /\ \A q \in Procs :
              /\ parent'[q] = IF q = z THEN NULL ELSE parent[q]
              /\ optr'[q] = IF q = z THEN NULL ELSE IF q = y THEN o ELSE optr[q]
              /\ yptr'[q] = IF q = z THEN NULL ELSE IF q = o THEN y ELSE yptr[q]
              /\ cptr'[q] = IF q = z THEN NULL
                             ELSE IF y = NULL /\ q = p THEN o ELSE cptr[q]
    <2>1. /\ yptr' = L!Store(L!Store(yptr, o, y), z, NULL)
          /\ optr' = L!Store(L!Store(optr, y, o), z, NULL)
          /\ cptr' = L!Store(L!CptrWithout(z), z, NULL)
          /\ parent' = L!Store(parent, z, NULL)
      BY <1>1 DEF L!RemoveLinks
    <2>2. /\ L!Store(yptr, o, y) \in [Procs -> L!Ptrs]
          /\ L!Store(optr, y, o) \in [Procs -> L!Ptrs]
          /\ \A q \in Procs :
               /\ L!Store(yptr, o, y)[q] = IF q = o THEN y ELSE yptr[q]
               /\ L!Store(optr, y, o)[q] = IF q = y THEN o ELSE optr[q]
      BY <1>2, StoreFacts
    <2>3. /\ L!CptrWithout(z) \in [Procs -> L!Ptrs]
          /\ \A q \in Procs :
               L!CptrWithout(z)[q] = IF y = NULL /\ q = p THEN o ELSE cptr[q]
      <3>1. CASE y = NULL
        <4>1. L!CptrWithout(z) = L!Store(cptr, p, o)
          BY <1>1, <3>1 DEF L!CptrWithout
        <4> QED BY <1>2, <3>1, <4>1, StoreFacts
      <3>2. CASE y # NULL
        BY <1>1, <1>2, <3>2 DEF L!CptrWithout
      <3> QED BY <3>1, <3>2
    <2>4. NULL \in L!Ptrs
      BY <1>2
    <2>5. /\ yptr' \in [Procs -> L!Ptrs]
          /\ \A q \in Procs : yptr'[q] = IF q = z THEN NULL ELSE L!Store(yptr, o, y)[q]
      BY <2>1, <2>2, <2>4, StoreFacts
    <2>6. /\ optr' \in [Procs -> L!Ptrs]
          /\ \A q \in Procs : optr'[q] = IF q = z THEN NULL ELSE L!Store(optr, y, o)[q]
      BY <2>1, <2>2, <2>4, StoreFacts
    <2>7. /\ cptr' \in [Procs -> L!Ptrs]
          /\ \A q \in Procs : cptr'[q] = IF q = z THEN NULL ELSE L!CptrWithout(z)[q]
      BY <2>1, <2>3, <2>4, StoreFacts
    <2>8. /\ parent' \in [Procs -> L!Ptrs]
          /\ \A q \in Procs : parent'[q] = IF q = z THEN NULL ELSE parent[q]
      BY <1>2, <2>1, <2>4, StoreFacts
    <2> QED BY <2>2, <2>3, <2>5, <2>6, <2>7, <2>8
  <1>14. L!Live' = L!Live \ {z}
    BY <1>2, <1>3, <1>13 DEF L!Live
  <1>15. L!Pointers'
    <2>1. ASSUME NEW q \in Procs
          PROVE  /\ parent'[q] \in L!Live' \cup {NULL}
                 /\ cptr'[q] \in L!Live' \cup {NULL}
                 /\ yptr'[q] \in L!Live' \cup {NULL}
                 /\ optr'[q] \in L!Live' \cup {NULL}
      <3>1. parent'[q] \in L!Live' \cup {NULL}
        BY <1>2, <1>5, <1>13, <1>14
      <3>2. cptr'[q] \in L!Live' \cup {NULL}
        BY <1>2, <1>8, <1>9, <1>11, <1>12, <1>13, <1>14
      <3>3. yptr'[q] \in L!Live' \cup {NULL}
        BY <1>2, <1>7, <1>9, <1>10, <1>13, <1>14
      <3>4. optr'[q] \in L!Live' \cup {NULL}
        BY <1>2, <1>6, <1>8, <1>9, <1>13, <1>14
      <3> QED BY <3>1, <3>2, <3>3, <3>4
    <2>2. zombie' \subseteq L!Live' \ {Idle, Initproc} /\ leaving' \in zombie' \cup {NULL}
      BY <1>2, <1>3, <1>14
    <2>3. parent'[Idle] = NULL /\ parent'[Initproc] = Idle
      BY <1>2, <1>3, <1>13
    <2> QED BY <1>13, <2>1, <2>2, <2>3 DEF L!Pointers, L!Ptrs
  <1>16. L!NoLooseEnds'
    <2>1. ASSUME NEW q \in Procs, parent'[q] = NULL PROVE optr'[q] = NULL /\ yptr'[q] = NULL
      <3>1. CASE q = z
        BY <1>13, <3>1
      <3>2. CASE q # z
        <4>1. parent[q] = NULL /\ q # o /\ q # y
          BY <1>3, <1>7, <1>8, <1>13, <2>1, <3>2, ListsAssumption
        <4>2. optr[q] = NULL /\ yptr[q] = NULL
          BY <1>4, <4>1 DEF L!NoLooseEnds
        <4> QED BY <1>13, <3>2, <4>1, <4>2
      <3> QED BY <3>1, <3>2
    <2>2. ASSUME NEW q \in (Procs \ L!Live') \cup (zombie' \ {leaving'})
          PROVE  cptr'[q] = NULL
      <3>1. CASE q = z
        BY <1>13, <3>1
      <3>2. CASE q # z
        <4>1. q \in Procs /\ q \in (Procs \ L!Live) \cup (zombie \ {leaving})
          BY <1>2, <1>3, <1>14, <3>2
        <4>2. cptr[q] = NULL
          BY <1>4, <4>1 DEF L!NoLooseEnds
        <4> QED BY <1>3, <1>11, <1>13, <3>2, <4>1, <4>2
      <3> QED BY <3>1, <3>2
    <2> QED BY <2>1, <2>2 DEF L!NoLooseEnds
  <1>17. L!Siblings'
    <2>1. ASSUME NEW q \in Procs, optr'[q] # NULL
          PROVE  parent'[optr'[q]] = parent'[q] /\ yptr'[optr'[q]] = q
      <3>1. q # z
        BY <1>13, <2>1
      <3>2. CASE q = y
        BY <1>2, <1>7, <1>8, <1>9, <1>13, <2>1, <3>1, <3>2
      <3>3. CASE q # y
        <4>1. PICK s \in Procs : s = optr[q] /\ optr'[q] = s
          BY <1>2, <1>13, <2>1, <3>1, <3>3
        <4>2. parent[s] = parent[q] /\ yptr[s] = q
          BY <1>4, <4>1 DEF L!Siblings
        <4>3. s # z /\ s # o
          BY <1>6, <1>8, <3>1, <3>3, <4>1, <4>2
        <4> QED BY <1>13, <3>1, <4>1, <4>2, <4>3
      <3> QED BY <3>2, <3>3
    <2>2. ASSUME NEW q \in Procs, cptr'[q] # NULL
          PROVE  parent'[cptr'[q]] = q /\ \A r \in Procs : optr'[r] # cptr'[q]
      <3>1. q # z
        BY <1>13, <2>2
      <3>2. CASE y = NULL /\ q = p
        <4>1. cptr'[q] = o /\ o \in Procs /\ parent'[o] = p
          BY <1>2, <1>8, <1>9, <1>13, <2>2, <3>1, <3>2
        <4>2. ASSUME NEW r \in Procs, optr'[r] = o PROVE FALSE
          <5>1. r # z /\ r # y /\ optr[r] = o
            BY <1>2, <1>13, <3>2, <4>1, <4>2
          <5>2. yptr[o] = r
            BY <1>4, <4>1, <5>1 DEF L!Siblings
          <5> QED BY <1>8, <4>1, <5>1, <5>2
        <4> QED BY <3>2, <4>1, <4>2
      <3>3. CASE ~(y = NULL /\ q = p)
        <4>1. PICK c \in Procs : c = cptr[q] /\ cptr'[q] = c
          BY <1>2, <1>13, <2>2, <3>1, <3>3
        <4>2. c # z
          BY <1>11, <1>12, <3>3, <4>1
        <4>3. parent[c] = q /\ \A r \in Procs : optr[r] # c
          BY <1>4, <4>1 DEF L!Siblings
        <4>4. \A r \in Procs : optr'[r] # c
          BY <1>1, <1>13, <4>3
        <4> QED BY <1>13, <4>1, <4>2, <4>3, <4>4
      <3> QED BY <3>2, <3>3
    <2>3. ASSUME NEW q \in Procs, q # z, q # o, yptr[q] # NULL, optr[yptr[q]] = q
          PROVE  yptr'[q] # NULL /\ optr'[yptr'[q]] = q
      <3>1. PICK w \in Procs : w = yptr[q] /\ yptr'[q] = w
        BY <1>2, <1>13, <2>3
      <3>2. w # z /\ w # y
        BY <1>7, <1>10, <2>3, <3>1
      <3> QED BY <1>13, <2>3, <3>1, <3>2
    <2>4. o # NULL /\ y # NULL => yptr'[o] = y /\ optr'[y] = o
      BY <1>2, <1>7, <1>8, <1>9, <1>13
    <2>5. ASSUME NEW q \in Procs, parent'[q] # NULL, cptr'[parent'[q]] # q
          PROVE  yptr'[q] # NULL /\ optr'[yptr'[q]] = q
      <3>1. q # z /\ parent[q] # NULL /\ parent'[q] = parent[q] /\ parent[q] \in Procs
            /\ parent[q] # z
        BY <1>2, <1>5, <1>13, <2>5
      <3>2. CASE q = o
        <4>1. y # NULL
          BY <1>3, <1>5, <1>8, <1>13, <2>5, <3>1, <3>2
        <4> QED BY <2>4, <3>2, <4>1
      <3>3. CASE q # o
        <4>1. cptr[parent[q]] # q
          BY <1>11, <1>13, <2>5, <3>1
        <4>2. yptr[q] # NULL /\ optr[yptr[q]] = q
          BY <1>4, <3>1, <4>1 DEF L!Siblings
        <4> QED BY <2>3, <3>1, <3>3, <4>2
      <3> QED BY <3>2, <3>3
    <2>6. ASSUME NEW q \in Procs, parent'[q] # leaving', yptr'[q] # NULL
          PROVE  optr'[yptr'[q]] = q
      <3>1. q # z /\ parent[q] # NULL
        BY <1>3, <1>13, <2>6
      <3>2. CASE q = o
        BY <1>13, <2>4, <2>6, <3>1, <3>2
      <3>3. CASE q # o
        <4>1. yptr[q] # NULL
          BY <1>13, <2>6, <3>1, <3>3
        <4>2. optr[yptr[q]] = q
          BY <1>3, <1>4, <3>1, <4>1 DEF L!Siblings
        <4> QED BY <2>3, <3>1, <3>3, <4>1, <4>2
      <3> QED BY <3>2, <3>3
    <2> QED BY <2>1, <2>2, <2>5, <2>6 DEF L!Siblings
  <1>18. L!NoSiblingCycle'
    <2> SUFFICES ASSUME NEW S \in SUBSET Procs, S # {}
                 PROVE  \E q \in S : \A r \in S : optr'[r] # q
      BY DEF L!NoSiblingCycle
    <2>1. CASE z \in S
      BY <1>6, <1>9, <1>13, <2>1
    <2>2. CASE z \notin S
      <3>1. PICK m \in S \cup {z} : \A r \in S \cup {z} : optr[r] # m
        BY <1>4 DEF L!NoSiblingCycle
      <3>2. CASE m # z
        BY <1>1, <1>13, <2>2, <3>1, <3>2
      <3>3. CASE m = z
        <4>1. y \notin S
          BY <1>2, <1>7, <3>1, <3>3
        <4>2. \A r \in S : optr'[r] = optr[r]
          BY <1>13, <2>2, <4>1
        <4> QED BY <1>4, <4>2 DEF L!NoSiblingCycle
      <3> QED BY <3>2, <3>3
    <2> QED BY <2>1, <2>2
  <1>19. L!LinksInv'
    BY <1>15, <1>16, <1>17, <1>18 DEF L!LinksInv
  <1>20. parent[z] \in Procs
    BY <1>1, <1>2, <1>3
  <1> QED BY <1>1, <1>3, <1>5, <1>6, <1>11, <1>13, <1>19, <1>20

LEMMA StartExitStep ==
    ASSUME L!LinksInv, NEW p \in Procs, L!StartExit(p)
    PROVE  L!LinksInv'
  <1> USE ListsAssumption
  <1>1. /\ leaving = NULL /\ p \in L!Live \ (zombie \cup {Idle, Initproc})
        /\ zombie' = zombie \cup {p} /\ leaving' = p
        /\ parent' = parent /\ cptr' = cptr /\ yptr' = yptr /\ optr' = optr
    BY DEF L!StartExit
  <1>2. L!Live' = L!Live
    BY <1>1 DEF L!Live
  <1>3. L!Pointers'
    BY <1>1, <1>2 DEF L!LinksInv, L!Pointers
  <1>4. L!NoLooseEnds'
    <2>1. zombie' \ {leaving'} = zombie \ {leaving}
      BY <1>1, PointerFacts
    <2> QED BY <1>1, <1>2, <2>1 DEF L!LinksInv, L!NoLooseEnds
  <1>5. L!Siblings'
    <2>1. L!Siblings /\ L!NoLooseEnds
      BY DEF L!LinksInv
    <2>2. \A q \in Procs : yptr[q] # NULL => parent[q] # leaving
      BY <1>1, <2>1 DEF L!NoLooseEnds
    <2>3. \A q \in Procs : yptr[q] # NULL => optr[yptr[q]] = q
      BY <2>1, <2>2 DEF L!Siblings
    <2> QED BY <1>1, <2>1, <2>3 DEF L!Siblings
  <1>6. L!NoSiblingCycle'
    BY <1>1 DEF L!LinksInv, L!NoSiblingCycle
  <1> QED BY <1>3, <1>4, <1>5, <1>6 DEF L!LinksInv

LEMMA EndExitStep ==
    ASSUME L!LinksInv, L!EndExit
    PROVE  L!LinksInv'
  <1> USE ListsAssumption
  <1>1. /\ leaving \in zombie /\ cptr[leaving] = NULL /\ leaving' = NULL /\ zombie' = zombie
        /\ parent' = parent /\ cptr' = cptr /\ yptr' = yptr /\ optr' = optr
    BY PointerFacts DEF L!EndExit
  <1>2. L!Live' = L!Live
    BY <1>1 DEF L!Live
  <1>3. L!Pointers'
    BY <1>1, <1>2 DEF L!LinksInv, L!Pointers
  <1>4. L!NoLooseEnds'
    <2>1. L!NoLooseEnds
      BY DEF L!LinksInv
    <2> QED BY <1>1, <1>2, <2>1 DEF L!NoLooseEnds
  <1>5. L!Siblings'
    <2>1. L!Siblings /\ L!NoLooseEnds
      BY DEF L!LinksInv
    <2>2. \A q \in Procs : parent[q] # leaving
      BY <1>1, NoHeadNoChildren, PointerFacts
    <2>3. \A q \in Procs : yptr[q] # NULL => optr[yptr[q]] = q
      BY <2>1, <2>2 DEF L!Siblings
    <2> QED BY <1>1, <2>1, <2>3 DEF L!Siblings
  <1>6. L!NoSiblingCycle'
    BY <1>1 DEF L!LinksInv, L!NoSiblingCycle
  <1> QED BY <1>3, <1>4, <1>5, <1>6 DEF L!LinksInv

LEMMA AdoptChildStep ==
    ASSUME L!LinksInv, L!AdoptChild
    PROVE  /\ L!LinksInv'
           /\ leaving \in Procs \ {Idle, Initproc}
           /\ cptr[leaving] \in Procs /\ parent[cptr[leaving]] = leaving
           /\ \A q \in Procs :
                /\ optr'[q] = IF q = cptr[leaving] THEN cptr[Initproc] ELSE optr[q]
                /\ cptr'[q] = IF q = Initproc THEN cptr[leaving]
                              ELSE IF q = leaving THEN optr[cptr[leaving]] ELSE cptr[q]
  <1> USE ListsAssumption
  <1>1. leaving # NULL /\ cptr[leaving] # NULL
    BY DEF L!AdoptChild
  <1>2. /\ parent \in [Procs -> L!Ptrs] /\ cptr \in [Procs -> L!Ptrs]
        /\ yptr \in [Procs -> L!Ptrs] /\ optr \in [Procs -> L!Ptrs]
        /\ L!Live \subseteq Procs /\ L!Ptrs = Procs \cup {NULL}
        /\ Idle \in L!Live /\ Initproc \in L!Live
        /\ \A q \in Procs : parent[q] \in L!Live \cup {NULL}
        /\ \A q \in Procs : cptr[q] \in L!Live \cup {NULL}
        /\ \A q \in Procs : yptr[q] \in L!Live \cup {NULL}
        /\ \A q \in Procs : optr[q] \in L!Live \cup {NULL}
        /\ \A q \in Procs : q \in L!Live <=> q = Idle \/ parent[q] # NULL
        /\ zombie \subseteq L!Live \ {Idle, Initproc} /\ leaving \in zombie \cup {NULL}
        /\ parent[Idle] = NULL /\ parent[Initproc] = Idle
    BY PointerFacts
  <1>3. PICK x \in Procs : x = leaving /\ x \in zombie /\ x # Initproc /\ x # Idle
    BY <1>1, <1>2
  <1>4. PICK c \in Procs, h \in L!Ptrs : c = cptr[x] /\ h = cptr[Initproc]
    BY <1>1, <1>2, <1>3
  <1>5. PICK s \in L!Ptrs : s = optr[c]
    BY <1>2
  <1>6. L!NoLooseEnds /\ L!Siblings /\ L!NoSiblingCycle
    BY DEF L!LinksInv
  \* What is known of the child that moves and of its neighbours.
  <1>7. c # NULL /\ parent[c] = x /\ \A q \in Procs : optr[q] # c
    BY <1>4, <1>6 DEF L!Siblings
  <1>8. h # NULL => /\ h \in L!Live /\ parent[h] = Initproc
                    /\ \A q \in Procs : optr[q] # h
    BY <1>2, <1>4, <1>6 DEF L!Siblings
  <1>9. c # h /\ c # Initproc /\ c # Idle
    BY <1>2, <1>3, <1>7, <1>8
  <1>10. s # NULL => /\ s \in L!Live /\ parent[s] = x /\ yptr[s] = c /\ s # c
    BY <1>2, <1>5, <1>6, <1>7 DEF L!Siblings
  \* The pointers after the step.
  <1>11. /\ parent' \in [Procs -> L!Ptrs] /\ cptr' \in [Procs -> L!Ptrs]
         /\ yptr' \in [Procs -> L!Ptrs] /\ optr' \in [Procs -> L!Ptrs]
         /\ \A q \in Procs :
              /\ parent'[q] = IF q = c THEN Initproc ELSE parent[q]
              /\ optr'[q] = IF q = c THEN h ELSE optr[q]
              /\ yptr'[q] = IF q = h THEN c ELSE IF q = c THEN NULL ELSE yptr[q]
              /\ cptr'[q] = IF q = Initproc THEN c ELSE IF q = x THEN s ELSE cptr[q]
    <2>1. /\ cptr' = L!Store(L!Store(cptr, x, s), Initproc, c)
          /\ yptr' = L!Store(L!Store(yptr, c, NULL), h, c)
          /\ optr' = L!Store(optr, c, h)
          /\ parent' = L!Store(parent, c, Initproc)
      BY <1>3, <1>4, <1>5 DEF L!AdoptChild, L!AdoptedYptr
    <2>2. NULL \in L!Ptrs /\ c \in L!Ptrs /\ Initproc \in L!Ptrs
      BY <1>2
    <2>3. /\ L!Store(cptr, x, s) \in [Procs -> L!Ptrs]
          /\ L!Store(yptr, c, NULL) \in [Procs -> L!Ptrs]
          /\ \A q \in Procs :
               /\ L!Store(cptr, x, s)[q] = IF q = x THEN s ELSE cptr[q]
               /\ L!Store(yptr, c, NULL)[q] = IF q = c THEN NULL ELSE yptr[q]
      BY <1>2, <2>2, StoreFacts
    <2>4. /\ cptr' \in [Procs -> L!Ptrs]
          /\ \A q \in Procs : cptr'[q] = IF q = Initproc THEN c ELSE L!Store(cptr, x, s)[q]
      BY <2>1, <2>2, <2>3, StoreFacts
    <2>5. /\ yptr' \in [Procs -> L!Ptrs]
          /\ \A q \in Procs : yptr'[q] = IF q = h THEN c ELSE L!Store(yptr, c, NULL)[q]
      BY <2>1, <2>2, <2>3, StoreFacts
    <2>6. /\ optr' \in [Procs -> L!Ptrs] /\ parent' \in [Procs -> L!Ptrs]
          /\ \A q \in Procs : /\ optr'[q] = IF q = c THEN h ELSE optr[q]
                              /\ parent'[q] = IF q = c THEN Initproc ELSE parent[q]
      BY <1>2, <2>1, <2>2, StoreFacts
    <2> QED BY <2>3, <2>4, <2>5, <2>6
  <1>12. zombie' = zombie /\ leaving' = x
    BY <1>3 DEF L!AdoptChild
  <1>13. L!Live' = L!Live
    BY <1>2, <1>7, <1>9, <1>11 DEF L!Live
  <1>14. L!Pointers'
    <2>1. ASSUME NEW q \in Procs
          PROVE  /\ parent'[q] \in L!Live' \cup {NULL}
                 /\ cptr'[q] \in L!Live' \cup {NULL}
                 /\ yptr'[q] \in L!Live' \cup {NULL}
                 /\ optr'[q] \in L!Live' \cup {NULL}
      <3>1. c \in L!Live
        BY <1>2, <1>4, <1>7
      <3>2. parent'[q] \in L!Live' \cup {NULL} /\ cptr'[q] \in L!Live' \cup {NULL}
        BY <1>2, <1>10, <1>11, <1>13, <3>1
      <3>3. yptr'[q] \in L!Live' \cup {NULL} /\ optr'[q] \in L!Live' \cup {NULL}
        BY <1>2, <1>8, <1>11, <1>13, <3>1
      <3> QED BY <3>2, <3>3
    <2>2. zombie' \subseteq L!Live' \ {Idle, Initproc} /\ leaving' \in zombie' \cup {NULL}
      BY <1>2, <1>3, <1>12, <1>13
    <2>3. parent'[Idle] = NULL /\ parent'[Initproc] = Idle
      BY <1>2, <1>9, <1>11
    <2> QED BY <1>11, <2>1, <2>2, <2>3 DEF L!Pointers, L!Ptrs
  <1>15. L!NoLooseEnds'
    <2>1. ASSUME NEW q \in Procs, parent'[q] = NULL PROVE optr'[q] = NULL /\ yptr'[q] = NULL
      <3>1. q # c /\ parent[q] = NULL
        BY <1>11, <2>1
      <3>2. q # h
        BY <1>8, <3>1
      <3>3. optr[q] = NULL /\ yptr[q] = NULL
        BY <1>6, <3>1 DEF L!NoLooseEnds
      <3> QED BY <1>11, <3>1, <3>2, <3>3
    <2>2. ASSUME NEW q \in (Procs \ L!Live') \cup (zombie' \ {leaving'})
          PROVE  cptr'[q] = NULL
      <3>1. /\ q \in Procs /\ q \in (Procs \ L!Live) \cup (zombie \ {leaving})
            /\ q # Initproc /\ q # x
        BY <1>2, <1>3, <1>12, <1>13
      <3>2. cptr[q] = NULL
        BY <1>6, <3>1 DEF L!NoLooseEnds
      <3> QED BY <1>11, <3>1, <3>2
    <2> QED BY <2>1, <2>2 DEF L!NoLooseEnds
  <1>16. L!Siblings'
    <2>1. ASSUME NEW q \in Procs, optr'[q] # NULL
          PROVE  parent'[optr'[q]] = parent'[q] /\ yptr'[optr'[q]] = q
      <3>1. CASE q = c
        BY <1>2, <1>8, <1>9, <1>11, <2>1, <3>1
      <3>2. CASE q # c
        <4>1. PICK t \in Procs : t = optr[q] /\ optr'[q] = t
          BY <1>2, <1>11, <2>1, <3>2
        <4>2. parent[t] = parent[q] /\ yptr[t] = q /\ t # c /\ t # h
          BY <1>6, <1>7, <1>8, <4>1 DEF L!Siblings
        <4> QED BY <1>11, <3>2, <4>1, <4>2
      <3> QED BY <3>1, <3>2
    <2>2. ASSUME NEW q \in Procs, cptr'[q] # NULL
          PROVE  parent'[cptr'[q]] = q /\ \A r \in Procs : optr'[r] # cptr'[q]
      <3>1. CASE q = Initproc
        BY <1>7, <1>9, <1>11, <3>1
      <3>2. CASE q = x
        <4>1. cptr'[q] = s /\ s # NULL
          BY <1>3, <1>11, <2>2, <3>2
        <4>2. s # h
          BY <1>3, <1>8, <1>10, <4>1
        <4>3. \A r \in Procs : optr[r] = s => r = c
          BY <1>6, <1>10, <4>1 DEF L!Siblings
        <4>4. parent'[s] = x
          BY <1>2, <1>10, <1>11, <4>1
        <4> QED BY <1>11, <3>2, <4>1, <4>2, <4>3, <4>4
      <3>3. CASE q # Initproc /\ q # x
        <4>1. PICK t \in Procs : t = cptr[q] /\ cptr'[q] = t
          BY <1>2, <1>11, <2>2, <3>3
        <4>2. parent[t] = q /\ \A r \in Procs : optr[r] # t
          BY <1>6, <4>1 DEF L!Siblings
        <4>3. t # c /\ t # h
          BY <1>7, <1>8, <3>3, <4>2
        <4> QED BY <1>11, <4>1, <4>2, <4>3
      <3> QED BY <3>1, <3>2, <3>3
    <2>3. ASSUME NEW q \in Procs, q # c, q # h, q # s, yptr[q] # NULL, optr[yptr[q]] = q
          PROVE  yptr'[q] # NULL /\ optr'[yptr'[q]] = q
      <3>1. PICK w \in Procs : w = yptr[q] /\ yptr'[q] = w
        BY <1>2, <1>11, <2>3
      <3> QED BY <1>5, <1>11, <2>3, <3>1
    <2>4. h # NULL => yptr'[h] = c /\ optr'[c] = h
      BY <1>2, <1>8, <1>11
    <2>5. ASSUME NEW q \in Procs, parent'[q] # NULL, cptr'[parent'[q]] # q
          PROVE  yptr'[q] # NULL /\ optr'[yptr'[q]] = q
      <3>1. q # c /\ parent[q] # NULL /\ parent'[q] = parent[q] /\ parent[q] \in Procs
        BY <1>2, <1>11, <2>5
      <3>2. CASE q = h
        BY <1>7, <2>4, <3>2
      <3>3. CASE q # h
        <4>1. cptr[parent[q]] # q
          BY <1>4, <1>11, <2>5, <3>1, <3>3
        <4>2. yptr[q] # NULL /\ optr[yptr[q]] = q
          BY <1>6, <3>1, <4>1 DEF L!Siblings
        <4>3. q # s
          BY <1>3, <1>10, <1>11, <2>5, <3>1
        <4> QED BY <2>3, <3>1, <3>3, <4>2, <4>3
      <3> QED BY <3>2, <3>3
    <2>6. ASSUME NEW q \in Procs, parent'[q] # leaving', yptr'[q] # NULL
          PROVE  optr'[yptr'[q]] = q
      <3>1. q # c
        BY <1>9, <1>11, <2>6
      <3>2. CASE q = h
        BY <2>4, <2>6, <1>11, <3>2
      <3>3. CASE q # h
        <4>1. parent[q] # x /\ yptr[q] # NULL
          BY <1>11, <1>12, <2>6, <3>1, <3>3
        <4>2. optr[yptr[q]] = q
          BY <1>3, <1>6, <4>1 DEF L!Siblings
        <4>3. q # s
          BY <1>10, <4>1, ListsAssumption
        <4> QED BY <2>3, <3>1, <3>3, <4>1, <4>2, <4>3
      <3> QED BY <3>2, <3>3
    <2> QED BY <2>1, <2>2, <2>5, <2>6 DEF L!Siblings
  <1>17. L!NoSiblingCycle'
    <2> SUFFICES ASSUME NEW S \in SUBSET Procs, S # {}
                 PROVE  \E q \in S : \A r \in S : optr'[r] # q
      BY DEF L!NoSiblingCycle
    <2>1. CASE c \in S
      BY <1>7, <1>9, <1>11, <2>1
    <2>2. CASE c \notin S
      BY <1>6, <1>11, <2>2 DEF L!NoSiblingCycle
    <2> QED BY <2>1, <2>2
  <1>18. L!LinksInv'
    BY <1>14, <1>15, <1>16, <1>17 DEF L!LinksInv
  <1> QED BY <1>3, <1>4, <1>5, <1>7, <1>11, <1>18

\* LinksInv holds in every state, whichever of the three lists is exercised.
THEOREM LinksInvariant == ListsSpec => []L!LinksInv
  <1>1. ListsInit => L!LinksInv
    BY LinksInit DEF ListsInit
  <1>2. ASSUME L!LinksInv, L!Next PROVE L!LinksInv'
    <2>1. CASE \E p, child \in Procs : L!SetLinks(p, child)
      BY <1>2, <2>1, SetLinksStep
    <2>2. CASE \E z \in Procs : L!RemoveLinks(z)
      BY <1>2, <2>2, RemoveLinksStep
    <2>3. CASE \E p \in Procs : L!StartExit(p)
      BY <1>2, <2>3, StartExitStep
    <2>4. CASE L!AdoptChild
      BY <1>2, <2>4, AdoptChildStep
    <2>5. CASE L!EndExit
      BY <1>2, <2>5, EndExitStep
    <2> QED BY <1>2, <2>1, <2>2, <2>3, <2>4, <2>5 DEF L!Next
  <1>3. ASSUME L!LinksInv, UNCHANGED links PROVE L!LinksInv'
    <2>1. /\ parent' = parent /\ cptr' = cptr /\ yptr' = yptr /\ optr' = optr
          /\ zombie' = zombie /\ leaving' = leaving
      BY <1>3 DEF links
    <2>2. L!Live' = L!Live
      BY <2>1 DEF L!Live
    <2>3. L!Pointers'
      BY <1>3, <2>1, <2>2 DEF L!LinksInv, L!Pointers
    <2>4. L!NoLooseEnds'
      BY <1>3, <2>1, <2>2 DEF L!LinksInv, L!NoLooseEnds
    <2>5. L!Siblings'
      BY <1>3, <2>1 DEF L!LinksInv, L!Siblings
    <2>6. L!NoSiblingCycle'
      BY <1>3, <2>1 DEF L!LinksInv, L!NoSiblingCycle
    <2> QED BY <2>3, <2>4, <2>5, <2>6 DEF L!LinksInv
  <1>4. L!LinksInv /\ [ListsNext]_<<part, vars, links, timers>> => L!LinksInv'
    BY <1>2, <1>3 DEF ListsNext
  <1> QED BY <1>1, <1>4, PTL DEF ListsSpec

-----------------------------------------------------------------------------
(* The lists: what a walk along the pointers meets                         *)

\* The recursive function of Walk exists: a shorter one can always be extended.
LEMMA PlacesExist ==
    ASSUME NEW f \in [L!Ptrs -> L!Ptrs], NEW p \in L!Ptrs, NEW N \in Nat
    PROVE  \E at \in [1 .. N -> L!Ptrs] :
               at = [n \in 1 .. N |-> IF n = 1 THEN p ELSE f[at[n - 1]]]
  <1> DEFINE Good(k, at) == at = [n \in 1 .. k |-> IF n = 1 THEN p ELSE f[at[n - 1]]]
             Bad == {k \in Nat : ~ \E at \in [1 .. k -> L!Ptrs] : Good(k, at)}
  <1> SUFFICES Bad = {}
    OBVIOUS
  <1> SUFFICES ASSUME Bad # {} PROVE FALSE
    OBVIOUS
  <1>1. PICK k \in Bad : \A m \in Bad : k <= m
    BY LeastNumber
  <1>2. k # 0
    <2>1. \A at \in [1 .. 0 -> L!Ptrs] : Good(0, at)
      OBVIOUS
    <2>2. [n \in 1 .. 0 |-> p] \in [1 .. 0 -> L!Ptrs]
      OBVIOUS
    <2> QED BY <2>1, <2>2
  <1>3. PICK g \in [1 .. k - 1 -> L!Ptrs] : Good(k - 1, g)
    <2>1. k - 1 \in Nat /\ ~(k <= k - 1)
      BY <1>2
    <2>2. k - 1 \notin Bad
      <3> HIDE DEF Bad
      <3> QED BY <1>1, <2>1
    <2> QED BY <2>1, <2>2
  <1> DEFINE h == [n \in 1 .. k |-> IF n < k THEN g[n] ELSE IF k = 1 THEN p ELSE f[g[k - 1]]]
  <1>4. h \in [1 .. k -> L!Ptrs]
    BY <1>2
  <1>5. \A n \in 1 .. k : h[n] = IF n = 1 THEN p ELSE f[h[n - 1]]
    <2> SUFFICES ASSUME NEW n \in 1 .. k PROVE h[n] = IF n = 1 THEN p ELSE f[h[n - 1]]
      OBVIOUS
    <2>1. CASE n < k
      <3>1. h[n] = g[n] /\ n \in 1 .. k - 1
        BY <2>1
      <3>2. g[n] = IF n = 1 THEN p ELSE f[g[n - 1]]
        BY <1>3, <3>1
      <3>3. n # 1 => h[n - 1] = g[n - 1]
        BY <2>1
      <3> QED BY <3>1, <3>2, <3>3
    <2>2. CASE n = k
      BY <1>2, <2>2
    <2> QED BY <2>1, <2>2
  <1>6. Good(k, h)
    BY <1>4, <1>5
  <1> QED BY <1>1, <1>4, <1>6

\* What Walk returns, cut off or not.
LEMMA WalkFacts ==
    ASSUME NEW o \in [Procs -> L!Ptrs], NEW p \in L!Ptrs
    PROVE  /\ L!Walk(o, p) \in Seq(Procs)
           /\ p = NULL => L!Walk(o, p) = <<>>
           /\ p # NULL => L!Walk(o, p) # <<>> /\ L!Walk(o, p)[1] = p
           /\ \A i \in 1 .. Len(L!Walk(o, p)) - 1 : L!Walk(o, p)[i + 1] = o[L!Walk(o, p)[i]]
           /\ Len(L!Walk(o, p)) \in 1 .. Cardinality(Procs) - 1 =>
                  o[L!Walk(o, p)[Len(L!Walk(o, p))]] = NULL
  <1> USE ListsAssumption
  <1>1. PICK N \in Nat : N = Cardinality(Procs)
    BY FS_CardinalityType
  <1>2. N # 0
    BY <1>1, FS_EmptySet
  <1>3. PICK f \in [L!Ptrs -> L!Ptrs] : f = L!Along(o)
    BY DEF L!Ptrs, L!Along
  <1>4. PICK at : at = L!Places(o, p)
                  /\ at = [n \in 1 .. N |-> IF n = 1 THEN p ELSE f[at[n - 1]]]
    <2> DEFINE Good(g) == g = [n \in 1 .. L!Cardinality(Procs) |->
                                  IF n = 1 THEN p ELSE L!Along(o)[g[n - 1]]]
    <2>1. PICK g \in [1 .. N -> L!Ptrs] :
              g = [n \in 1 .. N |-> IF n = 1 THEN p ELSE f[g[n - 1]]]
      BY SMTT(30), ZenonT(90), PlacesExist
    <2>2. Good(g) /\ N = L!Cardinality(Procs)
      BY <1>1, <1>3, <2>1, SameCardinality
    <2>3. Good(CHOOSE h : Good(h))
      BY <2>2
    <2>4. L!Places(o, p) = CHOOSE h : Good(h)
      BY DEF L!Places
    <2> QED BY SMTT(30), ZenonT(90), <1>3, <2>2, <2>3, <2>4
  <1>5. \A n \in 1 .. N : at[n] \in L!Ptrs
    <2> DEFINE Bad == {n \in 1 .. N : at[n] \notin L!Ptrs}
    <2> SUFFICES ASSUME Bad # {} PROVE FALSE
      OBVIOUS
    <2>1. PICK n \in Bad : \A m \in Bad : n <= m
      <3>1. Bad \in SUBSET Nat /\ Bad # {}
        OBVIOUS
      <3> HIDE DEF Bad
      <3> QED BY <3>1, LeastNumber
    <2>2. n \in 1 .. N /\ n # 1
      BY <1>4
    <2>3. n - 1 \in 1 .. N /\ ~(n <= n - 1)
      BY <2>2
    <2>4. at[n - 1] \in L!Ptrs
      BY <2>1, <2>3
    <2>5. at[n] = f[at[n - 1]]
      BY <1>4, <2>2
    <2> QED BY <1>4, <2>1, <2>2, <2>4, <2>5
  \* From the first NULL on, all is NULL.
  <1>6. PICK len \in 0 .. N : \A n \in 1 .. N : at[n] # NULL <=> n <= len
    <2>1. CASE \A n \in 1 .. N : at[n] # NULL
      BY <2>1
    <2>2. CASE \E n \in 1 .. N : at[n] = NULL
      <3> DEFINE Bad == {n \in 1 .. N : at[n] = NULL}
      <3>1. PICK m \in Bad : \A n \in Bad : m <= n
        <4>1. Bad \in SUBSET Nat /\ Bad # {}
          BY <2>2
        <4> HIDE DEF Bad
        <4> QED BY <4>1, LeastNumber
      <3> DEFINE B == {n \in 1 .. N : n > m /\ at[n] # NULL}
      <3>2. B = {}
        <4> SUFFICES ASSUME B # {} PROVE FALSE
          OBVIOUS
        <4>1. PICK n \in B : \A k \in B : n <= k
          <5>1. B \in SUBSET Nat /\ B # {}
            OBVIOUS
          <5> HIDE DEF B
          <5> QED BY <5>1, LeastNumber
        <4>2. n \in 1 .. N /\ m \in 1 .. N /\ n > m /\ at[n] # NULL /\ at[m] = NULL
          OBVIOUS
        <4>3. n - 1 \in 1 .. N /\ ~(n <= n - 1) /\ n - 1 >= m
          BY <4>2
        <4>4. at[n - 1] = NULL
          BY <4>1, <4>2, <4>3
        <4>5. at[n] = f[at[n - 1]]
          <5> HIDE DEF Bad, B
          <5>1. n \in 1 .. N /\ n # 1
            BY <4>2
          <5> QED BY <1>4, <5>1
        <4> QED BY <1>3, <4>2, <4>4, <4>5 DEF L!Ptrs, L!Along
      <3>3. m \in 1 .. N /\ m - 1 \in 0 .. N
        OBVIOUS
      <3>4. \A n \in 1 .. N : at[n] # NULL <=> n <= m - 1
        BY <3>1, <3>2, <3>3
      <3> QED BY <3>3, <3>4
    <2> QED BY <2>1, <2>2
  <1>7. Cardinality({n \in 1 .. N : at[n] # NULL}) = len
    <2>1. {n \in 1 .. N : at[n] # NULL} = 1 .. len
      BY <1>6
    <2>2. Cardinality(1 .. len) = IF 1 > len THEN 0 ELSE len - 1 + 1
      BY FS_Interval
    <2>3. len \in Nat /\ (len = 0 \/ len >= 1)
      OBVIOUS
    <2>4. Cardinality(1 .. len) = len
      BY <2>2, <2>3
    <2> QED BY <2>1, <2>4, Zenon
  <1>8. L!Walk(o, p) = [n \in 1 .. len |-> at[n]]
    <2>1. DOMAIN at = 1 .. N /\ L!Cardinality({n \in 1 .. N : at[n] # NULL}) = len
      BY <1>4, <1>7, SameCardinality
    <2> QED BY <1>4, <2>1 DEF L!Walk
  <1>9. PICK w : w = L!Walk(o, p) /\ w = [n \in 1 .. len |-> at[n]]
    BY <1>8
  <1>10. w \in Seq(Procs) /\ Len(w) = len /\ \A n \in 1 .. len : w[n] = at[n]
    BY <1>5, <1>6, <1>9 DEF L!Ptrs
  <1>11. \A n \in 2 .. N : at[n - 1] # NULL => at[n] = o[at[n - 1]]
    <2> SUFFICES ASSUME NEW n \in 2 .. N, at[n - 1] # NULL PROVE at[n] = o[at[n - 1]]
      OBVIOUS
    <2>1. n \in 1 .. N /\ n - 1 \in 1 .. N /\ n # 1
      OBVIOUS
    <2>2. at[n] = f[at[n - 1]]
      BY <1>4, <2>1
    <2> QED BY <1>3, <1>5, <2>1, <2>2 DEF L!Along
  <1>12. at[1] = p /\ (p = NULL => len = 0) /\ (p # NULL => len > 0)
    BY <1>2, <1>4, <1>6
  <1>13. \A i \in 1 .. len - 1 : w[i + 1] = o[w[i]]
    BY <1>6, <1>10, <1>11
  <1>14. len \in 1 .. N - 1 => o[w[len]] = NULL
    <2> SUFFICES ASSUME len \in 1 .. N - 1 PROVE o[w[len]] = NULL
      OBVIOUS
    <2>1. len \in 1 .. N /\ len + 1 \in 2 .. N /\ len + 1 \in 1 .. N /\ (len + 1) - 1 = len
          /\ ~(len + 1 <= len) /\ len \in 1 .. len
      OBVIOUS
    <2>2. at[len] # NULL /\ at[len + 1] = NULL
      BY <1>6, <2>1
    <2>3. at[len + 1] = o[at[len]]
      BY <1>11, <2>1, <2>2
    <2> QED BY <1>10, <2>1, <2>2, <2>3
  <1>15. (p = NULL => w = <<>>) /\ (p # NULL => w # <<>> /\ w[1] = p)
    BY <1>10, <1>12
  <1> QED BY <1>1, <1>9, <1>10, <1>13, <1>14, <1>15

\* The list s starts at p, goes on along o and ends at NULL.
IsWalk(o, s, p) ==
    /\ s \in Seq(Procs)
    /\ p = NULL => s = <<>>
    /\ p # NULL => s # <<>> /\ s[1] = p /\ o[s[Len(s)]] = NULL
    /\ \A i \in 1 .. Len(s) - 1 : s[i + 1] = o[s[i]]

LEMMA OneWalk ==
    ASSUME NEW o, NEW p \in L!Ptrs, NEW s, NEW t, IsWalk(o, s, p), IsWalk(o, t, p)
    PROVE  s = t
  <1> USE ListsAssumption
  <1>1. /\ s \in Seq(Procs) /\ Len(s) \in Nat /\ t \in Seq(Procs) /\ Len(t) \in Nat
        /\ \A i \in 1 .. Len(s) : s[i] \in Procs
        /\ \A i \in 1 .. Len(t) : t[i] \in Procs
    BY DEF IsWalk
  <1>2. CASE p = NULL
    BY <1>2 DEF IsWalk
  <1>3. CASE p # NULL
    <2>1. Len(s) >= 1 /\ Len(t) >= 1 /\ s[1] = t[1]
      BY <1>1, <1>3 DEF IsWalk
    <2>2. \A i \in 1 .. Len(s) : i <= Len(t) => s[i] = t[i]
      <3> DEFINE B == {i \in Nat : i \in 1 .. Len(s) /\ i <= Len(t) /\ s[i] # t[i]}
      <3> SUFFICES ASSUME B # {} PROVE FALSE
        BY <1>1
      <3>1. PICK n \in B : \A m \in B : n <= m
        <4>1. B \in SUBSET Nat /\ B # {}
          OBVIOUS
        <4> HIDE DEF B
        <4> QED BY <4>1, LeastNumber
      <3>2. n \in 1 .. Len(s) /\ n \in 1 .. Len(t) /\ s[n] # t[n] /\ n # 1
        BY <1>1, <2>1
      <3>3. PICK m \in 1 .. Len(s) - 1 : m + 1 = n /\ m \in 1 .. Len(t) - 1
        <4>1. n - 1 \in 1 .. Len(s) - 1 /\ n - 1 \in 1 .. Len(t) - 1 /\ (n - 1) + 1 = n
          BY <1>1, <3>2
        <4> QED BY <4>1
      <3>4. s[m] = t[m]
        <4>1. ~(n <= m) /\ m \in Nat /\ m \in 1 .. Len(s) /\ m <= Len(t)
          BY <1>1, <3>3
        <4> QED BY <3>1, <4>1
      <3>5. s[m + 1] = o[s[m]] /\ t[m + 1] = o[t[m]]
        BY <3>3 DEF IsWalk
      <3> QED BY <3>2, <3>3, <3>4, <3>5
    <2>3. ASSUME NEW a, NEW b, IsWalk(o, a, p), IsWalk(o, b, p), Len(a) < Len(b),
                 \A i \in 1 .. Len(a) : i <= Len(b) => a[i] = b[i]
          PROVE  FALSE
      <3>1. /\ a \in Seq(Procs) /\ b \in Seq(Procs) /\ Len(a) \in Nat /\ Len(b) \in Nat
            /\ Len(a) >= 1 /\ o[a[Len(a)]] = NULL
        BY <1>3, <2>3 DEF IsWalk
      <3>2. Len(a) \in 1 .. Len(b) - 1 /\ Len(a) \in 1 .. Len(a) /\ Len(a) <= Len(b)
            /\ Len(a) + 1 \in 1 .. Len(b)
        BY <2>3, <3>1
      <3>3. b[Len(a) + 1] = o[b[Len(a)]] /\ a[Len(a)] = b[Len(a)]
        BY <2>3, <3>2 DEF IsWalk
      <3>4. b[Len(a) + 1] \in Procs
        BY <3>1, <3>2
      <3> QED BY <3>1, <3>3, <3>4
    <2>4. ~(Len(s) < Len(t))
      BY <2>2, <2>3
    <2>5. ~(Len(t) < Len(s))
      <3>1. \A i \in 1 .. Len(t) : i <= Len(s) => t[i] = s[i]
        BY <1>1, <2>2
      <3> QED BY <2>3, <3>1
    <2>6. Len(s) = Len(t) /\ \A i \in 1 .. Len(s) : s[i] = t[i]
      BY <1>1, <2>2, <2>4, <2>5
    <2> QED BY <1>1, <2>6
  <1> QED BY <1>2, <1>3

\* What the walk from the head of a list relies on.
Heads(par, c, y, o) ==
    /\ c \in [Procs -> L!Ptrs] /\ o \in [Procs -> L!Ptrs]
    /\ \A p \in Procs : o[p] # NULL => par[o[p]] = par[p] /\ y[o[p]] = p
    /\ \A p \in Procs : c[p] # NULL => par[c[p]] = p /\ \A q \in Procs : o[q] # c[p]

\* A walk along the older siblings meets children of x only, and none of them twice.
LEMMA NoneTwice ==
    ASSUME NEW par, NEW c, NEW y, NEW o, Heads(par, c, y, o), NEW x \in Procs,
           NEW s \in Seq(Procs), s # <<>> => c[x] # NULL /\ s[1] = c[x],
           \A i \in 1 .. Len(s) - 1 : s[i + 1] = o[s[i]]
    PROVE  /\ \A i \in 1 .. Len(s) : par[s[i]] = x
           /\ \A i, j \in 1 .. Len(s) : s[i] = s[j] => i = j
           /\ Len(s) <= Cardinality(Procs)
           /\ Len(s) = Cardinality(Procs) => Procs = {s[i] : i \in 1 .. Len(s)}
  <1> USE ListsAssumption
  <1>1. /\ Len(s) \in Nat /\ \A i \in 1 .. Len(s) : s[i] \in Procs
        /\ s = [i \in 1 .. Len(s) |-> s[i]]
    OBVIOUS
  <1>2. \A n \in 1 .. Len(s) : n # 1 => /\ n - 1 \in 1 .. Len(s) - 1 /\ n - 1 \in 1 .. Len(s)
                                        /\ s[n] = o[s[n - 1]]
    <2> SUFFICES ASSUME NEW n \in 1 .. Len(s), n # 1
                 PROVE  /\ n - 1 \in 1 .. Len(s) - 1 /\ n - 1 \in 1 .. Len(s)
                        /\ s[n] = o[s[n - 1]]
      OBVIOUS
    <2>1. n - 1 \in 1 .. Len(s) - 1 /\ n - 1 \in 1 .. Len(s) /\ (n - 1) + 1 = n
      BY <1>1
    <2> QED BY <2>1
  <1>3. 1 \in 1 .. Len(s) => s[1] = c[x] /\ c[x] # NULL
    OBVIOUS
  <1>4. \A i \in 1 .. Len(s) : par[s[i]] = x
    <2> DEFINE B == {i \in Nat : i \in 1 .. Len(s) /\ par[s[i]] # x}
    <2> SUFFICES ASSUME B # {} PROVE FALSE
      BY <1>1
    <2>1. PICK n \in B : \A m \in B : n <= m
      <3>1. B \in SUBSET Nat /\ B # {}
        OBVIOUS
      <3> HIDE DEF B
      <3> QED BY <3>1, LeastNumber
    <2>2. n \in 1 .. Len(s) /\ n # 1 /\ par[s[n]] # x
      BY <1>3 DEF Heads
    <2>3. n - 1 \in Nat /\ ~(n <= n - 1)
      BY <1>1, <2>2
    <2>4. par[s[n - 1]] = x
      BY <1>2, <2>1, <2>2, <2>3
    <2>5. s[n - 1] \in Procs /\ s[n] = o[s[n - 1]] /\ o[s[n - 1]] # NULL
      BY <1>1, <1>2, <2>2
    <2> QED BY <2>2, <2>4, <2>5 DEF Heads
  <1>5. \A i, j \in 1 .. Len(s) : s[i] = s[j] => i = j
    <2> DEFINE B == {i \in Nat : i \in 1 .. Len(s) /\ \E j \in 1 .. Len(s) : j # i /\ s[i] = s[j]}
    <2> SUFFICES ASSUME B # {} PROVE FALSE
      BY <1>1
    <2>1. PICK n \in B : \A m \in B : n <= m
      <3>1. B \in SUBSET Nat /\ B # {}
        OBVIOUS
      <3> HIDE DEF B
      <3> QED BY <3>1, LeastNumber
    <2>2. PICK j \in 1 .. Len(s) : j # n /\ s[n] = s[j] /\ j \in B
      BY <1>1
    <2>3. n \in 1 .. Len(s) /\ j > n /\ j # 1
      <3>1. n \in 1 .. Len(s) /\ n <= j
        BY <2>1, <2>2
      <3> QED BY <1>1, <2>2, <3>1
    <2>4. s[j] = o[s[j - 1]] /\ s[j - 1] \in Procs /\ j - 1 \in 1 .. Len(s) /\ s[j] \in Procs
      BY <1>1, <1>2, <2>3
    <2>5. CASE n = 1
      BY <1>3, <2>2, <2>3, <2>4, <2>5 DEF Heads
    <2>6. CASE n # 1
      <3>1. s[n] = o[s[n - 1]] /\ s[n - 1] \in Procs /\ n - 1 \in 1 .. Len(s)
        BY <1>1, <1>2, <2>3, <2>6
      <3>2. s[n - 1] = s[j - 1]
        BY <2>2, <2>4, <3>1 DEF Heads
      <3>3. n - 1 \in Nat /\ j - 1 # n - 1 /\ ~(n <= n - 1)
        BY SMTT(30), ZenonT(90), <2>2, <2>3, <3>1, <2>4
      <3> QED BY <2>1, <2>4, <3>1, <3>2, <3>3
    <2> QED BY <2>5, <2>6
  <1>6. s \in Injection(1 .. Len(s), Procs)
    <2>1. s \in [1 .. Len(s) -> Procs]
      BY <1>1
    <2> QED BY <1>5, <2>1 DEF Injection, IsInjective
  <1>7. \A n \in Nat : Cardinality(1 .. n) = n
    <2> SUFFICES ASSUME NEW n \in Nat PROVE Cardinality(1 .. n) = n
      OBVIOUS
    <2>1. Cardinality(1 .. n) = IF 1 > n THEN 0 ELSE n - 1 + 1
      BY FS_Interval
    <2> QED BY <2>1
  <1>8. Len(s) <= Cardinality(Procs)
    BY <1>1, <1>6, <1>7, FS_Injection
  <1>9. ASSUME Len(s) = Cardinality(Procs) PROVE Procs = {s[i] : i \in 1 .. Len(s)}
    <2>1. s \in Surjection(1 .. Len(s), Procs)
      BY <1>1, <1>6, <1>7, <1>9, FS_Injection
    <2> QED BY <1>1, <2>1 DEF Surjection
  <1> QED BY <1>4, <1>5, <1>8, <1>9

\* The walk from the head of a list comes to its end.
LEMMA WalkEnds ==
    ASSUME NEW par, NEW c, NEW y, NEW o, Heads(par, c, y, o), NEW x \in Procs
    PROVE  IsWalk(o, L!Walk(o, c[x]), c[x])
  <1> USE ListsAssumption
  <1>1. PICK s : s = L!Walk(o, c[x])
    OBVIOUS
  <1>2. c[x] \in L!Ptrs /\ o \in [Procs -> L!Ptrs]
    BY DEF Heads
  <1>3. PICK N \in Nat : N = Cardinality(Procs)
    BY FS_CardinalityType
  <1>4. /\ s \in Seq(Procs) /\ Len(s) \in Nat
        /\ c[x] = NULL => s = <<>>
        /\ c[x] # NULL => s # <<>> /\ s[1] = c[x]
        /\ \A i \in 1 .. Len(s) - 1 : s[i + 1] = o[s[i]]
        /\ Len(s) \in 1 .. N - 1 => o[s[Len(s)]] = NULL
    BY <1>1, <1>2, <1>3, WalkFacts
  <1>5. /\ \A i, j \in 1 .. Len(s) : s[i] = s[j] => i = j
        /\ Len(s) <= N
        /\ Len(s) = N => Procs = {s[i] : i \in 1 .. Len(s)}
    <2>1. s # <<>> => c[x] # NULL /\ s[1] = c[x]
      BY <1>4
    <2> QED BY <1>3, <1>4, <2>1, NoneTwice
  <1>6. ASSUME c[x] # NULL PROVE o[s[Len(s)]] = NULL
    <2>1. Len(s) >= 1 /\ Len(s) \in 1 .. Len(s) /\ s[Len(s)] \in Procs /\ s[1] = c[x]
      BY <1>4, <1>6
    <2>2. CASE Len(s) # N
      BY <1>4, <1>5, <2>1, <2>2
    <2>3. CASE Len(s) = N
      <3> SUFFICES ASSUME o[s[Len(s)]] # NULL PROVE FALSE
        OBVIOUS
      <3>1. PICK i \in 1 .. Len(s) : s[i] = o[s[Len(s)]] /\ s[i] \in Procs
        <4>1. o[s[Len(s)]] \in Procs
          BY <1>2, <2>1 DEF L!Ptrs
        <4> QED BY <1>5, <2>3, <4>1
      <3>2. i # 1
        BY <1>6, <2>1, <3>1 DEF Heads
      <3>3. PICK j \in 1 .. Len(s) - 1 : j + 1 = i /\ j \in 1 .. Len(s) /\ j # Len(s)
        <4>1. i - 1 \in 1 .. Len(s) - 1 /\ (i - 1) + 1 = i /\ i - 1 \in 1 .. Len(s) /\ i - 1 # Len(s)
          BY <1>4, <3>2
        <4> QED BY <4>1
      <3>4. s[i] = o[s[j]] /\ s[j] \in Procs
        BY <1>4, <3>3
      <3>5. y[s[i]] = s[j] /\ y[s[i]] = s[Len(s)]
        BY SMTT(30), ZenonT(90), <2>1, <3>1, <3>4 DEF Heads
      <3> QED BY <1>5, <2>1, <3>3, <3>5
    <2> QED BY <2>2, <2>3
  <1> QED BY <1>1, <1>4, <1>6 DEF IsWalk

LEMMA LinksAreHeads ==
    ASSUME L!LinksInv
    PROVE  Heads(parent, cptr, yptr, optr)
  BY PointerFacts DEF L!LinksInv, L!Siblings, Heads

\* The list of a process holds its children, each once: a child missing from it
\* would have a younger sibling that is missing too, and so on without end.
LEMMA ChainIsFamily ==
    ASSUME L!LinksInv, NEW x \in Procs
    PROVE  /\ IsWalk(optr, L!Chain(cptr[x]), cptr[x])
           /\ L!Elements(L!Chain(cptr[x])) = {q \in Procs : parent[q] = x}
           /\ \A i, j \in 1 .. Len(L!Chain(cptr[x])) :
                  L!Chain(cptr[x])[i] = L!Chain(cptr[x])[j] => i = j
  <1> USE ListsAssumption
  <1>1. PICK s : s = L!Chain(cptr[x])
    OBVIOUS
  <1>2. Heads(parent, cptr, yptr, optr) /\ L!Siblings /\ L!NoSiblingCycle
    BY LinksAreHeads DEF L!LinksInv
  <1>3. IsWalk(optr, s, cptr[x])
    BY <1>1, <1>2, WalkEnds DEF L!Chain
  <1>4. /\ s \in Seq(Procs) /\ Len(s) \in Nat /\ \A i \in 1 .. Len(s) : s[i] \in Procs
        /\ \A i \in 1 .. Len(s) - 1 : s[i + 1] = optr[s[i]]
        /\ cptr[x] # NULL => /\ 1 \in 1 .. Len(s) /\ Len(s) \in 1 .. Len(s)
                             /\ s[1] = cptr[x] /\ optr[s[Len(s)]] = NULL
    BY <1>3 DEF IsWalk
  <1>5. /\ \A i \in 1 .. Len(s) : parent[s[i]] = x
        /\ \A i, j \in 1 .. Len(s) : s[i] = s[j] => i = j
    <2>1. s # <<>> => cptr[x] # NULL /\ s[1] = cptr[x]
      BY <1>3 DEF IsWalk
    <2> QED BY <1>2, <1>4, <2>1, NoneTwice
  <1> DEFINE S == {q \in Procs : parent[q] = x /\ \A i \in 1 .. Len(s) : s[i] # q}
  <1>6. S = {}
    <2> SUFFICES ASSUME S # {} PROVE FALSE
      OBVIOUS
    <2>1. PICK q \in S : \A r \in S : optr[r] # q
      BY <1>2 DEF L!NoSiblingCycle
    <2>2. cptr[x] # NULL
      BY NoHeadNoChildren
    <2>3. /\ yptr[q] \in Procs /\ optr[yptr[q]] = q /\ parent[yptr[q]] = x
      <3>1. parent[q] # NULL /\ cptr[parent[q]] # q /\ q # NULL
        BY <1>4, <2>2
      <3>2. yptr[q] # NULL /\ optr[yptr[q]] = q
        BY <1>2, <3>1 DEF L!Siblings
      <3>3. yptr[q] \in Procs
        BY <3>2, PointerFacts
      <3> QED BY <1>2, <3>1, <3>2, <3>3 DEF L!Siblings
    <2>4. PICK i \in 1 .. Len(s) : s[i] = yptr[q]
      BY <2>1, <2>3
    <2>5. i # Len(s)
      BY <1>4, <2>2, <2>3, <2>4
    <2>6. i \in 1 .. Len(s) - 1 /\ i + 1 \in 1 .. Len(s)
      BY <1>4, <2>5
    <2> QED BY <1>4, <2>3, <2>4, <2>6
  <1>7. L!Elements(s) = {q \in Procs : parent[q] = x}
    BY <1>4, <1>5, <1>6 DEF L!Elements
  <1> QED BY <1>1, <1>3, <1>5, <1>7

\* do_wait meets every child once.
LEMMA LinksAreFamilies == L!LinksInv => L!ListsAreFamilies
  <1> USE ListsAssumption
  <1> SUFFICES ASSUME L!LinksInv, NEW x \in Procs
               PROVE  /\ L!Elements(L!Chain(cptr[x])) = {q \in L!Live : parent[q] = x}
                      /\ Len(L!Chain(cptr[x])) = L!Cardinality({q \in L!Live : parent[q] = x})
    BY DEF L!ListsAreFamilies
  <1>1. {q \in L!Live : parent[q] = x} = {q \in Procs : parent[q] = x}
    BY DEF L!Live
  <1>2. PICK s, C : s = L!Chain(cptr[x]) /\ C = {q \in Procs : parent[q] = x}
    OBVIOUS
  <1>3. /\ s \in Seq(Procs) /\ Len(s) \in Nat
        /\ \A i, j \in 1 .. Len(s) : s[i] = s[j] => i = j
        /\ C = {s[i] : i \in 1 .. Len(s)}
    <2>1. /\ IsWalk(optr, s, cptr[x]) /\ L!Elements(s) = C
          /\ \A i, j \in 1 .. Len(s) : s[i] = s[j] => i = j
      BY <1>2, ChainIsFamily
    <2> QED BY <2>1 DEF IsWalk, L!Elements
  <1>4. s \in Bijection(1 .. Len(s), C)
    <2>1. s \in [1 .. Len(s) -> C] /\ \A q \in C : \E i \in 1 .. Len(s) : s[i] = q
      BY <1>3
    <2> QED BY <1>3, <2>1 DEF Bijection, Injection, Surjection, IsInjective
  <1>5. Cardinality(C) = Len(s)
    BY <1>3, <1>4, FS_CountingElements DEF ExistsBijection
  <1> QED BY <1>1, <1>2, <1>3, <1>5, SameCardinality, ChainIsFamily

LEMMA LinksAreInverse == L!LinksInv => L!YoungerIsInverse
  <1> USE ListsAssumption
  <1> SUFFICES ASSUME L!LinksInv, leaving = NULL, NEW p \in L!Live \ {Idle}
               PROVE  /\ optr[p] # NULL => yptr[optr[p]] = p
                      /\ yptr[p] # NULL => optr[yptr[p]] = p
                      /\ yptr[p] = NULL <=> cptr[parent[p]] = p
    BY DEF L!YoungerIsInverse
  <1>1. L!Siblings /\ p \in Procs /\ parent[p] \in Procs /\ p # NULL
    BY PointerFacts DEF L!LinksInv
  <1>2. yptr[p] # NULL => yptr[p] \in Procs /\ optr[yptr[p]] = p
    BY <1>1, PointerFacts DEF L!Siblings
  <1> QED BY <1>1, <1>2 DEF L!Siblings

LEMMA FreedHaveNoLinks == L!LinksInv => L!FreedIsUnreferenced
  BY PointerFacts, ListsAssumption DEF L!FreedIsUnreferenced

\* In the behaviours that exercise the family pointers a walk over the children
\* meets each of them once, in the middle of do_exit's loop too, remove_links
\* can trust yptr, and nothing points to a process that was freed.
THEOREM FamiliesAreExact == ListsSpec => []FamiliesExact
  <1>1. L!LinksInv => FamiliesExact
    BY LinksAreFamilies, LinksAreInverse, FreedHaveNoLinks DEF FamiliesExact
  <1> QED BY <1>1, LinksInvariant, PTL

-----------------------------------------------------------------------------
(* The pointers implement the lists of ProcTree                            *)

\* The lists of all processes: what ProcTree calls children.
Lists == [p \in Procs |-> L!Chain(cptr[p])]

\* A new element in front of a list.
LEMMA WalkInFront ==
    ASSUME NEW o, NEW r, NEW p \in L!Ptrs, NEW s, IsWalk(o, s, p),
           NEW c \in Procs, r[c] = p, \A i \in 1 .. Len(s) : r[s[i]] = o[s[i]]
    PROVE  IsWalk(r, <<c>> \o s, c)
  <1> USE ListsAssumption
  <1>1. s \in Seq(Procs) /\ Len(s) \in Nat
    BY DEF IsWalk
  <1>2. PICK t : t = <<c>> \o s
    OBVIOUS
  <1>3. /\ t \in Seq(Procs) /\ Len(t) = Len(s) + 1 /\ t[1] = c /\ t # <<>>
        /\ \A i \in 1 .. Len(s) : t[i + 1] = s[i]
    BY <1>1, <1>2
  <1>4. c # NULL
    OBVIOUS
  <1>5. r[t[Len(t)]] = NULL
    <2>1. CASE s = <<>>
      <3>1. p = NULL /\ Len(t) = 1
        BY <1>3, <2>1 DEF IsWalk
      <3> QED BY <1>3, <3>1
    <2>2. CASE s # <<>>
      <3>1. Len(s) \in 1 .. Len(s)
        BY <1>1, <2>2
      <3>2. o[s[Len(s)]] = NULL
        BY <2>2 DEF IsWalk
      <3> QED BY <1>3, <3>1, <3>2
    <2> QED BY <2>1, <2>2
  <1>6. ASSUME NEW i \in 1 .. Len(t) - 1 PROVE t[i + 1] = r[t[i]]
    <2>1. i \in 1 .. Len(s)
      BY <1>1, <1>3
    <2>2. CASE i = 1
      <3>1. p # NULL /\ s[1] = p
        BY <2>1 DEF IsWalk
      <3> QED BY <1>3, <2>1, <2>2, <3>1
    <2>3. CASE i # 1
      <3>1. PICK j \in 1 .. Len(s) - 1 : j + 1 = i /\ j \in 1 .. Len(s)
        <4>1. i - 1 \in 1 .. Len(s) - 1 /\ (i - 1) + 1 = i /\ i - 1 \in 1 .. Len(s)
          BY <1>1, <2>1, <2>3
        <4> QED BY <4>1
      <3>2. s[j + 1] = o[s[j]]
        BY <3>1 DEF IsWalk
      <3> QED BY <1>3, <2>1, <3>1, <3>2
    <2> QED BY <2>2, <2>3
  <1> QED BY <1>2, <1>3, <1>4, <1>5, <1>6 DEF IsWalk

\* The list behind the first element.
LEMMA WalkBehind ==
    ASSUME NEW o, NEW p \in Procs, NEW s, IsWalk(o, s, p), o[p] \in L!Ptrs,
           NEW r, \A i \in 2 .. Len(s) : r[s[i]] = o[s[i]]
    PROVE  s # <<>> /\ Head(s) = p /\ IsWalk(r, Tail(s), o[p])
  <1> USE ListsAssumption
  <1>1. s \in Seq(Procs) /\ Len(s) \in Nat /\ s # <<>> /\ s[1] = p /\ o[s[Len(s)]] = NULL
    BY DEF IsWalk
  <1>2. PICK t : t = Tail(s)
    OBVIOUS
  <1>3. /\ t \in Seq(Procs) /\ Len(t) = Len(s) - 1 /\ Len(s) >= 1
        /\ \A i \in 1 .. Len(t) : t[i] = s[i + 1]
    BY <1>1, <1>2
  <1>4. CASE Len(s) = 1
    <2>1. o[p] = NULL /\ t = <<>>
      BY <1>1, <1>3, <1>4
    <2> QED BY <1>1, <1>2, <1>3, <2>1 DEF IsWalk
  <1>5. CASE Len(s) # 1
    <2>1. 1 \in 1 .. Len(s) - 1 /\ Len(t) \in 1 .. Len(t) /\ Len(t) + 1 = Len(s)
          /\ 2 \in 1 .. Len(s) /\ Len(s) \in 2 .. Len(s)
      BY <1>1, <1>3, <1>5
    <2>2. s[2] = o[p]
      <3>1. s[1 + 1] = o[s[1]]
        BY <2>1 DEF IsWalk
      <3> QED BY <1>1, <3>1
    <2>3. t # <<>> /\ t[1] = o[p] /\ r[t[Len(t)]] = NULL
      BY <1>1, <1>3, <2>1, <2>2
    <2>4. s[2] \in Procs
      BY <1>1, <2>1
    <2>5. ASSUME NEW i \in 1 .. Len(t) - 1 PROVE t[i + 1] = r[t[i]]
      <3>1. i + 1 \in 1 .. Len(s) - 1 /\ i + 1 \in 2 .. Len(s) /\ i \in 1 .. Len(t)
            /\ i + 1 \in 1 .. Len(t)
        BY <1>1, <1>3
      <3>2. s[(i + 1) + 1] = o[s[i + 1]]
        BY <3>1 DEF IsWalk
      <3> QED BY <1>3, <3>1, <3>2
    <2> QED BY <1>1, <1>2, <1>3, <2>2, <2>3, <2>4, <2>5 DEF IsWalk
  <1> QED BY <1>4, <1>5

\* The list without its i-th element.
LEMMA WalkWithout ==
    ASSUME NEW o, NEW p \in Procs, NEW s, IsWalk(o, s, p), NEW i \in 1 .. Len(s),
           o[s[i]] \in L!Ptrs, NEW r,
           \A j \in 1 .. Len(s) : j # i => r[s[j]] = IF j + 1 = i THEN o[s[i]] ELSE o[s[j]]
    PROVE  IsWalk(r, SubSeq(s, 1, i - 1) \o SubSeq(s, i + 1, Len(s)),
                  IF i = 1 THEN o[p] ELSE p)
  <1> USE ListsAssumption
  <1>1. s \in Seq(Procs) /\ Len(s) \in Nat /\ s # <<>> /\ s[1] = p /\ o[s[Len(s)]] = NULL
        /\ p # NULL
    BY DEF IsWalk
  <1>2. PICK n \in Nat : n = Len(s)
    BY <1>1
  <1>3. PICK t : t = SubSeq(s, 1, i - 1) \o SubSeq(s, i + 1, Len(s))
    OBVIOUS
  <1>4. /\ t \in Seq(Procs) /\ Len(t) = n - 1 /\ n >= 1
        /\ \A j \in 1 .. n - 1 : t[j] = IF j < i THEN s[j] ELSE s[j + 1]
    <2>1. PICK a, b : a = SubSeq(s, 1, i - 1) /\ b = SubSeq(s, i + 1, n)
      OBVIOUS
    <2>2. /\ a \in Seq(Procs) /\ Len(a) = i - 1
          /\ \A j \in 1 .. i - 1 : a[j] = s[j]
      BY <1>1, <1>2, <2>1
    <2>3. /\ b \in Seq(Procs) /\ Len(b) = n - i
          /\ \A j \in 1 .. n - i : b[j] = s[j + i]
      BY <1>1, <1>2, <2>1
    <2>4. t = a \o b
      BY <1>2, <1>3, <2>1
    <2>5. t \in Seq(Procs) /\ Len(t) = n - 1
      BY <1>2, <2>2, <2>3, <2>4
    <2>6. ASSUME NEW j \in 1 .. n - 1 PROVE t[j] = IF j < i THEN s[j] ELSE s[j + 1]
      <3>1. t[j] = IF j <= Len(a) THEN a[j] ELSE b[j - Len(a)]
        BY <1>2, <2>2, <2>3, <2>4
      <3>2. CASE j < i
        BY <1>2, <2>2, <3>1, <3>2
      <3>3. CASE ~(j < i)
        <4>1. j - Len(a) \in 1 .. n - i /\ (j - Len(a)) + i = j + 1 /\ ~(j <= Len(a))
          BY <1>2, <2>2, <3>3
        <4> QED BY <2>3, <3>1, <3>3, <4>1
      <3> QED BY <3>2, <3>3
    <2> QED BY <1>2, <2>5, <2>6
  <1>5. \A j \in 1 .. n - 1 : s[j + 1] = o[s[j]]
    BY <1>2 DEF IsWalk
  <1>6. ASSUME NEW j \in 1 .. Len(t) - 1 PROVE t[j + 1] = r[t[j]]
    <2>1. j \in 1 .. n - 1 /\ j + 1 \in 1 .. n - 1 /\ j \in 1 .. n /\ j + 1 \in 1 .. n
      BY <1>4
    <2>2. t[j] = (IF j < i THEN s[j] ELSE s[j + 1])
          /\ t[j + 1] = (IF j + 1 < i THEN s[j + 1] ELSE s[(j + 1) + 1])
      BY <1>4, <2>1
    <2>3. s[j + 1] = o[s[j]] /\ s[(j + 1) + 1] = o[s[j + 1]]
      BY <1>5, <2>1
    <2>4. CASE j + 1 < i
      <3>1. j < i /\ j # i /\ j + 1 # i
        BY <1>2, <2>1, <2>4
      <3> QED BY <1>2, <2>1, <2>2, <2>3, <2>4, <3>1
    <2>5. CASE j + 1 = i
      <3>1. j < i /\ j # i
        BY <1>2, <2>1, <2>5
      <3>2. r[s[j]] = o[s[i]]
        BY <1>2, <2>1, <2>5, <3>1
      <3> QED BY <2>2, <2>3, <2>5, <3>1, <3>2
    <2>6. CASE j + 1 > i
      <3>1. ~(j < i) /\ j + 1 # i /\ ~(j + 1 < i) /\ (j + 1) + 1 # i
        BY <1>2, <2>1, <2>6
      <3> QED BY <1>2, <2>1, <2>2, <2>3, <3>1
    <2> QED BY <1>2, <2>1, <2>4, <2>5, <2>6
  <1>7. CASE n = 1
    <2>1. i = 1 /\ o[p] = NULL /\ t = <<>>
      BY <1>1, <1>2, <1>4, <1>7
    <2> QED BY <1>3, <1>4, <1>6, <2>1 DEF IsWalk
  <1>8. CASE n # 1
    <2>1. 1 \in 1 .. n - 1 /\ n - 1 \in 1 .. n - 1 /\ n - 1 \in 1 .. n /\ (n - 1) + 1 = n
          /\ 1 + 1 \in 1 .. n
      BY <1>4, <1>8
    <2>2. t # <<>>
      BY <1>4, <2>1
    <2>3. t[1] = IF i = 1 THEN o[p] ELSE p
      <3>1. t[1] = IF 1 < i THEN s[1] ELSE s[1 + 1]
        BY <1>4, <2>1
      <3>2. s[1 + 1] = o[s[1]]
        BY <1>5, <2>1
      <3> QED BY <1>1, <1>2, <3>1, <3>2
    <2>4. (IF i = 1 THEN o[p] ELSE p) # NULL
      <3>1. t[1] \in Procs
        BY <1>4, <2>1
      <3> QED BY <2>3, <3>1
    <2>5. r[t[Len(t)]] = NULL
      <3>1. t[n - 1] = IF n - 1 < i THEN s[n - 1] ELSE s[(n - 1) + 1]
        BY <1>4, <2>1
      <3>2. CASE i = n
        <4>1. r[s[n - 1]] = o[s[i]]
          BY <1>2, <2>1, <3>2
        <4> QED BY <1>1, <1>2, <1>4, <2>1, <3>1, <3>2, <4>1
      <3>3. CASE i # n
        <4>1. ~(n - 1 < i) /\ n # i /\ n \in 1 .. Len(s) /\ n + 1 # i
          BY <1>2, <2>1, <3>3
        <4>2. r[s[n]] = o[s[n]]
          BY <4>1
        <4> QED BY <1>1, <1>2, <1>4, <2>1, <3>1, <4>1, <4>2
      <3> QED BY <3>2, <3>3
    <2> QED BY <1>3, <1>4, <1>6, <2>2, <2>3, <2>4, <2>5 DEF IsWalk
  <1> QED BY <1>7, <1>8

\* What a list is after a step: the one walk from the new head.
LEMMA NewChain ==
    ASSUME L!LinksInv', NEW x \in Procs, NEW s, IsWalk(optr', s, cptr'[x])
    PROVE  (L!Chain(cptr[x]))' = s
  <1> USE ListsAssumption
  <1>1. Heads(parent', cptr', yptr', optr')
    BY DEF L!LinksInv, L!Pointers, L!Siblings, Heads, L!Ptrs
  <1>2. (L!Chain(cptr[x]))' = L!Walk(optr', cptr'[x])
    BY DEF L!Chain
  <1>3. IsWalk(optr', L!Walk(optr', cptr'[x]), cptr'[x])
    BY <1>1, WalkEnds
  <1>4. cptr'[x] \in L!Ptrs
    BY <1>1 DEF Heads
  <1> QED BY <1>2, <1>3, <1>4, OneWalk

\* A list stays as it is if its head and the optr of its members do.
LEMMA SameChain ==
    ASSUME L!LinksInv, L!LinksInv', NEW x \in Procs, cptr'[x] = cptr[x],
           \A q \in Procs : parent[q] = x => optr'[q] = optr[q]
    PROVE  (L!Chain(cptr[x]))' = L!Chain(cptr[x])
  <1> USE ListsAssumption
  <1>1. PICK s : s = L!Chain(cptr[x])
    OBVIOUS
  <1>2. IsWalk(optr, s, cptr[x]) /\ L!Elements(s) = {q \in Procs : parent[q] = x}
    BY <1>1, ChainIsFamily
  <1>3. s \in Seq(Procs) /\ Len(s) \in Nat
    BY <1>2 DEF IsWalk
  <1>4. \A i \in 1 .. Len(s) : optr'[s[i]] = optr[s[i]]
    BY <1>2 DEF L!Elements
  <1>5. /\ \A i \in 1 .. Len(s) - 1 : i \in 1 .. Len(s)
        /\ s # <<>> => Len(s) \in 1 .. Len(s)
    BY <1>3
  <1>6. IsWalk(optr', s, cptr'[x])
    BY <1>2, <1>4, <1>5 DEF IsWalk
  <1> QED BY <1>1, <1>6, NewChain

\* What the lists are made of.
LEMMA ListsFacts ==
    ASSUME L!LinksInv
    PROVE  /\ Lists \in [Procs -> Seq(Procs)]
           /\ \A x \in Procs : Lists[x] = L!Chain(cptr[x])
           /\ \A x \in Procs : IsWalk(optr, Lists[x], cptr[x])
           /\ \A x, q \in Procs : parent[q] = x <=> \E i \in 1 .. Len(Lists[x]) : Lists[x][i] = q
           /\ \A x \in Procs : \A i, j \in 1 .. Len(Lists[x]) :
                  Lists[x][i] = Lists[x][j] => i = j
           /\ L!Tree!Linked = {q \in Procs : parent[q] # NULL}
  <1> USE ListsAssumption
  <1>1. \A x \in Procs : Lists[x] = L!Chain(cptr[x])
    BY DEF Lists
  <1>2. \A x \in Procs : /\ IsWalk(optr, Lists[x], cptr[x])
                         /\ L!Elements(Lists[x]) = {q \in Procs : parent[q] = x}
                         /\ \A i, j \in 1 .. Len(Lists[x]) :
                                Lists[x][i] = Lists[x][j] => i = j
    <2> SUFFICES ASSUME NEW x \in Procs
                 PROVE  /\ IsWalk(optr, Lists[x], cptr[x])
                        /\ L!Elements(Lists[x]) = {q \in Procs : parent[q] = x}
                        /\ \A i, j \in 1 .. Len(Lists[x]) :
                               Lists[x][i] = Lists[x][j] => i = j
      OBVIOUS
    <2> QED BY SMTT(30), ZenonT(90), <1>1, ChainIsFamily
  <1>3. Lists \in [Procs -> Seq(Procs)]
    BY <1>2 DEF Lists, IsWalk
  <1>4. \A x, q \in Procs : parent[q] = x <=> \E i \in 1 .. Len(Lists[x]) : Lists[x][i] = q
    BY <1>2 DEF L!Elements
  <1>5. L!Tree!Linked = {q \in Procs : parent[q] # NULL}
    <2>1. L!Tree!Linked = UNION {L!Tree!Elements(Lists[p]) : p \in Procs}
      BY DEF L!Tree!Linked, Lists
    <2>2. \A p \in Procs : L!Tree!Elements(Lists[p]) = {q \in Procs : parent[q] = p}
      BY <1>2 DEF L!Tree!Elements, L!Elements
    <2>3. \A q \in Procs : parent[q] # NULL => parent[q] \in Procs
      BY PointerFacts
    <2> QED BY <2>1, <2>2, <2>3
  <1> QED BY <1>1, <1>2, <1>3, <1>4, <1>5

\* The lists after a step, one by one.
LEMMA NewLists ==
    ASSUME NEW f \in [Procs -> Seq(Procs)],
           \A x \in Procs : (L!Chain(cptr[x]))' = f[x]
    PROVE  Lists' = f
  BY DEF Lists

LEMMA TreeInit == L!Init => L!Tree!Init
  <1> SUFFICES ASSUME L!Init PROVE L!Tree!Init
    OBVIOUS
  <1> USE ListsAssumption
  <1>1. L!LinksInv
    BY LinksInit
  <1>2. \A x \in Procs : Lists[x] = IF x = Idle THEN <<Initproc>> ELSE <<>>
    <2> SUFFICES ASSUME NEW x \in Procs
                 PROVE  Lists[x] = IF x = Idle THEN <<Initproc>> ELSE <<>>
      OBVIOUS
    <2>1. /\ cptr[x] = IF x = Idle THEN Initproc ELSE NULL
          /\ \A q \in Procs : optr[q] = NULL
      BY DEF L!Init, L!Nil
    <2>2. IsWalk(optr, IF x = Idle THEN <<Initproc>> ELSE <<>>, cptr[x])
      BY <2>1 DEF IsWalk
    <2>3. cptr[x] \in L!Ptrs
      BY <2>1 DEF L!Ptrs
    <2> QED BY <1>1, <2>2, <2>3, ListsFacts, OneWalk
  <1> QED BY <1>2 DEF L!Tree!Init, Lists

LEMMA TreeFork ==
    ASSUME L!LinksInv, NEW p \in Procs, NEW child \in Procs, L!SetLinks(p, child)
    PROVE  L!Tree!Fork(p, child)
  <1> USE ListsAssumption
  <1>1. /\ L!LinksInv'
        /\ p \in L!Live /\ p # Idle /\ child \notin L!Live
        /\ \A q \in Procs :
             /\ optr'[q] = IF q = child THEN cptr[p] ELSE optr[q]
             /\ cptr'[q] = IF q = p THEN child ELSE IF q = child THEN NULL ELSE cptr[q]
    BY SetLinksStep
  <1>2. parent[p] # NULL /\ parent[child] = NULL /\ child # Idle /\ p # child
    BY <1>1, PointerFacts
  <1>3. \A x \in Procs : cptr[x] \in L!Ptrs
    BY PointerFacts
  <1> DEFINE f == [Lists EXCEPT ![p] = <<child>> \o Lists[p]]
  <1>4. \A x \in Procs : (L!Chain(cptr[x]))' = f[x]
    <2> SUFFICES ASSUME NEW x \in Procs PROVE (L!Chain(cptr[x]))' = f[x]
      OBVIOUS
    <2>1. CASE x = p
      <3>1. \A i \in 1 .. Len(Lists[p]) : optr'[Lists[p][i]] = optr[Lists[p][i]]
        <4> SUFFICES ASSUME NEW i \in 1 .. Len(Lists[p])
                     PROVE  optr'[Lists[p][i]] = optr[Lists[p][i]]
          OBVIOUS
        <4>1. Lists[p][i] \in Procs
          BY ListsFacts
        <4>2. parent[Lists[p][i]] = p
          BY <4>1, ListsFacts
        <4> QED BY <1>1, <1>2, <4>1, <4>2
      <3>2. IsWalk(optr, Lists[p], cptr[p])
        BY ListsFacts
      <3>3. IsWalk(optr', <<child>> \o Lists[p], child)
        BY <1>1, <1>3, <3>1, <3>2, WalkInFront
      <3>4. (L!Chain(cptr[p]))' = <<child>> \o Lists[p]
        BY <1>1, <3>3, NewChain
      <3> QED BY <2>1, <3>4, ListsFacts
    <2>2. CASE x # p
      <3>1. cptr'[x] = cptr[x]
        BY <1>1, <2>2 DEF L!LinksInv, L!NoLooseEnds
      <3>2. \A q \in Procs : parent[q] = x => optr'[q] = optr[q]
        BY <1>1, <1>2
      <3>3. (L!Chain(cptr[x]))' = L!Chain(cptr[x])
        BY <1>1, <3>1, <3>2, SameChain
      <3> QED BY <2>2, <3>3, ListsFacts
    <2> QED BY <2>1, <2>2
  <1>5. f \in [Procs -> Seq(Procs)]
    BY ListsFacts
  <1>6. Lists' = f
    <2> HIDE DEF f
    <2> QED BY <1>4, <1>5, NewLists
  <1>7. p \in L!Tree!Linked /\ child \notin L!Tree!Linked \cup {Idle}
    BY <1>2, ListsFacts
  <1> QED BY <1>6, <1>7 DEF L!Tree!Fork, Lists

LEMMA TreeReap ==
    ASSUME L!LinksInv, NEW z \in Procs, L!RemoveLinks(z)
    PROVE  z # Initproc /\ L!Tree!Reap(z)
  <1> USE ListsAssumption
  <1>1. /\ L!LinksInv'
        /\ cptr[z] = NULL /\ parent[z] \in Procs /\ parent[z] # z /\ z # Initproc
        /\ yptr[z] = NULL <=> cptr[parent[z]] = z
        /\ \A q \in Procs : optr[q] = z => q = yptr[z]
        /\ \A q \in Procs :
             /\ optr'[q] = IF q = z THEN NULL ELSE IF q = yptr[z] THEN optr[z] ELSE optr[q]
             /\ cptr'[q] = IF q = z THEN NULL
                           ELSE IF yptr[z] = NULL /\ q = parent[z] THEN optr[z] ELSE cptr[q]
    BY RemoveLinksStep
  <1>2. PICK p \in Procs : p = parent[z] /\ p # z
    BY <1>1
  <1>3. PICK i \in 1 .. Len(Lists[p]) : Lists[p][i] = z
    <2>1. \A x, q \in Procs : parent[q] = x <=> \E i \in 1 .. Len(Lists[x]) : Lists[x][i] = q
      BY ListsFacts
    <2> QED BY <1>2, <2>1
  <1>4. PICK s : s = Lists[p]
    OBVIOUS
  <1>5. /\ s \in Seq(Procs) /\ Len(s) \in Nat /\ i \in 1 .. Len(s) /\ s[i] = z
        /\ IsWalk(optr, s, cptr[p])
        /\ \A j, k \in 1 .. Len(s) : s[j] = s[k] => j = k
        /\ \A j \in 1 .. Len(s) : s[j] \in Procs
    BY <1>3, <1>4, ListsFacts
  <1>6. cptr[p] \in Procs /\ s[1] = cptr[p] /\ optr[z] \in L!Ptrs /\ 1 \in 1 .. Len(s)
    <2>1. 1 \in 1 .. Len(s) /\ s # <<>> /\ s[1] \in Procs
      BY <1>5
    <2> QED BY <1>5, <2>1, PointerFacts DEF IsWalk
  <1>7. \A j \in 1 .. Len(s) - 1 : s[j + 1] = optr[s[j]]
    BY <1>5 DEF IsWalk
  \* The younger sibling of z is the element in front of it.
  <1>8. ASSUME NEW j \in 1 .. Len(s), j # i
        PROVE  optr'[s[j]] = IF j + 1 = i THEN optr[s[i]] ELSE optr[s[j]]
    <2>1. s[j] # z /\ s[j] \in Procs
      BY <1>5, <1>8
    <2>2. CASE j + 1 = i
      <3>1. j \in 1 .. Len(s) - 1
        BY <1>5, <2>2
      <3>2. s[j] = yptr[z]
        BY <1>1, <1>5, <1>7, <2>1, <2>2, <3>1
      <3> QED BY <1>1, <1>5, <2>1, <2>2, <3>2
    <2>3. CASE j + 1 # i
      <3>1. s[j] # yptr[z]
        <4> SUFFICES ASSUME s[j] = yptr[z] PROVE FALSE
          OBVIOUS
        <4>1. i # 1
          BY <1>1, <1>2, <1>5, <1>6, <2>1, ListsAssumption
        <4>2. PICK k \in 1 .. Len(s) - 1 : k + 1 = i /\ k \in 1 .. Len(s)
          <5>1. i - 1 \in 1 .. Len(s) - 1 /\ (i - 1) + 1 = i /\ i - 1 \in 1 .. Len(s)
            BY <1>5, <4>1
          <5> QED BY <5>1
        <4>3. optr[s[k]] = z /\ s[k] \in Procs
          BY <1>5, <1>7, <4>2
        <4>4. s[k] = s[j]
          BY <1>1, <4>3
        <4> QED BY <1>5, <2>3, <4>2, <4>4
      <3> QED BY <1>1, <2>1, <2>3, <3>1
    <2> QED BY <2>2, <2>3
  <1>9. cptr'[p] = IF i = 1 THEN optr[cptr[p]] ELSE cptr[p]
    <2>1. i = 1 <=> cptr[p] = z
      BY <1>5, <1>6
    <2> QED BY <1>1, <1>2, <2>1
  <1> DEFINE t == SubSeq(s, 1, i - 1) \o SubSeq(s, i + 1, Len(s))
             f == [Lists EXCEPT ![p] = t]
  <1>10. (L!Chain(cptr[p]))' = t /\ t \in Seq(Procs)
    <2>1. IsWalk(optr', t, IF i = 1 THEN optr[cptr[p]] ELSE cptr[p])
      <3> HIDE DEF t
      <3>1. \A j \in 1 .. Len(s) : j # i =>
                optr'[s[j]] = IF j + 1 = i THEN optr[s[i]] ELSE optr[s[j]]
        BY <1>8
      <3> QED BY <1>5, <1>6, <3>1, WalkWithout DEF t
    <2> HIDE DEF t
    <2>2. t \in Seq(Procs)
      BY <2>1 DEF IsWalk
    <2> QED BY <1>1, <1>9, <2>1, <2>2, NewChain
  <1>11. \A x \in Procs : (L!Chain(cptr[x]))' = f[x]
    <2> SUFFICES ASSUME NEW x \in Procs PROVE (L!Chain(cptr[x]))' = f[x]
      OBVIOUS
    <2> HIDE DEF t
    <2>1. CASE x = p
      BY <1>10, <2>1, ListsFacts
    <2>2. CASE x # p
      <3>1. cptr'[x] = cptr[x]
        BY <1>1, <1>2, <2>2
      <3>2. yptr[z] \in Procs => parent[yptr[z]] = p
        <4>1. yptr[z] \in Procs => optr[yptr[z]] = z
          <5>1. parent[z] # leaving
            <6>1. leaving = NULL
              BY DEF L!RemoveLinks
            <6> QED BY <1>2, <6>1
          <5> QED BY <5>1 DEF L!LinksInv, L!Siblings
        <4> QED BY <1>2, <4>1 DEF L!LinksInv, L!Siblings
      <3>3. \A q \in Procs : parent[q] = x => optr'[q] = optr[q]
        BY <1>1, <1>2, <2>2, <3>2
      <3>4. (L!Chain(cptr[x]))' = L!Chain(cptr[x])
        BY <1>1, <3>1, <3>3, SameChain
      <3> QED BY <2>2, <3>4, ListsFacts
    <2> QED BY <2>1, <2>2
  <1>12. f \in [Procs -> Seq(Procs)]
    <2> HIDE DEF t
    <2> QED BY <1>10, ListsFacts
  <1>13. Lists' = f
    <2> HIDE DEF f
    <2> QED BY <1>11, <1>12, NewLists
  <1>14. Lists[z] = <<>>
    BY <1>1, ListsFacts DEF IsWalk
  <1>15. z \in L!Tree!Linked
    BY <1>2, ListsFacts, ListsAssumption
  <1> QED BY SMTT(30), ZenonT(90), <1>1, <1>3, <1>4, <1>13, <1>14, <1>15 DEF L!Tree!Reap, Lists

LEMMA TreeAdopt ==
    ASSUME L!LinksInv, L!AdoptChild
    PROVE  leaving \in Procs \ {Idle, Initproc} /\ L!Tree!Adopt(leaving)
  <1> USE ListsAssumption
  <1>1. /\ L!LinksInv'
        /\ leaving \in Procs \ {Idle, Initproc}
        /\ cptr[leaving] \in Procs /\ parent[cptr[leaving]] = leaving
        /\ \A q \in Procs :
             /\ optr'[q] = IF q = cptr[leaving] THEN cptr[Initproc] ELSE optr[q]
             /\ cptr'[q] = IF q = Initproc THEN cptr[leaving]
                           ELSE IF q = leaving THEN optr[cptr[leaving]] ELSE cptr[q]
    BY AdoptChildStep
  <1>2. PICK x \in Procs, c \in Procs :
            x = leaving /\ c = cptr[x] /\ parent[c] = x /\ x # Idle /\ x # Initproc
    BY <1>1
  <1>3. cptr[Initproc] \in L!Ptrs /\ optr[c] \in L!Ptrs
    BY PointerFacts
  <1>4. /\ \A q \in Procs : \A i \in 1 .. Len(Lists[q]) :
             Lists[q][i] \in Procs /\ parent[Lists[q][i]] = q
        /\ \A q \in Procs : \A i, j \in 1 .. Len(Lists[q]) :
             Lists[q][i] = Lists[q][j] => i = j
        /\ \A q \in Procs : IsWalk(optr, Lists[q], cptr[q]) /\ Lists[q] \in Seq(Procs)
        /\ Lists \in [Procs -> Seq(Procs)]
    <2>1. \A q \in Procs : \A i \in 1 .. Len(Lists[q]) : Lists[q][i] \in Procs
      BY ListsFacts
    <2> QED BY <2>1, ListsFacts
  <1>5. Lists[x] # <<>> /\ Head(Lists[x]) = c /\ IsWalk(optr', Tail(Lists[x]), optr[c])
    <2>1. \A i \in 2 .. Len(Lists[x]) : optr'[Lists[x][i]] = optr[Lists[x][i]]
      <3> SUFFICES ASSUME NEW i \in 2 .. Len(Lists[x])
                   PROVE  optr'[Lists[x][i]] = optr[Lists[x][i]]
        OBVIOUS
      <3>1. i \in 1 .. Len(Lists[x]) /\ 1 \in 1 .. Len(Lists[x]) /\ i # 1
        BY <1>4
      <3>2. Lists[x][1] = c
        BY <1>2, <1>4, ListsAssumption DEF IsWalk
      <3>3. Lists[x][i] # c /\ Lists[x][i] \in Procs
        BY <1>4, <3>1, <3>2
      <3> QED BY <1>1, <1>2, <3>3
    <2>2. IsWalk(optr, Lists[x], c)
      BY <1>2, <1>4
    <2> QED BY <1>3, <2>1, <2>2, WalkBehind
  <1>6. IsWalk(optr', <<c>> \o Lists[Initproc], c)
    <2>1. optr'[c] = cptr[Initproc]
      BY <1>1, <1>2
    <2>2. ASSUME NEW i \in 1 .. Len(Lists[Initproc])
          PROVE  optr'[Lists[Initproc][i]] = optr[Lists[Initproc][i]]
      <3>1. Lists[Initproc][i] \in Procs /\ parent[Lists[Initproc][i]] = Initproc
        BY <1>4
      <3> QED BY <1>1, <1>2, <3>1
    <2>3. IsWalk(optr, Lists[Initproc], cptr[Initproc])
      BY <1>4
    <2> QED BY <1>3, <2>1, <2>2, <2>3, WalkInFront
  <1> DEFINE f == [Lists EXCEPT ![x] = Tail(Lists[x]),
                                ![Initproc] = <<Head(Lists[x])>> \o Lists[Initproc]]
  <1>7. \A q \in Procs : (L!Chain(cptr[q]))' = f[q]
    <2> SUFFICES ASSUME NEW q \in Procs PROVE (L!Chain(cptr[q]))' = f[q]
      OBVIOUS
    <2>1. CASE q = Initproc
      <3>1. (L!Chain(cptr[Initproc]))' = <<c>> \o Lists[Initproc]
        BY <1>1, <1>2, <1>6, NewChain
      <3> QED BY <1>2, <1>4, <1>5, <2>1, <3>1
    <2>2. CASE q = x
      <3>1. cptr'[x] = optr[c]
        BY <1>1, <1>2
      <3>2. (L!Chain(cptr[x]))' = Tail(Lists[x])
        BY <1>1, <1>5, <3>1, NewChain
      <3> QED BY <1>2, <1>4, <2>2, <3>2
    <2>3. CASE q # Initproc /\ q # x
      <3>1. cptr'[q] = cptr[q] /\ \A r \in Procs : parent[r] = q => optr'[r] = optr[r]
        BY <1>1, <1>2, <2>3
      <3>2. (L!Chain(cptr[q]))' = L!Chain(cptr[q])
        BY <1>1, <3>1, SameChain
      <3> QED BY <1>4, <2>3, <3>2, ListsFacts
    <2> QED BY <2>1, <2>2, <2>3
  <1>8. f \in [Procs -> Seq(Procs)]
    <2>1. <<c>> \o Lists[Initproc] \in Seq(Procs) /\ Tail(Lists[x]) \in Seq(Procs)
      BY <1>5, <1>6 DEF IsWalk
    <2> QED BY <1>4, <1>5, <2>1
  <1>9. Lists' = f
    <2> HIDE DEF f
    <2> QED BY <1>7, <1>8, NewLists
  <1>10. L!Tree!Adopt(x)
    BY <1>5, <1>9 DEF L!Tree!Adopt, Lists
  <1> QED BY <1>1, <1>2, <1>10

\* set_links, remove_links and the loop of do_exit change the lists of children
\* as ProcTree says: a child is born in front of its siblings, one that is freed
\* leaves their order alone, and initproc adopts youngest first.
THEOREM TreesAreRefined == ListsSpec => TreesRefined
  <1>1. L!Init => L!Tree!Init
    BY TreeInit
  <1>2. ASSUME L!LinksInv, L!Next
        PROVE  [L!Tree!Next]_[p \in Procs |-> L!Chain(cptr[p])]
    <2>1. CASE \E p, child \in Procs : L!SetLinks(p, child)
      BY <1>2, <2>1, TreeFork DEF L!Tree!Next
    <2>2. CASE \E z \in Procs : L!RemoveLinks(z)
      BY <1>2, <2>2, TreeReap DEF L!Tree!Next
    <2>3. CASE L!AdoptChild
      BY <1>2, <2>3, TreeAdopt DEF L!Tree!Next
    <2>4. CASE (\E p \in Procs : L!StartExit(p)) \/ L!EndExit
      <3>1. cptr' = cptr /\ optr' = optr
        BY <2>4 DEF L!StartExit, L!EndExit
      <3> QED BY <3>1 DEF L!Chain
    <2> QED BY <1>2, <2>1, <2>2, <2>3, <2>4 DEF L!Next
  <1>3. ASSUME UNCHANGED links
        PROVE  UNCHANGED [p \in Procs |-> L!Chain(cptr[p])]
    BY <1>3 DEF links, L!Chain
  <1>4. L!LinksInv /\ [ListsNext]_<<part, vars, links, timers>>
            => [L!Tree!Next]_[p \in Procs |-> L!Chain(cptr[p])]
    BY <1>2, <1>3 DEF ListsNext
  <1> QED BY <1>1, <1>4, LinksInvariant, PTL
          DEF ListsSpec, ListsInit, TreesRefined, L!TreeRefinement, L!Tree!Spec

-----------------------------------------------------------------------------
(* The timers                                                              *)

LEMMA SameCardinalityT == \A S : T!Cardinality(S) = Cardinality(S)
  BY DEF T!Cardinality, Cardinality

\* A set that holds every number below one it holds is an interval from 1.
LEMMA FirstOnes ==
    ASSUME NEW N \in Nat, NEW S \in SUBSET (1 .. N),
           \A i \in S : \A j \in 1 .. i : j \in S
    PROVE  \E n \in 0 .. N : S = 1 .. n /\ T!Cardinality(S) = n
  <1> DEFINE B == {k \in Nat : k <= N /\ \A i \in S : i <= k}
  <1>1. PICK n \in B : \A m \in B : n <= m
    <2>1. N \in B /\ B \in SUBSET Nat
      OBVIOUS
    <2>2. B # {}
      BY <2>1
    <2> HIDE DEF B
    <2> QED BY <2>1, <2>2, LeastNumber
  <1>2. n \in Nat /\ n <= N /\ \A i \in S : i <= n
    OBVIOUS
  <1>3. n # 0 => n \in S
    <2> SUFFICES ASSUME n # 0, n \notin S PROVE FALSE
      OBVIOUS
    <2>1. n - 1 \in Nat /\ n - 1 <= N /\ ~(n <= n - 1) /\ \A i \in S : i <= n - 1
      BY <1>2
    <2>2. n - 1 \in B
      BY <2>1
    <2> HIDE DEF B
    <2> QED BY <1>1, <2>1, <2>2
  <1>4. S = 1 .. n
    <2>1. \A i \in S : i \in 1 .. n
      BY <1>2
    <2>2. ASSUME NEW j \in 1 .. n PROVE j \in S
      <3>1. n \in S
        BY <1>2, <1>3
      <3> QED BY <3>1
    <2> HIDE DEF B
    <2> QED BY <2>1, <2>2
  <1>5. Cardinality(1 .. n) = n
    <2>1. Cardinality(1 .. n) = IF 1 > n THEN 0 ELSE n - 1 + 1
      BY <1>2, FS_Interval
    <2> QED BY <1>2, <2>1
  <1>6. n \in 0 .. N
    BY <1>2
  <1> HIDE DEF B
  <1> QED BY <1>4, <1>5, <1>6, SameCardinalityT

Timer == [proc : Sleepers, expires : Nat]

\* f adds up the times of s.
Sums(s, f) == f = [i \in 0 .. Len(s) |-> IF i = 0 THEN 0 ELSE f[i - 1] + s[i].expires]

\* The recursive function of Expiry is what Sums says, if anything is.
LEMMA ExpirySums ==
    ASSUME NEW s, NEW g, Sums(s, g)
    PROVE  Sums(s, T!Expiry(s))
  BY DEF T!Expiry, Sums

\* There is always such a function: that of a shorter sequence can be extended.
LEMMA SumsExist ==
    ASSUME NEW s \in Seq(Timer), NEW N \in Nat
    PROVE  \E f \in [0 .. N -> Int] :
               N <= Len(s) => f = [i \in 0 .. N |-> IF i = 0 THEN 0 ELSE f[i - 1] + s[i].expires]
  <1> DEFINE Good(k, f) ==
               k <= Len(s) => f = [i \in 0 .. k |-> IF i = 0 THEN 0 ELSE f[i - 1] + s[i].expires]
             B == {k \in Nat : ~ \E f \in [0 .. k -> Int] : Good(k, f)}
  <1> SUFFICES ASSUME B # {} PROVE FALSE
    OBVIOUS
  <1>1. PICK k \in B : \A m \in B : k <= m
    <2>1. B \in SUBSET Nat /\ B # {}
      OBVIOUS
    <2> HIDE DEF B
    <2> QED BY <2>1, LeastNumber
  <1>2. k \in Nat /\ ~ \E f \in [0 .. k -> Int] : Good(k, f)
    OBVIOUS
  <1>3. k # 0
    <2> SUFFICES ASSUME k = 0 PROVE FALSE
      OBVIOUS
    <2>1. [i \in 0 .. 0 |-> 0] \in [0 .. 0 -> Int] /\ Good(0, [i \in 0 .. 0 |-> 0])
      OBVIOUS
    <2> QED BY <1>2, <2>1
  <1>4. PICK g \in [0 .. k - 1 -> Int] : Good(k - 1, g)
    <2>1. k - 1 \in Nat /\ ~(k <= k - 1)
      BY <1>2, <1>3
    <2>2. k - 1 \notin B
      <3> HIDE DEF B
      <3> QED BY <1>1, <2>1
    <2> QED BY <2>1, <2>2
  <1>5. k <= Len(s)
    <2> SUFFICES ASSUME ~(k <= Len(s)) PROVE FALSE
      OBVIOUS
    <2>1. [i \in 0 .. k |-> 0] \in [0 .. k -> Int] /\ Good(k, [i \in 0 .. k |-> 0])
      BY <1>2
    <2> QED BY <1>2, <2>1
  <1> DEFINE h == [i \in 0 .. k |-> IF i < k THEN g[i] ELSE g[k - 1] + s[k].expires]
  <1>6. \A i \in 1 .. Len(s) : s[i].expires \in Nat
    <2>1. \A i \in 1 .. Len(s) : s[i] \in Timer
      OBVIOUS
    <2> QED BY <2>1 DEF Timer
  <1>7. h \in [0 .. k -> Int]
    <2>1. k - 1 \in 0 .. k - 1 /\ k \in 1 .. Len(s)
      BY <1>2, <1>3, <1>5
    <2> QED BY <1>2, <1>6, <2>1
  <1>8. \A i \in 0 .. k : h[i] = IF i = 0 THEN 0 ELSE h[i - 1] + s[i].expires
    <2> SUFFICES ASSUME NEW i \in 0 .. k
                 PROVE  h[i] = IF i = 0 THEN 0 ELSE h[i - 1] + s[i].expires
      OBVIOUS
    <2>0. g = [j \in 0 .. k - 1 |-> IF j = 0 THEN 0 ELSE g[j - 1] + s[j].expires]
      <3>1. k - 1 <= Len(s)
        BY <1>2, <1>5
      <3> QED BY <1>4, <3>1
    <2>1. CASE i < k
      <3>1. h[i] = g[i] /\ i \in 0 .. k - 1
        BY <1>2, <2>1
      <3>2. g[i] = IF i = 0 THEN 0 ELSE g[i - 1] + s[i].expires
        BY <2>0, <3>1
      <3>3. i # 0 => h[i - 1] = g[i - 1]
        BY <1>2, <2>1
      <3> QED BY <3>1, <3>2, <3>3
    <2>2. CASE i = k
      <3>1. h[k] = g[k - 1] + s[k].expires /\ h[k - 1] = g[k - 1]
        BY <1>2, <1>3
      <3> QED BY <1>3, <2>2, <3>1
    <2> QED BY <1>2, <2>1, <2>2
  <1>9. Good(k, h)
    BY <1>7, <1>8
  <1> QED BY <1>2, <1>7, <1>9

LEMMA ExpiryFacts ==
    ASSUME NEW s \in Seq(Timer)
    PROVE  /\ Len(s) \in Nat /\ DOMAIN T!Expiry(s) = 0 .. Len(s)
           /\ \A i \in 1 .. Len(s) : s[i].expires \in Nat /\ s[i].proc \in Sleepers
           /\ \A i \in 0 .. Len(s) : T!Expiry(s)[i] \in Nat
           /\ T!Expiry(s)[0] = 0
           /\ \A i \in 1 .. Len(s) : T!Expiry(s)[i] = T!Expiry(s)[i - 1] + s[i].expires
  <1>1. PICK N \in Nat : N = Len(s)
    OBVIOUS
  <1>2. Sums(s, T!Expiry(s))
    <2>1. PICK f \in [0 .. N -> Int] : Sums(s, f)
      <3>1. PICK f \in [0 .. N -> Int] :
                N <= Len(s) => f = [i \in 0 .. N |-> IF i = 0 THEN 0 ELSE f[i - 1] + s[i].expires]
        BY SumsExist
      <3> QED BY <1>1, <3>1 DEF Sums
    <2> QED BY <2>1, ExpirySums
  <1>3. PICK f : f = T!Expiry(s) /\ f = [i \in 0 .. N |-> IF i = 0 THEN 0 ELSE f[i - 1] + s[i].expires]
    BY <1>1, <1>2 DEF Sums
  <1>4. \A i \in 1 .. N : s[i].expires \in Nat /\ s[i].proc \in Sleepers
    <2>1. \A i \in 1 .. N : s[i] \in Timer
      BY <1>1
    <2> QED BY <2>1 DEF Timer
  <1>5. \A i \in 0 .. N : f[i] \in Nat
    <2> DEFINE B == {i \in 0 .. N : f[i] \notin Nat}
    <2> SUFFICES ASSUME B # {} PROVE FALSE
      OBVIOUS
    <2>1. PICK n \in B : \A m \in B : n <= m
      <3>1. B \in SUBSET Nat /\ B # {}
        OBVIOUS
      <3> HIDE DEF B
      <3> QED BY <3>1, LeastNumber
    <2>2. n \in 0 .. N /\ f[n] \notin Nat
      OBVIOUS
    <2>3. n # 0 /\ f[n] = f[n - 1] + s[n].expires
      BY <1>3, <2>2
    <2>4. n - 1 \in 0 .. N /\ ~(n <= n - 1) /\ n \in 1 .. N
      BY <2>2, <2>3
    <2>5. f[n - 1] \in Nat
      BY <2>1, <2>4
    <2> QED BY <1>4, <2>2, <2>3, <2>4, <2>5
  <1>6. f[0] = 0 /\ \A i \in 1 .. N : f[i] = f[i - 1] + s[i].expires
    BY <1>3
  <1>7. DOMAIN f = 0 .. N
    BY <1>3
  <1> QED BY <1>1, <1>3, <1>4, <1>5, <1>6, <1>7

\* The times of a sequence are those that add up.
LEMMA ExpiryIs ==
    ASSUME NEW s \in Seq(Timer), NEW g, g \in [0 .. Len(s) -> Int],
           g[0] = 0, \A i \in 1 .. Len(s) : g[i] = g[i - 1] + s[i].expires
    PROVE  \A i \in 0 .. Len(s) : T!Expiry(s)[i] = g[i]
  <1>1. PICK f : f = T!Expiry(s)
    OBVIOUS
  <1>2. /\ Len(s) \in Nat /\ f[0] = 0
        /\ \A i \in 1 .. Len(s) : f[i] = f[i - 1] + s[i].expires
    BY <1>1, ExpiryFacts
  <1> DEFINE B == {i \in 0 .. Len(s) : f[i] # g[i]}
  <1> SUFFICES ASSUME B # {} PROVE FALSE
    BY <1>1
  <1>3. PICK n \in B : \A m \in B : n <= m
    <2>1. B \in SUBSET Nat /\ B # {}
      BY <1>2
    <2> HIDE DEF B
    <2> QED BY <2>1, LeastNumber
  <1>4. n \in 0 .. Len(s) /\ f[n] # g[n] /\ n # 0
    BY <1>2
  <1>5. n - 1 \in 0 .. Len(s) /\ ~(n <= n - 1) /\ n \in 1 .. Len(s)
    BY <1>2, <1>4
  <1>6. f[n - 1] = g[n - 1]
    BY <1>3, <1>5
  <1> QED BY <1>2, <1>4, <1>5, <1>6

\* Timers expire in the order of the list.
LEMMA ExpiryGrows ==
    ASSUME NEW s \in Seq(Timer)
    PROVE  \A j \in 0 .. Len(s) : \A i \in 0 .. j : T!Expiry(s)[i] <= T!Expiry(s)[j]
  <1>1. PICK f : f = T!Expiry(s)
    OBVIOUS
  <1>2. /\ Len(s) \in Nat
        /\ \A i \in 1 .. Len(s) : s[i].expires \in Nat
        /\ \A i \in 0 .. Len(s) : f[i] \in Nat
        /\ \A i \in 1 .. Len(s) : f[i] = f[i - 1] + s[i].expires
    BY <1>1, ExpiryFacts
  <1> DEFINE B == {j \in 0 .. Len(s) : \E i \in 0 .. j : ~(f[i] <= f[j])}
  <1> SUFFICES ASSUME B # {} PROVE FALSE
    BY <1>1
  <1>3. PICK n \in B : \A m \in B : n <= m
    <2>1. B \in SUBSET Nat /\ B # {}
      <3>1. \A j \in B : j \in 0 .. Len(s)
        OBVIOUS
      <3>2. \A j \in 0 .. Len(s) : j \in Nat
        BY <1>2
      <3> HIDE DEF B
      <3> QED BY <3>1, <3>2
    <2> HIDE DEF B
    <2> QED BY <2>1, LeastNumber
  <1>4. PICK i \in 0 .. n : ~(f[i] <= f[n])
    OBVIOUS
  <1>5. n \in 0 .. Len(s) /\ i \in 0 .. n
    BY <1>4
  <1>6. i # n /\ n # 0
    BY <1>2, <1>4, <1>5
  <1>7. n - 1 \in 0 .. Len(s) /\ n \in 1 .. Len(s) /\ i \in 0 .. n - 1 /\ ~(n <= n - 1)
        /\ i \in 0 .. Len(s)
    BY <1>2, <1>5, <1>6
  <1>8. f[i] <= f[n - 1]
    BY <1>3, <1>7
  <1>9. f[n] = f[n - 1] + s[n].expires /\ f[n - 1] \in Nat /\ s[n].expires \in Nat /\ f[i] \in Nat
    BY <1>2, <1>7
  <1> HIDE DEF B
  <1> QED BY <1>4, <1>8, <1>9

\* What TimerInv says of the list.
Ordered(s) ==
    /\ s \in Seq(Timer)
    /\ \A i, j \in 1 .. Len(s) : s[i].proc = s[j].proc => i = j
    /\ s # <<>> => s[1].expires > 0

\* What is left of every timer.
LEMMA RemainingFacts ==
    ASSUME NEW s, Ordered(s)
    PROVE  /\ DOMAIN T!Remaining(s) = Sleepers
           /\ T!Remaining(s) = [p \in Sleepers |-> T!Remaining(s)[p]]
           /\ \A i \in 1 .. Len(s) : /\ T!Remaining(s)[s[i].proc] = T!Expiry(s)[i]
                                     /\ T!Expiry(s)[i] \in Nat \ {0}
           /\ \A p \in Sleepers : (\A i \in 1 .. Len(s) : s[i].proc # p) => T!Remaining(s)[p] = 0
  <1>1. PICK e : e = T!Expiry(s)
    OBVIOUS
  <1>2. /\ s \in Seq(Timer) /\ Len(s) \in Nat
        /\ \A i, j \in 1 .. Len(s) : s[i].proc = s[j].proc => i = j
        /\ s # <<>> => s[1].expires > 0
    BY DEF Ordered
  <1>3. /\ \A i \in 1 .. Len(s) : s[i].expires \in Nat /\ s[i].proc \in Sleepers
        /\ \A i \in 0 .. Len(s) : e[i] \in Nat
        /\ e[0] = 0
        /\ \A i \in 1 .. Len(s) : e[i] = e[i - 1] + s[i].expires
    BY <1>1, <1>2, ExpiryFacts
  <1>4. ASSUME NEW i \in 1 .. Len(s) PROVE T!Remaining(s)[s[i].proc] = e[i]
    <2> DEFINE at == {j \in 1 .. Len(s) : s[j].proc = s[i].proc}
    <2>1. T!Remaining(s)[s[i].proc] = IF at = {} THEN 0 ELSE e[CHOOSE j \in at : TRUE]
      BY <1>1, <1>3 DEF T!Remaining
    <2>2. at = {i}
      BY <1>2
    <2>3. (CHOOSE j \in at : TRUE) = i
      BY <2>2
    <2> HIDE DEF at
    <2> QED BY <2>1, <2>2, <2>3
  <1>5. ASSUME NEW i \in 1 .. Len(s) PROVE e[i] \in Nat \ {0}
    <2>1. 1 \in 1 .. Len(s) /\ 0 \in 0 .. Len(s) /\ i \in 0 .. Len(s) /\ 1 \in 0 .. i /\ s # <<>>
      BY <1>2
    <2>2. e[1] = e[1 - 1] + s[1].expires /\ s[1].expires > 0 /\ s[1].expires \in Nat
      BY <1>2, <1>3, <2>1
    <2>3. e[1] <= e[i]
      BY <1>1, <1>2, <2>1, ExpiryGrows
    <2> QED BY <1>3, <2>1, <2>2, <2>3
  <1>6. ASSUME NEW p \in Sleepers, \A i \in 1 .. Len(s) : s[i].proc # p
        PROVE  T!Remaining(s)[p] = 0
    <2>1. {j \in 1 .. Len(s) : s[j].proc = p} = {}
      BY <1>6
    <2> QED BY <2>1 DEF T!Remaining
  <1>7. /\ DOMAIN T!Remaining(s) = Sleepers
        /\ T!Remaining(s) = [p \in Sleepers |-> T!Remaining(s)[p]]
    BY DEF T!Remaining
  <1> QED BY <1>1, <1>4, <1>5, <1>6, <1>7

LEMMA RemainingIs ==
    ASSUME NEW s, Ordered(s), NEW f, DOMAIN f = Sleepers, f = [p \in Sleepers |-> f[p]],
           \A i \in 1 .. Len(s) : f[s[i].proc] = T!Expiry(s)[i],
           \A p \in Sleepers : (\A i \in 1 .. Len(s) : s[i].proc # p) => f[p] = 0
    PROVE  T!Remaining(s) = f
  <1>1. \A p \in Sleepers : T!Remaining(s)[p] = f[p]
    <2> SUFFICES ASSUME NEW p \in Sleepers PROVE T!Remaining(s)[p] = f[p]
      OBVIOUS
    <2>1. CASE \A i \in 1 .. Len(s) : s[i].proc # p
      BY <2>1, RemainingFacts
    <2>2. CASE \E i \in 1 .. Len(s) : s[i].proc = p
      BY <2>2, RemainingFacts
    <2> QED BY <2>1, <2>2
  <1> QED BY <1>1, RemainingFacts

\* t is s with a timer of p behind the n-th, the one behind it shortened.
Inserted(s, t, n, p, e) ==
    /\ t \in Seq(Timer) /\ Len(t) = Len(s) + 1
    /\ \A i \in 1 .. n : t[i] = s[i]
    /\ t[n + 1].proc = p /\ t[n + 1].expires = e
    /\ \A i \in n + 1 .. Len(s) :
          /\ t[i + 1].proc = s[i].proc
          /\ t[i + 1].expires = IF i = n + 1 THEN s[i].expires - e ELSE s[i].expires

LEMMA TimerChanged ==
    ASSUME NEW u \in Timer, NEW k \in Nat, NEW r, r = [u EXCEPT !.expires = k]
    PROVE  r \in Timer /\ r.proc = u.proc /\ r.expires = k
  BY DEF Timer

LEMMA FirstChanged ==
    ASSUME NEW d \in Seq(Timer), d # <<>>, NEW r \in Timer, NEW b, b = [d EXCEPT ![1] = r]
    PROVE  b \in Seq(Timer) /\ Len(b) = Len(d) /\ b[1] = r
           /\ \A i \in 1 .. Len(d) : i # 1 => b[i] = d[i]
  OBVIOUS

LEMMA Joined ==
    ASSUME NEW c \in Seq(Timer), NEW b \in Seq(Timer)
    PROVE  /\ c \o b \in Seq(Timer) /\ Len(c \o b) = Len(c) + Len(b)
           /\ \A i \in 1 .. Len(c) : (c \o b)[i] = c[i]
           /\ \A i \in 1 .. Len(b) : (c \o b)[Len(c) + i] = b[i]
  OBVIOUS

\* The timers behind the new one.
LEMMA TakeTimeFacts ==
    ASSUME NEW d \in Seq(Timer), NEW e \in Nat, d # <<>> => d[1].expires >= e
    PROVE  /\ T!TakeTime(d, e) \in Seq(Timer) /\ Len(T!TakeTime(d, e)) = Len(d)
           /\ \A i \in 1 .. Len(d) :
                 /\ T!TakeTime(d, e)[i].proc = d[i].proc
                 /\ T!TakeTime(d, e)[i].expires =
                        IF i = 1 THEN d[i].expires - e ELSE d[i].expires
  <1>1. CASE d = <<>>
    BY <1>1 DEF T!TakeTime
  <1>2. CASE d # <<>>
    <2>1. PICK b : b = T!TakeTime(d, e) /\ b = [d EXCEPT ![1].expires = @ - e]
      BY <1>2 DEF T!TakeTime
    <2>2. 1 \in 1 .. Len(d) /\ d[1] \in Timer
      BY <1>2
    <2>3. PICK u \in Timer : u = d[1] /\ u.expires \in Nat /\ u.expires >= e
      BY <1>2, <2>2 DEF Timer
    <2>4. PICK r : r = [u EXCEPT !.expires = u.expires - e]
      OBVIOUS
    <2>5. r \in Timer /\ r.proc = u.proc /\ r.expires = u.expires - e
      <3>1. u.expires - e \in Nat
        BY <2>3
      <3> QED BY <2>4, <3>1, TimerChanged
    <2>6. b = [d EXCEPT ![1] = r]
      BY <2>1, <2>3, <2>4
    <2>7. /\ b \in Seq(Timer) /\ Len(b) = Len(d) /\ b[1] = r
          /\ \A i \in 1 .. Len(d) : i # 1 => b[i] = d[i]
      BY <1>2, <2>5, <2>6, FirstChanged
    <2> QED BY <2>1, <2>3, <2>5, <2>7
  <1> QED BY <1>1, <1>2

LEMMA InsertShape ==
    ASSUME NEW s \in Seq(Timer), NEW n \in Nat, n <= Len(s), NEW p \in Sleepers,
           NEW e \in Nat, n # Len(s) => s[n + 1].expires >= e
    PROVE  Inserted(s, Append(T!Take(s, n), [proc |-> p, expires |-> e])
                           \o T!TakeTime(T!Drop(s, n), e), n, p, e)
  <1>1. PICK N \in Nat : N = Len(s) /\ n <= N
    OBVIOUS
  <1>2. PICK a, d : a = T!Take(s, n) /\ d = T!Drop(s, n)
    OBVIOUS
  <1>3. /\ a \in Seq(Timer) /\ Len(a) = n
        /\ \A i \in 1 .. n : a[i] = s[i]
    BY <1>1, <1>2 DEF T!Take
  <1>4. /\ d \in Seq(Timer) /\ Len(d) = N - n
        /\ \A i \in 1 .. N - n : d[i] = s[n + i]
    BY <1>1, <1>2 DEF T!Drop
  <1>5. PICK b : b = T!TakeTime(d, e)
    OBVIOUS
  <1>6. /\ b \in Seq(Timer) /\ Len(b) = N - n
        /\ \A i \in 1 .. N - n :
              /\ b[i].proc = d[i].proc
              /\ b[i].expires = IF i = 1 THEN d[i].expires - e ELSE d[i].expires
    <2>1. d # <<>> => d[1].expires >= e
      <3> SUFFICES ASSUME d # <<>> PROVE d[1].expires >= e
        OBVIOUS
      <3>1. Len(d) # 0
        BY <1>4
      <3>2. 1 \in 1 .. N - n /\ n # N
        BY <1>1, <1>4, <3>1
      <3>3. d[1] = s[n + 1]
        BY <1>4, <3>2
      <3> QED BY <1>1, <3>2, <3>3
    <2>2. d \in Seq(Timer) /\ Len(d) = N - n
      BY <1>4
    <2>3. /\ T!TakeTime(d, e) \in Seq(Timer) /\ Len(T!TakeTime(d, e)) = Len(d)
          /\ \A i \in 1 .. Len(d) :
                 /\ T!TakeTime(d, e)[i].proc = d[i].proc
                 /\ T!TakeTime(d, e)[i].expires =
                        IF i = 1 THEN d[i].expires - e ELSE d[i].expires
      BY <2>1, <2>2, TakeTimeFacts
    <2> QED BY <1>5, <2>2, <2>3
  <1>7. PICK new \in Timer : new = [proc |-> p, expires |-> e] /\ new.proc = p /\ new.expires = e
    <2>1. PICK r : r = [proc |-> p, expires |-> e]
      OBVIOUS
    <2>2. r \in Timer /\ r.proc = p /\ r.expires = e
      BY <2>1 DEF Timer
    <2> QED BY <2>1, <2>2
  <1>8. PICK c : c = Append(a, new)
    OBVIOUS
  <1>9. /\ c \in Seq(Timer) /\ Len(c) = n + 1 /\ c[n + 1] = new
        /\ \A i \in 1 .. n : c[i] = a[i]
    BY <1>3, <1>8
  <1>10. PICK t : t = c \o b /\ t = Append(T!Take(s, n), [proc |-> p, expires |-> e])
                                     \o T!TakeTime(T!Drop(s, n), e)
    BY <1>2, <1>5, <1>7, <1>8
  <1>11. /\ t \in Seq(Timer) /\ Len(t) = N + 1
         /\ \A i \in 1 .. n + 1 : t[i] = c[i]
         /\ \A i \in 1 .. N - n : t[n + 1 + i] = b[i]
    <2>1. c \in Seq(Timer) /\ b \in Seq(Timer)
      BY <1>6, <1>9
    <2>2. /\ t \in Seq(Timer) /\ Len(t) = Len(c) + Len(b)
          /\ \A i \in 1 .. Len(c) : t[i] = c[i]
          /\ \A i \in 1 .. Len(b) : t[Len(c) + i] = b[i]
      <3>1. t = c \o b
        BY <1>10
      <3>2. /\ c \o b \in Seq(Timer) /\ Len(c \o b) = Len(c) + Len(b)
            /\ \A i \in 1 .. Len(c) : (c \o b)[i] = c[i]
            /\ \A i \in 1 .. Len(b) : (c \o b)[Len(c) + i] = b[i]
        BY <2>1, Joined
      <3> QED BY <3>1, <3>2, Zenon
    <2>4. Len(t) = N + 1
      BY <1>1, <1>6, <1>9, <2>2
    <2> QED BY <1>6, <1>9, <2>2, <2>4
  <1>12. \A i \in 1 .. n : t[i] = s[i]
    BY <1>3, <1>9, <1>11
  <1>13. t[n + 1] = new
    BY <1>9, <1>11
  <1>14. ASSUME NEW i \in n + 1 .. N
         PROVE  /\ t[i + 1].proc = s[i].proc
                /\ t[i + 1].expires = IF i = n + 1 THEN s[i].expires - e ELSE s[i].expires
    <2>1. PICK k \in 1 .. N - n : k = i - n
      BY <1>1
    <2>2. n + 1 + k = i + 1 /\ n + k = i /\ (k = 1 <=> i = n + 1)
      BY <1>1, <2>1
    <2>3. t[i + 1] = b[k] /\ d[k] = s[i]
      BY <1>4, <1>11, <2>2
    <2> QED BY <1>6, <2>2, <2>3
  <1> QED BY <1>1, <1>7, <1>10, <1>11, <1>12, <1>13, <1>14 DEF Inserted

\* What the times of the list with the new timer add up to.
LEMMA InsertSums ==
    ASSUME NEW s \in Seq(Timer), NEW t, NEW n \in Nat, n <= Len(s), NEW p \in Sleepers,
           NEW e \in Nat, Inserted(s, t, n, p, e)
    PROVE  /\ \A i \in 0 .. n : T!Expiry(t)[i] = T!Expiry(s)[i]
           /\ T!Expiry(t)[n + 1] = T!Expiry(s)[n] + e
           /\ \A i \in n + 1 .. Len(s) : T!Expiry(t)[i + 1] = T!Expiry(s)[i]
  <1>1. PICK N \in Nat : N = Len(s) /\ n <= N
    OBVIOUS
  <1>2. PICK x : x = T!Expiry(s)
    OBVIOUS
  <1>3. /\ \A i \in 1 .. N : s[i].expires \in Nat
        /\ \A i \in 0 .. N : x[i] \in Nat
        /\ x[0] = 0
        /\ \A i \in 1 .. N : x[i] = x[i - 1] + s[i].expires
    BY <1>1, <1>2, ExpiryFacts
  <1>4. /\ t \in Seq(Timer) /\ Len(t) = N + 1
        /\ \A i \in 1 .. n : t[i] = s[i]
        /\ t[n + 1].expires = e
        /\ \A i \in n + 1 .. N :
              t[i + 1].expires = IF i = n + 1 THEN s[i].expires - e ELSE s[i].expires
    BY <1>1 DEF Inserted
  <1> DEFINE G(i) == IF i <= n THEN x[i] ELSE IF i = n + 1 THEN x[n] + e ELSE x[i - 1]
             g == [i \in 0 .. N + 1 |-> G(i)]
  <1>5. g[0] = 0
    BY <1>1, <1>3
  <1>6. g \in [0 .. N + 1 -> Int]
    <2> SUFFICES ASSUME NEW i \in 0 .. N + 1 PROVE G(i) \in Int
      OBVIOUS
    <2>1. i <= n => i \in 0 .. N
      BY <1>1
    <2>2. n \in 0 .. N
      BY <1>1
    <2>3. i > n + 1 => i - 1 \in 0 .. N
      BY <1>1
    <2> QED BY <1>3, <2>1, <2>2, <2>3
  <1>7. ASSUME NEW i \in 1 .. N + 1 PROVE G(i) = G(i - 1) + t[i].expires
    <2>1. CASE i <= n
      <3>1. i \in 1 .. N /\ i \in 1 .. n /\ i - 1 <= n
        BY <1>1, <2>1
      <3>2. t[i] = s[i] /\ x[i] = x[i - 1] + s[i].expires
        BY <1>3, <1>4, <3>1
      <3> QED BY <2>1, <3>1, <3>2
    <2>2. CASE i = n + 1
      <3>1. i - 1 = n /\ ~(i <= n)
        BY <1>1, <2>2
      <3> QED BY <1>4, <2>2, <3>1
    <2>3. CASE i > n + 1
      <3>1. PICK j \in n + 1 .. N : j + 1 = i
        <4>1. i - 1 \in n + 1 .. N /\ (i - 1) + 1 = i
          BY <1>1, <2>3
        <4> QED BY <4>1
      <3>2. /\ j \in 1 .. N /\ j \in Int /\ i - 1 = j /\ ~(i <= n) /\ i # n + 1 /\ ~(j <= n)
            /\ j - 1 \in 0 .. N
        BY <1>1, <2>3, <3>1
      <3>3. x[j] = x[j - 1] + s[j].expires /\ s[j].expires \in Nat /\ x[j - 1] \in Nat
        BY <1>3, <3>2
      <3>4. t[i].expires = IF j = n + 1 THEN s[j].expires - e ELSE s[j].expires
        BY <1>4, <3>1
      <3>5. G(i) = x[j]
        BY <3>2
      <3>6. G(j) = IF j = n + 1 THEN x[n] + e ELSE x[j - 1]
        BY <3>2
      <3>7. j = n + 1 => j - 1 = n
        BY <1>1
      <3>8. n \in 0 .. N /\ x[n] \in Nat
        BY <1>1, <1>3
      <3>9. CASE j = n + 1
        <4>1. x[j] = x[n] + s[j].expires /\ t[i].expires = s[j].expires - e /\ G(i - 1) = x[n] + e
          BY <3>2, <3>3, <3>4, <3>6, <3>7, <3>9
        <4> HIDE DEF G
        <4> QED BY SMTT(30), <3>3, <3>5, <3>8, <4>1
      <3>10. CASE j # n + 1
        <4> HIDE DEF G
        <4> QED BY <3>2, <3>3, <3>4, <3>5, <3>6, <3>10
      <3> QED BY <3>9, <3>10
    <2> QED BY <1>1, <2>1, <2>2, <2>3
  <1>8. \A i \in 1 .. N + 1 : g[i] = g[i - 1] + t[i].expires
    <2>1. \A i \in 1 .. N + 1 : i \in 0 .. N + 1 /\ i - 1 \in 0 .. N + 1
      BY <1>1
    <2>2. \A i \in 0 .. N + 1 : g[i] = G(i)
      OBVIOUS
    <2> HIDE DEF g, G
    <2> QED BY <1>7, <2>1, <2>2
  <1>9. \A i \in 0 .. N + 1 : T!Expiry(t)[i] = g[i]
    <2> HIDE DEF g
    <2>1. PICK h : h = g
      OBVIOUS
    <2>2. t \in Seq(Timer) /\ h \in [0 .. Len(t) -> Int] /\ h[0] = 0
      BY <1>4, <1>5, <1>6, <2>1
    <2>3. \A i \in 1 .. Len(t) : h[i] = h[i - 1] + t[i].expires
      BY <1>4, <1>8, <2>1
    <2>4. \A i \in 0 .. Len(t) : T!Expiry(t)[i] = h[i]
      BY <2>2, <2>3, ExpiryIs
    <2> QED BY <1>4, <2>1, <2>4
  <1>10. \A i \in 0 .. n : i \in 0 .. N + 1 /\ g[i] = x[i]
    BY <1>1
  <1>11. n + 1 \in 0 .. N + 1 /\ g[n + 1] = x[n] + e
    BY <1>1
  <1>12. ASSUME NEW i \in n + 1 .. N PROVE i + 1 \in 0 .. N + 1 /\ g[i + 1] = x[i]
    <2>1. i + 1 \in 0 .. N + 1 /\ ~(i + 1 <= n) /\ i + 1 # n + 1 /\ (i + 1) - 1 = i
      BY <1>1
    <2> QED BY <2>1
  <1> HIDE DEF g
  <1> QED BY <1>1, <1>2, <1>9, <1>10, <1>11, <1>12

LEMMA PassedFacts ==
    ASSUME NEW s \in Seq(Timer), NEW time \in Nat
    PROVE  \E n \in 0 .. Len(s) :
               /\ T!Passed(s, time) = n
               /\ T!Expiry(s)[n] <= time
               /\ n # Len(s) => T!Expiry(s)[n + 1] > time
  <1>1. PICK N \in Nat : N = Len(s)
    OBVIOUS
  <1>2. PICK x : x = T!Expiry(s)
    OBVIOUS
  <1>3. x[0] = 0 /\ \A i \in 0 .. N : x[i] \in Nat
    BY <1>1, <1>2, ExpiryFacts
  <1>4. PICK S : S = {i \in 1 .. N : x[i] <= time}
    OBVIOUS
  <1>5. ASSUME NEW i \in S, NEW j \in 1 .. i PROVE j \in S
    <2>1. i \in 0 .. N /\ j \in 0 .. i /\ j \in 1 .. N /\ j \in 0 .. N /\ x[i] <= time
      BY <1>1, <1>4
    <2>2. x[j] <= x[i]
      BY <1>1, <1>2, <2>1, ExpiryGrows
    <2>3. x[j] <= time
      BY <1>3, <2>1, <2>2
    <2> QED BY <1>4, <2>1, <2>3
  <1>6. PICK n \in 0 .. N : S = 1 .. n /\ T!Cardinality(S) = n
    <2>1. S \in SUBSET (1 .. N)
      BY <1>4
    <2> QED BY <1>1, <1>5, <2>1, FirstOnes
  <1>7. T!Passed(s, time) = n
    BY <1>1, <1>2, <1>4, <1>6 DEF T!Passed
  <1>8. x[n] <= time
    <2>1. CASE n = 0
      BY <1>3, <2>1
    <2>2. CASE n # 0
      <3>1. n \in S
        BY <1>1, <1>6, <2>2
      <3> QED BY <1>4, <3>1
    <2> QED BY <2>1, <2>2
  <1>9. n # N => x[n + 1] > time
    <2> SUFFICES ASSUME n # N PROVE x[n + 1] > time
      OBVIOUS
    <2>1. n + 1 \in 1 .. N /\ n + 1 \notin 1 .. n /\ n + 1 \in 0 .. N
      BY <1>1
    <2>2. ~(x[n + 1] <= time)
      BY <1>4, <1>6, <2>1
    <2> QED BY <1>3, <2>1, <2>2
  <1> QED BY <1>1, <1>2, <1>7, <1>8, <1>9

LEMMA InsertOrdered ==
    ASSUME NEW s, Ordered(s), NEW t, NEW n \in Nat, n <= Len(s), NEW p \in Sleepers,
           NEW e \in Nat, Inserted(s, t, n, p, e),
           \A i \in 1 .. Len(s) : s[i].proc # p, n = 0 => e > 0
    PROVE  Ordered(t)
  <1>1. PICK N \in Nat : N = Len(s) /\ n <= N
    BY DEF Ordered
  <1>2. /\ t \in Seq(Timer) /\ Len(t) = N + 1
        /\ \A i \in 1 .. n : t[i] = s[i]
        /\ t[n + 1].proc = p /\ t[n + 1].expires = e
        /\ \A i \in n + 1 .. N : t[i + 1].proc = s[i].proc
    BY <1>1 DEF Inserted
  <1>3. /\ \A i, j \in 1 .. N : s[i].proc = s[j].proc => i = j
        /\ \A i \in 1 .. N : s[i].proc # p
        /\ s # <<>> => s[1].expires > 0
    BY <1>1 DEF Ordered
  <1> DEFINE from(i) == IF i <= n THEN i ELSE i - 1
  <1>4. \A i \in 1 .. N + 1 : i # n + 1 => from(i) \in 1 .. N /\ t[i].proc = s[from(i)].proc
    <2> SUFFICES ASSUME NEW i \in 1 .. N + 1, i # n + 1
                 PROVE  from(i) \in 1 .. N /\ t[i].proc = s[from(i)].proc
      OBVIOUS
    <2>1. CASE i <= n
      <3>1. i \in 1 .. n /\ i \in 1 .. N
        BY <1>1, <2>1
      <3> QED BY <1>2, <2>1, <3>1
    <2>2. CASE ~(i <= n)
      <3>1. i - 1 \in n + 1 .. N /\ (i - 1) + 1 = i /\ i - 1 \in 1 .. N
        BY <1>1, <2>2
      <3>2. t[(i - 1) + 1].proc = s[i - 1].proc
        BY <1>2, <3>1
      <3> QED BY <2>2, <3>1, <3>2
    <2> QED BY <2>1, <2>2
  <1>5. \A i, j \in 1 .. N + 1 : t[i].proc = t[j].proc => i = j
    <2> SUFFICES ASSUME NEW i \in 1 .. N + 1, NEW j \in 1 .. N + 1, t[i].proc = t[j].proc
                 PROVE  i = j
      OBVIOUS
    <2>1. CASE i # n + 1 /\ j # n + 1
      <3>1. from(i) = from(j)
        <4>1. from(i) \in 1 .. N /\ from(j) \in 1 .. N /\ s[from(i)].proc = s[from(j)].proc
          BY <1>4, <2>1
        <4> HIDE DEF from
        <4> QED BY <1>3, <4>1
      <3> QED BY <1>1, <2>1, <3>1
    <2>2. CASE i = n + 1 /\ j # n + 1
      <3>1. t[i].proc = p
        BY <1>2, <2>2
      <3> QED BY <1>3, <1>4, <2>2, <3>1
    <2>3. CASE i # n + 1 /\ j = n + 1
      <3>1. t[j].proc = p
        BY <1>2, <2>3
      <3> QED BY <1>3, <1>4, <2>3, <3>1
    <2> QED BY <2>1, <2>2, <2>3
  <1>6. t[1].expires > 0
    <2>1. CASE n = 0
      <3>1. e > 0 /\ t[n + 1].expires = e /\ n + 1 = 1
        BY <1>2, <2>1
      <3> QED BY <3>1
    <2>2. CASE n # 0
      <3>1. 1 \in 1 .. n /\ s # <<>>
        BY <1>1, <2>2
      <3> QED BY <1>2, <1>3, <3>1
    <2> QED BY <2>1, <2>2
  <1>7. \A i, j \in 1 .. Len(t) : t[i].proc = t[j].proc => i = j
    BY <1>2, <1>5
  <1> QED BY <1>2, <1>6, <1>7 DEF Ordered

LEMMA InsertRemaining ==
    ASSUME NEW s, Ordered(s), NEW t, NEW n \in Nat, n <= Len(s), NEW p \in Sleepers,
           NEW e \in Nat, Inserted(s, t, n, p, e), Ordered(t),
           \A i \in 1 .. Len(s) : s[i].proc # p
    PROVE  T!Remaining(t) = [T!Remaining(s) EXCEPT ![p] = T!Expiry(s)[n] + e]
  <1>1. PICK N \in Nat : N = Len(s) /\ n <= N
    BY DEF Ordered
  <1>2. PICK R, x, y : R = T!Remaining(s) /\ x = T!Expiry(s) /\ y = T!Expiry(t)
    OBVIOUS
  <1>3. /\ DOMAIN R = Sleepers /\ R = [q \in Sleepers |-> R[q]]
        /\ \A i \in 1 .. N : R[s[i].proc] = x[i]
        /\ \A q \in Sleepers : (\A i \in 1 .. N : s[i].proc # q) => R[q] = 0
    BY <1>1, <1>2, RemainingFacts
  <1>4. /\ Len(t) = N + 1
        /\ \A i \in 1 .. n : t[i] = s[i]
        /\ t[n + 1].proc = p
        /\ \A i \in n + 1 .. N : t[i + 1].proc = s[i].proc
    BY <1>1 DEF Inserted
  <1>5. /\ \A i \in 0 .. n : y[i] = x[i]
        /\ y[n + 1] = x[n] + e
        /\ \A i \in n + 1 .. N : y[i + 1] = x[i]
    <2>1. s \in Seq(Timer)
      BY DEF Ordered
    <2> QED BY <1>1, <1>2, <2>1, InsertSums
  <1>6. \A i \in 1 .. N : s[i].proc # p /\ s[i].proc \in Sleepers
    <2>1. s \in Seq(Timer)
      BY DEF Ordered
    <2> QED BY <1>1, <2>1, ExpiryFacts
  <1>7. PICK F : F = [R EXCEPT ![p] = x[n] + e]
    OBVIOUS
  <1>8. /\ DOMAIN F = Sleepers /\ F = [q \in Sleepers |-> F[q]]
        /\ F[p] = x[n] + e /\ \A q \in Sleepers : q # p => F[q] = R[q]
    BY <1>3, <1>7
  <1>9. ASSUME NEW i \in 1 .. N + 1 PROVE F[t[i].proc] = y[i]
    <2>1. CASE i <= n
      <3>1. i \in 1 .. n /\ i \in 0 .. n /\ i \in 1 .. N
        BY <1>1, <2>1
      <3> QED BY SMTT(30), ZenonT(90), <1>3, <1>4, <1>5, <1>6, <1>8, <3>1
    <2>2. CASE i = n + 1
      BY <1>4, <1>5, <1>8, <2>2
    <2>3. CASE i > n + 1
      <3>1. PICK j \in n + 1 .. N : j + 1 = i
        <4>1. i - 1 \in n + 1 .. N /\ (i - 1) + 1 = i
          BY <1>1, <2>3
        <4> QED BY <4>1
      <3>2. j \in 1 .. N
        BY <1>1, <3>1
      <3>3. t[i].proc = s[j].proc /\ y[i] = x[j]
        BY <1>4, <1>5, <3>1
      <3> QED BY <1>3, <1>6, <1>8, <3>2, <3>3
    <2> QED BY <1>1, <2>1, <2>2, <2>3
  <1>10. ASSUME NEW q \in Sleepers, \A i \in 1 .. N + 1 : t[i].proc # q PROVE F[q] = 0
    <2>1. q # p
      <3>1. n + 1 \in 1 .. N + 1
        BY <1>1
      <3> QED BY <1>4, <1>10, <3>1
    <2>2. ASSUME NEW i \in 1 .. N PROVE s[i].proc # q
      <3>1. CASE i <= n
        <4>1. i \in 1 .. n /\ i \in 1 .. N + 1
          BY <1>1, <3>1
        <4> QED BY <1>4, <1>10, <4>1
      <3>2. CASE i > n
        <4>1. i \in n + 1 .. N /\ i + 1 \in 1 .. N + 1
          BY <1>1, <3>2
        <4> QED BY <1>4, <1>10, <4>1
      <3> QED BY <1>1, <3>1, <3>2
    <2> QED BY <1>3, <1>8, <2>1, <2>2
  <1>11. \A i \in 1 .. Len(t) : F[t[i].proc] = T!Expiry(t)[i]
    BY <1>2, <1>4, <1>9
  <1>12. \A q \in Sleepers : (\A i \in 1 .. Len(t) : t[i].proc # q) => F[q] = 0
    BY <1>4, <1>10
  <1>13. T!Remaining(t) = F
    BY <1>8, <1>11, <1>12, RemainingIs
  <1> QED BY <1>2, <1>7, <1>13

\* add_timer: the new timer expires after the ticks it was set for, every other
\* timer when it did before.
LEMMA AddTimerStep ==
    ASSUME NEW s, Ordered(s), NEW p \in Sleepers, NEW time \in Nat \ {0}, NEW t,
           \A i \in 1 .. Len(s) : s[i].proc # p,
           NEW n, n = T!Passed(s, time), NEW e, e = time - T!Expiry(s)[n],
           t = Append(T!Take(s, n), [proc |-> p, expires |-> e])
                   \o T!TakeTime(T!Drop(s, n), e)
    PROVE  Ordered(t) /\ T!Remaining(t) = [T!Remaining(s) EXCEPT ![p] = time]
  <1>1. s \in Seq(Timer)
    BY DEF Ordered
  <1>2. /\ n \in 0 .. Len(s)
        /\ T!Expiry(s)[n] <= time
        /\ n # Len(s) => T!Expiry(s)[n + 1] > time
    BY <1>1, PassedFacts
  <1>3. PICK N \in Nat : N = Len(s)
    BY <1>1
  <1>4. PICK x : x = T!Expiry(s)
    OBVIOUS
  <1>5. /\ \A i \in 0 .. N : x[i] \in Nat
        /\ x[0] = 0
        /\ \A i \in 1 .. N : x[i] = x[i - 1] + s[i].expires /\ s[i].expires \in Nat
    BY <1>1, <1>3, <1>4, ExpiryFacts
  <1>6. n \in Nat /\ n <= N /\ n \in 0 .. N
    BY <1>2, <1>3
  <1>7. e \in Nat /\ x[n] + e = time /\ x[n] \in Nat
    BY <1>2, <1>4, <1>5, <1>6
  <1>8. n # N => s[n + 1].expires >= e
    <2> SUFFICES ASSUME n # N PROVE s[n + 1].expires >= e
      OBVIOUS
    <2>1. n + 1 \in 1 .. N /\ (n + 1) - 1 = n
      BY <1>3, <1>6
    <2>2. x[n + 1] = x[n] + s[n + 1].expires /\ s[n + 1].expires \in Nat /\ x[n + 1] > time
      BY <1>2, <1>3, <1>4, <1>5, <2>1
    <2> QED BY <1>7, <2>2
  <1>9. n = 0 => e > 0
    BY <1>5, <1>7
  <1>10. Inserted(s, t, n, p, e)
    BY <1>1, <1>3, <1>6, <1>7, <1>8, InsertShape
  <1>11. Ordered(t)
    BY <1>3, <1>6, <1>7, <1>9, <1>10, InsertOrdered
  <1>12. T!Remaining(t) = [T!Remaining(s) EXCEPT ![p] = T!Expiry(s)[n] + e]
    BY <1>3, <1>6, <1>7, <1>10, <1>11, InsertRemaining
  <1> QED BY <1>4, <1>7, <1>11, <1>12

\* t is s without its i-th timer, whose time went to the one behind it.
Deleted(s, t, i) ==
    /\ t \in Seq(Timer) /\ Len(t) = Len(s) - 1
    /\ \A j \in 1 .. i - 1 : t[j] = s[j]
    /\ \A j \in i .. Len(s) - 1 :
          /\ t[j].proc = s[j + 1].proc
          /\ t[j].expires = IF j = i THEN s[j + 1].expires + s[i].expires
                                     ELSE s[j + 1].expires

LEMMA GiveTimeFacts ==
    ASSUME NEW d \in Seq(Timer), NEW e \in Nat
    PROVE  /\ T!GiveTime(d, e) \in Seq(Timer) /\ Len(T!GiveTime(d, e)) = Len(d)
           /\ \A i \in 1 .. Len(d) :
                 /\ T!GiveTime(d, e)[i].proc = d[i].proc
                 /\ T!GiveTime(d, e)[i].expires =
                        IF i = 1 THEN d[i].expires + e ELSE d[i].expires
  <1>0. \A i \in 1 .. Len(d) : d[i].expires \in Nat
    BY ExpiryFacts
  <1>1. CASE d = <<>>
    BY <1>1 DEF T!GiveTime
  <1>2. CASE e = 0
    <2>1. T!GiveTime(d, e) = d
      BY <1>2 DEF T!GiveTime
    <2> QED BY <1>0, <1>2, <2>1
  <1>3. CASE d # <<>> /\ e # 0
    <2>1. PICK b : b = T!GiveTime(d, e) /\ b = [d EXCEPT ![1].expires = @ + e]
      BY <1>3 DEF T!GiveTime
    <2>2. 1 \in 1 .. Len(d) /\ d[1] \in Timer
      BY <1>3
    <2>3. PICK u \in Timer : u = d[1] /\ u.expires \in Nat
      BY <1>0, <2>2
    <2>4. PICK r : r = [u EXCEPT !.expires = u.expires + e]
      OBVIOUS
    <2>5. r \in Timer /\ r.proc = u.proc /\ r.expires = u.expires + e
      <3>1. u.expires + e \in Nat
        BY <2>3
      <3> QED BY <2>4, <3>1, TimerChanged
    <2>6. b = [d EXCEPT ![1] = r]
      BY <2>1, <2>3, <2>4
    <2>7. /\ b \in Seq(Timer) /\ Len(b) = Len(d) /\ b[1] = r
          /\ \A i \in 1 .. Len(d) : i # 1 => b[i] = d[i]
      BY <1>3, <2>5, <2>6, FirstChanged
    <2> QED BY <2>1, <2>3, <2>5, <2>7
  <1> QED BY <1>1, <1>2, <1>3

LEMMA DeleteShape ==
    ASSUME NEW s \in Seq(Timer), NEW i \in 1 .. Len(s)
    PROVE  Deleted(s, T!Take(s, i - 1) \o T!GiveTime(T!Drop(s, i), s[i].expires), i)
  <1>1. PICK N \in Nat : N = Len(s)
    OBVIOUS
  <1>2. PICK a, d, e : a = T!Take(s, i - 1) /\ d = T!Drop(s, i) /\ e = s[i].expires
    OBVIOUS
  <1>3. e \in Nat
    BY <1>2, ExpiryFacts
  <1>4. a \in Seq(Timer) /\ Len(a) = i - 1 /\ \A j \in 1 .. i - 1 : a[j] = s[j]
    BY <1>1, <1>2 DEF T!Take
  <1>5. /\ d \in Seq(Timer) /\ Len(d) = N - i
        /\ \A j \in 1 .. N - i : d[j] = s[i + j]
    BY <1>1, <1>2 DEF T!Drop
  <1>6. PICK b : b = T!GiveTime(d, e)
    OBVIOUS
  <1>7. /\ b \in Seq(Timer) /\ Len(b) = N - i
        /\ \A j \in 1 .. N - i :
              /\ b[j].proc = d[j].proc
              /\ b[j].expires = IF j = 1 THEN d[j].expires + e ELSE d[j].expires
    <2>1. d \in Seq(Timer) /\ Len(d) = N - i
      BY <1>5
    <2>2. /\ T!GiveTime(d, e) \in Seq(Timer) /\ Len(T!GiveTime(d, e)) = Len(d)
          /\ \A j \in 1 .. Len(d) :
                 /\ T!GiveTime(d, e)[j].proc = d[j].proc
                 /\ T!GiveTime(d, e)[j].expires =
                        IF j = 1 THEN d[j].expires + e ELSE d[j].expires
      BY <1>3, <2>1, GiveTimeFacts
    <2> QED BY <1>6, <2>1, <2>2
  <1>8. PICK t : t = a \o b /\ t = T!Take(s, i - 1) \o T!GiveTime(T!Drop(s, i), s[i].expires)
    BY <1>2, <1>6
  <1>9. /\ t \in Seq(Timer) /\ Len(t) = N - 1
        /\ \A j \in 1 .. i - 1 : t[j] = a[j]
        /\ \A j \in 1 .. N - i : t[i - 1 + j] = b[j]
    <2>1. a \in Seq(Timer) /\ b \in Seq(Timer)
      BY <1>4, <1>7
    <2>2. /\ t \in Seq(Timer) /\ Len(t) = Len(a) + Len(b)
          /\ \A j \in 1 .. Len(a) : t[j] = a[j]
          /\ \A j \in 1 .. Len(b) : t[Len(a) + j] = b[j]
      <3>1. t = a \o b
        BY <1>8
      <3>2. /\ a \o b \in Seq(Timer) /\ Len(a \o b) = Len(a) + Len(b)
            /\ \A j \in 1 .. Len(a) : (a \o b)[j] = a[j]
            /\ \A j \in 1 .. Len(b) : (a \o b)[Len(a) + j] = b[j]
        BY <2>1, Joined
      <3> QED BY <3>1, <3>2, Zenon
    <2>3. Len(t) = N - 1
      BY <1>1, <1>4, <1>7, <2>2
    <2> QED BY <1>4, <1>7, <2>2, <2>3
  <1>10. \A j \in 1 .. i - 1 : t[j] = s[j]
    BY <1>4, <1>9
  <1>11. ASSUME NEW j \in i .. N - 1
         PROVE  /\ t[j].proc = s[j + 1].proc
                /\ t[j].expires = IF j = i THEN s[j + 1].expires + e ELSE s[j + 1].expires
    <2>1. PICK k \in 1 .. N - i : k = j + 1 - i
      BY <1>1
    <2>2. i - 1 + k = j /\ i + k = j + 1 /\ (k = 1 <=> j = i)
      BY <1>1, <2>1
    <2>3. t[j] = b[k] /\ d[k] = s[j + 1]
      BY <1>5, <1>9, <2>2
    <2> QED BY <1>7, <2>2, <2>3
  <1> QED BY <1>1, <1>2, <1>8, <1>9, <1>10, <1>11 DEF Deleted

LEMMA DeleteSums ==
    ASSUME NEW s \in Seq(Timer), NEW t, NEW i \in 1 .. Len(s), Deleted(s, t, i)
    PROVE  \A j \in 0 .. Len(s) - 1 :
               T!Expiry(t)[j] = IF j <= i - 1 THEN T!Expiry(s)[j] ELSE T!Expiry(s)[j + 1]
  <1>1. PICK N \in Nat : N = Len(s) /\ i \in 1 .. N
    OBVIOUS
  <1>2. PICK x : x = T!Expiry(s)
    OBVIOUS
  <1>3. /\ \A j \in 1 .. N : s[j].expires \in Nat
        /\ \A j \in 0 .. N : x[j] \in Nat
        /\ x[0] = 0
        /\ \A j \in 1 .. N : x[j] = x[j - 1] + s[j].expires
    BY <1>1, <1>2, ExpiryFacts
  <1>4. /\ t \in Seq(Timer) /\ Len(t) = N - 1
        /\ \A j \in 1 .. i - 1 : t[j] = s[j]
        /\ \A j \in i .. N - 1 :
              t[j].expires = IF j = i THEN s[j + 1].expires + s[i].expires
                                      ELSE s[j + 1].expires
    BY <1>1 DEF Deleted
  <1> DEFINE G(j) == IF j <= i - 1 THEN x[j] ELSE x[j + 1]
  <1>5. PICK g : g = [j \in 0 .. N - 1 |-> G(j)]
    OBVIOUS
  <1>6. g \in [0 .. N - 1 -> Int]
    <2>1. \A j \in 0 .. N - 1 : j \in 0 .. N /\ j + 1 \in 0 .. N
      BY <1>1
    <2>2. \A j \in 0 .. N - 1 : G(j) \in Int
      BY <1>3, <2>1
    <2> HIDE DEF G
    <2> QED BY <1>5, <2>2
  <1>7. ASSUME NEW j \in 1 .. N - 1 PROVE G(j) = G(j - 1) + t[j].expires
    <2>0. j \in 1 .. N /\ j + 1 \in 1 .. N /\ j - 1 \in 0 .. N /\ (j + 1) - 1 = j /\ j \in 0 .. N
      BY <1>1
    <2>1. CASE j <= i - 1
      <3>1. t[j] = s[j] /\ j - 1 <= i - 1
        BY <1>1, <1>4, <2>1
      <3> QED BY <1>3, <2>0, <2>1, <3>1
    <2>2. CASE j = i
      <3>1. ~(j <= i - 1) /\ j - 1 <= i - 1 /\ j \in i .. N - 1
        BY <1>1, <2>2
      <3>2. t[j].expires = s[j + 1].expires + s[j].expires
        BY <1>4, <2>2, <3>1
      <3>3. /\ x[j + 1] = x[j] + s[j + 1].expires /\ x[j] = x[j - 1] + s[j].expires
            /\ x[j - 1] \in Nat /\ s[j].expires \in Nat /\ s[j + 1].expires \in Nat
        BY <1>3, <2>0
      <3>4. G(j) = x[j + 1] /\ G(j - 1) = x[j - 1]
        BY <3>1
      <3> HIDE DEF G
      <3> QED BY <3>2, <3>3, <3>4
    <2>3. CASE j > i
      <3>1. ~(j <= i - 1) /\ ~(j - 1 <= i - 1) /\ j \in i .. N - 1 /\ j # i /\ (j - 1) + 1 = j
        BY <1>1, <2>3
      <3>2. t[j].expires = s[j + 1].expires
        BY <1>4, <3>1
      <3>3. x[j + 1] = x[j] + s[j + 1].expires
        BY <1>3, <2>0
      <3>4. G(j) = x[j + 1] /\ G(j - 1) = x[j]
        BY <3>1
      <3> HIDE DEF G
      <3> QED BY <3>2, <3>3, <3>4
    <2> QED BY <1>1, <2>1, <2>2, <2>3
  <1>8. \A j \in 1 .. N - 1 : g[j] = g[j - 1] + t[j].expires
    <2>1. \A j \in 1 .. N - 1 : j \in 0 .. N - 1 /\ j - 1 \in 0 .. N - 1
      BY <1>1
    <2>2. \A j \in 0 .. N - 1 : g[j] = G(j)
      BY <1>5
    <2> HIDE DEF G
    <2> QED BY <1>7, <2>1, <2>2
  <1>9. g[0] = 0
    BY <1>1, <1>3, <1>5
  <1>10. \A j \in 0 .. N - 1 : T!Expiry(t)[j] = g[j]
    <2>1. t \in Seq(Timer) /\ g \in [0 .. Len(t) -> Int]
      BY <1>4, <1>6
    <2>2. \A j \in 1 .. Len(t) : g[j] = g[j - 1] + t[j].expires
      BY <1>4, <1>8
    <2>3. \A j \in 0 .. Len(t) : T!Expiry(t)[j] = g[j]
      BY <1>9, <2>1, <2>2, ExpiryIs
    <2> QED BY <1>4, <2>3
  <1> QED BY <1>1, <1>2, <1>5, <1>10

LEMMA DeleteOrdered ==
    ASSUME NEW s, Ordered(s), NEW t, NEW i \in 1 .. Len(s), Deleted(s, t, i)
    PROVE  Ordered(t)
  <1>1. PICK N \in Nat : N = Len(s) /\ i \in 1 .. N
    BY DEF Ordered
  <1>2. /\ t \in Seq(Timer) /\ Len(t) = N - 1
        /\ \A j \in 1 .. i - 1 : t[j] = s[j]
        /\ \A j \in i .. N - 1 : t[j].proc = s[j + 1].proc
        /\ \A j \in i .. N - 1 : j = i => t[j].expires = s[j + 1].expires + s[i].expires
    BY <1>1 DEF Deleted
  <1>3. /\ \A j, k \in 1 .. N : s[j].proc = s[k].proc => j = k
        /\ s # <<>> => s[1].expires > 0
    BY <1>1 DEF Ordered
  <1>4. \A j \in 1 .. N : s[j].expires \in Nat
    <2>1. s \in Seq(Timer)
      BY DEF Ordered
    <2> QED BY <1>1, <2>1, ExpiryFacts
  <1> DEFINE from(j) == IF j <= i - 1 THEN j ELSE j + 1
  <1>5. ASSUME NEW j \in 1 .. N - 1 PROVE from(j) \in 1 .. N /\ t[j].proc = s[from(j)].proc
    <2>1. CASE j <= i - 1
      <3>1. j \in 1 .. i - 1 /\ j \in 1 .. N
        BY <1>1, <2>1
      <3> QED BY <1>2, <2>1, <3>1
    <2>2. CASE ~(j <= i - 1)
      <3>1. j \in i .. N - 1 /\ j + 1 \in 1 .. N
        BY <1>1, <2>2
      <3> QED BY <1>2, <2>2, <3>1
    <2> QED BY <2>1, <2>2
  <1>6. \A j, k \in 1 .. Len(t) : t[j].proc = t[k].proc => j = k
    <2> SUFFICES ASSUME NEW j \in 1 .. N - 1, NEW k \in 1 .. N - 1, t[j].proc = t[k].proc
                 PROVE  j = k
      BY <1>2
    <2>1. from(j) = from(k)
      <3>1. from(j) \in 1 .. N /\ from(k) \in 1 .. N /\ s[from(j)].proc = s[from(k)].proc
        BY <1>5
      <3> HIDE DEF from
      <3> QED BY <1>3, <3>1
    <2> QED BY <1>1, <2>1
  <1>7. t # <<>> => t[1].expires > 0
    <2> SUFFICES ASSUME t # <<>> PROVE t[1].expires > 0
      OBVIOUS
    <2>1. 1 \in 1 .. N - 1 /\ s # <<>>
      <3>1. Len(t) # 0
        BY <1>2
      <3> QED BY <1>1, <1>2, <3>1
    <2>2. CASE i = 1
      <3>1. t[1].expires = s[2].expires + s[1].expires /\ 2 \in 1 .. N
        BY <1>1, <1>2, <2>1, <2>2
      <3>2. s[2].expires \in Nat /\ s[1].expires \in Nat /\ s[1].expires > 0
        BY <1>3, <1>4, <2>1, <3>1
      <3> QED BY <3>1, <3>2
    <2>3. CASE i # 1
      <3>1. 1 \in 1 .. i - 1
        BY <1>1, <2>3
      <3> QED BY <1>2, <1>3, <2>1, <3>1
    <2> QED BY <2>2, <2>3
  <1> QED BY <1>2, <1>6, <1>7 DEF Ordered

LEMMA DeleteRemaining ==
    ASSUME NEW s, Ordered(s), NEW t, NEW i \in 1 .. Len(s), Deleted(s, t, i), Ordered(t)
    PROVE  T!Remaining(t) = [T!Remaining(s) EXCEPT ![s[i].proc] = 0]
  <1>1. PICK N \in Nat : N = Len(s) /\ i \in 1 .. N
    BY DEF Ordered
  <1>2. PICK R, x, y, p : /\ R = T!Remaining(s) /\ x = T!Expiry(s) /\ y = T!Expiry(t)
                          /\ p = s[i].proc
    OBVIOUS
  <1>3. /\ DOMAIN R = Sleepers /\ R = [q \in Sleepers |-> R[q]]
        /\ \A j \in 1 .. N : R[s[j].proc] = x[j]
        /\ \A q \in Sleepers : (\A j \in 1 .. N : s[j].proc # q) => R[q] = 0
    BY <1>1, <1>2, RemainingFacts
  <1>4. /\ Len(t) = N - 1
        /\ \A j \in 1 .. i - 1 : t[j] = s[j]
        /\ \A j \in i .. N - 1 : t[j].proc = s[j + 1].proc
    BY <1>1 DEF Deleted
  <1>5. \A j \in 0 .. N - 1 : y[j] = IF j <= i - 1 THEN x[j] ELSE x[j + 1]
    <2>1. s \in Seq(Timer)
      BY DEF Ordered
    <2> QED BY <1>1, <1>2, <2>1, DeleteSums
  <1>6. /\ \A j \in 1 .. N : s[j].proc \in Sleepers
        /\ \A j \in 1 .. N : s[j].proc = p => j = i
    <2>1. s \in Seq(Timer) /\ \A j, k \in 1 .. N : s[j].proc = s[k].proc => j = k
      BY <1>1 DEF Ordered
    <2> QED BY <1>1, <1>2, <2>1, ExpiryFacts
  <1>7. PICK F : F = [R EXCEPT ![p] = 0]
    OBVIOUS
  <1>8. /\ DOMAIN F = Sleepers /\ F = [q \in Sleepers |-> F[q]]
        /\ F[p] = 0 /\ \A q \in Sleepers : q # p => F[q] = R[q]
    BY <1>1, <1>2, <1>3, <1>6, <1>7
  <1>9. ASSUME NEW j \in 1 .. N - 1 PROVE F[t[j].proc] = y[j]
    <2>1. CASE j <= i - 1
      <3>1. j \in 1 .. i - 1 /\ j \in 0 .. N - 1 /\ j \in 1 .. N /\ j # i
        BY <1>1, <2>1
      <3> QED BY SMTT(30), ZenonT(90), <1>3, <1>4, <1>5, <1>6, <1>8, <2>1, <3>1
    <2>2. CASE ~(j <= i - 1)
      <3>1. j \in i .. N - 1 /\ j \in 0 .. N - 1 /\ j + 1 \in 1 .. N /\ j + 1 # i
        BY <1>1, <2>2
      <3>2. t[j].proc = s[j + 1].proc /\ y[j] = x[j + 1]
        BY <1>4, <1>5, <2>2, <3>1
      <3> QED BY <1>3, <1>6, <1>8, <3>1, <3>2
    <2> QED BY <2>1, <2>2
  <1>10. ASSUME NEW q \in Sleepers, \A j \in 1 .. N - 1 : t[j].proc # q PROVE F[q] = 0
    <2>1. CASE q = p
      BY <1>8, <2>1
    <2>2. CASE q # p
      <3>1. ASSUME NEW j \in 1 .. N PROVE s[j].proc # q
        <4>1. CASE j <= i - 1
          <5>1. j \in 1 .. i - 1 /\ j \in 1 .. N - 1
            BY <1>1, <4>1
          <5> QED BY <1>4, <1>10, <5>1
        <4>2. CASE j = i
          BY <1>2, <2>2, <4>2
        <4>3. CASE j > i
          <5>1. j - 1 \in i .. N - 1 /\ j - 1 \in 1 .. N - 1 /\ (j - 1) + 1 = j
            BY <1>1, <4>3
          <5>2. t[j - 1].proc = s[(j - 1) + 1].proc
            BY <1>4, <5>1
          <5> QED BY <1>10, <5>1, <5>2
        <4> QED BY <1>1, <4>1, <4>2, <4>3
      <3> QED BY <1>3, <1>8, <2>2, <3>1
    <2> QED BY <2>1, <2>2
  <1>11. \A j \in 1 .. Len(t) : F[t[j].proc] = T!Expiry(t)[j]
    <2>1. \A j \in 1 .. Len(t) : j \in 1 .. N - 1
      BY <1>4
    <2> QED BY <1>2, <1>9, <2>1
  <1>12. \A q \in Sleepers : (\A j \in 1 .. Len(t) : t[j].proc # q) => F[q] = 0
    BY <1>4, <1>10
  <1>13. T!Remaining(t) = F
    BY <1>8, <1>11, <1>12, RemainingIs
  <1> QED BY <1>2, <1>7, <1>13

\* del_timer: the timer is gone and every other expires when it did before.
LEMMA DelTimerStep ==
    ASSUME NEW s, Ordered(s), NEW p, NEW i \in 1 .. Len(s), s[i].proc = p, NEW t,
           t = T!Take(s, i - 1) \o T!GiveTime(T!Drop(s, i), s[i].expires)
    PROVE  Ordered(t) /\ T!Remaining(t) = [T!Remaining(s) EXCEPT ![p] = 0]
  <1>1. Deleted(s, t, i)
    BY DeleteShape DEF Ordered
  <1> QED BY <1>1, DeleteOrdered, DeleteRemaining

\* The timers that are up, and what is left of the others without them.
LEMMA ExpiredFacts ==
    ASSUME NEW s \in Seq(Timer)
    PROVE  \E n \in 0 .. Len(s) :
               /\ T!Expired(s) = n
               /\ \A i \in 0 .. n : T!Expiry(s)[i] = 0
               /\ \A i \in n + 1 .. Len(s) : T!Expiry(s)[i] # 0
               /\ n # Len(s) => s[n + 1].expires # 0
  <1>1. PICK N \in Nat : N = Len(s)
    OBVIOUS
  <1>2. PICK x : x = T!Expiry(s)
    OBVIOUS
  <1>3. /\ x[0] = 0 /\ \A i \in 0 .. N : x[i] \in Nat
        /\ \A i \in 1 .. N : x[i] = x[i - 1] + s[i].expires /\ s[i].expires \in Nat
    BY <1>1, <1>2, ExpiryFacts
  <1>4. PICK S : S = {i \in 1 .. N : \A j \in 1 .. i : s[j].expires = 0}
    OBVIOUS
  <1>5. ASSUME NEW i \in S, NEW j \in 1 .. i PROVE j \in S
    <2>1. i \in 1 .. N /\ j \in 1 .. N /\ \A k \in 1 .. j : k \in 1 .. i
      BY <1>1, <1>4
    <2>2. \A k \in 1 .. i : s[k].expires = 0
      BY <1>4
    <2> QED BY <1>4, <2>1, <2>2
  <1>6. PICK n \in 0 .. N : S = 1 .. n /\ T!Cardinality(S) = n
    <2>1. S \in SUBSET (1 .. N)
      BY <1>4
    <2> QED BY <1>1, <1>5, <2>1, FirstOnes
  <1>7. T!Expired(s) = n
    BY <1>1, <1>4, <1>6 DEF T!Expired
  <1>8. \A i \in 1 .. n : s[i].expires = 0
    <2> SUFFICES ASSUME NEW i \in 1 .. n PROVE s[i].expires = 0
      OBVIOUS
    <2>1. i \in S /\ i \in 1 .. i
      BY <1>6
    <2> QED BY <1>4, <2>1
  <1>9. n # N => s[n + 1].expires # 0
    <2> SUFFICES ASSUME n # N, s[n + 1].expires = 0 PROVE FALSE
      OBVIOUS
    <2>1. n + 1 \in 1 .. N /\ n + 1 \notin 1 .. n
      BY <1>1
    <2>2. ASSUME NEW j \in 1 .. n + 1 PROVE s[j].expires = 0
      <3>1. j \in 1 .. n \/ j = n + 1
        BY <1>1
      <3> QED BY <1>8, <3>1
    <2>3. n + 1 \in S
      BY <1>4, <2>1, <2>2
    <2> QED BY <1>6, <2>1, <2>3
  <1>10. \A i \in 0 .. n : x[i] = 0
    <2> DEFINE B == {i \in 0 .. n : x[i] # 0}
    <2> SUFFICES ASSUME B # {} PROVE FALSE
      OBVIOUS
    <2>1. PICK k \in B : \A m \in B : k <= m
      <3>1. B \in SUBSET Nat /\ B # {}
        OBVIOUS
      <3> HIDE DEF B
      <3> QED BY <3>1, LeastNumber
    <2>2. k \in 0 .. n /\ x[k] # 0 /\ k # 0
      BY <1>3
    <2>3. k - 1 \in 0 .. n /\ ~(k <= k - 1) /\ k \in 1 .. n /\ k \in 1 .. N
      BY <1>1, <2>2
    <2>4. x[k - 1] = 0
      BY <2>1, <2>3
    <2>5. x[k] = x[k - 1] + s[k].expires /\ s[k].expires = 0
      BY <1>3, <1>8, <2>3
    <2> QED BY <2>2, <2>4, <2>5
  <1>11. ASSUME NEW i \in n + 1 .. N PROVE x[i] # 0
    <2>1. /\ n + 1 \in 1 .. N /\ n + 1 \in 0 .. i /\ i \in 0 .. N /\ (n + 1) - 1 = n
          /\ n + 1 \in 0 .. N /\ n \in 0 .. n /\ n # N
      BY <1>1
    <2>2. x[n + 1] <= x[i]
      BY <1>1, <1>2, <2>1, ExpiryGrows
    <2>3. x[n + 1] = x[n] + s[n + 1].expires /\ x[n] = 0
      BY <1>3, <1>10, <2>1
    <2>4. s[n + 1].expires \in Nat \ {0} /\ x[i] \in Nat
      BY <1>3, <1>9, <2>1
    <2> QED BY <2>2, <2>3, <2>4
  <1> QED BY <1>1, <1>2, <1>7, <1>9, <1>10, <1>11

LEMMA DropFacts ==
    ASSUME NEW s \in Seq(Timer), NEW n \in 0 .. Len(s)
    PROVE  /\ T!Drop(s, n) \in Seq(Timer) /\ Len(T!Drop(s, n)) = Len(s) - n
           /\ \A i \in 1 .. Len(s) - n : T!Drop(s, n)[i] = s[n + i]
  BY DEF T!Drop

LEMMA DropSums ==
    ASSUME NEW s \in Seq(Timer), NEW n \in 0 .. Len(s), T!Expiry(s)[n] = 0
    PROVE  \A i \in 0 .. Len(s) - n : T!Expiry(T!Drop(s, n))[i] = T!Expiry(s)[n + i]
  <1>1. PICK N \in Nat : N = Len(s) /\ n \in 0 .. N
    OBVIOUS
  <1>2. PICK x : x = T!Expiry(s) /\ x[n] = 0
    OBVIOUS
  <1>3. /\ \A i \in 0 .. N : x[i] \in Nat
        /\ \A i \in 1 .. N : x[i] = x[i - 1] + s[i].expires
    BY <1>1, <1>2, ExpiryFacts
  <1>4. PICK t : t = T!Drop(s, n)
    OBVIOUS
  <1>5. t \in Seq(Timer) /\ Len(t) = N - n /\ \A i \in 1 .. N - n : t[i] = s[n + i]
    BY <1>1, <1>4, DropFacts
  <1>6. PICK g : g = [i \in 0 .. N - n |-> x[n + i]]
    OBVIOUS
  <1>7. g \in [0 .. N - n -> Int]
    <2>1. \A i \in 0 .. N - n : n + i \in 0 .. N
      BY <1>1
    <2> QED BY <1>3, <1>6, <2>1
  <1>8. g[0] = 0
    <2>1. 0 \in 0 .. N - n /\ n + 0 = n
      BY <1>1
    <2> QED BY <1>2, <1>6, <2>1
  <1>9. ASSUME NEW i \in 1 .. N - n PROVE g[i] = g[i - 1] + t[i].expires
    <2>1. /\ n + i \in 1 .. N /\ (n + i) - 1 = n + (i - 1)
          /\ i \in 0 .. N - n /\ i - 1 \in 0 .. N - n
      BY <1>1
    <2>2. x[n + i] = x[(n + i) - 1] + s[n + i].expires
      BY <1>3, <2>1
    <2>3. g[i] = x[n + i] /\ g[i - 1] = x[n + (i - 1)]
      BY <1>6, <2>1
    <2> QED BY <1>5, <2>1, <2>2, <2>3
  <1>10. \A i \in 0 .. Len(t) : T!Expiry(t)[i] = g[i]
    <2>1. g \in [0 .. Len(t) -> Int] /\ \A i \in 1 .. Len(t) : g[i] = g[i - 1] + t[i].expires
      BY <1>5, <1>7, <1>9
    <2> QED BY <1>5, <1>8, <2>1, ExpiryIs
  <1> QED BY <1>1, <1>2, <1>4, <1>5, <1>6, <1>10

\* u is s with one tick less on the first timer.
Ticked(s, u) ==
    /\ u \in Seq(Timer) /\ Len(u) = Len(s)
    /\ \A i \in 1 .. Len(s) :
          /\ u[i].proc = s[i].proc
          /\ u[i].expires = IF i = 1 THEN s[i].expires - 1 ELSE s[i].expires

LEMMA TickShape ==
    ASSUME NEW s, Ordered(s), s # <<>>, NEW u, u = [s EXCEPT ![1].expires = @ - 1]
    PROVE  Ticked(s, u)
  <1>1. s \in Seq(Timer) /\ s[1].expires > 0
    BY DEF Ordered
  <1>2. 1 \in 1 .. Len(s)
    BY <1>1
  <1>3. PICK v \in Timer : v = s[1] /\ v.expires \in Nat /\ v.expires > 0
    <2>1. s[1] \in Timer
      BY <1>1, <1>2
    <2> QED BY <1>1, <2>1 DEF Timer
  <1>4. PICK r : r = [v EXCEPT !.expires = v.expires - 1]
    OBVIOUS
  <1>5. r \in Timer /\ r.proc = v.proc /\ r.expires = v.expires - 1
    <2>1. v.expires - 1 \in Nat
      BY <1>3
    <2> QED BY <1>4, <2>1, TimerChanged
  <1>6. u = [s EXCEPT ![1] = r]
    BY <1>3, <1>4
  <1>7. /\ u \in Seq(Timer) /\ Len(u) = Len(s) /\ u[1] = r
        /\ \A i \in 1 .. Len(s) : i # 1 => u[i] = s[i]
    BY <1>1, <1>5, <1>6, FirstChanged
  <1>8. \A i \in 1 .. Len(s) :
          /\ u[i].proc = s[i].proc
          /\ u[i].expires = IF i = 1 THEN s[i].expires - 1 ELSE s[i].expires
    BY <1>3, <1>5, <1>7
  <1> QED BY <1>7, <1>8 DEF Ticked

LEMMA TickSums ==
    ASSUME NEW s \in Seq(Timer), NEW u, Ticked(s, u)
    PROVE  \A i \in 1 .. Len(s) : T!Expiry(u)[i] = T!Expiry(s)[i] - 1
  <1>1. PICK N \in Nat : N = Len(s)
    OBVIOUS
  <1>2. PICK x : x = T!Expiry(s)
    OBVIOUS
  <1>3. /\ \A i \in 0 .. N : x[i] \in Nat
        /\ x[0] = 0
        /\ \A i \in 1 .. N : x[i] = x[i - 1] + s[i].expires /\ s[i].expires \in Nat
    BY <1>1, <1>2, ExpiryFacts
  <1>4. /\ u \in Seq(Timer) /\ Len(u) = N
        /\ \A i \in 1 .. N :
              u[i].expires = IF i = 1 THEN s[i].expires - 1 ELSE s[i].expires
    BY <1>1 DEF Ticked
  <1>5. PICK g : g = [i \in 0 .. N |-> IF i = 0 THEN 0 ELSE x[i] - 1]
    OBVIOUS
  <1>6. g \in [0 .. N -> Int] /\ g[0] = 0
    BY <1>1, <1>3, <1>5
  <1>7. ASSUME NEW i \in 1 .. N PROVE g[i] = g[i - 1] + u[i].expires
    <2>1. i \in 0 .. N /\ i - 1 \in 0 .. N /\ i # 0
      BY <1>1
    <2>2. x[i] = x[i - 1] + s[i].expires /\ s[i].expires \in Nat /\ x[i - 1] \in Nat
      BY <1>3, <2>1
    <2>3. g[i] = x[i] - 1 /\ g[i - 1] = IF i - 1 = 0 THEN 0 ELSE x[i - 1] - 1
      BY <1>5, <2>1
    <2>4. CASE i = 1
      <3>1. x[i - 1] = 0 /\ g[i - 1] = 0
        BY <1>3, <2>3, <2>4
      <3>2. u[i].expires = s[i].expires - 1
        BY <1>4, <2>4
      <3> QED BY <2>2, <2>3, <3>1, <3>2
    <2>5. CASE i # 1
      <3>1. g[i - 1] = x[i - 1] - 1
        BY <2>1, <2>3, <2>5
      <3>2. u[i].expires = s[i].expires
        BY <1>4, <2>5
      <3> QED BY <2>2, <2>3, <3>1, <3>2
    <2> QED BY <2>4, <2>5
  <1>8. \A i \in 0 .. Len(u) : T!Expiry(u)[i] = g[i]
    <2>1. g \in [0 .. Len(u) -> Int] /\ \A i \in 1 .. Len(u) : g[i] = g[i - 1] + u[i].expires
      BY <1>4, <1>6, <1>7
    <2> QED BY SMTT(30), ZenonT(90), <1>4, <1>6, <2>1, ExpiryIs
  <1>9. \A i \in 1 .. N : i \in 0 .. Len(u) /\ g[i] = x[i] - 1
    BY <1>1, <1>4, <1>5
  <1> QED BY <1>1, <1>2, <1>8, <1>9

\* t is what a tick leaves of s, and woken the processes whose time is up.
AfterTick(s, t, woken) ==
    /\ Ordered(t)
    /\ T!Remaining(t) = [p \in Sleepers |-> IF T!Remaining(s)[p] > 0
                                            THEN T!Remaining(s)[p] - 1 ELSE 0]
    /\ woken = {p \in Sleepers : T!Remaining(s)[p] = 1}

LEMMA TickStep ==
    ASSUME NEW s, Ordered(s), NEW u, Ticked(s, u), NEW n, n = T!Expired(u),
           NEW t, t = T!Drop(u, n), NEW woken, woken = {u[i].proc : i \in 1 .. n}
    PROVE  AfterTick(s, t, woken)
  <1>1. s \in Seq(Timer) /\ u \in Seq(Timer)
    BY DEF Ordered, Ticked
  <1>2. PICK N \in Nat : N = Len(s) /\ N = Len(u)
    BY <1>1 DEF Ticked
  <1>3. PICK x, z, y, R : /\ x = T!Expiry(s) /\ z = T!Expiry(u) /\ y = T!Expiry(t)
                          /\ R = T!Remaining(s)
    OBVIOUS
  <1>4. /\ n \in 0 .. N
        /\ \A i \in 0 .. n : z[i] = 0
        /\ \A i \in n + 1 .. N : z[i] # 0
        /\ n # N => u[n + 1].expires # 0
    BY <1>1, <1>2, <1>3, ExpiredFacts
  <1>5. /\ \A i \in 0 .. N : z[i] \in Nat
        /\ \A i \in 1 .. N : u[i].expires \in Nat
    BY <1>1, <1>2, <1>3, ExpiryFacts
  <1>6. \A i \in 1 .. N : x[i] \in Nat /\ s[i].proc \in Sleepers
    <2>1. \A i \in 1 .. N : i \in 0 .. N
      BY <1>2
    <2> QED BY <1>1, <1>2, <1>3, <2>1, ExpiryFacts
  <1>7. \A i \in 1 .. N : z[i] = x[i] - 1
    BY <1>1, <1>2, <1>3, TickSums
  <1>8. /\ \A i \in 1 .. N : u[i].proc = s[i].proc
        /\ \A i, j \in 1 .. N : s[i].proc = s[j].proc => i = j
    BY <1>2 DEF Ordered, Ticked
  <1>9. /\ DOMAIN R = Sleepers /\ R = [q \in Sleepers |-> R[q]]
        /\ \A i \in 1 .. N : R[s[i].proc] = x[i] /\ x[i] \in Nat \ {0}
        /\ \A q \in Sleepers : (\A i \in 1 .. N : s[i].proc # q) => R[q] = 0
    BY <1>2, <1>3, RemainingFacts
  <1>10. t \in Seq(Timer) /\ Len(t) = N - n /\ \A i \in 1 .. N - n : t[i] = u[n + i]
    BY SMTT(30), ZenonT(90), <1>1, <1>2, <1>4, DropFacts
  <1>11. \A i \in 0 .. N - n : y[i] = z[n + i]
    <2>1. n \in 0 .. n
      BY <1>4
    <2>2. n \in 0 .. Len(u) /\ T!Expiry(u)[n] = 0
      BY <1>2, <1>3, <1>4, <2>1
    <2> QED BY SMTT(30), ZenonT(90), <1>1, <1>2, <1>3, <2>2, DropSums
  <1>12. Ordered(t)
    <2>1. ASSUME NEW i \in 1 .. Len(t), NEW j \in 1 .. Len(t), t[i].proc = t[j].proc
          PROVE  i = j
      <3>1. /\ i \in 1 .. N - n /\ j \in 1 .. N - n
            /\ n + i \in 1 .. N /\ n + j \in 1 .. N
        BY <1>2, <1>4, <1>10
      <3>2. t[i] = u[n + i] /\ t[j] = u[n + j]
        BY <1>10, <3>1
      <3>3. s[n + i].proc = s[n + j].proc
        BY <1>8, <2>1, <3>1, <3>2
      <3>4. n + i = n + j
        BY <1>8, <3>1, <3>3
      <3> QED BY <1>4, <3>1, <3>4
    <2>2. ASSUME t # <<>> PROVE t[1].expires > 0
      <3>1. Len(t) # 0
        BY <1>10, <2>2
      <3>2. 1 \in 1 .. N - n /\ n # N /\ n + 1 \in 1 .. N
        BY <1>4, <1>10, <3>1
      <3>3. t[1] = u[n + 1]
        BY <1>10, <3>2
      <3>4. u[n + 1].expires \in Nat \ {0}
        BY <1>4, <1>5, <3>2
      <3> QED BY <3>3, <3>4
    <2> QED BY <1>10, <2>1, <2>2 DEF Ordered
  <1>13. PICK F : F = [p \in Sleepers |-> IF R[p] > 0 THEN R[p] - 1 ELSE 0]
    OBVIOUS
  <1>14. ASSUME NEW i \in 1 .. N - n PROVE F[t[i].proc] = y[i]
    <2>1. n + i \in 1 .. N /\ i \in 0 .. N - n
      BY <1>4
    <2>2. t[i].proc = s[n + i].proc
      BY <1>8, <1>10, <2>1
    <2>3. R[t[i].proc] = x[n + i] /\ x[n + i] \in Nat \ {0} /\ t[i].proc \in Sleepers
      BY <1>6, <1>9, <2>1, <2>2
    <2>4. F[t[i].proc] = x[n + i] - 1
      BY <1>13, <2>3
    <2> QED BY <1>7, <1>11, <2>1, <2>4
  <1>15. ASSUME NEW q \in Sleepers, \A i \in 1 .. N - n : t[i].proc # q PROVE F[q] = 0
    <2>1. CASE \A i \in 1 .. N : s[i].proc # q
      BY <1>9, <1>13, <2>1
    <2>2. CASE \E i \in 1 .. N : s[i].proc = q
      <3>1. PICK i \in 1 .. N : s[i].proc = q
        BY <2>2
      <3>2. i <= n
        <4> SUFFICES ASSUME ~(i <= n) PROVE FALSE
          OBVIOUS
        <4>1. i - n \in 1 .. N - n /\ n + (i - n) = i
          BY <1>4
        <4>2. t[i - n] = u[i]
          BY <1>10, <4>1
        <4> QED BY <1>8, <1>15, <3>1, <4>1, <4>2
      <3>3. i \in 0 .. n
        BY <1>4, <3>2
      <3>4. z[i] = 0 /\ z[i] = x[i] - 1 /\ x[i] \in Nat
        BY <1>4, <1>6, <1>7, <3>3
      <3>5. R[q] = 1
        BY <1>9, <3>1, <3>4
      <3> QED BY <1>13, <3>5
    <2> QED BY <2>1, <2>2
  <1>16. T!Remaining(t) = F
    <2>1. DOMAIN F = Sleepers /\ F = [p \in Sleepers |-> F[p]]
      BY <1>13
    <2>2. \A i \in 1 .. Len(t) : F[t[i].proc] = T!Expiry(t)[i]
      BY <1>3, <1>10, <1>14
    <2>3. \A q \in Sleepers : (\A i \in 1 .. Len(t) : t[i].proc # q) => F[q] = 0
      BY <1>10, <1>15
    <2> QED BY <1>12, <2>1, <2>2, <2>3, RemainingIs
  <1>17. {u[i].proc : i \in 1 .. n} = {p \in Sleepers : R[p] = 1}
    <2>1. ASSUME NEW i \in 1 .. n PROVE u[i].proc \in Sleepers /\ R[u[i].proc] = 1
      <3>1. i \in 1 .. N /\ i \in 0 .. n
        BY <1>4
      <3>2. z[i] = 0 /\ z[i] = x[i] - 1 /\ x[i] \in Nat
        BY <1>4, <1>6, <1>7, <3>1
      <3>3. R[s[i].proc] = x[i] /\ u[i].proc = s[i].proc /\ s[i].proc \in Sleepers
        BY <1>6, <1>8, <1>9, <3>1
      <3> QED BY <3>2, <3>3
    <2>2. ASSUME NEW p \in Sleepers, R[p] = 1 PROVE \E i \in 1 .. n : u[i].proc = p
      <3>1. PICK i \in 1 .. N : s[i].proc = p
        BY <1>9, <2>2
      <3>2. x[i] = 1 /\ z[i] = 0
        <4>1. x[i] = 1
          BY <1>9, <2>2, <3>1
        <4> QED BY <1>7, <4>1
      <3>3. i \in 1 .. n
        BY <1>4, <3>2
      <3> QED BY <1>8, <3>1, <3>3
    <2> QED BY <2>1, <2>2
  <1> QED BY <1>3, <1>12, <1>13, <1>16, <1>17 DEF AfterTick

LEMMA TimersInit ==
    ASSUME T!Init
    PROVE  T!TimerInv /\ T!Timers!Init
  <1>1. timer_list = <<>> /\ fired = {} /\ failed = FALSE
    BY DEF T!Init
  <1>2. Ordered(timer_list)
    BY <1>1 DEF Ordered
  <1>3. \A i \in 1 .. Len(timer_list) : timer_list[i].proc \notin Sleepers
    BY <1>1
  <1>4. \A p \in Sleepers : T!Remaining(timer_list)[p] = 0
    <2>1. \A p \in Sleepers : \A i \in 1 .. Len(timer_list) : timer_list[i].proc # p
      BY <1>1
    <2> QED BY <1>2, <2>1, RemainingFacts
  <1>5. T!Remaining(timer_list) = [p \in Sleepers |-> 0]
    BY <1>2, <1>4, RemainingFacts
  <1> QED BY <1>1, <1>2, <1>5 DEF T!TimerInv, T!FirstHasTime, T!Timers!Init, Ordered, Timer

LEMMA TimersAdd ==
    ASSUME T!TimerInv, NEW p \in Sleepers, NEW time \in 1 .. MaxSleep, T!AddTimer(p, time)
    PROVE  T!TimerInv' /\ T!Timers!Add(p, time)
  <1>1. PICK s, t : s = timer_list /\ t = timer_list'
    OBVIOUS
  <1>2. Ordered(s) /\ ~failed
    BY <1>1 DEF T!TimerInv, T!FirstHasTime, Ordered, Timer
  <1>3. PICK n, e : n = T!Passed(s, time) /\ e = time - T!Expiry(s)[n]
    OBVIOUS
  <1>4. /\ t = Append(T!Take(s, n), [proc |-> p, expires |-> e])
                   \o T!TakeTime(T!Drop(s, n), e)
        /\ p \notin T!Queued /\ fired' = {} /\ failed' = failed
    BY <1>1, <1>3 DEF T!AddTimer
  <1>5. time \in Nat \ {0}
    BY ListsAssumption
  <1>6. \A i \in 1 .. Len(s) : s[i].proc # p
    BY <1>1, <1>4 DEF T!Queued
  <1>7. Ordered(t) /\ T!Remaining(t) = [T!Remaining(s) EXCEPT ![p] = time]
    BY <1>2, <1>3, <1>4, <1>5, <1>6, AddTimerStep
  <1>8. T!Remaining(s)[p] = 0
    BY <1>2, <1>6, RemainingFacts
  <1>9. T!TimerInv'
    BY <1>1, <1>2, <1>4, <1>7 DEF T!TimerInv, T!FirstHasTime, Ordered, Timer
  <1> QED BY <1>1, <1>4, <1>7, <1>8, <1>9 DEF T!Timers!Add

LEMMA TimersDelete ==
    ASSUME T!TimerInv, NEW p \in Sleepers, T!DelTimer(p)
    PROVE  T!TimerInv' /\ T!Timers!Delete(p)
  <1>1. PICK s, t : s = timer_list /\ t = timer_list'
    OBVIOUS
  <1>2. Ordered(s) /\ ~failed
    BY <1>1 DEF T!TimerInv, T!FirstHasTime, Ordered, Timer
  <1>3. fired' = {} /\ failed' = failed
    BY DEF T!DelTimer
  <1>4. Ordered(t) /\ T!Remaining(t) = [T!Remaining(s) EXCEPT ![p] = 0]
    <2>1. CASE \E i \in 1 .. Len(s) :
                  /\ s[i].proc = p
                  /\ t = T!Take(s, i - 1) \o T!GiveTime(T!Drop(s, i), s[i].expires)
      BY <1>2, <2>1, DelTimerStep
    <2>2. CASE p \notin T!Queued /\ t = s
      <3>1. \A i \in 1 .. Len(s) : s[i].proc # p
        BY <1>1, <2>2 DEF T!Queued
      <3>2. T!Remaining(s)[p] = 0
        BY <1>2, <3>1, RemainingFacts
      <3>3. T!Remaining(s) = [q \in Sleepers |-> T!Remaining(s)[q]]
        BY <1>2, RemainingFacts
      <3>4. T!Remaining(s) = [T!Remaining(s) EXCEPT ![p] = 0]
        <4>1. PICK R : R = T!Remaining(s) /\ R[p] = 0 /\ R = [q \in Sleepers |-> R[q]]
          BY <3>2, <3>3
        <4>2. R = [R EXCEPT ![p] = 0]
          BY <4>1
        <4> QED BY <4>1, <4>2
      <3> QED BY <1>2, <2>2, <3>4
    <2> QED BY <1>1, <2>1, <2>2 DEF T!DelTimer
  <1>5. T!TimerInv'
    BY <1>1, <1>2, <1>3, <1>4 DEF T!TimerInv, T!FirstHasTime, Ordered, Timer
  <1> QED BY <1>1, <1>3, <1>4, <1>5 DEF T!Timers!Delete

LEMMA TimersTick ==
    ASSUME T!TimerInv, T!RunTimerList
    PROVE  T!TimerInv' /\ T!Timers!Tick
  <1>1. PICK s, t : s = timer_list /\ t = timer_list'
    OBVIOUS
  <1>2. Ordered(s) /\ ~failed
    BY <1>1 DEF T!TimerInv, T!FirstHasTime, Ordered, Timer
  <1>3. PICK u, n : /\ u = IF s = <<>> THEN s ELSE [s EXCEPT ![1].expires = @ - 1]
                    /\ n = T!Expired(u)
    OBVIOUS
  <1>4. /\ failed' = (s # <<>> /\ s[1].expires = 0)
        /\ t = T!Drop(u, n) /\ fired' = {u[i].proc : i \in 1 .. n}
    BY <1>1, <1>3 DEF T!RunTimerList
  <1>5. ~failed'
    <2>1. ~(s # <<>> /\ s[1].expires = 0)
      BY <1>2 DEF Ordered
    <2> QED BY <1>4, <2>1, Zenon
  <1>6. failed' \in BOOLEAN
    BY <1>4
  <1>7. Ticked(s, u)
    <2>1. CASE s = <<>>
      BY <1>2, <1>3, <2>1 DEF Ticked, Ordered
    <2>2. CASE s # <<>>
      BY <1>2, <1>3, <2>2, TickShape
    <2> QED BY <2>1, <2>2
  <1>8. /\ Ordered(t)
        /\ T!Remaining(t) = [p \in Sleepers |-> IF T!Remaining(s)[p] > 0
                                                THEN T!Remaining(s)[p] - 1 ELSE 0]
        /\ fired' = {p \in Sleepers : T!Remaining(s)[p] = 1}
    <2>1. PICK woken : woken = fired' /\ woken = {u[i].proc : i \in 1 .. n}
      BY <1>4
    <2>2. n = T!Expired(u) /\ t = T!Drop(u, n)
      BY <1>3, <1>4
    <2>3. AfterTick(s, t, woken)
      BY <1>2, <1>7, <2>1, <2>2, TickStep
    <2> QED BY <2>1, <2>3 DEF AfterTick
  <1>9. T!TimerInv'
    BY <1>1, <1>5, <1>8 DEF T!TimerInv, T!FirstHasTime, Ordered, Timer
  <1> QED BY <1>1, <1>4, <1>8, <1>9 DEF T!Timers!Tick

\* add_timer, del_timer and run_timer_list: a timer expires at exactly the tick
\* it was set for, whatever was added and deleted around it, and the assertion
\* of run_timer_list never fails.
THEOREM TimersAreRefined == ListsSpec => TimersRefined
  <1>1. T!Init => T!TimerInv /\ T!Timers!Init
    BY TimersInit
  <1>2. ASSUME T!TimerInv, T!Next
        PROVE  T!TimerInv' /\ T!Timers!Next
    <2>1. ASSUME NEW p \in Sleepers, NEW time \in 1 .. MaxSleep, T!AddTimer(p, time)
          PROVE  T!TimerInv' /\ T!Timers!Next
      BY <1>2, <2>1, TimersAdd DEF T!Timers!Next
    <2>2. ASSUME NEW p \in Sleepers, T!DelTimer(p)
          PROVE  T!TimerInv' /\ T!Timers!Next
      BY <1>2, <2>2, TimersDelete DEF T!Timers!Next
    <2>3. CASE T!RunTimerList
      BY <1>2, <2>3, TimersTick DEF T!Timers!Next
    <2> QED BY <1>2, <2>1, <2>2, <2>3 DEF T!Next
  <1>3. ASSUME T!TimerInv, UNCHANGED timers
        PROVE  T!TimerInv' /\ UNCHANGED <<T!Remaining(timer_list), fired>>
    BY <1>3 DEF timers, T!TimerInv, T!FirstHasTime
  <1>4. T!TimerInv /\ [ListsNext]_<<part, vars, links, timers>>
            => T!TimerInv' /\ [T!Timers!Next]_<<T!Remaining(timer_list), fired>>
    BY <1>2, <1>3 DEF ListsNext
  <1>5. T!TimerInv => T!FirstHasTime
    BY DEF T!TimerInv
  <1> QED BY <1>1, <1>4, <1>5, PTL
          DEF ListsSpec, ListsInit, TimersRefined, T!TimerRefinement, T!Timers!Spec,
              T!Timers!vars
=============================================================================
