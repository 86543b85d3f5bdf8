---------------------------- MODULE FilesProofs ----------------------------
(***************************************************************************)
(* Proofs about Files: the counts of every inode are exact, the assertions *)
(* about counts and descriptors hold, and the calls implement FileSpec.    *)
(*                                                                         *)
(* The operators of Files work on records of the variables, so the proof   *)
(* follows the code's calls from the bottom up, one lemma per operator:    *)
(*   Move(s, t, i, a, b)  t differs from s by a references and b opens of  *)
(*                        the inode i, and no file lost what it holds      *)
(*   Shift, OnlyHolds     the same for calls that change a file            *)
(*   Good(s, k)           the counts fit the tables, but for one reference *)
(*                        to k that is on its way                          *)
(*   Sets, Emptied, ...   what happened to the tables                      *)
(*   Stopped(t)           the call has stopped the kernel, where it may    *)
(* What a loop of the code does (CloseFrom, dup_fs, namefile) is proved    *)
(* for its recursive function by looking at the least round that fails.    *)
(***************************************************************************)
EXTENDS Files, Facts, FiniteSetTheorems, TLAPS

NodeRecs == [ref : Int, open : Int, reclaim : Int, dirty : BOOLEAN, full : BOOLEAN]
Entries == [status : {"NONE", "OPENED", "CLOSED"}, node : Nodes \union {None},
            readable : BOOLEAN, writable : BOOLEAN, count : Int]
FsStructs == {NoFs} \union [pwd : Dirs \union {None}, filemap : [Fds -> Entries]]

Fields == {"node", "hash", "disk", "super_dirty", "fs", "bootfs", "leaked",
           "panic", "ret", "at"}
Rets == {"ok", "E_NO_MEM", "E_NOENT", "E_NO_DEV", "E_NOTDIR", "E_ISDIR", "E_INVAL",
         "E_EXISTS", "E_MAX_OPEN"}
States == [node : [Nodes -> NodeRecs], hash : SUBSET Sfs, disk : [Regs -> BOOLEAN],
           super_dirty : BOOLEAN, fs : [Procs -> FsStructs],
           bootfs : Dirs \union {None}, leaked : [Nodes -> Nat],
           panic : {"none"}, ret : Rets, at : Nodes \union {None}]

Base(i) == IF i \in Devs THEN 1 ELSE 0
InodeSane(s, i) ==
    /\ 0 <= s.node[i].open /\ s.node[i].open + Base(i) <= s.node[i].ref
    /\ i \in Sfs => /\ i \in s.hash <=> s.node[i].ref > 0
                    /\ s.node[i].reclaim = (IF i \in s.hash THEN 1 ELSE 0)
    /\ i \in Regs /\ i \in s.hash /\ ~s.node[i].dirty => s.disk[i] = s.node[i].full
    /\ i \in Regs /\ s.node[i].dirty => i \in s.hash
Sane(s) == \A i \in Nodes : InodeSane(s, i)
Live(s) == s \in States /\ s.panic = "none" /\ Sane(s)

HoldsIn(s, i) == IF i \in s.hash THEN s.node[i].full ELSE s.disk[i]
Frame(s, t) == t.fs = s.fs /\ t.bootfs = s.bootfs /\ t.leaked = s.leaked
Move(s, t, i, a, b) ==
    /\ Live(t) /\ Frame(s, t)
    /\ \A j \in Regs : HoldsIn(t, j) = HoldsIn(s, j)
    /\ \A j \in Nodes : /\ t.node[j].ref = s.node[j].ref + (IF j = i THEN a ELSE 0)
                        /\ t.node[j].open = s.node[j].open + (IF j = i THEN b ELSE 0)

\* A call that has stopped the kernel at an assertion that may fail.
MayStop == {"no_operation", "load_root", "set_bootfs"}
Stopped(s) == /\ s = [f \in Fields |-> s[f]] /\ s.panic \in MayStop

-----------------------------------------------------------------------------
LEMMA NodeStep ==
    ASSUME NEW s, NEW t \in States, Live(s), NEW i \in Nodes,
           t.panic = "none", Frame(s, t),
           \A j \in Nodes \ {i} : t.node[j] = s.node[j] /\ (j \in t.hash <=> j \in s.hash),
           \A j \in Regs \ {i} : t.disk[j] = s.disk[j],
           InodeSane(t, i), i \in Regs => HoldsIn(t, i) = HoldsIn(s, i)
    PROVE  Move(s, t, i, t.node[i].ref - s.node[i].ref, t.node[i].open - s.node[i].open)
  <1>0. s \in States /\ Regs \subseteq Nodes
    BY DEF Live, Nodes, Sfs
  <1>1. \A j \in Nodes : /\ t.node[j].ref \in Int /\ t.node[j].open \in Int
                         /\ s.node[j].ref \in Int /\ s.node[j].open \in Int
    BY <1>0 DEF States, NodeRecs
  <1>2. Sane(t)
    <2> SUFFICES ASSUME NEW j \in Nodes, j # i PROVE InodeSane(t, j)
      BY DEF Sane
    <2>1. InodeSane(s, j)
      BY DEF Live, Sane
    <2>2. j \in Regs => t.disk[j] = s.disk[j]
      OBVIOUS
    <2>3. t.node[j] = s.node[j] /\ (j \in t.hash <=> j \in s.hash)
      OBVIOUS
    <2> QED BY <2>1, <2>2, <2>3 DEF InodeSane
  <1>3. \A j \in Regs : HoldsIn(t, j) = HoldsIn(s, j)
    BY <1>0 DEF HoldsIn
  <1>4. \A j \in Nodes :
            /\ t.node[j].ref = s.node[j].ref
                   + (IF j = i THEN t.node[i].ref - s.node[i].ref ELSE 0)
            /\ t.node[j].open = s.node[j].open
                   + (IF j = i THEN t.node[i].open - s.node[i].open ELSE 0)
    <2> TAKE j \in Nodes
    <2>1. CASE j = i
      BY <1>1, <2>1
    <2>2. CASE j # i
      BY <1>1, <2>2
    <2> QED BY <2>1, <2>2
  <1> QED BY <1>2, <1>3, <1>4 DEF Move, Live

\* Counting: the node keeps what it holds and stays where it is.
LEMMA Counted ==
    ASSUME NEW s, Live(s), NEW i \in Nodes, NEW r \in NodeRecs, NEW t,
           t = [s EXCEPT !.node = [s.node EXCEPT ![i] = r]],
           r.reclaim = s.node[i].reclaim, r.full = s.node[i].full,
           r.dirty = s.node[i].dirty, 0 <= r.open, r.open + Base(i) <= r.ref,
           i \in Sfs => (r.ref > 0 <=> s.node[i].ref > 0)
    PROVE  /\ Move(s, t, i, r.ref - s.node[i].ref, r.open - s.node[i].open)
           /\ t.ret = s.ret /\ t.at = s.at /\ t.node[i] = r
  <1>0. s \in States /\ s.panic = "none" /\ InodeSane(s, i)
    BY DEF Live, Sane
  <1>1. t \in States /\ t.panic = "none" /\ Frame(s, t) /\ t.ret = s.ret /\ t.at = s.at
        /\ t.hash = s.hash /\ t.disk = s.disk
        /\ t.node = [s.node EXCEPT ![i] = r]
    <2>2. [s.node EXCEPT ![i] = r] \in [Nodes -> NodeRecs]
      BY <1>0 DEF States
    <2> QED BY <1>0, <2>2 DEF States, Frame
  <1>2. \A j \in Nodes \ {i} : t.node[j] = s.node[j]
    BY <1>0, <1>1 DEF States
  <1>3. t.node[i] = r
    BY <1>0, <1>1 DEF States
  <1>4. InodeSane(t, i) /\ HoldsIn(t, i) = HoldsIn(s, i)
    BY <1>0, <1>1, <1>3 DEF InodeSane, HoldsIn, NodeRecs, Base
  <1> QED BY <1>1, <1>2, <1>3, <1>4, NodeStep

LEMMA RefInc ==
    ASSUME NEW s, Live(s), NEW i \in Nodes, s.node[i].ref > 0
    PROVE  /\ Move(s, ref_inc(s, i), i, 1, 0)
           /\ ref_inc(s, i).ret = s.ret /\ ref_inc(s, i).at = s.at
  <1> DEFINE r == [s.node[i] EXCEPT !.ref = @ + 1]
             t == ref_inc(s, i)
  <1>1. s \in States /\ s.node[i] \in NodeRecs /\ InodeSane(s, i)
    BY DEF Live, Sane, States
  <1>2. /\ r \in NodeRecs /\ r.ref = s.node[i].ref + 1 /\ r.open = s.node[i].open
        /\ r.reclaim = s.node[i].reclaim /\ r.full = s.node[i].full /\ r.dirty = s.node[i].dirty
    BY <1>1 DEF NodeRecs
  <1>3. t = [s EXCEPT !.node = [s.node EXCEPT ![i] = r]]
    BY <1>1 DEF ref_inc
  <1>4. 0 <= r.open /\ r.open + Base(i) <= r.ref /\ (r.ref > 0 <=> s.node[i].ref > 0)
    BY <1>1, <1>2 DEF InodeSane, NodeRecs, Base
  <1>5. r.ref - s.node[i].ref = 1 /\ r.open - s.node[i].open = 0
    BY <1>1, <1>2 DEF NodeRecs
  <1>6. /\ Move(s, t, i, r.ref - s.node[i].ref, r.open - s.node[i].open)
        /\ t.ret = s.ret /\ t.at = s.at
    <2> HIDE DEF r, t
    <2> QED BY <1>2, <1>3, <1>4, Counted
  <1> QED BY <1>5, <1>6

LEMMA OpenInc ==
    ASSUME NEW s, Live(s), NEW i \in Nodes, s.node[i].ref > s.node[i].open + Base(i)
    PROVE  /\ Move(s, open_inc(s, i), i, 0, 1)
           /\ open_inc(s, i).ret = s.ret /\ open_inc(s, i).at = s.at
  <1> DEFINE r == [s.node[i] EXCEPT !.open = @ + 1]
             t == open_inc(s, i)
  <1>1. s \in States /\ s.node[i] \in NodeRecs /\ InodeSane(s, i)
    BY DEF Live, Sane, States
  <1>2. /\ r \in NodeRecs /\ r.ref = s.node[i].ref /\ r.open = s.node[i].open + 1
        /\ r.reclaim = s.node[i].reclaim /\ r.full = s.node[i].full /\ r.dirty = s.node[i].dirty
    BY <1>1 DEF NodeRecs
  <1>3. t = [s EXCEPT !.node = [s.node EXCEPT ![i] = r]]
    BY <1>1 DEF open_inc
  <1>4. 0 <= r.open /\ r.open + Base(i) <= r.ref /\ (r.ref > 0 <=> s.node[i].ref > 0)
    BY <1>1, <1>2 DEF InodeSane, NodeRecs, Base
  <1>5. r.ref - s.node[i].ref = 0 /\ r.open - s.node[i].open = 1
    BY <1>1, <1>2 DEF NodeRecs
  <1>6. /\ Move(s, t, i, r.ref - s.node[i].ref, r.open - s.node[i].open)
        /\ t.ret = s.ret /\ t.at = s.at
    <2> HIDE DEF r, t
    <2> QED BY <1>2, <1>3, <1>4, Counted
  <1> QED BY <1>5, <1>6

LEMMA Moves ==
    ASSUME NEW s, NEW t, NEW u, Live(s), NEW i, NEW j,
           NEW a \in Int, NEW b \in Int, NEW c \in Int, NEW d \in Int,
           Move(s, t, i, a, b), Move(t, u, j, c, d), i = j \/ (c = 0 /\ d = 0)
    PROVE  Move(s, u, i, a + c, b + d)
  <1>1. \A k \in Nodes : s.node[k].ref \in Int /\ s.node[k].open \in Int
    BY DEF Live, States, NodeRecs
  <1>2. Frame(s, u) /\ Live(u)
    BY DEF Move, Frame
  <1>3. \A k \in Regs : HoldsIn(u, k) = HoldsIn(s, k)
    BY DEF Move
  <1>4. \A k \in Nodes : /\ u.node[k].ref = s.node[k].ref + (IF k = i THEN a + c ELSE 0)
                         /\ u.node[k].open = s.node[k].open + (IF k = i THEN b + d ELSE 0)
    <2> TAKE k \in Nodes
    <2>1. /\ t.node[k].ref = s.node[k].ref + (IF k = i THEN a ELSE 0)
          /\ t.node[k].open = s.node[k].open + (IF k = i THEN b ELSE 0)
          /\ u.node[k].ref = t.node[k].ref + (IF k = j THEN c ELSE 0)
          /\ u.node[k].open = t.node[k].open + (IF k = j THEN d ELSE 0)
      BY DEF Move
    <2> QED BY <1>1, <2>1
  <1> QED BY <1>2, <1>3, <1>4 DEF Move

LEMMA StillLive ==
    ASSUME NEW s, Live(s), NEW i
    PROVE  Move(s, s, i, 0, 0)
  <1>1. \A k \in Nodes : s.node[k].ref \in Int /\ s.node[k].open \in Int
    BY DEF Live, States, NodeRecs
  <1> QED BY <1>1 DEF Move, Frame

\* An operation that the table of the inode has goes through.
LEMMA VopFacts ==
    ASSUME NEW s, Live(s), NEW i \in Nodes, NEW op
    PROVE  /\ op \in Ops(i) => Vop(s, i, op) = s
           /\ op \notin Ops(i) => Stopped(Vop(s, i, op))
  <1>1. s \in States /\ s.panic = "none" /\ s.node[i].ref >= s.node[i].open
    <2>1. InodeSane(s, i) /\ s \in States /\ s.panic = "none"
      BY DEF Live, Sane
    <2> QED BY <2>1 DEF InodeSane, Base, States, NodeRecs
  <1>2. op \in Ops(i) => Vop(s, i, op) = s
    BY <1>1 DEF Vop, Check
  <1>3. ASSUME op \notin Ops(i) PROVE Stopped(Vop(s, i, op))
    <2>1. Check(s, op \in Ops(i), "no_operation") = [s EXCEPT !.panic = "no_operation"]
      BY <1>1, <1>3 DEF Check
    <2>2. [s EXCEPT !.panic = "no_operation"].panic = "no_operation"
      BY <1>1 DEF States
    <2>3. Vop(s, i, op) = [s EXCEPT !.panic = "no_operation"]
      BY <2>1, <2>2 DEF Vop, Check
    <2> QED BY <1>1, <2>2, <2>3 DEF Stopped, MayStop, States, Fields
  <1> QED BY <1>2, <1>3

LEMMA FsyncFacts ==
    ASSUME NEW s, Live(s), NEW i \in Nodes
    PROVE  /\ Move(s, fsync(s, i), i, 0, 0)
           /\ fsync(s, i).ret = s.ret /\ fsync(s, i).at = s.at
  <1> DEFINE t == fsync(s, i)
  <1>1. CASE ~(i \in Regs /\ s.node[i].dirty)
    BY <1>1, StillLive DEF fsync
  <1>2. CASE i \in Regs /\ s.node[i].dirty
    <2> DEFINE r == [s.node[i] EXCEPT !.dirty = FALSE]
    <2>1. s \in States /\ s.node[i] \in NodeRecs /\ InodeSane(s, i) /\ s.panic = "none"
      BY DEF Live, Sane, States
    <2>2. /\ r \in NodeRecs /\ r.ref = s.node[i].ref /\ r.open = s.node[i].open
          /\ r.reclaim = s.node[i].reclaim /\ r.full = s.node[i].full /\ r.dirty = FALSE
      BY <2>1 DEF NodeRecs
    <2>3. t = [s EXCEPT !.disk = [s.disk EXCEPT ![i] = s.node[i].full],
                        !.node = [s.node EXCEPT ![i] = r]]
      BY <1>2, <2>1 DEF fsync
    <2>4. /\ [s.node EXCEPT ![i] = r] \in [Nodes -> NodeRecs]
          /\ [s.disk EXCEPT ![i] = s.node[i].full] \in [Regs -> BOOLEAN]
      <3> HIDE DEF r
      <3> QED BY <1>2, <2>1, <2>2 DEF States, NodeRecs
    <2>5. t \in States /\ t.panic = "none" /\ Frame(s, t) /\ t.ret = s.ret /\ t.at = s.at
          /\ t.hash = s.hash /\ t.disk = [s.disk EXCEPT ![i] = s.node[i].full]
          /\ t.node = [s.node EXCEPT ![i] = r]
      <3> HIDE DEF r, t
      <3> QED BY <2>1, <2>3, <2>4 DEF States, Frame
    <2>6. t.node[i] = r /\ t.disk[i] = s.node[i].full
          /\ (\A j \in Nodes \ {i} : t.node[j] = s.node[j])
          /\ (\A j \in Regs \ {i} : t.disk[j] = s.disk[j])
      <3> HIDE DEF r, t
      <3> QED BY <1>2, <2>1, <2>5 DEF States
    <2>7. i \in s.hash
      BY <1>2, <2>1 DEF InodeSane
    <2>8. InodeSane(t, i) /\ HoldsIn(t, i) = HoldsIn(s, i)
      <3> HIDE DEF r, t
      <3> QED BY <2>1, <2>2, <2>5, <2>6, <2>7 DEF InodeSane, HoldsIn
    <2>9. r.ref - s.node[i].ref = 0 /\ r.open - s.node[i].open = 0
      BY <2>1, <2>2 DEF NodeRecs
    <2>10. Move(s, t, i, t.node[i].ref - s.node[i].ref, t.node[i].open - s.node[i].open)
      <3> HIDE DEF r, t
      <3> QED BY <2>5, <2>6, <2>8, NodeStep
    <2> QED BY <2>5, <2>6, <2>9, <2>10
  <1> QED BY <1>1, <1>2

LEMMA OpenDec ==
    ASSUME NEW s, Live(s), NEW i \in Nodes, s.node[i].open > 0
    PROVE  /\ Move(s, open_dec(s, i), i, 0, -1)
           /\ open_dec(s, i).ret = s.ret /\ open_dec(s, i).at = s.at
  <1> DEFINE r == [s.node[i] EXCEPT !.open = @ - 1]
             t == [s EXCEPT !.node[i].open = @ - 1]
  <1>1. s \in States /\ s.node[i] \in NodeRecs /\ InodeSane(s, i) /\ s.panic = "none"
    BY DEF Live, Sane, States
  <1>2. /\ r \in NodeRecs /\ r.ref = s.node[i].ref /\ r.open = s.node[i].open - 1
        /\ r.reclaim = s.node[i].reclaim /\ r.full = s.node[i].full /\ r.dirty = s.node[i].dirty
    BY <1>1 DEF NodeRecs
  <1>3. t = [s EXCEPT !.node = [s.node EXCEPT ![i] = r]]
    BY <1>1
  <1>4. 0 <= r.open /\ r.open + Base(i) <= r.ref /\ (r.ref > 0 <=> s.node[i].ref > 0)
    BY <1>1, <1>2 DEF InodeSane, NodeRecs, Base
  <1>5. r.ref - s.node[i].ref = 0 /\ r.open - s.node[i].open = -1
    BY <1>1, <1>2 DEF NodeRecs
  <1>6. Move(s, t, i, 0, -1) /\ t.ret = s.ret /\ t.at = s.at
    <2>1. /\ Move(s, t, i, r.ref - s.node[i].ref, r.open - s.node[i].open)
          /\ t.ret = s.ret /\ t.at = s.at
      <3> HIDE DEF r, t
      <3> QED BY <1>2, <1>3, <1>4, Counted
    <2> QED BY <1>5, <2>1
  <1>7. Check(t, s.node[i].open > 0, "open_dec") = t
    BY DEF Check
  <1>8. open_dec(s, i) = IF t.node[i].open # 0 THEN t ELSE fsync(Vop(t, i, "close"), i)
    BY <1>7 DEF open_dec
  <1> HIDE DEF t
  <1>9. Live(t) /\ Vop(t, i, "close") = t
    <2>1. Live(t)
      BY <1>6 DEF Move
    <2> QED BY <2>1, VopFacts DEF Ops
  <1>10. Move(t, fsync(t, i), i, 0, 0) /\ fsync(t, i).ret = t.ret /\ fsync(t, i).at = t.at
    BY <1>9, FsyncFacts
  <1>11. Move(s, fsync(t, i), i, 0 + 0, -1 + 0)
    BY <1>6, <1>10, Moves
  <1> QED BY <1>6, <1>8, <1>9, <1>10, <1>11

\* The last reference: the inode is saved and leaves memory.
LEMMA LastRefDec ==
    ASSUME NEW s, Live(s), NEW i \in Nodes, s.node[i].ref > s.node[i].open + Base(i),
           s.node[i].ref = 1
    PROVE  /\ Move(s, ref_dec(s, i), i, -1, 0)
           /\ ref_dec(s, i).ret = s.ret /\ ref_dec(s, i).at = s.at
  <1>1. s \in States /\ s.node[i] \in NodeRecs /\ InodeSane(s, i) /\ s.panic = "none"
    BY DEF Live, Sane, States
  <1>2. i \in Sfs /\ i \in s.hash /\ s.node[i].reclaim = 1 /\ s.node[i].open = 0
    BY <1>1 DEF InodeSane, NodeRecs, Base, Nodes
  <1> DEFINE r0 == [s.node[i] EXCEPT !.ref = @ - 1]
             t0 == [s EXCEPT !.node = [s.node EXCEPT ![i] = r0]]
             r1 == [r0 EXCEPT !.reclaim = @ - 1]
             t1 == [s EXCEPT !.node = [s.node EXCEPT ![i] = r1]]
             full == i \in Regs /\ s.node[i].dirty
             t2 == fsync(t1, i)
             t == [t2 EXCEPT !.hash = @ \ {i}, !.node = [s.node EXCEPT ![i] = NoNode]]
  <1>3. /\ r0 \in NodeRecs /\ r0.ref = 0 /\ r0.open = 0 /\ r0.reclaim = 1
        /\ r0.dirty = s.node[i].dirty /\ r0.full = s.node[i].full
        /\ r1 \in NodeRecs /\ r1.ref = 0 /\ r1.open = 0 /\ r1.reclaim = 0
        /\ r1.dirty = s.node[i].dirty /\ r1.full = s.node[i].full
    <2>1. /\ r0 \in NodeRecs /\ r0.ref = 0 /\ r0.open = 0 /\ r0.reclaim = 1
          /\ r0.dirty = s.node[i].dirty /\ r0.full = s.node[i].full
      BY <1>1, <1>2 DEF NodeRecs
    <2> HIDE DEF r0
    <2> QED BY <2>1 DEF NodeRecs
  <1>4. t0 \in States /\ t0.panic = "none" /\ t0.node = [s.node EXCEPT ![i] = r0] /\ t0.node[i] = r0
    <2> HIDE DEF r0
    <2>1. [s.node EXCEPT ![i] = r0] \in [Nodes -> NodeRecs]
      BY <1>1, <1>3 DEF States
    <2> QED BY <1>1, <2>1 DEF States
  <1>5. /\ t1 \in States /\ t1.node = [s.node EXCEPT ![i] = r1] /\ t1.node[i] = r1
        /\ t1.panic = "none" /\ t1.hash = s.hash /\ t1.disk = s.disk /\ Frame(s, t1)
        /\ t1.ret = s.ret /\ t1.at = s.at
    <2> HIDE DEF r1
    <2>1. [s.node EXCEPT ![i] = r1] \in [Nodes -> NodeRecs]
      BY <1>1, <1>3 DEF States
    <2> QED BY <1>1, <2>1 DEF States, Frame
  <1>6. Check([s EXCEPT !.node[i].ref = @ - 1], s.node[i].ref > 0, "ref_dec") = t0
    BY <1>1 DEF Check
  <1>7. ref_dec(s, i) = reclaim(Vop(t0, i, "reclaim"), i)
    BY <1>3, <1>4, <1>6 DEF ref_dec
  <1>8. Vop(t0, i, "reclaim") = t0
    <2>1. "reclaim" \in Ops(i)
      BY <1>2 DEF Ops, Sfs
    <2>2. t0.node[i].ref >= t0.node[i].open
      BY <1>3, <1>4
    <2> HIDE DEF t0
    <2> QED BY <1>4, <2>1, <2>2 DEF Vop, Check
  <1>9. Check([t0 EXCEPT !.node[i].reclaim = @ - 1], t0.node[i].reclaim > 0, "reclaim_count") = t1
    <2>1. t0.node[i].reclaim > 0
      BY <1>3, <1>4
    <2>2. [t0 EXCEPT !.node[i].reclaim = @ - 1] = t1
      <3>1. [t0 EXCEPT !.node[i].reclaim = @ - 1]
              = [t0 EXCEPT !.node = [t0.node EXCEPT ![i] = [t0.node[i] EXCEPT !.reclaim = @ - 1]]]
        <4> HIDE DEF t0
        <4> QED BY <1>4 DEF States
      <3>2. [t0.node EXCEPT ![i] = [t0.node[i] EXCEPT !.reclaim = @ - 1]] = [s.node EXCEPT ![i] = r1]
        <4> HIDE DEF t0, r0
        <4> QED BY <1>1, <1>4 DEF States
      <3>3. [t0 EXCEPT !.node = [s.node EXCEPT ![i] = r1]] = t1
        <4> HIDE DEF r0, r1
        <4> QED BY <1>1 DEF States
      <3> QED BY <3>1, <3>2, <3>3, Zenon
    <2> QED BY <2>1, <2>2 DEF Check
  <1>10. reclaim(t0, i) = inode_kill(t2, i)
    <2> HIDE DEF t0, t1, r1
    <2> QED BY <1>3, <1>5, <1>9 DEF reclaim
  <1>11. /\ t2 \in States /\ t2.panic = "none" /\ t2.hash = s.hash /\ Frame(s, t2)
         /\ t2.ret = s.ret /\ t2.at = s.at /\ t2.node[i].open = 0
         /\ \A j \in Nodes \ {i} : t2.node[j] = s.node[j]
         /\ \A j \in Regs \ {i} : t2.disk[j] = s.disk[j]
         /\ i \in Regs => t2.disk[i] = s.node[i].full
    <2> HIDE DEF t1, r1
    <2>1. CASE ~full
      <3>1. t2 = t1
        BY <1>3, <1>5, <2>1 DEF fsync
      <3>2. i \in Regs => s.disk[i] = s.node[i].full
        BY <1>1, <1>2, <2>1 DEF InodeSane
      <3>3. \A j \in Nodes \ {i} : t1.node[j] = s.node[j]
        BY <1>1, <1>5 DEF States
      <3> QED BY <1>3, <1>5, <3>1, <3>2, <3>3
    <2>2. CASE full
      <3> DEFINE q == [r1 EXCEPT !.dirty = FALSE]
      <3>1. t2 = [t1 EXCEPT !.disk = [s.disk EXCEPT ![i] = r1.full],
                            !.node = [t1.node EXCEPT ![i] = q]]
        BY <1>3, <1>5, <2>2 DEF fsync
      <3>2. q \in NodeRecs /\ q.open = 0
        BY <1>3 DEF NodeRecs
      <3>3. /\ [s.disk EXCEPT ![i] = r1.full] \in [Regs -> BOOLEAN]
            /\ [t1.node EXCEPT ![i] = q] \in [Nodes -> NodeRecs]
            /\ [t1.node EXCEPT ![i] = q][i] = q
            /\ \A j \in Nodes \ {i} : [t1.node EXCEPT ![i] = q][j] = s.node[j]
        <4> HIDE DEF q
        <4>1. r1.full \in BOOLEAN
          BY <1>3 DEF NodeRecs
        <4> QED BY <1>1, <1>5, <3>2, <4>1 DEF States
      <3>4. /\ t2 \in States /\ t2.panic = "none" /\ t2.hash = s.hash /\ Frame(s, t2)
            /\ t2.ret = s.ret /\ t2.at = s.at /\ t2.node = [t1.node EXCEPT ![i] = q]
            /\ t2.disk = [s.disk EXCEPT ![i] = r1.full]
        <4> HIDE DEF q, t2
        <4> QED BY <1>5, <3>1, <3>3 DEF States, Frame
      <3>5. \A j \in Regs \ {i} : t2.disk[j] = s.disk[j]
        BY <1>1, <3>4 DEF States
      <3>6. t2.disk[i] = s.node[i].full
        BY <1>1, <1>3, <2>2, <3>4 DEF States
      <3> HIDE DEF q, t2
      <3> QED BY <3>2, <3>3, <3>4, <3>5, <3>6
    <2> QED BY <2>1, <2>2
  <1>12. inode_kill(t2, i) = [t2 EXCEPT !.hash = @ \ {i}, !.node[i] = NoNode]
    <2> HIDE DEF t2
    <2> QED BY <1>11 DEF inode_kill, Check
  <1> DEFINE k == [t2 EXCEPT !.hash = @ \ {i}, !.node[i] = NoNode]
  <1>13. /\ k \in States /\ k.panic = "none" /\ k.hash = s.hash \ {i} /\ Frame(s, k)
         /\ k.ret = s.ret /\ k.at = s.at /\ k.node = [t2.node EXCEPT ![i] = NoNode]
         /\ k.disk = t2.disk
    <2> HIDE DEF t2
    <2>1. NoNode \in NodeRecs
      BY DEF NoNode, NodeRecs
    <2>2. [t2.node EXCEPT ![i] = NoNode] \in [Nodes -> NodeRecs]
      BY <1>11, <2>1 DEF States
    <2> QED BY <1>11, <2>2 DEF States, Frame
  <1>14. k.node[i] = NoNode /\ (\A j \in Nodes \ {i} : k.node[j] = s.node[j])
    <2> HIDE DEF t2, k
    <2> QED BY <1>11, <1>13 DEF States
  <1>15. InodeSane(k, i) /\ (i \in Regs => HoldsIn(k, i) = HoldsIn(s, i))
    <2> HIDE DEF t2, k
    <2>1. i \notin Devs \/ Base(i) = 1
      BY DEF Base
    <2>2. Base(i) = 0
      BY <1>1, <1>2, <2>1 DEF InodeSane, NodeRecs, Base
    <2> QED BY <1>2, <1>11, <1>13, <1>14, <2>2 DEF InodeSane, HoldsIn, NoNode
  <1>16. k.node[i].ref - s.node[i].ref = -1 /\ k.node[i].open - s.node[i].open = 0
    <2> HIDE DEF k
    <2> QED BY <1>2, <1>14 DEF NoNode
  <1>17. ref_dec(s, i) = k
    BY <1>7, <1>8, <1>10, <1>12
  <1>18. Move(s, k, i, k.node[i].ref - s.node[i].ref, k.node[i].open - s.node[i].open)
    <2> HIDE DEF k
    <2> QED BY <1>11, <1>13, <1>14, <1>15, NodeStep
  <1> QED BY <1>13, <1>16, <1>17, <1>18

LEMMA RefDec ==
    ASSUME NEW s, Live(s), NEW i \in Nodes, s.node[i].ref > s.node[i].open + Base(i)
    PROVE  /\ Move(s, ref_dec(s, i), i, -1, 0)
           /\ ref_dec(s, i).ret = s.ret /\ ref_dec(s, i).at = s.at
  <1> DEFINE r == [s.node[i] EXCEPT !.ref = @ - 1]
             t == [s EXCEPT !.node[i].ref = @ - 1]
  <1>1. s \in States /\ s.node[i] \in NodeRecs /\ InodeSane(s, i) /\ s.panic = "none"
    BY DEF Live, Sane, States
  <1>2. CASE s.node[i].ref = 1
    BY <1>2, LastRefDec
  <1>3. CASE s.node[i].ref # 1
    <2>2. /\ r \in NodeRecs /\ r.ref = s.node[i].ref - 1 /\ r.open = s.node[i].open
          /\ r.reclaim = s.node[i].reclaim /\ r.full = s.node[i].full /\ r.dirty = s.node[i].dirty
      BY <1>1 DEF NodeRecs
    <2>3. t = [s EXCEPT !.node = [s.node EXCEPT ![i] = r]]
      BY <1>1
    <2>4. 0 <= r.open /\ r.open + Base(i) <= r.ref /\ (r.ref > 0 <=> s.node[i].ref > 0)
      BY <1>1, <1>3, <2>2 DEF InodeSane, NodeRecs, Base
    <2>8. r.ref # 0 /\ s.node[i].ref > 0
      BY <1>1, <1>3, <2>2 DEF InodeSane, NodeRecs, Base
    <2>5. r.ref - s.node[i].ref = -1 /\ r.open - s.node[i].open = 0
      BY <1>1, <2>2 DEF NodeRecs
    <2>6. /\ Move(s, t, i, r.ref - s.node[i].ref, r.open - s.node[i].open)
          /\ t.ret = s.ret /\ t.at = s.at /\ t.node[i] = r
      <3> HIDE DEF r, t
      <3>1. Move(s, t, i, r.ref - s.node[i].ref, r.open - s.node[i].open)
            /\ t.ret = s.ret /\ t.at = s.at
        BY <2>2, <2>3, <2>4, Counted
      <3>2. t.node[i] = r
        BY <1>1, <2>3 DEF States
      <3> QED BY <3>1, <3>2
    <2>7. ref_dec(s, i) = t
      BY <2>8, <2>6 DEF ref_dec, Check
    <2> QED BY <2>5, <2>6, <2>7
  <1> QED BY <1>2, <1>3

\* A look-up that found an inode, with a reference, or failed and took none.
Got(s, t) ==
    IF t.ret = "ok" THEN t.at \in Nodes /\ Move(s, t, t.at, 1, 0)
    ELSE Move(s, t, None, 0, 0)

\* What fails has done nothing.
LEMMA FailFacts ==
    ASSUME NEW s, Live(s), NEW e \in Rets, NEW i
    PROVE  Move(s, Fail(s, e), i, 0, 0) /\ Fail(s, e).ret = e /\ Fail(s, e).at = s.at
  <1> DEFINE t == Fail(s, e)
  <1>1. s \in States /\ Sane(s) /\ s.panic = "none"
    BY DEF Live
  <1>2. /\ t \in States /\ t.panic = "none" /\ Frame(s, t) /\ t.node = s.node
        /\ t.hash = s.hash /\ t.disk = s.disk /\ t.ret = e /\ t.at = s.at
    BY <1>1 DEF Fail, States, Frame
  <1>3. Sane(t)
    BY <1>1, <1>2 DEF Sane, InodeSane
  <1>4. \A j \in Nodes : s.node[j].ref \in Int /\ s.node[j].open \in Int
    BY <1>1 DEF States, NodeRecs
  <1> QED BY <1>2, <1>3, <1>4 DEF Move, Live, HoldsIn

\* The inode a look-up has found is noted.
LEMMA AtFacts ==
    ASSUME NEW s, Live(s), NEW i \in Nodes, NEW j
    PROVE  Move(s, [s EXCEPT !.at = i], j, 0, 0)
           /\ [s EXCEPT !.at = i].at = i /\ [s EXCEPT !.at = i].ret = s.ret
  <1> DEFINE t == [s EXCEPT !.at = i]
  <1>1. s \in States /\ Sane(s) /\ s.panic = "none"
    BY DEF Live
  <1>2. /\ t \in States /\ t.panic = "none" /\ Frame(s, t) /\ t.node = s.node
        /\ t.hash = s.hash /\ t.disk = s.disk /\ t.at = i /\ t.ret = s.ret
    BY <1>1 DEF States, Frame
  <1>3. Sane(t)
    BY <1>1, <1>2 DEF Sane, InodeSane
  <1>4. \A k \in Nodes : s.node[k].ref \in Int /\ s.node[k].open \in Int
    BY <1>1 DEF States, NodeRecs
  <1> QED BY <1>2, <1>3, <1>4 DEF Move, Live, HoldsIn

LEMMA LoadInode ==
    ASSUME NEW s, Live(s), s.ret = "ok", NEW i \in Sfs, NEW oom
    PROVE  LET t == load_inode(s, i, oom)
           IN  Got(s, t) /\ (t.ret = "ok" => t.at = i)
  <1> DEFINE t == load_inode(s, i, oom)
  <1>1. s \in States /\ i \in Nodes /\ s.node[i] \in NodeRecs /\ InodeSane(s, i)
        /\ s.panic = "none"
    BY DEF Live, Sane, States, Nodes
  <1>2. CASE i \in s.hash
    <2> DEFINE u == ref_inc(s, i)
    <2>1. s.node[i].ref > 0
      BY <1>1, <1>2 DEF InodeSane
    <2>2. Move(s, u, i, 1, 0) /\ u.ret = s.ret
      BY <1>1, <2>1, RefInc
    <2>3. t = [u EXCEPT !.at = i]
      <3>1. u = [s EXCEPT !.node = [s.node EXCEPT ![i] = [s.node[i] EXCEPT !.ref = @ + 1]]]
        BY <1>1 DEF ref_inc
      <3>2. t = [s EXCEPT !.node = [s.node EXCEPT ![i] = [s.node[i] EXCEPT !.ref = @ + 1]], !.at = i]
        <4>1. s.node[i].ref # 0
          BY <1>1, <2>1 DEF NodeRecs
        <4>2. [[s.node EXCEPT ![i].ref = @ + 1] EXCEPT ![i].reclaim = @]
                = [s.node EXCEPT ![i] = [s.node[i] EXCEPT !.ref = @ + 1]]
          BY <1>1 DEF NodeRecs, States
        <4> QED BY <1>1, <1>2, <4>1, <4>2 DEF load_inode, States
      <3> QED BY <1>1, <3>1, <3>2 DEF States
    <2>4. Live(u)
      BY <2>2 DEF Move
    <2> HIDE DEF u, t
    <2>5. Move(u, t, i, 0, 0) /\ t.at = i /\ t.ret = "ok"
      BY <1>1, <2>2, <2>3, <2>4, AtFacts
    <2>6. Move(s, t, i, 1 + 0, 0 + 0)
      BY <2>2, <2>5, Moves
    <2> QED BY <1>1, <2>5, <2>6 DEF Got, t
  <1>3. CASE i \notin s.hash /\ oom = "inode"
    <2>1. t = Fail(s, "E_NO_MEM")
      BY <1>3 DEF load_inode
    <2>2. Move(s, t, None, 0, 0) /\ t.ret = "E_NO_MEM"
      <3>1. "E_NO_MEM" \in Rets
        BY DEF Rets
      <3> HIDE DEF t
      <3> QED BY <2>1, <3>1, FailFacts
    <2> HIDE DEF t
    <2> QED BY <2>2 DEF Got, t
  <1>4. CASE i \notin s.hash /\ oom # "inode"
    <2> DEFINE r == [NoNode EXCEPT !.ref = 1, !.reclaim = 1, !.full = i \in Regs /\ s.disk[i]]
    <2>1. t = [s EXCEPT !.hash = s.hash \union {i}, !.at = i, !.node = [s.node EXCEPT ![i] = r]]
      BY <1>1, <1>4 DEF load_inode
    <2>2. r \in NodeRecs /\ r.ref = 1 /\ r.open = 0 /\ r.reclaim = 1 /\ r.dirty = FALSE
          /\ (i \in Regs => r.full = s.disk[i])
      <3>1. i \in Regs => s.disk[i] \in BOOLEAN
        BY <1>1 DEF States
      <3>2. PICK full : full = (i \in Regs /\ s.disk[i])
        OBVIOUS
      <3>3. full \in BOOLEAN
        BY <3>2
      <3>4. r = [ref |-> 1, open |-> 0, reclaim |-> 1, dirty |-> FALSE, full |-> full]
        <4>1. r = [NoNode EXCEPT !.ref = 1, !.reclaim = 1, !.full = full]
          BY <3>2, Zenon
        <4> HIDE DEF r
        <4> QED BY <4>1 DEF NoNode
      <3>5. i \in Regs => full = s.disk[i]
        BY <3>1, <3>2
      <3> HIDE DEF r
      <3> QED BY <3>3, <3>4, <3>5 DEF NodeRecs
    <2>3. s.node[i].ref = 0 /\ s.node[i].open = 0 /\ Base(i) = 0
      BY <1>1, <1>4 DEF InodeSane, NodeRecs, Base
    <2> HIDE DEF r
    <2>4. [s.node EXCEPT ![i] = r] \in [Nodes -> NodeRecs]
      BY <1>1, <2>2 DEF States
    <2>5. /\ t \in States /\ t.panic = "none" /\ Frame(s, t) /\ t.ret = "ok" /\ t.at = i
          /\ t.hash = s.hash \union {i} /\ t.disk = s.disk /\ t.node = [s.node EXCEPT ![i] = r]
      <3> HIDE DEF t
      <3> QED BY <1>1, <2>1, <2>4 DEF States, Frame
    <2> HIDE DEF t
    <2>6. t.node[i] = r /\ (\A j \in Nodes \ {i} : t.node[j] = s.node[j])
      BY <1>1, <2>5 DEF States
    <2>7. InodeSane(t, i) /\ (i \in Regs => HoldsIn(t, i) = HoldsIn(s, i))
      BY <1>4, <2>2, <2>3, <2>5, <2>6 DEF InodeSane, HoldsIn
    <2>8. t.node[i].ref - s.node[i].ref = 1 /\ t.node[i].open - s.node[i].open = 0
      BY <2>2, <2>3, <2>6
    <2>9. Move(s, t, i, t.node[i].ref - s.node[i].ref, t.node[i].open - s.node[i].open)
      BY <1>1, <2>5, <2>6, <2>7, NodeStep
    <2> QED BY <1>1, <2>5, <2>8, <2>9 DEF Got, t
  <1> QED BY <1>2, <1>3, <1>4

-----------------------------------------------------------------------------
(* After a failed assertion nothing matters.                               *)

LEMMA StoppedChanges ==
    ASSUME NEW s, Stopped(s), NEW x
    PROVE  /\ \A c, name : Check(s, c, name) = s
           /\ Stopped([s EXCEPT !.node = x]) /\ Stopped([s EXCEPT !.hash = x])
           /\ Stopped([s EXCEPT !.disk = x]) /\ Stopped([s EXCEPT !.fs = x])
           /\ Stopped([s EXCEPT !.super_dirty = x]) /\ Stopped([s EXCEPT !.bootfs = x])
           /\ Stopped([s EXCEPT !.at = x]) /\ Stopped([s EXCEPT !.ret = x])
           /\ ~Ok(s)
  <1>1. s.panic \in MayStop /\ s.panic # "none" /\ s = [f \in Fields |-> s[f]]
    BY DEF Stopped, MayStop
  <1>2. \A c, name : Check(s, c, name) = s
    BY <1>1 DEF Check
  <1>3. ~Ok(s)
    BY <1>1 DEF Ok
  <1> QED BY <1>1, <1>2, <1>3 DEF Stopped, Fields

LEMMA StoppedFsync ==
    ASSUME NEW s, Stopped(s), NEW i
    PROVE  Stopped(fsync(s, i))
  <1>1. CASE i \in Regs /\ s.node[i].dirty
    <2> DEFINE x == [s.disk EXCEPT ![i] = s.node[i].full]
               y == [s.node EXCEPT ![i].dirty = FALSE]
    <2>1. fsync(s, i) = [s EXCEPT !.disk = x, !.node = y]
      BY <1>1 DEF fsync
    <2> HIDE DEF x, y
    <2> QED BY <2>1 DEF Stopped, Fields
  <1>2. CASE ~(i \in Regs /\ s.node[i].dirty)
    BY <1>2 DEF fsync
  <1> QED BY <1>1, <1>2

LEMMA StoppedRefDec ==
    ASSUME NEW s, Stopped(s), NEW i
    PROVE  Stopped(ref_dec(s, i))
  <1> DEFINE t == [s EXCEPT !.node = [s.node EXCEPT ![i].ref = @ - 1]]
             u == [t EXCEPT !.node = [t.node EXCEPT ![i].reclaim = @ - 1]]
             v == fsync(u, i)
             x == v.hash \ {i}
             y == [v.node EXCEPT ![i] = NoNode]
             k == [v EXCEPT !.hash = x, !.node = y]
  <1>1. Stopped(t) /\ Stopped(u)
    BY StoppedChanges
  <1>2. Stopped(v)
    <2> HIDE DEF u
    <2> QED BY <1>1, StoppedFsync
  <1>3. Stopped(k)
    <2> HIDE DEF v, x, y
    <2> QED BY <1>2 DEF Stopped, Fields
  <1>4. ref_dec(s, i) = t \/ ref_dec(s, i) = reclaim(t, i)
    <2>1. Check(t, s.node[i].ref > 0, "ref_dec") = t /\ Vop(t, i, "reclaim") = t
      <3> HIDE DEF t
      <3> QED BY <1>1, StoppedChanges DEF Vop
    <2> QED BY <2>1 DEF ref_dec
  <1>5. reclaim(t, i) = u \/ reclaim(t, i) = inode_kill(v, i)
    <2>1. Check(u, t.node[i].reclaim > 0, "reclaim_count") = u
      <3> HIDE DEF u
      <3> QED BY <1>1, StoppedChanges
    <2> QED BY <2>1 DEF reclaim
  <1>6. inode_kill(v, i) = k
    <2>1. inode_kill(v, i) = Check(k, v.node[i].open = 0, "inode_kill")
      <3> HIDE DEF v
      <3> QED BY <1>2 DEF inode_kill
    <2> HIDE DEF k
    <2> QED BY <1>3, <2>1 DEF Check, Stopped, MayStop
  <1> QED BY <1>1, <1>3, <1>4, <1>5, <1>6

LEMMA StoppedOpenDec ==
    ASSUME NEW s, Stopped(s), NEW i
    PROVE  Stopped(open_dec(s, i))
  <1> DEFINE t == [s EXCEPT !.node = [s.node EXCEPT ![i].open = @ - 1]]
  <1>1. Stopped(t)
    BY StoppedChanges
  <1>2. Check(t, s.node[i].open > 0, "open_dec") = t /\ Vop(t, i, "close") = t
    <2> HIDE DEF t
    <2> QED BY <1>1, StoppedChanges DEF Vop
  <1>3. open_dec(s, i) = t \/ open_dec(s, i) = fsync(t, i)
    BY <1>2 DEF open_dec
  <1>4. Stopped(fsync(t, i))
    <2> HIDE DEF t
    <2> QED BY <1>1, StoppedFsync
  <1> QED BY <1>1, <1>3, <1>4

-----------------------------------------------------------------------------
(* Looking up paths                                                        *)

\* An inode that somebody else holds too.
Referred(s, i) == s.node[i].ref > s.node[i].open + Base(i)
Anchored(s) ==
    /\ s.bootfs # None => s.bootfs \in Dirs /\ Referred(s, s.bootfs)
    /\ \A p \in Procs : s.fs[p].pwd # None => s.fs[p].pwd \in Dirs /\ Referred(s, s.fs[p].pwd)

LEMMA ReferredFacts ==
    ASSUME NEW s, Live(s), NEW i \in Nodes
    PROVE  /\ Referred(s, i) => s.node[i].ref > 0
           /\ \A t : Move(s, t, i, 1, 0) => Referred(t, i)
           /\ \A t, j : Referred(s, i) /\ Move(s, t, j, 1, 0) => Referred(t, i)
           /\ \A t, j : Referred(s, i) /\ Move(s, t, j, 0, 0) => Referred(t, i)
  <1>1. InodeSane(s, i) /\ s.node[i].ref \in Int /\ s.node[i].open \in Int
    BY DEF Live, Sane, States, NodeRecs
  <1>2. Base(i) \in {0, 1}
    BY DEF Base
  <1>3. Referred(s, i) => s.node[i].ref > 0
    BY <1>1, <1>2 DEF Referred, InodeSane
  <1>4. ASSUME NEW t, Move(s, t, i, 1, 0) PROVE Referred(t, i)
    <2>1. t.node[i].ref = s.node[i].ref + 1 /\ t.node[i].open = s.node[i].open + 0
      BY <1>4 DEF Move
    <2> QED BY <1>1, <1>2, <2>1 DEF Referred, InodeSane
  <1>5. ASSUME NEW t, NEW j, NEW a \in {0, 1}, Referred(s, i), Move(s, t, j, a, 0)
        PROVE Referred(t, i)
    <2>1. t.node[i].ref = s.node[i].ref + (IF i = j THEN a ELSE 0)
          /\ t.node[i].open = s.node[i].open + 0
      BY <1>5 DEF Move
    <2> QED BY <1>1, <1>2, <1>5, <2>1 DEF Referred, InodeSane
  <1> QED BY <1>3, <1>4, <1>5

LEMMA AnchoredMove ==
    ASSUME NEW s, NEW t, Live(s), Anchored(s), NEW i, NEW a \in {0, 1}, Move(s, t, i, a, 0)
    PROVE  Anchored(t)
  <1>1. Frame(s, t) /\ Dirs \subseteq Nodes
    BY DEF Move, Nodes, Sfs
  <1>2. ASSUME NEW j \in Nodes, Referred(s, j) PROVE Referred(t, j)
    <2>1. CASE a = 0
      BY <1>2, <2>1, ReferredFacts
    <2>2. CASE a = 1
      BY <1>2, <2>2, ReferredFacts
    <2> QED BY <2>1, <2>2
  <1> QED BY <1>1, <1>2 DEF Anchored, Frame

\* A reference held during a look-up is given back.
LEMMA HeldMeanwhile ==
    ASSUME NEW s, Live(s), NEW i \in Nodes, NEW t, Move(s, t, i, 1, 0),
           NEW u, Got(t, u)
    PROVE  LET v == ref_dec(u, i)
           IN  Got(s, v) /\ v.ret = u.ret /\ v.at = u.at
  <1> DEFINE v == ref_dec(u, i)
  <1> DEFINE j == IF u.ret = "ok" THEN u.at ELSE None
             a == IF u.ret = "ok" THEN 1 ELSE 0
  <1>1. /\ Move(t, u, j, a, 0) /\ a \in {0, 1}
        /\ u.ret = "ok" => a = 1 /\ j = u.at /\ j \in Nodes
        /\ u.ret # "ok" => a = 0 /\ j = None
    BY DEF Got
  <1> HIDE DEF j, a
  <1>2. Live(t) /\ Live(u)
    BY <1>1 DEF Move
  <1>3. Referred(u, i)
    BY <1>1, <1>2, ReferredFacts
  <1>4. Move(u, v, i, -1, 0) /\ v.ret = u.ret /\ v.at = u.at
    BY <1>2, <1>3, RefDec DEF Referred
  <1>5. Move(s, v, j, a, 0)
    <2> HIDE DEF v
    <2>1. \A k \in Nodes : s.node[k].ref \in Int /\ s.node[k].open \in Int
      BY DEF Live, States, NodeRecs
    <2>2. Frame(s, v) /\ Live(v)
      BY <1>1, <1>4 DEF Move, Frame
    <2>3. \A k \in Regs : HoldsIn(v, k) = HoldsIn(s, k)
      BY <1>1, <1>4 DEF Move
    <2>4. \A k \in Nodes : /\ v.node[k].ref = s.node[k].ref + (IF k = j THEN a ELSE 0)
                           /\ v.node[k].open = s.node[k].open + (IF k = j THEN 0 ELSE 0)
      <3> TAKE k \in Nodes
      <3>1. /\ t.node[k].ref = s.node[k].ref + (IF k = i THEN 1 ELSE 0)
            /\ t.node[k].open = s.node[k].open + 0
            /\ u.node[k].ref = t.node[k].ref + (IF k = j THEN a ELSE 0)
            /\ u.node[k].open = t.node[k].open + 0
            /\ v.node[k].ref = u.node[k].ref + (IF k = i THEN -1 ELSE 0)
            /\ v.node[k].open = u.node[k].open + 0
        BY <1>1, <1>4 DEF Move
      <3> QED BY <1>1, <2>1, <3>1
    <2> QED BY <2>2, <2>3, <2>4 DEF Move
  <1>6. Got(s, v)
    <2> HIDE DEF v
    <2>1. CASE u.ret = "ok"
      <3>1. v.ret = "ok" /\ v.at \in Nodes /\ j = v.at /\ a = 1
        BY <1>1, <1>4, <2>1
      <3> QED BY <1>5, <3>1 DEF Got
    <2>2. CASE u.ret # "ok"
      BY <1>1, <1>4, <1>5, <2>2 DEF Got
    <2> QED BY <2>1, <2>2
  <1> QED BY <1>4, <1>6

LEMMA GetRoot ==
    ASSUME NEW s, Live(s), s.ret = "ok", NEW oom
    PROVE  LET t == get_root(s, oom)
           IN  Stopped(t) \/ (Got(s, t) /\ t.ret = "ok" /\ t.at = Root)
  <1> DEFINE l == load_inode(s, Root, oom)
             t == get_root(s, oom)
  <1>1. Root \in Sfs
    BY FilesAssumption DEF Sfs
  <1>2. Got(s, l) /\ (l.ret = "ok" => l.at = Root)
    BY <1>1, LoadInode
  <1>3. Live(l)
    BY <1>2 DEF Got, Move
  <1>4. t = Check(l, l.ret = "ok", "load_root")
    BY DEF get_root
  <1> HIDE DEF l, t
  <1>5. CASE l.ret = "ok"
    BY <1>2, <1>4, <1>5 DEF Check, t
  <1>6. CASE l.ret # "ok"
    <2>1. t = [l EXCEPT !.panic = "load_root"]
      BY <1>3, <1>4, <1>6 DEF Check, Live
    <2>2. Stopped(t)
      BY <1>3, <2>1 DEF Stopped, MayStop, Fields, Live, States
    <2> QED BY <2>2 DEF t
  <1> QED BY <1>5, <1>6

\* Taking a reference to something that is referred to anyway.
LEMMA RefAt ==
    ASSUME NEW s, Live(s), s.ret = "ok", NEW i \in Nodes, s.node[i].ref > 0
    PROVE  LET t == [ref_inc(s, i) EXCEPT !.at = i]
           IN  Got(s, t) /\ t.ret = "ok" /\ t.at = i
  <1> DEFINE u == ref_inc(s, i)
             t == [u EXCEPT !.at = i]
  <1>1. Move(s, u, i, 1, 0) /\ u.ret = "ok"
    BY RefInc
  <1>2. Live(u)
    BY <1>1 DEF Move
  <1>3. Move(u, t, i, 0, 0) /\ t.at = i /\ t.ret = "ok"
    <2> HIDE DEF u
    <2> QED BY <1>1, <1>2, AtFacts
  <1>4. Move(s, t, i, 1 + 0, 0 + 0)
    <2> HIDE DEF u, t
    <2> QED BY <1>1, <1>3, Moves
  <1> QED BY <1>3, <1>4 DEF Got

LEMMA FailGot ==
    ASSUME NEW s, Live(s), NEW e \in Rets \ {"ok"}
    PROVE  Got(s, Fail(s, e)) /\ Fail(s, e).ret = e /\ Fail(s, e).at = s.at
  <1>1. Move(s, Fail(s, e), None, 0, 0) /\ Fail(s, e).ret = e /\ Fail(s, e).at = s.at
    BY FailFacts
  <1> QED BY <1>1 DEF Got

LEMMA GetCurdir ==
    ASSUME NEW s, Live(s), Anchored(s), s.ret = "ok", NEW p \in Procs
    PROVE  LET t == get_curdir(s, p)
           IN  /\ Got(s, t) /\ (t.ret = "ok" => t.at \in Dirs)
               /\ t.ret = "ok" => t.at = s.fs[p].pwd
               /\ t.ret = "ok" <=> s.fs[p].pwd # None
  <1> DEFINE t == get_curdir(s, p)
             d == s.fs[p].pwd
  <1>1. CASE d = None
    <2>1. t = Fail(s, "E_NOENT") /\ "E_NOENT" \in Rets \ {"ok"}
      BY <1>1 DEF get_curdir, Rets
    <2>2. Got(s, t) /\ t.ret = "E_NOENT"
      <3> HIDE DEF t
      <3> QED BY <2>1, FailGot
    <2> QED BY <1>1, <2>2
  <1>2. CASE d # None
    <2>1. t = [ref_inc(s, d) EXCEPT !.at = d]
      BY <1>2 DEF get_curdir
    <2>2. d \in Dirs /\ d \in Nodes /\ Referred(s, d)
      BY <1>2 DEF Anchored, Nodes, Sfs
    <2>3. s.node[d].ref > 0
      BY <2>2, ReferredFacts
    <2>4. Got(s, t) /\ t.ret = "ok" /\ t.at = d
      <3> HIDE DEF t, d
      <3> QED BY <2>1, <2>2, <2>3, RefAt
    <2> QED BY <1>2, <2>2, <2>4
  <1> QED BY <1>1, <1>2

Froms == {"cwd", "boot", "fs", "disk0", "nodev"} \union Devs

LEMMA GetDevice ==
    ASSUME NEW s, Live(s), Anchored(s), s.ret = "ok", NEW p \in Procs,
           NEW from \in Froms, NEW oom
    PROVE  LET t == get_device(s, p, from, oom)
           IN  Stopped(t) \/ (Got(s, t) /\ (t.ret = "ok" => t.at \in Dirs \union Devs))
  <1> DEFINE t == get_device(s, p, from, oom)
  <1>1. CASE from = "cwd"
    BY <1>1, GetCurdir DEF get_device
  <1>2. CASE from = "boot"
    <2>1. CASE s.bootfs = None
      <3>1. t = Fail(s, "E_NOENT") /\ "E_NOENT" \in Rets \ {"ok"}
        BY <1>2, <2>1 DEF get_device, Rets
      <3>2. Got(s, t) /\ t.ret = "E_NOENT"
        <4> HIDE DEF t
        <4> QED BY <3>1, FailGot
      <3> QED BY <3>2
    <2>2. CASE s.bootfs # None
      <3> DEFINE b == s.bootfs
      <3>1. b \in Dirs /\ b \in Nodes /\ Referred(s, b)
        BY <2>2 DEF Anchored, Nodes, Sfs
      <3>2. s.node[b].ref > 0
        BY <3>1, ReferredFacts
      <3>3. t = [ref_inc(s, b) EXCEPT !.at = b]
        BY <1>2, <2>2 DEF get_device
      <3>4. Got(s, t) /\ t.ret = "ok" /\ t.at = b
        <4> HIDE DEF t, b
        <4> QED BY <3>1, <3>2, <3>3, RefAt
      <3> QED BY <3>1, <3>4
    <2> QED BY <2>1, <2>2
  <1>3. CASE from = "fs"
    <2> DEFINE c == get_curdir(s, p)
               r == get_root(c, oom)
    <2>1. t = IF Ok(c) THEN ref_dec(r, c.at) ELSE c
      BY <1>3 DEF get_device
    <2>2. Got(s, c) /\ (c.ret = "ok" => c.at \in Dirs)
      BY GetCurdir
    <2>3. Live(c) /\ c.panic = "none"
      BY <2>2 DEF Got, Move, Live
    <2>4. CASE c.ret # "ok"
      <3> HIDE DEF c
      <3> QED BY <2>1, <2>2, <2>4 DEF Ok
    <2>5. CASE c.ret = "ok"
      <3>1. t = ref_dec(r, c.at) /\ c.at \in Dirs /\ c.at \in Nodes
        BY <2>1, <2>2, <2>3, <2>5 DEF Ok, Nodes, Sfs
      <3>2. Stopped(r) \/ (Got(c, r) /\ r.ret = "ok" /\ r.at = Root)
        <4> HIDE DEF c
        <4> QED BY <2>3, <2>5, GetRoot
      <3>3. Move(s, c, c.at, 1, 0)
        BY <2>2, <2>5 DEF Got
      <3>4. CASE Stopped(r)
        <4>1. Stopped(t)
          <5> HIDE DEF r, c, t
          <5> QED BY <3>1, <3>4, StoppedRefDec
        <4> QED BY <4>1
      <3>5. CASE Got(c, r) /\ r.ret = "ok" /\ r.at = Root
        <4>1. Got(s, t) /\ t.ret = "ok" /\ t.at = Root
          <5> HIDE DEF r, c, t
          <5> QED BY <3>1, <3>3, <3>5, HeldMeanwhile
        <4>2. Root \in Dirs
          BY FilesAssumption
        <4> QED BY <4>1, <4>2
      <3> QED BY <3>2, <3>4, <3>5
    <2> QED BY <2>4, <2>5
  <1>4. CASE from = "disk0"
    <2>1. t = get_root(s, oom)
      BY <1>4 DEF get_device
    <2>2. Stopped(t) \/ (Got(s, t) /\ t.ret = "ok" /\ t.at = Root)
      <3> HIDE DEF t
      <3> QED BY <2>1, GetRoot
    <2> QED BY <2>2, FilesAssumption
  <1>5. CASE from \in Devs
    <2>1. t = [ref_inc(s, from) EXCEPT !.at = from] /\ from \in Nodes
      BY <1>5 DEF get_device, Devs, Nodes
    <2>2. s.node[from].ref > 0
      <3>1. InodeSane(s, from) /\ Base(from) = 1 /\ s.node[from].ref \in Int
            /\ s.node[from].open \in Int
        BY <1>5, <2>1 DEF Live, Sane, Base, States, NodeRecs
      <3> QED BY <3>1 DEF InodeSane
    <2>3. Got(s, t) /\ t.ret = "ok" /\ t.at = from
      <3> HIDE DEF t
      <3> QED BY <2>1, <2>2, RefAt
    <2> QED BY <1>5, <2>3
  <1>6. CASE from = "nodev"
    <2>1. t = Fail(s, "E_NO_DEV") /\ "E_NO_DEV" \in Rets \ {"ok"}
      BY <1>6 DEF get_device, Rets, Devs
    <2>2. Got(s, t) /\ t.ret = "E_NO_DEV"
      <3> HIDE DEF t
      <3> QED BY <2>1, FailGot
    <2> QED BY <2>2
  <1> QED BY <1>1, <1>2, <1>3, <1>4, <1>5, <1>6 DEF Froms

LEMMA LookupOnce ==
    ASSUME NEW s, Live(s), s.ret = "ok", NEW d \in Dirs, NEW name \in Names, NEW oom
    PROVE  LET t == lookup_once(s, d, name, oom)
           IN  Got(s, t) /\ (t.ret = "ok" => t.at = Entry[d][name])
  <1> DEFINE t == lookup_once(s, d, name, oom)
  <1>1. Entry[d][name] \in Sfs \union {None}
    BY FilesAssumption
  <1>2. CASE oom = "dirent"
    <2>1. t = Fail(s, "E_NO_MEM") /\ "E_NO_MEM" \in Rets \ {"ok"}
      BY <1>2 DEF lookup_once, Rets
    <2>2. Got(s, t) /\ t.ret = "E_NO_MEM"
      <3> HIDE DEF t
      <3> QED BY <2>1, FailGot
    <2> QED BY <2>2
  <1>3. CASE oom # "dirent" /\ Entry[d][name] = None
    <2>1. t = Fail(s, "E_NOENT") /\ "E_NOENT" \in Rets \ {"ok"}
      BY <1>3 DEF lookup_once, Rets
    <2>2. Got(s, t) /\ t.ret = "E_NOENT"
      <3> HIDE DEF t
      <3> QED BY <2>1, FailGot
    <2> QED BY <2>2
  <1>4. CASE oom # "dirent" /\ Entry[d][name] # None
    <2>1. t = load_inode(s, Entry[d][name], oom) /\ Entry[d][name] \in Sfs
      BY <1>1, <1>4 DEF lookup_once
    <2>2. Got(s, t) /\ (t.ret = "ok" => t.at = Entry[d][name])
      <3> HIDE DEF t
      <3> QED BY <2>1, LoadInode
    <2> QED BY <2>2
  <1> QED BY <1>2, <1>3, <1>4

LEMMA Lookup ==
    ASSUME NEW s, Live(s), s.ret = "ok", NEW i \in Dirs \union Devs, s.node[i].ref > 0,
           NEW name \in Names, NEW oom
    PROVE  Got(s, lookup(s, i, name, oom))
  <1> DEFINE t == lookup(s, i, name, oom)
  <1>1. CASE i \in Devs
    <2>1. t = Fail(s, "E_NOENT") /\ "E_NOENT" \in Rets \ {"ok"}
      BY <1>1 DEF lookup, Rets
    <2> HIDE DEF t
    <2>2. Got(s, t)
      BY <2>1, FailGot
    <2> QED BY <2>2 DEF t
  <1>2. CASE i \notin Devs
    <2> DEFINE u == ref_inc(s, i)
               v == lookup_once(u, i, name, oom)
    <2>1. i \in Dirs /\ i \in Nodes /\ t = ref_dec(v, i)
      BY <1>2 DEF lookup, Nodes, Sfs
    <2>2. Move(s, u, i, 1, 0) /\ u.ret = "ok"
      BY <2>1, RefInc
    <2>3. Got(u, v)
      <3>1. Live(u)
        BY <2>2 DEF Move
      <3> HIDE DEF u
      <3> QED BY <2>1, <2>2, <3>1, LookupOnce
    <2>4. Got(s, t)
      <3> HIDE DEF u, v, t
      <3> QED BY <2>1, <2>2, <2>3, HeldMeanwhile
    <2> QED BY <2>4
  <1> QED BY <1>1, <1>2

LEMMA VfsLookup ==
    ASSUME NEW s, Live(s), Anchored(s), s.ret = "ok", NEW p \in Procs,
           NEW path \in Paths, NEW oom
    PROVE  LET t == vfs_lookup(s, p, path, oom)
           IN  Stopped(t) \/ Got(s, t)
  <1> DEFINE t == get_device(s, p, path.from, oom)
             u == Vop(t, t.at, "lookup")
             l == lookup(u, t.at, path.name, oom)
             r == vfs_lookup(s, p, path, oom)
  <1>1. path.from \in Froms /\ path.name \in Names \union {""}
    BY FilesAssumption DEF Froms
  <1>2. Stopped(t) \/ (Got(s, t) /\ (t.ret = "ok" => t.at \in Dirs \union Devs))
    BY <1>1, GetDevice
  <1>3. r = IF ~Ok(t) \/ path.name = "" THEN t ELSE ref_dec(l, t.at)
    BY DEF vfs_lookup
  <1>4. CASE Stopped(t)
    <2>1. ~Ok(t)
      BY <1>4 DEF Ok, Stopped, MayStop
    <2> QED BY <1>3, <1>4, <2>1
  <1>5. CASE Got(s, t) /\ (~Ok(t) \/ path.name = "")
    BY <1>3, <1>5
  <1>6. CASE Got(s, t) /\ Ok(t) /\ path.name # "" /\ t.at \in Dirs \union Devs
    <2>1. r = ref_dec(l, t.at) /\ path.name \in Names /\ t.ret = "ok" /\ t.at \in Nodes
      BY <1>1, <1>3, <1>6 DEF Ok, Nodes, Sfs
    <2>2. Move(s, t, t.at, 1, 0)
      BY <1>6, <2>1 DEF Got
    <2>3. Live(t)
      BY <2>2 DEF Move
    <2>4. u = t
      <3>1. "lookup" \in Ops(t.at)
        BY <1>6 DEF Ops
      <3> HIDE DEF t
      <3> QED BY <2>1, <2>3, <3>1, VopFacts
    <2>5. t.node[t.at].ref > 0
      <3> HIDE DEF t
      <3> QED BY <2>1, <2>2, <2>3, ReferredFacts
    <2>6. Got(t, l)
      <3> HIDE DEF t, u
      <3> QED BY <1>6, <2>1, <2>3, <2>4, <2>5, Lookup
    <2>7. Got(s, r)
      <3> HIDE DEF t, l, r
      <3> QED BY <2>1, <2>2, <2>6, HeldMeanwhile
    <2> QED BY <2>7
  <1>7. Got(s, t) => (t.ret = "ok" <=> Ok(t))
    <2> HIDE DEF t
    <2>1. Got(s, t) => t.panic = "none"
      BY DEF Got, Move, Live
    <2> QED BY <2>1 DEF Ok
  <1> QED BY <1>2, <1>4, <1>5, <1>6, <1>7

-----------------------------------------------------------------------------
(* Opening                                                                 *)

\* What files hold is unchanged but for i, which may hold something just if full.
OnlyHolds(s, t, i, full) ==
    \A j \in Regs : HoldsIn(t, j) # HoldsIn(s, j) => j = i /\ HoldsIn(t, j) = full
SameCounts(s, t) ==
    \A j \in Nodes : t.node[j].ref = s.node[j].ref /\ t.node[j].open = s.node[j].open

LEMMA ResizeFacts ==
    ASSUME NEW s, Live(s), NEW i \in Regs, s.node[i].ref > 0, NEW full \in BOOLEAN
    PROVE  LET t == Resize(s, i, full)
           IN  /\ Live(t) /\ Frame(s, t) /\ SameCounts(s, t)
               /\ OnlyHolds(s, t, i, full) /\ t.ret = s.ret /\ t.at = s.at
  <1> DEFINE t == Resize(s, i, full)
  <1>1. s \in States /\ i \in Nodes /\ s.node[i] \in NodeRecs /\ InodeSane(s, i)
        /\ s.panic = "none" /\ i \in s.hash /\ i \in Sfs
    <2>1. i \in Nodes /\ i \in Sfs
      BY DEF Nodes, Sfs
    <2> QED BY <2>1 DEF Live, Sane, States, InodeSane
  <1>2. CASE s.node[i].full = full
    BY <1>2 DEF Resize, Frame, SameCounts, OnlyHolds
  <1>3. CASE s.node[i].full # full
    <2> DEFINE r == [s.node[i] EXCEPT !.full = full, !.dirty = TRUE]
               n == [s.node EXCEPT ![i] = r]
    <2>1. t = [s EXCEPT !.node = n, !.super_dirty = TRUE]
      <3>1. [[s.node EXCEPT ![i].full = full] EXCEPT ![i].dirty = TRUE] = n
        BY <1>1 DEF States, NodeRecs
      <3> QED BY <1>1, <1>3, <3>1 DEF Resize, States
    <2>2. /\ r \in NodeRecs /\ r.ref = s.node[i].ref /\ r.open = s.node[i].open
          /\ r.reclaim = s.node[i].reclaim /\ r.dirty = TRUE /\ r.full = full
      BY <1>1 DEF NodeRecs
    <2> HIDE DEF r
    <2>3. n \in [Nodes -> NodeRecs] /\ n[i] = r /\ \A j \in Nodes \ {i} : n[j] = s.node[j]
      BY <1>1, <2>2 DEF States
    <2> HIDE DEF n
    <2>4. /\ t \in States /\ t.panic = "none" /\ Frame(s, t) /\ t.node = n
          /\ t.hash = s.hash /\ t.disk = s.disk /\ t.ret = s.ret /\ t.at = s.at
      <3> HIDE DEF t
      <3> QED BY <1>1, <2>1, <2>3 DEF States, Frame
    <2> HIDE DEF t
    <2>5. Sane(t)
      <3> SUFFICES ASSUME NEW j \in Nodes PROVE InodeSane(t, j)
        BY DEF Sane
      <3>1. InodeSane(s, j)
        BY DEF Live, Sane
      <3>2. CASE j = i
        BY <1>1, <2>2, <2>3, <2>4, <3>2 DEF InodeSane
      <3>3. CASE j # i
        BY <2>3, <2>4, <3>1, <3>3 DEF InodeSane
      <3> QED BY <3>2, <3>3
    <2>6. SameCounts(s, t)
      BY <2>2, <2>3, <2>4 DEF SameCounts
    <2>7. OnlyHolds(s, t, i, full)
      <3>1. HoldsIn(t, i) = full
        BY <1>1, <2>2, <2>3, <2>4 DEF HoldsIn
      <3>2. \A j \in Regs \ {i} : j \in Nodes /\ HoldsIn(t, j) = HoldsIn(s, j)
        BY <2>3, <2>4 DEF HoldsIn, Nodes, Sfs
      <3> QED BY <3>1, <3>2 DEF OnlyHolds
    <2> QED BY <2>4, <2>5, <2>6, <2>7 DEF Live, t
  <1> QED BY <1>2, <1>3

Rest(s, i) == s.node[i].ref - s.node[i].open - s.leaked[i]
\* The open count of i is higher by b; no count but that of the descriptors
\* is part of the difference.
Shift(s, t, i, b) ==
    /\ Live(t) /\ t.fs = s.fs /\ t.bootfs = s.bootfs
    /\ \A j \in Nodes : /\ t.node[j].open = s.node[j].open + (IF j = i THEN b ELSE 0)
                        /\ Rest(t, j) = Rest(s, j)
Opened(s, t, flags) ==
    IF t.ret = "ok"
    THEN /\ t.at \in Nodes /\ Shift(s, t, t.at, 1)
         /\ OnlyHolds(s, t, t.at, FALSE)
         /\ ~(flags.trunc \/ flags.creat) => OnlyHolds(s, t, None, FALSE)
    ELSE Shift(s, t, None, 0) /\ OnlyHolds(s, t, None, FALSE)

LEMMA MoveShift ==
    ASSUME NEW s, Live(s), NEW t, NEW i, NEW a \in Int, Move(s, t, i, a, a)
    PROVE  Shift(s, t, i, a) /\ \A j : OnlyHolds(s, t, j, FALSE)
  <1>1. \A j \in Nodes : s.node[j].ref \in Int /\ s.node[j].open \in Int /\ s.leaked[j] \in Int
    BY DEF Live, States, NodeRecs
  <1>2. ASSUME NEW j \in Nodes PROVE Rest(t, j) = Rest(s, j)
    <2>1. /\ t.node[j].ref = s.node[j].ref + (IF j = i THEN a ELSE 0)
          /\ t.node[j].open = s.node[j].open + (IF j = i THEN a ELSE 0)
          /\ t.leaked = s.leaked
      BY DEF Move, Frame
    <2> QED BY <1>1, <2>1 DEF Rest
  <1> QED BY <1>2 DEF Move, Frame, Shift, OnlyHolds

LEMMA CreateFacts ==
    ASSUME NEW s, Live(s), Anchored(s), NEW p \in Procs, NEW path \in Paths, NEW oom
    PROVE  LET t == create(s, p, path, oom)
           IN  Stopped(t) \/ (t.ret # "ok" /\ Move(s, t, None, 0, 0))
  <1> DEFINE u == [s EXCEPT !.ret = "ok"]
             from == IF path.from \in {"disk0"} \union Devs THEN "cwd" ELSE path.from
             t == get_device(u, p, from, oom)
  <1>1. Move(s, u, None, 0, 0) /\ u.ret = "ok"
    <2>1. u = Fail(s, "ok") /\ "ok" \in Rets
      BY DEF Fail, Rets
    <2> HIDE DEF u
    <2> QED BY <2>1, FailFacts
  <1>2. from \in Froms
    BY FilesAssumption DEF Froms
  <1>3. Live(u) /\ Anchored(u)
    <2>1. Live(u)
      BY <1>1 DEF Move
    <2> HIDE DEF u
    <2> QED BY <1>1, <2>1, AnchoredMove
  <1>4. Stopped(t) \/ Got(u, t)
    <2> HIDE DEF u, from
    <2> QED BY <1>1, <1>2, <1>3, GetDevice
  <1>5. create(s, p, path, oom) = IF Ok(t) THEN Vop(t, t.at, "create") ELSE t
    BY DEF create
  <1> HIDE DEF t, u, from
  <1>6. CASE Stopped(t)
    BY <1>5, <1>6 DEF Ok, Stopped, MayStop
  <1>7. CASE Got(u, t) /\ t.ret = "ok"
    <2>1. Live(t) /\ t.at \in Nodes
      BY <1>7 DEF Got, Move
    <2>2. "create" \notin Ops(t.at)
      BY DEF Ops
    <2>3. Stopped(Vop(t, t.at, "create"))
      BY <2>1, <2>2, VopFacts
    <2>4. Ok(t)
      BY <1>7, <2>1 DEF Ok, Live
    <2> QED BY <1>5, <2>3, <2>4
  <1>8. CASE Got(u, t) /\ t.ret # "ok"
    <2>1. Move(u, t, None, 0, 0)
      BY <1>8 DEF Got
    <2>2. Move(s, t, None, 0 + 0, 0 + 0)
      BY <1>1, <2>1, Moves
    <2> QED BY <1>5, <1>8, <2>2 DEF Ok
  <1> QED BY <1>4, <1>6, <1>7, <1>8

LEMMA TruncateFacts ==
    ASSUME NEW s, Live(s), s.ret = "ok", NEW i \in Nodes, s.node[i].ref > 0
    PROVE  LET t == truncate(s, i)
           IN  \/ Stopped(t)
               \/ /\ Live(t) /\ Frame(s, t) /\ SameCounts(s, t)
                  /\ OnlyHolds(s, t, i, FALSE) /\ t.ret = s.ret /\ t.at = s.at
  <1> DEFINE t == truncate(s, i)
  <1>1. CASE i \in Regs
    <2>1. "truncate" \in Ops(i)
      BY <1>1 DEF Ops
    <2>2. Vop(s, i, "truncate") = s
      BY <2>1, VopFacts
    <2>3. t = Resize(s, i, FALSE)
      BY <2>2 DEF truncate, Ok, Live
    <2> QED BY <1>1, <2>3, ResizeFacts
  <1>2. CASE i \notin Regs
    <2>1. "truncate" \notin Ops(i)
      BY <1>2 DEF Ops
    <2>2. Stopped(Vop(s, i, "truncate"))
      BY <2>1, VopFacts
    <2>3. ~Ok(Vop(s, i, "truncate"))
      BY <2>2 DEF Ok, Stopped, MayStop
    <2>4. t = Vop(s, i, "truncate")
      BY <2>3 DEF truncate
    <2> QED BY <2>2, <2>4
  <1> QED BY <1>1, <1>2

LEMMA VopOpen ==
    ASSUME NEW s, NEW i, NEW flags
    PROVE  vop_open(s, i, flags) = s \/ \E e \in Rets \ {"ok"} : vop_open(s, i, flags) = Fail(s, e)
  <1>1. "E_ISDIR" \in Rets \ {"ok"} /\ "E_INVAL" \in Rets \ {"ok"}
    BY DEF Rets
  <1> QED BY <1>1 DEF vop_open

\* O_CREAT with O_EXCL: the reference is lost, and counted.
Leak(s, i) == [Fail(s, "E_EXISTS") EXCEPT !.leaked[i] = @ + 1]
LEMMA Leaks ==
    ASSUME NEW s0, Live(s0), NEW s, NEW i \in Nodes, Move(s0, s, i, 1, 0)
    PROVE  LET t == Leak(s, i)
           IN  Shift(s0, t, None, 0) /\ OnlyHolds(s0, t, None, FALSE) /\ t.ret = "E_EXISTS"
  <1> DEFINE t == Leak(s, i)
             l == [s.leaked EXCEPT ![i] = @ + 1]
  <1>1. s \in States /\ s.panic = "none" /\ Sane(s) /\ s0 \in States /\ Frame(s0, s)
    BY DEF Move, Live
  <1>2. l \in [Nodes -> Nat] /\ l[i] = s.leaked[i] + 1 /\ \A j \in Nodes \ {i} : l[j] = s.leaked[j]
    BY <1>1 DEF States
  <1>3. t = [s EXCEPT !.ret = "E_EXISTS", !.leaked = l]
    BY <1>1 DEF Leak, Fail, States
  <1> HIDE DEF l, t
  <1>4. /\ t \in States /\ t.panic = "none" /\ t.fs = s.fs /\ t.bootfs = s.bootfs
        /\ t.node = s.node /\ t.hash = s.hash /\ t.disk = s.disk /\ t.ret = "E_EXISTS"
        /\ t.leaked = l
    <2>1. "E_EXISTS" \in Rets
      BY DEF Rets
    <2> QED BY <1>1, <1>2, <1>3, <2>1 DEF States
  <1>5. Live(t)
    BY <1>1, <1>4 DEF Live, Sane, InodeSane
  <1>6. OnlyHolds(s0, t, None, FALSE)
    BY <1>4 DEF OnlyHolds, Move, HoldsIn
  <1>7. \A j \in Nodes : /\ t.node[j].open = s0.node[j].open + 0
                         /\ Rest(t, j) = Rest(s0, j)
    <2> TAKE j \in Nodes
    <2>1. /\ t.node[j].ref = s0.node[j].ref + (IF j = i THEN 1 ELSE 0)
          /\ t.node[j].open = s0.node[j].open + (IF j = i THEN 0 ELSE 0)
      BY <1>4 DEF Move
    <2>2. s0.node[j].ref \in Int /\ s0.node[j].open \in Int /\ s0.leaked[j] \in Nat
      BY <1>1 DEF States, NodeRecs
    <2>3. t.leaked[j] = s0.leaked[j] + (IF j = i THEN 1 ELSE 0)
      BY <1>1, <1>2, <1>4, <2>2 DEF Frame
    <2> QED BY <2>1, <2>2, <2>3 DEF Rest
  <1>8. Shift(s0, t, None, 0)
    BY <1>1, <1>4, <1>5, <1>7 DEF Shift, Frame
  <1> QED BY <1>4, <1>6, <1>8 DEF t

LEMMA NoMove ==
    ASSUME NEW s, NEW t, NEW i, NEW j, Move(s, t, i, 0, 0)
    PROVE  Move(s, t, j, 0, 0)
  BY DEF Move

LEMMA OpenFound ==
    ASSUME NEW s0, Live(s0), NEW s, NEW i \in Nodes, Move(s0, s, i, 1, 0),
           s.ret = "ok", s.at = i, NEW flags
    PROVE  LET t == open_found(s, i, flags)
           IN  Stopped(t) \/ Opened(s0, t, flags)
  <1> DEFINE t == open_found(s, i, flags)
             v == vop_open(s, i, flags)
  <1>0. Live(s) /\ Referred(s, i) /\ s.panic = "none" /\ s.node[i].ref > 0
    <2>1. Live(s) /\ Referred(s, i)
      BY ReferredFacts DEF Move
    <2> QED BY <2>1, ReferredFacts DEF Live
  <1>1. CASE flags.excl /\ flags.creat
    <2>1. t = Leak(s, i)
      BY <1>1 DEF open_found, Leak
    <2>2. Shift(s0, t, None, 0) /\ OnlyHolds(s0, t, None, FALSE) /\ t.ret = "E_EXISTS"
      <3> HIDE DEF t
      <3> QED BY <2>1, Leaks
    <2> QED BY <2>2 DEF Opened
  <1>2. CASE ~(flags.excl /\ flags.creat) /\ v # s
    <2>1. PICK e \in Rets \ {"ok"} : v = Fail(s, e)
      BY <1>2, VopOpen
    <2>2. Move(s, v, i, 0, 0) /\ v.ret = e
      <3> HIDE DEF v
      <3> QED BY <1>0, <2>1, FailFacts
    <2>3. t = ref_dec(v, i)
      <3>1. ~Ok(v)
        BY <2>2 DEF Ok
      <3> QED BY <1>2, <3>1 DEF open_found
    <2>4. Move(s0, v, i, 1 + 0, 0 + 0)
      <3> HIDE DEF v
      <3> QED BY <2>2, Moves
    <2>5. Live(v) /\ Referred(v, i)
      <3> HIDE DEF v
      <3> QED BY <2>4, ReferredFacts DEF Move
    <2>6. Move(v, t, i, -1, 0) /\ t.ret = e
      <3> HIDE DEF v, t
      <3> QED BY <2>2, <2>3, <2>5, RefDec DEF Referred
    <2>7. Move(s0, t, i, 1 + (-1), 0 + 0)
      <3> HIDE DEF v, t
      <3> QED BY <2>4, <2>6, Moves
    <2>8. Move(s0, t, None, 0, 0)
      <3> HIDE DEF t
      <3> QED BY <2>7, NoMove
    <2>9. Shift(s0, t, None, 0) /\ OnlyHolds(s0, t, None, FALSE)
      <3>1. 0 \in Int
        OBVIOUS
      <3> HIDE DEF t
      <3> QED BY <2>8, <3>1, MoveShift
    <2> QED BY <2>6, <2>9 DEF Opened
  <1>3. CASE ~(flags.excl /\ flags.creat) /\ v = s
    <2> DEFINE u == open_inc(s, i)
               x == truncate(u, i)
    <2>1. t = IF flags.trunc \/ flags.creat THEN x ELSE u
      <3>1. Ok(s)
        BY <1>0 DEF Ok
      <3> QED BY <1>3, <3>1 DEF open_found
    <2>2. Move(s, u, i, 0, 1) /\ u.ret = "ok" /\ u.at = i
      BY <1>0, OpenInc DEF Referred
    <2> HIDE DEF u
    <2>3. Move(s0, u, i, 1, 1)
      <3>1. Move(s0, u, i, 1 + 0, 0 + 1)
        BY <2>2, Moves
      <3> QED BY <3>1
    <2>4. Shift(s0, u, i, 1) /\ \A j : OnlyHolds(s0, u, j, FALSE)
      <3>1. 1 \in Int
        OBVIOUS
      <3> QED BY <2>3, <3>1, MoveShift
    <2>5. CASE ~(flags.trunc \/ flags.creat)
      <3>1. t = u
        BY <2>1, <2>5
      <3> QED BY <2>2, <2>4, <3>1 DEF Opened
    <2>6. CASE flags.trunc \/ flags.creat
      <3>1. Live(u) /\ u.node[i].ref > 0
        <4>1. u.node[i].ref = s.node[i].ref + 0 /\ s.node[i].ref \in Int
          BY <1>0, <2>2 DEF Move, Live, States, NodeRecs
        <4> QED BY <1>0, <2>2, <4>1 DEF Move
      <3>2. Stopped(x) \/ (/\ Live(x) /\ Frame(u, x) /\ SameCounts(u, x)
                           /\ OnlyHolds(u, x, i, FALSE) /\ x.ret = u.ret /\ x.at = u.at)
        BY <2>2, <3>1, TruncateFacts
      <3> HIDE DEF x
      <3>3. CASE Stopped(x)
        BY <2>1, <2>6, <3>3
      <3>4. CASE /\ Live(x) /\ Frame(u, x) /\ SameCounts(u, x)
                 /\ OnlyHolds(u, x, i, FALSE) /\ x.ret = u.ret /\ x.at = u.at
        <4>1. Shift(s0, x, i, 1)
          BY <2>4, <3>4 DEF Shift, Frame, SameCounts, Rest
        <4>2. OnlyHolds(s0, x, i, FALSE)
          BY <2>4, <3>4 DEF OnlyHolds
        <4>3. Opened(s0, x, flags)
          BY <2>2, <2>6, <3>4, <4>1, <4>2 DEF Opened
        <4> QED BY <2>1, <2>6, <4>3
      <3> QED BY <3>2, <3>3, <3>4
    <2> QED BY <2>5, <2>6
  <1> QED BY <1>1, <1>2, <1>3

LEMMA StoppedRefInc ==
    ASSUME NEW s, Stopped(s), NEW i, NEW j
    PROVE  /\ Stopped(ref_inc(s, i)) /\ Stopped([ref_inc(s, i) EXCEPT !.at = j])
           /\ Stopped(open_inc(s, i)) /\ \A e : Stopped(Fail(s, e))
  <1> DEFINE x == [s.node EXCEPT ![i].ref = @ + 1]
             t == [s EXCEPT !.node = x]
             y == [s.node EXCEPT ![i].open = @ + 1]
  <1>1. ref_inc(s, i) = t /\ open_inc(s, i) = [s EXCEPT !.node = y]
    BY DEF ref_inc, open_inc
  <1>2. Stopped([s EXCEPT !.node = y])
    <2> HIDE DEF y
    <2> QED BY StoppedChanges
  <1>3. Stopped(t)
    <2> HIDE DEF x
    <2> QED BY StoppedChanges
  <1>4. Stopped([t EXCEPT !.at = j])
    <2> HIDE DEF t
    <2> QED BY <1>3, StoppedChanges
  <1>5. \A e : Stopped(Fail(s, e))
    BY StoppedChanges DEF Fail
  <1> QED BY <1>1, <1>2, <1>3, <1>4, <1>5

LEMMA StoppedGetRoot ==
    ASSUME NEW s, Stopped(s), NEW oom
    PROVE  Stopped(get_root(s, oom))
  <1> DEFINE l == load_inode(s, Root, oom)
  <1>1. Stopped(l)
    <2>1. CASE Root \in s.hash
      <3>1. l = [[[s EXCEPT !.node[Root].ref = @ + 1] EXCEPT !.at = Root]
                   EXCEPT !.node[Root].reclaim = IF s.node[Root].ref = 0 THEN @ + 1 ELSE @]
        BY <2>1 DEF load_inode
      <3> QED BY <3>1 DEF Stopped, Fields
    <2>2. CASE Root \notin s.hash /\ oom = "inode"
      BY <2>2, StoppedRefInc DEF load_inode
    <2>3. CASE Root \notin s.hash /\ oom # "inode"
      <3> DEFINE r == [s.node EXCEPT ![Root] = [NoNode EXCEPT !.ref = 1, !.reclaim = 1,
                                   !.full = Root \in Regs /\ s.disk[Root]]]
      <3>1. l = [s EXCEPT !.hash = @ \union {Root}, !.at = Root, !.node = r]
        BY <2>3 DEF load_inode
      <3> HIDE DEF l, r
      <3> QED BY <3>1 DEF Stopped, Fields
    <2> QED BY <2>1, <2>2, <2>3
  <1> HIDE DEF l
  <1>2. Check(l, l.ret = "ok", "load_root") = l
    BY <1>1 DEF Check, Stopped, MayStop
  <1> QED BY <1>1, <1>2 DEF get_root, l

LEMMA StoppedCreate ==
    ASSUME NEW s, Stopped(s), NEW p, NEW path, NEW oom
    PROVE  Stopped(create(s, p, path, oom))
  <1> DEFINE u == [s EXCEPT !.ret = "ok"]
             from == IF path.from \in {"disk0"} \union Devs THEN "cwd" ELSE path.from
             t == get_device(u, p, from, oom)
  <1>1. Stopped(u)
    BY StoppedChanges
  <1> HIDE DEF u, from
  <1>2. Stopped(get_curdir(u, p))
    BY <1>1, StoppedRefInc DEF get_curdir
  <1>3. ~Ok(get_curdir(u, p))
    BY <1>2, StoppedChanges
  <1>4. Stopped(get_root(u, oom))
    BY <1>1, StoppedGetRoot
  <1>5. Stopped(t)
    <2>1. \A i : Stopped([ref_inc(u, i) EXCEPT !.at = i])
      BY <1>1, StoppedRefInc
    <2>2. \A e : Stopped(Fail(u, e))
      BY <1>1, StoppedRefInc
    <2> QED BY <1>2, <1>3, <1>4, <2>1, <2>2 DEF get_device
  <1>6. ~Ok(t)
    <2> HIDE DEF t
    <2> QED BY <1>5, StoppedChanges
  <1>7. create(s, p, path, oom) = IF Ok(t) THEN Vop(t, t.at, "create") ELSE t
    BY DEF create, u, from
  <1> QED BY <1>5, <1>6, <1>7

\* Between the look-up and the making of a file nothing is held.
LEMMA VfsOpen ==
    ASSUME NEW s, Live(s), Anchored(s), s.ret = "ok", NEW p \in Procs,
           NEW path \in Paths, NEW flags, NEW oom
    PROVE  LET t == vfs_open(s, p, path, flags, oom)
           IN  Stopped(t) \/ Opened(s, t, flags)
  <1> DEFINE t == vfs_open(s, p, path, flags, oom)
             l == vfs_lookup(s, p, path, oom)
  <1>1. CASE flags.trunc /\ ~Writes(flags)
    <2>1. t = Fail(s, "E_INVAL") /\ "E_INVAL" \in Rets \ {"ok"}
      BY <1>1 DEF vfs_open, Rets
    <2> HIDE DEF t
    <2>2. Move(s, t, None, 0, 0) /\ t.ret = "E_INVAL"
      BY <2>1, FailFacts
    <2>3. 0 \in Int
      OBVIOUS
    <2>4. Shift(s, t, None, 0) /\ OnlyHolds(s, t, None, FALSE)
      BY <2>2, <2>3, MoveShift
    <2> QED BY <2>2, <2>4 DEF Opened, t
  <1>2. CASE ~(flags.trunc /\ ~Writes(flags))
    <2>1. Stopped(l) \/ Got(s, l)
      BY VfsLookup
    <2>2. t = IF l.ret = "E_NOENT" /\ flags.creat THEN create(l, p, path, oom)
              ELSE IF ~Ok(l) THEN l ELSE open_found(l, l.at, flags)
      BY <1>2 DEF vfs_open
    <2> HIDE DEF l, t
    <2>3. CASE Stopped(l)
      <3>1. ~Ok(l)
        BY <2>3, StoppedChanges
      <3>2. CASE l.ret = "E_NOENT" /\ flags.creat
        BY <2>2, <2>3, <3>2, StoppedCreate DEF t
      <3> QED BY <2>2, <2>3, <3>1, <3>2 DEF t
    <2>4. CASE Got(s, l) /\ l.ret = "ok"
      <3>1. Move(s, l, l.at, 1, 0) /\ l.at \in Nodes
        BY <2>4 DEF Got
      <3>2. l.panic = "none"
        BY <3>1 DEF Move, Live
      <3>3. t = open_found(l, l.at, flags)
        BY <2>2, <2>4, <3>2 DEF Ok
      <3> QED BY <2>4, <3>1, <3>3, OpenFound DEF t
    <2>5. CASE Got(s, l) /\ l.ret # "ok"
      <3>1. Move(s, l, None, 0, 0) /\ Live(l)
        BY <2>5 DEF Got, Move
      <3>2. 0 \in Int
        OBVIOUS
      <3>3. Anchored(l)
        BY <3>1, AnchoredMove
      <3>4. CASE l.ret = "E_NOENT" /\ flags.creat
        <4>1. t = create(l, p, path, oom)
          BY <2>2, <3>4
        <4>2. Stopped(t) \/ (t.ret # "ok" /\ Move(l, t, None, 0, 0))
          BY <3>1, <3>3, <4>1, CreateFacts
        <4>3. CASE t.ret # "ok" /\ Move(l, t, None, 0, 0)
          <5>1. Move(s, t, None, 0 + 0, 0 + 0)
            BY <3>1, <3>2, <4>3, Moves
          <5>2. Move(s, t, None, 0, 0)
            BY <5>1
          <5>3. Shift(s, t, None, 0) /\ OnlyHolds(s, t, None, FALSE)
            BY <3>2, <5>2, MoveShift
          <5> QED BY <4>3, <5>3 DEF Opened, t
        <4> QED BY <4>2, <4>3 DEF t
      <3>5. CASE ~(l.ret = "E_NOENT" /\ flags.creat)
        <4>1. t = l
          BY <2>2, <2>5, <3>5 DEF Ok
        <4>2. Shift(s, l, None, 0) /\ OnlyHolds(s, l, None, FALSE)
          BY <3>1, <3>2, MoveShift
        <4> QED BY <2>5, <4>1, <4>2 DEF Opened, t
      <3> QED BY <3>4, <3>5
    <2> QED BY <2>1, <2>3, <2>4, <2>5
  <1> QED BY <1>1, <1>2

LEMMA VfsClose ==
    ASSUME NEW s, Live(s), NEW i \in Nodes, s.node[i].open > 0
    PROVE  LET t == vfs_close(s, i)
           IN  /\ Shift(s, t, i, -1) /\ OnlyHolds(s, t, None, FALSE)
               /\ t.ret = s.ret /\ t.at = s.at
  <1> DEFINE u == open_dec(s, i)
             t == vfs_close(s, i)
  <1>1. Move(s, u, i, 0, -1) /\ u.ret = s.ret /\ u.at = s.at
    BY OpenDec
  <1>2. t = ref_dec(u, i)
    BY DEF vfs_close
  <1> HIDE DEF u, t
  <1>3. Live(u) /\ u.node[i].ref > u.node[i].open + Base(i)
    <2>1. InodeSane(s, i) /\ s.node[i].ref \in Int /\ s.node[i].open \in Int
      BY DEF Live, Sane, States, NodeRecs
    <2>2. Live(u) /\ u.node[i].ref = s.node[i].ref + 0 /\ u.node[i].open = s.node[i].open + (-1)
      BY <1>1 DEF Move
    <2> QED BY <2>1, <2>2 DEF InodeSane, Base
  <1>4. Move(u, t, i, -1, 0) /\ t.ret = u.ret /\ t.at = u.at
    BY <1>2, <1>3, RefDec
  <1>5. -1 \in Int /\ 0 \in Int
    OBVIOUS
  <1>6. Move(s, t, i, 0 + (-1), (-1) + 0)
    BY <1>1, <1>4, <1>5, Moves
  <1>7. Move(s, t, i, -1, -1)
    BY <1>6
  <1> QED BY <1>1, <1>4, <1>5, <1>7, MoveShift DEF t

-----------------------------------------------------------------------------
(* Counting descriptors                                                    *)

Procs0(F) == {q \in Procs : F[q] # NoFs}
Uses(F, i) == {u \in Procs0(F) \X Fds : F[u[1]].filemap[u[2]].node = i}
Pwds(F, i) == {q \in Procs : F[q].pwd = i}
One(b) == IF b THEN 1 ELSE 0

LEMMA Sizes ==
    NFd \in Nat /\ NFd > 2 /\ IsFiniteSet(Procs) /\ InitProc \in Procs
  BY FilesAssumption, Zenon

LEMMA TablesFinite ==
    ASSUME NEW F, NEW i
    PROVE  /\ IsFiniteSet(Uses(F, i)) /\ Cardinality(Uses(F, i)) \in Nat
           /\ IsFiniteSet(Pwds(F, i)) /\ Cardinality(Pwds(F, i)) \in Nat
  <1>1. IsFiniteSet(Procs) /\ IsFiniteSet(Fds)
    <2>1. IsFiniteSet(0 .. NFd - 1)
      BY Sizes, FS_Interval
    <2> QED BY <2>1, Sizes DEF Fds
  <1>2. IsFiniteSet(Procs \X Fds)
    BY <1>1, FS_Product
  <1>3. Uses(F, i) \subseteq Procs \X Fds /\ Pwds(F, i) \subseteq Procs
    BY DEF Uses, Pwds, Procs0
  <1>4. IsFiniteSet(Uses(F, i)) /\ IsFiniteSet(Pwds(F, i))
    BY <1>1, <1>2, <1>3, FS_Subset
  <1> QED BY <1>4, FS_CardinalityType

\* A set that loses or gains at most the element e.
LEMMA OneElement ==
    ASSUME NEW S, NEW T, IsFiniteSet(S), IsFiniteSet(T), NEW e, S \ {e} = T \ {e}
    PROVE  Cardinality(T) = Cardinality(S) - One(e \in S) + One(e \in T)
  <1>1. Cardinality(S) \in Nat /\ Cardinality(T) \in Nat
    BY FS_CardinalityType
  <1>2. Cardinality(S \ {e}) = Cardinality(S) - One(e \in S)
    BY <1>1, FS_RemoveElement DEF One
  <1>3. Cardinality(T \ {e}) = Cardinality(T) - One(e \in T)
    BY <1>1, FS_RemoveElement DEF One
  <1> QED BY <1>1, <1>2, <1>3 DEF One

With1(F, p, d, e) == [F EXCEPT ![p].filemap[d] = e]
LEMMA EntrySet ==
    ASSUME NEW F \in [Procs -> FsStructs], NEW p \in Procs, F[p] # NoFs,
           NEW d \in Fds, NEW e \in Entries
    PROVE  LET G == With1(F, p, d, e)
           IN  /\ G \in [Procs -> FsStructs]
               /\ \A q \in Procs \ {p} : G[q] = F[q]
               /\ G[p] # NoFs /\ G[p].pwd = F[p].pwd /\ G[p].filemap[d] = e
               /\ \A c \in Fds \ {d} : G[p].filemap[c] = F[p].filemap[c]
               /\ Procs0(G) = Procs0(F)
               /\ \A j : /\ Pwds(G, j) = Pwds(F, j)
                         /\ Cardinality(Uses(G, j)) = Cardinality(Uses(F, j))
                               - One(F[p].filemap[d].node = j) + One(e.node = j)
  <1> DEFINE G == With1(F, p, d, e)
             m == [F[p].filemap EXCEPT ![d] = e]
  <1>1. 0 \in Fds /\ 0 \notin DOMAIN <<>>
    <2>1. 0 \in Fds
      BY Sizes DEF Fds
    <2>2. DOMAIN <<>> = {}
      OBVIOUS
    <2> QED BY <2>1, <2>2
  <1>2. /\ F[p].pwd \in Dirs \union {None} /\ F[p].filemap \in [Fds -> Entries]
        /\ F[p] = [pwd |-> F[p].pwd, filemap |-> F[p].filemap]
    BY DEF FsStructs
  <1>3. m \in [Fds -> Entries] /\ m[d] = e /\ \A c \in Fds \ {d} : m[c] = F[p].filemap[c]
    BY <1>2
  <1>4. G = [F EXCEPT ![p] = [pwd |-> F[p].pwd, filemap |-> m]]
    <2>1. [F[p] EXCEPT !.filemap = m] = [pwd |-> F[p].pwd, filemap |-> m]
      <3> HIDE DEF m
      <3> QED BY <1>2
    <2>2. G = [F EXCEPT ![p] = [F[p] EXCEPT !.filemap = m]]
      BY DEF With1
    <2> QED BY <2>1, <2>2
  <1> HIDE DEF G, m
  <1>5. [pwd |-> F[p].pwd, filemap |-> m] \in FsStructs
        /\ [pwd |-> F[p].pwd, filemap |-> m] # NoFs
    BY <1>1, <1>2, <1>3 DEF FsStructs, NoFs
  <1>6. /\ G \in [Procs -> FsStructs] /\ \A q \in Procs \ {p} : G[q] = F[q]
        /\ G[p] = [pwd |-> F[p].pwd, filemap |-> m]
    BY <1>4, <1>5
  <1>7. Procs0(G) = Procs0(F)
    BY <1>5, <1>6 DEF Procs0
  <1>8. ASSUME NEW j
        PROVE  /\ Pwds(G, j) = Pwds(F, j)
               /\ Cardinality(Uses(G, j)) = Cardinality(Uses(F, j))
                     - One(F[p].filemap[d].node = j) + One(e.node = j)
    <2>1. Pwds(G, j) = Pwds(F, j)
      BY <1>6 DEF Pwds
    <2>2. Uses(G, j) \ {<<p, d>>} = Uses(F, j) \ {<<p, d>>}
      <3>1. \A u \in (Procs0(F) \X Fds) \ {<<p, d>>} :
                G[u[1]].filemap[u[2]] = F[u[1]].filemap[u[2]]
        <4> SUFFICES ASSUME NEW q \in Procs0(F), NEW c \in Fds, <<q, c>> # <<p, d>>
                     PROVE  G[q].filemap[c] = F[q].filemap[c]
          OBVIOUS
        <4>1. CASE q = p
          BY <1>3, <1>6, <4>1
        <4>2. CASE q # p
          BY <1>6, <4>2 DEF Procs0
        <4> QED BY <4>1, <4>2
      <3> QED BY <1>7, <3>1 DEF Uses
    <2>3. <<p, d>> \in Uses(F, j) <=> F[p].filemap[d].node = j
      BY DEF Uses, Procs0
    <2>4. <<p, d>> \in Uses(G, j) <=> e.node = j
      BY <1>3, <1>5, <1>6 DEF Uses, Procs0
    <2>5. Cardinality(Uses(G, j)) = Cardinality(Uses(F, j))
              - One(<<p, d>> \in Uses(F, j)) + One(<<p, d>> \in Uses(G, j))
      BY <2>2, TablesFinite, OneElement
    <2> QED BY <2>1, <2>3, <2>4, <2>5 DEF One
  <1> QED BY <1>3, <1>5, <1>6, <1>7, <1>8 DEF G

-----------------------------------------------------------------------------
(* The tables of descriptors and the counts of the inodes                  *)

InEntry(e) == e = NoFile \/ (e.status # "NONE" /\ e.node \in Nodes /\ e.count > 0)
Tables(F) == \A q \in Procs0(F) : \A d \in Fds : InEntry(F[q].filemap[d])
\* k is an inode that lacks one of the references it should have, if any.
Good(s, k) ==
    /\ Live(s) /\ Tables(s.fs)
    /\ \A i \in Nodes :
         /\ s.node[i].open = Cardinality(Uses(s.fs, i))
         /\ Rest(s, i) + One(i = k) = Cardinality(Pwds(s.fs, i)) + One(s.bootfs = i) + Base(i)

LEMMA GoodAnchored ==
    ASSUME NEW s, Good(s, None)
    PROVE  Anchored(s)
  <1>1. s \in States /\ Dirs \subseteq Nodes
    BY DEF Good, Live, Nodes, Sfs
  <1>2. ASSUME NEW i \in Dirs, s.bootfs = i \/ \E p \in Procs : s.fs[p].pwd = i
        PROVE  Referred(s, i)
    <2>1. i \in Nodes /\ i # None
      <3>1. None \notin Nodes
        BY FilesAssumption, Zenon
      <3> QED BY <1>1, <3>1
    <2>2. Rest(s, i) + One(i = None) = Cardinality(Pwds(s.fs, i)) + One(s.bootfs = i) + Base(i)
      BY <2>1 DEF Good
    <2>3. Cardinality(Pwds(s.fs, i)) \in Nat
      BY TablesFinite
    <2>4. Cardinality(Pwds(s.fs, i)) + One(s.bootfs = i) >= 1
      <3>1. CASE s.bootfs = i
        BY <2>3, <3>1 DEF One
      <3>2. CASE \E p \in Procs : s.fs[p].pwd = i
        <4>1. Pwds(s.fs, i) # {}
          BY <3>2 DEF Pwds
        <4>2. Cardinality(Pwds(s.fs, i)) # 0
          BY <4>1, TablesFinite, FS_EmptySet
        <4> QED BY <2>3, <4>2 DEF One
      <3> QED BY <1>2, <3>1, <3>2
    <2>5. s.node[i].ref \in Int /\ s.node[i].open \in Int /\ s.leaked[i] \in Nat
      BY <1>1, <2>1 DEF States, NodeRecs
    <2> QED BY <2>1, <2>2, <2>3, <2>4, <2>5 DEF Rest, One, Referred, Base
  <1>3. s.bootfs \in Dirs \union {None} /\ \A p \in Procs : s.fs[p].pwd \in Dirs \union {None}
    BY <1>1 DEF States, FsStructs, NoFs
  <1> QED BY <1>2, <1>3 DEF Anchored

\* A descriptor holds its inode open.
LEMMA EntryOpen ==
    ASSUME NEW s, NEW k, Good(s, k), NEW p \in Procs, s.fs[p] # NoFs, NEW d \in Fds,
           NEW i \in Nodes, s.fs[p].filemap[d].node = i
    PROVE  s.node[i].open > 0
  <1>1. <<p, d>> \in Uses(s.fs, i)
    BY DEF Uses, Procs0
  <1>2. Cardinality(Uses(s.fs, i)) # 0
    BY <1>1, TablesFinite, FS_EmptySet
  <1> QED BY <1>2, TablesFinite DEF Good

\* The state t of the inodes, with one entry of the table changed.
Entered(t, p, d, e) == [t EXCEPT !.fs[p].filemap[d] = e]
LEMMA EnteredFacts ==
    ASSUME NEW s, NEW k, Good(s, k), NEW t, NEW i, NEW b \in Int, Shift(s, t, i, b),
           NEW p \in Procs, s.fs[p] # NoFs, NEW d \in Fds, NEW e \in Entries, InEntry(e),
           \A j \in Nodes : One(e.node = j) - One(s.fs[p].filemap[d].node = j)
                                = (IF j = i THEN b ELSE 0)
    PROVE  LET u == Entered(t, p, d, e)
           IN  /\ Good(u, k) /\ u.fs = With1(s.fs, p, d, e) /\ u.bootfs = s.bootfs
               /\ u.ret = t.ret /\ u.at = t.at
               /\ \A j \in Regs : HoldsIn(u, j) = HoldsIn(t, j)
  <1> DEFINE u == Entered(t, p, d, e)
             G == With1(s.fs, p, d, e)
  <1>1. Live(t) /\ t \in States /\ t.fs = s.fs /\ t.bootfs = s.bootfs /\ s \in States
    BY DEF Shift, Live, Good
  <1>2. u = [t EXCEPT !.fs = G]
    BY <1>1 DEF Entered, With1, States
  <1>3. s.fs \in [Procs -> FsStructs]
    BY <1>1 DEF States
  <1>4. /\ G \in [Procs -> FsStructs]
        /\ \A q \in Procs \ {p} : G[q] = s.fs[q]
        /\ G[p] # NoFs /\ G[p].pwd = s.fs[p].pwd /\ G[p].filemap[d] = e
        /\ \A c \in Fds \ {d} : G[p].filemap[c] = s.fs[p].filemap[c]
        /\ Procs0(G) = Procs0(s.fs)
        /\ \A j : /\ Pwds(G, j) = Pwds(s.fs, j)
                  /\ Cardinality(Uses(G, j)) = Cardinality(Uses(s.fs, j))
                        - One(s.fs[p].filemap[d].node = j) + One(e.node = j)
    <2> HIDE DEF G
    <2> QED BY <1>3, EntrySet DEF G
  <1> HIDE DEF G, u
  <1>5. /\ u \in States /\ u.fs = G /\ u.node = t.node /\ u.hash = t.hash /\ u.disk = t.disk
        /\ u.leaked = t.leaked /\ u.bootfs = t.bootfs /\ u.panic = t.panic
        /\ u.ret = t.ret /\ u.at = t.at
    BY <1>1, <1>2, <1>4 DEF States
  <1>6. Live(u)
    BY <1>1, <1>5 DEF Live, Sane, InodeSane
  <1>7. Tables(u.fs)
    <2> SUFFICES ASSUME NEW q \in Procs0(G), NEW c \in Fds PROVE InEntry(G[q].filemap[c])
      BY <1>5 DEF Tables
    <2>1. q \in Procs0(s.fs) /\ q \in Procs
      BY <1>4 DEF Procs0
    <2>2. InEntry(s.fs[q].filemap[c])
      BY <2>1 DEF Good, Tables
    <2>3. G[q].filemap[c] = s.fs[q].filemap[c] \/ G[q].filemap[c] = e
      BY <1>4, <2>1
    <2> QED BY <2>2, <2>3
  <1>8. ASSUME NEW j \in Nodes
        PROVE  /\ u.node[j].open = Cardinality(Uses(u.fs, j))
               /\ Rest(u, j) + One(j = k) = Cardinality(Pwds(u.fs, j)) + One(u.bootfs = j) + Base(j)
    <2>1. t.node[j].open = s.node[j].open + (IF j = i THEN b ELSE 0) /\ Rest(t, j) = Rest(s, j)
      BY DEF Shift
    <2>2. /\ s.node[j].open = Cardinality(Uses(s.fs, j))
          /\ Rest(s, j) + One(j = k) = Cardinality(Pwds(s.fs, j)) + One(s.bootfs = j) + Base(j)
      BY DEF Good
    <2>3. Rest(u, j) = Rest(t, j)
      BY <1>5 DEF Rest
    <2>4. Cardinality(Uses(s.fs, j)) \in Nat
      BY TablesFinite
    <2>5. Cardinality(Uses(G, j)) = Cardinality(Uses(s.fs, j)) + (IF j = i THEN b ELSE 0)
      <3>1. One(e.node = j) - One(s.fs[p].filemap[d].node = j) = (IF j = i THEN b ELSE 0)
        OBVIOUS
      <3> QED BY <1>4, <2>4, <3>1 DEF One
    <2> QED BY <1>1, <1>4, <1>5, <2>1, <2>2, <2>3, <2>5
  <1>9. \A j \in Regs : HoldsIn(u, j) = HoldsIn(t, j)
    BY <1>5 DEF HoldsIn
  <1> QED BY <1>1, <1>5, <1>6, <1>7, <1>8, <1>9 DEF Good, u, G

\* The tables F and G differ in one entry of p at most, which in G is e.
Sets(F, G, p, d, e) ==
    /\ \A q \in Procs \ {p} : G[q] = F[q]
    /\ G[p] # NoFs /\ G[p].pwd = F[p].pwd /\ G[p].filemap[d] = e
    /\ \A c \in Fds \ {d} : G[p].filemap[c] = F[p].filemap[c]
Kept(s, t) == t.bootfs = s.bootfs /\ OnlyHolds(s, t, None, FALSE)

LEMMA EnteredSets ==
    ASSUME NEW s, NEW k, Good(s, k), NEW p \in Procs, s.fs[p] # NoFs, NEW d \in Fds,
           NEW e \in Entries
    PROVE  Sets(s.fs, With1(s.fs, p, d, e), p, d, e)
  <1>1. s.fs \in [Procs -> FsStructs]
    BY DEF Good, Live, States
  <1> QED BY <1>1, EntrySet DEF Sets

LEMMA EntryType ==
    ASSUME NEW s, NEW k, Good(s, k), NEW p \in Procs, s.fs[p] # NoFs, NEW d \in Fds
    PROVE  s.fs[p].filemap[d] \in Entries /\ InEntry(s.fs[p].filemap[d])
  <1>1. s.fs[p] \in FsStructs
    BY DEF Good, Live, States
  <1> QED BY <1>1 DEF FsStructs, Good, Tables, Procs0

\* A change of an entry that goes on naming the same inode.
LEMMA Touch ==
    ASSUME NEW s, NEW k, Good(s, k), NEW p \in Procs, s.fs[p] # NoFs, NEW d \in Fds,
           NEW e \in Entries, InEntry(e), e.node = s.fs[p].filemap[d].node
    PROVE  LET u == Entered(s, p, d, e)
           IN  /\ Good(u, k) /\ Sets(s.fs, u.fs, p, d, e) /\ Kept(s, u)
               /\ u.ret = s.ret /\ u.at = s.at
  <1> DEFINE u == Entered(s, p, d, e)
  <1>1. Live(s) /\ 0 \in Int
    BY DEF Good
  <1>2. Shift(s, s, None, 0)
    BY <1>1, StillLive, MoveShift
  <1>3. \A j \in Nodes : One(e.node = j) - One(s.fs[p].filemap[d].node = j)
                             = (IF j = None THEN 0 ELSE 0)
    BY DEF One
  <1>4. /\ Good(u, k) /\ u.fs = With1(s.fs, p, d, e) /\ u.bootfs = s.bootfs
        /\ u.ret = s.ret /\ u.at = s.at
        /\ \A j \in Regs : HoldsIn(u, j) = HoldsIn(s, j)
    <2> HIDE DEF u
    <2> QED BY <1>1, <1>2, <1>3, EnteredFacts DEF u
  <1> HIDE DEF u
  <1>5. OnlyHolds(s, u, None, FALSE)
    BY <1>4 DEF OnlyHolds
  <1> QED BY <1>4, <1>5, EnteredSets DEF Kept, u

\* The last use of a closed entry: the inode loses a descriptor.
LEMMA ReleaseLast ==
    ASSUME NEW s, NEW k, Good(s, k), NEW p \in Procs, s.fs[p] # NoFs, NEW d \in Fds,
           s.fs[p].filemap[d].status = "CLOSED", s.fs[p].filemap[d].count = 1
    PROVE  LET u == release(s, p, d)
           IN  /\ Good(u, k) /\ Sets(s.fs, u.fs, p, d, NoFile) /\ Kept(s, u)
               /\ u.ret = s.ret /\ u.at = s.at
  <1> DEFINE f == s.fs[p].filemap[d]
             i == f.node
             t == vfs_close(s, i)
             u == Entered(t, p, d, NoFile)
  <1>1. Live(s) /\ i \in Nodes
    <2>1. InEntry(f) /\ f # NoFile
      BY EntryType DEF NoFile
    <2> QED BY <2>1 DEF Good, InEntry
  <1>2. release(s, p, d) = u
    <2>1. Check(s, f.count > 0, "filemap_release") = s
          /\ Check(s, f.status = "CLOSED", "filemap_free") = s
      BY DEF Check
    <2>2. ~(f.count > 1)
      OBVIOUS
    <2>3. release(s, p, d) =
              [vfs_close(Check(Check(s, f.count > 0, "filemap_release"),
                               f.status = "CLOSED", "filemap_free"), i)
                 EXCEPT !.fs[p].filemap[d] = NoFile]
      BY <2>2, Zenon DEF release
    <2> QED BY <2>1, <2>3, Zenon DEF Entered
  <1>3. s.node[i].open > 0
    BY <1>1, EntryOpen
  <1>4. Shift(s, t, i, -1) /\ OnlyHolds(s, t, None, FALSE) /\ t.ret = s.ret /\ t.at = s.at
    <2> HIDE DEF t, i
    <2> QED BY <1>1, <1>3, VfsClose DEF t
  <1>5. NoFile \in Entries /\ InEntry(NoFile) /\ -1 \in Int /\ NoFile.node = None
    BY DEF NoFile, Entries, InEntry
  <1>6. \A j \in Nodes : One(NoFile.node = j) - One(f.node = j) = (IF j = i THEN -1 ELSE 0)
    <2>1. None \notin Nodes
      BY FilesAssumption, Zenon
    <2> QED BY <1>5, <2>1 DEF One
  <1>7. /\ Good(u, k) /\ u.fs = With1(s.fs, p, d, NoFile) /\ u.bootfs = s.bootfs
        /\ u.ret = t.ret /\ u.at = t.at
        /\ \A j \in Regs : HoldsIn(u, j) = HoldsIn(t, j)
    <2> HIDE DEF t, u, i
    <2> QED BY <1>4, <1>5, <1>6, EnteredFacts DEF u
  <1> HIDE DEF t, u, i
  <1>8. OnlyHolds(s, u, None, FALSE)
    BY <1>4, <1>7 DEF OnlyHolds
  <1> QED BY <1>2, <1>4, <1>5, <1>7, <1>8, EnteredSets DEF Kept

\* An entry that can be used, nobody in the middle of a call on it.
Idle(e) == e.status = "OPENED" /\ e.node \in Nodes /\ e.count = 1

LEMMA FilemapClose ==
    ASSUME NEW s, NEW k, Good(s, k), NEW p \in Procs, s.fs[p] # NoFs, NEW d \in Fds,
           Idle(s.fs[p].filemap[d])
    PROVE  LET u == filemap_close(s, p, d)
           IN  /\ Good(u, k) /\ Sets(s.fs, u.fs, p, d, NoFile) /\ Kept(s, u)
               /\ u.ret = s.ret /\ u.at = s.at
  <1> DEFINE f == s.fs[p].filemap[d]
             e == [f EXCEPT !.status = "CLOSED"]
             t == Entered(s, p, d, e)
             u == release(t, p, d)
  <1>1. f \in Entries
    BY EntryType
  <1>2. e \in Entries /\ e.status = "CLOSED" /\ e.count = 1 /\ e.node = f.node /\ InEntry(e)
    BY <1>1 DEF Entries, Idle, InEntry
  <1>3. filemap_close(s, p, d) = u
    <2>1. Check(s, f.status = "OPENED", "filemap_close") = s
      BY DEF Check, Idle
    <2>2. [s EXCEPT !.fs[p].filemap[d].status = "CLOSED"] = t
      BY DEF Entered
    <2> QED BY <2>1, <2>2 DEF filemap_close
  <1>4. /\ Good(t, k) /\ Sets(s.fs, t.fs, p, d, e) /\ Kept(s, t)
        /\ t.ret = s.ret /\ t.at = s.at
    <2> HIDE DEF e, t
    <2> QED BY <1>2, Touch DEF t
  <1> HIDE DEF e, t, u
  <1>5. t.fs[p] # NoFs /\ t.fs[p].filemap[d].status = "CLOSED" /\ t.fs[p].filemap[d].count = 1
    BY <1>2, <1>4 DEF Sets
  <1>6. /\ Good(u, k) /\ Sets(t.fs, u.fs, p, d, NoFile) /\ Kept(t, u)
        /\ u.ret = t.ret /\ u.at = t.at
    BY <1>4, <1>5, ReleaseLast DEF u
  <1>7. Sets(s.fs, u.fs, p, d, NoFile) /\ Kept(s, u)
    BY <1>4, <1>6 DEF Sets, Kept, OnlyHolds
  <1> QED BY <1>3, <1>4, <1>6, <1>7

LEMMA StoppedRelease ==
    ASSUME NEW s, Stopped(s), NEW p, NEW d
    PROVE  Stopped(release(s, p, d)) /\ Stopped(filemap_close(s, p, d))
  <1>1. ASSUME NEW r, Stopped(r) PROVE Stopped(release(r, p, d))
    <2> DEFINE t == vfs_close(r, r.fs[p].filemap[d].node)
               x == [r.fs EXCEPT ![p].filemap[d].count = @ - 1]
               y == [t.fs EXCEPT ![p].filemap[d] = NoFile]
    <2>1. Stopped(t)
      BY <1>1, StoppedOpenDec, StoppedRefDec DEF vfs_close
    <2>2. \A c, name : Check(r, c, name) = r
      BY <1>1, StoppedChanges
    <2>3. \/ release(r, p, d) = [r EXCEPT !.fs = x]
          \/ release(r, p, d) = [t EXCEPT !.fs = y]
      <3>1. release(r, p, d) = IF r.fs[p].filemap[d].count > 1
                               THEN [r EXCEPT !.fs[p].filemap[d].count = @ - 1]
                               ELSE [t EXCEPT !.fs[p].filemap[d] = NoFile]
        <4>1. /\ Check(r, r.fs[p].filemap[d].count > 0, "filemap_release") = r
              /\ Check(r, r.fs[p].filemap[d].status = "CLOSED", "filemap_free") = r
          BY <2>2
        <4>2. release(r, p, d) =
                 IF r.fs[p].filemap[d].count > 1
                 THEN [Check(r, r.fs[p].filemap[d].count > 0, "filemap_release")
                         EXCEPT !.fs[p].filemap[d].count = @ - 1]
                 ELSE [vfs_close(Check(Check(r, r.fs[p].filemap[d].count > 0, "filemap_release"),
                                       r.fs[p].filemap[d].status = "CLOSED", "filemap_free"),
                                 r.fs[p].filemap[d].node)
                         EXCEPT !.fs[p].filemap[d] = NoFile]
          BY Zenon DEF release
        <4> QED BY <4>1, <4>2, Zenon
      <3>2. [r EXCEPT !.fs[p].filemap[d].count = @ - 1] = [r EXCEPT !.fs = x]
        OBVIOUS
      <3>3. [t EXCEPT !.fs[p].filemap[d] = NoFile] = [t EXCEPT !.fs = y]
        <4> HIDE DEF t
        <4> QED OBVIOUS
      <3> QED BY <3>1, <3>2, <3>3, Zenon
    <2>4. Stopped([r EXCEPT !.fs = x])
      <3> HIDE DEF x
      <3> QED BY <1>1, StoppedChanges
    <2>5. Stopped([t EXCEPT !.fs = y])
      <3> HIDE DEF t, y
      <3> QED BY <2>1, StoppedChanges
    <2> QED BY <2>3, <2>4, <2>5
  <1>2. Stopped(filemap_close(s, p, d))
    <2> DEFINE x == [s.fs EXCEPT ![p].filemap[d].status = "CLOSED"]
               t == [s EXCEPT !.fs = x]
    <2>1. Stopped(t)
      <3> HIDE DEF x
      <3> QED BY StoppedChanges
    <2>2. Check(s, s.fs[p].filemap[d].status = "OPENED", "filemap_close") = s
      BY DEF Check, Stopped, MayStop
    <2>3. filemap_close(s, p, d) = release(t, p, d)
      BY <2>2 DEF filemap_close
    <2> HIDE DEF t
    <2> QED BY <1>1, <2>1, <2>3
  <1> QED BY <1>1, <1>2

-----------------------------------------------------------------------------
(* All the descriptors of a process                                        *)

\* What one round of the loop of fs_closeall and fs_destroy does.
Closed1(t, p, d) == IF t.fs[p].filemap[d].status = "OPENED" THEN filemap_close(t, p, d) ELSE t

\* The recursive function of CloseFrom exists: a shorter one can be extended.
LEMMA CloseSteps ==
    ASSUME NEW s, NEW p, NEW first \in 0 .. NFd
    PROVE  \E h : /\ CloseFrom(s, p, first) = h[NFd] /\ h[first] = s
                  /\ \A d \in first .. NFd - 1 : h[d + 1] = Closed1(h[d], p, d)
  <1>0. NFd \in Nat
    BY Sizes
  <1> DEFINE Rec(g, k) == g = [d \in first .. k |->
                                 IF d = first THEN s ELSE Closed1(g[d - 1], p, d - 1)]
             Bad == {k \in first .. NFd : ~ \E g : Rec(g, k)}
  <1>1. Bad = {}
    <2> SUFFICES ASSUME Bad # {} PROVE FALSE
      OBVIOUS
    <2>1. PICK k \in Bad : \A m \in Bad : k <= m
      <3>1. Bad \in SUBSET Nat /\ Bad # {}
        BY <1>0
      <3> HIDE DEF Bad
      <3> QED BY <3>1, LeastNumber
    <2>2. k \in first .. NFd /\ k \in Nat /\ k # first
      <3>1. Rec([d \in first .. first |-> s], first)
        OBVIOUS
      <3>2. first \notin Bad
        <4> HIDE DEF Rec
        <4> QED BY <3>1
      <3>3. k # first
        <4> HIDE DEF Bad
        <4> QED BY <3>2
      <3> QED BY <1>0, <3>3
    <2>3. PICK g : Rec(g, k - 1)
      <3>1. k - 1 \in first .. NFd /\ ~(k <= k - 1)
        BY <1>0, <2>2
      <3>2. k - 1 \notin Bad
        <4> HIDE DEF Bad
        <4> QED BY <2>1, <3>1
      <3> QED BY <3>1, <3>2
    <2> DEFINE h == [d \in first .. k |-> IF d < k THEN g[d] ELSE Closed1(g[k - 1], p, k - 1)]
    <2>4. \A d \in first .. k : h[d] = IF d = first THEN s ELSE Closed1(h[d - 1], p, d - 1)
      <3> SUFFICES ASSUME NEW d \in first .. k
                   PROVE  h[d] = IF d = first THEN s ELSE Closed1(h[d - 1], p, d - 1)
        OBVIOUS
      <3>1. CASE d < k
        <4>1. h[d] = g[d] /\ d \in first .. k - 1
          BY <2>2, <3>1
        <4>2. g[d] = IF d = first THEN s ELSE Closed1(g[d - 1], p, d - 1)
          BY <2>3, <4>1
        <4>3. d # first => h[d - 1] = g[d - 1]
          BY <2>2, <3>1
        <4> QED BY <4>1, <4>2, <4>3
      <3>2. CASE d = k
        BY <2>2, <3>2
      <3> QED BY <2>2, <3>1, <3>2
    <2>5. Rec(h, k)
      BY <2>4
    <2> QED BY <2>1, <2>5
  <1>2. PICK g0 : Rec(g0, NFd)
    <2>1. NFd \in first .. NFd
      BY <1>0
    <2> QED BY <1>1, <2>1
  <1> DEFINE Def(g) == g = [d \in first .. NFd |->
                               IF d = first THEN s
                               ELSE IF g[d - 1].fs[p].filemap[d - 1].status = "OPENED"
                                    THEN filemap_close(g[d - 1], p, d - 1) ELSE g[d - 1]]
  <1>3. \A f : Def(f) <=> Rec(f, NFd)
    BY DEF Closed1
  <1>4. CloseFrom(s, p, first) = (CHOOSE f : Def(f))[NFd]
    BY DEF CloseFrom
  <1>5. Def(CHOOSE f : Def(f))
    BY <1>2, <1>3, Zenon
  <1>6. PICK h : h = (CHOOSE f : Def(f)) /\ Rec(h, NFd)
    BY <1>3, <1>5, Zenon
  <1>7. h[first] = s
    <2>1. first \in first .. NFd
      BY <1>0
    <2>2. \A d \in first .. NFd : h[d] = IF d = first THEN s ELSE Closed1(h[d - 1], p, d - 1)
      BY <1>6
    <2> QED BY <2>1, <2>2
  <1>8. \A d \in first .. NFd - 1 : h[d + 1] = Closed1(h[d], p, d)
    <2> SUFFICES ASSUME NEW d \in first .. NFd - 1 PROVE h[d + 1] = Closed1(h[d], p, d)
      OBVIOUS
    <2>1. d + 1 \in first .. NFd /\ d + 1 # first /\ (d + 1) - 1 = d
      BY <1>0
    <2> QED BY <1>6, <2>1
  <1> QED BY <1>4, <1>6, <1>7, <1>8

Tidy(s, p) == \A d \in Fds : s.fs[p].filemap[d] = NoFile \/ Idle(s.fs[p].filemap[d])
\* The entries of p from a on below b have been closed.
Emptied(s, t, k, p, a, b) ==
    /\ Good(t, k) /\ Kept(s, t) /\ t.ret = s.ret /\ t.at = s.at
    /\ \A q \in Procs \ {p} : t.fs[q] = s.fs[q]
    /\ t.fs[p] # NoFs /\ t.fs[p].pwd = s.fs[p].pwd
    /\ \A d \in Fds : t.fs[p].filemap[d] = IF a <= d /\ d < b THEN NoFile
                                           ELSE s.fs[p].filemap[d]

LEMMA EmptiedStep ==
    ASSUME NEW s, NEW t, NEW k, NEW p \in Procs, NEW a \in 0 .. NFd, NEW b \in Fds, a <= b,
           Tidy(s, p), Emptied(s, t, k, p, a, b)
    PROVE  Emptied(s, Closed1(t, p, b), k, p, a, b + 1)
  <1> DEFINE f == t.fs[p].filemap[b]
             u == filemap_close(t, p, b)
  <1>0. /\ NFd \in Nat /\ Fds = 0 .. NFd - 1
    BY Sizes DEF Fds
  <1>1. f = s.fs[p].filemap[b]
    BY <1>0 DEF Emptied
  <1>2. CASE f = NoFile
    <2>1. Closed1(t, p, b) = t
      BY <1>2 DEF Closed1, NoFile
    <2>2. \A d \in Fds : t.fs[p].filemap[d] = IF a <= d /\ d < b + 1 THEN NoFile
                                              ELSE s.fs[p].filemap[d]
      <3> SUFFICES ASSUME NEW d \in Fds
                   PROVE  t.fs[p].filemap[d] = IF a <= d /\ d < b + 1 THEN NoFile
                                               ELSE s.fs[p].filemap[d]
        OBVIOUS
      <3>1. t.fs[p].filemap[d] = IF a <= d /\ d < b THEN NoFile ELSE s.fs[p].filemap[d]
        BY DEF Emptied
      <3> QED BY <1>0, <1>2, <3>1
    <2> QED BY <2>1, <2>2 DEF Emptied
  <1>3. CASE f # NoFile
    <2>1. Idle(f)
      BY <1>1, <1>3 DEF Tidy
    <2>2. Closed1(t, p, b) = u
      BY <2>1 DEF Closed1, Idle
    <2>3. /\ Good(u, k) /\ Sets(t.fs, u.fs, p, b, NoFile) /\ Kept(t, u)
          /\ u.ret = t.ret /\ u.at = t.at
      BY <2>1, FilemapClose DEF Emptied
    <2> HIDE DEF u
    <2>4. \A d \in Fds : u.fs[p].filemap[d] = IF a <= d /\ d < b + 1 THEN NoFile
                                              ELSE s.fs[p].filemap[d]
      <3> SUFFICES ASSUME NEW d \in Fds
                   PROVE  u.fs[p].filemap[d] = IF a <= d /\ d < b + 1 THEN NoFile
                                               ELSE s.fs[p].filemap[d]
        OBVIOUS
      <3>1. t.fs[p].filemap[d] = IF a <= d /\ d < b THEN NoFile ELSE s.fs[p].filemap[d]
        BY DEF Emptied
      <3>2. u.fs[p].filemap[d] = IF d = b THEN NoFile ELSE t.fs[p].filemap[d]
        BY <2>3 DEF Sets
      <3> QED BY <1>0, <3>1, <3>2
    <2>5. Kept(s, u)
      BY <2>3 DEF Emptied, Kept, OnlyHolds
    <2> QED BY <2>2, <2>3, <2>4, <2>5 DEF Emptied, Sets
  <1> QED BY <1>2, <1>3

LEMMA CloseFacts ==
    ASSUME NEW s, NEW k, Good(s, k), NEW p \in Procs, s.fs[p] # NoFs, Tidy(s, p),
           NEW first \in 0 .. NFd
    PROVE  Emptied(s, CloseFrom(s, p, first), k, p, first, NFd)
  <1>0. NFd \in Nat /\ Fds = 0 .. NFd - 1
    BY Sizes DEF Fds
  <1>1. PICK h : /\ CloseFrom(s, p, first) = h[NFd] /\ h[first] = s
                 /\ \A d \in first .. NFd - 1 : h[d + 1] = Closed1(h[d], p, d)
    BY CloseSteps
  <1> DEFINE Bad == {b \in first .. NFd : ~Emptied(s, h[b], k, p, first, b)}
  <1>2. Bad = {}
    <2> SUFFICES ASSUME Bad # {} PROVE FALSE
      OBVIOUS
    <2>1. PICK b \in Bad : \A m \in Bad : b <= m
      <3>1. Bad \in SUBSET Nat /\ Bad # {}
        BY <1>0
      <3> HIDE DEF Bad
      <3> QED BY <3>1, LeastNumber
    <2>2. b \in first .. NFd /\ ~Emptied(s, h[b], k, p, first, b)
      OBVIOUS
    <2>3. b # first
      <3>1. Kept(s, s) /\ \A d \in Fds : ~(first <= d /\ d < first)
        BY <1>0 DEF Kept, OnlyHolds
      <3>2. Emptied(s, s, k, p, first, first)
        BY <3>1 DEF Emptied
      <3> QED BY <1>1, <2>2, <3>2
    <2>4. b - 1 \in first .. NFd - 1 /\ b - 1 \in first .. NFd /\ ~(b <= b - 1) /\ (b - 1) + 1 = b
          /\ b - 1 \in Fds /\ first <= b - 1
      BY <1>0, <2>2, <2>3
    <2>5. b - 1 \notin Bad
      <3> HIDE DEF Bad
      <3> QED BY <2>1, <2>4
    <2>6. Emptied(s, h[b - 1], k, p, first, b - 1)
      BY <2>4, <2>5
    <2>7. h[b] = Closed1(h[b - 1], p, b - 1)
      <3>1. h[(b - 1) + 1] = Closed1(h[b - 1], p, b - 1)
        BY <1>1, <2>4
      <3> QED BY <2>4, <3>1
    <2>8. Emptied(s, Closed1(h[b - 1], p, b - 1), k, p, first, (b - 1) + 1)
      BY <2>4, <2>6, EmptiedStep
    <2> QED BY <2>2, <2>4, <2>7, <2>8
  <1>3. NFd \in first .. NFd
    BY <1>0
  <1> QED BY <1>1, <1>2, <1>3

LEMMA StoppedDestroy ==
    ASSUME NEW s, Stopped(s), NEW p, NEW first \in 0 .. NFd
    PROVE  Stopped(CloseFrom(s, p, first)) /\ Stopped(fs_destroy(s, p))
  <1>0. NFd \in Nat
    BY Sizes
  <1>1. ASSUME NEW r, Stopped(r), NEW a \in 0 .. NFd PROVE Stopped(CloseFrom(r, p, a))
    <2>1. PICK h : /\ CloseFrom(r, p, a) = h[NFd] /\ h[a] = r
                   /\ \A d \in a .. NFd - 1 : h[d + 1] = Closed1(h[d], p, d)
      BY CloseSteps
    <2> DEFINE Bad == {b \in a .. NFd : ~Stopped(h[b])}
    <2>2. Bad = {}
      <3> SUFFICES ASSUME Bad # {} PROVE FALSE
        OBVIOUS
      <3>1. PICK b \in Bad : \A m \in Bad : b <= m
        <4>1. Bad \in SUBSET Nat /\ Bad # {}
          BY <1>0
        <4> HIDE DEF Bad
        <4> QED BY <4>1, LeastNumber
      <3>2. b \in a .. NFd /\ ~Stopped(h[b])
        OBVIOUS
      <3>3. b # a
        BY <1>1, <2>1, <3>2
      <3>4. b - 1 \in a .. NFd - 1 /\ b - 1 \in a .. NFd /\ ~(b <= b - 1) /\ (b - 1) + 1 = b
        BY <1>0, <3>2, <3>3
      <3>5. b - 1 \notin Bad
        <4> HIDE DEF Bad
        <4> QED BY <3>1, <3>4
      <3>6. Stopped(h[b - 1])
        BY <3>4, <3>5
      <3>7. h[(b - 1) + 1] = Closed1(h[b - 1], p, b - 1)
        BY <2>1, <3>4
      <3>8. Stopped(Closed1(h[b - 1], p, b - 1))
        BY <3>6, StoppedRelease DEF Closed1
      <3> QED BY <3>2, <3>4, <3>7, <3>8
    <2>3. NFd \in a .. NFd
      BY <1>0
    <2> QED BY <2>1, <2>2, <2>3
  <1>2. Stopped(fs_destroy(s, p))
    <2> DEFINE t == IF s.fs[p].pwd = None THEN s ELSE ref_dec(s, s.fs[p].pwd)
               c == CloseFrom(t, p, 0)
               x == [c.fs EXCEPT ![p] = NoFs]
    <2>1. Stopped(t)
      BY StoppedRefDec
    <2>2. Stopped(c)
      <3>1. 0 \in 0 .. NFd
        BY <1>0
      <3> HIDE DEF t
      <3> QED BY <1>1, <2>1, <3>1
    <2>3. fs_destroy(s, p) = [Check(c, \A d \in Fds : c.fs[p].filemap[d].status = "NONE",
                                    "fs_destroy") EXCEPT !.fs[p] = NoFs]
      BY DEF fs_destroy
    <2> HIDE DEF t, c
    <2>4. Check(c, \A d \in Fds : c.fs[p].filemap[d].status = "NONE", "fs_destroy") = c
      BY <2>2 DEF Check, Stopped, MayStop
    <2>5. fs_destroy(s, p) = [c EXCEPT !.fs = x]
      BY <2>3, <2>4
    <2> HIDE DEF x
    <2>6. Stopped([c EXCEPT !.fs = x])
      BY <2>2, StoppedChanges
    <2> QED BY <2>5, <2>6
  <1> QED BY <1>1, <1>2

Empty(x) == x = NoFs \/ \A d \in Fds : x.filemap[d] = NoFile
\* One process gets or loses a table without descriptors.
LEMMA SwapTables ==
    ASSUME NEW F \in [Procs -> FsStructs], NEW p \in Procs, Empty(F[p]),
           NEW x \in FsStructs, Empty(x), NEW G, G = [F EXCEPT ![p] = x]
    PROVE  /\ G \in [Procs -> FsStructs]
           /\ Tables(F) => Tables(G)
           /\ \A j \in Nodes :
                /\ Cardinality(Uses(G, j)) = Cardinality(Uses(F, j))
                /\ Cardinality(Pwds(G, j)) = Cardinality(Pwds(F, j))
                      - One(F[p].pwd = j) + One(x.pwd = j)
  <1>1. G \in [Procs -> FsStructs] /\ G[p] = x /\ \A q \in Procs \ {p} : G[q] = F[q]
    OBVIOUS
  <1>2. Tables(F) => Tables(G)
    BY <1>1 DEF Tables, Procs0, Empty, InEntry
  <1>3. ASSUME NEW j \in Nodes
        PROVE  /\ Cardinality(Uses(G, j)) = Cardinality(Uses(F, j))
               /\ Cardinality(Pwds(G, j)) = Cardinality(Pwds(F, j))
                     - One(F[p].pwd = j) + One(x.pwd = j)
    <2>1. j # NoFile.node
      <3>1. None \notin Nodes
        BY FilesAssumption, Zenon
      <3> QED BY <3>1 DEF NoFile
    <2>2. Uses(G, j) = Uses(F, j)
      <3>1. ASSUME NEW H, Empty(H[p]) PROVE \A u \in Uses(H, j) : u[1] # p
        BY <2>1, <3>1 DEF Uses, Procs0, Empty
      <3>2. \A u \in Uses(F, j) : u[1] # p
        BY <3>1
      <3>3. \A u \in Uses(G, j) : u[1] # p
        BY <1>1, <3>1
      <3>4. Uses(F, j) \subseteq Uses(G, j)
        BY <1>1, <3>2 DEF Uses, Procs0
      <3>5. Uses(G, j) \subseteq Uses(F, j)
        BY <1>1, <3>3 DEF Uses, Procs0
      <3> QED BY <3>4, <3>5
    <2>3. Pwds(G, j) \ {p} = Pwds(F, j) \ {p}
      BY <1>1 DEF Pwds
    <2>4. Cardinality(Pwds(G, j)) = Cardinality(Pwds(F, j))
              - One(p \in Pwds(F, j)) + One(p \in Pwds(G, j))
      BY <2>3, TablesFinite, OneElement
    <2> QED BY <1>1, <2>2, <2>4 DEF Pwds, One
  <1> QED BY <1>1, <1>2, <1>3

\* The same for a state whose counts fit: k and then l lack a reference, and
\* the current directory of one process changes.
Swapped(t, p, x) == [t EXCEPT !.fs[p] = x]
Balance(s, t, k, l, old, new) ==
    \A j \in Nodes : /\ t.node[j].open = s.node[j].open
                     /\ Rest(t, j) - Rest(s, j)
                           = One(j = k) - One(j = l) + One(new = j) - One(old = j)
Swap(s, t, u, p, x, l) ==
    /\ Good(u, l) /\ u.fs = [s.fs EXCEPT ![p] = x] /\ u.bootfs = s.bootfs
    /\ u.ret = t.ret /\ u.at = t.at /\ \A j \in Regs : HoldsIn(u, j) = HoldsIn(t, j)
LEMMA SwapFacts ==
    ASSUME NEW s, NEW k, NEW l, Good(s, k), NEW p \in Procs, Empty(s.fs[p]),
           NEW t, Live(t), t.fs = s.fs, t.bootfs = s.bootfs,
           NEW x \in FsStructs, Empty(x), Balance(s, t, k, l, s.fs[p].pwd, x.pwd)
    PROVE  Swap(s, t, Swapped(t, p, x), p, x, l)
  <1> DEFINE u == Swapped(t, p, x)
  <1>1. t \in States /\ s \in States /\ s.fs \in [Procs -> FsStructs]
    BY DEF Good, Live, States
  <1>2. PICK G : G = [s.fs EXCEPT ![p] = x]
    OBVIOUS
  <1>3. /\ G \in [Procs -> FsStructs]
        /\ Tables(s.fs) => Tables(G)
        /\ \A j \in Nodes :
                /\ Cardinality(Uses(G, j)) = Cardinality(Uses(s.fs, j))
                /\ Cardinality(Pwds(G, j)) = Cardinality(Pwds(s.fs, j))
                      - One(s.fs[p].pwd = j) + One(x.pwd = j)
    BY <1>1, <1>2, SwapTables
  <1>4. /\ u \in States /\ u.fs = G /\ u.node = t.node /\ u.hash = t.hash /\ u.disk = t.disk
        /\ u.leaked = t.leaked /\ u.bootfs = t.bootfs /\ u.panic = t.panic
        /\ u.ret = t.ret /\ u.at = t.at
    <2>1. u = [t EXCEPT !.fs = G]
      BY <1>2 DEF Swapped
    <2> HIDE DEF u
    <2>2. G \in [Procs -> FsStructs] /\ t \in States
      BY <1>1, <1>3
    <2> QED BY <2>1, <2>2 DEF States
  <1> HIDE DEF u
  <1>5. Live(u)
    BY <1>1, <1>4 DEF Live, Sane, InodeSane
  <1>6. Tables(u.fs)
    BY <1>3, <1>4 DEF Good
  <1>7. ASSUME NEW j \in Nodes
        PROVE  /\ u.node[j].open = Cardinality(Uses(u.fs, j))
               /\ Rest(u, j) + One(j = l) = Cardinality(Pwds(u.fs, j)) + One(u.bootfs = j) + Base(j)
    <2>1. /\ s.node[j].open = Cardinality(Uses(s.fs, j))
          /\ Rest(s, j) + One(j = k) = Cardinality(Pwds(s.fs, j)) + One(s.bootfs = j) + Base(j)
      BY DEF Good
    <2>2. Rest(u, j) = Rest(t, j)
      BY <1>4 DEF Rest
    <2>3. Rest(t, j) \in Int /\ Rest(s, j) \in Int
      <3>1. /\ t.node[j].ref \in Int /\ t.node[j].open \in Int /\ t.leaked[j] \in Int
            /\ s.node[j].ref \in Int /\ s.node[j].open \in Int /\ s.leaked[j] \in Int
        BY <1>1 DEF States, NodeRecs
      <3> QED BY <3>1 DEF Rest
    <2>4. Cardinality(Pwds(s.fs, j)) \in Int
      BY TablesFinite
    <2>5. Rest(t, j) - Rest(s, j)
              = One(j = k) - One(j = l) + One(x.pwd = j) - One(s.fs[p].pwd = j)
            /\ t.node[j].open = s.node[j].open
      BY DEF Balance
    <2>6. Cardinality(Pwds(u.fs, j)) = Cardinality(Pwds(s.fs, j)) - One(s.fs[p].pwd = j) + One(x.pwd = j)
      BY <1>3, <1>4
    <2> QED BY <1>3, <1>4, <2>1, <2>2, <2>3, <2>4, <2>5, <2>6 DEF One, Base
  <1>8. \A j \in Regs : HoldsIn(u, j) = HoldsIn(t, j)
    BY <1>4 DEF HoldsIn
  <1> QED BY <1>2, <1>4, <1>5, <1>6, <1>7, <1>8 DEF Good, Swap, u

\* p is gone, and its references with it.
LEMMA DestroyFacts ==
    ASSUME NEW s, Good(s, None), NEW p \in Procs, s.fs[p] # NoFs, Tidy(s, p)
    PROVE  LET u == fs_destroy(s, p)
           IN  /\ Good(u, None) /\ u.fs = [s.fs EXCEPT ![p] = NoFs] /\ Kept(s, u)
               /\ u.ret = s.ret /\ u.at = s.at
  <1> DEFINE w == s.fs[p].pwd
             t == IF w = None THEN s ELSE ref_dec(s, w)
             c == CloseFrom(t, p, 0)
             u == [c EXCEPT !.fs[p] = NoFs]
  <1>0. /\ NFd \in Nat /\ Fds = 0 .. NFd - 1 /\ Live(s) /\ None \notin Nodes
        /\ w \in Dirs \union {None} /\ Dirs \subseteq Nodes
    <2>1. None \notin Nodes
      BY FilesAssumption, Zenon
    <2>2. w \in Dirs \union {None}
      BY DEF Good, Live, States, FsStructs, NoFs
    <2> QED BY <2>1, <2>2, Sizes DEF Fds, Good, Nodes, Sfs
  <1>1. /\ Good(t, w) /\ Kept(s, t) /\ t.fs = s.fs /\ t.ret = s.ret /\ t.at = s.at
    <2>1. CASE w = None
      BY <2>1 DEF Kept, OnlyHolds
    <2>2. CASE w # None
      <3>1. w \in Nodes /\ Referred(s, w)
        BY <1>0, <2>2, GoodAnchored DEF Anchored
      <3>2. t = ref_dec(s, w)
        BY <2>2
      <3> HIDE DEF t, w
      <3>3. Move(s, t, w, -1, 0) /\ t.ret = s.ret /\ t.at = s.at
        BY <1>0, <3>1, <3>2, RefDec DEF Referred
      <3>4. Tables(t.fs)
        BY <3>3 DEF Move, Frame, Good
      <3>5. ASSUME NEW i \in Nodes
            PROVE  /\ t.node[i].open = Cardinality(Uses(t.fs, i))
                   /\ Rest(t, i) + One(i = w) = Cardinality(Pwds(t.fs, i)) + One(t.bootfs = i) + Base(i)
        <4>1. /\ s.node[i].open = Cardinality(Uses(s.fs, i))
              /\ Rest(s, i) + One(i = None) = Cardinality(Pwds(s.fs, i)) + One(s.bootfs = i) + Base(i)
          BY DEF Good
        <4>2. /\ t.fs = s.fs /\ t.bootfs = s.bootfs /\ t.leaked = s.leaked
              /\ t.node[i].ref = s.node[i].ref + (IF i = w THEN -1 ELSE 0)
              /\ t.node[i].open = s.node[i].open + (IF i = w THEN 0 ELSE 0)
          BY <3>3 DEF Move, Frame
        <4>3. s.node[i].ref \in Int /\ s.node[i].open \in Int /\ s.leaked[i] \in Int /\ i # None
          BY <1>0 DEF Live, States, NodeRecs
        <4> QED BY <4>1, <4>2, <4>3 DEF Rest, One
      <3>6. Kept(s, t) /\ t.fs = s.fs
        BY <3>3 DEF Kept, OnlyHolds, Move, Frame
      <3> QED BY <3>3, <3>4, <3>5, <3>6 DEF Good, Move
    <2> QED BY <2>1, <2>2
  <1> HIDE DEF t
  <1>2. Emptied(t, c, w, p, 0, NFd)
    <2>1. Tidy(t, p) /\ 0 \in 0 .. NFd
      BY <1>0, <1>1 DEF Tidy
    <2> HIDE DEF w
    <2> QED BY <1>1, <2>1, CloseFacts
  <1> HIDE DEF c
  <1>3. \A d \in Fds : c.fs[p].filemap[d] = NoFile
    BY <1>0, <1>2 DEF Emptied
  <1>4. /\ Good(c, w) /\ Empty(c.fs[p]) /\ Live(c) /\ c.fs[p].pwd = w
        /\ c.ret = s.ret /\ c.at = s.at
        /\ \A q \in Procs \ {p} : c.fs[q] = s.fs[q]
    BY <1>1, <1>2, <1>3 DEF Emptied, Empty, Good
  <1>5. fs_destroy(s, p) = u
    <2>1. fs_destroy(s, p) = [Check(c, \A d \in Fds : c.fs[p].filemap[d].status = "NONE",
                                    "fs_destroy") EXCEPT !.fs[p] = NoFs]
      BY DEF fs_destroy, c, t
    <2>2. \A d \in Fds : c.fs[p].filemap[d].status = "NONE"
      BY <1>3 DEF NoFile
    <2>3. Check(c, \A d \in Fds : c.fs[p].filemap[d].status = "NONE", "fs_destroy") = c
      BY <2>2 DEF Check
    <2> QED BY <2>1, <2>3, Zenon
  <1>6. u = Swapped(c, p, NoFs)
    BY DEF Swapped
  <1> HIDE DEF u
  <1>7. Balance(c, c, w, None, c.fs[p].pwd, NoFs.pwd)
    <2> SUFFICES ASSUME NEW j \in Nodes
                 PROVE  Rest(c, j) - Rest(c, j) = One(j = w) - One(j = None) + One(NoFs.pwd = j)
                                                      - One(c.fs[p].pwd = j)
      BY DEF Balance
    <2>1. c.node[j].ref \in Int /\ c.node[j].open \in Int /\ c.leaked[j] \in Int
      BY <1>4 DEF Live, States, NodeRecs
    <2> QED BY <1>0, <1>4, <2>1 DEF Rest, One, NoFs
  <1>8. NoFs \in FsStructs /\ Empty(NoFs)
    BY DEF FsStructs, Empty
  <1>9. /\ Good(u, None) /\ u.fs = [c.fs EXCEPT ![p] = NoFs] /\ u.bootfs = c.bootfs
        /\ u.ret = c.ret /\ u.at = c.at /\ \A j \in Regs : HoldsIn(u, j) = HoldsIn(c, j)
    <2> HIDE DEF w
    <2>1. Swap(c, c, Swapped(c, p, NoFs), p, NoFs, None)
      BY <1>4, <1>7, <1>8, SwapFacts
    <2> QED BY <1>6, <2>1 DEF Swap
  <1>10. u.fs = [s.fs EXCEPT ![p] = NoFs]
    <2>1. c.fs \in [Procs -> FsStructs] /\ s.fs \in [Procs -> FsStructs]
      BY <1>0, <1>4 DEF Live, States
    <2> QED BY <1>4, <1>9, <2>1
  <1>11. Kept(s, u)
    BY <1>1, <1>2, <1>9 DEF Emptied, Kept, OnlyHolds
  <1> QED BY <1>4, <1>5, <1>9, <1>10, <1>11

\* A descriptor of q that is free comes to name the inode f names.
LEMMA FilemapDup ==
    ASSUME NEW t, Good(t, None), NEW q \in Procs, t.fs[q] # NoFs, NEW d \in Fds,
           t.fs[q].filemap[d] = NoFile, NEW f \in Entries, Idle(f), t.node[f.node].open > 0
    PROVE  LET u == filemap_dup(t, q, d, f)
           IN  /\ Good(u, None) /\ Sets(t.fs, u.fs, q, d, f) /\ Kept(t, u)
               /\ u.ret = t.ret /\ u.at = t.at
  <1> DEFINE i == f.node
             v == ref_inc(t, i)
             w == open_inc(v, i)
             u == Entered(w, q, d, f)
  <1>0. i \in Nodes /\ Live(t) /\ [f EXCEPT !.count = 1] = f /\ InEntry(f)
        /\ 0 \in Int /\ 1 \in Int /\ i # None
    <2>1. None \notin Nodes
      BY FilesAssumption, Zenon
    <2> QED BY <2>1 DEF Idle, Good, Entries, InEntry
  <1>1. filemap_dup(t, q, d, f) = u
    BY <1>0 DEF filemap_dup, Entered
  <1>2. Move(t, v, i, 1, 0) /\ v.ret = t.ret /\ v.at = t.at
    <2>1. t.node[i].ref > 0
      <3>1. InodeSane(t, i) /\ t.node[i].ref \in Int /\ t.node[i].open \in Int
        BY <1>0 DEF Live, Sane, States, NodeRecs
      <3> QED BY <3>1 DEF InodeSane, Base
    <2> QED BY <1>0, <2>1, RefInc
  <1>3. Referred(v, i) /\ Live(v)
    <2> HIDE DEF v, i
    <2> QED BY <1>0, <1>2, ReferredFacts DEF Move
  <1>4. Move(v, w, i, 0, 1) /\ w.ret = v.ret /\ w.at = v.at
    <2> HIDE DEF v, i
    <2> QED BY <1>0, <1>3, OpenInc DEF Referred
  <1>5. Move(t, w, i, 1, 1)
    <2> HIDE DEF v, w, i
    <2>1. Move(t, w, i, 1 + 0, 0 + 1)
      BY <1>0, <1>2, <1>4, Moves
    <2> QED BY <2>1
  <1>6. Shift(t, w, i, 1) /\ OnlyHolds(t, w, None, FALSE)
    <2> HIDE DEF v, w, i
    <2> QED BY <1>0, <1>5, MoveShift
  <1>7. \A j \in Nodes : One(f.node = j) - One(t.fs[q].filemap[d].node = j) = (IF j = i THEN 1 ELSE 0)
    <2>1. None \notin Nodes
      BY FilesAssumption, Zenon
    <2> QED BY <2>1 DEF NoFile, One
  <1>8. /\ Good(u, None) /\ u.fs = With1(t.fs, q, d, f) /\ u.bootfs = t.bootfs
        /\ u.ret = w.ret /\ u.at = w.at
        /\ \A j \in Regs : HoldsIn(u, j) = HoldsIn(w, j)
    <2> HIDE DEF u, w, i
    <2> QED BY <1>0, <1>6, <1>7, EnteredFacts DEF u
  <1> HIDE DEF u, w, v, i
  <1>9. Sets(t.fs, With1(t.fs, q, d, f), q, d, f)
    BY EnteredSets
  <1>10. Kept(t, u)
    BY <1>6, <1>8 DEF Kept, OnlyHolds
  <1> QED BY <1>1, <1>2, <1>4, <1>8, <1>9, <1>10

\* The table a new process starts with, and what one round of dup_fs does.
Fresh(s, q, p) ==
    IF s.fs[p].pwd = None THEN [s EXCEPT !.fs[q] = NewFs]
    ELSE [ref_inc(s, s.fs[p].pwd) EXCEPT !.fs[q] = [NewFs EXCEPT !.pwd = s.fs[p].pwd]]
Duplicated1(t, q, F, d) ==
    IF F.filemap[d].status = "OPENED" THEN filemap_dup(t, q, d, F.filemap[d]) ELSE t

LEMMA DupSteps ==
    ASSUME NEW s, NEW q, NEW p
    PROVE  \E h : /\ dup_fs(s, q, p) = h[NFd] /\ h[0] = Fresh(s, q, p)
                  /\ \A d \in 0 .. NFd - 1 : h[d + 1] = Duplicated1(h[d], q, s.fs[p], d)
  <1>0. NFd \in Nat
    BY Sizes
  <1> DEFINE F == s.fs[p]
             Rec(g, k) == g = [d \in 0 .. k |->
                                 IF d > 0 THEN Duplicated1(g[d - 1], q, F, d - 1)
                                 ELSE Fresh(s, q, p)]
             Bad == {k \in 0 .. NFd : ~ \E g : Rec(g, k)}
  <1>1. Bad = {}
    <2> SUFFICES ASSUME Bad # {} PROVE FALSE
      OBVIOUS
    <2>1. PICK k \in Bad : \A m \in Bad : k <= m
      <3>1. Bad \in SUBSET Nat /\ Bad # {}
        BY <1>0
      <3> HIDE DEF Bad
      <3> QED BY <3>1, LeastNumber
    <2>2. k \in 0 .. NFd /\ k \in Nat /\ k # 0
      <3>1. Rec([d \in 0 .. 0 |-> Fresh(s, q, p)], 0)
        OBVIOUS
      <3>2. 0 \notin Bad
        <4> HIDE DEF Rec
        <4> QED BY <3>1
      <3>3. k # 0
        <4> HIDE DEF Bad
        <4> QED BY <3>2
      <3> QED BY <1>0, <3>3
    <2>3. PICK g : Rec(g, k - 1)
      <3>1. k - 1 \in 0 .. NFd /\ ~(k <= k - 1)
        BY <1>0, <2>2
      <3>2. k - 1 \notin Bad
        <4> HIDE DEF Bad
        <4> QED BY <2>1, <3>1
      <3> QED BY <3>1, <3>2
    <2> DEFINE h == [d \in 0 .. k |-> IF d < k THEN g[d] ELSE Duplicated1(g[k - 1], q, F, k - 1)]
    <2>4. \A d \in 0 .. k : h[d] = IF d > 0 THEN Duplicated1(h[d - 1], q, F, d - 1)
                                   ELSE Fresh(s, q, p)
      <3> SUFFICES ASSUME NEW d \in 0 .. k
                   PROVE  h[d] = IF d > 0 THEN Duplicated1(h[d - 1], q, F, d - 1)
                                 ELSE Fresh(s, q, p)
        OBVIOUS
      <3>1. CASE d < k
        <4>1. h[d] = g[d] /\ d \in 0 .. k - 1
          BY <2>2, <3>1
        <4>2. g[d] = IF d > 0 THEN Duplicated1(g[d - 1], q, F, d - 1) ELSE Fresh(s, q, p)
          BY <2>3, <4>1
        <4>3. d > 0 => h[d - 1] = g[d - 1]
          BY <2>2, <3>1
        <4> QED BY <4>1, <4>2, <4>3
      <3>2. CASE d = k
        BY <2>2, <3>2
      <3> QED BY <2>2, <3>1, <3>2
    <2>5. Rec(h, k)
      BY <2>4
    <2> QED BY <2>1, <2>5
  <1>2. PICK g0 : Rec(g0, NFd)
    <2>1. NFd \in 0 .. NFd
      BY <1>0
    <2> QED BY <1>1, <2>1
  <1> DEFINE Def(g) == g = [d \in 0 .. NFd |->
                  IF d > 0
                  THEN IF s.fs[p].filemap[d - 1].status = "OPENED"
                       THEN filemap_dup(g[d - 1], q, d - 1, s.fs[p].filemap[d - 1]) ELSE g[d - 1]
                  ELSE IF s.fs[p].pwd = None THEN [s EXCEPT !.fs[q] = NewFs]
                  ELSE [ref_inc(s, s.fs[p].pwd) EXCEPT !.fs[q] = [NewFs EXCEPT !.pwd = s.fs[p].pwd]]]
  <1>3. \A f : Def(f) <=> Rec(f, NFd)
    BY Zenon DEF Duplicated1, Fresh
  <1>4. dup_fs(s, q, p) = (CHOOSE f : Def(f))[NFd]
    BY Zenon DEF dup_fs
  <1>5. Def(CHOOSE f : Def(f))
    BY <1>2, <1>3, Zenon
  <1>6. PICK h : h = (CHOOSE f : Def(f)) /\ Rec(h, NFd)
    <2> HIDE DEF Rec, Def
    <2> QED BY <1>3, <1>5, Zenon
  <1>7. \A d \in 0 .. NFd : h[d] = IF d > 0 THEN Duplicated1(h[d - 1], q, F, d - 1)
                                   ELSE Fresh(s, q, p)
    BY <1>6
  <1>8. h[0] = Fresh(s, q, p)
    <2>1. 0 \in 0 .. NFd /\ ~(0 > 0)
      BY <1>0
    <2> HIDE DEF F
    <2> QED BY <1>7, <2>1
  <1>9. \A d \in 0 .. NFd - 1 : h[d + 1] = Duplicated1(h[d], q, s.fs[p], d)
    <2> SUFFICES ASSUME NEW d \in 0 .. NFd - 1 PROVE h[d + 1] = Duplicated1(h[d], q, F, d)
      OBVIOUS
    <2>1. d + 1 \in 0 .. NFd /\ d + 1 > 0 /\ (d + 1) - 1 = d
      BY <1>0
    <2> HIDE DEF F
    <2> QED BY <1>7, <2>1
  <1> QED BY <1>4, <1>6, <1>8, <1>9

\* The entries of p below b have been given to q.
Copied(s, t, q, p, b) ==
    /\ Good(t, None) /\ Kept(s, t) /\ t.ret = s.ret /\ t.at = s.at
    /\ \A r \in Procs \ {q} : t.fs[r] = s.fs[r]
    /\ t.fs[q] # NoFs /\ t.fs[q].pwd = s.fs[p].pwd
    /\ \A d \in Fds : t.fs[q].filemap[d] = IF d < b THEN s.fs[p].filemap[d] ELSE NoFile

LEMMA FreshFacts ==
    ASSUME NEW s, Good(s, None), NEW p \in Procs, s.fs[p] # NoFs,
           NEW q \in Procs, s.fs[q] = NoFs
    PROVE  Copied(s, Fresh(s, q, p), q, p, 0)
  <1> DEFINE w == s.fs[p].pwd
             t == IF w = None THEN s ELSE ref_inc(s, w)
             x == [pwd |-> w, filemap |-> [d \in Fds |-> NoFile]]
             u == Fresh(s, q, p)
  <1>0. /\ Live(s) /\ None \notin Nodes /\ w \in Dirs \union {None} /\ Dirs \subseteq Nodes
        /\ Fds = 0 .. NFd - 1 /\ NFd \in Nat
    <2>1. None \notin Nodes
      BY FilesAssumption, Zenon
    <2>2. w \in Dirs \union {None}
      BY DEF Good, Live, States, FsStructs, NoFs
    <2> QED BY <2>1, <2>2, Sizes DEF Fds, Good, Nodes, Sfs
  <1>1. x \in FsStructs /\ Empty(x) /\ x # NoFs /\ x.pwd = w
    <2>1. [d \in Fds |-> NoFile] \in [Fds -> Entries]
      BY DEF NoFile, Entries
    <2>2. 0 \in Fds /\ DOMAIN <<>> = {}
      BY Sizes DEF Fds
    <2>3. x # NoFs
      BY <2>2 DEF NoFs
    <2> QED BY <1>0, <2>1, <2>3 DEF FsStructs, Empty
  <1>2. u = Swapped(t, q, x)
    <2>1. w = None => NewFs = x
      BY DEF NewFs
    <2>2. [NewFs EXCEPT !.pwd = w] = x
      BY DEF NewFs
    <2> QED BY <2>1, <2>2 DEF Fresh, Swapped
  <1>3. /\ Live(t) /\ t.fs = s.fs /\ t.bootfs = s.bootfs /\ t.ret = s.ret /\ t.at = s.at
        /\ Balance(s, t, None, None, NoFs.pwd, w) /\ OnlyHolds(s, t, None, FALSE)
    <2>0. \A j \in Nodes : /\ s.node[j].ref \in Int /\ s.node[j].open \in Int
                           /\ s.leaked[j] \in Int /\ j # None
      BY <1>0 DEF Live, States, NodeRecs
    <2>1. CASE w = None
      <3>1. \A j \in Nodes : Rest(s, j) - Rest(s, j) = 0
        BY <2>0 DEF Rest
      <3> QED BY <1>0, <2>0, <2>1, <3>1 DEF Balance, OnlyHolds, One, NoFs
    <2>2. CASE w # None
      <3>1. w \in Nodes /\ s.node[w].ref > 0
        <4>1. w \in Nodes /\ Referred(s, w)
          BY <1>0, <2>2, GoodAnchored DEF Anchored
        <4> QED BY <1>0, <4>1, ReferredFacts
      <3>2. t = ref_inc(s, w)
        BY <2>2
      <3> HIDE DEF t, w
      <3>3. Move(s, t, w, 1, 0) /\ t.ret = s.ret /\ t.at = s.at
        BY <1>0, <3>1, <3>2, RefInc
      <3>4. ASSUME NEW j \in Nodes
            PROVE  /\ t.node[j].open = s.node[j].open
                   /\ Rest(t, j) - Rest(s, j)
                         = One(j = None) - One(j = None) + One(w = j) - One(NoFs.pwd = j)
        <4>1. /\ t.leaked = s.leaked
              /\ t.node[j].ref = s.node[j].ref + (IF j = w THEN 1 ELSE 0)
              /\ t.node[j].open = s.node[j].open + (IF j = w THEN 0 ELSE 0)
          BY <3>3 DEF Move, Frame
        <4>2. /\ s.node[j].ref \in Int /\ s.node[j].open \in Int /\ s.leaked[j] \in Int
              /\ j # None /\ NoFs.pwd = None
          BY <2>0 DEF NoFs
        <4> QED BY <4>1, <4>2 DEF Rest, One
      <3> QED BY <3>3, <3>4 DEF Balance, Move, Frame, OnlyHolds
    <2> QED BY <2>1, <2>2
  <1>4. Empty(s.fs[q]) /\ s.fs[q].pwd = NoFs.pwd
    BY DEF Empty
  <1> HIDE DEF t, u
  <1>5. /\ Good(u, None) /\ u.fs = [s.fs EXCEPT ![q] = x] /\ u.bootfs = s.bootfs
        /\ u.ret = t.ret /\ u.at = t.at /\ \A j \in Regs : HoldsIn(u, j) = HoldsIn(t, j)
    <2>1. Balance(s, t, None, None, s.fs[q].pwd, x.pwd)
      BY <1>1, <1>3, <1>4
    <2> HIDE DEF x, w
    <2>2. Swap(s, t, Swapped(t, q, x), q, x, None)
      BY <1>1, <1>3, <1>4, <2>1, SwapFacts
    <2> QED BY <1>2, <2>2 DEF Swap
  <1>6. s.fs \in [Procs -> FsStructs]
    BY <1>0 DEF Live, States
  <1>7. u.fs[q] = x /\ \A r \in Procs \ {q} : u.fs[r] = s.fs[r]
    BY <1>5, <1>6
  <1>8. \A d \in Fds : u.fs[q].filemap[d] = IF d < 0 THEN s.fs[p].filemap[d] ELSE NoFile
    BY <1>0, <1>7
  <1>9. Kept(s, u)
    BY <1>3, <1>5 DEF Kept, OnlyHolds
  <1> QED BY <1>1, <1>3, <1>5, <1>7, <1>8, <1>9 DEF Copied, u

LEMMA CopiedStep ==
    ASSUME NEW s, NEW t, NEW p \in Procs, NEW q \in Procs, p # q, NEW b \in Fds,
           Good(s, None), s.fs[p] # NoFs, Tidy(s, p), Copied(s, t, q, p, b)
    PROVE  Copied(s, Duplicated1(t, q, s.fs[p], b), q, p, b + 1)
  <1> DEFINE f == s.fs[p].filemap[b]
             u == filemap_dup(t, q, b, f)
  <1>0. NFd \in Nat /\ Fds = 0 .. NFd - 1
    BY Sizes DEF Fds
  <1>1. t.fs[p] = s.fs[p] /\ f \in Entries /\ t.fs[q].filemap[b] = NoFile /\ t.fs[q] # NoFs
    <2>1. ~(b < b)
      BY <1>0
    <2> QED BY <2>1, EntryType DEF Copied
  <1>2. CASE f = NoFile
    <2>1. Duplicated1(t, q, s.fs[p], b) = t
      BY <1>2 DEF Duplicated1, NoFile
    <2>2. ASSUME NEW d \in Fds
          PROVE  t.fs[q].filemap[d] = IF d < b + 1 THEN s.fs[p].filemap[d] ELSE NoFile
      <3>1. t.fs[q].filemap[d] = IF d < b THEN s.fs[p].filemap[d] ELSE NoFile
        BY DEF Copied
      <3> QED BY <1>0, <1>2, <3>1
    <2> QED BY <2>1, <2>2 DEF Copied
  <1>3. CASE f # NoFile
    <2>1. Idle(f)
      BY <1>3 DEF Tidy
    <2>2. Duplicated1(t, q, s.fs[p], b) = u
      BY <2>1 DEF Duplicated1, Idle
    <2>3. t.node[f.node].open > 0 /\ Good(t, None)
      <3>1. Good(t, None) /\ t.fs[p] # NoFs /\ f.node \in Nodes /\ t.fs[p].filemap[b].node = f.node
        BY <1>1, <2>1 DEF Copied, Idle
      <3> QED BY <3>1, EntryOpen
    <2>4. /\ Good(u, None) /\ Sets(t.fs, u.fs, q, b, f) /\ Kept(t, u)
          /\ u.ret = t.ret /\ u.at = t.at
      <3> HIDE DEF f, u
      <3> QED BY <1>1, <2>1, <2>3, FilemapDup DEF u
    <2> HIDE DEF u
    <2>5. ASSUME NEW d \in Fds
          PROVE  u.fs[q].filemap[d] = IF d < b + 1 THEN s.fs[p].filemap[d] ELSE NoFile
      <3>1. t.fs[q].filemap[d] = IF d < b THEN s.fs[p].filemap[d] ELSE NoFile
        BY DEF Copied
      <3>2. u.fs[q].filemap[d] = IF d = b THEN f ELSE t.fs[q].filemap[d]
        BY <2>4 DEF Sets
      <3> QED BY <1>0, <3>1, <3>2
    <2>6. Kept(s, u)
      BY <2>4 DEF Copied, Kept, OnlyHolds
    <2>7. /\ u.ret = s.ret /\ u.at = s.at /\ u.fs[q] # NoFs /\ u.fs[q].pwd = s.fs[p].pwd
          /\ \A r \in Procs \ {q} : u.fs[r] = s.fs[r]
      BY <2>4 DEF Copied, Sets
    <2> QED BY <2>2, <2>4, <2>5, <2>6, <2>7 DEF Copied
  <1> QED BY <1>2, <1>3

\* q starts with what p has.
LEMMA DupFacts ==
    ASSUME NEW s, Good(s, None), NEW p \in Procs, NEW q \in Procs, s.fs[p] # NoFs,
           s.fs[q] = NoFs, Tidy(s, p)
    PROVE  Copied(s, dup_fs(s, q, p), q, p, NFd)
  <1>0. NFd \in Nat /\ Fds = 0 .. NFd - 1 /\ p # q
    BY Sizes DEF Fds
  <1>1. PICK h : /\ dup_fs(s, q, p) = h[NFd] /\ h[0] = Fresh(s, q, p)
                 /\ \A d \in 0 .. NFd - 1 : h[d + 1] = Duplicated1(h[d], q, s.fs[p], d)
    BY DupSteps
  <1> DEFINE Bad == {b \in 0 .. NFd : ~Copied(s, h[b], q, p, b)}
  <1>2. Bad = {}
    <2> SUFFICES ASSUME Bad # {} PROVE FALSE
      OBVIOUS
    <2>1. PICK b \in Bad : \A m \in Bad : b <= m
      <3>1. Bad \in SUBSET Nat /\ Bad # {}
        BY <1>0
      <3> HIDE DEF Bad
      <3> QED BY <3>1, LeastNumber
    <2>2. b \in 0 .. NFd /\ ~Copied(s, h[b], q, p, b)
      OBVIOUS
    <2>3. b # 0
      <3>1. Copied(s, Fresh(s, q, p), q, p, 0)
        BY FreshFacts
      <3> QED BY <1>1, <2>2, <3>1
    <2>4. b - 1 \in 0 .. NFd - 1 /\ b - 1 \in 0 .. NFd /\ ~(b <= b - 1) /\ (b - 1) + 1 = b
          /\ b - 1 \in Fds
      BY <1>0, <2>2, <2>3
    <2>5. b - 1 \notin Bad
      <3> HIDE DEF Bad
      <3> QED BY <2>1, <2>4
    <2>6. Copied(s, h[b - 1], q, p, b - 1)
      BY <2>4, <2>5
    <2>7. h[(b - 1) + 1] = Duplicated1(h[b - 1], q, s.fs[p], b - 1)
      BY <1>1, <2>4
    <2>8. Copied(s, Duplicated1(h[b - 1], q, s.fs[p], b - 1), q, p, (b - 1) + 1)
      BY <1>0, <2>4, <2>6, CopiedStep
    <2> QED BY <2>2, <2>4, <2>7, <2>8
  <1>3. NFd \in 0 .. NFd
    BY <1>0
  <1> QED BY <1>1, <1>2, <1>3

-----------------------------------------------------------------------------
(* One descriptor                                                          *)

FreeFds(s, p) == {d \in Fds : s.fs[p].filemap[d].status = "NONE"}
\* What a call to open has done: it has stopped the kernel, failed, or made
\* the lowest free entry a descriptor of the inode found.
OpenAt(s, t, p, flags, d, e) ==
    /\ FreeFds(s, p) # {} /\ d = Min(FreeFds(s, p)) /\ s.fs[p].filemap[d] = NoFile
    /\ \A c \in 0 .. d - 1 : s.fs[p].filemap[c] # NoFile
    /\ Idle(e) /\ e.node = t.at /\ Sets(s.fs, t.fs, p, d, e)
    /\ OnlyHolds(s, t, t.at, FALSE)
    /\ ~(flags.trunc \/ flags.creat) => Kept(s, t)
OpenDone(s, t, p, flags) ==
    /\ Good(t, None) /\ t.bootfs = s.bootfs
    /\ t.ret # "ok" => t.fs = s.fs /\ Kept(s, t)
    /\ t.ret = "ok" => \E d \in Fds, e \in Entries : OpenAt(s, t, p, flags, d, e)

LEMMA LeastFree ==
    ASSUME NEW s, NEW p, FreeFds(s, p) # {}
    PROVE  LET d == Min(FreeFds(s, p))
           IN  d \in FreeFds(s, p) /\ d \in Fds /\ \A c \in 0 .. d - 1 : c \in Fds /\ c \notin FreeFds(s, p)
  <1> DEFINE S == FreeFds(s, p)
             d == Min(S)
  <1>0. NFd \in Nat /\ Fds = 0 .. NFd - 1 /\ S \subseteq Fds
    BY Sizes DEF Fds, FreeFds
  <1>1. PICK m \in S : \A n \in S : m <= n
    <2>1. S \in SUBSET Nat /\ S # {}
      BY <1>0
    <2> HIDE DEF S
    <2> QED BY <2>1, LeastNumber
  <1>2. d = CHOOSE x \in S : \A y \in S : x <= y
    BY DEF Min
  <1> HIDE DEF S, d
  <1>3. d \in S /\ \A y \in S : d <= y
    BY <1>1, <1>2
  <1>4. ASSUME NEW c \in 0 .. d - 1 PROVE c \in Fds /\ c \notin S
    BY <1>0, <1>3
  <1> QED BY <1>0, <1>3, <1>4 DEF S, d

LEMMA GoodFail ==
    ASSUME NEW s, NEW k, Good(s, k), NEW e \in Rets
    PROVE  LET t == Fail(s, e)
           IN  Good(t, k) /\ t.fs = s.fs /\ Kept(s, t) /\ t.ret = e /\ t.at = s.at
  <1> DEFINE t == Fail(s, e)
  <1>1. Live(s)
    BY DEF Good
  <1>2. Move(s, t, None, 0, 0) /\ t.ret = e /\ t.at = s.at
    BY <1>1, FailFacts
  <1>3. t.fs = s.fs /\ t.bootfs = s.bootfs /\ t.leaked = s.leaked /\ t.node = s.node
    BY <1>1 DEF Fail, Live, States
  <1> HIDE DEF t
  <1>4. Good(t, k)
    BY <1>2, <1>3 DEF Good, Rest, Move
  <1>5. Kept(s, t)
    BY <1>2, <1>3 DEF Kept, OnlyHolds, Move
  <1> QED BY <1>2, <1>3, <1>4, <1>5 DEF t

\* Inodes in the same state but for what files hold, and the same tables.
LEMMA GoodShift ==
    ASSUME NEW s, NEW k, Good(s, k), NEW t, NEW i, Shift(s, t, i, 0)
    PROVE  Good(t, k)
  <1>1. Live(t) /\ t.fs = s.fs /\ t.bootfs = s.bootfs
    BY DEF Shift
  <1>2. ASSUME NEW j \in Nodes
        PROVE  /\ t.node[j].open = Cardinality(Uses(t.fs, j))
               /\ Rest(t, j) + One(j = k) = Cardinality(Pwds(t.fs, j)) + One(t.bootfs = j) + Base(j)
    <2>1. t.node[j].open = s.node[j].open + (IF j = i THEN 0 ELSE 0) /\ Rest(t, j) = Rest(s, j)
      BY DEF Shift
    <2>2. s.node[j].open \in Int
      BY DEF Good, Live, States, NodeRecs
    <2> QED BY <1>1, <2>1, <2>2 DEF Good
  <1> QED BY <1>1, <1>2 DEF Good

LEMMA FileOpen ==
    ASSUME NEW s, Good(s, None), s.ret = "ok", NEW p \in Procs, s.fs[p] # NoFs,
           NEW path \in Paths, NEW flags, NEW oom
    PROVE  LET t == file_open(s, p, path, flags, oom)
           IN  Stopped(t) \/ OpenDone(s, t, p, flags)
  <1> DEFINE t == file_open(s, p, path, flags, oom)
             free == FreeFds(s, p)
             d == Min(free)
             v == vfs_open(s, p, path, flags, oom)
             e == [status |-> "OPENED", node |-> v.at, count |-> 1,
                   readable |-> flags.acc # "WRONLY", writable |-> Writes(flags)]
  <1>0. Live(s) /\ None \notin Nodes
    <2>1. None \notin Nodes
      BY FilesAssumption, Zenon
    <2> QED BY <2>1 DEF Good
  <1>1. CASE free = {}
    <2>1. t = Fail(s, "E_MAX_OPEN") /\ "E_MAX_OPEN" \in Rets
      BY <1>1 DEF file_open, FreeFds, Rets
    <2>2. Good(t, None) /\ t.fs = s.fs /\ Kept(s, t) /\ t.ret = "E_MAX_OPEN"
      <3> HIDE DEF t
      <3> QED BY <2>1, GoodFail
    <2> HIDE DEF t
    <2> QED BY <2>2 DEF OpenDone, Kept, t
  <1>2. CASE free # {}
    <2>1. d \in free /\ d \in Fds /\ \A c \in 0 .. d - 1 : c \in Fds /\ c \notin free
      BY <1>2, LeastFree
    <2>2. s.fs[p].filemap[d] = NoFile
      <3>1. InEntry(s.fs[p].filemap[d]) /\ s.fs[p].filemap[d].status = "NONE"
        BY <2>1, EntryType DEF FreeFds
      <3> QED BY <3>1 DEF InEntry
    <2>3. \A c \in 0 .. d - 1 : s.fs[p].filemap[c] # NoFile
      <3> HIDE DEF d
      <3> QED BY <2>1 DEF FreeFds, NoFile
    <2>4. Check(s, s.fs[p].filemap[d].count = 0, "filemap_alloc") = s
      BY <2>2 DEF Check, NoFile
    <2>5. t = IF ~Ok(v) THEN v ELSE Entered(v, p, d, e)
      <3>1. t = LET w == vfs_open(Check(s, s.fs[p].filemap[d].count = 0, "filemap_alloc"),
                                  p, path, flags, oom)
                IN  IF ~Ok(w) THEN w
                    ELSE [w EXCEPT !.fs[p].filemap[d] =
                            [status |-> "OPENED", node |-> w.at, count |-> 1,
                             readable |-> flags.acc # "WRONLY", writable |-> Writes(flags)]]
        BY <1>2, Zenon DEF file_open, FreeFds
      <3> QED BY <2>4, <3>1, Zenon DEF Entered
    <2>6. Stopped(v) \/ Opened(s, v, flags)
      BY <1>0, GoodAnchored, VfsOpen
    <2> HIDE DEF t, d, v
    <2>7. CASE Stopped(v)
      <3>1. ~Ok(v)
        BY <2>7 DEF Ok, Stopped, MayStop
      <3> QED BY <2>5, <2>7, <3>1 DEF t
    <2>8. CASE Opened(s, v, flags) /\ v.ret # "ok"
      <3>1. t = v
        BY <2>5, <2>8 DEF Ok
      <3>2. Shift(s, v, None, 0) /\ OnlyHolds(s, v, None, FALSE)
        BY <2>8 DEF Opened
      <3>3. Good(v, None)
        BY <3>2, GoodShift
      <3> QED BY <2>8, <3>1, <3>2, <3>3 DEF OpenDone, Kept, Shift, t
    <2>9. CASE Opened(s, v, flags) /\ v.ret = "ok"
      <3>1. /\ v.at \in Nodes /\ Shift(s, v, v.at, 1) /\ OnlyHolds(s, v, v.at, FALSE)
            /\ ~(flags.trunc \/ flags.creat) => OnlyHolds(s, v, None, FALSE)
        BY <2>9 DEF Opened
      <3>2. t = Entered(v, p, d, e)
        <4>1. v.panic = "none"
          BY <3>1 DEF Shift, Live
        <4> QED BY <2>5, <2>9, <4>1 DEF Ok
      <3>3. e \in Entries /\ e.node = v.at /\ Idle(e) /\ InEntry(e) /\ 1 \in Int
        <4>0. PICK b, c : b = (flags.acc # "WRONLY") /\ c = Writes(flags)
          OBVIOUS
        <4>1. b \in BOOLEAN /\ c \in BOOLEAN
          <5>1. b \in BOOLEAN
            BY <4>0
          <5>2. c = (flags.acc \in {"WRONLY", "RDWR"})
            BY <4>0, Zenon DEF Writes
          <5>3. c \in BOOLEAN
            BY <5>2
          <5> QED BY <5>1, <5>3
        <4>2. e = [status |-> "OPENED", node |-> v.at, count |-> 1, readable |-> b, writable |-> c]
          BY <4>0, Zenon
        <4> HIDE DEF e
        <4> QED BY <3>1, <4>1, <4>2 DEF Entries, Idle, InEntry
      <3> HIDE DEF e
      <3>4. \A j \in Nodes : One(e.node = j) - One(s.fs[p].filemap[d].node = j)
                                 = (IF j = v.at THEN 1 ELSE 0)
        BY <1>0, <2>2, <3>3 DEF One, NoFile
      <3>5. /\ Good(t, None) /\ t.fs = With1(s.fs, p, d, e) /\ t.bootfs = s.bootfs
            /\ t.ret = v.ret /\ t.at = v.at
            /\ \A j \in Regs : HoldsIn(t, j) = HoldsIn(v, j)
        BY <2>1, <3>1, <3>2, <3>3, <3>4, EnteredFacts
      <3>6. Sets(s.fs, t.fs, p, d, e)
        BY <2>1, <3>3, <3>5, EnteredSets
      <3>7. OnlyHolds(s, t, t.at, FALSE)
        BY <3>1, <3>5 DEF OnlyHolds
      <3>8. ~(flags.trunc \/ flags.creat) => Kept(s, t)
        BY <3>1, <3>5 DEF OnlyHolds, Kept
      <3>9. OpenAt(s, t, p, flags, d, e)
        BY <1>2, <2>2, <2>3, <3>3, <3>5, <3>6, <3>7, <3>8 DEF OpenAt, d
      <3>10. \E c \in Fds, x \in Entries : OpenAt(s, t, p, flags, c, x)
        BY <2>1, <3>3, <3>9
      <3> QED BY <2>9, <3>5, <3>10 DEF OpenDone, t
    <2> QED BY <2>6, <2>7, <2>8, <2>9
  <1> QED BY <1>1, <1>2

LEMMA KeptFacts ==
    ASSUME NEW s, NEW t, Kept(s, t)
    PROVE  \A j \in Regs : HoldsIn(t, j) = HoldsIn(s, j)
  <1>1. None \notin Nodes
    BY FilesAssumption, Zenon
  <1> QED BY <1>1 DEF Kept, OnlyHolds, Nodes, Sfs

Less(e) == [e EXCEPT !.count = e.count - 1]
LEMMA ReleaseOne ==
    ASSUME NEW w, NEW p, NEW d, w.fs[p].filemap[d].count \in Int, w.fs[p].filemap[d].count > 1
    PROVE  release(w, p, d) = Entered(w, p, d, Less(w.fs[p].filemap[d]))
  <1>1. Check(w, w.fs[p].filemap[d].count > 0, "filemap_release") = w
    BY DEF Check
  <1>2. release(w, p, d) =
           IF w.fs[p].filemap[d].count > 1
           THEN [Check(w, w.fs[p].filemap[d].count > 0, "filemap_release")
                   EXCEPT !.fs[p].filemap[d].count = @ - 1]
           ELSE [vfs_close(Check(Check(w, w.fs[p].filemap[d].count > 0, "filemap_release"),
                                 w.fs[p].filemap[d].status = "CLOSED", "filemap_free"),
                           w.fs[p].filemap[d].node)
                   EXCEPT !.fs[p].filemap[d] = NoFile]
    BY Zenon DEF release
  <1>3. release(w, p, d) = [w EXCEPT !.fs[p].filemap[d].count = @ - 1]
    BY <1>1, <1>2, Zenon
  <1> QED BY <1>3 DEF Entered, Less

\* A call on a descriptor: it stops the kernel or leaves the tables as they were.
UseDone(s, t, p, d) ==
    /\ Good(t, None) /\ t.bootfs = s.bootfs /\ t.ret = s.ret /\ t.at = s.at
    /\ Sets(s.fs, t.fs, p, d, s.fs[p].filemap[d])
    /\ OnlyHolds(s, t, s.fs[p].filemap[d].node, TRUE)

LEMMA WithFacts ==
    ASSUME NEW s, Good(s, None), s.ret = "ok", NEW p \in Procs, s.fs[p] # NoFs, NEW d \in Fds,
           Idle(s.fs[p].filemap[d]), NEW op, NEW longer \in BOOLEAN
    PROVE  LET t == With(s, p, d, op, longer)
           IN  Stopped(t) \/ (UseDone(s, t, p, d) /\ (~longer => Kept(s, t)))
  <1> DEFINE f == s.fs[p].filemap[d]
             i == f.node
             e == [f EXCEPT !.count = 2]
             a == Entered(s, p, d, e)
             v == Vop(a, i, op)
             w == IF ~Ok(v) THEN v ELSE IF op = "fsync" THEN fsync(v, i)
                  ELSE IF longer /\ i \in Regs THEN Resize(v, i, TRUE) ELSE v
             t == release(w, p, d)
  <1>0. /\ f \in Entries /\ i \in Nodes /\ f.count = 1
        /\ e \in Entries /\ e.node = i /\ e.count = 2 /\ InEntry(e) /\ Live(s) /\ 0 \in Int
    <2>1. f \in Entries
      BY EntryType
    <2> QED BY <2>1 DEF Idle, Entries, InEntry, Good
  <1>1. With(s, p, d, op, longer) = t
    <2>1. [s EXCEPT !.fs[p].filemap[d].count = @ + 1] = a
      BY <1>0 DEF Entered
    <2> QED BY <2>1 DEF With
  <1>2. /\ Good(a, None) /\ Sets(s.fs, a.fs, p, d, e) /\ Kept(s, a)
        /\ a.ret = s.ret /\ a.at = s.at
    <2> HIDE DEF a, e, i, f
    <2> QED BY <1>0, Touch DEF a, f, i
  <1> HIDE DEF a, e
  <1>3. Live(a) /\ a.panic = "none"
    BY <1>2 DEF Good, Live
  <1>4. CASE op \notin Ops(i)
    <2>1. Stopped(v)
      BY <1>0, <1>3, <1>4, VopFacts
    <2>2. w = v
      BY <2>1 DEF Ok, Stopped, MayStop
    <2> QED BY <1>1, <2>1, <2>2, StoppedRelease
  <1>5. CASE op \in Ops(i)
    <2>1. v = a /\ Ok(v)
      BY <1>0, <1>2, <1>3, <1>5, VopFacts DEF Ok
    <2>2. a.node[i].ref > 0
      <3>1. a.node[i].open > 0
        <4>1. a.fs[p] # NoFs /\ a.fs[p].filemap[d].node = i
          BY <1>0, <1>2 DEF Sets
        <4> HIDE DEF i
        <4> QED BY <1>0, <1>2, <4>1, EntryOpen
      <3>2. InodeSane(a, i) /\ a.node[i].open \in Int /\ a.node[i].ref \in Int
        BY <1>0, <1>3 DEF Live, Sane, States, NodeRecs
      <3> HIDE DEF i
      <3> QED BY <3>1, <3>2 DEF InodeSane, Base
    <2>3. /\ Shift(a, w, None, 0) /\ OnlyHolds(a, w, i, TRUE) /\ w.ret = a.ret /\ w.at = a.at
          /\ ~longer => OnlyHolds(a, w, None, FALSE)
      <3>1. CASE op = "fsync"
        <4>1. w = fsync(a, i)
          BY <2>1, <3>1
        <4>2. Move(a, w, i, 0, 0) /\ w.ret = a.ret /\ w.at = a.at
          BY <1>0, <1>3, <4>1, FsyncFacts
        <4> HIDE DEF w, i
        <4>3. Move(a, w, None, 0, 0)
          BY <4>2, NoMove
        <4>4. Shift(a, w, None, 0)
          BY <1>0, <1>3, <4>3, MoveShift
        <4> QED BY <4>2, <4>4 DEF OnlyHolds, Move
      <3>2. CASE op # "fsync" /\ longer /\ i \in Regs
        <4>1. w = Resize(a, i, TRUE)
          BY <2>1, <3>2
        <4> HIDE DEF w, i
        <4>2. /\ Live(w) /\ Frame(a, w) /\ SameCounts(a, w)
              /\ OnlyHolds(a, w, i, TRUE) /\ w.ret = a.ret /\ w.at = a.at
          BY <1>3, <2>2, <3>2, <4>1, ResizeFacts
        <4>3. Shift(a, w, None, 0)
          <5>1. \A j \in Nodes : a.node[j].open \in Int
            BY <1>3 DEF Live, States, NodeRecs
          <5> QED BY <4>2, <5>1 DEF Shift, Frame, SameCounts, Rest
        <4> QED BY <3>2, <4>2, <4>3
      <3>3. CASE op # "fsync" /\ ~(longer /\ i \in Regs)
        <4>1. w = a
          BY <2>1, <3>3
        <4> HIDE DEF w
        <4>2. Shift(a, a, None, 0)
          BY <1>0, <1>3, StillLive, MoveShift
        <4> QED BY <4>1, <4>2 DEF OnlyHolds
      <3> QED BY <3>1, <3>2, <3>3
    <2> HIDE DEF w
    <2>4. Good(w, None) /\ w.fs = a.fs /\ w.bootfs = a.bootfs
      BY <1>2, <2>3, GoodShift DEF Shift
    <2>5. w.fs[p] # NoFs /\ w.fs[p].filemap[d] = e
      BY <1>2, <2>4 DEF Sets
    <2>6. t = Entered(w, p, d, f)
      <3>1. w.fs[p].filemap[d].count \in Int /\ w.fs[p].filemap[d].count > 1
        BY <1>0, <2>5
      <3>2. release(w, p, d) = Entered(w, p, d, Less(w.fs[p].filemap[d]))
        BY <3>1, ReleaseOne
      <3>3. Less(e) = f
        <4>1. PICK g \in Entries : g = f /\ g.count = 1
          BY <1>0
        <4>2. e = [g EXCEPT !.count = 2] /\ e.count = 2
          BY <1>0, <4>1 DEF e
        <4>3. [[g EXCEPT !.count = 2] EXCEPT !.count = 1] = g
          BY <4>1 DEF Entries
        <4>4. Less(e) = [e EXCEPT !.count = 1]
          BY <4>2 DEF Less
        <4> QED BY <4>1, <4>2, <4>3, <4>4, Zenon
      <3> QED BY <2>5, <3>2, <3>3
    <2> HIDE DEF t
    <2>7. InEntry(f) /\ f.node = w.fs[p].filemap[d].node
      BY <1>0, <2>5 DEF InEntry, Idle
    <2>8. /\ Good(t, None) /\ Sets(w.fs, t.fs, p, d, f) /\ Kept(w, t)
          /\ t.ret = w.ret /\ t.at = w.at
      <3> HIDE DEF f
      <3> QED BY <1>0, <2>4, <2>5, <2>6, <2>7, Touch
    <2>9. Sets(s.fs, t.fs, p, d, f)
      BY <1>2, <2>4, <2>8 DEF Sets
    <2>10. OnlyHolds(s, t, i, TRUE) /\ (~longer => Kept(s, t)) /\ t.bootfs = s.bootfs
      <3> HIDE DEF i, f
      <3>1. /\ \A j \in Regs : HoldsIn(a, j) = HoldsIn(s, j) /\ HoldsIn(t, j) = HoldsIn(w, j)
            /\ a.bootfs = s.bootfs /\ t.bootfs = w.bootfs
        BY <1>2, <2>8, KeptFacts DEF Kept
      <3>2. OnlyHolds(s, t, i, TRUE)
        BY <2>3, <3>1 DEF OnlyHolds
      <3>3. ASSUME ~longer PROVE Kept(s, t)
        BY <2>3, <2>4, <3>1, <3>3 DEF OnlyHolds, Kept
      <3> QED BY <2>4, <3>1, <3>2, <3>3
    <2> QED BY <1>1, <1>2, <2>3, <2>8, <2>9, <2>10 DEF UseDone
  <1> QED BY <1>4, <1>5

-----------------------------------------------------------------------------
(* The path of the current directory                                       *)

\* One step of the way up.
ClimbTo(w, up) ==
    IF ~Ok(up) THEN [s |-> ref_dec(up, w.d), d |-> w.d, top |-> TRUE]
    ELSE IF up.at = w.d
         THEN [s |-> ref_dec(ref_dec(up, w.d), w.d), d |-> w.d, top |-> TRUE]
         ELSE [s |-> ref_dec(up, w.d), d |-> up.at, top |-> FALSE]
Climb1(w, oom) == IF w.top THEN w ELSE ClimbTo(w, lookup_once(w.s, w.d, "..", oom))
ClimbFrom(s, d) == [s |-> ref_inc(s, d), d |-> d, top |-> FALSE]

LEMMA TreeFacts ==
    ASSUME NEW d \in Dirs
    PROVE  /\ Depth[d] \in Nat /\ ".." \in Names /\ Entry[d][".."] \in Dirs
           /\ Entry[d][".."] = d \/ Depth[Entry[d][".."]] < Depth[d]
  <1>1. Depth \in [Dirs -> Nat] /\ ".." \in Names
    BY FilesAssumption, Zenon
  <1>2. \A e \in Dirs : Entry[e][".."] \in Dirs
                        /\ (Entry[e][".."] = e \/ Depth[Entry[e][".."]] < Depth[e])
    BY FilesAssumption, Zenon
  <1> QED BY <1>1, <1>2

LEMMA ClimbSteps ==
    ASSUME NEW s, NEW d \in Dirs, NEW oom, oom # "entry"
    PROVE  \E h : /\ namefile(s, d, oom) = h[Depth[d] + 1].s /\ h[0] = ClimbFrom(s, d)
                  /\ \A n \in 0 .. Depth[d] : h[n + 1] = Climb1(h[n], oom)
  <1> DEFINE N == Depth[d] + 1
             Rec(g, k) == g = [n \in 0 .. k |-> IF n = 0 THEN ClimbFrom(s, d) ELSE Climb1(g[n - 1], oom)]
             Bad == {k \in 0 .. N : ~ \E g : Rec(g, k)}
  <1>0. N \in Nat /\ Depth[d] \in Nat
    BY TreeFacts
  <1>1. Bad = {}
    <2> SUFFICES ASSUME Bad # {} PROVE FALSE
      OBVIOUS
    <2>1. PICK k \in Bad : \A m \in Bad : k <= m
      <3>1. Bad \in SUBSET Nat /\ Bad # {}
        BY <1>0
      <3> HIDE DEF Bad
      <3> QED BY <3>1, LeastNumber
    <2>2. k \in 0 .. N /\ k \in Nat /\ k # 0
      <3>1. Rec([n \in 0 .. 0 |-> ClimbFrom(s, d)], 0)
        OBVIOUS
      <3>2. 0 \notin Bad
        <4> HIDE DEF Rec
        <4> QED BY <3>1
      <3>3. k # 0
        <4> HIDE DEF Bad
        <4> QED BY <3>2
      <3> HIDE DEF N
      <3> QED BY <1>0, <3>3
    <2>3. PICK g : Rec(g, k - 1)
      <3>1. k - 1 \in 0 .. N /\ ~(k <= k - 1)
        <4> HIDE DEF N
        <4> QED BY <1>0, <2>2
      <3>2. k - 1 \notin Bad
        <4> HIDE DEF Bad
        <4> QED BY <2>1, <3>1
      <3> QED BY <3>1, <3>2
    <2> DEFINE h == [n \in 0 .. k |-> IF n < k THEN g[n] ELSE Climb1(g[k - 1], oom)]
    <2>4. \A n \in 0 .. k : h[n] = IF n = 0 THEN ClimbFrom(s, d) ELSE Climb1(h[n - 1], oom)
      <3> SUFFICES ASSUME NEW n \in 0 .. k
                   PROVE  h[n] = IF n = 0 THEN ClimbFrom(s, d) ELSE Climb1(h[n - 1], oom)
        OBVIOUS
      <3>1. CASE n < k
        <4>1. h[n] = g[n] /\ n \in 0 .. k - 1
          BY <2>2, <3>1
        <4>2. g[n] = IF n = 0 THEN ClimbFrom(s, d) ELSE Climb1(g[n - 1], oom)
          BY <2>3, <4>1
        <4>3. n # 0 => h[n - 1] = g[n - 1]
          BY <2>2, <3>1
        <4> QED BY <4>1, <4>2, <4>3
      <3>2. CASE n = k
        BY <2>2, <3>2
      <3> QED BY <2>2, <3>1, <3>2
    <2>5. Rec(h, k)
      BY <2>4
    <2> QED BY <2>1, <2>5
  <1>2. PICK g0 : Rec(g0, N)
    <2>1. N \in 0 .. N
      <3> HIDE DEF N
      <3> QED BY <1>0
    <2> QED BY <1>1, <2>1
  <1> DEFINE To(w, up) ==
                IF ~Ok(up) THEN [s |-> ref_dec(up, w.d), d |-> w.d, top |-> TRUE]
                ELSE IF up.at = w.d
                     THEN [s |-> ref_dec(ref_dec(up, w.d), w.d), d |-> w.d, top |-> TRUE]
                     ELSE [s |-> ref_dec(up, w.d), d |-> up.at, top |-> FALSE]
             Climb(w) == IF w.top THEN w ELSE To(w, lookup_once(w.s, w.d, "..", oom))
             Def(g) == g = [n \in 0 .. Depth[d] + 1 |->
                              IF n = 0 THEN [s |-> ref_inc(s, d), d |-> d, top |-> FALSE]
                              ELSE Climb(g[n - 1])]
  <1>3. \A f : Def(f) <=> Rec(f, N)
    BY Zenon DEF Climb1, ClimbTo, ClimbFrom
  <1>4. namefile(s, d, oom) = (CHOOSE f : Def(f))[N].s
    BY Zenon DEF namefile
  <1>5. Def(CHOOSE f : Def(f))
    <2> HIDE DEF Rec, Def
    <2> QED BY <1>2, <1>3, Zenon
  <1>6. PICK h : h = (CHOOSE f : Def(f)) /\ Rec(h, N)
    <2> HIDE DEF Rec, Def
    <2> QED BY <1>3, <1>5, Zenon
  <1>7. \A n \in 0 .. N : h[n] = IF n = 0 THEN ClimbFrom(s, d) ELSE Climb1(h[n - 1], oom)
    BY <1>6
  <1>8. h[0] = ClimbFrom(s, d)
    <2> HIDE DEF N
    <2>1. 0 \in 0 .. N
      BY <1>0
    <2> QED BY <1>7, <2>1
  <1>9. \A n \in 0 .. Depth[d] : h[n + 1] = Climb1(h[n], oom)
    <2> SUFFICES ASSUME NEW n \in 0 .. Depth[d] PROVE h[n + 1] = Climb1(h[n], oom)
      OBVIOUS
    <2>1. n + 1 \in 0 .. N /\ n + 1 # 0 /\ (n + 1) - 1 = n
      BY <1>0
    <2> HIDE DEF N
    <2> QED BY <1>7, <2>1
  <1> QED BY <1>4, <1>6, <1>8, <1>9

\* On the way up from d, n steps done: one directory is held, or the top has
\* been reached and none is.
Climbing(s, w, d, n) ==
    /\ w.top => Move(s, w.s, None, 0, 0)
    /\ ~w.top => /\ w.d \in Dirs /\ Move(s, w.s, w.d, 1, 0) /\ w.s.ret = "ok"
                 /\ Depth[w.d] + n <= Depth[d]

LEMMA ClimbStep ==
    ASSUME NEW s, Live(s), NEW w, NEW d \in Dirs, NEW n \in Nat, NEW oom,
           Climbing(s, w, d, n)
    PROVE  Climbing(s, Climb1(w, oom), d, n + 1)
  <1>1. CASE w.top
    BY <1>1 DEF Climb1, Climbing
  <1>2. CASE ~w.top
    <2> DEFINE e == w.d
               up == lookup_once(w.s, e, "..", oom)
               v == ref_dec(up, e)
               x == Climb1(w, oom)
    <2>1. /\ e \in Dirs /\ e \in Nodes /\ Move(s, w.s, e, 1, 0) /\ w.s.ret = "ok" /\ Live(w.s)
          /\ Depth[e] + n <= Depth[d]
      BY <1>2 DEF Climbing, Move, Nodes, Sfs
    <2>2. x = ClimbTo(w, up)
      BY <1>2 DEF Climb1
    <2>3. ".." \in Names /\ Entry[e][".."] \in Dirs /\ Depth[e] \in Nat /\ Depth[d] \in Nat
          /\ (Entry[e][".."] = e \/ Depth[Entry[e][".."]] < Depth[e])
      BY <2>1, TreeFacts
    <2>4. Got(w.s, up) /\ (up.ret = "ok" => up.at = Entry[e][".."])
      <3> HIDE DEF e
      <3> QED BY <2>1, <2>3, LookupOnce
    <2> HIDE DEF up, e
    <2>5. Got(s, v) /\ v.ret = up.ret /\ v.at = up.at
      BY <2>1, <2>4, HeldMeanwhile
    <2>6. Ok(up) <=> up.ret = "ok"
      BY <2>4 DEF Got, Move, Live, Ok
    <2> HIDE DEF v
    <2>7. CASE up.ret # "ok"
      <3>2. x = [s |-> v, d |-> e, top |-> TRUE]
        BY <2>2, <2>6, <2>7, Zenon DEF ClimbTo, v, e
      <3>3. Move(s, v, None, 0, 0)
        BY <2>5, <2>7 DEF Got
      <3> HIDE DEF x
      <3> QED BY <3>2, <3>3 DEF Climbing, x
    <2>8. CASE up.ret = "ok" /\ up.at = e
      <3> DEFINE u == ref_dec(v, e)
      <3>2. x = [s |-> u, d |-> e, top |-> TRUE]
        BY <2>2, <2>6, <2>8, Zenon DEF ClimbTo, v, e
      <3>3. Move(s, v, e, 1, 0)
        BY <2>5, <2>8 DEF Got
      <3>4. Live(v) /\ Referred(v, e)
        BY <2>1, <3>3, ReferredFacts DEF Move
      <3>5. Move(v, u, e, -1, 0)
        BY <2>1, <3>4, RefDec DEF Referred
      <3> HIDE DEF u, x
      <3>6. Move(s, u, e, 1 + (-1), 0 + 0)
        BY <3>3, <3>5, Moves
      <3>7. Move(s, u, None, 0, 0)
        <4>1. Move(s, u, e, 0, 0)
          BY <3>6
        <4> QED BY <4>1, NoMove
      <3> QED BY <3>2, <3>7 DEF Climbing, x
    <2>9. CASE up.ret = "ok" /\ up.at # e
      <3>2. x = [s |-> v, d |-> up.at, top |-> FALSE]
        BY <2>2, <2>6, <2>9, Zenon DEF ClimbTo, v, e
      <3>3. Move(s, v, up.at, 1, 0)
        BY <2>5, <2>9 DEF Got
      <3>4. up.at \in Dirs /\ Depth[up.at] \in Nat /\ Depth[up.at] + (n + 1) <= Depth[d]
        <4>1. Depth[up.at] < Depth[e] /\ up.at \in Dirs
          BY <2>3, <2>4, <2>9
        <4>2. Depth[up.at] \in Nat
          BY <4>1, TreeFacts
        <4> QED BY <2>1, <2>3, <4>1, <4>2
      <3>5. v.ret = "ok"
        BY <2>5, <2>9
      <3> HIDE DEF x
      <3> QED BY <1>2, <3>2, <3>3, <3>4, <3>5 DEF Climbing, x
    <2> QED BY <2>7, <2>8, <2>9
  <1> QED BY <1>1, <1>2

LEMMA NamefileFacts ==
    ASSUME NEW s, Live(s), s.ret = "ok", NEW d \in Dirs, s.node[d].ref > 0, NEW oom
    PROVE  Move(s, namefile(s, d, oom), None, 0, 0)
  <1>1. CASE oom = "entry"
    <2>1. namefile(s, d, oom) = Fail(s, "E_NO_MEM")
      BY <1>1 DEF namefile
    <2>2. "E_NO_MEM" \in Rets
      BY DEF Rets
    <2> QED BY <2>1, <2>2, FailFacts
  <1>2. CASE oom # "entry"
    <2>1. PICK h : /\ namefile(s, d, oom) = h[Depth[d] + 1].s /\ h[0] = ClimbFrom(s, d)
                   /\ \A n \in 0 .. Depth[d] : h[n + 1] = Climb1(h[n], oom)
      BY <1>2, ClimbSteps
    <2> DEFINE N == Depth[d] + 1
               Bad == {n \in 0 .. N : ~Climbing(s, h[n], d, n)}
    <2>2. Depth[d] \in Nat /\ N \in Nat
      BY TreeFacts
    <2>3. Climbing(s, h[0], d, 0)
      <3>1. d \in Nodes
        BY DEF Nodes, Sfs
      <3>2. Move(s, ref_inc(s, d), d, 1, 0) /\ ref_inc(s, d).ret = "ok"
        BY <3>1, RefInc
      <3> QED BY <2>1, <2>2, <3>2 DEF Climbing, ClimbFrom
    <2>4. Bad = {}
      <3> SUFFICES ASSUME Bad # {} PROVE FALSE
        OBVIOUS
      <3>1. PICK k \in Bad : \A m \in Bad : k <= m
        <4>1. Bad \in SUBSET Nat /\ Bad # {}
          BY <2>2
        <4> HIDE DEF Bad
        <4> QED BY <4>1, LeastNumber
      <3>2. k \in 0 .. N /\ k \in Nat /\ k # 0 /\ ~Climbing(s, h[k], d, k)
        BY <2>2, <2>3
      <3>3. k - 1 \in 0 .. Depth[d] /\ k - 1 \in Nat /\ (k - 1) + 1 = k /\ ~(k <= k - 1) /\ k - 1 \in 0 .. N
        BY <2>2, <3>2
      <3>4. Climbing(s, h[k - 1], d, k - 1)
        <4>1. k - 1 \notin Bad
          <5> HIDE DEF Bad
          <5> QED BY <3>1, <3>3
        <4> QED BY <3>3, <4>1
      <3>5. Climbing(s, Climb1(h[k - 1], oom), d, (k - 1) + 1)
        <4> HIDE DEF Bad, N
        <4> QED BY <3>3, <3>4, ClimbStep
      <3>6. h[k] = Climb1(h[k - 1], oom)
        BY <2>1, <3>3
      <3> QED BY <3>2, <3>3, <3>5, <3>6
    <2>5. Climbing(s, h[N], d, N)
      <3>1. N \in 0 .. N
        BY <2>2
      <3> QED BY <2>4, <3>1
    <2>6. h[N].top
      <3> SUFFICES ASSUME ~h[N].top PROVE FALSE
        OBVIOUS
      <3>1. h[N].d \in Dirs /\ Depth[h[N].d] + N <= Depth[d]
        BY <2>5 DEF Climbing
      <3>2. Depth[h[N].d] \in Nat
        BY <3>1, TreeFacts
      <3> QED BY <2>2, <3>1, <3>2
    <2> QED BY <2>1, <2>5, <2>6 DEF Climbing
  <1> QED BY <1>1, <1>2

LEMMA GetcwdFacts ==
    ASSUME NEW s, Good(s, None), s.ret = "ok", NEW p \in Procs, NEW oom
    PROVE  LET t == getcwd(s, p, oom)
           IN  Good(t, None) /\ t.fs = s.fs /\ Kept(s, t)
  <1> DEFINE t == get_curdir(s, p)
             i == t.at
             u == namefile(t, i, oom)
             v == ref_dec(u, i)
             r == getcwd(s, p, oom)
  <1>1. Live(s) /\ Anchored(s)
    BY GoodAnchored DEF Good
  <1>2. Got(s, t) /\ (t.ret = "ok" => i \in Dirs)
    BY <1>1, GetCurdir
  <1>3. Live(t) /\ (Ok(t) <=> t.ret = "ok")
    BY <1>2 DEF Got, Move, Live, Ok
  <1>4. r = IF Ok(t) THEN ref_dec(namefile(Vop(t, i, "namefile"), i, oom), i) ELSE t
    BY Zenon DEF getcwd
  <1> HIDE DEF t, i, r
  <1>5. Move(s, r, None, 0, 0)
    <2>1. CASE t.ret # "ok"
      BY <1>2, <1>3, <1>4, <2>1 DEF Got
    <2>2. CASE t.ret = "ok"
      <3>1. i \in Dirs /\ i \in Nodes /\ Move(s, t, i, 1, 0)
        BY <1>2, <2>2 DEF Got, i, Nodes, Sfs
      <3>2. Vop(t, i, "namefile") = t
        <4>1. "namefile" \in Ops(i)
          BY <3>1 DEF Ops
        <4> QED BY <1>3, <3>1, <4>1, VopFacts
      <3>3. r = v
        BY <1>3, <1>4, <2>2, <3>2
      <3>4. Referred(t, i) /\ t.node[i].ref > 0
        BY <1>1, <1>3, <3>1, ReferredFacts
      <3>5. Move(t, u, None, 0, 0)
        BY <1>3, <2>2, <3>1, <3>4, NamefileFacts
      <3> HIDE DEF u
      <3>6. Move(s, u, i, 1 + 0, 0 + 0)
        BY <1>1, <3>1, <3>5, Moves
      <3>7. Move(s, u, i, 1, 0)
        BY <3>6
      <3>8. Live(u) /\ Referred(u, i)
        BY <1>1, <3>1, <3>7, ReferredFacts DEF Move
      <3>9. Move(u, v, i, -1, 0)
        BY <3>1, <3>8, RefDec DEF Referred
      <3> HIDE DEF v
      <3>10. Move(s, v, i, 1 + (-1), 0 + 0)
        BY <1>1, <3>7, <3>9, Moves
      <3>11. Move(s, v, i, 0, 0)
        BY <3>10
      <3> QED BY <3>3, <3>11, NoMove
    <2> QED BY <2>1, <2>2
  <1>6. Shift(s, r, None, 0) /\ OnlyHolds(s, r, None, FALSE)
    <2>1. 0 \in Int
      OBVIOUS
    <2> QED BY <1>1, <1>5, <2>1, MoveShift
  <1>7. Good(r, None)
    BY <1>6, GoodShift
  <1>8. r.fs = s.fs /\ r.bootfs = s.bootfs
    BY <1>5 DEF Move, Frame
  <1> QED BY <1>6, <1>7, <1>8 DEF Kept, r

-----------------------------------------------------------------------------
(* The start and the end                                                   *)

LEMMA SyncFacts ==
    ASSUME NEW s, Good(s, None)
    PROVE  LET t == sync(s)
           IN  Good(t, None) /\ t.fs = s.fs /\ Kept(s, t)
  <1> DEFINE t == sync(s)
             Saved(i) == IF i \in s.hash THEN [s.node[i] EXCEPT !.dirty = FALSE] ELSE s.node[i]
             n == [i \in Nodes |-> Saved(i)]
             k == [i \in Regs |-> IF i \in s.hash /\ s.node[i].dirty THEN s.node[i].full
                                  ELSE s.disk[i]]
  <1>1. Live(s) /\ s \in States /\ s.panic = "none" /\ Sane(s)
    BY DEF Good, Live
  <1>2. ASSUME NEW i \in Nodes
        PROVE  /\ Saved(i) \in NodeRecs /\ Saved(i).ref = s.node[i].ref
               /\ Saved(i).open = s.node[i].open /\ Saved(i).reclaim = s.node[i].reclaim
               /\ Saved(i).full = s.node[i].full
               /\ i \in s.hash => Saved(i).dirty = FALSE
               /\ i \notin s.hash => Saved(i).dirty = s.node[i].dirty
    <2>1. s.node[i] \in NodeRecs
      BY <1>1 DEF States
    <2> QED BY <2>1 DEF NodeRecs
  <1>3. n \in [Nodes -> NodeRecs] /\ \A i \in Nodes : n[i] = Saved(i)
    <2> HIDE DEF Saved
    <2> QED BY <1>2
  <1>4. k \in [Regs -> BOOLEAN]
    <2>1. \A i \in Regs : s.node[i].full \in BOOLEAN /\ s.disk[i] \in BOOLEAN
      BY <1>1 DEF States, NodeRecs, Nodes, Sfs
    <2> QED BY <2>1
  <1>5. t = [s EXCEPT !.node = n, !.disk = k, !.super_dirty = FALSE]
    BY Zenon DEF sync
  <1>6. \A i \in Regs : k[i] = IF i \in s.hash /\ s.node[i].dirty THEN s.node[i].full
                               ELSE s.disk[i]
    OBVIOUS
  <1> HIDE DEF n, k, t, Saved
  <1>7. /\ t \in States /\ t.panic = "none" /\ Frame(s, t) /\ t.node = n /\ t.hash = s.hash
        /\ t.disk = k
    BY <1>1, <1>3, <1>4, <1>5 DEF States, Frame
  <1>8. ASSUME NEW i \in Nodes
        PROVE  InodeSane(t, i)
    <2>1. InodeSane(s, i)
      BY <1>1 DEF Sane
    <2>2. /\ t.node[i].ref = s.node[i].ref /\ t.node[i].open = s.node[i].open
          /\ t.node[i].reclaim = s.node[i].reclaim /\ t.node[i].full = s.node[i].full
          /\ i \in s.hash => t.node[i].dirty = FALSE
          /\ i \notin s.hash => t.node[i].dirty = s.node[i].dirty
      BY <1>2, <1>3, <1>7
    <2>3. CASE i \in Regs /\ i \in s.hash
      <3>1. t.disk[i] = IF s.node[i].dirty THEN s.node[i].full ELSE s.disk[i]
        BY <1>6, <1>7, <2>3
      <3> QED BY <1>7, <2>1, <2>2, <2>3, <3>1 DEF InodeSane
    <2>4. CASE ~(i \in Regs /\ i \in s.hash)
      <3>1. i \in Regs => ~s.node[i].dirty /\ ~t.node[i].dirty
        BY <2>1, <2>2, <2>4 DEF InodeSane
      <3> QED BY <1>7, <2>1, <2>2, <2>4, <3>1 DEF InodeSane
    <2> QED BY <2>3, <2>4
  <1>9. Live(t)
    BY <1>7, <1>8 DEF Live, Sane
  <1>10. Shift(s, t, None, 0)
    <2>1. ASSUME NEW j \in Nodes
          PROVE  /\ t.node[j].open = s.node[j].open + 0 /\ Rest(t, j) = Rest(s, j)
      <3>1. t.node[j].ref = s.node[j].ref /\ t.node[j].open = s.node[j].open /\ t.leaked = s.leaked
        BY <1>2, <1>3, <1>7 DEF Frame
      <3>2. s.node[j].open \in Int
        BY <1>1 DEF States, NodeRecs
      <3> QED BY <3>1, <3>2 DEF Rest
    <2> QED BY <1>7, <1>9, <2>1 DEF Shift, Frame
  <1>11. Kept(s, t)
    <2>1. ASSUME NEW i \in Regs PROVE HoldsIn(t, i) = HoldsIn(s, i)
      <3>1. i \in Nodes
        BY DEF Nodes, Sfs
      <3>2. n[i].full = s.node[i].full
        BY <1>2, <1>3, <3>1
      <3>3. i \notin s.hash => k[i] = s.disk[i]
        BY <1>6
      <3> QED BY <1>7, <3>2, <3>3 DEF HoldsIn
    <2> QED BY <1>7, <2>1 DEF Kept, OnlyHolds, Frame
  <1>12. Good(t, None)
    BY <1>10, GoodShift
  <1> QED BY <1>7, <1>11, <1>12 DEF Frame, t

\* The current directory of p is set to the root of the disk, which the
\* look-up left with one reference more than it has holders.
Rooted(t, p) == [ref_inc(t, Root) EXCEPT !.fs[p].pwd = Root]
LEMMA RootedFacts ==
    ASSUME NEW s, Good(s, None), NEW p \in Procs, s.fs[p] # NoFs, s.fs[p].pwd = None,
           Empty(s.fs[p]), NEW t, Move(s, t, Root, 1, 0)
    PROVE  LET u == ref_dec(Rooted(t, p), Root)
           IN  /\ Good(u, None) /\ Kept(s, u) /\ u.ret = t.ret /\ u.at = t.at
               /\ u.fs = [s.fs EXCEPT ![p] = [s.fs[p] EXCEPT !.pwd = Root]]
  <1> DEFINE v == ref_inc(t, Root)
             x == [s.fs[p] EXCEPT !.pwd = Root]
             G == [s.fs EXCEPT ![p] = x]
             w == Rooted(t, p)
             u == ref_dec(w, Root)
             u0 == [u EXCEPT !.fs = s.fs]
  <1>0. /\ Root \in Dirs /\ Root \in Nodes /\ None \notin Nodes /\ Live(s) /\ Live(t)
        /\ s.fs \in [Procs -> FsStructs]
    <2>1. Root \in Dirs /\ None \notin Nodes
      BY FilesAssumption, Zenon
    <2> QED BY <2>1 DEF Good, Move, Live, States, Nodes, Sfs
  <1>1. x \in FsStructs /\ Empty(x) /\ x.pwd = Root /\ x # NoFs
    <2>1. s.fs[p] \in [pwd : Dirs \union {None}, filemap : [Fds -> Entries]]
      BY <1>0 DEF FsStructs
    <2>2. x \in [pwd : Dirs \union {None}, filemap : [Fds -> Entries]] /\ x.pwd = Root
          /\ x.filemap = s.fs[p].filemap
      BY <1>0, <2>1
    <2>3. x # NoFs
      BY <1>0, <2>2 DEF NoFs
    <2> QED BY <2>2, <2>3 DEF FsStructs, Empty
  <1>2. G \in [Procs -> FsStructs]
    BY <1>0, <1>1
  <1>3. Move(t, v, Root, 1, 0) /\ v.ret = t.ret /\ v.at = t.at
    <2>1. Referred(t, Root) /\ t.node[Root].ref > 0
      BY <1>0, ReferredFacts
    <2> QED BY <1>0, <2>1, RefInc
  <1>4. Move(s, v, Root, 2, 0)
    <2>1. Move(s, v, Root, 1 + 1, 0 + 0)
      BY <1>0, <1>3, Moves
    <2> QED BY <2>1
  <1>5. v \in States /\ v.fs = s.fs /\ v.bootfs = s.bootfs /\ v.leaked = s.leaked /\ Live(v)
    BY <1>4 DEF Move, Live, Frame
  <1>6. w = [v EXCEPT !.fs = G]
    <2>1. [v.fs EXCEPT ![p].pwd = Root] = G
      BY <1>5
    <2>2. w = [v EXCEPT !.fs = [v.fs EXCEPT ![p].pwd = Root]]
      BY <1>5 DEF Rooted, States
    <2> QED BY <2>1, <2>2
  <1> HIDE DEF v, x, w, G
  <1>7. /\ w \in States /\ w.fs = G /\ w.node = v.node /\ w.hash = v.hash /\ w.disk = v.disk
        /\ w.leaked = v.leaked /\ w.bootfs = v.bootfs /\ w.panic = v.panic
        /\ w.ret = v.ret /\ w.at = v.at
    BY <1>2, <1>5, <1>6 DEF States
  <1>8. Live(w)
    BY <1>5, <1>7 DEF Live, Sane, InodeSane
  <1>9. Move(w, u, Root, -1, 0) /\ u.ret = w.ret /\ u.at = w.at
    <2>1. Referred(v, Root)
      BY <1>0, <1>3, ReferredFacts
    <2>2. Referred(w, Root)
      BY <1>7, <2>1 DEF Referred
    <2> QED BY <1>0, <1>8, <2>2, RefDec DEF Referred
  <1> HIDE DEF u
  <1>10. u \in States /\ u.fs = G /\ u.bootfs = s.bootfs /\ u.leaked = s.leaked /\ Live(u)
    BY <1>5, <1>7, <1>9 DEF Move, Live, Frame
  <1>11. /\ u0 \in States /\ u0.fs = s.fs /\ u0.node = u.node /\ u0.hash = u.hash
         /\ u0.disk = u.disk /\ u0.leaked = u.leaked /\ u0.bootfs = u.bootfs
         /\ u0.panic = u.panic /\ u0.ret = u.ret /\ u0.at = u.at
    BY <1>0, <1>10 DEF States
  <1>12. u = Swapped(u0, p, x)
    <2>1. Swapped(u0, p, x) = [u0 EXCEPT !.fs = G]
      <3>1. Swapped(u0, p, x) = [u0 EXCEPT !.fs = [u0.fs EXCEPT ![p] = x]]
        BY <1>11 DEF Swapped, States
      <3> QED BY <1>11, <3>1 DEF G
    <2>2. [u0 EXCEPT !.fs = G] = u
      <3>1. [[u EXCEPT !.fs = s.fs] EXCEPT !.fs = u.fs] = u
        BY <1>10 DEF States
      <3> QED BY <1>10, <3>1
    <2> QED BY <2>1, <2>2
  <1> HIDE DEF u0
  <1>13. Live(u0)
    BY <1>10, <1>11 DEF Live, Sane, InodeSane
  <1>14. Balance(s, u0, None, None, s.fs[p].pwd, x.pwd)
    <2> SUFFICES ASSUME NEW j \in Nodes
                 PROVE  /\ u0.node[j].open = s.node[j].open
                        /\ Rest(u0, j) - Rest(s, j)
                              = One(j = None) - One(j = None) + One(x.pwd = j) - One(s.fs[p].pwd = j)
      BY DEF Balance
    <2>1. /\ v.node[j].ref = s.node[j].ref + (IF j = Root THEN 2 ELSE 0)
          /\ v.node[j].open = s.node[j].open + (IF j = Root THEN 0 ELSE 0)
          /\ u.node[j].ref = w.node[j].ref + (IF j = Root THEN -1 ELSE 0)
          /\ u.node[j].open = w.node[j].open + (IF j = Root THEN 0 ELSE 0)
      BY <1>4, <1>9 DEF Move
    <2>2. /\ s.node[j].ref \in Int /\ s.node[j].open \in Int /\ s.leaked[j] \in Int /\ j # None
      BY <1>0 DEF Live, States, NodeRecs
    <2>3. /\ u0.node[j].ref = s.node[j].ref + (IF j = Root THEN 1 ELSE 0)
          /\ u0.node[j].open = s.node[j].open /\ u0.leaked[j] = s.leaked[j]
      BY <1>7, <1>10, <1>11, <2>1, <2>2
    <2>4. x.pwd = Root /\ s.fs[p].pwd = None
      BY <1>1
    <2> QED BY <2>2, <2>3, <2>4 DEF Rest, One
  <1>15. Swap(s, u0, u, p, x, None)
    <2>1. u0.fs = s.fs /\ u0.bootfs = s.bootfs
      BY <1>10, <1>11
    <2> QED BY <1>1, <1>12, <1>13, <1>14, <2>1, SwapFacts
  <1>16. Kept(s, u)
    <2>1. ASSUME NEW j \in Regs PROVE HoldsIn(u, j) = HoldsIn(s, j)
      <3>1. HoldsIn(u, j) = HoldsIn(w, j) /\ HoldsIn(v, j) = HoldsIn(s, j)
        BY <1>4, <1>9 DEF Move
      <3> QED BY <1>7, <3>1 DEF HoldsIn
    <2> QED BY <1>10, <2>1 DEF Kept, OnlyHolds
  <1> QED BY <1>3, <1>7, <1>9, <1>10, <1>15, <1>16 DEF Swap, u, w, G, x

\* What SetBootfs does.
Booted(s, p, oom) ==
    LET Set(t) == IF Ok(t) THEN [t EXCEPT !.bootfs = t.at]
                  ELSE Check(t, FALSE, "set_bootfs")
        Of(t) == IF Ok(t) THEN get_curdir(t, p) ELSE t
    IN  Set(Of(chdir(s, p, [from |-> "disk0", name |-> ""], oom)))
LEMMA BootedFacts ==
    ASSUME NEW s, Good(s, None), s.ret = "ok", s.bootfs = None, NEW p \in Procs,
           s.fs[p] # NoFs, s.fs[p].pwd = None, Empty(s.fs[p]), NEW oom
    PROVE  LET r == Booted(s, p, oom)
           IN  \/ Stopped(r)
               \/ /\ Good(r, None) /\ OnlyHolds(s, r, None, FALSE) /\ r.bootfs # None
                  /\ r.fs = [s.fs EXCEPT ![p] = [s.fs[p] EXCEPT !.pwd = Root]]
  <1> DEFINE path == [from |-> "disk0", name |-> ""]
             t == get_root(s, oom)
             v == Rooted(t, p)
             u == ref_dec(v, Root)
             c == chdir(s, p, path, oom)
             g == get_curdir(u, p)
             r == Booted(s, p, oom)
  <1>0. /\ Root \in Dirs /\ Root \in Nodes /\ None \notin Nodes /\ Live(s)
        /\ s.fs \in [Procs -> FsStructs]
    <2>1. Root \in Dirs /\ None \notin Nodes
      BY FilesAssumption, Zenon
    <2> QED BY <2>1 DEF Good, Live, States, Nodes, Sfs
  <1>1. c = IF Ok(t) THEN ref_dec(set_curdir(t, p, t.at), t.at) ELSE t
    <2>1. get_device(s, p, path.from, oom) = t
      <3>1. path.from = "disk0"
        OBVIOUS
      <3> HIDE DEF path
      <3> QED BY <3>1 DEF get_device
    <2>2. vfs_lookup(s, p, path, oom) = t
      <3>1. path.name = ""
        OBVIOUS
      <3> HIDE DEF path, t
      <3> QED BY <2>1, <3>1 DEF vfs_lookup
    <2> HIDE DEF path, t
    <2> QED BY <2>2, Zenon DEF chdir
  <1>2. r = LET Set(y) == IF Ok(y) THEN [y EXCEPT !.bootfs = y.at]
                          ELSE Check(y, FALSE, "set_bootfs")
                Of(y) == IF Ok(y) THEN get_curdir(y, p) ELSE y
            IN  Set(Of(c))
    BY Zenon DEF Booted
  <1> HIDE DEF t, c, r, path
  <1>3. Stopped(t) \/ (Got(s, t) /\ t.ret = "ok" /\ t.at = Root)
    BY <1>0, GetRoot DEF t
  <1>4. CASE Stopped(t)
    <2>1. ~Ok(t) /\ \A e, name : Check(t, e, name) = t
      BY <1>4, StoppedChanges
    <2>2. c = t
      BY <1>1, <2>1
    <2>3. r = t
      BY <1>2, <2>1, <2>2
    <2> QED BY <1>4, <2>3 DEF r
  <1>5. CASE Got(s, t) /\ t.ret = "ok" /\ t.at = Root
    <2>1. Move(s, t, Root, 1, 0) /\ Live(t) /\ t.fs = s.fs
      BY <1>5 DEF Got, Move, Frame
    <2>2. Ok(t)
      BY <1>5, <2>1 DEF Live, Ok
    <2>3. set_curdir(t, p, Root) = v
      <3>1. t.fs[p].pwd = None /\ Root # None
        BY <1>0, <2>1
      <3> QED BY <1>0, <3>1, Zenon DEF set_curdir, Rooted
    <2>4. c = u
      BY <1>1, <1>5, <2>2, <2>3
    <2>5. /\ Good(u, None) /\ Kept(s, u) /\ u.ret = "ok"
          /\ u.fs = [s.fs EXCEPT ![p] = [s.fs[p] EXCEPT !.pwd = Root]]
      BY <1>5, <2>1, RootedFacts
    <2> HIDE DEF u
    <2>6. Live(u) /\ Anchored(u) /\ Ok(u) /\ u.bootfs = None
      BY <2>5, GoodAnchored DEF Good, Live, Ok, Kept
    <2>7. u.fs[p].pwd = Root
      <3>1. s.fs[p] \in [pwd : Dirs \union {None}, filemap : [Fds -> Entries]]
        BY <1>0 DEF FsStructs
      <3> QED BY <1>0, <2>5, <3>1
    <2>8. Got(u, g) /\ g.ret = "ok" /\ g.at = Root
      <3>1. Root # None
        BY <1>0
      <3> QED BY <2>5, <2>6, <2>7, <3>1, GetCurdir
    <2>9. Move(u, g, Root, 1, 0) /\ Ok(g)
      BY <2>8 DEF Got, Move, Live, Ok
    <2> HIDE DEF g
    <2>10. r = [g EXCEPT !.bootfs = Root]
      BY <1>2, <2>4, <2>6, <2>8, <2>9 DEF g
    <2>11. g \in States /\ g.fs = u.fs /\ g.leaked = u.leaked /\ g.bootfs = None /\ Live(g)
      BY <2>6, <2>9 DEF Move, Live, Frame
    <2>12. /\ r \in States /\ r.fs = u.fs /\ r.node = g.node /\ r.hash = g.hash /\ r.disk = g.disk
           /\ r.leaked = u.leaked /\ r.bootfs = Root /\ r.panic = g.panic
      BY <1>0, <2>10, <2>11 DEF States
    <2>13. Live(r)
      BY <2>11, <2>12 DEF Live, Sane, InodeSane
    <2>14. ASSUME NEW j \in Nodes
           PROVE  /\ r.node[j].open = Cardinality(Uses(r.fs, j))
                  /\ Rest(r, j) + One(j = None)
                        = Cardinality(Pwds(r.fs, j)) + One(r.bootfs = j) + Base(j)
      <3>1. /\ u.node[j].open = Cardinality(Uses(u.fs, j))
            /\ Rest(u, j) + One(j = None)
                  = Cardinality(Pwds(u.fs, j)) + One(u.bootfs = j) + Base(j)
        BY <2>5 DEF Good
      <3>2. /\ r.node[j].ref = u.node[j].ref + (IF j = Root THEN 1 ELSE 0)
            /\ r.node[j].open = u.node[j].open + (IF j = Root THEN 0 ELSE 0)
        BY <2>9, <2>12 DEF Move
      <3>3. u.node[j].ref \in Int /\ u.node[j].open \in Int /\ u.leaked[j] \in Int /\ j # None
        BY <1>0, <2>6 DEF Live, States, NodeRecs
      <3>4. Cardinality(Pwds(u.fs, j)) \in Int /\ Base(j) \in Int
        BY TablesFinite DEF Base
      <3>5. r.fs = u.fs /\ r.bootfs = Root /\ u.bootfs = None /\ r.leaked[j] = u.leaked[j]
        BY <2>6, <2>12
      <3>6. Rest(r, j) = Rest(u, j) + (IF j = Root THEN 1 ELSE 0) /\ Rest(u, j) \in Int
        BY <3>2, <3>3, <3>5 DEF Rest
      <3>7. r.node[j].open = u.node[j].open
        BY <3>2, <3>3
      <3> QED BY <3>1, <3>3, <3>4, <3>5, <3>6, <3>7 DEF One
    <2>15. Tables(r.fs)
      BY <2>5, <2>12 DEF Good
    <2>16. Good(r, None)
      BY <2>13, <2>14, <2>15 DEF Good
    <2>17. OnlyHolds(s, r, None, FALSE)
      <3>1. ASSUME NEW j \in Regs PROVE HoldsIn(r, j) = HoldsIn(s, j)
        <4>1. HoldsIn(g, j) = HoldsIn(u, j) /\ HoldsIn(u, j) = HoldsIn(s, j)
          BY <2>5, <2>9, KeptFacts DEF Move
        <4> QED BY <2>12, <4>1 DEF HoldsIn
      <3> QED BY <3>1 DEF OnlyHolds
    <2>18. r.bootfs # None
      BY <1>0, <2>12
    <2> QED BY <2>5, <2>12, <2>16, <2>17, <2>18 DEF r
  <1> QED BY <1>3, <1>4, <1>5

-----------------------------------------------------------------------------
(* The invariant                                                           *)

\* The state of the file system; that the kernel has stopped is not part of it.
Calm == [node |-> node, hash |-> hash, disk |-> disk,
         super_dirty |-> super_dirty, fs |-> fs, bootfs |-> bootfs,
         leaked |-> leaked, panic |-> "none", ret |-> "ok", at |-> None]

\* An entry in use, with count uses: the descriptor's own and that of a read
\* that sleeps.
Used(e, n) == e.status = "OPENED" /\ e.node \in Nodes /\ e.count = n
Neat(x) == \A d \in Fds : x.filemap[d] = NoFile \/ Idle(x.filemap[d])

Settled(F, R) ==
    /\ R \in [Procs -> Fds \union {None}]
    /\ F[InitProc] # NoFs
    /\ \A p \in Procs : R[p] # None => /\ p # InitProc /\ F[p] # NoFs
                                       /\ Used(F[p].filemap[R[p]], 2)
    /\ \A p \in Procs : F[p] # NoFs =>
         \A d \in Fds : d # R[p] => F[p].filemap[d] = NoFile \/ Idle(F[p].filemap[d])

Early ==
    /\ phase \in {"boot", "booted", "running", "cleaned"}
    /\ phase = "boot" => bootfs = None /\ fs[InitProc] = NewFs
    /\ phase \in {"boot", "booted"} => \A p \in Procs \ {InitProc} : fs[p] = NoFs

FilesInv ==
    /\ Good(Calm, None) /\ panic \in {"none"} \union MayStop
    /\ Settled(fs, reading) /\ Early

LEMMA GoodSame ==
    ASSUME NEW s, NEW k, Good(s, k), NEW t \in States, t.panic = "none",
           t.node = s.node, t.hash = s.hash, t.disk = s.disk,
           t.fs = s.fs, t.bootfs = s.bootfs, t.leaked = s.leaked
    PROVE  Good(t, k)
  <1>1. Live(t)
    BY DEF Good, Live, Sane, InodeSane
  <1> QED BY <1>1 DEF Good, Rest

LEMMA NowCalm ==
    ASSUME panic = "none"
    PROVE  /\ Now = Calm /\ Now.ret = "ok" /\ Now.fs = fs /\ Now.bootfs = bootfs
           /\ \A j \in Regs : HoldsIn(Now, j) = Holds(j)
  BY DEF Now, Calm, HoldsIn, Holds

SameData == \A j \in Regs : Holds(j)' = Holds(j)
Sound == Good(Calm, None) /\ panic \in {"none"} \union MayStop

\* A call leaves the state it has computed, or the state before it.
LEMMA FinishFacts ==
    ASSUME FilesInv, panic = "none", NEW t, Finish(t), Stopped(t) \/ Good(t, None)
    PROVE  /\ Sound'
           /\ \/ Stopped(t) /\ fs' = fs /\ bootfs' = bootfs /\ SameData
              \/ /\ Good(t, None) /\ fs' = t.fs /\ bootfs' = t.bootfs
                 /\ \A j \in Regs : Holds(j)' = HoldsIn(t, j)
  <1>1. CASE Stopped(t)
    <2>1. t.panic # "none" /\ panic' \in MayStop
      BY <1>1 DEF Stopped, MayStop, Finish
    <2>2. /\ node' = node /\ hash' = hash /\ disk' = disk /\ super_dirty' = super_dirty
          /\ fs' = fs /\ bootfs' = bootfs /\ leaked' = leaked
      BY <2>1 DEF Finish, Now
    <2>3. Calm' = Calm
      BY <2>2 DEF Calm
    <2>4. Good(Calm', None)
      BY <2>3 DEF FilesInv
    <2>5. SameData
      BY <2>2 DEF SameData, Holds
    <2> QED BY <1>1, <2>1, <2>2, <2>4, <2>5 DEF Sound
  <1>2. CASE Good(t, None)
    <2>1. t \in States /\ t.panic = "none"
      BY <1>2 DEF Good, Live
    <2>2. /\ node' = t.node /\ hash' = t.hash /\ disk' = t.disk
          /\ super_dirty' = t.super_dirty
          /\ fs' = t.fs /\ bootfs' = t.bootfs /\ leaked' = t.leaked /\ panic' = "none"
      BY <2>1 DEF Finish
    <2>3. PICK c : c = Calm'
      OBVIOUS
    <2>4. Good(Calm', None)
      <3>1. /\ c.node = t.node /\ c.hash = t.hash /\ c.disk = t.disk /\ c.fs = t.fs
            /\ c.bootfs = t.bootfs /\ c.leaked = t.leaked /\ c.panic = "none"
        BY <2>2, <2>3 DEF Calm
      <3>2. c \in States
        <4>1. c = [node |-> t.node, hash |-> t.hash, disk |-> t.disk,
                   super_dirty |-> t.super_dirty, fs |-> t.fs, bootfs |-> t.bootfs,
                   leaked |-> t.leaked, panic |-> t.panic, ret |-> "ok", at |-> None]
          BY <2>1, <2>2, <2>3, Zenon DEF Calm
        <4>2. "ok" \in Rets /\ None \in Nodes \union {None}
          BY DEF Rets
        <4> QED BY <2>1, <4>1, <4>2 DEF States
      <3>3. Good(c, None)
        BY <1>2, <3>1, <3>2, GoodSame
      <3> QED BY <2>3, <3>3
    <2>5. \A j \in Regs : Holds(j)' = HoldsIn(t, j)
      BY <2>2 DEF Holds, HoldsIn
    <2> QED BY <1>2, <2>2, <2>4, <2>5 DEF Sound
  <1> QED BY <1>1, <1>2

LEMMA SettledStep ==
    ASSUME NEW F, NEW G, NEW R, Settled(F, R), NEW p \in Procs, R[p] = None, G[InitProc] # NoFs,
           \A q \in Procs \ {p} : G[q] = F[q], G[p] # NoFs => Neat(G[p])
    PROVE  Settled(G, R)
  BY Sizes DEF Settled, Neat

LEMMA InUserFacts ==
    ASSUME FilesInv, NEW p \in Procs, InUser(p)
    PROVE  /\ panic = "none" /\ Good(Now, None) /\ Now.ret = "ok" /\ Now.fs = fs
           /\ Now.bootfs = bootfs /\ \A j \in Regs : HoldsIn(Now, j) = Holds(j)
           /\ fs[p] # NoFs /\ p # InitProc /\ reading[p] = None
           /\ Neat(fs[p]) /\ Tidy(Now, p)
           /\ \A d \in Fds : IsOpen(p, d) => Idle(fs[p].filemap[d])
  <1>1. /\ panic = "none" /\ fs[p] # NoFs /\ p # InitProc /\ reading[p] = None
    BY DEF InUser
  <1>2. Now = Calm /\ Now.ret = "ok" /\ Now.fs = fs /\ Now.bootfs = bootfs
        /\ \A j \in Regs : HoldsIn(Now, j) = Holds(j)
    BY <1>1, NowCalm
  <1>3. Good(Now, None)
    BY <1>2 DEF FilesInv
  <1>4. \A d \in Fds : d # None
    <2>1. None \notin Fds
      BY FilesAssumption, Zenon
    <2> QED BY <2>1
  <1>5. Neat(fs[p])
    BY <1>1, <1>4 DEF FilesInv, Settled, Neat
  <1>6. Tidy(Now, p)
    BY <1>2, <1>5 DEF Tidy, Neat
  <1>7. \A d \in Fds : IsOpen(p, d) => Idle(fs[p].filemap[d])
    BY <1>5 DEF Neat, IsOpen, NoFile
  <1> QED BY <1>1, <1>2, <1>3, <1>5, <1>6, <1>7

\* A system call changes the table of one user process r at most.
LEMMA UserStep ==
    ASSUME FilesInv, NEW p \in Procs, p # InitProc, fs[p] # NoFs, Sound',
           UNCHANGED <<reading, phase>>,
           NEW r \in Procs, r # InitProc, reading[r] = None,
           \A q \in Procs \ {r} : fs'[q] = fs[q], fs'[r] # NoFs => Neat(fs'[r])
    PROVE  FilesInv'
  <1>1. Settled(fs', reading)
    <2>1. Settled(fs, reading)
      BY DEF FilesInv
    <2>2. fs'[InitProc] # NoFs
      BY <2>1, Sizes DEF Settled
    <2> QED BY <2>1, <2>2, SettledStep
  <1>2. Settled(fs', reading')
    BY <1>1
  <1>3. Early'
    BY DEF FilesInv, Early
  <1> QED BY <1>2, <1>3 DEF FilesInv, Sound

LEMMA StayStep ==
    ASSUME FilesInv, NEW p \in Procs, InUser(p), Sound', UNCHANGED <<reading, phase>>,
           fs' = fs
    PROVE  FilesInv'
  <1>1. fs[p] # NoFs /\ p # InitProc /\ reading[p] = None /\ Neat(fs[p])
    BY InUserFacts
  <1> QED BY <1>1, UserStep

-----------------------------------------------------------------------------
(* What each call does to the tables and to what files hold                *)

OnlyData(i, full) == \A j \in Regs : Holds(j)' # Holds(j) => j = i /\ Holds(j)' = full
Others(p) == \A q \in Procs \ {p} : fs'[q] = fs[q]

Stays == fs' = fs /\ SameData
Opens(p) ==
    \E d \in Fds, e \in Entries :
       /\ fs[p].filemap[d] = NoFile /\ \A c \in 0 .. d - 1 : fs[p].filemap[c] # NoFile
       /\ Idle(e) /\ Sets(fs, fs', p, d, e) /\ OnlyData(e.node, FALSE)
Uses1(p) ==
    \E d \in Fds : /\ Idle(fs[p].filemap[d])
                   /\ Sets(fs, fs', p, d, fs[p].filemap[d])
                   /\ OnlyData(fs[p].filemap[d].node, TRUE)
Dups(p) ==
    \E d, e \in Fds : /\ Idle(fs[p].filemap[d]) /\ fs[p].filemap[e] = NoFile
                      /\ Sets(fs, fs', p, e, fs[p].filemap[d]) /\ SameData
Closes(p) ==
    /\ Others(p) /\ SameData
    /\ \/ fs'[p] = NoFs
       \/ fs'[p] # NoFs /\ \A d \in Fds : fs'[p].filemap[d] \in {fs[p].filemap[d], NoFile}
Forks(p, q) ==
    /\ fs[q] = NoFs /\ fs'[q] # NoFs /\ Others(q) /\ SameData
    /\ \A d \in Fds : fs'[q].filemap[d] = fs[p].filemap[d]

LEMMA SetsNeat ==
    ASSUME NEW F, NEW G, NEW p, Neat(F[p]), NEW d \in Fds, NEW e, e = NoFile \/ Idle(e),
           Sets(F, G, p, d, e)
    PROVE  Neat(G[p])
  BY DEF Sets, Neat

LEMMA CallFacts ==
    ASSUME NEW t, Call(t)
    PROVE  Finish(t) /\ UNCHANGED <<reading, phase>>
  BY DEF Call

LEMMA OpenStep ==
    ASSUME FilesInv, NEW p \in Procs, Open(p)
    PROVE  FilesInv' /\ (Stays \/ Opens(p))
  <1>0. InUser(p)
    BY DEF Open
  <1>a. PICK path \in Paths : \E flags \in OpenFlags, oom \in Allocs(path) :
             Call(file_open(Now, p, path, flags, oom))
    BY Zenon DEF Open
  <1>1. PICK flags \in OpenFlags, oom \in Allocs(path) : Call(file_open(Now, p, path, flags, oom))
    BY <1>a
  <1> DEFINE t == file_open(Now, p, path, flags, oom)
  <1>2. /\ panic = "none" /\ Good(Now, None) /\ Now.ret = "ok" /\ Now.fs = fs
        /\ \A j \in Regs : HoldsIn(Now, j) = Holds(j)
        /\ fs[p] # NoFs /\ p # InitProc /\ reading[p] = None /\ Neat(fs[p])
    BY <1>0, InUserFacts
  <1>3. Stopped(t) \/ OpenDone(Now, t, p, flags)
    BY <1>2, FileOpen
  <1> HIDE DEF t
  <1>4. Finish(t) /\ UNCHANGED <<reading, phase>>
    BY <1>1, CallFacts DEF t
  <1>5. Stopped(t) \/ Good(t, None)
    BY <1>3 DEF OpenDone
  <1>6. /\ Sound'
        /\ \/ Stopped(t) /\ fs' = fs /\ bootfs' = bootfs /\ SameData
           \/ /\ Good(t, None) /\ fs' = t.fs /\ bootfs' = t.bootfs
              /\ \A j \in Regs : Holds(j)' = HoldsIn(t, j)
    BY <1>2, <1>4, <1>5, FinishFacts
  <1>7. CASE Stopped(t) /\ fs' = fs /\ SameData
    BY <1>0, <1>4, <1>6, <1>7, StayStep DEF Stays
  <1>8. CASE Good(t, None) /\ fs' = t.fs /\ \A j \in Regs : Holds(j)' = HoldsIn(t, j)
    <2>1. OpenDone(Now, t, p, flags)
      BY <1>3, <1>8 DEF Stopped, MayStop, Good, Live
    <2>2. CASE t.ret # "ok"
      <3>1. fs' = fs /\ Kept(Now, t)
        BY <1>2, <1>8, <2>1, <2>2 DEF OpenDone
      <3>2. SameData
        BY <1>2, <1>8, <3>1, KeptFacts DEF SameData
      <3> QED BY <1>0, <1>4, <1>6, <3>1, <3>2, StayStep DEF Stays
    <2>3. CASE t.ret = "ok"
      <3>1. PICK d \in Fds, e \in Entries : OpenAt(Now, t, p, flags, d, e)
        BY <2>1, <2>3 DEF OpenDone
      <3>2. /\ fs[p].filemap[d] = NoFile /\ \A c \in 0 .. d - 1 : fs[p].filemap[c] # NoFile
            /\ Idle(e) /\ e.node = t.at /\ Sets(fs, fs', p, d, e)
            /\ OnlyHolds(Now, t, t.at, FALSE)
        BY <1>2, <1>8, <3>1 DEF OpenAt
      <3>3. OnlyData(e.node, FALSE)
        BY <1>2, <1>8, <3>2 DEF OnlyData, OnlyHolds
      <3>4. Neat(fs'[p])
        BY <1>2, <3>2, SetsNeat
      <3>5. FilesInv'
        <4>1. \A q \in Procs \ {p} : fs'[q] = fs[q]
          BY <3>2 DEF Sets
        <4> QED BY <1>2, <1>4, <1>6, <3>4, <4>1, UserStep
      <3> QED BY <3>2, <3>3, <3>5 DEF Opens
    <2> QED BY <2>2, <2>3
  <1> QED BY <1>6, <1>7, <1>8

\* A call that did not stop the kernel leaves t.
Returns(t) ==
    /\ Sound' /\ UNCHANGED <<reading, phase>> /\ Good(t, None) /\ fs' = t.fs
    /\ \A j \in Regs : Holds(j)' = HoldsIn(t, j)
LEMMA CallStep ==
    ASSUME FilesInv, NEW p \in Procs, InUser(p), NEW t, Call(t), Stopped(t) \/ Good(t, None)
    PROVE  (FilesInv' /\ Stays) \/ Returns(t)
  <1>1. Finish(t) /\ UNCHANGED <<reading, phase>>
    BY CallFacts
  <1>2. panic = "none"
    BY DEF InUser
  <1>3. /\ Sound'
        /\ \/ Stopped(t) /\ fs' = fs /\ bootfs' = bootfs /\ SameData
           \/ /\ Good(t, None) /\ fs' = t.fs /\ bootfs' = t.bootfs
              /\ \A j \in Regs : Holds(j)' = HoldsIn(t, j)
    BY <1>1, <1>2, FinishFacts
  <1>4. CASE Stopped(t) /\ fs' = fs /\ SameData
    BY <1>1, <1>3, <1>4, StayStep DEF Stays
  <1>5. CASE Good(t, None) /\ fs' = t.fs /\ \A j \in Regs : Holds(j)' = HoldsIn(t, j)
    BY <1>1, <1>3, <1>5 DEF Returns
  <1> QED BY <1>3, <1>4, <1>5

LEMMA KeptData ==
    ASSUME FilesInv, NEW p \in Procs, InUser(p), NEW t, Returns(t), Kept(Now, t)
    PROVE  SameData
  BY InUserFacts, KeptFacts DEF SameData, Returns

LEMMA SetsStep ==
    ASSUME FilesInv, NEW p \in Procs, InUser(p), NEW t, Returns(t), NEW d \in Fds, NEW e,
           e = NoFile \/ Idle(e), Sets(fs, t.fs, p, d, e)
    PROVE  FilesInv' /\ Sets(fs, fs', p, d, e)
  <1>1. fs[p] # NoFs /\ p # InitProc /\ reading[p] = None /\ Neat(fs[p])
    BY InUserFacts
  <1>2. Sets(fs, fs', p, d, e) /\ Sound' /\ UNCHANGED <<reading, phase>>
    BY DEF Returns
  <1>3. Neat(fs'[p]) /\ \A q \in Procs \ {p} : fs'[q] = fs[q]
    BY <1>1, <1>2, SetsNeat DEF Sets
  <1>4. FilesInv'
    BY <1>1, <1>2, <1>3, UserStep
  <1> QED BY <1>2, <1>4

LEMMA CloseStep ==
    ASSUME FilesInv, NEW p \in Procs, Close(p)
    PROVE  FilesInv' /\ (Stays \/ Closes(p))
  <1>1. InUser(p)
    BY DEF Close
  <1>2. PICK d \in Fds : IsOpen(p, d) /\ Call(filemap_close(Now, p, d))
    BY DEF Close
  <1> DEFINE t == filemap_close(Now, p, d)
  <1>3. Good(Now, None) /\ Now.fs = fs /\ fs[p] # NoFs /\ Idle(fs[p].filemap[d])
    BY <1>1, <1>2, InUserFacts
  <1>4. Good(t, None) /\ Sets(fs, t.fs, p, d, NoFile) /\ Kept(Now, t)
    BY <1>3, FilemapClose
  <1> HIDE DEF t
  <1>5. (FilesInv' /\ Stays) \/ Returns(t)
    BY <1>1, <1>2, <1>4, CallStep DEF t
  <1>6. CASE Returns(t)
    <2>1. FilesInv' /\ Sets(fs, fs', p, d, NoFile)
      BY <1>1, <1>4, <1>6, SetsStep
    <2>2. SameData
      BY <1>1, <1>4, <1>6, KeptData
    <2> QED BY <2>1, <2>2 DEF Closes, Others, Sets
  <1> QED BY <1>5, <1>6

\* Every call on one descriptor.
LEMMA UseStep ==
    ASSUME FilesInv, NEW p \in Procs, InUser(p), NEW d \in Fds, IsOpen(p, d), NEW op,
           NEW longer \in BOOLEAN, Call(With(Now, p, d, op, longer))
    PROVE  FilesInv' /\ (Stays \/ Uses1(p))
  <1> DEFINE t == With(Now, p, d, op, longer)
  <1>1. /\ Good(Now, None) /\ Now.fs = fs /\ fs[p] # NoFs /\ Idle(fs[p].filemap[d])
        /\ Now.ret = "ok" /\ \A j \in Regs : HoldsIn(Now, j) = Holds(j)
    BY InUserFacts
  <1>2. Stopped(t) \/ UseDone(Now, t, p, d)
    BY <1>1, WithFacts
  <1> HIDE DEF t
  <1>3. (FilesInv' /\ Stays) \/ Returns(t)
    BY <1>2, CallStep DEF UseDone, t
  <1>4. CASE Returns(t)
    <2>1. UseDone(Now, t, p, d)
      BY <1>2, <1>4 DEF Returns, Good, Live, Stopped, MayStop
    <2>2. Sets(fs, t.fs, p, d, fs[p].filemap[d])
      BY <1>1, <2>1 DEF UseDone
    <2>3. FilesInv' /\ Sets(fs, fs', p, d, fs[p].filemap[d])
      BY <1>1, <1>4, <2>2, SetsStep
    <2>4. OnlyHolds(Now, t, fs[p].filemap[d].node, TRUE)
      BY <1>1, <2>1 DEF UseDone
    <2>5. OnlyData(fs[p].filemap[d].node, TRUE)
      BY <1>1, <1>4, <2>4 DEF OnlyHolds, OnlyData, Returns
    <2> QED BY <1>1, <2>3, <2>5 DEF Uses1
  <1> QED BY <1>3, <1>4

LEMMA FileStep ==
    ASSUME FilesInv, NEW p \in Procs,
           Write(p) \/ Read(p) \/ Seek(p) \/ Fstat(p) \/ Fsync(p) \/ Getdirentry(p)
    PROVE  FilesInv' /\ (Stays \/ Uses1(p))
  <1>1. PICK d \in Fds, op \in {"write", "read", "tryseek", "fstat", "fsync", "getdirentry"},
             longer \in BOOLEAN :
             InUser(p) /\ IsOpen(p, d) /\ Call(With(Now, p, d, op, longer))
    <2>1. CASE Write(p)
      BY <2>1 DEF Write
    <2>2. CASE Read(p)
      BY <2>2 DEF Read
    <2>3. CASE Seek(p)
      BY <2>3 DEF Seek
    <2>4. CASE Fstat(p)
      BY <2>4 DEF Fstat
    <2>5. CASE Fsync(p)
      BY <2>5 DEF Fsync
    <2>6. CASE Getdirentry(p)
      BY <2>6 DEF Getdirentry
    <2> QED BY <2>1, <2>2, <2>3, <2>4, <2>5, <2>6
  <1> QED BY <1>1, UseStep

LEMMA DupStep ==
    ASSUME FilesInv, NEW p \in Procs, Dup(p)
    PROVE  FilesInv' /\ (Stays \/ Dups(p))
  <1>1. InUser(p)
    BY DEF Dup
  <1>2. PICK d \in Fds, e \in Fds :
             /\ IsOpen(p, d) /\ fs[p].filemap[e].status = "NONE"
             /\ Call(filemap_dup(Now, p, e, fs[p].filemap[d]))
    BY DEF Dup
  <1> DEFINE f == fs[p].filemap[d]
             t == filemap_dup(Now, p, e, f)
  <1>3. Good(Now, None) /\ Now.fs = fs /\ fs[p] # NoFs /\ Idle(f) /\ Neat(fs[p])
    BY <1>1, <1>2, InUserFacts
  <1>4. fs[p].filemap[e] = NoFile
    BY <1>2, <1>3 DEF Neat, Idle
  <1>5. f \in Entries /\ f.node \in Nodes
    BY <1>3, EntryType DEF Idle
  <1>6. Now.node[f.node].open > 0
    BY <1>3, <1>5, EntryOpen
  <1> HIDE DEF f
  <1>7. Good(t, None) /\ Sets(fs, t.fs, p, e, f) /\ Kept(Now, t)
    BY <1>3, <1>4, <1>5, <1>6, FilemapDup
  <1> HIDE DEF t
  <1>8. (FilesInv' /\ Stays) \/ Returns(t)
    BY <1>1, <1>2, <1>7, CallStep DEF t, f
  <1>9. CASE Returns(t)
    <2>1. FilesInv' /\ Sets(fs, fs', p, e, f)
      BY <1>1, <1>3, <1>7, <1>9, SetsStep
    <2>2. SameData
      BY <1>1, <1>7, <1>9, KeptData
    <2> QED BY <1>3, <1>4, <2>1, <2>2 DEF Dups, f
  <1> QED BY <1>8, <1>9

LEMMA GetcwdStep ==
    ASSUME FilesInv, NEW p \in Procs, Getcwd(p)
    PROVE  FilesInv' /\ Stays
  <1>1. InUser(p)
    BY DEF Getcwd
  <1>2. PICK oom \in {"none", "entry", "dirent", "inode"} : Call(getcwd(Now, p, oom))
    BY DEF Getcwd
  <1> DEFINE t == getcwd(Now, p, oom)
  <1>3. Good(Now, None) /\ Now.fs = fs /\ Now.ret = "ok"
    BY <1>1, InUserFacts
  <1>4. Good(t, None) /\ t.fs = fs /\ Kept(Now, t)
    BY <1>3, GetcwdFacts
  <1> HIDE DEF t
  <1>5. (FilesInv' /\ Stays) \/ Returns(t)
    BY <1>1, <1>2, <1>4, CallStep DEF t
  <1>6. CASE Returns(t)
    <2>1. fs' = fs /\ SameData
      BY <1>1, <1>4, <1>6, KeptData DEF Returns
    <2>2. FilesInv'
      BY <1>1, <1>6, <2>1, StayStep DEF Returns
    <2> QED BY <2>1, <2>2 DEF Stays
  <1> QED BY <1>5, <1>6

\* Processes other than p keep their tables; p has lost descriptors, or all.
Gone(s, r, p) ==
    /\ Good(r, None) /\ Kept(s, r) /\ \A q \in Procs \ {p} : r.fs[q] = s.fs[q]
    /\ \/ r.fs[p] = NoFs
       \/ /\ r.fs[p] # NoFs
          /\ \A d \in Fds : r.fs[p].filemap[d] \in {s.fs[p].filemap[d], NoFile}

LEMMA GoneStep ==
    ASSUME FilesInv, NEW p \in Procs, InUser(p), NEW t, Call(t), Stopped(t) \/ Gone(Now, t, p)
    PROVE  FilesInv' /\ (Stays \/ Closes(p))
  <1>1. /\ Now.fs = fs /\ fs[p] # NoFs /\ p # InitProc /\ reading[p] = None /\ Neat(fs[p])
    BY InUserFacts
  <1>2. (FilesInv' /\ Stays) \/ Returns(t)
    BY CallStep DEF Gone
  <1>3. CASE Returns(t)
    <2>1. Gone(Now, t, p)
      BY <1>3 DEF Returns, Good, Live, Stopped, MayStop
    <2>2. SameData
      BY <1>3, <2>1, KeptData DEF Gone
    <2>3. Closes(p)
      BY <1>1, <1>3, <2>1, <2>2 DEF Gone, Closes, Others, Returns
    <2>4. fs'[p] # NoFs => Neat(fs'[p])
      BY <1>1, <2>3 DEF Closes, Neat
    <2>5. \A q \in Procs \ {p} : fs'[q] = fs[q]
      BY <2>3 DEF Closes, Others
    <2>6. Sound' /\ UNCHANGED <<reading, phase>>
      BY <1>3 DEF Returns
    <2> QED BY <1>1, <2>3, <2>4, <2>5, <2>6, UserStep
  <1> QED BY <1>2, <1>3

LEMMA KeptTrans ==
    ASSUME NEW s, NEW t, NEW u, Kept(s, t), Kept(t, u)
    PROVE  Kept(s, u)
  BY KeptFacts DEF Kept, OnlyHolds

LEMMA DestroyGone ==
    ASSUME NEW s, NEW t, NEW p \in Procs, Good(t, None), t.fs[p] # NoFs, Tidy(t, p),
           Kept(s, t), \A q \in Procs \ {p} : t.fs[q] = s.fs[q]
    PROVE  Gone(s, fs_destroy(t, p), p)
  <1> DEFINE u == fs_destroy(t, p)
  <1>1. Good(u, None) /\ u.fs = [t.fs EXCEPT ![p] = NoFs] /\ Kept(t, u)
    BY DestroyFacts
  <1>2. t.fs \in [Procs -> FsStructs]
    BY DEF Good, Live, States
  <1> HIDE DEF u
  <1>3. u.fs[p] = NoFs /\ \A q \in Procs \ {p} : u.fs[q] = s.fs[q]
    BY <1>1, <1>2
  <1>4. Kept(s, u)
    BY <1>1, KeptTrans
  <1> QED BY <1>1, <1>3, <1>4 DEF Gone, u

LEMMA ExitStep ==
    ASSUME FilesInv, NEW p \in Procs, Exit(p)
    PROVE  FilesInv' /\ (Stays \/ Closes(p))
  <1>1. InUser(p) /\ Call(fs_destroy(Now, p))
    BY DEF Exit
  <1>2. Good(Now, None) /\ Now.fs = fs /\ fs[p] # NoFs /\ Tidy(Now, p)
    BY <1>1, InUserFacts
  <1>3. Kept(Now, Now)
    BY DEF Kept, OnlyHolds
  <1>4. Gone(Now, fs_destroy(Now, p), p)
    BY <1>2, <1>3, DestroyGone
  <1> QED BY <1>1, <1>4, GoneStep

\* do_execve after the descriptors have been closed.
ReadOnly == [acc |-> "RDONLY", creat |-> FALSE, excl |-> FALSE, trunc |-> FALSE,
             append |-> FALSE]
Loaded(t, p, d, good) ==
    LET u == With(t, p, d, "tryseek", FALSE)
    IN  IF t.at \in Devs \/ ~good THEN fs_destroy(u, p) ELSE filemap_close(u, p, d)
Started(c, t, p, good) ==
    IF Ok(t) THEN Loaded(t, p, Min(FreeFds(c, p)), good) ELSE fs_destroy(t, p)

LEMMA LoadedFacts ==
    ASSUME NEW s, Good(s, None), s.ret = "ok", NEW p \in Procs, s.fs[p] # NoFs, Tidy(s, p),
           NEW d \in Fds, Idle(s.fs[p].filemap[d]), NEW good
    PROVE  LET r == Loaded(s, p, d, good)
           IN  \/ Stopped(r)
               \/ /\ Gone(s, r, p)
                  /\ r.fs[p] # NoFs => r.fs[p].filemap[d] = NoFile
  <1> DEFINE u == With(s, p, d, "tryseek", FALSE)
             r == Loaded(s, p, d, good)
  <1>1. r = IF s.at \in Devs \/ ~good THEN fs_destroy(u, p) ELSE filemap_close(u, p, d)
    BY Zenon DEF Loaded
  <1>2. Stopped(u) \/ (UseDone(s, u, p, d) /\ Kept(s, u))
    BY WithFacts
  <1> HIDE DEF u, r
  <1>3. CASE Stopped(u)
    <2>1. 0 \in 0 .. NFd
      BY Sizes
    <2>2. Stopped(fs_destroy(u, p)) /\ Stopped(filemap_close(u, p, d))
      BY <1>3, <2>1, StoppedDestroy, StoppedRelease
    <2> QED BY <1>1, <2>2 DEF r
  <1>4. CASE UseDone(s, u, p, d) /\ Kept(s, u)
    <2>1. Good(u, None) /\ Sets(s.fs, u.fs, p, d, s.fs[p].filemap[d])
      BY <1>4 DEF UseDone
    <2>2. u.fs[p] # NoFs /\ \A q \in Procs \ {p} : u.fs[q] = s.fs[q]
      BY <2>1 DEF Sets
    <2>3. \A c \in Fds : u.fs[p].filemap[c] = s.fs[p].filemap[c]
      BY <2>1 DEF Sets
    <2>4. CASE s.at \in Devs \/ ~good
      <3>1. Tidy(u, p)
        BY <2>3 DEF Tidy
      <3>2. Gone(s, fs_destroy(u, p), p)
        BY <1>4, <2>1, <2>2, <3>1, DestroyGone
      <3>3. fs_destroy(u, p).fs[p] = NoFs
        <4>1. fs_destroy(u, p).fs = [u.fs EXCEPT ![p] = NoFs]
          BY <2>1, <2>2, <3>1, DestroyFacts
        <4>2. u.fs \in [Procs -> FsStructs]
          BY <2>1 DEF Good, Live, States
        <4> QED BY <4>1, <4>2
      <3> QED BY <1>1, <2>4, <3>2, <3>3 DEF r
    <2>5. CASE ~(s.at \in Devs \/ ~good)
      <3> DEFINE v == filemap_close(u, p, d)
      <3>1. Idle(u.fs[p].filemap[d])
        BY <2>3
      <3>2. Good(v, None) /\ Sets(u.fs, v.fs, p, d, NoFile) /\ Kept(u, v)
        BY <2>1, <2>2, <3>1, FilemapClose
      <3> HIDE DEF v
      <3>3. Kept(s, v)
        BY <1>4, <3>2, KeptTrans
      <3>4. /\ v.fs[p] # NoFs /\ v.fs[p].filemap[d] = NoFile
            /\ \A q \in Procs \ {p} : v.fs[q] = s.fs[q]
            /\ \A c \in Fds : v.fs[p].filemap[c] \in {s.fs[p].filemap[c], NoFile}
        BY <2>2, <2>3, <3>2 DEF Sets
      <3>5. Gone(s, v, p)
        BY <3>2, <3>3, <3>4 DEF Gone
      <3>6. r = v
        BY <1>1, <2>5 DEF v
      <3> QED BY <3>4, <3>5, <3>6 DEF r
    <2> QED BY <2>4, <2>5
  <1> QED BY <1>2, <1>3, <1>4

LEMMA StartedFacts ==
    ASSUME NEW s, NEW c, NEW p \in Procs, Emptied(s, c, None, p, 2, NFd), Tidy(s, p), c.ret = "ok",
           NEW path \in Paths, NEW oom, NEW good
    PROVE  LET r == Started(c, file_open(c, p, path, ReadOnly, oom), p, good)
           IN  Stopped(r) \/ Gone(s, r, p)
  <1> DEFINE t == file_open(c, p, path, ReadOnly, oom)
             r == Started(c, t, p, good)
             m == Min(FreeFds(c, p))
  <1>1. /\ Good(c, None) /\ Kept(s, c) /\ c.fs[p] # NoFs
        /\ \A q \in Procs \ {p} : c.fs[q] = s.fs[q]
        /\ \A d \in Fds : c.fs[p].filemap[d] \in {s.fs[p].filemap[d], NoFile}
    BY DEF Emptied
  <1>2. Tidy(c, p)
    BY <1>1 DEF Tidy
  <1>3. Stopped(t) \/ OpenDone(c, t, p, ReadOnly)
    BY <1>1, FileOpen
  <1>4. r = IF Ok(t) THEN Loaded(t, p, m, good) ELSE fs_destroy(t, p)
    BY Zenon DEF Started
  <1> HIDE DEF t, r, m
  <1>5. CASE Stopped(t)
    <2>1. 0 \in 0 .. NFd
      BY Sizes
    <2>2. Stopped(fs_destroy(t, p)) /\ ~Ok(t)
      BY <1>5, <2>1, StoppedDestroy, StoppedChanges
    <2> QED BY <1>4, <2>2 DEF r, t
  <1>6. CASE OpenDone(c, t, p, ReadOnly) /\ t.ret # "ok"
    <2>1. Good(t, None) /\ t.fs = c.fs /\ Kept(c, t)
      BY <1>6 DEF OpenDone
    <2>2. Kept(s, t)
      BY <1>1, <2>1, KeptTrans
    <2>3. Tidy(t, p) /\ t.fs[p] # NoFs /\ \A q \in Procs \ {p} : t.fs[q] = s.fs[q]
      BY <1>1, <1>2, <2>1 DEF Tidy
    <2>4. Gone(s, fs_destroy(t, p), p)
      BY <2>1, <2>2, <2>3, DestroyGone
    <2>5. r = fs_destroy(t, p)
      BY <1>4, <1>6 DEF Ok
    <2> QED BY <2>4, <2>5 DEF r, t
  <1>7. CASE OpenDone(c, t, p, ReadOnly) /\ t.ret = "ok"
    <2>1. PICK d \in Fds, e \in Entries : OpenAt(c, t, p, ReadOnly, d, e)
      BY <1>7 DEF OpenDone
    <2>2. /\ d = m /\ c.fs[p].filemap[d] = NoFile /\ Idle(e) /\ Sets(c.fs, t.fs, p, d, e)
          /\ Kept(c, t)
      BY <2>1 DEF OpenAt, ReadOnly, m
    <2>3. Good(t, None) /\ Ok(t)
      BY <1>7 DEF OpenDone, Good, Live, Ok
    <2>4. /\ t.fs[p] # NoFs /\ t.fs[p].filemap[d] = e /\ \A q \in Procs \ {p} : t.fs[q] = s.fs[q]
          /\ \A a \in Fds \ {d} : t.fs[p].filemap[a] = c.fs[p].filemap[a]
      BY <1>1, <2>2 DEF Sets
    <2>5. Tidy(t, p) /\ Kept(s, t)
      BY <1>1, <1>2, <2>2, <2>4, KeptTrans DEF Tidy
    <2>6. r = Loaded(t, p, d, good)
      BY <1>4, <2>2, <2>3
    <2> DEFINE z == Loaded(t, p, d, good)
    <2>7. Stopped(z) \/ (Gone(t, z, p) /\ (z.fs[p] # NoFs => z.fs[p].filemap[d] = NoFile))
      <3>1. Idle(t.fs[p].filemap[d])
        BY <2>2, <2>4
      <3> QED BY <1>7, <2>3, <2>4, <2>5, <3>1, LoadedFacts
    <2> HIDE DEF z
    <2>8. CASE Gone(t, z, p) /\ (z.fs[p] # NoFs => z.fs[p].filemap[d] = NoFile)
      <3>1. Good(z, None) /\ Kept(t, z) /\ \A q \in Procs \ {p} : z.fs[q] = t.fs[q]
        BY <2>8 DEF Gone
      <3>2. Kept(s, z)
        BY <2>5, <3>1, KeptTrans
      <3>3. z.fs[p] # NoFs =>
               \A a \in Fds : z.fs[p].filemap[a] \in {s.fs[p].filemap[a], NoFile}
        <4> SUFFICES ASSUME z.fs[p] # NoFs, NEW a \in Fds
                     PROVE  z.fs[p].filemap[a] \in {s.fs[p].filemap[a], NoFile}
          OBVIOUS
        <4>1. CASE a = d
          BY <2>8, <4>1
        <4>2. CASE a # d
          <5>1. z.fs[p].filemap[a] \in {t.fs[p].filemap[a], NoFile}
            BY <2>8 DEF Gone
          <5>2. t.fs[p].filemap[a] = c.fs[p].filemap[a]
            BY <2>4, <4>2
          <5> QED BY <1>1, <5>1, <5>2
        <4> QED BY <4>1, <4>2
      <3>4. Gone(s, z, p)
        BY <2>4, <3>1, <3>2, <3>3 DEF Gone
      <3> QED BY <2>6, <3>4 DEF r, z, t
    <2> QED BY <2>6, <2>7, <2>8 DEF r, z, t
  <1> QED BY <1>3, <1>5, <1>6, <1>7

LEMMA ExecStep ==
    ASSUME FilesInv, NEW p \in Procs, Exec(p)
    PROVE  FilesInv' /\ (Stays \/ Closes(p))
  <1>1. InUser(p)
    BY DEF Exec
  <1> DEFINE c == CloseFrom(Now, p, 2)
  <1>a. PICK path \in Paths : \E oom \in Allocs(path), good \in BOOLEAN :
             Call(Started(c, file_open(c, p, path, ReadOnly, oom), p, good))
    BY Zenon DEF Exec, fs_closeall, Started, Loaded, ReadOnly, FreeFds
  <1>2. PICK oom \in Allocs(path), good \in BOOLEAN :
             Call(Started(c, file_open(c, p, path, ReadOnly, oom), p, good))
    BY <1>a
  <1>3. Good(Now, None) /\ Now.fs = fs /\ fs[p] # NoFs /\ Tidy(Now, p) /\ Now.ret = "ok"
    BY <1>1, InUserFacts
  <1>4. Emptied(Now, c, None, p, 2, NFd)
    <2>1. 2 \in 0 .. NFd
      BY Sizes
    <2> QED BY <1>3, <2>1, CloseFacts
  <1> HIDE DEF c
  <1>5. c.ret = "ok"
    BY <1>3, <1>4 DEF Emptied
  <1> DEFINE r == Started(c, file_open(c, p, path, ReadOnly, oom), p, good)
  <1>6. Stopped(r) \/ Gone(Now, r, p)
    BY <1>3, <1>4, <1>5, StartedFacts
  <1> HIDE DEF r
  <1> QED BY <1>1, <1>2, <1>6, GoneStep DEF r

LEMMA ForkStep ==
    ASSUME FilesInv, NEW p \in Procs, NEW q \in Procs, Fork(p, q)
    PROVE  FilesInv' /\ (Stays \/ Forks(p, q))
  <1>1. InUser(p) /\ q # InitProc /\ fs[q] = NoFs
    BY DEF Fork
  <1> DEFINE s == dup_fs(Now, q, p)
             u == fs_destroy(s, q)
  <1>2. PICK fails \in BOOLEAN : Call(IF fails THEN u ELSE s)
    BY DEF Fork
  <1>3. /\ Good(Now, None) /\ Now.fs = fs /\ fs[p] # NoFs /\ p # InitProc /\ Tidy(Now, p)
        /\ Neat(fs[p])
    BY <1>1, InUserFacts
  <1>4. reading[q] = None
    BY <1>1 DEF FilesInv, Settled
  <1>5. Copied(Now, s, q, p, NFd)
    BY <1>1, <1>3, DupFacts
  <1> HIDE DEF s
  <1>6. /\ Good(s, None) /\ Kept(Now, s) /\ s.fs[q] # NoFs
        /\ \A r \in Procs \ {q} : s.fs[r] = fs[r]
        /\ \A d \in Fds : s.fs[q].filemap[d] = fs[p].filemap[d]
    <2>1. \A d \in Fds : d < NFd
      BY Sizes DEF Fds
    <2> QED BY <1>3, <1>5, <2>1 DEF Copied
  <1>7. CASE fails
    <2>1. Tidy(s, q)
      BY <1>3, <1>6 DEF Tidy
    <2>2. Good(u, None) /\ u.fs = [s.fs EXCEPT ![q] = NoFs] /\ Kept(s, u)
      BY <1>6, <2>1, DestroyFacts
    <2>3. Kept(Now, u)
      BY <1>6, <2>2, KeptTrans
    <2>4. u.fs = fs
      <3>1. s.fs \in [Procs -> FsStructs] /\ fs \in [Procs -> FsStructs]
        BY <1>3, <1>6 DEF Good, Live, States
      <3> QED BY <1>1, <1>6, <2>2, <3>1
    <2> HIDE DEF u
    <2>5. (FilesInv' /\ Stays) \/ Returns(u)
      BY <1>1, <1>2, <1>7, <2>2, CallStep
    <2>6. CASE Returns(u)
      <3>1. fs' = fs /\ SameData
        BY <1>1, <2>3, <2>4, <2>6, KeptData DEF Returns
      <3>2. FilesInv'
        BY <1>1, <2>6, <3>1, StayStep DEF Returns
      <3> QED BY <3>1, <3>2 DEF Stays
    <2> QED BY <2>5, <2>6
  <1>8. CASE ~fails
    <2>1. (FilesInv' /\ Stays) \/ Returns(s)
      <3> HIDE DEF u
      <3> QED BY <1>1, <1>2, <1>6, <1>8, CallStep
    <2>2. CASE Returns(s)
      <3>1. fs' = s.fs /\ Sound' /\ UNCHANGED <<reading, phase>>
        BY <2>2 DEF Returns
      <3>2. SameData
        BY <1>1, <1>6, <2>2, KeptData
      <3>3. Forks(p, q)
        BY <1>1, <1>6, <3>1, <3>2 DEF Forks, Others
      <3>4. Neat(fs'[q]) /\ \A r \in Procs \ {q} : fs'[r] = fs[r]
        BY <1>3, <1>6, <3>1 DEF Neat
      <3>5. FilesInv'
        BY <1>1, <1>3, <1>4, <3>1, <3>4, UserStep
      <3> QED BY <3>3, <3>5
    <2> QED BY <2>1, <2>2
  <1> QED BY <1>7, <1>8

LEMMA StartUserStep ==
    ASSUME FilesInv, NEW q \in Procs, StartUser(q)
    PROVE  FilesInv' /\ (Stays \/ Forks(InitProc, q))
  <1> DEFINE s == dup_fs(Now, q, InitProc)
  <1>1. /\ panic = "none" /\ phase = "booted" /\ q # InitProc /\ Finish(s)
        /\ phase' = "running" /\ reading' = reading
    BY DEF StartUser
  <1>2. fs[q] = NoFs
    BY <1>1 DEF FilesInv, Early
  <1>3. /\ Now = Calm /\ Now.fs = fs /\ Good(Now, None)
        /\ \A j \in Regs : HoldsIn(Now, j) = Holds(j)
    BY <1>1, NowCalm DEF FilesInv
  <1>4. InitProc \in Procs /\ None \notin Fds
    BY FilesAssumption, Zenon
  <1>5. fs[InitProc] # NoFs /\ reading[InitProc] = None /\ reading[q] = None /\ Neat(fs[InitProc])
    BY <1>2, <1>4 DEF FilesInv, Settled, Neat
  <1>6. Tidy(Now, InitProc)
    BY <1>3, <1>5 DEF Tidy, Neat
  <1>7. Copied(Now, s, q, InitProc, NFd)
    BY <1>2, <1>3, <1>4, <1>5, <1>6, DupFacts
  <1> HIDE DEF s
  <1>8. /\ Good(s, None) /\ Kept(Now, s) /\ s.fs[q] # NoFs
        /\ \A r \in Procs \ {q} : s.fs[r] = fs[r]
        /\ \A d \in Fds : s.fs[q].filemap[d] = fs[InitProc].filemap[d]
    <2>1. \A d \in Fds : d < NFd
      BY Sizes DEF Fds
    <2> QED BY <1>3, <1>7, <2>1 DEF Copied
  <1>9. /\ Sound'
        /\ \/ Stopped(s) /\ fs' = fs /\ bootfs' = bootfs /\ SameData
           \/ /\ Good(s, None) /\ fs' = s.fs /\ bootfs' = s.bootfs
              /\ \A j \in Regs : Holds(j)' = HoldsIn(s, j)
    BY <1>1, <1>8, FinishFacts
  <1>10. fs' = s.fs /\ \A j \in Regs : Holds(j)' = HoldsIn(s, j)
    BY <1>8, <1>9 DEF Stopped, MayStop, Good, Live
  <1>11. SameData
    BY <1>3, <1>8, <1>10, KeptFacts DEF SameData
  <1>12. Forks(InitProc, q)
    BY <1>2, <1>8, <1>10, <1>11 DEF Forks, Others
  <1>13. Settled(fs', reading)
    <2>1. Settled(fs, reading)
      BY DEF FilesInv
    <2>2. Neat(fs'[q]) /\ \A r \in Procs \ {q} : fs'[r] = fs[r]
      BY <1>5, <1>8, <1>10 DEF Neat
    <2>3. fs'[InitProc] # NoFs
      BY <1>1, <1>4, <1>5, <2>2
    <2> QED BY <1>5, <2>1, <2>2, <2>3, SettledStep
  <1>14. Settled(fs', reading') /\ Early'
    BY <1>1, <1>13 DEF Early
  <1> QED BY <1>9, <1>12, <1>14 DEF FilesInv, Sound

LEMMA CleanupStep ==
    ASSUME FilesInv, Cleanup
    PROVE  FilesInv' /\ Stays
  <1> DEFINE s == sync(Now)
  <1>1. /\ panic = "none" /\ phase = "running" /\ Finish(s)
        /\ phase' = "cleaned" /\ reading' = reading
    BY DEF Cleanup
  <1>2. /\ Now = Calm /\ Now.fs = fs /\ Good(Now, None)
        /\ \A j \in Regs : HoldsIn(Now, j) = Holds(j)
    BY <1>1, NowCalm DEF FilesInv
  <1>3. Good(s, None) /\ s.fs = fs /\ Kept(Now, s)
    BY <1>2, SyncFacts
  <1> HIDE DEF s
  <1>4. /\ Sound'
        /\ \/ Stopped(s) /\ fs' = fs /\ bootfs' = bootfs /\ SameData
           \/ /\ Good(s, None) /\ fs' = s.fs /\ bootfs' = s.bootfs
              /\ \A j \in Regs : Holds(j)' = HoldsIn(s, j)
    BY <1>1, <1>3, FinishFacts
  <1>5. fs' = fs /\ SameData
    BY <1>2, <1>3, <1>4, KeptFacts DEF SameData
  <1>6. Settled(fs', reading') /\ Early'
    BY <1>1, <1>5 DEF FilesInv, Early
  <1> QED BY <1>4, <1>5, <1>6 DEF FilesInv, Sound, Stays

LEMMA SetBootfsStep ==
    ASSUME FilesInv, SetBootfs
    PROVE  FilesInv' /\ (Stays \/ Closes(InitProc))
  <1>1. /\ panic = "none" /\ phase = "boot" /\ phase' = "booted" /\ reading' = reading
    BY DEF SetBootfs
  <1>2. PICK oom \in {"none", "inode"} : Finish(Booted(Now, InitProc, oom))
    BY Zenon DEF SetBootfs, Booted
  <1> DEFINE r == Booted(Now, InitProc, oom)
  <1>3. /\ Now = Calm /\ Now.ret = "ok" /\ Now.fs = fs /\ Good(Now, None) /\ Now.bootfs = bootfs
        /\ \A j \in Regs : HoldsIn(Now, j) = Holds(j)
    BY <1>1, NowCalm DEF FilesInv
  <1>4. InitProc \in Procs /\ None \notin Fds
    BY FilesAssumption, Zenon
  <1>5. bootfs = None /\ fs[InitProc] = NewFs /\ fs[InitProc] # NoFs /\ reading[InitProc] = None
    BY <1>1, <1>4 DEF FilesInv, Early, Settled
  <1>6. fs[InitProc].pwd = None /\ \A d \in Fds : fs[InitProc].filemap[d] = NoFile
    BY <1>5 DEF NewFs
  <1>7. Empty(fs[InitProc])
    BY <1>6 DEF Empty
  <1>8. \/ Stopped(r)
        \/ /\ Good(r, None) /\ OnlyHolds(Now, r, None, FALSE)
           /\ r.fs = [fs EXCEPT ![InitProc] = [fs[InitProc] EXCEPT !.pwd = Root]]
    <2>1. /\ Now.bootfs = None /\ Now.fs[InitProc] # NoFs /\ Now.fs[InitProc].pwd = None
          /\ Empty(Now.fs[InitProc])
      BY <1>3, <1>5, <1>6, <1>7
    <2>2. \/ Stopped(r)
          \/ /\ Good(r, None) /\ OnlyHolds(Now, r, None, FALSE) /\ r.bootfs # None
             /\ r.fs = [Now.fs EXCEPT ![InitProc] = [Now.fs[InitProc] EXCEPT !.pwd = Root]]
      <3>1. Good(Now, None) /\ Now.ret = "ok"
        BY <1>3
      <3> QED BY <1>4, <2>1, <3>1, BootedFacts
    <2> HIDE DEF r
    <2> QED BY <1>3, <2>2
  <1> HIDE DEF r
  <1>9. /\ Sound'
        /\ \/ Stopped(r) /\ fs' = fs /\ bootfs' = bootfs /\ SameData
           \/ /\ Good(r, None) /\ fs' = r.fs /\ bootfs' = r.bootfs
              /\ \A j \in Regs : Holds(j)' = HoldsIn(r, j)
    <2>1. Finish(r) /\ (Stopped(r) \/ Good(r, None))
      BY <1>2, <1>8 DEF r
    <2> QED BY <1>1, <2>1, FinishFacts
  <1>10. CASE Stopped(r) /\ fs' = fs /\ SameData
    <2>1. Settled(fs', reading') /\ Early'
      BY <1>1, <1>10 DEF FilesInv, Early
    <2> QED BY <1>9, <1>10, <2>1 DEF FilesInv, Sound, Stays
  <1>11. CASE Good(r, None) /\ fs' = r.fs /\ \A j \in Regs : Holds(j)' = HoldsIn(r, j)
    <2>1. OnlyHolds(Now, r, None, FALSE)
          /\ r.fs = [fs EXCEPT ![InitProc] = [fs[InitProc] EXCEPT !.pwd = Root]]
      BY <1>8, <1>11 DEF Stopped, MayStop, Good, Live
    <2>2. fs \in [Procs -> FsStructs] /\ r.fs \in [Procs -> FsStructs]
      BY <1>3, <1>11 DEF Good, Live, States
    <2>3. Others(InitProc) /\ fs'[InitProc] = [fs[InitProc] EXCEPT !.pwd = Root]
      BY <1>4, <1>11, <2>1, <2>2 DEF Others
    <2>4. fs'[InitProc].filemap = fs[InitProc].filemap /\ fs'[InitProc].pwd = Root
      BY <1>5, <2>3 DEF NewFs
    <2>5. fs'[InitProc] # NoFs
      <3>1. Root # None
        <4>1. Root \in Dirs /\ None \notin Nodes
          BY FilesAssumption, Zenon
        <4> QED BY <4>1 DEF Nodes, Sfs
      <3> QED BY <2>4, <3>1 DEF NoFs
    <2>6. SameData
      <3>1. ASSUME NEW j \in Regs PROVE HoldsIn(r, j) = HoldsIn(Now, j)
        <4>1. j # None
          <5>1. None \notin Nodes
            BY FilesAssumption, Zenon
          <5> QED BY <5>1 DEF Nodes, Sfs
        <4> QED BY <2>1, <4>1 DEF OnlyHolds
      <3> QED BY <1>3, <1>11, <3>1 DEF SameData
    <2>7. Closes(InitProc)
      BY <2>3, <2>4, <2>5, <2>6 DEF Closes
    <2>8. Settled(fs', reading)
      <3>1. Settled(fs, reading)
        BY DEF FilesInv
      <3>2. Neat(fs'[InitProc]) /\ \A q \in Procs \ {InitProc} : fs'[q] = fs[q]
        BY <1>6, <2>3, <2>4 DEF Neat, Others
      <3> QED BY <1>4, <1>5, <2>5, <3>1, <3>2, SettledStep
    <2>9. Early'
      BY <1>1, <2>3 DEF FilesInv, Early, Others
    <2>10. Settled(fs', reading')
      BY <1>1, <2>8
    <2> QED BY <1>9, <2>7, <2>9, <2>10 DEF FilesInv, Sound
  <1> QED BY <1>9, <1>10, <1>11

\* A read of stdin starts or stops sleeping: one entry is used once more or
\* once less.
Touches(p) ==
    /\ Others(p) /\ SameData /\ fs[p] # NoFs /\ fs'[p] # NoFs
    /\ \A d \in Fds : /\ fs'[p].filemap[d].status = fs[p].filemap[d].status
                      /\ fs'[p].filemap[d].node = fs[p].filemap[d].node

LEMMA ReadSleepsStep ==
    ASSUME FilesInv, NEW p \in Procs, ReadSleeps(p)
    PROVE  FilesInv' /\ Touches(p)
  <1>1. InUser(p)
    BY DEF ReadSleeps
  <1>2. PICK d \in Fds :
          /\ IsOpen(p, d) /\ fs' = [fs EXCEPT ![p].filemap[d].count = @ + 1]
          /\ reading' = [reading EXCEPT ![p] = d]
    BY DEF ReadSleeps
  <1>3. UNCHANGED <<node, hash, disk, super_dirty, bootfs, leaked, phase, panic>>
    BY DEF ReadSleeps
  <1>4. /\ panic = "none" /\ Good(Now, None) /\ Now.fs = fs /\ fs[p] # NoFs /\ p # InitProc
        /\ Idle(fs[p].filemap[d]) /\ Neat(fs[p]) /\ reading[p] = None
    BY <1>1, <1>2, InUserFacts
  <1> DEFINE f == fs[p].filemap[d]
             e == [f EXCEPT !.count = 2]
             u == Entered(Now, p, d, e)
  <1>5. f \in Entries /\ f.node \in Nodes /\ f.count = 1 /\ f.status = "OPENED"
    BY <1>4, EntryType DEF Idle
  <1>6. /\ e \in Entries /\ InEntry(e) /\ e.node = f.node /\ e.status = f.status /\ e.count = 2
        /\ Used(e, 2)
    BY <1>5 DEF Entries, InEntry, Used
  <1>7. fs' = With1(fs, p, d, e)
    <2>1. [f EXCEPT !.count = @ + 1] = e
      BY <1>5
    <2>2. fs' = [fs EXCEPT ![p] = [fs[p] EXCEPT !.filemap = [fs[p].filemap EXCEPT ![d] = [f EXCEPT !.count = @ + 1]]]]
      BY <1>2
    <2> QED BY <2>1, <2>2 DEF With1
  <1> HIDE DEF e, f
  <1>8. Good(u, None) /\ Sets(fs, u.fs, p, d, e)
    BY <1>4, <1>6, Touch DEF f
  <1>9. u.fs = fs' /\ u.node = node /\ u.hash = hash /\ u.disk = disk /\ u.bootfs = bootfs
        /\ u.leaked = leaked /\ u.super_dirty = super_dirty
    <2>1. Now.node = node /\ Now.hash = hash /\ Now.disk = disk /\ Now.bootfs = bootfs
          /\ Now.leaked = leaked /\ Now.super_dirty = super_dirty
      BY DEF Now
    <2>2. Now \in States
      BY <1>4 DEF Good, Live
    <2>3. u = [Now EXCEPT !.fs = With1(fs, p, d, e)]
      BY <1>4 DEF Entered, With1
    <2> HIDE DEF u
    <2>4. PICK g : g = With1(fs, p, d, e)
      OBVIOUS
    <2>5. u = [Now EXCEPT !.fs = g]
      BY <2>3, <2>4
    <2>6. u.fs = g /\ u.node = Now.node /\ u.hash = Now.hash /\ u.disk = Now.disk
          /\ u.bootfs = Now.bootfs /\ u.leaked = Now.leaked /\ u.super_dirty = Now.super_dirty
      BY <2>2, <2>5 DEF States
    <2> QED BY <1>7, <2>1, <2>4, <2>6
  <1> HIDE DEF u
  <1>10. Good(Calm', None)
    <2>1. u \in States /\ u.panic = "none"
      BY <1>8 DEF Good, Live
    <2>2. PICK c : c = Calm'
      OBVIOUS
    <2>3. /\ c.node = u.node /\ c.hash = u.hash /\ c.disk = u.disk /\ c.fs = u.fs
          /\ c.bootfs = u.bootfs /\ c.leaked = u.leaked /\ c.panic = "none"
      BY <1>3, <1>9, <2>2 DEF Calm
    <2>4. c \in States
      <3>1. c = [node |-> u.node, hash |-> u.hash, disk |-> u.disk,
                 super_dirty |-> u.super_dirty, fs |-> u.fs, bootfs |-> u.bootfs,
                 leaked |-> u.leaked, panic |-> u.panic, ret |-> "ok", at |-> None]
        BY <1>3, <1>9, <2>1, <2>2, Zenon DEF Calm
      <3>2. "ok" \in Rets /\ None \in Nodes \union {None}
        BY DEF Rets
      <3> QED BY <2>1, <3>1, <3>2 DEF States
    <2>5. Good(c, None)
      BY <1>8, <2>3, <2>4, GoodSame
    <2> QED BY <2>2, <2>5
  <1>11. Sound'
    BY <1>3, <1>4, <1>10 DEF Sound
  <1>12. Sets(fs, fs', p, d, e)
    BY <1>8, <1>9
  <1>13. SameData
    BY <1>3 DEF SameData, Holds
  <1>14. Touches(p)
    BY <1>4, <1>6, <1>12, <1>13 DEF Touches, Others, Sets, f
  <1>15. Settled(fs', reading')
    <2>1. Settled(fs, reading) /\ InitProc \in Procs
      BY Sizes DEF FilesInv
    <2>2. reading \in [Procs -> Fds \union {None}] /\ None \notin Fds
      <3>1. None \notin Fds
        BY FilesAssumption, Zenon
      <3> QED BY <2>1, <3>1 DEF Settled
    <2>3. reading'[p] = d /\ \A q \in Procs \ {p} : reading'[q] = reading[q]
      BY <1>2, <2>2
    <2>4. reading' \in [Procs -> Fds \union {None}]
      BY <1>2, <2>2
    <2>5. \A c \in Fds \ {d} : fs'[p].filemap[c] = NoFile \/ Idle(fs'[p].filemap[c])
      BY <1>4, <1>12 DEF Sets, Neat
    <2>6. fs'[p] # NoFs /\ Used(fs'[p].filemap[d], 2) /\ \A q \in Procs \ {p} : fs'[q] = fs[q]
      BY <1>6, <1>12 DEF Sets
    <2> QED BY <1>4, <2>1, <2>3, <2>4, <2>5, <2>6 DEF Settled
  <1>16. Early'
    BY <1>3, <1>4 DEF FilesInv, Early
  <1> QED BY <1>11, <1>14, <1>15, <1>16 DEF FilesInv, Sound

LEMMA ReadWakesStep ==
    ASSUME FilesInv, NEW p \in Procs, ReadWakes(p)
    PROVE  FilesInv' /\ Touches(p)
  <1> DEFINE d == reading[p]
             f == fs[p].filemap[d]
             t == release(Now, p, d)
  <1>1. /\ panic = "none" /\ d # None /\ Finish(t) /\ phase' = phase
        /\ reading' = [reading EXCEPT ![p] = None]
    BY DEF ReadWakes
  <1>2. /\ Now = Calm /\ Now.fs = fs /\ Good(Now, None)
        /\ \A j \in Regs : HoldsIn(Now, j) = Holds(j)
    BY <1>1, NowCalm DEF FilesInv
  <1>3. reading \in [Procs -> Fds \union {None}] /\ InitProc \in Procs
    BY Sizes DEF FilesInv, Settled
  <1>4. d \in Fds /\ p # InitProc /\ fs[p] # NoFs /\ Used(f, 2)
    BY <1>1, <1>3 DEF FilesInv, Settled
  <1> HIDE DEF d
  <1>5. f \in Entries /\ f.node \in Nodes /\ f.count = 2 /\ f.status = "OPENED"
    BY <1>2, <1>4, EntryType DEF Used
  <1> DEFINE e == Less(f)
  <1>6. /\ e \in Entries /\ InEntry(e) /\ e.node = f.node /\ e.status = f.status /\ Idle(e)
    BY <1>5 DEF Entries, InEntry, Idle, Less
  <1>7. t = Entered(Now, p, d, e)
    <2>1. Now.fs[p].filemap[d].count \in Int /\ Now.fs[p].filemap[d].count > 1
      BY <1>2, <1>5
    <2>2. t = Entered(Now, p, d, Less(Now.fs[p].filemap[d]))
      BY <2>1, ReleaseOne
    <2> QED BY <1>2, <2>2
  <1> HIDE DEF e, f, t
  <1>8. Good(t, None) /\ Sets(fs, t.fs, p, d, e) /\ Kept(Now, t)
    BY <1>2, <1>4, <1>6, <1>7, Touch DEF f
  <1>9. /\ Sound'
        /\ \/ Stopped(t) /\ fs' = fs /\ bootfs' = bootfs /\ SameData
           \/ /\ Good(t, None) /\ fs' = t.fs /\ bootfs' = t.bootfs
              /\ \A j \in Regs : Holds(j)' = HoldsIn(t, j)
    BY <1>1, <1>8, FinishFacts
  <1>10. fs' = t.fs /\ \A j \in Regs : Holds(j)' = HoldsIn(t, j)
    BY <1>8, <1>9 DEF Stopped, MayStop, Good, Live
  <1>11. SameData
    BY <1>2, <1>8, <1>10, KeptFacts DEF SameData
  <1>12. Sets(fs, fs', p, d, e)
    BY <1>8, <1>10
  <1>13. Touches(p)
    BY <1>4, <1>6, <1>11, <1>12 DEF Touches, Others, Sets, f
  <1>14. Settled(fs', reading')
    <2>1. Settled(fs, reading)
      BY DEF FilesInv
    <2>2. reading'[p] = None /\ \A q \in Procs \ {p} : reading'[q] = reading[q]
      BY <1>1, <1>3
    <2>3. reading' \in [Procs -> Fds \union {None}]
      BY <1>1, <1>3
    <2>4. \A c \in Fds : fs'[p].filemap[c] = NoFile \/ Idle(fs'[p].filemap[c])
      <3>1. \A c \in Fds \ {d} : fs[p].filemap[c] = NoFile \/ Idle(fs[p].filemap[c])
        BY <1>4, <2>1 DEF Settled, d
      <3> QED BY <1>6, <1>12, <3>1 DEF Sets
    <2>5. fs'[p] # NoFs /\ \A q \in Procs \ {p} : fs'[q] = fs[q]
      BY <1>12 DEF Sets
    <2> QED BY <1>3, <1>4, <2>1, <2>2, <2>3, <2>4, <2>5 DEF Settled
  <1>15. Early'
    BY <1>1, <1>4 DEF FilesInv, Early
  <1> QED BY <1>9, <1>13, <1>14, <1>15 DEF FilesInv, Sound

LEMMA InitFacts ==
    ASSUME Init
    PROVE  FilesInv
  <1>0. /\ None \notin Nodes /\ None \notin Fds /\ InitProc \in Procs /\ NFd \in Nat /\ NFd > 2
        /\ Sfs \intersect Devs = {}
    BY FilesAssumption, Zenon
  <1> DEFINE c == Calm
  <1>1. /\ c.node = [i \in Nodes |-> IF i \in Devs THEN [NoNode EXCEPT !.ref = 1] ELSE NoNode]
        /\ c.hash = {} /\ c.disk = disk /\ disk \in [Regs -> BOOLEAN] /\ c.bootfs = None
        /\ c.fs = [p \in Procs |-> IF p = InitProc THEN NewFs ELSE NoFs]
        /\ c.leaked = [i \in Nodes |-> 0] /\ c.panic = "none" /\ c.super_dirty = FALSE
        /\ c.ret = "ok" /\ c.at = None
    BY DEF Init, Calm
  <1>c. c = [node |-> c.node, hash |-> c.hash, disk |-> c.disk,
             super_dirty |-> c.super_dirty, fs |-> c.fs, bootfs |-> c.bootfs,
             leaked |-> c.leaked, panic |-> c.panic, ret |-> c.ret, at |-> c.at]
    BY DEF Calm
  <1> HIDE DEF c
  <1>2. ASSUME NEW i \in Nodes
        PROVE  /\ c.node[i] \in NodeRecs /\ c.node[i].ref = Base(i) /\ c.node[i].open = 0
               /\ c.node[i].reclaim = 0 /\ c.node[i].dirty = FALSE /\ c.leaked[i] = 0
    <2>1. /\ NoNode \in NodeRecs /\ NoNode.ref = 0 /\ NoNode.open = 0 /\ NoNode.reclaim = 0
          /\ NoNode.dirty = FALSE
      BY DEF NoNode, NodeRecs
    <2>2. PICK x : x = [NoNode EXCEPT !.ref = 1]
      OBVIOUS
    <2>3. x \in NodeRecs /\ x.ref = 1 /\ x.open = 0 /\ x.reclaim = 0 /\ x.dirty = FALSE
      BY <2>1, <2>2 DEF NodeRecs
    <2>4. c.node[i] = (IF i \in Devs THEN x ELSE NoNode) /\ c.leaked[i] = 0
      BY <1>1, <2>2
    <2> QED BY <2>1, <2>3, <2>4 DEF Base
  <1>3. NewFs \in FsStructs /\ NewFs # NoFs /\ NewFs.pwd = None
        /\ \A d \in Fds : NewFs.filemap[d] = NoFile
    <2>1. [d \in Fds |-> NoFile] \in [Fds -> Entries]
      BY DEF NoFile, Entries
    <2>2. 0 \in Fds /\ DOMAIN <<>> = {}
      BY <1>0 DEF Fds
    <2>3. NewFs # NoFs
      BY <2>2 DEF NoFs, NewFs
    <2> QED BY <2>1, <2>3 DEF FsStructs, NewFs
  <1>4. c.fs \in [Procs -> FsStructs]
    BY <1>1, <1>3 DEF FsStructs
  <1>5. c \in States
    <2>2. c.node \in [Nodes -> NodeRecs] /\ c.leaked \in [Nodes -> Nat] /\ c.ret \in Rets
      <3>1. c.node = [i \in Nodes |-> c.node[i]] /\ c.leaked = [i \in Nodes |-> 0] /\ c.ret = "ok"
        BY <1>1
      <3>2. c.node \in [Nodes -> NodeRecs]
        BY <1>2, <3>1
      <3>3. c.leaked \in [Nodes -> Nat]
        BY <3>1
      <3> QED BY <3>1, <3>2, <3>3 DEF Rets
    <2>3. c.super_dirty \in BOOLEAN
      BY <1>1
    <2>5. c.panic \in {"none"}
      BY <1>1, Zenon
    <2>4. c.hash \in SUBSET Sfs /\ c.disk \in [Regs -> BOOLEAN]
          /\ c.bootfs \in Dirs \union {None} /\ c.at \in Nodes \union {None}
      BY <1>1
    <2> QED BY <1>c, <1>4, <2>2, <2>3, <2>4, <2>5 DEF States
  <1>6. Live(c)
    <2>1. ASSUME NEW i \in Nodes PROVE InodeSane(c, i)
      <3>1. i \in Sfs => Base(i) = 0
        BY <1>0 DEF Base
      <3>2. Base(i) \in {0, 1} /\ i \notin c.hash
        BY <1>1 DEF Base
      <3>3. ~c.node[i].dirty /\ c.node[i].open = 0 /\ c.node[i].ref = Base(i)
            /\ c.node[i].reclaim = 0
        BY <1>2
      <3>4. i \in Sfs => ~(c.node[i].ref > 0)
        BY <3>1, <3>3
      <3> QED BY <3>1, <3>2, <3>3, <3>4 DEF InodeSane
    <2> QED BY <1>1, <1>5, <2>1 DEF Live, Sane
  <1>7. Tables(c.fs)
    BY <1>1, <1>3 DEF Tables, Procs0, InEntry
  <1>8. ASSUME NEW i \in Nodes
        PROVE  /\ c.node[i].open = Cardinality(Uses(c.fs, i))
               /\ Rest(c, i) + One(i = None) = Cardinality(Pwds(c.fs, i)) + One(c.bootfs = i) + Base(i)
    <2>1. i # None
      BY <1>0
    <2>2. Uses(c.fs, i) = {}
      <3>1. \A q \in Procs0(c.fs), d \in Fds : c.fs[q].filemap[d] = NoFile
        BY <1>1, <1>3 DEF Procs0
      <3>2. NoFile.node # i
        BY <2>1 DEF NoFile
      <3> QED BY <3>1, <3>2 DEF Uses
    <2>3. Pwds(c.fs, i) = {}
      <3>1. \A q \in Procs : c.fs[q].pwd = None
        BY <1>1, <1>3 DEF NoFs
      <3> QED BY <2>1, <3>1 DEF Pwds
    <2>4. Cardinality({}) = 0
      BY FS_EmptySet
    <2>5. Base(i) \in Int /\ c.bootfs # i
      BY <1>1, <2>1 DEF Base
    <2>6. c.node[i].ref = Base(i) /\ c.node[i].open = 0 /\ c.leaked[i] = 0
      BY <1>2
    <2> QED BY <2>1, <2>2, <2>3, <2>4, <2>5, <2>6 DEF Rest, One
  <1>9. Good(c, None)
    BY <1>6, <1>7, <1>8 DEF Good
  <1>10. Settled(fs, reading)
    <2>1. fs[InitProc] = NewFs /\ \A p \in Procs \ {InitProc} : fs[p] = NoFs
      BY <1>0 DEF Init
    <2>2. reading = [p \in Procs |-> None]
      BY DEF Init
    <2> QED BY <1>0, <1>3, <2>1, <2>2 DEF Settled
  <1>11. Early /\ panic = "none"
    BY <1>0 DEF Init, Early
  <1> QED BY <1>9, <1>10, <1>11 DEF FilesInv, c

LEMMA NextFacts ==
    ASSUME FilesInv, [Next]_vars
    PROVE  FilesInv'
  <1>1. CASE UNCHANGED vars
    <2>1. /\ Calm' = Calm /\ fs' = fs /\ reading' = reading /\ phase' = phase
          /\ panic' = panic /\ bootfs' = bootfs
      BY <1>1 DEF vars, Calm
    <2>2. Good(Calm', None)
      BY <2>1 DEF FilesInv
    <2>3. Settled(fs', reading') /\ Early'
      BY <2>1 DEF FilesInv, Early
    <2> QED BY <2>1, <2>2, <2>3 DEF FilesInv
  <1>2. CASE SetBootfs
    BY <1>2, SetBootfsStep
  <1>3. CASE Cleanup
    BY <1>3, CleanupStep
  <1>4. ASSUME NEW p \in Procs, StartUser(p) PROVE FilesInv'
    BY <1>4, StartUserStep
  <1>5. ASSUME NEW p \in Procs, ReadWakes(p) PROVE FilesInv'
    BY <1>5, ReadWakesStep
  <1>6. ASSUME NEW p \in Procs, UserCall(p) PROVE FilesInv'
    <2>1. CASE Open(p)
      BY <2>1, OpenStep
    <2>2. CASE Close(p)
      BY <2>2, CloseStep
    <2>3. CASE ReadSleeps(p)
      BY <2>3, ReadSleepsStep
    <2>4. CASE Write(p) \/ Read(p) \/ Seek(p) \/ Fstat(p) \/ Fsync(p) \/ Getdirentry(p)
      BY <2>4, FileStep
    <2>5. CASE Dup(p)
      BY <2>5, DupStep
    <2>6. CASE Getcwd(p)
      BY <2>6, GetcwdStep
    <2>7. CASE Exec(p)
      BY <2>7, ExecStep
    <2>8. CASE Exit(p)
      BY <2>8, ExitStep
    <2>9. ASSUME NEW q \in Procs, Fork(p, q) PROVE FilesInv'
      BY <2>9, ForkStep
    <2> QED BY <1>6, <2>1, <2>2, <2>3, <2>4, <2>5, <2>6, <2>7, <2>8, <2>9 DEF UserCall
  <1> QED BY <1>1, <1>2, <1>3, <1>4, <1>5, <1>6 DEF Next

\* The counts, the tables and the phase fit together in every state of every
\* system: the inductive invariant of all that follows.
THEOREM FilesAlwaysFit == Spec => []FilesInv
  <1>1. Init => FilesInv
    BY InitFacts
  <1>2. FilesInv /\ [Next]_vars => FilesInv'
    BY NextFacts
  <1> QED BY <1>1, <1>2, PTL DEF Spec

LEMMA InvRefExact ==
    ASSUME FilesInv
    PROVE  RefExact
  <1>0. /\ Good(Calm, None) /\ Live(Calm) /\ None \notin Nodes
    <2>1. None \notin Nodes
      BY FilesAssumption, Zenon
    <2> QED BY <2>1 DEF FilesInv, Good
  <1>1. /\ Calm.node = node /\ Calm.hash = hash /\ Calm.fs = fs /\ Calm.bootfs = bootfs
        /\ Calm.leaked = leaked
    BY DEF Calm
  <1>2. ASSUME NEW i \in Nodes
        PROVE  /\ node[i].open = Cardinality(DescriptorsOf(i))
               /\ node[i].ref = node[i].open + leaked[i]
                                  + Cardinality({p \in Procs : fs[p].pwd = i})
                                  + (IF bootfs = i THEN 1 ELSE 0)
                                  + (IF i \in Devs THEN 1 ELSE 0)
    <2>1. /\ node[i].open = Cardinality(Uses(fs, i))
          /\ Rest(Calm, i) + One(i = None) = Cardinality(Pwds(fs, i)) + One(bootfs = i) + Base(i)
      BY <1>0, <1>1 DEF Good
    <2>2. Uses(fs, i) = DescriptorsOf(i)
      BY Zenon DEF Uses, DescriptorsOf, Procs0
    <2>3. Cardinality(Pwds(fs, i)) \in Int /\ Pwds(fs, i) = {p \in Procs : fs[p].pwd = i}
      <3>1. Cardinality(Pwds(fs, i)) \in Int
        BY TablesFinite
      <3>2. Pwds(fs, i) = {p \in Procs : fs[p].pwd = i}
        BY Zenon DEF Pwds
      <3> QED BY <3>1, <3>2
    <2>4. node[i].ref \in Int /\ node[i].open \in Int /\ leaked[i] \in Int /\ i # None
      BY <1>0, <1>1 DEF Live, States, NodeRecs
    <2>5. Rest(Calm, i) = node[i].ref - node[i].open - leaked[i]
      BY <1>1 DEF Rest
    <2>6. node[i].ref - node[i].open - leaked[i]
            = Cardinality(Pwds(fs, i)) + One(bootfs = i) + Base(i)
      BY <2>1, <2>4, <2>5 DEF One
    <2>7. node[i].ref = node[i].open + leaked[i] + Cardinality(Pwds(fs, i))
                           + (IF bootfs = i THEN 1 ELSE 0) + (IF i \in Devs THEN 1 ELSE 0)
      BY <2>3, <2>4, <2>6 DEF One, Base
    <2> QED BY <2>1, <2>2, <2>3, <2>7
  <1>3. \A i \in Sfs : /\ i \in hash <=> node[i].ref > 0
                       /\ i \in hash => node[i].reclaim = 1
    BY <1>0, <1>1 DEF Live, Sane, InodeSane, Nodes
  <1>4. hash \subseteq Sfs
    BY <1>0, <1>1 DEF Live, States
  <1> QED BY <1>2, <1>3, <1>4 DEF RefExact

\* Whatever user processes, directories and descriptors there are, every inode
\* has exactly the references its holders account for and is in memory just as
\* long: no path through the file system calls, failures of the allocator
\* included, loses or keeps a reference, but for O_CREAT with O_EXCL.
THEOREM RefCountsAlwaysExact == Spec => []RefExact
  <1>1. FilesInv => RefExact
    BY InvRefExact
  <1> QED BY <1>1, FilesAlwaysFit, PTL

\* The assertions of file.c, fs.c, inode.c and sfs_inode.c about counts and
\* states of descriptors never fail: the kernel stops only for an operation an
\* inode does not have, or when the root cannot be loaded at the start.
THEOREM CountAssertionsHold == Spec => []CountsNeverFail
  <1>1. FilesInv => CountsNeverFail
    BY DEF FilesInv, CountsNeverFail, MayStop
  <1> QED BY <1>1, FilesAlwaysFit, PTL

-----------------------------------------------------------------------------
(* Descriptors and files are what FileSpec promises                        *)

Row(F, p) == [d \in Fds |-> IF F[p] # NoFs /\ F[p].filemap[d].status = "OPENED"
                            THEN F[p].filemap[d].node ELSE None]
Table(F) == [p \in Procs |-> Row(F, p)]
Data == [i \in Regs |-> Holds(i)]

LEMMA RowAt ==
    ASSUME NEW F, NEW p, NEW d \in Fds
    PROVE  Row(F, p)[d] = IF F[p] # NoFs /\ F[p].filemap[d].status = "OPENED"
                          THEN F[p].filemap[d].node ELSE None
  BY DEF Row

LEMMA SameRow ==
    ASSUME NEW F, NEW G, NEW p, NEW q, \A d \in Fds : Row(G, q)[d] = Row(F, p)[d]
    PROVE  Row(G, q) = Row(F, p)
  BY DEF Row

LEMMA SameFs ==
    ASSUME NEW F, NEW G, NEW p, G[p] = F[p]
    PROVE  Row(G, p) = Row(F, p)
  BY DEF Row

LEMMA DataFacts ==
    /\ SameData => Data' = Data
    /\ \A j \in Regs : Data[j] = Holds(j) /\ Data'[j] = Holds(j)'
  BY DEF SameData, Data

LEMMA TableAt ==
    ASSUME NEW F, NEW p \in Procs
    PROVE  Table(F)[p] = Row(F, p)
  BY DEF Table

\* The abstract call of p that its rows and the files show.
Shows(old, new) ==
    \/ Abstract!Close(old, new) \/ Abstract!Write(old, new)
    \/ Abstract!Open(old, new) \/ Abstract!Dup(old, new)

LEMMA ShowsCall ==
    ASSUME NEW p \in Procs, Others(p), Shows(Row(fs, p), Row(fs', p))
    PROVE  Abstract!Next
  <1> DEFINE old == Table(fs)
             new == Table(fs')
  <1>1. \A q \in Procs \ {p} : new[q] = old[q]
    BY SameFs, TableAt DEF Others
  <1>2. old[p] = Row(fs, p) /\ new[p] = Row(fs', p)
    BY TableAt
  <1> HIDE DEF old, new
  <1>3. Abstract!Call(p, old, new)
    BY <1>1, <1>2, Zenon DEF Shows, Abstract!Call
  <1> QED BY <1>3, Zenon DEF Abstract!Next, old, new, Table, Row

LEMMA RowFree ==
    ASSUME NEW F, NEW p, F[p] # NoFs, NEW d \in Fds
    PROVE  /\ F[p].filemap[d] = NoFile => Row(F, p)[d] = None
           /\ Idle(F[p].filemap[d]) => Row(F, p)[d] = F[p].filemap[d].node
  BY RowAt DEF NoFile, Idle

\* A row with one entry changed.
RowSet(F, G, p, d, n) == Row(G, p) = [Row(F, p) EXCEPT ![d] = n]
LEMMA SetsRow ==
    ASSUME NEW F, NEW G, NEW p, F[p] # NoFs, NEW d \in Fds, NEW e, Idle(e), Sets(F, G, p, d, e)
    PROVE  RowSet(F, G, p, d, e.node)
  <1>1. G[p] # NoFs /\ G[p].filemap[d] = e /\ \A c \in Fds \ {d} : G[p].filemap[c] = F[p].filemap[c]
    BY DEF Sets
  <1>2. Row(G, p)[d] = e.node
    BY <1>1, RowFree
  <1>3. \A c \in Fds \ {d} : Row(G, p)[c] = Row(F, p)[c]
    BY <1>1, RowAt
  <1>4. DOMAIN Row(G, p) = Fds /\ DOMAIN Row(F, p) = Fds
        /\ Row(G, p) = [c \in Fds |-> Row(G, p)[c]] /\ Row(F, p) = [c \in Fds |-> Row(F, p)[c]]
    BY DEF Row
  <1> QED BY <1>2, <1>3, <1>4 DEF RowSet

LEMMA OpensShow ==
    ASSUME FilesInv, NEW p \in Procs, InUser(p), Opens(p)
    PROVE  Abstract!Next
  <1>1. PICK d \in Fds, e \in Entries :
               /\ fs[p].filemap[d] = NoFile /\ \A c \in 0 .. d - 1 : fs[p].filemap[c] # NoFile
               /\ Idle(e) /\ Sets(fs, fs', p, d, e) /\ OnlyData(e.node, FALSE)
    BY DEF Opens
  <1>2. fs[p] # NoFs /\ Neat(fs[p])
    BY InUserFacts
  <1>3. e.node \in Nodes /\ None \notin Nodes
    <2>1. None \notin Nodes
      BY FilesAssumption, Zenon
    <2> QED BY <1>1, <2>1 DEF Idle
  <1> DEFINE old == Row(fs, p)
             new == Row(fs', p)
  <1>4. old[d] = None
    BY <1>1, <1>2, RowFree
  <1>5. \A c \in 0 .. d - 1 : old[c] # None
    <2> SUFFICES ASSUME NEW c \in 0 .. d - 1 PROVE old[c] # None
      OBVIOUS
    <2>1. c \in Fds
      BY Sizes DEF Fds
    <2>2. Idle(fs[p].filemap[c])
      BY <1>1, <1>2, <2>1 DEF Neat
    <2>3. old[c] = fs[p].filemap[c].node
      BY <1>2, <2>1, <2>2, RowFree
    <2> QED BY <1>3, <2>2, <2>3 DEF Idle
  <1>6. new = [old EXCEPT ![d] = e.node]
    <2>1. RowSet(fs, fs', p, d, e.node)
      BY <1>1, <1>2, SetsRow
    <2> QED BY <2>1, Zenon DEF RowSet
  <1>7. \A j \in Regs : Data'[j] # Data[j] => j \in {e.node} /\ Data'[j] = FALSE
    BY <1>1, DataFacts DEF OnlyData
  <1> HIDE DEF old, new
  <1>8. Abstract!Changed({e.node}, FALSE)
    BY <1>7, Zenon DEF Abstract!Changed, Data
  <1>9. Abstract!Open(old, new)
    <2>1. d \in Abstract!Fds
      BY DEF Fds, Abstract!Fds
    <2> QED BY <1>3, <1>4, <1>5, <1>6, <1>8, <2>1 DEF Abstract!Open
  <1>10. Others(p)
    BY <1>1 DEF Others, Sets
  <1> QED BY <1>9, <1>10, ShowsCall DEF Shows, old, new

LEMMA UsesShow ==
    ASSUME FilesInv, NEW p \in Procs, InUser(p), Uses1(p)
    PROVE  Abstract!Next
  <1>1. PICK d \in Fds : /\ Idle(fs[p].filemap[d])
                         /\ Sets(fs, fs', p, d, fs[p].filemap[d])
                         /\ OnlyData(fs[p].filemap[d].node, TRUE)
    BY DEF Uses1
  <1>2. fs[p] # NoFs /\ None \notin Nodes
    <2>1. None \notin Nodes
      BY FilesAssumption, Zenon
    <2> QED BY <2>1, InUserFacts
  <1> DEFINE old == Row(fs, p)
             new == Row(fs', p)
             i == fs[p].filemap[d].node
  <1>3. old[d] = i /\ i # None
    BY <1>1, <1>2, RowFree DEF Idle
  <1>4. new = old
    <2>1. fs'[p] # NoFs /\ \A c \in Fds : fs'[p].filemap[c] = fs[p].filemap[c]
      BY <1>1 DEF Sets
    <2>2. \A c \in Fds : new[c] = old[c]
      BY <1>2, <2>1, RowAt
    <2> QED BY <2>2, SameRow
  <1>5. \A j \in Regs : Data'[j] # Data[j] => j = i /\ Data'[j] = TRUE
    BY <1>1, DataFacts DEF OnlyData
  <1> HIDE DEF old, new, i
  <1>6. i \in Abstract!Named(old)
    <2>1. d \in Abstract!Fds
      BY DEF Fds, Abstract!Fds
    <2> QED BY <1>3, <2>1 DEF Abstract!Named
  <1>7. \A j \in Regs : Data'[j] # Data[j] => j \in Abstract!Named(old) /\ Data'[j] = TRUE
    BY <1>5, <1>6
  <1>8. Abstract!Changed(Abstract!Named(old), TRUE)
    BY <1>7, Zenon DEF Abstract!Changed, Data
  <1>9. Abstract!Write(old, new)
    BY <1>4, <1>8, Zenon DEF Abstract!Write
  <1>10. Others(p)
    BY <1>1 DEF Others, Sets
  <1> QED BY <1>9, <1>10, ShowsCall DEF Shows, old, new

LEMMA DupsShow ==
    ASSUME FilesInv, NEW p \in Procs, InUser(p), Dups(p)
    PROVE  Abstract!Next
  <1>1. PICK d \in Fds, e \in Fds :
                      /\ Idle(fs[p].filemap[d]) /\ fs[p].filemap[e] = NoFile
                      /\ Sets(fs, fs', p, e, fs[p].filemap[d]) /\ SameData
    BY DEF Dups
  <1>2. fs[p] # NoFs /\ None \notin Nodes
    <2>1. None \notin Nodes
      BY FilesAssumption, Zenon
    <2> QED BY <2>1, InUserFacts
  <1> DEFINE old == Row(fs, p)
             new == Row(fs', p)
             i == fs[p].filemap[d].node
  <1>3. old[d] = i /\ i # None /\ old[e] = None
    BY <1>1, <1>2, RowFree DEF Idle
  <1>4. new = [old EXCEPT ![e] = i]
    <2>1. RowSet(fs, fs', p, e, i)
      BY <1>1, <1>2, SetsRow
    <2> QED BY <2>1, Zenon DEF RowSet
  <1>5. Data' = Data
    BY <1>1, DataFacts
  <1> HIDE DEF old, new, i
  <1>6. Abstract!Dup(old, new)
    <2>1. d \in Abstract!Fds /\ e \in Abstract!Fds
      BY DEF Fds, Abstract!Fds
    <2>2. old[d] # None /\ old[e] = None /\ new = [old EXCEPT ![e] = old[d]]
      BY <1>3, <1>4
    <2> QED BY <1>5, <2>1, <2>2, Zenon DEF Abstract!Dup, Data
  <1>7. Others(p)
    BY <1>1 DEF Others, Sets
  <1> QED BY <1>6, <1>7, ShowsCall DEF Shows, old, new

LEMMA ClosesShow ==
    ASSUME NEW p \in Procs, fs[p] # NoFs, Closes(p)
    PROVE  Abstract!Next
  <1> DEFINE old == Row(fs, p)
             new == Row(fs', p)
  <1>1. \A d \in Fds : new[d] \in {old[d], None}
    <2> SUFFICES ASSUME NEW d \in Fds PROVE new[d] \in {old[d], None}
      OBVIOUS
    <2>1. CASE fs'[p] = NoFs
      BY <2>1, RowAt
    <2>2. CASE fs'[p] # NoFs /\ fs'[p].filemap[d] = NoFile
      BY <2>2, RowFree
    <2>3. CASE fs'[p] # NoFs /\ fs'[p].filemap[d] = fs[p].filemap[d]
      BY <2>3, RowAt
    <2> QED BY <2>1, <2>2, <2>3 DEF Closes
  <1>2. Data' = Data
    BY DataFacts DEF Closes
  <1> HIDE DEF old, new
  <1>3. Abstract!Close(old, new)
    BY <1>1, <1>2, Zenon DEF Abstract!Close, Abstract!Fds, Fds, Data
  <1>4. Others(p)
    BY DEF Closes
  <1> QED BY <1>3, <1>4, ShowsCall DEF Shows, old, new

LEMMA ForksShow ==
    ASSUME NEW p \in Procs, NEW q \in Procs, fs[p] # NoFs, Forks(p, q)
    PROVE  Abstract!Next
  <1> DEFINE old == Table(fs)
             new == Table(fs')
  <1>1. Row(fs, q) = [d \in Fds |-> None]
    BY DEF Forks, Row
  <1>2. Row(fs', q) = Row(fs, p)
    <2>1. \A d \in Fds : Row(fs', q)[d] = Row(fs, p)[d]
      BY RowAt DEF Forks
    <2> QED BY <2>1, SameRow
  <1>3. \A r \in Procs \ {q} : Row(fs', r) = Row(fs, r)
    BY SameFs DEF Forks, Others
  <1>4. old[q] = Abstract!AllFree
    BY <1>1, TableAt DEF Abstract!AllFree, Abstract!Fds, Fds
  <1>5. new = [old EXCEPT ![q] = old[p]]
    BY <1>2, <1>3 DEF Table
  <1>6. Data' = Data
    BY DataFacts DEF Forks
  <1> HIDE DEF old, new
  <1>7. Abstract!Fork(p, q, old, new)
    BY <1>4, <1>5, <1>6, Zenon DEF Abstract!Fork, Data
  <1> QED BY <1>7, Zenon DEF Abstract!Next, old, new, Table, Row

\* What stays in the tables stays in the abstract state.
LEMMA StaysStutter ==
    ASSUME Stays \/ \E p \in Procs : Touches(p)
    PROVE  Table(fs') = Table(fs) /\ Data' = Data
  <1>1. SameData
    BY DEF Stays, Touches
  <1>2. \A q \in Procs : Row(fs', q) = Row(fs, q)
    <2>1. CASE Stays
      BY <2>1, SameFs DEF Stays
    <2>2. ASSUME NEW p \in Procs, Touches(p), NEW q \in Procs
          PROVE  Row(fs', q) = Row(fs, q)
      <3>1. CASE q # p
        BY <2>2, <3>1, SameFs DEF Touches, Others
      <3>2. CASE q = p
        <4>1. \A d \in Fds : Row(fs', q)[d] = Row(fs, q)[d]
          BY <2>2, <3>2, RowAt DEF Touches
        <4> QED BY <4>1, SameRow
      <3> QED BY <3>1, <3>2
    <2> QED BY <2>1, <2>2
  <1>3. Table(fs') = Table(fs)
    BY <1>2 DEF Table
  <1> QED BY <1>1, <1>3, DataFacts

LEMMA InitShows ==
    ASSUME Init
    PROVE  Abstract!Init
  <1>0. None \notin Nodes /\ InitProc \in Procs
    BY FilesAssumption, Zenon
  <1>1. \A p \in Procs, d \in Fds : Row(fs, p)[d] = None
    BY <1>0, RowAt DEF Init, NewFs, NoFile
  <1>2. \A p \in Procs : Row(fs, p) = [d \in Fds |-> None]
    BY <1>1 DEF Row
  <1>3. Table(fs) = [p \in Procs |-> [d \in Fds |-> None]]
    BY <1>2 DEF Table
  <1>4. Data \in [Regs -> BOOLEAN]
    BY DEF Init, Data, Holds
  <1> QED BY <1>3, <1>4, Zenon DEF Abstract!Init, Abstract!AllFree, Abstract!Fds, Fds, Data, Table, Row

LEMMA NextShows ==
    ASSUME FilesInv, [Next]_vars
    PROVE  Abstract!Next \/ (Table(fs') = Table(fs) /\ Data' = Data)
  <1>0. InitProc \in Procs /\ fs[InitProc] # NoFs
    BY Sizes DEF FilesInv, Settled
  <1>1. CASE UNCHANGED vars
    BY <1>1, StaysStutter DEF vars, Stays, SameData, Holds
  <1>2. CASE SetBootfs
    BY <1>0, <1>2, SetBootfsStep, StaysStutter, ClosesShow
  <1>3. CASE Cleanup
    BY <1>3, CleanupStep, StaysStutter
  <1>4. ASSUME NEW q \in Procs, StartUser(q)
        PROVE  Abstract!Next \/ (Table(fs') = Table(fs) /\ Data' = Data)
    BY <1>0, <1>4, StartUserStep, StaysStutter, ForksShow
  <1>5. ASSUME NEW p \in Procs, ReadWakes(p)
        PROVE  Abstract!Next \/ (Table(fs') = Table(fs) /\ Data' = Data)
    BY <1>5, ReadWakesStep, StaysStutter
  <1>6. ASSUME NEW p \in Procs, UserCall(p)
        PROVE  Abstract!Next \/ (Table(fs') = Table(fs) /\ Data' = Data)
    <2>0. InUser(p) /\ fs[p] # NoFs
      BY <1>6 DEF UserCall, Open, Close, Read, ReadSleeps, Write, Seek, Fstat, Fsync,
                  Getdirentry, Dup, Getcwd, Exec, Exit, Fork, InUser
    <2>1. CASE Open(p)
      BY <2>0, <2>1, OpenStep, StaysStutter, OpensShow
    <2>2. CASE Close(p)
      BY <2>0, <2>2, CloseStep, StaysStutter, ClosesShow
    <2>3. CASE ReadSleeps(p)
      BY <2>3, ReadSleepsStep, StaysStutter
    <2>4. CASE Write(p) \/ Read(p) \/ Seek(p) \/ Fstat(p) \/ Fsync(p) \/ Getdirentry(p)
      BY <2>0, <2>4, FileStep, StaysStutter, UsesShow
    <2>5. CASE Dup(p)
      BY <2>0, <2>5, DupStep, StaysStutter, DupsShow
    <2>6. CASE Getcwd(p)
      BY <2>6, GetcwdStep, StaysStutter
    <2>7. CASE Exec(p)
      BY <2>0, <2>7, ExecStep, StaysStutter, ClosesShow
    <2>8. CASE Exit(p)
      BY <2>0, <2>8, ExitStep, StaysStutter, ClosesShow
    <2>9. ASSUME NEW q \in Procs, Fork(p, q)
          PROVE  Abstract!Next \/ (Table(fs') = Table(fs) /\ Data' = Data)
      BY <2>0, <2>9, ForkStep, StaysStutter, ForksShow
    <2> QED BY <1>6, <2>1, <2>2, <2>3, <2>4, <2>5, <2>6, <2>7, <2>8, <2>9 DEF UserCall
  <1> QED BY <1>1, <1>2, <1>3, <1>4, <1>5, <1>6 DEF Next

\* The file system calls implement FileSpec, for every image, number of
\* processes and size of the tables: a descriptor names its file until its own
\* process closes it, and neither reclaiming an inode nor loading it again
\* loses what a file holds (sfs_inode.c, file.c, fs.c).
THEOREM FilesRefined == Spec => FileRefinement
  <1>1. Init => Abstract!Init
    BY InitShows
  <1>2. FilesInv /\ [Next]_vars => [Abstract!Next]_<<Table(fs), Data>>
    BY NextShows
  <1> QED BY <1>1, <1>2, FilesAlwaysFit, PTL DEF Spec, FileRefinement, Abstract!Spec, Table, Row, Data
=============================================================================
