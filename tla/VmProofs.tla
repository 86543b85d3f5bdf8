------------------------------ MODULE VmProofs ------------------------------
(***************************************************************************)
(* Proofs about Vm.                                                        *)
(***************************************************************************)
EXTENDS Vm, Facts, FiniteSetTheorems, TLAPS

-----------------------------------------------------------------------------
(* Types                                                                   *)

Frames == 0 .. NPages
Slots == 0 .. PTN - 1
Ptes == [pg : Frames, w : BOOLEAN]
TlbEntries == [vpn2 : Nat, lo : [0 .. 1 -> Ptes]]
Errs == {"ok", "nomem", "inval", "panic"}
Mems == [free : SUBSET Pages, ref : [Pages -> Int],
         dir : [Frames -> [Tables -> Frames]],
         tab : [Pages -> [Slots -> Ptes]],
         data : [Pages -> Vals], tlb : SUBSET TlbEntries, err : Errs]

\* Where the entry of a virtual page is.
Tb(v) == v \div PTN
Ix(v) == v % PTN

LEMMA Sizes ==
    /\ NPages \in Nat /\ NPages >= 2 /\ NTables \in Nat \ {0} /\ PTN \in Nat \ {0}
    /\ Top \in Nat /\ Top = PTN * NTables
  BY VmAssumption DEF Top, KSTACKPAGE

LEMMA Parts ==
    ASSUME NEW v \in VPages
    PROVE  /\ v \in Nat /\ Tb(v) \in Tables /\ Ix(v) \in Slots /\ v = PTN * Tb(v) + Ix(v)
  <1>1. v \in Nat /\ v < Top
    BY Sizes DEF VPages
  <1>2. Tb(v) \in Int /\ Ix(v) \in Slots /\ v = PTN * Tb(v) + Ix(v)
    BY <1>1, Sizes, ModFacts DEF Tb, Ix, Slots
  <1>3. Tb(v) <= NTables - 1
    <2>1. Tb(v) <= NTables - 1 <=> v < PTN * (NTables - 1) + PTN
      BY <1>1, Sizes, DivAtMost DEF Tb
    <2>2. PTN * (NTables - 1) + PTN = PTN * NTables
      BY Sizes
    <2> QED BY <1>1, <2>1, <2>2, Sizes
  <1>4. ~(Tb(v) <= -1)
    <2>1. Tb(v) <= -1 <=> v < PTN * (-1) + PTN
      BY <1>1, Sizes, DivAtMost DEF Tb
    <2> QED BY <1>1, <2>1, Sizes
  <1> QED BY <1>1, <1>2, <1>3, <1>4, Sizes DEF Tables

LEMMA PartsDiffer ==
    ASSUME NEW v \in VPages, NEW u \in VPages, Tb(v) = Tb(u), Ix(v) = Ix(u)
    PROVE  v = u
  BY Parts

LEMMA PartsOf ==
    ASSUME NEW k \in Tables, NEW i \in Slots
    PROVE  \E v \in VPages : Tb(v) = k /\ Ix(v) = i
  <1>1. k \in Nat /\ k <= NTables - 1 /\ i \in Nat /\ i < PTN
    BY Sizes DEF Tables, Slots
  <1>2. PICK v : v = PTN * k + i
    OBVIOUS
  <1>3. PTN * k \in Nat /\ v \in Nat
    BY <1>1, <1>2, Sizes
  <1>4. PTN * k <= PTN * (NTables - 1)
    BY <1>1, Sizes
  <1>5. PTN * (NTables - 1) + PTN = PTN * NTables
    BY Sizes
  <1>6. v \in VPages
    BY <1>1, <1>2, <1>3, <1>4, <1>5, Sizes DEF VPages
  <1>7. v = PTN * Tb(v) + Ix(v) /\ Tb(v) \in Nat /\ Ix(v) \in Nat /\ Ix(v) < PTN
    BY <1>6, Parts, Sizes DEF Tables, Slots
  <1>8. PTN * (k - Tb(v)) = PTN * k - PTN * Tb(v) /\ PTN * Tb(v) \in Int
    BY <1>1, <1>7, Sizes
  <1>9. PTN * (k - Tb(v)) = Ix(v) - i
    BY <1>1, <1>2, <1>3, <1>7, <1>8
  <1>10. k - Tb(v) \in Int /\ -PTN < PTN * (k - Tb(v)) /\ PTN * (k - Tb(v)) < PTN
    BY <1>1, <1>7, <1>9, Sizes
  <1>11. k - Tb(v) = 0
    BY <1>10, Sizes, Multiple
  <1>12. k = Tb(v) /\ Ix(v) - i = 0
    BY SMTT(30), ZenonT(90), <1>1, <1>7, <1>8, <1>9, <1>11, Sizes
  <1> QED BY <1>1, <1>6, <1>7, <1>12

LEMMA HasTableIs ==
    ASSUME NEW r, NEW d, NEW v
    PROVE  HasTable(r, d, v) <=> r.dir[d][Tb(v)] # 0
  BY DEF HasTable, Tb

LEMMA PteIs ==
    ASSUME NEW r, NEW d, NEW v
    PROVE  Pte(r, d, v) = IF r.dir[d][Tb(v)] = 0 THEN NoPte
                          ELSE r.tab[r.dir[d][Tb(v)]][Ix(v)]
  BY DEF Pte, HasTable, Tb, Ix

\* Min is the least of a set of pages.
LEMMA AllocIsFree ==
    ASSUME NEW r \in Mems, r.free # {}
    PROVE  alloc_page(r) \in r.free /\ alloc_page(r) \in Pages
  <1>1. r.free \in SUBSET Nat /\ r.free \in SUBSET Pages
    BY Sizes DEF Mems, Pages
  <1>2. \E n \in r.free : \A k \in r.free : n <= k
    BY <1>1, LeastNumber
  <1>3. Min(r.free) \in r.free
    BY <1>2 DEF Min
  <1> QED BY <1>1, <1>3 DEF alloc_page

-----------------------------------------------------------------------------
(* What each page is used for                                              *)

Kinds == {"free", "stack", "dir", "hand", "table", "map"}

\* kd says what a page is used for; if it is a table or mapped, at and ix say
\* where the entry for it is.  D are the directories, K the pages of kernel
\* stacks, H those that are allocated and not yet in use.
Owned(r, kd, at, ix, D, K, H) ==
    /\ kd \in [Pages -> Kinds] /\ at \in [Pages -> Frames] /\ ix \in [Pages -> Nat]
    /\ D \subseteq Pages /\ K \subseteq Pages /\ H \subseteq Pages
    /\ \A p \in Pages : /\ kd[p] = "free" <=> p \in r.free
                        /\ kd[p] = "stack" <=> p \in K
                        /\ kd[p] = "dir" <=> p \in D
                        /\ kd[p] = "hand" <=> p \in H
    /\ \A d \in Frames, k \in Tables : r.dir[d][k] # 0 =>
          /\ d \in D /\ kd[r.dir[d][k]] = "table"
          /\ at[r.dir[d][k]] = d /\ ix[r.dir[d][k]] = k
    /\ \A p \in Pages : kd[p] = "table" => /\ at[p] \in D /\ ix[p] \in Tables
                                           /\ r.dir[at[p]][ix[p]] = p
    /\ \A t \in Pages, i \in Slots : r.tab[t][i].pg # 0 =>
          /\ kd[t] = "table" /\ kd[r.tab[t][i].pg] = "map"
          /\ at[r.tab[t][i].pg] = t /\ ix[r.tab[t][i].pg] = i
    /\ \A p \in Pages : kd[p] = "map" => /\ at[p] \in Pages /\ ix[p] \in Slots
                                         /\ r.tab[at[p]][ix[p]].pg = p
    /\ \A t \in Pages, i \in Slots : r.tab[t][i].pg = 0 => r.tab[t][i] = NoPte
    /\ \A p \in Pages : r.ref[p] = IF kd[p] \in {"table", "map"} THEN 1 ELSE 0

Mem(r, D, K, H) == r \in Mems /\ \E kd, at, ix : Owned(r, kd, at, ix, D, K, H)

\* What belongs to directory c is as it was.
SameSpace(r, q, c) ==
    q.dir[c] = r.dir[c] /\ \A v \in VPages : Pte(q, c, v) = Pte(r, c, v)

LEMMA MemTypes ==
    ASSUME NEW r \in Mems
    PROVE  /\ r.free \in SUBSET Pages /\ r.ref \in [Pages -> Int]
           /\ r.dir \in [Frames -> [Tables -> Frames]] /\ r.tab \in [Pages -> [Slots -> Ptes]]
           /\ r.data \in [Pages -> Vals] /\ r.tlb \in SUBSET TlbEntries /\ r.err \in Errs
  BY DEF Mems

LEMMA FrameKinds ==
    /\ \A p \in Pages : p \in Frames /\ p # 0 /\ p \in Nat
    /\ \A p \in Frames : p # 0 => p \in Pages
    /\ 0 \in Frames /\ 0 \notin Pages
  BY Sizes DEF Pages, Frames

\* An entry of a space: its table and its page.
LEMMA PteFacts ==
    ASSUME NEW r \in Mems, NEW D, NEW K, NEW H, NEW kd, NEW at, NEW ix,
           Owned(r, kd, at, ix, D, K, H), NEW c \in Frames, NEW v \in VPages
    PROVE  /\ Pte(r, c, v) \in Ptes
           /\ Pte(r, c, v) # NoPte =>
                 /\ Pte(r, c, v).pg \in Pages /\ kd[Pte(r, c, v).pg] = "map"
                 /\ r.dir[c][Tb(v)] \in Pages /\ c \in D
                 /\ kd[r.dir[c][Tb(v)]] = "table" /\ at[r.dir[c][Tb(v)]] = c
                 /\ at[Pte(r, c, v).pg] = r.dir[c][Tb(v)]
                 /\ Pte(r, c, v) = r.tab[r.dir[c][Tb(v)]][Ix(v)]
           /\ Pte(r, c, v).pg = 0 => Pte(r, c, v) = NoPte
  <1>1. Tb(v) \in Tables /\ Ix(v) \in Slots
    BY Parts
  <1>2. r.dir[c][Tb(v)] \in Frames
    BY <1>1, MemTypes
  <1>3. CASE r.dir[c][Tb(v)] = 0
    <2>1. Pte(r, c, v) = NoPte
      BY <1>3, PteIs
    <2> QED BY <2>1, FrameKinds DEF NoPte, Ptes
  <1>4. CASE r.dir[c][Tb(v)] # 0
    <2>1. PICK t \in Pages : t = r.dir[c][Tb(v)]
      BY <1>2, <1>4, FrameKinds
    <2>2. Pte(r, c, v) = r.tab[t][Ix(v)]
      BY <1>4, <2>1, PteIs
    <2>3. r.tab[t][Ix(v)] \in Ptes
      BY <1>1, <2>1, MemTypes
    <2>4. c \in D /\ kd[t] = "table" /\ at[t] = c
      BY <1>1, <1>4, <2>1 DEF Owned
    <2>5. CASE r.tab[t][Ix(v)].pg = 0
      <3>1. r.tab[t][Ix(v)] = NoPte
        BY <1>1, <2>5 DEF Owned
      <3> QED BY <2>2, <2>3, <3>1
    <2>6. CASE r.tab[t][Ix(v)].pg # 0
      <3>1. PICK p : p = r.tab[t][Ix(v)].pg
        OBVIOUS
      <3>2. p \in Pages
        BY <2>3, <2>6, <3>1, FrameKinds DEF Ptes
      <3>3. kd[p] = "map" /\ at[p] = t
        BY <1>1, <2>6, <3>1 DEF Owned
      <3> QED BY <2>1, <2>2, <2>3, <2>4, <2>6, <3>1, <3>2, <3>3
    <2> QED BY <2>5, <2>6
  <1> QED BY <1>3, <1>4

\* Nothing is mapped that is not in the space of a directory.
LEMMA SpaceKept ==
    ASSUME NEW r \in Mems, NEW q, NEW c \in Frames, NEW D, NEW K, NEW H,
           NEW kd, NEW at, NEW ix, Owned(r, kd, at, ix, D, K, H),
           q.dir[c] = r.dir[c],
           \A p \in Pages : kd[p] = "table" /\ at[p] = c => q.tab[p] = r.tab[p]
    PROVE  SameSpace(r, q, c)
  <1>1. ASSUME NEW v \in VPages
        PROVE  Pte(q, c, v) = Pte(r, c, v)
    <2>1. Tb(v) \in Tables /\ Ix(v) \in Slots
      BY Parts
    <2>2. r.dir[c][Tb(v)] \in Frames
      BY <2>1, MemTypes
    <2>3. r.dir[c][Tb(v)] # 0 => q.tab[r.dir[c][Tb(v)]] = r.tab[r.dir[c][Tb(v)]]
      BY <2>1, <2>2, FrameKinds DEF Owned
    <2> QED BY <2>3, PteIs
  <1> QED BY <1>1 DEF SameSpace

-----------------------------------------------------------------------------
(* Steps that change what pages are used for                               *)

\* Pages that are neither tables nor mapped change between free, stacks,
\* directories that are empty, and those in hand.
Plain(r, D, K, H) == r.free \union D \union K \union H
Relabels(r, q, D, K, H, D2, K2, H2) ==
    /\ q \in Mems /\ q.dir = r.dir /\ q.tab = r.tab /\ q.ref = r.ref
    /\ D2 \subseteq Pages /\ K2 \subseteq Pages /\ H2 \subseteq Pages
    /\ q.free \intersect D2 = {} /\ q.free \intersect K2 = {} /\ q.free \intersect H2 = {}
    /\ D2 \intersect K2 = {} /\ D2 \intersect H2 = {} /\ K2 \intersect H2 = {}
    /\ Plain(q, D2, K2, H2) = Plain(r, D, K, H)
    /\ \A d \in D \ D2, k \in Tables : r.dir[d][k] = 0

LEMMA Relabel ==
    ASSUME NEW r, NEW q, NEW D, NEW K, NEW H, NEW D2, NEW K2, NEW H2,
           Mem(r, D, K, H), Relabels(r, q, D, K, H, D2, K2, H2)
    PROVE  Mem(q, D2, K2, H2) /\ \A c \in Frames : SameSpace(r, q, c)
  <1>1. PICK kd, at, ix : Owned(r, kd, at, ix, D, K, H)
    BY DEF Mem
  <1>2. r \in Mems /\ q \in Mems
    BY DEF Mem, Relabels
  <1>3. PICK ke : ke = [p \in Pages |-> IF p \in q.free THEN "free"
                                        ELSE IF p \in D2 THEN "dir"
                                        ELSE IF p \in K2 THEN "stack"
                                        ELSE IF p \in H2 THEN "hand" ELSE kd[p]]
    OBVIOUS
  <1>4. kd \in [Pages -> Kinds] /\ at \in [Pages -> Frames] /\ ix \in [Pages -> Nat]
    BY <1>1 DEF Owned
  <1>5. ke \in [Pages -> Kinds]
    BY <1>3, <1>4 DEF Kinds
  <1>6. ASSUME NEW p \in Pages
        PROVE  /\ ke[p] = "free" <=> p \in q.free
               /\ ke[p] = "stack" <=> p \in K2
               /\ ke[p] = "dir" <=> p \in D2
               /\ ke[p] = "hand" <=> p \in H2
               /\ ke[p] \in {"table", "map"} <=> kd[p] \in {"table", "map"}
               /\ kd[p] \in {"table", "map"} => ke[p] = kd[p] /\ p \notin Plain(r, D, K, H)
    <2>1. /\ kd[p] = "free" <=> p \in r.free
          /\ kd[p] = "stack" <=> p \in K
          /\ kd[p] = "dir" <=> p \in D
          /\ kd[p] = "hand" <=> p \in H
      BY <1>1 DEF Owned
    <2>2. p \in Plain(r, D, K, H) <=> p \in q.free \/ p \in D2 \/ p \in K2 \/ p \in H2
      BY DEF Plain, Relabels
    <2>3. kd[p] \in Kinds
      BY <1>4
    <2>4. kd[p] \in {"table", "map"} <=> p \notin Plain(r, D, K, H)
      BY <2>1, <2>3 DEF Plain, Kinds
    <2>5. CASE p \in q.free
      <3>1. p \notin D2 /\ p \notin K2 /\ p \notin H2 /\ ke[p] = "free"
        BY <1>3, <2>5 DEF Relabels
      <3> QED BY <2>2, <2>4, <2>5, <3>1
    <2>6. CASE p \notin q.free /\ p \in D2
      <3>1. p \notin K2 /\ p \notin H2 /\ ke[p] = "dir"
        BY <1>3, <2>6 DEF Relabels
      <3> QED BY <2>2, <2>4, <2>6, <3>1
    <2>7. CASE p \notin q.free /\ p \notin D2 /\ p \in K2
      <3>1. p \notin H2 /\ ke[p] = "stack"
        BY <1>3, <2>7 DEF Relabels
      <3> QED BY <2>2, <2>4, <2>7, <3>1
    <2>8. CASE p \notin q.free /\ p \notin D2 /\ p \notin K2 /\ p \in H2
      <3>1. ke[p] = "hand"
        BY <1>3, <2>8
      <3> QED BY <2>2, <2>4, <2>8, <3>1
    <2>9. CASE p \notin q.free /\ p \notin D2 /\ p \notin K2 /\ p \notin H2
      <3>1. ke[p] = kd[p]
        BY <1>3, <2>9
      <3>2. kd[p] \in {"table", "map"}
        BY <2>2, <2>4, <2>9
      <3> QED BY <2>2, <2>4, <2>9, <3>1, <3>2
    <2> QED BY <2>5, <2>6, <2>7, <2>8, <2>9
  <1>7. r.dir \in [Frames -> [Tables -> Frames]] /\ r.tab \in [Pages -> [Slots -> Ptes]]
    BY <1>2, MemTypes
  <1>8. \A d \in Frames, k \in Tables : q.dir[d][k] # 0 =>
          /\ d \in D2 /\ ke[q.dir[d][k]] = "table"
          /\ at[q.dir[d][k]] = d /\ ix[q.dir[d][k]] = k
    <2>1. ASSUME NEW d \in Frames, NEW k \in Tables, NEW t, t = r.dir[d][k], t # 0
          PROVE  d \in D2 /\ ke[t] = "table" /\ at[t] = d /\ ix[t] = k
      <3>1. d \in D /\ kd[t] = "table" /\ at[t] = d /\ ix[t] = k
        BY <1>1, <2>1 DEF Owned
      <3>2. t \in Pages
        BY <1>7, <2>1, FrameKinds
      <3>3. d \in D2
        BY <2>1, <3>1 DEF Relabels
      <3> QED BY <1>6, <3>1, <3>2, <3>3
    <2>2. q.dir = r.dir
      BY DEF Relabels
    <2> QED BY <2>1, <2>2
  <1>9. \A p \in Pages : ke[p] = "table" => /\ at[p] \in D2 /\ ix[p] \in Tables
                                            /\ q.dir[at[p]][ix[p]] = p
    <2>1. ASSUME NEW p \in Pages, ke[p] = "table"
          PROVE  at[p] \in D2 /\ ix[p] \in Tables /\ q.dir[at[p]][ix[p]] = p
      <3>1. kd[p] = "table"
        BY <1>6, <2>1
      <3>2. at[p] \in D /\ ix[p] \in Tables /\ r.dir[at[p]][ix[p]] = p
        BY <1>1, <3>1 DEF Owned
      <3>3. p # 0
        BY FrameKinds
      <3> QED BY <3>2, <3>3 DEF Relabels
    <2> QED BY <2>1
  <1>10. \A t \in Pages, i \in Slots : q.tab[t][i].pg # 0 =>
          /\ ke[t] = "table" /\ ke[q.tab[t][i].pg] = "map"
          /\ at[q.tab[t][i].pg] = t /\ ix[q.tab[t][i].pg] = i
    <2>1. ASSUME NEW t \in Pages, NEW i \in Slots, NEW p, p = r.tab[t][i].pg, p # 0
          PROVE  ke[t] = "table" /\ ke[p] = "map" /\ at[p] = t /\ ix[p] = i
      <3>1. kd[t] = "table" /\ kd[p] = "map" /\ at[p] = t /\ ix[p] = i
        BY <1>1, <2>1 DEF Owned
      <3>2. p \in Pages
        <4>1. r.tab[t][i] \in Ptes
          BY <1>7
        <4> QED BY <2>1, <4>1, FrameKinds DEF Ptes
      <3> QED BY <1>6, <3>1, <3>2
    <2>2. q.tab = r.tab
      BY DEF Relabels
    <2> QED BY <2>1, <2>2
  <1>11. \A p \in Pages : ke[p] = "map" => /\ at[p] \in Pages /\ ix[p] \in Slots
                                           /\ q.tab[at[p]][ix[p]].pg = p
    <2>1. \A p \in Pages : ke[p] = "map" => kd[p] = "map"
      BY <1>6
    <2> QED BY <1>1, <2>1 DEF Owned, Relabels
  <1>12. \A t \in Pages, i \in Slots : q.tab[t][i].pg = 0 => q.tab[t][i] = NoPte
    BY <1>1 DEF Owned, Relabels
  <1>13. \A p \in Pages : q.ref[p] = IF ke[p] \in {"table", "map"} THEN 1 ELSE 0
    BY <1>1, <1>6 DEF Owned, Relabels
  <1>14. D2 \subseteq Pages /\ K2 \subseteq Pages /\ H2 \subseteq Pages
    BY DEF Relabels
  <1>15. \A p \in Pages : /\ ke[p] = "free" <=> p \in q.free
                          /\ ke[p] = "stack" <=> p \in K2
                          /\ ke[p] = "dir" <=> p \in D2
                          /\ ke[p] = "hand" <=> p \in H2
    BY <1>6
  <1>16. Owned(q, ke, at, ix, D2, K2, H2)
    BY <1>4, <1>5, <1>8, <1>9, <1>10, <1>11, <1>12, <1>13, <1>14, <1>15 DEF Owned
  <1>17. Mem(q, D2, K2, H2)
    BY <1>2, <1>16 DEF Mem
  <1>18. ASSUME NEW c \in Frames PROVE SameSpace(r, q, c)
    <2>1. /\ q.dir[c] = r.dir[c] /\ \A p \in Pages : q.tab[p] = r.tab[p]
      BY DEF Relabels
    <2> QED BY <1>1, <1>2, <2>1, SpaceKept
  <1> QED BY <1>17, <1>18

\* A free page becomes the table k of directory d.
Tables1(r, q, D, d, k, t) ==
    /\ d \in D /\ k \in Tables /\ t \in r.free /\ r.dir[d][k] = 0
    /\ q \in Mems /\ q.free = r.free \ {t} /\ q.ref = [r.ref EXCEPT ![t] = @ + 1]
    /\ q.tab = [r.tab EXCEPT ![t] = NoTab]
    /\ q.dir = [r.dir EXCEPT ![d] = [@ EXCEPT ![k] = t]]

LEMMA NewTable ==
    ASSUME NEW r, NEW q, NEW D, NEW K, NEW H, NEW d, NEW k, NEW t,
           Mem(r, D, K, H), Tables1(r, q, D, d, k, t)
    PROVE  /\ Mem(q, D, K, H) /\ \A c \in Frames \ {d} : SameSpace(r, q, c)
           /\ \A v \in VPages : Pte(q, d, v) = Pte(r, d, v)
  <1>1. PICK kd, at, ix : Owned(r, kd, at, ix, D, K, H)
    BY DEF Mem
  <1>2. r \in Mems /\ q \in Mems
    BY DEF Mem, Tables1
  <1>3. /\ r.dir \in [Frames -> [Tables -> Frames]] /\ r.tab \in [Pages -> [Slots -> Ptes]]
        /\ r.ref \in [Pages -> Int]
    BY <1>2, MemTypes
  <1>4. kd \in [Pages -> Kinds] /\ at \in [Pages -> Frames] /\ ix \in [Pages -> Nat]
        /\ D \subseteq Pages /\ K \subseteq Pages /\ H \subseteq Pages
    BY <1>1 DEF Owned
  <1>5. t \in Pages /\ d \in Frames /\ k \in Nat /\ k \in Tables /\ d \in D /\ t # 0
    <2>1. t \in Pages /\ d \in D /\ k \in Tables
      BY <1>2, MemTypes DEF Tables1
    <2>2. k \in Nat
      BY <2>1, Sizes DEF Tables
    <2> QED BY <1>4, <2>1, <2>2, FrameKinds
  <1>6. PICK ke, au, iy : /\ ke = [kd EXCEPT ![t] = "table"] /\ au = [at EXCEPT ![t] = d]
                          /\ iy = [ix EXCEPT ![t] = k]
    OBVIOUS
  <1>7. ke \in [Pages -> Kinds] /\ au \in [Pages -> Frames] /\ iy \in [Pages -> Nat]
    BY <1>4, <1>5, <1>6 DEF Kinds
  <1>8. kd[t] = "free"
    BY <1>1, <1>5 DEF Owned, Tables1
  <1>9. \A p \in Pages \ {t} : ke[p] = kd[p] /\ au[p] = at[p] /\ iy[p] = ix[p]
    BY <1>4, <1>6
  <1>10. ke[t] = "table" /\ au[t] = d /\ iy[t] = k
    BY <1>4, <1>5, <1>6
  <1>11. \A p \in Pages : p \in q.free <=> p \in r.free /\ p # t
    BY DEF Tables1
  <1>12. \A p \in Pages : /\ ke[p] = "free" <=> p \in q.free
                          /\ ke[p] = "stack" <=> p \in K
                          /\ ke[p] = "dir" <=> p \in D
                          /\ ke[p] = "hand" <=> p \in H
    BY <1>1, <1>5, <1>8, <1>9, <1>10, <1>11 DEF Owned
  <1>13. \A c \in Frames, j \in Tables :
            q.dir[c][j] = IF c = d /\ j = k THEN t ELSE r.dir[c][j]
    BY <1>3, <1>5 DEF Tables1
  <1>14. ASSUME NEW c \in Frames, NEW j \in Tables PROVE r.dir[c][j] # t
    <2>1. r.dir[c][j] # 0 => kd[r.dir[c][j]] = "table"
      BY <1>1 DEF Owned
    <2> QED BY <1>5, <1>8, <2>1
  <1>15. \A c \in Frames, j \in Tables : q.dir[c][j] # 0 =>
          /\ c \in D /\ ke[q.dir[c][j]] = "table"
          /\ au[q.dir[c][j]] = c /\ iy[q.dir[c][j]] = j
    <2>1. ASSUME NEW c \in Frames, NEW j \in Tables, NEW x, x = r.dir[c][j], x # 0
          PROVE  c \in D /\ ke[x] = "table" /\ au[x] = c /\ iy[x] = j
      <3>1. x \in Pages /\ x # t
        BY <1>3, <1>14, <2>1, FrameKinds
      <3>2. c \in D /\ kd[x] = "table" /\ at[x] = c /\ ix[x] = j
        BY <1>1, <2>1 DEF Owned
      <3> QED BY <1>9, <3>1, <3>2
    <2> QED BY <1>5, <1>10, <1>13, <2>1
  <1>16. \A p \in Pages : ke[p] = "table" => /\ au[p] \in D /\ iy[p] \in Tables
                                             /\ q.dir[au[p]][iy[p]] = p
    <2>1. ASSUME NEW p \in Pages \ {t}, kd[p] = "table"
          PROVE  at[p] \in D /\ ix[p] \in Tables /\ q.dir[at[p]][ix[p]] = p
      <3>1. at[p] \in D /\ ix[p] \in Tables /\ r.dir[at[p]][ix[p]] = p /\ p # 0
        BY <1>1, <2>1, FrameKinds DEF Owned
      <3>2. at[p] \in Frames /\ r.dir[d][k] = 0
        BY <1>4, <3>1, FrameKinds DEF Tables1
      <3> QED BY <1>13, <3>1, <3>2
    <2> QED BY <1>5, <1>9, <1>10, <1>13, <2>1
  <1>17. \A x \in Pages, i \in Slots : q.tab[x][i] = r.tab[x][i]
    <2>1. ASSUME NEW i \in Slots PROVE r.tab[t][i] = NoPte /\ NoTab[i] = NoPte
      <3>1. r.tab[t][i].pg = 0
        BY <1>1, <1>5, <1>8 DEF Owned
      <3> QED BY <1>1, <1>5, <3>1 DEF Owned, NoTab, Slots
    <2> QED BY <1>3, <2>1 DEF Tables1
  <1>18. \A x \in Pages, i \in Slots : q.tab[x][i].pg # 0 =>
          /\ ke[x] = "table" /\ ke[q.tab[x][i].pg] = "map"
          /\ au[q.tab[x][i].pg] = x /\ iy[q.tab[x][i].pg] = i
    <2>1. ASSUME NEW x \in Pages, NEW i \in Slots, NEW p, p = r.tab[x][i].pg, p # 0
          PROVE  ke[x] = "table" /\ ke[p] = "map" /\ au[p] = x /\ iy[p] = i
      <3>1. kd[x] = "table" /\ kd[p] = "map" /\ at[p] = x /\ ix[p] = i
        BY <1>1, <2>1 DEF Owned
      <3>2. p \in Pages
        <4>1. r.tab[x][i] \in Ptes
          BY <1>3
        <4> QED BY <2>1, <4>1, FrameKinds DEF Ptes
      <3> QED BY <1>8, <1>9, <3>1, <3>2
    <2> QED BY <1>17, <2>1
  <1>19. \A p \in Pages : ke[p] = "map" => /\ au[p] \in Pages /\ iy[p] \in Slots
                                           /\ q.tab[au[p]][iy[p]].pg = p
    <2>1. ASSUME NEW p \in Pages, ke[p] = "map"
          PROVE  /\ au[p] \in Pages /\ iy[p] \in Slots /\ q.tab[au[p]][iy[p]].pg = p
      <3>1. p # t /\ kd[p] = "map" /\ au[p] = at[p] /\ iy[p] = ix[p]
        BY <1>9, <1>10, <2>1
      <3>2. at[p] \in Pages /\ ix[p] \in Slots /\ r.tab[at[p]][ix[p]].pg = p
        BY <1>1, <3>1 DEF Owned
      <3> QED BY <1>17, <3>1, <3>2
    <2> QED BY <2>1
  <1>20. \A x \in Pages, i \in Slots : q.tab[x][i].pg = 0 => q.tab[x][i] = NoPte
    BY <1>1, <1>17 DEF Owned
  <1>21. \A p \in Pages : q.ref[p] = IF ke[p] \in {"table", "map"} THEN 1 ELSE 0
    <2>1. q.ref[t] = 1
      <3>1. r.ref[t] = 0
        BY <1>1, <1>5, <1>8 DEF Owned
      <3> QED BY <1>3, <1>5, <3>1 DEF Tables1
    <2>2. \A p \in Pages \ {t} : q.ref[p] = r.ref[p]
      BY <1>3 DEF Tables1
    <2> QED BY <1>1, <1>9, <1>10, <2>1, <2>2 DEF Owned
  <1>22. Owned(q, ke, au, iy, D, K, H)
    BY <1>4, <1>7, <1>12, <1>15, <1>16, <1>18, <1>19, <1>20, <1>21 DEF Owned
  <1>23. Mem(q, D, K, H)
    BY <1>2, <1>22 DEF Mem
  <1>24. ASSUME NEW c \in Frames \ {d} PROVE SameSpace(r, q, c)
    <2>1. q.dir[c] = r.dir[c]
      BY <1>3 DEF Tables1
    <2>2. \A p \in Pages : kd[p] = "table" /\ at[p] = c => q.tab[p] = r.tab[p]
      BY <1>3, <1>8 DEF Tables1
    <2> QED BY <1>1, <1>2, <2>1, <2>2, SpaceKept
  <1>25. ASSUME NEW v \in VPages PROVE Pte(q, d, v) = Pte(r, d, v)
    <2>1. Tb(v) \in Tables /\ Ix(v) \in Slots
      BY Parts
    <2>2. CASE Tb(v) = k
      <3>1. q.dir[d][Tb(v)] = t /\ r.dir[d][Tb(v)] = 0
        BY <1>5, <1>13, <2>2 DEF Tables1
      <3>2. Pte(r, d, v) = NoPte
        BY <3>1, PteIs
      <3>3. Pte(q, d, v) = q.tab[t][Ix(v)]
        BY <1>5, <3>1, PteIs
      <3>4. q.tab[t][Ix(v)] = NoPte
        BY <1>3, <1>5, <2>1 DEF Tables1, NoTab, Slots
      <3> QED BY <3>2, <3>3, <3>4
    <2>3. CASE Tb(v) # k
      <3>1. q.dir[d][Tb(v)] = r.dir[d][Tb(v)] /\ r.dir[d][Tb(v)] \in Frames
        BY <1>3, <1>5, <1>13, <2>1, <2>3
      <3> QED BY <1>17, <2>1, <3>1, PteIs, FrameKinds
    <2> QED BY <2>2, <2>3
  <1> QED BY <1>23, <1>24, <1>25

\* A page in hand is mapped, with pte e, at entry i of table k of directory d.
Maps1(r, q, D, H, d, k, i, e, p) ==
    /\ d \in D /\ k \in Tables /\ i \in Slots /\ p \in H /\ p = e.pg
    /\ r.dir[d][k] # 0 /\ r.tab[r.dir[d][k]][i].pg = 0
    /\ q \in Mems /\ q.free = r.free
    /\ \A x \in Pages : q.ref[x] = IF x = p THEN r.ref[x] + 1 ELSE r.ref[x]
    /\ \A x \in Pages, j \in Slots :
          q.tab[x][j] = IF x = r.dir[d][k] /\ j = i THEN e ELSE r.tab[x][j]
    /\ q.dir = r.dir

EntrySet(r, q, d, k, i, e) ==
    \A v \in VPages : Pte(q, d, v) = IF Tb(v) = k /\ Ix(v) = i THEN e ELSE Pte(r, d, v)

LEMMA MapHand ==
    ASSUME NEW r, NEW q, NEW D, NEW K, NEW H, NEW d, NEW k, NEW i, NEW e, NEW p,
           Mem(r, D, K, H), Maps1(r, q, D, H, d, k, i, e, p)
    PROVE  /\ Mem(q, D, K, H \ {p}) /\ \A c \in Frames \ {d} : SameSpace(r, q, c)
           /\ EntrySet(r, q, d, k, i, e)
  <1>0. p = e.pg
    BY DEF Maps1
  <1>1. PICK kd, at, ix : Owned(r, kd, at, ix, D, K, H)
    BY DEF Mem
  <1>2. r \in Mems /\ q \in Mems
    BY DEF Mem, Maps1
  <1>3. /\ r.dir \in [Frames -> [Tables -> Frames]] /\ r.tab \in [Pages -> [Slots -> Ptes]]
        /\ r.ref \in [Pages -> Int] /\ q.tab \in [Pages -> [Slots -> Ptes]]
    BY <1>2, MemTypes
  <1>4. kd \in [Pages -> Kinds] /\ at \in [Pages -> Frames] /\ ix \in [Pages -> Nat]
        /\ D \subseteq Pages /\ K \subseteq Pages /\ H \subseteq Pages
    BY <1>1 DEF Owned
  <1>5. d \in Frames /\ d \in D /\ k \in Tables /\ i \in Slots /\ i \in Nat /\ p \in Pages
        /\ p \in H /\ p # 0
    BY <1>0, <1>4, FrameKinds, Sizes DEF Maps1, Slots
  <1>6. PICK t \in Pages : t = r.dir[d][k] /\ kd[t] = "table" /\ at[t] = d /\ ix[t] = k
    BY <1>1, <1>3, <1>5, FrameKinds DEF Maps1, Owned
  <1>7. kd[p] = "hand" /\ t # p
    BY <1>1, <1>5, <1>6 DEF Owned
  <1>8. PICK ke, au, iy : /\ ke = [kd EXCEPT ![p] = "map"] /\ au = [at EXCEPT ![p] = t]
                          /\ iy = [ix EXCEPT ![p] = i]
    OBVIOUS
  <1>9. ke \in [Pages -> Kinds] /\ au \in [Pages -> Frames] /\ iy \in [Pages -> Nat]
    BY <1>4, <1>5, <1>6, <1>8, FrameKinds DEF Kinds
  <1>10. \A x \in Pages \ {p} : ke[x] = kd[x] /\ au[x] = at[x] /\ iy[x] = ix[x]
    BY <1>4, <1>8
  <1>11. ke[p] = "map" /\ au[p] = t /\ iy[p] = i
    BY <1>4, <1>5, <1>8
  <1>12. \A x \in Pages : /\ ke[x] = "free" <=> x \in q.free
                          /\ ke[x] = "stack" <=> x \in K
                          /\ ke[x] = "dir" <=> x \in D
                          /\ ke[x] = "hand" <=> x \in H \ {p}
    BY <1>0, <1>1, <1>7, <1>10, <1>11 DEF Owned, Maps1
  <1>13. q.dir = r.dir
    BY DEF Maps1
  <1>14. \A c \in Frames, j \in Tables : q.dir[c][j] # 0 =>
          /\ c \in D /\ ke[q.dir[c][j]] = "table"
          /\ au[q.dir[c][j]] = c /\ iy[q.dir[c][j]] = j
    <2>1. ASSUME NEW c \in Frames, NEW j \in Tables, NEW x, x = r.dir[c][j], x # 0
          PROVE  c \in D /\ ke[x] = "table" /\ au[x] = c /\ iy[x] = j
      <3>1. c \in D /\ kd[x] = "table" /\ at[x] = c /\ ix[x] = j
        BY <1>1, <2>1 DEF Owned
      <3>2. x \in Pages /\ x # p
        BY <1>3, <1>7, <2>1, <3>1, FrameKinds
      <3> QED BY <1>10, <3>1, <3>2
    <2> QED BY <1>13, <2>1
  <1>15. \A x \in Pages : ke[x] = "table" => /\ au[x] \in D /\ iy[x] \in Tables
                                             /\ q.dir[au[x]][iy[x]] = x
    BY <1>1, <1>10, <1>11, <1>13 DEF Owned
  <1>16. \A x \in Pages, j \in Slots :
            q.tab[x][j] = IF x = t /\ j = i THEN e ELSE r.tab[x][j]
    BY <1>6 DEF Maps1
  <1>17. \A x \in Pages, j \in Slots : r.tab[x][j].pg # p
    BY <1>1, <1>5, <1>7 DEF Owned
  <1>18. \A x \in Pages, j \in Slots : q.tab[x][j].pg # 0 =>
          /\ ke[x] = "table" /\ ke[q.tab[x][j].pg] = "map"
          /\ au[q.tab[x][j].pg] = x /\ iy[q.tab[x][j].pg] = j
    <2>1. ASSUME NEW x \in Pages, NEW j \in Slots, NEW y, y = r.tab[x][j].pg, y # 0
          PROVE  ke[x] = "table" /\ ke[y] = "map" /\ au[y] = x /\ iy[y] = j
      <3>1. kd[x] = "table" /\ kd[y] = "map" /\ at[y] = x /\ ix[y] = j
        BY <1>1, <2>1 DEF Owned
      <3>2. y \in Pages /\ y # p
        <4>1. r.tab[x][j] \in Ptes
          BY <1>3
        <4> QED BY <1>17, <2>1, <4>1, FrameKinds DEF Ptes
      <3>3. x # p
        BY <1>7, <3>1
      <3> QED BY <1>10, <3>1, <3>2, <3>3
    <2>2. ke[t] = "table"
      BY <1>6, <1>7, <1>10
    <2> QED BY <1>0, <1>11, <1>16, <2>1, <2>2
  <1>19. \A x \in Pages : ke[x] = "map" => /\ au[x] \in Pages /\ iy[x] \in Slots
                                           /\ q.tab[au[x]][iy[x]].pg = x
    <2>1. ASSUME NEW x \in Pages \ {p}, kd[x] = "map"
          PROVE  at[x] \in Pages /\ ix[x] \in Slots /\ q.tab[at[x]][ix[x]].pg = x
      <3>1. at[x] \in Pages /\ ix[x] \in Slots /\ r.tab[at[x]][ix[x]].pg = x /\ x # 0
        BY <1>1, <2>1, FrameKinds DEF Owned
      <3>2. r.tab[t][i].pg = 0
        BY <1>6 DEF Maps1
      <3> QED BY <1>16, <3>1, <3>2
    <2>2. q.tab[t][i].pg = p
      BY <1>0, <1>5, <1>16
    <2> QED BY <1>5, <1>10, <1>11, <2>1, <2>2
  <1>20. ASSUME NEW x \in Pages, NEW j \in Slots, q.tab[x][j].pg = 0
         PROVE  q.tab[x][j] = NoPte
    <2>1. ~(x = t /\ j = i)
      BY <1>0, <1>5, <1>16, <1>20
    <2>2. q.tab[x][j] = r.tab[x][j]
      BY <1>16, <2>1
    <2> QED BY <1>1, <1>20, <2>2 DEF Owned
  <1>21. \A x \in Pages : q.ref[x] = IF ke[x] \in {"table", "map"} THEN 1 ELSE 0
    <2>1. q.ref[p] = 1
      <3>1. r.ref[p] = 0
        BY <1>1, <1>5, <1>7 DEF Owned
      <3> QED BY <1>0, <1>3, <1>5, <3>1 DEF Maps1
    <2>2. \A x \in Pages \ {p} : q.ref[x] = r.ref[x]
      BY <1>0, <1>3 DEF Maps1
    <2> QED BY <1>1, <1>10, <1>11, <2>1, <2>2 DEF Owned
  <1>22. Owned(q, ke, au, iy, D, K, H \ {p})
    BY <1>4, <1>9, <1>12, <1>14, <1>15, <1>18, <1>19, <1>20, <1>21 DEF Owned
  <1>23. Mem(q, D, K, H \ {p})
    BY <1>2, <1>22 DEF Mem
  <1>24. ASSUME NEW c \in Frames \ {d} PROVE SameSpace(r, q, c)
    <2>1. q.dir[c] = r.dir[c]
      BY <1>13
    <2>2. ASSUME NEW x \in Pages, kd[x] = "table", at[x] = c PROVE q.tab[x] = r.tab[x]
      <3>1. x # t
        BY <1>6, <2>2
      <3>2. \A j \in Slots : q.tab[x][j] = r.tab[x][j]
        BY <1>16, <3>1
      <3>3. q.tab[x] \in [Slots -> Ptes] /\ r.tab[x] \in [Slots -> Ptes]
        BY <1>3
      <3> QED BY <3>2, <3>3
    <2> QED BY <1>1, <1>2, <2>1, <2>2, SpaceKept
  <1>25. ASSUME NEW v \in VPages
         PROVE  Pte(q, d, v) = IF Tb(v) = k /\ Ix(v) = i THEN e ELSE Pte(r, d, v)
    <2>1. Tb(v) \in Tables /\ Ix(v) \in Slots
      BY Parts
    <2>2. r.dir[d][Tb(v)] \in Frames
      BY <1>3, <1>5, <2>1
    <2>3. CASE Tb(v) = k
      <3>1. r.dir[d][Tb(v)] = t /\ t # 0
        BY <1>6, <2>3, FrameKinds
      <3>2. Pte(q, d, v) = q.tab[t][Ix(v)] /\ Pte(r, d, v) = r.tab[t][Ix(v)]
        BY <1>13, <3>1, PteIs
      <3> QED BY <1>16, <2>1, <2>3, <3>2
    <2>4. CASE Tb(v) # k
      <3>1. r.dir[d][Tb(v)] # 0 => r.dir[d][Tb(v)] \in Pages /\ r.dir[d][Tb(v)] # t
        BY <1>1, <1>5, <1>6, <2>1, <2>2, <2>4, FrameKinds DEF Owned
      <3>2. r.dir[d][Tb(v)] # 0 => q.tab[r.dir[d][Tb(v)]][Ix(v)] = r.tab[r.dir[d][Tb(v)]][Ix(v)]
        BY <1>16, <2>1, <3>1
      <3> QED BY <1>13, <2>4, <3>2, PteIs
    <2> QED BY <2>3, <2>4
  <1> QED BY <1>0, <1>23, <1>24, <1>25 DEF EntrySet

\* The page mapped at entry i of table k of directory d becomes free.
Unmaps1(r, q, d, k, i, p) ==
    /\ d \in Frames /\ k \in Tables /\ i \in Slots /\ p # 0
    /\ r.dir[d][k] # 0 /\ r.tab[r.dir[d][k]][i].pg = p
    /\ q \in Mems /\ q.free = r.free \union {p}
    /\ \A x \in Pages : q.ref[x] = IF x = p THEN 0 ELSE r.ref[x]
    /\ \A x \in Pages, j \in Slots :
          q.tab[x][j] = IF x = r.dir[d][k] /\ j = i THEN NoPte ELSE r.tab[x][j]
    /\ q.dir = r.dir

LEMMA Unmap ==
    ASSUME NEW r, NEW q, NEW D, NEW K, NEW H, NEW d, NEW k, NEW i, NEW p,
           Mem(r, D, K, H), Unmaps1(r, q, d, k, i, p)
    PROVE  /\ Mem(q, D, K, H) /\ \A c \in Frames \ {d} : SameSpace(r, q, c)
           /\ \A v \in VPages : Pte(q, d, v) = IF Tb(v) = k /\ Ix(v) = i
                                               THEN NoPte ELSE Pte(r, d, v)
  <1>1. PICK kd, at, ix : Owned(r, kd, at, ix, D, K, H)
    BY DEF Mem
  <1>2. r \in Mems /\ q \in Mems
    BY DEF Mem, Unmaps1
  <1>3. /\ r.dir \in [Frames -> [Tables -> Frames]] /\ r.tab \in [Pages -> [Slots -> Ptes]]
        /\ r.ref \in [Pages -> Int] /\ q.tab \in [Pages -> [Slots -> Ptes]]
    BY <1>2, MemTypes
  <1>4. kd \in [Pages -> Kinds] /\ at \in [Pages -> Frames] /\ ix \in [Pages -> Nat]
        /\ D \subseteq Pages /\ K \subseteq Pages /\ H \subseteq Pages
    BY <1>1 DEF Owned
  <1>5. d \in Frames /\ k \in Tables /\ i \in Slots /\ p # 0
    BY DEF Unmaps1
  <1>6. PICK t \in Pages : t = r.dir[d][k]
    <2>1. r.dir[d][k] \in Frames
      BY <1>3, <1>5
    <2> QED BY <2>1, FrameKinds DEF Unmaps1
  <1>7. kd[t] = "table" /\ at[t] = d /\ ix[t] = k
    BY <1>1, <1>5, <1>6 DEF Unmaps1, Owned
  <1>8. p \in Pages /\ r.tab[t][i].pg = p
    <2>1. r.tab[t][i].pg = p
      BY <1>6 DEF Unmaps1
    <2>2. r.tab[t][i] \in Ptes
      BY <1>3, <1>5
    <2> QED BY <1>5, <2>1, <2>2, FrameKinds DEF Ptes
  <1>9. kd[p] = "map" /\ at[p] = t /\ ix[p] = i /\ p # t
    BY <1>1, <1>5, <1>7, <1>8 DEF Owned
  <1>10. PICK ke : ke = [kd EXCEPT ![p] = "free"]
    OBVIOUS
  <1>11. ke \in [Pages -> Kinds] /\ ke[p] = "free" /\ \A x \in Pages \ {p} : ke[x] = kd[x]
    BY <1>4, <1>8, <1>10 DEF Kinds
  <1>12. \A x \in Pages : /\ ke[x] = "free" <=> x \in q.free
                          /\ ke[x] = "stack" <=> x \in K
                          /\ ke[x] = "dir" <=> x \in D
                          /\ ke[x] = "hand" <=> x \in H
    <2>1. \A x \in Pages : x \in q.free <=> x \in r.free \/ x = p
      BY DEF Unmaps1
    <2>2. \A x \in Pages : /\ kd[x] = "free" <=> x \in r.free
                           /\ kd[x] = "stack" <=> x \in K
                           /\ kd[x] = "dir" <=> x \in D
                           /\ kd[x] = "hand" <=> x \in H
      BY <1>1 DEF Owned
    <2> QED BY <1>8, <1>9, <1>11, <2>1, <2>2
  <1>13. q.dir = r.dir
    BY DEF Unmaps1
  <1>14. \A c \in Frames, j \in Tables : q.dir[c][j] # 0 =>
          /\ c \in D /\ ke[q.dir[c][j]] = "table"
          /\ at[q.dir[c][j]] = c /\ ix[q.dir[c][j]] = j
    <2>1. ASSUME NEW c \in Frames, NEW j \in Tables, NEW x, x = r.dir[c][j], x # 0
          PROVE  c \in D /\ ke[x] = "table" /\ at[x] = c /\ ix[x] = j
      <3>1. c \in D /\ kd[x] = "table" /\ at[x] = c /\ ix[x] = j
        BY <1>1, <2>1 DEF Owned
      <3>2. x \in Pages /\ x # p
        BY <1>3, <1>9, <2>1, <3>1, FrameKinds
      <3> QED BY <1>11, <3>1, <3>2
    <2> QED BY <1>13, <2>1
  <1>15. \A x \in Pages : ke[x] = "table" => /\ at[x] \in D /\ ix[x] \in Tables
                                             /\ q.dir[at[x]][ix[x]] = x
    BY <1>1, <1>11, <1>13 DEF Owned
  <1>16. \A x \in Pages, j \in Slots :
            q.tab[x][j] = IF x = t /\ j = i THEN NoPte ELSE r.tab[x][j]
    BY <1>6 DEF Unmaps1
  <1>17. ASSUME NEW x \in Pages, NEW j \in Slots, ~(x = t /\ j = i) PROVE r.tab[x][j].pg # p
    <2>1. r.tab[x][j].pg # 0 => at[r.tab[x][j].pg] = x /\ ix[r.tab[x][j].pg] = j
      BY <1>1 DEF Owned
    <2> QED BY <1>5, <1>9, <1>17, <2>1
  <1>18. \A x \in Pages, j \in Slots : q.tab[x][j].pg # 0 =>
          /\ ke[x] = "table" /\ ke[q.tab[x][j].pg] = "map"
          /\ at[q.tab[x][j].pg] = x /\ ix[q.tab[x][j].pg] = j
    <2>1. ASSUME NEW x \in Pages, NEW j \in Slots, NEW y, y = r.tab[x][j].pg, y # 0,
                 ~(x = t /\ j = i)
          PROVE  ke[x] = "table" /\ ke[y] = "map" /\ at[y] = x /\ ix[y] = j
      <3>1. kd[x] = "table" /\ kd[y] = "map" /\ at[y] = x /\ ix[y] = j
        BY <1>1, <2>1 DEF Owned
      <3>2. y \in Pages /\ y # p
        <4>1. r.tab[x][j] \in Ptes
          BY <1>3
        <4> QED BY <1>17, <2>1, <4>1, FrameKinds DEF Ptes
      <3>3. x # p
        BY <1>9, <3>1
      <3> QED BY <1>11, <3>1, <3>2, <3>3
    <2>2. NoPte.pg = 0
      BY DEF NoPte
    <2>3. ASSUME NEW x \in Pages, NEW j \in Slots, q.tab[x][j].pg # 0
          PROVE  q.tab[x][j] = r.tab[x][j] /\ ~(x = t /\ j = i)
      BY <1>16, <2>2, <2>3
    <2> QED BY <2>1, <2>3
  <1>19. \A x \in Pages : ke[x] = "map" => /\ at[x] \in Pages /\ ix[x] \in Slots
                                           /\ q.tab[at[x]][ix[x]].pg = x
    <2>1. ASSUME NEW x \in Pages, ke[x] = "map"
          PROVE  at[x] \in Pages /\ ix[x] \in Slots /\ q.tab[at[x]][ix[x]].pg = x
      <3>1. x # p /\ kd[x] = "map"
        BY <1>11, <2>1
      <3>2. at[x] \in Pages /\ ix[x] \in Slots /\ r.tab[at[x]][ix[x]].pg = x
        BY <1>1, <3>1 DEF Owned
      <3>3. ~(at[x] = t /\ ix[x] = i)
        BY <1>8, <3>1, <3>2
      <3> QED BY <1>16, <3>2, <3>3
    <2> QED BY <2>1
  <1>20. ASSUME NEW x \in Pages, NEW j \in Slots, q.tab[x][j].pg = 0
         PROVE  q.tab[x][j] = NoPte
    <2>1. CASE x = t /\ j = i
      BY <1>16, <2>1
    <2>2. CASE ~(x = t /\ j = i)
      <3>1. q.tab[x][j] = r.tab[x][j]
        BY <1>16, <2>2
      <3> QED BY <1>1, <1>20, <3>1 DEF Owned
    <2> QED BY <2>1, <2>2
  <1>21. \A x \in Pages : q.ref[x] = IF ke[x] \in {"table", "map"} THEN 1 ELSE 0
    <2>1. \A x \in Pages : q.ref[x] = IF x = p THEN 0 ELSE r.ref[x]
      BY DEF Unmaps1
    <2> QED BY <1>1, <1>11, <2>1 DEF Owned
  <1>22. Owned(q, ke, at, ix, D, K, H)
    BY <1>4, <1>11, <1>12, <1>14, <1>15, <1>18, <1>19, <1>20, <1>21 DEF Owned
  <1>23. Mem(q, D, K, H)
    BY <1>2, <1>22 DEF Mem
  <1>24. ASSUME NEW c \in Frames \ {d} PROVE SameSpace(r, q, c)
    <2>1. q.dir[c] = r.dir[c]
      BY <1>13
    <2>2. ASSUME NEW x \in Pages, kd[x] = "table", at[x] = c PROVE q.tab[x] = r.tab[x]
      <3>1. x # t
        BY <1>7, <2>2
      <3>2. \A j \in Slots : q.tab[x][j] = r.tab[x][j]
        BY <1>16, <3>1
      <3>3. q.tab[x] \in [Slots -> Ptes] /\ r.tab[x] \in [Slots -> Ptes]
        BY <1>3
      <3> QED BY <3>2, <3>3
    <2> QED BY <1>1, <1>2, <2>1, <2>2, SpaceKept
  <1>25. ASSUME NEW v \in VPages
         PROVE  Pte(q, d, v) = IF Tb(v) = k /\ Ix(v) = i THEN NoPte ELSE Pte(r, d, v)
    <2>1. Tb(v) \in Tables /\ Ix(v) \in Slots
      BY Parts
    <2>2. r.dir[d][Tb(v)] \in Frames
      BY <1>3, <1>5, <2>1
    <2>3. CASE Tb(v) = k
      <3>1. r.dir[d][Tb(v)] = t /\ t # 0
        BY <1>6, <2>3, FrameKinds
      <3>2. Pte(q, d, v) = q.tab[t][Ix(v)] /\ Pte(r, d, v) = r.tab[t][Ix(v)]
        BY <1>13, <3>1, PteIs
      <3> QED BY <1>16, <2>1, <2>3, <3>2
    <2>4. CASE Tb(v) # k
      <3>1. r.dir[d][Tb(v)] # 0 => r.dir[d][Tb(v)] \in Pages /\ r.dir[d][Tb(v)] # t
        BY <1>1, <1>5, <1>7, <2>1, <2>2, <2>4, FrameKinds DEF Owned
      <3>2. r.dir[d][Tb(v)] # 0 => q.tab[r.dir[d][Tb(v)]][Ix(v)] = r.tab[r.dir[d][Tb(v)]][Ix(v)]
        BY <1>16, <2>1, <3>1
      <3> QED BY <1>13, <2>4, <3>2, PteIs
    <2> QED BY <2>3, <2>4
  <1> QED BY <1>23, <1>24, <1>25

\* Tables ts of directory d, which map nothing, become free.
FreesTables(r, q, d, ts) ==
    /\ d \in Frames /\ ts \subseteq Tables
    /\ \A k \in ts : r.dir[d][k] # 0 /\ \A j \in Slots : r.tab[r.dir[d][k]][j].pg = 0
    /\ q \in Mems
    /\ \A x \in Pages : x \in q.free <=> x \in r.free \/ \E k \in ts : x = r.dir[d][k]
    /\ \A x \in Pages : q.ref[x] = IF \E k \in ts : x = r.dir[d][k] THEN 0 ELSE r.ref[x]
    /\ \A x \in Pages, j \in Slots : q.tab[x][j] = r.tab[x][j]
    /\ \A c \in Frames, j \in Tables :
          q.dir[c][j] = IF c = d /\ j \in ts THEN 0 ELSE r.dir[c][j]

LEMMA FreeTables ==
    ASSUME NEW r, NEW q, NEW D, NEW K, NEW H, NEW d, NEW ts,
           Mem(r, D, K, H), FreesTables(r, q, d, ts)
    PROVE  /\ Mem(q, D, K, H) /\ \A c \in Frames \ {d} : SameSpace(r, q, c)
           /\ \A v \in VPages : Pte(q, d, v) = Pte(r, d, v)
  <1>1. PICK kd, at, ix : Owned(r, kd, at, ix, D, K, H)
    BY DEF Mem
  <1>2. r \in Mems /\ q \in Mems
    BY DEF Mem, FreesTables
  <1>3. /\ r.dir \in [Frames -> [Tables -> Frames]] /\ r.tab \in [Pages -> [Slots -> Ptes]]
        /\ q.dir \in [Frames -> [Tables -> Frames]] /\ q.tab \in [Pages -> [Slots -> Ptes]]
    BY <1>2, MemTypes
  <1>4. kd \in [Pages -> Kinds] /\ at \in [Pages -> Frames] /\ ix \in [Pages -> Nat]
        /\ D \subseteq Pages /\ K \subseteq Pages /\ H \subseteq Pages
    BY <1>1 DEF Owned
  <1>5. d \in Frames /\ ts \subseteq Tables
    BY DEF FreesTables
  <1>6. PICK S : \A x : x \in S <=> x \in Pages /\ \E k \in ts : x = r.dir[d][k]
    <2>1. \A x : x \in {y \in Pages : \E k \in ts : y = r.dir[d][k]}
                    <=> x \in Pages /\ \E k \in ts : x = r.dir[d][k]
      OBVIOUS
    <2> QED BY <2>1
  <1>7. ASSUME NEW x \in S
        PROVE  kd[x] = "table" /\ at[x] = d /\ ix[x] \in ts /\ \A j \in Slots : r.tab[x][j].pg = 0
    <2>1. PICK k \in ts : x = r.dir[d][k]
      BY <1>6
    <2>2. k \in Tables /\ r.dir[d][k] # 0 /\ \A j \in Slots : r.tab[r.dir[d][k]][j].pg = 0
      BY <2>1 DEF FreesTables
    <2>3. kd[x] = "table" /\ at[x] = d /\ ix[x] = k
      BY <1>1, <1>5, <2>1, <2>2 DEF Owned
    <2> QED BY <2>1, <2>2, <2>3
  <1>8. PICK ke : ke = [x \in Pages |-> IF x \in S THEN "free" ELSE kd[x]]
    OBVIOUS
  <1>9. ke \in [Pages -> Kinds] /\ \A x \in Pages : ke[x] = IF x \in S THEN "free" ELSE kd[x]
    BY <1>4, <1>8 DEF Kinds
  <1>10. ASSUME NEW x \in Pages
         PROVE  /\ ke[x] = "free" <=> x \in q.free
                /\ ke[x] = "stack" <=> x \in K
                /\ ke[x] = "dir" <=> x \in D
                /\ ke[x] = "hand" <=> x \in H
    <2>1. x \in q.free <=> x \in r.free \/ x \in S
      BY <1>6 DEF FreesTables
    <2>2. /\ kd[x] = "free" <=> x \in r.free
          /\ kd[x] = "stack" <=> x \in K
          /\ kd[x] = "dir" <=> x \in D
          /\ kd[x] = "hand" <=> x \in H
      BY <1>1 DEF Owned
    <2>3. x \in S => kd[x] = "table"
      BY <1>7
    <2> QED BY <1>9, <2>1, <2>2, <2>3
  <1>11. \A c \in Frames, j \in Tables :
            q.dir[c][j] = IF c = d /\ j \in ts THEN 0 ELSE r.dir[c][j]
    BY DEF FreesTables
  <1>12. \A c \in Frames, j \in Tables : q.dir[c][j] # 0 =>
          /\ c \in D /\ ke[q.dir[c][j]] = "table"
          /\ at[q.dir[c][j]] = c /\ ix[q.dir[c][j]] = j
    <2>1. ASSUME NEW c \in Frames, NEW j \in Tables, q.dir[c][j] # 0
          PROVE  /\ c \in D /\ ke[q.dir[c][j]] = "table"
                 /\ at[q.dir[c][j]] = c /\ ix[q.dir[c][j]] = j
      <3>1. ~(c = d /\ j \in ts) /\ q.dir[c][j] = r.dir[c][j]
        BY <1>11, <2>1
      <3>2. PICK x : x = r.dir[c][j]
        OBVIOUS
      <3>3. x \in Pages /\ c \in D /\ kd[x] = "table" /\ at[x] = c /\ ix[x] = j
        <4>1. x \in Frames /\ x # 0
          BY <1>3, <2>1, <3>1, <3>2
        <4> QED BY <1>1, <3>2, <4>1, FrameKinds DEF Owned
      <3>4. x \notin S
        BY <1>7, <3>1, <3>3
      <3> QED BY <1>9, <3>1, <3>2, <3>3, <3>4
    <2> QED BY <2>1
  <1>13. \A x \in Pages : ke[x] = "table" => /\ at[x] \in D /\ ix[x] \in Tables
                                             /\ q.dir[at[x]][ix[x]] = x
    <2>1. ASSUME NEW x \in Pages, ke[x] = "table"
          PROVE  at[x] \in D /\ ix[x] \in Tables /\ q.dir[at[x]][ix[x]] = x
      <3>1. x \notin S /\ kd[x] = "table"
        BY <1>9, <2>1
      <3>2. at[x] \in D /\ ix[x] \in Tables /\ r.dir[at[x]][ix[x]] = x
        BY <1>1, <3>1 DEF Owned
      <3>3. ~(at[x] = d /\ ix[x] \in ts)
        BY <1>6, <3>1, <3>2
      <3>4. at[x] \in Frames
        BY <1>4
      <3> QED BY <1>11, <3>2, <3>3, <3>4
    <2> QED BY <2>1
  <1>14. \A x \in Pages, j \in Slots : q.tab[x][j] = r.tab[x][j]
    BY DEF FreesTables
  <1>15. \A x \in Pages, j \in Slots : q.tab[x][j].pg # 0 =>
          /\ ke[x] = "table" /\ ke[q.tab[x][j].pg] = "map"
          /\ at[q.tab[x][j].pg] = x /\ ix[q.tab[x][j].pg] = j
    <2>1. ASSUME NEW x \in Pages, NEW j \in Slots, NEW y, y = r.tab[x][j].pg, y # 0
          PROVE  ke[x] = "table" /\ ke[y] = "map" /\ at[y] = x /\ ix[y] = j
      <3>1. kd[x] = "table" /\ kd[y] = "map" /\ at[y] = x /\ ix[y] = j
        BY <1>1, <2>1 DEF Owned
      <3>2. y \in Pages
        <4>1. r.tab[x][j] \in Ptes
          BY <1>3
        <4> QED BY <2>1, <4>1, FrameKinds DEF Ptes
      <3>3. x \notin S /\ y \notin S
        BY <1>7, <2>1, <3>1
      <3> QED BY <1>9, <3>1, <3>2, <3>3
    <2> QED BY <1>14, <2>1
  <1>16. \A x \in Pages : ke[x] = "map" => /\ at[x] \in Pages /\ ix[x] \in Slots
                                           /\ q.tab[at[x]][ix[x]].pg = x
    <2>1. ASSUME NEW x \in Pages, ke[x] = "map"
          PROVE  at[x] \in Pages /\ ix[x] \in Slots /\ q.tab[at[x]][ix[x]].pg = x
      <3>1. kd[x] = "map"
        BY <1>9, <2>1
      <3>2. at[x] \in Pages /\ ix[x] \in Slots /\ r.tab[at[x]][ix[x]].pg = x
        BY <1>1, <3>1 DEF Owned
      <3> QED BY <1>14, <3>2
    <2> QED BY <2>1
  <1>17. \A x \in Pages, j \in Slots : q.tab[x][j].pg = 0 => q.tab[x][j] = NoPte
    BY <1>1, <1>14 DEF Owned
  <1>18. ASSUME NEW x \in Pages PROVE q.ref[x] = IF ke[x] \in {"table", "map"} THEN 1 ELSE 0
    <2>1. q.ref[x] = IF x \in S THEN 0 ELSE r.ref[x]
      BY <1>6 DEF FreesTables
    <2>2. r.ref[x] = IF kd[x] \in {"table", "map"} THEN 1 ELSE 0
      BY <1>1 DEF Owned
    <2> QED BY <1>9, <2>1, <2>2
  <1>19. Owned(q, ke, at, ix, D, K, H)
    BY <1>4, <1>9, <1>10, <1>12, <1>13, <1>15, <1>16, <1>17, <1>18 DEF Owned
  <1>20. Mem(q, D, K, H)
    BY <1>2, <1>19 DEF Mem
  <1>21. ASSUME NEW c \in Frames \ {d} PROVE SameSpace(r, q, c)
    <2>1. q.dir[c] = r.dir[c]
      <3>1. \A j \in Tables : q.dir[c][j] = r.dir[c][j]
        BY <1>11
      <3>2. q.dir[c] \in [Tables -> Frames] /\ r.dir[c] \in [Tables -> Frames]
        BY <1>3
      <3> QED BY <3>1, <3>2
    <2>2. ASSUME NEW x \in Pages PROVE q.tab[x] = r.tab[x]
      <3>1. q.tab[x] \in [Slots -> Ptes] /\ r.tab[x] \in [Slots -> Ptes]
        BY <1>3
      <3> QED BY <1>14, <3>1
    <2> QED BY <1>1, <1>2, <2>1, <2>2, SpaceKept
  <1>22. ASSUME NEW v \in VPages PROVE Pte(q, d, v) = Pte(r, d, v)
    <2>1. Tb(v) \in Tables /\ Ix(v) \in Slots
      BY Parts
    <2>2. r.dir[d][Tb(v)] \in Frames
      BY <1>3, <1>5, <2>1
    <2>3. CASE Tb(v) \in ts
      <3>1. q.dir[d][Tb(v)] = 0
        BY <1>5, <1>11, <2>3
      <3>2. PICK t : t = r.dir[d][Tb(v)]
        OBVIOUS
      <3>3. t # 0 /\ r.tab[t][Ix(v)].pg = 0
        BY <2>1, <2>3, <3>2 DEF FreesTables
      <3>4. r.tab[t][Ix(v)] = NoPte
        BY <1>1, <2>1, <2>2, <3>2, <3>3, FrameKinds DEF Owned
      <3>5. Pte(r, d, v) = NoPte
        BY <3>2, <3>3, <3>4, PteIs
      <3>6. Pte(q, d, v) = NoPte
        BY <3>1, PteIs
      <3> QED BY <3>5, <3>6
    <2>4. CASE Tb(v) \notin ts
      <3>1. q.dir[d][Tb(v)] = r.dir[d][Tb(v)]
        BY <1>5, <1>11, <2>1, <2>4
      <3>2. PICK t : t = r.dir[d][Tb(v)]
        OBVIOUS
      <3>3. t # 0 => q.tab[t][Ix(v)] = r.tab[t][Ix(v)]
        BY <1>14, <2>1, <2>2, <3>2, FrameKinds
      <3> QED BY <3>1, <3>2, <3>3, PteIs
    <2> QED BY <2>3, <2>4
  <1> QED BY <1>20, <1>21, <1>22

-----------------------------------------------------------------------------
(* The operations on pages and page tables                                 *)

Outside(r, q, d) == \A c \in Frames \ {d} : SameSpace(r, q, c)
SamePtes(r, q, d) == \A v \in VPages : Pte(q, d, v) = Pte(r, d, v)
Maps(r, d, v) == Pte(r, d, v) # NoPte

LEMMA NoTypes == NoDir \in [Tables -> Frames] /\ NoTab \in [Slots -> Ptes] /\ NoPte \in Ptes
  BY FrameKinds DEF NoDir, NoTab, NoPte, Slots, Ptes

\* A page that is not a directory has no tables, one that is no table no entries.
LEMMA Blank ==
    ASSUME NEW r, NEW D, NEW K, NEW H, Mem(r, D, K, H), NEW p \in Pages,
           p \in r.free \/ p \in D \/ p \in K \/ p \in H
    PROVE  /\ r.tab[p] = NoTab /\ r.ref[p] = 0
           /\ (p \notin D \/ \A k \in Tables : r.dir[p][k] = 0) => r.dir[p] = NoDir
  <1>1. PICK kd, at, ix : Owned(r, kd, at, ix, D, K, H)
    BY DEF Mem
  <1>2. r \in Mems
    BY DEF Mem
  <1>3. kd[p] # "table" /\ kd[p] # "map"
    BY <1>1 DEF Owned
  <1>4. ASSUME NEW j \in Slots PROVE r.tab[p][j] = NoTab[j]
    <2>1. r.tab[p][j].pg = 0
      BY <1>1, <1>3 DEF Owned
    <2>2. r.tab[p][j] = NoPte
      BY <1>1, <2>1 DEF Owned
    <2> QED BY <2>2 DEF NoTab, Slots
  <1>5. r.tab[p] \in [Slots -> Ptes] /\ r.dir[p] \in [Tables -> Frames]
    BY <1>2, MemTypes, FrameKinds
  <1>6. r.tab[p] = NoTab
    BY <1>4, <1>5, NoTypes
  <1>7. r.ref[p] = 0
    BY <1>1, <1>3 DEF Owned
  <1>8. ASSUME p \notin D \/ \A k \in Tables : r.dir[p][k] = 0 PROVE r.dir[p] = NoDir
    <2>1. \A k \in Tables : r.dir[p][k] = 0
      BY <1>1, <1>8, FrameKinds DEF Owned
    <2> QED BY <1>5, <2>1, NoTypes DEF NoDir
  <1> QED BY <1>6, <1>7, <1>8

LEMMA FreeFields ==
    ASSUME NEW r \in Mems, NEW ps \in SUBSET Pages, NEW q, q = free_pages(r, ps)
    PROVE  /\ q \in Mems /\ q.free = r.free \union ps
           /\ \A x \in Pages : q.ref[x] = IF x \in ps THEN 0 ELSE r.ref[x]
           /\ \A c \in Frames : q.dir[c] = IF c \in ps THEN NoDir ELSE r.dir[c]
           /\ \A x \in Pages : q.tab[x] = IF x \in ps THEN NoTab ELSE r.tab[x]
           /\ q.tlb = r.tlb /\ q.err = r.err
  <1>1. PICK rf, di, ta, da :
          /\ rf = [p \in Pages |-> IF p \in ps THEN 0 ELSE r.ref[p]]
          /\ di = [p \in Frames |-> IF p \in ps THEN NoDir ELSE r.dir[p]]
          /\ ta = [p \in Pages |-> IF p \in ps THEN NoTab ELSE r.tab[p]]
          /\ da = [p \in Pages |-> IF p \in ps THEN "junk" ELSE r.data[p]]
    OBVIOUS
  <1>2. q = [r EXCEPT !.free = r.free \union ps, !.ref = rf, !.dir = di, !.tab = ta, !.data = da]
    BY <1>1 DEF free_pages, Frames
  <1>3. /\ r.free \in SUBSET Pages /\ r.ref \in [Pages -> Int]
        /\ r.dir \in [Frames -> [Tables -> Frames]] /\ r.tab \in [Pages -> [Slots -> Ptes]]
        /\ r.data \in [Pages -> Vals]
    BY MemTypes
  <1>4. rf \in [Pages -> Int]
    BY <1>1, <1>3
  <1>5. di \in [Frames -> [Tables -> Frames]]
    BY <1>1, <1>3, NoTypes
  <1>6. ta \in [Pages -> [Slots -> Ptes]]
    BY <1>1, <1>3, NoTypes
  <1>7. da \in [Pages -> Vals]
    BY <1>1, <1>3 DEF Vals
  <1>8. /\ q.free = r.free \union ps /\ q.ref = rf /\ q.dir = di /\ q.tab = ta
        /\ q.tlb = r.tlb /\ q.err = r.err
    BY <1>2 DEF Mems
  <1>9. q \in Mems
    <2>1. r.free \union ps \in SUBSET Pages
      BY <1>3
    <2> QED BY <1>2, <1>4, <1>5, <1>6, <1>7, <2>1 DEF Mems
  <1> QED BY <1>1, <1>8, <1>9

\* Giving back pages that are neither tables nor mapped.
GivesBack(r, q, D, K, H, ps) ==
    /\ Mem(r, D, K, H) /\ ps \subseteq D \union K \union H
    /\ \A d \in D \intersect ps, k \in Tables : r.dir[d][k] = 0
    /\ q = free_pages(r, ps)

LEMMA FreePlain ==
    ASSUME NEW r, NEW q, NEW D, NEW K, NEW H, NEW ps, GivesBack(r, q, D, K, H, ps)
    PROVE  /\ Mem(q, D \ ps, K \ ps, H \ ps) /\ \A c \in Frames : SameSpace(r, q, c)
           /\ q.tlb = r.tlb /\ q.err = r.err /\ q.free = r.free \union ps
  <1>0. /\ Mem(r, D, K, H) /\ ps \subseteq D \union K \union H /\ q = free_pages(r, ps)
        /\ \A d \in D \intersect ps, k \in Tables : r.dir[d][k] = 0
    BY DEF GivesBack
  <1>1. r \in Mems /\ D \subseteq Pages /\ K \subseteq Pages /\ H \subseteq Pages
        /\ ps \in SUBSET Pages
    BY <1>0 DEF Mem, Owned
  <1>2. /\ q \in Mems /\ q.free = r.free \union ps /\ q.tlb = r.tlb /\ q.err = r.err
        /\ \A x \in Pages : q.ref[x] = IF x \in ps THEN 0 ELSE r.ref[x]
        /\ \A c \in Frames : q.dir[c] = IF c \in ps THEN NoDir ELSE r.dir[c]
        /\ \A x \in Pages : q.tab[x] = IF x \in ps THEN NoTab ELSE r.tab[x]
    BY <1>0, <1>1, FreeFields
  <1>3. ASSUME NEW x \in ps
        PROVE  r.tab[x] = NoTab /\ r.ref[x] = 0 /\ r.dir[x] = NoDir
    BY <1>0, <1>1, Blank
  <1>4. q.ref = r.ref
    <2>1. q.ref \in [Pages -> Int] /\ r.ref \in [Pages -> Int]
      BY <1>1, <1>2, MemTypes
    <2> QED BY <1>2, <1>3, <2>1
  <1>5. q.dir = r.dir
    <2>1. q.dir \in [Frames -> [Tables -> Frames]] /\ r.dir \in [Frames -> [Tables -> Frames]]
      BY <1>1, <1>2, MemTypes
    <2>2. \A c \in Frames : q.dir[c] = r.dir[c]
      BY <1>2, <1>3
    <2> QED BY <2>1, <2>2
  <1>6. q.tab = r.tab
    <2>1. q.tab \in [Pages -> [Slots -> Ptes]] /\ r.tab \in [Pages -> [Slots -> Ptes]]
      BY <1>1, <1>2, MemTypes
    <2> QED BY <1>2, <1>3, <2>1
  <1>7. PICK D2, K2, H2 : D2 = D \ ps /\ K2 = K \ ps /\ H2 = H \ ps
    OBVIOUS
  <1>8. \A p \in Pages : /\ p \in D => p \notin K /\ p \notin H /\ p \notin r.free
                         /\ p \in K => p \notin H /\ p \notin r.free
                         /\ p \in H => p \notin r.free
    <2>1. PICK kd, at, ix : Owned(r, kd, at, ix, D, K, H)
      BY <1>0 DEF Mem
    <2> QED BY <2>1 DEF Owned
  <1>9. Relabels(r, q, D, K, H, D2, K2, H2)
    <2>1. Plain(q, D2, K2, H2) = Plain(r, D, K, H)
      BY <1>0, <1>1, <1>2, <1>7 DEF Plain
    <2>2. D2 \subseteq Pages /\ K2 \subseteq Pages /\ H2 \subseteq Pages
      BY <1>1, <1>7
    <2>3. /\ q.free \intersect D2 = {} /\ q.free \intersect K2 = {} /\ q.free \intersect H2 = {}
          /\ D2 \intersect K2 = {} /\ D2 \intersect H2 = {} /\ K2 \intersect H2 = {}
      BY <1>1, <1>2, <1>7, <1>8
    <2>4. \A d \in D \ D2, k \in Tables : r.dir[d][k] = 0
      BY <1>0, <1>7
    <2> QED BY <1>2, <1>4, <1>5, <1>6, <2>1, <2>2, <2>3, <2>4 DEF Relabels
  <1>10. Mem(q, D2, K2, H2) /\ \A c \in Frames : SameSpace(r, q, c)
    BY <1>0, <1>9, Relabel
  <1> QED BY <1>2, <1>7, <1>10

\* Taking free pages into hand.
LEMMA TakePages ==
    ASSUME NEW r, NEW D, NEW K, NEW H, Mem(r, D, K, H), NEW ps \in SUBSET r.free,
           NEW q \in Mems, q.free = r.free \ ps, q.dir = r.dir, q.tab = r.tab, q.ref = r.ref
    PROVE  /\ Mem(q, D, K, H \union ps) /\ Mem(q, D, K \union ps, H) /\ Mem(q, D \union ps, K, H)
           /\ \A c \in Frames : SameSpace(r, q, c)
  <1>1. r \in Mems /\ D \subseteq Pages /\ K \subseteq Pages /\ H \subseteq Pages
        /\ ps \in SUBSET Pages
    BY MemTypes DEF Mem, Owned
  <1>2. \A p \in Pages : /\ p \in D => p \notin K /\ p \notin H /\ p \notin r.free
                         /\ p \in K => p \notin H /\ p \notin r.free
                         /\ p \in H => p \notin r.free
    <2>1. PICK kd, at, ix : Owned(r, kd, at, ix, D, K, H)
      BY DEF Mem
    <2> QED BY <2>1 DEF Owned
  <1>3. ASSUME NEW D2, NEW K2, NEW H2,
               \/ D2 = D \union ps /\ K2 = K /\ H2 = H
               \/ D2 = D /\ K2 = K \union ps /\ H2 = H
               \/ D2 = D /\ K2 = K /\ H2 = H \union ps
        PROVE  Mem(q, D2, K2, H2) /\ \A c \in Frames : SameSpace(r, q, c)
    <2>1. Plain(q, D2, K2, H2) = Plain(r, D, K, H)
      BY <1>1, <1>3 DEF Plain
    <2>2. D2 \subseteq Pages /\ K2 \subseteq Pages /\ H2 \subseteq Pages
      BY <1>1, <1>3
    <2>3. /\ q.free \intersect D2 = {} /\ q.free \intersect K2 = {} /\ q.free \intersect H2 = {}
          /\ D2 \intersect K2 = {} /\ D2 \intersect H2 = {} /\ K2 \intersect H2 = {}
      <3>1. PICK f, g : f = q.free /\ g = r.free
        OBVIOUS
      <3>2. f = g \ ps /\ ps \subseteq g
        BY <3>1
      <3>3. D \intersect K = {} /\ D \intersect H = {} /\ K \intersect H = {}
            /\ g \intersect D = {} /\ g \intersect K = {} /\ g \intersect H = {}
        BY <1>1, <1>2, <3>1
      <3>4. /\ f \intersect D2 = {} /\ f \intersect K2 = {} /\ f \intersect H2 = {}
            /\ D2 \intersect K2 = {} /\ D2 \intersect H2 = {} /\ K2 \intersect H2 = {}
        BY ONLY <1>3, <3>2, <3>3
      <3> QED BY <3>1, <3>4
    <2>4. \A d \in D \ D2, k \in Tables : r.dir[d][k] = 0
      BY <1>3
    <2>5. Relabels(r, q, D, K, H, D2, K2, H2)
      BY <2>1, <2>2, <2>3, <2>4 DEF Relabels
    <2> QED BY <2>5, Relabel
  <1> QED BY <1>3

\* Neither the TLB nor err is about pages.
LEMMA SameTables ==
    ASSUME NEW r, NEW q, q.free = r.free, q.dir = r.dir, q.tab = r.tab, q.ref = r.ref
    PROVE  /\ \A D, K, H : Mem(r, D, K, H) /\ q \in Mems => Mem(q, D, K, H)
           /\ \A c : SameSpace(r, q, c)
  <1>1. ASSUME NEW D, NEW K, NEW H, Mem(r, D, K, H), q \in Mems PROVE Mem(q, D, K, H)
    <2>1. PICK kd, at, ix : Owned(r, kd, at, ix, D, K, H)
      BY <1>1 DEF Mem
    <2>2. Owned(q, kd, at, ix, D, K, H)
      BY <2>1 DEF Owned
    <2> QED BY <1>1, <2>2 DEF Mem
  <1>2. ASSUME NEW c PROVE SameSpace(r, q, c)
    BY PteIs DEF SameSpace
  <1> QED BY <1>1, <1>2

LEMMA ErrFields ==
    ASSUME NEW r \in Mems, NEW x \in Errs, NEW q, q = [r EXCEPT !.err = x]
    PROVE  /\ q \in Mems /\ q.free = r.free /\ q.dir = r.dir /\ q.tab = r.tab /\ q.ref = r.ref
           /\ q.tlb = r.tlb /\ q.err = x
  BY DEF Mems

LEMMA TlbFields ==
    ASSUME NEW r \in Mems, NEW x \in SUBSET TlbEntries, NEW q, q = [r EXCEPT !.tlb = x]
    PROVE  /\ q \in Mems /\ q.free = r.free /\ q.dir = r.dir /\ q.tab = r.tab /\ q.ref = r.ref
           /\ q.tlb = x /\ q.err = r.err
  BY DEF Mems

LEMMA SpaceReflexive == \A r, c : SameSpace(r, r, c)
  BY DEF SameSpace

LEMMA SpaceTransitive ==
    \A r, q, u, c : SameSpace(r, q, c) /\ SameSpace(q, u, c) => SameSpace(r, u, c)
  BY DEF SameSpace

\* get_pte with create.
LEMMA GetPte ==
    ASSUME NEW r, NEW D, NEW K, NEW H, Mem(r, D, K, H), r.err = "ok", NEW d \in D,
           NEW v \in VPages, NEW q, q = get_pte(r, d, v)
    PROVE  /\ Mem(q, D, K, H) /\ Outside(r, q, d) /\ SamePtes(r, q, d)
           /\ q.tlb = r.tlb /\ q.free \subseteq r.free /\ (r.dir[d][Tb(v)] # 0 => q = r)
           /\ \/ /\ q.err = "ok" /\ q.dir[d][Tb(v)] # 0
                 /\ \A k \in Tables \ {Tb(v)} : q.dir[d][k] = r.dir[d][k]
              \/ q.err = "nomem" /\ r.free = {} /\ q.free = {} /\ q.dir = r.dir
  <1>1. r \in Mems /\ D \subseteq Pages /\ d \in Frames /\ Tb(v) \in Tables
    BY FrameKinds, Parts DEF Mem, Owned
  <1>2. CASE r.dir[d][Tb(v)] # 0
    <2>1. q = r
      BY <1>2, HasTableIs DEF get_pte
    <2> QED BY <1>2, <2>1, SpaceReflexive DEF Outside, SamePtes
  <1>3. CASE r.dir[d][Tb(v)] = 0 /\ r.free = {}
    <2>1. q = [r EXCEPT !.err = "nomem"]
      BY <1>3, HasTableIs DEF get_pte, nomem
    <2>2. /\ q \in Mems /\ q.free = r.free /\ q.dir = r.dir /\ q.tab = r.tab /\ q.ref = r.ref
          /\ q.tlb = r.tlb /\ q.err = "nomem"
      BY <1>1, <2>1, ErrFields DEF Errs
    <2>3. Mem(q, D, K, H) /\ \A c : SameSpace(r, q, c)
      BY <2>2, SameTables
    <2> QED BY <1>3, <2>2, <2>3 DEF Outside, SamePtes, SameSpace
  <1>4. CASE r.dir[d][Tb(v)] = 0 /\ r.free # {}
    <2>1. PICK t \in Pages : t \in r.free /\ t = alloc_page(r)
      BY <1>1, <1>4, AllocIsFree
    <2>2. PICK row, di, ta, rf :
            /\ row = [r.dir[d] EXCEPT ![Tb(v)] = t] /\ di = [r.dir EXCEPT ![d] = row]
            /\ ta = [r.tab EXCEPT ![t] = NoTab] /\ rf = [r.ref EXCEPT ![t] = @ + 1]
      OBVIOUS
    <2>3. q = [r EXCEPT !.free = r.free \ {t}, !.ref = rf, !.tab = ta, !.dir = di]
      BY <1>4, <2>1, <2>2, HasTableIs DEF get_pte, Tb
    <2>4. /\ r.free \in SUBSET Pages /\ r.ref \in [Pages -> Int]
          /\ r.dir \in [Frames -> [Tables -> Frames]] /\ r.tab \in [Pages -> [Slots -> Ptes]]
      BY <1>1, MemTypes
    <2>5. t \in Frames /\ r.dir[d] \in [Tables -> Frames]
      BY <1>1, <2>4, FrameKinds
    <2>6. row \in [Tables -> Frames]
      BY <2>2, <2>5
    <2>7. di \in [Frames -> [Tables -> Frames]] /\ ta \in [Pages -> [Slots -> Ptes]]
          /\ rf \in [Pages -> Int]
      <3>1. di \in [Frames -> [Tables -> Frames]]
        BY <1>1, <2>2, <2>4, <2>6
      <3>2. ta \in [Pages -> [Slots -> Ptes]]
        BY <2>2, <2>4, NoTypes
      <3>3. rf \in [Pages -> Int]
        BY <2>2, <2>4
      <3> QED BY <3>1, <3>2, <3>3
    <2>8. q \in Mems /\ q.free = r.free \ {t} /\ q.ref = rf /\ q.tab = ta /\ q.dir = di
          /\ q.tlb = r.tlb /\ q.err = r.err
      <3>1. r.free \ {t} \in SUBSET Pages
        BY <2>4
      <3> QED BY <1>1, <2>3, <2>7, <3>1 DEF Mems
    <2>9. Tables1(r, q, D, d, Tb(v), t)
      <3>1. q.ref = [r.ref EXCEPT ![t] = @ + 1]
        BY <2>2, <2>8
      <3>2. q.tab = [r.tab EXCEPT ![t] = NoTab]
        BY <2>2, <2>8
      <3>3. q.dir = [r.dir EXCEPT ![d] = [@ EXCEPT ![Tb(v)] = t]]
        BY <2>2, <2>8
      <3> QED BY <1>1, <1>4, <2>1, <2>8, <3>1, <3>2, <3>3 DEF Tables1
    <2>10. /\ Mem(q, D, K, H) /\ \A c \in Frames \ {d} : SameSpace(r, q, c)
           /\ \A u \in VPages : Pte(q, d, u) = Pte(r, d, u)
      BY <2>9, NewTable
    <2>11. q.dir[d] = row
      BY <1>1, <2>2, <2>4, <2>8
    <2>12. q.dir[d][Tb(v)] = t /\ \A k \in Tables \ {Tb(v)} : q.dir[d][k] = r.dir[d][k]
      BY <1>1, <2>2, <2>5, <2>11
    <2>13. t # 0
      BY FrameKinds
    <2> QED BY <1>4, <2>8, <2>10, <2>12, <2>13 DEF Outside, SamePtes
  <1> QED BY <1>2, <1>3, <1>4

Sets1(r, q, d, v, t, e) ==
    /\ r \in Mems /\ v \in VPages /\ t \in Pages /\ t = r.dir[d][Tb(v)] /\ e \in Ptes
    /\ q = SetPte(r, d, v, e)

LEMMA SetFields ==
    ASSUME NEW r, NEW d, NEW v, NEW t, NEW e, NEW q, Sets1(r, q, d, v, t, e)
    PROVE  /\ q \in Mems /\ q.free = r.free /\ q.dir = r.dir /\ q.ref = r.ref
           /\ q.tlb = r.tlb /\ q.err = r.err
           /\ \A x \in Pages, j \in Slots :
                 q.tab[x][j] = IF x = t /\ j = Ix(v) THEN e ELSE r.tab[x][j]
  <1>0. /\ r \in Mems /\ v \in VPages /\ t \in Pages /\ t = r.dir[d][Tb(v)] /\ e \in Ptes
        /\ q = SetPte(r, d, v, e)
    BY DEF Sets1
  <1>1. PICK row, ta : row = [r.tab[t] EXCEPT ![Ix(v)] = e] /\ ta = [r.tab EXCEPT ![t] = row]
    OBVIOUS
  <1>2. q = [r EXCEPT !.tab = ta]
    BY <1>0, <1>1 DEF SetPte, Tb, Ix
  <1>3. r.tab \in [Pages -> [Slots -> Ptes]] /\ Ix(v) \in Slots
    BY <1>0, MemTypes, Parts
  <1>4. r.tab[t] \in [Slots -> Ptes]
    BY <1>0, <1>3
  <1>5. row \in [Slots -> Ptes] /\ \A j \in Slots : row[j] = IF j = Ix(v) THEN e ELSE r.tab[t][j]
    BY <1>0, <1>1, <1>3, <1>4
  <1>6. ta \in [Pages -> [Slots -> Ptes]] /\ \A x \in Pages : ta[x] = IF x = t THEN row ELSE r.tab[x]
    BY <1>0, <1>1, <1>3, <1>5
  <1>7. /\ q \in Mems /\ q.free = r.free /\ q.dir = r.dir /\ q.ref = r.ref
        /\ q.tlb = r.tlb /\ q.err = r.err /\ q.tab = ta
    BY <1>0, <1>2, <1>6 DEF Mems
  <1>8. \A x \in Pages, j \in Slots :
           q.tab[x][j] = IF x = t /\ j = Ix(v) THEN e ELSE r.tab[x][j]
    BY <1>5, <1>6, <1>7
  <1> QED BY <1>7, <1>8

Refs1(r, q, p, n) == r \in Mems /\ p \in Pages /\ n \in Int /\ q = [r EXCEPT !.ref[p] = n]

LEMMA RefFields ==
    ASSUME NEW r, NEW p, NEW n, NEW q, Refs1(r, q, p, n)
    PROVE  /\ q \in Mems /\ q.free = r.free /\ q.dir = r.dir /\ q.tab = r.tab
           /\ q.tlb = r.tlb /\ q.err = r.err
           /\ \A x \in Pages : q.ref[x] = IF x = p THEN n ELSE r.ref[x]
  <1>0. r \in Mems /\ p \in Pages /\ n \in Int
    BY DEF Refs1
  <1>1. PICK rf : rf = [r.ref EXCEPT ![p] = n]
    OBVIOUS
  <1>2. r.ref \in [Pages -> Int]
    BY <1>0, MemTypes
  <1>3. rf \in [Pages -> Int] /\ \A x \in Pages : rf[x] = IF x = p THEN n ELSE r.ref[x]
    BY <1>0, <1>1, <1>2
  <1>4. q = [r EXCEPT !.ref = rf]
    BY <1>1 DEF Refs1
  <1>5. /\ q \in Mems /\ q.free = r.free /\ q.dir = r.dir /\ q.tab = r.tab
        /\ q.tlb = r.tlb /\ q.err = r.err /\ q.ref = rf
    BY <1>0, <1>3, <1>4 DEF Mems
  <1> QED BY <1>1, <1>3, <1>5

\* page_remove_pte of the only reference to page p.
LastOne(r, d, v, p) ==
    /\ r \in Mems /\ d \in Frames /\ v \in VPages /\ p \in Pages
    /\ r.dir[d][Tb(v)] \in Pages /\ r.dir[d][Tb(v)] # p
    /\ r.tab[r.dir[d][Tb(v)]][Ix(v)].pg = p
    /\ r.ref[p] = 1 /\ r.tab[p] = NoTab /\ r.dir[p] = NoDir

LEMMA RemoveFields ==
    ASSUME NEW r, NEW d, NEW v, NEW p, LastOne(r, d, v, p), NEW q, q = page_remove_pte(r, d, v)
    PROVE  /\ q \in Mems /\ q.free = r.free \union {p} /\ q.dir = r.dir
           /\ q.tlb = {} /\ q.err = r.err
           /\ \A x \in Pages : q.ref[x] = IF x = p THEN 0 ELSE r.ref[x]
           /\ \A x \in Pages, j \in Slots :
                 q.tab[x][j] = IF x = r.dir[d][Tb(v)] /\ j = Ix(v) THEN NoPte ELSE r.tab[x][j]
  <1>1. PICK t : t = r.dir[d][Tb(v)]
    OBVIOUS
  <1>2. /\ r \in Mems /\ d \in Frames /\ v \in VPages /\ p \in Pages /\ t \in Pages /\ t # p
        /\ r.tab[t][Ix(v)].pg = p /\ r.ref[p] = 1 /\ r.tab[p] = NoTab /\ r.dir[p] = NoDir
        /\ p # 0 /\ t # 0
    BY <1>1, FrameKinds DEF LastOne
  <1>3. Pte(r, d, v).pg = p
    BY <1>1, <1>2, PteIs
  <1>4. PICK a : a = [r EXCEPT !.ref[p] = @ - 1]
    OBVIOUS
  <1>5. a = [r EXCEPT !.ref[p] = 0]
    <2>1. r.ref[p] - 1 = 0
      BY <1>2
    <2>2. a = [r EXCEPT !.ref[p] = r.ref[p] - 1]
      BY <1>4
    <2> QED BY <2>1, <2>2
  <1>6. /\ a \in Mems /\ a.free = r.free /\ a.dir = r.dir /\ a.tab = r.tab
        /\ a.tlb = r.tlb /\ a.err = r.err
        /\ \A x \in Pages : a.ref[x] = IF x = p THEN 0 ELSE r.ref[x]
    <2>1. Refs1(r, a, p, 0)
      BY <1>2, <1>5 DEF Refs1
    <2> QED BY <2>1, RefFields
  <1>7. PICK b : b = SetPte(a, d, v, NoPte)
    OBVIOUS
  <1>8. /\ b \in Mems /\ b.free = a.free /\ b.dir = a.dir /\ b.ref = a.ref
        /\ b.tlb = a.tlb /\ b.err = a.err
        /\ \A x \in Pages, j \in Slots :
              b.tab[x][j] = IF x = t /\ j = Ix(v) THEN NoPte ELSE a.tab[x][j]
    <2>1. Sets1(a, b, d, v, t, NoPte)
      BY <1>1, <1>2, <1>6, <1>7, NoTypes DEF Sets1
    <2> QED BY <2>1, SetFields
  <1>9. PICK c : c = free_pages(b, {p})
    OBVIOUS
  <1>10. /\ c \in Mems /\ c.free = b.free \union {p}
         /\ \A x \in Pages : c.ref[x] = IF x \in {p} THEN 0 ELSE b.ref[x]
         /\ \A x \in Frames : c.dir[x] = IF x \in {p} THEN NoDir ELSE b.dir[x]
         /\ \A x \in Pages : c.tab[x] = IF x \in {p} THEN NoTab ELSE b.tab[x]
         /\ c.tlb = b.tlb /\ c.err = b.err
    BY <1>2, <1>8, <1>9, FreeFields
  <1>11. q = tlb_invalidate(c)
    <2>1. a.ref[p] = 0
      BY <1>2, <1>6
    <2> QED BY <1>2, <1>3, <1>4, <1>7, <1>9, <2>1 DEF page_remove_pte
  <1>12. q = [c EXCEPT !.tlb = {}]
    BY <1>11 DEF tlb_invalidate
  <1>13. /\ q \in Mems /\ q.free = c.free /\ q.dir = c.dir /\ q.tab = c.tab /\ q.ref = c.ref
         /\ q.tlb = {} /\ q.err = c.err
    BY SMTT(30), ZenonT(90), <1>10, <1>12, TlbFields
  <1>14. c.dir = r.dir
    <2>1. c.dir \in [Frames -> [Tables -> Frames]] /\ r.dir \in [Frames -> [Tables -> Frames]]
      BY <1>2, <1>10, MemTypes
    <2>2. \A x \in Frames : c.dir[x] = r.dir[x]
      BY <1>2, <1>6, <1>8, <1>10
    <2> QED BY <2>1, <2>2
  <1>15. \A x \in Pages : c.ref[x] = IF x = p THEN 0 ELSE r.ref[x]
    BY <1>6, <1>8, <1>10
  <1>16. ASSUME NEW x \in Pages, NEW j \in Slots
         PROVE  c.tab[x][j] = IF x = t /\ j = Ix(v) THEN NoPte ELSE r.tab[x][j]
    <2>1. CASE x = p
      <3>1. c.tab[x] = r.tab[x]
        BY <1>2, <1>10, <2>1
      <3> QED BY <1>2, <2>1, <3>1
    <2>2. CASE x # p
      BY <1>6, <1>8, <1>10, <2>2
    <2> QED BY <2>1, <2>2
  <1> QED BY <1>1, <1>6, <1>8, <1>10, <1>13, <1>14, <1>15, <1>16

LEMMA MappedOnce ==
    ASSUME NEW r, NEW D, NEW K, NEW H, Mem(r, D, K, H), NEW d \in Frames, NEW v \in VPages,
           Maps(r, d, v)
    PROVE  LastOne(r, d, v, Pte(r, d, v).pg) /\ d \in D /\ Pte(r, d, v).pg \notin D \union K \union H
  <1>1. PICK kd, at, ix : Owned(r, kd, at, ix, D, K, H)
    BY DEF Mem
  <1>2. r \in Mems
    BY DEF Mem
  <1>3. PICK p, t : p = Pte(r, d, v).pg /\ t = r.dir[d][Tb(v)]
    OBVIOUS
  <1>4. /\ p \in Pages /\ kd[p] = "map" /\ t \in Pages /\ kd[t] = "table" /\ d \in D
        /\ Pte(r, d, v) = r.tab[t][Ix(v)]
    BY <1>1, <1>2, <1>3, PteFacts DEF Maps
  <1>5. r.ref[p] = 1 /\ p # t /\ p \notin D /\ p \notin K /\ p \notin H
    BY <1>1, <1>4 DEF Owned
  <1>6. r.tab[p] \in [Slots -> Ptes] /\ r.dir[p] \in [Tables -> Frames]
    BY <1>2, <1>4, MemTypes, FrameKinds
  <1>7. r.tab[p] = NoTab
    <2>1. ASSUME NEW j \in Slots PROVE r.tab[p][j] = NoTab[j]
      <3>1. r.tab[p][j].pg = 0
        BY <1>1, <1>4 DEF Owned
      <3>2. r.tab[p][j] = NoPte
        BY <1>1, <1>4, <3>1 DEF Owned
      <3> QED BY <3>2 DEF NoTab, Slots
    <2> QED BY <1>6, <2>1, NoTypes
  <1>8. r.dir[p] = NoDir
    <2>1. \A k \in Tables : r.dir[p][k] = 0
      BY <1>1, <1>4, <1>5, FrameKinds DEF Owned
    <2> QED BY <1>6, <2>1, NoTypes DEF NoDir
  <1> QED BY <1>2, <1>3, <1>4, <1>5, <1>7, <1>8 DEF LastOne

\* page_remove_pte
LEMMA RemovePte ==
    ASSUME NEW r, NEW D, NEW K, NEW H, Mem(r, D, K, H), NEW d \in Frames, NEW v \in VPages,
           Maps(r, d, v), NEW q, q = page_remove_pte(r, d, v)
    PROVE  /\ Mem(q, D, K, H) /\ Outside(r, q, d) /\ q.tlb = {} /\ q.err = r.err
           /\ q.dir = r.dir
           /\ \A u \in VPages : Pte(q, d, u) = IF u = v THEN NoPte ELSE Pte(r, d, u)
  <1>1. PICK p, t : p = Pte(r, d, v).pg /\ t = r.dir[d][Tb(v)]
    OBVIOUS
  <1>2. LastOne(r, d, v, p)
    BY <1>1, MappedOnce
  <1>3. /\ q \in Mems /\ q.free = r.free \union {p} /\ q.dir = r.dir
        /\ q.tlb = {} /\ q.err = r.err
        /\ \A x \in Pages : q.ref[x] = IF x = p THEN 0 ELSE r.ref[x]
        /\ \A x \in Pages, j \in Slots :
              q.tab[x][j] = IF x = t /\ j = Ix(v) THEN NoPte ELSE r.tab[x][j]
    BY <1>1, <1>2, RemoveFields
  <1>4. Tb(v) \in Tables /\ Ix(v) \in Slots
    BY Parts
  <1>5. Unmaps1(r, q, d, Tb(v), Ix(v), p)
    BY <1>1, <1>2, <1>3, <1>4, FrameKinds DEF Unmaps1, LastOne
  <1>6. /\ Mem(q, D, K, H) /\ \A c \in Frames \ {d} : SameSpace(r, q, c)
        /\ \A u \in VPages : Pte(q, d, u) = IF Tb(u) = Tb(v) /\ Ix(u) = Ix(v)
                                            THEN NoPte ELSE Pte(r, d, u)
    BY <1>5, Unmap
  <1>7. \A u \in VPages : Tb(u) = Tb(v) /\ Ix(u) = Ix(v) <=> u = v
    BY PartsDiffer
  <1> QED BY <1>3, <1>6, <1>7 DEF Outside

\* The end of page_insert: a is b with one more reference to p.
Inserts(r, b, a, q, D, K, H, d, v, e) ==
    /\ Mem(b, D, K, H) /\ d \in D /\ v \in VPages /\ e \in Ptes /\ e.pg \in H
    /\ a \in Mems /\ a.free = b.free /\ a.dir = b.dir /\ a.err = "ok"
    /\ b.dir[d][Tb(v)] # 0 /\ b.tab[b.dir[d][Tb(v)]][Ix(v)].pg = 0
    /\ \A x \in Pages : a.ref[x] = IF x = e.pg THEN b.ref[x] + 1 ELSE b.ref[x]
    /\ \A x \in Pages, j \in Slots : a.tab[x][j] = b.tab[x][j]
    /\ Outside(r, b, d) /\ \A u \in VPages : u # v => Pte(b, d, u) = Pte(r, d, u)
    /\ q = tlb_invalidate(SetPte(a, d, v, e))

LEMMA InsertEnd ==
    ASSUME NEW r, NEW b, NEW a, NEW q, NEW D, NEW K, NEW H, NEW d, NEW v, NEW e,
           Inserts(r, b, a, q, D, K, H, d, v, e)
    PROVE  /\ Outside(r, q, d) /\ q.err = "ok" /\ Mem(q, D, K, H \ {e.pg}) /\ q.tlb = {}
           /\ \A u \in VPages : Pte(q, d, u) = IF u = v THEN e ELSE Pte(r, d, u)
           /\ q.dir = b.dir
  <1>1. PICK p, t, f : p = e.pg /\ t = b.dir[d][Tb(v)] /\ f = SetPte(a, d, v, e)
    OBVIOUS
  <1>2. /\ Mem(b, D, K, H) /\ b \in Mems /\ d \in D /\ d \in Frames /\ v \in VPages
        /\ p \in H /\ p \in Pages /\ e \in Ptes /\ Tb(v) \in Tables /\ Ix(v) \in Slots
    BY <1>1, FrameKinds, Parts DEF Inserts, Mem, Owned
  <1>4. t \in Pages /\ t # 0
    <2>1. b.dir[d][Tb(v)] \in Frames
      BY <1>2, MemTypes
    <2> QED BY <1>1, <2>1, FrameKinds DEF Inserts
  <1>5. Sets1(a, f, d, v, t, e)
    BY <1>1, <1>2, <1>4 DEF Sets1, Inserts
  <1>6. /\ f \in Mems /\ f.free = a.free /\ f.dir = a.dir /\ f.ref = a.ref
        /\ f.tlb = a.tlb /\ f.err = a.err
        /\ \A x \in Pages, j \in Slots :
              f.tab[x][j] = IF x = t /\ j = Ix(v) THEN e ELSE a.tab[x][j]
    BY <1>5, SetFields
  <1>7. q = [f EXCEPT !.tlb = {}]
    BY <1>1 DEF tlb_invalidate, Inserts
  <1>8. /\ q \in Mems /\ q.free = f.free /\ q.dir = f.dir /\ q.tab = f.tab /\ q.ref = f.ref
        /\ q.tlb = {} /\ q.err = f.err
    BY <1>6, <1>7, TlbFields
  <1>9. /\ a.free = b.free /\ a.dir = b.dir /\ a.err = "ok" /\ b.tab[t][Ix(v)].pg = 0
        /\ \A x \in Pages : a.ref[x] = IF x = p THEN b.ref[x] + 1 ELSE b.ref[x]
        /\ \A x \in Pages, j \in Slots : a.tab[x][j] = b.tab[x][j]
    BY <1>1 DEF Inserts
  <1>10. /\ \A x \in Pages : q.ref[x] = IF x = p THEN b.ref[x] + 1 ELSE b.ref[x]
         /\ q.free = b.free /\ q.dir = b.dir /\ q.err = "ok"
    BY <1>6, <1>8, <1>9
  <1>11. \A x \in Pages, j \in Slots :
            q.tab[x][j] = IF x = t /\ j = Ix(v) THEN e ELSE b.tab[x][j]
    BY <1>1, <1>6, <1>8, <1>9
  <1>12. Maps1(b, q, D, H, d, Tb(v), Ix(v), e, p)
    BY <1>1, <1>2, <1>4, <1>8, <1>9, <1>10, <1>11 DEF Maps1
  <1>13. /\ Mem(q, D, K, H \ {p}) /\ \A x \in Frames \ {d} : SameSpace(b, q, x)
         /\ \A u \in VPages : Pte(q, d, u) = IF Tb(u) = Tb(v) /\ Ix(u) = Ix(v)
                                             THEN e ELSE Pte(b, d, u)
    <2>1. Mem(b, D, K, H)
      BY <1>2
    <2>2. Mem(q, D, K, H \ {p}) /\ \A x \in Frames \ {d} : SameSpace(b, q, x)
      BY <2>1, <1>12, MapHand
    <2>3. EntrySet(b, q, d, Tb(v), Ix(v), e)
      BY <2>1, <1>12, MapHand
    <2> QED BY <2>2, <2>3 DEF EntrySet
  <1>14. \A u \in VPages : Tb(u) = Tb(v) /\ Ix(u) = Ix(v) <=> u = v
    BY <1>2, PartsDiffer
  <1>15. Outside(r, b, d) /\ \A u \in VPages : u # v => Pte(b, d, u) = Pte(r, d, u)
    BY DEF Inserts
  <1>16. Outside(r, q, d)
    BY <1>13, <1>15, SpaceTransitive DEF Outside
  <1> QED BY <1>1, <1>8, <1>10, <1>13, <1>14, <1>15, <1>16

Inserted(r, q, d, v, e) ==
    /\ q.err = "ok" /\ q.tlb = {}
    /\ \A u \in VPages : Pte(q, d, u) = IF u = v THEN e ELSE Pte(r, d, u)
    /\ \A k \in Tables \ {Tb(v)} : q.dir[d][k] = r.dir[d][k]
NotInserted(r, q, d, v) ==
    /\ q.err = "nomem" /\ SamePtes(r, q, d) /\ q.dir = r.dir
    /\ q.tlb = r.tlb /\ q.free = {} /\ r.dir[d][Tb(v)] = 0

\* page_insert of a page in hand.  What was mapped there before is freed.
Insertion(r, q, D, K, H, d, v, p, e) ==
    /\ Mem(r, D, K, H) /\ r.err = "ok" /\ d \in D /\ v \in VPages /\ p \in H
    /\ e \in Ptes /\ e.pg = p /\ q = page_insert(r, d, p, v, e.w)

LEMMA Insert ==
    ASSUME NEW r, NEW q, NEW D, NEW K, NEW H, NEW d, NEW v, NEW p, NEW e,
           Insertion(r, q, D, K, H, d, v, p, e)
    PROVE  /\ Outside(r, q, d)
           /\ \/ Mem(q, D, K, H \ {p}) /\ Inserted(r, q, d, v, e)
              \/ Mem(q, D, K, H) /\ NotInserted(r, q, d, v)
  <1>0. /\ Mem(r, D, K, H) /\ r.err = "ok" /\ d \in D /\ v \in VPages /\ p \in H
        /\ e \in Ptes /\ e.pg = p /\ q = page_insert(r, d, p, v, e.w)
    BY DEF Insertion
  <1>1. PICK g, w : g = get_pte(r, d, v) /\ w = e.w /\ q = page_insert(r, d, p, v, w)
    BY <1>0
  <1>2. /\ Mem(g, D, K, H) /\ Outside(r, g, d) /\ SamePtes(r, g, d)
        /\ g.tlb = r.tlb /\ g.free \subseteq r.free /\ (r.dir[d][Tb(v)] # 0 => g = r)
        /\ \/ /\ g.err = "ok" /\ g.dir[d][Tb(v)] # 0
              /\ \A k \in Tables \ {Tb(v)} : g.dir[d][k] = r.dir[d][k]
           \/ g.err = "nomem" /\ r.free = {} /\ g.free = {} /\ g.dir = r.dir
    BY <1>0, <1>1, GetPte
  <1>3. g \in Mems /\ D \subseteq Pages /\ H \subseteq Pages /\ d \in Frames /\ p \in Pages
        /\ Tb(v) \in Tables /\ Ix(v) \in Slots /\ p # 0
    BY SMTT(30), ZenonT(90), <1>0, <1>2, FrameKinds, Parts DEF Mem, Owned
  <1>4. CASE g.err # "ok"
    <2>1. q = g
      BY <1>1, <1>4 DEF page_insert
    <2>2. r.dir[d][Tb(v)] = 0
      BY <1>0, <1>2, <1>4
    <2> QED BY <1>2, <1>4, <2>1, <2>2 DEF NotInserted
  <1>5. CASE g.err = "ok"
    <2>0. e = [pg |-> p, w |-> w]
      BY <1>0, <1>1 DEF Ptes
    <2>1. PICK c : c = [g EXCEPT !.ref[p] = @ + 1]
      OBVIOUS
    <2>2. g.ref \in [Pages -> Int] /\ g.dir \in [Frames -> [Tables -> Frames]]
      BY <1>3, MemTypes
    <2>3. Refs1(g, c, p, g.ref[p] + 1)
      BY <1>3, <2>1, <2>2 DEF Refs1
    <2>4. /\ c \in Mems /\ c.free = g.free /\ c.dir = g.dir /\ c.tab = g.tab
          /\ c.tlb = g.tlb /\ c.err = g.err
          /\ \A x \in Pages : c.ref[x] = IF x = p THEN g.ref[p] + 1 ELSE g.ref[x]
      BY <2>3, RefFields
    <2>5. PICK t \in Pages : t = g.dir[d][Tb(v)]
      <3>1. g.dir[d][Tb(v)] \in Frames
        BY <1>3, <2>2
      <3> QED BY <1>2, <1>5, <3>1, FrameKinds
    <2>8. t # 0 /\ Pte(g, d, v) = g.tab[t][Ix(v)]
      BY <2>5, FrameKinds, PteIs
    <2>9. PICK old : old = Pte(g, d, v).pg
      OBVIOUS
    <2>10. \A u \in VPages : Pte(g, d, u) = Pte(r, d, u)
      BY <1>2 DEF SamePtes
    <2>11. CASE old = 0
      <3>1. q = tlb_invalidate(SetPte(c, d, v, e))
        BY <1>1, <1>5, <2>0, <2>1, <2>9, <2>11 DEF page_insert
      <3>2. Outside(r, q, d) /\ q.err = "ok" /\ Mem(q, D, K, H \ {p}) /\ q.tlb = {}
            /\ (\A u \in VPages : Pte(q, d, u) = IF u = v THEN e ELSE Pte(r, d, u))
            /\ q.dir = g.dir
        <4>1. /\ Mem(g, D, K, H) /\ Outside(r, g, d) /\ g.tab[t][Ix(v)].pg = 0
              /\ \A u \in VPages : u # v => Pte(g, d, u) = Pte(r, d, u)
          BY <1>2, <2>8, <2>9, <2>10, <2>11
        <4>2. /\ c \in Mems /\ c.free = g.free /\ c.dir = g.dir /\ c.err = "ok"
              /\ \A x \in Pages : c.ref[x] = IF x = p THEN g.ref[x] + 1 ELSE g.ref[x]
              /\ \A x \in Pages, j \in Slots : c.tab[x][j] = g.tab[x][j]
          BY <1>5, <2>4
        <4>3. Inserts(r, g, c, q, D, K, H, d, v, e)
          BY <1>0, <1>2, <1>5, <2>5, <2>8, <3>1, <4>1, <4>2 DEF Inserts
        <4>4. /\ Outside(r, q, d) /\ q.err = "ok" /\ Mem(q, D, K, H \ {e.pg}) /\ q.tlb = {}
              /\ \A u \in VPages : Pte(q, d, u) = IF u = v THEN e ELSE Pte(r, d, u)
              /\ q.dir = g.dir
          BY SMTT(30), ZenonT(90), <4>3, InsertEnd
        <4> QED BY <1>0, <4>4
      <3>3. Inserted(r, q, d, v, e)
        BY <1>2, <1>5, <3>2 DEF Inserted
      <3> QED BY <3>2, <3>3
    <2>12. CASE old # 0
      <3>1. Maps(g, d, v)
        BY <2>9, <2>12 DEF Maps, NoPte
      <3>2. LastOne(g, d, v, old) /\ old \notin H
        BY <1>0, <1>2, <1>3, <2>9, <3>1, MappedOnce
      <3>3. old # p /\ old \in Pages
        BY <1>0, <3>2 DEF LastOne
      <3>4. LastOne(c, d, v, old)
        BY <2>4, <3>2, <3>3 DEF LastOne
      <3>5. PICK a2, b2 : a2 = page_remove_pte(c, d, v) /\ b2 = page_remove_pte(g, d, v)
        OBVIOUS
      <3>6. /\ a2 \in Mems /\ a2.free = c.free \union {old} /\ a2.dir = c.dir
            /\ a2.tlb = {} /\ a2.err = c.err
            /\ \A x \in Pages : a2.ref[x] = IF x = old THEN 0 ELSE c.ref[x]
            /\ \A x \in Pages, j \in Slots :
                  a2.tab[x][j] = IF x = c.dir[d][Tb(v)] /\ j = Ix(v) THEN NoPte ELSE c.tab[x][j]
        BY <3>4, <3>5, RemoveFields
      <3>7. /\ b2 \in Mems /\ b2.free = g.free \union {old} /\ b2.dir = g.dir
            /\ \A x \in Pages : b2.ref[x] = IF x = old THEN 0 ELSE g.ref[x]
            /\ \A x \in Pages, j \in Slots :
                  b2.tab[x][j] = IF x = g.dir[d][Tb(v)] /\ j = Ix(v) THEN NoPte ELSE g.tab[x][j]
        BY <3>2, <3>5, RemoveFields
      <3>8. /\ Mem(b2, D, K, H) /\ Outside(g, b2, d)
            /\ \A u \in VPages : Pte(b2, d, u) = IF u = v THEN NoPte ELSE Pte(g, d, u)
        BY <1>0, <1>2, <1>3, <3>1, <3>5, RemovePte
      <3>9. q = tlb_invalidate(SetPte(a2, d, v, e))
        BY <1>1, <1>5, <2>0, <2>1, <2>9, <2>12, <3>3, <3>5 DEF page_insert
      <3>10. /\ Outside(r, b2, d) /\ b2.tab[t][Ix(v)].pg = 0
             /\ \A u \in VPages : u # v => Pte(b2, d, u) = Pte(r, d, u)
        <4>1. Outside(r, b2, d)
          BY <1>2, <3>8, SpaceTransitive DEF Outside
        <4>2. b2.tab[t][Ix(v)] = NoPte
          BY <1>3, <2>5, <3>7
        <4> QED BY <2>10, <3>8, <4>1, <4>2 DEF NoPte
      <3>11. /\ a2.free = b2.free /\ a2.dir = b2.dir /\ a2.err = "ok"
             /\ \A x \in Pages : a2.ref[x] = IF x = p THEN b2.ref[x] + 1 ELSE b2.ref[x]
             /\ \A x \in Pages, j \in Slots : a2.tab[x][j] = b2.tab[x][j]
        BY <1>5, <2>4, <3>3, <3>6, <3>7
      <3>12. Outside(r, q, d) /\ q.err = "ok" /\ Mem(q, D, K, H \ {p}) /\ q.tlb = {}
            /\ (\A u \in VPages : Pte(q, d, u) = IF u = v THEN e ELSE Pte(r, d, u))
            /\ q.dir = g.dir
        <4>1. b2.dir[d][Tb(v)] = t
          BY <2>5, <3>7
        <4>2. Inserts(r, b2, a2, q, D, K, H, d, v, e)
          BY <1>0, <2>8, <3>6, <3>8, <3>9, <3>10, <3>11, <4>1 DEF Inserts
        <4>3. /\ Outside(r, q, d) /\ q.err = "ok" /\ Mem(q, D, K, H \ {e.pg}) /\ q.tlb = {}
              /\ \A u \in VPages : Pte(q, d, u) = IF u = v THEN e ELSE Pte(r, d, u)
              /\ q.dir = b2.dir
          BY SMTT(30), ZenonT(90), <4>2, InsertEnd
        <4> QED BY <1>0, <3>7, <4>3
      <3>13. Inserted(r, q, d, v, e)
        BY <1>2, <1>5, <3>12 DEF Inserted
      <3> QED BY <3>12, <3>13
    <2> QED BY <2>11, <2>12
  <1> QED BY <1>4, <1>5

\* Page v of directory d gets entry e.
AddsPte(r, q, d, v, e) ==
    /\ e \in Ptes /\ e.pg # 0 /\ Pte(q, d, v) = e
    /\ \A u \in VPages \ {v} : Pte(q, d, u) = Pte(r, d, u)
    /\ \A k \in Tables \ {Tb(v)} : q.dir[d][k] = r.dir[d][k]

\* pgdir_alloc_page.  If it fails, what it allocated is free again.
LEMMA AllocPage ==
    ASSUME NEW r, NEW D, NEW K, NEW H, Mem(r, D, K, H), r.err = "ok", NEW d \in D,
           NEW v \in VPages, NEW w \in BOOLEAN, NEW x \in Vals,
           NEW q, q = pgdir_alloc_page(r, d, v, w, x)
    PROVE  /\ Mem(q, D, K, H) /\ Outside(r, q, d)
           /\ \/ q.err = "ok" /\ q.tlb = {} /\ \E e : e.w = w /\ AddsPte(r, q, d, v, e)
              \/ /\ q.err = "nomem" /\ q.tlb = r.tlb /\ SamePtes(r, q, d) /\ q.dir[d] = r.dir[d]
                 /\ r.dir[d][Tb(v)] # 0 => q.free = {}
  <1>1. r \in Mems /\ D \subseteq Pages /\ d \in Frames
    BY FrameKinds DEF Mem, Owned
  <1>2. CASE r.free = {}
    <2>1. q = [r EXCEPT !.err = "nomem"]
      BY <1>2 DEF pgdir_alloc_page, nomem
    <2>2. /\ q \in Mems /\ q.free = r.free /\ q.dir = r.dir /\ q.tab = r.tab /\ q.ref = r.ref
          /\ q.tlb = r.tlb /\ q.err = "nomem"
      BY <1>1, <2>1, ErrFields DEF Errs
    <2>3. Mem(q, D, K, H) /\ \A c : SameSpace(r, q, c)
      BY <2>2, SameTables
    <2> QED BY <1>2, <2>2, <2>3 DEF Outside, SamePtes, SameSpace
  <1>3. CASE r.free # {}
    <2>1. PICK p : p = alloc_page(r)
      OBVIOUS
    <2>2. p \in r.free /\ p \in Pages /\ p # 0 /\ p \in Frames
      BY <1>1, <1>3, <2>1, AllocIsFree, FrameKinds
    <2>3. PICK da : da = [r.data EXCEPT ![p] = x]
      OBVIOUS
    <2>4. PICK a : a = [r EXCEPT !.free = r.free \ {p}, !.data = da]
      OBVIOUS
    <2>5. /\ a \in Mems /\ a.free = r.free \ {p} /\ a.dir = r.dir /\ a.tab = r.tab /\ a.ref = r.ref
          /\ a.tlb = r.tlb /\ a.err = "ok"
      <3>1. da \in [Pages -> Vals] /\ r.free \ {p} \in SUBSET Pages
        BY <1>1, <2>2, <2>3, MemTypes
      <3> QED BY <1>1, <2>4, <3>1 DEF Mems
    <2>6. Mem(a, D, K, H \union {p}) /\ \A c \in Frames : SameSpace(r, a, c)
      BY <2>2, <2>5, TakePages
    <2>7. PICK e : e = [pg |-> p, w |-> w]
      OBVIOUS
    <2>8. e \in Ptes /\ e.pg = p /\ e.w = w
      BY <2>2, <2>7 DEF Ptes
    <2>9. PICK g : g = page_insert(a, d, p, v, e.w)
      OBVIOUS
    <2>10. p \in H \union {p}
      OBVIOUS
    <2>11. /\ Outside(a, g, d)
           /\ \/ Mem(g, D, K, (H \union {p}) \ {p}) /\ Inserted(a, g, d, v, e)
              \/ Mem(g, D, K, H \union {p}) /\ NotInserted(a, g, d, v)
      <3>1. Insertion(a, g, D, K, H \union {p}, d, v, p, e)
        BY <2>5, <2>6, <2>8, <2>9, <2>10 DEF Insertion
      <3> QED BY <3>1, Insert
    <2>12. q = IF g.err = "ok" THEN g ELSE free_pages(g, {p})
      BY <1>3, <2>1, <2>3, <2>4, <2>8, <2>9 DEF pgdir_alloc_page
    <2>13. (H \union {p}) \ {p} = H
      <3>1. p \notin H
        <4>1. PICK kd, at, ix : Owned(r, kd, at, ix, D, K, H)
          BY DEF Mem
        <4> QED BY <2>2, <4>1 DEF Owned
      <3> QED BY <3>1
    <2>14. Outside(r, g, d)
      BY <2>6, <2>11, SpaceTransitive DEF Outside
    <2>15. \A u \in VPages : Pte(a, d, u) = Pte(r, d, u)
      BY <1>1, <2>6 DEF SameSpace
    <2>16. CASE g.err = "ok"
      <3>1. AddsPte(r, g, d, v, e)
        BY <2>2, <2>5, <2>8, <2>11, <2>15, <2>16 DEF AddsPte, Inserted, NotInserted
      <3>2. Mem(g, D, K, H)
        BY <2>11, <2>13, <2>16 DEF NotInserted
      <3>3. g.tlb = {}
        BY <2>11, <2>16 DEF Inserted, NotInserted
      <3> QED BY <2>8, <2>12, <2>14, <2>16, <3>1, <3>2, <3>3
    <2>17. CASE g.err # "ok"
      <3>1. q = free_pages(g, {p})
        BY <2>12, <2>17
      <3>2. {p} \in SUBSET (D \union K \union (H \union {p})) /\ D \intersect {p} = {}
        <4>1. PICK kd, at, ix : Owned(r, kd, at, ix, D, K, H)
          BY DEF Mem
        <4> QED BY <2>2, <4>1 DEF Owned
      <3>3. Mem(g, D, K, H \union {p}) /\ g.err = "nomem" /\ SamePtes(a, g, d)
            /\ g.dir = a.dir /\ g.tlb = a.tlb /\ a.dir[d][Tb(v)] = 0
        BY <2>11, <2>17 DEF Inserted, NotInserted
      <3>4. /\ Mem(q, D \ {p}, K \ {p}, (H \union {p}) \ {p})
            /\ \A c \in Frames : SameSpace(g, q, c)
            /\ q.tlb = g.tlb /\ q.err = g.err
        <4>1. PICK G, ps : G = H \union {p} /\ ps = {p}
          OBVIOUS
        <4>2. GivesBack(g, q, D, K, G, ps)
          BY <3>1, <3>2, <3>3, <4>1 DEF GivesBack
        <4>3. /\ Mem(q, D \ ps, K \ ps, G \ ps) /\ \A c \in Frames : SameSpace(g, q, c)
              /\ q.tlb = g.tlb /\ q.err = g.err /\ q.free = g.free \union ps
          BY <4>2, FreePlain
        <4> QED BY <4>1, <4>3
      <3>5. D \ {p} = D /\ K \ {p} = K
        <4>1. PICK kd, at, ix : Owned(r, kd, at, ix, D, K, H)
          BY DEF Mem
        <4>2. p \notin D /\ p \notin K
          BY <2>2, <4>1 DEF Owned
        <4> QED BY <4>2
      <3>6. Mem(q, D, K, H)
        BY <2>13, <3>4, <3>5
      <3>7. Outside(r, q, d)
        BY <2>14, <3>4, SpaceTransitive DEF Outside
      <3>8. SameSpace(g, q, d)
        BY <1>1, <3>4
      <3>9. SamePtes(r, q, d) /\ q.dir[d] = r.dir[d]
        BY <2>5, <2>15, <3>3, <3>8 DEF SamePtes, SameSpace
      <3> QED BY <2>5, <3>3, <3>4, <3>6, <3>7, <3>9
    <2> QED BY <2>16, <2>17
  <1> QED BY <1>2, <1>3

\* setup_pgdir
LEMMA SetupPgdir ==
    ASSUME NEW r, NEW D, NEW K, NEW H, Mem(r, D, K, H), r.free # {}, NEW q, q = setup_pgdir(r)
    PROVE  /\ alloc_page(r) \in r.free /\ alloc_page(r) \in Pages \ D
           /\ Mem(q, D \union {alloc_page(r)}, K, H) /\ \A c \in Frames : SameSpace(r, q, c)
           /\ q.err = r.err /\ q.tlb = r.tlb /\ q.dir[alloc_page(r)] = NoDir
  <1>1. PICK p : p = alloc_page(r)
    OBVIOUS
  <1>2. r \in Mems /\ p \in r.free /\ p \in Pages /\ p \notin D /\ p \in Frames
    <2>1. r \in Mems
      BY DEF Mem
    <2>2. p \in r.free /\ p \in Pages
      BY <1>1, <2>1, AllocIsFree
    <2>3. PICK kd, at, ix : Owned(r, kd, at, ix, D, K, H)
      BY DEF Mem
    <2> QED BY <2>1, <2>2, <2>3, FrameKinds DEF Owned
  <1>3. r.dir[p] = NoDir
    BY <1>2, Blank
  <1>4. PICK di : di = [r.dir EXCEPT ![p] = NoDir]
    OBVIOUS
  <1>5. di = r.dir
    <2>1. r.dir \in [Frames -> [Tables -> Frames]]
      BY <1>2, MemTypes
    <2> QED BY <1>2, <1>3, <1>4, <2>1
  <1>6. q = [r EXCEPT !.free = r.free \ {p}, !.dir = di]
    BY <1>1, <1>4 DEF setup_pgdir
  <1>7. /\ q \in Mems /\ q.free = r.free \ {p} /\ q.dir = r.dir /\ q.tab = r.tab
        /\ q.ref = r.ref /\ q.err = r.err /\ q.tlb = r.tlb
    <2>1. r.free \ {p} \in SUBSET Pages /\ r.dir \in [Frames -> [Tables -> Frames]]
      BY <1>2, MemTypes
    <2> QED BY <1>2, <1>5, <1>6, <2>1 DEF Mems
  <1>8. Mem(q, D \union {p}, K, H) /\ \A c \in Frames : SameSpace(r, q, c)
    BY <1>2, <1>7, TakePages
  <1> QED BY <1>1, <1>2, <1>3, <1>7, <1>8

-----------------------------------------------------------------------------
(* Taking an address space apart                                           *)

\* Pages s .. e - 1 of directory d are not mapped any more.
Unmapped(r, q, d, s, e) ==
    /\ Outside(r, q, d) /\ q.err = r.err /\ q.dir = r.dir
    /\ \A u \in VPages : Pte(q, d, u) = IF s <= u /\ u < e THEN NoPte ELSE Pte(r, d, u)
    /\ q.tlb = r.tlb \/ q.tlb = {}
    /\ \A u \in VPages : s <= u /\ u < e /\ Maps(r, d, u) => q.tlb = {}

LEMMA UnmapNone ==
    ASSUME NEW r, NEW d, NEW s \in Nat
    PROVE  Unmapped(r, r, d, s, s)
  <1>1. \A u \in VPages : ~(s <= u /\ u < s)
    BY Sizes DEF VPages
  <1>2. Outside(r, r, d)
    BY SpaceReflexive DEF Outside
  <1> QED BY <1>1, <1>2 DEF Unmapped

\* One page of unmap_range.
UnmapStep(x, d, v) == IF Pte(x, d, v) = NoPte THEN x ELSE page_remove_pte(x, d, v)

LEMMA UnmapRound ==
    ASSUME NEW r, NEW x, NEW q, NEW D, NEW K, NEW H, Mem(x, D, K, H), NEW d \in Frames,
           NEW s \in Nat, NEW v \in VPages, s <= v, Unmapped(r, x, d, s, v),
           q = UnmapStep(x, d, v)
    PROVE  Mem(q, D, K, H) /\ Unmapped(r, q, d, s, v + 1)
  <1>1. v \in Nat /\ \A u \in VPages : u \in Nat
    BY Parts
  <1>2. \A u \in VPages : (s <= u /\ u < v + 1) <=> (s <= u /\ u < v) \/ u = v
    BY <1>1
  <1>3. CASE Pte(x, d, v) = NoPte
    <2>1. q = x
      BY <1>3 DEF UnmapStep
    <2>2. Pte(x, d, v) = Pte(r, d, v)
      BY <1>1 DEF Unmapped
    <2> QED BY <1>2, <1>3, <2>1, <2>2 DEF Unmapped, Maps
  <1>4. CASE Pte(x, d, v) # NoPte
    <2>1. q = page_remove_pte(x, d, v)
      BY <1>4 DEF UnmapStep
    <2>2. /\ Mem(q, D, K, H) /\ Outside(x, q, d) /\ q.tlb = {} /\ q.err = x.err /\ q.dir = x.dir
          /\ \A u \in VPages : Pte(q, d, u) = IF u = v THEN NoPte ELSE Pte(x, d, u)
      BY <1>4, <2>1, RemovePte DEF Maps
    <2>3. Outside(r, q, d)
      BY <2>2, SpaceTransitive DEF Unmapped, Outside
    <2>4. \A u \in VPages : Pte(q, d, u) = IF s <= u /\ u < v + 1 THEN NoPte ELSE Pte(r, d, u)
      BY <1>2, <2>2 DEF Unmapped
    <2> QED BY <2>2, <2>3, <2>4 DEF Unmapped
  <1> QED BY <1>3, <1>4

LEMMA UnmapRange ==
    ASSUME NEW r, NEW D, NEW K, NEW H, Mem(r, D, K, H), NEW d \in Frames,
           NEW s \in Nat, NEW e \in Nat, s <= e, e <= Top, NEW q, q = unmap_range(r, d, s, e)
    PROVE  Mem(q, D, K, H) /\ Unmapped(r, q, d, s, e)
  <1> DEFINE N == e - s
             Step(n, x) == UnmapStep(x, d, s + n - 1)
             U == {x \in Mems : Mem(x, D, K, H)}
             F == [n \in 1 .. N |-> [x \in U |-> Step(n, x)]]
             Rec(h) == h = [n \in 0 .. N |-> IF n = 0 THEN r ELSE Step(n, h[n - 1])]
  <1>1. N \in Nat /\ r \in U
    BY DEF Mem
  <1>2. ASSUME NEW n \in 1 .. N PROVE s + n - 1 \in VPages /\ s <= s + n - 1 /\ n - 1 \in 0 .. N
    BY Sizes DEF VPages
  <1>3. ASSUME NEW n \in 1 .. N, NEW x \in U PROVE Step(n, x) \in U
    <2>1. PICK v \in VPages : v = s + n - 1
      BY <1>2
    <2>2. Mem(UnmapStep(x, d, v), D, K, H)
      <3>1. CASE Pte(x, d, v) = NoPte
        BY <3>1 DEF UnmapStep
      <3>2. CASE Pte(x, d, v) # NoPte
        <4>1. Mem(page_remove_pte(x, d, v), D, K, H)
          BY <3>2, RemovePte DEF Maps
        <4> QED BY <3>2, <4>1 DEF UnmapStep
      <3> QED BY <3>1, <3>2
    <2> QED BY <2>1, <2>2 DEF Mem
  <1>4. F \in [1 .. N -> [U -> U]]
    <2> HIDE DEF Step, U, N
    <2> QED BY <1>3
  <1>5. PICK g : Runs(g, N, U, r, F)
    <2> HIDE DEF F, U, N
    <2>1. IsLoop(N, U, r, F)
      BY <1>1, <1>4 DEF IsLoop
    <2> QED BY <2>1, LoopRuns
  <1>6. g \in [0 .. N -> U] /\ g[0] = r /\ \A n \in 1 .. N : g[n] = F[n][g[n - 1]]
    BY <1>5 DEF Runs
  <1>7. \A n \in 1 .. N : g[n] = Step(n, g[n - 1])
    <2> HIDE DEF Step, U, N
    <2>1. \A n \in 1 .. N : n - 1 \in 0 .. N /\ g[n - 1] \in U
      BY <1>2, <1>6
    <2> QED BY <1>6, <2>1
  <1>8. Rec(g)
    <2> HIDE DEF Step, U
    <2>1. ASSUME NEW n \in 0 .. N PROVE g[n] = IF n = 0 THEN r ELSE Step(n, g[n - 1])
      <3>1. n = 0 \/ n \in 1 .. N
        OBVIOUS
      <3> HIDE DEF N
      <3> QED BY <1>6, <1>7, <3>1
    <2> HIDE DEF N
    <2> QED BY <1>6, <2>1
  <1>9. q = (CHOOSE h : Rec(h))[N]
    BY DEF unmap_range, UnmapStep
  <1>10. PICK h : h = (CHOOSE x : Rec(x)) /\ Rec(h)
    <2> HIDE DEF Rec
    <2> QED BY <1>8
  <1>11. h[0] = r /\ \A n \in 1 .. N : h[n] = Step(n, h[n - 1])
    <2>1. 0 \in 0 .. N /\ \A n \in 1 .. N : n \in 0 .. N /\ n # 0
      OBVIOUS
    <2> HIDE DEF Step, N
    <2> QED BY <1>10, <2>1
  <1> HIDE DEF Rec
  <1> DEFINE T == {n \in 0 .. N : Mem(h[n], D, K, H) /\ Unmapped(r, h[n], d, s, s + n)}
  <1>12. 0 \in T
    <2>1. s + 0 = s /\ 0 \in 0 .. N
      BY <1>1
    <2> QED BY <1>11, <2>1, UnmapNone
  <1>13. ASSUME NEW n \in 1 .. N, n - 1 \in T PROVE n \in T
    <2>1. PICK v \in VPages : v = s + n - 1
      BY <1>2
    <2>2. s + (n - 1) = v /\ s + n = v + 1 /\ n \in 0 .. N /\ s <= v
      BY <2>1
    <2>3. Mem(h[n - 1], D, K, H) /\ Unmapped(r, h[n - 1], d, s, v)
      BY <1>13, <2>2
    <2>4. h[n] = UnmapStep(h[n - 1], d, v)
      BY <1>11, <2>1
    <2>5. Mem(h[n], D, K, H) /\ Unmapped(r, h[n], d, s, v + 1)
      BY <2>2, <2>3, <2>4, UnmapRound
    <2> QED BY <2>2, <2>5
  <1>14. N \in T
    <2> HIDE DEF T, N
    <2>1. 0 .. N \subseteq T
      BY <1>1, <1>12, <1>13, UpTo
    <2> QED BY <1>1, <2>1
  <1>15. s + N = e
    OBVIOUS
  <1> HIDE DEF N
  <1> QED BY <1>9, <1>10, <1>14, <1>15

\* exit_range, once nothing is mapped.
Spanned(s, e, k) == s \div PTN <= k /\ k * PTN < e
Exited(r, q, d, s, e) ==
    /\ Outside(r, q, d) /\ SamePtes(r, q, d) /\ q.err = r.err /\ q.tlb = r.tlb
    /\ \A k \in Tables : q.dir[d][k] = IF Spanned(s, e, k) THEN 0 ELSE r.dir[d][k]

LEMMA ExitRange ==
    ASSUME NEW r, NEW D, NEW K, NEW H, Mem(r, D, K, H), NEW d \in D,
           \A v \in VPages : Pte(r, d, v) = NoPte, NEW s, NEW e, NEW q, q = exit_range(r, d, s, e)
    PROVE  Mem(q, D, K, H) /\ Exited(r, q, d, s, e)
  <1>1. PICK kd, at, ix : Owned(r, kd, at, ix, D, K, H)
    BY DEF Mem
  <1>2. r \in Mems /\ d \in Frames
    BY <1>1, FrameKinds DEF Mem, Owned
  <1>3. PICK ts : ts = {k \in Tables : r.dir[d][k] # 0 /\ s \div PTN <= k /\ k * PTN < e}
    OBVIOUS
  <1>4. ts \subseteq Tables /\ \A k \in Tables : k \in ts <=> r.dir[d][k] # 0 /\ Spanned(s, e, k)
    BY <1>3 DEF Spanned
  <1>5. PICK ps : ps = {r.dir[d][k] : k \in ts}
    OBVIOUS
  <1>6. ASSUME NEW k \in ts
        PROVE  r.dir[d][k] \in Pages /\ \A j \in Slots : r.tab[r.dir[d][k]][j].pg = 0
    <2>1. PICK t : t = r.dir[d][k]
      OBVIOUS
    <2>2. t \in Pages /\ t # 0
      <3>1. r.dir[d][k] \in Frames
        BY <1>2, <1>4, MemTypes
      <3> QED BY <1>4, <2>1, <3>1, FrameKinds
    <2>3. ASSUME NEW j \in Slots PROVE r.tab[t][j].pg = 0
      <3>1. PICK v \in VPages : Tb(v) = k /\ Ix(v) = j
        BY <1>4, PartsOf
      <3>2. Pte(r, d, v) = r.tab[t][j]
        BY <2>1, <2>2, <3>1, PteIs
      <3> QED BY <3>2 DEF NoPte
    <2> QED BY <2>1, <2>2, <2>3
  <1>7. ps \in SUBSET Pages /\ \A x : x \in ps <=> \E k \in ts : x = r.dir[d][k]
    BY <1>5, <1>6
  <1>8. PICK a : a = free_pages(r, ps)
    OBVIOUS
  <1>9. /\ a \in Mems /\ a.free = r.free \union ps
        /\ \A x \in Pages : a.ref[x] = IF x \in ps THEN 0 ELSE r.ref[x]
        /\ \A c \in Frames : a.dir[c] = IF c \in ps THEN NoDir ELSE r.dir[c]
        /\ \A x \in Pages : a.tab[x] = IF x \in ps THEN NoTab ELSE r.tab[x]
        /\ a.tlb = r.tlb /\ a.err = r.err
    BY <1>2, <1>7, <1>8, FreeFields
  <1>10. ASSUME NEW p \in ps PROVE kd[p] = "table" /\ p \notin D
    <2>1. PICK k \in ts : p = r.dir[d][k]
      BY <1>7
    <2>2. k \in Tables /\ p # 0 /\ p \in Pages
      BY <1>4, <1>7, <2>1, FrameKinds
    <2> QED BY <1>1, <1>2, <2>1, <2>2 DEF Owned
  <1>11. a.dir = r.dir
    <2>1. a.dir \in [Frames -> [Tables -> Frames]] /\ r.dir \in [Frames -> [Tables -> Frames]]
      BY <1>2, <1>9, MemTypes
    <2>2. ASSUME NEW c \in Frames PROVE a.dir[c] = r.dir[c]
      <3>1. CASE c \notin ps
        BY <1>9, <3>1
      <3>2. CASE c \in ps
        <4>1. a.dir[c] = NoDir
          BY <1>9, <3>2
        <4>2. \A k \in Tables : r.dir[c][k] = 0
          BY <1>1, <1>10, <3>2 DEF Owned
        <4>3. r.dir[c] \in [Tables -> Frames]
          BY <2>1
        <4> QED BY <4>1, <4>2, <4>3, NoTypes DEF NoDir
      <3> QED BY <3>1, <3>2
    <2> QED BY <2>1, <2>2
  <1>12. PICK row, di : row = [k \in Tables |-> IF k \in ts THEN 0 ELSE r.dir[d][k]]
                        /\ di = [r.dir EXCEPT ![d] = row]
    OBVIOUS
  <1>13. r.dir \in [Frames -> [Tables -> Frames]]
    BY <1>2, MemTypes
  <1>14. row \in [Tables -> Frames]
    BY <1>2, <1>12, <1>13, FrameKinds
  <1>15. di \in [Frames -> [Tables -> Frames]] /\ di[d] = row /\ \A c \in Frames \ {d} : di[c] = r.dir[c]
    BY <1>2, <1>12, <1>13, <1>14
  <1>16. q = [a EXCEPT !.dir = di]
    <2>1. q = [a EXCEPT !.dir[d] = [t \in Tables |-> IF t \in ts THEN 0 ELSE @[t]]]
      BY <1>3, <1>5, <1>8 DEF exit_range
    <2>2. q = [a EXCEPT !.dir = [a.dir EXCEPT ![d] = [t \in Tables |-> IF t \in ts THEN 0 ELSE a.dir[d][t]]]]
      BY <2>1
    <2> QED BY <1>11, <1>12, <2>2
  <1>17. /\ q \in Mems /\ q.free = a.free /\ q.ref = a.ref /\ q.tab = a.tab /\ q.dir = di
         /\ q.tlb = a.tlb /\ q.err = a.err
    BY <1>9, <1>15, <1>16 DEF Mems
  <1>18. \A c \in Frames, j \in Tables :
           q.dir[c][j] = IF c = d /\ j \in ts THEN 0 ELSE r.dir[c][j]
    BY <1>12, <1>15, <1>17
  <1>19. ASSUME NEW x \in Pages, NEW j \in Slots PROVE q.tab[x][j] = r.tab[x][j]
    <2>1. CASE x \notin ps
      BY <1>9, <1>17, <2>1
    <2>2. CASE x \in ps
      <3>1. r.tab[x][j].pg = 0
        BY <1>6, <1>7, <2>2
      <3>2. r.tab[x][j] = NoPte
        BY <1>1, <3>1 DEF Owned
      <3>3. NoTab[j] = NoPte
        BY DEF NoTab, Slots
      <3>4. q.tab[x] = NoTab
        BY <1>9, <1>17, <2>2
      <3> QED BY <3>2, <3>3, <3>4
    <2> QED BY <2>1, <2>2
  <1>20. FreesTables(r, q, d, ts)
    <2>1. \A k \in ts : r.dir[d][k] # 0 /\ \A j \in Slots : r.tab[r.dir[d][k]][j].pg = 0
      BY <1>4, <1>6
    <2>2. \A x \in Pages : x \in q.free <=> x \in r.free \/ \E k \in ts : x = r.dir[d][k]
      BY <1>7, <1>9, <1>17
    <2>3. \A x \in Pages : q.ref[x] = IF \E k \in ts : x = r.dir[d][k] THEN 0 ELSE r.ref[x]
      BY <1>7, <1>9, <1>17
    <2> QED BY <1>2, <1>4, <1>17, <1>18, <1>19, <2>1, <2>2, <2>3 DEF FreesTables
  <1>21. /\ Mem(q, D, K, H) /\ \A c \in Frames \ {d} : SameSpace(r, q, c)
         /\ \A v \in VPages : Pte(q, d, v) = Pte(r, d, v)
    BY <1>20, FreeTables
  <1>22. \A k \in Tables : q.dir[d][k] = IF Spanned(s, e, k) THEN 0 ELSE r.dir[d][k]
    BY <1>2, <1>4, <1>18
  <1>23. q.err = r.err /\ q.tlb = r.tlb
    BY <1>9, <1>17
  <1>24. Outside(r, q, d) /\ SamePtes(r, q, d)
    BY <1>21 DEF Outside, SamePtes
  <1> QED BY <1>21, <1>22, <1>23, <1>24 DEF Exited

-----------------------------------------------------------------------------
(* Copying an address space                                                *)

\* Some of what is mapped in pages s .. e - 1 of from is now mapped in directory
\* to, with the same permission; the new tables are those of these pages.
Copies(r, q, to, from, s, e) ==
    /\ Outside(r, q, to) /\ (q.tlb = r.tlb \/ q.tlb = {})
    /\ \A u \in VPages :
          \/ Pte(q, to, u) = Pte(r, to, u)
          \/ s <= u /\ u < e /\ Maps(r, from, u) /\ Pte(q, to, u).w = Pte(r, from, u).w
    /\ \A k \in Tables : q.dir[to][k] = r.dir[to][k] \/ Spanned(s, e, k)
    /\ q.err \in {"ok", "nomem", "panic"} /\ (q.err = "panic" => q.free = {})

LEMMA CopyNone ==
    ASSUME NEW r, NEW to, NEW from, NEW s, NEW e, r.err = "ok"
    PROVE  Copies(r, r, to, from, s, e)
  <1>1. Outside(r, r, to)
    BY SpaceReflexive DEF Outside
  <1> QED BY <1>1 DEF Copies

LEMMA TableSpanned == \A v \in VPages : Spanned(v, v + 1, Tb(v))
  <1> SUFFICES ASSUME NEW v \in VPages PROVE Spanned(v, v + 1, Tb(v))
    OBVIOUS
  <1>1. PICK k \in Tables, i \in Slots : k = Tb(v) /\ i = Ix(v)
    BY Parts
  <1>2. v \in Nat /\ v = PTN * k + i
    BY <1>1, Parts
  <1>3. k * PTN < v + 1
    <2>1. i >= 0 /\ k \in Int /\ i \in Int
      BY Sizes DEF Slots, Tables
    <2>2. k * PTN = PTN * k /\ PTN * k \in Int
      BY <2>1, Sizes
    <2> QED BY <1>2, <2>1, <2>2
  <1>4. v \div PTN <= k
    <2>1. v \div PTN = k
      BY <1>1 DEF Tb
    <2> QED BY <2>1, Sizes DEF Tables
  <1> QED BY <1>1, <1>3, <1>4 DEF Spanned

\* A page more.
LEMMA CopyMore ==
    ASSUME NEW r \in Mems, NEW x \in Mems, NEW q, NEW to, NEW from \in Frames, from # to,
           NEW s \in Nat, NEW e \in Nat, NEW v \in VPages, s <= v, v < e,
           Copies(r, x, to, from, s, e), Copies(x, q, to, from, v, v + 1)
    PROVE  Copies(r, q, to, from, s, e)
  <1>1. Outside(r, q, to)
    BY SpaceTransitive DEF Copies, Outside
  <1>2. \A u \in VPages : Pte(x, from, u) = Pte(r, from, u)
    BY DEF Copies, Outside, SameSpace
  <1>3. v \in Nat /\ \A u \in VPages : u \in Nat
    BY Parts
  <1>4. ASSUME NEW u \in VPages
        PROVE  \/ Pte(q, to, u) = Pte(r, to, u)
               \/ s <= u /\ u < e /\ Maps(r, from, u) /\ Pte(q, to, u).w = Pte(r, from, u).w
    <2>1. CASE Pte(q, to, u) = Pte(x, to, u)
      BY <2>1 DEF Copies
    <2>2. CASE Pte(q, to, u) # Pte(x, to, u)
      <3>1. v <= u /\ u < v + 1 /\ Maps(x, from, u) /\ Pte(q, to, u).w = Pte(x, from, u).w
        BY <2>2 DEF Copies
      <3>2. s <= u /\ u < e
        BY <1>3, <3>1
      <3> QED BY <1>2, <3>1, <3>2 DEF Maps
    <2> QED BY <2>1, <2>2
  <1>5. ASSUME NEW k \in Tables PROVE q.dir[to][k] = r.dir[to][k] \/ Spanned(s, e, k)
    <2>1. CASE q.dir[to][k] = x.dir[to][k]
      BY <2>1 DEF Copies
    <2>2. CASE q.dir[to][k] # x.dir[to][k]
      <3>1. v \div PTN <= k /\ k * PTN < v + 1
        BY <2>2 DEF Copies, Spanned
      <3>2. k \in Int /\ k * PTN \in Int /\ v \div PTN \in Int /\ s \div PTN \in Int
        BY <1>3, Sizes DEF Tables
      <3>3. k * PTN < e
        BY <1>3, <3>1, <3>2
      <3>4. s \div PTN <= v \div PTN
        <4>1. PICK c \in Int : c = v \div PTN
          BY <3>2
        <4>2. v < PTN * c + PTN
          BY <1>3, <4>1, DivAtMost, Sizes
        <4>3. PTN * c + PTN \in Int
          BY <4>1, Sizes
        <4>4. s < PTN * c + PTN
          BY <1>3, <4>2, <4>3
        <4> QED BY <4>1, <4>4, DivAtMost, Sizes
      <3>5. s \div PTN <= k
        BY <3>1, <3>2, <3>4
      <3> QED BY <3>3, <3>5 DEF Spanned
    <2> QED BY <2>1, <2>2
  <1>6. q.tlb = r.tlb \/ q.tlb = {}
    BY DEF Copies
  <1>7. q.err \in {"ok", "nomem", "panic"} /\ (q.err = "panic" => q.free = {})
    BY DEF Copies
  <1> QED BY <1>1, <1>4, <1>5, <1>6, <1>7 DEF Copies

\* CopyPage of a page that is mapped.
CopiesPage(r, q, D, K, H, to, from, v) ==
    /\ Mem(r, D, K, H) /\ r.err = "ok" /\ to \in D /\ from \in Frames /\ from # to
    /\ v \in VPages /\ Maps(r, from, v) /\ q = CopyPage(r, to, from, v)

LEMMA CopyOne ==
    ASSUME NEW r, NEW q, NEW D, NEW K, NEW H, NEW to, NEW from, NEW v,
           CopiesPage(r, q, D, K, H, to, from, v)
    PROVE  Mem(q, D, K, H) /\ Copies(r, q, to, from, v, v + 1)
  <1>0. /\ Mem(r, D, K, H) /\ r.err = "ok" /\ to \in D /\ from \in Frames /\ from # to
        /\ v \in VPages /\ Maps(r, from, v) /\ q = CopyPage(r, to, from, v)
    BY DEF CopiesPage
  <1>1. r \in Mems /\ D \subseteq Pages /\ to \in Frames
    BY <1>0, FrameKinds DEF Mem, Owned
  <1>2. PICK b : b = get_pte(r, to, v)
    OBVIOUS
  <1>3. /\ Mem(b, D, K, H) /\ Outside(r, b, to) /\ SamePtes(r, b, to)
        /\ b.tlb = r.tlb /\ b.free \subseteq r.free /\ (r.dir[to][Tb(v)] # 0 => b = r)
        /\ \/ /\ b.err = "ok" /\ b.dir[to][Tb(v)] # 0
              /\ \A k \in Tables \ {Tb(v)} : b.dir[to][k] = r.dir[to][k]
           \/ b.err = "nomem" /\ r.free = {} /\ b.free = {} /\ b.dir = r.dir
    BY <1>0, <1>2, GetPte
  <1>4. b \in Mems /\ v \in Nat /\ v <= v /\ v < v + 1
    BY <1>0, <1>3, Parts DEF Mem
  <1>5. PICK old : old = Pte(r, from, v)
    OBVIOUS
  <1>6. old = Pte(b, from, v) /\ old \in Ptes /\ old.pg \in Pages
    <2>1. Pte(b, from, v) = Pte(r, from, v)
      BY <1>0, <1>3 DEF Outside, SameSpace
    <2>2. old \in Ptes /\ old.pg \in Pages
      <3>1. PICK kd, at, ix : Owned(r, kd, at, ix, D, K, H)
        BY <1>0 DEF Mem
      <3> QED BY <1>0, <1>1, <1>5, <3>1, PteFacts DEF Maps
    <2> QED BY <1>5, <2>1, <2>2
  <1>7. CASE b.err # "ok"
    <2>1. q = b
      BY <1>0, <1>2, <1>7 DEF CopyPage
    <2>2. b.err = "nomem" /\ b.dir = r.dir
      BY <1>3, <1>7
    <2>3. Copies(r, q, to, from, v, v + 1)
      BY <1>3, <2>1, <2>2 DEF Copies, SamePtes
    <2> QED BY <1>3, <2>1, <2>3
  <1>8. CASE b.err = "ok" /\ b.free = {}
    <2>1. q = [b EXCEPT !.err = "panic"]
      BY <1>0, <1>2, <1>8 DEF CopyPage
    <2>2. /\ q \in Mems /\ q.free = b.free /\ q.dir = b.dir /\ q.tab = b.tab /\ q.ref = b.ref
          /\ q.tlb = b.tlb /\ q.err = "panic"
      BY <1>4, <2>1, ErrFields DEF Errs
    <2>3. Mem(q, D, K, H) /\ \A c : SameSpace(b, q, c)
      BY <1>3, <2>2, SameTables
    <2>4. Outside(r, q, to)
      BY <1>3, <2>3, SpaceTransitive DEF Outside
    <2>5. \A u \in VPages : Pte(q, to, u) = Pte(r, to, u)
      BY <1>3, <2>3 DEF SameSpace, SamePtes
    <2>6. \A k \in Tables : q.dir[to][k] = r.dir[to][k] \/ Spanned(v, v + 1, k)
      BY <1>0, <1>3, <1>8, <2>2, TableSpanned
    <2>7. Copies(r, q, to, from, v, v + 1)
      BY <1>3, <1>8, <2>2, <2>4, <2>5, <2>6 DEF Copies
    <2> QED BY <2>3, <2>7
  <1>9. CASE b.err = "ok" /\ b.free # {}
    <2>1. PICK p : p = alloc_page(b)
      OBVIOUS
    <2>2. p \in b.free /\ p \in Pages /\ p # 0 /\ p \in Frames
      BY <1>4, <1>9, <2>1, AllocIsFree, FrameKinds
    <2>3. PICK da : da = [b.data EXCEPT ![p] = b.data[old.pg]]
      OBVIOUS
    <2>4. PICK a : a = [b EXCEPT !.free = b.free \ {p}, !.data = da]
      OBVIOUS
    <2>5. /\ a \in Mems /\ a.free = b.free \ {p} /\ a.dir = b.dir /\ a.tab = b.tab /\ a.ref = b.ref
          /\ a.tlb = b.tlb /\ a.err = "ok"
      <3>1. b.data \in [Pages -> Vals]
        BY <1>4, MemTypes
      <3>2. da \in [Pages -> Vals] /\ b.free \ {p} \in SUBSET Pages
        BY <1>4, <1>6, <2>2, <2>3, <3>1, MemTypes
      <3> QED BY <1>4, <1>9, <2>4, <3>2 DEF Mems
    <2>6. Mem(a, D, K, H \union {p}) /\ \A c \in Frames : SameSpace(b, a, c)
      BY <1>3, <2>2, <2>5, TakePages
    <2>7. PICK e : e = [pg |-> p, w |-> old.w]
      OBVIOUS
    <2>8. e \in Ptes /\ e.pg = p /\ e.w = old.w
      BY <1>6, <2>2, <2>7 DEF Ptes
    <2>9. q = page_insert(a, to, p, v, e.w)
      BY <1>0, <1>2, <1>6, <1>9, <2>1, <2>3, <2>4, <2>8 DEF CopyPage
    <2>10. p \in H \union {p}
      OBVIOUS
    <2>11. /\ Outside(a, q, to)
           /\ \/ Mem(q, D, K, (H \union {p}) \ {p}) /\ Inserted(a, q, to, v, e)
              \/ Mem(q, D, K, H \union {p}) /\ NotInserted(a, q, to, v)
      <3>1. Insertion(a, q, D, K, H \union {p}, to, v, p, e)
        BY <1>0, <2>5, <2>6, <2>8, <2>9, <2>10 DEF Insertion
      <3> QED BY <3>1, Insert
    <2>12. b.dir[to][Tb(v)] # 0
      BY <1>3, <1>9
    <2>13. Mem(q, D, K, (H \union {p}) \ {p}) /\ Inserted(a, q, to, v, e)
      BY <2>5, <2>11, <2>12 DEF NotInserted
    <2>14. (H \union {p}) \ {p} = H
      <3>1. p \notin H
        <4>1. PICK kd, at, ix : Owned(b, kd, at, ix, D, K, H)
          BY <1>3 DEF Mem
        <4> QED BY <2>2, <4>1 DEF Owned
      <3> QED BY <3>1
    <2>15. Outside(r, q, to)
      BY <1>3, <2>6, <2>11, SpaceTransitive DEF Outside
    <2>16. \A u \in VPages : Pte(q, to, u) = IF u = v THEN e ELSE Pte(r, to, u)
      <3>1. \A u \in VPages : Pte(a, to, u) = Pte(r, to, u)
        BY <1>1, <1>3, <2>6 DEF SameSpace, SamePtes
      <3> QED BY <2>13, <3>1 DEF Inserted
    <2>17. \A u \in VPages :
              \/ Pte(q, to, u) = Pte(r, to, u)
              \/ v <= u /\ u < v + 1 /\ Maps(r, from, u) /\ Pte(q, to, u).w = Pte(r, from, u).w
      BY <1>0, <1>4, <1>5, <2>8, <2>16
    <2>18. \A k \in Tables : q.dir[to][k] = r.dir[to][k] \/ Spanned(v, v + 1, k)
      BY <1>0, <1>3, <1>9, <2>5, <2>13, TableSpanned DEF Inserted
    <2>19. q.err = "ok" /\ q.tlb = {}
      BY <2>13 DEF Inserted
    <2>20. Copies(r, q, to, from, v, v + 1)
      BY <2>15, <2>17, <2>18, <2>19 DEF Copies
    <2> QED BY <2>13, <2>14, <2>20
  <1> QED BY <1>7, <1>8, <1>9

\* A round of copy_range.  What has been copied is between s and e.
CopyStates(r, D, K, H, to, from, s, e) ==
    {x \in [r : Mems, v : Nat] : /\ Mem(x.r, D, K, H) /\ s <= x.v
                                 /\ Copies(r, x.r, to, from, s, e)}
CopiesRange(r, D, K, H, to, from, s, e) ==
    /\ Mem(r, D, K, H) /\ r.err = "ok" /\ to \in D /\ from \in Frames /\ from # to
    /\ s \in Nat /\ e \in Nat /\ s <= e /\ e <= Top

LEMMA CopyRounds ==
    ASSUME NEW r, NEW D, NEW K, NEW H, NEW to, NEW from, NEW s, NEW e,
           CopiesRange(r, D, K, H, to, from, s, e),
           NEW x \in CopyStates(r, D, K, H, to, from, s, e),
           NEW y, y = CopyRound(x, to, from, e)
    PROVE  y \in CopyStates(r, D, K, H, to, from, s, e)
  <1>0. /\ Mem(r, D, K, H) /\ r.err = "ok" /\ to \in D /\ from \in Frames /\ from # to
        /\ s \in Nat /\ e \in Nat /\ s <= e /\ e <= Top
    BY DEF CopiesRange
  <1>1. /\ x \in [r : Mems, v : Nat] /\ Mem(x.r, D, K, H) /\ s <= x.v
        /\ Copies(r, x.r, to, from, s, e)
    BY DEF CopyStates
  <1>2. PICK b, v : b = x.r /\ v = x.v /\ x = [r |-> b, v |-> v]
    BY <1>1
  <1>3. b \in Mems /\ v \in Nat /\ Mem(b, D, K, H) /\ s <= v /\ Copies(r, b, to, from, s, e)
    BY <1>1, <1>2
  <1>4. CASE v >= e \/ b.err # "ok"
    <2>1. y = x
      BY <1>2, <1>4 DEF CopyRound
    <2> QED BY <2>1
  <1>5. CASE ~(v >= e \/ b.err # "ok") /\ ~HasTable(b, from, v)
    <2>1. y = [r |-> b, v |-> v + PTN]
      BY <1>2, <1>5 DEF CopyRound
    <2>2. v + PTN \in Nat /\ s <= v + PTN
      BY <1>0, <1>3, Sizes
    <2> QED BY <1>3, <2>1, <2>2 DEF CopyStates
  <1>6. CASE ~(v >= e \/ b.err # "ok") /\ HasTable(b, from, v)
    <2>1. PICK c : c = IF Pte(b, from, v) = NoPte THEN b ELSE CopyPage(b, to, from, v)
      OBVIOUS
    <2>2. y = [r |-> c, v |-> v + 1]
      BY <1>2, <1>6, <2>1 DEF CopyRound
    <2>3. v \in VPages /\ v < e /\ v + 1 \in Nat /\ s <= v + 1
      BY <1>0, <1>3, <1>6, Sizes DEF VPages
    <2>4. Mem(c, D, K, H) /\ Copies(r, c, to, from, s, e)
      <3>1. CASE Pte(b, from, v) = NoPte
        BY <1>3, <2>1, <3>1
      <3>2. CASE Pte(b, from, v) # NoPte
        <4>1. CopiesPage(b, c, D, K, H, to, from, v)
          BY <1>0, <1>3, <1>6, <2>1, <2>3, <3>2 DEF CopiesPage, Maps
        <4>2. Mem(c, D, K, H) /\ Copies(b, c, to, from, v, v + 1)
          BY <4>1, CopyOne
        <4>3. r \in Mems
          BY <1>0 DEF Mem
        <4>4. Copies(r, c, to, from, s, e)
          BY <1>0, <1>3, <2>3, <4>2, <4>3, CopyMore
        <4> QED BY <4>2, <4>4
      <3> QED BY <3>1, <3>2
    <2>5. c \in Mems
      BY <2>4 DEF Mem
    <2> QED BY <2>2, <2>3, <2>4, <2>5 DEF CopyStates
  <1> QED BY <1>4, <1>5, <1>6

LEMMA CopyRange ==
    ASSUME NEW r, NEW D, NEW K, NEW H, NEW to, NEW from, NEW s, NEW e,
           CopiesRange(r, D, K, H, to, from, s, e),
           NEW q, q = copy_range(r, to, from, s, e)
    PROVE  Mem(q, D, K, H) /\ Copies(r, q, to, from, s, e)
  <1> DEFINE N == e - s
             U == CopyStates(r, D, K, H, to, from, s, e)
             x0 == [r |-> r, v |-> s]
             Step(x) == CopyRound(x, to, from, e)
             F == [n \in 1 .. N |-> [x \in U |-> Step(x)]]
             Rec(h) == h = [n \in 0 .. N |-> IF n = 0 THEN x0 ELSE Step(h[n - 1])]
  <1>1. N \in Nat /\ x0 \in U
    <2>1. N \in Nat /\ Mem(r, D, K, H) /\ r.err = "ok" /\ s \in Nat
      BY DEF CopiesRange
    <2>2. r \in Mems
      BY <2>1 DEF Mem
    <2>3. Copies(r, r, to, from, s, e)
      BY <2>1, CopyNone
    <2> QED BY <2>1, <2>2, <2>3 DEF CopyStates
  <1>2. ASSUME NEW n \in 1 .. N PROVE n - 1 \in 0 .. N /\ n \in 0 .. N /\ n # 0
    BY <1>1
  <1>3. ASSUME NEW x \in U PROVE Step(x) \in U
    BY <1>3, CopyRounds
  <1>4. F \in [1 .. N -> [U -> U]]
    <2> HIDE DEF Step, U, N
    <2> QED BY <1>3
  <1>5. PICK g : Runs(g, N, U, x0, F)
    <2> HIDE DEF F, U, N, x0
    <2>1. IsLoop(N, U, x0, F)
      BY <1>1, <1>4 DEF IsLoop
    <2> QED BY <2>1, LoopRuns
  <1>6. g \in [0 .. N -> U] /\ g[0] = x0 /\ \A n \in 1 .. N : g[n] = F[n][g[n - 1]]
    BY <1>5 DEF Runs
  <1>7. \A n \in 1 .. N : g[n] = Step(g[n - 1])
    <2> HIDE DEF Step, U, N, x0
    <2>1. \A n \in 1 .. N : n - 1 \in 0 .. N /\ g[n - 1] \in U
      BY <1>2, <1>6
    <2> QED BY <1>6, <2>1
  <1>8. Rec(g)
    <2> HIDE DEF Step, U, x0
    <2>1. ASSUME NEW n \in 0 .. N PROVE g[n] = IF n = 0 THEN x0 ELSE Step(g[n - 1])
      <3>1. n = 0 \/ n \in 1 .. N
        BY <1>1
      <3> HIDE DEF N
      <3> QED BY <1>6, <1>7, <3>1
    <2> HIDE DEF N
    <2> QED BY <1>6, <2>1
  <1>9. q = (CHOOSE h : Rec(h))[N].r
    BY DEF copy_range
  <1>10. PICK h : h = (CHOOSE x : Rec(x)) /\ Rec(h)
    <2> HIDE DEF Rec
    <2> QED BY <1>8
  <1>11. h[0] = x0 /\ \A n \in 1 .. N : h[n] = Step(h[n - 1])
    <2>1. 0 \in 0 .. N
      BY <1>1
    <2> HIDE DEF Step, N, x0
    <2> QED BY <1>2, <1>10, <2>1
  <1> HIDE DEF Rec
  <1> DEFINE T == {n \in 0 .. N : h[n] \in U}
  <1>12. N \in T
    <2> HIDE DEF N, U, x0, Step
    <2>1. 0 \in T
      BY <1>1, <1>11
    <2>2. ASSUME NEW n \in 1 .. N, n - 1 \in T PROVE n \in T
      BY <1>2, <1>3, <1>11, <2>2
    <2> HIDE DEF T
    <2>3. 0 .. N \subseteq T
      BY <1>1, <2>1, <2>2, UpTo
    <2> QED BY <1>1, <2>3
  <1>13. h[N] \in U
    BY <1>12
  <1>14. q = h[N].r
    BY <1>9, <1>10
  <1> HIDE DEF N
  <1> QED BY <1>13, <1>14 DEF CopyStates


-----------------------------------------------------------------------------
(* The areas of an address space                                           *)

Flags == {"R", "W", "X", "STACK"}
Areas == [s : Nat, e : Nat, flags : SUBSET Flags]

\* Areas that are in user memory, and areas that are also in order and apart.
InBounds(vs) == vs \in Seq(Areas) /\ \A i \in 1 .. Len(vs) : vs[i].s < vs[i].e /\ vs[i].e <= Top
Sorted(vs) == InBounds(vs) /\ \A i, j \in 1 .. Len(vs) : i < j => vs[i].e <= vs[j].s

\* Each page that is mapped is in an area that allows it, each table in reach of
\* one, so that exit_mmap finds them.
Covered(r, d, vs) ==
    /\ \A v \in VPages : Maps(r, d, v) =>
          \E i \in 1 .. Len(vs) : InVma(vs[i], v) /\ (Pte(r, d, v).w <=> "W" \in vs[i].flags)
    /\ \A k \in Tables : r.dir[d][k] # 0 =>
          \E i \in 1 .. Len(vs) : Spanned(vs[i].s, vs[i].e, k)

LEMMA AreaFacts ==
    ASSUME NEW vs, InBounds(vs), NEW i \in 1 .. Len(vs)
    PROVE  /\ Len(vs) \in Nat /\ vs[i] \in Areas /\ vs[i].s \in Nat /\ vs[i].e \in Nat
           /\ vs[i].s < vs[i].e /\ vs[i].e <= Top
  <1>1. vs \in Seq(Areas) /\ vs[i].s < vs[i].e /\ vs[i].e <= Top
    BY DEF InBounds
  <1>2. Len(vs) \in Nat /\ vs[i] \in Areas
    BY <1>1
  <1>3. \A x \in Areas : x.s \in Nat /\ x.e \in Nat
    BY DEF Areas
  <1> QED BY <1>1, <1>2, <1>3

\* After n rounds of unmap_all.
UnmappedTo(r, q, d, vs, n) ==
    /\ Outside(r, q, d) /\ q.err = r.err /\ q.dir = r.dir /\ (q.tlb = r.tlb \/ q.tlb = {})
    /\ \A u \in VPages :
          \/ Pte(q, d, u) = Pte(r, d, u) /\ \A i \in 1 .. n : ~InVma(vs[i], u)
          \/ Pte(q, d, u) = NoPte /\ (Pte(r, d, u) = NoPte \/ q.tlb = {})

LEMMA UnmapAllRound ==
    ASSUME NEW r, NEW x, NEW q, NEW D, NEW K, NEW H, Mem(x, D, K, H), NEW d \in Frames,
           NEW vs, InBounds(vs), NEW n \in 1 .. Len(vs), UnmappedTo(r, x, d, vs, n - 1),
           q = unmap_range(x, d, vs[n].s, vs[n].e)
    PROVE  Mem(q, D, K, H) /\ UnmappedTo(r, q, d, vs, n)
  <1>1. PICK s \in Nat, e \in Nat : s = vs[n].s /\ e = vs[n].e /\ s < e /\ e <= Top
    BY AreaFacts
  <1>2. Mem(q, D, K, H) /\ Unmapped(x, q, d, s, e)
    BY <1>1, UnmapRange
  <1>3. Outside(r, q, d)
    BY <1>2, SpaceTransitive DEF Unmapped, UnmappedTo, Outside
  <1>4. q.err = r.err /\ q.dir = r.dir /\ (q.tlb = r.tlb \/ q.tlb = {}) /\ (x.tlb = {} => q.tlb = {})
    BY <1>2 DEF Unmapped, UnmappedTo
  <1>5. \A i \in 1 .. n : i = n \/ i \in 1 .. n - 1
    OBVIOUS
  <1>6. ASSUME NEW u \in VPages
        PROVE  \/ Pte(q, d, u) = Pte(r, d, u) /\ \A i \in 1 .. n : ~InVma(vs[i], u)
               \/ Pte(q, d, u) = NoPte /\ (Pte(r, d, u) = NoPte \/ q.tlb = {})
    <2>1. CASE s <= u /\ u < e
      <3>1. Pte(q, d, u) = NoPte /\ (Maps(x, d, u) => q.tlb = {})
        BY <1>2, <2>1 DEF Unmapped
      <3>2. Pte(x, d, u) = NoPte => Pte(r, d, u) = NoPte \/ x.tlb = {}
        BY DEF UnmappedTo
      <3> QED BY <1>4, <3>1, <3>2 DEF Maps
    <2>2. CASE ~(s <= u /\ u < e)
      <3>1. Pte(q, d, u) = Pte(x, d, u)
        BY <1>2, <2>2 DEF Unmapped
      <3>2. ~InVma(vs[n], u)
        BY <1>1, <2>2 DEF InVma
      <3>3. \/ Pte(x, d, u) = Pte(r, d, u) /\ \A i \in 1 .. n - 1 : ~InVma(vs[i], u)
            \/ Pte(x, d, u) = NoPte /\ (Pte(r, d, u) = NoPte \/ x.tlb = {})
        BY DEF UnmappedTo
      <3> QED BY <1>4, <1>5, <3>1, <3>2, <3>3
    <2> QED BY <2>1, <2>2
  <1> QED BY <1>2, <1>3, <1>4, <1>6 DEF UnmappedTo

LEMMA UnmapAll ==
    ASSUME NEW r, NEW D, NEW K, NEW H, Mem(r, D, K, H), NEW a, a.pgdir \in Frames,
           InBounds(a.vmas), NEW q, q = unmap_all(r, a)
    PROVE  Mem(q, D, K, H) /\ UnmappedTo(r, q, a.pgdir, a.vmas, Len(a.vmas))
  <1>0. PICK d \in Frames : d = a.pgdir /\ InBounds(a.vmas)
    OBVIOUS
  <1>vs. PICK vs : vs = a.vmas /\ InBounds(vs)
    OBVIOUS
  <1> DEFINE N == Len(vs)
             Step(n, x) == unmap_range(x, d, vs[n].s, vs[n].e)
             U == {x \in Mems : Mem(x, D, K, H)}
             F == [n \in 1 .. N |-> [x \in U |-> Step(n, x)]]
             Rec(h) == h = [n \in 0 .. N |-> IF n = 0 THEN r ELSE Step(n, h[n - 1])]
  <1>1. N \in Nat /\ r \in U
    BY <1>0, <1>vs DEF Mem, InBounds
  <1>2. ASSUME NEW n \in 1 .. N PROVE n - 1 \in 0 .. N /\ n \in 0 .. N /\ n # 0
    BY <1>1
  <1>3. ASSUME NEW n \in 1 .. N, NEW x \in U PROVE Step(n, x) \in U
    <2>1. PICK s \in Nat, e \in Nat : s = vs[n].s /\ e = vs[n].e /\ s <= e /\ e <= Top
      BY <1>0, <1>vs, AreaFacts
    <2>2. Mem(unmap_range(x, d, s, e), D, K, H)
      BY <2>1, UnmapRange
    <2> QED BY <2>1, <2>2 DEF Mem
  <1>4. F \in [1 .. N -> [U -> U]]
    <2> HIDE DEF Step, U, N
    <2> QED BY <1>3
  <1>5. PICK g : Runs(g, N, U, r, F)
    <2> HIDE DEF F, U, N
    <2>1. IsLoop(N, U, r, F)
      BY <1>1, <1>4 DEF IsLoop
    <2> QED BY <2>1, LoopRuns
  <1>6. g \in [0 .. N -> U] /\ g[0] = r /\ \A n \in 1 .. N : g[n] = F[n][g[n - 1]]
    BY <1>5 DEF Runs
  <1>7. \A n \in 1 .. N : g[n] = Step(n, g[n - 1])
    <2> HIDE DEF Step, U, N
    <2>1. \A n \in 1 .. N : n - 1 \in 0 .. N /\ g[n - 1] \in U
      BY <1>2, <1>6
    <2> QED BY <1>6, <2>1
  <1>8. Rec(g)
    <2> HIDE DEF Step, U
    <2>1. ASSUME NEW n \in 0 .. N PROVE g[n] = IF n = 0 THEN r ELSE Step(n, g[n - 1])
      <3>1. n = 0 \/ n \in 1 .. N
        BY <1>1
      <3> HIDE DEF N
      <3> QED BY <1>6, <1>7, <3>1
    <2> HIDE DEF N
    <2> QED BY <1>6, <2>1
  <1>9. q = (CHOOSE h : Rec(h))[N]
    BY <1>0, <1>vs DEF unmap_all
  <1>10. PICK h : h = (CHOOSE x : Rec(x)) /\ Rec(h)
    <2> HIDE DEF Rec
    <2> QED BY <1>8
  <1>11. h[0] = r /\ \A n \in 1 .. N : h[n] = Step(n, h[n - 1])
    <2>1. 0 \in 0 .. N
      BY <1>1
    <2> HIDE DEF Step, N
    <2> QED BY <1>2, <1>10, <2>1
  <1> HIDE DEF Rec
  <1> DEFINE T == {n \in 0 .. N : Mem(h[n], D, K, H) /\ UnmappedTo(r, h[n], d, vs, n)}
  <1>12. 0 \in T
    <2>1. 0 \in 0 .. N /\ \A i \in 1 .. 0 : FALSE
      BY <1>1
    <2>2. UnmappedTo(r, r, d, vs, 0)
      BY <2>1, SpaceReflexive DEF UnmappedTo, Outside
    <2> QED BY <1>11, <2>1, <2>2
  <1>13. ASSUME NEW n \in 1 .. N, n - 1 \in T PROVE n \in T
    <2>1. Mem(h[n - 1], D, K, H) /\ UnmappedTo(r, h[n - 1], d, vs, n - 1)
      BY <1>13
    <2>2. h[n] = unmap_range(h[n - 1], d, vs[n].s, vs[n].e)
      BY <1>11
    <2>3. Mem(h[n], D, K, H) /\ UnmappedTo(r, h[n], d, vs, n)
      BY <1>0, <1>vs, <2>1, <2>2, UnmapAllRound
    <2> QED BY <1>2, <2>3
  <1>14. N \in T
    <2> HIDE DEF T, N
    <2>1. 0 .. N \subseteq T
      BY <1>1, <1>12, <1>13, UpTo
    <2> QED BY <1>1, <2>1
  <1> HIDE DEF N
  <1>15. Mem(q, D, K, H) /\ UnmappedTo(r, q, d, vs, N)
    BY <1>9, <1>10, <1>14
  <1> QED BY <1>0, <1>vs, <1>15 DEF N

\* After n rounds of exit_all.
ExitedTo(r, q, d, vs, n) ==
    /\ Outside(r, q, d) /\ SamePtes(r, q, d) /\ q.err = r.err /\ q.tlb = r.tlb
    /\ \A k \in Tables :
          \/ q.dir[d][k] = 0
          \/ q.dir[d][k] = r.dir[d][k] /\ \A i \in 1 .. n : ~Spanned(vs[i].s, vs[i].e, k)

Empty(r, d) == \A v \in VPages : Pte(r, d, v) = NoPte

LEMMA ExitAllRound ==
    ASSUME NEW r, NEW x, NEW q, NEW D, NEW K, NEW H, Mem(x, D, K, H), NEW d \in D, Empty(x, d),
           NEW vs, NEW n \in Nat \ {0}, ExitedTo(r, x, d, vs, n - 1),
           q = exit_range(x, d, vs[n].s, vs[n].e)
    PROVE  Mem(q, D, K, H) /\ ExitedTo(r, q, d, vs, n) /\ Empty(q, d)
  <1>1. PICK s, e : s = vs[n].s /\ e = vs[n].e
    OBVIOUS
  <1>2. Mem(q, D, K, H) /\ Exited(x, q, d, s, e)
    BY <1>1, ExitRange DEF Empty
  <1>3. Outside(r, q, d) /\ SamePtes(r, q, d) /\ q.err = r.err /\ q.tlb = r.tlb
    <2>1. Outside(r, q, d)
      BY <1>2, SpaceTransitive DEF Exited, ExitedTo, Outside
    <2>2. SamePtes(r, q, d)
      BY <1>2 DEF Exited, ExitedTo, SamePtes
    <2> QED BY <1>2, <2>1, <2>2 DEF Exited, ExitedTo
  <1>4. Empty(q, d)
    BY <1>2 DEF Exited, SamePtes, Empty
  <1>5. \A i \in 1 .. n : i = n \/ i \in 1 .. n - 1
    OBVIOUS
  <1>6. ASSUME NEW k \in Tables
        PROVE  \/ q.dir[d][k] = 0
               \/ q.dir[d][k] = r.dir[d][k] /\ \A i \in 1 .. n : ~Spanned(vs[i].s, vs[i].e, k)
    <2>1. q.dir[d][k] = IF Spanned(s, e, k) THEN 0 ELSE x.dir[d][k]
      BY <1>2 DEF Exited
    <2>2. \/ x.dir[d][k] = 0
          \/ x.dir[d][k] = r.dir[d][k] /\ \A i \in 1 .. n - 1 : ~Spanned(vs[i].s, vs[i].e, k)
      BY DEF ExitedTo
    <2> QED BY <1>1, <1>5, <2>1, <2>2
  <1> QED BY <1>2, <1>3, <1>4, <1>6 DEF ExitedTo

LEMMA ExitAll ==
    ASSUME NEW r, NEW D, NEW K, NEW H, Mem(r, D, K, H), NEW a, a.pgdir \in D,
           Empty(r, a.pgdir), InBounds(a.vmas), NEW q, q = exit_all(r, a)
    PROVE  Mem(q, D, K, H) /\ ExitedTo(r, q, a.pgdir, a.vmas, Len(a.vmas)) /\ Empty(q, a.pgdir)
  <1>0. PICK d \in D : d = a.pgdir /\ InBounds(a.vmas) /\ Empty(r, d)
    OBVIOUS
  <1>vs. PICK vs : vs = a.vmas /\ InBounds(vs)
    OBVIOUS
  <1> DEFINE N == Len(vs)
             Step(n, x) == exit_range(x, d, vs[n].s, vs[n].e)
             U == {x \in Mems : Mem(x, D, K, H) /\ Empty(x, d)}
             F == [n \in 1 .. N |-> [x \in U |-> Step(n, x)]]
             Rec(h) == h = [n \in 0 .. N |-> IF n = 0 THEN r ELSE Step(n, h[n - 1])]
  <1>1. N \in Nat /\ r \in U
    BY <1>0, <1>vs DEF Mem, InBounds
  <1>2. ASSUME NEW n \in 1 .. N
        PROVE  n - 1 \in 0 .. N /\ n \in 0 .. N /\ n # 0 /\ n \in Nat \ {0}
    BY <1>1
  <1>3. ASSUME NEW n \in 1 .. N, NEW x \in U PROVE Step(n, x) \in U
    <2>1. PICK s, e : s = vs[n].s /\ e = vs[n].e
      OBVIOUS
    <2>2. PICK y : y = exit_range(x, d, s, e)
      OBVIOUS
    <2>3. Mem(y, D, K, H) /\ Exited(x, y, d, s, e)
      BY <1>0, <1>vs, <2>2, ExitRange DEF Empty
    <2>4. Empty(y, d) /\ y \in Mems
      BY <2>3 DEF Mem, Empty, Exited, SamePtes
    <2> QED BY <2>1, <2>2, <2>3, <2>4
  <1>4. F \in [1 .. N -> [U -> U]]
    <2> HIDE DEF Step, U, N
    <2> QED BY <1>3
  <1>5. PICK g : Runs(g, N, U, r, F)
    <2> HIDE DEF F, U, N
    <2>1. IsLoop(N, U, r, F)
      BY <1>1, <1>4 DEF IsLoop
    <2> QED BY <2>1, LoopRuns
  <1>6. g \in [0 .. N -> U] /\ g[0] = r /\ \A n \in 1 .. N : g[n] = F[n][g[n - 1]]
    BY <1>5 DEF Runs
  <1>7. \A n \in 1 .. N : g[n] = Step(n, g[n - 1])
    <2> HIDE DEF Step, U, N
    <2>1. \A n \in 1 .. N : n - 1 \in 0 .. N /\ g[n - 1] \in U
      BY <1>2, <1>6
    <2> QED BY <1>6, <2>1
  <1>8. Rec(g)
    <2> HIDE DEF Step, U
    <2>1. ASSUME NEW n \in 0 .. N PROVE g[n] = IF n = 0 THEN r ELSE Step(n, g[n - 1])
      <3>1. n = 0 \/ n \in 1 .. N
        BY <1>1
      <3> HIDE DEF N
      <3> QED BY <1>6, <1>7, <3>1
    <2> HIDE DEF N
    <2> QED BY <1>6, <2>1
  <1>9. q = (CHOOSE h : Rec(h))[N]
    BY <1>0, <1>vs DEF exit_all
  <1>10. PICK h : h = (CHOOSE x : Rec(x)) /\ Rec(h)
    <2> HIDE DEF Rec
    <2> QED BY <1>8
  <1>11. h[0] = r /\ \A n \in 1 .. N : h[n] = Step(n, h[n - 1])
    <2>1. 0 \in 0 .. N
      BY <1>1
    <2> HIDE DEF Step, N
    <2> QED BY <1>2, <1>10, <2>1
  <1> HIDE DEF Rec
  <1> DEFINE T == {n \in 0 .. N : Mem(h[n], D, K, H) /\ ExitedTo(r, h[n], d, vs, n) /\ Empty(h[n], d)}
  <1>12. 0 \in T
    <2>1. 0 \in 0 .. N /\ \A i \in 1 .. 0 : FALSE
      BY <1>1
    <2>2. ExitedTo(r, r, d, vs, 0)
      BY <2>1, SpaceReflexive DEF ExitedTo, Outside, SamePtes
    <2> QED BY <1>0, <1>vs, <1>11, <2>1, <2>2
  <1>13. ASSUME NEW n \in 1 .. N, n - 1 \in T PROVE n \in T
    <2>1. Mem(h[n - 1], D, K, H) /\ ExitedTo(r, h[n - 1], d, vs, n - 1) /\ Empty(h[n - 1], d)
      BY <1>13
    <2>2. h[n] = exit_range(h[n - 1], d, vs[n].s, vs[n].e)
      BY <1>11
    <2>3. Mem(h[n], D, K, H) /\ ExitedTo(r, h[n], d, vs, n) /\ Empty(h[n], d)
      BY <1>2, <2>1, <2>2, ExitAllRound
    <2> QED BY <1>2, <2>3
  <1>14. N \in T
    <2> HIDE DEF T, N
    <2>1. 0 .. N \subseteq T
      BY <1>1, <1>12, <1>13, UpTo
    <2> QED BY <1>1, <2>1
  <1> HIDE DEF N
  <1>15. Mem(q, D, K, H) /\ ExitedTo(r, q, d, vs, N) /\ Empty(q, d)
    BY <1>9, <1>10, <1>14
  <1> QED BY <1>0, <1>vs, <1>15 DEF N

\* Destroy: exit_mmap, put_pgdir.  It gives back the directory, its tables and
\* all that was mapped, and if anything was, the TLB has been cleared.
Destroys(r, q, a, D, K, H) ==
    /\ Mem(r, D, K, H) /\ a.pgdir \in D /\ InBounds(a.vmas) /\ Covered(r, a.pgdir, a.vmas)
    /\ q = Destroy(r, a)
Destroyed(r, q, d) ==
    /\ Outside(r, q, d) /\ q.err = r.err /\ (q.tlb = r.tlb \/ q.tlb = {})
    /\ \A v \in VPages : Maps(r, d, v) => q.tlb = {}

LEMMA DestroyFacts ==
    ASSUME NEW r, NEW q, NEW a, NEW D, NEW K, NEW H, Destroys(r, q, a, D, K, H)
    PROVE  Mem(q, D \ {a.pgdir}, K, H) /\ Destroyed(r, q, a.pgdir)
  <1>1. PICK d, vs : d = a.pgdir /\ vs = a.vmas
    OBVIOUS
  <1>2. Mem(r, D, K, H) /\ d \in D /\ InBounds(vs) /\ Covered(r, d, vs)
    BY <1>1 DEF Destroys
  <1>3. PICK kd, at, ix : Owned(r, kd, at, ix, D, K, H)
    BY <1>2 DEF Mem
  <1>4. d \in Pages /\ d \in Frames /\ d \notin K /\ d \notin H
    BY <1>2, <1>3, FrameKinds DEF Owned
  <1>5. PICK x, y : x = unmap_all(r, a) /\ y = exit_all(x, a)
    OBVIOUS
  <1>6. q = free_pages(y, {d})
    BY <1>1, <1>5 DEF Destroys, Destroy, exit_mmap
  <1>7. Mem(x, D, K, H) /\ UnmappedTo(r, x, d, vs, Len(vs))
    BY <1>1, <1>2, <1>4, <1>5, UnmapAll
  <1>8. Empty(x, d)
    <2>1. SUFFICES ASSUME NEW v \in VPages, Pte(x, d, v) # NoPte PROVE FALSE
      BY DEF Empty
    <2>2. Pte(x, d, v) = Pte(r, d, v) /\ \A i \in 1 .. Len(vs) : ~InVma(vs[i], v)
      BY <1>7, <2>1 DEF UnmappedTo
    <2> QED BY <1>2, <2>1, <2>2 DEF Covered, Maps
  <1>9. Mem(y, D, K, H) /\ ExitedTo(x, y, d, vs, Len(vs)) /\ Empty(y, d)
    BY <1>1, <1>2, <1>5, <1>7, <1>8, ExitAll
  <1>10. \A k \in Tables : y.dir[d][k] = 0
    <2>1. SUFFICES ASSUME NEW k \in Tables, y.dir[d][k] # 0 PROVE FALSE
      OBVIOUS
    <2>2. y.dir[d][k] = r.dir[d][k] /\ \A i \in 1 .. Len(vs) : ~Spanned(vs[i].s, vs[i].e, k)
      BY <1>7, <1>9, <2>1 DEF ExitedTo, UnmappedTo
    <2> QED BY <1>2, <2>1, <2>2 DEF Covered
  <1>11. /\ Mem(q, D \ {d}, K \ {d}, H \ {d}) /\ \A c \in Frames : SameSpace(y, q, c)
         /\ q.tlb = y.tlb /\ q.err = y.err
    <2>1. PICK ps : ps = {d}
      OBVIOUS
    <2>2. GivesBack(y, q, D, K, H, ps)
      BY <1>2, <1>6, <1>9, <1>10, <2>1 DEF GivesBack
    <2>3. /\ Mem(q, D \ ps, K \ ps, H \ ps) /\ \A c \in Frames : SameSpace(y, q, c)
          /\ q.tlb = y.tlb /\ q.err = y.err
      BY <2>2, FreePlain
    <2> QED BY <2>1, <2>3
  <1>12. K \ {d} = K /\ H \ {d} = H
    BY <1>4
  <1>13. Outside(r, q, d)
    BY <1>7, <1>9, <1>11, SpaceTransitive DEF UnmappedTo, ExitedTo, Outside
  <1>14. q.err = r.err /\ (q.tlb = r.tlb \/ q.tlb = {})
    BY <1>7, <1>9, <1>11 DEF UnmappedTo, ExitedTo
  <1>15. ASSUME NEW v \in VPages, Maps(r, d, v) PROVE q.tlb = {}
    <2>1. Pte(x, d, v) = NoPte /\ Pte(r, d, v) # NoPte
      BY <1>8, <1>15 DEF Empty, Maps
    <2>2. x.tlb = {}
      BY <1>7, <2>1 DEF UnmappedTo
    <2> QED BY <1>9, <1>11, <2>2 DEF ExitedTo
  <1>16. Mem(q, D \ {d}, K, H)
    BY <1>11, <1>12
  <1> QED BY <1>1, <1>13, <1>14, <1>15, <1>16 DEF Destroyed

-----------------------------------------------------------------------------
(* The list of areas and the cached one                                    *)

Spaces == [vmas : Seq(Areas), cache : Areas, pgdir : Frames]
Listed(vs, x) == \E i \in 1 .. Len(vs) : x = vs[i]
SoundMM(a) == a \in Spaces /\ Sorted(a.vmas) /\ (a.cache = NoVma \/ Listed(a.vmas, a.cache))

\* The first area that ends behind v.
First(vs, v, i) == i \in 1 .. Len(vs) /\ v < vs[i].e /\ \A j \in 1 .. Len(vs) : j < i => vs[j].e <= v

LEMMA SpaceFields ==
    ASSUME NEW a \in Spaces
    PROVE  a.vmas \in Seq(Areas) /\ a.cache \in Areas /\ a.pgdir \in Frames /\ Len(a.vmas) \in Nat
  BY DEF Spaces

LEMMA FindVma ==
    ASSUME NEW a, SoundMM(a), NEW v \in Nat, NEW x, x = find_vma(a, v)
    PROVE  \/ x = NoVma /\ \A i \in 1 .. Len(a.vmas) : a.vmas[i].e <= v
           \/ x # NoVma /\ \E i : x = a.vmas[i] /\ First(a.vmas, v, i)
  <1>1. PICK vs, c, n : vs = a.vmas /\ c = a.cache /\ n = Len(vs)
    OBVIOUS
  <1>2. /\ Sorted(vs) /\ (c = NoVma \/ Listed(vs, c)) /\ n \in Nat
        /\ \A i \in 1 .. n : vs[i].s \in Nat /\ vs[i].e \in Nat /\ vs[i].s < vs[i].e
    <2>1. Sorted(vs) /\ (c = NoVma \/ Listed(vs, c)) /\ n \in Nat
      BY <1>1, SpaceFields DEF SoundMM
    <2>2. \A i \in 1 .. n : vs[i].s \in Nat /\ vs[i].e \in Nat /\ vs[i].s < vs[i].e
      BY <1>1, <2>1, AreaFacts DEF Sorted
    <2> QED BY <2>1, <2>2
  <1>3. \A i \in 1 .. n : vs[i] # NoVma
    BY <1>2 DEF NoVma
  <1>4. \A i, j \in 1 .. n : j < i => vs[j].e <= vs[i].s
    BY <1>1, <1>2 DEF Sorted
  <1>5. PICK behind : behind = {i \in 1 .. n : v < vs[i].e}
    OBVIOUS
  <1>6. x = IF InVma(c, v) THEN c ELSE IF behind = {} THEN NoVma ELSE vs[Min(behind)]
    BY <1>1, <1>5 DEF find_vma
  <1>7. CASE InVma(c, v)
    <2>1. c # NoVma
      BY <1>7 DEF InVma, NoVma
    <2>2. PICK i \in 1 .. n : c = vs[i]
      BY <1>1, <1>2, <2>1 DEF Listed
    <2>3. vs[i].s <= v /\ v < vs[i].e
      BY <1>7, <2>2 DEF InVma
    <2>4. \A j \in 1 .. n : j < i => vs[j].e <= v
      BY <1>2, <1>4, <2>3
    <2>5. First(vs, v, i)
      BY <1>1, <2>3, <2>4 DEF First
    <2> QED BY <1>1, <1>6, <1>7, <2>1, <2>2, <2>5
  <1>8. CASE ~InVma(c, v) /\ behind = {}
    <2>1. x = NoVma
      BY <1>6, <1>8
    <2>2. \A i \in 1 .. n : vs[i].e <= v
      BY <1>2, <1>5, <1>8
    <2> QED BY <1>1, <2>1, <2>2
  <1>9. CASE ~InVma(c, v) /\ behind # {}
    <2>1. behind \in SUBSET Nat
      BY <1>2, <1>5
    <2>2. PICK i : i = Min(behind)
      OBVIOUS
    <2>3. i \in behind /\ \A j \in behind : i <= j
      BY <1>9, <2>1, <2>2, LeastNumber DEF Min
    <2>4. i \in 1 .. n /\ v < vs[i].e
      BY <1>5, <2>3
    <2>5. \A j \in 1 .. n : j < i => vs[j].e <= v
      BY <1>2, <1>5, <2>3, <2>4
    <2>6. First(vs, v, i)
      BY <1>1, <2>4, <2>5 DEF First
    <2>7. x = vs[i] /\ x # NoVma
      BY <1>3, <1>6, <1>9, <2>2, <2>4
    <2> QED BY <1>1, <2>6, <2>7
  <1> QED BY <1>7, <1>8, <1>9

\* What find_vma finds is the area of a page that is in one.
LEMMA FindIn ==
    ASSUME NEW a, SoundMM(a), NEW v \in Nat, NEW i \in 1 .. Len(a.vmas), InVma(a.vmas[i], v)
    PROVE  find_vma(a, v) = a.vmas[i] /\ find_vma(a, v) # NoVma
  <1>1. PICK vs, n, x : vs = a.vmas /\ n = Len(vs) /\ x = find_vma(a, v)
    OBVIOUS
  <1>2. Sorted(vs) /\ n \in Nat /\ \A j \in 1 .. n : vs[j].s \in Nat /\ vs[j].e \in Nat
    <2>1. Sorted(vs) /\ n \in Nat
      BY <1>1, SpaceFields DEF SoundMM
    <2> QED BY <1>1, <2>1, AreaFacts DEF Sorted
  <1>3. vs[i].s <= v /\ v < vs[i].e /\ i \in 1 .. n
    BY <1>1 DEF InVma
  <1>4. \/ x = NoVma /\ \A j \in 1 .. n : vs[j].e <= v
        \/ x # NoVma /\ \E j : x = vs[j] /\ First(vs, v, j)
    BY <1>1, FindVma
  <1>5. x # NoVma
    BY <1>2, <1>3, <1>4
  <1>6. PICK j : x = vs[j] /\ First(vs, v, j)
    BY <1>4, <1>5
  <1>7. j \in 1 .. n /\ v < vs[j].e /\ \A k \in 1 .. n : k < j => vs[k].e <= v
    BY <1>1, <1>6 DEF First
  <1>8. ~(i < j)
    BY <1>2, <1>3, <1>7
  <1>9. ~(j < i)
    <2>1. j < i => vs[j].e <= vs[i].s
      BY <1>1, <1>2, <1>3, <1>7 DEF Sorted
    <2> QED BY <1>2, <1>3, <1>7, <2>1
  <1>10. i = j
    BY <1>2, <1>3, <1>7, <1>8, <1>9
  <1> QED BY <1>1, <1>5, <1>6, <1>10

\* A page is in one area at most.
LEMMA OneArea ==
    ASSUME NEW vs, Sorted(vs), NEW v \in Nat, NEW i \in 1 .. Len(vs), NEW j \in 1 .. Len(vs),
           InVma(vs[i], v), InVma(vs[j], v)
    PROVE  i = j
  <1>1. /\ vs[i].s \in Nat /\ vs[i].e \in Nat /\ vs[j].s \in Nat /\ vs[j].e \in Nat
        /\ i \in Int /\ j \in Int
    <2>1. InBounds(vs)
      BY DEF Sorted
    <2>2. vs[i].s \in Nat /\ vs[i].e \in Nat
      BY <2>1, AreaFacts
    <2>3. vs[j].s \in Nat /\ vs[j].e \in Nat
      BY <2>1, AreaFacts
    <2> QED BY <2>2, <2>3
  <1>2. (i < j => vs[i].e <= vs[j].s) /\ (j < i => vs[j].e <= vs[i].s)
    BY DEF Sorted
  <1>3. vs[i].s <= v /\ v < vs[i].e /\ vs[j].s <= v /\ v < vs[j].e
    BY DEF InVma
  <1> QED BY <1>1, <1>2, <1>3

\* q has the areas of vs and y, in order.
Adds(vs, q, y) ==
    /\ Sorted(q) /\ Len(q) = Len(vs) + 1 /\ Listed(q, y)
    /\ \A i \in 1 .. Len(vs) : Listed(q, vs[i])
    /\ \A i \in 1 .. Len(q) : q[i] = y \/ Listed(vs, q[i])
Apart(vs, y) == \A i \in 1 .. Len(vs) : vs[i].e <= y.s \/ y.e <= vs[i].s

LEMMA InsertArea ==
    ASSUME NEW vs, Sorted(vs), NEW y \in Areas, y.s < y.e, y.e <= Top, Apart(vs, y),
           NEW q, q = insert_vma_struct(vs, y)
    PROVE  Adds(vs, q, y)
  <1>1. PICK n, s, e : n = Len(vs) /\ s = y.s /\ e = y.e
    OBVIOUS
  <1>2. /\ n \in Nat /\ s \in Nat /\ e \in Nat /\ s < e /\ e <= Top
        /\ \A i \in 1 .. n : /\ vs[i] \in Areas /\ vs[i].s \in Nat /\ vs[i].e \in Nat
                             /\ vs[i].s < vs[i].e /\ vs[i].e <= Top
    <2>1. vs \in Seq(Areas) /\ InBounds(vs)
      BY DEF Sorted, InBounds
    <2>2. n \in Nat /\ s \in Nat /\ e \in Nat /\ s < e /\ e <= Top
      BY <1>1, <2>1 DEF Areas
    <2> QED BY <1>1, <2>1, <2>2, AreaFacts
  <1>3. PICK behind : behind = {i \in 1 .. n : vs[i].s > s}
    OBVIOUS
  <1>4. PICK at : at = IF behind = {} THEN n + 1 ELSE Min(behind)
    OBVIOUS
  <1>5. /\ at \in 1 .. n + 1 /\ (at \in 1 .. n => vs[at].s > s)
        /\ \A i \in 1 .. n : i < at => vs[i].s <= s
    <2>1. CASE behind = {}
      BY <1>2, <1>3, <1>4, <2>1
    <2>2. CASE behind # {}
      <3>1. behind \in SUBSET Nat
        BY <1>2, <1>3
      <3>2. at \in behind /\ \A j \in behind : at <= j
        BY <1>4, <2>2, <3>1, LeastNumber DEF Min
      <3>3. at \in 1 .. n /\ vs[at].s > s
        BY <1>3, <3>2
      <3>4. \A i \in 1 .. n : i < at => vs[i].s <= s
        BY <1>2, <1>3, <3>2, <3>3
      <3> QED BY <1>2, <3>3, <3>4
    <2> QED BY <2>1, <2>2
  <1>6. \A i \in 1 .. n : i < at => vs[i].e <= s
    BY <1>1, <1>2, <1>5 DEF Apart
  <1>7. \A i, j \in 1 .. n : i < j => vs[i].e <= vs[j].s
    BY <1>1 DEF Sorted
  <1>8. \A i \in 1 .. n : i >= at => e <= vs[i].s
    <2>1. SUFFICES ASSUME NEW i \in 1 .. n, i >= at PROVE e <= vs[i].s
      OBVIOUS
    <2>2. at \in 1 .. n /\ vs[at].s > s
      BY <1>2, <1>5, <2>1
    <2>3. vs[i].s > s
      <3>1. CASE i = at
        BY <2>2, <3>1
      <3>2. CASE i > at
        <4>1. vs[at].e <= vs[i].s
          BY <1>7, <2>2, <3>2
        <4> QED BY <1>2, <2>2, <4>1
      <3> QED BY <1>2, <2>1, <2>2, <3>1, <3>2
    <2>4. vs[i].e <= s \/ e <= vs[i].s
      BY <1>1 DEF Apart
    <2> QED BY <1>2, <2>3, <2>4
  <1>9. q = [i \in 1 .. n + 1 |-> IF i < at THEN vs[i] ELSE IF i = at THEN y ELSE vs[i - 1]]
    BY <1>1, <1>3, <1>4 DEF insert_vma_struct
  <1>10. /\ \A i \in 1 .. n + 1 : q[i] = IF i < at THEN vs[i] ELSE IF i = at THEN y ELSE vs[i - 1]
         /\ q \in Seq(Areas) /\ Len(q) = n + 1
    <2>1. \A i \in 1 .. n + 1 : (IF i < at THEN vs[i] ELSE IF i = at THEN y ELSE vs[i - 1]) \in Areas
      BY <1>2, <1>5
    <2>2. q \in [1 .. n + 1 -> Areas]
      BY <1>9, <2>1
    <2>3. n + 1 \in Nat
      BY <1>2
    <2>4. q \in Seq(Areas) /\ Len(q) = n + 1
      BY <2>2, <2>3
    <2> QED BY <1>9, <2>4
  <1>11. \A i \in 1 .. n + 1 : \/ i < at /\ i \in 1 .. n /\ q[i] = vs[i]
                               \/ i = at /\ q[i] = y
                               \/ i > at /\ i - 1 \in 1 .. n /\ i - 1 >= at /\ q[i] = vs[i - 1]
    BY <1>2, <1>5, <1>10
  <1>12. \A i \in 1 .. n + 1 : q[i].s < q[i].e /\ q[i].e <= Top
    BY <1>1, <1>2, <1>11
  <1>13. ASSUME NEW i \in 1 .. n + 1, NEW j \in 1 .. n + 1, i < j PROVE q[i].e <= q[j].s
    <2>1. CASE j < at
      BY <1>7, <1>11, <1>13, <2>1, <1>2, <1>5
    <2>2. CASE j = at
      BY <1>1, <1>2, <1>5, <1>6, <1>11, <1>13, <2>2
    <2>3. CASE j > at
      <3>1. j - 1 \in 1 .. n /\ j - 1 >= at /\ q[j] = vs[j - 1]
        BY <1>2, <1>5, <1>11, <2>3
      <3>2. CASE i < at
        <4>1. i \in 1 .. n /\ q[i] = vs[i] /\ i < j - 1
          BY <1>2, <1>5, <1>11, <3>1, <3>2
        <4> QED BY <1>7, <3>1, <4>1
      <3>3. CASE i = at
        <4>1. q[i] = y
          BY <1>11, <3>3
        <4> QED BY <1>1, <1>8, <3>1, <4>1
      <3>4. CASE i > at
        <4>1. i - 1 \in 1 .. n /\ q[i] = vs[i - 1] /\ i - 1 < j - 1
          BY <1>2, <1>5, <1>11, <1>13, <3>4
        <4> QED BY <1>7, <3>1, <4>1
      <3> QED BY <1>2, <1>5, <3>2, <3>3, <3>4
    <2> QED BY <1>2, <1>5, <2>1, <2>2, <2>3
  <1>14. Sorted(q)
    BY <1>10, <1>12, <1>13 DEF Sorted, InBounds
  <1>15. at \in 1 .. n + 1 /\ q[at] = y
    BY <1>5, <1>11
  <1>16. ASSUME NEW i \in 1 .. n PROVE \E j \in 1 .. n + 1 : vs[i] = q[j]
    <2>1. CASE i < at
      <3>1. i \in 1 .. n + 1 /\ q[i] = vs[i]
        BY <1>2, <1>10, <2>1
      <3> QED BY <3>1
    <2>2. CASE i >= at
      <3>1. i + 1 \in 1 .. n + 1 /\ q[i + 1] = vs[i]
        <4>1. i + 1 \in 1 .. n + 1 /\ ~(i + 1 < at) /\ i + 1 # at /\ i + 1 - 1 = i
          BY <1>2, <1>5, <2>2
        <4> QED BY <1>10, <4>1
      <3> QED BY <3>1
    <2> QED BY <1>2, <1>5, <2>1, <2>2
  <1>17. \A i \in 1 .. n + 1 : q[i] = y \/ \E j \in 1 .. n : q[i] = vs[j]
    BY <1>11
  <1> QED BY <1>1, <1>10, <1>14, <1>15, <1>16, <1>17 DEF Adds, Listed

\* mm_map, when it does not fail.
Mapped(a, q, y) ==
    /\ SoundMM(q) /\ q.pgdir = a.pgdir /\ Adds(a.vmas, q.vmas, y)
    /\ y \in Areas /\ y.s < y.e /\ y.e <= Top

LEMMA MmMap ==
    ASSUME NEW a, SoundMM(a), NEW s \in Nat, NEW e \in Nat, NEW flags \in SUBSET Flags, NEW mem,
           NEW q, q = mm_map(a, s, e, flags, mem), q # NoMM
    PROVE  Mapped(a, q, vma_create(s, e, flags))
  <1>1. PICK vs, x, c, y : /\ vs = a.vmas /\ x = find_vma(a, s) /\ c = Cached(a, x)
                           /\ y = vma_create(s, e, flags)
    OBVIOUS
  <1>2. ~(~USER_ACCESS(s, e) \/ (x # NoVma /\ e > x.s) \/ ~mem)
    BY <1>1 DEF mm_map
  <1>3. s < e /\ e <= Top /\ (x # NoVma => ~(e > x.s))
    BY <1>2 DEF USER_ACCESS
  <1>4. q = [c EXCEPT !.vmas = insert_vma_struct(c.vmas, y)]
    BY <1>1, <1>2 DEF mm_map
  <1>5. y \in Areas /\ y.s = s /\ y.e = e
    BY <1>1 DEF vma_create, Areas
  <1>6. /\ a \in Spaces /\ Sorted(vs) /\ vs \in Seq(Areas) /\ Len(vs) \in Nat
        /\ (a.cache = NoVma \/ Listed(vs, a.cache))
        /\ \A i \in 1 .. Len(vs) : vs[i].s \in Nat /\ vs[i].e \in Nat /\ vs[i] \in Areas
    <2>1. a \in Spaces /\ Sorted(vs) /\ vs \in Seq(Areas) /\ Len(vs) \in Nat
          /\ (a.cache = NoVma \/ Listed(vs, a.cache))
      BY <1>1, SpaceFields DEF SoundMM
    <2> QED BY <2>1, AreaFacts DEF Sorted
  <1>7. \/ x = NoVma /\ \A i \in 1 .. Len(vs) : vs[i].e <= s
        \/ x # NoVma /\ \E i : x = vs[i] /\ First(vs, s, i)
    BY <1>1, FindVma
  <1>8. Apart(vs, y)
    <2>1. CASE x = NoVma
      BY <1>5, <1>7, <2>1 DEF Apart
    <2>2. CASE x # NoVma
      <3>1. PICK i : x = vs[i] /\ First(vs, s, i)
        BY <1>7, <2>2
      <3>2. i \in 1 .. Len(vs) /\ \A j \in 1 .. Len(vs) : j < i => vs[j].e <= s
        BY <3>1 DEF First
      <3>3. e <= vs[i].s
        BY <1>3, <1>6, <2>2, <3>1, <3>2
      <3>4. ASSUME NEW j \in 1 .. Len(vs) PROVE vs[j].e <= s \/ e <= vs[j].s
        <4>1. CASE j < i
          BY <3>2, <4>1
        <4>2. CASE j = i
          BY <3>3, <4>2
        <4>3. CASE i < j
          <5>1. vs[i].e <= vs[j].s
            BY <1>6, <3>2, <4>3 DEF Sorted
          <5>2. vs[i].s < vs[i].e
            BY <1>6, <3>2 DEF Sorted, InBounds
          <5> QED BY <1>6, <3>2, <3>3, <5>1, <5>2
        <4> QED BY <1>6, <3>2, <4>1, <4>2, <4>3
      <3> QED BY <1>5, <3>4 DEF Apart
    <2> QED BY <2>1, <2>2
  <1>9. PICK z : z = insert_vma_struct(vs, y)
    OBVIOUS
  <1>10. Adds(vs, z, y)
    BY <1>3, <1>5, <1>6, <1>8, <1>9, InsertArea
  <1>11. c \in Spaces /\ c.vmas = vs /\ c.pgdir = a.pgdir /\ (c.cache = NoVma \/ Listed(vs, c.cache))
    <2>1. CASE x = NoVma
      BY <1>1, <1>6, <2>1 DEF Cached
    <2>2. CASE x # NoVma
      <3>1. x \in Areas /\ Listed(vs, x)
        BY <1>6, <1>7, <2>2 DEF First, Listed
      <3>2. c = [a EXCEPT !.cache = x]
        BY <1>1, <2>2 DEF Cached
      <3> QED BY <1>1, <1>6, <3>1, <3>2 DEF Spaces
    <2> QED BY <2>1, <2>2
  <1>12. z \in Seq(Areas)
    BY <1>10 DEF Adds, Sorted, InBounds
  <1>13. q \in Spaces /\ q.vmas = z /\ q.pgdir = a.pgdir /\ q.cache = c.cache
    BY <1>4, <1>9, <1>11, <1>12 DEF Spaces
  <1>14. q.cache = NoVma \/ Listed(z, q.cache)
    <2>1. CASE c.cache = NoVma
      BY <1>13, <2>1
    <2>2. CASE Listed(vs, c.cache)
      <3>1. PICK i \in 1 .. Len(vs) : c.cache = vs[i]
        BY <2>2 DEF Listed
      <3> QED BY <1>10, <1>13, <3>1 DEF Adds
    <2> QED BY <1>11, <2>1, <2>2
  <1>15. Sorted(z)
    BY <1>10 DEF Adds
  <1>16. SoundMM(q)
    BY <1>13, <1>14, <1>15 DEF SoundMM
  <1> QED BY <1>1, <1>3, <1>5, <1>10, <1>13, <1>16 DEF Mapped

-----------------------------------------------------------------------------
(* What is mapped stays in areas that allow it                             *)

LEMMA CoveredSame ==
    ASSUME NEW r, NEW q, NEW d, NEW vs, Covered(r, d, vs), SameSpace(r, q, d)
    PROVE  Covered(q, d, vs)
  BY DEF Covered, SameSpace, Maps

LEMMA CoveredMore ==
    ASSUME NEW r, NEW d, NEW vs, NEW ws, NEW y, Covered(r, d, vs), Adds(vs, ws, y)
    PROVE  Covered(r, d, ws)
  <1>1. ASSUME NEW i \in 1 .. Len(vs) PROVE \E j \in 1 .. Len(ws) : vs[i] = ws[j]
    BY DEF Adds, Listed
  <1>2. ASSUME NEW v \in VPages, Maps(r, d, v)
        PROVE  \E j \in 1 .. Len(ws) : InVma(ws[j], v) /\ (Pte(r, d, v).w <=> "W" \in ws[j].flags)
    <2>1. PICK i \in 1 .. Len(vs) : InVma(vs[i], v) /\ (Pte(r, d, v).w <=> "W" \in vs[i].flags)
      BY <1>2 DEF Covered
    <2>2. PICK j \in 1 .. Len(ws) : vs[i] = ws[j]
      BY <1>1
    <2> QED BY <2>1, <2>2
  <1>3. ASSUME NEW k \in Tables, r.dir[d][k] # 0
        PROVE  \E j \in 1 .. Len(ws) : Spanned(ws[j].s, ws[j].e, k)
    <2>1. PICK i \in 1 .. Len(vs) : Spanned(vs[i].s, vs[i].e, k)
      BY <1>3 DEF Covered
    <2>2. PICK j \in 1 .. Len(ws) : vs[i] = ws[j]
      BY <1>1
    <2> QED BY <2>1, <2>2
  <1> QED BY <1>2, <1>3 DEF Covered

\* The table of a page in an area is in reach of the area.
LEMMA InReach ==
    ASSUME NEW vs, InBounds(vs), NEW i \in 1 .. Len(vs), NEW v \in VPages, InVma(vs[i], v)
    PROVE  Spanned(vs[i].s, vs[i].e, Tb(v))
  <1>1. PICK s \in Nat, e \in Nat : s = vs[i].s /\ e = vs[i].e
    BY AreaFacts
  <1>2. v \in Nat /\ s <= v /\ v < e
    BY <1>1, Parts DEF InVma
  <1>3. PICK k \in Tables, x \in Slots : k = Tb(v) /\ x = Ix(v) /\ v = PTN * k + x
    BY Parts
  <1>4. k \in Int /\ x \in Int /\ x >= 0 /\ x < PTN /\ PTN * k \in Int /\ k * PTN = PTN * k
    BY Sizes DEF Tables, Slots
  <1>5. k * PTN < e
    BY <1>2, <1>3, <1>4
  <1>6. s < PTN * k + PTN
    BY SMTT(30), ZenonT(90), <1>2, <1>3, <1>4, Sizes
  <1>7. s \div PTN <= k
    BY <1>4, <1>6, DivAtMost, Sizes
  <1> QED BY <1>1, <1>3, <1>5, <1>7 DEF Spanned

\* A page of an area is mapped, and perhaps a table for it added.
LEMMA CoveredAdd ==
    ASSUME NEW r, NEW q, NEW d, NEW vs, NEW v \in VPages, NEW e, NEW i \in 1 .. Len(vs),
           Covered(r, d, vs), InBounds(vs), AddsPte(r, q, d, v, e), InVma(vs[i], v),
           e.w <=> "W" \in vs[i].flags
    PROVE  Covered(q, d, vs)
  <1>1. Pte(q, d, v) = e /\ \A u \in VPages \ {v} : Pte(q, d, u) = Pte(r, d, u)
    BY DEF AddsPte
  <1>2. ASSUME NEW u \in VPages, Maps(q, d, u)
        PROVE  \E j \in 1 .. Len(vs) : InVma(vs[j], u) /\ (Pte(q, d, u).w <=> "W" \in vs[j].flags)
    <2>1. CASE u = v
      BY <1>1, <2>1
    <2>2. CASE u # v
      BY <1>1, <1>2, <2>2 DEF Covered, Maps
    <2> QED BY <2>1, <2>2
  <1>3. ASSUME NEW k \in Tables, q.dir[d][k] # 0
        PROVE  \E j \in 1 .. Len(vs) : Spanned(vs[j].s, vs[j].e, k)
    <2>1. CASE k = Tb(v)
      BY <2>1, InReach
    <2>2. CASE k # Tb(v)
      BY <1>3, <2>2 DEF Covered, AddsPte
    <2> QED BY <2>1, <2>2
  <1> QED BY <1>2, <1>3 DEF Covered

\* get_pte adds the table of a page of an area.
LEMMA CoveredTable ==
    ASSUME NEW r, NEW q, NEW d, NEW vs, NEW v \in VPages, NEW i \in 1 .. Len(vs),
           Covered(r, d, vs), InBounds(vs), InVma(vs[i], v), SamePtes(r, q, d),
           \A k \in Tables \ {Tb(v)} : q.dir[d][k] = r.dir[d][k]
    PROVE  Covered(q, d, vs)
  <1>1. ASSUME NEW k \in Tables, q.dir[d][k] # 0
        PROVE  \E j \in 1 .. Len(vs) : Spanned(vs[j].s, vs[j].e, k)
    <2>1. CASE k = Tb(v)
      BY <2>1, InReach
    <2>2. CASE k # Tb(v)
      BY <1>1, <2>2 DEF Covered
    <2> QED BY <2>1, <2>2
  <1>2. \A u \in VPages : Maps(q, d, u) =>
           \E j \in 1 .. Len(vs) : InVma(vs[j], u) /\ (Pte(q, d, u).w <=> "W" \in vs[j].flags)
    BY DEF Covered, SamePtes, Maps
  <1> QED BY <1>1, <1>2 DEF Covered

-----------------------------------------------------------------------------
(* Copying the mm of a process                                             *)

LEMMA InsertType ==
    ASSUME NEW vs \in Seq(Areas), NEW y \in Areas
    PROVE  insert_vma_struct(vs, y) \in Seq(Areas)
  <1>1. PICK n \in Nat : n = Len(vs)
    OBVIOUS
  <1>2. PICK behind : behind = {i \in 1 .. n : vs[i].s > y.s}
    OBVIOUS
  <1>3. PICK at : at = IF behind = {} THEN n + 1 ELSE Min(behind)
    OBVIOUS
  <1>4. at \in 1 .. n + 1
    <2>1. CASE behind # {}
      <3>1. behind \in SUBSET Nat
        BY <1>2
      <3>2. at \in behind
        BY <1>3, <2>1, <3>1, LeastNumber DEF Min
      <3> QED BY <1>1, <1>2, <3>2
    <2> QED BY <1>1, <1>3, <2>1
  <1>5. insert_vma_struct(vs, y) =
          [i \in 1 .. n + 1 |-> IF i < at THEN vs[i] ELSE IF i = at THEN y ELSE vs[i - 1]]
    BY <1>1, <1>2, <1>3 DEF insert_vma_struct
  <1>6. \A i \in 1 .. n + 1 : (IF i < at THEN vs[i] ELSE IF i = at THEN y ELSE vs[i - 1]) \in Areas
    BY <1>1, <1>4
  <1>7. insert_vma_struct(vs, y) \in [1 .. n + 1 -> Areas] /\ n + 1 \in Nat
    BY <1>1, <1>5, <1>6
  <1> QED BY <1>7

\* A round of dup_mmap, and where it is after n of them: the areas of the new mm
\* are among the last n of a, and what is mapped in it is theirs.
DupRound(x, to, a, k, n) ==
    LET vma == a.vmas[Len(a.vmas) - n + 1]
    IN  IF x.r.err # "ok" THEN x
        ELSE IF Len(x.vmas) = k THEN [x EXCEPT !.r = nomem(@)]
        ELSE [r |-> copy_range(x.r, to, a.pgdir, vma.s, vma.e),
              vmas |-> insert_vma_struct(x.vmas, vma)]
DupTo(r, x, to, a, n) ==
    /\ Outside(r, x.r, to) /\ (x.r.tlb = r.tlb \/ x.r.tlb = {})
    /\ x.r.err \in {"ok", "nomem", "panic"} /\ (x.r.err = "panic" => x.r.free = {})
    /\ Sorted(x.vmas) /\ Covered(x.r, to, x.vmas)
    /\ \A j \in 1 .. Len(x.vmas) :
          \E i \in 1 .. Len(a.vmas) : i > Len(a.vmas) - n /\ x.vmas[j] = a.vmas[i]
Dups(r, D, K, H, to, a) ==
    /\ Mem(r, D, K, H) /\ r.err = "ok" /\ to \in D /\ SoundMM(a) /\ to # a.pgdir
    /\ Covered(r, a.pgdir, a.vmas)

LEMMA DupRounds ==
    ASSUME NEW r, NEW D, NEW K, NEW H, NEW to, NEW a, Dups(r, D, K, H, to, a), NEW k,
           NEW n \in 1 .. Len(a.vmas), NEW x \in [r : Mems, vmas : Seq(Areas)],
           Mem(x.r, D, K, H), DupTo(r, x, to, a, n - 1), NEW y, y = DupRound(x, to, a, k, n)
    PROVE  Mem(y.r, D, K, H) /\ DupTo(r, y, to, a, n)
  <1>0. PICK b, bs : b = x.r /\ bs = x.vmas /\ x = [r |-> b, vmas |-> bs]
    OBVIOUS
  <1>1. PICK vs, N, from : vs = a.vmas /\ N = Len(vs) /\ from = a.pgdir
    OBVIOUS
  <1>2. /\ Mem(r, D, K, H) /\ r.err = "ok" /\ to \in D /\ to # from /\ from \in Frames
        /\ Covered(r, from, vs) /\ Sorted(vs) /\ InBounds(vs) /\ N \in Nat /\ vs \in Seq(Areas)
    <2>1. Mem(r, D, K, H) /\ r.err = "ok" /\ to \in D /\ SoundMM(a) /\ to # from
          /\ Covered(r, from, vs)
      BY <1>1 DEF Dups
    <2>2. Sorted(vs) /\ InBounds(vs) /\ N \in Nat /\ from \in Frames /\ vs \in Seq(Areas)
      BY <1>1, <2>1, SpaceFields DEF SoundMM, Sorted
    <2> QED BY <2>1, <2>2
  <1>3. /\ Mem(b, D, K, H) /\ b \in Mems /\ bs \in Seq(Areas)
        /\ Outside(r, b, to) /\ (b.tlb = r.tlb \/ b.tlb = {})
        /\ b.err \in {"ok", "nomem", "panic"} /\ (b.err = "panic" => b.free = {})
        /\ Sorted(bs) /\ Covered(b, to, bs)
        /\ \A j \in 1 .. Len(bs) : \E i \in 1 .. N : i > N - (n - 1) /\ bs[j] = vs[i]
    BY <1>0, <1>1 DEF DupTo
  <1>4. n \in 1 .. N /\ \A i \in Int : i > N - (n - 1) => i > N - n
    BY <1>1, <1>2
  <1>5. CASE b.err # "ok"
    <2>1. y = x
      BY <1>0, <1>5 DEF DupRound
    <2>2. \A j \in 1 .. Len(bs) : \E i \in 1 .. N : i > N - n /\ bs[j] = vs[i]
      BY <1>3, <1>4
    <2>3. DupTo(r, x, to, a, n)
      BY <1>0, <1>1, <1>3, <2>2 DEF DupTo
    <2> QED BY <1>0, <1>3, <2>1, <2>3
  <1>6. CASE b.err = "ok" /\ Len(bs) = k
    <2>1. PICK c : c = [b EXCEPT !.err = "nomem"]
      OBVIOUS
    <2>2. y = [r |-> c, vmas |-> bs]
      BY <1>0, <1>6, <2>1 DEF DupRound, nomem
    <2>3. /\ c \in Mems /\ c.free = b.free /\ c.dir = b.dir /\ c.tab = b.tab /\ c.ref = b.ref
          /\ c.tlb = b.tlb /\ c.err = "nomem"
      BY <1>3, <2>1, ErrFields DEF Errs
    <2>4. Mem(c, D, K, H) /\ \A d : SameSpace(b, c, d)
      BY <1>3, <2>3, SameTables
    <2>5. Outside(r, c, to)
      BY <1>3, <2>4, SpaceTransitive DEF Outside
    <2>6. Covered(c, to, bs)
      BY <1>3, <2>4, CoveredSame
    <2>7. \A j \in 1 .. Len(bs) : \E i \in 1 .. N : i > N - n /\ bs[j] = vs[i]
      BY <1>3, <1>4
    <2> QED BY <1>1, <1>3, <2>2, <2>3, <2>4, <2>5, <2>6, <2>7 DEF DupTo
  <1>7. CASE b.err = "ok" /\ Len(bs) # k
    <2>1. PICK g : g = N - n + 1
      OBVIOUS
    <2>2. g \in 1 .. N /\ g > N - n /\ ~(g > N - (n - 1))
      BY <1>2, <1>4, <2>1
    <2>3. PICK z : z = vs[g]
      OBVIOUS
    <2>4. /\ z \in Areas /\ z.s \in Nat /\ z.e \in Nat /\ z.s < z.e /\ z.e <= Top
      BY <1>1, <1>2, <2>2, <2>3, AreaFacts
    <2>5. PICK c : c = copy_range(b, to, from, z.s, z.e)
      OBVIOUS
    <2>6. PICK cs : cs = insert_vma_struct(bs, z)
      OBVIOUS
    <2>7. y = [r |-> c, vmas |-> cs]
      BY <1>0, <1>1, <1>7, <2>1, <2>3, <2>5, <2>6 DEF DupRound
    <2>8. Mem(c, D, K, H) /\ Copies(b, c, to, from, z.s, z.e)
      <3>1. CopiesRange(b, D, K, H, to, from, z.s, z.e)
        BY <1>2, <1>3, <1>7, <2>4 DEF CopiesRange
      <3> QED BY <2>5, <3>1, CopyRange
    <2>9. Apart(bs, z)
      <3>1. SUFFICES ASSUME NEW j \in 1 .. Len(bs) PROVE z.e <= bs[j].s
        BY DEF Apart
      <3>2. PICK i \in 1 .. N : i > N - (n - 1) /\ bs[j] = vs[i]
        BY <1>3
      <3>3. g < i
        BY <1>2, <1>4, <2>1, <3>2
      <3> QED BY <1>1, <1>2, <2>2, <2>3, <3>2, <3>3 DEF Sorted
    <2>10. Adds(bs, cs, z)
      BY <1>3, <2>4, <2>6, <2>9, InsertArea
    <2>11. Covered(b, to, cs)
      BY <1>3, <2>10, CoveredMore
    <2>12. PICK h \in 1 .. Len(cs) : cs[h] = z
      BY <2>10 DEF Adds, Listed
    <2>13. ASSUME NEW v \in VPages, Maps(c, to, v)
           PROVE  \E j \in 1 .. Len(cs) : InVma(cs[j], v) /\ (Pte(c, to, v).w <=> "W" \in cs[j].flags)
      <3>1. CASE Pte(c, to, v) = Pte(b, to, v)
        BY <2>11, <2>13, <3>1 DEF Covered, Maps
      <3>2. CASE Pte(c, to, v) # Pte(b, to, v)
        <4>1. z.s <= v /\ v < z.e /\ Maps(b, from, v) /\ Pte(c, to, v).w = Pte(b, from, v).w
          BY <2>8, <3>2 DEF Copies
        <4>2. Pte(b, from, v) = Pte(r, from, v)
          BY <1>2, <1>3 DEF Outside, SameSpace
        <4>3. PICK i \in 1 .. N : InVma(vs[i], v) /\ (Pte(r, from, v).w <=> "W" \in vs[i].flags)
          BY <1>1, <1>2, <4>1, <4>2 DEF Covered, Maps
        <4>4. InVma(vs[g], v) /\ v \in Nat
          BY <2>3, <4>1, Parts DEF InVma
        <4>5. i = g
          BY <1>1, <1>2, <2>2, <4>3, <4>4, OneArea
        <4> QED BY <2>3, <2>12, <4>1, <4>2, <4>3, <4>5
      <3> QED BY <3>1, <3>2
    <2>14. ASSUME NEW t \in Tables, c.dir[to][t] # 0
           PROVE  \E j \in 1 .. Len(cs) : Spanned(cs[j].s, cs[j].e, t)
      <3>1. c.dir[to][t] = b.dir[to][t] \/ Spanned(z.s, z.e, t)
        BY <2>8 DEF Copies
      <3> QED BY <2>11, <2>12, <2>14, <3>1 DEF Covered
    <2>15. Covered(c, to, cs)
      BY <2>13, <2>14 DEF Covered
    <2>16. ASSUME NEW j \in 1 .. Len(cs) PROVE \E i \in 1 .. N : i > N - n /\ cs[j] = vs[i]
      <3>1. CASE cs[j] = z
        BY <2>2, <2>3, <3>1
      <3>2. CASE Listed(bs, cs[j])
        BY <1>3, <1>4, <3>2 DEF Listed
      <3> QED BY <2>10, <3>1, <3>2 DEF Adds
    <2>17. Outside(r, c, to)
      BY <1>3, <2>8, SpaceTransitive DEF Copies, Outside
    <2>18. /\ (c.tlb = r.tlb \/ c.tlb = {}) /\ c.err \in {"ok", "nomem", "panic"}
           /\ (c.err = "panic" => c.free = {}) /\ Sorted(cs)
      BY <1>3, <2>8, <2>10 DEF Copies, Adds
    <2>19. N = Len(a.vmas) /\ y.r = c /\ y.vmas = cs
      BY <1>1, <2>7
    <2>20. DupTo(r, y, to, a, n)
      <3>1. \A j \in 1 .. Len(y.vmas) :
               \E i \in 1 .. Len(a.vmas) : i > Len(a.vmas) - n /\ y.vmas[j] = a.vmas[i]
        BY <1>1, <2>16, <2>19
      <3>2. /\ Outside(r, y.r, to) /\ (y.r.tlb = r.tlb \/ y.r.tlb = {})
            /\ y.r.err \in {"ok", "nomem", "panic"} /\ (y.r.err = "panic" => y.r.free = {})
            /\ Sorted(y.vmas) /\ Covered(y.r, to, y.vmas)
        BY <2>15, <2>17, <2>18, <2>19
      <3> QED BY <3>1, <3>2 DEF DupTo
    <2> QED BY <2>8, <2>19, <2>20
  <1> QED BY <1>5, <1>6, <1>7

LEMMA DupMmap ==
    ASSUME NEW r, NEW D, NEW K, NEW H, NEW to, NEW a, Dups(r, D, K, H, to, a), NEW k,
           Covered(r, to, <<>>), NEW q, q = dup_mmap(r, to, a, k)
    PROVE  Mem(q.r, D, K, H) /\ DupTo(r, q, to, a, Len(a.vmas))
  <1>0. Mem(r, D, K, H) /\ r.err = "ok" /\ SoundMM(a) /\ Len(a.vmas) \in Nat /\ r \in Mems
    BY SpaceFields DEF Dups, SoundMM, Mem
  <1> DEFINE N == Len(a.vmas)
             Step(n, x) == DupRound(x, to, a, k, n)
             U == {x \in [r : Mems, vmas : Seq(Areas)] : Mem(x.r, D, K, H)}
             x0 == [r |-> r, vmas |-> <<>>]
             F == [n \in 1 .. N |-> [x \in U |-> Step(n, x)]]
             Rec(h) == h = [n \in 0 .. N |-> IF n = 0 THEN x0 ELSE Step(n, h[n - 1])]
  <1>1. N \in Nat /\ x0 \in U
    <2>1. <<>> \in Seq(Areas)
      OBVIOUS
    <2> QED BY <1>0, <2>1
  <1>2. ASSUME NEW n \in 1 .. N PROVE n - 1 \in 0 .. N /\ n \in 0 .. N /\ n # 0
    BY <1>1
  <1>3. ASSUME NEW n \in 1 .. N, NEW x \in U PROVE Step(n, x) \in U
    <2>1. PICK b, bs : b = x.r /\ bs = x.vmas /\ x = [r |-> b, vmas |-> bs]
      OBVIOUS
    <2>2. b \in Mems /\ bs \in Seq(Areas) /\ Mem(b, D, K, H)
      BY <2>1
    <2>3. PICK z : z = a.vmas[N - n + 1]
      OBVIOUS
    <2>4. /\ z \in Areas /\ z.s \in Nat /\ z.e \in Nat /\ z.s < z.e /\ z.e <= Top
          /\ a.pgdir \in Frames /\ a.pgdir # to /\ to \in D
      <3>1. N - n + 1 \in 1 .. N
        BY <1>1
      <3>2. InBounds(a.vmas) /\ a.pgdir \in Frames
        BY <1>0, SpaceFields DEF SoundMM, Sorted
      <3> HIDE DEF N
      <3>3. a.pgdir # to /\ to \in D
        BY DEF Dups
      <3> QED BY <2>3, <3>1, <3>2, <3>3, AreaFacts DEF N
    <2>5. CASE b.err # "ok"
      <3>1. Step(n, x) = x
        BY <2>1, <2>5 DEF DupRound
      <3> QED BY <3>1
    <2>6. CASE b.err = "ok" /\ Len(bs) = k
      <3>1. PICK c : c = [b EXCEPT !.err = "nomem"]
        OBVIOUS
      <3>2. Step(n, x) = [r |-> c, vmas |-> bs]
        BY <2>1, <2>6, <3>1 DEF DupRound, nomem
      <3>3. /\ c \in Mems /\ c.free = b.free /\ c.dir = b.dir /\ c.tab = b.tab /\ c.ref = b.ref
            /\ c.tlb = b.tlb /\ c.err = "nomem"
        BY <2>2, <3>1, ErrFields DEF Errs
      <3>4. Mem(c, D, K, H)
        BY <2>2, <3>3, SameTables
      <3> QED BY <2>2, <3>2, <3>3, <3>4
    <2>7. CASE b.err = "ok" /\ Len(bs) # k
      <3>1. PICK c, cs : c = copy_range(b, to, a.pgdir, z.s, z.e) /\ cs = insert_vma_struct(bs, z)
        OBVIOUS
      <3>2. Step(n, x) = [r |-> c, vmas |-> cs]
        BY <2>1, <2>3, <2>7, <3>1 DEF DupRound
      <3>3. Mem(c, D, K, H)
        <4>1. CopiesRange(b, D, K, H, to, a.pgdir, z.s, z.e)
          BY <2>2, <2>4, <2>7 DEF CopiesRange
        <4> QED BY <3>1, <4>1, CopyRange
      <3>4. c \in Mems /\ cs \in Seq(Areas)
        BY <2>2, <2>4, <3>1, <3>3, InsertType DEF Mem
      <3> QED BY <3>2, <3>3, <3>4
    <2> QED BY <2>5, <2>6, <2>7
  <1>4. F \in [1 .. N -> [U -> U]]
    <2> HIDE DEF Step, U, N
    <2> QED BY <1>3
  <1>5. PICK g : Runs(g, N, U, x0, F)
    <2> HIDE DEF F, U, N, x0
    <2>1. IsLoop(N, U, x0, F)
      BY <1>1, <1>4 DEF IsLoop
    <2> QED BY <2>1, LoopRuns
  <1>6. g \in [0 .. N -> U] /\ g[0] = x0 /\ \A n \in 1 .. N : g[n] = F[n][g[n - 1]]
    BY <1>5 DEF Runs
  <1>7. \A n \in 1 .. N : g[n] = Step(n, g[n - 1])
    <2> HIDE DEF Step, U, N, x0
    <2>1. \A n \in 1 .. N : n - 1 \in 0 .. N /\ g[n - 1] \in U
      BY <1>2, <1>6
    <2> QED BY <1>6, <2>1
  <1>8. Rec(g)
    <2> HIDE DEF Step, U, x0
    <2>1. ASSUME NEW n \in 0 .. N PROVE g[n] = IF n = 0 THEN x0 ELSE Step(n, g[n - 1])
      <3>1. n = 0 \/ n \in 1 .. N
        BY <1>1
      <3> HIDE DEF N
      <3> QED BY <1>6, <1>7, <3>1
    <2> HIDE DEF N
    <2> QED BY <1>6, <2>1
  <1>9. q = (CHOOSE h : Rec(h))[N]
    BY DEF dup_mmap, DupRound
  <1>10. PICK h : h = (CHOOSE x : Rec(x)) /\ Rec(h)
    <2> HIDE DEF Rec
    <2> QED BY <1>8
  <1>11. h[0] = x0 /\ \A n \in 1 .. N : h[n] = Step(n, h[n - 1])
    <2>1. 0 \in 0 .. N
      BY <1>1
    <2> HIDE DEF Step, N, x0
    <2> QED BY <1>2, <1>10, <2>1
  <1> HIDE DEF Rec
  <1> DEFINE T == {n \in 0 .. N : h[n] \in U /\ DupTo(r, h[n], to, a, n)}
  <1>12. 0 \in T
    <2>1. 0 \in 0 .. N /\ Len(<<>>) = 0 /\ \A i \in 1 .. 0 : FALSE
      BY <1>1
    <2>2. Sorted(<<>>)
      BY <2>1 DEF Sorted, InBounds
    <2>3. x0.r = r /\ x0.vmas = <<>>
      OBVIOUS
    <2> HIDE DEF x0, U
    <2>4. DupTo(r, x0, to, a, 0)
      BY <1>0, <2>1, <2>2, <2>3, SpaceReflexive DEF DupTo, Outside
    <2> QED BY <1>1, <1>11, <2>1, <2>4
  <1>13. ASSUME NEW n \in 1 .. N, n - 1 \in T PROVE n \in T
    <2>1. h[n - 1] \in U /\ DupTo(r, h[n - 1], to, a, n - 1)
      BY <1>13
    <2>2. h[n] = Step(n, h[n - 1])
      BY <1>11
    <2>3. h[n] \in U
      <3> HIDE DEF U, Step
      <3> QED BY <1>3, <2>1, <2>2
    <2>4. PICK x \in [r : Mems, vmas : Seq(Areas)] : x = h[n - 1] /\ Mem(x.r, D, K, H)
      BY <2>1
    <2>5. PICK y : y = h[n] /\ y = DupRound(x, to, a, k, n)
      BY <2>2, <2>4
    <2>6. Mem(y.r, D, K, H) /\ DupTo(r, y, to, a, n)
      BY <2>1, <2>4, <2>5, DupRounds
    <2> HIDE DEF U
    <2> QED BY <1>2, <2>3, <2>5, <2>6
  <1>14. N \in T
    <2> HIDE DEF T, N
    <2>1. 0 .. N \subseteq T
      BY <1>1, <1>12, <1>13, UpTo
    <2> QED BY <1>1, <2>1
  <1>15. h[N] \in U /\ DupTo(r, h[N], to, a, N)
    BY <1>14
  <1>16. q = h[N] /\ Mem(h[N].r, D, K, H)
    BY <1>9, <1>10, <1>15
  <1> QED BY <1>15, <1>16

\* What copy_mm does, and the end of it when memory is out.
Forks(r, D, K, a) ==
    /\ Mem(r, D, K, {}) /\ r.err = "ok" /\ r.free # {} /\ SoundMM(a) /\ a.pgdir \in D
    /\ Covered(r, a.pgdir, a.vmas)
Forked(r, x, D, K, d) ==
    /\ d \in Pages \ D /\ x.vmas \in Seq(Areas) /\ Sorted(x.vmas)
    /\ Mem(x.r, D \union {d}, K, {}) /\ Outside(r, x.r, d) /\ Covered(x.r, d, x.vmas)
    /\ (x.r.tlb = r.tlb \/ x.r.tlb = {})
    /\ x.r.err \in {"ok", "nomem", "panic"} /\ (x.r.err = "panic" => x.r.free = {})

LEMMA DupMm ==
    ASSUME NEW r, NEW D, NEW K, NEW a, Forks(r, D, K, a), NEW k, NEW d, d = alloc_page(r),
           NEW x, x = dup_mmap(setup_pgdir(r), d, a, k)
    PROVE  Forked(r, x, D, K, d)
  <1>0. /\ Mem(r, D, K, {}) /\ r.err = "ok" /\ r.free # {} /\ SoundMM(a) /\ a.pgdir \in D
        /\ Covered(r, a.pgdir, a.vmas)
    BY DEF Forks
  <1>1. PICK b : b = setup_pgdir(r)
    OBVIOUS
  <1>2. /\ d \in r.free /\ d \in Pages \ D /\ Mem(b, D \union {d}, K, {})
        /\ \A c \in Frames : SameSpace(r, b, c)
        /\ b.err = r.err /\ b.tlb = r.tlb /\ b.dir[d] = NoDir
    BY <1>0, <1>1, SetupPgdir
  <1>3. a.pgdir \in Frames /\ d \in Frames /\ d # a.pgdir
    <2>1. a.pgdir \in Frames
      BY <1>0, SpaceFields DEF SoundMM
    <2> QED BY <1>0, <1>2, <2>1, FrameKinds
  <1>4. Covered(b, d, <<>>)
    <2>1. \A t \in Tables : b.dir[d][t] = 0
      BY <1>2 DEF NoDir
    <2>2. \A v \in VPages : Pte(b, d, v) = NoPte
      BY <2>1, Parts, PteIs
    <2> QED BY <2>1, <2>2 DEF Covered, Maps
  <1>5. Dups(b, D \union {d}, K, {}, d, a)
    <2>1. Covered(b, a.pgdir, a.vmas)
      BY <1>0, <1>2, <1>3, CoveredSame
    <2> QED BY <1>0, <1>2, <1>3, <2>1 DEF Dups
  <1>6. Mem(x.r, D \union {d}, K, {}) /\ DupTo(b, x, d, a, Len(a.vmas))
    BY <1>1, <1>4, <1>5, DupMmap
  <1>7. Outside(r, x.r, d)
    BY <1>2, <1>6, SpaceTransitive DEF DupTo, Outside
  <1>8. /\ Sorted(x.vmas) /\ x.vmas \in Seq(Areas) /\ Covered(x.r, d, x.vmas)
        /\ (x.r.tlb = r.tlb \/ x.r.tlb = {})
        /\ x.r.err \in {"ok", "nomem", "panic"} /\ (x.r.err = "panic" => x.r.free = {})
    BY <1>2, <1>6 DEF DupTo, Sorted, InBounds
  <1> QED BY <1>2, <1>6, <1>7, <1>8 DEF Forked

LEMMA DropMm ==
    ASSUME NEW r, NEW D, NEW K, NEW d, NEW x, Forked(r, x, D, K, d), NEW a, a.vmas = x.vmas,
           a.pgdir = d, NEW q, q = Destroy(x.r, a)
    PROVE  /\ Mem(q, D, K, {}) /\ Outside(r, q, d) /\ q.err = x.r.err
           /\ (q.tlb = r.tlb \/ q.tlb = {})
  <1>1. Destroys(x.r, q, a, D \union {d}, K, {})
    BY DEF Forked, Destroys, Sorted
  <1>2. Mem(q, (D \union {d}) \ {a.pgdir}, K, {}) /\ Destroyed(x.r, q, a.pgdir)
    BY <1>1, DestroyFacts
  <1>3. (D \union {d}) \ {a.pgdir} = D
    BY DEF Forked
  <1>4. Outside(r, q, d)
    BY <1>2, SpaceTransitive DEF Forked, Destroyed, Outside
  <1> QED BY <1>2, <1>3, <1>4 DEF Forked, Destroyed

-----------------------------------------------------------------------------
(* Checking user memory                                                    *)

Allows(vs, v, w) ==
    \E i \in 1 .. Len(vs) : InVma(vs[i], v) /\ (IF w THEN "W" ELSE "R") \in vs[i].flags
Checks == [ok : BOOLEAN, cache : Areas, v : Nat]
CheckStates(a, s, e, w) ==
    {q \in Checks : /\ q.cache = NoVma \/ Listed(a.vmas, q.cache)
                    /\ \A v \in Nat : q.ok /\ s <= v /\ v < q.v /\ v < e => Allows(a.vmas, v, w)}

LEMMA CheckRounds ==
    ASSUME NEW a, SoundMM(a), NEW s \in Nat, NEW e \in Nat, NEW w \in BOOLEAN,
           NEW q \in CheckStates(a, s, e, w), NEW y, y = CheckRound(q, a, e, w)
    PROVE  y \in CheckStates(a, s, e, w) /\ (y.ok => y.v >= e \/ y.v > q.v)
  <1>1. PICK ok \in BOOLEAN, c \in Areas, p \in Nat : q = [ok |-> ok, cache |-> c, v |-> p]
    BY DEF CheckStates, Checks
  <1>2. q.ok = ok /\ q.cache = c /\ q.v = p
    BY <1>1
  <1>3. PICK vs : vs = a.vmas
    OBVIOUS
  <1>4. /\ c = NoVma \/ Listed(vs, c)
        /\ \A v \in Nat : ok /\ s <= v /\ v < p /\ v < e => Allows(vs, v, w)
    BY <1>2, <1>3 DEF CheckStates
  <1>5. PICK b, x : b = [a EXCEPT !.cache = c] /\ x = find_vma(b, p)
    OBVIOUS
  <1>6. SoundMM(b) /\ b.vmas = vs /\ \A i \in 1 .. Len(vs) : vs[i] \in Areas
    <2>1. a \in Spaces /\ Sorted(vs) /\ vs \in Seq(Areas)
      BY <1>3, SpaceFields DEF SoundMM
    <2>2. b \in Spaces /\ b.vmas = vs /\ b.cache = c
      BY <1>3, <1>5, <2>1 DEF Spaces
    <2>3. \A i \in 1 .. Len(vs) : vs[i] \in Areas
      BY <2>1
    <2> QED BY <1>4, <2>1, <2>2, <2>3 DEF SoundMM
  <1>7. \/ x = NoVma
        \/ x # NoVma /\ \E i : x = vs[i] /\ First(vs, p, i)
    BY <1>5, <1>6, FindVma
  <1>8. CASE p >= e \/ ~ok
    <2>1. y = q
      BY <1>2, <1>8 DEF CheckRound
    <2> QED BY <1>2, <1>8, <2>1
  <1>9. CASE ~(p >= e \/ ~ok) /\ x = NoVma
    <2>1. y = [ok |-> FALSE, cache |-> c, v |-> p]
      BY <1>1, <1>2, <1>5, <1>9 DEF CheckRound
    <2>2. y \in Checks /\ ~y.ok /\ y.cache = c
      BY <2>1 DEF Checks
    <2> QED BY <1>3, <1>4, <2>2 DEF CheckStates
  <1>10. CASE ~(p >= e \/ ~ok) /\ x # NoVma
    <2>1. PICK i : x = vs[i] /\ First(vs, p, i)
      BY <1>7, <1>10
    <2>2. i \in 1 .. Len(vs) /\ p < x.e
      BY <2>1 DEF First
    <2>3. x \in Areas /\ x.s \in Nat /\ x.e \in Nat /\ Listed(vs, x)
      BY <1>6, <2>1, <2>2 DEF Areas, Listed
    <2>4. PICK refused : refused = (\/ p < x.s
                                    \/ (IF w THEN "W" ELSE "R") \notin x.flags
                                    \/ w /\ "STACK" \in x.flags /\ p < x.s + 1)
      OBVIOUS
    <2>5. CASE refused
      <3>1. y = [ok |-> ok, cache |-> x, v |-> p] \/ y = [ok |-> FALSE, cache |-> x, v |-> p]
        BY <1>1, <1>2, <1>5, <1>10, <2>4, <2>5 DEF CheckRound
      <3>2. y = [ok |-> FALSE, cache |-> x, v |-> p]
        BY <1>1, <1>2, <1>5, <1>10, <2>4, <2>5 DEF CheckRound
      <3>3. y \in Checks /\ ~y.ok /\ y.cache = x
        BY <2>3, <3>2 DEF Checks
      <3> QED BY <1>3, <2>3, <3>3 DEF CheckStates
    <2>6. CASE ~refused
      <3>1. y = [ok |-> TRUE, cache |-> x, v |-> x.e]
        BY <1>1, <1>2, <1>5, <1>10, <2>4, <2>6 DEF CheckRound
      <3>2. y \in Checks /\ y.ok /\ y.cache = x /\ y.v = x.e
        BY <2>3, <3>1 DEF Checks
      <3>3. p >= x.s /\ (IF w THEN "W" ELSE "R") \in x.flags
        BY <2>3, <2>4, <2>6
      <3>4. ASSUME NEW v \in Nat, s <= v, v < x.e, v < e PROVE Allows(vs, v, w)
        <4>1. CASE v < p
          BY <1>4, <1>10, <3>4, <4>1
        <4>2. CASE v >= p
          <5>1. InVma(vs[i], v)
            BY <2>1, <2>3, <3>3, <3>4, <4>2 DEF InVma
          <5> QED BY <2>1, <2>2, <3>3, <5>1 DEF Allows
        <4> QED BY <4>1, <4>2
      <3> QED BY <1>2, <1>3, <2>2, <2>3, <3>2, <3>4 DEF CheckStates
    <2> QED BY <2>5, <2>6
  <1> QED BY <1>8, <1>9, <1>10

\* user_mem_check lets through what the areas allow.
LEMMA UserMemCheck ==
    ASSUME NEW a, SoundMM(a), NEW s \in Nat, NEW e \in Nat, NEW w \in BOOLEAN,
           NEW q, q = user_mem_check(a, s, e, w)
    PROVE  /\ q.cache \in Areas /\ (q.cache = NoVma \/ Listed(a.vmas, q.cache))
           /\ q.ok => s < e /\ e <= Top /\ \A v \in s .. e - 1 : Allows(a.vmas, v, w)
  <1>0. a.cache \in Areas /\ (a.cache = NoVma \/ Listed(a.vmas, a.cache))
    BY SpaceFields DEF SoundMM
  <1>1. CASE ~USER_ACCESS(s, e)
    <2>1. q = [ok |-> FALSE, cache |-> a.cache, v |-> s]
      BY <1>1 DEF user_mem_check
    <2> QED BY <1>0, <2>1
  <1>2. CASE USER_ACCESS(s, e)
    <2>0. s < e /\ e <= Top
      BY <1>2 DEF USER_ACCESS
    <2> DEFINE N == e - s
               Step(x) == CheckRound(x, a, e, w)
               U == CheckStates(a, s, e, w)
               x0 == [ok |-> TRUE, cache |-> a.cache, v |-> s]
               F == [n \in 1 .. N |-> [x \in U |-> Step(x)]]
               Rec(h) == h = [n \in 0 .. N |-> IF n = 0 THEN x0 ELSE Step(h[n - 1])]
    <2>1. N \in Nat /\ x0 \in U
      <3>1. \A v \in Nat : ~(s <= v /\ v < s)
        OBVIOUS
      <3> QED BY <1>0, <2>0, <3>1 DEF CheckStates, Checks
    <2>2. ASSUME NEW n \in 1 .. N PROVE n - 1 \in 0 .. N /\ n \in 0 .. N /\ n # 0
      BY <2>1
    <2>3. ASSUME NEW x \in U PROVE Step(x) \in U
      BY <2>3, CheckRounds
    <2>4. F \in [1 .. N -> [U -> U]]
      <3> HIDE DEF Step, U, N
      <3> QED BY <2>3
    <2>5. PICK g : Runs(g, N, U, x0, F)
      <3> HIDE DEF F, U, N, x0
      <3>1. IsLoop(N, U, x0, F)
        BY <2>1, <2>4 DEF IsLoop
      <3> QED BY <3>1, LoopRuns
    <2>6. g \in [0 .. N -> U] /\ g[0] = x0 /\ \A n \in 1 .. N : g[n] = F[n][g[n - 1]]
      BY <2>5 DEF Runs
    <2>7. \A n \in 1 .. N : g[n] = Step(g[n - 1])
      <3> HIDE DEF Step, U, N, x0
      <3>1. \A n \in 1 .. N : n - 1 \in 0 .. N /\ g[n - 1] \in U
        BY <2>2, <2>6
      <3> QED BY <2>6, <3>1
    <2>8. Rec(g)
      <3> HIDE DEF Step, U, x0
      <3>1. ASSUME NEW n \in 0 .. N PROVE g[n] = IF n = 0 THEN x0 ELSE Step(g[n - 1])
        <4>1. n = 0 \/ n \in 1 .. N
          BY <2>1
        <4> HIDE DEF N
        <4> QED BY <2>6, <2>7, <4>1
      <3> HIDE DEF N
      <3> QED BY <2>6, <3>1
    <2>9. q = (CHOOSE h : Rec(h))[N]
      BY <1>2 DEF user_mem_check
    <2>10. PICK h : h = (CHOOSE x : Rec(x)) /\ Rec(h)
      <3> HIDE DEF Rec
      <3> QED BY <2>8
    <2>11. h[0] = x0 /\ \A n \in 1 .. N : h[n] = Step(h[n - 1])
      <3>1. 0 \in 0 .. N
        BY <2>1
      <3> HIDE DEF Step, N, x0
      <3> QED BY <2>2, <2>10, <3>1
    <2> HIDE DEF Rec
    <2> DEFINE T == {n \in 0 .. N : h[n] \in U /\ (h[n].ok => h[n].v >= e \/ h[n].v >= s + n)}
    <2>12. 0 \in T
      <3>1. 0 \in 0 .. N /\ x0.v = s /\ s >= s + 0
        BY <2>1
      <3> HIDE DEF x0, U, N
      <3> QED BY <2>1, <2>11, <3>1
    <2>13. ASSUME NEW n \in 1 .. N, n - 1 \in T PROVE n \in T
      <3>1. PICK x, y : x = h[n - 1] /\ y = h[n]
        OBVIOUS
      <3>2. x \in U /\ (x.ok => x.v >= e \/ x.v >= s + (n - 1)) /\ y = CheckRound(x, a, e, w)
        BY <2>11, <2>13, <3>1
      <3>3. y \in U /\ (y.ok => y.v >= e \/ y.v > x.v)
        BY <3>2, CheckRounds
      <3>4. x.v \in Nat /\ y.v \in Nat
        BY <3>2, <3>3 DEF CheckStates, Checks
      <3>5. CASE y.ok /\ ~(y.v >= e)
        <4>1. ~x.ok => y = x
          BY <3>2 DEF CheckRound
        <4>2. x.ok
          BY <3>5, <4>1
        <4>3. x.v >= e => y = x
          BY <3>2 DEF CheckRound
        <4>4. x.v >= s + (n - 1) /\ y.v > x.v
          BY <3>2, <3>3, <3>5, <4>2, <4>3
        <4>5. y.v >= s + n
          BY <3>4, <4>4
        <4> HIDE DEF U, N
        <4> QED BY <2>2, <3>1, <3>3, <4>5
      <3>6. CASE ~(y.ok /\ ~(y.v >= e))
        <4> HIDE DEF U, N
        <4> QED BY <2>2, <3>1, <3>3, <3>6
      <3> QED BY <3>5, <3>6
    <2>14. N \in T
      <3> HIDE DEF T, N
      <3>1. 0 .. N \subseteq T
        BY <2>1, <2>12, <2>13, UpTo
      <3> QED BY <2>1, <3>1
    <2>15. q \in U /\ (q.ok => q.v >= e)
      <3>1. q = h[N] /\ s + N = e
        BY <2>9, <2>10
      <3> HIDE DEF U, N
      <3> QED BY <2>14, <3>1
    <2>16. ASSUME q.ok, NEW v \in s .. e - 1 PROVE Allows(a.vmas, v, w)
      <3>1. v \in Nat /\ s <= v /\ v < q.v /\ v < e
        BY <2>15, <2>16 DEF CheckStates, Checks
      <3> QED BY <2>15, <2>16, <3>1 DEF CheckStates
    <2> QED BY <2>0, <2>15, <2>16 DEF CheckStates, Checks
  <1> QED BY <1>1, <1>2


-----------------------------------------------------------------------------
(* The address spaces of all processes                                     *)

\* ws[p] is the address space of process p, or NoMM; ks[p] its kernel stack.
Dirs(ws) == {ws[p].pgdir : p \in {q \in Procs : ws[q] # NoMM}}
Stacks(ks) == UNION {ks[p] : p \in Procs}
Apiece(ws, ks) ==
    /\ ws \in [Procs -> Spaces] /\ ks \in [Procs -> SUBSET Pages]
    /\ \A p, q \in Procs : p # q /\ ws[p] # NoMM /\ ws[q] # NoMM => ws[p].pgdir # ws[q].pgdir
    /\ \A p, q \in Procs : p # q => ks[p] \intersect ks[q] = {}
    /\ \A p \in Procs : ks[p] = {} \/ Cardinality(ks[p]) = KSTACKPAGE
Good(r, ws) ==
    \A p \in Procs : ws[p] # NoMM => SoundMM(ws[p]) /\ Covered(r, ws[p].pgdir, ws[p].vmas)
World(r, ws, ks) == Apiece(ws, ks) /\ Mem(r, Dirs(ws), Stacks(ks), {}) /\ Good(r, ws)

LEMMA WorldFacts ==
    ASSUME NEW r, NEW ws, NEW ks, World(r, ws, ks), NEW p \in Procs, ws[p] # NoMM
    PROVE  /\ ws[p] \in Spaces /\ SoundMM(ws[p]) /\ Covered(r, ws[p].pgdir, ws[p].vmas)
           /\ ws[p].pgdir \in Dirs(ws) /\ ws[p].pgdir \in Pages /\ ws[p].pgdir \in Frames
           /\ InBounds(ws[p].vmas) /\ Sorted(ws[p].vmas)
  <1>1. ws[p].pgdir \in Dirs(ws)
    BY DEF Dirs
  <1>2. Dirs(ws) \subseteq Pages
    BY DEF World, Mem, Owned
  <1>3. ws[p] \in Spaces
    BY DEF World, Apiece
  <1>4. SoundMM(ws[p]) /\ Covered(r, ws[p].pgdir, ws[p].vmas)
    BY DEF World, Good
  <1> QED BY <1>1, <1>2, <1>3, <1>4, FrameKinds DEF SoundMM, Sorted

\* Process p has the space x instead of ws[p].
Given(ws, p, x, ws2) ==
    ws \in [Procs -> Spaces] /\ p \in Procs /\ x \in Spaces /\ ws2 = [ws EXCEPT ![p] = x]

LEMMA GivenIs ==
    ASSUME NEW ws, NEW p, NEW x, NEW ws2, Given(ws, p, x, ws2)
    PROVE  /\ ws2 \in [Procs -> Spaces] /\ ws2[p] = x
           /\ \A q \in Procs \ {p} : ws2[q] = ws[q]
  BY DEF Given

\* No other process has directory d.
Alone(ws, p, d) == \A q \in Procs \ {p} : ws[q] # NoMM => ws[q].pgdir # d

LEMMA GoodStep ==
    ASSUME NEW r, NEW q, NEW ws, NEW p, NEW x, NEW ws2, NEW d, Given(ws, p, x, ws2),
           Good(r, ws), Outside(r, q, d), Alone(ws, p, d),
           x # NoMM => SoundMM(x) /\ Covered(q, x.pgdir, x.vmas)
    PROVE  Good(q, ws2)
  <1>1. SUFFICES ASSUME NEW o \in Procs, ws2[o] # NoMM
                 PROVE  SoundMM(ws2[o]) /\ Covered(q, ws2[o].pgdir, ws2[o].vmas)
    BY DEF Good
  <1>2. CASE o = p
    BY <1>1, <1>2, GivenIs
  <1>3. CASE o # p
    <2>1. ws2[o] = ws[o] /\ ws[o] # NoMM
      BY <1>1, <1>3, GivenIs
    <2>2. SoundMM(ws[o]) /\ Covered(r, ws[o].pgdir, ws[o].vmas)
      BY <2>1 DEF Good
    <2>3. ws[o].pgdir # d /\ ws[o].pgdir \in Frames
      BY <1>3, <2>1, <2>2, SpaceFields DEF Alone, SoundMM
    <2>4. SameSpace(r, q, ws[o].pgdir)
      BY <2>3 DEF Outside
    <2> QED BY <2>1, <2>2, <2>4, CoveredSame
  <1> QED BY <1>2, <1>3

LEMMA WorldSame ==
    ASSUME NEW r, NEW ws, NEW ks, World(r, ws, ks), NEW q, Mem(q, Dirs(ws), Stacks(ks), {}),
           \A c \in Frames : SameSpace(r, q, c)
    PROVE  World(q, ws, ks)
  <1>1. SUFFICES ASSUME NEW o \in Procs, ws[o] # NoMM
                 PROVE  SoundMM(ws[o]) /\ Covered(q, ws[o].pgdir, ws[o].vmas)
    BY DEF World, Good
  <1>2. SoundMM(ws[o]) /\ Covered(r, ws[o].pgdir, ws[o].vmas) /\ ws[o].pgdir \in Frames
    BY <1>1, WorldFacts
  <1> QED BY <1>2, CoveredSame

\* The memory and the areas of one process change.
Changes(r, q, ws, ks, p, x, ws2) ==
    /\ World(r, ws, ks) /\ Given(ws, p, x, ws2) /\ ws[p] # NoMM /\ x # NoMM
    /\ x.pgdir = ws[p].pgdir /\ Mem(q, Dirs(ws), Stacks(ks), {}) /\ Outside(r, q, x.pgdir)
    /\ SoundMM(x) /\ Covered(q, x.pgdir, x.vmas)

LEMMA WorldChange ==
    ASSUME NEW r, NEW q, NEW ws, NEW ks, NEW p, NEW x, NEW ws2, Changes(r, q, ws, ks, p, x, ws2)
    PROVE  World(q, ws2, ks)
  <1>1. /\ World(r, ws, ks) /\ Given(ws, p, x, ws2) /\ ws[p] # NoMM /\ x # NoMM
        /\ x.pgdir = ws[p].pgdir /\ Mem(q, Dirs(ws), Stacks(ks), {}) /\ Outside(r, q, x.pgdir)
        /\ SoundMM(x) /\ Covered(q, x.pgdir, x.vmas)
    BY DEF Changes
  <1>2. /\ ws2 \in [Procs -> Spaces] /\ ws2[p] = x /\ p \in Procs
        /\ \A o \in Procs \ {p} : ws2[o] = ws[o]
    BY <1>1, GivenIs DEF Given
  <1>3. \A o \in Procs : (ws2[o] # NoMM <=> ws[o] # NoMM)
                         /\ (ws[o] # NoMM => ws2[o].pgdir = ws[o].pgdir)
    BY <1>1, <1>2
  <1>4. Dirs(ws2) = Dirs(ws)
    BY <1>3 DEF Dirs
  <1>5. Alone(ws, p, x.pgdir)
    BY <1>1, <1>2 DEF World, Apiece, Alone
  <1>6. Good(q, ws2)
    BY <1>1, <1>5, GoodStep DEF World
  <1>7. Apiece(ws2, ks)
    BY <1>1, <1>2, <1>3 DEF World, Apiece
  <1> QED BY <1>1, <1>4, <1>6, <1>7 DEF World

\* A process gets a space.
Grows(r, q, ws, ks, p, x, ws2) ==
    /\ World(r, ws, ks) /\ Given(ws, p, x, ws2) /\ ws[p] = NoMM /\ x # NoMM
    /\ x.pgdir \in Pages \ Dirs(ws) /\ Mem(q, Dirs(ws) \union {x.pgdir}, Stacks(ks), {})
    /\ Outside(r, q, x.pgdir) /\ SoundMM(x) /\ Covered(q, x.pgdir, x.vmas)

LEMMA WorldGrow ==
    ASSUME NEW r, NEW q, NEW ws, NEW ks, NEW p, NEW x, NEW ws2, Grows(r, q, ws, ks, p, x, ws2)
    PROVE  World(q, ws2, ks)
  <1>1. /\ World(r, ws, ks) /\ Given(ws, p, x, ws2) /\ ws[p] = NoMM /\ x # NoMM
        /\ x.pgdir \in Pages \ Dirs(ws) /\ Mem(q, Dirs(ws) \union {x.pgdir}, Stacks(ks), {})
        /\ Outside(r, q, x.pgdir) /\ SoundMM(x) /\ Covered(q, x.pgdir, x.vmas)
    BY DEF Grows
  <1>2. /\ ws2 \in [Procs -> Spaces] /\ ws2[p] = x /\ p \in Procs
        /\ \A o \in Procs \ {p} : ws2[o] = ws[o]
    BY <1>1, GivenIs DEF Given
  <1>3. Alone(ws, p, x.pgdir)
    BY <1>1 DEF Dirs, Alone
  <1>4. Dirs(ws2) = Dirs(ws) \union {x.pgdir}
    <2>1. ASSUME NEW d PROVE d \in Dirs(ws2) <=> d \in Dirs(ws) \/ d = x.pgdir
      <3>1. d \in Dirs(ws2) <=> \E o \in Procs : ws2[o] # NoMM /\ d = ws2[o].pgdir
        BY DEF Dirs
      <3>2. d \in Dirs(ws) <=> \E o \in Procs : ws[o] # NoMM /\ d = ws[o].pgdir
        BY DEF Dirs
      <3> QED BY <1>1, <1>2, <3>1, <3>2
    <2> QED BY <2>1
  <1>5. Good(q, ws2)
    BY <1>1, <1>3, GoodStep DEF World
  <1>6. Apiece(ws2, ks)
    BY <1>1, <1>2, <1>3 DEF World, Apiece, Alone
  <1>7. Mem(q, Dirs(ws2), Stacks(ks), {})
    BY <1>1, <1>4
  <1> QED BY <1>5, <1>6, <1>7 DEF World

LEMMA NoMMIs == NoMM \in Spaces /\ NoMM.pgdir = 0 /\ NoMM.vmas = <<>> /\ NoVma \in Areas
  <1>1. NoVma \in Areas
    BY DEF NoVma, Areas
  <1>2. <<>> \in Seq(Areas) /\ 0 \in Frames
    BY FrameKinds
  <1> QED BY <1>1, <1>2 DEF NoMM, Spaces, Boot

\* A process gives its space back.
Drops(r, q, ws, ks, p, ws2) ==
    /\ World(r, ws, ks) /\ Given(ws, p, NoMM, ws2) /\ ws[p] # NoMM /\ q = Destroy(r, ws[p])

LEMMA WorldDrop ==
    ASSUME NEW r, NEW q, NEW ws, NEW ks, NEW p, NEW ws2, Drops(r, q, ws, ks, p, ws2)
    PROVE  World(q, ws2, ks) /\ Destroyed(r, q, ws[p].pgdir)
  <1>1. World(r, ws, ks) /\ Given(ws, p, NoMM, ws2) /\ ws[p] # NoMM /\ q = Destroy(r, ws[p])
    BY DEF Drops
  <1>2. /\ ws2 \in [Procs -> Spaces] /\ ws2[p] = NoMM /\ p \in Procs
        /\ \A o \in Procs \ {p} : ws2[o] = ws[o]
    BY <1>1, GivenIs DEF Given
  <1>3. PICK a, d : a = ws[p] /\ d = a.pgdir
    OBVIOUS
  <1>4. Mem(q, Dirs(ws) \ {d}, Stacks(ks), {}) /\ Destroyed(r, q, d)
    <2>1. Destroys(r, q, a, Dirs(ws), Stacks(ks), {})
      BY <1>1, <1>2, <1>3, WorldFacts DEF Destroys, World
    <2> QED BY <1>3, <2>1, DestroyFacts
  <1>5. Alone(ws, p, d)
    BY <1>1, <1>2, <1>3 DEF World, Apiece, Alone
  <1>6. Dirs(ws2) = Dirs(ws) \ {d}
    <2>1. ASSUME NEW c PROVE c \in Dirs(ws2) <=> c \in Dirs(ws) /\ c # d
      <3>1. c \in Dirs(ws2) <=> \E o \in Procs : ws2[o] # NoMM /\ c = ws2[o].pgdir
        BY DEF Dirs
      <3>2. c \in Dirs(ws) <=> \E o \in Procs : ws[o] # NoMM /\ c = ws[o].pgdir
        BY DEF Dirs
      <3>3. CASE c = d
        BY <1>2, <1>5, <3>1, <3>3 DEF Alone
      <3>4. CASE c # d
        BY <1>2, <1>3, <3>1, <3>2, <3>4
      <3> QED BY <3>3, <3>4
    <2> QED BY <2>1
  <1>7. Good(q, ws2)
    BY <1>1, <1>4, <1>5, GoodStep DEF World, Destroyed
  <1>8. Apiece(ws2, ks)
    BY <1>1, <1>2 DEF World, Apiece
  <1>9. Mem(q, Dirs(ws2), Stacks(ks), {})
    BY <1>4, <1>6
  <1> QED BY <1>3, <1>4, <1>7, <1>8, <1>9 DEF World

-----------------------------------------------------------------------------
(* Kernel stacks                                                           *)

Stacked(ks, p, S, ks2) ==
    ks \in [Procs -> SUBSET Pages] /\ p \in Procs /\ S \in SUBSET Pages /\ ks2 = [ks EXCEPT ![p] = S]

LEMMA StackedIs ==
    ASSUME NEW ks, NEW p, NEW S, NEW ks2, Stacked(ks, p, S, ks2)
    PROVE  /\ ks2 \in [Procs -> SUBSET Pages] /\ ks2[p] = S /\ p \in Procs
           /\ \A q \in Procs \ {p} : ks2[q] = ks[q]
  BY DEF Stacked

LEMMA StackAdd ==
    ASSUME NEW ws, NEW ks, Apiece(ws, ks), NEW p, NEW S, NEW ks2, Stacked(ks, p, S, ks2),
           ks[p] = {}, S \intersect Stacks(ks) = {}, Cardinality(S) = KSTACKPAGE
    PROVE  Apiece(ws, ks2) /\ Stacks(ks2) = Stacks(ks) \union S
  <1>1. /\ ks2 \in [Procs -> SUBSET Pages] /\ ks2[p] = S /\ p \in Procs
        /\ \A q \in Procs \ {p} : ks2[q] = ks[q]
    BY StackedIs
  <1>2. \A x : x \in Stacks(ks) <=> \E q \in Procs : x \in ks[q]
    BY DEF Stacks
  <1>3. \A x : x \in Stacks(ks2) <=> \E q \in Procs : x \in ks2[q]
    BY DEF Stacks
  <1>4. \A x : x \in Stacks(ks2) <=> x \in Stacks(ks) \/ x \in S
    BY <1>1, <1>2, <1>3
  <1>5. \A q \in Procs : ks[q] \intersect S = {}
    BY <1>2
  <1>6. Apiece(ws, ks2)
    BY <1>1, <1>5 DEF Apiece
  <1> QED BY <1>4, <1>6

LEMMA StackDrop ==
    ASSUME NEW ws, NEW ks, Apiece(ws, ks), NEW p, NEW ks2, Stacked(ks, p, {}, ks2)
    PROVE  Apiece(ws, ks2) /\ Stacks(ks2) = Stacks(ks) \ ks[p]
  <1>1. /\ ks2 \in [Procs -> SUBSET Pages] /\ ks2[p] = {} /\ p \in Procs
        /\ \A q \in Procs \ {p} : ks2[q] = ks[q]
    BY StackedIs
  <1>2. \A x : x \in Stacks(ks) <=> \E q \in Procs : x \in ks[q]
    BY DEF Stacks
  <1>3. \A x : x \in Stacks(ks2) <=> \E q \in Procs : x \in ks2[q]
    BY DEF Stacks
  <1>4. \A q \in Procs \ {p} : ks[q] \intersect ks[p] = {}
    BY <1>1 DEF Apiece
  <1>5. \A x : x \in Stacks(ks2) <=> x \in Stacks(ks) /\ x \notin ks[p]
    BY <1>1, <1>2, <1>3, <1>4
  <1>6. Apiece(ws, ks2)
    BY <1>1 DEF Apiece
  <1> QED BY <1>5, <1>6

-----------------------------------------------------------------------------
(* The invariant                                                           *)

Statuses == {"none", "kthread", "user", "load", "zombie"}
Works == [segs : Seq(Segment), mapped : BOOLEAN, at : Nat]
Accesses == [v : VPages, w : BOOLEAN]

\* The address space of each process: the one it runs in or the one it loads.
Space == [p \in Procs |-> IF st[p] = "load" THEN nmm[p] ELSE mm[p]]

TypeOK ==
    /\ mm \in [Procs -> Spaces] /\ nmm \in [Procs -> Spaces]
    /\ cr3 \in [Procs -> Frames] /\ st \in [Procs -> Statuses]
    /\ kstack \in [Procs -> SUBSET Pages] /\ todo \in [Procs -> Works]
    /\ current \in Procs \union {Idle} /\ pgd \in Frames /\ kacc \in Seq(Accesses)

StatusInv ==
    \A p \in Procs :
       /\ st[p] \in {"none", "kthread", "zombie"} => mm[p] = NoMM /\ nmm[p] = NoMM
       /\ st[p] = "user" => mm[p] # NoMM /\ nmm[p] = NoMM /\ cr3[p] = mm[p].pgdir
       /\ st[p] = "load" => mm[p] = NoMM /\ nmm[p] # NoMM
       /\ st[p] = "none" => kstack[p] = {}

PanicInv ==
    /\ panic \in {"no", "copy_range", "unhandled pgfault", "Unhandled Exception"}
    /\ panic \in {"copy_range", "unhandled pgfault"} => m.free = {}
    /\ panic = "Unhandled Exception" => kacc = <<>>

\* The segment load_icode is filling has its area in the new mm.
TodoOk(w, a) ==
    w.mapped => /\ w.segs # <<>> /\ Head(w.segs).s <= w.at /\ w.at < Head(w.segs).e
                /\ Listed(a.vmas, vma_create(Head(w.segs).s, Head(w.segs).e, Head(w.segs).flags))
LoadInv == \A p \in Procs : st[p] = "load" => TodoOk(todo[p], nmm[p])

\* The TLB has what directory d says, and only entries with a page that is
\* mapped: when the space is given back that is what clears it.
Pair(r, d, k) == [vpn2 |-> k, lo |-> [i \in 0 .. 1 |-> Pte(r, d, 2 * k + i)]]
Reflects(r, d) ==
    \A en \in r.tlb : \E k \in Nat :
       /\ 2 * k \in VPages /\ 2 * k + 1 \in VPages /\ en = Pair(r, d, k)
       /\ Maps(r, d, 2 * k) \/ Maps(r, d, 2 * k + 1)
UserRuns == current \in Procs /\ st[current] = "user"
TlbInv == IF UserRuns THEN pgd = mm[current].pgdir /\ Reflects(m, pgd) ELSE m.tlb = {}

KaccInv ==
    kacc # <<>> =>
       UserRuns /\ \A i \in 1 .. Len(kacc) : Allows(mm[current].vmas, kacc[i].v, kacc[i].w)

Running ==
    m.err = "ok" /\ World(m, Space, kstack) /\ LoadInv /\ TlbInv /\ KaccInv
VmInv == TypeOK /\ StatusInv /\ PanicInv /\ Good(m, Space) /\ (panic = "no" => Running)

LEMMA SpaceIs ==
    ASSUME TypeOK
    PROVE  /\ Space \in [Procs -> Spaces]
           /\ \A p \in Procs : Space[p] = IF st[p] = "load" THEN nmm[p] ELSE mm[p]
  BY DEF TypeOK, Space

LEMMA TlbKept ==
    ASSUME NEW r, NEW q, NEW d, Reflects(r, d), SamePtes(r, q, d), q.tlb = r.tlb \/ q.tlb = {}
    PROVE  Reflects(q, d)
  <1>1. CASE q.tlb = {}
    BY <1>1 DEF Reflects
  <1>2. CASE q.tlb = r.tlb
    <2>1. SUFFICES ASSUME NEW en \in q.tlb
                   PROVE  \E k \in Nat :
                             /\ 2 * k \in VPages /\ 2 * k + 1 \in VPages /\ en = Pair(q, d, k)
                             /\ Maps(q, d, 2 * k) \/ Maps(q, d, 2 * k + 1)
      BY DEF Reflects
    <2>2. PICK k \in Nat : /\ 2 * k \in VPages /\ 2 * k + 1 \in VPages /\ en = Pair(r, d, k)
                           /\ Maps(r, d, 2 * k) \/ Maps(r, d, 2 * k + 1)
      BY <1>2, <2>1 DEF Reflects
    <2>3. \A v \in VPages : Pte(q, d, v) = Pte(r, d, v)
      BY DEF SamePtes
    <2>4. Pair(q, d, k) = Pair(r, d, k)
      <3>1. ASSUME NEW i \in 0 .. 1 PROVE Pte(q, d, 2 * k + i) = Pte(r, d, 2 * k + i)
        <4>1. 2 * k + i \in VPages
          <5>1. i = 0 \/ i = 1
            OBVIOUS
          <5>2. 2 * k + 0 = 2 * k
            OBVIOUS
          <5> QED BY <2>2, <5>1, <5>2
        <4> QED BY <2>3, <4>1
      <3> QED BY <3>1 DEF Pair
    <2> QED BY <2>2, <2>3, <2>4 DEF Maps
  <1> QED BY <1>1, <1>2

LEMMA TlbGone ==
    ASSUME NEW r, NEW q, NEW d, Reflects(r, d), Destroyed(r, q, d)
    PROVE  q.tlb = {}
  <1>1. CASE r.tlb = {}
    BY <1>1 DEF Destroyed
  <1>2. CASE r.tlb # {}
    <2>1. PICK v \in VPages : Maps(r, d, v)
      BY <1>2 DEF Reflects
    <2> QED BY <2>1 DEF Destroyed
  <1> QED BY <1>1, <1>2

LEMMA InitMem ==
    ASSUME NEW r, r = [MemInit EXCEPT !.free = @ \ (1 .. KSTACKPAGE)]
    PROVE  Mem(r, {}, 1 .. KSTACKPAGE, {}) /\ r.err = "ok" /\ r.tlb = {}
  <1>1. PICK S : S = 1 .. KSTACKPAGE
    OBVIOUS
  <1>2. S \in SUBSET Pages
    BY <1>1, Sizes DEF KSTACKPAGE, Pages
  <1>3. /\ r.free = Pages \ S /\ r.ref = [p \in Pages |-> 0] /\ r.dir = [p \in Frames |-> NoDir]
        /\ r.tab = [p \in Pages |-> NoTab] /\ r.data = [p \in Pages |-> "junk"]
        /\ r.tlb = {} /\ r.err = "ok"
        /\ r = [free |-> Pages \ S, ref |-> [p \in Pages |-> 0], dir |-> [p \in Frames |-> NoDir],
                tab |-> [p \in Pages |-> NoTab], data |-> [p \in Pages |-> "junk"],
                tlb |-> {}, err |-> "ok"]
    BY <1>1 DEF MemInit, Frames
  <1>4. r \in Mems
    <2>1. [p \in Pages |-> 0] \in [Pages -> Int] /\ [p \in Pages |-> "junk"] \in [Pages -> Vals]
      BY DEF Vals
    <2>2. /\ [p \in Frames |-> NoDir] \in [Frames -> [Tables -> Frames]]
          /\ [p \in Pages |-> NoTab] \in [Pages -> [Slots -> Ptes]]
      BY NoTypes
    <2>3. "ok" \in Errs /\ Pages \ S \in SUBSET Pages /\ {} \in SUBSET TlbEntries
      BY DEF Errs
    <2> QED BY <1>3, <2>1, <2>2, <2>3 DEF Mems
  <1>5. PICK kd, at, ix : /\ kd = [p \in Pages |-> IF p \in S THEN "stack" ELSE "free"]
                          /\ at = [p \in Pages |-> 0] /\ ix = [p \in Pages |-> 0]
    OBVIOUS
  <1>6. kd \in [Pages -> Kinds] /\ at \in [Pages -> Frames] /\ ix \in [Pages -> Nat]
    BY <1>5, FrameKinds DEF Kinds
  <1>7. \A p \in Pages : kd[p] = IF p \in S THEN "stack" ELSE "free"
    BY <1>5
  <1>8. \A d \in Frames, k \in Tables : r.dir[d][k] = 0
    BY <1>3 DEF NoDir
  <1>9. \A t \in Pages, i \in Slots : r.tab[t][i] = NoPte /\ r.tab[t][i].pg = 0
    <2>1. NoPte.pg = 0
      BY DEF NoPte
    <2>2. \A t \in Pages : r.tab[t] = NoTab
      BY <1>3
    <2>3. \A i \in Slots : NoTab[i] = NoPte
      BY DEF NoTab, Slots
    <2> QED BY <2>1, <2>2, <2>3
  <1>10. \A p \in Pages : r.ref[p] = 0
    BY <1>3
  <1>11. Owned(r, kd, at, ix, {}, S, {})
    BY <1>2, <1>3, <1>6, <1>7, <1>8, <1>9, <1>10 DEF Owned
  <1> QED BY <1>1, <1>3, <1>4, <1>11 DEF Mem

LEMMA InitSound == Init => VmInv
  <1> SUFFICES ASSUME Init PROVE VmInv
    OBVIOUS
  <1>1. PICK o \in Procs : /\ st = [q \in Procs |-> IF q = o THEN "kthread" ELSE "none"]
                           /\ kstack = [q \in Procs |-> IF q = o THEN 1 .. KSTACKPAGE ELSE {}]
    BY DEF Init
  <1>2. /\ mm = [p \in Procs |-> NoMM] /\ nmm = [p \in Procs |-> NoMM]
        /\ todo = [p \in Procs |-> NoWork] /\ cr3 = [p \in Procs |-> Boot]
        /\ current = Idle /\ pgd = Boot /\ kacc = <<>> /\ panic = "no"
        /\ m = [MemInit EXCEPT !.free = @ \ (1 .. KSTACKPAGE)]
    BY DEF Init
  <1>3. Mem(m, {}, 1 .. KSTACKPAGE, {}) /\ m.err = "ok" /\ m.tlb = {}
    BY <1>2, InitMem
  <1>4. 1 .. KSTACKPAGE \in SUBSET Pages /\ Cardinality(1 .. KSTACKPAGE) = KSTACKPAGE
    <2>1. 1 .. KSTACKPAGE \in SUBSET Pages
      BY Sizes DEF KSTACKPAGE, Pages
    <2>2. PICK a \in Int, b \in Int : a = 1 /\ b = KSTACKPAGE /\ ~(a > b) /\ b - a + 1 = KSTACKPAGE
      BY DEF KSTACKPAGE
    <2>3. Cardinality(a .. b) = b - a + 1
      BY <2>2, FS_Interval
    <2> QED BY <2>1, <2>2, <2>3
  <1>5. TypeOK
    <2>1. mm \in [Procs -> Spaces] /\ nmm \in [Procs -> Spaces]
      BY <1>2, NoMMIs
    <2>2. cr3 \in [Procs -> Frames] /\ pgd \in Frames
      BY <1>2, FrameKinds DEF Boot
    <2>3. st \in [Procs -> Statuses]
      BY <1>1 DEF Statuses
    <2>4. kstack \in [Procs -> SUBSET Pages]
      BY <1>1, <1>4
    <2>5. NoWork \in Works
      <3>1. <<>> \in Seq(Segment)
        OBVIOUS
      <3> QED BY <3>1 DEF NoWork, Works
    <2>6. kacc \in Seq(Accesses)
      BY <1>2
    <2> QED BY <1>2, <2>1, <2>2, <2>3, <2>4, <2>5, <2>6 DEF TypeOK
  <1>6. \A p \in Procs : mm[p] = NoMM /\ nmm[p] = NoMM /\ st[p] \in {"kthread", "none"}
                         /\ (st[p] = "none" => kstack[p] = {})
    BY <1>1, <1>2
  <1>7. StatusInv
    BY <1>6 DEF StatusInv
  <1>8. PanicInv
    BY <1>2 DEF PanicInv
  <1>9. \A p \in Procs : Space[p] = NoMM
    BY <1>5, <1>6, SpaceIs
  <1>10. Good(m, Space)
    BY <1>9 DEF Good
  <1>11. World(m, Space, kstack)
    <2>1. Dirs(Space) = {}
      BY <1>9 DEF Dirs
    <2>2. Stacks(kstack) = 1 .. KSTACKPAGE
      <3>1. PICK S : S = 1 .. KSTACKPAGE
        OBVIOUS
      <3>2. \A p \in Procs : kstack[p] = IF p = o THEN S ELSE {}
        BY <1>1, <3>1
      <3>3. \A x : x \in Stacks(kstack) <=> \E p \in Procs : x \in kstack[p]
        BY DEF Stacks
      <3>4. \A x : x \in Stacks(kstack) <=> x \in S
        BY <3>2, <3>3
      <3> QED BY <3>1, <3>4
    <2>3. Apiece(Space, kstack)
      <3>1. PICK S : S = 1 .. KSTACKPAGE
        OBVIOUS
      <3>2. \A p \in Procs : kstack[p] = IF p = o THEN S ELSE {}
        BY <1>1, <3>1
      <3>3. \A p, q \in Procs : p # q => kstack[p] \intersect kstack[q] = {}
        BY <3>2
      <3>4. \A p \in Procs : kstack[p] = {} \/ Cardinality(kstack[p]) = KSTACKPAGE
        BY <1>4, <3>1, <3>2
      <3>5. Space \in [Procs -> Spaces] /\ kstack \in [Procs -> SUBSET Pages]
        BY <1>5, SpaceIs DEF TypeOK
      <3> QED BY <1>9, <3>3, <3>4, <3>5 DEF Apiece
    <2> QED BY <1>3, <1>10, <2>1, <2>2, <2>3 DEF World
  <1>12. Running
    <2>1. LoadInv
      BY <1>6 DEF LoadInv
    <2>2. ~UserRuns
      BY <1>2, Sizes, VmAssumption DEF UserRuns
    <2>3. TlbInv /\ KaccInv
      BY <1>2, <1>3, <2>2 DEF TlbInv, KaccInv
    <2> QED BY <1>3, <1>11, <2>1, <2>3 DEF Running
  <1> QED BY <1>5, <1>7, <1>8, <1>10, <1>12 DEF VmInv

LEMMA Stutter == VmInv /\ UNCHANGED vars => VmInv'
  BY SMTT(30), ZenonT(90) DEF vars, VmInv, TypeOK, StatusInv, PanicInv, Running, LoadInv, TlbInv, KaccInv, UserRuns, Space

-----------------------------------------------------------------------------
(* Each action                                                             *)

LEMMA ProcRun ==
    ASSUME VmInv, NEW q \in Procs \union {Idle}, proc_run(q)
    PROVE  VmInv'
  <1>1. /\ panic = "no" /\ kacc = <<>> /\ current' = q
        /\ \/ q \in Procs /\ st[q] \in {"kthread", "user", "load"}
           \/ q = Idle
        /\ pgd' = (IF q = Idle THEN Boot ELSE cr3[q])
        /\ m' = tlb_invalidate(m)
        /\ UNCHANGED <<mm, cr3, st, kstack, nmm, todo, kacc, calls, panic>>
    BY DEF proc_run
  <1>2. TypeOK /\ StatusInv /\ Running
    BY <1>1 DEF VmInv
  <1>3. PICK r, t, ws : r = m /\ t = m' /\ ws = Space
    OBVIOUS
  <1>4. Space' = Space
    BY <1>1 DEF Space
  <1>5. World(r, ws, kstack) /\ r.err = "ok" /\ r \in Mems
    BY <1>2, <1>3 DEF Running, World, Mem
  <1>6. /\ t \in Mems /\ t.free = r.free /\ t.dir = r.dir /\ t.tab = r.tab /\ t.ref = r.ref
        /\ t.tlb = {} /\ t.err = r.err
    <2>1. t = [r EXCEPT !.tlb = {}]
      BY <1>1, <1>3 DEF tlb_invalidate
    <2> QED BY <1>5, <2>1, TlbFields
  <1>7. World(t, ws, kstack)
    BY <1>5, <1>6, SameTables, WorldSame DEF World
  <1>8. TypeOK'
    BY <1>1, <1>2, FrameKinds DEF TypeOK, Boot
  <1>9. StatusInv'
    BY <1>1, <1>2 DEF StatusInv
  <1>10. TlbInv'
    <2>1. CASE q \in Procs /\ st[q] = "user"
      <3>1. q # Idle
        BY <2>1, VmAssumption
      <3>2. pgd' = mm'[q].pgdir
        BY <1>1, <1>2, <2>1, <3>1 DEF StatusInv
      <3>3. Reflects(m', pgd')
        BY <1>3, <1>6 DEF Reflects
      <3> QED BY <1>1, <2>1, <3>2, <3>3 DEF TlbInv, UserRuns
    <2>2. CASE ~(q \in Procs /\ st[q] = "user")
      BY <1>1, <1>3, <1>6, <2>2 DEF TlbInv, UserRuns
    <2> QED BY <2>1, <2>2
  <1>11. LoadInv' /\ KaccInv'
    BY <1>1, <1>2 DEF Running, LoadInv, KaccInv
  <1>12. World(m', Space', kstack')
    BY <1>1, <1>3, <1>4, <1>7
  <1>13. m'.err = "ok"
    BY <1>3, <1>5, <1>6
  <1> QED BY <1>1, <1>8, <1>9, <1>10, <1>11, <1>12, <1>13 DEF VmInv, PanicInv, Running, World

\* do_exit of a process that runs a user program, with a memory r that has what
\* m has but for the process's own space.
LEMMA DoExit ==
    ASSUME VmInv, InUser, NEW r, World(r, Space, kstack), r.err = "ok", Reflects(r, pgd),
           do_exit(r), UNCHANGED <<cr3, kstack, nmm, todo, current, panic>>
    PROVE  VmInv'
  <1>1. panic = "no" /\ current \in Procs /\ st[current] = "user"
    BY DEF InUser
  <1>2. TypeOK /\ StatusInv /\ Running
    BY <1>1 DEF VmInv
  <1>3. PICK c \in Procs : c = current
    BY <1>1
  <1>4. mm[c] # NoMM /\ pgd = mm[c].pgdir
    BY <1>1, <1>2, <1>3 DEF StatusInv, Running, TlbInv, UserRuns
  <1>5. /\ m' = Destroy(r, mm[c]) /\ pgd' = Boot /\ mm' = [mm EXCEPT ![c] = NoMM]
        /\ st' = [st EXCEPT ![c] = "zombie"] /\ kacc' = <<>>
        /\ UNCHANGED <<cr3, kstack, nmm, todo, current, panic>>
    BY <1>3, <1>4 DEF do_exit
  <1>6. TypeOK'
    BY <1>2, <1>5, NoMMIs, FrameKinds DEF TypeOK, Statuses, Boot
  <1>7. \A p \in Procs : /\ mm'[p] = IF p = c THEN NoMM ELSE mm[p]
                         /\ st'[p] = IF p = c THEN "zombie" ELSE st[p]
    BY <1>2, <1>5 DEF TypeOK
  <1>8. StatusInv'
    BY <1>1, <1>2, <1>3, <1>5, <1>7 DEF StatusInv
  <1>9. PICK ws, ws2, t : ws = Space /\ ws2 = Space' /\ t = m'
    OBVIOUS
  <1>10. ws2 = [ws EXCEPT ![c] = NoMM]
    <2>1. ws \in [Procs -> Spaces] /\ ws2 \in [Procs -> Spaces]
          /\ \A p \in Procs : ws[p] = IF st[p] = "load" THEN nmm[p] ELSE mm[p]
      BY <1>2, <1>6, <1>9 DEF TypeOK, Space
    <2>2. \A p \in Procs : ws2[p] = IF st'[p] = "load" THEN nmm'[p] ELSE mm'[p]
      BY <1>9 DEF Space
    <2>3. \A p \in Procs : ws2[p] = IF p = c THEN NoMM ELSE ws[p]
      BY <1>5, <1>7, <2>1, <2>2
    <2> QED BY <2>1, <2>3, NoMMIs
  <1>11. ws[c] = mm[c]
    BY <1>1, <1>2, <1>3, <1>9, SpaceIs
  <1>12. World(t, ws2, kstack) /\ Destroyed(r, t, mm[c].pgdir)
    <2>1. ws \in [Procs -> Spaces]
      BY <1>2, <1>9, SpaceIs
    <2>2. Drops(r, t, ws, kstack, c, ws2)
      BY <1>4, <1>5, <1>9, <1>10, <1>11, <2>1, NoMMIs DEF Drops, Given
    <2> QED BY <1>11, <2>2, WorldDrop
  <1>13. t.tlb = {} /\ t.err = "ok"
    BY <1>4, <1>12, TlbGone DEF Destroyed
  <1>14. TlbInv' /\ KaccInv'
    BY <1>3, <1>5, <1>7, <1>9, <1>13 DEF TlbInv, UserRuns, KaccInv
  <1>15. LoadInv'
    BY <1>2, <1>5, <1>7 DEF LoadInv, Running
  <1>16. World(m', Space', kstack') /\ m'.err = "ok"
    BY <1>5, <1>9, <1>12, <1>13
  <1> QED BY <1>1, <1>5, <1>6, <1>8, <1>14, <1>15, <1>16 DEF VmInv, PanicInv, Running, World

LEMMA ExitStep == VmInv /\ Exit => VmInv'
  <1> SUFFICES ASSUME VmInv, Exit PROVE VmInv'
    OBVIOUS
  <1>1. InUser /\ do_exit(m) /\ UNCHANGED <<cr3, kstack, nmm, todo, current, panic>>
    BY DEF Exit
  <1>2. Running
    BY <1>1 DEF VmInv, InUser
  <1>3. PICK r : r = m
    OBVIOUS
  <1>4. World(r, Space, kstack) /\ r.err = "ok" /\ Reflects(r, pgd)
    BY <1>1, <1>2, <1>3 DEF Running, TlbInv, UserRuns, InUser
  <1>5. do_exit(r)
    BY <1>1, <1>3
  <1> QED BY <1>1, <1>4, <1>5, DoExit

LEMMA ReapStep ==
    ASSUME VmInv, NEW c \in Procs, Reap(c)
    PROVE  VmInv'
  <1>1. /\ panic = "no" /\ kacc = <<>> /\ st[c] = "zombie" /\ current # c
        /\ current = Idle \/ InUser
        /\ m' = free_pages(m, kstack[c])
        /\ kstack' = [kstack EXCEPT ![c] = {}]
        /\ st' = [st EXCEPT ![c] = "none"]
        /\ UNCHANGED <<mm, cr3, nmm, todo, current, pgd, kacc, panic, calls>>
    BY DEF Reap
  <1>2. TypeOK /\ StatusInv /\ Running
    BY <1>1 DEF VmInv
  <1>3. PICK r, t, ws, ks, ks2, ps :
          r = m /\ t = m' /\ ws = Space /\ ks = kstack /\ ks2 = kstack' /\ ps = ks[c]
    OBVIOUS
  <1>4. \A p \in Procs : st'[p] = IF p = c THEN "none" ELSE st[p]
    BY <1>1, <1>2 DEF TypeOK
  <1>5. TypeOK'
    BY <1>1, <1>2 DEF TypeOK, Statuses
  <1>6. StatusInv'
    <2>1. \A p \in Procs : kstack'[p] = IF p = c THEN {} ELSE kstack[p]
      BY <1>1, <1>2 DEF TypeOK
    <2> QED BY <1>1, <1>2, <1>4, <2>1 DEF StatusInv
  <1>7. Space' = ws
    <2>1. \A p \in Procs : (st'[p] = "load") = (st[p] = "load")
      BY <1>1, <1>4
    <2> QED BY <1>1, <1>3, <2>1 DEF Space
  <1>8. World(r, ws, ks) /\ r.err = "ok"
    BY <1>2, <1>3 DEF Running
  <1>9. Apiece(ws, ks2) /\ Stacks(ks2) = Stacks(ks) \ ps
    <2>1. Stacked(ks, c, {}, ks2)
      BY <1>1, <1>2, <1>3 DEF TypeOK, Stacked
    <2> QED BY <1>3, <1>8, <2>1, StackDrop DEF World
  <1>10. PICK D, K : D = Dirs(ws) /\ K = Stacks(ks)
    OBVIOUS
  <1>11. Mem(r, D, K, {}) /\ ps \subseteq K
    BY <1>3, <1>8, <1>10 DEF World, Stacks
  <1>12. D \intersect K = {}
    <2>1. PICK kd, at, ix : Owned(r, kd, at, ix, D, K, {})
      BY <1>11 DEF Mem
    <2> QED BY <2>1 DEF Owned
  <1>13. Mem(t, D \ ps, K \ ps, {} \ ps) /\ (\A x \in Frames : SameSpace(r, t, x))
         /\ t.tlb = r.tlb /\ t.err = r.err
    <2>1. D \intersect ps = {}
      BY <1>11, <1>12
    <2>2. GivesBack(r, t, D, K, {}, ps)
      BY <1>1, <1>3, <1>11, <2>1 DEF GivesBack
    <2>3. PICK G : G = {}
      OBVIOUS
    <2>4. GivesBack(r, t, D, K, G, ps)
      BY <2>2, <2>3
    <2>5. Mem(t, D \ ps, K \ ps, G \ ps) /\ (\A x \in Frames : SameSpace(r, t, x))
          /\ t.tlb = r.tlb /\ t.err = r.err
      BY <2>4, FreePlain
    <2> QED BY <2>3, <2>5
  <1>14. Mem(t, Dirs(ws), Stacks(ks2), {})
    <2>1. D \ ps = D /\ {} \ ps = {}
      BY <1>11, <1>12
    <2> QED BY <1>9, <1>10, <1>13, <2>1
  <1>15. World(t, ws, ks2)
    <2>1. ASSUME NEW p \in Procs, ws[p] # NoMM
          PROVE  SoundMM(ws[p]) /\ Covered(t, ws[p].pgdir, ws[p].vmas)
      <3>1. SoundMM(ws[p]) /\ Covered(r, ws[p].pgdir, ws[p].vmas) /\ ws[p].pgdir \in Frames
        BY <1>8, <2>1, WorldFacts
      <3> QED BY <1>13, <3>1, CoveredSame
    <2> QED BY <1>9, <1>14, <2>1 DEF World, Good
  <1>16. TlbInv'
    <2>1. CASE UserRuns
      <3>1. Reflects(r, pgd) /\ pgd = mm[current].pgdir /\ pgd \in Frames
        BY <1>2, <1>3, <2>1 DEF Running, TlbInv, TypeOK
      <3>2. Reflects(t, pgd)
        BY <1>13, <3>1, TlbKept DEF SameSpace, SamePtes
      <3> QED BY <1>1, <1>3, <1>4, <2>1, <3>1, <3>2 DEF TlbInv, UserRuns
    <2>2. CASE ~UserRuns
      BY <1>1, <1>2, <1>3, <1>4, <1>13, <2>2 DEF Running, TlbInv, UserRuns
    <2> QED BY <2>1, <2>2
  <1>17. LoadInv' /\ KaccInv'
    BY <1>1, <1>2, <1>4 DEF Running, LoadInv, KaccInv
  <1>18. World(m', Space', kstack') /\ m'.err = "ok"
    BY <1>3, <1>7, <1>8, <1>13, <1>15
  <1> QED BY <1>1, <1>5, <1>6, <1>16, <1>17, <1>18 DEF VmInv, PanicInv, Running, World


\* What holds while the current process loads a program.
LEMMA LoadingFacts ==
    ASSUME VmInv, Loading
    PROVE  /\ panic = "no" /\ current \in Procs /\ st[current] = "load" /\ kacc = <<>>
           /\ m.tlb = {} /\ TypeOK /\ StatusInv /\ Running /\ Space[current] = nmm[current]
           /\ mm[current] = NoMM /\ nmm[current] # NoMM /\ ~UserRuns
           /\ TodoOk(todo[current], nmm[current])
  <1>1. panic = "no" /\ current \in Procs /\ st[current] = "load"
    BY DEF Loading
  <1>2. TypeOK /\ StatusInv /\ Running
    BY <1>1 DEF VmInv
  <1>3. ~UserRuns
    BY <1>1 DEF UserRuns
  <1>4. kacc = <<>> /\ m.tlb = {}
    BY <1>2, <1>3 DEF Running, KaccInv, TlbInv
  <1>5. mm[current] = NoMM /\ nmm[current] # NoMM
    BY <1>1, <1>2 DEF StatusInv
  <1>6. Space[current] = nmm[current]
    BY <1>1, <1>2, SpaceIs
  <1>7. TodoOk(todo[current], nmm[current])
    BY <1>1, <1>2 DEF Running, LoadInv
  <1> QED BY <1>1, <1>2, <1>3, <1>4, <1>5, <1>6, <1>7

\* A load that fails, with a memory r that has what m has.
LEMMA AbortStep ==
    ASSUME VmInv, Loading, NEW r, World(r, Space, kstack), r.tlb = {}, Abort(r, nmm[current]),
           UNCHANGED <<mm, cr3, kstack, current, pgd, kacc, panic>>
    PROVE  VmInv'
  <1>1. /\ panic = "no" /\ current \in Procs /\ st[current] = "load" /\ kacc = <<>>
        /\ TypeOK /\ StatusInv /\ Running /\ Space[current] = nmm[current]
        /\ mm[current] = NoMM /\ nmm[current] # NoMM
    BY LoadingFacts
  <1>3. PICK c \in Procs : c = current
    BY <1>1
  <1>4. PICK u, a : a = nmm[c] /\ u = Destroy(r, a)
    OBVIOUS
  <1>5. /\ m' = Ok(u) /\ nmm' = [nmm EXCEPT ![c] = NoMM] /\ todo' = [todo EXCEPT ![c] = NoWork]
        /\ st' = [st EXCEPT ![c] = "zombie"]
        /\ UNCHANGED <<mm, cr3, kstack, current, pgd, kacc, panic>>
    BY <1>3, <1>4 DEF Abort
  <1>6. TypeOK'
    <2>1. NoWork \in Works
      <3>1. <<>> \in Seq(Segment)
        OBVIOUS
      <3> QED BY <3>1 DEF NoWork, Works
    <2> QED BY <1>1, <1>5, <2>1, NoMMIs DEF TypeOK, Statuses
  <1>7. \A p \in Procs : /\ nmm'[p] = IF p = c THEN NoMM ELSE nmm[p]
                         /\ st'[p] = IF p = c THEN "zombie" ELSE st[p]
                         /\ todo'[p] = IF p = c THEN NoWork ELSE todo[p]
    BY <1>1, <1>5 DEF TypeOK
  <1>8. StatusInv'
    BY <1>1, <1>3, <1>5, <1>7 DEF StatusInv
  <1>9. PICK ws, ws2, t : ws = Space /\ ws2 = Space' /\ t = m'
    OBVIOUS
  <1>10. ws2 = [ws EXCEPT ![c] = NoMM]
    <2>1. ws \in [Procs -> Spaces] /\ ws2 \in [Procs -> Spaces]
          /\ \A p \in Procs : ws[p] = IF st[p] = "load" THEN nmm[p] ELSE mm[p]
      BY <1>1, <1>6, <1>9 DEF TypeOK, Space
    <2>2. \A p \in Procs : ws2[p] = IF st'[p] = "load" THEN nmm'[p] ELSE mm'[p]
      BY <1>9 DEF Space
    <2>3. \A p \in Procs : ws2[p] = IF p = c THEN NoMM ELSE ws[p]
      BY <1>1, <1>3, <1>5, <1>7, <2>1, <2>2
    <2> QED BY <2>1, <2>3, NoMMIs
  <1>11. ws[c] = a /\ a # NoMM
    BY <1>1, <1>3, <1>4, <1>9
  <1>12. World(u, ws2, kstack) /\ Destroyed(r, u, a.pgdir)
    <2>1. ws \in [Procs -> Spaces]
      BY <1>1, <1>9, SpaceIs
    <2>2. Drops(r, u, ws, kstack, c, ws2)
      BY <1>4, <1>9, <1>10, <1>11, <2>1, NoMMIs DEF Drops, Given
    <2> QED BY <1>11, <2>2, WorldDrop
  <1>13. World(t, ws2, kstack) /\ t.err = "ok" /\ t.tlb = {}
    <2>1. u \in Mems
      BY <1>12 DEF World, Mem
    <2>2. t = [u EXCEPT !.err = "ok"] /\ "ok" \in Errs
      BY <1>5, <1>9 DEF Ok, Errs
    <2>3. /\ t \in Mems /\ t.free = u.free /\ t.dir = u.dir /\ t.tab = u.tab /\ t.ref = u.ref
          /\ t.tlb = u.tlb /\ t.err = "ok"
      BY <2>1, <2>2, ErrFields
    <2>4. u.tlb = {}
      BY <1>12 DEF Destroyed
    <2> QED BY <1>12, <2>3, <2>4, SameTables, WorldSame DEF World
  <1>14. TlbInv' /\ KaccInv'
    BY <1>1, <1>3, <1>5, <1>7, <1>9, <1>13 DEF TlbInv, UserRuns, KaccInv
  <1>15. LoadInv'
    BY <1>1, <1>5, <1>7 DEF LoadInv, Running
  <1>16. World(m', Space', kstack') /\ m'.err = "ok"
    BY <1>5, <1>9, <1>13
  <1> QED BY <1>1, <1>5, <1>6, <1>8, <1>14, <1>15, <1>16 DEF VmInv, PanicInv, Running, World

LEMMA LoadFailsStep == VmInv /\ LoadFails => VmInv'
  <1> SUFFICES ASSUME VmInv, LoadFails PROVE VmInv'
    OBVIOUS
  <1>1. /\ Loading /\ Abort(m, nmm[current])
        /\ UNCHANGED <<mm, cr3, kstack, current, pgd, kacc, panic>>
    BY DEF LoadFails
  <1>2. PICK r : r = m
    OBVIOUS
  <1>3. World(r, Space, kstack) /\ r.tlb = {}
    BY <1>1, <1>2, LoadingFacts DEF Running
  <1>4. Abort(r, nmm[current])
    BY <1>1, <1>2
  <1> QED BY <1>1, <1>3, <1>4, AbortStep

LEMMA HeadWork ==
    ASSUME TypeOK, NEW c \in Procs, todo[c].segs # <<>>
    PROVE  /\ Head(todo[c].segs) \in Segment /\ Head(todo[c].segs).s \in Nat
           /\ Head(todo[c].segs).e \in Nat /\ Head(todo[c].segs).f \in Nat
           /\ Head(todo[c].segs).flags \in SUBSET Flags
           /\ Tail(todo[c].segs) \in Seq(Segment)
  <1>1. todo[c] \in Works
    BY DEF TypeOK
  <1>2. todo[c].segs \in Seq(Segment)
    BY <1>1 DEF Works
  <1>3. PICK s \in Seq(Segment) : s = todo[c].segs /\ s # <<>>
    BY <1>2
  <1>4. Head(s) \in Segment /\ Tail(s) \in Seq(Segment)
    BY <1>3
  <1>5. PICK g \in Segment : g = Head(s)
    BY <1>4
  <1>6. g.s \in Nat /\ g.e \in Nat /\ g.f \in Nat /\ g.flags \in SUBSET Flags
    BY DEF Segment, Flags
  <1> QED BY <1>3, <1>4, <1>5, <1>6

\* The process c that loads a program has space x instead of the one it had, or
\* another memory, with the same directory.
LEMMA LoadChange ==
    ASSUME VmInv, Loading, NEW c \in Procs, c = current, NEW x, NEW q,
           x # NoMM, x.pgdir = nmm[c].pgdir, SoundMM(x), Covered(q, x.pgdir, x.vmas),
           Mem(q, Dirs(Space), Stacks(kstack), {}), Outside(m, q, x.pgdir), q.err = "ok",
           q.tlb = {}, m' = q, nmm' = [nmm EXCEPT ![c] = x],
           NEW w \in Works, todo' = [todo EXCEPT ![c] = w], TodoOk(w, x),
           UNCHANGED <<mm, cr3, st, kstack, current, pgd, kacc, panic>>
    PROVE  VmInv'
  <1>1. /\ panic = "no" /\ c \in Procs /\ st[c] = "load" /\ kacc = <<>>
        /\ TypeOK /\ StatusInv /\ Running /\ Space[c] = nmm[c]
        /\ mm[c] = NoMM /\ nmm[c] # NoMM /\ ~UserRuns
    BY LoadingFacts
  <1>2. x \in Spaces
    BY DEF SoundMM
  <1>3. TypeOK'
    BY <1>1, <1>2 DEF TypeOK
  <1>4. \A p \in Procs : nmm'[p] = (IF p = c THEN x ELSE nmm[p])
                         /\ todo'[p] = (IF p = c THEN w ELSE todo[p])
    BY <1>1 DEF TypeOK
  <1>5. StatusInv'
    BY <1>1, <1>4 DEF StatusInv
  <1>6. LoadInv'
    BY <1>1, <1>4 DEF Running, LoadInv
  <1>7. PICK r, ws, ws2 : r = m /\ ws = Space /\ ws2 = Space'
    OBVIOUS
  <1>8. ws2 = [ws EXCEPT ![c] = x] /\ ws \in [Procs -> Spaces]
    <2>1. ws \in [Procs -> Spaces] /\ ws2 \in [Procs -> Spaces]
          /\ \A p \in Procs : ws[p] = IF st[p] = "load" THEN nmm[p] ELSE mm[p]
      BY <1>1, <1>3, <1>7 DEF TypeOK, Space
    <2>2. \A p \in Procs : ws2[p] = IF st'[p] = "load" THEN nmm'[p] ELSE mm'[p]
      BY <1>7 DEF Space
    <2>3. \A p \in Procs : ws2[p] = IF p = c THEN x ELSE ws[p]
      BY <1>1, <1>4, <2>1, <2>2
    <2> QED BY <2>1, <2>3, <1>2
  <1>9. World(q, ws2, kstack)
    <2>1. Changes(r, q, ws, kstack, c, x, ws2)
      BY <1>1, <1>2, <1>7, <1>8 DEF Changes, Running, Given
    <2> QED BY <2>1, WorldChange
  <1>10. TlbInv' /\ KaccInv'
    BY <1>1 DEF TlbInv, KaccInv, UserRuns
  <1> QED BY <1>1, <1>3, <1>5, <1>6, <1>7, <1>9, <1>10 DEF VmInv, PanicInv, Running, World

LEMMA LoadSegmentStep ==
    ASSUME VmInv, NEW mem, LoadSegment(mem)
    PROVE  VmInv'
  <1>1. PICK c : c = current
    OBVIOUS
  <1>2. PICK w, g : w = todo[c] /\ g = Head(w.segs)
    OBVIOUS
  <1>3. PICK a : a = mm_map(nmm[c], g.s, g.e, g.flags, mem)
    OBVIOUS
  <1>4. /\ Loading /\ w.segs # <<>>
        /\ \/ Abort(m, nmm[c])
           \/ /\ a # NoMM
              /\ nmm' = [nmm EXCEPT ![c] = a]
              /\ todo' = [todo EXCEPT ![c] = [segs |-> w.segs, mapped |-> TRUE, at |-> g.s]]
              /\ UNCHANGED <<m, st>>
        /\ UNCHANGED <<mm, cr3, kstack, current, pgd, kacc, panic>>
    BY <1>1, <1>2, <1>3 DEF LoadSegment
  <1>5. /\ panic = "no" /\ c \in Procs /\ st[c] = "load" /\ m.tlb = {}
        /\ TypeOK /\ StatusInv /\ Running /\ Space[c] = nmm[c] /\ nmm[c] # NoMM
    BY <1>1, <1>4, LoadingFacts
  <1>6. PICK r : r = m
    OBVIOUS
  <1>7. World(r, Space, kstack) /\ r.err = "ok"
    BY <1>5, <1>6 DEF Running
  <1>8. CASE Abort(m, nmm[c])
    <2>1. Abort(r, nmm[current])
      BY <1>1, <1>6, <1>8
    <2> QED BY <1>4, <1>5, <1>6, <1>7, <2>1, AbortStep
  <1>9. CASE /\ a # NoMM
             /\ nmm' = [nmm EXCEPT ![c] = a]
             /\ todo' = [todo EXCEPT ![c] = [segs |-> w.segs, mapped |-> TRUE, at |-> g.s]]
             /\ UNCHANGED <<m, st>>
    <2>1. g.s \in Nat /\ g.e \in Nat /\ g.flags \in SUBSET Flags
      BY <1>2, <1>4, <1>5, HeadWork
    <2>2. PICK b, y : b = nmm[c] /\ y = vma_create(g.s, g.e, g.flags)
      OBVIOUS
    <2>3. SoundMM(b) /\ Covered(r, b.pgdir, b.vmas)
      BY <1>5, <1>7, <2>2, WorldFacts
    <2>4. Mapped(b, a, y)
      BY <1>3, <1>9, <2>1, <2>2, <2>3, MmMap
    <2>5. SoundMM(a) /\ a.pgdir = b.pgdir /\ Covered(r, a.pgdir, a.vmas) /\ Listed(a.vmas, y)
      BY <2>3, <2>4, CoveredMore DEF Mapped, Adds
    <2>6. PICK w2 : w2 = [segs |-> w.segs, mapped |-> TRUE, at |-> g.s]
      OBVIOUS
    <2>7. w2 \in Works
      BY <1>2, <1>5, <2>1, <2>6 DEF TypeOK, Works
    <2>8. w2.segs = w.segs /\ w2.mapped = TRUE /\ w2.at = g.s
      BY <2>6
    <2>9. g.s < g.e
      <3>1. y.s < y.e /\ y.s = g.s /\ y.e = g.e
        BY <2>2, <2>4 DEF Mapped, vma_create
      <3> QED BY <3>1
    <2>10. TodoOk(w2, a)
      BY <1>2, <1>4, <2>1, <2>2, <2>5, <2>8, <2>9 DEF TodoOk
    <2>11. Mem(r, Dirs(Space), Stacks(kstack), {}) /\ Outside(m, r, a.pgdir)
      BY <1>6, <1>7, SpaceReflexive DEF World, Outside
    <2>12. todo' = [todo EXCEPT ![c] = w2] /\ m' = r /\ nmm' = [nmm EXCEPT ![c] = a]
      BY <1>6, <1>9, <2>6
    <2>13. r.tlb = {} /\ a.pgdir = nmm[c].pgdir /\ a # NoMM /\ UNCHANGED <<mm, cr3, st, kstack, current, pgd, kacc, panic>>
      BY <1>4, <1>5, <1>6, <1>9, <2>2, <2>5
    <2> QED BY <1>1, <1>4, <1>5, <1>7, <2>5, <2>7, <2>10, <2>11, <2>12, <2>13, LoadChange
  <1> QED BY <1>4, <1>8, <1>9

LEMMA FilledOk ==
    ASSUME NEW w \in Works, NEW a, TodoOk(w, a), w.mapped, NEW g, g = Head(w.segs),
           g.e \in Nat, Tail(w.segs) \in Seq(Segment), NEW y, y = Filled(w)
    PROVE  y \in Works /\ TodoOk(y, a)
  <1>1. /\ w.segs # <<>> /\ g.s <= w.at /\ w.at < g.e /\ w.segs \in Seq(Segment)
        /\ w.at \in Nat /\ w.mapped \in BOOLEAN
        /\ Listed(a.vmas, vma_create(g.s, g.e, g.flags))
    BY DEF TodoOk, Works
  <1>2. g.s \in Nat
    <2>1. g \in Segment
      BY <1>1
    <2> QED BY <2>1 DEF Segment
  <1>3. CASE w.at + 1 < g.e
    <2>1. y = [w EXCEPT !.at = @ + 1]
      BY <1>3 DEF Filled
    <2>2. y.segs = w.segs /\ y.at = w.at + 1 /\ y \in Works
      <3>1. PICK n \in Nat : n = w.at + 1
        BY <1>1
      <3>2. y = [w EXCEPT !.at = n]
        BY <2>1, <3>1
      <3> QED BY <1>1, <3>1, <3>2 DEF Works
    <2>3. y.segs # <<>> /\ Head(y.segs) = g
      BY <1>1, <2>2
    <2> QED BY <1>1, <1>2, <1>3, <2>2, <2>3 DEF TodoOk
  <1>4. CASE ~(w.at + 1 < g.e)
    <2>1. y = [NoWork EXCEPT !.segs = Tail(w.segs)]
      BY <1>4 DEF Filled
    <2>2. y = [segs |-> Tail(w.segs), mapped |-> FALSE, at |-> 0]
      BY <2>1 DEF NoWork
    <2>3. y \in Works /\ ~y.mapped
      BY <2>2 DEF Works
    <2> QED BY <2>3 DEF TodoOk
  <1> QED BY <1>3, <1>4

LEMMA LoadPageStep == VmInv /\ LoadPage => VmInv'
  <1> SUFFICES ASSUME VmInv, LoadPage PROVE VmInv'
    OBVIOUS
  <1>1. PICK c : c = current
    OBVIOUS
  <1>2. PICK w, g, a : w = todo[c] /\ g = Head(w.segs) /\ a = nmm[c]
    OBVIOUS
  <1>3. PICK wr, dat : wr = ("W" \in g.flags) /\ dat = (IF w.at < g.f THEN "img" ELSE "zero")
    OBVIOUS
  <1>4. PICK r, q : r = m /\ q = pgdir_alloc_page(r, a.pgdir, w.at, wr, dat)
    OBVIOUS
  <1>5. /\ Loading /\ w.mapped
        /\ \/ q.err # "ok" /\ Abort(q, a)
           \/ /\ q.err = "ok" /\ m' = q
              /\ todo' = [todo EXCEPT ![c] = Filled(w)]
              /\ UNCHANGED <<nmm, st>>
        /\ UNCHANGED <<mm, cr3, kstack, current, pgd, kacc, panic>>
    BY <1>1, <1>2, <1>3, <1>4 DEF LoadPage
  <1>6. /\ panic = "no" /\ c \in Procs /\ st[c] = "load" /\ m.tlb = {}
        /\ TypeOK /\ StatusInv /\ Running /\ Space[c] = a /\ a # NoMM /\ TodoOk(w, a)
    BY <1>1, <1>2, <1>5, LoadingFacts
  <1>7. World(r, Space, kstack) /\ r.err = "ok" /\ r.tlb = {}
    BY <1>4, <1>6 DEF Running
  <1>8. SoundMM(a) /\ Covered(r, a.pgdir, a.vmas) /\ InBounds(a.vmas) /\ a.pgdir \in Dirs(Space)
    BY <1>6, <1>7, WorldFacts
  <1>9. /\ w.segs # <<>> /\ g.s <= w.at /\ w.at < g.e
        /\ Listed(a.vmas, vma_create(g.s, g.e, g.flags))
    BY <1>2, <1>5, <1>6 DEF TodoOk
  <1>10. g.s \in Nat /\ g.e \in Nat /\ Tail(w.segs) \in Seq(Segment)
    BY <1>2, <1>6, <1>9, HeadWork
  <1>11. w \in Works /\ w.at \in Nat
    BY <1>2, <1>6 DEF TypeOK, Works
  <1>12. PICK i \in 1 .. Len(a.vmas) : a.vmas[i] = vma_create(g.s, g.e, g.flags)
    BY <1>9 DEF Listed
  <1>13. a.vmas[i].s = g.s /\ a.vmas[i].e = g.e /\ a.vmas[i].flags = g.flags /\ InVma(a.vmas[i], w.at)
    BY <1>9, <1>12 DEF vma_create, InVma
  <1>14. w.at \in VPages
    <2>1. g.e <= Top
      BY <1>8, <1>12, <1>13, AreaFacts
    <2> QED BY <1>9, <1>10, <1>11, <2>1, Sizes DEF VPages
  <1>15. PICK D, K : D = Dirs(Space) /\ K = Stacks(kstack) /\ Mem(r, D, K, {})
    BY <1>7 DEF World
  <1>16. wr \in BOOLEAN /\ dat \in Vals
    BY <1>3 DEF Vals
  <1>17. /\ Mem(q, D, K, {}) /\ Outside(r, q, a.pgdir)
         /\ \/ q.err = "ok" /\ q.tlb = {} /\ \E e : e.w = wr /\ AddsPte(r, q, a.pgdir, w.at, e)
            \/ /\ q.err = "nomem" /\ q.tlb = r.tlb /\ SamePtes(r, q, a.pgdir)
               /\ q.dir[a.pgdir] = r.dir[a.pgdir]
    <2>1. PICK G : G = {}
      OBVIOUS
    <2>2. Mem(r, D, K, G) /\ a.pgdir \in D
      BY <1>8, <1>15, <2>1
    <2>3. /\ Mem(q, D, K, G) /\ Outside(r, q, a.pgdir)
          /\ \/ q.err = "ok" /\ q.tlb = {} /\ \E e : e.w = wr /\ AddsPte(r, q, a.pgdir, w.at, e)
             \/ /\ q.err = "nomem" /\ q.tlb = r.tlb /\ SamePtes(r, q, a.pgdir)
                /\ q.dir[a.pgdir] = r.dir[a.pgdir]
      BY <1>4, <1>7, <1>14, <1>16, <2>2, AllocPage
    <2> QED BY <2>1, <2>3
  <1>18. CASE q.err # "ok" /\ Abort(q, a)
    <2>1. q.tlb = {} /\ SamePtes(r, q, a.pgdir) /\ q.dir[a.pgdir] = r.dir[a.pgdir]
      BY <1>7, <1>17, <1>18
    <2>2. \A x \in Frames : SameSpace(r, q, x)
      BY <1>17, <2>1 DEF Outside, SamePtes, SameSpace
    <2>3. World(q, Space, kstack)
      BY <1>7, <1>15, <1>17, <2>2, WorldSame
    <2>4. Abort(q, nmm[current])
      BY <1>1, <1>2, <1>18
    <2> QED BY <1>5, <2>1, <2>3, <2>4, AbortStep
  <1>19. CASE /\ q.err = "ok" /\ m' = q
              /\ todo' = [todo EXCEPT ![c] = Filled(w)]
              /\ UNCHANGED <<nmm, st>>
    <2>1. q.tlb = {} /\ \E e : e.w = wr /\ AddsPte(r, q, a.pgdir, w.at, e)
      BY <1>17, <1>19
    <2>2. PICK e : e.w = wr /\ AddsPte(r, q, a.pgdir, w.at, e)
      BY <2>1
    <2>3. e.w <=> "W" \in a.vmas[i].flags
      BY <1>3, <1>13, <2>2
    <2>4. Covered(q, a.pgdir, a.vmas)
      BY <1>8, <1>13, <1>14, <2>2, <2>3, CoveredAdd
    <2>5. PICK y : y = Filled(w)
      OBVIOUS
    <2>6. y \in Works /\ TodoOk(y, a)
      BY <1>2, <1>5, <1>6, <1>10, <1>11, <2>5, FilledOk
    <2>7. nmm' = [nmm EXCEPT ![c] = a]
      BY <1>2, <1>6, <1>19 DEF TypeOK
    <2>8. todo' = [todo EXCEPT ![c] = y] /\ m' = q /\ q.err = "ok" /\ a.pgdir = nmm[c].pgdir
      BY <1>2, <1>19, <2>5
    <2>9. Mem(q, Dirs(Space), Stacks(kstack), {}) /\ Outside(m, q, a.pgdir)
      BY <1>4, <1>15, <1>17
    <2>10. UNCHANGED <<mm, cr3, st, kstack, current, pgd, kacc, panic>>
      BY <1>5, <1>19
    <2> QED BY <1>1, <1>5, <1>6, <1>8, <2>1, <2>4, <2>6, <2>7, <2>8, <2>9, <2>10, LoadChange
  <1> QED BY <1>5, <1>18, <1>19

LEMMA LoadDoneStep ==
    ASSUME VmInv, NEW mem, LoadDone(mem)
    PROVE  VmInv'
  <1>1. PICK c : c = current
    OBVIOUS
  <1>2. PICK b, a, fl : /\ b = nmm[c] /\ fl = {"R", "W", "STACK"}
                        /\ a = mm_map(b, UStack, Top, fl, mem)
    OBVIOUS
  <1>3. /\ Loading
        /\ \/ Abort(m, b) /\ UNCHANGED <<mm, cr3, pgd, kacc>>
           \/ /\ a # NoMM
              /\ mm' = [mm EXCEPT ![c] = a]
              /\ cr3' = [cr3 EXCEPT ![c] = a.pgdir]
              /\ pgd' = a.pgdir
              /\ kacc' = <<[v |-> Top - 1, w |-> TRUE], [v |-> Top - 2, w |-> TRUE]>>
              /\ nmm' = [nmm EXCEPT ![c] = NoMM]
              /\ st' = [st EXCEPT ![c] = "user"]
              /\ UNCHANGED <<m, todo>>
        /\ UNCHANGED <<kstack, current, panic>>
    BY <1>1, <1>2 DEF LoadDone
  <1>4. /\ panic = "no" /\ c \in Procs /\ st[c] = "load" /\ m.tlb = {}
        /\ TypeOK /\ StatusInv /\ Running /\ Space[c] = b /\ b # NoMM
    BY <1>1, <1>2, <1>3, LoadingFacts
  <1>5. PICK r : r = m
    OBVIOUS
  <1>6. World(r, Space, kstack) /\ r.err = "ok" /\ r.tlb = {}
    BY <1>4, <1>5 DEF Running
  <1>7. CASE Abort(m, b) /\ UNCHANGED <<mm, cr3, pgd, kacc>>
    <2>1. Abort(r, nmm[current])
      BY <1>1, <1>2, <1>5, <1>7
    <2> QED BY <1>3, <1>6, <1>7, <2>1, AbortStep
  <1>8. CASE /\ a # NoMM
             /\ mm' = [mm EXCEPT ![c] = a]
             /\ cr3' = [cr3 EXCEPT ![c] = a.pgdir]
             /\ pgd' = a.pgdir
             /\ kacc' = <<[v |-> Top - 1, w |-> TRUE], [v |-> Top - 2, w |-> TRUE]>>
             /\ nmm' = [nmm EXCEPT ![c] = NoMM]
             /\ st' = [st EXCEPT ![c] = "user"]
             /\ UNCHANGED <<m, todo>>
    <2>1. PICK y : y = vma_create(UStack, Top, fl)
      OBVIOUS
    <2>2. SoundMM(b) /\ Covered(r, b.pgdir, b.vmas)
      BY <1>4, <1>6, WorldFacts
    <2>3. UStack \in Nat /\ Top \in Nat /\ UStack + 2 <= Top
      BY VmAssumption, Sizes
    <2>4. Mapped(b, a, y)
      <3>1. fl \in SUBSET Flags
        BY <1>2 DEF Flags
      <3> QED BY <1>2, <1>8, <2>1, <2>2, <2>3, <3>1, MmMap
    <2>5. SoundMM(a) /\ a.pgdir = b.pgdir /\ Covered(r, a.pgdir, a.vmas) /\ Listed(a.vmas, y)
      BY <2>2, <2>4, CoveredMore DEF Mapped, Adds
    <2>6. a \in Spaces /\ a.pgdir \in Frames
      BY <2>5, SpaceFields DEF SoundMM
    <2>7. Top - 1 \in VPages /\ Top - 2 \in VPages
      BY <2>3 DEF VPages
    <2>8. kacc' \in Seq(Accesses)
      <3>1. [v |-> Top - 1, w |-> TRUE] \in Accesses /\ [v |-> Top - 2, w |-> TRUE] \in Accesses
        BY <2>7 DEF Accesses
      <3> QED BY <1>8, <3>1
    <2>9. TypeOK'
      BY <1>3, <1>4, <1>8, <2>6, <2>8, NoMMIs DEF TypeOK, Statuses
    <2>10. \A p \in Procs : /\ mm'[p] = (IF p = c THEN a ELSE mm[p])
                            /\ cr3'[p] = (IF p = c THEN a.pgdir ELSE cr3[p])
                            /\ nmm'[p] = (IF p = c THEN NoMM ELSE nmm[p])
                            /\ st'[p] = (IF p = c THEN "user" ELSE st[p])
      BY <1>4, <1>8 DEF TypeOK
    <2>11. StatusInv'
      BY <1>3, <1>4, <1>8, <2>10 DEF StatusInv
    <2>12. LoadInv'
      BY <1>4, <1>8, <2>10 DEF Running, LoadInv
    <2>13. PICK ws, ws2 : ws = Space /\ ws2 = Space'
      OBVIOUS
    <2>14. ws2 = [ws EXCEPT ![c] = a] /\ ws \in [Procs -> Spaces]
      <3>1. ws \in [Procs -> Spaces] /\ ws2 \in [Procs -> Spaces]
            /\ \A p \in Procs : ws[p] = IF st[p] = "load" THEN nmm[p] ELSE mm[p]
        BY <1>4, <2>9, <2>13 DEF TypeOK, Space
      <3>2. \A p \in Procs : ws2[p] = IF st'[p] = "load" THEN nmm'[p] ELSE mm'[p]
        BY <2>13 DEF Space
      <3>3. \A p \in Procs : ws2[p] = IF p = c THEN a ELSE ws[p]
        BY <2>10, <3>1, <3>2
      <3> QED BY <3>1, <3>3, <2>6
    <2>15. World(r, ws2, kstack)
      <3>1. Outside(r, r, a.pgdir)
        BY SpaceReflexive DEF Outside
      <3>2. Mem(r, Dirs(ws), Stacks(kstack), {}) /\ World(r, ws, kstack) /\ ws[c] = b
        BY <1>4, <1>6, <2>13 DEF World
      <3>3. Given(ws, c, a, ws2)
        BY <1>4, <2>6, <2>14 DEF Given
      <3>4. Changes(r, r, ws, kstack, c, a, ws2)
        BY <1>4, <1>8, <2>5, <3>1, <3>2, <3>3 DEF Changes
      <3> QED BY <3>4, WorldChange
    <2>16. UserRuns' /\ mm'[current'] = a
      BY <1>1, <1>3, <1>4, <2>10 DEF UserRuns
    <2>17. TlbInv'
      <3>1. Reflects(m', pgd')
        BY <1>5, <1>6, <1>8 DEF Reflects
      <3> QED BY <1>8, <2>16, <3>1 DEF TlbInv
    <2>18. KaccInv'
      <3>1. PICK i \in 1 .. Len(a.vmas) : a.vmas[i] = y
        BY <2>5 DEF Listed
      <3>2. InVma(a.vmas[i], Top - 1) /\ InVma(a.vmas[i], Top - 2) /\ "W" \in a.vmas[i].flags
        BY <1>2, <2>1, <2>3, <3>1 DEF vma_create, InVma
      <3>3. Allows(a.vmas, Top - 1, TRUE) /\ Allows(a.vmas, Top - 2, TRUE)
        BY <3>2 DEF Allows
      <3>4. Len(kacc') = 2 /\ kacc'[1].v = Top - 1 /\ kacc'[2].v = Top - 2 /\ kacc'[1].w = TRUE /\ kacc'[2].w = TRUE
        BY <1>8
      <3>5. \A j \in 1 .. Len(kacc') : Allows(a.vmas, kacc'[j].v, kacc'[j].w)
        <4>1. ASSUME NEW j \in 1 .. Len(kacc') PROVE j = 1 \/ j = 2
          BY <3>4
        <4> QED BY <3>3, <3>4, <4>1
      <3> QED BY <2>16, <3>5 DEF KaccInv
    <2>19. World(m', Space', kstack') /\ m'.err = "ok"
      BY <1>3, <1>5, <1>6, <1>8, <2>13, <2>15
    <2> QED BY <1>3, <1>4, <1>8, <2>9, <2>11, <2>12, <2>16, <2>17, <2>18, <2>19
            DEF VmInv, PanicInv, Running, World
  <1> QED BY <1>3, <1>7, <1>8

-----------------------------------------------------------------------------
(* User programs and what touches their memory                             *)

LEMMA UserFacts ==
    ASSUME VmInv, panic = "no", UserRuns
    PROVE  /\ current \in Procs /\ st[current] = "user" /\ TypeOK /\ StatusInv /\ Running
           /\ mm[current] # NoMM /\ nmm[current] = NoMM /\ Space[current] = mm[current]
           /\ pgd = mm[current].pgdir /\ Reflects(m, pgd) /\ World(m, Space, kstack) /\ m.err = "ok"
           /\ SoundMM(mm[current]) /\ Covered(m, pgd, mm[current].vmas) /\ InBounds(mm[current].vmas)
           /\ Sorted(mm[current].vmas) /\ pgd \in Dirs(Space) /\ pgd \in Frames
  <1>1. current \in Procs /\ st[current] = "user"
    BY DEF UserRuns
  <1>2. TypeOK /\ StatusInv /\ Running
    BY DEF VmInv
  <1>3. mm[current] # NoMM /\ nmm[current] = NoMM
    BY <1>1, <1>2 DEF StatusInv
  <1>4. Space[current] = mm[current]
    BY <1>1, <1>2, SpaceIs
  <1>5. pgd = mm[current].pgdir /\ Reflects(m, pgd) /\ World(m, Space, kstack) /\ m.err = "ok"
    BY <1>2 DEF Running, TlbInv
  <1>6. PICK r, ws : r = m /\ ws = Space
    OBVIOUS
  <1>7. PICK c \in Procs : c = current
    BY <1>1
  <1>8. World(r, ws, kstack) /\ ws[c] # NoMM /\ ws[c] = mm[c]
    BY <1>3, <1>4, <1>5, <1>6, <1>7
  <1>9. /\ ws[c] \in Spaces /\ SoundMM(ws[c]) /\ Covered(r, ws[c].pgdir, ws[c].vmas)
        /\ ws[c].pgdir \in Dirs(ws) /\ ws[c].pgdir \in Frames
        /\ InBounds(ws[c].vmas) /\ Sorted(ws[c].vmas)
    BY <1>8, WorldFacts
  <1> QED BY <1>1, <1>2, <1>3, <1>4, <1>5, <1>6, <1>7, <1>8, <1>9

\* The process that runs a user program has space x instead of the one it had,
\* or another memory, with the same directory; k are the accesses it has to make.
LEMMA UserChange ==
    ASSUME VmInv, panic = "no", UserRuns, NEW c \in Procs, c = current, NEW x, NEW q,
           x # NoMM, x.pgdir = pgd, SoundMM(x), Covered(q, pgd, x.vmas),
           Mem(q, Dirs(Space), Stacks(kstack), {}), Outside(m, q, pgd), q.err = "ok",
           Reflects(q, pgd), m' = q, mm' = [mm EXCEPT ![c] = x],
           NEW k \in Seq(Accesses), kacc' = k,
           \A i \in 1 .. Len(k) : Allows(x.vmas, k[i].v, k[i].w),
           UNCHANGED <<cr3, st, kstack, nmm, todo, current, pgd, panic>>
    PROVE  VmInv'
  <1>1. /\ st[c] = "user" /\ TypeOK /\ StatusInv /\ Running /\ Space[c] = mm[c]
        /\ mm[c] # NoMM /\ nmm[c] = NoMM /\ pgd = mm[c].pgdir /\ World(m, Space, kstack)
    BY UserFacts
  <1>2. x \in Spaces
    BY DEF SoundMM
  <1>3. TypeOK'
    BY <1>1, <1>2 DEF TypeOK
  <1>4. \A p \in Procs : mm'[p] = (IF p = c THEN x ELSE mm[p])
    BY <1>1 DEF TypeOK
  <1>5. StatusInv'
    BY <1>1, <1>4 DEF StatusInv
  <1>6. LoadInv'
    BY <1>1 DEF Running, LoadInv
  <1>7. PICK r, ws, ws2 : r = m /\ ws = Space /\ ws2 = Space'
    OBVIOUS
  <1>8. ws2 = [ws EXCEPT ![c] = x] /\ ws \in [Procs -> Spaces]
    <2>1. ws \in [Procs -> Spaces] /\ ws2 \in [Procs -> Spaces]
          /\ \A p \in Procs : ws[p] = IF st[p] = "load" THEN nmm[p] ELSE mm[p]
      BY <1>1, <1>3, <1>7 DEF TypeOK, Space
    <2>2. \A p \in Procs : ws2[p] = IF st'[p] = "load" THEN nmm'[p] ELSE mm'[p]
      BY <1>7 DEF Space
    <2>3. \A p \in Procs : ws2[p] = IF p = c THEN x ELSE ws[p]
      BY <1>1, <1>4, <2>1, <2>2
    <2> QED BY <2>1, <2>3, <1>2
  <1>9. World(q, ws2, kstack)
    <2>1. Changes(r, q, ws, kstack, c, x, ws2)
      BY <1>1, <1>2, <1>7, <1>8 DEF Changes, Given
    <2> QED BY <2>1, WorldChange
  <1>10. UserRuns' /\ mm'[current'] = x
    BY <1>4 DEF UserRuns
  <1>11. TlbInv' /\ KaccInv'
    BY <1>10 DEF TlbInv, KaccInv
  <1>12. panic' = "no"
    OBVIOUS
  <1> QED BY <1>3, <1>5, <1>6, <1>7, <1>9, <1>11, <1>12 DEF VmInv, PanicInv, Running, World

\* Another area is the cached one.
LEMMA CacheSound ==
    ASSUME NEW a, SoundMM(a), NEW y \in Areas, y = NoVma \/ Listed(a.vmas, y),
           NEW x, x = [a EXCEPT !.cache = y], a # NoMM
    PROVE  SoundMM(x) /\ x.pgdir = a.pgdir /\ x.vmas = a.vmas
  <1>1. a \in Spaces /\ Sorted(a.vmas)
    BY DEF SoundMM
  <1>2. x \in Spaces /\ x.pgdir = a.pgdir /\ x.vmas = a.vmas /\ x.cache = y
    BY <1>1 DEF Spaces
  <1> QED BY <1>1, <1>2 DEF SoundMM

LEMMA RealMM ==
    ASSUME NEW a, a.pgdir \in Pages
    PROVE  a # NoMM
  BY NoMMIs, FrameKinds

LEMMA CopyStep ==
    ASSUME VmInv, NEW s \in Nat, NEW e \in Nat, NEW w \in BOOLEAN, Copy(s, e, w)
    PROVE  VmInv'
  <1>1. PICK c, a, z : c = current /\ a = mm[c] /\ z = user_mem_check(a, s, e, w)
    OBVIOUS
  <1>2. /\ InUser /\ kacc = <<>>
        /\ mm' = [mm EXCEPT ![c].cache = z.cache]
        /\ kacc' = (IF z.ok THEN [i \in 1 .. e - s |-> [v |-> s + i - 1, w |-> w]] ELSE <<>>)
        /\ UNCHANGED <<m, cr3, st, kstack, nmm, todo, current, pgd, panic, calls>>
    BY <1>1 DEF Copy
  <1>3. panic = "no" /\ UserRuns
    BY <1>2 DEF InUser, UserRuns
  <1>4. PICK r : r = m
    OBVIOUS
  <1>5. /\ c \in Procs /\ TypeOK /\ a # NoMM /\ Space[c] = a /\ pgd = a.pgdir
        /\ Reflects(r, pgd) /\ World(r, Space, kstack) /\ r.err = "ok"
        /\ SoundMM(a) /\ Covered(r, pgd, a.vmas) /\ pgd \in Dirs(Space)
    BY <1>1, <1>3, <1>4, UserFacts
  <1>6. /\ z.cache \in Areas /\ (z.cache = NoVma \/ Listed(a.vmas, z.cache))
        /\ z.ok => s < e /\ e <= Top /\ \A v \in s .. e - 1 : Allows(a.vmas, v, w)
    BY <1>1, <1>5, UserMemCheck
  <1>7. PICK y, x : y = z.cache /\ x = [a EXCEPT !.cache = y]
    OBVIOUS
  <1>8. SoundMM(x) /\ x.pgdir = a.pgdir /\ x.vmas = a.vmas
    BY <1>5, <1>6, <1>7, CacheSound
  <1>9. x # NoMM
    <2>1. a.pgdir \in Pages
      BY <1>5 DEF World, Mem, Owned
    <2> QED BY <1>8, <2>1, RealMM
  <1>10. mm' = [mm EXCEPT ![c] = x]
    BY <1>1, <1>2, <1>7
  <1>11. PICK k : k = kacc'
    OBVIOUS
  <1>12. k \in Seq(Accesses) /\ \A i \in 1 .. Len(k) : Allows(x.vmas, k[i].v, k[i].w)
    <2>1. CASE z.ok
      <3>1. s < e /\ e <= Top /\ \A v \in s .. e - 1 : Allows(a.vmas, v, w)
        BY <1>6, <2>1
      <3>2. PICK n \in Nat : n = e - s
        BY <3>1
      <3>3. k = [i \in 1 .. n |-> [v |-> s + i - 1, w |-> w]]
        BY <1>2, <1>11, <2>1, <3>2
      <3>4. \A i \in 1 .. n : s + i - 1 \in s .. e - 1 /\ s + i - 1 \in VPages
        BY <3>1, <3>2, Sizes DEF VPages
      <3>5. \A i \in 1 .. n : [v |-> s + i - 1, w |-> w] \in Accesses
        BY <3>4 DEF Accesses
      <3>6. k \in Seq(Accesses) /\ Len(k) = n
        <4>1. k \in [1 .. n -> Accesses]
          BY <3>3, <3>5
        <4> QED BY <3>2, <4>1
      <3>7. ASSUME NEW i \in 1 .. n PROVE Allows(a.vmas, k[i].v, k[i].w)
        <4>1. k[i] = [v |-> s + i - 1, w |-> w]
          BY <3>3
        <4>2. k[i].v = s + i - 1 /\ k[i].w = w
          BY <4>1
        <4>3. Allows(a.vmas, s + i - 1, w)
          BY <3>1, <3>4
        <4> QED BY <4>2, <4>3
      <3> QED BY <1>8, <3>6, <3>7
    <2>2. CASE ~z.ok
      <3>1. k = <<>>
        BY <1>2, <1>11, <2>2
      <3> QED BY <3>1
    <2> QED BY <2>1, <2>2
  <1>13. Mem(r, Dirs(Space), Stacks(kstack), {}) /\ Outside(m, r, pgd) /\ m' = r
         /\ Covered(r, pgd, x.vmas) /\ x.pgdir = pgd /\ kacc' = k
    BY <1>2, <1>4, <1>5, <1>8, <1>11, SpaceReflexive DEF World, Outside
  <1>14. c = current /\ UNCHANGED <<cr3, st, kstack, nmm, todo, current, pgd, panic>>
    BY <1>1, <1>2
  <1> QED BY <1>3, <1>5, <1>8, <1>9, <1>10, <1>12, <1>13, <1>14, UserChange

LEMMA Halves ==
    ASSUME NEW v \in VPages
    PROVE  /\ v \in Nat /\ v \div 2 \in Nat /\ 2 * (v \div 2) \in VPages
           /\ 2 * (v \div 2) + 1 \in VPages /\ v % 2 \in 0 .. 1 /\ v = 2 * (v \div 2) + (v % 2)
  <1>1. v \in Nat /\ v < Top
    BY Sizes DEF VPages
  <1>2. PICK h \in Int : Top = 2 * h
    <2>1. PICK g \in Int : PTN = 2 * g
      <3>1. PTN % 2 = 0 /\ PTN \in Int /\ 2 \in Nat \ {0}
        BY VmAssumption
      <3>2. PTN = 2 * (PTN \div 2) + (PTN % 2) /\ PTN \div 2 \in Int
        BY <3>1, ModFacts
      <3> QED BY <3>1, <3>2
    <2>2. PICK n \in Int : n = NTables
      BY Sizes
    <2>3. PICK h \in Int : h = g * n
      BY <2>2
    <2>4. (2 * g) * n = 2 * (g * n)
      BY <2>2
    <2> QED BY <2>1, <2>2, <2>3, <2>4, Sizes
  <1>3. v = 2 * (v \div 2) + (v % 2) /\ v \div 2 \in Int /\ v % 2 \in 0 .. 1
    BY <1>1, ModFacts
  <1>4. PICK k \in Int, x \in 0 .. 1 : k = v \div 2 /\ x = v % 2 /\ v = 2 * k + x
    BY <1>3
  <1>5. k \in Nat /\ 2 * k >= 0 /\ 2 * k + 1 < Top
    BY <1>1, <1>2, <1>4
  <1> QED BY <1>1, <1>3, <1>4, <1>5, Sizes DEF VPages

\* tlb_refill, when page v of directory d is mapped.
Refills(r, q, D, K, d, v, old) ==
    /\ Mem(r, D, K, {}) /\ d \in Frames /\ v \in VPages /\ Maps(r, d, v) /\ Reflects(r, d)
    /\ q = [r EXCEPT !.tlb = (@ \ old) \union {Pair(r, d, v \div 2)}]

LEMMA PairType ==
    ASSUME NEW r, NEW D, NEW K, NEW H, Mem(r, D, K, H), NEW d \in Frames, NEW v \in VPages
    PROVE  Pair(r, d, v \div 2) \in TlbEntries
  <1>1. PICK k \in Nat : k = v \div 2 /\ 2 * k \in VPages /\ 2 * k + 1 \in VPages
    BY Halves
  <1>2. PICK kd, at, ix : r \in Mems /\ Owned(r, kd, at, ix, D, K, H)
    BY DEF Mem
  <1>3. Pte(r, d, 2 * k) \in Ptes /\ Pte(r, d, 2 * k + 1) \in Ptes
    BY <1>1, <1>2, PteFacts
  <1>4. ASSUME NEW i \in 0 .. 1 PROVE Pte(r, d, 2 * k + i) \in Ptes
    <2>1. i = 0 \/ i = 1
      OBVIOUS
    <2>2. 2 * k + 0 = 2 * k
      OBVIOUS
    <2> QED BY <1>3, <2>1, <2>2
  <1>5. PICK lo : lo = [i \in 0 .. 1 |-> Pte(r, d, 2 * k + i)]
    OBVIOUS
  <1>6. lo \in [0 .. 1 -> Ptes]
    BY <1>4, <1>5
  <1>7. Pair(r, d, k) = [vpn2 |-> k, lo |-> lo]
    BY <1>5 DEF Pair
  <1> QED BY <1>1, <1>6, <1>7 DEF TlbEntries

LEMMA RefillFacts ==
    ASSUME NEW r, NEW q, NEW D, NEW K, NEW d, NEW v, NEW old, Refills(r, q, D, K, d, v, old)
    PROVE  Mem(q, D, K, {}) /\ (\A c \in Frames : SameSpace(r, q, c)) /\ q.err = r.err /\ Reflects(q, d)
  <1>1. /\ Mem(r, D, K, {}) /\ d \in Frames /\ v \in VPages /\ Maps(r, d, v) /\ Reflects(r, d)
        /\ q = [r EXCEPT !.tlb = (@ \ old) \union {Pair(r, d, v \div 2)}]
    BY DEF Refills
  <1>2. PICK en, T : en = Pair(r, d, v \div 2) /\ T = (r.tlb \ old) \union {en}
    OBVIOUS
  <1>3. r \in Mems /\ r.tlb \in SUBSET TlbEntries
    BY <1>1, MemTypes DEF Mem
  <1>4. T \in SUBSET TlbEntries
    <2>1. en \in TlbEntries
      BY <1>1, <1>2, PairType
    <2> QED BY <1>2, <1>3, <2>1
  <1>5. q = [r EXCEPT !.tlb = T]
    BY <1>1, <1>2
  <1>6. /\ q \in Mems /\ q.free = r.free /\ q.dir = r.dir /\ q.tab = r.tab /\ q.ref = r.ref
        /\ q.tlb = T /\ q.err = r.err
    BY <1>3, <1>4, <1>5, TlbFields
  <1>7. Mem(q, D, K, {}) /\ \A c \in Frames : SameSpace(r, q, c)
    BY <1>1, <1>6, SameTables
  <1>8. PICK k : k = v \div 2
    OBVIOUS
  <1>9. k \in Nat /\ 2 * k \in VPages /\ 2 * k + 1 \in VPages /\ (v = 2 * k \/ v = 2 * k + 1)
    BY <1>1, <1>8, Halves
  <1>10. en = Pair(r, d, k) /\ (Maps(r, d, 2 * k) \/ Maps(r, d, 2 * k + 1))
    BY <1>1, <1>2, <1>8, <1>9
  <1>11. \A x \in T : \E j \in Nat :
            /\ 2 * j \in VPages /\ 2 * j + 1 \in VPages /\ x = Pair(r, d, j)
            /\ Maps(r, d, 2 * j) \/ Maps(r, d, 2 * j + 1)
    BY <1>1, <1>2, <1>9, <1>10 DEF Reflects
  <1>12. PICK u : u = [r EXCEPT !.tlb = T]
    OBVIOUS
  <1>13. Reflects(u, d)
    <2>1. u = q /\ u.tlb = T /\ SameSpace(r, u, d)
      BY <1>1, <1>5, <1>6, <1>7, <1>12
    <2>2. ASSUME NEW x \in u.tlb
          PROVE  \E j \in Nat :
                    /\ 2 * j \in VPages /\ 2 * j + 1 \in VPages /\ x = Pair(u, d, j)
                    /\ Maps(u, d, 2 * j) \/ Maps(u, d, 2 * j + 1)
      <3>1. PICK j \in Nat : /\ 2 * j \in VPages /\ 2 * j + 1 \in VPages /\ x = Pair(r, d, j)
                             /\ Maps(r, d, 2 * j) \/ Maps(r, d, 2 * j + 1)
        BY <1>11, <2>1, <2>2
      <3>2. Pte(u, d, 2 * j) = Pte(r, d, 2 * j) /\ Pte(u, d, 2 * j + 1) = Pte(r, d, 2 * j + 1)
        BY <2>1, <3>1 DEF SameSpace
      <3>3. \A i \in 0 .. 1 : Pte(u, d, 2 * j + i) = Pte(r, d, 2 * j + i)
        <4>1. ASSUME NEW i \in 0 .. 1 PROVE Pte(u, d, 2 * j + i) = Pte(r, d, 2 * j + i)
          <5>1. i = 0 \/ i = 1
            OBVIOUS
          <5>2. 2 * j + 0 = 2 * j
            OBVIOUS
          <5> QED BY <3>2, <5>1, <5>2
        <4> QED BY <4>1
      <3>4. Pair(u, d, j) = Pair(r, d, j)
        BY <3>3 DEF Pair
      <3> QED BY <3>1, <3>2, <3>4 DEF Maps
    <2> QED BY <2>2 DEF Reflects
  <1> QED BY <1>5, <1>6, <1>7, <1>12, <1>13

\* What the MMU finds is the page table's entry.
LEMMA HitIs ==
    ASSUME Reflects(m, pgd), NEW v \in VPages, NEW lo \in Hits(v)
    PROVE  lo = Pte(m, pgd, v) /\ Maps(m, pgd, v)
  <1>1. PICK en \in m.tlb : en.vpn2 = v \div 2 /\ lo = en.lo[v % 2] /\ lo.pg # 0
    BY DEF Hits, Half
  <1>2. PICK k \in Nat : en = Pair(m, pgd, k)
    BY <1>1 DEF Reflects
  <1>3. en.vpn2 = k /\ \A i \in 0 .. 1 : en.lo[i] = Pte(m, pgd, 2 * k + i)
    BY <1>2 DEF Pair
  <1>4. PICK i \in 0 .. 1 : i = v % 2 /\ v = 2 * (v \div 2) + i
    BY Halves
  <1>5. v = 2 * k + i
    BY <1>1, <1>3, <1>4
  <1>6. lo = Pte(m, pgd, v)
    BY <1>1, <1>3, <1>4, <1>5
  <1>7. lo # NoPte
    <2>1. NoPte.pg = 0
      BY DEF NoPte
    <2> QED BY <1>1, <2>1
  <1> QED BY <1>6, <1>7 DEF Maps

\* do_pgfault for page v of the space a, where there is no entry.
Faults(q, D, K, a, v, w) ==
    /\ Mem(m, D, K, {}) /\ m.err = "ok" /\ SoundMM(a) /\ a.pgdir \in D /\ v \in VPages
    /\ Covered(m, a.pgdir, a.vmas) /\ q = do_pgfault(a, v, w)
Faulted(q, D, K, a, v, w) ==
    /\ Mem(q, D, K, {}) /\ Outside(m, q, a.pgdir) /\ Covered(q, a.pgdir, a.vmas)
    /\ q.err = "ok" => q.tlb = {}
    /\ q.err # "ok" => SamePtes(m, q, a.pgdir) /\ q.tlb = m.tlb
    /\ q.err # "ok" => q.free = {} \/ ~Allows(a.vmas, v, w)

LEMMA FaultFacts ==
    ASSUME NEW q, NEW D, NEW K, NEW a, NEW v, NEW w \in BOOLEAN, Faults(q, D, K, a, v, w)
    PROVE  Faulted(q, D, K, a, v, w)
  <1>1. /\ Mem(m, D, K, {}) /\ m.err = "ok" /\ SoundMM(a) /\ a.pgdir \in D /\ v \in VPages
        /\ Covered(m, a.pgdir, a.vmas) /\ q = do_pgfault(a, v, w)
    BY DEF Faults
  <1>2. PICK x, d, r : x = find_vma(a, v) /\ d = a.pgdir /\ r = get_pte(m, d, v)
    OBVIOUS
  <1>3. InBounds(a.vmas) /\ v \in Nat /\ m \in Mems
    BY <1>1, Halves DEF SoundMM, Sorted, Mem
  <1>4. PICK al : al = (/\ x # NoVma /\ x.s <= v
                        /\ IF w THEN "W" \in x.flags ELSE x.flags \intersect {"R", "X"} # {})
    OBVIOUS
  <1>5. q = (IF ~al THEN [m EXCEPT !.err = "inval"]
             ELSE IF r.err # "ok" THEN r
             ELSE pgdir_alloc_page(r, d, v, "W" \in x.flags, "junk"))
    BY <1>1, <1>2, <1>4 DEF do_pgfault
  <1>6. Outside(m, m, d) /\ SamePtes(m, m, d)
    BY SpaceReflexive DEF Outside, SamePtes
  <1>7. CASE ~al
    <2>1. q = [m EXCEPT !.err = "inval"] /\ "inval" \in Errs
      BY <1>5, <1>7 DEF Errs
    <2>2. /\ q \in Mems /\ q.free = m.free /\ q.dir = m.dir /\ q.tab = m.tab /\ q.ref = m.ref
          /\ q.tlb = m.tlb /\ q.err = "inval"
      BY <1>3, <2>1, ErrFields
    <2>3. Mem(q, D, K, {}) /\ \A c : SameSpace(m, q, c)
      BY <1>1, <2>2, SameTables
    <2>4. Outside(m, q, d) /\ SamePtes(m, q, d) /\ Covered(q, d, a.vmas)
      BY <1>1, <1>2, <2>3, CoveredSame DEF Outside, SamePtes, SameSpace
    <2>5. ~Allows(a.vmas, v, w)
      <3>1. SUFFICES ASSUME Allows(a.vmas, v, w) PROVE FALSE
        OBVIOUS
      <3>2. PICK i \in 1 .. Len(a.vmas) :
               InVma(a.vmas[i], v) /\ (IF w THEN "W" ELSE "R") \in a.vmas[i].flags
        BY <3>1 DEF Allows
      <3>3. x = a.vmas[i] /\ x # NoVma
        BY <1>1, <1>2, <1>3, <3>2, FindIn
      <3>4. x.s <= v /\ (IF w THEN "W" \in x.flags ELSE x.flags \intersect {"R", "X"} # {})
        BY <3>2, <3>3 DEF InVma
      <3> QED BY <1>4, <1>7, <3>3, <3>4
    <2> QED BY <1>2, <2>2, <2>3, <2>4, <2>5 DEF Faulted
  <1>8. CASE al
    <2>1. PICK i : x = a.vmas[i] /\ First(a.vmas, v, i)
      <3>1. x # NoVma
        BY <1>4, <1>8
      <3> QED BY <1>1, <1>2, <1>3, <3>1, FindVma
    <2>2. i \in 1 .. Len(a.vmas) /\ InVma(a.vmas[i], v)
      BY <1>4, <1>8, <2>1 DEF First, InVma
    <2>3. PICK G : G = {}
      OBVIOUS
    <2>4. Mem(m, D, K, G) /\ d \in D
      BY <1>1, <1>2, <2>3
    <2>5. /\ Mem(r, D, K, G) /\ Outside(m, r, d) /\ SamePtes(m, r, d)
          /\ r.tlb = m.tlb
          /\ \/ /\ r.err = "ok" /\ r.dir[d][Tb(v)] # 0
                /\ \A k \in Tables \ {Tb(v)} : r.dir[d][k] = m.dir[d][k]
             \/ r.err = "nomem" /\ r.free = {} /\ r.dir = m.dir
      BY <1>1, <1>2, <2>4, GetPte
    <2>6. \A k \in Tables \ {Tb(v)} : r.dir[d][k] = m.dir[d][k]
      BY <2>5
    <2>7. Covered(r, d, a.vmas)
      BY <1>1, <1>2, <1>3, <2>2, <2>5, <2>6, CoveredTable
    <2>8. CASE r.err # "ok"
      <3>1. q = r /\ r.free = {}
        BY <1>5, <1>8, <2>5, <2>8
      <3> QED BY <1>2, <2>3, <2>5, <2>7, <2>8, <3>1 DEF Faulted
    <2>9. CASE r.err = "ok"
      <3>1. PICK wr : wr = ("W" \in x.flags)
        OBVIOUS
      <3>2. q = pgdir_alloc_page(r, d, v, wr, "junk") /\ wr \in BOOLEAN /\ "junk" \in Vals
        BY <1>5, <1>8, <2>9, <3>1 DEF Vals
      <3>3. /\ Mem(q, D, K, G) /\ Outside(r, q, d)
            /\ \/ q.err = "ok" /\ q.tlb = {} /\ \E e : e.w = wr /\ AddsPte(r, q, d, v, e)
               \/ /\ q.err = "nomem" /\ q.tlb = r.tlb /\ SamePtes(r, q, d) /\ q.dir[d] = r.dir[d]
                  /\ r.dir[d][Tb(v)] # 0 => q.free = {}
        BY <1>1, <2>4, <2>5, <2>9, <3>2, AllocPage
      <3>4. Outside(m, q, d)
        BY <2>5, <3>3, SpaceTransitive DEF Outside
      <3>5. CASE q.err = "ok" /\ q.tlb = {} /\ \E e : e.w = wr /\ AddsPte(r, q, d, v, e)
        <4>1. PICK e : e.w = wr /\ AddsPte(r, q, d, v, e)
          BY <3>5
        <4>2. e.w <=> "W" \in a.vmas[i].flags
          BY <2>1, <3>1, <4>1
        <4>3. Covered(q, d, a.vmas)
          BY <1>1, <1>3, <2>2, <2>7, <4>1, <4>2, CoveredAdd
        <4> QED BY <1>2, <2>3, <3>3, <3>4, <3>5, <4>3 DEF Faulted
      <3>6. CASE /\ q.err = "nomem" /\ q.tlb = r.tlb /\ SamePtes(r, q, d) /\ q.dir[d] = r.dir[d]
                 /\ r.dir[d][Tb(v)] # 0 => q.free = {}
        <4>1. q.free = {} /\ q.tlb = m.tlb
          BY <2>5, <2>9, <3>6
        <4>2. Covered(q, d, a.vmas)
          <5>1. SameSpace(r, q, d)
            BY <3>6 DEF SameSpace, SamePtes
          <5> QED BY <2>7, <5>1, CoveredSame
        <4>3. SamePtes(m, q, d)
          BY <2>5, <3>6 DEF SamePtes
        <4> QED BY <1>2, <2>3, <3>3, <3>4, <3>6, <4>1, <4>2, <4>3 DEF Faulted
      <3> QED BY <3>3, <3>5, <3>6
    <2> QED BY <2>8, <2>9
  <1> QED BY <1>4, <1>7, <1>8

\* The accesses the running system call has still to make stay allowed.
LEMMA KaccAllowed ==
    ASSUME VmInv, panic = "no", UserRuns
    PROVE  /\ kacc \in Seq(Accesses)
           /\ \A i \in 1 .. Len(kacc) : Allows(mm[current].vmas, kacc[i].v, kacc[i].w)
  <1>1. KaccInv /\ kacc \in Seq(Accesses)
    BY DEF VmInv, Running, TypeOK
  <1>2. CASE kacc = <<>>
    BY <1>1, <1>2
  <1>3. CASE kacc # <<>>
    BY <1>1, <1>3 DEF KaccInv
  <1> QED BY <1>2, <1>3

\* A step that changes neither the space nor the accesses.
LEMMA MemStep ==
    ASSUME VmInv, panic = "no", UserRuns, NEW q, m' = q, Mem(q, Dirs(Space), Stacks(kstack), {}),
           Outside(m, q, pgd), Covered(q, pgd, mm[current].vmas), q.err = "ok", Reflects(q, pgd),
           NEW k \in Seq(Accesses), kacc' = k,
           \A i \in 1 .. Len(k) : Allows(mm[current].vmas, k[i].v, k[i].w),
           UNCHANGED <<mm, cr3, st, kstack, nmm, todo, current, pgd, panic>>
    PROVE  VmInv'
  <1>1. PICK c, x : c = current /\ x = mm[c]
    OBVIOUS
  <1>2. c \in Procs /\ TypeOK /\ x # NoMM /\ x.pgdir = pgd /\ SoundMM(x)
    BY <1>1, UserFacts
  <1>3. mm' = [mm EXCEPT ![c] = x]
    BY <1>1, <1>2 DEF TypeOK
  <1> QED BY <1>1, <1>2, <1>3, UserChange

LEMMA MissStep ==
    ASSUME VmInv, panic = "no", UserRuns, NEW v \in VPages, NEW w \in BOOLEAN,
           NEW ik \in BOOLEAN, ik => Allows(mm[current].vmas, v, w), ~ik => kacc = <<>>,
           handle_tlbmiss(v, w, ik)
    PROVE  VmInv'
  <1>1. PICK c, a, pte, r : /\ c = current /\ a = mm[c] /\ pte = Pte(m, pgd, v)
                            /\ r = do_pgfault(a, v, w)
    OBVIOUS
  <1>2. /\ \/ /\ pte # NoPte /\ tlb_refill(v)
              /\ UNCHANGED <<mm, st, pgd, kacc, panic>>
           \/ /\ pte # NoPte /\ ~ik
              /\ do_exit(m) /\ UNCHANGED panic
           \/ /\ pte = NoPte /\ r.err = "ok"
              /\ m' = r
              /\ mm' = [mm EXCEPT ![c] = Cached(a, find_vma(a, v))]
              /\ UNCHANGED <<st, pgd, kacc, panic>>
           \/ /\ pte = NoPte /\ r.err # "ok" /\ ~ik
              /\ do_exit(Ok(r)) /\ UNCHANGED panic
           \/ /\ pte = NoPte /\ r.err # "ok" /\ ik
              /\ panic' = "unhandled pgfault" /\ m' = r
              /\ UNCHANGED <<mm, st, pgd, kacc>>
        /\ UNCHANGED <<cr3, kstack, nmm, todo, current>>
    BY <1>1 DEF handle_tlbmiss, pgfault_handler
  <1>3. /\ c \in Procs /\ TypeOK /\ StatusInv /\ a # NoMM /\ Space[c] = a /\ pgd = a.pgdir
        /\ Reflects(m, pgd) /\ World(m, Space, kstack) /\ m.err = "ok" /\ st[c] = "user"
        /\ SoundMM(a) /\ Covered(m, pgd, a.vmas) /\ pgd \in Dirs(Space) /\ pgd \in Frames
    BY <1>1, UserFacts
  <1>4. PICK D, K : D = Dirs(Space) /\ K = Stacks(kstack) /\ Mem(m, D, K, {})
    BY <1>3 DEF World
  <1>5. PICK k : k = kacc
    OBVIOUS
  <1>6. k \in Seq(Accesses) /\ \A i \in 1 .. Len(k) : Allows(a.vmas, k[i].v, k[i].w)
    BY <1>1, <1>5, KaccAllowed
  <1>7. CASE /\ pte # NoPte /\ tlb_refill(v)
             /\ UNCHANGED <<mm, st, pgd, kacc, panic>>
    <2>1. PICK old : m' = [m EXCEPT !.tlb = (@ \ old) \union {Refill(m, v)}]
      BY <1>7 DEF tlb_refill
    <2>2. Refill(m, v) = Pair(m, pgd, v \div 2)
      BY DEF Refill, Pair
    <2>3. PICK r0, q, d : r0 = m /\ q = m' /\ d = pgd
      OBVIOUS
    <2>4. Refills(r0, q, D, K, d, v, old)
      BY <1>1, <1>3, <1>4, <1>7, <2>1, <2>2, <2>3 DEF Refills, Maps
    <2>5. Mem(q, D, K, {}) /\ (\A x \in Frames : SameSpace(r0, q, x)) /\ q.err = r0.err /\ Reflects(q, d)
      BY <2>4, RefillFacts
    <2>6. Covered(q, pgd, a.vmas) /\ Outside(m, q, pgd)
      BY <1>3, <2>3, <2>5, CoveredSame DEF Outside
    <2> QED BY <1>1, <1>2, <1>3, <1>4, <1>5, <1>6, <1>7, <2>3, <2>5, <2>6, MemStep
  <1>8. CASE pte # NoPte /\ ~ik /\ do_exit(m) /\ UNCHANGED panic
    <2>1. PICK r0 : r0 = m
      OBVIOUS
    <2>2. World(r0, Space, kstack) /\ r0.err = "ok" /\ Reflects(r0, pgd) /\ do_exit(r0)
      BY <1>3, <1>8, <2>1
    <2>3. InUser
      BY <1>1, <1>3 DEF InUser
    <2> QED BY <1>2, <1>8, <2>2, <2>3, DoExit
  <1>9. CASE pte = NoPte
    <2>1. Faults(r, D, K, a, v, w)
      BY <1>1, <1>3, <1>4 DEF Faults
    <2>2. Faulted(r, D, K, a, v, w)
      BY <2>1, FaultFacts
    <2>3. /\ Mem(r, D, K, {}) /\ Outside(m, r, pgd) /\ Covered(r, pgd, a.vmas)
          /\ r.err = "ok" => r.tlb = {}
          /\ r.err # "ok" => SamePtes(m, r, pgd) /\ r.tlb = m.tlb
          /\ r.err # "ok" => r.free = {} \/ ~Allows(a.vmas, v, w)
      BY <1>3, <2>2 DEF Faulted
    <2>4. CASE /\ r.err = "ok"
               /\ m' = r
               /\ mm' = [mm EXCEPT ![c] = Cached(a, find_vma(a, v))]
               /\ UNCHANGED <<st, pgd, kacc, panic>>
      <3>1. PICK y, x : y = find_vma(a, v) /\ x = Cached(a, y)
        OBVIOUS
      <3>2. x # NoMM /\ x.pgdir = pgd /\ SoundMM(x) /\ x.vmas = a.vmas
        <4>1. CASE y = NoVma
          <5>1. x = a
            BY <3>1, <4>1 DEF Cached
          <5> QED BY <1>3, <5>1
        <4>2. CASE y # NoVma
          <5>1. v \in Nat
            BY Halves
          <5>2. PICK i : y = a.vmas[i] /\ First(a.vmas, v, i)
            BY <1>3, <3>1, <4>2, <5>1, FindVma
          <5>3. y \in Areas /\ Listed(a.vmas, y)
            <6>1. i \in 1 .. Len(a.vmas) /\ InBounds(a.vmas)
              BY <1>3, <5>2 DEF First, SoundMM, Sorted
            <6> QED BY <5>2, <6>1, AreaFacts DEF Listed
          <5>4. x = [a EXCEPT !.cache = y]
            BY <3>1, <4>2 DEF Cached
          <5>5. SoundMM(x) /\ x.pgdir = a.pgdir /\ x.vmas = a.vmas
            BY <1>3, <5>3, <5>4, CacheSound
          <5>6. a.pgdir \in Pages
            BY <1>3, <1>4 DEF Mem, Owned
          <5> QED BY <1>3, <5>5, <5>6, RealMM
        <4> QED BY <4>1, <4>2
      <3>3. Reflects(r, pgd)
        BY <2>3, <2>4 DEF Reflects
      <3>4. mm' = [mm EXCEPT ![c] = x] /\ Covered(r, pgd, x.vmas)
            /\ \A i \in 1 .. Len(k) : Allows(x.vmas, k[i].v, k[i].w)
        BY <1>6, <2>3, <2>4, <3>1, <3>2
      <3>5. Mem(r, Dirs(Space), Stacks(kstack), {}) /\ kacc' = k
        BY <1>4, <1>5, <2>3, <2>4
      <3>6. UNCHANGED <<cr3, st, kstack, nmm, todo, current, pgd, panic>>
        BY <1>2, <2>4
      <3> QED BY <1>1, <1>3, <1>6, <2>3, <2>4, <3>2, <3>3, <3>4, <3>5, <3>6, UserChange
    <2>5. ASSUME r.err # "ok"
          PROVE  World(r, Space, kstack) /\ Reflects(r, pgd)
      <3>1. PICK r0, ws : r0 = m /\ ws = Space
        OBVIOUS
      <3>2. Reflects(r, pgd)
        BY <1>3, <2>3, <2>5, TlbKept
      <3>3. ws \in [Procs -> Spaces] /\ a \in Spaces
        BY <1>3, <3>1, SpaceIs DEF SoundMM
      <3>4. ws = [ws EXCEPT ![c] = a]
        BY <1>3, <3>1, <3>3
      <3>5. Given(ws, c, a, ws)
        BY <1>3, <3>3, <3>4 DEF Given
      <3>6. Changes(r0, r, ws, kstack, c, a, ws)
        BY <1>3, <1>4, <2>3, <3>1, <3>5 DEF Changes
      <3>7. World(r, ws, kstack)
        BY <3>6, WorldChange
      <3> QED BY <3>1, <3>2, <3>7
    <2>6. CASE r.err # "ok" /\ ~ik /\ do_exit(Ok(r)) /\ UNCHANGED panic
      <3>1. World(r, Space, kstack) /\ Reflects(r, pgd) /\ r \in Mems
        BY <2>5, <2>6 DEF World, Mem
      <3>2. PICK q : q = Ok(r)
        OBVIOUS
      <3>3. /\ q \in Mems /\ q.free = r.free /\ q.dir = r.dir /\ q.tab = r.tab /\ q.ref = r.ref
            /\ q.tlb = r.tlb /\ q.err = "ok"
        <4>1. q = [r EXCEPT !.err = "ok"] /\ "ok" \in Errs
          BY <3>2 DEF Ok, Errs
        <4> QED BY <3>1, <4>1, ErrFields
      <3>4. Mem(q, D, K, {}) /\ \A x : SameSpace(r, q, x)
        BY <2>3, <3>3, SameTables
      <3>5. World(q, Space, kstack)
        BY <1>4, <3>1, <3>4, WorldSame
      <3>6. Reflects(q, pgd)
        BY <3>1, <3>3, <3>4, TlbKept DEF SameSpace, SamePtes
      <3>7. InUser
        BY <1>1, <1>3 DEF InUser
      <3>8. do_exit(q) /\ UNCHANGED <<cr3, kstack, nmm, todo, current, panic>>
        BY <1>2, <2>6, <3>2
      <3> QED BY <3>3, <3>5, <3>6, <3>7, <3>8, DoExit
    <2>7. CASE /\ r.err # "ok" /\ ik
               /\ panic' = "unhandled pgfault" /\ m' = r
               /\ UNCHANGED <<mm, st, pgd, kacc>>
      <3>1. r.free = {}
        BY <1>1, <2>3, <2>7
      <3>2. Good(r, Space)
        BY <2>5, <2>7 DEF World
      <3>3. Space' = Space
        BY <1>2, <2>7 DEF Space
      <3>4. Good(m', Space')
        BY <2>7, <3>2, <3>3
      <3>5. TypeOK' /\ StatusInv'
        BY <1>2, <1>3, <2>7 DEF TypeOK, StatusInv
      <3>6. PanicInv'
        BY <2>7, <3>1 DEF PanicInv
      <3>7. panic' # "no"
        BY <2>7
      <3> QED BY <3>4, <3>5, <3>6, <3>7 DEF VmInv
    <2> QED BY <1>2, <1>9, <2>4, <2>6, <2>7
  <1> QED BY <1>2, <1>7, <1>8, <1>9

\* A store that finds its page in the TLB is to a page that may be written, if
\* the areas allow it.
LEMMA HitAllows ==
    ASSUME VmInv, panic = "no", UserRuns, NEW v \in VPages, NEW lo \in Hits(v),
           Allows(mm[current].vmas, v, TRUE)
    PROVE  lo.w
  <1>1. PICK a : a = mm[current]
    OBVIOUS
  <1>2. Reflects(m, pgd) /\ Covered(m, pgd, a.vmas) /\ Sorted(a.vmas)
    BY <1>1, UserFacts
  <1>3. lo = Pte(m, pgd, v) /\ Maps(m, pgd, v) /\ v \in Nat
    BY <1>2, HitIs, Halves
  <1>4. PICK i \in 1 .. Len(a.vmas) : InVma(a.vmas[i], v) /\ "W" \in a.vmas[i].flags
    BY <1>1 DEF Allows
  <1>5. PICK j \in 1 .. Len(a.vmas) :
           InVma(a.vmas[j], v) /\ (Pte(m, pgd, v).w <=> "W" \in a.vmas[j].flags)
    BY <1>2, <1>3 DEF Covered
  <1>6. i = j
    BY <1>2, <1>3, <1>4, <1>5, OneArea
  <1> QED BY <1>3, <1>4, <1>5, <1>6

LEMMA StoreFacts ==
    ASSUME VmInv, panic = "no", UserRuns, NEW v \in VPages, StoreTo(v)
    PROVE  \E q : /\ m' = q /\ Mem(q, Dirs(Space), Stacks(kstack), {}) /\ Outside(m, q, pgd)
                  /\ Covered(q, pgd, mm[current].vmas) /\ q.err = "ok" /\ Reflects(q, pgd)
  <1>1. PICK lo \in Hits(v) : m' = [m EXCEPT !.data[lo.pg] = "new"]
    BY DEF StoreTo
  <1>2. PICK a, D, K : a = mm[current] /\ D = Dirs(Space) /\ K = Stacks(kstack)
    OBVIOUS
  <1>3. /\ Reflects(m, pgd) /\ World(m, Space, kstack) /\ m.err = "ok"
        /\ Covered(m, pgd, a.vmas) /\ pgd \in Frames
    BY <1>2, UserFacts
  <1>4. Mem(m, D, K, {}) /\ m \in Mems
    BY <1>2, <1>3 DEF World, Mem
  <1>5. PICK p : p = lo.pg
    OBVIOUS
  <1>6. p \in Pages
    <2>1. lo = Pte(m, pgd, v) /\ Maps(m, pgd, v)
      BY <1>3, HitIs
    <2>2. PICK kd, at, ix : Owned(m, kd, at, ix, D, K, {})
      BY <1>4 DEF Mem
    <2> QED BY <1>3, <1>4, <1>5, <2>1, <2>2, PteFacts DEF Maps
  <1>7. PICK q, dat : q = m' /\ dat = [m.data EXCEPT ![p] = "new"]
    OBVIOUS
  <1>8. q = [m EXCEPT !.data = dat] /\ dat \in [Pages -> Vals]
    <2>1. m.data \in [Pages -> Vals]
      BY <1>4, MemTypes
    <2> QED BY <1>1, <1>5, <1>7, <2>1 DEF Vals
  <1>9. /\ q \in Mems /\ q.free = m.free /\ q.dir = m.dir /\ q.tab = m.tab /\ q.ref = m.ref
        /\ q.tlb = m.tlb /\ q.err = m.err
    BY <1>4, <1>8 DEF Mems
  <1>10. Mem(q, D, K, {}) /\ \A x : SameSpace(m, q, x)
    BY <1>4, <1>9, SameTables
  <1>11. Outside(m, q, pgd) /\ Covered(q, pgd, a.vmas)
    BY <1>3, <1>10, CoveredSame DEF Outside
  <1>12. Reflects(q, pgd)
    BY <1>3, <1>9, <1>10, TlbKept DEF SameSpace, SamePtes
  <1> QED BY <1>2, <1>3, <1>7, <1>9, <1>10, <1>11, <1>12

LEMMA UserAccessStep ==
    ASSUME VmInv, NEW v \in VPages, NEW w \in BOOLEAN, UserAccess(v, w)
    PROVE  VmInv'
  <1>1. InUser /\ kacc = <<>>
    BY DEF UserAccess
  <1>2. panic = "no" /\ UserRuns
    BY <1>1 DEF InUser, UserRuns
  <1>3. \/ handle_tlbmiss(v, w, FALSE)
        \/ w /\ Modified(v)
        \/ w /\ StoreTo(v) /\ UNCHANGED <<mm, pvars, pgd, kacc, panic>>
        \/ UNCHANGED vars
    BY DEF UserAccess
  <1>4. CASE handle_tlbmiss(v, w, FALSE)
    <2>1. PICK ik \in BOOLEAN : ik = FALSE
      OBVIOUS
    <2>2. handle_tlbmiss(v, w, ik) /\ ~ik
      BY <1>4, <2>1
    <2> QED BY <1>1, <1>2, <2>2, MissStep
  <1>5. CASE w /\ Modified(v)
    <2>1. /\ panic' = "Unhandled Exception"
          /\ UNCHANGED <<m, mm, cr3, st, kstack, nmm, todo, current, pgd, kacc>>
      BY <1>5 DEF Modified
    <2>2. TypeOK' /\ StatusInv' /\ Good(m', Space')
      BY <1>2, <2>1 DEF VmInv, TypeOK, StatusInv, Space
    <2>3. PanicInv' /\ panic' # "no"
      BY <1>1, <2>1 DEF PanicInv
    <2> QED BY <2>2, <2>3 DEF VmInv
  <1>6. CASE w /\ StoreTo(v) /\ UNCHANGED <<mm, pvars, pgd, kacc, panic>>
    <2>1. PICK q : /\ m' = q /\ Mem(q, Dirs(Space), Stacks(kstack), {}) /\ Outside(m, q, pgd)
                   /\ Covered(q, pgd, mm[current].vmas) /\ q.err = "ok" /\ Reflects(q, pgd)
      BY <1>2, <1>6, StoreFacts
    <2>2. PICK k : k = kacc
      OBVIOUS
    <2>3. k \in Seq(Accesses) /\ \A i \in 1 .. Len(k) : Allows(mm[current].vmas, k[i].v, k[i].w)
      BY <1>2, <2>2, KaccAllowed
    <2>4. kacc' = k /\ UNCHANGED <<mm, cr3, st, kstack, nmm, todo, current, pgd, panic>>
      BY <1>6, <2>2 DEF pvars
    <2> QED BY <1>2, <2>1, <2>3, <2>4, MemStep
  <1>7. CASE UNCHANGED vars
    BY <1>7, Stutter
  <1> QED BY <1>3, <1>4, <1>5, <1>6, <1>7

LEMMA KernelAccessStep == VmInv /\ KernelAccess => VmInv'
  <1> SUFFICES ASSUME VmInv, KernelAccess PROVE VmInv'
    OBVIOUS
  <1>1. PICK v, w : v = Head(kacc).v /\ w = Head(kacc).w
    OBVIOUS
  <1>2. panic = "no" /\ kacc # <<>>
    BY DEF KernelAccess
  <1>3. \/ handle_tlbmiss(v, w, TRUE)
        \/ w /\ Modified(v)
        \/ w /\ StoreTo(v) /\ kacc' = Tail(kacc) /\ UNCHANGED <<mm, pvars, pgd, panic>>
        \/ kacc' = Tail(kacc) /\ UNCHANGED <<m, mm, pvars, pgd, panic>>
    BY <1>1 DEF KernelAccess
  <1>4. UserRuns
    BY <1>2 DEF VmInv, Running, KaccInv
  <1>5. PICK vs : vs = mm[current].vmas
    OBVIOUS
  <1>6. kacc \in Seq(Accesses) /\ \A i \in 1 .. Len(kacc) : Allows(vs, kacc[i].v, kacc[i].w)
    BY <1>2, <1>4, <1>5, KaccAllowed
  <1>7. v \in VPages /\ w \in BOOLEAN /\ Allows(vs, v, w)
    <2>1. Head(kacc) \in Accesses /\ Head(kacc) = kacc[1] /\ 1 \in 1 .. Len(kacc)
      BY <1>2, <1>6
    <2> QED BY <1>1, <1>6, <2>1 DEF Accesses
  <1>8. PICK k : k = Tail(kacc)
    OBVIOUS
  <1>9. k \in Seq(Accesses) /\ \A i \in 1 .. Len(k) : Allows(vs, k[i].v, k[i].w)
    <2>1. k \in Seq(Accesses) /\ Len(k) = Len(kacc) - 1
      BY <1>2, <1>6, <1>8
    <2>2. ASSUME NEW i \in 1 .. Len(k) PROVE Allows(vs, k[i].v, k[i].w)
      <3>1. k[i] = kacc[i + 1] /\ i + 1 \in 1 .. Len(kacc)
        BY <1>2, <1>6, <1>8, <2>1
      <3> QED BY <1>6, <3>1
    <2> QED BY <2>1, <2>2
  <1>10. CASE handle_tlbmiss(v, w, TRUE)
    <2>1. PICK ik \in BOOLEAN : ik = TRUE
      OBVIOUS
    <2>2. handle_tlbmiss(v, w, ik) /\ ik /\ Allows(mm[current].vmas, v, w)
      BY <1>5, <1>7, <1>10, <2>1
    <2> QED BY <1>2, <1>4, <1>7, <2>2, MissStep
  <1>11. CASE w /\ Modified(v)
    <2>1. Hits(v) # {} /\ \A lo \in Hits(v) : ~lo.w
      BY <1>11 DEF Modified
    <2>2. PICK lo \in Hits(v) : ~lo.w
      BY <2>1
    <2>3. Allows(mm[current].vmas, v, TRUE)
      BY <1>5, <1>7, <1>11 DEF Allows
    <2> QED BY <1>2, <1>4, <1>7, <2>2, <2>3, HitAllows
  <1>12. CASE w /\ StoreTo(v) /\ kacc' = Tail(kacc) /\ UNCHANGED <<mm, pvars, pgd, panic>>
    <2>1. PICK q : /\ m' = q /\ Mem(q, Dirs(Space), Stacks(kstack), {}) /\ Outside(m, q, pgd)
                   /\ Covered(q, pgd, mm[current].vmas) /\ q.err = "ok" /\ Reflects(q, pgd)
      BY <1>2, <1>4, <1>7, <1>12, StoreFacts
    <2>2. kacc' = k /\ UNCHANGED <<mm, cr3, st, kstack, nmm, todo, current, pgd, panic>>
      BY <1>8, <1>12 DEF pvars
    <2> QED BY <1>2, <1>4, <1>5, <1>9, <2>1, <2>2, MemStep
  <1>13. CASE kacc' = Tail(kacc) /\ UNCHANGED <<m, mm, pvars, pgd, panic>>
    <2>1. PICK q : q = m
      OBVIOUS
    <2>2. /\ Mem(q, Dirs(Space), Stacks(kstack), {}) /\ Covered(q, pgd, mm[current].vmas)
          /\ q.err = "ok" /\ Reflects(q, pgd)
      BY <1>2, <1>4, <2>1, UserFacts DEF World
    <2>3. Outside(m, q, pgd) /\ m' = q
      BY <1>13, <2>1, SpaceReflexive DEF Outside
    <2>4. kacc' = k /\ UNCHANGED <<mm, cr3, st, kstack, nmm, todo, current, pgd, panic>>
      BY <1>8, <1>13 DEF pvars
    <2> QED BY <1>2, <1>4, <1>5, <1>9, <2>2, <2>3, <2>4, MemStep
  <1> QED BY <1>3, <1>10, <1>11, <1>12, <1>13

\* A directory that is empty: nothing is mapped, no table.
LEMMA EmptyDir ==
    ASSUME NEW q, NEW d, q.dir[d] = NoDir
    PROVE  Covered(q, d, <<>>)
  <1>1. \A k \in Tables : q.dir[d][k] = 0
    BY DEF NoDir
  <1>2. \A v \in VPages : Pte(q, d, v) = NoPte
    <2>1. ASSUME NEW v \in VPages PROVE Pte(q, d, v) = NoPte
      <3>1. Tb(v) \in Tables
        BY Parts
      <3> QED BY <1>1, <3>1, PteIs
    <2> QED BY <2>1
  <1> QED BY <1>1, <1>2 DEF Covered, Maps

LEMMA FreshMM ==
    ASSUME NEW d \in Pages, NEW x, x = [NoMM EXCEPT !.pgdir = d]
    PROVE  x \in Spaces /\ SoundMM(x) /\ x.pgdir = d /\ x.vmas = <<>> /\ x # NoMM
  <1>1. x = [vmas |-> <<>>, cache |-> NoVma, pgdir |-> d]
    BY DEF NoMM
  <1>2. x.vmas = <<>> /\ x.cache = NoVma /\ x.pgdir = d
    BY <1>1
  <1>3. PICK vs \in Seq(Areas) : vs = <<>>
    <2>1. <<>> \in Seq(Areas)
      OBVIOUS
    <2> QED BY <2>1
  <1>4. Sorted(vs)
    <2>1. Len(vs) = 0
      BY <1>3
    <2> QED BY <2>1 DEF Sorted, InBounds
  <1>5. x \in Spaces
    BY <1>1, <1>3, NoMMIs, FrameKinds DEF Spaces
  <1> QED BY <1>2, <1>3, <1>4, <1>5, RealMM DEF SoundMM

\* What the current process has left when do_execve has given its space back.
LEMMA ExecDrops ==
    ASSUME VmInv, panic = "no", NEW c \in Procs, c = current, st[c] \in {"user", "kthread"},
           NEW r, r = (IF mm[c] = NoMM THEN m ELSE Destroy(m, mm[c])),
           NEW ws1, ws1 = [Space EXCEPT ![c] = NoMM]
    PROVE  /\ World(r, ws1, kstack) /\ r.err = "ok" /\ r.tlb = {} /\ TypeOK /\ StatusInv /\ Running
           /\ Space \in [Procs -> Spaces] /\ ws1 \in [Procs -> Spaces] /\ ws1[c] = NoMM
           /\ \A p \in Procs : p # c => ws1[p] = Space[p]
  <1>1. TypeOK /\ StatusInv /\ Running /\ World(m, Space, kstack) /\ m.err = "ok"
    BY DEF VmInv, Running
  <1>2. PICK ws, r0 : ws = Space /\ r0 = m
    OBVIOUS
  <1>3. ws \in [Procs -> Spaces] /\ ws[c] = mm[c]
    <2>1. Space \in [Procs -> Spaces] /\ Space[c] = mm[c]
      BY <1>1, SpaceIs
    <2> QED BY <1>2, <2>1
  <1>4. /\ ws1 \in [Procs -> Spaces] /\ ws1[c] = NoMM
        /\ \A p \in Procs : p # c => ws1[p] = ws[p]
    BY <1>2, <1>3, NoMMIs
  <1>5. CASE st[c] = "kthread"
    <2>1. mm[c] = NoMM
      BY <1>1, <1>5 DEF StatusInv
    <2>2. r = m /\ ws1 = ws
      BY <1>2, <1>3, <2>1
    <2>3. m.tlb = {}
      BY <1>1, <1>5 DEF Running, TlbInv, UserRuns
    <2> QED BY <1>1, <1>2, <1>3, <1>4, <2>2, <2>3
  <1>6. CASE st[c] = "user"
    <2>1. mm[c] # NoMM
      BY <1>1, <1>6 DEF StatusInv
    <2>2. Reflects(r0, mm[c].pgdir)
      BY <1>1, <1>2, <1>6 DEF Running, TlbInv, UserRuns
    <2>3. ws1 = [ws EXCEPT ![c] = NoMM] /\ r = Destroy(r0, ws[c])
      BY <1>2, <1>3, <2>1
    <2>4. Drops(r0, r, ws, kstack, c, ws1)
      BY <1>1, <1>2, <1>3, <2>1, <2>3, NoMMIs DEF Drops, Given
    <2>5. World(r, ws1, kstack) /\ Destroyed(r0, r, ws[c].pgdir)
      BY <2>4, WorldDrop
    <2>6. r.tlb = {} /\ r.err = "ok"
      BY <1>1, <1>2, <1>3, <2>2, <2>5, TlbGone DEF Destroyed
    <2> QED BY <1>1, <1>2, <1>3, <1>4, <2>5, <2>6
  <1> QED BY <1>5, <1>6

LEMMA ExecveStep ==
    ASSUME VmInv, NEW prog \in Progs, NEW mem, do_execve(prog, mem)
    PROVE  VmInv'
  <1>1. PICK c, r : c = current /\ r = (IF mm[c] = NoMM THEN m ELSE Destroy(m, mm[c]))
    OBVIOUS
  <1>2. PICK ok, q, x : /\ ok = (mem /\ setup_pgdir(r).err = "ok") /\ q = setup_pgdir(r)
                        /\ x = [NoMM EXCEPT !.pgdir = alloc_page(r)]
    OBVIOUS
  <1>3. /\ panic = "no" /\ c \in Procs /\ kacc = <<>> /\ st[c] \in {"user", "kthread"}
        /\ pgd' = (IF mm[c] = NoMM THEN pgd ELSE Boot)
        /\ mm' = [mm EXCEPT ![c] = NoMM]
        /\ m' = (IF ok THEN q ELSE r)
        /\ st' = [st EXCEPT ![c] = IF ok THEN "load" ELSE "zombie"]
        /\ nmm' = (IF ok THEN [nmm EXCEPT ![c] = x] ELSE nmm)
        /\ todo' = (IF ok THEN [todo EXCEPT ![c] = Work(prog)] ELSE todo)
        /\ UNCHANGED <<cr3, kstack, current, kacc, panic>>
    BY <1>1, <1>2 DEF do_execve
  <1>4. PICK ws, ws1 : ws = Space /\ ws1 = [Space EXCEPT ![c] = NoMM]
    OBVIOUS
  <1>5. /\ World(r, ws1, kstack) /\ r.err = "ok" /\ r.tlb = {} /\ TypeOK /\ StatusInv /\ Running
        /\ ws \in [Procs -> Spaces] /\ ws1 \in [Procs -> Spaces] /\ ws1[c] = NoMM
        /\ \A p \in Procs : p # c => ws1[p] = ws[p]
    BY <1>1, <1>3, <1>4, ExecDrops
  <1>6. pgd' \in Frames /\ Boot \in Frames
    BY <1>3, <1>5, FrameKinds DEF TypeOK, Boot
  <1>7. nmm[c] = NoMM
    BY <1>3, <1>5 DEF StatusInv
  <1>8. CASE ~ok
    <2>1. /\ mm' = [mm EXCEPT ![c] = NoMM] /\ m' = r /\ st' = [st EXCEPT ![c] = "zombie"]
          /\ nmm' = nmm /\ todo' = todo
      BY <1>3, <1>8
    <2>2. TypeOK'
      BY <1>3, <1>5, <1>6, <2>1, NoMMIs DEF TypeOK, Statuses
    <2>3. \A p \in Procs : /\ mm'[p] = (IF p = c THEN NoMM ELSE mm[p])
                           /\ st'[p] = (IF p = c THEN "zombie" ELSE st[p])
      BY <1>5, <2>1 DEF TypeOK
    <2>4. StatusInv'
      BY <1>3, <1>5, <1>7, <2>1, <2>3 DEF StatusInv
    <2>5. LoadInv'
      BY <1>3, <1>5, <2>1, <2>3 DEF Running, LoadInv
    <2>6. Space' = ws1
      <3>1. PICK ws2 : ws2 = Space'
        OBVIOUS
      <3>2. ws2 \in [Procs -> Spaces] /\ \A p \in Procs : ws[p] = IF st[p] = "load" THEN nmm[p] ELSE mm[p]
        BY <1>4, <1>5, <2>2, <3>1 DEF TypeOK, Space
      <3>3. \A p \in Procs : ws2[p] = IF st'[p] = "load" THEN nmm'[p] ELSE mm'[p]
        BY <3>1 DEF Space
      <3>4. \A p \in Procs : ws2[p] = IF p = c THEN NoMM ELSE ws[p]
        BY <2>1, <2>3, <3>2, <3>3
      <3> QED BY <1>5, <3>1, <3>2, <3>4
    <2>7. TlbInv' /\ KaccInv'
      BY <1>1, <1>3, <1>5, <2>1, <2>3 DEF TlbInv, KaccInv, UserRuns
    <2>8. World(m', Space', kstack') /\ m'.err = "ok"
      BY <1>3, <1>5, <2>1, <2>6
    <2> QED BY <1>3, <2>2, <2>4, <2>5, <2>7, <2>8 DEF VmInv, PanicInv, Running, World
  <1>9. CASE ok
    <2>1. /\ mm' = [mm EXCEPT ![c] = NoMM] /\ m' = q /\ st' = [st EXCEPT ![c] = "load"]
          /\ nmm' = [nmm EXCEPT ![c] = x] /\ todo' = [todo EXCEPT ![c] = Work(prog)]
      BY <1>3, <1>9
    <2>2. PICK D, K, d : D = Dirs(ws1) /\ K = Stacks(kstack) /\ d = alloc_page(r)
      OBVIOUS
    <2>3. Mem(r, D, K, {}) /\ r \in Mems
      BY <1>5, <2>2 DEF World, Mem
    <2>4. r.free # {}
      <3>1. SUFFICES ASSUME r.free = {} PROVE FALSE
        OBVIOUS
      <3>2. q = [r EXCEPT !.err = "nomem"] /\ "nomem" \in Errs
        BY <1>2, <3>1 DEF setup_pgdir, nomem, Errs
      <3>3. q.err = "nomem"
        BY <2>3, <3>2, ErrFields
      <3> QED BY <1>2, <1>9, <3>3
    <2>5. /\ d \in Pages \ D /\ Mem(q, D \union {d}, K, {})
          /\ (\A y \in Frames : SameSpace(r, q, y))
          /\ q.err = r.err /\ q.tlb = r.tlb /\ q.dir[d] = NoDir
      <3>1. PICK G : G = {}
        OBVIOUS
      <3>2. Mem(r, D, K, G)
        BY <2>3, <3>1
      <3>3. /\ d \in Pages \ D /\ Mem(q, D \union {d}, K, G)
            /\ (\A y \in Frames : SameSpace(r, q, y))
            /\ q.err = r.err /\ q.tlb = r.tlb /\ q.dir[d] = NoDir
        BY <1>2, <2>2, <2>4, <3>2, SetupPgdir
      <3> QED BY <3>1, <3>3
    <2>6. x \in Spaces /\ SoundMM(x) /\ x.pgdir = d /\ x.vmas = <<>> /\ x # NoMM
      BY <1>2, <2>2, <2>5, FreshMM
    <2>7. Covered(q, x.pgdir, x.vmas)
      BY <2>5, <2>6, EmptyDir
    <2>8. PICK w : w = Work(prog)
      OBVIOUS
    <2>9. w \in Works /\ ~w.mapped
      <3>1. PICK ss \in Seq(Segment) : ss = Segs[prog]
        BY VmAssumption
      <3>2. w = [segs |-> ss, mapped |-> FALSE, at |-> 0]
        BY <2>8, <3>1 DEF Work, NoWork
      <3> QED BY <3>2 DEF Works
    <2>10. TypeOK'
      BY <1>3, <1>5, <1>6, <2>1, <2>6, <2>8, <2>9, NoMMIs DEF TypeOK, Statuses
    <2>11. \A p \in Procs : /\ mm'[p] = (IF p = c THEN NoMM ELSE mm[p])
                            /\ st'[p] = (IF p = c THEN "load" ELSE st[p])
                            /\ nmm'[p] = (IF p = c THEN x ELSE nmm[p])
                            /\ todo'[p] = (IF p = c THEN w ELSE todo[p])
      BY <1>5, <2>1, <2>8 DEF TypeOK
    <2>12. StatusInv'
      BY <1>3, <1>5, <2>6, <2>11 DEF StatusInv
    <2>13. LoadInv'
      BY <1>5, <2>9, <2>11 DEF Running, LoadInv, TodoOk
    <2>14. PICK ws2 : ws2 = Space'
      OBVIOUS
    <2>15. ws2 = [ws1 EXCEPT ![c] = x]
      <3>1. ws2 \in [Procs -> Spaces] /\ \A p \in Procs : ws[p] = IF st[p] = "load" THEN nmm[p] ELSE mm[p]
        BY <1>4, <1>5, <2>10, <2>14 DEF TypeOK, Space
      <3>2. \A p \in Procs : ws2[p] = IF st'[p] = "load" THEN nmm'[p] ELSE mm'[p]
        BY <2>14 DEF Space
      <3>3. \A p \in Procs : ws2[p] = IF p = c THEN x ELSE ws1[p]
        BY <1>5, <2>11, <3>1, <3>2
      <3> QED BY <1>5, <2>6, <3>1, <3>3
    <2>16. World(q, ws2, kstack)
      <3>1. Given(ws1, c, x, ws2)
        BY <1>3, <1>5, <2>6, <2>15 DEF Given
      <3>2. Outside(r, q, x.pgdir)
        BY <2>5 DEF Outside
      <3>3. Mem(q, Dirs(ws1) \union {x.pgdir}, Stacks(kstack), {}) /\ x.pgdir \in Pages \ Dirs(ws1)
        BY <2>2, <2>5, <2>6
      <3>4. Grows(r, q, ws1, kstack, c, x, ws2)
        BY <1>5, <2>6, <2>7, <3>1, <3>2, <3>3 DEF Grows
      <3> QED BY <3>4, WorldGrow
    <2>17. TlbInv' /\ KaccInv'
      BY <1>1, <1>3, <1>5, <2>1, <2>5, <2>11 DEF TlbInv, KaccInv, UserRuns
    <2>18. World(m', Space', kstack') /\ m'.err = "ok"
      BY <1>3, <1>5, <2>1, <2>5, <2>14, <2>16
    <2> QED BY <1>3, <2>10, <2>12, <2>13, <2>17, <2>18 DEF VmInv, PanicInv, Running, World
  <1> QED BY <1>2, <1>8, <1>9


-----------------------------------------------------------------------------
(* do_fork                                                                 *)

LEMMA StackTaken ==
    ASSUME NEW F \in SUBSET Pages, Cardinality(F) > KSTACKPAGE, NEW ks, ks = StackFrom(F)
    PROVE  ks \in SUBSET F /\ Cardinality(ks) = KSTACKPAGE /\ F \ ks # {}
  <1>1. F \in SUBSET Nat
    BY FrameKinds
  <1>2. F # {}
    <2>1. Cardinality({}) = 0
      BY FS_EmptySet
    <2> QED BY <2>1 DEF KSTACKPAGE
  <1>3. PICK a \in F : \A y \in F : a <= y
    BY <1>1, <1>2, LeastNumber
  <1>4. PICK G : G = F \ {a}
    OBVIOUS
  <1>5. G # {}
    <2>1. Cardinality({a}) = 1
      BY FS_Singleton
    <2>2. G = {} => F = {a}
      BY <1>3, <1>4
    <2> QED BY <2>1, <2>2 DEF KSTACKPAGE
  <1>6. PICK b \in G : \A y \in G : b <= y
    <2>1. G \in SUBSET Nat
      BY <1>1, <1>4
    <2> QED BY <1>5, <2>1, LeastNumber
  <1>7. PICK S : S = {a} \union {b}
    OBVIOUS
  <1>8. Cardinality(S) = 2
    <2>1. IsFiniteSet({a}) /\ Cardinality({a}) = 1
      BY FS_Singleton
    <2>2. b \notin {a}
      BY <1>4, <1>6
    <2>3. Cardinality({a} \union {b}) = Cardinality({a}) + 1
      BY <2>1, <2>2, FS_AddElement
    <2> QED BY <1>7, <2>1, <2>3
  <1>9. \A x \in S, y \in F \ S : x < y
    <2>1. ASSUME NEW x \in S, NEW y \in F \ S PROVE x < y
      <3>1. x \in Nat /\ y \in Nat /\ y \in G /\ y # a /\ y # b /\ (x = a \/ x = b)
        BY <1>1, <1>3, <1>4, <1>6, <1>7
      <3>2. a <= y /\ b <= y
        BY <1>3, <1>6, <3>1
      <3> QED BY <1>1, <3>1, <3>2
    <2> QED BY <2>1
  <1>10. S \in kSubset(KSTACKPAGE, F)
    BY <1>3, <1>4, <1>6, <1>7, <1>8 DEF kSubset, KSTACKPAGE
  <1>11. ks \in kSubset(KSTACKPAGE, F)
    BY <1>9, <1>10 DEF StackFrom
  <1>12. ks \in SUBSET F /\ Cardinality(ks) = KSTACKPAGE
    BY <1>11 DEF kSubset
  <1>13. F \ ks # {}
    <2>1. F \ ks = {} => ks = F
      BY <1>12
    <2> QED BY <1>12, <2>1 DEF KSTACKPAGE
  <1> QED BY <1>12, <1>13

\* What changes is the space of a directory that no process has.
LEMMA GoodOutside ==
    ASSUME NEW r, NEW q, NEW ws, NEW d, Good(r, ws), Outside(r, q, d), d \notin Dirs(ws)
    PROVE  Good(q, ws)
  <1>1. SUFFICES ASSUME NEW p \in Procs, ws[p] # NoMM
                 PROVE  SoundMM(ws[p]) /\ Covered(q, ws[p].pgdir, ws[p].vmas)
    BY DEF Good
  <1>2. SoundMM(ws[p]) /\ Covered(r, ws[p].pgdir, ws[p].vmas)
    BY <1>1 DEF Good
  <1>3. ws[p].pgdir # d /\ ws[p].pgdir \in Frames
    BY <1>1, <1>2, SpaceFields DEF Dirs, SoundMM
  <1>4. SameSpace(r, q, ws[p].pgdir)
    BY <1>3 DEF Outside
  <1> QED BY <1>2, <1>4, CoveredSame

LEMMA UserSame ==
    ASSUME VmInv, panic = "no", UserRuns, NEW q, m' = q, World(q, Space, kstack), q.err = "ok",
           Reflects(q, pgd),
           UNCHANGED <<mm, cr3, st, kstack, nmm, todo, current, pgd, kacc, panic>>
    PROVE  VmInv'
  <1>1. TypeOK /\ StatusInv /\ Running /\ pgd = mm[current].pgdir
    BY UserFacts
  <1>2. TypeOK' /\ StatusInv' /\ Space' = Space
    BY <1>1 DEF TypeOK, StatusInv, Space
  <1>3. LoadInv' /\ KaccInv' /\ TlbInv'
    BY <1>1 DEF Running, LoadInv, KaccInv, TlbInv, UserRuns
  <1>4. panic' = "no"
    OBVIOUS
  <1> QED BY <1>2, <1>3, <1>4 DEF VmInv, PanicInv, Running, World

\* What do_fork works with: the memory without the new stack, and the copy.
ForkTakes(D, K, ks, r) ==
    /\ D = Dirs(Space) /\ K = Stacks(kstack) /\ ks = StackFrom(m.free)
    /\ r = [m EXCEPT !.free = @ \ ks]
ForkTook(D, K, ks, r) ==
    /\ Mem(r, D, K \union ks, {}) /\ (\A c \in Frames : SameSpace(m, r, c))
    /\ r.err = "ok" /\ r.tlb = m.tlb /\ r.free # {} /\ ks \in SUBSET Pages
    /\ Cardinality(ks) = KSTACKPAGE /\ ks \intersect K = {} /\ ks \intersect D = {}
    /\ Good(r, Space) /\ Reflects(r, pgd)

LEMMA ForkTaken ==
    ASSUME VmInv, panic = "no", UserRuns, Cardinality(m.free) > KSTACKPAGE,
           NEW D, NEW K, NEW ks, NEW r, ForkTakes(D, K, ks, r)
    PROVE  ForkTook(D, K, ks, r)
  <1>1. World(m, Space, kstack) /\ m.err = "ok" /\ Reflects(m, pgd) /\ pgd \in Frames
    BY UserFacts
  <1>2. /\ D = Dirs(Space) /\ K = Stacks(kstack) /\ ks = StackFrom(m.free)
        /\ r = [m EXCEPT !.free = @ \ ks]
    BY DEF ForkTakes
  <1>3. Mem(m, D, K, {}) /\ m \in Mems /\ m.free \in SUBSET Pages
    BY <1>1, <1>2, MemTypes DEF World, Mem
  <1>4. ks \in SUBSET m.free /\ Cardinality(ks) = KSTACKPAGE /\ m.free \ ks # {}
    BY <1>2, <1>3, StackTaken
  <1>5. /\ r \in Mems /\ r.free = m.free \ ks /\ r.dir = m.dir /\ r.tab = m.tab /\ r.ref = m.ref
        /\ r.tlb = m.tlb /\ r.err = m.err
    BY <1>2, <1>3 DEF Mems
  <1>6. Mem(r, D, K \union ks, {}) /\ (\A c \in Frames : SameSpace(m, r, c))
    <2>1. PICK G : G = {}
      OBVIOUS
    <2>2. Mem(m, D, K, G)
      BY <1>3, <2>1
    <2>3. Mem(r, D, K \union ks, G) /\ (\A c \in Frames : SameSpace(m, r, c))
      BY <1>4, <1>5, <2>2, TakePages
    <2> QED BY <2>1, <2>3
  <1>7. ks \intersect K = {} /\ ks \intersect D = {}
    <2>1. PICK kd, at, ix : Owned(m, kd, at, ix, D, K, {})
      BY <1>3 DEF Mem
    <2>2. \A p \in Pages : /\ kd[p] = "free" <=> p \in m.free
                           /\ kd[p] = "stack" <=> p \in K
                           /\ kd[p] = "dir" <=> p \in D
      BY <2>1 DEF Owned
    <2> QED BY <1>3, <1>4, <2>2
  <1>8. Good(r, Space)
    <2>1. SUFFICES ASSUME NEW p \in Procs, Space[p] # NoMM
                   PROVE  SoundMM(Space[p]) /\ Covered(r, Space[p].pgdir, Space[p].vmas)
      BY DEF Good
    <2>2. SoundMM(Space[p]) /\ Covered(m, Space[p].pgdir, Space[p].vmas)
      BY <1>1, <2>1 DEF World, Good
    <2>3. Space[p].pgdir \in Frames
      BY <2>2, SpaceFields DEF SoundMM
    <2> QED BY <1>6, <2>2, <2>3, CoveredSame
  <1>9. Reflects(r, pgd)
    BY <1>1, <1>5, <1>6, TlbKept DEF SameSpace, SamePtes
  <1> QED BY <1>1, <1>3, <1>4, <1>5, <1>6, <1>7, <1>8, <1>9 DEF ForkTook

\* A fork that fails after the stack has been taken: q is r with the copy, if
\* there was one, given back.
LEMMA ForkFails ==
    ASSUME VmInv, panic = "no", UserRuns, Cardinality(m.free) > KSTACKPAGE,
           NEW D, NEW K, NEW ks, NEW r, ForkTakes(D, K, ks, r),
           NEW q, NEW d, Mem(q, D, K \union ks, {}), Outside(r, q, d), d \notin D,
           q.tlb = r.tlb \/ q.tlb = {},
           m' = Ok(free_pages(q, ks)),
           UNCHANGED <<mm, cr3, st, kstack, nmm, todo, current, pgd, kacc, panic>>
    PROVE  VmInv'
  <1>1. /\ Mem(r, D, K \union ks, {}) /\ ks \in SUBSET Pages
        /\ ks \intersect K = {} /\ ks \intersect D = {}
        /\ Good(r, Space) /\ Reflects(r, pgd)
    <2>1. ForkTook(D, K, ks, r)
      BY ForkTaken
    <2> QED BY <2>1 DEF ForkTook
  <1>2. D = Dirs(Space) /\ K = Stacks(kstack) /\ World(m, Space, kstack)
        /\ pgd \in Frames /\ pgd \in D
    BY UserFacts DEF ForkTakes
  <1>3. PICK t, u : t = free_pages(q, ks) /\ u = Ok(t)
    OBVIOUS
  <1>4. Mem(t, D, K, {}) /\ (\A c \in Frames : SameSpace(q, t, c)) /\ t.tlb = q.tlb
    <2>1. PICK G, K2 : G = {} /\ K2 = K \union ks
      OBVIOUS
    <2>2. GivesBack(q, t, D, K2, G, ks)
      BY <1>1, <1>3, <2>1 DEF GivesBack
    <2>3. Mem(t, D \ ks, K2 \ ks, G \ ks) /\ (\A c \in Frames : SameSpace(q, t, c))
          /\ t.tlb = q.tlb
      BY <2>2, FreePlain
    <2>4. D \ ks = D /\ K2 \ ks = K /\ G \ ks = {}
      BY <1>1, <2>1
    <2> QED BY <2>3, <2>4
  <1>5. /\ u \in Mems /\ u.free = t.free /\ u.dir = t.dir /\ u.tab = t.tab /\ u.ref = t.ref
        /\ u.tlb = t.tlb /\ u.err = "ok"
    <2>1. u = [t EXCEPT !.err = "ok"] /\ "ok" \in Errs
      BY <1>3 DEF Ok, Errs
    <2>2. t \in Mems
      BY <1>4 DEF Mem
    <2> QED BY <2>1, <2>2, ErrFields
  <1>6. Mem(u, D, K, {}) /\ \A c : SameSpace(t, u, c)
    BY <1>4, <1>5, SameTables
  <1>7. Outside(r, u, d)
    BY <1>4, <1>6, SpaceTransitive DEF Outside
  <1>8. Good(u, Space)
    BY <1>1, <1>2, <1>7, GoodOutside
  <1>9. World(u, Space, kstack)
    BY <1>2, <1>6, <1>8 DEF World
  <1>10. Reflects(u, pgd)
    <2>1. SameSpace(r, u, pgd)
      BY <1>2, <1>7 DEF Outside
    <2> QED BY <1>1, <1>4, <1>5, <2>1, TlbKept DEF SameSpace, SamePtes
  <1>11. m' = u /\ u.err = "ok"
    BY <1>3, <1>5
  <1> QED BY <1>9, <1>10, <1>11, UserSame

\* A fork that succeeds: c has the copy.
ForkGives(c, ks, x, d, y) ==
    /\ y = [vmas |-> x.vmas, cache |-> NoVma, pgdir |-> d]
    /\ m' = x.r /\ mm' = [mm EXCEPT ![c] = y] /\ cr3' = [cr3 EXCEPT ![c] = y.pgdir]
    /\ st' = [st EXCEPT ![c] = "user"] /\ kstack' = [kstack EXCEPT ![c] = ks]
    /\ UNCHANGED <<nmm, todo, current, pgd, kacc, panic>>

LEMMA ForkWorks ==
    ASSUME VmInv, panic = "no", UserRuns, kacc = <<>>, Cardinality(m.free) > KSTACKPAGE,
           NEW D, NEW K, NEW ks, NEW r, ForkTakes(D, K, ks, r),
           NEW x, NEW d, Forked(r, x, D, K \union ks, d), x.r.err = "ok",
           NEW c \in Procs, st[c] = "none",
           NEW y, ForkGives(c, ks, x, d, y)
    PROVE  VmInv'
  <1>0. /\ y = [vmas |-> x.vmas, cache |-> NoVma, pgdir |-> d]
        /\ m' = x.r /\ mm' = [mm EXCEPT ![c] = y] /\ cr3' = [cr3 EXCEPT ![c] = y.pgdir]
        /\ st' = [st EXCEPT ![c] = "user"] /\ kstack' = [kstack EXCEPT ![c] = ks]
        /\ UNCHANGED <<nmm, todo, current, pgd, kacc, panic>>
    BY DEF ForkGives
  <1>1. /\ Mem(r, D, K \union ks, {}) /\ ks \in SUBSET Pages
        /\ Cardinality(ks) = KSTACKPAGE /\ ks \intersect K = {}
        /\ Good(r, Space) /\ Reflects(r, pgd)
    <2>1. ForkTook(D, K, ks, r)
      BY ForkTaken
    <2> QED BY <2>1 DEF ForkTook
  <1>2. /\ D = Dirs(Space) /\ K = Stacks(kstack) /\ World(m, Space, kstack)
        /\ pgd \in Frames /\ pgd \in D /\ TypeOK /\ StatusInv /\ Running
        /\ pgd = mm[current].pgdir /\ current \in Procs /\ st[current] = "user"
    BY UserFacts DEF ForkTakes
  <1>3. PICK q : q = x.r
    OBVIOUS
  <1>4. /\ d \in Pages \ D /\ x.vmas \in Seq(Areas) /\ Sorted(x.vmas)
        /\ Mem(q, D \union {d}, K \union ks, {}) /\ Outside(r, q, d) /\ Covered(q, d, x.vmas)
        /\ (q.tlb = r.tlb \/ q.tlb = {}) /\ q.err = "ok"
    BY <1>3 DEF Forked
  <1>5. y.vmas = x.vmas /\ y.cache = NoVma /\ y.pgdir = d /\ y \in Spaces
    BY <1>0, <1>4, NoMMIs, FrameKinds DEF Spaces
  <1>6. SoundMM(y) /\ y # NoMM /\ Covered(q, y.pgdir, y.vmas)
    BY <1>4, <1>5, RealMM DEF SoundMM
  <1>7. TypeOK'
    BY <1>0, <1>1, <1>2, <1>4, <1>5, FrameKinds DEF TypeOK, Statuses
  <1>8. \A p \in Procs : /\ mm'[p] = (IF p = c THEN y ELSE mm[p])
                         /\ cr3'[p] = (IF p = c THEN y.pgdir ELSE cr3[p])
                         /\ st'[p] = (IF p = c THEN "user" ELSE st[p])
                         /\ kstack'[p] = (IF p = c THEN ks ELSE kstack[p])
    BY <1>0, <1>2 DEF TypeOK
  <1>9. mm[c] = NoMM /\ nmm[c] = NoMM /\ kstack[c] = {}
    BY <1>2 DEF StatusInv
  <1>10. StatusInv'
    BY <1>0, <1>2, <1>6, <1>8, <1>9 DEF StatusInv
  <1>11. LoadInv'
    BY <1>0, <1>2, <1>8 DEF Running, LoadInv
  <1>12. PICK ws, ws2, k, k2 : ws = Space /\ ws2 = Space' /\ k = kstack /\ k2 = kstack'
    OBVIOUS
  <1>13. ws2 = [ws EXCEPT ![c] = y] /\ ws \in [Procs -> Spaces] /\ ws[c] = NoMM
    <2>1. ws \in [Procs -> Spaces] /\ ws2 \in [Procs -> Spaces]
          /\ \A p \in Procs : ws[p] = IF st[p] = "load" THEN nmm[p] ELSE mm[p]
      BY <1>2, <1>7, <1>12 DEF TypeOK, Space
    <2>2. \A p \in Procs : ws2[p] = IF st'[p] = "load" THEN nmm'[p] ELSE mm'[p]
      BY <1>12 DEF Space
    <2>3. \A p \in Procs : ws2[p] = IF p = c THEN y ELSE ws[p]
      BY <1>0, <1>8, <2>1, <2>2
    <2> QED BY <1>5, <1>9, <2>1, <2>3
  <1>14. Apiece(ws, k2) /\ Stacks(k2) = K \union ks
    <2>1. Stacked(k, c, ks, k2)
      BY <1>0, <1>1, <1>2, <1>12 DEF TypeOK, Stacked
    <2>2. Apiece(ws, k) /\ k[c] = {} /\ ks \intersect Stacks(k) = {} /\ K = Stacks(k)
      BY <1>1, <1>2, <1>9, <1>12 DEF World
    <2> QED BY <1>1, <2>1, <2>2, StackAdd
  <1>15. World(r, ws, k2)
    BY <1>1, <1>2, <1>12, <1>14 DEF World
  <1>16. World(q, ws2, k2)
    <2>1. Given(ws, c, y, ws2)
      BY <1>5, <1>13 DEF Given
    <2>2. y.pgdir \in Pages \ Dirs(ws) /\ Mem(q, Dirs(ws) \union {y.pgdir}, Stacks(k2), {})
          /\ Outside(r, q, y.pgdir)
      BY <1>2, <1>4, <1>5, <1>12, <1>14
    <2>3. Grows(r, q, ws, k2, c, y, ws2)
      BY <1>6, <1>13, <1>15, <2>1, <2>2 DEF Grows
    <2> QED BY <2>3, WorldGrow
  <1>17. Reflects(q, pgd)
    <2>1. SameSpace(r, q, pgd)
      BY <1>2, <1>4 DEF Outside
    <2> QED BY <1>1, <1>4, <2>1, TlbKept DEF SameSpace, SamePtes
  <1>18. TlbInv' /\ KaccInv'
    <2>1. current # c
      BY <1>2
    <2>2. UserRuns' /\ mm'[current'] = mm[current]
      BY <1>0, <1>2, <1>8, <2>1 DEF UserRuns
    <2>3. Reflects(m', pgd') /\ pgd' = mm'[current'].pgdir
      BY <1>0, <1>2, <1>3, <1>17, <2>2
    <2> QED BY <1>0, <2>2, <2>3 DEF TlbInv, KaccInv
  <1>19. World(m', Space', kstack') /\ m'.err = "ok" /\ panic' = "no"
    BY <1>0, <1>3, <1>4, <1>12, <1>16
  <1> QED BY <1>0, <1>7, <1>10, <1>11, <1>18, <1>19 DEF VmInv, PanicInv, Running, World

LEMMA ForkStep ==
    ASSUME VmInv, NEW c \in Procs, NEW k, do_fork(c, k)
    PROVE  VmInv'
  <1>1. PICK ks, r, d : /\ ks = StackFrom(m.free) /\ r = [m EXCEPT !.free = @ \ ks]
                        /\ d = alloc_page(r)
    OBVIOUS
  <1>2. PICK a, x : a = mm[current] /\ x = dup_mmap(setup_pgdir(r), d, a, k)
    OBVIOUS
  <1>3. PICK y : y = [vmas |-> x.vmas, cache |-> NoVma, pgdir |-> d]
    OBVIOUS
  <1>4. PICK q : q = IF x.r.err = "nomem" THEN Destroy(x.r, y) ELSE x.r
    OBVIOUS
  <1>5. copy_mm([m EXCEPT !.free = @ \ ks], k) = [mm |-> y, r |-> q]
    BY <1>1, <1>2, <1>3, <1>4 DEF copy_mm
  <1>6. /\ InUser /\ kacc = <<>> /\ st[c] = "none" /\ Cardinality(m.free) > KSTACKPAGE
        /\ \/ /\ q.err = "panic" /\ m' = q /\ panic' = "copy_range"
              /\ UNCHANGED <<mm, cr3, st, kstack>>
           \/ /\ q.err = "nomem" /\ m' = Ok(free_pages(q, ks))
              /\ UNCHANGED <<mm, cr3, st, kstack, panic>>
           \/ /\ q.err = "ok" /\ m' = q
              /\ mm' = [mm EXCEPT ![c] = y]
              /\ cr3' = [cr3 EXCEPT ![c] = y.pgdir]
              /\ st' = [st EXCEPT ![c] = "user"]
              /\ kstack' = [kstack EXCEPT ![c] = ks]
              /\ UNCHANGED panic
        /\ UNCHANGED <<nmm, todo, current, pgd, kacc>>
    <2>1. PICK cp : cp = copy_mm([m EXCEPT !.free = @ \ ks], k)
      OBVIOUS
    <2>2. cp.r = q /\ cp.mm = y
      BY <1>5, <2>1
    <2> QED BY <1>1, <2>1, <2>2 DEF do_fork
  <1>7. panic = "no" /\ UserRuns
    BY <1>6 DEF InUser, UserRuns
  <1>8. PICK D, K : D = Dirs(Space) /\ K = Stacks(kstack)
    OBVIOUS
  <1>9. ForkTakes(D, K, ks, r)
    BY <1>1, <1>8 DEF ForkTakes
  <1>10. /\ Mem(r, D, K \union ks, {}) /\ (\A z \in Frames : SameSpace(m, r, z))
         /\ r.err = "ok" /\ r.free # {} /\ Good(r, Space)
    <2>1. ForkTook(D, K, ks, r)
      BY <1>6, <1>7, <1>9, ForkTaken
    <2> QED BY <2>1 DEF ForkTook
  <1>11. /\ TypeOK /\ StatusInv /\ SoundMM(a) /\ a.pgdir \in D /\ a.pgdir \in Frames
         /\ Covered(m, a.pgdir, a.vmas)
    BY <1>2, <1>7, <1>8, UserFacts
  <1>12. Forked(r, x, D, K \union ks, d)
    <2>1. Covered(r, a.pgdir, a.vmas)
      BY <1>10, <1>11, CoveredSame
    <2>2. Forks(r, D, K \union ks, a)
      BY <1>10, <1>11, <2>1 DEF Forks
    <2> QED BY <1>1, <1>2, <2>2, DupMm
  <1>13. d \in Pages \ D /\ Outside(r, x.r, d) /\ (x.r.err = "panic" => x.r.free = {})
         /\ x.r.err \in {"ok", "nomem", "panic"}
    BY <1>12 DEF Forked
  <1>14. ASSUME x.r.err = "nomem"
         PROVE  /\ Mem(q, D, K \union ks, {}) /\ Outside(r, q, d) /\ q.err = "nomem"
                /\ (q.tlb = r.tlb \/ q.tlb = {})
    <2>1. y.vmas = x.vmas /\ y.pgdir = d /\ q = Destroy(x.r, y)
      BY <1>3, <1>4, <1>14
    <2>2. /\ Mem(q, D, K \union ks, {}) /\ Outside(r, q, d) /\ q.err = x.r.err
          /\ (q.tlb = r.tlb \/ q.tlb = {})
      BY <1>12, <2>1, DropMm
    <2> QED BY <1>14, <2>2
  <1>15. CASE /\ q.err = "panic" /\ m' = q /\ panic' = "copy_range"
              /\ UNCHANGED <<mm, cr3, st, kstack>>
    <2>1. q = x.r /\ q.free = {}
      BY <1>4, <1>13, <1>14, <1>15
    <2>2. Good(q, Space)
      BY <1>8, <1>10, <1>13, <2>1, GoodOutside
    <2>3. Space' = Space
      BY <1>6, <1>15 DEF Space
    <2>4. Good(m', Space') /\ TypeOK' /\ StatusInv'
      BY <1>6, <1>11, <1>15, <2>2, <2>3 DEF TypeOK, StatusInv
    <2>5. PanicInv' /\ panic' # "no"
      BY <1>15, <2>1 DEF PanicInv
    <2> QED BY <2>4, <2>5 DEF VmInv
  <1>16. CASE /\ q.err = "nomem" /\ m' = Ok(free_pages(q, ks))
              /\ UNCHANGED <<mm, cr3, st, kstack, panic>>
    <2>1. x.r.err = "nomem"
      BY <1>4, <1>16
    <2>2. /\ Mem(q, D, K \union ks, {}) /\ Outside(r, q, d) /\ d \notin D
          /\ (q.tlb = r.tlb \/ q.tlb = {})
      BY <1>13, <1>14, <2>1
    <2> QED BY <1>6, <1>7, <1>9, <1>16, <2>2, ForkFails
  <1>17. CASE /\ q.err = "ok" /\ m' = q
              /\ mm' = [mm EXCEPT ![c] = y]
              /\ cr3' = [cr3 EXCEPT ![c] = y.pgdir]
              /\ st' = [st EXCEPT ![c] = "user"]
              /\ kstack' = [kstack EXCEPT ![c] = ks]
              /\ UNCHANGED panic
    <2>1. q = x.r /\ x.r.err = "ok"
      BY <1>4, <1>14, <1>17
    <2>2. m' = x.r
      BY <1>17, <2>1
    <2>3. UNCHANGED <<nmm, todo, current, pgd, kacc, panic>>
      BY <1>6, <1>17
    <2>4. ForkGives(c, ks, x, d, y)
      BY <1>3, <1>17, <2>2, <2>3 DEF ForkGives
    <2> QED BY <1>6, <1>7, <1>9, <1>12, <2>1, <2>4, ForkWorks
  <1> QED BY <1>6, <1>15, <1>16, <1>17


-----------------------------------------------------------------------------
(* The theorems                                                            *)

LEMMA StepSound == VmInv /\ [Next]_vars => VmInv'
  <1> SUFFICES ASSUME VmInv, [Next]_vars PROVE VmInv'
    OBVIOUS
  <1>1. CASE UNCHANGED vars
    BY <1>1, Stutter
  <1>2. CASE Next
    <2>1. CASE \E q \in Procs \union {Idle} : proc_run(q)
      BY <2>1, ProcRun
    <2>2. CASE Exit
      BY <2>2, ExitStep
    <2>3. CASE \E c \in Procs : Reap(c)
      BY <2>3, ReapStep
    <2>4. CASE \E c \in Procs, k \in 0 .. 3 : do_fork(c, k)
      BY <2>4, ForkStep
    <2>5. CASE \E prog \in Progs, mem \in BOOLEAN : do_execve(prog, mem)
      BY <2>5, ExecveStep
    <2>6. CASE LoadFails
      BY <2>6, LoadFailsStep
    <2>7. CASE \E mem \in BOOLEAN : LoadSegment(mem) \/ LoadDone(mem)
      BY <2>7, LoadSegmentStep, LoadDoneStep
    <2>8. CASE LoadPage
      BY <2>8, LoadPageStep
    <2>9. CASE \E b \in Bufs, w \in BOOLEAN : Copy(b[1], b[2], w)
      <3>1. PICK b \in Bufs, w \in BOOLEAN : Copy(b[1], b[2], w)
        BY <2>9
      <3>2. b[1] \in Nat /\ b[2] \in Nat
        BY VmAssumption
      <3> QED BY <3>1, <3>2, CopyStep
    <2>10. CASE \E b \in Bufs : CopyString(b[1])
      <3>1. PICK b \in Bufs : CopyString(b[1])
        BY <2>10
      <3>2. b[1] \in Nat
        BY VmAssumption
      <3>3. Copy(b[1], b[1] + 1, FALSE)
        BY <3>1 DEF CopyString
      <3>4. b[1] + 1 \in Nat /\ FALSE \in BOOLEAN
        BY <3>2
      <3> QED BY <3>2, <3>3, <3>4, CopyStep
    <2>11. CASE \E v \in VPages, w \in BOOLEAN : UserAccess(v, w)
      BY <2>11, UserAccessStep
    <2>12. CASE KernelAccess
      BY <2>12, KernelAccessStep
    <2> QED BY <1>2, <2>1, <2>2, <2>3, <2>4, <2>5, <2>6, <2>7, <2>8, <2>9, <2>10, <2>11, <2>12 DEF Next
  <1> QED BY <1>1, <1>2

LEMMA InvariantHolds == Spec => []VmInv
  <1>1. Init => VmInv
    BY InitSound
  <1>2. VmInv /\ [Next]_vars => VmInv'
    BY StepSound
  <1> QED BY <1>1, <1>2, PTL DEF Spec

LEMMA CoherentByInv == VmInv => TlbCoherent
  <1> SUFFICES ASSUME VmInv, InUser
               PROVE  /\ pgd = mm[current].pgdir /\ pgd = cr3[current]
                      /\ \A en \in m.tlb : en = Refill(m, 2 * en.vpn2)
    BY DEF TlbCoherent
  <1>1. panic = "no" /\ UserRuns
    BY DEF InUser, UserRuns
  <1>2. /\ current \in Procs /\ st[current] = "user" /\ StatusInv
        /\ pgd = mm[current].pgdir /\ Reflects(m, pgd)
    BY <1>1, UserFacts
  <1>3. pgd = cr3[current]
    BY <1>2 DEF StatusInv
  <1>4. ASSUME NEW en \in m.tlb PROVE en = Refill(m, 2 * en.vpn2)
    <2>1. PICK k \in Nat : en = Pair(m, pgd, k)
      BY <1>2 DEF Reflects
    <2>2. en.vpn2 = k
      BY <2>1 DEF Pair
    <2>3. (2 * k) \div 2 = k
      OBVIOUS
    <2>4. Refill(m, 2 * k) = Pair(m, pgd, k)
      BY <2>3 DEF Refill, Pair
    <2> QED BY <2>1, <2>2, <2>4
  <1> QED BY <1>2, <1>3, <1>4

\* Whenever a user program can touch its memory, the directory in use is its own
\* and each entry of the TLB is what the page table says: proc_run, page_insert,
\* page_remove_pte and do_exit clear it in time (TlbCoherent, trap.c:137-236).
THEOREM TlbStaysCoherent == Spec => []TlbCoherent
  BY InvariantHolds, CoherentByInv, PTL

LEMMA PanicByInv == VmInv => KernelFaultsOnlyWithoutMemory
  BY DEF VmInv, PanicInv, KernelFaultsOnlyWithoutMemory

\* The kernel faults on user memory only when no page is free: what
\* user_mem_check has let through may be read or written as asked, and so may
\* the top of the stack load_icode writes (KernelFaultsOnlyWithoutMemory,
\* vmm.c:434-459, trap.c:176-205).
THEOREM KernelFaultsAreNoMemory == Spec => []KernelFaultsOnlyWithoutMemory
  BY InvariantHolds, PanicByInv, PTL

LEMMA SpaceOf ==
    ASSUME TypeOK, StatusInv
    PROVE  \A a : a \in MMs <=> \E p \in Procs : a = Space[p] /\ a # NoMM
  <1>1. \A p \in Procs : Space[p] = IF st[p] = "load" THEN nmm[p] ELSE mm[p]
    BY SpaceIs
  <1>2. \A a : a \in MMs <=> \E p \in Procs : (a = mm[p] \/ a = nmm[p]) /\ a # NoMM
    BY DEF MMs
  <1>3. ASSUME NEW p \in Procs
        PROVE  (mm[p] # NoMM => Space[p] = mm[p]) /\ (nmm[p] # NoMM => Space[p] = nmm[p])
    <2>1. st[p] \in Statuses
      BY DEF TypeOK
    <2> QED BY <1>1, <1>3, <2>1 DEF StatusInv, Statuses
  <1>4. ASSUME NEW p \in Procs PROVE Space[p] = mm[p] \/ Space[p] = nmm[p]
    BY <1>1
  <1> QED BY <1>2, <1>3, <1>4

LEMMA AreasByInv == VmInv => AreasSound
  <1> SUFFICES ASSUME VmInv, NEW a \in MMs
               PROVE  /\ \A i \in 1 .. Len(a.vmas) : a.vmas[i].s < a.vmas[i].e
                      /\ \A i, j \in 1 .. Len(a.vmas) : i < j => a.vmas[i].e <= a.vmas[j].s
                      /\ a.cache = NoVma \/ a.cache \in ToSet(a.vmas)
                      /\ \A v \in VPages : Pte(m, a.pgdir, v) # NoPte =>
                            \E vma \in ToSet(a.vmas) :
                               InVma(vma, v) /\ (Pte(m, a.pgdir, v).w <=> "W" \in vma.flags)
    BY DEF AreasSound
  <1>1. TypeOK /\ StatusInv /\ Good(m, Space)
    BY DEF VmInv
  <1>2. PICK p \in Procs : a = Space[p] /\ Space[p] # NoMM
    BY <1>1, SpaceOf
  <1>3. SoundMM(a) /\ Covered(m, a.pgdir, a.vmas)
    BY <1>1, <1>2 DEF Good
  <1>4. Sorted(a.vmas) /\ InBounds(a.vmas) /\ a.vmas \in Seq(Areas)
    BY <1>3 DEF SoundMM, Sorted, InBounds
  <1>5. \A i \in 1 .. Len(a.vmas) : a.vmas[i] \in ToSet(a.vmas)
    BY <1>4 DEF ToSet
  <1>6. \A i \in 1 .. Len(a.vmas) : a.vmas[i].s < a.vmas[i].e
    BY <1>4 DEF InBounds
  <1>7. \A i, j \in 1 .. Len(a.vmas) : i < j => a.vmas[i].e <= a.vmas[j].s
    BY <1>4 DEF Sorted
  <1>8. a.cache = NoVma \/ a.cache \in ToSet(a.vmas)
    BY <1>3, <1>5 DEF SoundMM, Listed
  <1>9. ASSUME NEW v \in VPages, Pte(m, a.pgdir, v) # NoPte
        PROVE  \E vma \in ToSet(a.vmas) :
                  InVma(vma, v) /\ (Pte(m, a.pgdir, v).w <=> "W" \in vma.flags)
    <2>1. PICK i \in 1 .. Len(a.vmas) :
             InVma(a.vmas[i], v) /\ (Pte(m, a.pgdir, v).w <=> "W" \in a.vmas[i].flags)
      BY <1>3, <1>9 DEF Covered, Maps
    <2> QED BY <1>5, <2>1
  <1> QED BY <1>6, <1>7, <1>8, <1>9

-----------------------------------------------------------------------------
(* Counting pages                                                          *)

Onto(f, S, T) ==
    /\ f \in [S -> T] /\ (\A x, y \in S : f[x] = f[y] => x = y)
    /\ \A z \in T : \E x \in S : f[x] = z

LEMMA SameSize ==
    ASSUME NEW f, NEW S, NEW T, Onto(f, S, T), IsFiniteSet(T)
    PROVE  IsFiniteSet(S) /\ Cardinality(S) = Cardinality(T)
  <1>1. /\ f \in [S -> T] /\ (\A x, y \in S : f[x] = f[y] => x = y)
        /\ \A z \in T : \E x \in S : f[x] = z
    BY DEF Onto
  <1>2. f \in Injection(S, T)
    BY <1>1 DEF Injection, IsInjective
  <1>3. f \in Surjection(S, T)
    BY <1>1 DEF Surjection
  <1> QED BY <1>2, <1>3, FS_Injection

\* Two sets that are apart.
LEMMA SizesAdd ==
    ASSUME NEW S, NEW T, IsFiniteSet(S), IsFiniteSet(T), S \intersect T = {}
    PROVE  /\ IsFiniteSet(S \union T)
           /\ Cardinality(S \union T) = Cardinality(S) + Cardinality(T)
           /\ Cardinality(S) \in Nat /\ Cardinality(T) \in Nat
  <1>1. PICK N : N = S \intersect T
    OBVIOUS
  <1>2. /\ IsFiniteSet(S \union T)
        /\ Cardinality(S \union T) = Cardinality(S) + Cardinality(T) - Cardinality(S \intersect T)
    BY FS_Union
  <1>3. Cardinality(S \intersect T) = 0
    BY FS_EmptySet
  <1>4. Cardinality(S) \in Nat /\ Cardinality(T) \in Nat
    BY FS_CardinalityType
  <1> QED BY <1>2, <1>3, <1>4

\* The stacks of kernel threads are KSTACKPAGE pages each.
LEMMA StackCount ==
    ASSUME NEW ws, NEW ks, Apiece(ws, ks), NEW S, S = {p \in Procs : ks[p] # {}}
    PROVE  Cardinality(Stacks(ks)) = KSTACKPAGE * Cardinality(S)
  <1>1. IsFiniteSet(S)
    <2>1. IsFiniteSet(Procs) /\ S \in SUBSET Procs
      BY VmAssumption
    <2> QED BY <2>1, FS_Subset
  <1>2. PICK N \in Nat : N = Cardinality(S) /\ ExistsBijection(1 .. N, S)
    BY <1>1, FS_CardinalityType
  <1>3. PICK f : f \in Bijection(1 .. N, S)
    BY <1>2 DEF ExistsBijection
  <1>4. /\ f \in [1 .. N -> S] /\ (\A i, j \in 1 .. N : f[i] = f[j] => i = j)
        /\ \A p \in S : \E i \in 1 .. N : f[i] = p
    BY <1>3 DEF Bijection, Injection, Surjection, IsInjective
  <1>5. \A p \in S : p \in Procs /\ ks[p] \in SUBSET Pages /\ Cardinality(ks[p]) = KSTACKPAGE
    BY DEF Apiece
  <1>6. \A p, q \in S : p # q => ks[p] \intersect ks[q] = {}
    BY DEF Apiece
  <1>7. IsFiniteSet(Pages)
    <2>1. PICK a \in Int, b \in Int : a = 1 /\ b = NPages
      BY Sizes
    <2>2. IsFiniteSet(a .. b)
      BY FS_Interval
    <2> QED BY <2>1, <2>2 DEF Pages
  <1>8. PICK g : g = [n \in 0 .. N |-> UNION {ks[f[i]] : i \in 1 .. n}]
    OBVIOUS
  <1>9. \A n \in 0 .. N : \A x : x \in g[n] <=> \E i \in 1 .. n : x \in ks[f[i]]
    BY <1>8
  <1>10. PICK T : T = {n \in 0 .. N : IsFiniteSet(g[n]) /\ Cardinality(g[n]) = 2 * n}
    OBVIOUS
  <1>11. 0 \in T
    <2>1. g[0] = {}
      BY <1>9
    <2>2. IsFiniteSet(g[0]) /\ Cardinality(g[0]) = 0
      BY <2>1, FS_EmptySet
    <2> QED BY <1>10, <2>2
  <1>12. ASSUME NEW n \in 1 .. N, n - 1 \in T PROVE n \in T
    <2>1. n - 1 \in 0 .. N /\ n \in 0 .. N /\ f[n] \in S
      BY <1>4
    <2>2. IsFiniteSet(g[n - 1]) /\ Cardinality(g[n - 1]) = 2 * (n - 1)
      BY <1>10, <1>12
    <2>3. IsFiniteSet(ks[f[n]]) /\ Cardinality(ks[f[n]]) = 2
      BY <1>5, <1>7, <2>1, FS_Subset DEF KSTACKPAGE
    <2>4. g[n - 1] \intersect ks[f[n]] = {}
      <3>1. ASSUME NEW x \in g[n - 1], x \in ks[f[n]] PROVE FALSE
        <4>1. PICK i \in 1 .. n - 1 : x \in ks[f[i]]
          BY <1>9, <2>1, <3>1
        <4>2. i \in 1 .. N /\ i # n
          OBVIOUS
        <4>3. f[i] \in S /\ f[i] # f[n]
          BY <1>4, <4>2
        <4> QED BY <1>6, <2>1, <3>1, <4>1, <4>3
      <3> QED BY <3>1
    <2>5. g[n] = g[n - 1] \union ks[f[n]]
      <3>1. ASSUME NEW x PROVE x \in g[n] <=> x \in g[n - 1] \/ x \in ks[f[n]]
        <4>1. x \in g[n] <=> \E i \in 1 .. n : x \in ks[f[i]]
          BY <1>9, <2>1
        <4>2. x \in g[n - 1] <=> \E i \in 1 .. n - 1 : x \in ks[f[i]]
          BY <1>9, <2>1
        <4>3. \A i : i \in 1 .. n <=> i \in 1 .. n - 1 \/ i = n
          BY <2>1
        <4> QED BY <4>1, <4>2, <4>3
      <3> QED BY <3>1
    <2>6. IsFiniteSet(g[n]) /\ Cardinality(g[n]) = 2 * n
      <3>1. PICK A, B : A = g[n - 1] /\ B = ks[f[n]]
        OBVIOUS
      <3>2. IsFiniteSet(A \union B) /\ Cardinality(A \union B) = Cardinality(A) + Cardinality(B)
        BY <2>2, <2>3, <2>4, <3>1, SizesAdd
      <3> QED BY <2>2, <2>3, <2>5, <3>1, <3>2
    <2> QED BY <1>10, <2>1, <2>6
  <1>13. 0 .. N \subseteq T
    BY <1>11, <1>12, UpTo
  <1>14. N \in T /\ Cardinality(g[N]) = 2 * N
    BY <1>10, <1>13
  <1>15. Stacks(ks) = g[N]
    <2>1. ASSUME NEW x PROVE x \in Stacks(ks) <=> x \in g[N]
      <3>1. x \in Stacks(ks) <=> \E p \in Procs : x \in ks[p]
        BY DEF Stacks
      <3>2. x \in g[N] <=> \E i \in 1 .. N : x \in ks[f[i]]
        BY <1>9
      <3> QED BY <1>4, <1>5, <3>1, <3>2
    <2> QED BY <2>1
  <1> QED BY <1>2, <1>14, <1>15 DEF KSTACKPAGE

\* What the pages of a memory are used for, counted: x in the list of entries of
\* directories, y in that of page tables.
Entries(r) == {x \in Pages \X Tables : r.dir[x[1]][x[2]] # 0}
Rows(r) == {r.dir[x[1]][x[2]] : x \in Entries(r)}
Cells(r) == {x \in Rows(r) \X Slots : r.tab[x[1]][x[2]] # NoPte}
Filling(r) == {r.tab[x[1]][x[2]].pg : x \in Cells(r)}
OfKind(kd, k) == {p \in Pages : kd[p] = k}

LEMMA PagesFinite == IsFiniteSet(Pages) /\ Cardinality(Pages) = NPages
  <1>1. PICK a \in Int, b \in Int : a = 1 /\ b = NPages /\ ~(a > b) /\ b - a + 1 = NPages
    BY Sizes
  <1>2. IsFiniteSet(a .. b) /\ Cardinality(a .. b) = b - a + 1
    BY <1>1, FS_Interval
  <1> QED BY <1>1, <1>2 DEF Pages

LEMMA KindFinite ==
    ASSUME NEW kd, NEW k
    PROVE  IsFiniteSet(OfKind(kd, k))
  <1>1. OfKind(kd, k) \in SUBSET Pages
    BY DEF OfKind
  <1> QED BY <1>1, PagesFinite, FS_Subset

LEMMA EntriesCount ==
    ASSUME NEW r, NEW kd, NEW at, NEW ix, NEW D, NEW K, NEW H, r \in Mems,
           Owned(r, kd, at, ix, D, K, H)
    PROVE  /\ Rows(r) = OfKind(kd, "table") /\ IsFiniteSet(Entries(r))
           /\ Cardinality(Entries(r)) = Cardinality(Rows(r))
  <1>1. /\ \A d \in Frames, k \in Tables : r.dir[d][k] # 0 =>
              /\ d \in D /\ kd[r.dir[d][k]] = "table"
              /\ at[r.dir[d][k]] = d /\ ix[r.dir[d][k]] = k
        /\ \A p \in Pages : kd[p] = "table" => /\ at[p] \in D /\ ix[p] \in Tables
                                               /\ r.dir[at[p]][ix[p]] = p
        /\ D \subseteq Pages
    BY DEF Owned
  <1>2. r.dir \in [Frames -> [Tables -> Frames]]
    BY MemTypes
  <1>3. PICK f : f = [x \in Entries(r) |-> r.dir[x[1]][x[2]]]
    OBVIOUS
  <1>4. ASSUME NEW x \in Entries(r)
        PROVE  /\ x[1] \in Pages /\ x[1] \in Frames /\ x[2] \in Tables /\ x = <<x[1], x[2]>>
               /\ f[x] = r.dir[x[1]][x[2]] /\ f[x] # 0 /\ f[x] \in Pages
               /\ kd[f[x]] = "table" /\ at[f[x]] = x[1] /\ ix[f[x]] = x[2]
    <2>1. x \in Pages \X Tables /\ r.dir[x[1]][x[2]] # 0
      BY DEF Entries
    <2>2. x[1] \in Pages /\ x[1] \in Frames /\ x[2] \in Tables /\ x = <<x[1], x[2]>>
      BY <2>1, FrameKinds
    <2>3. r.dir[x[1]][x[2]] \in Pages
      BY <1>2, <2>1, <2>2, FrameKinds
    <2> QED BY <1>1, <1>3, <2>1, <2>2, <2>3
  <1>5. ASSUME NEW p \in Pages, kd[p] = "table"
        PROVE  <<at[p], ix[p]>> \in Entries(r) /\ f[<<at[p], ix[p]>>] = p
    <2>1. at[p] \in Pages /\ ix[p] \in Tables /\ r.dir[at[p]][ix[p]] = p /\ p # 0
      BY <1>1, <1>5, FrameKinds
    <2>2. <<at[p], ix[p]>> \in Entries(r)
      BY <2>1 DEF Entries
    <2> QED BY <1>3, <2>1, <2>2
  <1>6. Rows(r) = OfKind(kd, "table")
    <2>1. \A p : p \in Rows(r) <=> \E x \in Entries(r) : p = f[x]
      BY <1>3 DEF Rows
    <2>2. \A p : p \in OfKind(kd, "table") <=> p \in Pages /\ kd[p] = "table"
      BY DEF OfKind
    <2>3. ASSUME NEW p \in Rows(r) PROVE p \in OfKind(kd, "table")
      <3>1. PICK x \in Entries(r) : p = f[x]
        BY <2>1
      <3> QED BY <1>4, <2>2, <3>1
    <2>4. ASSUME NEW p \in OfKind(kd, "table") PROVE p \in Rows(r)
      <3>1. PICK x : x = <<at[p], ix[p]>>
        OBVIOUS
      <3>2. x \in Entries(r) /\ f[x] = p
        BY <1>5, <2>2, <3>1
      <3> QED BY <2>1, <3>2
    <2> QED BY <2>3, <2>4
  <1>7. IsFiniteSet(Rows(r))
    BY <1>6, KindFinite
  <1>8. Onto(f, Entries(r), Rows(r))
    <2>1. f \in [Entries(r) -> Rows(r)]
      BY <1>3 DEF Rows
    <2>2. \A x, y \in Entries(r) : f[x] = f[y] => x = y
      BY <1>4
    <2>3. \A z \in Rows(r) : \E x \in Entries(r) : f[x] = z
      BY <1>3 DEF Rows
    <2> QED BY <2>1, <2>2, <2>3 DEF Onto
  <1> QED BY <1>6, <1>7, <1>8, SameSize

LEMMA CellsCount ==
    ASSUME NEW r, NEW kd, NEW at, NEW ix, NEW D, NEW K, NEW H, r \in Mems,
           Owned(r, kd, at, ix, D, K, H)
    PROVE  /\ Filling(r) = OfKind(kd, "map") /\ IsFiniteSet(Cells(r))
           /\ Cardinality(Cells(r)) = Cardinality(Filling(r))
  <1>1. /\ \A t \in Pages, i \in Slots : r.tab[t][i].pg # 0 =>
              /\ kd[t] = "table" /\ kd[r.tab[t][i].pg] = "map"
              /\ at[r.tab[t][i].pg] = t /\ ix[r.tab[t][i].pg] = i
        /\ \A p \in Pages : kd[p] = "map" => /\ at[p] \in Pages /\ ix[p] \in Slots
                                             /\ r.tab[at[p]][ix[p]].pg = p
        /\ \A t \in Pages, i \in Slots : r.tab[t][i].pg = 0 => r.tab[t][i] = NoPte
    BY DEF Owned
  <1>2. r.tab \in [Pages -> [Slots -> Ptes]]
    BY MemTypes
  <1>3. PICK f : f = [x \in Cells(r) |-> r.tab[x[1]][x[2]].pg]
    OBVIOUS
  <1>4. Rows(r) = OfKind(kd, "table")
    BY EntriesCount
  <1>5. ASSUME NEW x \in Cells(r)
        PROVE  /\ x[1] \in Pages /\ x[2] \in Slots /\ x = <<x[1], x[2]>>
               /\ f[x] = r.tab[x[1]][x[2]].pg /\ f[x] \in Pages
               /\ kd[f[x]] = "map" /\ at[f[x]] = x[1] /\ ix[f[x]] = x[2]
    <2>1. x \in Rows(r) \X Slots /\ r.tab[x[1]][x[2]] # NoPte
      BY DEF Cells
    <2>2. x[1] \in Pages /\ x[2] \in Slots /\ x = <<x[1], x[2]>>
      BY <1>4, <2>1 DEF OfKind
    <2>3. r.tab[x[1]][x[2]] \in Ptes
      BY <1>2, <2>2
    <2>4. r.tab[x[1]][x[2]].pg \in Pages
      <3>1. r.tab[x[1]][x[2]].pg \in Frames
        BY <2>3 DEF Ptes
      <3> QED BY <1>1, <2>1, <2>2, <3>1, FrameKinds
    <2>5. r.tab[x[1]][x[2]].pg # 0
      BY <1>1, <2>1, <2>2
    <2> QED BY SMTT(30), ZenonT(90), <1>1, <1>3, <2>1, <2>2, <2>4, <2>5
  <1>6. ASSUME NEW p \in Pages, kd[p] = "map"
        PROVE  <<at[p], ix[p]>> \in Cells(r) /\ f[<<at[p], ix[p]>>] = p
    <2>1. at[p] \in Pages /\ ix[p] \in Slots /\ r.tab[at[p]][ix[p]].pg = p /\ p # 0
      BY <1>1, <1>6, FrameKinds
    <2>2. at[p] \in Rows(r)
      BY <1>1, <1>4, <2>1 DEF OfKind
    <2>3. r.tab[at[p]][ix[p]] # NoPte
      <3>1. NoPte.pg = 0
        BY DEF NoPte
      <3> QED BY <2>1, <3>1
    <2>4. <<at[p], ix[p]>> \in Cells(r)
      BY <2>1, <2>2, <2>3 DEF Cells
    <2> QED BY <1>3, <2>1, <2>4
  <1>7. Filling(r) = OfKind(kd, "map")
    <2>1. \A p : p \in Filling(r) <=> \E x \in Cells(r) : p = f[x]
      BY <1>3 DEF Filling
    <2>2. \A p : p \in OfKind(kd, "map") <=> p \in Pages /\ kd[p] = "map"
      BY DEF OfKind
    <2>3. ASSUME NEW p \in Filling(r) PROVE p \in OfKind(kd, "map")
      <3>1. PICK x \in Cells(r) : p = f[x]
        BY <2>1
      <3> QED BY <1>5, <2>2, <3>1
    <2>4. ASSUME NEW p \in OfKind(kd, "map") PROVE p \in Filling(r)
      <3>1. PICK x : x = <<at[p], ix[p]>>
        OBVIOUS
      <3>2. x \in Cells(r) /\ f[x] = p
        BY <1>6, <2>2, <3>1
      <3> QED BY <2>1, <3>2
    <2> QED BY <2>3, <2>4
  <1>8. IsFiniteSet(Filling(r))
    BY <1>7, KindFinite
  <1>9. Onto(f, Cells(r), Filling(r))
    <2>1. f \in [Cells(r) -> Filling(r)]
      BY <1>3 DEF Filling
    <2>2. \A x, y \in Cells(r) : f[x] = f[y] => x = y
      BY <1>5
    <2>3. \A z \in Filling(r) : \E x \in Cells(r) : f[x] = z
      BY <1>3 DEF Filling
    <2> QED BY <2>1, <2>2, <2>3 DEF Onto
  <1> QED BY <1>7, <1>8, <1>9, SameSize

\* Every page is of one kind, so the sizes of the kinds add up.
LEMMA KindsCount ==
    ASSUME NEW r, NEW kd, NEW at, NEW ix, NEW D, NEW K, NEW H, r \in Mems, H = {},
           Owned(r, kd, at, ix, D, K, H)
    PROVE  /\ r.free \union K \union D \union Rows(r) \union Filling(r) = Pages
           /\ Cardinality(r.free) + Cardinality(K) + Cardinality(D) +
                 Cardinality(Rows(r)) + Cardinality(Filling(r)) = NPages
  <1>1. /\ kd \in [Pages -> Kinds] /\ D \subseteq Pages /\ K \subseteq Pages
        /\ \A p \in Pages : /\ kd[p] = "free" <=> p \in r.free
                            /\ kd[p] = "stack" <=> p \in K
                            /\ kd[p] = "dir" <=> p \in D
                            /\ kd[p] # "hand"
    BY DEF Owned
  <1>2. r.free \in SUBSET Pages
    BY MemTypes
  <1>3. PICK A, B, C, E, F : /\ A = OfKind(kd, "free") /\ B = OfKind(kd, "stack")
                             /\ C = OfKind(kd, "dir") /\ E = OfKind(kd, "table")
                             /\ F = OfKind(kd, "map")
    OBVIOUS
  <1>4. /\ \A p : p \in A <=> p \in Pages /\ kd[p] = "free"
        /\ \A p : p \in B <=> p \in Pages /\ kd[p] = "stack"
        /\ \A p : p \in C <=> p \in Pages /\ kd[p] = "dir"
        /\ \A p : p \in E <=> p \in Pages /\ kd[p] = "table"
        /\ \A p : p \in F <=> p \in Pages /\ kd[p] = "map"
    BY <1>3 DEF OfKind
  <1>5. A = r.free /\ B = K /\ C = D
    BY <1>1, <1>2, <1>4
  <1>6. E = Rows(r) /\ F = Filling(r)
    BY <1>3, EntriesCount, CellsCount
  <1>7. IsFiniteSet(A) /\ IsFiniteSet(B) /\ IsFiniteSet(C) /\ IsFiniteSet(E) /\ IsFiniteSet(F)
    BY <1>3, KindFinite
  <1>8. PICK AB, ABC, ABCE, AF : /\ AB = A \union B /\ ABC = AB \union C
                                 /\ ABCE = ABC \union E /\ AF = ABCE \union F
    OBVIOUS
  <1>9. A \intersect B = {} /\ AB \intersect C = {} /\ ABC \intersect E = {} /\ ABCE \intersect F = {}
    BY <1>4, <1>8
  <1>10. /\ IsFiniteSet(AB) /\ Cardinality(AB) = Cardinality(A) + Cardinality(B)
         /\ Cardinality(A) \in Nat /\ Cardinality(B) \in Nat
    BY <1>7, <1>8, <1>9, SizesAdd
  <1>11. /\ IsFiniteSet(ABC) /\ Cardinality(ABC) = Cardinality(AB) + Cardinality(C)
         /\ Cardinality(C) \in Nat
    BY <1>7, <1>8, <1>9, <1>10, SizesAdd
  <1>12. /\ IsFiniteSet(ABCE) /\ Cardinality(ABCE) = Cardinality(ABC) + Cardinality(E)
         /\ Cardinality(E) \in Nat
    BY <1>7, <1>8, <1>9, <1>11, SizesAdd
  <1>13. /\ Cardinality(AF) = Cardinality(ABCE) + Cardinality(F)
         /\ Cardinality(F) \in Nat
    BY <1>7, <1>8, <1>9, <1>12, SizesAdd
  <1>14. AF = Pages
    <2>1. ASSUME NEW p \in Pages PROVE p \in AF
      <3>1. kd[p] \in Kinds /\ kd[p] # "hand"
        BY <1>1
      <3> QED BY <1>4, <1>8, <3>1 DEF Kinds
    <2> QED BY <1>4, <1>8, <2>1
  <1>15. Cardinality(A) + Cardinality(B) + Cardinality(C) + Cardinality(E) + Cardinality(F) = NPages
    BY <1>10, <1>11, <1>12, <1>13, <1>14, PagesFinite
  <1>16. r.free \union K \union D \union Rows(r) \union Filling(r) = Pages
    BY <1>5, <1>6, <1>8, <1>14
  <1> QED BY <1>5, <1>6, <1>15, <1>16

\* Each address space has a directory of its own.
LEMMA SpacesCount ==
    ASSUME TypeOK, StatusInv, World(m, Space, kstack)
    PROVE  /\ {a.pgdir : a \in MMs} = Dirs(Space)
           /\ Cardinality(MMs) = Cardinality(Dirs(Space))
  <1>1. \A a : a \in MMs <=> \E p \in Procs : a = Space[p] /\ a # NoMM
    BY SpaceOf
  <1>2. \A p, q \in Procs : p # q /\ Space[p] # NoMM /\ Space[q] # NoMM
                               => Space[p].pgdir # Space[q].pgdir
    BY DEF World, Apiece
  <1>3. \A d : d \in Dirs(Space) <=> \E p \in Procs : Space[p] # NoMM /\ d = Space[p].pgdir
    BY DEF Dirs
  <1>4. PICK f : f = [a \in MMs |-> a.pgdir]
    OBVIOUS
  <1>5. {a.pgdir : a \in MMs} = Dirs(Space)
    <2>1. \A d : d \in {a.pgdir : a \in MMs} <=> \E a \in MMs : d = a.pgdir
      OBVIOUS
    <2>2. ASSUME NEW d \in Dirs(Space) PROVE d \in {a.pgdir : a \in MMs}
      <3>1. PICK p \in Procs : Space[p] # NoMM /\ d = Space[p].pgdir
        BY <1>3
      <3> QED BY <1>1, <3>1
    <2>3. ASSUME NEW a \in MMs PROVE a.pgdir \in Dirs(Space)
      <3>1. PICK p \in Procs : a = Space[p] /\ a # NoMM
        BY <1>1
      <3> QED BY <1>3, <3>1
    <2> QED BY <2>1, <2>2, <2>3
  <1>6. Onto(f, MMs, Dirs(Space))
    <2>1. f \in [MMs -> Dirs(Space)]
      BY <1>4, <1>5
    <2>2. ASSUME NEW a \in MMs, NEW b \in MMs, f[a] = f[b] PROVE a = b
      <3>1. a.pgdir = b.pgdir
        BY <1>4, <2>2
      <3>2. PICK p \in Procs : a = Space[p] /\ a # NoMM
        BY <1>1
      <3>3. PICK q \in Procs : b = Space[q] /\ b # NoMM
        BY <1>1
      <3> QED BY <1>2, <3>1, <3>2, <3>3
    <2>3. \A z \in Dirs(Space) : \E a \in MMs : f[a] = z
      BY <1>4, <1>5
    <2> QED BY <2>1, <2>2, <2>3 DEF Onto
  <1>7. IsFiniteSet(Dirs(Space))
    <2>1. Dirs(Space) \in SUBSET Pages
      BY DEF World, Mem, Owned
    <2> QED BY <2>1, PagesFinite, FS_Subset
  <1> QED BY <1>5, <1>6, <1>7, SameSize

LEMMA PagesByInv == VmInv => PagesExact
  <1>1. ASSUME VmInv, panic = "no"
        PROVE  /\ m.free \union Stacks(kstack) \union Dirs(Space) \union Rows(m) \union
                     Filling(m) = Pages
               /\ Cardinality(m.free) + KSTACKPAGE * Cardinality({p \in Procs : kstack[p] # {}}) +
                     Cardinality(MMs) + Cardinality(Entries(m)) + Cardinality(Cells(m)) = NPages
               /\ \A pg \in Pages :
                     m.ref[pg] = IF pg \in Rows(m) \union Filling(m) THEN 1 ELSE 0
               /\ {a.pgdir : a \in MMs} = Dirs(Space)
    <2>1. TypeOK /\ StatusInv /\ World(m, Space, kstack)
      BY <1>1 DEF VmInv, Running
    <2>2. m \in Mems /\ Mem(m, Dirs(Space), Stacks(kstack), {}) /\ Apiece(Space, kstack)
      BY <2>1 DEF World, Mem
    <2>3. PICK D, K, H, S : /\ D = Dirs(Space) /\ K = Stacks(kstack) /\ H = {}
                            /\ S = {p \in Procs : kstack[p] # {}}
      OBVIOUS
    <2>4. PICK kd, at, ix : Owned(m, kd, at, ix, D, K, H)
      BY <2>2, <2>3 DEF Mem
    <2>5. /\ m.free \union K \union D \union Rows(m) \union Filling(m) = Pages
          /\ Cardinality(m.free) + Cardinality(K) + Cardinality(D) +
                Cardinality(Rows(m)) + Cardinality(Filling(m)) = NPages
      BY <2>2, <2>3, <2>4, KindsCount
    <2>6. Cardinality(K) = KSTACKPAGE * Cardinality(S)
      BY <2>2, <2>3, StackCount
    <2>7. Cardinality(MMs) = Cardinality(D) /\ {a.pgdir : a \in MMs} = D
      BY <2>1, <2>3, SpacesCount
    <2>8. Rows(m) = OfKind(kd, "table") /\ Cardinality(Entries(m)) = Cardinality(Rows(m))
      BY <2>2, <2>4, EntriesCount
    <2>9. Filling(m) = OfKind(kd, "map") /\ Cardinality(Cells(m)) = Cardinality(Filling(m))
      BY <2>2, <2>4, CellsCount
    <2>10. \A pg \in Pages : m.ref[pg] = IF pg \in Rows(m) \union Filling(m) THEN 1 ELSE 0
      <3>1. \A pg \in Pages : m.ref[pg] = IF kd[pg] \in {"table", "map"} THEN 1 ELSE 0
        BY <2>4 DEF Owned
      <3> QED BY <2>8, <2>9, <3>1 DEF OfKind
    <2> QED BY <2>3, <2>5, <2>6, <2>7, <2>8, <2>9, <2>10
  <1>2. Stacks(kstack) = UNION {kstack[p] : p \in Procs}
    BY DEF Stacks
  <1> QED BY <1>1, <1>2 DEF PagesExact, Entries, Rows, Cells, Filling, Slots

LEMMA MemoryByInv == VmInv => MemoryExact
  BY PagesByInv, AreasByInv DEF MemoryExact

\* Every page of memory is free or has one use, and is counted once, whichever
\* allocation of a fork, an exec or a fault fails; the areas of an address space
\* are in order, and what is mapped lies in one that allows it (MemoryExact,
\* vmm.c:104-226, pmm.c:211-348, proc.c:307-676).
THEOREM MemoryStaysExact == Spec => []MemoryExact
  BY InvariantHolds, MemoryByInv, PTL
=============================================================================
