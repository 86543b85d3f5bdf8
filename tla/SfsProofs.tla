----------------------------- MODULE SfsProofs -----------------------------
(***************************************************************************)
(* Proofs about SfsFile.                                                   *)
(***************************************************************************)
EXTENDS SfsFile, Facts, FiniteSetTheorems, TLAPS

Direct == 0 .. NDirect - 1
Indices == 0 .. NEntry - 1
Numbers == 0 .. NBlocks
Inodes == [size : Nat, blocks : 0 .. NDirect + NEntry, indirect : Numbers,
           direct : [Direct -> Numbers]]
Asserts == {"none", "index", "same_size"}
Calls == [freemap : SUBSET Blocks, unused_blocks : Int,
          entries : [Blocks -> [Indices -> Numbers]],
          din : Inodes, dirty : BOOLEAN, ret : {"ok", "E_NO_MEM"}, ino : Numbers,
          panic : Asserts]

\* The block at entry i of the indirect block, 0 where there is none.
Ent(s, i) == IF s.din.indirect = 0 THEN 0 ELSE s.entries[s.din.indirect][i]
Owns(s, b) == \/ \E i \in Direct : s.din.direct[i] = b
              \/ s.din.indirect = b
              \/ \E i \in Indices : Ent(s, i) = b

\* The file of a call owns each of its blocks in one place.
Once(s) ==
    /\ \A i, j \in Direct : s.din.direct[i] = s.din.direct[j] /\ s.din.direct[i] # 0 => i = j
    /\ \A i, j \in Indices : Ent(s, i) = Ent(s, j) /\ Ent(s, i) # 0 => i = j
    /\ \A i \in Direct, j \in Indices : s.din.direct[i] # 0 => s.din.direct[i] # Ent(s, j)
    /\ \A i \in Direct : s.din.direct[i] # 0 => s.din.direct[i] # s.din.indirect
    /\ \A j \in Indices : Ent(s, j) # 0 => Ent(s, j) # s.din.indirect

\* None of them is free, and those below the end are there.
Sound(s) ==
    /\ s \in Calls
    /\ s.unused_blocks = Cardinality(s.freemap)
    /\ Once(s)
    /\ \A b \in s.freemap : ~Owns(s, b)
    /\ \A i \in 0 .. s.din.blocks - 1 : bmap_find(s, i) # 0

\* A call leaves the blocks of other files alone, and what it changes without
\* marking the inode is the number of its blocks, which grows.
Others(s, b) == b \notin s.freemap /\ ~Owns(s, b)
Evolves(s, t) ==
    /\ \A b \in Blocks : Others(s, b) <=> Others(t, b)
    /\ \A b \in Blocks : Others(s, b) => t.entries[b] = s.entries[b]
    /\ s.dirty => t.dirty
    /\ ~t.dirty => /\ t.din.size = s.din.size /\ t.din.direct = s.din.direct
                   /\ t.din.indirect = s.din.indirect /\ s.din.blocks <= t.din.blocks

USE SfsAssumption

LEMMA EvolvesOn ==
    ASSUME NEW s, NEW t, NEW u, Sound(s), Sound(t), Sound(u), Evolves(s, t), Evolves(t, u)
    PROVE  Evolves(s, u)
  <1>1. /\ s.din.blocks \in Int /\ t.din.blocks \in Int /\ u.din.blocks \in Int
        /\ s.dirty \in BOOLEAN /\ t.dirty \in BOOLEAN /\ u.dirty \in BOOLEAN
    BY DEF Sound, Calls, Inodes
  <1>2. \A b \in Blocks : Others(s, b) <=> Others(u, b)
    BY DEF Evolves
  <1>3. \A b \in Blocks : Others(s, b) => u.entries[b] = s.entries[b]
    BY DEF Evolves
  <1> QED BY <1>1, <1>2, <1>3 DEF Evolves

LEMMA EvolvesNot ==
    ASSUME NEW s, Sound(s)
    PROVE  Evolves(s, s)
  <1>1. s.din.blocks \in Int
    BY DEF Sound, Calls, Inodes
  <1> QED BY <1>1 DEF Evolves

LEMMA BlocksFinite ==
    ASSUME NEW S \in SUBSET Blocks
    PROVE  IsFiniteSet(S) /\ Cardinality(S) \in Nat /\ Cardinality(S) <= NBlocks
  <1>1. IsFiniteSet(Blocks) /\ Cardinality(Blocks) = NBlocks
    BY FS_Interval DEF Blocks
  <1> QED BY <1>1, FS_Subset, FS_CardinalityType

\* Min is the least of a set of blocks.
LEMMA MinIsLeast ==
    ASSUME NEW S \in SUBSET Blocks, S # {}
    PROVE  Min(S) \in S
  <1>1. S \in SUBSET Nat
    BY DEF Blocks
  <1>2. \E n \in S : \A k \in S : n <= k
    BY <1>1, LeastNumber
  <1> QED BY <1>2 DEF Min

-----------------------------------------------------------------------------
(* Allocating and freeing                                                  *)

\* sfs_block_alloc with a block to give: it is one of the free ones.
LEMMA AllocGives ==
    ASSUME NEW s, s \in Calls, s.unused_blocks = Cardinality(s.freemap), s.freemap # {}
    PROVE  LET t == block_alloc(s)
           IN  /\ t \in Calls
               /\ t.ino \in s.freemap /\ t.ino \in Blocks /\ t.freemap = s.freemap \ {t.ino}
               /\ t.unused_blocks = Cardinality(t.freemap)
               /\ t.entries = [s.entries EXCEPT ![t.ino] = ZeroBlock]
               /\ t.din = s.din /\ t.dirty = s.dirty /\ t.ret = s.ret /\ t.panic = s.panic
  <1>1. s.freemap \in SUBSET Blocks /\ s.entries \in [Blocks -> [Indices -> Numbers]]
    BY DEF Calls
  <1>2. PICK b : b = Min(s.freemap)
    OBVIOUS
  <1>3. b \in s.freemap /\ b \in Blocks
    BY <1>1, <1>2, MinIsLeast
  <1>4. IsFiniteSet(s.freemap) /\ Cardinality(s.freemap) \in Nat
    BY <1>1, BlocksFinite
  <1>5. Cardinality(s.freemap \ {b}) = Cardinality(s.freemap) - 1
    BY <1>3, <1>4, FS_RemoveElement
  <1>6. s.unused_blocks > 0
    BY <1>3, <1>4, FS_EmptySet
  <1>7. ZeroBlock \in [Indices -> Numbers]
    BY DEF ZeroBlock, Indices, Numbers
  <1>8. block_alloc(s) = [s EXCEPT !.freemap = @ \ {b}, !.ino = b,
                                   !.unused_blocks = @ - 1, !.entries[b] = ZeroBlock]
    BY <1>2, <1>6 DEF block_alloc, Check
  <1>9. b \in Numbers
    BY <1>3 DEF Blocks, Numbers
  <1>10. s.unused_blocks - 1 \in Int /\ s.freemap \ {b} \in SUBSET Blocks
    BY <1>1, <1>4
  <1>11. [s.entries EXCEPT ![b] = ZeroBlock] \in [Blocks -> [Indices -> Numbers]]
    BY <1>1, <1>7
  <1> QED BY SMTT(30), ZenonT(90), <1>3, <1>5, <1>8, <1>9, <1>10, <1>11 DEF Calls

\* With none left it says so.
LEMMA AllocFails ==
    ASSUME NEW s, s \in Calls, s.freemap = {}
    PROVE  LET t == block_alloc(s)
           IN  /\ t \in Calls /\ t.ret = "E_NO_MEM"
               /\ t.freemap = s.freemap /\ t.unused_blocks = s.unused_blocks
               /\ t.entries = s.entries /\ t.din = s.din /\ t.dirty = s.dirty
               /\ t.panic = s.panic
  BY DEF block_alloc, Calls

\* sfs_block_free of a block that is in use.
LEMMA FreeTakes ==
    ASSUME NEW s, s \in Calls, s.unused_blocks = Cardinality(s.freemap),
           NEW b \in Blocks, b \notin s.freemap
    PROVE  LET t == block_free(s, b)
           IN  /\ t \in Calls
               /\ t.freemap = s.freemap \union {b}
               /\ t.unused_blocks = Cardinality(t.freemap)
               /\ t.entries = s.entries /\ t.din = s.din /\ t.dirty = s.dirty
               /\ t.ret = s.ret /\ t.panic = s.panic
  <1>1. s.freemap \in SUBSET Blocks
    BY DEF Calls
  <1>2. IsFiniteSet(s.freemap) /\ Cardinality(s.freemap) \in Nat
    BY <1>1, BlocksFinite
  <1>3. Cardinality(s.freemap \union {b}) = Cardinality(s.freemap) + 1
    BY <1>2, FS_AddElement
  <1>4. block_free(s, b) = [s EXCEPT !.freemap = @ \union {b}, !.unused_blocks = @ + 1]
    BY DEF block_free, Check
  <1>5. s.unused_blocks + 1 \in Int /\ s.freemap \union {b} \in SUBSET Blocks
    BY <1>1, <1>2
  <1> QED BY <1>3, <1>4, <1>5 DEF Calls

-----------------------------------------------------------------------------
(* The block map                                                           *)

LEMMA FindIs ==
    ASSUME NEW s, NEW i
    PROVE  bmap_find(s, i) = IF i < NDirect THEN s.din.direct[i] ELSE Ent(s, i - NDirect)
  BY DEF bmap_find, Ent

LEMMA EntNumber ==
    ASSUME NEW s \in Calls, NEW i \in Indices
    PROVE  /\ Ent(s, i) \in Numbers
           /\ s.din.indirect # 0 => /\ s.din.indirect \in Blocks
                                    /\ s.entries[s.din.indirect] \in [Indices -> Numbers]
                                    /\ Ent(s, i) = s.entries[s.din.indirect][i]
  <1>1. s.din.indirect \in Numbers /\ s.entries \in [Blocks -> [Indices -> Numbers]]
    BY DEF Calls, Inodes
  <1>2. s.din.indirect # 0 => s.din.indirect \in Blocks
    BY <1>1 DEF Numbers, Blocks
  <1> QED BY <1>1, <1>2 DEF Ent, Numbers

\* A call that has changed nothing but free blocks.
LEMMA SameMap ==
    ASSUME NEW s, NEW t \in Calls, Sound(s), t.freemap = s.freemap,
           t.unused_blocks = s.unused_blocks, t.din = s.din, t.dirty = s.dirty,
           \A b \in Blocks \ s.freemap : t.entries[b] = s.entries[b]
    PROVE  Sound(t) /\ Evolves(s, t)
  <1>1. s \in Calls /\ s.din.blocks \in Int
    BY DEF Sound, Calls, Inodes
  <1>2. ASSUME NEW i \in Indices PROVE Ent(t, i) = Ent(s, i)
    <2>1. s.din.indirect # 0 => s.din.indirect \in Blocks \ s.freemap
      BY <1>1, <1>2, EntNumber DEF Sound, Owns
    <2> QED BY <2>1 DEF Ent
  <1>3. Once(t)
    BY <1>2 DEF Once, Sound
  <1>4. \A b \in Blocks : Owns(t, b) <=> Owns(s, b)
    BY <1>2 DEF Owns
  <1>5. ASSUME NEW i \in 0 .. t.din.blocks - 1 PROVE bmap_find(t, i) # 0
    <2>1. i \in Direct \/ (~(i < NDirect) /\ i - NDirect \in Indices)
      BY <1>1 DEF Calls, Inodes, Direct, Indices
    <2>2. bmap_find(s, i) # 0
      BY DEF Sound
    <2>3. /\ bmap_find(s, i) = IF i < NDirect THEN s.din.direct[i] ELSE Ent(s, i - NDirect)
          /\ bmap_find(t, i) = IF i < NDirect THEN t.din.direct[i] ELSE Ent(t, i - NDirect)
      BY FindIs
    <2>4. i \in Direct => i < NDirect
      BY DEF Direct
    <2> QED BY <1>2, <2>1, <2>2, <2>3, <2>4
  <1>6. \A b \in t.freemap : ~Owns(t, b)
    BY <1>1, <1>4 DEF Sound, Calls
  <1>7. Sound(t)
    BY <1>3, <1>5, <1>6 DEF Sound
  <1> QED BY <1>1, <1>4, <1>7 DEF Evolves, Others

\* What get_sub and the creation of a direct block leave: the new blocks were
\* free, and the place that was asked for has one.
Grown(s, t) ==
    /\ Sound(t) /\ Evolves(s, t) /\ t.panic = "none"
    /\ t.din.size = s.din.size /\ t.din.blocks = s.din.blocks

\* A free block becomes entry i of the indirect block, which is either the one
\* there was or a free one itself.
Placed(s, t, i, ind, b) ==
    \/ /\ ind = s.din.indirect /\ t.freemap = s.freemap \ {b} /\ t.dirty = s.dirty
       /\ t.entries[ind] = [s.entries[ind] EXCEPT ![i] = b]
    \/ /\ s.din.indirect = 0 /\ ind \in s.freemap /\ t.freemap = s.freemap \ {b, ind}
       /\ t.dirty /\ t.entries[ind] = [ZeroBlock EXCEPT ![i] = b]
LEMMA NewEntry ==
    ASSUME NEW s, NEW t \in Calls, Sound(s), NEW i \in Indices, Ent(s, i) = 0,
           NEW ind \in Blocks, NEW b \in s.freemap, b # ind,
           Placed(s, t, i, ind, b),
           t.unused_blocks = Cardinality(t.freemap),
           t.din = [s.din EXCEPT !.indirect = ind], t.panic = "none",
           \A c \in Blocks \ {b, ind} : t.entries[c] = s.entries[c]
    PROVE  Grown(s, t) /\ Ent(t, i) = b /\ b # 0
  <1>1. s \in Calls /\ s.din.blocks \in Int /\ s.din \in Inodes /\ b \in Blocks /\ s.dirty \in BOOLEAN
    BY DEF Sound, Calls, Inodes
  <1>2. /\ t.din.indirect = ind /\ t.din.direct = s.din.direct
        /\ t.din.size = s.din.size /\ t.din.blocks = s.din.blocks
    BY <1>1 DEF Inodes
  <1>3. ind # 0 /\ b # 0
    BY <1>1 DEF Blocks
  <1>4. ASSUME NEW j \in Indices PROVE Ent(t, j) = IF j = i THEN b ELSE Ent(s, j)
    <2>1. Ent(t, j) = t.entries[ind][j]
      BY <1>2, <1>3 DEF Ent
    <2>2. CASE ind = s.din.indirect /\ t.entries[ind] = [s.entries[ind] EXCEPT ![i] = b]
      BY <1>1, <2>1, <2>2, <1>3, EntNumber
    <2>3. CASE s.din.indirect = 0 /\ t.entries[ind] = [ZeroBlock EXCEPT ![i] = b]
      BY <2>1, <2>3 DEF Ent, ZeroBlock, Indices
    <2> QED BY <2>2, <2>3 DEF Placed
  <1>5. \A c \in s.freemap : ~Owns(s, c)
    BY DEF Sound
  <1>6. \A j \in Direct : s.din.direct[j] # b /\ (s.din.direct[j] # 0 => s.din.direct[j] # ind)
    BY <1>5 DEF Owns, Sound, Once, Placed
  <1>7. \A j \in Indices : Ent(s, j) # b /\ (Ent(s, j) # 0 => Ent(s, j) # ind)
    BY <1>5 DEF Owns, Sound, Once, Placed
  <1>8. Once(t)
    BY <1>2, <1>3, <1>4, <1>6, <1>7 DEF Once, Sound
  <1>9. ASSUME NEW c \in Blocks PROVE Owns(t, c) <=> (Owns(s, c) \/ c = b \/ c = ind)
    <2>1. c # 0
      BY DEF Blocks
    <2> QED BY <1>2, <1>4, <2>1 DEF Owns, Placed
  <1>10. Owns(s, ind) \/ ind \in s.freemap
    BY DEF Owns, Placed
  <1>11. \A c \in Blocks : c \in t.freemap <=> c \in s.freemap /\ c # b /\ c # ind
    BY <1>5, <1>10 DEF Owns, Placed
  <1>12. \A c \in Blocks : Others(s, c) <=> Others(t, c)
    BY <1>9, <1>10, <1>11 DEF Others
  <1>13. \A c \in Blocks : Others(s, c) => t.entries[c] = s.entries[c]
    BY <1>10 DEF Others
  <1>14. t.freemap \in SUBSET Blocks
    BY DEF Calls
  <1>15. \A c \in t.freemap : ~Owns(t, c)
    BY <1>5, <1>9, <1>11, <1>14
  <1>16. ASSUME NEW j \in 0 .. t.din.blocks - 1 PROVE bmap_find(t, j) # 0
    <2>1. j \in Direct \/ (~(j < NDirect) /\ j - NDirect \in Indices)
      BY SMTT(30), <1>1, <1>2 DEF Inodes, Direct, Indices
    <2>2. bmap_find(s, j) # 0
      BY <1>2 DEF Sound
    <2>3. /\ bmap_find(s, j) = IF j < NDirect THEN s.din.direct[j] ELSE Ent(s, j - NDirect)
          /\ bmap_find(t, j) = IF j < NDirect THEN t.din.direct[j] ELSE Ent(t, j - NDirect)
      BY FindIs
    <2>4. j \in Direct => j < NDirect
      BY DEF Direct
    <2> QED BY <1>2, <1>3, <1>4, <2>1, <2>2, <2>3, <2>4
  <1>17. Sound(t)
    BY <1>8, <1>15, <1>16 DEF Sound
  <1>18. t.dirty \/ (t.dirty = s.dirty /\ ind = s.din.indirect)
    BY DEF Placed
  <1>19. Evolves(s, t)
    BY <1>1, <1>2, <1>12, <1>13, <1>18 DEF Evolves
  <1> QED BY <1>2, <1>3, <1>4, <1>17, <1>19 DEF Grown

LEMMA GetSub ==
    ASSUME NEW s, Sound(s), s.ret = "ok", s.panic = "none", NEW i \in Indices
    PROVE  LET t == get_sub(s, i)
           IN  Grown(s, t) /\ (t.ret = "ok" => Ent(t, i) # 0)
  <1>1. s \in Calls /\ s.unused_blocks = Cardinality(s.freemap) /\ s.din \in Inodes
        /\ s.freemap \in SUBSET Blocks /\ s.din.indirect \in Numbers
        /\ s.entries \in [Blocks -> [Indices -> Numbers]] /\ s.dirty \in BOOLEAN
    BY DEF Sound, Calls, Inodes
  <1>2. s.din.indirect # 0 => s.din.indirect \in Blocks /\ s.din.indirect \notin s.freemap
    BY <1>1, EntNumber DEF Sound, Owns
  <1> PICK ind, held : ind = s.din.indirect /\ held = [s EXCEPT !.ino = ind]
    OBVIOUS
  <1>3. held \in Calls /\ held.freemap = s.freemap /\ held.unused_blocks = s.unused_blocks
        /\ held.entries = s.entries /\ held.din = s.din /\ held.dirty = s.dirty
        /\ held.ret = s.ret /\ held.panic = s.panic /\ held.ino = ind
    BY <1>1 DEF Calls
  <1>4. CASE ind # 0 /\ s.entries[ind][i] # 0
    <2>1. PICK t : t = [s EXCEPT !.ino = s.entries[ind][i]]
      OBVIOUS
    <2>2. get_sub(s, i) = t
      BY <1>4, <2>1 DEF get_sub
    <2>3. s.entries[ind][i] \in Numbers
      BY <1>1, <1>2, <1>4
    <2>4. t \in Calls /\ t.freemap = s.freemap /\ t.unused_blocks = s.unused_blocks
          /\ t.entries = s.entries /\ t.din = s.din /\ t.dirty = s.dirty /\ t.panic = s.panic
      BY <1>1, <2>1, <2>3 DEF Calls
    <2>5. Sound(t) /\ Evolves(s, t)
      BY <2>4, SameMap
    <2> QED BY <1>4, <2>2, <2>4, <2>5 DEF Grown, Ent
  <1>5. CASE ind # 0 /\ s.entries[ind][i] = 0
    <2>1. PICK new : new = block_alloc(held)
      OBVIOUS
    <2>2. get_sub(s, i) = IF new.ret # "ok" THEN new
                          ELSE [new EXCEPT !.entries[ind][i] = new.ino,
                                           !.din.indirect = ind, !.dirty = @ \/ ind = 0]
      BY <1>1, <1>3, <1>5, <2>1 DEF get_sub
    <2>3. CASE s.freemap = {}
      <3>1. /\ new \in Calls /\ new.ret = "E_NO_MEM"
            /\ new.freemap = s.freemap /\ new.unused_blocks = s.unused_blocks
            /\ new.entries = s.entries /\ new.din = s.din /\ new.dirty = s.dirty
            /\ new.panic = s.panic
        BY SMTT(30), ZenonT(90), <1>3, <2>1, <2>3, AllocFails
      <3>2. Sound(new) /\ Evolves(s, new)
        BY <3>1, SameMap
      <3> QED BY <2>2, <3>1, <3>2 DEF Grown
    <2>4. CASE s.freemap # {}
      <3>1. /\ new \in Calls
            /\ new.ino \in s.freemap /\ new.ino \in Blocks /\ new.freemap = s.freemap \ {new.ino}
            /\ new.unused_blocks = Cardinality(new.freemap)
            /\ new.entries = [s.entries EXCEPT ![new.ino] = ZeroBlock]
            /\ new.din = s.din /\ new.dirty = s.dirty /\ new.ret = s.ret /\ new.panic = s.panic
        <4>1. held \in Calls /\ held.unused_blocks = Cardinality(held.freemap) /\ held.freemap # {}
          BY <1>1, <1>3, <2>4
        <4>2. /\ new \in Calls
              /\ new.ino \in held.freemap /\ new.ino \in Blocks
              /\ new.freemap = held.freemap \ {new.ino}
              /\ new.unused_blocks = Cardinality(new.freemap)
              /\ new.entries = [held.entries EXCEPT ![new.ino] = ZeroBlock]
              /\ new.din = held.din /\ new.dirty = held.dirty /\ new.ret = held.ret
              /\ new.panic = held.panic
          BY SMTT(30), ZenonT(90), <2>1, <4>1, AllocGives
        <4> QED BY <1>3, <4>2
      <3>2. PICK t : t = [new EXCEPT !.entries[ind][i] = new.ino,
                                     !.din.indirect = ind, !.dirty = @ \/ ind = 0]
        OBVIOUS
      <3>3. get_sub(s, i) = t
        BY <2>2, <3>1, <3>2
      <3>4. new.ino # ind /\ ind \in Blocks /\ new.ino \in Numbers
        BY <1>2, <1>5, <3>1 DEF Blocks, Numbers
      <3>5. /\ t.freemap = new.freemap /\ t.unused_blocks = new.unused_blocks
            /\ t.entries = [new.entries EXCEPT ![ind][i] = new.ino]
            /\ t.din = [s.din EXCEPT !.indirect = ind] /\ t.dirty = (new.dirty \/ ind = 0)
            /\ t.panic = new.panic /\ t.ret = new.ret /\ t.ino = new.ino
            /\ t = [freemap |-> t.freemap, unused_blocks |-> t.unused_blocks,
                    entries |-> t.entries, din |-> t.din, dirty |-> t.dirty,
                    ret |-> t.ret, ino |-> t.ino, panic |-> t.panic]
        BY <3>1, <3>2 DEF Calls
      <3>6. new.entries \in [Blocks -> [Indices -> Numbers]] /\ new.entries[ind] = s.entries[ind]
        BY <1>1, <3>1, <3>4 DEF Calls
      <3>7. /\ t.entries \in [Blocks -> [Indices -> Numbers]]
            /\ t.entries[ind] = [s.entries[ind] EXCEPT ![i] = new.ino]
            /\ \A c \in Blocks \ {new.ino, ind} : t.entries[c] = s.entries[c]
        <4>1. t.entries = [new.entries EXCEPT ![ind] = [new.entries[ind] EXCEPT ![i] = new.ino]]
          BY <3>5
        <4>2. [s.entries[ind] EXCEPT ![i] = new.ino] \in [Indices -> Numbers]
          BY <1>1, <3>4
        <4>3. \A c \in Blocks \ {new.ino} : new.entries[c] = s.entries[c]
          BY <1>1, <3>1
        <4> QED BY <3>4, <3>6, <4>1, <4>2, <4>3
      <3>8. t.din \in Inodes
        BY <1>1, <3>5 DEF Inodes
      <3>9. t.dirty \in BOOLEAN /\ t.dirty = s.dirty
        BY <1>1, <1>5, <3>1, <3>5
      <3>10. t \in Calls
        BY <3>1, <3>5, <3>7, <3>8, <3>9 DEF Calls
      <3>11. Ent(s, i) = 0
        BY <1>5 DEF Ent
      <3>12. PICK b : b = new.ino
        OBVIOUS
      <3>13. /\ b \in s.freemap /\ b # ind /\ ind \in Blocks
             /\ Placed(s, t, i, ind, b)
             /\ t.unused_blocks = Cardinality(t.freemap)
             /\ t.din = [s.din EXCEPT !.indirect = ind] /\ t.panic = "none"
             /\ \A c \in Blocks \ {b, ind} : t.entries[c] = s.entries[c]
        BY <3>1, <3>4, <3>5, <3>7, <3>9, <3>12 DEF Placed
      <3>14. Grown(s, t) /\ Ent(t, i) = b /\ b # 0
        BY <3>10, <3>11, <3>13, NewEntry
      <3> QED BY <3>3, <3>14
    <2> QED BY <2>3, <2>4
  <1>6. CASE ind = 0
    <2>1. PICK ent : ent = block_alloc(s)
      OBVIOUS
    <2>2. PICK new : new = block_alloc(ent)
      OBVIOUS
    <2>3. get_sub(s, i) = IF ent.ret # "ok" THEN ent
                          ELSE IF new.ret # "ok" THEN block_free(new, ent.ino)
                          ELSE [new EXCEPT !.entries[ent.ino][i] = new.ino,
                                           !.din.indirect = ent.ino, !.dirty = @ \/ ind = 0]
      BY <1>6, <2>1, <2>2 DEF get_sub
    <2>4. CASE s.freemap = {}
      <3>1. /\ ent \in Calls /\ ent.ret = "E_NO_MEM"
            /\ ent.freemap = s.freemap /\ ent.unused_blocks = s.unused_blocks
            /\ ent.entries = s.entries /\ ent.din = s.din /\ ent.dirty = s.dirty
            /\ ent.panic = s.panic
        BY <1>1, <2>1, <2>4, AllocFails
      <3>2. Sound(ent) /\ Evolves(s, ent)
        BY <3>1, SameMap
      <3> QED BY <2>3, <3>1, <3>2 DEF Grown
    <2>5. CASE s.freemap # {}
      <3>1. /\ ent \in Calls
            /\ ent.ino \in s.freemap /\ ent.ino \in Blocks /\ ent.freemap = s.freemap \ {ent.ino}
            /\ ent.unused_blocks = Cardinality(ent.freemap)
            /\ ent.entries = [s.entries EXCEPT ![ent.ino] = ZeroBlock]
            /\ ent.din = s.din /\ ent.dirty = s.dirty /\ ent.ret = s.ret /\ ent.panic = s.panic
        BY <1>1, <2>1, <2>5, AllocGives
      <3>2. CASE ent.freemap = {}
        <4>1. /\ new \in Calls /\ new.ret = "E_NO_MEM"
              /\ new.freemap = ent.freemap /\ new.unused_blocks = ent.unused_blocks
              /\ new.entries = ent.entries /\ new.din = ent.din /\ new.dirty = ent.dirty
              /\ new.panic = ent.panic
          BY <3>1, <2>2, <3>2, AllocFails
        <4>2. PICK t : t = block_free(new, ent.ino)
          OBVIOUS
        <4>3. /\ t \in Calls /\ t.freemap = new.freemap \union {ent.ino}
              /\ t.unused_blocks = Cardinality(t.freemap)
              /\ t.entries = new.entries /\ t.din = new.din /\ t.dirty = new.dirty
              /\ t.ret = new.ret /\ t.panic = new.panic
          <5>1. ent.ino \notin new.freemap /\ new.unused_blocks = Cardinality(new.freemap)
            BY <3>1, <4>1
          <5> QED BY SMTT(30), ZenonT(90), <3>1, <4>1, <4>2, <5>1, FreeTakes
        <4>4. t.freemap = s.freemap /\ t.unused_blocks = s.unused_blocks
              /\ \A c \in Blocks \ s.freemap : t.entries[c] = s.entries[c]
          <5>1. t.freemap = s.freemap
            BY <3>1, <4>1, <4>3
          <5>2. t.entries = [s.entries EXCEPT ![ent.ino] = ZeroBlock]
            BY <3>1, <4>1, <4>3
          <5> QED BY SMTT(30), ZenonT(90), <1>1, <3>1, <4>3, <5>1, <5>2
        <4>5. Sound(t) /\ Evolves(s, t)
          BY <3>1, <4>1, <4>3, <4>4, SameMap
        <4> QED BY <2>3, <3>1, <4>1, <4>2, <4>3, <4>5 DEF Grown
      <3>3. CASE ent.freemap # {}
        <4>1. /\ new \in Calls
              /\ new.ino \in ent.freemap /\ new.ino \in Blocks
              /\ new.freemap = ent.freemap \ {new.ino}
              /\ new.unused_blocks = Cardinality(new.freemap)
              /\ new.entries = [ent.entries EXCEPT ![new.ino] = ZeroBlock]
              /\ new.din = ent.din /\ new.dirty = ent.dirty /\ new.ret = ent.ret
              /\ new.panic = ent.panic
          BY <3>1, <2>2, <3>3, AllocGives
        <4>2. PICK t : t = [new EXCEPT !.entries[ent.ino][i] = new.ino,
                                       !.din.indirect = ent.ino, !.dirty = @ \/ ind = 0]
          OBVIOUS
        <4>3. get_sub(s, i) = t
          BY <2>3, <3>1, <4>1, <4>2
        <4>4. new.ino # ent.ino /\ new.ino \in Numbers /\ ent.ino \in Numbers /\ new.ino \in s.freemap
          BY <3>1, <4>1 DEF Blocks, Numbers
        <4>5. /\ t.freemap = new.freemap /\ t.unused_blocks = new.unused_blocks
              /\ t.entries = [new.entries EXCEPT ![ent.ino][i] = new.ino]
              /\ t.din = [s.din EXCEPT !.indirect = ent.ino] /\ t.dirty = (new.dirty \/ ind = 0)
              /\ t.panic = new.panic /\ t.ret = new.ret /\ t.ino = new.ino
              /\ t = [freemap |-> t.freemap, unused_blocks |-> t.unused_blocks,
                      entries |-> t.entries, din |-> t.din, dirty |-> t.dirty,
                      ret |-> t.ret, ino |-> t.ino, panic |-> t.panic]
          BY <3>1, <4>1, <4>2 DEF Calls
        <4>6. new.entries \in [Blocks -> [Indices -> Numbers]] /\ new.entries[ent.ino] = ZeroBlock
          BY <1>1, <3>1, <4>1, <4>4 DEF Calls
        <4>7. /\ t.entries \in [Blocks -> [Indices -> Numbers]]
              /\ t.entries[ent.ino] = [ZeroBlock EXCEPT ![i] = new.ino]
              /\ \A c \in Blocks \ {new.ino, ent.ino} : t.entries[c] = s.entries[c]
          <5>1. t.entries = [new.entries EXCEPT ![ent.ino] = [new.entries[ent.ino] EXCEPT ![i] = new.ino]]
            BY <4>5
          <5>2. [ZeroBlock EXCEPT ![i] = new.ino] \in [Indices -> Numbers]
            BY <4>4 DEF ZeroBlock, Indices, Numbers
          <5>3. \A c \in Blocks \ {new.ino, ent.ino} : new.entries[c] = s.entries[c]
            BY <1>1, <3>1, <4>1 DEF Calls
          <5> QED BY <3>1, <4>4, <4>6, <5>1, <5>2, <5>3
        <4>8. t.din \in Inodes
          BY <1>1, <4>4, <4>5 DEF Inodes
        <4>9. t.dirty \in BOOLEAN /\ t.dirty = TRUE
          BY <1>6, <4>5
        <4>10. t \in Calls
          BY <4>1, <4>5, <4>7, <4>8, <4>9 DEF Calls
        <4>11. Ent(s, i) = 0
          BY <1>6 DEF Ent
        <4>12. t.freemap = s.freemap \ {new.ino, ent.ino} /\ t.panic = "none"
               /\ t.unused_blocks = Cardinality(t.freemap)
          BY <3>1, <4>1, <4>5
        <4>13. PICK b, e : b = new.ino /\ e = ent.ino
          OBVIOUS
        <4>14. /\ b \in s.freemap /\ b # e /\ e \in Blocks
               /\ Placed(s, t, i, e, b)
               /\ t.unused_blocks = Cardinality(t.freemap)
               /\ t.din = [s.din EXCEPT !.indirect = e] /\ t.panic = "none"
               /\ \A c \in Blocks \ {b, e} : t.entries[c] = s.entries[c]
          BY <1>6, <3>1, <4>4, <4>5, <4>7, <4>9, <4>12, <4>13 DEF Placed
        <4>15. Grown(s, t) /\ Ent(t, i) = b /\ b # 0
          BY <4>10, <4>11, <4>14, NewEntry
        <4> QED BY <4>3, <4>15
      <3> QED BY <3>2, <3>3
    <2> QED BY <2>4, <2>5
  <1> QED BY <1>4, <1>5, <1>6

\* A free block becomes direct block i.
PlacedDirect(s, t, i, b) ==
    /\ t.freemap = s.freemap \ {b} /\ t.unused_blocks = Cardinality(t.freemap)
    /\ t.dirty = TRUE /\ t.panic = "none"
    /\ t.din.direct = [s.din.direct EXCEPT ![i] = b] /\ t.din.indirect = s.din.indirect
    /\ t.din.size = s.din.size /\ t.din.blocks = s.din.blocks
    /\ \A c \in Blocks \ {b} : t.entries[c] = s.entries[c]
LEMMA NewDirect ==
    ASSUME NEW s, NEW t \in Calls, Sound(s), NEW i \in Direct, s.din.direct[i] = 0,
           NEW b \in s.freemap, PlacedDirect(s, t, i, b)
    PROVE  Grown(s, t) /\ t.din.direct[i] = b /\ b # 0
  <1> USE DEF PlacedDirect
  <1>1. s \in Calls /\ s.din.blocks \in Int /\ s.din \in Inodes /\ b \in Blocks
        /\ s.din.direct \in [Direct -> Numbers]
    BY DEF Sound, Calls, Inodes
  <1>2. /\ t.din.indirect = s.din.indirect /\ t.din.direct = [s.din.direct EXCEPT ![i] = b]
        /\ t.din.size = s.din.size /\ t.din.blocks = s.din.blocks
    BY <1>1 DEF Inodes
  <1>3. b # 0
    BY <1>1 DEF Blocks
  <1>4. \A j \in Direct : t.din.direct[j] = IF j = i THEN b ELSE s.din.direct[j]
    BY <1>1, <1>2
  <1>5. ~Owns(s, b) /\ \A c \in s.freemap : ~Owns(s, c)
    BY DEF Sound
  <1>6. ASSUME NEW j \in Indices PROVE Ent(t, j) = Ent(s, j)
    <2>1. s.din.indirect # 0 => s.din.indirect \in Blocks \ {b}
      BY <1>1, <1>5, EntNumber, <1>6 DEF Owns
    <2> QED BY <1>2, <2>1 DEF Ent
  <1>7. Once(t)
    BY <1>2, <1>3, <1>4, <1>5, <1>6 DEF Once, Sound, Owns
  <1>8. ASSUME NEW c \in Blocks PROVE Owns(t, c) <=> (Owns(s, c) \/ c = b)
    <2>1. c # 0
      BY DEF Blocks
    <2> QED BY <1>2, <1>4, <1>6, <2>1 DEF Owns
  <1>9. t.freemap \in SUBSET Blocks
    BY DEF Calls
  <1>10. \A c \in t.freemap : ~Owns(t, c)
    BY <1>5, <1>8, <1>9
  <1>11. \A c \in Blocks : Others(s, c) <=> Others(t, c)
    BY <1>8 DEF Others
  <1>12. \A c \in Blocks : Others(s, c) => t.entries[c] = s.entries[c]
    BY DEF Others
  <1>13. ASSUME NEW j \in 0 .. t.din.blocks - 1 PROVE bmap_find(t, j) # 0
    <2>1. j \in Direct \/ (~(j < NDirect) /\ j - NDirect \in Indices)
      BY <1>1, <1>2 DEF Inodes, Direct, Indices
    <2>2. bmap_find(s, j) # 0
      BY <1>2 DEF Sound
    <2>3. /\ bmap_find(s, j) = IF j < NDirect THEN s.din.direct[j] ELSE Ent(s, j - NDirect)
          /\ bmap_find(t, j) = IF j < NDirect THEN t.din.direct[j] ELSE Ent(t, j - NDirect)
      BY FindIs
    <2>4. j \in Direct => j < NDirect
      BY DEF Direct
    <2> QED BY <1>3, <1>4, <1>6, <2>1, <2>2, <2>3, <2>4
  <1>14. Sound(t)
    BY <1>7, <1>10, <1>13 DEF Sound
  <1>15. Evolves(s, t)
    BY <1>11, <1>12 DEF Evolves
  <1> QED BY <1>2, <1>3, <1>4, <1>14, <1>15 DEF Grown

\* The blocks of a file are fewer than the places for them: the indirect block
\* takes one block of the disk itself.
LEMMA PlaceLeft ==
    ASSUME NEW s, Sound(s)
    PROVE  s.din.blocks < NDirect + NEntry
  <1> DEFINE N == NDirect + NEntry
             f == [i \in 0 .. N |-> IF i = N THEN s.din.indirect ELSE bmap_find(s, i)]
  <1>1. s \in Calls /\ s.din.blocks \in 0 .. N /\ s.din.direct \in [Direct -> Numbers]
    BY DEF Sound, Calls, Inodes
  <1>2. SUFFICES ASSUME s.din.blocks = N PROVE FALSE
    BY <1>1
  <1>3. ASSUME NEW i \in 0 .. N - 1
        PROVE  /\ bmap_find(s, i) # 0
               /\ i < NDirect => i \in Direct /\ bmap_find(s, i) = s.din.direct[i]
               /\ ~(i < NDirect) => i - NDirect \in Indices /\ bmap_find(s, i) = Ent(s, i - NDirect)
    BY <1>2, FindIs DEF Sound, Direct, Indices
  <1>4. s.din.indirect # 0
    <2>1. N - 1 \in 0 .. N - 1 /\ ~(N - 1 < NDirect)
      OBVIOUS
    <2>2. Ent(s, N - 1 - NDirect) # 0
      BY <1>3, <2>1
    <2> QED BY <2>2 DEF Ent
  <1>5. ASSUME NEW i \in 0 .. N PROVE f[i] \in Blocks
    <2>1. i # N => i \in 0 .. N - 1
      OBVIOUS
    <2>2. i # N => bmap_find(s, i) \in Numbers
      BY <1>1, <1>3, <2>1, EntNumber
    <2>3. s.din.indirect \in Numbers
      BY <1>1 DEF Calls, Inodes
    <2> QED BY <1>3, <1>4, <2>1, <2>2, <2>3 DEF Numbers, Blocks
  <1>6. f \in [0 .. N -> Blocks]
    BY <1>5
  <1>7. ASSUME NEW i \in 0 .. N, NEW j \in 0 .. N, f[i] = f[j] PROVE i = j
    <2>1. /\ i # N => i \in 0 .. N - 1
          /\ j # N => j \in 0 .. N - 1
      OBVIOUS
    <2>2. CASE i # N /\ j # N
      <3>1. f[i] = bmap_find(s, i) /\ f[j] = bmap_find(s, j)
        BY <2>2
      <3> QED BY <1>3, <1>7, <2>1, <2>2, <3>1 DEF Sound, Once
    <2>3. CASE i = N /\ j # N
      <3>1. f[i] = s.din.indirect /\ f[j] = bmap_find(s, j)
        BY <2>3
      <3> QED BY <1>3, <1>7, <2>1, <2>3, <3>1 DEF Sound, Once
    <2>4. CASE i # N /\ j = N
      <3>1. f[j] = s.din.indirect /\ f[i] = bmap_find(s, i)
        BY <2>4
      <3> QED BY <1>3, <1>7, <2>1, <2>4, <3>1 DEF Sound, Once
    <2> QED BY <2>2, <2>3, <2>4
  <1>8. IsFiniteSet(0 .. N) /\ Cardinality(0 .. N) = N + 1
    BY FS_Interval
  <1>9. IsFiniteSet(Blocks) /\ Cardinality(Blocks) = NBlocks
    BY FS_Interval DEF Blocks
  <1>10. Cardinality(0 .. N) <= Cardinality(Blocks)
    <2> HIDE DEF f
    <2>1. f \in Injection(0 .. N, Blocks)
      BY <1>6, <1>7 DEF Injection, IsInjective
    <2> QED BY <1>8, <1>9, <2>1, FS_Injection DEF ExistsInjection
  <1> QED BY <1>8, <1>9, <1>10

LEMMA Create ==
    ASSUME NEW s, Sound(s), s.ret = "ok", s.panic = "none", NEW index \in 0 .. NDirect + NEntry - 1
    PROVE  LET t == bmap_create(s, index)
           IN  Grown(s, t) /\ (t.ret = "ok" => bmap_find(t, index) # 0)
  <1>1. s \in Calls /\ s.unused_blocks = Cardinality(s.freemap) /\ s.din \in Inodes
        /\ s.freemap \in SUBSET Blocks /\ s.din.direct \in [Direct -> Numbers]
        /\ s.entries \in [Blocks -> [Indices -> Numbers]]
    BY DEF Sound, Calls, Inodes
  <1>2. CASE index >= NDirect
    <2>1. index - NDirect \in Indices /\ ~(index < NDirect)
      BY <1>2 DEF Indices
    <2>2. bmap_create(s, index) = get_sub(s, index - NDirect)
      BY <1>2 DEF bmap_create
    <2>3. PICK t : t = get_sub(s, index - NDirect)
      OBVIOUS
    <2>4. Grown(s, t) /\ (t.ret = "ok" => Ent(t, index - NDirect) # 0)
      BY <2>1, <2>3, GetSub
    <2>5. bmap_find(t, index) = Ent(t, index - NDirect)
      BY <2>1, FindIs
    <2> QED BY <2>2, <2>3, <2>4, <2>5
  <1>3. CASE index < NDirect /\ s.din.direct[index] # 0
    <2>1. PICK t : t = [s EXCEPT !.ino = s.din.direct[index]]
      OBVIOUS
    <2>2. bmap_create(s, index) = t
      BY <1>3, <2>1 DEF bmap_create
    <2>3. index \in Direct
      BY <1>3 DEF Direct
    <2>4. t \in Calls /\ t.freemap = s.freemap /\ t.unused_blocks = s.unused_blocks
          /\ t.entries = s.entries /\ t.din = s.din /\ t.dirty = s.dirty /\ t.panic = s.panic
      BY <1>1, <2>1, <2>3 DEF Calls
    <2>5. Sound(t) /\ Evolves(s, t)
      BY <2>4, SameMap
    <2>6. bmap_find(t, index) = s.din.direct[index]
      BY <1>3, <2>4, FindIs
    <2> QED BY <1>3, <2>2, <2>4, <2>5, <2>6 DEF Grown
  <1>4. CASE index < NDirect /\ s.din.direct[index] = 0
    <2>1. PICK new : new = block_alloc(s)
      OBVIOUS
    <2>2. index \in Direct
      BY <1>4 DEF Direct
    <2>3. bmap_create(s, index) = IF new.ret # "ok" THEN new
                                  ELSE [new EXCEPT !.din.direct[index] = new.ino, !.dirty = TRUE]
      BY <1>4, <2>1 DEF bmap_create
    <2>4. CASE s.freemap = {}
      <3>1. /\ new \in Calls /\ new.ret = "E_NO_MEM"
            /\ new.freemap = s.freemap /\ new.unused_blocks = s.unused_blocks
            /\ new.entries = s.entries /\ new.din = s.din /\ new.dirty = s.dirty
            /\ new.panic = s.panic
        BY <1>1, <2>1, <2>4, AllocFails
      <3>2. Sound(new) /\ Evolves(s, new)
        BY <3>1, SameMap
      <3> QED BY <2>3, <3>1, <3>2 DEF Grown
    <2>5. CASE s.freemap # {}
      <3>1. /\ new \in Calls
            /\ new.ino \in s.freemap /\ new.ino \in Blocks /\ new.freemap = s.freemap \ {new.ino}
            /\ new.unused_blocks = Cardinality(new.freemap)
            /\ new.entries = [s.entries EXCEPT ![new.ino] = ZeroBlock]
            /\ new.din = s.din /\ new.dirty = s.dirty /\ new.ret = s.ret /\ new.panic = s.panic
        BY <1>1, <2>1, <2>5, AllocGives
      <3>2. PICK b, t : b = new.ino /\ t = [new EXCEPT !.din.direct[index] = b, !.dirty = TRUE]
        OBVIOUS
      <3>3. bmap_create(s, index) = t
        BY <2>3, <3>1, <3>2
      <3>4. /\ t.freemap = new.freemap /\ t.unused_blocks = new.unused_blocks
            /\ t.entries = new.entries /\ t.ino = new.ino
            /\ t.din = [s.din EXCEPT !.direct[index] = b] /\ t.dirty = TRUE
            /\ t.panic = new.panic /\ t.ret = new.ret
            /\ t = [freemap |-> t.freemap, unused_blocks |-> t.unused_blocks,
                    entries |-> t.entries, din |-> t.din, dirty |-> t.dirty,
                    ret |-> t.ret, ino |-> t.ino, panic |-> t.panic]
        BY <3>1, <3>2 DEF Calls
      <3>5. b \in Numbers /\ b \in s.freemap
        BY <3>1, <3>2 DEF Blocks, Numbers
      <3>6. t.din \in Inodes
        <4>1. [s.din.direct EXCEPT ![index] = b] \in [Direct -> Numbers]
          BY <1>1, <3>5
        <4> QED BY <1>1, <3>4, <4>1 DEF Inodes
      <3>7. t \in Calls
        BY <3>1, <3>4, <3>6 DEF Calls
      <3>8. PlacedDirect(s, t, index, b)
        <4>1. t.freemap = s.freemap \ {b} /\ t.unused_blocks = Cardinality(t.freemap)
              /\ t.panic = "none"
              /\ t.din.direct = [s.din.direct EXCEPT ![index] = b] /\ t.din.indirect = s.din.indirect
              /\ t.din.size = s.din.size /\ t.din.blocks = s.din.blocks
          <5>1. t.din.direct = [s.din.direct EXCEPT ![index] = b] /\ t.din.indirect = s.din.indirect
                /\ t.din.size = s.din.size /\ t.din.blocks = s.din.blocks
            <6>1. PICK e : e = [s.din.direct EXCEPT ![index] = b]
              OBVIOUS
            <6>2. t.din = [s.din EXCEPT !.direct = e]
              BY <3>4, <6>1
            <6> QED BY <1>1, <6>1, <6>2 DEF Inodes
          <5> QED BY <3>1, <3>2, <3>4, <5>1
        <4>2. t.dirty = TRUE
          BY <3>4
        <4>3. \A c \in Blocks \ {b} : t.entries[c] = s.entries[c]
          BY <1>1, <3>1, <3>2, <3>4
        <4> QED BY <4>1, <4>2, <4>3 DEF PlacedDirect
      <3>9. Grown(s, t) /\ t.din.direct[index] = b /\ b # 0
        <4>1. s.din.direct[index] = 0
          BY <1>4
        <4> QED BY <2>2, <3>5, <3>7, <3>8, <4>1, NewDirect
      <3>10. bmap_find(t, index) = t.din.direct[index]
        BY <1>4, FindIs
      <3> QED BY <3>3, <3>9, <3>10
    <2> QED BY <2>4, <2>5
  <1> QED BY <1>2, <1>3, <1>4

\* The map as a call finds it is that of another call with the same inode and
\* the same entries.
LEMMA SameFinds ==
    ASSUME NEW s, NEW t, t.din.direct = s.din.direct, t.din.indirect = s.din.indirect,
           t.entries = s.entries
    PROVE  /\ \A i : Ent(t, i) = Ent(s, i) /\ bmap_find(t, i) = bmap_find(s, i)
           /\ \A b : Owns(t, b) <=> Owns(s, b)
           /\ Once(t) <=> Once(s)
  <1>1. \A i : Ent(t, i) = Ent(s, i) /\ bmap_find(t, i) = bmap_find(s, i)
    BY DEF Ent, bmap_find
  <1>2. \A b : Owns(t, b) <=> Owns(s, b)
    BY <1>1 DEF Owns
  <1>3. Once(t) <=> Once(s)
    BY <1>1 DEF Once
  <1> QED BY <1>1, <1>2, <1>3

\* sfs_bmap_load_nolock
LEMMA Load ==
    ASSUME NEW s, Sound(s), s.ret = "ok", s.panic = "none", NEW index \in Nat
    PROVE  LET t == bmap_load(s, index)
           IN  /\ Sound(t) /\ Evolves(s, t) /\ t.din.size = s.din.size
               /\ t.panic = IF index > s.din.blocks THEN "index" ELSE "none"
               /\ t.panic = "none" /\ t.ret = "ok" =>
                     t.din.blocks = IF index = s.din.blocks THEN index + 1 ELSE s.din.blocks
               /\ t.ret # "ok" => index = s.din.blocks /\ t.din.blocks = s.din.blocks
               /\ s.din.blocks <= t.din.blocks
  <1>1. s \in Calls /\ s.din \in Inodes /\ s.din.blocks \in 0 .. NDirect + NEntry
        /\ s.freemap \in SUBSET Blocks
    BY DEF Sound, Calls, Inodes
  <1>2. PICK t : t = bmap_load(s, index)
    OBVIOUS
  <1>3. CASE index > s.din.blocks
    <2>1. t = [s EXCEPT !.panic = "index"]
      BY <1>2, <1>3 DEF bmap_load, Check
    <2>2. t \in Calls /\ t.freemap = s.freemap /\ t.unused_blocks = s.unused_blocks
          /\ t.entries = s.entries /\ t.din = s.din /\ t.dirty = s.dirty
          /\ t.panic = "index" /\ t.ret = "ok"
      BY <1>1, <2>1 DEF Calls, Asserts
    <2>3. Sound(t) /\ Evolves(s, t)
      BY <2>2, SameMap
    <2> QED BY <1>1, <1>2, <1>3, <2>2, <2>3
  <1>4. CASE index < s.din.blocks
    <2>1. index \in 0 .. s.din.blocks - 1 /\ ~(index > s.din.blocks) /\ index # s.din.blocks
      BY <1>1, <1>4
    <2>2. PICK b : b = bmap_find(s, index)
      OBVIOUS
    <2>3. b # 0
      BY <2>1, <2>2 DEF Sound
    <2>4. b = IF index < NDirect THEN s.din.direct[index] ELSE Ent(s, index - NDirect)
      BY <2>2, FindIs
    <2>5. /\ index < NDirect => index \in Direct
          /\ ~(index < NDirect) => index - NDirect \in Indices
      BY <1>1, <2>1 DEF Direct, Indices
    <2>6. b \in Numbers
      BY <1>1, <2>4, <2>5, EntNumber DEF Inodes
    <2>7. Owns(s, b) /\ b \in Blocks
      BY <2>3, <2>4, <2>5, <2>6 DEF Owns, Blocks, Numbers
    <2>8. b \in Blocks \ s.freemap
      BY <2>7 DEF Sound
    <2>9. t = [s EXCEPT !.ino = b]
      BY <1>2, <2>1, <2>2, <2>8 DEF bmap_load, Check
    <2>10. t \in Calls /\ t.freemap = s.freemap /\ t.unused_blocks = s.unused_blocks
          /\ t.entries = s.entries /\ t.din = s.din /\ t.dirty = s.dirty
          /\ t.panic = "none" /\ t.ret = "ok"
      BY <1>1, <2>6, <2>9 DEF Calls
    <2>11. Sound(t) /\ Evolves(s, t)
      BY <2>10, SameMap
    <2> QED BY <1>1, <1>2, <2>1, <2>10, <2>11
  <1>5. CASE index = s.din.blocks
    <2>1. index \in 0 .. NDirect + NEntry - 1
      BY <1>1, <1>5, PlaceLeft
    <2>2. PICK new : new = bmap_create(s, index)
      OBVIOUS
    <2>3. Grown(s, new) /\ (new.ret = "ok" => bmap_find(new, index) # 0)
      BY <2>1, <2>2, Create
    <2>4. t = IF new.ret # "ok" THEN new ELSE [new EXCEPT !.din.blocks = @ + 1]
      <3>1. ~(index > s.din.blocks)
        BY <1>1, <1>5
      <3> QED BY <1>2, <1>5, <2>2, <3>1 DEF bmap_load
    <2>5. CASE new.ret # "ok"
      BY <1>1, <1>2, <1>5, <2>3, <2>4, <2>5 DEF Grown
    <2>6. CASE new.ret = "ok"
      <3>1. new \in Calls /\ new.din \in Inodes /\ Sound(new) /\ Evolves(s, new)
            /\ new.panic = "none" /\ new.din.blocks = index /\ new.din.size = s.din.size
        BY <1>5, <2>3 DEF Grown, Sound, Calls
      <3>2. PICK d : d = [new.din EXCEPT !.blocks = @ + 1]
        OBVIOUS
      <3>3. t = [new EXCEPT !.din = d]
        BY <2>4, <2>6, <3>2
      <3>4. d \in Inodes /\ d.blocks = index + 1 /\ d.size = s.din.size
            /\ d.direct = new.din.direct /\ d.indirect = new.din.indirect
        BY <2>1, <3>1, <3>2 DEF Inodes
      <3>5. t \in Calls /\ t.din = d /\ t.freemap = new.freemap /\ t.entries = new.entries
            /\ t.unused_blocks = new.unused_blocks /\ t.dirty = new.dirty
            /\ t.ret = "ok" /\ t.panic = "none"
        BY <2>6, <3>1, <3>3, <3>4 DEF Calls
      <3>6. /\ \A i : bmap_find(t, i) = bmap_find(new, i)
            /\ \A b : Owns(t, b) <=> Owns(new, b)
            /\ Once(t)
        BY <3>1, <3>4, <3>5, SameFinds DEF Sound
      <3>7. \A i \in 0 .. t.din.blocks - 1 : bmap_find(t, i) # 0
        <4>1. ASSUME NEW i \in 0 .. t.din.blocks - 1 PROVE bmap_find(t, i) # 0
          <5>1. i = index \/ i \in 0 .. new.din.blocks - 1
            BY <3>1, <3>4, <3>5
          <5> QED BY <2>3, <2>6, <3>1, <3>6, <5>1 DEF Sound
        <4> QED BY <4>1
      <3>8. Sound(t)
        BY <3>1, <3>5, <3>6, <3>7 DEF Sound
      <3>9. \A b : Others(t, b) <=> Others(new, b)
        BY <3>5, <3>6 DEF Others
      <3>10. Evolves(s, t)
        BY <3>1, <3>4, <3>5, <3>9, <1>1 DEF Evolves
      <3> QED BY <1>1, <1>2, <1>5, <3>4, <3>5, <3>8, <3>10
    <2> QED BY <2>5, <2>6
  <1> QED BY <1>1, <1>3, <1>4, <1>5

\* The loop over the blocks from first to last.
LEMMA LoadsAll ==
    ASSUME NEW s, Sound(s), s.ret = "ok", s.panic = "none",
           NEW first \in Nat, NEW last \in Nat, first <= last
    PROVE  LET t == LoadAll(s, first, last)
           IN  /\ Sound(t) /\ Evolves(s, t) /\ t.din.size = s.din.size
               /\ t.panic \in {"none", "index"}
               /\ first = s.din.blocks => t.panic = "none"
               /\ t.panic = "none" /\ t.ret = "ok" => last + 1 <= t.din.blocks
               /\ t.ret = "ok" /\ first = s.din.blocks => t.din.blocks = last + 1
               /\ t.ret # "ok" => t.panic = "none" /\ first <= t.din.blocks
               /\ s.din.blocks <= t.din.blocks
  <1> DEFINE N == last - first + 1
             Step(x, n) == IF x.ret # "ok" \/ x.panic # "none" THEN x
                           ELSE bmap_load(x, first + n - 1)
             U == {x \in Calls : Sound(x)}
             F == [n \in 1 .. N |-> [x \in U |-> Step(x, n)]]
             Rec(h) == h = [n \in 0 .. N |->
                              IF n = 0 THEN s
                              ELSE IF h[n - 1].ret # "ok" \/ h[n - 1].panic # "none"
                                   THEN h[n - 1]
                                   ELSE bmap_load(h[n - 1], first + n - 1)]
  <1>1. N \in Nat /\ N > 0 /\ s \in U
    BY DEF Sound
  <1>2. ASSUME NEW x \in U, NEW n \in 1 .. N PROVE Step(x, n) \in U
    <2>1. CASE x.ret # "ok" \/ x.panic # "none"
      BY <2>1
    <2>2. CASE x.ret = "ok" /\ x.panic = "none"
      <3>1. first + n - 1 \in Nat
        BY <1>1
      <3>2. Sound(bmap_load(x, first + n - 1))
        BY <2>2, <3>1, Load
      <3> QED BY <2>2, <3>2 DEF Sound
    <2> QED BY <2>1, <2>2
  <1>3. F \in [1 .. N -> [U -> U]]
    <2> HIDE DEF Step, U
    <2> QED BY <1>2
  <1>4. PICK g : g \in [0 .. N -> U] /\ g[0] = s /\ \A n \in 1 .. N : g[n] = F[n][g[n - 1]]
    <2> HIDE DEF F, U, N
    <2>1. IsLoop(N, U, s, F)
      BY <1>1, <1>3 DEF IsLoop
    <2>2. PICK g : Runs(g, N, U, s, F)
      BY <2>1, LoopRuns
    <2> QED BY <2>2 DEF Runs
  <1>5. ASSUME NEW n \in 1 .. N
        PROVE  n - 1 \in 0 .. N /\ g[n] = Step(g[n - 1], n)
    <2>1. n - 1 \in 0 .. N
      BY <1>1
    <2>2. PICK x \in U : x = g[n - 1]
      <3> HIDE DEF U, N
      <3> QED BY <1>4, <2>1
    <2>3. F[n][x] = Step(x, n)
      <3> HIDE DEF Step, U, N
      <3> QED OBVIOUS
    <2>4. g[n] = F[n][x]
      <3> HIDE DEF Step, U, N, F
      <3> QED BY <1>4, <2>2
    <2> HIDE DEF Step, U, N, F
    <2> QED BY <2>1, <2>2, <2>3, <2>4
  <1>6. Rec(g)
    <2>1. \A n \in 0 .. N : g[n] = IF n = 0 THEN s
                              ELSE IF g[n - 1].ret # "ok" \/ g[n - 1].panic # "none"
                                   THEN g[n - 1]
                                   ELSE bmap_load(g[n - 1], first + n - 1)
      <3> HIDE DEF N
      <3> QED BY <1>1, <1>4, <1>5
    <2> HIDE DEF N
    <2> QED BY <1>4, <2>1
  <1>7. LoadAll(s, first, last) = (CHOOSE h : Rec(h))[N]
    BY DEF LoadAll
  <1>8. PICK h : h = (CHOOSE x : Rec(x)) /\ Rec(h)
    <2> HIDE DEF Rec
    <2> QED BY <1>6
  <1>9. h[0] = s /\ \A n \in 1 .. N : h[n] = Step(h[n - 1], n)
    <2> HIDE DEF N
    <2>1. 0 \in 0 .. N /\ \A n \in 1 .. N : n \in 0 .. N /\ n # 0
      BY <1>1
    <2> QED BY <1>8, <2>1
  <1> DEFINE P(n) ==
        /\ Sound(h[n]) /\ Evolves(s, h[n]) /\ h[n].din.size = s.din.size
        /\ h[n].panic \in {"none", "index"}
        /\ first = s.din.blocks => h[n].panic = "none"
        /\ n > 0 /\ h[n].panic = "none" /\ h[n].ret = "ok" => first + n <= h[n].din.blocks
        /\ h[n].ret = "ok" /\ first = s.din.blocks => h[n].din.blocks = first + n
        /\ h[n].ret # "ok" => h[n].panic = "none" /\ first <= h[n].din.blocks
        /\ s.din.blocks <= h[n].din.blocks
  <1>10. P(0)
    <2>1. s.din.blocks \in Nat
      BY DEF Sound, Calls, Inodes
    <2> QED BY <1>9, <2>1, EvolvesNot
  <1>11. ASSUME NEW n \in 1 .. N, P(n - 1) PROVE P(n)
    <2> HIDE DEF N
    <2>1. PICK x, y : x = h[n - 1] /\ y = h[n]
      OBVIOUS
    <2>2. y = Step(x, n) /\ n \in Nat /\ n > 0
      BY <1>1, <1>9, <2>1
    <2>3. CASE x.ret # "ok" \/ x.panic # "none"
      <3>1. y = x
        BY <2>2, <2>3
      <3> QED BY <1>11, <2>1, <2>2, <2>3, <3>1
    <2>4. CASE x.ret = "ok" /\ x.panic = "none"
      <3>1. PICK index \in Nat : index = first + n - 1
        BY <2>2
      <3>2. y = bmap_load(x, index)
        BY <2>2, <2>4, <3>1
      <3>3. Sound(x) /\ Evolves(s, x) /\ x.din.size = s.din.size
        BY <1>11, <2>1
      <3>4. /\ Sound(y) /\ Evolves(x, y) /\ y.din.size = x.din.size
            /\ y.panic = IF index > x.din.blocks THEN "index" ELSE "none"
            /\ y.panic = "none" /\ y.ret = "ok" =>
                  y.din.blocks = IF index = x.din.blocks THEN index + 1 ELSE x.din.blocks
            /\ y.ret # "ok" => index = x.din.blocks /\ y.din.blocks = x.din.blocks
            /\ x.din.blocks <= y.din.blocks
        BY <2>4, <3>2, <3>3, Load
      <3>5. Evolves(s, y)
        BY <3>3, <3>4, EvolvesOn
      <3>6. x.din.blocks \in Nat /\ y.din.blocks \in Nat /\ s.din.blocks \in Nat
        BY <3>3, <3>4 DEF Sound, Calls, Inodes
      <3>7. /\ n - 1 > 0 => first + (n - 1) <= x.din.blocks
            /\ first = s.din.blocks => x.din.blocks = first + (n - 1)
        BY <1>11, <2>1, <2>4
      <3>8. y.panic \in {"none", "index"} /\ (first = s.din.blocks => y.panic = "none")
        <4>1. first = s.din.blocks => ~(index > x.din.blocks)
          BY <2>2, <3>1, <3>6, <3>7
        <4>2. y.panic = "none" \/ (index > x.din.blocks /\ y.panic = "index")
          <5>1. CASE index > x.din.blocks
            BY <3>4, <5>1
          <5>2. CASE ~(index > x.din.blocks)
            BY <3>4, <5>2
          <5> QED BY <5>1, <5>2
        <4> QED BY <4>1, <4>2
      <3>9. y.panic = "none" /\ y.ret = "ok" => first + n <= y.din.blocks
        BY <2>2, <3>1, <3>4, <3>6
      <3>10. y.ret = "ok" /\ first = s.din.blocks => y.din.blocks = first + n
        BY <2>2, <3>1, <3>4, <3>6, <3>7, <3>8
      <3>11. y.ret # "ok" => y.panic = "none" /\ first <= y.din.blocks
        BY <2>2, <3>1, <3>4, <3>6
      <3>12. s.din.blocks <= y.din.blocks
        <4>1. s.din.blocks <= x.din.blocks
          BY <1>11, <2>1
        <4> QED BY <3>4, <3>6, <4>1
      <3> QED BY <2>1, <3>3, <3>4, <3>5, <3>8, <3>9, <3>10, <3>11, <3>12
    <2> QED BY <2>3, <2>4
  <1>12. P(N)
    <2> HIDE DEF P
    <2> DEFINE T == {n \in 0 .. N : P(n)}
    <2>1. 0 \in T
      BY <1>1, <1>10
    <2>2. ASSUME NEW n \in 1 .. N, n - 1 \in T PROVE n \in T
      BY <1>11, <2>2
    <2>3. 0 .. N \subseteq T
      <3> HIDE DEF T, N
      <3> QED BY <1>1, <2>1, <2>2, UpTo
    <2>4. N \in 0 .. N
      BY <1>1
    <2> QED BY <2>3, <2>4
  <1>13. LoadAll(s, first, last) = h[N]
    BY <1>7, <1>8
  <1>14. first + N = last + 1
    OBVIOUS
  <1> HIDE DEF N
  <1> QED BY <1>1, <1>12, <1>13, <1>14

-----------------------------------------------------------------------------
(* Truncating                                                              *)

\* The last block b of the file, at index, is free again.
Dropped(s, t, index, b) ==
    /\ t \in Calls /\ t.freemap = s.freemap \union {b} /\ t.unused_blocks = Cardinality(t.freemap)
    /\ t.dirty /\ t.din.indirect = s.din.indirect
    /\ s.din.blocks = index + 1 /\ t.din.blocks = index
    /\ \/ /\ index \in Direct /\ b = s.din.direct[index]
          /\ t.din.direct = [s.din.direct EXCEPT ![index] = 0]
          /\ t.entries = s.entries
       \/ /\ ~(index < NDirect) /\ index - NDirect \in Indices /\ b = Ent(s, index - NDirect)
          /\ s.din.indirect # 0
          /\ t.din.direct = s.din.direct
          /\ t.entries = [s.entries EXCEPT ![s.din.indirect] = [@ EXCEPT ![index - NDirect] = 0]]

LEMMA Drop ==
    ASSUME NEW s, NEW t, Sound(s), NEW index \in Nat, NEW b \in Blocks, Dropped(s, t, index, b)
    PROVE  Sound(t) /\ Evolves(s, t)
  <1>1. s \in Calls /\ s.din \in Inodes /\ s.entries \in [Blocks -> [Indices -> Numbers]]
        /\ s.din.direct \in [Direct -> Numbers] /\ t \in Calls /\ b # 0
    BY DEF Sound, Calls, Inodes, Dropped, Blocks
  <1>2. \A i \in Direct : t.din.direct[i] = IF i = index THEN 0 ELSE s.din.direct[i]
    BY SMTT(30), ZenonT(90), <1>1 DEF Dropped, Direct
  <1>3. ASSUME NEW i \in Indices
        PROVE  Ent(t, i) = IF i = index - NDirect THEN 0 ELSE Ent(s, i)
    <2>1. CASE index \in Direct
      <3>1. i # index - NDirect
        BY <2>1 DEF Direct, Indices
      <3> QED BY <2>1, <3>1 DEF Dropped, Ent, Direct
    <2>2. CASE index \notin Direct
      <3>1. s.din.indirect # 0 /\ s.din.indirect \in Blocks
        BY <1>1, <2>2, EntNumber DEF Dropped
      <3>2. t.entries[s.din.indirect] = [s.entries[s.din.indirect] EXCEPT ![index - NDirect] = 0]
        BY <1>1, <2>2, <3>1 DEF Dropped
      <3>3. s.entries[s.din.indirect] \in [Indices -> Numbers]
        BY <1>1, <3>1
      <3>4. t.din.indirect = s.din.indirect
        BY DEF Dropped
      <3> QED BY <3>1, <3>2, <3>3, <3>4 DEF Ent
    <2> QED BY <2>1, <2>2
  <1>4. /\ index \in Direct => b = s.din.direct[index]
        /\ index \notin Direct => index - NDirect \in Indices /\ b = Ent(s, index - NDirect)
    BY DEF Dropped, Direct
  <1>5. Once(t)
    BY <1>2, <1>3 DEF Once, Sound, Dropped
  <1>6. ASSUME NEW c \in Blocks PROVE Owns(t, c) <=> Owns(s, c) /\ c # b
    <2>1. c # 0
      BY DEF Blocks
    <2>2. t.din.indirect = s.din.indirect
      BY DEF Dropped
    <2>3. CASE index \in Direct
      <3>1. \A i \in Indices : Ent(t, i) = Ent(s, i)
        BY <1>3, <2>3 DEF Direct, Indices
      <3>2. (\E i \in Direct : t.din.direct[i] = c) <=> (\E i \in Direct : s.din.direct[i] = c) /\ c # b
        <4>1. \A i \in Direct : s.din.direct[i] = b => i = index
          BY <1>1, <1>4, <2>3 DEF Sound, Once
        <4> QED BY <1>2, <1>4, <2>1, <2>3, <4>1
      <3>3. s.din.indirect = c => c # b
        BY <1>4, <2>1, <2>3 DEF Sound, Once
      <3>4. ASSUME NEW i \in Indices, Ent(s, i) = c PROVE c # b
        BY <1>4, <2>1, <2>3, <3>4 DEF Sound, Once
      <3> QED BY <2>2, <3>1, <3>2, <3>3, <3>4 DEF Owns
    <2>4. CASE index \notin Direct
      <3>1. PICK j \in Indices : j = index - NDirect /\ b = Ent(s, j)
        BY <1>4, <2>4
      <3>2. \A i \in Direct : t.din.direct[i] = s.din.direct[i] /\ s.din.direct[i] # b
        BY <1>1, <1>2, <2>4, <3>1 DEF Sound, Once
      <3>3. (\E i \in Indices : Ent(t, i) = c) <=> (\E i \in Indices : Ent(s, i) = c) /\ c # b
        <4>1. \A i \in Indices : Ent(s, i) = b => i = j
          BY <1>1, <3>1 DEF Sound, Once
        <4> QED BY <1>3, <2>1, <3>1, <4>1
      <3>4. s.din.indirect # b
        BY <1>1, <3>1 DEF Sound, Once
      <3> QED BY <2>2, <3>2, <3>3, <3>4 DEF Owns
    <2> QED BY <2>3, <2>4
  <1>7. s.freemap \in SUBSET Blocks /\ t.freemap = s.freemap \union {b} /\ t.dirty
    BY <1>1 DEF Calls, Dropped
  <1>8. Owns(s, b)
    BY <1>4 DEF Owns
  <1>9. \A c \in t.freemap : ~Owns(t, c)
    BY <1>6, <1>7 DEF Sound
  <1>10. \A c \in Blocks : Others(s, c) <=> Others(t, c)
    BY <1>6, <1>7, <1>8 DEF Others
  <1>11. \A c \in Blocks : Others(s, c) => t.entries[c] = s.entries[c]
    BY <1>1 DEF Others, Owns, Dropped
  <1>12. ASSUME NEW j \in 0 .. t.din.blocks - 1 PROVE bmap_find(t, j) # 0
    <2>1. s.din.blocks = index + 1 /\ t.din.blocks = index /\ index + 1 <= NDirect + NEntry
      BY <1>1 DEF Dropped, Inodes
    <2>2. j # index /\ j \in 0 .. s.din.blocks - 1 /\ (j < NDirect => j \in Direct)
          /\ (~(j < NDirect) => j - NDirect \in Indices /\ j - NDirect # index - NDirect)
      BY <2>1 DEF Direct, Indices
    <2>3. bmap_find(s, j) # 0
      BY <2>2 DEF Sound
    <2>4. /\ bmap_find(s, j) = IF j < NDirect THEN s.din.direct[j] ELSE Ent(s, j - NDirect)
          /\ bmap_find(t, j) = IF j < NDirect THEN t.din.direct[j] ELSE Ent(t, j - NDirect)
      BY FindIs
    <2>5. CASE j < NDirect
      BY <1>2, <2>2, <2>3, <2>4, <2>5
    <2>6. CASE ~(j < NDirect)
      BY <1>3, <2>2, <2>3, <2>4, <2>6
    <2> QED BY <2>5, <2>6
  <1>13. Sound(t)
    BY <1>1, <1>5, <1>9, <1>12 DEF Sound, Dropped
  <1> QED BY <1>7, <1>10, <1>11, <1>13 DEF Evolves

\* sfs_bmap_truncate_nolock of a file that has a block.
LEMMA Truncate ==
    ASSUME NEW s, Sound(s), s.din.blocks > 0
    PROVE  LET t == bmap_truncate(s)
           IN  /\ Sound(t) /\ Evolves(s, t) /\ t.dirty
               /\ t.din.blocks = s.din.blocks - 1 /\ t.din.size = s.din.size
               /\ t.ret = s.ret /\ t.panic = s.panic
  <1>1. s \in Calls /\ s.din \in Inodes /\ s.din.blocks \in 0 .. NDirect + NEntry
        /\ s.din.direct \in [Direct -> Numbers] /\ s.unused_blocks = Cardinality(s.freemap)
        /\ s.entries \in [Blocks -> [Indices -> Numbers]]
    BY DEF Sound, Calls, Inodes
  <1>2. PICK t : t = bmap_truncate(s)
    OBVIOUS
  <1>3. PICK index \in Nat : index = s.din.blocks - 1
    BY <1>1
  <1>4. PICK b : b = bmap_find(s, index)
    OBVIOUS
  <1>5. b # 0 /\ s.din.blocks = index + 1
    BY <1>1, <1>3, <1>4 DEF Sound
  <1>6. b = IF index < NDirect THEN s.din.direct[index] ELSE Ent(s, index - NDirect)
    BY <1>4, FindIs
  <1>7. /\ index < NDirect => index \in Direct
        /\ ~(index < NDirect) => index - NDirect \in Indices
    BY <1>1, <1>3 DEF Direct, Indices
  <1>8. b \in Blocks /\ Owns(s, b)
    <2>1. b \in Numbers
      BY <1>1, <1>6, <1>7, EntNumber
    <2> QED BY <1>5, <1>6, <1>7, <2>1 DEF Owns, Blocks, Numbers
  <1>9. b \notin s.freemap
    BY <1>8 DEF Sound
  <1>10. PICK u : u = block_free(s, b)
    OBVIOUS
  <1>11. /\ u \in Calls
         /\ u.freemap = s.freemap \union {b}
         /\ u.unused_blocks = Cardinality(u.freemap)
         /\ u.entries = s.entries /\ u.din = s.din /\ u.dirty = s.dirty
         /\ u.ret = s.ret /\ u.panic = s.panic
    BY <1>1, <1>8, <1>9, <1>10, FreeTakes
  <1>12. t = [(IF index < NDirect
               THEN [u EXCEPT !.din.direct[index] = 0]
               ELSE [u EXCEPT !.entries[s.din.indirect][index - NDirect] = 0])
              EXCEPT !.din.blocks = @ - 1, !.dirty = TRUE]
    BY <1>2, <1>3, <1>4, <1>5, <1>10 DEF bmap_truncate
  <1>13. index \in 0 .. NDirect + NEntry
    BY <1>1, <1>3
  <1>14. CASE index < NDirect
    <2>1. PICK e : e = [s.din.direct EXCEPT ![index] = 0]
      OBVIOUS
    <2>2. e \in [Direct -> Numbers]
      <3>1. 0 \in Numbers
        BY DEF Numbers
      <3> QED BY <1>1, <2>1, <3>1
    <2>3. PICK d : d = [s.din EXCEPT !.direct = e, !.blocks = @ - 1]
      OBVIOUS
    <2>4. d \in Inodes /\ d.blocks = index /\ d.direct = e /\ d.size = s.din.size
          /\ d.indirect = s.din.indirect
      <3>1. s.din.blocks - 1 = index
        BY <1>3
      <3> QED BY <1>1, <1>13, <2>2, <2>3, <3>1 DEF Inodes
    <2>5. t = [u EXCEPT !.din = d, !.dirty = TRUE]
      <3>1. PICK w : w = [u EXCEPT !.din.direct[index] = 0]
        OBVIOUS
      <3>2. PICK e2 : e2 = [s.din EXCEPT !.direct = e]
        OBVIOUS
      <3>3. w = [u EXCEPT !.din = e2]
        BY <1>11, <2>1, <3>1, <3>2
      <3>4. t = [w EXCEPT !.din.blocks = @ - 1, !.dirty = TRUE]
        BY <1>12, <1>14, <3>1
      <3>5. [e2 EXCEPT !.blocks = @ - 1] = d
        BY <1>1, <2>3, <3>2 DEF Inodes
      <3>6. w.din = e2
        BY <1>11, <3>3 DEF Calls
      <3>7. t = [w EXCEPT !.din = d, !.dirty = TRUE]
        BY <3>4, <3>5, <3>6
      <3> QED BY <1>11, <3>3, <3>7 DEF Calls
    <2>6. t \in Calls /\ t.din = d /\ t.dirty /\ t.freemap = u.freemap /\ t.entries = u.entries
          /\ t.unused_blocks = u.unused_blocks /\ t.ret = u.ret /\ t.panic = u.panic
      BY <1>11, <2>4, <2>5 DEF Calls
    <2>7. Dropped(s, t, index, b)
      BY <1>5, <1>6, <1>7, <1>11, <1>14, <2>1, <2>4, <2>6 DEF Dropped
    <2>8. Sound(t) /\ Evolves(s, t)
      BY <1>8, <2>7, Drop
    <2> QED BY <1>2, <1>3, <1>11, <2>4, <2>6, <2>8
  <1>15. CASE ~(index < NDirect)
    <2>1. PICK ind, i : ind = s.din.indirect /\ i = index - NDirect
      OBVIOUS
    <2>2. ind # 0 /\ ind \in Blocks /\ i \in Indices
      BY <1>1, <1>5, <1>6, <1>7, <1>15, <2>1, EntNumber DEF Ent
    <2>3. PICK e : e = [s.entries[ind] EXCEPT ![i] = 0]
      OBVIOUS
    <2>4. e \in [Indices -> Numbers]
      BY <1>1, <2>2, <2>3 DEF Numbers
    <2>5. PICK m : m = [s.entries EXCEPT ![ind] = e]
      OBVIOUS
    <2>6. m \in [Blocks -> [Indices -> Numbers]] /\ m = [s.entries EXCEPT ![ind] = [@ EXCEPT ![i] = 0]]
      BY <1>1, <2>2, <2>3, <2>4, <2>5
    <2>7. PICK d : d = [s.din EXCEPT !.blocks = @ - 1]
      OBVIOUS
    <2>8. d \in Inodes /\ d.blocks = index /\ d.direct = s.din.direct /\ d.size = s.din.size
          /\ d.indirect = s.din.indirect
      BY <1>1, <1>3, <1>13, <2>7 DEF Inodes
    <2>9. t = [u EXCEPT !.entries = m, !.din = d, !.dirty = TRUE]
      <3>1. PICK w : w = [u EXCEPT !.entries[ind][i] = 0]
        OBVIOUS
      <3>2. w = [u EXCEPT !.entries = m]
        BY <1>11, <2>3, <2>5, <3>1
      <3>3. t = [w EXCEPT !.din.blocks = @ - 1, !.dirty = TRUE]
        BY <1>12, <1>15, <2>1, <3>1
      <3>4. w.din = s.din
        BY <1>11, <3>2 DEF Calls
      <3>5. t = [w EXCEPT !.din = d, !.dirty = TRUE]
        BY <2>7, <3>3, <3>4
      <3> QED BY <1>11, <3>2, <3>5 DEF Calls
    <2>10. t \in Calls /\ t.din = d /\ t.dirty /\ t.freemap = u.freemap /\ t.entries = m
          /\ t.unused_blocks = u.unused_blocks /\ t.ret = u.ret /\ t.panic = u.panic
      BY <1>11, <2>6, <2>8, <2>9 DEF Calls
    <2>11. Dropped(s, t, index, b)
      BY <1>5, <1>6, <1>7, <1>11, <1>15, <2>1, <2>2, <2>6, <2>8, <2>10 DEF Dropped
    <2>12. Sound(t) /\ Evolves(s, t)
      BY <1>8, <2>11, Drop
    <2> QED BY <1>2, <1>3, <1>11, <2>8, <2>10, <2>12
  <1> QED BY <1>14, <1>15

\* Rounds that each drop a block while there is one.
LEMMA Rounds ==
    ASSUME NEW s, Sound(s), NEW k \in Nat, k <= s.din.blocks, NEW h, h[0] = s,
           \A n \in 1 .. k : h[n - 1].din.blocks > 0 => h[n] = bmap_truncate(h[n - 1]),
           NEW n \in 0 .. k
    PROVE  /\ Sound(h[n]) /\ Evolves(s, h[n]) /\ h[n].din.blocks = s.din.blocks - n
           /\ h[n].din.size = s.din.size /\ h[n].ret = s.ret /\ h[n].panic = s.panic
  <1> DEFINE P(m) ==
        /\ Sound(h[m]) /\ Evolves(s, h[m]) /\ h[m].din.blocks = s.din.blocks - m
        /\ h[m].din.size = s.din.size /\ h[m].ret = s.ret /\ h[m].panic = s.panic
             T == {m \in 0 .. k : P(m)}
  <1>1. s.din.blocks \in Nat
    BY DEF Sound, Calls, Inodes
  <1>2. 0 \in T
    BY <1>1, EvolvesNot
  <1>3. ASSUME NEW m \in 1 .. k, m - 1 \in T PROVE m \in T
    <2>1. PICK x, y : x = h[m - 1] /\ y = h[m]
      OBVIOUS
    <2>2. /\ Sound(x) /\ Evolves(s, x) /\ x.din.blocks = s.din.blocks - (m - 1)
          /\ x.din.size = s.din.size /\ x.ret = s.ret /\ x.panic = s.panic
      BY <1>3, <2>1
    <2>3. x.din.blocks > 0
      BY <1>1, <2>2
    <2>4. y = bmap_truncate(x)
      BY <2>1, <2>3
    <2>5. /\ Sound(y) /\ Evolves(x, y) /\ y.din.blocks = x.din.blocks - 1
          /\ y.din.size = x.din.size /\ y.ret = x.ret /\ y.panic = x.panic
      BY <2>2, <2>3, <2>4, Truncate
    <2>6. Evolves(s, y)
      BY <2>2, <2>5, EvolvesOn
    <2>7. y.din.blocks = s.din.blocks - m
      BY <1>1, <2>2, <2>5
    <2>8. P(m)
      BY <2>1, <2>2, <2>5, <2>6, <2>7
    <2> HIDE DEF P
    <2> QED BY <2>8
  <1>4. 0 .. k \subseteq T
    <2> HIDE DEF T
    <2> QED BY <1>2, <1>3, UpTo
  <1> QED BY <1>4

LEMMA TruncatesAll ==
    ASSUME NEW s, Sound(s), NEW k \in Nat, k <= s.din.blocks
    PROVE  LET t == TruncateAll(s, k)
           IN  /\ Sound(t) /\ Evolves(s, t) /\ t.din.blocks = s.din.blocks - k
               /\ t.din.size = s.din.size /\ t.ret = s.ret /\ t.panic = s.panic
  <1> DEFINE Step(x) == IF x.din.blocks > 0 THEN bmap_truncate(x) ELSE x
             U == {x \in Calls : Sound(x)}
             F == [n \in 1 .. k |-> [x \in U |-> Step(x)]]
             Rec(h) == h = [n \in 0 .. k |-> IF n = 0 THEN s ELSE bmap_truncate(h[n - 1])]
  <1>1. s \in U /\ s.din.blocks \in Nat
    BY DEF Sound, Calls, Inodes
  <1>2. ASSUME NEW x \in U PROVE Step(x) \in U
    <2>1. CASE x.din.blocks > 0
      <3>1. Sound(bmap_truncate(x))
        BY <2>1, Truncate
      <3> QED BY <2>1, <3>1 DEF Sound
    <2>2. CASE ~(x.din.blocks > 0)
      BY <2>2
    <2> QED BY <2>1, <2>2
  <1>3. F \in [1 .. k -> [U -> U]]
    <2> HIDE DEF Step, U
    <2> QED BY <1>2
  <1>4. PICK g : g \in [0 .. k -> U] /\ g[0] = s /\ \A n \in 1 .. k : g[n] = F[n][g[n - 1]]
    <2> HIDE DEF F, U
    <2>1. IsLoop(k, U, s, F)
      BY <1>1, <1>3 DEF IsLoop
    <2>2. PICK g : Runs(g, k, U, s, F)
      BY <2>1, LoopRuns
    <2> QED BY <2>2 DEF Runs
  <1>5. ASSUME NEW n \in 1 .. k
        PROVE  n - 1 \in 0 .. k /\ g[n] = Step(g[n - 1])
    <2>1. n - 1 \in 0 .. k
      OBVIOUS
    <2>2. PICK x \in U : x = g[n - 1]
      <3> HIDE DEF U
      <3> QED BY <1>4, <2>1
    <2>3. F[n][x] = Step(x)
      <3> HIDE DEF Step, U
      <3> QED OBVIOUS
    <2>4. g[n] = F[n][x]
      <3> HIDE DEF Step, U, F
      <3> QED BY <1>4, <2>2
    <2> HIDE DEF Step, U, F
    <2> QED BY <2>1, <2>2, <2>3, <2>4
  <1>6. \A n \in 1 .. k : g[n - 1].din.blocks > 0 => g[n] = bmap_truncate(g[n - 1])
    BY <1>5
  <1>7. \A n \in 0 .. k : g[n].din.blocks = s.din.blocks - n
    BY <1>4, <1>6, Rounds
  <1>8. Rec(g)
    <2>1. ASSUME NEW n \in 0 .. k
          PROVE  g[n] = IF n = 0 THEN s ELSE bmap_truncate(g[n - 1])
      <3>1. CASE n = 0
        BY <1>4, <3>1
      <3>2. CASE n # 0
        <4>1. n \in 1 .. k /\ n - 1 \in 0 .. k
          BY <3>2
        <4>2. g[n - 1].din.blocks > 0
          BY <1>1, <1>7, <4>1
        <4> QED BY <1>6, <3>2, <4>1, <4>2
      <3> QED BY <3>1, <3>2
    <2> HIDE DEF U
    <2> QED BY <1>4, <2>1
  <1>9. TruncateAll(s, k) = (CHOOSE h : Rec(h))[k]
    BY DEF TruncateAll
  <1>10. PICK h : h = (CHOOSE x : Rec(x)) /\ Rec(h)
    <2> HIDE DEF Rec
    <2> QED BY <1>8
  <1>11. h[0] = s /\ \A n \in 1 .. k : h[n] = bmap_truncate(h[n - 1])
    <2>1. 0 \in 0 .. k /\ \A n \in 1 .. k : n \in 0 .. k /\ n # 0
      OBVIOUS
    <2> QED BY <1>10, <2>1
  <1>12. k \in 0 .. k
    OBVIOUS
  <1>13. /\ Sound(h[k]) /\ Evolves(s, h[k]) /\ h[k].din.blocks = s.din.blocks - k
         /\ h[k].din.size = s.din.size /\ h[k].ret = s.ret /\ h[k].panic = s.panic
    <2> HIDE DEF Rec
    <2> QED BY <1>11, <1>12, Rounds
  <1> HIDE DEF Rec
  <1> QED BY <1>9, <1>10, <1>13

\* What fits in n blocks.
LEMMA Fits ==
    ASSUME NEW len \in Nat, NEW n \in Int
    PROVE  BlocksFor(len) \in Nat /\ (BlocksFor(len) <= n <=> len <= BlkSize * n)
  <1>1. len + BlkSize - 1 \in Int /\ BlkSize \in Nat \ {0}
    OBVIOUS
  <1>2. BlocksFor(len) \in Int
    BY <1>1, ModFacts DEF BlocksFor
  <1>3. BlocksFor(len) <= n <=> len + BlkSize - 1 < BlkSize * n + BlkSize
    BY <1>1, DivAtMost DEF BlocksFor
  <1>4. ~(BlocksFor(len) <= -1)
    <2>1. BlocksFor(len) <= -1 <=> len + BlkSize - 1 < BlkSize * (-1) + BlkSize
      BY <1>1, DivAtMost DEF BlocksFor
    <2> QED BY <2>1
  <1>5. BlkSize * n \in Int
    OBVIOUS
  <1> QED BY <1>2, <1>3, <1>4, <1>5

-----------------------------------------------------------------------------
(* Whole calls                                                             *)

\* The size reaches at most into the block behind the last one.
Reaches(s) == BlocksFor(s.din.size) <= s.din.blocks + 1
Done(s, t) == Sound(t) /\ Evolves(s, t) /\ (t.panic = "none" => Reaches(t))

Sized(t, u, len) == u = [t EXCEPT !.din.size = len, !.dirty = TRUE]
LEMMA NewSize ==
    ASSUME NEW s, NEW t, Sound(s), Sound(t), Evolves(s, t), NEW len \in Nat, NEW u, Sized(t, u, len)
    PROVE  /\ Sound(u) /\ Evolves(s, u) /\ u.panic = t.panic /\ u.ret = t.ret
           /\ u.din.size = len /\ u.din.blocks = t.din.blocks
  <1>1. t \in Calls /\ t.din \in Inodes
    BY DEF Sound, Calls
  <1>3. PICK d : d = [t.din EXCEPT !.size = len]
    OBVIOUS
  <1>4. u = [t EXCEPT !.din = d, !.dirty = TRUE]
    BY <1>3 DEF Sized
  <1>5. d \in Inodes /\ d.size = len /\ d.blocks = t.din.blocks
        /\ d.direct = t.din.direct /\ d.indirect = t.din.indirect
    BY <1>1, <1>3 DEF Inodes
  <1>6. u \in Calls /\ u.din = d /\ u.dirty /\ u.freemap = t.freemap /\ u.entries = t.entries
        /\ u.unused_blocks = t.unused_blocks /\ u.ret = t.ret /\ u.panic = t.panic
    BY <1>1, <1>4, <1>5 DEF Calls
  <1>7. /\ \A i : bmap_find(u, i) = bmap_find(t, i)
        /\ \A b : Owns(u, b) <=> Owns(t, b)
        /\ Once(u)
    BY <1>5, <1>6, SameFinds DEF Sound
  <1>8. Sound(u)
    BY <1>5, <1>6, <1>7 DEF Sound
  <1>9. \A b : Others(u, b) <=> Others(t, b)
    BY <1>6, <1>7 DEF Others
  <1>10. Evolves(s, u)
    BY <1>6, <1>9 DEF Evolves
  <1> QED BY <1>5, <1>6, <1>8, <1>10

\* An assertion that fails stops the kernel and changes nothing else.
LEMMA Asserted ==
    ASSUME NEW s, Sound(s), NEW name \in Asserts
    PROVE  LET t == [s EXCEPT !.panic = name]
           IN  Sound(t) /\ Evolves(s, t) /\ t.panic = name
  <1>1. s \in Calls
    BY DEF Sound
  <1>2. PICK t : t = [s EXCEPT !.panic = name]
    OBVIOUS
  <1>3. t \in Calls /\ t.freemap = s.freemap /\ t.unused_blocks = s.unused_blocks
        /\ t.entries = s.entries /\ t.din = s.din /\ t.dirty = s.dirty /\ t.panic = name
    BY <1>1, <1>2 DEF Calls
  <1>4. Sound(t) /\ Evolves(s, t)
    BY <1>3, SameMap
  <1> QED BY <1>2, <1>3, <1>4

\* sfs_truncfile
LEMMA Truncfile ==
    ASSUME NEW s, Sound(s), s.ret = "ok", s.panic = "none", Reaches(s), NEW len \in Nat
    PROVE  Done(s, truncfile(s, len))
  <1>1. PICK n, k, r : /\ n = BlocksFor(len) /\ k = s.din.blocks
                       /\ r = IF k < n THEN LoadAll(s, k, n - 1) ELSE TruncateAll(s, k - n)
    OBVIOUS
  <1>2. n \in Nat /\ k \in Nat /\ s.din.size \in Nat
    BY <1>1, Fits DEF Sound, Calls, Inodes
  <1>3. PICK t : t = truncfile(s, len)
    OBVIOUS
  <1>4. t = IF s.din.size = len THEN Check(s, n = k, "same_size")
            ELSE IF r.ret # "ok" THEN r
            ELSE Check([r EXCEPT !.din.size = len, !.dirty = TRUE], r.din.blocks = n, "truncated")
    BY <1>1, <1>3 DEF truncfile
  <1>5. /\ Sound(r) /\ Evolves(s, r) /\ r.din.size = s.din.size /\ r.panic = "none"
        /\ r.ret = "ok" => r.din.blocks = n
        /\ r.ret # "ok" => k <= r.din.blocks
    <2>1. CASE k < n
      <3>1. n - 1 \in Nat /\ k <= n - 1 /\ n - 1 + 1 = n
        BY <1>2, <2>1
      <3>2. r = LoadAll(s, k, n - 1)
        BY <1>1, <2>1
      <3>3. /\ Sound(r) /\ Evolves(s, r) /\ r.din.size = s.din.size
            /\ k = s.din.blocks => r.panic = "none"
            /\ r.ret = "ok" /\ k = s.din.blocks => r.din.blocks = n - 1 + 1
            /\ s.din.blocks <= r.din.blocks
        BY <1>2, <3>1, <3>2, LoadsAll
      <3> QED BY <1>1, <3>1, <3>3
    <2>2. CASE ~(k < n)
      <3>1. k - n \in Nat /\ k - n <= s.din.blocks /\ s.din.blocks - (k - n) = n
        BY <1>1, <1>2, <2>2
      <3>2. r = TruncateAll(s, k - n)
        BY <1>1, <2>2
      <3>3. /\ Sound(r) /\ Evolves(s, r) /\ r.din.blocks = s.din.blocks - (k - n)
            /\ r.din.size = s.din.size /\ r.ret = s.ret /\ r.panic = s.panic
        BY <3>1, <3>2, TruncatesAll
      <3> QED BY <3>1, <3>3
    <2> QED BY <2>1, <2>2
  <1>6. CASE s.din.size = len
    <2>1. t = s \/ t = [s EXCEPT !.panic = "same_size"]
      BY <1>4, <1>6 DEF Check
    <2>2. "same_size" \in Asserts
      BY DEF Asserts
    <2>3. CASE t = s
      BY <1>3, <2>3, EvolvesNot DEF Done
    <2>4. CASE t = [s EXCEPT !.panic = "same_size"]
      <3>1. Sound(t) /\ Evolves(s, t) /\ t.panic = "same_size"
        BY <2>2, <2>4, Asserted
      <3> QED BY <1>3, <3>1 DEF Done
    <2> QED BY <2>1, <2>3, <2>4
  <1>7. CASE s.din.size # len /\ r.ret # "ok"
    <2>1. t = r
      BY <1>4, <1>7
    <2>2. Reaches(r)
      <3>1. BlocksFor(s.din.size) \in Nat /\ r.din.blocks \in Nat
        BY <1>2, <1>5, Fits DEF Sound, Calls, Inodes
      <3> QED BY <1>1, <1>2, <1>5, <1>7, <3>1 DEF Reaches
    <2> QED BY <1>3, <1>5, <2>1, <2>2 DEF Done
  <1>8. CASE s.din.size # len /\ r.ret = "ok"
    <2>1. PICK u : u = [r EXCEPT !.din.size = len, !.dirty = TRUE]
      OBVIOUS
    <2>2. /\ Sound(u) /\ Evolves(s, u) /\ u.panic = r.panic
          /\ u.din.size = len /\ u.din.blocks = r.din.blocks
      <3>1. Sized(r, u, len)
        BY <2>1 DEF Sized
      <3> QED BY <1>5, <3>1, NewSize
    <2>3. t = u
      BY <1>4, <1>5, <1>8, <2>1 DEF Check
    <2>4. Reaches(u)
      <3>1. u.din.blocks = n /\ u.din.size = len
        BY <1>5, <1>8, <2>2
      <3> QED BY <1>1, <1>2, <3>1 DEF Reaches
    <2> QED BY <1>3, <2>2, <2>3, <2>4 DEF Done
  <1> QED BY <1>6, <1>7, <1>8

LEMMA MinPair ==
    ASSUME NEW a \in Int, NEW b \in Int
    PROVE  Min({a, b}) = IF a <= b THEN a ELSE b
  BY DEF Min

LEMMA MaxPair ==
    ASSUME NEW a \in Int, NEW b \in Int
    PROVE  Max({a, b}) = IF a >= b THEN a ELSE b
  BY DEF Max

\* sfs_io_nolock
LEMMA Io ==
    ASSUME NEW s, Sound(s), s.ret = "ok", s.panic = "none", Reaches(s),
           NEW offset \in Nat, NEW len \in Nat \ {0}, NEW write \in BOOLEAN
    PROVE  LET r == io(s, offset, len, write) IN Done(s, r.s) /\ r.alen \in Nat
  <1>1. s.din.size \in Nat /\ s.din.blocks \in Nat
    BY DEF Sound, Calls, Inodes
  <1>2. PICK limit \in Nat : limit = IF write THEN MaxFileSize ELSE s.din.size
    BY <1>1
  <1>3. PICK endpos \in Nat : /\ endpos = Min({offset + len, limit}) /\ endpos <= limit
                              /\ (offset < limit => offset < endpos)
    <2>1. Min({offset + len, limit}) = IF offset + len <= limit THEN offset + len ELSE limit
      BY MinPair
    <2> QED BY <2>1
  <1>4. PICK first, last : first = offset \div BlkSize /\ last = (endpos - 1) \div BlkSize
    OBVIOUS
  <1>5. PICK t, alen :
          /\ t = LoadAll(s, first, last)
          /\ alen = IF t.ret = "ok" THEN endpos - offset
                    ELSE BytesBelow(Max({first, t.din.blocks}), offset, endpos)
    OBVIOUS
  <1>6. PICK r : r = io(s, offset, len, write)
    OBVIOUS
  <1>7. r = IF offset >= limit THEN [alen |-> 0, s |-> s]
            ELSE IF t.panic # "none" THEN [alen |-> 0, s |-> t]
            ELSE [alen |-> alen,
                  s |-> IF offset + alen > t.din.size
                        THEN [t EXCEPT !.din.size = offset + alen, !.dirty = TRUE]
                        ELSE t]
    BY <1>2, <1>3, <1>4, <1>5, <1>6 DEF io
  <1>8. CASE offset >= limit
    <2>1. r.s = s /\ r.alen = 0
      BY <1>7, <1>8
    <2> QED BY <1>6, <2>1, EvolvesNot DEF Done
  <1>9. CASE offset < limit
    <2>1. BlkSize \in Nat \ {0} /\ first \in Int /\ last \in Int
      BY <1>4, ModFacts
    <2>2. first \in Nat /\ first <= last
      <3>1. ~(first <= -1)
        <4>1. first <= -1 <=> offset < BlkSize * (-1) + BlkSize
          BY <1>4, <2>1, DivAtMost
        <4> QED BY <4>1
      <3>2. first <= last
        <4>1. last <= last <=> endpos - 1 < BlkSize * last + BlkSize
          BY <1>4, <2>1, DivAtMost
        <4>2. first <= last <=> offset < BlkSize * last + BlkSize
          BY <1>4, <2>1, DivAtMost
        <4>3. BlkSize * last + BlkSize \in Int
          BY <2>1
        <4> QED BY <1>3, <1>9, <2>1, <4>1, <4>2, <4>3
      <3> QED BY <2>1, <3>1, <3>2
    <2>3. last \in Nat
      BY <2>1, <2>2
    <2>4. /\ Sound(t) /\ Evolves(s, t) /\ t.din.size = s.din.size
          /\ t.panic = "none" /\ t.ret = "ok" => last + 1 <= t.din.blocks
          /\ t.ret # "ok" => t.panic = "none" /\ first <= t.din.blocks
          /\ s.din.blocks <= t.din.blocks
      BY <1>5, <2>2, <2>3, LoadsAll
    <2>5. t.din.blocks \in Nat
      BY <2>4 DEF Sound, Calls, Inodes
    <2>6. ~(offset >= limit)
      BY <1>9
    <2>7. CASE t.panic # "none"
      <3>1. r.s = t /\ r.alen = 0
        BY <1>7, <2>6, <2>7
      <3> QED BY <1>6, <2>4, <2>7, <3>1 DEF Done
    <2>8. CASE t.panic = "none"
      <3>1. alen \in Nat /\ BlocksFor(offset + alen) <= t.din.blocks + 1
        <4>1. CASE t.ret = "ok"
          <5>1. alen = endpos - offset
            BY <1>5, <4>1
          <5>2. alen \in Nat /\ offset + alen = endpos
            BY <1>3, <1>9, <5>1
          <5>3. endpos - 1 < BlkSize * last + BlkSize
            <6>1. last <= last <=> endpos - 1 < BlkSize * last + BlkSize
              BY <1>4, <2>1, DivAtMost
            <6> QED BY <2>1, <6>1
          <5>4. BlkSize * (last + 1) = BlkSize * last + BlkSize /\ BlkSize * last \in Int
            BY <2>1
          <5>5. BlocksFor(endpos) \in Nat
                /\ (BlocksFor(endpos) <= last + 1 <=> endpos <= BlkSize * (last + 1))
            BY <2>1, Fits
          <5>6. BlocksFor(endpos) <= last + 1
            BY <5>3, <5>4, <5>5
          <5>7. last + 1 <= t.din.blocks
            BY <2>4, <2>8, <4>1
          <5> QED BY <2>1, <2>5, <5>2, <5>5, <5>6, <5>7
        <4>2. CASE t.ret # "ok"
          <5>1. PICK k \in Nat : k = t.din.blocks /\ first <= k
            BY <2>4, <2>5, <4>2
          <5>2. Max({first, t.din.blocks}) = k
            <6>1. Max({first, k}) = IF first >= k THEN first ELSE k
              BY <2>1, MaxPair
            <6> QED BY <2>1, <5>1, <6>1
          <5>3. PICK e \in Int : e = k * BlkSize
            OBVIOUS
          <5>4. PICK m \in Int : m = Min({endpos, e}) /\ m <= e
            <6>1. Min({endpos, e}) = IF endpos <= e THEN endpos ELSE e
              BY MinPair
            <6> QED BY <6>1
          <5>5. alen = Max({0, m - offset})
            BY <1>5, <4>2, <5>2, <5>3, <5>4 DEF BytesBelow
          <5>6. alen = IF 0 >= m - offset THEN 0 ELSE m - offset
            BY <5>5, MaxPair
          <5>7. alen \in Nat /\ (offset + alen = offset \/ offset + alen <= e)
            BY <5>4, <5>6
          <5>8. offset < BlkSize * k + BlkSize
            <6>1. first <= k <=> offset < BlkSize * k + BlkSize
              BY <1>4, <2>1, DivAtMost
            <6> QED BY <5>1, <6>1
          <5>9. e = BlkSize * k /\ BlkSize * (k + 1) = e + BlkSize
            BY <5>3
          <5>10. offset + alen <= BlkSize * (k + 1) /\ offset + alen \in Nat
            BY <5>7, <5>8, <5>9
          <5>11. BlocksFor(offset + alen) <= k + 1
            BY <5>10, Fits
          <5> QED BY <5>1, <5>7, <5>11
        <4> QED BY <4>1, <4>2
      <3>2. r.alen = alen /\ r.s = IF offset + alen > t.din.size
                        THEN [t EXCEPT !.din.size = offset + alen, !.dirty = TRUE]
                        ELSE t
        BY <1>7, <2>6, <2>8
      <3>3. CASE offset + alen > t.din.size
        <4>1. PICK u : u = [t EXCEPT !.din.size = offset + alen, !.dirty = TRUE]
          OBVIOUS
        <4>2. offset + alen \in Nat
          BY <3>1
        <4>3. /\ Sound(u) /\ Evolves(s, u)
              /\ u.din.size = offset + alen /\ u.din.blocks = t.din.blocks
          <5>1. Sized(t, u, offset + alen)
            BY <4>1 DEF Sized
          <5> QED BY <2>4, <4>2, <5>1, NewSize
        <4>4. r.s = u
          BY <3>2, <3>3, <4>1
        <4> QED BY <1>6, <3>1, <3>2, <4>3, <4>4 DEF Done, Reaches
      <3>4. CASE ~(offset + alen > t.din.size)
        <4>1. r.s = t
          BY <3>2, <3>4
        <4>2. BlocksFor(s.din.size) \in Nat
          BY <1>1, Fits
        <4>3. Reaches(t)
          BY <1>1, <2>4, <2>5, <4>2 DEF Reaches
        <4> QED BY <1>6, <2>4, <3>1, <3>2, <4>1, <4>3 DEF Done
      <3> QED BY <3>3, <3>4
    <2> QED BY <2>7, <2>8
  <1> QED BY <1>8, <1>9

-----------------------------------------------------------------------------
(* The invariant                                                           *)

Typed ==
    /\ freemap \in SUBSET Blocks /\ unused_blocks = Cardinality(freemap)
    /\ entries \in [Blocks -> [Indices -> Numbers]]
    /\ din \in [Files -> Inodes] /\ disk_din \in [Files -> Inodes]
    /\ dirty \in [Files -> BOOLEAN]
    /\ fd \in [Fds -> [file : Files \union {NoFile}, pos : Nat]]
    /\ panic \in Asserts

\* Each file owns its blocks once, no block has two files, each that is not
\* free has one.
Each == \A f \in Files : Sound(Start(f))
Apart == \A f, g \in Files : \A b \in Blocks :
            Owns(Start(f), b) /\ Owns(Start(g), b) => f = g
Used == \A b \in Blocks \ freemap : \E f \in Files : Owns(Start(f), b)
Reach == panic = "none" => \A f \in Files : Reaches(Start(f))

\* An inode that is not marked differs from that on the disk in the number of
\* its blocks at most, which sfs_bmap_load_nolock counts without marking it.
Alike(d, e) ==
    /\ e.size = d.size /\ e.direct = d.direct /\ e.indirect = d.indirect
    /\ e.blocks <= d.blocks
Clean ==
    \A f \in Files : ~dirty[f] =>
       /\ Alike(din[f], disk_din[f])
       /\ panic = "none" => BlocksFor(disk_din[f].size) <= disk_din[f].blocks + 1

SfsInv == Typed /\ Each /\ Apart /\ Used /\ Reach /\ Clean

LEMMA StartIs ==
    ASSUME Typed, NEW f \in Files
    PROVE  /\ Start(f) \in Calls /\ Start(f).freemap = freemap
           /\ Start(f).unused_blocks = unused_blocks /\ Start(f).entries = entries
           /\ Start(f).din = din[f] /\ Start(f).dirty = dirty[f] /\ Start(f).ret = "ok"
           /\ Start(f).panic = panic
  <1>1. unused_blocks \in Int /\ 0 \in Numbers
    BY BlocksFinite DEF Typed, Numbers
  <1> QED BY <1>1 DEF Typed, Start, Calls

LEMMA StartIsNext ==
    ASSUME Typed', NEW f \in Files
    PROVE  /\ Start(f)' \in Calls /\ Start(f)'.freemap = freemap'
           /\ Start(f)'.unused_blocks = unused_blocks' /\ Start(f)'.entries = entries'
           /\ Start(f)'.din = din'[f]
  <1>1. unused_blocks' \in Int /\ 0 \in Numbers
    BY BlocksFinite DEF Typed, Numbers
  <1> QED BY <1>1 DEF Typed, Start, Calls

\* Another state of a file with the same blocks, or fewer of them counted.
Like(x, y) ==
    /\ y \in Calls /\ y.freemap = x.freemap /\ y.unused_blocks = x.unused_blocks
    /\ y.entries = x.entries /\ y.din.direct = x.din.direct
    /\ y.din.indirect = x.din.indirect /\ y.din.blocks <= x.din.blocks
LEMMA StaysSound ==
    ASSUME NEW x, NEW y, Sound(x), Like(x, y)
    PROVE  Sound(y) /\ \A b : Owns(y, b) <=> Owns(x, b)
  <1>1. x.din.blocks \in Int /\ y.din.blocks \in Int
    BY DEF Sound, Calls, Inodes, Like
  <1>2. /\ \A i : bmap_find(y, i) = bmap_find(x, i)
        /\ \A b : Owns(y, b) <=> Owns(x, b)
        /\ Once(y)
    BY SameFinds DEF Sound, Like
  <1>3. \A i \in 0 .. y.din.blocks - 1 : i \in 0 .. x.din.blocks - 1
    BY <1>1 DEF Like
  <1>4. \A i \in 0 .. y.din.blocks - 1 : bmap_find(y, i) # 0
    BY <1>2, <1>3 DEF Sound
  <1> QED BY <1>2, <1>4 DEF Sound, Like

\* A call that took s to t leaves another file, that was x and is y, alone.
Beside(s, t, x, y) ==
    /\ x.freemap = s.freemap /\ x.entries = s.entries
    /\ \A b \in Blocks : ~(Owns(s, b) /\ Owns(x, b))
    /\ y \in Calls /\ y.freemap = t.freemap /\ y.unused_blocks = t.unused_blocks
    /\ y.entries = t.entries /\ y.din = x.din
LEMMA Undisturbed ==
    ASSUME NEW s, NEW t, NEW x, NEW y, Sound(s), Sound(t), Sound(x), Evolves(s, t),
           Beside(s, t, x, y)
    PROVE  Sound(y) /\ \A b \in Blocks : Owns(y, b) <=> Owns(x, b)
  <1>1. x \in Calls /\ y \in Calls
    BY DEF Sound, Beside
  <1>2. ASSUME NEW b \in Blocks, Owns(x, b) PROVE Others(s, b) /\ Others(t, b)
    <2>1. b \notin x.freemap
      BY <1>2 DEF Sound
    <2>2. Others(s, b)
      BY <1>2, <2>1 DEF Beside, Others
    <2> QED BY <2>2 DEF Evolves
  <1>3. ASSUME NEW i \in Indices PROVE Ent(y, i) = Ent(x, i)
    <2>1. y.din.indirect = x.din.indirect
      BY DEF Beside
    <2>2. CASE x.din.indirect = 0
      BY <2>1, <2>2 DEF Ent
    <2>3. CASE x.din.indirect # 0
      <3>1. x.din.indirect \in Blocks /\ Owns(x, x.din.indirect)
        BY <1>1, <2>3, EntNumber DEF Owns
      <3>2. t.entries[x.din.indirect] = s.entries[x.din.indirect]
        BY <1>2, <3>1 DEF Evolves
      <3> QED BY <2>1, <3>2 DEF Ent, Beside
    <2> QED BY <2>2, <2>3
  <1>4. y.din = x.din
    BY DEF Beside
  <1>5. Once(y)
    BY <1>3, <1>4 DEF Once, Sound
  <1>6. \A b \in Blocks : Owns(y, b) <=> Owns(x, b)
    BY <1>3, <1>4 DEF Owns
  <1>7. \A b \in y.freemap : ~Owns(y, b)
    <2>1. y.freemap = t.freemap /\ y.freemap \in SUBSET Blocks
      BY <1>1 DEF Beside, Calls
    <2> QED BY <1>2, <1>6, <2>1 DEF Others
  <1>8. ASSUME NEW i \in 0 .. y.din.blocks - 1 PROVE bmap_find(y, i) # 0
    <2>1. x.din.blocks \in 0 .. NDirect + NEntry
      BY <1>1 DEF Calls, Inodes
    <2>2. i \in 0 .. x.din.blocks - 1 /\ (~(i < NDirect) => i - NDirect \in Indices)
      BY <1>4, <2>1 DEF Indices
    <2>3. bmap_find(x, i) # 0
      BY <2>2 DEF Sound
    <2>4. /\ bmap_find(x, i) = IF i < NDirect THEN x.din.direct[i] ELSE Ent(x, i - NDirect)
          /\ bmap_find(y, i) = IF i < NDirect THEN y.din.direct[i] ELSE Ent(y, i - NDirect)
      BY FindIs
    <2>5. CASE i < NDirect
      BY <1>4, <2>3, <2>4, <2>5
    <2>6. CASE ~(i < NDirect)
      BY <1>3, <2>2, <2>3, <2>4, <2>6
    <2> QED BY <2>5, <2>6
  <1>9. y.unused_blocks = Cardinality(y.freemap)
    BY DEF Beside, Sound
  <1> QED BY <1>1, <1>5, <1>6, <1>7, <1>8, <1>9 DEF Sound

\* The end of a call on f.
LEMMA CallKeeps ==
    ASSUME SfsInv, Running, NEW f \in Files, NEW t, Done(Start(f), t), Finish(f, t),
           fd' \in [Fds -> [file : Files \union {NoFile}, pos : Nat]], UNCHANGED disk_din
    PROVE  SfsInv'
  <1>1. PICK s : s = Start(f)
    OBVIOUS
  <1>2. /\ s \in Calls /\ s.freemap = freemap
        /\ s.entries = entries /\ s.din = din[f] /\ s.dirty = dirty[f] /\ s.panic = panic
    BY <1>1, StartIs DEF SfsInv
  <1>3. Sound(s) /\ Sound(t) /\ Evolves(s, t) /\ (t.panic = "none" => Reaches(t))
    BY <1>1 DEF Done, SfsInv, Each
  <1>4. t \in Calls /\ t.din \in Inodes /\ t.freemap \in SUBSET Blocks
        /\ t.unused_blocks = Cardinality(t.freemap)
        /\ t.entries \in [Blocks -> [Indices -> Numbers]] /\ t.dirty \in BOOLEAN
        /\ t.panic \in Asserts
    BY <1>3 DEF Sound, Calls
  <1>5. Typed'
    BY <1>4 DEF Typed, SfsInv, Finish
  <1>6. /\ din'[f] = t.din /\ dirty'[f] = t.dirty
        /\ \A g \in Files \ {f} : din'[g] = din[g] /\ dirty'[g] = dirty[g]
    BY DEF Finish, SfsInv, Typed
  <1>7. PICK u : u = Start(f)'
    OBVIOUS
  <1>8. /\ u \in Calls /\ u.freemap = t.freemap /\ u.unused_blocks = t.unused_blocks
        /\ u.entries = t.entries /\ u.din = t.din
    <2>1. Start(f)' \in Calls /\ Start(f)'.freemap = freemap'
          /\ Start(f)'.unused_blocks = unused_blocks' /\ Start(f)'.entries = entries'
          /\ Start(f)'.din = din'[f]
      BY <1>5, StartIsNext
    <2> QED BY <1>6, <1>7, <2>1 DEF Finish
  <1>9. Sound(u) /\ \A b : Owns(u, b) <=> Owns(t, b)
    <2>1. t.din.blocks <= t.din.blocks
      BY <1>4 DEF Inodes
    <2>2. Like(t, u)
      BY <1>8, <2>1 DEF Like
    <2> QED BY <1>3, <2>2, StaysSound
  <1>10. ASSUME NEW g \in Files \ {f}
         PROVE  /\ Sound(Start(g)') /\ Start(g)'.din = din[g]
                /\ \A b \in Blocks : Owns(Start(g)', b) <=> Owns(Start(g), b)
    <2>1. PICK x, y : x = Start(g) /\ y = Start(g)'
      OBVIOUS
    <2>2. /\ x \in Calls /\ x.freemap = freemap /\ x.entries = entries /\ x.din = din[g]
      BY <2>1, StartIs DEF SfsInv
    <2>3. /\ y \in Calls /\ y.freemap = t.freemap /\ y.unused_blocks = t.unused_blocks
          /\ y.entries = t.entries /\ y.din = din[g]
      <3>1. Start(g)' \in Calls /\ Start(g)'.freemap = freemap'
            /\ Start(g)'.unused_blocks = unused_blocks' /\ Start(g)'.entries = entries'
            /\ Start(g)'.din = din'[g]
        BY <1>5, StartIsNext
      <3> QED BY <1>6, <2>1, <3>1 DEF Finish
    <2>4. Beside(s, t, x, y)
      <3>1. \A b \in Blocks : ~(Owns(s, b) /\ Owns(x, b))
        BY <1>1, <2>1 DEF SfsInv, Apart
      <3> QED BY <1>2, <2>2, <2>3, <3>1 DEF Beside
    <2>5. Sound(x)
      BY <2>1 DEF SfsInv, Each
    <2> QED BY <1>3, <2>1, <2>3, <2>4, <2>5, Undisturbed
  <1>11. Each'
    BY <1>7, <1>9, <1>10 DEF Each
  <1>12. ASSUME NEW g \in Files \ {f}, NEW b \in Blocks, Owns(Start(g), b)
         PROVE  Others(s, b) /\ Others(t, b)
    <2>1. ~Owns(s, b)
      BY <1>1, <1>12 DEF SfsInv, Apart
    <2>2. b \notin s.freemap
      BY <1>2, <1>12, StartIs DEF SfsInv, Each, Sound
    <2>3. Others(s, b)
      BY <2>1, <2>2 DEF Others
    <2> QED BY <1>3, <2>3 DEF Evolves
  <1>13. Apart'
    <2>1. ASSUME NEW g \in Files, NEW h \in Files, NEW b \in Blocks,
                 Owns(Start(g)', b), Owns(Start(h)', b)
          PROVE  g = h
      <3>1. CASE g = f /\ h # f
        BY <1>7, <1>9, <1>10, <1>12, <2>1, <3>1 DEF Others
      <3>2. CASE g # f /\ h = f
        BY <1>7, <1>9, <1>10, <1>12, <2>1, <3>2 DEF Others
      <3>3. CASE g # f /\ h # f
        BY <1>10, <2>1, <3>3 DEF SfsInv, Apart
      <3> QED BY <3>1, <3>2, <3>3
    <2> QED BY <2>1 DEF Apart
  <1>14. Used'
    <2>1. ASSUME NEW b \in Blocks \ t.freemap PROVE \E g \in Files : Owns(Start(g)', b)
      <3>1. CASE Owns(t, b)
        BY <1>7, <1>9, <3>1
      <3>2. CASE ~Owns(t, b)
        <4>1. Others(s, b)
          BY <1>3, <3>2 DEF Others, Evolves
        <4>2. PICK g \in Files : Owns(Start(g), b)
          BY <1>2, <4>1 DEF SfsInv, Used, Others
        <4>3. g # f
          BY <1>1, <4>1, <4>2 DEF Others
        <4> QED BY <1>10, <4>2, <4>3
      <3> QED BY <3>1, <3>2
    <2>2. freemap' = t.freemap
      BY DEF Finish
    <2> QED BY <2>1, <2>2 DEF Used
  <1>15. Reach'
    <2>1. panic' = t.panic /\ panic = "none"
      BY DEF Finish, Running
    <2>2. ASSUME NEW g \in Files, t.panic = "none" PROVE Reaches(Start(g)')
      <3>1. CASE g = f
        BY <1>3, <1>7, <1>8, <2>2, <3>1 DEF Reaches
      <3>2. CASE g # f
        <4>1. Start(g).din = din[g] /\ Reaches(Start(g))
          BY <2>1, StartIs DEF SfsInv, Reach
        <4> QED BY <1>10, <3>2, <4>1 DEF Reaches
      <3> QED BY <3>1, <3>2
    <2> QED BY <2>1, <2>2 DEF Reach
  <1>16. Clean'
    <2>1. panic' = t.panic /\ panic = "none" /\ disk_din' = disk_din
      BY DEF Finish, Running
    <2>2. ASSUME NEW g \in Files, ~dirty'[g]
          PROVE  /\ Alike(din'[g], disk_din[g])
                 /\ BlocksFor(disk_din[g].size) <= disk_din[g].blocks + 1
      <3>1. CASE g # f
        BY <1>6, <2>1, <2>2, <3>1 DEF SfsInv, Clean
      <3>2. CASE g = f
        <4>1. ~t.dirty
          BY <1>6, <2>2, <3>2
        <4>2. ~s.dirty /\ t.din.size = s.din.size /\ t.din.direct = s.din.direct
              /\ t.din.indirect = s.din.indirect /\ s.din.blocks <= t.din.blocks
          BY <1>3, <4>1 DEF Evolves
        <4>3. /\ Alike(s.din, disk_din[f])
              /\ BlocksFor(disk_din[f].size) <= disk_din[f].blocks + 1
          BY <1>2, <2>1, <4>2 DEF SfsInv, Clean
        <4>4. s.din.blocks \in Int /\ t.din.blocks \in Int /\ disk_din[f].blocks \in Int
          BY <1>2, <1>4 DEF SfsInv, Typed, Calls, Inodes
        <4> QED BY <1>6, <3>2, <4>2, <4>3, <4>4 DEF Alike
      <3> QED BY <3>1, <3>2
    <2> QED BY <2>1, <2>2 DEF Clean
  <1> QED BY <1>5, <1>11, <1>13, <1>14, <1>15, <1>16 DEF SfsInv

\* Marking, saving and dropping inodes moves no block.
LEMMA SameBlocks ==
    ASSUME SfsInv, Typed', UNCHANGED <<freemap, unused_blocks, entries, panic>>, Running,
           \A f \in Files : Alike(din[f], din'[f]), Clean',
           \A f \in Files : din'[f] # din[f] =>
              BlocksFor(din'[f].size) <= din'[f].blocks + 1
    PROVE  SfsInv'
  <1>1. ASSUME NEW f \in Files
        PROVE  /\ Sound(Start(f)') /\ Start(f)'.din = din'[f]
               /\ \A b : Owns(Start(f)', b) <=> Owns(Start(f), b)
    <2>1. PICK x, y : x = Start(f) /\ y = Start(f)'
      OBVIOUS
    <2>2. /\ x.freemap = freemap /\ x.unused_blocks = unused_blocks
          /\ x.entries = entries /\ x.din = din[f]
      BY <2>1, StartIs DEF SfsInv
    <2>3. /\ y \in Calls /\ y.freemap = freemap' /\ y.unused_blocks = unused_blocks'
          /\ y.entries = entries' /\ y.din = din'[f]
      BY <2>1, StartIsNext
    <2>4. Like(x, y)
      BY <2>2, <2>3 DEF Like, Alike
    <2>5. Sound(x)
      BY <2>1 DEF SfsInv, Each
    <2> QED BY <2>1, <2>3, <2>4, <2>5, StaysSound
  <1>2. Each'
    BY <1>1 DEF Each
  <1>3. Apart'
    BY <1>1 DEF SfsInv, Apart
  <1>4. Used'
    BY <1>1 DEF SfsInv, Used
  <1>5. ASSUME NEW f \in Files PROVE Reaches(Start(f)')
    <2>1. Start(f).din = din[f] /\ Reaches(Start(f))
      BY StartIs DEF SfsInv, Reach, Running
    <2> QED BY <1>1, <2>1 DEF Reaches
  <1>6. Reach'
    BY <1>5 DEF Reach
  <1> QED BY <1>2, <1>3, <1>4, <1>6 DEF SfsInv

LEMMA InitHolds ==
    Init => SfsInv
  <1> SUFFICES ASSUME Init PROVE SfsInv
    OBVIOUS
  <1>1. 0 \in Numbers /\ 0 \in 0 .. NDirect + NEntry
    BY DEF Numbers
  <1>2. EmptyInode \in Inodes /\ EmptyInode.size = 0 /\ EmptyInode.blocks = 0
        /\ EmptyInode.indirect = 0 /\ \A i \in Direct : EmptyInode.direct[i] = 0
    BY <1>1 DEF EmptyInode, Inodes, Direct
  <1>3. ZeroBlock \in [Indices -> Numbers]
    BY <1>1 DEF ZeroBlock, Indices
  <1>4. Cardinality(Blocks) = NBlocks
    BY FS_Interval DEF Blocks
  <1>5. Typed
    BY <1>2, <1>3, <1>4 DEF Init, Typed, Asserts
  <1>6. ASSUME NEW f \in Files
        PROVE  Start(f) \in Calls /\ Start(f).din = EmptyInode /\ Start(f).freemap = Blocks
               /\ Start(f).unused_blocks = NBlocks
    BY <1>5, StartIs DEF Init
  <1>7. ASSUME NEW f \in Files PROVE \A i \in Indices : Ent(Start(f), i) = 0
    BY <1>2, <1>6 DEF Ent
  <1>8. ASSUME NEW f \in Files, NEW b \in Blocks PROVE ~Owns(Start(f), b)
    <2>1. b # 0
      BY DEF Blocks
    <2> QED BY <1>2, <1>6, <1>7, <2>1 DEF Owns
  <1>9. ASSUME NEW f \in Files PROVE Once(Start(f))
    BY <1>2, <1>6, <1>7 DEF Once
  <1>10. Each
    <2>1. ASSUME NEW f \in Files PROVE \A i \in 0 .. Start(f).din.blocks - 1 : FALSE
      BY <1>2, <1>6
    <2> QED BY <1>4, <1>6, <1>8, <1>9, <2>1 DEF Each, Sound
  <1>11. Apart /\ Used
    BY <1>8 DEF Apart, Used, Init
  <1>12. BlocksFor(0) <= 1
    <2>1. 0 \in Nat /\ 1 \in Int /\ 0 <= BlkSize * 1
      OBVIOUS
    <2> QED BY <2>1, Fits
  <1>13. Reach
    BY <1>2, <1>6, <1>12 DEF Reach, Reaches
  <1>14. Clean
    BY <1>2, <1>12 DEF Clean, Alike, Init
  <1> QED BY <1>5, <1>10, <1>11, <1>13, <1>14 DEF SfsInv

LEMMA StepKeeps ==
    SfsInv /\ [Next]_vars => SfsInv'
  <1> SUFFICES ASSUME SfsInv, [Next]_vars PROVE SfsInv'
    OBVIOUS
  <1> DEFINE FdType == [file : Files \union {NoFile}, pos : Nat]
  <1>1. Typed /\ fd \in [Fds -> FdType]
    BY DEF SfsInv, Typed
  <1>2. ASSUME Running, NEW f \in Files
        PROVE  /\ Sound(Start(f)) /\ Start(f).ret = "ok" /\ Start(f).panic = "none"
               /\ Reaches(Start(f)) /\ Start(f).din = din[f] /\ Done(Start(f), Start(f))
    <2>1. Start(f).ret = "ok" /\ Start(f).panic = "none" /\ Start(f).din = din[f]
      BY <1>1, <1>2, StartIs DEF Running
    <2>2. Sound(Start(f)) /\ Reaches(Start(f))
      BY <1>2 DEF SfsInv, Each, Reach, Running
    <2> QED BY <2>1, <2>2, EvolvesNot DEF Done
  <1>3. ASSUME NEW d \in Fds, IsOpen(d) PROVE fd[d].file \in Files /\ fd[d].pos \in Nat
    BY <1>1, <1>3 DEF IsOpen
  <1>4. ASSUME NEW d \in Fds, NEW f \in Files, Open(d, f) PROVE SfsInv'
    <2>1. Running /\ UNCHANGED disk_din
      BY <1>4 DEF Open
    <2>2. PICK trunc, append, s :
            /\ trunc \in BOOLEAN /\ append \in BOOLEAN
            /\ s = IF trunc THEN truncfile(Start(f), 0) ELSE Start(f)
            /\ Finish(f, s)
            /\ fd' = [fd EXCEPT ![d] = [file |-> f, pos |-> IF append THEN s.din.size ELSE 0]]
      BY <1>4 DEF Open
    <2>3. Done(Start(f), truncfile(Start(f), 0))
      BY <1>2, <2>1, Truncfile
    <2>4. Done(Start(f), s)
      BY <1>2, <2>1, <2>2, <2>3
    <2>5. s.din.size \in Nat
      BY <2>4 DEF Done, Sound, Calls, Inodes
    <2>6. fd' \in [Fds -> FdType]
      BY <1>1, <2>2, <2>5
    <2> QED BY <2>1, <2>2, <2>4, <2>6, CallKeeps
  <1>5. ASSUME NEW d \in Fds, NEW write \in BOOLEAN, Transfer(d, write) PROVE SfsInv'
    <2>1. Running /\ IsOpen(d) /\ UNCHANGED disk_din
      BY <1>5 DEF Transfer
    <2>2. PICK f \in Files, pos \in Nat : f = fd[d].file /\ pos = fd[d].pos
      BY <1>3, <2>1
    <2>3. PICK len, r :
            /\ len \in 1 .. BlkSize
            /\ r = io(Start(f), pos, len, write) /\ Finish(f, r.s)
            /\ fd' = [fd EXCEPT ![d].pos = @ + r.alen]
      BY <1>5, <2>2 DEF Transfer
    <2>4. len \in Nat \ {0}
      BY <2>3
    <2>5. Done(Start(f), r.s) /\ r.alen \in Nat
      BY <1>2, <2>1, <2>3, <2>4, Io
    <2>6. fd' \in [Fds -> FdType]
      <3>1. fd[d].pos + r.alen \in Nat
        BY <2>2, <2>5
      <3> QED BY <1>1, <2>3, <3>1
    <2> QED BY <2>1, <2>3, <2>5, <2>6, CallKeeps
  <1>6. ASSUME NEW d \in Fds, Seek(d) PROVE SfsInv'
    <2>1. Running /\ IsOpen(d) /\ UNCHANGED disk_din
      BY <1>6 DEF Seek
    <2>2. PICK f \in Files : f = fd[d].file
      BY <1>3, <2>1
    <2>3. PICK pos \in 0 .. MaxFileSize - 1 :
             \E s : /\ s = IF pos > din[f].size THEN truncfile(Start(f), pos) ELSE Start(f)
                    /\ Finish(f, s)
                    /\ fd' = [fd EXCEPT ![d].pos = IF s.ret = "ok" THEN pos ELSE @]
      BY <1>6, <2>2 DEF Seek
    <2>4. pos \in Nat
      OBVIOUS
    <2>s. PICK s : /\ s = IF pos > din[f].size THEN truncfile(Start(f), pos) ELSE Start(f)
                   /\ Finish(f, s)
                   /\ fd' = [fd EXCEPT ![d].pos = IF s.ret = "ok" THEN pos ELSE @]
      BY <2>3
    <2>5. Done(Start(f), truncfile(Start(f), pos))
      BY <1>2, <2>1, <2>4, Truncfile
    <2>6. Done(Start(f), s)
      BY <1>2, <2>1, <2>s, <2>5
    <2>7. fd' \in [Fds -> FdType]
      BY <1>1, <2>s, <2>4
    <2> QED BY <2>1, <2>s, <2>6, <2>7, CallKeeps
  <1>7. ASSUME NEW f \in Files
        PROVE  /\ Saved(f) \in Inodes /\ Alike(din[f], Saved(f))
               /\ Running => BlocksFor(Saved(f).size) <= Saved(f).blocks + 1
    <2>1. din[f] \in Inodes /\ disk_din[f] \in Inodes /\ dirty[f] \in BOOLEAN
      BY <1>1 DEF Typed
    <2>2. CASE dirty[f]
      <3>1. Saved(f) = din[f]
        BY <2>2 DEF Saved
      <3>2. din[f].blocks \in Int
        BY <2>1 DEF Inodes
      <3>3. Running => BlocksFor(din[f].size) <= din[f].blocks + 1
        BY <1>2 DEF Reaches
      <3> QED BY <2>1, <3>1, <3>2, <3>3 DEF Alike
    <2>3. CASE ~dirty[f]
      <3>1. Saved(f) = disk_din[f]
        BY <2>3 DEF Saved
      <3> QED BY <2>1, <2>3, <3>1 DEF SfsInv, Clean, Running
    <2> QED BY <2>1, <2>2, <2>3
  <1>8. ASSUME NEW d \in Fds, Fsync(d) PROVE SfsInv'
    <2>1. PICK f \in Files : f = fd[d].file
      BY <1>3, <1>8 DEF Fsync
    <2>2. /\ Running /\ disk_din' = [disk_din EXCEPT ![f] = Saved(f)]
          /\ dirty' = [dirty EXCEPT ![f] = FALSE]
          /\ UNCHANGED <<freemap, unused_blocks, entries, din, fd, panic>>
      BY <1>8, <2>1 DEF Fsync
    <2>3. Typed'
      BY <1>1, <1>7, <2>2 DEF Typed
    <2>4. \A g \in Files : Alike(din[g], din'[g])
      BY <1>1, <2>2 DEF Alike, Typed, Inodes
    <2>5. ASSUME NEW g \in Files, ~dirty'[g]
          PROVE  /\ Alike(din'[g], disk_din'[g])
                 /\ panic' = "none" => BlocksFor(disk_din'[g].size) <= disk_din'[g].blocks + 1
      <3>1. CASE g = f
        BY <1>1, <1>7, <2>2, <3>1 DEF Typed, Running
      <3>2. CASE g # f
        BY <1>1, <2>2, <2>5, <3>2 DEF Typed, SfsInv, Clean
      <3> QED BY <3>1, <3>2
    <2>6. Clean'
      BY <2>5 DEF Clean
    <2>7. UNCHANGED <<freemap, unused_blocks, entries, panic>> /\ \A g \in Files : din'[g] = din[g]
      BY <2>2
    <2> QED BY <2>2, <2>3, <2>4, <2>6, <2>7, SameBlocks
  <1>9. ASSUME NEW d \in Fds, Close(d) PROVE SfsInv'
    <2>1. PICK f \in Files : f = fd[d].file
      BY <1>3, <1>9 DEF Close
    <2>2. /\ Running /\ UNCHANGED <<freemap, unused_blocks, entries, panic>>
          /\ fd' = [fd EXCEPT ![d] = [file |-> NoFile, pos |-> 0]]
      BY <1>9 DEF Close
    <2>3. \/ /\ disk_din' = [disk_din EXCEPT ![f] = Saved(f)]
             /\ din' = [din EXCEPT ![f] = Saved(f)]
             /\ dirty' = [dirty EXCEPT ![f] = FALSE]
          \/ disk_din' = disk_din /\ din' = din /\ dirty' = dirty
      BY <1>9, <2>1 DEF Close
    <2>4. fd' \in [Fds -> FdType]
      BY <1>1, <2>2
    <2>5. Typed'
      <3>1. CASE disk_din' = disk_din /\ din' = din /\ dirty' = dirty
        BY <1>1, <2>2, <2>4, <3>1 DEF Typed
      <3>2. CASE /\ disk_din' = [disk_din EXCEPT ![f] = Saved(f)]
                 /\ din' = [din EXCEPT ![f] = Saved(f)]
                 /\ dirty' = [dirty EXCEPT ![f] = FALSE]
        BY <1>1, <1>7, <2>2, <2>4, <3>2 DEF Typed
      <3> QED BY <2>3, <3>1, <3>2
    <2>6. ASSUME NEW g \in Files
          PROVE  \/ din'[g] = din[g] /\ disk_din'[g] = disk_din[g] /\ dirty'[g] = dirty[g]
                 \/ din'[g] = Saved(g) /\ disk_din'[g] = Saved(g)
      BY <1>1, <2>3 DEF Typed
    <2>7. ASSUME NEW e \in Inodes PROVE Alike(e, e)
      BY DEF Alike, Inodes
    <2>8. ASSUME NEW g \in Files
          PROVE  /\ Alike(din[g], din'[g])
                 /\ din'[g] # din[g] => BlocksFor(din'[g].size) <= din'[g].blocks + 1
      BY <1>1, <1>7, <2>2, <2>6, <2>7 DEF Typed
    <2>9. ASSUME NEW g \in Files, ~dirty'[g]
          PROVE  /\ Alike(din'[g], disk_din'[g])
                 /\ panic' = "none" => BlocksFor(disk_din'[g].size) <= disk_din'[g].blocks + 1
      <3>1. CASE din'[g] = din[g] /\ disk_din'[g] = disk_din[g] /\ dirty'[g] = dirty[g]
        BY <2>2, <2>9, <3>1 DEF SfsInv, Clean
      <3>2. CASE din'[g] = Saved(g) /\ disk_din'[g] = Saved(g)
        BY <1>7, <2>2, <2>7, <3>2
      <3> QED BY <2>6, <3>1, <3>2
    <2>10. Clean'
      BY <2>9 DEF Clean
    <2> QED BY <2>2, <2>5, <2>8, <2>10, SameBlocks
  <1>10. CASE UNCHANGED vars
    <2>1. UNCHANGED <<freemap, unused_blocks, entries, din, dirty, disk_din, fd, panic>>
      BY <1>10 DEF vars
    <2>2. Typed' /\ Clean'
      BY <2>1 DEF SfsInv, Typed, Clean
    <2>3. \A f \in Files : Start(f)' = Start(f)
      BY <2>1 DEF Start
    <2>4. Each' /\ Apart' /\ Used' /\ Reach'
      BY <2>1, <2>3 DEF SfsInv, Each, Apart, Used, Reach
    <2> QED BY <2>2, <2>4 DEF SfsInv
  <1> QED BY <1>4, <1>5, <1>6, <1>8, <1>9, <1>10 DEF Next, Read, Write

\* The invariant holds in every state of the file system.
LEMMA Holds ==
    Spec => []SfsInv
  BY InitHolds, StepKeeps, PTL DEF Spec

-----------------------------------------------------------------------------
(* The properties                                                          *)

\* What a place of the block map holds, in terms of the call on its file.
LEMMA PlaceHolds ==
    ASSUME Typed, NEW f \in Files, NEW p \in Places(f)
    PROVE  \/ \E i \in Direct : p = <<f, "direct", i>> /\ BlockAt(p) = Start(f).din.direct[i]
           \/ \E i \in Indices : p = <<f, "entry", i>> /\ BlockAt(p) = Ent(Start(f), i)
           \/ p = <<f, "indirect", 0>> /\ BlockAt(p) = Start(f).din.indirect
  <1>1. Start(f).din = din[f] /\ Start(f).entries = entries
    BY StartIs
  <1>2. CASE \E i \in Direct : p = <<f, "direct", i>>
    BY <1>1, <1>2 DEF BlockAt
  <1>3. CASE \E i \in Indices : p = <<f, "entry", i>>
    BY <1>1, <1>3 DEF BlockAt, Ent
  <1>4. CASE p = <<f, "indirect", 0>>
    BY <1>1, <1>4 DEF BlockAt
  <1> QED BY <1>2, <1>3, <1>4 DEF Places, Direct, Indices

LEMMA PlaceOwned ==
    ASSUME SfsInv, NEW p \in Mapped
    PROVE  \E f \in Files : /\ p \in Places(f) /\ BlockAt(p) \in Blocks
                            /\ Owns(Start(f), BlockAt(p))
  <1>1. PICK f \in Files : p \in Places(f) /\ BlockAt(p) # 0
    BY DEF Mapped
  <1>2. Typed /\ Start(f) \in Calls
    BY StartIs DEF SfsInv
  <1>3. Owns(Start(f), BlockAt(p))
    BY <1>1, <1>2, PlaceHolds DEF Owns
  <1>4. BlockAt(p) \in Numbers
    BY <1>1, <1>2, PlaceHolds, EntNumber DEF Calls, Inodes
  <1> QED BY <1>1, <1>3, <1>4 DEF Numbers, Blocks

LEMMA OwnedPlace ==
    ASSUME SfsInv, NEW f \in Files, NEW b \in Blocks, Owns(Start(f), b)
    PROVE  \E p \in Mapped : BlockAt(p) = b
  <1>1. Start(f).din = din[f] /\ Start(f).entries = entries /\ b # 0
    BY StartIs DEF SfsInv, Blocks
  <1>2. CASE \E i \in Direct : Start(f).din.direct[i] = b
    <2>1. PICK i \in Direct : Start(f).din.direct[i] = b
      BY <1>2
    <2>2. <<f, "direct", i>> \in Places(f) /\ BlockAt(<<f, "direct", i>>) = b
      BY <1>1, <2>1 DEF Places, BlockAt, Direct
    <2> QED BY <1>1, <2>2 DEF Mapped
  <1>3. CASE \E i \in Indices : Ent(Start(f), i) = b
    <2>1. PICK i \in Indices : Ent(Start(f), i) = b
      BY <1>3
    <2>2. <<f, "entry", i>> \in Places(f) /\ BlockAt(<<f, "entry", i>>) = b
      BY <1>1, <2>1 DEF Places, BlockAt, Indices, Ent
    <2> QED BY <1>1, <2>2 DEF Mapped
  <1>4. CASE Start(f).din.indirect = b
    <2>1. <<f, "indirect", 0>> \in Places(f) /\ BlockAt(<<f, "indirect", 0>>) = b
      BY <1>1, <1>4 DEF Places, BlockAt
    <2> QED BY <1>1, <2>1 DEF Mapped
  <1> QED BY <1>2, <1>3, <1>4 DEF Owns

LEMMA InvImpliesBlocks ==
    SfsInv => BlocksExact
  <1> SUFFICES ASSUME SfsInv PROVE BlocksExact
    OBVIOUS
  <1>1. Typed
    BY DEF SfsInv
  <1>2. ASSUME NEW p \in Mapped, NEW q \in Mapped, BlockAt(p) = BlockAt(q) PROVE p = q
    <2>1. PICK f \in Files : /\ p \in Places(f) /\ BlockAt(p) \in Blocks
                             /\ Owns(Start(f), BlockAt(p))
      BY PlaceOwned
    <2>2. PICK g \in Files : q \in Places(g) /\ Owns(Start(g), BlockAt(q))
      BY PlaceOwned
    <2>3. f = g
      BY <1>2, <2>1, <2>2 DEF SfsInv, Apart
    <2>4. PICK s, b : s = Start(f) /\ b = BlockAt(p)
      OBVIOUS
    <2>5. Once(s) /\ b # 0 /\ b = BlockAt(q)
      BY <1>2, <2>1, <2>4 DEF SfsInv, Each, Sound, Blocks
    <2>6. \/ \E i \in Direct : p = <<f, "direct", i>> /\ b = s.din.direct[i]
          \/ \E i \in Indices : p = <<f, "entry", i>> /\ b = Ent(s, i)
          \/ p = <<f, "indirect", 0>> /\ b = s.din.indirect
      BY <1>1, <2>1, <2>4, PlaceHolds
    <2>7. \/ \E i \in Direct : q = <<f, "direct", i>> /\ b = s.din.direct[i]
          \/ \E i \in Indices : q = <<f, "entry", i>> /\ b = Ent(s, i)
          \/ q = <<f, "indirect", 0>> /\ b = s.din.indirect
      BY <1>1, <2>2, <2>3, <2>4, <2>5, PlaceHolds
    <2>8. ASSUME NEW i \in Direct, b = s.din.direct[i], p = <<f, "direct", i>> PROVE p = q
      BY <2>5, <2>7, <2>8 DEF Once
    <2>9. ASSUME NEW i \in Indices, b = Ent(s, i), p = <<f, "entry", i>> PROVE p = q
      BY <2>5, <2>7, <2>9 DEF Once
    <2>10. ASSUME b = s.din.indirect, p = <<f, "indirect", 0>> PROVE p = q
      BY <2>5, <2>7, <2>10 DEF Once
    <2> QED BY <2>6, <2>8, <2>9, <2>10
  <1>3. ASSUME NEW p \in Mapped PROVE BlockAt(p) \in Blocks \ freemap
    <2>1. PICK f \in Files : BlockAt(p) \in Blocks /\ Owns(Start(f), BlockAt(p))
      BY PlaceOwned
    <2> QED BY <1>1, <2>1, StartIs DEF SfsInv, Each, Sound
  <1>4. ASSUME NEW b \in Blocks \ freemap PROVE \E p \in Mapped : BlockAt(p) = b
    <2>1. PICK f \in Files : Owns(Start(f), b)
      BY DEF SfsInv, Used
    <2> QED BY <2>1, OwnedPlace
  <1>5. BlocksOwnedOnce
    <2>1. {BlockAt(p) : p \in Mapped} = Blocks \ freemap
      BY <1>3, <1>4
    <2> QED BY <1>1, <1>2, <2>1 DEF BlocksOwnedOnce, Typed
  <1>6. FileHasItsBlocks
    <2>1. ASSUME NEW f \in Files, panic = "none"
          PROVE  /\ BlocksFor(din[f].size) <= din[f].blocks + 1
                 /\ \A i \in 0 .. din[f].blocks - 1 : bmap_find(Start(f), i) # 0
      <3>1. Start(f).din = din[f]
        BY <1>1, StartIs
      <3> QED BY <2>1, <3>1 DEF SfsInv, Each, Sound, Reach, Reaches
    <2> QED BY <2>1 DEF FileHasItsBlocks
  <1>7. MapAsserts
    BY <1>1 DEF Typed, MapAsserts, Asserts
  <1> QED BY <1>5, <1>6, <1>7 DEF BlocksExact

\* Whatever the calls, their order and the place where the disk runs full, no
\* block has two owners or none, no file has a hole below its end, and of the
\* assertions of the block map only those of sfs_inode.c:289 and 780 can fail.
THEOREM BlocksStayExact ==
    Spec => []BlocksExact
  BY Holds, InvImpliesBlocks, PTL

\* The step of CloseSaves.
SavesWhatItHad ==
    \A f \in Files :
         (\E d \in Fds : fd[d].file = f) /\ (\A d \in Fds : fd'[d].file # f)
         => /\ disk_din'[f].size = din[f].size
            /\ disk_din'[f].direct = din[f].direct
            /\ disk_din'[f].indirect = din[f].indirect

LEMMA LastCloseSaves ==
    SfsInv /\ [Next]_vars => SavesWhatItHad
  <1> SUFFICES ASSUME SfsInv, [Next]_vars, NEW f \in Files, NEW d \in Fds, fd[d].file = f,
                      \A e \in Fds : fd'[e].file # f
               PROVE  /\ disk_din'[f].size = din[f].size
                      /\ disk_din'[f].direct = din[f].direct
                      /\ disk_din'[f].indirect = din[f].indirect
    BY DEF SavesWhatItHad
  <1>1. /\ fd \in [Fds -> [file : Files \union {NoFile}, pos : Nat]]
        /\ disk_din \in [Files -> Inodes] /\ IsOpen(d)
    BY DEF SfsInv, Typed, IsOpen
  <1>2. ASSUME NEW c \in Fds, NEW g \in Files, Open(c, g) PROVE FALSE
    <2>1. PICK pos : fd' = [fd EXCEPT ![c] = [file |-> g, pos |-> pos]] /\ ~IsOpen(c)
      BY <1>2 DEF Open
    <2> QED BY <1>1, <2>1
  <1>3. ASSUME NEW c \in Fds, NEW write \in BOOLEAN, Transfer(c, write) PROVE FALSE
    <2>1. PICK pos : fd' = [fd EXCEPT ![c].pos = pos]
      BY <1>3 DEF Transfer
    <2> QED BY <1>1, <2>1
  <1>4. ASSUME NEW c \in Fds, Seek(c) PROVE FALSE
    <2>1. PICK pos : fd' = [fd EXCEPT ![c].pos = pos]
      BY <1>4 DEF Seek
    <2> QED BY <1>1, <2>1
  <1>5. ASSUME NEW c \in Fds, Fsync(c) PROVE FALSE
    BY <1>5 DEF Fsync
  <1>6. CASE UNCHANGED vars
    BY <1>6 DEF vars
  <1>7. ASSUME NEW c \in Fds, Close(c)
        PROVE  /\ disk_din'[f].size = din[f].size
               /\ disk_din'[f].direct = din[f].direct
               /\ disk_din'[f].indirect = din[f].indirect
    <2>1. fd' = [fd EXCEPT ![c] = [file |-> NoFile, pos |-> 0]]
      BY <1>7 DEF Close
    <2>2. \A e \in Fds \ {c} : fd'[e] = fd[e]
      BY <1>1, <2>1
    <2>3. fd[c].file = f /\ \A e \in Fds \ {c} : fd[e].file # f
      BY <2>2
    <2>4. disk_din' = [disk_din EXCEPT ![f] = Saved(f)]
      BY <1>7, <2>3 DEF Close
    <2>5. disk_din'[f] = Saved(f)
      BY <1>1, <2>4
    <2> QED BY <2>5 DEF Saved, SfsInv, Clean, Alike
  <1> QED BY <1>2, <1>3, <1>4, <1>5, <1>6, <1>7 DEF Next, Read, Write

\* The last close of a file leaves on the disk its size and every block it
\* had, though sfs_bmap_load_nolock counts a block without marking the inode.
THEOREM CloseAlwaysSaves ==
    Spec => CloseSaves
  <1>1. SfsInv /\ [Next]_vars => [SavesWhatItHad]_vars
    BY LastCloseSaves
  <1> QED BY <1>1, Holds, PTL DEF Spec, CloseSaves, SavesWhatItHad
=============================================================================
