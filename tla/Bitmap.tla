------------------------------- MODULE Bitmap -------------------------------
(***************************************************************************)
(* The bitmaps of kern/fs/sfs/bitmap.c: an array of words, each the set of *)
(* the bits that are 1.  A bit that is 1 stands for a free block.          *)
(***************************************************************************)
EXTENDS Integers, FiniteSets, FiniteSetsExt

CONSTANT WordBits     \* WORD_BITS

\* bitmap_create: all ones, but the bits behind the last one are in use.
bitmap_create(nbits) ==
    LET nwords == (nbits + WordBits - 1) \div WordBits
    IN  [nbits |-> nbits, nwords |-> nwords,
         map |-> [ix \in 0 .. nwords - 1 |->
                    {o \in 0 .. WordBits - 1 : ix * WordBits + o < nbits}]]

\* bitmap_translate finds the word and the mask.
bitmap_test(b, i) == i % WordBits \in b.map[i \div WordBits]
InRange(b, i) == i < b.nbits

\* bitmap_alloc: the first 1 of the first word that has one; -1 for -E_NO_MEM.
bitmap_first(b) ==
    LET words == {ix \in DOMAIN b.map : b.map[ix] # {}}
    IN  IF words = {} THEN -1
        ELSE Min(words) * WordBits + Min(b.map[Min(words)])
bitmap_clear(b, i) == [b EXCEPT !.map[i \div WordBits] = @ \ {i % WordBits}]

bitmap_free(b, i) == [b EXCEPT !.map[i \div WordBits] = @ \union {i % WordBits}]
=============================================================================
