----------------------------- MODULE MCSfsFile -----------------------------
EXTENDS SfsFile, TLC

\* Neither the files nor the descriptors are ordered; the blocks are, since
\* the lowest free one is taken.
FileSymmetry == Permutations(Files) \union Permutations(Fds)
=============================================================================
