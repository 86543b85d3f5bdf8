------------------------------ MODULE MCFiles ------------------------------
EXTENDS Files, TLC

CONSTANTS init, p1, p2, root, file

\* The disk image: one directory with one file, and a name that is not there.
ImageEntry == (root :> [n \in {"..", "f", "new"} |->
                         CASE n = ".." -> root [] n = "f" -> file [] OTHER -> None])

ImageDepth == [d \in Dirs |-> 0]

RdOnly == [acc |-> "RDONLY", creat |-> FALSE, excl |-> FALSE, trunc |-> FALSE,
           append |-> FALSE]
\* Reading, the shell's redirection and an exclusive creation.
FlagsUsed == {RdOnly,
              [RdOnly EXCEPT !.acc = "RDWR", !.trunc = TRUE, !.creat = TRUE],
              [RdOnly EXCEPT !.acc = "RDWR", !.excl = TRUE, !.creat = TRUE]}

PathsUsed == [from : {"cwd"}, name : {"", "f", "new"}]
               \union [from : {"boot", "fs", "disk0"}, name : {"f"}]
               \union [from : {"stdin", "nodev"}, name : {""}]

\* A device and the root of the boot file system stay in memory in any case; a
\* reference that is lost makes a difference for the file only.
LeakBound == [i \in Nodes |-> IF i = file THEN 1 ELSE 0]

UserSymmetry == Permutations({p1, p2})
=============================================================================
