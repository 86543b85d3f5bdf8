------------------------------ MODULE MCProc ------------------------------
EXTENDS Proc, TLC

\* User processes are interchangeable: only idleproc and initproc are special.
Symm == Permutations(Procs \ {idleproc, initproc})
=============================================================================
