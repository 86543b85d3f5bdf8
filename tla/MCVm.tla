-------------------------------- MODULE MCVm --------------------------------
(***************************************************************************)
(* Two tables of four pages: text and data in the first, the stack in the  *)
(* second.  "bad" has two segments in the same page.                       *)
(***************************************************************************)
EXTENDS Vm, TLC

Seg(s, f, e, flags) == [s |-> s, f |-> f, e |-> e, flags |-> flags]
MCSegs == [sh  |-> <<Seg(0, 1, 1, {"R", "X"}), Seg(1, 1, 2, {"R", "W"})>>,
           bad |-> <<Seg(0, 1, 2, {"R", "W"}), Seg(1, 2, 2, {"R"})>>]
MCBufs == {<<0, 2>>, <<5, 7>>, <<7, 8>>}
Symmetry == Permutations(Procs)
=============================================================================
