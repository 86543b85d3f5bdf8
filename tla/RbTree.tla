------------------------------- MODULE RbTree -------------------------------
(***************************************************************************)
(* The red-black tree of kern/libs/rb_tree.c, which the boot-time          *)
(* check_slab exercises.  The tree hangs on the left of the sentinel ROOT; *)
(* NIL stands for every missing child and its parent is scratch space.     *)
(***************************************************************************)
EXTENDS Integers, Sequences, FiniteSets, FiniteSetsExt, SequencesExt, TLC

CONSTANTS
    Nodes,    \* the nodes callers can insert
    KeyOf     \* the key of each node; keys may be equal

VARIABLES
    tree,     \* left, right, parent and red of the nodes in the tree
    created,  \* has the tree been created?
    blocks    \* the blocks of kmalloc the tree has: tree, nil and root

rbvars == <<tree, created, blocks>>

NIL == 0
ROOT == -1

compare(x, y) == KeyOf[x] - KeyOf[y]

NewTree == [left |-> [x \in {NIL, ROOT} |-> NIL],
            right |-> [x \in {NIL, ROOT} |-> NIL],
            parent |-> [x \in {NIL, ROOT} |-> NIL],
            red |-> [x \in {NIL, ROOT} |-> FALSE],
            ok |-> TRUE]

Inside == DOMAIN tree.red \ {NIL, ROOT}

Init == tree = NewTree /\ created = FALSE /\ blocks = {}

\* rb_tree_create asks for three blocks; at the first that fails those before
\* it are freed.
CreateBlocks(got) == IF got = 3 THEN {"tree", "nil", "root"} ELSE {}
rb_tree_create(got) ==
    /\ ~created
    /\ created' = (got = 3)
    /\ blocks' = CreateBlocks(got)
    /\ tree' = NewTree

rb_tree_destroy ==
    /\ created
    /\ created' = FALSE /\ blocks' = blocks \ {"root", "nil", "tree"}
    /\ tree' = NewTree      \* the nodes stay with their owners

\* FUNC_ROTATE: l and r are the sides _left and _right.
rotate(t, l, r, x) ==
    LET y == t[r][x]
        inner == t[l][y]
        p == t.parent[x]
        up == IF inner # NIL THEN [t.parent EXCEPT ![inner] = x] ELSE t.parent
    IN  [[t EXCEPT ![r][x] = inner, ![IF x = t[l][p] THEN l ELSE r][p] = y]
            EXCEPT ![l][y] = x,
                   !.parent = [up EXCEPT ![y] = p, ![x] = y],
                   !.ok = @ /\ x \notin {ROOT, NIL} /\ y # NIL /\ ~t.red[NIL]]

-----------------------------------------------------------------------------
(* Inserting                                                               *)

RECURSIVE insert_place(_, _, _, _)
insert_place(t, y, x, node) ==
    IF x = NIL THEN y
    ELSE insert_place(t, x, IF compare(x, node) > 0 THEN t.left[x] ELSE t.right[x],
                      node)

rb_insert_binary(t, z) ==
    LET y == insert_place(t, ROOT, t.left[ROOT], z)
        side == IF y = ROOT THEN "left"
                ELSE IF compare(y, z) > 0 THEN "left" ELSE "right"
        new == [left |-> (z :> NIL) @@ t.left, right |-> (z :> NIL) @@ t.right,
                parent |-> (z :> y) @@ t.parent, red |-> (z :> TRUE) @@ t.red,
                ok |-> t.ok]
    IN  [new EXCEPT ![side][y] = z]

\* The loop of rb_insert, RB_INSERT_SUB on the side x's parent is on.
RECURSIVE insert_fixup(_, _)
insert_fixup(t, x) ==
    LET p == t.parent[x]
        g == t.parent[p]
        l == IF p = t.left[g] THEN "left" ELSE "right"
        r == IF l = "left" THEN "right" ELSE "left"
        y == t[r][g]
        t1 == IF x = t[r][p] THEN rotate(t, l, r, p) ELSE t
        x1 == IF x = t[r][p] THEN p ELSE x
        p1 == t1.parent[x1]
        g1 == t1.parent[p1]
        t2 == [t1 EXCEPT !.red[p1] = FALSE, !.red[g1] = TRUE]
    IN  IF ~t.red[p] THEN t
        ELSE IF t.red[y]
        THEN insert_fixup([t EXCEPT !.red[p] = FALSE, !.red[y] = FALSE,
                                    !.red[g] = TRUE], g)
        ELSE insert_fixup(rotate(t2, r, l, g1), x1)

rb_insert(node) ==
    /\ created /\ node \notin Inside
    /\ LET t == insert_fixup(rb_insert_binary(tree, node), node)
           t1 == [t EXCEPT !.red[t.left[ROOT]] = FALSE]
       IN  tree' = [t1 EXCEPT !.ok = @ /\ ~t1.red[NIL] /\ ~t1.red[ROOT]]
    /\ UNCHANGED <<created, blocks>>

-----------------------------------------------------------------------------
(* Walking and searching                                                   *)

RECURSIVE far(_, _, _)     \* as far as possible to one side
far(t, side, y) == IF t[side][y] = NIL THEN y ELSE far(t, side, t[side][y])

RECURSIVE climb(_, _, _)   \* up while x is the child on that side
climb(t, side, x) ==
    LET y == t.parent[x]
    IN  IF x # t[side][y] THEN y
        ELSE IF y = ROOT THEN ROOT ELSE climb(t, side, y)

rb_tree_successor(t, x) ==
    IF t.right[x] # NIL THEN far(t, "left", t.right[x])
    ELSE LET y == climb(t, "right", x) IN IF y = ROOT THEN NIL ELSE y

rb_tree_predecessor(t, x) ==
    IF t.left[x] # NIL THEN far(t, "right", t.left[x])
    ELSE LET y == climb(t, "left", x) IN IF y = ROOT THEN NIL ELSE y

RECURSIVE search_from(_, _, _)
search_from(t, node, key) ==
    IF node = NIL \/ KeyOf[node] = key THEN node
    ELSE search_from(t, IF KeyOf[node] > key THEN t.left[node] ELSE t.right[node],
                     key)
rb_search(t, key) == search_from(t, t.left[ROOT], key)

-----------------------------------------------------------------------------
(* Deleting                                                                *)

\* RB_DELETE_FIXUP_SUB; root is the one read before the first rotation.
RECURSIVE delete_loop(_, _, _)
delete_loop(t, x, root) ==
    LET p == t.parent[x]
        l == IF x = t.left[p] THEN "left" ELSE "right"
        r == IF l = "left" THEN "right" ELSE "left"
        w0 == t[r][p]
        t1 == IF t.red[w0]
              THEN rotate([t EXCEPT !.red[w0] = FALSE, !.red[p] = TRUE], l, r, p)
              ELSE t
        w1 == t1[r][p]
        bothBlack == ~t1.red[t1[l][w1]] /\ ~t1.red[t1[r][w1]]
        t2 == IF ~t1.red[t1[r][w1]]
              THEN rotate([t1 EXCEPT !.red[t1[l][w1]] = FALSE, !.red[w1] = TRUE],
                          r, l, w1)
              ELSE t1
        w2 == t2[r][p]
        t3 == [t2 EXCEPT !.red[w2] = t2.red[p], !.red[p] = FALSE,
                         !.red[t2[r][w2]] = FALSE]
    IN  IF x = root \/ t.red[x] THEN [t EXCEPT !.red[x] = FALSE]
        ELSE IF bothBlack THEN delete_loop([t1 EXCEPT !.red[w1] = TRUE], p, root)
        ELSE [rotate(t3, l, r, p) EXCEPT !.red[root] = FALSE]

rb_delete_nofix(t, x) == t
rb_delete_fixup(t, x) == delete_loop(t, x, t.left[ROOT])

\* rb_delete: y leaves its place, x takes it; if y is not the node to delete it
\* then takes over that node's place, colour and all.
unlink(t, z) ==
    LET y == IF t.left[z] = NIL \/ t.right[z] = NIL THEN z
             ELSE rb_tree_successor(t, z)
        x == IF t.left[y] # NIL THEN t.left[y] ELSE t.right[y]
        q == t.parent[y]
        t1 == [t EXCEPT !.parent[x] = q,
                        ![IF y = t.left[q] THEN "left" ELSE "right"][q] = x,
                        !.ok = @ /\ y \notin {ROOT, NIL}]
        p == t1.parent[z]
        t2 == [t1 EXCEPT ![IF z = t1.left[p] THEN "left" ELSE "right"][p] = y,
                         !.parent[t1.right[z]] = y, !.parent[t1.left[z]] = y]
        t3 == [t2 EXCEPT !.left[y] = t2.left[z], !.right[y] = t2.right[z],
                         !.parent[y] = t2.parent[z], !.red[y] = t2.red[z]]
    IN  [x |-> x, fix |-> ~t.red[y], t |-> IF y # z THEN t3 ELSE t1]

\* What the freed node's fields hold is no longer of interest.
Forget(t, z) ==
    LET rest == DOMAIN t.red \ {z}
    IN  [left |-> [n \in rest |-> t.left[n]], right |-> [n \in rest |-> t.right[n]],
         parent |-> [n \in rest |-> t.parent[n]],
         red |-> [n \in rest |-> t.red[n]], ok |-> t.ok]

rb_delete(node) ==
    /\ created /\ node \in Inside
    /\ LET u == unlink(tree, node)
       IN  tree' = Forget(IF u.fix THEN rb_delete_fixup(u.t, u.x) ELSE u.t, node)
    /\ UNCHANGED <<created, blocks>>

Next == \/ \E got \in 0 .. 3 : rb_tree_create(got)
        \/ rb_tree_destroy
        \/ \E n \in Nodes : rb_insert(n) \/ rb_delete(n)

Spec == Init /\ [][Next]_rbvars

-----------------------------------------------------------------------------
(* Properties                                                              *)

\* check_tree: the black height of the subtree at node, or -1 when one of its
\* assertions fails.
RECURSIVE check_tree(_)
check_tree(node) ==
    LET l == tree.left[node]
        r == tree.right[node]
        hl == check_tree(l)
        hr == check_tree(r)
    IN  IF node = NIL THEN IF tree.red[NIL] THEN -1 ELSE 1
        ELSE IF /\ l # NIL => compare(node, l) >= 0 /\ tree.parent[l] = node
                /\ r # NIL => compare(node, r) <= 0 /\ tree.parent[r] = node
                /\ tree.red[node] => ~tree.red[l] /\ ~tree.red[r]
                /\ hl # -1 /\ hl = hr
             THEN hl + (IF tree.red[node] THEN 0 ELSE 1)
             ELSE -1

\* The nodes met from the first on along rb_node_next, or from the last on
\* along rb_node_prev, in at most n steps.
RECURSIVE Walk(_, _, _)
Walk(forward, x, n) ==
    IF x = NIL \/ n = 0 THEN <<>>
    ELSE <<x>> \o Walk(forward, IF forward THEN rb_tree_successor(tree, x)
                                ELSE rb_tree_predecessor(tree, x), n - 1)

\* The tree is a red-black tree after every insertion and deletion, whatever
\* keys are equal, and neither the rotations' assertions nor those of rb_delete
\* fail though the fixup keeps the root it read first (rb_tree.c:78-97,
\* 245-288, 378-404).
RedBlack ==
    /\ tree.ok /\ ~tree.red[tree.left[ROOT]] /\ check_tree(tree.left[ROOT]) # -1
    /\ blocks = IF created THEN {"tree", "nil", "root"} ELSE {}

\* Nothing inserted is lost: walking either way meets every node once, in the
\* order of the keys, and a search finds a key exactly when a node has it
\* (rb_tree.c:178-239, 294-327).
TreeIsDictionary ==
    LET n == Cardinality(Inside)
        first == far(tree, "left", tree.left[ROOT])
        last == far(tree, "right", tree.left[ROOT])
        forth == Walk(TRUE, first, n + 1)
        back == Walk(FALSE, last, n + 1)
    IN  /\ n > 0 => /\ ToSet(forth) = Inside /\ Len(forth) = n
                    /\ \A i \in 1 .. n - 1 : compare(forth[i], forth[i + 1]) <= 0
                    /\ back = Reverse(forth)
        /\ \A key \in {KeyOf[x] : x \in Nodes} :
              LET found == rb_search(tree, key)
              IN  IF found = NIL THEN \A x \in Inside : KeyOf[x] # key
                                 ELSE found \in Inside /\ KeyOf[found] = key
=============================================================================
