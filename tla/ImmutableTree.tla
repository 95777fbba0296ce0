--------------------------- MODULE ImmutableTree ---------------------------
(***************************************************************************)
(* What a store promises about one session's tree: nodes are added, one    *)
(* root first and then children of nodes that exist; nothing is changed or *)
(* removed, whoever adds (SyncStore and AsyncStore, store/base.py).        *)
(***************************************************************************)
CONSTANTS Ids, None

VARIABLE tree   \* the nodes so far, by identity

HasRoot == \E n \in DOMAIN tree : tree[n].parent = None

With(n, node) == [m \in DOMAIN tree \cup {n} |-> IF m = n THEN node ELSE tree[m]]

Init == tree = [n \in {} |-> None]

Add(n, node) ==
    /\ n \in Ids \ DOMAIN tree
    /\ IF node.parent = None THEN ~HasRoot ELSE node.parent \in DOMAIN tree
    /\ tree' = With(n, node)

Next == \E n \in Ids : n \in DOMAIN tree' /\ Add(n, tree'[n])

Spec == Init /\ [][Next]_tree
=============================================================================
