------------------------------ MODULE LaiTree ------------------------------
(***************************************************************************)
(* What the namespace is: a tree of named nodes, in which siblings have    *)
(* different names, and to which one edge is added or removed at a time.   *)
(***************************************************************************)
VARIABLE tree            \* the edges: [parent, name, node]

TreeInit ==
    \A edge, other \in tree :
        edge.parent = other.parent /\ edge.name = other.name => edge = other

Add(edge) ==
    /\ \A other \in tree : other.parent = edge.parent => other.name # edge.name
    /\ tree' = tree \cup {edge}

Remove(edge) == tree' = tree \ {edge}

TreeNext ==
    \/ \E edge \in tree' \ tree : Add(edge)
    \/ \E edge \in tree : Remove(edge)

TreeSpec == TreeInit /\ [][TreeNext]_tree
=============================================================================
