----------------------------- MODULE MCFastFair -----------------------------
EXTENDS FastFair

CONSTANTS p1, p2

MCProcs == {p1, p2}
MCInserts == {11, 13, 14}
MCRemoves == {1, 14}   \* never the first key of a leaf with a left sibling
MCSearches == {10, 13}
MCRanges == {<<7, 13>>}

\* The tree after inserting 2, 4, 6, 8, 10, 12 and 1: its root is full.
Loaded ==
    LET leaf(ks, sib) == page(0, NULL, [k \in ks |-> k], sib)
    IN [pages |-> (1 :> leaf({1, 2}, 2) @@ 2 :> leaf({4}, 4) @@ 4 :> leaf({6}, 5)
                   @@ 5 :> leaf({8, 10, 12}, NULL)
                   @@ 3 :> page(1, 1, (4 :> 2 @@ 6 :> 4 @@ 8 :> 5), NULL)),
        root |-> 3, store |-> {1, 2, 4, 6, 8, 10, 12}]
\* A full leaf that is the root.
OneLeaf == [pages |-> (1 :> page(0, NULL, [k \in {8, 10, 12} |-> k], NULL)), root |-> 1, store |-> {8, 10, 12}]

MCInitTrees == {OneLeaf, Loaded}
=============================================================================
