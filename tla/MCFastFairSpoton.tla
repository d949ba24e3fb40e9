-------------------------- MODULE MCFastFairSpoton --------------------------
EXTENDS FastFairSpoton

CONSTANTS p1, p2

MCProcs == {p1, p2}
MCSearches == {13}
MCModes == BOOLEAN

leaf(ks, sib, hkey) == page(0, NULL, [k \in ks |-> k], sib, hkey)
buf(high, parent, ks) == [NewBuf(high, parent) EXCEPT !.node = FoldLeft(NodeInsert, @, SetToSeq(ks))]

\* Three leaves: the first is full, the second's buffer is full and fits into
\* the leaf, the third's is full and does not.
ThreeLeaves ==
    [pages |-> (1 :> leaf({1, 2, 3, 4, 6, 7}, 2, 10) @@ 2 :> leaf({10, 12, 14}, 4, 20)
                @@ 4 :> leaf({20, 22, 24, 26, 28}, NULL, MaxKey)
                @@ 3 :> page(1, 1, (10 :> 2 @@ 20 :> 4), NULL, MaxKey)),
     root |-> 3, table |-> (2 :> 1 @@ 4 :> 2),
     bufs |-> (1 :> buf(20, 10, {13, 15}) @@ 2 :> buf(MaxKey, 20, {23, 25})),
     inserts |-> {5, 11, 21, 27}]

\* The root is a full leaf.
OneLeaf ==
    [pages |-> (1 :> leaf({1, 2, 3, 4, 13, 14}, NULL, MaxKey)), root |-> 1,
     table |-> [q \in {} |-> NULL], bufs |-> [b \in {} |-> NULL], inserts |-> {5, 6, 15, 16}]

\* The root is a full inner page, and the last two leaves are about to split; 13 is updated.
FullRoot ==
    [pages |-> (1 :> leaf({1}, 2, 10) @@ 2 :> leaf({10}, 4, 20) @@ 4 :> leaf({20}, 5, 30)
                @@ 5 :> leaf({30}, 6, 40) @@ 6 :> leaf({40}, 7, 50)
                @@ 7 :> leaf({50, 52, 54, 56}, 8, 60) @@ 8 :> leaf({60, 62, 64, 66}, NULL, MaxKey)
                @@ 3 :> page(1, 1, (10 :> 2 @@ 20 :> 4 @@ 30 :> 5 @@ 40 :> 6 @@ 50 :> 7 @@ 60 :> 8),
                             NULL, MaxKey)),
     root |-> 3, table |-> (2 :> 1 @@ 4 :> 2 @@ 5 :> 3 @@ 6 :> 4 @@ 7 :> 5 @@ 8 :> 6),
     bufs |-> <<buf(20, 10, {13}), buf(30, 20, {}), buf(40, 30, {}), buf(50, 40, {}),
                buf(60, 50, {53, 55}), buf(MaxKey, 60, {63, 65})>>,
     inserts |-> {13, 51, 61}]

MCInitTrees == {ThreeLeaves, OneLeaf, FullRoot}
=============================================================================
