--------------------------- MODULE MCSkiplistSpoton ---------------------------
EXTENDS SkiplistSpoton

CONSTANTS p1, p2

MCProcs == {p1, p2}
Symm == Permutations(MCProcs)
MCHeights == {1, 3, 4}
MCReads == {3}

\* Two buffer nodes of different heights; the first partition's buffer is nearly full.
Two == [nodes |-> <<Node(3, 2), Node(6, 3), Node(9, 4)>>,
        buf |-> <<<<2>>, <<>>, <<>>, <<>>>>, inserts |-> {1, 5}, dram |-> FALSE]

\* The constructor's list.
Empty == [nodes |-> <<>>, buf |-> <<<<>>>>, inserts |-> {1, 3, 5}, dram |-> FALSE]

\* Buffer nodes that are low and high: partitions on both sides of 4 rebuild at once.
Low == [nodes |-> <<Node(4, 3), Node(9, 4)>>,
        buf |-> <<<<2>>, <<7>>, <<>>>>, inserts |-> {3, 6, 8}, dram |-> FALSE]

\* With DRAM twins, as long as one thread at a time links high levels.
MCInitLists == {Two, Empty, Low, [Empty EXCEPT !.dram = TRUE]}
MCDramLists == {[Low EXCEPT !.dram = TRUE]}
=============================================================================
