----------------------------- MODULE MCTurboHash -----------------------------
EXTENDS TurboHash

CONSTANTS p1, p2

MCProcs == {p1, p2}
Symm == Permutations(MCProcs)
MCKeys == 1..7
MCVals == {1, 2}
MCHome == <<0, 0, 1, 2, 3, 3, 7>>
MCTag == <<7, 8, 7, 9, 8, 7, 9>>
MCPuts == {1, 3}
MCDeletes == {1, 4}
MCFinds == {1, 2}

\* A full cell in front of the record 2, a bucket with room, a full bucket and
\* a bucket whose records wrap around its end.
Table(n, ks) == [cells |-> n, keys |-> ks]
MCInitTables == {Table(2, <<4, 1, 2>>), Table(2, <<2>>), Table(2, <<4, 5, 1, 2>>), Table(4, <<5, 6, 7, 1, 2>>)}
=============================================================================
