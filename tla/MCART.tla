--------------------------------- MODULE MCART ---------------------------------
EXTENDS ART, TLC

CONSTANTS t1, t2

MCThreads == {t1, t2}
Symm == Permutations(MCThreads)
MCSymbols == 0..4
K(i, j, h) == <<i, j, h>>

MCLookups == {K(1, 1, 1)}
MCSeeks == {K(1, 0, 1), K(1, 1, 1), K(1, 2, 2)}

\* Stand-ins for 4, 16, 48 and for 3, 12, 37.
MCFullAt == <<3, 4, 5>>
MCUnderAt == <<0, 3, 4, 5>>

L(k) == Leaf(k, 1)
MCInserts == {L(K(1, 0, 0)), L(K(1, 1, 3)), Leaf(K(1, 1, 0), 2)}
MCRemoves == {L(K(1, 1, 0)), L(K(1, 1, 1)), L(K(1, 2, 0))}
Sentinel == L(K(0, 0, 0))
RootWith(c) == [type |-> N256, prefix |-> <<>>, kids |-> (0 :> Sentinel) @@ (1 :> c)]

\* A node of two under a prefix.
PairTree == <<RootWith(Inner(2)),
              [type |-> 1, prefix |-> <<1>>, kids |-> (0 :> L(K(1, 1, 0))) @@ (1 :> L(K(1, 1, 1)))]>>
\* A node of two with a leaf and a node.
NestTree == <<RootWith(Inner(2)),
              [type |-> 1, prefix |-> <<>>, kids |-> (1 :> Inner(3)) @@ (2 :> L(K(1, 2, 0)))],
              [type |-> 1, prefix |-> <<>>, kids |-> (0 :> L(K(1, 1, 0))) @@ (1 :> L(K(1, 1, 1)))]>>
\* A full N4, an underfull N16 and an N48.
WideTree(type, S) ==
    <<RootWith(Inner(2)), [type |-> type, prefix |-> <<1>>, kids |-> [s \in S |-> L(K(1, 1, s))]]>>

MCInitTrees == {PairTree, NestTree, WideTree(1, 0..2), WideTree(2, 0..2), WideTree(3, 0..4)}
================================================================================
