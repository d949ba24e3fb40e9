------------------------------- MODULE MCCCEH -------------------------------
EXTENDS CCEH

CONSTANTS p1, p2

MCProcs == {p1, p2}
MCKeys == 1..10
MCHash == <<0, 1, 2, 3, 4, 5, 6, 7, 1, 2>>
MCHome1 == <<0, 0, 0, 0, 1, 1, 1, 1, 0, 0>>
MCHome2 == <<1, 1, 1, 1, 2, 2, 2, 2, 1, 1>>
MCGets == {2, 7}

seg(depth, s) == [depth |-> depth, slot |-> [i \in Slots |-> s[i + 1]], sema |-> 0]

\* initCCEH with capacity 2: both segments are full.
TwoSegments ==
    [dir |-> [depth |-> 1, seg |-> (0 :> 1 @@ 1 :> 2), sema |-> 0],
     segs |-> <<seg(1, <<1, 2, 4>>), seg(1, <<8, 5, 6>>)>>, inserts |-> {3, 7}]

\* A directory of depth 3 with a segment that has four entries.
FourEntries ==
    [dir |-> [depth |-> 3, seg |-> [i \in 0..7 |-> IF i < 4 THEN 1 ELSE IF i < 6 THEN 2 ELSE i - 3], sema |-> 0],
     segs |-> <<seg(1, <<1, 2, 4>>), seg(2, <<0, 5, 6>>), seg(3, <<0, 0, 0>>), seg(3, <<0, 8, 0>>)>>,
     inserts |-> {3, 10}]

\* Three records with one home, all of the lower half.
Crowded ==
    [dir |-> [depth |-> 1, seg |-> (0 :> 1 @@ 1 :> 2), sema |-> 0],
     segs |-> <<seg(1, <<1, 9, 2>>), seg(1, <<0, 5, 6>>)>>, inserts |-> {3, 7, 10}]

MCInitTables == {TwoSegments, FourEntries, Crowded}
=============================================================================
