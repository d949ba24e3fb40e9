---------------------------- MODULE MCCCEHSpoton ----------------------------
EXTENDS CCEHSpoton

CONSTANTS p1, p2

MCProcs == {p1, p2}
MCKeys == 1..12
MCHash == <<0, 1, 2, 3, 4, 5, 6, 7, 1, 2, 6, 5>>
MCHome1 == <<0, 0, 0, 0, 1, 1, 1, 1, 0, 0, 2, 2>>
MCHome2 == <<1, 1, 1, 1, 2, 2, 2, 2, 1, 1, 0, 0>>
MCBucketHash == [k \in MCKeys |-> IF k \in {3, 4, 10} THEN 5 ELSE 0]
MCGets == {2, 4}
MCModes == BOOLEAN

seg(depth, s) == [depth |-> depth, slot |-> [i \in Slots |-> s[i + 1]], sema |-> 0]
buf(depth, ks) == [WriteBuffer(depth) EXCEPT !.nodes = FoldLeft(HashPut, @, SetToSortSeq(ks, <))]

\* Both buffers are full; the lower segment splits, the upper one takes its records.
TwoSegments ==
    [dir |-> [depth |-> 1, seg |-> (0 :> 1 @@ 1 :> 2), buf |-> (0 :> 1 @@ 1 :> 2), sema |-> 0],
     segs |-> <<seg(1, <<1, 3, 0>>), seg(1, <<0, 0, 0>>)>>,
     bufs |-> <<buf(1, {2, 4}), buf(1, {8, 11})>>, inserts |-> {10, 6, 7, 5}]

\* Both segments split.
TwoFull ==
    [dir |-> [depth |-> 1, seg |-> (0 :> 1 @@ 1 :> 2), buf |-> (0 :> 1 @@ 1 :> 2), sema |-> 0],
     segs |-> <<seg(1, <<1, 2, 9>>), seg(1, <<8, 5, 6>>)>>,
     bufs |-> <<buf(1, {3, 4}), buf(1, {7, 11})>>, inserts |-> {10, 12}]

\* Directories of depth 3 with a segment that has four entries, full or not, and one with two.
Four(s1) ==
    [dir |-> [depth |-> 3, seg |-> [i \in 0..7 |-> IF i < 4 THEN 1 ELSE IF i < 6 THEN 2 ELSE i - 3],
              buf |-> [i \in 0..7 |-> IF i < 4 THEN 1 ELSE IF i < 6 THEN 2 ELSE i - 3], sema |-> 0],
     segs |-> <<s1, seg(2, <<0, 0, 0>>), seg(3, <<0, 0, 0>>), seg(3, <<0, 8, 0>>)>>,
     bufs |-> <<buf(1, {2, 4}), buf(2, {5, 6}), buf(3, {}), buf(3, {})>>, inserts |-> {10, 9, 12, 6}]

MCInitTables == {TwoSegments, TwoFull, Four(seg(1, <<1, 3, 0>>)), Four(seg(1, <<0, 0, 0>>))}
=============================================================================
