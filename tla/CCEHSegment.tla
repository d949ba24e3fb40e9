---------------------------- MODULE CCEHSegment ----------------------------
(***************************************************************************)
(* Segments and directories of the extendible hash table of CCEH/src       *)
(* (CCEH.h and the members of Segment and Directory in CCEH.cpp).  A key's *)
(* hash is its HashBits highest bits; where it may stand in a segment are  *)
(* two windows of Probe consecutive slots, one per hash function.          *)
(***************************************************************************)
EXTENDS Integers, FiniteSets, FiniteSetsExt, Sequences, TLC

CONSTANTS
    Keys,        \* the keys: positive numbers
    HashBits,    \* bits of the hash that directories look at
    Hash,        \* key -> those bits
    Home1,       \* key -> first slot of its first window  (f_idx)
    Home2,       \* key -> first slot of its second window (s_idx)
    NumSlot,     \* Segment::kNumSlot
    Probe        \* kNumPairPerCacheLine * kNumCacheLine

INVALID == 0
SENTINEL == -1
Slots == 0..(NumSlot - 1)

ASSUME SegmentAssumption ==
    /\ Keys \subseteq Nat \ {0} /\ HashBits \in Nat /\ NumSlot \in Nat \ {0} /\ Probe \in 1..NumSlot
    /\ \A k \in Keys : Hash[k] \in 0..(2^HashBits - 1) /\ Home1[k] \in Slots /\ Home2[k] \in Slots

Prefix(k, depth) == Hash[k] \div 2^(HashBits - depth)

initSegment(depth) == [depth |-> depth, slot |-> [i \in Slots |-> INVALID], sema |-> 0]

-----------------------------------------------------------------------------
(* Segments. *)

Window(home) == [i \in 1..Probe |-> (home + i - 1) % NumSlot]
Content(seg) == {seg.slot[i] : i \in Slots} \cap Keys

\* A slot whose key's prefix is not the segment's is free: its record moved away in a split.
Free(seg, k, i) ==
    LET x == seg.slot[i]
    IN x # SENTINEL /\ (x = INVALID \/ Prefix(x, seg.depth) # Prefix(k, seg.depth))

FirstIn(w, P(_)) ==
    LET ok == {i \in DOMAIN w : P(w[i])} IN IF ok = {} THEN {} ELSE {w[Min(ok)]}

\* The slot that an insert takes, as a set with at most one member.
FreeSlot(seg, k) ==
    LET free(i) == Free(seg, k, i)
        first == FirstIn(Window(Home1[k]), free)
    IN IF first # {} THEN first ELSE FirstIn(Window(Home2[k]), free)

\* Get: the key is looked for in both windows.
HasKey(seg, k) ==
    \E w \in {Window(Home1[k]), Window(Home2[k])} : \E i \in DOMAIN w : seg.slot[w[i]] = k

\* Insert4split, which leaves the segment alone when the window has no empty slot.
Insert4split(seg, k, home) ==
    LET empty(i) == seg.slot[i] = INVALID
        at == FirstIn(Window(home), empty)
    IN [ok |-> at # {}, seg |-> [seg EXCEPT !.slot = [i \in Slots |-> IF i \in at THEN k ELSE @[i]]]]

\* Insert4split of the members of K in slots 0..n-1 of old.
Migrate(old, new, K) ==
    LET m[n \in 0..NumSlot] ==
            IF n = 0 THEN new
            ELSE LET k == old.slot[n - 1]
                 IN IF k \in K THEN Insert4split(m[n - 1], k, Home1[k]).seg ELSE m[n - 1]
    IN m[NumSlot]

\* The bit that tells the halves of a segment of this depth apart.
Upper(k, depth) == Prefix(k, depth + 1) % 2 = 1

\* Split: two new segments.  The result of Insert4split is not looked at.
Split(seg) ==
    LET up == {k \in Keys : Upper(k, seg.depth)}
    IN <<Migrate(seg, initSegment(seg.depth + 1), Keys \ up), Migrate(seg, initSegment(seg.depth + 1), up)>>

-----------------------------------------------------------------------------
(* Directories. *)

Entries(depth) == 0..(2^depth - 1)

\* The entries of the segment that x belongs to, when it has this local depth.
Stride(dir, depth) == 2^(dir.depth - depth)
Group(dir, x, depth) == LET st == Stride(dir, depth) IN (x - (x % st))..(x - (x % st) + st - 1)
UpperHalf(dir, x, depth) ==
    {e \in Group(dir, x, depth) : e % Stride(dir, depth) >= Stride(dir, depth) \div 2}
LowerHalf(dir, x, depth) == Group(dir, x, depth) \ UpperHalf(dir, x, depth)

SetEntries(f, E, v) == [i \in DOMAIN f |-> IF i \in E THEN v ELSE f[i]]

\* Entry x becomes the two entries v0 and v1, every other entry is doubled.
Doubled(f, x, v0, v1) ==
    [i \in 0..(2 * Cardinality(DOMAIN f) - 1) |->
        IF i \div 2 # x THEN f[i \div 2] ELSE IF i % 2 = 0 THEN v0 ELSE v1]

\* Recovery: the groups from left to right.  Entries in a group that point to a
\* segment of another depth are set to the group's first; the last group is left alone.
Recovery_Shallow(dir, segs) == dir.seg                                        \* mutant
Recovery(dir, segs) ==
    LET cap == 2^dir.depth
        r[i \in 0..cap] ==
            IF i = cap THEN dir.seg
            ELSE LET d == segs[dir.seg[i]].depth
                     buddy == i + Stride(dir, d)
                     rest == IF buddy >= cap THEN dir.seg ELSE r[buddy]
                 IN IF buddy = cap THEN dir.seg
                    ELSE [j \in DOMAIN rest |->
                             IF i < j /\ j < buddy /\ segs[dir.seg[j]].depth # d THEN dir.seg[i] ELSE rest[j]]
    IN r[0]
=============================================================================
