------------------------------ MODULE MCSPTree ------------------------------
(* Workloads for SPTree: the records the tree starts with, and for every    *)
(* thread the sequence of its calls, each with its alternatives.            *)
EXTENDS SPTree, TLC

CONSTANTS t1, t2

ins(k, v) == [name |-> "insert", key |-> k, val |-> v]
rem(k)    == [name |-> "remove", key |-> k, val |-> NoVal]
get(k)    == [name |-> "lookup", key |-> k, val |-> NoVal]

scan(k, n) == [name |-> "scan", key |-> k, val |-> n]

Times(n, S) == [i \in 1 .. n |-> S]
Pair(p, q)  == [t \in Threads |-> IF t = t1 THEN p ELSE q]
Alone(p)    == Pair(p, <<>>)

old(k) == Rec(k, 1)
Work(ks, c) == [loaded |-> [i \in DOMAIN ks |-> old(ks[i])], filtersOff |-> FALSE, calls |-> c]

(* One thread splits the first leaf and merges its halves again, or tries   *)
(* to, or updates them; the other makes two calls on any key meanwhile.     *)
SplitMergeCalls ==
    Pair(<<{ins(2, 2), rem(3)}, {rem(1), rem(2), ins(3, 2), get(3)}, {rem(1), rem(3)}>>,
         Times(2, {rem(1), ins(4, 2), get(4)} \cup UNION {{ins(k, 2), rem(k), get(k)} : k \in {2, 3}}))

(* One thread alone: inserts, removes and scans in any order. *)
ScanCall  == UNION {{ins(k, 2), rem(k), scan(k, 1), scan(k, 9)} : k \in 1 .. 3}
ScanCalls == Alone(Times(5, ScanCall))

(* One thread scans, the other inserts into, splits or merges the leaves    *)
(* that it is reading.                                                      *)
ScanWriteCalls == Pair(<<{ins(2, 2), rem(1)}, {scan(1, 9), scan(2, 9), scan(1, 2)}>>,
                       <<{ins(2, 2), rem(1), rem(3)}, {ins(4, 2), rem(3)}>>)

Unbuffered == {Work(<<1, 3>>, c) : c \in {SplitMergeCalls, ScanCalls, ScanWriteCalls}}

(* One thread inserts new keys until the buffered node is flushed and       *)
(* split, the other looks keys up.                                          *)
GrowCalls == Pair(<<{ins(1, 2), ins(6, 2)}, {ins(7, 2)}, {ins(8, 2)}, {ins(9, 2)}, {ins(10, 2)}>>,
                  Times(2, {get(4), get(7), get(10)}))

(* One thread alone: a key that sits in the right half of a full leaf is    *)
(* updated in the write buffer, and the next insert splits the leaf.        *)
UpdateSplitCalls == Alone(<<{ins(6, 2)}, {ins(5, 2)}, {ins(7, 2), ins(5, 2)}, {get(5)}>>)

(* One thread alone: a node with a filled buffer is merged into its left    *)
(* sibling when that one has become small enough.                           *)
MergeBufferedCalls == Alone(<<{ins(1, 2)}, {ins(6, 2), get(2)}, {rem(3)}, {rem(2), rem(1)}>>)

(* The same merge while the other thread walks to the removed node.         *)
MergeRaceCalls == Pair(<<{ins(1, 2)}, {rem(3)}, {rem(2)}>>, <<{get(4), ins(5, 2), scan(4, 2)}>>)

(* One thread alone: scans sort a leaf, then the write buffer is flushed    *)
(* into it.                                                                 *)
ScanFlushCalls == Alone(<<{ins(6, 2)}, {scan(1, 9)}, {rem(4), get(4)}, {scan(1, 9)},
                          {ins(4, 2), ins(9, 2)}, {scan(1, 9)}>>)

(* One thread fills the buffer of a node and splits it; the other inserts   *)
(* two keys into the left half, scans or removes.                           *)
ScanRaceCalls == Pair(<<{ins(8, 2)}, {ins(9, 2), scan(1, 9)}, {ins(10, 2)}>>,
                      <<{ins(4, 2), scan(1, 9)}, {ins(5, 2), scan(1, 2), rem(3)}>>)

(* One thread alone: a node is split, and merged again with a record in its *)
(* own buffer.                                                              *)
SplitCalls == <<{ins(9, 2)}, {ins(10, 2)}, {ins(7, 2)}>>
DeniedCalls  == Alone(SplitCalls \o <<{ins(5, 2)}, {rem(10)}, {rem(7)}, {get(5)}>>)

(* One thread splits a node, the other uses it before its buffer is cleared. *)
OutlierCalls == Pair(SplitCalls, <<{ins(5, 2)}>>)

Buffering == {Work(<<2, 3, 4, 5>>, c) :
                  c \in {GrowCalls, UpdateSplitCalls, MergeBufferedCalls, MergeRaceCalls, ScanFlushCalls}}
             \cup {Work(<<2, 3, 4, 8>>, c) : c \in {DeniedCalls, OutlierCalls}}
             \cup {[Work(<<1, 2, 3, 7>>, ScanRaceCalls) EXCEPT !.filtersOff = TRUE]}
=============================================================================
