----------------------------- MODULE HashBuffer -----------------------------
(***************************************************************************)
(* The write buffer of one CCEH segment (src/spoton_hashbuf.h): kNodeNum   *)
(* SortedBufNodes as the buckets of a hash table with linear probing over  *)
(* kProbeLen of them.  A probe ends at the first bucket that is not full.  *)
(***************************************************************************)
EXTENDS SortedBufNode

CONSTANTS
    kNodeNum,        \* buckets of a buffer
    BucketHash       \* key -> hash_int (key)

kProbeLen == kNodeNum \div 2 - 1
ASSUME HashBufferAssumption == kNodeNum \in Nat /\ kProbeLen >= 1

NewHashBuffer == [i \in 0..kNodeNum - 1 |-> NewBufNode]
BucketOf(k, p) == (BucketHash[k] + p) % kNodeNum

\* The probes that are made: those before which every bucket was full.
Probed(b, k) == {p \in 0..kProbeLen - 1 : \A q \in 0..p - 1 : Full(b[BucketOf(k, q)])}

\* The bucket that has the key already, or the first one with room.
PutBucket(b, k) ==
    LET has == {p \in Probed(b, k) : NodeGet(b[BucketOf(k, p)], k)}
        room == {p \in Probed(b, k) : ~Full(b[BucketOf(k, p)])}
    IN IF has # {} THEN {BucketOf(k, Min(has))} ELSE {BucketOf(k, p) : p \in room}

CanPut(b, k) == PutBucket(b, k) # {}
HashPut(b, k) == [i \in DOMAIN b |-> IF i \in PutBucket(b, k) THEN NodeInsert(b[i], k) ELSE b[i]]

HashGet_OneBucket(b, k) == NodeGet(b[BucketOf(k, 0)], k)   \* mutant
HashGet(b, k) == \E p \in Probed(b, k) : NodeGet(b[BucketOf(k, p)], k)

HashReset(b) == [i \in DOMAIN b |-> NodeReset(b[i])]

\* The keys that the iterator yields: bucket by bucket, slot by slot.
HashBegin(b) ==
    LET InNode(n) == LET order == SetToSortSeq(n.valid, <) IN [i \in DOMAIN order |-> n.kv[order[i]]]
    IN FlattenSeq([i \in 1..kNodeNum |-> InNode(b[i - 1])])

InHashBuffer(b) == UNION {Recorded(b[i]) : i \in DOMAIN b}
=============================================================================
