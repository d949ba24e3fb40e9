----------------------------- MODULE LeafNode64 -----------------------------
(***************************************************************************)
(* The bottom-layer leaf (spoton-tree/bottomLayer.{h,cc}) as operators on  *)
(* its array of slots.                                                     *)
(*                                                                         *)
(* A leaf is a function from slot numbers to slots; valid is the slot's    *)
(* bit in valid_bitmap, and a slot that is erased keeps its old record.    *)
(* The one-byte tags only filter the slots that are compared: the tag of a *)
(* valid slot is always the tag of its key, so MatchBitSet followed by the *)
(* key comparison finds exactly the valid slots that hold the key, lowest  *)
(* slot first.                                                             *)
(***************************************************************************)
EXTENDS Naturals, Sequences, FiniteSets

CONSTANT LeafCapacity                           \* kLeafNodeCapacity

ASSUME LeafCapacityAssumption == LeafCapacity \in Nat /\ LeafCapacity >= 2

Slot  == 1 .. LeafCapacity

NoVal == 0                                      \* the TID lookup returns for "not found"

Rec(key, val) == [key |-> key, val |-> val, valid |-> TRUE]
NoRec         == [key |-> 0, val |-> NoVal, valid |-> FALSE]   \* key 0 is kKeyEmpty

EmptyLeaf == [i \in Slot |-> NoRec]

ValidBitSet(leaf) == {i \in Slot : leaf[i].valid}
EmptyBitSet(leaf) == Slot \ ValidBitSet(leaf)
Count(leaf)       == Cardinality(ValidBitSet(leaf))

KeysOf(leaf) == {leaf[i].key : i \in ValidBitSet(leaf)}

(* Iterating a NodeBitSet removes the lowest bit first: *bits is Lowest(S)  *)
(* and the n-th value of the iteration is Nth(S, n).                        *)
Lowest(S) == CHOOSE i \in S : \A j \in S : i <= j
Nth(S, n) == CHOOSE i \in S : Cardinality({j \in S : j < i}) = n - 1

Match(leaf, key) == {i \in ValidBitSet(leaf) : leaf[i].key = key}

-----------------------------------------------------------------------------
(* Lookup, Insert and Remove of one key. *)

LeafLookup(leaf, key) ==
    IF Match(leaf, key) = {} THEN NoVal ELSE leaf[Lowest(Match(leaf, key))].val

LeafCanInsert(leaf, key) == Match(leaf, key) # {} \/ EmptyBitSet(leaf) # {}

LeafInsert(leaf, key, val) ==
    IF Match(leaf, key) # {}
    THEN [leaf EXCEPT ![Lowest(Match(leaf, key))].val = val]
    ELSE [leaf EXCEPT ![Lowest(EmptyBitSet(leaf))] = Rec(key, val)]

LeafRemove(leaf, key) ==
    IF Match(leaf, key) = {} THEN leaf
    ELSE [leaf EXCEPT ![Lowest(Match(leaf, key))].valid = FALSE]

-----------------------------------------------------------------------------
(* The batch writers put records into slots without setting their valid     *)
(* bits, and set all the bits at the end.  A record overwrites the first    *)
(* VALID slot with its key, otherwise it goes to the next empty slot.       *)

Records(leaf) == [n \in 1 .. Count(leaf) |-> leaf[Nth(ValidBitSet(leaf), n)]]

(* recs go, in order, to the empty slots of leaf. *)
FillEmptySlots(leaf, recs) ==
    [i \in Slot |->
        LET n == Cardinality({j \in EmptyBitSet(leaf) : j <= i})
        IN  IF ~leaf[i].valid /\ n <= Len(recs) THEN recs[n] ELSE leaf[i]]

OverwriteSlots(leaf, recs) ==
    [i \in Slot |->
        LET hits == {n \in 1 .. Len(recs) : /\ i \in Match(leaf, recs[n].key)
                                            /\ i = Lowest(Match(leaf, recs[n].key))}
        IN  IF hits = {} THEN leaf[i] ELSE recs[Lowest(hits)]]

(* The elements of recs at the positions in I, in order. *)
Pick(recs, I) == [n \in 1 .. Cardinality(I) |-> recs[Nth(I, n)]]

(* InsertiWithoutSetValidBitmap for every record of recs (their keys are    *)
(* pairwise different), then valid_bitmap |= toAddedBits.                   *)
InsertBatch(leaf, recs) ==
    FillEmptySlots(OverwriteSlots(leaf, recs),
                   Pick(recs, {n \in 1 .. Len(recs) : Match(leaf, recs[n].key) = {}}))

-----------------------------------------------------------------------------
(* Split. *)

(* std::sort of the valid slots by key. *)
SortedSlots(leaf) ==
    LET before(i, j) == \/ leaf[i].key < leaf[j].key
                        \/ leaf[i].key = leaf[j].key /\ i < j
    IN  [n \in 1 .. Count(leaf) |->
            CHOOSE i \in ValidBitSet(leaf) :
                Cardinality({j \in ValidBitSet(leaf) : before(j, i)}) = n - 1]

(* mutant: the record before the middle *)
Median_Low(leaf) == leaf[SortedSlots(leaf)[Count(leaf) \div 2]].key
Median(leaf) == leaf[SortedSlots(leaf)[Count(leaf) \div 2 + 1]].key

Below(recs, median)   == Pick(recs, {n \in 1 .. Len(recs) : recs[n].key < median})
AtLeast(recs, median) == Pick(recs, {n \in 1 .. Len(recs) : recs[n].key >= median})

(* The left half keeps its slots and merges the records below the median. *)
SplitLeft(leaf, recs) ==
    LET median == Median(leaf)
        kept   == [i \in Slot |-> [leaf[i] EXCEPT !.valid = @ /\ leaf[i].key < median]]
    IN  InsertBatch(kept, Below(recs, median))

(* The right half is written to a new leaf whose valid_bitmap stays 0 until *)
(* the end, so MatchBitSet finds nothing there: the records to merge never  *)
(* overwrite one of the shifted records, they always take a slot of their   *)
(* own behind it.                                                           *)
SplitRight(leaf, recs) ==
    LET median  == Median(leaf)
        sorted  == [n \in 1 .. Count(leaf) |-> leaf[SortedSlots(leaf)[n]]]
        shifted == AtLeast(sorted, median)
    IN  FillEmptySlots(EmptyLeaf, shifted \o AtLeast(recs, median))

-----------------------------------------------------------------------------
(* mutant: the slots are listed, not sorted *)
LeafSort_SlotOrder(leaf, seqs) ==
    [i \in Slot |-> IF i <= Count(leaf) THEN Nth(ValidBitSet(leaf), i) ELSE seqs[i]]

(* Sort writes the sorted slot numbers to seqs, from the front; the entries *)
(* behind them keep what they had.                                          *)
LeafSort(leaf, seqs) ==
    [i \in Slot |-> IF i <= Count(leaf) THEN SortedSlots(leaf)[i] ELSE seqs[i]]

(* The binary search of SeekGE over the first Count() entries of seqs: the  *)
(* number of entries before the first one whose key is >= key.              *)
SeekGE(leaf, seqs, key) ==
    LET search[l \in 0 .. LeafCapacity, r \in 0 .. LeafCapacity] ==
            LET m == l + (r - l) \div 2
            IN  IF l >= r THEN l
                ELSE IF leaf[seqs[m + 1]].key < key THEN search[m + 1, r]
                ELSE search[l, m]
    IN  search[0, Count(leaf)]

-----------------------------------------------------------------------------
(* Merge: the records of the right sibling go to the empty slots of leaf.   *)

LeafCanMerge_Always(leaf, right) == TRUE        \* mutant: the size is not checked
LeafCanMerge(leaf, right) == Count(leaf) + Count(right) <= LeafCapacity

LeafMerge(leaf, right) == FillEmptySlots(leaf, Records(right))
=============================================================================
