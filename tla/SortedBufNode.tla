--------------------------- MODULE SortedBufNode ---------------------------
(***************************************************************************)
(* The write buffer of one page (src/spoton_bufnode.h, spoton_bufnode.cc): *)
(* kBufNodeFull + 1 slots and a bitmap of the valid ones.  One slot stays  *)
(* free, so that an update can write its record beside the old one and     *)
(* replace it with a single store of the bitmap: a reader without the lock *)
(* finds the old record or the new one.                                    *)
(*                                                                         *)
(* A slot holds its key; the tags only save comparisons.  None of the      *)
(* callers in these models deletes a record, so deleted_ stays 0.          *)
(***************************************************************************)
EXTENDS Integers, Sequences, FiniteSets, FiniteSetsExt, SequencesExt

CONSTANT kBufNodeFull     \* 12
ASSUME FullAssumption == kBufNodeFull \in Nat \ {0}

BufSlots == 0..kBufNodeFull
NewBufNode == [kv |-> [i \in BufSlots |-> 0], valid |-> {}, seqs |-> <<>>]

BackupBitSet(n) == BufSlots \ n.valid
ValidCount(n) == Cardinality(n.valid)
Full(n) == ValidCount(n) = kBufNodeFull
MatchBitSet(n, k) == {i \in n.valid : n.kv[i] = k}
Recorded(n) == {n.kv[i] : i \in n.valid}

\* The record is written, then the bitmap: the new bit set, the old one cleared.
PutAt(n, k, pos, old) == [n EXCEPT !.kv[pos] = k, !.valid = (@ \cup {pos}) \ old]

\* An update takes the spare slot, a new key any free slot but the last one.
CanInsert(n, k) == MatchBitSet(n, k) # {} \/ ~Full(n)
NodeInsert(n, k) == PutAt(n, k, Min(BackupBitSet(n)), MatchBitSet(n, k))

NodeGet(n, k) == MatchBitSet(n, k) # {}

\* Sort writes the valid slots in key order; the entries behind them stay.
NodeSort(n) ==
    LET order == SetToSortSeq(n.valid, LAMBDA i, j : n.kv[i] < n.kv[j])
    IN [n EXCEPT !.seqs = order \o SubSeq(@, Len(order) + 1, Len(@))]

\* The keys that the sorted iterator yields.
sBegin(n) == [i \in 1..ValidCount(n) |-> n.kv[n.seqs[i]]]

\* The slots of the last `count` records lose their valid bit.
MaskLastN(n, count) ==
    [n EXCEPT !.valid = @ \ {n.seqs[i] : i \in ValidCount(n) - count + 1..ValidCount(n)}]

NodeReset(n) == [n EXCEPT !.valid = {}]
=============================================================================
