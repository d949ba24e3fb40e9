------------------------ MODULE SPTreeRestart_proofs ------------------------
(***************************************************************************)
(* What a crash leaves of SPTree, for any keys, values, leaf and buffer    *)
(* sizes and any number of threads, calls, crashes and early write-backs:  *)
(* outside the keys that a crash may take back, a restart answers what was *)
(* answered before, and after a clean crash the rebuilt middle layer tiles *)
(* the keys again.                                                         *)
(*                                                                         *)
(* The inductive invariant IInv relates the three copies of a range: the   *)
(* node of the middle layer, the volatile and the durable leaf, and the    *)
(* entries of the persistent B+-tree with the jobs that are still to come. *)
(* It needs no record to be in a leaf only once.                           *)
(***************************************************************************)
EXTENDS SPTreeRestart, LeafNode64_proofs

K0     == Keys \cup {0}
Vals   == {NoVal} \cup UNION {ValsOf(k) : k \in Keys}
SlotsT == LeafOf(K0, Vals)
LeafT  == [lkey : Nat, hkey : Nat, next : Nat, slots : SlotsT]
RecT   == RecOf(Keys, Vals)
NodeT  == [lkey : Nat, hkey : Nat, buffered : BOOLEAN, buf : Seq(RecT)]
JobT   == [name : {"insert", "remove"}, key : Nat, leaf : Nat]
EntryT == [key : Nat, leaf : Nat]

Live       == DOMAIN node
BufKeys(l) == {node[l].buf[i].key : i \in 1 .. Len(node[l].buf)}
OpRecs     == {op.recs[i].key : i \in 1 .. Len(op.recs)}

TypeInv ==
    /\ leaves \in Leaf
    /\ mem \in [Leaf -> LeafT] /\ pmem \in [Leaf -> LeafT]
    /\ index \subseteq EntryT /\ weak \subseteq EntryT
    /\ Live \subseteq 1 .. leaves
    /\ jobs \in Seq(JobT)
    /\ mode \in {"up", "down", "recovered"}

-----------------------------------------------------------------------------
(* The nodes of the middle layer tile the keys. *)
Tiled(l) ==
    /\ node[l].lkey >= MinKey
    /\ \/ node[l].hkey = MaxKey
       \/ /\ node[l].lkey < node[l].hkey
          /\ \E m \in Live : node[m].lkey = node[l].hkey
TileInv ==
    /\ node \in [Live -> NodeT]
    /\ \E l \in Live : node[l].lkey = MinKey
    /\ \A l, m \in Live : node[l].lkey = node[m].lkey => l = m
    /\ \A l \in Live : Tiled(l)
    /\ \A l, m \in Live : ~Overlap(l, m)

(* A buffer holds keys of its node's range. *)
InNode(k, l) == node[l].lkey <= k /\ k < node[l].hkey
GoodRec(r, l) == r \in RecT /\ r.val \in ValsOf(r.key) /\ InNode(r.key, l)
BufInv ==
    \A l \in Live : /\ Len(node[l].buf) <= BufferCapacity
                    /\ \A i \in 1 .. Len(node[l].buf) : GoodRec(node[l].buf[i], l)

(* The headers of the leaves agree with the nodes, but for the one that is  *)
(* being split or merged.                                                   *)
NextIs(next, hkey) ==
    IF hkey = MaxKey THEN next = TailLeaf ELSE next \in Live /\ node[next].lkey = hkey

SplitLink(n, new) ==
    /\ new \in 1 .. leaves /\ new \notin Live
    /\ mem[new].lkey \in Keys /\ node[n].lkey < mem[new].lkey /\ mem[new].lkey < node[n].hkey
    /\ mem[n].hkey = mem[new].lkey /\ mem[n].next = new
    /\ mem[new].hkey = node[n].hkey /\ NextIs(mem[new].next, node[n].hkey)
MergeLink(n, r) ==
    /\ r # n /\ node[n].hkey # MaxKey /\ node[r].lkey = node[n].hkey
    /\ mem[n].hkey = node[r].hkey /\ NextIs(mem[n].next, node[r].hkey)

Linked(l) == mem[l].hkey = node[l].hkey /\ NextIs(mem[l].next, node[l].hkey)
LinkInv ==
    /\ \A l \in Live : /\ mem[l].lkey = node[l].lkey
                       /\ (l = op.node /\ (InSplit \/ InMerge)) \/ Linked(l)
    /\ InSplit => SplitLink(op.node, op.new)
    /\ InMerge => \E r \in Live : MergeLink(op.node, r)

-----------------------------------------------------------------------------
(* The durable copy of a leaf.                                              *)

(* What is under way at a leaf: keys whose value, or whose cleared bit, is  *)
(* not durable yet; keys that a split may have torn; high keys that the     *)
(* durable header may still have.                                           *)
Busy(l, pcs) == l = op.node /\ op.pc \in pcs
NewVals(l) ==
    IF Busy(l, {"update"}) THEN {op.key}
    ELSE IF Busy(l, {"flush_leaf", "split_left"}) THEN OpRecs ELSE {}
OldBits(l) ==
    IF Busy(l, {"erase"}) THEN {op.key}
    ELSE IF Busy(l, {"split_left"})
         THEN OpRecs \cup {k \in Keys : mem[l].hkey <= k /\ k < node[l].hkey} ELSE {}
TornAt(l)   == crash.torn \cup (IF Busy(l, {"split_left", "split_right", "split_bits"}) THEN OpRecs ELSE {})
OldHkeys(l) == IF Busy(l, {"split_left", "merge_flush"}) THEN {node[l].hkey} ELSE {}

(* m is the volatile copy and p the durable one. *)
LeafOK(x) ==
    /\ x.lkey >= MinKey /\ (x.lkey < x.hkey \/ x.hkey = MaxKey)
    /\ \A i \in Slot : x.slots[i].valid =>
          x.slots[i].key \in Keys /\ x.lkey <= x.slots[i].key /\ x.slots[i].key < x.hkey
Header(m, p, oldHkeys) ==
    /\ p.lkey = m.lkey
    /\ (p.hkey = m.hkey /\ p.next = m.next) \/ p.hkey \in oldHkeys
    /\ oldHkeys # {} /\ p.hkey \notin oldHkeys =>
          \A i \in Slot : p.slots[i].valid => m.slots[i].valid
Durable(m, p, newVals, oldBits) ==
    \A i \in Slot :
        /\ m[i].valid => p[i].key = m[i].key /\ (p[i].val = m[i].val \/ m[i].key \in newVals)
        /\ p[i].valid /\ ~m[i].valid => p[i].key \in oldBits /\ m[i].key \in oldBits
        /\ m[i].valid /\ ~p[i].valid => \A j \in Slot : m[j].valid /\ m[j].key = m[i].key => j = i
Written(s, torn) == s.key \in Keys /\ (s.val \in ValsOf(s.key) \/ s.key \in torn)
Values(m, p, torn) ==
    \A i \in Slot :
        /\ m[i].valid \/ p[i].valid => Written(m[i], torn) /\ Written(p[i], torn)
        /\ p[i].valid /\ ~m[i].valid => m[i].key = p[i].key \/ m[i].key \in torn
LeafState(m, p, newVals, oldBits, torn, oldHkeys) ==
    /\ LeafOK(m) /\ LeafOK(p) /\ Header(m, p, oldHkeys)
    /\ Durable(m.slots, p.slots, newVals, oldBits)
    /\ Values(m.slots, p.slots, torn)
LeafInv(l) ==
    /\ l \in 1 .. leaves
    /\ LeafState(mem[l], pmem[l], NewVals(l), OldBits(l), TornAt(l), OldHkeys(l))

(* Leaves that a node, an entry or a job refers to. *)
Known == Live \cup {e.leaf : e \in index \cup weak} \cup {jobs[i].leaf : i \in 1 .. Len(jobs)}

LeavesInv == \A l \in Known : LeafInv(l)

-----------------------------------------------------------------------------
(* The call that is running. *)
Filed(slots, x) ==
    slots \in SlotsT /\ \A i \in Slot : slots[i].valid =>
        Written(slots[i], crash.torn) /\ x.lkey <= slots[i].key /\ slots[i].key < x.hkey

OpTypes ==
    /\ op.node \in Live /\ op.key \in Keys /\ InNode(op.key, op.node)
    /\ op.recs \in Seq(RecT)
    /\ \A i \in 1 .. Len(op.recs) :
          GoodRec(op.recs[i], op.node) /\ op.recs[i].key \in {op.key} \cup BufKeys(op.node)
Updates(m, p, k) ==
    /\ Match(m, k) # {}
    /\ \A i \in Slot : m[i].valid /\ p[i].val # m[i].val => i = Lowest(Match(m, k))
Fills(m) ==
    /\ op.val \in ValsOf(op.key) /\ Match(m, op.key) = {}
    /\ \E i \in Slot : m[i].key = op.key /\ m[i].val = op.val
OpInv ==
    /\ DOMAIN op = DOMAIN NoOp
    /\ op.pc \in {"idle", "flush_leaf", "flush_bits", "update", "fill", "erase", "merge",
                  "merge_flush", "merge_bits", "removed", "split_left", "split_right", "split_bits"}
    /\ op.pc # "idle" => OpTypes
    /\ op.pc = "update" => Updates(mem[op.node].slots, pmem[op.node].slots, op.key)
    /\ op.pc = "fill" => Fills(mem[op.node].slots)
    /\ InSplit => /\ op.new \notin Known
                  /\ Filed(op.left, mem[op.node]) /\ Filed(op.right, mem[op.new])
    /\ InMerge => Filed(op.left, mem[op.node])
    /\ op.pc \in {"flush_bits", "split_right", "split_bits", "merge_bits"} =>
          pmem[op.node] = mem[op.node]

-----------------------------------------------------------------------------
(* The jobs of a low key bring the index from what it holds to what the     *)
(* middle layer has, unless two of them changed places.                     *)
SameKey(i, j) == jobs[i].key = jobs[j].key
FirstJob(i)   == \A j \in 1 .. i - 1 : ~SameKey(i, j)
LastJob(i)    == \A j \in i + 1 .. Len(jobs) : ~SameKey(i, j)
NextJob(i, j) == i < j /\ SameKey(i, j) /\ \A h \in i + 1 .. j - 1 : ~SameKey(i, h)
NoJob(k)      == \A i \in 1 .. Len(jobs) : jobs[i].key # k

FirstOK(i) ==
    /\ \A e \in index : e.key = jobs[i].key => jobs[i].name = "remove" /\ e.leaf = jobs[i].leaf
    /\ jobs[i].name = "remove" => Entry(jobs[i].key, jobs[i].leaf) \in index
LastOK(i) ==
    IF jobs[i].name = "insert" THEN jobs[i].leaf \in Live
    ELSE \A l \in Live : node[l].lkey # jobs[i].key
NextOK(i, j) ==
    IF jobs[i].name = "insert" THEN jobs[j].name = "remove" /\ jobs[j].leaf = jobs[i].leaf
    ELSE jobs[j].name = "insert"

JobInv ==
    /\ \A e \in index \cup weak : e.key = mem[e.leaf].lkey
    /\ \A i \in 1 .. Len(jobs) : jobs[i].key = mem[jobs[i].leaf].lkey
    /\ \A i \in 1 .. Len(jobs) : jobs[i].key \notin mixed =>
          /\ FirstJob(i) => FirstOK(i)
          /\ LastJob(i) => LastOK(i)
          /\ \A j \in 1 .. Len(jobs) : NextJob(i, j) => NextOK(i, j)
    /\ \A e \in index : e.key \notin mixed /\ NoJob(e.key) => e.leaf \in Live
    /\ \A l \in Live : node[l].lkey \notin mixed /\ NoJob(node[l].lkey) =>
          Entry(node[l].lkey, l) \in index

-----------------------------------------------------------------------------
(* After a crash: an entry leads the keys from its own to the next entry,   *)
(* and outside the loose keys it leads them to what lookups answered.       *)
Leads(e, k) == e \in index /\ e.key <= k /\ \A d \in index : d.key <= k => d.key <= e.key
UniqueKeys  == \A d, e \in index : d.key = e.key => d = e
Answers(e, k) ==
    /\ k < mem[e.leaf].hkey
    /\ \/ LeafLookup(mem[e.leaf].slots, k) = crash.answers[k]
       \/ k \in crash.gone /\ LeafLookup(mem[e.leaf].slots, k) = NoVal
IndexTiles ==
    /\ \A e \in index :
          IF mem[e.leaf].hkey = MaxKey THEN mem[e.leaf].next = TailLeaf
          ELSE \E d \in index : d.leaf = mem[e.leaf].next /\ d.key = mem[e.leaf].hkey
    /\ \A d, e \in index : ~(d.key < e.key /\ e.key < mem[d.leaf].hkey)
    /\ \E e \in index : e.key = MinKey

GoodEntry(e) ==
    /\ e.leaf \in 1 .. leaves /\ e.key = mem[e.leaf].lkey /\ LeafOK(mem[e.leaf])
    /\ Values(mem[e.leaf].slots, mem[e.leaf].slots, crash.torn)
DownInv ==
    /\ mem = pmem /\ weak = {} /\ jobs = <<>> /\ mixed = {} /\ op = NoOp
    /\ \A e \in index : GoodEntry(e)
    /\ \A k \in Keys \ crash.loose : /\ \E e \in index : Leads(e, k)
                                     /\ \A e \in index : Leads(e, k) => Answers(e, k)
    /\ crash.settled => IndexTiles

UpInv == TileInv /\ BufInv /\ LinkInv /\ LeavesInv /\ OpInv /\ JobInv
IInv ==
    /\ TypeInv
    /\ mode = "up" => UpInv
    /\ mode # "up" => DownInv
    /\ mode = "recovered" => UniqueKeys /\ node = Recover

-----------------------------------------------------------------------------
(* The operations of a leaf, slot by slot. *)

(* A slot keeps its record or gets one of recs; a valid one keeps its key.  *)
Refilled(new, leaf, recs) ==
    \A i \in Slot :
        \/ new[i] = leaf[i]
        \/ \E n \in 1 .. Len(recs) : new[i] = recs[n] /\ (leaf[i].valid => recs[n].key = leaf[i].key)

(* The picked elements are elements of the sequence.                        *)
LEMMA PickFrom ==
    ASSUME NEW T, NEW recs \in Seq(T), NEW P \in SUBSET (1 .. Len(recs))
    PROVE  LET new == Pick(recs, P)
           IN  /\ new \in Seq(T) /\ Len(new) <= Len(recs) /\ Len(new) \in Nat
               /\ \A n \in 1 .. Len(new) : \E i \in P : new[n] = recs[i]
<1>1. Pick(recs, P) \in Seq(T) /\ Len(Pick(recs, P)) = Cardinality(P) /\ Cardinality(P) <= Len(recs)
  BY PickIs
<1>2. \A n \in 1 .. Cardinality(P) : \E i \in P : Pick(recs, P)[n] = recs[i]
  BY PickIs
<1> QED
  BY <1>1, <1>2

(* FillEmptySlots puts records into slots that are not valid. *)
LEMMA FillRefills ==
    ASSUME NEW K, NEW V, NEW leaf \in LeafOf(K, V), NEW recs \in Seq(RecOf(K, V))
    PROVE  LET new == FillEmptySlots(leaf, recs)
           IN  /\ new \in LeafOf(K, V)
               /\ \A i \in Slot : \/ new[i] = leaf[i]
                                  \/ ~leaf[i].valid /\ \E n \in 1 .. Len(recs) : new[i] = recs[n]
<1> DEFINE new == FillEmptySlots(leaf, recs)
           rank(i) == Cardinality({j \in EmptyBitSet(leaf) : j <= i})
<1>1. \A i \in Slot : new[i] = IF ~leaf[i].valid /\ rank(i) <= Len(recs) THEN recs[rank(i)] ELSE leaf[i]
  BY DEF FillEmptySlots
<1>2. new \in LeafOf(K, V)
  BY FillSlots
<1>3. ASSUME NEW i \in Slot, ~leaf[i].valid
      PROVE  rank(i) \in Nat /\ rank(i) >= 1
  <2>1. {j \in EmptyBitSet(leaf) : j <= i} \in SUBSET Slot /\ i \in {j \in EmptyBitSet(leaf) : j <= i}
    BY <1>3, SlotsFinite, LeafSets
  <2>2. IsFiniteSet({j \in EmptyBitSet(leaf) : j <= i}) /\ rank(i) \in Nat
    BY <2>1, SlotsFinite
  <2>3. rank(i) # 0
    BY <2>1, <2>2, FS_EmptySet
  <2> QED
    BY <2>2, <2>3
<1> HIDE DEF new, rank
<1>4. ASSUME NEW i \in Slot
      PROVE  \/ new[i] = leaf[i]
             \/ ~leaf[i].valid /\ \E n \in 1 .. Len(recs) : new[i] = recs[n]
  <2>1. CASE ~leaf[i].valid /\ rank(i) <= Len(recs)
    <3>1. rank(i) \in 1 .. Len(recs)
      BY <1>3, <2>1
    <3> QED
      BY <1>1, <2>1, <3>1
  <2> QED
    BY <1>1, <2>1
<1> QED
  BY <1>2, <1>4 DEF new

(* The batch writer of Insert. *)
LEMMA BatchRefills ==
    ASSUME NEW K, NEW V, NEW leaf \in LeafOf(K, V), NEW recs \in Seq(RecOf(K, V))
    PROVE  InsertBatch(leaf, recs) \in LeafOf(K, V) /\ Refilled(InsertBatch(leaf, recs), leaf, recs)
<1> DEFINE mid  == OverwriteSlots(leaf, recs)
           P    == {n \in 1 .. Len(recs) : Match(leaf, recs[n].key) = {}}
           rest == Pick(recs, P)
           new  == FillEmptySlots(mid, rest)
           hits(i) == {n \in 1 .. Len(recs) : /\ i \in Match(leaf, recs[n].key)
                                              /\ i = Lowest(Match(leaf, recs[n].key))}
<1>0. InsertBatch(leaf, recs) = new
  BY DEF InsertBatch
<1>1. \A i \in Slot : mid[i] = IF hits(i) = {} THEN leaf[i] ELSE recs[Lowest(hits(i))]
  BY DEF OverwriteSlots
<1>2. ASSUME NEW i \in Slot, hits(i) # {}
      PROVE  LET n == Lowest(hits(i)) IN n \in 1 .. Len(recs) /\ leaf[i].valid /\ recs[n].key = leaf[i].key
  <2>1. hits(i) \in SUBSET (1 .. Len(recs)) /\ Len(recs) \in Nat
    OBVIOUS
  <2> HIDE DEF hits
  <2>2. hits(i) \in SUBSET Nat /\ IsFiniteSet(hits(i))
    <3>1. IsFiniteSet(1 .. Len(recs)) /\ 1 .. Len(recs) \subseteq Nat
      BY <2>1, FS_Interval
    <3> QED
      BY <2>1, <3>1, FS_Subset
  <2>3. Lowest(hits(i)) \in hits(i)
    BY <1>2, <2>2, LowestIs
  <2>4. \A n \in hits(i) : n \in 1 .. Len(recs) /\ i \in Match(leaf, recs[n].key)
    BY DEF hits
  <2> QED
    BY <2>3, <2>4 DEF Match, ValidBitSet
<1> HIDE DEF hits
<1>3. \A n \in 1 .. Len(recs) : recs[n] \in RecOf(K, V) /\ recs[n] \in Slots(K, V) /\ recs[n].valid
  <2>1. \A n \in 1 .. Len(recs) : recs[n] \in RecOf(K, V)
    OBVIOUS
  <2>2. \A r \in RecOf(K, V) : r \in Slots(K, V) /\ r.valid
    BY DEF RecOf, Slots
  <2> QED
    BY <2>1, <2>2
<1>4. \A i \in Slot : leaf[i] \in Slots(K, V)
  BY DEF LeafOf
<1>5. \A i \in Slot : mid[i] \in Slots(K, V)
  BY <1>1, <1>2, <1>3, <1>4
<1>6. mid \in LeafOf(K, V)
  BY <1>5 DEF OverwriteSlots, LeafOf
<1>7. rest \in Seq(RecOf(K, V)) /\ \A n \in 1 .. Len(rest) : \E m \in 1 .. Len(recs) : rest[n] = recs[m]
  <2>1. P \in SUBSET (1 .. Len(recs))
    OBVIOUS
  <2> HIDE DEF P
  <2> QED
    BY <2>1, PickFrom
<1> HIDE DEF mid, rest
<1>8. /\ new \in LeafOf(K, V)
      /\ \A i \in Slot : \/ new[i] = mid[i]
                         \/ ~mid[i].valid /\ \E n \in 1 .. Len(rest) : new[i] = rest[n]
  BY <1>6, <1>7, FillRefills
<1> HIDE DEF new
<1>9. ASSUME NEW i \in Slot
      PROVE  \/ new[i] = leaf[i]
             \/ \E n \in 1 .. Len(recs) : new[i] = recs[n] /\ (leaf[i].valid => recs[n].key = leaf[i].key)
  <2>1. CASE new[i] = mid[i]
    BY <1>1, <1>2, <2>1
  <2>2. CASE ~mid[i].valid /\ \E n \in 1 .. Len(rest) : new[i] = rest[n]
    <3>1. ~leaf[i].valid
      BY <1>1, <1>2, <1>3, <2>2
    <3> QED
      BY <1>7, <2>2, <3>1
  <2> QED
    BY <1>8, <2>1, <2>2
<1> QED
  BY <1>0, <1>8, <1>9 DEF Refilled

(* The bits that Split clears in the left half.                             *)
Kept(leaf) == [i \in Slot |-> [leaf[i] EXCEPT !.valid = @ /\ leaf[i].key < Median(leaf)]]

(* Split first clears the bits of the records from the median on.           *)
LEMMA KeptIs ==
    ASSUME NEW K, NEW V, 0 \in K, NoVal \in V, NEW leaf \in LeafOf(K, V)
    PROVE  /\ Kept(leaf) \in LeafOf(K, V)
           /\ \A i \in Slot : /\ Kept(leaf)[i].key = leaf[i].key /\ Kept(leaf)[i].val = leaf[i].val
                              /\ Kept(leaf)[i].valid <=> leaf[i].valid /\ leaf[i].key < Median(leaf)
<1>1. \A i \in Slot : leaf[i] \in Slots(K, V)
  BY DEF LeafOf
<1>2. ASSUME NEW i \in Slot
      PROVE  /\ [leaf[i] EXCEPT !.valid = @ /\ leaf[i].key < Median(leaf)] \in Slots(K, V)
             /\ Kept(leaf)[i] = [leaf[i] EXCEPT !.valid = @ /\ leaf[i].key < Median(leaf)]
             /\ Kept(leaf)[i].key = leaf[i].key /\ Kept(leaf)[i].val = leaf[i].val
             /\ Kept(leaf)[i].valid <=> leaf[i].valid /\ leaf[i].key < Median(leaf)
  <2>1. leaf[i] \in Slots(K, V)
    BY <1>1
  <2>2. Kept(leaf)[i] = [leaf[i] EXCEPT !.valid = @ /\ leaf[i].key < Median(leaf)]
    BY DEF Kept
  <2>3. leaf[i] \in [key : K, val : V, valid : BOOLEAN]
    <3>1. NoRec \in [key : K, val : V, valid : BOOLEAN]
      BY DEF NoRec
    <3> QED
      BY <2>1, <3>1 DEF Slots
  <2> QED
    BY <2>2, <2>3 DEF Slots
<1> QED
  BY <1>2 DEF Kept, LeafOf

(* What Split leaves in the left half: a kept record, or one of the buffer  *)
(* below the median.                                                        *)
LEMMA SplitLeftRefills ==
    ASSUME NEW K, NEW V, 0 \in K, NoVal \in V, NEW leaf \in LeafOf(K, V), NEW recs \in Seq(RecOf(K, V))
    PROVE  LET new == SplitLeft(leaf, recs)
           IN  /\ new \in LeafOf(K, V)
               /\ \A i \in Slot :
                     \/ new[i] = Kept(leaf)[i]
                     \/ \E n \in 1 .. Len(recs) :
                           /\ new[i] = recs[n] /\ recs[n].key < Median(leaf)
                           /\ Kept(leaf)[i].valid => recs[n].key = leaf[i].key
<1> DEFINE below == Below(recs, Median(leaf))
           P == {n \in 1 .. Len(recs) : recs[n].key < Median(leaf)}
<1>1. below \in Seq(RecOf(K, V)) /\ \A n \in 1 .. Len(below) : \E m \in P : below[n] = recs[m]
  <2>1. P \in SUBSET (1 .. Len(recs)) /\ below = Pick(recs, P)
    BY DEF Below
  <2> HIDE DEF P, below
  <2>2. /\ Pick(recs, P) \in Seq(RecOf(K, V))
        /\ \A n \in 1 .. Len(Pick(recs, P)) : \E m \in P : Pick(recs, P)[n] = recs[m]
    BY <2>1, PickFrom
  <2> QED
    BY <2>1, <2>2
<1>2. SplitLeft(leaf, recs) = InsertBatch(Kept(leaf), below)
  BY DEF SplitLeft, Kept
<1> HIDE DEF below
<1>3. Kept(leaf) \in LeafOf(K, V)
  BY KeptIs
<1>4. /\ SplitLeft(leaf, recs) \in LeafOf(K, V)
      /\ Refilled(SplitLeft(leaf, recs), Kept(leaf), below)
  BY <1>1, <1>2, <1>3, BatchRefills
<1>5. \A i \in Slot : Kept(leaf)[i].key = leaf[i].key
  BY KeptIs
<1> QED
  BY <1>1, <1>4, <1>5 DEF Refilled

(* The median is a key of the leaf. *)
LEMMA MedianKey ==
    ASSUME NEW K \in SUBSET Nat, NEW V, NEW leaf \in LeafOf(K, V), Count(leaf) >= 1
    PROVE  \E i \in ValidBitSet(leaf) : Median(leaf) = leaf[i].key
<1>1. Count(leaf) \in Nat
  BY LeafSets
<1>2. Count(leaf) \div 2 + 1 \in 1 .. Count(leaf)
  BY <1>1
<1>3. SortedSlots(leaf)[Count(leaf) \div 2 + 1] \in ValidBitSet(leaf)
  BY <1>2, SortedSlotsIs
<1> QED
  BY <1>3 DEF Median

(* The right half gets the records of the leaf from the median on, and the  *)
(* new records from the median on.                                          *)
LEMMA SplitRightSlots ==
    ASSUME NEW K \in SUBSET Nat, NEW V, NEW leaf \in LeafOf(K, V), NEW recs \in Seq(RecOf(K, V))
    PROVE  LET new == SplitRight(leaf, recs)
           IN  /\ new \in LeafOf(K, V)
               /\ \A i \in Slot : new[i].valid =>
                     \/ \E j \in ValidBitSet(leaf) : new[i] = leaf[j] /\ leaf[j].key >= Median(leaf)
                     \/ \E n \in 1 .. Len(recs) : new[i] = recs[n] /\ recs[n].key >= Median(leaf)
<1> DEFINE s       == SortedSlots(leaf)
           sorted  == [n \in 1 .. Count(leaf) |-> leaf[s[n]]]
           P       == {n \in 1 .. Len(sorted) : sorted[n].key >= Median(leaf)}
           Q       == {n \in 1 .. Len(recs) : recs[n].key >= Median(leaf)}
           shifted == Pick(sorted, P)
           more    == Pick(recs, Q)
           new     == FillEmptySlots(EmptyLeaf, shifted \o more)
<1>0. SplitRight(leaf, recs) = new
  BY DEF SplitRight, AtLeast
<1>1. Count(leaf) \in Nat
  BY LeafSets
<1>2. \A n \in 1 .. Count(leaf) : s[n] \in ValidBitSet(leaf) /\ leaf[s[n]] \in RecOf(K, V)
  BY SortedSlotsIs, LeafSets
<1>3. sorted \in Seq(RecOf(K, V)) /\ Len(sorted) = Count(leaf)
  BY <1>1, <1>2
<1>4. \A n \in 1 .. Len(sorted) : sorted[n] = leaf[s[n]] /\ s[n] \in ValidBitSet(leaf)
  BY <1>2, <1>3
<1>5. P \in SUBSET (1 .. Len(sorted)) /\ \A n \in P : sorted[n].key >= Median(leaf)
  OBVIOUS
<1>6. Q \in SUBSET (1 .. Len(recs)) /\ \A n \in Q : recs[n].key >= Median(leaf)
  OBVIOUS
<1> HIDE DEF P, Q, sorted
<1>7. /\ shifted \in Seq(RecOf(K, V))
      /\ \A n \in 1 .. Len(shifted) : \E m \in P : shifted[n] = sorted[m]
  BY <1>3, <1>5, PickFrom
<1>8. /\ more \in Seq(RecOf(K, V))
      /\ \A n \in 1 .. Len(more) : \E m \in Q : more[n] = recs[m]
  BY <1>6, PickFrom
<1> HIDE DEF shifted, more
<1>9. shifted \o more \in Seq(RecOf(K, V))
  BY <1>7, <1>8
<1>10. \A n \in 1 .. Len(shifted \o more) :
          \/ \E m \in 1 .. Len(shifted) : (shifted \o more)[n] = shifted[m]
          \/ \E m \in 1 .. Len(more) : (shifted \o more)[n] = more[m]
  <2> SUFFICES ASSUME NEW n \in 1 .. Len(shifted \o more)
               PROVE  \/ \E m \in 1 .. Len(shifted) : (shifted \o more)[n] = shifted[m]
                      \/ \E m \in 1 .. Len(more) : (shifted \o more)[n] = more[m]
    OBVIOUS
  <2>1. Len(shifted \o more) = Len(shifted) + Len(more) /\ Len(shifted) \in Nat /\ Len(more) \in Nat
    BY <1>7, <1>8
  <2>2. CASE n <= Len(shifted)
    BY <1>7, <1>8, <2>1, <2>2
  <2>3. CASE n > Len(shifted)
    <3>1. n - Len(shifted) \in 1 .. Len(more) /\ (shifted \o more)[n] = more[n - Len(shifted)]
      BY <1>7, <1>8, <2>1, <2>3
    <3> QED
      BY <3>1
  <2> QED
    BY <2>1, <2>2, <2>3
<1>11. EmptyLeaf \in LeafOf(K, V) /\ \A i \in Slot : ~EmptyLeaf[i].valid
  BY EmptyLeafIs DEF EmptyLeaf, NoRec
<1>12. /\ new \in LeafOf(K, V)
       /\ \A i \in Slot : \/ new[i] = EmptyLeaf[i]
                          \/ \E n \in 1 .. Len(shifted \o more) : new[i] = (shifted \o more)[n]
  <2> DEFINE all == shifted \o more
  <2>1. all \in Seq(RecOf(K, V))
    BY <1>9
  <2> HIDE DEF all
  <2>2. /\ FillEmptySlots(EmptyLeaf, all) \in LeafOf(K, V)
        /\ \A i \in Slot : \/ FillEmptySlots(EmptyLeaf, all)[i] = EmptyLeaf[i]
                           \/ \E n \in 1 .. Len(all) : FillEmptySlots(EmptyLeaf, all)[i] = all[n]
    BY <1>11, <2>1, FillRefills
  <2> QED
    BY <2>2 DEF all
<1> HIDE DEF new
<1>13. ASSUME NEW i \in Slot, new[i].valid
       PROVE  \/ \E j \in ValidBitSet(leaf) : new[i] = leaf[j] /\ leaf[j].key >= Median(leaf)
              \/ \E n \in 1 .. Len(recs) : new[i] = recs[n] /\ recs[n].key >= Median(leaf)
  <2>1. PICK n \in 1 .. Len(shifted \o more) : new[i] = (shifted \o more)[n]
    BY <1>11, <1>12, <1>13
  <2>2. CASE \E m \in 1 .. Len(shifted) : (shifted \o more)[n] = shifted[m]
    <3>1. PICK m \in 1 .. Len(shifted) : (shifted \o more)[n] = shifted[m]
      BY <2>2
    <3>2. PICK h \in P : shifted[m] = sorted[h]
      BY <1>7
    <3>3. sorted[h] = leaf[s[h]] /\ s[h] \in ValidBitSet(leaf) /\ sorted[h].key >= Median(leaf)
      BY <1>4, <1>5
    <3>4. new[i] = leaf[s[h]]
      BY <2>1, <3>1, <3>2, <3>3
    <3> QED
      BY <3>3, <3>4
  <2>3. CASE \E m \in 1 .. Len(more) : (shifted \o more)[n] = more[m]
    BY <1>6, <1>8, <2>1, <2>3
  <2> QED
    BY <1>10, <2>2, <2>3
<1> QED
  BY <1>0, <1>12, <1>13

(* Merge puts the records of the right leaf into slots that are not valid.  *)
LEMMA MergeRefills ==
    ASSUME NEW K, NEW V, NEW leaf \in LeafOf(K, V), NEW right \in LeafOf(K, V)
    PROVE  LET new == LeafMerge(leaf, right)
           IN  /\ new \in LeafOf(K, V)
               /\ \A i \in Slot :
                     \/ new[i] = leaf[i]
                     \/ ~leaf[i].valid /\ \E j \in ValidBitSet(right) : new[i] = right[j]
<1> DEFINE recs == Records(right)
           B == ValidBitSet(right)
<1>1. B \in SUBSET Nat /\ IsFiniteSet(B) /\ Cardinality(B) = Count(right) /\ Count(right) \in Nat
  BY LeafSets, SlotsFinite DEF Count
<1>2. \A n \in 1 .. Count(right) : Nth(B, n) \in B /\ right[Nth(B, n)] \in RecOf(K, V)
  <2> HIDE DEF B
  <2>1. \A n \in 1 .. Cardinality(B) : Nth(B, n) \in B
    BY <1>1, NthIs
  <2>2. \A i \in B : right[i] \in RecOf(K, V)
    BY LeafSets DEF B
  <2> QED
    BY <1>1, <2>1, <2>2
<1>3. recs = [n \in 1 .. Count(right) |-> right[Nth(B, n)]]
  BY DEF Records
<1> HIDE DEF recs, B
<1>4. recs \in Seq(RecOf(K, V)) /\ Len(recs) = Count(right)
  BY <1>1, <1>2, <1>3
<1>5. \A n \in 1 .. Len(recs) : \E j \in B : recs[n] = right[j]
  BY <1>2, <1>3, <1>4
<1>6. LeafMerge(leaf, right) = FillEmptySlots(leaf, recs)
  BY DEF LeafMerge, recs
<1>7. /\ FillEmptySlots(leaf, recs) \in LeafOf(K, V)
      /\ \A i \in Slot : \/ FillEmptySlots(leaf, recs)[i] = leaf[i]
                         \/ /\ ~leaf[i].valid
                            /\ \E n \in 1 .. Len(recs) : FillEmptySlots(leaf, recs)[i] = recs[n]
  BY <1>4, FillRefills
<1> QED
  BY <1>5, <1>6, <1>7 DEF B

-----------------------------------------------------------------------------
(* Types. *)

(* What the assumptions say of the constants.                               *)
LEMMA ConstFacts ==
    /\ MaxKey \in Nat /\ Keys \subseteq Nat /\ Keys \subseteq K0 /\ K0 \in SUBSET Nat
    /\ 0 \in K0 /\ NoVal \in Vals /\ MinKey = 1 /\ TailLeaf = 0
    /\ \A k \in Keys : MinKey <= k /\ k < MaxKey
    /\ \A k \in Keys : ValsOf(k) \subseteq Vals
    /\ RecT \subseteq RecOf(K0, Vals)
    /\ \A k \in Keys : \A v \in ValsOf(k) : Rec(k, v) \in RecT
<1>1. \A k \in Keys : k \in MinKey .. (MaxKey - 1)
  BY KeysAssumption
<1>2. MaxKey \in Nat
  BY KeysAssumption
<1>3. \A k \in Keys : k \in Nat /\ MinKey <= k /\ k < MaxKey
  BY <1>1, <1>2 DEF MinKey
<1>4. \A k \in Keys : ValsOf(k) \subseteq Vals
  BY DEF Vals
<1>5. \A k \in Keys : \A v \in ValsOf(k) : Rec(k, v) \in RecT
  BY <1>4 DEF Rec, RecT, RecOf
<1>6. RecT \subseteq RecOf(K0, Vals)
  BY DEF RecT, RecOf, K0
<1> QED
  BY <1>2, <1>3, <1>4, <1>5, <1>6 DEF K0, Vals, MinKey, TailLeaf

(* The slots of a leaf are typed the same whether they are valid or not.    *)
LEMMA SlotType == SlotsT = [Slot -> [key : K0, val : Vals, valid : BOOLEAN]]
<1>1. NoRec \in [key : K0, val : Vals, valid : BOOLEAN]
  BY ConstFacts DEF NoRec
<1> QED
  BY <1>1 DEF SlotsT, LeafOf, Slots

(* One slot.                                                                *)
LEMMA SlotIs ==
    ASSUME NEW s \in SlotsT, NEW i \in Slot
    PROVE  /\ s[i] \in [key : K0, val : Vals, valid : BOOLEAN]
           /\ s[i].key \in Nat /\ s[i].key \in K0 /\ s[i].val \in Vals /\ s[i].valid \in BOOLEAN
           /\ s[i].valid <=> i \in ValidBitSet(s)
  BY SlotType, ConstFacts DEF ValidBitSet

(* Unset takes the records of the final leaf and the bits of the old one.   *)
LEMMA UnsetIs ==
    ASSUME NEW leaf \in SlotsT, NEW final \in SlotsT
    PROVE  /\ Unset(leaf, final) \in SlotsT
           /\ \A i \in Slot : /\ Unset(leaf, final)[i].key = final[i].key
                              /\ Unset(leaf, final)[i].val = final[i].val
                              /\ Unset(leaf, final)[i].valid = leaf[i].valid
<1>1. \A i \in Slot : /\ final[i] \in [key : K0, val : Vals, valid : BOOLEAN]
                      /\ leaf[i].valid \in BOOLEAN
  BY SlotIs
<1>2. \A i \in Slot : Unset(leaf, final)[i] = [final[i] EXCEPT !.valid = leaf[i].valid]
  BY DEF Unset
<1>3. \A i \in Slot : Unset(leaf, final)[i] \in [key : K0, val : Vals, valid : BOOLEAN]
  BY <1>1, <1>2
<1>4. Unset(leaf, final) \in SlotsT
  BY <1>3, SlotType DEF Unset
<1> QED
  BY <1>1, <1>2, <1>4

(* The slot that a lookup finds.                                            *)
LEMMA MatchLowest ==
    ASSUME NEW leaf, NEW k, Match(leaf, k) # {}
    PROVE  LET i == Lowest(Match(leaf, k))
           IN  /\ i \in Slot /\ leaf[i].valid /\ leaf[i].key = k
               /\ \A j \in Match(leaf, k) : i <= j
<1>1. /\ Match(leaf, k) \in SUBSET Slot
      /\ \A i \in Match(leaf, k) : leaf[i].valid /\ leaf[i].key = k
  BY DEF Match, ValidBitSet
<1>2. Slot \in SUBSET Nat /\ IsFiniteSet(Slot)
  BY LeafCapacityAssumption, FS_Interval DEF Slot
<1>3. Match(leaf, k) \in SUBSET Nat /\ IsFiniteSet(Match(leaf, k))
  BY <1>1, <1>2, FS_Subset
<1> HIDE DEF Match
<1> QED
  BY <1>1, <1>3, LowestIs

(* Insert changes the value of the first slot with the key, or fills the    *)
(* first slot that is not valid.                                            *)
LEMMA InsertSlots ==
    ASSUME NEW leaf \in SlotsT, NEW k \in Keys, NEW v \in ValsOf(k)
    PROVE  /\ Match(leaf, k) # {} =>
                 LET i == Lowest(Match(leaf, k))
                 IN  /\ i \in Slot /\ leaf[i].valid /\ leaf[i].key = k
                     /\ LeafInsert(leaf, k, v) = [leaf EXCEPT ![i].val = v]
                     /\ LeafInsert(leaf, k, v) \in SlotsT
           /\ Match(leaf, k) = {} /\ EmptyBitSet(leaf) # {} =>
                 LET i == Lowest(EmptyBitSet(leaf))
                 IN  /\ i \in Slot /\ ~leaf[i].valid
                     /\ LeafInsert(leaf, k, v) = [leaf EXCEPT ![i] = Rec(k, v)]
                     /\ LeafInsert(leaf, k, v) \in SlotsT
<1>1. /\ Match(leaf, k) \in SUBSET Slot /\ EmptyBitSet(leaf) \in SUBSET Slot
      /\ \A i \in Match(leaf, k) : leaf[i].valid /\ leaf[i].key = k
      /\ \A i \in EmptyBitSet(leaf) : ~leaf[i].valid
  BY DEF Match, EmptyBitSet, ValidBitSet
<1>2. ASSUME Match(leaf, k) # {}
      PROVE  LET i == Lowest(Match(leaf, k))
             IN  /\ i \in Slot /\ leaf[i].valid /\ leaf[i].key = k
                 /\ LeafInsert(leaf, k, v) = [leaf EXCEPT ![i].val = v]
                 /\ LeafInsert(leaf, k, v) \in SlotsT
  <2> DEFINE i == Lowest(Match(leaf, k))
  <2>1. i \in Match(leaf, k)
    BY <1>1, <1>2, LowestIs, SlotsFinite
  <2>2. LeafInsert(leaf, k, v) = [leaf EXCEPT ![i].val = v]
    BY <1>2 DEF LeafInsert
  <2> HIDE DEF i
  <2>3. v \in Vals /\ i \in Slot
    BY <1>1, <2>1, ConstFacts
  <2>4. [leaf EXCEPT ![i].val = v] \in SlotsT
    BY <2>3, SlotType
  <2> QED
    BY <1>1, <2>1, <2>2, <2>4 DEF i
<1>3. ASSUME Match(leaf, k) = {}, EmptyBitSet(leaf) # {}
      PROVE  LET i == Lowest(EmptyBitSet(leaf))
             IN  /\ i \in Slot /\ ~leaf[i].valid
                 /\ LeafInsert(leaf, k, v) = [leaf EXCEPT ![i] = Rec(k, v)]
                 /\ LeafInsert(leaf, k, v) \in SlotsT
  <2> DEFINE i == Lowest(EmptyBitSet(leaf))
  <2>1. i \in EmptyBitSet(leaf)
    BY <1>1, <1>3, LowestIs, SlotsFinite
  <2>2. LeafInsert(leaf, k, v) = [leaf EXCEPT ![i] = Rec(k, v)]
    BY <1>3 DEF LeafInsert
  <2> HIDE DEF i
  <2>3. Rec(k, v) \in [key : K0, val : Vals, valid : BOOLEAN] /\ i \in Slot
    BY <1>1, <2>1, ConstFacts DEF Rec
  <2>4. [leaf EXCEPT ![i] = Rec(k, v)] \in SlotsT
    BY <2>3, SlotType
  <2> QED
    BY <1>1, <2>1, <2>2, <2>4 DEF i
<1> QED
  BY <1>2, <1>3

(* Remove clears the bit of the first slot with the key.                    *)
LEMMA RemoveSlots ==
    ASSUME NEW leaf \in SlotsT, NEW k, Match(leaf, k) # {}
    PROVE  \E i \in Slot : /\ leaf[i].valid /\ leaf[i].key = k
                           /\ LeafRemove(leaf, k) = [leaf EXCEPT ![i].valid = FALSE]
                           /\ LeafRemove(leaf, k) \in SlotsT
<1>1. /\ Match(leaf, k) \in SUBSET Slot
      /\ \A i \in Match(leaf, k) : leaf[i].valid /\ leaf[i].key = k
  BY DEF Match, ValidBitSet
<1>2. PICK i \in Match(leaf, k) : i = Lowest(Match(leaf, k))
  BY <1>1, LowestIs, SlotsFinite
<1>3. LeafRemove(leaf, k) = [leaf EXCEPT ![i].valid = FALSE]
  BY <1>2 DEF LeafRemove
<1>4. [leaf EXCEPT ![i].valid = FALSE] \in SlotsT
  BY <1>1, SlotType
<1> QED
  BY <1>1, <1>3, <1>4

-----------------------------------------------------------------------------
(* The durable copy of one leaf. *)

(* One leaf.                                                                *)
LEMMA LeafTypes ==
    ASSUME NEW x \in LeafT
    PROVE  /\ x.lkey \in Nat /\ x.hkey \in Nat /\ x.next \in Nat /\ x.slots \in SlotsT
           /\ \A i \in Slot : /\ x.slots[i] \in [key : K0, val : Vals, valid : BOOLEAN]
                              /\ x.slots[i].key \in Nat /\ x.slots[i].valid \in BOOLEAN
<1>1. x.lkey \in Nat /\ x.hkey \in Nat /\ x.next \in Nat /\ x.slots \in SlotsT
  BY DEF LeafT
<1> QED
  BY <1>1, SlotIs

(* The cache writes the first line of a leaf back. *)
LEMMA HeaderWrittenBack ==
    ASSUME NEW m \in LeafT, NEW p \in LeafT, NEW q \in LeafT,
           NEW newVals, NEW oldBits, NEW torn, NEW oldHkeys,
           LeafState(m, p, newVals, oldBits, torn, oldHkeys),
           q.lkey = m.lkey, q.hkey = m.hkey, q.next = m.next,
           \A i \in Slot : /\ q.slots[i].key = p.slots[i].key /\ q.slots[i].val = p.slots[i].val
                           /\ q.slots[i].valid = m.slots[i].valid
    PROVE  /\ LeafState(m, q, newVals, oldBits, torn, oldHkeys)
           /\ LeafState(m, q, newVals, {}, torn, {})
<1>1. /\ \A i \in Slot : m.slots[i].valid \in BOOLEAN /\ p.slots[i].valid \in BOOLEAN
  BY LeafTypes
<1>2. LeafOK(m) /\ LeafOK(p) /\ Durable(m.slots, p.slots, newVals, oldBits)
      /\ Values(m.slots, p.slots, torn)
  BY DEF LeafState
<1>3. LeafOK(q)
  BY <1>1, <1>2 DEF LeafOK, Durable
<1>4. Header(m, q, oldHkeys) /\ Header(m, q, {})
  BY DEF Header
<1>5. Durable(m.slots, q.slots, newVals, oldBits) /\ Durable(m.slots, q.slots, newVals, {})
  BY <1>1, <1>2 DEF Durable
<1>6. Values(m.slots, q.slots, torn)
  BY <1>1, <1>2 DEF Values, Written
<1> QED
  BY <1>2, <1>3, <1>4, <1>5, <1>6 DEF LeafState

(* The cache writes a line of records back, perhaps between the key and the *)
(* value of a record.                                                       *)
LEMMA SlotWrittenBack ==
    ASSUME NEW m \in LeafT, NEW p \in LeafT, NEW q \in LeafT,
           NEW newVals, NEW oldBits, NEW torn, NEW oldHkeys,
           LeafState(m, p, newVals, oldBits, torn, oldHkeys),
           \A k \in oldBits : /\ k \in Keys /\ m.lkey <= k
                              /\ IF oldHkeys = {} THEN k < m.hkey ELSE \A h \in oldHkeys : k < h,
           q.lkey = p.lkey, q.hkey = p.hkey, q.next = p.next,
           \A i \in Slot : /\ q.slots[i].valid = p.slots[i].valid
                           /\ \/ q.slots[i].key = p.slots[i].key /\ q.slots[i].val = p.slots[i].val
                              \/ /\ q.slots[i].key = m.slots[i].key
                                 /\ q.slots[i].val \in {m.slots[i].val, p.slots[i].val}
    PROVE  LeafState(m, q, newVals, oldBits, torn, oldHkeys)
<1>1. /\ \A i \in Slot : m.slots[i].valid \in BOOLEAN /\ p.slots[i].valid \in BOOLEAN
  BY LeafTypes
<1>2. LeafOK(m) /\ LeafOK(p) /\ Durable(m.slots, p.slots, newVals, oldBits)
      /\ Values(m.slots, p.slots, torn) /\ Header(m, p, oldHkeys)
  BY DEF LeafState
<1>3. ASSUME NEW i \in Slot, q.slots[i].valid
      PROVE  q.slots[i].key \in Keys /\ q.lkey <= q.slots[i].key /\ q.slots[i].key < q.hkey
  <2>1. p.slots[i].valid
    BY <1>3
  <2>2. p.slots[i].key \in Keys /\ p.lkey <= p.slots[i].key /\ p.slots[i].key < p.hkey
    BY <1>2, <2>1 DEF LeafOK
  <2>3. CASE q.slots[i].key = p.slots[i].key
    BY <2>2, <2>3
  <2>4. CASE q.slots[i].key = m.slots[i].key /\ m.slots[i].valid
    BY <1>2, <2>2, <2>4 DEF Durable
  <2>5. CASE q.slots[i].key = m.slots[i].key /\ ~m.slots[i].valid
    <3>1. q.slots[i].key \in oldBits
      BY <1>2, <2>1, <2>5 DEF Durable
    <3>2. CASE oldHkeys = {}
      <4>1. p.hkey = m.hkey /\ p.lkey = m.lkey
        BY <1>2, <3>2 DEF Header
      <4> QED
        BY <3>1, <3>2, <4>1
    <3>3. CASE oldHkeys # {}
      <4>1. p.hkey \in oldHkeys /\ p.lkey = m.lkey
        BY <1>2, <2>1, <2>5, <3>3 DEF Header
      <4> QED
        BY <3>1, <3>3, <4>1
    <3> QED
      BY <3>2, <3>3
  <2> QED
    BY <1>1, <2>3, <2>4, <2>5
<1>4. LeafOK(q)
  BY <1>2, <1>3 DEF LeafOK
<1>5. Header(m, q, oldHkeys)
  BY <1>2 DEF Header
<1>6. Durable(m.slots, q.slots, newVals, oldBits)
  <2> SUFFICES ASSUME NEW i \in Slot
               PROVE  /\ m.slots[i].valid => /\ q.slots[i].key = m.slots[i].key
                                             /\ q.slots[i].val = m.slots[i].val \/ m.slots[i].key \in newVals
                      /\ q.slots[i].valid /\ ~m.slots[i].valid =>
                            q.slots[i].key \in oldBits /\ m.slots[i].key \in oldBits
                      /\ m.slots[i].valid /\ ~q.slots[i].valid =>
                            \A j \in Slot : m.slots[j].valid /\ m.slots[j].key = m.slots[i].key => j = i
    BY DEF Durable
  <2> QED
    BY <1>1, <1>2 DEF Durable
<1>7. Values(m.slots, q.slots, torn)
  <2> SUFFICES ASSUME NEW i \in Slot
               PROVE  /\ m.slots[i].valid \/ q.slots[i].valid =>
                            Written(m.slots[i], torn) /\ Written(q.slots[i], torn)
                      /\ q.slots[i].valid /\ ~m.slots[i].valid =>
                            m.slots[i].key = q.slots[i].key \/ m.slots[i].key \in torn
    BY DEF Values
  <2>1. CASE m.slots[i].valid
    <3>1. q.slots[i].key = m.slots[i].key
      BY <1>2, <2>1 DEF Durable
    <3>2. p.slots[i].key = m.slots[i].key
      BY <1>2, <2>1 DEF Durable
    <3>3. Written(m.slots[i], torn) /\ Written(p.slots[i], torn)
      BY <1>2, <2>1 DEF Values
    <3> QED
      BY <2>1, <3>1, <3>2, <3>3 DEF Written
  <2>2. CASE ~m.slots[i].valid /\ p.slots[i].valid
    <3>1. Written(m.slots[i], torn) /\ Written(p.slots[i], torn)
      BY <1>2, <2>2 DEF Values
    <3>2. m.slots[i].key = p.slots[i].key \/ m.slots[i].key \in torn
      BY <1>2, <2>2 DEF Values
    <3> QED
      BY <2>2, <3>1, <3>2 DEF Written
  <2>3. CASE ~m.slots[i].valid /\ ~p.slots[i].valid
    BY <2>3
  <2> QED
    BY <1>1, <2>1, <2>2, <2>3
<1> QED
  BY <1>2, <1>4, <1>5, <1>6, <1>7 DEF LeafState

(* A flush of the whole leaf. *)
LEMMA LeafFlushed ==
    ASSUME NEW m \in LeafT, NEW newVals, NEW oldBits, NEW torn, NEW oldHkeys,
           LeafOK(m), \A i \in Slot : m.slots[i].valid => Written(m.slots[i], torn)
    PROVE  LeafState(m, m, newVals, oldBits, torn, oldHkeys)
<1>1. \A i \in Slot : m.slots[i].valid \in BOOLEAN
  BY LeafTypes
<1>2. Header(m, m, oldHkeys)
  BY DEF Header
<1>3. Durable(m.slots, m.slots, newVals, oldBits)
  BY <1>1 DEF Durable
<1>4. Values(m.slots, m.slots, torn)
  BY <1>1 DEF Values
<1> QED
  BY <1>2, <1>3, <1>4 DEF LeafState

(* ... and of one that has been in use. *)
LEMMA LeafFlushedAgain ==
    ASSUME NEW m \in LeafT, NEW p \in LeafT, NEW newVals, NEW oldBits, NEW torn, NEW oldHkeys,
           LeafState(m, p, newVals, oldBits, torn, oldHkeys)
    PROVE  LeafState(m, m, {}, {}, torn, {})
<1>1. LeafOK(m) /\ \A i \in Slot : m.slots[i].valid => Written(m.slots[i], torn)
  BY DEF LeafState, Values
<1> QED
  BY <1>1, LeafFlushed

(* Nothing is under way at a leaf.                                          *)
Quiet(m, p, torn) == LeafState(m, p, {}, {}, torn, {})

(* Such a leaf agrees with its durable copy, but for new bits that are not  *)
(* flushed.                                                                 *)
LEMMA QuietIs ==
    ASSUME NEW m \in LeafT, NEW p \in LeafT, NEW torn, Quiet(m, p, torn)
    PROVE  /\ LeafOK(m) /\ LeafOK(p) /\ p.lkey = m.lkey /\ p.hkey = m.hkey /\ p.next = m.next
           /\ \A i \in Slot :
                 /\ m.slots[i].valid => /\ p.slots[i].key = m.slots[i].key
                                        /\ p.slots[i].val = m.slots[i].val
                                        /\ Written(m.slots[i], torn)
                 /\ p.slots[i].valid => m.slots[i].valid
                 /\ m.slots[i].valid /\ ~p.slots[i].valid =>
                       \A j \in Slot : m.slots[j].valid /\ m.slots[j].key = m.slots[i].key => j = i
<1>1. \A i \in Slot : m.slots[i].valid \in BOOLEAN /\ p.slots[i].valid \in BOOLEAN
  BY LeafTypes
<1>2. LeafOK(m) /\ LeafOK(p) /\ Header(m, p, {}) /\ Durable(m.slots, p.slots, {}, {})
      /\ Values(m.slots, p.slots, torn)
  BY DEF LeafState, Quiet
<1> QED
  BY <1>1, <1>2 DEF Header, Durable, Values

(* Stores that leave the bits alone and keep the keys of the valid slots.   *)
LEMMA ValuesStored ==
    ASSUME NEW m \in LeafT, NEW p \in LeafT, NEW x \in LeafT, NEW torn, NEW new,
           Quiet(m, p, torn), x.lkey = m.lkey, x.hkey = m.hkey, x.next = m.next,
           \A i \in Slot :
              /\ x.slots[i].valid = m.slots[i].valid
              /\ m.slots[i].valid =>
                    /\ x.slots[i].key = m.slots[i].key
                    /\ \/ x.slots[i].val = m.slots[i].val
                       \/ x.slots[i].key \in new /\ x.slots[i].val \in ValsOf(x.slots[i].key)
    PROVE  LeafState(x, p, new, {}, torn, {})
<1>1. \A i \in Slot : m.slots[i].valid \in BOOLEAN /\ p.slots[i].valid \in BOOLEAN
  BY LeafTypes
<1>2. /\ LeafOK(m) /\ LeafOK(p) /\ p.lkey = m.lkey /\ p.hkey = m.hkey /\ p.next = m.next
      /\ \A i \in Slot :
            /\ m.slots[i].valid => /\ p.slots[i].key = m.slots[i].key
                                   /\ p.slots[i].val = m.slots[i].val
                                   /\ Written(m.slots[i], torn)
            /\ p.slots[i].valid => m.slots[i].valid
            /\ m.slots[i].valid /\ ~p.slots[i].valid =>
                  \A j \in Slot : m.slots[j].valid /\ m.slots[j].key = m.slots[i].key => j = i
  BY QuietIs
<1>3. LeafOK(x)
  BY <1>1, <1>2 DEF LeafOK
<1>4. Header(x, p, {})
  BY <1>2 DEF Header
<1>5. Durable(x.slots, p.slots, new, {})
  BY <1>1, <1>2 DEF Durable
<1>6. Values(x.slots, p.slots, torn)
  BY <1>1, <1>2 DEF Values, Written
<1> QED
  BY <1>2, <1>3, <1>4, <1>5, <1>6 DEF LeafState

(* InsertFlushes: the records of a batch are in place, without their bits.  *)
LEMMA BatchStored ==
    ASSUME NEW m \in LeafT, NEW p \in LeafT, NEW torn, NEW recs \in Seq(RecT), Quiet(m, p, torn),
           \A n \in 1 .. Len(recs) : recs[n].val \in ValsOf(recs[n].key)
    PROVE  LET x == [m EXCEPT !.slots = Unset(@, InsertBatch(@, recs))]
           IN  /\ x \in LeafT
               /\ LeafState(x, p, {recs[n].key : n \in 1 .. Len(recs)}, {}, torn, {})
<1> DEFINE new   == {recs[n].key : n \in 1 .. Len(recs)}
           final == InsertBatch(m.slots, recs)
           s     == Unset(m.slots, final)
           x     == [m EXCEPT !.slots = s]
<1>1. m.slots \in SlotsT /\ recs \in Seq(RecOf(K0, Vals))
  BY LeafTypes, ConstFacts
<1>2. final \in SlotsT /\ Refilled(final, m.slots, recs)
  BY <1>1, BatchRefills DEF SlotsT
<1> HIDE DEF final
<1>3. /\ s \in SlotsT
      /\ \A i \in Slot : /\ s[i].key = final[i].key /\ s[i].val = final[i].val
                         /\ s[i].valid = m.slots[i].valid
  BY <1>1, <1>2, UnsetIs
<1> HIDE DEF s
<1>4. /\ x \in LeafT /\ x.lkey = m.lkey /\ x.hkey = m.hkey /\ x.next = m.next /\ x.slots = s
  BY <1>3 DEF LeafT
<1> HIDE DEF x
<1>5. ASSUME NEW i \in Slot, m.slots[i].valid
      PROVE  /\ x.slots[i].key = m.slots[i].key
             /\ \/ x.slots[i].val = m.slots[i].val
                \/ x.slots[i].key \in new /\ x.slots[i].val \in ValsOf(x.slots[i].key)
  <2>1. CASE final[i] = m.slots[i]
    BY <1>3, <1>4, <2>1
  <2>2. CASE \E n \in 1 .. Len(recs) : final[i] = recs[n] /\ recs[n].key = m.slots[i].key
    BY <1>3, <1>4, <2>2
  <2> QED
    BY <1>2, <1>5, <2>1, <2>2 DEF Refilled
<1>6. \A i \in Slot : x.slots[i].valid = m.slots[i].valid
  BY <1>3, <1>4
<1> HIDE DEF new
<1>7. LeafState(x, p, new, {}, torn, {})
  BY <1>4, <1>5, <1>6, ValuesStored
<1> QED
  BY <1>4, <1>7 DEF x, s, final, new

(* FlushBits: the batch is in place with its bits.                          *)
LEMMA BatchDone ==
    ASSUME NEW m \in LeafT, NEW torn, NEW recs \in Seq(RecT),
           LeafOK(m), \A i \in Slot : m.slots[i].valid => Written(m.slots[i], torn),
           \A n \in 1 .. Len(recs) : /\ recs[n].val \in ValsOf(recs[n].key)
                                     /\ m.lkey <= recs[n].key /\ recs[n].key < m.hkey
    PROVE  LET x == [m EXCEPT !.slots = InsertBatch(@, recs)]
           IN  /\ x \in LeafT /\ LeafOK(x)
               /\ \A i \in Slot : x.slots[i].valid => Written(x.slots[i], torn)
<1> DEFINE s == InsertBatch(m.slots, recs)
           x == [m EXCEPT !.slots = s]
<1>1. m.slots \in SlotsT /\ recs \in Seq(RecOf(K0, Vals))
  BY LeafTypes, ConstFacts
<1>2. s \in SlotsT /\ Refilled(s, m.slots, recs)
  BY <1>1, BatchRefills DEF SlotsT
<1> HIDE DEF s
<1>3. /\ x \in LeafT /\ x.lkey = m.lkey /\ x.hkey = m.hkey /\ x.next = m.next /\ x.slots = s
  BY <1>2 DEF LeafT
<1>4. \A n \in 1 .. Len(recs) : recs[n].key \in Keys
  <2>1. \A n \in 1 .. Len(recs) : recs[n] \in RecT
    OBVIOUS
  <2> QED
    BY <2>1 DEF RecT, RecOf
<1> HIDE DEF x
<1>5. ASSUME NEW i \in Slot, s[i].valid
      PROVE  /\ Written(s[i], torn) /\ s[i].key \in Keys /\ m.lkey <= s[i].key /\ s[i].key < m.hkey
  <2>1. CASE s[i] = m.slots[i]
    BY <1>5, <2>1 DEF LeafOK
  <2>2. CASE \E n \in 1 .. Len(recs) : s[i] = recs[n]
    BY <1>4, <2>2 DEF Written
  <2> QED
    BY <1>2, <2>1, <2>2 DEF Refilled
<1>6. LeafOK(x)
  BY <1>3, <1>5 DEF LeafOK
<1> QED
  BY <1>3, <1>5, <1>6 DEF x, s

(* A leaf with other slots, with one bit set, with one record written back. *)
WithSlots(m, s)    == [m EXCEPT !.slots = s]
Marked(m, i)       == [m EXCEPT !.slots[i].valid = TRUE]
Copied(p, i, slot) == [p EXCEPT !.slots[i].key = slot.key, !.slots[i].val = slot.val]

(* The durable copy of a slot changes, but for its bit.                     *)
LEMMA CopiedIs ==
    ASSUME NEW p \in LeafT, NEW h \in Slot, NEW slot, slot.key \in K0, slot.val \in Vals
    PROVE  LET q == Copied(p, h, slot)
           IN  /\ q \in LeafT /\ q.lkey = p.lkey /\ q.hkey = p.hkey /\ q.next = p.next
               /\ \A i \in Slot : /\ q.slots[i].valid = p.slots[i].valid
                                  /\ q.slots[i].key = (IF i = h THEN slot.key ELSE p.slots[i].key)
                                  /\ q.slots[i].val = (IF i = h THEN slot.val ELSE p.slots[i].val)
<1> DEFINE ph == [p.slots[h] EXCEPT !.key = slot.key, !.val = slot.val]
           s == [p.slots EXCEPT ![h] = ph]
           q == Copied(p, h, slot)
<1>1. /\ p.slots \in [Slot -> [key : K0, val : Vals, valid : BOOLEAN]]
      /\ p.slots[h] \in [key : K0, val : Vals, valid : BOOLEAN]
  BY LeafTypes, SlotType
<1>2. /\ ph \in [key : K0, val : Vals, valid : BOOLEAN]
      /\ ph.key = slot.key /\ ph.val = slot.val /\ ph.valid = p.slots[h].valid
  BY <1>1
<1>3. q = [p EXCEPT !.slots = s]
  BY <1>1 DEF Copied, LeafT
<1> HIDE DEF ph
<1>4. s \in SlotsT /\ \A i \in Slot : s[i] = IF i = h THEN ph ELSE p.slots[i]
  BY <1>1, <1>2, SlotType
<1> HIDE DEF s, q
<1>5. q \in LeafT /\ q.lkey = p.lkey /\ q.hkey = p.hkey /\ q.next = p.next /\ q.slots = s
  BY <1>3, <1>4 DEF LeafT
<1> QED
  BY <1>2, <1>4, <1>5 DEF q

(* The first line of a leaf is written back.                                *)
LEMMA HeaderIs ==
    ASSUME NEW l, mem[l] \in LeafT, pmem[l] \in LeafT
    PROVE  LET q == PersistHeader(l)
           IN  /\ q \in LeafT /\ q.lkey = mem[l].lkey /\ q.hkey = mem[l].hkey /\ q.next = mem[l].next
               /\ \A i \in Slot : /\ q.slots[i].key = pmem[l].slots[i].key
                                  /\ q.slots[i].val = pmem[l].slots[i].val
                                  /\ q.slots[i].valid = mem[l].slots[i].valid
<1> DEFINE s == [i \in Slot |-> [pmem[l].slots[i] EXCEPT !.valid = mem[l].slots[i].valid]]
           q == PersistHeader(l)
<1>1. \A i \in Slot : /\ pmem[l].slots[i] \in [key : K0, val : Vals, valid : BOOLEAN]
                      /\ mem[l].slots[i].valid \in BOOLEAN
  BY LeafTypes
<1>2. /\ s \in SlotsT
      /\ \A i \in Slot : /\ s[i].key = pmem[l].slots[i].key /\ s[i].val = pmem[l].slots[i].val
                         /\ s[i].valid = mem[l].slots[i].valid
  BY <1>1, SlotType
<1>3. q = [mem[l] EXCEPT !.slots = s]
  BY DEF PersistHeader
<1> HIDE DEF s, q
<1>4. /\ q \in LeafT /\ q.lkey = mem[l].lkey /\ q.hkey = mem[l].hkey /\ q.next = mem[l].next
      /\ q.slots = s
  BY <1>2, <1>3 DEF LeafT
<1> QED
  BY <1>2, <1>4 DEF q

(* InsertUpdates and UpdateFlush: a value is overwritten, then flushed.     *)
LEMMA UpdateStored ==
    ASSUME NEW m \in LeafT, NEW p \in LeafT, NEW torn, Quiet(m, p, torn),
           NEW k \in Keys, NEW v \in ValsOf(k), Match(m.slots, k) # {}
    PROVE  LET x == WithSlots(m, LeafInsert(m.slots, k, v))
           IN  /\ x \in LeafT /\ LeafState(x, p, {k}, {}, torn, {})
               /\ Updates(x.slots, p.slots, k)
<1> DEFINE h == Lowest(Match(m.slots, k))
           s == LeafInsert(m.slots, k, v)
           x == [m EXCEPT !.slots = s]
<1>1. m.slots \in SlotsT
  BY LeafTypes
<1>2. /\ h \in Slot /\ m.slots[h].valid /\ m.slots[h].key = k
      /\ s = [m.slots EXCEPT ![h].val = v] /\ s \in SlotsT
  BY <1>1, InsertSlots
<1>3. \A i \in Slot : m.slots[i] \in [key : K0, val : Vals, valid : BOOLEAN]
  BY LeafTypes
<1> HIDE DEF h, s
<1>4. \A i \in Slot : /\ s[i].key = m.slots[i].key /\ s[i].valid = m.slots[i].valid
                      /\ s[i].val = IF i = h THEN v ELSE m.slots[i].val
  BY <1>1, <1>2, <1>3, SlotType
<1>5. /\ x \in LeafT /\ x.lkey = m.lkey /\ x.hkey = m.hkey /\ x.next = m.next /\ x.slots = s
  BY <1>2 DEF LeafT
<1> HIDE DEF x
<1>6. LeafState(x, p, {k}, {}, torn, {})
  <2>1. ASSUME NEW i \in Slot
        PROVE  /\ x.slots[i].valid = m.slots[i].valid
               /\ m.slots[i].valid =>
                     /\ x.slots[i].key = m.slots[i].key
                     /\ \/ x.slots[i].val = m.slots[i].val
                        \/ x.slots[i].key \in {k} /\ x.slots[i].val \in ValsOf(x.slots[i].key)
    BY <1>2, <1>4, <1>5
  <2> QED
    BY <1>5, <2>1, ValuesStored
<1>7. Match(s, k) = Match(m.slots, k)
  BY <1>4 DEF Match, ValidBitSet
<1>8. \A i \in Slot : m.slots[i].valid => p.slots[i].val = m.slots[i].val
  BY QuietIs
<1>9. x = WithSlots(m, LeafInsert(m.slots, k, v))
  BY DEF x, s, WithSlots
<1>10. Updates(s, p.slots, k)
  BY <1>4, <1>7, <1>8 DEF h, Updates
<1> QED
  BY <1>5, <1>6, <1>9, <1>10

(* An updated value is flushed with its slot (BottomLayer::Insert).         *)
LEMMA UpdateFlushed ==
    ASSUME NEW m \in LeafT, NEW p \in LeafT, NEW torn, NEW k,
           LeafState(m, p, {k}, {}, torn, {}), Updates(m.slots, p.slots, k)
    PROVE  LET h == Lowest(Match(m.slots, k))
               new == Copied(p, h, m.slots[h])
           IN  new \in LeafT /\ Quiet(m, new, torn)
<1> DEFINE h == Lowest(Match(m.slots, k))
           q == Copied(p, h, m.slots[h])
<1>0. h \in Slot /\ \A i \in Slot : m.slots[i].valid /\ p.slots[i].val # m.slots[i].val => i = h
  BY MatchLowest, LeafTypes DEF Updates
<1> HIDE DEF h
<1>1. m.slots[h].key \in K0 /\ m.slots[h].val \in Vals
  BY <1>0, LeafTypes
<1>3. q \in LeafT /\ q.lkey = p.lkey /\ q.hkey = p.hkey /\ q.next = p.next
  BY <1>0, <1>1, CopiedIs
<1>4. \A i \in Slot : /\ q.slots[i].valid = p.slots[i].valid
                      /\ q.slots[i].key = IF i = h THEN m.slots[h].key ELSE p.slots[i].key
                      /\ q.slots[i].val = IF i = h THEN m.slots[h].val ELSE p.slots[i].val
  BY <1>0, <1>1, CopiedIs
<1> HIDE DEF q
<1>5. LeafState(m, q, {k}, {}, torn, {})
  <2>1. \A i \in Slot : /\ q.slots[i].valid = p.slots[i].valid
                        /\ \/ q.slots[i].key = p.slots[i].key /\ q.slots[i].val = p.slots[i].val
                           \/ /\ q.slots[i].key = m.slots[i].key
                              /\ q.slots[i].val \in {m.slots[i].val, p.slots[i].val}
    BY <1>4
  <2> QED
    BY <1>3, <2>1, SlotWrittenBack
<1>6. Durable(m.slots, q.slots, {}, {})
  BY <1>0, <1>4, <1>5 DEF LeafState, Durable
<1> QED
  BY <1>3, <1>5, <1>6 DEF Quiet, LeafState, q, h

(* InsertFills and FillFlush: a record goes into a slot that is not valid,  *)
(* it is flushed, and its bit is set.                                       *)
LEMMA FillStored ==
    ASSUME NEW m \in LeafT, NEW p \in LeafT, NEW torn, Quiet(m, p, torn),
           NEW k \in Keys, NEW v \in ValsOf(k),
           Match(m.slots, k) = {}, EmptyBitSet(m.slots) # {}
    PROVE  LET x == WithSlots(m, SlotWritten(m.slots, k, v))
           IN  /\ x \in LeafT /\ Quiet(x, p, torn) /\ Match(x.slots, k) = {}
               /\ \E i \in Slot : x.slots[i].key = k /\ x.slots[i].val = v
<1> DEFINE h == Lowest(EmptyBitSet(m.slots))
           final == LeafInsert(m.slots, k, v)
           s == Unset(m.slots, final)
           x == [m EXCEPT !.slots = s]
<1>0. SlotWritten(m.slots, k, v) = s
  BY DEF SlotWritten
<1>1. m.slots \in SlotsT
  BY LeafTypes
<1>2. /\ h \in Slot /\ ~m.slots[h].valid
      /\ final = [m.slots EXCEPT ![h] = Rec(k, v)] /\ final \in SlotsT
  BY <1>1, InsertSlots
<1> HIDE DEF h, final
<1>4. /\ s \in SlotsT
      /\ \A i \in Slot : /\ s[i].key = final[i].key /\ s[i].val = final[i].val
                         /\ s[i].valid = m.slots[i].valid
  <2>1. m.slots \in SlotsT /\ final \in SlotsT
    BY <1>1, <1>2
  <2> HIDE DEF s
  <2> QED
    BY ONLY <2>1, UnsetIs DEF s
<1> HIDE DEF s
<1>5. /\ x \in LeafT /\ x.lkey = m.lkey /\ x.hkey = m.hkey /\ x.next = m.next /\ x.slots = s
  BY <1>4 DEF LeafT
<1> HIDE DEF x
<1>6. \A i \in Slot : final[i] = IF i = h THEN Rec(k, v) ELSE m.slots[i]
  BY <1>1, <1>2, SlotType
<1>7. \A i \in Slot : /\ x.slots[i].valid = m.slots[i].valid
                      /\ m.slots[i].valid => /\ x.slots[i].key = m.slots[i].key
                                             /\ x.slots[i].val = m.slots[i].val
  BY <1>2, <1>4, <1>5, <1>6
<1>8. Quiet(x, p, torn)
  <2>1. LeafState(x, p, {}, {}, torn, {})
    BY <1>5, <1>7, ValuesStored
  <2> QED
    BY <2>1 DEF Quiet
<1>9. Match(x.slots, k) = {}
  BY <1>7 DEF Match, ValidBitSet
<1>10. x.slots[h].key = k /\ x.slots[h].val = v
  BY <1>2, <1>4, <1>5, <1>6 DEF Rec
<1>11. x = WithSlots(m, SlotWritten(m.slots, k, v))
  BY <1>0 DEF x, WithSlots
<1> QED
  BY <1>2, <1>5, <1>8, <1>9, <1>10, <1>11

(* A new record is flushed, then its bit is set (BottomLayer::Insert).      *)
LEMMA FillFlushed ==
    ASSUME NEW m \in LeafT, NEW p \in LeafT, NEW torn, Quiet(m, p, torn),
           NEW k \in Keys, NEW v \in ValsOf(k), m.lkey <= k, k < m.hkey,
           Match(m.slots, k) = {}, NEW h \in Slot, m.slots[h].key = k, m.slots[h].val = v
    PROVE  LET x == Marked(m, h)
               q == Copied(p, h, m.slots[h])
           IN  /\ x \in LeafT /\ q \in LeafT /\ Quiet(x, q, torn)
               /\ x.lkey = m.lkey /\ x.hkey = m.hkey /\ x.next = m.next
<1> DEFINE x == [m EXCEPT !.slots[h].valid = TRUE]
           q == [p EXCEPT !.slots[h].key = m.slots[h].key, !.slots[h].val = m.slots[h].val]
           mh == [m.slots[h] EXCEPT !.valid = TRUE]
           ph == [p.slots[h] EXCEPT !.key = m.slots[h].key, !.val = m.slots[h].val]
<1>1. /\ m.slots \in [Slot -> [key : K0, val : Vals, valid : BOOLEAN]]
      /\ p.slots \in [Slot -> [key : K0, val : Vals, valid : BOOLEAN]]
      /\ m.slots[h] \in [key : K0, val : Vals, valid : BOOLEAN]
      /\ p.slots[h] \in [key : K0, val : Vals, valid : BOOLEAN]
  BY LeafTypes, SlotType
<1>2. /\ x.lkey = m.lkey /\ x.hkey = m.hkey /\ x.next = m.next
      /\ x.slots = [m.slots EXCEPT ![h] = mh] /\ x = [m EXCEPT !.slots = x.slots]
      /\ q.lkey = p.lkey /\ q.hkey = p.hkey /\ q.next = p.next
      /\ q.slots = [p.slots EXCEPT ![h] = ph] /\ q = [p EXCEPT !.slots = q.slots]
  BY <1>1 DEF LeafT
<1> HIDE DEF x, q
<1>a. /\ mh \in [key : K0, val : Vals, valid : BOOLEAN]
      /\ mh.key = k /\ mh.val = v /\ mh.valid = TRUE
      /\ ph \in [key : K0, val : Vals, valid : BOOLEAN]
      /\ ph.key = k /\ ph.val = v /\ ph.valid = p.slots[h].valid
  BY <1>1
<1> HIDE DEF mh, ph
<1>3. /\ x.slots \in [Slot -> [key : K0, val : Vals, valid : BOOLEAN]]
      /\ q.slots \in [Slot -> [key : K0, val : Vals, valid : BOOLEAN]]
  BY <1>1, <1>2, <1>a
<1>4. x \in LeafT /\ q \in LeafT
  <2>1. x.slots \in SlotsT /\ q.slots \in SlotsT
    BY <1>3, SlotType
  <2> QED
    BY <1>2, <2>1 DEF LeafT
<1>5. \A i \in Slot :
         /\ x.slots[i].key = m.slots[i].key /\ x.slots[i].val = m.slots[i].val
         /\ x.slots[i].valid = IF i = h THEN TRUE ELSE m.slots[i].valid
         /\ q.slots[i].valid = p.slots[i].valid
         /\ q.slots[i].key = IF i = h THEN k ELSE p.slots[i].key
         /\ q.slots[i].val = IF i = h THEN v ELSE p.slots[i].val
  <2>1. \A i \in Slot : /\ x.slots[i] = IF i = h THEN mh ELSE m.slots[i]
                        /\ q.slots[i] = IF i = h THEN ph ELSE p.slots[i]
    BY <1>1, <1>2
  <2> QED
    BY <1>a, <2>1
<1>6. /\ LeafOK(m) /\ LeafOK(p) /\ p.lkey = m.lkey /\ p.hkey = m.hkey /\ p.next = m.next
      /\ \A i \in Slot :
            /\ m.slots[i].valid => /\ p.slots[i].key = m.slots[i].key
                                   /\ p.slots[i].val = m.slots[i].val
                                   /\ Written(m.slots[i], torn)
            /\ p.slots[i].valid => m.slots[i].valid
            /\ m.slots[i].valid /\ ~p.slots[i].valid =>
                  \A j \in Slot : m.slots[j].valid /\ m.slots[j].key = m.slots[i].key => j = i
  BY QuietIs
<1>7. \A i \in Slot : m.slots[i].valid => m.slots[i].key # k
  BY DEF Match, ValidBitSet
<1>8. \A i \in Slot : m.slots[i].valid \in BOOLEAN /\ p.slots[i].valid \in BOOLEAN
  BY LeafTypes
<1>b. ~m.slots[h].valid /\ ~p.slots[h].valid
  BY <1>6, <1>7
<1>9. LeafOK(x) /\ LeafOK(q)
  <2>1. ASSUME NEW i \in Slot, x.slots[i].valid
        PROVE  x.slots[i].key \in Keys /\ x.lkey <= x.slots[i].key /\ x.slots[i].key < x.hkey
    <3>1. CASE i = h
      BY <1>2, <1>5, <3>1
    <3>2. CASE i # h
      <4>1. m.slots[i].valid /\ x.slots[i].key = m.slots[i].key
        BY <1>5, <2>1, <3>2
      <4> QED
        BY <1>2, <1>6, <4>1 DEF LeafOK
    <3> QED
      BY <3>1, <3>2
  <2>2. ASSUME NEW i \in Slot, q.slots[i].valid
        PROVE  q.slots[i].key \in Keys /\ q.lkey <= q.slots[i].key /\ q.slots[i].key < q.hkey
    BY <1>2, <1>5, <1>6, <1>b, <2>2 DEF LeafOK
  <2> QED
    BY <1>2, <1>6, <2>1, <2>2 DEF LeafOK
<1>10. Header(x, q, {})
  BY <1>2, <1>6 DEF Header
<1>11. Durable(x.slots, q.slots, {}, {})
  <2> SUFFICES ASSUME NEW i \in Slot
               PROVE  /\ x.slots[i].valid => /\ q.slots[i].key = x.slots[i].key
                                             /\ q.slots[i].val = x.slots[i].val
                      /\ q.slots[i].valid => x.slots[i].valid
                      /\ x.slots[i].valid /\ ~q.slots[i].valid =>
                            \A j \in Slot : x.slots[j].valid /\ x.slots[j].key = x.slots[i].key => j = i
    BY DEF Durable
  <2>1. CASE i = h
    BY <1>5, <1>7, <1>b, <2>1
  <2>2. CASE i # h
    <3>1. /\ x.slots[i].valid = m.slots[i].valid /\ x.slots[i].key = m.slots[i].key
          /\ x.slots[i].val = m.slots[i].val /\ q.slots[i].valid = p.slots[i].valid
          /\ q.slots[i].key = p.slots[i].key /\ q.slots[i].val = p.slots[i].val
      BY <1>5, <2>2
    <3>2. ASSUME m.slots[i].valid, ~p.slots[i].valid, NEW j \in Slot,
                 x.slots[j].valid, x.slots[j].key = m.slots[i].key
          PROVE  j = i
      <4>1. j # h
        BY <1>5, <1>7, <3>2
      <4>2. m.slots[j].valid /\ m.slots[j].key = m.slots[i].key
        BY <1>5, <3>2, <4>1
      <4> QED
        BY <1>6, <3>2, <4>2
    <3> QED
      BY <1>6, <3>1, <3>2
  <2> QED
    BY <2>1, <2>2
<1>12. Values(x.slots, q.slots, torn)
  <2> SUFFICES ASSUME NEW i \in Slot
               PROVE  /\ x.slots[i].valid \/ q.slots[i].valid =>
                            Written(x.slots[i], torn) /\ Written(q.slots[i], torn)
                      /\ ~(q.slots[i].valid /\ ~x.slots[i].valid)
    BY DEF Values
  <2>1. CASE i = h
    BY <1>5, <1>b, <2>1 DEF Written
  <2>2. CASE i # h
    <3>1. /\ x.slots[i].valid = m.slots[i].valid /\ x.slots[i].key = m.slots[i].key
          /\ x.slots[i].val = m.slots[i].val /\ q.slots[i].valid = p.slots[i].valid
          /\ q.slots[i].key = p.slots[i].key /\ q.slots[i].val = p.slots[i].val
      BY <1>5, <2>2
    <3> QED
      BY <1>6, <1>8, <3>1 DEF Written
  <2> QED
    BY <2>1, <2>2
<1>13. x = Marked(m, h) /\ q = Copied(p, h, m.slots[h])
  BY DEF x, q, Marked, Copied
<1> QED
  BY <1>2, <1>4, <1>9, <1>10, <1>11, <1>12, <1>13 DEF LeafState, Quiet

(* Remove clears a bit; RemoveFlush writes it back.                         *)
LEMMA EraseStored ==
    ASSUME NEW m \in LeafT, NEW p \in LeafT, NEW torn, Quiet(m, p, torn),
           NEW k \in Keys, Match(m.slots, k) # {}
    PROVE  LET x == WithSlots(m, LeafRemove(m.slots, k))
           IN  x \in LeafT /\ LeafState(x, p, {}, {k}, torn, {})
<1> DEFINE s == LeafRemove(m.slots, k)
           x == [m EXCEPT !.slots = s]
<1>1. m.slots \in [Slot -> [key : K0, val : Vals, valid : BOOLEAN]] /\ m.slots \in SlotsT
  BY LeafTypes, SlotType
<1>2. PICK h \in Slot : /\ m.slots[h].valid /\ m.slots[h].key = k
                        /\ s = [m.slots EXCEPT ![h].valid = FALSE] /\ s \in SlotsT
  BY <1>1, RemoveSlots
<1> HIDE DEF s
<1>3. \A i \in Slot : /\ s[i].key = m.slots[i].key /\ s[i].val = m.slots[i].val
                      /\ s[i].valid = IF i = h THEN FALSE ELSE m.slots[i].valid
  BY <1>1, <1>2
<1>4. /\ x \in LeafT /\ x.lkey = m.lkey /\ x.hkey = m.hkey /\ x.next = m.next /\ x.slots = s
  BY <1>2 DEF LeafT
<1> HIDE DEF x
<1>5. /\ LeafOK(m) /\ LeafOK(p) /\ p.lkey = m.lkey /\ p.hkey = m.hkey /\ p.next = m.next
      /\ \A i \in Slot :
            /\ m.slots[i].valid => /\ p.slots[i].key = m.slots[i].key
                                   /\ p.slots[i].val = m.slots[i].val
                                   /\ Written(m.slots[i], torn)
            /\ p.slots[i].valid => m.slots[i].valid
            /\ m.slots[i].valid /\ ~p.slots[i].valid =>
                  \A j \in Slot : m.slots[j].valid /\ m.slots[j].key = m.slots[i].key => j = i
  BY QuietIs
<1>6. \A i \in Slot : m.slots[i].valid \in BOOLEAN /\ p.slots[i].valid \in BOOLEAN
  BY LeafTypes
<1>7. LeafOK(x)
  BY <1>3, <1>4, <1>5 DEF LeafOK
<1>8. Header(x, p, {})
  BY <1>4, <1>5 DEF Header
<1>9. Durable(x.slots, p.slots, {}, {k})
  BY <1>2, <1>3, <1>4, <1>5, <1>6 DEF Durable
<1>10. Values(x.slots, p.slots, torn)
  BY <1>2, <1>3, <1>4, <1>5, <1>6 DEF Values, Written
<1>11. x = WithSlots(m, LeafRemove(m.slots, k))
  BY DEF x, s, WithSlots
<1> QED
  BY <1>4, <1>5, <1>7, <1>8, <1>9, <1>10, <1>11 DEF LeafState

(* Slots whose valid records are of a range and have values of their own.   *)
Files(slots, low, high, torn) ==
    slots \in SlotsT /\ \A i \in Slot : slots[i].valid =>
        /\ slots[i].key \in Keys /\ low <= slots[i].key /\ slots[i].key < high
        /\ Written(slots[i], torn)

(* The records of a leaf that is in order lie in its range and were         *)
(* written.                                                                 *)
LEMMA LeafFiles ==
    ASSUME NEW m \in LeafT, NEW p, NEW torn, NEW newVals, NEW oldBits, NEW oldHkeys,
           LeafState(m, p, newVals, oldBits, torn, oldHkeys)
    PROVE  Files(m.slots, m.lkey, m.hkey, torn)
  BY LeafTypes DEF LeafState, LeafOK, Values, Files

(* The final bits are set.                                                  *)
LEMMA FilesOK ==
    ASSUME NEW m \in LeafT, NEW s, NEW torn, Files(s, m.lkey, m.hkey, torn),
           m.lkey >= MinKey, m.lkey < m.hkey \/ m.hkey = MaxKey
    PROVE  LET x == [m EXCEPT !.slots = s]
           IN  x \in LeafT /\ LeafOK(x) /\ \A i \in Slot : x.slots[i].valid => Written(x.slots[i], torn)
<1>1. LET x == [m EXCEPT !.slots = s]
      IN  x \in LeafT /\ x.lkey = m.lkey /\ x.hkey = m.hkey /\ x.slots = s
  BY DEF LeafT, Files
<1> QED
  BY <1>1 DEF LeafOK, Files

(* MergeWrite: the left leaf gets the range and the records of the right    *)
(* one, without their bits.                                                 *)
LEMMA MergeStored ==
    ASSUME NEW m \in LeafT, NEW p \in LeafT, NEW r \in LeafT, NEW torn, Quiet(m, p, torn),
           Files(r.slots, r.lkey, r.hkey, torn), m.hkey # MaxKey, r.lkey = m.hkey,
           r.lkey < r.hkey \/ r.hkey = MaxKey
    PROVE  LET final == LeafMerge(m.slots, r.slots)
               x == [m EXCEPT !.next = r.next, !.hkey = r.hkey, !.slots = Unset(@, final)]
           IN  /\ x \in LeafT /\ LeafState(x, p, {}, {}, torn, {m.hkey})
               /\ Files(final, m.lkey, r.hkey, torn)
<1> DEFINE final == LeafMerge(m.slots, r.slots)
           s == Unset(m.slots, final)
           x == [m EXCEPT !.next = r.next, !.hkey = r.hkey, !.slots = s]
<1>1. /\ m.slots \in SlotsT /\ r.slots \in SlotsT /\ m.lkey \in Nat /\ m.hkey \in Nat
      /\ r.lkey \in Nat /\ r.hkey \in Nat /\ r.next \in Nat
  BY LeafTypes
<1>2. /\ final \in SlotsT
      /\ \A i \in Slot :
            \/ final[i] = m.slots[i]
            \/ ~m.slots[i].valid /\ \E j \in ValidBitSet(r.slots) : final[i] = r.slots[j]
  BY <1>1, MergeRefills DEF SlotsT
<1> HIDE DEF final
<1>3. /\ s \in SlotsT
      /\ \A i \in Slot : /\ s[i].key = final[i].key /\ s[i].val = final[i].val
                         /\ s[i].valid = m.slots[i].valid
  BY <1>1, <1>2, UnsetIs
<1> HIDE DEF s
<1>4. x \in LeafT /\ x.lkey = m.lkey /\ x.hkey = r.hkey /\ x.next = r.next /\ x.slots = s
  BY <1>1, <1>3 DEF LeafT
<1> HIDE DEF x
<1>5. /\ LeafOK(m) /\ LeafOK(p) /\ p.lkey = m.lkey /\ p.hkey = m.hkey /\ p.next = m.next
      /\ \A i \in Slot :
            /\ m.slots[i].valid => /\ p.slots[i].key = m.slots[i].key
                                   /\ p.slots[i].val = m.slots[i].val
                                   /\ Written(m.slots[i], torn)
            /\ p.slots[i].valid => m.slots[i].valid
            /\ m.slots[i].valid /\ ~p.slots[i].valid =>
                  \A j \in Slot : m.slots[j].valid /\ m.slots[j].key = m.slots[i].key => j = i
  BY QuietIs
<1>6. \A i \in Slot : m.slots[i].valid \in BOOLEAN /\ p.slots[i].valid \in BOOLEAN
  BY LeafTypes
<1>7. \A i \in Slot : s[i].valid => s[i].key = m.slots[i].key /\ s[i].val = m.slots[i].val
  BY <1>2, <1>3
<1>8. \A k \in Keys : k < m.hkey => k < r.hkey
  BY <1>1, ConstFacts
<1>9. \A i \in Slot : m.slots[i].valid =>
         m.slots[i].key \in Keys /\ m.lkey <= m.slots[i].key /\ m.slots[i].key < m.hkey
  BY <1>5 DEF LeafOK
<1>10. m.lkey >= MinKey /\ (m.lkey < r.hkey \/ r.hkey = MaxKey)
  BY <1>1, <1>5, ConstFacts DEF LeafOK
<1>11. LeafOK(x)
  BY <1>3, <1>4, <1>7, <1>8, <1>9, <1>10 DEF LeafOK
<1>12. Header(x, p, {m.hkey})
  BY <1>4, <1>5 DEF Header
<1>13. Durable(x.slots, p.slots, {}, {})
  BY <1>3, <1>4, <1>5, <1>6, <1>7 DEF Durable
<1>14. Values(x.slots, p.slots, torn)
  BY <1>3, <1>4, <1>5, <1>6, <1>7 DEF Values, Written
<1>15. \A i \in ValidBitSet(r.slots) :
          /\ r.slots[i].key \in Keys /\ m.lkey <= r.slots[i].key /\ r.slots[i].key < r.hkey
          /\ Written(r.slots[i], torn)
  <2>1. \A i \in ValidBitSet(r.slots) :
           /\ r.slots[i].key \in Keys /\ r.lkey <= r.slots[i].key /\ r.slots[i].key < r.hkey
           /\ Written(r.slots[i], torn)
    BY DEF Files, ValidBitSet
  <2>2. m.lkey <= r.lkey
    BY <1>1, <1>5, <1>10 DEF LeafOK
  <2> QED
    <3>1. \A k \in Keys : r.lkey <= k => m.lkey <= k
      BY <1>1, <2>2, ConstFacts
    <3> QED
      BY <2>1, <3>1
<1>16. Files(final, m.lkey, r.hkey, torn)
  BY <1>2, <1>5, <1>8, <1>9, <1>15 DEF Files
<1> QED
  BY <1>4, <1>5, <1>11, <1>12, <1>13, <1>14, <1>16 DEF LeafState, x, s, final

(* SplitWrite: the median divides the range, and the left half is stored    *)
(* without the bits of new records.                                         *)
LEMMA MedianInside ==
    ASSUME NEW m \in LeafT, NEW p \in LeafT, NEW torn, Quiet(m, p, torn),
           Count(m.slots) >= 1, Median(m.slots) # m.lkey
    PROVE  /\ Median(m.slots) \in Keys /\ Median(m.slots) \in Nat
           /\ m.lkey < Median(m.slots) /\ Median(m.slots) < m.hkey
<1>1. m.slots \in LeafOf(K0, Vals) /\ m.lkey \in Nat /\ m.hkey \in Nat
  BY LeafTypes DEF SlotsT
<1>2. PICK i \in ValidBitSet(m.slots) : Median(m.slots) = m.slots[i].key
  BY <1>1, MedianKey, ConstFacts
<1>3. m.slots[i].key \in Keys /\ m.lkey <= m.slots[i].key /\ m.slots[i].key < m.hkey
  BY QuietIs DEF LeafOK, ValidBitSet
<1>4. Median(m.slots) \in Keys /\ Median(m.slots) \in Nat
  BY <1>2, <1>3, ConstFacts
<1>5. m.lkey <= Median(m.slots) /\ Median(m.slots) < m.hkey
  BY <1>2, <1>3
<1> QED
  BY <1>1, <1>4, <1>5

(* So do those of the two halves of a split.                                *)
LEMMA HalvesFiled ==
    ASSUME NEW m \in LeafT, NEW p \in LeafT, NEW torn, NEW recs \in Seq(RecT), Quiet(m, p, torn),
           \A n \in 1 .. Len(recs) : /\ recs[n].key \in Keys /\ recs[n].val \in ValsOf(recs[n].key)
                                     /\ m.lkey <= recs[n].key /\ recs[n].key < m.hkey,
           Count(m.slots) >= 1, Median(m.slots) # m.lkey
    PROVE  LET median == Median(m.slots)
           IN  /\ Files(SplitLeft(m.slots, recs), m.lkey, median, torn)
               /\ Files(SplitRight(m.slots, recs), median, m.hkey, torn)
<1> DEFINE median == Median(m.slots)
           left   == SplitLeft(m.slots, recs)
           right  == SplitRight(m.slots, recs)
           kept   == Kept(m.slots)
<1>1. /\ m.slots \in LeafOf(K0, Vals) /\ recs \in Seq(RecOf(K0, Vals))
      /\ m.lkey \in Nat /\ m.hkey \in Nat /\ K0 \in SUBSET Nat /\ 0 \in K0 /\ NoVal \in Vals
  BY LeafTypes, ConstFacts DEF SlotsT
<1>2. \A i \in Slot : m.slots[i].valid =>
         /\ m.slots[i].key \in Keys /\ m.lkey <= m.slots[i].key /\ m.slots[i].key < m.hkey
         /\ Written(m.slots[i], torn)
  BY QuietIs DEF LeafOK
<1>3. \A n \in 1 .. Len(recs) : Written(recs[n], torn)
  BY DEF Written
<1>4. /\ left \in SlotsT
      /\ \A i \in Slot :
            \/ left[i] = kept[i]
            \/ \E n \in 1 .. Len(recs) : left[i] = recs[n] /\ recs[n].key < median
  BY <1>1, SplitLeftRefills DEF SlotsT
<1>5. \A i \in Slot : /\ kept[i].key = m.slots[i].key /\ kept[i].val = m.slots[i].val
                      /\ kept[i].valid <=> m.slots[i].valid /\ m.slots[i].key < median
  BY <1>1, KeptIs
<1>6. /\ right \in SlotsT
      /\ \A i \in Slot : right[i].valid =>
            \/ \E j \in ValidBitSet(m.slots) : right[i] = m.slots[j] /\ m.slots[j].key >= median
            \/ \E n \in 1 .. Len(recs) : right[i] = recs[n] /\ recs[n].key >= median
  BY <1>1, SplitRightSlots DEF SlotsT
<1>7. median \in Nat
  BY MedianInside
<1> HIDE DEF left, right, kept, median
<1>8. ASSUME NEW i \in Slot, left[i].valid
      PROVE  /\ left[i].key \in Keys /\ m.lkey <= left[i].key /\ left[i].key < median
             /\ Written(left[i], torn)
  <2>1. CASE left[i] = kept[i]
    BY <1>2, <1>5, <1>8, <2>1 DEF Written
  <2>2. CASE \E n \in 1 .. Len(recs) : left[i] = recs[n] /\ recs[n].key < median
    BY <1>3, <2>2
  <2> QED
    BY <1>4, <2>1, <2>2
<1>9. ASSUME NEW i \in Slot, right[i].valid
      PROVE  /\ right[i].key \in Keys /\ median <= right[i].key /\ right[i].key < m.hkey
             /\ Written(right[i], torn)
  <2>1. CASE \E j \in ValidBitSet(m.slots) : right[i] = m.slots[j] /\ m.slots[j].key >= median
    <3>1. PICK j \in ValidBitSet(m.slots) : right[i] = m.slots[j] /\ m.slots[j].key >= median
      BY <2>1
    <3>2. j \in Slot /\ m.slots[j].valid /\ m.slots[j].key \in Nat
      BY LeafTypes DEF ValidBitSet
    <3> QED
      BY <1>2, <1>7, <3>1, <3>2
  <2>2. CASE \E n \in 1 .. Len(recs) : right[i] = recs[n] /\ recs[n].key >= median
    <3>1. PICK n \in 1 .. Len(recs) : right[i] = recs[n] /\ recs[n].key >= median
      BY <2>2
    <3>2. recs[n].key \in Nat
      BY ConstFacts
    <3> QED
      BY <1>3, <1>7, <3>1, <3>2
  <2> QED
    BY <1>6, <1>9, <2>1, <2>2
<1> QED
  BY <1>4, <1>6, <1>8, <1>9 DEF Files, left, right, median

(* Split has written the left half and flushed nothing: the durable leaf    *)
(* has the old range, and old values of the records that were merged.       *)
LEMMA HalfStored ==
    ASSUME NEW m \in LeafT, NEW p \in LeafT, NEW torn, NEW recs \in Seq(RecT), NEW new \in Nat,
           Quiet(m, p, torn), \A n \in 1 .. Len(recs) : recs[n].val \in ValsOf(recs[n].key),
           Count(m.slots) >= 1, Median(m.slots) # m.lkey
    PROVE  LET median == Median(m.slots)
               x      == [m EXCEPT !.hkey = median, !.next = new, !.slots = Halved(@, recs)]
               stored == {recs[n].key : n \in 1 .. Len(recs)}
           IN  /\ x \in LeafT
               /\ LeafState(x, p, stored, stored \cup {k \in Keys : median <= k /\ k < m.hkey},
                            torn \cup stored, {m.hkey})
<1> DEFINE median == Median(m.slots)
           stored == {recs[n].key : n \in 1 .. Len(recs)}
           old    == stored \cup {k \in Keys : median <= k /\ k < m.hkey}
           left   == SplitLeft(m.slots, recs)
           kept   == Kept(m.slots)
           s      == Unset(kept, left)
           x      == [m EXCEPT !.hkey = median, !.next = new, !.slots = s]
<1>0. Halved(m.slots, recs) = s
  BY DEF Halved, Kept
<1>1. /\ m.slots \in LeafOf(K0, Vals) /\ recs \in Seq(RecOf(K0, Vals))
      /\ m.lkey \in Nat /\ m.hkey \in Nat /\ K0 \in SUBSET Nat /\ 0 \in K0 /\ NoVal \in Vals
  BY LeafTypes, ConstFacts DEF SlotsT
<1>2. /\ left \in SlotsT /\ kept \in SlotsT
      /\ \A i \in Slot :
            \/ left[i] = kept[i]
            \/ \E n \in 1 .. Len(recs) :
                  left[i] = recs[n] /\ (kept[i].valid => recs[n].key = m.slots[i].key)
      /\ \A i \in Slot : /\ kept[i].key = m.slots[i].key /\ kept[i].val = m.slots[i].val
                         /\ kept[i].valid <=> m.slots[i].valid /\ m.slots[i].key < median
  BY <1>1, SplitLeftRefills, KeptIs DEF SlotsT
<1> HIDE DEF left, kept
<1>3. /\ s \in SlotsT
      /\ \A i \in Slot : s[i].key = left[i].key /\ s[i].val = left[i].val /\ s[i].valid = kept[i].valid
  BY <1>2, UnsetIs
<1>4. median \in Keys /\ median \in Nat /\ m.lkey < median /\ median < m.hkey
  BY MedianInside
<1> HIDE DEF s, median
<1>5. x \in LeafT /\ x.lkey = m.lkey /\ x.hkey = median /\ x.next = new /\ x.slots = s
  BY <1>1, <1>3, <1>4 DEF LeafT
<1> HIDE DEF x
<1>6. \A n \in 1 .. Len(recs) : recs[n].key \in Keys /\ recs[n].key \in stored /\ Written(recs[n], torn)
  <2>1. \A n \in 1 .. Len(recs) : recs[n] \in RecT
    OBVIOUS
  <2>2. \A r \in RecT : r.key \in Keys
    BY DEF RecT, RecOf
  <2> QED
    BY <2>1, <2>2 DEF Written
<1>7. /\ LeafOK(m) /\ LeafOK(p) /\ p.lkey = m.lkey /\ p.hkey = m.hkey
      /\ \A i \in Slot :
            /\ m.slots[i].valid => /\ p.slots[i].key = m.slots[i].key
                                   /\ p.slots[i].val = m.slots[i].val
                                   /\ Written(m.slots[i], torn)
            /\ p.slots[i].valid => m.slots[i].valid
            /\ m.slots[i].valid /\ ~p.slots[i].valid =>
                  \A j \in Slot : m.slots[j].valid /\ m.slots[j].key = m.slots[i].key => j = i
  BY QuietIs
<1>8. \A i \in Slot : /\ m.slots[i].valid \in BOOLEAN /\ p.slots[i].valid \in BOOLEAN
                      /\ m.slots[i].key \in Nat
  BY LeafTypes
<1>9. \A i \in Slot : m.slots[i].valid =>
         m.slots[i].key \in Keys /\ m.lkey <= m.slots[i].key /\ m.slots[i].key < m.hkey
  BY <1>7 DEF LeafOK
<1>10. ASSUME NEW i \in Slot
       PROVE  /\ s[i].valid <=> m.slots[i].valid /\ m.slots[i].key < median
              /\ \/ s[i].key = m.slots[i].key /\ s[i].val = m.slots[i].val
                 \/ /\ s[i].key \in stored /\ Written(s[i], torn)
                    /\ s[i].valid => s[i].key = m.slots[i].key
  <2>1. s[i].valid <=> m.slots[i].valid /\ m.slots[i].key < median
    BY <1>2, <1>3
  <2>2. CASE left[i] = kept[i]
    BY <1>2, <1>3, <2>1, <2>2
  <2>3. CASE \E n \in 1 .. Len(recs) :
                left[i] = recs[n] /\ (kept[i].valid => recs[n].key = m.slots[i].key)
    BY <1>3, <1>6, <2>1, <2>3 DEF Written
  <2> QED
    BY <1>2, <2>1, <2>2, <2>3
<1>11. LeafOK(x)
  <2>1. \A i \in Slot : s[i].valid => s[i].key = m.slots[i].key /\ m.slots[i].valid /\ s[i].key < median
    BY <1>10
  <2> QED
    BY <1>4, <1>5, <1>7, <1>9, <2>1 DEF LeafOK
<1>12. Header(x, p, {m.hkey})
  BY <1>5, <1>7 DEF Header
<1>13. Durable(x.slots, p.slots, stored, old)
  <2> SUFFICES ASSUME NEW i \in Slot
               PROVE  /\ s[i].valid => /\ p.slots[i].key = s[i].key
                                       /\ p.slots[i].val = s[i].val \/ s[i].key \in stored
                      /\ p.slots[i].valid /\ ~s[i].valid => p.slots[i].key \in old /\ s[i].key \in old
                      /\ s[i].valid /\ ~p.slots[i].valid =>
                            \A j \in Slot : s[j].valid /\ s[j].key = s[i].key => j = i
    BY <1>5 DEF Durable
  <2>1. s[i].valid => /\ p.slots[i].key = s[i].key
                      /\ p.slots[i].val = s[i].val \/ s[i].key \in stored
    BY <1>7, <1>10
  <2>2. ASSUME p.slots[i].valid, ~s[i].valid
        PROVE  p.slots[i].key \in old /\ s[i].key \in old
    <3>1. m.slots[i].valid /\ p.slots[i].key = m.slots[i].key /\ m.slots[i].key >= median
      BY <1>4, <1>7, <1>8, <1>10, <2>2
    <3>2. m.slots[i].key \in old
      BY <1>9, <3>1
    <3> QED
      BY <1>10, <3>1, <3>2
  <2>3. ASSUME s[i].valid, ~p.slots[i].valid, NEW j \in Slot, s[j].valid, s[j].key = s[i].key
        PROVE  j = i
    <3>1. /\ m.slots[i].valid /\ m.slots[j].valid
          /\ s[i].key = m.slots[i].key /\ s[j].key = m.slots[j].key
      BY <1>10, <2>3
    <3> QED
      BY <1>7, <2>3, <3>1
  <2> QED
    BY <2>1, <2>2, <2>3
<1>14. Values(x.slots, p.slots, torn \cup stored)
  <2> SUFFICES ASSUME NEW i \in Slot, m.slots[i].valid
               PROVE  /\ Written(s[i], torn \cup stored) /\ Written(p.slots[i], torn \cup stored)
                      /\ s[i].key = p.slots[i].key \/ s[i].key \in stored
    BY <1>5, <1>7, <1>8, <1>10 DEF Values
  <2> QED
    BY <1>7, <1>10 DEF Written
<1> QED
  BY <1>0, <1>5, <1>7, <1>11, <1>12, <1>13, <1>14 DEF LeafState, x, median, old

-----------------------------------------------------------------------------
(* The middle layer. *)

(* A nonempty set of numbers with a bound has a largest element.            *)
LEMMA LargestIs ==
    ASSUME NEW S \in SUBSET Nat, NEW b \in Nat, \A x \in S : x <= b, S # {}
    PROVE  \E x \in S : \A y \in S : y <= x
<1>1. {b - x : x \in S} \in SUBSET (0 .. b) /\ {b - x : x \in S} # {}
  <2>1. \A x \in S : b - x \in 0 .. b
    OBVIOUS
  <2>2. PICK x \in S : TRUE
    OBVIOUS
  <2> QED
    BY <2>1, <2>2
<1>2. IsFiniteSet({b - x : x \in S}) /\ {b - x : x \in S} \in SUBSET Nat
  <2>1. IsFiniteSet(0 .. b) /\ 0 .. b \subseteq Nat
    BY FS_Interval
  <2> QED
    BY <1>1, <2>1, FS_Subset
<1>3. PICK m \in {b - x : x \in S} : \A j \in {b - x : x \in S} : m <= j
  BY <1>1, <1>2, LowestIs
<1>4. PICK x \in S : m = b - x
  OBVIOUS
<1>5. ASSUME NEW y \in S PROVE y <= x
  <2>1. b - x <= b - y
    BY <1>3, <1>4
  <2>2. x \in Nat /\ y \in Nat
    OBVIOUS
  <2> QED
    BY ONLY <2>1, <2>2, b \in Nat
<1> QED
  BY <1>5

(* Start takes the node with the largest low key that is not behind the key. *)
LEMMA StartMax ==
    ASSUME \A l \in Live : node[l].lkey \in Nat, NEW k \in Nat, NEW o \in Live, node[o].lkey <= k
    PROVE  /\ Start(k) \in Live /\ node[Start(k)].lkey <= k
           /\ \A m \in Live : node[m].lkey <= k => node[m].lkey <= node[Start(k)].lkey
<1> DEFINE S == {node[l].lkey : l \in {m \in Live : node[m].lkey <= k}}
<1>1. S \in SUBSET Nat /\ S # {} /\ \A x \in S : x <= k
  OBVIOUS
<1>2. PICK x \in S : \A y \in S : y <= x
  <2> HIDE DEF S
  <2> QED
    BY <1>1, LargestIs
<1>3. PICK l \in Live : node[l].lkey = x /\ node[l].lkey <= k
  OBVIOUS
<1>4. \A m \in Live : node[m].lkey <= k => node[m].lkey <= node[l].lkey
  BY <1>2, <1>3
<1> HIDE DEF S
<1> QED
  BY <1>3, <1>4 DEF Start, Live

(* A node is well typed.                                                    *)
LEMMA NodeTypes ==
    ASSUME TileInv, NEW l \in Live
    PROVE  /\ node[l].lkey \in Nat /\ node[l].hkey \in Nat /\ node[l].buffered \in BOOLEAN
           /\ node[l].buf \in Seq(RecT) /\ node[l] \in NodeT
<1>1. node[l] \in NodeT
  BY DEF TileInv
<1> QED
  BY <1>1 DEF NodeT

(* Every key has a node. *)
LEMMA StartIs ==
    ASSUME TileInv, NEW k \in Keys
    PROVE  /\ Start(k) \in Live /\ InNode(k, Start(k)) /\ ~Lost(k)
           /\ \A m \in Live : node[m].lkey <= k => node[m].lkey <= node[Start(k)].lkey
<1>1. \A l \in Live : node[l].lkey \in Nat /\ node[l].hkey \in Nat
  BY NodeTypes
<1>2. PICK o \in Live : node[o].lkey = MinKey
  BY DEF TileInv
<1>3. k \in Nat /\ MinKey <= k /\ k < MaxKey /\ MaxKey \in Nat
  BY ConstFacts
<1> DEFINE s == Start(k)
<1>4. /\ s \in Live /\ node[s].lkey <= k
      /\ \A m \in Live : node[m].lkey <= k => node[m].lkey <= node[s].lkey
  BY <1>1, <1>2, <1>3, StartMax
<1> HIDE DEF s
<1>5. k < node[s].hkey
  <2>1. CASE node[s].hkey = MaxKey
    BY <1>3, <2>1
  <2>2. CASE node[s].hkey # MaxKey
    <3>1. node[s].lkey < node[s].hkey /\ \E m \in Live : node[m].lkey = node[s].hkey
      BY <1>4, <2>2 DEF TileInv, Tiled
    <3>2. PICK m \in Live : node[m].lkey = node[s].hkey
      BY <3>1
    <3>3. ~(node[m].lkey <= k)
      BY <1>1, <1>4, <3>1, <3>2
    <3> QED
      BY <1>1, <1>3, <1>4, <3>2, <3>3
  <2> QED
    BY <2>1, <2>2
<1>6. ~Lost(k)
  <2>1. ~(k >= node[s].hkey)
    BY <1>1, <1>3, <1>4, <1>5
  <2>2. ~(\A l \in DOMAIN node : node[l].lkey > k)
    BY <1>1, <1>3, <1>4 DEF Live
  <2> QED
    BY <2>1, <2>2 DEF Lost, s
<1> QED
  BY <1>4, <1>5, <1>6 DEF InNode, s

(* The node whose low key is another node's high key comes next. *)
LEMMA NextNodeIs ==
    ASSUME TileInv, NEW n \in Live, NEW r \in Live,
           node[n].hkey # MaxKey, node[r].lkey = node[n].hkey
    PROVE  /\ NextNode(n) = r /\ r # n /\ node[n].lkey < node[r].lkey
           /\ node[r].lkey < node[r].hkey \/ node[r].hkey = MaxKey
           /\ \A l \in Live : node[l].hkey = node[r].lkey => l = n
           /\ \A l \in Live : node[l].lkey > node[n].lkey => l = r \/ node[l].lkey > node[r].lkey
<1>1. \A l \in Live : node[l].lkey \in Nat /\ node[l].hkey \in Nat
  BY NodeTypes
<1>2. \A l \in Live : node[l].hkey = MaxKey \/ node[l].lkey < node[l].hkey
  BY DEF TileInv, Tiled
<1>3. /\ \A l, m \in Live : ~(node[l].lkey < node[m].lkey /\ node[m].lkey < node[l].hkey)
      /\ \A l, m \in Live : node[l].lkey = node[m].lkey => l = m
  BY DEF TileInv, Overlap
<1>4. node[n].lkey < node[r].lkey /\ r # n
  BY <1>1, <1>2
<1>5. \A l \in Live : node[l].lkey > node[n].lkey => l = r \/ node[l].lkey > node[r].lkey
  BY <1>1, <1>3
<1>6. NextNode(n) = r
  <2>1. \A o \in Live : node[o].lkey > node[n].lkey => node[r].lkey <= node[o].lkey
    BY <1>1, <1>5
  <2>2. \A m \in Live : /\ node[m].lkey > node[n].lkey
                        /\ \A o \in Live : node[o].lkey > node[n].lkey => node[m].lkey <= node[o].lkey
                        => m = r
    BY <1>1, <1>4, <1>5
  <2>3. node[r].lkey > node[n].lkey
    BY <1>1, <1>4
  <2> QED
    BY <2>1, <2>2, <2>3 DEF NextNode, Live
<1>7. ASSUME NEW l \in Live, node[l].hkey = node[r].lkey
      PROVE  l = n
  <2>1. node[l].lkey < node[l].hkey /\ node[n].lkey < node[n].hkey /\ node[l].hkey = node[n].hkey
    BY <1>2, <1>7
  <2>2. ~(node[l].lkey < node[n].lkey) /\ ~(node[n].lkey < node[l].lkey)
    BY <1>3, <2>1
  <2> QED
    BY <1>1, <1>3, <2>2
<1> QED
  BY <1>2, <1>4, <1>5, <1>6, <1>7

-----------------------------------------------------------------------------
(* What one step leaves alone. *)

(* Something is under way at leaf l.                                        *)
Stirred(l) == Busy(l, {"update", "flush_leaf", "erase", "merge_flush",
                       "split_left", "split_right", "split_bits"})

(* Where nothing is under way, the invariant of a leaf says that it is      *)
(* quiet.                                                                   *)
LEMMA CalmLeaf ==
    ASSUME NEW l, ~Stirred(l)
    PROVE  LeafInv(l) <=> l \in 1 .. leaves /\ Quiet(mem[l], pmem[l], crash.torn)
<1>1. NewVals(l) = {} /\ OldBits(l) = {} /\ TornAt(l) = crash.torn /\ OldHkeys(l) = {}
  BY DEF Stirred, Busy, NewVals, OldBits, TornAt, OldHkeys
<1> QED
  BY <1>1 DEF LeafInv, Quiet

(* The same after a step.                                                   *)
LEMMA CalmLeafNext ==
    ASSUME NEW l, ~Stirred(l)'
    PROVE  LeafInv(l)' <=> l \in 1 .. leaves' /\ Quiet(mem'[l], pmem'[l], crash'.torn)
<1>1. (NewVals(l) = {})' /\ (OldBits(l) = {})' /\ (TornAt(l) = crash.torn)' /\ (OldHkeys(l) = {})'
  BY DEF Stirred, Busy, NewVals, OldBits, TornAt, OldHkeys
<1> QED
  BY <1>1 DEF LeafInv, Quiet

(* A leaf with which the call has nothing to do keeps its state.            *)
LEMMA LeafKept ==
    ASSUME NEW l, LeafInv(l), ~Stirred(l), ~Stirred(l)', leaves' >= leaves,
           leaves \in Nat, leaves' \in Nat,
           mem'[l] = mem[l], pmem'[l] = pmem[l], crash' = crash
    PROVE  LeafInv(l)'
<1>1. l \in 1 .. leaves /\ Quiet(mem[l], pmem[l], crash.torn)
  BY CalmLeaf
<1>2. Quiet(mem'[l], pmem'[l], crash'.torn)
  BY <1>1
<1> QED
  BY <1>1, <1>2, CalmLeafNext

(* The state is well typed at a node and at its leaf. *)
LEMMA StateTypes ==
    ASSUME TypeInv
    PROVE  /\ leaves \in Nat /\ leaves >= 1 /\ leaves <= MaxLeaves /\ MaxLeaves \in Nat
           /\ Leaf \subseteq Nat /\ 1 .. leaves \subseteq Leaf /\ Live \subseteq Leaf
           /\ \A l \in Leaf : mem[l] \in LeafT /\ pmem[l] \in LeafT
           /\ Len(jobs) \in Nat /\ \A i \in 1 .. Len(jobs) : jobs[i] \in JobT
<1>1. MaxLeaves \in Nat
  BY BoundsAssumption
<1>2. /\ leaves \in Leaf /\ mem \in [Leaf -> LeafT] /\ pmem \in [Leaf -> LeafT]
      /\ Live \subseteq 1 .. leaves /\ jobs \in Seq(JobT)
  BY DEF TypeInv
<1> QED
  BY <1>1, <1>2 DEF Leaf

(* A step at one leaf and its node: the header of the volatile leaf stays,  *)
(* and so do the range of the node, the other leaves, the index and the     *)
(* jobs.                                                                    *)
LEMMA LeafStep ==
    ASSUME TypeInv, UpInv, NEW n \in Live,
           UNCHANGED <<leaves, index, weak, jobs, mixed, mode, crash>>,
           mem' \in [Leaf -> LeafT], pmem' \in [Leaf -> LeafT],
           \A l \in Leaf \ {n} : mem'[l] = mem[l] /\ (pmem'[l] = pmem[l] \/ l \notin Known),
           mem'[n].lkey = mem[n].lkey, mem'[n].hkey = mem[n].hkey, mem'[n].next = mem[n].next,
           DOMAIN node' = DOMAIN node, node' \in [DOMAIN node -> NodeT],
           \A l \in Live : node'[l].lkey = node[l].lkey /\ node'[l].hkey = node[l].hkey,
           InSplit' <=> InSplit, InMerge' <=> InMerge,
           InSplit \/ InMerge => op'.node = op.node /\ op'.new = op.new,
           op.pc = "idle" \/ op.node = n, op'.pc = "idle" \/ op'.node = n,
           LeafInv(n)'
    PROVE  TypeInv' /\ TileInv' /\ LinkInv' /\ LeavesInv' /\ JobInv'
<1> USE DEF Live
<1>1. /\ leaves \in Nat /\ Leaf \subseteq Nat /\ 1 .. leaves \subseteq Leaf /\ Live \subseteq Leaf
      /\ n \in Leaf
  BY StateTypes
<1>2. TypeInv'
  BY DEF TypeInv
<1>3. TileInv'
  <2>1. TileInv
    BY DEF UpInv
  <2>2. \A l \in Live : Tiled(l)'
    BY <2>1 DEF TileInv, Tiled
  <2>3. \A l, m \in Live : ~Overlap(l, m)'
    BY <2>1 DEF TileInv, Overlap
  <2> QED
    BY <2>1, <2>2, <2>3 DEF TileInv
<1>4. \A l \in Leaf : /\ mem'[l].lkey = mem[l].lkey /\ mem'[l].hkey = mem[l].hkey
                      /\ mem'[l].next = mem[l].next
  OBVIOUS
<1>5. \A next, hkey : NextIs(next, hkey)' <=> NextIs(next, hkey)
  BY DEF NextIs
<1>6. LinkInv'
  <2>0. LinkInv /\ TileInv
    BY DEF UpInv
  <2>1. ASSUME NEW l \in Live
        PROVE  /\ mem'[l].lkey = node'[l].lkey
               /\ (l = op'.node /\ (InSplit' \/ InMerge')) \/ Linked(l)'
    <3>1. mem'[l].lkey = node'[l].lkey
      BY <1>1, <1>4, <2>0 DEF LinkInv
    <3>2. Linked(l) => Linked(l)'
      BY <1>1, <1>4, <1>5 DEF Linked
    <3>3. (l = op.node /\ (InSplit \/ InMerge)) \/ Linked(l)
      BY <2>0 DEF LinkInv
    <3> QED
      BY <3>1, <3>2, <3>3
  <2>2. ASSUME InSplit'
        PROVE  SplitLink(op.node, op.new)'
    <3>1. SplitLink(op.node, op.new) /\ op'.node = op.node /\ op'.new = op.new /\ op.node = n
      BY <2>0, <2>2 DEF LinkInv, InSplit
    <3>2. op.new \in Leaf
      BY <1>1, <3>1 DEF SplitLink
    <3>3. SplitLink(n, op.new)'
      BY <1>1, <1>4, <1>5, <3>1, <3>2 DEF SplitLink
    <3> QED
      BY <3>1, <3>3
  <2>3. ASSUME InMerge'
        PROVE  \E r \in Live : MergeLink(op.node, r)'
    <3>1. PICK r \in Live : MergeLink(op.node, r)
      BY <2>0, <2>3 DEF LinkInv
    <3>2. op'.node = op.node /\ op.node = n
      BY <2>3 DEF InMerge
    <3>3. MergeLink(n, r)'
      BY <1>1, <1>4, <1>5, <3>1, <3>2 DEF MergeLink
    <3> QED
      BY <3>2, <3>3
  <2> QED
    BY <2>1, <2>2, <2>3 DEF LinkInv
<1>7. LeavesInv'
  <2> SUFFICES ASSUME NEW l \in Known' PROVE LeafInv(l)'
    BY DEF LeavesInv
  <2>1. l \in Known /\ LeafInv(l)
    BY DEF Known, UpInv, LeavesInv
  <2>2. l \in 1 .. leaves
    BY <2>1 DEF LeafInv
  <2>3. CASE l = n
    BY <2>3
  <2>4. CASE l # n
    <3>1. ~Stirred(l) /\ ~Stirred(l)'
      BY <2>4 DEF Stirred, Busy
    <3>2. mem'[l] = mem[l] /\ pmem'[l] = pmem[l]
      BY <1>1, <2>1, <2>2, <2>4
    <3> QED
      BY <1>1, <2>1, <3>1, <3>2, LeafKept
  <2> QED
    BY <2>3, <2>4
<1>8. JobInv'
  <2>0. JobInv /\ LeavesInv
    BY DEF UpInv
  <2>1. \A l \in Known : l \in Leaf
    BY <1>1, <2>0 DEF LeavesInv, LeafInv
  <2>2. /\ \A e \in index \cup weak : e.leaf \in Leaf
        /\ \A i \in 1 .. Len(jobs) : jobs[i].leaf \in Leaf
    BY <2>1 DEF Known
  <2>3. /\ \A e \in index' \cup weak' : e.key = mem'[e.leaf].lkey
        /\ \A i \in 1 .. Len(jobs') : jobs'[i].key = mem'[jobs'[i].leaf].lkey
    BY <1>4, <2>0, <2>2 DEF JobInv
  <2>4. /\ \A i : (FirstJob(i)' <=> FirstJob(i)) /\ (LastJob(i)' <=> LastJob(i))
        /\ \A i : (FirstOK(i)' <=> FirstOK(i)) /\ (LastOK(i)' <=> LastOK(i))
        /\ \A i, j : (NextJob(i, j)' <=> NextJob(i, j)) /\ (NextOK(i, j)' <=> NextOK(i, j))
        /\ \A k : NoJob(k)' <=> NoJob(k)
    BY DEF FirstJob, LastJob, FirstOK, LastOK, NextJob, NextOK, NoJob, SameKey, Entry
  <2> QED
    BY <2>0, <2>3, <2>4 DEF JobInv, Entry
<1> QED
  BY <1>2, <1>3, <1>6, <1>7, <1>8

-----------------------------------------------------------------------------
(* The steps of a call. *)

(* While the process is up it is enough to keep the parts of the            *)
(* invariant.                                                               *)
LEMMA UpNext ==
    ASSUME TypeInv', UpInv', mode' = "up"
    PROVE  IInv'
  BY DEF IInv

(* While the process is up the parts of the invariant hold.                 *)
LEMMA UpNow ==
    ASSUME IInv, mode = "up"
    PROVE  /\ TypeInv /\ UpInv /\ TileInv /\ BufInv /\ LinkInv /\ LeavesInv /\ OpInv /\ JobInv
  BY DEF IInv, UpInv

(* A step that ends the call leaves nothing under way.                      *)
LEMMA IdleNext ==
    ASSUME op'.pc = "idle", DOMAIN op' = DOMAIN NoOp
    PROVE  OpInv' /\ ~InSplit' /\ ~InMerge' /\ \A l : ~Stirred(l)'
  BY DEF OpInv, InSplit, InMerge, Stirred, Busy

(* A leaf at which nothing is under way.                                    *)
LEMMA CalmFacts ==
    ASSUME TypeInv, UpInv, NEW n \in Live, ~Stirred(n)
    PROVE  /\ n \in Leaf /\ n \in 1 .. leaves /\ mem[n] \in LeafT /\ pmem[n] \in LeafT
           /\ Quiet(mem[n], pmem[n], crash.torn) /\ LeafInv(n)
           /\ mem[n].lkey = node[n].lkey
           /\ node[n].lkey \in Nat /\ node[n].hkey \in Nat /\ node[n].buf \in Seq(RecT)
           /\ ~InSplit /\ ~InMerge => Linked(n) /\ mem[n].hkey = node[n].hkey
<1>1. LeafInv(n)
  BY DEF UpInv, LeavesInv, Known
<1>2. n \in 1 .. leaves /\ Quiet(mem[n], pmem[n], crash.torn)
  BY <1>1, CalmLeaf
<1>3. n \in Leaf /\ mem[n] \in LeafT /\ pmem[n] \in LeafT
  BY <1>2, StateTypes
<1>4. /\ mem[n].lkey = node[n].lkey
      /\ ~InSplit /\ ~InMerge => Linked(n) /\ mem[n].hkey = node[n].hkey
  BY DEF UpInv, LinkInv, Linked
<1> QED
  BY <1>1, <1>2, <1>3, <1>4, NodeTypes DEF UpInv

(* A call starts at the node of its key, whose leaf is quiet.               *)
LEMMA BeginFacts ==
    ASSUME TypeInv, UpInv, op.pc = "idle", NEW k \in Keys
    PROVE  LET n == Start(k)
           IN  /\ n \in Live /\ InNode(k, n) /\ ~Stirred(n) /\ ~InSplit /\ ~InMerge
               /\ mem[n].lkey <= k /\ k < mem[n].hkey
<1>1. ~InSplit /\ ~InMerge /\ \A n : ~Stirred(n)
  BY DEF InSplit, InMerge, Stirred, Busy
<1>2. Start(k) \in Live /\ InNode(k, Start(k))
  BY StartIs DEF UpInv
<1>3. mem[Start(k)].lkey = node[Start(k)].lkey /\ mem[Start(k)].hkey = node[Start(k)].hkey
  BY <1>1, <1>2, CalmFacts
<1> QED
  BY <1>1, <1>2, <1>3 DEF InNode

(* The batch that a flush or a split files. *)
LEMMA ToMergeIs ==
    ASSUME TypeInv, UpInv, op.pc = "idle", NEW k \in Keys, NEW v \in ValsOf(k)
    PROVE  LET n == Start(k)
               recs == ToMerge(n, k, v)
           IN  /\ recs \in Seq(RecT)
               /\ \A i \in 1 .. Len(recs) :
                     /\ GoodRec(recs[i], n) /\ recs[i].key \in {k} \cup BufKeys(n)
                     /\ recs[i].key \in Keys /\ recs[i].val \in ValsOf(recs[i].key)
                     /\ mem[n].lkey <= recs[i].key /\ recs[i].key < mem[n].hkey
<1> DEFINE n == Start(k)
           b == node[n].buf
           r == Rec(k, v)
           recs == ToMerge(n, k, v)
<1>1. n \in Live /\ InNode(k, n) /\ ~Stirred(n) /\ ~InSplit /\ ~InMerge
  BY BeginFacts
<1> HIDE DEF n
<1>2. /\ b \in Seq(RecT) /\ mem[n].lkey = node[n].lkey /\ mem[n].hkey = node[n].hkey
  BY <1>1, CalmFacts
<1>3. r \in RecT /\ r.key = k /\ r.val = v
  BY ConstFacts DEF Rec
<1>4. recs = b \o <<r>>
  BY DEF ToMerge
<1>5. \A i \in 1 .. Len(b) : GoodRec(b[i], n) /\ b[i].key \in BufKeys(n)
  BY <1>1 DEF UpInv, BufInv, BufKeys
<1>6. GoodRec(r, n)
  BY <1>1, <1>3 DEF GoodRec
<1>7. \A s : GoodRec(s, n) => s.key \in Keys /\ s.val \in ValsOf(s.key)
                             /\ mem[n].lkey <= s.key /\ s.key < mem[n].hkey
  BY <1>2 DEF GoodRec, RecT, RecOf, InNode
<1> HIDE DEF b, r, recs
<1>8. recs \in Seq(RecT) /\ \A i \in 1 .. Len(recs) : recs[i] = r \/ \E j \in 1 .. Len(b) : recs[i] = b[j]
  BY <1>2, <1>3, <1>4
<1>9. \A i \in 1 .. Len(recs) : GoodRec(recs[i], n) /\ recs[i].key \in {k} \cup BufKeys(n)
  BY <1>3, <1>5, <1>6, <1>8
<1> QED
  BY <1>7, <1>8, <1>9 DEF n, recs

(* CreateLogsForThread and RemoveReturn change the logs only.               *)
LEMMA LogStep ==
    ASSUME IInv, mode = "up", UNCHANGED <<leafVars, poolVars, procVars, node>>,
           op' \in {op, NoOp}, ~InSplit, ~InMerge, op.pc \in {"idle", "merge", "removed"}
    PROVE  IInv'
<1>1. TypeInv /\ UpInv
  BY UpNow
<1>2. PICK n \in Live : node[n].lkey = MinKey
  BY <1>1 DEF UpInv, TileInv
<1>3. /\ leaves' = leaves /\ mem' = mem /\ pmem' = pmem /\ index' = index /\ weak' = weak
      /\ jobs' = jobs /\ mixed' = mixed /\ mode' = mode /\ crash' = crash /\ node' = node
  BY DEF leafVars, poolVars, procVars
<1>a. NoOp.pc = "idle"
  BY DEF NoOp
<1>4. /\ \A l : ~Stirred(l) /\ ~Stirred(l)'
      /\ ~InSplit' /\ ~InMerge'
  BY <1>a DEF Stirred, Busy, InSplit, InMerge
<1>5. PICK o \in Live : op.pc = "idle" \/ op.node = o
  BY <1>1, <1>2 DEF UpInv, OpInv, OpTypes
<1>6. LeafInv(o)'
  <2>1. LeafInv(o)
    BY <1>1, <1>4, CalmFacts
  <2> QED
    BY <1>1, <1>3, <1>4, <2>1, LeafKept, StateTypes
<1>7. TypeInv' /\ TileInv' /\ LinkInv' /\ LeavesInv' /\ JobInv'
  <2>1. mem \in [Leaf -> LeafT] /\ pmem \in [Leaf -> LeafT] /\ node \in [Live -> NodeT]
    BY <1>1 DEF TypeInv, UpInv, TileInv
  <2>2. op'.pc = "idle" \/ op'.node = o
    BY <1>5, <1>a
  <2> QED
    BY <1>1, <1>3, <1>4, <1>5, <1>6, <2>1, <2>2, LeafStep DEF Live
<1>8. BufInv'
  BY <1>1, <1>3 DEF UpInv, BufInv, Live, GoodRec, InNode
<1>9. OpInv'
  <2>1. CASE op' = NoOp
    BY <1>a, <2>1, IdleNext
  <2>2. CASE op' = op
    BY SMTT(30), ZenonT(30), <1>1, <1>3, <2>2 DEF UpInv, OpInv, OpTypes, Updates, Fills, Filed, InSplit, InMerge, Live,
                            GoodRec, InNode, BufKeys, Known
  <2> QED
    BY <2>1, <2>2
<1> QED
  BY <1>3, <1>7, <1>8, <1>9, UpNext DEF UpInv

(* A record goes to a buffer. *)
LEMMA BufInsertIs ==
    ASSUME NEW b \in Seq(RecT), NEW r \in RecT, r = Rec(r.key, r.val), NEW cap \in Nat,
           Len(b) <= cap, {i \in 1 .. Len(b) : b[i].key = r.key} # {} \/ Len(b) < cap
    PROVE  LET new == BufInsert(b, r.key, r.val)
           IN  /\ new \in Seq(RecT) /\ Len(new) <= cap
               /\ \A i \in 1 .. Len(new) : new[i] = r \/ \E j \in 1 .. Len(b) : new[i] = b[j]
<1>1. CASE \E i \in 1 .. Len(b) : b[i].key = r.key
  <2> DEFINE new == [i \in 1 .. Len(b) |-> IF b[i].key = r.key THEN r ELSE b[i]]
  <2>1. BufInsert(b, r.key, r.val) = new
    BY <1>1 DEF BufInsert
  <2>2. \A i \in 1 .. Len(b) : b[i] \in RecT
    OBVIOUS
  <2>3. new \in Seq(RecT) /\ Len(new) = Len(b)
    BY <2>2
  <2>4. \A i \in 1 .. Len(b) : new[i] = r \/ new[i] = b[i]
    OBVIOUS
  <2> QED
    BY <2>1, <2>3, <2>4
<1>2. CASE ~\E i \in 1 .. Len(b) : b[i].key = r.key
  <2>1. BufInsert(b, r.key, r.val) = b \o <<r>>
    BY <1>2 DEF BufInsert
  <2>2. Len(b) < cap /\ Len(b) \in Nat
    BY <1>2
  <2>3. b \o <<r>> \in Seq(RecT) /\ Len(b \o <<r>>) = Len(b) + 1
    OBVIOUS
  <2>4. \A i \in 1 .. Len(b) + 1 : (b \o <<r>>)[i] = r \/ \E j \in 1 .. Len(b) : (b \o <<r>>)[i] = b[j]
    OBVIOUS
  <2> QED
    BY <2>1, <2>2, <2>3, <2>4
<1> QED
  BY <1>1, <1>2

(* An insertion into the write buffer touches no leaf.                      *)
LEMMA InsertBufferInv ==
    ASSUME IInv, NEW t, NEW k \in Keys, NEW v \in ValsOf(k), InsertBuffer(t, k, v)
    PROVE  IInv'
<1>0. mode = "up" /\ op.pc = "idle" /\ TypeInv /\ UpInv
  BY UpNow DEF InsertBuffer, Begin
<1>a. PICK n \in Live : n = Start(k)
  BY <1>0, BeginFacts
<1> DEFINE b == node[n].buf
           new == BufInsert(b, k, v)
<1>1. /\ mode = "up" /\ op.pc = "idle" /\ BufferTakes(n, k)
      /\ node' = [node EXCEPT ![n].buf = new]
      /\ leaves' = leaves /\ mem' = mem /\ pmem' = pmem /\ index' = index /\ weak' = weak
      /\ jobs' = jobs /\ mixed' = mixed /\ mode' = mode /\ crash' = crash /\ op' = op
  BY <1>a DEF InsertBuffer, Begin, leafVars, poolVars, procVars
<1>2. TypeInv /\ UpInv
  BY <1>0
<1>3. n \in Live /\ InNode(k, n) /\ ~Stirred(n) /\ ~InSplit /\ ~InMerge
  BY <1>0, <1>a, BeginFacts
<1>4. BufferTakes(n, k) => InBuf(n, k) # {} \/ Len(b) < BufferCapacity
  BY DEF BufferTakes
<1>5. b \in Seq(RecT) /\ LeafInv(n) /\ n \in Leaf /\ node \in [Live -> NodeT]
  BY <1>2, <1>3, CalmFacts DEF UpInv, TileInv
<1>6. /\ Len(b) <= BufferCapacity /\ BufferCapacity \in Nat
      /\ \A i \in 1 .. Len(b) : GoodRec(b[i], n)
  BY <1>2, <1>3, CapacityAssumption DEF UpInv, BufInv
<1>7. Rec(k, v) \in RecT /\ Rec(k, v).key = k /\ Rec(k, v).val = v
  BY ConstFacts DEF Rec
<1>8. /\ new \in Seq(RecT) /\ Len(new) <= BufferCapacity
      /\ \A i \in 1 .. Len(new) : new[i] = Rec(k, v) \/ \E j \in 1 .. Len(b) : new[i] = b[j]
  <2>1. {i \in 1 .. Len(b) : b[i].key = k} # {} \/ Len(b) < BufferCapacity
    BY <1>1, <1>4 DEF InBuf
  <2> HIDE DEF b
  <2> QED
    BY <1>5, <1>6, <1>7, <2>1, BufInsertIs
<1> HIDE DEF new
<1>9. /\ node' \in [Live -> NodeT]
      /\ \A l \in Live : /\ node'[l].lkey = node[l].lkey /\ node'[l].hkey = node[l].hkey
                         /\ node'[l].buf = IF l = n THEN new ELSE node[l].buf
  <2>1. \A l \in Live : node[l] \in NodeT
    BY <1>5
  <2>2. [node[n] EXCEPT !.buf = new] \in NodeT
    BY <1>3, <1>8, <2>1 DEF NodeT
  <2>3. \A l \in Live : node'[l] = IF l = n THEN [node[n] EXCEPT !.buf = new] ELSE node[l]
    BY <1>1, <1>5
  <2>4. node' \in [Live -> NodeT]
    BY <1>1, <1>5, <2>1, <2>2
  <2> QED
    BY <1>3, <2>1, <2>3, <2>4 DEF NodeT
<1>10. ~InSplit' /\ ~InMerge' /\ (\A l : ~Stirred(l)') /\ OpInv'
  BY <1>0, <1>1, IdleNext DEF UpInv, OpInv
<1>11. LeafInv(n)'
  BY <1>1, <1>2, <1>3, <1>5, <1>10, LeafKept, StateTypes
<1>12. TypeInv' /\ TileInv' /\ LinkInv' /\ LeavesInv' /\ JobInv'
  <2>1. mem \in [Leaf -> LeafT] /\ pmem \in [Leaf -> LeafT]
    BY <1>2 DEF TypeInv
  <2>2. DOMAIN node' = DOMAIN node /\ node' \in [DOMAIN node -> NodeT]
    BY <1>9 DEF Live
  <2> QED
    BY <1>1, <1>2, <1>3, <1>9, <1>10, <1>11, <2>1, <2>2, LeafStep
<1>13. BufInv'
  <2>1. Live' = Live
    BY <1>9 DEF Live
  <2>3. GoodRec(Rec(k, v), n)
    BY <1>3, <1>7 DEF GoodRec
  <2>4. \A i \in 1 .. Len(new) : GoodRec(new[i], n)
    BY <1>6, <1>8, <2>3
  <2> SUFFICES ASSUME NEW l \in Live
               PROVE  /\ Len(node'[l].buf) <= BufferCapacity
                      /\ \A i \in 1 .. Len(node'[l].buf) : GoodRec(node[l].buf[i], l)'
    BY <2>1 DEF BufInv
  <2>5. /\ Len(node'[l].buf) <= BufferCapacity
        /\ \A i \in 1 .. Len(node'[l].buf) : GoodRec(node'[l].buf[i], l)
    BY <1>2, <1>3, <1>8, <1>9, <2>4 DEF UpInv, BufInv
  <2>6. \A i : GoodRec(node[l].buf[i], l)' <=> GoodRec(node'[l].buf[i], l)
    BY <1>9 DEF GoodRec, InNode
  <2> QED
    BY <2>5, <2>6
<1> QED
  BY <1>1, <1>10, <1>12, <1>13, UpNext DEF UpInv

(* A store to one leaf, with the nodes as they are.                         *)
LEMMA StoreStep ==
    ASSUME IInv, mode = "up", NEW n \in Live, NEW x \in LeafT, NEW y \in LeafT,
           UNCHANGED <<leaves, index, weak, jobs, mixed, mode, crash, node>>,
           mem' = [mem EXCEPT ![n] = x], pmem' = [pmem EXCEPT ![n] = y],
           x.lkey = mem[n].lkey, x.hkey = mem[n].hkey, x.next = mem[n].next,
           InSplit' <=> InSplit, InMerge' <=> InMerge,
           InSplit \/ InMerge => op'.node = op.node /\ op'.new = op.new,
           op.pc = "idle" \/ op.node = n, op'.pc = "idle" \/ op'.node = n,
           LeafInv(n)', OpInv'
    PROVE  IInv'
<1>1. TypeInv /\ UpInv
  BY UpNow
<1>2. /\ mem \in [Leaf -> LeafT] /\ pmem \in [Leaf -> LeafT] /\ node \in [DOMAIN node -> NodeT]
      /\ n \in Leaf
  BY <1>1, StateTypes DEF TypeInv, UpInv, TileInv, Live
<1>3. /\ mem' \in [Leaf -> LeafT] /\ pmem' \in [Leaf -> LeafT]
      /\ mem'[n] = x /\ pmem'[n] = y
      /\ \A l \in Leaf \ {n} : mem'[l] = mem[l] /\ (pmem'[l] = pmem[l] \/ l \notin Known)
  BY <1>2
<1>4. /\ DOMAIN node' = DOMAIN node /\ node' \in [DOMAIN node -> NodeT]
      /\ \A l \in Live : node'[l].lkey = node[l].lkey /\ node'[l].hkey = node[l].hkey
  BY <1>2
<1>5. TypeInv' /\ TileInv' /\ LinkInv' /\ LeavesInv' /\ JobInv'
  BY <1>1, <1>3, <1>4, LeafStep
<1>6. BufInv'
  BY <1>1 DEF UpInv, BufInv, Live, GoodRec, InNode
<1> QED
  BY <1>5, <1>6, UpNext DEF UpInv

(* What a call that begins knows of itself.                                 *)
LEMMA BeginOpTypes ==
    ASSUME IInv, mode = "up", op.pc = "idle", NEW k \in Keys, node' = node,
           op'.node = Start(k), op'.key = k,
           op'.recs = <<>> \/ \E v \in ValsOf(k) : op'.recs = ToMerge(Start(k), k, v)
    PROVE  OpTypes'
<1>1. TypeInv /\ UpInv
  BY UpNow
<1>2. PICK n \in Live : n = Start(k)
  BY <1>1, BeginFacts
<1>3. n \in Live /\ InNode(k, n)
  BY <1>1, <1>2, BeginFacts
<1>4. /\ op'.recs \in Seq(RecT)
      /\ \A i \in 1 .. Len(op'.recs) : /\ GoodRec(op'.recs[i], n)
                                       /\ op'.recs[i].key \in {k} \cup BufKeys(n)
  <2>1. CASE op'.recs = <<>>
    BY <2>1
  <2>2. CASE \E v \in ValsOf(k) : op'.recs = ToMerge(Start(k), k, v)
    BY <1>1, <1>2, <2>2, ToMergeIs
  <2> QED
    BY <2>1, <2>2
<1>5. op'.node = n
  BY <1>2
<1>6. \A l \in Live : BufKeys(l)' = BufKeys(l)
  BY DEF BufKeys
<1>7. \A i \in 1 .. Len(op'.recs) : /\ GoodRec(op.recs[i], op.node)'
                                    /\ op'.recs[i].key \in {op'.key} \cup BufKeys(op.node)'
  BY <1>4, <1>5, <1>6 DEF GoodRec, InNode, BufKeys
<1> QED
  BY <1>3, <1>4, <1>5, <1>7 DEF OpTypes, InNode, Live

(* The batch writer of BottomLayer::Insert writes records and no bits.      *)
LEMMA InsertFlushesInv ==
    ASSUME IInv, NEW t, NEW k \in Keys, NEW v \in ValsOf(k), InsertFlushes(t, k, v)
    PROVE  IInv'
<1>0. mode = "up" /\ op.pc = "idle" /\ TypeInv /\ UpInv
  BY UpNow DEF InsertFlushes, Begin
<1>a. PICK n \in Live : n = Start(k)
  BY <1>0, BeginFacts
<1> DEFINE recs == ToMerge(n, k, v)
           x == [mem[n] EXCEPT !.slots = Unset(@, InsertBatch(@, recs))]
<1>1. /\ mem' = [mem EXCEPT ![n] = x]
      /\ leaves' = leaves /\ pmem' = pmem /\ index' = index /\ weak' = weak /\ node' = node
      /\ jobs' = jobs /\ mixed' = mixed /\ mode' = mode /\ crash' = crash
  BY <1>a DEF InsertFlushes, Begin, poolVars, procVars
<1>2. /\ op'.pc = "flush_leaf" /\ op'.recs = recs /\ op'.node = n /\ op'.key = k
      /\ DOMAIN op' = DOMAIN NoOp
  BY <1>a DEF InsertFlushes, Call, NoOp
<1>3. ~Stirred(n) /\ ~InSplit /\ ~InMerge
  BY <1>0, <1>a, BeginFacts
<1>4. n \in Leaf /\ n \in 1 .. leaves /\ mem[n] \in LeafT /\ pmem[n] \in LeafT
      /\ Quiet(mem[n], pmem[n], crash.torn) /\ pmem \in [Leaf -> LeafT] /\ mem \in [Leaf -> LeafT]
  BY <1>0, <1>3, CalmFacts DEF TypeInv
<1>5. recs \in Seq(RecT) /\ \A i \in 1 .. Len(recs) : recs[i].val \in ValsOf(recs[i].key)
  BY <1>0, <1>a, ToMergeIs
<1>6. x \in LeafT /\ LeafState(x, pmem[n], {recs[i].key : i \in 1 .. Len(recs)}, {}, crash.torn, {})
  <2> HIDE DEF recs
  <2> QED
    BY <1>4, <1>5, BatchStored
<1>7. x.lkey = mem[n].lkey /\ x.hkey = mem[n].hkey /\ x.next = mem[n].next
  BY <1>4 DEF LeafT
<1> HIDE DEF x, recs
<1>8. ~InSplit' /\ ~InMerge'
  BY <1>2 DEF InSplit, InMerge
<1>9. OpInv'
  <2>1. OpTypes'
    BY <1>0, <1>1, <1>2, <1>a, BeginOpTypes DEF recs
  <2> QED
    BY <1>2, <1>8, <2>1 DEF OpInv
<1>10. LeafInv(n)'
  <2>1. mem'[n] = x /\ pmem'[n] = pmem[n]
    BY <1>1, <1>4
  <2>2. /\ NewVals(n)' = {recs[i].key : i \in 1 .. Len(recs)} /\ OldBits(n)' = {}
        /\ TornAt(n)' = crash.torn /\ OldHkeys(n)' = {}
    BY <1>1, <1>2 DEF NewVals, OldBits, TornAt, OldHkeys, Busy, OpRecs
  <2> QED
    BY <1>1, <1>4, <1>6, <2>1, <2>2 DEF LeafInv
<1>11. pmem' = [pmem EXCEPT ![n] = pmem[n]]
  BY <1>1, <1>4
<1> QED
  BY <1>0, <1>1, <1>2, <1>3, <1>4, <1>6, <1>7, <1>8, <1>9, <1>10, <1>11, StoreStep

(* A call that goes on.                                                     *)
LEMMA GoesOn ==
    ASSUME OpInv, op.pc # "idle", node' = node,
           NEW pc, op' = [op EXCEPT !.pc = pc]
    PROVE  /\ op'.pc = pc /\ op'.node = op.node /\ op'.key = op.key /\ op'.val = op.val
           /\ op'.recs = op.recs /\ op'.new = op.new /\ op'.left = op.left /\ op'.right = op.right
           /\ DOMAIN op' = DOMAIN NoOp /\ op.node \in Live /\ OpTypes /\ OpTypes'
<1>1. DOMAIN op = DOMAIN NoOp /\ OpTypes
  BY DEF OpInv
<1>2. {"pc", "node", "key", "val", "recs", "new", "left", "right"} \subseteq DOMAIN op
  BY <1>1 DEF NoOp
<1>3. /\ op'.pc = pc /\ op'.node = op.node /\ op'.key = op.key /\ op'.val = op.val
      /\ op'.recs = op.recs /\ op'.new = op.new /\ op'.left = op.left /\ op'.right = op.right
      /\ DOMAIN op' = DOMAIN NoOp
  BY <1>1, <1>2
<1>4. OpTypes'
  BY <1>1, <1>3 DEF OpTypes, Live, InNode, GoodRec, BufKeys
<1> QED
  BY <1>1, <1>3, <1>4 DEF OpTypes

(* The state of the leaf a call works on.                                   *)
LEMMA AtLeaf ==
    ASSUME TypeInv, UpInv, NEW n \in Live
    PROVE  /\ n \in Leaf /\ n \in 1 .. leaves /\ mem[n] \in LeafT /\ pmem[n] \in LeafT
           /\ mem \in [Leaf -> LeafT] /\ pmem \in [Leaf -> LeafT]
           /\ LeafState(mem[n], pmem[n], NewVals(n), OldBits(n), TornAt(n), OldHkeys(n))
           /\ mem[n].lkey = node[n].lkey
           /\ node[n].lkey \in Nat /\ node[n].hkey \in Nat
           /\ ~InSplit /\ ~InMerge => mem[n].hkey = node[n].hkey
<1>1. LeafInv(n)
  BY DEF UpInv, LeavesInv, Known
<1>2. n \in Leaf /\ mem[n] \in LeafT /\ pmem[n] \in LeafT
  BY <1>1, StateTypes DEF LeafInv
<1>3. mem[n].lkey = node[n].lkey /\ (~InSplit /\ ~InMerge => mem[n].hkey = node[n].hkey)
  BY DEF UpInv, LinkInv, Linked
<1> QED
  BY <1>1, <1>2, <1>3, NodeTypes DEF LeafInv, UpInv, TypeInv

(* ... flushes the whole leaf                                               *)
LEMMA FlushLeafInv ==
    ASSUME IInv, FlushLeaf
    PROVE  IInv'
<1>0. mode = "up" /\ op.pc = "flush_leaf" /\ TypeInv /\ UpInv /\ OpInv
  BY UpNow DEF FlushLeaf
<1>1. /\ op' = [op EXCEPT !.pc = "flush_bits"] /\ pmem' = [pmem EXCEPT ![op.node] = mem[op.node]]
      /\ leaves' = leaves /\ mem' = mem /\ index' = index /\ weak' = weak /\ node' = node
      /\ jobs' = jobs /\ mixed' = mixed /\ mode' = mode /\ crash' = crash
  BY DEF FlushLeaf, poolVars, procVars
<1>2. /\ op'.pc = "flush_bits" /\ op'.node = op.node
      /\ DOMAIN op' = DOMAIN NoOp /\ op.node \in Live /\ OpTypes'
  BY <1>0, <1>1, GoesOn
<1>3. PICK n \in Live : n = op.node
  BY <1>2
<1>4. /\ n \in Leaf /\ n \in 1 .. leaves /\ mem[n] \in LeafT /\ pmem \in [Leaf -> LeafT]
      /\ mem \in [Leaf -> LeafT]
      /\ LeafState(mem[n], pmem[n], NewVals(n), OldBits(n), TornAt(n), OldHkeys(n))
      /\ TornAt(n) = crash.torn
  BY <1>0, AtLeaf DEF TornAt, Busy
<1>5. ~InSplit /\ ~InMerge /\ ~InSplit' /\ ~InMerge'
  BY <1>0, <1>2 DEF InSplit, InMerge
<1>6. mem'[n] = mem[n] /\ pmem'[n] = mem[n]
  BY <1>1, <1>3, <1>4
<1>7. OpInv'
  BY <1>2, <1>3, <1>5, <1>6 DEF OpInv
<1>8. LeafInv(n)'
  <2>1. LeafState(mem[n], mem[n], {}, {}, crash.torn, {})
    BY <1>4, LeafFlushedAgain
  <2>2. NewVals(n)' = {} /\ OldBits(n)' = {} /\ TornAt(n)' = crash.torn /\ OldHkeys(n)' = {}
    BY <1>1, <1>2 DEF NewVals, OldBits, TornAt, OldHkeys, Busy
  <2> QED
    BY <1>1, <1>4, <1>6, <2>1, <2>2 DEF LeafInv
<1>9. mem' = [mem EXCEPT ![n] = mem[n]] /\ pmem' = [pmem EXCEPT ![n] = mem[n]]
  BY <1>1, <1>3, <1>4
<1>10. /\ mode = "up" /\ UNCHANGED <<leaves, index, weak, jobs, mixed, mode, crash, node>>
       /\ op.node = n /\ op'.node = op.node /\ op'.new = op.new
  BY <1>0, <1>1, <1>2, <1>3
<1>11. mem[n] \in LeafT
  BY <1>4
<1> QED
  BY ONLY IInv, <1>5, <1>7, <1>8, <1>9, <1>10, <1>11, StoreStep

(* ... and a step that also leaves some of the buffered records.            *)
LEMMA NodeStep ==
    ASSUME IInv, mode = "up", NEW n \in Live, NEW x \in LeafT, NEW y \in LeafT, NEW b \in Seq(RecT),
           UNCHANGED <<leaves, index, weak, jobs, mixed, mode, crash>>,
           node' = [node EXCEPT ![n].buf = b],
           Len(b) <= BufferCapacity, \A i \in 1 .. Len(b) : GoodRec(b[i], n),
           mem' = [mem EXCEPT ![n] = x], pmem' = [pmem EXCEPT ![n] = y],
           x.lkey = mem[n].lkey, x.hkey = mem[n].hkey, x.next = mem[n].next,
           ~InSplit, ~InSplit', ~InMerge, ~InMerge',
           op.pc = "idle" \/ op.node = n, op'.pc = "idle" \/ op'.node = n,
           LeafInv(n)', OpInv'
    PROVE  IInv'
<1>1. TypeInv /\ UpInv
  BY UpNow
<1>2. /\ mem \in [Leaf -> LeafT] /\ pmem \in [Leaf -> LeafT] /\ node \in [Live -> NodeT]
      /\ n \in Leaf
  BY <1>1, StateTypes DEF TypeInv, UpInv, TileInv
<1>3. /\ mem' \in [Leaf -> LeafT] /\ pmem' \in [Leaf -> LeafT]
      /\ mem'[n] = x /\ pmem'[n] = y
      /\ \A l \in Leaf \ {n} : mem'[l] = mem[l] /\ (pmem'[l] = pmem[l] \/ l \notin Known)
  BY <1>2
<1>4. /\ node' \in [Live -> NodeT]
      /\ \A l \in Live : /\ node'[l].lkey = node[l].lkey /\ node'[l].hkey = node[l].hkey
                         /\ node'[l].buf = IF l = n THEN b ELSE node[l].buf
  <2>1. \A l \in Live : node[l] \in NodeT
    BY <1>2
  <2>2. [node[n] EXCEPT !.buf = b] \in NodeT
    BY <2>1 DEF NodeT
  <2>3. \A l \in Live : node'[l] = IF l = n THEN [node[n] EXCEPT !.buf = b] ELSE node[l]
    BY <1>2
  <2>4. node' \in [Live -> NodeT]
    BY <1>2, <2>1, <2>2
  <2> QED
    BY <2>1, <2>3, <2>4 DEF NodeT
<1>5. TypeInv' /\ TileInv' /\ LinkInv' /\ LeavesInv' /\ JobInv'
  <2>1. DOMAIN node' = DOMAIN node /\ node' \in [DOMAIN node -> NodeT]
    BY <1>4 DEF Live
  <2> QED
    BY <1>1, <1>3, <1>4, <2>1, LeafStep
<1>6. BufInv'
  <2>1. Live' = Live
    BY <1>4 DEF Live
  <2> SUFFICES ASSUME NEW l \in Live
               PROVE  /\ Len(node'[l].buf) <= BufferCapacity
                      /\ \A i \in 1 .. Len(node'[l].buf) : GoodRec(node[l].buf[i], l)'
    BY <2>1 DEF BufInv
  <2>2. /\ Len(node'[l].buf) <= BufferCapacity
        /\ \A i \in 1 .. Len(node'[l].buf) : GoodRec(node'[l].buf[i], l)
    BY <1>1, <1>4 DEF UpInv, BufInv
  <2>3. \A i : GoodRec(node[l].buf[i], l)' <=> GoodRec(node'[l].buf[i], l)
    BY <1>4 DEF GoodRec, InNode
  <2> QED
    BY <2>2, <2>3
<1> QED
  BY <1>5, <1>6, UpNext DEF UpInv

(* The leaf of a call that has ended.                                       *)
LEMMA EndedLeaf ==
    ASSUME NEW n \in 1 .. leaves, leaves' = leaves, crash' = crash, op' = NoOp,
           Quiet(mem'[n], pmem'[n], crash.torn)
    PROVE  LeafInv(n)' /\ OpInv' /\ ~InSplit' /\ ~InMerge' /\ op'.pc = "idle"
<1>1. op'.pc = "idle" /\ DOMAIN op' = DOMAIN NoOp
  BY DEF NoOp
<1>2. OpInv' /\ ~InSplit' /\ ~InMerge' /\ \A l : ~Stirred(l)'
  BY <1>1, IdleNext
<1> QED
  BY <1>1, <1>2, CalmLeafNext

(* ... and sets and flushes the bits; the buffer is emptied.                *)
LEMMA FlushBitsInv ==
    ASSUME IInv, FlushBits
    PROVE  IInv'
<1>0. mode = "up" /\ op.pc = "flush_bits" /\ TypeInv /\ UpInv /\ OpInv
  BY UpNow DEF FlushBits
<1>a. OpTypes /\ op.node \in Live
  BY <1>0 DEF OpInv, OpTypes
<1>b. PICK n \in Live : n = op.node
  BY <1>a
<1> DEFINE recs == op.recs
           x == [mem[n] EXCEPT !.slots = InsertBatch(@, recs)]
<1>1. n \in Leaf /\ n \in 1 .. leaves /\ mem[n] \in LeafT /\ pmem \in [Leaf -> LeafT]
      /\ mem \in [Leaf -> LeafT]
      /\ LeafState(mem[n], pmem[n], NewVals(n), OldBits(n), TornAt(n), OldHkeys(n))
      /\ TornAt(n) = crash.torn
      /\ mem[n].lkey = node[n].lkey /\ (~InSplit /\ ~InMerge => mem[n].hkey = node[n].hkey)
  BY <1>0, AtLeaf DEF TornAt, Busy
<1>2. ~InSplit /\ ~InMerge
  BY <1>0 DEF InSplit, InMerge
<1>3. /\ mem' = [mem EXCEPT ![n] = x] /\ pmem' = [pmem EXCEPT ![n] = mem'[n]]
      /\ node' = [node EXCEPT ![n].buf = <<>>] /\ op' = NoOp
      /\ leaves' = leaves /\ index' = index /\ weak' = weak
      /\ jobs' = jobs /\ mixed' = mixed /\ mode' = mode /\ crash' = crash
  BY <1>b DEF FlushBits, poolVars, procVars
<1>4. /\ recs \in Seq(RecT)
      /\ \A i \in 1 .. Len(recs) : /\ recs[i].val \in ValsOf(recs[i].key)
                                   /\ mem[n].lkey <= recs[i].key /\ recs[i].key < mem[n].hkey
  BY <1>a, <1>b, <1>1, <1>2 DEF OpTypes, GoodRec, InNode
<1>5. x \in LeafT /\ LeafOK(x) /\ \A i \in Slot : x.slots[i].valid => Written(x.slots[i], crash.torn)
  <2>1. LeafOK(mem[n]) /\ \A i \in Slot : mem[n].slots[i].valid => Written(mem[n].slots[i], crash.torn)
    BY <1>1 DEF LeafState, Values
  <2> HIDE DEF recs
  <2> QED
    BY <1>1, <1>4, <2>1, BatchDone
<1>6. x.lkey = mem[n].lkey /\ x.hkey = mem[n].hkey /\ x.next = mem[n].next
  BY <1>1 DEF LeafT
<1> HIDE DEF x
<1>7. mem'[n] = x /\ pmem'[n] = x /\ pmem' = [pmem EXCEPT ![n] = x]
  BY <1>1, <1>3
<1>8. Quiet(mem'[n], pmem'[n], crash.torn)
  BY <1>5, <1>7, LeafFlushed DEF Quiet
<1>9. LeafInv(n)' /\ OpInv' /\ ~InSplit' /\ ~InMerge' /\ op'.pc = "idle"
  BY <1>1, <1>3, <1>8, EndedLeaf
<1>10. <<>> \in Seq(RecT) /\ Len(<<>>) <= BufferCapacity /\ \A i \in 1 .. Len(<<>>) : GoodRec(<<>>[i], n)
  BY CapacityAssumption
<1> QED
  BY <1>0, <1>b, <1>2, <1>3, <1>5, <1>6, <1>7, <1>9, <1>10, NodeStep

(* BottomLayer::Insert overwrites the value of a key in place               *)
LEMMA InsertUpdatesInv ==
    ASSUME IInv, NEW t, NEW k \in Keys, NEW v \in ValsOf(k), InsertUpdates(t, k, v)
    PROVE  IInv'
<1>0. mode = "up" /\ op.pc = "idle" /\ TypeInv /\ UpInv
  BY UpNow DEF InsertUpdates, Begin
<1>a. PICK n \in Live : n = Start(k)
  BY <1>0, BeginFacts
<1> DEFINE x == [mem[n] EXCEPT !.slots = LeafInsert(@, k, v)]
<1>1. /\ mem' = [mem EXCEPT ![n] = x] /\ Match(mem[n].slots, k) # {}
      /\ leaves' = leaves /\ pmem' = pmem /\ index' = index /\ weak' = weak /\ node' = node
      /\ jobs' = jobs /\ mixed' = mixed /\ mode' = mode /\ crash' = crash
  BY <1>a DEF InsertUpdates, Begin, poolVars, procVars
<1>2. /\ op'.pc = "update" /\ op'.recs = <<>> /\ op'.node = n /\ op'.key = k
      /\ DOMAIN op' = DOMAIN NoOp
  BY <1>a DEF InsertUpdates, Call, NoOp
<1>3. ~Stirred(n) /\ ~InSplit /\ ~InMerge
  BY <1>0, <1>a, BeginFacts
<1>4. n \in Leaf /\ n \in 1 .. leaves /\ mem[n] \in LeafT /\ pmem[n] \in LeafT
      /\ Quiet(mem[n], pmem[n], crash.torn) /\ pmem \in [Leaf -> LeafT] /\ mem \in [Leaf -> LeafT]
  BY <1>0, <1>3, CalmFacts DEF TypeInv
<1>5. /\ x \in LeafT /\ LeafState(x, pmem[n], {k}, {}, crash.torn, {})
      /\ Updates(x.slots, pmem[n].slots, k)
      /\ x.lkey = mem[n].lkey /\ x.hkey = mem[n].hkey /\ x.next = mem[n].next
  <2> DEFINE z == WithSlots(mem[n], LeafInsert(mem[n].slots, k, v))
  <2>1. x = z
    BY DEF WithSlots
  <2> HIDE DEF x
  <2>2. /\ mem[n] \in LeafT /\ pmem[n] \in LeafT /\ Quiet(mem[n], pmem[n], crash.torn)
        /\ Match(mem[n].slots, k) # {}
    BY <1>1, <1>4
  <2>3. z \in LeafT /\ LeafState(z, pmem[n], {k}, {}, crash.torn, {})
    BY <2>2, UpdateStored
  <2>4. Updates(z.slots, pmem[n].slots, k)
    BY <2>2, UpdateStored
  <2>5. z.lkey = mem[n].lkey /\ z.hkey = mem[n].hkey /\ z.next = mem[n].next
    BY <2>2 DEF WithSlots, LeafT
  <2> QED
    BY <2>1, <2>3, <2>4, <2>5
<1> HIDE DEF x
<1>7. ~InSplit' /\ ~InMerge'
  BY <1>2 DEF InSplit, InMerge
<1>8. mem'[n] = x /\ pmem'[n] = pmem[n]
  BY <1>1, <1>4
<1>9. OpInv'
  <2>1. OpTypes'
    BY <1>0, <1>1, <1>2, <1>a, BeginOpTypes
  <2>3. Updates(mem[op.node].slots, pmem[op.node].slots, op.key)'
    BY <1>2, <1>5, <1>8
  <2> QED
    BY <1>2, <1>7, <2>1, <2>3 DEF OpInv
<1>10. LeafInv(n)'
  <2>1. /\ NewVals(n)' = {k} /\ OldBits(n)' = {}
        /\ TornAt(n)' = crash.torn /\ OldHkeys(n)' = {}
    BY <1>1, <1>2 DEF NewVals, OldBits, TornAt, OldHkeys, Busy
  <2> QED
    BY <1>1, <1>4, <1>5, <1>8, <2>1 DEF LeafInv
<1>11. pmem' = [pmem EXCEPT ![n] = pmem[n]]
  BY <1>1, <1>4
<1> QED
  BY <1>0, <1>1, <1>2, <1>3, <1>4, <1>5, <1>7, <1>9, <1>10, <1>11, StoreStep

(* ... and flushes its line.                                                *)
LEMMA UpdateFlushInv ==
    ASSUME IInv, UpdateFlush
    PROVE  IInv'
<1>0. mode = "up" /\ op.pc = "update" /\ TypeInv /\ UpInv /\ OpInv
  BY UpNow DEF UpdateFlush
<1>a. OpTypes /\ op.node \in Live /\ Updates(mem[op.node].slots, pmem[op.node].slots, op.key)
  BY <1>0 DEF OpInv, OpTypes
<1>b. PICK n \in Live : n = op.node
  BY <1>a
<1> DEFINE h == Lowest(Match(mem[n].slots, op.key))
           y == Copied(pmem[n], h, mem[n].slots[h])
<1>1. /\ pmem' = [pmem EXCEPT ![n] = y] /\ op' = NoOp
      /\ leaves' = leaves /\ mem' = mem /\ index' = index /\ weak' = weak /\ node' = node
      /\ jobs' = jobs /\ mixed' = mixed /\ mode' = mode /\ crash' = crash
  BY <1>b DEF UpdateFlush, poolVars, procVars, PersistSlot, Copied
<1>2. n \in Leaf /\ n \in 1 .. leaves /\ mem[n] \in LeafT /\ pmem[n] \in LeafT
      /\ pmem \in [Leaf -> LeafT] /\ mem \in [Leaf -> LeafT]
      /\ LeafState(mem[n], pmem[n], NewVals(n), OldBits(n), TornAt(n), OldHkeys(n))
  BY <1>0, AtLeaf
<1>3. NewVals(n) = {op.key} /\ OldBits(n) = {} /\ TornAt(n) = crash.torn /\ OldHkeys(n) = {}
  BY <1>0, <1>b DEF NewVals, OldBits, TornAt, OldHkeys, Busy
<1>4. ~InSplit /\ ~InMerge
  BY <1>0 DEF InSplit, InMerge
<1>5. y \in LeafT /\ Quiet(mem[n], y, crash.torn)
  <2>1. /\ LeafState(mem[n], pmem[n], {op.key}, {}, crash.torn, {})
        /\ Updates(mem[n].slots, pmem[n].slots, op.key)
    BY <1>2, <1>3, <1>a, <1>b
  <2>2. y \in LeafT
    BY <1>2, <2>1, UpdateFlushed
  <2>3. Quiet(mem[n], y, crash.torn)
    BY <1>2, <2>1, UpdateFlushed
  <2> QED
    BY <2>2, <2>3
<1> HIDE DEF y
<1>6. mem'[n] = mem[n] /\ pmem'[n] = y /\ mem' = [mem EXCEPT ![n] = mem[n]]
  BY <1>1, <1>2
<1>7. LeafInv(n)' /\ OpInv' /\ ~InSplit' /\ ~InMerge' /\ op'.pc = "idle"
  BY <1>1, <1>2, <1>5, <1>6, EndedLeaf
<1> QED
  BY <1>0, <1>b, <1>1, <1>2, <1>4, <1>5, <1>6, <1>7, StoreStep

(* BottomLayer::Insert writes a new record without its bit                  *)
LEMMA InsertFillsInv ==
    ASSUME IInv, NEW t, NEW k \in Keys, NEW v \in ValsOf(k), InsertFills(t, k, v)
    PROVE  IInv'
<1>0. mode = "up" /\ op.pc = "idle" /\ TypeInv /\ UpInv
  BY UpNow DEF InsertFills, Begin
<1>a. PICK n \in Live : n = Start(k)
  BY <1>0, BeginFacts
<1> DEFINE x == WithSlots(mem[n], SlotWritten(mem[n].slots, k, v))
<1>1. /\ mem' = [mem EXCEPT ![n] = x]
      /\ Match(mem[n].slots, k) = {} /\ EmptyBitSet(mem[n].slots) # {}
      /\ leaves' = leaves /\ pmem' = pmem /\ index' = index /\ weak' = weak /\ node' = node
      /\ jobs' = jobs /\ mixed' = mixed /\ mode' = mode /\ crash' = crash
  BY <1>a DEF InsertFills, Begin, poolVars, procVars, WithSlots
<1>2. /\ op'.pc = "fill" /\ op'.recs = <<>> /\ op'.node = n /\ op'.key = k /\ op'.val = v
      /\ DOMAIN op' = DOMAIN NoOp
  BY <1>a DEF InsertFills, Call, NoOp
<1>3. ~Stirred(n) /\ ~InSplit /\ ~InMerge
  BY <1>0, <1>a, BeginFacts
<1>4. n \in Leaf /\ n \in 1 .. leaves /\ mem[n] \in LeafT /\ pmem[n] \in LeafT
      /\ Quiet(mem[n], pmem[n], crash.torn) /\ pmem \in [Leaf -> LeafT] /\ mem \in [Leaf -> LeafT]
  BY <1>0, <1>3, CalmFacts DEF TypeInv
<1>5. /\ x \in LeafT /\ Quiet(x, pmem[n], crash.torn) /\ Match(x.slots, k) = {}
      /\ \E i \in Slot : x.slots[i].key = k /\ x.slots[i].val = v
  <2>1. x \in LeafT /\ Quiet(x, pmem[n], crash.torn)
    BY <1>1, <1>4, FillStored
  <2>2. Match(x.slots, k) = {}
    BY <1>1, <1>4, FillStored
  <2>3. \E i \in Slot : x.slots[i].key = k /\ x.slots[i].val = v
    BY <1>1, <1>4, FillStored
  <2> QED
    BY <2>1, <2>2, <2>3
<1>6. x.lkey = mem[n].lkey /\ x.hkey = mem[n].hkey /\ x.next = mem[n].next
  BY <1>4 DEF LeafT, WithSlots
<1> HIDE DEF x
<1>7. ~InSplit' /\ ~InMerge' /\ ~Stirred(n)'
  BY <1>2 DEF InSplit, InMerge, Stirred, Busy
<1>8. mem'[n] = x /\ pmem'[n] = pmem[n] /\ pmem' = [pmem EXCEPT ![n] = pmem[n]]
  BY <1>1, <1>4
<1>9. OpInv'
  <2>1. OpTypes'
    BY <1>0, <1>1, <1>2, <1>a, BeginOpTypes
  <2>3. Fills(mem[op.node].slots)'
    BY <1>2, <1>5, <1>8 DEF Fills
  <2> QED
    BY <1>2, <1>7, <2>1, <2>3 DEF OpInv
<1>10. LeafInv(n)'
  BY <1>1, <1>4, <1>5, <1>7, <1>8, CalmLeafNext
<1> QED
  BY <1>0, <1>1, <1>2, <1>3, <1>4, <1>5, <1>6, <1>7, <1>8, <1>9, <1>10, StoreStep

(* ... flushes it and sets the bit.                                         *)
LEMMA FillFlushInv ==
    ASSUME IInv, FillFlush
    PROVE  IInv'
<1>0. mode = "up" /\ op.pc = "fill" /\ TypeInv /\ UpInv /\ OpInv
  BY UpNow DEF FillFlush
<1>a. OpTypes /\ op.node \in Live /\ op.key \in Keys /\ InNode(op.key, op.node)
      /\ Fills(mem[op.node].slots)
  BY <1>0 DEF OpInv, OpTypes
<1>b. PICK n \in Live : n = op.node
  BY <1>a
<1> DEFINE S == {j \in Slot : mem[n].slots[j].key = op.key /\ mem[n].slots[j].val = op.val}
           h == Lowest(S)
           x == Marked(mem[n], h)
           y == Copied(pmem[n], h, mem[n].slots[h])
<1>1. /\ mem' = [mem EXCEPT ![n] = x] /\ pmem' = [pmem EXCEPT ![n] = y] /\ op' = NoOp
      /\ leaves' = leaves /\ index' = index /\ weak' = weak /\ node' = node
      /\ jobs' = jobs /\ mixed' = mixed /\ mode' = mode /\ crash' = crash
  BY <1>b DEF FillFlush, poolVars, procVars, PersistSlot, Copied, Marked
<1>2. ~InSplit /\ ~InMerge /\ ~Stirred(n)
  BY <1>0 DEF InSplit, InMerge, Stirred, Busy
<1>3. n \in Leaf /\ n \in 1 .. leaves /\ mem[n] \in LeafT /\ pmem[n] \in LeafT
      /\ Quiet(mem[n], pmem[n], crash.torn) /\ pmem \in [Leaf -> LeafT] /\ mem \in [Leaf -> LeafT]
      /\ mem[n].lkey = node[n].lkey /\ mem[n].hkey = node[n].hkey
  BY <1>0, <1>2, CalmFacts DEF TypeInv
<1>4. h \in S
  <2>1. S \in SUBSET Nat /\ IsFiniteSet(S)
    <3>1. Slot \in SUBSET Nat /\ IsFiniteSet(Slot)
      BY LeafCapacityAssumption, FS_Interval DEF Slot
    <3>2. S \in SUBSET Slot
      OBVIOUS
    <3> HIDE DEF S
    <3> QED
      BY <3>1, <3>2, FS_Subset
  <2>2. S # {}
    BY <1>a, <1>b DEF Fills
  <2> HIDE DEF S
  <2> QED
    BY <2>1, <2>2, LowestIs
<1>5. h \in Slot /\ mem[n].slots[h].key = op.key /\ mem[n].slots[h].val = op.val
  BY <1>4
<1> HIDE DEF h
<1>6. /\ op.val \in ValsOf(op.key) /\ Match(mem[n].slots, op.key) = {}
      /\ mem[n].lkey <= op.key /\ op.key < mem[n].hkey
  BY <1>a, <1>b, <1>3 DEF Fills, InNode
<1>7. x \in LeafT /\ y \in LeafT /\ Quiet(x, y, crash.torn)
  BY <1>3, <1>5, <1>6, <1>a, FillFlushed
<1>8. x.lkey = mem[n].lkey /\ x.hkey = mem[n].hkey /\ x.next = mem[n].next
  BY <1>3 DEF LeafT, Marked
<1> HIDE DEF x, y
<1>9. mem'[n] = x /\ pmem'[n] = y
  BY <1>1, <1>3
<1>10. LeafInv(n)' /\ OpInv' /\ ~InSplit' /\ ~InMerge' /\ op'.pc = "idle"
  BY <1>1, <1>3, <1>7, <1>9, EndedLeaf
<1> QED
  BY <1>0, <1>b, <1>1, <1>2, <1>3, <1>7, <1>8, <1>10, StoreStep

(* remove drops the key from the buffer and clears a bit of the leaf        *)
LEMMA RemoveInv ==
    ASSUME IInv, NEW t, NEW k \in Keys, Remove(t, k)
    PROVE  IInv'
<1>0. mode = "up" /\ op.pc = "idle" /\ TypeInv /\ UpInv
  BY UpNow DEF Remove, Begin
<1>a. PICK n \in Live : n = Start(k)
  BY <1>0, BeginFacts
<1> DEFINE b == node[n].buf
           P == {i \in 1 .. Len(b) : b[i].key # k}
           new == Pick(b, P)
           x == WithSlots(mem[n], LeafRemove(mem[n].slots, k))
<1>1. /\ mem' = [mem EXCEPT ![n] = x] /\ node' = [node EXCEPT ![n].buf = new]
      /\ leaves' = leaves /\ pmem' = pmem /\ index' = index /\ weak' = weak
      /\ jobs' = jobs /\ mixed' = mixed /\ mode' = mode /\ crash' = crash
  BY <1>a DEF Remove, Begin, poolVars, procVars, WithSlots
<1>2. /\ op'.pc = IF Match(mem[n].slots, k) # {} THEN "erase" ELSE "merge"
      /\ op'.recs = <<>> /\ op'.node = n /\ op'.key = k /\ DOMAIN op' = DOMAIN NoOp
  BY <1>a DEF Remove, Call, NoOp
<1>3. InNode(k, n) /\ ~Stirred(n) /\ ~InSplit /\ ~InMerge
  BY <1>0, <1>a, BeginFacts
<1>4. n \in Leaf /\ n \in 1 .. leaves /\ mem[n] \in LeafT /\ pmem[n] \in LeafT
      /\ Quiet(mem[n], pmem[n], crash.torn) /\ pmem \in [Leaf -> LeafT] /\ mem \in [Leaf -> LeafT]
      /\ b \in Seq(RecT)
  BY <1>0, <1>3, CalmFacts DEF TypeInv
<1>5. /\ Len(b) <= BufferCapacity /\ BufferCapacity \in Nat
      /\ \A i \in 1 .. Len(b) : GoodRec(b[i], n)
  BY <1>0, CapacityAssumption DEF UpInv, BufInv
<1>6. new \in Seq(RecT) /\ Len(new) <= BufferCapacity /\ \A i \in 1 .. Len(new) : GoodRec(new[i], n)
  <2>1. P \in SUBSET (1 .. Len(b)) /\ Len(b) \in Nat
    BY <1>4
  <2> HIDE DEF b, P
  <2>2. /\ new \in Seq(RecT) /\ Len(new) <= Len(b) /\ Len(new) \in Nat
        /\ \A i \in 1 .. Len(new) : \E j \in P : new[i] = b[j]
    BY <1>4, <2>1, PickFrom
  <2> HIDE DEF new
  <2>3. Len(new) <= BufferCapacity
    BY <1>5, <2>1, <2>2
  <2> QED
    BY <1>5, <2>1, <2>2, <2>3
<1>7. LET old == IF Match(mem[n].slots, k) # {} THEN {k} ELSE {}
      IN  x \in LeafT /\ LeafState(x, pmem[n], {}, old, crash.torn, {})
  <2>1. CASE Match(mem[n].slots, k) # {}
    BY <1>4, <2>1, EraseStored
  <2>2. CASE Match(mem[n].slots, k) = {}
    <3>1. x = mem[n]
      BY <1>4, <2>2 DEF LeafRemove, WithSlots, LeafT
    <3> QED
      BY <1>4, <2>2, <3>1 DEF Quiet
  <2> QED
    BY <2>1, <2>2
<1>8. x.lkey = mem[n].lkey /\ x.hkey = mem[n].hkey /\ x.next = mem[n].next
  BY <1>4 DEF LeafT, WithSlots
<1> HIDE DEF x, new, b
<1>9. ~InSplit' /\ ~InMerge'
  BY <1>2 DEF InSplit, InMerge
<1>10. mem'[n] = x /\ pmem'[n] = pmem[n] /\ pmem' = [pmem EXCEPT ![n] = pmem[n]]
  BY <1>1, <1>4
<1>11. OpInv'
  <2>1. Live' = Live /\ node'[n].lkey = node[n].lkey /\ node'[n].hkey = node[n].hkey
    <3>1. node \in [Live -> NodeT]
      BY <1>0 DEF UpInv, TileInv
    <3>2. node[n] \in NodeT
      BY <3>1
    <3> QED
      BY <1>1, <3>1, <3>2 DEF Live, NodeT
  <2>2. InNode(k, n)'
    BY <1>3, <2>1 DEF InNode
  <2>3. OpTypes'
    BY <1>2, <2>1, <2>2 DEF OpTypes
  <2> QED
    BY <1>2, <1>9, <2>3 DEF OpInv
<1>12. LeafInv(n)'
  <2>1. /\ NewVals(n)' = {} /\ OldHkeys(n)' = {} /\ TornAt(n)' = crash.torn
        /\ OldBits(n)' = IF Match(mem[n].slots, k) # {} THEN {k} ELSE {}
    BY <1>1, <1>2 DEF NewVals, OldBits, TornAt, OldHkeys, Busy
  <2> QED
    BY <1>1, <1>4, <1>7, <1>10, <2>1 DEF LeafInv
<1>13. x \in LeafT
  BY <1>7
<1> QED
  BY <1>0, <1>1, <1>2, <1>3, <1>4, <1>6, <1>8, <1>9, <1>10, <1>11, <1>12, <1>13, NodeStep

(* ... and flushes the header.                                              *)
LEMMA RemoveFlushInv ==
    ASSUME IInv, RemoveFlush
    PROVE  IInv'
<1>0. mode = "up" /\ op.pc = "erase" /\ TypeInv /\ UpInv /\ OpInv
  BY UpNow DEF RemoveFlush
<1>1. /\ op' = [op EXCEPT !.pc = "merge"]
      /\ pmem' = [pmem EXCEPT ![op.node] = PersistHeader(op.node)]
      /\ leaves' = leaves /\ mem' = mem /\ index' = index /\ weak' = weak /\ node' = node
      /\ jobs' = jobs /\ mixed' = mixed /\ mode' = mode /\ crash' = crash
  BY DEF RemoveFlush, poolVars, procVars
<1>2. /\ op'.pc = "merge" /\ op'.node = op.node
      /\ DOMAIN op' = DOMAIN NoOp /\ op.node \in Live /\ OpTypes'
  BY <1>0, <1>1, GoesOn
<1>3. PICK n \in Live : n = op.node
  BY <1>2
<1>4. /\ n \in Leaf /\ n \in 1 .. leaves /\ mem[n] \in LeafT /\ pmem[n] \in LeafT
      /\ pmem \in [Leaf -> LeafT] /\ mem \in [Leaf -> LeafT]
      /\ LeafState(mem[n], pmem[n], NewVals(n), OldBits(n), TornAt(n), OldHkeys(n))
  BY <1>0, AtLeaf
<1>5. NewVals(n) = {} /\ TornAt(n) = crash.torn
  BY <1>0 DEF NewVals, TornAt, Busy
<1>6. ~InSplit /\ ~InMerge /\ ~InSplit' /\ ~InMerge' /\ ~Stirred(n)'
  BY <1>0, <1>2 DEF InSplit, InMerge, Stirred, Busy
<1>7. PICK y \in LeafT : y = PersistHeader(n) /\ Quiet(mem[n], y, crash.torn)
  <2> DEFINE y == PersistHeader(n)
  <2>1. /\ y \in LeafT /\ y.lkey = mem[n].lkey /\ y.hkey = mem[n].hkey /\ y.next = mem[n].next
        /\ \A i \in Slot : /\ y.slots[i].key = pmem[n].slots[i].key
                           /\ y.slots[i].val = pmem[n].slots[i].val
                           /\ y.slots[i].valid = mem[n].slots[i].valid
    BY <1>4, HeaderIs
  <2> HIDE DEF y
  <2>2. LeafState(mem[n], y, NewVals(n), {}, TornAt(n), {})
    BY <1>4, <2>1, HeaderWrittenBack
  <2> QED
    BY <1>5, <2>1, <2>2 DEF y, Quiet
<1>8. mem'[n] = mem[n] /\ pmem'[n] = y /\ mem' = [mem EXCEPT ![n] = mem[n]] /\ pmem' = [pmem EXCEPT ![n] = y]
  BY <1>1, <1>3, <1>4, <1>7
<1>9. OpInv'
  BY <1>2, <1>6 DEF OpInv
<1>10. LeafInv(n)'
  BY <1>1, <1>4, <1>6, <1>7, <1>8, CalmLeafNext
<1> QED
  BY ZenonT(60), <1>0, <1>1, <1>2, <1>3, <1>4, <1>6, <1>7, <1>8, <1>9, <1>10, StoreStep

(* A step that leaves the nodes, the index and the jobs alone, and the low  *)
(* keys of the leaves.                                                      *)
LEMMA NodesKept ==
    ASSUME TypeInv, UpInv, UNCHANGED <<index, weak, jobs, mixed, node, mode, crash>>,
           \A l \in 1 .. leaves : mem'[l].lkey = mem[l].lkey
    PROVE  TileInv' /\ BufInv' /\ JobInv' /\ Known' = Known /\ Live' = Live
<1>1. TileInv'
  BY DEF UpInv, TileInv, Tiled, Overlap, Live
<1>2. BufInv'
  BY DEF UpInv, BufInv, Live, GoodRec, InNode
<1>3. Known' = Known /\ Live' = Live
  BY DEF Known, Live
<1>4. JobInv'
  <2>0. JobInv /\ LeavesInv
    BY DEF UpInv
  <2>1. \A l \in Known : l \in 1 .. leaves
    BY <2>0 DEF LeavesInv, LeafInv
  <2>2. /\ \A e \in index \cup weak : e.leaf \in 1 .. leaves
        /\ \A i \in 1 .. Len(jobs) : jobs[i].leaf \in 1 .. leaves
    BY <2>1 DEF Known
  <2>3. /\ \A e \in index' \cup weak' : e.key = mem'[e.leaf].lkey
        /\ \A i \in 1 .. Len(jobs') : jobs'[i].key = mem'[jobs'[i].leaf].lkey
    BY <2>0, <2>2 DEF JobInv
  <2>4. /\ \A i : (FirstJob(i)' <=> FirstJob(i)) /\ (LastJob(i)' <=> LastJob(i))
        /\ \A i : (FirstOK(i)' <=> FirstOK(i)) /\ (LastOK(i)' <=> LastOK(i))
        /\ \A i, j : (NextJob(i, j)' <=> NextJob(i, j)) /\ (NextOK(i, j)' <=> NextOK(i, j))
        /\ \A k : NoJob(k)' <=> NoJob(k)
    BY DEF FirstJob, LastJob, FirstOK, LastOK, NextJob, NextOK, NoJob, SameKey, Entry, Live
  <2> QED
    BY <2>0, <2>3, <2>4, <1>3 DEF JobInv, Entry
<1> QED
  BY <1>1, <1>2, <1>3, <1>4

(* Merge writes the records of the right leaf, its high key and its link    *)
LEMMA MergeWriteInv ==
    ASSUME IInv, MergeWrite
    PROVE  IInv'
<1>0. mode = "up" /\ op.pc = "merge" /\ TypeInv /\ UpInv /\ OpInv /\ TileInv /\ LinkInv
  BY UpNow DEF MergeWrite
<1>a. OpTypes /\ op.node \in Live /\ DOMAIN op = DOMAIN NoOp
  BY <1>0 DEF OpInv, OpTypes
<1>b. PICK n \in Live : n = op.node
  BY <1>a
<1> DEFINE r == mem[n].next
           final == LeafMerge(mem[n].slots, mem[r].slots)
           x == Joined(n, r)
<1>1. /\ mem' = [mem EXCEPT ![n] = x] /\ Merges(n)
      /\ op' = [op EXCEPT !.pc = "merge_flush", !.left = final]
      /\ leaves' = leaves /\ pmem' = pmem /\ index' = index /\ weak' = weak /\ node' = node
      /\ jobs' = jobs /\ mixed' = mixed /\ mode' = mode /\ crash' = crash
  BY <1>b DEF MergeWrite, poolVars, procVars
<1>2. ~InSplit /\ ~InMerge /\ \A l : ~Stirred(l)
  BY <1>0 DEF InSplit, InMerge, Stirred, Busy
<1>3. /\ op'.pc = "merge_flush" /\ op'.node = n /\ op'.left = final
      /\ op'.key = op.key /\ op'.recs = op.recs /\ DOMAIN op' = DOMAIN NoOp
  BY <1>1, <1>a, <1>b DEF NoOp
<1>4. n \in Leaf /\ n \in 1 .. leaves /\ mem[n] \in LeafT /\ pmem[n] \in LeafT
      /\ Quiet(mem[n], pmem[n], crash.torn) /\ pmem \in [Leaf -> LeafT] /\ mem \in [Leaf -> LeafT]
      /\ mem[n].lkey = node[n].lkey /\ mem[n].hkey = node[n].hkey /\ Linked(n)
  BY <1>0, <1>2, CalmFacts DEF TypeInv
<1>5. r \in Live /\ node[n].hkey # MaxKey /\ node[r].lkey = node[n].hkey
  BY <1>1, <1>4 DEF Merges, Linked, NextIs
<1>6. r # n /\ (node[r].lkey < node[r].hkey \/ node[r].hkey = MaxKey)
  BY <1>0, <1>5, NextNodeIs
<1>7. /\ mem[r] \in LeafT /\ Quiet(mem[r], pmem[r], crash.torn) /\ r \in Leaf
      /\ mem[r].lkey = node[r].lkey /\ mem[r].hkey = node[r].hkey /\ Linked(r)
  BY <1>0, <1>2, <1>5, CalmFacts
<1> HIDE DEF r
<1>8. Files(mem[r].slots, mem[r].lkey, mem[r].hkey, crash.torn)
  BY <1>7, LeafFiles DEF Quiet
<1>9. /\ x \in LeafT /\ LeafState(x, pmem[n], {}, {}, crash.torn, {mem[n].hkey})
      /\ Files(final, mem[n].lkey, mem[r].hkey, crash.torn)
  BY <1>4, <1>5, <1>6, <1>7, <1>8, MergeStored DEF Joined
<1>10. x.lkey = mem[n].lkey /\ x.hkey = mem[r].hkey /\ x.next = mem[r].next
  BY <1>4, <1>7 DEF LeafT, Joined
<1> HIDE DEF x, final
<1>11. mem'[n] = x /\ pmem'[n] = pmem[n] /\ mem' \in [Leaf -> LeafT]
       /\ \A l \in Leaf : l # n => mem'[l] = mem[l]
  BY <1>1, <1>4, <1>9
<1>12. ~InSplit' /\ InMerge'
  BY <1>3 DEF InSplit, InMerge
<1>13. TypeInv'
  BY <1>0, <1>1, <1>11 DEF TypeInv, Live
<1>14. \A l \in 1 .. leaves : l \in Leaf /\ mem'[l].lkey = mem[l].lkey
  BY <1>0, <1>10, <1>11, StateTypes
<1>15. TileInv' /\ BufInv' /\ JobInv' /\ Known' = Known /\ Live' = Live
  BY <1>0, <1>1, <1>14, NodesKept
<1>16. LinkInv'
  <2>1. \A next, hkey : NextIs(next, hkey)' <=> NextIs(next, hkey)
    BY <1>1, <1>15 DEF NextIs
  <2>2. \A l \in Live : l \in Leaf /\ mem[l].lkey = node[l].lkey /\ Linked(l)
    BY <1>0, <1>2, CalmFacts
  <2>3. ASSUME NEW l \in Live
        PROVE  mem'[l].lkey = node'[l].lkey /\ (l = op'.node \/ Linked(l)')
    <3>1. CASE l = n
      BY <1>1, <1>3, <1>4, <1>10, <1>11, <3>1
    <3>2. CASE l # n
      BY <1>1, <1>11, <2>1, <2>2, <3>2 DEF Linked
    <3> QED
      BY <3>1, <3>2
  <2>4. PICK s \in Live : s = r
    BY <1>5
  <2>5. MergeLink(n, s)'
    BY <1>1, <1>5, <1>6, <1>7, <1>10, <1>11, <2>1, <2>4 DEF MergeLink, Linked
  <2>6. \E o \in Live' : MergeLink(op.node, o)'
    BY <1>3, <1>15, <2>5
  <2> QED
    BY <1>12, <1>15, <2>3, <2>6 DEF LinkInv
<1>17. LeavesInv'
  <2> SUFFICES ASSUME NEW l \in Known PROVE LeafInv(l)'
    BY <1>15 DEF LeavesInv
  <2>1. LeafInv(l) /\ l \in 1 .. leaves
    BY <1>0 DEF UpInv, LeavesInv, LeafInv
  <2>2. CASE l = n
    <3>1. /\ NewVals(n)' = {} /\ OldBits(n)' = {} /\ TornAt(n)' = crash.torn
          /\ OldHkeys(n)' = {mem[n].hkey}
      BY <1>1, <1>3, <1>4 DEF NewVals, OldBits, TornAt, OldHkeys, Busy
    <3> QED
      BY <1>1, <1>4, <1>9, <1>11, <2>2, <3>1 DEF LeafInv
  <2>3. CASE l # n
    <3>1. ~Stirred(l)'
      BY <1>3, <2>3 DEF Stirred, Busy
    <3> QED
      BY <1>0, <1>1, <1>2, <1>11, <1>14, <2>1, <2>3, <3>1, LeafKept, StateTypes
  <2> QED
    BY <2>2, <2>3
<1>18. OpInv'
  <2>1. OpTypes'
    BY <1>1, <1>3, <1>a, <1>b DEF OpTypes, Live, InNode, GoodRec, BufKeys
  <2>2. Filed(op.left, mem[op.node])'
    BY <1>1, <1>3, <1>9, <1>10, <1>11 DEF Files, Filed
  <2> QED
    BY <1>3, <1>12, <2>1, <2>2 DEF OpInv
<1> QED
  BY <1>0, <1>1, <1>13, <1>15, <1>16, <1>17, <1>18, UpNext DEF UpInv

(* ... and flushes the left leaf.                                           *)
LEMMA MergeFlushInv ==
    ASSUME IInv, MergeFlush
    PROVE  IInv'
<1>0. mode = "up" /\ op.pc = "merge_flush" /\ TypeInv /\ UpInv /\ OpInv
  BY UpNow DEF MergeFlush
<1>1. /\ op' = [op EXCEPT !.pc = "merge_bits"]
      /\ pmem' = [pmem EXCEPT ![op.node] = mem[op.node]]
      /\ leaves' = leaves /\ mem' = mem /\ index' = index /\ weak' = weak /\ node' = node
      /\ jobs' = jobs /\ mixed' = mixed /\ mode' = mode /\ crash' = crash
  BY DEF MergeFlush, poolVars, procVars
<1>2. /\ op'.pc = "merge_bits" /\ op'.node = op.node /\ op'.left = op.left /\ op'.new = op.new
      /\ DOMAIN op' = DOMAIN NoOp /\ op.node \in Live /\ OpTypes'
  BY <1>0, <1>1, GoesOn
<1>3. PICK n \in Live : n = op.node
  BY <1>2
<1>4. /\ n \in Leaf /\ n \in 1 .. leaves /\ mem[n] \in LeafT /\ pmem \in [Leaf -> LeafT]
      /\ mem \in [Leaf -> LeafT]
      /\ LeafState(mem[n], pmem[n], NewVals(n), OldBits(n), TornAt(n), OldHkeys(n))
      /\ TornAt(n) = crash.torn
  BY <1>0, AtLeaf DEF TornAt, Busy
<1>5. ~InSplit /\ InMerge /\ ~InSplit' /\ InMerge' /\ ~Stirred(n)'
  BY <1>0, <1>2 DEF InSplit, InMerge, Stirred, Busy
<1>6. mem'[n] = mem[n] /\ pmem'[n] = mem[n]
  BY <1>1, <1>3, <1>4
<1>7. OpInv'
  <2>1. Filed(op.left, mem[op.node])'
    BY <1>0, <1>1, <1>2, <1>5 DEF OpInv, Filed
  <2> QED
    BY <1>2, <1>3, <1>5, <1>6, <2>1 DEF OpInv
<1>8. LeafInv(n)'
  <2>1. Quiet(mem[n], mem[n], crash.torn)
    BY <1>4, LeafFlushedAgain DEF Quiet
  <2> QED
    BY <1>1, <1>4, <1>5, <1>6, <2>1, CalmLeafNext
<1>9. mem' = [mem EXCEPT ![n] = mem[n]] /\ pmem' = [pmem EXCEPT ![n] = mem[n]]
  BY <1>1, <1>3, <1>4
<1>10. /\ mode = "up" /\ UNCHANGED <<leaves, index, weak, jobs, mixed, mode, crash, node>>
       /\ op.node = n /\ op'.node = op.node /\ op'.new = op.new
  BY <1>0, <1>1, <1>2, <1>3
<1>11. mem[n] \in LeafT
  BY <1>4
<1> QED
  BY ONLY IInv, <1>5, <1>7, <1>8, <1>9, <1>10, <1>11, StoreStep

(* A leaf that must be split is not empty.                                  *)
LEMMA SplitCount ==
    ASSUME NEW n, NEW k, mem[n].slots \in SlotsT, Len(node[n].buf) \in Nat,
           Len(node[n].buf) <= BufferCapacity, MustSplit(n, k)
    PROVE  Count(mem[n].slots) >= 1
<1>1. Slot \in SUBSET Nat /\ IsFiniteSet(Slot) /\ Cardinality(Slot) = LeafCapacity
      /\ LeafCapacity \in Nat /\ LeafCapacity >= 2
  BY LeafCapacityAssumption, FS_Interval DEF Slot
<1>2. ValidBitSet(mem[n].slots) \in SUBSET Slot
  BY DEF ValidBitSet
<1>3. Count(mem[n].slots) \in Nat
  BY <1>1, <1>2, FS_Subset, FS_CardinalityType DEF Count
<1>4. CASE node[n].buffered
  <2>1. Len(node[n].buf) + Count(mem[n].slots) > LeafCapacity - 1
    BY <1>4 DEF MustSplit
  <2> QED
    BY <1>1, <1>3, <2>1, CapacityAssumption
<1>5. CASE ~node[n].buffered
  <2>1. EmptyBitSet(mem[n].slots) = {}
    BY <1>5 DEF MustSplit
  <2>2. ValidBitSet(mem[n].slots) = Slot
    BY <1>2, <2>1 DEF EmptyBitSet
  <2> QED
    BY <1>1, <2>2 DEF Count
<1> QED
  BY <1>4, <1>5

(* Split writes both halves; the new leaf is known to nobody yet.           *)
LEMMA SplitWriteInv ==
    ASSUME IInv, NEW t, NEW k \in Keys, NEW v \in ValsOf(k), SplitWrite(t, k, v)
    PROVE  IInv'
<1>0. mode = "up" /\ op.pc = "idle" /\ TypeInv /\ UpInv /\ OpInv /\ TileInv /\ LinkInv
  BY UpNow DEF SplitWrite, Begin
<1>a. PICK n \in Live : n = Start(k)
  BY <1>0, BeginFacts
<1>b. PICK recs : recs = ToMerge(n, k, v)
  OBVIOUS
<1>c. PICK median : median = Median(mem[n].slots)
  OBVIOUS
<1>d. PICK new : new = leaves + 1
  OBVIOUS
<1>e. PICK left : left = SplitLeft(mem[n].slots, recs)
  OBVIOUS
<1>f. PICK right : right = SplitRight(mem[n].slots, recs)
  OBVIOUS
<1>g. PICK x : x = [mem[n] EXCEPT !.hkey = median, !.next = new, !.slots = Halved(@, recs)]
  OBVIOUS
<1>h. PICK y : y = [lkey |-> median, hkey |-> mem[n].hkey, next |-> mem[n].next,
                    slots |-> Unset(EmptyLeaf, right)]
  OBVIOUS
<1>1. /\ mem' = [mem EXCEPT ![n] = x, ![new] = y]
      /\ leaves' = new /\ MustSplit(n, k) /\ new <= MaxLeaves /\ median # mem[n].lkey
      /\ pmem' = pmem /\ index' = index /\ weak' = weak /\ node' = node
      /\ jobs' = jobs /\ mixed' = mixed /\ mode' = mode /\ crash' = crash
  <2>1. mem' = [mem EXCEPT ![n] = LeftHalf(n, new, recs), ![new] = RightHalf(n, recs)]
    BY <1>a, <1>b, <1>d DEF SplitWrite
  <2>2. x = LeftHalf(n, new, recs) /\ y = RightHalf(n, recs)
    BY <1>c, <1>f, <1>g, <1>h DEF LeftHalf, RightHalf
  <2>3. mem' = [mem EXCEPT ![n] = x, ![new] = y]
    BY <2>1, <2>2
  <2> QED
    BY <1>a, <1>c, <1>d, <2>3 DEF SplitWrite, Begin, poolVars, procVars
<1>2. /\ op'.pc = "split_left" /\ op'.recs = recs /\ op'.node = n /\ op'.key = k
      /\ op'.new = new /\ op'.left = left /\ op'.right = right /\ DOMAIN op' = DOMAIN NoOp
  BY <1>a, <1>b, <1>d, <1>e, <1>f DEF SplitWrite, Call, NoOp
<1>3. ~InSplit /\ ~InMerge /\ \A l : ~Stirred(l)
  BY <1>0 DEF InSplit, InMerge, Stirred, Busy
<1>4. n \in Leaf /\ n \in 1 .. leaves /\ mem[n] \in LeafT /\ pmem[n] \in LeafT
      /\ Quiet(mem[n], pmem[n], crash.torn) /\ pmem \in [Leaf -> LeafT] /\ mem \in [Leaf -> LeafT]
      /\ mem[n].lkey = node[n].lkey /\ mem[n].hkey = node[n].hkey /\ Linked(n)
      /\ node[n].buf \in Seq(RecT)
  BY <1>0, <1>3, CalmFacts DEF TypeInv
<1>5. /\ recs \in Seq(RecT)
      /\ \A i \in 1 .. Len(recs) : /\ recs[i].key \in Keys /\ recs[i].val \in ValsOf(recs[i].key)
                                   /\ mem[n].lkey <= recs[i].key /\ recs[i].key < mem[n].hkey
  BY <1>0, <1>a, <1>b, ToMergeIs
<1>6. Count(mem[n].slots) >= 1
  <2>1. mem[n].slots \in SlotsT /\ Len(node[n].buf) \in Nat /\ Len(node[n].buf) <= BufferCapacity
    BY <1>0, <1>4, LeafTypes DEF UpInv, BufInv
  <2> QED
    BY <1>1, <2>1, SplitCount
<1>7. median \in Keys /\ median \in Nat /\ mem[n].lkey < median /\ median < mem[n].hkey
  BY <1>1, <1>4, <1>6, <1>c, MedianInside
<1>8. /\ Files(left, mem[n].lkey, median, crash.torn)
      /\ Files(right, median, mem[n].hkey, crash.torn)
  BY <1>1, <1>4, <1>5, <1>6, <1>c, <1>e, <1>f, HalvesFiled
<1>9. new \in Nat /\ new \in Leaf /\ new \notin 1 .. leaves /\ new # n /\ leaves \in Nat
      /\ 1 .. leaves \subseteq Leaf
  BY <1>0, <1>1, <1>4, <1>d, StateTypes DEF Leaf
<1>10. LET stored == {recs[i].key : i \in 1 .. Len(recs)}
       IN  /\ x \in LeafT
           /\ LeafState(x, pmem[n], stored,
                        stored \cup {j \in Keys : median <= j /\ j < mem[n].hkey},
                        crash.torn \cup stored, {mem[n].hkey})
  BY <1>1, <1>4, <1>5, <1>6, <1>9, <1>c, <1>g, HalfStored
<1>11. x.lkey = mem[n].lkey /\ x.hkey = median /\ x.next = new
  BY <1>4, <1>g DEF LeafT
<1>12. y \in LeafT /\ y.lkey = median /\ y.hkey = mem[n].hkey /\ y.next = mem[n].next
  <2>1. EmptyLeaf \in SlotsT /\ right \in SlotsT
    BY <1>8, SlotType, ConstFacts DEF EmptyLeaf, NoRec, Files
  <2>2. Unset(EmptyLeaf, right) \in SlotsT
    BY <2>1, UnsetIs
  <2>3. mem[n].hkey \in Nat /\ mem[n].next \in Nat
    BY <1>4, LeafTypes
  <2> QED
    BY <1>7, <1>h, <2>2, <2>3 DEF LeafT
<1>13. /\ mem'[n] = x /\ mem'[new] = y /\ mem' \in [Leaf -> LeafT]
       /\ \A l \in Leaf : l # n /\ l # new => mem'[l] = mem[l]
  BY <1>1, <1>4, <1>9, <1>10, <1>12
<1>14. InSplit' /\ ~InMerge'
  BY <1>2 DEF InSplit, InMerge
<1>15. TypeInv'
  <2>1. leaves' \in Leaf /\ Live \subseteq 1 .. leaves'
    BY <1>0, <1>1, <1>9, <1>d DEF TypeInv
  <2> QED
    BY <1>0, <1>1, <1>13, <2>1 DEF TypeInv, Live
<1>16. \A l \in 1 .. leaves : l \in Leaf /\ l # new /\ mem'[l].lkey = mem[l].lkey
  BY <1>9, <1>11, <1>13
<1>17. TileInv' /\ BufInv' /\ JobInv' /\ Known' = Known /\ Live' = Live
  BY <1>0, <1>1, <1>16, NodesKept
<1>18. Known \subseteq 1 .. leaves /\ Live \subseteq 1 .. leaves
  BY <1>0 DEF UpInv, LeavesInv, LeafInv, TypeInv
<1>19. LinkInv'
  <2>1. \A next, hkey : NextIs(next, hkey)' <=> NextIs(next, hkey)
    BY <1>1, <1>17 DEF NextIs
  <2>2. \A l \in Live : mem[l].lkey = node[l].lkey /\ Linked(l)
    BY <1>0, <1>3, CalmFacts
  <2>3. ASSUME NEW l \in Live
        PROVE  mem'[l].lkey = node'[l].lkey /\ (l = op'.node \/ Linked(l)')
    <3>1. CASE l = n
      BY <1>1, <1>2, <1>4, <1>11, <1>13, <3>1
    <3>2. CASE l # n
      BY <1>1, <1>13, <1>16, <1>18, <2>1, <2>2, <3>2 DEF Linked
    <3> QED
      BY <3>1, <3>2
  <2>4. NextIs(mem'[new].next, node[n].hkey)
    BY <1>4, <1>12, <1>13 DEF Linked
  <2>5. new \in 1 .. leaves' /\ new \notin Live'
    BY <1>1, <1>9, <1>17, <1>18, <1>d
  <2>6. SplitLink(n, new)'
    BY <1>1, <1>4, <1>7, <1>11, <1>12, <1>13, <2>1, <2>4, <2>5 DEF SplitLink
  <2>7. SplitLink(op.node, op.new)'
    BY <1>2, <2>6
  <2> QED
    BY <1>14, <1>17, <2>3, <2>7 DEF LinkInv
<1>20. LeavesInv'
  <2> SUFFICES ASSUME NEW l \in Known PROVE LeafInv(l)'
    BY <1>17 DEF LeavesInv
  <2>1. LeafInv(l) /\ l \in 1 .. leaves
    BY <1>0 DEF UpInv, LeavesInv, LeafInv
  <2>2. CASE l = n
    <3> DEFINE stored == {recs[i].key : i \in 1 .. Len(recs)}
    <3>1. OpRecs' = stored /\ Busy(n, {"split_left"})'
      BY <1>2 DEF OpRecs, Busy
    <3>2. /\ NewVals(n)' = stored /\ TornAt(n)' = crash.torn \cup stored
          /\ OldHkeys(n)' = {mem[n].hkey}
      BY <1>1, <1>2, <1>4, <3>1 DEF NewVals, TornAt, OldHkeys, Busy
    <3>3. OldBits(n)' = stored \cup {j \in Keys : median <= j /\ j < mem[n].hkey}
      <4>1. mem'[n].hkey = median /\ node'[n].hkey = mem[n].hkey
        BY <1>1, <1>4, <1>11, <1>13
      <4>2. OldBits(n)' = stored \cup {j \in Keys : mem'[n].hkey <= j /\ j < node'[n].hkey}
        BY <1>2, <3>1 DEF OldBits, Busy
      <4> QED
        BY <4>1, <4>2
    <3>4. n \in 1 .. leaves'
      BY <1>1, <1>4, <1>9, <1>d
    <3> HIDE DEF stored
    <3> QED
      BY <1>1, <1>10, <1>13, <2>2, <3>2, <3>3, <3>4 DEF LeafInv, stored
  <2>3. CASE l # n
    <3>1. ~Stirred(l)'
      BY <1>2, <2>3 DEF Stirred, Busy
    <3>2. leaves' >= leaves /\ leaves' \in Nat /\ mem'[l] = mem[l]
      BY <1>1, <1>9, <1>13, <1>16, <1>d, <2>1, <2>3
    <3> QED
      BY <1>1, <1>3, <1>9, <2>1, <3>1, <3>2, LeafKept
  <2> QED
    BY <2>2, <2>3
<1>21. OpInv'
  <2>1. OpTypes'
    BY <1>0, <1>1, <1>2, <1>a, <1>b, BeginOpTypes
  <2>2. Filed(op.left, mem[op.node])'
    BY <1>1, <1>2, <1>8, <1>11, <1>13 DEF Files, Filed
  <2>3. Filed(op.right, mem[op.new])'
    BY <1>1, <1>2, <1>8, <1>12, <1>13 DEF Files, Filed
  <2>4. op'.new \notin Known'
    BY <1>2, <1>9, <1>17, <1>18
  <2> QED
    BY <1>2, <1>14, <2>1, <2>2, <2>3, <2>4 DEF OpInv
<1> QED
  BY <1>0, <1>1, <1>15, <1>17, <1>19, <1>20, <1>21, UpNext DEF UpInv

(* The left half is flushed first: from here a crash loses the right half   *)
(* unless its entry follows                                                 *)
LEMMA SplitFlushLeftInv ==
    ASSUME IInv, SplitFlushLeft
    PROVE  IInv'
<1>0. mode = "up" /\ op.pc = "split_left" /\ TypeInv /\ UpInv /\ OpInv
  BY UpNow DEF SplitFlushLeft
<1>1. /\ op' = [op EXCEPT !.pc = "split_right"]
      /\ pmem' = [pmem EXCEPT ![op.node] = mem[op.node]]
      /\ leaves' = leaves /\ mem' = mem /\ index' = index /\ weak' = weak /\ node' = node
      /\ jobs' = jobs /\ mixed' = mixed /\ mode' = mode /\ crash' = crash
  BY DEF SplitFlushLeft, poolVars, procVars
<1>2. /\ op'.pc = "split_right" /\ op'.node = op.node /\ op'.new = op.new /\ op'.recs = op.recs
      /\ op'.left = op.left /\ op'.right = op.right
      /\ DOMAIN op' = DOMAIN NoOp /\ op.node \in Live /\ OpTypes'
  BY <1>0, <1>1, GoesOn
<1>3. PICK n \in Live : n = op.node
  BY <1>2
<1>4. /\ n \in Leaf /\ n \in 1 .. leaves /\ mem[n] \in LeafT /\ pmem \in [Leaf -> LeafT]
      /\ mem \in [Leaf -> LeafT] /\ pmem[n] \in LeafT
      /\ LeafState(mem[n], pmem[n], NewVals(n), OldBits(n), TornAt(n), OldHkeys(n))
  BY <1>0, AtLeaf
<1>5. InSplit /\ ~InMerge /\ InSplit' /\ ~InMerge'
  BY <1>0, <1>2 DEF InSplit, InMerge
<1>6. mem'[n] = mem[n] /\ pmem'[n] = mem[n]
  BY <1>1, <1>3, <1>4
<1>7. OpInv'
  <2>1. op.new \notin Known /\ Filed(op.left, mem[op.node]) /\ Filed(op.right, mem[op.new])
    BY <1>0, <1>5 DEF OpInv
  <2>2. Known' = Known
    BY <1>1 DEF Known, Live
  <2>3. (op.new \notin Known)' /\ Filed(op.left, mem[op.node])' /\ Filed(op.right, mem[op.new])'
    BY <1>1, <1>2, <2>1, <2>2 DEF Filed
  <2> QED
    BY <1>2, <1>3, <1>5, <1>6, <2>3 DEF OpInv
<1>8. LeafInv(n)'
  <2>1. LeafState(mem[n], mem[n], {}, {}, TornAt(n), {})
    BY <1>4, LeafFlushedAgain
  <2>2. TornAt(n)' = TornAt(n)
    BY <1>0, <1>1, <1>2 DEF TornAt, Busy, OpRecs
  <2>3. NewVals(n)' = {} /\ OldBits(n)' = {} /\ OldHkeys(n)' = {}
    BY <1>2 DEF NewVals, OldBits, OldHkeys, Busy
  <2> QED
    BY <1>1, <1>4, <1>6, <2>1, <2>2, <2>3 DEF LeafInv
<1>9. mem' = [mem EXCEPT ![n] = mem[n]] /\ pmem' = [pmem EXCEPT ![n] = mem[n]]
  BY <1>1, <1>3, <1>4
<1>10. op'.node = op.node /\ op'.new = op.new /\ op.node = n /\ op'.node = n
  BY <1>2, <1>3
<1>11. /\ UNCHANGED <<leaves, index, weak, jobs, mixed, mode, crash, node>>
       /\ (InSplit' <=> InSplit) /\ (InMerge' <=> InMerge)
  BY <1>1, <1>5
<1> QED
  BY <1>0, <1>4, <1>7, <1>8, <1>9, <1>10, <1>11, StoreStep

(* ... then the right half.                                                 *)
LEMMA SplitFlushRightInv ==
    ASSUME IInv, SplitFlushRight
    PROVE  IInv'
<1>0. mode = "up" /\ op.pc = "split_right" /\ TypeInv /\ UpInv /\ OpInv /\ LinkInv /\ TileInv
  BY UpNow DEF SplitFlushRight
<1>1. /\ op' = [op EXCEPT !.pc = "split_bits"]
      /\ pmem' = [pmem EXCEPT ![op.new] = mem[op.new]]
      /\ leaves' = leaves /\ mem' = mem /\ index' = index /\ weak' = weak /\ node' = node
      /\ jobs' = jobs /\ mixed' = mixed /\ mode' = mode /\ crash' = crash
  BY DEF SplitFlushRight, poolVars, procVars
<1>2. /\ op'.pc = "split_bits" /\ op'.node = op.node /\ op'.new = op.new /\ op'.recs = op.recs
      /\ op'.left = op.left /\ op'.right = op.right
      /\ DOMAIN op' = DOMAIN NoOp /\ op.node \in Live /\ OpTypes'
  BY <1>0, <1>1, GoesOn
<1>3. PICK n \in Live : n = op.node
  BY <1>2
<1>4. /\ n \in Leaf /\ n \in 1 .. leaves /\ mem[n] \in LeafT /\ pmem \in [Leaf -> LeafT]
      /\ mem \in [Leaf -> LeafT] /\ pmem[n] \in LeafT
      /\ LeafState(mem[n], pmem[n], NewVals(n), OldBits(n), TornAt(n), OldHkeys(n))
  BY <1>0, AtLeaf
<1>5. InSplit /\ ~InMerge /\ InSplit' /\ ~InMerge'
  BY <1>0, <1>2 DEF InSplit, InMerge
<1>6. PICK new \in Leaf : new = op.new
  <2>1. op.new \in 1 .. leaves
    BY <1>0, <1>5 DEF LinkInv, SplitLink
  <2> QED
    BY <1>0, <2>1, StateTypes
<1>7. new \notin Known /\ new # n
  BY <1>0, <1>3, <1>5, <1>6 DEF OpInv, Known
<1>8. /\ mem'[n] = mem[n] /\ pmem'[n] = pmem[n] /\ pmem' \in [Leaf -> LeafT]
      /\ \A l \in Leaf : l # new => pmem'[l] = pmem[l]
  BY <1>1, <1>4, <1>6, <1>7
<1>9. OpInv'
  <2>1. op.new \notin Known /\ Filed(op.left, mem[op.node]) /\ Filed(op.right, mem[op.new])
    BY <1>0, <1>5 DEF OpInv
  <2>2. Known' = Known
    BY <1>1 DEF Known, Live
  <2>3. (op.new \notin Known)' /\ Filed(op.left, mem[op.node])' /\ Filed(op.right, mem[op.new])'
    BY <1>1, <1>2, <2>1, <2>2 DEF Filed
  <2>4. (pmem[op.node] = mem[op.node])'
    BY <1>0, <1>1, <1>2, <1>3, <1>8 DEF OpInv
  <2> QED
    BY <1>2, <1>5, <2>3, <2>4 DEF OpInv
<1>10. LeafInv(n)'
  <2>1. /\ TornAt(n)' = TornAt(n) /\ NewVals(n)' = NewVals(n) /\ OldBits(n)' = OldBits(n)
        /\ OldHkeys(n)' = OldHkeys(n)
    BY <1>0, <1>1, <1>2 DEF TornAt, NewVals, OldBits, OldHkeys, Busy, OpRecs
  <2> QED
    BY <1>1, <1>4, <1>8, <2>1 DEF LeafInv
<1>11. TypeInv' /\ TileInv' /\ LinkInv' /\ LeavesInv' /\ JobInv'
  <2>1. node' \in [DOMAIN node -> NodeT] /\ DOMAIN node' = DOMAIN node
    BY <1>0, <1>1 DEF TileInv, Live
  <2>2. \A l \in Leaf \ {n} : mem'[l] = mem[l] /\ (pmem'[l] = pmem[l] \/ l \notin Known)
    BY <1>1, <1>7, <1>8
  <2> QED
    BY <1>0, <1>1, <1>2, <1>3, <1>4, <1>5, <1>8, <1>10, <2>1, <2>2, LeafStep
<1>12. BufInv'
  BY <1>0, <1>1 DEF UpInv, BufInv, Live, GoodRec, InNode
<1> QED
  BY <1>0, <1>1, <1>9, <1>11, <1>12, UpNext DEF UpInv

(* remove writes its log record and returns.                                *)
LEMMA RemoveReturnInv ==
    ASSUME IInv, RemoveReturn
    PROVE  IInv'
<1>1. mode = "up" /\ op' = NoOp /\ op.pc \in {"merge", "removed"}
  BY DEF RemoveReturn
<1>2. ~InSplit /\ ~InMerge
  BY <1>1 DEF InSplit, InMerge
<1> QED
  BY <1>1, <1>2, LogStep DEF RemoveReturn

(* The logs are no part of the invariant.                                   *)
LEMMA CreateLogsInv ==
    ASSUME IInv, CreateLogsForThread
    PROVE  IInv'
<1>1. mode = "up" /\ op.pc = "idle" /\ op' = op
  BY DEF CreateLogsForThread
<1>2. ~InSplit /\ ~InMerge
  BY <1>1 DEF InSplit, InMerge
<1> QED
  BY <1>1, <1>2, LogStep DEF CreateLogsForThread

(* A step that touches the index and the jobs only.                         *)
LEMMA PoolStep ==
    ASSUME IInv, mode = "up", mode' = "up",
           UNCHANGED <<leafVars, logVars, procVars, node, op>>,
           index' \cup weak' \subseteq EntryT, jobs' \in Seq(JobT),
           {e.leaf : e \in index' \cup weak'} \cup {jobs'[i].leaf : i \in 1 .. Len(jobs')} \subseteq Known,
           JobInv'
    PROVE  IInv'
<1>0. TypeInv /\ UpInv
  BY UpNow
<1>1. /\ leaves' = leaves /\ mem' = mem /\ pmem' = pmem /\ node' = node /\ op' = op
      /\ crash' = crash
  BY DEF leafVars, procVars
<1>2. TypeInv'
  BY <1>0, <1>1 DEF TypeInv, Live
<1>3. TileInv' /\ BufInv' /\ LinkInv' /\ Live' = Live
  <2>1. Live' = Live
    BY <1>1 DEF Live
  <2>2. TileInv'
    BY <1>0, <1>1 DEF UpInv, TileInv, Tiled, Overlap, Live
  <2>3. BufInv'
    BY <1>0, <1>1 DEF UpInv, BufInv, Live, GoodRec, InNode
  <2>4. LinkInv'
    <3>1. \A next, hkey : NextIs(next, hkey)' <=> NextIs(next, hkey)
      BY <1>1, <2>1 DEF NextIs
    <3>2. (InSplit' <=> InSplit) /\ (InMerge' <=> InMerge)
      BY <1>1 DEF InSplit, InMerge
    <3>3. \A l : Linked(l)' <=> Linked(l)
      BY <1>1, <3>1 DEF Linked
    <3>4. /\ \A n, r : MergeLink(n, r)' <=> MergeLink(n, r)
          /\ \A n, r : SplitLink(n, r)' <=> SplitLink(n, r)
      BY <1>1, <2>1, <3>1 DEF MergeLink, SplitLink
    <3> QED
      BY <1>0, <1>1, <2>1, <3>2, <3>3, <3>4 DEF UpInv, LinkInv
  <2> QED
    BY <2>1, <2>2, <2>3, <2>4
<1>4. Known' \subseteq Known
  BY <1>3 DEF Known
<1>5. LeavesInv'
  <2>1. /\ \A l : NewVals(l)' = NewVals(l) /\ OldHkeys(l)' = OldHkeys(l)
        /\ \A l : OldBits(l)' = OldBits(l) /\ TornAt(l)' = TornAt(l)
    BY <1>1 DEF NewVals, OldBits, TornAt, OldHkeys, Busy, OpRecs
  <2>2. \A l : LeafInv(l) => LeafInv(l)'
    BY <1>1, <2>1 DEF LeafInv
  <2> QED
    BY <1>0, <1>4, <2>2 DEF UpInv, LeavesInv
<1>6. OpInv'
  <2>1. OpTypes => OpTypes'
    BY <1>1, <1>3 DEF OpTypes, InNode, GoodRec, BufKeys
  <2>2. (InSplit' <=> InSplit) /\ (InMerge' <=> InMerge)
    BY <1>1 DEF InSplit, InMerge
  <2>3. InSplit' => (op.new \notin Known)' /\ Filed(op.left, mem[op.node])' /\ Filed(op.right, mem[op.new])'
    BY <1>0, <1>1, <1>4, <2>2 DEF UpInv, OpInv, Filed
  <2>4. InMerge' => Filed(op.left, mem[op.node])'
    BY <1>0, <1>1, <2>2 DEF UpInv, OpInv, Filed
  <2>5. \A m, p, k : Updates(m, p, k)' <=> Updates(m, p, k)
    BY DEF Updates
  <2>6. \A m : Fills(m)' <=> Fills(m)
    BY <1>1 DEF Fills
  <2> QED
    BY <1>0, <1>1, <2>1, <2>2, <2>3, <2>4, <2>5, <2>6 DEF UpInv, OpInv
<1> QED
  BY <1>2, <1>3, <1>5, <1>6, UpNext DEF UpInv

(* The jobs that are left when one has ended.                               *)
LEMMA WithoutIs ==
    ASSUME NEW S, NEW s \in Seq(S), NEW i \in 1 .. Len(s)
    PROVE  /\ Without(s, i) \in Seq(S) /\ Len(Without(s, i)) = Len(s) - 1
           /\ \A j \in 1 .. Len(s) - 1 : Without(s, i)[j] = IF j < i THEN s[j] ELSE s[j + 1]
<1> DEFINE w == [j \in 1 .. Len(s) - 1 |-> IF j < i THEN s[j] ELSE s[j + 1]]
<1>1. Len(s) - 1 \in Nat
  OBVIOUS
<1>2. \A j \in 1 .. Len(s) - 1 : (IF j < i THEN s[j] ELSE s[j + 1]) \in S
  OBVIOUS
<1>3. w \in Seq(S) /\ Len(w) = Len(s) - 1
  BY <1>1, <1>2
<1>4. \A j \in 1 .. Len(s) - 1 : w[j] = IF j < i THEN s[j] ELSE s[j + 1]
  OBVIOUS
<1>5. Without(s, i) = w
  BY DEF Without
<1> HIDE DEF w
<1> QED
  BY <1>3, <1>4, <1>5

(* A job that ends before an older one of the same key leaves the key to    *)
(* "mixed"; else it was the first, and the next one is the first now.       *)
LEMMA JobEnds ==
    ASSUME IInv, mode = "up", NEW i \in 1 .. Len(jobs), EndJob(i),
           UNCHANGED <<leafVars, node>>,
           \A e : e.key # jobs[i].key => (e \in index' <=> e \in index),
           index' \cup weak' \subseteq index \cup weak \cup {Entry(jobs[i].key, jobs[i].leaf)},
           jobs[i].key \notin mixed /\ FirstJob(i) =>
              \A e \in index' : e.key = jobs[i].key =>
                 jobs[i].name = "insert" /\ e = Entry(jobs[i].key, jobs[i].leaf),
           jobs[i].key \notin mixed /\ FirstJob(i) /\ jobs[i].name = "insert" =>
              Entry(jobs[i].key, jobs[i].leaf) \in index'
    PROVE  JobInv' /\ jobs' \in Seq(JobT)
           /\ \A j \in 1 .. Len(jobs') : \E a \in 1 .. Len(jobs) : jobs'[j] = jobs[a]
<1>0. TypeInv /\ UpInv /\ JobInv /\ LinkInv /\ TileInv
  BY UpNow
<1>1. /\ mem' = mem /\ node' = node /\ Live' = Live
  BY DEF leafVars, Live
<1>2. /\ jobs \in Seq(JobT) /\ Len(jobs) \in Nat /\ jobs' = Without(jobs, i)
  BY <1>0 DEF TypeInv, EndJob
<1> DEFINE h(j) == IF j < i THEN j ELSE j + 1
<1>3. /\ jobs' \in Seq(JobT) /\ Len(jobs') = Len(jobs) - 1
      /\ \A j \in 1 .. Len(jobs') : h(j) \in 1 .. Len(jobs) /\ h(j) # i /\ jobs'[j] = jobs[h(j)]
  <2>1. /\ jobs' \in Seq(JobT) /\ Len(jobs') = Len(jobs) - 1
        /\ \A j \in 1 .. Len(jobs) - 1 : jobs'[j] = IF j < i THEN jobs[j] ELSE jobs[j + 1]
    BY <1>2, WithoutIs
  <2>2. \A j \in 1 .. Len(jobs) - 1 : h(j) \in 1 .. Len(jobs) /\ h(j) # i
    BY <1>2
  <2> QED
    BY <2>1, <2>2
<1>4. \A a \in 1 .. Len(jobs) : a # i => \E j \in 1 .. Len(jobs') : a = h(j)
  <2> SUFFICES ASSUME NEW a \in 1 .. Len(jobs), a # i
               PROVE  \E j \in 1 .. Len(jobs') : a = h(j)
    OBVIOUS
  <2>1. CASE a < i
    <3>1. a \in 1 .. Len(jobs') /\ a = h(a)
      BY <1>2, <1>3, <2>1
    <3> QED
      BY <3>1
  <2>2. CASE a > i
    <3>1. a - 1 \in 1 .. Len(jobs') /\ a = h(a - 1)
      BY <1>2, <1>3, <2>2
    <3> QED
      BY <3>1
  <2> QED
    BY <2>1, <2>2
<1>5. /\ \A j, g \in 1 .. Len(jobs') : j < g <=> h(j) < h(g)
      /\ \A j \in 1 .. Len(jobs') : ~(h(j) < i) => i < h(j)
  BY <1>2, <1>3
<1>6. /\ mixed \subseteq mixed'
      /\ jobs[i].key \notin mixed' => jobs[i].key \notin mixed /\ FirstJob(i)
  BY DEF EndJob, FirstJob, SameKey
<1> DEFINE key == jobs[i].key
           leaf == jobs[i].leaf
<1>7. /\ \A e \in index' \cup weak' : e.key = mem'[e.leaf].lkey
      /\ \A j \in 1 .. Len(jobs') : jobs'[j].key = mem'[jobs'[j].leaf].lkey
  <2>1. Entry(key, leaf).key = mem[Entry(key, leaf).leaf].lkey
    BY <1>0 DEF JobInv, Entry
  <2> QED
    BY SMTT(30), ZenonT(30), <1>0, <1>1, <1>3, <2>1 DEF JobInv
<1>8. ASSUME NEW j \in 1 .. Len(jobs'), jobs'[j].key \notin mixed'
      PROVE  /\ FirstJob(j)' => FirstOK(j)'
             /\ LastJob(j)' => LastOK(j)'
             /\ \A g \in 1 .. Len(jobs') : NextJob(j, g)' => NextOK(j, g)'
  <2>1. PICK a \in 1 .. Len(jobs) : a = h(j) /\ jobs'[j] = jobs[a] /\ a # i
    BY <1>3
  <2>2. /\ jobs[a].key \notin mixed
        /\ FirstJob(a) => FirstOK(a)
        /\ LastJob(a) => LastOK(a)
        /\ \A b \in 1 .. Len(jobs) : NextJob(a, b) => NextOK(a, b)
    BY <1>0, <1>6, <1>8, <2>1 DEF JobInv
  <2>3. jobs[a].key = key => key \notin mixed /\ FirstJob(i) /\ i < a
    <3> SUFFICES ASSUME jobs[a].key = key PROVE key \notin mixed /\ FirstJob(i) /\ i < a
      OBVIOUS
    <3>1. key \notin mixed /\ FirstJob(i)
      BY <1>6, <1>8, <2>1
    <3> QED
      BY <2>1, <3>1 DEF FirstJob, SameKey
  <2>4. LastJob(j)' => LastOK(j)'
    <3> SUFFICES ASSUME LastJob(j)' PROVE LastOK(j)'
      OBVIOUS
    <3>1. \A b \in a + 1 .. Len(jobs) : ~SameKey(a, b)
      <4> SUFFICES ASSUME NEW b \in a + 1 .. Len(jobs) PROVE ~SameKey(a, b)
        OBVIOUS
      <4>1. CASE b = i
        BY <2>3, <4>1 DEF SameKey
      <4>2. CASE b # i
        <5>1. PICK g \in 1 .. Len(jobs') : b = h(g)
          BY <1>4, <4>2
        <5>2. j < g /\ jobs'[g] = jobs[b]
          BY <1>3, <1>5, <2>1, <5>1
        <5> QED
          BY <1>3, <2>1, <5>1, <5>2 DEF LastJob, SameKey
      <4> QED
        BY <4>1, <4>2
    <3>2. LastOK(a)
      BY <2>2, <3>1 DEF LastJob
    <3> QED
      BY <1>1, <2>1, <3>2 DEF LastOK
  <2>5. ASSUME NEW g \in 1 .. Len(jobs'), NextJob(j, g)' PROVE NextOK(j, g)'
    <3>1. PICK b \in 1 .. Len(jobs) : b = h(g) /\ jobs'[g] = jobs[b] /\ b # i
      BY <1>3
    <3>2. a < b /\ SameKey(a, b)
      BY <1>5, <2>1, <2>5, <3>1 DEF NextJob, SameKey
    <3>3. \A c \in a + 1 .. b - 1 : ~SameKey(a, c)
      <4> SUFFICES ASSUME NEW c \in a + 1 .. b - 1 PROVE ~SameKey(a, c)
        OBVIOUS
      <4>1. CASE c = i
        BY <2>3, <4>1 DEF SameKey
      <4>2. CASE c # i
        <5>1. c \in 1 .. Len(jobs)
          OBVIOUS
        <5>2. PICK f \in 1 .. Len(jobs') : c = h(f)
          BY <1>4, <4>2, <5>1
        <5>3. j < f /\ f < g /\ jobs'[f] = jobs[c]
          BY <1>3, <1>5, <2>1, <3>1, <5>2
        <5> QED
          BY <1>3, <2>1, <2>5, <5>2, <5>3 DEF NextJob, SameKey
      <4> QED
        BY <4>1, <4>2
    <3>4. NextOK(a, b)
      BY <2>2, <3>2, <3>3 DEF NextJob
    <3> QED
      BY <2>1, <3>1, <3>4 DEF NextOK
  <2>6. FirstJob(j)' => FirstOK(j)'
    <3> SUFFICES ASSUME FirstJob(j)' PROVE FirstOK(j)'
      OBVIOUS
    <3>1. \A b \in 1 .. a - 1 : b # i => ~SameKey(a, b)
      <4> SUFFICES ASSUME NEW b \in 1 .. a - 1, b # i PROVE ~SameKey(a, b)
        OBVIOUS
      <4>1. b \in 1 .. Len(jobs)
        OBVIOUS
      <4>2. PICK f \in 1 .. Len(jobs') : b = h(f)
        BY <1>4, <4>1
      <4>3. f < j /\ jobs'[f] = jobs[b]
        BY <1>3, <1>5, <2>1, <4>2
      <4> QED
        BY <1>3, <2>1, <4>2, <4>3 DEF FirstJob, SameKey
    <3>2. CASE jobs[a].key # key
      <4>1. FirstJob(a)
        BY <3>1, <3>2 DEF FirstJob, SameKey
      <4>2. FirstOK(a)
        BY <2>2, <4>1
      <4>3. /\ \A e \in index' : e.key = jobs[a].key => e \in index
            /\ Entry(jobs[a].key, jobs[a].leaf) \in index => Entry(jobs[a].key, jobs[a].leaf) \in index'
        BY <3>2 DEF Entry
      <4> QED
        BY <2>1, <4>2, <4>3 DEF FirstOK, Entry
    <3>3. CASE jobs[a].key = key
      <4>1. NextJob(i, a)
        BY <2>3, <3>1, <3>3 DEF NextJob, SameKey, FirstJob
      <4>2. NextOK(i, a) /\ key \notin mixed /\ FirstJob(i)
        BY <1>0, <2>3, <3>3, <4>1 DEF JobInv
      <4>3. jobs[i] \in JobT
        BY <1>2
      <4>4. CASE jobs[i].name = "insert"
        <5>1. jobs[a].name = "remove" /\ jobs[a].leaf = leaf
          BY <4>2, <4>4 DEF NextOK
        <5>2. /\ \A e \in index' : e.key = key => e = Entry(key, leaf)
              /\ Entry(key, leaf) \in index'
          BY <4>2, <4>4
        <5> QED
          BY <2>1, <3>3, <5>1, <5>2 DEF FirstOK, Entry
      <4>5. CASE jobs[i].name = "remove"
        <5>1. jobs[a].name = "insert"
          BY <4>2, <4>5 DEF NextOK
        <5>2. \A e \in index' : e.key # key
          BY <4>2, <4>5
        <5> QED
          BY <2>1, <3>3, <5>1, <5>2 DEF FirstOK
      <4> QED
        BY <4>3, <4>4, <4>5 DEF JobT
    <3> QED
      BY <3>2, <3>3
  <2> QED
    BY <2>4, <2>5, <2>6
<1>9. ASSUME NEW k, k \notin mixed', NoJob(k)'
      PROVE  k \notin mixed /\ (k # key => NoJob(k)) /\ (k = key => FirstJob(i) /\ FirstOK(i) /\ LastOK(i))
  <2>1. \A a \in 1 .. Len(jobs) : a # i => jobs[a].key # k
    BY <1>3, <1>4, <1>9 DEF NoJob
  <2>2. k # key => NoJob(k)
    BY <2>1 DEF NoJob
  <2>3. k = key => LastJob(i) /\ FirstJob(i)
    BY <1>6, <1>9, <2>1 DEF LastJob, SameKey
  <2> QED
    BY <1>0, <1>6, <1>9, <2>2, <2>3 DEF JobInv
<1>10. \A e \in index' : e.key \notin mixed' /\ NoJob(e.key)' => e.leaf \in Live'
  <2> SUFFICES ASSUME NEW e \in index', e.key \notin mixed', NoJob(e.key)' PROVE e.leaf \in Live
    BY <1>1
  <2>1. CASE e.key # key
    BY <1>0, <1>9, <2>1 DEF JobInv
  <2>2. CASE e.key = key
    <3>1. key \notin mixed /\ FirstJob(i) /\ LastOK(i)
      BY <1>9, <2>2
    <3>2. jobs[i].name = "insert" /\ e = Entry(key, leaf)
      BY <2>2, <3>1
    <3> QED
      BY <3>1, <3>2 DEF LastOK, Entry
  <2> QED
    BY <2>1, <2>2
<1>11. \A l \in Live : node[l].lkey \notin mixed' /\ NoJob(node[l].lkey)' => Entry(node[l].lkey, l) \in index'
  <2> SUFFICES ASSUME NEW l \in Live, node[l].lkey \notin mixed', NoJob(node[l].lkey)'
               PROVE  Entry(node[l].lkey, l) \in index'
    OBVIOUS
  <2>1. CASE node[l].lkey # key
    <3>1. Entry(node[l].lkey, l) \in index /\ Entry(node[l].lkey, l).key = node[l].lkey
      BY <1>0, <1>9, <2>1 DEF JobInv, Entry
    <3> QED
      BY <2>1, <3>1
  <2>2. CASE node[l].lkey = key
    <3>1. key \notin mixed /\ FirstJob(i) /\ LastOK(i)
      BY <1>9, <2>2
    <3>2. jobs[i].name = "insert" /\ leaf \in Live
      BY <2>2, <3>1 DEF LastOK
    <3>3. node[leaf].lkey = key
      BY <1>0, <3>2 DEF JobInv, LinkInv
    <3>4. l = leaf
      BY <1>0, <2>2, <3>2, <3>3 DEF TileInv
    <3> QED
      BY <2>2, <3>1, <3>2, <3>4
  <2> QED
    BY <2>1, <2>2
<1>12. JobInv'
  <2>1. \A l \in Live' : node'[l].lkey \notin mixed' /\ NoJob(node[l].lkey)' => Entry(node'[l].lkey, l) \in index'
    BY <1>1, <1>11
  <2> QED
    BY <1>7, <1>8, <1>10, <2>1 DEF JobInv, Entry
<1> QED
  BY <1>3, <1>12

(* An insertion job puts the entry of a leaf into the persistent B+-tree.   *)
LEMMA TopLayerPmemInsertInv ==
    ASSUME IInv, NEW i \in 1 .. Len(jobs), TopLayerPmemInsert(i)
    PROVE  IInv'
<1>0. mode = "up" /\ TypeInv /\ UpInv /\ JobInv
  BY UpNow DEF TopLayerPmemInsert, EndJob
<1>1. PICK e \in {Entry(jobs[i].key, jobs[i].leaf)} : TRUE
  OBVIOUS
<1>2. /\ EndJob(i) /\ jobs[i].name = "insert" /\ index' = index \cup {e} /\ weak' = weak
      /\ e = Entry(jobs[i].key, jobs[i].leaf) /\ e.key = jobs[i].key /\ e.leaf = jobs[i].leaf
  BY <1>1 DEF TopLayerPmemInsert, Entry
<1>3. UNCHANGED <<leafVars, logVars, procVars, node, op>> /\ mode' = mode
  BY DEF TopLayerPmemInsert, procVars
<1>4. jobs[i] \in JobT
  BY <1>0 DEF TypeInv
<1>5. \A d : d.key # jobs[i].key => (d \in index' <=> d \in index)
  BY <1>2
<1>6. jobs[i].key \notin mixed /\ FirstJob(i) => \A d \in index : d.key # jobs[i].key
  BY <1>0, <1>2 DEF JobInv, FirstOK
<1>7. /\ JobInv' /\ jobs' \in Seq(JobT)
      /\ \A j \in 1 .. Len(jobs') : \E a \in 1 .. Len(jobs) : jobs'[j] = jobs[a]
  <2>1. jobs[i].key \notin mixed /\ FirstJob(i) =>
          \A d \in index' : d.key = jobs[i].key =>
             jobs[i].name = "insert" /\ d = Entry(jobs[i].key, jobs[i].leaf)
    BY <1>2, <1>6
  <2>2. Entry(jobs[i].key, jobs[i].leaf) \in index'
    BY <1>2
  <2>3. index' \cup weak' \subseteq index \cup weak \cup {Entry(jobs[i].key, jobs[i].leaf)}
    BY <1>2
  <2>4. UNCHANGED <<leafVars, node>>
    BY <1>3
  <2> QED
    BY <1>0, <1>2, <1>5, <2>1, <2>2, <2>3, <2>4, JobEnds
<1>8. index' \cup weak' \subseteq EntryT
  BY <1>0, <1>2, <1>4 DEF TypeInv, JobT, EntryT, Entry
<1>9. {d.leaf : d \in index' \cup weak'} \cup {jobs'[j].leaf : j \in 1 .. Len(jobs')} \subseteq Known
  BY <1>2, <1>7 DEF Known
<1> QED
  BY <1>0, <1>3, <1>7, <1>8, <1>9, PoolStep

(* A deletion job takes one out; its deletion may not be durable.           *)
LEMMA TopLayerPmemRemoveInv ==
    ASSUME IInv, NEW i \in 1 .. Len(jobs), TopLayerPmemRemove(i)
    PROVE  IInv'
<1>0. mode = "up" /\ TypeInv /\ UpInv /\ JobInv
  BY UpNow DEF TopLayerPmemRemove, EndJob
<1>1. /\ EndJob(i) /\ jobs[i].name = "remove"
      /\ \A d : d.key # jobs[i].key => (d \in index' <=> d \in index)
      /\ index' \cup weak' \subseteq index \cup weak /\ index' \subseteq index
      /\ (\E e \in index : e.key = jobs[i].key) =>
            \E d \in index : d.key = jobs[i].key /\ index' = index \ {d}
  <2>1. CASE \E e \in index : /\ e.key = jobs[i].key
                              /\ index' = index \ {e} /\ weak' = weak \cup {e}
    BY <2>1 DEF TopLayerPmemRemove
  <2>2. CASE (\A e \in index : e.key # jobs[i].key) /\ UNCHANGED <<index, weak>>
    BY <2>2 DEF TopLayerPmemRemove
  <2> QED
    BY <2>1, <2>2 DEF TopLayerPmemRemove
<1>3. UNCHANGED <<leafVars, logVars, procVars, node, op>> /\ mode' = mode
  BY DEF TopLayerPmemRemove, procVars
<1>7. /\ JobInv' /\ jobs' \in Seq(JobT)
      /\ \A j \in 1 .. Len(jobs') : \E a \in 1 .. Len(jobs) : jobs'[j] = jobs[a]
  <2>1. ASSUME jobs[i].key \notin mixed, FirstJob(i)
        PROVE  \A d \in index' : d.key # jobs[i].key
    <3>1. \A d \in index : d.key = jobs[i].key => d.leaf = jobs[i].leaf
      BY <1>0, <2>1 DEF JobInv, FirstOK
    <3>2. \A d \in index : d \in EntryT
      BY <1>0 DEF TypeInv
    <3>3. \A d \in index : d.key = jobs[i].key => d = Entry(jobs[i].key, jobs[i].leaf)
      BY <3>1, <3>2 DEF EntryT, Entry
    <3> QED
      BY <1>1, <3>3
  <2>2. UNCHANGED <<leafVars, node>>
    BY <1>3
  <2> QED
    BY <1>0, <1>1, <2>1, <2>2, JobEnds
<1>8. index' \cup weak' \subseteq EntryT
  BY <1>0, <1>1 DEF TypeInv
<1>9. {d.leaf : d \in index' \cup weak'} \cup {jobs'[j].leaf : j \in 1 .. Len(jobs')} \subseteq Known
  BY <1>1, <1>7 DEF Known
<1> QED
  BY <1>0, <1>3, <1>7, <1>8, <1>9, PoolStep

(* A split or a merge submits the job for its right leaf when it links the  *)
(* leaf's node, or unlinks it.                                              *)
LEMMA JobSubmitted ==
    ASSUME IInv, mode = "up", NEW job \in JobT, jobs' = jobs \o <<job>>,
           UNCHANGED <<index, weak, mixed>>,
           \A l \in Known : mem'[l].lkey = mem[l].lkey, job.key = mem'[job.leaf].lkey,
           \A l \in Live : node[l].lkey # job.key => l \in Live',
           \A l \in Live' : node'[l].lkey # job.key => l \in Live /\ node'[l].lkey = node[l].lkey,
           job.name = "insert" => /\ job.leaf \in Live'
                                  /\ \A l \in Live : node[l].lkey # job.key,
           job.name = "remove" => /\ job.leaf \in Live /\ node[job.leaf].lkey = job.key
                                  /\ \A l \in Live' : node'[l].lkey # job.key
    PROVE  JobInv' /\ jobs' \in Seq(JobT)
<1>0. TypeInv /\ UpInv /\ JobInv /\ LinkInv /\ TileInv
  BY UpNow
<1> DEFINE key == job.key
<1>a. PICK N : N = Len(jobs) + 1
  OBVIOUS
<1>1. /\ jobs \in Seq(JobT) /\ Len(jobs) \in Nat /\ N = Len(jobs) + 1
  BY <1>0, <1>a DEF TypeInv
<1>2. /\ jobs' \in Seq(JobT) /\ Len(jobs') = N /\ jobs'[N] = job
      /\ \A i \in 1 .. Len(jobs) : jobs'[i] = jobs[i]
  BY <1>1
<1>3. \A i \in 1 .. Len(jobs') : i \in 1 .. Len(jobs) \/ i = N
  BY <1>1, <1>2
<1>4. job.name \in {"insert", "remove"}
  BY DEF JobT
<1>5. /\ \A e \in index \cup weak : e.leaf \in Known /\ e.key = mem[e.leaf].lkey
      /\ \A i \in 1 .. Len(jobs) : jobs[i].leaf \in Known /\ jobs[i].key = mem[jobs[i].leaf].lkey
      /\ \A l \in Live : mem[l].lkey = node[l].lkey
  BY <1>0 DEF Known, JobInv, LinkInv
<1>6. /\ \A e \in index' \cup weak' : e.key = mem'[e.leaf].lkey
      /\ \A i \in 1 .. Len(jobs') : jobs'[i].key = mem'[jobs'[i].leaf].lkey
  BY SMTT(30), ZenonT(30), <1>2, <1>3, <1>5
<1>7. \A i, j \in 1 .. Len(jobs) : SameKey(i, j)' <=> SameKey(i, j)
  BY <1>2 DEF SameKey
<1>8. \A k : NoJob(k)' => NoJob(k) /\ k # key
  BY <1>1, <1>2 DEF NoJob
<1>9. ASSUME NEW i \in 1 .. Len(jobs), jobs[i].key \notin mixed
      PROVE  /\ FirstJob(i)' => FirstOK(i)'
             /\ LastJob(i)' => LastOK(i)'
             /\ \A j \in 1 .. Len(jobs') : NextJob(i, j)' => NextOK(i, j)'
  <2>0. /\ FirstJob(i) => FirstOK(i)
        /\ LastJob(i) => LastOK(i)
        /\ \A j \in 1 .. Len(jobs) : NextJob(i, j) => NextOK(i, j)
        /\ jobs'[i] = jobs[i] /\ jobs[i] \in JobT
    BY <1>0, <1>1, <1>2, <1>9 DEF JobInv
  <2>1. FirstJob(i)' => FirstOK(i)'
    <3>1. FirstJob(i)' => FirstJob(i)
      BY <1>7 DEF FirstJob
    <3>2. FirstOK(i) => FirstOK(i)'
      BY <2>0 DEF FirstOK, Entry
    <3> QED
      BY <2>0, <3>1, <3>2
  <2>2. \A j \in i + 1 .. Len(jobs) : j \in 1 .. Len(jobs) /\ j \in i + 1 .. Len(jobs')
    BY <1>1, <1>2
  <2>3. LastJob(i)' => LastJob(i)
    BY <1>7, <2>2 DEF LastJob
  <2>4. LastJob(i)' => LastOK(i)'
    <3> SUFFICES ASSUME LastJob(i)' PROVE LastOK(i)'
      OBVIOUS
    <3>1. N \in i + 1 .. Len(jobs')
      BY <1>1, <1>2
    <3>2. jobs[i].key # key
      BY <1>2, <2>0, <3>1 DEF LastJob, SameKey
    <3>3. LastOK(i)
      BY <2>0, <2>3
    <3>4. CASE jobs[i].name = "insert"
      <4>1. jobs[i].leaf \in Live /\ node[jobs[i].leaf].lkey = jobs[i].key
        BY <1>5, <3>3, <3>4 DEF LastOK
      <4> QED
        BY <2>0, <3>2, <3>4, <4>1 DEF LastOK
    <3>5. CASE jobs[i].name # "insert"
      <4>1. \A l \in Live : node[l].lkey # jobs[i].key
        BY <3>3, <3>5 DEF LastOK
      <4>2. \A l \in Live' : node'[l].lkey # jobs[i].key
        BY <3>2, <4>1
      <4> QED
        BY <2>0, <3>5, <4>2 DEF LastOK
    <3> QED
      BY <3>4, <3>5
  <2>5. ASSUME NEW j \in 1 .. Len(jobs), NextJob(i, j)' PROVE NextOK(i, j)'
    <3>1. \A g \in i + 1 .. j - 1 : g \in 1 .. Len(jobs)
      BY <1>1
    <3>2. NextJob(i, j)
      BY <1>7, <2>5, <3>1 DEF NextJob
    <3>3. NextOK(i, j)
      BY <2>0, <3>2
    <3> QED
      BY <1>2, <2>0, <3>3 DEF NextOK
  <2>6. ASSUME NextJob(i, N)' PROVE NextOK(i, N)'
    <3>1. /\ jobs[i].key = key
          /\ \A g \in i + 1 .. N - 1 : ~SameKey(i, g)'
      BY <1>2, <2>0, <2>6 DEF NextJob, SameKey
    <3>2. \A g \in i + 1 .. Len(jobs) : g \in i + 1 .. N - 1
      BY <1>1
    <3>3. LastJob(i)
      BY <1>7, <2>2, <3>1, <3>2 DEF LastJob
    <3>4. LastOK(i)
      BY <2>0, <3>3
    <3>5. CASE jobs[i].name = "insert"
      <4>1. jobs[i].leaf \in Live /\ node[jobs[i].leaf].lkey = key
        BY <1>5, <3>1, <3>4, <3>5 DEF LastOK
      <4>2. job.name = "remove"
        BY <1>4, <4>1
      <4>3. job.leaf = jobs[i].leaf
        BY <1>0, <4>1, <4>2 DEF TileInv
      <4> QED
        BY <1>2, <2>0, <3>5, <4>2, <4>3 DEF NextOK
    <3>6. CASE jobs[i].name # "insert"
      <4>1. \A l \in Live : node[l].lkey # key
        BY <3>1, <3>4, <3>6 DEF LastOK
      <4>2. job.name = "insert"
        BY <1>4, <4>1
      <4> QED
        BY <1>2, <2>0, <3>6, <4>2 DEF NextOK
    <3> QED
      BY <3>5, <3>6
  <2> QED
    BY <1>3, <2>1, <2>4, <2>5, <2>6
<1>10. ASSUME key \notin mixed
       PROVE  /\ FirstJob(N)' => FirstOK(N)'
              /\ LastJob(N)' => LastOK(N)'
              /\ \A j \in 1 .. Len(jobs') : NextJob(N, j)' => NextOK(N, j)'
  <2>1. ~ \E j \in 1 .. Len(jobs') : NextJob(N, j)'
    BY <1>1, <1>2 DEF NextJob
  <2>2. LastOK(N)'
    BY <1>2, <1>4 DEF LastOK
  <2>3. ASSUME FirstJob(N)' PROVE FirstOK(N)'
    <3>1. \A j \in 1 .. Len(jobs) : j \in 1 .. N - 1
      BY <1>1
    <3>2. NoJob(key)
      BY <1>2, <2>3, <3>1 DEF FirstJob, SameKey, NoJob
    <3>3. \A e \in index : e.key = key => e.leaf \in Live /\ node[e.leaf].lkey = key
      BY <1>0, <1>5, <1>10, <3>2 DEF JobInv
    <3>4. CASE job.name = "insert"
      BY <1>2, <3>3, <3>4 DEF FirstOK
    <3>5. CASE job.name = "remove"
      <4>1. Entry(key, job.leaf) \in index
        BY <1>0, <1>10, <3>2, <3>5 DEF JobInv
      <4>2. \A e \in index : e.key = key => e.leaf = job.leaf
        BY <1>0, <3>3, <3>5 DEF TileInv
      <4> QED
        BY <1>2, <3>5, <4>1, <4>2 DEF FirstOK, Entry
    <3> QED
      BY <1>4, <3>4, <3>5
  <2> QED
    BY <2>1, <2>2, <2>3
<1>11. \A i \in 1 .. Len(jobs') : jobs'[i].key \notin mixed' =>
          /\ FirstJob(i)' => FirstOK(i)'
          /\ LastJob(i)' => LastOK(i)'
          /\ \A j \in 1 .. Len(jobs') : NextJob(i, j)' => NextOK(i, j)'
  BY <1>2, <1>3, <1>9, <1>10
<1>12. \A e \in index' : e.key \notin mixed' /\ NoJob(e.key)' => e.leaf \in Live'
  <2> SUFFICES ASSUME NEW e \in index, e.key \notin mixed, NoJob(e.key)' PROVE e.leaf \in Live'
    OBVIOUS
  <2>1. NoJob(e.key) /\ e.key # key
    BY <1>8
  <2>2. e.leaf \in Live /\ node[e.leaf].lkey = e.key
    BY <1>0, <1>5, <2>1 DEF JobInv
  <2> QED
    BY <2>1, <2>2
<1>13. \A l \in Live' : node'[l].lkey \notin mixed' /\ NoJob(node[l].lkey)' => Entry(node'[l].lkey, l) \in index'
  <2> SUFFICES ASSUME NEW l \in Live', node'[l].lkey \notin mixed, NoJob(node[l].lkey)'
               PROVE  Entry(node'[l].lkey, l) \in index
    OBVIOUS
  <2>1. \A k : k = node'[l].lkey => (NoJob(k)' <=> NoJob(node[l].lkey)')
    BY DEF NoJob
  <2>2. PICK k : k = node'[l].lkey
    OBVIOUS
  <2>3. NoJob(k) /\ k # key
    BY <1>8, <2>1, <2>2
  <2>4. l \in Live /\ node[l].lkey = k
    BY <2>2, <2>3
  <2> QED
    BY <1>0, <2>2, <2>3, <2>4 DEF JobInv
<1>14. JobInv'
  BY <1>6, <1>11, <1>12, <1>13 DEF JobInv, Entry
<1> QED
  BY <1>2, <1>14

(* A node is split in two.                                                  *)
LEMMA SplitTiles ==
    ASSUME TileInv, NEW n \in Live, NEW new, new \notin Live, NEW median \in Nat,
           node[n].lkey < median, median < node[n].hkey,
           NEW left \in NodeT, left.lkey = node[n].lkey, left.hkey = median,
           NEW right \in NodeT, right.lkey = median, right.hkey = node[n].hkey,
           node' = [l \in Live \cup {new} |-> IF l = new THEN right ELSE IF l = n THEN left ELSE node[l]]
    PROVE  /\ TileInv' /\ Live' = Live \cup {new} /\ new # n
           /\ node'[new] = right /\ node'[n] = left
           /\ \A l \in Live : node[l].lkey # median /\ node'[l].lkey = node[l].lkey
           /\ \A l \in Live : l # n => l # new /\ node'[l] = node[l]
<1>1. \A l \in Live : node[l].lkey \in Nat /\ node[l].hkey \in Nat /\ node[l] \in NodeT
  BY NodeTypes
<1>2. /\ \A l, m \in Live : ~(node[l].lkey < node[m].lkey /\ node[m].lkey < node[l].hkey)
      /\ \A l, m \in Live : node[l].lkey = node[m].lkey => l = m
      /\ \A l \in Live : node[l].lkey >= MinKey
      /\ \A l \in Live : \/ node[l].hkey = MaxKey
                         \/ node[l].lkey < node[l].hkey /\ \E m \in Live : node[m].lkey = node[l].hkey
  BY DEF TileInv, Overlap, Tiled
<1>3. Live' = Live \cup {new} /\ new # n /\ node'[new] = right /\ node'[n] = left
  BY DEF Live
<1>4. \A l \in Live : l # n => l # new /\ node'[l] = node[l]
  BY DEF Live
<1>5. \A l \in Live : node[l].lkey # median
  BY <1>1, <1>2
<1>6. \A l \in Live : node'[l].lkey = node[l].lkey
  BY <1>3, <1>4
<1>7. node' \in [Live' -> NodeT]
  BY <1>1, <1>3
<1>8. \E l \in Live' : node'[l].lkey = MinKey
  <2>1. PICK l \in Live : node[l].lkey = MinKey
    BY DEF TileInv
  <2> QED
    BY <1>3, <1>6, <2>1
<1>9. \A l, m \in Live' : node'[l].lkey = node'[m].lkey => l = m
  BY <1>2, <1>3, <1>5, <1>6
<1>10. \A l \in Live' : Tiled(l)'
  <2> SUFFICES ASSUME NEW l \in Live'
               PROVE  /\ node'[l].lkey >= MinKey
                      /\ \/ node'[l].hkey = MaxKey
                         \/ /\ node'[l].lkey < node'[l].hkey
                            /\ \E m \in Live' : node'[m].lkey = node'[l].hkey
    BY DEF Tiled
  <2>1. CASE l = new
    <3>1. node[n].hkey = MaxKey \/ \E m \in Live : node[m].lkey = node[n].hkey
      BY <1>2
    <3>2. median >= MinKey
      BY <1>1, <1>2 DEF MinKey
    <3> QED
      BY <1>3, <1>6, <2>1, <3>1, <3>2
  <2>2. CASE l = n
    BY <1>2, <1>3, <2>2
  <2>3. CASE l # n /\ l # new
    BY <1>2, <1>3, <1>4, <1>6, <2>3
  <2> QED
    BY <2>1, <2>2, <2>3
<1>11. \A l, m \in Live' : ~Overlap(l, m)'
  <2> SUFFICES ASSUME NEW l \in Live', NEW m \in Live',
                      node'[l].lkey < node'[m].lkey, node'[m].lkey < node'[l].hkey
               PROVE  FALSE
    BY DEF Overlap
  <2>1. CASE l = new /\ m \in Live
    BY <1>1, <1>2, <1>3, <1>6, <2>1
  <2>2. CASE l = n /\ m \in Live
    BY <1>1, <1>2, <1>3, <1>6, <2>2
  <2>3. CASE m = new /\ l \in {n, new}
    BY <1>1, <1>3, <2>3
  <2>4. CASE l \in Live \ {n} /\ m \in Live
    BY <1>2, <1>4, <1>6, <2>4
  <2>5. CASE l \in Live \ {n} /\ m = new
    <3>1. node[l].lkey < median /\ median < node[l].hkey
      BY <1>3, <1>4, <2>5
    <3>2. ~(node[l].lkey < node[n].lkey) /\ ~(node[n].lkey < node[l].lkey)
      BY <1>1, <1>2, <2>5, <3>1
    <3> QED
      BY <1>1, <1>2, <2>5, <3>2
  <2> QED
    BY <1>3, <2>1, <2>2, <2>3, <2>4, <2>5
<1> QED
  BY <1>3, <1>4, <1>5, <1>6, <1>7, <1>8, <1>9, <1>10, <1>11 DEF TileInv

(* The bits of both halves are set, the new node is linked and its job      *)
(* queued.                                                                  *)
LEMMA SplitBitsInv ==
    ASSUME IInv, buffering \in BOOLEAN, SplitBits
    PROVE  IInv'
<1>0. mode = "up" /\ op.pc = "split_bits" /\ TypeInv /\ UpInv /\ OpInv /\ TileInv /\ LinkInv
  BY UpNow DEF SplitBits
<1>a. InSplit /\ ~InMerge
  BY <1>0 DEF InSplit, InMerge
<1>b. PICK n \in Live : n = op.node
  BY <1>0 DEF OpInv, OpTypes
<1>c. PICK new \in 1 .. leaves : new = op.new
  BY <1>0, <1>a DEF LinkInv, SplitLink
<1>d. PICK median : median = mem[new].lkey
  OBVIOUS
<1>e. PICK left : left = op.left
  OBVIOUS
<1>f. PICK right : right = op.right
  OBVIOUS
<1>g. PICK x : x = [mem[n] EXCEPT !.slots = left]
  OBVIOUS
<1>h. PICK y : y = [mem[new] EXCEPT !.slots = right]
  OBVIOUS
<1>2. /\ new \notin Live /\ median \in Keys /\ median \in Nat
      /\ node[n].lkey < median /\ median < node[n].hkey
      /\ mem[n].hkey = median /\ mem[n].next = new /\ mem[new].lkey = median
      /\ mem[new].hkey = node[n].hkey /\ NextIs(mem[new].next, node[n].hkey)
      /\ mem[n].lkey = node[n].lkey
  BY <1>0, <1>a, <1>b, <1>c, <1>d, ConstFacts DEF LinkInv, SplitLink
<1>3. new \notin Known /\ Filed(left, mem[n]) /\ Filed(right, mem[new])
  BY <1>0, <1>a, <1>b, <1>c, <1>e, <1>f DEF OpInv
<1>4. /\ n \in Leaf /\ n \in 1 .. leaves /\ mem[n] \in LeafT /\ pmem \in [Leaf -> LeafT]
      /\ mem \in [Leaf -> LeafT] /\ node[n].lkey \in Nat /\ node[n].hkey \in Nat
  BY <1>0, AtLeaf
<1>5. new \in Leaf /\ mem[new] \in LeafT /\ new # n
  BY <1>0, <1>2, StateTypes
<1>6. node[n].lkey >= MinKey /\ median >= MinKey /\ node[n] \in NodeT
  BY <1>0, <1>2, <1>4, NodeTypes DEF TileInv, Tiled, MinKey
<1>7. x \in LeafT /\ x.lkey = node[n].lkey /\ x.hkey = median /\ x.next = new
      /\ Quiet(x, x, crash.torn)
  <2>1. Files(left, mem[n].lkey, mem[n].hkey, crash.torn)
    BY <1>3 DEF Filed, Files, Written
  <2>2. mem[n].lkey >= MinKey /\ mem[n].lkey < mem[n].hkey
    BY <1>2, <1>6
  <2>3. x \in LeafT /\ LeafOK(x) /\ \A i \in Slot : x.slots[i].valid => Written(x.slots[i], crash.torn)
    BY <1>4, <1>g, <2>1, <2>2, FilesOK
  <2>4. Quiet(x, x, crash.torn)
    BY <2>3, LeafFlushed DEF Quiet
  <2> QED
    BY <1>2, <1>4, <1>g, <2>3, <2>4 DEF LeafT
<1>8. y \in LeafT /\ y.lkey = median /\ y.hkey = node[n].hkey /\ y.next = mem[new].next
      /\ Quiet(y, y, crash.torn)
  <2>1. Files(right, mem[new].lkey, mem[new].hkey, crash.torn)
    BY <1>3 DEF Filed, Files, Written
  <2>2. mem[new].lkey >= MinKey /\ mem[new].lkey < mem[new].hkey
    BY <1>2, <1>6
  <2>3. y \in LeafT /\ LeafOK(y) /\ \A i \in Slot : y.slots[i].valid => Written(y.slots[i], crash.torn)
    BY <1>5, <1>h, <2>1, <2>2, FilesOK
  <2>4. Quiet(y, y, crash.torn)
    BY <2>3, LeafFlushed DEF Quiet
  <2> QED
    BY <1>2, <1>5, <1>h, <2>3, <2>4 DEF LeafT
<1>i. PICK lnode : lnode = [node[n] EXCEPT !.hkey = median, !.buf = <<>>]
  OBVIOUS
<1>j. PICK rnode : rnode = MLNode(median, node[n].hkey, buffering)
  OBVIOUS
<1>k. PICK job : job = [name |-> "insert", key |-> median, leaf |-> new]
  OBVIOUS
<1>9. /\ lnode \in NodeT /\ lnode.lkey = node[n].lkey /\ lnode.hkey = median /\ lnode.buf = <<>>
      /\ rnode \in NodeT /\ rnode.lkey = median /\ rnode.hkey = node[n].hkey /\ rnode.buf = <<>>
  <2>1. <<>> \in Seq(RecT)
    OBVIOUS
  <2> QED
    BY <1>2, <1>4, <1>6, <1>i, <1>j, <2>1 DEF NodeT, MLNode
<1>10. job \in JobT /\ job.name = "insert" /\ job.key = median /\ job.leaf = new
  BY <1>2, <1>4, <1>5, <1>k, StateTypes, <1>0 DEF JobT
<1>11. /\ mem' = [mem EXCEPT ![n] = x, ![new] = y]
       /\ pmem' = [pmem EXCEPT ![n] = x, ![new] = y]
       /\ node' = [l \in Live \cup {new} |-> IF l = new THEN rnode ELSE IF l = n THEN lnode ELSE node[l]]
       /\ jobs' = jobs \o <<job>> /\ op' = NoOp
       /\ leaves' = leaves /\ index' = index /\ weak' = weak /\ mixed' = mixed /\ mode' = mode
       /\ crash' = crash
  <2>1. mem' = [mem EXCEPT ![n].slots = left, ![new].slots = right]
    BY <1>b, <1>c, <1>e, <1>f DEF SplitBits
  <2>2. mem' = [mem EXCEPT ![n] = x, ![new] = y]
    BY <1>4, <1>5, <1>g, <1>h, <2>1
  <2>3. mem'[n] = x /\ mem'[new] = y
    BY <1>4, <1>5, <2>2
  <2>4. pmem' = [pmem EXCEPT ![n] = mem'[n], ![new] = mem'[new]]
    BY <1>b, <1>c DEF SplitBits
  <2>5. jobs' = jobs \o <<job>>
    BY <1>c, <1>d, <1>k DEF SplitBits, Submit
  <2>6. node' = [l \in Live \cup {new} |-> IF l = new THEN rnode ELSE IF l = n THEN lnode ELSE node[l]]
    BY <1>b, <1>c, <1>d, <1>i, <1>j DEF SplitBits, Live
  <2> QED
    BY <2>2, <2>3, <2>4, <2>5, <2>6 DEF SplitBits, procVars
<1>12. /\ mem' \in [Leaf -> LeafT] /\ pmem' \in [Leaf -> LeafT]
       /\ mem'[n] = x /\ mem'[new] = y /\ pmem'[n] = x /\ pmem'[new] = y
       /\ \A l \in Leaf : l # n /\ l # new => mem'[l] = mem[l] /\ pmem'[l] = pmem[l]
  BY <1>4, <1>5, <1>7, <1>8, <1>11
<1>13. /\ TileInv' /\ Live' = Live \cup {new}
       /\ node'[new] = rnode /\ node'[n] = lnode
       /\ \A l \in Live : node[l].lkey # median /\ node'[l].lkey = node[l].lkey
       /\ \A l \in Live : l # n => l # new /\ node'[l] = node[l]
  <2>1. /\ TileInv /\ n \in Live /\ new \notin Live /\ median \in Nat
        /\ node[n].lkey < median /\ median < node[n].hkey
        /\ lnode \in NodeT /\ lnode.lkey = node[n].lkey /\ lnode.hkey = median
        /\ rnode \in NodeT /\ rnode.lkey = median /\ rnode.hkey = node[n].hkey
        /\ node' = [l \in Live \cup {new} |-> IF l = new THEN rnode ELSE IF l = n THEN lnode ELSE node[l]]
    BY <1>0, <1>2, <1>9, <1>11
  <2>2. TileInv'
    BY ONLY <2>1, SplitTiles
  <2>3. Live' = Live \cup {new}
    BY <2>1 DEF Live
  <2>4. node'[new] = rnode
    BY <2>1
  <2>5. node'[n] = lnode
    BY <2>1
  <2>6. \A l \in Live : node[l].lkey # median
    <3> SUFFICES ASSUME NEW l \in Live, node[l].lkey = median PROVE FALSE
      OBVIOUS
    <3>1. ~Overlap(n, l)
      BY <1>0 DEF TileInv
    <3> QED
      BY <1>2, <3>1 DEF Overlap
  <2>7. \A l \in Live : node'[l].lkey = node[l].lkey
    BY ONLY <2>1, SplitTiles
  <2>8. \A l \in Live : l # n => l # new /\ node'[l] = node[l]
    BY ONLY <2>1, SplitTiles
  <2> QED
    BY <2>2, <2>3, <2>4, <2>5, <2>6, <2>7, <2>8
<1>14. op'.pc = "idle" /\ DOMAIN op' = DOMAIN NoOp
  BY <1>11 DEF NoOp
<1>15. OpInv' /\ ~InSplit' /\ ~InMerge' /\ \A l : ~Stirred(l)'
  BY <1>14, IdleNext
<1>16. Known \subseteq 1 .. leaves /\ 1 .. leaves \subseteq Leaf /\ Live \subseteq Known
       /\ leaves \in Nat
  BY <1>0, StateTypes DEF UpInv, LeavesInv, LeafInv, Known
<1>17. JobInv' /\ jobs' \in Seq(JobT)
  <2>1. \A l \in Known : mem'[l].lkey = mem[l].lkey
    BY <1>2, <1>3, <1>7, <1>12, <1>16
  <2>2. job.key = mem'[job.leaf].lkey
    BY <1>8, <1>10, <1>12
  <2>3. /\ \A l \in Live : node[l].lkey # job.key /\ l \in Live'
        /\ \A l \in Live' : node'[l].lkey # job.key => l \in Live /\ node'[l].lkey = node[l].lkey
        /\ job.leaf \in Live' /\ job.name # "remove"
    BY <1>9, <1>10, <1>13
  <2> QED
    BY <1>0, <1>10, <1>11, <2>1, <2>2, <2>3, JobSubmitted
<1>18. TypeInv'
  BY <1>0, <1>11, <1>12, <1>13, <1>17 DEF TypeInv
<1>19. BufInv'
  <2>1. /\ Len(<<>>) = 0 /\ 1 .. 0 = {} /\ BufferCapacity >= 0
    BY CapacityAssumption
  <2> SUFFICES ASSUME NEW l \in Live'
               PROVE  /\ Len(node'[l].buf) <= BufferCapacity
                      /\ \A i \in 1 .. Len(node'[l].buf) : GoodRec(node[l].buf[i], l)'
    BY DEF BufInv
  <2>2. CASE l \in {n, new}
    <3>1. Len(node'[l].buf) = 0
      BY <1>9, <1>13, <2>2
    <3> QED
      BY <2>1, <3>1
  <2>3. CASE l \in Live /\ l # n
    <3>1. node'[l] = node[l]
      BY <1>13, <2>3
    <3>2. Len(node[l].buf) <= BufferCapacity /\ \A i \in 1 .. Len(node[l].buf) : GoodRec(node[l].buf[i], l)
      BY <1>0, <2>3 DEF UpInv, BufInv
    <3> QED
      BY <3>1, <3>2 DEF GoodRec, InNode
  <2> QED
    BY <1>13, <2>2, <2>3
<1>20. LinkInv'
  <2>1. \A next, hkey : NextIs(next, hkey) => NextIs(next, hkey)'
    BY <1>13 DEF NextIs
  <2>2. \A l \in Live' : mem'[l].lkey = node'[l].lkey /\ Linked(l)'
    <3> SUFFICES ASSUME NEW l \in Live' PROVE mem'[l].lkey = node'[l].lkey /\ Linked(l)'
      OBVIOUS
    <3>1. CASE l = n
      <4>1. NextIs(mem[n].next, node[n].hkey)'
        <5>1. median # MaxKey
          BY <1>2, ConstFacts
        <5> QED
          BY <1>7, <1>9, <1>12, <1>13, <5>1 DEF NextIs
      <4> QED
        BY <1>7, <1>9, <1>12, <1>13, <3>1, <4>1 DEF Linked
    <3>2. CASE l = new
      <4>1. NextIs(mem[new].next, node[new].hkey)'
        <5>1. NextIs(mem[new].next, node[n].hkey)
          BY <1>2
        <5>2. PICK a, c : a = mem[new].next /\ c = node[n].hkey
          OBVIOUS
        <5>3. NextIs(a, c)'
          BY <2>1, <5>1, <5>2
        <5>4. mem'[new].next = a /\ node'[new].hkey = c
          BY <1>8, <1>9, <1>12, <1>13, <5>2
        <5> QED
          BY <5>3, <5>4 DEF NextIs
      <4> QED
        BY <1>8, <1>9, <1>12, <1>13, <3>2, <4>1 DEF Linked
    <3>3. CASE l \in Live /\ l # n
      <4>1. mem[l].lkey = node[l].lkey /\ Linked(l)
        BY <1>0, <1>a, <1>b, <3>3 DEF LinkInv
      <4>2. mem'[l] = mem[l] /\ node'[l] = node[l]
        BY <1>12, <1>13, <1>16, <3>3
      <4>3. PICK a, c : a = mem[l].next /\ c = node[l].hkey
        OBVIOUS
      <4>4. NextIs(a, c)'
        BY <2>1, <4>1, <4>3 DEF Linked
      <4> QED
        BY <4>1, <4>2, <4>3, <4>4 DEF Linked, NextIs
    <3> QED
      BY <1>13, <3>1, <3>2, <3>3
  <2> QED
    BY <1>15, <2>2 DEF LinkInv
<1>21. LeavesInv'
  <2>1. Known' \subseteq Known \cup {new}
    <3>1. \A i \in 1 .. Len(jobs') : jobs'[i] = job \/ \E j \in 1 .. Len(jobs) : jobs'[i] = jobs[j]
      <4>1. jobs \in Seq(JobT)
        BY <1>0 DEF TypeInv
      <4> QED
        BY <1>11, <4>1
    <3> QED
      BY <1>10, <1>11, <1>13, <3>1 DEF Known
  <2> SUFFICES ASSUME NEW l \in Known \cup {new} PROVE LeafInv(l)'
    BY <2>1 DEF LeavesInv
  <2>2. CASE l = n
    BY <1>4, <1>7, <1>11, <1>12, <1>15, <2>2, CalmLeafNext
  <2>3. CASE l = new
    BY <1>8, <1>11, <1>12, <1>15, <2>3, CalmLeafNext
  <2>4. CASE l \in Known /\ l # n /\ l # new
    <3>1. LeafInv(l) /\ ~Stirred(l) /\ mem'[l] = mem[l] /\ pmem'[l] = pmem[l]
      BY <1>0, <1>b, <1>12, <1>16, <2>4 DEF UpInv, LeavesInv, Stirred, Busy
    <3>2. ~Stirred(l)' /\ leaves \in Nat /\ leaves' = leaves /\ crash' = crash /\ leaves' >= leaves
      BY <1>11, <1>15, <1>16
    <3> QED
      BY <3>1, <3>2, LeafKept
  <2> QED
    BY <2>2, <2>3, <2>4
<1> QED
  BY <1>0, <1>11, <1>13, <1>15, <1>17, <1>18, <1>19, <1>20, <1>21, UpNext DEF UpInv

(* A node takes the range of the one behind it.                             *)
LEMMA MergeTiles ==
    ASSUME TileInv, NEW n \in Live, NEW r \in Live,
           node[n].hkey # MaxKey, node[r].lkey = node[n].hkey,
           NEW left \in NodeT, left.lkey = node[n].lkey, left.hkey = node[r].hkey,
           node' = [l \in Live \ {r} |-> IF l = n THEN left ELSE node[l]]
    PROVE  /\ TileInv' /\ Live' = Live \ {r} /\ r # n /\ node'[n] = left
           /\ \A l \in Live' : node[l].lkey # node[r].lkey /\ node'[l].lkey = node[l].lkey
           /\ \A l \in Live' : l # n => node'[l] = node[l] /\ node[l].hkey # node[r].lkey
<1>1. \A l \in Live : node[l].lkey \in Nat /\ node[l].hkey \in Nat /\ node[l] \in NodeT
  BY NodeTypes
<1>2. /\ \A l, m \in Live : ~(node[l].lkey < node[m].lkey /\ node[m].lkey < node[l].hkey)
      /\ \A l, m \in Live : node[l].lkey = node[m].lkey => l = m
      /\ \A l \in Live : node[l].lkey >= MinKey
      /\ \A l \in Live : \/ node[l].hkey = MaxKey
                         \/ node[l].lkey < node[l].hkey /\ \E m \in Live : node[m].lkey = node[l].hkey
  BY DEF TileInv, Overlap, Tiled
<1>3. /\ r # n /\ node[n].lkey < node[r].lkey
      /\ node[r].lkey < node[r].hkey \/ node[r].hkey = MaxKey
      /\ \A l \in Live : node[l].hkey = node[r].lkey => l = n
      /\ \A l \in Live : node[l].lkey > node[n].lkey => l = r \/ node[l].lkey > node[r].lkey
  BY NextNodeIs
<1>4. Live' = Live \ {r} /\ node'[n] = left
  BY <1>3 DEF Live
<1>5. \A l \in Live' : l # n => node'[l] = node[l] /\ node[l].hkey # node[r].lkey
  BY <1>3, <1>4 DEF Live
<1>6. \A l \in Live' : node[l].lkey # node[r].lkey /\ node'[l].lkey = node[l].lkey
  BY <1>2, <1>4, <1>5
<1>7. node' \in [Live' -> NodeT]
  BY <1>1, <1>4
<1>8. \E l \in Live' : node'[l].lkey = MinKey
  <2>1. PICK l \in Live : node[l].lkey = MinKey
    BY DEF TileInv
  <2>2. l # r
    BY <1>1, <1>2, <1>3, <2>1 DEF MinKey
  <2> QED
    BY <1>4, <1>6, <2>1, <2>2
<1>9. \A l, m \in Live' : node'[l].lkey = node'[m].lkey => l = m
  BY <1>2, <1>4, <1>6
<1>10. \A l \in Live' : Tiled(l)'
  <2> SUFFICES ASSUME NEW l \in Live'
               PROVE  /\ node'[l].lkey >= MinKey
                      /\ \/ node'[l].hkey = MaxKey
                         \/ /\ node'[l].lkey < node'[l].hkey
                            /\ \E m \in Live' : node'[m].lkey = node'[l].hkey
    BY DEF Tiled
  <2>1. CASE l = n
    <3>1. node[r].hkey = MaxKey \/ \E m \in Live : m # r /\ node[m].lkey = node[r].hkey
      BY <1>1, <1>2
    <3>2. node[r].hkey = MaxKey \/ node[n].lkey < node[r].hkey
      BY <1>1, <1>3
    <3> QED
      BY <1>2, <1>4, <1>6, <2>1, <3>1, <3>2
  <2>2. CASE l # n
    BY <1>2, <1>4, <1>5, <1>6, <2>2
  <2> QED
    BY <2>1, <2>2
<1>11. \A l, m \in Live' : ~Overlap(l, m)'
  <2> SUFFICES ASSUME NEW l \in Live', NEW m \in Live',
                      node'[l].lkey < node'[m].lkey, node'[m].lkey < node'[l].hkey
               PROVE  FALSE
    BY DEF Overlap
  <2>1. CASE l = n
    <3>1. node[m].lkey > node[n].lkey /\ node[m].lkey < node[r].hkey /\ m \in Live /\ m # r
      BY <1>1, <1>4, <1>6, <2>1
    <3>2. node[m].lkey > node[r].lkey
      BY <1>3, <3>1
    <3> QED
      BY <1>1, <1>2, <3>1, <3>2
  <2>2. CASE l # n
    BY <1>2, <1>4, <1>5, <1>6, <2>2
  <2> QED
    BY <2>1, <2>2
<1> QED
  BY <1>3, <1>4, <1>5, <1>6, <1>7, <1>8, <1>9, <1>10, <1>11 DEF TileInv

(* The bits of the merged leaf are set, the right node is unlinked and the  *)
(* deletion of its entry queued.                                            *)
LEMMA MergeBitsInv ==
    ASSUME IInv, MergeBits
    PROVE  IInv'
<1>0. mode = "up" /\ op.pc = "merge_bits" /\ TypeInv /\ UpInv /\ OpInv /\ TileInv /\ LinkInv
  BY UpNow DEF MergeBits
<1>a. InMerge /\ ~InSplit
  BY <1>0 DEF InSplit, InMerge
<1>b. PICK n \in Live : n = op.node
  BY <1>0 DEF OpInv, OpTypes
<1>c. PICK r \in Live : MergeLink(n, r)
  BY <1>0, <1>a, <1>b DEF LinkInv
<1>2. /\ r # n /\ node[n].hkey # MaxKey /\ node[r].lkey = node[n].hkey
      /\ mem[n].hkey = node[r].hkey /\ NextIs(mem[n].next, node[r].hkey)
  BY <1>c DEF MergeLink
<1>3. /\ NextNode(n) = r /\ node[n].lkey < node[r].lkey
      /\ node[r].lkey < node[r].hkey \/ node[r].hkey = MaxKey
  BY <1>0, <1>2, NextNodeIs
<1>e. PICK left : left = op.left
  OBVIOUS
<1>g. PICK x : x = [mem[n] EXCEPT !.slots = left]
  OBVIOUS
<1>i. PICK lnode : lnode = [node[n] EXCEPT !.hkey = node[r].hkey]
  OBVIOUS
<1>j. PICK key : key = node[r].lkey
  OBVIOUS
<1>k. PICK job : job = [name |-> "remove", key |-> key, leaf |-> r]
  OBVIOUS
<1>4. /\ n \in Leaf /\ n \in 1 .. leaves /\ mem[n] \in LeafT /\ pmem \in [Leaf -> LeafT]
      /\ mem \in [Leaf -> LeafT] /\ mem[n].lkey = node[n].lkey
      /\ node[n].lkey \in Nat /\ node[n].hkey \in Nat
  BY <1>0, AtLeaf
<1>5. /\ r \in Leaf /\ r \in 1 .. leaves /\ mem[r].lkey = key
      /\ node[r].lkey \in Nat /\ node[r].hkey \in Nat
  BY <1>0, <1>j, AtLeaf
<1>6. node[n].lkey >= MinKey /\ node[n] \in NodeT
  BY <1>0, NodeTypes DEF TileInv, Tiled
<1>7. x \in LeafT /\ x.lkey = node[n].lkey /\ x.hkey = node[r].hkey /\ x.next = mem[n].next
      /\ Quiet(x, x, crash.torn)
  <2>1. Files(left, mem[n].lkey, mem[n].hkey, crash.torn)
    <3>1. Filed(left, mem[n])
      BY <1>0, <1>a, <1>b, <1>e DEF OpInv
    <3> QED
      BY <3>1 DEF Filed, Files, Written
  <2>2. mem[n].lkey >= MinKey /\ (mem[n].lkey < mem[n].hkey \/ mem[n].hkey = MaxKey)
    BY <1>2, <1>3, <1>4, <1>5, <1>6
  <2>3. x \in LeafT /\ LeafOK(x) /\ \A i \in Slot : x.slots[i].valid => Written(x.slots[i], crash.torn)
    BY <1>4, <1>g, <2>1, <2>2, FilesOK
  <2>4. Quiet(x, x, crash.torn)
    BY <2>3, LeafFlushed DEF Quiet
  <2> QED
    BY <1>2, <1>4, <1>g, <2>3, <2>4 DEF LeafT
<1>9. /\ lnode \in NodeT /\ lnode.lkey = node[n].lkey /\ lnode.hkey = node[r].hkey
      /\ lnode.buf = node[n].buf
  BY <1>5, <1>6, <1>i DEF NodeT
<1>10. job \in JobT /\ job.name = "remove" /\ job.key = key /\ job.leaf = r
  BY <1>0, <1>5, <1>j, <1>k, StateTypes DEF JobT
<1>11. /\ mem' = [mem EXCEPT ![n] = x]
       /\ pmem' = [pmem EXCEPT ![n] = x]
       /\ node' = [l \in Live \ {r} |-> IF l = n THEN lnode ELSE node[l]]
       /\ jobs' = jobs \o <<job>> /\ op' = [op EXCEPT !.pc = "removed"]
       /\ leaves' = leaves /\ index' = index /\ weak' = weak /\ mixed' = mixed /\ mode' = mode
       /\ crash' = crash
  <2>1. mem' = [mem EXCEPT ![n].slots = left]
    BY <1>b, <1>e DEF MergeBits
  <2>2. mem' = [mem EXCEPT ![n] = x]
    BY <1>4, <1>g, <2>1
  <2>3. mem'[n] = x
    BY <1>4, <2>2
  <2>4. pmem' = [pmem EXCEPT ![n] = mem'[n]]
    BY <1>b DEF MergeBits
  <2>5. jobs' = jobs \o <<job>>
    BY <1>3, <1>b, <1>j, <1>k DEF MergeBits, Submit
  <2>6. node' = [l \in Live \ {r} |-> IF l = n THEN lnode ELSE node[l]]
    BY <1>3, <1>b, <1>i DEF MergeBits, Live
  <2> QED
    BY <2>2, <2>3, <2>4, <2>5, <2>6 DEF MergeBits, procVars
<1>12. /\ mem' \in [Leaf -> LeafT] /\ pmem' \in [Leaf -> LeafT]
       /\ mem'[n] = x /\ pmem'[n] = x
       /\ \A l \in Leaf : l # n => mem'[l] = mem[l] /\ pmem'[l] = pmem[l]
  BY <1>4, <1>7, <1>11
<1>13. /\ TileInv' /\ Live' = Live \ {r} /\ node'[n] = lnode
       /\ \A l \in Live' : node[l].lkey # node[r].lkey /\ node'[l].lkey = node[l].lkey
       /\ \A l \in Live' : l # n => node'[l] = node[l] /\ node[l].hkey # node[r].lkey
  <2>1. /\ TileInv /\ n \in Live /\ r \in Live
        /\ node[n].hkey # MaxKey /\ node[r].lkey = node[n].hkey
        /\ lnode \in NodeT /\ lnode.lkey = node[n].lkey /\ lnode.hkey = node[r].hkey
        /\ node' = [l \in Live \ {r} |-> IF l = n THEN lnode ELSE node[l]]
    BY <1>0, <1>2, <1>9, <1>11
  <2>2. TileInv'
    BY ONLY <2>1, MergeTiles
  <2>3. Live' = Live \ {r}
    BY <2>1 DEF Live
  <2>4. node'[n] = lnode
    BY <1>2, <2>1
  <2>5. \A l \in Live' : l # n => node'[l] = node[l] /\ node[l].hkey # node[r].lkey
    <3>1. \A l \in Live : node[l].hkey = node[r].lkey => l = n
      BY <1>0, <1>2, NextNodeIs
    <3> QED
      BY <2>1, <2>3, <3>1
  <2>6. \A l \in Live' : node[l].lkey # node[r].lkey /\ node'[l].lkey = node[l].lkey
    <3>1. \A l, m \in Live : node[l].lkey = node[m].lkey => l = m
      BY <1>0 DEF TileInv
    <3> QED
      BY <1>9, <2>3, <2>4, <2>5, <3>1
  <2> QED
    BY <2>2, <2>3, <2>4, <2>5, <2>6
<1>14. op'.pc = "removed" /\ op'.node = n /\ op'.key = op.key /\ op'.recs = op.recs
       /\ DOMAIN op' = DOMAIN NoOp
  BY <1>0, <1>11, <1>b DEF OpInv, NoOp
<1>15. ~InSplit' /\ ~InMerge' /\ \A l : ~Stirred(l)'
  BY <1>14 DEF InSplit, InMerge, Stirred, Busy
<1>16. Known \subseteq 1 .. leaves /\ 1 .. leaves \subseteq Leaf /\ Live \subseteq Known
       /\ leaves \in Nat
  BY <1>0, StateTypes DEF UpInv, LeavesInv, LeafInv, Known
<1>17. JobInv' /\ jobs' \in Seq(JobT)
  <2>1. \A l \in Known : mem'[l].lkey = mem[l].lkey
    BY <1>4, <1>7, <1>12, <1>16
  <2>2. job.key = mem'[job.leaf].lkey
    BY <1>2, <1>5, <1>10, <1>12
  <2>3. /\ \A l \in Live : node[l].lkey # job.key => l \in Live'
        /\ \A l \in Live' : l \in Live /\ node'[l].lkey = node[l].lkey
        /\ \A l \in Live' : node'[l].lkey # job.key
        /\ job.leaf \in Live /\ node[job.leaf].lkey = job.key /\ job.name # "insert"
    BY <1>10, <1>13, <1>j
  <2> QED
    BY <1>0, <1>10, <1>11, <2>1, <2>2, <2>3, JobSubmitted
<1>18. TypeInv'
  BY <1>0, <1>11, <1>12, <1>13, <1>17 DEF TypeInv
<1>19. \A k \in Keys, l \in Live' : InNode(k, l) => InNode(k, l)'
  <2> SUFFICES ASSUME NEW k \in Keys, NEW l \in Live', InNode(k, l) PROVE InNode(k, l)'
    OBVIOUS
  <2>1. CASE l = n
    <3>1. k < node[r].hkey
      BY <1>2, <1>3, <1>4, <1>5, <2>1, ConstFacts DEF InNode
    <3> QED
      BY <1>9, <1>13, <2>1, <3>1 DEF InNode
  <2>2. CASE l # n
    BY <1>13, <2>2 DEF InNode
  <2> QED
    BY <2>1, <2>2
<1>20. \A l \in Live' : l \in Live /\ node'[l].buf = node[l].buf
  BY <1>9, <1>13
<1>21. \A s, l : l \in Live' /\ GoodRec(s, l) => GoodRec(s, l)'
  BY <1>19 DEF GoodRec, RecT, RecOf
<1>22. BufInv'
  <2> SUFFICES ASSUME NEW l \in Live'
               PROVE  /\ Len(node'[l].buf) <= BufferCapacity
                      /\ \A i \in 1 .. Len(node'[l].buf) : GoodRec(node[l].buf[i], l)'
    BY DEF BufInv
  <2>1. PICK b : b = node[l].buf
    OBVIOUS
  <2>2. Len(b) <= BufferCapacity /\ \A i \in 1 .. Len(b) : GoodRec(b[i], l)
    BY <1>0, <1>20, <2>1 DEF UpInv, BufInv
  <2>3. \A i \in 1 .. Len(b) : GoodRec(b[i], l)'
    BY <1>21, <2>2
  <2> QED
    BY <1>20, <2>1, <2>2, <2>3 DEF GoodRec, InNode
<1>23. LinkInv'
  <2>1. ASSUME NEW next, NEW hkey, NextIs(next, hkey), next # r PROVE NextIs(next, hkey)'
    BY <1>13, <2>1 DEF NextIs
  <2>2. \A l \in Live' : mem'[l].lkey = node'[l].lkey /\ Linked(l)'
    <3> SUFFICES ASSUME NEW l \in Live' PROVE mem'[l].lkey = node'[l].lkey /\ Linked(l)'
      OBVIOUS
    <3>1. CASE l = n
      <4>1. PICK a, c : a = mem[n].next /\ c = node[r].hkey
        OBVIOUS
      <4>2. a # r
        BY <1>2, <1>3, <1>5, <4>1, ConstFacts DEF NextIs, Leaf
      <4>3. NextIs(a, c)'
        BY <1>2, <2>1, <4>1, <4>2
      <4> QED
        BY <1>7, <1>9, <1>12, <1>13, <3>1, <4>1, <4>3 DEF Linked, NextIs
    <3>2. CASE l # n
      <4>1. mem[l].lkey = node[l].lkey /\ Linked(l)
        BY <1>0, <1>13, <1>a, <1>b, <3>2 DEF LinkInv
      <4>2. mem'[l] = mem[l] /\ node'[l] = node[l] /\ node[l].hkey # node[r].lkey
        BY <1>12, <1>13, <1>16, <3>2
      <4>3. PICK a, c : a = mem[l].next /\ c = node[l].hkey
        OBVIOUS
      <4>4. a # r
        BY <1>5, <4>1, <4>2, <4>3, ConstFacts DEF NextIs, Linked, Leaf
      <4>5. NextIs(a, c)'
        BY <2>1, <4>1, <4>3, <4>4 DEF Linked
      <4> QED
        BY <4>1, <4>2, <4>3, <4>5 DEF Linked, NextIs
    <3> QED
      BY <3>1, <3>2
  <2> QED
    BY <1>15, <2>2 DEF LinkInv
<1>24. LeavesInv'
  <2>1. Known' \subseteq Known
    <3>1. \A i \in 1 .. Len(jobs') : jobs'[i] = job \/ \E j \in 1 .. Len(jobs) : jobs'[i] = jobs[j]
      <4>1. jobs \in Seq(JobT)
        BY <1>0 DEF TypeInv
      <4> QED
        BY <1>11, <4>1
    <3> QED
      BY <1>10, <1>11, <1>13, <3>1 DEF Known
  <2> SUFFICES ASSUME NEW l \in Known PROVE LeafInv(l)'
    BY <2>1 DEF LeavesInv
  <2>2. CASE l = n
    BY <1>4, <1>7, <1>11, <1>12, <1>15, <2>2, CalmLeafNext
  <2>4. CASE l # n
    <3>1. LeafInv(l) /\ ~Stirred(l) /\ mem'[l] = mem[l] /\ pmem'[l] = pmem[l]
      BY <1>0, <1>b, <1>12, <1>16, <2>4 DEF UpInv, LeavesInv, Stirred, Busy
    <3>2. ~Stirred(l)' /\ leaves \in Nat /\ leaves' = leaves /\ crash' = crash /\ leaves' >= leaves
      BY <1>11, <1>15, <1>16
    <3> QED
      BY <3>1, <3>2, LeafKept
  <2> QED
    BY <2>2, <2>4
<1>25. OpInv'
  <2>1. OpTypes
    BY <1>0 DEF OpInv
  <2>2. \A l \in Live' : BufKeys(l)' = BufKeys(l)
    BY <1>20 DEF BufKeys
  <2>3. n \in Live'
    BY <1>2, <1>13
  <2>4. \A i \in 1 .. Len(op'.recs) : /\ GoodRec(op.recs[i], op.node)'
                                      /\ op'.recs[i].key \in {op'.key} \cup BufKeys(op.node)'
    <3>1. PICK recs : recs = op.recs
      OBVIOUS
    <3>2. \A i \in 1 .. Len(recs) : GoodRec(recs[i], n) /\ recs[i].key \in {op.key} \cup BufKeys(n)
      BY <1>b, <2>1, <3>1 DEF OpTypes
    <3>3. \A i \in 1 .. Len(recs) : GoodRec(recs[i], n)' /\ recs[i].key \in {op'.key} \cup BufKeys(n)'
      BY <1>14, <1>21, <2>2, <2>3, <3>2
    <3> QED
      BY <1>14, <3>1, <3>3 DEF GoodRec, InNode, BufKeys
  <2>5. InNode(op.key, op.node)'
    <3>1. PICK k \in Keys : k = op.key
      BY <2>1 DEF OpTypes
    <3>2. InNode(k, n)
      BY <1>b, <2>1, <3>1 DEF OpTypes
    <3>3. InNode(k, n)'
      BY <1>19, <2>3, <3>2
    <3> QED
      BY <1>14, <3>1, <3>3 DEF InNode
  <2>6. OpTypes'
    BY <1>14, <2>1, <2>3, <2>4, <2>5 DEF OpTypes
  <2> QED
    BY <1>14, <1>15, <2>6 DEF OpInv
<1> QED
  BY <1>0, <1>11, <1>13, <1>17, <1>18, <1>22, <1>23, <1>24, <1>25, UpNext DEF UpInv

(* Two leaves with the same fields are the same.                            *)
LEMMA SameLeaf ==
    ASSUME NEW x \in LeafT, NEW y \in LeafT,
           x.lkey = y.lkey, x.hkey = y.hkey, x.next = y.next,
           \A i \in Slot : /\ x.slots[i].key = y.slots[i].key /\ x.slots[i].val = y.slots[i].val
                           /\ x.slots[i].valid = y.slots[i].valid
    PROVE  x = y
<1>1. /\ x.slots \in [Slot -> [key : K0, val : Vals, valid : BOOLEAN]]
      /\ y.slots \in [Slot -> [key : K0, val : Vals, valid : BOOLEAN]]
  BY LeafTypes, SlotType
<1>2. \A i \in Slot : x.slots[i] = y.slots[i]
  <2> SUFFICES ASSUME NEW i \in Slot PROVE x.slots[i] = y.slots[i]
    OBVIOUS
  <2>1. /\ x.slots[i] \in [key : K0, val : Vals, valid : BOOLEAN]
        /\ y.slots[i] \in [key : K0, val : Vals, valid : BOOLEAN]
    BY <1>1
  <2> QED
    BY <2>1
<1>3. x.slots = y.slots
  BY <1>1, <1>2
<1> QED
  BY <1>3 DEF LeafT

(* What the cache may write back of a leaf.                                 *)
LEMMA LineWrittenBack ==
    ASSUME NEW l, mem[l] \in LeafT, pmem[l] \in LeafT, NEW q,
           \/ q = PersistHeader(l)
           \/ \E i \in Slot : q = PersistSlot(l, i) \/ q = TornSlot(l, i)
    PROVE  LET m == mem[l]
               p == pmem[l]
           IN  /\ q \in LeafT
               /\ \/ /\ q.lkey = m.lkey /\ q.hkey = m.hkey /\ q.next = m.next
                     /\ \A i \in Slot : /\ q.slots[i].key = p.slots[i].key
                                        /\ q.slots[i].val = p.slots[i].val
                                        /\ q.slots[i].valid = m.slots[i].valid
                  \/ /\ q.lkey = p.lkey /\ q.hkey = p.hkey /\ q.next = p.next
                     /\ \A i \in Slot :
                           /\ q.slots[i].valid = p.slots[i].valid
                           /\ \/ q.slots[i].key = p.slots[i].key /\ q.slots[i].val = p.slots[i].val
                              \/ /\ q.slots[i].key = m.slots[i].key
                                 /\ q.slots[i].val \in {m.slots[i].val, p.slots[i].val}
<1> DEFINE m == mem[l]
           p == pmem[l]
<1>1. CASE q = PersistHeader(l)
  <2>1. /\ PersistHeader(l) \in LeafT /\ PersistHeader(l).lkey = mem[l].lkey
        /\ PersistHeader(l).hkey = mem[l].hkey /\ PersistHeader(l).next = mem[l].next
        /\ \A i \in Slot : /\ PersistHeader(l).slots[i].key = pmem[l].slots[i].key
                           /\ PersistHeader(l).slots[i].val = pmem[l].slots[i].val
                           /\ PersistHeader(l).slots[i].valid = mem[l].slots[i].valid
    BY HeaderIs
  <2> QED
    BY <1>1, <2>1
<1>2. ASSUME NEW i \in Slot, q = PersistSlot(l, i) \/ q = TornSlot(l, i)
      PROVE  \E slot : /\ q = Copied(p, i, slot) /\ slot.key = m.slots[i].key
                       /\ slot.val \in {m.slots[i].val, p.slots[i].val}
                       /\ slot.key \in K0 /\ slot.val \in Vals
  <2>1. /\ m.slots[i].key \in K0 /\ m.slots[i].val \in Vals /\ p.slots[i].val \in Vals
        /\ p.slots \in [Slot -> [key : K0, val : Vals, valid : BOOLEAN]]
    BY <1>2, LeafTypes, SlotType
  <2>2. CASE q = PersistSlot(l, i)
    <3>1. q = Copied(p, i, m.slots[i])
      BY <2>2 DEF PersistSlot, Copied
    <3> QED
      BY <2>1, <3>1
  <2>3. CASE q = TornSlot(l, i)
    <3> DEFINE slot == [key |-> m.slots[i].key, val |-> p.slots[i].val]
               c == [p.slots EXCEPT ![i].key = slot.key, ![i].val = slot.val]
               d == [p.slots EXCEPT ![i].key = slot.key]
    <3>1. c = d
      <4>1. \A j \in Slot : c[j] = d[j]
        <5> SUFFICES ASSUME NEW j \in Slot PROVE c[j] = d[j]
          OBVIOUS
        <5>1. CASE j # i
          BY <2>1, <5>1
        <5>2. CASE j = i
          <6>1. p.slots[i] \in [key : K0, val : Vals, valid : BOOLEAN]
            BY <2>1
          <6>2. c[i] = [p.slots[i] EXCEPT !.key = slot.key, !.val = slot.val]
            BY <2>1
          <6>3. d[i] = [p.slots[i] EXCEPT !.key = slot.key]
            BY <2>1
          <6> QED
            BY <5>2, <6>1, <6>2, <6>3
        <5> QED
          BY <5>1, <5>2
      <4> QED
        BY <2>1, <4>1
    <3>2. Copied(p, i, slot) = [p EXCEPT !.slots = c]
      BY DEF Copied, LeafT
    <3>3. q = [p EXCEPT !.slots = d]
      BY <2>3 DEF TornSlot, LeafT
    <3>4. q = Copied(p, i, slot)
      BY <3>1, <3>2, <3>3
    <3> QED
      BY <2>1, <3>4
  <2> QED
    BY <1>2, <2>2, <2>3
<1>3. ASSUME NEW i \in Slot, q = PersistSlot(l, i) \/ q = TornSlot(l, i)
      PROVE  /\ q \in LeafT /\ q.lkey = p.lkey /\ q.hkey = p.hkey /\ q.next = p.next
             /\ \A j \in Slot :
                   /\ q.slots[j].valid = p.slots[j].valid
                   /\ \/ q.slots[j].key = p.slots[j].key /\ q.slots[j].val = p.slots[j].val
                      \/ /\ q.slots[j].key = m.slots[j].key
                         /\ q.slots[j].val \in {m.slots[j].val, p.slots[j].val}
  <2>1. PICK slot : /\ q = Copied(p, i, slot) /\ slot.key = m.slots[i].key
                    /\ slot.val \in {m.slots[i].val, p.slots[i].val}
                    /\ slot.key \in K0 /\ slot.val \in Vals
    BY <1>2, <1>3
  <2>2. /\ q \in LeafT /\ q.lkey = p.lkey /\ q.hkey = p.hkey /\ q.next = p.next
        /\ \A j \in Slot : /\ q.slots[j].valid = p.slots[j].valid
                           /\ q.slots[j].key = (IF j = i THEN slot.key ELSE p.slots[j].key)
                           /\ q.slots[j].val = (IF j = i THEN slot.val ELSE p.slots[j].val)
    <3>1. PICK P \in LeafT : P = p
      OBVIOUS
    <3>2. i \in Slot /\ slot.key \in K0 /\ slot.val \in Vals
      BY <1>3, <2>1
    <3>3. /\ Copied(P, i, slot) \in LeafT /\ Copied(P, i, slot).lkey = P.lkey
          /\ Copied(P, i, slot).hkey = P.hkey /\ Copied(P, i, slot).next = P.next
      BY ONLY <3>2, P \in LeafT, CopiedIs
    <3>4. \A j \in Slot :
             /\ Copied(P, i, slot).slots[j].valid = P.slots[j].valid
             /\ Copied(P, i, slot).slots[j].key = (IF j = i THEN slot.key ELSE P.slots[j].key)
             /\ Copied(P, i, slot).slots[j].val = (IF j = i THEN slot.val ELSE P.slots[j].val)
      BY ONLY <3>2, P \in LeafT, CopiedIs
    <3> QED
      BY <2>1, <3>1, <3>3, <3>4
  <2> QED
    BY <2>1, <2>2
<1> QED
  BY <1>1, <1>3

(* The cache writes one line of any leaf back.                              *)
LEMMA WriteBackInv ==
    ASSUME IInv, WriteBack
    PROVE  IInv'
<1>0. mode = "up" /\ TypeInv /\ UpInv /\ OpInv /\ TileInv /\ LinkInv
  BY UpNow DEF WriteBack
<1>1. /\ leaves' = leaves /\ mem' = mem /\ index' = index /\ weak' = weak /\ node' = node
      /\ jobs' = jobs /\ mixed' = mixed /\ mode' = mode /\ crash' = crash /\ op' = op
  BY DEF WriteBack, poolVars, procVars
<1>2. /\ mem \in [Leaf -> LeafT] /\ pmem \in [Leaf -> LeafT] /\ 1 .. leaves \subseteq Leaf
  BY <1>0, StateTypes DEF TypeInv
<1>3. \E l \in 1 .. leaves : \E q :
         /\ pmem' = [pmem EXCEPT ![l] = q]
         /\ q = PersistHeader(l) \/ \E i \in Slot : q = PersistSlot(l, i) \/ q = TornSlot(l, i)
  <2>1. PICK l \in 1 .. leaves : \/ pmem' = [pmem EXCEPT ![l] = PersistHeader(l)]
                                 \/ \E i \in Slot : pmem' = [pmem EXCEPT ![l] = PersistSlot(l, i)]
                                 \/ \E i \in Slot : pmem' = [pmem EXCEPT ![l] = TornSlot(l, i)]
    BY DEF WriteBack
  <2> QED
    BY <2>1
<1>4. PICK l \in 1 .. leaves : \E q :
         /\ pmem' = [pmem EXCEPT ![l] = q]
         /\ q = PersistHeader(l) \/ \E i \in Slot : q = PersistSlot(l, i) \/ q = TornSlot(l, i)
  BY <1>3
<1>5. PICK q : /\ pmem' = [pmem EXCEPT ![l] = q]
               /\ q = PersistHeader(l) \/ \E i \in Slot : q = PersistSlot(l, i) \/ q = TornSlot(l, i)
  BY <1>4
<1>6. l \in Leaf /\ mem[l] \in LeafT /\ pmem[l] \in LeafT
  BY <1>2
<1> DEFINE HeaderBack ==
             /\ q.lkey = mem[l].lkey /\ q.hkey = mem[l].hkey /\ q.next = mem[l].next
             /\ \A i \in Slot : /\ q.slots[i].key = pmem[l].slots[i].key
                                /\ q.slots[i].val = pmem[l].slots[i].val
                                /\ q.slots[i].valid = mem[l].slots[i].valid
           SlotBack ==
             /\ q.lkey = pmem[l].lkey /\ q.hkey = pmem[l].hkey /\ q.next = pmem[l].next
             /\ \A i \in Slot :
                   /\ q.slots[i].valid = pmem[l].slots[i].valid
                   /\ \/ q.slots[i].key = pmem[l].slots[i].key /\ q.slots[i].val = pmem[l].slots[i].val
                      \/ /\ q.slots[i].key = mem[l].slots[i].key
                         /\ q.slots[i].val \in {mem[l].slots[i].val, pmem[l].slots[i].val}
<1>7. q \in LeafT /\ (HeaderBack \/ SlotBack)
  BY <1>5, <1>6, LineWrittenBack
<1>8. /\ pmem' \in [Leaf -> LeafT] /\ pmem'[l] = q
      /\ \A m \in Leaf : m # l => pmem'[m] = pmem[m]
  BY <1>2, <1>5, <1>6, <1>7
<1>9. TileInv' /\ BufInv' /\ JobInv' /\ Known' = Known /\ Live' = Live
  BY <1>0, <1>1, NodesKept
<1>10. TypeInv'
  BY <1>0, <1>1, <1>8, <1>9 DEF TypeInv
<1>11. LinkInv'
  <2>1. \A next, hkey : NextIs(next, hkey)' <=> NextIs(next, hkey)
    BY <1>1, <1>9 DEF NextIs
  <2>2. (InSplit' <=> InSplit) /\ (InMerge' <=> InMerge)
    BY <1>1 DEF InSplit, InMerge
  <2>3. \A m : Linked(m)' <=> Linked(m)
    BY <1>1, <2>1 DEF Linked
  <2>4. /\ \A n, r : MergeLink(n, r)' <=> MergeLink(n, r)
        /\ \A n, r : SplitLink(n, r)' <=> SplitLink(n, r)
    BY <1>1, <1>9, <2>1 DEF MergeLink, SplitLink
  <2> QED
    BY <1>0, <1>1, <1>9, <2>2, <2>3, <2>4 DEF LinkInv
<1>12. LeavesInv'
  <2> SUFFICES ASSUME NEW o \in Known PROVE LeafInv(o)'
    BY <1>9 DEF LeavesInv
  <2>1. LeafInv(o) /\ o \in 1 .. leaves
    BY <1>0 DEF UpInv, LeavesInv, LeafInv
  <2>2. NewVals(o)' = NewVals(o) /\ OldBits(o)' = OldBits(o)
        /\ TornAt(o)' = TornAt(o) /\ OldHkeys(o)' = OldHkeys(o)
    BY <1>1 DEF NewVals, OldBits, TornAt, OldHkeys, Busy, OpRecs
  <2>3. CASE o # l
    BY <1>1, <1>2, <1>8, <2>1, <2>2, <2>3 DEF LeafInv
  <2>4. CASE o = l
    <3>1. LeafState(mem[l], pmem[l], NewVals(l), OldBits(l), TornAt(l), OldHkeys(l))
      BY <2>1, <2>4 DEF LeafInv
    <3>2. CASE HeaderBack
      <4>1. LeafState(mem[l], q, NewVals(l), OldBits(l), TornAt(l), OldHkeys(l))
        BY ZenonT(60), <1>6, <1>7, <3>1, <3>2, HeaderWrittenBack
      <4> QED
        BY <1>1, <1>8, <2>1, <2>2, <2>4, <4>1 DEF LeafInv
    <3>3. CASE SlotBack
      <4>1. \A k \in OldBits(l) : /\ k \in Keys /\ mem[l].lkey <= k
                                  /\ (IF OldHkeys(l) = {} THEN k < mem[l].hkey
                                      ELSE \A h \in OldHkeys(l) : k < h)
        <5> SUFFICES ASSUME NEW k \in OldBits(l)
                     PROVE  /\ k \in Keys /\ mem[l].lkey <= k
                            /\ (IF OldHkeys(l) = {} THEN k < mem[l].hkey
                                ELSE \A h \in OldHkeys(l) : k < h)
          OBVIOUS
        <5>1. l = op.node /\ op.pc \in {"erase", "split_left"}
          BY DEF OldBits, Busy
        <5>2. OpTypes /\ l \in Live /\ mem[l].lkey = node[l].lkey
          BY <1>0, <5>1 DEF OpInv, OpTypes, LinkInv
        <5>3. CASE op.pc = "erase"
          <6>1. ~InSplit /\ ~InMerge
            BY <5>3 DEF InSplit, InMerge
          <6>2. mem[l].hkey = node[l].hkey
            BY <1>0, <5>2, <6>1 DEF LinkInv, Linked
          <6>3. k = op.key /\ OldHkeys(l) = {}
            BY <5>1, <5>3 DEF OldBits, OldHkeys, Busy
          <6> QED
            BY <5>1, <5>2, <6>2, <6>3 DEF OpTypes, InNode
        <5>4. CASE op.pc = "split_left"
          <6>1. InSplit
            BY <5>4 DEF InSplit
          <6>2. mem[l].hkey = mem[op.new].lkey /\ node[l].lkey < mem[op.new].lkey /\ mem[op.new].lkey \in Keys
            BY <1>0, <5>1, <6>1 DEF LinkInv, SplitLink
          <6>3. OldHkeys(l) = {node[l].hkey}
            BY <5>1, <5>4 DEF OldHkeys, Busy
          <6>4. k \in OpRecs \/ (k \in Keys /\ mem[l].hkey <= k /\ k < node[l].hkey)
            BY <5>1, <5>4 DEF OldBits, Busy
          <6>5. CASE k \in OpRecs
            <7>1. PICK i \in 1 .. Len(op.recs) : k = op.recs[i].key
              BY <6>5 DEF OpRecs
            <7>2. GoodRec(op.recs[i], l)
              BY <5>1, <5>2 DEF OpTypes
            <7>3. k \in Keys /\ InNode(k, l)
              BY <7>1, <7>2 DEF GoodRec, RecT, RecOf
            <7> QED
              BY <5>2, <6>3, <7>3 DEF InNode
          <6>6. CASE k \in Keys /\ mem[l].hkey <= k /\ k < node[l].hkey
            <7>1. node[l].lkey \in Nat /\ mem[l].hkey \in Nat /\ k \in Nat
              BY <1>0, <5>2, <6>2, <6>6, NodeTypes, ConstFacts
            <7> QED
              BY <5>2, <6>2, <6>3, <6>6, <7>1
          <6> QED
            BY <6>4, <6>5, <6>6
        <5> QED
          BY <5>1, <5>3, <5>4
      <4>2. LeafState(mem[l], q, NewVals(l), OldBits(l), TornAt(l), OldHkeys(l))
        BY <1>6, <1>7, <3>1, <3>3, <4>1, SlotWrittenBack
      <4> QED
        BY <1>1, <1>8, <2>1, <2>2, <2>4, <4>2 DEF LeafInv
    <3> QED
      BY <1>7, <3>2, <3>3
  <2> QED
    BY <2>3, <2>4
<1>13. OpInv'
  <2>1. OpTypes => OpTypes'
    BY <1>1, <1>9 DEF OpTypes, InNode, GoodRec, BufKeys
  <2>2. (InSplit' <=> InSplit) /\ (InMerge' <=> InMerge)
    BY <1>1 DEF InSplit, InMerge
  <2>3. InSplit' => (op.new \notin Known)' /\ Filed(op.left, mem[op.node])' /\ Filed(op.right, mem[op.new])'
    BY <1>0, <1>1, <1>9, <2>2 DEF OpInv, Filed
  <2>4. InMerge' => Filed(op.left, mem[op.node])'
    BY <1>0, <1>1, <2>2 DEF OpInv, Filed
  <2>5. op.pc # "idle" => op.node \in Leaf
    BY <1>0, StateTypes DEF OpInv, OpTypes
  <2>6. op.pc = "update" => Updates(mem[op.node].slots, pmem[op.node].slots, op.key)'
    <3> SUFFICES ASSUME op.pc = "update"
                 PROVE  Updates(mem[op.node].slots, pmem'[op.node].slots, op.key)
      BY <1>1 DEF Updates
    <3>1. Updates(mem[op.node].slots, pmem[op.node].slots, op.key)
      BY <1>0 DEF OpInv
    <3>2. \A i \in Slot : pmem'[op.node].slots[i].val \in {mem[op.node].slots[i].val, pmem[op.node].slots[i].val}
      <4>1. CASE op.node = l
        BY <1>7, <1>8, <4>1
      <4>2. CASE op.node # l
        BY <1>8, <2>5, <4>2
      <4> QED
        BY <4>1, <4>2
    <3> QED
      BY <3>1, <3>2 DEF Updates
  <2>7. op.pc = "fill" => Fills(mem[op.node].slots)'
    BY <1>0, <1>1 DEF OpInv, Fills
  <2>8. pmem[op.node] = mem[op.node] /\ op.pc # "idle" => pmem'[op.node] = mem[op.node]
    <3>1. CASE op.node = l
      <4> SUFFICES ASSUME pmem[l] = mem[l] PROVE q = mem[l]
        BY <1>8, <3>1
      <4>1. q.lkey = mem[l].lkey /\ q.hkey = mem[l].hkey /\ q.next = mem[l].next
        BY <1>7
      <4>2. \A i \in Slot : /\ q.slots[i].key = mem[l].slots[i].key /\ q.slots[i].val = mem[l].slots[i].val
                            /\ q.slots[i].valid = mem[l].slots[i].valid
        BY <1>7
      <4> QED
        BY <1>6, <1>7, <4>1, <4>2, SameLeaf
    <3>2. CASE op.node # l
      BY <1>8, <2>5, <3>2
    <3> QED
      BY <3>1, <3>2
  <2> QED
    BY <1>0, <1>1, <2>1, <2>2, <2>3, <2>4, <2>6, <2>7, <2>8 DEF OpInv
<1> QED
  BY <1>0, <1>1, <1>9, <1>10, <1>11, <1>12, <1>13, UpNext DEF UpInv

-----------------------------------------------------------------------------
(* A crash. *)

(* What a lookup finds in the durable copy, where no value and no cleared   *)
(* bit of the key is under way.                                             *)
LEMMA LookupDurable ==
    ASSUME NEW m \in SlotsT, NEW p \in SlotsT, NEW newVals, NEW oldBits, NEW k,
           Durable(m, p, newVals, oldBits), k \notin newVals, k \notin oldBits
    PROVE  \/ LeafLookup(p, k) = LeafLookup(m, k)
           \/ /\ LeafLookup(p, k) = NoVal
              /\ \E i \in ValidBitSet(m) \ ValidBitSet(p) : m[i].key = k
<1>1. \A i \in Slot : m[i].valid \in BOOLEAN /\ p[i].valid \in BOOLEAN
  BY SlotIs
<1>2. /\ \A i : i \in Match(m, k) <=> i \in Slot /\ m[i].valid /\ m[i].key = k
      /\ \A i : i \in Match(p, k) <=> i \in Slot /\ p[i].valid /\ p[i].key = k
  BY DEF Match, ValidBitSet
<1>3. Match(p, k) \subseteq Match(m, k)
  BY <1>1, <1>2 DEF Durable
<1>4. CASE Match(m, k) = {}
  BY <1>3, <1>4 DEF LeafLookup
<1>5. CASE Match(m, k) # {} /\ Match(p, k) = Match(m, k)
  <2>1. PICK i \in Slot : i = Lowest(Match(m, k)) /\ m[i].valid /\ m[i].key = k
    BY <1>5, MatchLowest
  <2>2. p[i].val = m[i].val
    BY <2>1 DEF Durable
  <2> QED
    BY <1>5, <2>1, <2>2 DEF LeafLookup
<1>6. CASE Match(p, k) # Match(m, k)
  <2>1. PICK i \in Match(m, k) : i \notin Match(p, k)
    BY <1>3, <1>6
  <2>2. i \in Slot /\ m[i].valid /\ m[i].key = k /\ p[i].key = k /\ ~p[i].valid
    BY <1>2, <2>1 DEF Durable
  <2>3. \A j \in Match(m, k) : j = i
    BY <1>1, <1>2, <2>2 DEF Durable
  <2>4. Match(p, k) = {}
    BY <1>3, <2>1, <2>3
  <2> QED
    BY <2>2, <2>4 DEF LeafLookup, ValidBitSet
<1> QED
  BY <1>4, <1>5, <1>6

(* The first and the last of the jobs of a low key.                         *)
LEMMA FirstAndLast ==
    ASSUME TypeInv, NEW key, ~NoJob(key)
    PROVE  /\ \E i \in 1 .. Len(jobs) : jobs[i].key = key /\ FirstJob(i)
           /\ \E i \in 1 .. Len(jobs) : jobs[i].key = key /\ LastJob(i)
<1> DEFINE S == {i \in 1 .. Len(jobs) : jobs[i].key = key}
<1>1. Len(jobs) \in Nat
  BY DEF TypeInv
<1>2. S \in SUBSET Nat /\ S # {} /\ (\A i \in S : i <= Len(jobs)) /\ IsFiniteSet(S)
  <2>1. IsFiniteSet(1 .. Len(jobs))
    BY <1>1, FS_Interval
  <2> QED
    BY <1>1, <2>1, FS_Subset DEF NoJob
<1>3. PICK i \in S : \A j \in S : i <= j
  <2> HIDE DEF S
  <2> QED
    BY <1>2, LowestIs
<1>4. PICK h \in S : \A j \in S : j <= h
  <2> HIDE DEF S
  <2> QED
    BY <1>1, <1>2, LargestIs
<1>5. jobs[i].key = key /\ FirstJob(i)
  <2>1. \A j \in 1 .. i - 1 : j \in 1 .. Len(jobs) /\ j < i
    BY <1>1, <1>2
  <2>2. \A j \in 1 .. i - 1 : j \notin S
    BY <1>1, <1>2, <1>3, <2>1
  <2> QED
    BY <2>1, <2>2 DEF FirstJob, SameKey
<1>6. jobs[h].key = key /\ LastJob(h)
  <2>1. \A j \in h + 1 .. Len(jobs) : j \in 1 .. Len(jobs) /\ h < j
    BY <1>1, <1>2
  <2>2. \A j \in h + 1 .. Len(jobs) : j \notin S
    BY <1>1, <1>2, <1>4, <2>1
  <2> QED
    BY <2>1, <2>2 DEF LastJob, SameKey
<1> QED
  BY <1>5, <1>6

(* A key that is not loose is in no buffer, not the key of the running      *)
(* call, and nothing that a crash may take back covers it.                  *)
LEMMA LooseFacts ==
    ASSUME NEW back, NEW k, k \notin Loose(back)
    PROVE  /\ op.pc # "idle" => k # op.key
           /\ \A l \in Live : k \notin BufKeys(l)
           /\ \A i \in 1 .. Len(jobs) :
                 k \notin (IF jobs[i].name = "insert" THEN KeyRange(jobs[i].leaf)
                           ELSE Claimed(jobs[i].leaf, index \cup back))
           /\ \A e \in back : k \notin Claimed(e.leaf, index \cup back)
           /\ \A l \in 1 .. leaves : mem[l].lkey \in mixed =>
                 k \notin KeyRange(l) /\ k \notin Claimed(l, index \cup back)
           /\ InSplit => k \notin KeyRange(op.new)
<1> DEFINE entries   == index \cup back
           reordered == {l \in 1 .. leaves : mem[l].lkey \in mixed}
           A == IF op.pc = "idle" THEN {} ELSE {op.key}
           B == UNION {{node[l].buf[i].key : i \in 1 .. Len(node[l].buf)} : l \in DOMAIN node}
           C == UNION {IF jobs[i].name = "insert" THEN KeyRange(jobs[i].leaf)
                       ELSE Claimed(jobs[i].leaf, entries) : i \in 1 .. Len(jobs)}
           D == UNION {Claimed(e.leaf, entries) : e \in back}
           E == UNION {KeyRange(l) \cup Claimed(l, entries) : l \in reordered}
           F == IF InSplit THEN KeyRange(op.new) ELSE {}
<1>a. Loose(back) = A \cup B \cup C \cup D \cup E \cup F
  BY DEF Loose
<1>b. k \notin A /\ k \notin B /\ k \notin C /\ k \notin D /\ k \notin E /\ k \notin F
  <2> HIDE DEF A, B, C, D, E, F
  <2> QED
    BY <1>a
<1>1. op.pc # "idle" => k # op.key
  BY <1>b
<1>2. \A l \in Live : k \notin BufKeys(l)
  BY <1>b DEF Live, BufKeys
<1>3. \A i \in 1 .. Len(jobs) :
                 k \notin (IF jobs[i].name = "insert" THEN KeyRange(jobs[i].leaf)
                           ELSE Claimed(jobs[i].leaf, index \cup back))
  <2>1. k \notin C
    BY <1>b
  <2> QED
    BY <2>1
<1>4. \A e \in back : k \notin Claimed(e.leaf, index \cup back)
  <2>1. k \notin D
    BY <1>b
  <2> QED
    BY <2>1
<1>5. \A l \in 1 .. leaves : mem[l].lkey \in mixed =>
                 k \notin KeyRange(l) /\ k \notin Claimed(l, index \cup back)
  <2>1. k \notin E
    BY <1>b
  <2> QED
    BY <2>1
<1>6. InSplit => k \notin KeyRange(op.new)
  BY <1>b
<1> QED
  BY <1>1, <1>2, <1>3, <1>4, <1>5, <1>6

(* Outside the loose keys the entry of a key's node is there, and no other  *)
(* entry leads the key.                                                     *)
LEMMA EntryLeads ==
    ASSUME IInv, mode = "up", NEW back, back \subseteq weak, NEW k \in Keys, k \notin Loose(back),
           NEW l \in Live, l = Start(k)
    PROVE  /\ k < mem[l].hkey /\ mem[l].lkey <= k
           /\ Entry(node[l].lkey, l) \in index /\ node[l].lkey <= k
           /\ \A e \in index \cup back :
                 /\ e.key <= k
                 /\ \A d \in index \cup back : d.key <= k => d.key <= e.key
                 => e = Entry(node[l].lkey, l)
<1> DEFINE entries == index \cup back
           low == node[l].lkey
<1>0. TypeInv /\ UpInv /\ OpInv /\ TileInv /\ LinkInv /\ JobInv /\ LeavesInv
  BY UpNow
<1>1. /\ InNode(k, l) /\ \A m \in Live : node[m].lkey <= k => node[m].lkey <= low
  BY <1>0, StartIs
<1>2. /\ op.pc # "idle" => k # op.key
      /\ \A i \in 1 .. Len(jobs) :
            k \notin (IF jobs[i].name = "insert" THEN KeyRange(jobs[i].leaf)
                      ELSE Claimed(jobs[i].leaf, entries))
      /\ \A e \in back : k \notin Claimed(e.leaf, entries)
      /\ \A m \in 1 .. leaves : mem[m].lkey \in mixed =>
            k \notin KeyRange(m) /\ k \notin Claimed(m, entries)
      /\ InSplit => k \notin KeyRange(op.new)
  BY LooseFacts
<1>3. /\ k \in Nat /\ k < MaxKey /\ MaxKey \in Nat
      /\ \A m \in Live : node[m].lkey \in Nat /\ node[m].hkey \in Nat /\ mem[m].lkey = node[m].lkey
  BY <1>0, ConstFacts, NodeTypes DEF LinkInv
<1>4. k < mem[l].hkey
  <2>1. CASE Linked(l)
    BY <1>1, <2>1 DEF Linked, InNode
  <2>2. CASE l = op.node /\ InSplit
    <3>1. /\ mem[l].hkey = mem[op.new].lkey /\ mem[op.new].hkey = node[l].hkey
          /\ mem[op.new].lkey \in Keys
      BY <1>0, <2>2 DEF LinkInv, SplitLink
    <3>2. ~(mem[op.new].lkey <= k)
      BY <1>1, <1>2, <2>2, <3>1 DEF KeyRange, InNode
    <3>3. mem[op.new].lkey \in Nat
      BY <3>1, ConstFacts
    <3> QED
      BY <1>3, <3>1, <3>2, <3>3
  <2>3. CASE l = op.node /\ InMerge
    <3>1. PICK r \in Live : MergeLink(l, r)
      BY <1>0, <2>3 DEF LinkInv
    <3>2. /\ node[r].lkey = node[l].hkey /\ mem[l].hkey = node[r].hkey
          /\ node[r].lkey < node[r].hkey \/ node[r].hkey = MaxKey
      BY <1>0, <3>1 DEF MergeLink, TileInv, Tiled
    <3> QED
      BY <1>1, <1>3, <3>2 DEF InNode
  <2> QED
    BY <1>0, <2>1, <2>2, <2>3 DEF LinkInv
<1>5. mem[l].lkey = low /\ low <= k /\ k \in KeyRange(l) /\ l \in 1 .. leaves
  BY <1>0, <1>1, <1>3, <1>4 DEF KeyRange, InNode, TypeInv
<1>6. low \notin mixed
  BY <1>2, <1>5
<1>7. NoJob(low)
  <2> SUFFICES ASSUME ~NoJob(low) PROVE FALSE
    OBVIOUS
  <2>1. PICK i \in 1 .. Len(jobs) : jobs[i].key = low /\ LastJob(i)
    BY <1>0, FirstAndLast
  <2>2. LastOK(i)
    BY <1>0, <1>6, <2>1 DEF JobInv
  <2>3. jobs[i].name = "insert" /\ jobs[i].leaf \in Live
    BY <2>1, <2>2 DEF LastOK
  <2>4. node[jobs[i].leaf].lkey = low
    BY <1>0, <1>3, <2>1, <2>3 DEF JobInv
  <2>5. jobs[i].leaf = l
    BY <1>0, <2>3, <2>4 DEF TileInv
  <2> QED
    BY <1>2, <1>5, <2>3, <2>5
<1>8. Entry(low, l) \in index
  BY <1>0, <1>6, <1>7 DEF JobInv
<1>9. ASSUME NEW e \in entries, e.key <= k, \A d \in entries : d.key <= k => d.key <= e.key
      PROVE  e = Entry(low, l)
  <2>1. e \in EntryT /\ e.key = mem[e.leaf].lkey /\ e.leaf \in 1 .. leaves
    <3>1. e \in index \cup weak
      OBVIOUS
    <3>2. e.leaf \in Known
      BY <3>1 DEF Known
    <3> QED
      BY <1>0, <3>1, <3>2 DEF JobInv, TypeInv, LeavesInv, LeafInv
  <2>2. k \in Claimed(e.leaf, entries)
    BY <1>9, <2>1 DEF Claimed
  <2>3. e \in index
    BY <1>2, <2>2
  <2>4. e.key \notin mixed
    BY <1>2, <2>1, <2>2
  <2>5. NoJob(e.key)
    <3> SUFFICES ASSUME ~NoJob(e.key) PROVE FALSE
      OBVIOUS
    <3>1. PICK i \in 1 .. Len(jobs) : jobs[i].key = e.key /\ FirstJob(i)
      BY <1>0, FirstAndLast
    <3>2. FirstOK(i)
      BY <1>0, <2>4, <3>1 DEF JobInv
    <3>3. jobs[i].name = "remove" /\ e.leaf = jobs[i].leaf
      BY <2>3, <3>1, <3>2 DEF FirstOK
    <3> QED
      BY <1>2, <2>2, <3>3
  <2>6. e.leaf \in Live
    BY <1>0, <2>3, <2>4, <2>5 DEF JobInv
  <2>7. node[e.leaf].lkey = e.key
    BY <1>3, <2>1, <2>6
  <2>8. e.key <= low
    BY <1>1, <1>9, <2>6, <2>7
  <2>9. low <= e.key
    <3>1. Entry(low, l) \in entries /\ Entry(low, l).key = low
      BY <1>8 DEF Entry
    <3> QED
      BY <1>5, <1>9, <3>1
  <2>10. e.key = low
    BY <1>3, <2>6, <2>7, <2>8, <2>9
  <2>11. e.leaf = l
    BY <1>0, <2>6, <2>7, <2>10 DEF TileInv
  <2> QED
    BY <2>1, <2>10, <2>11 DEF Entry, EntryT
<1> QED
  BY <1>4, <1>5, <1>8, <1>9

(* ... and the durable leaf answers what the lookup answers.                *)
LEMMA DurableAnswers ==
    ASSUME IInv, mode = "up", NEW back, back \subseteq weak, NEW k \in Keys, k \notin Loose(back),
           NEW l \in Live, l = Start(k)
    PROVE  /\ k < pmem[l].hkey
           /\ \/ LeafLookup(pmem[l].slots, k) = Answer(k)
              \/ k \in Unflushed /\ LeafLookup(pmem[l].slots, k) = NoVal
<1>0. TypeInv /\ UpInv /\ OpInv /\ TileInv /\ LinkInv /\ JobInv /\ LeavesInv
  BY UpNow
<1>1. InNode(k, l) /\ ~Lost(k)
  BY <1>0, StartIs
<1>2. /\ op.pc # "idle" => k # op.key
      /\ \A m \in Live : k \notin BufKeys(m)
  BY LooseFacts
<1>3. k < mem[l].hkey
  BY EntryLeads
<1>4. /\ mem[l] \in LeafT /\ pmem[l] \in LeafT
      /\ LeafState(mem[l], pmem[l], NewVals(l), OldBits(l), TornAt(l), OldHkeys(l))
  BY <1>0, AtLeaf
<1>5. k < pmem[l].hkey
  <2>1. pmem[l].hkey = mem[l].hkey \/ pmem[l].hkey \in OldHkeys(l)
    BY <1>4 DEF LeafState, Header
  <2>2. OldHkeys(l) \subseteq {node[l].hkey}
    BY DEF OldHkeys
  <2> QED
    BY <1>1, <1>3, <2>1, <2>2 DEF InNode
<1>6. op.pc # "idle" => k \notin OpRecs
  BY <1>0, <1>2 DEF OpInv, OpTypes, OpRecs
<1>7. k \notin NewVals(l)
  BY <1>2, <1>6 DEF NewVals, Busy
<1>8. k \notin OldBits(l)
  <2>1. k \in Nat /\ mem[l].hkey \in Nat
    BY <1>4, LeafTypes, ConstFacts
  <2>2. ~(mem[l].hkey <= k)
    BY <1>3, <2>1
  <2> QED
    BY <1>2, <1>6, <2>2 DEF OldBits, Busy
<1>9. InBuf(l, k) = {}
  BY <1>2 DEF InBuf, BufKeys
<1>10. Answer(k) = LeafLookup(mem[l].slots, k)
  BY <1>1, <1>9 DEF Answer
<1>11. \/ LeafLookup(pmem[l].slots, k) = LeafLookup(mem[l].slots, k)
       \/ /\ LeafLookup(pmem[l].slots, k) = NoVal
          /\ \E i \in ValidBitSet(mem[l].slots) \ ValidBitSet(pmem[l].slots) : mem[l].slots[i].key = k
  <2>1. mem[l].slots \in SlotsT /\ pmem[l].slots \in SlotsT
    BY <1>4, LeafTypes
  <2>2. Durable(mem[l].slots, pmem[l].slots, NewVals(l), OldBits(l))
    BY <1>4 DEF LeafState
  <2> QED
    BY <1>7, <1>8, <2>1, <2>2, LookupDurable
<1>12. ASSUME \E i \in ValidBitSet(mem[l].slots) \ ValidBitSet(pmem[l].slots) : mem[l].slots[i].key = k
       PROVE  k \in Unflushed
  BY <1>12 DEF Unflushed, Live
<1> QED
  BY <1>5, <1>10, <1>11, <1>12

-----------------------------------------------------------------------------
(* A crash.                                                                 *)

(* The durable leaf of every entry that survives is a sound leaf.           *)
LEMMA CrashEntry ==
    ASSUME IInv, mode = "up", NEW back, back \subseteq weak, NEW e \in index \cup back
    PROVE  /\ e.leaf \in 1 .. leaves /\ e.key = pmem[e.leaf].lkey /\ LeafOK(pmem[e.leaf])
           /\ Values(pmem[e.leaf].slots, pmem[e.leaf].slots, crash.torn \cup Torn)
<1> DEFINE l == e.leaf
<1>0. TypeInv /\ LeavesInv /\ JobInv
  BY UpNow
<1>1. e \in index \cup weak /\ e.leaf \in Known
  BY DEF Known
<1>2. /\ l \in 1 .. leaves
      /\ LeafState(mem[l], pmem[l], NewVals(l), OldBits(l), TornAt(l), OldHkeys(l))
  BY <1>0, <1>1 DEF LeavesInv, LeafInv
<1>3. e.key = mem[l].lkey
  BY <1>0, <1>1 DEF JobInv
<1>4. pmem[l].lkey = mem[l].lkey /\ LeafOK(pmem[l])
  BY <1>2 DEF LeafState, Header
<1>5. TornAt(l) \subseteq crash.torn \cup Torn
  BY DEF TornAt, Torn, Busy, InSplit, OpRecs
<1>6. ASSUME NEW i \in Slot, pmem[l].slots[i].valid
      PROVE  Written(pmem[l].slots[i], crash.torn \cup Torn)
  <2>1. Values(mem[l].slots, pmem[l].slots, TornAt(l))
    BY <1>2 DEF LeafState
  <2>2. Written(pmem[l].slots[i], TornAt(l))
    BY <1>6, <2>1 DEF Values
  <2> QED
    BY <1>5, <2>2 DEF Written
<1>7. Values(pmem[l].slots, pmem[l].slots, crash.torn \cup Torn)
  BY <1>6 DEF Values
<1> QED
  BY <1>2, <1>3, <1>4, <1>7

(* Outside the loose keys one of the entries that survive leads the key, to *)
(* the leaf of the key's node.                                              *)
LEMMA CrashLeads ==
    ASSUME IInv, mode = "up", NEW back, back \subseteq weak, NEW k \in Keys, k \notin Loose(back)
    PROVE  /\ \E e \in index \cup back :
                 e.key <= k /\ \A d \in index \cup back : d.key <= k => d.key <= e.key
           /\ \A e \in index \cup back :
                 (e.key <= k /\ \A d \in index \cup back : d.key <= k => d.key <= e.key) =>
                     /\ k < pmem[e.leaf].hkey
                     /\ \/ LeafLookup(pmem[e.leaf].slots, k) = Answer(k)
                        \/ k \in Unflushed /\ LeafLookup(pmem[e.leaf].slots, k) = NoVal
<1> DEFINE entries == index \cup back
<1>0. TypeInv /\ TileInv
  BY UpNow
<1>1. PICK l \in Live : l = Start(k)
  BY <1>0, StartIs
<1>2. /\ Entry(node[l].lkey, l) \in index /\ node[l].lkey <= k
      /\ \A e \in index \cup back :
            /\ e.key <= k
            /\ \A d \in index \cup back : d.key <= k => d.key <= e.key
            => e = Entry(node[l].lkey, l)
  BY <1>1, EntryLeads
<1>3. /\ k < pmem[l].hkey
      /\ \/ LeafLookup(pmem[l].slots, k) = Answer(k)
         \/ k \in Unflushed /\ LeafLookup(pmem[l].slots, k) = NoVal
  BY <1>1, DurableAnswers
<1>4. \E e \in entries : e.key <= k /\ \A d \in entries : d.key <= k => d.key <= e.key
  <2> DEFINE S == {e.key : e \in {d \in entries : d.key <= k}}
  <2>1. entries \subseteq EntryT /\ k \in Nat
    BY <1>0, ConstFacts DEF TypeInv
  <2>2. S \in SUBSET Nat /\ \A x \in S : x <= k
    BY <2>1 DEF EntryT
  <2>3. S # {}
    BY <1>2 DEF Entry
  <2> HIDE DEF S
  <2>4. PICK x \in S : \A y \in S : y <= x
    BY <2>1, <2>2, <2>3, LargestIs
  <2> USE DEF S
  <2>5. PICK e \in entries : e.key <= k /\ x = e.key
    BY <2>4
  <2>6. ASSUME NEW d \in entries, d.key <= k PROVE d.key <= e.key
    BY <2>4, <2>5, <2>6
  <2> QED
    BY <2>5, <2>6
<1>5. ASSUME NEW e \in entries, e.key <= k, \A d \in entries : d.key <= k => d.key <= e.key
      PROVE  e.leaf = l
  <2>1. e = Entry(node[l].lkey, l)
    BY <1>2, <1>5
  <2> QED
    BY <2>1 DEF Entry
<1> QED
  BY <1>3, <1>4, <1>5

(* When nothing is under way the durable headers fit the entries.           *)
LEMMA CrashTiles ==
    ASSUME IInv, mode = "up", jobs = <<>>, mixed = {}, ~InSplit, ~InMerge
    PROVE  /\ \A e \in index :
                 IF pmem[e.leaf].hkey = MaxKey THEN pmem[e.leaf].next = TailLeaf
                 ELSE \E d \in index : d.leaf = pmem[e.leaf].next /\ d.key = pmem[e.leaf].hkey
           /\ \A d, e \in index : ~(d.key < e.key /\ e.key < pmem[d.leaf].hkey)
           /\ \E e \in index : e.key = MinKey
<1>0. TypeInv /\ UpInv /\ TileInv /\ LinkInv /\ LeavesInv /\ JobInv
  BY UpNow
<1>1. \A key : NoJob(key)
  BY DEF NoJob
<1>2. ASSUME NEW l \in Live
      PROVE  /\ Entry(node[l].lkey, l) \in index
             /\ pmem[l].hkey = node[l].hkey /\ NextIs(pmem[l].next, node[l].hkey)
  <2>1. Linked(l)
    BY <1>0 DEF LinkInv
  <2>2. OldHkeys(l) = {}
    BY DEF OldHkeys, Busy, InSplit, InMerge
  <2>3. pmem[l].hkey = mem[l].hkey /\ pmem[l].next = mem[l].next
    BY <1>0, <2>2, AtLeaf DEF LeafState, Header
  <2>4. Entry(node[l].lkey, l) \in index
    BY <1>0, <1>1 DEF JobInv
  <2> QED
    BY <2>1, <2>3, <2>4 DEF Linked
<1>3. ASSUME NEW e \in index
      PROVE  e.leaf \in Live /\ e.key = node[e.leaf].lkey
  <2>1. e.leaf \in Live /\ e.key = mem[e.leaf].lkey
    BY <1>0, <1>1 DEF JobInv
  <2> QED
    BY <1>0, <2>1 DEF LinkInv
<1>4. ASSUME NEW e \in index
      PROVE  IF pmem[e.leaf].hkey = MaxKey THEN pmem[e.leaf].next = TailLeaf
             ELSE \E d \in index : d.leaf = pmem[e.leaf].next /\ d.key = pmem[e.leaf].hkey
  <2>1. PICK l \in Live : l = e.leaf
    BY <1>3
  <2>2. CASE node[l].hkey = MaxKey
    BY <1>2, <2>1, <2>2 DEF NextIs
  <2>3. CASE node[l].hkey # MaxKey
    <3>1. pmem[l].next \in Live /\ node[pmem[l].next].lkey = node[l].hkey
      BY <1>2, <2>3 DEF NextIs
    <3>2. Entry(node[l].hkey, pmem[l].next) \in index
      BY <1>2, <3>1
    <3>3. Entry(node[l].hkey, pmem[l].next).leaf = pmem[l].next /\
          Entry(node[l].hkey, pmem[l].next).key = node[l].hkey
      BY DEF Entry
    <3> QED
      BY <1>2, <2>1, <2>3, <3>2, <3>3
  <2> QED
    BY <2>2, <2>3
<1>5. ASSUME NEW d \in index, NEW e \in index
      PROVE  ~(d.key < e.key /\ e.key < pmem[d.leaf].hkey)
  <2>1. ~Overlap(d.leaf, e.leaf)
    BY <1>0, <1>3 DEF TileInv
  <2> QED
    BY <1>2, <1>3, <2>1 DEF Overlap
<1>6. \E e \in index : e.key = MinKey
  <2>1. PICK l \in Live : node[l].lkey = MinKey
    BY <1>0 DEF TileInv
  <2> QED
    BY <1>2, <2>1 DEF Entry
<1> QED
  BY <1>4, <1>5, <1>6

(* The process dies. *)
LEMMA DieInv ==
    ASSUME IInv, mode = "up", Die
    PROVE  IInv'
<1>0. TypeInv /\ UpInv
  BY UpNow
<1>1. PICK back \in SUBSET weak :
          /\ index' = index \cup back
          /\ crash' = [answers |-> [k \in Keys |-> Answer(k)], loose |-> Loose(back),
                       gone |-> Unflushed, torn |-> crash.torn \cup Torn,
                       settled |-> /\ jobs = <<>> /\ back = {} /\ mixed = {}
                                   /\ ~InSplit /\ ~InMerge]
  BY DEF Die
<1>2. /\ mode' = "down" /\ mem' = pmem /\ pmem' = pmem /\ leaves' = leaves
      /\ node' = [l \in {} |-> NoOp] /\ weak' = {} /\ jobs' = <<>> /\ mixed' = {} /\ op' = NoOp
  BY DEF Die
<1>3. TypeInv'
  <2>1. Live' = {}
    BY <1>2 DEF Live
  <2>2. jobs' \in Seq(JobT)
    BY <1>2
  <2>3. index' \subseteq EntryT
    BY <1>0, <1>1 DEF TypeInv
  <2> QED
    BY <1>0, <1>2, <2>1, <2>2, <2>3 DEF TypeInv
<1>4. \A e \in index' : GoodEntry(e)'
  <2> SUFFICES ASSUME NEW e \in index \cup back PROVE GoodEntry(e)'
    BY <1>1
  <2>1. /\ e.leaf \in 1 .. leaves /\ e.key = pmem[e.leaf].lkey /\ LeafOK(pmem[e.leaf])
        /\ Values(pmem[e.leaf].slots, pmem[e.leaf].slots, crash.torn \cup Torn)
    BY CrashEntry
  <2>2. crash'.torn = crash.torn \cup Torn
    BY <1>1
  <2>3. Values(pmem[e.leaf].slots, pmem[e.leaf].slots, crash'.torn)
    BY <2>1, <2>2
  <2> QED
    BY <1>2, <2>1, <2>3 DEF GoodEntry
<1>5. ASSUME NEW k \in Keys, k \notin crash'.loose
      PROVE  /\ \E e \in index' : Leads(e, k)'
             /\ \A e \in index' : Leads(e, k)' => Answers(e, k)'
  <2>1. /\ \E e \in index \cup back :
              e.key <= k /\ \A d \in index \cup back : d.key <= k => d.key <= e.key
        /\ \A e \in index \cup back :
              (e.key <= k /\ \A d \in index \cup back : d.key <= k => d.key <= e.key) =>
                  /\ k < pmem[e.leaf].hkey
                  /\ \/ LeafLookup(pmem[e.leaf].slots, k) = Answer(k)
                     \/ k \in Unflushed /\ LeafLookup(pmem[e.leaf].slots, k) = NoVal
    <3>1. k \notin Loose(back)
      BY <1>1, <1>5
    <3> QED
      BY <3>1, CrashLeads
  <2>2. crash'.answers[k] = Answer(k) /\ crash'.gone = Unflushed
    BY <1>1
  <2>3. \E e \in index' : Leads(e, k)'
    BY <1>1, <2>1 DEF Leads
  <2>4. ASSUME NEW e \in index \cup back, Leads(e, k)' PROVE Answers(e, k)'
    <3>1. e.key <= k /\ \A d \in index \cup back : d.key <= k => d.key <= e.key
      BY <1>1, <2>4 DEF Leads
    <3>2. /\ k < pmem[e.leaf].hkey
          /\ \/ LeafLookup(pmem[e.leaf].slots, k) = Answer(k)
             \/ k \in Unflushed /\ LeafLookup(pmem[e.leaf].slots, k) = NoVal
      BY <2>1, <3>1
    <3> QED
      BY <1>2, <2>2, <3>2 DEF Answers
  <2> QED
    BY <1>1, <2>3, <2>4
<1>6. ASSUME crash'.settled PROVE IndexTiles'
  <2>1. /\ jobs = <<>> /\ back = {} /\ mixed = {} /\ ~InSplit /\ ~InMerge
    BY <1>1, <1>6
  <2>2. index' = index
    BY <1>1, <2>1
  <2> QED
    BY <1>2, <2>1, <2>2, CrashTiles DEF IndexTiles
<1> QED
  BY <1>2, <1>3, <1>4, <1>5, <1>6 DEF IInv, DownInv

-----------------------------------------------------------------------------
(* A restart.                                                               *)

(* Every part of the invariant is about these variables.                    *)
LEMMA UpUnchanged ==
    ASSUME UpInv, UNCHANGED <<leafVars, poolVars, node, op, crash>>
    PROVE  UpInv'
<1> USE DEF leafVars, poolVars
<1>1. TileInv'
  BY DEF UpInv, TileInv, Tiled, Live, Overlap
<1>2. BufInv'
  BY DEF UpInv, BufInv, Live, GoodRec, InNode
<1>3. LinkInv'
  BY DEF UpInv, LinkInv, Live, Linked, NextIs, SplitLink, MergeLink, InSplit, InMerge
<1>4. LeavesInv'
  <2>1. Known' = Known
    BY DEF Known, Live
  <2>2. ASSUME NEW l \in Known PROVE LeafInv(l)'
    <3>1. /\ NewVals(l)' = NewVals(l) /\ OldBits(l)' = OldBits(l) /\ TornAt(l)' = TornAt(l)
          /\ OldHkeys(l)' = OldHkeys(l)
      BY DEF NewVals, OldBits, TornAt, OldHkeys, Busy, OpRecs
    <3>2. LeafInv(l)
      BY DEF UpInv, LeavesInv
    <3> QED
      BY <3>1, <3>2 DEF LeafInv
  <2> QED
    BY <2>1, <2>2 DEF LeavesInv
<1>5. OpInv'
  BY DEF UpInv, OpInv, OpTypes, Updates, Fills, Filed, InSplit, InMerge, Known, Live, InNode,
         GoodRec, BufKeys
<1>6. JobInv'
  <2>1. JobInv
    BY DEF UpInv
  <2>2. \A i : (FirstJob(i)' <=> FirstJob(i)) /\ (LastJob(i)' <=> LastJob(i))
    BY DEF FirstJob, LastJob, SameKey
  <2>3. \A i, j : (NextJob(i, j)' <=> NextJob(i, j)) /\ (NextOK(i, j)' <=> NextOK(i, j))
    BY DEF NextJob, NextOK, SameKey
  <2>4. \A i : (FirstOK(i)' <=> FirstOK(i)) /\ (LastOK(i)' <=> LastOK(i))
    BY DEF FirstOK, LastOK, Live
  <2>5. \A k : NoJob(k)' <=> NoJob(k)
    BY DEF NoJob
  <2>6. ASSUME NEW i \in 1 .. Len(jobs), jobs[i].key \notin mixed
        PROVE  /\ FirstJob(i)' => FirstOK(i)'
               /\ LastJob(i)' => LastOK(i)'
               /\ \A j \in 1 .. Len(jobs) : NextJob(i, j)' => NextOK(i, j)'
    BY <2>1, <2>2, <2>3, <2>4, <2>6 DEF JobInv
  <2>7. ASSUME NEW e \in index, e.key \notin mixed, NoJob(e.key)' PROVE e.leaf \in Live'
    BY <2>1, <2>5, <2>7 DEF JobInv, Live
  <2>8. ASSUME NEW l \in Live, node[l].lkey \notin mixed, NoJob(node[l].lkey)'
        PROVE  Entry(node[l].lkey, l) \in index
    BY <2>1, <2>5, <2>8 DEF JobInv
  <2>9. /\ \A e \in index \cup weak : e.key = mem[e.leaf].lkey
        /\ \A i \in 1 .. Len(jobs) : jobs[i].key = mem[jobs[i].leaf].lkey
    BY <2>1 DEF JobInv
  <2>10. Live' = Live
    BY DEF Live
  <2> QED
    BY <2>6, <2>7, <2>8, <2>9, <2>10 DEF JobInv
<1> QED
  BY <1>1, <1>2, <1>3, <1>4, <1>5, <1>6 DEF UpInv

(* What holds after a crash is about these variables.                       *)
LEMMA DownUnchanged ==
    ASSUME DownInv, UNCHANGED <<leafVars, poolVars, op, crash>>
    PROVE  DownInv'
BY DEF DownInv, leafVars, poolVars, GoodEntry, Leads, Answers, IndexTiles

(* Types are kept by a step that changes no leaf and no job.                *)
LEMMA TypesUnchanged ==
    ASSUME TypeInv, UNCHANGED <<leafVars, poolVars>>, Live' \subseteq 1 .. leaves,
           mode' \in {"up", "down", "recovered"}
    PROVE  TypeInv'
BY DEF TypeInv, leafVars, poolVars

(* The rebuilt middle layer has one node for each leaf that has an entry.   *)
LEMMA RecoverIs ==
    /\ DOMAIN Recover = {e.leaf : e \in index}
    /\ \A e \in index : Recover[e.leaf] = MLNode(mem[e.leaf].lkey, mem[e.leaf].hkey, FALSE)
BY DEF Recover, ScanAllRecord, scan_all_record

(* RecoverSPTree rebuilds the middle layer from the entries.                *)
LEMMA RecoverSPTreeInv ==
    ASSUME IInv, RecoverSPTree
    PROVE  IInv'
<1>0. TypeInv /\ DownInv /\ mode = "down"
  BY DEF IInv, RecoverSPTree
<1>1. /\ mode' = "recovered" /\ node' = Recover /\ UniqueKeys
      /\ UNCHANGED <<leafVars, poolVars, op, crash>>
  BY DEF RecoverSPTree, UniqueKeys
<1>2. DownInv'
  BY <1>0, <1>1, DownUnchanged
<1>3. Live' \subseteq 1 .. leaves
  <2>1. Live' = {e.leaf : e \in index}
    BY <1>1, RecoverIs DEF Live
  <2>2. \A e \in index : e.leaf \in 1 .. leaves
    BY <1>0 DEF DownInv, GoodEntry
  <2> QED
    BY <2>1, <2>2
<1>4. TypeInv'
  BY <1>0, <1>1, <1>3, TypesUnchanged
<1>5. UniqueKeys' /\ node' = Recover'
  BY <1>1 DEF UniqueKeys, Recover, ScanAllRecord, scan_all_record, leafVars, poolVars
<1> QED
  BY <1>1, <1>2, <1>4, <1>5 DEF IInv

(* Where the rebuilt nodes tile the keys, the tree is as it was.            *)
LEMMA TilesUp ==
    ASSUME TypeInv, mem = pmem, weak = {}, jobs = <<>>, mixed = {}, op = NoOp,
           \A e \in index : GoodEntry(e), UniqueKeys, node = Recover, Tiles
    PROVE  UpInv
<1>0. index \subseteq EntryT /\ mem \in [Leaf -> LeafT]
  BY DEF TypeInv
<1>1. op.pc = "idle" /\ DOMAIN op = DOMAIN NoOp /\ ~InSplit /\ ~InMerge
  BY DEF NoOp, InSplit, InMerge
<1>2. Len(jobs) = 0
  OBVIOUS
<1>3. Live = {e.leaf : e \in index} /\ Known = Live
  <2>1. Live = {e.leaf : e \in index}
    BY RecoverIs DEF Live
  <2>2. {jobs[i].leaf : i \in 1 .. Len(jobs)} = {}
    BY <1>2
  <2> QED
    BY <2>1, <2>2 DEF Known
<1>4. ASSUME NEW l \in Live
      PROVE  /\ l \in 1 .. leaves /\ l \in Leaf /\ mem[l] \in LeafT
             /\ node[l] = MLNode(mem[l].lkey, mem[l].hkey, FALSE)
             /\ node[l].lkey = mem[l].lkey /\ node[l].hkey = mem[l].hkey /\ node[l].buf = <<>>
             /\ Entry(mem[l].lkey, l) \in index
             /\ LeafOK(mem[l]) /\ Values(mem[l].slots, mem[l].slots, crash.torn)
  <2>1. PICK e \in index : e.leaf = l
    BY <1>3
  <2>2. GoodEntry(e)
    OBVIOUS
  <2>3. l \in 1 .. leaves /\ l \in Leaf /\ mem[l] \in LeafT
    BY <1>0, <2>1, <2>2, StateTypes DEF GoodEntry
  <2>4. node[l] = MLNode(mem[l].lkey, mem[l].hkey, FALSE)
    BY <2>1, RecoverIs
  <2>5. Entry(mem[l].lkey, l) = e
    BY <1>0, <2>1, <2>2 DEF GoodEntry, Entry, EntryT
  <2> QED
    BY <2>1, <2>2, <2>3, <2>4, <2>5 DEF GoodEntry, MLNode
<1>5. TileInv
  <2>1. node \in [Live -> NodeT]
    <3>1. ASSUME NEW l \in Live PROVE node[l] \in NodeT
      <4>1. mem[l].lkey \in Nat /\ mem[l].hkey \in Nat /\ <<>> \in Seq(RecT)
        <5>1. mem[l] \in LeafT
          BY <1>4
        <5> HIDE DEF RecT
        <5>2. mem[l].lkey \in Nat /\ mem[l].hkey \in Nat
          BY <5>1, LeafTypes
        <5>3. <<>> \in Seq(RecT)
          OBVIOUS
        <5> QED
          BY <5>2, <5>3
      <4>2. node[l] = [lkey |-> mem[l].lkey, hkey |-> mem[l].hkey, buffered |-> FALSE, buf |-> <<>>]
        BY <1>4 DEF MLNode
      <4> QED
        BY ONLY <4>1, <4>2 DEF NodeT
    <3>2. node = [l \in Live |-> node[l]]
      BY DEF Live, Recover
    <3> QED
      BY <3>1, <3>2
  <2>2. ASSUME NEW l \in Live, NEW m \in Live, node[l].lkey = node[m].lkey PROVE l = m
    <3>1. Entry(mem[l].lkey, l) = Entry(mem[m].lkey, m)
      BY ZenonT(60), <1>4, <2>2 DEF UniqueKeys, Entry
    <3> QED
      BY <3>1 DEF Entry
  <2>3. ASSUME NEW l \in Live PROVE Tiled(l)
    <3>1. /\ node[l].lkey = mem[l].lkey /\ node[l].hkey = mem[l].hkey
          /\ mem[l].lkey >= MinKey /\ (mem[l].lkey < mem[l].hkey \/ mem[l].hkey = MaxKey)
      BY <1>4, <2>3 DEF LeafOK
    <3>2. Follows(l)
      BY <2>3 DEF Tiles, Live
    <3> QED
      BY ONLY <3>1, <3>2 DEF Follows, Tiled, Live
  <2>4. (\E l \in Live : node[l].lkey = MinKey) /\ \A l, m \in Live : ~Overlap(l, m)
    BY DEF Tiles, Live
  <2> QED
    BY <2>1, <2>2, <2>3, <2>4 DEF TileInv
<1>6. BufInv
  <2>1. ASSUME NEW l \in Live PROVE Len(node[l].buf) = 0
    <3>1. node[l].buf = <<>>
      BY <1>4
    <3> QED
      BY ONLY <3>1
  <2>2. BufferCapacity \in Nat
    BY CapacityAssumption
  <2> QED
    BY <2>1, <2>2 DEF BufInv
<1>7. LinkInv
  BY <1>1, <1>4 DEF LinkInv, Linked, NextIs, Tiles, Follows, Live
<1>8. LeavesInv
  <2> SUFFICES ASSUME NEW l \in Live PROVE LeafInv(l)
    BY <1>3 DEF LeavesInv
  <2>1. crash.torn \subseteq TornAt(l)
    BY DEF TornAt
  <2>2. Values(mem[l].slots, mem[l].slots, TornAt(l))
    BY <1>4, <2>1 DEF Values, Written
  <2>3. OldHkeys(l) = {}
    BY <1>1 DEF OldHkeys, Busy
  <2>4. Header(mem[l], mem[l], OldHkeys(l))
    BY <2>3 DEF Header
  <2>5. Durable(mem[l].slots, mem[l].slots, NewVals(l), OldBits(l))
    BY DEF Durable
  <2> QED
    BY <1>0, <1>4, <2>2, <2>4, <2>5 DEF LeafInv, LeafState
<1>9. OpInv
  BY <1>1 DEF OpInv
<1>10. JobInv
  <2>1. \A e \in index : e.key = mem[e.leaf].lkey
    BY DEF GoodEntry
  <2>2. \A e \in index : e.leaf \in Live
    BY <1>3
  <2>3. \A l \in Live : Entry(node[l].lkey, l) \in index
    BY <1>4
  <2>4. ~ \E i \in 1 .. Len(jobs) : TRUE
    BY <1>2
  <2>5. /\ \A i \in 1 .. Len(jobs) : jobs[i].key = mem[jobs[i].leaf].lkey
        /\ \A i \in 1 .. Len(jobs) : jobs[i].key \notin mixed =>
              /\ FirstJob(i) => FirstOK(i)
              /\ LastJob(i) => LastOK(i)
              /\ \A j \in 1 .. Len(jobs) : NextJob(i, j) => NextOK(i, j)
    BY ONLY <2>4
  <2> QED
    BY <1>0, <2>1, <2>2, <2>3, <2>5 DEF JobInv
<1> QED
  BY <1>5, <1>6, <1>7, <1>8, <1>9, <1>10 DEF UpInv

(* Calls go on where the rebuilt nodes tile the keys.                       *)
LEMMA ResumeInv ==
    ASSUME IInv, Resume
    PROVE  IInv'
<1>1. /\ TypeInv /\ DownInv /\ UniqueKeys /\ node = Recover /\ Tiles /\ mode' = "up"
      /\ UNCHANGED <<leafVars, poolVars, node, op, crash>>
  BY DEF IInv, Resume
<1>2. UpInv'
  BY <1>1, TilesUp, UpUnchanged DEF DownInv
<1>3. Live' \subseteq 1 .. leaves
  BY <1>1 DEF TypeInv, Live
<1>4. TypeInv'
  BY <1>1, <1>3, TypesUnchanged
<1> QED
  BY <1>1, <1>2, <1>4 DEF IInv

(* A step that changes nothing keeps the invariant.                         *)
LEMMA Stutters ==
    ASSUME IInv, UNCHANGED vars
    PROVE  IInv'
<1>1. /\ UNCHANGED <<leafVars, poolVars, node, op, crash>> /\ mode' = mode
  BY DEF vars, procVars
<1>2. TypeInv'
  <2>1. TypeInv
    BY DEF IInv
  <2>2. Live' \subseteq 1 .. leaves
    BY <1>1, <2>1 DEF TypeInv, Live
  <2>3. mode' \in {"up", "down", "recovered"}
    BY <1>1, <2>1 DEF TypeInv
  <2> QED
    BY <1>1, <2>1, <2>2, <2>3, TypesUnchanged
<1>3. mode' = "up" => UpInv'
  BY <1>1, UpUnchanged DEF IInv
<1>4. mode' # "up" => DownInv'
  BY <1>1, DownUnchanged DEF IInv
<1>5. mode' = "recovered" => UniqueKeys' /\ node' = Recover'
  BY <1>1 DEF IInv, UniqueKeys, Recover, ScanAllRecord, scan_all_record, leafVars, poolVars
<1> QED
  BY <1>2, <1>3, <1>4, <1>5 DEF IInv

-----------------------------------------------------------------------------
(* CreateSPTree leaves one node, one entry and one leaf.                    *)
LEMMA FirstLeafs ==
    /\ NewLeaf \in LeafT /\ FirstLeaf \in LeafT /\ LeafOK(FirstLeaf)
    /\ \A torn : Values(FirstLeaf.slots, FirstLeaf.slots, torn)
<1>1. EmptyLeaf \in SlotsT
  BY ConstFacts, SlotType DEF EmptyLeaf, NoRec
<1>2. NewLeaf \in LeafT
  BY <1>1 DEF NewLeaf, LeafT, TailLeaf
<1>3. Len(Loaded) \in Nat /\ \A n \in 1 .. Len(Loaded) :
          \E k \in Keys : \E v \in ValsOf(k) : Loaded[n] = Rec(k, v)
  <2> DEFINE S == UNION {{Rec(k, v) : v \in ValsOf(k)} : k \in Keys}
  <2>1. Loaded \in Seq(S)
    BY LoadedAssumption
  <2> HIDE DEF S
  <2>2. Len(Loaded) \in Nat /\ \A n \in 1 .. Len(Loaded) : Loaded[n] \in S
    BY <2>1
  <2> QED
    BY <2>2 DEF S
<1>4. Loaded \in Seq(RecOf(K0, Vals))
  <2> DEFINE S == UNION {{Rec(k, v) : v \in ValsOf(k)} : k \in Keys}
             R == RecOf(K0, Vals)
  <2>1. S \subseteq R
    BY ConstFacts
  <2>2. Loaded \in Seq(S)
    BY LoadedAssumption
  <2> HIDE DEF S, R
  <2>3. Loaded \in Seq(R)
    BY <2>1, <2>2
  <2> QED
    BY <2>3 DEF R
<1>5. /\ FirstLeaf.slots \in SlotsT
      /\ \A i \in Slot : \/ FirstLeaf.slots[i] = EmptyLeaf[i]
                         \/ \E n \in 1 .. Len(Loaded) : FirstLeaf.slots[i] = Loaded[n]
  <2>1. FirstLeaf.slots = FillEmptySlots(EmptyLeaf, Loaded)
    BY DEF FirstLeaf
  <2> QED
    BY <1>1, <1>4, <2>1, FillRefills DEF SlotsT
<1>6. ASSUME NEW i \in Slot, FirstLeaf.slots[i].valid
      PROVE  FirstLeaf.slots[i].key \in Keys /\ FirstLeaf.slots[i].val \in ValsOf(FirstLeaf.slots[i].key)
  <2>1. EmptyLeaf[i].valid = FALSE
    BY DEF EmptyLeaf, NoRec
  <2>2. PICK n \in 1 .. Len(Loaded) : FirstLeaf.slots[i] = Loaded[n]
    BY <1>5, <1>6, <2>1
  <2>3a. PICK k \in Keys : \E v \in ValsOf(k) : Loaded[n] = Rec(k, v)
    BY <1>3
  <2>3. PICK v \in ValsOf(k) : Loaded[n] = Rec(k, v)
    BY <2>3a
  <2>4. FirstLeaf.slots[i].key = k /\ FirstLeaf.slots[i].val = v
    BY <2>2, <2>3 DEF Rec
  <2> QED
    BY <2>4
<1>7. FirstLeaf.lkey = MinKey /\ FirstLeaf.hkey = MaxKey /\ FirstLeaf.next = TailLeaf
  BY DEF FirstLeaf
<1>8. FirstLeaf \in LeafT
  BY <1>5, ConstFacts DEF FirstLeaf, LeafT
<1>9. LeafOK(FirstLeaf)
  <2>1. \A i \in Slot : FirstLeaf.slots[i].valid =>
            /\ FirstLeaf.slots[i].key \in Keys
            /\ MinKey <= FirstLeaf.slots[i].key /\ FirstLeaf.slots[i].key < MaxKey
    BY <1>6, ConstFacts
  <2>2. MinKey >= MinKey
    BY DEF MinKey
  <2> QED
    BY <1>7, <2>1, <2>2 DEF LeafOK
<1>10. \A torn : Values(FirstLeaf.slots, FirstLeaf.slots, torn)
  BY <1>6 DEF Values, Written
<1> QED
  BY <1>2, <1>8, <1>9, <1>10

(* The initial state is in order.                                           *)
LEMMA InitInv ==
    ASSUME Init
    PROVE  IInv
<1>1. /\ leaves = 1 /\ pmem = mem /\ index = {Entry(MinKey, HeadLeaf)} /\ weak = {}
      /\ mem = [l \in Leaf |-> IF l = HeadLeaf THEN FirstLeaf ELSE NewLeaf]
      /\ node = [l \in {HeadLeaf} |-> MLNode(MinKey, MaxKey, FALSE)]
      /\ op = NoOp /\ jobs = <<>> /\ mixed = {} /\ mode = "up" /\ HeadLeaf = 1
  BY DEF Init, FirstIndex, FirstNode, HeadLeaf
<1>2. 1 \in Leaf
  BY BoundsAssumption DEF Leaf
<1>3. mem[1] = FirstLeaf /\ mem \in [Leaf -> LeafT]
  BY <1>1, <1>2, FirstLeafs
<1>4. Live = {1} /\ node[1] = MLNode(MinKey, MaxKey, FALSE)
  BY <1>1 DEF Live
<1>5. mem[1].lkey = MinKey /\ mem[1].hkey = MaxKey /\ mem[1].next = TailLeaf
  BY <1>3 DEF FirstLeaf
<1>6. TypeInv
  <2>1. index \subseteq EntryT
    BY <1>1, ConstFacts DEF Entry, EntryT
  <2>2. jobs \in Seq(JobT)
    BY <1>1
  <2>3. Live \subseteq 1 .. leaves
    BY <1>1, <1>4
  <2> QED
    BY <1>1, <1>2, <1>3, <2>1, <2>2, <2>3 DEF TypeInv
<1>7. GoodEntry(Entry(MinKey, HeadLeaf))
  BY <1>1, <1>3, <1>5, FirstLeafs DEF GoodEntry, Entry
<1>8. node = Recover
  <2>1. {e.leaf : e \in index} = {HeadLeaf}
    BY <1>1 DEF Entry
  <2>2. Recover = [l \in {HeadLeaf} |-> MLNode(mem[l].lkey, mem[l].hkey, FALSE)]
    BY <2>1 DEF Recover, ScanAllRecord, scan_all_record
  <2>3. mem[HeadLeaf].lkey = MinKey /\ mem[HeadLeaf].hkey = MaxKey
    BY <1>1, <1>5
  <2>4. \A l \in {HeadLeaf} : MLNode(mem[l].lkey, mem[l].hkey, FALSE) = MLNode(MinKey, MaxKey, FALSE)
    BY <2>3
  <2>5. node = [l \in {HeadLeaf} |-> MLNode(MinKey, MaxKey, FALSE)]
    BY <1>1
  <2> QED
    BY ONLY <2>2, <2>4, <2>5
<1>9. Tiles
  BY <1>1, <1>4, <1>5, ConstFacts DEF Tiles, Follows, Overlap, Entry, MLNode, Live
<1>10. UniqueKeys
  BY <1>1 DEF UniqueKeys
<1>11. UpInv
  BY <1>1, <1>6, <1>7, <1>8, <1>9, <1>10, TilesUp
<1> QED
  BY <1>1, <1>6, <1>11 DEF IInv

-----------------------------------------------------------------------------
(* The invariant and what it says of a restart.                             *)

(* Only a restart sets the modes of the process. *)
LEMMA ModesKept ==
    ASSUME buffering \in BOOLEAN, [Next]_vars
    PROVE  buffering' \in BOOLEAN
<1> USE DEF procVars
<1>1. ASSUME NEW t \in Threads, NEW k \in Keys, NEW v \in ValsOf(k),
             \/ InsertBuffer(t, k, v) \/ InsertFlushes(t, k, v) \/ InsertUpdates(t, k, v)
             \/ InsertFills(t, k, v) \/ SplitWrite(t, k, v)
      PROVE  buffering' = buffering
  BY <1>1 DEF InsertBuffer, InsertFlushes, InsertUpdates, InsertFills, SplitWrite
<1>2. ASSUME NEW t \in Threads, NEW k \in Keys, Remove(t, k) PROVE buffering' = buffering
  BY <1>2 DEF Remove
<1>3. CASE CreateLogsForThread \/ RemoveReturn \/ WriteBack
  BY <1>3 DEF CreateLogsForThread, RemoveReturn, WriteBack
<1>4. CASE FlushLeaf \/ FlushBits \/ UpdateFlush \/ FillFlush
  BY <1>4 DEF FlushLeaf, FlushBits, UpdateFlush, FillFlush
<1>5. CASE SplitFlushLeft \/ SplitFlushRight \/ SplitBits
  BY <1>5 DEF SplitFlushLeft, SplitFlushRight, SplitBits
<1>6. CASE RemoveFlush \/ MergeWrite \/ MergeFlush \/ MergeBits
  BY <1>6 DEF RemoveFlush, MergeWrite, MergeFlush, MergeBits
<1>7. ASSUME NEW i \in 1 .. Len(jobs), TopLayerPmemInsert(i) \/ TopLayerPmemRemove(i)
      PROVE  buffering' = buffering
  BY <1>7 DEF TopLayerPmemInsert, TopLayerPmemRemove
<1>8. ASSUME Die PROVE buffering' = buffering
  BY <1>8 DEF Die
<1>9. CASE RecoverSPTree \/ Resume
  BY <1>9 DEF RecoverSPTree, Resume
<1>10. CASE UNCHANGED vars
  BY <1>10 DEF vars
<1> QED
  BY <1>1, <1>2, <1>3, <1>4, <1>5, <1>6, <1>7, <1>8, <1>9, <1>10 DEF Next, Crash, InsertExits

(* Every call, job, crash and restart keeps the invariant.                  *)
LEMMA NextInv ==
    ASSUME IInv, buffering \in BOOLEAN, [Next]_vars
    PROVE  IInv'
<1>1. CASE CreateLogsForThread
  BY <1>1, CreateLogsInv
<1>2. ASSUME NEW t \in Threads, NEW k \in Keys, NEW v \in ValsOf(k),
             \/ InsertBuffer(t, k, v) \/ InsertExits(t, k, v) \/ InsertFlushes(t, k, v)
             \/ InsertUpdates(t, k, v) \/ InsertFills(t, k, v) \/ SplitWrite(t, k, v)
      PROVE  IInv'
  <2>1. CASE InsertBuffer(t, k, v)
    BY <2>1, InsertBufferInv
  <2>2. CASE InsertExits(t, k, v)
    BY <2>2, DieInv DEF InsertExits
  <2>3. CASE InsertFlushes(t, k, v)
    BY <2>3, InsertFlushesInv
  <2>4. CASE InsertUpdates(t, k, v)
    BY <2>4, InsertUpdatesInv
  <2>5. CASE InsertFills(t, k, v)
    BY <2>5, InsertFillsInv
  <2>6. CASE SplitWrite(t, k, v)
    BY <2>6, SplitWriteInv
  <2> QED
    BY <1>2, <2>1, <2>2, <2>3, <2>4, <2>5, <2>6
<1>3. ASSUME NEW t \in Threads, NEW k \in Keys, Remove(t, k) PROVE IInv'
  BY <1>3, RemoveInv
<1>4. CASE FlushLeaf
  BY <1>4, FlushLeafInv
<1>5. CASE FlushBits
  BY <1>5, FlushBitsInv
<1>6. CASE UpdateFlush
  BY <1>6, UpdateFlushInv
<1>7. CASE FillFlush
  BY <1>7, FillFlushInv
<1>8. CASE SplitFlushLeft
  BY <1>8, SplitFlushLeftInv
<1>9. CASE SplitFlushRight
  BY <1>9, SplitFlushRightInv
<1>10. CASE SplitBits
  BY <1>10, SplitBitsInv
<1>11. CASE RemoveFlush
  BY <1>11, RemoveFlushInv
<1>12. CASE MergeWrite
  BY <1>12, MergeWriteInv
<1>13. CASE MergeFlush
  BY <1>13, MergeFlushInv
<1>14. CASE MergeBits
  BY <1>14, MergeBitsInv
<1>15. CASE RemoveReturn
  BY <1>15, RemoveReturnInv
<1>16. ASSUME NEW i \in 1 .. Len(jobs), TopLayerPmemInsert(i) \/ TopLayerPmemRemove(i) PROVE IInv'
  BY <1>16, TopLayerPmemInsertInv, TopLayerPmemRemoveInv
<1>17. CASE WriteBack
  BY <1>17, WriteBackInv
<1>18. CASE Crash
  BY <1>18, DieInv DEF Crash
<1>19. CASE RecoverSPTree
  BY <1>19, RecoverSPTreeInv
<1>20. CASE Resume
  BY <1>20, ResumeInv
<1>21. CASE UNCHANGED vars
  BY <1>21, Stutters
<1> QED
  BY <1>1, <1>2, <1>3, <1>4, <1>5, <1>6, <1>7, <1>8, <1>9, <1>10, <1>11, <1>12, <1>13, <1>14,
     <1>15, <1>16, <1>17, <1>18, <1>19, <1>20, <1>21 DEF Next

(* The inductive invariant: the nodes tile the keys, each leaf agrees with  *)
(* its node and its durable copy with it but for what the running call has  *)
(* under way, and the jobs that are queued bring the index to the nodes;    *)
(* after a crash the entries lead every key that is not loose to a leaf     *)
(* that answers what was answered.                                          *)
THEOREM RestartInvariant == Spec => []IInv
<1> DEFINE Inv == IInv /\ buffering \in BOOLEAN
<1>1. Init => Inv
  BY InitInv DEF Init
<1>2. Inv /\ [Next]_vars => Inv'
  BY NextInv, ModesKept
<1>3. Inv => IInv
  OBVIOUS
<1> QED
  BY <1>1, <1>2, <1>3, PTL DEF Spec

(* A rebuilt node starts with an empty buffer and its leaf's range.         *)
LEMMA Rebuilt ==
    ASSUME IInv, mode = "recovered"
    PROVE  /\ Live = {e.leaf : e \in index}
           /\ \A e \in index : /\ node[e.leaf].lkey = e.key /\ e.key = mem[e.leaf].lkey
                               /\ node[e.leaf].hkey = mem[e.leaf].hkey /\ node[e.leaf].buf = <<>>
           /\ \A l \in Live : node[l].lkey \in Nat
<1>1. DownInv /\ node = Recover /\ TypeInv
  BY DEF IInv
<1>2. Live = {e.leaf : e \in index}
  BY <1>1, RecoverIs DEF Live
<1>3. ASSUME NEW e \in index
      PROVE  /\ node[e.leaf].lkey = e.key /\ e.key = mem[e.leaf].lkey /\ e.key \in Nat
             /\ node[e.leaf].hkey = mem[e.leaf].hkey /\ node[e.leaf].buf = <<>>
  <2>1. node[e.leaf] = MLNode(mem[e.leaf].lkey, mem[e.leaf].hkey, FALSE)
    BY <1>1, RecoverIs
  <2>2. e.key = mem[e.leaf].lkey /\ e.key \in Nat
    BY <1>1 DEF DownInv, GoodEntry, TypeInv, EntryT
  <2> QED
    BY <2>1, <2>2 DEF MLNode
<1>4. ASSUME NEW l \in Live PROVE node[l].lkey \in Nat
  <2>1. PICK e \in index : e.leaf = l
    BY <1>2
  <2> QED
    BY <1>3, <2>1
<1> QED
  BY <1>2, <1>3, <1>4

(* A lookup after a restart ends at a rebuilt node, or hangs.               *)
LEMMA RebuiltAnswer ==
    ASSUME IInv, mode = "recovered", NEW k \in Keys
    PROVE  \/ Answer(k) = Hang
           \/ \E e \in index : e.leaf = Start(k) /\ Answer(k) = LeafLookup(mem[e.leaf].slots, k)
<1> SUFFICES ASSUME ~Lost(k)
             PROVE  \E e \in index : e.leaf = Start(k) /\ Answer(k) = LeafLookup(mem[e.leaf].slots, k)
  BY DEF Answer
<1>1. k \in Nat
  BY ConstFacts
<1>2. PICK o \in Live : node[o].lkey <= k
  BY <1>1, Rebuilt DEF Lost, Live
<1>3. Start(k) \in Live
  BY <1>1, <1>2, Rebuilt, StartMax
<1>4. PICK e \in index : e.leaf = Start(k)
  BY <1>3, Rebuilt
<1>5. node[Start(k)].buf = <<>>
  BY <1>4, Rebuilt
<1>6. InBuf(Start(k), k) = {}
  BY <1>5 DEF InBuf
<1> QED
  BY <1>4, <1>6 DEF Answer

(* Outside the loose keys it ends at the leaf that the key's entry names.   *)
LEMMA RebuiltLeads ==
    ASSUME IInv, mode = "recovered", NEW k \in Keys, NEW e \in index, Leads(e, k),
           k < mem[e.leaf].hkey
    PROVE  Answer(k) = LeafLookup(mem[e.leaf].slots, k)
<1>1. k \in Nat /\ e.leaf \in Live /\ node[e.leaf].lkey = e.key /\ e.key <= k
  BY Rebuilt, ConstFacts DEF Leads
<1>2. /\ Start(k) \in Live /\ node[Start(k)].lkey <= k
      /\ \A m \in Live : node[m].lkey <= k => node[m].lkey <= node[Start(k)].lkey
  <2>1. \A l \in Live : node[l].lkey \in Nat
    BY Rebuilt
  <2> QED
    BY <1>1, <2>1, StartMax
<1>3. PICK d \in index : d.leaf = Start(k)
  BY <1>2, Rebuilt
<1>4. d.key = node[Start(k)].lkey /\ d.key \in Nat /\ e.key \in Nat
  BY <1>1, <1>2, <1>3, Rebuilt
<1>5. d.key <= e.key /\ e.key <= d.key
  BY <1>1, <1>2, <1>4 DEF Leads
<1>6. d = e
  <2>1. d.key = e.key
    BY <1>4, <1>5
  <2> QED
    BY <2>1 DEF IInv, UniqueKeys
<1>7. Start(k) = e.leaf
  BY <1>3, <1>6
<1>8. ~Lost(k)
  <2>1. node[e.leaf].hkey = mem[e.leaf].hkey /\ e.key = mem[e.leaf].lkey
    BY Rebuilt
  <2>2. mem[e.leaf].hkey \in Nat
    <3>1. GoodEntry(e) /\ TypeInv
      BY DEF IInv, DownInv
    <3>2. mem[e.leaf] \in LeafT
      BY <3>1, StateTypes DEF GoodEntry
    <3> QED
      BY <3>2, LeafTypes
  <2> QED
    BY <1>1, <1>4, <1>7, <2>1, <2>2 DEF Lost, Live
<1>9. InBuf(e.leaf, k) = {}
  BY Rebuilt DEF InBuf
<1> QED
  BY <1>7, <1>8, <1>9 DEF Answer

(* A crash takes nothing back that had returned, and no key has a value     *)
(* that was not written for it (insert, remove, Split and Merge with their  *)
(* flushes, RecoverSPTree).                                                 *)
THEOREM RestartSurvivesCrash == Spec => []SurvivesCrash
<1>1. IInv => SurvivesCrash
  <2> SUFFICES ASSUME IInv, mode = "recovered", NEW k \in Keys
               PROVE  /\ k \notin crash.loose =>
                            \/ Answer(k) = crash.answers[k]
                            \/ k \in crash.gone /\ Answer(k) = NoVal
                      /\ k \notin crash.torn => Answer(k) \in ValsOf(k) \cup {NoVal, Hang}
    BY DEF SurvivesCrash
  <2>1. DownInv
    BY DEF IInv
  <2>2. ASSUME k \notin crash.loose
        PROVE  Answer(k) = crash.answers[k] \/ (k \in crash.gone /\ Answer(k) = NoVal)
    <3>1. PICK e \in index : Leads(e, k)
      BY <2>1, <2>2 DEF DownInv
    <3>2. Answers(e, k)
      BY <2>1, <2>2, <3>1 DEF DownInv
    <3>3. Answer(k) = LeafLookup(mem[e.leaf].slots, k)
      BY <3>1, <3>2, RebuiltLeads DEF Answers
    <3> QED
      BY <3>2, <3>3 DEF Answers
  <2>3. ASSUME k \notin crash.torn
        PROVE  Answer(k) \in ValsOf(k) \cup {NoVal, Hang}
    <3> SUFFICES ASSUME NEW e \in index, Answer(k) = LeafLookup(mem[e.leaf].slots, k),
                        Match(mem[e.leaf].slots, k) # {}
                 PROVE  Answer(k) \in ValsOf(k)
      BY RebuiltAnswer DEF LeafLookup
    <3> DEFINE s == mem[e.leaf].slots
               i == Lowest(Match(s, k))
    <3>1. i \in Slot /\ s[i].valid /\ s[i].key = k
      BY MatchLowest
    <3>2. Values(s, s, crash.torn)
      BY <2>1 DEF DownInv, GoodEntry
    <3>3. Written(s[i], crash.torn)
      BY <3>1, <3>2 DEF Values
    <3>4. Answer(k) = s[i].val
      BY DEF LeafLookup
    <3> QED
      BY <2>3, <3>1, <3>3, <3>4 DEF Written
  <2> QED
    BY <2>2, <2>3
<1> QED
  BY <1>1, RestartInvariant, PTL

(* After a crash that cut no split and no merge short, with the pool        *)
(* drained, the leaf headers and the entries of the persistent B+-tree fit  *)
(* together again.                                                          *)
THEOREM CleanRestart == Spec => []CleanRestartTiles
<1>1. IInv => CleanRestartTiles
  <2> SUFFICES ASSUME IInv, mode = "recovered", crash.settled PROVE Tiles
    BY DEF CleanRestartTiles
  <2>1. IndexTiles
    BY DEF IInv, DownInv
  <2>2. \A e \in index : node[e.leaf].lkey = e.key
    BY Rebuilt
  <2>3. ASSUME NEW l \in DOMAIN node PROVE Follows(l)
    <3>1. PICK e \in index : e.leaf = l
      BY <2>3, Rebuilt DEF Live
    <3>2. node[l].hkey = mem[l].hkey
      BY <3>1, Rebuilt
    <3>3. CASE mem[l].hkey = MaxKey
      BY <2>1, <3>1, <3>2, <3>3 DEF IndexTiles, Follows
    <3>4. CASE mem[l].hkey # MaxKey
      <4>1. PICK d \in index : d.leaf = mem[l].next /\ d.key = mem[l].hkey
        BY <2>1, <3>1, <3>4 DEF IndexTiles
      <4>2. d.leaf \in DOMAIN node /\ node[d.leaf].lkey = d.key
        BY Rebuilt DEF Live
      <4> QED
        BY <3>2, <3>4, <4>1, <4>2 DEF Follows
    <3> QED
      BY <3>3, <3>4
  <2>4. ASSUME NEW l \in DOMAIN node, NEW m \in DOMAIN node PROVE ~Overlap(l, m)
    <3>1. PICK d \in index : d.leaf = l
      BY <2>4, Rebuilt DEF Live
    <3>2. PICK e \in index : e.leaf = m
      BY <2>4, Rebuilt DEF Live
    <3> QED
      BY <2>1, <3>1, <3>2, Rebuilt DEF IndexTiles, Overlap
  <2>5. \E l \in DOMAIN node : node[l].lkey = MinKey
    BY <2>1, Rebuilt DEF IndexTiles, Live
  <2> QED
    BY <2>2, <2>3, <2>4, <2>5 DEF Tiles
<1> QED
  BY <1>1, RestartInvariant, PTL
=============================================================================
