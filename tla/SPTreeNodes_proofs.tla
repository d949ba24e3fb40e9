------------------------- MODULE SPTreeNodes_proofs -------------------------
(***************************************************************************)
(* The nodes of SPTree: their key ranges, leaves, write buffers and Bloom  *)
(* filters, for any threads, keys, workloads and number of nodes.          *)
(*                                                                         *)
(* Four inductive invariants, each proved from the ones before it:         *)
(*    TypeInv      every variable has its type,                            *)
(*    RangeInv     the low keys ascend along the list,                     *)
(*    SnapshotInv  the version word that a thread has read tells whether   *)
(*                 its key is still in the range of its node,              *)
(*    NodeInv      a leaf holds keys of its node's range only, each once;  *)
(*                 a batch that waits for a split is what the buffer holds *)
(*                 and fits; the filter covers leaf and buffer.            *)
(***************************************************************************)
EXTENDS SPTreeLocks_proofs, LeafNode64_proofs

(* The records that a split gets: a whole buffer and one more. *)
BatchSize == 1 + (IF WithBuffer THEN BufferCapacity ELSE 0)

(* The upper end of the keys that node n is responsible for: between the    *)
(* split of its leaf and SetHkey it is the low key of the new node.         *)
Limit(n)   == IF Changing(n, {"setHkey"}) THEN lkey[next[n]] ELSE hkey[n]
Owns(n, k) == lkey[n] <= k /\ k < Limit(n)

-----------------------------------------------------------------------------
(* The invariants.                                                         *)

IsBuffer(b) ==
    /\ b \in [DOMAIN b -> Vals] /\ DOMAIN b \subseteq Keys
    /\ Cardinality(DOMAIN b) <= BufferCapacity

NodeTypes ==
    /\ lkey \in [Node -> 0 .. MaxKey] /\ hkey \in [Node -> 0 .. MaxKey]
    /\ leaf \in [Node -> LeafOf(Keys, Vals)]
    /\ DOMAIN buf = Node /\ \A n \in Node : IsBuffer(buf[n])
    /\ bloom \in [Node -> SUBSET Keys] /\ filterOn \in [Node -> BOOLEAN]
    /\ needSort \in [Node -> BOOLEAN] /\ seqs \in [Node -> [Slot -> Slot \cup {0}]]
    /\ store \in [Keys -> Vals \cup {NoVal}]

OutRec == [key : Nat, val : Nat, valid : {TRUE}]

ResultTypes ==
    /\ todo \in [Threads -> Seq(RecOf(Keys, Vals))]
    /\ got \in [Threads -> Vals \cup {0, 1}]
    /\ res \in [Threads -> Nat \cup {Pending}]
    /\ out \in [Threads -> Seq(OutRec)]
    /\ done \in [Threads -> Nat] /\ \A t \in Threads : done[t] <= Len(out[t])

(* What a thread is doing belongs to its call. *)
Doing(t) ==
    /\ pc[t] = "insertLocked" => call[t].name = "insert"
    /\ pc[t] \in {"readBuffer", "readLeaf", "checkValue"} => call[t].name = "lookup"
    /\ pc[t] \in {"removeLocked", "mergeCheck", "mergeRead", "mergeCas", "merge"} =>
          call[t].name = "remove"
    /\ pc[t] \in {"bloom", "checkBloom"} => call[t].name \in {"lookup", "remove"}
    /\ pc[t] = "upgrade" => call[t].name \in {"insert", "remove"}
    /\ pc[t] \in {"lockNext", "split"} => call[t].name \in {"insert", "scan"}
    /\ pc[t] \in {"scanLock", "scanNode", "scanUpgrade", "scanFlush", "scanSort", "scanSorted",
                  "scanRelock", "scanRead", "scanCheck", "scanAdvance", "scanNext"} =>
          call[t].name = "scan"
    /\ pc[t] \in {"scanUpgrade", "scanFlush"} => Buffered(at[t])

(* A scan collects no more records than it was asked for, and reads a node  *)
(* only while there is room for one.                                        *)
Room(t) ==
    /\ pc[t] = "idle" => Len(out[t]) = 0
    /\ pc[t] # "idle" /\ call[t].name = "scan" => Len(out[t]) <= call[t].val
    /\ pc[t] \in {"scanUpgrade", "scanFlush", "scanSort", "scanSorted", "scanRelock", "scanRead"} =>
          Len(out[t]) < call[t].val

TypeInv == NodeTypes /\ ResultTypes /\ harm \in Harms /\ \A t \in Threads : Doing(t) /\ Room(t)

RangeInv == \A n \in Linked \ {DummyTail} : lkey[n] < lkey[next[n]]

(* A version word, once read, never comes back. *)
Snapshot(t) ==
    /\ pc[t] \in {"bloom", "checkBloom", "readBuffer", "readLeaf", "checkValue", "upgrade"} =>
          /\ Free(ver[t]) /\ ver[t] <= lock[at[t]]
          /\ lock[at[t]] = ver[t] => InRange(at[t], key(t))
    /\ pc[t] \in {"insertLocked", "removeLocked"} => InRange(at[t], key(t))

SnapshotInv == \A t \in Threads : Snapshot(t)

LeavesInRange ==
    harm = "none" => \A n \in Linked : /\ Distinct(leaf[n])
                                       /\ \A k \in KeysOf(leaf[n]) : Owns(n, k)

BuffersClean == \A n \in Node : n \notin Allocated \/ ~Buffered(n) => buf[n] = NoBuf

BatchOK(t) ==
    /\ pc[t] \in {"lockNext", "split"} =>
          /\ DistinctRecs(todo[t]) /\ Len(todo[t]) <= BatchSize
          /\ Count(leaf[at[t]]) >= 2
          /\ harm = "none" => /\ \A k \in KeysIn(todo[t]) : InRange(at[t], k)
                              /\ DOMAIN buf[at[t]] \subseteq KeysIn(todo[t])
    /\ pc[t] = "split" => Distinct(leaf[at[t]])

FiltersCover ==
    \A n \in Linked : filterOn[n] /\ (harm = "none" \/ ~isLocked(lock[n])) =>
        \A k \in KeysOf(leaf[n]) \cup DOMAIN buf[n] : Owns(n, k) => k \in bloom[n]

NodeInv ==
    /\ LeavesInRange /\ BuffersClean /\ FiltersCover
    /\ \A t \in Threads : BatchOK(t)

-----------------------------------------------------------------------------
(* Types.                                                                  *)

(* Keys and values are numbers, and a set of keys is finite. *)
LEMMA KeysAre ==
    /\ Keys \subseteq Nat /\ Keys \subseteq 1 .. MaxKey /\ MaxKey \in Nat
    /\ Vals \subseteq Nat /\ NoVal \notin Vals /\ NoVal = 0
    /\ \A k \in Keys : k < MaxKey /\ k >= 1
    /\ \A S \in SUBSET Keys : IsFiniteSet(S) /\ S \subseteq Nat /\ Cardinality(S) \in Nat
<1>1. /\ Keys \subseteq Nat /\ Keys \subseteq 1 .. MaxKey /\ MaxKey \in Nat
      /\ \A k \in Keys : k < MaxKey /\ k >= 1
  BY KeysAssumption DEF MinKey
<1>2. IsFiniteSet(1 .. MaxKey)
  BY <1>1, FS_Interval
<1>3. ASSUME NEW S \in SUBSET Keys PROVE IsFiniteSet(S) /\ S \subseteq Nat /\ Cardinality(S) \in Nat
  <2>1. S \in SUBSET (1 .. MaxKey)
    BY <1>1
  <2>2. IsFiniteSet(S)
    BY <1>2, <2>1, FS_Subset
  <2> QED
    BY <1>1, <2>2, FS_CardinalityType
<1> QED
  BY <1>1, <1>3, ValsAssumption DEF NoVal

(* An empty buffer is a buffer. *)
LEMMA NoBufIs == IsBuffer(NoBuf) /\ DOMAIN NoBuf = {}
<1>1. DOMAIN NoBuf = {} /\ NoBuf \in [{} -> Vals]
  BY DEF NoBuf
<1>2. Cardinality({}) = 0
  BY FS_EmptySet
<1> QED
  BY <1>1, <1>2, CapacityAssumption DEF IsBuffer

(* The initial state. *)
LEMMA InitTypeInv == Init => TypeInv
<1> SUFFICES ASSUME Init PROVE TypeInv
  OBVIOUS
<1>0. /\ work \in Workloads /\ IsWorkload(work)
      /\ work.loaded \in Seq(RecOf(Keys, Vals)) /\ work.filtersOff \in BOOLEAN
  <2>1. work \in Workloads
    BY DEF Init
  <2>2. IsWorkload(work)
    BY <2>1, WorkloadsAssumption
  <2> QED
    BY <2>1, <2>2 DEF IsWorkload, RecOf
<1>1. FillEmptySlots(EmptyLeaf, work.loaded) \in LeafOf(Keys, Vals) /\ EmptyLeaf \in LeafOf(Keys, Vals)
  BY <1>0, EmptyLeafIs, FillIs
<1>2. leaf \in [Node -> LeafOf(Keys, Vals)]
  BY <1>1 DEF Init
<1>3. lkey \in [Node -> 0 .. MaxKey] /\ hkey \in [Node -> 0 .. MaxKey]
  <2>1. MinKey \in 0 .. MaxKey /\ MaxKey \in 0 .. MaxKey /\ 0 \in 0 .. MaxKey
    <3>1. PICK k \in Keys : TRUE
      BY KeysAssumption
    <3> QED
      BY <3>1, KeysAre DEF MinKey
  <2>2. \A n \in Node : lkey[n] \in {MinKey, MaxKey, 0}
    BY DEF Init, HeadNode, DummyTail
  <2>3. lkey = [n \in Node |-> lkey[n]]
    BY DEF Init
  <2>4. lkey \in [Node -> 0 .. MaxKey]
    BY <2>1, <2>2, <2>3
  <2>5. hkey \in [Node -> 0 .. MaxKey]
    BY <2>1 DEF Init
  <2> QED
    BY <2>4, <2>5
<1>4. DOMAIN buf = Node /\ \A n \in Node : IsBuffer(buf[n])
  BY NoBufIs DEF Init
<1>5. bloom \in [Node -> SUBSET Keys] /\ filterOn \in [Node -> BOOLEAN]
  <2>1. {work.loaded[i].key : i \in 1 .. Len(work.loaded)} \in SUBSET Keys
    <3>1. \A r \in RecOf(Keys, Vals) : r.key \in Keys
      BY DEF RecOf
    <3>2. \A i \in 1 .. Len(work.loaded) : work.loaded[i] \in RecOf(Keys, Vals)
      BY <1>0
    <3> QED
      BY <3>1, <3>2
  <2>2. bloom \in [Node -> SUBSET Keys]
    BY <2>1 DEF Init
  <2>3. filterOn \in [Node -> BOOLEAN]
    BY DEF Init
  <2> QED
    BY <2>2, <2>3
<1>6. needSort \in [Node -> BOOLEAN] /\ seqs \in [Node -> [Slot -> Slot \cup {0}]]
  BY DEF Init
<1>7. store \in [Keys -> Vals \cup {NoVal}]
  <2>1. HeadNode \in Node
    BY BoundsAssumption DEF Node, HeadNode
  <2>2. leaf[HeadNode] \in LeafOf(Keys, Vals) /\ leaf[HeadNode] = FillEmptySlots(EmptyLeaf, work.loaded)
    BY <1>2, <2>1 DEF Init
  <2>3. DistinctRecs(work.loaded)
    BY <1>0 DEF IsWorkload, DistinctRecs
  <2>4. KeysOf(EmptyLeaf) \cap KeysIn(work.loaded) = {} /\ Distinct(EmptyLeaf)
    BY EmptyLeafIs
  <2>5. Distinct(leaf[HeadNode])
    BY <1>0, <1>1, <2>2, <2>3, <2>4, FillIs
  <2>6. \A k \in Keys : LeafLookup(leaf[HeadNode], k) \in Vals \cup {NoVal}
    BY <2>2, <2>5, LookupIs
  <2> QED
    BY <2>6 DEF Init
<1>8. ResultTypes /\ harm \in Harms
  <2>1. harm \in Harms
    BY DEF Init, Harms
  <2>2. <<>> \in Seq(RecOf(Keys, Vals)) /\ <<>> \in Seq(OutRec) /\ Len(<<>>) = 0
    OBVIOUS
  <2>3. todo \in [Threads -> Seq(RecOf(Keys, Vals))] /\ out \in [Threads -> Seq(OutRec)]
    BY <2>2 DEF Init
  <2>4. got \in [Threads -> Vals \cup {0, 1}] /\ res \in [Threads -> Nat \cup {Pending}]
    BY DEF Init, NoVal
  <2>5. done \in [Threads -> Nat] /\ \A t \in Threads : done[t] <= Len(out[t])
    BY <2>2 DEF Init
  <2> QED
    BY <2>1, <2>3, <2>4, <2>5 DEF ResultTypes
<1>9. \A t \in Threads : Doing(t)
  BY DEF Init, Doing
<1>10. \A t \in Threads : Room(t)
  <2>1. Len(<<>>) = 0
    OBVIOUS
  <2> QED
    BY <2>1 DEF Init, Room
<1> QED
  BY <1>2, <1>3, <1>4, <1>5, <1>6, <1>7, <1>8, <1>9, <1>10 DEF TypeInv, NodeTypes

(* A step of one thread leaves the locals of the others alone. *)
OthersRest(t) ==
    \A u \in Threads \ {t} :
        /\ pc'[u] = pc[u] /\ at'[u] = at[u] /\ ver'[u] = ver[u] /\ other'[u] = other[u]
        /\ call'[u] = call[u] /\ todo'[u] = todo[u] /\ got'[u] = got[u] /\ res'[u] = res[u]
        /\ out'[u] = out[u] /\ done'[u] = done[u]

LEMMA OnlyItsLocals ==
    ASSUME PointerTypes, ResultTypes, NEW t \in Threads, Invoke(t) \/ Step(t)
    PROVE  OthersRest(t)
<1> USE DEF Goto, Hop, Retry, Effect, InsertTakesEffect, middle, content, sorting, shared, scans, locals
<1>0. /\ DOMAIN pc = Threads /\ DOMAIN at = Threads /\ DOMAIN ver = Threads /\ DOMAIN other = Threads
      /\ DOMAIN call = Threads /\ DOMAIN todo = Threads /\ DOMAIN got = Threads
      /\ DOMAIN res = Threads /\ DOMAIN out = Threads /\ DOMAIN done = Threads
  BY DEF PointerTypes, ResultTypes
<1>1. CASE Invoke(t) \/ Return(t) \/ SeekLE(t) \/ WalkLeft(t) \/ WalkRight(t) \/ ReadLock(t)
  BY <1>0, <1>1 DEF OthersRest, Invoke, Return, SeekLE, WalkLeft, WalkRight, ReadLock
<1>2. CASE ReadBloom(t) \/ CheckBloom(t) \/ ReadBuffer(t) \/ ReadLeaf(t) \/ CheckValue(t)
  BY <1>0, <1>2 DEF OthersRest, ReadBloom, CheckBloom, ReadBuffer, ReadLeaf, CheckValue
<1>3. CASE Upgrade(t) \/ InsertToBuffer(t) \/ FlushMLNodeBuffer(t) \/ InsertToLeaf(t) \/ StartSplit(t)
  BY <1>0, <1>3 DEF OthersRest, Upgrade, InsertToBuffer, FlushMLNodeBuffer, InsertToLeaf, StartSplit
<1>4. CASE \/ LockNext(t) \/ Split(t) \/ SetHkey(t) \/ TopInsert(t) \/ UnlockLeft(t) \/ UnlockNext(t)
           \/ ResetBuffer(t)
  BY <1>0, <1>4 DEF OthersRest, LockNext, Split, SetHkey, TopInsert, UnlockLeft, UnlockNext, ResetBuffer
<1>5. CASE \/ RemoveLocked(t) \/ MergeCheck(t) \/ MergeRead(t) \/ MergeCas(t)
           \/ MergeFails(t) \/ Merge(t) \/ Unlink(t) \/ TopRemove(t) \/ UnlockObsolete(t)
  BY <1>0, <1>5 DEF OthersRest, RemoveLocked, MergeCheck, MergeRead, MergeCas, MergeFails, Merge,
                    Unlink, TopRemove, UnlockObsolete
<1>6. CASE \/ ScanLock(t) \/ ScanNode(t) \/ ScanUpgrade(t) \/ ScanUnlock(t) \/ ScanSort(t)
           \/ ScanSorted(t) \/ ScanRelock(t) \/ ScanCheck(t) \/ ScanAdvance(t) \/ ScanNext(t)
           \/ Unlock(t)
  BY <1>0, <1>6 DEF OthersRest, ScanLock, ScanNode, ScanUpgrade, ScanUnlock, ScanSort, ScanSorted,
                    ScanRelock, ScanVersion, ScanCheck, ScanAdvance, ScanNext, Unlock
<1>7. CASE ScanRead(t)
  <2>1. /\ UNCHANGED <<at, ver, other, call, todo, got, res, done>>
        /\ \E p : pc' = [pc EXCEPT ![t] = p]
        /\ \E o : out' = [out EXCEPT ![t] = o]
    <3>1. CASE lkey[at[t]] < key(t) /\ needSort[at[t]]
      <4>1. out' = out /\ pc' = [pc EXCEPT ![t] = "exit"]
        BY <1>7, <3>1, Zenon DEF ScanRead
      <4>2. out' = [out EXCEPT ![t] = out[t]]
        BY <4>1, <1>0 DEF ResultTypes
      <4>3. UNCHANGED <<at, ver, other, call, todo, got, res, done>>
        BY <1>7 DEF ScanRead
      <4> QED
        BY <4>1, <4>2, <4>3
    <3>2. CASE ~(lkey[at[t]] < key(t) /\ needSort[at[t]])
      BY <1>7, <3>2, Zenon DEF ScanRead
    <3> QED
      BY <3>1, <3>2
  <2> QED
    BY <1>0, <2>1 DEF OthersRest
<1> QED
  BY <1>1, <1>2, <1>3, <1>4, <1>5, <1>6, <1>7, Zenon DEF Step

(* What is written to a slot or a buffer. *)
LEMMA RecTypes ==
    \A k \in Keys, v \in Vals : /\ Rec(k, v) \in RecOf(Keys, Vals)
                                /\ Rec(k, v).key = k /\ Rec(k, v).val = v
BY DEF Rec, RecOf

(* The records of a buffer, each key once. *)
LEMMA BufferRecordsAre ==
    ASSUME TypeInv, NEW n \in Node
    PROVE  /\ BufferRecords(n) \in Seq(RecOf(Keys, Vals)) /\ DistinctRecs(BufferRecords(n))
           /\ Len(BufferRecords(n)) = Cardinality(DOMAIN buf[n])
           /\ Len(BufferRecords(n)) \in Nat /\ Len(BufferRecords(n)) <= BufferCapacity
           /\ KeysIn(BufferRecords(n)) = DOMAIN buf[n]
           /\ \A k, v : InRecs(BufferRecords(n), k, v) <=> k \in DOMAIN buf[n] /\ v = buf[n][k]
<1> DEFINE D == DOMAIN buf[n]
           N == Cardinality(D)
           recs == BufferRecords(n)
<1>1. D \subseteq Keys /\ (\A k \in D : buf[n][k] \in Vals) /\ N <= BufferCapacity
  BY DEF TypeInv, NodeTypes, IsBuffer
<1>2. D \in SUBSET Nat /\ IsFiniteSet(D) /\ N \in Nat
  BY <1>1, KeysAre
<1> HIDE DEF D
<1>3. /\ \A i \in 1 .. N : Nth(D, i) \in D
      /\ \A i, j \in 1 .. N : Nth(D, i) = Nth(D, j) => i = j
  BY <1>2, NthIs
<1>4. ASSUME NEW k \in D PROVE \E i \in 1 .. N : k = Nth(D, i)
  <2>1. PICK i \in 1 .. N : k = Nth(D, i) /\ i = Cardinality({j \in D : j < k}) + 1
    BY <1>2, NthIs
  <2> QED
    BY <2>1
<1>5. recs = [i \in 1 .. N |-> Rec(Nth(D, i), buf[n][Nth(D, i)])]
  BY DEF BufferRecords, D
<1> HIDE DEF recs, N
<1>6. \A i \in 1 .. N : /\ recs[i] \in RecOf(Keys, Vals)
                        /\ recs[i].key = Nth(D, i) /\ recs[i].val = buf[n][Nth(D, i)]
  <2>1. \A k \in D : /\ Rec(k, buf[n][k]) \in RecOf(Keys, Vals)
                     /\ Rec(k, buf[n][k]).key = k /\ Rec(k, buf[n][k]).val = buf[n][k]
    BY <1>1, RecTypes
  <2> QED
    BY <1>3, <1>5, <2>1
<1>7. recs \in [1 .. N -> RecOf(Keys, Vals)]
  BY <1>5, <1>6
<1>8. recs \in Seq(RecOf(Keys, Vals)) /\ Len(recs) = N
  BY <1>2, <1>7
<1>9. /\ \A k : k \in KeysIn(recs) <=> \E i \in 1 .. N : recs[i].key = k
      /\ \A k, v : InRecs(recs, k, v) <=> \E i \in 1 .. N : recs[i].key = k /\ recs[i].val = v
      /\ DistinctRecs(recs) <=> \A i, j \in 1 .. N : recs[i].key = recs[j].key => i = j
  BY <1>8 DEF KeysIn, InRecs, DistinctRecs
<1>10. DistinctRecs(recs)
  BY <1>3, <1>6, <1>9
<1>11. KeysIn(recs) = D
  <2>1. ASSUME NEW k PROVE k \in KeysIn(recs) <=> k \in D
    BY <1>3, <1>4, <1>6, <1>9
  <2> QED
    BY <2>1
<1>12. ASSUME NEW k, NEW v PROVE InRecs(recs, k, v) <=> k \in D /\ v = buf[n][k]
  BY <1>3, <1>4, <1>6, <1>9
<1> QED
  BY <1>1, <1>2, <1>8, <1>10, <1>11, <1>12 DEF D, N, recs

(* The call's own record. *)
LEMMA RecordIs ==
    ASSUME PointerTypes, NEW t \in Threads, call[t].name = "insert"
    PROVE  /\ Record(t) \in RecOf(Keys, Vals) /\ call[t].val \in Vals /\ key(t) \in Keys
           /\ Record(t).key = key(t) /\ Record(t).val = call[t].val
<1>1. call[t] \in Call
  BY DEF PointerTypes
<1>2. \A c \in Call : c.name = "insert" => c.key \in Keys /\ c.val \in Vals
  BY DEF Call
<1>3. key(t) \in Keys /\ call[t].val \in Vals
  BY <1>1, <1>2 DEF key
<1> QED
  BY <1>3, RecTypes DEF Record

(* The batch of a flush or a split: the buffer, and the record of an insert *)
(* that did not fit into it.                                                *)
LEMMA ToMergeIs ==
    ASSUME LockInv, TypeInv, NEW t \in Threads, MustFlush(t)
    PROVE  /\ ToMerge(t) \in Seq(RecOf(Keys, Vals)) /\ DistinctRecs(ToMerge(t))
           /\ Len(ToMerge(t)) <= BatchSize /\ WithBuffer
           /\ Len(ToMerge(t)) <= Cardinality(DOMAIN buf[at[t]]) + 1
           /\ call[t].name = "insert" =>
                 /\ key(t) \notin DOMAIN buf[at[t]]
                 /\ KeysIn(ToMerge(t)) = DOMAIN buf[at[t]] \cup {key(t)}
                 /\ \A k, v : InRecs(ToMerge(t), k, v) <=>
                       \/ k \in DOMAIN buf[at[t]] /\ v = buf[at[t]][k]
                       \/ k = key(t) /\ v = call[t].val
           /\ call[t].name # "insert" =>
                 /\ KeysIn(ToMerge(t)) = DOMAIN buf[at[t]]
                 /\ \A k, v : InRecs(ToMerge(t), k, v) <=>
                       k \in DOMAIN buf[at[t]] /\ v = buf[at[t]][k]
<1> DEFINE n == at[t]
           recs == BufferRecords(n)
           D == DOMAIN buf[n]
<1>1. PointerTypes /\ n \in Node
  <2>1. pc[t] \in AtHeld
    BY DEF MustFlush, AtHeld
  <2> QED
    BY <2>1, HeldNodes DEF LockInv
<1>2. /\ recs \in Seq(RecOf(Keys, Vals)) /\ DistinctRecs(recs)
      /\ Len(recs) = Cardinality(D) /\ Len(recs) \in Nat /\ Len(recs) <= BufferCapacity
      /\ KeysIn(recs) = D
      /\ \A k, v : InRecs(recs, k, v) <=> k \in D /\ v = buf[n][k]
  BY <1>1, BufferRecordsAre
<1>3. WithBuffer /\ BatchSize = 1 + BufferCapacity /\ BufferCapacity \in Nat
  <2>1. Buffered(n)
    BY DEF MustFlush, TypeInv, Doing
  <2> QED
    BY <2>1, CapacityAssumption DEF Buffered, BatchSize
<1>4. CASE call[t].name # "insert"
  <2>1. ToMerge(t) = recs
    BY <1>4 DEF ToMerge
  <2> HIDE DEF recs, D
  <2> QED
    BY <1>2, <1>3, <1>4, <2>1 DEF D
<1>5. CASE call[t].name = "insert"
  <2>1. pc[t] = "insertLocked" /\ ~BufferHasRoom(n, key(t))
    BY <1>5 DEF MustFlush, TypeInv, Doing
  <2>2. key(t) \notin D
    BY <2>1 DEF BufferHasRoom
  <2>3. ToMerge(t) = Append(recs, Record(t))
    BY <1>5 DEF ToMerge
  <2>4. /\ Record(t) \in RecOf(Keys, Vals) /\ Record(t).key = key(t) /\ Record(t).val = call[t].val
    BY <1>1, <1>5, RecordIs
  <2> HIDE DEF recs, D
  <2> DEFINE all == ToMerge(t)
             L == Len(recs)
  <2>5. /\ all \in Seq(RecOf(Keys, Vals)) /\ Len(all) = L + 1 /\ L \in Nat
        /\ all[L + 1] = Record(t) /\ \A i \in 1 .. L : all[i] = recs[i]
    BY <1>2, <2>3, <2>4
  <2> HIDE DEF all, L
  <2>6. \A i \in 1 .. (L + 1) : i \in 1 .. L \/ i = L + 1
    BY <2>5
  <2>7. \A i \in 1 .. L : i \in 1 .. (L + 1) /\ L + 1 \in 1 .. (L + 1)
    BY <2>5
  <2>7a. L + 1 \in 1 .. (L + 1)
    BY <2>5
  <2>8. /\ \A k : k \in KeysIn(all) <=> \E i \in 1 .. (L + 1) : all[i].key = k
        /\ \A k, v : InRecs(all, k, v) <=> \E i \in 1 .. (L + 1) : all[i].key = k /\ all[i].val = v
        /\ DistinctRecs(all) <=> \A i, j \in 1 .. (L + 1) : all[i].key = all[j].key => i = j
    BY <2>5 DEF KeysIn, InRecs, DistinctRecs
  <2>9. /\ \A k : k \in KeysIn(recs) <=> \E i \in 1 .. L : recs[i].key = k
        /\ \A k, v : InRecs(recs, k, v) <=> \E i \in 1 .. L : recs[i].key = k /\ recs[i].val = v
        /\ DistinctRecs(recs) <=> \A i, j \in 1 .. L : recs[i].key = recs[j].key => i = j
    BY DEF KeysIn, InRecs, DistinctRecs, L
  <2>10. ASSUME NEW k PROVE k \in KeysIn(all) <=> k \in D \/ k = key(t)
    BY <1>2, <2>4, <2>5, <2>6, <2>7, <2>7a, <2>8, <2>9
  <2>11. ASSUME NEW k, NEW v
         PROVE  InRecs(all, k, v) <=> (k \in D /\ v = buf[n][k]) \/ (k = key(t) /\ v = call[t].val)
    <3>1. InRecs(all, k, v) => InRecs(recs, k, v) \/ (k = key(t) /\ v = call[t].val)
      BY <2>4, <2>5, <2>6, <2>8, <2>9
    <3>2. InRecs(recs, k, v) => InRecs(all, k, v)
      BY <2>5, <2>7, <2>8, <2>9
    <3>3. k = key(t) /\ v = call[t].val => InRecs(all, k, v)
      BY <2>4, <2>5, <2>7a, <2>8
    <3>4. InRecs(recs, k, v) <=> k \in D /\ v = buf[n][k]
      BY <1>2
    <3> QED
      BY <3>1, <3>2, <3>3, <3>4
  <2>12. DistinctRecs(all)
    <3>1. \A i \in 1 .. L : recs[i].key # key(t)
      BY <1>2, <2>2, <2>9
    <3> QED
      BY <1>2, <2>4, <2>5, <2>6, <2>8, <2>9, <3>1
  <2>13. KeysIn(all) = D \cup {key(t)}
    BY <2>10
  <2>14. Len(all) <= BatchSize /\ Len(all) <= Cardinality(D) + 1
    BY <1>2, <1>3, <2>5 DEF L
  <2> QED
    BY <1>3, <1>5, <2>2, <2>5, <2>11, <2>12, <2>13, <2>14 DEF all, D
<1> QED
  BY <1>4, <1>5

(* ScanRead ends the program, finds the result full or has read the leaf.   *)
LEMMA ScanReadGoes ==
    ASSUME NEW t \in Threads, ScanRead(t)
    PROVE  \/ pc' = [pc EXCEPT ![t] = "exit"] \/ pc' = [pc EXCEPT ![t] = "scanNext"]
           \/ pc' = [pc EXCEPT ![t] = "scanCheck"]
<1>1. CASE lkey[at[t]] < key(t) /\ needSort[at[t]]
  BY <1>1, Zenon DEF ScanRead
<1>2. CASE ~(lkey[at[t]] < key(t) /\ needSort[at[t]])
  <2>1. \E b \in BOOLEAN : pc' = [pc EXCEPT ![t] = IF b THEN "scanNext" ELSE "scanCheck"]
    BY <1>2, Zenon DEF ScanRead
  <2> QED
    BY <2>1
<1> QED
  BY <1>1, <1>2

(* The thread goes on with the call it is in. *)
LEMMA DoingStep ==
    ASSUME LockInv, TypeInv, NEW t \in Threads, Invoke(t) \/ Step(t)
    PROVE  \A u \in Threads : Doing(u)'
<1>1. PointerTypes /\ ResultTypes /\ Doing(t) /\ pc \in [Threads -> Pcs] /\ at \in [Threads -> Node \cup {Null}]
  BY DEF LockInv, TypeInv, PointerTypes
<1>2. OthersRest(t)
  BY <1>1, OnlyItsLocals
<1>3. ASSUME NEW u \in Threads \ {t} PROVE Doing(u)'
  BY <1>2 DEF TypeInv, Doing, OthersRest, Buffered
<1> USE DEF Goto, Hop, Retry, middle, content, sorting, shared, scans, locals
<1>4. Doing(t)'
  <2>1. CASE Invoke(t) \/ Return(t) \/ SeekLE(t) \/ WalkLeft(t) \/ WalkRight(t)
    <3>1. pc'[t] \in {"seek", "idle", "walkLeft", "walkRight", "null", "readLock"}
      BY <1>1, <2>1 DEF Invoke, Return, SeekLE, WalkLeft, WalkRight
    <3> QED
      BY <3>1 DEF Doing
  <2>2. CASE ReadLock(t)
    <3>1. call[t].name \in {"insert", "scan", "lookup", "remove"}
      <4>1. call[t] \in Call
        BY <1>1 DEF PointerTypes
      <4>2. \A c \in Call : c.name \in {"insert", "scan", "lookup", "remove"}
        BY DEF Call
      <4> QED
        BY <4>1, <4>2
    <3> QED
      BY <1>1, <2>2, <3>1 DEF ReadLock, Doing
  <2>3. CASE ReadBloom(t) \/ CheckBloom(t) \/ ReadBuffer(t) \/ ReadLeaf(t) \/ CheckValue(t)
    BY <1>1, <2>3 DEF ReadBloom, CheckBloom, ReadBuffer, ReadLeaf, CheckValue, Doing
  <2>4. CASE Upgrade(t) \/ InsertToBuffer(t) \/ InsertToLeaf(t)
    BY <1>1, <2>4 DEF Upgrade, InsertToBuffer, InsertToLeaf, Doing
  <2>5. CASE FlushMLNodeBuffer(t)
    <3>1. pc'[t] \in {"unlock", "scanUnlock"}
      BY <1>1, <2>5 DEF FlushMLNodeBuffer
    <3> QED
      BY <3>1 DEF Doing
  <2>6. CASE StartSplit(t)
    <3>1. pc'[t] = "lockNext" /\ call' = call /\ pc[t] \in {"insertLocked", "scanFlush"}
      BY <1>1, <2>6 DEF StartSplit, MustFlush
    <3> QED
      BY <1>1, <3>1 DEF Doing
  <2>7. CASE LockNext(t) \/ SetHkey(t) \/ TopInsert(t) \/ UnlockLeft(t) \/ UnlockNext(t) \/ ResetBuffer(t)
    BY <1>1, <2>7 DEF LockNext, SetHkey, TopInsert, UnlockLeft, UnlockNext, ResetBuffer, Doing
  <2>8. CASE Split(t) \/ Merge(t) \/ Unlink(t) \/ TopRemove(t) \/ UnlockObsolete(t)
    <3>1. pc'[t] \in {"setHkey", "unlink", "topRemove", "unlockObsolete", "unlock"}
      BY <1>1, <2>8 DEF Split, Merge, Unlink, TopRemove, UnlockObsolete
    <3> QED
      BY <3>1 DEF Doing
  <2>9. CASE RemoveLocked(t)
    <3>1. pc[t] = "removeLocked" /\ pc'[t] = "mergeCheck" /\ call' = call
      BY <1>1, <2>9 DEF RemoveLocked
    <3> QED
      BY <1>1, <3>1 DEF Doing
  <2>10. CASE MergeCheck(t) \/ MergeRead(t) \/ MergeCas(t) \/ MergeFails(t)
    BY <1>1, <2>10 DEF MergeCheck, MergeRead, MergeCas, MergeFails, Doing
  <2>11. CASE ScanLock(t) \/ ScanNode(t) \/ ScanUpgrade(t) \/ ScanUnlock(t)
    BY <1>1, <2>11 DEF ScanLock, ScanNode, ScanUpgrade, ScanUnlock, Doing, Buffered
  <2>12. CASE ScanSort(t) \/ ScanSorted(t) \/ ScanRelock(t) \/ ScanCheck(t) \/ ScanAdvance(t)
              \/ ScanNext(t) \/ Unlock(t)
    BY <1>1, <2>12 DEF ScanSort, ScanSorted, ScanRelock, ScanNext, ScanVersion, ScanCheck,
                       ScanAdvance, Unlock, Doing
  <2>13. CASE ScanRead(t)
    <3>1. pc[t] = "scanRead" /\ call' = call
      BY <2>13 DEF ScanRead
    <3>2. pc'[t] \in {"exit", "scanNext", "scanCheck"}
      <4>1. \/ pc' = [pc EXCEPT ![t] = "exit"] \/ pc' = [pc EXCEPT ![t] = "scanNext"]
            \/ pc' = [pc EXCEPT ![t] = "scanCheck"]
        BY <2>13, ScanReadGoes, Zenon
      <4> QED
        BY <1>1, <4>1
    <3> QED
      BY <1>1, <3>1, <3>2 DEF Doing
  <2> QED
    BY <2>1, <2>2, <2>3, <2>4, <2>5, <2>6, <2>7, <2>8, <2>9, <2>10, <2>11, <2>12, <2>13, Zenon
    DEF Step
<1> QED
  BY <1>3, <1>4

(* The size that a scan asks for. *)
LEMMA ScanSizeIs ==
    ASSUME PointerTypes, NEW t \in Threads
    PROVE  call[t].name = "scan" => call[t].val \in Nat /\ call[t].val > 0
<1>1. call[t] \in Call
  BY DEF PointerTypes
<1>2. \A c \in Call : c.name = "scan" => c.val \in ScanSizes
  BY DEF Call
<1>3. \A v \in ScanSizes : v \in Nat /\ v > 0
  BY ValsAssumption
<1> QED
  BY <1>1, <1>2, <1>3

(* What a scan reads of a leaf, sorted or not, are records. *)
LEMMA ScannedAre ==
    ASSUME TypeInv, NEW n \in Node, NEW sq \in SeqsRead(n), NEW start \in 0 .. Count(leaf[n]), NEW k \in Nat
    PROVE  ScannedFrom(n, sq, start, k) \in Seq(OutRec)
<1> DEFINE N == Count(leaf[n]) - start
           rec(i) == Rec(leaf[n][sq[start + i]].key, leaf[n][sq[start + i]].val)
           recs == [i \in 1 .. N |-> rec(i)]
           I == {i \in 1 .. N : k <= recs[i].key}
<1>1. leaf[n] \in LeafOf(Keys, Vals) /\ seqs[n] \in [Slot -> Slot \cup {0}]
  BY DEF TypeInv, NodeTypes
<1>2. Count(leaf[n]) \in Nat /\ Count(leaf[n]) <= LeafCapacity
  <2>1. /\ Count(leaf[n]) \in Nat
        /\ Count(leaf[n]) + Cardinality(EmptyBitSet(leaf[n])) = LeafCapacity
        /\ EmptyBitSet(leaf[n]) \subseteq Slot
    BY <1>1, LeafSets
  <2>2. Cardinality(EmptyBitSet(leaf[n])) \in Nat
    BY <2>1, SlotsFinite
  <2> QED
    BY <2>1, <2>2, LeafCapacityAssumption
<1>3. N \in Nat
  BY <1>2
<1>4. \A i \in 1 .. N : start + i \in 1 .. Count(leaf[n]) /\ start + i \in Slot
  BY <1>2, LeafCapacityAssumption DEF Slot
<1>5. \A i \in 1 .. Count(leaf[n]) : sq[i] \in Slot
  <2> DEFINE unwritten == {i \in 1 .. Count(leaf[n]) : seqs[n][i] = 0}
  <2>1. PICK any \in [unwritten -> Slot] :
           sq = [i \in Slot |-> IF i \in unwritten THEN any[i] ELSE seqs[n][i]]
    BY DEF SeqsRead
  <2>2. \A i \in 1 .. Count(leaf[n]) : i \in Slot
    BY <1>2, LeafCapacityAssumption DEF Slot
  <2>3. ASSUME NEW i \in 1 .. Count(leaf[n]) PROVE sq[i] \in Slot
    <3>1. CASE i \in unwritten
      BY <2>1, <2>2, <3>1
    <3>2. CASE i \notin unwritten
      <4>1. seqs[n][i] # 0 /\ seqs[n][i] \in Slot \cup {0}
        BY <1>1, <2>2, <3>2
      <4>2. sq[i] = seqs[n][i]
        BY <2>1, <2>2, <3>2
      <4> QED
        BY <4>1, <4>2
    <3> QED
      BY <3>1, <3>2
  <2> QED
    BY <2>3
<1>6. \A s \in Slots(Keys, Vals) : Rec(s.key, s.val) \in OutRec
  <2>1. \A s \in Slots(Keys, Vals) : s.key \in Nat /\ s.val \in Nat
    <3>1. \A s \in [key : Keys, val : Vals, valid : BOOLEAN] : s.key \in Nat /\ s.val \in Nat
      <4>1. \A s \in [key : Keys, val : Vals, valid : BOOLEAN] : s.key \in Keys /\ s.val \in Vals
        OBVIOUS
      <4> QED
        BY <4>1, KeysAre
    <3>2. NoRec.key \in Nat /\ NoRec.val \in Nat
      BY DEF NoRec, NoVal
    <3> QED
      BY <3>1, <3>2 DEF Slots
  <2> QED
    BY <2>1 DEF Rec, OutRec
<1>7. \A i \in 1 .. N : rec(i) \in OutRec
  BY <1>1, <1>4, <1>5, <1>6 DEF LeafOf
<1> HIDE DEF rec, N
<1>8. recs \in [1 .. N -> OutRec]
  BY <1>7
<1>9. recs \in Seq(OutRec) /\ Len(recs) = N
  BY <1>3, <1>8
<1>10. ScannedFrom(n, sq, start, k) = Pick(recs, I)
  BY DEF ScannedFrom, rec, N
<1>11. I \in SUBSET (1 .. Len(recs))
  BY <1>9
<1> HIDE DEF recs, I
<1> QED
  BY <1>9, <1>10, <1>11, PickIs

(* The results of the calls. *)
LEMMA ResultStep ==
    ASSUME LockInv, TypeInv, NEW t \in Threads, Invoke(t) \/ Step(t)
    PROVE  ResultTypes' /\ \A u \in Threads : Room(u)'
<1>1. /\ PointerTypes /\ ResultTypes /\ Doing(t) /\ Room(t)
      /\ pc \in [Threads -> Pcs] /\ at \in [Threads -> Node \cup {Null}]
      /\ todo \in [Threads -> Seq(RecOf(Keys, Vals))] /\ out \in [Threads -> Seq(OutRec)]
      /\ res \in [Threads -> Nat \cup {Pending}] /\ got \in [Threads -> Vals \cup {0, 1}]
      /\ done \in [Threads -> Nat] /\ done[t] <= Len(out[t])
  BY DEF LockInv, TypeInv, PointerTypes, ResultTypes
<1>2. OthersRest(t)
  BY <1>1, OnlyItsLocals
<1>3. ASSUME NEW u \in Threads \ {t} PROVE Room(u)'
  BY <1>2 DEF TypeInv, Room, OthersRest
<1>4. /\ <<>> \in Seq(RecOf(Keys, Vals)) /\ <<>> \in Seq(OutRec) /\ Len(<<>>) = 0
      /\ \A s \in Seq(OutRec) : Len(s) \in Nat
  OBVIOUS
<1>5. call[t].name = "scan" => call[t].val \in Nat /\ call[t].val > 0
  BY <1>1, ScanSizeIs
<1> DEFINE Fine == /\ todo' \in [Threads -> Seq(RecOf(Keys, Vals))] /\ out' \in [Threads -> Seq(OutRec)]
                   /\ res' \in [Threads -> Nat \cup {Pending}] /\ got' \in [Threads -> Vals \cup {0, 1}]
                   /\ done' \in [Threads -> Nat] /\ done'[t] <= Len(out'[t]) /\ Room(t)'
<1>6. SUFFICES Fine
  BY <1>2, <1>3 DEF ResultTypes, TypeInv, OthersRest
<1> USE DEF Goto, Hop, Effect, InsertTakesEffect, middle, content, sorting, shared, scans, locals
<1>7. ASSUME Retry(t) PROVE Fine
  BY <1>1, <1>4, <1>5, <1>7 DEF Retry, Room, NoVal
<1>8. CASE Invoke(t)
  <2>1. pc[t] = "idle" /\ pc'[t] = "seek" /\ UNCHANGED <<todo, out, res, got, done>>
    BY <1>1, <1>8 DEF Invoke
  <2>2. Len(out[t]) = 0
    BY <1>1, <2>1 DEF Room
  <2>3. call' \in [Threads -> Call]
    BY <1>1, <1>8, InvokedCall DEF PointerTypes
  <2>4. call'[t].name = "scan" => call'[t].val \in Nat
    <3>1. call'[t] \in Call
      BY <2>3
    <3>2. \A c \in Call : c.name = "scan" => c.val \in ScanSizes
      BY DEF Call
    <3> QED
      BY <3>1, <3>2, ValsAssumption
  <2>5. Room(t)'
    BY <2>1, <2>2, <2>4 DEF Room
  <2> QED
    BY <1>1, <2>1, <2>5
<1>9. CASE Return(t)
  BY <1>1, <1>4, <1>9 DEF Return, Room, NoVal
<1>10. CASE SeekLE(t) \/ WalkLeft(t) \/ WalkRight(t)
  <2>1. /\ UNCHANGED <<todo, out, res, got, done, call>> /\ pc[t] # "idle"
        /\ pc'[t] \in {"walkLeft", "walkRight", "null", "readLock"}
    BY <1>1, <1>10 DEF SeekLE, WalkLeft, WalkRight
  <2> QED
    BY <1>1, <2>1 DEF Room
<1>11. CASE ReadLock(t) /\ ~Retry(t)
  <2>1. /\ UNCHANGED <<todo, out, res, got, done, call>> /\ pc[t] # "idle"
        /\ pc'[t] \in {"upgrade", "scanLock", "bloom"}
    BY <1>1, <1>11 DEF ReadLock
  <2> QED
    BY <1>1, <2>1 DEF Room
<1>12. CASE ReadBloom(t)
  <2>1. /\ UNCHANGED <<todo, out, res, done, call>> /\ pc[t] # "idle" /\ pc'[t] = "checkBloom"
        /\ \E g \in {0, 1} : got' = [got EXCEPT ![t] = g]
    BY <1>1, <1>12 DEF ReadBloom
  <2> QED
    BY <1>1, <2>1 DEF Room
<1>13. CASE CheckBloom(t) /\ ~Retry(t)
  <2>1. /\ UNCHANGED <<todo, out, done, call>> /\ pc[t] # "idle"
        /\ pc'[t] \in {"return", "upgrade", "readBuffer", "readLeaf"}
        /\ got' = [got EXCEPT ![t] = NoVal] /\ (res' = [res EXCEPT ![t] = 0] \/ res' = res)
    BY <1>1, <1>13 DEF CheckBloom
  <2>2. 0 \in Vals \cup {0, 1} /\ 0 \in Nat \cup {Pending} /\ NoVal = 0
    BY DEF NoVal
  <2>3. got' \in [Threads -> Vals \cup {0, 1}] /\ res' \in [Threads -> Nat \cup {Pending}]
    BY <1>1, <2>1, <2>2
  <2>4. Room(t)'
    BY <1>1, <2>1 DEF Room
  <2> QED
    BY <1>1, <2>1, <2>3, <2>4
<1>14. CASE ReadBuffer(t)
  <2>1. /\ UNCHANGED <<todo, out, res, done, call>> /\ pc[t] = "readBuffer"
        /\ pc'[t] \in {"checkValue", "readLeaf"}
        /\ \/ got' = got
           \/ key(t) \in DOMAIN buf[at[t]] /\ got' = [got EXCEPT ![t] = buf[at[t]][key(t)]]
    BY <1>1, <1>14 DEF ReadBuffer
  <2>2. at[t] \in Node
    BY <2>1, NodeSets DEF LockInv, ThreadOK, AtOK
  <2>3. \A k \in DOMAIN buf[at[t]] : buf[at[t]][k] \in Vals
    BY <2>2 DEF TypeInv, NodeTypes, IsBuffer
  <2> QED
    BY <1>1, <2>1, <2>3 DEF Room
<1>15. CASE CheckValue(t) /\ ~Retry(t)
  <2>1. /\ UNCHANGED <<todo, out, done, call, got>> /\ pc[t] # "idle" /\ pc'[t] = "return"
        /\ res' = [res EXCEPT ![t] = got[t]]
    BY <1>1, <1>15 DEF CheckValue
  <2>2. got[t] \in Nat
    <3>1. got[t] \in Vals \cup {0, 1} /\ Vals \cup {0, 1} \subseteq Nat
      BY <1>1, KeysAre
    <3> QED
      BY <3>1
  <2> QED
    BY <1>1, <2>1, <2>2 DEF Room
<1>16. CASE (Upgrade(t) \/ ScanUpgrade(t)) /\ ~Retry(t)
  <2>1. /\ UNCHANGED <<todo, out, res, got, done, call>> /\ pc[t] \in {"upgrade", "scanUpgrade"}
        /\ pc[t] = "upgrade" => pc'[t] \in {"insertLocked", "removeLocked"}
        /\ pc[t] = "scanUpgrade" => pc'[t] = "scanFlush"
    BY <1>1, <1>16 DEF Upgrade, ScanUpgrade
  <2> QED
    BY <1>1, <2>1 DEF Room
<1>17. CASE InsertToBuffer(t) \/ InsertToLeaf(t) \/ FlushMLNodeBuffer(t) \/ Split(t) \/ RemoveLocked(t)
  <2>1. /\ UNCHANGED <<todo, out, got, done, call>> /\ pc[t] # "idle"
        /\ pc'[t] \in {"unlock", "scanUnlock", "setHkey", "mergeCheck"}
        /\ res' = res \/ res' = [res EXCEPT ![t] = 1] \/ res' = [res EXCEPT ![t] = 0]
    <3>1. CASE InsertToBuffer(t) \/ InsertToLeaf(t)
      BY <1>1, <3>1 DEF InsertToBuffer, InsertToLeaf
    <3>2. CASE FlushMLNodeBuffer(t)
      BY <1>1, <3>2 DEF FlushMLNodeBuffer, MustFlush
    <3>3. CASE Split(t)
      BY <1>1, <3>3 DEF Split
    <3>4. CASE RemoveLocked(t)
      BY <1>1, <3>4 DEF RemoveLocked
    <3> QED
      BY <1>17, <3>1, <3>2, <3>3, <3>4
  <2>2. 0 \in Nat \cup {Pending} /\ 1 \in Nat \cup {Pending}
    OBVIOUS
  <2>3. res' \in [Threads -> Nat \cup {Pending}]
    BY <1>1, <2>1, <2>2
  <2>4. Room(t)'
    BY <1>1, <2>1 DEF Room
  <2> QED
    BY <1>1, <2>1, <2>3, <2>4
<1>18. CASE StartSplit(t)
  <2>1. /\ UNCHANGED <<out, res, got, done, call>> /\ pc[t] # "idle" /\ pc'[t] = "lockNext"
        /\ \/ MustFlush(t) /\ todo' = [todo EXCEPT ![t] = ToMerge(t)]
           \/ pc[t] = "insertLocked" /\ todo' = [todo EXCEPT ![t] = <<Record(t)>>]
    BY <1>1, <1>18 DEF StartSplit, MustFlush
  <2>2. MustFlush(t) => ToMerge(t) \in Seq(RecOf(Keys, Vals))
    BY ToMergeIs
  <2>3. pc[t] = "insertLocked" => <<Record(t)>> \in Seq(RecOf(Keys, Vals))
    <3>1. pc[t] = "insertLocked" => Record(t) \in RecOf(Keys, Vals)
      BY <1>1, RecordIs DEF Doing
    <3> QED
      BY <3>1
  <2> QED
    BY <1>1, <2>1, <2>2, <2>3 DEF Room
<1>19. CASE \/ LockNext(t) \/ SetHkey(t) \/ TopInsert(t) \/ UnlockLeft(t) \/ UnlockNext(t)
            \/ MergeCheck(t) \/ MergeRead(t) \/ MergeCas(t) \/ MergeFails(t) \/ Merge(t) \/ Unlink(t)
            \/ TopRemove(t) \/ UnlockObsolete(t) \/ Unlock(t) \/ (ResetBuffer(t) /\ ~Retry(t))
  <2>1. /\ UNCHANGED <<todo, out, res, got, done, call>> /\ pc[t] # "idle"
        /\ pc'[t] \notin {"idle", "scanUpgrade", "scanFlush", "scanSort", "scanSorted", "scanRelock",
                          "scanRead"}
    <3>1. CASE LockNext(t) \/ SetHkey(t) \/ TopInsert(t) \/ UnlockLeft(t) \/ UnlockNext(t)
      BY <1>1, <3>1 DEF LockNext, SetHkey, TopInsert, UnlockLeft, UnlockNext
    <3>2. CASE MergeCheck(t) \/ MergeRead(t) \/ MergeCas(t) \/ MergeFails(t)
      BY <1>1, <3>2 DEF MergeCheck, MergeRead, MergeCas, MergeFails
    <3>3. CASE Merge(t) \/ Unlink(t) \/ TopRemove(t) \/ UnlockObsolete(t) \/ Unlock(t)
      BY <1>1, <3>3 DEF Merge, Unlink, TopRemove, UnlockObsolete, Unlock
    <3>4. CASE ResetBuffer(t) /\ ~Retry(t)
      BY <1>1, <3>4 DEF ResetBuffer
    <3> QED
      BY <1>19, <3>1, <3>2, <3>3, <3>4
  <2> QED
    BY <1>1, <2>1 DEF Room
<1>20. CASE ReadLeaf(t)
  <2>1. /\ UNCHANGED <<todo, out, res, done, call>> /\ pc[t] = "readLeaf" /\ pc'[t] = "checkValue"
        /\ got' = [got EXCEPT ![t] = LeafLookup(leaf[at[t]], key(t))]
    BY <1>1, <1>20 DEF ReadLeaf
  <2>2. at[t] \in Node
    BY <2>1, NodeSets DEF LockInv, ThreadOK, AtOK
  <2>3. LeafLookup(leaf[at[t]], key(t)) \in Vals \cup {0, 1}
    <3>1. leaf[at[t]] \in LeafOf(Keys, Vals)
      BY <2>2 DEF TypeInv, NodeTypes
    <3> QED
      BY <3>1, LookupType DEF NoVal
  <2> QED
    BY <1>1, <2>1, <2>3 DEF Room
<1>21. CASE ScanLock(t)
  <2>1. /\ UNCHANGED <<todo, res, got, done, call>> /\ pc[t] = "scanLock" /\ pc'[t] = "scanNode"
        /\ out' = [out EXCEPT ![t] = SubSeq(out[t], 1, done[t])]
    BY <1>1, <1>21 DEF ScanLock
  <2>2. out[t] \in Seq(OutRec) /\ done[t] \in 0 .. Len(out[t])
    BY <1>1
  <2>3. SubSeq(out[t], 1, done[t]) \in Seq(OutRec) /\ Len(SubSeq(out[t], 1, done[t])) = done[t]
    BY <2>2
  <2>4. call[t].name = "scan" => done[t] <= call[t].val
    <3>1. call[t].name = "scan" => Len(out[t]) <= call[t].val
      BY <1>1, <2>1 DEF Room
    <3>2. Len(out[t]) \in Nat
      BY <2>2
    <3> QED
      BY <1>1, <1>5, <3>1, <3>2
  <2> QED
    BY <1>1, <2>1, <2>3, <2>4 DEF Room
<1>22. CASE ScanNode(t)
  <2>1. UNCHANGED <<todo, out, got, done, call>> /\ pc[t] = "scanNode"
    BY <1>22 DEF ScanNode
  <2>2. \/ pc'[t] = "return" /\ res' = [res EXCEPT ![t] = Len(out[t])]
        \/ pc'[t] \in {"scanUpgrade", "scanSort"} /\ res' = res /\ ~(Len(out[t]) >= call[t].val)
    BY <1>1, <1>22 DEF ScanNode
  <2>3. Len(out[t]) \in Nat
    BY <1>1
  <2>4. call[t].name = "scan"
    BY <1>1, <2>1 DEF Doing
  <2>5. Room(t)'
    BY <1>1, <1>5, <2>1, <2>2, <2>3, <2>4 DEF Room
  <2> QED
    BY <1>1, <2>1, <2>2, <2>3, <2>5
<1>23. CASE ScanSort(t) \/ ScanSorted(t) \/ ScanRelock(t) \/ ScanCheck(t) \/ ScanNext(t)
  <2>1. UNCHANGED <<todo, out, res, got, done, call>>
    BY <1>23 DEF ScanSort, ScanSorted, ScanRelock, ScanVersion, ScanCheck, ScanNext
  <2>2. Room(t)'
    BY <1>1, <1>23 DEF ScanSort, ScanSorted, ScanRelock, ScanVersion, ScanCheck, ScanNext, Room
  <2> QED
    BY <1>1, <2>1, <2>2
<1>24. CASE ScanAdvance(t)
  <2>1. /\ UNCHANGED <<todo, out, res, got, call>> /\ pc[t] = "scanAdvance" /\ pc'[t] = "scanNext"
        /\ done' = [done EXCEPT ![t] = Len(out[t])]
    BY <1>1, <1>24 DEF ScanAdvance
  <2>2. Len(out[t]) \in Nat
    BY <1>1
  <2> QED
    BY <1>1, <2>1, <2>2 DEF Room
<1>25. CASE ScanUnlock(t)
  BY <1>7, <1>25 DEF ScanUnlock
<1>26. CASE ScanRead(t)
  <2> DEFINE room == call[t].val - Len(out[t])
             n == at[t]
  <2>1. UNCHANGED <<todo, res, got, done, call>> /\ pc[t] = "scanRead"
    BY <1>26 DEF ScanRead
  <2>2. n \in Node /\ key(t) \in Nat
    BY <1>1, <2>1, NodeSets, CallKeys DEF LockInv, ThreadOK, AtOK
  <2>3. call[t].name = "scan" /\ Len(out[t]) \in Nat /\ room \in Nat /\ call[t].val \in Nat
    BY <1>1, <1>5, <2>1 DEF Doing, Room
  <2>4. CASE lkey[n] < key(t) /\ needSort[n]
    <3>1. out' = out /\ pc' = [pc EXCEPT ![t] = "exit"]
      BY <1>26, <2>4, Zenon DEF ScanRead
    <3> QED
      BY <1>1, <2>1, <3>1 DEF Room
  <2>5. CASE ~(lkey[n] < key(t) /\ needSort[n])
    <3>1. PICK sq \in SeqsRead(n), start \in 0 .. Count(leaf[n]) :
             LET recs == ScannedFrom(n, sq, start, key(t))
             IN  /\ pc' = [pc EXCEPT ![t] = IF Len(recs) >= room THEN "scanNext" ELSE "scanCheck"]
                 /\ out' = [out EXCEPT ![t] = out[t] \o SubSeq(recs, 1, IF Len(recs) >= room
                                                                     THEN room ELSE Len(recs))]
      BY <1>26, <2>5, Zenon DEF ScanRead
    <3> DEFINE recs == ScannedFrom(n, sq, start, key(t))
               m == IF Len(recs) >= room THEN room ELSE Len(recs)
               new == out[t] \o SubSeq(recs, 1, m)
    <3>2. recs \in Seq(OutRec)
      BY <2>2, ScannedAre
    <3>3. out' = [out EXCEPT ![t] = new] /\ pc'[t] \in {"scanNext", "scanCheck"}
      BY <1>1, <3>1
    <3> HIDE DEF recs
    <3>4. m \in 0 .. Len(recs) /\ m <= room
      BY <2>3, <3>2
    <3> HIDE DEF m
    <3>5. SubSeq(recs, 1, m) \in Seq(OutRec) /\ Len(SubSeq(recs, 1, m)) = m /\ m \in Nat
      BY <3>2, <3>4
    <3>6. new \in Seq(OutRec) /\ Len(new) = Len(out[t]) + m
      BY <1>1, <3>5
    <3> HIDE DEF new
    <3>7. Len(new) <= call[t].val /\ done[t] <= Len(new)
      BY <1>1, <2>3, <3>4, <3>5, <3>6
    <3> QED
      BY <1>1, <2>1, <3>3, <3>6, <3>7 DEF Room
  <2> QED
    BY <2>4, <2>5
<1> QED
  BY <1>7, <1>8, <1>9, <1>10, <1>11, <1>12, <1>13, <1>14, <1>15, <1>16, <1>17, <1>18, <1>19,
     <1>20, <1>21, <1>22, <1>23, <1>24, <1>25, <1>26, Zenon DEF Step

-----------------------------------------------------------------------------
(* What a step does to the nodes.                                          *)

(* The steps that change no node's range, link to the right, leaf, buffer   *)
(* or filter.                                                               *)
Quiet(t) ==
    \/ Invoke(t) \/ Return(t) \/ SeekLE(t) \/ WalkLeft(t) \/ WalkRight(t) \/ ReadLock(t)
    \/ ReadBloom(t) \/ CheckBloom(t) \/ ReadBuffer(t) \/ ReadLeaf(t) \/ CheckValue(t)
    \/ Upgrade(t) \/ StartSplit(t) \/ LockNext(t) \/ TopInsert(t) \/ UnlockLeft(t) \/ UnlockNext(t)
    \/ MergeCheck(t) \/ MergeRead(t) \/ MergeCas(t) \/ MergeFails(t) \/ TopRemove(t)
    \/ UnlockObsolete(t)
    \/ ScanLock(t) \/ ScanNode(t) \/ ScanUpgrade(t) \/ ScanUnlock(t) \/ ScanSort(t)
    \/ ScanSorted(t) \/ ScanRelock(t) \/ ScanRead(t) \/ ScanCheck(t) \/ ScanAdvance(t)
    \/ ScanNext(t) \/ Unlock(t)

(* The other ones. *)
Writes(t) ==
    \/ InsertToBuffer(t) \/ InsertToLeaf(t) \/ FlushMLNodeBuffer(t) \/ Split(t) \/ SetHkey(t)
    \/ ResetBuffer(t) \/ RemoveLocked(t) \/ Merge(t) \/ Unlink(t)

(* Every step is one or the other. *)
LEMMA QuietOrWrites ==
    ASSUME NEW t \in Threads, Invoke(t) \/ Step(t)
    PROVE  Quiet(t) \/ Writes(t)
BY Zenon DEF Step, Quiet, Writes

(* A quiet step neither starts nor ends a change of a range or of a link. *)
LEMMA QuietData ==
    ASSUME PointerTypes, NEW t \in Threads, Quiet(t)
    PROVE  /\ UNCHANGED <<nodes, lkey, hkey, next, leaf, buf, bloom, filterOn, store>>
           /\ pc[t] \notin {"setHkey", "unlink"} /\ pc'[t] \notin {"setHkey", "unlink"}
           /\ pc'[t] \in OffList => pc[t] \in OffList /\ other'[t] = other[t]
           /\ pc[t] \in OffList /\ pc'[t] \notin OffList => UnlockObsolete(t)
<1>1. pc \in [Threads -> Pcs]
  BY DEF PointerTypes
<1> USE <1>1 DEF Goto, Hop, Retry, middle, content, sorting, shared, scans, locals, OffList
<1>2. CASE Invoke(t) \/ Return(t) \/ SeekLE(t) \/ WalkLeft(t) \/ WalkRight(t) \/ ReadLock(t)
  BY <1>2 DEF Invoke, Return, SeekLE, WalkLeft, WalkRight, ReadLock
<1>3. CASE ReadBloom(t) \/ CheckBloom(t) \/ ReadBuffer(t) \/ ReadLeaf(t) \/ CheckValue(t)
  BY <1>3 DEF ReadBloom, CheckBloom, ReadBuffer, ReadLeaf, CheckValue
<1>4. CASE Upgrade(t) \/ StartSplit(t) \/ LockNext(t) \/ TopInsert(t) \/ UnlockLeft(t) \/ UnlockNext(t)
  BY <1>4 DEF Upgrade, StartSplit, MustFlush, LockNext, TopInsert, UnlockLeft, UnlockNext
<1>5. CASE MergeCheck(t) \/ MergeRead(t) \/ MergeCas(t) \/ MergeFails(t) \/ TopRemove(t)
           \/ UnlockObsolete(t)
  BY <1>5 DEF MergeCheck, MergeRead, MergeCas, MergeFails, TopRemove, UnlockObsolete
<1>6. CASE \/ ScanLock(t) \/ ScanNode(t) \/ ScanUpgrade(t) \/ ScanUnlock(t) \/ ScanSort(t)
           \/ ScanSorted(t) \/ ScanRelock(t) \/ ScanCheck(t) \/ ScanAdvance(t) \/ ScanNext(t)
           \/ Unlock(t)
  BY <1>6 DEF ScanLock, ScanNode, ScanUpgrade, ScanUnlock, ScanSort, ScanSorted, ScanRelock,
              ScanVersion, ScanCheck, ScanAdvance, ScanNext, Unlock
<1>7. CASE ScanRead(t)
  <2>1. UNCHANGED shared /\ pc[t] = "scanRead"
    BY <1>7, Zenon DEF ScanRead
  <2>2. \/ pc' = [pc EXCEPT ![t] = "exit"] \/ pc' = [pc EXCEPT ![t] = "scanNext"]
        \/ pc' = [pc EXCEPT ![t] = "scanCheck"]
    BY <1>7, ScanReadGoes, Zenon
  <2> QED
    BY <2>1, <2>2
<1> QED
  BY <1>2, <1>3, <1>4, <1>5, <1>6, <1>7, Zenon DEF Quiet

(* Version words only grow, and no node comes back from obsolescence. *)
LEMMA LockWords ==
    ASSUME LockInv, NEW t \in Threads, Invoke(t) \/ Step(t)
    PROVE  \A m \in Node : /\ lock'[m] \in Nat /\ lock'[m] >= lock[m]
                           /\ isObsolete(lock[m]) => isObsolete(lock'[m])
                           /\ isObsolete(lock'[m]) =>
                                 isObsolete(lock[m]) \/ (UnlockObsolete(t) /\ m = other[t])
<1>1. PointerTypes /\ lock \in [Node -> Nat] /\ ThreadOK(t)
  BY DEF LockInv, PointerTypes
<1>2. \A w \in Nat : /\ w + 2 \in Nat /\ w + 3 \in Nat /\ w + 2 >= w /\ (isObsolete(w) <=> isObsolete(w + 2))
                     /\ w + 3 >= w
  BY DEF isObsolete
<1>3. SUFFICES \/ lock' = lock
               \/ \E n \in Node : lock' = [lock EXCEPT ![n] = lock[n] + 2]
               \/ /\ UnlockObsolete(t) /\ other[t] \in Node /\ ~isObsolete(lock[other[t]])
                  /\ lock' = [lock EXCEPT ![other[t]] = lock[other[t]] + 3]
  <2>1. CASE lock' = lock
    BY <1>1, <2>1
  <2>2. CASE \E n \in Node : lock' = [lock EXCEPT ![n] = lock[n] + 2]
    BY <1>1, <1>2, <2>2
  <2>3. CASE /\ UnlockObsolete(t) /\ other[t] \in Node /\ ~isObsolete(lock[other[t]])
             /\ lock' = [lock EXCEPT ![other[t]] = lock[other[t]] + 3]
    BY <1>1, <1>2, <2>3
  <2> QED
    BY <1>3, <2>1, <2>2, <2>3
<1> USE DEF Goto, Hop, Retry, middle, content, sorting, shared, scans, locals
<1>4. /\ pc[t] \notin {"idle", "seek", "null", "return", "exit"} => at[t] \in Node
      /\ pc[t] \in OtherHeld => other[t] \in Node /\ ~isObsolete(lock[other[t]])
  BY <1>1, NodeSets DEF ThreadOK, AtOK, OtherHeldOK, Live
<1>5. CASE Invoke(t) \/ Return(t) \/ SeekLE(t) \/ WalkLeft(t) \/ WalkRight(t) \/ ReadLock(t)
           \/ ReadBloom(t) \/ CheckBloom(t) \/ ReadBuffer(t) \/ ReadLeaf(t) \/ CheckValue(t)
           \/ StartSplit(t) \/ TopInsert(t) \/ ScanLock(t) \/ ScanNode(t) \/ ScanRelock(t)
           \/ ScanRead(t) \/ ScanCheck(t) \/ ScanAdvance(t) \/ ScanNext(t)
           \/ MergeCheck(t) \/ MergeRead(t) \/ MergeFails(t) \/ TopRemove(t)
  BY <1>5 DEF Invoke, Return, SeekLE, WalkLeft, WalkRight, ReadLock, ReadBloom, CheckBloom, ReadBuffer,
              ReadLeaf, CheckValue, StartSplit, TopInsert, ScanLock, ScanNode, ScanRelock, ScanRead,
              ScanCheck, ScanAdvance, ScanNext, ScanVersion, MergeCheck, MergeRead, MergeFails, TopRemove
<1>6. CASE Writes(t)
  BY <1>6 DEF Writes, InsertToBuffer, InsertToLeaf, FlushMLNodeBuffer, Split, SetHkey, ResetBuffer,
              RemoveLocked, Merge, Unlink
<1>7. CASE Upgrade(t) \/ ScanUpgrade(t) \/ ScanSort(t)
  BY <1>4, <1>7 DEF Upgrade, ScanUpgrade, ScanSort, UpgradedWord
<1>8. CASE Unlock(t) \/ UnlockLeft(t) \/ ScanUnlock(t) \/ ScanSorted(t)
  BY <1>4, <1>8 DEF Unlock, UnlockLeft, ScanUnlock, ScanSorted, UnlockedWord
<1>9. CASE UnlockNext(t)
  BY <1>4, <1>9 DEF UnlockNext, UnlockedWord, OtherHeld
<1>10. CASE UnlockObsolete(t)
  BY <1>4, <1>10 DEF UnlockObsolete, ObsoleteWord, OtherHeld
<1>11. CASE LockNext(t)
  <2>1. next[at[t]] \in Node
    <3>1. at[t] \in Linked \ {DummyTail}
      BY <1>11, HeldNodes DEF LockNext, AtHeld
    <3> QED
      BY <3>1, NodeSets DEF LockInv, ListOK
  <2> QED
    BY <1>11, <2>1 DEF LockNext, UpgradedWord
<1>12. CASE MergeCas(t)
  <2>1. other[t] \in Node
    <3>1. at[t] \in Linked \ {DummyTail} /\ other[t] = next[at[t]]
      BY <1>1, <1>12, HeldNodes DEF MergeCas, AtHeld, ThreadOK, NeighbourOK
    <3> QED
      BY <3>1, NodeSets DEF LockInv, ListOK
  <2> QED
    BY <1>12, <2>1 DEF MergeCas, UpgradedWord
<1> QED
  BY QuietOrWrites, <1>5, <1>6, <1>7, <1>8, <1>9, <1>10, <1>11, <1>12, Zenon DEF Quiet

(* A quiet step adds no node to the list and leaves all ranges alone. *)
LEMMA QuietNodes ==
    ASSUME LockInv, ResultTypes, NEW t \in Threads, Quiet(t)
    PROVE  /\ Linked' \subseteq Linked /\ Allocated' = Allocated
           /\ \A n : (\A k : Owns(n, k)' <=> Owns(n, k)) /\ (\A k : InRange(n, k)' <=> InRange(n, k))
<1>1. PointerTypes
  BY DEF LockInv
<1>2. Invoke(t) \/ Step(t)
  BY Zenon DEF Quiet, Step
<1>3. OthersRest(t)
  BY <1>1, <1>2, OnlyItsLocals
<1>4. /\ UNCHANGED <<nodes, lkey, hkey, next, leaf, buf, bloom, filterOn, store>>
      /\ pc[t] \notin {"setHkey", "unlink"} /\ pc'[t] \notin {"setHkey", "unlink"}
      /\ pc'[t] \in OffList => pc[t] \in OffList /\ other'[t] = other[t]
      /\ pc[t] \in OffList /\ pc'[t] \notin OffList => UnlockObsolete(t)
  BY <1>1, QuietData
<1>5. ASSUME NEW n \in Linked' PROVE n \in Linked
  <2>1. n \in Allocated /\ n \in Node /\ ~isObsolete(lock'[n])
    BY <1>4, NodeSets DEF Linked, Live, Allocated
  <2>2. n \in Live
    BY <1>2, <2>1, LockWords DEF Live, Allocated
  <2>3. ASSUME NEW u \in Threads, pc[u] \in OffList PROVE other[u] # n
    <3>1. CASE u # t
      BY <1>3, <2>3, <3>1 DEF OthersRest, Linked
    <3>2. CASE u = t /\ pc'[t] \in OffList
      BY <1>4, <2>3, <3>2 DEF Linked
    <3>3. CASE u = t /\ UnlockObsolete(t)
      <4>1. lock' = [lock EXCEPT ![other[t]] = ObsoleteWord(lock[other[t]])] /\ pc[t] = "unlockObsolete"
        BY <3>3 DEF UnlockObsolete, Goto
      <4>2. other[t] \in Node /\ isLocked(lock[other[t]]) /\ ~isObsolete(lock[other[t]])
        BY <4>1, HeldNodes DEF LockInv, ThreadOK, OtherHeldOK, OtherHeld, Live
      <4>3. isObsolete(lock'[other[t]])
        BY <1>1, <4>1, <4>2, ObsoleteSetsObsoleteBit DEF PointerTypes
      <4> QED
        BY <2>1, <3>3, <4>3
    <3> QED
      BY <1>4, <2>3, <3>1, <3>2, <3>3
  <2> QED
    BY <2>2, <2>3 DEF Linked
<1>6. \A n : Changing(n, {"setHkey"})' <=> Changing(n, {"setHkey"})
  BY <1>3, <1>4 DEF Changing, OthersRest
<1>7. \A n, k : Owns(n, k)' <=> Owns(n, k)
  BY <1>4, <1>6 DEF Owns, Limit
<1>8. \A n, k : InRange(n, k)' <=> InRange(n, k)
  BY <1>4 DEF InRange
<1> QED
  BY <1>4, <1>5, <1>7, <1>8 DEF Allocated

(* A flush of records outside the node's range is a step that meets a       *)
(* defect.                                                                  *)
LEMMA OutlierIsHarm ==
    ASSUME NEW t \in Threads, MustFlush(t), Harm(t) = "none"
    PROVE  \A k \in DOMAIN buf[at[t]] : InRange(at[t], k)
BY Zenon DEF Harm

(* The number of records of a leaf. *)
LEMMA CountIs ==
    ASSUME NodeTypes, NEW n \in Node
    PROVE  /\ leaf[n] \in LeafOf(Keys, Vals)
           /\ Count(leaf[n]) \in Nat /\ Count(leaf[n]) <= LeafCapacity
           /\ EmptyBitSet(leaf[n]) = {} => Count(leaf[n]) = LeafCapacity
<1>1. leaf[n] \in LeafOf(Keys, Vals)
  BY DEF NodeTypes
<1>2. /\ Count(leaf[n]) \in Nat /\ EmptyBitSet(leaf[n]) \subseteq Slot
      /\ Count(leaf[n]) + Cardinality(EmptyBitSet(leaf[n])) = LeafCapacity
  BY <1>1, LeafSets
<1>3. Cardinality(EmptyBitSet(leaf[n])) \in Nat
  BY <1>2, SlotsFinite
<1>4. EmptyBitSet(leaf[n]) = {} => Cardinality(EmptyBitSet(leaf[n])) = 0
  BY FS_EmptySet
<1> QED
  BY <1>1, <1>2, <1>3, <1>4, LeafCapacityAssumption

(* A node is split only when its leaf has something to split, and with the  *)
(* whole buffer as the batch.                                               *)
LEMMA StartSplitBatch ==
    ASSUME LockInv, TypeInv, SnapshotInv, BuffersClean, NEW t \in Threads, StartSplit(t),
           harm' = Harm(t)
    PROVE  BatchOK(t)'
<1> DEFINE n == at[t]
<1>1. /\ PointerTypes /\ NodeTypes /\ pc \in [Threads -> Pcs]
      /\ todo \in [Threads -> Seq(RecOf(Keys, Vals))]
  BY DEF LockInv, PointerTypes, TypeInv, ResultTypes
<1>2. /\ pc' = [pc EXCEPT ![t] = "lockNext"] /\ at' = at
      /\ UNCHANGED <<lkey, hkey, leaf, buf>>
      /\ \/ MustFlush(t) /\ ~FitsLeaf(n) /\ todo' = [todo EXCEPT ![t] = ToMerge(t)]
         \/ /\ pc[t] = "insertLocked" /\ ~Buffered(n) /\ ~LeafCanInsert(leaf[n], key(t))
            /\ todo' = [todo EXCEPT ![t] = <<Record(t)>>]
  BY DEF StartSplit, shared, middle, content
<1>3. n \in Node /\ n \in Allocated
  BY <1>2, HeldNodes DEF MustFlush, AtHeld
<1>4. leaf[n] \in LeafOf(Keys, Vals) /\ Count(leaf[n]) \in Nat /\ Count(leaf[n]) <= LeafCapacity
  BY <1>1, <1>3, CountIs
<1>5. pc[t] = "insertLocked" => InRange(n, key(t)) /\ call[t].name = "insert"
  BY DEF SnapshotInv, Snapshot, TypeInv, Doing
<1>6. CASE MustFlush(t) /\ ~FitsLeaf(n) /\ todo' = [todo EXCEPT ![t] = ToMerge(t)]
  <2>1. todo'[t] = ToMerge(t)
    BY <1>1, <1>6
  <2>2. DistinctRecs(ToMerge(t)) /\ Len(ToMerge(t)) <= BatchSize /\ WithBuffer
    BY <1>6, ToMergeIs
  <2>3. /\ call[t].name = "insert" => KeysIn(ToMerge(t)) = DOMAIN buf[n] \cup {key(t)}
        /\ call[t].name # "insert" => KeysIn(ToMerge(t)) = DOMAIN buf[n]
    BY <1>6, ToMergeIs
  <2>4. Count(leaf[n]) >= 2
    <3> DEFINE N == Cardinality(DOMAIN buf[n])
    <3>1. N \in Nat /\ N <= BufferCapacity
      BY <1>1, <1>3, KeysAre DEF NodeTypes, IsBuffer
    <3>2. ~(N + Count(leaf[n]) <= LeafCapacity - 1)
      BY <1>6 DEF FitsLeaf
    <3>3. 1 + BufferCapacity <= LeafCapacity \div 2 /\ BufferCapacity \in Nat
      BY <2>2, CapacityAssumption
    <3> HIDE DEF N
    <3> QED
      BY <1>4, <3>1, <3>2, <3>3, LeafCapacityAssumption
  <2>5. ASSUME harm' = "none" PROVE \A k \in KeysIn(ToMerge(t)) : InRange(n, k)
    <3>1. \A k \in DOMAIN buf[n] : InRange(n, k)
      BY <1>6, <2>5, OutlierIsHarm
    <3>2. call[t].name = "insert" => InRange(n, key(t))
      BY <1>5, <1>6 DEF MustFlush, TypeInv, Doing
    <3> QED
      BY <2>3, <3>1, <3>2
  <2>6. DOMAIN buf[n] \subseteq KeysIn(ToMerge(t))
    BY <2>3
  <2>7. harm' = "none" => \A k \in KeysIn(todo'[t]) : InRange(at[t], k)'
    BY <1>2, <2>1, <2>5 DEF InRange
  <2> QED
    BY <1>1, <1>2, <2>1, <2>2, <2>4, <2>6, <2>7 DEF BatchOK
<1>7. CASE /\ pc[t] = "insertLocked" /\ ~Buffered(n) /\ ~LeafCanInsert(leaf[n], key(t))
           /\ todo' = [todo EXCEPT ![t] = <<Record(t)>>]
  <2>1. todo'[t] = <<Record(t)>>
    BY <1>1, <1>7
  <2>2. Record(t).key = key(t)
    BY <1>1, <1>5, <1>7, RecordIs
  <2>3. KeysIn(<<Record(t)>>) = {key(t)} /\ DistinctRecs(<<Record(t)>>) /\ Len(<<Record(t)>>) = 1
    BY <2>2 DEF KeysIn, DistinctRecs
  <2>4. 1 <= BatchSize
    BY CapacityAssumption DEF BatchSize
  <2>5. Count(leaf[n]) >= 2
    BY <1>1, <1>3, <1>7, CountIs, LeafCapacityAssumption DEF LeafCanInsert
  <2>6. DOMAIN buf[n] = {}
    BY <1>3, <1>7, NoBufIs DEF BuffersClean
  <2> QED
    BY <1>1, <1>2, <1>5, <1>7, <2>1, <2>3, <2>4, <2>5, <2>6 DEF BatchOK, InRange
<1> QED
  BY <1>2, <1>6, <1>7

-----------------------------------------------------------------------------
(* What a thread knows of its node.                                        *)

(* The range of an allocated node is changed only by its holder, and its    *)
(* low key never.                                                           *)
LEMMA RangesStable ==
    ASSUME LockInv, NEW t \in Threads, Invoke(t) \/ Step(t)
    PROVE  \A n \in Allocated : lkey'[n] = lkey[n] /\ (Holds(t, n) \/ hkey'[n] = hkey[n])
<1>1. PointerTypes
  BY DEF LockInv
<1> USE DEF Goto, middle, content, locals
<1>2. CASE Quiet(t)
  BY <1>1, <1>2, QuietData
<1>3. CASE InsertToBuffer(t) \/ InsertToLeaf(t) \/ FlushMLNodeBuffer(t) \/ ResetBuffer(t)
           \/ RemoveLocked(t) \/ Unlink(t)
  <2>1. UNCHANGED <<lkey, hkey>>
    BY <1>3 DEF InsertToBuffer, InsertToLeaf, FlushMLNodeBuffer, ResetBuffer, RemoveLocked, Unlink
  <2> QED
    BY <2>1
<1>4. CASE Split(t)
  <2>1. \E l, h : /\ lkey' = [lkey EXCEPT ![nodes + 1] = l]
                  /\ hkey' = [hkey EXCEPT ![nodes + 1] = h]
    BY <1>4, Zenon DEF Split
  <2>2. nodes + 1 \notin Allocated
    BY NodeSets DEF Allocated
  <2> QED
    BY <1>1, <2>1, <2>2
<1>5. CASE SetHkey(t) \/ Merge(t)
  <2>1. UNCHANGED lkey /\ (\E h : hkey' = [hkey EXCEPT ![at[t]] = h]) /\ pc[t] \in {"setHkey", "merge"}
    <3>1. CASE SetHkey(t)
      BY <3>1, Zenon DEF SetHkey
    <3>2. CASE Merge(t)
      BY <3>2, Zenon DEF Merge
    <3> QED
      BY <1>5, <3>1, <3>2
  <2>2. Holds(t, at[t])
    BY <2>1, HeldNodes DEF AtHeld
  <2> QED
    BY <1>1, <2>1, <2>2
<1> QED
  BY QuietOrWrites, <1>2, <1>3, <1>4, <1>5 DEF Writes

(* A version word never comes back, so a thread that still finds the word   *)
(* it read still finds its key in the node's range.                         *)
LEMMA SnapshotStep ==
    ASSUME LockInv, ResultTypes, SnapshotInv, NEW t \in Threads, Invoke(t) \/ Step(t)
    PROVE  SnapshotInv'
<1>1. /\ PointerTypes /\ pc \in [Threads -> Pcs] /\ at \in [Threads -> Node \cup {Null}]
      /\ lock \in [Node -> Nat] /\ ver \in [Threads -> Nat] /\ ThreadOK(t)
  BY DEF LockInv, PointerTypes
<1>2. OthersRest(t)
  BY <1>1, OnlyItsLocals
<1>3. \A n \in Allocated : lkey'[n] = lkey[n] /\ (Holds(t, n) \/ hkey'[n] = hkey[n])
  BY RangesStable
<1>4. \A m \in Node : lock'[m] \in Nat /\ lock'[m] >= lock[m]
  BY LockWords
<1>5. \A n \in Node : \A u \in Threads : Holds(u, n) => isLocked(lock[n]) /\ (Holds(t, n) => u = t)
  BY DEF LockInv, Exclusive, ThreadOK, AtHeldOK, OtherHeldOK, Holds
<1>6. Allocated \subseteq Node
  BY NodeSets
<1>7. ASSUME NEW u \in Threads \ {t} PROVE Snapshot(u)'
  <2>1. /\ pc'[u] = pc[u] /\ at'[u] = at[u] /\ ver'[u] = ver[u] /\ key(u)' = key(u)
        /\ Snapshot(u) /\ ThreadOK(u)
    BY <1>2 DEF OthersRest, key, SnapshotInv, LockInv
  <2>2. CASE pc[u] \in {"bloom", "checkBloom", "readBuffer", "readLeaf", "checkValue", "upgrade"}
    <3>1. at[u] \in Allocated /\ at[u] \in Node
      BY <1>6, <2>1, <2>2 DEF ThreadOK, AtOK
    <3>2. Free(ver[u]) /\ ver[u] <= lock[at[u]] /\ (lock[at[u]] = ver[u] => InRange(at[u], key(u)))
      BY <2>1, <2>2 DEF Snapshot
    <3>3. lock'[at[u]] >= lock[at[u]] /\ lock'[at[u]] \in Nat /\ lock[at[u]] \in Nat /\ ver[u] \in Nat
      BY <1>1, <1>4, <3>1
    <3>4. ver[u] <= lock'[at[u]] /\ (lock'[at[u]] = ver[u] => lock[at[u]] = ver[u])
      BY <3>2, <3>3
    <3>5. lock[at[u]] = ver[u] => lkey'[at[u]] = lkey[at[u]] /\ hkey'[at[u]] = hkey[at[u]]
      BY <1>3, <1>5, <3>1, <3>2 DEF Free
    <3>6. lock'[at[u]] = ver[u] => InRange(at[u], key(u))'
      BY <2>1, <3>2, <3>4, <3>5 DEF InRange
    <3> QED
      BY <2>1, <2>2, <3>2, <3>4, <3>6 DEF Snapshot
  <2>3. CASE pc[u] \in {"insertLocked", "removeLocked"}
    <3>1. at[u] \in Allocated /\ at[u] \in Node /\ Holds(u, at[u])
      BY <2>3, HeldNodes DEF AtHeld
    <3>2. lkey'[at[u]] = lkey[at[u]] /\ hkey'[at[u]] = hkey[at[u]]
      BY <1>3, <1>5, <3>1
    <3> QED
      BY <2>1, <2>3, <3>2 DEF Snapshot, InRange
  <2> QED
    BY <2>1, <2>2, <2>3 DEF Snapshot
<1>8. Snapshot(t)'
  <2> USE DEF Goto, Hop, Retry, middle, content, sorting, shared, scans, locals
  <2>1. Snapshot(t) /\ (pc[t] \notin {"idle", "seek", "null", "return", "exit"} => at[t] \in Node)
    BY <1>1, <1>6 DEF SnapshotInv, ThreadOK, AtOK
  <2>2. CASE ReadLock(t)
    <3>1. CASE Retry(t)
      BY <1>1, <3>1 DEF Snapshot
    <3>2. CASE ~Retry(t)
      <4>1. /\ ver' = [ver EXCEPT ![t] = lock[at[t]]] /\ Free(lock[at[t]])
            /\ InRange(at[t], key(t)) /\ UNCHANGED <<call, at, lkey, hkey, lock>>
            /\ pc[t] = "readLock" /\ pc'[t] \notin {"insertLocked", "removeLocked"}
        BY <1>1, <2>2, <3>2 DEF ReadLock, Free
      <4> QED
        BY <1>1, <2>1, <4>1 DEF Snapshot, InRange, key
    <3> QED
      BY <3>1, <3>2
  <2>3. CASE ReadBloom(t) \/ CheckBloom(t) \/ ReadBuffer(t) \/ ReadLeaf(t) \/ CheckValue(t)
    BY <1>1, <2>1, <2>3
    DEF ReadBloom, CheckBloom, ReadBuffer, ReadLeaf, CheckValue, Snapshot, InRange, key
  <2>4. CASE Upgrade(t)
    <3>1. CASE Retry(t)
      BY <1>1, <3>1 DEF Snapshot
    <3>2. CASE ~Retry(t)
      BY <1>1, <2>1, <2>4, <3>2 DEF Upgrade, Snapshot, InRange, key
    <3> QED
      BY <3>1, <3>2
  <2>5. SUFFICES ASSUME ~(\/ ReadLock(t) \/ ReadBloom(t) \/ CheckBloom(t) \/ ReadBuffer(t)
                          \/ ReadLeaf(t) \/ CheckValue(t) \/ Upgrade(t))
                 PROVE  pc'[t] \notin {"bloom", "checkBloom", "readBuffer", "readLeaf", "checkValue",
                                       "upgrade", "insertLocked", "removeLocked"}
    BY <2>2, <2>3, <2>4 DEF Snapshot
  <2>6. CASE Invoke(t) \/ Return(t) \/ SeekLE(t) \/ WalkLeft(t) \/ WalkRight(t) \/ StartSplit(t)
             \/ LockNext(t) \/ TopInsert(t) \/ UnlockLeft(t) \/ UnlockNext(t)
    BY <1>1, <2>6 DEF Invoke, Return, SeekLE, WalkLeft, WalkRight, StartSplit, LockNext, TopInsert,
                      UnlockLeft, UnlockNext
  <2>7. CASE MergeCheck(t) \/ MergeRead(t) \/ MergeCas(t) \/ MergeFails(t) \/ TopRemove(t)
             \/ UnlockObsolete(t) \/ Unlock(t)
    BY <1>1, <2>7 DEF MergeCheck, MergeRead, MergeCas, MergeFails, TopRemove, UnlockObsolete, Unlock
  <2>8. CASE \/ ScanLock(t) \/ ScanNode(t) \/ ScanUpgrade(t) \/ ScanUnlock(t) \/ ScanSort(t)
             \/ ScanSorted(t) \/ ScanRelock(t) \/ ScanCheck(t) \/ ScanAdvance(t) \/ ScanNext(t)
    BY <1>1, <2>8 DEF ScanLock, ScanNode, ScanUpgrade, ScanUnlock, ScanSort, ScanSorted, ScanRelock,
                      ScanVersion, ScanCheck, ScanAdvance, ScanNext
  <2>9. CASE ScanRead(t)
    <3>1. \/ pc' = [pc EXCEPT ![t] = "exit"] \/ pc' = [pc EXCEPT ![t] = "scanNext"]
          \/ pc' = [pc EXCEPT ![t] = "scanCheck"]
      BY <2>9, ScanReadGoes, Zenon
    <3> QED
      BY <1>1, <3>1
  <2>10. CASE Writes(t)
    <3>1. CASE InsertToBuffer(t) \/ InsertToLeaf(t) \/ FlushMLNodeBuffer(t) \/ ResetBuffer(t)
      BY <1>1, <3>1 DEF InsertToBuffer, InsertToLeaf, FlushMLNodeBuffer, ResetBuffer
    <3>2. CASE Split(t) \/ SetHkey(t) \/ RemoveLocked(t) \/ Merge(t) \/ Unlink(t)
      BY <1>1, <3>2 DEF Split, SetHkey, RemoveLocked, Merge, Unlink
    <3> QED
      BY <2>10, <3>1, <3>2 DEF Writes
  <2> QED
    BY QuietOrWrites, <2>5, <2>6, <2>7, <2>8, <2>9, <2>10, Zenon DEF Quiet
<1> QED
  BY <1>7, <1>8 DEF SnapshotInv

-----------------------------------------------------------------------------
(* Ranges, leaves, buffers and filters.                                    *)

(* The loaded leaf is covered by its filter, or the filter is off. *)
LEMMA InitNodeInv == Init => RangeInv /\ SnapshotInv /\ NodeInv
<1> SUFFICES ASSUME Init PROVE RangeInv /\ SnapshotInv /\ NodeInv
  OBVIOUS
<1>0. /\ work \in Workloads /\ IsWorkload(work)
      /\ work.loaded \in Seq(RecOf(Keys, Vals)) /\ Len(work.loaded) <= LeafCapacity
  <2>1. work \in Workloads
    BY DEF Init
  <2>2. IsWorkload(work)
    BY <2>1, WorkloadsAssumption
  <2> QED
    BY <2>1, <2>2 DEF IsWorkload, RecOf
<1>1. LockInv /\ TypeInv
  BY InitLockInv, InitTypeInv
<1>2. Linked = {HeadNode, DummyTail} /\ HeadNode \in Node /\ DummyTail \in Node /\ HeadNode # DummyTail
  BY InitWordIsFree, BoundsAssumption DEF Init, Linked, Live, OffList, HeadNode, DummyTail, Node
<1>3. SnapshotInv /\ \A t \in Threads : BatchOK(t)
  BY DEF Init, SnapshotInv, Snapshot, BatchOK
<1>4. BuffersClean
  <2>1. \A n \in Node : buf[n] = NoBuf
    BY DEF Init
  <2> QED
    BY <2>1 DEF BuffersClean
<1>5. /\ lkey[HeadNode] = 1 /\ hkey[HeadNode] = MaxKey /\ lkey[DummyTail] = MaxKey
      /\ next[HeadNode] = DummyTail /\ leaf[DummyTail] = EmptyLeaf
      /\ leaf[HeadNode] = FillEmptySlots(EmptyLeaf, work.loaded)
      /\ buf[HeadNode] = NoBuf /\ buf[DummyTail] = NoBuf
      /\ ~work.filtersOff => bloom[HeadNode] = KeysIn(work.loaded)
      /\ work.filtersOff => filterOn[HeadNode] = FALSE
      /\ \A n : Limit(n) = hkey[n]
  <2>1. \A n : ~Changing(n, {"setHkey"})
    BY DEF Init, Changing
  <2> QED
    BY <1>2, <2>1 DEF Init, MinKey, KeysIn, Limit, HeadNode, DummyTail
<1>6. RangeInv
  <2>1. 1 < MaxKey
    <3>1. PICK k \in Keys : TRUE
      BY KeysAssumption
    <3> QED
      BY <3>1, KeysAre
  <2> QED
    BY <1>2, <1>5, <2>1 DEF RangeInv
<1>7. /\ leaf[HeadNode] \in LeafOf(Keys, Vals) /\ Distinct(leaf[HeadNode])
      /\ KeysOf(leaf[HeadNode]) = KeysIn(work.loaded)
  <2>1. DistinctRecs(work.loaded)
    BY <1>0 DEF IsWorkload, DistinctRecs
  <2>2. /\ KeysOf(EmptyLeaf) = {} /\ Distinct(EmptyLeaf) /\ EmptyLeaf \in LeafOf(Keys, Vals)
        /\ Cardinality(EmptyBitSet(EmptyLeaf)) = LeafCapacity
    BY EmptyLeafIs
  <2>3. KeysOf(FillEmptySlots(EmptyLeaf, work.loaded)) = KeysOf(EmptyLeaf) \cup KeysIn(work.loaded)
    BY <1>0, <2>2, FillIs
  <2>4. Distinct(FillEmptySlots(EmptyLeaf, work.loaded))
    <3>1. KeysOf(EmptyLeaf) \cap KeysIn(work.loaded) = {}
      BY <2>2
    <3> QED
      BY <1>0, <2>1, <2>2, <3>1, FillIs
  <2>5. leaf[HeadNode] \in LeafOf(Keys, Vals)
    BY <1>1, <1>2 DEF TypeInv, NodeTypes
  <2> QED
    BY <1>5, <2>2, <2>3, <2>4, <2>5
<1>8. KeysIn(work.loaded) \subseteq Keys
  <2>1. \A r \in RecOf(Keys, Vals) : r.key \in Keys
    BY DEF RecOf
  <2> QED
    BY <1>0, <2>1 DEF KeysIn
<1>9. KeysOf(leaf[DummyTail]) = {} /\ Distinct(leaf[DummyTail]) /\ DOMAIN buf[DummyTail] = {}
      /\ DOMAIN buf[HeadNode] = {}
  BY <1>5, EmptyLeafIs, NoBufIs
<1>10. LeavesInRange
  <2>1. \A k \in KeysOf(leaf[HeadNode]) : Owns(HeadNode, k)
    BY <1>5, <1>7, <1>8, KeysAre DEF Owns
  <2> QED
    BY <1>2, <1>7, <1>9, <2>1 DEF LeavesInRange
<1>11. FiltersCover
  <2>1. filterOn[HeadNode] => \A k \in KeysOf(leaf[HeadNode]) \cup DOMAIN buf[HeadNode] : k \in bloom[HeadNode]
    <3>1. filterOn[HeadNode] => ~work.filtersOff
      BY <1>5
    <3> QED
      BY <1>5, <1>7, <1>9, <3>1
  <2> QED
    BY <1>2, <1>9, <2>1 DEF FiltersCover
<1> QED
  BY <1>3, <1>4, <1>6, <1>10, <1>11 DEF NodeInv

(* A quiet step leaves the nodes as they are. *)
LEMMA QuietInv ==
    ASSUME LockInv, TypeInv, RangeInv, SnapshotInv, NodeInv, NEW t \in Threads, Quiet(t),
           harm = "none", harm' = Harm(t)
    PROVE  RangeInv' /\ NodeInv'
<1>1. PointerTypes /\ ResultTypes /\ pc \in [Threads -> Pcs]
  BY DEF LockInv, PointerTypes, TypeInv
<1>2. Invoke(t) \/ Step(t)
  BY Zenon DEF Quiet, Step
<1>3. OthersRest(t)
  BY <1>1, <1>2, OnlyItsLocals
<1>4. UNCHANGED <<nodes, lkey, hkey, next, leaf, buf, bloom, filterOn>>
  BY <1>1, QuietData
<1>5. /\ Linked' \subseteq Linked /\ Allocated' = Allocated
      /\ \A n : (\A k : Owns(n, k)' <=> Owns(n, k)) /\ (\A k : InRange(n, k)' <=> InRange(n, k))
  BY <1>1, QuietNodes
<1>6. RangeInv'
  BY <1>4, <1>5 DEF RangeInv
<1>7. LeavesInRange'
  BY <1>4, <1>5 DEF NodeInv, LeavesInRange
<1>8. BuffersClean'
  BY <1>4, <1>5 DEF NodeInv, BuffersClean, Buffered
<1>9. FiltersCover'
  BY <1>4, <1>5 DEF NodeInv, FiltersCover
<1>10. ASSUME NEW u \in Threads \ {t} PROVE BatchOK(u)'
  <2>1. /\ pc'[u] = pc[u] /\ at'[u] = at[u] /\ todo'[u] = todo[u] /\ BatchOK(u)
    BY <1>3 DEF OthersRest, NodeInv
  <2> QED
    BY <1>4, <2>1 DEF BatchOK, InRange
<1>11. BatchOK(t)'
  <2>1. CASE StartSplit(t)
    BY <2>1, StartSplitBatch DEF NodeInv
  <2>2. CASE LockNext(t)
    <3>1. /\ pc[t] = "lockNext" /\ UNCHANGED <<at, todo>>
      BY <2>2 DEF LockNext, Goto
    <3>2. Distinct(leaf[at[t]])
      BY <3>1, HeldNodes DEF NodeInv, LeavesInRange, AtHeld
    <3> QED
      BY <1>4, <3>1, <3>2 DEF NodeInv, BatchOK, InRange
  <2>3. SUFFICES ASSUME ~StartSplit(t), ~LockNext(t) PROVE pc'[t] \notin {"lockNext", "split"}
    BY <2>1, <2>2 DEF BatchOK
  <2> USE DEF Goto, Hop, Retry, middle, content, sorting, shared, scans, locals
  <2>4. CASE Invoke(t) \/ Return(t) \/ SeekLE(t) \/ WalkLeft(t) \/ WalkRight(t) \/ ReadLock(t)
             \/ ReadBloom(t) \/ CheckBloom(t) \/ ReadBuffer(t) \/ ReadLeaf(t) \/ CheckValue(t)
    BY <1>1, <2>4 DEF Invoke, Return, SeekLE, WalkLeft, WalkRight, ReadLock, ReadBloom, CheckBloom,
                      ReadBuffer, ReadLeaf, CheckValue
  <2>5. CASE Upgrade(t) \/ TopInsert(t) \/ UnlockLeft(t) \/ UnlockNext(t) \/ MergeCheck(t) \/ MergeRead(t)
             \/ MergeCas(t) \/ MergeFails(t) \/ TopRemove(t) \/ UnlockObsolete(t) \/ Unlock(t)
    BY <1>1, <2>5 DEF Upgrade, TopInsert, UnlockLeft, UnlockNext, MergeCheck, MergeRead, MergeCas,
                      MergeFails, TopRemove, UnlockObsolete, Unlock
  <2>6. CASE \/ ScanLock(t) \/ ScanNode(t) \/ ScanUpgrade(t) \/ ScanUnlock(t) \/ ScanSort(t)
             \/ ScanSorted(t) \/ ScanRelock(t) \/ ScanCheck(t) \/ ScanAdvance(t) \/ ScanNext(t)
    BY <1>1, <2>6 DEF ScanLock, ScanNode, ScanUpgrade, ScanUnlock, ScanSort, ScanSorted, ScanRelock,
                      ScanVersion, ScanCheck, ScanAdvance, ScanNext
  <2>7. CASE ScanRead(t)
    <3>1. \/ pc' = [pc EXCEPT ![t] = "exit"] \/ pc' = [pc EXCEPT ![t] = "scanNext"]
          \/ pc' = [pc EXCEPT ![t] = "scanCheck"]
      BY <2>7, ScanReadGoes, Zenon
    <3> QED
      BY <1>1, <3>1
  <2> QED
    BY <2>3, <2>4, <2>5, <2>6, <2>7, Zenon DEF Quiet
<1> QED
  BY <1>6, <1>7, <1>8, <1>9, <1>10, <1>11 DEF NodeInv

(* What a thread finds in the node that it has locked. *)
LEMMA Here ==
    ASSUME LockInv, TypeInv, NodeInv, harm = "none", NEW t \in Threads,
           pc[t] \in AtHeld \ {"setHkey", "unlink"}
    PROVE  /\ at[t] \in Node /\ at[t] \in Linked /\ at[t] \in Allocated /\ at[t] # DummyTail
           /\ Holds(t, at[t]) /\ isLocked(lock[at[t]])
           /\ leaf[at[t]] \in LeafOf(Keys, Vals) /\ Distinct(leaf[at[t]])
           /\ \A k : Owns(at[t], k) <=> InRange(at[t], k)
           /\ \A k \in KeysOf(leaf[at[t]]) : InRange(at[t], k)
           /\ filterOn[at[t]] => \A k \in KeysOf(leaf[at[t]]) \cup DOMAIN buf[at[t]] :
                                    InRange(at[t], k) => k \in bloom[at[t]]
           /\ hkey[at[t]] = lkey[next[at[t]]] /\ leafNext[at[t]] = next[at[t]]
           /\ next[at[t]] \in Linked /\ next[at[t]] \in Node
           /\ Count(leaf[at[t]]) \in Nat /\ Count(leaf[at[t]]) <= LeafCapacity
<1> DEFINE n == at[t]
<1>1. n \in Node /\ n \in Linked /\ n \in Allocated /\ n # DummyTail /\ Holds(t, n) /\ isLocked(lock[n])
  BY HeldNodes DEF LockInv, ThreadOK, AtHeldOK
<1>2. ~Changing(n, {"setHkey", "unlink"}) /\ ~Changing(n, {"unlink"}) /\ ~Changing(n, {"setHkey"})
  <2>1. ~Changing(n, {"setHkey", "unlink"}) /\ ~Changing(n, {"unlink"})
    BY <1>1, HeldIsUnchanging
  <2> QED
    BY <2>1 DEF Changing
<1>3. \A k : Owns(n, k) <=> InRange(n, k)
  BY <1>2 DEF Owns, Limit, InRange
<1>4. hkey[n] = lkey[next[n]] /\ leafNext[n] = next[n] /\ next[n] \in Linked /\ next[n] \in Node
  BY <1>1, <1>2, NodeSets DEF LockInv, RangesMeet, ListOK
<1>5. Distinct(leaf[n]) /\ \A k \in KeysOf(leaf[n]) : Owns(n, k)
  BY <1>1 DEF NodeInv, LeavesInRange
<1>6. filterOn[n] => \A k \in KeysOf(leaf[n]) \cup DOMAIN buf[n] : Owns(n, k) => k \in bloom[n]
  BY <1>1 DEF NodeInv, FiltersCover
<1>7. leaf[n] \in LeafOf(Keys, Vals) /\ Count(leaf[n]) \in Nat /\ Count(leaf[n]) <= LeafCapacity
  BY <1>1, CountIs DEF TypeInv
<1> QED
  BY <1>1, <1>3, <1>4, <1>5, <1>6, <1>7

(* A step that changes the leaf, the buffer or the filter of one node, and  *)
(* no range or link.                                                        *)
LEMMA OneNodeStep ==
    ASSUME LockInv, TypeInv, RangeInv, NodeInv, harm = "none", NEW t \in Threads, OthersRest(t),
           UNCHANGED <<nodes, lkey, hkey, next, lock, filterOn>>, at[t] \in Allocated,
           pc[t] \notin {"setHkey", "unlink"} \cup OffList,
           pc'[t] \notin {"setHkey", "unlink", "lockNext", "split"} \cup OffList,
           \A m \in Node \ {at[t]} : UNCHANGED <<leaf[m], buf[m], bloom[m]>>,
           harm' = "none" /\ at[t] \in Linked =>
               Distinct(leaf'[at[t]]) /\ \A k \in KeysOf(leaf'[at[t]]) : Owns(at[t], k),
           at[t] \in Linked /\ filterOn[at[t]] =>
               \A k \in KeysOf(leaf'[at[t]]) \cup DOMAIN buf'[at[t]] : Owns(at[t], k) => k \in bloom'[at[t]],
           ~Buffered(at[t]) => buf'[at[t]] = NoBuf,
           Holds(t, at[t]) \/ (leaf'[at[t]] = leaf[at[t]] /\ DOMAIN buf'[at[t]] \subseteq DOMAIN buf[at[t]])
    PROVE  RangeInv' /\ NodeInv'
<1> DEFINE n == at[t]
<1>1. n \in Node /\ Linked \subseteq Node /\ PointerTypes
  BY NodeSets DEF LockInv
<1>2. Linked' = Linked /\ Allocated' = Allocated
  BY DEF Linked, Live, Allocated, OthersRest
<1>3. \A m, k : Owns(m, k)' <=> Owns(m, k)
  <2>1. \A m : Changing(m, {"setHkey"})' <=> Changing(m, {"setHkey"})
    BY DEF Changing, OthersRest
  <2> QED
    BY <2>1 DEF Owns, Limit
<1>4. RangeInv'
  BY <1>2 DEF RangeInv
<1>5. LeavesInRange'
  <2> SUFFICES ASSUME harm' = "none", NEW m \in Linked
               PROVE  Distinct(leaf'[m]) /\ \A k \in KeysOf(leaf'[m]) : Owns(m, k)
    BY <1>2, <1>3 DEF LeavesInRange
  <2>1. CASE m = n
    BY <2>1
  <2>2. CASE m # n
    BY <1>1, <2>2 DEF NodeInv, LeavesInRange
  <2> QED
    BY <2>1, <2>2
<1>6. BuffersClean'
  BY <1>1, <1>2 DEF NodeInv, BuffersClean, Buffered
<1>7. FiltersCover'
  <2> SUFFICES ASSUME NEW m \in Linked, filterOn[m], NEW k \in KeysOf(leaf'[m]) \cup DOMAIN buf'[m],
                      Owns(m, k)
               PROVE  k \in bloom'[m]
    BY <1>2, <1>3 DEF FiltersCover
  <2>1. CASE m = n
    BY <2>1
  <2>2. CASE m # n
    BY <1>1, <2>2 DEF NodeInv, FiltersCover
  <2> QED
    BY <2>1, <2>2
<1>8. ASSUME NEW u \in Threads \ {t}, pc[u] \in {"lockNext", "split"} PROVE BatchOK(u)'
  <2>1. /\ pc'[u] = pc[u] /\ at'[u] = at[u] /\ todo'[u] = todo[u] /\ BatchOK(u)
    BY DEF OthersRest, NodeInv
  <2>2. at[u] \in Node /\ Holds(u, at[u])
    BY <1>8, HeldNodes DEF AtHeld
  <2>3. leaf'[at[u]] = leaf[at[u]] /\ DOMAIN buf'[at[u]] \subseteq DOMAIN buf[at[u]]
    <3>1. CASE at[u] # n
      BY <2>2, <3>1
    <3>2. CASE at[u] = n /\ Holds(t, n)
      BY <2>2, <3>2 DEF LockInv, Exclusive
    <3>3. CASE at[u] = n /\ ~Holds(t, n)
      BY <3>3
    <3> QED
      BY <3>1, <3>2, <3>3
  <2>4. \A k : InRange(at[u], k)' <=> InRange(at[u], k)
    BY <2>1 DEF InRange
  <2> QED
    BY <1>8, <2>1, <2>3, <2>4 DEF BatchOK
<1>9. \A u \in Threads : BatchOK(u)'
  <2>1. \A u \in Threads \ {t} : pc'[u] = pc[u]
    BY DEF OthersRest
  <2> QED
    BY <1>8, <2>1 DEF BatchOK
<1> QED
  BY <1>4, <1>5, <1>6, <1>7, <1>9 DEF NodeInv

(* The types after a step that changes one node and the map. *)
LEMMA OneNodeTypes ==
    ASSUME TypeInv, NEW n \in Node, UNCHANGED <<lkey, hkey, filterOn, seqs>>,
           NEW l \in LeafOf(Keys, Vals), leaf' = leaf \/ leaf' = [leaf EXCEPT ![n] = l],
           NEW b, IsBuffer(b), buf' = buf \/ buf' = [buf EXCEPT ![n] = b],
           bloom' = bloom \/ (\E k \in Keys : bloom' = [bloom EXCEPT ![n] = bloom[n] \cup {k}]),
           needSort' = needSort \/ (\E s \in BOOLEAN : needSort' = [needSort EXCEPT ![n] = s]),
           \/ store' = store
           \/ \E k \in Keys, v \in Vals \cup {NoVal} : store' = [store EXCEPT ![k] = v]
    PROVE  NodeTypes'
<1>1. NodeTypes
  BY DEF TypeInv
<1>2. lkey' \in [Node -> 0 .. MaxKey] /\ hkey' \in [Node -> 0 .. MaxKey]
      /\ filterOn' \in [Node -> BOOLEAN] /\ seqs' \in [Node -> [Slot -> Slot \cup {0}]]
  BY <1>1 DEF NodeTypes
<1>3. leaf' \in [Node -> LeafOf(Keys, Vals)]
  BY <1>1 DEF NodeTypes
<1>4. DOMAIN buf' = Node /\ \A m \in Node : IsBuffer(buf'[m])
  BY <1>1 DEF NodeTypes
<1>5. bloom' \in [Node -> SUBSET Keys]
  BY <1>1 DEF NodeTypes
<1>6. needSort' \in [Node -> BOOLEAN]
  BY <1>1 DEF NodeTypes
<1>7. store' \in [Keys -> Vals \cup {NoVal}]
  BY <1>1 DEF NodeTypes
<1> QED
  BY <1>2, <1>3, <1>4, <1>5, <1>6, <1>7 DEF NodeTypes, IsBuffer

(* The filter of the node after an insert. *)
LEMMA SetBloomIs ==
    ASSUME TypeInv, NEW n \in Node, NEW k \in Keys, SetBloomFilter(n, k)
    PROVE  /\ bloom' = bloom \/ (\E j \in Keys : bloom' = [bloom EXCEPT ![n] = bloom[n] \cup {j}])
           /\ \A m \in Node \ {n} : bloom'[m] = bloom[m]
           /\ filterOn[n] => k \in bloom'[n] /\ bloom[n] \subseteq bloom'[n]
<1>1. bloom \in [Node -> SUBSET Keys]
  BY DEF TypeInv, NodeTypes
<1>2. CASE filterOn[n]
  BY <1>1, <1>2 DEF SetBloomFilter
<1>3. CASE ~filterOn[n]
  BY <1>3 DEF SetBloomFilter
<1> QED
  BY <1>2, <1>3

(* insert into the write buffer: SetBloomFilter after the record. *)
LEMMA InsertToBufferStep ==
    ASSUME LockInv, TypeInv, RangeInv, NodeInv, NEW t \in Threads, harm = "none", InsertToBuffer(t)
    PROVE  NodeTypes' /\ RangeInv' /\ NodeInv'
<1> DEFINE n == at[t]
           k == key(t)
           v == call[t].val
           b == [j \in DOMAIN buf[n] \cup {k} |-> IF j = k THEN v ELSE buf[n][j]]
<1>0. PointerTypes /\ ResultTypes /\ pc \in [Threads -> Pcs]
  BY DEF LockInv, TypeInv, PointerTypes
<1>1. /\ pc[t] = "insertLocked" /\ pc'[t] = "unlock" /\ at' = at
      /\ Buffered(n) /\ BufferHasRoom(n, k)
      /\ buf' = [buf EXCEPT ![n] = b]
      /\ SetBloomFilter(n, k)
      /\ store' = [store EXCEPT ![k] = v]
      /\ UNCHANGED <<nodes, lkey, hkey, next, lock, filterOn, leaf, needSort, seqs>>
  BY <1>0 DEF InsertToBuffer, InsertTakesEffect, Goto, middle, sorting
<1>2. /\ n \in Node /\ n \in Linked /\ n \in Allocated /\ Holds(t, n)
      /\ leaf[n] \in LeafOf(Keys, Vals) /\ Distinct(leaf[n])
      /\ \A j : Owns(n, j) <=> InRange(n, j)
      /\ \A j \in KeysOf(leaf[n]) : InRange(n, j)
      /\ filterOn[n] => \A j \in KeysOf(leaf[n]) \cup DOMAIN buf[n] : InRange(n, j) => j \in bloom[n]
  BY <1>1, Here DEF AtHeld
<1>3. k \in Keys /\ v \in Vals
  BY <1>0, <1>1, RecordIs DEF TypeInv, Doing
<1>4. OthersRest(t)
  BY <1>0, OnlyItsLocals DEF Step
<1>5. /\ bloom' = bloom \/ (\E j \in Keys : bloom' = [bloom EXCEPT ![n] = bloom[n] \cup {j}])
      /\ \A m \in Node \ {n} : bloom'[m] = bloom[m]
      /\ filterOn[n] => k \in bloom'[n] /\ bloom[n] \subseteq bloom'[n]
  BY <1>1, <1>2, <1>3, SetBloomIs
<1>6. IsBuffer(buf[n]) /\ DOMAIN buf = Node
  BY <1>2 DEF TypeInv, NodeTypes
<1>7. IsBuffer(b) /\ DOMAIN b = DOMAIN buf[n] \cup {k}
  <2>1. DOMAIN b = DOMAIN buf[n] \cup {k} /\ DOMAIN b \subseteq Keys /\ b \in [DOMAIN b -> Vals]
    BY <1>3, <1>6 DEF IsBuffer
  <2>2. Cardinality(DOMAIN buf[n] \cup {k}) <= BufferCapacity
    <3>1. CASE k \in DOMAIN buf[n]
      <4>1. DOMAIN buf[n] \cup {k} = DOMAIN buf[n]
        BY <3>1
      <4> QED
        BY <1>6, <4>1 DEF IsBuffer
    <3>2. CASE k \notin DOMAIN buf[n]
      <4>1. IsFiniteSet(DOMAIN buf[n]) /\ Cardinality(DOMAIN buf[n]) \in Nat
        BY <1>6, KeysAre DEF IsBuffer
      <4>2. Cardinality(DOMAIN buf[n] \cup {k}) = Cardinality(DOMAIN buf[n]) + 1
        BY <3>2, <4>1, FS_AddElement
      <4> QED
        BY <1>1, <3>2, <4>1, <4>2, CapacityAssumption DEF BufferHasRoom
    <3> QED
      BY <3>1, <3>2
  <2> QED
    BY <2>1, <2>2 DEF IsBuffer
<1> HIDE DEF b
<1>8. NodeTypes'
  BY <1>1, <1>2, <1>3, <1>5, <1>7, OneNodeTypes
<1>9. buf'[n] = b /\ \A m \in Node \ {n} : buf'[m] = buf[m]
  BY <1>1, <1>2, <1>6
<1>10. filterOn[n] => \A j \in KeysOf(leaf'[n]) \cup DOMAIN buf'[n] : Owns(n, j) => j \in bloom'[n]
  BY <1>1, <1>2, <1>5, <1>7, <1>9
<1>11. harm' = "none" => Distinct(leaf'[n]) /\ \A j \in KeysOf(leaf'[n]) : Owns(n, j)
  BY <1>1, <1>2
<1>12. \A m \in Node \ {n} : UNCHANGED <<leaf[m], buf[m], bloom[m]>>
  BY <1>1, <1>5, <1>9
<1>13. RangeInv' /\ NodeInv'
  BY <1>1, <1>2, <1>4, <1>10, <1>11, <1>12, OneNodeStep DEF OffList
<1> QED
  BY <1>8, <1>13

(* insert into the leaf of a node without a buffer. *)
LEMMA InsertToLeafStep ==
    ASSUME LockInv, TypeInv, RangeInv, SnapshotInv, NodeInv, NEW t \in Threads, harm = "none",
           InsertToLeaf(t)
    PROVE  NodeTypes' /\ RangeInv' /\ NodeInv'
<1> DEFINE n == at[t]
           k == key(t)
           v == call[t].val
           l == LeafInsert(leaf[n], k, v)
<1>0. PointerTypes /\ ResultTypes /\ pc \in [Threads -> Pcs]
  BY DEF LockInv, TypeInv, PointerTypes
<1>1. /\ pc[t] = "insertLocked" /\ pc'[t] = "unlock" /\ at' = at
      /\ ~Buffered(n) /\ LeafCanInsert(leaf[n], k)
      /\ leaf' = [leaf EXCEPT ![n] = l]
      /\ SetBloomFilter(n, k)
      /\ store' = [store EXCEPT ![k] = v]
      /\ UNCHANGED <<nodes, lkey, hkey, next, lock, filterOn, buf, seqs>>
  BY <1>0 DEF InsertToLeaf, InsertTakesEffect, Goto, middle
<1>1a. \E s \in BOOLEAN : needSort' = [needSort EXCEPT ![n] = s]
  <2>1. needSort' = [needSort EXCEPT ![n] = needSort[n] \/ Match(leaf[n], k) = {}]
    BY DEF InsertToLeaf
  <2>2. (needSort[n] \/ Match(leaf[n], k) = {}) \in BOOLEAN
    BY Zenon
  <2> QED
    BY <2>1, <2>2
<1>2. /\ n \in Node /\ n \in Linked /\ n \in Allocated /\ Holds(t, n)
      /\ leaf[n] \in LeafOf(Keys, Vals) /\ Distinct(leaf[n])
      /\ \A j : Owns(n, j) <=> InRange(n, j)
      /\ \A j \in KeysOf(leaf[n]) : InRange(n, j)
      /\ filterOn[n] => \A j \in KeysOf(leaf[n]) \cup DOMAIN buf[n] : InRange(n, j) => j \in bloom[n]
  BY <1>1, Here DEF AtHeld
<1>3. k \in Keys /\ v \in Vals /\ InRange(n, k)
  BY <1>0, <1>1, RecordIs DEF TypeInv, Doing, SnapshotInv, Snapshot
<1>4. OthersRest(t)
  BY <1>0, OnlyItsLocals DEF Step
<1>5. /\ bloom' = bloom \/ (\E j \in Keys : bloom' = [bloom EXCEPT ![n] = bloom[n] \cup {j}])
      /\ \A m \in Node \ {n} : bloom'[m] = bloom[m]
      /\ filterOn[n] => k \in bloom'[n] /\ bloom[n] \subseteq bloom'[n]
  BY <1>1, <1>2, <1>3, SetBloomIs
<1>6. DOMAIN leaf = Node /\ IsBuffer(buf[n]) /\ buf[n] = NoBuf
  BY <1>1, <1>2 DEF TypeInv, NodeTypes, NodeInv, BuffersClean
<1>7. l \in LeafOf(Keys, Vals) /\ Distinct(l) /\ KeysOf(l) = KeysOf(leaf[n]) \cup {k}
  BY <1>1, <1>2, <1>3, LeafInsertIs
<1> HIDE DEF l
<1>8. NodeTypes'
  BY <1>1, <1>1a, <1>2, <1>3, <1>5, <1>6, <1>7, OneNodeTypes
<1>9. leaf'[n] = l /\ \A m \in Node \ {n} : leaf'[m] = leaf[m]
  BY <1>1, <1>2, <1>6
<1>10. filterOn[n] => \A j \in KeysOf(leaf'[n]) \cup DOMAIN buf'[n] : Owns(n, j) => j \in bloom'[n]
  BY <1>1, <1>2, <1>5, <1>7, <1>9
<1>11. harm' = "none" => Distinct(leaf'[n]) /\ \A j \in KeysOf(leaf'[n]) : Owns(n, j)
  BY <1>2, <1>3, <1>7, <1>9
<1>12. \A m \in Node \ {n} : UNCHANGED <<leaf[m], buf[m], bloom[m]>>
  BY <1>1, <1>5, <1>9
<1>13. RangeInv' /\ NodeInv'
  BY <1>1, <1>2, <1>4, <1>6, <1>10, <1>11, <1>12, OneNodeStep DEF OffList
<1> QED
  BY <1>8, <1>13

(* The flush of a full buffer into a leaf that is sure to take it. *)
LEMMA FlushStep ==
    ASSUME LockInv, TypeInv, RangeInv, SnapshotInv, NodeInv, NEW t \in Threads, harm = "none",
           harm' = Harm(t), FlushMLNodeBuffer(t)
    PROVE  NodeTypes' /\ RangeInv' /\ NodeInv'
<1> DEFINE n == at[t]
           k == key(t)
           l == InsertBatch(leaf[n], ToMerge(t))
<1>0. PointerTypes /\ ResultTypes /\ pc \in [Threads -> Pcs]
  BY DEF LockInv, TypeInv, PointerTypes
<1>1. /\ MustFlush(t) /\ FitsLeaf(n) /\ at' = at /\ pc'[t] \in {"unlock", "scanUnlock"}
      /\ leaf' = [leaf EXCEPT ![n] = l] /\ buf' = [buf EXCEPT ![n] = NoBuf]
      /\ UNCHANGED <<nodes, lkey, hkey, next, lock, filterOn, needSort, seqs>>
      /\ call[t].name = "insert" => SetBloomFilter(n, k) /\ store' = [store EXCEPT ![k] = call[t].val]
      /\ call[t].name # "insert" => UNCHANGED <<bloom, store>>
  BY <1>0 DEF FlushMLNodeBuffer, InsertTakesEffect, middle, sorting
<1>2. pc[t] \in {"insertLocked", "scanFlush"} /\ (call[t].name = "insert" => pc[t] = "insertLocked")
  BY <1>1 DEF MustFlush, TypeInv, Doing
<1>3. /\ n \in Node /\ n \in Linked /\ n \in Allocated /\ Holds(t, n)
      /\ leaf[n] \in LeafOf(Keys, Vals) /\ Distinct(leaf[n])
      /\ \A j : Owns(n, j) <=> InRange(n, j)
      /\ \A j \in KeysOf(leaf[n]) : InRange(n, j)
      /\ filterOn[n] => \A j \in KeysOf(leaf[n]) \cup DOMAIN buf[n] : InRange(n, j) => j \in bloom[n]
      /\ Count(leaf[n]) \in Nat
  BY <1>2, Here DEF AtHeld
<1>4. call[t].name = "insert" => k \in Keys /\ call[t].val \in Vals /\ InRange(n, k)
  BY <1>0, <1>2, RecordIs DEF SnapshotInv, Snapshot
<1>5. OthersRest(t)
  BY <1>0, OnlyItsLocals DEF Step
<1>6. /\ bloom' = bloom \/ (\E j \in Keys : bloom' = [bloom EXCEPT ![n] = bloom[n] \cup {j}])
      /\ \A m \in Node \ {n} : bloom'[m] = bloom[m]
      /\ filterOn[n] => bloom[n] \subseteq bloom'[n]
      /\ filterOn[n] /\ call[t].name = "insert" => k \in bloom'[n]
  <2>1. CASE call[t].name = "insert"
    BY <1>1, <1>3, <1>4, <2>1, SetBloomIs
  <2>2. CASE call[t].name # "insert"
    BY <1>1, <2>2
  <2> QED
    BY <2>1, <2>2
<1>7. DOMAIN leaf = Node /\ DOMAIN buf = Node /\ IsBuffer(buf[n])
  BY <1>3 DEF TypeInv, NodeTypes
<1>8. /\ ToMerge(t) \in Seq(RecOf(Keys, Vals)) /\ DistinctRecs(ToMerge(t))
      /\ Len(ToMerge(t)) <= Cardinality(DOMAIN buf[n]) + 1
      /\ call[t].name = "insert" => KeysIn(ToMerge(t)) = DOMAIN buf[n] \cup {k}
      /\ call[t].name # "insert" => KeysIn(ToMerge(t)) = DOMAIN buf[n]
  BY <1>1, ToMergeIs
<1>9. Count(leaf[n]) + Len(ToMerge(t)) <= LeafCapacity
  <2>1. Cardinality(DOMAIN buf[n]) + Count(leaf[n]) <= LeafCapacity - 1
    BY <1>1 DEF FitsLeaf
  <2>2. Cardinality(DOMAIN buf[n]) \in Nat /\ Len(ToMerge(t)) \in Nat
    BY <1>7, <1>8, KeysAre DEF IsBuffer
  <2> QED
    BY <1>3, <1>8, <2>1, <2>2, LeafCapacityAssumption
<1>10. l \in LeafOf(Keys, Vals) /\ Distinct(l) /\ KeysOf(l) = KeysOf(leaf[n]) \cup KeysIn(ToMerge(t))
  BY <1>3, <1>8, <1>9, InsertBatchIs
<1> HIDE DEF l
<1>11. NodeTypes'
  <2>1. \/ store' = store
        \/ \E j \in Keys, v \in Vals \cup {NoVal} : store' = [store EXCEPT ![j] = v]
    BY <1>1, <1>4
  <2> QED
    BY <1>1, <1>3, <1>6, <1>10, <2>1, NoBufIs, OneNodeTypes
<1>12. /\ leaf'[n] = l /\ buf'[n] = NoBuf
       /\ \A m \in Node \ {n} : leaf'[m] = leaf[m] /\ buf'[m] = buf[m]
  BY <1>1, <1>3, <1>7
<1>13. filterOn[n] => \A j \in KeysOf(leaf'[n]) \cup DOMAIN buf'[n] : Owns(n, j) => j \in bloom'[n]
  BY <1>3, <1>6, <1>8, <1>10, <1>12, NoBufIs
<1>14. ASSUME harm' = "none" PROVE Distinct(leaf'[n]) /\ \A j \in KeysOf(leaf'[n]) : Owns(n, j)
  <2>1. \A j \in DOMAIN buf[n] : InRange(n, j)
    BY <1>1, <1>14, OutlierIsHarm
  <2> QED
    BY <1>3, <1>4, <1>8, <1>10, <1>12, <2>1
<1>15. \A m \in Node \ {n} : UNCHANGED <<leaf[m], buf[m], bloom[m]>>
  BY <1>6, <1>12
<1>16. RangeInv' /\ NodeInv'
  BY <1>1, <1>2, <1>3, <1>5, <1>12, <1>13, <1>14, <1>15, OneNodeStep DEF OffList
<1> QED
  BY <1>11, <1>16

(* The late reset of a split node's buffer: another thread may hold the     *)
(* node.                                                                    *)
LEMMA ResetBufferStep ==
    ASSUME LockInv, TypeInv, RangeInv, NodeInv, NEW t \in Threads, harm = "none", ResetBuffer(t)
    PROVE  NodeTypes' /\ RangeInv' /\ NodeInv'
<1> DEFINE n == at[t]
<1>0. PointerTypes /\ ResultTypes /\ pc \in [Threads -> Pcs]
  BY DEF LockInv, TypeInv, PointerTypes
<1>1. /\ pc[t] = "resetBuffer" /\ pc'[t] \in {"return", "seek"}
      /\ buf' = buf \/ buf' = [buf EXCEPT ![n] = NoBuf]
      /\ UNCHANGED <<nodes, lkey, hkey, next, lock, bloom, filterOn, leaf, needSort, seqs, store>>
  BY <1>0 DEF ResetBuffer, Retry, middle, sorting
<1>2. n \in Node /\ n \in Allocated
  BY <1>1, NodeSets DEF LockInv, ThreadOK, AtOK
<1>3. OthersRest(t)
  BY <1>0, OnlyItsLocals DEF Step
<1>4. DOMAIN buf = Node /\ IsBuffer(buf[n]) /\ leaf[n] \in LeafOf(Keys, Vals)
  BY <1>2 DEF TypeInv, NodeTypes
<1>5. NodeTypes'
  BY <1>1, <1>2, <1>4, NoBufIs, OneNodeTypes
<1>6. /\ buf'[n] = NoBuf \/ buf'[n] = buf[n]
      /\ \A m \in Node \ {n} : buf'[m] = buf[m]
      /\ DOMAIN buf'[n] \subseteq DOMAIN buf[n]
  BY <1>1, <1>2, <1>4, NoBufIs
<1>6a. \A m \in Node \ {n} : UNCHANGED <<leaf[m], buf[m], bloom[m]>>
  BY <1>1, <1>2, <1>4
<1>7. ~Buffered(n) => buf'[n] = NoBuf
  BY <1>2, <1>6 DEF NodeInv, BuffersClean
<1>8. n \in Linked => Distinct(leaf'[n]) /\ \A k \in KeysOf(leaf'[n]) : Owns(n, k)
  BY <1>1 DEF NodeInv, LeavesInRange
<1>9. n \in Linked /\ filterOn[n] =>
         \A k \in KeysOf(leaf'[n]) \cup DOMAIN buf'[n] : Owns(n, k) => k \in bloom'[n]
  BY <1>1, <1>6 DEF NodeInv, FiltersCover
<1>10. RangeInv' /\ NodeInv'
  BY <1>1, <1>2, <1>3, <1>6, <1>6a, <1>7, <1>8, <1>9, OneNodeStep DEF OffList
<1> QED
  BY <1>5, <1>10

(* remove, from the buffer and from the leaf. *)
LEMMA RemoveLockedStep ==
    ASSUME LockInv, TypeInv, RangeInv, NodeInv, NEW t \in Threads, harm = "none", RemoveLocked(t)
    PROVE  NodeTypes' /\ RangeInv' /\ NodeInv'
<1> DEFINE n == at[t]
           k == key(t)
           l == LeafRemove(leaf[n], k)
           b == [j \in DOMAIN buf[n] \ {k} |-> buf[n][j]]
<1>0. PointerTypes /\ ResultTypes /\ pc \in [Threads -> Pcs]
  BY DEF LockInv, TypeInv, PointerTypes
<1>1. /\ pc[t] = "removeLocked" /\ pc'[t] = "mergeCheck"
      /\ leaf' = [leaf EXCEPT ![n] = l]
      /\ Buffered(n) => buf' = [buf EXCEPT ![n] = b]
      /\ ~Buffered(n) => buf' = buf
      /\ store' = [store EXCEPT ![k] = NoVal]
      /\ UNCHANGED <<nodes, lkey, hkey, next, lock, bloom, filterOn, seqs>>
  BY <1>0 DEF RemoveLocked, Goto, middle
<1>1a. \E s \in BOOLEAN : needSort' = [needSort EXCEPT ![n] = s]
  <2>1. needSort' = [needSort EXCEPT ![n] = needSort[n] \/ Match(leaf[n], k) # {}]
    BY DEF RemoveLocked
  <2>2. (needSort[n] \/ Match(leaf[n], k) # {}) \in BOOLEAN
    BY Zenon
  <2> QED
    BY <2>1, <2>2
<1>2. /\ n \in Node /\ n \in Linked /\ n \in Allocated /\ Holds(t, n)
      /\ leaf[n] \in LeafOf(Keys, Vals) /\ Distinct(leaf[n])
      /\ \A j : Owns(n, j) <=> InRange(n, j)
      /\ \A j \in KeysOf(leaf[n]) : InRange(n, j)
      /\ filterOn[n] => \A j \in KeysOf(leaf[n]) \cup DOMAIN buf[n] : InRange(n, j) => j \in bloom[n]
  BY <1>1, Here DEF AtHeld
<1>3. k \in Keys
  BY <1>0, CallKeys
<1>4. OthersRest(t)
  BY <1>0, OnlyItsLocals DEF Step
<1>6. DOMAIN leaf = Node /\ DOMAIN buf = Node /\ IsBuffer(buf[n])
  BY <1>2 DEF TypeInv, NodeTypes
<1>7. l \in LeafOf(Keys, Vals) /\ Distinct(l) /\ KeysOf(l) = KeysOf(leaf[n]) \ {k}
  BY <1>2, LeafRemoveIs
<1>7a. IsBuffer(b) /\ DOMAIN b \subseteq DOMAIN buf[n]
  <2>1. DOMAIN b = DOMAIN buf[n] \ {k} /\ b \in [DOMAIN b -> Vals] /\ DOMAIN b \subseteq Keys
    BY <1>6 DEF IsBuffer
  <2>2. IsFiniteSet(DOMAIN buf[n])
    BY <1>6, KeysAre DEF IsBuffer
  <2>3. Cardinality(DOMAIN buf[n] \ {k}) <= Cardinality(DOMAIN buf[n])
    BY <2>2, FS_Subset
  <2>4. Cardinality(DOMAIN b) \in Nat /\ Cardinality(DOMAIN buf[n]) \in Nat
    BY <1>6, <2>1, KeysAre DEF IsBuffer
  <2> QED
    BY <1>6, <2>1, <2>3, <2>4, CapacityAssumption DEF IsBuffer
<1> HIDE DEF l, b
<1>8. NodeTypes'
  <2>1. buf' = buf \/ buf' = [buf EXCEPT ![n] = b]
    BY <1>1
  <2> QED
    BY <1>1, <1>1a, <1>2, <1>3, <1>7, <1>7a, <2>1, OneNodeTypes
<1>9. /\ leaf'[n] = l /\ DOMAIN buf'[n] \subseteq DOMAIN buf[n]
      /\ \A m \in Node \ {n} : leaf'[m] = leaf[m] /\ buf'[m] = buf[m]
  BY <1>1, <1>2, <1>6, <1>7a
<1>10. filterOn[n] => \A j \in KeysOf(leaf'[n]) \cup DOMAIN buf'[n] : Owns(n, j) => j \in bloom'[n]
  BY <1>1, <1>2, <1>7, <1>9
<1>11. harm' = "none" => Distinct(leaf'[n]) /\ \A j \in KeysOf(leaf'[n]) : Owns(n, j)
  BY <1>2, <1>7, <1>9
<1>12. \A m \in Node \ {n} : UNCHANGED <<leaf[m], buf[m], bloom[m]>>
  BY <1>1, <1>9
<1>13. ~Buffered(n) => buf'[n] = NoBuf
  BY <1>1, <1>2 DEF NodeInv, BuffersClean
<1>14. RangeInv' /\ NodeInv'
  BY <1>1, <1>2, <1>4, <1>10, <1>11, <1>12, <1>13, OneNodeStep DEF OffList
<1> QED
  BY <1>8, <1>14

(* A split that would put a key twice into the right leaf meets a defect. *)
LEMMA ShadowedIsHarm ==
    ASSUME NEW t \in Threads, pc[t] = "split", Harm(t) = "none"
    PROVE  \A k \in KeysIn(todo[t]) \cap KeysOf(leaf[at[t]]) : ~(k >= Median(leaf[at[t]]))
<1>1. ~ \E k \in {todo[t][i].key : i \in 1 .. Len(todo[t])} \cap KeysOf(leaf[at[t]]) :
           k >= Median(leaf[at[t]])
  BY Zenon DEF Harm
<1> QED
  BY <1>1 DEF KeysIn

(* The records that wait for a split fit into either half of the leaf, and  *)
(* the two leaves hold what the leaf and the batch held.                    *)
LEMMA SplitLeaves ==
    ASSUME LockInv, TypeInv, NodeInv, NEW t \in Threads, pc[t] = "split"
    PROVE  LET old == leaf[at[t]]
               l   == SplitLeft(old, todo[t])
               r   == SplitRight(old, todo[t])
               M   == Median(old)
           IN  /\ Count(old) \div 2 + Len(todo[t]) <= LeafCapacity
               /\ Count(old) - Count(old) \div 2 + Len(todo[t]) <= LeafCapacity
               /\ l \in LeafOf(Keys, Vals) /\ Distinct(l) /\ r \in LeafOf(Keys, Vals)
               /\ (\A k \in KeysOf(old) \cap KeysIn(todo[t]) : k < M) => Distinct(r)
               /\ \A k : k \in KeysOf(l) <=> k \in KeysOf(old) \cup KeysIn(todo[t]) /\ k < M
               /\ \A k : k \in KeysOf(r) <=> k \in KeysOf(old) \cup KeysIn(todo[t]) /\ k >= M
               /\ \A k, v : Has(l, k, v) <=>
                     /\ k < M
                     /\ InRecs(todo[t], k, v) \/ (k \notin KeysIn(todo[t]) /\ Has(old, k, v))
               /\ \A k, v : Has(r, k, v) <=> k >= M /\ (InRecs(todo[t], k, v) \/ Has(old, k, v))
               /\ M \in Keys /\ M \in KeysOf(old) /\ \E k \in KeysOf(old) : k < M
<1> DEFINE old == leaf[at[t]]
           recs == todo[t]
           C == Count(old)
<1>1. at[t] \in Node
  BY HeldNodes DEF AtHeld
<1>2. old \in LeafOf(Keys, Vals) /\ C \in Nat /\ C <= LeafCapacity
  BY <1>1, CountIs DEF TypeInv
<1>3. recs \in Seq(RecOf(Keys, Vals)) /\ Len(recs) \in Nat
  BY DEF TypeInv, ResultTypes
<1>4. DistinctRecs(recs) /\ Len(recs) <= BatchSize /\ C >= 2 /\ Distinct(old)
  BY DEF NodeInv, BatchOK
<1>5. BatchSize <= LeafCapacity \div 2 /\ BatchSize \in Nat
  BY CapacityAssumption, FlagAssumption DEF BatchSize
<1>6. Keys \in SUBSET Nat
  BY KeysAre
<1> HIDE DEF old, recs, C
<1>7. C \div 2 + Len(recs) <= LeafCapacity /\ C - C \div 2 + Len(recs) <= LeafCapacity
  BY <1>2, <1>3, <1>4, <1>5, LeafCapacityAssumption
<1>8. Count(old) >= 2 /\ Count(old) \div 2 + Len(recs) <= LeafCapacity
      /\ Count(old) - Count(old) \div 2 + Len(recs) <= LeafCapacity
  BY <1>4, <1>7 DEF C
<1>9. LET new == SplitLeft(old, recs)
      IN  /\ new \in LeafOf(Keys, Vals) /\ Distinct(new)
          /\ \A k : k \in KeysOf(new) <=> k \in KeysOf(old) \cup KeysIn(recs) /\ k < Median(old)
          /\ \A k, v : Has(new, k, v) <=>
                /\ k < Median(old)
                /\ InRecs(recs, k, v) \/ (k \notin KeysIn(recs) /\ Has(old, k, v))
  BY <1>2, <1>3, <1>4, <1>6, <1>8, SplitLeftIs
<1>10. LET new == SplitRight(old, recs)
       IN  /\ new \in LeafOf(Keys, Vals)
           /\ (\A k \in KeysOf(old) \cap KeysIn(recs) : k < Median(old)) => Distinct(new)
           /\ \A k : k \in KeysOf(new) <=> k \in KeysOf(old) \cup KeysIn(recs) /\ k >= Median(old)
           /\ \A k, v : Has(new, k, v) <=> k >= Median(old) /\ (InRecs(recs, k, v) \/ Has(old, k, v))
  BY <1>2, <1>3, <1>4, <1>6, <1>8, SplitRightIs
<1>11. Median(old) \in Keys /\ Median(old) \in KeysOf(old) /\ \E k \in KeysOf(old) : k < Median(old)
  BY <1>2, <1>4, <1>6, <1>8, MedianIs
<1> QED
  BY <1>8, <1>9, <1>10, <1>11 DEF old, recs

(* The leaf of a node is split, the new node gets the upper half and the    *)
(* records of the batch that belong there.                                  *)
LEMMA SplitNodeStep ==
    ASSUME LockInv, TypeInv, RangeInv, NodeInv, NEW t \in Threads, harm = "none", harm' = Harm(t),
           Split(t)
    PROVE  NodeTypes' /\ RangeInv' /\ NodeInv'
<1>a. PICK n, new : n = at[t] /\ new = nodes + 1
  OBVIOUS
<1> USE <1>a
<1> DEFINE right == next[n]
           old == leaf[n]
           recs == todo[t]
           M == Median(old)
           l == SplitLeft(old, recs)
           r == SplitRight(old, recs)
<1>0. /\ PointerTypes /\ ResultTypes /\ pc \in [Threads -> Pcs] /\ NodeTypes /\ nodes \in Nat
      /\ next \in [Node -> Node \cup {Null}]
  BY NodeSets DEF LockInv, TypeInv, PointerTypes
<1>1. /\ pc[t] = "split" /\ pc' = [pc EXCEPT ![t] = "setHkey"] /\ at' = at
      /\ new \in Node /\ nodes' = new
      /\ leaf' = [leaf EXCEPT ![n] = l, ![new] = r]
      /\ bloom' = [bloom EXCEPT ![n] = KeysOf(leaf'[n]), ![new] = KeysOf(leaf'[new])]
      /\ filterOn' = [filterOn EXCEPT ![n] = TRUE, ![new] = TRUE]
      /\ lkey' = [lkey EXCEPT ![new] = M]
      /\ hkey' = [hkey EXCEPT ![new] = hkey[n]]
      /\ next' = [next EXCEPT ![new] = next[n], ![n] = new]
      /\ needSort' = [needSort EXCEPT ![n] = TRUE, ![new] = TRUE]
      /\ store' = store \/ (call[t].name = "insert" /\ store' = [store EXCEPT ![key(t)] = call[t].val])
      /\ UNCHANGED <<lock, buf, seqs, other>>
  BY DEF Split, Goto, InsertTakesEffect
<1>2. /\ n \in Node /\ n \in Linked /\ n \in Allocated /\ n # DummyTail /\ Holds(t, n)
      /\ \A k : Owns(n, k) <=> InRange(n, k)
      /\ \A k \in KeysOf(old) : InRange(n, k)
      /\ hkey[n] = lkey[right] /\ right \in Linked /\ right \in Node
  BY <1>1, Here DEF AtHeld
<1>3. /\ l \in LeafOf(Keys, Vals) /\ Distinct(l) /\ r \in LeafOf(Keys, Vals)
      /\ (\A k \in KeysOf(old) \cap KeysIn(recs) : k < M) => Distinct(r)
      /\ \A k : k \in KeysOf(l) <=> k \in KeysOf(old) \cup KeysIn(recs) /\ k < M
      /\ \A k : k \in KeysOf(r) <=> k \in KeysOf(old) \cup KeysIn(recs) /\ k >= M
      /\ M \in Keys /\ M \in KeysOf(old) /\ \E k \in KeysOf(old) : k < M
  BY <1>1, SplitLeaves
<1>4. /\ \A k \in KeysIn(recs) : InRange(n, k)
      /\ DOMAIN buf[n] \subseteq KeysIn(recs)
  BY <1>1 DEF NodeInv, BatchOK
<1>5. new \notin Allocated /\ n # new /\ right # new /\ Linked \subseteq Allocated /\ Linked \subseteq Node
  BY <1>0, <1>2, NodeSets DEF Allocated
<1>6. OthersRest(t)
  BY <1>0, OnlyItsLocals DEF Step
<1>7. harm' = "none" => Distinct(r)
  <2>1. ASSUME Harm(t) = "none" PROVE \A k \in KeysOf(old) \cap KeysIn(recs) : k < M
    <3>1. \A k \in KeysOf(old) \cap KeysIn(recs) : ~(k >= M)
      BY <1>1, <2>1, ShadowedIsHarm
    <3>2. \A k \in KeysOf(old) : k \in Nat
      <4>2. old \in LeafOf(Keys, Vals)
        BY <1>2 DEF TypeInv, NodeTypes
      <4>3. \A i \in ValidBitSet(old) : old[i] \in RecOf(Keys, Vals)
        BY <4>2, LeafSets
      <4>4. \A x \in RecOf(Keys, Vals) : x.key \in Nat
        BY KeysAre DEF RecOf
      <4> QED
        BY <4>3, <4>4 DEF KeysOf
    <3> QED
      BY <1>3, <3>1, <3>2, KeysAre
  <2> QED
    BY <1>3, <2>1
<1> HIDE DEF l, r, M, old
<1>8. /\ leaf'[n] = l /\ leaf'[new] = r /\ lkey'[new] = M /\ next'[n] = new /\ next'[new] = right
      /\ hkey'[new] = hkey[n] /\ bloom'[n] = KeysOf(l) /\ bloom'[new] = KeysOf(r)
      /\ \A m \in Node \ {new} : lkey'[m] = lkey[m] /\ hkey'[m] = hkey[m]
      /\ \A m \in Node \ {n, new} : /\ leaf'[m] = leaf[m] /\ next'[m] = next[m]
                                    /\ bloom'[m] = bloom[m] /\ filterOn'[m] = filterOn[m]
  BY <1>0, <1>1, <1>2, <1>5 DEF NodeTypes
<1>9. Linked' \subseteq Linked \cup {new} /\ Allocated' = Allocated \cup {new}
  <2>1. Allocated' = Allocated \cup {new}
    BY <1>0, <1>1 DEF Allocated
  <2>2. Live' \subseteq Live \cup {new}
    BY <1>0, <1>1 DEF Live
  <2>3. \A u \in Threads : pc[u] \in OffList => pc'[u] \in OffList /\ other'[u] = other[u]
    BY <1>1, <1>6 DEF OthersRest, OffList
  <2> QED
    BY <2>1, <2>2, <2>3 DEF Linked
<1>10. \A u \in Threads : pc[u] = "setHkey" => at[u] \in Linked \ {DummyTail}
  BY HeldNodes DEF AtHeld
<1>11. /\ \A m : m # n => (Changing(m, {"setHkey"})' <=> Changing(m, {"setHkey"}))
       /\ Changing(n, {"setHkey"})' /\ ~Changing(new, {"setHkey"})
  <2>1. \A m : m # n => (Changing(m, {"setHkey"})' <=> Changing(m, {"setHkey"}))
    BY <1>0, <1>1, <1>6 DEF Changing, OthersRest
  <2>2. Changing(n, {"setHkey"})'
    BY <1>0, <1>1 DEF Changing
  <2>3. ~Changing(new, {"setHkey"})
    BY <1>5, <1>10 DEF Changing
  <2> QED
    BY <2>1, <2>2, <2>3
<1>12. \A k : Owns(n, k)' <=> lkey[n] <= k /\ k < M
  BY <1>2, <1>5, <1>8, <1>11 DEF Owns, Limit
<1>13. \A k : Owns(new, k)' <=> M <= k /\ k < hkey[n]
  BY <1>1, <1>2, <1>5, <1>8, <1>11 DEF Owns, Limit
<1>14. ASSUME NEW m \in Linked \ {n} PROVE \A k : Owns(m, k)' <=> Owns(m, k)
  <2>1. m \in Node \ {n, new}
    BY <1>5
  <2>2. Changing(m, {"setHkey"}) => next[m] \in Node \ {new}
    BY <1>5, <1>10 DEF Changing, LockInv, ListOK
  <2>3. Limit(m)' = Limit(m)
    <3>1. CASE Changing(m, {"setHkey"})
      <4>1. Limit(m)' = lkey'[next'[m]] /\ Limit(m) = lkey[next[m]]
        BY <1>11, <2>1, <3>1 DEF Limit
      <4> QED
        BY <1>8, <2>1, <2>2, <3>1, <4>1
    <3>2. CASE ~Changing(m, {"setHkey"})
      <4>1. Limit(m)' = hkey'[m] /\ Limit(m) = hkey[m]
        BY <1>11, <2>1, <3>2 DEF Limit
      <4> QED
        BY <1>8, <2>1, <4>1
    <3> QED
      BY <3>1, <3>2
  <2> QED
    BY <1>8, <2>1, <2>3 DEF Owns
<1>15. lkey[n] \in Nat /\ hkey[n] \in Nat /\ M \in Nat
  BY <1>0, <1>2, <1>3, KeysAre DEF NodeTypes
<1>16. /\ lkey[n] < M /\ M < hkey[n]
       /\ \A k \in KeysOf(old) \cup KeysIn(recs) : lkey[n] <= k /\ k < hkey[n]
  <2>1. \A k \in KeysOf(old) \cup KeysIn(recs) : lkey[n] <= k /\ k < hkey[n]
    BY <1>2, <1>4 DEF InRange
  <2>2. PICK k \in KeysOf(old) : k < M
    BY <1>3
  <2>3. k \in Nat
    <3>1. k \in KeysOf(l)
      BY <1>3, <2>2
    <3>2. \A i \in ValidBitSet(l) : l[i] \in RecOf(Keys, Vals)
      BY <1>3, LeafSets
    <3>3. \A x \in RecOf(Keys, Vals) : x.key \in Nat
      BY KeysAre DEF RecOf
    <3> QED
      BY <3>1, <3>2, <3>3 DEF KeysOf
  <2>4. lkey[n] < M
    BY <1>15, <2>1, <2>2, <2>3
  <2> QED
    BY <1>3, <2>1, <2>4
<1>17. RangeInv'
  <2> SUFFICES ASSUME NEW m \in (Linked \cup {new}) \ {DummyTail} PROVE lkey'[m] < lkey'[next'[m]]
    BY <1>9 DEF RangeInv
  <2>1. CASE m = n
    BY <1>2, <1>5, <1>8, <1>16, <2>1
  <2>2. CASE m = new
    BY <1>2, <1>5, <1>8, <1>16, <2>2
  <2>3. CASE m # n /\ m # new
    <3>1. m \in Linked \ {DummyTail} /\ m \in Node \ {n, new} /\ next[m] \in Node \ {new}
      BY <1>5, <2>3 DEF LockInv, ListOK
    <3> QED
      BY <1>8, <3>1 DEF RangeInv
  <2> QED
    BY <2>1, <2>2, <2>3
<1>18. LeavesInRange'
  <2> SUFFICES ASSUME harm' = "none", NEW m \in Linked \cup {new}
               PROVE  Distinct(leaf'[m]) /\ \A k \in KeysOf(leaf'[m]) : Owns(m, k)'
    BY <1>9 DEF LeavesInRange
  <2>1. CASE m = n
    BY <1>3, <1>8, <1>12, <1>16, <2>1
  <2>2. CASE m = new
    <3>1. \A k \in KeysOf(r) : M <= k /\ k < hkey[n]
      <4>1. \A k \in KeysOf(r) : k >= M /\ k < hkey[n]
        BY <1>3, <1>16
      <4> QED
        BY <4>1
    <3> QED
      BY <1>7, <1>8, <1>13, <2>2, <3>1
  <2>3. CASE m # n /\ m # new
    BY <1>5, <1>8, <1>14, <2>3 DEF NodeInv, LeavesInRange
  <2> QED
    BY <2>1, <2>2, <2>3
<1>19. BuffersClean' /\ buf[new] = NoBuf
  BY <1>1, <1>5, <1>9 DEF NodeInv, BuffersClean, Buffered
<1>20. FiltersCover'
  <2> SUFFICES ASSUME NEW m \in Linked \cup {new}, filterOn'[m],
                      NEW k \in KeysOf(leaf'[m]) \cup DOMAIN buf[m], Owns(m, k)'
               PROVE  k \in bloom'[m]
    BY <1>1, <1>9 DEF FiltersCover
  <2>1. CASE m = n
    BY <1>3, <1>4, <1>8, <1>12, <2>1
  <2>2. CASE m = new
    BY <1>8, <1>19, <2>2, NoBufIs
  <2>3. CASE m # n /\ m # new
    BY <1>5, <1>8, <1>14, <2>3 DEF NodeInv, FiltersCover
  <2> QED
    BY <2>1, <2>2, <2>3
<1>21. ASSUME NEW u \in Threads PROVE BatchOK(u)'
  <2>1. CASE u = t
    BY <1>0, <1>1, <2>1 DEF BatchOK
  <2>2. CASE u # t /\ pc[u] \in {"lockNext", "split"}
    <3>1. /\ pc'[u] = pc[u] /\ at'[u] = at[u] /\ todo'[u] = todo[u] /\ BatchOK(u)
      BY <1>6, <2>2 DEF OthersRest, NodeInv
    <3>2. at[u] \in Linked /\ Holds(u, at[u])
      BY <2>2, HeldNodes DEF AtHeld
    <3>3. at[u] # n
      BY <1>2, <2>2, <3>2 DEF LockInv, Exclusive
    <3>4. at[u] \in Node \ {n, new}
      BY <1>5, <3>2, <3>3
    <3>5. leaf'[at[u]] = leaf[at[u]] /\ buf'[at[u]] = buf[at[u]]
      BY <1>1, <1>8, <3>4
    <3>6. lkey'[at'[u]] = lkey[at[u]] /\ hkey'[at'[u]] = hkey[at[u]]
      BY <1>8, <3>1, <3>4
    <3>7. \A k : InRange(at[u], k)' <=> InRange(at[u], k)
      BY <3>6 DEF InRange
    <3> QED
      BY <2>2, <3>1, <3>5, <3>7 DEF BatchOK
  <2>3. CASE u # t /\ pc[u] \notin {"lockNext", "split"}
    BY <1>6, <2>3 DEF OthersRest, BatchOK
  <2> QED
    BY <2>1, <2>2, <2>3
<1>22. NodeTypes'
  <2>1. leaf' \in [Node -> LeafOf(Keys, Vals)]
    BY <1>0, <1>1, <1>3 DEF NodeTypes
  <2>2. lkey' \in [Node -> 0 .. MaxKey] /\ hkey' \in [Node -> 0 .. MaxKey]
    <3>1. M \in 0 .. MaxKey
      BY <1>3, KeysAre
    <3>2. lkey' \in [Node -> 0 .. MaxKey]
      BY <1>0, <1>1, <3>1 DEF NodeTypes
    <3>3. hkey[n] \in 0 .. MaxKey
      BY <1>0, <1>2 DEF NodeTypes
    <3>4. hkey' \in [Node -> 0 .. MaxKey]
      BY <1>0, <1>1, <3>3 DEF NodeTypes
    <3> QED
      BY <3>2, <3>4
  <2>3. DOMAIN buf' = Node /\ (\A m \in Node : IsBuffer(buf'[m])) /\ seqs' \in [Node -> [Slot -> Slot \cup {0}]]
    BY <1>0, <1>1 DEF NodeTypes
  <2>4. bloom' \in [Node -> SUBSET Keys]
    <3>1. \A x \in LeafOf(Keys, Vals) : KeysOf(x) \in SUBSET Keys
      <4>1. ASSUME NEW x \in LeafOf(Keys, Vals) PROVE KeysOf(x) \in SUBSET Keys
        <5>1. \A i \in ValidBitSet(x) : x[i] \in RecOf(Keys, Vals)
          BY LeafSets
        <5>2. \A y \in RecOf(Keys, Vals) : y.key \in Keys
          BY DEF RecOf
        <5> QED
          BY <5>1, <5>2 DEF KeysOf
      <4> QED
        BY <4>1
    <3>2. bloom' = [bloom EXCEPT ![n] = KeysOf(l), ![new] = KeysOf(r)]
      BY <1>1, <1>8
    <3>3. KeysOf(l) \in SUBSET Keys /\ KeysOf(r) \in SUBSET Keys
      BY <1>3, <3>1
    <3> QED
      BY <1>0, <3>2, <3>3 DEF NodeTypes
  <2>5. filterOn' \in [Node -> BOOLEAN]
    BY <1>0, <1>1 DEF NodeTypes
  <2>6. needSort' \in [Node -> BOOLEAN]
    BY <1>0, <1>1 DEF NodeTypes
  <2>7. store' \in [Keys -> Vals \cup {NoVal}]
    <3>1. call[t].name = "insert" => key(t) \in Keys /\ call[t].val \in Vals
      BY <1>0, RecordIs
    <3> QED
      BY <1>0, <1>1, <3>1 DEF NodeTypes
  <2> QED
    BY <2>1, <2>2, <2>3, <2>4, <2>5, <2>6, <2>7 DEF NodeTypes, IsBuffer
<1> QED
  BY <1>17, <1>18, <1>19, <1>20, <1>21, <1>22 DEF NodeInv

(* SetHkey makes the range what the split has already made it responsible   *)
(* for.                                                                     *)
LEMMA SetHkeyNodeStep ==
    ASSUME LockInv, TypeInv, RangeInv, NodeInv, NEW t \in Threads, harm = "none", SetHkey(t)
    PROVE  NodeTypes' /\ RangeInv' /\ NodeInv'
<1>a. PICK n : n = at[t]
  OBVIOUS
<1> USE <1>a
<1>0. PointerTypes /\ ResultTypes /\ pc \in [Threads -> Pcs] /\ NodeTypes
  BY DEF LockInv, TypeInv, PointerTypes
<1>1. /\ pc[t] = "setHkey" /\ pc' = [pc EXCEPT ![t] = "topInsert"]
      /\ hkey' = [hkey EXCEPT ![n] = lkey[next[n]]]
      /\ UNCHANGED <<nodes, lkey, next, lock, leaf, buf, bloom, filterOn, needSort, seqs, store, at, other>>
  BY DEF SetHkey, Goto, content, sorting, locals
<1>2. n \in Node /\ n \in Linked /\ n # DummyTail /\ Holds(t, n) /\ next[n] \in Node
  BY <1>1, HeldNodes, NodeSets DEF AtHeld, LockInv, ListOK
<1>3. OthersRest(t)
  BY <1>0, OnlyItsLocals DEF Step
<1>4. hkey'[n] = lkey[next[n]] /\ \A m \in Node \ {n} : hkey'[m] = hkey[m]
  BY <1>0, <1>1, <1>2 DEF NodeTypes
<1>5. Linked' = Linked /\ Allocated' = Allocated /\ Linked \subseteq Node
  BY <1>0, <1>1, <1>3, NodeSets DEF Linked, Live, Allocated, OffList, OthersRest
<1>6. ASSUME NEW m \in Node PROVE \A k : Owns(m, k)' <=> Owns(m, k)
  <2>1. CASE m = n
    <3>1. Changing(n, {"setHkey"}) /\ ~Changing(n, {"setHkey"})'
      <4>1. \A u \in Threads : pc[u] = "setHkey" /\ at[u] = n => u = t
        BY <1>2 DEF LockInv, Exclusive, Holds, AtHeld
      <4> QED
        BY <1>0, <1>1, <1>3, <4>1 DEF Changing, OthersRest
    <3> QED
      BY <1>1, <1>4, <2>1, <3>1 DEF Owns, Limit
  <2>2. CASE m # n
    <3>1. Changing(m, {"setHkey"})' <=> Changing(m, {"setHkey"})
      BY <1>0, <1>1, <1>3, <2>2 DEF Changing, OthersRest
    <3> QED
      BY <1>1, <1>4, <2>2, <3>1 DEF Owns, Limit
  <2> QED
    BY <2>1, <2>2
<1>7. RangeInv'
  BY <1>1, <1>5 DEF RangeInv
<1>8. LeavesInRange' /\ BuffersClean' /\ FiltersCover'
  <2>1. LeavesInRange'
    BY <1>1, <1>5, <1>6 DEF NodeInv, LeavesInRange
  <2>2. BuffersClean'
    BY <1>1, <1>5 DEF NodeInv, BuffersClean, Buffered
  <2>3. FiltersCover'
    BY <1>1, <1>5, <1>6 DEF NodeInv, FiltersCover
  <2> QED
    BY <2>1, <2>2, <2>3
<1>9. ASSUME NEW u \in Threads PROVE BatchOK(u)'
  <2>1. CASE u = t
    BY <1>0, <1>1, <2>1 DEF BatchOK
  <2>2. CASE u # t /\ pc[u] \in {"lockNext", "split"}
    <3>1. /\ pc'[u] = pc[u] /\ at'[u] = at[u] /\ todo'[u] = todo[u] /\ BatchOK(u)
      BY <1>3, <2>2 DEF OthersRest, NodeInv
    <3>2. at[u] \in Linked /\ at[u] \in Node /\ Holds(u, at[u])
      BY <2>2, HeldNodes DEF AtHeld
    <3>3. at[u] # n
      BY <1>2, <2>2, <3>2 DEF LockInv, Exclusive
    <3>4. lkey'[at'[u]] = lkey[at[u]] /\ hkey'[at'[u]] = hkey[at[u]]
      BY <1>1, <1>4, <3>1, <3>2, <3>3
    <3>5. \A k : InRange(at[u], k)' <=> InRange(at[u], k)
      BY <3>4 DEF InRange
    <3> QED
      BY <1>1, <2>2, <3>1, <3>5 DEF BatchOK
  <2>3. CASE u # t /\ pc[u] \notin {"lockNext", "split"}
    BY <1>3, <2>3 DEF OthersRest, BatchOK
  <2> QED
    BY <2>1, <2>2, <2>3
<1>10. NodeTypes'
  <2>1. lkey[next[n]] \in 0 .. MaxKey
    BY <1>0, <1>2 DEF NodeTypes
  <2>2. hkey' \in [Node -> 0 .. MaxKey]
    BY <1>0, <1>1, <2>1 DEF NodeTypes
  <2> QED
    BY <1>0, <1>1, <2>2 DEF NodeTypes, IsBuffer
<1> QED
  BY <1>7, <1>8, <1>9, <1>10 DEF NodeInv

(* A merge with a record left in the buffer of either node meets a defect. *)
LEMMA DeniedIsHarm ==
    ASSUME NEW t \in Threads, pc[t] = "merge", LeafCanMerge(leaf[at[t]], leaf[leafNext[at[t]]]),
           Harm(t) = "none"
    PROVE  buf[at[t]] = NoBuf /\ buf[next[at[t]]] = NoBuf
BY Zenon DEF Harm

(* The right neighbour's records move into the leaf, its range is added to  *)
(* the node's, and the filter is rebuilt from the leaf.                     *)
LEMMA MergeNodeStep ==
    ASSUME LockInv, TypeInv, RangeInv, NodeInv, NEW t \in Threads, harm = "none", harm' = Harm(t),
           Merge(t)
    PROVE  NodeTypes' /\ RangeInv' /\ NodeInv'
<1>a. PICK n, right : n = at[t] /\ right = next[at[t]]
  OBVIOUS
<1> USE <1>a
<1> DEFINE l == LeafMerge(leaf[n], leaf[right])
<1>0. PointerTypes /\ ResultTypes /\ pc \in [Threads -> Pcs] /\ NodeTypes
  BY DEF LockInv, TypeInv, PointerTypes
<1>1. pc[t] = "merge" /\ pc' = [pc EXCEPT ![t] = "unlink"]
  BY DEF Merge, Goto
<1>2. /\ n \in Node /\ n \in Linked /\ n # DummyTail /\ Holds(t, n) /\ isLocked(lock[n])
      /\ leaf[n] \in LeafOf(Keys, Vals) /\ Distinct(leaf[n])
      /\ \A k : Owns(n, k) <=> InRange(n, k)
      /\ \A k \in KeysOf(leaf[n]) : InRange(n, k)
      /\ hkey[n] = lkey[right] /\ leafNext[n] = right /\ right \in Linked /\ right \in Node
  BY <1>1, Here DEF AtHeld
<1>3. /\ LeafCanMerge(leaf[n], leaf[right])
      /\ leaf' = [leaf EXCEPT ![n] = l]
      /\ bloom' = [bloom EXCEPT ![n] = KeysOf(l)]
      /\ filterOn' = [filterOn EXCEPT ![n] = TRUE]
      /\ needSort' = [needSort EXCEPT ![n] = TRUE]
      /\ hkey' = [hkey EXCEPT ![n] = hkey[right]]
      /\ UNCHANGED <<nodes, lkey, next, lock, buf, seqs, store, at, other>>
  BY <1>2 DEF Merge, Goto, locals
<1>4. OthersRest(t)
  BY <1>0, OnlyItsLocals DEF Step
<1>5. other[t] = right /\ right # n /\ Holds(t, right) /\ right # DummyTail
  BY <1>1, HeldNodes DEF LockInv, ThreadOK, NeighbourOK, OtherHeld
<1>5a. ~Changing(right, {"setHkey", "unlink"})
  BY <1>2, <1>5, HeldIsUnchanging
<1>6. \A k : Owns(right, k) <=> InRange(right, k)
  <2>2. ~Changing(right, {"setHkey"})
    BY <1>5a DEF Changing
  <2> QED
    BY <2>2 DEF Owns, Limit, InRange
<1>7. leaf[right] \in LeafOf(Keys, Vals) /\ Distinct(leaf[right]) /\ \A k \in KeysOf(leaf[right]) : InRange(right, k)
  BY <1>0, <1>2, <1>6 DEF NodeInv, LeavesInRange, NodeTypes
<1>8. lkey[n] < lkey[right] /\ lkey[n] \in Nat /\ lkey[right] \in Nat /\ hkey[right] \in Nat
  BY <1>0, <1>2 DEF RangeInv, NodeTypes
<1>9. \A x \in LeafOf(Keys, Vals) : KeysOf(x) \subseteq Keys
  <2>1. ASSUME NEW x \in LeafOf(Keys, Vals) PROVE KeysOf(x) \subseteq Keys
    <3>1. \A i \in ValidBitSet(x) : x[i] \in RecOf(Keys, Vals)
      BY LeafSets
    <3>2. \A y \in RecOf(Keys, Vals) : y.key \in Keys
      BY DEF RecOf
    <3> QED
      BY <3>1, <3>2 DEF KeysOf
  <2> QED
    BY <2>1
<1>10. KeysOf(leaf[n]) \cap KeysOf(leaf[right]) = {}
  <2>1. \A k \in KeysOf(leaf[n]) : k < lkey[right] /\ k \in Nat
    BY <1>2, <1>9, KeysAre DEF InRange
  <2>2. \A k \in KeysOf(leaf[right]) : lkey[right] <= k
    BY <1>7 DEF InRange
  <2> QED
    BY <1>8, <2>1, <2>2
<1>11. l \in LeafOf(Keys, Vals) /\ Distinct(l) /\ KeysOf(l) = KeysOf(leaf[n]) \cup KeysOf(leaf[right])
  BY <1>2, <1>3, <1>7, <1>10, LeafMergeIs
<1> HIDE DEF l
<1>12. /\ leaf'[n] = l /\ bloom'[n] = KeysOf(l) /\ hkey'[n] = hkey[right]
       /\ \A m \in Node \ {n} : /\ leaf'[m] = leaf[m] /\ bloom'[m] = bloom[m]
                                /\ filterOn'[m] = filterOn[m] /\ hkey'[m] = hkey[m]
  BY <1>0, <1>2, <1>3 DEF NodeTypes
<1>13. Linked' = Linked /\ Allocated' = Allocated /\ Linked \subseteq Node
  BY <1>0, <1>1, <1>3, <1>4, NodeSets DEF Linked, Live, Allocated, OffList, OthersRest
<1>14. \A m : Changing(m, {"setHkey"})' <=> Changing(m, {"setHkey"})
  BY <1>0, <1>1, <1>3, <1>4 DEF Changing, OthersRest
<1>15. ~Changing(n, {"setHkey"})
  <2>1. ~Changing(n, {"setHkey", "unlink"})
    BY <1>1, <1>2, HeldIsUnchanging
  <2> QED
    BY <2>1 DEF Changing
<1>16. \A k : Owns(n, k)' <=> lkey[n] <= k /\ k < hkey[right]
  BY <1>3, <1>12, <1>14, <1>15 DEF Owns, Limit
<1>17. \A m \in Node \ {n} : \A k : Owns(m, k)' <=> Owns(m, k)
  BY <1>3, <1>12, <1>14 DEF Owns, Limit
<1>18. RangeInv'
  BY <1>3, <1>13 DEF RangeInv
<1>19. LeavesInRange'
  <2>1. ASSUME NEW k \in KeysOf(l) PROVE Owns(n, k)'
    <3>1. k \in Nat
      BY <1>9, <1>11, KeysAre
    <3>2. CASE k \in KeysOf(leaf[n])
      <4>1. lkey[right] < hkey[right]
        BY <1>2, <1>5, <1>5a DEF RangeInv, LockInv, RangesMeet, ListOK
      <4> QED
        BY <1>2, <1>8, <1>16, <3>1, <3>2, <4>1 DEF InRange
    <3>3. CASE k \in KeysOf(leaf[right])
      BY <1>7, <1>8, <1>16, <3>1, <3>3 DEF InRange
    <3> QED
      BY <1>11, <3>2, <3>3
  <2>2. ASSUME NEW m \in Linked \ {n} PROVE Distinct(leaf'[m]) /\ \A k \in KeysOf(leaf'[m]) : Owns(m, k)'
    BY <1>12, <1>13, <1>17 DEF NodeInv, LeavesInRange
  <2> QED
    BY <1>11, <1>12, <1>13, <2>1, <2>2 DEF LeavesInRange
<1>20. BuffersClean'
  BY <1>3, <1>13 DEF NodeInv, BuffersClean, Buffered
<1>21. FiltersCover'
  <2> SUFFICES ASSUME NEW m \in Linked, filterOn'[m], harm' = "none" \/ ~isLocked(lock[m]),
                      NEW k \in KeysOf(leaf'[m]) \cup DOMAIN buf[m], Owns(m, k)'
               PROVE  k \in bloom'[m]
    BY <1>3, <1>13 DEF FiltersCover
  <2>1. CASE m = n
    <3>1. buf[n] = NoBuf
      BY <1>1, <1>2, <1>3, <2>1, DeniedIsHarm
    <3> QED
      BY <1>12, <2>1, <3>1, NoBufIs
  <2>2. CASE m # n
    BY <1>12, <1>13, <1>17, <2>2 DEF NodeInv, FiltersCover
  <2> QED
    BY <2>1, <2>2
<1>22. ASSUME NEW u \in Threads PROVE BatchOK(u)'
  <2>1. CASE u = t
    BY <1>0, <1>1, <2>1 DEF BatchOK
  <2>2. CASE u # t /\ pc[u] \in {"lockNext", "split"}
    <3>1. /\ pc'[u] = pc[u] /\ at'[u] = at[u] /\ todo'[u] = todo[u] /\ BatchOK(u)
      BY <1>4, <2>2 DEF OthersRest, NodeInv
    <3>2. at[u] \in Linked /\ at[u] \in Node /\ Holds(u, at[u])
      BY <2>2, HeldNodes DEF AtHeld
    <3>3. at[u] # n
      BY <1>2, <2>2, <3>2 DEF LockInv, Exclusive
    <3>4. lkey'[at'[u]] = lkey[at[u]] /\ hkey'[at'[u]] = hkey[at[u]] /\ leaf'[at[u]] = leaf[at[u]]
      BY <1>3, <1>12, <3>1, <3>2, <3>3
    <3>5. \A k : InRange(at[u], k)' <=> InRange(at[u], k)
      BY <3>4 DEF InRange
    <3> QED
      BY <1>3, <2>2, <3>1, <3>4, <3>5 DEF BatchOK
  <2>3. CASE u # t /\ pc[u] \notin {"lockNext", "split"}
    BY <1>4, <2>3 DEF OthersRest, BatchOK
  <2> QED
    BY <2>1, <2>2, <2>3
<1>23. NodeTypes'
  <2>1. hkey[right] \in 0 .. MaxKey /\ KeysOf(l) \in SUBSET Keys
    BY <1>0, <1>2, <1>9, <1>11 DEF NodeTypes
  <2>2. hkey' \in [Node -> 0 .. MaxKey] /\ leaf' \in [Node -> LeafOf(Keys, Vals)]
    BY <1>0, <1>3, <1>11, <2>1 DEF NodeTypes
  <2>3. bloom' \in [Node -> SUBSET Keys]
    BY <1>0, <1>3, <2>1 DEF NodeTypes
  <2>4. filterOn' \in [Node -> BOOLEAN]
    BY <1>0, <1>3 DEF NodeTypes
  <2>5. needSort' \in [Node -> BOOLEAN]
    BY <1>0, <1>3 DEF NodeTypes
  <2> QED
    BY <1>0, <1>3, <2>2, <2>3, <2>4, <2>5 DEF NodeTypes, IsBuffer
<1> QED
  BY <1>18, <1>19, <1>20, <1>21, <1>22, <1>23 DEF NodeInv

(* The merged node leaves the list. *)
LEMMA UnlinkNodeStep ==
    ASSUME LockInv, TypeInv, RangeInv, NodeInv, NEW t \in Threads, harm = "none", Unlink(t)
    PROVE  NodeTypes' /\ RangeInv' /\ NodeInv'
<1>a. PICK n, gone, right : n = at[t] /\ gone = next[at[t]] /\ right = next[next[at[t]]]
  OBVIOUS
<1> USE <1>a
<1>0. PointerTypes /\ ResultTypes /\ pc \in [Threads -> Pcs] /\ NodeTypes /\ next \in [Node -> Node \cup {Null}]
  BY DEF LockInv, TypeInv, PointerTypes
<1>1. /\ pc[t] = "unlink" /\ pc' = [pc EXCEPT ![t] = "topRemove"]
      /\ next' = [next EXCEPT ![n] = right]
      /\ UNCHANGED <<nodes, lkey, hkey, lock, leaf, buf, bloom, filterOn, needSort, seqs, store, at, other>>
  BY DEF Unlink, Goto, content, sorting, locals
<1>2. n \in Node /\ n \in Linked /\ n # DummyTail /\ Holds(t, n)
  BY <1>1, HeldNodes DEF AtHeld
<1>3. OthersRest(t)
  BY <1>0, OnlyItsLocals DEF Step
<1>4. other[t] = gone /\ gone # DummyTail /\ gone # n
  BY <1>1 DEF LockInv, ThreadOK, NeighbourOK, OtherHeld
<1>5. gone \in Linked /\ right \in Linked
  BY <1>2, <1>4 DEF LockInv, ListOK
<1>6. Linked' \subseteq Linked \ {gone} /\ Allocated' = Allocated /\ Linked \subseteq Node
  <2>1. Live' = Live /\ Allocated' = Allocated
    BY <1>1 DEF Live, Allocated
  <2>2. \A u \in Threads : pc[u] \in OffList => pc'[u] \in OffList /\ other'[u] = other[u]
    BY <1>1, <1>3 DEF OthersRest, OffList
  <2>3. pc'[t] \in OffList /\ other'[t] = gone
    BY <1>0, <1>1, <1>4 DEF OffList
  <2> QED
    BY <2>1, <2>2, <2>3, NodeSets DEF Linked
<1>7. next'[n] = right /\ \A m \in Node \ {n} : next'[m] = next[m]
  BY <1>0, <1>1, <1>2
<1>8. lkey \in [Node -> Nat]
  BY <1>0 DEF NodeTypes
<1>9. lkey[n] < lkey[right]
  <2>1. lkey[n] < lkey[gone] /\ lkey[gone] < lkey[right]
    BY <1>2, <1>4, <1>5 DEF RangeInv
  <2>2. lkey[n] \in Nat /\ lkey[gone] \in Nat /\ lkey[right] \in Nat
    BY <1>2, <1>5, <1>6, <1>8
  <2> QED
    BY <2>1, <2>2
<1>10. RangeInv'
  BY <1>1, <1>6, <1>7, <1>9 DEF RangeInv
<1>11. \A m \in Node : \A k : Owns(m, k)' <=> Owns(m, k)
  <2>1. \A m : Changing(m, {"setHkey"})' <=> Changing(m, {"setHkey"})
    BY <1>0, <1>1, <1>3 DEF Changing, OthersRest
  <2>2. ~Changing(n, {"setHkey"})
    BY <1>1, <1>2 DEF Changing, LockInv, Exclusive, Holds, AtHeld
  <2>3. \A m \in Node : Limit(m)' = Limit(m)
    BY <1>1, <1>7, <2>1, <2>2 DEF Limit
  <2> QED
    BY <1>1, <2>3 DEF Owns
<1>12. LeavesInRange'
  BY <1>1, <1>6, <1>11 DEF NodeInv, LeavesInRange
<1>13. BuffersClean'
  BY <1>1, <1>6 DEF NodeInv, BuffersClean, Buffered
<1>14. FiltersCover'
  BY <1>1, <1>6, <1>11 DEF NodeInv, FiltersCover
<1>15. ASSUME NEW u \in Threads PROVE BatchOK(u)'
  <2>1. CASE u = t
    BY <1>0, <1>1, <2>1 DEF BatchOK
  <2>2. CASE u # t
    <3>1. /\ pc'[u] = pc[u] /\ at'[u] = at[u] /\ todo'[u] = todo[u] /\ BatchOK(u)
      BY <1>3, <2>2 DEF OthersRest, NodeInv
    <3> QED
      BY <1>1, <3>1 DEF BatchOK, InRange
  <2> QED
    BY <2>1, <2>2
<1>16. NodeTypes'
  BY <1>0, <1>1 DEF NodeTypes, IsBuffer
<1> QED
  BY <1>10, <1>12, <1>13, <1>14, <1>15, <1>16 DEF NodeInv

(* A quiet step changes no type: at most it sorts a leaf. *)
LEMMA QuietTypes ==
    ASSUME LockInv, TypeInv, NEW t \in Threads, Quiet(t)
    PROVE  NodeTypes'
<1>1. PointerTypes /\ NodeTypes
  BY DEF LockInv, TypeInv
<1>2. UNCHANGED <<nodes, lkey, hkey, next, leaf, buf, bloom, filterOn, store>>
  BY <1>1, QuietData
<1>3. needSort' \in [Node -> BOOLEAN] /\ seqs' \in [Node -> [Slot -> Slot \cup {0}]]
  <2>1. CASE UNCHANGED <<needSort, seqs>>
    BY <1>1, <2>1 DEF NodeTypes
  <2>2. CASE ScanSorted(t)
    <3>1. /\ pc[t] = "scanSorted" /\ needSort' = [needSort EXCEPT ![at[t]] = FALSE]
          /\ seqs' = [seqs EXCEPT ![at[t]] = LeafSort(leaf[at[t]], seqs[at[t]])]
      BY <2>2 DEF ScanSorted, Goto, NowSorted
    <3>2. at[t] \in Node
      BY <3>1, HeldNodes DEF AtHeld
    <3>3. leaf[at[t]] \in LeafOf(Keys, Vals) /\ seqs[at[t]] \in [Slot -> Slot \cup {0}]
      BY <1>1, <3>2 DEF NodeTypes
    <3>4. LeafSort(leaf[at[t]], seqs[at[t]]) \in [Slot -> Slot \cup {0}]
      BY <3>3, KeysAre, LeafSortIs
    <3>5. needSort' \in [Node -> BOOLEAN]
      BY <1>1, <3>1 DEF NodeTypes
    <3>6. seqs' \in [Node -> [Slot -> Slot \cup {0}]]
      BY <1>1, <3>1, <3>4 DEF NodeTypes
    <3> QED
      BY <3>5, <3>6
  <2> USE DEF Retry, middle, content, sorting, shared, scans, locals
  <2>3. CASE Invoke(t) \/ Return(t) \/ SeekLE(t) \/ WalkLeft(t) \/ WalkRight(t) \/ ReadLock(t)
             \/ ReadBloom(t) \/ CheckBloom(t) \/ ReadBuffer(t) \/ ReadLeaf(t) \/ CheckValue(t)
    BY <2>1, <2>3 DEF Invoke, Return, SeekLE, WalkLeft, WalkRight, ReadLock, ReadBloom, CheckBloom,
                      ReadBuffer, ReadLeaf, CheckValue
  <2>4. CASE Upgrade(t) \/ StartSplit(t) \/ LockNext(t) \/ TopInsert(t) \/ UnlockLeft(t) \/ UnlockNext(t)
             \/ MergeCheck(t) \/ MergeRead(t) \/ MergeCas(t) \/ MergeFails(t) \/ TopRemove(t)
             \/ UnlockObsolete(t) \/ Unlock(t)
    BY <2>1, <2>4 DEF Upgrade, StartSplit, LockNext, TopInsert, UnlockLeft, UnlockNext, MergeCheck,
                      MergeRead, MergeCas, MergeFails, TopRemove, UnlockObsolete, Unlock
  <2>5. CASE ScanLock(t) \/ ScanNode(t) \/ ScanUpgrade(t) \/ ScanUnlock(t) \/ ScanSort(t) \/ ScanRelock(t)
             \/ ScanRead(t) \/ ScanCheck(t) \/ ScanAdvance(t) \/ ScanNext(t)
    BY <2>1, <2>5 DEF ScanLock, ScanNode, ScanUpgrade, ScanUnlock, ScanSort, ScanRelock, ScanVersion,
                      ScanRead, ScanCheck, ScanAdvance, ScanNext
  <2> QED
    BY <2>2, <2>3, <2>4, <2>5, Zenon DEF Quiet
<1> QED
  BY <1>1, <1>2, <1>3 DEF NodeTypes, IsBuffer

-----------------------------------------------------------------------------
(* All together.                                                           *)

(* The inductive invariant of the middle layer, on top of LockInv. *)
NodesInv == TypeInv /\ RangeInv /\ SnapshotInv /\ NodeInv

(* The name of a met defect is one of the list. *)
LEMMA HarmIs == \A t \in Threads : Harm(t) \in Harms
BY Zenon DEF Harm, Harms

(* Every step preserves it. *)
LEMMA NextNodesInv == LockInv /\ NodesInv /\ [Next]_vars => NodesInv'
<1> SUFFICES ASSUME LockInv, NodesInv, [Next]_vars PROVE NodesInv'
  OBVIOUS
<1>0. TypeInv /\ RangeInv /\ SnapshotInv /\ NodeInv
  BY DEF NodesInv
<1>1. CASE UNCHANGED vars
  <2>1. /\ UNCHANGED <<nodes, lkey, hkey, next, leaf, buf, bloom, filterOn, needSort, seqs, store, lock>>
        /\ UNCHANGED <<todo, got, res, out, done, harm, pc, call, at, ver, other>>
    BY <1>1 DEF vars, middle, content, sorting, locals, scans
  <2>2. TypeInv'
    BY <1>0, <2>1 DEF TypeInv, NodeTypes, ResultTypes, Doing, Room, IsBuffer, Buffered
  <2>3. Linked' = Linked /\ Allocated' = Allocated /\ \A n, k : Owns(n, k)' <=> Owns(n, k)
    <3>1. Linked' = Linked /\ Allocated' = Allocated
      BY <2>1 DEF Linked, Live, Allocated
    <3>2. \A n, k : Owns(n, k)' <=> Owns(n, k)
      BY <2>1 DEF Owns, Limit, Changing
    <3> QED
      BY <3>1, <3>2
  <2>4. RangeInv'
    BY <1>0, <2>1, <2>3 DEF RangeInv
  <2>5. SnapshotInv'
    BY <1>0, <2>1 DEF SnapshotInv, Snapshot, InRange, key
  <2>6. LeavesInRange' /\ BuffersClean'
    BY <1>0, <2>1, <2>3 DEF NodeInv, LeavesInRange, BuffersClean, Buffered
  <2>7. FiltersCover'
    BY <1>0, <2>1, <2>3 DEF NodeInv, FiltersCover
  <2>8. \A t \in Threads : BatchOK(t)'
    BY <1>0, <2>1 DEF NodeInv, BatchOK, InRange
  <2> QED
    BY <2>2, <2>4, <2>5, <2>6, <2>7, <2>8 DEF NodesInv, NodeInv
<1>2. ASSUME NEW t \in Threads, Run(t) PROVE NodesInv'
  <2>1. harm = "none" /\ harm' = Harm(t) /\ (Invoke(t) \/ Step(t))
    BY <1>2 DEF Run
  <2>2. ResultTypes' /\ (\A u \in Threads : Room(u)' /\ Doing(u)') /\ harm' \in Harms
    BY <1>0, <2>1, ResultStep, DoingStep, HarmIs
  <2>3. SnapshotInv'
    BY <1>0, <2>1, SnapshotStep DEF TypeInv
  <2>4. NodeTypes' /\ RangeInv' /\ NodeInv'
    <3>1. CASE Quiet(t)
      BY <1>0, <2>1, <3>1, QuietTypes, QuietInv
    <3>2. CASE InsertToBuffer(t)
      BY <1>0, <2>1, <3>2, InsertToBufferStep
    <3>3. CASE InsertToLeaf(t)
      BY <1>0, <2>1, <3>3, InsertToLeafStep
    <3>4. CASE FlushMLNodeBuffer(t)
      BY <1>0, <2>1, <3>4, FlushStep
    <3>5. CASE Split(t)
      BY <1>0, <2>1, <3>5, SplitNodeStep
    <3>6. CASE SetHkey(t)
      BY <1>0, <2>1, <3>6, SetHkeyNodeStep
    <3>7. CASE ResetBuffer(t)
      BY <1>0, <2>1, <3>7, ResetBufferStep
    <3>8. CASE RemoveLocked(t)
      BY <1>0, <2>1, <3>8, RemoveLockedStep
    <3>9. CASE Merge(t)
      BY <1>0, <2>1, <3>9, MergeNodeStep
    <3>10. CASE Unlink(t)
      BY <1>0, <2>1, <3>10, UnlinkNodeStep
    <3> QED
      BY <2>1, QuietOrWrites, <3>1, <3>2, <3>3, <3>4, <3>5, <3>6, <3>7, <3>8, <3>9, <3>10 DEF Writes
  <2> QED
    BY <2>2, <2>3, <2>4 DEF NodesInv, TypeInv
<1> QED
  BY <1>1, <1>2 DEF Next, Finished

(* In every state of every run of any size, the four invariants hold. *)
THEOREM SpecNodesInv == Spec => [](LockInv /\ NodesInv)
<1>1. Init => LockInv /\ NodesInv
  BY InitLockInv, InitTypeInv, InitNodeInv DEF NodesInv
<1>2. LockInv /\ NodesInv /\ [Next]_vars => (LockInv /\ NodesInv)'
  BY NextLockInv, NextNodesInv
<1> QED
  BY <1>1, <1>2, PTL DEF Spec

(* What a thread finds that comes to an unlocked node. *)
LEMMA InvImpliesNodesSound == LockInv /\ NodesInv => NodesSound
<1> SUFFICES ASSUME LockInv, NodesInv PROVE NodesSound
  OBVIOUS
<1>0. TypeInv /\ RangeInv /\ NodeInv /\ NodeTypes /\ ResultTypes /\ PointerTypes
  BY DEF NodesInv, TypeInv, LockInv
<1>1. TypeOK
  <2>1. \A n \in Node : \A i \in Slot :
           leaf[n][i] = NoRec \/ leaf[n][i] \in [key : Keys, val : Vals, valid : BOOLEAN]
    BY <1>0 DEF NodeTypes, LeafOf, Slots
  <2>2. \A n \in Node : DOMAIN buf[n] \subseteq Keys /\ \A k \in DOMAIN buf[n] : buf[n][k] \in Vals
    BY <1>0 DEF NodeTypes, IsBuffer
  <2>3. top \subseteq Node /\ nodes \in Node
    BY <1>0, NodeSets DEF PointerTypes
  <2>4. harm \in Harms
    BY <1>0 DEF TypeInv
  <2> QED
    BY <1>0, <2>1, <2>2, <2>3, <2>4 DEF TypeOK, NodeTypes, ResultTypes, PointerTypes
<1>2. ASSUME NEW n \in Live, ~isLocked(lock[n])
      PROVE  n \in Linked /\ n \in Node /\ ~Changing(n, {"setHkey", "unlink"}) /\ ~Changing(n, {"unlink"})
             /\ \A k : Owns(n, k) <=> InRange(n, k)
  <2>1. n \in Linked /\ n \in Node
    BY <1>2, FreeIsLinked, NodeSets DEF Live, Free, Allocated
  <2>2. \A t \in Threads : pc[t] \in AtHeld => at[t] # n
    BY <1>2 DEF LockInv, ThreadOK, AtHeldOK
  <2>3. ~Changing(n, {"setHkey", "unlink"}) /\ ~Changing(n, {"unlink"}) /\ ~Changing(n, {"setHkey"})
    BY <2>2 DEF Changing, AtHeld
  <2> QED
    BY <2>1, <2>3 DEF Owns, Limit, InRange
<1>3. LinksFollowRanges
  <2> SUFFICES ASSUME NEW n \in Live \ {DummyTail}, ~isLocked(lock[n])
               PROVE  /\ next[n] \in Live /\ lkey[n] < hkey[n] /\ hkey[n] = lkey[next[n]]
                      /\ prev[next[n]] = n /\ leafNext[n] = next[n]
    BY DEF LinksFollowRanges
  <2>1. n \in Linked \ {DummyTail} /\ ~Changing(n, {"setHkey", "unlink"}) /\ ~Changing(n, {"unlink"})
    BY <1>2
  <2>2. next[n] \in Linked /\ prev[next[n]] = n /\ hkey[n] = lkey[next[n]] /\ leafNext[n] = next[n]
    BY <2>1 DEF LockInv, ListOK, RangesMeet
  <2> QED
    BY <1>0, <2>1, <2>2 DEF RangeInv, Linked
<1>4. FilterCoversNode
  BY <1>0, <1>2 DEF FilterCoversNode, NodeInv, FiltersCover
<1> QED
  BY <1>1, <1>3, <1>4 DEF NodesSound

(* Through any splits, merges, flushes and late buffer resets of any number *)
(* of threads, an unlocked node has its range, its links, its leaf link and *)
(* a Bloom filter that denies nothing the node holds.                       *)
THEOREM MiddleLayerSound == Spec => []NodesSound
BY SpecNodesInv, InvImpliesNodesSound, PTL

(* The records that a split distributes are counted. *)
LEMMA InvImpliesSplitFits == LockInv /\ NodesInv => SplitFits
<1> SUFFICES ASSUME LockInv, NodesInv, NEW t \in Threads, pc[t] = "split"
             PROVE  LET old    == leaf[at[t]]
                        median == Median(old)
                        left   == Cardinality({i \in ValidBitSet(old) : old[i].key < median})
                    IN  /\ left + Len(Below(todo[t], median)) <= LeafCapacity
                        /\ Count(old) - left + Len(AtLeast(todo[t], median)) <= LeafCapacity
  BY DEF SplitFits
<1> DEFINE old == leaf[at[t]]
           recs == todo[t]
           M == Median(old)
           left == Cardinality({i \in ValidBitSet(old) : old[i].key < M})
<1>0. TypeInv /\ NodeInv
  BY DEF NodesInv
<1>1. /\ Count(old) \div 2 + Len(recs) <= LeafCapacity
      /\ Count(old) - Count(old) \div 2 + Len(recs) <= LeafCapacity
      /\ M \in Keys
  BY <1>0, SplitLeaves
<1>2. old \in LeafOf(Keys, Vals) /\ Distinct(old) /\ Count(old) >= 2 /\ Count(old) \in Nat
  <2>1. at[t] \in Node
    BY HeldNodes DEF AtHeld
  <2> QED
    BY <1>0, <2>1, CountIs DEF TypeInv, NodeInv, BatchOK
<1>3. recs \in Seq(RecOf(Keys, Vals)) /\ Len(recs) \in Nat
  BY <1>0 DEF TypeInv, ResultTypes
<1> HIDE DEF old, recs
<1>4. left = Count(old) \div 2
  BY <1>2, KeysAre, MedianIs
<1>5. /\ Below(recs, M) \in Seq(RecOf(Keys, Vals)) /\ Len(Below(recs, M)) <= Len(recs)
      /\ AtLeast(recs, M) \in Seq(RecOf(Keys, Vals)) /\ Len(AtLeast(recs, M)) <= Len(recs)
  <2>1. M \in Nat /\ Keys \in SUBSET Nat
    BY <1>1, KeysAre
  <2> HIDE DEF M
  <2> QED
    BY <1>3, <2>1, SidesAre
<1>6. Len(Below(recs, M)) \in Nat /\ Len(AtLeast(recs, M)) \in Nat
  BY <1>5
<1> HIDE DEF left, M
<1>7. /\ left + Len(Below(recs, M)) <= LeafCapacity
      /\ Count(old) - left + Len(AtLeast(recs, M)) <= LeafCapacity
  BY <1>1, <1>2, <1>3, <1>4, <1>5, <1>6, LeafCapacityAssumption
<1> QED
  BY <1>7 DEF old, recs, M, left

(* LeafNode64::Split never runs out of slots, whatever the write buffer and *)
(* the insert bring to it.                                                  *)
THEOREM SplitAlwaysFits == Spec => []SplitFits
BY SpecNodesInv, InvImpliesSplitFits, PTL
=============================================================================
