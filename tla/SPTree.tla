------------------------------- MODULE SPTree -------------------------------
(***************************************************************************)
(* SPTree (spoton-tree/sptree.cc): the insert, lookup, remove and scan     *)
(* calls of concurrent threads on the three layers of the tree,            *)
(*                                                                         *)
(*    top layer      an index from low keys to middle-layer nodes (ART)    *)
(*    middle layer   a doubly linked list of MLNodes, each with a key      *)
(*                   range, a version lock, a Bloom filter and, optionally,*)
(*                   a write buffer                                        *)
(*    bottom layer   one LeafNode64 per MLNode                             *)
(*                                                                         *)
(* in the configuration CreateSPTree (isDram = true, .., withLog = false): *)
(* no write-ahead log, and no persistent copy of the top layer.            *)
(*                                                                         *)
(* A step is what one thread does between two accesses of shared state     *)
(* that other threads can order differently.  Everything a thread writes   *)
(* under a node's lock is visible to optimistic readers at once, before    *)
(* the unlock: only their version check protects them.                     *)
(***************************************************************************)
EXTENDS Integers, LeafNode64, VersionWord

CONSTANTS Threads,
          Keys,             \* the keys that callers use
          Vals,             \* the values (TIDs) that callers insert
          ScanSizes,        \* the result sizes that scans ask for
          MaxKey,           \* UINT64_MAX, larger than every key
          WithBuffer,       \* mEnableWriteBuffer
          BufferCapacity,   \* slots of a NodeBuffer (14)
          MergeLow,         \* a leaf with fewer records looks for a merge (2)
          MergeHigh,        \* ... with a sibling that has fewer than this (32)
          Workloads,        \* bound: what the threads do, see Workload
          MaxNodes          \* bound: MLNodes ever allocated

MinKey == 1                                     \* kSPTreeMinKey

ASSUME KeysAssumption ==
    /\ MaxKey \in Nat
    /\ Keys \subseteq MinKey .. (MaxKey - 1) /\ Keys # {}
ASSUME ValsAssumption == Vals \subseteq Nat \ {NoVal} /\ ScanSizes \subseteq Nat \ {0}
ASSUME FlagAssumption == WithBuffer \in BOOLEAN
(* 64, 14, 2 and 32 in the code: half a leaf takes a whole buffer and one   *)
(* more record, and a merge within the thresholds fits into a leaf.         *)
ASSUME CapacityAssumption ==
    /\ BufferCapacity \in Nat \ {0}
    /\ MergeLow \in Nat /\ MergeHigh \in Nat
    /\ 1 + (IF WithBuffer THEN BufferCapacity ELSE 0) <= LeafCapacity \div 2
    /\ MergeLow + MergeHigh <= LeafCapacity + 2
ASSUME BoundsAssumption == MaxNodes \in Nat /\ MaxNodes >= 2

Null == 0
HeadNode == 1                                       \* mMidLayer.head
DummyTail == 2                                       \* mMidLayer.dummyTail
Node == 1 .. MaxNodes

(* For a scan, key is the startKey and val the resultSize. *)
Call    == [name : {"insert"}, key : Keys, val : Vals]
           \cup [name : {"remove", "lookup"}, key : Keys, val : {NoVal}]
           \cup [name : {"scan"}, key : Keys, val : ScanSizes]
Pending == -1                                   \* res of a call that has not taken effect
NoBuf   == [k \in {} |-> NoVal]                 \* an empty NodeBuffer

(* loaded is the first leaf's content, as a single-threaded run of inserts  *)
(* leaves it; with filtersOff the head's Bloom filter starts disabled, as   *)
(* after a recovery; the i-th call of thread t is one of calls[t][i].       *)
IsWorkload(w) ==
    /\ w.loaded \in Seq([key : Keys, val : Vals, valid : {TRUE}]) /\ Len(w.loaded) <= LeafCapacity
    /\ \A i, j \in 1 .. Len(w.loaded) : w.loaded[i].key = w.loaded[j].key => i = j
    /\ w.filtersOff \in BOOLEAN
    /\ w.calls \in [Threads -> Seq(SUBSET Call)]
ASSUME WorkloadsAssumption == \A w \in Workloads : IsWorkload(w)

VARIABLES
    \* the middle layer
    nodes,              \* nodes 1 .. nodes are allocated
    lkey, hkey,         \* the key range [lkey, hkey) of a node
    prev, next,
    lock,               \* the word of its RetryVersionLock
    buf,                \* its NodeBuffer, a function from the buffered keys
    bloom,              \* the keys set in its Bloom filter
    filterOn,           \* ~isDisabled
    \* the bottom layer
    leaf,               \* the slots of its LeafNode64
    leafNext,           \* the leaf list, as a function on the nodes
    needSort,           \* cur_version # sort_version
    seqs,               \* its sorted slot numbers, 0 where never written
    \* the top layer
    top,                \* the nodes it has an entry (lkey -> node) for
    \* the threads
    pc, call, at, ver, other, got, todo, res, calls,
    out,                \* the records a scan has collected
    done,               \* how many of them are from validated nodes (curOff)
    \* history
    store,              \* the map that the calls which took effect have written
    work,               \* the workload of this behaviour
    harm                \* the name of the known defect that has been met, see Harm

middle  == <<nodes, lkey, hkey, prev, next>>
sorting == <<needSort, seqs>>
content == <<buf, bloom, filterOn, leaf, leafNext, sorting>>
scans   == <<out, done>>
locals  == <<call, at, ver, other, got, todo, res, calls, scans>>
vars    == <<middle, lock, content, top, pc, locals, store, work, harm>>

Pcs == {"idle", "seek", "walkLeft", "walkRight", "readLock", "null",
        "bloom", "checkBloom", "readBuffer", "readLeaf", "checkValue",
        "upgrade", "insertLocked", "lockNext", "split", "setHkey", "topInsert",
        "unlockLeft", "unlockNext", "resetBuffer",
        "removeLocked", "mergeCheck", "mergeRead", "mergeCas", "merge", "unlink",
        "topRemove", "unlockObsolete", "unlock", "return",
        "scanLock", "scanNode", "scanUpgrade", "scanFlush", "scanUnlock", "scanSort",
        "scanSorted", "scanRelock", "scanRead", "scanCheck", "scanAdvance", "scanNext", "exit"}

Buffered(n) == WithBuffer /\ n \notin {HeadNode, DummyTail}   \* type == MLNodeTypeWithBuffer

Init ==
    /\ work \in Workloads
    /\ harm = "none"
    /\ nodes = 2
    /\ lkey = [n \in Node |-> CASE n = HeadNode -> MinKey [] n = DummyTail -> MaxKey [] OTHER -> 0]
    /\ hkey = [n \in Node |-> IF n \in {HeadNode, DummyTail} THEN MaxKey ELSE 0]
    /\ prev = [n \in Node |-> IF n = DummyTail THEN HeadNode ELSE Null]
    /\ next = [n \in Node |-> IF n = HeadNode THEN DummyTail ELSE Null]
    /\ lock = [n \in Node |-> InitWord]
    /\ buf = [n \in Node |-> NoBuf]
    /\ bloom = [n \in Node |-> IF n = HeadNode /\ ~work.filtersOff
                               THEN {work.loaded[i].key : i \in 1 .. Len(work.loaded)} ELSE {}]
    /\ filterOn = [n \in Node |-> n = DummyTail \/ (n = HeadNode /\ ~work.filtersOff)]
    /\ leaf = [n \in Node |-> IF n = HeadNode THEN FillEmptySlots(EmptyLeaf, work.loaded) ELSE EmptyLeaf]
    /\ leafNext = [n \in Node |-> IF n = HeadNode THEN DummyTail ELSE Null]
    /\ needSort = [n \in Node |-> TRUE]
    /\ seqs = [n \in Node |-> [i \in Slot |-> 0]]
    /\ top = {HeadNode}
    /\ out = [t \in Threads |-> <<>>]
    /\ done = [t \in Threads |-> 0]
    /\ pc = [t \in Threads |-> "idle"]
    /\ call = [t \in Threads |-> CHOOSE c \in Call : TRUE]
    /\ at = [t \in Threads |-> Null]
    /\ ver = [t \in Threads |-> 0]
    /\ other = [t \in Threads |-> Null]
    /\ got = [t \in Threads |-> NoVal]
    /\ todo = [t \in Threads |-> <<>>]
    /\ res = [t \in Threads |-> Pending]
    /\ calls = [t \in Threads |-> 0]
    /\ store = [k \in Keys |-> LeafLookup(leaf[HeadNode], k)]

-----------------------------------------------------------------------------
(* Helpers. *)

shared == <<middle, lock, content, top, store>>

key(t) == call[t].key

Goto(t, from, to) == pc[t] = from /\ pc' = [pc EXCEPT ![t] = to]

(* goto retry, in every operation: the locals are dead *)
Retry(t) ==
    /\ pc' = [pc EXCEPT ![t] = "seek"]
    /\ at' = [at EXCEPT ![t] = Null]
    /\ ver' = [ver EXCEPT ![t] = 0]
    /\ got' = [got EXCEPT ![t] = NoVal]
    /\ other' = [other EXCEPT ![t] = Null]
    /\ todo' = [todo EXCEPT ![t] = <<>>]
    /\ out' = [out EXCEPT ![t] = <<>>]
    /\ done' = [done EXCEPT ![t] = 0]
    /\ UNCHANGED <<call, res, calls>>

(* The call takes effect: its result is fixed. *)
Effect(t, result) == res' = [res EXCEPT ![t] = result]

Record(t) == Rec(key(t), call[t].val)

(* The valid records of a NodeBuffer.  Their order only decides which empty *)
(* slot of a leaf each of them gets.                                        *)
BufferRecords(n) ==
    [i \in 1 .. Cardinality(DOMAIN buf[n]) |->
        LET k == Nth(DOMAIN buf[n], i) IN Rec(k, buf[n][k])]

BufferHasRoom(n, k) ==
    k \in DOMAIN buf[n] \/ Cardinality(DOMAIN buf[n]) < BufferCapacity

(* mutant: the key is not set *)
SetBloomFilter_Never(n, k) == bloom' = bloom

SetBloomFilter(n, k) ==
    bloom' = IF filterOn[n] THEN [bloom EXCEPT ![n] = @ \cup {k}] ELSE bloom

CouldExist_Lossy(n, k) == BOOLEAN               \* mutant: a set key may be denied

(* A Bloom filter never denies a key that was set, and may affirm any other *)
(* key: a disabled filter always does.                                      *)
CouldExist(n, k) == IF ~filterOn[n] \/ k \in bloom[n] THEN {TRUE} ELSE BOOLEAN

-----------------------------------------------------------------------------
(* Calls and returns. *)

Invoke(t) ==
    /\ Goto(t, "idle", "seek")
    /\ calls[t] < Len(work.calls[t])                               \* bound
    /\ calls' = [calls EXCEPT ![t] = @ + 1]
    /\ \E c \in work.calls[t][calls[t] + 1] : call' = [call EXCEPT ![t] = c]
    /\ UNCHANGED <<shared, at, ver, other, got, todo, res, scans>>

Return(t) ==
    /\ Goto(t, "return", "idle")
    /\ at' = [at EXCEPT ![t] = Null]
    /\ ver' = [ver EXCEPT ![t] = 0]
    /\ other' = [other EXCEPT ![t] = Null]
    /\ got' = [got EXCEPT ![t] = NoVal]
    /\ todo' = [todo EXCEPT ![t] = <<>>]
    /\ res' = [res EXCEPT ![t] = Pending]
    /\ out' = [out EXCEPT ![t] = <<>>]
    /\ done' = [done EXCEPT ![t] = 0]
    /\ UNCHANGED <<shared, call, calls>>

-----------------------------------------------------------------------------
(* jumpToMiddleLayer. *)

(* The ART index is not exact: seekLE may return a node to the left or to   *)
(* the right of the key (topLayer.cc says so), here any node it holds.      *)
SeekLE(t) ==
    /\ Goto(t, "seek", "walkLeft")
    /\ \E n \in top : at' = [at EXCEPT ![t] = n]
    /\ UNCHANGED <<shared, call, ver, other, got, todo, res, calls, scans>>

(* FindTargetMLNode walks without any lock: first to the left until         *)
(* lkey <= key, then to the right until key < hkey.  A null pointer ends    *)
(* the program.                                                             *)
RightOf(n, k) == lkey[n] > k
LeftOf(n, k)  == k >= hkey[n]

Hop(t, n, same) ==
    /\ at' = [at EXCEPT ![t] = n]
    /\ pc' = [pc EXCEPT ![t] = IF n = Null THEN "null" ELSE same]

WalkLeft(t) ==
    /\ pc[t] = "walkLeft"
    /\ IF RightOf(at[t], key(t))
       THEN Hop(t, prev[at[t]], "walkLeft")
       ELSE Hop(t, at[t], "walkRight")
    /\ UNCHANGED <<shared, call, ver, other, got, todo, res, calls, scans>>

WalkRight(t) ==
    /\ pc[t] = "walkRight"
    /\ IF LeftOf(at[t], key(t))
       THEN Hop(t, next[at[t]], "walkRight")
       ELSE Hop(t, at[t], "readLock")
    /\ UNCHANGED <<shared, call, ver, other, got, todo, res, calls, scans>>

InRange_LowOnly(n, k) == lkey[n] <= k           \* mutant: hkey is not checked again
InRange(n, k) == lkey[n] <= k /\ k < hkey[n]

(* A locked node makes the thread spin here (the step is disabled); an      *)
(* obsolete node, or one whose range no longer has the key, sends it back.  *)
ReadLock(t) ==
    /\ pc[t] = "readLock"
    /\ isObsolete(lock[at[t]]) \/ ~isLocked(lock[at[t]])
    /\ IF isObsolete(lock[at[t]]) \/ ~InRange(at[t], key(t))
       THEN Retry(t)
       ELSE /\ ver' = [ver EXCEPT ![t] = lock[at[t]]]
            /\ pc' = [pc EXCEPT ![t] = IF call[t].name = "insert" THEN "upgrade"
                                       ELSE IF call[t].name = "scan" THEN "scanLock"
                                       ELSE "bloom"]
            /\ UNCHANGED <<call, at, other, got, todo, res, calls, scans>>
    /\ UNCHANGED shared

(* upgradeToWriteLockOrRestart, in insert and remove *)
Upgrade(t) ==
    /\ pc[t] = "upgrade"
    /\ IF lock[at[t]] = ver[t]
       THEN /\ lock' = [lock EXCEPT ![at[t]] = UpgradedWord(@)]
            /\ pc' = [pc EXCEPT ![t] = IF call[t].name = "insert" THEN "insertLocked"
                                                                  ELSE "removeLocked"]
            /\ UNCHANGED locals
       ELSE /\ Retry(t)
            /\ UNCHANGED lock
    /\ UNCHANGED <<middle, content, top, store>>

Unlock(t) ==
    /\ Goto(t, "unlock", "return")
    /\ lock' = [lock EXCEPT ![at[t]] = UnlockedWord(@)]
    /\ UNCHANGED <<middle, content, top, store, locals>>

-----------------------------------------------------------------------------
(* lookup, and the first part of remove: everything is read without a lock  *)
(* and kept only if the version has not changed.                            *)

ReadBloom(t) ==
    /\ Goto(t, "bloom", "checkBloom")
    /\ \E maybe \in CouldExist(at[t], key(t)) :
          got' = [got EXCEPT ![t] = IF maybe THEN 1 ELSE 0]
    /\ UNCHANGED <<shared, call, at, ver, other, todo, res, calls, scans>>

CheckBloom(t) ==
    /\ pc[t] = "checkBloom"
    /\ IF lock[at[t]] # ver[t] THEN Retry(t)
       ELSE /\ got' = [got EXCEPT ![t] = NoVal]
            /\ IF got[t] = 0
               THEN /\ Effect(t, 0)                        \* not found, or false
                    /\ pc' = [pc EXCEPT ![t] = "return"]
               ELSE /\ UNCHANGED res
                    /\ pc' = [pc EXCEPT ![t] = IF call[t].name = "remove" THEN "upgrade"
                                               ELSE IF Buffered(at[t]) THEN "readBuffer"
                                               ELSE "readLeaf"]
            /\ UNCHANGED <<call, at, ver, other, todo, calls, scans>>
    /\ UNCHANGED shared

ReadBuffer(t) ==
    /\ pc[t] = "readBuffer"
    /\ IF key(t) \in DOMAIN buf[at[t]]
       THEN /\ got' = [got EXCEPT ![t] = buf[at[t]][key(t)]]
            /\ pc' = [pc EXCEPT ![t] = "checkValue"]
       ELSE /\ pc' = [pc EXCEPT ![t] = "readLeaf"]
            /\ UNCHANGED got
    /\ UNCHANGED <<shared, call, at, ver, other, todo, res, calls, scans>>

ReadLeaf(t) ==
    /\ Goto(t, "readLeaf", "checkValue")
    /\ got' = [got EXCEPT ![t] = LeafLookup(leaf[at[t]], key(t))]
    /\ UNCHANGED <<shared, call, at, ver, other, todo, res, calls, scans>>

CheckValue(t) ==
    /\ pc[t] = "checkValue"
    /\ IF lock[at[t]] # ver[t] THEN Retry(t)
       ELSE /\ Effect(t, got[t])
            /\ pc' = [pc EXCEPT ![t] = "return"]
            /\ UNCHANGED <<call, at, ver, other, got, todo, calls, scans>>
    /\ UNCHANGED shared

-----------------------------------------------------------------------------
(* insert, with the node locked. *)

InsertTakesEffect(t) ==
    /\ Effect(t, 1)
    /\ store' = [store EXCEPT ![key(t)] = call[t].val]

(* The write buffer takes the record. *)
InsertToBuffer(t) ==
    LET n == at[t] IN
    /\ Goto(t, "insertLocked", "unlock")
    /\ Buffered(n) /\ BufferHasRoom(n, key(t))
    /\ buf' = [buf EXCEPT ![n] = [k \in DOMAIN @ \cup {key(t)} |->
                                     IF k = key(t) THEN call[t].val ELSE @[k]]]
    /\ SetBloomFilter(n, key(t))
    /\ InsertTakesEffect(t)
    /\ UNCHANGED <<middle, lock, filterOn, leaf, leafNext, sorting, top,
                   call, at, ver, other, got, todo, calls, scans>>

InsertToLeaf(t) ==
    LET n == at[t] IN
    /\ Goto(t, "insertLocked", "unlock")
    /\ ~Buffered(n) /\ LeafCanInsert(leaf[n], key(t))
    /\ leaf' = [leaf EXCEPT ![n] = LeafInsert(@, key(t), call[t].val)]
    /\ needSort' = [needSort EXCEPT ![n] = @ \/ Match(leaf[n], key(t)) = {}]
    /\ SetBloomFilter(n, key(t))
    /\ InsertTakesEffect(t)
    /\ UNCHANGED <<middle, lock, buf, filterOn, leafNext, seqs, top,
                   call, at, ver, other, got, todo, calls, scans>>

-----------------------------------------------------------------------------
(* FlushOrSplitAndUnlock: insert calls it when the buffer is full, scan     *)
(* (with kKeyEmpty, no record of its own) when the buffer is not empty.     *)

MustFlush(t) ==
    \/ pc[t] = "insertLocked" /\ Buffered(at[t]) /\ ~BufferHasRoom(at[t], key(t))
    \/ pc[t] = "scanFlush"

ToMerge(t) ==
    IF call[t].name = "insert" THEN Append(BufferRecords(at[t]), Record(t))
                               ELSE BufferRecords(at[t])

(* mutant: no slot is left for the record being inserted *)
FitsLeaf_OffByOne(n) ==
    Cardinality(DOMAIN buf[n]) + Count(leaf[n]) <= LeafCapacity

FitsLeaf(n) ==
    Cardinality(DOMAIN buf[n]) + Count(leaf[n]) <= LeafCapacity - 1

(* The leaf is sure to take all the records.  The flush adds records to the *)
(* leaf without a new cur_version.                                          *)
FlushMLNodeBuffer(t) ==
    LET n == at[t] IN
    /\ MustFlush(t) /\ FitsLeaf(n)
    /\ leaf' = [leaf EXCEPT ![n] = InsertBatch(@, ToMerge(t))]
    /\ buf' = [buf EXCEPT ![n] = NoBuf]                              \* resetBuffer
    /\ IF call[t].name = "insert"
       THEN /\ SetBloomFilter(n, key(t))
            /\ InsertTakesEffect(t)
            /\ pc' = [pc EXCEPT ![t] = "unlock"]
       ELSE /\ UNCHANGED <<bloom, res, store>>
            /\ pc' = [pc EXCEPT ![t] = "scanUnlock"]
    /\ UNCHANGED <<middle, lock, filterOn, leafNext, sorting, top,
                   call, at, ver, other, got, todo, calls, scans>>

(* It may not, or (without a buffer) it is full: SplitMLNodeAndUnlock gets  *)
(* the records to merge.                                                    *)
StartSplit(t) ==
    LET n == at[t] IN
    /\ \/ /\ MustFlush(t) /\ ~FitsLeaf(n)
          /\ todo' = [todo EXCEPT ![t] = ToMerge(t)]
       \/ /\ pc[t] = "insertLocked"
          /\ ~Buffered(n) /\ ~LeafCanInsert(leaf[n], key(t))
          /\ todo' = [todo EXCEPT ![t] = <<Record(t)>>]
    /\ pc' = [pc EXCEPT ![t] = "lockNext"]
    /\ UNCHANGED <<shared, call, at, ver, other, got, res, calls, scans>>

-----------------------------------------------------------------------------
(* SplitMLNodeAndUnlock. *)

(* retry_lock_next: writeLockOrRestart until it succeeds. *)
LockNext(t) ==
    LET n == next[at[t]] IN
    /\ Goto(t, "lockNext", "split")
    /\ ~isLocked(lock[n])
    /\ lock' = [lock EXCEPT ![n] = UpgradedWord(@)]
    /\ other' = [other EXCEPT ![t] = n]
    /\ UNCHANGED <<middle, content, top, store, call, at, ver, got, todo, res, calls, scans>>

(* The leaf is split and the new node linked in between; the filters hold   *)
(* the keys of the two halves, merged records included.                     *)
Split(t) ==
    LET n   == at[t]
        new == nodes + 1
    IN
    /\ Goto(t, "split", "setHkey")
    /\ new \in Node                                                 \* bound
    /\ nodes' = new
    /\ leaf' = [leaf EXCEPT ![n] = SplitLeft(leaf[n], todo[t]),
                            ![new] = SplitRight(leaf[n], todo[t])]
    /\ leafNext' = [leafNext EXCEPT ![n] = new, ![new] = leafNext[n]]
    /\ bloom' = [bloom EXCEPT ![n] = KeysOf(leaf'[n]), ![new] = KeysOf(leaf'[new])]
    /\ filterOn' = [filterOn EXCEPT ![n] = TRUE, ![new] = TRUE]
    /\ lkey' = [lkey EXCEPT ![new] = Median(leaf[n])]
    /\ hkey' = [hkey EXCEPT ![new] = hkey[n]]
    /\ prev' = [prev EXCEPT ![new] = n, ![next[n]] = new]
    /\ next' = [next EXCEPT ![new] = next[n], ![n] = new]
    /\ needSort' = [needSort EXCEPT ![n] = TRUE, ![new] = TRUE]
    /\ IF call[t].name = "insert" THEN InsertTakesEffect(t) ELSE UNCHANGED <<res, store>>
    /\ UNCHANGED <<lock, buf, seqs, top, call, at, ver, other, got, todo, calls, scans>>

SetHkey(t) ==
    /\ Goto(t, "setHkey", "topInsert")
    /\ hkey' = [hkey EXCEPT ![at[t]] = lkey[next[at[t]]]]
    /\ UNCHANGED <<nodes, lkey, prev, next, lock, content, top, store, locals>>

TopInsert(t) ==
    /\ Goto(t, "topInsert", "unlockLeft")
    /\ top' = top \cup {next[at[t]]}
    /\ UNCHANGED <<middle, lock, content, store, locals>>

UnlockLeft(t) ==
    /\ Goto(t, "unlockLeft", "unlockNext")
    /\ lock' = [lock EXCEPT ![at[t]] = UnlockedWord(@)]
    /\ UNCHANGED <<middle, content, top, store, locals>>

(* mutant: the old next node stays locked *)
UnlockNext_Forgets(t) ==
    /\ Goto(t, "unlockNext", IF Buffered(at[t]) THEN "resetBuffer" ELSE "return")
    /\ UNCHANGED <<shared, locals>>

UnlockNext(t) ==
    /\ Goto(t, "unlockNext", IF Buffered(at[t]) THEN "resetBuffer" ELSE "return")
    /\ lock' = [lock EXCEPT ![other[t]] = UnlockedWord(@)]
    /\ UNCHANGED <<middle, content, top, store, locals>>

(* FlushOrSplitAndUnlock clears the write buffer after the split, when the  *)
(* node is no longer locked.  valid_bitmap = 0 may then fall between the    *)
(* load and the store of another thread's valid_bitmap update, and be lost. *)
ResetBuffer(t) ==
    /\ pc[t] = "resetBuffer"
    /\ \/ buf' = [buf EXCEPT ![at[t]] = NoBuf]
       \/ /\ \E u \in Threads \ {t} : /\ pc[u] \in {"insertLocked", "removeLocked"}
                                      /\ at[u] = at[t]
          /\ UNCHANGED buf
    /\ IF call[t].name = "insert"
       THEN /\ pc' = [pc EXCEPT ![t] = "return"]
            /\ UNCHANGED locals
       ELSE Retry(t)
    /\ UNCHANGED <<middle, lock, bloom, filterOn, leaf, leafNext, sorting, top, store>>

-----------------------------------------------------------------------------
(* remove, with the node locked: from the write buffer and from the leaf.   *)

RemoveLocked(t) ==
    LET n == at[t]
        k == key(t)
    IN
    /\ Goto(t, "removeLocked", "mergeCheck")
    /\ buf' = IF Buffered(n) THEN [buf EXCEPT ![n] = [j \in DOMAIN @ \ {k} |-> @[j]]] ELSE buf
    /\ leaf' = [leaf EXCEPT ![n] = LeafRemove(@, k)]
    /\ Effect(t, IF (Buffered(n) /\ k \in DOMAIN buf[n]) \/ Match(leaf[n], k) # {} THEN 1 ELSE 0)
    /\ needSort' = [needSort EXCEPT ![n] = @ \/ Match(leaf[n], k) # {}]
    /\ store' = [store EXCEPT ![k] = NoVal]
    /\ UNCHANGED <<middle, lock, bloom, filterOn, leafNext, seqs, top,
                   call, at, ver, other, got, todo, calls, scans>>

-----------------------------------------------------------------------------
(* MaybeMergeMLnode.  needRestart is passed by value, so the loop around    *)
(* the call never repeats: a sibling locked by another thread ends it.      *)

(* The count of the right sibling is read before the sibling is locked. *)
MergeCheck(t) ==
    LET n == at[t] IN
    /\ Goto(t, "mergeCheck",
            IF /\ Count(leaf[n]) < MergeLow
               /\ hkey[n] # MaxKey
               /\ Count(leaf[next[n]]) < MergeHigh
            THEN "mergeRead" ELSE "unlock")
    /\ UNCHANGED <<shared, locals>>

(* writeLockOrRestart: the load, and the compare-and-swap. *)
MergeRead(t) ==
    LET n == next[at[t]] IN
    /\ pc[t] = "mergeRead"
    /\ IF isLocked(lock[n])
       THEN /\ pc' = [pc EXCEPT ![t] = "unlock"]
            /\ UNCHANGED <<ver, other>>
       ELSE /\ pc' = [pc EXCEPT ![t] = "mergeCas"]
            /\ ver' = [ver EXCEPT ![t] = lock[n]]
            /\ other' = [other EXCEPT ![t] = n]
    /\ UNCHANGED <<shared, call, at, got, todo, res, calls, scans>>

MergeCas(t) ==
    /\ pc[t] = "mergeCas"
    /\ IF lock[other[t]] = ver[t]
       THEN /\ lock' = [lock EXCEPT ![other[t]] = UpgradedWord(@)]
            /\ pc' = [pc EXCEPT ![t] = "merge"]
       ELSE /\ pc' = [pc EXCEPT ![t] = "unlock"]
            /\ UNCHANGED lock
    /\ UNCHANGED <<middle, content, top, store, locals>>

(* LeafNode64::Merge.  When the two leaves do not fit into one it returns   *)
(* false, and nobody unlocks the sibling.                                   *)
MergeFails(t) ==
    /\ Goto(t, "merge", "unlock")
    /\ ~LeafCanMerge(leaf[at[t]], leaf[leafNext[at[t]]])
    /\ UNCHANGED <<shared, locals>>

(* The filter is rebuilt from the records of the two leaves. *)
Merge(t) ==
    LET n      == at[t]
        merged == LeafMerge(leaf[n], leaf[leafNext[n]])
    IN
    /\ Goto(t, "merge", "unlink")
    /\ LeafCanMerge(leaf[n], leaf[leafNext[n]])
    /\ leaf' = [leaf EXCEPT ![n] = merged]
    /\ leafNext' = [leafNext EXCEPT ![n] = leafNext[leafNext[n]]]
    /\ bloom' = [bloom EXCEPT ![n] = KeysOf(merged)]
    /\ filterOn' = [filterOn EXCEPT ![n] = TRUE]
    /\ needSort' = [needSort EXCEPT ![n] = TRUE]
    /\ hkey' = [hkey EXCEPT ![n] = hkey[next[n]]]
    /\ UNCHANGED <<nodes, lkey, prev, next, lock, buf, seqs, top, store, locals>>

Unlink(t) ==
    LET n == at[t] IN
    /\ Goto(t, "unlink", "topRemove")
    /\ prev' = [prev EXCEPT ![next[next[n]]] = n]
    /\ next' = [next EXCEPT ![n] = next[next[n]]]
    /\ UNCHANGED <<nodes, lkey, hkey, lock, content, top, store, locals>>

TopRemove(t) ==
    /\ Goto(t, "topRemove", "unlockObsolete")
    /\ top' = top \ {other[t]}
    /\ UNCHANGED <<middle, lock, content, store, locals>>

UnlockObsolete(t) ==
    /\ Goto(t, "unlockObsolete", "unlock")
    /\ lock' = [lock EXCEPT ![other[t]] = ObsoleteWord(@)]
    /\ UNCHANGED <<middle, content, top, store, locals>>

-----------------------------------------------------------------------------
(* scan.  Every node is read like this: take its version, flush its buffer  *)
(* and start all over if it has one, sort its leaf, copy the records from   *)
(* the start key on, check the version, go to the next node.                *)

(* retry_scan: what was read of this node is dropped. *)
ScanLock(t) ==
    /\ Goto(t, "scanLock", "scanNode")
    /\ ~isLocked(lock[at[t]])
    /\ ver' = [ver EXCEPT ![t] = lock[at[t]]]
    /\ out' = [out EXCEPT ![t] = SubSeq(@, 1, done[t])]
    /\ UNCHANGED <<shared, call, at, other, got, todo, res, calls, done>>

(* The loop condition, and the test for buffered records. *)
ScanNode(t) ==
    LET n == at[t] IN
    /\ pc[t] = "scanNode"
    /\ IF lkey[n] = hkey[n] \/ Len(out[t]) >= call[t].val
       THEN /\ Effect(t, Len(out[t]))
            /\ pc' = [pc EXCEPT ![t] = "return"]
       ELSE /\ UNCHANGED res
            /\ pc' = [pc EXCEPT ![t] = IF Buffered(n) /\ buf[n] # NoBuf THEN "scanUpgrade"
                                       ELSE "scanSort"]
    /\ UNCHANGED <<shared, call, at, ver, other, got, todo, calls, scans>>

ScanUpgrade(t) ==
    /\ pc[t] = "scanUpgrade"
    /\ IF lock[at[t]] = ver[t]
       THEN /\ lock' = [lock EXCEPT ![at[t]] = UpgradedWord(@)]
            /\ pc' = [pc EXCEPT ![t] = "scanFlush"]
            /\ UNCHANGED locals
       ELSE /\ Retry(t)
            /\ UNCHANGED lock
    /\ UNCHANGED <<middle, content, top, store>>

(* The flush is over: unlock, and goto retry. *)
ScanUnlock(t) ==
    /\ pc[t] = "scanUnlock"
    /\ lock' = [lock EXCEPT ![at[t]] = UnlockedWord(@)]
    /\ Retry(t)
    /\ UNCHANGED <<middle, content, top, store>>

(* SortLeafNode *)
ScanSort(t) ==
    LET n == at[t] IN
    /\ pc[t] = "scanSort"
    /\ \/ /\ ~needSort[n]
          /\ pc' = [pc EXCEPT ![t] = "scanRead"]
          /\ UNCHANGED lock
       \/ /\ needSort[n] /\ lock[n] = ver[t]
          /\ pc' = [pc EXCEPT ![t] = "scanSorted"]
          /\ lock' = [lock EXCEPT ![n] = UpgradedWord(@)]
       \/ /\ needSort[n] /\ lock[n] # ver[t]
          /\ pc' = [pc EXCEPT ![t] = "scanLock"]
          /\ UNCHANGED lock
    /\ UNCHANGED <<middle, content, top, store, locals>>

NowSorted(n) == [needSort EXCEPT ![n] = FALSE]  \* sort_version = cur_version

(* Sort, and unlock. *)
ScanSorted(t) ==
    LET n == at[t] IN
    /\ Goto(t, "scanSorted", "scanRelock")
    /\ needSort' = NowSorted(n)
    /\ seqs' = [seqs EXCEPT ![n] = LeafSort(leaf[n], @)]
    /\ lock' = [lock EXCEPT ![n] = UnlockedWord(@)]
    /\ UNCHANGED <<middle, buf, bloom, filterOn, leaf, leafNext, top, store, locals>>

(* version = readLockOrRestart, after the sort and after every node *)
ScanVersion(t, from, to) ==
    /\ pc[t] = from
    /\ IF isLocked(lock[at[t]])
       THEN /\ pc' = [pc EXCEPT ![t] = "scanLock"]
            /\ UNCHANGED ver
       ELSE /\ pc' = [pc EXCEPT ![t] = to]
            /\ ver' = [ver EXCEPT ![t] = lock[at[t]]]
    /\ UNCHANGED <<shared, call, at, other, got, todo, res, calls, scans>>

ScanRelock(t) == ScanVersion(t, "scanRelock", "scanRead")
ScanNext(t)   == ScanVersion(t, "scanNext", "scanNode")

(* An entry of seqs that Sort never wrote may be any slot number. *)
SeqsRead(n) ==
    LET unwritten == {i \in 1 .. Count(leaf[n]) : seqs[n][i] = 0}
    IN  {[i \in Slot |-> IF i \in unwritten THEN any[i] ELSE seqs[n][i]] :
            any \in [unwritten -> Slot]}

(* What the iterator yields from the start key on.  It looks at no valid    *)
(* bit: an erased slot still yields its old record.                         *)
ScannedFrom(n, sq, start, startKey) ==
    LET recs == [i \in 1 .. (Count(leaf[n]) - start) |->
                    LET slot == leaf[n][sq[start + i]] IN Rec(slot.key, slot.val)]
    IN  Pick(recs, {i \in 1 .. (Count(leaf[n]) - start) : startKey <= recs[i].key})

(* Copy the records, until the result is full (the version is not checked   *)
(* then) or the leaf is exhausted.  SeekGE ends the program when it finds   *)
(* the leaf unsorted.                                                       *)
ScanRead(t) ==
    LET n    == at[t]
        room == call[t].val - Len(out[t])
    IN
    /\ pc[t] = "scanRead"
    /\ IF lkey[n] < key(t) /\ needSort[n]
       THEN /\ pc' = [pc EXCEPT ![t] = "exit"]
            /\ UNCHANGED out
       ELSE \E sq \in SeqsRead(n), start \in 0 .. Count(leaf[n]) :
              LET recs == ScannedFrom(n, sq, start, key(t))
              IN  /\ start = IF lkey[n] >= key(t) THEN 0 ELSE SeekGE(leaf[n], sq, key(t))
                  /\ pc' = [pc EXCEPT ![t] = IF Len(recs) >= room THEN "scanNext" ELSE "scanCheck"]
                  /\ out' = [out EXCEPT ![t] = @ \o SubSeq(recs, 1, IF Len(recs) >= room
                                                                    THEN room ELSE Len(recs))]
    /\ UNCHANGED <<shared, call, at, ver, other, got, todo, res, calls, done>>

ScanCheck(t) ==
    /\ pc[t] = "scanCheck"
    /\ IF lock[at[t]] # ver[t]
       THEN pc' = [pc EXCEPT ![t] = "scanLock"]
       ELSE pc' = [pc EXCEPT ![t] = "scanAdvance"]
    /\ UNCHANGED <<shared, locals>>

(* The link is read after the check, without another one. *)
ScanAdvance(t) ==
    /\ Goto(t, "scanAdvance", "scanNext")
    /\ at' = [at EXCEPT ![t] = next[at[t]]]
    /\ done' = [done EXCEPT ![t] = Len(out[t])]
    /\ UNCHANGED <<shared, call, ver, other, got, todo, res, calls, out>>

-----------------------------------------------------------------------------
Step(t) ==
    \/ SeekLE(t) \/ WalkLeft(t) \/ WalkRight(t) \/ ReadLock(t)
    \/ ReadBloom(t) \/ CheckBloom(t) \/ ReadBuffer(t) \/ ReadLeaf(t) \/ CheckValue(t)
    \/ Upgrade(t) \/ InsertToBuffer(t) \/ FlushMLNodeBuffer(t) \/ InsertToLeaf(t)
    \/ StartSplit(t) \/ LockNext(t) \/ Split(t) \/ SetHkey(t) \/ TopInsert(t)
    \/ UnlockLeft(t) \/ UnlockNext(t) \/ ResetBuffer(t)
    \/ RemoveLocked(t) \/ MergeCheck(t) \/ MergeRead(t) \/ MergeCas(t)
    \/ MergeFails(t) \/ Merge(t) \/ Unlink(t) \/ TopRemove(t) \/ UnlockObsolete(t)
    \/ ScanLock(t) \/ ScanNode(t) \/ ScanUpgrade(t) \/ ScanUnlock(t) \/ ScanSort(t)
    \/ ScanSorted(t) \/ ScanRelock(t) \/ ScanRead(t) \/ ScanCheck(t) \/ ScanAdvance(t)
    \/ ScanNext(t)
    \/ Unlock(t) \/ Return(t)

(* Known defects.  A behaviour is followed up to the step in which it meets *)
(* one, and the properties speak of what happens before:                    *)
(*   "orphan"    LeafNode64::Merge refuses, and nobody unlocks the sibling; *)
(*   "unmerged"  a merge drops the write buffer of the node it removes;     *)
(*   "denied"    a merge rebuilds the filter without the records in the     *)
(*               node's own write buffer, and records that a split left     *)
(*               there are in its range again;                              *)
(*   "shadowed"  Split adds a record to the right half of a leaf beside the *)
(*               old record of the same key;                                *)
(*   "reset"     the buffer is cleared after the unlock, and with it what   *)
(*               another thread has put there since;                        *)
(*   "outlier"   before it is cleared, another thread flushes it: records   *)
(*               that a split has moved to the right get into this leaf;    *)
(*   "unsorted"  a flush changes a sorted leaf and leaves it marked sorted; *)
(*   "seek"      a writer comes between a scan's sort and its search of the *)
(*               leaf or its next look at the version;                      *)
(*   "unchecked" a scan's result is full, and the version of the last node, *)
(*               which has changed, is not looked at;                       *)
(*   "obsolete"  a scan goes on in a node that has been merged away;        *)
(*   "repeated"  a split comes between a scan's version check and its read  *)
(*               of the next pointer.                                       *)
(* A step that meets several of them counts as the first.                   *)
Harm(t) ==
    LET n       == at[t]
        merging == pc[t] = "merge"
        fits    == LeafCanMerge(leaf[n], leaf[leafNext[n]])
        waiting == {todo[t][i].key : i \in 1 .. Len(todo[t])}
    IN  IF merging /\ ~fits THEN "orphan"
        ELSE IF merging /\ buf[next[n]] # NoBuf THEN "unmerged"
        ELSE IF merging /\ buf[n] # NoBuf THEN "denied"
        ELSE IF pc[t] = "split" /\ \E k \in waiting \cap KeysOf(leaf[n]) : k >= Median(leaf[n])
             THEN "shadowed"
        ELSE IF pc[t] = "split" /\ \E u \in Threads : pc[u] = "scanAdvance" /\ at[u] = n
             THEN "repeated"
        ELSE IF pc[t] = "resetBuffer" /\ \E k \in DOMAIN buf[n] : /\ InRange(n, k)
                                                                 /\ LeafLookup(leaf[n], k) # buf[n][k]
             THEN "reset"
        ELSE IF MustFlush(t) /\ \E k \in DOMAIN buf[n] : ~InRange(n, k) THEN "outlier"
        ELSE IF MustFlush(t) /\ FitsLeaf(n) /\ ~needSort[n] THEN "unsorted"
        ELSE IF \E u \in Threads : /\ pc[u] = "scanRelock" \/ (pc[u] = "scanRead" /\ lkey[at[u]] < key(u))
                                   /\ ~needSort[at[u]] /\ needSort'[at[u]]
             THEN "seek"
        ELSE IF pc[t] \in {"scanLock", "scanNext"} /\ isObsolete(lock[n]) THEN "obsolete"
        ELSE IF /\ pc[t] = "scanRead" /\ lock[n] # ver[t]
                /\ Count(leaf[n]) >= call[t].val - Len(out[t])
             THEN "unchecked"
        ELSE "none"

Harms == {"none", "orphan", "unmerged", "denied", "shadowed", "reset", "outlier",
          "unsorted", "seek", "unchecked", "obsolete", "repeated"}

(* All calls have been made, or a defect has been met. *)
Finished ==
    /\ \/ harm # "none"
       \/ \A t \in Threads : pc[t] = "idle" /\ calls[t] = Len(work.calls[t])
    /\ UNCHANGED vars

Run(t) ==
    /\ harm = "none"
    /\ Invoke(t) \/ Step(t)
    /\ harm' = Harm(t)
    /\ UNCHANGED work

Next == (\E t \in Threads : Run(t)) \/ Finished

Spec == Init /\ [][Next]_vars

(* A thread that has been called and is not waiting for a lock keeps        *)
(* running.                                                                 *)
FairSpec == Spec /\ \A t \in Threads : WF_vars(pc[t] # "idle" /\ Run(t))

-----------------------------------------------------------------------------
(* Properties. *)

(* Every variable has its type: in particular the filters, buffers and      *)
(* leaves hold nothing but callers' keys and values, and every pointer that *)
(* a split, a merge or a walk stores is a node or null.                     *)
TypeOK ==
    /\ nodes \in Node
    /\ lkey \in [Node -> 0 .. MaxKey] /\ hkey \in [Node -> 0 .. MaxKey]
    /\ prev \in [Node -> Node \cup {Null}] /\ next \in [Node -> Node \cup {Null}]
    /\ leafNext \in [Node -> Node \cup {Null}]
    /\ lock \in [Node -> Nat]
    /\ \A n \in Node : /\ DOMAIN buf[n] \subseteq Keys
                       /\ \A k \in DOMAIN buf[n] : buf[n][k] \in Vals
    /\ bloom \in [Node -> SUBSET Keys]
    /\ filterOn \in [Node -> BOOLEAN]
    /\ \A n \in Node : \A i \in Slot :
          leaf[n][i] = NoRec \/ leaf[n][i] \in [key : Keys, val : Vals, valid : BOOLEAN]
    /\ top \subseteq Node
    /\ pc \in [Threads -> Pcs]
    /\ call \in [Threads -> Call]
    /\ at \in [Threads -> Node \cup {Null}]
    /\ ver \in [Threads -> Nat]
    /\ other \in [Threads -> Node \cup {Null}]
    /\ got \in [Threads -> Vals \cup {0, 1}]
    /\ res \in [Threads -> Nat \cup {Pending}]
    /\ needSort \in [Node -> BOOLEAN] /\ seqs \in [Node -> [Slot -> Slot \cup {0}]]
    /\ done \in [Threads -> Nat]
    /\ calls \in [Threads -> Nat]
    /\ store \in [Keys -> Vals \cup {NoVal}]
    /\ work \in Workloads /\ harm \in Harms

Live == {n \in 1 .. nodes : ~isObsolete(lock[n])}

(* Thread t is in the critical section of node n, its own node or the       *)
(* neighbour of a split or a merge.                                         *)
AtHeld    == {"insertLocked", "lockNext", "split", "setHkey", "topInsert", "unlockLeft",
              "removeLocked", "mergeCheck", "mergeRead", "mergeCas", "merge", "unlink",
              "topRemove", "unlockObsolete", "unlock",
              "scanFlush", "scanUnlock", "scanSorted"}
OtherHeld == {"split", "setHkey", "topInsert", "unlockLeft", "unlockNext",
              "merge", "unlink", "topRemove", "unlockObsolete"}
Holds(t, n) ==
    \/ pc[t] \in AtHeld /\ at[t] = n
    \/ pc[t] \in OtherHeld /\ other[t] = n

(* Two threads are never in the critical section of the same node, whether  *)
(* they entered it by upgradeToWriteLockOrRestart for their own key or by   *)
(* writeLockOrRestart as the neighbour of a split or a merge; nobody is in  *)
(* the critical section of an obsolete node, though writeLockOrRestart does *)
(* not look at the obsolete bit; and every lock bit has a thread that will  *)
(* clear it, on every path of SplitMLNodeAndUnlock and MaybeMergeMLnode.    *)
LocksHeld ==
    /\ \A n \in Node : \A t \in Threads :
          Holds(t, n) => /\ isLocked(lock[n]) /\ ~isObsolete(lock[n])
                         /\ \A u \in Threads : Holds(u, n) => u = t
    /\ harm # "orphan" =>
          \A n \in Node : isLocked(lock[n]) => \E t \in Threads : Holds(t, n)

(* The middle layer seen by a thread that finds a node unlocked, after any  *)
(* splits and merges: its range ends where its live successor's begins, the *)
(* successor points back at it, and the leaf list (which LeafNode64::Merge  *)
(* follows) runs in parallel.                                               *)
LinksFollowRanges ==
    \A n \in Live \ {DummyTail} :
        ~isLocked(lock[n]) => /\ next[n] \in Live
                              /\ lkey[n] < hkey[n]
                              /\ hkey[n] = lkey[next[n]]
                              /\ prev[next[n]] = n
                              /\ leafNext[n] = next[n]

(* The Bloom filter of an unlocked node, which lookup and remove trust,     *)
(* never denies a key that the node's buffer or leaf holds: inserts set it, *)
(* and Split and Merge rebuild it.                                          *)
FilterCoversNode ==
    \A n \in Live : ~isLocked(lock[n]) /\ filterOn[n] =>
        \A k \in KeysOf(leaf[n]) \cup DOMAIN buf[n] : InRange(n, k) => k \in bloom[n]

(* The middle layer is sound in every state of every split and merge. *)
NodesSound == TypeOK /\ LinksFollowRanges /\ FilterCoversNode

(* What the tree holds for a key: the node responsible for it is the live   *)
(* node with the largest low key (during a split or a merge two ranges      *)
(* overlap), and there the buffer hides the leaf.                           *)
Responsible(k) ==
    CHOOSE n \in Live : InRange(n, k) /\ \A m \in Live : InRange(m, k) => lkey[m] <= lkey[n]

TreeContent ==
    [k \in Keys |-> LET n == Responsible(k)
                    IN  IF k \in DOMAIN buf[n] THEN buf[n][k] ELSE LeafLookup(leaf[n], k)]

(* No insert or remove that took effect is ever undone: not by a split, a   *)
(* merge or a flush, of this or of another thread.                          *)
TreeHoldsStore == harm \in {"unmerged", "denied", "shadowed", "reset"} \/ TreeContent = store

(* Every slot that LeafNode64::Split writes exists: the buffered records    *)
(* and the new one fit into the two halves of the leaf.                     *)
SplitFits ==
    \A t \in Threads : pc[t] = "split" =>
        LET old    == leaf[at[t]]
            median == Median(old)
            left   == Cardinality({i \in ValidBitSet(old) : old[i].key < median})
        IN  /\ left + Len(Below(todo[t], median)) <= LeafCapacity
            /\ Count(old) - left + Len(AtLeast(todo[t], median)) <= LeafCapacity

(* The map that the calls see is the history variable store. *)
KV == INSTANCE KVMap WITH
          phase  <- [t \in Threads |-> IF pc[t] = "idle" THEN "idle"
                                       ELSE IF res[t] = Pending THEN "pending" ELSE "returning"],
          res    <- [t \in Threads |-> IF res[t] = Pending THEN NoVal ELSE res[t]],
          Absent <- NoVal,
          Calls  <- Call

(* SPTree implements the atomic map: insert, lookup and remove are          *)
(* linearizable.  lookup and remove return what the map holds when they     *)
(* take effect, though they read the filter, the buffer and the leaf        *)
(* without a lock; TreeHoldsStore ties the map to the tree.                 *)
Linearizable == KV!Spec

(* The records with keys from startKey on, in key order, at most size many. *)
Expected(startKey, size) ==
    LET ks == {k \in Keys : k >= startKey /\ store[k] # NoVal}
        n  == IF Cardinality(ks) < size THEN Cardinality(ks) ELSE size
    IN  [i \in 1 .. n |-> Rec(Nth(ks, i), store[Nth(ks, i)])]

(* A scan of a thread that has the tree to itself returns exactly the       *)
(* records of the map: through splits and merges, sorted leaves that        *)
(* changed, flushed buffers, and across nodes.                              *)
ScanReturnsStore ==
    \A t \in Threads :
        /\ pc[t] = "return" /\ call[t].name = "scan"
        /\ \A u \in Threads \ {t} : calls[u] = 0
        => out[t] = Expected(key(t), call[t].val)

(* A scan never returns a key twice or out of order, whatever splits and    *)
(* merges the nodes it goes through.                                        *)
ScanAscends ==
    \A t \in Threads : pc[t] = "return" =>
        \A i \in 2 .. Len(out[t]) : out[t][i - 1].key < out[t][i].key

(* What scans return, alone and among writers. *)
ScanResults == ScanReturnsStore /\ ScanAscends

(* Every insert, lookup, remove and scan returns: the locks of a split are  *)
(* taken from left to right and all released, the retry loops end once the  *)
(* other threads' calls are over, FindTargetMLNode never runs off the list  *)
(* ("mnode is null") and SeekGE never ends the program at an unsorted leaf. *)
CallsReturn == \A t \in Threads : pc[t] # "idle" ~> (pc[t] = "idle" \/ harm # "none")
=============================================================================
