--------------------------- MODULE SPTreeRestart ---------------------------
(***************************************************************************)
(* SPTree on persistent memory: crashes and restarts                       *)
(* (spoton-tree/sptree.cc, bottomLayer.cc, topLayerPmem.cc, wal.cc), in    *)
(* the configuration CreateSPTree (isDram = false, ..).                    *)
(*                                                                         *)
(* Durable are the leaves, the persistent B+-tree that maps low keys to    *)
(* leaves, and the logs; the middle layer with its write buffers, the top  *)
(* layer and the queue of the thread pool are lost in a crash and rebuilt  *)
(* by Recover from the B+-tree alone.                                      *)
(*                                                                         *)
(* A leaf has a volatile and a durable copy.  Its first cache line holds   *)
(* lkey, hkey, the links and valid_bitmap, the records are on other lines. *)
(* A store reaches the durable copy when its line is flushed and fenced,   *)
(* or at any earlier moment when the cache writes the line back.  A record *)
(* is written key first, so a line that is written back in between holds   *)
(* the new key with the old value.                                         *)
(*                                                                         *)
(* The calls run one at a time: those of one node exclude each other       *)
(* (module SPTree), and what a crash leaves of one node does not depend on *)
(* another.  Only the jobs of the thread pool run beside them.  A job of   *)
(* the pool is one step: an insertion into the B+-tree is one durable      *)
(* store (module FastFairPage), a deletion is not flushed when it returns, *)
(* so a deleted entry may be back after a crash.                           *)
(***************************************************************************)
EXTENDS Integers, LeafNode64

CONSTANTS Threads,
          Keys,             \* the keys that callers use
          ValsOf(_),        \* the values callers give a key; a value belongs to one key
          MaxKey,           \* UINT64_MAX
          BufferCapacity,   \* slots of a NodeBuffer (14)
          MergeLow,         \* a leaf with fewer records looks for a merge (2)
          MergeHigh,        \* ... with a sibling that has fewer than this (32)
          PoolSize,         \* threads of mTpool (4)
          Calls,            \* bound: the calls that are made, <<name, key, value>>
          Loaded,           \* the records the first leaf starts with, a sequence
          MaxLeaves,        \* bound: leaves ever allocated
          MaxCalls,         \* bound: calls
          MaxCrashes,       \* bound: crashes
          MaxEarly          \* bound: lines written back before their flush

MinKey == 1                                     \* kSPTreeMinKey

ASSUME KeysAssumption ==
    /\ MaxKey \in Nat /\ Keys \subseteq MinKey .. (MaxKey - 1)
    /\ \A k, l \in Keys : k # l => ValsOf(k) \cap ValsOf(l) = {}
    /\ \A k \in Keys : NoVal \notin ValsOf(k)
ASSUME CallsAssumption ==
    Calls \subseteq (UNION {{"insert"} \X {k} \X ValsOf(k) : k \in Keys})
                    \cup {"remove"} \X Keys \X {NoVal}
ASSUME CapacityAssumption ==
    /\ BufferCapacity \in Nat \ {0} /\ 1 + BufferCapacity <= LeafCapacity \div 2
    /\ MergeLow + MergeHigh <= LeafCapacity + 2
ASSUME LoadedAssumption ==
    /\ Len(Loaded) <= LeafCapacity
    /\ Loaded \in Seq(UNION {{Rec(k, v) : v \in ValsOf(k)} : k \in Keys})
    /\ \A i, j \in 1 .. Len(Loaded) : Loaded[i].key = Loaded[j].key => i = j
ASSUME BoundsAssumption ==
    {PoolSize, MaxLeaves, MaxCalls, MaxCrashes, MaxEarly} \subseteq Nat /\ MaxLeaves # 0

Leaf == 1 .. MaxLeaves
HeadLeaf == 1                                   \* mBotLayer.head
TailLeaf == 0                                   \* dummyTail, a leaf that never changes
Hang == -1                                      \* a call that never returns

VARIABLES
    leaves,         \* leaves 1 .. leaves are allocated
    mem, pmem,      \* the volatile and the durable copy of each leaf
    index,          \* the entries of the persistent B+-tree
    weak,           \* entries whose deletion may not be durable
    node,           \* the middle layer: the MLNode of each leaf that has one
    op,             \* the call that is running
    jobs,           \* what was submitted to mTpool and has not ended, oldest first
    mixed,          \* low keys whose jobs ended in another order than submitted
    log, created,   \* the records of the logs; CreateLogsForThread has run
    logSize,        \* SPTREE_LOCAL_LOG_SIZE # 0, a static of the process
    logId,          \* the log of each thread (thread_local_log_), 0 if it has none yet
    buffering, logging,    \* mEnableWriteBuffer, mEnableLog
    mode,           \* "up", "down", "recovered"
    crash,          \* what was known when the process died
    calls, crashes, early

leafVars == <<leaves, mem, pmem>>
poolVars == <<index, weak, jobs, mixed>>
logVars  == <<log, created, logSize, logId>>
procVars == <<buffering, logging, mode, crash, crashes>>

vars == <<leafVars, poolVars, logVars, procVars, node, op, calls, early>>

-----------------------------------------------------------------------------
(* Persistent memory. *)

(* Line 0 of a leaf becomes durable: everything but the records. *)
PersistHeader(l) ==
    [mem[l] EXCEPT !.slots = [i \in Slot |-> [pmem[l].slots[i] EXCEPT !.valid = mem[l].slots[i].valid]]]

PersistSlot(l, i) ==
    [pmem[l] EXCEPT !.slots[i].key = mem[l].slots[i].key, !.slots[i].val = mem[l].slots[i].val]

TornSlot(l, i) == [pmem[l] EXCEPT !.slots[i].key = mem[l].slots[i].key]

(* A batch writer has put its records in place and has set no valid bit. *)
Unset(leaf, final) == [i \in Slot |-> [final[i] EXCEPT !.valid = leaf[i].valid]]

NewLeaf == [lkey |-> 0, hkey |-> 0, next |-> TailLeaf, slots |-> EmptyLeaf]

Entry(key, leaf) == [key |-> key, leaf |-> leaf]

-----------------------------------------------------------------------------
(* The middle layer. *)

MLNode(l, h, buffered) == [lkey |-> l, hkey |-> h, buffered |-> buffered, buf |-> <<>>]

(* The node jumpToMiddleLayer starts from, and the one it ends at: a key    *)
(* between two nodes makes it retry for ever.                               *)
Start(k)  == CHOOSE l \in DOMAIN node :
                /\ node[l].lkey <= k
                /\ \A m \in DOMAIN node : node[m].lkey <= k => node[m].lkey <= node[l].lkey
Lost(k)   == (\A l \in DOMAIN node : node[l].lkey > k) \/ k >= node[Start(k)].hkey
NextNode(l) == CHOOSE m \in DOMAIN node :
                /\ node[m].lkey > node[l].lkey
                /\ \A o \in DOMAIN node : node[o].lkey > node[l].lkey => node[m].lkey <= node[o].lkey

InBuf(l, k) == {i \in 1 .. Len(node[l].buf) : node[l].buf[i].key = k}

(* What a lookup answers. *)
Answer(k) ==
    IF Lost(k) THEN Hang
    ELSE LET l == Start(k)
         IN  IF InBuf(l, k) # {} THEN node[l].buf[Lowest(InBuf(l, k))].val
             ELSE LeafLookup(mem[l].slots, k)

KeyRange(l) == {k \in Keys : mem[l].lkey <= k /\ k < mem[l].hkey}

(* The middle layer's nodes cover every key once, in the order of the list  *)
(* of leaves, and each is found under its own low key.                      *)
Follows(l) ==
    IF node[l].hkey = MaxKey THEN mem[l].next = TailLeaf
    ELSE mem[l].next \in DOMAIN node /\ node[mem[l].next].lkey = node[l].hkey
Overlap(l, m) == node[l].lkey < node[m].lkey /\ node[m].lkey < node[l].hkey

Tiles ==
    /\ \A e \in index : node[e.leaf].lkey = e.key
    /\ \A l \in DOMAIN node : Follows(l)
    /\ \A l, m \in DOMAIN node : ~Overlap(l, m)
    /\ \E l \in DOMAIN node : node[l].lkey = MinKey

-----------------------------------------------------------------------------
(* CreateSPTree and Initialize; the first leaf holds what a quiet run of    *)
(* inserts has left in it.                                                  *)

NoOp == [pc |-> "idle", name |-> "none", key |-> 0, val |-> NoVal, node |-> HeadLeaf, thread |-> 0,
         recs |-> <<>>, new |-> TailLeaf, left |-> EmptyLeaf, right |-> EmptyLeaf, logged |-> FALSE]

(* The B+-tree and the middle layer start with the first leaf. *)
FirstIndex == {Entry(MinKey, HeadLeaf)}
FirstNode  == [l \in {HeadLeaf} |-> MLNode(MinKey, MaxKey, FALSE)]

FirstLeaf == [lkey |-> MinKey, hkey |-> MaxKey, next |-> TailLeaf,
              slots |-> FillEmptySlots(EmptyLeaf, Loaded)]

Init ==
    /\ leaves = 1
    /\ mem = [l \in Leaf |-> IF l = HeadLeaf THEN FirstLeaf ELSE NewLeaf]
    /\ pmem = mem
    /\ index = FirstIndex /\ weak = {}
    /\ node = FirstNode
    /\ op = NoOp /\ jobs = <<>> /\ mixed = {}
    /\ log = <<>> /\ created = FALSE /\ logSize = FALSE /\ logId = [t \in Threads |-> 0]
    /\ buffering \in BOOLEAN /\ logging \in BOOLEAN
    /\ mode = "up"
    /\ crash = [answers |-> [k \in Keys |-> NoVal], loose |-> {}, gone |-> {},
                torn |-> {}, settled |-> FALSE]
    /\ calls = 0 /\ crashes = 0 /\ early = 0

-----------------------------------------------------------------------------
(* The write-ahead log. *)

(* A node on a log: the data are a key and a value, their size is written   *)
(* before and behind them.                                                  *)
WALNode(type, key, val) == [type |-> type, key |-> key, val |-> val, size |-> 16]
Size(wnode) == 15 + wnode.size + 1

(* A log: the nodes by their offsets behind the meta data, and the tail,    *)
(* which is never written back to the meta data (nobody calls CommitTail).  *)
kLogMetaOffset == 256
EmptyLog == [tail |-> kLogMetaOffset, at |-> [o \in {} |-> 0]]

(* The backward iterator: the size byte before the tail leads to the last   *)
(* node, and each node's own size to the one before.                        *)
SizeBefore(l, off) ==
    LET ends == {o \in DOMAIN l.at : o + Size(l.at[o]) = off}
    IN  IF ends = {} THEN 0 ELSE l.at[CHOOSE o \in ends : TRUE].size
rbegin(l)     == l.tail - 15 - SizeBefore(l, l.tail) - 1
Valid(l, off) == off >= kLogMetaOffset /\ l.at[off].type \in {"insert", "remove"}
Back(l, off)  == off - Size(l.at[off])

LogCount == Cardinality(Threads)

CreateLogsForThread ==
    /\ mode = "up" /\ op.pc = "idle" /\ logging /\ ~created
    /\ log' = [n \in 1 .. LogCount |-> EmptyLog]
    /\ created' = TRUE /\ logSize' = TRUE
    /\ UNCHANGED <<leafVars, poolVars, procVars, logId, node, op, calls, early>>

(* A thread's first use of the log takes the next log id.  The process      *)
(* exits when there is no log, and when the size is not known.              *)
CanLog(t) == logId[t] # 0 \/ (created /\ logSize)

OwnLog(t) == IF logId[t] # 0 THEN logId[t]
             ELSE 1 + Cardinality({u \in Threads : logId[u] # 0})

Appended(l, wnode) ==
    [tail |-> l.tail + Size(wnode),
     at   |-> [o \in DOMAIN l.at \cup {l.tail} |-> IF o = l.tail THEN wnode ELSE l.at[o]]]

AppendLog_Once(t, type, key, val) ==               \* mutant: a key that is in the log is not logged again
    /\ log' = [log EXCEPT ![OwnLog(t)] = IF \E o \in DOMAIN @.at : @.at[o].key = key THEN @
                                         ELSE Appended(@, WALNode(type, key, val))]
    /\ logId' = [logId EXCEPT ![t] = OwnLog(t)]

(* The record is durable when Append returns.                               *)
AppendLog(t, type, key, val) ==
    /\ log' = [log EXCEPT ![OwnLog(t)] = Appended(@, WALNode(type, key, val))]
    /\ logId' = [logId EXCEPT ![t] = OwnLog(t)]

-----------------------------------------------------------------------------
(* Crashes and restarts. *)

InSplit == op.pc \in {"split_left", "split_right", "split_bits"}
InMerge == op.pc \in {"merge_flush", "merge_bits"}

(* The keys from a leaf's low key up to the next entry: an entry of the leaf *)
(* leads all of them to it.                                                  *)
Claimed(l, entries) ==
    {k \in Keys : /\ mem[l].lkey <= k
                  /\ \A e \in entries : e.key <= k => e.key <= mem[l].lkey}

(* The keys a crash may take back to an earlier value: the key of the call  *)
(* that is running, buffered keys (no one replays the log), the half that a *)
(* split moves, the range of a leaf whose entry is not there yet, and what  *)
(* an entry claims whose deletion has not run or is not durable.  The last  *)
(* may be more than the range its leaf had, when the entry behind it is     *)
(* gone already: such keys belong to no node, and their lookups hang.       *)
Loose(back) ==
    LET entries == index \cup back
        reordered == {l \in 1 .. leaves : mem[l].lkey \in mixed}
    IN  (IF op.pc = "idle" THEN {} ELSE {op.key})
        \cup (UNION {{node[l].buf[i].key : i \in 1 .. Len(node[l].buf)} : l \in DOMAIN node})
        \cup (UNION {IF jobs[i].name = "insert" THEN KeyRange(jobs[i].leaf)
                     ELSE Claimed(jobs[i].leaf, entries) : i \in 1 .. Len(jobs)})
        \cup (UNION {Claimed(e.leaf, entries) : e \in back})
        \cup (UNION {KeyRange(l) \cup Claimed(l, entries) : l \in reordered})
        \cup (IF InSplit THEN KeyRange(op.new) ELSE {})

(* Keys of new records whose valid bit is not durable: they may be gone.    *)
Unflushed ==
    UNION {{mem[l].slots[i].key : i \in ValidBitSet(mem[l].slots) \ ValidBitSet(pmem[l].slots)} :
            l \in DOMAIN node}

(* Split writes the records of the buffer over slots of the left half whose *)
(* cleared bits are not durable yet.                                        *)
Torn == IF InSplit THEN {op.recs[i].key : i \in 1 .. Len(op.recs)} ELSE {}

Die ==
    /\ crashes < MaxCrashes /\ crashes' = crashes + 1
    /\ \E back \in SUBSET weak :
          /\ index' = index \cup back
          /\ crash' = [answers |-> [k \in Keys |-> Answer(k)], loose |-> Loose(back),
                       gone |-> Unflushed, torn |-> crash.torn \cup Torn,
                       settled |-> /\ jobs = <<>> /\ back = {} /\ mixed = {}
                                   /\ ~InSplit /\ ~InMerge]
    /\ mode' = "down"
    /\ mem' = pmem
    /\ node' = [l \in {} |-> NoOp]
    /\ weak' = {} /\ jobs' = <<>> /\ mixed' = {} /\ op' = NoOp
    /\ logSize' = FALSE /\ logId' = [t \in Threads |-> 0]
    /\ UNCHANGED <<leaves, pmem, log, created, buffering, logging, calls, early>>

Crash == mode = "up" /\ Die

(* The leaves on the leaf pages of the B+-tree, one after the other. *)
scan_all_record == {e.leaf : e \in index}
ScanAllRecord == scan_all_record                \* TopLayerPmem, after recoverMutex

(* One MLNode without a buffer for each of them, with the range that the    *)
(* header of its leaf has.                                                  *)
Recover == [l \in ScanAllRecord |-> MLNode(mem[l].lkey, mem[l].hkey, FALSE)]

(* Nothing durable is written, so a crash during recovery changes nothing.  *)
(* Two entries with one key (a deleted one that is back) are outside the    *)
(* model: the second insertion into the top layer does not end.             *)
RecoverSPTree ==
    /\ mode = "down" /\ mode' = "recovered"
    /\ \A d, e \in index : d.key = e.key => d = e
    /\ node' = Recover
    /\ buffering' \in BOOLEAN /\ logging' \in BOOLEAN
    /\ UNCHANGED <<leafVars, poolVars, logVars, crash, crashes, op, calls, early>>

(* Calls go on where the recovered nodes tile the keys (otherwise some of   *)
(* them hang).                                                              *)
Resume ==
    /\ mode = "recovered" /\ Tiles /\ mode' = "up"
    /\ UNCHANGED <<leafVars, poolVars, logVars, buffering, logging, crash, crashes,
                   node, op, calls, early>>

(* The cache writes a line back before it is flushed. *)
WriteBack ==
    /\ mode = "up" /\ early < MaxEarly /\ early' = early + 1
    /\ \E l \in 1 .. leaves :
          \/ pmem' = [pmem EXCEPT ![l] = PersistHeader(l)]
          \/ \E i \in Slot : pmem' = [pmem EXCEPT ![l] = PersistSlot(l, i)]
          \/ \E i \in Slot : pmem' = [pmem EXCEPT ![l] = TornSlot(l, i)]
    /\ pmem' # pmem
    /\ UNCHANGED <<leaves, mem, poolVars, logVars, procVars, node, op, calls>>

-----------------------------------------------------------------------------
(* The thread pool.  Its threads take the jobs in order and end them in any *)
(* order.  The deletion of a key that is not in the B+-tree does nothing on *)
(* its last page and never ends on any other.                               *)

Without(s, i) == [j \in 1 .. Len(s) - 1 |-> IF j < i THEN s[j] ELSE s[j + 1]]

EndJob(i) ==
    /\ mode = "up" /\ i <= Len(jobs) /\ i <= PoolSize
    /\ jobs' = Without(jobs, i)
    /\ mixed' = IF \E j \in 1 .. i - 1 : jobs[j].key = jobs[i].key
                THEN mixed \cup {jobs[i].key} ELSE mixed

TopLayerPmemInsert(i) ==
    /\ EndJob(i) /\ jobs[i].name = "insert"
    /\ index' = index \cup {Entry(jobs[i].key, jobs[i].leaf)}
    /\ UNCHANGED <<weak, leafVars, logVars, procVars, node, op, calls, early>>

TopLayerPmemRemove(i) ==
    /\ EndJob(i) /\ jobs[i].name = "remove"
    /\ \/ \E e \in index : /\ e.key = jobs[i].key
                           /\ index' = index \ {e} /\ weak' = weak \cup {e}
       \/ /\ \A e \in index : e.key # jobs[i].key
          /\ UNCHANGED <<index, weak>>
    /\ UNCHANGED <<leafVars, logVars, procVars, node, op, calls, early>>

Submit(name, key, leaf) == jobs' = jobs \o <<[name |-> name, key |-> key, leaf |-> leaf]>>

-----------------------------------------------------------------------------
(* insert *)

Call(t, name, k, v) ==
    [NoOp EXCEPT !.name = name, !.key = k, !.val = v, !.node = Start(k), !.thread = t]

Begin == mode = "up" /\ op.pc = "idle" /\ calls < MaxCalls /\ calls' = calls + 1

BufferTakes(n, k) == node[n].buffered /\ (InBuf(n, k) # {} \/ Len(node[n].buf) < BufferCapacity)

BufInsert(b, k, v) ==
    IF \E i \in 1 .. Len(b) : b[i].key = k
    THEN [i \in 1 .. Len(b) |-> IF b[i].key = k THEN Rec(k, v) ELSE b[i]]
    ELSE b \o <<Rec(k, v)>>

InsertBuffer(t, k, v) ==
    LET n == Start(k)
    IN  /\ Begin /\ BufferTakes(n, k)
        /\ logging => CanLog(t)
        /\ node' = [node EXCEPT ![n].buf = BufInsert(@, k, v)]
        /\ IF logging THEN AppendLog(t, "insert", k, v) ELSE UNCHANGED <<log, logId>>
        /\ UNCHANGED <<leafVars, poolVars, created, logSize, procVars, op, early>>

(* ... but the process exits where the log cannot be opened. *)
InsertExits(t, k, v) ==
    /\ mode = "up" /\ op.pc = "idle" /\ calls < MaxCalls
    /\ BufferTakes(Start(k), k) /\ logging /\ ~CanLog(t)
    /\ Die

(* FlushOrSplitAndUnlock or BottomLayer::Insert: where the record goes. *)
ToMerge(n, k, v) == node[n].buf \o <<Rec(k, v)>>

InsertFlushes(t, k, v) ==
    LET n == Start(k)
    IN  /\ Begin /\ node[n].buffered /\ ~BufferTakes(n, k)
        /\ Len(node[n].buf) + Count(mem[n].slots) <= LeafCapacity - 1
        /\ mem' = [mem EXCEPT ![n].slots = Unset(@, InsertBatch(@, ToMerge(n, k, v)))]
        /\ op' = [Call(t, "insert", k, v) EXCEPT !.pc = "flush_leaf", !.recs = ToMerge(n, k, v)]
        /\ UNCHANGED <<leaves, pmem, poolVars, logVars, procVars, node, early>>

FlushLeaf ==
    /\ mode = "up" /\ op.pc = "flush_leaf"
    /\ pmem' = [pmem EXCEPT ![op.node] = mem[op.node]]
    /\ op' = [op EXCEPT !.pc = "flush_bits"]
    /\ UNCHANGED <<leaves, mem, poolVars, logVars, procVars, node, calls, early>>

FlushBits ==
    LET n == op.node
    IN  /\ mode = "up" /\ op.pc = "flush_bits"
        /\ mem' = [mem EXCEPT ![n].slots = InsertBatch(@, op.recs)]
        /\ pmem' = [pmem EXCEPT ![n] = mem'[n]]
        /\ node' = [node EXCEPT ![n].buf = <<>>]
        /\ op' = NoOp
        /\ UNCHANGED <<leaves, poolVars, logVars, procVars, calls, early>>

InsertUpdates(t, k, v) ==
    LET n == Start(k)
    IN  /\ Begin /\ ~node[n].buffered /\ Match(mem[n].slots, k) # {}
        /\ mem' = [mem EXCEPT ![n].slots = LeafInsert(@, k, v)]
        /\ op' = [Call(t, "insert", k, v) EXCEPT !.pc = "update"]
        /\ UNCHANGED <<leaves, pmem, poolVars, logVars, procVars, node, early>>

UpdateFlush ==
    /\ mode = "up" /\ op.pc = "update"
    /\ pmem' = [pmem EXCEPT ![op.node] =
                    PersistSlot(op.node, Lowest(Match(mem[op.node].slots, op.key)))]
    /\ op' = NoOp
    /\ UNCHANGED <<leaves, mem, poolVars, logVars, procVars, node, calls, early>>

(* mutant: the bit is set with the record *)
SlotWritten_Valid(leaf, k, v) == LeafInsert(leaf, k, v)
SlotWritten(leaf, k, v) == Unset(leaf, LeafInsert(leaf, k, v))

InsertFills(t, k, v) ==
    LET n == Start(k)
    IN  /\ Begin /\ ~node[n].buffered /\ Match(mem[n].slots, k) = {}
        /\ EmptyBitSet(mem[n].slots) # {}
        /\ mem' = [mem EXCEPT ![n].slots = SlotWritten(@, k, v)]
        /\ op' = [Call(t, "insert", k, v) EXCEPT !.pc = "fill"]
        /\ UNCHANGED <<leaves, pmem, poolVars, logVars, procVars, node, early>>

(* The record is flushed, then its valid bit is set and not flushed. *)
FillFlush ==
    LET n == op.node
        i == Lowest({j \in Slot : mem[n].slots[j].key = op.key /\ mem[n].slots[j].val = op.val})
    IN  /\ mode = "up" /\ op.pc = "fill"
        /\ pmem' = [pmem EXCEPT ![n] = PersistSlot(n, i)]
        /\ mem' = [mem EXCEPT ![n].slots[i].valid = TRUE]
        /\ op' = NoOp
        /\ UNCHANGED <<leaves, poolVars, logVars, procVars, node, calls, early>>

-----------------------------------------------------------------------------
(* LeafNode64::Split and SplitMLNodeAndUnlock.  A split at the node's own   *)
(* low key is outside the model: the top layer has that key, and its        *)
(* insertion does not end.  It takes a leaf whose lower half is one key, in *)
(* records that earlier splits have shadowed (module SPTree).               *)

MustSplit(n, k) ==
    IF node[n].buffered
    THEN /\ ~BufferTakes(n, k)
         /\ Len(node[n].buf) + Count(mem[n].slots) > LeafCapacity - 1
    ELSE Match(mem[n].slots, k) = {} /\ EmptyBitSet(mem[n].slots) = {}

(* The left half keeps its records below the median; bits of records that   *)
(* are merged are set at the end.                                           *)
Halved(leaf, recs) ==
    LET median == Median(leaf)
        kept   == [i \in Slot |-> [leaf[i] EXCEPT !.valid = @ /\ leaf[i].key < median]]
    IN  Unset(kept, SplitLeft(leaf, recs))

LeftHalf(n, new, recs) ==
    [mem[n] EXCEPT !.hkey = Median(mem[n].slots), !.next = new, !.slots = Halved(@, recs)]
RightHalf(n, recs) ==
    [lkey |-> Median(mem[n].slots), hkey |-> mem[n].hkey, next |-> mem[n].next,
     slots |-> Unset(EmptyLeaf, SplitRight(mem[n].slots, recs))]

SplitWrite(t, k, v) ==
    LET n == Start(k)
        new == leaves + 1
        recs == ToMerge(n, k, v)
    IN  /\ Begin /\ MustSplit(n, k) /\ new <= MaxLeaves /\ Median(mem[n].slots) # mem[n].lkey
        /\ leaves' = new
        /\ mem' = [mem EXCEPT ![n] = LeftHalf(n, new, recs), ![new] = RightHalf(n, recs)]
        /\ op' = [Call(t, "insert", k, v) EXCEPT
                     !.pc = "split_left", !.new = new, !.recs = recs,
                     !.left = SplitLeft(mem[n].slots, recs), !.right = SplitRight(mem[n].slots, recs)]
        /\ UNCHANGED <<pmem, poolVars, logVars, procVars, node, early>>

SplitFlushLeft ==
    /\ mode = "up" /\ op.pc = "split_left"
    /\ pmem' = [pmem EXCEPT ![op.node] = mem[op.node]]
    /\ op' = [op EXCEPT !.pc = "split_right"]
    /\ UNCHANGED <<leaves, mem, poolVars, logVars, procVars, node, calls, early>>

SplitFlushRight ==
    /\ mode = "up" /\ op.pc = "split_right"
    /\ pmem' = [pmem EXCEPT ![op.new] = mem[op.new]]
    /\ op' = [op EXCEPT !.pc = "split_bits"]
    /\ UNCHANGED <<leaves, mem, poolVars, logVars, procVars, node, calls, early>>

(* The bits of both halves are set and flushed, the new node is linked, and *)
(* a job is to put the new leaf into the persistent B+-tree.                *)
SplitBits ==
    LET n == op.node
        new == op.new
        median == mem[new].lkey
    IN  /\ mode = "up" /\ op.pc = "split_bits"
        /\ mem' = [mem EXCEPT ![n].slots = op.left, ![new].slots = op.right]
        /\ pmem' = [pmem EXCEPT ![n] = mem'[n], ![new] = mem'[new]]
        /\ node' = [l \in DOMAIN node \cup {new} |->
                      IF l = new THEN MLNode(median, node[n].hkey, buffering)
                      ELSE IF l = n THEN [node[n] EXCEPT !.hkey = median, !.buf = <<>>]
                      ELSE node[l]]
        /\ Submit("insert", median, new)
        /\ op' = NoOp
        /\ UNCHANGED <<leaves, index, weak, mixed, logVars, procVars, calls, early>>

-----------------------------------------------------------------------------
(* remove, LeafNode64::Merge and MaybeMergeMLnode *)

Remove(t, k) ==
    LET n == Start(k)
        inLeaf == Match(mem[n].slots, k) # {}
    IN  /\ Begin
        /\ node' = [node EXCEPT ![n].buf = Pick(@, {i \in 1 .. Len(@) : @[i].key # k})]
        /\ mem' = [mem EXCEPT ![n].slots = LeafRemove(@, k)]
        /\ op' = [Call(t, "remove", k, NoVal) EXCEPT
                     !.pc = IF inLeaf THEN "erase" ELSE "merge", !.logged = InBuf(n, k) # {}]
        /\ UNCHANGED <<leaves, pmem, poolVars, logVars, procVars, early>>

RemoveFlush ==
    /\ mode = "up" /\ op.pc = "erase"
    /\ pmem' = [pmem EXCEPT ![op.node] = PersistHeader(op.node)]
    /\ op' = [op EXCEPT !.pc = "merge"]
    /\ UNCHANGED <<leaves, mem, poolVars, logVars, procVars, node, calls, early>>

Merges(n) ==
    /\ Count(mem[n].slots) < MergeLow
    /\ node[n].hkey # MaxKey
    /\ Count(mem[NextNode(n)].slots) < MergeHigh
    /\ LeafCanMerge(mem[n].slots, mem[mem[n].next].slots)

Joined_KeepsNext(n, r) ==                       \* mutant: the left leaf is not linked past the right one
    [mem[n] EXCEPT !.hkey = mem[r].hkey, !.slots = Unset(@, LeafMerge(@, mem[r].slots))]
Joined(n, r) ==
    [mem[n] EXCEPT !.next = mem[r].next, !.hkey = mem[r].hkey,
                   !.slots = Unset(@, LeafMerge(@, mem[r].slots))]

MergeWrite ==
    LET n == op.node
        r == mem[n].next
    IN  /\ mode = "up" /\ op.pc = "merge" /\ Merges(n)
        /\ mem' = [mem EXCEPT ![n] = Joined(n, r)]
        /\ op' = [op EXCEPT !.pc = "merge_flush", !.left = LeafMerge(mem[n].slots, mem[r].slots)]
        /\ UNCHANGED <<leaves, pmem, poolVars, logVars, procVars, node, calls, early>>

MergeFlush ==
    /\ mode = "up" /\ op.pc = "merge_flush"
    /\ pmem' = [pmem EXCEPT ![op.node] = mem[op.node]]
    /\ op' = [op EXCEPT !.pc = "merge_bits"]
    /\ UNCHANGED <<leaves, mem, poolVars, logVars, procVars, node, calls, early>>

(* The bits are set and flushed, the right node is unlinked, and a job is   *)
(* to delete its entry from the persistent B+-tree.                         *)
MergeBits ==
    LET n == op.node
        r == NextNode(n)
    IN  /\ mode = "up" /\ op.pc = "merge_bits"
        /\ mem' = [mem EXCEPT ![n].slots = op.left]
        /\ pmem' = [pmem EXCEPT ![n] = mem'[n]]
        /\ node' = [l \in DOMAIN node \ {r} |->
                      IF l = n THEN [node[n] EXCEPT !.hkey = node[r].hkey] ELSE node[l]]
        /\ Submit("remove", node[r].lkey, r)
        /\ op' = [op EXCEPT !.pc = "removed"]
        /\ UNCHANGED <<leaves, index, weak, mixed, logVars, procVars, calls, early>>

RemoveReturn ==
    /\ mode = "up"
    /\ op.pc = "removed" \/ (op.pc = "merge" /\ ~Merges(op.node))
    /\ op.logged /\ logging => CanLog(op.thread)
    /\ IF op.logged /\ logging THEN AppendLog(op.thread, "remove", op.key, NoVal)
       ELSE UNCHANGED <<log, logId>>
    /\ op' = NoOp
    /\ UNCHANGED <<leafVars, poolVars, created, logSize, procVars, node, calls, early>>

-----------------------------------------------------------------------------
Next ==
    \/ CreateLogsForThread
    \/ \E t \in Threads, k \in Keys :
          \/ \E v \in ValsOf(k) :
                /\ <<"insert", k, v>> \in Calls
                /\ \/ InsertBuffer(t, k, v) \/ InsertExits(t, k, v)
                   \/ InsertFlushes(t, k, v) \/ InsertUpdates(t, k, v)
                   \/ InsertFills(t, k, v) \/ SplitWrite(t, k, v)
          \/ <<"remove", k, NoVal>> \in Calls /\ Remove(t, k)
    \/ FlushLeaf \/ FlushBits \/ UpdateFlush \/ FillFlush
    \/ SplitFlushLeft \/ SplitFlushRight \/ SplitBits
    \/ RemoveFlush \/ MergeWrite \/ MergeFlush \/ MergeBits \/ RemoveReturn
    \/ \E i \in 1 .. Len(jobs) : TopLayerPmemInsert(i) \/ TopLayerPmemRemove(i)
    \/ WriteBack \/ Crash \/ RecoverSPTree \/ Resume

Spec == Init /\ [][Next]_vars

-----------------------------------------------------------------------------
(* What a restart finds. *)

(* A crash takes nothing back that had returned, whatever it interrupts:    *)
(* outside the loose keys every lookup answers after Recover what it        *)
(* answered before the crash; a new record whose valid bit was never        *)
(* flushed is there or gone; and no key ever has a value that was not       *)
(* written for it, except the records a split was merging.                  *)
SurvivesCrash ==
    mode = "recovered" =>
        \A k \in Keys :
            /\ k \notin crash.loose =>
                  \/ Answer(k) = crash.answers[k]
                  \/ k \in crash.gone /\ Answer(k) = NoVal
            /\ k \notin crash.torn => Answer(k) \in ValsOf(k) \cup {NoVal, Hang}

(* When the pool has drained and no split or merge was cut short, the       *)
(* ranges in the leaf headers and the entries of the B+-tree, which are     *)
(* written by different threads at different times, fit together again: no  *)
(* key is lost between two nodes, and the list of leaves, which Merge       *)
(* follows, agrees with the rebuilt middle layer.                           *)
CleanRestartTiles == mode = "recovered" /\ crash.settled => Tiles

(* The log covers what a crash takes from the buffers: whoever walks a log  *)
(* from its tail to its head (the comment at the top of wal.h: "replay from *)
(* the log tail to log head") meets, for every buffered key, its insertion  *)
(* first on some log.                                                       *)
LastOf(l, k) ==
    LET walk[off \in 0 .. l.tail] ==
          IF ~Valid(l, off) THEN NoVal
          ELSE IF l.at[off].key = k THEN l.at[off].val
          ELSE walk[Back(l, off)]
    IN  walk[rbegin(l)]

LogHasBuffered ==
    mode = "up" /\ logging =>
        \A l \in DOMAIN node : \A i \in 1 .. Len(node[l].buf) :
            \E n \in 1 .. Len(log) : LastOf(log[n], node[l].buf[i].key) = node[l].buf[i].val
=============================================================================
