----------------------------- MODULE CCEHSpoton -----------------------------
(***************************************************************************)
(* CCEH with write buffers (CCEH/src/CCEH_spoton.cc, with and without      *)
(* CONFIG_OUT_OF_PLACE_MERGE).  Every segment has a locked buffer in DRAM  *)
(* that its directory entries point to.  An insert goes to the buffer; the *)
(* thread that finds it full merges it with the buffer's lock held: record *)
(* by record into the segments (insert with with_lock = false), or into a  *)
(* copy of the segment or of its halves that replaces it                   *)
(* (mergeBufAndSplitWhenNeeded).  Get takes no lock.                       *)
(*                                                                         *)
(* The counters of the segments are left out: nothing waits for them in    *)
(* these builds.  What is done to one segment or buffer is one step.       *)
(***************************************************************************)
EXTENDS CCEHSegment, HashBuffer

CONSTANTS
    Procs,       \* threads
    Gets,        \* keys that are looked up
    MaxGets,     \* bound: calls of Get
    MaxSegs,     \* bound: segments that are ever allocated
    Modes,       \* values of otp: FALSE in-place merge, TRUE CONFIG_OUT_OF_PLACE_MERGE
    InitTables   \* the tables a behaviour may start from, with the keys inserted into them

VARIABLES
    dirs,        \* the directories, oldest first; the last one is dir()
    segs,        \* segment id -> segment
    bufs,        \* buffer id -> [nodes, depth, owner]
    th,          \* thread -> its call
    otp,         \* the build
    store,       \* history: the keys inserted so far
    todo,        \* history: the inserts that are left
    gets,
    dropped,     \* history: keys that a split found no slot for
    harm         \* history: what went wrong, see Harmless

vars == <<dirs, segs, bufs, th, otp, store, todo, gets, dropped, harm>>

Idle == [pc |-> "idle", op |-> "none", key |-> 0, x |-> 0, target |-> 0, buf |-> 0, queue |-> <<>>,
         at |-> 0, val |-> 0, depth |-> 0, s |-> <<>>, b |-> <<>>, sure |-> FALSE, found |-> FALSE]

WriteBuffer(depth) == [nodes |-> NewHashBuffer, depth |-> depth, owner |-> 0]
cur == Len(dirs)
dir == dirs[cur]
Fresh == Cardinality(DOMAIN segs) + 1
FreshBuf == Cardinality(DOMAIN bufs) + 1

Init ==
    /\ \E t \in InitTables :
          /\ dirs = <<t.dir>> /\ segs = t.segs /\ bufs = t.bufs /\ todo = t.inserts
          /\ store = UNION {Content(t.segs[i]) : i \in DOMAIN t.segs}
                     \cup UNION {InHashBuffer(t.bufs[i].nodes) : i \in DOMAIN t.bufs}
    /\ otp \in Modes /\ th = [p \in Procs |-> Idle]
    /\ gets = 0 /\ dropped = {} /\ harm = {}

At(p, pc) == th[p].pc = pc
Goto(p, t) == th' = [th EXCEPT ![p] = t]
History == <<store, todo, gets, dropped, harm>>
Table == <<dirs, segs, bufs, otp>>

-----------------------------------------------------------------------------
(* Insert, up to the buffer. *)

Insert(p, k) ==
    /\ At(p, "idle") /\ todo' = todo \ {k}
    /\ Goto(p, [Idle EXCEPT !.pc = "index", !.op = "insert", !.key = k])
    /\ UNCHANGED <<Table, store, gets, dropped, harm>>

\* x; Get first waits until the directory is not suspended.
Index(p) ==
    LET t == th[p]
    IN /\ At(p, "index") /\ (t.op = "get" => dir.sema >= 0)
       /\ Goto(p, [t EXCEPT !.pc = IF t.op = "get" THEN "getbuf" ELSE "target", !.x = Prefix(t.key, dir.depth)])
       /\ UNCHANGED <<Table, History>>

\* target and bufnode, from the directory of this moment.
Target(p) ==
    LET t == th[p]
    IN /\ At(p, "target")
       /\ Goto(p, [t EXCEPT !.pc = "lock", !.target = dir.seg[t.x], !.buf = dir.buf[t.x]])
       /\ UNCHANGED <<Table, History>>

\* Under the buffer's lock: the segment's depth has to be the buffer's.
SameDepth(t) == segs[t.target].depth = bufs[t.buf].depth

\* What the depths cannot tell: the buffer is another entry's by now, or the
\* segment that is about to be merged was replaced.
Misplaced(t) == t.buf # dir.buf[Prefix(t.key, dir.depth)]
Stale(t) == otp /\ t.target # dir.seg[Prefix(t.key, dir.depth)]
Flag(on, what) == harm' = IF on THEN harm \cup {what} ELSE harm

BufLock(p) ==
    LET t == th[p]  b == bufs[t.buf]
    IN /\ At(p, "lock") /\ b.owner = 0
       /\ \/ /\ ~SameDepth(t) /\ Goto(p, [t EXCEPT !.pc = "index"]) /\ UNCHANGED <<bufs, store, harm>>
          \/ /\ SameDepth(t) /\ CanPut(b.nodes, t.key)
             /\ bufs' = [bufs EXCEPT ![t.buf].nodes = HashPut(@, t.key)]
             /\ store' = store \cup {t.key} /\ Flag(Misplaced(t), "misplaced")
             /\ Goto(p, [Idle EXCEPT !.pc = "return"])
          \/ /\ SameDepth(t) /\ ~CanPut(b.nodes, t.key)
             /\ bufs' = [bufs EXCEPT ![t.buf].owner = p]
             /\ Goto(p, [t EXCEPT !.pc = IF otp THEN "copy" ELSE "merge", !.queue = HashBegin(b.nodes)])
             /\ Flag(Stale(t), "stale") /\ UNCHANGED store
       /\ UNCHANGED <<dirs, segs, otp, todo, gets, dropped>>

\* Reset, Unlock, retry.
BufReset_Locked(p) ==                                                         \* mutant
    LET t == th[p]
    IN /\ At(p, "reset")
       /\ bufs' = [bufs EXCEPT ![t.buf].nodes = HashReset(@)]
       /\ Goto(p, [t EXCEPT !.pc = "index"])
       /\ UNCHANGED <<dirs, segs, otp, History>>
BufReset(p) ==
    LET t == th[p]
    IN /\ At(p, "reset")
       /\ bufs' = [bufs EXCEPT ![t.buf].nodes = HashReset(@), ![t.buf].owner = 0]
       /\ Goto(p, [t EXCEPT !.pc = "index"])
       /\ UNCHANGED <<dirs, segs, otp, History>>

-----------------------------------------------------------------------------
(* In-place merge: insert of each record. *)

\* The halves of a split, the buffer of the upper one, and the directory next.
\* The depth of the buffer that the key's entry points to is raised.
Halved(p, halves, x, k) ==
    LET t == th[p]  depth == segs[t.target].depth
    IN /\ Fresh + 1 <= MaxSegs /\ depth < HashBits
       /\ segs' = (Fresh :> halves[1]) @@ (Fresh + 1 :> halves[2]) @@ segs
       /\ bufs' = (FreshBuf :> WriteBuffer(depth + 1)) @@ [bufs EXCEPT ![dir.buf[x]].depth = depth + 1]
       /\ Goto(p, [t EXCEPT !.pc = "dir", !.at = k, !.s = <<Fresh, Fresh + 1>>,
                            !.b = <<dir.buf[x], FreshBuf>>, !.depth = depth])

MergeTarget(p) ==
    LET t == th[p]
        k == Head(t.queue)
    IN /\ At(p, "merge") /\ UNCHANGED <<Table, History>>
       /\ Goto(p, IF t.queue = <<>> THEN [t EXCEPT !.pc = "reset"]
                  ELSE [t EXCEPT !.pc = "insert", !.at = k, !.x = Prefix(k, dir.depth),
                                 !.target = dir.seg[Prefix(k, dir.depth)]])

\* The slot of one record, or the split of its segment.  insert starts again
\* when the entry changed, or when its depth did before a split; x may still be
\* an older directory's.
MergeKey(p) ==
    LET t == th[p]
        seg == segs[t.target]
        at == FreeSlot(seg, t.at)
        halves == Split(seg)
        same == t.target = dir.seg[Prefix(t.at, dir.depth)]
        deep == segs[dir.seg[t.x]].depth = seg.depth
    IN /\ At(p, "insert")
       /\ \/ /\ ~same \/ (at = {} /\ ~deep)
             /\ Goto(p, [t EXCEPT !.pc = "merge"]) /\ UNCHANGED <<segs, bufs, dropped, harm>>
          \/ /\ same /\ at # {}
             /\ segs' = [segs EXCEPT ![t.target].slot[CHOOSE i \in at : TRUE] = t.at]
             /\ Goto(p, [t EXCEPT !.pc = "merge", !.queue = Tail(@)])
             /\ UNCHANGED <<bufs, dropped, harm>>
          \/ /\ same /\ at = {} /\ deep /\ Halved(p, halves, t.x, t.at)
             /\ Flag(t.x # Prefix(t.at, dir.depth), "stale")
             /\ dropped' = dropped \cup (Content(seg) \ (Content(halves[1]) \cup Content(halves[2])))
       /\ UNCHANGED <<dirs, otp, store, todo, gets>>

-----------------------------------------------------------------------------
(* Out-of-place merge. *)

\* Insert4split of the records in order, each with its first window, until one does not fit.
Filled(seg, queue) ==
    LET Next4split(r, k) ==
            LET i == Insert4split(r.seg, k, Home1[k])
            IN IF r.left = <<>> /\ i.ok THEN [r EXCEPT !.seg = i.seg] ELSE [r EXCEPT !.left = Append(@, k)]
    IN FoldLeft(Next4split, [seg |-> seg, left |-> <<>>], queue)

\* A record in one of its windows; dropped when both are full.
TwoHomes(seg, k) ==
    LET i == Insert4split(seg, k, Home1[k]) IN IF i.ok THEN i.seg ELSE Insert4split(seg, k, Home2[k]).seg

\* SplitDram: the upper records move to a new segment, the slots they leave are
\* empty, and what was left of the buffer goes to the halves.
SplitDram(seg, left) ==
    LET d == seg.depth
        moved == {k \in Content(seg) : Upper(k, d)}
        lower == [seg EXCEPT !.depth = d + 1,
                             !.slot = [i \in Slots |-> IF @[i] \in moved THEN INVALID ELSE @[i]]]
        inSlots == SelectSeq([i \in 1..NumSlot |-> seg.slot[i - 1]], LAMBDA k : k \in moved)
        up == SelectSeq(left, LAMBDA k : Upper(k, d))
        down == SelectSeq(left, LAMBDA k : ~Upper(k, d))
    IN <<FoldLeft(TwoHomes, lower, down), FoldLeft(TwoHomes, initSegment(d + 1), inSlots \o up)>>

MergeCopy(p) ==
    LET t == th[p]
        all == Content(segs[t.target]) \cup ToSet(t.queue)
    IN /\ At(p, "copy")
       /\ \E r \in {Filled(segs[t.target], t.queue)} :
             \/ /\ r.left = <<>> /\ Fresh <= MaxSegs
                /\ segs' = (Fresh :> r.seg) @@ segs
                /\ Goto(p, [t EXCEPT !.pc = "rlock", !.s = <<Fresh>>]) /\ UNCHANGED <<bufs, dropped>>
             \/ /\ r.left # <<>>
                /\ \E halves \in {SplitDram(r.seg, r.left)} :
                      /\ Halved(p, halves, Prefix(t.key, dir.depth), t.key)
                      /\ dropped' = dropped \cup (all \ (Content(halves[1]) \cup Content(halves[2])))
       /\ UNCHANGED <<dirs, otp, store, todo, gets, harm>>

\* No split: the directory's entries get the copy.  Of more than two entries
\* only the upper half does.
Replaced(d, x, depth) == IF Stride(d, depth) <= 2 THEN Group(d, x, depth) ELSE UpperHalf(d, x, depth)

\* Readers that see the old segment find the records in the buffer.
Replace(p) ==
    LET t == th[p]
        x == Prefix(t.key, dir.depth)
        depth == segs[t.target].depth
    IN /\ At(p, "rlock") /\ dir.sema >= 0
       /\ dirs' = [dirs EXCEPT ![cur].seg = SetEntries(@, Replaced(dir, x, depth), t.s[1])]
       /\ Flag(Stride(dir, depth) > 2, "half") /\ Goto(p, [t EXCEPT !.pc = "reset"])
       /\ UNCHANGED <<segs, bufs, otp, store, todo, gets, dropped>>

-----------------------------------------------------------------------------
(* The directory after a split. *)

ChooseDir(p) ==
    LET t == th[p]
    IN /\ At(p, "dir")
       /\ Goto(p, [t EXCEPT !.pc = IF t.depth = dir.depth THEN "dsuspend" ELSE "dlock"])
       /\ UNCHANGED <<Table, History>>

SuspendDir(p) ==
    LET t == th[p]
    IN /\ At(p, "dsuspend")
       /\ IF dir.sema >= 0
          THEN dirs' = [dirs EXCEPT ![cur].sema = -1] /\ Goto(p, [t EXCEPT !.pc = "double", !.val = dir.sema])
          ELSE UNCHANGED dirs /\ Goto(p, [t EXCEPT !.pc = "dir"])
       /\ UNCHANGED <<segs, bufs, otp, History>>

Linked_Next(t) ==                                                             \* mutant
    [t EXCEPT !.pc = IF otp THEN "reset" ELSE "merge", !.queue = Tail(@)]
Linked(t) == [t EXCEPT !.pc = IF otp THEN "reset" ELSE "merge"]

DoubledBufs(f, x, b) == Doubled(f, x, b[1], b[2])

Double(p) ==
    LET t == th[p]
        x == Prefix(t.at, dir.depth)
    IN /\ At(p, "double") /\ (t.val # 0 => dir.sema = -t.val - 1) /\ dir.depth < HashBits
       /\ dirs' = Append(dirs, [depth |-> dir.depth + 1, sema |-> 0,
                                seg |-> Doubled(dir.seg, x, t.s[1], t.s[2]),
                                buf |-> DoubledBufs(dir.buf, x, t.b)])
       /\ Flag(dir.depth # t.depth, "collision") /\ Goto(p, Linked(t))
       /\ UNCHANGED <<segs, bufs, otp, store, todo, gets, dropped>>

LockDir(p) ==
    LET t == th[p]
    IN /\ At(p, "dlock") /\ dir.sema >= 0
       /\ dirs' = [dirs EXCEPT ![cur].sema = @ + 1]
       /\ Goto(p, [t EXCEPT !.pc = "upper", !.x = Prefix(t.at, dir.depth)])
       /\ UNCHANGED <<segs, bufs, otp, History>>

\* The segments of the entries, the upper ones first; with more than two
\* entries the buffers of a half follow at once, else they come last.
SetUpper(p) ==
    LET t == th[p]  up == UpperHalf(dir, t.x, t.depth)
    IN /\ At(p, "upper")
       /\ dirs' = [dirs EXCEPT ![cur].seg = SetEntries(@, up, t.s[2]),
                               ![cur].buf = IF Cardinality(up) > 1 THEN SetEntries(@, up, t.b[2]) ELSE @]
       /\ Goto(p, [t EXCEPT !.pc = "lower"])
       /\ UNCHANGED <<segs, bufs, otp, History>>

SetLower(p) ==
    LET t == th[p]
    IN /\ At(p, "lower")
       /\ dirs' = [dirs EXCEPT ![cur].seg = SetEntries(@, LowerHalf(dir, t.x, t.depth), t.s[1])]
       /\ Goto(p, [t EXCEPT !.pc = "buffers"])
       /\ UNCHANGED <<segs, bufs, otp, History>>

SetBuffers(p) ==
    LET t == th[p]
    IN /\ At(p, "buffers")
       /\ dirs' = [dirs EXCEPT ![cur].sema = @ - 1,
             ![cur].buf = SetEntries(SetEntries(@, UpperHalf(dir, t.x, t.depth), t.b[2]),
                                     LowerHalf(dir, t.x, t.depth), t.b[1])]
       /\ Goto(p, Linked(t))
       /\ UNCHANGED <<segs, bufs, otp, History>>

-----------------------------------------------------------------------------
(* Get: the buffer, then the segment. *)

Get(p, k) ==
    /\ At(p, "idle") /\ gets < MaxGets /\ gets' = gets + 1
    /\ Goto(p, [Idle EXCEPT !.pc = "index", !.op = "get", !.key = k, !.sure = k \in store])
    /\ UNCHANGED <<Table, store, todo, dropped, harm>>

\* Records of a buffer whose in-place merge is under way.
Moving == IF otp THEN {} ELSE UNION {ToSet(th[q].queue) : q \in {r \in Procs : th[r].pc \notin {"idle", "index", "target", "lock"}}}

\* Nothing is promised when x is an older directory's, or for a moving record.
GetBuf(p) ==
    LET t == th[p]
        inBuf == HashGet(bufs[dir.buf[t.x]].nodes, t.key)
        unsure == t.x # Prefix(t.key, dir.depth) \/ t.key \in Moving
    IN /\ At(p, "getbuf") /\ UNCHANGED <<Table, History>>
       /\ Goto(p, [t EXCEPT !.pc = IF inBuf THEN "return" ELSE "get", !.found = inBuf,
                            !.sure = t.sure /\ ~unsure])

\* get: the entry is read and read again until it is the same, then the segment is searched.
GetKey(p) ==
    LET t == th[p]
    IN /\ At(p, "get") /\ dir.sema >= 0 /\ UNCHANGED <<Table, History>>
       /\ Goto(p, [t EXCEPT !.pc = "return",
                            !.found = HasKey(segs[dir.seg[Prefix(t.key, dir.depth)]], t.key)])

Return(p) == At(p, "return") /\ Goto(p, Idle) /\ UNCHANGED <<Table, History>>

Step(p) ==
    \/ Index(p) \/ Target(p) \/ BufLock(p) \/ BufReset(p) \/ MergeTarget(p) \/ MergeKey(p)
    \/ MergeCopy(p) \/ Replace(p) \/ ChooseDir(p) \/ SuspendDir(p) \/ Double(p)
    \/ LockDir(p) \/ SetUpper(p) \/ SetLower(p) \/ SetBuffers(p) \/ GetBuf(p) \/ GetKey(p) \/ Return(p)

Next ==
    \E p \in Procs :
        \/ \E k \in todo : Insert(p, k)
        \/ \E k \in Gets : Get(p, k)
        \/ Step(p)

Spec == Init /\ [][Next]_vars /\ \A p \in Procs : WF_vars(Step(p))

-----------------------------------------------------------------------------
(* Properties. *)

TypeOK ==
    /\ \A i \in DOMAIN dirs : LET d == dirs[i] IN
          /\ d.depth \in 0..HashBits /\ d.sema \in Int /\ DOMAIN d.seg = Entries(d.depth)
          /\ \A e \in Entries(d.depth) : d.seg[e] \in DOMAIN segs /\ d.buf[e] \in DOMAIN bufs
    /\ \A i \in DOMAIN segs : segs[i].depth \in 0..HashBits /\ \A j \in Slots : segs[i].slot[j] \in Keys \cup {INVALID}
    /\ \A i \in DOMAIN bufs : InHashBuffer(bufs[i].nodes) \subseteq Keys /\ bufs[i].owner \in Procs \cup {0}
    /\ store \cup todo \subseteq Keys /\ dropped \subseteq store

\* Four events break the table; the code does not test for any of them:
\*  - misplaced: a record is put into a buffer that its entry no longer points
\*    to (the entries get their segments before their buffers);
\*  - stale: a segment is merged that a merge replaced after it was read, or
\*    split with an entry's number from an older directory;
\*  - half: a replaced segment had more than two entries;
\*  - collision: a directory is doubled that another thread has just doubled.
Harmless == harm = {}

FoundNow(k) ==
    LET x == Prefix(k, dir.depth) IN HashGet(bufs[dir.buf[x]].nodes, k) \/ HasKey(segs[dir.seg[x]], k)

(* Unless one of these happened, every inserted key is in the buffer or the
   segment that its entry points to, in every state of every merge, split and
   doubling.  The exceptions are keys that a split dropped and, in place,
   records of the upper half that wait in the old buffer for their turn. *)
TableHoldsStore == Harmless => \A k \in store \ (dropped \cup Moving) : FoundNow(k)

(* Get finds a key that was stored when it was called, under the same conditions. *)
GetFinds ==
    \A p \in Procs : LET t == th[p] IN
        At(p, "return") /\ t.op = "get" /\ Harmless /\ t.sure /\ t.key \notin dropped => t.found

(* Buffers and segments correspond: while no thread is between the two, entries
   share a buffer exactly when they share a segment, and the depths agree, which
   is what the test under the buffer's lock relies on. *)
Linking == \E p \in Procs : th[p].pc \in {"dir", "dsuspend", "double", "dlock", "upper", "lower", "buffers"}
BuffersFollowSegments ==
    Harmless /\ ~Linking =>
        \A i, j \in DOMAIN dir.seg :
            /\ bufs[dir.buf[i]].depth = segs[dir.seg[i]].depth
            /\ (dir.buf[i] = dir.buf[j]) <=> (dir.seg[i] = dir.seg[j])

(* The table and its buffers are sound in every state of every merge. *)
TableSound == TypeOK /\ TableHoldsStore /\ BuffersFollowSegments

(* Nobody waits for ever: while a call is under way, and unless one of the events
   happened, some thread is not waiting for a buffer, for the directory or for
   the holders of the directory. *)
Waits(p) ==
    LET t == th[p]
    IN \/ t.pc = "lock" /\ bufs[t.buf].owner # 0
       \/ t.pc = "double" /\ t.val # 0 /\ dir.sema # -t.val - 1
       \/ t.pc \in {"dlock", "rlock"} /\ dir.sema < 0
       \/ t.pc \in {"index", "get"} /\ t.op = "get" /\ dir.sema < 0
SomeoneMoves ==
    LET busy == {p \in Procs : th[p].pc # "idle"}
    IN busy # {} /\ Harmless => \E p \in busy : ~Waits(p)
=============================================================================
