--------------------------- MODULE FastFairSpoton ---------------------------
(***************************************************************************)
(* The FAST_FAIR tree with buffer nodes (FAST_FAIR/btree_spoton.h built    *)
(* with CONFIG_BUFNODE, with and without CONFIG_OUT_OF_PLACE_MERGE).  Every*)
(* leaf but the first has a locked, bounded buffer in DRAM, found through  *)
(* a hash table; an insert goes to the buffer, and the thread that finds   *)
(* it full merges it into the leaf, into a copy of the leaf that replaces  *)
(* it, or into the two halves of a split, with the buffer's lock held.     *)
(* Searches take no lock.                                                  *)
(*                                                                         *)
(* As in FastFair a page's records are a function from its keys, and what  *)
(* is done under one page's lock is one step.                              *)
(***************************************************************************)
EXTENDS Integers, FiniteSets, FiniteSetsExt, TLC, SortedBufNode, SpotonLog

CONSTANTS
    Procs,       \* threads
    Searches,    \* keys that are searched for
    Card,        \* cardinality of a page
    Modes,       \* values of otp: FALSE in-place merge, TRUE CONFIG_OUT_OF_PLACE_MERGE
    MaxPages,    \* bound: pages that are ever allocated
    MaxReads,    \* bound: searches
    InitTrees    \* the trees a behaviour may start from, each with the keys inserted into it

NULL == 0
MaxKey == 1000                      \* UINT64_MAX of hkey
FirstLeaf == 1                      \* left_most_leafnode_
PageIds == 1..MaxPages

ASSUME SpotonAssumption ==
    /\ Searches \subseteq 1..(MaxKey - 1) /\ Modes \subseteq BOOLEAN
    /\ Card \in Nat /\ MaxPages \in Nat \ {0} /\ MaxReads \in Nat

VARIABLES
    pages,   \* page id -> page
    root,    \* bt->root
    table,   \* bufnode_table_: leaf -> the id of its buffer
    bufs,    \* buffer id -> [node, high, parent, owner]
    mtx,     \* the thread that holds the first leaf's mutex across store
    th,      \* thread -> its call
    otp,     \* the build
    logs,    \* thread -> its log (CONFIG_LOG)
    unlogged,   \* history: keys that went into a buffer without a log record
    store,   \* history: the keys inserted so far
    todo,    \* history: the inserts that are left
    reads

vars == <<pages, root, table, bufs, mtx, th, otp, logs, unlogged, store, todo, reads>>

page(level, leftmost, rec, sib, hkey) ==
    [level |-> level, leftmost |-> leftmost, rec |-> rec, sib |-> sib, hkey |-> hkey, immutable |-> FALSE]
NewBuf(high, parent) == [node |-> NewBufNode, high |-> high, parent |-> parent, owner |-> NULL]
Idle == [pc |-> "idle", key |-> NULL, page |-> NULL, buf |-> NULL, goal |-> "none", at |-> NULL,
         ptr |-> NULL, level |-> 0, t |-> FALSE, may |-> {}, sure |-> {}, merged |-> FALSE]

StoredKeys(pgs, bfs) ==
    UNION {DOMAIN pgs[id].rec : id \in {q \in DOMAIN pgs : pgs[q].leftmost = NULL}}
    \cup UNION {Recorded(bfs[b].node) : b \in DOMAIN bfs}

\* What the first buffers hold was logged by one of the threads.
Loader == CHOOSE p \in Procs : TRUE
LogKey(k, l) == LogAppend(l, kLogNodeValid, k)
Buffers == UNION {Recorded(bufs[b].node) : b \in DOMAIN bufs}

Init ==
    /\ \E t \in InitTrees :
          /\ pages = t.pages /\ root = t.root /\ table = t.table /\ bufs = t.bufs
          /\ store = StoredKeys(t.pages, t.bufs) /\ todo = t.inserts
    /\ otp \in Modes /\ mtx = NULL /\ reads = 0
    /\ th = [p \in Procs |-> Idle] /\ unlogged = {}
    /\ logs = [p \in Procs |-> IF p = Loader THEN FoldSet(LogKey, CreateLog, Buffers) ELSE CreateLog]

-----------------------------------------------------------------------------
(* Pages. *)

Keys(pg) == DOMAIN pg.rec
IsLeaf(pg) == pg.leftmost = NULL
FirstKey(id) == IF Keys(pages[id]) = {} THEN MaxKey ELSE Min(Keys(pages[id]))
Fresh == Min(PageIds \ DOMAIN pages)
insert_key(pg, k, ptr) == [pg EXCEPT !.rec = (k :> ptr) @@ @]
insert_keys(pg, K) == [pg EXCEPT !.rec = [k \in K |-> k] @@ @]

\* linear_search: pi = -2 is the move to the sibling.
GoesRight(id, k) == pages[id].sib # NULL /\ k >= FirstKey(pages[id].sib)
linear_search(id, k) ==
    LET pg == pages[id]
        below == {x \in Keys(pg) : x <= k}
    IN IF GoesRight(id, k) THEN pg.sib
       ELSE IF below = {} THEN pg.leftmost ELSE pg.rec[Max(below)]

PastHigh(pg, k) == pg.sib # NULL /\ pg.hkey # MaxKey /\ k >= pg.hkey

-----------------------------------------------------------------------------
(* btree_insert, down to the buffer. *)

At(p, pc) == th[p].pc = pc
Goto(p, t) == th' = [th EXCEPT ![p] = t]
Logs == <<logs, unlogged>>
Tree == <<pages, root, table, bufs, mtx, otp, Logs>>
History == <<store, todo, reads>>

Insert(p, k) ==
    /\ At(p, "idle") /\ todo' = todo \ {k}
    /\ Goto(p, [Idle EXCEPT !.pc = "descend", !.key = k, !.at = k, !.page = root, !.goal = "insert"])
    /\ UNCHANGED <<Tree, store, reads>>

\* Every search for a leaf, or for the inner page at t.level, in which t.at belongs.
Descend(p) ==
    LET t == th[p]  pg == pages[t.page]
        there == pg.level = t.level
    IN /\ At(p, "descend") /\ UNCHANGED <<Tree, History>>
       /\ Goto(p, CASE ~there -> [t EXCEPT !.page = linear_search(t.page, t.at)]
                    [] there /\ t.level > 0 /\ PastHigh(pg, t.at) -> [t EXCEPT !.page = pg.sib]
                    [] OTHER -> [t EXCEPT !.pc = t.goal])

\* The search for the leaf is over: take the first leaf's mutex, or look the
\* buffer up.  A leaf that was replaced meanwhile has no buffer any more.
TakeFirst(p) ==
    LET t == th[p]  pg == pages[FirstLeaf]
    IN /\ At(p, "insert") /\ t.page = FirstLeaf /\ mtx = NULL
       /\ IF t.key >= pg.hkey \/ pg.immutable
          THEN Goto(p, [t EXCEPT !.pc = "lookup", !.page = pg.sib]) /\ UNCHANGED mtx
          ELSE Goto(p, [t EXCEPT !.pc = "store"]) /\ mtx' = p
       /\ UNCHANGED <<pages, root, table, bufs, otp, Logs, History>>

LeaveFirst(p) ==
    /\ At(p, "insert") /\ th[p].page # FirstLeaf /\ Goto(p, [th[p] EXCEPT !.pc = "lookup"])
    /\ UNCHANGED <<Tree, History>>

BufFind(p) ==
    LET t == th[p]
    IN /\ At(p, "lookup") /\ UNCHANGED <<Tree, History>>
       /\ Goto(p, CASE t.page \in DOMAIN table -> [t EXCEPT !.pc = "lock", !.buf = table[t.page]]
                    [] t.page \notin DOMAIN table /\ pages[t.page].immutable ->
                          [t EXCEPT !.page = pages[t.page].sib]
                    [] OTHER -> [t EXCEPT !.pc = "store"])

\* Under the buffer's lock: a key past the high key belongs to the sibling;
\* a full buffer is merged with the lock held.
PastBuf_Never(b, k) == FALSE                                                 \* mutant
PastBuf(b, k) == bufs[b].high # MaxKey /\ k >= bufs[b].high

BufLock(p) ==
    LET t == th[p]  b == bufs[t.buf]
    IN /\ At(p, "lock") /\ b.owner = NULL
       /\ \/ /\ PastBuf(t.buf, t.key)
             /\ Goto(p, [t EXCEPT !.pc = "lookup", !.page = pages[@].sib, !.buf = NULL])
             /\ UNCHANGED <<bufs, Logs, store>>
          \/ /\ ~PastBuf(t.buf, t.key) /\ CanInsert(b.node, t.key)
             /\ bufs' = [bufs EXCEPT ![t.buf].node = NodeInsert(@, t.key)]
             /\ logs' = [logs EXCEPT ![p] = LogAppend(@, kLogNodeValid, t.key)]
             /\ unlogged' = unlogged \ {t.key}
             /\ store' = store \cup {t.key} /\ Goto(p, [Idle EXCEPT !.pc = "return"])
          \/ /\ ~PastBuf(t.buf, t.key) /\ ~CanInsert(b.node, t.key)
             /\ bufs' = [bufs EXCEPT ![t.buf].owner = p]
             /\ Goto(p, [t EXCEPT !.pc = "store"]) /\ UNCHANGED <<Logs, store>>
       /\ UNCHANGED <<pages, root, table, mtx, otp, todo, reads>>

-----------------------------------------------------------------------------
(* store. *)

\* Searches that are under way are marked: see SearchesFind.
Mark(T) == [p \in Procs |-> IF T[p].goal = "find" THEN [T[p] EXCEPT !.merged = TRUE] ELSE T[p]]

Entries(t) == IF t.buf = NULL THEN 0 ELSE ValidCount(bufs[t.buf].node)
Fits(t) == Cardinality(Keys(pages[t.page])) + Entries(t) < Card - 1

\* The buffer is sorted, and its records are read in key order.
Sorted(t) == IF t.buf = NULL THEN bufs ELSE [bufs EXCEPT ![t.buf].node = NodeSort(@)]
Buffered(t) == IF t.buf = NULL THEN {} ELSE ToSet(sBegin(Sorted(t)[t.buf].node))

\* The leaf's high key and the immutable flag send a thread without a buffer on.
StoreMoves(p) ==
    LET t == th[p]  pg == pages[t.page]
    IN /\ At(p, "store") /\ pg.sib # NULL /\ (PastHigh(pg, t.at) \/ pg.immutable)
       /\ Goto(p, [t EXCEPT !.page = pg.sib])
       /\ UNCHANGED <<Tree, History>>

Here(t) == LET pg == pages[t.page] IN pg.sib = NULL \/ ~(PastHigh(pg, t.at) \/ pg.immutable)

\* No buffer: the first leaf, or an inner page that gets a split key.
StorePlain(p) ==
    LET t == th[p]
    IN /\ At(p, "store") /\ Here(t) /\ Fits(t) /\ (t.level > 0 \/ t.buf = NULL)
       /\ pages' = [pages EXCEPT ![t.page] = insert_key(@, t.at, IF t.level = 0 THEN t.key ELSE t.ptr)]
       /\ store' = store \cup {t.key} /\ Goto(p, [t EXCEPT !.pc = "unlock"])
       /\ UNCHANGED <<root, table, bufs, mtx, otp, Logs, todo, reads>>

\* In-place merge: the leaf takes the buffered records, then the buffer is
\* emptied and takes the new key.
MergeInPlace(p) ==
    LET t == th[p]
    IN /\ At(p, "store") /\ Here(t) /\ Fits(t) /\ t.level = 0 /\ t.buf # NULL /\ ~otp
       /\ pages' = [pages EXCEPT ![t.page] = insert_keys(@, Buffered(t))]
       /\ bufs' = Sorted(t)
       /\ th' = Mark([th EXCEPT ![p].pc = "reset"])
       /\ UNCHANGED <<root, table, mtx, otp, Logs, History>>

BufReset(p) ==
    LET t == th[p]
    IN /\ At(p, "reset")
       /\ bufs' = [bufs EXCEPT ![t.buf].node = NodeInsert(NodeReset(@), t.key)]
       /\ unlogged' = unlogged \cup {t.key}
       /\ table' = IF otp THEN [q \in DOMAIN table \ {t.ptr} |-> table[q]] ELSE table
       /\ store' = store \cup {t.key} /\ th' = Mark([th EXCEPT ![p].pc = "unlock"])
       /\ UNCHANGED <<pages, root, mtx, otp, logs, todo, reads>>

\* Out-of-place merge (merge_page_buffer): a copy of the leaf with the
\* buffered records; the old leaf becomes immutable and points to it.
MergeCopy(p) ==
    LET t == th[p]  old == pages[t.page]  new == Fresh
    IN /\ At(p, "store") /\ Here(t) /\ Fits(t) /\ t.level = 0 /\ t.buf # NULL /\ otp
       /\ PageIds # DOMAIN pages
       /\ pages' = (new :> insert_keys(old, Buffered(t)))
                   @@ [pages EXCEPT ![t.page].immutable = TRUE, ![t.page].sib = new]
       /\ table' = (new :> t.buf) @@ table
       /\ th' = Mark([th EXCEPT ![p] = [t EXCEPT !.pc = "descend", !.goal = "update", !.level = 1,
                         !.at = bufs[t.buf].parent, !.page = root, !.ptr = new]])
       /\ bufs' = Sorted(t)
       /\ UNCHANGED <<root, mtx, otp, Logs, History>>

\* update, update_key: the parent's pointer follows the copy.
UpdateParent(p) ==
    LET t == th[p]  pg == pages[t.page]
    IN /\ At(p, "update")
       /\ \/ /\ PastHigh(pg, t.at)
             /\ Goto(p, [t EXCEPT !.page = pg.sib]) /\ UNCHANGED pages
          \/ /\ ~PastHigh(pg, t.at)
             /\ pages' = [pages EXCEPT ![t.page] =
                    IF t.at < FirstKey(t.page) THEN [@ EXCEPT !.leftmost = t.ptr]
                    ELSE IF t.at \in Keys(@) THEN [@ EXCEPT !.rec[t.at] = t.ptr] ELSE @]
             /\ Goto(p, [t EXCEPT !.pc = "descend", !.goal = "relink", !.level = 0, !.at = @ - 1,
                                  !.page = root])
       /\ UNCHANGED <<root, table, bufs, mtx, otp, Logs, History>>

\* update_sibling: the leaf to the left points to the copy.
UpdateSibling(p) ==
    LET t == th[p]  sib == pages[t.page].sib
        old == CHOOSE q \in DOMAIN table : table[q] = t.buf /\ q # t.ptr
    IN /\ At(p, "relink")
       /\ IF sib # NULL /\ sib # t.ptr /\ t.at > FirstKey(sib)
          THEN Goto(p, [t EXCEPT !.page = sib]) /\ UNCHANGED pages
          ELSE /\ pages' = [pages EXCEPT ![t.page].sib = t.ptr]
               /\ Goto(p, [t EXCEPT !.pc = "reset", !.ptr = old])
       /\ UNCHANGED <<root, table, bufs, mtx, otp, Logs, History>>

\* A full page: the upper half and the buffered records at or above the split
\* key move to a new page, which gets a buffer of its own; the new key is
\* stored in its half.  The buffer keeps the records below the split key.
Below(K, k) == {x \in K : x < k}
Kept(n, k) == MaskLastN(n, Cardinality(Recorded(n) \ Below(Recorded(n), k)))

SplitKey(pg) == CHOOSE k \in Keys(pg) : Cardinality({x \in Keys(pg) : x < k}) = Cardinality(Keys(pg)) \div 2

\* The new page: in an inner page the split key itself moves up.
RightHalf(pg, s, buffered) ==
    LET leaf == IsLeaf(pg)
        moved == [x \in {y \in Keys(pg) : y > s \/ (y = s /\ leaf)} |-> pg.rec[x]]
    IN insert_keys(page(pg.level, IF leaf THEN NULL ELSE pg.rec[s], moved, pg.sib, pg.hkey),
                   {x \in buffered : x >= s})

\* The old page is linked to the new one and cut.
LeftHalf(pg, s, new) ==
    [pg EXCEPT !.rec = [x \in Below(Keys(pg), s) |-> pg.rec[x]], !.sib = new, !.hkey = s]

\* The new record goes to the half it belongs to.
Halves(pg, s, new, buffered, k, v) ==
    LET left == LeftHalf(pg, s, new)  right == RightHalf(pg, s, buffered)
    IN IF k < s THEN <<insert_key(left, k, v), right>> ELSE <<left, insert_key(right, k, v)>>

StoreSplits(p) ==
    LET t == th[p]
        pg == pages[t.page]
        leaf == IsLeaf(pg)
        s == SplitKey(pg)
        new == Fresh
        halves == Halves(pg, s, new, IF leaf THEN Buffered(t) ELSE {}, t.at, IF leaf THEN t.key ELSE t.ptr)
        grown == (new :> halves[2]) @@ [pages EXCEPT ![t.page] = halves[1]]
        top == Min(PageIds \ DOMAIN grown)
        newbuf == Cardinality(DOMAIN bufs) + 1
        kept == IF t.buf = NULL THEN bufs
                ELSE [Sorted(t) EXCEPT ![t.buf].node = Kept(@, s), ![t.buf].high = s]
    IN /\ At(p, "store") /\ Here(t) /\ ~Fits(t)
       /\ Cardinality(PageIds \ DOMAIN pages) >= 2
       /\ IF leaf THEN /\ bufs' = (newbuf :> NewBuf(pg.hkey, s)) @@ kept
                       /\ table' = (new :> newbuf) @@ table
          ELSE UNCHANGED <<bufs, table>>
       /\ store' = store \cup {t.key}
       /\ IF root = t.page
          THEN /\ pages' = (top :> page(pg.level + 1, t.page, (s :> new), NULL, MaxKey)) @@ grown
               /\ root' = top
               /\ th' = Mark([th EXCEPT ![p].pc = "unlock"])
          ELSE /\ pages' = grown /\ UNCHANGED root
               /\ th' = Mark([th EXCEPT ![p] = IF pg.level + 1 > pages[root].level
                     THEN [t EXCEPT !.pc = "unlock"]
                     ELSE [t EXCEPT !.pc = "descend", !.goal = "store", !.level = pg.level + 1,
                                    !.at = s, !.ptr = new, !.page = root]])
       /\ UNCHANGED <<mtx, otp, Logs, todo, reads>>

\* The lock, of the buffer or of the first leaf, is held until store returns.
Unlock_Buffer(p) ==                                                           \* mutant
    LET t == th[p]
    IN /\ At(p, "unlock") /\ mtx' = mtx
       /\ bufs' = IF t.buf = NULL THEN bufs ELSE [bufs EXCEPT ![t.buf].owner = NULL]
       /\ Goto(p, [Idle EXCEPT !.pc = "return"])
       /\ UNCHANGED <<pages, root, table, otp, Logs, History>>
Unlock(p) ==
    LET t == th[p]
    IN /\ At(p, "unlock")
       /\ mtx' = IF mtx = p THEN NULL ELSE mtx
       /\ bufs' = IF t.buf = NULL THEN bufs ELSE [bufs EXCEPT ![t.buf].owner = NULL]
       /\ Goto(p, [Idle EXCEPT !.pc = "return"])
       /\ UNCHANGED <<pages, root, table, otp, Logs, History>>

-----------------------------------------------------------------------------
(* btree_search: the leaf is read first, then its buffer. *)

Search(p, k) ==
    /\ At(p, "idle") /\ reads < MaxReads /\ reads' = reads + 1
    /\ Goto(p, [Idle EXCEPT !.pc = "descend", !.key = k, !.at = k, !.page = root, !.goal = "find",
                            !.sure = store \cap {k}])
    /\ UNCHANGED <<Tree, store, todo>>

FindLeaf(p) ==
    LET t == th[p]  found == t.key \in Keys(pages[t.page])
    IN /\ At(p, "find") /\ UNCHANGED <<Tree, History>>
       /\ Goto(p, IF ~found /\ GoesRight(t.page, t.key) THEN [t EXCEPT !.page = pages[@].sib]
                  ELSE [t EXCEPT !.pc = "findbuf", !.t = found])

FindBuf_Leaf(p) ==                                                            \* mutant
    /\ At(p, "findbuf") /\ UNCHANGED <<Tree, History>>
    /\ Goto(p, [th[p] EXCEPT !.pc = "found"])
FindBuf(p) ==
    LET t == th[p]
        inBuf == t.page \in DOMAIN table /\ NodeGet(bufs[table[t.page]].node, t.key)
    IN /\ At(p, "findbuf") /\ UNCHANGED <<Tree, History>>
       /\ Goto(p, [t EXCEPT !.pc = "found", !.t = @ \/ inBuf])

Return(p) ==
    /\ th[p].pc \in {"return", "found"} /\ Goto(p, Idle) /\ UNCHANGED <<Tree, History>>

Step(p) ==
    \/ Descend(p) \/ TakeFirst(p) \/ LeaveFirst(p) \/ BufFind(p) \/ BufLock(p)
    \/ StoreMoves(p) \/ StorePlain(p) \/ MergeInPlace(p) \/ BufReset(p) \/ MergeCopy(p)
    \/ UpdateParent(p) \/ UpdateSibling(p) \/ StoreSplits(p) \/ Unlock(p)
    \/ FindLeaf(p) \/ FindBuf(p) \/ Return(p)

Next ==
    \E p \in Procs :
        \/ \E k \in todo : Insert(p, k)
        \/ \E k \in Searches : Search(p, k)
        \/ Step(p)

Spec == Init /\ [][Next]_vars /\ \A p \in Procs : WF_vars(Step(p))

-----------------------------------------------------------------------------
(* Properties. *)

TypeOK ==
    /\ DOMAIN pages \subseteq PageIds /\ root \in DOMAIN pages
    /\ \A id \in DOMAIN pages : LET pg == pages[id] IN
          /\ pg.sib \in DOMAIN pages \cup {NULL} /\ pg.immutable \in BOOLEAN
          /\ Cardinality(Keys(pg)) < Card
    /\ \A id \in DOMAIN table : table[id] \in DOMAIN bufs /\ IsLeaf(pages[id])
    /\ \A b \in DOMAIN bufs : ValidCount(bufs[b].node) <= kBufNodeFull
    /\ \A p \in Procs : th[p].page \in DOMAIN pages \cup {NULL}

\* What btree_search answers when nothing else runs.
LeafOf(k) ==
    LET leaf[id \in DOMAIN pages] ==
          IF ~IsLeaf(pages[id]) THEN leaf[linear_search(id, k)]
          ELSE IF k \notin Keys(pages[id]) /\ GoesRight(id, k) THEN leaf[pages[id].sib] ELSE id
    IN leaf[root]
Found(k) == LET id == LeafOf(k)
            IN k \in Keys(pages[id]) \/ (id \in DOMAIN table /\ NodeGet(bufs[table[id]].node, k))

(* No insert is lost: in every state every inserted key is found from the
   root, in the leaf that covers it or in that leaf's buffer, whatever merges,
   replacements of leaves and splits (store, merge_page_buffer, MaskLastN) are
   half done. *)
TreeHoldsStore == \A k \in store : Found(k)

(* Every buffer belongs to one leaf that accepts writes, it holds a key of
   the leaf's range once, after any updates, and its high key is the leaf's:
   the test under the buffer's lock sends a thread that lost a race with a
   split to the right leaf. *)
BuffersMatchLeaves ==
    \A id \in DOMAIN table : LET b == bufs[table[id]] IN
        ~pages[id].immutable =>
            /\ b.high = pages[id].hkey
            /\ \A k \in Recorded(b.node) : b.parent <= k /\ k < b.high
            /\ ValidCount(b.node) = Cardinality(Recorded(b.node))
            /\ \A q \in DOMAIN table \ {id} : table[q] = table[id] => pages[q].immutable

(* A walk along the logs, from either end, meets every buffered key, so that a
   crash that takes the buffers leaves what is needed to rebuild them.  The key
   whose insert merges a full buffer is the exception: store puts it into the
   emptied buffer and nobody appends it. *)
LogsCoverBuffers ==
    LET met == UNION {KeysForward(logs[p]) \cap KeysBack(logs[p]) : p \in Procs}
    IN Buffers \ unlogged \subseteq met

(* The tree, its buffers and the logs are sound in every state of every merge. *)
TreeSound == TypeOK /\ TreeHoldsStore /\ BuffersMatchLeaves /\ LogsCoverBuffers

(* A search finds a key that was stored before it began, unless a buffer was
   merged or a leaf split while it ran. *)
SearchesFind ==
    \A p \in Procs : th[p].pc = "found" /\ ~th[p].merged => (th[p].sure # {} => th[p].t)

(* Every call returns: no thread waits for ever for a buffer or for the first
   leaf, and every walk to the right ends. *)
CallsReturn == \A p \in Procs : th[p].pc # "idle" ~> th[p].pc = "idle"
=============================================================================
