--------------------------- MODULE SkiplistSpoton ---------------------------
(***************************************************************************)
(* The buffered skip list (Skiplist/inlineskiplist_spoton.h).  A node that *)
(* is higher than kBufNodeLevel carries a buffer (SkipBuf) for the keys of *)
(* its partition, which ends at the next such node.  BufInsert puts a key  *)
(* into the buffer under its lock; the key that fills the buffer makes its *)
(* thread rebuild the partition (Compact) out of the buffered and listed   *)
(* keys, link it below the two buffer nodes with plain stores and above    *)
(* them with compare-and-swap.  BufContains takes no lock.                 *)
(*                                                                         *)
(* The walk along one level is one step: it ends with the load of the      *)
(* pointer it returns, and nodes above kBufNodeLevel stay on their level.  *)
(***************************************************************************)
EXTENDS Integers, Sequences, FiniteSets, FiniteSetsExt, SequencesExt, TLC

CONSTANTS
    Procs,       \* threads
    MaxHeight,   \* kMaxHeight_
    Heights,     \* what RandomHeight may return
    kValNum,     \* slots of a buffer
    Reads,       \* keys that are looked up
    MaxReads,    \* bound: calls of Contains
    InitLists    \* the lists a behaviour may start from, with the keys still to be inserted

ASSUME SkipAssumption == MaxHeight >= 3 /\ Heights \subseteq 1..MaxHeight /\ kValNum \in Nat \ {0, 1}

VARIABLES
    node,        \* id -> node; the first one is head_
    maxHeight,   \* max_height_
    dramInner,   \* CONFIG_DRAM_INNER: buffer nodes have a twin in DRAM; never changes
    th,          \* thread -> its call
    store,       \* history: the keys whose insert returned
    todo,        \* history: the inserts that are left
    reads

vars == <<node, maxHeight, dramInner, th, store, todo, reads>>

Nil == 0
head_ == 1
kBufNodeLevel == 2
Levels == 0..MaxHeight - 1
NoLink == [l \in Levels |-> Nil]

\* next is what searches follow.  With dramInner it is the DRAM node's array and
\* pmem the one of its twin, on the levels where the two can be written apart.
Node(k, h) == [key |-> k, h |-> h, next |-> NoLink, pmem |-> NoLink, buf |-> <<>>, lock |-> FALSE]
HasBuf(h) == h > kBufNodeLevel

Splice == [height |-> 0, prev |-> [l \in 0..MaxHeight |-> Nil], next |-> [l \in 0..MaxHeight |-> Nil]]
Idle == [pc |-> "idle", key |-> 0, x |-> head_, nb |-> Nil, lvl |-> 0, mh |-> 0, sp |-> Splice,
         part |-> Splice, first |-> 0, lower |-> 0, must |-> {}, found |-> FALSE]

\* A list that was built from the given nodes; the constructor's is the one with none.
Linked(ns) ==
    LET Succ(i, l) == {j \in DOMAIN ns : j > i /\ ns[j].h > l}
        To(i) == [l \in Levels |-> IF l < ns[i].h /\ Succ(i, l) # {} THEN Min(Succ(i, l)) ELSE Nil]
    IN [i \in DOMAIN ns |-> [ns[i] EXCEPT !.next = To(i), !.pmem = To(i)]]

Init ==
    /\ \E t \in InitLists :
          LET ns == <<Node(0, MaxHeight)>> \o t.nodes
          IN /\ node = [i \in DOMAIN ns |-> [Linked(ns)[i] EXCEPT !.buf = t.buf[i]]]
             /\ maxHeight = Max({3} \cup {t.nodes[i].h : i \in DOMAIN t.nodes})
             /\ todo = t.inserts /\ dramInner = t.dram
             /\ store = {t.nodes[i].key : i \in DOMAIN t.nodes} \cup UNION {ToSet(t.buf[i]) : i \in DOMAIN t.buf}
    /\ th = [p \in Procs |-> Idle]
    /\ reads = 0

At(p, pc) == th[p].pc = pc
Goto(p, t) == th' = [th EXCEPT ![p] = t]
History == <<store, todo, reads, dramInner>>

KeyIsAfterNode(key, n) == n # Nil /\ node[n].key < key

\* The last node before the key on a level, from `before`, and the node behind it.
FindSpliceForLevel(key, before, after, l) ==
    LET walk[b \in DOMAIN node] ==
            LET next == node[b].next[l]
            IN IF next = after \/ ~KeyIsAfterNode(key, next) THEN [prev |-> b, next |-> next] ELSE walk[next]
    IN walk[before]

-----------------------------------------------------------------------------
(* BufInsert, up to the buffer. *)

BufInsert(p, k) ==
    /\ At(p, "idle") /\ todo' = todo \ {k}
    /\ Goto(p, [Idle EXCEPT !.pc = "start", !.key = k])
    /\ UNCHANGED <<node, maxHeight, dramInner, store, reads>>

\* retry: the splice starts above max_height_.
Start(p) ==
    LET t == th[p]
    IN /\ At(p, "start")
       /\ Goto(p, [t EXCEPT !.pc = "descend", !.mh = maxHeight, !.lvl = maxHeight - 1, !.x = head_,
                            !.sp = [Splice EXCEPT !.height = maxHeight, !.prev[maxHeight] = head_]])
       /\ UNCHANGED <<node, maxHeight, History>>

Descend(p) ==
    LET t == th[p]
        r == FindSpliceForLevel(t.key, t.sp.prev[t.lvl + 1], t.sp.next[t.lvl + 1], t.lvl)
    IN /\ At(p, "descend")
       /\ Goto(p, [t EXCEPT !.sp.prev[t.lvl] = r.prev, !.sp.next[t.lvl] = r.next, !.x = r.prev,
                            !.lvl = @ - 1, !.pc = IF t.lvl = kBufNodeLevel THEN "lock" ELSE "descend"])
       /\ UNCHANGED <<node, maxHeight, History>>

\* The key left for a later partition while the thread waited for the lock.
Moved_Never(t) == FALSE   \* mutant
Moved(t) == KeyIsAfterNode(t.key, node[t.x].next[kBufNodeLevel])

Retry(p) ==
    /\ At(p, "lock") /\ ~node[th[p].x].lock
    /\ Moved(th[p])
    /\ Goto(p, [th[p] EXCEPT !.pc = "start"])
    /\ UNCHANGED <<node, maxHeight, History>>

\* SkipBuf::Insert: one slot stays free for CompactInsert.
Buffered(p) ==
    LET t == th[p]
    IN /\ At(p, "lock") /\ ~node[t.x].lock /\ ~Moved(t)
       /\ Len(node[t.x].buf) < kValNum - 1
       /\ node' = [node EXCEPT ![t.x].buf = Append(@, t.key)]
       /\ store' = store \cup {t.key} /\ Goto(p, Idle)
       /\ UNCHANGED <<maxHeight, dramInner, todo, reads>>

CompactInsert(p) ==
    LET t == th[p]
    IN /\ At(p, "lock") /\ ~node[t.x].lock /\ ~Moved(t)
       /\ Len(node[t.x].buf) = kValNum - 1
       /\ node' = [node EXCEPT ![t.x].buf = Append(@, t.key), ![t.x].lock = TRUE]
       /\ Goto(p, [t EXCEPT !.pc = "compact", !.nb = node[t.x].next[kBufNodeLevel]])
       /\ UNCHANGED <<maxHeight, History>>

-----------------------------------------------------------------------------
(* Compact and the links. *)

\* The keys of the buffer, then the listed ones up to the next buffer node.
Collected(x, nb) ==
    LET listed[n \in 0..Len(node)] ==
            IF n = Nil \/ n = nb THEN <<>> ELSE <<node[n].key>> \o listed[node[n].next[0]]
    IN node[x].buf \o listed[node[x].next[0]]

\* A partition is never lower than the one it replaces: the last key is raised.
Raised(keys, hs) ==
    IF \A k \in DOMAIN hs : hs[k] = 1 THEN [hs EXCEPT ![Last(keys)] = 2] ELSE hs

\* The new nodes, chained on every level, with the first and last of each level.
Partition(keys, hs) ==
    LET s == SetToSortSeq(ToSet(keys), <)
        id(i) == Len(node) + i
        On(l) == {i \in DOMAIN s : hs[s[i]] > l}
        Succ(i, l) == {j \in On(l) : j > i}
        To(i) == [l \in Levels |-> IF i \in On(l) /\ Succ(i, l) # {} THEN id(Min(Succ(i, l))) ELSE Nil]
        ph == Max({hs[k] : k \in DOMAIN hs})
    IN [nodes |-> [i \in DOMAIN s |-> [Node(s[i], hs[s[i]]) EXCEPT !.next = To(i), !.pmem = To(i)]],
        part |-> [height |-> ph,
                  prev |-> [l \in 0..MaxHeight |-> IF l < ph THEN id(Min(On(l))) ELSE Nil],
                  next |-> [l \in 0..MaxHeight |-> IF l < ph THEN id(Max(On(l))) ELSE Nil]]]

\* The links below both buffer nodes need no other thread: up to the lowest of the three.
BufHeight(t) == Min({t.mh, node[t.x].h})
NextHeight(t, ph) == IF t.nb # Nil THEN node[t.nb].h ELSE ph
LowerPart(t, ph) == Min({BufHeight(t), ph, NextHeight(t, ph)})

\* Compact, and the new partition's links to the next buffer node.
Compact(p) ==
    LET t == th[p]  keys == Collected(t.x, t.nb)
    IN /\ At(p, "compact")
       /\ \E hs \in [ToSet(keys) -> Heights] :
             LET c == Partition(keys, Raised(keys, hs))
                 low == LowerPart(t, c.part.height)
                 Ends(i) == {l \in 0..low - 1 : c.part.next[l] = Len(node) + i}
                 End(i, f) == [l \in Levels |-> IF l \in Ends(i) THEN t.nb ELSE f[l]]
             IN /\ node' = node \o [i \in DOMAIN c.nodes |->
                              [c.nodes[i] EXCEPT !.next = End(i, @), !.pmem = End(i, @)]]
                /\ Goto(p, [t EXCEPT !.pc = "lower", !.lvl = 0, !.part = c.part, !.lower = low,
                                     !.first = c.nodes[1].key])
       /\ UNCHANGED <<maxHeight, History>>

\* The splice of the descent is short when the partition is higher than the list was.
AfterLower(t) ==
    LET search == Max({t.part.height, t.mh})
    IN CASE t.part.height <= BufHeight(t) /\ t.part.height <= NextHeight(t, t.part.height) ->
              [t EXCEPT !.pc = "raise"]
         [] t.sp.height < search ->
              [t EXCEPT !.pc = "splice", !.lvl = search - 1,
                        !.sp = [@ EXCEPT !.height = search, !.prev[search] = head_, !.next[search] = Nil]]
         [] OTHER -> [t EXCEPT !.pc = "tail", !.lvl = t.lower]

LinkLower(p) ==
    LET t == th[p]  to == t.part.prev[t.lvl]
    IN /\ At(p, "lower")
       /\ node' = [node EXCEPT ![t.x].next[t.lvl] = to, ![t.x].pmem[t.lvl] = to]
       /\ Goto(p, IF t.lvl + 1 < t.lower THEN [t EXCEPT !.lvl = @ + 1] ELSE AfterLower(t))
       /\ UNCHANGED <<maxHeight, History>>

\* The levels above the descent's splice, searched with the partition's first key.
RecomputeSplice(p) ==
    LET t == th[p]
        r == FindSpliceForLevel(t.first, t.sp.prev[t.lvl + 1], t.sp.next[t.lvl + 1], t.lvl)
        u == [t EXCEPT !.sp.prev[t.lvl] = r.prev, !.sp.next[t.lvl] = r.next]
    IN /\ At(p, "splice")
       /\ Goto(p, IF t.lvl > t.lower THEN [u EXCEPT !.lvl = @ - 1] ELSE [u EXCEPT !.pc = "tail"])
       /\ UNCHANGED <<node, maxHeight, History>>

SetTail(p) ==
    LET t == th[p]
    IN /\ At(p, "tail")
       /\ node' = [node EXCEPT ![t.part.next[t.lvl]].next[t.lvl] = t.sp.next[t.lvl],
                               ![t.part.next[t.lvl]].pmem[t.lvl] = t.sp.next[t.lvl]]
       /\ Goto(p, [t EXCEPT !.pc = "cas"])
       /\ UNCHANGED <<maxHeight, History>>

NextLevel(t) ==
    IF t.lvl + 1 < t.part.height THEN [t EXCEPT !.pc = "tail", !.lvl = @ + 1] ELSE [t EXCEPT !.pc = "raise"]

\* After a failed compare-and-swap the level is searched again from splice.prev_.
Again(t) ==
    LET r == FindSpliceForLevel(t.first, t.sp.prev[t.lvl], Nil, t.lvl)
    IN [t EXCEPT !.pc = "tail", !.sp.prev[t.lvl] = r.prev, !.sp.next[t.lvl] = r.next]

CASNext(p) ==
    LET t == th[p]  at == t.sp.prev[t.lvl]
    IN /\ At(p, "cas")
       /\ IF node[at].next[t.lvl] = t.sp.next[t.lvl]
          THEN /\ node' = [node EXCEPT ![at].next[t.lvl] = t.part.prev[t.lvl]]
               /\ Goto(p, IF dramInner THEN [t EXCEPT !.pc = "pcas"] ELSE NextLevel(t))
          ELSE Goto(p, Again(t)) /\ UNCHANGED node
       /\ UNCHANGED <<maxHeight, History>>

\* The twin's pointer follows with a compare-and-swap of its own.
CASPmem(p) ==
    LET t == th[p]  at == t.sp.prev[t.lvl]
    IN /\ At(p, "pcas")
       /\ IF node[at].pmem[t.lvl] = t.sp.next[t.lvl]
          THEN /\ node' = [node EXCEPT ![at].pmem[t.lvl] = t.part.prev[t.lvl]]
               /\ Goto(p, NextLevel(t))
          ELSE Goto(p, Again(t)) /\ UNCHANGED node
       /\ UNCHANGED <<maxHeight, History>>

RaiseHeight(p) ==
    /\ At(p, "raise")
    /\ maxHeight' = Max({maxHeight, th[p].part.height})
    /\ Goto(p, [th[p] EXCEPT !.pc = "reset"])
    /\ UNCHANGED <<node, History>>

\* SkipBuf::Reset and Unlock.
ResetBuf(p) ==
    LET t == th[p]
    IN /\ At(p, "reset")
       /\ node' = [node EXCEPT ![t.x].buf = <<>>, ![t.x].lock = FALSE]
       /\ store' = store \cup {t.key} /\ Goto(p, Idle)
       /\ UNCHANGED <<maxHeight, dramInner, todo, reads>>

-----------------------------------------------------------------------------
(* BufContains. *)

BufContains(p, k) ==
    /\ At(p, "idle") /\ reads < MaxReads
    /\ reads' = reads + 1
    /\ Goto(p, [Idle EXCEPT !.pc = "closest", !.key = k, !.lvl = maxHeight - 1, !.must = store])
    /\ UNCHANGED <<node, maxHeight, dramInner, store, todo>>

\* FindClosestBuf, a level at a time: a node with the key is its own closest buffer.
FindClosestBuf(p) ==
    LET t == th[p]  r == FindSpliceForLevel(t.key, t.x, Nil, t.lvl)
        hit == r.next # Nil /\ node[r.next].key = t.key
    IN /\ At(p, "closest")
       /\ Goto(p, [t EXCEPT !.x = IF hit THEN r.next ELSE r.prev, !.lvl = @ - 1,
                            !.pc = IF hit \/ t.lvl = kBufNodeLevel THEN "buf" ELSE "closest"])
       /\ UNCHANGED <<node, maxHeight, History>>

ReadBuf_Never(t) == FALSE   \* mutant
ReadBuf(t) == t.key \in ToSet(node[t.x].buf)

ContainsBuf(p) ==
    LET t == th[p]
    IN /\ At(p, "buf")
       /\ Goto(p, IF ReadBuf(t) THEN [t EXCEPT !.pc = "answer", !.found = TRUE]
                  ELSE [t EXCEPT !.pc = "list", !.lvl = kBufNodeLevel])
       /\ UNCHANGED <<node, maxHeight, History>>

\* The levels of the partition, from its buffer node down; head_ has no key.
ContainsList(p) ==
    LET t == th[p]  r == FindSpliceForLevel(t.key, t.x, Nil, t.lvl)
        hit == \/ r.next # Nil /\ node[r.next].key = t.key
               \/ t.lvl = 0 /\ node[r.prev].key = t.key
    IN /\ At(p, "list")
       /\ Goto(p, [t EXCEPT !.x = r.prev, !.lvl = @ - 1, !.found = hit,
                            !.pc = IF hit \/ t.lvl = 0 THEN "answer" ELSE "list"])
       /\ UNCHANGED <<node, maxHeight, History>>

Answer(p) ==
    /\ At(p, "answer") /\ Goto(p, Idle)
    /\ UNCHANGED <<node, maxHeight, History>>

Step(p) ==
    \/ Start(p) \/ Descend(p) \/ Retry(p) \/ Buffered(p) \/ CompactInsert(p)
    \/ Compact(p) \/ LinkLower(p) \/ RecomputeSplice(p) \/ SetTail(p) \/ CASNext(p) \/ CASPmem(p)
    \/ RaiseHeight(p) \/ ResetBuf(p)
    \/ FindClosestBuf(p) \/ ContainsBuf(p) \/ ContainsList(p) \/ Answer(p)

Next ==
    \E p \in Procs :
        \/ \E k \in todo : BufInsert(p, k)
        \/ \E k \in Reads : BufContains(p, k)
        \/ Step(p)

Spec == Init /\ [][Next]_vars

-----------------------------------------------------------------------------
(* Properties. *)

\* Node identifiers and levels stay in range, and only higher nodes have a buffer.
TypeOK ==
    /\ maxHeight \in 3..MaxHeight
    /\ \A n \in DOMAIN node :
          /\ node[n].h \in 1..MaxHeight /\ Len(node[n].buf) <= kValNum
          /\ \A l \in Levels : node[n].next[l] \in 0..Len(node)
          /\ node[n].buf # <<>> => HasBuf(node[n].h)

\* The nodes of a level, in order; a cycle is cut after the last distinct node.
Chain(l) ==
    LET path[s \in Seq(DOMAIN node)] ==
            LET next == node[Last(s)].next[l]
            IN IF next = Nil THEN s ELSE IF next \in ToSet(s) THEN Append(s, next) ELSE path[Append(s, next)]
    IN path[<<head_>>]

KeysOf(l) == {node[n].key : n \in ToSet(Chain(l))}

\* What the search asserts "Make sure the lists are sorted" and TEST_Validate
\* check, at every moment of any number of compactions: each level ascends
\* strictly and its keys are on the level below; between compactions its nodes
\* are.  (A level that is still to be relinked holds the old node of its key.)
LevelsNest ==
    \A l \in Levels :
        LET c == Chain(l)
        IN /\ \A i \in 1..Len(c) - 1 : node[c[i]].key < node[c[i + 1]].key
           /\ l > 0 => KeysOf(l) \subseteq KeysOf(l - 1)
           /\ l > 0 /\ (\A n \in DOMAIN node : ~node[n].lock) => ToSet(c) \subseteq ToSet(Chain(l - 1))

\* A lookup that meets nobody: the buffer of the last buffer node at or before the key, then level 0.
Holds(k) ==
    LET bufs == {n \in ToSet(Chain(kBufNodeLevel)) : node[n].key <= k}
        last == CHOOSE n \in bufs : \A m \in bufs : node[m].key <= node[n].key
    IN \/ k \in ToSet(node[last].buf)
       \/ \E n \in ToSet(Chain(0)) : node[n].key = k

\* A key whose insert returned is in the buffer of its own partition or on
\* the bottom level, whatever is being rebuilt and relinked.
ListHoldsStore == \A k \in store : Holds(k)

\* The list is sound in every state of every compaction.
ListSound == TypeOK /\ LevelsNest /\ ListHoldsStore

\* BufContains reads the closest buffer and then the list, both without the lock:
\* it finds every key whose insert returned before the call began, and no other
\* than a key some insert brought.
ContainsFinds ==
    \A p \in Procs : At(p, "answer") =>
        /\ th[p].key \in th[p].must => th[p].found
        /\ th[p].found => th[p].key \notin todo

=============================================================================
