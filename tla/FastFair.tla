------------------------------ MODULE FastFair ------------------------------
(***************************************************************************)
(* The FAST_FAIR B+-tree (FAST_FAIR/btree.h): threads descend through the  *)
(* inner pages without a lock, read a leaf under its read lock, change a   *)
(* page under its write lock, and after a split release the page before    *)
(* they insert the split key one level up.  Everything done under one      *)
(* page's lock is one step, and so is the search of one page (the stores   *)
(* inside a page are the subject of FastFairPage).                         *)
(*                                                                         *)
(* A page's records are a function from its keys to their pointers; a      *)
(* key's value is the key itself.                                          *)
(***************************************************************************)
EXTENDS Integers, FiniteSets, FiniteSetsExt, TLC

CONSTANTS
    Procs,       \* threads
    Inserts,     \* keys that are inserted, each by one call
    Removes,     \* keys that are removed, each by one call
    Searches,    \* keys that are searched for
    Ranges,      \* pairs <<min, max>> of range searches
    Card,        \* cardinality of a page
    MaxPages,    \* bound: pages that are ever allocated
    MaxReads,    \* bound: searches and range searches
    InitTrees    \* the trees a behaviour may start from

NULL == 0
MaxKey == 1000                      \* LONG_MAX
PageIds == 1..MaxPages

ASSUME TreeAssumption ==
    /\ Inserts \cup Removes \cup Searches \subseteq 1..(MaxKey - 1)
    /\ Card \in Nat /\ Card >= 3 /\ MaxPages \in Nat \ {0} /\ MaxReads \in Nat

VARIABLES
    pages,   \* page id -> page
    root,    \* bt->root
    used,    \* the pages allocated so far
    th,      \* thread -> its call
    store,   \* history: the keys the tree holds
    todo,    \* history: the calls of each kind that are left
    reads    \* history: the searches made so far

vars == <<pages, root, used, th, store, todo, reads>>

page(level, leftmost, rec, sib) ==
    [level |-> level, leftmost |-> leftmost, rec |-> rec, sib |-> sib, forward |-> TRUE]

Empty == [k \in {} |-> NULL]
Idle == [pc |-> "idle", op |-> "none", key |-> NULL, ptr |-> NULL, level |-> 0, page |-> NULL,
         max |-> NULL, ret |-> {}, may |-> {}, sure |-> {}, back |-> FALSE]

Init ==
    /\ \E t \in InitTrees :
          /\ pages = t.pages /\ root = t.root /\ used = DOMAIN t.pages /\ store = t.store
          /\ todo = [insert |-> Inserts \ t.store, remove |-> Removes]
    /\ th = [p \in Procs |-> Idle]
    /\ reads = 0

-----------------------------------------------------------------------------
(* One page. *)

Keys(pg) == DOMAIN pg.rec
IsLeaf(pg) == pg.leftmost = NULL
FirstKey(id) == IF Keys(pages[id]) = {} THEN MaxKey ELSE Min(Keys(pages[id]))   \* records[0].key

insert_key(pg, k, ptr) == [pg EXCEPT !.rec = (k :> ptr) @@ @, !.forward = TRUE]
remove_key(pg, k) ==
    [pg EXCEPT !.rec = [x \in DOMAIN @ \ {k} |-> @[x]], !.forward = FALSE]

\* The sibling is tried first: a key at or above its first key is to its right.
GoesRight_Strict(id, k) == pages[id].sib # NULL /\ k > FirstKey(pages[id].sib)   \* mutant
GoesRight(id, k) == pages[id].sib # NULL /\ k >= FirstKey(pages[id].sib)

search_internal(id, k) ==
    LET pg == pages[id]
        below == {x \in Keys(pg) : x <= k}
    IN IF GoesRight(id, k) THEN pg.sib
       ELSE IF below = {} THEN pg.leftmost ELSE pg.rec[Max(below)]

\* The upper half moves; in an inner page the split key moves up instead.
Split(pg) ==
    LET n == Cardinality(Keys(pg))
        m == n \div 2
        splitKey == CHOOSE k \in Keys(pg) : Cardinality({x \in Keys(pg) : x < k}) = m
        moved == {x \in Keys(pg) : x > splitKey \/ (x = splitKey /\ IsLeaf(pg))}
    IN [key |-> splitKey,
        right |-> page(pg.level, IF IsLeaf(pg) THEN NULL ELSE pg.rec[splitKey],
                       [x \in moved |-> pg.rec[x]], pg.sib),
        left |-> [x \in {y \in Keys(pg) : y < splitKey} |-> pg.rec[x]]]

-----------------------------------------------------------------------------
(* Calls. *)

Call(p, t) == th[p].pc = "idle" /\ th' = [th EXCEPT ![p] = t]
At(p, pc) == th[p].pc = pc
Goto(p, t) == th' = [th EXCEPT ![p] = t]

Insert(p, k) ==
    /\ k \in todo.insert /\ todo' = [todo EXCEPT !.insert = @ \ {k}]
    /\ Call(p, [Idle EXCEPT !.pc = "descend", !.op = "insert", !.key = k, !.ptr = k, !.page = root])
    /\ UNCHANGED <<pages, root, used, store, reads>>

Delete(p, k) ==
    /\ k \in todo.remove /\ todo' = [todo EXCEPT !.remove = @ \ {k}]
    /\ Call(p, [Idle EXCEPT !.pc = "descend", !.op = "delete", !.key = k, !.page = root])
    /\ UNCHANGED <<pages, root, used, store, reads>>

Search(p, k) ==
    /\ reads < MaxReads /\ reads' = reads + 1
    /\ Call(p, [Idle EXCEPT !.pc = "descend", !.op = "search", !.key = k, !.page = root,
                            !.may = store \cap {k}, !.sure = store \cap {k}])
    /\ UNCHANGED <<pages, root, used, store, todo>>

RangeSearch(p, min, max) ==
    /\ reads < MaxReads /\ reads' = reads + 1
    /\ LET in == {k \in store : min < k /\ k < max}
       IN Call(p, [Idle EXCEPT !.pc = "descend", !.op = "range", !.key = min, !.max = max,
                               !.page = root, !.may = in, !.sure = in])
    /\ UNCHANGED <<pages, root, used, store, todo>>

\* Down to a leaf, or to the level a split key is inserted at.
Descend(p) ==
    LET t == th[p]
        pg == pages[t.page]
        target == IF t.op = "internal" THEN pg.level = t.level ELSE IsLeaf(pg)
        arrived == CASE t.op \in {"insert", "internal"} -> "store"
                     [] t.op = "range" -> "scan"
                     [] OTHER -> "find"
    IN /\ At(p, "descend")
       /\ IF target THEN Goto(p, [t EXCEPT !.pc = arrived])
          ELSE Goto(p, [t EXCEPT !.page = search_internal(t.page, t.key)])
       /\ UNCHANGED <<pages, root, used, store, todo, reads>>

\* linear_search of a leaf: a miss goes on with the sibling, if the key may be there.
Find_Blind(p) ==                                                              \* mutant
    LET t == th[p]  found == t.key \in Keys(pages[t.page])
    IN /\ At(p, "find")
       /\ Goto(p, CASE found /\ t.op = "search" -> [t EXCEPT !.pc = "return", !.ret = {t.key}]
                    [] ~found /\ GoesRight(t.page, t.key) -> [t EXCEPT !.page = pages[t.page].sib]
                    [] t.op = "delete" -> [t EXCEPT !.pc = "remove"]
                    [] OTHER -> [t EXCEPT !.pc = "return"])
       /\ UNCHANGED <<pages, root, used, store, todo, reads>>
Find(p) ==
    LET t == th[p]  found == t.key \in Keys(pages[t.page])
    IN /\ At(p, "find")
       /\ Goto(p, CASE found /\ t.op = "search" -> [t EXCEPT !.pc = "return", !.ret = {t.key}]
                    [] found /\ t.op = "delete" -> [t EXCEPT !.pc = "remove"]
                    [] ~found /\ GoesRight(t.page, t.key) -> [t EXCEPT !.page = pages[t.page].sib]
                    [] OTHER -> [t EXCEPT !.pc = "return"])
       /\ UNCHANGED <<pages, root, used, store, todo, reads>>

\* Searches that are under way may see the store before or after this step.
Observe(T, S) ==
    [p \in Procs |-> IF T[p].op \notin {"search", "range"} THEN T[p] ELSE
        LET mine == {k \in S : IF T[p].op = "search" THEN k = T[p].key
                               ELSE T[p].key < k /\ k < T[p].max}
        IN [T[p] EXCEPT !.may = @ \cup mine, !.sure = @ \cap mine]]

\* remove: if the record is gone or has moved by now the call starts again.
\* Bound: the last record of a page is not removed.
Remove(p) ==
    LET t == th[p]  pg == pages[t.page]
    IN /\ At(p, "remove")
       /\ IF t.key \in Keys(pg)
          THEN /\ Cardinality(Keys(pg)) > 1
               /\ pages' = [pages EXCEPT ![t.page] = remove_key(pg, t.key)]
               /\ store' = store \ {t.key}
               /\ th' = Observe([th EXCEPT ![p] = [t EXCEPT !.pc = "return"]], store')
          ELSE /\ Goto(p, [t EXCEPT !.pc = "descend", !.page = root])
               /\ UNCHANGED <<pages, store>>
       /\ UNCHANGED <<root, used, todo, reads>>

\* store moves right before it changes a page: only past a key above the
\* sibling's first.
StoreRight_Never(id, k) == FALSE                                             \* mutant
StoreRight(id, k) == pages[id].sib # NULL /\ k > FirstKey(pages[id].sib)

StoreMoves(p) ==
    /\ At(p, "store") /\ StoreRight(th[p].page, th[p].key)
    /\ Goto(p, [th[p] EXCEPT !.page = pages[@].sib])
    /\ UNCHANGED <<pages, root, used, store, todo, reads>>

\* One slot stays free for the terminator.
Fits(pg) == Cardinality(Keys(pg)) < Card - 1

Stored(t) == IF t.op = "insert" THEN store \cup {t.key} ELSE store

StoreFits(p) ==
    LET t == th[p]  pg == pages[t.page]
    IN /\ At(p, "store") /\ ~StoreRight(t.page, t.key)
       /\ Fits(pg)
       /\ pages' = [pages EXCEPT ![t.page] = insert_key(pg, t.key, t.ptr)]
       /\ store' = Stored(t)
       /\ th' = Observe([th EXCEPT ![p] = [t EXCEPT !.pc = "return"]], store')
       /\ UNCHANGED <<root, used, todo, reads>>

\* The key goes to its half; a split root gets a parent under the lock, any
\* other page's split key is inserted one level up after the lock is released.
StoreSplits(p) ==
    LET t == th[p]
        pg == pages[t.page]
        s == Split(pg)
        free == PageIds \ used
        new == Min(free)
        top == Min(free \ {new})
        cut == [pg EXCEPT !.rec = s.left, !.sib = new, !.forward = TRUE]
        left == IF t.key < s.key THEN insert_key(cut, t.key, t.ptr) ELSE cut
        right == IF t.key < s.key THEN s.right ELSE insert_key(s.right, t.key, t.ptr)
        grown == (new :> right) @@ [pages EXCEPT ![t.page] = left]
        up == IF pg.level + 1 > pages[root].level THEN [t EXCEPT !.pc = "return"]
              ELSE [t EXCEPT !.pc = "descend", !.op = "internal", !.key = s.key, !.ptr = new,
                             !.level = pg.level + 1, !.page = root]
    IN /\ At(p, "store") /\ ~StoreRight(t.page, t.key)
       /\ ~Fits(pg)
       /\ Cardinality(free) >= (IF root = t.page THEN 2 ELSE 1)
       /\ store' = Stored(t)
       /\ IF root = t.page
          THEN /\ pages' = (top :> page(pg.level + 1, t.page, (s.key :> new), NULL)) @@ grown
               /\ root' = top /\ used' = used \cup {new, top}
               /\ th' = Observe([th EXCEPT ![p] = [t EXCEPT !.pc = "return"]], store')
          ELSE /\ pages' = grown /\ used' = used \cup {new} /\ UNCHANGED root
               /\ th' = Observe([th EXCEPT ![p] = up], store')
       /\ UNCHANGED <<todo, reads>>

\* linear_search_range, one page under its read lock.  A page last changed by
\* a removal is read from right to left, and the call ends at the first key
\* at or above the limit in either direction.
Above(t, pg) == {k \in Keys(pg) : k > t.key /\ k >= t.max}
Collected(t, pg) ==
    IF pg.forward \/ Above(t, pg) = {}
    THEN t.ret \cup {k \in Keys(pg) : k > t.key /\ k < t.max} ELSE t.ret

Scan(p) ==
    LET t == th[p]
        pg == pages[t.page]
        after == [t EXCEPT !.ret = Collected(t, pg), !.back = @ \/ ~pg.forward]
    IN /\ At(p, "scan")
       /\ Goto(p, IF Above(t, pg) # {} \/ pg.sib = NULL THEN [after EXCEPT !.pc = "return"]
                  ELSE [after EXCEPT !.page = pg.sib])
       /\ UNCHANGED <<pages, root, used, store, todo, reads>>

Return(p) ==
    /\ At(p, "return") /\ Goto(p, Idle)
    /\ UNCHANGED <<pages, root, used, store, todo, reads>>

Step(p) ==
    Descend(p) \/ Find(p) \/ Remove(p) \/ StoreMoves(p) \/ StoreFits(p) \/ StoreSplits(p)
    \/ Scan(p) \/ Return(p)

Next ==
    \E p \in Procs :
        \/ \E k \in Inserts : Insert(p, k)
        \/ \E k \in Removes : Delete(p, k)
        \/ \E k \in Searches : Search(p, k)
        \/ \E r \in Ranges : RangeSearch(p, r[1], r[2])
        \/ Step(p)

Spec == Init /\ [][Next]_vars /\ \A p \in Procs : WF_vars(Step(p))
-----------------------------------------------------------------------------
(* Properties. *)

TypeOK ==
    /\ used \subseteq PageIds /\ root \in used /\ DOMAIN pages = used
    /\ \A id \in used : LET pg == pages[id] IN
          /\ pg.sib \in used \cup {NULL} /\ pg.leftmost \in used \cup {NULL}
          /\ Cardinality(Keys(pg)) < Card /\ pg.forward \in BOOLEAN
          /\ IF IsLeaf(pg) THEN \A k \in Keys(pg) : pg.rec[k] = k
             ELSE \A c \in {pg.leftmost} \cup {pg.rec[k] : k \in Keys(pg)} :
                      c \in used /\ pages[c].level = pg.level - 1
    /\ \A p \in Procs : th[p].page \in used \cup {NULL}

(* A search that runs while other threads insert, split pages and remove
   (btree_search against store, btree_insert_internal and remove) finds a key
   that was there all the time and does not find one that never was: in
   particular the key is found between the split of its leaf and the insertion
   of the split key into the parent. *)
SearchesLinearize ==
    \A p \in Procs : th[p].pc = "return" /\ th[p].op = "search" =>
        th[p].sure \subseteq th[p].ret /\ th[p].ret \subseteq th[p].may

(* The sibling chain of the leaves is sorted and holds the stored keys, each
   once: no insert that raced a split (store's test of the sibling's first key)
   put a key into a leaf on the wrong side. *)
LeavesSorted ==
    LET leaves == {id \in used : IsLeaf(pages[id])}
    IN /\ \A id \in leaves : pages[id].sib # NULL =>
             \A k \in Keys(pages[id]), l \in Keys(pages[pages[id].sib]) : k < l
       /\ UNION {Keys(pages[id]) : id \in leaves} = store

(* btree_search_range returns records within its limits that were stored at
   some moment of the call, and every record that was there all the time, as
   long as no page it reads was last changed by a removal. *)
RangesReturnStore ==
    \A p \in Procs : th[p].pc = "return" /\ th[p].op = "range" =>
        /\ th[p].ret \subseteq th[p].may
        /\ ~th[p].back => th[p].sure \subseteq th[p].ret

(* What the reads return that take no lock. *)
ReadsLinearize == SearchesLinearize /\ RangesReturnStore

(* The tree is sound in every state of every split and insertion. *)
TreeSound == TypeOK /\ LeavesSorted

(* Every call returns: the walks along siblings, the insertions of split keys
   and the retries of btree_delete come to an end while others go on. *)
CallsReturn == \A p \in Procs : th[p].pc # "idle" ~> th[p].pc = "idle"
=============================================================================
