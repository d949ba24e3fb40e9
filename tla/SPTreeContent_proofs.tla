------------------------ MODULE SPTreeContent_proofs ------------------------
(***************************************************************************)
(* The contents of SPTree: the tree holds the map that the calls have      *)
(* written, for any threads, keys, workloads and number of nodes, and      *)
(* lookup, insert and remove are linearizable.                             *)
(*                                                                         *)
(* Two more inductive invariants, on top of those of SPTreeNodes_proofs:   *)
(*    TileInv     the ranges on the list cover every key exactly once,     *)
(*    ContentInv  a node holds, for each key that it owns, what the map    *)
(*                holds; so does a batch that waits for a split, and so    *)
(*                does what a lookup has read, as long as the version is   *)
(*                the one that it took.                                    *)
(***************************************************************************)
EXTENDS SPTreeNodes_proofs

(* The part of the key space that a node on the list covers. *)
Span(n, k) == lkey[n] <= k /\ k < lkey[next[n]]
Numbers    == MinKey .. (MaxKey - 1)

Inner == Linked \ {DummyTail}

Tiled ==
    /\ \A n \in Linked : lkey[n] >= MinKey
    /\ \A n \in Inner : lkey[next[n]] <= hkey[n]
    /\ \A k \in Numbers : \E n \in Inner : Span(n, k)
    /\ \A k \in Numbers : \A n, m \in Inner : Span(n, k) /\ Span(m, k) => n = m

(* A node that is off the list and not yet obsolete has the upper part of   *)
(* the range of the node that it was merged into.                           *)
MergedRange(t) ==
    pc[t] \in OffList => /\ lkey[at[t]] < lkey[other[t]]
                         /\ hkey[other[t]] = lkey[next[at[t]]]

TileInv == Tiled /\ \A t \in Threads : MergedRange(t)

-----------------------------------------------------------------------------
(* The defects that lose a record. *)
Lossy == {"unmerged", "denied", "shadowed", "reset"}

(* What node n holds for key k. *)
Held(n, k) == IF k \in DOMAIN buf[n] THEN buf[n][k] ELSE LeafLookup(leaf[n], k)

Contents ==
    harm \notin Lossy => \A n \in Live : \A k \in Keys : Owns(n, k) => Held(n, k) = store[k]

(* The record of an insert that has to split. *)
OwnRecord(t, k) == call[t].name = "insert" /\ k = key(t)

BatchHolds(t) ==
    pc[t] \in {"lockNext", "split"} /\ harm = "none" =>
        /\ \A k, v : InRecs(todo[t], k, v) => v = IF OwnRecord(t, k) THEN call[t].val ELSE store[k]
        /\ call[t].name = "insert" => key(t) \in KeysIn(todo[t]) /\ key(t) \notin DOMAIN buf[at[t]]

(* What a lookup has read, as long as the version is the one it took. *)
ReadHolds(t) ==
    pc[t] \in {"checkBloom", "readLeaf", "checkValue"} /\ harm = "none" /\ lock[at[t]] = ver[t] =>
        /\ pc[t] = "checkBloom" /\ got[t] = 0 => store[key(t)] = NoVal
        /\ pc[t] = "readLeaf" => LeafLookup(leaf[at[t]], key(t)) = store[key(t)]
        /\ pc[t] = "checkValue" => got[t] = store[key(t)]

ContentInv == Contents /\ \A t \in Threads : BatchHolds(t) /\ ReadHolds(t)

(* The result of a call is fixed when it takes effect. *)
Splitting == {"setHkey", "topInsert", "unlockLeft", "unlockNext", "resetBuffer"}
Decided   == {"mergeCheck", "mergeRead", "mergeCas", "merge", "unlink", "topRemove",
              "unlockObsolete", "unlock", "return"}
PhaseOK(t) ==
    /\ pc[t] \notin Splitting \cup Decided => res[t] = Pending
    /\ pc[t] \in Decided => res[t] # Pending
    /\ pc[t] \in Splitting => /\ call[t].name \in {"insert", "scan"}
                              /\ res[t] = Pending <=> call[t].name = "scan"
    /\ pc[t] \in Splitting \cup {"lockNext", "split"} /\ call[t].name = "scan" => Buffered(at[t])

PhaseInv == \A t \in Threads : PhaseOK(t)

-----------------------------------------------------------------------------
(* The ranges cover every key exactly once.                                *)

(* A step that neither splits nor unlinks leaves the list as it is. *)
LEMMA ListKept ==
    ASSUME LockInv, ResultTypes, NEW t \in Threads, Invoke(t) \/ Step(t), UNCHANGED nodes,
           pc'[t] \in OffList => pc[t] \in OffList /\ other'[t] = other[t],
           pc[t] \in OffList /\ pc'[t] \notin OffList => UnlockObsolete(t)
    PROVE  Linked' = Linked /\ Live' \subseteq Live
<1>1. PointerTypes
  BY DEF LockInv
<1>2. OthersRest(t)
  BY <1>1, OnlyItsLocals
<1>3. /\ nodes \in Nat /\ Allocated \subseteq Node /\ Live \subseteq Node
      /\ \A m \in Node : /\ isObsolete(lock[m]) => isObsolete(lock'[m])
                         /\ isObsolete(lock'[m]) =>
                               isObsolete(lock[m]) \/ (UnlockObsolete(t) /\ m = other[t])
  BY NodeSets, LockWords
<1>4. Live' \subseteq Live
  BY <1>3 DEF Live, Allocated
<1>5. UnlockObsolete(t) => pc[t] \in OffList /\ pc'[t] \notin OffList /\ isObsolete(lock'[other[t]])
  <2>1. SUFFICES ASSUME UnlockObsolete(t)
                 PROVE  pc[t] \in OffList /\ pc'[t] \notin OffList /\ isObsolete(lock'[other[t]])
    OBVIOUS
  <2>2. /\ pc[t] = "unlockObsolete" /\ pc' = [pc EXCEPT ![t] = "unlock"]
        /\ lock' = [lock EXCEPT ![other[t]] = ObsoleteWord(lock[other[t]])]
    BY <2>1 DEF UnlockObsolete, Goto
  <2>3. other[t] \in Node /\ isLocked(lock[other[t]]) /\ ~isObsolete(lock[other[t]])
    BY <2>2, HeldNodes DEF LockInv, ThreadOK, OtherHeldOK, OtherHeld, Live
  <2>4. isObsolete(lock'[other[t]])
    BY <1>1, <2>2, <2>3, ObsoleteSetsObsoleteBit DEF PointerTypes
  <2> QED
    BY <1>1, <2>2, <2>4 DEF PointerTypes, OffList
<1>6. ASSUME NEW n \in Linked PROVE n \in Linked'
  <2>1. n \in Live /\ n \in Node
    BY <1>3 DEF Linked
  <2>2. n \in Live'
    BY <1>3, <1>5, <1>6, <2>1 DEF Live, Linked
  <2> QED
    BY <1>2, <1>6, <2>2 DEF Linked, OthersRest
<1>7. ASSUME NEW n \in Linked' PROVE n \in Linked
  <2>1. n \in Live' /\ n \in Live /\ ~isObsolete(lock'[n])
    BY <1>4 DEF Linked, Live
  <2> QED
    BY <1>2, <1>5, <1>7, <2>1 DEF Linked, OthersRest
<1> QED
  BY <1>4, <1>6, <1>7

(* Such a step keeps the tiles, if no range shrinks below its tile. *)
LEMMA TilesKept ==
    ASSUME LockInv, TypeInv, TileInv, NEW t \in Threads, Invoke(t) \/ Step(t),
           UNCHANGED <<nodes, next>>, Linked' = Linked,
           pc'[t] \in OffList => pc[t] \in OffList /\ other'[t] = other[t] /\ at'[t] = at[t],
           pc[t] \in OffList => UNCHANGED hkey,
           \A n \in Inner : lkey[next[n]] <= hkey'[n]
    PROVE  TileInv'
<1>1. PointerTypes /\ ResultTypes
  BY DEF LockInv, TypeInv
<1>2. OthersRest(t)
  BY <1>1, OnlyItsLocals
<1>3. /\ Linked \subseteq Allocated /\ Live \subseteq Allocated
      /\ \A n \in Allocated : lkey'[n] = lkey[n] /\ (Holds(t, n) \/ hkey'[n] = hkey[n])
  BY NodeSets, RangesStable
<1>4. \A n \in Inner : next[n] \in Linked
  BY DEF LockInv, ListOK, Inner
<1>5. Inner' = Inner /\ \A n \in Inner : /\ lkey'[n] = lkey[n] /\ lkey'[next'[n]] = lkey[next[n]]
                                         /\ \A k : Span(n, k)' <=> Span(n, k)
  BY <1>3, <1>4 DEF Inner, Span
<1>6. Tiled'
  BY <1>3, <1>5 DEF TileInv, Tiled
<1>7. ASSUME NEW u \in Threads, pc'[u] \in OffList PROVE MergedRange(u)'
  <2>1. pc[u] \in OffList /\ other'[u] = other[u] /\ at'[u] = at[u]
    BY <1>2, <1>7 DEF OthersRest
  <2>2. /\ at[u] \in Inner /\ at[u] \in Linked /\ at[u] \in Allocated
        /\ other[u] \in Allocated /\ other[u] \in Node /\ Holds(u, other[u])
    BY <2>1, HeldNodes DEF OffList, AtHeld, OtherHeld, Inner
  <2>3. hkey'[other[u]] = hkey[other[u]]
    <3>1. CASE u = t
      BY <2>1, <3>1
    <3>2. CASE u # t
      BY <1>3, <2>2, <3>2 DEF LockInv, Exclusive
    <3> QED
      BY <3>1, <3>2
  <2>4. MergedRange(u)
    BY DEF TileInv
  <2> QED
    BY <1>3, <1>5, <2>1, <2>2, <2>3, <2>4 DEF MergedRange
<1>8. \A u \in Threads : MergedRange(u)'
  BY <1>7 DEF MergedRange
<1> QED
  BY <1>6, <1>8 DEF TileInv

(* A split cuts the range of its node in two, at the median. *)
LEMMA SplitData ==
    ASSUME LockInv, TypeInv, RangeInv, NodeInv, NEW t \in Threads, harm = "none", Split(t),
           NEW n, NEW new, NEW M, n = at[t], new = nodes + 1, M = Median(leaf[n])
    PROVE  /\ n \in Node /\ n \in Linked /\ n \in Inner /\ n \in Live /\ Holds(t, n)
           /\ new \in Node /\ new \notin Allocated /\ new # n /\ new # DummyTail
           /\ next[n] \in Linked /\ next[n] \in Node /\ next[n] # new /\ hkey[n] = lkey[next[n]]
           /\ M \in Keys /\ M \in Nat /\ lkey[n] < M /\ M < hkey[n]
           /\ Linked' = Linked \cup {new} /\ Live' = Live \cup {new}
           /\ lkey'[new] = M /\ hkey'[new] = hkey[n] /\ next'[n] = new /\ next'[new] = next[n]
           /\ leaf'[n] = SplitLeft(leaf[n], todo[t]) /\ leaf'[new] = SplitRight(leaf[n], todo[t])
           /\ \A m \in Node \ {new} : lkey'[m] = lkey[m] /\ hkey'[m] = hkey[m]
           /\ \A m \in Node \ {n, new} : leaf'[m] = leaf[m] /\ next'[m] = next[m]
           /\ UNCHANGED <<buf, lock, call, at, other>>
           /\ pc[t] = "split" /\ pc' = [pc EXCEPT ![t] = "setHkey"] /\ pc'[t] = "setHkey"
<1>0. /\ PointerTypes /\ ResultTypes /\ pc \in [Threads -> Pcs] /\ NodeTypes /\ nodes \in Nat
      /\ next \in [Node -> Node \cup {Null}]
  BY NodeSets DEF LockInv, TypeInv, PointerTypes
<1>1. /\ pc[t] = "split" /\ pc' = [pc EXCEPT ![t] = "setHkey"] /\ at' = at
      /\ new \in Node /\ nodes' = new
      /\ leaf' = [leaf EXCEPT ![n] = SplitLeft(leaf[n], todo[t]), ![new] = SplitRight(leaf[n], todo[t])]
      /\ lkey' = [lkey EXCEPT ![new] = M]
      /\ hkey' = [hkey EXCEPT ![new] = hkey[n]]
      /\ next' = [next EXCEPT ![new] = next[n], ![n] = new]
      /\ UNCHANGED <<lock, buf, call, other>>
  BY DEF Split, Goto
<1>2. /\ n \in Node /\ n \in Linked /\ n \in Allocated /\ n # DummyTail /\ Holds(t, n)
      /\ \A k \in KeysOf(leaf[n]) : InRange(n, k)
      /\ hkey[n] = lkey[next[n]] /\ next[n] \in Linked /\ next[n] \in Node
  BY <1>1, Here DEF AtHeld
<1>3. M \in Keys /\ M \in KeysOf(leaf[n]) /\ \E k \in KeysOf(leaf[n]) : k < M
  BY <1>1, SplitLeaves
<1>4. /\ new \notin Allocated /\ n # new /\ next[n] # new /\ Linked \subseteq Allocated /\ Linked \subseteq Node
      /\ Live \subseteq Allocated /\ Linked \subseteq Live /\ DummyTail \in Linked
  BY <1>0, <1>2, NodeSets DEF Allocated
<1>5. M \in Nat /\ lkey[n] < M /\ M < hkey[n]
  <2>1. PICK k \in KeysOf(leaf[n]) : k < M
    BY <1>3
  <2>2. lkey[n] <= k /\ lkey[n] <= M /\ M < hkey[n]
    BY <1>2, <1>3 DEF InRange
  <2>3. leaf[n] \in LeafOf(Keys, Vals) /\ lkey[n] \in Nat
    BY <1>0, <1>2 DEF NodeTypes
  <2>4. k \in Nat
    <3>1. \A i \in ValidBitSet(leaf[n]) : leaf[n][i] \in RecOf(Keys, Vals)
      BY <2>3, LeafSets
    <3>2. \A x \in RecOf(Keys, Vals) : x.key \in Nat
      BY KeysAre DEF RecOf
    <3> QED
      BY <3>1, <3>2 DEF KeysOf
  <2> QED
    BY <1>3, <2>1, <2>2, <2>3, <2>4, KeysAre
<1>6. OthersRest(t)
  BY <1>0, OnlyItsLocals DEF Step
<1>7. /\ leaf'[n] = SplitLeft(leaf[n], todo[t]) /\ leaf'[new] = SplitRight(leaf[n], todo[t])
      /\ lkey'[new] = M /\ next'[n] = new /\ next'[new] = next[n] /\ hkey'[new] = hkey[n]
      /\ \A m \in Node \ {new} : lkey'[m] = lkey[m] /\ hkey'[m] = hkey[m]
      /\ \A m \in Node \ {n, new} : leaf'[m] = leaf[m] /\ next'[m] = next[m]
  BY <1>0, <1>1, <1>2, <1>4 DEF NodeTypes
<1>8. Live' = Live \cup {new}
  <2>1. Allocated' = Allocated \cup {new}
    BY <1>0, <1>1 DEF Allocated
  <2>2. ~isObsolete(lock[new])
    BY <1>1, <1>4, InitWordIsFree DEF LockInv, PointersAllocated
  <2> QED
    BY <1>1, <1>4, <2>1, <2>2 DEF Live, Allocated
<1>9. Linked' = Linked \cup {new}
  <2>1. \A u \in Threads : pc'[u] \in OffList <=> pc[u] \in OffList
    BY <1>0, <1>1, <1>6 DEF OthersRest, OffList
  <2>2. \A u \in Threads : pc[u] \in OffList => other[u] # new
    BY <1>4, HeldNodes DEF OffList, OtherHeld
  <2> QED
    BY <1>1, <1>8, <2>1, <2>2 DEF Linked
<1>10. /\ n \in Inner /\ n \in Live /\ new # DummyTail
  BY <1>2, <1>4 DEF Inner
<1>11. pc'[t] = "setHkey"
  BY <1>0, <1>1
<1> QED
  BY <1>1, <1>2, <1>3, <1>4, <1>5, <1>7, <1>8, <1>9, <1>10, <1>11, Zenon

(* Both halves together cover what the node covered. *)
LEMMA SplitTiles ==
    ASSUME LockInv, TypeInv, RangeInv, NodeInv, TileInv, NEW t \in Threads, harm = "none", Split(t)
    PROVE  TileInv'
<1>a. PICK n, new, M : n = at[t] /\ new = nodes + 1 /\ M = Median(leaf[n])
  OBVIOUS
<1>1. /\ n \in Node /\ n \in Inner /\ Holds(t, n)
      /\ new \in Node /\ new \notin Allocated /\ new # n /\ new # DummyTail
      /\ next[n] \in Linked /\ next[n] \in Node /\ next[n] # new /\ hkey[n] = lkey[next[n]]
      /\ M \in Nat /\ lkey[n] < M /\ M < hkey[n]
      /\ Linked' = Linked \cup {new}
      /\ lkey'[new] = M /\ hkey'[new] = hkey[n] /\ next'[n] = new /\ next'[new] = next[n]
      /\ \A m \in Node \ {new} : lkey'[m] = lkey[m] /\ hkey'[m] = hkey[m]
      /\ \A m \in Node \ {n, new} : next'[m] = next[m]
      /\ at' = at /\ other' = other
  BY <1>a, SplitData
<1>2. /\ Linked \subseteq Node /\ Linked \subseteq Allocated /\ OthersRest(t)
      /\ lkey \in [Node -> Nat] /\ hkey \in [Node -> Nat]
      /\ pc \in [Threads -> Pcs] /\ pc[t] = "split" /\ pc' = [pc EXCEPT ![t] = "setHkey"]
  <2>1. PointerTypes /\ ResultTypes /\ NodeTypes
    BY DEF LockInv, TypeInv
  <2>2. OthersRest(t)
    BY <2>1, OnlyItsLocals DEF Step
  <2>3. pc[t] = "split" /\ pc' = [pc EXCEPT ![t] = "setHkey"]
    BY DEF Split, Goto
  <2> QED
    BY <2>1, <2>2, <2>3, NodeSets DEF NodeTypes, PointerTypes
<1>3. Inner' = Inner \cup {new} /\ \A m \in Inner : next[m] \in Linked /\ next[m] \in Node /\ next[m] # new
  BY <1>1, <1>2 DEF Inner, LockInv, ListOK
<1>4. /\ \A k : Span(n, k)' <=> lkey[n] <= k /\ k < M
      /\ \A k : Span(new, k)' <=> M <= k /\ k < hkey[n]
      /\ \A k : Span(n, k) <=> lkey[n] <= k /\ k < hkey[n]
      /\ \A m \in Inner \ {n} : \A k : Span(m, k)' <=> Span(m, k)
  BY <1>1, <1>2, <1>3 DEF Span, Inner
<1>5. \A k \in Numbers : k \in Nat
  BY KeysAre DEF Numbers, MinKey
<1>6. lkey[n] \in Nat /\ hkey[n] \in Nat
  BY <1>1, <1>2
<1>7. \A k \in Numbers : Span(n, k) <=> (Span(n, k)' \/ Span(new, k)')
  BY <1>1, <1>4, <1>5, <1>6
<1>8. \A k \in Numbers : ~(Span(n, k)' /\ Span(new, k)')
  BY <1>1, <1>4, <1>5, <1>6
<1>9. \A k \in Numbers : \E m \in Inner' : Span(m, k)'
  <2>1. SUFFICES ASSUME NEW k \in Numbers PROVE \E m \in Inner' : Span(m, k)'
    OBVIOUS
  <2>2. PICK m \in Inner : Span(m, k)
    BY DEF TileInv, Tiled
  <2> QED
    BY <1>1, <1>3, <1>4, <1>7, <2>2
<1>10. ASSUME NEW k \in Numbers, NEW m \in Inner', NEW p \in Inner', Span(m, k)', Span(p, k)'
       PROVE  m = p
  <2>1. \A q \in Inner \ {n} : Span(q, k)' => Span(q, k)
    BY <1>4
  <2>2. \A x, y \in Inner : Span(x, k) /\ Span(y, k) => x = y
    BY DEF TileInv, Tiled
  <2> QED
    BY <1>1, <1>3, <1>7, <1>8, <1>10, <2>1, <2>2
<1>11. \A m \in Linked' : lkey'[m] >= MinKey
  <2>1. \A m \in Linked : lkey[m] >= MinKey
    BY DEF TileInv, Tiled
  <2>2. M >= MinKey
    BY <1>1, <1>6, <2>1 DEF MinKey, Inner
  <2> QED
    BY <1>1, <1>2, <2>1, <2>2
<1>12. \A m \in Inner' : lkey'[next'[m]] <= hkey'[m]
  <2>1. \A m \in Inner : lkey[next[m]] <= hkey[m]
    BY DEF TileInv, Tiled
  <2>2. lkey'[next'[n]] <= hkey'[n]
    BY <1>1, <1>6
  <2>3. lkey'[next'[new]] <= hkey'[new]
    BY <1>1, <1>6
  <2>4. \A m \in Inner \ {n} : lkey'[next'[m]] <= hkey'[m]
    BY <1>1, <1>2, <1>3, <2>1 DEF Inner
  <2> QED
    BY <1>3, <2>2, <2>3, <2>4
<1>13. Tiled'
  BY <1>9, <1>10, <1>11, <1>12 DEF Tiled
<1>14. ASSUME NEW u \in Threads, pc'[u] \in OffList PROVE MergedRange(u)'
  <2>1. u # t /\ pc[u] = pc'[u]
    BY <1>2, <1>14 DEF OthersRest, OffList
  <2>2. /\ at[u] \in Node /\ at[u] \in Inner /\ other[u] \in Node /\ other[u] \in Allocated
        /\ Holds(u, at[u]) /\ next[at[u]] \in Node /\ next[at[u]] # new
    BY <1>3, <1>14, <2>1, HeldNodes DEF OffList, AtHeld, OtherHeld, Inner
  <2>3. at[u] # n
    BY <1>1, <2>1, <2>2 DEF LockInv, Exclusive
  <2>4. MergedRange(u) /\ at[u] # new /\ other[u] # new
    BY <1>1, <1>2, <2>2 DEF TileInv, Inner
  <2> QED
    BY <1>1, <1>14, <2>1, <2>2, <2>3, <2>4 DEF MergedRange
<1>15. \A u \in Threads : MergedRange(u)'
  BY <1>14 DEF MergedRange
<1> QED
  BY <1>13, <1>15 DEF TileInv

(* While a node is off the list, its holder does nothing else. *)
LEMMA QuietOffList ==
    ASSUME PointerTypes, NEW t \in Threads, Quiet(t), pc[t] \in OffList
    PROVE  UNCHANGED <<at, other>>
<1>1. pc \in [Threads -> Pcs]
  BY DEF PointerTypes
<1> USE <1>1 DEF Goto, Retry, Hop, middle, content, sorting, shared, scans, locals, OffList
<1>2. CASE \/ Invoke(t) \/ Return(t) \/ SeekLE(t) \/ WalkLeft(t) \/ WalkRight(t) \/ ReadLock(t)
           \/ ReadBloom(t) \/ CheckBloom(t) \/ ReadBuffer(t) \/ ReadLeaf(t) \/ CheckValue(t)
           \/ Upgrade(t) \/ StartSplit(t) \/ LockNext(t) \/ TopInsert(t) \/ UnlockLeft(t)
           \/ UnlockNext(t) \/ MergeCheck(t) \/ MergeRead(t) \/ MergeCas(t) \/ MergeFails(t)
  BY <1>2 DEF Invoke, Return, SeekLE, WalkLeft, WalkRight, ReadLock, ReadBloom, CheckBloom, ReadBuffer,
              ReadLeaf, CheckValue, Upgrade, StartSplit, MustFlush, LockNext, TopInsert, UnlockLeft,
              UnlockNext, MergeCheck, MergeRead, MergeCas, MergeFails
<1>3. CASE TopRemove(t) \/ UnlockObsolete(t)
  BY <1>3 DEF TopRemove, UnlockObsolete
<1>4. CASE \/ ScanLock(t) \/ ScanNode(t) \/ ScanUpgrade(t) \/ ScanUnlock(t) \/ ScanSort(t)
           \/ ScanSorted(t) \/ ScanRelock(t) \/ ScanRead(t) \/ ScanCheck(t) \/ ScanAdvance(t)
           \/ ScanNext(t) \/ Unlock(t)
  BY <1>4 DEF ScanLock, ScanNode, ScanUpgrade, ScanUnlock, ScanSort, ScanSorted, ScanRelock,
              ScanVersion, ScanRead, ScanCheck, ScanAdvance, ScanNext, Unlock
<1> QED
  BY <1>2, <1>3, <1>4, Zenon DEF Quiet

(* The node takes over the tile of the one that is unlinked. *)
LEMMA UnlinkTiles ==
    ASSUME LockInv, TypeInv, RangeInv, TileInv, NEW t \in Threads, Unlink(t)
    PROVE  TileInv'
<1>a. PICK n, gone, right : n = at[t] /\ gone = next[at[t]] /\ right = next[next[at[t]]]
  OBVIOUS
<1>0. /\ PointerTypes /\ ResultTypes /\ pc \in [Threads -> Pcs] /\ NodeTypes
      /\ next \in [Node -> Node \cup {Null}]
  BY DEF LockInv, TypeInv, PointerTypes
<1>1. /\ pc[t] = "unlink" /\ pc' = [pc EXCEPT ![t] = "topRemove"]
      /\ next' = [next EXCEPT ![n] = right]
      /\ UNCHANGED <<nodes, lkey, hkey, lock, at, other>>
  BY <1>a DEF Unlink, Goto, locals
<1>2. /\ n \in Node /\ n \in Linked /\ n # DummyTail /\ Holds(t, n) /\ Holds(t, other[t])
      /\ other[t] = gone /\ gone # DummyTail /\ gone # n /\ hkey[n] = hkey[gone]
  BY <1>a, <1>1, HeldNodes DEF AtHeld, OtherHeld, LockInv, ThreadOK, NeighbourOK
<1>3. OthersRest(t)
  BY <1>0, OnlyItsLocals DEF Step
<1>4. /\ gone \in Linked /\ right \in Linked /\ n \in Inner /\ gone \in Inner
      /\ Linked \subseteq Node /\ right = next[gone]
  BY <1>a, <1>2, NodeSets DEF LockInv, ListOK, Inner
<1>5. Linked' = Linked \ {gone}
  <2>1. Live' = Live
    BY <1>1 DEF Live
  <2>2. \A u \in Threads : pc'[u] \in OffList <=> pc[u] \in OffList \/ u = t
    BY <1>0, <1>1, <1>3 DEF OthersRest, OffList
  <2> QED
    BY <1>1, <1>2, <2>1, <2>2 DEF Linked
<1>6. Inner' = Inner \ {gone} /\ next'[n] = right /\ \A m \in Node \ {n} : next'[m] = next[m]
  BY <1>0, <1>1, <1>2, <1>5 DEF Inner
<1>7. /\ lkey[n] < lkey[gone] /\ lkey[gone] < lkey[right]
      /\ lkey[n] \in Nat /\ lkey[gone] \in Nat /\ lkey[right] \in Nat
  BY <1>0, <1>a, <1>2, <1>4 DEF RangeInv, NodeTypes
<1>8. hkey[gone] = lkey[right]
  <2>1. ~Changing(gone, {"setHkey", "unlink"})
    BY <1>a, <1>2, <1>4, HeldIsUnchanging
  <2> QED
    BY <1>4, <2>1 DEF LockInv, RangesMeet, Inner
<1>9. /\ \A k : Span(n, k)' <=> lkey[n] <= k /\ k < lkey[right]
      /\ \A k : Span(n, k) <=> lkey[n] <= k /\ k < lkey[gone]
      /\ \A k : Span(gone, k) <=> lkey[gone] <= k /\ k < lkey[right]
      /\ \A m \in Inner \ {n} : \A k : Span(m, k)' <=> Span(m, k)
  BY <1>a, <1>1, <1>4, <1>6 DEF Span, Inner
<1>10. \A k \in Numbers : k \in Nat
  BY KeysAre DEF Numbers, MinKey
<1>11. \A k \in Numbers : Span(n, k)' <=> Span(n, k) \/ Span(gone, k)
  BY <1>7, <1>9, <1>10
<1>12. ASSUME NEW k \in Numbers PROVE \E m \in Inner' : Span(m, k)'
  <2>1. PICK m \in Inner : Span(m, k)
    BY DEF TileInv, Tiled
  <2> QED
    BY <1>2, <1>4, <1>6, <1>9, <1>11, <2>1
<1>13. ASSUME NEW k \in Numbers, NEW m \in Inner', NEW p \in Inner', Span(m, k)', Span(p, k)'
       PROVE  m = p
  <2>1. \A x, y \in Inner : Span(x, k) /\ Span(y, k) => x = y
    BY DEF TileInv, Tiled
  <2>2. \A q \in Inner \ {n} : Span(q, k)' => Span(q, k)
    BY <1>9
  <2> QED
    BY <1>2, <1>4, <1>6, <1>11, <1>13, <2>1, <2>2
<1>14. Tiled'
  <2>1. \A m \in Linked' : lkey'[m] >= MinKey
    BY <1>1, <1>5 DEF TileInv, Tiled
  <2>2. \A m \in Inner' : lkey'[next'[m]] <= hkey'[m]
    <3>1. \A m \in Inner : lkey[next[m]] <= hkey[m]
      BY DEF TileInv, Tiled
    <3>2. lkey[right] <= hkey[n]
      BY <1>2, <1>7, <1>8
    <3> QED
      BY <1>1, <1>4, <1>6, <3>1, <3>2 DEF Inner
  <2> QED
    BY <1>12, <1>13, <2>1, <2>2 DEF Tiled
<1>15. ASSUME NEW u \in Threads, pc'[u] \in OffList PROVE MergedRange(u)'
  <2>1. CASE u = t
    BY <1>a, <1>1, <1>2, <1>6, <1>7, <1>8, <2>1 DEF MergedRange
  <2>2. CASE u # t
    <3>1. pc[u] \in OffList
      BY <1>3, <1>15, <2>2 DEF OthersRest
    <3>2. at[u] \in Node /\ Holds(u, at[u]) /\ at[u] # n
      BY <1>2, <2>2, <3>1, HeldNodes DEF OffList, AtHeld, LockInv, Exclusive
    <3>3. MergedRange(u)
      BY DEF TileInv
    <3> QED
      BY <1>1, <1>6, <3>1, <3>2, <3>3 DEF MergedRange
  <2> QED
    BY <2>1, <2>2
<1>16. \A u \in Threads : MergedRange(u)'
  BY <1>15 DEF MergedRange
<1> QED
  BY <1>14, <1>16 DEF TileInv

(* At first one node covers everything. *)
LEMMA InitTiles == Init => TileInv
<1> SUFFICES ASSUME Init PROVE TileInv
  OBVIOUS
<1>1. Linked = {HeadNode, DummyTail} /\ HeadNode \in Node /\ DummyTail \in Node /\ HeadNode # DummyTail
  BY InitWordIsFree, BoundsAssumption DEF Init, Linked, Live, OffList, HeadNode, DummyTail, Node
<1>2. /\ lkey[HeadNode] = 1 /\ hkey[HeadNode] = MaxKey /\ lkey[DummyTail] = MaxKey
      /\ next[HeadNode] = DummyTail
  BY <1>1 DEF Init, MinKey, HeadNode, DummyTail
<1>3. Inner = {HeadNode} /\ MaxKey \in Nat /\ MaxKey >= 1
  <2>1. PICK k \in Keys : TRUE
    BY KeysAssumption
  <2> QED
    BY <1>1, <2>1, KeysAre DEF Inner
<1>4. Tiled
  BY <1>1, <1>2, <1>3 DEF Tiled, Span, Numbers, MinKey
<1>5. \A t \in Threads : MergedRange(t)
  BY DEF Init, MergedRange, OffList
<1> QED
  BY <1>4, <1>5 DEF TileInv

(* Every step keeps the tiles. *)
LEMMA TileStep ==
    ASSUME LockInv, TypeInv, RangeInv, NodeInv, TileInv, NEW t \in Threads, harm = "none",
           Invoke(t) \/ Step(t)
    PROVE  TileInv'
<1>1. PointerTypes /\ ResultTypes /\ pc \in [Threads -> Pcs]
  BY DEF LockInv, TypeInv, PointerTypes
<1>2. \A n \in Inner : lkey[next[n]] <= hkey[n]
  BY DEF TileInv, Tiled
<1> USE DEF Goto, middle, content, sorting, locals
<1>3. CASE Quiet(t)
  <2>1. /\ UNCHANGED <<nodes, hkey, next>>
        /\ pc'[t] \in OffList => pc[t] \in OffList /\ other'[t] = other[t]
        /\ pc[t] \in OffList /\ pc'[t] \notin OffList => UnlockObsolete(t)
    BY <1>1, <1>3, QuietData
  <2>2. Linked' = Linked
    BY <1>1, <2>1, ListKept
  <2>4. pc'[t] \in OffList => at'[t] = at[t]
    BY <1>1, <1>3, <2>1, QuietOffList
  <2> QED
    BY <1>2, <2>1, <2>2, <2>4, TilesKept
<1>4. CASE InsertToBuffer(t) \/ InsertToLeaf(t) \/ FlushMLNodeBuffer(t) \/ ResetBuffer(t)
           \/ RemoveLocked(t)
  <2>1. UNCHANGED <<nodes, hkey, next>> /\ pc[t] \notin OffList /\ pc'[t] \notin OffList
    BY <1>1, <1>4 DEF InsertToBuffer, InsertToLeaf, FlushMLNodeBuffer, ResetBuffer, RemoveLocked,
                      OffList, Retry, MustFlush
  <2>2. Linked' = Linked
    BY <1>1, <2>1, ListKept
  <2> QED
    BY <1>2, <2>1, <2>2, TilesKept
<1>5. CASE SetHkey(t)
  <2>1. /\ UNCHANGED <<nodes, next>> /\ pc[t] \notin OffList /\ pc'[t] \notin OffList
        /\ hkey' = [hkey EXCEPT ![at[t]] = lkey[next[at[t]]]] /\ pc[t] = "setHkey"
    BY <1>1, <1>5 DEF SetHkey, OffList
  <2>2. Linked' = Linked
    BY <1>1, <2>1, ListKept
  <2>3. \A n \in Inner : n \in Node /\ next[n] \in Node
    BY NodeSets DEF Inner, LockInv, ListOK
  <2>4. \A n \in Inner : lkey[next[n]] <= hkey'[n]
    BY <1>2, <2>1, <2>3 DEF TypeInv, NodeTypes
  <2> QED
    BY <2>1, <2>2, <2>4, TilesKept
<1>6. CASE Merge(t)
  <2>1. /\ UNCHANGED <<nodes, next>> /\ pc[t] \notin OffList /\ pc'[t] \notin OffList
        /\ hkey' = [hkey EXCEPT ![at[t]] = hkey[next[at[t]]]] /\ pc[t] = "merge"
    BY <1>1, <1>6 DEF Merge, OffList
  <2>2. Linked' = Linked
    BY <1>1, <2>1, ListKept
  <2>3. /\ \A n \in Inner : n \in Node /\ next[n] \in Node /\ next[n] \in Linked
        /\ lkey \in [Node -> Nat] /\ hkey \in [Node -> Nat]
    BY NodeSets DEF Inner, LockInv, ListOK, TypeInv, NodeTypes
  <2>4. at[t] \in Inner /\ next[at[t]] \in Inner
    BY <2>1, <2>3, HeldNodes DEF Inner, AtHeld, LockInv, ThreadOK, NeighbourOK
  <2>5. lkey[next[at[t]]] <= hkey[next[at[t]]]
    <3>1. /\ lkey[next[at[t]]] < lkey[next[next[at[t]]]]
          /\ lkey[next[next[at[t]]]] <= hkey[next[at[t]]]
      BY <1>2, <2>4 DEF RangeInv, Inner
    <3> QED
      BY <2>3, <2>4, <3>1
  <2>6. \A n \in Inner : lkey[next[n]] <= hkey'[n]
    BY <1>2, <2>1, <2>3, <2>5
  <2> QED
    BY <2>1, <2>2, <2>6, TilesKept
<1> QED
  BY QuietOrWrites, <1>3, <1>4, <1>5, <1>6, SplitTiles, UnlinkTiles DEF Writes

-----------------------------------------------------------------------------
(* Who owns a key.                                                         *)

(* Keys are among the numbers that are covered. *)
LEMMA KeysCovered == Keys \subseteq Numbers /\ Numbers \subseteq Nat
BY KeysAre DEF Numbers, MinKey

(* A live node that owns a key covers it, or is part of a merge with the    *)
(* node that does.                                                          *)
LEMMA OwnersSpan ==
    ASSUME LockInv, TypeInv, TileInv, NEW m \in Live, NEW k \in Keys, Owns(m, k)
    PROVE  \E p \in Inner : /\ Span(p, k)
                            /\ \/ p = m
                               \/ \E u \in Threads : /\ Holds(u, m) /\ Holds(u, p)
                                                     /\ pc[u] \in {"unlink"} \cup OffList
<1>1. /\ m \in Node /\ k \in Nat /\ k < MaxKey /\ MaxKey \in Nat
      /\ lkey \in [Node -> Nat] /\ hkey \in [Node -> Nat]
      /\ Linked \subseteq Node
  BY NodeSets, KeysAre DEF TypeInv, NodeTypes
<1>2. lkey[m] <= k /\ k < Limit(m)
  BY DEF Owns
<1>3. CASE m \in Linked
  <2>1. m # DummyTail
    BY <1>1, <1>2 DEF LockInv, RangesMeet
  <2>2. m \in Inner /\ next[m] \in Linked
    BY <1>3, <2>1 DEF Inner, LockInv, ListOK
  <2>3. CASE Limit(m) = lkey[next[m]]
    BY <1>2, <2>2, <2>3 DEF Span
  <2>4. CASE Limit(m) # lkey[next[m]]
    <3>1. ~Changing(m, {"setHkey"}) /\ Limit(m) = hkey[m]
      BY <2>4 DEF Limit
    <3>2. PICK u \in Threads : at[u] = m /\ pc[u] \in {"setHkey", "unlink"}
      BY <2>2, <2>4, <3>1 DEF LockInv, RangesMeet, Inner, Changing
    <3>3. pc[u] = "unlink"
      BY <3>1, <3>2 DEF Changing
    <3>4. /\ other[u] = next[m] /\ other[u] # DummyTail /\ hkey[m] = hkey[other[u]] /\ other[u] # at[u]
          /\ Holds(u, m) /\ Holds(u, other[u])
      BY <3>2, <3>3, HeldNodes DEF LockInv, ThreadOK, NeighbourOK, AtHeld, OtherHeld
    <3>5. other[u] \in Inner /\ other[u] \in Node
      BY <1>1, <2>2, <3>4 DEF Inner
    <3>6. hkey[other[u]] = lkey[next[other[u]]]
      <4>1. ~Changing(other[u], {"setHkey", "unlink"})
        BY <3>4, <3>5, HeldIsUnchanging
      <4> QED
        BY <3>5, <4>1 DEF LockInv, RangesMeet, Inner
    <3>7. CASE k < lkey[next[m]]
      BY <1>2, <2>2, <3>7 DEF Span
    <3>8. CASE ~(k < lkey[next[m]])
      <4>1. Span(other[u], k)
        <5>1. lkey[next[m]] \in Nat /\ lkey[next[m]] <= k
          BY <1>1, <2>2, <3>8
        <5> QED
          BY <1>2, <3>1, <3>4, <3>6, <5>1 DEF Span
      <4> QED
        BY <3>3, <3>4, <3>5, <4>1
    <3> QED
      BY <3>7, <3>8
  <2> QED
    BY <2>3, <2>4
<1>4. CASE m \notin Linked
  <2>1. PICK u \in Threads : pc[u] \in OffList /\ other[u] = m
    BY <1>4 DEF Linked
  <2>2. /\ at[u] \in Inner /\ at[u] \in Node /\ Holds(u, at[u]) /\ Holds(u, m) /\ at[u] # m
    BY <2>1, HeldNodes DEF OffList, AtHeld, OtherHeld, Inner, LockInv, ThreadOK, NeighbourOK
  <2>3. MergedRange(u)
    BY DEF TileInv
  <2>4. lkey[at[u]] < lkey[m] /\ hkey[m] = lkey[next[at[u]]]
    BY <2>1, <2>3 DEF MergedRange
  <2>5. Limit(m) = hkey[m]
    <3>1. ~Changing(m, {"setHkey", "unlink"})
      BY <1>1, <2>2, HeldIsUnchanging
    <3> QED
      BY <3>1 DEF Limit, Changing
  <2>6. Span(at[u], k)
    <3>1. lkey[at[u]] \in Nat /\ lkey[m] \in Nat
      BY <1>1, <2>2
    <3> QED
      BY <1>1, <1>2, <2>4, <2>5, <3>1 DEF Span
  <2> QED
    BY <2>1, <2>2, <2>6
<1> QED
  BY <1>3, <1>4

(* The holder of a node, outside of a merge, is the only one that has the   *)
(* keys of its range.                                                       *)
LEMMA SoleOwner ==
    ASSUME LockInv, TypeInv, TileInv, NEW t \in Threads,
           pc[t] \in AtHeld \ ({"setHkey", "unlink"} \cup OffList),
           NEW k \in Keys, InRange(at[t], k)
    PROVE  \A m \in Live \ {at[t]} : ~Owns(m, k)
<1>1. /\ at[t] \in Inner /\ at[t] \in Node /\ Holds(t, at[t])
  BY HeldNodes DEF Inner
<1>2. hkey[at[t]] = lkey[next[at[t]]]
  <2>1. ~Changing(at[t], {"setHkey", "unlink"})
    BY <1>1, HeldIsUnchanging
  <2> QED
    BY <1>1, <2>1 DEF LockInv, RangesMeet, Inner
<1>3. Span(at[t], k)
  BY <1>2 DEF Span, InRange
<1>4. SUFFICES ASSUME NEW m \in Live \ {at[t]}, Owns(m, k) PROVE FALSE
  OBVIOUS
<1>5. PICK p \in Inner : /\ Span(p, k)
                         /\ \/ p = m
                            \/ \E u \in Threads : /\ Holds(u, m) /\ Holds(u, p)
                                                  /\ pc[u] \in {"unlink"} \cup OffList
  BY <1>4, OwnersSpan
<1>6. p = at[t]
  BY <1>1, <1>3, <1>5, KeysCovered DEF TileInv, Tiled
<1>7. PICK u \in Threads : Holds(u, p) /\ pc[u] \in {"unlink"} \cup OffList
  BY <1>4, <1>5, <1>6
<1>8. u = t
  BY <1>1, <1>6, <1>7 DEF LockInv, Exclusive
<1> QED
  BY <1>7, <1>8

-----------------------------------------------------------------------------
(* The contents of the nodes.                                              *)

(* What a step may write: the map only for a key in the range of a node     *)
(* that its thread holds, a leaf only of such a node; it may clear a buffer *)
(* without holding the node.                                                *)
Writer == {"insertLocked", "removeLocked", "split"}
WritesItsNode(t) ==
    /\ \A k \in Keys : store'[k] # store[k] => pc[t] \in Writer /\ InRange(at[t], k)
    /\ \A m \in Allocated : Holds(t, m) \/ leaf'[m] = leaf[m]
    /\ \A m \in Allocated : Holds(t, m) \/ DOMAIN buf'[m] \subseteq DOMAIN buf[m]

(* Such a step changes nothing that another thread relies on. *)
LEMMA OthersContent ==
    ASSUME LockInv, TypeInv, SnapshotInv, NodeInv, TileInv, ContentInv, NEW t \in Threads, harm = "none",
           Invoke(t) \/ Step(t), WritesItsNode(t)
    PROVE  \A u \in Threads \ {t} : BatchHolds(u)' /\ ReadHolds(u)'
<1>1. PointerTypes /\ ResultTypes
  BY DEF LockInv, TypeInv
<1>2. OthersRest(t)
  BY <1>1, OnlyItsLocals
<1>3. SUFFICES ASSUME NEW u \in Threads \ {t} PROVE BatchHolds(u)' /\ ReadHolds(u)'
  OBVIOUS
<1>4. /\ pc'[u] = pc[u] /\ at'[u] = at[u] /\ ver'[u] = ver[u] /\ call'[u] = call[u]
      /\ todo'[u] = todo[u] /\ got'[u] = got[u] /\ key(u)' = key(u)
  BY <1>2 DEF OthersRest, key
<1>5. key(u) \in Keys /\ BatchHolds(u) /\ ReadHolds(u)
  BY <1>1, CallKeys DEF ContentInv
<1>6. ASSUME NEW n \in Live, NEW k \in Keys, Owns(n, k), ~Holds(t, n) PROVE store'[k] = store[k]
  <2>1. SUFFICES ASSUME store'[k] # store[k] PROVE FALSE
    OBVIOUS
  <2>2. pc[t] \in Writer /\ InRange(at[t], k)
    BY <2>1 DEF WritesItsNode
  <2>3. pc[t] \in AtHeld \ ({"setHkey", "unlink"} \cup OffList)
    BY <2>2 DEF Writer, AtHeld, OffList
  <2>4. Holds(t, at[t])
    BY <2>3, HeldNodes
  <2> QED
    BY <1>6, <2>2, <2>3, <2>4, SoleOwner
<1>7. BatchHolds(u)'
  <2>1. SUFFICES ASSUME pc[u] \in {"lockNext", "split"}
                 PROVE  /\ \A k, v : InRecs(todo[u], k, v) => v = IF OwnRecord(u, k) THEN call[u].val ELSE store'[k]
                        /\ call[u].name = "insert" => key(u) \in KeysIn(todo[u]) /\ key(u) \notin DOMAIN buf'[at[u]]
    <3>1. \A k : OwnRecord(u, k)' <=> OwnRecord(u, k)
      BY <1>4 DEF OwnRecord
    <3> QED
      BY <1>4, <2>1, <3>1 DEF BatchHolds
  <2>2. /\ \A k, v : InRecs(todo[u], k, v) => v = IF OwnRecord(u, k) THEN call[u].val ELSE store[k]
        /\ call[u].name = "insert" => key(u) \in KeysIn(todo[u]) /\ key(u) \notin DOMAIN buf[at[u]]
    BY <1>5, <2>1 DEF BatchHolds
  <2>3. /\ at[u] \in Live /\ at[u] \in Allocated /\ Holds(u, at[u]) /\ at[u] \in Node
        /\ \A k : Owns(at[u], k) <=> InRange(at[u], k)
    BY <2>1, Here, NodeSets DEF AtHeld
  <2>4. ~Holds(t, at[u])
    BY <1>3, <2>3 DEF LockInv, Exclusive
  <2>5. \A k \in KeysIn(todo[u]) : k \in Keys /\ Owns(at[u], k)
    <3>1. BatchOK(u) /\ todo[u] \in Seq(RecOf(Keys, Vals))
      BY <1>1 DEF NodeInv, ResultTypes
    <3>2. \A k \in KeysIn(todo[u]) : InRange(at[u], k)
      BY <2>1, <3>1 DEF BatchOK
    <3>3. \A r \in RecOf(Keys, Vals) : r.key \in Keys
      BY DEF RecOf
    <3> QED
      BY <2>3, <3>1, <3>2, <3>3 DEF KeysIn
  <2>6. \A k, v : InRecs(todo[u], k, v) => store'[k] = store[k]
    BY <1>6, <2>3, <2>4, <2>5 DEF InRecs, KeysIn
  <2>7. DOMAIN buf'[at[u]] \subseteq DOMAIN buf[at[u]]
    BY <2>3, <2>4 DEF WritesItsNode
  <2> QED
    BY <2>2, <2>6, <2>7
<1>8. ReadHolds(u)'
  <2>1. SUFFICES ASSUME pc[u] \in {"checkBloom", "readLeaf", "checkValue"}, lock'[at[u]] = ver[u]
                 PROVE  /\ pc[u] = "checkBloom" /\ got[u] = 0 => store'[key(u)] = NoVal
                        /\ pc[u] = "readLeaf" => LeafLookup(leaf'[at[u]], key(u)) = store'[key(u)]
                        /\ pc[u] = "checkValue" => got[u] = store'[key(u)]
    BY <1>4 DEF ReadHolds
  <2>2. /\ Free(ver[u]) /\ ver[u] <= lock[at[u]] /\ (lock[at[u]] = ver[u] => InRange(at[u], key(u)))
    BY <2>1 DEF SnapshotInv, Snapshot
  <2>3. at[u] \in Allocated /\ at[u] \in Node /\ ver[u] \in Nat /\ lock[at[u]] \in Nat
    BY <1>1, <2>1, NodeSets DEF LockInv, ThreadOK, AtOK, PointerTypes
  <2>4. lock'[at[u]] \in Nat /\ lock'[at[u]] >= lock[at[u]]
    BY <2>3, LockWords
  <2>5. lock[at[u]] = ver[u]
    BY <2>1, <2>2, <2>3, <2>4
  <2>6. Free(lock[at[u]]) /\ InRange(at[u], key(u)) /\ at[u] \in Linked /\ at[u] \in Live
    BY <2>2, <2>3, <2>5, FreeIsLinked, NodeSets
  <2>7. \A v \in Threads : ~Holds(v, at[u])
    BY <2>3, <2>6 DEF LockInv, ThreadOK, AtHeldOK, OtherHeldOK, Holds, Free
  <2>8. Owns(at[u], key(u))
    BY <2>6, <2>7 DEF Owns, InRange, Limit, Changing, Holds, AtHeld
  <2>9. store'[key(u)] = store[key(u)]
    BY <1>3, <1>5, <1>6, <2>6, <2>7, <2>8
  <2>10. leaf'[at[u]] = leaf[at[u]]
    BY <2>3, <2>7 DEF WritesItsNode
  <2> QED
    BY <1>5, <2>1, <2>5, <2>9, <2>10 DEF ReadHolds
<1> QED
  BY <1>7, <1>8

-----------------------------------------------------------------------------
(* What the leaves return.                                                 *)

(* Two leaves with the same records of a key return the same. *)
LEMMA LookupSame ==
    ASSUME NEW l \in LeafOf(Keys, Vals), NEW r \in LeafOf(Keys, Vals), Distinct(l), Distinct(r),
           NEW k, k \in KeysOf(l) <=> k \in KeysOf(r), \A v : Has(l, k, v) => Has(r, k, v)
    PROVE  LeafLookup(r, k) = LeafLookup(l, k)
<1>1. CASE k \in KeysOf(l)
  BY <1>1, LookupIs
<1>2. CASE k \notin KeysOf(l)
  BY <1>2, LookupIs
<1> QED
  BY <1>1, <1>2

(* The defects that lose a record, by the step that meets them. *)
LEMMA LossyMerge ==
    ASSUME NEW t \in Threads, pc[t] = "merge", LeafCanMerge(leaf[at[t]], leaf[leafNext[at[t]]]),
           Harm(t) \notin Lossy
    PROVE  buf[at[t]] = NoBuf /\ buf[next[at[t]]] = NoBuf
<1>1. Harm(t) # "unmerged" /\ Harm(t) # "denied"
  BY DEF Lossy
<1> QED
  BY <1>1, Zenon DEF Harm

(* A split that keeps every record puts no key beside an old record.       *)
LEMMA LossySplit ==
    ASSUME NEW t \in Threads, pc[t] = "split", Harm(t) \notin Lossy
    PROVE  \A k \in KeysIn(todo[t]) \cap KeysOf(leaf[at[t]]) : ~(k >= Median(leaf[at[t]]))
<1>1. Harm(t) # "shadowed"
  BY DEF Lossy
<1>2. ~ \E k \in {todo[t][i].key : i \in 1 .. Len(todo[t])} \cap KeysOf(leaf[at[t]]) :
            k >= Median(leaf[at[t]])
  BY <1>1, Zenon DEF Harm
<1> QED
  BY <1>2 DEF KeysIn

(* A reset that keeps every record clears only what the leaf has, too.     *)
LEMMA LossyReset ==
    ASSUME NEW t \in Threads, pc[t] = "resetBuffer", Harm(t) \notin Lossy
    PROVE  \A k \in DOMAIN buf[at[t]] : InRange(at[t], k) => LeafLookup(leaf[at[t]], k) = buf[at[t]][k]
<1>1. Harm(t) # "reset"
  BY DEF Lossy
<1> QED
  BY <1>1, Zenon DEF Harm

-----------------------------------------------------------------------------
(* The steps that write one node.                                          *)

(* A step that writes only the node of its thread keeps the contents, if    *)
(* that node has the map's values afterwards.                               *)
LEMMA OneNodeContents ==
    ASSUME LockInv, TypeInv, TileInv, ContentInv, harm = "none", NEW t \in Threads, OthersRest(t),
           UNCHANGED <<nodes, lkey, hkey, next, lock>>, pc[t] # "setHkey", pc'[t] # "setHkey",
           NEW n, n = at[t], \A m \in Node \ {n} : leaf'[m] = leaf[m] /\ buf'[m] = buf[m],
           \A k \in Keys : store'[k] # store[k] => pc[t] \in Writer /\ InRange(n, k),
           harm' \notin Lossy =>
               \A k \in Keys : n \in Live /\ Owns(n, k) => Held(n, k)' = store'[k]
    PROVE  Contents'
<1>1. \A m, k : Owns(m, k)' <=> Owns(m, k)
  <2>1. \A m : Changing(m, {"setHkey"})' <=> Changing(m, {"setHkey"})
    BY DEF Changing, OthersRest
  <2> QED
    BY <2>1 DEF Owns, Limit
<1>2. Live' = Live /\ Live \subseteq Node
  BY NodeSets DEF Live
<1>3. SUFFICES ASSUME harm' \notin Lossy, NEW m \in Live, NEW k \in Keys, Owns(m, k)
               PROVE  Held(m, k)' = store'[k]
  BY <1>1, <1>2 DEF Contents
<1>4. CASE m = n
  BY <1>3, <1>4
<1>5. CASE m # n
  <2>1. Held(m, k)' = Held(m, k)
    BY <1>2, <1>5 DEF Held
  <2>2. Held(m, k) = store[k]
    BY <1>3 DEF ContentInv, Contents, Lossy
  <2>3. store'[k] = store[k]
    <3>1. SUFFICES ASSUME store'[k] # store[k] PROVE FALSE
      OBVIOUS
    <3>2. pc[t] \in Writer /\ InRange(n, k)
      BY <3>1
    <3>3. pc[t] \in AtHeld \ ({"setHkey", "unlink"} \cup OffList)
      BY <3>2 DEF Writer, AtHeld, OffList
    <3> QED
      BY <1>3, <1>5, <3>2, <3>3, SoleOwner
  <2> QED
    BY <2>1, <2>2, <2>3
<1> QED
  BY <1>4, <1>5

(* insert into the write buffer. *)
LEMMA BufferContents ==
    ASSUME LockInv, TypeInv, SnapshotInv, NodeInv, TileInv, ContentInv, NEW t \in Threads,
           harm = "none", InsertToBuffer(t)
    PROVE  Contents' /\ WritesItsNode(t)
<1>a. PICK n, k, v : n = at[t] /\ k = key(t) /\ v = call[t].val
  OBVIOUS
<1>0. PointerTypes /\ ResultTypes /\ pc \in [Threads -> Pcs] /\ NodeTypes
  BY DEF LockInv, TypeInv, PointerTypes
<1>1. /\ pc[t] = "insertLocked" /\ pc'[t] = "unlock"
      /\ buf' = [buf EXCEPT ![n] = [j \in DOMAIN buf[n] \cup {k} |-> IF j = k THEN v ELSE buf[n][j]]]
      /\ store' = [store EXCEPT ![k] = v]
      /\ UNCHANGED <<nodes, lkey, hkey, next, lock, leaf>>
  BY <1>0, <1>a DEF InsertToBuffer, InsertTakesEffect, Goto, middle
<1>2. /\ n \in Node /\ n \in Live /\ Holds(t, n) /\ InRange(n, k) /\ k \in Keys
  BY <1>0, <1>a, <1>1, Here, NodeSets, CallKeys DEF AtHeld, SnapshotInv, Snapshot
<1>3. OthersRest(t)
  BY <1>0, OnlyItsLocals DEF Step
<1>4. /\ \A m \in Node \ {n} : buf'[m] = buf[m]
      /\ DOMAIN buf'[n] = DOMAIN buf[n] \cup {k} /\ buf'[n][k] = v
      /\ \A j \in DOMAIN buf[n] \ {k} : buf'[n][j] = buf[n][j]
  BY <1>0, <1>1, <1>2 DEF NodeTypes
<1>5. store'[k] = v /\ \A j \in Keys \ {k} : store'[j] = store[j]
  BY <1>0, <1>1, <1>2 DEF NodeTypes
<1>6. \A j \in Keys : Owns(n, j) => Held(n, j)' = store'[j]
  <2>1. \A j \in Keys : Owns(n, j) => Held(n, j) = store[j]
    BY <1>2 DEF ContentInv, Contents, Lossy
  <2> QED
    BY <1>1, <1>4, <1>5, <2>1 DEF Held
<1>7. Contents'
  BY <1>a, <1>1, <1>2, <1>3, <1>4, <1>5, <1>6, OneNodeContents DEF Writer
<1>8. WritesItsNode(t)
  BY <1>a, <1>1, <1>2, <1>4, <1>5, NodeSets DEF WritesItsNode, Writer
<1> QED
  BY <1>7, <1>8

(* insert into the leaf of a node without a buffer. *)
LEMMA LeafContents ==
    ASSUME LockInv, TypeInv, SnapshotInv, NodeInv, TileInv, ContentInv, NEW t \in Threads,
           harm = "none", InsertToLeaf(t)
    PROVE  Contents' /\ WritesItsNode(t)
<1>a. PICK n, k, v : n = at[t] /\ k = key(t) /\ v = call[t].val
  OBVIOUS
<1>0. PointerTypes /\ ResultTypes /\ pc \in [Threads -> Pcs] /\ NodeTypes
  BY DEF LockInv, TypeInv, PointerTypes
<1>1. /\ pc[t] = "insertLocked" /\ pc'[t] = "unlock"
      /\ ~Buffered(n) /\ LeafCanInsert(leaf[n], k)
      /\ leaf' = [leaf EXCEPT ![n] = LeafInsert(leaf[n], k, v)]
      /\ store' = [store EXCEPT ![k] = v]
      /\ UNCHANGED <<nodes, lkey, hkey, next, lock, buf>>
  BY <1>0, <1>a DEF InsertToLeaf, InsertTakesEffect, Goto, middle
<1>2. /\ n \in Node /\ n \in Live /\ Holds(t, n) /\ InRange(n, k) /\ k \in Keys /\ v \in Vals
      /\ leaf[n] \in LeafOf(Keys, Vals) /\ Distinct(leaf[n])
  BY <1>0, <1>a, <1>1, Here, NodeSets, RecordIs DEF AtHeld, SnapshotInv, Snapshot, TypeInv, Doing
<1>3. OthersRest(t)
  BY <1>0, OnlyItsLocals DEF Step
<1>4. leaf'[n] = LeafInsert(leaf[n], k, v) /\ \A m \in Node \ {n} : leaf'[m] = leaf[m]
  BY <1>0, <1>1, <1>2 DEF NodeTypes
<1>5. store'[k] = v /\ \A j \in Keys \ {k} : store'[j] = store[j]
  BY <1>0, <1>1, <1>2 DEF NodeTypes
<1>6. /\ leaf'[n] \in LeafOf(Keys, Vals) /\ Distinct(leaf'[n])
      /\ KeysOf(leaf'[n]) = KeysOf(leaf[n]) \cup {k}
      /\ \A j, w : Has(leaf'[n], j, w) <=> IF j = k THEN w = v ELSE Has(leaf[n], j, w)
  BY <1>1, <1>2, <1>4, LeafInsertIs
<1>7. buf[n] = NoBuf /\ buf'[n] = NoBuf /\ DOMAIN NoBuf = {}
  BY <1>1, <1>2, NoBufIs DEF NodeInv, BuffersClean
<1>8. \A j \in Keys : Owns(n, j) => Held(n, j)' = store'[j]
  <2>1. \A j \in Keys : Owns(n, j) => LeafLookup(leaf[n], j) = store[j]
    BY <1>2, <1>7 DEF ContentInv, Contents, Lossy, Held
  <2>2. LeafLookup(leaf'[n], k) = v
    BY <1>6, LookupIs
  <2>3. \A j \in Keys \ {k} : LeafLookup(leaf'[n], j) = LeafLookup(leaf[n], j)
    BY <1>2, <1>6, LookupSame
  <2> QED
    BY <1>5, <1>7, <2>1, <2>2, <2>3 DEF Held
<1>9. Contents'
  BY <1>a, <1>1, <1>2, <1>3, <1>4, <1>5, <1>8, OneNodeContents DEF Writer
<1>10. WritesItsNode(t)
  BY <1>a, <1>1, <1>2, <1>4, <1>5, NodeSets DEF WritesItsNode, Writer
<1> QED
  BY <1>9, <1>10

(* The flush: the leaf takes the buffer's records, and the new one. *)
LEMMA FlushContents ==
    ASSUME LockInv, TypeInv, SnapshotInv, NodeInv, TileInv, ContentInv, NEW t \in Threads,
           harm = "none", FlushMLNodeBuffer(t)
    PROVE  Contents' /\ WritesItsNode(t)
<1>a. PICK n, k, v, recs : n = at[t] /\ k = key(t) /\ v = call[t].val /\ recs = ToMerge(t)
  OBVIOUS
<1>0. PointerTypes /\ ResultTypes /\ pc \in [Threads -> Pcs] /\ NodeTypes
  BY DEF LockInv, TypeInv, PointerTypes
<1>1. /\ MustFlush(t) /\ FitsLeaf(n) /\ pc'[t] \in {"unlock", "scanUnlock"}
      /\ leaf' = [leaf EXCEPT ![n] = InsertBatch(leaf[n], recs)] /\ buf' = [buf EXCEPT ![n] = NoBuf]
      /\ UNCHANGED <<nodes, lkey, hkey, next, lock>>
      /\ call[t].name = "insert" => store' = [store EXCEPT ![k] = v]
      /\ call[t].name # "insert" => UNCHANGED store
  BY <1>0, <1>a DEF FlushMLNodeBuffer, InsertTakesEffect, middle
<1>2. pc[t] \in {"insertLocked", "scanFlush"} /\ (call[t].name = "insert" <=> pc[t] = "insertLocked")
  BY <1>1 DEF MustFlush, TypeInv, Doing
<1>3. /\ n \in Node /\ n \in Live /\ Holds(t, n)
      /\ leaf[n] \in LeafOf(Keys, Vals) /\ Distinct(leaf[n]) /\ Count(leaf[n]) \in Nat
  BY <1>a, <1>2, Here, NodeSets DEF AtHeld
<1>4. call[t].name = "insert" => InRange(n, k) /\ k \in Keys /\ v \in Vals
  BY <1>0, <1>a, <1>2, RecordIs DEF SnapshotInv, Snapshot
<1>5. OthersRest(t)
  BY <1>0, OnlyItsLocals DEF Step
<1>6. /\ recs \in Seq(RecOf(Keys, Vals)) /\ DistinctRecs(recs)
      /\ Len(recs) <= Cardinality(DOMAIN buf[n]) + 1
      /\ call[t].name = "insert" =>
            /\ k \notin DOMAIN buf[n] /\ KeysIn(recs) = DOMAIN buf[n] \cup {k}
            /\ \A j, w : InRecs(recs, j, w) <=> (j \in DOMAIN buf[n] /\ w = buf[n][j]) \/ (j = k /\ w = v)
      /\ call[t].name # "insert" =>
            /\ KeysIn(recs) = DOMAIN buf[n]
            /\ \A j, w : InRecs(recs, j, w) <=> j \in DOMAIN buf[n] /\ w = buf[n][j]
  BY <1>a, <1>1, ToMergeIs
<1>7. Count(leaf[n]) + Len(recs) <= LeafCapacity
  <2>1. Cardinality(DOMAIN buf[n]) + Count(leaf[n]) <= LeafCapacity - 1
    BY <1>1 DEF FitsLeaf
  <2>2. Cardinality(DOMAIN buf[n]) \in Nat /\ Len(recs) \in Nat
    BY <1>0, <1>3, <1>6, KeysAre DEF NodeTypes, IsBuffer
  <2> QED
    BY <1>3, <1>6, <2>1, <2>2, LeafCapacityAssumption
<1>8. /\ leaf'[n] = InsertBatch(leaf[n], recs) /\ buf'[n] = NoBuf /\ DOMAIN NoBuf = {}
      /\ \A m \in Node \ {n} : leaf'[m] = leaf[m] /\ buf'[m] = buf[m]
  BY <1>0, <1>1, <1>3, NoBufIs DEF NodeTypes
<1>9. /\ leaf'[n] \in LeafOf(Keys, Vals) /\ Distinct(leaf'[n])
      /\ KeysOf(leaf'[n]) = KeysOf(leaf[n]) \cup KeysIn(recs)
      /\ \A j, w : Has(leaf'[n], j, w) <=> InRecs(recs, j, w) \/ (j \notin KeysIn(recs) /\ Has(leaf[n], j, w))
  BY <1>3, <1>6, <1>7, <1>8, InsertBatchIs
<1>10. \A j \in Keys : store'[j] # store[j] => pc[t] \in Writer /\ InRange(n, j)
  BY <1>0, <1>1, <1>2, <1>4 DEF NodeTypes, Writer
<1>11. ASSUME NEW j \in Keys, Owns(n, j) PROVE Held(n, j)' = store'[j]
  <2>1. Held(n, j)' = LeafLookup(leaf'[n], j)
    BY <1>8 DEF Held
  <2>2. Held(n, j) = store[j]
    BY <1>3, <1>11 DEF ContentInv, Contents, Lossy
  <2>3. CASE call[t].name = "insert" /\ j = k
    <3>1. LeafLookup(leaf'[n], k) = v
      BY <1>6, <1>9, <2>3, LookupIs
    <3>2. store'[k] = v
      BY <1>0, <1>1, <1>4, <2>3 DEF NodeTypes
    <3> QED
      BY <2>1, <2>3, <3>1, <3>2
  <2>4. CASE ~(call[t].name = "insert" /\ j = k)
    <3>1. store'[j] = store[j]
      BY <1>0, <1>1, <1>4, <2>4 DEF NodeTypes
    <3>2. CASE j \in DOMAIN buf[n]
      <4>1. Has(leaf'[n], j, buf[n][j])
        BY <1>6, <1>9, <3>2
      <4> QED
        BY <1>9, <2>1, <2>2, <3>1, <3>2, <4>1, LookupIs DEF Held
    <3>3. CASE j \notin DOMAIN buf[n]
      <4>1. j \notin KeysIn(recs)
        BY <1>6, <2>4, <3>3
      <4>2. LeafLookup(leaf'[n], j) = LeafLookup(leaf[n], j)
        BY <1>3, <1>9, <4>1, LookupSame
      <4> QED
        BY <2>1, <2>2, <3>1, <3>3, <4>2 DEF Held
    <3> QED
      BY <3>2, <3>3
  <2> QED
    BY <2>3, <2>4
<1>12. Contents'
  <2>1. pc[t] # "setHkey" /\ pc'[t] # "setHkey"
    BY <1>1, <1>2
  <2> QED
    BY <1>a, <1>1, <1>5, <1>8, <1>10, <1>11, <2>1, OneNodeContents
<1>13. WritesItsNode(t)
  BY <1>a, <1>3, <1>8, <1>10, NodeSets DEF WritesItsNode
<1> QED
  BY <1>12, <1>13

(* A node owns only keys of its range. *)
LEMMA OwnsInRange ==
    ASSUME LockInv, TypeInv, TileInv, NEW n \in Live, NEW k \in Keys, Owns(n, k)
    PROVE  InRange(n, k)
<1>1. n \in Node /\ k \in Nat /\ lkey[n] \in Nat /\ hkey[n] \in Nat
  BY NodeSets, KeysAre DEF TypeInv, NodeTypes
<1>2. CASE Changing(n, {"setHkey"})
  <2>1. n \in Inner
    BY <1>2, HeldNodes DEF Changing, AtHeld, Inner
  <2>2. lkey[next[n]] <= hkey[n] /\ next[n] \in Node
    BY <2>1, NodeSets DEF TileInv, Tiled, LockInv, ListOK, Inner
  <2>3. lkey[next[n]] \in Nat
    BY <2>2 DEF TypeInv, NodeTypes
  <2> QED
    BY <1>1, <1>2, <2>2, <2>3 DEF Owns, Limit, InRange
<1>3. CASE ~Changing(n, {"setHkey"})
  BY <1>3 DEF Owns, Limit, InRange
<1> QED
  BY <1>2, <1>3

(* The late reset of the buffer after a split. *)
LEMMA ResetContents ==
    ASSUME LockInv, TypeInv, NodeInv, TileInv, ContentInv, NEW t \in Threads,
           harm = "none", harm' = Harm(t), ResetBuffer(t)
    PROVE  Contents' /\ WritesItsNode(t)
<1>a. PICK n : n = at[t]
  OBVIOUS
<1>0. PointerTypes /\ ResultTypes /\ pc \in [Threads -> Pcs] /\ NodeTypes
  BY DEF LockInv, TypeInv, PointerTypes
<1>1. /\ pc[t] = "resetBuffer" /\ pc'[t] \in {"return", "seek"}
      /\ buf' = buf \/ buf' = [buf EXCEPT ![n] = NoBuf]
      /\ UNCHANGED <<nodes, lkey, hkey, next, lock, leaf, store>>
  BY <1>0, <1>a DEF ResetBuffer, Retry, middle
<1>2. n \in Node
  BY <1>a, <1>1, NodeSets DEF LockInv, ThreadOK, AtOK
<1>3. OthersRest(t)
  BY <1>0, OnlyItsLocals DEF Step
<1>4. /\ buf'[n] = NoBuf \/ buf'[n] = buf[n]
      /\ \A m \in Node \ {n} : buf'[m] = buf[m]
      /\ DOMAIN NoBuf = {}
  BY <1>0, <1>1, <1>2, NoBufIs DEF NodeTypes
<1>5. ASSUME harm' \notin Lossy, NEW k \in Keys, n \in Live, Owns(n, k)
      PROVE  Held(n, k)' = store'[k]
  <2>1. Held(n, k) = store[k]
    BY <1>5 DEF ContentInv, Contents, Lossy
  <2>2. InRange(n, k)
    BY <1>5, OwnsInRange
  <2>3. \A j \in DOMAIN buf[n] : InRange(n, j) => LeafLookup(leaf[n], j) = buf[n][j]
    BY <1>a, <1>1, <1>5, LossyReset
  <2> QED
    BY <1>1, <1>4, <2>1, <2>2, <2>3 DEF Held
<1>6. Contents'
  <2>1. pc[t] # "setHkey" /\ pc'[t] # "setHkey"
    BY <1>1
  <2>2. \A m \in Node \ {n} : leaf'[m] = leaf[m] /\ buf'[m] = buf[m]
    BY <1>1, <1>4
  <2> QED
    BY <1>a, <1>1, <1>3, <1>5, <2>1, <2>2, OneNodeContents
<1>7. WritesItsNode(t)
  BY <1>1, <1>4, NodeSets DEF WritesItsNode
<1> QED
  BY <1>6, <1>7

(* remove, from the buffer and from the leaf: what it returns is what the   *)
(* map held.                                                                *)
LEMMA RemoveContents ==
    ASSUME LockInv, TypeInv, SnapshotInv, NodeInv, TileInv, ContentInv, NEW t \in Threads,
           harm = "none", RemoveLocked(t)
    PROVE  /\ Contents' /\ WritesItsNode(t)
           /\ res' = [res EXCEPT ![t] = IF store[key(t)] = NoVal THEN 0 ELSE 1]
<1>a. PICK n, k : n = at[t] /\ k = key(t)
  OBVIOUS
<1>0. PointerTypes /\ ResultTypes /\ pc \in [Threads -> Pcs] /\ NodeTypes
  BY DEF LockInv, TypeInv, PointerTypes
<1>1. /\ pc[t] = "removeLocked" /\ pc'[t] = "mergeCheck"
      /\ leaf' = [leaf EXCEPT ![n] = LeafRemove(leaf[n], k)]
      /\ Buffered(n) => buf' = [buf EXCEPT ![n] = [j \in DOMAIN buf[n] \ {k} |-> buf[n][j]]]
      /\ ~Buffered(n) => buf' = buf
      /\ store' = [store EXCEPT ![k] = NoVal]
      /\ UNCHANGED <<nodes, lkey, hkey, next, lock>>
  BY <1>0, <1>a DEF RemoveLocked, Goto, middle
<1>2. /\ n \in Node /\ n \in Live /\ Holds(t, n) /\ InRange(n, k) /\ k \in Keys /\ Owns(n, k)
      /\ leaf[n] \in LeafOf(Keys, Vals) /\ Distinct(leaf[n])
  BY <1>0, <1>a, <1>1, Here, NodeSets, CallKeys DEF AtHeld, SnapshotInv, Snapshot
<1>3. OthersRest(t)
  BY <1>0, OnlyItsLocals DEF Step
<1>4. leaf'[n] = LeafRemove(leaf[n], k) /\ \A m \in Node \ {n} : leaf'[m] = leaf[m]
  BY <1>0, <1>1, <1>2 DEF NodeTypes
<1>5. /\ \A m \in Node \ {n} : buf'[m] = buf[m]
      /\ DOMAIN buf'[n] = DOMAIN buf[n] \ {k}
      /\ \A j \in DOMAIN buf'[n] : buf'[n][j] = buf[n][j]
      /\ ~Buffered(n) => DOMAIN buf[n] = {}
  <2>1. CASE Buffered(n)
    BY <1>0, <1>1, <1>2, <2>1 DEF NodeTypes
  <2>2. CASE ~Buffered(n)
    BY <1>1, <1>2, <2>2, NoBufIs DEF NodeInv, BuffersClean
  <2> QED
    BY <2>1, <2>2
<1>6. store'[k] = NoVal /\ \A j \in Keys \ {k} : store'[j] = store[j]
  BY <1>0, <1>1, <1>2 DEF NodeTypes
<1>7. /\ leaf'[n] \in LeafOf(Keys, Vals) /\ Distinct(leaf'[n])
      /\ KeysOf(leaf'[n]) = KeysOf(leaf[n]) \ {k}
      /\ \A j, w : Has(leaf'[n], j, w) <=> j # k /\ Has(leaf[n], j, w)
  BY <1>2, <1>4, LeafRemoveIs
<1>8. \A j \in Keys : Owns(n, j) => Held(n, j) = store[j]
  BY <1>2 DEF ContentInv, Contents, Lossy
<1>9. \A j \in Keys : Owns(n, j) => Held(n, j)' = store'[j]
  <2>1. LeafLookup(leaf'[n], k) = NoVal
    BY <1>7, LookupIs
  <2>2. \A j \in Keys \ {k} : LeafLookup(leaf'[n], j) = LeafLookup(leaf[n], j)
    BY <1>2, <1>7, LookupSame
  <2>3. ASSUME NEW j \in Keys, j # k, Owns(n, j) PROVE Held(n, j)' = store'[j]
    <3>1. LeafLookup(leaf'[n], j) = LeafLookup(leaf[n], j) /\ store'[j] = store[j] /\ Held(n, j) = store[j]
      BY <1>6, <1>8, <2>2, <2>3
    <3> QED
      BY <1>5, <2>3, <3>1 DEF Held
  <2>4. Held(n, k)' = store'[k]
    BY <1>5, <1>6, <2>1 DEF Held
  <2> QED
    BY <2>3, <2>4
<1>10. Contents'
  BY <1>a, <1>1, <1>2, <1>3, <1>4, <1>5, <1>6, <1>9, OneNodeContents DEF Writer
<1>11. WritesItsNode(t)
  BY <1>a, <1>1, <1>2, <1>4, <1>5, <1>6, NodeSets DEF WritesItsNode, Writer
<1>12. res' = [res EXCEPT ![t] = IF store[key(t)] = NoVal THEN 0 ELSE 1]
  <2>1. res' = [res EXCEPT ![t] = IF (Buffered(n) /\ k \in DOMAIN buf[n]) \/ Match(leaf[n], k) # {}
                                  THEN 1 ELSE 0]
    BY <1>a DEF RemoveLocked, Effect
  <2>2. ((Buffered(n) /\ k \in DOMAIN buf[n]) \/ Match(leaf[n], k) # {}) <=> store[k] # NoVal
    <3>1. CASE k \in DOMAIN buf[n]
      <4>1. buf[n][k] \in Vals
        BY <1>0, <1>2, <3>1 DEF NodeTypes, IsBuffer
      <4> QED
        BY <1>2, <1>5, <1>8, <3>1, <4>1, KeysAre DEF Held
    <3>2. CASE k \notin DOMAIN buf[n]
      <4>1. LeafLookup(leaf[n], k) = store[k]
        BY <1>2, <1>8, <3>2 DEF Held
      <4>2. Match(leaf[n], k) # {} <=> LeafLookup(leaf[n], k) # NoVal
        BY <1>2, LookupIs, KeysAre
      <4> QED
        BY <3>2, <4>1, <4>2
    <3> QED
      BY <3>1, <3>2
  <2> QED
    BY <1>a, <2>1, <2>2
<1> QED
  BY <1>10, <1>11, <1>12

-----------------------------------------------------------------------------
(* The steps that change ranges.                                           *)

(* Who owns a key after a split. *)
LEMMA SplitOwners ==
    ASSUME LockInv, TypeInv, RangeInv, NodeInv, NEW t \in Threads, harm = "none", Split(t),
           NEW n, NEW new, NEW M, n = at[t], new = nodes + 1, M = Median(leaf[n])
    PROVE  /\ \A k : Owns(n, k)' <=> lkey[n] <= k /\ k < M
           /\ \A k : Owns(new, k)' <=> M <= k /\ k < hkey[n]
           /\ \A m \in Live \ {n} : \A k : Owns(m, k)' <=> Owns(m, k)
<1>1. /\ n \in Node /\ new \in Node /\ new \notin Allocated /\ new # n
      /\ lkey'[new] = M /\ hkey'[new] = hkey[n] /\ next'[n] = new
      /\ \A m \in Node \ {new} : lkey'[m] = lkey[m] /\ hkey'[m] = hkey[m]
      /\ \A m \in Node \ {n, new} : next'[m] = next[m]
      /\ at' = at /\ pc[t] = "split" /\ pc'[t] = "setHkey"
  BY SplitData
<1>2. OthersRest(t)
  <2>1. PointerTypes /\ ResultTypes
    BY DEF LockInv, TypeInv
  <2> QED
    BY <2>1, OnlyItsLocals DEF Step
<1>3. /\ \A u \in Threads : pc[u] = "setHkey" => at[u] \in Linked \ {DummyTail}
      /\ Live \subseteq Allocated /\ Live \subseteq Node /\ Linked \subseteq Node /\ Linked \subseteq Allocated
  BY HeldNodes, NodeSets DEF AtHeld
<1>4. \A m : m # n => (Changing(m, {"setHkey"})' <=> Changing(m, {"setHkey"}))
  BY <1>1, <1>2 DEF Changing, OthersRest
<1>5. Changing(n, {"setHkey"})' /\ ~Changing(new, {"setHkey"})'
  <2>1. ~Changing(new, {"setHkey"})
    BY <1>1, <1>3 DEF Changing
  <2> QED
    BY <1>1, <1>4, <2>1 DEF Changing
<1>6. \A k : Owns(n, k)' <=> lkey[n] <= k /\ k < M
  BY <1>1, <1>5 DEF Owns, Limit
<1>7. \A k : Owns(new, k)' <=> M <= k /\ k < hkey[n]
  BY <1>1, <1>5 DEF Owns, Limit
<1>8. ASSUME NEW m \in Live \ {n} PROVE \A k : Owns(m, k)' <=> Owns(m, k)
  <2>1. m \in Node \ {n, new}
    BY <1>1, <1>3
  <2>2. Changing(m, {"setHkey"}) => next[m] \in Node \ {new}
    BY <1>1, <1>3 DEF Changing, LockInv, ListOK
  <2>3. lkey'[m] = lkey[m] /\ hkey'[m] = hkey[m] /\ next'[m] = next[m]
    BY <1>1, <2>1
  <2>4. Changing(m, {"setHkey"}) => lkey'[next'[m]] = lkey[next[m]]
    BY <1>1, <2>2, <2>3
  <2>5. Limit(m)' = Limit(m)
    BY <1>4, <2>1, <2>3, <2>4 DEF Limit
  <2> QED
    BY <2>3, <2>5 DEF Owns
<1> QED
  BY <1>6, <1>7, <1>8

(* A split moves no record away from the node that owns its key. *)
LEMMA SplitContents ==
    ASSUME LockInv, TypeInv, RangeInv, NodeInv, TileInv, ContentInv, NEW t \in Threads,
           harm = "none", harm' = Harm(t), Split(t)
    PROVE  Contents' /\ WritesItsNode(t)
<1>a. PICK n, new, M, recs : n = at[t] /\ new = nodes + 1 /\ M = Median(leaf[n]) /\ recs = todo[t]
  OBVIOUS
<1>0. PointerTypes /\ ResultTypes /\ NodeTypes
  BY DEF LockInv, TypeInv
<1>1. /\ n \in Node /\ n \in Live /\ Holds(t, n)
      /\ new \in Node /\ new \notin Allocated /\ new # n
      /\ M \in Nat /\ lkey[n] < M /\ M < hkey[n]
      /\ Live' = Live \cup {new}
      /\ leaf'[n] = SplitLeft(leaf[n], recs) /\ leaf'[new] = SplitRight(leaf[n], recs)
      /\ \A m \in Node \ {n, new} : leaf'[m] = leaf[m]
      /\ buf' = buf /\ pc[t] = "split"
  BY <1>a, SplitData
<1>2. /\ \A k : Owns(n, k)' <=> lkey[n] <= k /\ k < M
      /\ \A k : Owns(new, k)' <=> M <= k /\ k < hkey[n]
      /\ \A m \in Live \ {n} : \A k : Owns(m, k)' <=> Owns(m, k)
  BY <1>a, SplitOwners
<1>3. /\ leaf[n] \in LeafOf(Keys, Vals) /\ Distinct(leaf[n]) /\ \A k : Owns(n, k) <=> InRange(n, k)
  BY <1>a, <1>1, Here DEF AtHeld
<1>4. /\ \A k \in KeysIn(recs) : InRange(n, k)
      /\ DOMAIN buf[n] \subseteq KeysIn(recs)
      /\ \A k, v : InRecs(recs, k, v) => v = IF OwnRecord(t, k) THEN call[t].val ELSE store[k]
      /\ call[t].name = "insert" => key(t) \in KeysIn(recs) /\ key(t) \notin DOMAIN buf[n]
  BY <1>a, <1>1 DEF NodeInv, BatchOK, ContentInv, BatchHolds
<1>5. \A k \in KeysIn(recs) : \E v : InRecs(recs, k, v)
  BY DEF KeysIn, InRecs
<1>6. \A k \in Keys : store'[k] = IF OwnRecord(t, k) THEN call[t].val ELSE store[k]
  <2>1. IF call[t].name = "insert" THEN store' = [store EXCEPT ![key(t)] = call[t].val] ELSE store' = store
    BY DEF Split, InsertTakesEffect
  <2> QED
    BY <1>0, <2>1 DEF OwnRecord, NodeTypes
<1>7. \A k \in Keys : store'[k] # store[k] => pc[t] \in Writer /\ InRange(n, k)
  BY <1>1, <1>4, <1>6 DEF Writer, OwnRecord
<1>8. \A k \in Keys : Owns(n, k) => Held(n, k) = store[k]
  BY <1>1 DEF ContentInv, Contents, Lossy
<1>9. /\ leaf'[n] \in LeafOf(Keys, Vals) /\ Distinct(leaf'[n]) /\ leaf'[new] \in LeafOf(Keys, Vals)
      /\ (\A k \in KeysOf(leaf[n]) \cap KeysIn(recs) : k < M) => Distinct(leaf'[new])
      /\ \A k : k \in KeysOf(leaf'[n]) <=> k \in KeysOf(leaf[n]) \cup KeysIn(recs) /\ k < M
      /\ \A k : k \in KeysOf(leaf'[new]) <=> k \in KeysOf(leaf[n]) \cup KeysIn(recs) /\ k >= M
      /\ \A k, v : Has(leaf'[n], k, v) <=>
            /\ k < M
            /\ InRecs(recs, k, v) \/ (k \notin KeysIn(recs) /\ Has(leaf[n], k, v))
      /\ \A k, v : Has(leaf'[new], k, v) <=> k >= M /\ (InRecs(recs, k, v) \/ Has(leaf[n], k, v))
  <2>1. PICK old, l, r : /\ old = leaf[n] /\ l = SplitLeft(old, recs) /\ r = SplitRight(old, recs)
    OBVIOUS
  <2>2. /\ l \in LeafOf(Keys, Vals) /\ Distinct(l) /\ r \in LeafOf(Keys, Vals)
        /\ (\A k \in KeysOf(old) \cap KeysIn(recs) : k < M) => Distinct(r)
        /\ \A k : k \in KeysOf(l) <=> k \in KeysOf(old) \cup KeysIn(recs) /\ k < M
        /\ \A k : k \in KeysOf(r) <=> k \in KeysOf(old) \cup KeysIn(recs) /\ k >= M
    BY <1>a, <1>1, <2>1, SplitLeaves
  <2>3. /\ \A k, v : Has(l, k, v) <=>
              /\ k < M
              /\ InRecs(recs, k, v) \/ (k \notin KeysIn(recs) /\ Has(old, k, v))
        /\ \A k, v : Has(r, k, v) <=> k >= M /\ (InRecs(recs, k, v) \/ Has(old, k, v))
    BY <1>a, <1>1, <2>1, SplitLeaves
  <2>4. leaf'[n] = l /\ leaf'[new] = r /\ old = leaf[n]
    BY <1>1, <2>1
  <2> QED
    BY <2>2, <2>3, <2>4
<1>10. ASSUME NEW k \in Keys, Owns(n, k)' PROVE Held(n, k)' = store'[k]
  <2>1. k \in Nat /\ hkey[n] \in Nat /\ lkey[n] <= k /\ k < M
    BY <1>0, <1>1, <1>2, <1>10, KeysAre DEF NodeTypes
  <2>2. Owns(n, k) /\ Held(n, k) = store[k]
    BY <1>1, <1>3, <1>8, <2>1 DEF InRange
  <2>3. CASE k \in DOMAIN buf[n]
    <3>1. ~OwnRecord(t, k)
      BY <1>4, <2>3 DEF OwnRecord
    <3> QED
      BY <1>1, <1>6, <2>2, <2>3, <3>1 DEF Held
  <2>4. CASE k \notin DOMAIN buf[n] /\ k \in KeysIn(recs)
    <3>1. PICK v : InRecs(recs, k, v)
      BY <1>5, <2>4
    <3>2. LeafLookup(leaf'[n], k) = v
      BY <1>9, <2>1, <3>1, LookupIs
    <3> QED
      BY <1>1, <1>4, <1>6, <2>4, <3>1, <3>2 DEF Held
  <2>5. CASE k \notin KeysIn(recs)
    <3>1. LeafLookup(leaf'[n], k) = LeafLookup(leaf[n], k)
      BY <1>3, <1>9, <2>1, <2>5, LookupSame
    <3>2. ~OwnRecord(t, k) /\ k \notin DOMAIN buf[n]
      BY <1>4, <2>5 DEF OwnRecord
    <3> QED
      BY <1>1, <1>6, <2>2, <3>1, <3>2 DEF Held
  <2> QED
    BY <2>3, <2>4, <2>5
<1>11. ASSUME harm' \notin Lossy, NEW k \in Keys, Owns(new, k)' PROVE Held(new, k)' = store'[k]
  <2>1. k \in Nat /\ lkey[n] \in Nat /\ M <= k /\ k < hkey[n]
    BY <1>0, <1>1, <1>2, <1>11, KeysAre DEF NodeTypes
  <2>2. Owns(n, k) /\ Held(n, k) = store[k]
    BY <1>1, <1>3, <1>8, <2>1 DEF InRange
  <2>3. Held(new, k)' = LeafLookup(leaf'[new], k)
    BY <1>1, NoBufIs DEF Held, NodeInv, BuffersClean
  <2>4. Distinct(leaf'[new])
    <3>1. \A j \in KeysOf(leaf[n]) \cap KeysIn(recs) : ~(j >= M)
      BY <1>a, <1>1, <1>11, LossySplit
    <3>2. \A j \in KeysOf(leaf[n]) : j \in Nat
      <4>1. \A i \in ValidBitSet(leaf[n]) : leaf[n][i] \in RecOf(Keys, Vals)
        BY <1>3, LeafSets
      <4>2. \A x \in RecOf(Keys, Vals) : x.key \in Nat
        BY KeysAre DEF RecOf
      <4> QED
        BY <4>1, <4>2 DEF KeysOf
    <3>3. \A j \in KeysOf(leaf[n]) \cap KeysIn(recs) : j < M
      BY <1>1, <3>1, <3>2
    <3> QED
      BY <1>9, <3>3
  <2>5. CASE k \in KeysIn(recs)
    <3>1. PICK v : InRecs(recs, k, v)
      BY <1>5, <2>5
    <3>2. LeafLookup(leaf'[new], k) = v
      BY <1>1, <1>9, <2>1, <2>4, <3>1, LookupIs
    <3> QED
      BY <1>4, <1>6, <2>3, <3>1, <3>2
  <2>6. CASE k \notin KeysIn(recs)
    <3>1. LeafLookup(leaf'[new], k) = LeafLookup(leaf[n], k)
      <4>1. /\ k \in KeysOf(leaf[n]) <=> k \in KeysOf(leaf'[new])
            /\ \A v : Has(leaf[n], k, v) => Has(leaf'[new], k, v)
        BY <1>1, <1>9, <2>1, <2>6
      <4> QED
        BY <1>3, <1>9, <2>4, <4>1, LookupSame
    <3>2. ~OwnRecord(t, k) /\ k \notin DOMAIN buf[n]
      BY <1>4, <2>6 DEF OwnRecord
    <3> QED
      BY <1>6, <2>2, <2>3, <3>1, <3>2 DEF Held
  <2> QED
    BY <2>5, <2>6
<1>12. ASSUME NEW m \in Live \ {n}, NEW k \in Keys, Owns(m, k)' PROVE Held(m, k)' = store'[k]
  <2>1. m \in Node \ {n, new} /\ Owns(m, k)
    BY <1>1, <1>2, <1>12, NodeSets
  <2>2. Held(m, k)' = Held(m, k) /\ Held(m, k) = store[k]
    BY <1>1, <2>1 DEF Held, ContentInv, Contents, Lossy
  <2>3. store'[k] = store[k]
    <3>1. SUFFICES ASSUME store'[k] # store[k] PROVE FALSE
      OBVIOUS
    <3>2. InRange(n, k) /\ pc[t] \in AtHeld \ ({"setHkey", "unlink"} \cup OffList)
      BY <1>1, <1>7, <3>1 DEF AtHeld, OffList
    <3> QED
      BY <1>a, <1>12, <2>1, <3>2, SoleOwner
  <2> QED
    BY <2>2, <2>3
<1>13. Contents'
  BY <1>1, <1>10, <1>11, <1>12 DEF Contents
<1>14. WritesItsNode(t)
  <2>1. Allocated \subseteq Node
    BY NodeSets
  <2>2. \A m \in Allocated : Holds(t, m) \/ leaf'[m] = leaf[m]
    BY <1>1, <2>1
  <2> QED
    BY <1>a, <1>1, <1>7, <2>2 DEF WritesItsNode
<1> QED
  BY <1>13, <1>14

(* A step that changes neither the ownership of keys nor a record. *)
LEMMA SameContents ==
    ASSUME ContentInv, harm = "none", UNCHANGED <<leaf, buf, store>>, Live' \subseteq Live,
           \A m \in Live, k \in Keys : Owns(m, k)' => Owns(m, k), NEW t \in Threads
    PROVE  Contents' /\ WritesItsNode(t)
BY DEF ContentInv, Contents, Lossy, Held, WritesItsNode

(* SetHkey makes the range what the split has made it responsible for. *)
LEMMA SetHkeyContents ==
    ASSUME LockInv, TypeInv, ContentInv, NEW t \in Threads, harm = "none", SetHkey(t)
    PROVE  Contents' /\ WritesItsNode(t)
<1>a. PICK n : n = at[t]
  OBVIOUS
<1>0. PointerTypes /\ ResultTypes /\ pc \in [Threads -> Pcs] /\ NodeTypes
  BY DEF LockInv, TypeInv, PointerTypes
<1>1. /\ pc[t] = "setHkey" /\ pc'[t] = "topInsert"
      /\ hkey' = [hkey EXCEPT ![n] = lkey[next[n]]]
      /\ UNCHANGED <<nodes, lkey, next, lock, leaf, buf, store, at>>
  BY <1>0, <1>a DEF SetHkey, Goto, content, locals
<1>2. n \in Node /\ Holds(t, n)
  BY <1>a, <1>1, HeldNodes DEF AtHeld
<1>3. OthersRest(t)
  BY <1>0, OnlyItsLocals DEF Step
<1>4. hkey'[n] = lkey[next[n]] /\ \A m \in Node \ {n} : hkey'[m] = hkey[m]
  BY <1>0, <1>1, <1>2 DEF NodeTypes
<1>5. Live' = Live /\ Live \subseteq Node
  BY <1>1, NodeSets DEF Live
<1>6. ASSUME NEW m \in Node PROVE \A k : Owns(m, k)' <=> Owns(m, k)
  <2>1. CASE m = n
    <3>1. \A u \in Threads : pc[u] = "setHkey" /\ at[u] = n => u = t
      BY <1>2 DEF LockInv, Exclusive, Holds, AtHeld
    <3>2. Changing(n, {"setHkey"}) /\ ~Changing(n, {"setHkey"})'
      BY <1>a, <1>1, <1>3, <3>1 DEF Changing, OthersRest
    <3> QED
      BY <1>1, <1>4, <2>1, <3>2 DEF Owns, Limit
  <2>2. CASE m # n
    <3>1. Changing(m, {"setHkey"})' <=> Changing(m, {"setHkey"})
      BY <1>a, <1>1, <1>3, <2>2 DEF Changing, OthersRest
    <3> QED
      BY <1>1, <1>4, <2>2, <3>1 DEF Owns, Limit
  <2> QED
    BY <2>1, <2>2
<1> QED
  BY <1>1, <1>5, <1>6, SameContents

(* A merge gives the node the records of the keys that it gives it. *)
LEMMA MergeContents ==
    ASSUME LockInv, TypeInv, RangeInv, NodeInv, TileInv, ContentInv, NEW t \in Threads,
           harm = "none", harm' = Harm(t), Merge(t)
    PROVE  Contents' /\ WritesItsNode(t)
<1>a. PICK n, right : n = at[t] /\ right = next[at[t]]
  OBVIOUS
<1>0. PointerTypes /\ ResultTypes /\ pc \in [Threads -> Pcs] /\ NodeTypes
  BY DEF LockInv, TypeInv, PointerTypes
<1>1. pc[t] = "merge" /\ pc'[t] = "unlink" /\ leafNext[n] = right
  <2>1. pc[t] = "merge" /\ pc' = [pc EXCEPT ![t] = "unlink"]
    BY DEF Merge, Goto
  <2> QED
    BY <1>0, <1>a, <2>1, Here DEF AtHeld
<1>2. /\ n \in Node /\ n \in Linked /\ n \in Live /\ Holds(t, n)
      /\ leaf[n] \in LeafOf(Keys, Vals) /\ Distinct(leaf[n])
      /\ \A k : Owns(n, k) <=> InRange(n, k)
      /\ \A k \in KeysOf(leaf[n]) : InRange(n, k)
      /\ hkey[n] = lkey[right] /\ right \in Linked /\ right \in Node /\ right \in Live
  BY <1>a, <1>1, Here, NodeSets DEF AtHeld
<1>3. /\ LeafCanMerge(leaf[n], leaf[right])
      /\ leaf' = [leaf EXCEPT ![n] = LeafMerge(leaf[n], leaf[right])]
      /\ hkey' = [hkey EXCEPT ![n] = hkey[right]]
      /\ UNCHANGED <<nodes, lkey, next, lock, buf, store, at>>
  BY <1>a, <1>1 DEF Merge, Goto, locals
<1>4. OthersRest(t)
  BY <1>0, OnlyItsLocals DEF Step
<1>5. other[t] = right /\ right # n /\ Holds(t, right)
  BY <1>a, <1>1, HeldNodes DEF LockInv, ThreadOK, NeighbourOK, OtherHeld
<1>6. \A k : Owns(right, k) <=> InRange(right, k)
  <2>1. ~Changing(right, {"setHkey", "unlink"})
    BY <1>a, <1>2, <1>5, HeldIsUnchanging
  <2>2. ~Changing(right, {"setHkey"})
    BY <2>1 DEF Changing
  <2> QED
    BY <2>2 DEF Owns, Limit, InRange
<1>7. leaf[right] \in LeafOf(Keys, Vals) /\ Distinct(leaf[right]) /\ \A k \in KeysOf(leaf[right]) : InRange(right, k)
  BY <1>0, <1>2, <1>6 DEF NodeInv, LeavesInRange, NodeTypes
<1>8. lkey[n] \in Nat /\ lkey[right] \in Nat /\ hkey[right] \in Nat
  BY <1>0, <1>2 DEF NodeTypes
<1>9. \A x \in LeafOf(Keys, Vals) : KeysOf(x) \subseteq Nat
  <2>1. ASSUME NEW x \in LeafOf(Keys, Vals) PROVE KeysOf(x) \subseteq Nat
    <3>1. \A i \in ValidBitSet(x) : x[i] \in RecOf(Keys, Vals)
      BY LeafSets
    <3>2. \A y \in RecOf(Keys, Vals) : y.key \in Nat
      BY KeysAre DEF RecOf
    <3> QED
      BY <3>1, <3>2 DEF KeysOf
  <2> QED
    BY <2>1
<1>10. \A k \in KeysOf(leaf[n]) : k < lkey[right] /\ k \in Nat
  BY <1>2, <1>9 DEF InRange
<1>11. \A k \in KeysOf(leaf[right]) : lkey[right] <= k /\ k \in Nat
  BY <1>7, <1>9 DEF InRange
<1>12. KeysOf(leaf[n]) \cap KeysOf(leaf[right]) = {}
  BY <1>8, <1>10, <1>11
<1>13. /\ leaf'[n] = LeafMerge(leaf[n], leaf[right]) /\ hkey'[n] = hkey[right]
       /\ \A m \in Node \ {n} : leaf'[m] = leaf[m] /\ hkey'[m] = hkey[m]
  BY <1>0, <1>2, <1>3 DEF NodeTypes
<1>14. /\ leaf'[n] \in LeafOf(Keys, Vals) /\ Distinct(leaf'[n])
       /\ KeysOf(leaf'[n]) = KeysOf(leaf[n]) \cup KeysOf(leaf[right])
       /\ \A k, v : Has(leaf'[n], k, v) <=> Has(leaf[n], k, v) \/ Has(leaf[right], k, v)
  BY <1>2, <1>3, <1>7, <1>12, <1>13, LeafMergeIs
<1>15. \A m : Changing(m, {"setHkey"})' <=> Changing(m, {"setHkey"})
  BY <1>1, <1>3, <1>4 DEF Changing, OthersRest
<1>16. ~Changing(n, {"setHkey"})
  <2>1. ~Changing(n, {"setHkey", "unlink"})
    BY <1>1, <1>2, HeldIsUnchanging
  <2> QED
    BY <2>1 DEF Changing
<1>17. \A k : Owns(n, k)' <=> lkey[n] <= k /\ k < hkey[right]
  BY <1>3, <1>13, <1>15, <1>16 DEF Owns, Limit
<1>18. \A m \in Node \ {n} : \A k : Owns(m, k)' <=> Owns(m, k)
  BY <1>3, <1>13, <1>15 DEF Owns, Limit
<1>19. Live' = Live /\ Live \subseteq Node
  BY <1>3, NodeSets DEF Live
<1>20. \A m \in Live : \A k \in Keys : Owns(m, k) => Held(m, k) = store[k]
  BY DEF ContentInv, Contents, Lossy
<1>21. ASSUME harm' \notin Lossy, NEW k \in Keys, Owns(n, k)' PROVE Held(n, k)' = store[k]
  <2>1. buf[n] = NoBuf /\ buf[right] = NoBuf /\ DOMAIN NoBuf = {}
    BY <1>a, <1>1, <1>3, <1>21, LossyMerge, NoBufIs
  <2>2. k \in Nat /\ lkey[n] <= k /\ k < hkey[right]
    BY <1>17, <1>21, KeysAre
  <2>3. Held(n, k)' = LeafLookup(leaf'[n], k)
    BY <1>3, <2>1 DEF Held
  <2>4. CASE k < lkey[right]
    <3>1. Owns(n, k) /\ k \notin KeysOf(leaf[right])
      BY <1>2, <1>8, <1>11, <2>2, <2>4 DEF InRange
    <3>2. LeafLookup(leaf[n], k) = store[k]
      BY <1>2, <1>20, <2>1, <3>1 DEF Held
    <3>3. LeafLookup(leaf'[n], k) = LeafLookup(leaf[n], k)
      BY <1>2, <1>14, <3>1, LookupSame
    <3> QED
      BY <2>3, <3>2, <3>3
  <2>5. CASE ~(k < lkey[right])
    <3>1. lkey[right] <= k
      BY <1>8, <2>2, <2>5
    <3>2. Owns(right, k) /\ k \notin KeysOf(leaf[n])
      BY <1>6, <1>10, <2>2, <2>5, <3>1 DEF InRange
    <3>3. LeafLookup(leaf[right], k) = store[k]
      BY <1>2, <1>20, <2>1, <3>2 DEF Held
    <3>4. LeafLookup(leaf'[n], k) = LeafLookup(leaf[right], k)
      BY <1>7, <1>14, <3>2, LookupSame
    <3> QED
      BY <2>3, <3>3, <3>4
  <2> QED
    BY <2>4, <2>5
<1>22. ASSUME NEW m \in Live \ {n}, NEW k \in Keys, Owns(m, k)' PROVE Held(m, k)' = store[k]
  <2>1. m \in Node \ {n} /\ Owns(m, k)
    BY <1>18, <1>19, <1>22
  <2>2. Held(m, k)' = Held(m, k)
    BY <1>3, <1>13, <2>1 DEF Held
  <2> QED
    BY <1>20, <1>22, <2>1, <2>2
<1>23. Contents'
  BY <1>3, <1>19, <1>21, <1>22 DEF Contents
<1>24. WritesItsNode(t)
  BY <1>2, <1>3, <1>13, NodeSets DEF WritesItsNode
<1> QED
  BY <1>23, <1>24

(* The unlinked node keeps its records until it is obsolete. *)
LEMMA UnlinkContents ==
    ASSUME LockInv, TypeInv, ContentInv, NEW t \in Threads, harm = "none", Unlink(t)
    PROVE  Contents' /\ WritesItsNode(t)
<1>a. PICK n : n = at[t]
  OBVIOUS
<1>0. /\ PointerTypes /\ ResultTypes /\ pc \in [Threads -> Pcs]
      /\ next \in [Node -> Node \cup {Null}]
  BY DEF LockInv, TypeInv, PointerTypes
<1>1. /\ pc[t] = "unlink" /\ pc'[t] = "topRemove"
      /\ next' = [next EXCEPT ![n] = next[next[n]]]
      /\ UNCHANGED <<nodes, lkey, hkey, lock, leaf, buf, store, at>>
  BY <1>0, <1>a DEF Unlink, Goto, content, locals
<1>2. n \in Node /\ Holds(t, n)
  BY <1>a, <1>1, HeldNodes DEF AtHeld
<1>3. OthersRest(t)
  BY <1>0, OnlyItsLocals DEF Step
<1>4. Live' = Live /\ Live \subseteq Node /\ \A m \in Node \ {n} : next'[m] = next[m]
  BY <1>0, <1>1, NodeSets DEF Live
<1>5. \A m \in Node : \A k : Owns(m, k)' <=> Owns(m, k)
  <2>1. \A m : Changing(m, {"setHkey"})' <=> Changing(m, {"setHkey"})
    BY <1>1, <1>3 DEF Changing, OthersRest
  <2>2. ~Changing(n, {"setHkey"})
    BY <1>a, <1>1, <1>2 DEF Changing, LockInv, Exclusive, Holds, AtHeld
  <2>3. \A m \in Node : Limit(m)' = Limit(m)
    BY <1>1, <1>4, <2>1, <2>2 DEF Limit
  <2> QED
    BY <1>1, <2>3 DEF Owns
<1> QED
  BY <1>1, <1>4, <1>5, SameContents

(* The other steps. *)
LEMMA QuietContents ==
    ASSUME LockInv, TypeInv, ContentInv, NEW t \in Threads, harm = "none", Quiet(t), Invoke(t) \/ Step(t)
    PROVE  Contents' /\ WritesItsNode(t)
<1>1. PointerTypes /\ ResultTypes
  BY DEF LockInv, TypeInv
<1>2. /\ UNCHANGED <<nodes, leaf, buf, store>>
      /\ pc'[t] \in OffList => pc[t] \in OffList /\ other'[t] = other[t]
      /\ pc[t] \in OffList /\ pc'[t] \notin OffList => UnlockObsolete(t)
  BY <1>1, QuietData
<1>3. Live' \subseteq Live
  BY <1>1, <1>2, ListKept
<1>4. \A n : \A k : Owns(n, k)' <=> Owns(n, k)
  BY <1>1, QuietNodes
<1> QED
  BY <1>2, <1>3, <1>4, SameContents

-----------------------------------------------------------------------------
(* What a thread has read, and what it has to write.                       *)

(* The steps after which a thread relies on what it has read. *)
LEMMA Readers ==
    ASSUME PointerTypes, NEW t \in Threads, Invoke(t) \/ Step(t),
           pc'[t] \in {"lockNext", "split", "checkBloom", "readLeaf", "checkValue"}
    PROVE  StartSplit(t) \/ LockNext(t) \/ ReadBloom(t) \/ CheckBloom(t) \/ ReadBuffer(t) \/ ReadLeaf(t)
<1>1. pc \in [Threads -> Pcs]
  BY DEF PointerTypes
<1> USE <1>1 DEF Goto, Retry, Hop
<1>2. ~(Invoke(t) \/ Return(t) \/ SeekLE(t) \/ WalkLeft(t) \/ WalkRight(t) \/ ReadLock(t) \/ CheckValue(t))
  BY DEF Invoke, Return, SeekLE, WalkLeft, WalkRight, ReadLock, CheckValue
<1>3. ~(Upgrade(t) \/ InsertToBuffer(t) \/ FlushMLNodeBuffer(t) \/ InsertToLeaf(t) \/ Split(t) \/ SetHkey(t)
        \/ TopInsert(t) \/ UnlockLeft(t) \/ UnlockNext(t) \/ ResetBuffer(t) \/ RemoveLocked(t))
  BY DEF Upgrade, InsertToBuffer, FlushMLNodeBuffer, InsertToLeaf, Split, SetHkey, TopInsert, UnlockLeft,
         UnlockNext, ResetBuffer, RemoveLocked
<1>4. ~(MergeCheck(t) \/ MergeRead(t) \/ MergeCas(t) \/ MergeFails(t) \/ Merge(t) \/ Unlink(t)
        \/ TopRemove(t) \/ UnlockObsolete(t) \/ Unlock(t))
  BY DEF MergeCheck, MergeRead, MergeCas, MergeFails, Merge, Unlink, TopRemove, UnlockObsolete, Unlock
<1>5. ~(ScanLock(t) \/ ScanNode(t) \/ ScanUpgrade(t) \/ ScanUnlock(t) \/ ScanSort(t) \/ ScanSorted(t)
        \/ ScanRelock(t) \/ ScanCheck(t) \/ ScanAdvance(t) \/ ScanNext(t))
  BY DEF ScanLock, ScanNode, ScanUpgrade, ScanUnlock, ScanSort, ScanSorted, ScanRelock, ScanVersion,
         ScanCheck, ScanAdvance, ScanNext
<1>6. ~ScanRead(t)
  BY ScanReadGoes
<1> QED
  BY <1>2, <1>3, <1>4, <1>5, <1>6, Zenon DEF Step

(* The batch that a split gets. *)
LEMMA OwnBatch ==
    ASSUME LockInv, TypeInv, NodeInv, ContentInv, NEW t \in Threads,
           harm = "none", harm' = Harm(t), Invoke(t) \/ Step(t)
    PROVE  BatchHolds(t)'
<1>0. PointerTypes /\ ResultTypes /\ pc \in [Threads -> Pcs] /\ NodeTypes /\ todo \in [Threads -> Seq(RecOf(Keys, Vals))]
  BY DEF LockInv, TypeInv, PointerTypes, ResultTypes
<1>1. SUFFICES ASSUME pc'[t] \in {"lockNext", "split"}, harm' = "none" PROVE BatchHolds(t)'
  BY DEF BatchHolds
<1>2. StartSplit(t) \/ LockNext(t)
  <2>1. ~(ReadBloom(t) \/ CheckBloom(t) \/ ReadBuffer(t) \/ ReadLeaf(t))
    BY <1>0, <1>1 DEF ReadBloom, CheckBloom, ReadBuffer, ReadLeaf, Goto, Retry
  <2> QED
    BY <1>0, <1>1, <2>1, Readers
<1>3. CASE LockNext(t)
  <2>1. pc[t] = "lockNext" /\ UNCHANGED <<todo, call, store, buf, at>>
    BY <1>3 DEF LockNext, Goto, content
  <2>2. BatchHolds(t)
    BY DEF ContentInv
  <2>3. \A k : OwnRecord(t, k)' <=> OwnRecord(t, k)
    BY <2>1 DEF OwnRecord, key
  <2> QED
    BY <1>1, <2>1, <2>2, <2>3 DEF BatchHolds, key
<1>4. CASE StartSplit(t)
  <2>a. PICK n, k : n = at[t] /\ k = key(t)
    OBVIOUS
  <2>1. /\ UNCHANGED <<call, store, buf, at>>
        /\ \/ MustFlush(t) /\ todo' = [todo EXCEPT ![t] = ToMerge(t)]
           \/ /\ pc[t] = "insertLocked" /\ ~Buffered(n)
              /\ todo' = [todo EXCEPT ![t] = <<Record(t)>>]
    BY <1>4, <2>a DEF StartSplit, shared, content
  <2>2. SUFFICES /\ \A j, v : InRecs(todo'[t], j, v) => v = IF OwnRecord(t, j) THEN call[t].val ELSE store[j]
                 /\ call[t].name = "insert" => k \in KeysIn(todo'[t]) /\ k \notin DOMAIN buf[n]
    <3>1. \A j : OwnRecord(t, j)' <=> OwnRecord(t, j)
      BY <2>1 DEF OwnRecord, key
    <3> QED
      BY <2>a, <2>1, <3>1 DEF BatchHolds, key
  <2>3. CASE MustFlush(t) /\ todo' = [todo EXCEPT ![t] = ToMerge(t)]
    <3>1. todo'[t] = ToMerge(t)
      BY <1>0, <2>3
    <3>2. pc[t] \in {"insertLocked", "scanFlush"}
      BY <2>3 DEF MustFlush
    <3>3. n \in Live /\ \A j : Owns(n, j) <=> InRange(n, j)
      BY <2>a, <3>2, Here, NodeSets DEF AtHeld
    <3>4. \A j \in DOMAIN buf[n] : InRange(n, j)
      BY <1>1, <2>a, <2>3, OutlierIsHarm
    <3>5. \A j \in DOMAIN buf[n] : j \in Keys
      <4>1. n \in Node
        BY <3>3, NodeSets
      <4> QED
        BY <1>0, <4>1 DEF NodeTypes, IsBuffer
    <3>6. \A j \in DOMAIN buf[n] : buf[n][j] = store[j]
      BY <3>3, <3>4, <3>5 DEF ContentInv, Contents, Lossy, Held
    <3>7. CASE call[t].name = "insert"
      <4>1. /\ k \notin DOMAIN buf[n] /\ KeysIn(ToMerge(t)) = DOMAIN buf[n] \cup {k}
            /\ \A j, v : InRecs(ToMerge(t), j, v) <=> (j \in DOMAIN buf[n] /\ v = buf[n][j]) \/ (j = k /\ v = call[t].val)
        BY <2>a, <2>3, <3>7, ToMergeIs
      <4> QED
        BY <2>a, <3>1, <3>6, <3>7, <4>1 DEF OwnRecord
    <3>8. CASE call[t].name # "insert"
      <4>1. \A j, v : InRecs(ToMerge(t), j, v) <=> j \in DOMAIN buf[n] /\ v = buf[n][j]
        BY <2>a, <2>3, <3>8, ToMergeIs
      <4> QED
        BY <3>1, <3>6, <3>8, <4>1 DEF OwnRecord
    <3> QED
      BY <3>7, <3>8
  <2>4. CASE pc[t] = "insertLocked" /\ ~Buffered(n) /\ todo' = [todo EXCEPT ![t] = <<Record(t)>>]
    <3>1. todo'[t] = <<Record(t)>> /\ call[t].name = "insert"
      BY <1>0, <2>4 DEF TypeInv, Doing
    <3>2. Record(t).key = k /\ Record(t).val = call[t].val
      BY <1>0, <2>a, <3>1, RecordIs
    <3>3. /\ \A j, v : InRecs(todo'[t], j, v) => j = k /\ v = call[t].val
          /\ k \in KeysIn(todo'[t])
      <4>1. PICK r : r = Record(t)
        OBVIOUS
      <4>2. todo'[t] = <<r>> /\ Len(<<r>>) = 1 /\ <<r>>[1] = r
        BY <3>1, <4>1
      <4> QED
        BY <3>2, <4>1, <4>2 DEF InRecs, KeysIn
    <3>4. DOMAIN buf[n] = {}
      <4>1. n \in Node
        BY <2>a, <2>4, HeldNodes DEF AtHeld
      <4> QED
        BY <2>4, <4>1, NoBufIs DEF NodeInv, BuffersClean
    <3> QED
      BY <2>a, <3>1, <3>3, <3>4 DEF OwnRecord
  <2> QED
    BY <2>1, <2>3, <2>4
<1> QED
  BY <1>2, <1>3, <1>4

(* As long as the version is the one that a lookup or a remove took, its    *)
(* node has the key.                                                        *)
LEMMA SnapshotHolds ==
    ASSUME LockInv, TypeInv, SnapshotInv, ContentInv, harm = "none", NEW t \in Threads,
           pc[t] \in {"bloom", "checkBloom", "readBuffer", "readLeaf", "checkValue", "upgrade"},
           lock[at[t]] = ver[t]
    PROVE  /\ at[t] \in Linked /\ at[t] \in Live /\ at[t] \in Node /\ key(t) \in Keys
           /\ Owns(at[t], key(t)) /\ Held(at[t], key(t)) = store[key(t)]
<1>1. Free(lock[at[t]]) /\ InRange(at[t], key(t)) /\ at[t] \in Allocated
  BY DEF SnapshotInv, Snapshot, LockInv, ThreadOK, AtOK
<1>2. at[t] \in Linked /\ at[t] \in Live /\ at[t] \in Node /\ key(t) \in Keys
  <2>1. PointerTypes
    BY DEF LockInv
  <2> QED
    BY <1>1, <2>1, FreeIsLinked, NodeSets, CallKeys
<1>3. \A v \in Threads : ~Holds(v, at[t])
  BY <1>1, <1>2 DEF LockInv, ThreadOK, AtHeldOK, OtherHeldOK, Holds, Free
<1>4. Owns(at[t], key(t))
  BY <1>1, <1>3 DEF Owns, InRange, Limit, Changing, Holds, AtHeld
<1> QED
  BY <1>2, <1>4 DEF ContentInv, Contents, Lossy

(* What lookup and remove read without a lock. *)
LEMMA OwnRead ==
    ASSUME LockInv, TypeInv, SnapshotInv, NodeInv, ContentInv, NEW t \in Threads,
           harm = "none", Invoke(t) \/ Step(t)
    PROVE  ReadHolds(t)'
<1>0. PointerTypes /\ ResultTypes /\ pc \in [Threads -> Pcs] /\ NodeTypes /\ got \in [Threads -> Vals \cup {0, 1}]
  BY DEF LockInv, TypeInv, PointerTypes, ResultTypes
<1>1. SUFFICES ASSUME pc'[t] \in {"checkBloom", "readLeaf", "checkValue"}, lock'[at'[t]] = ver'[t]
               PROVE  ReadHolds(t)'
  BY DEF ReadHolds
<1>2. ReadBloom(t) \/ CheckBloom(t) \/ ReadBuffer(t) \/ ReadLeaf(t)
  <2>1. ~(StartSplit(t) \/ LockNext(t))
    BY <1>0, <1>1 DEF StartSplit, LockNext, Goto
  <2> QED
    BY <1>0, <1>1, <2>1, Readers
<1>a. PICK n, k : n = at[t] /\ k = key(t)
  OBVIOUS
<1>3. /\ pc[t] \in {"bloom", "checkBloom", "readBuffer", "readLeaf"}
      /\ UNCHANGED <<lock, leaf, buf, store, at, ver, call>>
  BY <1>0, <1>1, <1>2 DEF ReadBloom, CheckBloom, ReadBuffer, ReadLeaf, Goto, Retry, shared, content
<1>4. lock[n] = ver[t] /\ at'[t] = n /\ key(t)' = k
  BY <1>a, <1>1, <1>3 DEF key
<1>5. n \in Linked /\ n \in Node /\ k \in Keys /\ Owns(n, k) /\ Held(n, k) = store[k]
  BY <1>a, <1>3, <1>4, SnapshotHolds
<1>6. SUFFICES /\ pc'[t] = "checkBloom" /\ got'[t] = 0 => store[k] = NoVal
               /\ pc'[t] = "readLeaf" => LeafLookup(leaf[n], k) = store[k]
               /\ pc'[t] = "checkValue" => got'[t] = store[k]
  BY <1>3, <1>4 DEF ReadHolds
<1>7. CASE ReadBloom(t)
  <2>1. pc'[t] = "checkBloom" /\ \E maybe \in CouldExist(n, k) : got'[t] = IF maybe THEN 1 ELSE 0
    BY <1>0, <1>a, <1>7 DEF ReadBloom, Goto
  <2>2. got'[t] = 0 => filterOn[n] /\ k \notin bloom[n]
    <3>1. SUFFICES ASSUME ~(filterOn[n] /\ k \notin bloom[n]) PROVE got'[t] = 1
      OBVIOUS
    <3>2. CouldExist(n, k) = {TRUE}
      BY <3>1, Zenon DEF CouldExist
    <3> QED
      BY <2>1, <3>2
  <2>3. filterOn[n] /\ k \notin bloom[n] => k \notin KeysOf(leaf[n]) /\ k \notin DOMAIN buf[n]
    BY <1>5 DEF NodeInv, FiltersCover
  <2>4. leaf[n] \in LeafOf(Keys, Vals) /\ Distinct(leaf[n])
    BY <1>0, <1>5 DEF NodeInv, LeavesInRange, NodeTypes
  <2>5. k \notin KeysOf(leaf[n]) /\ k \notin DOMAIN buf[n] => store[k] = NoVal
    BY <1>5, <2>4, LookupIs DEF Held
  <2> QED
    BY <2>1, <2>2, <2>3, <2>5
<1>8. CASE CheckBloom(t)
  <2>1. pc'[t] = "readLeaf" /\ ~Buffered(n)
    BY <1>0, <1>1, <1>a, <1>4, <1>8 DEF CheckBloom, Retry
  <2>2. DOMAIN buf[n] = {}
    BY <1>5, <2>1, NoBufIs DEF NodeInv, BuffersClean
  <2> QED
    BY <1>5, <2>1, <2>2 DEF Held
<1>9. CASE ReadBuffer(t)
  <2>1. IF k \in DOMAIN buf[n] THEN got'[t] = buf[n][k] /\ pc'[t] = "checkValue" ELSE pc'[t] = "readLeaf"
    BY <1>0, <1>a, <1>9 DEF ReadBuffer
  <2> QED
    BY <1>5, <2>1 DEF Held
<1>10. CASE ReadLeaf(t)
  <2>1. pc[t] = "readLeaf" /\ pc'[t] = "checkValue" /\ got'[t] = LeafLookup(leaf[n], k)
    BY <1>0, <1>a, <1>10 DEF ReadLeaf, Goto
  <2>2. LeafLookup(leaf[n], k) = store[k]
    BY <1>a, <1>4, <2>1 DEF ContentInv, ReadHolds
  <2> QED
    BY <2>1, <2>2
<1> QED
  BY <1>2, <1>7, <1>8, <1>9, <1>10

-----------------------------------------------------------------------------
(* The invariant.                                                          *)

(* The first leaf is the map. *)
LEMMA InitContent == Init => ContentInv
<1> SUFFICES ASSUME Init PROVE ContentInv
  OBVIOUS
<1>1. /\ lkey[DummyTail] = MaxKey /\ HeadNode # DummyTail /\ HeadNode \in Node /\ DummyTail \in Node
      /\ \A n \in Live : n = HeadNode \/ n = DummyTail
      /\ \A n \in Node : buf[n] = NoBuf
      /\ \A t \in Threads : pc[t] = "idle"
      /\ \A k \in Keys : store[k] = LeafLookup(leaf[HeadNode], k)
  BY BoundsAssumption DEF Init, Live, HeadNode, DummyTail, Node
<1>2. ASSUME NEW n \in Live, NEW k \in Keys, Owns(n, k) PROVE Held(n, k) = store[k]
  <2>1. n # DummyTail
    BY <1>1, <1>2, KeysAre DEF Owns
  <2> QED
    BY <1>1, <1>2, <2>1, NoBufIs DEF Held
<1>3. Contents
  BY <1>2 DEF Contents
<1> QED
  BY <1>1, <1>3 DEF ContentInv, BatchHolds, ReadHolds

(* Every step keeps the contents, of the nodes and of the threads. *)
LEMMA ContentStep ==
    ASSUME LockInv, NodesInv, TileInv, ContentInv, NEW t \in Threads, harm = "none", harm' = Harm(t),
           Invoke(t) \/ Step(t)
    PROVE  ContentInv'
<1>0. TypeInv /\ RangeInv /\ SnapshotInv /\ NodeInv
  BY DEF NodesInv
<1>1. Contents' /\ WritesItsNode(t)
  <2>1. CASE Quiet(t)
    BY <1>0, <2>1, QuietContents
  <2>2. CASE Writes(t)
    BY <1>0, <2>2, BufferContents, LeafContents, FlushContents, SplitContents, SetHkeyContents,
       ResetContents, RemoveContents, MergeContents, UnlinkContents DEF Writes
  <2> QED
    BY <2>1, <2>2, QuietOrWrites
<1>2. \A u \in Threads \ {t} : BatchHolds(u)' /\ ReadHolds(u)'
  BY <1>0, <1>1, OthersContent
<1>3. BatchHolds(t)' /\ ReadHolds(t)'
  BY <1>0, OwnBatch, OwnRead
<1> QED
  BY <1>1, <1>2, <1>3 DEF ContentInv

(* Every step keeps the tiles and the contents. *)
LEMMA NextContentInv ==
    LockInv /\ NodesInv /\ TileInv /\ ContentInv /\ [Next]_vars => TileInv' /\ ContentInv'
<1> SUFFICES ASSUME LockInv, NodesInv, TileInv, ContentInv, [Next]_vars PROVE TileInv' /\ ContentInv'
  OBVIOUS
<1>1. ASSUME NEW t \in Threads, Run(t) PROVE TileInv' /\ ContentInv'
  <2>1. harm = "none" /\ harm' = Harm(t) /\ (Invoke(t) \/ Step(t))
    BY <1>1 DEF Run
  <2>2. TypeInv /\ RangeInv /\ NodeInv
    BY DEF NodesInv
  <2> QED
    BY <2>1, <2>2, TileStep, ContentStep
<1>2. CASE UNCHANGED vars
  <2>1. UNCHANGED <<nodes, lkey, hkey, next, lock, buf, leaf, pc, call, at, ver, other, got, todo, store, harm>>
    BY <1>2 DEF vars, middle, content, locals
  <2>2. TileInv'
    BY <2>1 DEF TileInv, Tiled, Inner, Linked, Live, Span, MergedRange
  <2>3. Contents'
    BY <2>1 DEF ContentInv, Contents, Live, Held, Owns, Limit, Changing
  <2>4. \A t \in Threads : BatchHolds(t)' /\ ReadHolds(t)'
    BY <2>1 DEF ContentInv, BatchHolds, ReadHolds, OwnRecord, key
  <2> QED
    BY <2>2, <2>3, <2>4 DEF ContentInv
<1> QED
  BY <1>1, <1>2 DEF Next, Finished

(* The ranges of the nodes tile the key space, and every node holds what    *)
(* the map holds for the keys that it owns, in every state that is not past *)
(* one of the defects that lose a record.                                   *)
THEOREM SpecContentInv == Spec => [](LockInv /\ NodesInv /\ TileInv /\ ContentInv)
<1>1. Init => TileInv /\ ContentInv
  BY InitTiles, InitContent
<1>2. LockInv /\ NodesInv /\ TileInv /\ ContentInv /\ [Next]_vars => TileInv' /\ ContentInv'
  BY NextContentInv
<1> QED
  BY <1>1, <1>2, SpecNodesInv, PTL DEF Spec

-----------------------------------------------------------------------------
(* The tree is the map.                                                    *)

(* Among the live nodes with a key in their range, one has the largest low  *)
(* key.                                                                     *)
LEMMA ResponsibleExists ==
    ASSUME LockInv, TypeInv, TileInv, NEW k \in Keys
    PROVE  \E n \in Live : InRange(n, k) /\ \A m \in Live : InRange(m, k) => lkey[m] <= lkey[n]
<1>1. /\ Live \subseteq Node /\ Linked \subseteq Live /\ k \in Nat /\ MaxKey \in Nat
      /\ lkey \in [Node -> 0 .. MaxKey] /\ hkey \in [Node -> 0 .. MaxKey]
  BY NodeSets, KeysAre DEF TypeInv, NodeTypes
<1>2. PICK p \in Inner : Span(p, k)
  BY KeysCovered DEF TileInv, Tiled
<1>3. p \in Live /\ InRange(p, k)
  <2>1. lkey[next[p]] <= hkey[p] /\ next[p] \in Linked
    BY DEF TileInv, Tiled, LockInv, ListOK, Inner
  <2>2. lkey[next[p]] \in Nat /\ hkey[p] \in Nat
    BY <1>1, <2>1 DEF Inner
  <2> QED
    BY <1>1, <1>2, <2>1, <2>2 DEF Span, InRange, Inner
<1> DEFINE C == {n \in Live : InRange(n, k)}
           D == {MaxKey - lkey[n] : n \in C}
<1>4. IsFiniteSet(C) /\ C \subseteq Node /\ p \in C
  <2>1. IsFiniteSet(Node)
    BY FS_Interval, BoundsAssumption DEF Node
  <2> QED
    BY <1>1, <1>3, <2>1, FS_Subset
<1>5. D \in SUBSET Nat /\ IsFiniteSet(D) /\ D # {}
  <2>1. \A n \in C : MaxKey - lkey[n] \in 0 .. MaxKey
    <3>1. \A n \in C : lkey[n] \in 0 .. MaxKey
      BY <1>1, <1>4
    <3> QED
      BY <1>1, <3>1
  <2>2. IsFiniteSet(0 .. MaxKey)
    BY <1>1, FS_Interval
  <2>3. D \subseteq 0 .. MaxKey /\ D # {}
    BY <1>4, <2>1
  <2> HIDE DEF D
  <2>4. IsFiniteSet(D)
    BY <2>2, <2>3, FS_Subset
  <2> QED
    BY <2>3, <2>4
<1> HIDE DEF D
<1>6. Lowest(D) \in D /\ \A d \in D : Lowest(D) <= d
  BY <1>5, LowestIs
<1>7. PICK n \in C : Lowest(D) = MaxKey - lkey[n]
  BY <1>6 DEF D
<1>8. \A m \in C : MaxKey - lkey[n] <= MaxKey - lkey[m]
  BY <1>6, <1>7 DEF D
<1>9. \A m \in C : lkey[m] \in Nat /\ lkey[m] <= lkey[n]
  <2>1. \A m \in C : lkey[m] \in Nat
    BY <1>1, <1>4
  <2> QED
    BY <1>1, <1>7, <1>8, <2>1
<1> QED
  BY <1>7, <1>9

(* That node owns the key. *)
LEMMA ResponsibleOwns ==
    ASSUME LockInv, TypeInv, RangeInv, TileInv, NEW k \in Keys, NEW n \in Live, InRange(n, k),
           \A m \in Live : InRange(m, k) => lkey[m] <= lkey[n]
    PROVE  Owns(n, k)
<1>1. /\ Live \subseteq Node /\ Linked \subseteq Live /\ k \in Nat /\ MaxKey \in Nat /\ k < MaxKey
      /\ lkey \in [Node -> Nat] /\ hkey \in [Node -> Nat]
  BY NodeSets, KeysAre DEF TypeInv, NodeTypes
<1>2. CASE ~Changing(n, {"setHkey"})
  BY <1>2 DEF Owns, Limit, InRange
<1>3. CASE Changing(n, {"setHkey"})
  <2>1. n \in Inner /\ lkey[n] < lkey[next[n]] /\ next[n] \in Node /\ lkey[n] >= MinKey
    BY <1>1, <1>3, HeldNodes DEF Changing, AtHeld, Inner, RangeInv, LockInv, ListOK, TileInv, Tiled
  <2>2. SUFFICES k < lkey[next[n]]
    BY <1>3 DEF Owns, Limit, InRange
  <2>3. PICK m \in Inner : Span(m, k)
    BY KeysCovered DEF TileInv, Tiled
  <2>4. m \in Live /\ next[m] \in Node /\ lkey[next[m]] <= hkey[m]
    BY <1>1 DEF TileInv, Tiled, Inner, LockInv, ListOK
  <2>5. /\ lkey[n] \in Nat /\ lkey[m] \in Nat /\ lkey[next[n]] \in Nat /\ lkey[next[m]] \in Nat
        /\ hkey[m] \in Nat
    BY <1>1, <2>1, <2>4
  <2>6. InRange(m, k)
    BY <1>1, <2>3, <2>4, <2>5 DEF Span, InRange
  <2>7. lkey[m] <= lkey[n] /\ lkey[n] <= k
    BY <2>4, <2>6 DEF InRange
  <2>8. lkey[n] \in Numbers /\ Span(n, lkey[n]) /\ Span(m, lkey[n])
    BY <1>1, <2>1, <2>3, <2>5, <2>7 DEF Numbers, Span, MinKey
  <2>9. n = m
    BY <2>1, <2>3, <2>8 DEF TileInv, Tiled
  <2> QED
    BY <2>3, <2>9 DEF Span
<1> QED
  BY <1>2, <1>3

(* The responsible node owns the key, and holds what the map holds.        *)
LEMMA InvImpliesTreeHoldsStore == LockInv /\ NodesInv /\ TileInv /\ ContentInv => TreeHoldsStore
<1> SUFFICES ASSUME LockInv, NodesInv, TileInv, ContentInv, harm \notin Lossy PROVE TreeContent = store
  BY DEF TreeHoldsStore, Lossy
<1>1. TypeInv /\ RangeInv /\ store \in [Keys -> Vals \cup {NoVal}]
  BY DEF NodesInv, TypeInv, NodeTypes
<1>2. ASSUME NEW k \in Keys PROVE TreeContent[k] = store[k]
  <2>a. PICK n : n = Responsible(k)
    OBVIOUS
  <2>1. n \in Live /\ InRange(n, k) /\ \A m \in Live : InRange(m, k) => lkey[m] <= lkey[n]
    BY <1>1, <2>a, ResponsibleExists DEF Responsible
  <2>2. Owns(n, k)
    BY <1>1, <2>1, ResponsibleOwns
  <2>3. Held(n, k) = store[k]
    BY <2>1, <2>2 DEF ContentInv, Contents
  <2>4. TreeContent[k] = Held(n, k)
    BY <2>a DEF TreeContent, Held
  <2> QED
    BY <2>3, <2>4
<1>3. TreeContent = [k \in Keys |-> TreeContent[k]]
  BY DEF TreeContent
<1> QED
  BY <1>1, <1>2, <1>3

(* No insert or remove that took effect is ever undone: in every state the  *)
(* tree holds exactly the map that the calls have written.                  *)
THEOREM NothingIsLost == Spec => []TreeHoldsStore
BY SpecContentInv, InvImpliesTreeHoldsStore, PTL

-----------------------------------------------------------------------------
(* When calls take effect.                                                 *)

(* A step in which a call neither starts, takes effect nor returns. *)
Silent(t) == pc[t] # "idle" /\ pc'[t] # "idle" /\ UNCHANGED <<store, call, res>>

(* A step in which it takes effect. *)
Takes(t, newStore, result) ==
    /\ pc[t] \notin {"idle"} \cup Splitting \cup Decided /\ pc'[t] # "idle"
    /\ store' = newStore /\ call' = call /\ res' = [res EXCEPT ![t] = result]

InsertEffect(t) ==
    call[t].name = "insert" /\ Takes(t, [store EXCEPT ![key(t)] = call[t].val], 1)
RemoveEffect(t) ==
    /\ call[t].name = "remove"
    /\ Takes(t, [store EXCEPT ![key(t)] = NoVal], IF store[key(t)] = NoVal THEN 0 ELSE 1)
LookupEffect(t) == call[t].name = "lookup" /\ Takes(t, store, store[key(t)])
ScanEffect(t)   == call[t].name = "scan" /\ \E n \in 0 .. call[t].val : Takes(t, store, n)

(* Most steps are silent. *)
LEMMA SilentSteps ==
    ASSUME LockInv, TypeInv, NEW t \in Threads,
           \/ SeekLE(t) \/ WalkLeft(t) \/ WalkRight(t) \/ ReadLock(t) \/ ReadBloom(t) \/ ReadBuffer(t)
           \/ ReadLeaf(t) \/ Upgrade(t) \/ StartSplit(t) \/ LockNext(t) \/ SetHkey(t) \/ TopInsert(t)
           \/ UnlockLeft(t) \/ UnlockNext(t) \/ ResetBuffer(t) \/ MergeCheck(t) \/ MergeRead(t)
           \/ MergeCas(t) \/ MergeFails(t) \/ Merge(t) \/ Unlink(t) \/ TopRemove(t) \/ UnlockObsolete(t)
           \/ ScanLock(t) \/ ScanUpgrade(t) \/ ScanUnlock(t) \/ ScanSort(t) \/ ScanSorted(t)
           \/ ScanRelock(t) \/ ScanRead(t) \/ ScanCheck(t) \/ ScanAdvance(t) \/ ScanNext(t) \/ Unlock(t)
    PROVE  Silent(t)
<1>1. pc \in [Threads -> Pcs]
  BY DEF LockInv, PointerTypes
<1> USE <1>1 DEF Goto, Retry, Hop, shared, locals, Silent
<1>2. CASE \/ SeekLE(t) \/ WalkLeft(t) \/ WalkRight(t) \/ ReadLock(t) \/ ReadBloom(t) \/ ReadBuffer(t)
           \/ ReadLeaf(t) \/ Upgrade(t)
  BY <1>2 DEF SeekLE, WalkLeft, WalkRight, ReadLock, ReadBloom, ReadBuffer, ReadLeaf, Upgrade
<1>3. CASE \/ StartSplit(t) \/ LockNext(t) \/ SetHkey(t) \/ TopInsert(t) \/ UnlockLeft(t) \/ UnlockNext(t)
           \/ ResetBuffer(t)
  BY <1>3 DEF StartSplit, MustFlush, LockNext, SetHkey, TopInsert, UnlockLeft, UnlockNext, ResetBuffer
<1>4. CASE \/ MergeCheck(t) \/ MergeRead(t) \/ MergeCas(t) \/ MergeFails(t) \/ Merge(t) \/ Unlink(t)
           \/ TopRemove(t) \/ UnlockObsolete(t) \/ Unlock(t)
  BY <1>4 DEF MergeCheck, MergeRead, MergeCas, MergeFails, Merge, Unlink, TopRemove, UnlockObsolete, Unlock
<1>5. CASE \/ ScanLock(t) \/ ScanUpgrade(t) \/ ScanUnlock(t) \/ ScanSort(t) \/ ScanSorted(t)
           \/ ScanRelock(t) \/ ScanCheck(t) \/ ScanAdvance(t) \/ ScanNext(t)
  BY <1>5 DEF ScanLock, ScanUpgrade, ScanUnlock, ScanSort, ScanSorted, ScanRelock, ScanVersion, ScanCheck,
              ScanAdvance, ScanNext
<1>6. CASE ScanRead(t)
  <2>1. pc[t] = "scanRead" /\ UNCHANGED <<store, call, res>>
    BY <1>6, Zenon DEF ScanRead, shared
  <2> QED
    BY <1>6, <2>1, ScanReadGoes
<1> QED
  BY <1>2, <1>3, <1>4, <1>5, <1>6

(* The others are the ones in which a call takes effect, with the result    *)
(* that the map gives at that instant.                                      *)
LEMMA EffectSteps ==
    ASSUME LockInv, NodesInv, TileInv, ContentInv, NEW t \in Threads, harm = "none",
           \/ CheckBloom(t) \/ CheckValue(t) \/ InsertToBuffer(t) \/ FlushMLNodeBuffer(t)
           \/ InsertToLeaf(t) \/ Split(t) \/ RemoveLocked(t) \/ ScanNode(t)
    PROVE  Silent(t) \/ InsertEffect(t) \/ RemoveEffect(t) \/ LookupEffect(t) \/ ScanEffect(t)
<1>0. /\ TypeInv /\ SnapshotInv /\ NodeInv /\ pc \in [Threads -> Pcs] /\ Doing(t) /\ Room(t)
      /\ PointerTypes /\ key(t) \in Keys /\ store \in [Keys -> Vals \cup {NoVal}]
      /\ got \in [Threads -> Vals \cup {0, 1}] /\ out \in [Threads -> Seq(OutRec)]
  <2>1. PointerTypes /\ TypeInv
    BY DEF LockInv, NodesInv
  <2> QED
    BY <2>1, CallKeys DEF NodesInv, TypeInv, NodeTypes, ResultTypes, PointerTypes
<1>1. CASE CheckBloom(t)
  <2>1. CASE lock[at[t]] # ver[t] \/ got[t] # 0
    BY <1>0, <1>1, <2>1 DEF CheckBloom, Retry, shared, Silent
  <2>2. CASE lock[at[t]] = ver[t] /\ got[t] = 0
    <3>1. /\ pc[t] = "checkBloom" /\ pc'[t] = "return" /\ store' = store /\ call' = call
          /\ res' = [res EXCEPT ![t] = 0]
      BY <1>0, <1>1, <2>2 DEF CheckBloom, Effect, shared
    <3>2. store[key(t)] = NoVal /\ NoVal = 0
      BY <2>2, <3>1, KeysAre DEF ContentInv, ReadHolds
    <3>3. [store EXCEPT ![key(t)] = NoVal] = store
      BY <1>0, <3>2
    <3>4. call[t].name \in {"lookup", "remove"}
      BY <1>0, <3>1 DEF Doing
    <3> QED
      BY <3>1, <3>2, <3>3, <3>4 DEF RemoveEffect, LookupEffect, Takes, Splitting, Decided
  <2> QED
    BY <2>1, <2>2
<1>2. CASE CheckValue(t)
  <2>1. CASE lock[at[t]] # ver[t]
    BY <1>0, <1>2, <2>1 DEF CheckValue, Retry, shared, Silent
  <2>2. CASE lock[at[t]] = ver[t]
    <3>1. /\ pc[t] = "checkValue" /\ pc'[t] = "return" /\ store' = store /\ call' = call
          /\ res' = [res EXCEPT ![t] = got[t]]
      BY <1>0, <1>2, <2>2 DEF CheckValue, Effect, shared
    <3>2. got[t] = store[key(t)]
      BY <2>2, <3>1 DEF ContentInv, ReadHolds
    <3>3. call[t].name = "lookup"
      BY <1>0, <3>1 DEF Doing
    <3> QED
      BY <3>1, <3>2, <3>3 DEF LookupEffect, Takes, Splitting, Decided
  <2> QED
    BY <2>1, <2>2
<1>3. CASE InsertToBuffer(t) \/ InsertToLeaf(t)
  <2>1. /\ pc[t] = "insertLocked" /\ pc'[t] = "unlock" /\ call' = call
        /\ store' = [store EXCEPT ![key(t)] = call[t].val] /\ res' = [res EXCEPT ![t] = 1]
    BY <1>0, <1>3 DEF InsertToBuffer, InsertToLeaf, InsertTakesEffect, Effect, Goto
  <2> QED
    BY <1>0, <2>1 DEF InsertEffect, Takes, Splitting, Decided, Doing
<1>4. CASE FlushMLNodeBuffer(t)
  <2>1. /\ pc[t] \in {"insertLocked", "scanFlush"} /\ pc'[t] \in {"unlock", "scanUnlock"} /\ call' = call
        /\ IF call[t].name = "insert"
           THEN store' = [store EXCEPT ![key(t)] = call[t].val] /\ res' = [res EXCEPT ![t] = 1]
           ELSE UNCHANGED <<res, store>>
    BY <1>0, <1>4 DEF FlushMLNodeBuffer, MustFlush, InsertTakesEffect, Effect
  <2> QED
    BY <2>1 DEF InsertEffect, Takes, Silent, Splitting, Decided
<1>5. CASE Split(t)
  <2>1. /\ pc[t] = "split" /\ pc'[t] = "setHkey" /\ call' = call
        /\ IF call[t].name = "insert"
           THEN store' = [store EXCEPT ![key(t)] = call[t].val] /\ res' = [res EXCEPT ![t] = 1]
           ELSE UNCHANGED <<res, store>>
    BY <1>0, <1>5 DEF Split, InsertTakesEffect, Effect, Goto
  <2> QED
    BY <2>1 DEF InsertEffect, Takes, Silent, Splitting, Decided
<1>6. CASE RemoveLocked(t)
  <2>1. /\ pc[t] = "removeLocked" /\ pc'[t] = "mergeCheck" /\ call' = call
        /\ store' = [store EXCEPT ![key(t)] = NoVal]
    BY <1>0, <1>6 DEF RemoveLocked, Goto
  <2>2. res' = [res EXCEPT ![t] = IF store[key(t)] = NoVal THEN 0 ELSE 1]
    BY <1>0, <1>6, RemoveContents
  <2> QED
    BY <1>0, <2>1, <2>2 DEF RemoveEffect, Takes, Splitting, Decided, Doing
<1>7. CASE ScanNode(t)
  <2>1. pc[t] = "scanNode" /\ pc'[t] # "idle" /\ store' = store /\ call' = call
    BY <1>0, <1>7 DEF ScanNode, shared
  <2>2. res' = res \/ res' = [res EXCEPT ![t] = Len(out[t])]
    BY <1>7 DEF ScanNode, Effect
  <2>3. call[t].name = "scan"
    BY <1>0, <2>1 DEF Doing
  <2>4. Len(out[t]) \in 0 .. call[t].val
    <3>1. Len(out[t]) \in Nat /\ Len(out[t]) <= call[t].val
      BY <1>0, <2>1, <2>3 DEF Room
    <3>2. call[t].val \in Nat
      BY <1>0, <2>3, ScanSizeIs
    <3> QED
      BY <3>1, <3>2
  <2> QED
    BY <2>1, <2>2, <2>3, <2>4 DEF ScanEffect, Takes, Silent, Splitting, Decided
<1> QED
  BY <1>1, <1>2, <1>3, <1>4, <1>5, <1>6, <1>7

(* A step of a thread keeps its result in step with its program counter.    *)
LEMMA OwnPhase ==
    ASSUME LockInv, TypeInv, PhaseInv, NEW t \in Threads, Invoke(t) \/ Step(t)
    PROVE  PhaseOK(t)'
<1>1. /\ pc \in [Threads -> Pcs] /\ res \in [Threads -> Nat \cup {Pending}] /\ call \in [Threads -> Call]
      /\ at \in [Threads -> Node \cup {Null}] /\ PhaseOK(t) /\ Doing(t)
  BY DEF LockInv, TypeInv, PointerTypes, ResultTypes, PhaseInv
<1>2. Pending \notin Nat /\ got[t] \in Nat
  <2>1. got \in [Threads -> Vals \cup {0, 1}]
    BY DEF TypeInv, ResultTypes
  <2>2. \A v \in Vals : v \in Nat
    BY ValsAssumption
  <2> QED
    BY <2>1, <2>2 DEF Pending
<1> USE <1>1 DEF Goto, Hop, Retry, Effect, InsertTakesEffect, locals, shared, PhaseOK, Splitting, Decided
<1>3. CASE Invoke(t) \/ Return(t) \/ SeekLE(t) \/ WalkLeft(t) \/ WalkRight(t)
  <2>1. pc'[t] \in {"seek", "idle", "walkLeft", "walkRight", "null", "readLock"}
    BY <1>3 DEF Invoke, Return, SeekLE, WalkLeft, WalkRight
  <2>2. res'[t] = Pending
    BY <1>3 DEF Invoke, Return, SeekLE, WalkLeft, WalkRight
  <2> QED
    BY <2>1, <2>2
<1>4. CASE ReadLock(t) \/ ReadBloom(t) \/ ReadBuffer(t) \/ ReadLeaf(t) \/ Upgrade(t)
  <2>1. pc'[t] \in {"seek", "upgrade", "scanLock", "bloom", "checkBloom", "checkValue", "readLeaf",
                    "insertLocked", "removeLocked"}
    BY <1>4 DEF ReadLock, ReadBloom, ReadBuffer, ReadLeaf, Upgrade
  <2>2. res'[t] = Pending
    BY <1>4 DEF ReadLock, ReadBloom, ReadBuffer, ReadLeaf, Upgrade
  <2> QED
    BY <2>1, <2>2
<1>5. CASE CheckBloom(t) \/ CheckValue(t)
  <2>1. \/ pc'[t] \in {"seek", "upgrade", "readBuffer", "readLeaf"} /\ res'[t] = Pending
        \/ pc'[t] = "return" /\ res'[t] \in {0, got[t]}
    BY <1>5 DEF CheckBloom, CheckValue
  <2> QED
    BY <1>2, <2>1
<1>6. CASE InsertToBuffer(t) \/ InsertToLeaf(t) \/ RemoveLocked(t)
  <2>1. pc'[t] \in {"unlock", "mergeCheck"} /\ res'[t] \in {0, 1}
    BY <1>6 DEF InsertToBuffer, InsertToLeaf, RemoveLocked
  <2> QED
    BY <1>2, <2>1
<1>7. CASE FlushMLNodeBuffer(t)
  <2>1. pc[t] \in {"insertLocked", "scanFlush"}
    BY <1>7 DEF FlushMLNodeBuffer, MustFlush
  <2>2. \/ pc'[t] = "unlock" /\ res'[t] = 1
        \/ pc'[t] = "scanUnlock" /\ res'[t] = Pending
    BY <1>7, <2>1 DEF FlushMLNodeBuffer
  <2> QED
    BY <1>2, <2>2
<1>8. CASE StartSplit(t) \/ LockNext(t)
  <2>1. /\ pc[t] \in {"insertLocked", "scanFlush", "lockNext"} /\ pc'[t] \in {"lockNext", "split"}
        /\ res' = res /\ call' = call /\ at' = at
    BY <1>8 DEF StartSplit, MustFlush, LockNext
  <2>2. call[t].name = "scan" => Buffered(at[t])
    BY <2>1 DEF Doing
  <2> QED
    BY <2>1, <2>2 DEF Buffered
<1>9. CASE Split(t)
  <2>1. /\ pc[t] = "split" /\ pc'[t] = "setHkey" /\ call' = call /\ at' = at
        /\ IF call[t].name = "insert" THEN res'[t] = 1 ELSE res'[t] = Pending
    BY <1>9 DEF Split
  <2>2. call[t].name \in {"insert", "scan"}
    BY <2>1 DEF Doing
  <2> QED
    BY <1>2, <2>1, <2>2 DEF Buffered
<1>10. CASE SetHkey(t) \/ TopInsert(t) \/ UnlockLeft(t)
  <2>1. /\ pc[t] \in {"setHkey", "topInsert", "unlockLeft"}
        /\ pc'[t] \in {"topInsert", "unlockLeft", "unlockNext"} /\ call' = call /\ at' = at /\ res' = res
    BY <1>10 DEF SetHkey, TopInsert, UnlockLeft
  <2> QED
    BY <2>1 DEF Buffered
<1>11. CASE UnlockNext(t)
  <2>1. /\ pc[t] = "unlockNext" /\ pc'[t] = (IF Buffered(at[t]) THEN "resetBuffer" ELSE "return")
        /\ call' = call /\ at' = at /\ res' = res
    BY <1>11 DEF UnlockNext
  <2> QED
    BY <2>1 DEF Buffered
<1>12. CASE ResetBuffer(t)
  <2>1. /\ pc[t] = "resetBuffer" /\ pc'[t] = (IF call[t].name = "insert" THEN "return" ELSE "seek")
        /\ call' = call /\ res' = res
    BY <1>12 DEF ResetBuffer
  <2> QED
    BY <2>1
<1>13. CASE \/ MergeCheck(t) \/ MergeRead(t) \/ MergeCas(t) \/ MergeFails(t) \/ Merge(t) \/ Unlink(t)
            \/ TopRemove(t) \/ UnlockObsolete(t) \/ Unlock(t)
  <2>1. pc[t] \in Decided /\ pc'[t] \in Decided /\ res' = res
    BY <1>13 DEF MergeCheck, MergeRead, MergeCas, MergeFails, Merge, Unlink, TopRemove, UnlockObsolete, Unlock
  <2> QED
    BY <2>1
<1>14. CASE \/ ScanLock(t) \/ ScanUpgrade(t) \/ ScanUnlock(t) \/ ScanSort(t) \/ ScanSorted(t)
            \/ ScanRelock(t) \/ ScanCheck(t) \/ ScanAdvance(t) \/ ScanNext(t)
  <2>1. /\ pc'[t] \in {"scanNode", "scanFlush", "seek", "scanRead", "scanSorted", "scanLock", "scanRelock",
                       "scanAdvance", "scanNext"}
        /\ res'[t] = Pending
    BY <1>14 DEF ScanLock, ScanUpgrade, ScanUnlock, ScanSort, ScanSorted, ScanRelock, ScanVersion,
                 ScanCheck, ScanAdvance, ScanNext
  <2> QED
    BY <2>1
<1>15. CASE ScanNode(t)
  <2>1. \/ pc'[t] = "return" /\ res'[t] = Len(out[t])
        \/ pc'[t] \in {"scanUpgrade", "scanSort"} /\ res'[t] = Pending
    BY <1>15 DEF ScanNode
  <2>2. Len(out[t]) \in Nat
    BY DEF TypeInv, ResultTypes
  <2> QED
    BY <1>2, <2>1, <2>2
<1>16. CASE ScanRead(t)
  <2>1. pc[t] = "scanRead" /\ res' = res
    BY <1>16, Zenon DEF ScanRead
  <2>2. pc'[t] \in {"exit", "scanNext", "scanCheck"}
    BY <1>16, ScanReadGoes
  <2> QED
    BY <2>1, <2>2
<1> QED
  BY <1>3, <1>4, <1>5, <1>6, <1>7, <1>8, <1>9, <1>10, <1>11, <1>12, <1>13, <1>14, <1>15, <1>16, Zenon DEF Step

(* Results and program counters agree, for all the threads. *)
LEMMA PhaseStep ==
    ASSUME LockInv, TypeInv, PhaseInv, NEW t \in Threads, Invoke(t) \/ Step(t)
    PROVE  PhaseInv'
<1>1. OthersRest(t)
  <2>1. PointerTypes /\ ResultTypes
    BY DEF LockInv, TypeInv
  <2> QED
    BY <2>1, OnlyItsLocals
<1>2. ASSUME NEW u \in Threads \ {t} PROVE PhaseOK(u)'
  BY <1>1 DEF PhaseInv, PhaseOK, OthersRest, Buffered
<1>3. PhaseOK(t)'
  BY OwnPhase
<1> QED
  BY <1>2, <1>3 DEF PhaseInv

(* The results of the calls follow their program counters: a call has a     *)
(* result from the step in which it takes effect until it returns.          *)
THEOREM SpecPhaseInv == Spec => []PhaseInv
<1>1. Init => PhaseInv
  BY DEF Init, PhaseInv, PhaseOK, Splitting, Decided
<1>2. LockInv /\ NodesInv /\ PhaseInv /\ [Next]_vars => PhaseInv'
  <2> SUFFICES ASSUME LockInv, NodesInv, PhaseInv, [Next]_vars PROVE PhaseInv'
    OBVIOUS
  <2>1. ASSUME NEW t \in Threads, Run(t) PROVE PhaseInv'
    BY <2>1, PhaseStep DEF Run, NodesInv
  <2>2. CASE UNCHANGED vars
    BY <2>2 DEF vars, locals, PhaseInv, PhaseOK, Buffered
  <2> QED
    BY <2>1, <2>2 DEF Next, Finished
<1> QED
  BY <1>1, <1>2, SpecContentInv, PTL DEF Spec

-----------------------------------------------------------------------------
(* The refinement of the atomic map.                                       *)

(* The first state of the tree is one of the map. *)
LEMMA InitKV == Init => KV!Init
<1> SUFFICES ASSUME Init PROVE KV!Init
  OBVIOUS
<1>1. store \in [Keys -> Vals \cup {NoVal}] /\ call \in [Threads -> Call]
  BY InitTypeInv, InitLockInv DEF LockInv, TypeInv, NodeTypes, PointerTypes
<1>2. \A t \in Threads : pc[t] = "idle" /\ res[t] = Pending
  BY DEF Init
<1> QED
  BY <1>1, <1>2 DEF KV!Init

(* A silent step is no step of the map. *)
LEMMA SilentKV ==
    ASSUME LockInv, TypeInv, NEW t \in Threads, OthersRest(t), Silent(t)
    PROVE  UNCHANGED KV!kvVars
<1>1. \A u \in Threads : (pc'[u] = "idle" <=> pc[u] = "idle")
  BY DEF Silent, OthersRest
<1> QED
  BY <1>1 DEF KV!kvVars, Silent

(* A step in which a call takes effect is that step of the map. *)
LEMMA EffectKV ==
    ASSUME LockInv, TypeInv, PhaseInv, NEW t \in Threads, OthersRest(t), NEW newStore, NEW result \in Nat,
           Takes(t, newStore, result)
    PROVE  KV!Effect(t, newStore, result)
<1>1. res \in [Threads -> Nat \cup {Pending}] /\ Pending \notin Nat
  BY DEF TypeInv, ResultTypes, Pending
<1>2. pc[t] # "idle" /\ pc'[t] # "idle" /\ res[t] = Pending
  BY DEF PhaseInv, PhaseOK, Takes
<1>3. res'[t] = result /\ res'[t] # Pending
  BY <1>1 DEF Takes
<1>4. \A u \in Threads \ {t} : (pc'[u] = "idle" <=> pc[u] = "idle") /\ res'[u] = res[u]
  BY DEF OthersRest
<1> QED
  BY <1>2, <1>3, <1>4 DEF Takes, KV!Effect

(* Every step of the tree is a step of the map or none. *)
LEMMA StepKV ==
    ASSUME LockInv, NodesInv, TileInv, ContentInv, PhaseInv, NEW t \in Threads, harm = "none",
           Invoke(t) \/ Step(t)
    PROVE  KV!Next \/ UNCHANGED KV!kvVars
<1>0. /\ TypeInv /\ PointerTypes /\ ResultTypes /\ key(t) \in Keys /\ pc \in [Threads -> Pcs]
      /\ res \in [Threads -> Nat \cup {Pending}] /\ call \in [Threads -> Call]
  <2>1. PointerTypes /\ TypeInv
    BY DEF LockInv, NodesInv
  <2> QED
    BY <2>1, CallKeys DEF TypeInv, PointerTypes, ResultTypes
<1>1. OthersRest(t)
  BY <1>0, OnlyItsLocals
<1>2. store[key(t)] \in Nat
  <2>1. store \in [Keys -> Vals \cup {NoVal}]
    BY <1>0 DEF TypeInv, NodeTypes
  <2>2. NoVal \in Nat /\ \A v \in Vals : v \in Nat
    BY ValsAssumption, KeysAre
  <2> QED
    BY <1>0, <2>1, <2>2
<1>3. CASE Invoke(t)
  <2>1. pc[t] = "idle" /\ pc'[t] = "seek" /\ UNCHANGED <<store, res>>
    BY <1>0, <1>3 DEF Invoke, Goto, shared
  <2>2. \E c \in Call : call' = [call EXCEPT ![t] = c]
    BY <1>0, <1>3, InvokedCall
  <2>3. res[t] = Pending
    BY <2>1 DEF PhaseInv, PhaseOK, Splitting, Decided
  <2>4. KV!Invoke(t)
    BY <1>1, <2>1, <2>2, <2>3 DEF OthersRest, KV!Invoke
  <2> QED
    BY <2>4 DEF KV!Next
<1>4. CASE Return(t)
  <2>1. /\ pc[t] = "return" /\ pc'[t] = "idle" /\ UNCHANGED <<store, call>>
        /\ res' = [res EXCEPT ![t] = Pending]
    BY <1>0, <1>4 DEF Return, Goto, shared
  <2>2. res[t] # Pending /\ res'[t] = Pending
    BY <1>0, <2>1 DEF PhaseInv, PhaseOK, Splitting, Decided
  <2>3. KV!Return(t)
    <3>1. \A u \in Threads \ {t} : (pc'[u] = "idle" <=> pc[u] = "idle") /\ res'[u] = res[u]
      BY <1>1 DEF OthersRest
    <3> QED
      BY <2>1, <2>2, <3>1 DEF KV!Return
  <2> QED
    BY <2>3 DEF KV!Next
<1>5. CASE Silent(t)
  BY <1>0, <1>1, <1>5, SilentKV
<1>6. CASE InsertEffect(t)
  <2>1. KV!Insert(t)
    BY <1>0, <1>1, <1>6, EffectKV DEF InsertEffect, KV!Insert, key
  <2> QED
    BY <2>1 DEF KV!Next
<1>7. CASE RemoveEffect(t)
  <2>1. KV!Remove(t)
    <3>1. PICK r \in {0, 1} : /\ r = IF store[key(t)] = NoVal THEN 0 ELSE 1
                             /\ Takes(t, [store EXCEPT ![key(t)] = NoVal], r)
      BY <1>7 DEF RemoveEffect
    <3>2. KV!Effect(t, [store EXCEPT ![key(t)] = NoVal], r)
      BY <1>0, <1>1, <3>1, EffectKV
    <3> QED
      BY <1>7, <3>1, <3>2 DEF RemoveEffect, KV!Remove, KV!Effect, key
  <2> QED
    BY <2>1 DEF KV!Next
<1>8. CASE LookupEffect(t)
  <2>1. KV!Lookup(t)
    <3>1. PICK r \in Nat : r = store[key(t)] /\ Takes(t, store, r)
      BY <1>2, <1>8 DEF LookupEffect
    <3>2. KV!Effect(t, store, r)
      BY <1>0, <1>1, <3>1, EffectKV
    <3> QED
      BY <1>8, <3>1, <3>2 DEF LookupEffect, KV!Lookup, KV!Effect, key
  <2> QED
    BY <2>1 DEF KV!Next
<1>9. CASE ScanEffect(t)
  <2>1. PICK n \in 0 .. call[t].val : Takes(t, store, n)
    BY <1>9 DEF ScanEffect
  <2>2. call[t].val \in Nat /\ call[t].name = "scan"
    BY <1>0, <1>9, ScanSizeIs DEF ScanEffect
  <2>3. KV!Effect(t, store, n)
    BY <1>0, <1>1, <2>1, <2>2, EffectKV
  <2>4. KV!Scan(t)
    BY <2>1, <2>2, <2>3 DEF KV!Scan
  <2> QED
    BY <2>4 DEF KV!Next
<1>10. CASE ~(Invoke(t) \/ Return(t))
  <2>1. Silent(t) \/ InsertEffect(t) \/ RemoveEffect(t) \/ LookupEffect(t) \/ ScanEffect(t)
    BY <1>0, <1>10, SilentSteps, EffectSteps, Zenon DEF Step
  <2> QED
    BY <1>5, <1>6, <1>7, <1>8, <1>9, <2>1
<1> QED
  BY <1>3, <1>4, <1>10

(* SPTree implements the atomic map, for any threads, keys, values,         *)
(* workloads, capacities and number of nodes: every insert, remove and      *)
(* lookup takes effect in one step between its invocation and its return,   *)
(* with the result that the map gives in that step, though lookup and       *)
(* remove read the filter, the buffer and the leaf without a lock, while    *)
(* other threads flush, split and merge the node.  A scan returns at most   *)
(* the number of records that it was asked for.                             *)
THEOREM SPTreeIsLinearizable == Spec => Linearizable
<1>1. Init => KV!Init
  BY InitKV
<1>2. /\ LockInv /\ NodesInv /\ TileInv /\ ContentInv /\ PhaseInv /\ [Next]_vars
      => [KV!Next]_(KV!kvVars)
  <2> SUFFICES ASSUME LockInv, NodesInv, TileInv, ContentInv, PhaseInv, [Next]_vars
               PROVE  KV!Next \/ UNCHANGED KV!kvVars
    OBVIOUS
  <2>1. ASSUME NEW t \in Threads, Run(t) PROVE KV!Next \/ UNCHANGED KV!kvVars
    BY <2>1, StepKV DEF Run
  <2>2. CASE UNCHANGED vars
    BY <2>2 DEF vars, locals, KV!kvVars
  <2> QED
    BY <2>1, <2>2 DEF Next, Finished
<1> QED
  BY <1>1, <1>2, SpecContentInv, SpecPhaseInv, PTL DEF Spec, Linearizable, KV!Spec
=============================================================================
