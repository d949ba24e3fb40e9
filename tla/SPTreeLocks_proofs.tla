------------------------- MODULE SPTreeLocks_proofs -------------------------
(***************************************************************************)
(* The locks and the links of the middle layer of SPTree, for any threads, *)
(* keys, workloads and number of nodes.                                    *)
(*                                                                         *)
(* The lock discipline and the shape of the list depend on each other: a   *)
(* thread finds the neighbour that it locks through the list, and the list *)
(* is only changed under the locks.  They are proved together, as one      *)
(* inductive invariant, LockInv.                                           *)
(***************************************************************************)
EXTENDS SPTree, TLAPS

-----------------------------------------------------------------------------
(* The two low bits of the word of RetryVersionLock.                       *)

(* A successful upgrade of a free word sets the lock bit and nothing else. *)
LEMMA UpgradeSetsLockBit ==
    ASSUME NEW w \in Nat, ~isLocked(w), ~isObsolete(w)
    PROVE  /\ UpgradedWord(w) \in Nat /\ UpgradedWord(w) > w
           /\ isLocked(UpgradedWord(w)) /\ ~isObsolete(UpgradedWord(w))
BY DEF isLocked, isObsolete, UpgradedWord

(* writeUnlock of a locked word clears the lock bit by a carry. *)
LEMMA UnlockClearsLockBit ==
    ASSUME NEW w \in Nat, isLocked(w), ~isObsolete(w)
    PROVE  /\ UnlockedWord(w) \in Nat /\ UnlockedWord(w) > w
           /\ ~isLocked(UnlockedWord(w)) /\ ~isObsolete(UnlockedWord(w))
BY DEF isLocked, isObsolete, UnlockedWord

(* writeUnlockObsolete does the same and sets the obsolete bit. *)
LEMMA ObsoleteSetsObsoleteBit ==
    ASSUME NEW w \in Nat, isLocked(w), ~isObsolete(w)
    PROVE  /\ ObsoleteWord(w) \in Nat /\ ObsoleteWord(w) > w
           /\ ~isLocked(ObsoleteWord(w)) /\ isObsolete(ObsoleteWord(w))
BY DEF isLocked, isObsolete, ObsoleteWord

(* The word a node starts with is free. *)
LEMMA InitWordIsFree == InitWord \in Nat /\ ~isLocked(InitWord) /\ ~isObsolete(InitWord)
BY DEF InitWord, isLocked, isObsolete

-----------------------------------------------------------------------------
(* Locks and links.                                                        *)

Allocated == 1 .. nodes

(* Between the unlinking of a merged node and the unlock that makes it      *)
(* obsolete, the node is still live and no longer on the list.              *)
OffList == {"topRemove", "unlockObsolete"}
Linked  == {n \in Live : \A t \in Threads : pc[t] \in OffList => other[t] # n}

Free(w) == ~isLocked(w) /\ ~isObsolete(w)

(* A thread is changing node n while its range or its leaf list differ from *)
(* the links: after Split until SetHkey, after Merge until Unlink.          *)
Changing(n, where) == \E t \in Threads : at[t] = n /\ pc[t] \in where

-----------------------------------------------------------------------------
(* The parts of the invariant.                                             *)

PointerTypes ==
    /\ nodes \in Node /\ nodes >= 2
    /\ lkey = [n \in Node |-> lkey[n]] /\ hkey = [n \in Node |-> hkey[n]]
    /\ prev \in [Node -> Node \cup {Null}]
    /\ next \in [Node -> Node \cup {Null}]
    /\ leafNext \in [Node -> Node \cup {Null}]
    /\ lock \in [Node -> Nat]
    /\ top \subseteq Allocated
    /\ pc \in [Threads -> Pcs]
    /\ at \in [Threads -> Node \cup {Null}]
    /\ ver \in [Threads -> Nat]
    /\ other \in [Threads -> Node \cup {Null}]
    /\ call \in [Threads -> Call]
    /\ calls \in [Threads -> Nat]
    /\ work \in Workloads

(* No pointer leads to a node that has not been allocated, and only the     *)
(* last node has no successor.                                              *)
PointersAllocated ==
    /\ \A n \in Node \ Allocated : lock[n] = InitWord
    /\ \A n \in Allocated : /\ prev[n] \in Allocated \cup {Null}
                            /\ next[n] \in Allocated \cup {Null}
                            /\ n # DummyTail => next[n] # Null

(* The list: it is closed, no two nodes on it have the same successor, and  *)
(* it runs back as it runs forth.                                           *)
ListOK ==
    /\ DummyTail \in Linked
    /\ \A n \in Linked \ {DummyTail} : next[n] \in Linked /\ prev[next[n]] = n
    /\ \A n, m \in Linked \ {DummyTail} : next[n] = next[m] => n = m

(* Ranges and leaf links follow the list, except where a thread is at work. *)
RangesMeet ==
    /\ lkey[DummyTail] = MaxKey /\ hkey[DummyTail] = MaxKey
    /\ \A n \in Linked \ {DummyTail} :
          /\ ~Changing(n, {"setHkey", "unlink"}) => hkey[n] = lkey[next[n]]
          /\ ~Changing(n, {"unlink"}) => leafNext[n] = next[n]

(* A thread that works on a node has one. *)
AtOK(t) == pc[t] \notin {"idle", "seek", "null", "return", "exit"} => at[t] \in Allocated

(* The node a thread has locked is on the list and really locked, *)
AtHeldOK(t) == pc[t] \in AtHeld => /\ at[t] \in Linked \ {DummyTail}
                                   /\ isLocked(lock[at[t]])

(* and so is its neighbour. *)
OtherHeldOK(t) == pc[t] \in OtherHeld => /\ other[t] \in Live
                                         /\ isLocked(lock[other[t]])

NeighbourOK(t) ==
    /\ pc[t] \in {"split", "mergeCas", "merge", "unlink"} => other[t] = next[at[t]]
    /\ pc[t] = "mergeRead" => next[at[t]] # DummyTail
    /\ pc[t] \in {"mergeCas", "merge", "unlink", "topRemove", "unlockObsolete"} =>
          other[t] # DummyTail
    /\ pc[t] \in OtherHeld \ {"unlockNext"} => other[t] # at[t]
    /\ pc[t] = "unlink" => /\ hkey[at[t]] = hkey[other[t]]
                           /\ leafNext[at[t]] = leafNext[other[t]]

(* A snapshot that an upgrade will use was taken from a free word. *)
SnapshotOK(t) ==
    /\ pc[t] \in {"bloom", "checkBloom", "upgrade"} => Free(ver[t])
    /\ pc[t] \in {"scanNode", "scanSort", "scanUpgrade"} /\ harm = "none" => Free(ver[t])
    /\ pc[t] = "mergeCas" => ~isLocked(ver[t])

(* No key is in the empty range of the last node. *)
NotTail(t) ==
    pc[t] \in {"bloom", "checkBloom", "upgrade", "scanSort", "scanUpgrade", "scanRelock",
               "scanRead", "scanCheck", "scanAdvance"} => at[t] # DummyTail

ThreadOK(t) ==
    AtOK(t) /\ AtHeldOK(t) /\ OtherHeldOK(t) /\ NeighbourOK(t) /\ SnapshotOK(t) /\ NotTail(t)

(* No node has two holders, *)
Exclusive == \A n \in Node : \A t, u \in Threads : Holds(t, n) /\ Holds(u, n) => t = u

(* and every lock bit has one. *)
Owned == harm # "orphan" =>
            \A n \in Node : isLocked(lock[n]) => \E t \in Threads : Holds(t, n)

LockInv ==
    /\ PointerTypes
    /\ PointersAllocated
    /\ ListOK
    /\ RangesMeet
    /\ \A t \in Threads : ThreadOK(t)
    /\ Exclusive
    /\ Owned

(* The lock discipline is part of it. *)
LEMMA LockInvImpliesLocksHeld == LockInv => LocksHeld
BY DEF LockInv, LocksHeld, Owned, Exclusive, ThreadOK, AtHeldOK, OtherHeldOK, Holds, Linked, Live

(* The nodes on the list are live, live nodes are allocated. *)
LEMMA NodeSets ==
    ASSUME LockInv
    PROVE  /\ nodes \in Nat /\ Null \notin Node /\ DummyTail \in Linked
           /\ Linked \subseteq Live /\ Live \subseteq Allocated /\ Allocated \subseteq Node
           /\ Linked \subseteq Node /\ Live \subseteq Node
BY BoundsAssumption DEF LockInv, PointerTypes, ListOK, Linked, Live, Allocated, Node, Null

(* What a thread is looking for is one of the callers' keys. *)
LEMMA CallKeys ==
    ASSUME PointerTypes, NEW t \in Threads
    PROVE  call[t] \in Call /\ key(t) \in Keys /\ key(t) \in Nat
<1>1. call[t] \in Call
  BY DEF PointerTypes
<1>2. \A c \in Call : c.key \in Keys
  BY DEF Call
<1>3. \A k \in Keys : k \in Nat
  BY KeysAssumption DEF MinKey
<1> QED
  BY <1>1, <1>2, <1>3 DEF key

(* The first leaf and the dummy tail make a list, and nobody holds a lock. *)
LEMMA InitLockInv == Init => LockInv
<1> SUFFICES ASSUME Init PROVE LockInv
  OBVIOUS
<1> USE BoundsAssumption, InitWordIsFree DEF Node, HeadNode, DummyTail, Null
<1>1. PointerTypes
  <2>1. (CHOOSE c \in Call : TRUE) \in Call
    <3>1. PICK k \in Keys : TRUE
      BY KeysAssumption
    <3>2. [name |-> "lookup", key |-> k, val |-> NoVal] \in Call
      BY DEF Call
    <3> QED
      BY <3>2
  <2> QED
    BY <2>1 DEF Init, PointerTypes, Allocated, Pcs
<1>2. PointersAllocated
  BY DEF Init, PointersAllocated, Allocated
<1>3. Linked = {HeadNode, DummyTail}
  BY DEF Init, Linked, Live, OffList
<1>4. ListOK
  BY <1>3 DEF Init, ListOK
<1>5. RangesMeet
  BY <1>3 DEF Init, RangesMeet
<1>6. \A t \in Threads : ThreadOK(t)
  BY DEF Init, ThreadOK, AtOK, AtHeldOK, OtherHeldOK, NeighbourOK, SnapshotOK, NotTail,
         AtHeld, OtherHeld
<1>7. Exclusive /\ Owned
  BY DEF Init, Exclusive, Owned, Holds, AtHeld, OtherHeld
<1> QED
  BY <1>1, <1>2, <1>4, <1>5, <1>6, <1>7 DEF LockInv

-----------------------------------------------------------------------------
(* Steps that leave the list alone.                                        *)

(* A step of thread t changes no other thread's locals. *)
OthersStay(t) ==
    \A u \in Threads \ {t} : /\ pc'[u] = pc[u] /\ at'[u] = at[u]
                             /\ ver'[u] = ver[u] /\ other'[u] = other[u]

LocalTypes ==
    /\ pc \in [Threads -> Pcs] /\ at \in [Threads -> Node \cup {Null}]
    /\ ver \in [Threads -> Nat] /\ other \in [Threads -> Node \cup {Null}]
    /\ call \in [Threads -> Call] /\ calls \in [Threads -> Nat] /\ work \in Workloads

(* What thread t does to the lock bits fits what it holds before and after: *)
(* it enters only sections that were free, locks nothing else, and leaves   *)
(* alone what others have locked.                                           *)
LockBitsFollow(t) ==
    \A n \in Node :
        /\ Holds(t, n)' => isLocked(lock'[n]) /\ (Holds(t, n) \/ ~isLocked(lock[n]))
        /\ harm' # "orphan" =>
              (isLocked(lock'[n]) => Holds(t, n)' \/ (isLocked(lock[n]) /\ ~Holds(t, n)))
        /\ isLocked(lock[n]) /\ ~Holds(t, n) => isLocked(lock'[n])

LocksFollow(t) ==
    LockBitsFollow(t) /\ \A n \in Node : isObsolete(lock'[n]) <=> isObsolete(lock[n])

(* Then every section still has at most one holder, and every lock bit one. *)
LEMMA HoldersAfter ==
    ASSUME LockInv, NEW t \in Threads, harm = "none", OthersStay(t), LockBitsFollow(t)
    PROVE  Exclusive' /\ Owned'
<1>1. \A u \in Threads \ {t} : \A n \in Node : Holds(u, n)' <=> Holds(u, n)
  BY DEF OthersStay, Holds
<1>2. \A u \in Threads : \A n \in Node : Holds(u, n) => isLocked(lock[n])
  BY DEF LockInv, ThreadOK, AtHeldOK, OtherHeldOK, Holds
<1>3. Exclusive'
  BY <1>1, <1>2 DEF LockInv, Exclusive, LockBitsFollow
<1>4. Owned'
  BY <1>1, <1>2 DEF LockInv, Owned, LockBitsFollow
<1> QED
  BY <1>3, <1>4

(* A step that changes neither the list nor a node's range: it is enough to  *)
(* look at the thread itself.                                               *)
LEMMA ListUntouched ==
    ASSUME LockInv, NEW t \in Threads, harm = "none",
           UNCHANGED <<nodes, lkey, hkey, prev, next, leafNext>>,
           lock' \in [Node -> Nat], \A n \in Node \ Allocated : lock'[n] = lock[n],
           (top \subseteq Allocated)', LocalTypes', OthersStay(t), LocksFollow(t),
           pc[t] \notin {"setHkey", "unlink"},
           pc[t] \in OffList <=> pc'[t] \in OffList,
           pc[t] \in OffList => other'[t] = other[t],
           ThreadOK(t)'
    PROVE  LockInv'
<1>1. PointerTypes' /\ PointersAllocated' /\ Allocated' = Allocated
  BY DEF LockInv, PointerTypes, PointersAllocated, LocalTypes, Allocated
<1>2. Linked' = Linked /\ Live' = Live
  BY NodeSets DEF Linked, Live, Allocated, OthersStay, LocksFollow
<1>3. ListOK'
  BY <1>2 DEF LockInv, ListOK
<1>4. RangesMeet'
  BY <1>2 DEF LockInv, RangesMeet, Changing, OthersStay
<1>5. ASSUME NEW u \in Threads \ {t} PROVE ThreadOK(u)'
  <2>1. UNCHANGED <<pc[u], at[u], ver[u], other[u]>>
    BY DEF OthersStay
  <2>2. ThreadOK(u)
    BY DEF LockInv
  <2>3. \A n \in Node : Holds(u, n) => isLocked(lock[n]) /\ ~Holds(t, n)
    BY <2>2 DEF LockInv, Exclusive, ThreadOK, AtHeldOK, OtherHeldOK, Holds
  <2>4. \A n \in Node : Holds(u, n) => isLocked(lock'[n])
    BY <2>3 DEF LocksFollow, LockBitsFollow
  <2>5. Linked \subseteq Node /\ Live \subseteq Node
    BY NodeSets
  <2>6. AtHeldOK(u)' /\ OtherHeldOK(u)'
    BY <1>2, <2>1, <2>2, <2>4, <2>5 DEF ThreadOK, AtHeldOK, OtherHeldOK, Holds
  <2>7. AtOK(u)' /\ NeighbourOK(u)' /\ SnapshotOK(u)' /\ NotTail(u)'
    BY <1>1, <2>1, <2>2 DEF ThreadOK, AtOK, NeighbourOK, SnapshotOK, NotTail
  <2> QED
    BY <2>6, <2>7 DEF ThreadOK
<1>6. Exclusive' /\ Owned'
  BY HoldersAfter DEF LocksFollow
<1> QED
  BY <1>1, <1>3, <1>4, <1>5, <1>6 DEF LockInv

(* A step outside all critical sections that leaves the locks alone. *)
LEMMA OutsideStep ==
    ASSUME LockInv, NEW t \in Threads, harm = "none",
           UNCHANGED <<nodes, lkey, hkey, prev, next, leafNext, lock, top>>,
           LocalTypes', OthersStay(t),
           pc[t] \notin AtHeld \cup OtherHeld, pc'[t] \notin AtHeld \cup OtherHeld,
           AtOK(t)', SnapshotOK(t)', NotTail(t)'
    PROVE  LockInv'
<1>1. LocksFollow(t)
  BY DEF LocksFollow, LockBitsFollow, Holds
<1>2. ThreadOK(t)'
  BY DEF ThreadOK, AtHeldOK, OtherHeldOK, NeighbourOK, AtHeld, OtherHeld
<1>3. (top \subseteq Allocated)' /\ lock' \in [Node -> Nat]
  BY DEF LockInv, PointerTypes, Allocated
<1> QED
  BY <1>1, <1>2, <1>3, ListUntouched DEF AtHeld, OtherHeld, OffList

(* A step inside the same critical sections that leaves list and locks      *)
(* alone, for the later parts of the invariant.                             *)
LEMMA InsideStep ==
    ASSUME LockInv, NEW t \in Threads, harm = "none",
           UNCHANGED <<nodes, lkey, hkey, prev, next, leafNext, lock>>,
           (top \subseteq Allocated)', LocalTypes', OthersStay(t), UNCHANGED at[t],
           pc[t] \in AtHeld, pc'[t] \in AtHeld, pc[t] \notin {"setHkey", "unlink"},
           pc[t] \in OtherHeld <=> pc'[t] \in OtherHeld,
           pc[t] \in OtherHeld => UNCHANGED other[t],
           pc[t] \in OffList <=> pc'[t] \in OffList,
           NeighbourOK(t)', SnapshotOK(t)'
    PROVE  LockInv'
<1>1. LocksFollow(t)
  BY DEF LocksFollow, LockBitsFollow, Holds, LockInv, ThreadOK, AtHeldOK, OtherHeldOK
<1>2. AtOK(t)' /\ NotTail(t)'
  BY DEF LockInv, ThreadOK, AtOK, NotTail, AtHeld, Allocated
<1>3. OtherHeldOK(t)'
  BY DEF LockInv, ThreadOK, OtherHeldOK, Live
<1>4. lock' \in [Node -> Nat]
  BY DEF LockInv, PointerTypes
<1>5. pc[t] \in OffList => UNCHANGED other[t]
  BY DEF OffList, OtherHeld
<1>6. Linked' = Linked
  BY <1>5 DEF Linked, Live, OthersStay
<1>7. AtHeldOK(t)'
  BY <1>6 DEF LockInv, ThreadOK, AtHeldOK
<1> QED
  BY <1>1, <1>2, <1>3, <1>4, <1>5, <1>7, ListUntouched DEF ThreadOK

-----------------------------------------------------------------------------
(* The steps, one by one.                                                  *)

(* goto retry *)
LEMMA RetryStep ==
    ASSUME LockInv, NEW t \in Threads, harm = "none", UNCHANGED work, Retry(t),
           UNCHANGED <<nodes, lkey, hkey, prev, next, leafNext, lock, top>>,
           pc[t] \notin AtHeld \cup OtherHeld
    PROVE  LockInv'
<1>1. LocalTypes' /\ OthersStay(t) /\ pc'[t] = "seek"
  BY DEF Retry, LockInv, PointerTypes, LocalTypes, OthersStay, Pcs, NoVal
<1>2. AtOK(t)' /\ SnapshotOK(t)' /\ NotTail(t)'
  BY <1>1 DEF AtOK, SnapshotOK, NotTail
<1> QED
  BY <1>1, <1>2, OutsideStep DEF AtHeld, OtherHeld

(* What a thread is told to call is a call. *)
LEMMA InvokedCall ==
    ASSUME PointerTypes, NEW t \in Threads, Invoke(t)
    PROVE  \E c \in Call : call' = [call EXCEPT ![t] = c]
<1>1. /\ calls[t] < Len(work.calls[t]) /\ calls[t] \in Nat /\ work \in Workloads
      /\ \E c \in work.calls[t][calls[t] + 1] : call' = [call EXCEPT ![t] = c]
  BY Zenon DEF Invoke, PointerTypes
<1>2. work.calls[t] \in Seq(SUBSET Call)
  BY <1>1, WorkloadsAssumption DEF IsWorkload
<1>3. calls[t] + 1 \in 1 .. Len(work.calls[t])
  BY <1>1, <1>2
<1>4. work.calls[t][calls[t] + 1] \subseteq Call
  BY <1>2, <1>3
<1> QED
  BY <1>1, <1>4

(* Calls, returns, the walk to a node and the reads of lookup and remove. *)
LEMMA SearchSteps ==
    ASSUME LockInv, NEW t \in Threads, harm = "none", UNCHANGED work,
           \/ Invoke(t) \/ Return(t) \/ SeekLE(t) \/ WalkLeft(t) \/ WalkRight(t) \/ ReadLock(t)
           \/ ReadBloom(t) \/ CheckBloom(t) \/ ReadBuffer(t) \/ ReadLeaf(t) \/ CheckValue(t)
    PROVE  LockInv'
<1> USE DEF Goto, Hop, middle, content, sorting, shared, scans, locals
<1>0. PointerTypes /\ ThreadOK(t)
  BY DEF LockInv
<1>1. CASE Invoke(t) \/ Return(t)
  <2>1. call' \in [Threads -> Call] /\ calls' \in [Threads -> Nat]
    <3>1. CASE Invoke(t)
      <4>1. calls' = [calls EXCEPT ![t] = @ + 1]
        BY <3>1, Zenon DEF Invoke
      <4>2. \E c \in Call : call' = [call EXCEPT ![t] = c]
        BY <1>0, <3>1, InvokedCall
      <4> QED
        BY <1>0, <4>1, <4>2 DEF PointerTypes
    <3>2. CASE Return(t)
      BY <1>0, <3>2 DEF Return, PointerTypes
    <3> QED
      BY <1>1, <3>1, <3>2
  <2>2. /\ pc' \in [Threads -> Pcs] /\ at' \in [Threads -> Node \cup {Null}]
        /\ ver' \in [Threads -> Nat] /\ other' \in [Threads -> Node \cup {Null}]
    <3>1. CASE Invoke(t)
      BY <1>0, <3>1 DEF Invoke, PointerTypes, Pcs
    <3>2. CASE Return(t)
      BY <1>0, <3>2 DEF Return, PointerTypes, Pcs
    <3> QED
      BY <1>1, <3>1, <3>2
  <2>3. /\ OthersStay(t) /\ pc[t] \in {"idle", "return"} /\ pc'[t] \in {"idle", "seek"}
        /\ UNCHANGED <<nodes, lkey, hkey, prev, next, leafNext, lock, top>>
    BY <1>0, <1>1 DEF Invoke, Return, PointerTypes, OthersStay
  <2>4. LocalTypes'
    BY <1>0, <2>1, <2>2 DEF LocalTypes, PointerTypes
  <2> QED
    BY <2>3, <2>4, OutsideStep DEF AtOK, SnapshotOK, NotTail, AtHeld, OtherHeld
<1>2. CASE SeekLE(t)
  <2>1. /\ LocalTypes' /\ OthersStay(t) /\ pc[t] = "seek" /\ pc'[t] = "walkLeft" /\ at'[t] \in top
        /\ UNCHANGED <<nodes, lkey, hkey, prev, next, leafNext, lock, top>>
    BY <1>0, <1>2, NodeSets DEF SeekLE, PointerTypes, LocalTypes, OthersStay, Pcs
  <2> QED
    BY <1>0, <2>1, OutsideStep
    DEF AtOK, SnapshotOK, NotTail, AtHeld, OtherHeld, PointerTypes, Allocated
<1>3. CASE WalkLeft(t) \/ WalkRight(t)
  <2>1. /\ LocalTypes' /\ OthersStay(t) /\ pc[t] \in {"walkLeft", "walkRight"}
        /\ pc'[t] \in {"null", "walkLeft", "walkRight", "readLock"}
        /\ at'[t] \in {at[t], prev[at[t]], next[at[t]]}
        /\ pc'[t] = "null" \/ at'[t] # Null
        /\ UNCHANGED <<nodes, lkey, hkey, prev, next, leafNext, lock, top>>
    BY <1>0, <1>3, NodeSets
    DEF WalkLeft, WalkRight, PointerTypes, ThreadOK, AtOK, LocalTypes, OthersStay, Pcs
  <2>2. AtOK(t)'
    BY <1>0, <2>1 DEF LockInv, PointersAllocated, ThreadOK, AtOK, Allocated
  <2> QED
    BY <2>1, <2>2, OutsideStep DEF SnapshotOK, NotTail, AtHeld, OtherHeld
<1>4. CASE ReadLock(t)
  <2>1. CASE isObsolete(lock[at[t]]) \/ ~InRange(at[t], key(t))
    BY <1>4, <2>1, RetryStep DEF ReadLock, AtHeld, OtherHeld
  <2>2. CASE ~isObsolete(lock[at[t]]) /\ InRange(at[t], key(t))
    <3>1. at[t] \in Node /\ at[t] \in Allocated /\ lock[at[t]] \in Nat
      BY <1>0, <1>4, NodeSets DEF ReadLock, ThreadOK, AtOK, PointerTypes
    <3>2. /\ LocalTypes' /\ OthersStay(t) /\ pc[t] = "readLock" /\ UNCHANGED at
          /\ pc'[t] \in {"upgrade", "scanLock", "bloom"}
          /\ ver'[t] = lock[at[t]] /\ ~isLocked(lock[at[t]])
          /\ UNCHANGED <<nodes, lkey, hkey, prev, next, leafNext, lock, top>>
      BY <1>0, <1>4, <2>2, <3>1 DEF ReadLock, PointerTypes, LocalTypes, OthersStay, Pcs
    <3>3. at[t] # DummyTail
      <4>1. key(t) \in Nat
        BY <1>0, CallKeys, KeysAssumption DEF MinKey
      <4> QED
        BY <2>2, <4>1, KeysAssumption DEF InRange, LockInv, RangesMeet
    <3> QED
      BY <2>2, <3>1, <3>2, <3>3, OutsideStep
      DEF AtOK, SnapshotOK, NotTail, Free, AtHeld, OtherHeld, Allocated
  <2> QED
    BY <2>1, <2>2
<1>5. CASE ReadBloom(t) \/ ReadBuffer(t) \/ ReadLeaf(t)
  <2>1. /\ LocalTypes' /\ OthersStay(t) /\ UNCHANGED <<at, ver>>
        /\ pc[t] \in {"bloom", "readBuffer", "readLeaf"}
        /\ pc'[t] \in {"checkBloom", "readLeaf", "checkValue"}
        /\ pc'[t] = "checkBloom" => pc[t] = "bloom"
        /\ UNCHANGED <<nodes, lkey, hkey, prev, next, leafNext, lock, top>>
    BY <1>0, <1>5 DEF ReadBloom, ReadBuffer, ReadLeaf, PointerTypes, LocalTypes, OthersStay, Pcs
  <2> QED
    BY <1>0, <2>1, OutsideStep
    DEF ThreadOK, AtOK, SnapshotOK, NotTail, AtHeld, OtherHeld, Allocated
<1>6. CASE CheckBloom(t) \/ CheckValue(t)
  <2>1. CASE lock[at[t]] # ver[t]
    BY <1>6, <2>1, RetryStep DEF CheckBloom, CheckValue, AtHeld, OtherHeld
  <2>2. CASE lock[at[t]] = ver[t]
    <3>1. /\ LocalTypes' /\ OthersStay(t) /\ UNCHANGED <<at, ver>>
          /\ pc[t] \in {"checkBloom", "checkValue"}
          /\ pc'[t] \in {"return", "upgrade", "readBuffer", "readLeaf"}
          /\ pc'[t] = "upgrade" => pc[t] = "checkBloom"
          /\ UNCHANGED <<nodes, lkey, hkey, prev, next, leafNext, lock, top>>
      BY <1>0, <1>6, <2>2 DEF CheckBloom, CheckValue, PointerTypes, LocalTypes, OthersStay, Pcs
    <3> QED
      BY <1>0, <3>1, OutsideStep
      DEF ThreadOK, AtOK, SnapshotOK, NotTail, AtHeld, OtherHeld, Allocated
  <2> QED
    BY <2>1, <2>2
<1> QED
  BY <1>1, <1>2, <1>3, <1>4, <1>5, <1>6

(* A behaviour in which a scan takes an obsolete word for its version ends  *)
(* as a known defect.                                                       *)
LEMMA ObsoleteIsHarm ==
    ASSUME NEW t \in Threads, pc[t] \in {"scanLock", "scanNext"}, isObsolete(lock[at[t]])
    PROVE  Harm(t) # "none"
BY Zenon DEF Harm

(* So does one in which a merge leaves its neighbour locked. *)
LEMMA MergeFailsIsHarm ==
    ASSUME NEW t \in Threads, pc[t] = "merge", UNCHANGED needSort,
           ~LeafCanMerge(leaf[at[t]], leaf[leafNext[at[t]]])
    PROVE  Harm(t) = "orphan"
BY Zenon DEF Harm, MustFlush

(* The steps of a scan outside its critical sections, and the late reset of *)
(* a split node's buffer.                                                   *)
LEMMA ScanSteps ==
    ASSUME LockInv, NEW t \in Threads, harm = "none", harm' = Harm(t), UNCHANGED work,
           \/ ScanLock(t) \/ ScanNode(t) \/ ScanRelock(t) \/ ScanRead(t) \/ ScanCheck(t)
           \/ ScanAdvance(t) \/ ScanNext(t) \/ ResetBuffer(t)
    PROVE  LockInv'
<1> USE DEF Goto, middle, content, sorting, shared, scans, locals
<1>0. PointerTypes /\ ThreadOK(t)
  BY DEF LockInv
<1>1. CASE ScanLock(t) \/ ScanRelock(t) \/ ScanNext(t)
  <2>1. at[t] \in Allocated /\ lock[at[t]] \in Nat
    BY <1>0, <1>1, NodeSets
    DEF ScanLock, ScanRelock, ScanNext, ScanVersion, ThreadOK, AtOK, PointerTypes
  <2>2. /\ LocalTypes' /\ OthersStay(t) /\ UNCHANGED at
        /\ pc[t] \in {"scanLock", "scanRelock", "scanNext"}
        /\ \/ pc'[t] = "scanLock"
           \/ /\ pc'[t] \in {"scanNode", "scanRead"}
              /\ ver'[t] = lock[at[t]] /\ ~isLocked(lock[at[t]])
        /\ pc'[t] = "scanRead" => pc[t] = "scanRelock"
        /\ pc'[t] = "scanNode" => pc[t] \in {"scanLock", "scanNext"}
        /\ UNCHANGED <<nodes, lkey, hkey, prev, next, leafNext, lock, top>>
    <3>1. CASE ScanLock(t)
      BY <1>0, <2>1, <3>1 DEF ScanLock, PointerTypes, LocalTypes, OthersStay, Pcs
    <3>2. CASE ScanRelock(t)
      BY <1>0, <2>1, <3>2
      DEF ScanRelock, ScanVersion, PointerTypes, LocalTypes, OthersStay, Pcs
    <3>3. CASE ScanNext(t)
      BY <1>0, <2>1, <3>3
      DEF ScanNext, ScanVersion, PointerTypes, LocalTypes, OthersStay, Pcs
    <3> QED
      BY <1>1, <3>1, <3>2, <3>3
  <2>3. SnapshotOK(t)'
    BY <2>2, ObsoleteIsHarm DEF SnapshotOK, Free
  <2> QED
    BY <1>0, <2>1, <2>2, <2>3, OutsideStep
    DEF ThreadOK, AtOK, NotTail, AtHeld, OtherHeld, Allocated
<1>2. CASE ScanNode(t)
  <2>1. /\ LocalTypes' /\ OthersStay(t) /\ UNCHANGED <<at, ver>>
        /\ pc[t] = "scanNode" /\ pc'[t] \in {"return", "scanUpgrade", "scanSort"}
        /\ pc'[t] # "return" => lkey[at[t]] # hkey[at[t]]
        /\ UNCHANGED <<nodes, lkey, hkey, prev, next, leafNext, lock, top>>
    BY ZenonT(60), <1>0, <1>2 DEF ScanNode, PointerTypes, LocalTypes, OthersStay, Pcs
  <2>2. pc'[t] # "return" => at[t] # DummyTail
    BY <2>1 DEF LockInv, RangesMeet
  <2> QED
    BY <1>0, <2>1, <2>2, OutsideStep
    DEF ThreadOK, AtOK, SnapshotOK, NotTail, AtHeld, OtherHeld, Allocated
<1>3. CASE ScanRead(t) \/ ScanCheck(t)
  <2>1. /\ LocalTypes' /\ OthersStay(t) /\ UNCHANGED <<at, ver>>
        /\ pc[t] \in {"scanRead", "scanCheck"}
        /\ pc'[t] \in {"exit", "scanNext", "scanCheck", "scanLock", "scanAdvance"}
        /\ UNCHANGED <<nodes, lkey, hkey, prev, next, leafNext, lock, top>>
    <3>1. CASE ScanRead(t)
      <4>1. PICK to \in {"exit", "scanNext", "scanCheck"} : pc' = [pc EXCEPT ![t] = to]
        BY <3>1, Zenon DEF ScanRead
      <4>2. /\ pc[t] = "scanRead" /\ UNCHANGED <<at, ver, other, call, calls>>
            /\ UNCHANGED <<nodes, lkey, hkey, prev, next, leafNext, lock, top>>
        BY <3>1, Zenon DEF ScanRead
      <4> QED
        BY <1>0, <4>1, <4>2 DEF PointerTypes, LocalTypes, OthersStay, Pcs
    <3>2. CASE ScanCheck(t)
      BY <1>0, <3>2 DEF ScanCheck, PointerTypes, LocalTypes, OthersStay, Pcs
    <3> QED
      BY <1>3, <3>1, <3>2
  <2> QED
    BY <1>0, <2>1, OutsideStep
    DEF ThreadOK, AtOK, SnapshotOK, NotTail, AtHeld, OtherHeld, Allocated
<1>4. CASE ScanAdvance(t)
  <2>1. at[t] \in Allocated /\ at[t] # DummyTail
    BY <1>0, <1>4 DEF ScanAdvance, ThreadOK, AtOK, NotTail
  <2>2. next[at[t]] \in Allocated
    BY <2>1 DEF LockInv, PointersAllocated
  <2>3. /\ LocalTypes' /\ OthersStay(t)
        /\ pc[t] = "scanAdvance" /\ pc'[t] = "scanNext" /\ at'[t] = next[at[t]]
        /\ UNCHANGED <<nodes, lkey, hkey, prev, next, leafNext, lock, top>>
    BY <1>0, <1>4, <2>2, NodeSets DEF ScanAdvance, PointerTypes, LocalTypes, OthersStay, Pcs
  <2> QED
    BY <2>2, <2>3, OutsideStep
    DEF AtOK, SnapshotOK, NotTail, AtHeld, OtherHeld, Allocated
<1>5. CASE ResetBuffer(t)
  <2>1. CASE call[t].name = "insert"
    <3>1. /\ LocalTypes' /\ OthersStay(t) /\ pc[t] = "resetBuffer" /\ pc'[t] = "return"
          /\ UNCHANGED <<nodes, lkey, hkey, prev, next, leafNext, lock, top>>
      BY <1>0, <1>5, <2>1 DEF ResetBuffer, PointerTypes, LocalTypes, OthersStay, Pcs
    <3> QED
      BY <3>1, OutsideStep DEF AtOK, SnapshotOK, NotTail, AtHeld, OtherHeld
  <2>2. CASE call[t].name # "insert"
    BY <1>5, <2>2, RetryStep DEF ResetBuffer, AtHeld, OtherHeld
  <2> QED
    BY <2>1, <2>2
<1> QED
  BY <1>1, <1>2, <1>3, <1>4, <1>5

-----------------------------------------------------------------------------
(* Locks are taken and released.                                           *)

(* The thread's own part of the invariant, after a step that leaves the     *)
(* list alone.                                                              *)
LEMMA HeldAfter ==
    ASSUME LockInv, NEW t \in Threads,
           UNCHANGED nodes, OthersStay(t), LocksFollow(t),
           pc[t] \in OffList <=> pc'[t] \in OffList,
           pc[t] \in OffList => other'[t] = other[t],
           pc'[t] \in AtHeld => at'[t] \in Linked \ {DummyTail},
           pc'[t] \in OtherHeld => other'[t] \in Live,
           AtOK(t)', NeighbourOK(t)', SnapshotOK(t)', NotTail(t)'
    PROVE  ThreadOK(t)'
<1>1. Linked' = Linked /\ Live' = Live
  BY NodeSets DEF Linked, Live, Allocated, OthersStay, LocksFollow
<1>2. AtHeldOK(t)' /\ OtherHeldOK(t)'
  BY <1>1, NodeSets DEF AtHeldOK, OtherHeldOK, LocksFollow, LockBitsFollow, Holds
<1> QED
  BY <1>2 DEF ThreadOK

(* Thread t takes the lock of node n. *)
LEMMA AcquireStep ==
    ASSUME LockInv, NEW t \in Threads, harm = "none",
           UNCHANGED <<nodes, lkey, hkey, prev, next, leafNext, top>>,
           NEW n \in Live, ~isLocked(lock[n]),
           lock' = [lock EXCEPT ![n] = UpgradedWord(@)],
           LocalTypes', OthersStay(t),
           \A m \in Node : Holds(t, m)' <=> (Holds(t, m) \/ m = n),
           pc[t] \notin {"setHkey", "unlink"} \cup OffList, pc'[t] \notin OffList,
           pc'[t] \in AtHeld => at'[t] \in Linked \ {DummyTail},
           pc'[t] \in OtherHeld => other'[t] \in Live,
           AtOK(t)', NeighbourOK(t)', SnapshotOK(t)', NotTail(t)'
    PROVE  LockInv'
<1>1. n \in Node /\ n \in Allocated /\ lock \in [Node -> Nat] /\ ~isObsolete(lock[n])
  BY NodeSets DEF LockInv, PointerTypes, Live
<1>2. lock'[n] \in Nat /\ isLocked(lock'[n]) /\ ~isObsolete(lock'[n])
  BY <1>1, UpgradeSetsLockBit
<1>3. lock' \in [Node -> Nat] /\ \A m \in Node \ {n} : lock'[m] = lock[m]
  BY <1>1, <1>2
<1>4. \A m \in Node : Holds(t, m) => isLocked(lock[m])
  BY DEF LockInv, ThreadOK, AtHeldOK, OtherHeldOK, Holds
<1>5. LocksFollow(t)
  BY <1>1, <1>2, <1>3, <1>4 DEF LocksFollow, LockBitsFollow
<1>6. ThreadOK(t)'
  BY <1>5, HeldAfter
<1>7. (top \subseteq Allocated)'
  BY DEF LockInv, PointerTypes, Allocated
<1> QED
  BY <1>1, <1>3, <1>5, <1>6, <1>7, ListUntouched

(* Thread t releases the lock of node n. *)
LEMMA ReleaseStep ==
    ASSUME LockInv, NEW t \in Threads, harm = "none",
           UNCHANGED <<nodes, lkey, hkey, prev, next, leafNext, top>>,
           NEW n \in Live, Holds(t, n), lock' = [lock EXCEPT ![n] = UnlockedWord(@)],
           LocalTypes', OthersStay(t),
           \A m \in Node : Holds(t, m)' <=> (Holds(t, m) /\ m # n),
           pc[t] \notin {"setHkey", "unlink"} \cup OffList, pc'[t] \notin OffList,
           pc'[t] \in AtHeld => at'[t] \in Linked \ {DummyTail},
           pc'[t] \in OtherHeld => other'[t] \in Live,
           AtOK(t)', NeighbourOK(t)', SnapshotOK(t)', NotTail(t)'
    PROVE  LockInv'
<1>0. \A m \in Node : Holds(t, m) => isLocked(lock[m])
  BY DEF LockInv, ThreadOK, AtHeldOK, OtherHeldOK, Holds
<1>1. /\ n \in Node /\ n \in Allocated /\ lock \in [Node -> Nat]
      /\ isLocked(lock[n]) /\ ~isObsolete(lock[n])
  BY <1>0, NodeSets DEF LockInv, PointerTypes, Live
<1>2. lock'[n] \in Nat /\ ~isLocked(lock'[n]) /\ ~isObsolete(lock'[n])
  BY <1>1, UnlockClearsLockBit
<1>3. lock' \in [Node -> Nat] /\ \A m \in Node \ {n} : lock'[m] = lock[m]
  BY <1>1, <1>2
<1>5. LocksFollow(t)
  BY <1>0, <1>1, <1>2, <1>3 DEF LocksFollow, LockBitsFollow
<1>6. ThreadOK(t)'
  BY <1>5, HeldAfter
<1>7. (top \subseteq Allocated)'
  BY DEF LockInv, PointerTypes, Allocated
<1> QED
  BY <1>1, <1>3, <1>5, <1>6, <1>7, ListUntouched

(* A node whose word is a free snapshot is on the list: the nodes that have *)
(* just left it are locked.                                                 *)
LEMMA FreeIsLinked ==
    ASSUME LockInv, NEW n \in Allocated, Free(lock[n])
    PROVE  n \in Linked
BY DEF LockInv, Linked, Live, Allocated, Free, ThreadOK, OtherHeldOK, OffList, OtherHeld

(* The upgrades by compare-and-swap, and the neighbour's lock of a split    *)
(* and of a merge.                                                          *)
LEMMA AcquireSteps ==
    ASSUME LockInv, NEW t \in Threads, harm = "none", harm' = Harm(t), UNCHANGED work,
           Upgrade(t) \/ ScanUpgrade(t) \/ ScanSort(t) \/ LockNext(t) \/ MergeCas(t)
    PROVE  LockInv'
<1> USE DEF Goto, middle, content, sorting, shared, scans, locals
<1>0. PointerTypes /\ ThreadOK(t)
  BY DEF LockInv
<1>1. CASE \/ (Upgrade(t) \/ ScanUpgrade(t)) /\ lock[at[t]] = ver[t]
           \/ ScanSort(t) /\ needSort[at[t]] /\ lock[at[t]] = ver[t]
  <2>1. /\ pc[t] \in {"upgrade", "scanUpgrade", "scanSort"} /\ lock[at[t]] = ver[t]
        /\ lock' = [lock EXCEPT ![at[t]] = UpgradedWord(@)]
        /\ UNCHANGED <<at, ver, other, call, calls>>
        /\ UNCHANGED <<nodes, lkey, hkey, prev, next, leafNext, top>>
    BY <1>1, Zenon DEF Upgrade, ScanUpgrade, ScanSort
  <2>2. PICK to \in {"insertLocked", "removeLocked", "scanFlush", "scanSorted"} :
            pc' = [pc EXCEPT ![t] = to]
    BY <1>1, Zenon DEF Upgrade, ScanUpgrade, ScanSort
  <2>3. at[t] \in Allocated /\ at[t] # DummyTail /\ Free(lock[at[t]])
    BY <1>0, <2>1 DEF ThreadOK, AtOK, NotTail, SnapshotOK
  <2>4. at[t] \in Linked /\ at[t] \in Live /\ ~isLocked(lock[at[t]])
    BY <2>3, FreeIsLinked, NodeSets DEF Free
  <2>5. LocalTypes' /\ OthersStay(t) /\ pc'[t] = to
    BY <1>0, <2>1, <2>2 DEF PointerTypes, LocalTypes, OthersStay, Pcs
  <2>6. \A m \in Node : Holds(t, m)' <=> (Holds(t, m) \/ m = at[t])
    BY <2>1, <2>5 DEF Holds, AtHeld, OtherHeld
  <2>7. AtOK(t)' /\ NeighbourOK(t)' /\ SnapshotOK(t)' /\ NotTail(t)'
    BY <2>1, <2>3, <2>5 DEF AtOK, NeighbourOK, SnapshotOK, NotTail, Allocated, OtherHeld
  <2> QED
    BY <2>1, <2>3, <2>4, <2>5, <2>6, <2>7, AcquireStep DEF AtHeld, OtherHeld, OffList
<1>2. CASE (Upgrade(t) \/ ScanUpgrade(t)) /\ lock[at[t]] # ver[t]
  BY <1>2, RetryStep DEF Upgrade, ScanUpgrade, AtHeld, OtherHeld
<1>3. CASE ScanSort(t) /\ ~(needSort[at[t]] /\ lock[at[t]] = ver[t])
  <2>1. /\ pc[t] = "scanSort" /\ UNCHANGED <<at, ver, other, call, calls>>
        /\ UNCHANGED <<nodes, lkey, hkey, prev, next, leafNext, lock, top>>
    BY <1>3, Zenon DEF ScanSort
  <2>2. PICK to \in {"scanRead", "scanLock"} : pc' = [pc EXCEPT ![t] = to]
    BY <1>3, Zenon DEF ScanSort
  <2>3. LocalTypes' /\ OthersStay(t) /\ pc'[t] = to
    BY <1>0, <2>1, <2>2 DEF PointerTypes, LocalTypes, OthersStay, Pcs
  <2> QED
    BY <1>0, <2>1, <2>3, OutsideStep
    DEF ThreadOK, AtOK, SnapshotOK, NotTail, AtHeld, OtherHeld, Allocated
<1>4. CASE LockNext(t)
  <2> DEFINE n == next[at[t]]
  <2>1. /\ pc[t] = "lockNext" /\ ~isLocked(lock[n])
        /\ lock' = [lock EXCEPT ![n] = UpgradedWord(@)]
        /\ pc' = [pc EXCEPT ![t] = "split"] /\ other' = [other EXCEPT ![t] = n]
        /\ UNCHANGED <<at, ver, call, calls, nodes, lkey, hkey, prev, next, leafNext, top>>
    BY <1>4, Zenon DEF LockNext
  <2>2. at[t] \in Linked \ {DummyTail} /\ isLocked(lock[at[t]]) /\ at[t] \in Allocated
    BY <1>0, <2>1, NodeSets DEF ThreadOK, AtHeldOK, AtHeld
  <2>3. n \in Linked /\ n \in Live /\ n \in Node /\ n # at[t]
    BY <2>1, <2>2, NodeSets DEF LockInv, ListOK
  <2>4. LocalTypes' /\ OthersStay(t) /\ pc'[t] = "split" /\ other'[t] = n
    BY <1>0, <2>1, <2>3 DEF PointerTypes, LocalTypes, OthersStay, Pcs
  <2>5. \A m \in Node : Holds(t, m)' <=> (Holds(t, m) \/ m = n)
    BY <2>1, <2>4 DEF Holds, AtHeld, OtherHeld
  <2>6. AtOK(t)' /\ NeighbourOK(t)' /\ SnapshotOK(t)' /\ NotTail(t)'
    BY <2>1, <2>2, <2>3, <2>4 DEF AtOK, NeighbourOK, SnapshotOK, NotTail, Allocated, OtherHeld
  <2> QED
    BY <2>1, <2>2, <2>3, <2>4, <2>5, <2>6, AcquireStep DEF AtHeld, OffList
<1>5. CASE MergeCas(t)
  <2> DEFINE n == other[t]
  <2>1. /\ pc[t] = "mergeCas" /\ UNCHANGED <<at, ver, other, call, calls>>
        /\ UNCHANGED <<nodes, lkey, hkey, prev, next, leafNext, top>>
    BY <1>5, Zenon DEF MergeCas
  <2>2. at[t] \in Linked \ {DummyTail} /\ isLocked(lock[at[t]]) /\ at[t] \in Allocated
    BY <1>0, <2>1, NodeSets DEF ThreadOK, AtHeldOK, AtHeld
  <2>3. n = next[at[t]] /\ n # DummyTail /\ ~isLocked(ver[t])
    BY <1>0, <2>1 DEF ThreadOK, NeighbourOK, SnapshotOK
  <2>4. n \in Linked /\ n \in Live /\ n \in Node
    BY <2>2, <2>3, NodeSets DEF LockInv, ListOK
  <2>5. CASE lock[n] = ver[t]
    <3>1. lock' = [lock EXCEPT ![n] = UpgradedWord(@)] /\ pc' = [pc EXCEPT ![t] = "merge"]
      BY <1>5, <2>5, Zenon DEF MergeCas
    <3>2. LocalTypes' /\ OthersStay(t) /\ pc'[t] = "merge"
      BY <1>0, <2>1, <3>1 DEF PointerTypes, LocalTypes, OthersStay, Pcs
    <3>3. \A m \in Node : Holds(t, m)' <=> (Holds(t, m) \/ m = n)
      BY <2>1, <3>2 DEF Holds, AtHeld, OtherHeld
    <3>4. AtOK(t)' /\ NeighbourOK(t)' /\ SnapshotOK(t)' /\ NotTail(t)'
      BY <2>1, <2>2, <2>3, <2>5, <3>2
      DEF AtOK, NeighbourOK, SnapshotOK, NotTail, Allocated, OtherHeld
    <3> QED
      BY <2>1, <2>2, <2>3, <2>4, <2>5, <3>1, <3>2, <3>3, <3>4, AcquireStep DEF AtHeld, OffList
  <2>6. CASE lock[n] # ver[t]
    <3>1. lock' = lock /\ pc' = [pc EXCEPT ![t] = "unlock"]
      BY <1>5, <2>6, Zenon DEF MergeCas
    <3>2. LocalTypes' /\ OthersStay(t) /\ pc'[t] = "unlock" /\ (top \subseteq Allocated)'
      BY <1>0, <2>1, <3>1 DEF PointerTypes, LocalTypes, OthersStay, Pcs, Allocated
    <3>3. NeighbourOK(t)' /\ SnapshotOK(t)'
      BY <3>2 DEF NeighbourOK, SnapshotOK, OtherHeld
    <3> QED
      BY <2>1, <3>1, <3>2, <3>3, InsideStep DEF AtHeld, OtherHeld, OffList
  <2> QED
    BY <2>5, <2>6
<1> QED
  BY <1>1, <1>2, <1>3, <1>4, <1>5

(* Unlocks. *)
LEMMA ReleaseSteps ==
    ASSUME LockInv, NEW t \in Threads, harm = "none", harm' = Harm(t), UNCHANGED work,
           Unlock(t) \/ UnlockLeft(t) \/ UnlockNext(t) \/ ScanUnlock(t) \/ ScanSorted(t)
    PROVE  LockInv'
<1> USE DEF Goto, middle, content, sorting, shared, scans, locals
<1>0. PointerTypes /\ ThreadOK(t)
  BY DEF LockInv
<1>1. CASE Unlock(t) \/ UnlockLeft(t) \/ ScanSorted(t)
  <2>1. /\ pc[t] \in {"unlock", "unlockLeft", "scanSorted"}
        /\ lock' = [lock EXCEPT ![at[t]] = UnlockedWord(@)]
        /\ UNCHANGED <<at, ver, other, call, calls>>
        /\ UNCHANGED <<nodes, lkey, hkey, prev, next, leafNext, top>>
    BY <1>1, Zenon DEF Unlock, UnlockLeft, ScanSorted
  <2>2. PICK to \in {"return", "unlockNext", "scanRelock"} :
            pc' = [pc EXCEPT ![t] = to] /\ (to = "unlockNext" <=> pc[t] = "unlockLeft")
    BY <1>1 DEF Unlock, UnlockLeft, ScanSorted
  <2>3. at[t] \in Linked /\ at[t] # DummyTail /\ at[t] \in Live /\ at[t] \in Allocated
    BY <1>0, <2>1, NodeSets DEF ThreadOK, AtHeldOK, AtHeld
  <2>4. LocalTypes' /\ OthersStay(t) /\ pc'[t] = to
    BY <1>0, <2>1, <2>2 DEF PointerTypes, LocalTypes, OthersStay, Pcs
  <2>5. pc[t] = "unlockLeft" => other[t] \in Live /\ other[t] # at[t]
    BY <1>0 DEF ThreadOK, OtherHeldOK, NeighbourOK, OtherHeld
  <2>6. Holds(t, at[t]) /\ \A m \in Node : Holds(t, m)' <=> (Holds(t, m) /\ m # at[t])
    BY <2>1, <2>2, <2>4, <2>5 DEF Holds, AtHeld, OtherHeld
  <2>7. AtOK(t)' /\ NeighbourOK(t)' /\ SnapshotOK(t)' /\ NotTail(t)'
    BY <2>1, <2>3, <2>4 DEF AtOK, NeighbourOK, SnapshotOK, NotTail, Allocated, OtherHeld
  <2> QED
    BY <2>1, <2>2, <2>3, <2>4, <2>5, <2>6, <2>7, ReleaseStep DEF AtHeld, OtherHeld, OffList
<1>2. CASE UnlockNext(t)
  <2>1. /\ pc[t] = "unlockNext" /\ lock' = [lock EXCEPT ![other[t]] = UnlockedWord(@)]
        /\ UNCHANGED <<at, ver, other, call, calls>>
        /\ UNCHANGED <<nodes, lkey, hkey, prev, next, leafNext, top>>
    BY <1>2, Zenon DEF UnlockNext
  <2>2. PICK to \in {"return", "resetBuffer"} : pc' = [pc EXCEPT ![t] = to]
    BY <1>2 DEF UnlockNext
  <2>3. other[t] \in Live /\ at[t] \in Allocated
    BY <1>0, <2>1 DEF ThreadOK, AtOK, OtherHeldOK, OtherHeld
  <2>4. LocalTypes' /\ OthersStay(t) /\ pc'[t] = to
    BY <1>0, <2>1, <2>2 DEF PointerTypes, LocalTypes, OthersStay, Pcs
  <2>5. Holds(t, other[t]) /\ \A m \in Node : Holds(t, m)' <=> (Holds(t, m) /\ m # other[t])
    BY <2>1, <2>4 DEF Holds, AtHeld, OtherHeld
  <2>6. AtOK(t)' /\ NeighbourOK(t)' /\ SnapshotOK(t)' /\ NotTail(t)'
    BY <2>1, <2>3, <2>4 DEF AtOK, NeighbourOK, SnapshotOK, NotTail, Allocated, OtherHeld
  <2> QED
    BY <2>1, <2>3, <2>4, <2>5, <2>6, ReleaseStep DEF AtHeld, OtherHeld, OffList
<1>3. CASE ScanUnlock(t)
  <2>1. /\ pc[t] = "scanUnlock" /\ lock' = [lock EXCEPT ![at[t]] = UnlockedWord(@)] /\ Retry(t)
        /\ UNCHANGED <<nodes, lkey, hkey, prev, next, leafNext, top>>
    BY <1>3, Zenon DEF ScanUnlock
  <2>2. at[t] \in Live
    BY <1>0, <2>1, NodeSets DEF ThreadOK, AtHeldOK, AtHeld
  <2>3. LocalTypes' /\ OthersStay(t) /\ pc'[t] = "seek"
    BY <1>0, <2>1 DEF Retry, PointerTypes, LocalTypes, OthersStay, Pcs
  <2>4. Holds(t, at[t]) /\ \A m \in Node : Holds(t, m)' <=> (Holds(t, m) /\ m # at[t])
    BY <2>1, <2>3 DEF Holds, AtHeld, OtherHeld
  <2>5. AtOK(t)' /\ NeighbourOK(t)' /\ SnapshotOK(t)' /\ NotTail(t)'
    BY <2>3 DEF AtOK, NeighbourOK, SnapshotOK, NotTail, OtherHeld
  <2> QED
    BY <2>1, <2>2, <2>3, <2>4, <2>5, ReleaseStep DEF AtHeld, OtherHeld, OffList
<1> QED
  BY <1>1, <1>2, <1>3

-----------------------------------------------------------------------------
(* Steps inside the critical sections.                                     *)

(* A node in the critical section of one thread is not being changed by     *)
(* another one.                                                             *)
LEMMA HeldIsUnchanging ==
    ASSUME LockInv, NEW t \in Threads, NEW n \in Node, Holds(t, n),
           at[t] # n \/ pc[t] \notin {"setHkey", "unlink"}
    PROVE  ~Changing(n, {"setHkey", "unlink"}) /\ ~Changing(n, {"unlink"})
BY DEF LockInv, Exclusive, Changing, Holds, AtHeld

(* The node and the neighbour that a thread has locked. *)
LEMMA HeldNodes ==
    ASSUME LockInv, NEW t \in Threads
    PROVE  /\ pc[t] \in AtHeld => /\ at[t] \in Linked /\ at[t] # DummyTail
                                  /\ at[t] \in Node /\ at[t] \in Allocated
                                  /\ Holds(t, at[t])
           /\ pc[t] \in OtherHeld => /\ other[t] \in Live /\ other[t] \in Node
                                     /\ other[t] \in Allocated /\ Holds(t, other[t])
           /\ pc[t] \in OtherHeld \ OffList => other[t] \in Linked
<1>1. ThreadOK(t)
  BY DEF LockInv
<1>2. pc[t] \in OtherHeld => other[t] \in Live /\ other[t] \in Node /\ Holds(t, other[t])
  BY <1>1, NodeSets DEF ThreadOK, OtherHeldOK, Holds
<1>3. pc[t] \in OtherHeld \ OffList => other[t] \in Linked
  BY <1>2 DEF LockInv, Exclusive, Linked, Holds, OffList, OtherHeld
<1> QED
  BY <1>1, <1>2, <1>3, NodeSets DEF ThreadOK, AtHeldOK, Holds

(* Writes to the leaf, the buffer and the top layer under the lock, and the *)
(* tests of a merge.                                                        *)
LEMMA InsideSteps ==
    ASSUME LockInv, NEW t \in Threads, harm = "none", harm' = Harm(t), UNCHANGED work,
           \/ InsertToBuffer(t) \/ FlushMLNodeBuffer(t) \/ InsertToLeaf(t) \/ StartSplit(t)
           \/ RemoveLocked(t) \/ TopInsert(t) \/ TopRemove(t)
           \/ MergeCheck(t) \/ MergeRead(t) \/ MergeFails(t)
    PROVE  LockInv'
<1> USE DEF Goto, middle, content, sorting, shared, scans, locals
<1>0. PointerTypes /\ ThreadOK(t)
  BY DEF LockInv
<1>1. CASE \/ InsertToBuffer(t) \/ FlushMLNodeBuffer(t) \/ InsertToLeaf(t) \/ StartSplit(t)
           \/ RemoveLocked(t)
  <2>1. /\ pc[t] \in {"insertLocked", "scanFlush", "removeLocked"}
        /\ UNCHANGED <<at, ver, other, call, calls>>
        /\ UNCHANGED <<nodes, lkey, hkey, prev, next, leafNext, lock, top>>
    BY <1>1, Zenon
    DEF InsertToBuffer, FlushMLNodeBuffer, InsertToLeaf, StartSplit, RemoveLocked, MustFlush
  <2>2. PICK to \in {"unlock", "scanUnlock", "lockNext", "mergeCheck"} :
            pc' = [pc EXCEPT ![t] = to]
    BY <1>1, Zenon
    DEF InsertToBuffer, FlushMLNodeBuffer, InsertToLeaf, StartSplit, RemoveLocked
  <2>3. LocalTypes' /\ OthersStay(t) /\ pc'[t] = to /\ (top \subseteq Allocated)'
    BY <1>0, <2>1, <2>2 DEF PointerTypes, LocalTypes, OthersStay, Pcs, Allocated
  <2>4. NeighbourOK(t)' /\ SnapshotOK(t)'
    BY <2>3 DEF NeighbourOK, SnapshotOK, OtherHeld
  <2> QED
    BY <2>1, <2>3, <2>4, InsideStep DEF AtHeld, OtherHeld, OffList
<1>2. CASE TopInsert(t) \/ TopRemove(t)
  <2>1. /\ pc[t] \in {"topInsert", "topRemove"}
        /\ top' \subseteq top \cup {next[at[t]]}
        /\ UNCHANGED <<at, ver, other, call, calls>>
        /\ UNCHANGED <<nodes, lkey, hkey, prev, next, leafNext, lock>>
    BY <1>2, Zenon DEF TopInsert, TopRemove
  <2>2. /\ pc' = [pc EXCEPT ![t] = IF pc[t] = "topInsert" THEN "unlockLeft" ELSE "unlockObsolete"]
    BY <1>2 DEF TopInsert, TopRemove
  <2>3. next[at[t]] \in Allocated
    BY <2>1, HeldNodes, NodeSets DEF LockInv, ListOK, AtHeld
  <2>4. LocalTypes' /\ OthersStay(t) /\ (top \subseteq Allocated)'
        /\ pc'[t] = IF pc[t] = "topInsert" THEN "unlockLeft" ELSE "unlockObsolete"
    BY <1>0, <2>1, <2>2, <2>3 DEF PointerTypes, LocalTypes, OthersStay, Pcs, Allocated
  <2>5. NeighbourOK(t)' /\ SnapshotOK(t)'
    BY <1>0, <2>1, <2>4 DEF ThreadOK, NeighbourOK, SnapshotOK, OtherHeld
  <2> QED
    BY <2>1, <2>4, <2>5, InsideStep DEF AtHeld, OtherHeld, OffList
<1>3. CASE MergeCheck(t)
  <2>1. /\ pc[t] = "mergeCheck" /\ UNCHANGED <<at, ver, other, call, calls>>
        /\ UNCHANGED <<nodes, lkey, hkey, prev, next, leafNext, lock, top>>
    BY <1>3, Zenon DEF MergeCheck
  <2>2. PICK to \in {"mergeRead", "unlock"} :
            pc' = [pc EXCEPT ![t] = to] /\ (to = "mergeRead" => hkey[at[t]] # MaxKey)
    BY <1>3 DEF MergeCheck
  <2>3. LocalTypes' /\ OthersStay(t) /\ pc'[t] = to /\ (top \subseteq Allocated)'
    BY <1>0, <2>1, <2>2 DEF PointerTypes, LocalTypes, OthersStay, Pcs, Allocated
  <2>4. at[t] \in Linked \ {DummyTail} /\ ~Changing(at[t], {"setHkey", "unlink"})
    BY <2>1, HeldNodes, HeldIsUnchanging DEF AtHeld
  <2>5. to = "mergeRead" => next[at[t]] # DummyTail
    BY <2>2, <2>4 DEF LockInv, RangesMeet
  <2>6. NeighbourOK(t)' /\ SnapshotOK(t)'
    BY <2>1, <2>3, <2>5 DEF NeighbourOK, SnapshotOK, OtherHeld
  <2> QED
    BY <2>1, <2>3, <2>6, InsideStep DEF AtHeld, OtherHeld, OffList
<1>4. CASE MergeRead(t)
  <2> DEFINE n == next[at[t]]
  <2>1. /\ pc[t] = "mergeRead" /\ UNCHANGED <<at, call, calls>>
        /\ UNCHANGED <<nodes, lkey, hkey, prev, next, leafNext, lock, top>>
    BY <1>4, Zenon DEF MergeRead
  <2>2. n \in Linked /\ n \in Node /\ n # DummyTail /\ lock[n] \in Nat
    BY <1>0, <2>1, HeldNodes, NodeSets
    DEF LockInv, ListOK, ThreadOK, NeighbourOK, AtHeld, PointerTypes
  <2>3. \/ pc' = [pc EXCEPT ![t] = "unlock"] /\ UNCHANGED <<ver, other>>
        \/ /\ pc' = [pc EXCEPT ![t] = "mergeCas"] /\ ~isLocked(lock[n])
           /\ ver' = [ver EXCEPT ![t] = lock[n]] /\ other' = [other EXCEPT ![t] = n]
    BY <1>4 DEF MergeRead
  <2>4. LocalTypes' /\ OthersStay(t) /\ (top \subseteq Allocated)'
    BY <1>0, <2>1, <2>2, <2>3 DEF PointerTypes, LocalTypes, OthersStay, Pcs, Allocated
  <2>5. /\ pc'[t] \in {"unlock", "mergeCas"}
        /\ pc'[t] = "mergeCas" => other'[t] = n /\ ~isLocked(ver'[t])
    BY <1>0, <2>3 DEF PointerTypes
  <2>6. NeighbourOK(t)' /\ SnapshotOK(t)'
    BY <2>1, <2>2, <2>5 DEF NeighbourOK, SnapshotOK, OtherHeld
  <2> QED
    BY <2>1, <2>4, <2>5, <2>6, InsideStep DEF AtHeld, OtherHeld, OffList
<1>5. CASE MergeFails(t)
  <2>1. /\ pc[t] = "merge" /\ pc' = [pc EXCEPT ![t] = "unlock"]
        /\ ~LeafCanMerge(leaf[at[t]], leaf[leafNext[at[t]]]) /\ UNCHANGED needSort
        /\ UNCHANGED <<at, ver, other, call, calls>>
        /\ UNCHANGED <<nodes, lkey, hkey, prev, next, leafNext, lock, top>>
    BY <1>5, Zenon DEF MergeFails
  <2>2. harm' = "orphan"
    BY <2>1, MergeFailsIsHarm
  <2>3. LocalTypes' /\ OthersStay(t) /\ pc'[t] = "unlock" /\ (top \subseteq Allocated)'
    BY <1>0, <2>1 DEF PointerTypes, LocalTypes, OthersStay, Pcs, Allocated
  <2>4. LocksFollow(t)
    BY <1>0, <2>1, <2>2, <2>3
    DEF LocksFollow, LockBitsFollow, Holds, ThreadOK, AtHeldOK, AtHeld, OtherHeld
  <2>5. AtOK(t)' /\ NeighbourOK(t)' /\ SnapshotOK(t)' /\ NotTail(t)'
    BY <1>0, <2>1, <2>3
    DEF ThreadOK, AtOK, NeighbourOK, SnapshotOK, NotTail, OtherHeld, Allocated
  <2>6. ThreadOK(t)'
    BY <2>1, <2>3, <2>4, <2>5, HeldNodes, HeldAfter DEF AtHeld, OtherHeld, OffList
  <2> QED
    BY <1>0, <2>1, <2>3, <2>4, <2>6, ListUntouched DEF PointerTypes, OffList
<1> QED
  BY <1>1, <1>2, <1>3, <1>4, <1>5

-----------------------------------------------------------------------------
(* Steps that change the list.                                             *)

(* Thread t changes only nodes that it has locked (or that nobody can reach *)
(* yet), so what the other threads rely on stays.                           *)
LEMMA OthersKeep ==
    ASSUME LockInv, NEW t \in Threads, harm = "none", OthersStay(t), LockBitsFollow(t),
           Allocated \subseteq Allocated',
           \A n \in Node : ~Holds(t, n) => /\ n \in Linked => n \in Linked'
                                           /\ n \in Live => n \in Live',
           \A n \in Allocated : ~Holds(t, n) => UNCHANGED <<next[n], hkey[n], leafNext[n]>>
    PROVE  \A u \in Threads \ {t} : ThreadOK(u)'
<1> SUFFICES ASSUME NEW u \in Threads \ {t} PROVE ThreadOK(u)'
  OBVIOUS
<1>1. UNCHANGED <<pc[u], at[u], ver[u], other[u]>>
  BY DEF OthersStay
<1>2. ThreadOK(u)
  BY DEF LockInv
<1>3. \A n \in Node : Holds(u, n) => isLocked(lock[n]) /\ ~Holds(t, n)
  BY <1>2 DEF LockInv, Exclusive, ThreadOK, AtHeldOK, OtherHeldOK, Holds
<1>4. \A n \in Node : Holds(u, n) => isLocked(lock'[n])
  BY <1>3 DEF LockBitsFollow
<1>5. AtHeldOK(u)' /\ OtherHeldOK(u)'
  BY <1>1, <1>2, <1>3, <1>4, NodeSets DEF ThreadOK, AtHeldOK, OtherHeldOK, Holds
<1>6. /\ pc[u] \in AtHeld => /\ next'[at[u]] = next[at[u]]
                             /\ hkey'[at[u]] = hkey[at[u]]
                             /\ leafNext'[at[u]] = leafNext[at[u]]
      /\ pc[u] \in OtherHeld => /\ hkey'[other[u]] = hkey[other[u]]
                                /\ leafNext'[other[u]] = leafNext[other[u]]
  BY <1>3, HeldNodes
<1>7. NeighbourOK(u)'
  BY <1>1, <1>2, <1>6 DEF ThreadOK, NeighbourOK, AtHeld, OtherHeld
<1>8. AtOK(u)' /\ SnapshotOK(u)' /\ NotTail(u)'
  BY <1>1, <1>2 DEF ThreadOK, AtOK, SnapshotOK, NotTail
<1> QED
  BY <1>5, <1>7, <1>8 DEF ThreadOK

(* The new node is linked in behind the one that was split. *)
LEMMA SplitStep ==
    ASSUME LockInv, NEW t \in Threads, harm = "none", UNCHANGED work, Split(t)
    PROVE  LockInv'
<1> DEFINE left == at[t]
           right == next[at[t]]
           new == nodes + 1
<1>0. PointerTypes /\ ThreadOK(t) /\ nodes \in Nat
  BY NodeSets DEF LockInv
<1>1. /\ pc[t] = "split" /\ pc' = [pc EXCEPT ![t] = "setHkey"] /\ new \in Node
      /\ nodes' = new
      /\ leafNext' = [leafNext EXCEPT ![left] = new, ![new] = leafNext[left]]
      /\ \E m : lkey' = [lkey EXCEPT ![new] = m]
      /\ hkey' = [hkey EXCEPT ![new] = hkey[left]]
      /\ prev' = [prev EXCEPT ![new] = left, ![right] = new]
      /\ next' = [next EXCEPT ![new] = right, ![left] = new]
      /\ UNCHANGED <<at, ver, other, call, calls, lock, top>>
  BY Zenon DEF Split, Goto, scans
<1>2. left \in Linked /\ left # DummyTail /\ left \in Node /\ left \in Allocated /\ Holds(t, left)
  BY <1>1, HeldNodes DEF AtHeld
<1>3. right = other[t] /\ right # left /\ right \in Linked /\ right \in Node /\ right \in Allocated /\ Holds(t, right)
  BY <1>0, <1>1, HeldNodes DEF ThreadOK, NeighbourOK, OtherHeld, OffList
<1>4. new \notin Allocated /\ Allocated' = Allocated \cup {new} /\ Allocated' \subseteq Node
  BY <1>0, <1>1, NodeSets DEF Allocated
<1>5. lock[new] = InitWord /\ ~isObsolete(lock[new])
  BY <1>1, <1>4, InitWordIsFree DEF LockInv, PointersAllocated
<1>6. Live' = Live \cup {new}
  BY <1>1, <1>4, <1>5 DEF Live, Allocated
<1>7. \A u \in Threads : pc[u] \in OffList => other[u] # new
  BY <1>4, HeldNodes DEF OffList, OtherHeld
<1>8. OthersStay(t) /\ pc'[t] = "setHkey"
  BY <1>0, <1>1 DEF PointerTypes, OthersStay
<1>9. Linked' = Linked \cup {new}
  BY <1>1, <1>6, <1>7, <1>8 DEF Linked, OthersStay, OffList
<1>10. PointerTypes'
  <2>1. /\ prev' \in [Node -> Node \cup {Null}] /\ next' \in [Node -> Node \cup {Null}]
        /\ leafNext' \in [Node -> Node \cup {Null}] /\ nodes' \in Node /\ nodes' >= 2
    <3>1. nodes' \in Node /\ nodes' >= 2
      BY <1>0, <1>1 DEF PointerTypes
    <3>2. /\ prev' \in [Node -> Node \cup {Null}] /\ next' \in [Node -> Node \cup {Null}]
          /\ leafNext' \in [Node -> Node \cup {Null}]
      BY <1>0, <1>1, <1>2, <1>3 DEF PointerTypes
    <3> QED
      BY <3>1, <3>2
  <2>2. lkey' = [m \in Node |-> lkey'[m]] /\ hkey' = [m \in Node |-> hkey'[m]]
    BY <1>0, <1>1 DEF PointerTypes
  <2>3. /\ lock' \in [Node -> Nat] /\ (top \subseteq Allocated)' /\ pc' \in [Threads -> Pcs]
    BY <1>0, <1>1, <1>4 DEF PointerTypes, Pcs
  <2> QED
    BY <1>0, <1>1, <2>1, <2>2, <2>3 DEF PointerTypes
<1>11. /\ next'[new] = right /\ next'[left] = new
       /\ \A m \in Node \ {left, new} : next'[m] = next[m]
       /\ prev'[new] = left /\ prev'[right] = new
       /\ \A m \in Node \ {right, new} : prev'[m] = prev[m]
       /\ leafNext'[new] = leafNext[left] /\ leafNext'[left] = new
       /\ \A m \in Node \ {left, new} : leafNext'[m] = leafNext[m]
       /\ hkey'[new] = hkey[left]
       /\ \A m \in Node \ {new} : hkey'[m] = hkey[m] /\ lkey'[m] = lkey[m]
  BY <1>0, <1>1, <1>2, <1>3, <1>4 DEF PointerTypes
<1>12. PointersAllocated'
  <2>1. \A m \in Node \ Allocated' : lock'[m] = InitWord
    BY <1>1, <1>4 DEF LockInv, PointersAllocated
  <2>2. \A m \in Allocated : prev'[m] \in Allocated' \cup {Null}
    BY <1>3, <1>4, <1>11, NodeSets DEF LockInv, PointersAllocated
  <2>3. \A m \in Allocated : /\ next'[m] \in Allocated' \cup {Null}
                             /\ m # DummyTail => next'[m] # Null
    <3> SUFFICES ASSUME NEW m \in Allocated
                 PROVE  /\ next'[m] \in Allocated' \cup {Null}
                        /\ m # DummyTail => next'[m] # Null
      OBVIOUS
    <3>1. m \in Node /\ m # new /\ new # Null
      BY <1>4, NodeSets
    <3>2. next'[m] = IF m = left THEN new ELSE next[m]
      BY <1>11, <3>1
    <3>3. /\ next[m] \in Allocated \cup {Null}
          /\ m # DummyTail => next[m] # Null
      BY DEF LockInv, PointersAllocated
    <3> QED
      BY <1>4, <3>1, <3>2, <3>3
  <2>4. /\ prev'[new] \in Allocated' /\ next'[new] \in Allocated' /\ next'[new] # Null
    BY <1>2, <1>3, <1>4, <1>11, NodeSets
  <2>5. \A m \in Allocated' : /\ prev'[m] \in Allocated' \cup {Null}
                              /\ next'[m] \in Allocated' \cup {Null}
                              /\ m # DummyTail => next'[m] # Null
    BY <1>4, <2>2, <2>3, <2>4
  <2> QED
    BY <2>1, <2>5 DEF PointersAllocated
<1>13. ListOK'
  <2>1. DummyTail \in Linked'
    BY <1>9, NodeSets
  <2>2. \A m \in Linked' \ {DummyTail} : next'[m] \in Linked' /\ prev'[next'[m]] = m
    <3> SUFFICES ASSUME NEW m \in Linked \ {DummyTail}, m # left
                 PROVE  next'[m] \in Linked' /\ prev'[next'[m]] = m
      BY <1>3, <1>9, <1>11
    <3>1. m # new /\ m \in Node /\ next'[m] = next[m]
      BY <1>4, <1>11, NodeSets
    <3>2. next[m] \in Linked /\ next[m] # right /\ prev[next[m]] = m
      BY <1>2 DEF LockInv, ListOK
    <3>3. next[m] # new /\ next[m] \in Node
      BY <1>4, <3>2, NodeSets
    <3> QED
      BY <1>9, <1>11, <3>1, <3>2, <3>3
  <2>3. \A m, l \in Linked' \ {DummyTail} : next'[m] = next'[l] => m = l
    BY <2>2
  <2> QED
    BY <2>1, <2>2, <2>3 DEF ListOK
<1>14. RangesMeet'
  <2>1. DummyTail \in Node \ {new}
    BY <1>4, NodeSets
  <2>2. lkey'[DummyTail] = MaxKey /\ hkey'[DummyTail] = MaxKey
    BY <1>11, <2>1 DEF LockInv, RangesMeet
  <2>3. hkey[left] = lkey[right] /\ leafNext[left] = right
    BY <1>1, <1>2, HeldIsUnchanging DEF LockInv, RangesMeet
  <2>4. ASSUME NEW m \in Node, m = left PROVE Changing(m, {"setHkey", "unlink"})'
    BY <1>1, <1>8, <2>4 DEF Changing
  <2>5. ASSUME NEW m \in Linked \ {DummyTail}, m # left
        PROVE  /\ ~Changing(m, {"setHkey", "unlink"})' => hkey'[m] = lkey'[next'[m]]
               /\ ~Changing(m, {"unlink"})' => leafNext'[m] = next'[m]
    <3>1. m \in Node \ {left, new} /\ next[m] \in Node \ {new} /\ next'[m] = next[m]
      BY <1>4, <1>11, <2>5, NodeSets DEF LockInv, ListOK
    <3>2. /\ Changing(m, {"setHkey", "unlink"})' <=> Changing(m, {"setHkey", "unlink"})
          /\ Changing(m, {"unlink"})' <=> Changing(m, {"unlink"})
      BY <1>1, <1>8, <2>5 DEF Changing, OthersStay
    <3> QED
      BY <1>11, <2>5, <3>1, <3>2 DEF LockInv, RangesMeet
  <2>6. lkey'[right] = lkey[right]
    BY <1>3, <1>4, <1>11
  <2>7. hkey'[new] = lkey'[next'[new]] /\ leafNext'[new] = next'[new] /\ leafNext'[left] = next'[left]
    BY <1>11, <2>3, <2>6
  <2>8. \A m \in Linked' \ {DummyTail} :
          /\ ~Changing(m, {"setHkey", "unlink"})' => hkey'[m] = lkey'[next'[m]]
          /\ ~Changing(m, {"unlink"})' => leafNext'[m] = next'[m]
    BY <1>2, <1>9, <2>4, <2>5, <2>7
  <2> QED
    BY <2>2, <2>8 DEF RangesMeet
<1>15. LockBitsFollow(t)
  BY <1>0, <1>1, <1>8 DEF LockBitsFollow, Holds, ThreadOK, AtHeldOK, OtherHeldOK, AtHeld, OtherHeld
<1>16. ThreadOK(t)'
  BY <1>0, <1>1, <1>2, <1>3, <1>4, <1>6, <1>8, <1>9
  DEF ThreadOK, AtOK, AtHeldOK, OtherHeldOK, NeighbourOK, SnapshotOK, NotTail, AtHeld, OtherHeld
<1>17. \A u \in Threads \ {t} : ThreadOK(u)'
  <2>1. \A m \in Allocated : ~Holds(t, m) => UNCHANGED <<next[m], hkey[m], leafNext[m]>>
    BY <1>2, <1>4, <1>11, NodeSets
  <2> QED
    BY <1>4, <1>6, <1>8, <1>9, <1>15, <2>1, OthersKeep
<1> QED
  BY <1>8, <1>10, <1>12, <1>13, <1>14, <1>15, <1>16, <1>17, HoldersAfter DEF LockInv

(* The range and the leaf link of a locked node change, between two control *)
(* points at which its neighbour is locked as well.                         *)
LEMMA RangeStep ==
    ASSUME LockInv, NEW t \in Threads, harm = "none",
           UNCHANGED <<work, nodes, lkey, prev, next, lock, top, at, ver, other, call, calls>>,
           NEW h, hkey' = [hkey EXCEPT ![at[t]] = h],
           NEW l \in Node \cup {Null}, leafNext' = [leafNext EXCEPT ![at[t]] = l],
           NEW to \in (AtHeld \cap OtherHeld) \ OffList, pc' = [pc EXCEPT ![t] = to],
           pc[t] \in (AtHeld \cap OtherHeld) \ OffList,
           to # "unlink" => h = lkey[next[at[t]]] /\ l = next[at[t]],
           to \in Pcs \ {"split", "merge"}, pc[t] \in {"setHkey", "merge"},
           to = "unlink" => h = hkey[other[t]] /\ l = leafNext[other[t]] /\ pc[t] = "merge"
    PROVE  LockInv'
<1>0. PointerTypes /\ ThreadOK(t)
  BY DEF LockInv
<1>1. OthersStay(t) /\ pc'[t] = to
  BY <1>0 DEF PointerTypes, OthersStay
<1>2. /\ at[t] \in Linked /\ at[t] # DummyTail /\ at[t] \in Node /\ Holds(t, at[t])
      /\ other[t] \in Node /\ other[t] # at[t]
  BY <1>0, HeldNodes DEF ThreadOK, NeighbourOK
<1>3. /\ hkey'[at[t]] = h /\ leafNext'[at[t]] = l
      /\ \A m \in Node \ {at[t]} : hkey'[m] = hkey[m] /\ leafNext'[m] = leafNext[m]
  BY <1>0, <1>2 DEF PointerTypes
<1>4. PointerTypes'
  BY <1>0, <1>2 DEF PointerTypes, Allocated
<1>5. Allocated' = Allocated /\ Live' = Live /\ Linked' = Linked
  BY <1>1 DEF Allocated, Live, Linked, OthersStay
<1>6. PointersAllocated' /\ ListOK'
  BY <1>5 DEF LockInv, PointersAllocated, ListOK
<1>7. RangesMeet'
  <2>1. lkey'[DummyTail] = MaxKey /\ hkey'[DummyTail] = MaxKey
    BY <1>2, <1>3, NodeSets DEF LockInv, RangesMeet
  <2>2. ASSUME NEW m \in Linked \ {DummyTail}
        PROVE  /\ ~Changing(m, {"setHkey", "unlink"})' => hkey'[m] = lkey'[next'[m]]
               /\ ~Changing(m, {"unlink"})' => leafNext'[m] = next'[m]
    <3>1. CASE m = at[t]
      <4>1. CASE to = "unlink"
        BY <1>1, <3>1, <4>1 DEF Changing
      <4>2. CASE to # "unlink"
        BY <1>3, <3>1, <4>2
      <4> QED
        BY <4>1, <4>2
    <3>2. CASE m # at[t]
      <4>1. /\ Changing(m, {"setHkey", "unlink"})' <=> Changing(m, {"setHkey", "unlink"})
            /\ Changing(m, {"unlink"})' <=> Changing(m, {"unlink"})
        BY <1>1, <3>2 DEF Changing, OthersStay
      <4> QED
        BY <1>3, <3>2, <4>1, NodeSets DEF LockInv, RangesMeet
    <3> QED
      BY <3>1, <3>2
  <2> QED
    BY <1>5, <2>1, <2>2 DEF RangesMeet
<1>8. LockBitsFollow(t)
  BY <1>0, <1>1 DEF LockBitsFollow, Holds, ThreadOK, AtHeldOK, OtherHeldOK
<1>9. ThreadOK(t)'
  <2>1. AtOK(t)' /\ AtHeldOK(t)' /\ OtherHeldOK(t)' /\ SnapshotOK(t)' /\ NotTail(t)'
    BY <1>0, <1>1, <1>5
    DEF ThreadOK, AtOK, AtHeldOK, OtherHeldOK, SnapshotOK, NotTail, AtHeld, OtherHeld
  <2>2. NeighbourOK(t)'
    BY <1>0, <1>1, <1>2, <1>3 DEF ThreadOK, NeighbourOK, AtHeld, OtherHeld, OffList
  <2> QED
    BY <2>1, <2>2 DEF ThreadOK
<1>10. \A u \in Threads \ {t} : ThreadOK(u)'
  <2>1. \A m \in Allocated : ~Holds(t, m) => UNCHANGED <<next[m], hkey[m], leafNext[m]>>
    BY <1>2, <1>3, NodeSets
  <2> QED
    BY <1>1, <1>5, <1>8, <2>1, OthersKeep
<1> QED
  BY <1>1, <1>4, <1>6, <1>7, <1>8, <1>9, <1>10, HoldersAfter DEF LockInv

(* The range of the node that was split shrinks, *)
LEMMA SetHkeyStep ==
    ASSUME LockInv, NEW t \in Threads, harm = "none", UNCHANGED work, SetHkey(t)
    PROVE  LockInv'
<1>1. /\ pc[t] = "setHkey" /\ pc' = [pc EXCEPT ![t] = "topInsert"]
      /\ hkey' = [hkey EXCEPT ![at[t]] = lkey[next[at[t]]]] /\ leafNext' = leafNext
      /\ UNCHANGED <<nodes, lkey, prev, next, lock, top, at, ver, other, call, calls>>
  BY Zenon DEF SetHkey, Goto, content, locals
<1>2. at[t] \in Linked \ {DummyTail} /\ at[t] \in Node
  BY <1>1, HeldNodes DEF AtHeld
<1>3. ~Changing(at[t], {"unlink"})
  BY <1>1, <1>2, HeldNodes DEF Changing, LockInv, Exclusive, Holds, AtHeld
<1>4. leafNext[at[t]] = next[at[t]] /\ next[at[t]] \in Node
  BY <1>2, <1>3, NodeSets DEF LockInv, RangesMeet, ListOK
<1>5. leafNext' = [leafNext EXCEPT ![at[t]] = next[at[t]]]
  BY <1>1, <1>4 DEF LockInv, PointerTypes
<1> QED
  BY <1>1, <1>4, <1>5, RangeStep DEF AtHeld, OtherHeld, OffList, Pcs

(* or that of a node takes in its neighbour's. *)
LEMMA MergeStep ==
    ASSUME LockInv, NEW t \in Threads, harm = "none", UNCHANGED work, Merge(t)
    PROVE  LockInv'
<1>1. /\ pc[t] = "merge" /\ pc' = [pc EXCEPT ![t] = "unlink"]
      /\ hkey' = [hkey EXCEPT ![at[t]] = hkey[next[at[t]]]]
      /\ leafNext' = [leafNext EXCEPT ![at[t]] = leafNext[leafNext[at[t]]]]
      /\ UNCHANGED <<nodes, lkey, prev, next, lock, top, at, ver, other, call, calls>>
  BY Zenon DEF Merge, Goto, locals
<1>2. at[t] \in Linked \ {DummyTail} /\ at[t] \in Node /\ ~Changing(at[t], {"unlink"})
  BY <1>1, HeldNodes, HeldIsUnchanging DEF AtHeld
<1>3. other[t] = next[at[t]] /\ leafNext[at[t]] = next[at[t]] /\ other[t] \in Node
  BY <1>1, <1>2, HeldNodes DEF LockInv, RangesMeet, ThreadOK, NeighbourOK, OtherHeld
<1>4. leafNext[other[t]] \in Node \cup {Null}
  BY <1>3 DEF LockInv, PointerTypes
<1> QED
  BY <1>1, <1>3, <1>4, RangeStep DEF AtHeld, OtherHeld, OffList, Pcs

(* The merged node is taken off the list. *)
LEMMA UnlinkStep ==
    ASSUME LockInv, NEW t \in Threads, harm = "none", UNCHANGED work, Unlink(t)
    PROVE  LockInv'
<1> DEFINE left == at[t]
           gone == next[at[t]]
           right == next[next[at[t]]]
<1>0. PointerTypes /\ ThreadOK(t)
  BY DEF LockInv
<1>1. /\ pc[t] = "unlink" /\ pc' = [pc EXCEPT ![t] = "topRemove"]
      /\ prev' = [prev EXCEPT ![right] = left] /\ next' = [next EXCEPT ![left] = right]
      /\ UNCHANGED <<nodes, lkey, hkey, leafNext, lock, top, at, ver, other, call, calls>>
  BY Zenon DEF Unlink, Goto, content, locals
<1>2. left \in Linked /\ left # DummyTail /\ left \in Node /\ left \in Allocated /\ Holds(t, left)
  BY <1>1, HeldNodes DEF AtHeld
<1>3. /\ gone = other[t] /\ gone # left /\ gone # DummyTail
      /\ gone \in Linked /\ gone \in Node /\ gone \in Allocated /\ Holds(t, gone)
  BY <1>0, <1>1, HeldNodes DEF ThreadOK, NeighbourOK, OtherHeld, OffList
<1>4. right \in Linked /\ right # gone /\ prev[right] = gone
  BY <1>2, <1>3 DEF LockInv, ListOK
<1>5. right \in Node /\ right \in Allocated /\ right # Null
  BY <1>4, NodeSets
<1>6. OthersStay(t) /\ pc'[t] = "topRemove"
  BY <1>0, <1>1 DEF PointerTypes, OthersStay
<1>7. Allocated' = Allocated /\ Live' = Live
  BY <1>1 DEF Allocated, Live
<1>8. Linked' = Linked \ {gone}
  BY <1>1, <1>3, <1>6, <1>7 DEF Linked, OthersStay, OffList
<1>9. PointerTypes'
  BY <1>0, <1>1, <1>2, <1>5 DEF PointerTypes, Pcs, Allocated
<1>10. /\ next'[left] = right /\ \A m \in Node \ {left} : next'[m] = next[m]
       /\ prev'[right] = left /\ \A m \in Node \ {right} : prev'[m] = prev[m]
  BY <1>0, <1>1, <1>2, <1>5 DEF PointerTypes
<1>11. PointersAllocated'
  <2>1. \A m \in Node \ Allocated' : lock'[m] = InitWord
    BY <1>1, <1>7 DEF LockInv, PointersAllocated
  <2>2. \A m \in Allocated : prev'[m] \in Allocated \cup {Null}
    BY <1>2, <1>10, NodeSets DEF LockInv, PointersAllocated
  <2>3. \A m \in Allocated : next'[m] \in Allocated \cup {Null} /\ (m # DummyTail => next'[m] # Null)
    BY <1>5, <1>10, NodeSets DEF LockInv, PointersAllocated
  <2> QED
    BY <1>7, <2>1, <2>2, <2>3 DEF PointersAllocated
<1>12. ListOK'
  <2>1. DummyTail \in Linked'
    BY <1>3, <1>8, NodeSets
  <2>2. ASSUME NEW m \in Linked \ {DummyTail, gone}
        PROVE  next'[m] \in Linked' /\ prev'[next'[m]] = m
    <3>1. CASE m = left
      BY <1>4, <1>8, <1>10, <3>1
    <3>2. CASE m # left
      <4>1. m \in Node /\ next[m] \in Linked /\ next[m] \in Node /\ prev[next[m]] = m
        BY <2>2, NodeSets DEF LockInv, ListOK
      <4>2. next[m] # gone /\ next[m] # right
        BY <1>2, <1>3, <1>4, <2>2, <3>2, <4>1 DEF LockInv, ListOK
      <4> QED
        BY <1>8, <1>10, <3>2, <4>1, <4>2
    <3> QED
      BY <3>1, <3>2
  <2>3. \A m, l \in Linked' \ {DummyTail} : next'[m] = next'[l] => m = l
    BY <1>8, <2>2
  <2> QED
    BY <1>8, <2>1, <2>2, <2>3 DEF ListOK
<1>13. RangesMeet'
  <2>1. ~Changing(gone, {"setHkey", "unlink"}) /\ ~Changing(gone, {"unlink"})
    BY <1>3, HeldIsUnchanging
  <2>2. hkey[left] = lkey[right] /\ leafNext[left] = right
    BY <1>0, <1>1, <1>3, <2>1 DEF ThreadOK, NeighbourOK, LockInv, RangesMeet
  <2>3. ASSUME NEW m \in Linked \ {DummyTail, gone}
        PROVE  /\ ~Changing(m, {"setHkey", "unlink"})' => hkey'[m] = lkey'[next'[m]]
               /\ ~Changing(m, {"unlink"})' => leafNext'[m] = next'[m]
    <3>1. CASE m = left
      BY <1>1, <1>10, <2>2, <3>1
    <3>2. CASE m # left
      <4>1. /\ Changing(m, {"setHkey", "unlink"})' <=> Changing(m, {"setHkey", "unlink"})
            /\ Changing(m, {"unlink"})' <=> Changing(m, {"unlink"})
        BY <1>1, <1>6, <3>2 DEF Changing, OthersStay
      <4>2. m \in Node /\ next'[m] = next[m]
        BY <1>10, <2>3, <3>2, NodeSets
      <4> QED
        BY <1>1, <2>3, <4>1, <4>2 DEF LockInv, RangesMeet
    <3> QED
      BY <3>1, <3>2
  <2>4. lkey'[DummyTail] = MaxKey /\ hkey'[DummyTail] = MaxKey
    BY <1>1 DEF LockInv, RangesMeet
  <2> QED
    BY <1>8, <2>3, <2>4 DEF RangesMeet
<1>14. LockBitsFollow(t)
  BY <1>0, <1>1, <1>6 DEF LockBitsFollow, Holds, ThreadOK, AtHeldOK, OtherHeldOK, AtHeld, OtherHeld
<1>15. ThreadOK(t)'
  BY <1>0, <1>1, <1>2, <1>3, <1>6, <1>7, <1>8
  DEF ThreadOK, AtOK, AtHeldOK, OtherHeldOK, NeighbourOK, SnapshotOK, NotTail, AtHeld, OtherHeld
<1>16. \A u \in Threads \ {t} : ThreadOK(u)'
  <2>1. \A m \in Allocated : ~Holds(t, m) => UNCHANGED <<next[m], hkey[m], leafNext[m]>>
    BY <1>1, <1>2, <1>10, NodeSets
  <2> QED
    BY <1>3, <1>6, <1>7, <1>8, <1>14, <2>1, OthersKeep
<1> QED
  BY <1>6, <1>9, <1>11, <1>12, <1>13, <1>14, <1>15, <1>16, HoldersAfter DEF LockInv

(* and becomes obsolete when it is unlocked. *)
LEMMA UnlockObsoleteStep ==
    ASSUME LockInv, NEW t \in Threads, harm = "none", UNCHANGED work, UnlockObsolete(t)
    PROVE  LockInv'
<1> DEFINE gone == other[t]
<1>0. PointerTypes /\ ThreadOK(t)
  BY DEF LockInv
<1>1. /\ pc[t] = "unlockObsolete" /\ pc' = [pc EXCEPT ![t] = "unlock"]
      /\ lock' = [lock EXCEPT ![gone] = ObsoleteWord(@)]
      /\ UNCHANGED <<nodes, lkey, hkey, prev, next, leafNext, top, at, ver, other, call, calls>>
  BY Zenon DEF UnlockObsolete, Goto, middle, content, locals
<1>2. at[t] \in Linked /\ at[t] # DummyTail /\ at[t] \in Node /\ at[t] \in Allocated /\ Holds(t, at[t])
  BY <1>1, HeldNodes DEF AtHeld
<1>3. /\ gone # at[t] /\ gone # DummyTail
      /\ gone \in Live /\ gone \in Node /\ gone \in Allocated /\ Holds(t, gone)
  BY <1>0, <1>1, HeldNodes DEF ThreadOK, NeighbourOK, OtherHeld
<1>4. lock[gone] \in Nat /\ isLocked(lock[gone]) /\ ~isObsolete(lock[gone])
  BY <1>0, <1>1, <1>3 DEF ThreadOK, OtherHeldOK, OtherHeld, PointerTypes, Live
<1>5. lock'[gone] \in Nat /\ ~isLocked(lock'[gone]) /\ isObsolete(lock'[gone])
  BY <1>0, <1>1, <1>3, <1>4, ObsoleteSetsObsoleteBit DEF PointerTypes
<1>6. lock' \in [Node -> Nat] /\ \A m \in Node \ {gone} : lock'[m] = lock[m]
  BY <1>0, <1>1, <1>5 DEF PointerTypes
<1>7. OthersStay(t) /\ pc'[t] = "unlock"
  BY <1>0, <1>1 DEF PointerTypes, OthersStay
<1>8. Allocated' = Allocated /\ Live' = Live \ {gone}
  BY <1>1, <1>5, <1>6, NodeSets DEF Allocated, Live
<1>9. Linked' = Linked /\ gone \notin Linked
  BY <1>1, <1>7, <1>8 DEF Linked, OthersStay, OffList
<1>10. PointerTypes'
  BY <1>0, <1>1, <1>6 DEF PointerTypes, Pcs, Allocated
<1>11. PointersAllocated' /\ ListOK'
  BY <1>1, <1>3, <1>6, <1>8, <1>9 DEF LockInv, PointersAllocated, ListOK
<1>12. RangesMeet'
  BY <1>1, <1>7, <1>9 DEF LockInv, RangesMeet, Changing, OthersStay
<1>13. LockBitsFollow(t)
  BY <1>0, <1>1, <1>2, <1>3, <1>5, <1>6, <1>7
  DEF LockBitsFollow, Holds, ThreadOK, AtHeldOK, OtherHeldOK, AtHeld, OtherHeld
<1>14. ThreadOK(t)'
  BY <1>0, <1>1, <1>2, <1>3, <1>6, <1>7, <1>8, <1>9
  DEF ThreadOK, AtOK, AtHeldOK, OtherHeldOK, NeighbourOK, SnapshotOK, NotTail, AtHeld, OtherHeld
<1>15. \A u \in Threads \ {t} : ThreadOK(u)'
  BY <1>1, <1>3, <1>7, <1>8, <1>9, <1>13, OthersKeep
<1> QED
  BY <1>7, <1>10, <1>11, <1>12, <1>13, <1>14, <1>15, HoldersAfter DEF LockInv

-----------------------------------------------------------------------------
(* Every step of every thread preserves the invariant. *)
LEMMA NextLockInv == LockInv /\ [Next]_vars => LockInv'
<1> SUFFICES ASSUME LockInv, [Next]_vars PROVE LockInv'
  OBVIOUS
<1>1. CASE UNCHANGED vars
  <2>1. /\ UNCHANGED <<nodes, lkey, hkey, prev, next, leafNext, lock, top, pc, call, calls>>
        /\ UNCHANGED <<at, ver, other, work, harm>>
    BY <1>1 DEF vars, middle, content, locals
  <2>2. PointerTypes' /\ PointersAllocated'
    BY <2>1 DEF LockInv, PointerTypes, PointersAllocated, Allocated
  <2>3. ListOK' /\ RangesMeet'
    BY <2>1 DEF LockInv, ListOK, RangesMeet, Linked, Live, Changing
  <2>4. ASSUME NEW u \in Threads PROVE ThreadOK(u)'
    BY <2>1 DEF LockInv, ThreadOK, AtOK, AtHeldOK, OtherHeldOK, NeighbourOK, SnapshotOK, NotTail,
                Linked, Live, Allocated
  <2>5. Exclusive' /\ Owned'
    BY <2>1 DEF LockInv, Exclusive, Owned, Holds
  <2> QED
    BY <2>2, <2>3, <2>4, <2>5 DEF LockInv
<1>2. ASSUME NEW t \in Threads, Run(t) PROVE LockInv'
  <2>1. harm = "none" /\ harm' = Harm(t) /\ UNCHANGED work
    BY <1>2, Zenon DEF Run
  <2>2. \/ \/ Invoke(t) \/ Return(t) \/ SeekLE(t) \/ WalkLeft(t) \/ WalkRight(t) \/ ReadLock(t)
           \/ ReadBloom(t) \/ CheckBloom(t) \/ ReadBuffer(t) \/ ReadLeaf(t) \/ CheckValue(t)
        \/ \/ ScanLock(t) \/ ScanNode(t) \/ ScanRelock(t) \/ ScanRead(t) \/ ScanCheck(t)
           \/ ScanAdvance(t) \/ ScanNext(t) \/ ResetBuffer(t)
        \/ Upgrade(t) \/ ScanUpgrade(t) \/ ScanSort(t) \/ LockNext(t) \/ MergeCas(t)
        \/ Unlock(t) \/ UnlockLeft(t) \/ UnlockNext(t) \/ ScanUnlock(t) \/ ScanSorted(t)
        \/ \/ InsertToBuffer(t) \/ FlushMLNodeBuffer(t) \/ InsertToLeaf(t) \/ StartSplit(t)
           \/ RemoveLocked(t) \/ TopInsert(t) \/ TopRemove(t)
           \/ MergeCheck(t) \/ MergeRead(t) \/ MergeFails(t)
        \/ Split(t) \/ SetHkey(t) \/ Merge(t) \/ Unlink(t) \/ UnlockObsolete(t)
    BY <1>2, Zenon DEF Run, Step
  <2> QED
    BY <2>1, <2>2, SearchSteps, ScanSteps, AcquireSteps, ReleaseSteps, InsideSteps,
       SplitStep, SetHkeyStep, MergeStep, UnlinkStep, UnlockObsoleteStep
<1> QED
  BY <1>1, <1>2 DEF Next, Finished

(* The invariant holds in every behaviour of SPTree. *)
THEOREM SpecLockInv == Spec => []LockInv
BY InitLockInv, NextLockInv, PTL DEF Spec

(* upgradeToWriteLockOrRestart and writeLockOrRestart give each node at     *)
(* most one writer, never an obsolete node, and every lock bit is cleared   *)
(* by its thread: for any number of threads, keys, nodes and calls.         *)
THEOREM LockDiscipline == Spec => []LocksHeld
BY SpecLockInv, LockInvImpliesLocksHeld, PTL
=============================================================================
