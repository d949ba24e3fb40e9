---------------------- MODULE RetryVersionLock_proofs ----------------------
(***************************************************************************)
(* Proofs about RetryVersionLock, for any set of threads and any number of *)
(* critical sections.                                                      *)
(***************************************************************************)
EXTENDS RetryVersionLock, TLAPS

-----------------------------------------------------------------------------
(* The inductive invariant.                                                *)

Snapshots == {"snap", "readOne", "readBoth", "valid", "casOnly"}

(* The holder of the lock never sees its node obsolete. *)
HolderNotObsolete == Holders # {} => ~isObsolete(word)

(* The word only grows: a snapshot is the word or an earlier one. *)
SnapshotsArePast == \A t \in Threads : ver[t] <= word

(* A snapshot that is in use was taken from a free word. *)
SnapshotsAreFree ==
    \A t \in Threads : pc[t] \in Snapshots => ~isLocked(ver[t]) /\ ~isObsolete(ver[t])

(* The cells differ only inside a critical section. *)
CellsAgree == (Holders = {}) => left = right

(* A holder that has written nothing, or everything, leaves equal cells. *)
HolderCells ==
    \A t \in Threads :
        /\ pc[t] \in {"locked", "written"} => left = right
        /\ pc[t] = "halfWritten" => left = right + 1

(* While a reader's snapshot is the word, what it has read is current. *)
ReadsAreCurrent ==
    \A t \in Threads : ver[t] = word =>
        /\ pc[t] = "readOne" => seen[t][1] = left
        /\ pc[t] \in {"readBoth", "valid"} => seen[t] = <<left, right>>

IInv ==
    /\ TypeOK
    /\ LockBitMeansOneHolder
    /\ HolderNotObsolete
    /\ SnapshotsArePast
    /\ SnapshotsAreFree
    /\ CellsAgree
    /\ HolderCells
    /\ ReadsAreCurrent
    /\ ValidatedReadIsConsistent

-----------------------------------------------------------------------------
(* Facts about a state that satisfies the invariant, used in many steps.    *)

(* A thread whose snapshot is still the word sees a node without a holder,  *)
(* so its cells are equal.                                                  *)
LEMMA CurrentSnapshotMeansFree ==
    ASSUME IInv, NEW t \in Threads, pc[t] \in Snapshots, ver[t] = word
    PROVE  Holders = {} /\ ~isLocked(word) /\ ~isObsolete(word) /\ left = right
BY DEF IInv, SnapshotsAreFree, LockBitMeansOneHolder, CellsAgree

(* A holder is alone, and the word is locked and not obsolete. *)
LEMMA HolderIsAlone ==
    ASSUME IInv, NEW t \in Threads, pc[t] \in {"locked", "halfWritten", "written"}
    PROVE  /\ isLocked(word) /\ ~isObsolete(word)
           /\ \A u \in Threads : pc[u] \in {"locked", "halfWritten", "written"} => u = t
           /\ \A u \in Threads : pc[u] \in Snapshots => ver[u] # word
BY DEF IInv, LockBitMeansOneHolder, HolderNotObsolete, Holders, SnapshotsAreFree

LEMMA InitIInv == Init => IInv
<1> SUFFICES ASSUME Init PROVE IInv
  OBVIOUS
<1>1. TypeOK
  BY DEF Init, TypeOK, Pcs, InitWord
<1>2. Holders = {}
  BY DEF Init, Holders
<1>3. word \in Nat /\ ~isLocked(word) /\ ver = [t \in Threads |-> 0]
  BY DEF Init, InitWord, isLocked
<1>4. SnapshotsArePast
  BY <1>3 DEF SnapshotsArePast
<1> QED
  BY <1>1, <1>2, <1>3, <1>4
  DEF Init, IInv, LockBitMeansOneHolder, HolderNotObsolete, SnapshotsAreFree, Snapshots,
      CellsAgree, HolderCells, ReadsAreCurrent, ValidatedReadIsConsistent

(* A step that moves one thread between control points outside the critical *)
(* section, and leaves the word and the cells alone, keeps the parts of the *)
(* invariant that are about the holders.                                    *)
LEMMA OutsideKeepsHolders ==
    ASSUME IInv, NEW t \in Threads, NEW to \in {"idle"} \cup Snapshots,
           pc[t] \in {"idle"} \cup Snapshots,
           pc' = [pc EXCEPT ![t] = to],
           UNCHANGED <<word, left, right>>
    PROVE  /\ word' \in Nat /\ left' \in Nat /\ right' \in Nat
           /\ pc' \in [Threads -> Pcs]
           /\ LockBitMeansOneHolder' /\ HolderNotObsolete' /\ CellsAgree' /\ HolderCells'
<1>1. Holders' = Holders
  BY DEF IInv, TypeOK, Holders, Snapshots
<1>2. pc' \in [Threads -> Pcs] /\ word' \in Nat /\ left' \in Nat /\ right' \in Nat
  BY DEF IInv, TypeOK, Pcs, Snapshots
<1>3. LockBitMeansOneHolder' /\ HolderNotObsolete' /\ CellsAgree'
  BY <1>1 DEF IInv, LockBitMeansOneHolder, HolderNotObsolete, CellsAgree
<1>4. HolderCells'
  BY DEF IInv, TypeOK, HolderCells, Snapshots
<1> QED
  BY <1>2, <1>3, <1>4

(* A lock acquisition: the word has grown, so no snapshot is current, and   *)
(* the thread is the only holder.  A refused one sends the thread back.     *)
LEMMA UpgradeKeepsIInv ==
    ASSUME IInv, NEW t \in Threads, pc[t] \in Snapshots, Upgrade(t),
           UNCHANGED <<cells, ver, seen>>
    PROVE  IInv'
<1>0. TypeOK /\ word \in Nat
  BY DEF IInv, TypeOK
<1>1. CASE word = ver[t]
  <2>1. /\ word' = UpgradedWord(word) /\ pc' = [pc EXCEPT ![t] = "locked"]
        /\ UNCHANGED <<left, right, ver, seen>>
    BY <1>1 DEF Upgrade, cells
  <2>2. Holders = {} /\ ~isLocked(word) /\ ~isObsolete(word) /\ left = right
    BY <1>1, CurrentSnapshotMeansFree
  <2>3. word' \in Nat /\ word' > word /\ isLocked(word') /\ ~isObsolete(word')
    BY <1>0, <2>1, <2>2 DEF UpgradedWord, isLocked, isObsolete
  <2>4. TypeOK'
    BY <1>0, <2>1, <2>3 DEF TypeOK, Pcs
  <2>5. Holders' = {t}
    BY <1>0, <2>1, <2>2 DEF TypeOK, Holders
  <2>6. LockBitMeansOneHolder' /\ HolderNotObsolete' /\ CellsAgree'
    BY <2>3, <2>5 DEF LockBitMeansOneHolder, HolderNotObsolete, CellsAgree
  <2>7. \A u \in Threads : ver'[u] \in Nat /\ ver'[u] < word'
    BY <1>0, <2>1, <2>3 DEF IInv, TypeOK, SnapshotsArePast
  <2>8. SnapshotsArePast' /\ ReadsAreCurrent'
    BY <2>3, <2>7 DEF SnapshotsArePast, ReadsAreCurrent
  <2>9. SnapshotsAreFree'
    BY <1>0, <2>1 DEF IInv, TypeOK, SnapshotsAreFree, Snapshots
  <2>10. HolderCells'
    BY <1>0, <2>1, <2>2 DEF TypeOK, HolderCells, Holders
  <2>11. ValidatedReadIsConsistent'
    BY <1>0, <2>1 DEF IInv, TypeOK, ValidatedReadIsConsistent
  <2> QED
    BY <2>4, <2>6, <2>8, <2>9, <2>10, <2>11 DEF IInv
<1>2. CASE word # ver[t]
  <2>1. pc' = [pc EXCEPT ![t] = "idle"] /\ UNCHANGED <<word, left, right, ver, seen>>
    BY <1>2 DEF Upgrade, cells
  <2>2. /\ word' \in Nat /\ left' \in Nat /\ right' \in Nat /\ pc' \in [Threads -> Pcs]
        /\ LockBitMeansOneHolder' /\ HolderNotObsolete' /\ CellsAgree' /\ HolderCells'
    BY <2>1, OutsideKeepsHolders
  <2>3. TypeOK' /\ SnapshotsArePast'
    BY <1>0, <2>1, <2>2 DEF IInv, TypeOK, SnapshotsArePast
  <2>4. SnapshotsAreFree' /\ ReadsAreCurrent' /\ ValidatedReadIsConsistent'
    BY <1>0, <2>1 DEF IInv, TypeOK, SnapshotsAreFree, Snapshots, ReadsAreCurrent,
                      ValidatedReadIsConsistent
  <2> QED
    BY <2>2, <2>3, <2>4 DEF IInv
<1> QED
  BY <1>1, <1>2

(* A lock release: the word has grown and is unlocked, and nobody holds it. *)
LEMMA UnlockKeepsIInv ==
    ASSUME IInv, NEW t \in Threads, pc[t] \in {"locked", "written"},
           pc' = [pc EXCEPT ![t] = "idle"],
           word' \in Nat, word' > word, ~isLocked(word'),
           UNCHANGED <<cells, ver, seen>>
    PROVE  IInv'
<1>0. TypeOK /\ word \in Nat /\ UNCHANGED <<left, right, ver, seen>>
  BY DEF IInv, TypeOK, cells
<1>1. left = right
  BY DEF IInv, HolderCells
<1>2. TypeOK'
  BY <1>0 DEF TypeOK, Pcs
<1>3. Holders' = {}
  BY <1>0, HolderIsAlone DEF TypeOK, Holders
<1>4. LockBitMeansOneHolder' /\ HolderNotObsolete' /\ CellsAgree'
  BY <1>0, <1>1, <1>3 DEF LockBitMeansOneHolder, HolderNotObsolete, CellsAgree
<1>5. HolderCells'
  BY <1>3 DEF HolderCells, Holders
<1>6. \A u \in Threads : ver'[u] \in Nat /\ ver'[u] < word'
  BY <1>0 DEF IInv, TypeOK, SnapshotsArePast
<1>7. SnapshotsArePast' /\ ReadsAreCurrent'
  BY <1>6 DEF SnapshotsArePast, ReadsAreCurrent
<1>8. SnapshotsAreFree' /\ ValidatedReadIsConsistent'
  BY <1>0 DEF IInv, TypeOK, SnapshotsAreFree, Snapshots, ValidatedReadIsConsistent
<1> QED
  BY <1>2, <1>4, <1>5, <1>7, <1>8 DEF IInv

(* Every step of every thread keeps the invariant. *)
LEMMA NextKeepsIInv == IInv /\ [Next]_vars => IInv'
<1> SUFFICES ASSUME IInv, [Next]_vars PROVE IInv'
  OBVIOUS
<1>0. TypeOK
  BY DEF IInv
<1>1. ASSUME NEW t \in Threads, readLockOrRestart(t) \/ writeLockLoad(t) PROVE IInv'
  <2>1. PICK to \in {"snap", "casOnly"} :
            /\ pc[t] = "idle" /\ pc' = [pc EXCEPT ![t] = to]
            /\ ~isLocked(word) /\ ~isObsolete(word)
            /\ ver' = [ver EXCEPT ![t] = word]
            /\ UNCHANGED <<word, left, right, seen>>
    BY <1>1 DEF readLockOrRestart, writeLockLoad, Goto, cells
  <2>2. /\ word' \in Nat /\ left' \in Nat /\ right' \in Nat /\ pc' \in [Threads -> Pcs]
        /\ LockBitMeansOneHolder' /\ HolderNotObsolete' /\ CellsAgree' /\ HolderCells'
    BY <2>1, OutsideKeepsHolders DEF Snapshots
  <2>3. TypeOK' /\ SnapshotsArePast'
    BY <1>0, <2>1, <2>2 DEF IInv, TypeOK, SnapshotsArePast
  <2>4. SnapshotsAreFree' /\ ReadsAreCurrent' /\ ValidatedReadIsConsistent'
    BY <1>0, <2>1 DEF IInv, TypeOK, SnapshotsAreFree, Snapshots, ReadsAreCurrent,
                      ValidatedReadIsConsistent
  <2> QED
    BY <2>2, <2>3, <2>4 DEF IInv
<1>2. ASSUME NEW t \in Threads, readLeft(t) PROVE IInv'
  <2>1. /\ pc[t] = "snap" /\ pc' = [pc EXCEPT ![t] = "readOne"]
        /\ seen' = [seen EXCEPT ![t] = <<left, 0>>]
        /\ UNCHANGED <<word, left, right, ver>>
    BY <1>2 DEF readLeft, Goto, cells
  <2>2. /\ word' \in Nat /\ left' \in Nat /\ right' \in Nat /\ pc' \in [Threads -> Pcs]
        /\ LockBitMeansOneHolder' /\ HolderNotObsolete' /\ CellsAgree' /\ HolderCells'
    BY <2>1, OutsideKeepsHolders DEF Snapshots
  <2>3. TypeOK' /\ SnapshotsArePast'
    BY <1>0, <2>1, <2>2 DEF IInv, TypeOK, SnapshotsArePast
  <2>4. SnapshotsAreFree' /\ ReadsAreCurrent' /\ ValidatedReadIsConsistent'
    BY <1>0, <2>1 DEF IInv, TypeOK, SnapshotsAreFree, Snapshots, ReadsAreCurrent,
                      ValidatedReadIsConsistent
  <2> QED
    BY <2>2, <2>3, <2>4 DEF IInv
<1>3. ASSUME NEW t \in Threads, readRight(t) PROVE IInv'
  <2>1. /\ pc[t] = "readOne" /\ pc' = [pc EXCEPT ![t] = "readBoth"]
        /\ seen' = [seen EXCEPT ![t] = <<seen[t][1], right>>]
        /\ UNCHANGED <<word, left, right, ver>>
    BY <1>3 DEF readRight, Goto, cells
  <2>2. /\ word' \in Nat /\ left' \in Nat /\ right' \in Nat /\ pc' \in [Threads -> Pcs]
        /\ LockBitMeansOneHolder' /\ HolderNotObsolete' /\ CellsAgree' /\ HolderCells'
    BY <2>1, OutsideKeepsHolders DEF Snapshots
  <2>3. TypeOK' /\ SnapshotsArePast'
    BY <1>0, <2>1, <2>2 DEF IInv, TypeOK, SnapshotsArePast
  <2>4. SnapshotsAreFree' /\ ReadsAreCurrent' /\ ValidatedReadIsConsistent'
    BY <1>0, <2>1 DEF IInv, TypeOK, SnapshotsAreFree, Snapshots, ReadsAreCurrent,
                      ValidatedReadIsConsistent
  <2> QED
    BY <2>2, <2>3, <2>4 DEF IInv
<1>4. ASSUME NEW t \in Threads, checkOrRestart(t) \/ return(t) PROVE IInv'
  <2>1. PICK to \in {"idle", "valid"} :
            /\ pc[t] \in {"readBoth", "valid"} /\ pc' = [pc EXCEPT ![t] = to]
            /\ to = "valid" => pc[t] = "readBoth" /\ ver[t] = word
            /\ UNCHANGED <<word, left, right, ver, seen>>
    BY <1>4 DEF checkOrRestart, return, Goto, cells
  <2>2. /\ word' \in Nat /\ left' \in Nat /\ right' \in Nat /\ pc' \in [Threads -> Pcs]
        /\ LockBitMeansOneHolder' /\ HolderNotObsolete' /\ CellsAgree' /\ HolderCells'
    BY <2>1, OutsideKeepsHolders DEF Snapshots
  <2>3. to = "valid" => seen[t] = <<left, right>> /\ left = right
    BY <2>1, CurrentSnapshotMeansFree DEF IInv, ReadsAreCurrent, Snapshots
  <2>4. TypeOK' /\ SnapshotsArePast'
    BY <1>0, <2>1, <2>2 DEF IInv, TypeOK, SnapshotsArePast
  <2>5. SnapshotsAreFree' /\ ReadsAreCurrent' /\ ValidatedReadIsConsistent'
    BY <1>0, <2>1, <2>3 DEF IInv, TypeOK, SnapshotsAreFree, Snapshots, ReadsAreCurrent,
                            ValidatedReadIsConsistent
  <2> QED
    BY <2>2, <2>4, <2>5 DEF IInv
<1>5. ASSUME NEW t \in Threads, upgradeToWriteLockOrRestart(t) \/ writeLockCas(t) PROVE IInv'
  BY <1>5, UpgradeKeepsIInv DEF upgradeToWriteLockOrRestart, writeLockCas, Snapshots
<1>6. ASSUME NEW t \in Threads, writeLeft(t) \/ writeRight(t) PROVE IInv'
  <2>1. PICK to \in {"halfWritten", "written"} :
            /\ pc[t] \in {"locked", "halfWritten"} /\ pc' = [pc EXCEPT ![t] = to]
            /\ left' \in Nat /\ right' \in Nat
            /\ to = "halfWritten" => left' = right' + 1
            /\ to = "written" => left' = right'
            /\ UNCHANGED <<word, ver, seen>>
    BY <1>0, <1>6 DEF IInv, TypeOK, HolderCells, writeLeft, writeRight, Goto
  <2>2. /\ isLocked(word) /\ ~isObsolete(word)
        /\ \A u \in Threads : pc[u] \in {"locked", "halfWritten", "written"} => u = t
        /\ \A u \in Threads : pc[u] \in Snapshots => ver[u] # word
    BY <2>1, HolderIsAlone
  <2>3. TypeOK'
    BY <1>0, <2>1 DEF TypeOK, Pcs
  <2>4. Holders' = {t}
    BY <1>0, <2>1, <2>2 DEF TypeOK, Holders
  <2>5. LockBitMeansOneHolder' /\ HolderNotObsolete' /\ CellsAgree'
    BY <2>1, <2>2, <2>4 DEF LockBitMeansOneHolder, HolderNotObsolete, CellsAgree
  <2>6. HolderCells'
    BY <1>0, <2>1, <2>2 DEF TypeOK, HolderCells
  <2>7. SnapshotsArePast' /\ SnapshotsAreFree' /\ ReadsAreCurrent' /\ ValidatedReadIsConsistent'
    BY <1>0, <2>1, <2>2 DEF IInv, TypeOK, SnapshotsArePast, SnapshotsAreFree, Snapshots,
                            ReadsAreCurrent, ValidatedReadIsConsistent
  <2> QED
    BY <2>3, <2>5, <2>6, <2>7 DEF IInv
<1>7. ASSUME NEW t \in Threads, writeUnlock(t) \/ writeUnlockObsolete(t) PROVE IInv'
  <2>1. /\ pc[t] \in {"locked", "written"} /\ pc' = [pc EXCEPT ![t] = "idle"]
        /\ word' = UnlockedWord(word) \/ word' = ObsoleteWord(word)
        /\ UNCHANGED <<cells, ver, seen>>
    BY <1>7 DEF writeUnlock, writeUnlockObsolete, Goto
  <2>2. word \in Nat /\ isLocked(word) /\ ~isObsolete(word)
    BY <1>0, <2>1, HolderIsAlone DEF TypeOK
  <2>3. word' \in Nat /\ word' > word /\ ~isLocked(word')
    BY <2>1, <2>2 DEF UnlockedWord, ObsoleteWord, isLocked, isObsolete
  <2> QED
    BY <2>1, <2>3, UnlockKeepsIInv
<1>8. CASE UNCHANGED vars
  BY <1>8 DEF IInv, vars, TypeOK, LockBitMeansOneHolder, Holders, HolderNotObsolete,
              SnapshotsArePast, SnapshotsAreFree, CellsAgree, HolderCells, ReadsAreCurrent,
              ValidatedReadIsConsistent
<1> QED
  BY <1>1, <1>2, <1>3, <1>4, <1>5, <1>6, <1>7, <1>8 DEF Next

LEMMA SpecIInv == Spec => []IInv
BY InitIInv, NextKeepsIInv, PTL DEF Spec

-----------------------------------------------------------------------------
(* The properties. *)

(* The variables of the lock always have their types. *)
THEOREM TypeCorrect == Spec => []TypeOK
<1>1. IInv => TypeOK
  BY DEF IInv
<1> QED
  BY <1>1, SpecIInv, PTL

(* Mutual exclusion of the writers of a node, and no stray lock bit: the    *)
(* compare-and-swap of upgradeToWriteLockOrRestart and the fetch_add of the *)
(* two unlocks keep the lock bit equal to "some thread is inside".          *)
THEOREM MutualExclusion == Spec => []LockBitMeansOneHolder
<1>1. IInv => LockBitMeansOneHolder
  BY DEF IInv
<1> QED
  BY <1>1, SpecIInv, PTL

(* What survives checkOrRestart is a consistent read, for any number of     *)
(* writers that ran in between.                                             *)
THEOREM OptimisticReads == Spec => []ValidatedReadIsConsistent
<1>1. IInv => ValidatedReadIsConsistent
  BY DEF IInv
<1> QED
  BY <1>1, SpecIInv, PTL

(* A thread that upgrades a validated snapshot holds the lock on exactly    *)
(* the state it has read.                                                   *)
THEOREM UpgradeIsAtomic == Spec => UpgradeKeepsValidatedRead
<1>1. IInv /\ [Next]_vars =>
        [\A t \in Threads :
            pc[t] = "valid" /\ pc'[t] = "locked" => seen[t] = <<left, right>>]_vars
  <2> SUFFICES ASSUME IInv, Next, NEW t \in Threads, pc[t] = "valid", pc'[t] = "locked"
               PROVE  seen[t] = <<left, right>>
    BY DEF vars
  <2>1. ver[t] = word
    BY DEF IInv, TypeOK, Next, readLockOrRestart, readLeft, readRight, checkOrRestart, return,
           upgradeToWriteLockOrRestart, writeLockLoad, writeLockCas, Upgrade, writeLeft,
           writeRight, writeUnlock, writeUnlockObsolete, Goto
  <2> QED
    BY <2>1 DEF IInv, ReadsAreCurrent
<1> QED
  BY <1>1, SpecIInv, PTL DEF Spec, UpgradeKeepsValidatedRead

(* An obsolete node stays obsolete, unlocked and unchanged. *)
THEOREM ObsoleteForever == Spec => ObsoleteIsFinal
<1>1. IInv /\ [Next]_vars =>
        [isObsolete(word) => isObsolete(word') /\ ~isLocked(word') /\ UNCHANGED cells]_vars
  <2> SUFFICES ASSUME IInv, Next, isObsolete(word)
               PROVE  isObsolete(word') /\ ~isLocked(word') /\ UNCHANGED cells
    OBVIOUS
  <2>1. Holders = {} /\ ~isLocked(word)
    BY DEF IInv, HolderNotObsolete, LockBitMeansOneHolder
  <2>2. \A t \in Threads : pc[t] \in Snapshots => ver[t] # word
    BY DEF IInv, SnapshotsAreFree
  <2>3. UNCHANGED <<word, cells>>
    BY <2>1, <2>2
    DEF Next, Holders, Snapshots, readLockOrRestart, readLeft, readRight, checkOrRestart, return,
        upgradeToWriteLockOrRestart, writeLockLoad, writeLockCas, Upgrade, writeLeft,
        writeRight, writeUnlock, writeUnlockObsolete, Goto
  <2> QED
    BY <2>1, <2>3
<1> QED
  BY <1>1, SpecIInv, PTL DEF Spec, ObsoleteIsFinal
=============================================================================
