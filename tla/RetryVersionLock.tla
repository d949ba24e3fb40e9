-------------------------- MODULE RetryVersionLock --------------------------
(***************************************************************************)
(* RetryVersionLock: the optimistic lock of every middle-layer node.       *)
(*                                                                         *)
(* Threads use one lock the way SPTree does: a reader takes a version      *)
(* snapshot, reads, and keeps what it read only when the version is still  *)
(* the same; a writer upgrades its snapshot with a compare-and-swap (or    *)
(* calls writeLockOrRestart), writes, and unlocks, possibly declaring the  *)
(* node obsolete.                                                          *)
(*                                                                         *)
(* What the lock protects is a pair of cells that every writer changes     *)
(* together, but one after the other: equal cells are a consistent state,  *)
(* different cells a half-done update.                                     *)
(***************************************************************************)
EXTENDS VersionWord

CONSTANTS Threads,      \* the threads that share the node
          MaxWrites     \* bound: critical sections in one behaviour

ASSUME MaxWritesAssumption == MaxWrites \in Nat

VARIABLES word,         \* typeVersionLockObsolete
          left, right,  \* the two protected cells
          pc,           \* control state of every thread
          ver,          \* the version snapshot of every thread
          seen          \* the cells a thread has read: <<left, right>>

vars == <<word, left, right, pc, ver, seen>>

(* "snap": has a snapshot, it came from readLockOrRestart and the caller    *)
(* has seen that the node is neither locked nor obsolete.                   *)
(* "casOnly": inside writeLockOrRestart, between its load and its CAS.      *)
Pcs == {"idle", "snap", "readOne", "readBoth", "valid", "casOnly",
        "locked", "halfWritten", "written"}

Holders == {t \in Threads : pc[t] \in {"locked", "halfWritten", "written"}}

Init ==
    /\ word = InitWord
    /\ left = 0 /\ right = 0
    /\ pc   = [t \in Threads |-> "idle"]
    /\ ver  = [t \in Threads |-> 0]
    /\ seen = [t \in Threads |-> <<0, 0>>]

Goto(t, from, to) == pc[t] = from /\ pc' = [pc EXCEPT ![t] = to]

cells == <<left, right>>

(* A locked word makes the caller spin on readLockOrRestart; an obsolete    *)
(* one makes it look for another node.                                      *)
readLockOrRestart(t) ==
    /\ Goto(t, "idle", "snap")
    /\ ~isLocked(word) /\ ~isObsolete(word)
    /\ ver' = [ver EXCEPT ![t] = word]
    /\ UNCHANGED <<word, cells, seen>>

readLeft(t) ==
    /\ Goto(t, "snap", "readOne")
    /\ seen' = [seen EXCEPT ![t] = <<left, 0>>]
    /\ UNCHANGED <<word, cells, ver>>

readRight(t) ==
    /\ Goto(t, "readOne", "readBoth")
    /\ seen' = [seen EXCEPT ![t] = <<seen[t][1], right>>]
    /\ UNCHANGED <<word, cells, ver>>

(* readUnlockOrRestart is the same comparison under another name. *)
checkOrRestart(t) ==
    /\ Goto(t, "readBoth", IF ver[t] = word THEN "valid" ELSE "idle")
    /\ UNCHANGED <<word, cells, ver, seen>>

(* A validated reader returns, or goes on to upgrade its snapshot, as       *)
(* remove does after it has looked at the Bloom filter.                     *)
return(t) ==
    /\ Goto(t, "valid", "idle")
    /\ UNCHANGED <<word, cells, ver, seen>>

(* mutant: the word is stored without the comparison *)
Upgrade_Blind(t) ==
    /\ word < InitWord + 4 * MaxWrites
    /\ word' = UpgradedWord(word)
    /\ pc' = [pc EXCEPT ![t] = "locked"]

(* compare_exchange_strong (version, version + 0b10) *)
Upgrade(t) ==
    IF word = ver[t]
    THEN /\ word < InitWord + 4 * MaxWrites     \* bound
         /\ word' = UpgradedWord(word)
         /\ pc' = [pc EXCEPT ![t] = "locked"]
    ELSE /\ word' = word
         /\ pc' = [pc EXCEPT ![t] = "idle"]

upgradeToWriteLockOrRestart(t) ==
    /\ pc[t] \in {"snap", "valid"}
    /\ Upgrade(t)
    /\ UNCHANGED <<cells, ver, seen>>

(* writeLockOrRestart is a load and a compare-and-swap, and looks only at   *)
(* the lock bit.  Its callers reach the node through the next pointer of a  *)
(* node they have locked, which never leads to an obsolete one.             *)
writeLockLoad(t) ==
    /\ Goto(t, "idle", "casOnly")
    /\ ~isLocked(word)
    /\ ~isObsolete(word)                        \* the callers' obligation
    /\ ver' = [ver EXCEPT ![t] = word]
    /\ UNCHANGED <<word, cells, seen>>

writeLockCas(t) ==
    /\ pc[t] = "casOnly"
    /\ Upgrade(t)
    /\ UNCHANGED <<cells, ver, seen>>

writeLeft(t) ==
    /\ Goto(t, "locked", "halfWritten")
    /\ left' = left + 1
    /\ UNCHANGED <<word, right, ver, seen>>

writeRight(t) ==
    /\ Goto(t, "halfWritten", "written")
    /\ right' = right + 1
    /\ UNCHANGED <<word, left, ver, seen>>

writeUnlock(t) ==
    /\ pc[t] \in {"locked", "written"}
    /\ pc' = [pc EXCEPT ![t] = "idle"]
    /\ word' = UnlockedWord(word)
    /\ UNCHANGED <<cells, ver, seen>>

writeUnlockObsolete(t) ==
    /\ Goto(t, "written", "idle")
    /\ word' = ObsoleteWord(word)
    /\ UNCHANGED <<cells, ver, seen>>

Next ==
    \E t \in Threads :
        \/ readLockOrRestart(t) \/ readLeft(t) \/ readRight(t)
        \/ checkOrRestart(t) \/ return(t)
        \/ upgradeToWriteLockOrRestart(t) \/ writeLockLoad(t) \/ writeLockCas(t)
        \/ writeLeft(t) \/ writeRight(t)
        \/ writeUnlock(t) \/ writeUnlockObsolete(t)

Spec == Init /\ [][Next]_vars

-----------------------------------------------------------------------------
(* The word and the snapshots are naturals (the unlocks never take them     *)
(* below 0), and every thread is at one of the points of the protocol.      *)
TypeOK ==
    /\ word \in Nat /\ left \in Nat /\ right \in Nat
    /\ pc \in [Threads -> Pcs]
    /\ ver \in [Threads -> Nat]
    /\ seen \in [Threads -> Nat \X Nat]

(* The lock bit 0b10 is set exactly while one thread is between a           *)
(* successful upgradeToWriteLockOrRestart and its writeUnlock: no two       *)
(* writers, no forgotten lock bit, and no unlock of a free word.            *)
LockBitMeansOneHolder ==
    /\ \A t, u \in Holders : t = u
    /\ isLocked(word) <=> Holders # {}

(* What a reader keeps after checkOrRestart is never a half-done update,    *)
(* whatever writers did between its two reads.                              *)
ValidatedReadIsConsistent ==
    \A t \in Threads : pc[t] = "valid" => seen[t][1] = seen[t][2]

(* A snapshot that the compare-and-swap accepts is still current: a thread  *)
(* that validated its reads and then got the lock works on what it read.    *)
UpgradeKeepsValidatedRead ==
    [][\A t \in Threads :
          pc[t] = "valid" /\ pc'[t] = "locked" => seen[t] = <<left, right>>]_vars

(* writeUnlockObsolete is final: the obsolete bit is never cleared, the     *)
(* protected cells never change again and nobody gets the lock.             *)
ObsoleteIsFinal ==
    [][isObsolete(word) => /\ isObsolete(word')
                           /\ ~isLocked(word')
                           /\ UNCHANGED cells]_vars
=============================================================================
