---------------------------- MODULE VersionWord ----------------------------
(***************************************************************************)
(* The 64-bit word of RetryVersionLock (spoton-tree/retryLock.h):          *)
(*                                                                         *)
(*      2 bits type | 60 bits version | 1 bit lock | 1 bit obsolete        *)
(*                                                                         *)
(* The word is a natural number here.  Every operation adds to it, so it   *)
(* would take 2^60 lock acquisitions of one node to wrap around; the       *)
(* wrap-around is not modelled.                                            *)
(***************************************************************************)
EXTENDS Naturals

InitWord == 4                                   \* 0b100

isLocked_BothBits(w) == w % 4 = 3               \* mutant: tests (version & 0b11) == 0b11

isLocked(w)   == w % 4 >= 2                     \* bit 0b10
isObsolete(w) == w % 2 = 1                      \* bit 0b01

(* The value compare_exchange_strong stores when the upgrade succeeds. *)
UpgradedWord(w) == w + 2

(* writeUnlock and writeUnlockObsolete are one fetch_add each: adding 0b10   *)
(* to a locked word clears the lock bit and carries into the version, and    *)
(* 0b11 sets the obsolete bit as well.                                       *)
UnlockedWord_Sub(w) == w - 2                    \* mutant: fetch_sub, the version repeats
UnlockedWord(w) == w + 2

ObsoleteWord_OneBit(w) == w + 1                 \* mutant: adds 0b01, the lock bit stays
ObsoleteWord(w) == w + 3
=============================================================================
