-------------------------------- MODULE CCEH --------------------------------
(***************************************************************************)
(* The extendible hash table CCEH (CCEH/src/CCEH.cpp without INPLACE and   *)
(* CUCKOO).  Inserts take a segment's counter as a shared lock and claim a *)
(* slot with a compare-and-swap; the one that finds no slot suspends the   *)
(* segment, copies it into two halves and links these into the directory,  *)
(* or doubles the directory.  Get takes no lock.                           *)
(*                                                                         *)
(* dir() is loaded anew at every use: the depth and the entry may come     *)
(* from different directories.                                             *)
(***************************************************************************)
EXTENDS CCEHSegment

CONSTANTS
    Procs,       \* threads
    Gets,        \* keys that are looked up
    MaxGets,     \* bound: calls of Get
    MaxSegs,     \* bound: segments that are ever allocated
    InitTables   \* the tables a behaviour may start from, with the keys inserted into them

VARIABLES
    dirs,        \* the directories, oldest first; the last one is dir()
    segs,        \* segment id -> segment
    th,          \* thread -> its call
    store,       \* history: the keys inserted so far
    todo,        \* history: the inserts that are left
    gets,
    dropped,     \* history: keys that Split found no slot for
    harm         \* history: what went wrong, see Stray and Collision

vars == <<dirs, segs, th, store, todo, gets, dropped, harm>>

Idle == [pc |-> "idle", op |-> "none", key |-> 0, x |-> 0, target |-> 0, val |-> 0, depth |-> 0,
         slot |-> 0, s |-> <<>>, sure |-> FALSE, found |-> FALSE]

cur == Len(dirs)
dir == dirs[cur]
Fresh == Cardinality(DOMAIN segs) + 1

\* initCCEH: one segment per entry, or a table that grew from it.
Init ==
    /\ \E t \in InitTables :
          /\ dirs = <<t.dir>> /\ segs = t.segs /\ todo = t.inserts
          /\ store = UNION {Content(t.segs[i]) : i \in DOMAIN t.segs}
    /\ th = [p \in Procs |-> Idle]
    /\ gets = 0 /\ dropped = {} /\ harm = {}

At(p, pc) == th[p].pc = pc
Goto(p, t) == th' = [th EXCEPT ![p] = t]
History == <<store, todo, gets, dropped, harm>>

-----------------------------------------------------------------------------
(* Insert, up to the slot. *)

Insert(p, k) ==
    /\ At(p, "idle") /\ todo' = todo \ {k}
    /\ Goto(p, [Idle EXCEPT !.pc = "index", !.op = "insert", !.key = k])
    /\ UNCHANGED <<dirs, segs, store, gets, dropped, harm>>

\* x: the depth of dir() is loaded.  Get first waits until dir() is not suspended.
Index(p) ==
    LET t == th[p]
    IN /\ At(p, "index") /\ (t.op = "get" => dir.sema >= 0)
       /\ Goto(p, [t EXCEPT !.pc = "target", !.x = Prefix(t.key, dir.depth)])
       /\ UNCHANGED <<dirs, segs, History>>

\* target: the segments of dir() are loaded.
Target(p) ==
    LET t == th[p]
    IN /\ At(p, "target")
       /\ Goto(p, [t EXCEPT !.pc = IF t.op = "get" THEN "check" ELSE "lock", !.target = dir.seg[t.x]])
       /\ UNCHANGED <<dirs, segs, History>>

LockSegment(p) ==
    LET t == th[p]
    IN /\ At(p, "lock")
       /\ IF segs[t.target].sema >= 0
          THEN segs' = [segs EXCEPT ![t.target].sema = @ + 1] /\ Goto(p, [t EXCEPT !.pc = "check"])
          ELSE UNCHANGED segs /\ Goto(p, [t EXCEPT !.pc = "index"])
       /\ UNCHANGED <<dirs, History>>

\* The entry again.  Both unlock the segment when it changed; Get never locked it.
Live(id) == \E i \in DOMAIN dir.seg : dir.seg[i] = id

Same_Get(t) == t.op = "get" \/ t.target = dir.seg[Prefix(t.key, dir.depth)]   \* mutant
Same(t) == t.target = dir.seg[Prefix(t.key, dir.depth)]

Check(p) ==
    LET t == th[p]
        stray == t.op = "get" /\ Live(t.target)
    IN /\ At(p, "check")
       /\ \/ /\ Same(t)
             /\ Goto(p, [t EXCEPT !.pc = IF t.op = "get" THEN "get" ELSE "probe"])
             /\ UNCHANGED <<segs, harm>>
          \/ /\ ~Same(t)
             /\ segs' = [segs EXCEPT ![t.target].sema = @ - 1]
             /\ harm' = IF stray THEN harm \cup {"stray"} ELSE harm
             /\ Goto(p, [t EXCEPT !.pc = "index"])
       /\ UNCHANGED <<dirs, store, todo, gets, dropped>>

\* The probing of both windows ends with the compare-and-swap that takes the
\* first free slot: a slot that was passed over does not become free again.
Probing(p) ==
    LET t == th[p]  at == FreeSlot(segs[t.target], t.key)
    IN /\ At(p, "probe")
       /\ IF at # {}
          THEN LET i == CHOOSE j \in at : TRUE
               IN /\ segs' = [segs EXCEPT ![t.target].slot[i] = SENTINEL]
                  /\ Goto(p, [t EXCEPT !.pc = "write", !.slot = i])
          ELSE /\ segs' = [segs EXCEPT ![t.target].sema = @ - 1]
               /\ Goto(p, [t EXCEPT !.pc = "suspend", !.depth = segs[t.target].depth])
       /\ UNCHANGED <<dirs, History>>

\* The value, then the key; then the lock is released.
WriteKey(p) ==
    LET t == th[p]
    IN /\ At(p, "write")
       /\ segs' = [segs EXCEPT ![t.target].slot[t.slot] = t.key]
       /\ store' = store \cup {t.key} /\ Goto(p, [t EXCEPT !.pc = "unlock"])
       /\ UNCHANGED <<dirs, todo, gets, dropped, harm>>

Unlock(p) ==
    LET t == th[p]
    IN /\ At(p, "unlock")
       /\ segs' = [segs EXCEPT ![t.target].sema = @ - 1] /\ Goto(p, [Idle EXCEPT !.pc = "return"])
       /\ UNCHANGED <<dirs, History>>

-----------------------------------------------------------------------------
(* Insert: the split of a full segment. *)

\* Segment::suspend: the counter becomes -1, then its holders are waited for.
Suspend(p) ==
    LET t == th[p]  sema == segs[t.target].sema
    IN /\ At(p, "suspend")
       /\ IF sema >= 0
          THEN segs' = [segs EXCEPT ![t.target].sema = -1] /\ Goto(p, [t EXCEPT !.pc = "drain", !.val = sema])
          ELSE UNCHANGED segs /\ Goto(p, [t EXCEPT !.pc = "index"])
       /\ UNCHANGED <<dirs, History>>

Drained_Now(sema, val) == TRUE                                                \* mutant
Drained(sema, val) == val # 0 => sema = -val - 1

\* The counter of a segment that is not split after all.
Resumed_Not(s) == s                                                           \* mutant
Resumed(s) == [s EXCEPT !.sema = 0]

\* The holders are gone: split, unless the entry's depth is another one by now.
SplitSegment(p) ==
    LET t == th[p]
        old == segs[t.target]
        halves == Split(old)
        lost == Content(old) \ (Content(halves[1]) \cup Content(halves[2]))
    IN /\ At(p, "drain") /\ Drained(old.sema, t.val)
       /\ \/ /\ t.depth # segs[dir.seg[t.x]].depth
             /\ segs' = [segs EXCEPT ![t.target] = Resumed(@)]
             /\ Goto(p, [t EXCEPT !.pc = "index"]) /\ UNCHANGED dropped
          \/ /\ t.depth = segs[dir.seg[t.x]].depth /\ Fresh + 1 <= MaxSegs /\ old.depth < HashBits
             /\ segs' = (Fresh :> halves[1]) @@ (Fresh + 1 :> halves[2]) @@ segs
             /\ dropped' = dropped \cup lost
             /\ Goto(p, [t EXCEPT !.pc = "dir", !.s = <<Fresh, Fresh + 1>>])
       /\ UNCHANGED <<dirs, store, todo, gets, harm>>

\* DIR_RETRY.
ChooseDir(p) ==
    LET t == th[p]
    IN /\ At(p, "dir")
       /\ Goto(p, [t EXCEPT !.pc = IF segs[t.target].depth = dir.depth THEN "dsuspend" ELSE "dlock"])
       /\ UNCHANGED <<dirs, segs, History>>

SuspendDir(p) ==
    LET t == th[p]
    IN /\ At(p, "dsuspend")
       /\ IF dir.sema >= 0
          THEN dirs' = [dirs EXCEPT ![cur].sema = -1] /\ Goto(p, [t EXCEPT !.pc = "double", !.val = dir.sema])
          ELSE UNCHANGED dirs /\ Goto(p, [t EXCEPT !.pc = "dir"])
       /\ UNCHANGED <<segs, History>>

\* A directory twice as large.  It has to be the one whose depth was compared.
Double(p) ==
    LET t == th[p]
        x == Prefix(t.key, dir.depth)
    IN /\ At(p, "double") /\ Drained(dir.sema, t.val) /\ dir.depth < HashBits
       /\ dirs' = Append(dirs, [depth |-> dir.depth + 1, sema |-> 0,
                                seg |-> Doubled(dir.seg, x, t.s[1], t.s[2])])
       /\ harm' = IF dir.depth # segs[t.target].depth THEN harm \cup {"collision"} ELSE harm
       /\ Goto(p, [t EXCEPT !.pc = "index"])
       /\ UNCHANGED <<segs, store, todo, gets, dropped>>

LockDir(p) ==
    LET t == th[p]
    IN /\ At(p, "dlock") /\ dir.sema >= 0
       /\ dirs' = [dirs EXCEPT ![cur].sema = @ + 1]
       /\ Goto(p, [t EXCEPT !.pc = "upper", !.x = Prefix(t.key, dir.depth)])
       /\ UNCHANGED <<segs, History>>

\* The entries of the new segments, the upper ones first.
SetUpper(p) ==
    LET t == th[p]
    IN /\ At(p, "upper")
       /\ dirs' = [dirs EXCEPT ![cur].seg = SetEntries(@, UpperHalf(dir, t.x, t.depth), t.s[2])]
       /\ Goto(p, [t EXCEPT !.pc = "lower"])
       /\ UNCHANGED <<segs, History>>

SetLower(p) ==
    LET t == th[p]
    IN /\ At(p, "lower")
       /\ dirs' = [dirs EXCEPT ![cur].seg = SetEntries(@, LowerHalf(dir, t.x, t.depth), t.s[1]),
                               ![cur].sema = @ - 1]
       /\ Goto(p, [t EXCEPT !.pc = "index"])
       /\ UNCHANGED <<segs, History>>

-----------------------------------------------------------------------------
(* Get. *)

Get(p, k) ==
    /\ At(p, "idle") /\ gets < MaxGets /\ gets' = gets + 1
    /\ Goto(p, [Idle EXCEPT !.pc = "index", !.op = "get", !.key = k, !.sure = k \in store])
    /\ UNCHANGED <<dirs, segs, store, todo, dropped, harm>>

GetKey(p) ==
    LET t == th[p]
    IN /\ At(p, "get") /\ Goto(p, [t EXCEPT !.pc = "return", !.found = HasKey(segs[t.target], t.key)])
       /\ UNCHANGED <<dirs, segs, History>>

Return(p) == At(p, "return") /\ Goto(p, Idle) /\ UNCHANGED <<dirs, segs, History>>

Step(p) ==
    \/ Index(p) \/ Target(p) \/ LockSegment(p) \/ Check(p) \/ Probing(p) \/ WriteKey(p) \/ Unlock(p)
    \/ Suspend(p) \/ SplitSegment(p) \/ ChooseDir(p) \/ SuspendDir(p) \/ Double(p)
    \/ LockDir(p) \/ SetUpper(p) \/ SetLower(p) \/ GetKey(p) \/ Return(p)

Next ==
    \E p \in Procs :
        \/ \E k \in todo : Insert(p, k)
        \/ \E k \in Gets : Get(p, k)
        \/ Step(p)

Spec == Init /\ [][Next]_vars /\ \A p \in Procs : WF_vars(Step(p))

-----------------------------------------------------------------------------
(* Properties. *)

TypeOK ==
    /\ \A i \in DOMAIN dirs : LET d == dirs[i] IN
          /\ d.depth \in 0..HashBits /\ d.sema \in Int
          /\ DOMAIN d.seg = Entries(d.depth) /\ \A e \in DOMAIN d.seg : d.seg[e] \in DOMAIN segs
    /\ \A i \in DOMAIN segs : LET s == segs[i] IN
          s.depth \in 0..HashBits /\ s.sema \in Int /\ \A j \in Slots : s.slot[j] \in Keys \cup {INVALID, SENTINEL}
    /\ store \cup todo \subseteq Keys /\ dropped \subseteq store

\* Two events break the table, and neither has a guard in the code:
\*  - Stray: Get releases a live segment that it never locked (depth and entry
\*    loaded from two directories), and the segment may stay suspended;
\*  - Collision: a directory is doubled after another thread doubled it, for a
\*    segment that by then had two entries.
Harmless == harm = {}

(* Every inserted key is found through the directory, in every state of every
   split and doubling, except the keys that Split had no slot for (it ignores
   the result of Insert4split) and unless Stray or Collision happened. *)
TableHoldsStore ==
    Harmless => \A k \in store \ dropped : HasKey(segs[dir.seg[Prefix(k, dir.depth)]], k)

(* A key that was stored when Get was called is found, though Get takes no lock
   and may read a segment that is being split. *)
GetFinds ==
    \A p \in Procs : LET t == th[p] IN
        At(p, "return") /\ t.op = "get" /\ Harmless /\ t.sure /\ t.key \notin dropped => t.found

(* While a segment is split no insert holds it: no record is written to the old
   copy after it was read. *)
SplitsExclude ==
    \A p, q \in Procs : p # q /\ Harmless /\ th[p].target = th[q].target
        => ~(th[p].pc \in {"dir", "dsuspend", "double", "dlock", "upper", "lower"}
             /\ th[q].pc \in {"probe", "write", "dir", "dsuspend", "double", "dlock", "upper", "lower"})

(* The table is sound in every state of every split and doubling. *)
TableSound == TypeOK /\ TableHoldsStore /\ SplitsExclude

(* After a crash at any point, with every store of an entry persistent, Recovery
   leaves a directory in which a segment's entries are exactly the group of its
   depth; the group that ends at the capacity is not repaired. *)
RecoveryRepairs ==
    Harmless =>
        LET seg == Recovery(dir, segs)
            d(i) == segs[seg[i]].depth
        IN \A i \in DOMAIN seg : 2^dir.depth - 1 \notin Group(dir, i, d(i))
              => \A j \in DOMAIN seg : (seg[j] = seg[i]) <=> j \in Group(dir, i, d(i))

(* Every call returns, unless Stray or Collision happened. *)
CallsReturn == \A p \in Procs : th[p].pc # "idle" ~> th[p].pc = "idle" \/ harm # {}
=============================================================================
