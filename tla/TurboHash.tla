------------------------------ MODULE TurboHash ------------------------------
(***************************************************************************)
(* One bucket of the hash table TurboHash (src/turbo_hash.h without        *)
(* PIN_KEY_TO_THREAD, numeric keys and values).  A bucket is an array of   *)
(* cells that is probed linearly.  A cell has its slots, their hash tags   *)
(* and one version word: which slots are occupied, which are deleted and a *)
(* sequence number.  A writer fills a slot that is not valid and publishes *)
(* it with the version word; an update moves the key into the cell's spare *)
(* slot.  Put works under the bucket's lock and rebuilds the bucket when   *)
(* it finds no slot; Delete searches without the lock and takes it for the *)
(* write; Find never takes it and compares sequence numbers.               *)
(***************************************************************************)
EXTENDS Integers, Sequences, FiniteSets, FiniteSetsExt, TLC

CONSTANTS
    Procs,         \* threads
    Keys, Vals,    \* positive numbers
    Home,          \* H1ToHash: key -> number
    Tag,           \* H2: key -> tag
    SlotCount,     \* slots of a cell, one of them is spare
    MaxProbe,      \* MAX_PROBE_LEN
    CellLimit,     \* kCellCountLimit
    Puts, Deletes, Finds,  \* keys the calls are made with
    MaxOps,        \* bound: calls
    MaxSweeps,     \* bound: calls of MinorReHashAll or GCAll
    InitTables     \* what a bucket may start with: its number of cells and the keys, as they were put

ASSUME TurboAssumption ==
    /\ SlotCount \in Nat \ {0, 1} /\ MaxProbe \in Nat \ {0} /\ CellLimit \in Nat \ {0}
    /\ Home \in [Keys -> Nat]

VARIABLES
    buckets,    \* the cell arrays, oldest first; the last one is Address()
    lock,       \* the bucket's lock: a thread or Nobody
    th,         \* thread -> its call
    store,      \* history: key -> value, or Absent
    ops, sweeps,
    harm        \* history: see Lost, Torn, Freed, Reused and Far

vars == <<buckets, lock, th, store, ops, sweeps, harm>>

Absent == 0
Nobody == "nobody"
Slots == 1..SlotCount

EmptyCell == [bm |-> {}, del |-> {}, seq |-> 0, tag |-> [s \in Slots |-> 0],
              key |-> [s \in Slots |-> 0], val |-> [s \in Slots |-> 0]]
EmptyBucket(n) == [cell |-> [c \in 0..n - 1 |-> EmptyCell], freed |-> FALSE]
CellCount(b) == Cardinality(DOMAIN b.cell)
cur == Len(buckets)
bucket == buckets[cur]

-----------------------------------------------------------------------------
(* CellMeta. *)

Valid(v) == v.bm \ v.del
BackupBitSet(v) == Slots \ v.bm
EraseBitSet(v) == v.del
Lowest(S) == IF S = {} THEN 0 ELSE Min(S)

Full_Valid(v) == Cardinality(Valid(v)) = SlotCount - 1   \* mutant
Full(v) == Cardinality(v.bm) = SlotCount - 1

MatchBitSet(v, tags, k) == {s \in Valid(v) : tags[s] = Tag[k]}

\* More than one write since the version was read.
Moved(old, now) == old.seq + 1 < now.seq

-----------------------------------------------------------------------------
(* The probing of one bucket that nobody writes. *)

\* The cells of a key's probe, in order.
Probe(b, k) == [i \in 1..Min({MaxProbe, CellCount(b)}) |-> (Home[k] + i - 1) % CellCount(b)]

\* The cells a search visits: up to the first one that is not full.
Path(b, k) ==
    LET p == Probe(b, k)
        stop == {i \in DOMAIN p : ~Full(b.cell[p[i]])}
    IN SubSeq(p, 1, IF stop = {} THEN Len(p) ELSE Min(stop))

Hits(b, k) ==
    {<<i, s>> \in (DOMAIN Path(b, k)) \X Slots :
        LET c == b.cell[Path(b, k)[i]] IN s \in MatchBitSet(c, c.tag, k) /\ c.key[s] = k}

\* What a search in peace answers.
Lookup(b, k) ==
    LET h == Hits(b, k)
        first == CHOOSE x \in h : \A y \in h : x[1] < y[1] \/ (x[1] = y[1] /\ x[2] <= y[2])
    IN IF h = {} THEN Absent ELSE b.cell[Path(b, k)[first[1]]].val[first[2]]

\* findSlotForInsert: the key's own cell and its spare slot, else the last cell on the path
\* with a deleted slot, else the cell that ends the path.
findSlotForInsert(b, k) ==
    LET p == Path(b, k)
        h == Hits(b, k)
        at == CHOOSE x \in h : \A y \in h : x[1] < y[1] \/ (x[1] = y[1] /\ x[2] <= y[2])
        erased == {i \in DOMAIN p : EraseBitSet(b.cell[p[i]]) # {}}
        end == b.cell[p[Len(p)]]
        Slot(c, s, eq, old) == [find |-> TRUE, cell |-> c, slot |-> s, equal |-> eq, old |-> old]
    IN CASE h # {} -> Slot(p[at[1]], Lowest(BackupBitSet(b.cell[p[at[1]]])), TRUE, at[2])
         [] h = {} /\ erased # {} ->
              LET c == p[Max(erased)] IN Slot(c, Lowest(EraseBitSet(b.cell[c])), FALSE, 0)
         [] h = {} /\ erased = {} /\ ~Full(end) ->
              Slot(p[Len(p)], Lowest(BackupBitSet(end)), FALSE, 0)
         [] OTHER -> [find |-> FALSE, cell |-> 0, slot |-> 0, equal |-> FALSE, old |-> 0]

\* insertToSlotAndGC: the slot and its tag, then the version word.
Fill(c, s, k, v) == [c EXCEPT !.key[s] = k, !.val[s] = v, !.tag[s] = Tag[k]]

Publish(c, i) ==
    [c EXCEPT !.bm = (@ \cup {i.slot}) \ (IF i.equal THEN {i.old} ELSE {}),
              !.del = @ \ {i.slot}, !.seq = @ + 1]

-----------------------------------------------------------------------------
(* MinorRehash. *)

\* The valid slots in the order of the iterator.
Records(b) ==
    LET all == {<<c, s>> \in (DOMAIN b.cell) \X Slots : s \in Valid(b.cell[c])}
        Before(x, y) == x[1] < y[1] \/ (x[1] = y[1] /\ x[2] < y[2])
        rank(x) == 1 + Cardinality({y \in all : Before(y, x)})
    IN [i \in 1..Cardinality(all) |-> CHOOSE x \in all : rank(x) = i]

\* findNextSlotInRehash: the first cell from home whose slots but the spare one are not
\* used up.  It looks one cell further than a search does.
Used(b, c) == Cardinality(b.cell[c].bm)
findNextSlotInRehash(b, k) ==
    LET n == CellCount(b)
        ok == {i \in 0..MaxProbe : Used(b, (Home[k] + i) % n) < SlotCount - 1}
    IN IF ok = {} THEN -1 ELSE Min(ok)

moveSlot(b, r, i) ==
    LET c == (Home[r.key] + i) % CellCount(b)  s == Used(b, c) + 1
    IN [b EXCEPT !.cell[c] = [Fill(@, s, r.key, r.val) EXCEPT !.bm = @ \cup {s}]]

\* The new bucket, and the farthest distance of a record from its home; -1: no room.
Rebuilt(b, n) ==
    LET rs == Records(b)
        into[i \in 0..Len(rs)] ==
            IF i = 0 THEN [b |-> EmptyBucket(n), far |-> 0]
            ELSE LET r == [key |-> b.cell[rs[i][1]].key[rs[i][2]], val |-> b.cell[rs[i][1]].val[rs[i][2]]]
                     d == findNextSlotInRehash(into[i - 1].b, r.key)
                 IN IF into[i - 1].far = -1 \/ d = -1 THEN [into[i - 1] EXCEPT !.far = -1]
                    ELSE [b |-> moveSlot(into[i - 1].b, r, d), far |-> Max({into[i - 1].far, d})]
    IN into[Len(rs)]

Grown(n, gc) == IF gc THEN n ELSE n * 2

\* The old cells are freed at once.  Far: a record out of the reach of the searches.
MinorRehash(gc) ==
    LET n == Grown(CellCount(bucket), gc)
    IN /\ n <= CellLimit
       /\ \E r \in {Rebuilt(bucket, n)} :
             /\ r.far # -1
             /\ buckets' = Append([buckets EXCEPT ![cur].freed = TRUE], r.b)
             /\ harm' = IF r.far >= MaxProbe THEN harm \cup {"far"} ELSE harm

-----------------------------------------------------------------------------
(* The calls. *)

Idle == [pc |-> "idle", op |-> "none", key |-> 0, val |-> 0, b |-> 0, n |-> 0, i |-> 1,
         info |-> [find |-> FALSE, cell |-> 0, slot |-> 0, equal |-> FALSE, old |-> 0],
         tags |-> <<>>, ver |-> [bm |-> {}, del |-> {}, seq |-> 0], cand |-> {}, seen |-> {}, out |-> Absent]

At(p, pc) == th[p].pc = pc
Goto(p, t) == th' = [th EXCEPT ![p] = t]

\* A key's new value is seen by the searches that are under way.
Commit(p, t, k, v) ==
    /\ store' = [store EXCEPT ![k] = v]
    /\ th' = [q \in Procs |-> IF q = p THEN t
                              ELSE IF th[q].key = k /\ th[q].op = "find" THEN [th[q] EXCEPT !.seen = @ \cup {v}]
                              ELSE th[q]]

\* The constructor's bucket, after the puts of the given keys.
Filled(n, ks) ==
    LET b[i \in 0..Len(ks)] ==
            IF i = 0 THEN EmptyBucket(n)
            ELSE LET f == findSlotForInsert(b[i - 1], ks[i])
                 IN [b[i - 1] EXCEPT !.cell[f.cell] = Publish(Fill(@, f.slot, ks[i], Min(Vals)), f)]
    IN b[Len(ks)]

Init ==
    /\ \E t \in InitTables :
          /\ buckets = <<Filled(t.cells, t.keys)>>
          /\ store = [k \in Keys |-> IF \E i \in DOMAIN t.keys : t.keys[i] = k THEN Min(Vals) ELSE Absent]
    /\ lock = Nobody /\ th = [p \in Procs |-> Idle] /\ ops = 0 /\ sweeps = 0 /\ harm = {}

Begin(p, op, k, v, pc) ==
    /\ At(p, "idle") /\ ops < MaxOps /\ ops' = ops + 1
    /\ Goto(p, [Idle EXCEPT !.pc = pc, !.op = op, !.key = k, !.val = v, !.seen = {store[k]}])
    /\ UNCHANGED <<buckets, lock, store, sweeps, harm>>

Put(p, k, v) == Begin(p, "put", k, v, "lock")
Delete(p, k) == Begin(p, "delete", k, 0, "addr")
Find(p, k) == Begin(p, "find", k, 0, "addr")

\* insertSlot: the search is under the lock.
PutLock(p) ==
    LET t == th[p]
    IN /\ At(p, "lock") /\ lock = Nobody
       /\ \E f \in {findSlotForInsert(bucket, t.key)} :
             Goto(p, [t EXCEPT !.info = f, !.pc = IF f.find THEN "fill" ELSE "rehash"])
       /\ lock' = p
       /\ UNCHANGED <<buckets, store, ops, sweeps, harm>>

FillSlot(p) ==
    LET t == th[p]
    IN /\ At(p, "fill")
       /\ buckets' = [buckets EXCEPT ![cur].cell[t.info.cell] =
                        IF t.info.slot = 0 THEN @ ELSE Fill(@, t.info.slot, t.key, t.val)]
       /\ Goto(p, [t EXCEPT !.pc = "publish"])
       /\ UNCHANGED <<lock, store, ops, sweeps, harm>>

PublishSlot(p) ==
    LET t == th[p]
    IN /\ At(p, "publish")
       /\ buckets' = [buckets EXCEPT ![cur].cell[t.info.cell] = Publish(@, t.info)]
       /\ Commit(p, Idle, t.key, t.val)
       /\ lock' = Nobody
       /\ UNCHANGED <<ops, sweeps, harm>>

\* The lock is released and taken again: goto after_rehash.
PutRehash(p) ==
    /\ At(p, "rehash")
    /\ MinorRehash(FALSE)
    /\ lock' = Nobody /\ Goto(p, [th[p] EXCEPT !.pc = "lock"])
    /\ UNCHANGED <<store, ops, sweeps>>

\* MinorReHashAll and GCAll: "not thread safe".
Sweep(gc) ==
    /\ sweeps < MaxSweeps /\ sweeps' = sweeps + 1
    /\ \A p \in Procs : At(p, "idle")
    /\ MinorRehash(gc)
    /\ UNCHANGED <<lock, th, store, ops>>

-----------------------------------------------------------------------------
(* The search without the lock: findSlot and deleteSlot. *)

\* The address and the number of cells are two loads.
LoadAddress(p) ==
    /\ At(p, "addr")
    /\ Goto(p, [th[p] EXCEPT !.b = cur, !.pc = "mask"])
    /\ UNCHANGED <<buckets, lock, store, ops, sweeps, harm>>

LoadMask(p) ==
    /\ At(p, "mask")
    /\ Goto(p, [th[p] EXCEPT !.n = CellCount(bucket), !.i = 1, !.pc = "tags"])
    /\ UNCHANGED <<buckets, lock, store, ops, sweeps, harm>>

\* Freed: the array the thread found is not the bucket's any more.
Freed(t) == buckets[t.b].freed
CellIndex(t) == (Home[t.key] + t.i - 1) % t.n
CellAt(t) == buckets[t.b].cell[CellIndex(t)]
Reads(p, t) ==
    IF Freed(th[p])
    THEN harm' = harm \cup {"freed"} /\ Goto(p, [Idle EXCEPT !.pc = "answer", !.op = th[p].op, !.key = th[p].key])
    ELSE UNCHANGED harm /\ Goto(p, t)

LoadTags(p) ==
    /\ At(p, "tags")
    /\ Reads(p, IF Freed(th[p]) THEN Idle ELSE [th[p] EXCEPT !.tags = CellAt(th[p]).tag, !.pc = "version",
                                                             !.ver.seq = CellAt(th[p]).seq])
    /\ UNCHANGED <<buckets, lock, store, ops, sweeps>>

\* Torn: the tags are older than the version.
LoadVersion(p) ==
    LET t == th[p]  c == CellAt(t)  v == [bm |-> c.bm, del |-> c.del, seq |-> c.seq]
    IN /\ At(p, "version")
       /\ IF Freed(t) THEN Reads(p, Idle)
          ELSE /\ harm' = IF v.seq # t.ver.seq THEN harm \cup {"torn"} ELSE harm
               /\ Goto(p, [t EXCEPT !.ver = v, !.cand = MatchBitSet(v, t.tags, t.key), !.pc = "match"])
       /\ UNCHANGED <<buckets, lock, store, ops, sweeps>>

\* H1 of the next slot whose tag matches.
MatchSlot(p) ==
    LET t == th[p]  s == Min(t.cand)
    IN /\ At(p, "match") /\ t.cand # {}
       /\ Reads(p, IF Freed(t) THEN Idle
                   ELSE IF CellAt(t).key[s] = t.key
                   THEN [t EXCEPT !.info.slot = s, !.pc = IF t.op = "find" THEN "verify" ELSE "delete"]
                   ELSE [t EXCEPT !.cand = @ \ {s}])
       /\ UNCHANGED <<buckets, lock, store, ops, sweeps>>

\* The path ends at a cell that is not full, or after the last probe.
More_Never(t) == FALSE   \* mutant
More(t) == Full(t.ver) /\ t.i < Min({MaxProbe, t.n})

NoMatch(p) ==
    LET t == th[p]
    IN /\ At(p, "match") /\ t.cand = {}
       /\ Goto(p, IF More(t) THEN [t EXCEPT !.i = @ + 1, !.pc = "tags"] ELSE [t EXCEPT !.pc = "answer"])
       /\ UNCHANGED <<buckets, lock, store, ops, sweeps, harm>>

VerifySlot(p) ==
    LET t == th[p]
    IN /\ At(p, "verify")
       /\ Reads(p, IF Freed(t) THEN Idle
                   ELSE IF Moved(t.ver, CellAt(t)) THEN [t EXCEPT !.pc = "tags"] ELSE [t EXCEPT !.pc = "value"])
       /\ UNCHANGED <<buckets, lock, store, ops, sweeps>>

\* The caller reads the value through the returned pointer.  Reused: a later record is
\* there, or is just being filled in.
ReadValue(p) ==
    LET t == th[p]
        filling == \E q \in Procs : /\ At(q, "publish") /\ th[q].info.cell = CellIndex(t)
                                    /\ th[q].info.slot = t.info.slot
        reused == filling \/ Moved(t.ver, CellAt(t))
    IN /\ At(p, "value")
       /\ IF Freed(t) THEN Reads(p, Idle)
          ELSE /\ harm' = IF reused THEN harm \cup {"reused"} ELSE harm
               /\ Goto(p, [t EXCEPT !.out = CellAt(t).val[t.info.slot], !.pc = "answer"])
       /\ UNCHANGED <<buckets, lock, store, ops, sweeps>>

\* deleteSlot, under the lock.  Lost: an update moved the key out of the slot meanwhile.
DeleteSlot(p) ==
    LET t == th[p]  c == CellAt(t)  s == t.info.slot
    IN /\ At(p, "delete") /\ lock = Nobody
       /\ \/ /\ Freed(t) /\ Reads(p, Idle) /\ UNCHANGED <<buckets, store>>
          \/ /\ ~Freed(t) /\ Moved(t.ver, c)
             /\ Goto(p, [t EXCEPT !.pc = "tags"]) /\ UNCHANGED <<buckets, store, harm>>
          \/ /\ ~Freed(t) /\ ~Moved(t.ver, c)
             /\ buckets' = [buckets EXCEPT ![t.b].cell[CellIndex(t)] =
                              [c EXCEPT !.del = @ \cup {s}, !.seq = @ + 1]]
             /\ Commit(p, [t EXCEPT !.pc = "answer", !.out = 1], t.key, Absent)
             /\ harm' = IF s \notin c.bm THEN harm \cup {"lost"} ELSE harm
       /\ UNCHANGED <<lock, ops, sweeps>>

Return(p) ==
    /\ At(p, "answer") /\ Goto(p, Idle)
    /\ UNCHANGED <<buckets, lock, store, ops, sweeps, harm>>

\* A behaviour is followed up to its first harm.
Next ==
    /\ harm = {}
    /\ \/ \E p \in Procs :
             \/ \E k \in Puts, v \in Vals : Put(p, k, v)
             \/ \E k \in Deletes : Delete(p, k)
             \/ \E k \in Finds : Find(p, k)
             \/ PutLock(p) \/ FillSlot(p) \/ PublishSlot(p) \/ PutRehash(p)
             \/ LoadAddress(p) \/ LoadMask(p) \/ LoadTags(p) \/ LoadVersion(p)
             \/ MatchSlot(p) \/ NoMatch(p) \/ VerifySlot(p) \/ ReadValue(p)
             \/ DeleteSlot(p) \/ Return(p)
       \/ \E gc \in BOOLEAN : Sweep(gc)

Spec == Init /\ [][Next]_vars

-----------------------------------------------------------------------------
(* Properties.  Each one is about the behaviours without the harm that the *)
(* actions above name.                                                     *)

\* Bitmaps stay within the cell, and the lock has an owner who is in insertSlot.
TypeOK ==
    /\ \A c \in DOMAIN bucket.cell : bucket.cell[c].bm \subseteq Slots /\ bucket.cell[c].del \subseteq Slots
    /\ lock \in Procs \cup {Nobody}
    /\ lock # Nobody => th[lock].pc \in {"fill", "publish", "rehash"}

\* At every moment a search that nobody disturbs finds exactly what was put and
\* not deleted: deletions, updates and rebuilt buckets leave no record behind a
\* cell at which the probe stops, and no old copy in front of the new one.
TableHoldsStore == harm = {} => \A k \in Keys : Lookup(bucket, k) = store[k]

\* Every cell keeps its spare slot, which the next update needs, and no key has two valid slots.
SpareAndSingle ==
    harm = {} =>
        /\ \A c \in DOMAIN bucket.cell : Cardinality(bucket.cell[c].bm) < SlotCount
        /\ \A k \in Keys :
              Cardinality({<<c, s>> \in (DOMAIN bucket.cell) \X Slots :
                             s \in Valid(bucket.cell[c]) /\ bucket.cell[c].key[s] = k}) <= 1

\* The table is sound in every state of every update and rehash.
TableSound == TypeOK /\ TableHoldsStore /\ SpareAndSingle

\* Find answers with a value the key had, or that it had none, at some moment of the call,
\* although it reads tags, version, key and value one after the other and takes no lock.
FindsLinearize ==
    harm = {} => \A p \in Procs : At(p, "answer") /\ th[p].op = "find" => th[p].out \in th[p].seen
=============================================================================
