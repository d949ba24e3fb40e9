---------------------------- MODULE FastFairPage ----------------------------
(***************************************************************************)
(* A leaf page of the persistent B+-tree of SPTree's top layer             *)
(* (spoton-tree/btree_pmem.h): one writer at a time, which holds the       *)
(* page's mutex, and readers that take no lock.  Every store of the writer *)
(* and every load of a reader is a step of its own; cache lines reach      *)
(* persistent memory when they are flushed, or at any time before.         *)
(*                                                                         *)
(* A record's ptr is a member of Keys, the leaf of that low key: SPTree    *)
(* stores each low key with the address of its own leaf.  Loads happen as  *)
(* written in the source, stores in program order (x86).                   *)
(***************************************************************************)
EXTENDS Integers, FiniteSets

CONSTANTS
    Keys,        \* low keys, positive integers
    Card,        \* cardinality: entries of a page
    HdrSlots,    \* the header takes as much of the first line as this many entries
    PerLine,     \* count_in_line
    Removable,   \* the keys that are ever removed
    MaxOps,      \* bound: calls of the writer
    MaxEvicts,   \* bound: lines that reach memory without a flush
    MaxReads,    \* bound: calls of the reader
    MaxOverlap   \* bound: calls of the writer that overlap one search

ASSUME PageAssumption ==
    /\ Keys \subseteq Nat \ {0} /\ Removable \subseteq Keys
    /\ Card \in Nat /\ Card >= 4 /\ PerLine \in Nat \ {0} /\ HdrSlots \in 1..PerLine
    /\ MaxOps \in Nat /\ MaxEvicts \in Nat /\ MaxReads \in Nat /\ MaxOverlap \in Nat

NULL == 0
MaxKey == 1000                    \* LONG_MAX of the entry constructor
Pages == {1, 2}                   \* the first leaf, and the sibling of its split
Slots == 0..(Card - 1)

Entry == [key |-> MaxKey, ptr |-> NULL]
NewPage == [rec |-> [i \in Slots |-> Entry], sw |-> 0, last |-> -1, sib |-> NULL]

VARIABLES
    mem,      \* page -> its content as the caches show it
    pm,       \* page -> its content in persistent memory
    w,        \* the writer: pc, the page it works on and the locals of the code
    r,        \* the reader
    store,    \* history: the keys of the completed calls
    durable,  \* history: keys whose insert has returned and that nobody removed
    removed,  \* history: a removal has started
    evicts, ops, reads

vars == <<mem, pm, w, r, store, durable, removed, evicts, ops, reads>>

IdleW == [pc |-> "idle", op |-> "none", page |-> 1, key |-> NULL, i |-> 0, n |-> 0, m |-> 0]
IdleR == [pc |-> "idle", key |-> NULL, page |-> 1, i |-> 0,
          prev |-> 0, left |-> NULL, t |-> NULL, ret |-> NULL,
          calls |-> 0, may |-> {}]    \* history: calls overlapped, contents seen

Init ==
    /\ mem = [p \in Pages |-> NewPage] /\ pm = mem
    /\ w = IdleW /\ r = IdleR
    /\ store = {} /\ durable = {} /\ removed = FALSE /\ evicts = 0 /\ ops = 0 /\ reads = 0

-----------------------------------------------------------------------------
(* Cache lines. *)

LineOf(i) == (HdrSlots + i) \div PerLine
LineStart(i) == (HdrSlots + i) % PerLine = 0
Lines == {0} \cup {LineOf(i) : i \in Slots}

\* clflush of one line: line 0 also holds the header.
Persist(image, page, p, line) ==
    [image EXCEPT ![p] =
        [rec |-> [i \in Slots |-> IF LineOf(i) = line THEN page.rec[i] ELSE @.rec[i]],
         sw |-> IF line = 0 THEN page.sw ELSE @.sw,
         last |-> IF line = 0 THEN page.last ELSE @.last,
         sib |-> IF line = 0 THEN page.sib ELSE @.sib]]

Evict(p, line) ==
    /\ evicts < MaxEvicts
    /\ Persist(pm, mem[p], p, line) # pm
    /\ pm' = Persist(pm, mem[p], p, line)
    /\ evicts' = evicts + 1
    /\ UNCHANGED <<mem, w, r, store, durable, removed, ops, reads>>

-----------------------------------------------------------------------------
(* count, executed under the mutex or as one step of a reader (its loop      *)
(* repeats while the switch counter changes).                                *)

IsForward(c) == c % 2 = 0

count(pg) ==
    LET from == pg.last + 1
        up == CHOOSE c \in from..(Card - 1) :
                pg.rec[c].ptr = NULL /\ \A d \in from..(c - 1) : pg.rec[d].ptr # NULL
        down == {c \in 0..from : pg.rec[c].ptr = NULL /\ \A d \in (c + 1)..from : pg.rec[d].ptr # NULL}
        first == CHOOSE c \in Slots : pg.rec[c].ptr = NULL /\ \A d \in 0..(c - 1) : pg.rec[d].ptr # NULL
    IN IF IsForward(pg.sw) THEN up
       ELSE IF down # {} THEN CHOOSE c \in down : TRUE ELSE first

-----------------------------------------------------------------------------
(* The writer.  A step stores one word; a step that ends with a clflush also *)
(* copies the line.                                                          *)

Key(i) == mem[w.page].rec[i].key
Ptr(i) == mem[w.page].rec[i].ptr
SetKey(i, k) == mem' = [mem EXCEPT ![w.page].rec[i].key = k]
SetPtr(i, q) == mem' = [mem EXCEPT ![w.page].rec[i].ptr = q]
FlushLine(i) == pm' = Persist(pm, mem'[w.page], w.page, LineOf(i))
Step(from, to) == w.pc = from /\ w' = [w EXCEPT !.pc = to]
Locals == <<r, store, durable, removed, evicts, ops, reads>>

\* A search that is under way may see the content before or after the call.
Overlap(k, present) ==
    \/ r.pc = "idle" /\ r' = r
    \/ /\ r.pc # "idle" /\ r.calls < MaxOverlap
       /\ r' = [r EXCEPT !.calls = @ + 1, !.may = IF k = r.key THEN @ \cup {present} ELSE @]

\* One slot stays free for the terminator.
Fits(n) == n < Card - 1

\* store: takes the mutex, follows the sibling, counts; insert_key turns the
\* direction to forward.
StartInsert(k) ==
    /\ w.pc = "idle" /\ ops < MaxOps /\ k \notin store
    /\ LET sib == mem[1].sib
           p == IF sib # NULL /\ k > mem[sib].rec[0].key THEN sib ELSE 1
           n == count(mem[p])
           pg == mem[p]
       IN /\ Fits(n) \/ (p = 1 /\ sib = NULL)      \* bound: one split
          /\ IF Fits(n)
             THEN /\ mem' = [mem EXCEPT ![p].sw = IF IsForward(@) THEN @ ELSE (@ + 1) % 256]
                  /\ w' = [pc |-> IF n = 0 THEN "key0" ELSE "end", op |-> "insert", page |-> p,
                           key |-> k, i |-> n - 1, n |-> n, m |-> 0]
             ELSE /\ mem' = mem
                  /\ w' = [pc |-> "split", op |-> "insert", page |-> p, key |-> k,
                           i |-> 0, n |-> n, m |-> n \div 2]
    /\ ops' = ops + 1
    /\ Overlap(k, TRUE)
    /\ UNCHANGED <<pm, store, durable, removed, evicts, reads>>

\* An empty page: key, pointer and the new end are stored, then the first line flushed.
InsertKey0 ==
    /\ Step("key0", "ptr0") /\ SetKey(0, w.key)
    /\ UNCHANGED <<pm, Locals>>

InsertPtr0 ==
    /\ Step("ptr0", "end0") /\ SetPtr(0, w.key)
    /\ UNCHANGED <<pm, Locals>>

InsertEnd0 ==
    /\ Step("end0", "last") /\ SetPtr(1, NULL)
    /\ pm' = Persist(pm, mem'[w.page], w.page, 0)
    /\ UNCHANGED Locals

\* The terminator moves one slot to the right.  The flush that follows in the
\* code asks whether the ptr field starts a line, which no ptr field does.
InsertEnd ==
    /\ Step("end", "shift") /\ SetPtr(w.n + 1, Ptr(w.n))
    /\ UNCHANGED <<pm, Locals>>

InsertShiftPtr ==
    /\ Step("shift", "shiftkey") /\ w.i >= 0 /\ w.key < Key(w.i)
    /\ SetPtr(w.i + 1, Ptr(w.i))
    /\ UNCHANGED <<pm, Locals>>

\* The line is flushed when its first entry has been written.
InsertShiftKey ==
    /\ w.pc = "shiftkey" /\ SetKey(w.i + 1, Key(w.i))
    /\ IF LineStart(w.i + 1) THEN FlushLine(w.i + 1) ELSE UNCHANGED pm
    /\ w' = [w EXCEPT !.pc = "shift", !.i = @ - 1]
    /\ UNCHANGED Locals

\* The new record's slot first repeats its left neighbour's pointer, or the
\* leftmost pointer of the header, which is NULL in a leaf.
InsertDup ==
    /\ Step("shift", "newkey") /\ (IF w.i < 0 THEN TRUE ELSE w.key >= Key(w.i))
    /\ SetPtr(w.i + 1, IF w.i < 0 THEN NULL ELSE Ptr(w.i))
    /\ UNCHANGED <<pm, Locals>>

InsertNewKey ==
    /\ Step("newkey", "newptr") /\ SetKey(w.i + 1, w.key)
    /\ UNCHANGED <<pm, Locals>>

InsertNewPtr_NoFlush ==
    /\ Step("newptr", "last") /\ SetPtr(w.i + 1, w.key) /\ UNCHANGED pm    \* mutant
    /\ UNCHANGED Locals
InsertNewPtr ==
    /\ Step("newptr", "last") /\ SetPtr(w.i + 1, w.key) /\ FlushLine(w.i + 1)
    /\ UNCHANGED Locals

InsertLast ==
    /\ w.pc = "last" /\ mem' = [mem EXCEPT ![w.page].last = w.n]
    /\ w' = IdleW /\ store' = store \cup {w.key} /\ durable' = durable \cup {w.key}
    /\ UNCHANGED <<pm, r, removed, evicts, ops, reads>>

-----------------------------------------------------------------------------
(* store, when the page is full: FAIR.                                       *)

\* The upper half is copied into a page nobody sees yet, which is flushed.
SplitCopy ==
    /\ Step("split", "link")
    /\ LET old == mem[1]
           new == [rec |-> [i \in Slots |-> IF i + w.m < w.n THEN old.rec[i + w.m] ELSE Entry],
                   sw |-> 0, last |-> w.n - w.m - 1, sib |-> old.sib]
       IN mem' = [mem EXCEPT ![2] = new] /\ pm' = [pm EXCEPT ![2] = new]
    /\ UNCHANGED Locals

SplitLink ==
    /\ Step("link", "counter")
    /\ mem' = [mem EXCEPT ![1].sib = 2] /\ pm' = Persist(pm, mem'[1], 1, 0)
    /\ UNCHANGED Locals

SplitCounter ==
    /\ Step("counter", "cut")
    /\ mem' = [mem EXCEPT ![1].sw = IF IsForward(@) THEN (@ + 2) % 256 ELSE (@ + 1) % 256]
    /\ UNCHANGED <<pm, Locals>>

SplitCut ==
    /\ Step("cut", "cutlast")
    /\ SetPtr(w.m, NULL) /\ FlushLine(w.m)
    /\ UNCHANGED Locals

\* The new key goes to the half it belongs to.
SplitLast ==
    /\ w.pc = "cutlast"
    /\ mem' = [mem EXCEPT ![1].last = w.m - 1] /\ pm' = Persist(pm, mem'[1], 1, 0)
    /\ LET left == w.key < mem[2].rec[0].key
           n == IF left THEN w.m ELSE w.n - w.m
       IN w' = [w EXCEPT !.pc = "end", !.page = IF left THEN 1 ELSE 2, !.n = n, !.i = n - 1]
    /\ UNCHANGED Locals

-----------------------------------------------------------------------------
(* remove_key, under the mutex: shifts to the left, searched from right to   *)
(* left.                                                                     *)

SlotOf(p, k) == CHOOSE j \in 0..(count(mem[p]) - 1) : mem[p].rec[j].key = k
PageOf(k) == IF \E i \in 0..(count(mem[1]) - 1) : mem[1].rec[i].key = k THEN 1 ELSE 2

StartRemove(k) ==
    /\ w.pc = "idle" /\ ops < MaxOps /\ k \in store \cap Removable
    /\ LET p == PageOf(k)  i == SlotOf(p, k)
       IN /\ mem' = [mem EXCEPT ![p].sw = IF IsForward(@) THEN (@ + 1) % 256 ELSE @]
          /\ w' = [IdleW EXCEPT !.pc = "hide", !.op = "remove", !.page = p, !.key = k, !.i = i]
    /\ ops' = ops + 1 /\ durable' = durable \ {k} /\ removed' = TRUE /\ Overlap(k, FALSE)
    /\ UNCHANGED <<pm, store, evicts, reads>>

RemoveHide ==
    /\ Step("hide", "pullkey")
    /\ SetPtr(w.i, IF w.i = 0 THEN NULL ELSE Ptr(w.i - 1))
    /\ UNCHANGED <<pm, Locals>>

RemovePullKey ==
    /\ Step("pullkey", "pullptr") /\ SetKey(w.i, Key(w.i + 1))
    /\ UNCHANGED <<pm, Locals>>

\* The test of the loop is the next slot's pointer.
RemovePullPtr ==
    /\ w.pc = "pullptr" /\ SetPtr(w.i, Ptr(w.i + 1))
    /\ IF LineStart(w.i) THEN FlushLine(w.i) ELSE UNCHANGED pm
    /\ w' = [w EXCEPT !.pc = IF Ptr(w.i + 1) = NULL THEN "dec" ELSE "pullkey", !.i = @ + 1]
    /\ UNCHANGED Locals

RemoveDec ==
    /\ w.pc = "dec" /\ mem' = [mem EXCEPT ![w.page].last = @ - 1]
    /\ w' = IdleW /\ store' = store \ {w.key}
    /\ UNCHANGED <<pm, r, durable, removed, evicts, ops, reads>>

Write ==
    \/ \E k \in Keys : StartInsert(k) \/ StartRemove(k)
    \/ InsertKey0 \/ InsertPtr0 \/ InsertEnd0 \/ InsertEnd \/ InsertShiftPtr \/ InsertShiftKey
    \/ InsertDup \/ InsertNewKey \/ InsertNewPtr \/ InsertLast
    \/ SplitCopy \/ SplitLink \/ SplitCounter \/ SplitCut \/ SplitLast
    \/ RemoveHide \/ RemovePullKey \/ RemovePullPtr \/ RemoveDec

-----------------------------------------------------------------------------
(* The reader: btree_search with linear_search of a leaf.                    *)

RKey(i) == mem[r.page].rec[i].key
RPtr(i) == mem[r.page].rec[i].ptr
Rest == <<mem, pm, w, store, durable, removed, evicts, ops, reads>>
Read(from, new) == r.pc = from /\ r' = new /\ UNCHANGED Rest

Search(k) ==
    /\ r.pc = "idle" /\ reads < MaxReads
    /\ r' = [IdleR EXCEPT !.pc = "counter", !.key = k, !.calls = IF w.pc = "idle" THEN 0 ELSE 1,
                          !.may = IF w.pc # "idle" /\ w.key = k THEN BOOLEAN ELSE {k \in store}]
    /\ reads' = reads + 1
    /\ UNCHANGED <<mem, pm, w, store, durable, removed, evicts, ops>>

\* The direction is chosen by the counter at the start of a round.
ReadCounter ==
    Read("counter", [r EXCEPT !.prev = mem[r.page].sw, !.ret = NULL, !.i = 0,
                              !.pc = IF IsForward(mem[r.page].sw) THEN "f0" ELSE "count"])

ReadCount ==
    Read("count", [r EXCEPT !.i = count(mem[r.page]) - 1, !.pc = "bkey"])

\* Slot 0 is looked at first; if the key is elsewhere the loop starts at slot 1.
ReadFirst ==
    Read("f0", IF RKey(0) = r.key THEN [r EXCEPT !.pc = "t"] ELSE [r EXCEPT !.pc = "fptr", !.i = 1])

\* Forward: the loop ends at the first NULL.
ReadForwardPtr ==
    Read("fptr", [r EXCEPT !.pc = IF RPtr(r.i) # NULL THEN "fkey" ELSE "check"])

ReadForwardKey ==
    Read("fkey", IF RKey(r.i) = r.key THEN [r EXCEPT !.pc = "left"]
                 ELSE [r EXCEPT !.pc = "fptr", !.i = @ + 1])

\* Backward, down to slot 0.
ReadBackwardKey ==
    Read("bkey", IF r.i < 0 THEN [r EXCEPT !.pc = "check"]
                 ELSE IF RKey(r.i) = r.key THEN [r EXCEPT !.pc = IF r.i = 0 THEN "t" ELSE "left"]
                 ELSE [r EXCEPT !.i = @ - 1])

ReadLeft == Read("left", [r EXCEPT !.left = RPtr(r.i - 1), !.pc = "t"])

\* A slot whose pointer repeats its left neighbour's is being written: it is skipped.
\* Backward, and in slot 0, a NULL is skipped too.
Valid_Any(left, t) == t # NULL                                              \* mutant
Valid(left, t) == t # left /\ (t # NULL \/ (IsForward(r.prev) /\ r.i > 0))

GoOn == IF IsForward(r.prev) THEN [r EXCEPT !.pc = "fptr", !.i = @ + 1]
        ELSE [r EXCEPT !.pc = "bkey", !.i = @ - 1]

ReadT ==
    LET left == IF r.i = 0 THEN NULL ELSE r.left
        t == RPtr(r.i)
    IN Read("t", IF Valid(left, t) THEN [r EXCEPT !.t = t, !.pc = "recheck"] ELSE GoOn)

ReadRecheck ==
    Read("recheck", IF RKey(r.i) = r.key THEN [r EXCEPT !.ret = r.t, !.pc = "check"] ELSE GoOn)

\* The round is repeated if the direction changed meanwhile.
ReadCheck ==
    Read("check", [r EXCEPT !.pc = IF mem[r.page].sw # r.prev THEN "counter" ELSE "sibling"])

\* A miss follows the sibling whose first key is not above the key.
ReadSibling ==
    LET sib == mem[r.page].sib
        right == sib # NULL /\ r.key >= mem[sib].rec[0].key
    IN Read("sibling", IF r.ret = NULL /\ right
                       THEN [r EXCEPT !.pc = "counter", !.page = sib]
                       ELSE [r EXCEPT !.pc = "done"])

Return == Read("done", IdleR)

ReaderStep ==
    \/ \E k \in Keys : Search(k)
    \/ ReadCounter \/ ReadCount \/ ReadFirst \/ ReadForwardPtr
    \/ ReadForwardKey \/ ReadBackwardKey \/ ReadLeft \/ ReadT \/ ReadRecheck \/ ReadCheck
    \/ ReadSibling \/ Return

Next == Write \/ ReaderStep \/ \E p \in Pages, line \in Lines : Evict(p, line)

Spec == Init /\ [][Next]_vars

-----------------------------------------------------------------------------
(* Properties. *)

TypeOK ==
    /\ \A p \in Pages : \A image \in {mem[p], pm[p]} :
          /\ \A i \in Slots : image.rec[i].key \in Keys \cup {MaxKey} /\ image.rec[i].ptr \in Keys \cup {NULL}
          /\ image.sw \in 0..255 /\ image.last \in -1..(Card - 2) /\ image.sib \in {NULL, 2}
    /\ store \subseteq Keys /\ durable \subseteq Keys /\ r.may \subseteq BOOLEAN
    /\ r.i \in -1..(Card - 1) /\ w.i \in -1..(Card - 1)

(* A search that takes no lock (btree_search, linear_search) returns what the
   tree held at some moment of the search, whatever stores of insert_key,
   store and remove_key it overlaps: never a pointer that belongs to another
   key, never a miss of a record that stayed. *)
SearchesLinearize ==
    r.pc = "done" => \E present \in r.may : r.ret = IF present THEN r.key ELSE NULL

\* What linear_search finds in an image that nobody writes.
Matches(pg, k) ==
    {pg.rec[i].ptr : i \in {j \in Slots :
        /\ pg.rec[j].key = k /\ pg.rec[j].ptr # NULL
        /\ \A l \in 1..j : pg.rec[l].ptr # NULL
        /\ j > 0 => pg.rec[j].ptr # pg.rec[j - 1].ptr}}
FoundIn(image, k) ==
    \/ Matches(image[1], k) = {k}
    \/ Matches(image[1], k) = {} /\ image[1].sib # NULL /\ Matches(image[2], k) = {k}

(* A crash at any moment, with any lines written back early: every record
   whose insert has returned is found in persistent memory with its own
   pointer.  This is what the order of the stores and flushes of insert_key
   and store is for.  It is claimed as long as nothing was removed. *)
InsertsSurviveCrash == ~removed => \A k \in durable : FoundIn(pm, k)

=============================================================================
