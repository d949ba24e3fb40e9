---------------------------------- MODULE ART ----------------------------------
(***************************************************************************)
(* The adaptive radix tree of SPTree's top layer (spoton-tree/ART_DRAM and *)
(* topLayer.cc), which maps the low keys of the middle-layer nodes to the  *)
(* nodes, with optimistic lock coupling.  A node's word has a lock bit, an *)
(* obsolete bit and a version: a reader takes the word, reads, and starts  *)
(* again when the word has changed; a writer turns the word it read into a *)
(* locked one.  Keys are fixed-length sequences of symbols; as 8-byte keys *)
(* never have a compressed path longer than maxStoredPrefixLength, prefixes *)
(* are stored in full.                                                     *)
(***************************************************************************)
EXTENDS Epoche, Sequences, Functions

CONSTANTS
    Symbols,     \* stands for 0..255
    KeyLen,      \* stands for 8
    Inserts, Removes,  \* leaves the calls are made with: a key and a middle-layer node
    Lookups, Seeks,    \* keys the calls are made with
    FullAt,      \* type -> the number of children at which isFull
    UnderAt,     \* type -> the number of children at which isUnderfull
    InitTrees,   \* trees to start with: node -> its type, prefix and children
    MaxCalls,    \* bound
    MaxWord      \* bound: a remove stops retrying for a locked third node when its node's word is this large

VARIABLES
    node,     \* node -> [type, prefix, kids, word]; 1 is the root
    th,       \* thread -> its call
    store,    \* history: the leaves of the tree
    seen,     \* history: thread -> the leaves held at some time, and kept all the time, of its call
    calls

vars == <<node, th, store, seen, calls, epocheVars>>

Root == 1
Null == <<>>
Leaf(k, tid) == <<"leaf", k, tid>>
Inner(n) == <<"node", n>>
isLeaf(c) == c # Null /\ c[1] = "leaf"
isInner(c) == c # Null /\ c[1] = "node"

\* Types are numbered; the next larger type of t is t + 1.
N4 == 1
N256 == 4

-----------------------------------------------------------------------------
(* The word. *)

isLocked(w) == (w \div 2) % 2 = 1
isObsolete(w) == w % 2 = 1
FreshWord == 4

Locked(n) == [n EXCEPT !.word = @ + 2]
writeUnlock(n) == [n EXCEPT !.word = @ + 2]
writeUnlockObsolete(n) == [n EXCEPT !.word = @ + 3]

-----------------------------------------------------------------------------
(* Nodes. *)

getCount(n) == Cardinality(DOMAIN n.kids)
isFull(n) == n.type # N256 /\ getCount(n) = FullAt[n.type]
isUnderfull(n) == n.type # N4 /\ getCount(n) = UnderAt[n.type]

getChild(n, s) == IF s \in DOMAIN n.kids THEN n.kids[s] ELSE Null
getSecondChild(n, s) == CHOOSE o \in DOMAIN n.kids : o # s

\* The last child at or below a symbol, the first at or above it.
seekSmaller(n, s) ==
    LET K == {o \in DOMAIN n.kids : o <= s} IN IF K = {} THEN Null ELSE n.kids[Max(K)]
seek(n, s) ==
    LET K == {o \in DOMAIN n.kids : o >= s} IN IF K = {} THEN Null ELSE n.kids[Min(K)]

With(f, s, c) == [o \in DOMAIN f \cup {s} |-> IF o = s THEN c ELSE f[o]]

insertKid(n, s, c) == [n EXCEPT !.kids = With(@, s, c)]
change(n, s, c) == [n EXCEPT !.kids[s] = c]
removeKid(n, s) == [n EXCEPT !.kids = [o \in DOMAIN @ \ {s} |-> @[o]]]

\* The kids of a node of two.
Two(s, c, o, d) == [x \in {s, o} |-> IF x = s THEN c ELSE d]

NewNode(type, prefix, kids) == [type |-> type, prefix |-> prefix, kids |-> kids, word |-> FreshWord]
copyTo(n, type) == NewNode(type, n.prefix, n.kids)

addPrefixBefore_NoKey(n, up, s) == [n EXCEPT !.prefix = up.prefix \o @]   \* mutant
addPrefixBefore(n, up, s) == [n EXCEPT !.prefix = Append(up.prefix, s) \o @]

\* The prefix behind the first symbol that differs.
Cut(n, hit) == [n EXCEPT !.prefix = SubSeq(@, hit + 2, Len(@))]

-----------------------------------------------------------------------------
(* Keys. *)

\* k[level]; past the end of a key seekLE fills with 0.
At(k, level) == IF level < KeyLen THEN k[level + 1] ELSE 0
Less(j, k) == \E i \in 1..KeyLen : j[i] < k[i] /\ \A h \in 1..i - 1 : j[h] = k[h]

\* How many symbols of a prefix agree with a key from a level on.
Agrees(p, k, level) ==
    LET D == {i \in 1..Len(p) : p[i] # At(k, level + i - 1)} IN IF D = {} THEN Len(p) ELSE Min(D) - 1

checkPrefix(n, k, level) == level + Len(n.prefix) < KeyLen /\ Agrees(n.prefix, k, level) = Len(n.prefix)

checkPrefixCompare_Swap(n, k, level) ==   \* mutant
    LET a == Agrees(n.prefix, k, level) IN
    CASE a = Len(n.prefix) -> "down"
      [] a # Len(n.prefix) /\ n.prefix[a + 1] < At(k, level + a) -> "left"
      [] OTHER -> "right"
checkPrefixCompare(n, k, level) ==
    LET a == Agrees(n.prefix, k, level) IN
    CASE a = Len(n.prefix) -> "down"
      [] a # Len(n.prefix) /\ n.prefix[a + 1] < At(k, level + a) -> "right"
      [] OTHER -> "left"

\* The symbols two keys share from a level on; different keys differ in the last one at the latest.
Common(j, k, level) ==
    SubSeq(k, level + 1, Min({KeyLen} \cup {i \in level + 1..KeyLen : j[i] # k[i]}) - 1)

-----------------------------------------------------------------------------
ASSUME SymbolAssumption ==
    /\ IsFiniteSet(Symbols) /\ Symbols # {} /\ Symbols = 0..(Cardinality(Symbols) - 1)
    /\ KeyLen \in Nat \ {0}

Keys == [1..KeyLen -> Symbols]
IsLeafOfKey(c) == isLeaf(c) /\ c = Leaf(c[2], c[3]) /\ c[2] \in Keys

ASSUME CallAssumption ==
    /\ Lookups \cup Seeks \subseteq Keys
    /\ \A l \in Inserts \cup Removes : IsLeafOfKey(l)

\* The limits leave room: an N4 has two children at least, a node that shrank is not underfull at once, and one that
\* grew is not either.
ASSUME LimitAssumption ==
    /\ \A type \in N4 + 1..N256 : UnderAt[type] \in Nat /\ UnderAt[type] >= 3 /\ FullAt[type - 1] >= UnderAt[type]
    /\ \A type \in N4 + 2..N256 : UnderAt[type] > UnderAt[type - 1]
Branches(n) == getCount(n) >= 2 /\ (n.type # N4 => getCount(n) >= UnderAt[n.type])

\* A node's label has a key that leads to it, and how many symbols of the key do so before the node's prefix (top)
\* and behind it (low).
Shares(j, k, n) == \A i \in 1..n : j[i] = k[i]
Fits(p, l) == Len(p) = l.low - l.top /\ \A i \in 1..Len(p) : p[i] = l.rep[l.top + i]
Under(l, s, k) == k.top = l.low + 1 /\ Shares(l.rep, k.rep, l.low) /\ k.rep[l.low + 1] = s
LeafUnder(l, s, c) == Shares(l.rep, c[2], l.low) /\ c[2][l.low + 1] = s
\* A key that leads to k leads on from l, whose node is n.
Above(n, l, k) == l.low < k.top /\ Shares(l.rep, k.rep, l.low) /\ isInner(getChild(n, k.rep[l.low + 1]))

\* Every node and every leaf is where the symbols on the way say, and of two nodes on the way of a key one is above
\* the other.
IsRadix(tree, lab) ==
    /\ \A n \in DOMAIN tree : 0 <= lab[n].top /\ Fits(tree[n].prefix, lab[n])
    /\ \A n \in DOMAIN tree : \A s \in DOMAIN tree[n].kids :
          LET c == tree[n].kids[s]
          IN IF isLeaf(c) THEN LeafUnder(lab[n], s, c) ELSE Under(lab[n], s, lab[c[2]])
    /\ \A m, n \in DOMAIN tree :
          m # n /\ lab[m].top <= lab[n].top /\ Shares(lab[m].rep, lab[n].rep, lab[m].top) => Above(tree[m], lab[m], lab[n])

\* Keys that lead to a tree's nodes: those of its leaves, and any one to the root of a tree without leaves.
WayKeys(tree) ==
    {[i \in 1..KeyLen |-> 0]} \cup {c[2] : c \in {c \in UNION {Range(tree[n].kids) : n \in DOMAIN tree} : isLeaf(c)}}

\* The root is an N256 without a prefix, every other node has at most one parent and children enough, and the
\* symbols on the way to a leaf are its key's.
IsTree(tree) ==
    /\ IsFiniteSet(DOMAIN tree) /\ DOMAIN tree = 1..Cardinality(DOMAIN tree)
    /\ Root \in DOMAIN tree /\ tree[Root].type = N256 /\ tree[Root].prefix = <<>>
    /\ \A n \in DOMAIN tree :
          /\ tree[n].type \in N4..N256 /\ tree[n].prefix \in Seq(Symbols)
          /\ tree[n].kids = [s \in DOMAIN tree[n].kids |-> tree[n].kids[s]]
          /\ DOMAIN tree[n].kids \subseteq Symbols
          /\ \A s \in DOMAIN tree[n].kids :
                LET c == tree[n].kids[s]
                IN IsLeafOfKey(c) \/ (c = Inner(c[2]) /\ c[2] \in DOMAIN tree \ {Root})
    /\ \A m, n \in DOMAIN tree : \A s \in DOMAIN tree[m].kids, o \in DOMAIN tree[n].kids :
          isInner(tree[m].kids[s]) /\ tree[m].kids[s] = tree[n].kids[o] => m = n /\ s = o
    /\ \A n \in DOMAIN tree \ {Root} : Branches(tree[n])
    /\ \E low \in [DOMAIN tree -> 0..KeyLen - 1] :
          /\ low[Root] = 0
          /\ \E rep \in [DOMAIN tree -> WayKeys(tree)] :
                IsRadix(tree, [n \in DOMAIN tree |-> [rep |-> rep[n], low |-> low[n], top |-> low[n] - Len(tree[n].prefix)]])

ASSUME TreeAssumption == \A tree \in InitTrees : IsTree(tree)

-----------------------------------------------------------------------------
(* Calls. *)

\* A call that starts, or ends, at the root.
AtRoot(c, pc, res) ==
    [pc |-> pc, op |-> c.op, key |-> c.key, tid |-> c.tid, epoch |-> c.epoch, res |-> res,
     n |-> Root, par |-> 0, pkey |-> 0, v |-> 0, pv |-> 0, level |-> 0, hit |-> 0, child |-> Null, todo |-> "none"]

Idle == AtRoot([op |-> "none", key |-> <<>>, tid |-> 0, epoch |-> 0], "idle", Null)

Init ==
    \E tree \in InitTrees :
        /\ node = [n \in DOMAIN tree |-> NewNode(tree[n].type, tree[n].prefix, tree[n].kids)]
        /\ store = UNION {{c \in Range(tree[n].kids) : isLeaf(c)} : n \in DOMAIN tree}
        /\ th = [t \in Threads |-> Idle]
        /\ seen = [t \in Threads |-> [held |-> {}, kept |-> {}]]
        /\ calls = 0
        /\ EpocheInit

\* What the callers promise: no insert meets its own key in the tree.
MayInsert(k) ==
    /\ \A l \in store : l[2] # k
    /\ \A u \in Threads : ~(th[u].op = "insert" /\ th[u].key = k)

Go(t, c) == th' = [th EXCEPT ![t] = c]
GoTo(t, pc) == Go(t, [th[t] EXCEPT !.pc = pc])
GoDo(t, pc, todo) == Go(t, [th[t] EXCEPT !.pc = pc, !.todo = todo])

\* TopLayer's calls make a ThreadInfo, and enterEpoche loads the epoch.
Call(t, op, k, tid) ==
    /\ th[t].pc = "idle" /\ calls < MaxCalls
    /\ calls' = calls + 1
    /\ Go(t, [th[t] EXCEPT !.pc = "enter", !.op = op, !.key = k, !.tid = tid, !.epoch = currentEpoche])
    /\ seen' = [seen EXCEPT ![t] = [held |-> store, kept |-> store]]
    /\ UNCHANGED <<node, store, epocheVars>>

insert(t) == \E l \in Inserts : MayInsert(l[2]) /\ Call(t, "insert", l[2], l[3])
remove(t) == \E l \in Removes : Call(t, "remove", l[2], l[3])
lookup(t) == \E k \in Lookups : Call(t, "lookup", k, 0)
seekLE(t) == \E k \in Seeks : Call(t, "seek", k, 0)

Restart(t) == Go(t, AtRoot(th[t], "read", Null))
Return(t, c) == Go(t, AtRoot(th[t], "exit", c))
Descend(t) ==
    Go(t, [th[t] EXCEPT !.pc = "read", !.par = th[t].n, !.pkey = At(th[t].key, th[t].level), !.pv = th[t].v,
                        !.n = th[t].child[2], !.level = @ + 1, !.child = Null, !.todo = "none"])

\* Steps that only read the tree.
Reads == UNCHANGED <<node, store, seen, calls, epocheVars>>

\* What a write takes from the tree and adds to it.
Writes(lost, won) ==
    /\ store' = (store \ lost) \cup won
    /\ seen' = [u \in Threads |-> [held |-> seen[u].held \cup won, kept |-> seen[u].kept \ lost]]
    /\ UNCHANGED calls

Enter(t) ==
    /\ th[t].pc = "enter"
    /\ EnterEpoche(t, th[t].epoch)
    /\ Restart(t)
    /\ UNCHANGED <<node, store, seen, calls>>

Exit(t) ==
    /\ th[t].pc = "exit"
    /\ IF th[t].op \in {"insert", "remove"} THEN ExitEpocheAndCleanup(t) ELSE LeaveEpoche(t)
    /\ th' = [th EXCEPT ![t] = Idle]
    /\ UNCHANGED <<node, store, seen, calls>>

-----------------------------------------------------------------------------
(* The descent. *)

Unchanged(n, v) == node[n].word = v

\* The middle-layer node of the call: a pointer from which loadKey reads the key.
MyLeaf(t) == Leaf(th[t].key, th[t].tid)

readLockOrRestart(t) ==
    /\ th[t].pc = "read"
    /\ LET w == node[th[t].n].word IN
       IF isLocked(w) \/ isObsolete(w) THEN Restart(t)
       ELSE Go(t, [th[t] EXCEPT !.pc = IF th[t].op = "lookup" /\ th[t].par # 0 THEN "couple" ELSE "prefix",
                                !.v = w])
    /\ Reads

Coupled_Not(t) == TRUE   \* mutant
Coupled(t) == Unchanged(th[t].par, th[t].pv)

\* lookup checks the parent once it has the child's version.
Couple(t) ==
    /\ th[t].pc = "couple"
    /\ IF Coupled(t) THEN GoTo(t, "prefix") ELSE Restart(t)
    /\ Reads

\* lookup and remove.
Prefix(t) ==
    /\ th[t].pc = "prefix" /\ th[t].op \in {"lookup", "remove"}
    /\ LET n == node[th[t].n] IN
       IF checkPrefix(n, th[t].key, th[t].level)
       THEN Go(t, [th[t] EXCEPT !.pc = "child", !.level = @ + Len(n.prefix)])
       ELSE GoTo(t, "bail")
    /\ Reads

checkPrefixPessimistic(t) ==
    /\ th[t].pc = "prefix" /\ th[t].op = "insert"
    /\ LET n == node[th[t].n]
           hit == Agrees(n.prefix, th[t].key, th[t].level)
       IN IF hit = Len(n.prefix)
          THEN Go(t, [th[t] EXCEPT !.pc = "child", !.level = @ + hit])
          ELSE Go(t, [th[t] EXCEPT !.pc = "lockP", !.hit = hit, !.todo = "split"])
    /\ Reads

Bail(t) ==
    /\ th[t].pc = "bail"
    /\ IF Unchanged(th[t].n, th[t].v) THEN Return(t, Null) ELSE Restart(t)
    /\ Reads

ReadChild(t) ==
    /\ th[t].pc = "child"
    /\ Go(t, [th[t] EXCEPT !.pc = "check", !.child = getChild(node[th[t].n], At(th[t].key, th[t].level))])
    /\ Reads

Checked(t, op) == th[t].pc = "check" /\ th[t].op = op /\ Unchanged(th[t].n, th[t].v)

\* checkOrRestart on the node whose child was read.
CheckFails(t) ==
    /\ th[t].pc = "check" /\ ~Unchanged(th[t].n, th[t].v)
    /\ Restart(t)
    /\ Reads

\* A leaf that is not at the last symbol is compared with the whole key.
Found(c, k, level) == c # Null /\ (level = KeyLen - 1 \/ c[2] = k)

CheckLookup(t) ==
    /\ Checked(t, "lookup")
    /\ LET c == th[t].child IN
       IF isInner(c) THEN Descend(t)
       ELSE Return(t, IF Found(c, th[t].key, th[t].level) THEN c ELSE Null)
    /\ Reads

CheckInsert(t) ==
    /\ Checked(t, "insert")
    /\ LET c == th[t].child IN
       CASE c = Null /\ isFull(node[th[t].n])  -> GoDo(t, "lockP", "grow")
         [] c = Null /\ ~isFull(node[th[t].n]) -> GoDo(t, "checkP", "put")
         [] isLeaf(c) -> GoDo(t, "checkP", "fork")
         [] OTHER     -> GoDo(t, "checkP", "descend")
    /\ Reads

CheckRemove(t) ==
    /\ Checked(t, "remove")
    /\ LET c == th[t].child
           n == node[th[t].n]
       IN CASE c = Null -> Return(t, Null)
            [] isInner(c) -> Descend(t)
            [] isLeaf(c) /\ c # MyLeaf(t) -> Return(t, Null)
            [] isLeaf(c) /\ c = MyLeaf(t) ->
                 IF th[t].par # 0 /\ getCount(n) = 2 THEN GoDo(t, "lockP", "pair")
                 ELSE IF th[t].par # 0 /\ isUnderfull(n) THEN GoDo(t, "lockP", "shrink")
                 ELSE GoDo(t, "checkP", "drop")
    /\ Reads

\* The parent's version is checked after the child was read.
CheckParent(t) ==
    /\ th[t].pc = "checkP"
    /\ IF th[t].par # 0 /\ ~Unchanged(th[t].par, th[t].pv) THEN Restart(t)
       ELSE IF th[t].todo = "descend" THEN Descend(t)
       ELSE GoTo(t, "lockN")
    /\ Reads

-----------------------------------------------------------------------------
(* Writers.  A lock is a compare-and-swap on the word that was read. *)

Quiet == UNCHANGED <<store, seen, calls, epocheVars>>

upgradeToWriteLockOrRestart(t) ==
    /\ th[t].pc = "lockN"
    /\ IF Unchanged(th[t].n, th[t].v)
       THEN node' = [node EXCEPT ![th[t].n] = Locked(@)] /\ GoTo(t, th[t].todo)
       ELSE Restart(t) /\ UNCHANGED node
    /\ Quiet

LockParent(t) ==
    /\ th[t].pc = "lockP"
    /\ IF Unchanged(th[t].par, th[t].pv)
       THEN node' = [node EXCEPT ![th[t].par] = Locked(@)] /\ GoTo(t, "lockB")
       ELSE Restart(t) /\ UNCHANGED node
    /\ Quiet

GiveBack_Not(n) == n   \* mutant
GiveBack(n) == writeUnlock(n)

LockBoth(t) ==
    /\ th[t].pc = "lockB"
    /\ IF Unchanged(th[t].n, th[t].v)
       THEN node' = [node EXCEPT ![th[t].n] = Locked(@)] /\ GoTo(t, th[t].todo)
       ELSE node' = [node EXCEPT ![th[t].par] = GiveBack(@)] /\ Restart(t)
    /\ Quiet

Symbol(t) == At(th[t].key, th[t].level)
Fresh == Cardinality(DOMAIN node) + 1
Alloc(n) == With(node, Fresh, n)

\* insertGrow, a node with room.
Put(t) ==
    /\ th[t].pc = "put"
    /\ node' = [node EXCEPT ![th[t].n] = writeUnlock(insertKid(@, Symbol(t), MyLeaf(t)))]
    /\ Writes({}, {MyLeaf(t)})
    /\ Return(t, Null)
    /\ UNCHANGED epocheVars

\* A leaf in the way: a node for the symbols both keys share.
Fork(t) ==
    /\ th[t].pc = "fork"
    /\ LET k == th[t].key
           old == th[t].child
           p == Common(old[2], k, th[t].level + 1)
           at == th[t].level + 1 + Len(p)
           n4 == NewNode(N4, p, Two(At(k, at), MyLeaf(t), At(old[2], at), old))
       IN node' = [Alloc(n4) EXCEPT ![th[t].n] = writeUnlock(change(@, Symbol(t), Inner(Fresh)))]
    /\ Writes({}, {MyLeaf(t)})
    /\ Return(t, Null)
    /\ UNCHANGED epocheVars

\* A prefix that differs: a node for the part that agrees goes above.
Split(t) ==
    /\ th[t].pc = "split"
    /\ LET k == th[t].key
           n == node[th[t].n]
           new == NewNode(N4, SubSeq(n.prefix, 1, th[t].hit),
                          Two(At(k, th[t].level + th[t].hit), MyLeaf(t), n.prefix[th[t].hit + 1], Inner(th[t].n)))
       IN node' = [Alloc(new) EXCEPT ![th[t].par] = writeUnlock(change(@, th[t].pkey, Inner(Fresh)))]
    /\ Writes({}, {MyLeaf(t)})
    /\ GoTo(t, "cut")
    /\ UNCHANGED epocheVars

setPrefix(t) ==
    /\ th[t].pc = "cut"
    /\ node' = [node EXCEPT ![th[t].n] = writeUnlock(Cut(@, th[t].hit))]
    /\ Return(t, Null)
    /\ Quiet

\* The node is replaced in its parent and left to the deletion list.
Replace(t, n) ==
    /\ node' = [Alloc(n) EXCEPT ![th[t].par] = writeUnlock(change(@, th[t].pkey, Inner(Fresh))),
                                ![th[t].n] = writeUnlockObsolete(@)]
    /\ MarkForDeletion(t, th[t].n)
    /\ Return(t, Null)

insertGrow(t) ==
    /\ th[t].pc = "grow"
    /\ LET n == node[th[t].n] IN Replace(t, insertKid(copyTo(n, n.type + 1), Symbol(t), MyLeaf(t)))
    /\ Writes({}, {MyLeaf(t)})

removeAndShrink(t) ==
    /\ th[t].pc = "shrink"
    /\ LET n == node[th[t].n] IN Replace(t, removeKid(copyTo(n, n.type - 1), Symbol(t)))
    /\ Writes({MyLeaf(t)}, {})

\* remove of a leaf from a node that stays.  N48 clears the child before the index.
Drop(t) ==
    /\ th[t].pc = "drop"
    /\ LET n == node[th[t].n] IN
       IF n.type = 3
       THEN /\ node' = [node EXCEPT ![th[t].n] = change(@, Symbol(t), Null)]
            /\ GoTo(t, "clear")
       ELSE /\ node' = [node EXCEPT ![th[t].n] = writeUnlock(removeKid(@, Symbol(t)))]
            /\ Return(t, Null)
    /\ Writes({MyLeaf(t)}, {})
    /\ UNCHANGED epocheVars

ClearIndex(t) ==
    /\ th[t].pc = "clear"
    /\ node' = [node EXCEPT ![th[t].n] = writeUnlock(removeKid(@, Symbol(t)))]
    /\ Return(t, Null)
    /\ Quiet

\* remove from a node of two: the other child takes the node's place.
Second(t) == getSecondChild(node[th[t].n], Symbol(t))
Other(t) == node[th[t].n].kids[Second(t)]

Pair(t) ==
    /\ th[t].pc = "pair" /\ isLeaf(Other(t))
    /\ node' = [node EXCEPT ![th[t].par] = writeUnlock(change(@, th[t].pkey, Other(t))),
                            ![th[t].n] = writeUnlockObsolete(@)]
    /\ MarkForDeletion(t, th[t].n)
    /\ Writes({MyLeaf(t)}, {})
    /\ Return(t, Null)

writeLockOrRestart(t) ==
    /\ th[t].pc = "pair" /\ isInner(Other(t))
    /\ LET w == node[Other(t)[2]].word IN
       IF isLocked(w) \/ isObsolete(w)
       THEN /\ node[th[t].n].word < MaxWord
            /\ node' = [node EXCEPT ![th[t].par] = writeUnlock(@), ![th[t].n] = writeUnlock(@)]
            /\ Restart(t)
       ELSE /\ node' = [node EXCEPT ![Other(t)[2]] = Locked(@)]
            /\ GoTo(t, "lift")
    /\ Quiet

Lift(t) ==
    /\ th[t].pc = "lift"
    /\ node' = [node EXCEPT ![th[t].par] = writeUnlock(change(@, th[t].pkey, Other(t)))]
    /\ Writes({MyLeaf(t)}, {})
    /\ GoTo(t, "join")
    /\ UNCHANGED epocheVars

Join(t) ==
    /\ th[t].pc = "join"
    /\ node' = [node EXCEPT ![Other(t)[2]] = writeUnlock(addPrefixBefore(@, node[th[t].n], Second(t))),
                            ![th[t].n] = writeUnlockObsolete(@)]
    /\ MarkForDeletion(t, th[t].n)
    /\ Return(t, Null)
    /\ UNCHANGED <<store, seen, calls>>

-----------------------------------------------------------------------------
(* seekLE: children are read after the version was checked. *)

PrefixCompare(t) ==
    /\ th[t].pc = "prefix" /\ th[t].op = "seek"
    /\ LET n == node[th[t].n]
           way == checkPrefixCompare(n, th[t].key, th[t].level)
       IN Go(t, [th[t] EXCEPT !.pc = "agree", !.todo = way,
                              !.level = @ + (IF way = "down" THEN Len(n.prefix) ELSE 0)])
    /\ Reads

Agree(t) ==
    /\ th[t].pc = "agree"
    /\ IF Unchanged(th[t].n, th[t].v)
       THEN Go(t, [th[t] EXCEPT !.pc = th[t].todo, !.child = Inner(th[t].n)])
       ELSE Restart(t)
    /\ Reads

Down(t) ==
    /\ th[t].pc = "down"
    /\ LET c == getChild(node[th[t].n], Symbol(t)) IN
       CASE c = Null   -> GoTo(t, "smaller")
         [] isLeaf(c)  -> Return(t, c)
         [] isInner(c) -> Go(t, [th[t] EXCEPT !.pc = "read", !.n = c[2], !.level = @ + 1,
                                              !.child = Null, !.todo = "none"])
    /\ Reads

Smaller(t) ==
    /\ th[t].pc = "smaller"
    /\ LET c == seekSmaller(node[th[t].n], Symbol(t)) IN
       IF c = Null THEN GoTo(t, "larger") ELSE Go(t, [th[t] EXCEPT !.pc = "right", !.child = c])
    /\ Reads

Larger(t) ==
    /\ th[t].pc = "larger"
    /\ Go(t, [th[t] EXCEPT !.pc = "left", !.child = seek(node[th[t].n], Symbol(t))])
    /\ Reads

\* To the last or the first leaf below.  Without a child the loop has no end.
Outermost(t) ==
    /\ th[t].pc \in {"left", "right"} /\ th[t].child # Null
    /\ LET c == th[t].child IN
       IF isLeaf(c) THEN Return(t, c)
       ELSE Go(t, [th[t] EXCEPT !.child = IF th[t].pc = "left" THEN seek(node[c[2]], Min(Symbols))
                                          ELSE seekSmaller(node[c[2]], Max(Symbols))])
    /\ Reads

-----------------------------------------------------------------------------
Step(t) ==
    \/ Enter(t) \/ Exit(t)
    \/ readLockOrRestart(t) \/ Couple(t) \/ Prefix(t) \/ checkPrefixPessimistic(t) \/ Bail(t)
    \/ ReadChild(t) \/ CheckFails(t) \/ CheckLookup(t) \/ CheckInsert(t) \/ CheckRemove(t) \/ CheckParent(t)
    \/ upgradeToWriteLockOrRestart(t) \/ LockParent(t) \/ LockBoth(t)
    \/ Put(t) \/ Fork(t) \/ Split(t) \/ setPrefix(t) \/ insertGrow(t) \/ removeAndShrink(t)
    \/ Drop(t) \/ ClearIndex(t) \/ Pair(t) \/ writeLockOrRestart(t) \/ Lift(t) \/ Join(t)
    \/ PrefixCompare(t) \/ Agree(t) \/ Down(t) \/ Smaller(t) \/ Larger(t) \/ Outermost(t)

Next == \E t \in Threads : insert(t) \/ remove(t) \/ lookup(t) \/ seekLE(t) \/ Step(t)

Spec == Init /\ [][Next]_vars /\ \A t \in Threads : WF_vars(Step(t))
-----------------------------------------------------------------------------
(* Properties. *)

TypeOK ==
    /\ \A n \in DOMAIN node :
         /\ node[n].type \in 1..4 /\ node[n].word \in Nat
         /\ node[n].prefix \in Seq(Symbols) /\ Len(node[n].prefix) < KeyLen
         /\ DOMAIN node[n].kids \subseteq Symbols
    /\ \A t \in Threads : th[t].n \in DOMAIN node /\ th[t].par \in DOMAIN node \cup {0}
    /\ \A l \in store : l[2] \in Seq(Symbols) /\ Len(l[2]) = KeyLen

Steady(n) == ~isLocked(node[n].word) /\ ~isObsolete(node[n].word)

\* Where a descent to a key is after i nodes: a node and the level behind its
\* prefix, a leaf or Null, or "busy" at a node that is locked.
Place(c, k, level) ==
    IF ~isInner(c) THEN [child |-> c, level |-> level, busy |-> FALSE]
    ELSE IF ~Steady(c[2]) THEN [child |-> c, level |-> level, busy |-> TRUE]
    ELSE IF ~checkPrefix(node[c[2]], k, level) THEN [child |-> Null, level |-> level, busy |-> FALSE]
    ELSE [child |-> c, level |-> level + Len(node[c[2]].prefix), busy |-> FALSE]

Onward(p, k) ==
    IF p.busy \/ ~isInner(p.child) THEN p
    ELSE Place(getChild(node[p.child[2]], At(k, p.level)), k, p.level + 1)

Descent(k) ==
    LET at[i \in 0..KeyLen] == IF i = 0 THEN Place(Inner(Root), k, 0) ELSE Onward(at[i - 1], k)
    IN at[KeyLen]

AllKeys == Lookups \cup Seeks \cup {l[2] : l \in store \cup Inserts \cup Removes}
HasKey(S, k) == \E l \in S : l[2] = k

\* Through every lock, split, merge, growth and shrinking of nodes a descent that
\* meets no writer ends at the key's leaf, and at no leaf when the key is not in the tree.
TreeHoldsStore ==
    \A k \in AllKeys :
        LET d == Descent(k) IN
        \/ d.busy
        \/ d.child \in store /\ d.child[2] = k
        \/ ~HasKey(store, k) /\ (d.child = Null \/ d.child[2] # k)

\* The assertions of remove and getSecondChild: a node below the root has two
\* children or more, and one of two is an N4.
NodesBranch ==
    \A n \in DOMAIN node \ {Root} :
        Steady(n) => getCount(node[n]) >= 2 /\ (getCount(node[n]) = 2 => node[n].type = N4)

\* lookup returns a leaf the key led to during the call, or nothing if the key
\* was missing at some time of it.
LookupsLinearize ==
    \A t \in Threads :
        th[t].pc = "exit" /\ th[t].op = "lookup" =>
            \/ th[t].res \in seen[t].held /\ th[t].res[2] = th[t].key
            \/ th[t].res = Null /\ ~HasKey(seen[t].kept, th[t].key)

\* No key of S lies between two keys.
Between(S, j, k) == {l \in S : (Less(j, l[2]) /\ Less(l[2], k)) \/ (Less(k, l[2]) /\ Less(l[2], j))}

\* seekLE, which reads children it does not validate, returns a leaf that was in
\* the tree during the call, and a neighbour of the key if nothing was written.
SeeksReturnNeighbour ==
    \A t \in Threads :
        th[t].pc = "exit" /\ th[t].op = "seek" =>
            /\ th[t].res \in seen[t].held
            /\ seen[t].held = seen[t].kept => Between(store, th[t].key, th[t].res[2]) = {} /\
                  (HasKey(store, th[t].key) => th[t].res[2] = th[t].key)

\* A node is given back to the allocator only when no call can still reach it.
FreedUnused ==
    \A t \in Threads :
        th[t].pc \notin {"idle", "enter", "exit"} =>
            /\ th[t].n \notin freed /\ th[t].par \notin freed
            /\ isInner(th[t].child) => th[t].child[2] \notin freed

\* The nodes a thread has locked.
Held(t) ==
    CASE th[t].pc \in {"put", "fork", "cut", "drop", "clear"} -> {th[t].n}
      [] th[t].pc = "lockB" -> {th[t].par}
      [] th[t].pc \in {"split", "grow", "shrink", "pair"} -> {th[t].par, th[t].n}
      [] th[t].pc = "lift" -> {th[t].par, th[t].n, Other(t)[2]}
      [] th[t].pc = "join" -> {th[t].n, Other(t)[2]}
      [] OTHER -> {}

\* A word is locked while exactly one thread is between its lock and its unlock:
\* no restart and no return leaves a lock behind, and no two writers share a node.
LocksHaveOneOwner ==
    \A n \in DOMAIN node :
        Cardinality({t \in Threads : n \in Held(t)}) = IF isLocked(node[n].word) THEN 1 ELSE 0

\* The tree is sound in every state of every writer.
TreeSound == TypeOK /\ TreeHoldsStore /\ NodesBranch
===============================================================================
