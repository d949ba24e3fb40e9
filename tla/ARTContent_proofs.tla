-------------------------- MODULE ARTContent_proofs --------------------------
(***************************************************************************)
(* Proofs about the tree of the top layer: what the tree holds, and what a *)
(* lookup returns.                                                         *)
(*                                                                         *)
(* A node of the tree has a label: a key that leads to it, and how many    *)
(* of its symbols do so before and behind the node's prefix.  The key and  *)
(* the second number stay as long as the node lives; the first changes     *)
(* when a node is put above it or the one above it is taken out, and until *)
(* the writer has set the prefix too the node is locked.  The tree is      *)
(* sorted when every child is where its own symbols say and of two nodes   *)
(* on a key's way one is above the other, so there is one place for a key. *)
(* What a call knows of its place comes from the versions it read.         *)
(***************************************************************************)
EXTENDS ART_proofs

LabelRec == {l \in [rep : Keys, top : 0 .. KeyLen - 1, low : 0 .. KeyLen - 1] : l.top <= l.low}
Labelings == [Nat -> LabelRec]

\* The children of the nodes that are linked.
View == [x \in {y \in DOMAIN node : Linked(y)} |-> [s \in Symbols |-> getChild(node[x], s)]]

\* Every linked node has linked children of its own.
Tidy(K) ==
    /\ DOMAIN K \subseteq Nat /\ K \in [DOMAIN K -> [Symbols -> Kid]]
    /\ \A x \in DOMAIN K, s \in Symbols : isInner(K[x][s]) => K[x][s][2] \in DOMAIN K
    /\ \A x, y \in DOMAIN K : \A s, o \in Symbols : isInner(K[x][s]) /\ K[x][s] = K[y][o] => x = y /\ s = o

\* A key that leads to the label k leads on from a node with the label l and these children.
On(f, l, k) == l.low < k.top /\ Shares(l.rep, k.rep, l.low) /\ isInner(f[k.rep[l.low + 1]])

\* Every child is where its symbols say, and every key has one way.
Ordered(K, lab) ==
    /\ \A x \in DOMAIN K, s \in Symbols : isLeaf(K[x][s]) => LeafUnder(lab[x], s, K[x][s])
    /\ \A x \in DOMAIN K, s \in Symbols : isInner(K[x][s]) => Under(lab[x], s, lab[K[x][s][2]])
    /\ \A x, y \in DOMAIN K :
          x # y /\ lab[x].top <= lab[y].top /\ Shares(lab[x].rep, lab[y].rep, lab[x].top) => On(K[x], lab[x], lab[y])
\* The leaves are those that were stored.
Holds(K, S) == \A c : c \in S <=> isLeaf(c) /\ \E x \in DOMAIN K, s \in Symbols : K[x][s] = c

\* A node whose prefix is not that of its label: it was put below a new node, or in its parent's place.
FluxOf(t, x) == (th[t].pc = "cut" /\ x = th[t].n) \/ (th[t].pc = "join" /\ x = Other(t)[2])
Flux(x) == \E t \in Threads : FluxOf(t, x)
Spelled(lab) ==
    /\ \A x \in DOMAIN node : Len(node[x].prefix) <= lab[x].low
    /\ \A x : Linked(x) /\ ~Flux(x) => Fits(node[x].prefix, lab[x])

\* What the prefix will be.
Pending(t, lab) ==
    /\ th[t].pc = "cut" => Fits(SubSeq(node[th[t].n].prefix, th[t].hit + 2, Len(node[th[t].n].prefix)), lab[th[t].n])
    /\ th[t].pc = "join" =>
          Fits(Append(node[th[t].n].prefix, Second(t)) \o node[Other(t)[2]].prefix, lab[Other(t)[2]])

\* What a call that looks for its key knows of where it is.
Finder(t) == th[t].op \in {"insert", "lookup"} /\ Busy(t)
Entry(t) == th[t].pc \in {"read", "couple", "prefix", "bail"} \/ (th[t].pc \in {"lockP", "lockB", "split"} /\ th[t].todo = "split")
Came(t, lab) ==
    /\ th[t].par # 0 => LET l == lab[th[t].par] IN
          /\ Shares(l.rep, th[t].key, l.low) /\ th[t].key[l.low + 1] = th[t].pkey
          /\ Entry(t) => th[t].level = l.low + 1
    /\ th[t].par = 0 /\ Entry(t) => th[t].level = 0
Here(t, lab) == LET l == lab[th[t].n] IN th[t].level = l.low /\ Shares(l.rep, th[t].key, l.low)
VouchedP(t) == th[t].par = 0 \/ ValidP(t)
Sure(t) ==
    \/ th[t].op = "lookup" /\ th[t].pc \in {"child", "check"} /\ Valid(t)
    \/ th[t].op = "insert" /\ th[t].pc \in {"child", "check"} /\ Valid(t) /\ VouchedP(t)
    \/ th[t].pc \in {"checkP", "lockP"} /\ th[t].todo # "split" /\ VouchedP(t)
    \/ th[t].pc \in {"lockN", "lockB", "put", "fork", "grow"} /\ th[t].todo # "split"
Arrived(t, lab) == LET l == lab[th[t].n] IN
    /\ th[t].level = l.top /\ Shares(l.rep, th[t].key, l.top)
    /\ th[t].pc = "bail" => ~Shares(l.rep, th[t].key, l.low)
Finds(t, lab) ==
    Finder(t) =>
       /\ Came(t, lab)
       /\ Sure(t) => Here(t, lab)
       /\ th[t].op = "lookup" /\ th[t].pc \in {"prefix", "bail"} /\ Valid(t) => Arrived(t, lab)

LabelInv(lab) ==
    /\ lab \in Labelings /\ lab[Root].low = 0
    /\ Spelled(lab) /\ \A t \in Threads : Pending(t, lab) /\ Finds(t, lab)
    /\ Ordered(View, lab) /\ Holds(View, store)

\* What a writer has decided, and what it saw of its node.
Deciding == {"checkP", "lockN", "lockP", "lockB"} \cup OwnsN
Plans(t) == LET c == th[t] IN
    /\ c.todo \in {"put", "grow"} => c.child = Null
    /\ c.todo = "fork" => isLeaf(c.child)
    /\ c.todo \in {"put", "grow", "fork", "split", "descend"} => c.op = "insert"
    /\ c.todo \in {"drop", "shrink", "pair"} => c.op = "remove" /\ c.child = MyLeaf(t)
    /\ c.pc \in {"put", "fork", "drop", "split", "grow", "shrink", "pair"} => c.todo = c.pc
    /\ c.pc = "clear" => c.todo = "drop"
    /\ c.pc = "cut" => c.todo = "split"
    /\ c.pc \in {"lift", "join"} => c.todo = "pair"
Stands(t, n) == LET c == th[t] IN
    /\ c.todo # "split" /\ c.pc \notin {"clear", "join"} => c.child = getChild(n, Symbol(t))
    /\ c.pc = "clear" => getChild(n, Symbol(t)) = Null
    /\ c.todo = "grow" => isFull(n)
    /\ c.todo = "shrink" => isUnderfull(n) /\ c.par # 0
    /\ c.todo = "drop" => Symbol(t) \in DOMAIN n.kids /\ (c.par = 0 \/ (getCount(n) # 2 /\ ~isUnderfull(n)))
    /\ c.todo = "split" /\ c.pc # "cut" => c.hit = Agrees(n.prefix, c.key, c.level) /\ c.hit < Len(n.prefix)
Aware(t) == th[t].pc \in Deciding => Plans(t) /\ (Valid(t) => Stands(t, node[th[t].n]))

BranchInv == \A x \in DOMAIN node \ {Root} : Branches(node[x])

\* No two inserts have one key, and an insert's key is not in the tree before it is put there.
CallsInv ==
    /\ \A t, u \in Threads : t # u /\ th[t].op = "insert" /\ th[u].op = "insert" => th[t].key # th[u].key
    /\ \A t \in Threads :
          /\ seen[t].kept \subseteq store /\ (th[t].pc # "idle" => store \subseteq seen[t].held)
          /\ th[t].op = "insert" /\ th[t].pc \notin {"cut", "exit"} => ~HasKey(store, th[t].key)

CInv ==
    /\ \A t \in Threads : Aware(t)
    /\ BranchInv /\ CallsInv /\ LookupsLinearize
    /\ seen \in [Threads -> [held : SUBSET Kid, kept : SUBSET Kid]]
    /\ \E lab \in Labelings : LabelInv(lab)

-----------------------------------------------------------------------------
(* Labels.                                                                 *)

\* The parts of a label.
LEMMA LabelIs ==
    ASSUME NEW l \in LabelRec
    PROVE  /\ l.rep \in Keys /\ l.top \in Nat /\ l.low \in Nat /\ l.top <= l.low /\ l.low < KeyLen
           /\ l.rep[l.low + 1] \in Symbols /\ KeyLen \in Nat \ {0}
           /\ l.low \in 0 .. KeyLen - 1 /\ l.top \in 0 .. KeyLen - 1
<1>1. KeyLen \in Nat \ {0}
  BY SymbolAssumption
<1>2. l.rep \in Keys /\ l.top \in 0 .. KeyLen - 1 /\ l.low \in 0 .. KeyLen - 1 /\ l.top <= l.low
  BY DEF LabelRec
<1>3. l.low + 1 \in 1 .. KeyLen
  BY <1>1, <1>2
<1> QED
  BY <1>1, <1>2, <1>3 DEF Keys

\* A labelling gives every node a label.
LEMMA LabelsAre ==
    ASSUME NEW lab \in Labelings, NEW x \in Nat
    PROVE  /\ lab[x] \in LabelRec
           /\ lab[x].rep \in Keys /\ lab[x].top \in Nat /\ lab[x].low \in Nat /\ lab[x].top <= lab[x].low
           /\ lab[x].low < KeyLen /\ KeyLen \in Nat \ {0} /\ lab[x].rep[lab[x].low + 1] \in Symbols
BY LabelIs DEF Labelings

\* Sharing symbols: fewer, both ways, and over a third key.
LEMMA SharesIs ==
    /\ \A j, k : \A m, n \in Nat : m <= n /\ Shares(j, k, n) => Shares(j, k, m)
    /\ \A j, k, n : Shares(j, k, n) => Shares(k, j, n)
    /\ \A i, j, k : \A n \in Nat : Shares(i, j, n) /\ Shares(j, k, n) => Shares(i, k, n)
    /\ \A j, k : \A m, n \in Nat : m < n /\ Shares(j, k, n) => j[m + 1] = k[m + 1]
    /\ \A j, k : \A n \in Nat : Shares(j, k, n) /\ j[n + 1] = k[n + 1] => Shares(j, k, n + 1)
    /\ \A k, n : Shares(k, k, n)
    /\ \A j, k : Shares(j, k, 0)
<1>1. ASSUME NEW j, NEW k, NEW m \in Nat, NEW n \in Nat, m <= n, Shares(j, k, n)
      PROVE  Shares(j, k, m)
  BY <1>1 DEF Shares
<1>2. \A i, j, k : \A n \in Nat : Shares(i, j, n) /\ Shares(j, k, n) => Shares(i, k, n)
  BY DEF Shares
<1>3. ASSUME NEW j, NEW k, NEW m \in Nat, NEW n \in Nat, m < n, Shares(j, k, n)
      PROVE  j[m + 1] = k[m + 1]
  <2>1. m + 1 \in 1 .. n
    BY <1>3
  <2> QED
    BY <1>3, <2>1 DEF Shares
<1>4. ASSUME NEW j, NEW k, NEW n \in Nat, Shares(j, k, n), j[n + 1] = k[n + 1]
      PROVE  Shares(j, k, n + 1)
  <2>1. \A i \in 1 .. n + 1 : i \in 1 .. n \/ i = n + 1
    OBVIOUS
  <2> QED
    BY <1>4, <2>1 DEF Shares
<1>5. /\ \A j, k, n : Shares(j, k, n) => Shares(k, j, n)
      /\ \A k, n : Shares(k, k, n)
      /\ \A j, k : Shares(j, k, 0)
  BY DEF Shares
<1> QED
  BY <1>1, <1>2, <1>3, <1>4, <1>5

\* Fewer symbols of two keys that share more.
LEMMA SharesLess ==
    ASSUME NEW j, NEW k, NEW m \in Nat, NEW n \in Nat, m <= n, Shares(j, k, n)
    PROVE  Shares(j, k, m)
BY DEF Shares

\* One of the symbols that two keys share.
LEMMA SharesAt ==
    ASSUME NEW j, NEW k, NEW m \in Nat, NEW n \in Nat, m < n, Shares(j, k, n)
    PROVE  j[m + 1] = k[m + 1]
<1>1. m + 1 \in 1 .. n
  OBVIOUS
<1> QED
  BY <1>1 DEF Shares

\* Keys that share every symbol are one key.
LEMMA SameKey ==
    ASSUME NEW j \in Keys, NEW k \in Keys, Shares(j, k, KeyLen)
    PROVE  j = k
<1>1. j = [i \in 1 .. KeyLen |-> j[i]] /\ k = [i \in 1 .. KeyLen |-> k[i]]
  BY DEF Keys
<1>2. \A i \in 1 .. KeyLen : j[i] = k[i]
  BY DEF Shares
<1> QED
  BY <1>1, <1>2

\* What is above what, of two nodes on the way of a key.
LEMMA OneWay ==
    ASSUME NEW K, NEW lab \in Labelings, DOMAIN K \subseteq Nat, Ordered(K, lab), NEW x \in DOMAIN K, NEW y \in DOMAIN K, x # y, NEW k,
           Shares(lab[x].rep, k, lab[x].top), Shares(lab[y].rep, k, lab[y].top)
    PROVE  On(K[x], lab[x], lab[y]) \/ On(K[y], lab[y], lab[x])
<1>1. lab[x].top \in Nat /\ lab[y].top \in Nat
  BY LabelsAre
<1>2. CASE lab[x].top <= lab[y].top
  BY <1>1, <1>2, SharesIs DEF Ordered
<1>3. CASE lab[y].top <= lab[x].top
  BY <1>1, <1>3, SharesIs DEF Ordered
<1> QED
  BY <1>1, <1>2, <1>3

\* The one place for a key's leaf: at the node that the key leads to and on from which no inner node leads.
LEMMA OnlyPlace ==
    ASSUME NEW K, NEW lab \in Labelings, Tidy(K), Ordered(K, lab), NEW x \in DOMAIN K, NEW y \in DOMAIN K,
           NEW s \in Symbols, NEW k \in Keys, isLeaf(K[y][s]), K[y][s][2] = k,
           Shares(lab[x].rep, k, lab[x].top),
           Shares(lab[x].rep, k, lab[x].low) => ~isInner(K[x][k[lab[x].low + 1]])
    PROVE  x = y /\ s = k[lab[x].low + 1] /\ Shares(lab[x].rep, k, lab[x].low)
<1> DEFINE l == lab[x]
           m == lab[y]
<1>1. /\ l.top \in Nat /\ l.low \in Nat /\ l.top <= l.low /\ m.top \in Nat /\ m.low \in Nat /\ m.top <= m.low
      /\ DOMAIN K \subseteq Nat
  BY LabelsAre DEF Tidy
<1>2. Shares(m.rep, k, m.low) /\ k[m.low + 1] = s /\ Shares(m.rep, k, m.top)
  <2>1. Shares(m.rep, k, m.low) /\ k[m.low + 1] = s
    BY DEF Ordered, LeafUnder
  <2> QED
    BY <1>1, <2>1, SharesIs
<1>3. ~isInner(K[y][s])
  BY DEF isLeaf, isInner
<1>4. SUFFICES ASSUME x # y PROVE FALSE
  BY <1>2
<1>5. On(K[x], l, m) \/ On(K[y], m, l)
  BY <1>1, <1>2, <1>4, OneWay
<1> HIDE DEF l, m
<1>6. CASE On(K[x], l, m)
  <2>1. l.low < m.top /\ Shares(l.rep, m.rep, l.low) /\ isInner(K[x][m.rep[l.low + 1]])
    BY <1>6 DEF On
  <2>2. Shares(m.rep, k, l.low) /\ m.rep[l.low + 1] = k[l.low + 1]
    <3>1. l.low <= m.top
      BY <1>1, <2>1
    <3>2. Shares(m.rep, k, l.low)
      BY ONLY <1>1, <1>2, <3>1, SharesLess
    <3>3. l.low + 1 \in 1 .. m.top
      BY <1>1, <2>1
    <3>4. m.rep[l.low + 1] = k[l.low + 1]
      BY ONLY <1>2, <3>3 DEF Shares
    <3> QED
      BY ONLY <3>2, <3>4
  <2>3. Shares(l.rep, k, l.low)
    BY <1>1, <2>1, <2>2, SharesIs
  <2> QED
    BY <2>1, <2>2, <2>3 DEF l
<1>7. CASE On(K[y], m, l)
  <2>1. m.low < l.top /\ isInner(K[y][l.rep[m.low + 1]])
    BY <1>7 DEF On
  <2>2. l.rep[m.low + 1] = k[m.low + 1]
    <3>1. Shares(l.rep, k, l.top)
      BY DEF l
    <3> QED
      BY ONLY <1>1, <2>1, <3>1, SharesAt
  <2> QED
    BY <1>2, <1>3, <2>1, <2>2
<1> QED
  BY <1>5, <1>6, <1>7

-----------------------------------------------------------------------------
(* What the writes do to a tree that is sorted: K before, K2 after.        *)

\* K2 is K with the child at s of n set to c.
Sets(K, K2, n, s, c) == \A x \in DOMAIN K, o \in Symbols : K2[x][o] = IF x = n /\ o = s THEN c ELSE K[x][o]
KidFuns(X) == [X -> [Symbols -> Kid]]

\* A leaf is set at a free place, or taken out.
LEMMA SetsLeaf ==
    ASSUME NEW K, NEW lab \in Labelings, NEW S, Tidy(K), Ordered(K, lab), Holds(K, S),
           NEW n \in DOMAIN K, NEW s \in Symbols, NEW c \in Kid, ~isInner(K[n][s]), ~isInner(c),
           isLeaf(c) => LeafUnder(lab[n], s, c),
           NEW K2 \in KidFuns(DOMAIN K), Sets(K, K2, n, s, c)
    PROVE  Tidy(K2) /\ Ordered(K2, lab) /\ Holds(K2, (S \ {K[n][s]}) \cup ({c} \ {Null}))
<1>1. DOMAIN K2 = DOMAIN K /\ DOMAIN K \subseteq Nat /\ \A x \in DOMAIN K, o \in Symbols : K[x][o] \in Kid /\ K2[x][o] \in Kid
  BY DEF KidFuns, Tidy
<1>2. /\ \A x \in DOMAIN K, o \in Symbols : isInner(K2[x][o]) <=> isInner(K[x][o])
      /\ \A x \in DOMAIN K, o \in Symbols : isInner(K2[x][o]) => K2[x][o] = K[x][o]
  BY DEF Sets
<1>3. Tidy(K2)
  BY <1>1, <1>2 DEF Tidy, KidFuns
<1>4. ASSUME NEW x \in DOMAIN K, NEW y \in DOMAIN K, On(K[x], lab[x], lab[y])
      PROVE  On(K2[x], lab[x], lab[y])
  <2>1. lab[x].low < lab[y].top /\ isInner(K[x][lab[y].rep[lab[x].low + 1]])
    BY <1>4 DEF On
  <2>2. lab[y].rep[lab[x].low + 1] \in Symbols
    <3>1. /\ lab[x].low \in Nat /\ lab[y].top \in Nat /\ lab[y].low \in Nat /\ lab[y].top <= lab[y].low /\ lab[y].low < KeyLen
          /\ KeyLen \in Nat /\ lab[y].rep \in Keys
      BY <1>1, LabelsAre
    <3>2. lab[x].low + 1 \in 1 .. KeyLen
      BY <2>1, <3>1
    <3> QED
      BY <3>1, <3>2 DEF Keys
  <2> QED
    BY <1>2, <1>4, <2>1, <2>2 DEF On
<1>5. Ordered(K2, lab)
  <2>1. ASSUME NEW x \in DOMAIN K, NEW o \in Symbols, isLeaf(K2[x][o])
        PROVE  LeafUnder(lab[x], o, K2[x][o])
    BY <2>1 DEF Sets, Ordered
  <2>2. ASSUME NEW x \in DOMAIN K, NEW o \in Symbols, isInner(K2[x][o])
        PROVE  Under(lab[x], o, lab[K2[x][o][2]])
    BY <1>2, <2>2 DEF Ordered
  <2>3. ASSUME NEW x \in DOMAIN K, NEW y \in DOMAIN K, x # y, lab[x].top <= lab[y].top, Shares(lab[x].rep, lab[y].rep, lab[x].top)
        PROVE  On(K2[x], lab[x], lab[y])
    BY <1>4, <2>3 DEF Ordered
  <2> QED
    BY <1>1, <2>1, <2>2, <2>3 DEF Ordered
<1>6. ASSUME isLeaf(K[n][s]), NEW x \in DOMAIN K, NEW o \in Symbols, K[x][o] = K[n][s]
      PROVE  x = n /\ o = s
  <2> DEFINE k == K[n][s][2]
  <2>1. k \in Keys /\ LeafUnder(lab[n], s, K[n][s])
    BY <1>1, <1>6, KidIs DEF Ordered
  <2>2. Shares(lab[n].rep, k, lab[n].low) /\ k[lab[n].low + 1] = s
    BY <2>1 DEF LeafUnder
  <2>3. Shares(lab[n].rep, k, lab[n].top)
    <3>1. lab[n].top \in Nat /\ lab[n].low \in Nat /\ lab[n].top <= lab[n].low
      BY <1>1, LabelsAre
    <3> QED
      BY ONLY <2>2, <3>1, SharesLess
  <2>4. isLeaf(K[x][o]) /\ K[x][o][2] = k
    BY <1>6
  <2> HIDE DEF k
  <2> QED
    BY <2>1, <2>2, <2>3, <2>4, OnlyPlace
<1>7. isLeaf(Null) = FALSE
  BY KidIs
<1>8. ASSUME NEW d
      PROVE  d \in (S \ {K[n][s]}) \cup ({c} \ {Null}) <=> isLeaf(d) /\ \E x \in DOMAIN K2, o \in Symbols : K2[x][o] = d
  <2>1. ASSUME d \in S, d # K[n][s]
        PROVE  isLeaf(d) /\ \E x \in DOMAIN K2, o \in Symbols : K2[x][o] = d
    <3>1. PICK x \in DOMAIN K, o \in Symbols : K[x][o] = d /\ isLeaf(d)
      BY <2>1 DEF Holds
    <3>2. K2[x][o] = d
      BY <2>1, <3>1 DEF Sets
    <3> QED
      BY <1>1, <3>1, <3>2
  <2>2. ASSUME d = c, c # Null
        PROVE  isLeaf(d) /\ \E x \in DOMAIN K2, o \in Symbols : K2[x][o] = d
    <3>1. isLeaf(c) /\ K2[n][s] = c
      BY <2>2, KidIs DEF Sets
    <3> QED
      BY <1>1, <2>2, <3>1
  <2>3. ASSUME isLeaf(d), NEW x \in DOMAIN K2, NEW o \in Symbols, K2[x][o] = d
        PROVE  d \in (S \ {K[n][s]}) \cup ({c} \ {Null})
    <3>1. CASE x = n /\ o = s
      BY <1>7, <2>3, <3>1 DEF Sets
    <3>2. CASE ~(x = n /\ o = s)
      <4>1. K[x][o] = d
        BY <1>1, <2>3, <3>2 DEF Sets
      <4>2. d \in S
        BY <1>1, <2>3, <4>1 DEF Holds
      <4>3. d # K[n][s]
        BY <1>1, <1>6, <2>3, <3>2, <4>1
      <4> QED
        BY <4>2, <4>3
    <3> QED
      BY <3>1, <3>2
  <2> QED
    BY <2>1, <2>2, <2>3
<1> QED
  BY <1>3, <1>5, <1>8 DEF Holds

\* The symbol with which a key leads on is one.
LEMMA OnSymbol ==
    ASSUME NEW l \in LabelRec, NEW k \in LabelRec, l.low < k.top
    PROVE  l.low + 1 \in 1 .. k.top /\ l.low + 1 \in 1 .. KeyLen /\ k.rep[l.low + 1] \in Symbols
<1>1. /\ l.low \in Nat /\ k.top \in Nat /\ k.low \in Nat /\ k.top <= k.low /\ k.low < KeyLen /\ KeyLen \in Nat /\ k.rep \in Keys
  BY LabelIs
<1>2. l.low + 1 \in 1 .. KeyLen /\ l.low + 1 \in 1 .. k.top
  BY <1>1
<1> QED
  BY <1>1, <1>2 DEF Keys

\* On depends on the children that are inner nodes only.
LEMMA OnStays ==
    ASSUME NEW f, NEW g, NEW l \in LabelRec, NEW k \in LabelRec, On(f, l, k),
           isInner(f[k.rep[l.low + 1]]) => isInner(g[k.rep[l.low + 1]])
    PROVE  On(g, l, k)
BY DEF On

\* What a node sends on to one place it sends on to every place below.
LEMMA OnFarther ==
    ASSUME NEW f, NEW a \in LabelRec, NEW l \in LabelRec, NEW m \in LabelRec, On(f, a, l),
           l.top <= m.top, Shares(l.rep, m.rep, l.top)
    PROVE  On(f, a, m)
<1>1. a.low \in Nat /\ l.top \in Nat /\ m.top \in Nat
  BY LabelIs
<1>2. a.low < l.top /\ Shares(a.rep, l.rep, a.low) /\ isInner(f[l.rep[a.low + 1]])
  BY DEF On
<1>3. a.low < m.top /\ a.low <= l.top
  BY ONLY <1>1, <1>2, l.top <= m.top
<1>4. Shares(l.rep, m.rep, a.low)
  BY ONLY <1>1, <1>3, Shares(l.rep, m.rep, l.top), SharesLess
<1>5. l.rep[a.low + 1] = m.rep[a.low + 1]
  BY ONLY SMTT(30), ZenonT(30), <1>1, <1>2, Shares(l.rep, m.rep, l.top), SharesAt
<1>6. Shares(a.rep, m.rep, a.low)
  BY ONLY <1>1, <1>2, <1>4, SharesIs
<1> QED
  BY ONLY <1>2, <1>3, <1>5, <1>6 DEF On

\* A leaf in the way: the leaf and a new one are put below a new node, which takes the leaf's place.
Fork2(K, K2, lab, lab2, n, s, old, c, k, low, f) ==
    /\ n \in DOMAIN K /\ s \in Symbols /\ K[n][s] = old /\ isLeaf(old)
    /\ c \in Kid /\ isLeaf(c) /\ k \in Keys /\ c[2] = k /\ Shares(lab[n].rep, k, lab[n].low) /\ k[lab[n].low + 1] = s
    /\ low \in Nat /\ lab[n].low + 1 <= low /\ low < KeyLen /\ Shares(k, old[2], low) /\ k[low + 1] # old[2][low + 1]
    /\ f \in Nat /\ f \notin DOMAIN K
    /\ K2 \in KidFuns(DOMAIN K \cup {f}) /\ Sets(K, K2, n, s, Inner(f))
    /\ \A o \in Symbols : K2[f][o] = IF o = k[low + 1] THEN c ELSE IF o = old[2][low + 1] THEN old ELSE Null
    /\ lab2 = [lab EXCEPT ![f] = [rep |-> k, top |-> lab[n].low + 1, low |-> low]]

\* A leaf in the way put below a new node, together with a new leaf: the tree stays sorted.
LEMMA Forks ==
    ASSUME NEW K, NEW K2, NEW lab \in Labelings, NEW lab2, NEW S, Tidy(K), Ordered(K, lab), Holds(K, S),
           NEW n, NEW s, NEW old, NEW c, NEW k, NEW low, NEW f, Fork2(K, K2, lab, lab2, n, s, old, c, k, low, f)
    PROVE  lab2 \in Labelings /\ Ordered(K2, lab2) /\ Holds(K2, S \cup {c})
<1> SUFFICES ASSUME n \in DOMAIN K, s \in Symbols, K[n][s] = old, isLeaf(old),
                    c \in Kid, isLeaf(c), k \in Keys, c[2] = k, Shares(lab[n].rep, k, lab[n].low), k[lab[n].low + 1] = s,
                    low \in Nat, lab[n].low + 1 <= low, low < KeyLen, Shares(k, old[2], low), k[low + 1] # old[2][low + 1],
                    f \in Nat, f \notin DOMAIN K,
                    K2 \in KidFuns(DOMAIN K \cup {f}), Sets(K, K2, n, s, Inner(f)),
                    \A o \in Symbols : K2[f][o] = IF o = k[low + 1] THEN c ELSE IF o = old[2][low + 1] THEN old ELSE Null,
                    lab2 = [lab EXCEPT ![f] = [rep |-> k, top |-> lab[n].low + 1, low |-> low]]
             PROVE  lab2 \in Labelings /\ Ordered(K2, lab2) /\ Holds(K2, S \cup {c})
  BY DEF Fork2
<1> DEFINE l == lab[n]
           m == [rep |-> k, top |-> lab[n].low + 1, low |-> low]
<1>1. /\ DOMAIN K2 = DOMAIN K \cup {f} /\ DOMAIN K \subseteq Nat /\ f # n
      /\ \A x \in DOMAIN K, o \in Symbols : K[x][o] \in Kid /\ K2[x][o] \in Kid
  BY DEF KidFuns, Tidy
<1>2. /\ l \in LabelRec /\ l.rep \in Keys /\ l.top \in Nat /\ l.low \in Nat /\ l.top <= l.low /\ l.low < KeyLen /\ KeyLen \in Nat \ {0}
  BY <1>1, LabelsAre
<1>3. m \in LabelRec /\ m.rep = k /\ m.top = l.low + 1 /\ m.low = low
  BY <1>2 DEF LabelRec
<1> HIDE DEF m
<1>4. lab2 \in Labelings /\ lab2[f] = m /\ \A x \in DOMAIN K : lab2[x] = lab[x] /\ lab[x] \in LabelRec
  BY <1>1, <1>3, LabelsAre DEF Labelings, m
<1>5. /\ isInner(Inner(f)) /\ ~isLeaf(Inner(f)) /\ Inner(f)[2] = f /\ ~isInner(old) /\ ~isInner(c) /\ ~isInner(Null) /\ ~isLeaf(Null)
      /\ old \in Kid /\ old[2] \in Keys
  BY <1>1, KidIs DEF isLeaf, isInner
<1>6. k[low + 1] \in Symbols /\ old[2][low + 1] \in Symbols
  <2>1. low + 1 \in 1 .. KeyLen
    BY <1>2
  <2> QED
    BY <1>5, <2>1 DEF Keys
<1>7. /\ Shares(l.rep, k, l.top) /\ Shares(l.rep, k, l.low) /\ Shares(k, k, low)
      /\ Shares(l.rep, old[2], l.low) /\ old[2][l.low + 1] = s
  <2>1. Shares(l.rep, old[2], l.low) /\ old[2][l.low + 1] = s
    BY <1>5 DEF Ordered, LeafUnder
  <2> QED
    BY <1>2, <2>1, SharesIs
<1>8. K2[n][s] = Inner(f) /\ \A x \in DOMAIN K, o \in Symbols : ~(x = n /\ o = s) => K2[x][o] = K[x][o]
  BY DEF Sets
<1>9. ASSUME NEW x \in DOMAIN K2, NEW o \in Symbols, isLeaf(K2[x][o])
      PROVE  LeafUnder(lab2[x], o, K2[x][o])
  <2>1. CASE x = f
    <3>1. CASE o = k[low + 1]
      BY <1>3, <1>4, <1>7, <2>1, <3>1 DEF LeafUnder
    <3>2. CASE o = old[2][low + 1] /\ o # k[low + 1]
      BY <1>3, <1>4, <2>1, <3>2 DEF LeafUnder
    <3> QED
      BY <1>5, <1>9, <2>1, <3>1, <3>2
  <2>2. CASE x # f
    <3>1. x \in DOMAIN K /\ K2[x][o] = K[x][o]
      BY <1>1, <1>5, <1>8, <1>9, <2>2
    <3> QED
      BY <1>4, <1>9, <3>1 DEF Ordered
  <2> QED
    BY <2>1, <2>2
<1>10. ASSUME NEW x \in DOMAIN K2, NEW o \in Symbols, isInner(K2[x][o])
       PROVE  Under(lab2[x], o, lab2[K2[x][o][2]])
  <2>1. x \in DOMAIN K
    BY <1>1, <1>5, <1>10
  <2>2. CASE x = n /\ o = s
    BY <1>3, <1>4, <1>5, <1>7, <1>8, <2>1, <2>2 DEF Under
  <2>3. CASE ~(x = n /\ o = s)
    <3>1. K2[x][o] = K[x][o]
      BY <1>8, <2>1, <2>3
    <3>2. K[x][o][2] \in DOMAIN K /\ Under(lab[x], o, lab[K[x][o][2]])
      BY <1>10, <2>1, <3>1 DEF Tidy, Ordered
    <3> QED
      BY <1>4, <2>1, <3>1, <3>2
  <2> QED
    BY <2>2, <2>3
<1>11. ASSUME NEW x \in DOMAIN K, x # n
       PROVE  LET a == lab[x] IN
              /\ Shares(a.rep, k, a.top) /\ a.top <= m.top => On(K[x], a, l)
              /\ ~(m.top <= a.top /\ Shares(k, a.rep, m.top))
  <2> DEFINE a == lab[x]
  <2>1. a \in LabelRec /\ a.top \in Nat /\ a.low \in Nat /\ a.top <= a.low
    BY <1>1, <1>4, LabelsAre
  <2>2. ~isInner(K[n][k[l.low + 1]])
    BY <1>5
  <2>3. ~(l.low < a.top /\ a.rep[l.low + 1] = k[l.low + 1] /\ On(K[n], l, a))
    BY <2>2 DEF On
  <2>4. ASSUME Shares(a.rep, k, a.top)
        PROVE  On(K[x], a, l) \/ On(K[n], l, a)
    BY <1>1, <1>7, <1>11, <2>4, OneWay
  <2>5. ASSUME Shares(a.rep, k, a.top), a.top <= m.top
        PROVE  On(K[x], a, l)
    <3> SUFFICES ASSUME On(K[n], l, a) PROVE FALSE
      BY <2>4, <2>5
    <3>1. l.low < a.top
      BY DEF On
    <3>2. l.low + 1 \in 1 .. a.top
      BY <1>2, <2>1, <3>1
    <3>3. a.rep[l.low + 1] = k[l.low + 1]
      BY ONLY <2>5, <3>2 DEF Shares
    <3> QED
      BY <2>3, <3>1, <3>3
  <2>6. ASSUME m.top <= a.top, Shares(k, a.rep, m.top)
        PROVE  FALSE
    <3>1. l.top <= a.top /\ l.top <= m.top /\ m.top \in Nat /\ l.low < a.top
      BY <1>2, <1>3, <2>1, <2>6
    <3>2. Shares(k, a.rep, l.top)
      BY ONLY <1>2, <2>6, <3>1, SharesLess
    <3>3. Shares(l.rep, a.rep, l.top)
      BY <1>2, <1>7, <3>2, SharesIs
    <3>4. On(K[n], l, a)
      BY <1>11, <3>1, <3>3 DEF Ordered
    <3>5. l.low + 1 \in 1 .. m.top
      BY <1>2, <1>3
    <3>6. k[l.low + 1] = a.rep[l.low + 1]
      BY ONLY <2>6, <3>5 DEF Shares
    <3> QED
      BY <2>3, <3>1, <3>4, <3>6
  <2> QED
    BY <2>5, <2>6
<1>12. ASSUME NEW x \in DOMAIN K, NEW b \in LabelRec, On(K[x], lab[x], b)
       PROVE  On(K2[x], lab[x], b)
  <2>1. lab[x].low < b.top
    BY <1>12 DEF On
  <2>2. b.rep[lab[x].low + 1] \in Symbols
    BY <1>4, <2>1, OnSymbol
  <2>3. isInner(K[x][b.rep[lab[x].low + 1]]) => isInner(K2[x][b.rep[lab[x].low + 1]])
    BY <1>5, <1>8, <2>2
  <2>4. lab[x] \in LabelRec
    BY <1>4
  <2> QED
    BY ONLY <1>12, <2>3, <2>4, OnStays
<1>13. ASSUME NEW x \in DOMAIN K2, NEW y \in DOMAIN K2, x # y, lab2[x].top <= lab2[y].top,
              Shares(lab2[x].rep, lab2[y].rep, lab2[x].top)
       PROVE  On(K2[x], lab2[x], lab2[y])
  <2>1. CASE x # f /\ y # f
    BY <1>1, <1>4, <1>12, <1>13, <2>1 DEF Ordered
  <2>2. CASE x = f
    <3>1. y \in DOMAIN K /\ lab2[y] = lab[y] /\ lab[y].top \in Nat /\ m.top <= lab[y].top /\ Shares(k, lab[y].rep, m.top)
      BY <1>1, <1>3, <1>4, <1>13, <2>2, LabelsAre
    <3>2. CASE y # n
      BY <1>11, <3>1, <3>2
    <3>3. CASE y = n
      BY <1>2, <1>3, <3>1, <3>3
    <3> QED
      BY <3>2, <3>3
  <2>3. CASE y = f /\ x = n
    BY <1>2, <1>3, <1>4, <1>5, <1>7, <1>8, <2>3 DEF On
  <2>4. CASE y = f /\ x # f /\ x # n
    <3>1. x \in DOMAIN K /\ lab2[x] = lab[x] /\ lab2[y] = m /\ lab[x] \in LabelRec /\ lab[x].low \in Nat
      BY <1>1, <1>4, <2>4, LabelsAre
    <3>2. On(K[x], lab[x], l)
      BY <1>3, <1>11, <1>13, <2>4, <3>1
    <3>3. l.top <= m.top /\ Shares(l.rep, m.rep, l.top)
      BY <1>2, <1>3, <1>7
    <3>4. On(K[x], lab[x], m)
      BY ONLY <1>2, <1>3, <3>1, <3>2, <3>3, OnFarther
    <3> QED
      BY <1>3, <1>12, <3>1, <3>4
  <2> QED
    BY <1>1, <1>13, <2>1, <2>2, <2>3, <2>4
<1>14. Holds(K2, S \cup {c})
  <2>1. K2[f][k[low + 1]] = c /\ K2[f][old[2][low + 1]] = old
    BY <1>6
  <2>2. \A o \in Symbols : K2[f][o] \in {c, old, Null}
    OBVIOUS
  <2>3. old \in S
    BY DEF Holds
  <2>4. ASSUME NEW d \in S
        PROVE  isLeaf(d) /\ \E x \in DOMAIN K2, o \in Symbols : K2[x][o] = d
    <3>1. PICK x \in DOMAIN K, o \in Symbols : K[x][o] = d /\ isLeaf(d)
      BY DEF Holds
    <3>2. CASE x = n /\ o = s
      BY <1>1, <1>6, <2>1, <3>1, <3>2
    <3>3. CASE ~(x = n /\ o = s)
      BY <1>1, <1>8, <3>1, <3>3
    <3> QED
      BY <3>2, <3>3
  <2>5. ASSUME NEW d, isLeaf(d), NEW x \in DOMAIN K2, NEW o \in Symbols, K2[x][o] = d
        PROVE  d \in S \cup {c}
    <3>1. CASE x = f
      BY <1>5, <2>2, <2>3, <2>5, <3>1
    <3>2. CASE x # f
      <4>1. x \in DOMAIN K /\ K[x][o] = d
        BY <1>1, <1>5, <1>8, <2>5, <3>2
      <4> QED
        BY <2>5, <4>1 DEF Holds
    <3> QED
      BY <3>1, <3>2
  <2> QED
    BY <1>1, <1>6, <2>1, <2>4, <2>5 DEF Holds
<1>15. Ordered(K2, lab2)
  BY <1>9, <1>10, <1>13 DEF Ordered
<1> QED
  BY <1>4, <1>14, <1>15

\* A prefix that differs: a new node takes the node's place, with the part that agrees, above it and a new leaf.
Split2(K, K2, lab, lab2, p, s, n, c, k, low, f) ==
    /\ p \in DOMAIN K /\ s \in Symbols /\ K[p][s] = Inner(n)
    /\ c \in Kid /\ isLeaf(c) /\ k \in Keys /\ c[2] = k
    /\ low \in Nat /\ lab[n].top <= low /\ low < lab[n].low
    /\ Shares(lab[n].rep, k, low) /\ k[low + 1] # lab[n].rep[low + 1]
    /\ f \in Nat /\ f \notin DOMAIN K
    /\ K2 \in KidFuns(DOMAIN K \cup {f}) /\ Sets(K, K2, p, s, Inner(f))
    /\ \A o \in Symbols : K2[f][o] = IF o = k[low + 1] THEN c ELSE IF o = lab[n].rep[low + 1] THEN Inner(n) ELSE Null
    /\ lab2 = [lab EXCEPT ![f] = [rep |-> lab[n].rep, top |-> lab[n].top, low |-> low],
                          ![n] = [rep |-> lab[n].rep, top |-> low + 1, low |-> lab[n].low]]

\* A new node above one whose prefix the key leaves, with a new leaf: the tree stays sorted.
LEMMA Splits ==
    ASSUME NEW K, NEW K2, NEW lab \in Labelings, NEW lab2, NEW S, Tidy(K), Ordered(K, lab), Holds(K, S),
           NEW p, NEW s, NEW n, NEW c, NEW k, NEW low, NEW f, Split2(K, K2, lab, lab2, p, s, n, c, k, low, f)
    PROVE  /\ lab2 \in Labelings /\ Ordered(K2, lab2) /\ Holds(K2, S \cup {c})
           /\ n \in DOMAIN K /\ n # f
<1> SUFFICES ASSUME p \in DOMAIN K, s \in Symbols, K[p][s] = Inner(n),
                    c \in Kid, isLeaf(c), k \in Keys, c[2] = k,
                    low \in Nat, lab[n].top <= low, low < lab[n].low,
                    Shares(lab[n].rep, k, low), k[low + 1] # lab[n].rep[low + 1],
                    f \in Nat, f \notin DOMAIN K,
                    K2 \in KidFuns(DOMAIN K \cup {f}), Sets(K, K2, p, s, Inner(f)),
                    \A o \in Symbols : K2[f][o] = IF o = k[low + 1] THEN c ELSE IF o = lab[n].rep[low + 1] THEN Inner(n) ELSE Null,
                    lab2 = [lab EXCEPT ![f] = [rep |-> lab[n].rep, top |-> lab[n].top, low |-> low],
                                       ![n] = [rep |-> lab[n].rep, top |-> low + 1, low |-> lab[n].low]]
             PROVE  /\ lab2 \in Labelings /\ Ordered(K2, lab2) /\ Holds(K2, S \cup {c})
                    /\ n \in DOMAIN K /\ n # f
  BY DEF Split2
<1> DEFINE l == lab[n]
           m == [rep |-> lab[n].rep, top |-> lab[n].top, low |-> low]
           q == [rep |-> lab[n].rep, top |-> low + 1, low |-> lab[n].low]
<1>1. /\ isInner(Inner(f)) /\ ~isLeaf(Inner(f)) /\ Inner(f)[2] = f /\ isInner(Inner(n)) /\ ~isLeaf(Inner(n)) /\ Inner(n)[2] = n
      /\ ~isInner(c) /\ ~isInner(Null) /\ ~isLeaf(Null)
  BY KidIs DEF isLeaf, isInner
<1>2. /\ DOMAIN K2 = DOMAIN K \cup {f} /\ DOMAIN K \subseteq Nat /\ n \in DOMAIN K /\ f # n /\ f # p
      /\ \A x \in DOMAIN K, o \in Symbols : K[x][o] \in Kid /\ K2[x][o] \in Kid
  BY <1>1 DEF KidFuns, Tidy
<1>3. /\ l \in LabelRec /\ l.rep \in Keys /\ l.top \in Nat /\ l.low \in Nat /\ l.top <= l.low /\ l.low < KeyLen /\ KeyLen \in Nat \ {0}
  BY <1>2, LabelsAre
<1>4. /\ m \in LabelRec /\ m.rep = l.rep /\ m.top = l.top /\ m.low = low
      /\ q \in LabelRec /\ q.rep = l.rep /\ q.top = low + 1 /\ q.low = l.low
  BY <1>3 DEF LabelRec
<1> HIDE DEF m, q
<1>5. /\ lab2 \in Labelings /\ lab2[f] = m /\ lab2[n] = q
      /\ \A x \in DOMAIN K : lab[x] \in LabelRec /\ (x # n => lab2[x] = lab[x])
  <2>1. \A x \in DOMAIN K : lab[x] \in LabelRec
    BY <1>2, LabelsAre
  <2> QED
    BY <1>2, <1>4, <2>1 DEF Labelings, m, q
<1>6. Under(lab[p], s, l)
  BY <1>1 DEF Ordered
<1>7. p # n
  <2>1. l.top # l.low + 1
    BY <1>3
  <2> QED
    BY <1>6, <2>1 DEF Under
<1>8. /\ k[low + 1] \in Symbols /\ l.rep[low + 1] \in Symbols /\ low < q.top /\ low + 1 \in 1 .. l.low /\ low + 1 \in 1 .. q.top
  <2>1. low + 1 \in 1 .. KeyLen /\ low + 1 \in 1 .. l.low /\ low < q.top /\ low + 1 \in 1 .. q.top
    BY <1>3, <1>4
  <2> QED
    BY <1>3, <2>1 DEF Keys
<1>9. K2[p][s] = Inner(f) /\ \A x \in DOMAIN K, o \in Symbols : ~(x = p /\ o = s) => K2[x][o] = K[x][o]
  BY DEF Sets
<1>10. K2[f][k[low + 1]] = c /\ K2[f][l.rep[low + 1]] = Inner(n)
  BY <1>8
<1>11. ASSUME NEW x \in DOMAIN K2, NEW o \in Symbols, isLeaf(K2[x][o])
       PROVE  LeafUnder(lab2[x], o, K2[x][o])
  <2>1. CASE x = f
    BY <1>1, <1>4, <1>5, <1>11, <2>1 DEF LeafUnder
  <2>2. CASE x # f
    <3>1. x \in DOMAIN K /\ K2[x][o] = K[x][o]
      BY <1>1, <1>2, <1>9, <1>11, <2>2
    <3>2. LeafUnder(lab[x], o, K[x][o])
      BY <1>11, <3>1 DEF Ordered
    <3>3. CASE x = n
      BY <1>4, <1>5, <3>1, <3>2, <3>3 DEF LeafUnder
    <3> QED
      BY <1>5, <3>1, <3>2, <3>3
  <2> QED
    BY <2>1, <2>2
<1>12. ASSUME NEW x \in DOMAIN K2, NEW o \in Symbols, isInner(K2[x][o])
       PROVE  Under(lab2[x], o, lab2[K2[x][o][2]])
  <2>1. CASE x = f
    <3>1. o = l.rep[low + 1] /\ K2[x][o] = Inner(n)
      BY <1>1, <1>12, <2>1
    <3>2. Shares(l.rep, l.rep, low)
      BY SharesIs
    <3> QED
      BY <1>1, <1>4, <1>5, <2>1, <3>1, <3>2 DEF Under
  <2>2. CASE x = p /\ o = s
    <3>1. lab2[x] = lab[p] /\ K2[x][o][2] = f
      BY <1>1, <1>5, <1>7, <1>9, <2>2
    <3>2. Under(lab[p], s, m)
      BY <1>4, <1>6 DEF Under
    <3> QED
      BY <1>5, <2>2, <3>1, <3>2
  <2>3. CASE x # f /\ ~(x = p /\ o = s)
    <3>1. x \in DOMAIN K /\ K2[x][o] = K[x][o]
      BY <1>2, <1>9, <2>3
    <3> DEFINE y == K[x][o][2]
    <3>2. y \in DOMAIN K /\ Under(lab[x], o, lab[y]) /\ y # n
      <4>1. y \in DOMAIN K /\ Under(lab[x], o, lab[y])
        BY <1>12, <3>1 DEF Tidy, Ordered
      <4>2. y # n
        <5>1. y = n => K[x][o] = Inner(n)
          BY <1>2, <1>12, <3>1, KidIs
        <5> QED
          BY <1>1, <2>3, <3>1, <5>1 DEF Tidy
      <4> QED
        BY <4>1, <4>2
    <3> HIDE DEF y
    <3>3. lab2[y] = lab[y] /\ lab2[x].low = lab[x].low /\ lab2[x].rep = lab[x].rep
      BY <1>4, <1>5, <3>1, <3>2
    <3>4. Under(lab2[x], o, lab2[y])
      BY <3>2, <3>3 DEF Under
    <3> QED
      BY <3>1, <3>4 DEF y
  <2> QED
    BY <2>1, <2>2, <2>3
<1>13. ASSUME NEW x \in DOMAIN K, NEW a \in LabelRec, NEW b \in LabelRec, a.low = lab[x].low, a.rep = lab[x].rep,
              On(K[x], lab[x], b)
       PROVE  On(K2[x], a, b)
  <2>1. lab[x].low < b.top /\ Shares(a.rep, b.rep, a.low) /\ isInner(K[x][b.rep[a.low + 1]])
    BY <1>13 DEF On
  <2>2. b.rep[lab[x].low + 1] \in Symbols
    BY <1>5, <2>1, OnSymbol
  <2>3. isInner(K2[x][b.rep[a.low + 1]])
    BY <1>1, <1>9, <1>13, <2>1, <2>2
  <2> QED
    BY <1>13, <2>1, <2>3 DEF On
<1>14. ASSUME NEW x \in DOMAIN K, x # n, NEW b \in LabelRec, b.rep = l.rep, l.top <= b.top, b.top <= l.low,
              lab[x].top <= b.top, Shares(lab[x].rep, l.rep, lab[x].top)
       PROVE  On(K2[x], lab[x], b)
  <2> DEFINE a == lab[x]
  <2>1. a \in LabelRec /\ a.top \in Nat /\ a.low \in Nat /\ a.top <= a.low /\ b.top \in Nat
    BY <1>2, <1>5, LabelsAre, LabelIs
  <2>2. On(K[x], a, l)
    <3>1. CASE a.top <= l.top
      BY <1>2, <1>14, <3>1 DEF Ordered
    <3>2. CASE l.top <= a.top
      <4>1. Shares(a.rep, l.rep, l.top)
        BY ONLY <1>3, <1>14, <2>1, <3>2, SharesLess
      <4>2. Shares(l.rep, a.rep, l.top)
        BY <4>1, SharesIs
      <4>3. On(K[n], l, a)
        BY <1>2, <1>14, <3>2, <4>2 DEF Ordered
      <4>4. l.low < a.top
        BY <4>3 DEF On
      <4> QED
        BY <1>3, <1>14, <2>1, <4>4
    <3> QED
      BY <1>3, <2>1, <3>1, <3>2
  <2>3. a.low < l.top
    BY <2>2 DEF On
  <2>4. On(K[x], a, b)
    <3>1. a.low < b.top
      BY <1>3, <1>14, <2>1, <2>3
    <3> QED
      BY <1>14, <2>2, <3>1 DEF On
  <2> QED
    BY <1>14, <2>1, <2>4, <1>13
<1>15. ASSUME NEW y \in DOMAIN K, y # n, l.top <= lab[y].top, Shares(l.rep, lab[y].rep, l.top)
       PROVE  On(K2[n], q, lab[y]) /\ On(K2[f], m, lab[y])
  <2> DEFINE b == lab[y]
  <2>1. b \in LabelRec /\ b.top \in Nat /\ b.low \in Nat
    BY <1>2, <1>5, LabelsAre
  <2>2. On(K[n], l, b)
    BY <1>2, <1>15 DEF Ordered
  <2>3. On(K2[n], q, b)
    BY <1>2, <1>4, <1>13, <2>1, <2>2
  <2>4. l.low < b.top /\ Shares(l.rep, b.rep, l.low)
    BY <2>2 DEF On
  <2>5. low < b.top /\ low <= l.low
    BY <1>3, <2>1, <2>4
  <2>6. Shares(l.rep, b.rep, low)
    BY ONLY low \in Nat, <1>3, <2>4, <2>5, SharesLess
  <2>7. l.rep[low + 1] = b.rep[low + 1]
    BY ONLY <1>8, <2>4 DEF Shares
  <2>8. On(K2[f], m, b)
    BY <1>1, <1>4, <1>10, <2>5, <2>6, <2>7 DEF On
  <2> QED
    BY <2>3, <2>8
<1>16. ASSUME NEW x \in DOMAIN K2, NEW y \in DOMAIN K2, x # y, lab2[x].top <= lab2[y].top,
              Shares(lab2[x].rep, lab2[y].rep, lab2[x].top)
       PROVE  On(K2[x], lab2[x], lab2[y])
  <2>1. CASE x \notin {n, f} /\ y \notin {n, f}
    <3>1. x \in DOMAIN K /\ y \in DOMAIN K /\ lab2[x] = lab[x] /\ lab2[y] = lab[y] /\ lab[x] \in LabelRec /\ lab[y] \in LabelRec
      BY <1>2, <1>5, <2>1
    <3>2. On(K[x], lab[x], lab[y])
      BY <1>16, <3>1 DEF Ordered
    <3> QED
      BY <1>13, <3>1, <3>2
  <2>2. CASE x \notin {n, f} /\ y \in {n, f}
    <3>1. x \in DOMAIN K /\ lab2[x] = lab[x]
      BY <1>2, <1>5, <2>2
    <3>2. CASE y = n
      <4>1. l.top <= q.top /\ q.top <= l.low
        BY <1>3, <1>4
      <4> QED
        BY <1>4, <1>5, <1>14, <1>16, <2>2, <3>1, <3>2, <4>1
    <3>3. CASE y = f
      <4>1. l.top <= m.top /\ m.top <= l.low
        BY <1>3, <1>4
      <4> QED
        BY <1>4, <1>5, <1>14, <1>16, <2>2, <3>1, <3>3, <4>1
    <3> QED
      BY <2>2, <3>2, <3>3
  <2>3. CASE x = n /\ y = f
    BY <1>3, <1>4, <1>5, <1>16, <2>3
  <2>4. CASE x = f /\ y = n
    <3>1. Shares(l.rep, l.rep, low)
      BY SharesIs
    <3>2. On(K2[f], m, q)
      BY <1>1, <1>4, <1>8, <1>10, <3>1 DEF On
    <3> QED
      BY <1>5, <2>4, <3>2
  <2>5. CASE x \in {n, f} /\ y \notin {n, f}
    <3>1. y \in DOMAIN K /\ lab2[y] = lab[y] /\ lab[y].top \in Nat
      BY <1>2, <1>5, <2>5, LabelsAre
    <3>2. l.top <= lab[y].top /\ Shares(l.rep, lab[y].rep, l.top)
      <4>1. CASE x = f
        BY <1>4, <1>5, <1>16, <3>1, <4>1
      <4>2. CASE x = n
        <5>1. low + 1 <= lab[y].top /\ Shares(l.rep, lab[y].rep, low + 1)
          BY <1>4, <1>5, <1>16, <3>1, <4>2
        <5>2. l.top <= low + 1 /\ low + 1 \in Nat /\ l.top <= lab[y].top
          BY <1>3, <3>1, <5>1
        <5>3. Shares(l.rep, lab[y].rep, l.top)
          BY ONLY <1>3, <5>1, <5>2, SharesLess
        <5> QED
          BY <5>2, <5>3
      <4> QED
        BY <2>5, <4>1, <4>2
    <3> QED
      BY <1>5, <1>15, <2>5, <3>1, <3>2
  <2> QED
    BY <1>16, <2>1, <2>2, <2>3, <2>4, <2>5
<1>17. Holds(K2, S \cup {c})
  <2>1. \A o \in Symbols : K2[f][o] \in {c, Inner(n), Null}
    OBVIOUS
  <2>2. ASSUME NEW d \in S
        PROVE  isLeaf(d) /\ \E x \in DOMAIN K2, o \in Symbols : K2[x][o] = d
    <3>1. PICK x \in DOMAIN K, o \in Symbols : K[x][o] = d /\ isLeaf(d)
      BY DEF Holds
    <3>2. ~(x = p /\ o = s)
      BY <1>1, <3>1
    <3> QED
      BY <1>2, <1>9, <3>1, <3>2
  <2>3. ASSUME NEW d, isLeaf(d), NEW x \in DOMAIN K2, NEW o \in Symbols, K2[x][o] = d
        PROVE  d \in S \cup {c}
    <3>1. CASE x = f
      BY <1>1, <2>1, <2>3, <3>1
    <3>2. CASE x # f
      <4>1. x \in DOMAIN K /\ K[x][o] = d
        BY <1>1, <1>2, <1>9, <2>3, <3>2
      <4> QED
        BY <2>3, <4>1 DEF Holds
    <3> QED
      BY <3>1, <3>2
  <2> QED
    BY <1>2, <1>8, <1>10, <2>2, <2>3 DEF Holds
<1>18. Ordered(K2, lab2)
  BY <1>11, <1>12, <1>16 DEF Ordered
<1> QED
  BY <1>2, <1>5, <1>17, <1>18

\* A node is replaced by a new one with its children.
Rename2(K, K2, lab, lab2, p, s, n, f) ==
    /\ p \in DOMAIN K /\ s \in Symbols /\ K[p][s] = Inner(n) /\ p # n
    /\ f \in Nat /\ f \notin DOMAIN K
    /\ K2 \in KidFuns((DOMAIN K \ {n}) \cup {f})
    /\ \A x \in DOMAIN K \ {n}, o \in Symbols : K2[x][o] = IF x = p /\ o = s THEN Inner(f) ELSE K[x][o]
    /\ \A o \in Symbols : K2[f][o] = K[n][o]
    /\ lab2 = [lab EXCEPT ![f] = lab[n]]

\* A copy in the place of a node: the tree stays sorted.
LEMMA Renames ==
    ASSUME NEW K, NEW K2, NEW lab \in Labelings, NEW lab2, NEW S, Tidy(K), Ordered(K, lab), Holds(K, S),
           NEW p, NEW s, NEW n, NEW f, Rename2(K, K2, lab, lab2, p, s, n, f)
    PROVE  lab2 \in Labelings /\ Ordered(K2, lab2) /\ Holds(K2, S)
<1> SUFFICES ASSUME p \in DOMAIN K, s \in Symbols, K[p][s] = Inner(n), p # n,
                    f \in Nat, f \notin DOMAIN K,
                    K2 \in KidFuns((DOMAIN K \ {n}) \cup {f}),
                    \A x \in DOMAIN K \ {n}, o \in Symbols : K2[x][o] = IF x = p /\ o = s THEN Inner(f) ELSE K[x][o],
                    \A o \in Symbols : K2[f][o] = K[n][o],
                    lab2 = [lab EXCEPT ![f] = lab[n]]
             PROVE  lab2 \in Labelings /\ Ordered(K2, lab2) /\ Holds(K2, S)
  BY DEF Rename2
<1>1. /\ isInner(Inner(f)) /\ ~isLeaf(Inner(f)) /\ Inner(f)[2] = f /\ isInner(Inner(n)) /\ ~isLeaf(Inner(n)) /\ Inner(n)[2] = n
  BY KidIs
<1>2. /\ DOMAIN K2 = (DOMAIN K \ {n}) \cup {f} /\ DOMAIN K \subseteq Nat /\ n \in DOMAIN K /\ f # n /\ f # p
      /\ \A x \in DOMAIN K, o \in Symbols : K[x][o] \in Kid
  BY <1>1 DEF KidFuns, Tidy
<1>3. lab2 \in Labelings /\ lab2[f] = lab[n] /\ \A x \in DOMAIN K : lab[x] \in LabelRec /\ lab2[x] = lab[x]
  <2>1. \A x \in DOMAIN K : lab[x] \in LabelRec
    BY <1>2, LabelsAre
  <2> QED
    BY <1>2, <2>1 DEF Labelings
\* The old node of a new one.
<1> DEFINE old(x) == IF x = f THEN n ELSE x
<1>4. /\ \A x \in DOMAIN K2 : old(x) \in DOMAIN K /\ lab2[x] = lab[old(x)]
      /\ \A x, y \in DOMAIN K2 : x # y => old(x) # old(y)
      /\ \A x \in DOMAIN K2, o \in Symbols : ~(x = p /\ o = s) => K2[x][o] = K[old(x)][o]
      /\ K2[p][s] = Inner(f) /\ p \in DOMAIN K2 /\ old(p) = p
  BY <1>2, <1>3
<1> HIDE DEF old
<1>5. \A x \in DOMAIN K2, o \in Symbols : isInner(K2[x][o]) <=> isInner(K[old(x)][o])
  BY <1>1, <1>4
<1>6. ASSUME NEW x \in DOMAIN K2, NEW o \in Symbols, isLeaf(K2[x][o])
      PROVE  LeafUnder(lab2[x], o, K2[x][o])
  BY <1>1, <1>4, <1>6 DEF Ordered
<1>7. ASSUME NEW x \in DOMAIN K2, NEW o \in Symbols, isInner(K2[x][o])
      PROVE  Under(lab2[x], o, lab2[K2[x][o][2]])
  <2>1. CASE x = p /\ o = s
    BY <1>1, <1>2, <1>3, <1>4, <2>1 DEF Ordered
  <2>2. CASE ~(x = p /\ o = s)
    <3>1. K2[x][o] = K[old(x)][o]
      BY <1>4, <2>2
    <3>2. K[old(x)][o][2] \in DOMAIN K /\ Under(lab[old(x)], o, lab[K[old(x)][o][2]])
      BY <1>4, <1>7, <3>1 DEF Tidy, Ordered
    <3> QED
      BY <1>3, <1>4, <3>1, <3>2
  <2> QED
    BY <2>1, <2>2
<1>8. ASSUME NEW x \in DOMAIN K2, NEW y \in DOMAIN K2, x # y, lab2[x].top <= lab2[y].top,
             Shares(lab2[x].rep, lab2[y].rep, lab2[x].top)
      PROVE  On(K2[x], lab2[x], lab2[y])
  <2>1. On(K[old(x)], lab2[x], lab2[y])
    BY <1>4, <1>8 DEF Ordered
  <2>2. lab2[x].low < lab2[y].top /\ lab2[x] \in LabelRec /\ lab2[y] \in LabelRec
    BY <1>3, <1>4, <2>1 DEF On
  <2>3. lab2[y].rep[lab2[x].low + 1] \in Symbols
    BY <2>2, OnSymbol
  <2> QED
    BY <1>5, <2>1, <2>2, <2>3, OnStays
<1>9. Holds(K2, S)
  <2>1. ASSUME NEW d, isLeaf(d)
        PROVE  (\E x \in DOMAIN K, o \in Symbols : K[x][o] = d) <=> \E x \in DOMAIN K2, o \in Symbols : K2[x][o] = d
    <3>1. ASSUME NEW x \in DOMAIN K, NEW o \in Symbols, K[x][o] = d
          PROVE  \E y \in DOMAIN K2, r \in Symbols : K2[y][r] = d
      <4>1. ~(x = p /\ o = s)
        BY <1>1, <2>1, <3>1
      <4>2. CASE x = n
        BY <1>2, <3>1, <4>2
      <4>3. CASE x # n
        BY <1>2, <3>1, <4>1, <4>3
      <4> QED
        BY <4>2, <4>3
    <3>2. ASSUME NEW x \in DOMAIN K2, NEW o \in Symbols, K2[x][o] = d
          PROVE  \E y \in DOMAIN K, r \in Symbols : K[y][r] = d
      BY <1>1, <1>4, <2>1, <3>2
    <3> QED
      BY <3>1, <3>2
  <2> QED
    BY <2>1 DEF Holds
<1> QED
  BY <1>3, <1>6, <1>7, <1>8, <1>9 DEF Ordered

\* A node with one child left is taken out: the child takes its place.
Join2(K, K2, lab, lab2, p, s, n, r, c) ==
    /\ p \in DOMAIN K /\ s \in Symbols /\ K[p][s] = Inner(n) /\ p # n
    /\ r \in Symbols /\ K[n][r] = c /\ (isLeaf(c) \/ isInner(c)) /\ \A o \in Symbols \ {r} : K[n][o] = Null
    /\ K2 \in KidFuns(DOMAIN K \ {n})
    /\ \A x \in DOMAIN K \ {n}, o \in Symbols : K2[x][o] = IF x = p /\ o = s THEN c ELSE K[x][o]
    /\ lab2 = IF isInner(c) THEN [lab EXCEPT ![c[2]] = [rep |-> lab[c[2]].rep, top |-> lab[n].top, low |-> lab[c[2]].low]]
              ELSE lab

\* The one child left in the place of its node: the tree stays sorted.
LEMMA Joins ==
    ASSUME NEW K, NEW K2, NEW lab \in Labelings, NEW lab2, NEW S, Tidy(K), Ordered(K, lab), Holds(K, S),
           NEW p, NEW s, NEW n, NEW r, NEW c, Join2(K, K2, lab, lab2, p, s, n, r, c)
    PROVE  /\ lab2 \in Labelings /\ Ordered(K2, lab2) /\ Holds(K2, S)
           /\ n \in DOMAIN K /\ (isInner(c) => c[2] \in DOMAIN K /\ c[2] # n /\ lab[n].top <= lab[c[2]].low)
<1> SUFFICES ASSUME p \in DOMAIN K, s \in Symbols, K[p][s] = Inner(n), p # n,
                    r \in Symbols, K[n][r] = c, isLeaf(c) \/ isInner(c), \A o \in Symbols \ {r} : K[n][o] = Null,
                    K2 \in KidFuns(DOMAIN K \ {n}),
                    \A x \in DOMAIN K \ {n}, o \in Symbols : K2[x][o] = IF x = p /\ o = s THEN c ELSE K[x][o],
                    lab2 = IF isInner(c) THEN [lab EXCEPT ![c[2]] = [rep |-> lab[c[2]].rep, top |-> lab[n].top, low |-> lab[c[2]].low]]
                           ELSE lab
             PROVE  /\ lab2 \in Labelings /\ Ordered(K2, lab2) /\ Holds(K2, S)
                    /\ n \in DOMAIN K /\ (isInner(c) => c[2] \in DOMAIN K /\ c[2] # n /\ lab[n].top <= lab[c[2]].low)
  BY DEF Join2
<1> DEFINE l == lab[n]
           q == c[2]
           m == [rep |-> lab[q].rep, top |-> l.top, low |-> lab[q].low]
<1>1. isInner(Inner(n)) /\ ~isLeaf(Inner(n)) /\ Inner(n)[2] = n /\ ~isLeaf(Null) /\ ~isInner(Null) /\ ~(isLeaf(c) /\ isInner(c))
  BY KidIs DEF isLeaf, isInner
<1>2. /\ DOMAIN K2 = DOMAIN K \ {n} /\ DOMAIN K \subseteq Nat /\ n \in DOMAIN K /\ p \in DOMAIN K2
      /\ \A x \in DOMAIN K, o \in Symbols : K[x][o] \in Kid
      /\ c \in Kid
  BY <1>1 DEF KidFuns, Tidy
<1>3. /\ l \in LabelRec /\ l.rep \in Keys /\ l.top \in Nat /\ l.low \in Nat /\ l.top <= l.low /\ l.low < KeyLen /\ KeyLen \in Nat \ {0}
      /\ \A x \in DOMAIN K : lab[x] \in LabelRec
  BY <1>2, LabelsAre
<1>4. Under(lab[p], s, l) /\ lab[p].low \in Nat
  BY <1>1, <1>2, LabelsAre DEF Ordered
<1>5. l.top = lab[p].low + 1 /\ Shares(lab[p].rep, l.rep, lab[p].low) /\ l.rep[lab[p].low + 1] = s
      /\ lab[p].low + 1 \in 1 .. l.low /\ lab[p].low <= l.low
  <2>1. l.top = lab[p].low + 1 /\ Shares(lab[p].rep, l.rep, lab[p].low) /\ l.rep[lab[p].low + 1] = s
    BY <1>4 DEF Under
  <2>2. lab[p].low + 1 \in 1 .. l.low /\ lab[p].low <= l.low
    BY <1>3, <1>4, <2>1
  <2> QED
    BY <2>1, <2>2
\* What leads below n leads on from p with s.
<1>6. ASSUME NEW k, Shares(l.rep, k, l.low)
      PROVE  Shares(lab[p].rep, k, lab[p].low) /\ k[lab[p].low + 1] = s
  <2>1. Shares(l.rep, k, lab[p].low)
    BY ONLY <1>3, <1>4, <1>5, <1>6, SharesLess
  <2>2. Shares(lab[p].rep, k, lab[p].low)
    BY <1>4, <1>5, <2>1, SharesIs
  <2>3. k[lab[p].low + 1] = s
    BY ONLY <1>5, <1>6 DEF Shares
  <2> QED
    BY <2>2, <2>3
<1>7. ASSUME isInner(c)
      PROVE  /\ q \in DOMAIN K /\ q # n /\ c = Inner(q) /\ lab[q].top = l.low + 1 /\ Shares(l.rep, lab[q].rep, l.low)
             /\ lab[q].rep[l.low + 1] = r /\ lab[q].low \in Nat /\ lab[q].rep \in Keys
             /\ m \in LabelRec /\ m.rep = lab[q].rep /\ m.top = l.top /\ m.low = lab[q].low
             /\ lab2 \in Labelings /\ lab2[q] = m /\ \A x \in DOMAIN K \ {q} : lab2[x] = lab[x]
  <2>1. q \in DOMAIN K /\ Under(l, r, lab[q]) /\ c = Inner(q)
    BY <1>2, <1>7, KidIs DEF Tidy, Ordered
  <2>2. lab[q].top = l.low + 1 /\ Shares(l.rep, lab[q].rep, l.low) /\ lab[q].rep[l.low + 1] = r
    BY <2>1 DEF Under
  <2>3. q # n /\ l.top <= lab[q].low
    <3>1. lab[q].top \in Nat /\ lab[q].low \in Nat /\ lab[q].top <= lab[q].low
      BY <1>2, <2>1, LabelsAre
    <3> QED
      BY <1>3, <2>2, <3>1
  <2>4. m \in LabelRec /\ m.rep = lab[q].rep /\ m.top = l.top /\ m.low = lab[q].low
    <3>1. /\ lab[q].rep \in Keys /\ lab[q].low \in 0 .. KeyLen - 1 /\ l.top \in 0 .. KeyLen - 1
      BY <1>3, <2>1, LabelIs
    <3> QED
      BY <2>3, <3>1 DEF LabelRec
  <2>5. lab[q].low \in Nat /\ lab[q].rep \in Keys /\ q \in Nat
    BY <1>2, <2>1, LabelsAre
  <2>6. lab2 \in Labelings /\ lab2[q] = m /\ \A x \in DOMAIN K \ {q} : lab2[x] = lab[x]
    <3>1. lab2 = [lab EXCEPT ![q] = m]
      BY <1>7
    <3> HIDE DEF m
    <3> QED
      BY <1>2, <2>4, <2>5, <3>1 DEF Labelings
  <2> QED
    BY <2>1, <2>2, <2>3, <2>4, <2>5, <2>6
<1> HIDE DEF m, q
<1>8. lab2 \in Labelings /\ \A x \in DOMAIN K : lab2[x] \in LabelRec /\ lab2[x].low = lab[x].low /\ lab2[x].rep = lab[x].rep
  <2>1. CASE isInner(c)
    BY <1>3, <1>7, <2>1
  <2>2. CASE ~isInner(c)
    BY <1>3, <2>2
  <2> QED
    BY <2>1, <2>2
<1>9. ASSUME NEW x \in DOMAIN K2, NEW o \in Symbols, isLeaf(K2[x][o])
      PROVE  LeafUnder(lab2[x], o, K2[x][o])
  <2>1. CASE x = p /\ o = s
    <3>1. K2[x][o] = c /\ isLeaf(c)
      BY <1>2, <1>9, <2>1
    <3>2. Shares(l.rep, c[2], l.low)
      BY <1>2, <3>1 DEF Ordered, LeafUnder
    <3>3. LeafUnder(lab[p], s, c)
      BY <1>6, <3>2 DEF LeafUnder
    <3> QED
      BY <1>2, <1>8, <2>1, <3>1, <3>3 DEF LeafUnder
  <2>2. CASE ~(x = p /\ o = s)
    <3>1. LeafUnder(lab[x], o, K2[x][o])
      BY <1>2, <1>9, <2>2 DEF Ordered
    <3> QED
      BY <1>2, <1>8, <3>1 DEF LeafUnder
  <2> QED
    BY <2>1, <2>2
<1>10. ASSUME NEW x \in DOMAIN K2, NEW o \in Symbols, isInner(K2[x][o])
       PROVE  Under(lab2[x], o, lab2[K2[x][o][2]])
  <2>1. CASE x = p /\ o = s
    <3>1. K2[x][o] = c /\ isInner(c)
      BY <1>2, <1>10, <2>1
    <3>2. Under(lab[p], s, m)
      BY <1>5, <1>6, <1>7, <3>1 DEF Under
    <3> QED
      BY <1>2, <1>7, <1>8, <2>1, <3>1, <3>2 DEF Under, q
  <2>2. CASE ~(x = p /\ o = s)
    <3>1. K2[x][o] = K[x][o] /\ x # n /\ x \in DOMAIN K
      BY <1>2, <2>2
    <3> DEFINE y == K[x][o][2]
    <3>2. y \in DOMAIN K /\ Under(lab[x], o, lab[y])
      BY <1>10, <3>1 DEF Tidy, Ordered
    <3>3. isInner(c) => y # q
      <4>1. y = q /\ isInner(c) => K[x][o] = K[n][r]
        <5>1. K[x][o] = Inner(y)
          BY <1>2, <1>10, <3>1, KidIs
        <5> HIDE DEF y
        <5> QED
          BY <1>7, <5>1
      <4> HIDE DEF y
      <4> QED
        BY <1>2, <1>10, <3>1, <4>1 DEF Tidy
    <3> HIDE DEF y
    <3>4. lab2[y] = lab[y]
      BY <1>7, <3>2, <3>3
    <3>5. Under(lab2[x], o, lab2[y])
      BY <1>8, <3>1, <3>2, <3>4 DEF Under
    <3> QED
      BY <3>1, <3>5 DEF y
  <2> QED
    BY <2>1, <2>2
\* The one way on from n.
<1>11. ASSUME NEW y \in DOMAIN K, y # n, l.top <= lab[y].top, Shares(l.rep, lab[y].rep, l.top)
       PROVE  isInner(c) /\ l.low < lab[y].top /\ Shares(l.rep, lab[y].rep, l.low) /\ lab[y].rep[l.low + 1] = r
  <2>1. On(K[n], l, lab[y])
    BY <1>2, <1>11 DEF Ordered
  <2>2. l.low < lab[y].top /\ Shares(l.rep, lab[y].rep, l.low) /\ isInner(K[n][lab[y].rep[l.low + 1]])
    BY <2>1 DEF On
  <2>3. lab[y].rep[l.low + 1] \in Symbols
    BY <1>3, <2>2, OnSymbol
  <2> QED
    BY <1>1, <2>2, <2>3
<1>12. ASSUME NEW x \in DOMAIN K2, NEW b \in LabelRec, On(K[x], lab[x], b),
              x = p /\ b.rep[lab[x].low + 1] = s => isInner(c)
       PROVE  On(K2[x], lab2[x], b)
  <2>1. lab[x].low < b.top /\ Shares(lab[x].rep, b.rep, lab[x].low) /\ isInner(K[x][b.rep[lab[x].low + 1]])
    BY <1>12 DEF On
  <2>2. b.rep[lab[x].low + 1] \in Symbols
    BY <1>2, <1>3, <2>1, OnSymbol
  <2>3. isInner(K2[x][b.rep[lab[x].low + 1]])
    BY <1>2, <1>12, <2>1, <2>2
  <2> QED
    BY <1>2, <1>8, <2>1, <2>3 DEF On
<1>13. ASSUME NEW x \in DOMAIN K2, NEW y \in DOMAIN K2, x # y, lab2[x].top <= lab2[y].top,
              Shares(lab2[x].rep, lab2[y].rep, lab2[x].top)
       PROVE  On(K2[x], lab2[x], lab2[y])
  <2>0. x \in DOMAIN K /\ x # n /\ y \in DOMAIN K /\ y # n /\ lab[y] \in LabelRec /\ lab[x].low \in Nat /\ lab[x].top \in Nat
        /\ lab[x].top <= lab[x].low /\ lab[y].top \in Nat
    BY <1>2, <1>3, LabelsAre
  <2>1. CASE ~(isInner(c) /\ q \in {x, y})
    <3>1. lab2[x] = lab[x] /\ lab2[y] = lab[y]
      BY <1>7, <2>0, <2>1
    <3>2. On(K[x], lab[x], lab[y])
      BY <1>13, <2>0, <3>1 DEF Ordered
    <3>3. x = p /\ lab[y].rep[lab[x].low + 1] = s => isInner(c)
      <4> SUFFICES ASSUME x = p, lab[y].rep[lab[p].low + 1] = s PROVE isInner(c)
        OBVIOUS
      <4>1. lab[p].low < lab[y].top /\ Shares(lab[p].rep, lab[y].rep, lab[p].low)
        BY <3>2 DEF On
      <4>2. l.top <= lab[y].top
        BY <1>4, <1>5, <2>0, <4>1
      <4>3. Shares(l.rep, lab[y].rep, lab[p].low)
        BY <1>4, <1>5, <4>1, SharesIs
      <4>4. Shares(l.rep, lab[y].rep, lab[p].low + 1)
        BY <1>4, <1>5, <4>3, SharesIs
      <4> QED
        BY <1>5, <1>11, <2>0, <4>2, <4>4
    <3> QED
      BY <1>12, <2>0, <3>1, <3>2, <3>3
  <2>2. CASE isInner(c) /\ y = q
    <3>1. lab2[x] = lab[x] /\ lab2[y] = m /\ lab[x].top <= l.top /\ Shares(lab[x].rep, lab[q].rep, lab[x].top)
      BY <1>7, <1>13, <2>0, <2>2
    <3>2. Shares(l.rep, lab[q].rep, lab[x].top) /\ Shares(l.rep, lab[q].rep, l.top)
      <4>1. lab[x].top <= l.low
        BY <1>3, <2>0, <3>1
      <4>2. Shares(l.rep, lab[q].rep, l.low)
        BY <1>7, <2>2
      <4> QED
        BY ONLY <1>3, <2>0, <4>1, <4>2, SharesLess
    <3>3. Shares(lab[x].rep, l.rep, lab[x].top)
      BY <2>0, <3>1, <3>2, SharesIs
    <3>4. On(K[x], lab[x], l)
      BY <1>2, <2>0, <3>1, <3>3 DEF Ordered
    <3>5. lab[x].low < l.top /\ Shares(lab[x].rep, l.rep, lab[x].low) /\ isInner(K[x][l.rep[lab[x].low + 1]])
      BY <3>4 DEF On
    <3>6. Shares(l.rep, lab[q].rep, lab[x].low) /\ l.rep[lab[x].low + 1] = lab[q].rep[lab[x].low + 1]
      <4>1. lab[x].low <= l.top /\ lab[x].low + 1 \in 1 .. l.top
        BY <1>3, <2>0, <3>5
      <4>2. Shares(l.rep, lab[q].rep, lab[x].low)
        BY ONLY <1>3, <2>0, <3>2, <4>1, SharesLess
      <4>3. l.rep[lab[x].low + 1] = lab[q].rep[lab[x].low + 1]
        BY ONLY <3>2, <4>1 DEF Shares
      <4> QED
        BY <4>2, <4>3
    <3>7. Shares(lab[x].rep, lab[q].rep, lab[x].low)
      BY <2>0, <3>5, <3>6, SharesIs
    <3>8. On(K[x], lab[x], m)
      BY <1>7, <2>2, <3>5, <3>6, <3>7 DEF On
    <3> QED
      BY <1>7, <1>12, <2>2, <3>1, <3>8
  <2>3. CASE isInner(c) /\ x = q
    <3>1. lab2[x] = m /\ lab2[y] = lab[y] /\ l.top <= lab[y].top /\ Shares(lab[q].rep, lab[y].rep, l.top)
      BY <1>7, <1>13, <2>0, <2>3
    <3>2. Shares(l.rep, lab[q].rep, l.top)
      <4>1. Shares(l.rep, lab[q].rep, l.low)
        BY <1>7, <2>3
      <4> QED
        BY ONLY <1>3, <4>1, SharesLess
    <3>3. Shares(l.rep, lab[y].rep, l.top)
      BY <1>3, <3>1, <3>2, SharesIs
    <3>4. l.low < lab[y].top /\ Shares(l.rep, lab[y].rep, l.low) /\ lab[y].rep[l.low + 1] = r
      BY <1>11, <2>0, <3>1, <3>3
    <3>5. Shares(lab[q].rep, lab[y].rep, l.low)
      BY <1>3, <1>7, <2>3, <3>4, SharesIs
    <3>6. Shares(lab[q].rep, lab[y].rep, l.low + 1)
      BY <1>3, <1>7, <2>3, <3>4, <3>5, SharesIs
    <3>7. On(K[q], lab[q], lab[y])
      <4>1. lab[q].top <= lab[y].top
        BY <1>3, <1>7, <2>0, <2>3, <3>4
      <4> QED
        BY <1>7, <1>13, <2>0, <2>3, <3>6, <4>1 DEF Ordered
    <3> QED
      BY <1>12, <2>0, <2>3, <3>1, <3>7
  <2> QED
    BY <2>1, <2>2, <2>3
<1>14. Holds(K2, S)
  <2>1. ASSUME NEW d, isLeaf(d)
        PROVE  (\E x \in DOMAIN K, o \in Symbols : K[x][o] = d) <=> \E x \in DOMAIN K2, o \in Symbols : K2[x][o] = d
    <3>1. ASSUME NEW x \in DOMAIN K, NEW o \in Symbols, K[x][o] = d
          PROVE  \E y \in DOMAIN K2, e \in Symbols : K2[y][e] = d
      <4>1. ~(x = p /\ o = s)
        BY <1>1, <2>1, <3>1
      <4>2. CASE x = n
        <5>1. d = c
          BY <1>1, <2>1, <3>1, <4>2
        <5> QED
          BY <1>2, <5>1
      <4>3. CASE x # n
        BY <1>2, <3>1, <4>1, <4>3
      <4> QED
        BY <4>2, <4>3
    <3>2. ASSUME NEW x \in DOMAIN K2, NEW o \in Symbols, K2[x][o] = d
          PROVE  \E y \in DOMAIN K, e \in Symbols : K[y][e] = d
      BY <1>2, <3>2
    <3> QED
      BY <3>1, <3>2
  <2> QED
    BY <2>1 DEF Holds
<1>15. isInner(c) => c[2] \in DOMAIN K /\ c[2] # n /\ lab[n].top <= lab[c[2]].low
  <2>1. isInner(c) => m \in LabelRec /\ m.top = l.top /\ m.low = lab[q].low /\ q \in DOMAIN K /\ q # n
    BY <1>7
  <2> QED
    BY <2>1 DEF LabelRec, q
<1> QED
  BY <1>2, <1>8, <1>9, <1>10, <1>13, <1>14, <1>15 DEF Ordered

-----------------------------------------------------------------------------
(* What the other threads know.                                            *)

\* The versions and locks of another thread vouch for the nodes that the step left alone.
LEMMA OthersSee ==
    ASSUME IInv, NEW t \in Threads, Evolves(t), NEW u \in Threads, u # t, th'[u] = th[u]
    PROVE  /\ th[u].n \in DOMAIN node /\ th[u].par \in DOMAIN node \cup {0}
           /\ Symbol(u)' = Symbol(u) /\ MyLeaf(u)' = MyLeaf(u) /\ (Finder(u)' <=> Finder(u)) /\ (Entry(u)' <=> Entry(u))
           /\ Valid(u)' => Valid(u) /\ node'[th[u].n] = node[th[u].n] /\ th[u].n \notin Held(t)
           /\ VouchedP(u)' => VouchedP(u)
           /\ \A x : FluxOf(u, x)' <=> FluxOf(u, x)
           /\ th[u].pc \in OwnsN => node'[th[u].n] = node[th[u].n] /\ th[u].n \notin Held(t)
           /\ th[u].pc = "join" => /\ Other(u)' = Other(u) /\ Second(u)' = Second(u)
                                   /\ node'[Other(u)[2]] = node[Other(u)[2]] /\ Other(u)[2] \notin Held(t)
<1> DEFINE c == th[u]
<1>1. /\ c.n \in DOMAIN node /\ c.par \in DOMAIN node \cup {0} /\ c.v \in Nat /\ c.pv \in Nat
      /\ TypeInv /\ LockInv /\ Snapshot(u)
  BY Knows, CallIs DEF IInv, Local, Doing
<1>2. \A x \in Held(u) : x \in DOMAIN node /\ node'[x] = node[x] /\ x \notin Held(t)
  BY <1>1, HeldHolds DEF LockInv
<1>3. \A x \in Held(t) : isLocked(node[x].word)
  BY <1>1 DEF LockInv
<1>4. Symbol(u)' = Symbol(u) /\ MyLeaf(u)' = MyLeaf(u) /\ (Finder(u)' <=> Finder(u)) /\ (Entry(u)' <=> Entry(u))
  BY DEF Symbol, MyLeaf, Finder, Busy, Entry
<1>5. c.pc \in OwnsN => node'[c.n] = node[c.n] /\ c.n \notin Held(t)
  BY <1>2, HeldBy
<1>6. Valid(u)' => Valid(u) /\ node'[c.n] = node[c.n] /\ c.n \notin Held(t)
  <2>1. CASE c.pc \in OwnsN
    BY <1>5, <2>1 DEF Valid
  <2>2. CASE c.pc \in Reading /\ node'[c.n].word = c.v
    <3>1. Free(c.v) /\ c.v <= node[c.n].word
      BY <1>1, <2>2 DEF Snapshot
    <3>2. node'[c.n] = node[c.n] /\ node[c.n].word = c.v
      BY <1>1, <2>2, <3>1, VersionHolds
    <3>3. c.n \notin Held(t)
      BY <1>3, <3>1, <3>2 DEF Free
    <3> QED
      BY <2>2, <3>2, <3>3 DEF Valid
  <2> QED
    BY <2>1, <2>2 DEF Valid
<1>7. VouchedP(u)' => VouchedP(u)
  <2>1. CASE c.par = 0 \/ c.pc \in OwnsP
    BY <2>1 DEF VouchedP, ValidP
  <2>2. CASE c.par # 0 /\ node'[c.par].word = c.pv
    <3>1. Free(c.pv) /\ c.pv <= node[c.par].word /\ c.par \in DOMAIN node
      BY <1>1, <2>2 DEF Snapshot
    <3>2. node[c.par].word = c.pv
      BY <1>1, <2>2, <3>1, VersionHolds
    <3> QED
      BY <2>2, <3>2 DEF VouchedP, ValidP
  <2> QED
    BY <2>1, <2>2 DEF VouchedP, ValidP
<1>8. c.pc = "join" => /\ Other(u)' = Other(u) /\ Second(u)' = Second(u)
                       /\ node'[Other(u)[2]] = node[Other(u)[2]] /\ Other(u)[2] \notin Held(t)
  <2> SUFFICES ASSUME c.pc = "join" PROVE Other(u)' = Other(u) /\ Second(u)' = Second(u)
                                          /\ node'[Other(u)[2]] = node[Other(u)[2]] /\ Other(u)[2] \notin Held(t)
    OBVIOUS
  <2>1. node'[c.n] = node[c.n]
    BY <1>5 DEF OwnsN
  <2>2. Second(u)' = Second(u)
    BY <1>4, <2>1 DEF Second
  <2>3. Other(u)' = Other(u)
    BY <2>1, <2>2 DEF Other
  <2>4. Other(u)[2] \in Held(u)
    BY HeldBy
  <2> QED
    BY <1>2, <2>2, <2>3, <2>4
<1>9. \A x : FluxOf(u, x)' <=> FluxOf(u, x)
  BY <1>8 DEF FluxOf
<1> QED
  BY <1>1, <1>4, <1>5, <1>6, <1>7, <1>8, <1>9

\* Labels that differ at nodes of the writer only, and not in what a key shares with them.
Relabels(t, lab, lab2) ==
    /\ \A x \in DOMAIN node : lab2[x].rep = lab[x].rep /\ lab2[x].low = lab[x].low
    /\ \A x \in DOMAIN node \ Held(t) : lab2[x] = lab[x]

\* A step of one thread leaves the others' knowledge true under the new labels.
LEMMA OthersKnow ==
    ASSUME IInv, NEW t \in Threads, Evolves(t), NEW u \in Threads, u # t, th'[u] = th[u],
           NEW lab, NEW lab2, Relabels(t, lab, lab2)
    PROVE  /\ Aware(u) => Aware(u)'
           /\ Finds(u, lab) => Finds(u, lab2)'
           /\ Pending(u, lab) => Pending(u, lab2)'
<1> DEFINE c == th[u]
<1>1. /\ c.n \in DOMAIN node /\ c.par \in DOMAIN node \cup {0}
      /\ Symbol(u)' = Symbol(u) /\ MyLeaf(u)' = MyLeaf(u) /\ (Finder(u)' <=> Finder(u)) /\ (Entry(u)' <=> Entry(u))
      /\ Valid(u)' => Valid(u) /\ node'[c.n] = node[c.n] /\ c.n \notin Held(t)
      /\ VouchedP(u)' => VouchedP(u)
      /\ c.pc \in OwnsN => node'[c.n] = node[c.n] /\ c.n \notin Held(t)
      /\ c.pc = "join" => /\ Other(u)' = Other(u) /\ Second(u)' = Second(u)
                          /\ node'[Other(u)[2]] = node[Other(u)[2]] /\ Other(u)[2] \notin Held(t)
  BY OthersSee
<1>2. Aware(u) => Aware(u)'
  <2>1. Plans(u) => Plans(u)'
    BY <1>1 DEF Plans
  <2>2. \A n : Stands(u, n)' <=> Stands(u, n)
    BY <1>1 DEF Stands
  <2>3. Valid(u)' => Valid(u) /\ node'[c.n] = node[c.n]
    BY <1>1
  <2>4. ASSUME Aware(u), c.pc \in Deciding, Valid(u)'
        PROVE  Stands(u, node[th[u].n])'
    <3>1. PICK n : n = node[c.n]
      OBVIOUS
    <3>2. Stands(u, n)
      BY <2>3, <2>4, <3>1 DEF Aware
    <3>3. Stands(u, n)'
      BY <2>2, <3>2
    <3>4. node'[th'[u].n] = n
      BY <2>3, <2>4, <3>1
    <3> QED
      BY <3>3, <3>4
  <2> QED
    BY <2>1, <2>4 DEF Aware
<1>3. Finds(u, lab) => Finds(u, lab2)'
  <2>0. SUFFICES ASSUME Finds(u, lab), Finder(u) PROVE Finds(u, lab2)'
    BY <1>1 DEF Finds
  <2>1. Came(u, lab2)'
    <3>1. Came(u, lab)
      BY <2>0 DEF Finds
    <3>2. c.par # 0 => lab2[c.par].rep = lab[c.par].rep /\ lab2[c.par].low = lab[c.par].low
      BY <1>1 DEF Relabels
    <3> QED
      BY <1>1, <3>1, <3>2 DEF Came
  <2>2. Sure(u)' => Here(u, lab2)'
    <3>1. Sure(u)' => Sure(u)
      BY <1>1 DEF Sure
    <3>2. lab2[c.n].rep = lab[c.n].rep /\ lab2[c.n].low = lab[c.n].low
      BY <1>1 DEF Relabels
    <3> QED
      BY <2>0, <3>1, <3>2 DEF Finds, Here
  <2>3. (c.op = "lookup" /\ c.pc \in {"prefix", "bail"} /\ Valid(u))' => Arrived(u, lab2)'
    <3>1. SUFFICES ASSUME c.op = "lookup", c.pc \in {"prefix", "bail"}, Valid(u)' PROVE Arrived(u, lab2)'
      OBVIOUS
    <3>2. lab2[c.n] = lab[c.n]
      BY <1>1, <3>1 DEF Relabels
    <3>3. Arrived(u, lab)
      BY <1>1, <2>0, <3>1 DEF Finds
    <3> QED
      BY <3>2, <3>3 DEF Arrived
  <2> QED
    BY <2>1, <2>2, <2>3 DEF Finds
<1>4. Pending(u, lab) => Pending(u, lab2)'
  <2>1. SUFFICES ASSUME Pending(u, lab) PROVE Pending(u, lab2)'
    OBVIOUS
  <2>2. c.pc = "cut" => node'[c.n] = node[c.n] /\ lab2[c.n] = lab[c.n]
    BY <1>1 DEF OwnsN, Relabels
  <2>3. c.pc = "join" =>
          /\ node'[c.n] = node[c.n] /\ Second(u)' = Second(u) /\ Other(u)' = Other(u)
          /\ node'[Other(u)[2]] = node[Other(u)[2]] /\ lab2[Other(u)[2]] = lab[Other(u)[2]]
    <3>1. c.pc = "join" => Other(u)[2] \in DOMAIN node
      BY HeldBy DEF IInv, LockInv
    <3> QED
      BY <1>1, <3>1 DEF OwnsN, Relabels
  <2>4. (c.pc = "cut")' => Fits(SubSeq(node[th[u].n].prefix, th[u].hit + 2, Len(node[th[u].n].prefix)), lab2[th[u].n])'
    BY <2>1, <2>2 DEF Pending
  <2>5. (c.pc = "join")' => Fits(Append(node[th[u].n].prefix, Second(u)) \o node[Other(u)[2]].prefix, lab2[Other(u)[2]])'
    <3> SUFFICES ASSUME c.pc = "join"
                 PROVE  Fits(Append(node[th[u].n].prefix, Second(u)) \o node[Other(u)[2]].prefix, lab2[Other(u)[2]])'
      OBVIOUS
    <3>1. PICK s, o, p, q : s = Second(u) /\ o = Other(u)[2] /\ p = node[c.n].prefix /\ q = node[o].prefix
      OBVIOUS
    <3>2. Fits(Append(p, s) \o q, lab[o])
      BY <2>1, <3>1 DEF Pending
    <3>3. Fits(Append(p, s) \o q, lab2[o])
      BY <2>3, <3>1, <3>2
    <3>4. (node[th[u].n].prefix)' = p /\ Second(u)' = s /\ (Other(u)[2])' = o /\ (node[Other(u)[2]].prefix)' = q
      BY <2>3, <3>1
    <3> QED
      BY <3>3, <3>4
  <2> QED
    BY <2>4, <2>5 DEF Pending
<1> QED
  BY <1>2, <1>3, <1>4

\* The children of the nodes that are linked, before a step.
LEMMA ViewIs ==
    ASSUME IInv
    PROVE  /\ \A x : x \in DOMAIN View <=> Linked(x)
           /\ \A x : Linked(x) => x \in DOMAIN node /\ node[x] \in NodeRec
           /\ \A x \in DOMAIN View, s \in Symbols : View[x][s] = getChild(node[x], s)
           /\ Tidy(View) /\ Root \in DOMAIN View
<1>0. /\ \A x, s, m : Linked(x) /\ KidAt(node, x, s, m) => Linked(m)
      /\ \A x, y, s, o, m : Linked(x) /\ Linked(y) /\ KidAt(node, x, s, m) /\ KidAt(node, y, o, m) => x = y /\ s = o
  BY DEF IInv, TreeInv, Shape
<1>1. \A x : x \in DOMAIN View <=> Linked(x)
  BY DEF View, Linked
<1>2. \A x : Linked(x) => x \in DOMAIN node /\ node[x] \in NodeRec /\ x \in Nat
  BY DEF Linked, IInv, TypeInv
<1>3. \A x \in DOMAIN View, s \in Symbols : View[x][s] = getChild(node[x], s)
  BY DEF View
<1>4. \A x \in DOMAIN View, s \in Symbols : /\ View[x][s] \in Kid
                                            /\ \A m : View[x][s] = Inner(m) <=> KidAt(node, x, s, m)
  BY <1>1, <1>2, <1>3, GetChildIs DEF KidAt
<1>5. ASSUME NEW x \in DOMAIN View, NEW s \in Symbols, isInner(View[x][s])
      PROVE  View[x][s][2] \in DOMAIN View /\ View[x][s] = Inner(View[x][s][2])
  <2>1. PICK m : m = View[x][s][2] /\ View[x][s] = Inner(m)
    BY <1>4, <1>5, KidIs
  <2>2. KidAt(node, x, s, m) /\ Linked(x)
    BY <1>1, <1>4, <2>1
  <2>3. Linked(m)
    BY ONLY <1>0, <2>2
  <2> QED
    BY <1>1, <2>1, <2>3
<1>6. ASSUME NEW x \in DOMAIN View, NEW y \in DOMAIN View, NEW s \in Symbols, NEW o \in Symbols,
             isInner(View[x][s]), View[x][s] = View[y][o]
      PROVE  x = y /\ s = o
  <2>1. PICK m : View[x][s] = Inner(m)
    BY <1>5, <1>6
  <2>2. KidAt(node, x, s, m) /\ KidAt(node, y, o, m) /\ Linked(x) /\ Linked(y)
    BY <1>1, <1>4, <1>6, <2>1
  <2> QED
    BY ONLY <1>0, <2>2
<1>7. View \in [DOMAIN View -> [Symbols -> Kid]]
  <2>1. View = [x \in DOMAIN View |-> [s \in Symbols |-> View[x][s]]]
    BY DEF View
  <2> QED
    BY <1>4, <2>1
<1>8. DOMAIN View \subseteq Nat
  BY <1>1, <1>2
<1>9. Root \in DOMAIN View
  BY <1>1 DEF IInv, TreeInv, Shape
<1> QED
  BY <1>1, <1>2, <1>3, <1>5, <1>6, <1>7, <1>8, <1>9 DEF Tidy

\* And after it.
LEMMA ViewNext ==
    ASSUME node' \in [DOMAIN node' -> NodeRec]
    PROVE  \E K2 : /\ K2 = View' /\ K2 \in KidFuns(DOMAIN K2)
                   /\ \A x : x \in DOMAIN K2 <=> Linked(x)'
                   /\ \A x \in DOMAIN K2 : x \in DOMAIN node' /\ \A s \in Symbols : K2[x][s] = getChild(node'[x], s)
<1>1. PICK K2 : K2 = View'
  OBVIOUS
<1>2. \A x : x \in DOMAIN K2 <=> Linked(x)'
  BY <1>1 DEF View, Linked
<1>3. \A x \in DOMAIN K2 : x \in DOMAIN node' /\ \A s \in Symbols : K2[x][s] = getChild(node'[x], s)
  BY <1>1 DEF View
<1>4. K2 = [x \in DOMAIN K2 |-> [s \in Symbols |-> K2[x][s]]]
  BY <1>1 DEF View
<1>5. \A x \in DOMAIN K2, s \in Symbols : K2[x][s] \in Kid
  BY <1>3, GetChildIs
<1>6. K2 \in KidFuns(DOMAIN K2)
  BY <1>4, <1>5 DEF KidFuns
<1> QED
  BY <1>1, <1>2, <1>3, <1>6

\* A node with a free word is linked, and no writer is between its two writes.
LEMMA FreeFits ==
    ASSUME IInv, NEW x \in DOMAIN node, Free(node[x].word)
    PROVE  Linked(x) /\ ~Flux(x) /\ \A t \in Threads : x \notin Held(t)
<1>1. \A t \in Threads : x \notin Held(t)
  BY DEF IInv, LockInv, Free
<1> QED
  BY <1>1, HeldBy DEF Linked, Lifted, Flux, FluxOf, OwnsN, Free

\* So is a node that a writer holds, before it comes to a second write.
LEMMA HeldFits ==
    ASSUME IInv, NEW t \in Threads, NEW x \in Held(t), th[t].pc \notin {"cut", "join"}
    PROVE  Linked(x) /\ ~Flux(x) /\ x \in DOMAIN node
<1>1. Linked(x)
  BY HeldLinked
<1>2. \A u \in Threads : FluxOf(u, x) => x \in Held(u)
  BY HeldBy DEF FluxOf, OwnsN
<1> QED
  BY <1>1, <1>2 DEF Linked, Flux, FluxOf, IInv, LockInv

\* A new labelling after a write: the writer's own nodes are those that a prefix or a label may change at.
LEMMA LabelStep ==
    ASSUME IInv, NEW t \in Threads, Evolves(t), \A u \in Threads \ {t} : th'[u] = th[u],
           NEW lab \in Labelings, LabelInv(lab), NEW lab2 \in Labelings, Relabels(t, lab, lab2),
           \A x \in DOMAIN node \ Held(t) : node'[x].prefix = node[x].prefix /\ (Linked(x)' => Linked(x)),
           \A x \in DOMAIN node' : x \notin DOMAIN node \/ x \in Held(t) =>
              Len(node'[x].prefix) <= lab2[x].low /\ (Linked(x)' => FluxOf(t, x)' \/ Fits(node'[x].prefix, lab2[x])),
           Pending(t, lab2)', Finds(t, lab2)', Ordered(View', lab2), Holds(View', store')
    PROVE  LabelInv(lab2)'
<1>1. DOMAIN node \subseteq DOMAIN node'
  BY DEF Evolves
<1>2. \A u \in Threads : Pending(u, lab2)' /\ Finds(u, lab2)'
  BY OthersKnow DEF LabelInv
<1>3. lab2[Root].low = 0
  BY Knows DEF LabelInv, Relabels
<1>4. \A x \in DOMAIN node' : Len(node'[x].prefix) <= lab2[x].low
  BY DEF LabelInv, Spelled, Relabels
<1>5. ASSUME NEW x, Linked(x)', ~Flux(x)'
      PROVE  Fits(node'[x].prefix, lab2[x])
  <2>1. x \in DOMAIN node'
    BY <1>5 DEF Linked
  <2>2. CASE x \notin DOMAIN node \/ x \in Held(t)
    BY <1>5, <2>1, <2>2 DEF Flux
  <2>3. CASE x \in DOMAIN node /\ x \notin Held(t)
    <3>1. Linked(x) /\ node'[x].prefix = node[x].prefix /\ lab2[x] = lab[x]
      BY <1>5, <2>3 DEF Relabels
    <3>2. ~Flux(x)
      <4>1. FluxOf(t, x) => x \in Held(t)
        BY HeldBy DEF FluxOf, OwnsN
      <4>2. \A u \in Threads \ {t} : FluxOf(u, x)' <=> FluxOf(u, x)
        BY OthersSee
      <4> QED
        BY <1>5, <2>3, <4>1, <4>2 DEF Flux
    <3> QED
      BY <3>1, <3>2 DEF LabelInv, Spelled
  <2> QED
    BY <2>2, <2>3
<1>6. Spelled(lab2)'
  BY <1>4, <1>5 DEF Spelled
<1> QED
  BY <1>2, <1>3, <1>6 DEF LabelInv

\* A call at the root knows nothing yet.
LEMMA AtRootKnows ==
    ASSUME IInv, NEW t \in Threads, NEW pc \in {"read", "exit"}, NEW res \in Kid, Go(t, AtRoot(th[t], pc, res)), NEW lab
    PROVE  /\ th'[t].pc = pc /\ th'[t].op = th[t].op /\ th'[t].key = th[t].key /\ th'[t].res = res
           /\ \A u \in Threads \ {t} : th'[u] = th[u]
           /\ Aware(t)' /\ Finds(t, lab)' /\ Pending(t, lab)' /\ \A x : ~FluxOf(t, x)'
<1>1. th[t] \in CallRec /\ AtRoot(th[t], pc, res) \in CallRec
  BY Knows, AtRootIs
<1>2. th'[t] = AtRoot(th[t], pc, res) /\ \A u \in Threads \ {t} : th'[u] = th[u]
  BY <1>1, GoIs DEF IInv
<1>3. /\ th'[t].pc = pc /\ th'[t].op = th[t].op /\ th'[t].key = th[t].key /\ th'[t].res = res
      /\ th'[t].par = 0 /\ th'[t].level = 0
  BY <1>2 DEF AtRoot
<1>4. Aware(t)' /\ Pending(t, lab)' /\ \A x : ~FluxOf(t, x)'
  BY <1>3 DEF Aware, Pending, FluxOf, Deciding, OwnsN
<1>5. Finds(t, lab)'
  BY <1>3 DEF Finds, Came, Sure
<1> QED
  BY <1>2, <1>3, <1>4, <1>5

\* What a step that takes the leaves lost from the tree and adds those in won has to show.
Took(t, lost, won) ==
    /\ store' = (store \ lost) \cup won
    /\ seen' = [u \in Threads |-> [held |-> seen[u].held \cup won, kept |-> seen[u].kept \ lost]]
    /\ \A c \in won : c \in Kid /\ c[2] = th[t].key
    /\ won # {} => th[t].op = "insert"
    /\ th'[t].op = th[t].op /\ th'[t].key = th[t].key /\ th[t].pc # "idle"
    /\ th'[t].op = "insert" /\ th'[t].pc \notin {"cut", "exit"} => th[t].pc \notin {"cut", "exit"} /\ won = {}

\* What a step of one thread has to show.
LEMMA ContentStep ==
    ASSUME IInv, CInv, NEW t \in Threads, Evolves(t), \A u \in Threads \ {t} : th'[u] = th[u],
           NEW lost, NEW won, Took(t, lost, won),
           th'[t].pc = "exit" /\ th'[t].op = "lookup" =>
              \/ th'[t].res \in seen'[t].held /\ th'[t].res[2] = th'[t].key
              \/ th'[t].res = Null /\ ~HasKey(seen'[t].kept, th'[t].key),
           Aware(t)', BranchInv', \E lab \in Labelings : LabelInv(lab)'
    PROVE  CInv'
<1>1. \A u \in Threads : seen[u] \in [held : SUBSET Kid, kept : SUBSET Kid]
  BY DEF CInv
<1>2. \A u \in Threads : /\ seen'[u].held = seen[u].held \cup won /\ seen'[u].kept = seen[u].kept \ lost
                         /\ seen[u].held \in SUBSET Kid /\ seen[u].kept \in SUBSET Kid
  BY <1>1 DEF Took
<1>3. seen' \in [Threads -> [held : SUBSET Kid, kept : SUBSET Kid]]
  <2>1. \A u \in Threads : [held |-> seen[u].held \cup won, kept |-> seen[u].kept \ lost] \in [held : SUBSET Kid, kept : SUBSET Kid]
    BY <1>2 DEF Took
  <2> QED
    BY <2>1 DEF Took
<1>4. \A u \in Threads : Aware(u)'
  <2>1. PICK lab \in Labelings : LabelInv(lab)
    BY DEF CInv
  <2>2. Relabels(t, lab, lab)
    BY DEF Relabels
  <2> QED
    BY <2>2, OthersKnow DEF CInv
<1>5. LookupsLinearize'
  <2>1. ASSUME NEW u \in Threads, u # t, th'[u].pc = "exit", th'[u].op = "lookup"
        PROVE  \/ th'[u].res \in seen'[u].held /\ th'[u].res[2] = th'[u].key
               \/ th'[u].res = Null /\ ~HasKey(seen'[u].kept, th'[u].key)
    <3>1. \/ th[u].res \in seen[u].held /\ th[u].res[2] = th[u].key
          \/ th[u].res = Null /\ ~HasKey(seen[u].kept, th[u].key)
      BY <2>1 DEF CInv, LookupsLinearize
    <3> QED
      BY <1>2, <2>1, <3>1 DEF HasKey
  <2> QED
    BY <2>1 DEF LookupsLinearize
<1>6. CallsInv'
  <2>1. \A u \in Threads : th'[u].op = th[u].op /\ th'[u].key = th[u].key
    BY DEF Took
  <2>2. \A u, w \in Threads : u # w /\ th'[u].op = "insert" /\ th'[w].op = "insert" => th'[u].key # th'[w].key
    BY <2>1 DEF CInv, CallsInv
  <2>3. ASSUME NEW u \in Threads
        PROVE  seen'[u].kept \subseteq store' /\ (th'[u].pc # "idle" => store' \subseteq seen'[u].held)
    <3>1. seen[u].kept \subseteq store /\ (th[u].pc # "idle" => store \subseteq seen[u].held)
      BY DEF CInv, CallsInv
    <3>2. th'[u].pc # "idle" => th[u].pc # "idle"
      BY DEF Took
    <3> QED
      BY <1>2, <3>1, <3>2 DEF Took
  <2>4. ASSUME NEW u \in Threads, th'[u].op = "insert", th'[u].pc \notin {"cut", "exit"}
        PROVE  ~HasKey(store', th'[u].key)
    <3>1. th[u].pc \notin {"cut", "exit"} /\ th[u].op = "insert"
      BY <2>1, <2>4 DEF Took
    <3>2. ~HasKey(store, th[u].key)
      BY <3>1 DEF CInv, CallsInv
    <3>3. \A c \in won : c[2] # th[u].key
      <4>1. CASE u = t
        BY <2>4, <4>1 DEF Took
      <4>2. CASE u # t
        BY <2>1, <2>4, <4>2 DEF Took, CInv, CallsInv
      <4> QED
        BY <4>1, <4>2
    <3> QED
      BY <2>1, <3>2, <3>3 DEF HasKey, Took
  <2> QED
    BY <2>2, <2>3, <2>4 DEF CallsInv
<1> QED
  BY <1>3, <1>4, <1>5, <1>6 DEF CInv

-----------------------------------------------------------------------------
(* Steps that leave prefixes and children alone.                           *)

\* A step that changes at most words keeps the labels.
LEMMA LabelStays ==
    ASSUME IInv, NEW t \in Threads, NEW c \in CallRec, Go(t, c), Evolves(t),
           DOMAIN node' = DOMAIN node,
           \A x \in DOMAIN node : node'[x].prefix = node[x].prefix /\ node'[x].kids = node[x].kids /\ node'[x].type = node[x].type,
           \A x \in DOMAIN node : isObsolete(node'[x].word) => isObsolete(node[x].word),
           store' = store, th[t].pc \notin {"cut", "join"}, c.pc \notin {"cut", "join"},
           NEW lab \in Labelings, LabelInv(lab), Finds(t, lab)'
    PROVE  LabelInv(lab)'
<1>1. th'[t] = c /\ \A u \in Threads \ {t} : th'[u] = th[u]
  BY GoIs DEF IInv
<1>2. \A x : Linked(x)' <=> Linked(x)
  <2>1. \A x \in DOMAIN node : isObsolete(node'[x].word) <=> isObsolete(node[x].word)
    BY ObsoleteStays DEF Evolves
  <2>2. \A x : Linked(x)' <=> /\ x \in DOMAIN node' /\ ~isObsolete(node'[x].word) /\ ~(c.pc = "join" /\ c.n = x)
                              /\ x \in DOMAIN node => Linked(x) \/ (th[t].pc = "join" /\ th[t].n = x)
    BY LinkedIs
  <2> QED
    BY <2>1, <2>2 DEF Linked
<1>3. View' = View
  <2>1. \A x \in DOMAIN node : \A s : getChild(node'[x], s) = getChild(node[x], s)
    BY DEF getChild
  <2>2. {y \in DOMAIN node' : Linked(y)'} = {y \in DOMAIN node : Linked(y)}
    BY <1>2
  <2> QED
    BY <2>1, <2>2 DEF View
<1>4. Relabels(t, lab, lab)
  BY DEF Relabels
<1>5. ASSUME NEW x \in DOMAIN node', x \notin DOMAIN node \/ x \in Held(t)
      PROVE  Len(node'[x].prefix) <= lab[x].low /\ Fits(node'[x].prefix, lab[x])
  <2>1. x \in Held(t) /\ x \in DOMAIN node
    BY <1>5
  <2>2. Linked(x) /\ ~Flux(x)
    BY <2>1, HeldFits
  <2> QED
    BY <2>1, <2>2 DEF LabelInv, Spelled
<1>6. Pending(t, lab)'
  BY <1>1 DEF Pending
<1>7. Ordered(View', lab) /\ Holds(View', store')
  BY <1>3 DEF LabelInv
<1> QED
  BY <1>1, <1>2, <1>4, <1>5, <1>6, <1>7, LabelStep

\* And what the threads know of it.
LEMMA WordStep ==
    ASSUME IInv, CInv, NEW t \in Threads, NEW c \in CallRec, Go(t, c), Evolves(t),
           DOMAIN node' = DOMAIN node,
           \A x \in DOMAIN node : node'[x].prefix = node[x].prefix /\ node'[x].kids = node[x].kids /\ node'[x].type = node[x].type,
           \A x \in DOMAIN node : isObsolete(node'[x].word) => isObsolete(node[x].word),
           store' = store, seen' = seen,
           th[t].pc \notin {"cut", "join", "exit", "idle"}, c.pc \notin {"cut", "join", "idle"},
           c.op = th[t].op, c.key = th[t].key,
           c.pc = "exit" /\ c.op = "lookup" =>
              \/ c.res \in store /\ c.res[2] = c.key
              \/ c.res = Null /\ ~HasKey(store, c.key),
           Aware(t)', \A lab \in Labelings : LabelInv(lab) => Finds(t, lab)'
    PROVE  CInv'
<1>1. th'[t] = c /\ \A u \in Threads \ {t} : th'[u] = th[u]
  BY GoIs DEF IInv
<1>5. \E lab \in Labelings : LabelInv(lab)'
  BY LabelStays DEF CInv
<1>6. BranchInv'
  BY DEF CInv, BranchInv, Branches, getCount
<1>7. Took(t, {}, {})
  <2>1. seen' = [u \in Threads |-> [held |-> seen[u].held \cup {}, kept |-> seen[u].kept \ {}]]
    <3>1. \A u \in Threads : seen[u] = [held |-> seen[u].held \cup {}, kept |-> seen[u].kept \ {}]
      BY DEF CInv
    <3>2. seen = [u \in Threads |-> seen[u]]
      BY DEF CInv
    <3> QED
      BY <3>1, <3>2
  <2> QED
    BY <1>1, <2>1 DEF Took
<1>8. th'[t].pc = "exit" /\ th'[t].op = "lookup" =>
         \/ th'[t].res \in seen'[t].held /\ th'[t].res[2] = th'[t].key
         \/ th'[t].res = Null /\ ~HasKey(seen'[t].kept, th'[t].key)
  <2>1. seen[t].kept \subseteq store /\ store \subseteq seen[t].held
    BY DEF CInv, CallsInv
  <2> QED
    BY <1>1, <2>1 DEF HasKey
<1> QED
  BY <1>1, <1>5, <1>6, <1>7, <1>8, ContentStep

\* A step that changes no node.
LEMMA StillStep ==
    ASSUME IInv, CInv, NEW t \in Threads, NEW c \in CallRec, Go(t, c), node' = node, store' = store, seen' = seen,
           th[t].pc \notin {"cut", "join", "exit", "idle"}, c.pc \notin {"cut", "join", "idle"},
           c.op = th[t].op, c.key = th[t].key,
           c.pc = "exit" /\ c.op = "lookup" =>
              \/ c.res \in store /\ c.res[2] = c.key
              \/ c.res = Null /\ ~HasKey(store, c.key),
           Aware(t)', \A lab \in Labelings : LabelInv(lab) => Finds(t, lab)'
    PROVE  CInv'
<1>1. Evolves(t)
  BY DEF Evolves, IInv, TypeInv
<1> QED
  BY <1>1, WordStep

\* Back at the root, or done.
LEMMA BackStep ==
    ASSUME IInv, CInv, NEW t \in Threads, node' = node, store' = store, seen' = seen,
           th[t].pc \notin {"cut", "join", "exit", "idle"},
           NEW res \in Kid, Restart(t) \/ Return(t, res),
           Return(t, res) /\ th[t].op = "lookup" =>
              \/ res \in store /\ res[2] = th[t].key
              \/ res = Null /\ ~HasKey(store, th[t].key)
    PROVE  CInv'
<1>0. Null \in Kid /\ th[t] \in CallRec
  BY KidIs, Knows
<1>1. CASE Restart(t)
  <2> DEFINE c == AtRoot(th[t], "read", Null)
  <2>1. Go(t, c)
    BY <1>1 DEF Restart
  <2>2. c \in CallRec /\ c.pc = "read" /\ c.op = th[t].op /\ c.key = th[t].key
    BY <1>0, AtRootIs
  <2>3. Aware(t)' /\ \A lab \in Labelings : Finds(t, lab)'
    BY <1>0, <2>1, AtRootKnows
  <2> HIDE DEF c
  <2> QED
    BY <2>1, <2>2, <2>3, StillStep
<1>2. CASE Return(t, res)
  <2> DEFINE c == AtRoot(th[t], "exit", res)
  <2>1. Go(t, c)
    BY <1>2 DEF Return
  <2>2. c \in CallRec /\ c.pc = "exit" /\ c.op = th[t].op /\ c.key = th[t].key /\ c.res = res
    BY <1>0, AtRootIs DEF AtRoot
  <2>3. Aware(t)' /\ \A lab \in Labelings : Finds(t, lab)'
    BY <1>0, <2>1, AtRootKnows
  <2> HIDE DEF c
  <2> QED
    BY <1>2, <2>1, <2>2, <2>3, StillStep
<1> QED
  BY <1>1, <1>2

-----------------------------------------------------------------------------
(* The descent.                                                            *)

\* A call whose parent has not changed is where its key leads to.
LEMMA Arrives ==
    ASSUME IInv, NEW t \in Threads, NEW lab \in Labelings, LabelInv(lab), Finder(t), Entry(t), VouchedP(t)
    PROVE  th[t].level = lab[th[t].n].top /\ Shares(lab[th[t].n].rep, th[t].key, lab[th[t].n].top)
<1> DEFINE c == th[t]
<1>1. c \in CallRec /\ c.n \in DOMAIN node /\ c.n \in Nat /\ Local(t) /\ Came(t, lab) /\ c.pkey \in Symbols /\ c.par \in Nat
  BY Knows, CallIs DEF LabelInv, Finds
<1>2. CASE c.par = 0
  <2>1. c.n = Root /\ c.level = 0
    BY <1>1, <1>2 DEF Local, Doing, Finder, Came
  <2>2. lab[c.n].low = 0 /\ lab[c.n].top = 0
    <3>1. lab[Root].low = 0 /\ Root \in Nat
      BY DEF LabelInv, Root
    <3>2. lab[Root].top \in Nat /\ lab[Root].top <= lab[Root].low
      BY <3>1, LabelsAre
    <3> QED
      BY <2>1, <3>1, <3>2
  <2> QED
    BY <2>1, <2>2, SharesIs
<1>3. CASE c.par # 0
  <2> DEFINE l == lab[c.par]
             m == lab[c.n]
  <2>1. KidAt(node, c.par, c.pkey, c.n) /\ c.par \in DOMAIN node
    BY <1>1, <1>3, Knows DEF VouchedP, Local, Snapshot
  <2>2. Linked(c.par)
    <3>1. CASE c.pc \in OwnsP
      BY <3>1, OwnPIs
    <3>2. CASE node[c.par].word = c.pv
      <4>1. Free(node[c.par].word)
        BY <1>1, <1>3, <3>2 DEF Local, Snapshot
      <4> QED
        BY <2>1, <4>1, FreeFits
    <3> QED
      BY <1>3, <3>1, <3>2 DEF VouchedP, ValidP
  <2>3. View[c.par][c.pkey] = Inner(c.n) /\ c.par \in DOMAIN View
    <3>1. c.par \in DOMAIN View /\ View[c.par][c.pkey] = getChild(node[c.par], c.pkey) /\ node[c.par] \in NodeRec
      BY <1>1, <2>2, ViewIs
    <3> QED
      BY <2>1, <3>1, GetChildIs DEF KidAt
  <2>4. Under(l, c.pkey, m)
    <3>1. isInner(Inner(c.n)) /\ Inner(c.n)[2] = c.n
      BY KidIs
    <3>2. Ordered(View, lab)
      BY DEF LabelInv
    <3> QED
      BY <1>1, <2>3, <3>1, <3>2 DEF Ordered
  <2>5. Shares(l.rep, c.key, l.low) /\ c.key[l.low + 1] = c.pkey /\ c.level = l.low + 1
    BY <1>1, <1>3 DEF Came
  <2>6. l.low \in Nat
    BY <1>1, LabelsAre
  <2> HIDE DEF l, m, c
  <2>7. m.top = l.low + 1 /\ Shares(l.rep, m.rep, l.low) /\ m.rep[l.low + 1] = c.pkey
    BY <2>4 DEF Under
  <2>8. Shares(m.rep, c.key, l.low) /\ m.rep[l.low + 1] = c.key[l.low + 1]
    BY <2>5, <2>6, <2>7, SharesIs
  <2>9. Shares(m.rep, c.key, l.low + 1)
    BY <2>6, <2>8, SharesIs
  <2> QED
    BY <2>5, <2>7, <2>9 DEF m, c
<1> QED
  BY <1>2, <1>3

\* What comparing the prefix tells of the key.
LEMMA PrefixTells ==
    ASSUME NEW l \in LabelRec, NEW p \in Seq(Symbols), Fits(p, l), NEW k \in Keys, Shares(l.rep, k, l.top),
           NEW h, h = Agrees(p, k, l.top)
    PROVE  /\ h \in Nat /\ h <= Len(p) /\ Len(p) \in Nat /\ l.top + Len(p) = l.low /\ l.low < KeyLen
           /\ h = Len(p) => Shares(l.rep, k, l.low)
           /\ h # Len(p) => /\ h < Len(p) /\ Shares(l.rep, k, l.top + h)
                            /\ k[l.top + h + 1] # l.rep[l.top + h + 1] /\ l.top + h < l.low
                            /\ ~Shares(l.rep, k, l.low)
                            /\ At(k, l.top + h) = k[l.top + h + 1] /\ p[h + 1] = l.rep[l.top + h + 1]
<1>1. l.rep \in Keys /\ l.top \in Nat /\ l.low \in Nat /\ l.top <= l.low /\ l.low < KeyLen /\ KeyLen \in Nat \ {0}
  BY LabelIs
<1>2. Len(p) = l.low - l.top /\ Len(p) \in Nat /\ \A i \in 1 .. Len(p) : p[i] = l.rep[l.top + i]
  BY DEF Fits
<1> DEFINE D == {i \in 1 .. Len(p) : p[i] # At(k, l.top + i - 1)}
<1>3. \A i \in 1 .. Len(p) : At(k, l.top + i - 1) = k[l.top + i]
  <2> SUFFICES ASSUME NEW i \in 1 .. Len(p) PROVE At(k, l.top + i - 1) = k[l.top + i]
    OBVIOUS
  <2>1. l.top + i - 1 < KeyLen /\ (l.top + i - 1) + 1 = l.top + i
    BY <1>1, <1>2
  <2> QED
    BY <2>1 DEF At
<1>4. h = IF D = {} THEN Len(p) ELSE Min(D) - 1
  BY DEF Agrees
<1>5. \A i \in 1 .. Len(p) : i \in D <=> l.rep[l.top + i] # k[l.top + i]
  BY <1>2, <1>3
<1>6. D \subseteq 1 .. Len(p) /\ D \in SUBSET Nat
  BY <1>2
<1>7. D # {} => Min(D) \in D /\ \A x \in D : Min(D) <= x
  <2> HIDE DEF D
  <2> QED
    BY <1>6, MinIs
<1> HIDE DEF D
\* The symbols before the first that differs.
<1>8. ASSUME NEW g \in Nat, g <= Len(p), \A i \in 1 .. g : i \notin D
      PROVE  Shares(l.rep, k, l.top + g)
  <2>1. ASSUME NEW j \in 1 .. l.top + g
        PROVE  l.rep[j] = k[j]
    <3>1. CASE j <= l.top
      <4>1. j \in 1 .. l.top
        BY <1>1, <3>1
      <4> QED
        BY <4>1 DEF Shares
    <3>2. CASE j > l.top
      <4>1. PICK i \in 1 .. g : j = l.top + i
        <5>1. j - l.top \in 1 .. g /\ j = l.top + (j - l.top)
          BY <1>1, <1>8, <3>2
        <5> QED
          BY <5>1
      <4>2. i \in 1 .. Len(p) /\ i \notin D
        BY <1>2, <1>8
      <4> QED
        BY <1>5, <4>1, <4>2
    <3> QED
      BY <1>1, <3>1, <3>2
  <2> QED
    BY <2>1 DEF Shares
<1>9. CASE D = {}
  <2>1. h = Len(p)
    BY <1>4, <1>9
  <2>2. Shares(l.rep, k, l.top + Len(p))
    BY <1>2, <1>8, <1>9
  <2>3. l.top + Len(p) = l.low
    BY <1>1, <1>2
  <2> QED
    BY <1>1, <1>2, <2>1, <2>2, <2>3
<1>10. CASE D # {}
  <2>1. PICK i \in 1 .. Len(p) : i = Min(D) /\ i \in D /\ h = i - 1 /\ \A x \in D : i <= x
    BY <1>4, <1>6, <1>7, <1>10
  <2>2. h \in Nat /\ h < Len(p) /\ i = h + 1 /\ l.top + h + 1 = l.top + i /\ l.top + h < l.low /\ l.top + Len(p) = l.low
    <3>1. PICK a, b, e : a = l.top /\ b = l.low /\ e = Len(p)
      OBVIOUS
    <3>2. a \in Nat /\ b \in Nat /\ e \in Nat /\ e = b - a /\ a <= b /\ i \in 1 .. e /\ h = i - 1
      BY <1>1, <1>2, <2>1, <3>1
    <3>3. h \in Nat /\ h < e /\ i = h + 1 /\ a + h + 1 = a + i /\ a + h < b /\ a + e = b
      BY ONLY <3>2
    <3> QED
      BY ONLY <3>1, <3>3
  <2>3. \A j \in 1 .. h : j \notin D
    BY <2>1, <2>2
  <2>4. Shares(l.rep, k, l.top + h)
    BY <1>2, <1>8, <2>2, <2>3
  <2>5. k[l.top + i] # l.rep[l.top + i] /\ p[i] = l.rep[l.top + i]
    BY <1>2, <1>5, <2>1
  <2>6. ~Shares(l.rep, k, l.low)
    <3>1. l.top + i \in 1 .. l.low
      BY <1>1, <1>2, <2>2
    <3> QED
      BY <2>5, <3>1 DEF Shares
  <2>7. At(k, l.top + h) = k[l.top + h + 1]
    <3>1. l.top + h < KeyLen
      BY <1>1, <2>2
    <3> QED
      BY <3>1 DEF At
  <2>8. p[h + 1] = l.rep[l.top + h + 1] /\ k[l.top + h + 1] # l.rep[l.top + h + 1]
    BY <2>2, <2>5
  <2> QED
    BY <1>1, <1>2, <2>2, <2>4, <2>6, <2>7, <2>8
<1> QED
  BY <1>9, <1>10

\* Starting again at the root.
LEMMA RestartContent ==
    ASSUME IInv, CInv, NEW t \in Threads, node' = node, store' = store, seen' = seen,
           th[t].pc \notin {"cut", "join", "exit", "idle"}, Restart(t)
    PROVE  CInv'
<1>1. th[t] \in CallRec /\ AtRoot(th[t], "read", Null).pc = "read" /\ AtRoot(th[t], "exit", Null).pc = "exit"
  BY Knows DEF AtRoot
<1>2. ~Return(t, Null)
  <2>1. Go(t, AtRoot(th[t], "read", Null))
    BY DEF Restart
  <2>2. th'[t].pc = "read"
    BY <1>1, <2>1 DEF Go, IInv, TypeInv
  <2>3. Return(t, Null) => th'[t].pc = "exit"
    BY <1>1 DEF Return, Go, IInv, TypeInv
  <2> QED
    BY <2>2, <2>3
<1> QED
  BY <1>2, BackStep, KidIs

\* The call after a step of its own.
LEMMA NextCall ==
    ASSUME IInv, IInv', NEW t \in Threads, NEW c, Go(t, c)
    PROVE  c \in CallRec /\ th'[t] = c /\ \A u \in Threads \ {t} : th'[u] = th[u]
<1>1. th \in [Threads -> CallRec] /\ th' \in [Threads -> CallRec]
  BY DEF IInv, TypeInv
<1> QED
  BY <1>1 DEF Go

\* A step of seekLE decides nothing about writes or lookups.
LEMMA SeekContent ==
    ASSUME IInv, IInv', CInv, NEW t \in Threads,
           PrefixCompare(t) \/ Agree(t) \/ Down(t) \/ Smaller(t) \/ Larger(t) \/ Outermost(t)
    PROVE  CInv'
<1> DEFINE o == th[t]
<1>1. /\ o \in CallRec /\ o.op = "seek" /\ o.pc \notin {"cut", "join", "exit", "idle"}
      /\ node' = node /\ store' = store /\ seen' = seen
  <2>1. o \in CallRec /\ (o.pc \in Seeking => o.op = "seek")
    BY Knows DEF Local, Doing
  <2> QED
    BY <2>1 DEF PrefixCompare, Agree, Down, Smaller, Larger, Outermost, Reads, Seeking
<1>2. (\E res \in Kid : Restart(t) \/ Return(t, res)) => CInv'
  BY <1>1, BackStep
<1>3. ASSUME NEW c, Go(t, c), c.op = o.op, c.key = o.key, c.pc \in {"read", "agree", "down", "smaller", "larger", "left", "right"}
      PROVE  CInv'
  <2>1. c \in CallRec /\ th'[t] = c
    BY <1>3, NextCall
  <2>2. Aware(t)' /\ \A lab \in Labelings : Finds(t, lab)'
    BY <1>1, <1>3, <2>1 DEF Aware, Deciding, OwnsN, Finds, Finder
  <2> QED
    BY <1>1, <1>3, <2>1, <2>2, StillStep
<1>4. ASSUME NEW pc \in {"smaller", "larger"}, GoTo(t, pc)
      PROVE  CInv'
  <2>1. Go(t, [o EXCEPT !.pc = pc]) /\ [o EXCEPT !.pc = pc].pc = pc /\ [o EXCEPT !.pc = pc].op = o.op /\ [o EXCEPT !.pc = pc].key = o.key
    BY <1>1, <1>4 DEF GoTo, CallRec
  <2> QED
    BY <1>3, <2>1
<1>5. CASE PrefixCompare(t)
  <2> DEFINE way == checkPrefixCompare(node[o.n], o.key, o.level)
             c == [o EXCEPT !.pc = "agree", !.todo = way, !.level = @ + (IF way = "down" THEN Len(node[o.n].prefix) ELSE 0)]
  <2>1. Go(t, c)
    BY <1>5 DEF PrefixCompare
  <2>2. c.op = o.op /\ c.key = o.key /\ c.pc = "agree"
    BY <1>1 DEF CallRec
  <2> HIDE DEF c
  <2> QED
    BY <1>3, <2>1, <2>2
<1>6. CASE Agree(t)
  <2>1. CASE Restart(t)
    BY <1>2, <2>1, KidIs
  <2>2. CASE ~Restart(t)
    <3> DEFINE c == [o EXCEPT !.pc = o.todo, !.child = Inner(o.n)]
    <3>1. Go(t, c)
      BY <1>6, <2>2 DEF Agree
    <3>2. c.op = o.op /\ c.key = o.key /\ c.pc = o.todo
      BY <1>1 DEF CallRec
    <3>3. o.todo \in {"down", "left", "right"}
      BY <1>6, Knows DEF Agree, Local, Doing
    <3> HIDE DEF c
    <3> QED
      BY <1>3, <3>1, <3>2, <3>3
  <2> QED
    BY <2>1, <2>2
<1>7. CASE Down(t)
  <2> DEFINE d == getChild(node[o.n], Symbol(t))
             c == [o EXCEPT !.pc = "read", !.n = d[2], !.level = @ + 1, !.child = Null, !.todo = "none"]
  <2>1. d \in Kid
    BY Knows, GetChildIs
  <2>2. \/ GoTo(t, "smaller")
        \/ Return(t, d)
        \/ Go(t, c)
    BY <1>7, <2>1, KidIs DEF Down, isLeaf, isInner
  <2>3. c.op = o.op /\ c.key = o.key /\ c.pc = "read"
    BY <1>1 DEF CallRec
  <2> HIDE DEF c, d
  <2> QED
    BY <1>2, <1>3, <1>4, <2>1, <2>2, <2>3
<1>8. CASE Smaller(t) \/ Larger(t)
  <2> DEFINE a == [o EXCEPT !.pc = "right", !.child = seekSmaller(node[o.n], Symbol(t))]
             b == [o EXCEPT !.pc = "left", !.child = seek(node[o.n], Symbol(t))]
  <2>1. GoTo(t, "larger") \/ Go(t, a) \/ Go(t, b)
    BY <1>8 DEF Smaller, Larger
  <2>2. a.op = o.op /\ a.key = o.key /\ a.pc = "right" /\ b.op = o.op /\ b.key = o.key /\ b.pc = "left"
    BY <1>1 DEF CallRec
  <2> HIDE DEF a, b
  <2> QED
    BY <1>3, <1>4, <2>1, <2>2
<1>9. CASE Outermost(t)
  <2> DEFINE d == IF o.pc = "left" THEN seek(node[o.child[2]], Min(Symbols)) ELSE seekSmaller(node[o.child[2]], Max(Symbols))
             c == [o EXCEPT !.child = d]
  <2>1. Return(t, o.child) \/ Go(t, c)
    BY <1>9 DEF Outermost
  <2>2. c.op = o.op /\ c.key = o.key /\ c.pc = o.pc /\ o.child \in Kid /\ o.pc \in {"left", "right"}
    BY <1>1, <1>9, CallIs DEF CallRec, Outermost
  <2> HIDE DEF c
  <2> QED
    BY <1>2, <1>3, <2>1, <2>2
<1> QED
  BY <1>5, <1>6, <1>7, <1>8, <1>9

\* readLockOrRestart: a version, and nothing else.
LEMMA readLockContent ==
    ASSUME IInv, IInv', CInv, NEW t \in Threads, readLockOrRestart(t) PROVE CInv'
<1> DEFINE o == th[t]
           w == node[o.n].word
           p == IF o.op = "lookup" /\ o.par # 0 THEN "couple" ELSE "prefix"
           c == [o EXCEPT !.pc = p, !.v = w]
<1>1. o \in CallRec /\ o.pc = "read" /\ node' = node /\ store' = store /\ seen' = seen
  BY Knows DEF readLockOrRestart, Reads
<1>2. CASE Restart(t)
  BY <1>1, <1>2, RestartContent
<1>3. CASE Go(t, c)
  <2>1. /\ c \in CallRec /\ th'[t] = c /\ c.pc = p /\ c.op = o.op /\ c.key = o.key /\ c.n = o.n /\ c.par = o.par
        /\ c.pkey = o.pkey /\ c.level = o.level
    <3>1. c \in CallRec /\ th'[t] = c
      BY <1>3, NextCall
    <3> QED
      BY ONLY <1>1, <3>1 DEF CallRec
  <2> HIDE DEF c
  <2>2. p \in {"couple", "prefix"} /\ (o.op = "lookup" /\ p = "prefix" => o.par = 0)
    OBVIOUS
  <2> HIDE DEF p
  <2>3. Aware(t)'
    BY <2>1, <2>2 DEF Aware, Deciding, OwnsN
  <2>4. ASSUME NEW lab \in Labelings, LabelInv(lab)
        PROVE  Finds(t, lab)'
    <3> SUFFICES ASSUME Finder(t)' PROVE Finds(t, lab)'
      BY DEF Finds
    <3>1. Finder(t) /\ Entry(t) /\ Came(t, lab)
      BY <1>1, <2>1, <2>4 DEF Finder, Busy, Entry, LabelInv, Finds
    <3>2. Came(t, lab)'
      BY <2>1, <3>1 DEF Came
    <3>3. ~Sure(t)'
      BY <2>1, <2>2 DEF Sure
    <3>4. (th[t].op = "lookup" /\ th[t].pc \in {"prefix", "bail"})' => Arrived(t, lab)'
      <4> SUFFICES ASSUME c.op = "lookup", c.pc \in {"prefix", "bail"} PROVE Arrived(t, lab)'
        BY <2>1
      <4>1. VouchedP(t)
        BY <2>1, <2>2 DEF VouchedP
      <4>2. o.level = lab[o.n].top /\ Shares(lab[o.n].rep, o.key, lab[o.n].top)
        BY <2>4, <3>1, <4>1, Arrives
      <4> QED
        BY <2>1, <2>2, <4>2 DEF Arrived
    <3> QED
      BY <3>2, <3>3, <3>4 DEF Finds
  <2> QED
    BY <1>1, <1>3, <2>1, <2>2, <2>3, <2>4, StillStep
<1> QED
  BY <1>2, <1>3 DEF readLockOrRestart

\* Couple: the parent's version says that the node is where the key led.
LEMMA CoupleContent ==
    ASSUME IInv, IInv', CInv, NEW t \in Threads, Couple(t) PROVE CInv'
<1> DEFINE o == th[t]
           c == [o EXCEPT !.pc = "prefix"]
<1>1. o \in CallRec /\ o.pc = "couple" /\ node' = node /\ store' = store /\ seen' = seen
  BY Knows DEF Couple, Reads
<1>2. CASE Restart(t)
  BY <1>1, <1>2, RestartContent
<1>3. CASE Coupled(t) /\ Go(t, c)
  <2>1. /\ c \in CallRec /\ th'[t] = c /\ c.pc = "prefix" /\ c.op = o.op /\ c.key = o.key /\ c.n = o.n /\ c.par = o.par
        /\ c.pkey = o.pkey /\ c.level = o.level
    <3>1. c \in CallRec /\ th'[t] = c
      BY <1>3, NextCall
    <3> QED
      BY ONLY <1>1, <3>1 DEF CallRec
  <2> HIDE DEF c
  <2>2. Aware(t)'
    BY <2>1 DEF Aware, Deciding, OwnsN
  <2>3. ASSUME NEW lab \in Labelings, LabelInv(lab)
        PROVE  Finds(t, lab)'
    <3> SUFFICES ASSUME Finder(t)' PROVE Finds(t, lab)'
      BY DEF Finds
    <3>1. Finder(t) /\ Entry(t) /\ Came(t, lab)
      BY <1>1, <2>1, <2>3 DEF Finder, Busy, Reading, Entry, LabelInv, Finds
    <3>2. Came(t, lab)'
      BY <2>1, <3>1 DEF Came
    <3>3. ~Sure(t)'
      BY <2>1 DEF Sure
    <3>4. VouchedP(t)
      BY <1>3 DEF VouchedP, ValidP, Coupled, Unchanged
    <3>5. o.level = lab[o.n].top /\ Shares(lab[o.n].rep, o.key, lab[o.n].top)
      BY <2>3, <3>1, <3>4, Arrives
    <3>6. Arrived(t, lab)'
      BY <2>1, <3>5 DEF Arrived
    <3> QED
      BY <3>2, <3>3, <3>6 DEF Finds
  <2> QED
    BY <1>1, <1>3, <2>1, <2>2, <2>3, StillStep
<1> QED
  BY <1>2, <1>3 DEF Couple, GoTo

\* A version that still stands is that of a node whose prefix is its label's.
LEMMA ValidFits ==
    ASSUME IInv, NEW t \in Threads, th[t].pc \in Reading, Valid(t), NEW lab, LabelInv(lab)
    PROVE  Linked(th[t].n) /\ Fits(node[th[t].n].prefix, lab[th[t].n])
<1>1. th[t].n \in DOMAIN node /\ Free(node[th[t].n].word)
  BY Knows DEF Valid, Local, Snapshot, Reading, OwnsN
<1>2. Linked(th[t].n) /\ ~Flux(th[t].n)
  BY <1>1, FreeFits
<1> QED
  BY <1>2 DEF LabelInv, Spelled

\* checkPrefix of a lookup: the key leads past the node's prefix, or not past it.
LEMMA PrefixContent ==
    ASSUME IInv, IInv', CInv, NEW t \in Threads, Prefix(t) PROVE CInv'
<1> DEFINE o == th[t]
           p == node[o.n].prefix
           a == [o EXCEPT !.pc = "child", !.level = o.level + Len(p)]
           b == [o EXCEPT !.pc = "bail"]
<1>1. o \in CallRec /\ o.pc = "prefix" /\ o.pc \in Reading /\ node' = node /\ store' = store /\ seen' = seen
      /\ o.n \in Nat /\ p \in Seq(Symbols) /\ o.key \in Keys
  BY Knows, NodeIs, CallIs DEF Prefix, Reads, Reading
<1>2. PICK c \in {a, b} : Go(t, c) /\ (c = a <=> checkPrefix(node[o.n], o.key, o.level))
  <2>1. o.pc \in {"prefix"} /\ a.pc = "child" /\ b.pc = "bail"
    BY <1>1 DEF CallRec
  <2>2. a # b
    BY <2>1
  <2> QED
    BY <2>2 DEF Prefix, GoTo
<1>3. /\ a.pc = "child" /\ a.op = o.op /\ a.key = o.key /\ a.n = o.n /\ a.par = o.par /\ a.pkey = o.pkey
      /\ a.v = o.v /\ a.pv = o.pv /\ a.level = o.level + Len(p)
      /\ b.pc = "bail" /\ b.op = o.op /\ b.key = o.key /\ b.n = o.n /\ b.par = o.par /\ b.pkey = o.pkey
      /\ b.v = o.v /\ b.pv = o.pv /\ b.level = o.level
  BY <1>1 DEF CallRec
<1> HIDE DEF a, b
<1>4. c \in CallRec /\ th'[t] = c
  BY <1>2, NextCall
<1>5. Aware(t)'
  BY <1>2, <1>3, <1>4 DEF Aware, Deciding, OwnsN
<1>6. ASSUME NEW lab \in Labelings, LabelInv(lab)
      PROVE  Finds(t, lab)'
  <2> SUFFICES ASSUME Finder(t)' PROVE Finds(t, lab)'
    BY DEF Finds
  <2>1. Finder(t) /\ o.op = "lookup" /\ Came(t, lab)
    BY <1>1, <1>2, <1>3, <1>4, <1>6 DEF Finder, Busy, LabelInv, Finds, Prefix
  <2>2. Came(t, lab)'
    <3>1. Entry(t)
      BY <1>1 DEF Entry
    <3>2. Entry(t)' => c = b
      BY <1>2, <1>3, <1>4 DEF Entry
    <3> QED
      BY <1>2, <1>3, <1>4, <2>1, <3>1, <3>2 DEF Came
  <2>3. SUFFICES ASSUME Valid(t) PROVE Finds(t, lab)'
    <3>1. Valid(t)' => Valid(t)
      BY <1>1, <1>2, <1>3, <1>4 DEF Valid, OwnsN
    <3>2. Sure(t)' => Valid(t)'
      BY <1>2, <1>3, <1>4, <2>1 DEF Sure
    <3> QED
      BY <2>2, <2>3, <3>1, <3>2 DEF Finds
  <2> DEFINE l == lab[o.n]
  <2>4. l \in LabelRec /\ Fits(p, l) /\ o.level = l.top /\ Shares(l.rep, o.key, l.top)
    <3>1. Arrived(t, lab)
      BY <1>1, <1>6, <2>1, <2>3 DEF LabelInv, Finds
    <3> QED
      BY <1>1, <1>6, <2>3, <3>1, ValidFits, LabelsAre DEF Arrived
  <2>5. /\ l.top + Len(p) = l.low /\ l.low < KeyLen
        /\ Agrees(p, o.key, l.top) = Len(p) => Shares(l.rep, o.key, l.low)
        /\ Agrees(p, o.key, l.top) # Len(p) => ~Shares(l.rep, o.key, l.low)
    <3> HIDE DEF p, l, o
    <3> QED
      BY <1>1, <2>4, PrefixTells
  <2>6. CASE c = a
    <3>1. Agrees(p, o.key, l.top) = Len(p)
      BY <1>2, <2>4, <2>6 DEF checkPrefix
    <3>2. Here(t, lab)'
      BY <1>3, <1>4, <2>4, <2>5, <2>6, <3>1 DEF Here
    <3> QED
      BY <1>3, <1>4, <2>2, <2>6, <3>2 DEF Finds
  <2>7. CASE c = b
    <3>0. ~checkPrefix(node[o.n], o.key, o.level)
      BY <1>2, <1>3, <2>7
    <3>1. Agrees(p, o.key, l.top) # Len(p)
      BY <3>0, <2>4, <2>5 DEF checkPrefix
    <3>2. Arrived(t, lab)'
      BY <1>3, <1>4, <2>4, <2>5, <2>7, <3>1 DEF Arrived
    <3>3. ~Sure(t)'
      BY <1>3, <1>4, <2>7 DEF Sure
    <3> QED
      BY <2>2, <3>2, <3>3 DEF Finds
  <2> QED
    BY <1>2, <2>6, <2>7
<1> QED
  BY <1>1, <1>2, <1>3, <1>4, <1>5, <1>6, StillStep

\* checkPrefixPessimistic: on to the child, or to the split at the first symbol that differs.
LEMMA checkPrefixPessimisticContent ==
    ASSUME IInv, IInv', CInv, NEW t \in Threads, checkPrefixPessimistic(t) PROVE CInv'
<1> DEFINE o == th[t]
           p == node[o.n].prefix
           hit == Agrees(p, o.key, o.level)
           a == [o EXCEPT !.pc = "child", !.level = o.level + hit]
           b == [o EXCEPT !.pc = "lockP", !.hit = hit, !.todo = "split"]
<1>1. o \in CallRec /\ o.pc = "prefix" /\ o.op = "insert" /\ o.pc \in Reading /\ node' = node /\ store' = store /\ seen' = seen
      /\ o.n \in Nat /\ p \in Seq(Symbols) /\ o.key \in Keys /\ hit \in Nat /\ hit <= Len(p) /\ Len(p) \in Nat
  BY Knows, NodeIs, CallIs, AgreesIs DEF checkPrefixPessimistic, Reads, Reading
<1>2. IF hit = Len(p) THEN Go(t, a) ELSE Go(t, b)
  BY DEF checkPrefixPessimistic
<1>3. /\ a.pc = "child" /\ a.op = o.op /\ a.key = o.key /\ a.n = o.n /\ a.par = o.par /\ a.pkey = o.pkey
      /\ a.v = o.v /\ a.pv = o.pv /\ a.level = o.level + hit
      /\ b.pc = "lockP" /\ b.op = o.op /\ b.key = o.key /\ b.n = o.n /\ b.par = o.par /\ b.pkey = o.pkey
      /\ b.v = o.v /\ b.pv = o.pv /\ b.level = o.level /\ b.hit = hit /\ b.todo = "split"
  BY <1>1 DEF CallRec
<1>4. Finder(t) /\ Entry(t)
  BY <1>1 DEF Finder, Busy, Entry
<1> HIDE DEF a, b, hit
<1>5. CASE hit = Len(p)
  <2>1. Go(t, a) /\ a \in CallRec /\ th'[t] = a
    BY <1>2, <1>5, NextCall
  <2>2. Aware(t)'
    BY <1>3, <2>1 DEF Aware, Deciding, OwnsN
  <2>3. ASSUME NEW lab \in Labelings, LabelInv(lab)
        PROVE  Finds(t, lab)'
    <3> DEFINE l == lab[o.n]
    <3>1. Came(t, lab) /\ l \in LabelRec
      BY <1>1, <1>4, <2>3, LabelsAre DEF LabelInv, Finds
    <3>2. ~Entry(t)'
      BY <1>3, <2>1 DEF Entry
    <3>3. Came(t, lab)'
      BY <1>3, <2>1, <3>1, <3>2 DEF Came
    <3>4. ASSUME Sure(t)' PROVE Here(t, lab)'
      <4>1. Valid(t) /\ VouchedP(t)
        BY <1>1, <1>3, <2>1, <3>4 DEF Sure, Valid, VouchedP, ValidP, OwnsN, OwnsP
      <4>2. o.level = l.top /\ Shares(l.rep, o.key, l.top) /\ Fits(p, l)
        BY <1>1, <1>4, <2>3, <4>1, Arrives, ValidFits
      <4>3. hit = Agrees(p, o.key, l.top)
        BY <4>2 DEF hit
      <4>4. l.top + Len(p) = l.low /\ Shares(l.rep, o.key, l.low)
        <5> HIDE DEF p, l, o
        <5> QED
          BY <1>1, <1>5, <3>1, <4>2, <4>3, PrefixTells
      <4> QED
        BY <1>3, <1>5, <2>1, <4>2, <4>4 DEF Here
    <3>5. th'[t].op # "lookup"
      BY <1>1, <1>3, <2>1
    <3> QED
      BY <3>3, <3>4, <3>5 DEF Finds
  <2> QED
    BY <1>1, <1>3, <2>1, <2>2, <2>3, StillStep
<1>6. CASE hit # Len(p)
  <2>1. Go(t, b) /\ b \in CallRec /\ th'[t] = b
    BY <1>2, <1>6, NextCall
  <2>2. Aware(t)'
    <3>1. Plans(t)'
      BY <1>1, <1>3, <2>1 DEF Plans
    <3>2. Stands(t, node[o.n])'
      BY <1>1, <1>3, <1>6, <2>1 DEF Stands, hit
    <3> QED
      BY <1>1, <1>3, <2>1, <3>1, <3>2 DEF Aware
  <2>3. ASSUME NEW lab \in Labelings, LabelInv(lab)
        PROVE  Finds(t, lab)'
    <3>1. Came(t, lab)
      BY <1>4, <2>3 DEF LabelInv, Finds
    <3>2. Came(t, lab)'
      BY <1>3, <1>4, <2>1, <3>1 DEF Came
    <3>3. ~Sure(t)' /\ th'[t].op # "lookup"
      BY <1>1, <1>3, <2>1 DEF Sure
    <3> QED
      BY <3>2, <3>3 DEF Finds
  <2> QED
    BY <1>1, <1>3, <2>1, <2>2, <2>3, StillStep
<1> QED
  BY <1>5, <1>6

\* A key whose way ends at a node that has no leaf of it is not in the tree.
LEMMA NotThere ==
    ASSUME IInv, NEW lab \in Labelings, LabelInv(lab), NEW x, Linked(x), NEW k \in Keys,
           Shares(lab[x].rep, k, lab[x].top),
           Shares(lab[x].rep, k, lab[x].low) =>
              LET c == getChild(node[x], k[lab[x].low + 1]) IN ~isInner(c) /\ ~(isLeaf(c) /\ c[2] = k)
    PROVE  ~HasKey(store, k)
<1> SUFFICES ASSUME HasKey(store, k) PROVE FALSE
  OBVIOUS
<1>1. PICK d \in store : d[2] = k
  BY DEF HasKey
<1>2. isLeaf(d) /\ \E y \in DOMAIN View, s \in Symbols : View[y][s] = d
  BY DEF LabelInv, Holds
<1>3. PICK y \in DOMAIN View, s \in Symbols : View[y][s] = d
  BY <1>2
<1>4. x \in DOMAIN View /\ Tidy(View) /\ Ordered(View, lab) /\ lab[x] \in LabelRec
  BY ViewIs, LabelsAre DEF LabelInv, Tidy
<1>5. k[lab[x].low + 1] \in Symbols
  <2>1. lab[x].low + 1 \in 1 .. KeyLen
    BY <1>4, LabelIs
  <2> QED
    BY <2>1 DEF Keys
<1>6. View[x][k[lab[x].low + 1]] = getChild(node[x], k[lab[x].low + 1])
  BY <1>4, <1>5, ViewIs
<1>7. isLeaf(View[y][s]) /\ View[y][s][2] = k
  BY <1>1, <1>2, <1>3
<1>8. Shares(lab[x].rep, k, lab[x].low) => ~isInner(View[x][k[lab[x].low + 1]])
  BY <1>6
<1>9. x = y /\ s = k[lab[x].low + 1] /\ Shares(lab[x].rep, k, lab[x].low)
  BY <1>4, <1>7, <1>8, OnlyPlace
<1> QED
  BY <1>6, <1>7, <1>9

\* The end of a call whose key does not lead past a prefix, and a check that fails.
LEMMA BailContent ==
    ASSUME IInv, IInv', CInv, NEW t \in Threads, Bail(t) \/ CheckFails(t) PROVE CInv'
<1>1. th[t].pc \in {"bail", "check"} /\ node' = node /\ store' = store /\ seen' = seen
  BY DEF Bail, CheckFails, Reads
<1>2. CASE Restart(t)
  BY <1>1, <1>2, RestartContent
<1>3. CASE Bail(t) /\ Unchanged(th[t].n, th[t].v) /\ Return(t, Null)
  <2>1. ASSUME th[t].op = "lookup" PROVE ~HasKey(store, th[t].key)
    <3>1. PICK lab \in Labelings : LabelInv(lab)
      BY DEF CInv
    <3>2. th[t].pc = "bail" /\ th[t].pc \in Reading /\ Valid(t) /\ Finder(t)
      BY <1>3, <2>1 DEF Bail, Reading, Valid, Unchanged, Finder, Busy
    <3>3. Shares(lab[th[t].n].rep, th[t].key, lab[th[t].n].top) /\ ~Shares(lab[th[t].n].rep, th[t].key, lab[th[t].n].low)
      BY <2>1, <3>1, <3>2 DEF LabelInv, Finds, Arrived
    <3>4. Linked(th[t].n) /\ th[t].key \in Keys
      BY <3>1, <3>2, ValidFits, Knows
    <3> QED
      BY <3>1, <3>3, <3>4, NotThere
  <2> QED
    BY <1>1, <1>3, <2>1, BackStep, KidIs
<1> QED
  BY <1>2, <1>3 DEF Bail, CheckFails

\* The child is read.
LEMMA ReadChildContent ==
    ASSUME IInv, IInv', CInv, NEW t \in Threads, ReadChild(t) PROVE CInv'
<1> DEFINE o == th[t]
           c == [o EXCEPT !.pc = "check", !.child = getChild(node[o.n], At(o.key, o.level))]
<1>1. o \in CallRec /\ o.pc = "child" /\ node' = node /\ store' = store /\ seen' = seen /\ Go(t, c)
  BY Knows DEF ReadChild, Reads
<1>2. /\ c \in CallRec /\ th'[t] = c /\ c.pc = "check" /\ c.op = o.op /\ c.key = o.key /\ c.n = o.n /\ c.par = o.par
      /\ c.pkey = o.pkey /\ c.level = o.level /\ c.v = o.v /\ c.pv = o.pv
  <2>1. c \in CallRec /\ th'[t] = c
    BY <1>1, NextCall
  <2> QED
    BY ONLY <1>1, <2>1 DEF CallRec
<1> HIDE DEF c
<1>3. Aware(t)'
  BY <1>2 DEF Aware, Deciding, OwnsN
<1>4. ASSUME NEW lab \in Labelings, LabelInv(lab)
      PROVE  Finds(t, lab)'
  <2> SUFFICES ASSUME Finder(t)' PROVE Finds(t, lab)'
    BY DEF Finds
  <2>1. Finder(t) /\ Came(t, lab)
    BY <1>1, <1>2, <1>4 DEF Finder, Busy, Reading, LabelInv, Finds
  <2>2. ~Entry(t)'
    BY <1>2 DEF Entry
  <2>3. Came(t, lab)'
    BY <1>2, <2>1, <2>2 DEF Came
  <2>4. Valid(t)' => Valid(t)
    BY <1>1, <1>2 DEF Valid, Reading, OwnsN
  <2>5. VouchedP(t)' => VouchedP(t)
    BY <1>1, <1>2 DEF VouchedP, ValidP, OwnsP
  <2>6. Sure(t)' => Sure(t)
    BY <1>1, <1>2, <2>4, <2>5 DEF Sure
  <2>7. Sure(t)' => Here(t, lab)'
    BY <1>2, <1>4, <2>1, <2>6 DEF LabelInv, Finds, Here
  <2> QED
    BY <1>2, <2>3, <2>7 DEF Finds
<1> QED
  BY <1>1, <1>2, <1>3, <1>4, StillStep

\* The step to a child that the key leads to.
LEMMA DescendContent ==
    ASSUME IInv, IInv', CInv, NEW t \in Threads, th[t].pc \in {"check", "checkP"},
           node' = node, store' = store, seen' = seen, Descend(t),
           \A lab \in Labelings : LabelInv(lab) /\ th[t].op \in {"insert", "lookup"} => Here(t, lab)
    PROVE  CInv'
<1> DEFINE o == th[t]
           c == [o EXCEPT !.pc = "read", !.par = o.n, !.pkey = At(o.key, o.level), !.pv = o.v,
                          !.n = o.child[2], !.level = o.level + 1, !.child = Null, !.todo = "none"]
<1>1. o \in CallRec /\ o.n \in Nat /\ o.key \in Keys /\ Go(t, c)
  BY Knows, CallIs DEF Descend
<1>2. /\ c \in CallRec /\ th'[t] = c /\ c.pc = "read" /\ c.op = o.op /\ c.key = o.key /\ c.par = o.n
      /\ c.pkey = At(o.key, o.level) /\ c.level = o.level + 1
  <2>1. c \in CallRec /\ th'[t] = c
    BY <1>1, NextCall
  <2> QED
    BY ONLY <1>1, <2>1 DEF CallRec
<1> HIDE DEF c
<1>3. Aware(t)'
  BY <1>2 DEF Aware, Deciding, OwnsN
<1>4. ASSUME NEW lab \in Labelings, LabelInv(lab)
      PROVE  Finds(t, lab)'
  <2> SUFFICES ASSUME Finder(t)' PROVE Finds(t, lab)'
    BY DEF Finds
  <2>1. Here(t, lab)
    BY <1>2, <1>4 DEF Finder
  <2>2. lab[o.n].low < KeyLen /\ o.n # 0
    BY <1>1, <1>4, LabelsAre, Knows
  <2>3. At(o.key, o.level) = o.key[lab[o.n].low + 1]
    BY <2>1, <2>2 DEF Here, At
  <2>4. Came(t, lab)'
    BY <1>2, <2>1, <2>2, <2>3 DEF Came, Here
  <2>5. ~Sure(t)'
    BY <1>2 DEF Sure
  <2> QED
    BY <1>2, <2>4, <2>5 DEF Finds
<1> QED
  BY <1>1, <1>2, <1>3, <1>4, StillStep

\* What a lookup or an insert whose check succeeds knows.
LEMMA CheckedContent ==
    ASSUME IInv, NEW t \in Threads, NEW op \in {"lookup", "insert", "remove"}, Checked(t, op)
    PROVE  /\ th[t] \in CallRec /\ th[t].pc = "check" /\ th[t].op = op /\ th[t].child \in Kid /\ th[t].key \in Keys
           /\ th[t].child = getChild(node[th[t].n], Symbol(t)) /\ node[th[t].n] \in NodeRec
           /\ Valid(t) /\ th[t].pc \in Reading /\ Busy(t) /\ Linked(th[t].n)
           /\ \A lab \in Labelings : LabelInv(lab) /\ (op = "lookup" \/ (op = "insert" /\ VouchedP(t))) => Here(t, lab)
<1>1. th[t].pc = "check" /\ th[t].op = op /\ th[t].pc \in Reading /\ Valid(t) /\ Busy(t) /\ th[t].key \in Keys
  BY Knows DEF Checked, Reading, Unchanged, Valid, Busy
<1>2. th[t] \in CallRec /\ th[t].child \in Kid /\ th[t].child = getChild(node[th[t].n], Symbol(t)) /\ node[th[t].n] \in NodeRec
  BY <1>1, Knows, CallIs DEF Local, Snapshot
<1>3. ASSUME NEW lab \in Labelings, LabelInv(lab), op = "lookup" \/ (op = "insert" /\ VouchedP(t))
      PROVE  Here(t, lab)
  <2>1. Finder(t) /\ Sure(t)
    BY <1>1, <1>3 DEF Finder, Sure
  <2> QED
    BY <1>3, <2>1 DEF LabelInv, Finds
<1>4. Linked(th[t].n)
  <2>1. th[t].n \in DOMAIN node /\ Free(node[th[t].n].word)
    BY <1>1, Knows DEF Valid, Local, Snapshot, Reading, OwnsN
  <2> QED
    BY <2>1, FreeFits
<1> QED
  BY <1>1, <1>2, <1>3, <1>4

\* lookup's answer.
LEMMA CheckLookupContent ==
    ASSUME IInv, IInv', CInv, NEW t \in Threads, CheckLookup(t) PROVE CInv'
<1> DEFINE o == th[t]
<1>1. Checked(t, "lookup") /\ node' = node /\ store' = store /\ seen' = seen
  BY DEF CheckLookup, Reads
<1>2. /\ o \in CallRec /\ o.pc = "check" /\ o.op = "lookup" /\ o.child \in Kid /\ o.key \in Keys
      /\ o.child = getChild(node[o.n], Symbol(t)) /\ node[o.n] \in NodeRec /\ Linked(o.n)
      /\ \A lab \in Labelings : LabelInv(lab) => Here(t, lab)
  BY <1>1, CheckedContent
<1>3. CASE isInner(o.child)
  <2>1. Descend(t)
    BY <1>3 DEF CheckLookup
  <2> QED
    BY <1>1, <1>2, <2>1, DescendContent
<1>4. CASE ~isInner(o.child)
  <2> DEFINE res == IF Found(o.child, o.key, o.level) THEN o.child ELSE Null
  <2>1. Return(t, res) /\ res \in Kid
    BY <1>2, <1>4, KidIs DEF CheckLookup
  <2>2. PICK lab \in Labelings : LabelInv(lab)
    BY DEF CInv
  <2> DEFINE l == lab[o.n]
             s == o.key[l.low + 1]
  <2>3. o.level = l.low /\ Shares(l.rep, o.key, l.low) /\ Shares(l.rep, o.key, l.top)
    <3>1. o.level = l.low /\ Shares(l.rep, o.key, l.low)
      BY <1>2, <2>2 DEF Here
    <3>2. l.top \in Nat /\ l.low \in Nat /\ l.top <= l.low
      BY <1>2, <2>2, LabelsAre, CallIs
    <3> QED
      BY <3>1, <3>2, SharesLess
  <2>4. Symbol(t) = s /\ s \in Symbols /\ l.low \in Nat /\ l.low < KeyLen
    <3>1. l.low \in Nat /\ l.low < KeyLen
      BY <1>2, <2>2, LabelsAre, CallIs
    <3>2. l.low + 1 \in 1 .. KeyLen
      BY SMTT(30), ZenonT(30), <3>1, SymbolAssumption
    <3> QED
      BY <1>2, <2>3, <3>1, <3>2 DEF Symbol, At, Keys
  <2>5. CASE Found(o.child, o.key, o.level)
    <3>1. isLeaf(o.child) /\ res = o.child
      BY <1>2, <1>4, <2>5, KidIs DEF Found
    <3>2. o.n \in DOMAIN View /\ View[o.n][s] = o.child
      BY <1>2, <2>4, ViewIs
    <3>3. o.child \in store
      BY <2>2, <2>4, <3>1, <3>2 DEF LabelInv, Holds
    <3>4. o.child[2] = o.key
      <4>1. SUFFICES ASSUME o.level = KeyLen - 1 PROVE o.child[2] = o.key
        BY <2>5 DEF Found
      <4>2. LeafUnder(l, s, o.child)
        BY <2>2, <2>4, <3>1, <3>2 DEF LabelInv, Ordered
      <4>3. o.child[2] \in Keys
        BY <1>2, <3>1, KidIs
      <4> HIDE DEF l, o
      <4>4. Shares(l.rep, o.child[2], l.low) /\ o.child[2][l.low + 1] = o.key[l.low + 1]
        BY <4>2 DEF LeafUnder
      <4>5. Shares(o.key, o.child[2], l.low)
        BY <2>3, <2>4, <4>4, SharesIs
      <4>6. Shares(o.key, o.child[2], l.low + 1)
        BY <2>4, <4>4, <4>5, SharesIs
      <4>7. l.low + 1 = KeyLen
        BY <2>3, <2>4, <4>1, SymbolAssumption
      <4> QED
        BY <1>2, <4>3, <4>6, <4>7, SameKey
    <3> QED
      BY <1>1, <1>2, <2>1, <3>1, <3>3, <3>4, BackStep
  <2>6. CASE ~Found(o.child, o.key, o.level)
    <3>1. ~(isLeaf(o.child) /\ o.child[2] = o.key)
      BY <2>6, KidIs DEF Found
    <3>2. ~HasKey(store, o.key)
      BY <1>2, <1>4, <2>2, <2>3, <2>4, <3>1, NotThere
    <3> QED
      BY <1>1, <1>2, <2>1, <2>6, <3>2, BackStep
  <2> QED
    BY <2>5, <2>6
<1> QED
  BY <1>3, <1>4

\* A decision of an insert or a remove after its check.
LEMMA DecideContent ==
    ASSUME IInv, IInv', CInv, NEW t \in Threads, NEW op \in {"insert", "remove"}, Checked(t, op),
           node' = node, store' = store, seen' = seen,
           NEW pc \in {"checkP", "lockP"}, NEW todo \in {"put", "grow", "fork", "descend", "drop", "shrink", "pair"},
           GoDo(t, pc, todo),
           todo \in {"put", "grow"} => th[t].child = Null,
           todo = "fork" => isLeaf(th[t].child),
           todo \in {"put", "grow", "fork", "descend"} => op = "insert",
           todo \in {"drop", "shrink", "pair"} => op = "remove" /\ th[t].child = MyLeaf(t),
           todo = "grow" => isFull(node[th[t].n]),
           todo = "shrink" => isUnderfull(node[th[t].n]) /\ th[t].par # 0,
           todo = "drop" => th[t].par = 0 \/ (getCount(node[th[t].n]) # 2 /\ ~isUnderfull(node[th[t].n]))
    PROVE  CInv'
<1> DEFINE o == th[t]
           c == [o EXCEPT !.pc = pc, !.todo = todo]
<1>1. /\ o \in CallRec /\ o.pc = "check" /\ o.op = op /\ o.child = getChild(node[o.n], Symbol(t)) /\ Go(t, c)
      /\ Valid(t) /\ Busy(t)
      /\ \A lab \in Labelings : LabelInv(lab) /\ op = "insert" /\ VouchedP(t) => Here(t, lab)
  BY CheckedContent DEF GoDo
<1>2. /\ c \in CallRec /\ th'[t] = c /\ c.pc = pc /\ c.op = o.op /\ c.key = o.key /\ c.n = o.n /\ c.par = o.par
      /\ c.pkey = o.pkey /\ c.level = o.level /\ c.v = o.v /\ c.pv = o.pv /\ c.child = o.child /\ c.todo = todo
      /\ c.tid = o.tid
  <2>1. c \in CallRec /\ th'[t] = c
    BY <1>1, NextCall
  <2> QED
    BY ONLY <1>1, <2>1 DEF CallRec
<1> HIDE DEF c
<1>3. Symbol(t)' = Symbol(t) /\ MyLeaf(t)' = MyLeaf(t)
  BY <1>2 DEF Symbol, MyLeaf
<1>4. todo = "drop" => Symbol(t) \in DOMAIN node[o.n].kids
  <2>1. todo = "drop" => o.child # Null
    BY KidIs DEF MyLeaf
  <2> QED
    BY <1>1, <2>1 DEF getChild
<1>5. Plans(t)'
  BY <1>1, <1>2, <1>3 DEF Plans
<1>6. Stands(t, node[o.n])'
  BY <1>1, <1>2, <1>3, <1>4 DEF Stands
<1>7. Aware(t)'
  BY <1>2, <1>5, <1>6 DEF Aware
<1>8. ASSUME NEW lab \in Labelings, LabelInv(lab)
      PROVE  Finds(t, lab)'
  <2> SUFFICES ASSUME Finder(t)' PROVE Finds(t, lab)'
    BY DEF Finds
  <2>1. op = "insert" /\ Came(t, lab)
    BY <1>1, <1>2, <1>8 DEF Finder, LabelInv, Finds
  <2>2. ~Entry(t)'
    BY <1>2 DEF Entry
  <2>3. Came(t, lab)'
    BY <1>2, <2>1, <2>2 DEF Came
  <2>4. Sure(t)' => VouchedP(t)
    BY <1>1, <1>2 DEF Sure, VouchedP, ValidP, OwnsP
  <2>5. Sure(t)' => Here(t, lab)'
    BY <1>1, <1>2, <1>8, <2>1, <2>4 DEF Here
  <2> QED
    BY <1>1, <1>2, <2>1, <2>3, <2>5 DEF Finds
<1> QED
  BY <1>1, <1>2, <1>7, <1>8, StillStep

\* insert after its check.
LEMMA CheckInsertContent ==
    ASSUME IInv, IInv', CInv, NEW t \in Threads, CheckInsert(t) PROVE CInv'
<1> DEFINE o == th[t]
<1>1. Checked(t, "insert") /\ node' = node /\ store' = store /\ seen' = seen
  BY DEF CheckInsert, Reads
<1>2. o.child \in Kid
  BY <1>1, CheckedContent
<1>3. CASE o.child = Null /\ isFull(node[o.n])
  <2>1. GoDo(t, "lockP", "grow")
    BY <1>3, KidIs DEF CheckInsert
  <2> QED
    BY <1>1, <1>3, <2>1, DecideContent
<1>4. CASE o.child = Null /\ ~isFull(node[o.n])
  <2>1. GoDo(t, "checkP", "put")
    BY <1>4, KidIs DEF CheckInsert
  <2> QED
    BY <1>1, <1>4, <2>1, DecideContent
<1>5. CASE isLeaf(o.child)
  <2>1. GoDo(t, "checkP", "fork")
    BY <1>5, KidIs DEF CheckInsert
  <2> QED
    BY <1>1, <1>5, <2>1, DecideContent
<1>6. CASE isInner(o.child)
  <2>1. GoDo(t, "checkP", "descend")
    <3>1. o.child # Null /\ ~isLeaf(o.child)
      BY <1>6, KidIs DEF isInner, isLeaf
    <3> QED
      BY <3>1 DEF CheckInsert
  <2> QED
    BY <1>1, <1>6, <2>1, DecideContent
<1> QED
  BY <1>2, <1>3, <1>4, <1>5, <1>6, KidIs

\* remove after its check.
LEMMA CheckRemoveContent ==
    ASSUME IInv, IInv', CInv, NEW t \in Threads, CheckRemove(t) PROVE CInv'
<1> DEFINE o == th[t]
<1>1. Checked(t, "remove") /\ node' = node /\ store' = store /\ seen' = seen
  BY DEF CheckRemove, Reads
<1>2. o.child \in Kid /\ o.pc = "check" /\ o.op = "remove"
  BY <1>1, CheckedContent
<1>3. Return(t, Null) => CInv'
  BY <1>1, <1>2, BackStep, KidIs
<1>4. CASE o.child = Null
  BY <1>3, <1>4, KidIs DEF CheckRemove
<1>5. CASE isInner(o.child)
  <2>1. o.child # Null /\ ~isLeaf(o.child)
    BY <1>5, KidIs DEF isInner, isLeaf
  <2>2. Descend(t)
    BY <1>5, <2>1 DEF CheckRemove
  <2> QED
    BY <1>1, <1>2, <2>2, DescendContent
<1>6. CASE isLeaf(o.child) /\ o.child # MyLeaf(t)
  <2>1. o.child # Null /\ ~isInner(o.child)
    BY <1>6, KidIs DEF isInner, isLeaf
  <2> QED
    BY <1>3, <1>6, <2>1 DEF CheckRemove
<1>7. CASE isLeaf(o.child) /\ o.child = MyLeaf(t)
  <2>1. o.child # Null /\ ~isInner(o.child)
    BY <1>7, KidIs DEF isInner, isLeaf
  <2>2. IF o.par # 0 /\ getCount(node[o.n]) = 2 THEN GoDo(t, "lockP", "pair")
        ELSE IF o.par # 0 /\ isUnderfull(node[o.n]) THEN GoDo(t, "lockP", "shrink")
        ELSE GoDo(t, "checkP", "drop")
    BY <1>7, <2>1 DEF CheckRemove
  <2>3. CASE o.par # 0 /\ getCount(node[o.n]) = 2
    <3>1. GoDo(t, "lockP", "pair")
      BY <2>2, <2>3
    <3> QED
      BY <1>1, <1>7, <3>1, DecideContent
  <2>4. CASE o.par # 0 /\ isUnderfull(node[o.n]) /\ ~(o.par # 0 /\ getCount(node[o.n]) = 2)
    <3>1. GoDo(t, "lockP", "shrink")
      BY <2>2, <2>4
    <3> QED
      BY <1>1, <1>7, <2>4, <3>1, DecideContent
  <2>5. CASE ~(o.par # 0 /\ isUnderfull(node[o.n])) /\ ~(o.par # 0 /\ getCount(node[o.n]) = 2)
    <3>1. GoDo(t, "checkP", "drop")
      BY <2>2, <2>5
    <3>2. o.par = 0 \/ (getCount(node[o.n]) # 2 /\ ~isUnderfull(node[o.n]))
      BY <2>5
    <3> QED
      BY <1>1, <1>7, <3>1, <3>2, DecideContent
  <2> QED
    BY <2>3, <2>4, <2>5
<1> QED
  BY <1>2, <1>4, <1>5, <1>6, <1>7, KidIs

\* The check of the parent's version makes an insert sure of its place.
LEMMA CheckParentContent ==
    ASSUME IInv, IInv', CInv, NEW t \in Threads, CheckParent(t) PROVE CInv'
<1> DEFINE o == th[t]
           c == [o EXCEPT !.pc = "lockN"]
<1>1. o \in CallRec /\ o.pc = "checkP" /\ node' = node /\ store' = store /\ seen' = seen /\ o.todo # "split"
      /\ o.op \in {"insert", "remove"}
  BY Knows DEF CheckParent, Reads, Local, Doing
<1>2. CASE Restart(t)
  BY <1>1, <1>2, RestartContent
<1>3. CASE VouchedP(t) /\ Descend(t)
  <2>1. ASSUME NEW lab \in Labelings, LabelInv(lab), o.op \in {"insert", "lookup"}
        PROVE  Here(t, lab)
    <3>1. Finder(t) /\ Sure(t)
      BY <1>1, <1>3, <2>1 DEF Finder, Busy, Reading, Sure
    <3> QED
      BY <2>1, <3>1 DEF LabelInv, Finds
  <2> QED
    BY <1>1, <1>3, <2>1, DescendContent
<1>4. CASE VouchedP(t) /\ Go(t, c)
  <2>1. /\ c \in CallRec /\ th'[t] = c /\ c.pc = "lockN" /\ c.op = o.op /\ c.key = o.key /\ c.n = o.n /\ c.par = o.par
        /\ c.pkey = o.pkey /\ c.level = o.level /\ c.v = o.v /\ c.pv = o.pv /\ c.child = o.child /\ c.todo = o.todo
        /\ c.tid = o.tid /\ c.hit = o.hit
    BY <1>1, <1>4, NextCall DEF CallRec
  <2> HIDE DEF c
  <2>2. Aware(t)'
    <3>1. Symbol(t)' = Symbol(t) /\ MyLeaf(t)' = MyLeaf(t)
      BY <2>1 DEF Symbol, MyLeaf
    <3>2. Plans(t) /\ (Valid(t) => Stands(t, node[o.n]))
      BY <1>1 DEF CInv, Aware, Deciding
    <3>3. Plans(t)'
      BY <1>1, <2>1, <3>1, <3>2 DEF Plans
    <3>4. Valid(t)' => Valid(t)
      BY <1>1, <2>1 DEF Valid, Reading, OwnsN
    <3>5. Valid(t) => Stands(t, node[o.n])'
      BY <1>1, <2>1, <3>1, <3>2 DEF Stands
    <3> QED
      BY <1>1, <2>1, <3>3, <3>4, <3>5 DEF Aware
  <2>3. ASSUME NEW lab \in Labelings, LabelInv(lab)
        PROVE  Finds(t, lab)'
    <3> SUFFICES ASSUME Finder(t)' PROVE Finds(t, lab)'
      BY DEF Finds
    <3>1. Finder(t) /\ Sure(t)
      BY <1>1, <1>4, <2>1 DEF Finder, Busy, Reading, Sure
    <3>2. Came(t, lab) /\ Here(t, lab)
      BY <2>3, <3>1 DEF LabelInv, Finds
    <3>3. ~Entry(t)'
      BY <2>1 DEF Entry
    <3>4. Came(t, lab)' /\ Here(t, lab)'
      BY <2>1, <3>2, <3>3 DEF Came, Here
    <3> QED
      BY <2>1, <3>4 DEF Finds
  <2> QED
    BY <1>1, <1>4, <2>1, <2>2, <2>3, StillStep
<1>5. ~(o.par # 0 /\ ~Unchanged(o.par, o.pv)) => VouchedP(t)
  BY DEF VouchedP, ValidP, Unchanged
<1> QED
  BY <1>2, <1>3, <1>4, <1>5 DEF CheckParent, GoTo

-----------------------------------------------------------------------------
(* The locks of the writers.                                               *)

\* What a writer saw of its node does not depend on the node's word.
LEMMA StandsSame ==
    ASSUME NEW t \in Threads, NEW n, NEW m, n.kids = m.kids, n.type = m.type, n.prefix = m.prefix, Stands(t, n)
    PROVE  Stands(t, m)
BY DEF Stands, getChild, isFull, isUnderfull, getCount

\* A writer locks a node whose version still stands.
LEMMA LockContent ==
    ASSUME IInv, IInv', CInv, NEW t \in Threads, NEW pc \in {"lockB", "put", "fork", "drop", "split", "grow", "shrink", "pair"},
           GoTo(t, pc), th[t].pc \in {"lockN", "lockP", "lockB"}, UNCHANGED epocheVars, store' = store, seen' = seen,
           NEW x \in DOMAIN node, Free(node[x].word), node' = [node EXCEPT ![x] = Locked(@)],
           pc # "lockB" => th[t].pc \in {"lockN", "lockB"} /\ pc = th[t].todo /\ Valid(t),
           th[t].pc = "lockP" => VouchedP(t),
           pc = "lockB" => th[t].pc = "lockP"
    PROVE  CInv'
<1> DEFINE o == th[t]
           c == [o EXCEPT !.pc = pc]
<1>1. o \in CallRec /\ Go(t, c) /\ o.n \in DOMAIN node /\ o.n \in Nat
  BY Knows, CallIs DEF GoTo
<1>2. /\ c \in CallRec /\ th'[t] = c /\ c.pc = pc /\ c.op = o.op /\ c.key = o.key /\ c.n = o.n /\ c.par = o.par
      /\ c.pkey = o.pkey /\ c.level = o.level /\ c.v = o.v /\ c.pv = o.pv /\ c.child = o.child /\ c.todo = o.todo
      /\ c.tid = o.tid /\ c.hit = o.hit
  <2>1. c \in CallRec /\ th'[t] = c
    BY <1>1, NextCall
  <2> QED
    BY ONLY <1>1, <2>1 DEF CallRec
<1> HIDE DEF c
<1>3. /\ Evolves(t) /\ DOMAIN node' = DOMAIN node /\ \A y \in DOMAIN node \ {x} : node'[y] = node[y]
      /\ ~isObsolete(node'[x].word)
      /\ node'[x].kids = node[x].kids /\ node'[x].prefix = node[x].prefix /\ node'[x].type = node[x].type
  BY ZenonT(60), <1>1, <1>2, LockIs
<1>4. /\ \A y \in DOMAIN node : node'[y].kids = node[y].kids /\ node'[y].prefix = node[y].prefix /\ node'[y].type = node[y].type
      /\ \A y \in DOMAIN node : isObsolete(node'[y].word) => isObsolete(node[y].word)
  BY <1>3
<1>5. Valid(t)' => Valid(t)
  <2>1. CASE pc = "lockB"
    <3>1. o.pc \in Reading /\ pc \notin OwnsN
      BY <2>1 DEF Reading, OwnsN
    <3>2. Valid(t)' => node'[o.n].word = o.v
      BY <1>2, <3>1 DEF Valid
    <3>3. node'[o.n].word = o.v => Valid(t)
      BY <1>3, <3>1, VersionsKeep
    <3> QED
      BY <3>2, <3>3
  <2> QED
    BY <2>1
<1>6. Aware(t)'
  <2>1. Symbol(t)' = Symbol(t) /\ MyLeaf(t)' = MyLeaf(t)
    BY <1>2 DEF Symbol, MyLeaf
  <2>2. Plans(t) /\ (Valid(t) => Stands(t, node[o.n]))
    BY DEF CInv, Aware, Deciding
  <2>3. Plans(t)'
    BY <1>2, <2>1, <2>2 DEF Plans
  <2>4. ASSUME Valid(t) PROVE Stands(t, node[o.n])'
    <3>1. PICK m : m = node'[o.n]
      OBVIOUS
    <3>2. Stands(t, m)
      BY <1>1, <1>4, <2>2, <2>4, <3>1, StandsSame
    <3>3. Stands(t, m)'
      BY <1>2, <2>1, <3>2 DEF Stands
    <3> QED
      BY <1>2, <3>1, <3>3
  <2> QED
    BY <1>2, <1>5, <2>3, <2>4 DEF Aware
<1>7. ASSUME NEW lab \in Labelings, LabelInv(lab)
      PROVE  Finds(t, lab)'
  <2> SUFFICES ASSUME Finder(t)' PROVE Finds(t, lab)'
    BY DEF Finds
  <2>1. Finder(t)
    BY <1>2 DEF Finder, Busy, Reading
  <2>2. Came(t, lab)
    BY <1>7, <2>1 DEF LabelInv, Finds
  <2>3. Entry(t)' => Entry(t)
    <3>1. o.pc = "lockN" => o.todo # "split"
      BY Knows DEF Local, Doing
    <3> QED
      BY <1>2, <3>1 DEF Entry
  <2>4. Came(t, lab)'
    BY <1>2, <2>2, <2>3 DEF Came
  <2>5. Sure(t)' => Sure(t)
    BY <1>2 DEF Sure
  <2>6. Sure(t)' => Here(t, lab)'
    BY <1>2, <1>7, <2>1, <2>5 DEF LabelInv, Finds, Here
  <2> QED
    BY <1>2, <2>4, <2>6 DEF Finds
<1> QED
  BY <1>1, <1>2, <1>3, <1>4, <1>6, <1>7, WordStep

\* upgradeToWriteLockOrRestart.
LEMMA upgradeContent ==
    ASSUME IInv, IInv', CInv, NEW t \in Threads, upgradeToWriteLockOrRestart(t) PROVE CInv'
<1>1. th[t].pc = "lockN" /\ th[t].pc \in Reading /\ UNCHANGED epocheVars /\ store' = store /\ seen' = seen
  BY DEF upgradeToWriteLockOrRestart, Quiet, Reading
<1>2. th[t].todo \in {"put", "fork", "drop"} /\ Free(th[t].v) /\ th[t].n \in DOMAIN node
  BY <1>1, Knows DEF Local, Doing, Snapshot
<1>3. CASE Unchanged(th[t].n, th[t].v)
  <2>1. node' = [node EXCEPT ![th[t].n] = Locked(@)] /\ GoTo(t, th[t].todo)
    BY <1>3 DEF upgradeToWriteLockOrRestart
  <2>2. Valid(t) /\ Free(node[th[t].n].word)
    BY <1>1, <1>2, <1>3 DEF Valid, Unchanged
  <2> QED
    BY <1>1, <1>2, <2>1, <2>2, LockContent
<1>4. CASE ~Unchanged(th[t].n, th[t].v)
  BY <1>1, <1>4, RestartContent DEF upgradeToWriteLockOrRestart
<1> QED
  BY <1>3, <1>4

\* The lock of the parent.
LEMMA LockParentContent ==
    ASSUME IInv, IInv', CInv, NEW t \in Threads, LockParent(t) PROVE CInv'
<1>1. th[t].pc = "lockP" /\ UNCHANGED epocheVars /\ store' = store /\ seen' = seen
  BY DEF LockParent, Quiet
<1>2. th[t].par # 0 /\ Free(th[t].pv) /\ th[t].par \in DOMAIN node
  BY <1>1, Knows DEF Local, Doing, Snapshot
<1>3. CASE Unchanged(th[t].par, th[t].pv)
  <2>1. node' = [node EXCEPT ![th[t].par] = Locked(@)] /\ GoTo(t, "lockB")
    BY <1>3 DEF LockParent
  <2>2. VouchedP(t) /\ Free(node[th[t].par].word)
    BY <1>2, <1>3 DEF VouchedP, ValidP, Unchanged
  <2> QED
    BY <1>1, <1>2, <2>1, <2>2, LockContent
<1>4. CASE ~Unchanged(th[t].par, th[t].pv)
  BY <1>1, <1>4, RestartContent DEF LockParent
<1> QED
  BY <1>3, <1>4

\* Locks that are given back.
LEMMA GiveBackContent ==
    ASSUME IInv, IInv', CInv, NEW t \in Threads, th[t].pc \notin {"cut", "join", "exit", "idle"}, Restart(t),
           DOMAIN node' = DOMAIN node, store' = store, seen' = seen, node' \in [DOMAIN node -> NodeRec],
           \A y \in DOMAIN node : node'[y] = node[y] \/ (y \in Held(t) /\ node'[y] = writeUnlock(node[y]))
    PROVE  CInv'
<1> DEFINE c == AtRoot(th[t], "read", Null)
<1>0. th[t] \in CallRec /\ Null \in Kid
  BY Knows, KidIs
<1>1. Go(t, c) /\ c \in CallRec /\ c.pc = "read" /\ c.op = th[t].op /\ c.key = th[t].key
  BY <1>0, AtRootIs DEF Restart
<1>2. Aware(t)' /\ \A lab \in Labelings : Finds(t, lab)'
  BY <1>0, <1>1, AtRootKnows
<1> HIDE DEF c
<1>3. ASSUME NEW y \in DOMAIN node, y \in Held(t), node'[y] = writeUnlock(node[y])
      PROVE  /\ node'[y].word = node[y].word + 2 /\ node[y].word < node'[y].word /\ ~isObsolete(node'[y].word)
             /\ node'[y].kids = node[y].kids /\ node'[y].prefix = node[y].prefix /\ node'[y].type = node[y].type
  <2>1. node[y] \in NodeRec /\ node[y].word \in Nat /\ isLocked(node[y].word) /\ ~isObsolete(node[y].word)
    BY <1>3, NodeIs DEF IInv, TypeInv, LockInv
  <2> QED
    BY <1>3, <2>1, WordWrite, WordIs DEF Free
<1>4. Evolves(t)
  BY <1>3 DEF Evolves
<1>5. /\ \A y \in DOMAIN node : node'[y].kids = node[y].kids /\ node'[y].prefix = node[y].prefix /\ node'[y].type = node[y].type
      /\ \A y \in DOMAIN node : isObsolete(node'[y].word) => isObsolete(node[y].word)
  BY <1>3
<1> QED
  BY <1>1, <1>2, <1>4, <1>5, WordStep

\* The lock of the node, or none.
LEMMA LockBothContent ==
    ASSUME IInv, IInv', CInv, NEW t \in Threads, LockBoth(t) PROVE CInv'
<1>1. th[t].pc = "lockB" /\ th[t].pc \in Reading /\ UNCHANGED epocheVars /\ store' = store /\ seen' = seen
  BY DEF LockBoth, Quiet, Reading
<1>2. th[t].todo \in {"split", "grow", "shrink", "pair"} /\ Free(th[t].v) /\ th[t].n \in DOMAIN node
  BY <1>1, Knows DEF Local, Doing, Snapshot
<1>3. CASE Unchanged(th[t].n, th[t].v)
  <2>1. node' = [node EXCEPT ![th[t].n] = Locked(@)] /\ GoTo(t, th[t].todo)
    BY <1>3 DEF LockBoth
  <2>2. Valid(t) /\ Free(node[th[t].n].word)
    BY <1>1, <1>2, <1>3 DEF Valid, Unchanged
  <2> QED
    BY <1>1, <1>2, <2>1, <2>2, LockContent
<1>4. CASE ~Unchanged(th[t].n, th[t].v)
  <2>1. node' = [node EXCEPT ![th[t].par] = writeUnlock(@)] /\ Restart(t)
    BY <1>4 DEF LockBoth, GiveBack
  <2>2. th[t].par \in Held(t) /\ th[t].par \in DOMAIN node
    BY <1>1, OwnPIs DEF OwnsP
  <2>3. writeUnlock(node[th[t].par]) \in NodeRec /\ node \in [DOMAIN node -> NodeRec]
    BY <2>2, WordWrite DEF IInv, TypeInv
  <2> QED
    BY <1>1, <2>1, <2>2, <2>3, GiveBackContent
<1> QED
  BY <1>3, <1>4

\* The other child of a node of two: its lock, or none.
LEMMA writeLockContent ==
    ASSUME IInv, IInv', CInv, NEW t \in Threads, writeLockOrRestart(t) PROVE CInv'
<1> DEFINE o == th[t]
           q == Other(t)[2]
           w == node[q].word
<1>1. o.pc = "pair" /\ isInner(Other(t)) /\ UNCHANGED epocheVars /\ store' = store /\ seen' = seen
  BY DEF writeLockOrRestart, Quiet
<1>2. /\ o.par \in Held(t) /\ o.par \in DOMAIN node /\ o.n \in Held(t) /\ o.n \in DOMAIN node /\ o.n # o.par /\ o.op = "remove"
  <2>1. o.pc \in OwnsP /\ o.pc \in OwnsN
    BY <1>1 DEF OwnsP, OwnsN
  <2>2. Plans(t) /\ o.n # o.par
    BY <1>1, <2>1, Knows DEF CInv, Aware, Deciding, Local, Doing
  <2> QED
    BY <1>1, <2>1, <2>2, OwnPIs, OwnIs DEF Plans
<1>3. CASE isLocked(w) \/ isObsolete(w)
  <2>1. node' = [node EXCEPT ![o.par] = writeUnlock(@), ![o.n] = writeUnlock(@)] /\ Restart(t)
    BY <1>3 DEF writeLockOrRestart
  <2>2. /\ writeUnlock(node[o.par]) \in NodeRec /\ writeUnlock(node[o.n]) \in NodeRec /\ node \in [DOMAIN node -> NodeRec]
    BY <1>2, WordWrite DEF IInv, TypeInv
  <2>3. /\ DOMAIN node' = DOMAIN node /\ node' \in [DOMAIN node -> NodeRec]
        /\ \A y \in DOMAIN node : node'[y] = node[y] \/ (y \in Held(t) /\ node'[y] = writeUnlock(node[y]))
    BY <1>2, <2>1, <2>2
  <2> QED
    BY <1>1, <2>1, <2>3, GiveBackContent
<1>4. CASE ~(isLocked(w) \/ isObsolete(w))
  <2> DEFINE c == [o EXCEPT !.pc = "lift"]
  <2>1. node' = [node EXCEPT ![q] = Locked(@)] /\ GoTo(t, "lift") /\ Free(w)
    BY <1>4 DEF writeLockOrRestart, Free
  <2>2. o \in CallRec /\ Go(t, c) /\ o.n \in Nat
    BY <2>1, Knows, CallIs DEF GoTo
  <2>3. /\ c \in CallRec /\ th'[t] = c /\ c.pc = "lift" /\ c.op = o.op /\ c.key = o.key /\ c.n = o.n /\ c.par = o.par
        /\ c.pkey = o.pkey /\ c.level = o.level /\ c.v = o.v /\ c.pv = o.pv /\ c.child = o.child /\ c.todo = o.todo
        /\ c.tid = o.tid /\ c.hit = o.hit
    BY <2>2, NextCall DEF CallRec
  <2> HIDE DEF c
  <2>4. q \in DOMAIN node
    BY <1>1, OtherIs
  <2>5. /\ Evolves(t) /\ DOMAIN node' = DOMAIN node /\ \A y \in DOMAIN node \ {q} : node'[y] = node[y]
        /\ ~isObsolete(node'[q].word)
        /\ node'[q].kids = node[q].kids /\ node'[q].prefix = node[q].prefix /\ node'[q].type = node[q].type
    BY <1>1, <2>1, <2>2, <2>3, <2>4, LockIs
  <2>6. /\ \A y \in DOMAIN node : node'[y].kids = node[y].kids /\ node'[y].prefix = node[y].prefix /\ node'[y].type = node[y].type
        /\ \A y \in DOMAIN node : isObsolete(node'[y].word) => isObsolete(node[y].word)
    BY <2>5
  <2>7. Aware(t)'
    <3>1. Symbol(t)' = Symbol(t) /\ MyLeaf(t)' = MyLeaf(t)
      BY <2>3 DEF Symbol, MyLeaf
    <3>2. Plans(t) /\ Stands(t, node[o.n])
      BY <1>1 DEF CInv, Aware, Deciding, Valid, OwnsN
    <3>3. Plans(t)'
      BY <1>1, <2>3, <3>1, <3>2 DEF Plans
    <3>4. PICK m : m = node'[o.n]
      OBVIOUS
    <3>5. Stands(t, m)
      BY <1>2, <2>6, <3>2, <3>4, StandsSame
    <3>6. Stands(t, m)'
      BY <1>1, <2>3, <3>1, <3>5 DEF Stands
    <3> QED
      BY <2>3, <3>3, <3>4, <3>6 DEF Aware
  <2>8. \A lab \in Labelings : Finds(t, lab)'
    BY <1>2, <2>3 DEF Finds, Finder
  <2> QED
    BY <1>1, <2>2, <2>3, <2>5, <2>6, <2>7, <2>8, WordStep
<1> QED
  BY <1>3, <1>4

-----------------------------------------------------------------------------
(* Calls.                                                                  *)

\* What is stored are leaves.
LEMMA StoreIs ==
    ASSUME IInv, CInv
    PROVE  store \subseteq Kid
<1>1. PICK lab : LabelInv(lab)
  BY DEF CInv
<1>2. \A c \in store : \E x \in DOMAIN View, s \in Symbols : View[x][s] = c
  BY <1>1 DEF LabelInv, Holds
<1>3. \A x \in DOMAIN View, s \in Symbols : View[x][s] \in Kid
  BY ViewIs, GetChildIs
<1> QED
  BY <1>2, <1>3

\* A step of a call that is outside the tree.
LEMMA OutsideContent ==
    ASSUME IInv, IInv', CInv, NEW t \in Threads, NEW c, Go(t, c), node' = node, store' = store,
           th[t].pc \in {"idle", "exit"}, c.pc \in {"idle", "enter"},
           c.op = "insert" => c.pc = "enter" /\ MayInsert(c.key),
           NEW w \in {seen[t], [held |-> store, kept |-> store]}, seen' = [seen EXCEPT ![t] = w],
           c.pc = "enter" => w = [held |-> store, kept |-> store]
    PROVE  CInv'
<1>1. c \in CallRec /\ th'[t] = c /\ \A u \in Threads \ {t} : th'[u] = th[u]
  BY NextCall
<1>2. Evolves(t)
  BY DEF Evolves, IInv, TypeInv
<1>3. /\ seen \in [Threads -> [held : SUBSET Kid, kept : SUBSET Kid]] /\ store \subseteq Kid
      /\ seen[t].kept \subseteq store
  BY StoreIs DEF CInv, CallsInv
<1>4. seen' \in [Threads -> [held : SUBSET Kid, kept : SUBSET Kid]] /\ seen'[t] = w /\ \A u \in Threads \ {t} : seen'[u] = seen[u]
  BY <1>3
<1>5. ASSUME NEW u \in Threads PROVE Aware(u)'
  <2>1. CASE u = t
    BY <1>1, <2>1 DEF Aware, Deciding, OwnsN
  <2>2. CASE u # t
    <3>1. PICK lab \in Labelings : LabelInv(lab)
      BY DEF CInv
    <3>2. Relabels(t, lab, lab)
      BY DEF Relabels
    <3> QED
      BY <1>1, <1>2, <2>2, <3>2, OthersKnow DEF CInv
  <2> QED
    BY <2>1, <2>2
<1>6. \E lab \in Labelings : LabelInv(lab)'
  <2>1. PICK lab \in Labelings : LabelInv(lab)
    BY DEF CInv
  <2>2. Finds(t, lab)'
    BY <1>1 DEF Finds, Finder, Busy, Reading, Seeking, OwnsN
  <2>3. LabelInv(lab)'
    BY <1>1, <1>2, <2>1, <2>2, LabelStays
  <2> QED
    BY <2>3
<1>7. BranchInv'
  BY DEF CInv, BranchInv
<1>8. LookupsLinearize'
  BY <1>1, <1>4 DEF CInv, LookupsLinearize
<1>9. CallsInv'
  <2>1. ASSUME NEW u \in Threads, NEW v \in Threads, u # v, th'[u].op = "insert", th'[v].op = "insert"
        PROVE  th'[u].key # th'[v].key
    <3>1. CASE u # t /\ v # t
      BY <1>1, <2>1, <3>1 DEF CInv, CallsInv
    <3>2. CASE u = t
      BY <1>1, <2>1, <3>2 DEF MayInsert
    <3>3. CASE v = t
      BY <1>1, <2>1, <3>3 DEF MayInsert
    <3> QED
      BY <3>1, <3>2, <3>3
  <2>2. ASSUME NEW u \in Threads
        PROVE  /\ seen'[u].kept \subseteq store' /\ (th'[u].pc # "idle" => store' \subseteq seen'[u].held)
               /\ th'[u].op = "insert" /\ th'[u].pc \notin {"cut", "exit"} => ~HasKey(store', th'[u].key)
    <3>1. CASE u = t
      <4>1. seen'[t].kept \subseteq store'
        BY <1>3, <1>4
      <4>2. th'[t].pc # "idle" => store' \subseteq seen'[t].held
        BY <1>1, <1>4
      <4>3. th'[t].op = "insert" => ~HasKey(store', th'[t].key)
        BY <1>1 DEF MayInsert, HasKey
      <4> QED
        BY <3>1, <4>1, <4>2, <4>3
    <3>2. CASE u # t
      BY <1>1, <1>4, <3>2 DEF CInv, CallsInv
    <3> QED
      BY <3>1, <3>2
  <2> QED
    BY <2>1, <2>2 DEF CallsInv
<1> QED
  BY <1>4, <1>5, <1>6, <1>7, <1>8, <1>9 DEF CInv

\* The start of a call.
LEMMA CallContent ==
    ASSUME IInv, IInv', CInv, NEW t \in Threads, insert(t) \/ remove(t) \/ lookup(t) \/ seekLE(t) PROVE CInv'
<1>1. PICK op, k, tid : /\ op \in {"insert", "remove", "lookup", "seek"} /\ Call(t, op, k, tid)
                        /\ op = "insert" => MayInsert(k)
  BY DEF insert, remove, lookup, seekLE
<1> DEFINE o == th[t]
           c == [o EXCEPT !.pc = "enter", !.op = op, !.key = k, !.tid = tid, !.epoch = currentEpoche]
           w == [held |-> store, kept |-> store]
<1>2. o \in CallRec /\ o.pc = "idle" /\ node' = node /\ store' = store /\ seen' = [seen EXCEPT ![t] = w] /\ Go(t, c)
  BY <1>1, Knows DEF Call
<1>3. c.pc = "enter" /\ c.op = op /\ c.key = k
  BY <1>2 DEF CallRec
<1> HIDE DEF c
<1> QED
  BY <1>1, <1>2, <1>3, OutsideContent

\* Its first step in the tree, and its end.
LEMMA EnterContent ==
    ASSUME IInv, CInv, NEW t \in Threads, Enter(t) PROVE CInv'
BY RestartContent DEF Enter

\* The end of a call.
LEMMA ExitContent ==
    ASSUME IInv, IInv', CInv, NEW t \in Threads, Exit(t) PROVE CInv'
<1>1. th[t].pc = "exit" /\ Go(t, Idle) /\ node' = node /\ store' = store /\ seen' = seen
  BY DEF Exit, Go
<1>2. seen' = [seen EXCEPT ![t] = seen[t]]
  BY <1>1 DEF CInv
<1> QED
  BY <1>1, <1>2, IdleIs, OutsideContent

-----------------------------------------------------------------------------
(* Writes of leaves.                                                       *)

\* What the writes of a node do to its children.
LEMMA KidsSet ==
    ASSUME NEW n \in NodeRec, NEW s \in Symbols, NEW c \in Kid
    PROVE  /\ LET new == insertKid(n, s, c) IN
              /\ new \in NodeRec /\ new.type = n.type /\ new.prefix = n.prefix /\ new.word = n.word
              /\ DOMAIN new.kids = DOMAIN n.kids \cup {s}
              /\ \A o : getChild(new, o) = IF o = s THEN c ELSE getChild(n, o)
           /\ LET new == change(n, s, c) IN
              /\ new \in NodeRec /\ new.type = n.type /\ new.prefix = n.prefix /\ new.word = n.word
              /\ DOMAIN new.kids = DOMAIN n.kids
              /\ s \in DOMAIN n.kids => \A o : getChild(new, o) = IF o = s THEN c ELSE getChild(n, o)
           /\ LET new == removeKid(n, s) IN
              /\ new \in NodeRec /\ new.type = n.type /\ new.prefix = n.prefix /\ new.word = n.word
              /\ DOMAIN new.kids = DOMAIN n.kids \ {s}
              /\ \A o : getChild(new, o) = IF o = s THEN Null ELSE getChild(n, o)
<1>1. n.kids \in KidMaps
  BY DEF NodeRec
<1>2. PICK g : g = n.kids
  OBVIOUS
<1>3. LET new == insertKid(n, s, c) IN
        /\ new \in NodeRec /\ new.type = n.type /\ new.prefix = n.prefix /\ new.word = n.word
        /\ DOMAIN new.kids = DOMAIN n.kids \cup {s}
        /\ \A o : getChild(new, o) = IF o = s THEN c ELSE getChild(n, o)
  <2>1. PICK m : m = insertKid(n, s, c)
    OBVIOUS
  <2>2. m \in NodeRec /\ m.type = n.type /\ m.prefix = n.prefix /\ m.word = n.word
    BY <2>1, InsertKidIs
  <2>3. PICK f : f = With(n.kids, s, c)
    OBVIOUS
  <2>4. f = m.kids
    BY <2>1, <2>3 DEF insertKid, NodeRec
  <2>5. DOMAIN f = DOMAIN g \cup {s} /\ \A o \in DOMAIN g \cup {s} : f[o] = IF o = s THEN c ELSE g[o]
    BY ONLY <1>1, <1>2, <2>3, WithIs, s \in Symbols, c \in Kid
  <2>6. \A o : getChild(m, o) = IF o = s THEN c ELSE getChild(n, o)
    <3>1. \A o : o # s => (o \in DOMAIN f <=> o \in DOMAIN g)
      BY ONLY <2>5
    <3>2. \A o \in DOMAIN f : o # s => f[o] = g[o]
      BY ONLY <2>5
    <3>3. c = IF s \in DOMAIN f THEN f[s] ELSE Null
      BY ONLY <2>5
    <3> QED
      BY ONLY <1>2, <2>4, <3>1, <3>2, <3>3 DEF getChild
  <2> QED
    BY ONLY <1>2, <2>1, <2>2, <2>4, <2>5, <2>6
<1>4. LET new == change(n, s, c) IN
        /\ new \in NodeRec /\ new.type = n.type /\ new.prefix = n.prefix /\ new.word = n.word
        /\ DOMAIN new.kids = DOMAIN n.kids
        /\ s \in DOMAIN n.kids => \A o : getChild(new, o) = IF o = s THEN c ELSE getChild(n, o)
  <2>1. PICK m : m = change(n, s, c)
    OBVIOUS
  <2>2. m \in NodeRec /\ m.type = n.type /\ m.prefix = n.prefix /\ m.word = n.word /\ DOMAIN m.kids = DOMAIN n.kids
    BY <2>1, ChangeIs
  <2>3. PICK f : f = [g EXCEPT ![s] = c]
    OBVIOUS
  <2>4. f = m.kids
    BY <1>2, <2>1, <2>3 DEF change, NodeRec
  <2>5. DOMAIN f = DOMAIN g /\ \A o \in DOMAIN g : f[o] = IF o = s THEN c ELSE g[o]
    BY ONLY <2>3
  <2>6. ASSUME s \in DOMAIN n.kids
        PROVE  \A o : getChild(m, o) = IF o = s THEN c ELSE getChild(n, o)
    <3>1. \A o : o # s => (o \in DOMAIN f <=> o \in DOMAIN g)
      BY ONLY <2>5
    <3>2. \A o \in DOMAIN f : o # s => f[o] = g[o]
      BY ONLY <2>5
    <3>3. c = IF s \in DOMAIN f THEN f[s] ELSE Null
      BY ONLY <1>2, <2>5, <2>6
    <3> QED
      BY ONLY <1>2, <2>4, <3>1, <3>2, <3>3 DEF getChild
  <2> QED
    BY ONLY <2>1, <2>2, <2>6
<1>5. LET new == removeKid(n, s) IN
        /\ new \in NodeRec /\ new.type = n.type /\ new.prefix = n.prefix /\ new.word = n.word
        /\ DOMAIN new.kids = DOMAIN n.kids \ {s}
        /\ \A o : getChild(new, o) = IF o = s THEN Null ELSE getChild(n, o)
  <2>1. PICK m : m = removeKid(n, s)
    OBVIOUS
  <2>2. m \in NodeRec /\ m.type = n.type /\ m.prefix = n.prefix /\ m.word = n.word
    BY <2>1, RemoveKidIs
  <2>3. PICK f : f = [o \in DOMAIN g \ {s} |-> g[o]]
    OBVIOUS
  <2>4. f = m.kids
    BY <1>2, <2>1, <2>3 DEF removeKid, NodeRec
  <2>5. DOMAIN f = DOMAIN g \ {s} /\ \A o \in DOMAIN g \ {s} : f[o] = g[o]
    BY ONLY <2>3
  <2>6. \A o : getChild(m, o) = IF o = s THEN Null ELSE getChild(n, o)
    <3>1. \A o : o # s => (o \in DOMAIN f <=> o \in DOMAIN g)
      BY ONLY <2>5
    <3>2. \A o \in DOMAIN f : o # s => f[o] = g[o]
      BY ONLY <2>5
    <3>3. Null = IF s \in DOMAIN f THEN f[s] ELSE Null
      BY ONLY <2>5
    <3> QED
      BY ONLY <1>2, <2>4, <3>1, <3>2, <3>3 DEF getChild
  <2> QED
    BY ONLY <1>2, <2>1, <2>2, <2>4, <2>5, <2>6
<1> QED
  BY <1>3, <1>4, <1>5

\* Counting children.
LEMMA CountIs ==
    ASSUME NEW n \in NodeRec, NEW m \in NodeRec
    PROVE  /\ IsFiniteSet(DOMAIN n.kids) /\ getCount(n) \in Nat
           /\ DOMAIN n.kids \subseteq DOMAIN m.kids => getCount(n) <= getCount(m)
           /\ \A s : s \notin DOMAIN n.kids /\ DOMAIN m.kids = DOMAIN n.kids \cup {s} => getCount(m) = getCount(n) + 1
           /\ \A s : s \in DOMAIN n.kids /\ DOMAIN m.kids = DOMAIN n.kids \ {s} => getCount(m) = getCount(n) - 1
<1>1. IsFiniteSet(Symbols) /\ DOMAIN n.kids \subseteq Symbols /\ DOMAIN m.kids \subseteq Symbols
  BY SymbolAssumption, NodeIs
<1>2. IsFiniteSet(DOMAIN n.kids) /\ IsFiniteSet(DOMAIN m.kids)
  BY <1>1, FS_Subset
<1>3. getCount(n) \in Nat /\ getCount(m) \in Nat
  BY <1>2, FS_CardinalityType DEF getCount
<1>4. DOMAIN n.kids \subseteq DOMAIN m.kids => getCount(n) <= getCount(m)
  BY <1>2, FS_Subset DEF getCount
<1>5. \A s : s \notin DOMAIN n.kids /\ DOMAIN m.kids = DOMAIN n.kids \cup {s} => getCount(m) = getCount(n) + 1
  BY <1>2, FS_AddElement DEF getCount
<1>6. \A s : s \in DOMAIN n.kids /\ DOMAIN m.kids = DOMAIN n.kids \ {s} => getCount(m) = getCount(n) - 1
  BY <1>2, FS_RemoveElement DEF getCount
<1> QED
  BY <1>2, <1>3, <1>4, <1>5, <1>6

\* Leaves and nothing else are stored.
LEMMA StoredIs ==
    ASSUME IInv, CInv, NEW c \in store
    PROVE  isLeaf(c) /\ c \in Kid /\ c # Null
<1>1. PICK lab : LabelInv(lab)
  BY DEF CInv
<1>2. isLeaf(c)
  BY <1>1 DEF LabelInv, Holds
<1> QED
  BY <1>2, StoreIs, KidIs

\* A write that sets a leaf of a node, or takes one out.
LeafSet(n, new, s, old, k) ==
    /\ new.prefix = node[n].prefix /\ new.type = node[n].type /\ ~isObsolete(new.word)
    /\ new.word = node[n].word \/ node[n].word < new.word
    /\ ~isInner(old) /\ ~isInner(k) /\ old = getChild(node[n], s)
    /\ \A o : getChild(new, o) = IF o = s THEN k ELSE getChild(node[n], o)
    /\ \A lab \in Labelings : LabelInv(lab) /\ isLeaf(k) => LeafUnder(lab[n], s, k)

\* A write that sets or clears one leaf of a node.
LEMMA LeafWrite ==
    ASSUME IInv, CInv, NEW t \in Threads, NEW c \in CallRec, Go(t, c), UNCHANGED epocheVars,
           th[t].pc \in {"put", "drop", "clear"}, c.pc = "exit" \/ (c.pc = "clear" /\ c.op = "remove"),
           NEW n \in DOMAIN node, n = th[t].n, NEW new \in NodeRec, node' = [node EXCEPT ![n] = new],
           NEW s \in Symbols, NEW old \in Kid, NEW k \in Kid, LeafSet(n, new, s, old, k),
           NEW lost, NEW won, Took(t, lost, won), store' = (store \ {old}) \cup ({k} \ {Null}),
           n # Root => Branches(new), c.pc = "clear" => Aware(t)'
    PROVE  CInv'
<1>0. /\ new.prefix = node[n].prefix /\ new.type = node[n].type /\ ~isObsolete(new.word)
      /\ new.word = node[n].word \/ node[n].word < new.word
      /\ ~isInner(old) /\ ~isInner(k) /\ old = getChild(node[n], s)
      /\ \A o : getChild(new, o) = IF o = s THEN k ELSE getChild(node[n], o)
      /\ \A lab \in Labelings : LabelInv(lab) /\ isLeaf(k) => LeafUnder(lab[n], s, k)
  BY DEF LeafSet
<1>1. /\ th[t].pc \in OwnsN /\ th[t].pc \notin {"cut", "join"} /\ c.pc \notin {"cut", "join"} /\ Held(t) = {n}
      /\ th'[t] = c /\ \A u \in Threads \ {t} : th'[u] = th[u]
  BY GoIs DEF OwnsN, Held, IInv
<1>2. /\ node[n] \in NodeRec /\ th[t].op \in {"insert", "remove"} /\ ~isObsolete(node[n].word) /\ n \in Held(t)
  BY <1>1, OwnIs
<1>3. \A o, m : InnerAt(new, o, m) => InnerAt(node[n], o, m)
  <2>1. \A o, m : InnerAt(new, o, m) => getChild(new, o) = Inner(m)
    BY GetChildIs
  <2>2. \A o, m : getChild(node[n], o) = Inner(m) => InnerAt(node[n], o, m)
    BY <1>2, GetChildIs
  <2>3. \A m : k # Inner(m)
    BY <1>0, KidIs
  <2> QED
    BY <1>0, <2>1, <2>2, <2>3
<1>4. /\ Evolves(t) /\ DOMAIN node' = DOMAIN node /\ node'[n] = new /\ \A y \in DOMAIN node \ {n} : node'[y] = node[y]
  BY <1>0, <1>1, <1>2, <1>3, OneNode
<1>5. \A x : Linked(x)' <=> Linked(x)
  BY <1>0, <1>1, <1>2, <1>4, LinkedIs DEF Linked
<1>6. PICK K : K = View
  OBVIOUS
<1>7. PICK K2 : /\ K2 = View' /\ K2 \in KidFuns(DOMAIN K2)
                /\ \A x : x \in DOMAIN K2 <=> Linked(x)'
                /\ \A x \in DOMAIN K2 : x \in DOMAIN node' /\ \A o \in Symbols : K2[x][o] = getChild(node'[x], o)
  BY <1>4, ViewNext DEF Evolves
<1>8. /\ \A x : x \in DOMAIN K <=> Linked(x)
      /\ \A x \in DOMAIN K, o \in Symbols : K[x][o] = getChild(node[x], o)
      /\ Tidy(K)
  BY <1>6, ViewIs
<1>9. DOMAIN K2 = DOMAIN K
  BY <1>5, <1>7, <1>8
<1>10. n \in DOMAIN K /\ K[n][s] = old /\ ~Flux(n)
  <2>1. Linked(n) /\ ~Flux(n)
    BY <1>1, <1>2, HeldFits
  <2> QED
    BY <1>0, <1>8, <2>1
<1>11. Sets(K, K2, n, s, k)
  BY <1>0, <1>4, <1>7, <1>8, <1>9, <1>10 DEF Sets
<1>12. PICK lab \in Labelings : LabelInv(lab)
  BY DEF CInv
<1>13. Ordered(K2, lab) /\ Holds(K2, (store \ {old}) \cup ({k} \ {Null}))
  <2>1. Ordered(K, lab) /\ Holds(K, store)
    BY <1>6, <1>12 DEF LabelInv
  <2>2. isLeaf(k) => LeafUnder(lab[n], s, k)
    BY <1>0, <1>12
  <2>3. K2 \in KidFuns(DOMAIN K)
    BY <1>7, <1>9
  <2> QED
    BY <1>0, <1>8, <1>10, <1>11, <2>1, <2>2, <2>3, SetsLeaf
<1>14. LabelInv(lab)'
  <2>1. Relabels(t, lab, lab)
    BY DEF Relabels
  <2>2. Pending(t, lab)' /\ Finds(t, lab)'
    BY <1>1 DEF Pending, Finds, Finder, Busy, Reading, Seeking, OwnsN
  <2>3. \A x \in DOMAIN node \ Held(t) : node'[x].prefix = node[x].prefix /\ (Linked(x)' => Linked(x))
    BY <1>1, <1>4, <1>5
  <2>4. \A x \in DOMAIN node' : x \notin DOMAIN node \/ x \in Held(t) =>
              Len(node'[x].prefix) <= lab[x].low /\ (Linked(x)' => FluxOf(t, x)' \/ Fits(node'[x].prefix, lab[x]))
    BY <1>0, <1>1, <1>4, <1>5, <1>10, <1>12 DEF LabelInv, Spelled
  <2>5. Ordered(View', lab) /\ Holds(View', store')
    BY <1>7, <1>13
  <2> QED
    BY <1>1, <1>4, <1>12, <2>1, <2>2, <2>3, <2>4, <2>5, LabelStep
<1>15. BranchInv'
  BY <1>4 DEF CInv, BranchInv
<1>16. Aware(t)'
  BY <1>1 DEF Aware, Deciding, OwnsN
<1>17. th'[t].op # "lookup"
  BY <1>2 DEF Took
<1> QED
  BY <1>1, <1>4, <1>14, <1>15, <1>16, <1>17, ContentStep

\* An insert that has locked its node is where its key belongs.
LEMMA InsertAt ==
    ASSUME IInv, CInv, NEW t \in Threads, th[t].pc \in {"put", "fork", "grow"}, NEW lab \in Labelings, LabelInv(lab),
           NEW l, l = lab[th[t].n]
    PROVE  /\ l \in LabelRec /\ th[t].op = "insert" /\ th[t].key \in Keys /\ th[t].todo = th[t].pc
           /\ th[t].level = l.low /\ Shares(l.rep, th[t].key, l.low)
           /\ Symbol(t) = th[t].key[l.low + 1] /\ Symbol(t) \in Symbols
           /\ LeafUnder(l, Symbol(t), MyLeaf(t)) /\ MyLeaf(t)[2] = th[t].key
           /\ isLeaf(MyLeaf(t)) /\ ~isInner(MyLeaf(t)) /\ MyLeaf(t) \in Kid /\ MyLeaf(t) # Null
           /\ th[t].child = getChild(node[th[t].n], Symbol(t)) /\ Plans(t) /\ Stands(t, node[th[t].n])
<1>1. th[t].pc \in OwnsN /\ th[t].pc \in Deciding
  BY DEF OwnsN, Deciding
<1>2. /\ th[t].n \in DOMAIN node /\ th[t].n \in Nat /\ th[t].key \in Keys /\ Busy(t) /\ Symbol(t) \in Symbols /\ MyLeaf(t) \in Kid
  BY <1>1, OwnIs, Knows
<1>3. Plans(t) /\ Stands(t, node[th[t].n])
  BY <1>1 DEF CInv, Aware, Valid
<1>4. th[t].todo = th[t].pc /\ th[t].op = "insert" /\ th[t].child = getChild(node[th[t].n], Symbol(t))
  BY <1>3 DEF Plans, Stands
<1>5. Finder(t) /\ Sure(t)
  BY <1>2, <1>4 DEF Finder, Sure
<1>6. th[t].level = l.low /\ Shares(l.rep, th[t].key, l.low)
  BY <1>5 DEF LabelInv, Finds, Here
<1>7. l \in LabelRec /\ l.low < KeyLen
  BY <1>2, LabelsAre
<1>8. Symbol(t) = th[t].key[l.low + 1]
  BY <1>6, <1>7 DEF Symbol, At
<1>9. MyLeaf(t)[2] = th[t].key /\ isLeaf(MyLeaf(t)) /\ ~isInner(MyLeaf(t)) /\ MyLeaf(t) # Null
  BY KidIs DEF MyLeaf, Leaf
<1>10. LeafUnder(l, Symbol(t), MyLeaf(t))
  BY <1>6, <1>8, <1>9 DEF LeafUnder
<1> QED
  BY <1>2, <1>3, <1>4, <1>6, <1>7, <1>8, <1>9, <1>10

\* The end of a write: the call returns.
LEMMA ReturnIs ==
    ASSUME IInv, NEW t \in Threads, Return(t, Null)
    PROVE  \E c \in CallRec : Go(t, c) /\ c.pc = "exit" /\ c.op = th[t].op /\ c.key = th[t].key /\ th'[t] = c
                              /\ \A u \in Threads \ {t} : th'[u] = th[u]
<1> DEFINE c == AtRoot(th[t], "exit", Null)
<1>1. Go(t, c) /\ th[t] \in CallRec /\ Null \in Kid
  BY Knows, KidIs DEF Return
<1>2. c \in CallRec /\ c.pc = "exit" /\ c.op = th[t].op /\ c.key = th[t].key
  BY <1>1, AtRootIs
<1> HIDE DEF c
<1> QED
  BY <1>1, <1>2, GoIs DEF IInv

\* insertGrow, a node with room.
LEMMA PutContent ==
    ASSUME IInv, CInv, NEW t \in Threads, Put(t) PROVE CInv'
<1>1. PICK n : n = th[t].n
  OBVIOUS
<1>2. /\ th[t].pc = "put" /\ th[t].pc \in OwnsN /\ Return(t, Null) /\ Writes({}, {MyLeaf(t)}) /\ UNCHANGED epocheVars
      /\ node' = [node EXCEPT ![n] = writeUnlock(insertKid(@, Symbol(t), MyLeaf(t)))]
  BY <1>1 DEF Put, OwnsN
<1>3. PICK lab \in Labelings : LabelInv(lab)
  BY DEF CInv
<1>4. /\ th[t].op = "insert" /\ th[t].key \in Keys /\ Symbol(t) \in Symbols /\ th[t].todo = "put"
      /\ MyLeaf(t)[2] = th[t].key /\ isLeaf(MyLeaf(t)) /\ ~isInner(MyLeaf(t)) /\ MyLeaf(t) \in Kid /\ MyLeaf(t) # Null
      /\ getChild(node[n], Symbol(t)) = Null
  BY <1>1, <1>2, <1>3, InsertAt DEF Plans
<1>5. \A la \in Labelings : LabelInv(la) => LeafUnder(la[n], Symbol(t), MyLeaf(t))
  BY <1>1, <1>2, InsertAt
<1>6. n \in DOMAIN node /\ node[n] \in NodeRec /\ Free(node[n].word + 2) /\ node[n].word \in Nat
  BY <1>1, <1>2, OwnIs
<1>7. PICK c \in CallRec : Go(t, c) /\ c.pc = "exit" /\ c.op = th[t].op /\ c.key = th[t].key /\ th'[t] = c
  BY <1>2, ReturnIs
<1>8. PICK m : m = insertKid(node[n], Symbol(t), MyLeaf(t))
  OBVIOUS
<1>9. /\ m \in NodeRec /\ m.type = node[n].type /\ m.prefix = node[n].prefix /\ m.word = node[n].word
      /\ DOMAIN m.kids = DOMAIN node[n].kids \cup {Symbol(t)}
      /\ \A o : getChild(m, o) = IF o = Symbol(t) THEN MyLeaf(t) ELSE getChild(node[n], o)
  BY <1>4, <1>6, <1>8, KidsSet
<1>10. PICK new : new = writeUnlock(m)
  OBVIOUS
<1>11. new \in NodeRec /\ new.word = node[n].word + 2 /\ new.type = node[n].type /\ new.prefix = node[n].prefix /\ new.kids = m.kids
  BY <1>9, <1>10, WordWrite
<1>12. \A o : getChild(new, o) = IF o = Symbol(t) THEN MyLeaf(t) ELSE getChild(node[n], o)
  BY <1>9, <1>11 DEF getChild
<1>13. node' = [node EXCEPT ![n] = new]
  BY <1>2, <1>8, <1>10
<1>14. n # Root => Branches(new)
  <2>1. n # Root => Branches(node[n])
    BY <1>6 DEF CInv, BranchInv
  <2>2. getCount(node[n]) <= getCount(new) /\ getCount(node[n]) \in Nat /\ getCount(new) \in Nat
    BY <1>6, <1>9, <1>11, CountIs
  <2>3. new.type # N4 => UnderAt[new.type] \in Nat
    BY <1>11, NodeIs, LimitAssumption DEF N4, N256
  <2> QED
    BY <1>11, <2>1, <2>2, <2>3 DEF Branches
<1>15. store' = (store \ {Null}) \cup ({MyLeaf(t)} \ {Null})
  BY <1>2, <1>4, StoredIs DEF Writes
<1>16. Took(t, {}, {MyLeaf(t)})
  BY <1>2, <1>4, <1>7 DEF Took, Writes
<1>17. ~isObsolete(new.word) /\ node[n].word < new.word
  BY <1>6, <1>11 DEF Free
<1>18. ~isInner(Null) /\ Null \in Kid
  BY KidIs
<1> QED
  <2>1. LeafSet(n, new, Symbol(t), Null, MyLeaf(t))
    BY <1>4, <1>5, <1>11, <1>12, <1>17, <1>18 DEF LeafSet
  <2> QED
    BY <1>1, <1>2, <1>4, <1>6, <1>7, <1>11, <1>13, <1>14, <1>15, <1>16, <1>18, <2>1, LeafWrite

\* A remove that has locked its node has its leaf there.
LEMMA RemoveAt ==
    ASSUME IInv, CInv, NEW t \in Threads, th[t].pc \in {"drop", "clear", "shrink", "pair", "lift", "join"}
    PROVE  /\ th[t].op = "remove" /\ th[t].key \in Keys /\ th[t].child = MyLeaf(t) /\ Symbol(t) \in Symbols
           /\ MyLeaf(t)[2] = th[t].key /\ isLeaf(MyLeaf(t)) /\ ~isInner(MyLeaf(t)) /\ MyLeaf(t) \in Kid /\ MyLeaf(t) # Null
           /\ th[t].pc \notin {"clear", "join"} => getChild(node[th[t].n], Symbol(t)) = MyLeaf(t)
           /\ th[t].pc = "clear" => getChild(node[th[t].n], Symbol(t)) = Null
           /\ th[t].pc \in {"drop", "clear"} =>
                 /\ Symbol(t) \in DOMAIN node[th[t].n].kids /\ th[t].todo = "drop"
                 /\ th[t].par = 0 \/ (getCount(node[th[t].n]) # 2 /\ ~isUnderfull(node[th[t].n]))
           /\ th[t].pc = "shrink" => isUnderfull(node[th[t].n])
           /\ th[t].n # Root => th[t].par # 0
           /\ Plans(t)
<1>1. th[t].pc \in OwnsN /\ th[t].pc \in Deciding
  BY DEF OwnsN, Deciding
<1>2. /\ th[t].n \in DOMAIN node /\ th[t].n \in Nat /\ th[t].key \in Keys /\ Symbol(t) \in Symbols /\ MyLeaf(t) \in Kid
  BY <1>1, OwnIs, Knows
<1>3. Plans(t) /\ Stands(t, node[th[t].n])
  BY <1>1 DEF CInv, Aware, Valid
<1>4. th[t].todo \in {"drop", "shrink", "pair"} /\ (th[t].pc = "shrink" => th[t].todo = "shrink")
      /\ (th[t].pc \in {"drop", "clear"} => th[t].todo = "drop")
  BY <1>3 DEF Plans
<1>5. th[t].op = "remove" /\ th[t].child = MyLeaf(t)
  BY <1>3, <1>4 DEF Plans
<1>6. MyLeaf(t)[2] = th[t].key /\ isLeaf(MyLeaf(t)) /\ ~isInner(MyLeaf(t)) /\ MyLeaf(t) # Null
  BY KidIs DEF MyLeaf, Leaf
<1>7. th[t].n # Root => th[t].par # 0
  BY <1>5, Knows DEF Local, Doing
<1>8. /\ th[t].pc \notin {"clear", "join"} => getChild(node[th[t].n], Symbol(t)) = MyLeaf(t)
      /\ th[t].pc = "clear" => getChild(node[th[t].n], Symbol(t)) = Null
      /\ th[t].pc \in {"drop", "clear"} =>
            /\ Symbol(t) \in DOMAIN node[th[t].n].kids
            /\ th[t].par = 0 \/ (getCount(node[th[t].n]) # 2 /\ ~isUnderfull(node[th[t].n]))
      /\ th[t].pc = "shrink" => isUnderfull(node[th[t].n])
  BY <1>3, <1>4, <1>5 DEF Stands
<1> QED
  BY <1>2, <1>3, <1>4, <1>5, <1>6, <1>7, <1>8

\* A node that was not at its limit has children enough without one of them.
LEMMA StillBranches ==
    ASSUME NEW n \in NodeRec, NEW m \in NodeRec, Branches(n), getCount(n) # 2, ~isUnderfull(n), m.type = n.type,
           NEW s \in DOMAIN n.kids, DOMAIN m.kids = DOMAIN n.kids \ {s}
    PROVE  Branches(m)
<1>1. getCount(n) \in Nat /\ getCount(m) = getCount(n) - 1
  BY CountIs
<1>2. n.type # N4 => UnderAt[n.type] \in Nat
  BY NodeIs, LimitAssumption DEF N4, N256
<1> QED
  BY <1>1, <1>2 DEF Branches, isUnderfull

\* A step that takes nothing and adds nothing.
LEMMA TookNothing ==
    ASSUME CInv, NEW t \in Threads, store' = store, seen' = seen, th'[t].op = th[t].op, th'[t].key = th[t].key,
           th[t].pc # "idle", th'[t].op = "insert" /\ th'[t].pc \notin {"cut", "exit"} => th[t].pc \notin {"cut", "exit"}
    PROVE  Took(t, {}, {})
<1>1. seen' = [u \in Threads |-> [held |-> seen[u].held \cup {}, kept |-> seen[u].kept \ {}]]
  <2>1. \A u \in Threads : seen[u] = [held |-> seen[u].held \cup {}, kept |-> seen[u].kept \ {}]
    BY DEF CInv
  <2>2. seen = [u \in Threads |-> seen[u]]
    BY DEF CInv
  <2> QED
    BY <2>1, <2>2
<1> QED
  BY <1>1 DEF Took

\* The last write of a remove from a node that stays.
LEMMA ClearContent ==
    ASSUME IInv, CInv, NEW t \in Threads, NEW n, n = th[t].n, th[t].pc \in {"drop", "clear"}, Return(t, Null),
           UNCHANGED epocheVars, node' = [node EXCEPT ![n] = writeUnlock(removeKid(@, Symbol(t)))],
           NEW old \in Kid, old = getChild(node[n], Symbol(t)), store' = store \ {old}, NEW lost, Took(t, lost, {})
    PROVE  CInv'
<1>1. th[t].pc \in OwnsN
  BY DEF OwnsN
<1>2. /\ th[t].op = "remove" /\ Symbol(t) \in Symbols /\ Symbol(t) \in DOMAIN node[n].kids
      /\ th[t].par = 0 \/ (getCount(node[n]) # 2 /\ ~isUnderfull(node[n]))
      /\ old \in {MyLeaf(t), Null} /\ ~isInner(MyLeaf(t))
      /\ n # Root => th[t].par # 0
  BY RemoveAt
<1>3. n \in DOMAIN node /\ node[n] \in NodeRec /\ Free(node[n].word + 2) /\ node[n].word \in Nat
  BY <1>1, OwnIs
<1>4. PICK c \in CallRec : Go(t, c) /\ c.pc = "exit"
  BY ReturnIs
<1>5. PICK m : m = removeKid(node[n], Symbol(t))
  OBVIOUS
<1>6. ~isInner(Null) /\ ~isLeaf(Null) /\ Null \in Kid
  BY KidIs
<1>7. /\ m \in NodeRec /\ m.type = node[n].type /\ m.prefix = node[n].prefix /\ m.word = node[n].word
      /\ DOMAIN m.kids = DOMAIN node[n].kids \ {Symbol(t)}
      /\ \A o : getChild(m, o) = IF o = Symbol(t) THEN Null ELSE getChild(node[n], o)
  <2>1. PICK r, s, d : r = node[n] /\ s = Symbol(t) /\ d = Null
    OBVIOUS
  <2>2. r \in NodeRec /\ s \in Symbols /\ d \in Kid /\ m = removeKid(r, s)
    BY <1>2, <1>3, <1>5, <1>6, <2>1
  <2>3. m \in NodeRec /\ m.type = r.type /\ m.prefix = r.prefix /\ m.word = r.word
    BY ONLY <2>2, KidsSet
  <2>4. DOMAIN m.kids = DOMAIN r.kids \ {s} /\ \A o : getChild(m, o) = IF o = s THEN Null ELSE getChild(r, o)
    BY ONLY <2>2, KidsSet
  <2> QED
    BY <2>1, <2>3, <2>4
<1>8. PICK new : new = writeUnlock(m)
  OBVIOUS
<1>9. new \in NodeRec /\ new.word = node[n].word + 2 /\ new.type = node[n].type /\ new.prefix = node[n].prefix /\ new.kids = m.kids
  BY <1>7, <1>8, WordWrite
<1>10. \A o : getChild(new, o) = IF o = Symbol(t) THEN Null ELSE getChild(node[n], o)
  BY <1>7, <1>9 DEF getChild
<1>11. node' = [node EXCEPT ![n] = new]
  BY <1>5, <1>8
<1>12. n # Root => Branches(new)
  <2>1. n # Root => Branches(node[n])
    BY <1>3 DEF CInv, BranchInv
  <2> QED
    BY <1>2, <1>3, <1>7, <1>9, <2>1, StillBranches
<1>13. PICK k : k = Null /\ store' = (store \ {old}) \cup ({k} \ {Null})
  OBVIOUS
<1>16. PICK won : won = {} /\ Took(t, lost, won)
  OBVIOUS
<1>17. \A o : getChild(new, o) = IF o = Symbol(t) THEN k ELSE getChild(node[n], o)
  BY <1>10, <1>13
<1>18. k \in Kid /\ ~isInner(k) /\ ~isLeaf(k)
  BY <1>6, <1>13
<1>14. ~isObsolete(new.word) /\ node[n].word < new.word
  BY <1>3, <1>9 DEF Free
<1>15. ~isInner(old)
  BY <1>2, <1>6
<1>19. LeafSet(n, new, Symbol(t), old, k)
  BY <1>9, <1>14, <1>15, <1>17, <1>18 DEF LeafSet
<1>20. PICK s \in Symbols : s = Symbol(t)
  BY <1>2
<1>21. LeafSet(n, new, s, old, k)
  BY <1>19, <1>20
<1>22. th[t].pc \in {"put", "drop", "clear"} /\ (n # Root => Branches(new)) /\ (c.pc = "clear" => Aware(t)')
  BY <1>4, <1>12
<1>23. store' = (store \ {old}) \cup ({k} \ {Null})
  BY <1>13
<1>24. n \in DOMAIN node /\ new \in NodeRec /\ k \in Kid
  BY <1>3, <1>9, <1>18
<1>25. Took(t, lost, won)
  BY <1>16
<1> QED
  BY ONLY IInv, CInv, t \in Threads, n = th[t].n, UNCHANGED epocheVars, old \in Kid, c \in CallRec, s \in Symbols,
     <1>4, <1>11, <1>21, <1>22, <1>23, <1>24, <1>25, LeafWrite

\* remove from an N48: the index entry, cleared after the child.
LEMMA ClearIndexContent ==
    ASSUME IInv, CInv, NEW t \in Threads, ClearIndex(t) PROVE CInv'
<1>1. th[t].pc = "clear" /\ Return(t, Null) /\ store' = store /\ seen' = seen /\ UNCHANGED epocheVars
      /\ node' = [node EXCEPT ![th[t].n] = writeUnlock(removeKid(@, Symbol(t)))]
  BY DEF ClearIndex, Quiet
<1>2. getChild(node[th[t].n], Symbol(t)) = Null /\ Null \in Kid
  BY <1>1, RemoveAt, KidIs
<1>3. store' = store \ {Null}
  BY <1>1, StoredIs
<1>4. Took(t, {}, {})
  BY <1>1, ReturnIs, TookNothing
<1> QED
  BY <1>1, <1>2, <1>3, <1>4, ClearContent

\* An N48 clears the child first.
LEMMA DropContent ==
    ASSUME IInv, IInv', CInv, NEW t \in Threads, Drop(t) PROVE CInv'
<1>1. PICK n : n = th[t].n
  OBVIOUS
<1>2. th[t].pc = "drop" /\ th[t].pc \in OwnsN /\ Writes({MyLeaf(t)}, {}) /\ UNCHANGED epocheVars
  BY DEF Drop, OwnsN
<1>3. /\ th[t].op = "remove" /\ Symbol(t) \in Symbols /\ Symbol(t) \in DOMAIN node[n].kids /\ Plans(t)
      /\ th[t].par = 0 \/ (getCount(node[n]) # 2 /\ ~isUnderfull(node[n]))
      /\ getChild(node[n], Symbol(t)) = MyLeaf(t) /\ MyLeaf(t) \in Kid /\ ~isInner(MyLeaf(t))
      /\ th[t].todo = "drop" /\ th[t].child = MyLeaf(t)
  BY <1>1, <1>2, RemoveAt
<1>4. store' = store \ {MyLeaf(t)}
  BY <1>2 DEF Writes
<1>5. CASE node[n].type # 3
  <2>1. node' = [node EXCEPT ![n] = writeUnlock(removeKid(@, Symbol(t)))] /\ Return(t, Null)
    BY <1>1, <1>5 DEF Drop
  <2>2. Took(t, {MyLeaf(t)}, {})
    BY <1>2, <2>1, ReturnIs DEF Took, Writes
  <2> QED
    BY <1>1, <1>2, <1>3, <1>4, <2>1, <2>2, ClearContent
<1>6. CASE node[n].type = 3
  <2> DEFINE c == [th[t] EXCEPT !.pc = "clear"]
  <2>1. Go(t, c) /\ th[t] \in CallRec /\ node' = [node EXCEPT ![n] = change(@, Symbol(t), Null)]
    BY <1>1, <1>6, Knows DEF Drop, GoTo
  <2>2. /\ c \in CallRec /\ th'[t] = c /\ c.pc = "clear" /\ c.op = "remove" /\ c.key = th[t].key /\ c.tid = th[t].tid /\ c.n = n
        /\ c.level = th[t].level /\ c.child = th[t].child /\ c.todo = "drop" /\ c.par = th[t].par
    BY <1>1, <1>3, <2>1, NextCall DEF CallRec
  <2> HIDE DEF c
  <2>3. n \in DOMAIN node /\ node[n] \in NodeRec /\ ~isObsolete(node[n].word) /\ node[n].word \in Nat
    BY <1>1, <1>2, OwnIs
  <2>4. PICK new : new = change(node[n], Symbol(t), Null)
    OBVIOUS
  <2>5. ~isInner(Null) /\ ~isLeaf(Null) /\ Null \in Kid
    BY KidIs
  <2>6. /\ new \in NodeRec /\ new.type = node[n].type /\ new.prefix = node[n].prefix /\ new.word = node[n].word
        /\ DOMAIN new.kids = DOMAIN node[n].kids
        /\ \A o : getChild(new, o) = IF o = Symbol(t) THEN Null ELSE getChild(node[n], o)
    BY SMTT(30), ZenonT(30), <1>3, <2>3, <2>4, <2>5, KidsSet
  <2>7. node' = [node EXCEPT ![n] = new]
    BY <2>1, <2>4
  <2>8. Branches(node[n]) => Branches(new)
    BY <2>6 DEF Branches, getCount
  <2>9. Took(t, {MyLeaf(t)}, {})
    BY <1>2, <1>3, <2>2 DEF Took, Writes
  <2>10. Aware(t)'
    <3>1. Symbol(t)' = Symbol(t) /\ MyLeaf(t)' = MyLeaf(t)
      BY <2>2 DEF Symbol, MyLeaf
    <3>2. Plans(t)'
      BY <1>3, <2>2, <3>1 DEF Plans
    <3>3. getCount(new) = getCount(node[n]) /\ (isUnderfull(new) <=> isUnderfull(node[n]))
      BY <2>6 DEF getCount, isUnderfull
    <3>4. Stands(t, new)'
      BY <1>3, <2>2, <2>6, <3>1, <3>3 DEF Stands
    <3>5. node'[th'[t].n] = new
      BY <2>2, <2>3, <2>7 DEF IInv, TypeInv
    <3> QED
      BY <3>2, <3>4, <3>5 DEF Aware
  <2>11. n # Root => Branches(new)
    BY <2>3, <2>8 DEF CInv, BranchInv
  <2>12. PICK k : k = Null /\ store' = (store \ {MyLeaf(t)}) \cup ({k} \ {Null})
    BY <1>4
  <2>13. PICK won : won = {} /\ Took(t, {MyLeaf(t)}, won)
    BY <2>9
  <2>14. \A o : getChild(new, o) = IF o = Symbol(t) THEN k ELSE getChild(node[n], o)
    BY <2>6, <2>12
  <2>15. k \in Kid /\ ~isInner(k) /\ ~isLeaf(k)
    BY <2>5, <2>12
  <2>16. LeafSet(n, new, Symbol(t), MyLeaf(t), k)
    BY <1>3, <2>3, <2>6, <2>14, <2>15 DEF LeafSet
  <2> QED
    BY <1>1, <1>2, <1>3, <2>1, <2>2, <2>3, <2>6, <2>7, <2>10, <2>11, <2>12, <2>13, <2>15, <2>16, LeafWrite
<1> QED
  BY <1>5, <1>6

-----------------------------------------------------------------------------
(* Writes of nodes.                                                        *)

\* What a write that ends a call has to show: the labels of the new tree, and that the nodes have children enough.
LEMMA EndContent ==
    ASSUME IInv, CInv, NEW t \in Threads, Return(t, Null), Evolves(t), th[t].pc \in OwnsN,
           NEW lost, NEW won, store' = (store \ lost) \cup won,
           seen' = [u \in Threads |-> [held |-> seen[u].held \cup won, kept |-> seen[u].kept \ lost]],
           won # {} => won = {MyLeaf(t)} /\ th[t].op = "insert",
           NEW lab \in Labelings, LabelInv(lab), NEW lab2 \in Labelings, Relabels(t, lab, lab2),
           \A x \in DOMAIN node \ Held(t) : node'[x].prefix = node[x].prefix /\ (Linked(x)' => Linked(x)),
           \A x \in DOMAIN node' : x \notin DOMAIN node \/ x \in Held(t) =>
              Len(node'[x].prefix) <= lab2[x].low /\ (Linked(x)' => Fits(node'[x].prefix, lab2[x])),
           Ordered(View', lab2), Holds(View', store'), BranchInv'
    PROVE  CInv'
<1>1. PICK c \in CallRec : /\ Go(t, c) /\ c.pc = "exit" /\ c.op = th[t].op /\ c.key = th[t].key /\ th'[t] = c
                           /\ \A u \in Threads \ {t} : th'[u] = th[u]
  BY ReturnIs
<1>2. Pending(t, lab2)' /\ Finds(t, lab2)' /\ Aware(t)'
  BY <1>1 DEF Pending, Finds, Finder, Busy, Reading, Seeking, OwnsN, Aware, Deciding
<1>3. LabelInv(lab2)'
  BY <1>1, <1>2, LabelStep
<1>4. th[t].op \in {"insert", "remove"} /\ MyLeaf(t) \in Kid /\ MyLeaf(t)[2] = th[t].key /\ th[t].pc # "idle"
  BY OwnIs DEF OwnsN, MyLeaf, Leaf
<1>5. Took(t, lost, won)
  BY <1>1, <1>4 DEF Took
<1>6. th'[t].op # "lookup"
  BY <1>1, <1>4
<1> QED
  BY <1>1, <1>2, <1>3, <1>5, <1>6, ContentStep

\* setPrefix: the node below the new one gets the prefix of its label.
LEMMA setPrefixContent ==
    ASSUME IInv, CInv, NEW t \in Threads, setPrefix(t) PROVE CInv'
<1>1. PICK n : n = th[t].n
  OBVIOUS
<1>2. PICK q : q = SubSeq(node[n].prefix, th[t].hit + 2, Len(node[n].prefix))
  OBVIOUS
<1>3. /\ th[t].pc = "cut" /\ th[t].pc \in OwnsN /\ th[t].pc # "join" /\ Held(t) = {n} /\ Return(t, Null) /\ UNCHANGED epocheVars
      /\ store' = store /\ seen' = seen
  BY <1>1 DEF setPrefix, OwnsN, Held, Quiet
<1>4. n \in DOMAIN node /\ node[n] \in NodeRec /\ node[n].prefix \in Seq(Symbols) /\ th[t].hit \in Nat
      /\ node[n].word \in Nat /\ Free(node[n].word + 2) /\ ~isObsolete(node[n].word)
  BY <1>1, <1>3, OwnIs, NodeIs
<1>5. q \in Seq(Symbols) /\ (node[n].prefix = <<>> => q = <<>>)
  <2>1. \A i \in th[t].hit + 2 .. Len(node[n].prefix) : node[n].prefix[i] \in Symbols
    BY <1>4
  <2> QED
    BY <1>2, <1>4, <2>1, SubSeqProperties
<1>6. PICK m : m = [node[n] EXCEPT !.prefix = q]
  OBVIOUS
<1>7. m \in NodeRec /\ m.type = node[n].type /\ m.prefix = q /\ m.word = node[n].word /\ m.kids = node[n].kids
  BY <1>4, <1>5, <1>6 DEF NodeRec
<1>8. PICK new : new = writeUnlock(m)
  OBVIOUS
<1>9. new \in NodeRec /\ new.word = node[n].word + 2 /\ new.type = node[n].type /\ new.prefix = q /\ new.kids = node[n].kids
  BY <1>7, <1>8, WordWrite
<1>10. node' = [node EXCEPT ![n] = new]
  BY <1>1, <1>2, <1>6, <1>8 DEF setPrefix, Cut
<1>11. PICK c \in CallRec : Go(t, c) /\ c.pc = "exit"
  BY <1>3, ReturnIs
<1>12. /\ Evolves(t) /\ DOMAIN node' = DOMAIN node /\ node'[n] = new /\ \A y \in DOMAIN node \ {n} : node'[y] = node[y]
       /\ ~isObsolete(new.word)
  <2>1. \A s, o : InnerAt(new, s, o) => InnerAt(node[n], s, o)
    BY <1>9 DEF InnerAt
  <2>2. ~isObsolete(new.word) /\ node[n].word < new.word
    BY <1>4, <1>9 DEF Free
  <2> QED
    BY <1>3, <1>4, <1>5, <1>9, <1>10, <1>11, <2>1, <2>2, OneNode
<1>13. \A x : Linked(x)' <=> Linked(x)
  BY <1>3, <1>4, <1>11, <1>12, LinkedIs DEF Linked
<1>14. View' = View
  <2>1. \A x \in DOMAIN node : node'[x].kids = node[x].kids
    BY <1>9, <1>12
  <2>2. \A x \in DOMAIN node : \A s : getChild(node'[x], s) = getChild(node[x], s)
    BY <2>1 DEF getChild
  <2>3. {y \in DOMAIN node' : Linked(y)'} = {y \in DOMAIN node : Linked(y)}
    BY <1>12, <1>13
  <2> QED
    BY <2>2, <2>3 DEF View
<1>15. PICK lab \in Labelings : LabelInv(lab)
  BY DEF CInv
<1>16. Fits(q, lab[n]) /\ Len(q) <= lab[n].low
  <2>1. Fits(q, lab[n])
    BY <1>1, <1>2, <1>3, <1>15 DEF LabelInv, Pending
  <2>2. n \in Nat
    BY <1>4, Knows
  <2> QED
    BY <2>1, <2>2, LabelsAre DEF Fits
<1>17. Relabels(t, lab, lab)
  BY DEF Relabels
<1>18. Ordered(View', lab) /\ Holds(View', store')
  BY <1>3, <1>14, <1>15 DEF LabelInv
<1>19. BranchInv'
  <2>1. \A x \in DOMAIN node : node'[x].kids = node[x].kids /\ node'[x].type = node[x].type
    BY <1>9, <1>12
  <2>2. \A x \in DOMAIN node : Branches(node[x]) => Branches(node'[x])
    BY <2>1 DEF Branches, getCount
  <2> QED
    BY <1>12, <2>2 DEF CInv, BranchInv
<1>20. Took(t, {}, {})
  BY <1>3, ReturnIs, TookNothing
<1>21. PICK lost, won : lost = {} /\ won = {} /\ Took(t, lost, won)
  BY <1>20
<1>22. /\ \A x \in DOMAIN node \ Held(t) : node'[x].prefix = node[x].prefix /\ (Linked(x)' => Linked(x))
       /\ \A x \in DOMAIN node' : x \notin DOMAIN node \/ x \in Held(t) =>
              Len(node'[x].prefix) <= lab[x].low /\ (Linked(x)' => Fits(node'[x].prefix, lab[x]))
  BY <1>3, <1>9, <1>12, <1>13, <1>16
<1>23. /\ store' = (store \ lost) \cup won
       /\ seen' = [u \in Threads |-> [held |-> seen[u].held \cup won, kept |-> seen[u].kept \ lost]]
       /\ won # {} => won = {MyLeaf(t)} /\ th[t].op = "insert"
  BY <1>21 DEF Took
<1>24. Return(t, Null) /\ Evolves(t) /\ th[t].pc \in OwnsN
  BY <1>3, <1>12
<1> QED
  BY ONLY IInv, CInv, t \in Threads, lab \in Labelings, <1>15, <1>17, <1>18, <1>19, <1>22, <1>23, <1>24, EndContent

\* Where two keys differ first, and the symbols they share up to there.
LEMMA CommonFits ==
    ASSUME NEW j \in Keys, NEW k \in Keys, j # k, NEW level \in Nat, Shares(j, k, level)
    PROVE  \E low \in Nat :
              /\ level <= low /\ low < KeyLen /\ Shares(k, j, low) /\ k[low + 1] # j[low + 1]
              /\ Common(j, k, level) \in Seq(Symbols) /\ Len(Common(j, k, level)) = low - level
              /\ Fits(Common(j, k, level), [rep |-> k, top |-> level, low |-> low])
<1>1. KeyLen \in Nat \ {0}
  BY SymbolAssumption
<1>2. PICK D : D = {i \in level + 1 .. KeyLen : j[i] # k[i]}
  OBVIOUS
<1>3. PICK e \in 1 .. KeyLen : j[e] # k[e]
  BY SameKey DEF Shares
<1>4. e \in D
  <2>1. ~(e \in 1 .. level)
    BY <1>3 DEF Shares
  <2>2. e \in level + 1 .. KeyLen
    BY <1>1, <1>3, <2>1
  <2> QED
    BY <1>2, <1>3, <2>2
<1>5. PICK d : d = Min({KeyLen} \cup D)
  OBVIOUS
<1>6. d \in {KeyLen} \cup D /\ \A i \in {KeyLen} \cup D : d <= i
  <2>1. D \in SUBSET Nat
    BY <1>1, <1>2
  <2>2. {KeyLen} \cup D \in SUBSET Nat /\ {KeyLen} \cup D # {}
    BY <1>1, <2>1
  <2> QED
    BY <1>5, <2>2, MinIs
<1>7. d \in D
  <2>1. D \subseteq 1 .. KeyLen
    BY <1>1, <1>2
  <2>2. d <= e
    BY <1>4, <1>6
  <2>3. CASE d = KeyLen
    <3>1. e = KeyLen
      BY <1>1, <1>3, <2>2, <2>3
    <3> QED
      BY <1>4, <2>3, <3>1
  <2> QED
    BY <1>6, <2>3
<1>8. d \in level + 1 .. KeyLen /\ j[d] # k[d]
  BY <1>2, <1>7
<1>9. PICK low \in Nat : low = d - 1
  BY <1>1, <1>8
<1>10. level <= low /\ low < KeyLen /\ d = low + 1
  BY <1>1, <1>8, <1>9
<1>11. Shares(k, j, low)
  <2>1. ASSUME NEW i \in 1 .. low
        PROVE  k[i] = j[i]
    <3>1. CASE i \in 1 .. level
      BY <3>1 DEF Shares
    <3>2. CASE i \notin 1 .. level
      <4>1. i \in level + 1 .. KeyLen /\ ~(d <= i)
        BY <1>1, <1>10, <2>1, <3>2
      <4>2. i \notin D
        BY <1>6, <4>1
      <4> QED
        BY <1>2, <4>1, <4>2
    <3> QED
      BY <3>1, <3>2
  <2> QED
    BY <2>1 DEF Shares
<1>12. PICK p : p = SubSeq(k, level + 1, low)
  OBVIOUS
<1>13. p = Common(j, k, level)
  BY <1>2, <1>5, <1>9, <1>12 DEF Common
<1>14. p \in Seq(Symbols) /\ Len(p) = low - level /\ \A i \in 1 .. low - level : p[i] = k[level + i]
  <2>1. k \in Seq(Symbols) /\ Len(k) = KeyLen
    BY <1>1 DEF Keys
  <2>2. \A i \in level + 1 .. low : k[i] \in Symbols
    BY <1>1, <1>10 DEF Keys
  <2> QED
    BY <1>10, <1>12, <2>1, <2>2, SubSeqProperties
<1>15. Fits(p, [rep |-> k, top |-> level, low |-> low])
  BY <1>14 DEF Fits
<1> QED
  BY <1>8, <1>10, <1>11, <1>13, <1>14, <1>15

\* A new node of two.
LEMMA NewTwo ==
    ASSUME NEW p \in Seq(Symbols), NEW s \in Symbols, NEW o \in Symbols, s # o, NEW c \in Kid, NEW d \in Kid
    PROVE  LET q == NewNode(N4, p, Two(s, c, o, d))
           IN  /\ q \in NodeRec /\ q.prefix = p /\ q.word = FreshWord /\ ~isObsolete(q.word) /\ Branches(q)
               /\ \A x : getChild(q, x) = IF x = s THEN c ELSE IF x = o THEN d ELSE Null
<1>1. PICK f : f = Two(s, c, o, d)
  OBVIOUS
<1>2. f \in KidMaps
  BY <1>1, TwoIs
<1>3. DOMAIN f = {s, o} /\ f[s] = c /\ f[o] = d
  BY <1>1 DEF Two
<1>4. PICK q : q = NewNode(N4, p, f)
  OBVIOUS
<1>5. q \in NodeRec /\ q.type = N4 /\ q.prefix = p /\ q.kids = f /\ q.word = FreshWord
  <2>1. N4 \in N4 .. N256
    BY DEF N4, N256
  <2> QED
    BY <1>2, <1>4, <2>1, NewNodeIs
<1>6. \A x : getChild(q, x) = IF x = s THEN c ELSE IF x = o THEN d ELSE Null
  BY <1>3, <1>5 DEF getChild
<1>7. Branches(q)
  <2>1. Cardinality({s, o}) = 2
    <3>1. PICK S : S = {s} /\ IsFiniteSet(S) /\ Cardinality(S) = 1 /\ o \notin S
      BY FS_Singleton
    <3>2. Cardinality(S \cup {o}) = Cardinality(S) + 1
      BY <3>1, FS_AddElement
    <3>3. PICK T : T = S \cup {o}
      OBVIOUS
    <3>4. T = {s, o}
      BY <3>1, <3>3
    <3>5. Cardinality(T) = Cardinality(S) + 1
      BY ONLY <3>2, <3>3
    <3>6. 1 + 1 = 2
      OBVIOUS
    <3> QED
      BY ONLY <3>1, <3>4, <3>5, <3>6
  <2> QED
    BY <1>3, <1>5, <2>1 DEF Branches, getCount
<1>8. ~isObsolete(q.word)
  BY <1>5, WordIs DEF Free
<1> QED
  BY <1>1, <1>4, <1>5, <1>6, <1>7, <1>8

\* A step that puts a new node into the place of a child.
Grows(t, p, s, q) ==
    /\ p \in Held(t) /\ Linked(p) /\ s \in Symbols /\ s \in DOMAIN node[p].kids /\ th[t].pc # "join"
    /\ q \in NodeRec /\ ~isObsolete(q.word)
    /\ node' = [Alloc(q) EXCEPT ![p] = writeUnlock(change(@, s, Inner(Fresh)))]
    /\ \E c \in CallRec : Go(t, c) /\ c.pc # "join"

\* The children after a write that links a new node.
LEMMA ViewGrows ==
    ASSUME IInv, NEW t \in Threads, NEW p, NEW s, NEW q, Grows(t, p, s, q)
    PROVE  /\ Evolves(t) /\ Fresh \in Nat /\ Fresh \notin DOMAIN node /\ DOMAIN node' = DOMAIN node \cup {Fresh}
           /\ node'[Fresh] = q /\ \A x \in DOMAIN node \ {p} : node'[x] = node[x]
           /\ node'[p].prefix = node[p].prefix /\ node'[p].type = node[p].type /\ DOMAIN node'[p].kids = DOMAIN node[p].kids
           /\ \A x : Linked(x)' <=> Linked(x) \/ x = Fresh
           /\ Fresh \notin DOMAIN View
           /\ \E K2 : /\ K2 = View' /\ K2 \in KidFuns(DOMAIN View \cup {Fresh}) /\ Sets(View, K2, p, s, Inner(Fresh))
                      /\ \A o \in Symbols : K2[Fresh][o] = getChild(q, o)
<1>1. /\ p \in Held(t) /\ Linked(p) /\ s \in Symbols /\ s \in DOMAIN node[p].kids /\ th[t].pc # "join"
      /\ q \in NodeRec /\ ~isObsolete(q.word) /\ p \in DOMAIN node
      /\ node' = [Alloc(q) EXCEPT ![p] = writeUnlock(change(@, s, Inner(Fresh)))]
  BY DEF Grows, Linked
<1>2. PICK c \in CallRec : Go(t, c) /\ c.pc # "join"
  BY DEF Grows
<1>3. PICK m : m = change(node[p], s, Inner(Fresh))
  OBVIOUS
<1>4. PICK a : a = writeUnlock(m)
  OBVIOUS
<1>5. /\ node[p] \in NodeRec /\ Inner(Fresh) \in Kid /\ Fresh \in Nat /\ node[p].word \in Nat
      /\ isLocked(node[p].word) /\ ~isObsolete(node[p].word) /\ node' = [Alloc(q) EXCEPT ![p] = a]
  <2>1. Fresh \in Nat /\ Alloc(q)[p] = node[p]
    BY <1>1, AllocIs DEF IInv
  <2>2. node' = [Alloc(q) EXCEPT ![p] = a]
    BY <1>1, <1>3, <1>4, <2>1
  <2>3. node[p] \in NodeRec /\ isLocked(node[p].word) /\ ~isObsolete(node[p].word)
    BY <1>1, Knows DEF IInv, LockInv
  <2> QED
    BY <2>1, <2>2, <2>3, KidIs, NodeIs
<1>6. /\ m \in NodeRec /\ m.type = node[p].type /\ m.prefix = node[p].prefix /\ m.word = node[p].word
      /\ DOMAIN m.kids = DOMAIN node[p].kids
      /\ \A o : getChild(m, o) = IF o = s THEN Inner(Fresh) ELSE getChild(node[p], o)
  BY <1>1, <1>3, <1>5, KidsSet
<1>7. /\ a \in NodeRec /\ a.word = node[p].word + 2 /\ a.type = node[p].type /\ a.prefix = node[p].prefix /\ a.kids = m.kids
      /\ ~isObsolete(a.word)
  BY <1>4, <1>5, <1>6, WordWrite, WordIs DEF Free
<1>8. \A o : getChild(a, o) = IF o = s THEN Inner(Fresh) ELSE getChild(node[p], o)
  BY <1>6, <1>7 DEF getChild
<1>9. /\ Fresh \in Nat /\ Fresh \notin DOMAIN node /\ DOMAIN node' = DOMAIN node \cup {Fresh}
      /\ node'[Fresh] = q /\ node'[p] = a /\ \A x \in DOMAIN node \ {p} : node'[x] = node[x]
      /\ node' \in [DOMAIN node' -> NodeRec]
  <2>1. node' = [Alloc(q) EXCEPT ![p] = a]
    BY <1>5
  <2>2. p \in DOMAIN node /\ q \in NodeRec
    BY <1>1
  <2> QED
    BY ONLY IInv, <1>7, <2>1, <2>2, NewAndOld
<1>10. Evolves(t)
  <2>1. node[p].word < a.word
    BY <1>5, <1>7
  <2> QED
    BY <1>1, <1>9, <2>1 DEF Evolves
<1>11. \A x : Linked(x)' <=> Linked(x) \/ x = Fresh
  BY <1>1, <1>2, <1>10, <1>7, <1>9, LinkedIs DEF Linked
<1>12. PICK K2 : /\ K2 = View' /\ K2 \in KidFuns(DOMAIN K2)
                 /\ \A x : x \in DOMAIN K2 <=> Linked(x)'
                 /\ \A x \in DOMAIN K2 : x \in DOMAIN node' /\ \A o \in Symbols : K2[x][o] = getChild(node'[x], o)
  BY <1>9, ViewNext
<1>13. PICK K : /\ K = View /\ \A x : x \in DOMAIN K <=> Linked(x)
                /\ \A x \in DOMAIN K, o \in Symbols : K[x][o] = getChild(node[x], o)
  BY ViewIs
<1>14. DOMAIN K2 = DOMAIN K \cup {Fresh}
  BY <1>11, <1>12, <1>13
<1>15. Sets(K, K2, p, s, Inner(Fresh))
  <2>1. ASSUME NEW x \in DOMAIN K, NEW o \in Symbols
        PROVE  K2[x][o] = IF x = p /\ o = s THEN Inner(Fresh) ELSE K[x][o]
    <3>1. x \in DOMAIN K2 /\ x \in DOMAIN node
      BY <1>13, <1>14 DEF Linked
    <3>2. K2[x][o] = getChild(node'[x], o) /\ K[x][o] = getChild(node[x], o)
      BY <1>12, <1>13, <3>1
    <3>3. CASE x = p
      BY <1>8, <1>9, <3>2, <3>3
    <3>4. CASE x # p
      BY <1>9, <3>1, <3>2, <3>4
    <3> QED
      BY <3>3, <3>4
  <2> QED
    BY <2>1 DEF Sets
<1>16. \A o \in Symbols : K2[Fresh][o] = getChild(q, o)
  BY <1>12, <1>14, <1>9
<1>17. Fresh \notin DOMAIN K
  BY <1>13, <1>9 DEF Linked
<1>18. K2 \in KidFuns(DOMAIN K \cup {Fresh})
  BY <1>12, <1>14
<1>19. node'[p].prefix = node[p].prefix /\ node'[p].type = node[p].type /\ DOMAIN node'[p].kids = DOMAIN node[p].kids
  BY <1>6, <1>7, <1>9
<1> QED
  BY <1>10, <1>11, <1>9, <1>12, <1>13, <1>15, <1>16, <1>17, <1>18, <1>19

\* Children enough: the new node has, and the others keep theirs.
LEMMA BranchGrows ==
    ASSUME CInv, NEW p \in DOMAIN node, NEW q, Branches(q), DOMAIN node' = DOMAIN node \cup {Fresh}, node'[Fresh] = q,
           \A x \in DOMAIN node \ {p} : node'[x] = node[x],
           node'[p].type = node[p].type, DOMAIN node'[p].kids = DOMAIN node[p].kids
    PROVE  BranchInv'
<1>1. Branches(node[p]) => Branches(node'[p])
  BY DEF Branches, getCount
<1> QED
  BY <1>1 DEF CInv, BranchInv

\* A leaf in the way: the leaf's key is not the call's.
LEMMA ForkAt ==
    ASSUME IInv, CInv, NEW t \in Threads, th[t].pc = "fork", NEW lab \in Labelings, LabelInv(lab), NEW l, l = lab[th[t].n]
    PROVE  LET k == th[t].key
               old == th[t].child
           IN  /\ isLeaf(old) /\ old \in Kid /\ old[2] \in Keys /\ old[2] # k
               /\ Symbol(t) \in DOMAIN node[th[t].n].kids
               /\ Shares(old[2], k, l.low + 1)
<1>1. PICK k : k = th[t].key
  OBVIOUS
<1>2. PICK old : old = th[t].child
  OBVIOUS
<1>3. PICK n : n = th[t].n
  OBVIOUS
<1>4. PICK s : s = Symbol(t)
  OBVIOUS
<1>5. /\ l \in LabelRec /\ th[t].op = "insert" /\ k \in Keys /\ th[t].todo = "fork" /\ Shares(l.rep, k, l.low)
      /\ s = k[l.low + 1] /\ s \in Symbols /\ old = getChild(node[n], s) /\ Plans(t)
  BY <1>1, <1>2, <1>3, <1>4, InsertAt
<1>6. isLeaf(old)
  BY <1>2, <1>5 DEF Plans
<1>7. Linked(n) /\ node[n] \in NodeRec
  <2>1. th[t].pc \in OwnsN /\ th[t].pc # "join" /\ n \in Held(t)
    BY <1>3 DEF OwnsN, Held
  <2> QED
    BY <1>3, <2>1, HeldLinked, OwnIs
<1>8. PICK K : /\ K = View /\ n \in DOMAIN K /\ K[n][s] = old
  BY <1>5, <1>7, ViewIs
<1>9. LeafUnder(l, s, old) /\ old \in store
  BY <1>3, <1>5, <1>6, <1>8 DEF LabelInv, Ordered, Holds
<1>10. old \in Kid /\ old[2] \in Keys
  BY <1>6, <1>9, StoreIs, KidIs
<1>11. old[2] # k
  <2>1. ~HasKey(store, k)
    BY <1>1, <1>5 DEF CInv, CallsInv
  <2> QED
    BY <1>9, <2>1 DEF HasKey
<1>12. s \in DOMAIN node[n].kids
  <2>1. old # Null
    BY <1>6, KidIs
  <2> QED
    BY <1>5, <2>1 DEF getChild
<1>13. Shares(old[2], k, l.low + 1)
  <2>1. PICK j : j = old[2]
    OBVIOUS
  <2>2. Shares(l.rep, j, l.low) /\ j[l.low + 1] = k[l.low + 1] /\ l.low \in Nat
    BY <1>5, <1>9, <2>1, LabelIs DEF LeafUnder
  <2>3. Shares(j, k, l.low)
    BY <1>5, <2>2, SharesIs
  <2> QED
    BY <2>1, <2>2, <2>3, SharesIs
<1> QED
  BY <1>1, <1>2, <1>3, <1>4, <1>6, <1>10, <1>11, <1>12, <1>13

\* A leaf in the way: the new node has the symbols the two keys share as its prefix.
LEMMA ForkContent ==
    ASSUME IInv, CInv, NEW t \in Threads, Fork(t) PROVE CInv'
<1>1. PICK n, k, old, s, mine : n = th[t].n /\ k = th[t].key /\ old = th[t].child /\ s = Symbol(t) /\ mine = MyLeaf(t)
  OBVIOUS
<1>2. /\ th[t].pc = "fork" /\ th[t].pc \in OwnsN /\ th[t].pc # "join" /\ Held(t) = {n} /\ n \in Held(t)
      /\ UNCHANGED epocheVars /\ Return(t, Null) /\ Writes({}, {mine})
  BY <1>1 DEF Fork, OwnsN, Held
<1>3. PICK lab \in Labelings : LabelInv(lab)
  BY DEF CInv
<1>4. PICK l \in LabelRec : l = lab[n]
  BY <1>1, <1>2, <1>3, InsertAt
<1>5. /\ th[t].op = "insert" /\ k \in Keys /\ th[t].level = l.low /\ Shares(l.rep, k, l.low) /\ s = k[l.low + 1] /\ s \in Symbols
      /\ mine[2] = k /\ isLeaf(mine) /\ mine \in Kid /\ old = getChild(node[n], s)
  BY <1>1, <1>2, <1>3, <1>4, InsertAt
<1>6. isLeaf(old) /\ old \in Kid /\ old[2] \in Keys /\ old[2] # k /\ s \in DOMAIN node[n].kids /\ Shares(old[2], k, l.low + 1)
  BY <1>1, <1>2, <1>3, <1>4, ForkAt
<1>7. l.low \in Nat /\ l.low + 1 \in Nat /\ l.low < KeyLen /\ KeyLen \in Nat
  BY LabelIs
<1>8. PICK pre : pre = Common(old[2], k, l.low + 1)
  OBVIOUS
<1>9. PICK low \in Nat : /\ l.low + 1 <= low /\ low < KeyLen /\ Shares(k, old[2], low) /\ k[low + 1] # old[2][low + 1]
                         /\ pre \in Seq(Symbols) /\ Len(pre) = low - (l.low + 1)
                         /\ Fits(pre, [rep |-> k, top |-> l.low + 1, low |-> low])
  BY <1>5, <1>6, <1>7, <1>8, CommonFits
<1>10. PICK r, o : r = k[low + 1] /\ o = old[2][low + 1]
  OBVIOUS
<1>11. r \in Symbols /\ o \in Symbols /\ r # o
  <2>1. low + 1 \in 1 .. KeyLen
    BY <1>7, <1>9
  <2> QED
    BY <1>5, <1>6, <1>9, <1>10, <2>1 DEF Keys
<1>12. PICK q : q = NewNode(N4, pre, Two(r, mine, o, old))
  OBVIOUS
<1>13. /\ q \in NodeRec /\ q.prefix = pre /\ ~isObsolete(q.word) /\ Branches(q)
       /\ \A x : getChild(q, x) = IF x = r THEN mine ELSE IF x = o THEN old ELSE Null
  BY <1>5, <1>6, <1>9, <1>11, <1>12, NewTwo
<1>15. n \in DOMAIN node /\ node[n] \in NodeRec /\ Free(node[n].word + 2) /\ Linked(n)
  BY <1>1, <1>2, OwnIs, HeldLinked
<1>16. Fresh \in Nat /\ Fresh \notin DOMAIN node /\ Alloc(q)[n] = node[n]
  BY <1>13, <1>15, AllocIs DEF IInv
<1>18. node' = [Alloc(q) EXCEPT ![n] = writeUnlock(change(@, s, Inner(Fresh)))]
  <2>1. PICK at : at = l.low + 1 + Len(pre)
    OBVIOUS
  <2>2. at = low
    BY <1>7, <1>9, <2>1
  <2>4. At(k, at) = r /\ At(old[2], at) = o
    BY <1>9, <1>10, <2>2 DEF At
  <2>3. node' = [Alloc(NewNode(N4, pre, Two(At(k, at), mine, At(old[2], at), old)))
                    EXCEPT ![n] = writeUnlock(change(@, s, Inner(Fresh)))]
    BY <1>1, <1>5, <1>8, <2>1 DEF Fork
  <2> QED
    BY <1>12, <2>3, <2>4
<1>19. PICK c \in CallRec : Go(t, c) /\ c.pc # "join"
  BY <1>2, ReturnIs
<1>20. /\ Evolves(t) /\ DOMAIN node' = DOMAIN node \cup {Fresh}
       /\ node'[Fresh] = q /\ \A x \in DOMAIN node \ {n} : node'[x] = node[x]
       /\ node'[n].prefix = node[n].prefix /\ node'[n].type = node[n].type /\ DOMAIN node'[n].kids = DOMAIN node[n].kids
       /\ \A x : Linked(x)' <=> Linked(x) \/ x = Fresh
       /\ Fresh \notin DOMAIN View
       /\ \E K2 : /\ K2 = View' /\ K2 \in KidFuns(DOMAIN View \cup {Fresh}) /\ Sets(View, K2, n, s, Inner(Fresh))
                  /\ \A x \in Symbols : K2[Fresh][x] = getChild(q, x)
  <2>1. Grows(t, n, s, q)
    BY <1>2, <1>5, <1>6, <1>13, <1>15, <1>18, <1>19 DEF Grows
  <2>2. /\ Evolves(t) /\ DOMAIN node' = DOMAIN node \cup {Fresh}
        /\ node'[Fresh] = q /\ \A x \in DOMAIN node \ {n} : node'[x] = node[x]
        /\ node'[n].prefix = node[n].prefix /\ node'[n].type = node[n].type /\ DOMAIN node'[n].kids = DOMAIN node[n].kids
    BY ONLY IInv, t \in Threads, <2>1, ViewGrows
  <2>3. /\ \A x : Linked(x)' <=> Linked(x) \/ x = Fresh
        /\ Fresh \notin DOMAIN View
    BY ONLY IInv, t \in Threads, <2>1, ViewGrows
  <2>4. \E K2 : /\ K2 = View' /\ K2 \in KidFuns(DOMAIN View \cup {Fresh}) /\ Sets(View, K2, n, s, Inner(Fresh))
                /\ \A x \in Symbols : K2[Fresh][x] = getChild(q, x)
    BY ONLY IInv, t \in Threads, <2>1, ViewGrows
  <2> QED
    BY ONLY <2>2, <2>3, <2>4
<1>21. PICK K2 : /\ K2 = View' /\ K2 \in KidFuns(DOMAIN View \cup {Fresh}) /\ Sets(View, K2, n, s, Inner(Fresh))
                 /\ \A x \in Symbols : K2[Fresh][x] = getChild(q, x)
  BY <1>20
<1>22. PICK K : K = View
  OBVIOUS
<1>23. Tidy(K) /\ Ordered(K, lab) /\ Holds(K, store) /\ n \in DOMAIN K /\ K[n][s] = old
  BY <1>3, <1>5, <1>15, <1>22, ViewIs DEF LabelInv
<1>24. PICK lab2 : lab2 = [lab EXCEPT ![Fresh] = [rep |-> k, top |-> l.low + 1, low |-> low]]
  OBVIOUS
<1>25. \A x \in Symbols : K2[Fresh][x] = IF x = k[low + 1] THEN mine ELSE IF x = old[2][low + 1] THEN old ELSE Null
  BY <1>10, <1>13, <1>21
<1>26. lab2 \in Labelings /\ Ordered(K2, lab2) /\ Holds(K2, store \cup {mine})
  <2>1. PICK S : S = store
    OBVIOUS
  <2>2. PICK f : f = Fresh
    OBVIOUS
  <2>3. f \in Nat /\ f \notin DOMAIN K /\ K2 \in KidFuns(DOMAIN K \cup {f}) /\ Sets(K, K2, n, s, Inner(f))
        /\ lab2 = [lab EXCEPT ![f] = [rep |-> k, top |-> lab[n].low + 1, low |-> low]]
    BY <1>4, <1>16, <1>20, <1>21, <1>22, <1>24, <2>2
  <2>4. Tidy(K) /\ Ordered(K, lab) /\ Holds(K, S) /\ n \in DOMAIN K /\ K[n][s] = old
    BY <1>23, <2>1
  <2>5. /\ Shares(lab[n].rep, k, lab[n].low) /\ k[lab[n].low + 1] = s /\ lab[n].low + 1 <= low
        /\ \A x \in Symbols : K2[f][x] = IF x = k[low + 1] THEN mine ELSE IF x = old[2][low + 1] THEN old ELSE Null
    BY <1>4, <1>5, <1>9, <1>25, <2>2
  <2>6. k \in Keys /\ s \in Symbols /\ mine \in Kid /\ isLeaf(mine) /\ mine[2] = k /\ isLeaf(old)
    BY <1>5, <1>6
  <2>7. low \in Nat /\ low < KeyLen /\ Shares(k, old[2], low) /\ k[low + 1] # old[2][low + 1]
    BY <1>9
  <2>9. Fork2(K, K2, lab, lab2, n, s, old, mine, k, low, f)
    BY <2>3, <2>4, <2>5, <2>6, <2>7 DEF Fork2
  <2>8. lab2 \in Labelings /\ Ordered(K2, lab2) /\ Holds(K2, S \cup {mine})
    BY <2>4, <2>9, Forks
  <2> QED
    BY <2>1, <2>8
<1>27. \A x \in DOMAIN node : lab2[x] = lab[x] /\ x \in Nat
  BY <1>16, <1>24, Knows DEF Labelings
<1>28. lab2[Fresh] = [rep |-> k, top |-> l.low + 1, low |-> low]
  BY <1>16, <1>24 DEF Labelings
<1>29. Relabels(t, lab, lab2)
  BY <1>27 DEF Relabels
<1>30. ~Flux(n) /\ Fits(node[n].prefix, lab[n]) /\ Len(node[n].prefix) <= lab[n].low
  <2>1. ~Flux(n)
    BY <1>2, HeldFits
  <2> QED
    BY <1>3, <1>15, <2>1 DEF LabelInv, Spelled
<1>31. /\ \A x \in DOMAIN node \ Held(t) : node'[x].prefix = node[x].prefix /\ (Linked(x)' => Linked(x))
       /\ \A x \in DOMAIN node' : x \notin DOMAIN node \/ x \in Held(t) =>
              Len(node'[x].prefix) <= lab2[x].low /\ (Linked(x)' => Fits(node'[x].prefix, lab2[x]))
  <2>1. \A x \in DOMAIN node \ Held(t) : node'[x].prefix = node[x].prefix /\ (Linked(x)' => Linked(x))
    BY <1>2, <1>16, <1>20
  <2>2. Len(node'[n].prefix) <= lab2[n].low /\ Fits(node'[n].prefix, lab2[n])
    BY <1>15, <1>20, <1>27, <1>30
  <2>3. Len(node'[Fresh].prefix) <= lab2[Fresh].low /\ Fits(node'[Fresh].prefix, lab2[Fresh])
    BY <1>7, <1>9, <1>13, <1>20, <1>28
  <2> QED
    BY <1>2, <1>20, <2>1, <2>2, <2>3
<1>32. BranchInv'
  BY <1>13, <1>15, <1>20, BranchGrows
<1>33. PICK lost, won : lost = {} /\ won = {mine} /\ Writes(lost, won)
  BY <1>2
<1>34. /\ store' = (store \ lost) \cup won
       /\ seen' = [u \in Threads |-> [held |-> seen[u].held \cup won, kept |-> seen[u].kept \ lost]]
       /\ won # {} => won = {MyLeaf(t)} /\ th[t].op = "insert"
       /\ store' = store \cup {mine}
  BY <1>1, <1>5, <1>33 DEF Writes
<1>35. Ordered(View', lab2) /\ Holds(View', store')
  BY <1>21, <1>26, <1>34
<1>36. Return(t, Null) /\ Evolves(t) /\ th[t].pc \in OwnsN
  BY <1>2, <1>20
<1> QED
  BY ONLY IInv, CInv, t \in Threads, lab \in Labelings, <1>3, <1>26, <1>29, <1>31, <1>32, <1>34, <1>35, <1>36, EndContent

\* The parts of a prefix that does not match: the new node gets the first, the node keeps the last.
LEMMA PrefixParts ==
    ASSUME NEW l \in LabelRec, NEW p \in Seq(Symbols), Fits(p, l), NEW h \in Nat, h < Len(p), NEW low, low = l.top + h
    PROVE  /\ SubSeq(p, 1, h) \in Seq(Symbols) /\ Len(SubSeq(p, 1, h)) <= low
           /\ Fits(SubSeq(p, 1, h), [rep |-> l.rep, top |-> l.top, low |-> low])
           /\ Fits(SubSeq(p, h + 2, Len(p)), [rep |-> l.rep, top |-> low + 1, low |-> l.low])
<1>1. l.top \in Nat /\ l.low \in Nat
  BY LabelIs
<1>2. Len(p) = l.low - l.top /\ Len(p) \in Nat /\ \A i \in 1 .. Len(p) : p[i] = l.rep[l.top + i] /\ p[i] \in Symbols
  BY DEF Fits
<1>3. PICK a : a = SubSeq(p, 1, h)
  OBVIOUS
<1>4. PICK b : b = SubSeq(p, h + 2, Len(p))
  OBVIOUS
<1>5. a \in Seq(Symbols) /\ Len(a) = h /\ \A i \in 1 .. h : a[i] = p[i]
  <2>1. \A i \in 1 .. h : p[i] \in Symbols
    BY <1>2
  <2>2. /\ a \in Seq(Symbols) /\ Len(a) = IF 1 <= h THEN h - 1 + 1 ELSE 0
        /\ \A i \in 1 .. h - 1 + 1 : a[i] = p[1 + i - 1]
    BY <1>3, <2>1, SubSeqProperties
  <2> QED
    BY <2>2
<1>6. Len(b) = Len(p) - h - 1 /\ \A i \in 1 .. Len(b) : b[i] = p[h + 1 + i]
  <2>1. \A i \in h + 2 .. Len(p) : p[i] \in Symbols
    BY <1>2
  <2>2. /\ Len(b) = IF h + 2 <= Len(p) THEN Len(p) - (h + 2) + 1 ELSE 0
        /\ \A i \in 1 .. Len(p) - (h + 2) + 1 : b[i] = p[(h + 2) + i - 1]
    BY <1>2, <1>4, <2>1, SubSeqProperties
  <2>3. Len(b) = Len(p) - h - 1
    BY <1>2, <2>2
  <2>4. ASSUME NEW i \in 1 .. Len(b)
        PROVE  b[i] = p[h + 1 + i]
    <3>1. i \in 1 .. Len(p) - (h + 2) + 1 /\ (h + 2) + i - 1 = h + 1 + i
      BY <1>2, <2>3, <2>4
    <3> QED
      BY <2>2, <3>1
  <2> QED
    BY <2>3, <2>4
<1>7. Fits(a, [rep |-> l.rep, top |-> l.top, low |-> low])
  <2>1. \A i \in 1 .. h : a[i] = l.rep[l.top + i]
    BY <1>2, <1>5
  <2> QED
    BY <1>1, <1>5, <2>1 DEF Fits
<1>8. Fits(b, [rep |-> l.rep, top |-> low + 1, low |-> l.low])
  <2>1. ASSUME NEW i \in 1 .. Len(b)
        PROVE  b[i] = l.rep[low + 1 + i]
    <3>1. h + 1 + i \in 1 .. Len(p) /\ l.top + (h + 1 + i) = low + 1 + i
      BY SMTT(30), ZenonT(30), <1>1, <1>2, <1>6, <2>1
    <3> QED
      BY <1>2, <1>6, <2>1, <3>1
  <2>2. Len(b) = l.low - (low + 1)
    BY <1>1, <1>2, <1>6
  <2> QED
    BY <2>1, <2>2 DEF Fits
<1> QED
  BY <1>1, <1>3, <1>4, <1>5, <1>7, <1>8

\* A prefix that differs: where the new node goes.
LEMMA SplitAt ==
    ASSUME IInv, CInv, NEW t \in Threads, th[t].pc = "split", NEW lab \in Labelings, LabelInv(lab),
           NEW l, l = lab[th[t].n], NEW p, p = node[th[t].n].prefix, NEW k, k = th[t].key,
           NEW h, h = th[t].hit, NEW low, low = l.top + h
    PROVE  /\ l \in LabelRec /\ k \in Keys /\ th[t].op = "insert" /\ th[t].todo = "split" /\ th[t].level = l.top
           /\ p \in Seq(Symbols) /\ Fits(p, l) /\ h \in Nat /\ h < Len(p) /\ low \in Nat /\ l.top <= low /\ low < l.low
           /\ Shares(l.rep, k, low) /\ k[low + 1] # l.rep[low + 1] /\ At(k, th[t].level + h) = k[low + 1]
           /\ p[h + 1] = l.rep[low + 1] /\ k[low + 1] \in Symbols /\ l.rep[low + 1] \in Symbols
           /\ Linked(th[t].n) /\ Plans(t) /\ Came(t, lab)
<1>1. th[t].pc \in OwnsN /\ th[t].pc \in OwnsP /\ th[t].pc \in Deciding /\ th[t].n \in Held(t) /\ th[t].pc \notin {"cut", "join"}
  BY DEF OwnsN, OwnsP, Deciding, Held
<1>2. /\ th[t].n \in DOMAIN node /\ th[t].n \in Nat /\ k \in Keys /\ Busy(t) /\ node[th[t].n] \in NodeRec
      /\ th[t].par # 0
  BY <1>1, OwnIs, Knows DEF Local, Doing
<1>3. Plans(t) /\ Stands(t, node[th[t].n])
  BY <1>1 DEF CInv, Aware, Valid
<1>4. th[t].todo = "split" /\ th[t].op = "insert" /\ h = Agrees(p, k, th[t].level) /\ h < Len(p)
  BY <1>3 DEF Plans, Stands
<1>5. Linked(th[t].n) /\ Fits(p, l)
  <2>1. Linked(th[t].n) /\ ~Flux(th[t].n)
    BY <1>1, HeldFits
  <2> QED
    BY <1>2, <2>1 DEF LabelInv, Spelled
<1>6. th[t].level = l.top /\ Shares(l.rep, k, l.top) /\ Came(t, lab)
  <2>1. Finder(t) /\ Entry(t) /\ VouchedP(t)
    BY <1>1, <1>2, <1>4 DEF Finder, Entry, VouchedP, ValidP
  <2> QED
    BY <2>1, Arrives DEF LabelInv, Finds
<1>7. l \in LabelRec /\ p \in Seq(Symbols) /\ l.top \in Nat /\ l.low \in Nat /\ l.low < KeyLen /\ l.rep \in Keys /\ KeyLen \in Nat
  BY <1>2, LabelsAre, NodeIs
<1>8. /\ h \in Nat /\ h < Len(p) /\ Shares(l.rep, k, l.top + h) /\ k[l.top + h + 1] # l.rep[l.top + h + 1] /\ l.top + h < l.low
      /\ At(k, l.top + h) = k[l.top + h + 1] /\ p[h + 1] = l.rep[l.top + h + 1]
  <2>1. h = Agrees(p, k, l.top) /\ h # Len(p)
    BY SMTT(30), ZenonT(30), <1>4, <1>6, <1>7
  <2> QED
    BY ONLY <1>2, <1>5, <1>6, <1>7, <2>1, PrefixTells
<1>9. low \in Nat /\ l.top <= low /\ low + 1 \in 1 .. KeyLen
  BY SMTT(30), ZenonT(30), <1>7, <1>8
<1>10. k[low + 1] \in Symbols /\ l.rep[low + 1] \in Symbols
  BY <1>2, <1>7, <1>9 DEF Keys
<1> QED
  BY <1>2, <1>3, <1>4, <1>5, <1>6, <1>7, <1>8, <1>9, <1>10

\* insertSplit at the first symbol of a prefix that differs: the new node has the symbols before it as its prefix.
LEMMA SplitContent ==
    ASSUME IInv, CInv, NEW t \in Threads, Split(t) PROVE CInv'
<1>1. PICK n, p, k, h, mine, s : /\ n = th[t].n /\ p = th[t].par /\ k = th[t].key /\ h = th[t].hit /\ mine = MyLeaf(t)
                                 /\ s = th[t].pkey
  OBVIOUS
<1>2. /\ th[t].pc = "split" /\ th[t].pc \in OwnsN /\ th[t].pc \in OwnsP /\ th[t].pc \notin {"cut", "join"} /\ Held(t) = {p, n}
      /\ UNCHANGED epocheVars /\ GoTo(t, "cut") /\ Writes({}, {mine})
  BY <1>1 DEF Split, OwnsN, OwnsP, Held
<1>3. PICK lab \in Labelings : LabelInv(lab)
  BY DEF CInv
<1>4. PICK l, pre, low : l = lab[n] /\ pre = node[n].prefix /\ low = l.top + h
  OBVIOUS
<1>5. /\ l \in LabelRec /\ k \in Keys /\ th[t].op = "insert" /\ th[t].todo = "split" /\ th[t].level = l.top
      /\ pre \in Seq(Symbols) /\ Fits(pre, l) /\ h \in Nat /\ h < Len(pre) /\ low \in Nat /\ l.top <= low /\ low < l.low
      /\ Shares(l.rep, k, low) /\ k[low + 1] # l.rep[low + 1] /\ At(k, th[t].level + h) = k[low + 1]
      /\ pre[h + 1] = l.rep[low + 1] /\ k[low + 1] \in Symbols /\ l.rep[low + 1] \in Symbols
      /\ Linked(n) /\ Plans(t) /\ Came(t, lab)
  <2>1. l = lab[th[t].n] /\ pre = node[th[t].n].prefix /\ k = th[t].key /\ h = th[t].hit /\ low = l.top + h
    BY ONLY <1>1, <1>4
  <2>2. th[t].pc = "split"
    BY ONLY <1>2
  <2>3. /\ l \in LabelRec /\ k \in Keys /\ th[t].op = "insert" /\ th[t].todo = "split" /\ th[t].level = l.top
        /\ pre \in Seq(Symbols) /\ Fits(pre, l) /\ h \in Nat /\ h < Len(pre) /\ low \in Nat /\ l.top <= low /\ low < l.low
    BY ONLY IInv, CInv, t \in Threads, <1>3, <2>1, <2>2, SplitAt
  <2>4. /\ Shares(l.rep, k, low) /\ k[low + 1] # l.rep[low + 1] /\ At(k, th[t].level + h) = k[low + 1]
        /\ pre[h + 1] = l.rep[low + 1] /\ k[low + 1] \in Symbols /\ l.rep[low + 1] \in Symbols
    BY ONLY SMTT(30), ZenonT(30), IInv, CInv, t \in Threads, <1>3, <2>1, <2>2, SplitAt
  <2>5. Linked(th[t].n) /\ Plans(t) /\ Came(t, lab)
    BY ONLY IInv, CInv, t \in Threads, <1>3, <2>1, <2>2, SplitAt
  <2> QED
    BY ONLY <1>1, <2>3, <2>4, <2>5
<1>6. /\ SubSeq(pre, 1, h) \in Seq(Symbols) /\ Len(SubSeq(pre, 1, h)) <= low
      /\ Fits(SubSeq(pre, 1, h), [rep |-> l.rep, top |-> l.top, low |-> low])
      /\ Fits(SubSeq(pre, h + 2, Len(pre)), [rep |-> l.rep, top |-> low + 1, low |-> l.low])
  BY <1>4, <1>5, PrefixParts
<1>7. /\ p \in DOMAIN node /\ node[p] \in NodeRec /\ Linked(p) /\ s \in DOMAIN node[p].kids /\ s \in Symbols
      /\ getChild(node[p], s) = Inner(n) /\ n # p /\ n \in DOMAIN node /\ n \in Nat /\ p \in Nat
      /\ mine \in Kid /\ isLeaf(mine) /\ mine[2] = k /\ p \in Held(t) /\ n \in Held(t)
  <2>1. /\ p \in DOMAIN node /\ node[p] \in NodeRec /\ Linked(p) /\ s \in DOMAIN node[p].kids /\ s \in Symbols /\ KidAt(node, p, s, n)
        /\ p \in Held(t)
    BY <1>1, <1>2, OwnPIs
  <2>2. getChild(node[p], s) = Inner(n)
    BY <2>1, GetChildIs DEF KidAt
  <2>3. n # p /\ n \in DOMAIN node /\ n \in Nat /\ p \in Nat /\ mine \in Kid
    BY <1>1, <1>2, <2>1, Knows DEF Local, Doing
  <2>4. isLeaf(mine) /\ mine[2] = k
    BY <1>1, KidIs DEF MyLeaf, Leaf
  <2> QED
    BY <1>2, <2>1, <2>2, <2>3, <2>4
<1>8. PICK q : q = NewNode(N4, SubSeq(pre, 1, h), Two(k[low + 1], mine, l.rep[low + 1], Inner(n)))
  OBVIOUS
<1>9. /\ q \in NodeRec /\ q.prefix = SubSeq(pre, 1, h) /\ ~isObsolete(q.word) /\ Branches(q)
      /\ \A x : getChild(q, x) = IF x = k[low + 1] THEN mine ELSE IF x = l.rep[low + 1] THEN Inner(n) ELSE Null
  <2>1. PICK r, o, inner, sub : r = k[low + 1] /\ o = l.rep[low + 1] /\ inner = Inner(n) /\ sub = SubSeq(pre, 1, h)
    OBVIOUS
  <2>2. inner \in Kid /\ sub \in Seq(Symbols) /\ r \in Symbols /\ o \in Symbols /\ r # o
    BY <1>5, <1>6, <1>7, <2>1, KidIs
  <2>3. q = NewNode(N4, sub, Two(r, mine, o, inner)) /\ mine \in Kid
    BY <1>7, <1>8, <2>1
  <2>4. /\ q \in NodeRec /\ q.prefix = sub /\ ~isObsolete(q.word) /\ Branches(q)
        /\ \A x : getChild(q, x) = IF x = r THEN mine ELSE IF x = o THEN inner ELSE Null
    BY ONLY <2>2, <2>3, NewTwo
  <2> QED
    BY <2>1, <2>4
<1>10. node' = [Alloc(q) EXCEPT ![p] = writeUnlock(change(@, s, Inner(Fresh)))]
  BY <1>1, <1>4, <1>5, <1>8 DEF Split
<1>11. PICK c \in CallRec : /\ Go(t, c) /\ c.pc = "cut" /\ th'[t] = c /\ \A u \in Threads \ {t} : th'[u] = th[u]
                            /\ c.n = n /\ c.par = p /\ c.pkey = s /\ c.key = k /\ c.op = "insert" /\ c.todo = "split" /\ c.hit = h
  <2> DEFINE c == [th[t] EXCEPT !.pc = "cut"]
  <2>1. "cut" \in OwnsN
    BY DEF OwnsN
  <2>2. c \in CallRec /\ Go(t, c) /\ c.pc = "cut" /\ th[t] \in CallRec
    BY <1>2, <2>1, GoToIs, Knows
  <2>3. c.n = n /\ c.par = p /\ c.pkey = s /\ c.key = k /\ c.op = "insert" /\ c.todo = "split" /\ c.hit = h
    BY <1>1, <1>5, <2>2
  <2> HIDE DEF c
  <2> QED
    BY <2>2, <2>3, GoIs DEF IInv
<1>12. /\ Evolves(t) /\ Fresh \in Nat /\ Fresh \notin DOMAIN node /\ DOMAIN node' = DOMAIN node \cup {Fresh}
       /\ node'[Fresh] = q /\ \A x \in DOMAIN node \ {p} : node'[x] = node[x]
       /\ node'[p].prefix = node[p].prefix /\ node'[p].type = node[p].type /\ DOMAIN node'[p].kids = DOMAIN node[p].kids
       /\ \A x : Linked(x)' <=> Linked(x) \/ x = Fresh
       /\ Fresh \notin DOMAIN View
       /\ \E K2 : /\ K2 = View' /\ K2 \in KidFuns(DOMAIN View \cup {Fresh}) /\ Sets(View, K2, p, s, Inner(Fresh))
                  /\ \A x \in Symbols : K2[Fresh][x] = getChild(q, x)
  <2>1. Grows(t, p, s, q)
    BY <1>2, <1>7, <1>9, <1>10, <1>11 DEF Grows
  <2> QED
    BY <2>1, ViewGrows
<1>13. PICK K2 : /\ K2 = View' /\ K2 \in KidFuns(DOMAIN View \cup {Fresh}) /\ Sets(View, K2, p, s, Inner(Fresh))
                 /\ \A x \in Symbols : K2[Fresh][x] = getChild(q, x)
  BY <1>12
<1>14. PICK K : K = View
  OBVIOUS
<1>15. Tidy(K) /\ Ordered(K, lab) /\ Holds(K, store) /\ p \in DOMAIN K /\ K[p][s] = Inner(n)
  BY <1>3, <1>7, <1>14, ViewIs DEF LabelInv
<1>16. PICK a, b : a = [rep |-> l.rep, top |-> l.top, low |-> low] /\ b = [rep |-> l.rep, top |-> low + 1, low |-> l.low]
  OBVIOUS
<1>17. PICK lab2 : lab2 = [lab EXCEPT ![Fresh] = a, ![n] = b]
  OBVIOUS
<1>18. lab2 \in Labelings /\ Ordered(K2, lab2) /\ Holds(K2, store \cup {mine})
  <2>1. Split2(K, K2, lab, lab2, p, s, n, mine, k, low, Fresh)
    <3>1. lab2 = [lab EXCEPT ![Fresh] = [rep |-> lab[n].rep, top |-> lab[n].top, low |-> low],
                             ![n] = [rep |-> lab[n].rep, top |-> low + 1, low |-> lab[n].low]]
      BY <1>4, <1>16, <1>17
    <3>2. \A o \in Symbols : K2[Fresh][o] = IF o = k[low + 1] THEN mine ELSE IF o = lab[n].rep[low + 1] THEN Inner(n) ELSE Null
      BY <1>4, <1>9, <1>13
    <3>3. lab[n].top <= low /\ low < lab[n].low /\ Shares(lab[n].rep, k, low) /\ k[low + 1] # lab[n].rep[low + 1]
      BY <1>4, <1>5
    <3>4. Fresh \in Nat /\ Fresh \notin DOMAIN K /\ K2 \in KidFuns(DOMAIN K \cup {Fresh}) /\ Sets(K, K2, p, s, Inner(Fresh))
      BY <1>12, <1>13, <1>14
    <3> QED
      BY ONLY <1>5, <1>7, <1>15, <3>1, <3>2, <3>3, <3>4 DEF Split2
  <2> QED
    BY <1>15, <2>1, Splits
<1>19. lab2[n] = b /\ lab2[Fresh] = a /\ \A x \in DOMAIN node \ {n} : lab2[x] = lab[x]
  BY <1>7, <1>12, <1>17, Knows DEF Labelings
<1>20. Relabels(t, lab, lab2)
  BY <1>2, <1>4, <1>16, <1>19 DEF Relabels
<1>21. /\ \A x \in DOMAIN node \ Held(t) : node'[x].prefix = node[x].prefix /\ (Linked(x)' => Linked(x))
       /\ \A x \in DOMAIN node' : x \notin DOMAIN node \/ x \in Held(t) =>
              Len(node'[x].prefix) <= lab2[x].low /\ (Linked(x)' => FluxOf(t, x)' \/ Fits(node'[x].prefix, lab2[x]))
  <2>1. \A x \in DOMAIN node \ Held(t) : node'[x].prefix = node[x].prefix /\ (Linked(x)' => Linked(x))
    BY <1>2, <1>12
  <2>2. Len(node'[n].prefix) <= lab2[n].low /\ FluxOf(t, n)'
    <3>1. Len(node[n].prefix) <= lab[n].low /\ node'[n] = node[n]
      BY <1>3, <1>7, <1>12 DEF LabelInv, Spelled
    <3>2. lab2[n].low = lab[n].low
      BY <1>4, <1>16, <1>19
    <3> QED
      BY <1>11, <3>1, <3>2 DEF FluxOf
  <2>3. Len(node'[p].prefix) <= lab2[p].low /\ Fits(node'[p].prefix, lab2[p])
    <3>1. ~Flux(p)
      BY <1>2, <1>7, HeldFits
    <3>2. Len(node[p].prefix) <= lab[p].low /\ Fits(node[p].prefix, lab[p])
      BY <1>3, <1>7, <3>1 DEF LabelInv, Spelled
    <3> QED
      BY <1>7, <1>12, <1>19, <3>2
  <2>4. Len(node'[Fresh].prefix) <= lab2[Fresh].low /\ Fits(node'[Fresh].prefix, lab2[Fresh])
    <3>1. PICK sub : sub = SubSeq(pre, 1, h)
      OBVIOUS
    <3>2. Len(sub) <= low /\ Fits(sub, a) /\ a.low = low
      BY <1>6, <1>16, <3>1
    <3>3. node'[Fresh].prefix = sub /\ lab2[Fresh] = a
      BY <1>9, <1>12, <1>19, <3>1
    <3> QED
      BY <3>2, <3>3
  <2> QED
    BY <1>2, <1>12, <2>1, <2>2, <2>3, <2>4
<1>22. Pending(t, lab2)'
  BY <1>4, <1>6, <1>7, <1>11, <1>12, <1>16, <1>19 DEF Pending
<1>23. Finds(t, lab2)'
  <2>1. lab2[p] = lab[p] /\ p # 0
    BY <1>1, <1>2, <1>7, <1>19, Knows
  <2>2. Came(t, lab2)'
    BY <1>1, <1>5, <1>11, <2>1 DEF Came, Entry
  <2>3. ~Sure(t)'
    BY <1>11 DEF Sure
  <2> QED
    BY <1>11, <2>2, <2>3 DEF Finds
<1>24. Aware(t)'
  BY <1>11 DEF Aware, Plans, Stands
<1>25. BranchInv'
  BY <1>7, <1>9, <1>12, BranchGrows
<1>26. PICK lost, won : lost = {} /\ won = {mine} /\ Writes(lost, won)
  BY <1>2
<1>27. Took(t, lost, won) /\ store' = store \cup {mine}
  BY <1>1, <1>2, <1>5, <1>7, <1>11, <1>26 DEF Took, Writes
<1>28. LabelInv(lab2)'
  BY <1>3, <1>11, <1>12, <1>13, <1>18, <1>20, <1>21, <1>22, <1>23, <1>27, LabelStep
<1> QED
  BY <1>11, <1>12, <1>18, <1>24, <1>25, <1>27, <1>28, ContentStep

\* Children with one set.
LEMMA SetKid ==
    ASSUME NEW K, Tidy(K), NEW n, NEW s, NEW c \in Kid
    PROVE  \E K1 \in KidFuns(DOMAIN K) : Sets(K, K1, n, s, c)
<1>1. PICK K1 : K1 = [x \in DOMAIN K |-> [o \in Symbols |-> IF x = n /\ o = s THEN c ELSE K[x][o]]]
  OBVIOUS
<1>2. \A x \in DOMAIN K, o \in Symbols : K[x][o] \in Kid
  BY DEF Tidy
<1>3. K1 \in KidFuns(DOMAIN K)
  BY <1>1, <1>2 DEF KidFuns
<1>4. Sets(K, K1, n, s, c)
  BY <1>1 DEF Sets
<1> QED
  BY <1>3, <1>4

\* A node is replaced: its parent has the new node, and the old one is out.
Swaps(K, K2, p, s, n, c) == \A x \in DOMAIN K \ {n}, o \in Symbols : K2[x][o] = IF x = p /\ o = s THEN c ELSE K[x][o]
Replaces(t, p, s, n, q) ==
    /\ th[t].pc \in {"grow", "shrink"} /\ q \in NodeRec /\ q.word = FreshWord /\ Replace(t, q)
    /\ p = th[t].par /\ s = th[t].pkey /\ n = th[t].n

\* The children after a write that puts a copy in the place of a node.
LEMMA ViewReplaces ==
    ASSUME IInv, NEW t \in Threads, NEW p, NEW s, NEW n, NEW q, Replaces(t, p, s, n, q)
    PROVE  /\ Evolves(t) /\ Fresh \in Nat /\ Fresh \notin DOMAIN node /\ DOMAIN node' = DOMAIN node \cup {Fresh}
           /\ p \in DOMAIN View /\ n \in DOMAIN View /\ p # n /\ s \in Symbols /\ View[p][s] = Inner(n) /\ Fresh \notin DOMAIN View
           /\ n # Root
           /\ node'[Fresh] = q /\ \A x \in DOMAIN node : x = p \/ x = n \/ node'[x] = node[x]
           /\ \A x \in DOMAIN node : /\ node'[x].prefix = node[x].prefix /\ node'[x].type = node[x].type
                                     /\ DOMAIN node'[x].kids = DOMAIN node[x].kids
           /\ \A x : Linked(x)' <=> (Linked(x) /\ x # n) \/ x = Fresh
           /\ \E K2 : /\ K2 = View' /\ K2 \in KidFuns(DOMAIN K2) /\ \A x : x \in DOMAIN K2 <=> (x \in DOMAIN View /\ x # n) \/ x = Fresh
                      /\ Swaps(View, K2, p, s, n, Inner(Fresh))
                      /\ \A o \in Symbols : K2[Fresh][o] = getChild(q, o)
<1> USE DEF Replaces
<1>1. th[t].pc \in OwnsN /\ th[t].pc \in OwnsP /\ th[t].pc # "join" /\ Held(t) = {p, n}
  BY DEF OwnsN, OwnsP, Held
<1>2. /\ p \in DOMAIN node /\ node[p] \in NodeRec /\ Linked(p) /\ node[p].word \in Nat /\ Free(node[p].word + 2)
      /\ KidAt(node, p, s, n) /\ s \in DOMAIN node[p].kids /\ n # Root /\ s \in Symbols /\ ~isObsolete(node[p].word)
  BY <1>1, OwnPIs
<1>3. /\ n \in DOMAIN node /\ node[n] \in NodeRec /\ node[n].word \in Nat /\ n # p
      /\ ~isLocked(node[n].word + 3) /\ isObsolete(node[n].word + 3) /\ Linked(n)
  <2>1. n # p
    BY <1>1, Knows DEF Local, Doing
  <2>2. Linked(n)
    BY <1>1, HeldLinked
  <2> QED
    BY <1>1, <2>1, <2>2, OwnIs
<1>4. Fresh \in Nat /\ Fresh \notin DOMAIN node /\ Inner(Fresh) \in Kid
  BY AllocIs, KidIs DEF IInv
<1>5. PICK m : m = change(node[p], s, Inner(Fresh))
  OBVIOUS
<1>6. /\ m \in NodeRec /\ m.type = node[p].type /\ m.prefix = node[p].prefix /\ m.word = node[p].word
      /\ DOMAIN m.kids = DOMAIN node[p].kids
      /\ \A o : getChild(m, o) = IF o = s THEN Inner(Fresh) ELSE getChild(node[p], o)
  BY SMTT(30), ZenonT(30), <1>2, <1>4, <1>5, KidsSet
<1>7. PICK a, b : a = writeUnlock(m) /\ b = writeUnlockObsolete(node[n])
  OBVIOUS
<1>8. /\ a \in NodeRec /\ a.word = node[p].word + 2 /\ a.type = node[p].type /\ a.prefix = node[p].prefix /\ a.kids = m.kids
      /\ ~isObsolete(a.word)
      /\ b \in NodeRec /\ b.word = node[n].word + 3 /\ b.type = node[n].type /\ b.prefix = node[n].prefix /\ b.kids = node[n].kids
      /\ isObsolete(b.word)
  BY <1>2, <1>3, <1>6, <1>7, WordWrite DEF Free
<1>9. \A o : getChild(a, o) = IF o = s THEN Inner(Fresh) ELSE getChild(node[p], o)
  BY <1>6, <1>8 DEF getChild
<1>10. /\ Return(t, Null) /\ DOMAIN node' = DOMAIN node \cup {Fresh} /\ node'[Fresh] = q /\ node'[p] = a /\ node'[n] = b
       /\ \A x \in DOMAIN node : x = p \/ x = n \/ node'[x] = node[x]
       /\ ~isObsolete(q.word) /\ node' \in [DOMAIN node' -> NodeRec]
  <2>1. PICK A : A = Alloc(q)
    OBVIOUS
  <2>2. A \in [DOMAIN node \cup {Fresh} -> NodeRec] /\ A[Fresh] = q /\ \A x \in DOMAIN node : A[x] = node[x]
    BY <2>1, AllocIs DEF IInv
  <2>3. node' = [A EXCEPT ![p] = writeUnlock(change(@, s, Inner(Fresh))), ![n] = writeUnlockObsolete(@)] /\ Return(t, Null)
    BY <2>1 DEF Replace
  <2>4. node' = [A EXCEPT ![p] = a, ![n] = b]
    BY <1>2, <1>3, <1>5, <1>7, <2>2, <2>3
  <2>5. ~isObsolete(q.word)
    BY WordIs DEF Free
  <2> QED
    BY SMTT(30), ZenonT(30), <1>2, <1>3, <1>4, <1>8, <2>2, <2>3, <2>4, <2>5
<1>11. Evolves(t)
  <2>1. node[p].word < a.word /\ node[n].word < b.word
    BY <1>2, <1>3, <1>8
  <2> QED
    BY <1>1, <1>10, <2>1 DEF Evolves
<1>12. \A x : Linked(x)' <=> (Linked(x) /\ x # n) \/ x = Fresh
  <2>1. PICK c \in CallRec : Go(t, c) /\ c.pc # "join"
    BY <1>10, EndIs
  <2>2. \A x : Linked(x)' <=> x \in DOMAIN node' /\ ~isObsolete(node'[x].word) /\ (x \in DOMAIN node => Linked(x))
    BY <1>1, <1>11, <2>1, LinkedIs
  <2>3. ASSUME NEW x
        PROVE  Linked(x)' <=> (Linked(x) /\ x # n) \/ x = Fresh
    <3>1. CASE x = n
      BY <1>3, <1>4, <1>8, <1>10, <2>2, <3>1
    <3>2. CASE x = Fresh
      BY <1>4, <1>10, <2>2, <3>2
    <3>3. CASE x = p
      BY <1>2, <1>3, <1>4, <1>8, <1>10, <2>2, <3>3
    <3>4. CASE x \notin {n, p, Fresh}
      BY <1>10, <2>2, <3>4 DEF Linked
    <3> QED
      BY <3>1, <3>2, <3>3, <3>4
  <2> QED
    BY <2>3
<1>13. PICK K2 : /\ K2 = View' /\ K2 \in KidFuns(DOMAIN K2)
                 /\ \A x : x \in DOMAIN K2 <=> Linked(x)'
                 /\ \A x \in DOMAIN K2 : x \in DOMAIN node' /\ \A o \in Symbols : K2[x][o] = getChild(node'[x], o)
  BY <1>10, ViewNext
<1>14. PICK K : /\ K = View /\ \A x : x \in DOMAIN K <=> Linked(x)
                /\ \A x \in DOMAIN K, o \in Symbols : K[x][o] = getChild(node[x], o)
  BY ViewIs
<1>15. DOMAIN K2 = (DOMAIN K \ {n}) \cup {Fresh} /\ Fresh \notin DOMAIN K /\ p \in DOMAIN K /\ n \in DOMAIN K
  BY <1>2, <1>3, <1>4, <1>12, <1>13, <1>14 DEF Linked
<1>16. Swaps(K, K2, p, s, n, Inner(Fresh))
  <2>1. ASSUME NEW x \in DOMAIN K \ {n}, NEW o \in Symbols
        PROVE  K2[x][o] = IF x = p /\ o = s THEN Inner(Fresh) ELSE K[x][o]
    <3>1. x \in DOMAIN K2 /\ x \in DOMAIN node
      BY <1>14, <1>15 DEF Linked
    <3>2. K2[x][o] = getChild(node'[x], o) /\ K[x][o] = getChild(node[x], o)
      BY <1>13, <1>14, <3>1
    <3>3. CASE x = p
      BY <1>9, <1>10, <3>2, <3>3
    <3>4. CASE x # p
      BY <1>10, <3>1, <3>2, <3>4
    <3> QED
      BY <3>3, <3>4
  <2> QED
    BY <2>1 DEF Swaps
<1>17. \A o \in Symbols : K2[Fresh][o] = getChild(q, o)
  BY <1>10, <1>13, <1>15
<1>18. K[p][s] = Inner(n)
  BY <1>2, <1>14, <1>15, GetChildIs DEF KidAt
<1>19. K2 \in KidFuns(DOMAIN K2) /\ \A x : x \in DOMAIN K2 <=> (x \in DOMAIN K /\ x # n) \/ x = Fresh
  BY <1>13, <1>15
<1>20. \A x \in DOMAIN node : /\ node'[x].prefix = node[x].prefix /\ node'[x].type = node[x].type
                              /\ DOMAIN node'[x].kids = DOMAIN node[x].kids
  <2>1. \A x \in DOMAIN node : x = p \/ x = n \/ node'[x] = node[x]
    BY <1>10
  <2> QED
    BY <1>6, <1>8, <1>10, <2>1
<1> QED
  BY <1>2, <1>3, <1>4, <1>10, <1>11, <1>12, <1>13, <1>14, <1>15, <1>16, <1>17, <1>18, <1>19, <1>20

\* The new node has the old one's label, prefix and children but for one leaf.
Copied(t, n, q, old, k) ==
    /\ q \in NodeRec /\ q.word = FreshWord /\ q.prefix = node[n].prefix /\ Branches(q)
    /\ old = getChild(node[n], Symbol(t)) /\ ~isInner(old) /\ ~isInner(k) /\ k \in Kid
    /\ \A o : getChild(q, o) = IF o = Symbol(t) THEN k ELSE getChild(node[n], o)
    /\ \A lab \in Labelings : LabelInv(lab) /\ isLeaf(k) => LeafUnder(lab[n], Symbol(t), k)

\* insertGrow and removeAndShrink: a copy of another size in the node's place.
LEMMA ReplaceContent ==
    ASSUME IInv, CInv, NEW t \in Threads, th[t].pc \in {"grow", "shrink"}, NEW q, NEW old, NEW k, Copied(t, th[t].n, q, old, k),
           Replace(t, q), NEW lost, NEW won, Writes(lost, won), (store \ lost) \cup won = (store \ {old}) \cup ({k} \ {Null}),
           won # {} => won = {MyLeaf(t)} /\ th[t].op = "insert"
    PROVE  CInv'
<1>1. PICK n, p, s, o : n = th[t].n /\ p = th[t].par /\ s = th[t].pkey /\ o = Symbol(t)
  OBVIOUS
<1>2. /\ q \in NodeRec /\ q.word = FreshWord /\ q.prefix = node[n].prefix /\ Branches(q)
      /\ old = getChild(node[n], o) /\ ~isInner(old) /\ ~isInner(k) /\ k \in Kid
      /\ \A x : getChild(q, x) = IF x = o THEN k ELSE getChild(node[n], x)
      /\ \A lab \in Labelings : LabelInv(lab) /\ isLeaf(k) => LeafUnder(lab[n], o, k)
  BY <1>1 DEF Copied
<1>3. /\ th[t].pc \in OwnsN /\ th[t].pc \in OwnsP /\ th[t].pc \notin {"cut", "join"} /\ Held(t) = {p, n} /\ Return(t, Null)
      /\ o \in Symbols
  BY <1>1, OwnIs DEF OwnsN, OwnsP, Held, Replace
<1>4. /\ Evolves(t) /\ Fresh \in Nat /\ Fresh \notin DOMAIN node /\ DOMAIN node' = DOMAIN node \cup {Fresh}
      /\ p \in DOMAIN View /\ n \in DOMAIN View /\ p # n /\ s \in Symbols /\ View[p][s] = Inner(n) /\ Fresh \notin DOMAIN View
      /\ n # Root
      /\ node'[Fresh] = q /\ \A x \in DOMAIN node : x = p \/ x = n \/ node'[x] = node[x]
      /\ \A x \in DOMAIN node : /\ node'[x].prefix = node[x].prefix /\ node'[x].type = node[x].type
                                /\ DOMAIN node'[x].kids = DOMAIN node[x].kids
      /\ \A x : Linked(x)' <=> (Linked(x) /\ x # n) \/ x = Fresh
      /\ \E K2 : /\ K2 = View' /\ K2 \in KidFuns(DOMAIN K2) /\ \A x : x \in DOMAIN K2 <=> (x \in DOMAIN View /\ x # n) \/ x = Fresh
                 /\ Swaps(View, K2, p, s, n, Inner(Fresh))
                 /\ \A e \in Symbols : K2[Fresh][e] = getChild(q, e)
  <2>1. Replaces(t, p, s, n, q)
    BY <1>1, <1>2 DEF Replaces
  <2>2. View[p][s] = Inner(n) /\ Fresh \notin DOMAIN View /\ p \in DOMAIN View /\ n \in DOMAIN View
    BY ONLY IInv, t \in Threads, <2>1, ViewReplaces
  <2>7. p # n /\ s \in Symbols /\ n # Root /\ node'[Fresh] = q
    BY ONLY IInv, t \in Threads, <2>1, ViewReplaces
  <2>8. Evolves(t) /\ Fresh \in Nat /\ Fresh \notin DOMAIN node
    BY ONLY IInv, t \in Threads, <2>1, ViewReplaces
  <2>9. DOMAIN node' = DOMAIN node \cup {Fresh}
    BY ONLY IInv, t \in Threads, <2>1, ViewReplaces
  <2>3. \A x \in DOMAIN node : x = p \/ x = n \/ node'[x] = node[x]
    BY ONLY IInv, t \in Threads, <2>1, ViewReplaces
  <2>4. \A x \in DOMAIN node : /\ node'[x].prefix = node[x].prefix /\ node'[x].type = node[x].type
                               /\ DOMAIN node'[x].kids = DOMAIN node[x].kids
    BY ONLY IInv, t \in Threads, <2>1, ViewReplaces
  <2>5. \A x : Linked(x)' <=> (Linked(x) /\ x # n) \/ x = Fresh
    BY ONLY IInv, t \in Threads, <2>1, ViewReplaces
  <2>6. \E K2 : /\ K2 = View' /\ K2 \in KidFuns(DOMAIN K2) /\ \A x : x \in DOMAIN K2 <=> (x \in DOMAIN View /\ x # n) \/ x = Fresh
                /\ Swaps(View, K2, p, s, n, Inner(Fresh))
                /\ \A e \in Symbols : K2[Fresh][e] = getChild(q, e)
    BY ONLY IInv, t \in Threads, <2>1, ViewReplaces
  <2> QED
    BY ONLY <2>2, <2>3, <2>4, <2>5, <2>6, <2>7, <2>8, <2>9
<1>5. PICK f : f = Fresh
  OBVIOUS
<1>6. PICK K : K = View
  OBVIOUS
<1>7. PICK K2 : /\ K2 = View' /\ K2 \in KidFuns(DOMAIN K2) /\ \A x : x \in DOMAIN K2 <=> (x \in DOMAIN K /\ x # n) \/ x = f
                /\ Swaps(K, K2, p, s, n, Inner(f))
                /\ \A e \in Symbols : K2[f][e] = getChild(q, e)
  BY <1>4, <1>5, <1>6
<1>8. PICK lab \in Labelings : LabelInv(lab)
  BY DEF CInv
<1>9. /\ Tidy(K) /\ Ordered(K, lab) /\ Holds(K, store) /\ p \in DOMAIN K /\ n \in DOMAIN K /\ K[p][s] = Inner(n) /\ f \notin DOMAIN K
      /\ f \in Nat /\ f \notin DOMAIN node /\ \A e \in Symbols : K[n][e] = getChild(node[n], e)
  BY <1>4, <1>5, <1>6, <1>8, ViewIs DEF LabelInv
<1>10. PICK K1 \in KidFuns(DOMAIN K) : Sets(K, K1, n, o, k)
  BY <1>2, <1>9, SetKid
<1>11. PICK S : S = (store \ {old}) \cup ({k} \ {Null})
  OBVIOUS
<1>12. Tidy(K1) /\ Ordered(K1, lab) /\ Holds(K1, S)
  <2>1. K[n][o] = old
    BY <1>2, <1>3, <1>9
  <2>2. isLeaf(k) => LeafUnder(lab[n], o, k)
    BY <1>2, <1>8
  <2> QED
    BY ONLY <1>2, <1>3, <1>8, <1>9, <1>10, <1>11, <2>1, <2>2, SetsLeaf
<1>13. PICK lab2 : lab2 = [lab EXCEPT ![f] = lab[n]]
  OBVIOUS
<1>14. Rename2(K1, K2, lab, lab2, p, s, n, f)
  <2>1. DOMAIN K1 = DOMAIN K /\ \A x \in DOMAIN K, e \in Symbols : K1[x][e] = IF x = n /\ e = o THEN k ELSE K[x][e]
    BY <1>10 DEF KidFuns, Sets
  <2>2. K1[p][s] = Inner(n)
    BY <1>4, <1>9, <2>1
  <2>3. \A x \in DOMAIN K1 \ {n}, e \in Symbols : K2[x][e] = IF x = p /\ e = s THEN Inner(f) ELSE K1[x][e]
    BY <1>7, <2>1 DEF Swaps
  <2>4. \A e \in Symbols : K2[f][e] = K1[n][e]
    BY <1>2, <1>7, <1>9, <2>1
  <2>5. K2 \in KidFuns((DOMAIN K1 \ {n}) \cup {f})
    <3>1. DOMAIN K2 = (DOMAIN K1 \ {n}) \cup {f}
      BY <1>7, <2>1
    <3> QED
      BY <1>7, <3>1
  <2> QED
    BY <1>4, <1>9, <1>13, <2>1, <2>2, <2>3, <2>4, <2>5 DEF Rename2
<1>15. lab2 \in Labelings /\ Ordered(K2, lab2) /\ Holds(K2, S)
  BY ONLY <1>8, <1>12, <1>14, Renames
<1>16. lab2[f] = lab[n] /\ \A x \in DOMAIN node : lab2[x] = lab[x]
  BY <1>8, <1>9, <1>13 DEF Labelings
<1>17. Relabels(t, lab, lab2)
  BY <1>16 DEF Relabels
<1>18. /\ \A x \in DOMAIN node \ Held(t) : node'[x].prefix = node[x].prefix /\ (Linked(x)' => Linked(x))
       /\ \A x \in DOMAIN node' : x \notin DOMAIN node \/ x \in Held(t) =>
              Len(node'[x].prefix) <= lab2[x].low /\ (Linked(x)' => Fits(node'[x].prefix, lab2[x]))
  <2>1. \A x \in Held(t) : x \in DOMAIN node /\ Len(node[x].prefix) <= lab[x].low /\ Fits(node[x].prefix, lab[x])
    BY <1>3, <1>8, HeldFits DEF LabelInv, Spelled
  <2>2. \A x \in Held(t) : Len(node'[x].prefix) <= lab2[x].low /\ Fits(node'[x].prefix, lab2[x])
    BY <1>4, <1>16, <2>1
  <2>3. Len(node'[f].prefix) <= lab2[f].low /\ Fits(node'[f].prefix, lab2[f])
    BY <1>2, <1>3, <1>4, <1>5, <1>16, <2>1
  <2>4. \A x \in DOMAIN node \ Held(t) : node'[x].prefix = node[x].prefix /\ (Linked(x)' => Linked(x))
    BY <1>4
  <2>5. \A x \in DOMAIN node' : x \notin DOMAIN node => x = f
    BY <1>4, <1>5
  <2> QED
    BY <2>2, <2>3, <2>4, <2>5
<1>19. BranchInv'
  <2>1. \A x \in DOMAIN node : Branches(node[x]) => Branches(node'[x])
    BY <1>4 DEF Branches, getCount
  <2> QED
    BY <1>2, <1>4, <2>1 DEF CInv, BranchInv
<1>20. /\ store' = (store \ lost) \cup won /\ store' = S
       /\ seen' = [u \in Threads |-> [held |-> seen[u].held \cup won, kept |-> seen[u].kept \ lost]]
  BY <1>11 DEF Writes
<1>21. Ordered(View', lab2) /\ Holds(View', store')
  BY <1>7, <1>15, <1>20
<1>22. th[t].pc \in OwnsN /\ Return(t, Null) /\ Evolves(t) /\ lab2 \in Labelings
  BY <1>3, <1>4, <1>15
<1>23. /\ store' = (store \ lost) \cup won
       /\ seen' = [u \in Threads |-> [held |-> seen[u].held \cup won, kept |-> seen[u].kept \ lost]]
  BY <1>20
<1> QED
  BY ONLY IInv, CInv, t \in Threads, won # {} => won = {MyLeaf(t)} /\ th[t].op = "insert",
     <1>8, <1>17, <1>18, <1>19, <1>21, <1>22, <1>23, EndContent

\* The copy's children, type and prefix.
LEMMA CopyHas ==
    ASSUME NEW n \in NodeRec, NEW type \in N4 .. N256
    PROVE  LET m == copyTo(n, type)
           IN  /\ m \in NodeRec /\ m.kids = n.kids /\ m.word = FreshWord /\ m.type = type /\ m.prefix = n.prefix
               /\ \A o : getChild(m, o) = getChild(n, o)
<1>1. PICK m : m = copyTo(n, type)
  OBVIOUS
<1>2. m \in NodeRec /\ m.kids = n.kids /\ m.word = FreshWord /\ m.type = type /\ m.prefix = n.prefix
  <2>1. n.prefix \in Seq(Symbols) /\ n.kids \in KidMaps
    BY DEF NodeRec
  <2> QED
    BY <1>1, <2>1, NewNodeIs DEF copyTo
<1>3. \A o : getChild(m, o) = getChild(n, o)
  BY <1>2 DEF getChild
<1> QED
  BY <1>1, <1>2, <1>3

\* insertGrow of a node that is full.
LEMMA insertGrowContent ==
    ASSUME IInv, CInv, NEW t \in Threads, insertGrow(t) PROVE CInv'
<1>1. PICK n, s, k : n = th[t].n /\ s = Symbol(t) /\ k = MyLeaf(t)
  OBVIOUS
<1>2. PICK m, q : m = copyTo(node[n], node[n].type + 1) /\ q = insertKid(m, s, k)
  OBVIOUS
<1>3. th[t].pc = "grow" /\ th[t].pc \in OwnsN /\ Replace(t, q) /\ Writes({}, {k})
  BY <1>1, <1>2 DEF insertGrow, OwnsN
<1>4. PICK lab \in Labelings : LabelInv(lab)
  BY DEF CInv
<1>5. /\ th[t].op = "insert" /\ s \in Symbols /\ isLeaf(k) /\ ~isInner(k) /\ k \in Kid /\ k # Null
      /\ getChild(node[n], s) = Null /\ isFull(node[n])
  BY <1>1, <1>3, <1>4, InsertAt DEF Plans, Stands
<1>6. \A la \in Labelings : LabelInv(la) => LeafUnder(la[n], s, k)
  BY <1>1, <1>3, InsertAt
<1>7. node[n] \in NodeRec /\ node[n].type \in N4 .. N256
  BY <1>1, <1>3, OwnIs, NodeIs
<1>8. PICK type : type = node[n].type + 1
  OBVIOUS
<1>9. /\ type \in N4 + 1 .. N256 /\ type \in N4 .. N256 /\ type # N4 /\ node[n].type = type - 1
      /\ getCount(node[n]) = FullAt[type - 1]
  BY <1>5, <1>7, <1>8 DEF isFull, N4, N256
<1>10. /\ m \in NodeRec /\ m.kids = node[n].kids /\ m.word = FreshWord /\ m.type = type /\ m.prefix = node[n].prefix
       /\ \A o : getChild(m, o) = getChild(node[n], o)
  BY <1>2, <1>7, <1>8, <1>9, CopyHas
<1>11. /\ q \in NodeRec /\ q.type = type /\ q.prefix = node[n].prefix /\ q.word = FreshWord
       /\ DOMAIN q.kids = DOMAIN node[n].kids \cup {s}
       /\ \A o : getChild(q, o) = IF o = s THEN k ELSE getChild(node[n], o)
  BY <1>2, <1>5, <1>10, KidsSet
<1>12. Branches(q)
  <2>1. getCount(node[n]) <= getCount(q) /\ getCount(q) \in Nat /\ getCount(node[n]) \in Nat
    BY <1>7, <1>11, CountIs
  <2>2. UnderAt[type] \in Nat /\ UnderAt[type] >= 3 /\ FullAt[type - 1] >= UnderAt[type]
    BY <1>9, LimitAssumption
  <2> QED
    BY <1>9, <1>11, <2>1, <2>2 DEF Branches
<1>13. Copied(t, th[t].n, q, Null, k)
  BY <1>1, <1>5, <1>6, <1>11, <1>12, KidIs DEF Copied
<1>14. Null \notin store
  BY StoredIs
<1>15. (store \ {}) \cup {k} = (store \ {Null}) \cup ({k} \ {Null})
  BY <1>5, <1>14
<1> QED
  <2>1. {k} # {} => {k} = {MyLeaf(t)} /\ th[t].op = "insert"
    BY <1>1, <1>5
  <2>2. th[t].pc \in {"grow", "shrink"}
    BY <1>3
  <2> QED
    BY ONLY IInv, CInv, t \in Threads, <1>3, <1>13, <1>15, <2>1, <2>2, ReplaceContent

\* removeAndShrink of a node that is underfull.
LEMMA removeAndShrinkContent ==
    ASSUME IInv, CInv, NEW t \in Threads, removeAndShrink(t) PROVE CInv'
<1>1. PICK n, s, k : n = th[t].n /\ s = Symbol(t) /\ k = MyLeaf(t)
  OBVIOUS
<1>2. PICK m, q : m = copyTo(node[n], node[n].type - 1) /\ q = removeKid(m, s)
  OBVIOUS
<1>3. th[t].pc = "shrink" /\ th[t].pc \in OwnsN /\ Replace(t, q) /\ Writes({k}, {})
  BY <1>1, <1>2 DEF removeAndShrink, OwnsN
<1>4. s \in Symbols /\ isLeaf(k) /\ ~isInner(k) /\ k # Null /\ getChild(node[n], s) = k /\ isUnderfull(node[n])
  BY <1>1, <1>3, RemoveAt
<1>5. node[n] \in NodeRec /\ node[n].type \in N4 .. N256
  BY <1>1, <1>3, OwnIs, NodeIs
<1>6. PICK type : type = node[n].type
  OBVIOUS
<1>7. /\ type \in N4 + 1 .. N256 /\ type - 1 \in N4 .. N256 /\ type \in Nat
      /\ type - 1 # N4 => type \in N4 + 2 .. N256
      /\ getCount(node[n]) = UnderAt[type]
  BY <1>4, <1>5, <1>6 DEF isUnderfull, N4, N256
<1>8. /\ m \in NodeRec /\ m.kids = node[n].kids /\ m.word = FreshWord /\ m.type = type - 1 /\ m.prefix = node[n].prefix
      /\ \A o : getChild(m, o) = getChild(node[n], o)
  BY <1>2, <1>5, <1>6, <1>7, CopyHas
<1>9. /\ q \in NodeRec /\ q.type = type - 1 /\ q.prefix = node[n].prefix /\ q.word = FreshWord
      /\ DOMAIN q.kids = DOMAIN node[n].kids \ {s}
      /\ \A o : getChild(q, o) = IF o = s THEN Null ELSE getChild(node[n], o)
  <2>1. Null \in Kid
    BY KidIs
  <2> QED
    BY <1>2, <1>4, <1>8, <2>1, KidsSet
<1>10. s \in DOMAIN node[n].kids
  BY <1>4 DEF getChild
<1>11. Branches(q)
  <2>1. getCount(q) = getCount(node[n]) - 1
    BY <1>5, <1>9, <1>10, CountIs
  <2>2. UnderAt[type] \in Nat /\ UnderAt[type] >= 3
    BY <1>7, LimitAssumption
  <2>3. type - 1 # N4 => UnderAt[type - 1] \in Nat /\ UnderAt[type] > UnderAt[type - 1]
    <3>1. type - 1 # N4 => type - 1 \in N4 + 1 .. N256
      BY <1>7 DEF N4, N256
    <3> QED
      BY <1>7, <3>1, LimitAssumption
  <2> QED
    BY <1>7, <1>9, <2>1, <2>2, <2>3 DEF Branches
<1>12. Copied(t, th[t].n, q, k, Null)
  BY <1>1, <1>4, <1>9, <1>11, KidIs DEF Copied
<1>13. (store \ {k}) \cup {} = (store \ {k}) \cup ({Null} \ {Null})
  OBVIOUS
<1> QED
  BY <1>3, <1>12, <1>13, ReplaceContent

\* The two children of a node of two.
LEMMA TwoAre ==
    ASSUME NEW n \in NodeRec, NEW s \in DOMAIN n.kids, NEW r \in DOMAIN n.kids, s # r, getCount(n) = 2
    PROVE  DOMAIN n.kids = {s, r}
<1>1. IsFiniteSet(DOMAIN n.kids)
  BY CountIs
<1>2. IsFiniteSet({s}) /\ Cardinality({s}) = 1
  BY FS_Singleton
<1>3. Cardinality({s} \cup {r}) = 1 + 1
  BY <1>2, FS_AddElement
<1>4. {s} \cup {r} \in SUBSET DOMAIN n.kids
  OBVIOUS
<1>5. Cardinality(DOMAIN n.kids) = Cardinality({s} \cup {r})
  BY <1>3 DEF getCount
<1>6. DOMAIN n.kids = {s} \cup {r}
  BY <1>1, <1>4, <1>5, FS_Subset
<1> QED
  BY <1>6

\* A node is taken out: its parent has another child in its place.
TakesOut(p, s, n, c) ==
    /\ p \in DOMAIN node /\ DOMAIN node' = DOMAIN node /\ node' \in [DOMAIN node' -> NodeRec]
    /\ \A o : getChild(node'[p], o) = IF o = s THEN c ELSE getChild(node[p], o)
    /\ \A x \in DOMAIN node : x = p \/ node'[x].kids = node[x].kids
    /\ \A x : Linked(x)' <=> Linked(x) /\ x # n

\* The children after a write that puts the other child in the place of a node of two.
LEMMA ViewLoses ==
    ASSUME IInv, NEW p, NEW s, NEW n, NEW c, TakesOut(p, s, n, c)
    PROVE  \E K2 : /\ K2 = View' /\ K2 \in KidFuns(DOMAIN K2) /\ \A x : x \in DOMAIN K2 <=> x \in DOMAIN View /\ x # n
                   /\ Swaps(View, K2, p, s, n, c)
<1> USE DEF TakesOut
<1>1. PICK K2 : /\ K2 = View' /\ K2 \in KidFuns(DOMAIN K2)
                /\ \A x : x \in DOMAIN K2 <=> Linked(x)'
                /\ \A x \in DOMAIN K2 : x \in DOMAIN node' /\ \A o \in Symbols : K2[x][o] = getChild(node'[x], o)
  BY ViewNext
<1>2. PICK K : /\ K = View /\ \A x : x \in DOMAIN K <=> Linked(x)
               /\ \A x \in DOMAIN K, o \in Symbols : K[x][o] = getChild(node[x], o)
  BY ViewIs
<1>3. \A x : x \in DOMAIN K2 <=> x \in DOMAIN K /\ x # n
  BY <1>1, <1>2
<1>4. ASSUME NEW x \in DOMAIN K \ {n}, NEW o \in Symbols
      PROVE  K2[x][o] = IF x = p /\ o = s THEN c ELSE K[x][o]
  <2>1. x \in DOMAIN K2 /\ x \in DOMAIN node
    BY <1>1, <1>3
  <2>2. K2[x][o] = getChild(node'[x], o) /\ K[x][o] = getChild(node[x], o)
    BY <1>1, <1>2, <2>1
  <2>3. CASE x = p
    BY <2>2, <2>3
  <2>4. CASE x # p
    BY <2>1, <2>2, <2>4 DEF getChild
  <2> QED
    BY <2>3, <2>4
<1>5. Swaps(K, K2, p, s, n, c)
  BY <1>4 DEF Swaps
<1> QED
  BY <1>1, <1>2, <1>3, <1>5

\* The leaf goes and the other child takes the node's place and its label's first part.
Merged(t, lab, lab2, K2) ==
    /\ isLeaf(Other(t)) \/ isInner(Other(t))
    /\ K2 \in KidFuns(DOMAIN K2) /\ \A x : x \in DOMAIN K2 <=> x \in DOMAIN View /\ x # th[t].n
    /\ Swaps(View, K2, th[t].par, th[t].pkey, th[t].n, Other(t))
    /\ lab2 = IF isInner(Other(t))
              THEN [lab EXCEPT ![Other(t)[2]] =
                      [rep |-> lab[Other(t)[2]].rep, top |-> lab[th[t].n].top, low |-> lab[Other(t)[2]].low]]
              ELSE lab

\* The labels when the other child takes the place of a node of two.
LEMMA MergeAt ==
    ASSUME IInv, CInv, NEW t \in Threads, th[t].pc \in {"pair", "lift"}, NEW lab \in Labelings, LabelInv(lab),
           NEW lab2, NEW K2, Merged(t, lab, lab2, K2)
    PROVE  lab2 \in Labelings /\ Ordered(K2, lab2) /\ Holds(K2, store \ {MyLeaf(t)})
<1>1. PICK n, p, s, o, r, c, k : /\ n = th[t].n /\ p = th[t].par /\ s = th[t].pkey /\ o = Symbol(t) /\ r = Second(t)
                                 /\ c = Other(t) /\ k = MyLeaf(t)
  OBVIOUS
<1>2. th[t].pc \in OwnsN /\ th[t].pc \in OwnsP /\ th[t].pc # "join" /\ n \in Held(t)
  BY <1>1 DEF OwnsN, OwnsP, Held
<1>3. /\ p \in DOMAIN node /\ node[p] \in NodeRec /\ Linked(p) /\ s \in DOMAIN node[p].kids /\ s \in Symbols /\ KidAt(node, p, s, n)
  BY <1>1, <1>2, OwnPIs
<1>4. Linked(n) /\ n # p /\ n \in DOMAIN node /\ node[n] \in NodeRec
  <2>1. Linked(n)
    BY <1>2, HeldLinked
  <2> QED
    BY <1>1, <1>2, <2>1, Knows DEF Local, Doing
<1>5. /\ o \in DOMAIN node[n].kids /\ getCount(node[n]) = 2 /\ r \in DOMAIN node[n].kids /\ r # o /\ r \in Symbols /\ c \in Kid
      /\ o \in Symbols
  BY <1>1, <1>4, NodeIs, OtherIs
<1>6. getChild(node[n], o) = k /\ ~isInner(k) /\ isLeaf(k)
  BY <1>1, <1>2, RemoveAt
<1>7. getChild(node[n], r) = c
  BY <1>1, <1>5 DEF getChild, Other
<1>8. \A x \in Symbols \ {o, r} : getChild(node[n], x) = Null
  <2>1. DOMAIN node[n].kids = {o, r}
    BY <1>4, <1>5, TwoAre
  <2> QED
    BY <2>1 DEF getChild
<1>9. PICK K : K = View
  OBVIOUS
<1>10. /\ Tidy(K) /\ Ordered(K, lab) /\ Holds(K, store) /\ p \in DOMAIN K /\ n \in DOMAIN K
       /\ \A x \in DOMAIN K, e \in Symbols : K[x][e] = getChild(node[x], e)
  BY <1>3, <1>4, <1>9, ViewIs DEF LabelInv
<1>11. K[p][s] = Inner(n)
  BY <1>3, <1>10, GetChildIs DEF KidAt
<1>12. PICK K1 \in KidFuns(DOMAIN K) : Sets(K, K1, n, o, Null)
  BY <1>10, KidIs, SetKid
<1>13. Tidy(K1) /\ Ordered(K1, lab) /\ Holds(K1, store \ {k})
  <2>1. K[n][o] = k
    BY <1>5, <1>6, <1>10
  <2>2. Null \in Kid /\ ~isInner(Null) /\ ~isLeaf(Null)
    BY KidIs
  <2>3. Holds(K1, (store \ {K[n][o]}) \cup ({Null} \ {Null})) /\ Tidy(K1) /\ Ordered(K1, lab)
    BY ONLY lab \in Labelings, <1>5, <1>6, <1>10, <1>12, <2>1, <2>2, SetsLeaf
  <2>4. (store \ {K[n][o]}) \cup ({Null} \ {Null}) = store \ {k}
    BY <2>1
  <2> QED
    BY <2>3, <2>4
<1>14. DOMAIN K1 = DOMAIN K /\ \A x \in DOMAIN K, e \in Symbols : K1[x][e] = IF x = n /\ e = o THEN Null ELSE K[x][e]
  BY <1>12 DEF KidFuns, Sets
<1>15. isLeaf(c) \/ isInner(c)
  BY <1>1 DEF Merged
<1>16. Join2(K1, K2, lab, lab2, p, s, n, r, c)
  <2>1. K1[p][s] = Inner(n)
    BY <1>3, <1>4, <1>10, <1>11, <1>14
  <2>2. K1[n][r] = c /\ \A e \in Symbols \ {r} : K1[n][e] = Null
    BY <1>5, <1>7, <1>8, <1>10, <1>14
  <2>3. DOMAIN K2 = DOMAIN K1 \ {n} /\ K2 \in KidFuns(DOMAIN K2)
    BY <1>1, <1>9, <1>14 DEF Merged
  <2>4. \A x \in DOMAIN K1 \ {n}, e \in Symbols : K2[x][e] = IF x = p /\ e = s THEN c ELSE K1[x][e]
    <3>1. Swaps(K, K2, p, s, n, c)
      BY <1>1, <1>9 DEF Merged
    <3> QED
      BY <1>14, <3>1 DEF Swaps
  <2>5. lab2 = IF isInner(c) THEN [lab EXCEPT ![c[2]] = [rep |-> lab[c[2]].rep, top |-> lab[n].top, low |-> lab[c[2]].low]]
               ELSE lab
    BY <1>1 DEF Merged
  <2> QED
    BY <1>3, <1>4, <1>5, <1>10, <1>14, <1>15, <2>1, <2>2, <2>3, <2>4, <2>5 DEF Join2
<1> QED
  BY ONLY lab \in Labelings, <1>1, <1>13, <1>16, Joins

\* The parent's write of another child.
LEMMA KidSwap ==
    ASSUME NEW n \in NodeRec, NEW s \in Symbols, s \in DOMAIN n.kids, NEW c \in Kid
    PROVE  LET a == writeUnlock(change(n, s, c))
           IN  /\ a \in NodeRec /\ a.word = n.word + 2 /\ a.type = n.type /\ a.prefix = n.prefix /\ DOMAIN a.kids = DOMAIN n.kids
               /\ \A o : getChild(a, o) = IF o = s THEN c ELSE getChild(n, o)
<1>1. PICK m : m = change(n, s, c)
  OBVIOUS
<1>2. /\ m \in NodeRec /\ m.type = n.type /\ m.prefix = n.prefix /\ m.word = n.word /\ DOMAIN m.kids = DOMAIN n.kids
      /\ \A o : getChild(m, o) = IF o = s THEN c ELSE getChild(n, o)
  BY <1>1, KidsSet
<1>3. PICK a : a = writeUnlock(m)
  OBVIOUS
<1>4. a \in NodeRec /\ a.word = m.word + 2 /\ a.type = m.type /\ a.prefix = m.prefix /\ a.kids = m.kids
  BY <1>2, <1>3, WordWrite
<1>5. \A o : getChild(a, o) = getChild(m, o)
  BY <1>4 DEF getChild
<1> QED
  BY <1>1, <1>2, <1>3, <1>4, <1>5

\* A node of two loses a leaf, and its other leaf takes its place.
LEMMA PairContent ==
    ASSUME IInv, CInv, NEW t \in Threads, Pair(t) PROVE CInv'
<1>1. PICK n, p, s, c, k : /\ n = th[t].n /\ p = th[t].par /\ s = th[t].pkey /\ c = Other(t) /\ k = MyLeaf(t)
  OBVIOUS
<1>2. /\ th[t].pc = "pair" /\ th[t].pc \in OwnsN /\ th[t].pc \in OwnsP /\ th[t].pc \notin {"cut", "join"} /\ Held(t) = {p, n}
      /\ Return(t, Null) /\ Writes({k}, {}) /\ isLeaf(c)
  BY <1>1 DEF Pair, OwnsN, OwnsP, Held
<1>3. /\ p \in DOMAIN node /\ node[p] \in NodeRec /\ Linked(p) /\ node[p].word \in Nat /\ Free(node[p].word + 2)
      /\ s \in DOMAIN node[p].kids /\ s \in Symbols
  BY <1>1, <1>2, OwnPIs
<1>4. /\ n \in DOMAIN node /\ node[n] \in NodeRec /\ node[n].word \in Nat /\ n # p /\ isObsolete(node[n].word + 3)
  BY <1>1, <1>2, OwnIs, Knows DEF Local, Doing
<1>5. c \in Kid /\ ~isInner(c)
  BY <1>1, <1>2, OtherIs DEF isLeaf, isInner
<1>6. PICK a, b : a = writeUnlock(change(node[p], s, c)) /\ b = writeUnlockObsolete(node[n])
  OBVIOUS
<1>7. /\ a \in NodeRec /\ a.word = node[p].word + 2 /\ a.type = node[p].type /\ a.prefix = node[p].prefix
      /\ DOMAIN a.kids = DOMAIN node[p].kids
      /\ \A o : getChild(a, o) = IF o = s THEN c ELSE getChild(node[p], o)
  BY <1>3, <1>5, <1>6, KidSwap
<1>8. /\ b \in NodeRec /\ b.word = node[n].word + 3 /\ b.type = node[n].type /\ b.prefix = node[n].prefix /\ b.kids = node[n].kids
  BY <1>4, <1>6, WordWrite
<1>9. node' = [node EXCEPT ![p] = a, ![n] = b]
  <2>1. node' = [node EXCEPT ![p] = writeUnlock(change(@, s, c)), ![n] = writeUnlockObsolete(@)]
    BY <1>1 DEF Pair
  <2> QED
    BY <1>4, <1>6, <2>1
<1>10. /\ DOMAIN node' = DOMAIN node /\ node'[p] = a /\ node'[n] = b
       /\ \A z \in DOMAIN node \ {p, n} : node'[z] = node[z]
       /\ node' \in [DOMAIN node' -> NodeRec]
  BY <1>3, <1>4, <1>7, <1>8, <1>9, TwoNodes
<1>11. Evolves(t)
  <2>1. node[p].word < a.word /\ node[n].word < b.word
    BY <1>3, <1>4, <1>7, <1>8
  <2> QED
    BY <1>2, <1>10, <2>1 DEF Evolves
<1>12. \A x : Linked(x)' <=> Linked(x) /\ x # n
  <2>1. isObsolete(b.word) /\ ~isObsolete(a.word)
    BY <1>3, <1>4, <1>7, <1>8 DEF Free
  <2>2. PICK e \in CallRec : Go(t, e) /\ e.pc # "join"
    BY <1>2, EndIs
  <2> QED
    BY <1>2, <1>10, <1>11, <2>1, <2>2, LinkedIs DEF Linked
<1>13. \A x \in DOMAIN node : /\ node'[x].prefix = node[x].prefix /\ node'[x].type = node[x].type
                              /\ DOMAIN node'[x].kids = DOMAIN node[x].kids
  <2>1. \A x \in DOMAIN node : x = p \/ x = n \/ node'[x] = node[x]
    BY <1>10
  <2> QED
    BY <1>7, <1>8, <1>10, <2>1
<1>14. PICK K2 : /\ K2 = View' /\ K2 \in KidFuns(DOMAIN K2) /\ \A x : x \in DOMAIN K2 <=> x \in DOMAIN View /\ x # n
                 /\ Swaps(View, K2, p, s, n, c)
  <2>1. \A x \in DOMAIN node : x = p \/ node'[x].kids = node[x].kids
    BY <1>8, <1>10
  <2>2. TakesOut(p, s, n, c)
    BY <1>3, <1>7, <1>10, <1>12, <2>1 DEF TakesOut
  <2> QED
    BY ONLY IInv, <2>2, ViewLoses
<1>15. PICK lab \in Labelings : LabelInv(lab)
  BY DEF CInv
<1>16. Ordered(K2, lab) /\ Holds(K2, store \ {k})
  <2>1. Merged(t, lab, lab, K2)
    BY <1>1, <1>2, <1>5, <1>14 DEF Merged
  <2>2. th[t].pc \in {"pair", "lift"}
    BY <1>2
  <2> QED
    BY ONLY IInv, CInv, t \in Threads, <1>1, <1>15, <2>1, <2>2, MergeAt
<1>17. Relabels(t, lab, lab)
  BY DEF Relabels
<1>18. /\ \A x \in DOMAIN node \ Held(t) : node'[x].prefix = node[x].prefix /\ (Linked(x)' => Linked(x))
       /\ \A x \in DOMAIN node' : x \notin DOMAIN node \/ x \in Held(t) =>
              Len(node'[x].prefix) <= lab[x].low /\ (Linked(x)' => Fits(node'[x].prefix, lab[x]))
  <2>1. \A x \in Held(t) : x \in DOMAIN node /\ Len(node[x].prefix) <= lab[x].low /\ Fits(node[x].prefix, lab[x])
    BY <1>2, <1>15, HeldFits DEF LabelInv, Spelled
  <2> QED
    BY <1>10, <1>12, <1>13, <2>1
<1>19. BranchInv'
  <2>1. \A x \in DOMAIN node : Branches(node[x]) => Branches(node'[x])
    BY <1>13 DEF Branches, getCount
  <2> QED
    BY <1>10, <2>1 DEF CInv, BranchInv
<1>20. PICK lost, won : lost = {k} /\ won = {}
  OBVIOUS
<1>21. /\ store' = (store \ lost) \cup won /\ won = {}
       /\ seen' = [u \in Threads |-> [held |-> seen[u].held \cup won, kept |-> seen[u].kept \ lost]]
  BY <1>2, <1>20 DEF Writes
<1>22. Ordered(View', lab) /\ Holds(View', store')
  BY <1>14, <1>16, <1>20, <1>21
<1>23. won # {} => won = {MyLeaf(t)} /\ th[t].op = "insert"
  BY <1>21
<1> QED
  BY ONLY IInv, CInv, t \in Threads, <1>2, <1>11, <1>15, <1>17, <1>18, <1>19, <1>21, <1>22, <1>23, EndContent

\* The prefix of a node that takes its parent's place.
LEMMA AppendFits ==
    ASSUME NEW l \in LabelRec, NEW k \in LabelRec, NEW p \in Seq(Symbols), Fits(p, l), NEW q \in Seq(Symbols), Fits(q, k),
           NEW s \in Symbols, Under(l, s, k)
    PROVE  Fits(Append(p, s) \o q, [rep |-> k.rep, top |-> l.top, low |-> k.low])
<1>1. /\ l.top \in Nat /\ l.low \in Nat /\ k.top \in Nat /\ k.low \in Nat /\ l.top <= l.low /\ k.top <= k.low
  BY LabelIs
<1>2. /\ Len(p) \in Nat /\ Len(q) \in Nat /\ Len(p) = l.low - l.top /\ Len(q) = k.low - k.top /\ k.top = l.low + 1
      /\ Shares(l.rep, k.rep, l.low) /\ k.rep[l.low + 1] = s
      /\ \A i \in 1 .. Len(p) : p[i] = l.rep[l.top + i]
      /\ \A i \in 1 .. Len(q) : q[i] = k.rep[k.top + i]
  BY DEF Fits, Under
<1>3. PICK r : r = Append(p, s)
  OBVIOUS
<1>4. r \in Seq(Symbols) /\ Len(r) = Len(p) + 1 /\ \A i \in 1 .. Len(r) : r[i] = IF i = Len(p) + 1 THEN s ELSE p[i]
  BY <1>3, AppendProperties
<1>5. PICK u : u = r \o q
  OBVIOUS
<1>6. /\ u \in Seq(Symbols) /\ Len(u) = Len(r) + Len(q)
      /\ \A i \in 1 .. Len(r) + Len(q) : u[i] = IF i <= Len(r) THEN r[i] ELSE q[i - Len(r)]
  BY <1>4, <1>5, ConcatProperties
<1>7. PICK lt \in Nat, ll \in Nat, kt \in Nat, kl \in Nat, np \in Nat, nq \in Nat :
         lt = l.top /\ ll = l.low /\ kt = k.top /\ kl = k.low /\ np = Len(p) /\ nq = Len(q)
  BY <1>1, <1>2
<1>10. np = ll - lt /\ nq = kl - kt /\ kt = ll + 1 /\ Len(r) = np + 1 /\ Len(u) = (np + 1) + nq
  BY ONLY <1>2, <1>4, <1>6, <1>7
<1>11. (np + 1) + nq = kl - lt
  BY ONLY <1>10, lt \in Nat, ll \in Nat, kt \in Nat, kl \in Nat, np \in Nat, nq \in Nat
<1>9. Len(u) = k.low - l.top
  BY ONLY <1>7, <1>10, <1>11
<1>8. ASSUME NEW i \in 1 .. Len(u)
      PROVE  u[i] = k.rep[l.top + i]
  <2>1. i \in Nat /\ i >= 1 /\ i <= Len(r) + Len(q)
    BY <1>1, <1>2, <1>4, <1>6, <1>8
  <2>2. CASE i <= Len(p)
    <3>1. u[i] = p[i] /\ p[i] = l.rep[l.top + i]
      BY <1>2, <1>4, <1>6, <2>1, <2>2
    <3>2. l.top + i \in 1 .. l.low
      BY <1>1, <1>2, <2>1, <2>2
    <3> QED
      BY <1>2, <3>1, <3>2 DEF Shares
  <2>3. CASE i = Len(p) + 1
    <3>1. u[i] = s
      BY <1>2, <1>4, <1>6, <2>1, <2>3
    <3>2. l.top + i = l.low + 1
      BY <1>1, <1>2, <2>3
    <3> QED
      BY <1>2, <3>1, <3>2
  <2>4. CASE i > Len(p) + 1
    <3>1. PICK j : j = i - Len(r)
      OBVIOUS
    <3>4. j = i - (np + 1) /\ i \in Nat /\ i > np + 1 /\ i <= (np + 1) + nq
      BY ONLY <1>7, <1>10, <2>1, <2>4, <3>1
    <3>5. j \in 1 .. nq /\ kt + j = lt + i
      BY ONLY <1>10, <3>4, lt \in Nat, ll \in Nat, kt \in Nat, kl \in Nat, np \in Nat, nq \in Nat
    <3>2. j \in 1 .. Len(q) /\ k.top + j = l.top + i
      BY ONLY <1>7, <3>5
    <3>3. u[i] = q[j]
      BY <1>2, <1>4, <1>6, <2>1, <2>4, <3>1
    <3> QED
      BY <1>2, <3>2, <3>3
  <2> QED
    BY <1>2, <2>1, <2>2, <2>3, <2>4
<1> QED
  BY <1>3, <1>5, <1>8, <1>9 DEF Fits

\* A node of two loses a leaf, and its other child takes its place before it has its prefix.
LEMMA LiftContent ==
    ASSUME IInv, CInv, NEW t \in Threads, Lift(t) PROVE CInv'
<1>1. PICK n, p, s, c, k, m, r : /\ n = th[t].n /\ p = th[t].par /\ s = th[t].pkey /\ c = Other(t) /\ k = MyLeaf(t)
                                 /\ m = Other(t)[2] /\ r = Second(t)
  OBVIOUS
<1>2. /\ th[t].pc = "lift" /\ th[t].pc \in OwnsN /\ th[t].pc \in OwnsP /\ th[t].pc \notin {"cut", "join"} /\ Held(t) = {p, n, m}
      /\ GoTo(t, "join") /\ Writes({k}, {}) /\ UNCHANGED epocheVars
  BY <1>1 DEF Lift, OwnsN, OwnsP, Held
<1>3. /\ p \in DOMAIN node /\ node[p] \in NodeRec /\ Linked(p) /\ node[p].word \in Nat /\ Free(node[p].word + 2)
      /\ s \in DOMAIN node[p].kids /\ s \in Symbols
  BY <1>1, <1>2, OwnPIs
<1>4. n \in DOMAIN node /\ node[n] \in NodeRec /\ n # p /\ Linked(n) /\ n \in Nat
  <2>1. Linked(n)
    BY <1>2, HeldLinked
  <2>2. n # p
    BY <1>1, <1>2, Knows DEF Local, Doing
  <2> QED
    BY <1>1, <1>2, <2>1, <2>2, OwnIs, Knows
<1>5. /\ isInner(c) /\ c \in Kid /\ c = Inner(m) /\ m # n /\ m # p /\ m \in DOMAIN node /\ node[m] \in NodeRec /\ m \in Nat
      /\ r \in Symbols /\ KidAt(node, n, r, m)
  <2>1. isInner(c) /\ m # n /\ m # p
    BY <1>1, <1>2, Knows DEF Local, Snapshot
  <2>2. c \in Kid /\ c = Inner(m) /\ m \in DOMAIN node /\ r \in Symbols /\ KidAt(node, n, r, m)
    BY <1>1, <1>2, <2>1, OtherIs
  <2> QED
    BY <2>1, <2>2, Knows
<1>6. PICK a : a = writeUnlock(change(node[p], s, c))
  OBVIOUS
<1>7. /\ a \in NodeRec /\ a.word = node[p].word + 2 /\ a.type = node[p].type /\ a.prefix = node[p].prefix
      /\ DOMAIN a.kids = DOMAIN node[p].kids
      /\ \A o : getChild(a, o) = IF o = s THEN c ELSE getChild(node[p], o)
  BY <1>3, <1>5, <1>6, KidSwap
<1>8. node' = [node EXCEPT ![p] = a]
  <2>1. node' = [node EXCEPT ![p] = writeUnlock(change(@, s, c))]
    BY <1>1 DEF Lift
  <2> QED
    BY <1>6, <2>1
<1>9. /\ DOMAIN node' = DOMAIN node /\ node'[p] = a /\ \A z \in DOMAIN node : z = p \/ node'[z] = node[z]
      /\ node' \in [DOMAIN node' -> NodeRec]
  BY <1>3, <1>7, <1>8 DEF IInv, TypeInv
<1>10. Evolves(t)
  <2>1. node[p].word < a.word
    BY <1>3, <1>7
  <2> QED
    BY <1>2, <1>9, <2>1 DEF Evolves
<1>11. PICK e \in CallRec : /\ Go(t, e) /\ e.pc = "join" /\ th'[t] = e /\ \A u \in Threads \ {t} : th'[u] = th[u]
                            /\ e.n = n /\ e.op = "remove" /\ e.todo = "pair" /\ e.key = th[t].key
                            /\ e.child = th[t].child /\ Symbol(t)' = Symbol(t) /\ MyLeaf(t)' = MyLeaf(t)
  <2> DEFINE e == [th[t] EXCEPT !.pc = "join"]
  <2>1. "join" \in OwnsN
    BY DEF OwnsN
  <2>2. e \in CallRec /\ Go(t, e) /\ e.pc = "join" /\ th[t] \in CallRec
    BY <1>2, <2>1, GoToIs, Knows
  <2>3. th[t].op = "remove" /\ th[t].todo = "pair"
    BY <1>2, RemoveAt DEF Plans
  <2>4. e.n = n /\ e.op = "remove" /\ e.todo = "pair" /\ e.key = th[t].key /\ e.tid = th[t].tid /\ e.level = th[t].level
        /\ e.child = th[t].child
    BY <1>1, <2>2, <2>3
  <2> HIDE DEF e
  <2>5. th'[t] = e /\ \A u \in Threads \ {t} : th'[u] = th[u]
    BY <2>2, GoIs DEF IInv
  <2>6. Symbol(t)' = Symbol(t) /\ MyLeaf(t)' = MyLeaf(t)
    BY <2>4, <2>5 DEF Symbol, MyLeaf
  <2> QED
    BY <2>2, <2>4, <2>5, <2>6
<1>12. \A x : Linked(x)' <=> Linked(x) /\ x # n
  <2>1. ~isObsolete(a.word)
    BY <1>3, <1>7 DEF Free
  <2> QED
    BY <1>2, <1>9, <1>10, <1>11, <2>1, LinkedIs DEF Linked
<1>13. \A x \in DOMAIN node : /\ node'[x].prefix = node[x].prefix /\ node'[x].type = node[x].type
                              /\ DOMAIN node'[x].kids = DOMAIN node[x].kids
  BY <1>7, <1>9
<1>14. Second(t)' = r /\ Other(t)' = c
  <2>1. node'[n] = node[n]
    BY <1>4, <1>9
  <2> QED
    BY <1>1, <1>11, <2>1 DEF Second, Other
<1>15. PICK K2 : /\ K2 = View' /\ K2 \in KidFuns(DOMAIN K2) /\ \A x : x \in DOMAIN K2 <=> x \in DOMAIN View /\ x # n
                 /\ Swaps(View, K2, p, s, n, c)
  <2>1. \A x \in DOMAIN node : x = p \/ node'[x].kids = node[x].kids
    BY <1>9
  <2>2. TakesOut(p, s, n, c)
    BY <1>3, <1>7, <1>9, <1>12, <2>1 DEF TakesOut
  <2> QED
    BY ONLY IInv, <2>2, ViewLoses
<1>16. PICK lab \in Labelings : LabelInv(lab)
  BY DEF CInv
<1>17. PICK b : b = [rep |-> lab[m].rep, top |-> lab[n].top, low |-> lab[m].low]
  OBVIOUS
<1>18. PICK lab2 : lab2 = [lab EXCEPT ![m] = b]
  OBVIOUS
<1>19. lab2 \in Labelings /\ Ordered(K2, lab2) /\ Holds(K2, store \ {k})
  <2>1. Merged(t, lab, lab2, K2)
    BY <1>1, <1>5, <1>15, <1>17, <1>18 DEF Merged
  <2>2. th[t].pc \in {"pair", "lift"}
    BY <1>2
  <2> QED
    BY ONLY IInv, CInv, t \in Threads, <1>1, <1>16, <2>1, <2>2, MergeAt
<1>20. lab2[m] = b /\ \A x \in DOMAIN node \ {m} : lab2[x] = lab[x]
  BY <1>5, <1>16, <1>18, Knows DEF Labelings
<1>21. Relabels(t, lab, lab2)
  BY <1>2, <1>17, <1>20 DEF Relabels
<1>22. \A x \in Held(t) : x \in DOMAIN node /\ Len(node[x].prefix) <= lab[x].low /\ Fits(node[x].prefix, lab[x])
  BY <1>2, <1>16, HeldFits DEF LabelInv, Spelled
<1>23. /\ \A x \in DOMAIN node \ Held(t) : node'[x].prefix = node[x].prefix /\ (Linked(x)' => Linked(x))
       /\ \A x \in DOMAIN node' : x \notin DOMAIN node \/ x \in Held(t) =>
              Len(node'[x].prefix) <= lab2[x].low /\ (Linked(x)' => FluxOf(t, x)' \/ Fits(node'[x].prefix, lab2[x]))
  <2>1. FluxOf(t, m)' /\ lab2[m].low = lab[m].low
    BY <1>1, <1>11, <1>14, <1>17, <1>20 DEF FluxOf
  <2>2. Len(node'[m].prefix) <= lab2[m].low
    BY <1>2, <1>13, <1>22, <2>1
  <2>3. Len(node'[p].prefix) <= lab2[p].low /\ Fits(node'[p].prefix, lab2[p])
    BY <1>2, <1>3, <1>5, <1>13, <1>20, <1>22
  <2>4. Len(node'[n].prefix) <= lab2[n].low /\ ~Linked(n)'
    BY <1>2, <1>4, <1>5, <1>12, <1>13, <1>20, <1>22
  <2> QED
    BY <1>2, <1>9, <1>12, <1>13, <2>1, <2>2, <2>3, <2>4
<1>24. Pending(t, lab2)'
  <2>1. /\ lab[n] \in LabelRec /\ lab[m] \in LabelRec /\ node[n].prefix \in Seq(Symbols) /\ node[m].prefix \in Seq(Symbols)
        /\ Fits(node[n].prefix, lab[n]) /\ Fits(node[m].prefix, lab[m])
    BY <1>2, <1>4, <1>5, <1>16, <1>22, LabelsAre, NodeIs
  <2>2. Under(lab[n], r, lab[m])
    <3>1. n \in DOMAIN View /\ View[n][r] = Inner(m) /\ isInner(View[n][r])
      <4>1. getChild(node[n], r) = Inner(m)
        BY <1>4, <1>5, GetChildIs DEF KidAt
      <4> QED
        BY <1>4, <1>5, <4>1, ViewIs, KidIs
    <3>2. Inner(m)[2] = m
      BY KidIs
    <3> QED
      BY <1>5, <1>16, <3>1, <3>2 DEF LabelInv, Ordered
  <2>3. Fits(Append(node[n].prefix, r) \o node[m].prefix, b)
    <3>1. PICK ln, lm, pn, pm : ln = lab[n] /\ lm = lab[m] /\ pn = node[n].prefix /\ pm = node[m].prefix
      OBVIOUS
    <3>2. Fits(Append(pn, r) \o pm, [rep |-> lm.rep, top |-> ln.top, low |-> lm.low])
      BY <1>5, <2>1, <2>2, <3>1, AppendFits
    <3> QED
      BY <1>17, <3>1, <3>2
  <2>4. node'[n].prefix = node[n].prefix /\ node'[m].prefix = node[m].prefix /\ c[2] = m
    BY <1>1, <1>4, <1>5, <1>13
  <2>5. th'[t].pc # "cut" /\ th'[t].n = n
    BY <1>11
  <2>6. Fits(Append(node'[n].prefix, r) \o node'[m].prefix, lab2[m])
    BY <1>20, <2>3, <2>4
  <2> QED
    BY <1>14, <2>4, <2>5, <2>6 DEF Pending
<1>25. Finds(t, lab2)'
  BY <1>11 DEF Finds, Finder
<1>26. Aware(t)'
  <2>1. e.child = MyLeaf(t)'
    BY <1>2, <1>11, RemoveAt
  <2> QED
    BY <1>11, <2>1 DEF Aware, Plans, Stands
<1>27. BranchInv'
  <2>1. \A x \in DOMAIN node : Branches(node[x]) => Branches(node'[x])
    BY <1>13 DEF Branches, getCount
  <2> QED
    BY <1>9, <2>1 DEF CInv, BranchInv
<1>28. PICK lost, won : lost = {k} /\ won = {} /\ Writes(lost, won)
  BY <1>2
<1>29. Took(t, lost, won) /\ store' = store \ {k}
  <2>1. store' = store \ {k}
    BY <1>28 DEF Writes
  <2>2. th[t].op = "remove"
    BY <1>2, RemoveAt
  <2> QED
    BY <1>2, <1>11, <1>28, <2>1, <2>2 DEF Took, Writes
<1>30. Ordered(View', lab2) /\ Holds(View', store')
  BY <1>15, <1>19, <1>29
<1>31. LabelInv(lab2)'
  BY ONLY IInv, t \in Threads, <1>10, <1>11, <1>16, <1>19, <1>21, <1>23, <1>24, <1>25, <1>30, LabelStep
<1> QED
  BY <1>10, <1>11, <1>19, <1>26, <1>27, <1>29, <1>31, ContentStep

\* Join: the child that took the place of the node of two gets the prefix of its label; that node is gone.
LEMMA JoinContent ==
    ASSUME IInv, CInv, NEW t \in Threads, Join(t) PROVE CInv'
<1>1. PICK n, m, r : n = th[t].n /\ m = Other(t)[2] /\ r = Second(t)
  OBVIOUS
<1>2. PICK q : q = Append(node[n].prefix, r) \o node[m].prefix
  OBVIOUS
<1>3. /\ th[t].pc = "join" /\ th[t].pc \in OwnsN /\ Held(t) = {n, m} /\ Return(t, Null) /\ MarkForDeletion(t, n)
      /\ store' = store /\ seen' = seen
  BY <1>1 DEF Join, OwnsN, Held
<1>4. n \in DOMAIN node /\ node[n] \in NodeRec /\ node[n].word \in Nat /\ isObsolete(node[n].word + 3) /\ ~Linked(n)
  BY <1>1, <1>3, OwnIs DEF Linked, Lifted
<1>5. m # n /\ m \in DOMAIN node /\ node[m] \in NodeRec /\ r \in Symbols
  BY <1>1, <1>3, OtherIs, Knows DEF Local, Snapshot
<1>6. node[m].word \in Nat /\ Free(node[m].word + 2)
  <2>1. isLocked(node[m].word) /\ ~isObsolete(node[m].word)
    BY <1>1, <1>3 DEF IInv, LockInv
  <2> QED
    BY <1>5, <2>1, NodeIs, WordIs
<1>7. q \in Seq(Symbols)
  <2>1. node[n].prefix \in Seq(Symbols) /\ node[m].prefix \in Seq(Symbols)
    BY <1>4, <1>5, NodeIs
  <2> QED
    BY <1>2, <1>5, <2>1
<1>8. PICK a1 : a1 = [node[m] EXCEPT !.prefix = q]
  OBVIOUS
<1>9. a1 \in NodeRec /\ a1.type = node[m].type /\ a1.prefix = q /\ a1.word = node[m].word /\ a1.kids = node[m].kids
  BY <1>5, <1>7, <1>8 DEF NodeRec
<1>10. PICK a, b : a = writeUnlock(a1) /\ b = writeUnlockObsolete(node[n])
  OBVIOUS
<1>11. /\ a \in NodeRec /\ a.word = node[m].word + 2 /\ a.type = node[m].type /\ a.prefix = q /\ a.kids = node[m].kids
       /\ b \in NodeRec /\ b.word = node[n].word + 3 /\ b.type = node[n].type /\ b.prefix = node[n].prefix
       /\ b.kids = node[n].kids
  BY <1>4, <1>9, <1>10, WordWrite
<1>12. node' = [node EXCEPT ![m] = a, ![n] = b]
  <2>1. node' = [node EXCEPT ![m] = writeUnlock(addPrefixBefore(@, node[n], r)), ![n] = writeUnlockObsolete(@)]
    BY <1>1 DEF Join
  <2>2. addPrefixBefore(node[m], node[n], r) = a1
    BY <1>2, <1>8 DEF addPrefixBefore
  <2> QED
    BY <1>5, <1>10, <2>1, <2>2
<1>13. /\ DOMAIN node' = DOMAIN node /\ node'[m] = a /\ node'[n] = b
       /\ \A z \in DOMAIN node \ {m, n} : node'[z] = node[z]
       /\ node' \in [DOMAIN node' -> NodeRec]
  BY <1>4, <1>5, <1>11, <1>12, TwoNodes
<1>14. Evolves(t)
  <2>1. node[m].word < a.word /\ node[n].word < b.word
    BY <1>4, <1>6, <1>11
  <2> QED
    BY <1>3, <1>13, <2>1 DEF Evolves
<1>15. PICK c \in CallRec : Go(t, c) /\ c.pc = "exit"
  BY <1>3, ReturnIs
<1>16. \A x : Linked(x)' <=> Linked(x)
  <2>1. isObsolete(b.word) /\ ~isObsolete(a.word)
    BY <1>4, <1>6, <1>11 DEF Free
  <2> QED
    BY <1>1, <1>3, <1>4, <1>13, <1>14, <1>15, <2>1, LinkedIs DEF Linked
<1>17. \A x \in DOMAIN node : node'[x].kids = node[x].kids /\ node'[x].type = node[x].type
  BY <1>11, <1>13
<1>18. View' = View
  <2>1. \A x \in DOMAIN node : \A s : getChild(node'[x], s) = getChild(node[x], s)
    BY <1>17 DEF getChild
  <2>2. {y \in DOMAIN node' : Linked(y)'} = {y \in DOMAIN node : Linked(y)}
    BY <1>13, <1>16
  <2> QED
    BY <2>1, <2>2 DEF View
<1>19. PICK lab \in Labelings : LabelInv(lab)
  BY DEF CInv
<1>20. Fits(q, lab[m]) /\ Len(q) <= lab[m].low
  <2>1. Fits(q, lab[m])
    BY <1>1, <1>2, <1>3, <1>19 DEF LabelInv, Pending
  <2>2. m \in Nat
    BY <1>5, Knows
  <2> QED
    BY <2>1, <2>2, LabelsAre DEF Fits
<1>21. Relabels(t, lab, lab)
  BY DEF Relabels
<1>22. Ordered(View', lab) /\ Holds(View', store')
  BY <1>3, <1>18, <1>19 DEF LabelInv
<1>23. BranchInv'
  <2>1. \A x \in DOMAIN node : Branches(node[x]) => Branches(node'[x])
    BY <1>17 DEF Branches, getCount
  <2> QED
    BY <1>13, <2>1 DEF CInv, BranchInv
<1>24. Took(t, {}, {})
  BY <1>3, ReturnIs, TookNothing
<1>25. PICK lost, won : lost = {} /\ won = {} /\ Took(t, lost, won)
  BY <1>24
<1>26. /\ \A x \in DOMAIN node \ Held(t) : node'[x].prefix = node[x].prefix /\ (Linked(x)' => Linked(x))
       /\ \A x \in DOMAIN node' : x \notin DOMAIN node \/ x \in Held(t) =>
              Len(node'[x].prefix) <= lab[x].low /\ (Linked(x)' => Fits(node'[x].prefix, lab[x]))
  <2>1. Len(node[n].prefix) <= lab[n].low
    BY <1>4, <1>19 DEF LabelInv, Spelled
  <2> QED
    BY <1>3, <1>4, <1>11, <1>13, <1>16, <1>20, <2>1
<1>27. /\ store' = (store \ lost) \cup won
       /\ seen' = [u \in Threads |-> [held |-> seen[u].held \cup won, kept |-> seen[u].kept \ lost]]
       /\ won # {} => won = {MyLeaf(t)} /\ th[t].op = "insert"
  BY <1>25 DEF Took
<1>28. Return(t, Null) /\ Evolves(t) /\ th[t].pc \in OwnsN
  BY <1>3, <1>14
<1> QED
  BY ONLY IInv, CInv, t \in Threads, lab \in Labelings, <1>19, <1>21, <1>22, <1>23, <1>26, <1>27, <1>28, EndContent

-----------------------------------------------------------------------------
(* The initial states, and every step.                                     *)

\* A tree to start with is sorted: its labels are those of the assumption.
LEMMA InitContent == Init => CInv
<1> SUFFICES ASSUME Init PROVE CInv
  OBVIOUS
<1>1. IInv
  BY InitInv
<1>2. PICK tree \in InitTrees :
         /\ node = [n \in DOMAIN tree |-> NewNode(tree[n].type, tree[n].prefix, tree[n].kids)]
         /\ store = UNION {{c \in Range(tree[n].kids) : isLeaf(c)} : n \in DOMAIN tree}
         /\ th = [t \in Threads |-> Idle] /\ seen = [t \in Threads |-> [held |-> {}, kept |-> {}]]
  BY DEF Init
<1>3. IsTree(tree) /\ Root \in DOMAIN tree /\ DOMAIN node = DOMAIN tree /\ DOMAIN tree \subseteq Nat
  <2>1. IsTree(tree) /\ Root \in DOMAIN tree
    BY TreeAssumption DEF IsTree
  <2> QED
    BY <1>2, <2>1, TreeIs
<1>4. ASSUME NEW n \in DOMAIN tree
      PROVE  /\ node[n].word = FreshWord /\ node[n].type = tree[n].type
             /\ node[n].prefix = tree[n].prefix /\ node[n].kids = tree[n].kids
  BY <1>2, <1>4, TreeIs, NewNodeIs
<1>5. \A n : Linked(n) <=> n \in DOMAIN tree
  <2>1. \A n : ~Lifted(n)
    BY <1>2, IdleIs DEF Lifted
  <2> QED
    BY <1>3, <1>4, <2>1, WordIs DEF Linked, Free
<1>6. ASSUME NEW n \in DOMAIN tree, NEW s \in DOMAIN tree[n].kids
      PROVE  /\ s \in Symbols
             /\ \/ isLeaf(tree[n].kids[s]) /\ tree[n].kids[s][2] \in Keys
                \/ isInner(tree[n].kids[s]) /\ ~isLeaf(tree[n].kids[s])
  <2>1. IsLeafOfKey(tree[n].kids[s]) \/ tree[n].kids[s] = Inner(tree[n].kids[s][2])
    BY <1>3 DEF IsTree
  <2>2. s \in Symbols
    BY <1>3 DEF IsTree
  <2> QED
    BY <2>1, <2>2, KidIs DEF IsLeafOfKey
<1>7. PICK zero : zero = [i \in 1 .. KeyLen |-> 0]
  OBVIOUS
<1>8. zero \in Keys /\ KeyLen \in Nat \ {0}
  BY <1>7, SymbolsAre, SymbolAssumption DEF Keys
<1>9. WayKeys(tree) \subseteq Keys
  <2>1. \A c \in UNION {Range(tree[n].kids) : n \in DOMAIN tree} : isLeaf(c) => c[2] \in Keys
    <3>1. ASSUME NEW n \in DOMAIN tree, NEW c \in Range(tree[n].kids), isLeaf(c)
          PROVE  c[2] \in Keys
      <4>1. PICK s \in DOMAIN tree[n].kids : c = tree[n].kids[s]
        BY DEF Range
      <4> QED
        BY <1>6, <3>1, <4>1, KidIs
    <3> QED
      BY <3>1
  <2> QED
    BY <1>7, <1>8, <2>1 DEF WayKeys
<1>10. PICK low \in [DOMAIN tree -> 0 .. KeyLen - 1], rep \in [DOMAIN tree -> WayKeys(tree)] :
          /\ low[Root] = 0
          /\ IsRadix(tree, [n \in DOMAIN tree |-> [rep |-> rep[n], low |-> low[n], top |-> low[n] - Len(tree[n].prefix)]])
  BY <1>3 DEF IsTree
<1>11. PICK l0 : l0 = [n \in DOMAIN tree |-> [rep |-> rep[n], low |-> low[n], top |-> low[n] - Len(tree[n].prefix)]]
  OBVIOUS
<1>12. IsRadix(tree, l0)
  BY <1>10, <1>11
<1>13. PICK lab : lab = [x \in Nat |-> IF x \in DOMAIN tree THEN l0[x] ELSE [rep |-> zero, top |-> 0, low |-> 0]]
  OBVIOUS
<1>14. \A n \in DOMAIN tree : lab[n] = l0[n] /\ n \in Nat
  BY <1>3, <1>13
<1>15. ASSUME NEW n \in DOMAIN tree
       PROVE  l0[n] \in LabelRec /\ Len(tree[n].prefix) <= l0[n].low
  <2>1. /\ l0[n] = [rep |-> rep[n], low |-> low[n], top |-> low[n] - Len(tree[n].prefix)]
        /\ rep[n] \in Keys /\ low[n] \in 0 .. KeyLen - 1 /\ Len(tree[n].prefix) \in Nat
    <3>1. tree[n].prefix \in Seq(Symbols)
      BY TreeIs
    <3> QED
      BY <1>9, <1>10, <1>11, <3>1
  <2>2. PICK top : top = low[n] - Len(tree[n].prefix)
    OBVIOUS
  <2>3. 0 <= top
    <3>1. 0 <= l0[n].top
      BY <1>12 DEF IsRadix
    <3> QED
      BY <2>1, <2>2, <3>1
  <2>4. top \in 0 .. KeyLen - 1 /\ top <= low[n] /\ Len(tree[n].prefix) <= low[n]
    BY <1>8, <2>1, <2>2, <2>3
  <2> QED
    BY <2>1, <2>2, <2>4 DEF LabelRec
<1>16. lab \in Labelings
  <2>1. 0 \in 0 .. KeyLen - 1
    BY <1>8
  <2>2. [rep |-> zero, top |-> 0, low |-> 0] \in LabelRec
    BY <1>8, <2>1 DEF LabelRec
  <2> QED
    BY <1>13, <1>15, <2>2 DEF Labelings
<1>17. ASSUME NEW n \in DOMAIN tree
       PROVE  /\ n \in DOMAIN View /\ \A s \in Symbols : View[n][s] = getChild(tree[n], s)
              /\ \A s : getChild(node[n], s) = getChild(tree[n], s)
  <2>1. \A s : getChild(node[n], s) = getChild(tree[n], s)
    BY <1>4 DEF getChild
  <2>2. n \in DOMAIN View
    BY <1>1, <1>5, ViewIs
  <2> QED
    BY <1>1, <2>1, <2>2, ViewIs
<1>18. \A n : n \in DOMAIN View <=> n \in DOMAIN tree
  BY <1>1, <1>5, ViewIs
<1>19. Holds(View, store)
  <2>1. ASSUME NEW c
        PROVE  c \in store <=> isLeaf(c) /\ \E n \in DOMAIN tree : \E s \in DOMAIN tree[n].kids : tree[n].kids[s] = c
    <3>1. c \in store <=> \E n \in DOMAIN tree : c \in Range(tree[n].kids) /\ isLeaf(c)
      BY <1>2
    <3> QED
      BY <3>1 DEF Range
  <2>2. ASSUME NEW c, isLeaf(c), NEW n \in DOMAIN tree
        PROVE  (\E s \in DOMAIN tree[n].kids : tree[n].kids[s] = c) <=> (\E s \in Symbols : View[n][s] = c)
    <3>1. \A s \in Symbols : View[n][s] = IF s \in DOMAIN tree[n].kids THEN tree[n].kids[s] ELSE Null
      BY <1>17 DEF getChild
    <3>2. c # Null /\ \A s \in DOMAIN tree[n].kids : s \in Symbols
      BY <1>6, <2>2, KidIs
    <3> QED
      BY <3>1, <3>2
  <2> QED
    BY <1>18, <2>1, <2>2 DEF Holds
<1>20. Ordered(View, lab)
  <2>1. ASSUME NEW n \in DOMAIN tree, NEW s \in Symbols, View[n][s] # Null
        PROVE  /\ s \in DOMAIN tree[n].kids /\ View[n][s] = tree[n].kids[s]
    BY <1>17, <2>1 DEF getChild
  <2>2. ASSUME NEW n \in DOMAIN tree, NEW s \in Symbols, isLeaf(View[n][s])
        PROVE  LeafUnder(lab[n], s, View[n][s])
    <3>1. s \in DOMAIN tree[n].kids /\ View[n][s] = tree[n].kids[s]
      BY <2>1, <2>2, KidIs
    <3> QED
      BY <1>12, <1>14, <2>2, <3>1 DEF IsRadix
  <2>3. ASSUME NEW n \in DOMAIN tree, NEW s \in Symbols, isInner(View[n][s])
        PROVE  Under(lab[n], s, lab[View[n][s][2]])
    <3>1. s \in DOMAIN tree[n].kids /\ View[n][s] = tree[n].kids[s]
      BY <2>1, <2>3, KidIs
    <3>2. ~isLeaf(tree[n].kids[s]) /\ tree[n].kids[s][2] \in DOMAIN tree
      <4>1. ~isLeaf(tree[n].kids[s])
        BY <2>3, <3>1 DEF isLeaf, isInner
      <4> QED
        BY <1>3, <3>1, <4>1 DEF IsTree, IsLeafOfKey
    <3> QED
      BY <1>12, <1>14, <3>1, <3>2 DEF IsRadix
  <2>4. ASSUME NEW x \in DOMAIN tree, NEW y \in DOMAIN tree, x # y, lab[x].top <= lab[y].top,
               Shares(lab[x].rep, lab[y].rep, lab[x].top)
        PROVE  On(View[x], lab[x], lab[y])
    <3>1. Above(tree[x], lab[x], lab[y])
      BY <1>12, <1>14, <2>4 DEF IsRadix
    <3>2. lab[y].rep[lab[x].low + 1] \in Symbols
      <4>1. lab[y].rep \in Keys /\ lab[x].low \in 0 .. KeyLen - 1
        BY <1>14, <1>15, LabelIs
      <4> QED
        BY <1>8, <4>1 DEF Keys
    <3>3. View[x][lab[y].rep[lab[x].low + 1]] = getChild(tree[x], lab[y].rep[lab[x].low + 1])
      BY <1>17, <3>2
    <3> QED
      BY <3>1, <3>3 DEF Above, On
  <2> QED
    BY <1>18, <2>2, <2>3, <2>4 DEF Ordered
<1>21. \A t \in Threads : th[t] = Idle
  BY <1>2
<1>22. Spelled(lab)
  <2>1. \A x \in DOMAIN node : Len(node[x].prefix) <= lab[x].low /\ Fits(node[x].prefix, lab[x])
    BY <1>3, <1>4, <1>12, <1>14, <1>15 DEF IsRadix
  <2> QED
    BY <1>3, <1>5, <2>1 DEF Spelled
<1>23. \A t \in Threads : Pending(t, lab) /\ Finds(t, lab) /\ Aware(t)
  BY <1>21, IdleIs DEF Pending, Finds, Finder, Aware, Deciding, OwnsN
<1>24. lab[Root].low = 0
  BY <1>3, <1>10, <1>11, <1>14
<1>25. LabelInv(lab)
  BY <1>16, <1>19, <1>20, <1>22, <1>23, <1>24 DEF LabelInv
<1>26. BranchInv
  <2>1. \A x \in DOMAIN tree \ {Root} : Branches(tree[x])
    BY <1>3 DEF IsTree
  <2>2. \A x \in DOMAIN tree : Branches(tree[x]) => Branches(node[x])
    BY <1>4 DEF Branches, getCount
  <2> QED
    BY <1>3, <2>1, <2>2 DEF BranchInv
<1>27. CallsInv /\ LookupsLinearize
  BY <1>2, <1>21, IdleIs DEF CallsInv, LookupsLinearize
<1>28. seen \in [Threads -> [held : SUBSET Kid, kept : SUBSET Kid]]
  BY <1>2
<1> QED
  BY <1>16, <1>23, <1>25, <1>26, <1>27, <1>28 DEF CInv

\* A step that changes nothing.
LEMMA StuttersContent ==
    ASSUME IInv, CInv, UNCHANGED vars PROVE CInv'
<1>1. node' = node /\ th' = th /\ store' = store /\ seen' = seen
  BY DEF vars
<1>2. \A x : Linked(x)' <=> Linked(x)
  BY <1>1 DEF Linked, Lifted
<1>3. View' = View
  <2>1. {y \in DOMAIN node' : Linked(y)'} = {y \in DOMAIN node : Linked(y)}
    BY <1>1, <1>2
  <2> QED
    BY <1>1, <2>1 DEF View
<1>4. \A t \in Threads : Symbol(t)' = Symbol(t) /\ MyLeaf(t)' = MyLeaf(t) /\ Second(t)' = Second(t) /\ Other(t)' = Other(t)
  BY <1>1 DEF Symbol, MyLeaf, Second, Other
<1>5. \A t \in Threads : /\ (Valid(t)' <=> Valid(t)) /\ (VouchedP(t)' <=> VouchedP(t))
                         /\ (Busy(t)' <=> Busy(t)) /\ (Entry(t)' <=> Entry(t))
  BY <1>1 DEF Valid, ValidP, VouchedP, Busy, Entry
<1>6. \A t \in Threads : Aware(t)'
  <2>1. \A t \in Threads : (Plans(t) => Plans(t)') /\ \A n : Stands(t, n) => Stands(t, n)'
    BY <1>1, <1>4 DEF Plans, Stands
  <2> QED
    BY <1>1, <1>5, <2>1 DEF Aware, CInv
<1>7. BranchInv' /\ CallsInv' /\ LookupsLinearize' /\ seen' \in [Threads -> [held : SUBSET Kid, kept : SUBSET Kid]]
  BY <1>1, <1>4 DEF BranchInv, CallsInv, LookupsLinearize, CInv
<1>8. PICK lab \in Labelings : LabelInv(lab)
  BY DEF CInv
<1>9. ASSUME NEW t \in Threads
      PROVE  Pending(t, lab)' /\ Finds(t, lab)'
  <2>1. Pending(t, lab)'
    BY <1>1, <1>4, <1>8 DEF Pending, LabelInv
  <2>2. Finds(t, lab)
    BY <1>8 DEF LabelInv
  <2>3. (Came(t, lab) => Came(t, lab)') /\ (Here(t, lab) => Here(t, lab)') /\ (Arrived(t, lab) => Arrived(t, lab)')
    BY <1>1, <1>5 DEF Came, Here, Arrived
  <2>4. Sure(t)' => Sure(t)
    BY <1>1, <1>5 DEF Sure
  <2> QED
    BY <1>1, <1>5, <2>1, <2>2, <2>3, <2>4 DEF Finds, Finder
<1>10. LabelInv(lab)'
  <2>1. Spelled(lab)'
    <3>1. \A x : Flux(x) => Flux(x)'
      BY <1>1, <1>4 DEF Flux, FluxOf
    <3> QED
      BY <1>1, <1>2, <1>8, <3>1 DEF Spelled, LabelInv
  <2> QED
    BY <1>1, <1>3, <1>8, <1>9, <2>1 DEF LabelInv
<1> QED
  BY <1>6, <1>7, <1>10 DEF CInv

\* Every action of every thread keeps the tree sorted and the calls' knowledge true.
LEMMA NextContent ==
    ASSUME IInv, CInv, [Next]_vars PROVE CInv'
<1>1. IInv'
  BY NextKeeps
<1>2. CASE UNCHANGED vars
  BY <1>2, StuttersContent
<1>3. ASSUME NEW t \in Threads, Step(t)
      PROVE  CInv'
  <2>1. CASE Enter(t)
    BY <2>1, EnterContent
  <2>2. CASE Exit(t)
    BY <1>1, <2>2, ExitContent
  <2>3. CASE readLockOrRestart(t)
    BY <1>1, <2>3, readLockContent
  <2>4. CASE Couple(t)
    BY <1>1, <2>4, CoupleContent
  <2>5. CASE Prefix(t)
    BY <1>1, <2>5, PrefixContent
  <2>6. CASE checkPrefixPessimistic(t)
    BY <1>1, <2>6, checkPrefixPessimisticContent
  <2>7. CASE Bail(t) \/ CheckFails(t)
    BY <1>1, <2>7, BailContent
  <2>8. CASE ReadChild(t)
    BY <1>1, <2>8, ReadChildContent
  <2>9. CASE CheckLookup(t)
    BY <1>1, <2>9, CheckLookupContent
  <2>10. CASE CheckInsert(t)
    BY <1>1, <2>10, CheckInsertContent
  <2>11. CASE CheckRemove(t)
    BY <1>1, <2>11, CheckRemoveContent
  <2>12. CASE CheckParent(t)
    BY <1>1, <2>12, CheckParentContent
  <2>13. CASE upgradeToWriteLockOrRestart(t)
    BY <1>1, <2>13, upgradeContent
  <2>14. CASE LockParent(t)
    BY <1>1, <2>14, LockParentContent
  <2>15. CASE LockBoth(t)
    BY <1>1, <2>15, LockBothContent
  <2>16. CASE Put(t)
    BY <2>16, PutContent
  <2>17. CASE Fork(t)
    BY <2>17, ForkContent
  <2>18. CASE Split(t)
    BY <2>18, SplitContent
  <2>19. CASE setPrefix(t)
    BY <2>19, setPrefixContent
  <2>20. CASE insertGrow(t)
    BY <2>20, insertGrowContent
  <2>21. CASE removeAndShrink(t)
    BY <2>21, removeAndShrinkContent
  <2>22. CASE Drop(t)
    BY <1>1, <2>22, DropContent
  <2>23. CASE ClearIndex(t)
    BY <2>23, ClearIndexContent
  <2>24. CASE Pair(t)
    BY <2>24, PairContent
  <2>25. CASE writeLockOrRestart(t)
    BY <1>1, <2>25, writeLockContent
  <2>26. CASE Lift(t)
    BY <2>26, LiftContent
  <2>27. CASE Join(t)
    BY <2>27, JoinContent
  <2>28. CASE PrefixCompare(t) \/ Agree(t) \/ Down(t) \/ Smaller(t) \/ Larger(t) \/ Outermost(t)
    BY <1>1, <2>28, SeekContent
  <2> QED
    BY <1>3, <2>1, <2>2, <2>3, <2>4, <2>5, <2>6, <2>7, <2>8, <2>9, <2>10, <2>11, <2>12, <2>13, <2>14, <2>15, <2>16,
       <2>17, <2>18, <2>19, <2>20, <2>21, <2>22, <2>23, <2>24, <2>25, <2>26, <2>27, <2>28
       DEF Step
<1>4. ASSUME NEW t \in Threads, insert(t) \/ remove(t) \/ lookup(t) \/ seekLE(t)
      PROVE  CInv'
  BY <1>1, <1>4, CallContent
<1> QED
  BY <1>2, <1>3, <1>4 DEF Next

\* Both invariants hold in every state.
LEMMA SpecCInv == Spec => [](IInv /\ CInv)
<1>1. Init => IInv /\ CInv
  BY InitInv, InitContent
<1>2. IInv /\ CInv /\ [Next]_vars => (IInv /\ CInv)'
  BY NextKeeps, NextContent
<1> QED
  BY <1>1, <1>2, PTL DEF Spec

\* A lookup that overlaps inserts, removes, splits, growing and shrinking of nodes returns a leaf that its key led to
\* at some time of the call, or nothing if the key was not in the tree at some time of it.
THEOREM LookupsLinearizable == Spec => []LookupsLinearize
<1>1. CInv => LookupsLinearize
  BY DEF CInv
<1> QED
  BY <1>1, SpecCInv, PTL

-----------------------------------------------------------------------------
(* A descent that meets no writer.                                         *)

\* Where a descent can be after i nodes.
Answers(p, k) ==
    /\ ~isInner(p.child) /\ ~p.busy
    /\ (p.child \in store /\ p.child[2] = k) \/ (~HasKey(store, k) /\ (p.child = Null \/ p.child[2] # k))
OnWay(p, k, lab, i) ==
    \E x : /\ p.child = Inner(x) /\ ~p.busy /\ Linked(x) /\ x \in Nat
           /\ p.level = lab[x].low /\ i <= lab[x].low /\ Shares(lab[x].rep, k, lab[x].low)
Descends(p, k, lab, i) == p.busy = TRUE \/ Answers(p, k) \/ OnWay(p, k, lab, i)

\* The function that Descent defines.
LEMMA DescentIs ==
    ASSUME NEW k, KeyLen \in Nat \ {0}
    PROVE  \E f : /\ f[0] = Place(Inner(Root), k, 0) /\ Descent(k) = f[KeyLen]
                  /\ \A i \in 1 .. KeyLen : f[i] = Onward(f[i - 1], k)
<1> DEFINE First == Place(Inner(Root), k, 0)
           Upto(f, n) == DOMAIN f = 0 .. n /\ f[0] = First /\ \A i \in 1 .. n : f[i] = Onward(f[i - 1], k)
           Missing == {n \in Nat : \A f : ~Upto(f, n)}
           Whole(f) == [i \in 0 .. KeyLen |-> IF i = 0 THEN First ELSE Onward(f[i - 1], k)]
<1>1. Missing = {}
  <2> SUFFICES ASSUME Missing # {} PROVE FALSE
    OBVIOUS
  <2>1. Missing \in SUBSET Nat
    OBVIOUS
  <2>2. PICK n \in Missing : \A m \in Missing : n <= m
    <3> HIDE DEF Missing
    <3> QED
      BY <2>1, MinIs
  <2>3. n \in Nat /\ \A f : ~Upto(f, n)
    BY <2>2
  <2>4. n # 0
    <3> SUFFICES ASSUME n = 0 PROVE FALSE
      OBVIOUS
    <3>1. PICK f : f = [i \in 0 .. 0 |-> First]
      OBVIOUS
    <3> HIDE DEF First
    <3>2. Upto(f, 0)
      BY <3>1
    <3> QED
      BY <2>3, <3>2
  <2>5. n - 1 \in Nat /\ n - 1 \notin Missing
    <3> HIDE DEF Missing
    <3> QED
      BY <2>2, <2>3, <2>4
  <2>6. PICK f : Upto(f, n - 1)
    BY <2>5
  <2>7. PICK g : g = [i \in 0 .. n |-> IF i = n THEN Onward(f[n - 1], k) ELSE f[i]]
    OBVIOUS
  <2> HIDE DEF First, Missing
  <2>8. DOMAIN g = 0 .. n /\ g[0] = First
    BY <2>3, <2>4, <2>6, <2>7
  <2>9. ASSUME NEW i \in 1 .. n
        PROVE  g[i] = Onward(g[i - 1], k)
    <3>1. i \in 0 .. n /\ i - 1 \in 0 .. n /\ i - 1 # n /\ g[i - 1] = f[i - 1]
      BY <2>3, <2>7
    <3>2. CASE i = n
      BY <2>7, <3>1, <3>2
    <3>3. CASE i # n
      <4>1. i \in 1 .. n - 1
        BY <2>3, <3>3
      <4> QED
        BY <2>6, <2>7, <3>1, <3>3, <4>1
    <3> QED
      BY <3>2, <3>3
  <2> QED
    BY <2>3, <2>8, <2>9
<1>2. PICK f : Upto(f, KeyLen)
  BY <1>1
<1>3. PICK g : g = [i \in 0 .. KeyLen |-> f[i]]
  OBVIOUS
<1>4. g = Whole(g)
  <2> HIDE DEF First
  <2>1. \A i \in 0 .. KeyLen : i # 0 => i \in 1 .. KeyLen /\ i - 1 \in 0 .. KeyLen
    OBVIOUS
  <2>2. \A i \in 0 .. KeyLen : g[i] = IF i = 0 THEN First ELSE Onward(g[i - 1], k)
    BY <1>2, <1>3, <2>1
  <2> QED
    BY <1>3, <2>2
<1>5. PICK at : at = CHOOSE h : h = Whole(h)
  OBVIOUS
<1>6. at = Whole(at)
  <2> HIDE DEF Whole
  <2> QED
    BY <1>4, <1>5
<1>7. Descent(k) = at[KeyLen]
  BY <1>5 DEF Descent
<1>8. at[0] = First /\ \A i \in 1 .. KeyLen : at[i] = Onward(at[i - 1], k)
  <2> HIDE DEF First
  <2>1. 0 \in 0 .. KeyLen /\ \A i \in 1 .. KeyLen : i \in 0 .. KeyLen /\ i # 0
    OBVIOUS
  <2> QED
    BY <1>6, <2>1
<1> QED
  BY <1>7, <1>8

\* A place below a node of the tree, or the root: the child, and the level at which its prefix begins.
LEMMA PlaceSound ==
    ASSUME IInv, NEW lab \in Labelings, LabelInv(lab), NEW k \in Keys, NEW x, Linked(x), x \in Nat, NEW i,
           i <= lab[x].low, Shares(lab[x].rep, k, lab[x].top)
    PROVE  Descends(Place(Inner(x), k, lab[x].top), k, lab, i)
<1>1. Inner(x)[2] = x /\ isInner(Inner(x)) /\ ~isInner(Null)
  BY KidIs
<1>2. x \in DOMAIN node /\ node[x].prefix \in Seq(Symbols) /\ lab[x] \in LabelRec
  BY Knows, NodeIs, LabelsAre, ViewIs
<1>3. CASE ~Steady(x)
  <2>1. Place(Inner(x), k, lab[x].top) = [child |-> Inner(x), level |-> lab[x].top, busy |-> TRUE]
    BY <1>1, <1>3 DEF Place
  <2> QED
    BY <2>1 DEF Descends
<1>4. CASE Steady(x)
  <2>1. Fits(node[x].prefix, lab[x])
    BY <1>2, <1>4, FreeFits DEF Steady, Free, LabelInv, Spelled
  <2>2. PICK h, p, l : h = Agrees(node[x].prefix, k, lab[x].top) /\ p = node[x].prefix /\ l = lab[x]
    OBVIOUS
  <2>3. /\ Len(p) \in Nat /\ l.top + Len(p) = l.low /\ l.low < KeyLen
        /\ h = Len(p) => Shares(l.rep, k, l.low)
        /\ h # Len(p) => ~Shares(l.rep, k, l.low)
    BY <1>2, <2>1, <2>2, PrefixTells
  <2>4. checkPrefix(node[x], k, l.top) <=> h = Len(p)
    BY <2>2, <2>3 DEF checkPrefix
  <2>5. CASE h = Len(p)
    <3>1. Place(Inner(x), k, l.top) = [child |-> Inner(x), level |-> l.top + Len(p), busy |-> FALSE]
      BY <1>1, <1>4, <2>2, <2>4, <2>5 DEF Place
    <3>2. PICK q : q = Place(Inner(x), k, l.top)
      OBVIOUS
    <3>3. q.child = Inner(x) /\ q.level = l.low /\ ~q.busy
      BY <2>3, <3>1, <3>2
    <3> QED
      BY <2>2, <2>3, <2>5, <3>2, <3>3 DEF Descends, OnWay
  <2>6. CASE h # Len(p)
    <3>1. PICK q : q = Place(Inner(x), k, l.top)
      OBVIOUS
    <3>2. q.child = Null /\ ~q.busy
      BY <1>1, <1>4, <2>4, <2>6, <3>1 DEF Place
    <3>3. ~HasKey(store, k)
      BY <2>2, <2>3, <2>6, NotThere
    <3> QED
      BY <1>1, <2>2, <3>1, <3>2, <3>3 DEF Descends, Answers
  <2> QED
    BY <2>5, <2>6
<1> QED
  BY <1>3, <1>4

\* From a node of the tree a descent goes on to a child that the key leads to.
LEMMA OnwardSound ==
    ASSUME IInv, NEW lab \in Labelings, LabelInv(lab), NEW k \in Keys, NEW p, NEW i \in Nat, Descends(p, k, lab, i)
    PROVE  Descends(Onward(p, k), k, lab, i + 1)
<1>1. CASE p.busy = TRUE
  BY <1>1 DEF Onward, Descends
<1>2. CASE Answers(p, k)
  BY <1>2 DEF Onward, Descends, Answers
<1>3. CASE OnWay(p, k, lab, i)
  <2>1. PICK x : /\ p.child = Inner(x) /\ ~p.busy /\ Linked(x) /\ x \in Nat
                 /\ p.level = lab[x].low /\ i <= lab[x].low /\ Shares(lab[x].rep, k, lab[x].low)
    BY <1>3 DEF OnWay
  <2>2. PICK l, s, c : l = lab[x] /\ s = k[l.low + 1] /\ c = getChild(node[x], s)
    OBVIOUS
  <2>3. l \in LabelRec /\ l.top \in Nat /\ l.low \in Nat /\ l.top <= l.low /\ l.low < KeyLen /\ KeyLen \in Nat \ {0}
    BY <2>1, <2>2, LabelsAre
  <2>4. s \in Symbols /\ At(k, p.level) = s
    <3>1. l.low + 1 \in 1 .. KeyLen
      BY <2>3
    <3>2. s \in Symbols
      BY <2>2, <3>1 DEF Keys
    <3> QED
      BY <2>1, <2>2, <2>3, <3>2 DEF At
  <2>5. Onward(p, k) = Place(c, k, l.low + 1)
    <3>1. isInner(p.child) /\ p.child[2] = x
      BY <2>1, KidIs
    <3> QED
      BY <2>1, <2>2, <2>4, <3>1 DEF Onward
  <2>6. x \in DOMAIN View /\ View[x][s] = c /\ c \in Kid /\ Tidy(View) /\ Ordered(View, lab) /\ Holds(View, store)
    <3>1. x \in DOMAIN View /\ node[x] \in NodeRec /\ Tidy(View)
      BY <2>1, ViewIs
    <3> QED
      BY <2>2, <2>4, <3>1, ViewIs, GetChildIs DEF LabelInv
  <2>7. Shares(l.rep, k, l.top)
    BY <2>1, <2>2, <2>3, SharesIs
  <2>8. CASE isInner(c)
    <3>1. PICK y : y = c[2]
      OBVIOUS
    <3>2. c = Inner(y) /\ y \in Nat /\ Linked(y) /\ lab[y] \in LabelRec
      <4>1. c = Inner(y) /\ y \in Nat
        BY <2>6, <2>8, <3>1, KidIs
      <4>2. y \in DOMAIN View
        BY <2>4, <2>6, <2>8, <3>1 DEF Tidy
      <4> QED
        BY <4>1, <4>2, ViewIs, LabelsAre
    <3>3. lab[y].top = l.low + 1 /\ Shares(l.rep, lab[y].rep, l.low) /\ lab[y].rep[l.low + 1] = s
      BY SMTT(30), ZenonT(30), <2>2, <2>4, <2>6, <2>8, <3>1 DEF Ordered, Under
    <3>4. Shares(lab[y].rep, k, lab[y].top)
      <4>1. Shares(lab[y].rep, k, l.low)
        BY <2>1, <2>2, <2>3, <3>3, SharesIs
      <4> QED
        BY <2>2, <2>3, <3>3, <4>1, SharesIs
    <3>5. i + 1 <= lab[y].low
      BY <2>1, <2>2, <2>3, <3>2, <3>3, LabelIs
    <3> QED
      BY <2>5, <3>2, <3>3, <3>4, <3>5, PlaceSound
  <2>9. CASE ~isInner(c)
    <3>1. PICK q : q = Place(c, k, l.low + 1)
      OBVIOUS
    <3>2. q.child = c /\ ~q.busy
      BY <2>9, <3>1 DEF Place
    <3>3. CASE isLeaf(c) /\ c[2] = k
      <4>1. c \in store
        BY <2>4, <2>6, <3>3 DEF Holds
      <4> QED
        BY <2>5, <2>9, <3>1, <3>2, <3>3, <4>1 DEF Descends, Answers
    <3>4. CASE ~(isLeaf(c) /\ c[2] = k)
      <4>1. ~HasKey(store, k)
        <5>1. ~isInner(getChild(node[x], k[lab[x].low + 1]))
              /\ ~(isLeaf(getChild(node[x], k[lab[x].low + 1])) /\ getChild(node[x], k[lab[x].low + 1])[2] = k)
          BY <2>2, <2>9, <3>4
        <5> QED
          BY <2>1, <2>2, <2>7, <5>1, NotThere
      <4>2. c = Null \/ c[2] # k
        BY <2>6, <2>9, <3>4, KidIs
      <4> QED
        BY <2>5, <2>9, <3>1, <3>2, <4>1, <4>2 DEF Descends, Answers
    <3> QED
      BY <3>3, <3>4
  <2> QED
    BY <2>8, <2>9
<1> QED
  BY <1>1, <1>2, <1>3 DEF Descends

\* A descent takes as many steps as a key has symbols at most, so it ends.
LEMMA DescentSound ==
    ASSUME IInv, NEW lab \in Labelings, LabelInv(lab), NEW k \in Keys
    PROVE  Descent(k).busy = TRUE \/ Answers(Descent(k), k)
<1>1. KeyLen \in Nat \ {0}
  BY SymbolAssumption
<1>2. PICK f : /\ f[0] = Place(Inner(Root), k, 0) /\ Descent(k) = f[KeyLen]
               /\ \A i \in 1 .. KeyLen : f[i] = Onward(f[i - 1], k)
  BY <1>1, DescentIs
<1>3. Descends(f[0], k, lab, 0)
  <2>1. Linked(Root) /\ Root \in Nat
    BY ViewIs DEF Root
  <2>2. lab[Root].low = 0 /\ lab[Root].top = 0
    BY <2>1, LabelsAre DEF LabelInv
  <2>3. Shares(lab[Root].rep, k, lab[Root].top)
    BY <2>2, SharesIs
  <2> QED
    BY <1>2, <2>1, <2>2, <2>3, PlaceSound
<1>4. Descends(f[KeyLen], k, lab, KeyLen)
  <2> DEFINE Bad == {i \in 0 .. KeyLen : ~Descends(f[i], k, lab, i)}
  <2>1. Bad = {}
    <3> SUFFICES ASSUME Bad # {} PROVE FALSE
      OBVIOUS
    <3>1. Bad \in SUBSET Nat
      BY <1>1
    <3>2. PICK i \in Bad : \A j \in Bad : i <= j
      <4> HIDE DEF Bad
      <4> QED
        BY <3>1, MinIs
    <3>3. i \in 0 .. KeyLen /\ i # 0
      BY <1>3, <3>2
    <3>4. i - 1 \in Nat /\ i - 1 \in 0 .. KeyLen /\ i - 1 \notin Bad /\ (i - 1) + 1 = i /\ i \in 1 .. KeyLen
      <4>1. i - 1 \in Nat /\ i - 1 \in 0 .. KeyLen /\ (i - 1) + 1 = i /\ i \in 1 .. KeyLen /\ ~(i <= i - 1)
        BY <1>1, <3>3
      <4> HIDE DEF Bad
      <4> QED
        BY <3>2, <4>1
    <3>5. Descends(f[i - 1], k, lab, i - 1)
      BY <3>4
    <3>6. Descends(Onward(f[i - 1], k), k, lab, i)
      BY <3>4, <3>5, OnwardSound
    <3> QED
      BY <1>2, <3>2, <3>4, <3>6
  <2> QED
    BY <1>1, <2>1
<1>5. ~OnWay(f[KeyLen], k, lab, KeyLen)
  BY <1>1, LabelsAre DEF OnWay
<1> QED
  BY <1>2, <1>4, <1>5 DEF Descends

\* The nodes have the parts that their words, types and prefixes say, and every leaf is of a whole key.
LEMMA PartsSound ==
    ASSUME IInv, CInv PROVE TypeOK
<1>1. PICK lab \in Labelings : LabelInv(lab)
  BY DEF CInv
<1>2. ASSUME NEW n \in DOMAIN node
      PROVE  /\ node[n].type \in 1 .. 4 /\ node[n].word \in Nat
             /\ node[n].prefix \in Seq(Symbols) /\ Len(node[n].prefix) < KeyLen
             /\ DOMAIN node[n].kids \subseteq Symbols
  <2>1. node[n] \in NodeRec /\ n \in Nat
    BY DEF IInv, TypeInv
  <2>2. /\ node[n].type \in 1 .. 4 /\ node[n].word \in Nat
        /\ node[n].prefix \in Seq(Symbols) /\ DOMAIN node[n].kids \subseteq Symbols
    BY <2>1, NodeIs DEF N4, N256
  <2>3. Len(node[n].prefix) <= lab[n].low /\ lab[n].low < KeyLen /\ lab[n].low \in Nat /\ KeyLen \in Nat
    BY <1>1, <2>1, LabelsAre DEF LabelInv, Spelled
  <2>4. Len(node[n].prefix) \in Nat
    BY <2>2
  <2> QED
    BY <2>2, <2>3, <2>4
<1>3. \A t \in Threads : th[t].n \in DOMAIN node /\ th[t].par \in DOMAIN node \cup {0}
  BY Knows
<1>4. ASSUME NEW l \in store
      PROVE  l[2] \in Seq(Symbols) /\ Len(l[2]) = KeyLen
  <2>1. isLeaf(l) /\ \E x \in DOMAIN View, s \in Symbols : View[x][s] = l
    BY <1>1 DEF LabelInv, Holds
  <2>2. l[2] \in Keys
    BY <2>1, ViewIs, KidIs DEF Tidy
  <2> QED
    BY <2>2, SymbolAssumption DEF Keys
<1> QED
  BY <1>2, <1>3, <1>4 DEF TypeOK

\* In every state of every tree, with writers stopped between any two of their steps, a descent that meets none of
\* their locks ends at its key's leaf, or at no leaf of that key if the key is not in the tree: no split, merge,
\* growth or shrinking of nodes of ART_DRAM/Tree.cpp hides a leaf or leaves one behind.  Every node below the root has
\* two children at least, as remove and getSecondChild assert, and no prefix is as long as a key.
THEOREM TreeIsSound == Spec => []TreeSound
<1> SUFFICES ASSUME IInv, CInv PROVE TreeSound
  BY SpecCInv, PTL
<1>1. TypeOK
  BY PartsSound
<1>2. TreeHoldsStore
  <2> SUFFICES ASSUME NEW k \in AllKeys
               PROVE  LET d == Descent(k) IN
                      \/ d.busy
                      \/ d.child \in store /\ d.child[2] = k
                      \/ ~HasKey(store, k) /\ (d.child = Null \/ d.child[2] # k)
    BY DEF TreeHoldsStore
  <2>1. PICK lab \in Labelings : LabelInv(lab)
    BY DEF CInv
  <2>2. k \in Keys
    <3>1. ASSUME NEW l \in store
          PROVE  l[2] \in Keys
      <4>1. isLeaf(l) /\ \E x \in DOMAIN View, s \in Symbols : View[x][s] = l
        BY <2>1 DEF LabelInv, Holds
      <4> QED
        BY <4>1, ViewIs, KidIs DEF Tidy
    <3>2. \A l \in Inserts \cup Removes : l[2] \in Keys
      BY CallAssumption DEF IsLeafOfKey
    <3> QED
      BY <3>1, <3>2, CallAssumption DEF AllKeys
  <2>3. Descent(k).busy = TRUE \/ Answers(Descent(k), k)
    BY <2>1, <2>2, DescentSound
  <2> QED
    BY <2>3 DEF Answers
<1>3. NodesBranch
  <2> SUFFICES ASSUME NEW n \in DOMAIN node \ {Root}
               PROVE  getCount(node[n]) >= 2 /\ (getCount(node[n]) = 2 => node[n].type = N4)
    BY DEF NodesBranch
  <2>1. Branches(node[n])
    BY DEF CInv, BranchInv
  <2>2. node[n].type \in N4 .. N256
    BY NodeIs DEF IInv, TypeInv
  <2>3. node[n].type # N4 => UnderAt[node[n].type] \in Nat /\ UnderAt[node[n].type] >= 3
    BY <2>2, LimitAssumption DEF N4, N256
  <2>4. getCount(node[n]) = 2 => node[n].type = N4
    BY <2>1, <2>3 DEF Branches
  <2> QED
    BY <2>1, <2>4 DEF Branches
<1> QED
  BY <1>1, <1>2, <1>3 DEF TreeSound
=============================================================================
