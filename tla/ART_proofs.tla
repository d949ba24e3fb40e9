------------------------------ MODULE ART_proofs ------------------------------
(***************************************************************************)
(* Proofs about the tree of the top layer: memory is given back only when  *)
(* no call can reach it, and every lock has one owner.                     *)
(*                                                                         *)
(* The argument.  The inner nodes that are neither obsolete nor about to   *)
(* become so form a tree below the root.  A call that is in the tree has a *)
(* set of nodes around its pointers that is closed under children and that *)
(* no deletion list will give up while the call runs: it starts as what is *)
(* linked when the call enters its epoch, and a node a writer adds to the  *)
(* tree, or puts in a list later, has a label that is no older.  What a    *)
(* writer knows of the nodes it locks comes from the versions it read: a   *)
(* word that is unchanged is a node that is unchanged.                     *)
(***************************************************************************)
EXTENDS ART, FiniteSetTheorems, SequenceTheorems, WellFoundedInduction, TLAPS

-----------------------------------------------------------------------------
(* Types, and the inductive invariant.                                     *)

Tids == {0} \cup {l[3] : l \in Inserts \cup Removes}
            \cup {l[3] : l \in UNION {UNION {{tree[n].kids[s] : s \in DOMAIN tree[n].kids} : n \in DOMAIN tree} :
                                      tree \in InitTrees}}
Leaves == {Leaf(k, tid) : k \in Keys, tid \in Tids}
Kid == {Null} \cup Leaves \cup {Inner(n) : n \in Nat}
KidMaps == UNION {[S -> Kid] : S \in SUBSET Symbols}
NodeRec == [type : N4..N256, prefix : Seq(Symbols), kids : KidMaps, word : Nat]
Label == [nodes : SUBSET Nat, epoche : Nat]

Reading == {"couple", "prefix", "bail", "child", "check", "checkP", "lockN", "lockP", "lockB"}
Seeking == {"agree", "down", "smaller", "larger", "left", "right"}
OwnsN   == {"put", "fork", "drop", "clear", "split", "cut", "grow", "shrink", "pair", "lift", "join"}
Todos   == {"none", "put", "fork", "drop", "descend", "split", "grow", "shrink", "pair", "down", "left", "right"}
OwnsP   == {"lockB", "split", "grow", "shrink", "pair", "lift"}
Busy(t) == th[t].pc \in {"read"} \cup Reading \cup Seeking \cup OwnsN

CallRec == [pc : {"idle", "enter", "exit", "read"} \cup Reading \cup Seeking \cup OwnsN,
            op : {"none", "insert", "remove", "lookup", "seek"}, key : Keys \cup {<<>>}, tid : Tids, epoch : Nat,
            res : Kid, n : Nat, par : Nat, pkey : Symbols, v : Nat, pv : Nat, level : Nat, hit : Nat,
            child : Kid, todo : Todos]

TypeInv ==
    /\ \E N \in Nat \ {0} : DOMAIN node = 1..N
    /\ node \in [DOMAIN node -> NodeRec]
    /\ th \in [Threads -> CallRec]
    /\ currentEpoche \in Nat
    /\ localEpoche \in [Threads -> Nat]
    /\ labels \in [Threads -> SUBSET Label]
    /\ counter \in [Threads -> Nat]
    /\ freed \subseteq DOMAIN node

\* A word that a reader goes on with.
Free(w) == ~isLocked(w) /\ ~isObsolete(w)

\* The child at a symbol is the node m.  A node is lifted when its parent has its other child already;
\* a linked node is in the tree.
InnerAt(n, s, m) == s \in DOMAIN n.kids /\ n.kids[s] = Inner(m)
KidAt(nd, x, s, m) == InnerAt(nd[x], s, m)
Lifted(x) == \E t \in Threads : th[t].pc = "join" /\ th[t].n = x
Linked(x) == x \in DOMAIN node /\ ~isObsolete(node[x].word) /\ ~Lifted(x)

\* Linked nodes have linked children and one parent.
Shape ==
    /\ Linked(Root) /\ node[Root].type = N256 /\ node[Root].prefix = <<>>
    /\ \A x \in DOMAIN node, s \in Symbols, m \in Nat : KidAt(node, x, s, m) => m \in DOMAIN node \ {Root}
    /\ \A x, s, m : Linked(x) /\ KidAt(node, x, s, m) => Linked(m)
    /\ \A x, y, s, o, m : Linked(x) /\ Linked(y) /\ KidAt(node, x, s, m) /\ KidAt(node, y, o, m) => x = y /\ s = o

\* Only obsolete nodes are in a deletion list or freed.
TreeInv ==
    /\ Shape
    /\ \A t \in Threads : \A l \in labels[t] : \A x \in l.nodes : x \in DOMAIN node /\ isObsolete(node[x].word)
    /\ \A x \in freed : isObsolete(node[x].word)

\* A locked node is held by one thread, and what is held is locked.
LockInv ==
    /\ \A t, u \in Threads : t # u => Held(t) \cap Held(u) = {}
    /\ \A x \in DOMAIN node : isLocked(node[x].word) => \E t \in Threads : x \in Held(t)
    /\ \A t \in Threads : \A x \in Held(t) : x \in DOMAIN node /\ isLocked(node[x].word) /\ ~isObsolete(node[x].word)

\* What a thread is doing.
Doing(t) ==
    /\ th[t].pc # "idle" => th[t].key \in Keys
    /\ th[t].pc = "enter" => th[t].epoch <= currentEpoche
    /\ Busy(t) => localEpoche[t] <= currentEpoche
    /\ th[t].n \in DOMAIN node /\ th[t].par \in DOMAIN node \cup {0}
    /\ isInner(th[t].child) => th[t].child[2] \in DOMAIN node
    /\ th[t].par = 0 => th[t].n = Root \/ (th[t].op = "seek" /\ th[t].pc # "idle")
    /\ th[t].op = "seek" \/ th[t].pc = "idle" => th[t].par = 0
    /\ th[t].pc \in {"bail", "child", "check"} => th[t].op # "seek"
    /\ th[t].pc \in {"checkP", "lockN", "lockP", "lockB"} \cup OwnsN => th[t].op \in {"insert", "remove"}
    /\ th[t].pc \in Seeking => th[t].op = "seek"
    /\ th[t].pc = "checkP" => th[t].todo \in {"put", "fork", "drop", "descend"}
    /\ th[t].pc = "lockN" => th[t].todo \in {"put", "fork", "drop"}
    /\ th[t].pc \in {"lockP", "lockB"} => th[t].todo \in {"split", "grow", "shrink", "pair"}
    /\ th[t].pc = "agree" => th[t].todo \in {"down", "left", "right"}
    /\ th[t].pc \in {"checkP", "lockN"} /\ th[t].todo = "fork" => isLeaf(th[t].child)
    /\ th[t].pc = "fork" => isLeaf(th[t].child)
    /\ th[t].pc = "checkP" /\ th[t].todo = "descend" => isInner(th[t].child)
    /\ th[t].pc \in {"lockP"} \cup OwnsP => th[t].par # 0
    /\ th[t].pc \in OwnsN \cap OwnsP => th[t].n # th[t].par

\* What its versions tell it.
Valid(t) == (th[t].pc \in Reading /\ node[th[t].n].word = th[t].v) \/ th[t].pc \in OwnsN
ValidP(t) == th[t].par # 0 /\ (node[th[t].par].word = th[t].pv \/ th[t].pc \in OwnsP)

\* A version that still stands, or a lock, vouches for what was read of the node.
Snapshot(t) ==
    /\ th[t].pc \in Reading => Free(th[t].v) /\ th[t].v <= node[th[t].n].word
    /\ th[t].pc \in OwnsN => Free(th[t].v) /\ node[th[t].n].word = th[t].v + 2
    /\ th[t].par # 0 => Free(th[t].pv) /\ th[t].pv <= node[th[t].par].word
    /\ th[t].pc \in OwnsP => node[th[t].par].word = th[t].pv + 2
    /\ ValidP(t) => KidAt(node, th[t].par, th[t].pkey, th[t].n)
    /\ th[t].pc \in {"check", "checkP"} /\ Valid(t) => th[t].child = getChild(node[th[t].n], Symbol(t))
    /\ th[t].pc \in {"pair", "lift", "join"} \/ (th[t].pc \in {"lockP", "lockB"} /\ th[t].todo = "pair" /\ Valid(t)) =>
          Symbol(t) \in DOMAIN node[th[t].n].kids /\ getCount(node[th[t].n]) = 2
    /\ th[t].pc = "split" \/ (th[t].pc \in {"lockP", "lockB"} /\ th[t].todo = "split" /\ Valid(t)) =>
          th[t].hit < Len(node[th[t].n].prefix)
    /\ th[t].pc = "grow" \/ (th[t].pc \in {"lockP", "lockB"} /\ th[t].todo = "grow" /\ Valid(t)) =>
          node[th[t].n].type # N256
    /\ th[t].pc = "shrink" \/ (th[t].pc \in {"lockP", "lockB"} /\ th[t].todo = "shrink" /\ Valid(t)) =>
          node[th[t].n].type # N4
    /\ th[t].pc \in {"lift", "join"} => isInner(Other(t)) /\ Other(t)[2] # th[t].n
    /\ th[t].pc = "lift" => Other(t)[2] # th[t].par

Local(t) == Doing(t) /\ Snapshot(t)

\* A set of nodes that is closed under kids and safe for a thread.
Closed(nd, X) ==
    /\ X \subseteq DOMAIN nd /\ Root \in X
    /\ \A x, s, m : x \in X /\ KidAt(nd, x, s, m) => m \in X
\* No node of it is freed, and every label with one is as young as the thread.
Spared(t, X) ==
    \A x \in X : x \notin freed /\ \A u \in Threads : \A l \in labels[u] : x \in l.nodes => localEpoche[t] <= l.epoche
\* The nodes a call has pointers to.
Refs(c, X) == c.n \in X /\ c.par \in X \cup {0} /\ (isInner(c.child) => c.child[2] \in X)

\* What a call can still reach is spared.
Reach(t) ==
    \E X \in SUBSET DOMAIN node :
        /\ Closed(node, X) /\ Spared(t, X)
        /\ Refs(th[t], X)

IInv ==
    /\ TypeInv /\ TreeInv /\ LockInv
    /\ \A t \in Threads : Local(t)
    /\ \A t \in Threads : Busy(t) => Reach(t)
-----------------------------------------------------------------------------
\* A set of naturals has its Min.
LEMMA MinIs ==
    ASSUME NEW S \in SUBSET Nat, S # {}
    PROVE  Min(S) \in S /\ \A x \in S : Min(S) <= x
<1> DEFINE below(x) == 0 .. (x - 1)
           T == {below(x) : x \in S}
<1>1. T \subseteq FiniteSubsetsOf(Nat) /\ T # {}
  <2>1. \A x \in S : IsFiniteSet(below(x)) /\ below(x) \in SUBSET Nat
    BY FS_Interval
  <2>2. PICK x \in S : TRUE
    OBVIOUS
  <2>3. below(x) \in T
    OBVIOUS
  <2> HIDE DEF below
  <2> QED
    BY <2>1, <2>3 DEF FiniteSubsetsOf
<1>2. PICK B \in T : \A C \in T : ~(<<C, B>> \in StrictSubsetOrdering(Nat))
  <2> HIDE DEF T
  <2> QED
    BY <1>1, FS_StrictSubsetOrderingWellFounded, WFMin
<1>3. PICK x \in S : B = below(x)
  BY <1>2
<1>4. ASSUME NEW y \in S
      PROVE  x <= y
  <2> SUFFICES ASSUME y < x PROVE FALSE
    OBVIOUS
  <2>1. below(y) \in T /\ below(y) \in SUBSET Nat /\ below(x) \in SUBSET Nat
    OBVIOUS
  <2>2. below(y) \subseteq below(x) /\ y \in below(x) /\ y \notin below(y)
    OBVIOUS
  <2>3. <<below(y), below(x)>> \in StrictSubsetOrdering(Nat)
    <3> HIDE DEF below
    <3> QED
      BY <2>1, <2>2 DEF StrictSubsetOrdering
  <2> QED
    BY <1>2, <1>3, <2>1, <2>3
<1> QED
  BY <1>4 DEF Min

\* A bounded set of naturals has its Max.
LEMMA MaxIs ==
    ASSUME NEW N \in Nat, NEW S \in SUBSET (0 .. N), S # {}
    PROVE  Max(S) \in S /\ \A x \in S : x <= Max(S)
<1> DEFINE T == {N - x : x \in S}
<1>1. T \in SUBSET Nat /\ T # {}
  <2>1. \A x \in S : x \in Nat /\ N - x \in Nat
    OBVIOUS
  <2>2. PICK x \in S : TRUE
    OBVIOUS
  <2>3. N - x \in T
    OBVIOUS
  <2> QED
    BY <2>1, <2>3
<1>2. Min(T) \in T /\ \A y \in T : Min(T) <= y
  <2> HIDE DEF T
  <2> QED
    BY <1>1, MinIs
<1>3. PICK x \in S : Min(T) = N - x
  BY <1>2
<1>4. ASSUME NEW y \in S
      PROVE  y <= x
  <2>1. N - y \in T /\ x \in Nat /\ y \in Nat
    OBVIOUS
  <2>2. N - x <= N - y
    BY <1>2, <1>3, <2>1
  <2> QED
    BY <2>1, <2>2
<1> QED
  BY <1>4 DEF Max

\* What adding 2 or 3 to a word does to its lock bit and its obsolete bit.
LEMMA WordIs ==
    ASSUME NEW w \in Nat
    PROVE  /\ Free(w) => isLocked(w + 2) /\ ~isObsolete(w + 2)
           /\ isLocked(w) /\ ~isObsolete(w) => Free(w + 2) /\ ~isLocked(w + 3) /\ isObsolete(w + 3)
           /\ Free(0) /\ Free(FreshWord)
BY DEF Free, isLocked, isObsolete, FreshWord

\* A child is nothing, a leaf with a key, or an inner node, and one of them only.
LEMMA KidIs ==
    /\ \A c \in Kid : /\ c = Null \/ isLeaf(c) \/ isInner(c)
                      /\ isInner(c) => c = Inner(c[2]) /\ c[2] \in Nat
                      /\ isLeaf(c) => c[2] \in Keys
    /\ Null \in Kid /\ ~isInner(Null) /\ ~isLeaf(Null)
    /\ \A k \in Keys, tid \in Tids : Leaf(k, tid) \in Kid
    /\ \A k, tid : isLeaf(Leaf(k, tid)) /\ ~isInner(Leaf(k, tid))
    /\ \A m \in Nat : Inner(m) \in Kid
    /\ \A m : isInner(Inner(m)) /\ ~isLeaf(Inner(m)) /\ Inner(m)[2] = m
<1>1. \A m : isInner(Inner(m)) /\ ~isLeaf(Inner(m)) /\ Inner(m)[2] = m
  BY DEF isInner, isLeaf, Inner, Null
<1>2. \A k, tid : isLeaf(Leaf(k, tid)) /\ ~isInner(Leaf(k, tid)) /\ Leaf(k, tid)[2] = k
  BY DEF isInner, isLeaf, Leaf, Null
<1>3. ~isInner(Null) /\ ~isLeaf(Null)
  BY DEF isInner, isLeaf
<1> QED
  BY <1>1, <1>2, <1>3 DEF Kid, Leaves

\* Two inner nodes are the same child only if they are the same node.
LEMMA InnerIs ==
    /\ \A m, n : Inner(m) = Inner(n) => m = n
    /\ \A m : \A c \in Kid : c = Inner(m) <=> isInner(c) /\ c[2] = m
<1>1. \A m, n : Inner(m) = Inner(n) => m = n
  BY DEF Inner
<1> QED
  BY <1>1, KidIs

\* The children of a node: a function from some of the symbols.
LEMMA KidMapIs ==
    \A f : f \in KidMaps <=> DOMAIN f \in SUBSET Symbols /\ f \in [DOMAIN f -> Kid]
BY DEF KidMaps

\* The parts of a node.
LEMMA NodeIs ==
    ASSUME NEW n \in NodeRec
    PROVE  /\ n.type \in N4 .. N256 /\ n.prefix \in Seq(Symbols) /\ n.word \in Nat
           /\ DOMAIN n.kids \in SUBSET Symbols /\ \A s \in DOMAIN n.kids : n.kids[s] \in Kid
           /\ \A s \in DOMAIN n.kids : isInner(n.kids[s]) => InnerAt(n, s, n.kids[s][2]) /\ n.kids[s][2] \in Nat
           /\ \A s, m : InnerAt(n, s, m) => s \in Symbols /\ m \in Nat
<1>1. n.type \in N4 .. N256 /\ n.prefix \in Seq(Symbols) /\ n.word \in Nat /\ n.kids \in KidMaps
  BY DEF NodeRec
<1>2. DOMAIN n.kids \in SUBSET Symbols /\ \A s \in DOMAIN n.kids : n.kids[s] \in Kid
  BY <1>1, KidMapIs
<1>3. \A s \in DOMAIN n.kids : isInner(n.kids[s]) => InnerAt(n, s, n.kids[s][2]) /\ n.kids[s][2] \in Nat
  BY <1>2, KidIs DEF InnerAt
<1>4. ASSUME NEW s, NEW m, InnerAt(n, s, m)
      PROVE  s \in Symbols /\ m \in Nat
  BY <1>2, <1>3, <1>4, KidIs DEF InnerAt
<1> QED
  BY <1>1, <1>2, <1>3, <1>4

\* A function with one more pair.
LEMMA WithIs ==
    ASSUME NEW f \in KidMaps, NEW s \in Symbols, NEW c \in Kid
    PROVE  With(f, s, c) \in KidMaps /\ DOMAIN With(f, s, c) = DOMAIN f \cup {s}
           /\ \A o \in DOMAIN f \cup {s} : With(f, s, c)[o] = IF o = s THEN c ELSE f[o]
<1>1. DOMAIN f \in SUBSET Symbols /\ \A o \in DOMAIN f : f[o] \in Kid
  BY KidMapIs
<1>2. DOMAIN With(f, s, c) = DOMAIN f \cup {s} /\ With(f, s, c) \in [DOMAIN f \cup {s} -> Kid]
  BY <1>1 DEF With
<1> QED
  BY <1>1, <1>2, KidMapIs DEF With

\* What the writes of a node do to its inner children.
LEMMA InsertKidIs ==
    ASSUME NEW n \in NodeRec, NEW s \in Symbols, NEW c \in Kid
    PROVE  LET new == insertKid(n, s, c)
           IN  /\ new \in NodeRec /\ new.type = n.type /\ new.prefix = n.prefix /\ new.word = n.word
               /\ \A o, m : InnerAt(new, o, m) <=> IF o = s THEN c = Inner(m) ELSE InnerAt(n, o, m)
<1>1. n = [type |-> n.type, prefix |-> n.prefix, kids |-> n.kids, word |-> n.word]
  BY DEF NodeRec
<1>2. n.kids \in KidMaps
  BY DEF NodeRec
<1>3. insertKid(n, s, c) \in NodeRec /\ insertKid(n, s, c).kids = With(n.kids, s, c)
  BY <1>2, WithIs DEF insertKid, NodeRec
<1>4. insertKid(n, s, c).type = n.type /\ insertKid(n, s, c).prefix = n.prefix /\ insertKid(n, s, c).word = n.word
  BY DEF insertKid, NodeRec
<1>5. \A o, m : InnerAt(insertKid(n, s, c), o, m) <=> IF o = s THEN c = Inner(m) ELSE InnerAt(n, o, m)
  <2> DEFINE f == With(n.kids, s, c)
  <2>1. /\ DOMAIN f = DOMAIN n.kids \cup {s}
        /\ \A o \in DOMAIN n.kids \cup {s} : f[o] = IF o = s THEN c ELSE n.kids[o]
    BY DEF With
  <2> HIDE DEF f
  <2>2. \A o, m : (o \in DOMAIN f /\ f[o] = Inner(m)) <=> IF o = s THEN c = Inner(m) ELSE InnerAt(n, o, m)
    BY <2>1 DEF InnerAt
  <2> QED
    BY <1>3, <2>2 DEF InnerAt, f
<1> QED
  BY <1>3, <1>4, <1>5

\* change puts another child where there is one.
LEMMA ChangeIs ==
    ASSUME NEW n \in NodeRec, NEW s, NEW c \in Kid
    PROVE  LET new == change(n, s, c)
           IN  /\ new \in NodeRec /\ new.type = n.type /\ new.prefix = n.prefix /\ new.word = n.word
               /\ DOMAIN new.kids = DOMAIN n.kids
               /\ \A o, m : InnerAt(new, o, m) <=>
                     IF o = s /\ s \in DOMAIN n.kids THEN c = Inner(m) ELSE InnerAt(n, o, m)
<1> DEFINE f == [n.kids EXCEPT ![s] = c]
<1>1. n.kids \in KidMaps /\ DOMAIN n.kids \in SUBSET Symbols /\ \A o \in DOMAIN n.kids : n.kids[o] \in Kid
  BY KidMapIs DEF NodeRec
<1>2. DOMAIN f = DOMAIN n.kids /\ \A o \in DOMAIN f : f[o] = IF o = s THEN c ELSE n.kids[o]
  OBVIOUS
<1>3. f \in KidMaps
  <2>1. f \in [DOMAIN n.kids -> Kid]
    BY <1>1
  <2> QED
    BY <1>1, <1>2, <2>1, KidMapIs
<1>4. change(n, s, c) \in NodeRec /\ change(n, s, c).kids = f
  <2>1. change(n, s, c) = [n EXCEPT !.kids = f]
    BY DEF change, NodeRec
  <2> HIDE DEF f
  <2> QED
    BY <1>3, <2>1 DEF NodeRec
<1>5. change(n, s, c).type = n.type /\ change(n, s, c).prefix = n.prefix /\ change(n, s, c).word = n.word
  BY DEF change, NodeRec
<1>6. \A o, m : InnerAt(change(n, s, c), o, m) <=>
                     IF o = s /\ s \in DOMAIN n.kids THEN c = Inner(m) ELSE InnerAt(n, o, m)
  <2> HIDE DEF f
  <2> QED
    BY <1>2, <1>4 DEF InnerAt
<1> QED
  BY <1>2, <1>4, <1>5, <1>6

\* removeKid takes a child away and leaves the others.
LEMMA RemoveKidIs ==
    ASSUME NEW n \in NodeRec, NEW s
    PROVE  LET new == removeKid(n, s)
           IN  /\ new \in NodeRec /\ new.type = n.type /\ new.prefix = n.prefix /\ new.word = n.word
               /\ \A o, m : InnerAt(new, o, m) <=> o # s /\ InnerAt(n, o, m)
<1> DEFINE f == [o \in DOMAIN n.kids \ {s} |-> n.kids[o]]
<1>1. n.kids \in KidMaps /\ DOMAIN n.kids \in SUBSET Symbols /\ \A o \in DOMAIN n.kids : n.kids[o] \in Kid
  BY KidMapIs DEF NodeRec
<1>2. DOMAIN f = DOMAIN n.kids \ {s} /\ \A o \in DOMAIN f : f[o] = n.kids[o]
  OBVIOUS
<1>3. f \in KidMaps
  <2>1. f \in [DOMAIN n.kids \ {s} -> Kid]
    BY <1>1
  <2> QED
    BY <1>1, <1>2, <2>1, KidMapIs
<1>4. removeKid(n, s) \in NodeRec /\ removeKid(n, s).kids = f
  <2>1. removeKid(n, s) = [n EXCEPT !.kids = f]
    BY DEF removeKid, NodeRec
  <2> HIDE DEF f
  <2> QED
    BY <1>3, <2>1 DEF NodeRec
<1>5. removeKid(n, s).type = n.type /\ removeKid(n, s).prefix = n.prefix /\ removeKid(n, s).word = n.word
  BY DEF removeKid, NodeRec
<1>6. \A o, m : InnerAt(removeKid(n, s), o, m) <=> o # s /\ InnerAt(n, o, m)
  <2> HIDE DEF f
  <2> QED
    BY <1>2, <1>4 DEF InnerAt
<1> QED
  BY <1>4, <1>5, <1>6

\* Writing the word alone.
LEMMA WordWrite ==
    ASSUME NEW n \in NodeRec
    PROVE  /\ \A new \in {Locked(n), writeUnlock(n)} :
                 new \in NodeRec /\ new.word = n.word + 2 /\ new.type = n.type /\ new.prefix = n.prefix /\ new.kids = n.kids
           /\ LET new == writeUnlockObsolete(n) IN
                 new \in NodeRec /\ new.word = n.word + 3 /\ new.type = n.type /\ new.prefix = n.prefix /\ new.kids = n.kids
<1>1. n.word \in Nat
  BY DEF NodeRec
<1>2. Locked(n) = [n EXCEPT !.word = n.word + 2] /\ writeUnlock(n) = [n EXCEPT !.word = n.word + 2]
      /\ writeUnlockObsolete(n) = [n EXCEPT !.word = n.word + 3]
  BY DEF Locked, writeUnlock, writeUnlockObsolete, NodeRec
<1> QED
  BY <1>1, <1>2 DEF NodeRec

\* A new node has the word of a free node.
LEMMA NewNodeIs ==
    ASSUME NEW type \in N4 .. N256, NEW p \in Seq(Symbols), NEW kids \in KidMaps
    PROVE  LET new == NewNode(type, p, kids)
           IN  new \in NodeRec /\ new.type = type /\ new.prefix = p /\ new.kids = kids /\ new.word = FreshWord
BY DEF NewNode, NodeRec, FreshWord

\* The children of a node of two.
LEMMA TwoIs ==
    ASSUME NEW s \in Symbols, NEW o \in Symbols, NEW c \in Kid, NEW d \in Kid
    PROVE  LET f == Two(s, c, o, d)
           IN  f \in KidMaps /\ \A x \in DOMAIN f : f[x] = c \/ (x = o /\ f[x] = d)
<1> DEFINE f == Two(s, c, o, d)
<1>1. f = [x \in {s, o} |-> IF x = s THEN c ELSE d]
  BY DEF Two
<1>2. f \in [{s, o} -> Kid] /\ DOMAIN f = {s, o} /\ \A x \in {s, o} : f[x] = c \/ (x = o /\ f[x] = d)
  BY <1>1
<1> QED
  BY <1>2, KidMapIs

\* What the reads of a node return.
LEMMA GetChildIs ==
    ASSUME NEW n \in NodeRec, NEW s
    PROVE  /\ getChild(n, s) \in Kid
           /\ isInner(getChild(n, s)) => InnerAt(n, s, getChild(n, s)[2])
           /\ \A m : getChild(n, s) = Inner(m) => InnerAt(n, s, m)
           /\ \A m : InnerAt(n, s, m) => getChild(n, s) = Inner(m)
<1>1. CASE s \in DOMAIN n.kids
  <2>1. getChild(n, s) = n.kids[s] /\ n.kids[s] \in Kid
    BY <1>1, NodeIs DEF getChild
  <2> QED
    BY <1>1, <2>1, NodeIs DEF InnerAt
<1>2. CASE s \notin DOMAIN n.kids
  BY <1>2, KidIs, InnerIs DEF getChild, InnerAt
<1> QED
  BY <1>1, <1>2

\* The symbols are the numbers from 0 on.
LEMMA SymbolsAre ==
    \E N \in Nat : Symbols = 0 .. N
<1>1. Cardinality(Symbols) \in Nat /\ Cardinality(Symbols) # 0
  BY SymbolAssumption, FS_CardinalityType, FS_EmptySet
<1> QED
  BY <1>1, SymbolAssumption

\* seek and seekSmaller return nothing or one of the node's children.
LEMMA SeekIs ==
    ASSUME NEW n \in NodeRec, NEW s, NEW c, c = seek(n, s) \/ c = seekSmaller(n, s)
    PROVE  c \in Kid /\ (isInner(c) => \E o : InnerAt(n, o, c[2]))
<1>1. PICK N \in Nat : Symbols = 0 .. N
  BY SymbolsAre
<1>2. \A o \in DOMAIN n.kids : n.kids[o] \in Kid /\ (isInner(n.kids[o]) => InnerAt(n, o, n.kids[o][2]))
  BY NodeIs
<1>3. c = Null \/ \E o \in DOMAIN n.kids : c = n.kids[o]
  <2>1. CASE c = seek(n, s)
    <3> DEFINE K == {o \in DOMAIN n.kids : o >= s}
    <3>1. K # {} => Min(K) \in K
      <4>1. K \in SUBSET Nat
        BY <1>1, NodeIs
      <4> HIDE DEF K
      <4> QED
        BY <4>1, MinIs
    <3> QED
      BY <2>1, <3>1 DEF seek
  <2>2. CASE c = seekSmaller(n, s)
    <3> DEFINE K == {o \in DOMAIN n.kids : o <= s}
    <3>1. K # {} => Max(K) \in K
      <4>1. K \in SUBSET (0 .. N)
        BY <1>1, NodeIs
      <4> HIDE DEF K
      <4> QED
        BY <4>1, MaxIs
    <3> QED
      BY <2>2, <3>1 DEF seekSmaller
  <2> QED
    BY <2>1, <2>2
<1> QED
  BY <1>2, <1>3, KidIs

\* A node of two has a second child.
LEMMA SecondIs ==
    ASSUME NEW n \in NodeRec, NEW s \in DOMAIN n.kids, getCount(n) = 2
    PROVE  getSecondChild(n, s) \in DOMAIN n.kids \ {s}
<1>1. \E o \in DOMAIN n.kids : o # s
  <2> SUFFICES ASSUME DOMAIN n.kids = {s} PROVE FALSE
    OBVIOUS
  <2>1. Cardinality({s}) = 1
    BY FS_Singleton
  <2>2. Cardinality(DOMAIN n.kids) = 2
    BY DEF getCount
  <2> QED
    BY <2>1, <2>2
<1> QED
  BY <1>1 DEF getSecondChild

\* A key has a symbol at every level.
LEMMA AtIs ==
    ASSUME NEW k \in Keys, NEW level \in Nat
    PROVE  At(k, level) \in Symbols
<1>1. 0 \in Symbols
  BY SymbolsAre
<1>2. CASE level < KeyLen
  <2>1. level + 1 \in 1 .. KeyLen
    BY <1>2, SymbolAssumption
  <2> QED
    BY <1>2, <2>1 DEF At, Keys
<1> QED
  BY <1>1, <1>2 DEF At

\* No more symbols agree than the prefix has.
LEMMA AgreesIs ==
    ASSUME NEW p \in Seq(Symbols), NEW k, NEW level
    PROVE  /\ Agrees(p, k, level) \in Nat /\ Agrees(p, k, level) <= Len(p)
           /\ p = <<>> => Agrees(p, k, level) = Len(p)
<1> DEFINE D == {i \in 1 .. Len(p) : p[i] # At(k, level + i - 1)}
<1>1. Len(p) \in Nat /\ D \in SUBSET Nat /\ D \subseteq 1 .. Len(p)
  OBVIOUS
<1>2. D # {} => Min(D) \in D
  <2> HIDE DEF D
  <2> QED
    BY <1>1, MinIs
<1>3. Agrees(p, k, level) = IF D = {} THEN Len(p) ELSE Min(D) - 1
  BY DEF Agrees
<1>4. p = <<>> => D = {}
  OBVIOUS
<1> HIDE DEF D
<1>5. CASE D # {}
  <2>1. PICK i \in 1 .. Len(p) : Min(D) = i
    BY <1>1, <1>2, <1>5
  <2>2. Agrees(p, k, level) = i - 1 /\ p # <<>>
    BY <1>3, <1>4, <1>5, <2>1
  <2> QED
    BY <1>1, <2>2
<1>6. CASE D = {}
  BY <1>1, <1>3, <1>6
<1> QED
  BY <1>5, <1>6

\* What two keys share is a sequence of symbols.
LEMMA CommonIs ==
    ASSUME NEW j, NEW k \in Keys, NEW level \in Nat
    PROVE  Common(j, k, level) \in Seq(Symbols)
<1> DEFINE D == {KeyLen} \cup {i \in level + 1 .. KeyLen : j[i] # k[i]}
<1>1. KeyLen \in Nat \ {0} /\ D \in SUBSET Nat /\ D # {} /\ KeyLen \in D
  BY SymbolAssumption
<1>2. Min(D) \in Nat /\ Min(D) <= KeyLen
  <2> HIDE DEF D
  <2> QED
    BY <1>1, MinIs
<1>3. Common(j, k, level) = SubSeq(k, level + 1, Min(D) - 1)
  BY DEF Common
<1> HIDE DEF D
<1>4. \A i \in level + 1 .. Min(D) - 1 : k[i] \in Symbols
  BY <1>1, <1>2 DEF Keys
<1> QED
  BY <1>1, <1>2, <1>3, <1>4, SubSeqProperties

\* A new node gets a name that no node has.
LEMMA AllocIs ==
    ASSUME TypeInv, NEW q \in NodeRec
    PROVE  /\ Fresh \in Nat \ {0} /\ Fresh \notin DOMAIN node
           /\ \E N \in Nat \ {0} : DOMAIN Alloc(q) = 1 .. N
           /\ DOMAIN Alloc(q) = DOMAIN node \cup {Fresh}
           /\ Alloc(q) \in [DOMAIN node \cup {Fresh} -> NodeRec]
           /\ Alloc(q)[Fresh] = q /\ \A x \in DOMAIN node : Alloc(q)[x] = node[x]
<1>1. PICK N \in Nat \ {0} : DOMAIN node = 1 .. N
  BY DEF TypeInv
<1>2. Fresh = N + 1
  <2>1. Cardinality(1 .. N) = N
    BY FS_Interval
  <2> QED
    BY <1>1, <2>1 DEF Fresh
<1>3. DOMAIN node \cup {Fresh} = 1 .. N + 1 /\ Fresh \notin DOMAIN node
  BY <1>1, <1>2
<1>4. Alloc(q) = [x \in DOMAIN node \cup {Fresh} |-> IF x = Fresh THEN q ELSE node[x]]
  BY DEF Alloc, With
<1>5. Alloc(q) \in [DOMAIN node \cup {Fresh} -> NodeRec]
  BY <1>4 DEF TypeInv
<1> QED
  BY <1>1, <1>2, <1>3, <1>4, <1>5

-----------------------------------------------------------------------------
(* Calls.                                                                  *)

\* The parts of a call.
LEMMA CallIs ==
    ASSUME NEW c \in CallRec
    PROVE  /\ c.pc \in {"idle", "enter", "exit", "read"} \cup Reading \cup Seeking \cup OwnsN
           /\ c.op \in {"none", "insert", "remove", "lookup", "seek"} /\ c.key \in Keys \cup {<<>>} /\ c.tid \in Tids
           /\ c.epoch \in Nat /\ c.res \in Kid /\ c.n \in Nat /\ c.par \in Nat /\ c.pkey \in Symbols
           /\ c.v \in Nat /\ c.pv \in Nat /\ c.level \in Nat /\ c.hit \in Nat /\ c.child \in Kid
           /\ c.todo \in Todos
BY DEF CallRec

\* A call at the root keeps its operation and its key.
LEMMA AtRootIs ==
    ASSUME NEW c \in CallRec, NEW pc \in {"read", "exit"}, NEW res \in Kid
    PROVE  LET new == AtRoot(c, pc, res)
           IN  /\ new \in CallRec /\ new.pc = pc /\ new.op = c.op /\ new.key = c.key /\ new.n = Root /\ new.par = 0
               /\ new.child = Null
<1>1. 0 \in Symbols /\ Root \in Nat /\ Null \in Kid
  BY SymbolsAre, KidIs DEF Root
<1>2. AtRoot(c, pc, res) \in CallRec
  <2>1. c.op \in {"none", "insert", "remove", "lookup", "seek"} /\ c.key \in Keys \cup {<<>>} /\ c.tid \in Tids /\ c.epoch \in Nat
    BY CallIs
  <2> QED
    BY <1>1, <2>1 DEF CallRec, AtRoot, Todos
<1> QED
  BY <1>2 DEF AtRoot

\* Go changes the thread's call alone.
LEMMA GoIs ==
    ASSUME TypeInv, NEW t \in Threads, NEW c \in CallRec, Go(t, c)
    PROVE  th' \in [Threads -> CallRec] /\ th'[t] = c /\ \A u \in Threads \ {t} : th'[u] = th[u]
BY DEF Go, TypeInv

\* What a step of a thread may do to the nodes: those it changes were free or its own,
\* and their words grow.
Evolves(t) ==
    /\ DOMAIN node \subseteq DOMAIN node' /\ node' \in [DOMAIN node' -> NodeRec]
    /\ \A x \in DOMAIN node :
          \/ node'[x] = node[x]
          \/ (x \in Held(t) \/ Free(node[x].word)) /\ node[x].word < node'[x].word
          \/ x \in Held(t) /\ node'[x].word = node[x].word

\* A writer holds the nodes its place in the code says.
LEMMA HeldBy ==
    ASSUME NEW t \in Threads
    PROVE  /\ th[t].pc \in OwnsN => th[t].n \in Held(t)
           /\ th[t].pc \in OwnsP => th[t].par \in Held(t)
           /\ th[t].pc \in {"lift", "join"} => Other(t)[2] \in Held(t)
           /\ th[t].pc \notin OwnsN \cup OwnsP => Held(t) = {}
BY DEF OwnsN, OwnsP, Held

\* A version that was read from a free word is the node's still, or never again.
LEMMA VersionHolds ==
    ASSUME TypeInv, LockInv, NEW t \in Threads, Evolves(t),
           NEW x \in DOMAIN node, NEW v \in Nat, Free(v), v <= node[x].word
    PROVE  v <= node'[x].word /\ (node'[x].word = v => node'[x] = node[x] /\ node[x].word = v)
<1>1. node[x].word \in Nat /\ node'[x].word \in Nat
  BY NodeIs DEF TypeInv, Evolves
<1>2. x \in Held(t) => isLocked(node[x].word)
  BY DEF LockInv
<1>3. x \in Held(t) => v # node[x].word
  BY <1>2 DEF Free
<1> QED
  BY <1>1, <1>3 DEF Evolves

\* What a thread has locked no other thread changes.
LEMMA HeldHolds ==
    ASSUME TypeInv, LockInv, NEW t \in Threads, Evolves(t), NEW u \in Threads, u # t, NEW x \in Held(u)
    PROVE  x \in DOMAIN node /\ node'[x] = node[x]
<1>1. x \in DOMAIN node /\ isLocked(node[x].word) /\ x \notin Held(t)
  BY DEF LockInv
<1> QED
  BY <1>1 DEF Evolves, Free

\* A step of one thread leaves what every other thread knows true.
LEMMA OthersKeep ==
    ASSUME TypeInv, LockInv, NEW t \in Threads, Evolves(t),
           NEW u \in Threads, u # t, Local(u), th'[u] = th[u],
           localEpoche'[u] = localEpoche[u], currentEpoche' \in Nat, currentEpoche <= currentEpoche'
    PROVE  Local(u)' /\ Held(u)' = Held(u) /\ (Busy(u)' <=> Busy(u))
<1> DEFINE c == th[u]
<1>0. c \in CallRec /\ localEpoche[u] \in Nat /\ currentEpoche \in Nat
  BY DEF TypeInv
<1>1. Doing(u)'
  <2>1. DOMAIN node \subseteq DOMAIN node'
    BY DEF Evolves
  <2>2. c.epoch \in Nat
    BY <1>0, CallIs
  <2> QED
    BY <1>0, <2>1, <2>2 DEF Local, Doing, Busy
<1>2. c.n \in DOMAIN node /\ (c.par # 0 => c.par \in DOMAIN node) /\ c.v \in Nat /\ c.pv \in Nat
  BY <1>0, CallIs DEF Local, Doing
<1>3. c.pc \in OwnsN => node'[c.n] = node[c.n]
  BY HeldBy, HeldHolds
<1>4. c.pc \in OwnsP => node'[c.par] = node[c.par]
  BY HeldBy, HeldHolds
<1>5. c.pc \in Reading => c.v <= node'[c.n].word /\ (node'[c.n].word = c.v => node'[c.n] = node[c.n])
  BY <1>2, VersionHolds DEF Local, Snapshot
<1>6. c.par # 0 => c.pv <= node'[c.par].word /\ (node'[c.par].word = c.pv => node'[c.par] = node[c.par])
  BY <1>2, VersionHolds DEF Local, Snapshot
<1>7. /\ Valid(u)' => Valid(u) /\ node'[c.n] = node[c.n]
      /\ ValidP(u)' => ValidP(u) /\ node'[c.par] = node[c.par]
  BY <1>3, <1>4, <1>5, <1>6 DEF Valid, ValidP
<1>8. Symbol(u)' = Symbol(u)
  BY DEF Symbol
<1>9. c.pc \in {"lift", "join"} => Other(u)' = Other(u)
  BY <1>3, <1>8 DEF Other, Second, OwnsN
<1>10. Snapshot(u)'
  <2>1. /\ c.pc \in Reading => Free(c.v) /\ c.v <= node'[c.n].word
        /\ c.pc \in OwnsN => Free(c.v) /\ node'[c.n].word = c.v + 2
        /\ c.par # 0 => Free(c.pv) /\ c.pv <= node'[c.par].word
        /\ c.pc \in OwnsP => node'[c.par].word = c.pv + 2
    BY <1>3, <1>4, <1>5, <1>6 DEF Local, Snapshot
  <2>2. ValidP(u)' => KidAt(node', c.par, c.pkey, c.n)
    BY <1>7 DEF Local, Snapshot, KidAt
  <2>3. c.pc \in {"check", "checkP"} /\ Valid(u)' => c.child = getChild(node'[c.n], Symbol(u))
    BY <1>7 DEF Local, Snapshot
  <2>4. c.pc \in {"pair", "lift", "join"} \/ (c.pc \in {"lockP", "lockB"} /\ c.todo = "pair" /\ Valid(u)') =>
          Symbol(u) \in DOMAIN node'[c.n].kids /\ getCount(node'[c.n]) = 2
    BY <1>3, <1>7 DEF Local, Snapshot, OwnsN
  <2>5. c.pc = "split" \/ (c.pc \in {"lockP", "lockB"} /\ c.todo = "split" /\ Valid(u)') =>
          c.hit < Len(node'[c.n].prefix)
    BY <1>3, <1>7 DEF Local, Snapshot, OwnsN
  <2>7. /\ c.pc = "grow" \/ (c.pc \in {"lockP", "lockB"} /\ c.todo = "grow" /\ Valid(u)') => node'[c.n].type # N256
        /\ c.pc = "shrink" \/ (c.pc \in {"lockP", "lockB"} /\ c.todo = "shrink" /\ Valid(u)') => node'[c.n].type # N4
    BY <1>3, <1>7 DEF Local, Snapshot, OwnsN
  <2>6. /\ c.pc \in {"lift", "join"} => isInner(Other(u)') /\ Other(u)'[2] # c.n
        /\ c.pc = "lift" => Other(u)'[2] # c.par
    BY <1>9 DEF Local, Snapshot
  <2> QED
    BY <1>8, <2>1, <2>2, <2>3, <2>4, <2>5, <2>6, <2>7 DEF Snapshot
<1>11. Held(u)' = Held(u)
  BY <1>9 DEF Held
<1> QED
  BY <1>1, <1>10, <1>11 DEF Local, Busy

-----------------------------------------------------------------------------
(* Steps that only read the tree.                                          *)

\* A step that changes no node keeps the tree and the locks, and what the other threads know.
LEMMA QuietStep ==
    ASSUME IInv, NEW t \in Threads, NEW c \in CallRec, Go(t, c), UNCHANGED node,
           \A u \in Threads \ {t} : localEpoche'[u] = localEpoche[u],
           currentEpoche' \in Nat, currentEpoche <= currentEpoche',
           th[t].pc \notin OwnsN \cup OwnsP, c.pc \notin OwnsN \cup OwnsP, Local(t)'
    PROVE  /\ Shape' /\ LockInv' /\ \A u \in Threads : Local(u)'
           /\ th' \in [Threads -> CallRec] /\ th'[t] = c
           /\ \A u \in Threads \ {t} : th'[u] = th[u] /\ (Busy(u)' <=> Busy(u))
<1>1. th' \in [Threads -> CallRec] /\ th'[t] = c /\ \A u \in Threads \ {t} : th'[u] = th[u]
  BY GoIs DEF IInv
<1>2. Evolves(t)
  BY DEF Evolves, IInv, TypeInv
<1>3. \A u \in Threads \ {t} : Local(u)' /\ Held(u)' = Held(u) /\ (Busy(u)' <=> Busy(u))
  BY <1>1, <1>2, OthersKeep DEF IInv
<1>4. Held(t) = {} /\ Held(t)' = {}
  BY <1>1 DEF Held, OwnsN, OwnsP
<1>5. LockInv'
  BY <1>3, <1>4 DEF IInv, LockInv
<1>6. \A x : Linked(x)' <=> Linked(x)
  <2>1. \A x : Lifted(x)' <=> Lifted(x)
    BY <1>1 DEF Lifted, OwnsN
  <2> QED
    BY <2>1 DEF Linked
<1>7. Shape'
  BY <1>6 DEF IInv, TreeInv, Shape
<1>8. \A u \in Threads : Local(u)'
  BY <1>3
<1> QED
  BY <1>1, <1>3, <1>5, <1>7, <1>8

\* A step that only reads keeps the invariant when what the thread now points to follows from what it had.
LEMMA ReadStep ==
    ASSUME IInv, NEW t \in Threads, NEW c \in CallRec, Go(t, c), UNCHANGED <<node, epocheVars>>,
           th[t].pc \notin OwnsN \cup OwnsP, c.pc \notin OwnsN \cup OwnsP, Local(t)',
           Busy(t)' => Busy(t) /\ \A X : Closed(node, X) /\ Refs(th[t], X) => Refs(c, X)
    PROVE  IInv'
<1>1. node' = node /\ currentEpoche' = currentEpoche /\ localEpoche' = localEpoche /\ labels' = labels /\ freed' = freed
      /\ counter' = counter /\ currentEpoche \in Nat
  BY DEF epocheVars, IInv, TypeInv
<1>2. /\ Shape' /\ LockInv' /\ \A u \in Threads : Local(u)'
      /\ th' \in [Threads -> CallRec] /\ th'[t] = c
      /\ \A u \in Threads \ {t} : th'[u] = th[u] /\ (Busy(u)' <=> Busy(u))
  BY <1>1, QuietStep
<1>3. TypeInv' /\ TreeInv'
  BY <1>1, <1>2 DEF IInv, TypeInv, TreeInv
<1>4. ASSUME NEW u \in Threads, Busy(u)'
      PROVE  Reach(u)'
  <2>1. PICK X \in SUBSET DOMAIN node : Closed(node, X) /\ Spared(u, X) /\ Refs(th[u], X)
    BY <1>2, <1>4 DEF IInv, Reach
  <2>2. Spared(u, X)'
    BY <1>1, <2>1 DEF Spared
  <2>3. Refs(th'[u], X)
    BY <1>2, <1>4, <2>1
  <2> QED
    BY <1>1, <2>1, <2>2, <2>3 DEF Reach
<1> QED
  BY <1>2, <1>3, <1>4 DEF IInv

\* What the invariant says of the nodes that a call points to.
LEMMA Knows ==
    ASSUME IInv, NEW t \in Threads
    PROVE  /\ th[t] \in CallRec /\ th[t].n \in DOMAIN node /\ th[t].n # 0 /\ node[th[t].n] \in NodeRec
           /\ th[t].par # 0 => th[t].par \in DOMAIN node /\ node[th[t].par] \in NodeRec
           /\ isInner(th[t].child) => th[t].child[2] \in DOMAIN node
           /\ th[t].pc # "idle" => th[t].key \in Keys /\ Symbol(t) \in Symbols /\ MyLeaf(t) \in Kid
           /\ Local(t) /\ Root \in DOMAIN node
           /\ \A x \in DOMAIN node : x # 0 /\ x \in Nat /\ node[x] \in NodeRec
           /\ \A x \in DOMAIN node : \A s, m : KidAt(node, x, s, m) => m \in DOMAIN node \ {Root}
<1>1. th[t] \in CallRec /\ \A x \in DOMAIN node : x # 0 /\ x \in Nat /\ node[x] \in NodeRec
  BY DEF IInv, TypeInv
<1>2. Local(t) /\ Root \in DOMAIN node
  BY DEF IInv, TreeInv, Shape, Linked
<1>3. \A x \in DOMAIN node : \A s, m : KidAt(node, x, s, m) => m \in DOMAIN node \ {Root}
  BY <1>1, NodeIs DEF IInv, TreeInv, Shape, KidAt
<1>4. th[t].pc # "idle" => th[t].key \in Keys /\ Symbol(t) \in Symbols /\ MyLeaf(t) \in Kid
  <2>1. th[t].pc # "idle" => th[t].key \in Keys
    BY <1>2 DEF Local, Doing
  <2> QED
    BY <1>1, <2>1, CallIs, AtIs, KidIs DEF Symbol, MyLeaf
<1> QED
  BY <1>1, <1>2, <1>3, <1>4 DEF Local, Doing

\* A call at the root knows nothing, and reaches what the root reaches.
LEMMA AtRootLocal ==
    ASSUME IInv, NEW t \in Threads, Busy(t), NEW pc \in {"read", "exit"}, NEW res \in Kid,
           Go(t, AtRoot(th[t], pc, res)), DOMAIN node \subseteq DOMAIN node',
           localEpoche' = localEpoche, currentEpoche' = currentEpoche
    PROVE  /\ Local(t)' /\ AtRoot(th[t], pc, res) \in CallRec /\ AtRoot(th[t], pc, res).pc = pc
           /\ \A X : Root \in X => Refs(AtRoot(th[t], pc, res), X)
<1> DEFINE c == AtRoot(th[t], pc, res)
<1>1. /\ c \in CallRec /\ c.pc = pc /\ c.op = th[t].op /\ c.key = th[t].key /\ c.n = Root /\ c.par = 0 /\ c.child = Null
  BY Knows, AtRootIs
<1> HIDE DEF c
<1>2. th'[t] = c
  BY <1>1, GoIs DEF IInv, c
<1>3. Doing(t)'
  <2>1. ~isInner(c.child) /\ Root \in DOMAIN node' /\ c.key \in Keys /\ localEpoche'[t] <= currentEpoche'
    BY <1>1, Knows, KidIs DEF Busy, Local, Doing, Reading, Seeking, OwnsN
  <2> QED
    BY <1>1, <1>2, <2>1 DEF Doing, Seeking, OwnsN, OwnsP
<1>4. Snapshot(t)'
  BY <1>1, <1>2 DEF Snapshot, Reading, OwnsN, OwnsP, ValidP
<1>5. \A X : Root \in X => Refs(c, X)
  BY <1>1, KidIs DEF Refs
<1> QED
  BY <1>1, <1>3, <1>4, <1>5 DEF Local, c

\* A restart or a return of a call that holds no lock.
LEMMA RestartStep ==
    ASSUME IInv, NEW t \in Threads, Busy(t), th[t].pc \notin OwnsN \cup OwnsP,
           UNCHANGED <<node, epocheVars>>,
           Restart(t) \/ \E c \in Kid : Return(t, c)
    PROVE  IInv'
<1>1. PICK pc \in {"read", "exit"}, res \in Kid : Go(t, AtRoot(th[t], pc, res))
  BY KidIs DEF Restart, Return
<1>2. node' = node /\ localEpoche' = localEpoche /\ currentEpoche' = currentEpoche
  BY DEF epocheVars
<1>3. /\ Local(t)' /\ AtRoot(th[t], pc, res) \in CallRec /\ AtRoot(th[t], pc, res).pc = pc
      /\ \A X : Root \in X => Refs(AtRoot(th[t], pc, res), X)
  BY <1>1, <1>2, AtRootLocal
<1>4. \A X : Closed(node, X) => Refs(AtRoot(th[t], pc, res), X)
  BY <1>3 DEF Closed
<1>5. pc \notin OwnsN \cup OwnsP
  BY DEF OwnsN, OwnsP
<1> QED
  BY <1>1, <1>3, <1>4, <1>5, ReadStep

\* The step to a child that was read from the node.
LEMMA DescendStep ==
    ASSUME IInv, NEW t \in Threads, th[t].pc \in {"check", "checkP"}, th[t].op # "seek", isInner(th[t].child),
           UNCHANGED <<node, epocheVars>>, Descend(t)
    PROVE  IInv'
<1> DEFINE o == th[t]
           c == [o EXCEPT !.pc = "read", !.par = o.n, !.pkey = Symbol(t), !.pv = o.v,
                          !.n = o.child[2], !.level = @ + 1, !.child = Null, !.todo = "none"]
<1>1. /\ o \in CallRec /\ o.n \in DOMAIN node /\ o.n # 0 /\ o.n \in Nat /\ o.child[2] \in DOMAIN node
      /\ o.child[2] \in Nat /\ Symbol(t) \in Symbols /\ o.key \in Keys /\ Null \in Kid
      /\ o.v \in Nat /\ o.level \in Nat /\ o.level + 1 \in Nat
  BY Knows, CallIs, KidIs
<1>2. Go(t, c)
  BY DEF Descend, Symbol
<1>3. /\ c \in CallRec /\ c.pc = "read" /\ c.op = o.op /\ c.key = o.key /\ c.par = o.n /\ c.pkey = Symbol(t)
      /\ c.pv = o.v /\ c.n = o.child[2] /\ c.child = Null
  BY <1>1 DEF CallRec, Todos
<1> HIDE DEF c
<1>4. th'[t] = c /\ node' = node /\ localEpoche' = localEpoche /\ currentEpoche' = currentEpoche
  BY <1>2, <1>3, GoIs DEF IInv, epocheVars
<1>5. Busy(t) /\ localEpoche[t] <= currentEpoche
  BY Knows DEF Local, Doing, Busy, Reading
<1>6. Doing(t)'
  <2>1. ~isInner(c.child)
    BY <1>3, KidIs
  <2> QED
    BY <1>1, <1>3, <1>4, <1>5, <2>1 DEF Doing, Seeking, OwnsN, OwnsP
<1>7. Free(o.v) /\ o.v <= node[o.n].word /\ (node[o.n].word = o.v => o.child = getChild(node[o.n], Symbol(t)))
  BY Knows DEF Local, Snapshot, Valid, Reading
<1>8. node[o.n].word = o.v => KidAt(node, o.n, Symbol(t), o.child[2])
  BY <1>1, <1>7, Knows, GetChildIs DEF KidAt
<1>9. Snapshot(t)'
  BY <1>1, <1>3, <1>4, <1>7, <1>8 DEF Snapshot, ValidP, Reading, OwnsN, OwnsP
<1>10. ASSUME NEW X, Closed(node, X), Refs(o, X)
       PROVE  Refs(c, X)
  BY <1>3, <1>10, KidIs DEF Refs
<1> QED
  BY <1>2, <1>3, <1>5, <1>6, <1>9, <1>10, ReadStep DEF Local, OwnsN, OwnsP

-----------------------------------------------------------------------------
(* The initial states.                                                     *)

\* The nodes of a tree to start with.
LEMMA TreeIs ==
    ASSUME NEW tree \in InitTrees, NEW n \in DOMAIN tree
    PROVE  /\ tree[n].type \in N4 .. N256 /\ tree[n].prefix \in Seq(Symbols) /\ tree[n].kids \in KidMaps
           /\ n \in Nat \ {0} /\ \E N \in Nat \ {0} : DOMAIN tree = 1 .. N
<1>1. IsTree(tree)
  BY TreeAssumption
<1>2. /\ tree[n].type \in N4 .. N256 /\ tree[n].prefix \in Seq(Symbols)
      /\ tree[n].kids = [s \in DOMAIN tree[n].kids |-> tree[n].kids[s]] /\ DOMAIN tree[n].kids \subseteq Symbols
  BY <1>1 DEF IsTree
<1>3. \E N \in Nat \ {0} : DOMAIN tree = 1 .. N
  <2>1. Cardinality(DOMAIN tree) \in Nat
    BY <1>1, FS_CardinalityType DEF IsTree
  <2> QED
    BY <1>1, <2>1 DEF IsTree, Root
<1>4. ASSUME NEW s \in DOMAIN tree[n].kids
      PROVE  tree[n].kids[s] \in Kid
  <2> DEFINE c == tree[n].kids[s]
  <2>1. CASE IsLeafOfKey(c)
    <3>1. c = Leaf(c[2], c[3]) /\ c[2] \in Keys /\ c[3] = c[3]
      BY <2>1 DEF IsLeafOfKey
    <3>2. c[3] \in Tids
      BY DEF Tids
    <3> HIDE DEF c
    <3>3. c \in Kid
      BY <3>1, <3>2, KidIs
    <3> QED
      BY <3>3 DEF c
  <2>2. CASE ~IsLeafOfKey(c)
    <3>1. c = Inner(c[2]) /\ c[2] \in DOMAIN tree
      BY <1>1, <2>2 DEF IsTree
    <3>2. c[2] \in Nat
      BY <1>3, <3>1
    <3> HIDE DEF c
    <3>3. c \in Kid
      BY <3>1, <3>2, KidIs
    <3> QED
      BY <3>3 DEF c
  <2> QED
    BY <2>1, <2>2
<1>5. tree[n].kids \in [DOMAIN tree[n].kids -> Kid]
  <2>1. \A s \in DOMAIN tree[n].kids : tree[n].kids[s] \in Kid
    BY <1>4
  <2> QED
    BY <1>2, <2>1
<1> QED
  BY <1>2, <1>3, <1>5, KidMapIs

\* A thread without a call.
LEMMA IdleIs ==
    /\ Idle \in CallRec /\ Idle.pc = "idle" /\ Idle.op = "none" /\ Idle.n = Root /\ Idle.par = 0 /\ Idle.child = Null
    /\ Idle.todo = "none" /\ Idle.key = <<>>
<1>1. 0 \in Symbols /\ 0 \in Tids /\ Null \in Kid /\ Root \in Nat /\ 0 \in Nat
  BY SymbolsAre, KidIs DEF Tids, Root
<1> QED
  BY <1>1 DEF Idle, AtRoot, CallRec, Todos

\* A thread without a call knows nothing and holds nothing.
LEMMA IdleLocal ==
    ASSUME NEW t \in Threads, th[t] = Idle, Root \in DOMAIN node
    PROVE  Local(t) /\ Held(t) = {} /\ ~Busy(t)
<1>1. Doing(t)
  BY IdleIs, KidIs DEF Doing, Busy, Reading, Seeking, OwnsN, OwnsP
<1>2. Snapshot(t)
  BY IdleIs DEF Snapshot, ValidP, Reading, OwnsN, OwnsP
<1>3. Held(t) = {} /\ ~Busy(t)
  BY IdleIs DEF Held, Busy, Reading, Seeking, OwnsN
<1> QED
  BY <1>1, <1>2, <1>3 DEF Local

\* The trees to start with satisfy the invariant: no node is locked, obsolete or freed, and no call runs.
LEMMA InitInv == Init => IInv
<1> SUFFICES ASSUME Init PROVE IInv
  OBVIOUS
<1>1. PICK tree \in InitTrees :
         /\ node = [n \in DOMAIN tree |-> NewNode(tree[n].type, tree[n].prefix, tree[n].kids)]
         /\ th = [t \in Threads |-> Idle] /\ EpocheInit
  BY DEF Init
<1>2. /\ IsTree(tree) /\ Root \in DOMAIN tree /\ \E N \in Nat \ {0} : DOMAIN tree = 1 .. N
      /\ DOMAIN node = DOMAIN tree
  BY <1>1, TreeAssumption, TreeIs DEF IsTree
<1>3. ASSUME NEW n \in DOMAIN node
      PROVE  /\ node[n] \in NodeRec /\ node[n].word = FreshWord /\ node[n].type = tree[n].type
             /\ node[n].prefix = tree[n].prefix /\ node[n].kids = tree[n].kids
  BY <1>1, <1>2, <1>3, TreeIs, NewNodeIs
<1>4. node \in [DOMAIN node -> NodeRec]
  <2>1. \A n \in DOMAIN node : node[n] \in NodeRec
    BY <1>3
  <2> QED
    BY <1>1, <2>1
<1>5. /\ currentEpoche = 0 /\ localEpoche = [t \in Threads |-> Never] /\ labels = [t \in Threads |-> {}]
      /\ counter = [t \in Threads |-> 0] /\ freed = {}
  BY <1>1 DEF EpocheInit
<1>6. TypeInv
  <2>1. th \in [Threads -> CallRec]
    BY <1>1, IdleIs
  <2>2. /\ currentEpoche \in Nat /\ localEpoche \in [Threads -> Nat] /\ labels \in [Threads -> SUBSET Label]
        /\ counter \in [Threads -> Nat] /\ freed \subseteq DOMAIN node
    BY <1>5 DEF Never
  <2>3. \E N \in Nat \ {0} : DOMAIN node = 1 .. N
    BY <1>2
  <2> QED
    BY <1>4, <2>1, <2>2, <2>3 DEF TypeInv
<1>7. \A t \in Threads : Local(t) /\ Held(t) = {} /\ ~Busy(t)
  BY <1>1, <1>2, IdleLocal
<1>8. \A n \in DOMAIN node : Free(node[n].word) /\ Linked(n)
  <2>1. \A n : ~Lifted(n)
    BY <1>1, IdleIs DEF Lifted
  <2> QED
    BY <1>3, <2>1, WordIs DEF Linked, Free
<1>9. LockInv
  BY <1>7, <1>8 DEF LockInv, Free
<1>10. ASSUME NEW x \in DOMAIN node, NEW s, NEW m, KidAt(node, x, s, m)
       PROVE  s \in DOMAIN tree[x].kids /\ tree[x].kids[s] = Inner(m) /\ m \in DOMAIN node \ {Root}
  <2>1. s \in DOMAIN tree[x].kids /\ tree[x].kids[s] = Inner(m)
    BY <1>3, <1>10 DEF KidAt, InnerAt
  <2>2. isInner(tree[x].kids[s]) /\ ~isLeaf(tree[x].kids[s]) /\ tree[x].kids[s][2] = m
    BY <2>1, KidIs
  <2> QED
    BY <1>2, <2>1, <2>2 DEF IsTree, IsLeafOfKey
<1>11. TreeInv
  <2>1. Linked(Root) /\ node[Root].type = N256 /\ node[Root].prefix = <<>>
    BY <1>2, <1>3, <1>8 DEF IsTree
  <2>2. \A x, y, s, o, m : Linked(x) /\ Linked(y) /\ KidAt(node, x, s, m) /\ KidAt(node, y, o, m) => x = y /\ s = o
    <3> SUFFICES ASSUME NEW x, NEW y, NEW s, NEW o, NEW m, x \in DOMAIN node, y \in DOMAIN node,
                        KidAt(node, x, s, m), KidAt(node, y, o, m)
                 PROVE  x = y /\ s = o
      BY DEF Linked
    <3>1. /\ s \in DOMAIN tree[x].kids /\ tree[x].kids[s] = Inner(m)
          /\ o \in DOMAIN tree[y].kids /\ tree[y].kids[o] = Inner(m)
      BY <1>10
    <3>2. isInner(tree[x].kids[s]) /\ tree[x].kids[s] = tree[y].kids[o] /\ x \in DOMAIN tree /\ y \in DOMAIN tree
      BY <1>2, <3>1, KidIs
    <3> QED
      BY ONLY <1>2, <3>1, <3>2 DEF IsTree
  <2>3. \A x, s, m : Linked(x) /\ KidAt(node, x, s, m) => Linked(m)
    BY <1>8, <1>10 DEF Linked
  <2> QED
    BY <1>5, <1>8, <1>10, <2>1, <2>2, <2>3 DEF TreeInv, Shape, Free
<1> QED
  BY <1>6, <1>7, <1>9, <1>11 DEF IInv

-----------------------------------------------------------------------------
(* The reading actions.                                                    *)

\* A step of a call that stays at its node.
Same(c, o) ==
    c.op = o.op /\ c.key = o.key /\ c.n = o.n /\ c.par = o.par /\ c.pkey = o.pkey /\ c.pv = o.pv

\* A step that only reads and stays at its node.
LEMMA StayStep ==
    ASSUME IInv, NEW t \in Threads, Busy(t), NEW c \in CallRec, Go(t, c), UNCHANGED <<node, epocheVars>>,
           th[t].pc \notin OwnsN \cup OwnsP,
           c.pc \in {"couple", "prefix", "bail", "child", "check", "checkP", "lockN", "lockP"} \cup Seeking,
           Same(c, th[t]),
           c.pc \in {"couple", "prefix", "bail", "child", "check", "checkP", "lockN", "lockP"} =>
              Free(c.v) /\ c.v <= node[c.n].word,
           c.pc \in {"bail", "child", "check"} => c.op # "seek",
           c.pc \in {"checkP", "lockN", "lockP"} => c.op \in {"insert", "remove"},
           c.pc \in Seeking => c.op = "seek",
           c.pc = "checkP" => c.todo \in {"put", "fork", "drop", "descend"},
           c.pc = "lockN" => c.todo \in {"put", "fork", "drop"},
           c.pc = "lockP" => c.todo \in {"split", "grow", "shrink", "pair"} /\ c.par # 0,
           c.pc = "agree" => c.todo \in {"down", "left", "right"},
           c.pc \in {"checkP", "lockN"} /\ c.todo = "fork" => isLeaf(c.child),
           c.pc = "checkP" /\ c.todo = "descend" => isInner(c.child),
           c.pc \in {"check", "checkP"} /\ node[c.n].word = c.v => c.child = getChild(node[c.n], At(c.key, c.level)),
           c.pc = "lockP" /\ c.todo = "pair" /\ node[c.n].word = c.v =>
              At(c.key, c.level) \in DOMAIN node[c.n].kids /\ getCount(node[c.n]) = 2,
           c.pc = "lockP" /\ c.todo = "split" /\ node[c.n].word = c.v => c.hit < Len(node[c.n].prefix),
           c.pc = "lockP" /\ c.todo = "grow" /\ node[c.n].word = c.v => node[c.n].type # N256,
           c.pc = "lockP" /\ c.todo = "shrink" /\ node[c.n].word = c.v => node[c.n].type # N4,
           \/ c.child = th[t].child
           \/ ~isInner(c.child)
           \/ c.child[2] = c.n
           \/ \E x \in DOMAIN node : \E o : KidAt(node, x, o, c.child[2]) /\ (x = c.n \/ (isInner(th[t].child) /\ x = th[t].child[2]))
    PROVE  IInv'
<1>0. /\ c.op = th[t].op /\ c.key = th[t].key /\ c.n = th[t].n /\ c.par = th[t].par
      /\ c.pkey = th[t].pkey /\ c.pv = th[t].pv
  BY DEF Same
<1>1. th'[t] = c /\ node' = node /\ localEpoche' = localEpoche /\ currentEpoche' = currentEpoche
  BY GoIs DEF IInv, epocheVars
<1>2. \A X : Closed(node, X) /\ Refs(th[t], X) => Refs(c, X)
  BY <1>0 DEF Closed, Refs
<1>3. isInner(c.child) => c.child[2] \in DOMAIN node
  BY <1>0, Knows
<1>4. c.key \in Keys /\ localEpoche[t] <= currentEpoche /\ c.n \in DOMAIN node /\ c.par \in DOMAIN node \cup {0}
  BY <1>0, Knows DEF Local, Doing, Busy, Reading, Seeking, OwnsN
<1>5. /\ c.pc \in {"couple", "prefix", "bail", "child", "check", "checkP", "lockN", "lockP"} \cup Seeking => c.pc \notin OwnsN \cup OwnsP
      /\ c.pc # "idle" /\ c.pc # "enter" /\ c.pc # "lockB"
  BY DEF Seeking, OwnsN, OwnsP
<1>6. Doing(t)'
  <2>1. (c.par = 0 => c.n = Root \/ c.op = "seek") /\ (c.op = "seek" => c.par = 0)
    BY <1>0, Knows DEF Local, Doing
  <2> QED
    BY <1>1, <1>3, <1>4, <1>5, <2>1 DEF Doing, OwnsN, OwnsP
<1>7. Snapshot(t)'
  <2>1. c.par # 0 => Free(c.pv) /\ c.pv <= node[c.par].word
    BY <1>0, Knows DEF Local, Snapshot
  <2>2. c.par # 0 /\ node[c.par].word = c.pv => KidAt(node, c.par, c.pkey, c.n)
    BY <1>0, Knows DEF Local, Snapshot, ValidP
  <2>3. Symbol(t)' = At(c.key, c.level)
    BY <1>1 DEF Symbol
  <2>4. Valid(t)' => node[c.n].word = c.v
    BY <1>1, <1>5 DEF Valid
  <2>5. ValidP(t)' => c.par # 0 /\ node[c.par].word = c.pv
    BY <1>1, <1>5 DEF ValidP
  <2>6. /\ c.pc \in Reading => Free(c.v) /\ c.v <= node[c.n].word
        /\ c.pc \notin OwnsN /\ c.pc \notin OwnsP /\ c.pc \notin {"pair", "lift", "join", "split", "lockB", "grow", "shrink"}
    BY <1>5 DEF Reading, Seeking, OwnsN, OwnsP
  <2> QED
    BY <1>1, <2>1, <2>2, <2>3, <2>4, <2>5, <2>6 DEF Snapshot
<1>8. Busy(t)' => Busy(t)
  OBVIOUS
<1> QED
  BY <1>2, <1>5, <1>6, <1>7, ReadStep DEF Local

\* A call whose thread is in the tree.
LEMMA InTree ==
    ASSUME IInv, NEW t \in Threads, th[t].pc \in Reading
    PROVE  Busy(t) /\ Free(th[t].v) /\ th[t].v <= node[th[t].n].word
BY Knows DEF Busy, Local, Snapshot

\* readLockOrRestart: the version is that of a free node.
LEMMA readLockOrRestartKeeps ==
    ASSUME IInv, NEW t \in Threads, readLockOrRestart(t) PROVE IInv'
<1> DEFINE w == node[th[t].n].word
<1>1. th[t] \in CallRec /\ th[t].pc = "read" /\ w \in Nat /\ Busy(t) /\ th[t].pc \notin OwnsN \cup OwnsP
  BY Knows, NodeIs DEF readLockOrRestart, Busy, OwnsN, OwnsP
<1>2. UNCHANGED <<node, epocheVars>>
  BY DEF readLockOrRestart, Reads
<1>3. CASE isLocked(w) \/ isObsolete(w)
  BY <1>1, <1>2, <1>3, RestartStep DEF readLockOrRestart
<1>4. CASE ~(isLocked(w) \/ isObsolete(w))
  <2> DEFINE p == IF th[t].op = "lookup" /\ th[t].par # 0 THEN "couple" ELSE "prefix"
             c == [th[t] EXCEPT !.pc = p, !.v = w]
  <2>1. Go(t, c)
    BY <1>4 DEF readLockOrRestart
  <2>2. c \in CallRec /\ c.pc \in {"couple", "prefix"} /\ Same(c, th[t]) /\ c.v = w /\ c.child = th[t].child
    BY <1>1 DEF CallRec, Reading, Same
  <2>3. Free(w) /\ c.pc \notin Seeking
    BY <1>4, <2>2 DEF Free, Seeking
  <2> HIDE DEF c, w
  <2> QED
    BY <1>1, <1>2, <2>1, <2>2, <2>3, StayStep DEF w, Same
<1> QED
  BY <1>3, <1>4

\* lookup's check of the parent's version.
LEMMA CoupleKeeps ==
    ASSUME IInv, NEW t \in Threads, Couple(t) PROVE IInv'
<1>1. th[t] \in CallRec /\ th[t].pc = "couple" /\ th[t].pc \in Reading /\ th[t].pc \notin OwnsN \cup OwnsP
  BY Knows DEF Couple, Reading, OwnsN, OwnsP
<1>2. UNCHANGED <<node, epocheVars>> /\ Busy(t) /\ Free(th[t].v) /\ th[t].v <= node[th[t].n].word
  BY <1>1, InTree DEF Couple, Reads
<1>3. CASE Restart(t)
  BY <1>1, <1>2, <1>3, RestartStep
<1>4. CASE GoTo(t, "prefix")
  <2> DEFINE c == [th[t] EXCEPT !.pc = "prefix"]
  <2>1. c \in CallRec /\ c.pc = "prefix" /\ Same(c, th[t]) /\ c.v = th[t].v /\ c.child = th[t].child
    BY <1>1 DEF CallRec, Reading, Same
  <2>2. Go(t, c) /\ "prefix" \notin Seeking
    BY <1>4 DEF GoTo, Seeking
  <2> HIDE DEF c
  <2> QED
    BY <1>1, <1>2, <2>1, <2>2, StayStep DEF Same
<1> QED
  BY <1>3, <1>4 DEF Couple

\* checkPrefix of lookup and remove.
LEMMA PrefixKeeps ==
    ASSUME IInv, NEW t \in Threads, Prefix(t) PROVE IInv'
<1> DEFINE o == th[t]
           p == node[o.n].prefix
<1>1. o \in CallRec /\ o.pc = "prefix" /\ o.pc \in Reading /\ o.pc \notin OwnsN \cup OwnsP
      /\ o.op # "seek" /\ o.level \in Nat /\ Len(p) \in Nat /\ o.level + Len(p) \in Nat
  BY Knows, NodeIs, CallIs DEF Prefix, Reading, OwnsN, OwnsP
<1>2. UNCHANGED <<node, epocheVars>> /\ Busy(t) /\ Free(o.v) /\ o.v <= node[o.n].word
  BY <1>1, InTree DEF Prefix, Reads
<1>3. "child" \notin Seeking /\ "bail" \notin Seeking
  BY DEF Seeking
<1>4. CASE Go(t, [o EXCEPT !.pc = "child", !.level = o.level + Len(p)])
  <2> DEFINE c == [o EXCEPT !.pc = "child", !.level = o.level + Len(p)]
  <2>1. c \in CallRec /\ c.pc = "child" /\ Same(c, o) /\ c.v = o.v /\ c.child = o.child /\ c.op # "seek" /\ Go(t, c)
    BY <1>1, <1>4 DEF CallRec, Reading, Same
  <2> HIDE DEF c
  <2> QED
    BY <1>1, <1>2, <1>3, <2>1, StayStep DEF Same
<1>5. CASE GoTo(t, "bail")
  <2> DEFINE c == [o EXCEPT !.pc = "bail"]
  <2>1. c \in CallRec /\ c.pc = "bail" /\ Same(c, o) /\ c.v = o.v /\ c.child = o.child /\ c.op # "seek" /\ Go(t, c)
    BY <1>1, <1>5 DEF CallRec, Reading, Same, GoTo
  <2> HIDE DEF c
  <2> QED
    BY <1>1, <1>2, <1>3, <2>1, StayStep DEF Same
<1> QED
  BY <1>4, <1>5 DEF Prefix

\* checkPrefixPessimistic: it goes on to the child, or to lock the parent for a split.
LEMMA checkPrefixPessimisticKeeps ==
    ASSUME IInv, NEW t \in Threads, checkPrefixPessimistic(t) PROVE IInv'
<1> DEFINE o == th[t]
           p == node[o.n].prefix
           hit == Agrees(p, o.key, o.level)
<1>1. o \in CallRec /\ o.pc = "prefix" /\ o.pc \in Reading /\ o.pc \notin OwnsN \cup OwnsP
      /\ o.op = "insert" /\ o.level \in Nat /\ p \in Seq(Symbols)
  BY Knows, NodeIs, CallIs DEF checkPrefixPessimistic, Reading, OwnsN, OwnsP
<1>2. UNCHANGED <<node, epocheVars>> /\ Busy(t) /\ Free(o.v) /\ o.v <= node[o.n].word
  BY <1>1, InTree DEF checkPrefixPessimistic, Reads
<1>3. hit \in Nat /\ hit <= Len(p) /\ (p = <<>> => hit = Len(p)) /\ o.level + hit \in Nat /\ Len(p) \in Nat
  BY <1>1, AgreesIs
<1> HIDE DEF hit
<1>4. CASE hit = Len(p)
  <2> DEFINE c == [o EXCEPT !.pc = "child", !.level = o.level + hit]
  <2>1. Go(t, c)
    BY <1>4 DEF checkPrefixPessimistic, hit
  <2>2. c \in CallRec /\ c.pc = "child" /\ Same(c, o) /\ c.v = o.v /\ c.child = o.child /\ c.op # "seek"
    BY <1>1, <1>3 DEF CallRec, Reading, Same
  <2>3. "child" \notin Seeking
    BY DEF Seeking
  <2> HIDE DEF c
  <2> QED
    BY <1>1, <1>2, <2>1, <2>2, <2>3, StayStep DEF Same
<1>5. CASE hit # Len(p)
  <2> DEFINE c == [o EXCEPT !.pc = "lockP", !.hit = hit, !.todo = "split"]
  <2>1. Go(t, c)
    BY <1>5 DEF checkPrefixPessimistic, hit
  <2>2. c \in CallRec /\ c.pc = "lockP" /\ Same(c, o) /\ c.v = o.v /\ c.child = o.child /\ c.op = "insert"
        /\ c.hit = hit /\ c.todo = "split"
    BY <1>1, <1>3 DEF CallRec, Reading, Same, Todos
  <2>3. "lockP" \notin Seeking /\ hit < Len(p)
    BY <1>3, <1>5 DEF Seeking
  <2>4. o.par # 0
    <3>1. o.par = 0 => o.n = Root
      BY <1>1, Knows DEF Local, Doing
    <3>2. node[Root].prefix = <<>>
      BY DEF IInv, TreeInv, Shape
    <3> QED
      BY <1>3, <1>5, <3>1, <3>2
  <2> HIDE DEF c
  <2> QED
    BY <1>1, <1>2, <2>1, <2>2, <2>3, <2>4, StayStep DEF Same
<1> QED
  BY <1>4, <1>5

\* A check that ends the call or restarts it.
LEMMA BailKeeps ==
    ASSUME IInv, NEW t \in Threads, Bail(t) \/ CheckFails(t) PROVE IInv'
<1>1. th[t] \in CallRec /\ th[t].pc \in {"bail", "check"} /\ th[t].pc \in Reading /\ th[t].pc \notin OwnsN \cup OwnsP
  BY Knows DEF Bail, CheckFails, Reading, OwnsN, OwnsP
<1>2. UNCHANGED <<node, epocheVars>> /\ Busy(t)
  BY <1>1, InTree DEF Bail, CheckFails, Reads
<1>3. Restart(t) \/ Return(t, Null)
  BY DEF Bail, CheckFails
<1> QED
  BY <1>1, <1>2, <1>3, RestartStep, KidIs

\* The child is read between the version and its check.
LEMMA ReadChildKeeps ==
    ASSUME IInv, NEW t \in Threads, ReadChild(t) PROVE IInv'
<1> DEFINE o == th[t]
           kid == getChild(node[o.n], Symbol(t))
           c == [o EXCEPT !.pc = "check", !.child = kid]
<1>1. o \in CallRec /\ o.pc = "child" /\ o.pc \in Reading /\ o.pc \notin OwnsN \cup OwnsP /\ o.n \in DOMAIN node
  BY Knows DEF ReadChild, Reading, OwnsN, OwnsP
<1>2. UNCHANGED <<node, epocheVars>> /\ Busy(t) /\ Free(o.v) /\ o.v <= node[o.n].word /\ o.op # "seek"
  BY <1>1, InTree, Knows DEF ReadChild, Reads, Local, Doing
<1>3. Go(t, c)
  BY DEF ReadChild, Symbol
<1>4. kid \in Kid /\ (isInner(kid) => KidAt(node, o.n, Symbol(t), kid[2]))
  BY Knows, GetChildIs DEF KidAt
<1> HIDE DEF kid
<1>5. c \in CallRec /\ c.pc = "check" /\ Same(c, o) /\ c.v = o.v /\ c.child = kid /\ c.op # "seek" /\ c.level = o.level
  BY <1>1, <1>2, <1>4 DEF CallRec, Reading, Same
<1>6. "check" \notin Seeking /\ c.n = o.n /\ Symbol(t) = At(c.key, c.level)
  BY <1>5 DEF Seeking, Same, Symbol
<1> HIDE DEF c
<1>7. c.child = getChild(node[c.n], At(c.key, c.level))
  BY <1>5, <1>6 DEF kid
<1> QED
  BY <1>1, <1>2, <1>3, <1>4, <1>5, <1>6, <1>7, StayStep

\* A check of the child that was read.
LEMMA CheckedIs ==
    ASSUME IInv, NEW t \in Threads, NEW op, Checked(t, op), op # "seek"
    PROVE  /\ th[t] \in CallRec /\ th[t].pc = "check" /\ th[t].op = op /\ th[t].pc \notin OwnsN \cup OwnsP
           /\ Busy(t) /\ Free(th[t].v) /\ node[th[t].n].word = th[t].v /\ th[t].v \in Nat /\ node[th[t].n] \in NodeRec
           /\ th[t].child = getChild(node[th[t].n], Symbol(t)) /\ th[t].child \in Kid /\ th[t].n \in DOMAIN node
           /\ th[t].par = 0 => th[t].n = Root
<1>1. th[t] \in CallRec /\ th[t].pc = "check" /\ th[t].pc \in Reading /\ th[t].op = op /\ th[t].pc \notin OwnsN \cup OwnsP
      /\ node[th[t].n].word = th[t].v
  BY Knows DEF Checked, Reading, OwnsN, OwnsP, Unchanged
<1>2. Busy(t) /\ Free(th[t].v) /\ th[t].v \in Nat /\ th[t].child \in Kid
  BY <1>1, InTree, CallIs
<1>3. th[t].child = getChild(node[th[t].n], Symbol(t))
  BY <1>1, Knows DEF Local, Snapshot, Valid
<1>4. th[t].par = 0 => th[t].n = Root
  BY <1>1, Knows DEF Local, Doing
<1> QED
  BY <1>1, <1>2, <1>3, <1>4, Knows

\* After it the call goes on to lock, or to the parent's version.
LEMMA CheckGoes ==
    ASSUME IInv, NEW t \in Threads, NEW op \in {"insert", "remove"}, Checked(t, op), UNCHANGED <<node, epocheVars>>,
           NEW pc \in {"checkP", "lockP"}, NEW todo \in Todos, GoDo(t, pc, todo),
           pc = "checkP" => \/ todo \in {"put", "drop"}
                            \/ todo = "fork" /\ isLeaf(th[t].child)
                            \/ todo = "descend" /\ isInner(th[t].child),
           pc = "lockP" => /\ th[t].par # 0 /\ todo \in {"grow", "shrink", "pair"}
                           /\ todo = "pair" => isLeaf(th[t].child) /\ getCount(node[th[t].n]) = 2
                           /\ todo = "grow" => isFull(node[th[t].n])
                           /\ todo = "shrink" => isUnderfull(node[th[t].n])
    PROVE  IInv'
<1> DEFINE o == th[t]
           c == [o EXCEPT !.pc = pc, !.todo = todo]
<1>1. /\ o \in CallRec /\ o.pc = "check" /\ o.op = op /\ o.pc \notin OwnsN \cup OwnsP
      /\ Busy(t) /\ Free(o.v) /\ node[o.n].word = o.v /\ o.v \in Nat
      /\ o.child = getChild(node[o.n], Symbol(t))
  BY CheckedIs
<1>2. /\ c \in CallRec /\ c.pc = pc /\ c.todo = todo /\ Same(c, o) /\ c.v = o.v /\ c.child = o.child
      /\ c.level = o.level /\ c.hit = o.hit
  BY <1>1 DEF CallRec, Same, Reading
<1>3. Go(t, c)
  BY DEF GoDo
<1>4. pc \notin Seeking
  BY DEF Seeking
<1> HIDE DEF c
<1>5. Symbol(t) = At(c.key, c.level) /\ c.n = o.n /\ c.op = op /\ c.par = o.par
  BY <1>1, <1>2 DEF Same, Symbol
<1>6. todo = "pair" /\ pc = "lockP" => Symbol(t) \in DOMAIN node[o.n].kids
  BY <1>1, KidIs DEF getChild
<1>7. pc = "lockP" => /\ todo = "grow" => node[o.n].type # N256
                      /\ todo = "shrink" => node[o.n].type # N4
  BY DEF isFull, isUnderfull
<1> QED
  BY <1>1, <1>2, <1>3, <1>4, <1>5, <1>6, <1>7, StayStep

\* lookup after its check.
LEMMA CheckLookupKeeps ==
    ASSUME IInv, NEW t \in Threads, CheckLookup(t) PROVE IInv'
<1>1. Checked(t, "lookup") /\ UNCHANGED <<node, epocheVars>>
  BY DEF CheckLookup, Reads
<1>2. th[t].pc = "check" /\ th[t].op = "lookup" /\ th[t].pc \notin OwnsN \cup OwnsP /\ Busy(t) /\ th[t].child \in Kid
  BY <1>1, CheckedIs
<1>3. CASE isInner(th[t].child)
  BY <1>1, <1>2, <1>3, DescendStep DEF CheckLookup
<1>4. CASE ~isInner(th[t].child)
  BY <1>1, <1>2, <1>4, RestartStep, KidIs DEF CheckLookup
<1> QED
  BY <1>3, <1>4

\* insert after its check: grow, put, fork or descend.
LEMMA CheckInsertKeeps ==
    ASSUME IInv, NEW t \in Threads, CheckInsert(t) PROVE IInv'
<1>1. Checked(t, "insert") /\ UNCHANGED <<node, epocheVars>>
  BY DEF CheckInsert, Reads
<1>2. th[t].child \in Kid /\ (th[t].par = 0 => th[t].n = Root)
  BY <1>1, CheckedIs
<1>3. {"put", "fork", "grow", "descend"} \subseteq Todos
  BY DEF Todos
<1>4. CASE th[t].child = Null /\ isFull(node[th[t].n])
  <2>1. th[t].par # 0
    BY <1>2, <1>4 DEF isFull, IInv, TreeInv, Shape
  <2>2. GoDo(t, "lockP", "grow")
    BY <1>4, KidIs DEF CheckInsert
  <2> QED
    BY <1>1, <1>3, <1>4, <2>1, <2>2, CheckGoes
<1>5. CASE th[t].child = Null /\ ~isFull(node[th[t].n])
  BY <1>1, <1>3, <1>5, CheckGoes DEF CheckInsert
<1>6. CASE isLeaf(th[t].child)
  <2>1. th[t].child # Null
    BY <1>6, KidIs
  <2>2. GoDo(t, "checkP", "fork")
    BY <1>6, <2>1 DEF CheckInsert
  <2> QED
    BY <1>1, <1>3, <1>6, <2>2, CheckGoes
<1>7. CASE isInner(th[t].child)
  <2>1. th[t].child # Null /\ ~isLeaf(th[t].child)
    BY <1>2, <1>7, KidIs
  <2>2. GoDo(t, "checkP", "descend")
    BY <2>1 DEF CheckInsert
  <2> QED
    BY <1>1, <1>3, <1>7, <2>2, CheckGoes
<1> QED
  BY <1>2, <1>4, <1>5, <1>6, <1>7, KidIs

\* remove after its check: nothing, descend, pair, shrink or drop.
LEMMA CheckRemoveKeeps ==
    ASSUME IInv, NEW t \in Threads, CheckRemove(t) PROVE IInv'
<1>1. Checked(t, "remove") /\ UNCHANGED <<node, epocheVars>>
  BY DEF CheckRemove, Reads
<1>2. th[t].pc = "check" /\ th[t].op = "remove" /\ th[t].pc \notin OwnsN \cup OwnsP /\ Busy(t) /\ th[t].child \in Kid
  BY <1>1, CheckedIs
<1>3. {"pair", "shrink", "drop"} \subseteq Todos
  BY DEF Todos
<1>4. CASE th[t].child = Null
  BY <1>1, <1>2, <1>4, RestartStep, KidIs DEF CheckRemove
<1>5. CASE isInner(th[t].child)
  <2>1. th[t].child # Null /\ ~isLeaf(th[t].child)
    BY <1>2, <1>5, KidIs
  <2>2. Descend(t)
    BY <1>5, <2>1 DEF CheckRemove
  <2> QED
    BY <1>1, <1>2, <1>5, <2>2, DescendStep
<1>6. CASE isLeaf(th[t].child) /\ th[t].child # MyLeaf(t)
  <2>1. th[t].child # Null /\ ~isInner(th[t].child)
    BY <1>2, <1>6, KidIs DEF isInner, isLeaf
  <2>2. Return(t, Null)
    BY <1>6, <2>1 DEF CheckRemove
  <2> QED
    BY <1>1, <1>2, <2>2, RestartStep, KidIs
<1>7. CASE isLeaf(th[t].child) /\ th[t].child = MyLeaf(t)
  <2>1. th[t].child # Null /\ ~isInner(th[t].child)
    BY <1>2, <1>7, KidIs DEF isInner, isLeaf
  <2>2. IF th[t].par # 0 /\ getCount(node[th[t].n]) = 2 THEN GoDo(t, "lockP", "pair")
        ELSE IF th[t].par # 0 /\ isUnderfull(node[th[t].n]) THEN GoDo(t, "lockP", "shrink")
        ELSE GoDo(t, "checkP", "drop")
    BY <1>7, <2>1 DEF CheckRemove
  <2>3. CASE th[t].par # 0 /\ getCount(node[th[t].n]) = 2
    BY <1>1, <1>3, <1>7, <2>2, <2>3, CheckGoes
  <2>4. CASE th[t].par # 0 /\ isUnderfull(node[th[t].n]) /\ ~(th[t].par # 0 /\ getCount(node[th[t].n]) = 2)
    BY <1>1, <1>3, <2>2, <2>4, CheckGoes
  <2>5. CASE ~(th[t].par # 0 /\ isUnderfull(node[th[t].n])) /\ ~(th[t].par # 0 /\ getCount(node[th[t].n]) = 2)
    <3>1. GoDo(t, "checkP", "drop")
      BY <2>2, <2>5
    <3> QED
      BY <1>1, <1>3, <3>1, CheckGoes
  <2> QED
    BY <2>3, <2>4, <2>5
<1> QED
  BY <1>2, <1>4, <1>5, <1>6, <1>7, KidIs

\* The check of the parent's version before the lock or the step down.
LEMMA CheckParentKeeps ==
    ASSUME IInv, NEW t \in Threads, CheckParent(t) PROVE IInv'
<1> DEFINE o == th[t]
<1>1. o \in CallRec /\ o.pc = "checkP" /\ o.pc \in Reading /\ o.pc \notin OwnsN \cup OwnsP
  BY Knows DEF CheckParent, Reading, OwnsN, OwnsP
<1>2. UNCHANGED <<node, epocheVars>> /\ Busy(t) /\ Free(o.v) /\ o.v <= node[o.n].word
  BY <1>1, InTree DEF CheckParent, Reads
<1>3. /\ o.op \in {"insert", "remove"} /\ o.todo \in {"put", "fork", "drop", "descend"}
      /\ o.todo = "fork" => isLeaf(o.child)
      /\ o.todo = "descend" => isInner(o.child)
  BY <1>1, Knows DEF Local, Doing
<1>4. CASE Restart(t)
  BY <1>1, <1>2, <1>4, RestartStep
<1>5. CASE o.todo = "descend" /\ Descend(t)
  BY <1>1, <1>2, <1>3, <1>5, DescendStep
<1>6. CASE o.todo # "descend" /\ GoTo(t, "lockN")
  <2> DEFINE c == [o EXCEPT !.pc = "lockN"]
  <2>1. c \in CallRec /\ c.pc = "lockN" /\ Same(c, o) /\ c.v = o.v /\ c.child = o.child /\ c.todo = o.todo /\ Go(t, c)
    BY <1>1, <1>6 DEF CallRec, Reading, Same, GoTo
  <2>2. "lockN" \notin Seeking /\ c.n = o.n /\ c.op = o.op
    BY <2>1 DEF Seeking, Same
  <2> HIDE DEF c
  <2> QED
    BY <1>1, <1>2, <1>3, <1>6, <2>1, <2>2, StayStep
<1> QED
  BY <1>4, <1>5, <1>6 DEF CheckParent

\* seekLE's comparison of the prefix.
LEMMA PrefixCompareKeeps ==
    ASSUME IInv, NEW t \in Threads, PrefixCompare(t) PROVE IInv'
<1> DEFINE o == th[t]
           way == checkPrefixCompare(node[o.n], o.key, o.level)
           down == IF way = "down" THEN Len(node[o.n].prefix) ELSE 0
           c == [o EXCEPT !.pc = "agree", !.todo = way, !.level = o.level + down]
<1>1. o \in CallRec /\ o.pc = "prefix" /\ o.pc \in Reading /\ o.pc \notin OwnsN \cup OwnsP /\ o.op = "seek"
      /\ o.level \in Nat /\ Len(node[o.n].prefix) \in Nat
  BY Knows, NodeIs, CallIs DEF PrefixCompare, Reading, OwnsN, OwnsP
<1>2. UNCHANGED <<node, epocheVars>> /\ Busy(t)
  BY <1>1, InTree DEF PrefixCompare, Reads
<1>3. way \in {"down", "left", "right"} /\ Go(t, c)
  BY DEF checkPrefixCompare, PrefixCompare
<1>4. o.level + down \in Nat
  BY <1>1
<1> HIDE DEF way, down
<1>5. /\ c \in CallRec /\ c.pc = "agree" /\ c.todo = way /\ Same(c, o) /\ c.child = o.child /\ c.op = "seek"
      /\ "agree" \in Seeking
  BY <1>1, <1>3, <1>4 DEF CallRec, Seeking, Todos, Same
<1> HIDE DEF c
<1> QED
  BY <1>1, <1>2, <1>3, <1>5, StayStep

\* A call of seekLE behind the check of its node.
LEMMA SeeksIs ==
    ASSUME IInv, NEW t \in Threads, th[t].pc \in Seeking
    PROVE  /\ th[t] \in CallRec /\ th[t].pc \notin OwnsN \cup OwnsP /\ th[t].op = "seek" /\ Busy(t)
           /\ th[t].n \in DOMAIN node /\ node[th[t].n] \in NodeRec /\ th[t].n \in Nat /\ th[t].par = 0
           /\ th[t].child \in Kid
<1>1. th[t].pc \notin OwnsN \cup OwnsP /\ Busy(t)
  BY DEF Seeking, OwnsN, OwnsP, Busy
<1>2. th[t] \in CallRec /\ th[t].n \in DOMAIN node /\ node[th[t].n] \in NodeRec /\ th[t].n \in Nat
  BY Knows, CallIs
<1>3. th[t].op = "seek" /\ th[t].par = 0
  BY Knows DEF Local, Doing
<1> QED
  BY <1>1, <1>2, <1>3, CallIs

\* seekLE's check of the version; the children it reads next are not validated.
LEMMA AgreeKeeps ==
    ASSUME IInv, NEW t \in Threads, Agree(t) PROVE IInv'
<1> DEFINE o == th[t]
           c == [o EXCEPT !.pc = o.todo, !.child = Inner(o.n)]
<1>1. o.pc = "agree" /\ o.pc \in Seeking /\ UNCHANGED <<node, epocheVars>>
  BY DEF Agree, Reads, Seeking
<1>2. o.todo \in {"down", "left", "right"}
  BY <1>1, Knows DEF Local, Doing
<1>3. CASE Restart(t)
  BY <1>1, <1>3, SeeksIs, RestartStep
<1>4. CASE Go(t, c)
  <2>1. Inner(o.n) \in Kid /\ Inner(o.n)[2] = o.n /\ o \in CallRec
    BY <1>1, SeeksIs, KidIs
  <2>2. /\ c \in CallRec /\ c.pc = o.todo /\ Same(c, o) /\ c.child = Inner(o.n) /\ o.todo \in Seeking
        /\ c.n = o.n /\ c.op = o.op
    BY <1>2, <2>1 DEF CallRec, Seeking, Same
  <2> HIDE DEF c
  <2> QED
    BY <1>1, <1>2, <1>4, <2>1, <2>2, SeeksIs, StayStep
<1> QED
  BY <1>3, <1>4 DEF Agree

\* seekLE reads a child at the node, or at the child it read before.
LEMMA SeekGoes ==
    ASSUME IInv, NEW t \in Threads, th[t].pc \in Seeking, UNCHANGED <<node, epocheVars>>,
           NEW pc \in {"smaller", "larger", "left", "right"}, NEW kid \in Kid,
           Go(t, [th[t] EXCEPT !.pc = pc, !.child = kid]),
           \/ kid = th[t].child
           \/ ~isInner(kid)
           \/ \E x \in DOMAIN node : \E o : KidAt(node, x, o, kid[2]) /\ (x = th[t].n \/ (isInner(th[t].child) /\ x = th[t].child[2]))
    PROVE  IInv'
<1> DEFINE o == th[t]
           c == [o EXCEPT !.pc = pc, !.child = kid]
<1>1. o \in CallRec /\ pc \in Seeking
  BY SeeksIs DEF Seeking
<1>2. c \in CallRec /\ c.pc = pc /\ Same(c, o) /\ c.child = kid /\ c.n = o.n /\ c.op = o.op
  BY <1>1 DEF CallRec, Same
<1>3. Go(t, c)
  OBVIOUS
<1> HIDE DEF c
<1> QED
  BY <1>1, <1>2, <1>3, SeeksIs, StayStep

\* seekLE's step to the child of the key's symbol.
LEMMA DownKeeps ==
    ASSUME IInv, NEW t \in Threads, Down(t) PROVE IInv'
<1> DEFINE o == th[t]
           kid == getChild(node[o.n], Symbol(t))
<1>1. o.pc = "down" /\ o.pc \in Seeking /\ UNCHANGED <<node, epocheVars>>
  BY DEF Down, Reads, Seeking
<1>2. /\ o \in CallRec /\ o.pc \notin OwnsN \cup OwnsP /\ o.op = "seek" /\ Busy(t)
      /\ o.n \in DOMAIN node /\ node[o.n] \in NodeRec /\ o.n \in Nat /\ o.par = 0 /\ o.level \in Nat
  BY <1>1, SeeksIs, CallIs
<1>3. kid \in Kid /\ (isInner(kid) => KidAt(node, o.n, Symbol(t), kid[2]))
  BY <1>2, GetChildIs DEF KidAt
<1> HIDE DEF kid
<1>4. CASE kid = Null
  <2>1. GoTo(t, "smaller")
    BY <1>4, KidIs DEF Down, kid
  <2>2. Go(t, [o EXCEPT !.pc = "smaller", !.child = o.child])
    <3>1. [o EXCEPT !.pc = "smaller"] = [o EXCEPT !.pc = "smaller", !.child = o.child]
      BY <1>2 DEF CallRec
    <3> QED
      BY <2>1, <3>1 DEF GoTo
  <2>3. o.child \in Kid
    BY <1>1, SeeksIs
  <2> QED
    BY <1>1, <2>2, <2>3, SeekGoes
<1>5. CASE isLeaf(kid)
  <2>1. Return(t, kid)
    <3>1. kid # Null /\ ~isInner(kid)
      BY <1>5, KidIs DEF isInner, isLeaf
    <3> QED
      BY <1>5, <3>1 DEF Down, kid
  <2> QED
    BY <1>1, <1>2, <1>3, <2>1, RestartStep
<1>6. CASE isInner(kid)
  <2> DEFINE c == [o EXCEPT !.pc = "read", !.n = kid[2], !.level = o.level + 1, !.child = Null, !.todo = "none"]
  <2>1. Go(t, c)
    <3>1. kid # Null /\ ~isLeaf(kid)
      BY <1>3, <1>6, KidIs
    <3> QED
      BY <1>6, <3>1 DEF Down, kid
  <2>2. kid[2] \in DOMAIN node /\ kid[2] \in Nat /\ Null \in Kid /\ o.level + 1 \in Nat
    BY <1>2, <1>3, <1>6, Knows, KidIs
  <2>3. /\ c \in CallRec /\ c.pc = "read" /\ c.op = "seek" /\ c.key = o.key /\ c.n = kid[2] /\ c.par = 0 /\ c.child = Null
    BY <1>2, <2>2 DEF CallRec, Todos
  <2> HIDE DEF c
  <2>4. th'[t] = c /\ node' = node /\ localEpoche' = localEpoche /\ currentEpoche' = currentEpoche
    BY <1>1, <2>1, <2>3, GoIs DEF IInv, epocheVars
  <2>5. Doing(t)'
    <3>1. o.key \in Keys /\ localEpoche[t] <= currentEpoche /\ ~isInner(Null)
      BY <1>1, <1>2, Knows, KidIs DEF Local, Doing
    <3> QED
      BY <2>2, <2>3, <2>4, <3>1 DEF Doing, Seeking, OwnsN, OwnsP
  <2>6. Snapshot(t)'
    BY <2>3, <2>4 DEF Snapshot, ValidP, Reading, OwnsN, OwnsP
  <2>7. \A X : Closed(node, X) /\ Refs(o, X) => Refs(c, X)
    BY <1>2, <1>3, <1>6, <2>3, KidIs DEF Closed, Refs
  <2> QED
    BY <1>1, <1>2, <2>1, <2>3, <2>5, <2>6, <2>7, ReadStep DEF Local, OwnsN, OwnsP
<1> QED
  BY <1>3, <1>4, <1>5, <1>6, KidIs

\* seekLE's step to a neighbour of the key's symbol.
LEMMA SmallerKeeps ==
    ASSUME IInv, NEW t \in Threads, Smaller(t) \/ Larger(t) PROVE IInv'
<1> DEFINE o == th[t]
<1>1. o.pc \in Seeking /\ UNCHANGED <<node, epocheVars>>
  BY DEF Smaller, Larger, Reads, Seeking
<1>2. o \in CallRec /\ o.n \in DOMAIN node /\ node[o.n] \in NodeRec /\ o.child \in Kid
  BY <1>1, SeeksIs
<1>3. CASE GoTo(t, "larger")
  <2>1. [o EXCEPT !.pc = "larger"] = [o EXCEPT !.pc = "larger", !.child = o.child]
    BY <1>2 DEF CallRec
  <2>2. Go(t, [o EXCEPT !.pc = "larger", !.child = o.child])
    BY <1>3, <2>1 DEF GoTo
  <2> QED
    BY <1>1, <1>2, <2>2, SeekGoes
<1>4. ASSUME NEW pc \in {"left", "right"}, NEW kid, kid = seek(node[o.n], Symbol(t)) \/ kid = seekSmaller(node[o.n], Symbol(t)),
             Go(t, [o EXCEPT !.pc = pc, !.child = kid])
      PROVE  IInv'
  <2>1. kid \in Kid /\ (isInner(kid) => \E x : KidAt(node, o.n, x, kid[2]))
    BY <1>2, <1>4, SeekIs DEF KidAt
  <2> QED
    BY <1>1, <1>2, <1>4, <2>1, SeekGoes
<1> QED
  BY <1>3, <1>4 DEF Smaller, Larger

\* seekLE's way to the first or the last leaf below.
LEMMA OutermostKeeps ==
    ASSUME IInv, NEW t \in Threads, Outermost(t) PROVE IInv'
<1> DEFINE o == th[t]
           kid == o.child
           next == IF o.pc = "left" THEN seek(node[kid[2]], Min(Symbols)) ELSE seekSmaller(node[kid[2]], Max(Symbols))
<1>1. o.pc \in {"left", "right"} /\ o.pc \in Seeking /\ UNCHANGED <<node, epocheVars>> /\ kid # Null
  BY DEF Outermost, Reads, Seeking
<1>2. o \in CallRec /\ kid \in Kid /\ Busy(t) /\ o.pc \notin OwnsN \cup OwnsP
  BY <1>1, SeeksIs
<1>3. CASE isLeaf(kid)
  BY <1>1, <1>2, <1>3, RestartStep DEF Outermost
<1>4. CASE ~isLeaf(kid)
  <2>1. isInner(kid) /\ kid[2] \in DOMAIN node /\ node[kid[2]] \in NodeRec
    BY <1>1, <1>2, <1>4, Knows, KidIs
  <2> DEFINE c == [o EXCEPT !.child = next]
  <2>2. Go(t, c)
    BY <1>4 DEF Outermost
  <2>3. next \in Kid /\ (isInner(next) => \E x : KidAt(node, kid[2], x, next[2]))
    BY <2>1, SeekIs DEF KidAt
  <2> HIDE DEF next
  <2>4. c \in CallRec /\ c.pc = o.pc /\ Same(c, o) /\ c.child = next /\ c.n = o.n /\ c.op = o.op
    BY <1>2, <2>3 DEF CallRec, Same
  <2>5. isInner(next) => \E x \in DOMAIN node : \E s :
           KidAt(node, x, s, next[2]) /\ (x = o.n \/ (isInner(kid) /\ x = kid[2]))
    BY <2>1, <2>3
  <2> HIDE DEF c
  <2> QED
    BY <1>1, <1>2, <2>2, <2>3, <2>4, <2>5, SeeksIs, StayStep
<1> QED
  BY <1>3, <1>4

\* A call starts: it loads the epoch and has no pointer yet.
LEMMA CallKeeps ==
    ASSUME IInv, NEW t \in Threads, insert(t) \/ remove(t) \/ lookup(t) \/ seekLE(t) PROVE IInv'
<1>1. PICK op \in {"insert", "remove", "lookup", "seek"}, k \in Keys, tid \in Tids : Call(t, op, k, tid)
  <2>1. CASE insert(t) \/ remove(t)
    <3>1. PICK l \in Inserts \cup Removes : Call(t, "insert", l[2], l[3]) \/ Call(t, "remove", l[2], l[3])
      BY <2>1 DEF insert, remove
    <3>2. l[2] \in Keys /\ l[3] \in Tids
      BY CallAssumption DEF IsLeafOfKey, Tids
    <3> QED
      BY <3>1, <3>2
  <2>2. CASE lookup(t) \/ seekLE(t)
    <3>1. PICK k \in Lookups \cup Seeks : Call(t, "lookup", k, 0) \/ Call(t, "seek", k, 0)
      BY <2>2 DEF lookup, seekLE
    <3>2. k \in Keys /\ 0 \in Tids
      BY CallAssumption DEF Tids
    <3> QED
      BY <3>1, <3>2
  <2> QED
    BY <2>1, <2>2
<1> DEFINE o == th[t]
           c == [o EXCEPT !.pc = "enter", !.op = op, !.key = k, !.tid = tid, !.epoch = currentEpoche]
<1>2. o \in CallRec /\ o.pc = "idle" /\ o.n \in DOMAIN node /\ o.par = 0 /\ currentEpoche \in Nat
      /\ (isInner(o.child) => o.child[2] \in DOMAIN node)
  BY <1>1, Knows DEF Call, Local, Doing, IInv, TypeInv
<1>3. o.n = Root
  BY <1>2, Knows DEF Local, Doing
<1>4. UNCHANGED <<node, epocheVars>> /\ Go(t, c)
  BY <1>1 DEF Call
<1>5. /\ c \in CallRec /\ c.pc = "enter" /\ c.op = op /\ c.key = k /\ c.epoch = currentEpoche
      /\ c.n = o.n /\ c.par = 0 /\ c.child = o.child
  BY <1>2 DEF CallRec
<1> HIDE DEF c
<1>6. th'[t] = c /\ node' = node /\ currentEpoche' = currentEpoche
  BY <1>4, <1>5, GoIs DEF IInv, epocheVars
<1>7. "enter" \notin {"read"} \cup Reading \cup Seeking \cup OwnsN \cup OwnsP
  BY DEF Reading, Seeking, OwnsN, OwnsP
<1>8. Doing(t)'
  BY <1>2, <1>3, <1>5, <1>6, <1>7 DEF Doing, Busy
<1>9. Snapshot(t)'
  BY <1>5, <1>6, <1>7 DEF Snapshot, ValidP, OwnsN
<1>10. o.pc \notin OwnsN \cup OwnsP /\ ~Busy(t)'
  BY <1>2, <1>5, <1>6, <1>7 DEF OwnsN, OwnsP, Busy
<1> QED
  BY <1>4, <1>5, <1>7, <1>8, <1>9, <1>10, ReadStep DEF Local

-----------------------------------------------------------------------------
(* Epochs.                                                                 *)

\* enterEpoche: a linked node is not obsolete, so it is in no deletion list and the nodes that are linked are spared.
LEMMA EnterKeeps ==
    ASSUME IInv, NEW t \in Threads, Enter(t) PROVE IInv'
<1> DEFINE c == AtRoot(th[t], "read", Null)
<1>1. th[t].pc = "enter" /\ Go(t, c) /\ node' = node /\ th[t] \in CallRec /\ Null \in Kid /\ th[t].epoch \in Nat
  BY Knows, KidIs, CallIs DEF Enter, Restart
<1>2. /\ localEpoche' = [localEpoche EXCEPT ![t] = th[t].epoch] /\ currentEpoche' = currentEpoche /\ labels' = labels
      /\ counter' = counter /\ freed' = freed
  BY DEF Enter, EnterEpoche
<1>3. /\ c \in CallRec /\ c.pc = "read" /\ c.op = th[t].op /\ c.key = th[t].key /\ c.n = Root /\ c.par = 0 /\ c.child = Null
  BY <1>1, AtRootIs
<1> HIDE DEF c
<1>4. /\ th'[t] = c /\ currentEpoche \in Nat /\ localEpoche' \in [Threads -> Nat] /\ localEpoche'[t] = th[t].epoch
      /\ \A u \in Threads \ {t} : localEpoche'[u] = localEpoche[u]
  BY <1>1, <1>2, <1>3, GoIs DEF IInv, TypeInv
<1>5. Local(t)'
  <2>1. ~isInner(c.child) /\ Root \in DOMAIN node /\ c.key \in Keys /\ th[t].epoch <= currentEpoche
    BY <1>1, <1>3, Knows, KidIs DEF Local, Doing
  <2>2. Doing(t)'
    BY <1>1, <1>2, <1>3, <1>4, <2>1 DEF Doing, Seeking, OwnsN, OwnsP
  <2>3. Snapshot(t)'
    BY <1>3, <1>4 DEF Snapshot, Reading, OwnsN, OwnsP, ValidP
  <2> QED
    BY <2>2, <2>3 DEF Local
<1>6. th[t].pc \notin OwnsN \cup OwnsP /\ c.pc \notin OwnsN \cup OwnsP
  BY <1>1, <1>3 DEF OwnsN, OwnsP
<1>7. /\ Shape' /\ LockInv' /\ \A u \in Threads : Local(u)'
      /\ th' \in [Threads -> CallRec]
      /\ \A u \in Threads \ {t} : th'[u] = th[u] /\ (Busy(u)' <=> Busy(u))
  BY <1>1, <1>2, <1>3, <1>4, <1>5, <1>6, QuietStep
<1>8. TypeInv' /\ TreeInv'
  BY <1>1, <1>2, <1>4, <1>7 DEF IInv, TypeInv, TreeInv
<1>9. Reach(t)'
  <2> PICK X \in SUBSET DOMAIN node : X = {x \in DOMAIN node : Linked(x)}
    OBVIOUS
  <2>1. Closed(node, X)
    BY DEF Closed, IInv, TreeInv, Shape, Linked
  <2>2. \A x \in X : x \notin freed /\ \A u \in Threads : \A l \in labels[u] : x \notin l.nodes
    BY DEF Linked, IInv, TreeInv
  <2>3. Spared(t, X)'
    BY <1>2, <2>2 DEF Spared
  <2>4. Refs(c, X)
    BY <1>3, <2>1, KidIs DEF Refs, Closed
  <2> QED
    BY <1>1, <1>4, <2>1, <2>3, <2>4 DEF Reach
<1>10. ASSUME NEW u \in Threads \ {t}, Busy(u)'
       PROVE  Reach(u)'
  <2>1. PICK X \in SUBSET DOMAIN node : Closed(node, X) /\ Spared(u, X) /\ Refs(th[u], X)
    BY <1>7, <1>10 DEF IInv, Reach
  <2>2. Spared(u, X)'
    BY <1>2, <1>4, <2>1 DEF Spared
  <2> QED
    BY <1>1, <1>7, <2>1, <2>2 DEF Reach
<1> QED
  BY <1>7, <1>8, <1>9, <1>10 DEF IInv

\* The epoch before which a cleanup frees is no other thread's, or later.
LEMMA OldestIs ==
    ASSUME TypeInv, NEW t \in Threads, NEW u \in Threads \ {t}
    PROVE  Oldest(t) \in Nat /\ Oldest(t) <= localEpoche[u]
<1> DEFINE S == {Never} \cup {localEpoche[v] : v \in Threads \ {t}}
<1>1. S \in SUBSET Nat /\ S # {} /\ localEpoche[u] \in S
  BY DEF TypeInv, Never
<1>2. Oldest(t) = Min(S)
  BY DEF Oldest
<1> HIDE DEF S
<1>3. Min(S) \in S /\ \A x \in S : Min(S) <= x
  BY <1>1, MinIs
<1> QED
  BY <1>1, <1>2, <1>3

\* The end of a call: what it frees has a label older than every other call, so no other call reaches it.
LEMMA ExitKeeps ==
    ASSUME IInv, NEW t \in Threads, Exit(t) PROVE IInv'
<1>1. th[t].pc = "exit" /\ Go(t, Idle) /\ node' = node /\ Idle \in CallRec
  BY IdleIs DEF Exit, Go
<1> DEFINE old == {l \in labels[t] : l.epoche < Oldest(t)}
<1>2. /\ localEpoche' = [localEpoche EXCEPT ![t] = Never]
      /\ currentEpoche' = currentEpoche \/ currentEpoche' = currentEpoche + 1
      /\ counter' = counter \/ counter' = [counter EXCEPT ![t] = 0]
      /\ \/ labels' = labels /\ freed' = freed
         \/ labels' = [labels EXCEPT ![t] = @ \ old] /\ freed' = freed \cup UNION {l.nodes : l \in old}
  <2>1. CASE ExitEpocheAndCleanup(t)
    <3>1. currentEpoche + 0 = currentEpoche
      BY DEF IInv, TypeInv
    <3> QED
      BY <2>1, <3>1 DEF ExitEpocheAndCleanup
  <2>2. CASE LeaveEpoche(t)
    BY <2>2 DEF LeaveEpoche
  <2> QED
    BY <2>1, <2>2 DEF Exit
<1>3. /\ th'[t] = Idle /\ currentEpoche \in Nat /\ currentEpoche' \in Nat /\ currentEpoche <= currentEpoche'
      /\ localEpoche' \in [Threads -> Nat] /\ \A u \in Threads \ {t} : localEpoche'[u] = localEpoche[u]
      /\ counter' \in [Threads -> Nat]
  <2>1. th'[t] = Idle
    BY <1>1, GoIs DEF IInv
  <2>2. currentEpoche \in Nat /\ currentEpoche' \in Nat /\ currentEpoche <= currentEpoche'
    BY <1>2 DEF IInv, TypeInv
  <2>3. localEpoche' \in [Threads -> Nat] /\ \A u \in Threads \ {t} : localEpoche'[u] = localEpoche[u]
    BY <1>2 DEF IInv, TypeInv, Never
  <2>4. counter' \in [Threads -> Nat]
    BY <1>2 DEF IInv, TypeInv
  <2> QED
    BY <2>1, <2>2, <2>3, <2>4
<1>4. Local(t)' /\ ~Busy(t)'
  <2>1. Root \in DOMAIN node'
    BY <1>1, Knows
  <2>2. Doing(t)'
    BY <1>1, <1>3, <2>1, IdleIs, KidIs DEF Doing, Busy, Reading, Seeking, OwnsN, OwnsP
  <2>3. Snapshot(t)'
    BY <1>3, IdleIs DEF Snapshot, ValidP, Reading, OwnsN, OwnsP
  <2> QED
    BY <1>3, <2>2, <2>3, IdleIs DEF Local, Busy, Reading, Seeking, OwnsN
<1>5. th[t].pc \notin OwnsN \cup OwnsP /\ Idle.pc \notin OwnsN \cup OwnsP
  BY <1>1, IdleIs DEF OwnsN, OwnsP
<1>6. /\ Shape' /\ LockInv' /\ \A u \in Threads : Local(u)'
      /\ th' \in [Threads -> CallRec]
      /\ \A u \in Threads \ {t} : th'[u] = th[u] /\ (Busy(u)' <=> Busy(u))
  BY <1>1, <1>3, <1>4, <1>5, QuietStep
<1>7. /\ labels' \in [Threads -> SUBSET Label] /\ freed' \subseteq DOMAIN node
      /\ \A u \in Threads : labels'[u] \subseteq labels[u]
      /\ \A x \in freed' : x \in freed \/ \E l \in labels[t] : x \in l.nodes /\ l.epoche < Oldest(t)
  <2>1. labels \in [Threads -> SUBSET Label] /\ freed \subseteq DOMAIN node
    BY DEF IInv, TypeInv
  <2>2. CASE labels' = labels /\ freed' = freed
    BY <2>1, <2>2
  <2>3. CASE labels' = [labels EXCEPT ![t] = @ \ old] /\ freed' = freed \cup UNION {l.nodes : l \in old}
    <3>1. labels' \in [Threads -> SUBSET Label] /\ \A u \in Threads : labels'[u] \subseteq labels[u]
      BY <2>1, <2>3
    <3>2. \A x \in freed' : x \in freed \/ \E l \in labels[t] : x \in l.nodes /\ l.epoche < Oldest(t)
      BY <2>3
    <3>3. \A l \in labels[t] : l.nodes \subseteq DOMAIN node
      BY DEF IInv, TreeInv
    <3> QED
      BY <2>1, <3>1, <3>2, <3>3
  <2> QED
    BY <1>2, <2>2, <2>3
<1>8. TypeInv'
  BY <1>1, <1>3, <1>6, <1>7 DEF IInv, TypeInv
<1>9. TreeInv'
  BY <1>1, <1>6, <1>7 DEF IInv, TreeInv
<1>10. ASSUME NEW u \in Threads \ {t}, Busy(u)'
       PROVE  Reach(u)'
  <2>1. PICK X \in SUBSET DOMAIN node : Closed(node, X) /\ Spared(u, X) /\ Refs(th[u], X)
    BY <1>6, <1>10 DEF IInv, Reach
  <2>2. ASSUME NEW x \in X
        PROVE  x \notin freed'
    <3> SUFFICES ASSUME NEW l \in labels[t], x \in l.nodes, l.epoche < Oldest(t)
                 PROVE  FALSE
      BY <1>7, <2>1 DEF Spared
    <3>1. localEpoche[u] <= l.epoche
      BY <2>1 DEF Spared
    <3>2. l.epoche \in Nat /\ localEpoche[u] \in Nat
      BY DEF IInv, TypeInv, Label
    <3> QED
      BY <3>1, <3>2, OldestIs DEF IInv
  <2>3. Spared(u, X)'
    BY <1>3, <1>7, <2>1, <2>2 DEF Spared
  <2> QED
    BY <1>1, <1>6, <2>1, <2>3 DEF Reach
<1> QED
  BY <1>4, <1>6, <1>8, <1>9, <1>10 DEF IInv

-----------------------------------------------------------------------------
(* Steps that write.                                                       *)

\* The nodes that a step locks were free or its own, or are new; those that it unlocks were its own.
LocksEvolve(t) ==
    \A x \in DOMAIN node' :
        /\ x \in Held(t)' => /\ isLocked(node'[x].word) /\ ~isObsolete(node'[x].word)
                             /\ x \in DOMAIN node => x \in Held(t) \/ ~isLocked(node[x].word)
        /\ isLocked(node'[x].word) /\ x \notin Held(t)' =>
              x \in DOMAIN node /\ x \notin Held(t) /\ isLocked(node[x].word)

\* At most n is added to a deletion list, with the present epoch.
ListsEvolve(n) ==
    /\ labels' \in [Threads -> SUBSET Label] /\ counter' \in [Threads -> Nat]
    /\ freed' = freed /\ localEpoche' = localEpoche /\ currentEpoche' = currentEpoche
    /\ \A u \in Threads : \A l \in labels'[u] :
          \/ l \in labels[u]
          \/ /\ l.epoche = currentEpoche
             /\ \A x \in l.nodes : \/ x = n /\ isObsolete(node'[n].word)
                                   \/ \E k \in labels[u] : x \in k.nodes

\* A set that was closed stays closed with new nodes alone.
SetsEvolve ==
    \A X : Closed(node, X) => \E Y : X \subseteq Y /\ Y \cap DOMAIN node \subseteq X /\ Closed(node', Y)

\* A writer puts at most its own obsolete node in its deletion list, with the present epoch.
LEMMA ListsKeep ==
    ASSUME IInv, NEW n \in DOMAIN node, UNCHANGED epocheVars \/ (\E t \in Threads : MarkForDeletion(t, n) /\ isObsolete(node'[n].word))
    PROVE  ListsEvolve(n)
<1>0. /\ labels \in [Threads -> SUBSET Label] /\ counter \in [Threads -> Nat] /\ currentEpoche \in Nat /\ n \in Nat
  BY Knows DEF IInv, TypeInv
<1>1. CASE UNCHANGED epocheVars
  BY <1>0, <1>1 DEF ListsEvolve, epocheVars
<1>2. CASE \E t \in Threads : MarkForDeletion(t, n) /\ isObsolete(node'[n].word)
  <2>1. PICK t \in Threads : MarkForDeletion(t, n) /\ isObsolete(node'[n].word)
    BY <1>2
  <2> DEFINE head == {l \in labels[t] : Cardinality(l.nodes) < LabelSize}
             new == [nodes |-> {n} \cup UNION {l.nodes : l \in head}, epoche |-> currentEpoche]
  <2>2. labels[t] \in SUBSET Label /\ Add(labels[t], n) = (labels[t] \ head) \cup {new}
    BY <1>0 DEF Add
  <2>3. new \in Label /\ new.epoche = currentEpoche /\ \A x \in new.nodes : x = n \/ \E k \in labels[t] : x \in k.nodes
    <3>1. \A l \in labels[t] : l.nodes \subseteq Nat
      BY <2>2 DEF Label
    <3> QED
      BY <1>0, <3>1 DEF Label
  <2> HIDE DEF new, head
  <2>4. labels' = [labels EXCEPT ![t] = Add(labels[t], n)] /\ counter' = [counter EXCEPT ![t] = counter[t] + 1]
        /\ freed' = freed /\ localEpoche' = localEpoche /\ currentEpoche' = currentEpoche
    BY <1>0, <2>1 DEF MarkForDeletion
  <2>5. labels' \in [Threads -> SUBSET Label] /\ counter' \in [Threads -> Nat]
    BY <1>0, <2>2, <2>3, <2>4
  <2>6. \A u \in Threads : \A l \in labels'[u] : l \in labels[u] \/ (u = t /\ l = new)
    BY <1>0, <2>2, <2>4
  <2> QED
    BY <2>1, <2>3, <2>4, <2>5, <2>6 DEF ListsEvolve
<1> QED
  BY <1>1, <1>2

\* Nobody writes to an obsolete node.
LEMMA ObsoleteStays ==
    ASSUME IInv, NEW t \in Threads, Evolves(t), NEW x \in DOMAIN node, isObsolete(node[x].word)
    PROVE  x \in DOMAIN node' /\ node'[x] = node[x]
<1>1. x \notin Held(t) /\ ~Free(node[x].word)
  BY DEF IInv, LockInv, Free
<1> QED
  BY <1>1 DEF Evolves

\* A step that writes keeps the invariant when the tree, the locks, the lists and the closed sets evolve as they
\* should.
LEMMA WriteStep ==
    ASSUME IInv, NEW t \in Threads, NEW c \in CallRec, Go(t, c), Evolves(t), NEW n \in DOMAIN node, ListsEvolve(n),
           \E N \in Nat \ {0} : DOMAIN node' = 1 .. N,
           Shape', Local(t)', LocksEvolve(t), Held(t)' \subseteq DOMAIN node', SetsEvolve,
           Busy(t)' => Busy(t) /\ \A Y : Root \in Y /\ Refs(th[t], Y) => Refs(c, Y)
    PROVE  IInv'
<1>1. th' \in [Threads -> CallRec] /\ th'[t] = c /\ \A u \in Threads \ {t} : th'[u] = th[u]
  BY GoIs DEF IInv
<1>2. DOMAIN node \subseteq DOMAIN node' /\ node' \in [DOMAIN node' -> NodeRec]
  BY DEF Evolves
<1>3. /\ labels' \in [Threads -> SUBSET Label] /\ counter' \in [Threads -> Nat]
      /\ freed' = freed /\ localEpoche' = localEpoche /\ currentEpoche' = currentEpoche
      /\ currentEpoche \in Nat
  BY DEF ListsEvolve, IInv, TypeInv
<1>4. TypeInv'
  <2>1. freed' \subseteq DOMAIN node' /\ localEpoche' \in [Threads -> Nat] /\ currentEpoche' \in Nat
    BY <1>2, <1>3 DEF IInv, TypeInv
  <2> QED
    BY <1>1, <1>2, <1>3, <2>1 DEF TypeInv
<1>5. \A u \in Threads \ {t} : Local(u)' /\ Held(u)' = Held(u) /\ (Busy(u)' <=> Busy(u))
  BY <1>1, <1>3, OthersKeep DEF IInv
<1>6. LockInv'
  <2>1. \A u \in Threads \ {t} : \A x \in Held(u) : x \in DOMAIN node /\ node'[x] = node[x]
    BY HeldHolds DEF IInv
  <2>2. \A u \in Threads \ {t} : Held(t)' \cap Held(u) = {}
    <3> SUFFICES ASSUME NEW u \in Threads \ {t}, NEW x \in Held(t)', x \in Held(u) PROVE FALSE
      OBVIOUS
    <3>1. x \in DOMAIN node /\ isLocked(node[x].word) /\ x \notin Held(t)
      BY DEF IInv, LockInv
    <3> QED
      BY <1>2, <3>1 DEF LocksEvolve
  <2>3. ASSUME NEW x \in DOMAIN node', isLocked(node'[x].word)
        PROVE  \E u \in Threads : x \in Held(u)'
    <3>1. CASE x \in Held(t)'
      BY <3>1
    <3>2. CASE x \notin Held(t)'
      <4>1. x \in DOMAIN node /\ x \notin Held(t) /\ isLocked(node[x].word)
        BY <2>3, <3>2 DEF LocksEvolve
      <4>2. PICK u \in Threads : x \in Held(u)
        BY <4>1 DEF IInv, LockInv
      <4> QED
        BY <1>5, <4>1, <4>2
    <3> QED
      BY <3>1, <3>2
  <2>4. \A x \in Held(t)' : x \in DOMAIN node' /\ isLocked(node'[x].word) /\ ~isObsolete(node'[x].word)
    BY DEF LocksEvolve
  <2>5. \A u \in Threads \ {t} : \A x \in Held(u)' : x \in DOMAIN node' /\ isLocked(node'[x].word) /\ ~isObsolete(node'[x].word)
    BY <1>2, <1>5, <2>1 DEF IInv, LockInv
  <2>6. \A u, w \in Threads : u # w => Held(u)' \cap Held(w)' = {}
    BY <1>5, <2>2 DEF IInv, LockInv
  <2> QED
    BY <2>3, <2>4, <2>5, <2>6 DEF LockInv
<1>7. TreeInv'
  <2>1. \A x \in freed' : isObsolete(node'[x].word)
    BY <1>3, ObsoleteStays DEF IInv, TreeInv, TypeInv
  <2>2. ASSUME NEW u \in Threads, NEW l \in labels'[u], NEW x \in l.nodes
        PROVE  x \in DOMAIN node' /\ isObsolete(node'[x].word)
    <3>1. (x = n /\ isObsolete(node'[n].word)) \/ \E k \in labels[u] : x \in k.nodes
      BY DEF ListsEvolve
    <3>2. CASE x = n /\ isObsolete(node'[n].word)
      BY <1>2, <3>2
    <3>3. CASE \E k \in labels[u] : x \in k.nodes
      BY <3>3, ObsoleteStays DEF IInv, TreeInv
    <3> QED
      BY <3>1, <3>2, <3>3
  <2> QED
    BY <2>1, <2>2 DEF TreeInv
<1>8. ASSUME NEW u \in Threads, Busy(u)'
      PROVE  Reach(u)'
  <2>1. Busy(u)
    BY <1>5, <1>8
  <2>2. PICK X \in SUBSET DOMAIN node : Closed(node, X) /\ Spared(u, X) /\ Refs(th[u], X)
    BY <2>1 DEF IInv, Reach
  <2>3. PICK Y : X \subseteq Y /\ Y \cap DOMAIN node \subseteq X /\ Closed(node', Y)
    BY <2>2 DEF SetsEvolve
  <2>4. Refs(th'[u], Y)
    <3>1. Refs(th[u], Y) /\ Root \in Y
      BY <2>2, <2>3 DEF Refs, Closed
    <3> QED
      BY <1>1, <1>8, <3>1
  <2>5. ASSUME NEW x \in Y
        PROVE  x \notin freed' /\ \A v \in Threads : \A l \in labels'[v] : x \in l.nodes => localEpoche'[u] <= l.epoche
    <3>1. x \in DOMAIN node => x \in X
      BY <2>3
    <3>2. x \notin freed'
      BY <1>3, <2>2, <3>1 DEF Spared, IInv, TypeInv
    <3>3. ASSUME NEW v \in Threads, NEW l \in labels'[v], x \in l.nodes
          PROVE  localEpoche'[u] <= l.epoche
      <4>1. CASE l \in labels[v]
        BY <1>3, <2>2, <3>1, <3>3, <4>1 DEF Spared, IInv, TreeInv
      <4>2. CASE l.epoche = currentEpoche
        BY <1>3, <2>1, <4>2 DEF IInv, Local, Doing
      <4> QED
        BY <4>1, <4>2 DEF ListsEvolve
    <3> QED
      BY <3>2, <3>3
  <2>6. Spared(u, Y)'
    BY <2>5 DEF Spared
  <2>7. Y \in SUBSET DOMAIN node' /\ Closed(node', Y)
    BY <2>3 DEF Closed
  <2> QED
    BY <2>4, <2>6, <2>7 DEF Reach
<1>9. \A u \in Threads : Local(u)'
  BY <1>5
<1> QED
  BY <1>4, <1>6, <1>7, <1>8, <1>9 DEF IInv

\* Which nodes are in the tree after a step.
LEMMA LinkedIs ==
    ASSUME IInv, NEW t \in Threads, NEW c \in CallRec, Go(t, c), Evolves(t)
    PROVE  \A x : Linked(x)' <=>
              /\ x \in DOMAIN node' /\ ~isObsolete(node'[x].word) /\ ~(c.pc = "join" /\ c.n = x)
              /\ x \in DOMAIN node => Linked(x) \/ (th[t].pc = "join" /\ th[t].n = x)
<1>1. th'[t] = c /\ \A u \in Threads \ {t} : th'[u] = th[u]
  BY GoIs DEF IInv
<1>2. \A x : Lifted(x)' <=> (c.pc = "join" /\ c.n = x) \/ \E u \in Threads \ {t} : th[u].pc = "join" /\ th[u].n = x
  BY <1>1 DEF Lifted
<1>3. \A x : (\E u \in Threads \ {t} : th[u].pc = "join" /\ th[u].n = x) =>
             x \in DOMAIN node /\ ~(th[t].pc = "join" /\ th[t].n = x)
  <2> SUFFICES ASSUME NEW x, NEW u \in Threads \ {t}, th[u].pc = "join", th[u].n = x
               PROVE  x \in DOMAIN node /\ ~(th[t].pc = "join" /\ th[t].n = x)
    OBVIOUS
  <2>1. x \in Held(u) /\ (th[t].pc = "join" /\ th[t].n = x => x \in Held(t))
    BY HeldBy DEF OwnsN
  <2> QED
    BY <2>1 DEF IInv, LockInv
<1>4. \A x \in DOMAIN node : x \in DOMAIN node' /\ (~isObsolete(node'[x].word) => ~isObsolete(node[x].word))
  BY ObsoleteStays DEF Evolves
<1> QED
  BY <1>2, <1>3, <1>4 DEF Linked, Lifted

\* A node that a thread has locked is in the tree until the thread has lifted its child.
LEMMA HeldLinked ==
    ASSUME IInv, NEW t \in Threads, NEW x \in Held(t), th[t].pc # "join"
    PROVE  Linked(x)
<1>1. x \in DOMAIN node /\ ~isObsolete(node[x].word)
  BY DEF IInv, LockInv
<1>2. \A u \in Threads : th[u].pc = "join" => th[u].n \in Held(u)
  BY HeldBy DEF OwnsN
<1> QED
  BY <1>1, <1>2 DEF Linked, Lifted, IInv, LockInv

\* A step that at most takes children away.
LEMMA Shrinks ==
    ASSUME IInv, DOMAIN node' = DOMAIN node,
           \A x \in DOMAIN node : \A s, m : KidAt(node', x, s, m) => KidAt(node, x, s, m),
           \A x : Linked(x)' <=> Linked(x),
           node'[Root].type = node[Root].type, node'[Root].prefix = node[Root].prefix
    PROVE  Shape' /\ SetsEvolve
<1>1. Shape'
  BY DEF IInv, TreeInv, Shape, Linked
<1>2. \A X : Closed(node, X) => Closed(node', X)
  BY DEF Closed
<1> QED
  BY <1>1, <1>2 DEF SetsEvolve

\* A node is taken out of the tree: its parent gets one of its children, a leaf, or a new node with its children.
LEMMA Unlinks ==
    ASSUME IInv, NEW p, NEW k, NEW n, KidAt(node, p, k, n), Linked(p), p # n,
           DOMAIN node' \in {DOMAIN node, DOMAIN node \cup {Fresh}},
           \A x \in DOMAIN node' : \A s, m : KidAt(node', x, s, m) =>
              \/ x \in DOMAIN node /\ ~(x = p /\ s = k) /\ KidAt(node, x, s, m)
              \/ x = p /\ s = k /\ IF Fresh \in DOMAIN node' THEN m = Fresh ELSE \E o : KidAt(node, n, o, m)
              \/ x = Fresh /\ KidAt(node, n, s, m),
           \A x : Linked(x)' <=> (Linked(x) /\ x # n) \/ (x = Fresh /\ Fresh \in DOMAIN node'),
           node'[Root].type = node[Root].type, node'[Root].prefix = node[Root].prefix
    PROVE  Shape' /\ SetsEvolve
<1>1. /\ Fresh \notin DOMAIN node /\ n \in DOMAIN node \ {Root} /\ Linked(n) /\ p \in DOMAIN node
      /\ Root \in DOMAIN node /\ Linked(Root)
  <2>1. p \in DOMAIN node /\ Root \in DOMAIN node /\ Linked(Root)
    BY DEF IInv, TreeInv, Shape, Linked
  <2>2. PICK q \in NodeRec : TRUE
    BY <2>1 DEF IInv, TypeInv
  <2>3. Fresh \notin DOMAIN node
    BY <2>2, AllocIs DEF IInv
  <2>4. n \in DOMAIN node \ {Root}
    BY <2>1, NodeIs DEF IInv, TreeInv, Shape, TypeInv, KidAt
  <2>5. Linked(n)
    BY DEF IInv, TreeInv, Shape
  <2> QED
    BY <2>1, <2>3, <2>4, <2>5
<1>2. /\ \A x \in DOMAIN node : \A s, m : KidAt(node, x, s, m) => m \in DOMAIN node \ {Root}
      /\ \A x, s, m : Linked(x) /\ KidAt(node, x, s, m) => Linked(m)
      /\ \A x, y, s, o, m : Linked(x) /\ Linked(y) /\ KidAt(node, x, s, m) /\ KidAt(node, y, o, m) => x = y /\ s = o
  <2>1. \A x \in DOMAIN node : node[x] \in NodeRec
    BY DEF IInv, TypeInv
  <2> QED
    BY <2>1, NodeIs DEF IInv, TreeInv, Shape, KidAt
<1>3. Shape'
  <2>1. Linked(Root)' /\ node'[Root].type = N256 /\ node'[Root].prefix = <<>>
    BY <1>1 DEF IInv, TreeInv, Shape
  <2>2. \A x \in DOMAIN node' : \A s, m : KidAt(node', x, s, m) => m \in DOMAIN node' \ {Root}
    BY <1>1, <1>2
  <2>3. \A x, s, m : Linked(x)' /\ KidAt(node', x, s, m) => Linked(m)'
    BY <1>1, <1>2 DEF Linked
  <2>4. ASSUME NEW x, NEW y, NEW s, NEW o, NEW m, Linked(x)', Linked(y)', KidAt(node', x, s, m), KidAt(node', y, o, m)
        PROVE  x = y /\ s = o
    <3>1. x \in DOMAIN node' /\ y \in DOMAIN node'
      BY <2>4 DEF Linked
    <3>2. m = Fresh => x = p /\ s = k /\ y = p /\ o = k
      BY <1>1, <1>2, <2>4, <3>1
    <3>3. ASSUME m # Fresh
          PROVE  x = y /\ s = o
      <4>1. CASE Fresh \in DOMAIN node'
        BY <1>1, <1>2, <2>4, <3>1, <3>3, <4>1
      <4>2. CASE Fresh \notin DOMAIN node'
        BY <1>1, <1>2, <2>4, <3>1, <3>3, <4>2
      <4> QED
        BY <4>1, <4>2
    <3> QED
      BY <3>2, <3>3
  <2> QED
    BY <2>1, <2>2, <2>3, <2>4 DEF Shape
<1>4. ASSUME NEW X, Closed(node, X)
      PROVE  \E Y : X \subseteq Y /\ Y \cap DOMAIN node \subseteq X /\ Closed(node', Y)
  <2>1. X \subseteq DOMAIN node /\ Root \in X /\ \A x, s, m : x \in X /\ KidAt(node, x, s, m) => m \in X
    BY <1>4 DEF Closed
  <2>2. CASE p \in X
    <3>1. n \in X
      BY <2>1, <2>2
    <3>2. Closed(node', X \cup ({Fresh} \cap DOMAIN node'))
      BY <1>1, <2>1, <3>1 DEF Closed
    <3> QED
      BY <1>1, <3>2
  <2>3. CASE p \notin X
    BY <1>1, <2>1, <2>3 DEF Closed
  <2> QED
    BY <2>2, <2>3
<1> QED
  BY <1>3, <1>4 DEF SetsEvolve

\* A new node is put under a node, above one of its children or with leaves alone:
\* child k of p becomes the new node, which has at most the old child below it.
Grafted(p, k, n, b) ==
    \A x \in DOMAIN node' : \A s, m : KidAt(node', x, s, m) =>
       \/ x \in DOMAIN node /\ ~(x = p /\ s = k) /\ KidAt(node, x, s, m)
       \/ x = p /\ s = k /\ m = Fresh
       \/ x = Fresh /\ s = b /\ m = n /\ KidAt(node, p, k, n)

\* A new node is put under a node, above one of its children or with leaves alone.
LEMMA Grafts ==
    ASSUME IInv, NEW p, NEW k, NEW n, NEW b, Linked(p),
           DOMAIN node' = DOMAIN node \cup {Fresh}, Grafted(p, k, n, b),
           \A x : Linked(x)' <=> Linked(x) \/ x = Fresh,
           node'[Root].type = node[Root].type, node'[Root].prefix = node[Root].prefix
    PROVE  Shape' /\ SetsEvolve
<1>1. Fresh \notin DOMAIN node /\ p \in DOMAIN node /\ Root \in DOMAIN node /\ Linked(Root)
  <2>1. PICK q \in NodeRec : TRUE
    BY Knows DEF IInv, TypeInv
  <2> QED
    BY <2>1, AllocIs, Knows DEF IInv, TreeInv, Shape, Linked, TypeInv
<1>2. /\ \A x \in DOMAIN node : \A s, m : KidAt(node, x, s, m) => m \in DOMAIN node \ {Root}
      /\ \A x, s, m : Linked(x) /\ KidAt(node, x, s, m) => Linked(m)
      /\ \A x, y, s, o, m : Linked(x) /\ Linked(y) /\ KidAt(node, x, s, m) /\ KidAt(node, y, o, m) => x = y /\ s = o
  <2>1. \A x \in DOMAIN node : node[x] \in NodeRec
    BY DEF IInv, TypeInv
  <2> QED
    BY <2>1, NodeIs DEF IInv, TreeInv, Shape, KidAt
<1>3. Shape'
  <2>1. Linked(Root)' /\ node'[Root].type = N256 /\ node'[Root].prefix = <<>>
    BY <1>1 DEF IInv, TreeInv, Shape
  <2>2. \A x \in DOMAIN node' : \A s, m : KidAt(node', x, s, m) => m \in DOMAIN node' \ {Root}
    BY <1>1, <1>2 DEF Grafted
  <2>3. \A x, s, m : Linked(x)' /\ KidAt(node', x, s, m) => Linked(m)'
    BY <1>1, <1>2 DEF Linked, Grafted
  <2>4. ASSUME NEW x, NEW y, NEW s, NEW o, NEW m, Linked(x)', Linked(y)', KidAt(node', x, s, m), KidAt(node', y, o, m)
        PROVE  x = y /\ s = o
    <3>1. x \in DOMAIN node' /\ y \in DOMAIN node'
      BY <2>4 DEF Linked
    <3>2. m = Fresh => x = p /\ s = k /\ y = p /\ o = k
      BY <1>1, <1>2, <2>4, <3>1 DEF Grafted
    <3>3. m # Fresh => x = y /\ s = o
      BY <1>1, <1>2, <2>4, <3>1 DEF Grafted
    <3> QED
      BY <3>2, <3>3
  <2> QED
    BY <2>1, <2>2, <2>3, <2>4 DEF Shape
<1>4. ASSUME NEW X, Closed(node, X)
      PROVE  \E Y : X \subseteq Y /\ Y \cap DOMAIN node \subseteq X /\ Closed(node', Y)
  <2>1. X \subseteq DOMAIN node /\ Root \in X /\ \A x, s, m : x \in X /\ KidAt(node, x, s, m) => m \in X
    BY <1>4 DEF Closed
  <2>2. CASE p \in X
    <3>1. Closed(node', X \cup {Fresh})
      BY <1>1, <2>1, <2>2 DEF Closed, Grafted
    <3> QED
      BY <1>1, <3>1
  <2>3. CASE p \notin X
    BY <1>1, <2>1, <2>3 DEF Closed, Grafted
  <2> QED
    BY <2>2, <2>3
<1> QED
  BY <1>3, <1>4 DEF SetsEvolve

\* The node that a writer has locked, and its parent.
LEMMA OwnIs ==
    ASSUME IInv, NEW t \in Threads, th[t].pc \in OwnsN
    PROVE  LET n == node[th[t].n]
           IN  /\ th[t] \in CallRec /\ Busy(t) /\ th[t].op \in {"insert", "remove"} /\ th[t].key \in Keys
               /\ th[t].n \in DOMAIN node /\ n \in NodeRec /\ th[t].n \in Held(t)
               /\ th[t].v \in Nat /\ Free(th[t].v) /\ n.word = th[t].v + 2 /\ n.word \in Nat
               /\ isLocked(n.word) /\ ~isObsolete(n.word)
               /\ Free(n.word + 2) /\ ~isLocked(n.word + 3) /\ isObsolete(n.word + 3)
               /\ Symbol(t) \in Symbols /\ MyLeaf(t) \in Kid /\ th[t].level \in Nat /\ th[t].hit \in Nat
               /\ th[t].child \in Kid
<1>1. /\ th[t] \in CallRec /\ Busy(t) /\ th[t].op \in {"insert", "remove"} /\ th[t].key \in Keys
      /\ th[t].n \in DOMAIN node /\ node[th[t].n] \in NodeRec /\ th[t].n \in Held(t)
      /\ Symbol(t) \in Symbols /\ MyLeaf(t) \in Kid
  BY Knows, HeldBy DEF Local, Doing, Busy, OwnsN
<1>2. Free(th[t].v) /\ node[th[t].n].word = th[t].v + 2
  BY Knows DEF Local, Snapshot
<1>3. node[th[t].n].word \in Nat /\ th[t].v \in Nat
  BY <1>1, NodeIs, CallIs
<1>4. isLocked(node[th[t].n].word) /\ ~isObsolete(node[th[t].n].word)
  BY <1>2, <1>3, WordIs
<1> QED
  BY <1>1, <1>2, <1>3, <1>4, WordIs, CallIs

\* The parent that a writer has locked.
LEMMA OwnPIs ==
    ASSUME IInv, NEW t \in Threads, th[t].pc \in OwnsP
    PROVE  LET p == node[th[t].par]
           IN  /\ th[t].par \in DOMAIN node /\ p \in NodeRec /\ th[t].par \in Held(t) /\ Linked(th[t].par)
               /\ th[t].pv \in Nat /\ Free(th[t].pv) /\ p.word = th[t].pv + 2 /\ p.word \in Nat
               /\ isLocked(p.word) /\ ~isObsolete(p.word) /\ Free(p.word + 2)
               /\ KidAt(node, th[t].par, th[t].pkey, th[t].n) /\ th[t].pkey \in Symbols
               /\ th[t].pkey \in DOMAIN p.kids /\ th[t].n # Root
<1>1. th[t].par # 0 /\ th[t].par \in DOMAIN node /\ node[th[t].par] \in NodeRec /\ th[t].par \in Held(t)
  BY Knows, HeldBy DEF Local, Doing
<1>2. Free(th[t].pv) /\ node[th[t].par].word = th[t].pv + 2
  BY <1>1, Knows DEF Local, Snapshot
<1>3. node[th[t].par].word \in Nat /\ th[t].pv \in Nat /\ th[t].pkey \in Symbols
  BY <1>1, NodeIs, CallIs, Knows
<1>4. isLocked(node[th[t].par].word) /\ ~isObsolete(node[th[t].par].word)
  BY <1>2, <1>3, WordIs
<1>5. KidAt(node, th[t].par, th[t].pkey, th[t].n)
  BY <1>1, Knows DEF Local, Snapshot, ValidP
<1>6. th[t].pkey \in DOMAIN node[th[t].par].kids /\ th[t].n # Root
  BY <1>1, <1>5, Knows DEF KidAt, InnerAt
<1>7. Linked(th[t].par)
  BY <1>1, HeldLinked DEF OwnsP
<1> QED
  BY <1>1, <1>2, <1>3, <1>4, <1>5, <1>6, <1>7, WordIs

\* A write that ends the call, or starts it again.
LEMMA ReturnStep ==
    ASSUME IInv, NEW t \in Threads, Busy(t), Restart(t) \/ Return(t, Null), Evolves(t),
           NEW n \in DOMAIN node, ListsEvolve(n), \E N \in Nat \ {0} : DOMAIN node' = 1 .. N, Shape', SetsEvolve,
           \A x \in DOMAIN node' : isLocked(node'[x].word) => x \in DOMAIN node /\ x \notin Held(t) /\ isLocked(node[x].word)
    PROVE  IInv'
<1>1. PICK pc \in {"read", "exit"} : Go(t, AtRoot(th[t], pc, Null))
  BY DEF Restart, Return
<1> DEFINE c == AtRoot(th[t], pc, Null)
<1>2. DOMAIN node \subseteq DOMAIN node' /\ localEpoche' = localEpoche /\ currentEpoche' = currentEpoche /\ Null \in Kid
  BY KidIs DEF Evolves, ListsEvolve
<1>3. Local(t)' /\ c \in CallRec /\ c.pc = pc /\ \A X : Root \in X => Refs(c, X)
  BY <1>1, <1>2, AtRootLocal
<1> HIDE DEF c
<1>4. th'[t] = c
  BY <1>1, <1>3, GoIs DEF IInv, c
<1>5. Held(t)' = {}
  BY <1>3, <1>4 DEF Held
<1>6. LocksEvolve(t)
  BY <1>5 DEF LocksEvolve
<1>7. Go(t, c)
  BY <1>1 DEF c
<1> QED
  BY <1>3, <1>5, <1>6, <1>7, WriteStep

\* A write to one node that takes no more than children away.
LEMMA OneNode ==
    ASSUME IInv, NEW t \in Threads, NEW c \in CallRec, Go(t, c), c.pc # "join", th[t].pc # "join",
           UNCHANGED epocheVars, NEW x \in DOMAIN node, NEW new \in NodeRec, node' = [node EXCEPT ![x] = new],
           new.type = node[x].type, node[x].prefix = <<>> => new.prefix = <<>>,
           \A s, m : InnerAt(new, s, m) => InnerAt(node[x], s, m),
           ~isObsolete(node[x].word), ~isObsolete(new.word),
           \/ (x \in Held(t) \/ Free(node[x].word)) /\ node[x].word < new.word
           \/ x \in Held(t) /\ new.word = node[x].word
    PROVE  /\ Evolves(t) /\ Shape' /\ SetsEvolve /\ ListsEvolve(x) /\ \E N \in Nat \ {0} : DOMAIN node' = 1 .. N
           /\ DOMAIN node' = DOMAIN node /\ node'[x] = new /\ \A y \in DOMAIN node \ {x} : node'[y] = node[y]
<1>1. DOMAIN node' = DOMAIN node /\ node'[x] = new /\ \A y \in DOMAIN node \ {x} : node'[y] = node[y]
  BY DEF IInv, TypeInv
<1>2. Evolves(t)
  <2>1. node' \in [DOMAIN node' -> NodeRec]
    BY DEF IInv, TypeInv
  <2> QED
    BY <1>1, <2>1 DEF Evolves
<1>3. \A y : Linked(y)' <=> Linked(y)
  BY <1>1, <1>2, LinkedIs DEF Linked
<1>4. Shape' /\ SetsEvolve
  <2>1. \A y \in DOMAIN node : \A s, m : KidAt(node', y, s, m) => KidAt(node, y, s, m)
    BY <1>1 DEF KidAt
  <2>2. node'[Root].type = node[Root].type /\ node'[Root].prefix = node[Root].prefix
    BY <1>1, Knows DEF IInv, TreeInv, Shape
  <2> QED
    BY <1>1, <1>3, <2>1, <2>2, Shrinks
<1>5. ListsEvolve(x) /\ \E N \in Nat \ {0} : DOMAIN node' = 1 .. N
  BY <1>1, ListsKeep DEF IInv, TypeInv
<1> QED
  BY <1>1, <1>2, <1>4, <1>5

\* A write to the one node that was locked, which unlocks it.
LEMMA UnlockStep ==
    ASSUME IInv, NEW t \in Threads, th[t].pc \in {"put", "cut", "drop", "clear"}, Return(t, Null), UNCHANGED epocheVars,
           NEW new \in NodeRec, node' = [node EXCEPT ![th[t].n] = new],
           new.word = node[th[t].n].word + 2, new.type = node[th[t].n].type,
           node[th[t].n].prefix = <<>> => new.prefix = <<>>,
           \A s, m : InnerAt(new, s, m) => InnerAt(node[th[t].n], s, m)
    PROVE  IInv'
<1> DEFINE n == th[t].n
<1>1. th[t].pc \in OwnsN /\ th[t].pc # "join" /\ Held(t) = {n}
  BY DEF OwnsN, Held
<1>2. /\ Busy(t) /\ n \in DOMAIN node /\ node[n].word \in Nat /\ Free(node[n].word + 2) /\ ~isObsolete(node[n].word)
  BY <1>1, OwnIs
<1>3. PICK c \in CallRec : Go(t, c) /\ c.pc = "exit"
  BY <1>1, OwnIs, AtRootIs, KidIs DEF Return
<1>4. node[n].word < new.word /\ ~isObsolete(new.word) /\ ~isLocked(new.word)
  BY <1>2 DEF Free
<1>5. /\ Evolves(t) /\ Shape' /\ SetsEvolve /\ ListsEvolve(n) /\ \E N \in Nat \ {0} : DOMAIN node' = 1 .. N
      /\ DOMAIN node' = DOMAIN node /\ node'[n] = new /\ \A y \in DOMAIN node \ {n} : node'[y] = node[y]
  BY <1>1, <1>2, <1>3, <1>4, OneNode
<1>6. \A x \in DOMAIN node' : isLocked(node'[x].word) => x \in DOMAIN node /\ x \notin Held(t) /\ isLocked(node[x].word)
  BY <1>1, <1>4, <1>5
<1> QED
  BY <1>2, <1>5, <1>6, ReturnStep

\* A leaf is put in a node with room.
LEMMA PutKeeps ==
    ASSUME IInv, NEW t \in Threads, Put(t) PROVE IInv'
<1> DEFINE n == node[th[t].n]
           n1 == insertKid(n, Symbol(t), MyLeaf(t))
<1>1. th[t].pc = "put" /\ th[t].pc \in OwnsN
  BY DEF Put, OwnsN
<1>2. n \in NodeRec /\ Symbol(t) \in Symbols /\ MyLeaf(t) \in Kid
  BY <1>1, OwnIs
<1>3. /\ n1 \in NodeRec /\ n1.type = n.type /\ n1.prefix = n.prefix /\ n1.word = n.word
      /\ \A o, m : InnerAt(n1, o, m) <=> IF o = Symbol(t) THEN MyLeaf(t) = Inner(m) ELSE InnerAt(n, o, m)
  BY <1>2, InsertKidIs
<1>4. \A m : MyLeaf(t) # Inner(m)
  BY KidIs DEF MyLeaf
<1>5. Return(t, Null) /\ UNCHANGED epocheVars /\ node' = [node EXCEPT ![th[t].n] = writeUnlock(n1)]
  BY DEF Put
<1> HIDE DEF n1
<1>6. /\ writeUnlock(n1) \in NodeRec /\ writeUnlock(n1).word = n.word + 2 /\ writeUnlock(n1).type = n.type
      /\ writeUnlock(n1).prefix = n.prefix /\ writeUnlock(n1).kids = n1.kids
  BY <1>3, WordWrite
<1>7. \A s, m : InnerAt(writeUnlock(n1), s, m) => InnerAt(n, s, m)
  BY <1>3, <1>4, <1>6 DEF InnerAt
<1> QED
  BY <1>1, <1>5, <1>6, <1>7, UnlockStep

\* setPrefix: the second write of a split, under the node's lock.
LEMMA setPrefixKeeps ==
    ASSUME IInv, NEW t \in Threads, setPrefix(t) PROVE IInv'
<1> DEFINE n == node[th[t].n]
           p == SubSeq(n.prefix, th[t].hit + 2, Len(n.prefix))
           n1 == [n EXCEPT !.prefix = p]
<1>1. th[t].pc = "cut" /\ th[t].pc \in OwnsN
  BY DEF setPrefix, OwnsN
<1>2. n \in NodeRec /\ n.prefix \in Seq(Symbols) /\ th[t].hit \in Nat
  BY <1>1, OwnIs, NodeIs
<1>3. p \in Seq(Symbols) /\ (n.prefix = <<>> => p = <<>>)
  <2>1. \A i \in th[t].hit + 2 .. Len(n.prefix) : n.prefix[i] \in Symbols
    BY <1>2
  <2>2. p \in Seq(Symbols)
    BY <1>2, <2>1, SubSeqProperties
  <2>3. n.prefix = <<>> => p = <<>>
    BY <1>2, <2>2, SubSeqProperties
  <2> QED
    BY <2>2, <2>3
<1>4. node' = [node EXCEPT ![th[t].n] = writeUnlock(n1)] /\ Return(t, Null) /\ UNCHANGED epocheVars
  <2>1. Cut(n, th[t].hit) = n1
    BY DEF Cut
  <2> QED
    BY <2>1 DEF setPrefix, Quiet
<1> HIDE DEF p
<1>5. n1 \in NodeRec /\ n1.type = n.type /\ n1.prefix = p /\ n1.word = n.word /\ n1.kids = n.kids
  BY <1>2, <1>3 DEF NodeRec
<1> HIDE DEF n1
<1>6. /\ writeUnlock(n1) \in NodeRec /\ writeUnlock(n1).word = n.word + 2 /\ writeUnlock(n1).type = n.type
      /\ writeUnlock(n1).prefix = p /\ writeUnlock(n1).kids = n.kids
  BY <1>5, WordWrite
<1> QED
  BY <1>1, <1>3, <1>4, <1>6, UnlockStep DEF InnerAt

\* The last write of a remove from a node that stays.
LEMMA ClearIndexKeeps ==
    ASSUME IInv, NEW t \in Threads,
           \/ ClearIndex(t)
           \/ Drop(t) /\ node[th[t].n].type # 3
    PROVE  IInv'
<1> DEFINE n == node[th[t].n]
           n1 == removeKid(n, Symbol(t))
<1>1. th[t].pc \in {"drop", "clear"} /\ th[t].pc \in OwnsN
  BY DEF Drop, ClearIndex, OwnsN
<1>2. n \in NodeRec
  BY <1>1, OwnIs
<1>3. /\ n1 \in NodeRec /\ n1.type = n.type /\ n1.prefix = n.prefix /\ n1.word = n.word
      /\ \A o, m : InnerAt(n1, o, m) => InnerAt(n, o, m)
  BY <1>2, RemoveKidIs
<1>4. Return(t, Null) /\ UNCHANGED epocheVars /\ node' = [node EXCEPT ![th[t].n] = writeUnlock(n1)]
  BY DEF Drop, ClearIndex, Quiet
<1> HIDE DEF n1
<1>5. /\ writeUnlock(n1) \in NodeRec /\ writeUnlock(n1).word = n.word + 2 /\ writeUnlock(n1).type = n.type
      /\ writeUnlock(n1).prefix = n.prefix /\ writeUnlock(n1).kids = n1.kids
  BY <1>3, WordWrite
<1>6. \A s, m : InnerAt(writeUnlock(n1), s, m) => InnerAt(n, s, m)
  BY <1>3, <1>5 DEF InnerAt
<1> QED
  BY <1>1, <1>3, <1>4, <1>5, <1>6, UnlockStep

\* A write after which the call keeps its pointers and goes on as a writer.
LEMMA OnStep ==
    ASSUME IInv, NEW t \in Threads, Busy(t), NEW pc \in OwnsN \cup {"lockB"}, GoTo(t, pc),
           th[t].pc \in {"lockN", "lockP", "lockB"} \cup OwnsN,
           Evolves(t), NEW n \in DOMAIN node, ListsEvolve(n), \E N \in Nat \ {0} : DOMAIN node' = 1 .. N, Shape', SetsEvolve,
           LocksEvolve(t), Held(t)' \subseteq DOMAIN node',
           pc = "fork" => isLeaf(th[t].child),
           pc = "lockB" => th[t].todo \in {"split", "grow", "shrink", "pair"},
           pc \in OwnsP => th[t].par # 0,
           pc \in OwnsN \cap OwnsP => th[t].n # th[t].par,
           Snapshot(t)'
    PROVE  IInv'
<1> DEFINE o == th[t]
           c == [o EXCEPT !.pc = pc]
<1>1. o \in CallRec /\ Go(t, c) /\ o.pc # "idle"
  BY Knows DEF GoTo, OwnsN
<1>2. /\ c \in CallRec /\ c.pc = pc /\ c.op = o.op /\ c.key = o.key /\ c.n = o.n /\ c.par = o.par /\ c.child = o.child
      /\ c.todo = o.todo
  BY <1>1 DEF CallRec, Reading
<1> HIDE DEF c
<1>3. th'[t] = c
  BY <1>1, <1>2, GoIs DEF IInv
<1>4. o.op \in {"insert", "remove"} /\ localEpoche[t] <= currentEpoche /\ o.key \in Keys
  BY <1>1, Knows DEF Local, Doing
<1>5. pc \notin {"idle", "enter", "bail", "child", "check", "checkP", "lockN", "lockP", "agree"} \cup Seeking
  BY DEF OwnsN, Seeking
<1>6. Doing(t)'
  <2>1. DOMAIN node \subseteq DOMAIN node' /\ localEpoche' = localEpoche /\ currentEpoche' = currentEpoche
    BY DEF Evolves, ListsEvolve
  <2>2. c.n \in DOMAIN node' /\ c.par \in DOMAIN node' \cup {0} /\ (isInner(c.child) => c.child[2] \in DOMAIN node')
    BY <1>2, <2>1, Knows DEF Local, Doing
  <2>3. c.par = 0 => c.n = Root
    BY <1>2, <1>4, Knows DEF Local, Doing
  <2> QED
    BY <1>2, <1>3, <1>4, <1>5, <2>1, <2>2, <2>3 DEF Doing
<1>7. \A Y : Refs(o, Y) => Refs(c, Y)
  BY <1>2 DEF Refs
<1> QED
  BY <1>1, <1>2, <1>6, <1>7, WriteStep DEF Local

\* A free node is locked.
LEMMA LockIs ==
    ASSUME IInv, NEW t \in Threads, NEW c \in CallRec, Go(t, c), c.pc # "join", th[t].pc # "join",
           UNCHANGED epocheVars, NEW x \in DOMAIN node, Free(node[x].word), node' = [node EXCEPT ![x] = Locked(@)]
    PROVE  /\ Evolves(t) /\ Shape' /\ SetsEvolve /\ ListsEvolve(x) /\ \E N \in Nat \ {0} : DOMAIN node' = 1 .. N
           /\ DOMAIN node' = DOMAIN node /\ \A y \in DOMAIN node \ {x} : node'[y] = node[y]
           /\ node'[x].word = node[x].word + 2 /\ isLocked(node'[x].word) /\ ~isObsolete(node'[x].word)
           /\ node'[x].kids = node[x].kids /\ node'[x].prefix = node[x].prefix /\ node'[x].type = node[x].type
<1>1. node[x] \in NodeRec /\ node[x].word \in Nat
  BY NodeIs DEF IInv, TypeInv
<1> DEFINE new == Locked(node[x])
<1>2. /\ new \in NodeRec /\ new.word = node[x].word + 2 /\ new.type = node[x].type /\ new.prefix = node[x].prefix
      /\ new.kids = node[x].kids
  BY <1>1, WordWrite
<1>3. node' = [node EXCEPT ![x] = new]
  OBVIOUS
<1> HIDE DEF new
<1>4. isLocked(new.word) /\ ~isObsolete(new.word) /\ ~isObsolete(node[x].word) /\ node[x].word < new.word
  BY <1>1, <1>2, WordIs DEF Free
<1>5. \A s, m : InnerAt(new, s, m) => InnerAt(node[x], s, m)
  BY <1>2 DEF InnerAt
<1>6. /\ Evolves(t) /\ Shape' /\ SetsEvolve /\ ListsEvolve(x) /\ \E N \in Nat \ {0} : DOMAIN node' = 1 .. N
      /\ DOMAIN node' = DOMAIN node /\ node'[x] = new /\ \A y \in DOMAIN node \ {x} : node'[y] = node[y]
  BY <1>2, <1>3, <1>4, <1>5, OneNode
<1> QED
  BY <1>2, <1>4, <1>6

\* What a call that keeps a version still knows after a step of its own.
LEMMA VersionsKeep ==
    ASSUME IInv, NEW t \in Threads, Evolves(t)
    PROVE  /\ th[t].pc \in Reading => /\ Free(th[t].v) /\ th[t].v <= node'[th[t].n].word
                                      /\ node'[th[t].n].word = th[t].v => node'[th[t].n] = node[th[t].n] /\ Valid(t)
           /\ th[t].par # 0 => /\ Free(th[t].pv) /\ th[t].pv <= node'[th[t].par].word
                               /\ node'[th[t].par].word = th[t].pv =>
                                     node'[th[t].par] = node[th[t].par] /\ KidAt(node', th[t].par, th[t].pkey, th[t].n)
<1>1. th[t].v \in Nat /\ th[t].pv \in Nat /\ th[t].n \in DOMAIN node /\ (th[t].par # 0 => th[t].par \in DOMAIN node)
  BY Knows, CallIs
<1>2. ASSUME th[t].pc \in Reading
      PROVE  /\ Free(th[t].v) /\ th[t].v <= node'[th[t].n].word
             /\ node'[th[t].n].word = th[t].v => node'[th[t].n] = node[th[t].n] /\ Valid(t)
  <2>1. Free(th[t].v) /\ th[t].v <= node[th[t].n].word
    BY <1>2, InTree
  <2> QED
    BY <1>1, <1>2, <2>1, VersionHolds DEF IInv, Valid
<1>3. ASSUME th[t].par # 0
      PROVE  /\ Free(th[t].pv) /\ th[t].pv <= node'[th[t].par].word
             /\ node'[th[t].par].word = th[t].pv =>
                   node'[th[t].par] = node[th[t].par] /\ KidAt(node', th[t].par, th[t].pkey, th[t].n)
  <2>1. Free(th[t].pv) /\ th[t].pv <= node[th[t].par].word
    BY <1>3, Knows DEF Local, Snapshot
  <2>2. th[t].pv <= node'[th[t].par].word
        /\ (node'[th[t].par].word = th[t].pv => node'[th[t].par] = node[th[t].par] /\ node[th[t].par].word = th[t].pv)
    BY <1>1, <1>3, <2>1, VersionHolds DEF IInv
  <2>3. node[th[t].par].word = th[t].pv => KidAt(node, th[t].par, th[t].pkey, th[t].n)
    BY <1>3, Knows DEF Local, Snapshot, ValidP
  <2> QED
    BY <2>1, <2>2, <2>3 DEF KidAt
<1> QED
  BY <1>2, <1>3

\* GoTo changes the place in the code alone.
LEMMA GoToIs ==
    ASSUME IInv, NEW t \in Threads, NEW pc \in {"lockB"} \cup OwnsN, GoTo(t, pc)
    PROVE  /\ [th[t] EXCEPT !.pc = pc] \in CallRec /\ Go(t, [th[t] EXCEPT !.pc = pc]) /\ [th[t] EXCEPT !.pc = pc].pc = pc
           /\ LET c == th'[t] IN
              /\ c.pc = pc /\ c.n = th[t].n /\ c.par = th[t].par /\ c.pkey = th[t].pkey /\ c.v = th[t].v /\ c.pv = th[t].pv
              /\ c.key = th[t].key /\ c.level = th[t].level /\ c.hit = th[t].hit /\ c.child = th[t].child
              /\ c.todo = th[t].todo /\ Symbol(t)' = Symbol(t)
<1> DEFINE o == th[t]
           c == [o EXCEPT !.pc = pc]
<1>1. o \in CallRec /\ Go(t, c)
  BY Knows DEF GoTo
<1>2. /\ c \in CallRec /\ c.pc = pc /\ c.n = o.n /\ c.par = o.par /\ c.pkey = o.pkey /\ c.v = o.v /\ c.pv = o.pv
      /\ c.key = o.key /\ c.level = o.level /\ c.hit = o.hit /\ c.child = o.child /\ c.todo = o.todo
  BY <1>1 DEF CallRec, Reading
<1> HIDE DEF c
<1>3. th'[t] = c
  BY <1>1, <1>2, GoIs DEF IInv
<1>4. Symbol(t)' = Symbol(t)
  BY <1>2, <1>3 DEF Symbol
<1> QED
  BY <1>1, <1>2, <1>3, <1>4 DEF c

\* upgradeToWriteLockOrRestart: the word that was read becomes a locked one.
LEMMA upgradeToWriteLockOrRestartKeeps ==
    ASSUME IInv, NEW t \in Threads, upgradeToWriteLockOrRestart(t) PROVE IInv'
<1> DEFINE o == th[t]
           n == o.n
           pc == o.todo
<1>1. o.pc = "lockN" /\ o.pc \in Reading /\ o.pc \notin OwnsN \cup OwnsP /\ UNCHANGED epocheVars /\ o.pc # "join"
  BY DEF upgradeToWriteLockOrRestart, Quiet, Reading, OwnsN, OwnsP
<1>2. Busy(t) /\ Free(o.v) /\ n \in DOMAIN node
  BY <1>1, InTree, Knows
<1>3. pc \in {"put", "fork", "drop"} /\ (pc = "fork" => isLeaf(o.child))
  BY <1>1, Knows DEF Local, Doing
<1>4. CASE node[n].word # o.v
  BY <1>1, <1>2, <1>4, RestartStep DEF upgradeToWriteLockOrRestart, Unchanged
<1>5. CASE node[n].word = o.v
  <2>1. node' = [node EXCEPT ![n] = Locked(@)] /\ GoTo(t, pc)
    BY <1>5 DEF upgradeToWriteLockOrRestart, Unchanged
  <2>2. pc \in OwnsN /\ pc # "join" /\ pc \notin OwnsP /\ pc # "lockB"
        /\ pc \notin Reading /\ pc \notin {"pair", "lift", "join", "split", "grow", "shrink", "check", "checkP", "lockP"}
    BY <1>3 DEF OwnsN, OwnsP, Reading
  <2>3. /\ [o EXCEPT !.pc = pc] \in CallRec /\ Go(t, [o EXCEPT !.pc = pc]) /\ [o EXCEPT !.pc = pc].pc = pc
        /\ LET c == th'[t] IN
           /\ c.pc = pc /\ c.n = n /\ c.par = o.par /\ c.pkey = o.pkey /\ c.v = o.v /\ c.pv = o.pv
    BY <2>1, <2>2, GoToIs
  <2>4. /\ Evolves(t) /\ Shape' /\ SetsEvolve /\ ListsEvolve(n) /\ \E N \in Nat \ {0} : DOMAIN node' = 1 .. N
        /\ DOMAIN node' = DOMAIN node /\ \A y \in DOMAIN node \ {n} : node'[y] = node[y]
        /\ node'[n].word = node[n].word + 2 /\ isLocked(node'[n].word) /\ ~isObsolete(node'[n].word)
    BY <1>1, <1>2, <1>5, <2>1, <2>2, <2>3, LockIs
  <2>5. Held(t) = {} /\ Held(t)' = {n}
    BY <1>1, <1>3, <2>3 DEF Held
  <2>6. LocksEvolve(t) /\ Held(t)' \subseteq DOMAIN node'
    BY <1>2, <1>5, <2>4, <2>5 DEF LocksEvolve, Free
  <2>7. Snapshot(t)'
    <3>1. o.par # 0 => /\ Free(o.pv) /\ o.pv <= node'[o.par].word
                       /\ node'[o.par].word = o.pv => KidAt(node', o.par, o.pkey, n)
      BY <2>4, VersionsKeep
    <3>2. ValidP(t)' => o.par # 0 /\ node'[o.par].word = o.pv
      BY <2>2, <2>3 DEF ValidP
    <3> QED
      BY <1>2, <1>5, <2>2, <2>3, <2>4, <3>1, <3>2 DEF Snapshot
  <2> QED
    BY <1>1, <1>2, <1>3, <2>1, <2>2, <2>4, <2>6, <2>7, OnStep
<1> QED
  BY <1>4, <1>5

\* The parent is locked before the node.
LEMMA LockParentKeeps ==
    ASSUME IInv, NEW t \in Threads, LockParent(t) PROVE IInv'
<1> DEFINE o == th[t]
           p == o.par
<1>1. o.pc = "lockP" /\ o.pc \in Reading /\ o.pc \notin OwnsN \cup OwnsP /\ UNCHANGED epocheVars /\ o.pc # "join"
  BY DEF LockParent, Quiet, Reading, OwnsN, OwnsP
<1>2. Busy(t) /\ Free(o.v) /\ o.n \in DOMAIN node
  BY <1>1, InTree, Knows
<1>3. o.todo \in {"split", "grow", "shrink", "pair"} /\ p # 0 /\ p \in DOMAIN node /\ Free(o.pv)
  BY <1>1, Knows DEF Local, Doing, Snapshot
<1>4. CASE node[p].word # o.pv
  BY <1>1, <1>2, <1>4, RestartStep DEF LockParent, Unchanged
<1>5. CASE node[p].word = o.pv
  <2>1. node' = [node EXCEPT ![p] = Locked(@)] /\ GoTo(t, "lockB")
    BY <1>5 DEF LockParent, Unchanged
  <2>2. "lockB" \in Reading /\ "lockB" \notin OwnsN /\ "lockB" \in OwnsP
    BY DEF OwnsN, OwnsP, Reading
  <2>3. /\ [o EXCEPT !.pc = "lockB"] \in CallRec /\ Go(t, [o EXCEPT !.pc = "lockB"]) /\ [o EXCEPT !.pc = "lockB"].pc = "lockB"
        /\ LET c == th'[t] IN
           /\ c.pc = "lockB" /\ c.n = o.n /\ c.par = p /\ c.pkey = o.pkey /\ c.v = o.v /\ c.pv = o.pv
           /\ c.hit = o.hit /\ c.todo = o.todo /\ Symbol(t)' = Symbol(t)
    BY <2>1, GoToIs
  <2>4. /\ Evolves(t) /\ Shape' /\ SetsEvolve /\ ListsEvolve(p) /\ \E N \in Nat \ {0} : DOMAIN node' = 1 .. N
        /\ DOMAIN node' = DOMAIN node /\ \A y \in DOMAIN node \ {p} : node'[y] = node[y]
        /\ node'[p].word = node[p].word + 2 /\ isLocked(node'[p].word) /\ ~isObsolete(node'[p].word)
        /\ node'[p].kids = node[p].kids
    BY <1>1, <1>3, <1>5, <2>1, <2>3, LockIs
  <2>5. Held(t) = {} /\ Held(t)' = {p}
    BY <1>1, <2>3 DEF Held
  <2>6. LocksEvolve(t) /\ Held(t)' \subseteq DOMAIN node'
    BY <1>3, <1>5, <2>4, <2>5 DEF LocksEvolve, Free
  <2>7. Snapshot(t)'
    <3>1. /\ o.v <= node'[o.n].word
          /\ node'[o.n].word = o.v => node'[o.n] = node[o.n] /\ Valid(t)
          /\ o.pv <= node'[p].word
      BY <1>1, <1>3, <2>4, VersionsKeep
    <3>2. KidAt(node', p, o.pkey, o.n)
      <4>1. KidAt(node, p, o.pkey, o.n)
        BY <1>3, <1>5, Knows DEF Local, Snapshot, ValidP
      <4> QED
        BY <2>4, <4>1 DEF KidAt, InnerAt
    <3>3. Valid(t)' => node'[o.n].word = o.v
      BY <2>2, <2>3 DEF Valid
    <3>4. Valid(t) => /\ o.todo = "pair" => Symbol(t) \in DOMAIN node[o.n].kids /\ getCount(node[o.n]) = 2
                      /\ o.todo = "split" => o.hit < Len(node[o.n].prefix)
                      /\ o.todo = "grow" => node[o.n].type # N256
                      /\ o.todo = "shrink" => node[o.n].type # N4
      BY <1>1, Knows DEF Local, Snapshot
    <3> QED
      BY <1>2, <1>3, <1>5, <2>2, <2>3, <2>4, <3>1, <3>2, <3>3, <3>4 DEF Snapshot
  <2> QED
    BY SMTT(30), ZenonT(30), <1>1, <1>2, <1>3, <2>1, <2>2, <2>4, <2>6, <2>7, OnStep
<1> QED
  BY <1>4, <1>5

\* The node is locked after its parent; when its word has changed the parent is given back.
LEMMA LockBothKeeps ==
    ASSUME IInv, NEW t \in Threads, LockBoth(t) PROVE IInv'
<1> DEFINE o == th[t]
           n == o.n
           p == o.par
           pc == o.todo
<1>1. o.pc = "lockB" /\ o.pc \in Reading /\ o.pc \in OwnsP /\ UNCHANGED epocheVars /\ o.pc # "join"
  BY DEF LockBoth, Quiet, Reading, OwnsP
<1>2. Busy(t) /\ Free(o.v) /\ n \in DOMAIN node
  BY <1>1, InTree, Knows
<1>3. /\ p \in DOMAIN node /\ node[p] \in NodeRec /\ node[p].word = o.pv + 2 /\ node[p].word \in Nat /\ Free(o.pv)
      /\ isLocked(node[p].word) /\ ~isObsolete(node[p].word) /\ Free(node[p].word + 2)
      /\ KidAt(node, p, o.pkey, n)
  BY <1>1, OwnPIs
<1>4. pc \in {"split", "grow", "shrink", "pair"} /\ p # 0
  BY <1>1, Knows DEF Local, Doing
<1>5. Held(t) = {p}
  BY <1>1 DEF Held
<1>6. CASE node[n].word # o.v
  <2> DEFINE new == writeUnlock(node[p])
             c == AtRoot(o, "read", Null)
  <2>1. node' = [node EXCEPT ![p] = new] /\ Restart(t)
    BY <1>6 DEF LockBoth, GiveBack, Unchanged
  <2>2. new \in NodeRec /\ new.word = node[p].word + 2 /\ new.type = node[p].type /\ new.prefix = node[p].prefix
        /\ new.kids = node[p].kids
    BY <1>3, WordWrite
  <2>3. Go(t, c) /\ c \in CallRec /\ c.pc = "read"
    BY <2>1, Knows, KidIs, AtRootIs DEF Restart
  <2> HIDE DEF new, c
  <2>4. ~isLocked(new.word) /\ ~isObsolete(new.word) /\ node[p].word < new.word
    BY <1>3, <2>2 DEF Free
  <2>5. \A s, m : InnerAt(new, s, m) => InnerAt(node[p], s, m)
    BY <2>2 DEF InnerAt
  <2>6. p \in Held(t)
    BY <1>5
  <2>7. /\ Evolves(t) /\ Shape' /\ SetsEvolve /\ ListsEvolve(p) /\ \E N \in Nat \ {0} : DOMAIN node' = 1 .. N
        /\ DOMAIN node' = DOMAIN node /\ node'[p] = new /\ \A y \in DOMAIN node \ {p} : node'[y] = node[y]
    BY <1>1, <1>3, <2>1, <2>2, <2>3, <2>4, <2>5, <2>6, OneNode
  <2>8. \A x \in DOMAIN node' : isLocked(node'[x].word) => x \in DOMAIN node /\ x \notin Held(t) /\ isLocked(node[x].word)
    BY <1>5, <2>4, <2>7
  <2> QED
    BY <1>2, <1>3, <2>1, <2>7, <2>8, ReturnStep
<1>7. CASE node[n].word = o.v
  <2>1. node' = [node EXCEPT ![n] = Locked(@)] /\ GoTo(t, pc) /\ n # p
    BY <1>2, <1>3, <1>7 DEF LockBoth, Unchanged, Free
  <2>2. pc \in OwnsN /\ pc \in OwnsP /\ pc \notin Reading
        /\ pc \notin {"lift", "join", "check", "checkP", "lockP", "lockB", "fork"}
    BY <1>4 DEF OwnsN, OwnsP, Reading
  <2>3. /\ [o EXCEPT !.pc = pc] \in CallRec /\ Go(t, [o EXCEPT !.pc = pc]) /\ [o EXCEPT !.pc = pc].pc = pc
        /\ LET c == th'[t] IN
           /\ c.pc = pc /\ c.n = n /\ c.par = p /\ c.pkey = o.pkey /\ c.v = o.v /\ c.pv = o.pv
           /\ c.hit = o.hit /\ Symbol(t)' = Symbol(t)
    BY <2>1, <2>2, GoToIs
  <2>4. /\ Evolves(t) /\ Shape' /\ SetsEvolve /\ ListsEvolve(n) /\ \E N \in Nat \ {0} : DOMAIN node' = 1 .. N
        /\ DOMAIN node' = DOMAIN node /\ \A y \in DOMAIN node \ {n} : node'[y] = node[y]
        /\ node'[n].word = node[n].word + 2 /\ isLocked(node'[n].word) /\ ~isObsolete(node'[n].word)
        /\ node'[n].kids = node[n].kids /\ node'[n].prefix = node[n].prefix /\ node'[n].type = node[n].type
    BY <1>1, <1>2, <1>7, <2>1, <2>2, <2>3, LockIs
  <2>5. Held(t)' = {p, n}
    BY <1>4, <2>3 DEF Held
  <2>6. LocksEvolve(t) /\ Held(t)' \subseteq DOMAIN node'
    BY <1>2, <1>3, <1>5, <1>7, <2>4, <2>5 DEF LocksEvolve, Free
  <2>7. Snapshot(t)'
    <3>1. node'[p] = node[p]
      BY <1>3, <2>1, <2>4
    <3>2. KidAt(node', p, o.pkey, n)
      BY <1>3, <3>1 DEF KidAt
    <3>3. /\ pc = "pair" => Symbol(t) \in DOMAIN node'[n].kids /\ getCount(node'[n]) = 2
          /\ pc = "split" => o.hit < Len(node'[n].prefix)
          /\ pc = "grow" => node'[n].type # N256
          /\ pc = "shrink" => node'[n].type # N4
      BY <1>1, <1>7, <2>4, Knows DEF Local, Snapshot, Valid, getCount
    <3>4. o.pv <= node[p].word
      BY <1>4, Knows DEF Local, Snapshot
    <3> QED
      BY <1>2, <1>3, <1>7, <2>2, <2>3, <2>4, <3>1, <3>2, <3>3, <3>4 DEF Snapshot
  <2> QED
    BY <1>1, <1>2, <1>4, <2>1, <2>2, <2>4, <2>6, <2>7, OnStep
<1> QED
  BY <1>6, <1>7

\* A leaf is taken out of a node that stays; an N48 clears its index in a second write.
LEMMA DropKeeps ==
    ASSUME IInv, NEW t \in Threads, Drop(t) PROVE IInv'
<1> DEFINE o == th[t]
           n == o.n
           new == change(node[n], Symbol(t), Null)
<1>1. CASE node[n].type # 3
  BY <1>1, ClearIndexKeeps
<1>2. CASE node[n].type = 3
  <2>1. o.pc = "drop" /\ o.pc \in OwnsN /\ o.pc # "join" /\ Held(t) = {n}
    BY DEF Drop, OwnsN, Held
  <2>2. node' = [node EXCEPT ![n] = new] /\ GoTo(t, "clear") /\ UNCHANGED epocheVars
    BY <1>2 DEF Drop
  <2>3. /\ Busy(t) /\ n \in DOMAIN node /\ node[n] \in NodeRec /\ Free(o.v) /\ node[n].word = o.v + 2 /\ Null \in Kid
        /\ isLocked(node[n].word) /\ ~isObsolete(node[n].word)
    BY <2>1, OwnIs, KidIs
  <2>4. /\ new \in NodeRec /\ new.type = node[n].type /\ new.prefix = node[n].prefix /\ new.word = node[n].word
        /\ \A s, m : InnerAt(new, s, m) => InnerAt(node[n], s, m)
    BY <2>3, ChangeIs, KidIs
  <2> HIDE DEF new
  <2>5. "clear" \in OwnsN /\ "clear" \notin OwnsP /\ "clear" \notin Reading
    BY DEF OwnsN, OwnsP, Reading
  <2>6. /\ [o EXCEPT !.pc = "clear"] \in CallRec /\ Go(t, [o EXCEPT !.pc = "clear"]) /\ [o EXCEPT !.pc = "clear"].pc = "clear"
        /\ LET c == th'[t] IN
           /\ c.pc = "clear" /\ c.n = n /\ c.par = o.par /\ c.pkey = o.pkey /\ c.v = o.v /\ c.pv = o.pv
    BY <2>2, <2>5, GoToIs
  <2>7. n \in Held(t) /\ [o EXCEPT !.pc = "clear"].pc # "join"
    BY <2>1, <2>6
  <2>8. /\ Evolves(t) /\ Shape' /\ SetsEvolve /\ ListsEvolve(n) /\ \E N \in Nat \ {0} : DOMAIN node' = 1 .. N
        /\ DOMAIN node' = DOMAIN node /\ node'[n] = new /\ \A y \in DOMAIN node \ {n} : node'[y] = node[y]
    BY <2>1, <2>2, <2>3, <2>4, <2>6, <2>7, OneNode
  <2>9. Held(t)' = {n}
    BY <2>6 DEF Held
  <2>10. LocksEvolve(t) /\ Held(t)' \subseteq DOMAIN node'
    BY <2>1, <2>3, <2>4, <2>8, <2>9 DEF LocksEvolve
  <2>11. Snapshot(t)'
    <3>1. o.par # 0 => /\ Free(o.pv) /\ o.pv <= node'[o.par].word
                       /\ node'[o.par].word = o.pv => KidAt(node', o.par, o.pkey, n)
      BY <2>8, VersionsKeep
    <3>2. ValidP(t)' => o.par # 0 /\ node'[o.par].word = o.pv
      BY <2>5, <2>6 DEF ValidP
    <3> QED
      BY <2>3, <2>4, <2>5, <2>6, <2>8, <3>1, <3>2 DEF Snapshot
  <2> QED
    BY <2>1, <2>2, <2>3, <2>5, <2>8, <2>10, <2>11, OnStep
<1> QED
  BY <1>1, <1>2

\* The other child of a node of two.
LEMMA OtherIs ==
    ASSUME IInv, NEW t \in Threads, th[t].pc \in {"pair", "lift", "join"}
    PROVE  /\ Symbol(t) \in DOMAIN node[th[t].n].kids /\ getCount(node[th[t].n]) = 2
           /\ Second(t) \in DOMAIN node[th[t].n].kids \ {Symbol(t)} /\ Second(t) \in Symbols /\ Other(t) \in Kid
           /\ isInner(Other(t)) => KidAt(node, th[t].n, Second(t), Other(t)[2]) /\ Other(t)[2] \in DOMAIN node \ {Root}
                                   /\ Other(t) = Inner(Other(t)[2])
<1>1. Symbol(t) \in DOMAIN node[th[t].n].kids /\ getCount(node[th[t].n]) = 2
  BY Knows DEF Local, Snapshot
<1>2. node[th[t].n] \in NodeRec /\ th[t].n \in DOMAIN node
  BY Knows
<1>3. Second(t) \in DOMAIN node[th[t].n].kids \ {Symbol(t)}
  BY <1>1, <1>2, SecondIs DEF Second
<1>4. Second(t) \in Symbols /\ Other(t) \in Kid
  BY <1>2, <1>3, NodeIs DEF Other
<1>5. isInner(Other(t)) => KidAt(node, th[t].n, Second(t), Other(t)[2]) /\ Other(t) = Inner(Other(t)[2])
  BY <1>3, <1>4, KidIs DEF KidAt, InnerAt, Other
<1> QED
  BY <1>1, <1>2, <1>3, <1>4, <1>5, Knows

\* A write to two nodes.
LEMMA TwoNodes ==
    ASSUME IInv, NEW x \in DOMAIN node, NEW y \in DOMAIN node, x # y, NEW a \in NodeRec, NEW b \in NodeRec,
           node' = [node EXCEPT ![x] = a, ![y] = b]
    PROVE  /\ DOMAIN node' = DOMAIN node /\ node'[x] = a /\ node'[y] = b
           /\ \A z \in DOMAIN node \ {x, y} : node'[z] = node[z]
           /\ node' \in [DOMAIN node' -> NodeRec] /\ \E N \in Nat \ {0} : DOMAIN node' = 1 .. N
BY DEF IInv, TypeInv

\* A call that ends or restarts has left every write behind.
LEMMA EndIs ==
    ASSUME IInv, NEW t \in Threads, Restart(t) \/ Return(t, Null)
    PROVE  \E c \in CallRec : Go(t, c) /\ c.pc # "join"
<1>1. th[t] \in CallRec /\ Null \in Kid
  BY Knows, KidIs
<1>2. /\ AtRoot(th[t], "read", Null) \in CallRec /\ AtRoot(th[t], "read", Null).pc = "read"
      /\ AtRoot(th[t], "exit", Null) \in CallRec /\ AtRoot(th[t], "exit", Null).pc = "exit"
  BY <1>1, AtRootIs
<1> QED
  BY <1>2 DEF Restart, Return

\* A node of two with another leaf: the leaf takes its place and the node goes to the deletion list.
LEMMA PairKeeps ==
    ASSUME IInv, NEW t \in Threads, Pair(t) PROVE IInv'
<1> DEFINE o == th[t]
           n == o.n
           p == o.par
           a1 == change(node[p], o.pkey, Other(t))
           a == writeUnlock(a1)
           b == writeUnlockObsolete(node[n])
<1>1. o.pc = "pair" /\ o.pc \in OwnsN /\ o.pc \in OwnsP /\ o.pc # "join" /\ Held(t) = {p, n}
  BY DEF Pair, OwnsN, OwnsP, Held
<1>2. /\ p \in DOMAIN node /\ node[p] \in NodeRec /\ Linked(p) /\ node[p].word \in Nat /\ Free(node[p].word + 2)
      /\ KidAt(node, p, o.pkey, n) /\ o.pkey \in DOMAIN node[p].kids
  BY <1>1, OwnPIs
<1>3. /\ Busy(t) /\ n \in DOMAIN node /\ node[n] \in NodeRec /\ node[n].word \in Nat /\ n # p
      /\ ~isLocked(node[n].word + 3) /\ isObsolete(node[n].word + 3)
  BY <1>1, OwnIs, Knows DEF Local, Doing
<1>4. Other(t) \in Kid /\ \A m : Other(t) # Inner(m)
  BY <1>1, OtherIs, KidIs DEF Pair
<1>5. /\ a1 \in NodeRec /\ a1.type = node[p].type /\ a1.prefix = node[p].prefix /\ a1.word = node[p].word
      /\ \A s, m : InnerAt(a1, s, m) => s # o.pkey /\ InnerAt(node[p], s, m)
  BY <1>2, <1>4, ChangeIs
<1> HIDE DEF a1
<1>6. /\ a \in NodeRec /\ a.type = node[p].type /\ a.prefix = node[p].prefix /\ a.word = node[p].word + 2 /\ a.kids = a1.kids
  BY <1>5, WordWrite
<1>7. /\ b \in NodeRec /\ b.word = node[n].word + 3 /\ b.kids = node[n].kids
  BY <1>3, WordWrite
<1>8. node' = [node EXCEPT ![p] = a, ![n] = b] /\ MarkForDeletion(t, n) /\ Return(t, Null)
  <2>1. node' = [node EXCEPT ![p] = writeUnlock(change(@, o.pkey, Other(t))), ![n] = writeUnlockObsolete(@)]
    BY DEF Pair
  <2> QED
    BY <1>3, <2>1 DEF Pair, a1
<1> HIDE DEF a, b
<1>9. /\ DOMAIN node' = DOMAIN node /\ node'[p] = a /\ node'[n] = b
      /\ \A z \in DOMAIN node \ {p, n} : node'[z] = node[z]
      /\ node' \in [DOMAIN node' -> NodeRec] /\ \E N \in Nat \ {0} : DOMAIN node' = 1 .. N
  BY <1>2, <1>3, <1>6, <1>7, <1>8, TwoNodes
<1>10. Evolves(t)
  <2>1. node[p].word < a.word /\ node[n].word < b.word
    BY <1>2, <1>3, <1>6, <1>7
  <2> QED
    BY <1>1, <1>9, <2>1 DEF Evolves
<1>11. \A x : Linked(x)' <=> Linked(x) /\ x # n
  <2>1. isObsolete(b.word) /\ ~isObsolete(a.word)
    BY <1>2, <1>3, <1>6, <1>7 DEF Free
  <2>2. PICK c \in CallRec : Go(t, c) /\ c.pc # "join"
    BY <1>8, EndIs
  <2> QED
    BY <1>1, <1>9, <1>10, <2>1, <2>2, LinkedIs DEF Linked
<1>12. Shape' /\ SetsEvolve
  <2>1. \A x \in DOMAIN node' : \A s, m : KidAt(node', x, s, m) =>
           x \in DOMAIN node /\ ~(x = p /\ s = o.pkey) /\ KidAt(node, x, s, m)
    BY SMTT(30), ZenonT(30), <1>3, <1>5, <1>6, <1>7, <1>9 DEF KidAt, InnerAt
  <2>2. node'[Root].type = node[Root].type /\ node'[Root].prefix = node[Root].prefix
    BY <1>1, <1>6, <1>9, OwnPIs, Knows
  <2>3. Fresh \notin DOMAIN node'
    BY <1>2, <1>9, AllocIs DEF IInv
  <2> QED
    BY <1>2, <1>3, <1>9, <1>11, <2>1, <2>2, <2>3, Unlinks
<1>13. ListsEvolve(n)
  <2>1. isObsolete(node'[n].word)
    BY <1>3, <1>7, <1>9
  <2> QED
    BY <1>3, <1>8, <2>1, ListsKeep
<1>14. \A x \in DOMAIN node' : isLocked(node'[x].word) => x \in DOMAIN node /\ x \notin Held(t) /\ isLocked(node[x].word)
  BY <1>1, <1>2, <1>3, <1>6, <1>7, <1>9 DEF Free
<1> QED
  BY <1>3, <1>8, <1>9, <1>10, <1>12, <1>13, <1>14, ReturnStep

\* The third lock of a remove from a node of two: it is taken, or both others are given back.
LEMMA writeLockOrRestartKeeps ==
    ASSUME IInv, NEW t \in Threads, writeLockOrRestart(t) PROVE IInv'
<1> DEFINE o == th[t]
           n == o.n
           p == o.par
           q == Other(t)[2]
           w == node[q].word
<1>1. o.pc = "pair" /\ o.pc \in OwnsN /\ o.pc \in OwnsP /\ o.pc # "join" /\ Held(t) = {p, n} /\ UNCHANGED epocheVars
      /\ isInner(Other(t))
  BY DEF writeLockOrRestart, Quiet, OwnsN, OwnsP, Held
<1>2. /\ p \in DOMAIN node /\ node[p] \in NodeRec /\ node[p].word \in Nat /\ Free(node[p].word + 2)
      /\ isLocked(node[p].word) /\ ~isObsolete(node[p].word) /\ node[p].word = o.pv + 2 /\ Free(o.pv)
      /\ KidAt(node, p, o.pkey, n)
  BY <1>1, OwnPIs
<1>3. /\ Busy(t) /\ n \in DOMAIN node /\ node[n] \in NodeRec /\ node[n].word \in Nat /\ n # p
      /\ isLocked(node[n].word) /\ ~isObsolete(node[n].word) /\ Free(node[n].word + 2) /\ node[n].word = o.v + 2 /\ Free(o.v)
  BY <1>1, OwnIs, Knows DEF Local, Doing
<1>4. Symbol(t) \in DOMAIN node[n].kids /\ getCount(node[n]) = 2 /\ q \in DOMAIN node
  BY <1>1, OtherIs
<1>5. CASE ~Free(w)
  <2> DEFINE a == writeUnlock(node[p])
             b == writeUnlock(node[n])
  <2>1. /\ a \in NodeRec /\ a.type = node[p].type /\ a.prefix = node[p].prefix /\ a.word = node[p].word + 2 /\ a.kids = node[p].kids
        /\ b \in NodeRec /\ b.type = node[n].type /\ b.prefix = node[n].prefix /\ b.word = node[n].word + 2 /\ b.kids = node[n].kids
    BY <1>2, <1>3, WordWrite
  <2>2. node' = [node EXCEPT ![p] = a, ![n] = b] /\ Restart(t)
    <3>1. node' = [node EXCEPT ![p] = writeUnlock(@), ![n] = writeUnlock(@)] /\ Restart(t)
      BY <1>5 DEF writeLockOrRestart, Free
    <3> QED
      BY <1>3, <3>1
  <2> HIDE DEF a, b
  <2>3. /\ DOMAIN node' = DOMAIN node /\ node'[p] = a /\ node'[n] = b
        /\ \A z \in DOMAIN node \ {p, n} : node'[z] = node[z]
        /\ node' \in [DOMAIN node' -> NodeRec] /\ \E N \in Nat \ {0} : DOMAIN node' = 1 .. N
    BY <1>2, <1>3, <2>1, <2>2, TwoNodes
  <2>4. Evolves(t)
    <3>1. node[p].word < a.word /\ node[n].word < b.word
      BY <1>2, <1>3, <2>1
    <3> QED
      BY <1>1, <2>3, <3>1 DEF Evolves
  <2>5. \A x : Linked(x)' <=> Linked(x)
    <3>1. PICK c \in CallRec : Go(t, c) /\ c.pc # "join"
      BY <2>2, EndIs
    <3>2. ~isObsolete(a.word) /\ ~isObsolete(b.word)
      BY <1>2, <1>3, <2>1 DEF Free
    <3>3. Linked(p) /\ Linked(n)
      BY <1>1, HeldLinked
    <3> QED
      BY <1>1, <2>3, <2>4, <3>1, <3>2, <3>3, LinkedIs DEF Linked
  <2>6. Shape' /\ SetsEvolve
    <3>1. \A x \in DOMAIN node : \A s, m : KidAt(node', x, s, m) => KidAt(node, x, s, m)
      BY <2>1, <2>3 DEF KidAt, InnerAt
    <3>2. node'[Root].type = node[Root].type /\ node'[Root].prefix = node[Root].prefix
      BY <2>1, <2>3, Knows
    <3> QED
      BY <2>3, <2>5, <3>1, <3>2, Shrinks
  <2>7. \A x \in DOMAIN node' : isLocked(node'[x].word) => x \in DOMAIN node /\ x \notin Held(t) /\ isLocked(node[x].word)
    BY <1>1, <1>2, <1>3, <2>1, <2>3 DEF Free
  <2>8. ListsEvolve(n)
    BY <1>1, <1>3, ListsKeep
  <2> QED
    BY <1>3, <2>2, <2>3, <2>4, <2>6, <2>7, <2>8, ReturnStep
<1>6. CASE Free(w)
  <2>1. node' = [node EXCEPT ![q] = Locked(@)] /\ GoTo(t, "lift") /\ q # p /\ q # n
    BY <1>2, <1>3, <1>6 DEF writeLockOrRestart, Free
  <2>2. "lift" \in OwnsN /\ "lift" \in OwnsP /\ "lift" \notin Reading
    BY DEF OwnsN, OwnsP, Reading
  <2>3. /\ [o EXCEPT !.pc = "lift"] \in CallRec /\ Go(t, [o EXCEPT !.pc = "lift"]) /\ [o EXCEPT !.pc = "lift"].pc = "lift"
        /\ LET c == th'[t] IN
           /\ c.pc = "lift" /\ c.n = n /\ c.par = p /\ c.pkey = o.pkey /\ c.v = o.v /\ c.pv = o.pv
           /\ Symbol(t)' = Symbol(t)
    BY <2>1, <2>2, GoToIs
  <2>4. /\ Evolves(t) /\ Shape' /\ SetsEvolve /\ ListsEvolve(q) /\ \E N \in Nat \ {0} : DOMAIN node' = 1 .. N
        /\ DOMAIN node' = DOMAIN node /\ \A y \in DOMAIN node \ {q} : node'[y] = node[y]
        /\ isLocked(node'[q].word) /\ ~isObsolete(node'[q].word)
    BY <1>1, <1>4, <1>6, <2>1, <2>3, LockIs
  <2>5. node'[n] = node[n] /\ node'[p] = node[p]
    BY <1>2, <1>3, <2>1, <2>4
  <2>6. Other(t)' = Other(t)
    BY <2>3, <2>5 DEF Other, Second
  <2>7. Held(t)' = {p, n, q}
    BY <2>3, <2>6 DEF Held
  <2>8. LocksEvolve(t) /\ Held(t)' \subseteq DOMAIN node'
    BY <1>1, <1>2, <1>3, <1>4, <1>6, <2>4, <2>5, <2>7 DEF LocksEvolve, Free
  <2>9. Snapshot(t)'
    <3>1. KidAt(node', p, o.pkey, n) /\ p # 0 /\ o.pv <= node[p].word
      BY <1>2, <2>5, Knows DEF KidAt, Local, Snapshot
    <3> QED
      BY <1>1, <1>2, <1>3, <1>4, <2>1, <2>2, <2>3, <2>5, <2>6, <3>1 DEF Snapshot
  <2>10. p # 0
    BY <1>2, Knows
  <2> HIDE DEF q
  <2> QED
    BY <1>1, <1>3, <1>4, <2>1, <2>2, <2>4, <2>8, <2>9, <2>10, OnStep
<1> QED
  BY <1>5, <1>6

\* The other child takes the place of the node of two and the parent is unlocked; the node is not obsolete yet.
LEMMA LiftKeeps ==
    ASSUME IInv, NEW t \in Threads, Lift(t) PROVE IInv'
<1> DEFINE o == th[t]
           n == o.n
           p == o.par
           q == Other(t)[2]
           a1 == change(node[p], o.pkey, Other(t))
           a == writeUnlock(a1)
<1>1. o.pc = "lift" /\ o.pc \in OwnsN /\ o.pc \in OwnsP /\ o.pc # "join" /\ Held(t) = {p, n, q} /\ UNCHANGED epocheVars
      /\ GoTo(t, "join")
  BY DEF Lift, OwnsN, OwnsP, Held
<1>2. /\ p \in DOMAIN node /\ node[p] \in NodeRec /\ Linked(p) /\ node[p].word \in Nat /\ Free(node[p].word + 2)
      /\ KidAt(node, p, o.pkey, n) /\ o.pkey \in DOMAIN node[p].kids
  BY <1>1, OwnPIs
<1>3. /\ Busy(t) /\ n \in DOMAIN node /\ node[n].word = o.v + 2 /\ Free(o.v) /\ n # p
      /\ isLocked(node[n].word) /\ ~isObsolete(node[n].word)
  BY <1>1, OwnIs, Knows DEF Local, Doing
<1>4. /\ isInner(Other(t)) /\ q # n /\ q # p /\ q \in DOMAIN node /\ Other(t) = Inner(q) /\ Other(t) \in Kid
      /\ KidAt(node, n, Second(t), q)
      /\ Symbol(t) \in DOMAIN node[n].kids /\ getCount(node[n]) = 2
  BY <1>1, OtherIs, Knows DEF Local, Snapshot
<1>5. /\ a1 \in NodeRec /\ a1.type = node[p].type /\ a1.prefix = node[p].prefix /\ a1.word = node[p].word
      /\ \A s, m : InnerAt(a1, s, m) => IF s = o.pkey THEN m = q ELSE InnerAt(node[p], s, m)
  BY <1>2, <1>4, ChangeIs, InnerIs
<1>6. node' = [node EXCEPT ![p] = a]
  BY DEF Lift
<1> HIDE DEF a1
<1>7. /\ a \in NodeRec /\ a.type = node[p].type /\ a.prefix = node[p].prefix /\ a.word = node[p].word + 2 /\ a.kids = a1.kids
  BY <1>5, WordWrite
<1> HIDE DEF a
<1>8. /\ DOMAIN node' = DOMAIN node /\ node'[p] = a /\ \A z \in DOMAIN node \ {p} : node'[z] = node[z]
      /\ node' \in [DOMAIN node' -> NodeRec] /\ \E N \in Nat \ {0} : DOMAIN node' = 1 .. N
  BY <1>2, <1>6, <1>7 DEF IInv, TypeInv
<1>9. Evolves(t)
  <2>1. node[p].word < a.word
    BY <1>2, <1>7
  <2> QED
    BY <1>1, <1>8, <2>1 DEF Evolves
<1>10. "join" \in OwnsN /\ "join" \notin OwnsP /\ "join" \notin Reading
  BY DEF OwnsN, OwnsP, Reading
<1>11. /\ [o EXCEPT !.pc = "join"] \in CallRec /\ Go(t, [o EXCEPT !.pc = "join"]) /\ [o EXCEPT !.pc = "join"].pc = "join"
       /\ LET c == th'[t] IN
          /\ c.pc = "join" /\ c.n = n /\ c.par = p /\ c.pkey = o.pkey /\ c.v = o.v /\ c.pv = o.pv
          /\ Symbol(t)' = Symbol(t)
  BY <1>1, <1>10, GoToIs
<1>12. PICK c \in CallRec : Go(t, c) /\ c.pc = "join" /\ c.n = n
  <2>1. [o EXCEPT !.pc = "join"].n = n
    BY <1>1, Knows DEF CallRec
  <2> QED
    BY <1>11, <2>1
<1>13. \A x : Linked(x)' <=> Linked(x) /\ x # n
  <2>1. ~isObsolete(a.word)
    BY <1>2, <1>7 DEF Free
  <2> QED
    BY <1>1, <1>8, <1>9, <1>12, <2>1, LinkedIs DEF Linked
<1>14. Shape' /\ SetsEvolve
  <2>1. \A x \in DOMAIN node' : \A s, m : KidAt(node', x, s, m) =>
           \/ x \in DOMAIN node /\ ~(x = p /\ s = o.pkey) /\ KidAt(node, x, s, m)
           \/ x = p /\ s = o.pkey /\ \E k : KidAt(node, n, k, m)
    <3>1. \A s, m : KidAt(node', p, s, m) => InnerAt(a1, s, m)
      BY <1>7, <1>8 DEF KidAt, InnerAt
    <3>2. \A x \in DOMAIN node \ {p} : \A s, m : KidAt(node', x, s, m) => KidAt(node, x, s, m)
      BY <1>8 DEF KidAt
    <3>3. ASSUME NEW s, NEW m, KidAt(node', p, s, m)
          PROVE  \/ s # o.pkey /\ KidAt(node, p, s, m)
                 \/ s = o.pkey /\ \E k : KidAt(node, n, k, m)
      <4>1. IF s = o.pkey THEN m = q ELSE InnerAt(node[p], s, m)
        BY <1>5, <3>1, <3>3
      <4> QED
        BY <1>4, <4>1 DEF KidAt
    <3> QED
      BY <1>2, <1>8, <3>2, <3>3
  <2>2. node'[Root].type = node[Root].type /\ node'[Root].prefix = node[Root].prefix
    BY <1>7, <1>8, Knows
  <2>3. Fresh \notin DOMAIN node'
    BY <1>2, <1>8, AllocIs DEF IInv
  <2>4. \A x \in DOMAIN node' : \A s, m : KidAt(node', x, s, m) =>
           \/ x \in DOMAIN node /\ ~(x = p /\ s = o.pkey) /\ KidAt(node, x, s, m)
           \/ x = p /\ s = o.pkey /\ IF Fresh \in DOMAIN node' THEN m = Fresh ELSE \E k : KidAt(node, n, k, m)
           \/ x = Fresh /\ KidAt(node, n, s, m)
    BY <2>1, <2>3
  <2>5. \A x : Linked(x)' <=> (Linked(x) /\ x # n) \/ (x = Fresh /\ Fresh \in DOMAIN node')
    BY <1>13, <2>3
  <2>6. DOMAIN node' \in {DOMAIN node, DOMAIN node \cup {Fresh}}
    BY <1>8
  <2> HIDE DEF n, p, q, o
  <2> QED
    BY <1>2, <1>3, <2>2, <2>4, <2>5, <2>6, Unlinks
<1>15. ListsEvolve(n)
  BY <1>1, <1>3, ListsKeep
<1>16. Other(t)' = Other(t) /\ node'[n] = node[n]
  BY <1>3, <1>8, <1>11 DEF Other, Second
<1>17. Held(t)' = {n, q}
  BY <1>11, <1>16 DEF Held
<1>18. LocksEvolve(t) /\ Held(t)' \subseteq DOMAIN node'
  <2>1. isLocked(node[q].word) /\ ~isObsolete(node[q].word) /\ node'[q] = node[q]
    BY <1>1, <1>4, <1>8 DEF IInv, LockInv
  <2> QED
    BY <1>1, <1>2, <1>3, <1>4, <1>7, <1>8, <1>16, <1>17, <2>1 DEF LocksEvolve, Free
<1>19. Snapshot(t)'
  <2>1. p # 0 => /\ Free(o.pv) /\ o.pv <= node'[p].word
                 /\ node'[p].word = o.pv => KidAt(node', p, o.pkey, n)
    BY <1>9, VersionsKeep
  <2>2. ValidP(t)' => p # 0 /\ node'[p].word = o.pv
    BY <1>10, <1>11 DEF ValidP
  <2> QED
    BY <1>3, <1>4, <1>10, <1>11, <1>16, <2>1, <2>2 DEF Snapshot
<1> QED
  BY <1>1, <1>3, <1>8, <1>9, <1>10, <1>14, <1>15, <1>18, <1>19, OnStep

\* The other child takes over the prefix; the node of two is obsolete and goes to the deletion list.
LEMMA JoinKeeps ==
    ASSUME IInv, NEW t \in Threads, Join(t) PROVE IInv'
<1> DEFINE o == th[t]
           n == o.n
           q == Other(t)[2]
           a1 == addPrefixBefore(node[q], node[n], Second(t))
           a == writeUnlock(a1)
           b == writeUnlockObsolete(node[n])
<1>1. o.pc = "join" /\ o.pc \in OwnsN /\ Held(t) = {n, q}
  BY DEF Join, OwnsN, Held
<1>2. /\ Busy(t) /\ n \in DOMAIN node /\ node[n] \in NodeRec /\ node[n].word \in Nat
      /\ ~isLocked(node[n].word + 3) /\ isObsolete(node[n].word + 3)
  BY <1>1, OwnIs
<1>3. /\ isInner(Other(t)) /\ q # n /\ q \in DOMAIN node /\ q # Root /\ node[q] \in NodeRec /\ Second(t) \in Symbols
      /\ KidAt(node, n, Second(t), q)
  BY <1>1, OtherIs, Knows DEF Local, Snapshot
<1>4. node[q].word \in Nat /\ Free(node[q].word + 2)
  <2>1. isLocked(node[q].word) /\ ~isObsolete(node[q].word)
    BY <1>1 DEF IInv, LockInv
  <2> QED
    BY <1>3, <2>1, NodeIs, WordIs
<1>5. a1 \in NodeRec /\ a1.word = node[q].word /\ a1.kids = node[q].kids
  <2> DEFINE pre == Append(node[n].prefix, Second(t)) \o node[q].prefix
  <2>1. pre \in Seq(Symbols)
    <3>1. node[n].prefix \in Seq(Symbols) /\ node[q].prefix \in Seq(Symbols)
      BY <1>2, <1>3, NodeIs
    <3> QED
      BY <1>3, <3>1
  <2>2. a1 = [node[q] EXCEPT !.prefix = pre]
    BY DEF addPrefixBefore
  <2> HIDE DEF pre
  <2> QED
    BY <1>3, <2>1, <2>2 DEF NodeRec
<1>6. node' = [node EXCEPT ![q] = a, ![n] = b] /\ MarkForDeletion(t, n) /\ Return(t, Null)
  <2>1. node' = [node EXCEPT ![q] = writeUnlock(addPrefixBefore(@, node[n], Second(t))), ![n] = writeUnlockObsolete(@)]
    BY DEF Join
  <2> QED
    BY <1>3, <2>1 DEF Join
<1> HIDE DEF a1
<1>7. a \in NodeRec /\ a.word = node[q].word + 2 /\ a.kids = node[q].kids
  BY <1>5, WordWrite
<1>8. b \in NodeRec /\ b.word = node[n].word + 3 /\ b.kids = node[n].kids /\ b.type = node[n].type /\ b.prefix = node[n].prefix
  BY <1>2, WordWrite
<1> HIDE DEF a, b
<1>9. /\ DOMAIN node' = DOMAIN node /\ node'[q] = a /\ node'[n] = b
      /\ \A z \in DOMAIN node \ {q, n} : node'[z] = node[z]
      /\ node' \in [DOMAIN node' -> NodeRec] /\ \E N \in Nat \ {0} : DOMAIN node' = 1 .. N
  BY <1>2, <1>3, <1>6, <1>7, <1>8, TwoNodes
<1>10. Evolves(t)
  <2>1. node[q].word < a.word /\ node[n].word < b.word
    BY <1>2, <1>4, <1>7, <1>8
  <2> QED
    BY <1>1, <1>9, <2>1 DEF Evolves
<1>11. \A x : Linked(x)' <=> Linked(x)
  <2>1. isObsolete(b.word) /\ ~isObsolete(a.word)
    BY <1>2, <1>4, <1>7, <1>8 DEF Free
  <2>2. PICK c \in CallRec : Go(t, c) /\ c.pc # "join"
    BY <1>6, EndIs
  <2>3. ~Linked(n)
    BY <1>1 DEF Linked, Lifted
  <2> QED
    BY <1>1, <1>9, <1>10, <2>1, <2>2, <2>3, LinkedIs DEF Linked
<1>12. Shape' /\ SetsEvolve
  <2>1. \A x \in DOMAIN node : \A s, m : KidAt(node', x, s, m) => KidAt(node, x, s, m)
    BY <1>7, <1>8, <1>9 DEF KidAt, InnerAt
  <2>2. node'[Root].type = node[Root].type /\ node'[Root].prefix = node[Root].prefix
    BY <1>3, <1>8, <1>9, Knows
  <2> QED
    BY <1>9, <1>11, <2>1, <2>2, Shrinks
<1>13. ListsEvolve(n)
  <2>1. isObsolete(node'[n].word)
    BY <1>2, <1>8, <1>9
  <2> QED
    BY <1>2, <1>6, <2>1, ListsKeep
<1>14. \A x \in DOMAIN node' : isLocked(node'[x].word) => x \in DOMAIN node /\ x \notin Held(t) /\ isLocked(node[x].word)
  BY <1>1, <1>2, <1>4, <1>7, <1>8, <1>9 DEF Free
<1> QED
  BY <1>2, <1>6, <1>9, <1>10, <1>12, <1>13, <1>14, ReturnStep

\* A write to one node, and a new node.
LEMMA NewAndOld ==
    ASSUME IInv, NEW x \in DOMAIN node, NEW q \in NodeRec, NEW a \in NodeRec, node' = [Alloc(q) EXCEPT ![x] = a]
    PROVE  /\ Fresh \in Nat /\ Fresh \notin DOMAIN node /\ DOMAIN node' = DOMAIN node \cup {Fresh}
           /\ node'[Fresh] = q /\ node'[x] = a /\ \A z \in DOMAIN node \ {x} : node'[z] = node[z]
           /\ node' \in [DOMAIN node' -> NodeRec] /\ \E N \in Nat \ {0} : DOMAIN node' = 1 .. N
<1>1. /\ Fresh \in Nat \ {0} /\ Fresh \notin DOMAIN node
      /\ \E N \in Nat \ {0} : DOMAIN Alloc(q) = 1 .. N
      /\ DOMAIN Alloc(q) = DOMAIN node \cup {Fresh}
      /\ Alloc(q) \in [DOMAIN node \cup {Fresh} -> NodeRec]
      /\ Alloc(q)[Fresh] = q /\ \A z \in DOMAIN node : Alloc(q)[z] = node[z]
  BY AllocIs DEF IInv
<1> QED
  BY <1>1

\* A leaf in the way is put below a new node.
LEMMA ForkKeeps ==
    ASSUME IInv, NEW t \in Threads, Fork(t) PROVE IInv'
<1> DEFINE o == th[t]
           n == o.n
           k == o.key
           old == o.child
           pre == Common(old[2], k, o.level + 1)
           at == o.level + 1 + Len(pre)
           kids == Two(At(k, at), MyLeaf(t), At(old[2], at), old)
           q == NewNode(N4, pre, kids)
           a1 == change(node[n], Symbol(t), Inner(Fresh))
           a == writeUnlock(a1)
<1>1. o.pc = "fork" /\ o.pc \in OwnsN /\ o.pc # "join" /\ Held(t) = {n} /\ UNCHANGED epocheVars /\ Return(t, Null)
  BY DEF Fork, OwnsN, Held
<1>2. /\ Busy(t) /\ n \in DOMAIN node /\ node[n] \in NodeRec /\ node[n].word \in Nat /\ Free(node[n].word + 2)
      /\ k \in Keys /\ o.level \in Nat /\ MyLeaf(t) \in Kid /\ old \in Kid /\ isLeaf(old)
  BY <1>1, OwnIs, Knows DEF Local, Doing
<1>3. q \in NodeRec /\ q.kids = kids /\ q.word = FreshWord /\ \A s, m : ~InnerAt(q, s, m)
  <2>1. old[2] \in Keys
    BY <1>2, KidIs
  <2>2. pre \in Seq(Symbols) /\ at \in Nat
    <3>1. pre \in Seq(Symbols)
      BY <1>2, CommonIs
    <3>2. Len(pre) \in Nat
      <4> HIDE DEF pre
      <4> QED
        BY <3>1
    <3> HIDE DEF pre
    <3> QED
      BY <1>2, <3>1, <3>2
  <2> HIDE DEF pre, at
  <2>3. At(k, at) \in Symbols /\ At(old[2], at) \in Symbols
    BY <1>2, <2>1, <2>2, AtIs
  <2>4. kids \in KidMaps /\ \A s \in DOMAIN kids : kids[s] \in {MyLeaf(t), old}
    <3>1. MyLeaf(t) \in Kid /\ old \in Kid
      BY <1>2
    <3> HIDE DEF k, old, o
    <3> QED
      BY <2>3, <3>1, TwoIs
  <2>5. \A m : MyLeaf(t) # Inner(m) /\ old # Inner(m)
    BY <1>2, KidIs DEF MyLeaf
  <2> HIDE DEF kids
  <2>6. q \in NodeRec /\ q.kids = kids /\ q.word = FreshWord
    BY <2>2, <2>4, NewNodeIs DEF N4, N256
  <2> QED
    BY <2>4, <2>5, <2>6 DEF InnerAt
<1> HIDE DEF kids, pre, at
<1>4. Fresh \in Nat /\ Fresh \notin DOMAIN node /\ Alloc(q)[n] = node[n]
  BY <1>2, <1>3, AllocIs DEF IInv
<1>5. /\ a1 \in NodeRec /\ a1.type = node[n].type /\ a1.prefix = node[n].prefix /\ a1.word = node[n].word
      /\ \A s, m : InnerAt(a1, s, m) => IF s = Symbol(t) THEN m = Fresh ELSE InnerAt(node[n], s, m)
  <2>1. /\ a1 \in NodeRec /\ a1.type = node[n].type /\ a1.prefix = node[n].prefix /\ a1.word = node[n].word
        /\ DOMAIN a1.kids = DOMAIN node[n].kids
        /\ \A s, m : InnerAt(a1, s, m) <=>
              IF s = Symbol(t) /\ Symbol(t) \in DOMAIN node[n].kids THEN Inner(Fresh) = Inner(m) ELSE InnerAt(node[n], s, m)
    BY <1>2, <1>4, ChangeIs, KidIs
  <2>2. \A m : Inner(Fresh) = Inner(m) => m = Fresh
    BY InnerIs
  <2> HIDE DEF a1
  <2> QED
    BY <2>1, <2>2 DEF InnerAt
<1> HIDE DEF a1
<1>6. /\ a \in NodeRec /\ a.type = node[n].type /\ a.prefix = node[n].prefix /\ a.word = node[n].word + 2 /\ a.kids = a1.kids
  BY <1>5, WordWrite
<1>7. node' = [Alloc(q) EXCEPT ![n] = a]
  <2>1. node' = [Alloc(q) EXCEPT ![n] = writeUnlock(change(@, Symbol(t), Inner(Fresh)))]
    BY DEF Fork, q, kids, pre, at
  <2> HIDE DEF q
  <2> QED
    BY <1>4, <2>1 DEF a1
<1> HIDE DEF q, a
<1>8. /\ DOMAIN node' = DOMAIN node \cup {Fresh} /\ node'[Fresh] = q /\ node'[n] = a
      /\ \A z \in DOMAIN node \ {n} : node'[z] = node[z]
      /\ node' \in [DOMAIN node' -> NodeRec] /\ \E N \in Nat \ {0} : DOMAIN node' = 1 .. N
  BY ZenonT(60), <1>2, <1>3, <1>6, <1>7, NewAndOld
<1>9. Evolves(t)
  <2>1. node[n].word < a.word
    BY <1>2, <1>6
  <2> QED
    BY <1>1, <1>8, <2>1 DEF Evolves
<1>10. \A x : Linked(x)' <=> Linked(x) \/ x = Fresh
  <2>1. ~isObsolete(a.word) /\ ~isObsolete(q.word)
    BY <1>2, <1>3, <1>6, WordIs DEF Free
  <2>2. PICK c \in CallRec : Go(t, c) /\ c.pc # "join"
    BY <1>1, EndIs
  <2>3. Linked(n)
    BY <1>1, HeldLinked
  <2> QED
    BY <1>1, <1>4, <1>8, <1>9, <2>1, <2>2, <2>3, LinkedIs DEF Linked
<1>11. Shape' /\ SetsEvolve
  <2>1. Grafted(n, Symbol(t), n, Symbol(t))
    <3>1. \A s, m : KidAt(node', n, s, m) => InnerAt(a1, s, m)
      BY <1>6, <1>8 DEF KidAt, InnerAt
    <3>2. \A x \in DOMAIN node \ {n} : \A s, m : KidAt(node', x, s, m) => KidAt(node, x, s, m)
      BY <1>8 DEF KidAt
    <3>3. \A s, m : ~KidAt(node', Fresh, s, m)
      BY <1>3, <1>8 DEF KidAt
    <3>4. \A s, m : KidAt(node', n, s, m) => IF s = Symbol(t) THEN m = Fresh ELSE KidAt(node, n, s, m)
      BY <1>5, <3>1 DEF KidAt
    <3>5. ASSUME NEW x \in DOMAIN node', NEW s, NEW m, KidAt(node', x, s, m)
          PROVE  \/ x \in DOMAIN node /\ ~(x = n /\ s = Symbol(t)) /\ KidAt(node, x, s, m)
                 \/ x = n /\ s = Symbol(t) /\ m = Fresh
      <4>1. x \in DOMAIN node /\ n \in DOMAIN node
        BY <1>2, <1>8, <3>3, <3>5
      <4>2. CASE x = n
        BY <3>4, <3>5, <4>1, <4>2
      <4>3. CASE x # n
        BY <3>2, <3>5, <4>1, <4>3
      <4> QED
        BY <4>2, <4>3
    <3> QED
      BY <3>5 DEF Grafted
  <2>2. node'[Root].type = node[Root].type /\ node'[Root].prefix = node[Root].prefix
    BY <1>6, <1>8, Knows
  <2>3. Linked(n)
    BY <1>1, HeldLinked
  <2> HIDE DEF n, o
  <2> QED
    BY <1>8, <1>10, <2>1, <2>2, <2>3, Grafts
<1>12. ListsEvolve(n)
  BY <1>1, <1>2, ListsKeep
<1>13. \A x \in DOMAIN node' : isLocked(node'[x].word) => x \in DOMAIN node /\ x \notin Held(t) /\ isLocked(node[x].word)
  <2>1. ~isLocked(a.word) /\ ~isLocked(q.word)
    BY <1>2, <1>3, <1>6, WordIs DEF Free
  <2> QED
    BY <1>1, <1>8, <2>1
<1> QED
  BY <1>1, <1>2, <1>8, <1>9, <1>11, <1>12, <1>13, ReturnStep

\* A new node for the part of a prefix that agrees goes above the node; the parent is unlocked, the node is not.
LEMMA SplitKeeps ==
    ASSUME IInv, NEW t \in Threads, Split(t) PROVE IInv'
<1> DEFINE o == th[t]
           n == o.n
           p == o.par
           pre == SubSeq(node[n].prefix, 1, o.hit)
           s1 == At(o.key, o.level + o.hit)
           s2 == node[n].prefix[o.hit + 1]
           kids == Two(s1, MyLeaf(t), s2, Inner(n))
           q == NewNode(N4, pre, kids)
           a1 == change(node[p], o.pkey, Inner(Fresh))
           a == writeUnlock(a1)
<1>1. o.pc = "split" /\ o.pc \in OwnsN /\ o.pc \in OwnsP /\ o.pc # "join" /\ Held(t) = {p, n} /\ UNCHANGED epocheVars
      /\ GoTo(t, "cut")
  BY DEF Split, OwnsN, OwnsP, Held
<1>2. /\ p \in DOMAIN node /\ node[p] \in NodeRec /\ Linked(p) /\ node[p].word \in Nat /\ Free(node[p].word + 2)
      /\ KidAt(node, p, o.pkey, n) /\ o.pkey \in DOMAIN node[p].kids
  BY <1>1, OwnPIs
<1>3. /\ Busy(t) /\ n \in DOMAIN node /\ node[n] \in NodeRec /\ n # p /\ Free(o.v) /\ node[n].word = o.v + 2
      /\ isLocked(node[n].word) /\ ~isObsolete(node[n].word)
      /\ o.key \in Keys /\ o.level \in Nat /\ o.hit \in Nat /\ MyLeaf(t) \in Kid
  BY <1>1, OwnIs, Knows DEF Local, Doing
<1>4. o.hit < Len(node[n].prefix) /\ node[n].prefix \in Seq(Symbols)
  BY <1>1, <1>3, Knows, NodeIs DEF Local, Snapshot
<1>5. pre \in Seq(Symbols) /\ s2 \in Symbols
  <2>1. \A i \in 1 .. o.hit : node[n].prefix[i] \in Symbols
    BY <1>3, <1>4
  <2>2. o.hit + 1 \in 1 .. Len(node[n].prefix)
    BY <1>3, <1>4
  <2> QED
    BY <1>3, <1>4, <2>1, <2>2, SubSeqProperties
<1>6. s1 \in Symbols
  <2>1. o.level + o.hit \in Nat
    BY <1>3
  <2> QED
    BY <1>3, <2>1, AtIs
<1> HIDE DEF pre, s1, s2
<1>7. q \in NodeRec /\ q.word = FreshWord /\ \A s, m : InnerAt(q, s, m) => s = s2 /\ m = n
  <2>1. Inner(n) \in Kid /\ MyLeaf(t) \in Kid /\ \A m : MyLeaf(t) # Inner(m)
    <3>1. n \in Nat
      BY <1>3, Knows
    <3> HIDE DEF n, o
    <3> QED
      BY <1>3, <3>1, KidIs DEF MyLeaf
  <2>2. kids \in KidMaps /\ \A s \in DOMAIN kids : kids[s] = MyLeaf(t) \/ (s = s2 /\ kids[s] = Inner(n))
    BY <1>5, <1>6, <2>1, TwoIs
  <2> HIDE DEF kids
  <2>3. q \in NodeRec /\ q.kids = kids /\ q.word = FreshWord
    BY <1>5, <2>2, NewNodeIs DEF N4, N256
  <2> HIDE DEF q
  <2> QED
    BY <2>1, <2>2, <2>3, InnerIs DEF InnerAt
<1>8. Fresh \in Nat /\ Fresh \notin DOMAIN node /\ Alloc(q)[p] = node[p]
  <2> HIDE DEF q
  <2> QED
    BY <1>2, <1>7, AllocIs DEF IInv
<1>9. /\ a1 \in NodeRec /\ a1.type = node[p].type /\ a1.prefix = node[p].prefix /\ a1.word = node[p].word
      /\ \A s, m : InnerAt(a1, s, m) => IF s = o.pkey THEN m = Fresh ELSE InnerAt(node[p], s, m)
  <2>1. Inner(Fresh) \in Kid /\ \A m : Inner(Fresh) = Inner(m) => m = Fresh
    BY <1>8, KidIs, InnerIs
  <2> QED
    BY <1>2, <2>1, ChangeIs
<1> HIDE DEF a1
<1>10. /\ a \in NodeRec /\ a.type = node[p].type /\ a.prefix = node[p].prefix /\ a.word = node[p].word + 2 /\ a.kids = a1.kids
  BY <1>9, WordWrite
<1>11. node' = [Alloc(q) EXCEPT ![p] = a]
  <2>1. node' = [Alloc(q) EXCEPT ![p] = writeUnlock(change(@, o.pkey, Inner(Fresh)))]
    BY DEF Split, q, kids, pre, s1, s2
  <2> HIDE DEF q
  <2> QED
    BY <1>8, <2>1 DEF a1
<1> HIDE DEF q, a
<1>12. /\ DOMAIN node' = DOMAIN node \cup {Fresh} /\ node'[Fresh] = q /\ node'[p] = a
       /\ \A z \in DOMAIN node \ {p} : node'[z] = node[z]
       /\ node' \in [DOMAIN node' -> NodeRec] /\ \E N \in Nat \ {0} : DOMAIN node' = 1 .. N
  BY <1>2, <1>7, <1>10, <1>11, NewAndOld
<1>13. Evolves(t)
  <2>1. node[p].word < a.word
    BY <1>2, <1>10
  <2> QED
    BY <1>1, <1>12, <2>1 DEF Evolves
<1>14. "cut" \in OwnsN /\ "cut" \notin OwnsP /\ "cut" \notin Reading
  BY DEF OwnsN, OwnsP, Reading
<1>15. /\ [o EXCEPT !.pc = "cut"] \in CallRec /\ Go(t, [o EXCEPT !.pc = "cut"]) /\ [o EXCEPT !.pc = "cut"].pc = "cut"
       /\ LET c == th'[t] IN c.pc = "cut" /\ c.n = n /\ c.par = p /\ c.pkey = o.pkey /\ c.v = o.v /\ c.pv = o.pv
  BY <1>1, <1>14, GoToIs
<1>16. ~isLocked(a.word) /\ ~isObsolete(a.word) /\ ~isLocked(q.word) /\ ~isObsolete(q.word)
  BY <1>2, <1>7, <1>10, WordIs DEF Free
<1>17. \A x : Linked(x)' <=> Linked(x) \/ x = Fresh
  <2>1. PICK c \in CallRec : Go(t, c) /\ c.pc # "join"
    BY <1>15
  <2> QED
    BY <1>1, <1>2, <1>8, <1>12, <1>13, <1>16, <2>1, LinkedIs DEF Linked
<1>18. Shape' /\ SetsEvolve
  <2>1. Grafted(p, o.pkey, n, s2)
    <3>1. \A s, m : KidAt(node', p, s, m) => IF s = o.pkey THEN m = Fresh ELSE KidAt(node, p, s, m)
      <4>1. \A s, m : KidAt(node', p, s, m) => InnerAt(a1, s, m)
        BY <1>10, <1>12 DEF KidAt, InnerAt
      <4> QED
        BY <1>9, <4>1 DEF KidAt
    <3>2. \A x \in DOMAIN node \ {p} : \A s, m : KidAt(node', x, s, m) => KidAt(node, x, s, m)
      BY <1>12 DEF KidAt
    <3>3. \A s, m : KidAt(node', Fresh, s, m) => s = s2 /\ m = n
      BY <1>7, <1>12 DEF KidAt
    <3>4. ASSUME NEW x \in DOMAIN node', NEW s, NEW m, KidAt(node', x, s, m)
          PROVE  \/ x \in DOMAIN node /\ ~(x = p /\ s = o.pkey) /\ KidAt(node, x, s, m)
                 \/ x = p /\ s = o.pkey /\ m = Fresh
                 \/ x = Fresh /\ s = s2 /\ m = n
      <4>1. CASE x = p
        BY <1>2, <3>1, <3>4, <4>1
      <4>2. CASE x = Fresh
        BY <3>3, <3>4, <4>2
      <4>3. CASE x # p /\ x # Fresh
        BY <1>12, <3>2, <3>4, <4>3
      <4> QED
        BY <4>1, <4>2, <4>3
    <3> QED
      BY <1>2, <3>4 DEF Grafted
  <2>2. node'[Root].type = node[Root].type /\ node'[Root].prefix = node[Root].prefix
    BY <1>10, <1>12, Knows
  <2> HIDE DEF n, p, o
  <2> QED
    BY <1>2, <1>12, <1>17, <2>1, <2>2, Grafts
<1>19. ListsEvolve(n)
  BY <1>1, <1>3, ListsKeep
<1>20. Held(t)' = {n}
  BY <1>15 DEF Held
<1>21. LocksEvolve(t) /\ Held(t)' \subseteq DOMAIN node'
  BY <1>1, <1>3, <1>12, <1>16, <1>20 DEF LocksEvolve
<1>22. Snapshot(t)'
  <2>1. p # 0 => /\ Free(o.pv) /\ o.pv <= node'[p].word
                 /\ node'[p].word = o.pv => KidAt(node', p, o.pkey, n)
    BY <1>13, VersionsKeep
  <2>2. ValidP(t)' => p # 0 /\ node'[p].word = o.pv
    BY <1>14, <1>15 DEF ValidP
  <2> QED
    BY <1>3, <1>12, <1>14, <1>15, <2>1, <2>2 DEF Snapshot
<1> QED
  BY <1>1, <1>3, <1>12, <1>13, <1>14, <1>18, <1>19, <1>21, <1>22, OnStep

\* A node is replaced by a new one with at most its children, and goes to the deletion list.
LEMMA ReplaceKeeps ==
    ASSUME IInv, NEW t \in Threads, th[t].pc \in {"grow", "shrink"}, NEW q \in NodeRec, q.word = FreshWord,
           \A s, m : InnerAt(q, s, m) => InnerAt(node[th[t].n], s, m), Replace(t, q)
    PROVE  IInv'
<1> DEFINE o == th[t]
           n == o.n
           p == o.par
           a1 == change(node[p], o.pkey, Inner(Fresh))
           a == writeUnlock(a1)
           b == writeUnlockObsolete(node[n])
<1>1. o.pc \in OwnsN /\ o.pc \in OwnsP /\ o.pc # "join" /\ Held(t) = {p, n}
  BY DEF OwnsN, OwnsP, Held
<1>2. /\ p \in DOMAIN node /\ node[p] \in NodeRec /\ Linked(p) /\ node[p].word \in Nat /\ Free(node[p].word + 2)
      /\ KidAt(node, p, o.pkey, n) /\ o.pkey \in DOMAIN node[p].kids /\ n # Root
  BY <1>1, OwnPIs
<1>3. /\ Busy(t) /\ n \in DOMAIN node /\ node[n] \in NodeRec /\ node[n].word \in Nat /\ n # p
      /\ ~isLocked(node[n].word + 3) /\ isObsolete(node[n].word + 3)
  BY <1>1, OwnIs, Knows DEF Local, Doing
<1>4. /\ Fresh \in Nat /\ Fresh \notin DOMAIN node
      /\ DOMAIN Alloc(q) = DOMAIN node \cup {Fresh} /\ \E N \in Nat \ {0} : DOMAIN Alloc(q) = 1 .. N
      /\ Alloc(q) \in [DOMAIN node \cup {Fresh} -> NodeRec]
      /\ Alloc(q)[Fresh] = q /\ \A x \in DOMAIN node : Alloc(q)[x] = node[x]
  BY AllocIs DEF IInv
<1>5. /\ a1 \in NodeRec /\ a1.type = node[p].type /\ a1.prefix = node[p].prefix /\ a1.word = node[p].word
      /\ \A s, m : InnerAt(a1, s, m) => IF s = o.pkey THEN m = Fresh ELSE InnerAt(node[p], s, m)
  <2>1. Inner(Fresh) \in Kid /\ \A m : Inner(Fresh) = Inner(m) => m = Fresh
    BY <1>4, KidIs, InnerIs
  <2> QED
    BY <1>2, <2>1, ChangeIs
<1> HIDE DEF a1
<1>6. /\ a \in NodeRec /\ a.type = node[p].type /\ a.prefix = node[p].prefix /\ a.word = node[p].word + 2 /\ a.kids = a1.kids
  BY <1>5, WordWrite
<1>7. /\ b \in NodeRec /\ b.word = node[n].word + 3 /\ b.kids = node[n].kids
  BY <1>3, WordWrite
<1>8. node' = [Alloc(q) EXCEPT ![p] = a, ![n] = b] /\ MarkForDeletion(t, n) /\ Return(t, Null)
  <2>1. node' = [Alloc(q) EXCEPT ![p] = writeUnlock(change(@, o.pkey, Inner(Fresh))), ![n] = writeUnlockObsolete(@)]
    BY DEF Replace
  <2> QED
    BY <1>2, <1>3, <1>4, <2>1 DEF Replace, a1
<1> HIDE DEF a, b
<1>9. /\ DOMAIN node' = DOMAIN node \cup {Fresh} /\ node'[Fresh] = q /\ node'[p] = a /\ node'[n] = b
      /\ \A z \in DOMAIN node \ {p, n} : node'[z] = node[z]
      /\ node' \in [DOMAIN node' -> NodeRec] /\ \E N \in Nat \ {0} : DOMAIN node' = 1 .. N
  BY <1>2, <1>3, <1>4, <1>6, <1>7, <1>8
<1>10. Evolves(t)
  <2>1. node[p].word < a.word /\ node[n].word < b.word
    BY <1>2, <1>3, <1>6, <1>7
  <2> QED
    BY <1>1, <1>9, <2>1 DEF Evolves
<1>11. ~isLocked(a.word) /\ ~isObsolete(a.word) /\ ~isLocked(b.word) /\ isObsolete(b.word)
       /\ ~isLocked(q.word) /\ ~isObsolete(q.word)
  BY <1>2, <1>3, <1>6, <1>7, WordIs DEF Free
<1>12. \A x : Linked(x)' <=> (Linked(x) /\ x # n) \/ x = Fresh
  <2>1. PICK c \in CallRec : Go(t, c) /\ c.pc # "join"
    BY <1>8, EndIs
  <2>2. \A x : Linked(x)' <=> x \in DOMAIN node' /\ ~isObsolete(node'[x].word) /\ (x \in DOMAIN node => Linked(x))
    BY <1>1, <1>10, <2>1, LinkedIs
  <2>3. \A x : Linked(x) => x \in DOMAIN node /\ ~isObsolete(node[x].word)
    BY DEF Linked
  <2>4. ASSUME NEW x
        PROVE  Linked(x)' <=> (Linked(x) /\ x # n) \/ x = Fresh
    <3>1. CASE x = n
      BY <1>3, <1>4, <1>9, <1>11, <2>2, <3>1
    <3>2. CASE x = Fresh
      BY <1>4, <1>9, <1>11, <2>2, <3>2
    <3>3. CASE x # n /\ x # Fresh
      <4>1. Linked(x) => x \in DOMAIN node' /\ ~isObsolete(node'[x].word)
        BY <1>9, <1>11, <2>3, <3>3
      <4>2. x \in DOMAIN node' => x \in DOMAIN node
        BY <1>9, <3>3
      <4> QED
        BY <2>2, <3>3, <4>1, <4>2
    <3> QED
      BY <3>1, <3>2, <3>3
  <2> QED
    BY <2>4
<1>13. Shape' /\ SetsEvolve
  <2>1. \A s, m : KidAt(node', p, s, m) => IF s = o.pkey THEN m = Fresh ELSE KidAt(node, p, s, m)
    <3>1. \A s, m : KidAt(node', p, s, m) => InnerAt(a1, s, m)
      BY <1>6, <1>9 DEF KidAt, InnerAt
    <3> QED
      BY <1>5, <3>1 DEF KidAt
  <2>2. \A x \in DOMAIN node \ {p} : \A s, m : KidAt(node', x, s, m) => KidAt(node, x, s, m)
    BY <1>3, <1>7, <1>9 DEF KidAt, InnerAt
  <2>3. \A s, m : KidAt(node', Fresh, s, m) => KidAt(node, n, s, m)
    BY <1>9 DEF KidAt
  <2>4. ASSUME NEW x \in DOMAIN node', NEW s, NEW m, KidAt(node', x, s, m)
        PROVE  \/ x \in DOMAIN node /\ ~(x = p /\ s = o.pkey) /\ KidAt(node, x, s, m)
               \/ x = p /\ s = o.pkey /\ m = Fresh
               \/ x = Fresh /\ KidAt(node, n, s, m)
    <3>1. CASE x = p
      BY <1>2, <2>1, <2>4, <3>1
    <3>2. CASE x = Fresh
      BY <2>3, <2>4, <3>2
    <3>3. CASE x # p /\ x # Fresh
      BY <1>9, <2>2, <2>4, <3>3
    <3> QED
      BY <3>1, <3>2, <3>3
  <2>5. Fresh \in DOMAIN node' /\ DOMAIN node' \in {DOMAIN node, DOMAIN node \cup {Fresh}}
    BY <1>9
  <2>6. \A x \in DOMAIN node' : \A s, m : KidAt(node', x, s, m) =>
           \/ x \in DOMAIN node /\ ~(x = p /\ s = o.pkey) /\ KidAt(node, x, s, m)
           \/ x = p /\ s = o.pkey /\ IF Fresh \in DOMAIN node' THEN m = Fresh ELSE \E k : KidAt(node, n, k, m)
           \/ x = Fresh /\ KidAt(node, n, s, m)
    BY <2>4, <2>5
  <2>7. \A x : Linked(x)' <=> (Linked(x) /\ x # n) \/ (x = Fresh /\ Fresh \in DOMAIN node')
    BY <1>12, <2>5
  <2>8. node'[Root].type = node[Root].type /\ node'[Root].prefix = node[Root].prefix
    BY <1>2, <1>6, <1>9, Knows
  <2> HIDE DEF n, p, o
  <2> QED
    BY <1>2, <1>3, <2>5, <2>6, <2>7, <2>8, Unlinks
<1>14. ListsEvolve(n)
  <2>1. isObsolete(node'[n].word)
    BY <1>9, <1>11
  <2> QED
    BY <1>3, <1>8, <2>1, ListsKeep
<1>15. \A x \in DOMAIN node' : isLocked(node'[x].word) => x \in DOMAIN node /\ x \notin Held(t) /\ isLocked(node[x].word)
  BY <1>1, <1>9, <1>11
<1> QED
  BY <1>3, <1>8, <1>9, <1>10, <1>13, <1>14, <1>15, ReturnStep

\* A node is copied into one of the next type: its kids, and the type and the word of a new node.
LEMMA CopyIs ==
    ASSUME NEW n \in NodeRec, NEW type \in N4 .. N256
    PROVE  LET new == copyTo(n, type) IN new \in NodeRec /\ new.kids = n.kids /\ new.word = FreshWord
BY NewNodeIs DEF copyTo, NodeRec

\* A full node grows before a leaf is put.
LEMMA insertGrowKeeps ==
    ASSUME IInv, NEW t \in Threads, insertGrow(t) PROVE IInv'
<1> DEFINE n == node[th[t].n]
           n1 == copyTo(n, n.type + 1)
           q == insertKid(n1, Symbol(t), MyLeaf(t))
<1>1. th[t].pc = "grow" /\ th[t].pc \in OwnsN /\ Replace(t, q)
  BY DEF insertGrow, OwnsN
<1>2. n \in NodeRec /\ Symbol(t) \in Symbols /\ MyLeaf(t) \in Kid /\ \A m : MyLeaf(t) # Inner(m)
  BY <1>1, OwnIs, KidIs DEF MyLeaf
<1>3. n.type + 1 \in N4 .. N256
  <2>1. n.type # N256
    BY <1>1, Knows DEF Local, Snapshot
  <2> QED
    BY <1>2, <2>1, NodeIs DEF N4, N256
<1>4. n1 \in NodeRec /\ n1.kids = n.kids /\ n1.word = FreshWord
  BY <1>2, <1>3, CopyIs
<1> HIDE DEF n1
<1>5. /\ q \in NodeRec /\ q.word = FreshWord
      /\ \A s, m : InnerAt(q, s, m) <=> IF s = Symbol(t) THEN MyLeaf(t) = Inner(m) ELSE InnerAt(n1, s, m)
  BY <1>2, <1>4, InsertKidIs
<1>6. \A s, m : InnerAt(q, s, m) => InnerAt(n, s, m)
  BY <1>2, <1>4, <1>5 DEF InnerAt
<1> HIDE DEF q
<1> QED
  BY <1>1, <1>5, <1>6, ReplaceKeeps

\* An underfull node shrinks when a leaf is taken out.
LEMMA removeAndShrinkKeeps ==
    ASSUME IInv, NEW t \in Threads, removeAndShrink(t) PROVE IInv'
<1> DEFINE n == node[th[t].n]
           n1 == copyTo(n, n.type - 1)
           q == removeKid(n1, Symbol(t))
<1>1. th[t].pc = "shrink" /\ th[t].pc \in OwnsN /\ Replace(t, q)
  BY DEF removeAndShrink, OwnsN
<1>2. n \in NodeRec
  BY <1>1, OwnIs
<1>3. n.type - 1 \in N4 .. N256
  <2>1. n.type # N4
    BY <1>1, Knows DEF Local, Snapshot
  <2> QED
    BY <1>2, <2>1, NodeIs DEF N4, N256
<1>4. n1 \in NodeRec /\ n1.kids = n.kids /\ n1.word = FreshWord
  BY <1>2, <1>3, CopyIs
<1> HIDE DEF n1
<1>5. q \in NodeRec /\ q.word = FreshWord /\ \A s, m : InnerAt(q, s, m) => InnerAt(n1, s, m)
  BY <1>4, RemoveKidIs
<1>6. \A s, m : InnerAt(q, s, m) => InnerAt(n, s, m)
  BY <1>4, <1>5 DEF InnerAt
<1> HIDE DEF q
<1> QED
  BY <1>1, <1>5, <1>6, ReplaceKeeps

-----------------------------------------------------------------------------
(* The theorems.                                                           *)

\* A step that changes nothing keeps the invariant.
LEMMA Stutters ==
    ASSUME IInv, UNCHANGED vars PROVE IInv'
<1>1. node' = node /\ th' = th /\ currentEpoche' = currentEpoche /\ localEpoche' = localEpoche /\ labels' = labels
      /\ counter' = counter /\ freed' = freed
  BY DEF vars, epocheVars
<1>2. TypeInv'
  BY <1>1 DEF IInv, TypeInv
<1>3. \A x : Linked(x)' <=> Linked(x)
  BY <1>1 DEF Linked, Lifted
<1>4. TreeInv'
  <2>1. Shape'
    BY <1>1, <1>3 DEF IInv, TreeInv, Shape
  <2> QED
    BY <1>1, <2>1 DEF IInv, TreeInv
<1>5. \A t \in Threads : Held(t)' = Held(t) /\ Symbol(t)' = Symbol(t) /\ Other(t)' = Other(t)
  BY <1>1 DEF Held, Other, Second, Symbol
<1>6. LockInv'
  BY <1>1, <1>5 DEF IInv, LockInv
<1>7. ASSUME NEW t \in Threads
      PROVE  Local(t)' /\ (Busy(t)' => Reach(t)')
  <2>1. Doing(t)' /\ (Busy(t)' <=> Busy(t))
    BY <1>1 DEF IInv, Local, Doing, Busy
  <2>2. Snapshot(t)'
    BY <1>1, <1>5 DEF IInv, Local, Snapshot, Valid, ValidP
  <2>3. Busy(t) => Reach(t)'
    BY <1>1 DEF IInv, Reach, Spared
  <2> QED
    BY <2>1, <2>2, <2>3 DEF Local
<1> QED
  BY <1>2, <1>4, <1>6, <1>7 DEF IInv

\* Every action of every thread keeps the invariant.
LEMMA NextKeeps ==
    ASSUME IInv, [Next]_vars PROVE IInv'
<1>1. CASE UNCHANGED vars
  BY <1>1, Stutters
<1>2. ASSUME NEW t \in Threads, Step(t)
      PROVE  IInv'
  <2>1. CASE Enter(t)
    BY <2>1, EnterKeeps
  <2>2. CASE Exit(t)
    BY <2>2, ExitKeeps
  <2>3. CASE readLockOrRestart(t)
    BY <2>3, readLockOrRestartKeeps
  <2>4. CASE Couple(t)
    BY <2>4, CoupleKeeps
  <2>5. CASE Prefix(t)
    BY <2>5, PrefixKeeps
  <2>6. CASE checkPrefixPessimistic(t)
    BY <2>6, checkPrefixPessimisticKeeps
  <2>7. CASE Bail(t) \/ CheckFails(t)
    BY <2>7, BailKeeps
  <2>8. CASE ReadChild(t)
    BY <2>8, ReadChildKeeps
  <2>9. CASE CheckLookup(t)
    BY <2>9, CheckLookupKeeps
  <2>10. CASE CheckInsert(t)
    BY <2>10, CheckInsertKeeps
  <2>11. CASE CheckRemove(t)
    BY <2>11, CheckRemoveKeeps
  <2>12. CASE CheckParent(t)
    BY <2>12, CheckParentKeeps
  <2>13. CASE upgradeToWriteLockOrRestart(t)
    BY <2>13, upgradeToWriteLockOrRestartKeeps
  <2>14. CASE LockParent(t)
    BY <2>14, LockParentKeeps
  <2>15. CASE LockBoth(t)
    BY <2>15, LockBothKeeps
  <2>16. CASE Put(t)
    BY <2>16, PutKeeps
  <2>17. CASE Fork(t)
    BY <2>17, ForkKeeps
  <2>18. CASE Split(t)
    BY <2>18, SplitKeeps
  <2>19. CASE setPrefix(t)
    BY <2>19, setPrefixKeeps
  <2>20. CASE insertGrow(t)
    BY <2>20, insertGrowKeeps
  <2>21. CASE removeAndShrink(t)
    BY <2>21, removeAndShrinkKeeps
  <2>22. CASE Drop(t)
    BY <2>22, DropKeeps
  <2>23. CASE ClearIndex(t)
    BY <2>23, ClearIndexKeeps
  <2>24. CASE Pair(t)
    BY <2>24, PairKeeps
  <2>25. CASE writeLockOrRestart(t)
    BY <2>25, writeLockOrRestartKeeps
  <2>26. CASE Lift(t)
    BY <2>26, LiftKeeps
  <2>27. CASE Join(t)
    BY <2>27, JoinKeeps
  <2>28. CASE PrefixCompare(t)
    BY <2>28, PrefixCompareKeeps
  <2>29. CASE Agree(t)
    BY <2>29, AgreeKeeps
  <2>30. CASE Down(t)
    BY <2>30, DownKeeps
  <2>31. CASE Smaller(t) \/ Larger(t)
    BY <2>31, SmallerKeeps
  <2>32. CASE Outermost(t)
    BY <2>32, OutermostKeeps
  <2> QED
    BY <1>2, <2>1, <2>2, <2>3, <2>4, <2>5, <2>6, <2>7, <2>8, <2>9, <2>10, <2>11, <2>12, <2>13, <2>14, <2>15, <2>16,
       <2>17, <2>18, <2>19, <2>20, <2>21, <2>22, <2>23, <2>24, <2>25, <2>26, <2>27, <2>28, <2>29, <2>30, <2>31, <2>32
       DEF Step
<1>3. ASSUME NEW t \in Threads, insert(t) \/ remove(t) \/ lookup(t) \/ seekLE(t)
      PROVE  IInv'
  BY <1>3, CallKeeps
<1> QED
  BY <1>1, <1>2, <1>3 DEF Next

\* The inductive invariant holds in every state of the tree, whatever the threads, the keys, the calls and the trees
\* to start with: the nodes form a tree, every lock has its writer, every call knows what its versions tell it, and
\* what it can still reach is neither freed nor in a deletion list older than its epoch.
THEOREM SpecIInv == Spec => []IInv
<1>1. Init => IInv
  BY InitInv
<1>2. IInv /\ [Next]_vars => IInv'
  BY NextKeeps
<1> QED
  BY <1>1, <1>2, PTL DEF Spec

\* A call that is in the tree has no pointer to a node that was given back to the allocator: Epoche.cpp frees a node
\* only when every call is younger than its label.
THEOREM NothingInUseIsFreed == Spec => []FreedUnused
<1>1. IInv => FreedUnused
  <2> SUFFICES ASSUME IInv, NEW t \in Threads, th[t].pc \notin {"idle", "enter", "exit"}
               PROVE  /\ th[t].n \notin freed /\ th[t].par \notin freed
                      /\ isInner(th[t].child) => th[t].child[2] \notin freed
    BY DEF FreedUnused
  <2>1. th[t] \in CallRec
    BY Knows
  <2>2. Busy(t)
    BY <2>1, CallIs DEF Busy
  <2>3. PICK X \in SUBSET DOMAIN node : Spared(t, X) /\ Refs(th[t], X)
    BY <2>2 DEF IInv, Reach
  <2>4. 0 \notin freed
    BY Knows DEF IInv, TypeInv
  <2> QED
    BY <2>3, <2>4 DEF Spared, Refs
<1> QED
  BY <1>1, SpecIInv, PTL

\* A node's word has its lock bit set exactly while one thread is between its lock and its unlock of the node: no
\* restart, no return and no error path of ART_DRAM/Tree.cpp leaves a lock behind or gives back a lock it has not.
THEOREM EveryLockHasOneOwner == Spec => []LocksHaveOneOwner
<1>1. IInv => LocksHaveOneOwner
  <2> SUFFICES ASSUME IInv, NEW n \in DOMAIN node
               PROVE  Cardinality({t \in Threads : n \in Held(t)}) = IF isLocked(node[n].word) THEN 1 ELSE 0
    BY DEF LocksHaveOneOwner
  <2>1. CASE isLocked(node[n].word)
    <3>1. PICK t \in Threads : n \in Held(t)
      BY <2>1 DEF IInv, LockInv
    <3>2. {u \in Threads : n \in Held(u)} = {t}
      BY <3>1 DEF IInv, LockInv
    <3> QED
      BY <2>1, <3>2, FS_Singleton
  <2>2. CASE ~isLocked(node[n].word)
    <3>1. {u \in Threads : n \in Held(u)} = {}
      BY <2>2 DEF IInv, LockInv
    <3> QED
      BY <2>2, <3>1, FS_EmptySet
  <2> QED
    BY <2>1, <2>2
<1> QED
  BY <1>1, SpecIInv, PTL
=============================================================================
