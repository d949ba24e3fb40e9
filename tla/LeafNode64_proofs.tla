------------------------- MODULE LeafNode64_proofs -------------------------
(***************************************************************************)
(* What the operations of a leaf do to the records it holds, for leaves of *)
(* any capacity.                                                           *)
(*                                                                         *)
(* The operations walk over bit sets from the lowest bit on, and sort the  *)
(* valid slots.  Both are an order on a finite set, and the facts about    *)
(* them rest on one lemma: the elements of a finite, strictly and totally  *)
(* ordered set have the ranks 0, 1, 2, ... up to its size.                 *)
(***************************************************************************)
EXTENDS Integers, LeafNode64, FiniteSetTheorems, FunctionTheorems, TLAPS

Smaller(S, R, x) == {y \in S : <<y, x>> \in R}

IsOrder(S, R) ==
    /\ \A x \in S : <<x, x>> \notin R
    /\ \A x, y, z \in S : <<x, y>> \in R /\ <<y, z>> \in R => <<x, z>> \in R
    /\ \A x, y \in S : x # y => <<x, y>> \in R \/ <<y, x>> \in R

(* A larger element has a larger rank. *)
LEMMA RankGrows ==
    ASSUME NEW S, IsFiniteSet(S), NEW R, IsOrder(S, R),
           NEW x \in S, NEW y \in S, <<x, y>> \in R
    PROVE  /\ Cardinality(Smaller(S, R, x)) \in Nat
           /\ Cardinality(Smaller(S, R, x)) < Cardinality(Smaller(S, R, y))
<1>1. IsFiniteSet(Smaller(S, R, x)) /\ IsFiniteSet(Smaller(S, R, y))
  BY FS_Subset DEF Smaller
<1>2. Smaller(S, R, x) \in SUBSET Smaller(S, R, y) /\ Smaller(S, R, x) # Smaller(S, R, y)
  BY DEF Smaller, IsOrder
<1>3. /\ Cardinality(Smaller(S, R, x)) \in Nat /\ Cardinality(Smaller(S, R, y)) \in Nat
  BY <1>1, FS_CardinalityType
<1>4. /\ Cardinality(Smaller(S, R, x)) <= Cardinality(Smaller(S, R, y))
      /\ Cardinality(Smaller(S, R, y)) # Cardinality(Smaller(S, R, x))
  BY <1>1, <1>2, FS_Subset
<1> QED
  BY <1>3, <1>4

(* Every element has a rank below the size of the set, and every such       *)
(* number is the rank of an element.                                        *)
LEMMA RankOnto ==
    ASSUME NEW S, IsFiniteSet(S), NEW R, IsOrder(S, R)
    PROVE  /\ \A x \in S : Cardinality(Smaller(S, R, x)) \in 0 .. (Cardinality(S) - 1)
           /\ \A n \in 0 .. (Cardinality(S) - 1) :
                 \E x \in S : Cardinality(Smaller(S, R, x)) = n
           /\ \A x, y \in S :
                 Cardinality(Smaller(S, R, x)) = Cardinality(Smaller(S, R, y)) => x = y
<1> DEFINE rank == [x \in S |-> Cardinality(Smaller(S, R, x))]
           T == 0 .. (Cardinality(S) - 1)
<1>1. Cardinality(S) \in Nat
  BY FS_CardinalityType
<1>2. ASSUME NEW x \in S PROVE Cardinality(Smaller(S, R, x)) \in T
  <2>1. Smaller(S, R, x) \in SUBSET S /\ Smaller(S, R, x) # S
    BY DEF Smaller, IsOrder
  <2>2. IsFiniteSet(Smaller(S, R, x)) /\ Cardinality(Smaller(S, R, x)) \in Nat
    BY <2>1, FS_Subset, FS_CardinalityType
  <2>3. Cardinality(Smaller(S, R, x)) <= Cardinality(S) /\ Cardinality(S) # Cardinality(Smaller(S, R, x))
    BY <2>1, FS_Subset
  <2> QED
    BY <1>1, <2>2, <2>3
<1>3. ASSUME NEW x \in S, NEW y \in S,
             Cardinality(Smaller(S, R, x)) = Cardinality(Smaller(S, R, y))
      PROVE  x = y
  <2> SUFFICES ASSUME x # y PROVE FALSE
    OBVIOUS
  <2>1. <<x, y>> \in R \/ <<y, x>> \in R
    BY DEF IsOrder
  <2>2. /\ Cardinality(Smaller(S, R, x)) \in Nat
    BY <1>2
  <2>3. CASE <<x, y>> \in R
    BY <1>3, <2>2, <2>3, RankGrows
  <2>4. CASE <<y, x>> \in R
    BY <1>3, <2>2, <2>4, RankGrows
  <2> QED
    BY <2>1, <2>3, <2>4
<1>4. rank \in [S -> T]
  BY <1>2
<1>5. rank \in Injection(S, T)
  <2>1. \A a, b \in S : rank[a] = rank[b] => a = b
    BY <1>3
  <2> HIDE DEF rank, T
  <2> QED
    BY <1>4, <2>1, Fun_IsInj
<1>6. IsFiniteSet(T) /\ Cardinality(T) = Cardinality(S)
  <2>1. /\ IsFiniteSet(0 .. (Cardinality(S) - 1))
        /\ Cardinality(0 .. (Cardinality(S) - 1)) =
              IF 0 > Cardinality(S) - 1 THEN 0 ELSE (Cardinality(S) - 1) - 0 + 1
    BY <1>1, FS_Interval
  <2> QED
    BY <1>1, <2>1
<1>7. rank \in Surjection(S, T)
  <2> HIDE DEF rank, T
  <2> QED
    BY <1>5, <1>6, FS_Injection
<1>8. \A n \in T : \E x \in S : rank[x] = n
  <2> HIDE DEF rank, T
  <2> QED
    BY <1>7, Fun_SurjectionProperties
<1> QED
  BY <1>2, <1>3, <1>8

-----------------------------------------------------------------------------
(* Bit sets: Lowest and Nth.                                               *)

(* The n-th element is an element, is the only one with its rank, and every *)
(* element is the n-th one for some n.                                      *)
LEMMA NthIs ==
    ASSUME NEW S \in SUBSET Nat, IsFiniteSet(S)
    PROVE  /\ Cardinality(S) \in Nat
           /\ \A n \in 1 .. Cardinality(S) :
                 Nth(S, n) \in S /\ Cardinality({j \in S : j < Nth(S, n)}) = n - 1
           /\ \A i \in S : \E n \in 1 .. Cardinality(S) :
                 i = Nth(S, n) /\ n = Cardinality({j \in S : j < i}) + 1
           /\ \A m, n \in 1 .. Cardinality(S) : Nth(S, m) = Nth(S, n) => m = n
<1> DEFINE R == {p \in Nat \X Nat : p[1] < p[2]}
<1>1. IsOrder(S, R)
  BY DEF IsOrder
<1>2. \A i \in S : Smaller(S, R, i) = {j \in S : j < i}
  BY DEF Smaller
<1>3. /\ \A i \in S : Cardinality({j \in S : j < i}) \in 0 .. (Cardinality(S) - 1)
      /\ \A n \in 0 .. (Cardinality(S) - 1) : \E i \in S : Cardinality({j \in S : j < i}) = n
      /\ \A i, k \in S : Cardinality({j \in S : j < i}) = Cardinality({j \in S : j < k}) => i = k
  <2> HIDE DEF R
  <2>1. /\ \A x \in S : Cardinality(Smaller(S, R, x)) \in 0 .. (Cardinality(S) - 1)
        /\ \A n \in 0 .. (Cardinality(S) - 1) :
              \E x \in S : Cardinality(Smaller(S, R, x)) = n
        /\ \A x, y \in S :
              Cardinality(Smaller(S, R, x)) = Cardinality(Smaller(S, R, y)) => x = y
    BY <1>1, RankOnto
  <2> QED
    BY <1>2, <2>1
<1>4. Cardinality(S) \in Nat
  BY FS_CardinalityType
<1>5. ASSUME NEW n \in 1 .. Cardinality(S)
      PROVE  Nth(S, n) \in S /\ Cardinality({j \in S : j < Nth(S, n)}) = n - 1
  <2>1. n - 1 \in 0 .. (Cardinality(S) - 1)
    BY <1>4
  <2>2. \E i \in S : Cardinality({j \in S : j < i}) = n - 1
    BY <1>3, <2>1
  <2> QED
    BY <2>2 DEF Nth
<1>6. ASSUME NEW i \in S
      PROVE  \E n \in 1 .. Cardinality(S) : i = Nth(S, n) /\ n = Cardinality({j \in S : j < i}) + 1
  <2> DEFINE n == Cardinality({j \in S : j < i}) + 1
  <2>1. Cardinality({j \in S : j < i}) \in 0 .. (Cardinality(S) - 1)
    BY <1>3
  <2>2. n \in 1 .. Cardinality(S) /\ n - 1 = Cardinality({j \in S : j < i})
    BY <1>4, <2>1
  <2>3. Nth(S, n) \in S /\ Cardinality({j \in S : j < Nth(S, n)}) = Cardinality({j \in S : j < i})
    <3> HIDE DEF n
    <3> QED
      BY <1>5, <2>2
  <2>4. Nth(S, n) = i
    <3> HIDE DEF n
    <3> QED
      BY <1>3, <2>3
  <2> QED
    BY <2>2, <2>4
<1>7. ASSUME NEW m \in 1 .. Cardinality(S), NEW n \in 1 .. Cardinality(S), Nth(S, m) = Nth(S, n)
      PROVE  m = n
  <2>1. m - 1 = n - 1
    BY <1>5, <1>7
  <2> QED
    BY <1>4, <2>1
<1> QED
  BY <1>4, <1>5, <1>6, <1>7

(* The lowest bit of a bit set that is not empty. *)
LEMMA LowestIs ==
    ASSUME NEW S \in SUBSET Nat, IsFiniteSet(S), S # {}
    PROVE  Lowest(S) \in S /\ \A j \in S : Lowest(S) <= j
<1>1. Cardinality(S) \in Nat /\ Cardinality(S) # 0
  BY FS_EmptySet, FS_CardinalityType
<1>2. 1 \in 1 .. Cardinality(S) /\ 1 - 1 = 0
  BY <1>1
<1>3. PICK i \in S : Cardinality({j \in S : j < i}) = 0
  <2>1. Nth(S, 1) \in S /\ Cardinality({j \in S : j < Nth(S, 1)}) = 1 - 1
    BY <1>2, NthIs
  <2> QED
    BY <1>2, <2>1, Zenon
<1>4. IsFiniteSet({j \in S : j < i})
  BY FS_Subset
<1>5. {j \in S : j < i} = {}
  BY <1>3, <1>4, FS_EmptySet
<1>6. \A j \in S : i <= j
  BY <1>5
<1> QED
  BY <1>6 DEF Lowest

-----------------------------------------------------------------------------
(* Leaves and the records in them.                                         *)

Slots(K, V)  == {NoRec} \cup [key : K, val : V, valid : BOOLEAN]
LeafOf(K, V) == [Slot -> Slots(K, V)]
RecOf(K, V)  == [key : K, val : V, valid : {TRUE}]

Has(leaf, k, v)    == \E i \in ValidBitSet(leaf) : leaf[i].key = k /\ leaf[i].val = v
InRecs(recs, k, v) == \E n \in 1 .. Len(recs) : recs[n].key = k /\ recs[n].val = v
KeysIn(recs)       == {recs[n].key : n \in 1 .. Len(recs)}

(* No key occurs twice. *)
Distinct(leaf)     == \A i, j \in ValidBitSet(leaf) : leaf[i].key = leaf[j].key => i = j
DistinctRecs(recs) == \A m, n \in 1 .. Len(recs) : recs[m].key = recs[n].key => m = n

(* The slots are a finite set of numbers. *)
LEMMA SlotsFinite ==
    /\ Slot \subseteq Nat /\ IsFiniteSet(Slot) /\ Cardinality(Slot) = LeafCapacity
    /\ \A S \in SUBSET Slot : IsFiniteSet(S) /\ S \subseteq Nat /\ Cardinality(S) \in Nat
<1>1. /\ IsFiniteSet(1 .. LeafCapacity)
      /\ Cardinality(1 .. LeafCapacity) = IF 1 > LeafCapacity THEN 0 ELSE LeafCapacity - 1 + 1
  BY LeafCapacityAssumption, FS_Interval
<1>2. Slot \subseteq Nat /\ IsFiniteSet(Slot) /\ Cardinality(Slot) = LeafCapacity
  BY <1>1, LeafCapacityAssumption DEF Slot
<1>3. ASSUME NEW S \in SUBSET Slot PROVE IsFiniteSet(S) /\ S \subseteq Nat /\ Cardinality(S) \in Nat
  BY <1>2, FS_Subset, FS_CardinalityType
<1> QED
  BY <1>2, <1>3

(* The two bit sets of a leaf. *)
LEMMA LeafSets ==
    ASSUME NEW K, NEW V, NEW leaf \in LeafOf(K, V)
    PROVE  /\ ValidBitSet(leaf) \subseteq Slot /\ EmptyBitSet(leaf) \subseteq Slot
           /\ Count(leaf) \in Nat
           /\ Count(leaf) + Cardinality(EmptyBitSet(leaf)) = LeafCapacity
           /\ \A i \in ValidBitSet(leaf) : leaf[i] \in RecOf(K, V)
           /\ \A i \in Slot : leaf[i].valid \in BOOLEAN /\ (i \in ValidBitSet(leaf) <=> leaf[i].valid)
           /\ \A i \in Slot : i \in EmptyBitSet(leaf) <=> ~leaf[i].valid
<1>1. ASSUME NEW i \in Slot
      PROVE  leaf[i].valid \in BOOLEAN /\ (leaf[i].valid => leaf[i] \in RecOf(K, V))
  <2>1. CASE leaf[i] = NoRec
    <3>1. leaf[i].valid = FALSE
      BY <2>1 DEF NoRec
    <3> QED
      BY <3>1, Zenon
  <2>2. CASE leaf[i] \in [key : K, val : V, valid : BOOLEAN]
    <3>1. leaf[i].valid \in BOOLEAN
      BY <2>2
    <3>2. leaf[i].valid = TRUE => leaf[i] \in RecOf(K, V)
      BY <2>2 DEF RecOf
    <3> QED
      BY <3>1, <3>2
  <2> QED
    BY <2>1, <2>2 DEF LeafOf, Slots
<1>2. ValidBitSet(leaf) \subseteq Slot /\ EmptyBitSet(leaf) \subseteq Slot
  BY DEF ValidBitSet, EmptyBitSet
<1>3. Cardinality(EmptyBitSet(leaf)) = Cardinality(Slot) - Cardinality(Slot \cap ValidBitSet(leaf))
  BY SlotsFinite, FS_Difference DEF EmptyBitSet
<1>4. Slot \cap ValidBitSet(leaf) = ValidBitSet(leaf)
  BY <1>2
<1>5. Count(leaf) \in Nat /\ Cardinality(EmptyBitSet(leaf)) \in Nat
  BY <1>2, SlotsFinite DEF Count
<1>6. Count(leaf) + Cardinality(EmptyBitSet(leaf)) = LeafCapacity
  BY <1>3, <1>4, <1>5, SlotsFinite, LeafCapacityAssumption DEF Count
<1> QED
  BY <1>1, <1>2, <1>5, <1>6 DEF ValidBitSet, EmptyBitSet

(* A record that is put into a slot. *)
LEMMA RecIs ==
    ASSUME NEW K, NEW V, NEW key \in K, NEW val \in V
    PROVE  /\ Rec(key, val) \in RecOf(K, V) /\ RecOf(K, V) \subseteq Slots(K, V)
           /\ Rec(key, val).key = key /\ Rec(key, val).val = val /\ Rec(key, val).valid = TRUE
BY DEF Rec, RecOf, Slots

(* Lookup returns the value of the record with the key. *)
LEMMA LookupIs ==
    ASSUME NEW K, NEW V, NEW leaf \in LeafOf(K, V), Distinct(leaf), NEW k
    PROVE  /\ \A v : Has(leaf, k, v) => LeafLookup(leaf, k) = v
           /\ k \in KeysOf(leaf) => Has(leaf, k, LeafLookup(leaf, k)) /\ LeafLookup(leaf, k) \in V
           /\ k \notin KeysOf(leaf) => LeafLookup(leaf, k) = NoVal
           /\ Match(leaf, k) = {} <=> k \notin KeysOf(leaf)
           /\ \A v : Has(leaf, k, v) => k \in KeysOf(leaf) /\ k \in K /\ v \in V
<1>1. Match(leaf, k) = {} <=> k \notin KeysOf(leaf)
  BY DEF Match, KeysOf
<1>2. Match(leaf, k) \subseteq ValidBitSet(leaf) /\ ValidBitSet(leaf) \subseteq Slot
  BY LeafSets DEF Match
<1>3. ASSUME k \in KeysOf(leaf)
      PROVE  LET i == Lowest(Match(leaf, k))
             IN  i \in ValidBitSet(leaf) /\ leaf[i].key = k /\ LeafLookup(leaf, k) = leaf[i].val
  <2>1. Lowest(Match(leaf, k)) \in Match(leaf, k)
    BY <1>1, <1>2, <1>3, SlotsFinite, LowestIs
  <2> QED
    BY <1>1, <1>3, <2>1 DEF Match, LeafLookup
<1>4. \A i \in ValidBitSet(leaf) : leaf[i].key \in K /\ leaf[i].val \in V
  BY LeafSets DEF RecOf
<1>5. \A v : Has(leaf, k, v) => k \in KeysOf(leaf) /\ k \in K /\ v \in V
  BY <1>4 DEF Has, KeysOf
<1>6. \A v : Has(leaf, k, v) => LeafLookup(leaf, k) = v
  BY <1>3, <1>5 DEF Has, Distinct
<1>7. k \in KeysOf(leaf) => Has(leaf, k, LeafLookup(leaf, k)) /\ LeafLookup(leaf, k) \in V
  BY <1>3, <1>4 DEF Has
<1>8. k \notin KeysOf(leaf) => LeafLookup(leaf, k) = NoVal
  BY <1>1 DEF LeafLookup
<1> QED
  BY <1>1, <1>5, <1>6, <1>7, <1>8

(* It returns a value or nothing even from a leaf with a key in two slots. *)
LEMMA LookupType ==
    ASSUME NEW K, NEW V, NEW leaf \in LeafOf(K, V), NEW k
    PROVE  LeafLookup(leaf, k) \in V \cup {NoVal}
<1>1. Match(leaf, k) \subseteq ValidBitSet(leaf) /\ ValidBitSet(leaf) \subseteq Slot
  BY LeafSets DEF Match
<1>2. Match(leaf, k) # {} => Lowest(Match(leaf, k)) \in ValidBitSet(leaf)
  BY <1>1, SlotsFinite, LowestIs
<1>3. \A i \in ValidBitSet(leaf) : leaf[i].val \in V
  BY LeafSets DEF RecOf
<1> QED
  BY <1>2, <1>3 DEF LeafLookup

(* Insert puts the record in place of the old one, or into an empty slot. *)
LEMMA LeafInsertIs ==
    ASSUME NEW K, NEW V, NEW leaf \in LeafOf(K, V), Distinct(leaf), NEW key \in K, NEW val \in V,
           LeafCanInsert(leaf, key)
    PROVE  LET new == LeafInsert(leaf, key, val)
           IN  /\ new \in LeafOf(K, V) /\ Distinct(new)
               /\ KeysOf(new) = KeysOf(leaf) \cup {key}
               /\ \A k, v : Has(new, k, v) <=> IF k = key THEN v = val ELSE Has(leaf, k, v)
<1> DEFINE new == LeafInsert(leaf, key, val)
<1>1. CASE Match(leaf, key) # {}
  <2> DEFINE i == Lowest(Match(leaf, key))
  <2>1. i \in Match(leaf, key)
    BY <1>1, SlotsFinite, LeafSets, LowestIs DEF Match
  <2>2. i \in Slot /\ i \in ValidBitSet(leaf) /\ leaf[i].key = key /\ leaf[i] \in RecOf(K, V)
    BY <2>1, LeafSets DEF Match
  <2>3. new = [leaf EXCEPT ![i].val = val]
    BY <1>1 DEF LeafInsert
  <2> HIDE DEF i
  <2>4. [leaf[i] EXCEPT !.val = val] = Rec(key, val)
    <3>1. \A r \in RecOf(K, V) : [r EXCEPT !.val = val] = [key |-> r.key, val |-> val, valid |-> r.valid]
      BY DEF RecOf
    <3>2. leaf[i].valid = TRUE
      BY <2>2 DEF RecOf
    <3>3. [leaf[i] EXCEPT !.val = val] = [key |-> leaf[i].key, val |-> val, valid |-> leaf[i].valid]
      BY <2>2, <3>1
    <3> QED
      BY <2>2, <3>2, <3>3, Zenon DEF Rec
  <2>5. \A j \in Slot : new[j] = IF j = i THEN Rec(key, val) ELSE leaf[j]
    BY <2>2, <2>3, <2>4 DEF LeafOf
  <2>6. new \in LeafOf(K, V)
    <3>1. new = [leaf EXCEPT ![i] = Rec(key, val)]
      BY <2>3, <2>4
    <3> QED
      BY <2>2, <3>1, RecIs DEF LeafOf
  <2>7. ValidBitSet(new) = ValidBitSet(leaf) /\ \A j \in ValidBitSet(leaf) : new[j].key = leaf[j].key
    BY <2>2, <2>5, LeafSets DEF ValidBitSet, Rec
  <2>8. KeysOf(new) = KeysOf(leaf) \cup {key} /\ Distinct(new)
    BY <2>2, <2>7 DEF KeysOf, Distinct
  <2>9. \A k, v : Has(new, k, v) <=> IF k = key THEN v = val ELSE Has(leaf, k, v)
    BY <2>2, <2>5, <2>7, LeafSets DEF Has, Distinct, Rec
  <2> QED
    BY <2>6, <2>8, <2>9
<1>2. CASE Match(leaf, key) = {}
  <2> DEFINE i == Lowest(EmptyBitSet(leaf))
  <2>1. i \in EmptyBitSet(leaf)
    BY <1>2, SlotsFinite, LeafSets, LowestIs DEF LeafCanInsert
  <2>2. i \in Slot /\ i \notin ValidBitSet(leaf)
    BY <2>1 DEF EmptyBitSet
  <2>3. new = [leaf EXCEPT ![i] = Rec(key, val)]
    BY <1>2 DEF LeafInsert
  <2> HIDE DEF i
  <2>4. \A j \in Slot : new[j] = IF j = i THEN Rec(key, val) ELSE leaf[j]
    BY <2>2, <2>3 DEF LeafOf
  <2>5. new \in LeafOf(K, V)
    BY <2>2, <2>3 DEF LeafOf, Slots, Rec
  <2>6. ValidBitSet(new) = ValidBitSet(leaf) \cup {i} /\ \A j \in ValidBitSet(leaf) : new[j] = leaf[j]
    BY <2>2, <2>4, LeafSets DEF ValidBitSet, Rec
  <2>7. new[i].key = key /\ new[i].val = val
    BY <2>2, <2>4 DEF Rec
  <2>8. \A j \in ValidBitSet(leaf) : leaf[j].key # key
    BY <1>2 DEF Match
  <2>9. KeysOf(new) = KeysOf(leaf) \cup {key} /\ Distinct(new)
    BY <2>6, <2>7, <2>8 DEF KeysOf, Distinct
  <2>10. \A k, v : Has(new, k, v) <=> IF k = key THEN v = val ELSE Has(leaf, k, v)
    BY <2>6, <2>7, <2>8 DEF Has
  <2> QED
    BY <2>5, <2>9, <2>10
<1> QED
  BY <1>1, <1>2

(* Remove takes the record with the key out. *)
LEMMA LeafRemoveIs ==
    ASSUME NEW K, NEW V, NEW leaf \in LeafOf(K, V), Distinct(leaf), NEW key
    PROVE  LET new == LeafRemove(leaf, key)
           IN  /\ new \in LeafOf(K, V) /\ Distinct(new)
               /\ KeysOf(new) = KeysOf(leaf) \ {key}
               /\ \A k, v : Has(new, k, v) <=> k # key /\ Has(leaf, k, v)
<1> DEFINE new == LeafRemove(leaf, key)
<1>1. CASE Match(leaf, key) # {}
  <2> DEFINE i == Lowest(Match(leaf, key))
  <2>1. i \in Match(leaf, key)
    BY <1>1, SlotsFinite, LeafSets, LowestIs DEF Match
  <2>2. i \in Slot /\ i \in ValidBitSet(leaf) /\ leaf[i].key = key /\ leaf[i] \in RecOf(K, V)
    BY <2>1, LeafSets DEF Match
  <2>3. new = [leaf EXCEPT ![i].valid = FALSE]
    BY <1>1 DEF LeafRemove
  <2> HIDE DEF i
  <2>4. [leaf[i] EXCEPT !.valid = FALSE] \in Slots(K, V) /\ [leaf[i] EXCEPT !.valid = FALSE].valid = FALSE
    BY <2>2 DEF RecOf, Slots
  <2>5. \A j \in Slot : new[j] = IF j = i THEN [leaf[i] EXCEPT !.valid = FALSE] ELSE leaf[j]
    BY <2>2, <2>3 DEF LeafOf
  <2>6. new \in LeafOf(K, V)
    BY <2>2, <2>3, <2>4 DEF LeafOf
  <2>7. ValidBitSet(new) = ValidBitSet(leaf) \ {i} /\ \A j \in ValidBitSet(new) : new[j] = leaf[j]
    BY <2>2, <2>4, <2>5, LeafSets DEF ValidBitSet
  <2>8. \A j \in ValidBitSet(new) : leaf[j].key # key
    BY <2>2, <2>7 DEF Distinct
  <2> QED
    BY <2>2, <2>6, <2>7, <2>8 DEF KeysOf, Distinct, Has
<1>2. CASE Match(leaf, key) = {}
  <2>1. new = leaf
    BY <1>2 DEF LeafRemove
  <2> QED
    BY <1>2, <2>1 DEF Match, KeysOf, Has
<1> QED
  BY <1>1, <1>2

-----------------------------------------------------------------------------
(* Batches of records.                                                     *)

(* Pick keeps the records at the chosen positions, each once. *)
LEMMA PickIs ==
    ASSUME NEW T, NEW recs \in Seq(T), NEW I \in SUBSET (1 .. Len(recs))
    PROVE  /\ Pick(recs, I) \in Seq(T)
           /\ Len(Pick(recs, I)) = Cardinality(I) /\ Cardinality(I) <= Len(recs)
           /\ \A n \in 1 .. Cardinality(I) : \E i \in I : Pick(recs, I)[n] = recs[i]
           /\ \A i \in I : \E n \in 1 .. Cardinality(I) : Pick(recs, I)[n] = recs[i]
           /\ DistinctRecs(recs) => DistinctRecs(Pick(recs, I))
<1> DEFINE P == Pick(recs, I)
           N == Len(recs)
<1>0. N \in Nat /\ I \in SUBSET (1 .. N) /\ \A i \in 1 .. N : recs[i] \in T
  OBVIOUS
<1> HIDE DEF N
<1>1. IsFiniteSet(1 .. N) /\ Cardinality(1 .. N) = IF 1 > N THEN 0 ELSE N - 1 + 1
  BY <1>0, FS_Interval
<1>2. I \in SUBSET Nat /\ IsFiniteSet(I) /\ Cardinality(I) <= N
  <2>1. I \in SUBSET Nat
    BY <1>0
  <2>2. IsFiniteSet(I) /\ Cardinality(I) <= Cardinality(1 .. N)
    BY <1>0, <1>1, FS_Subset
  <2>3. Cardinality(1 .. N) = N
    BY <1>0, <1>1
  <2> QED
    BY <2>1, <2>2, <2>3
<1>3. /\ Cardinality(I) \in Nat
      /\ \A n \in 1 .. Cardinality(I) : Nth(I, n) \in I
      /\ \A i \in I : \E n \in 1 .. Cardinality(I) : i = Nth(I, n)
      /\ \A m, n \in 1 .. Cardinality(I) : Nth(I, m) = Nth(I, n) => m = n
  <2>1. Cardinality(I) \in Nat /\ \A n \in 1 .. Cardinality(I) : Nth(I, n) \in I
    BY <1>2, NthIs
  <2>2. \A i \in I : \E n \in 1 .. Cardinality(I) :
           i = Nth(I, n) /\ n = Cardinality({j \in I : j < i}) + 1
    BY <1>2, NthIs
  <2>3. \A m, n \in 1 .. Cardinality(I) : Nth(I, m) = Nth(I, n) => m = n
    BY <1>2, NthIs
  <2> QED
    BY <2>1, <2>2, <2>3
<1>4. \A n \in 1 .. Cardinality(I) : P[n] = recs[Nth(I, n)]
  BY DEF Pick
<1>5. P \in [1 .. Cardinality(I) -> T]
  BY <1>0, <1>3 DEF Pick
<1>6. P \in Seq(T) /\ Len(P) = Cardinality(I)
  <2> HIDE DEF P
  <2> QED
    BY <1>3, <1>5
<1>7. ASSUME DistinctRecs(recs) PROVE DistinctRecs(P)
  <2>1. \A m, n \in 1 .. N : recs[m].key = recs[n].key => m = n
    BY <1>7 DEF DistinctRecs, N
  <2>2. \A m, n \in 1 .. Cardinality(I) : P[m].key = P[n].key => m = n
    <3> HIDE DEF P
    <3> QED
      BY <1>0, <1>3, <1>4, <2>1
  <2> QED
    BY <1>6, <2>2 DEF DistinctRecs
<1> QED
  BY <1>2, <1>3, <1>4, <1>6, <1>7 DEF N

(* So the records of Pick are those at the chosen positions. *)
LEMMA PickRecords ==
    ASSUME NEW T, NEW recs \in Seq(T), NEW I \in SUBSET (1 .. Len(recs))
    PROVE  /\ \A k : k \in KeysIn(Pick(recs, I)) <=> \E i \in I : recs[i].key = k
           /\ \A k, v : InRecs(Pick(recs, I), k, v) <=> \E i \in I : recs[i].key = k /\ recs[i].val = v
<1> DEFINE P == Pick(recs, I)
           C == 1 .. Cardinality(I)
<1>1. /\ Len(P) = Cardinality(I)
      /\ \A n \in C : \E i \in I : P[n] = recs[i]
      /\ \A i \in I : \E n \in C : P[n] = recs[i]
  BY PickIs
<1>2. /\ \A k : k \in KeysIn(P) <=> \E n \in C : P[n].key = k
      /\ \A k, v : InRecs(P, k, v) <=> \E n \in C : P[n].key = k /\ P[n].val = v
  BY <1>1 DEF KeysIn, InRecs
<1> HIDE DEF P, C
<1>3. ASSUME NEW k PROVE k \in KeysIn(P) <=> \E i \in I : recs[i].key = k
  BY <1>1, <1>2
<1>4. ASSUME NEW k, NEW v
      PROVE  InRecs(P, k, v) <=> \E i \in I : recs[i].key = k /\ recs[i].val = v
  BY <1>1, <1>2
<1> QED
  BY <1>3, <1>4, Zenon DEF P

(* FillEmptySlots keeps the valid slots, and puts the n-th record into the  *)
(* n-th empty slot.                                                         *)
LEMMA FillSlots ==
    ASSUME NEW K, NEW V, NEW leaf \in LeafOf(K, V), NEW recs \in Seq(RecOf(K, V))
    PROVE  LET new == FillEmptySlots(leaf, recs)
               E   == EmptyBitSet(leaf)
           IN  /\ new \in LeafOf(K, V)
               /\ ValidBitSet(leaf) \subseteq ValidBitSet(new)
               /\ \A i \in ValidBitSet(leaf) : new[i] = leaf[i]
               /\ \A i \in ValidBitSet(new) \ ValidBitSet(leaf) :
                     \E n \in 1 .. Len(recs) : /\ n <= Cardinality(E) /\ i = Nth(E, n)
                                               /\ new[i] = recs[n]
               /\ \A n \in 1 .. Len(recs) : n <= Cardinality(E) =>
                     Nth(E, n) \in ValidBitSet(new) \ ValidBitSet(leaf) /\ new[Nth(E, n)] = recs[n]
<1> DEFINE new == FillEmptySlots(leaf, recs)
           E   == EmptyBitSet(leaf)
           rank(i) == Cardinality({j \in E : j <= i})
<1>1. /\ E \in SUBSET Nat /\ IsFiniteSet(E) /\ E \subseteq Slot /\ Cardinality(E) \in Nat
      /\ Slot \subseteq Nat
  BY SlotsFinite, LeafSets
<1>2. \A i \in Slot : new[i] = IF ~leaf[i].valid /\ rank(i) <= Len(recs) THEN recs[rank(i)] ELSE leaf[i]
  BY DEF FillEmptySlots
<1>3. ASSUME NEW i \in E
      PROVE  rank(i) \in 1 .. Cardinality(E) /\ i = Nth(E, rank(i))
  <2>1. {j \in E : j <= i} = {j \in E : j < i} \cup {i} /\ i \notin {j \in E : j < i}
    BY <1>1
  <2>2. IsFiniteSet({j \in E : j < i})
    BY <1>1, FS_Subset
  <2>3. Cardinality({j \in E : j < i} \cup {i}) = Cardinality({j \in E : j < i}) + 1
    BY <2>1, <2>2, FS_AddElement
  <2>4. rank(i) = Cardinality({j \in E : j < i}) + 1
    BY <2>1, <2>3
  <2> HIDE DEF rank
  <2>5. PICK n \in 1 .. Cardinality(E) : i = Nth(E, n) /\ n = Cardinality({j \in E : j < i}) + 1
    <3> HIDE DEF E
    <3> QED
      BY <1>1, NthIs
  <2> QED
    BY <2>4, <2>5
<1> HIDE DEF rank, new
<1>4. \A i \in ValidBitSet(leaf) : new[i] = leaf[i]
  BY <1>2 DEF ValidBitSet
<1>5. \A i \in E : new[i] = IF rank(i) <= Len(recs) THEN recs[rank(i)] ELSE leaf[i]
  BY <1>1, <1>2, LeafSets
<1>6. \A i \in Slot : i \in ValidBitSet(leaf) \/ i \in E
  BY DEF EmptyBitSet
<1>7. \A n \in 1 .. Len(recs) : recs[n] \in RecOf(K, V) /\ recs[n] \in Slots(K, V)
  <2>1. \A n \in 1 .. Len(recs) : recs[n] \in RecOf(K, V)
    OBVIOUS
  <2>2. RecOf(K, V) \subseteq Slots(K, V)
    BY DEF RecOf, Slots
  <2> QED
    BY <2>1, <2>2
<1>8. \A i \in Slot : new[i] \in Slots(K, V)
  <2>1. \A i \in Slot : leaf[i] \in Slots(K, V)
    BY DEF LeafOf
  <2> QED
    BY <1>3, <1>4, <1>5, <1>6, <1>7, <2>1
<1>9. new \in LeafOf(K, V)
  BY <1>8 DEF new, FillEmptySlots, LeafOf
<1>10. ValidBitSet(leaf) \subseteq ValidBitSet(new)
  BY <1>4 DEF ValidBitSet
<1>11. \A n \in 1 .. Len(recs) : recs[n].valid = TRUE
  BY <1>7 DEF RecOf
<1>12. ASSUME NEW n \in 1 .. Len(recs), n <= Cardinality(E)
       PROVE  Nth(E, n) \in ValidBitSet(new) \ ValidBitSet(leaf) /\ new[Nth(E, n)] = recs[n]
  <2>1. n \in 1 .. Cardinality(E)
    BY <1>1, <1>12
  <2>2. Nth(E, n) \in E
    <3> HIDE DEF E
    <3> QED
      BY <1>1, <2>1, NthIs
  <2>3. rank(Nth(E, n)) = n
    <3>1. rank(Nth(E, n)) \in 1 .. Cardinality(E) /\ Nth(E, n) = Nth(E, rank(Nth(E, n)))
      BY <1>3, <2>2
    <3> HIDE DEF E
    <3> QED
      BY <1>1, <2>1, <3>1, NthIs
  <2>4. new[Nth(E, n)] = recs[n]
    BY <1>5, <1>12, <2>2, <2>3
  <2>5. new[Nth(E, n)].valid = TRUE
    BY <1>11, <2>4
  <2> QED
    BY <1>1, <2>2, <2>4, <2>5 DEF ValidBitSet, EmptyBitSet
<1>13. ASSUME NEW i \in ValidBitSet(new) \ ValidBitSet(leaf)
       PROVE  \E n \in 1 .. Len(recs) : /\ n <= Cardinality(E) /\ i = Nth(E, n)
                                        /\ new[i] = recs[n]
  <2>1. i \in E
    BY <1>6 DEF ValidBitSet
  <2>2. rank(i) <= Len(recs)
    <3> SUFFICES ASSUME ~(rank(i) <= Len(recs)) PROVE FALSE
      OBVIOUS
    <3>1. new[i] = leaf[i]
      BY <1>5, <2>1
    <3> QED
      BY <3>1 DEF ValidBitSet
  <2>3. rank(i) \in 1 .. Len(recs) /\ rank(i) <= Cardinality(E)
    BY <1>1, <1>3, <2>1, <2>2
  <2> QED
    BY <1>3, <1>5, <2>1, <2>2, <2>3
<1> QED
  BY <1>4, <1>9, <1>10, <1>12, <1>13 DEF new

(* What FillEmptySlots does to the records of the leaf: when the empty slots *)
(* suffice, all the new ones are added.                                      *)
LEMMA FillIs ==
    ASSUME NEW K, NEW V, NEW leaf \in LeafOf(K, V), NEW recs \in Seq(RecOf(K, V))
    PROVE  LET new == FillEmptySlots(leaf, recs)
           IN  /\ new \in LeafOf(K, V)
               /\ KeysOf(new) \subseteq KeysOf(leaf) \cup KeysIn(recs)
               /\ Distinct(leaf) /\ DistinctRecs(recs) /\ KeysOf(leaf) \cap KeysIn(recs) = {} =>
                     Distinct(new)
               /\ Len(recs) <= Cardinality(EmptyBitSet(leaf)) =>
                     /\ KeysOf(new) = KeysOf(leaf) \cup KeysIn(recs)
                     /\ \A k, v : Has(new, k, v) <=> Has(leaf, k, v) \/ InRecs(recs, k, v)
<1> DEFINE new == FillEmptySlots(leaf, recs)
           E   == EmptyBitSet(leaf)
           old == ValidBitSet(leaf)
<1>1. /\ new \in LeafOf(K, V)
      /\ old \subseteq ValidBitSet(new)
      /\ \A i \in old : new[i] = leaf[i]
      /\ \A i \in ValidBitSet(new) \ old :
            \E n \in 1 .. Len(recs) : n <= Cardinality(E) /\ i = Nth(E, n) /\ new[i] = recs[n]
      /\ \A n \in 1 .. Len(recs) : n <= Cardinality(E) =>
            Nth(E, n) \in ValidBitSet(new) \ old /\ new[Nth(E, n)] = recs[n]
  BY FillSlots
<1> HIDE DEF new, E
<1>2. KeysOf(new) \subseteq KeysOf(leaf) \cup KeysIn(recs)
  BY <1>1 DEF KeysOf, KeysIn
<1>3. ASSUME Distinct(leaf), DistinctRecs(recs), KeysOf(leaf) \cap KeysIn(recs) = {}
      PROVE  Distinct(new)
  <2> SUFFICES ASSUME NEW i \in ValidBitSet(new), NEW j \in ValidBitSet(new), new[i].key = new[j].key
               PROVE  i = j
    BY DEF Distinct
  <2>1. CASE i \in old /\ j \in old
    BY <1>1, <1>3, <2>1 DEF Distinct
  <2>2. CASE i \in old /\ j \notin old
    BY <1>1, <1>3, <2>2 DEF KeysOf, KeysIn
  <2>3. CASE i \notin old /\ j \in old
    BY <1>1, <1>3, <2>3 DEF KeysOf, KeysIn
  <2>4. CASE i \notin old /\ j \notin old
    BY <1>1, <1>3, <2>4 DEF DistinctRecs
  <2> QED
    BY <2>1, <2>2, <2>3, <2>4
<1>4. ASSUME Len(recs) <= Cardinality(E)
      PROVE  /\ KeysOf(new) = KeysOf(leaf) \cup KeysIn(recs)
             /\ \A k, v : Has(new, k, v) <=> Has(leaf, k, v) \/ InRecs(recs, k, v)
  <2>1. Cardinality(E) \in Nat /\ Len(recs) \in Nat
    BY LeafSets, SlotsFinite DEF E
  <2>2. \A n \in 1 .. Len(recs) : Nth(E, n) \in ValidBitSet(new) \ old /\ new[Nth(E, n)] = recs[n]
    BY <1>1, <1>4, <2>1
  <2>3. KeysOf(leaf) \cup KeysIn(recs) \subseteq KeysOf(new)
    BY <1>1, <2>2 DEF KeysOf, KeysIn
  <2>4. ASSUME NEW k, NEW v PROVE Has(new, k, v) <=> Has(leaf, k, v) \/ InRecs(recs, k, v)
    <3>1. Has(new, k, v) => Has(leaf, k, v) \/ InRecs(recs, k, v)
      BY <1>1 DEF Has, InRecs
    <3>2. Has(leaf, k, v) \/ InRecs(recs, k, v) => Has(new, k, v)
      BY <1>1, <2>2 DEF Has, InRecs
    <3> QED
      BY <3>1, <3>2
  <2> QED
    BY <1>2, <2>3, <2>4
<1> QED
  BY <1>1, <1>2, <1>3, <1>4 DEF new, E

(* OverwriteSlots replaces the records whose keys are in the batch. *)
LEMMA OverwriteIs ==
    ASSUME NEW K, NEW V, NEW leaf \in LeafOf(K, V), NEW recs \in Seq(RecOf(K, V)),
           Distinct(leaf), DistinctRecs(recs)
    PROVE  LET new == OverwriteSlots(leaf, recs)
           IN  /\ new \in LeafOf(K, V) /\ Distinct(new)
               /\ ValidBitSet(new) = ValidBitSet(leaf)
               /\ KeysOf(new) = KeysOf(leaf)
               /\ \A k, v : Has(new, k, v) <=>
                     /\ k \in KeysOf(leaf)
                     /\ InRecs(recs, k, v) \/ (k \notin KeysIn(recs) /\ Has(leaf, k, v))
<1> DEFINE new == OverwriteSlots(leaf, recs)
           N == Len(recs)
           hits(i) == {n \in 1 .. N : /\ i \in Match(leaf, recs[n].key)
                                      /\ i = Lowest(Match(leaf, recs[n].key))}
           old == ValidBitSet(leaf)
<1>0. N \in Nat /\ (\A n \in 1 .. N : recs[n] \in RecOf(K, V)) /\ IsFiniteSet(1 .. N)
  BY FS_Interval
<1>1. \A i \in Slot : new[i] = IF hits(i) = {} THEN leaf[i] ELSE recs[Lowest(hits(i))]
  BY DEF OverwriteSlots
<1>2. \A i \in Slot : hits(i) # {} => Lowest(hits(i)) \in hits(i)
  <2> SUFFICES ASSUME NEW i \in Slot, hits(i) # {} PROVE Lowest(hits(i)) \in hits(i)
    OBVIOUS
  <2>1. hits(i) \subseteq 1 .. N
    OBVIOUS
  <2> HIDE DEF hits, N
  <2>2. hits(i) \in SUBSET Nat /\ IsFiniteSet(hits(i))
    BY <1>0, <2>1, FS_Subset
  <2> QED
    BY <2>2, LowestIs
<1>3. ASSUME NEW i \in Slot, NEW n \in hits(i)
      PROVE  i \in old /\ n \in 1 .. N /\ recs[n].key = leaf[i].key
  BY DEF Match
<1>4. ASSUME NEW i \in old, NEW n \in 1 .. N, recs[n].key = leaf[i].key
      PROVE  n \in hits(i)
  <2>1. i \in Match(leaf, recs[n].key) /\ \A j \in Match(leaf, recs[n].key) : j = i
    BY <1>4 DEF Match, Distinct
  <2>2. Match(leaf, recs[n].key) \subseteq Slot
    BY LeafSets DEF Match
  <2>3. Lowest(Match(leaf, recs[n].key)) \in Match(leaf, recs[n].key)
    BY <2>1, <2>2, SlotsFinite, LowestIs
  <2> QED
    BY <2>1, <2>3
<1> HIDE DEF hits, new, N
<1>5. old \subseteq Slot
  BY LeafSets
<1>6. ASSUME NEW i \in Slot
      PROVE  \/ new[i] = leaf[i] /\ \A n \in 1 .. N : i \in old => recs[n].key # leaf[i].key
             \/ i \in old /\ \E n \in 1 .. N : new[i] = recs[n] /\ recs[n].key = leaf[i].key
  BY <1>1, <1>2, <1>3, <1>4
<1>7. RecOf(K, V) \subseteq Slots(K, V) /\ \A r \in RecOf(K, V) : r.valid = TRUE
  BY DEF RecOf, Slots
<1>8. new \in LeafOf(K, V)
  <2>1. \A i \in Slot : new[i] \in Slots(K, V)
    BY <1>0, <1>6, <1>7 DEF LeafOf
  <2> QED
    BY <2>1 DEF new, OverwriteSlots, LeafOf
<1>9. ValidBitSet(new) = old
  <2>1. \A i \in old : new[i].valid
    BY <1>0, <1>5, <1>6, <1>7 DEF ValidBitSet
  <2>2. \A i \in Slot : i \notin old => new[i] = leaf[i]
    BY <1>6
  <2> QED
    BY <1>5, <2>1, <2>2 DEF ValidBitSet
<1>10. \A i \in old : new[i].key = leaf[i].key
  BY <1>5, <1>6
<1>11. KeysOf(new) = KeysOf(leaf) /\ Distinct(new)
  BY <1>9, <1>10 DEF KeysOf, Distinct
<1>12. ASSUME NEW k, NEW v
       PROVE  Has(new, k, v) <=>
                 /\ k \in KeysOf(leaf)
                 /\ InRecs(recs, k, v) \/ (k \notin KeysIn(recs) /\ Has(leaf, k, v))
  <2>1. ASSUME Has(new, k, v)
        PROVE  /\ k \in KeysOf(leaf)
               /\ InRecs(recs, k, v) \/ (k \notin KeysIn(recs) /\ Has(leaf, k, v))
    <3>1. PICK i \in old : new[i].key = k /\ new[i].val = v
      BY <1>9, <2>1 DEF Has
    <3> QED
      BY <1>5, <1>6, <1>10, <3>1 DEF Has, KeysOf, KeysIn, InRecs, N
  <2>2. ASSUME k \in KeysOf(leaf), InRecs(recs, k, v)
        PROVE  Has(new, k, v)
    <3>1. PICK i \in old : leaf[i].key = k
      BY <2>2 DEF KeysOf
    <3>2. PICK n \in 1 .. N : recs[n].key = k /\ recs[n].val = v
      BY <2>2 DEF InRecs, N
    <3>3. PICK m \in 1 .. N : new[i] = recs[m] /\ recs[m].key = leaf[i].key
      BY <1>5, <1>6, <3>1, <3>2
    <3>4. m = n
      BY <3>1, <3>2, <3>3 DEF DistinctRecs, N
    <3> QED
      BY <1>9, <3>1, <3>2, <3>3, <3>4 DEF Has
  <2>3. ASSUME k \in KeysOf(leaf), k \notin KeysIn(recs), Has(leaf, k, v)
        PROVE  Has(new, k, v)
    <3>1. PICK i \in old : leaf[i].key = k /\ leaf[i].val = v
      BY <2>3 DEF Has
    <3>2. \A n \in 1 .. N : recs[n].key # k
      BY <2>3 DEF KeysIn, N
    <3>3. new[i] = leaf[i]
      BY <1>5, <1>6, <3>1, <3>2
    <3> QED
      BY <1>9, <3>1, <3>3 DEF Has
  <2> QED
    BY <2>1, <2>2, <2>3
<1> QED
  BY <1>8, <1>9, <1>11, <1>12 DEF new

(* A batch that fits: its records replace those with the same keys, and the *)
(* others stay.                                                             *)
LEMMA InsertBatchIs ==
    ASSUME NEW K, NEW V, NEW leaf \in LeafOf(K, V), NEW recs \in Seq(RecOf(K, V)),
           Distinct(leaf), DistinctRecs(recs), Count(leaf) + Len(recs) <= LeafCapacity
    PROVE  LET new == InsertBatch(leaf, recs)
           IN  /\ new \in LeafOf(K, V) /\ Distinct(new)
               /\ KeysOf(new) = KeysOf(leaf) \cup KeysIn(recs)
               /\ \A k, v : Has(new, k, v) <=>
                     InRecs(recs, k, v) \/ (k \notin KeysIn(recs) /\ Has(leaf, k, v))
<1> DEFINE mid  == OverwriteSlots(leaf, recs)
           I    == {n \in 1 .. Len(recs) : Match(leaf, recs[n].key) = {}}
           rest == Pick(recs, I)
           new  == FillEmptySlots(mid, rest)
<1>0. InsertBatch(leaf, recs) = new
  BY DEF InsertBatch
<1>1. /\ mid \in LeafOf(K, V) /\ Distinct(mid)
      /\ ValidBitSet(mid) = ValidBitSet(leaf)
      /\ KeysOf(mid) = KeysOf(leaf)
      /\ \A k, v : Has(mid, k, v) <=>
            /\ k \in KeysOf(leaf)
            /\ InRecs(recs, k, v) \/ (k \notin KeysIn(recs) /\ Has(leaf, k, v))
  BY OverwriteIs
<1>2. /\ rest \in Seq(RecOf(K, V)) /\ Len(rest) = Cardinality(I) /\ Cardinality(I) <= Len(recs)
      /\ DistinctRecs(rest)
      /\ \A k : k \in KeysIn(rest) <=> \E i \in I : recs[i].key = k
      /\ \A k, v : InRecs(rest, k, v) <=> \E i \in I : recs[i].key = k /\ recs[i].val = v
  <2>1. I \in SUBSET (1 .. Len(recs))
    OBVIOUS
  <2> HIDE DEF I
  <2>2. /\ rest \in Seq(RecOf(K, V)) /\ Len(rest) = Cardinality(I) /\ Cardinality(I) <= Len(recs)
        /\ DistinctRecs(rest)
    BY <2>1, PickIs
  <2>3. /\ \A k : k \in KeysIn(rest) <=> \E i \in I : recs[i].key = k
        /\ \A k, v : InRecs(rest, k, v) <=> \E i \in I : recs[i].key = k /\ recs[i].val = v
    BY <2>1, PickRecords
  <2> QED
    BY <2>2, <2>3
<1>3. \A n \in 1 .. Len(recs) : n \in I <=> recs[n].key \notin KeysOf(leaf)
  BY DEF Match, KeysOf
<1>4. I \subseteq 1 .. Len(recs)
  OBVIOUS
<1> HIDE DEF I, rest, mid, new
<1>5. KeysIn(rest) = KeysIn(recs) \ KeysOf(leaf)
  <2>1. \A k : k \in KeysIn(recs) <=> \E n \in 1 .. Len(recs) : recs[n].key = k
    BY DEF KeysIn
  <2> QED
    BY <1>2, <1>3, <1>4, <2>1
<1>6. Len(rest) <= Cardinality(EmptyBitSet(mid))
  <2>1. Len(recs) \in Nat /\ Len(rest) \in Nat
    BY <1>2
  <2>2. /\ Count(mid) = Count(leaf) /\ Count(leaf) \in Nat
        /\ Cardinality(EmptyBitSet(mid)) \in Nat
        /\ Count(mid) + Cardinality(EmptyBitSet(mid)) = LeafCapacity
    <3>1. EmptyBitSet(mid) \in SUBSET Slot
      BY <1>1, LeafSets
    <3> QED
      BY <1>1, <3>1, LeafSets, SlotsFinite DEF Count
  <2> QED
    BY <1>2, <2>1, <2>2, LeafCapacityAssumption
<1>7. /\ new \in LeafOf(K, V) /\ Distinct(new)
      /\ KeysOf(new) = KeysOf(mid) \cup KeysIn(rest)
      /\ \A k, v : Has(new, k, v) <=> Has(mid, k, v) \/ InRecs(rest, k, v)
  <2>1. KeysOf(mid) \cap KeysIn(rest) = {}
    BY <1>1, <1>5
  <2> QED
    BY <1>1, <1>2, <1>6, <2>1, FillIs DEF new
<1>8. \A k, v : InRecs(rest, k, v) <=> InRecs(recs, k, v) /\ k \notin KeysOf(leaf)
  <2>1. \A k, v : InRecs(recs, k, v) <=> \E n \in 1 .. Len(recs) : recs[n].key = k /\ recs[n].val = v
    BY DEF InRecs
  <2> QED
    BY <1>2, <1>3, <1>4, <2>1
<1>9. \A k, v : Has(leaf, k, v) => k \in KeysOf(leaf)
  BY DEF Has, KeysOf
<1>10. \A k, v : Has(new, k, v) <=> InRecs(recs, k, v) \/ (k \notin KeysIn(recs) /\ Has(leaf, k, v))
  BY <1>1, <1>7, <1>8, <1>9
<1> QED
  BY <1>0, <1>1, <1>5, <1>7, <1>10

-----------------------------------------------------------------------------
(* Sorting and splitting.                                                  *)

Before(leaf, i, j) == \/ leaf[i].key < leaf[j].key
                      \/ leaf[i].key = leaf[j].key /\ i < j

(* SortedSlots lists every valid slot once, in the order of the keys. *)
LEMMA SortedSlotsIs ==
    ASSUME NEW K \in SUBSET Nat, NEW V, NEW leaf \in LeafOf(K, V)
    PROVE  LET s == SortedSlots(leaf)
           IN  /\ s \in [1 .. Count(leaf) -> ValidBitSet(leaf)]
               /\ \A n \in 1 .. Count(leaf) :
                     Cardinality({j \in ValidBitSet(leaf) : Before(leaf, j, s[n])}) = n - 1
               /\ \A i \in ValidBitSet(leaf) : \E n \in 1 .. Count(leaf) : s[n] = i
               /\ \A m, n \in 1 .. Count(leaf) : Before(leaf, s[m], s[n]) <=> m < n
<1> DEFINE S == ValidBitSet(leaf)
           R == {p \in Slot \X Slot : Before(leaf, p[1], p[2])}
           s == SortedSlots(leaf)
<1>1. S \subseteq Slot /\ Slot \subseteq Nat /\ IsFiniteSet(S) /\ \A i \in S : leaf[i].key \in Nat
  <2>1. S \subseteq Slot /\ \A i \in S : leaf[i] \in RecOf(K, V)
    BY LeafSets
  <2>2. \A r \in RecOf(K, V) : r.key \in Nat
    BY DEF RecOf
  <2> QED
    BY <2>1, <2>2, SlotsFinite
<1>2. IsOrder(S, R)
  <2>1. \A i, j \in S : <<i, j>> \in R <=> Before(leaf, i, j)
    BY <1>1
  <2>2. \A i \in S : i \in Nat /\ leaf[i].key \in Nat
    BY <1>1
  <2>3. \A i \in S : ~Before(leaf, i, i)
    BY <2>2 DEF Before
  <2>4. \A i, j, k \in S : Before(leaf, i, j) /\ Before(leaf, j, k) => Before(leaf, i, k)
    BY <2>2 DEF Before
  <2>5. \A i, j \in S : i # j => Before(leaf, i, j) \/ Before(leaf, j, i)
    BY <2>2 DEF Before
  <2> QED
    BY <2>1, <2>3, <2>4, <2>5 DEF IsOrder
<1>3. \A i \in S : Smaller(S, R, i) = {j \in S : Before(leaf, j, i)}
  BY <1>1 DEF Smaller
<1>4. \A i, j \in S : <<i, j>> \in R <=> Before(leaf, i, j)
  BY <1>1
<1> HIDE DEF R
<1>5. /\ \A x \in S : Cardinality(Smaller(S, R, x)) \in 0 .. (Cardinality(S) - 1)
      /\ \A n \in 0 .. (Cardinality(S) - 1) :
            \E x \in S : Cardinality(Smaller(S, R, x)) = n
      /\ \A x, y \in S :
            Cardinality(Smaller(S, R, x)) = Cardinality(Smaller(S, R, y)) => x = y
  BY <1>1, <1>2, RankOnto
<1>6. Cardinality(S) = Count(leaf) /\ Count(leaf) \in Nat
  BY LeafSets DEF Count
<1>7. ASSUME NEW n \in 1 .. Count(leaf)
      PROVE  s[n] \in S /\ Cardinality({j \in S : Before(leaf, j, s[n])}) = n - 1
  <2>1. n - 1 \in 0 .. (Cardinality(S) - 1)
    BY <1>6
  <2>2. \E i \in S : Cardinality({j \in S : Before(leaf, j, i)}) = n - 1
    BY <1>3, <1>5, <2>1
  <2>3. s[n] = CHOOSE i \in S : Cardinality({j \in S : Before(leaf, j, i)}) = n - 1
    BY DEF SortedSlots, Before
  <2> QED
    BY <2>2, <2>3
<1>8. s \in [1 .. Count(leaf) -> S]
  <2>1. s = [n \in 1 .. Count(leaf) |-> s[n]]
    BY DEF SortedSlots
  <2> QED
    BY <1>7, <2>1
<1> HIDE DEF s
<1>9. ASSUME NEW i \in S PROVE \E n \in 1 .. Count(leaf) : s[n] = i
  <2> DEFINE n == Cardinality(Smaller(S, R, i)) + 1
  <2>1. n \in 1 .. Count(leaf) /\ n - 1 = Cardinality(Smaller(S, R, i))
    BY <1>5, <1>6
  <2> HIDE DEF n
  <2>2. s[n] \in S /\ Cardinality(Smaller(S, R, s[n])) = Cardinality(Smaller(S, R, i))
    BY <1>3, <1>7, <2>1
  <2> QED
    BY <1>5, <2>1, <2>2
<1>10. ASSUME NEW m \in 1 .. Count(leaf), NEW n \in 1 .. Count(leaf)
       PROVE  Before(leaf, s[m], s[n]) <=> m < n
  <2>1. /\ s[m] \in S /\ s[n] \in S
        /\ Cardinality(Smaller(S, R, s[m])) = m - 1 /\ Cardinality(Smaller(S, R, s[n])) = n - 1
    BY <1>3, <1>7
  <2>2. m \in Nat /\ n \in Nat
    BY <1>6
  <2>3. <<s[m], s[n]>> \in R => m < n
    <3>1. <<s[m], s[n]>> \in R => m - 1 < n - 1
      BY <1>1, <1>2, <2>1, RankGrows
    <3> QED
      BY <2>2, <3>1
  <2>4. <<s[n], s[m]>> \in R => n < m
    <3>1. <<s[n], s[m]>> \in R => n - 1 < m - 1
      BY <1>1, <1>2, <2>1, RankGrows
    <3> QED
      BY <2>2, <3>1
  <2>5. s[m] = s[n] => m = n
    BY <2>1, <2>2
  <2>6. s[m] # s[n] => <<s[m], s[n]>> \in R \/ <<s[n], s[m]>> \in R
    BY <1>2, <2>1 DEF IsOrder
  <2>7. <<s[m], s[n]>> \in R <=> m < n
    BY <2>2, <2>3, <2>4, <2>5, <2>6
  <2> QED
    BY <1>4, <2>1, <2>7
<1> QED
  BY <1>7, <1>8, <1>9, <1>10 DEF s

(* In particular none is left out. *)
LEMMA SortedOnto ==
    ASSUME NEW K \in SUBSET Nat, NEW V, NEW leaf \in LeafOf(K, V)
    PROVE  \A i \in ValidBitSet(leaf) : \E n \in 1 .. Count(leaf) : SortedSlots(leaf)[n] = i
<1> DEFINE s == SortedSlots(leaf)
<1>1. /\ s \in [1 .. Count(leaf) -> ValidBitSet(leaf)]
      /\ \A n \in 1 .. Count(leaf) :
            Cardinality({j \in ValidBitSet(leaf) : Before(leaf, j, s[n])}) = n - 1
      /\ \A i \in ValidBitSet(leaf) : \E n \in 1 .. Count(leaf) : s[n] = i
      /\ \A m, n \in 1 .. Count(leaf) : Before(leaf, s[m], s[n]) <=> m < n
  BY SortedSlotsIs
<1> QED
  BY <1>1, Zenon

(* The median is a key of the leaf and not its smallest one, and as many    *)
(* records are below it as the left half gets.                              *)
LEMMA MedianIs ==
    ASSUME NEW K \in SUBSET Nat, NEW V, NEW leaf \in LeafOf(K, V), Distinct(leaf), Count(leaf) >= 2
    PROVE  LET half == Count(leaf) \div 2
           IN  /\ Median(leaf) \in KeysOf(leaf) /\ Median(leaf) \in K
               /\ \E k \in KeysOf(leaf) : k < Median(leaf)
               /\ Cardinality({i \in ValidBitSet(leaf) : leaf[i].key < Median(leaf)}) = half
               /\ half \in Nat /\ half >= 1 /\ half + 1 <= Count(leaf)
               /\ \A n \in 1 .. Count(leaf) :
                     leaf[SortedSlots(leaf)[n]].key >= Median(leaf) <=> n > half
<1> DEFINE half == Count(leaf) \div 2
           m == half + 1
           s == SortedSlots(leaf)
           S == ValidBitSet(leaf)
<1>1. Count(leaf) \in Nat
  BY LeafSets
<1>2. half \in Nat /\ half >= 1 /\ half + 1 <= Count(leaf)
  BY <1>1
<1>3. 1 \in 1 .. Count(leaf) /\ m \in 1 .. Count(leaf) /\ 1 < m /\ m - 1 = half
  BY <1>1, <1>2
<1> HIDE DEF half, m
<1>4. Median(leaf) = leaf[s[m]].key
  BY DEF Median, m, half
<1>5. \A i \in S : leaf[i].key \in Nat /\ leaf[i].key \in K
  BY LeafSets DEF RecOf
<1>6. S \subseteq Nat
  BY LeafSets, SlotsFinite
<1>7. /\ \A n \in 1 .. Count(leaf) : s[n] \in S
      /\ Cardinality({j \in S : Before(leaf, j, s[m])}) = m - 1
      /\ \A n \in 1 .. Count(leaf) : Before(leaf, s[n], s[m]) <=> n < m
  BY <1>3, SortedSlotsIs
<1> HIDE DEF s
<1>8. \A j \in S : Before(leaf, j, s[m]) <=> leaf[j].key < Median(leaf)
  BY <1>3, <1>4, <1>5, <1>6, <1>7 DEF Before, Distinct
<1>9. Cardinality({i \in S : leaf[i].key < Median(leaf)}) = half
  <2>1. {i \in S : leaf[i].key < Median(leaf)} = {j \in S : Before(leaf, j, s[m])}
    BY <1>8
  <2> QED
    BY <1>3, <1>7, <2>1
<1>10. Median(leaf) \in KeysOf(leaf) /\ Median(leaf) \in K
  BY <1>3, <1>4, <1>5, <1>7 DEF KeysOf
<1>11. \E k \in KeysOf(leaf) : k < Median(leaf)
  <2>1. s[1] \in S /\ leaf[s[1]].key < Median(leaf)
    BY <1>3, <1>7, <1>8
  <2> QED
    BY <2>1 DEF KeysOf
<1>12. ASSUME NEW n \in 1 .. Count(leaf) PROVE leaf[s[n]].key >= Median(leaf) <=> n > half
  <2>1. leaf[s[n]].key < Median(leaf) <=> n < m
    BY <1>7, <1>8
  <2>2. leaf[s[n]].key \in Nat /\ Median(leaf) \in Nat
    BY <1>5, <1>7, <1>10
  <2>3. n < m <=> ~(n > half)
    BY <1>1, <1>2 DEF m
  <2> QED
    BY <2>1, <2>2, <2>3
<1> QED
  BY <1>2, <1>9, <1>10, <1>11, <1>12 DEF half, s

(* The records on one side of the median. *)
LEMMA SidesAre ==
    ASSUME NEW K \in SUBSET Nat, NEW V, NEW recs \in Seq(RecOf(K, V)), NEW median \in Nat
    PROVE  /\ Below(recs, median) \in Seq(RecOf(K, V)) /\ Len(Below(recs, median)) <= Len(recs)
           /\ DistinctRecs(recs) => DistinctRecs(Below(recs, median))
           /\ \A k : k \in KeysIn(Below(recs, median)) <=> k \in KeysIn(recs) /\ k < median
           /\ \A k, v : InRecs(Below(recs, median), k, v) <=> InRecs(recs, k, v) /\ k < median
           /\ AtLeast(recs, median) \in Seq(RecOf(K, V)) /\ Len(AtLeast(recs, median)) <= Len(recs)
           /\ DistinctRecs(recs) => DistinctRecs(AtLeast(recs, median))
           /\ \A k : k \in KeysIn(AtLeast(recs, median)) <=> k \in KeysIn(recs) /\ k >= median
           /\ \A k, v : InRecs(AtLeast(recs, median), k, v) <=> InRecs(recs, k, v) /\ k >= median
<1> DEFINE I == {n \in 1 .. Len(recs) : recs[n].key < median}
           J == {n \in 1 .. Len(recs) : recs[n].key >= median}
<1>1. I \in SUBSET (1 .. Len(recs)) /\ J \in SUBSET (1 .. Len(recs))
  OBVIOUS
<1>2. Below(recs, median) = Pick(recs, I) /\ AtLeast(recs, median) = Pick(recs, J)
  BY DEF Below, AtLeast
<1>3. \A n \in 1 .. Len(recs) : /\ n \in I <=> recs[n].key < median
                                /\ n \in J <=> recs[n].key >= median
  OBVIOUS
<1> HIDE DEF I, J
<1>4. /\ \A k : k \in KeysIn(recs) <=> \E n \in 1 .. Len(recs) : recs[n].key = k
      /\ \A k, v : InRecs(recs, k, v) <=> \E n \in 1 .. Len(recs) : recs[n].key = k /\ recs[n].val = v
  BY DEF KeysIn, InRecs
<1>5. /\ Pick(recs, I) \in Seq(RecOf(K, V)) /\ Len(Pick(recs, I)) <= Len(recs)
      /\ DistinctRecs(recs) => DistinctRecs(Pick(recs, I))
  BY <1>1, PickIs
<1>6. /\ Pick(recs, J) \in Seq(RecOf(K, V)) /\ Len(Pick(recs, J)) <= Len(recs)
      /\ DistinctRecs(recs) => DistinctRecs(Pick(recs, J))
  BY <1>1, PickIs
<1>7. /\ \A k : k \in KeysIn(Pick(recs, I)) <=> \E i \in I : recs[i].key = k
      /\ \A k, v : InRecs(Pick(recs, I), k, v) <=> \E i \in I : recs[i].key = k /\ recs[i].val = v
      /\ \A k : k \in KeysIn(Pick(recs, J)) <=> \E i \in J : recs[i].key = k
      /\ \A k, v : InRecs(Pick(recs, J), k, v) <=> \E i \in J : recs[i].key = k /\ recs[i].val = v
  BY <1>1, PickRecords
<1>8. /\ \A k : k \in KeysIn(Pick(recs, I)) <=> k \in KeysIn(recs) /\ k < median
      /\ \A k, v : InRecs(Pick(recs, I), k, v) <=> InRecs(recs, k, v) /\ k < median
      /\ \A k : k \in KeysIn(Pick(recs, J)) <=> k \in KeysIn(recs) /\ k >= median
      /\ \A k, v : InRecs(Pick(recs, J), k, v) <=> InRecs(recs, k, v) /\ k >= median
  BY <1>1, <1>3, <1>4, <1>7
<1> QED
  BY <1>2, <1>5, <1>6, <1>8

(* The left half: the records below the median, old ones replaced. *)
LEMMA SplitLeftIs ==
    ASSUME NEW K \in SUBSET Nat, NEW V, NEW leaf \in LeafOf(K, V), NEW recs \in Seq(RecOf(K, V)),
           Distinct(leaf), DistinctRecs(recs), Count(leaf) >= 2,
           Count(leaf) \div 2 + Len(recs) <= LeafCapacity
    PROVE  LET new == SplitLeft(leaf, recs)
           IN  /\ new \in LeafOf(K, V) /\ Distinct(new)
               /\ \A k : k \in KeysOf(new) <=>
                     k \in KeysOf(leaf) \cup KeysIn(recs) /\ k < Median(leaf)
               /\ \A k, v : Has(new, k, v) <=>
                     /\ k < Median(leaf)
                     /\ InRecs(recs, k, v) \/ (k \notin KeysIn(recs) /\ Has(leaf, k, v))
<1> DEFINE median == Median(leaf)
           kept == [i \in Slot |-> [leaf[i] EXCEPT !.valid = @ /\ leaf[i].key < median]]
           low  == Below(recs, median)
           new  == InsertBatch(kept, low)
<1>0. SplitLeft(leaf, recs) = new
  BY DEF SplitLeft
<1>1. /\ median \in Nat /\ Count(leaf) \div 2 \in Nat
      /\ Cardinality({i \in ValidBitSet(leaf) : leaf[i].key < median}) = Count(leaf) \div 2
  BY MedianIs
<1> HIDE DEF median
<1>2. ASSUME NEW i \in Slot
      PROVE  /\ kept[i] \in Slots(K, V)
             /\ kept[i].key = leaf[i].key /\ kept[i].val = leaf[i].val
             /\ i \in ValidBitSet(kept) <=> i \in ValidBitSet(leaf) /\ leaf[i].key < median
  <2>1. kept[i] = [leaf[i] EXCEPT !.valid = (leaf[i].valid /\ leaf[i].key < median)]
    OBVIOUS
  <2>2. (leaf[i].valid /\ leaf[i].key < median) \in BOOLEAN
    OBVIOUS
  <2> DEFINE b == leaf[i].valid /\ leaf[i].key < median
  <2> HIDE DEF b, kept
  <2>3. leaf[i] \in Slots(K, V)
    BY DEF LeafOf
  <2>4. b \in BOOLEAN /\ kept[i] = [leaf[i] EXCEPT !.valid = b]
    BY <2>1, <2>2 DEF b
  <2>5. /\ kept[i].key = leaf[i].key /\ kept[i].val = leaf[i].val /\ kept[i].valid = b
        /\ leaf[i] # NoRec => kept[i] \in Slots(K, V)
    BY <2>3, <2>4 DEF Slots, NoRec
  <2>6. leaf[i] = NoRec => kept[i] = NoRec
    <3> SUFFICES ASSUME leaf[i] = NoRec PROVE kept[i] = NoRec
      OBVIOUS
    <3>1. leaf[i].valid = FALSE
      BY DEF NoRec
    <3>2. b = FALSE
      BY <3>1, Zenon DEF b
    <3>3. kept[i] = [NoRec EXCEPT !.valid = FALSE]
      BY <2>4, <3>2, Zenon
    <3>4. [NoRec EXCEPT !.valid = FALSE] = NoRec
      <4>0. ASSUME NEW B, NEW c \in B, NEW r \in [key : {0}, val : {NoVal}, valid : B]
            PROVE  [r EXCEPT !.valid = c] = [key |-> r.key, val |-> r.val, valid |-> c]
        OBVIOUS
      <4>1. \A r \in [key : {0}, val : {NoVal}, valid : {FALSE}] :
               [r EXCEPT !.valid = FALSE] = [key |-> r.key, val |-> r.val, valid |-> FALSE]
        BY <4>0, Zenon
      <4>2. /\ NoRec \in [key : {0}, val : {NoVal}, valid : {FALSE}]
            /\ NoRec.key = 0 /\ NoRec.val = NoVal
        BY DEF NoRec
      <4>3. [NoRec EXCEPT !.valid = FALSE] = [key |-> NoRec.key, val |-> NoRec.val, valid |-> FALSE]
        BY <4>1, <4>2
      <4> QED
        BY <4>2, <4>3, Zenon DEF NoRec
    <3> QED
      BY <3>3, <3>4
  <2>7. i \in ValidBitSet(kept) <=> kept[i].valid
    BY DEF ValidBitSet
  <2>8. i \in ValidBitSet(leaf) <=> leaf[i].valid
    BY DEF ValidBitSet
  <2>9. i \in ValidBitSet(kept) <=> i \in ValidBitSet(leaf) /\ leaf[i].key < median
    BY <2>5, <2>7, <2>8, Zenon DEF b
  <2>10. kept[i] \in Slots(K, V)
    BY <2>5, <2>6 DEF Slots
  <2> QED
    BY <2>5, <2>9, <2>10
<1>3. kept \in LeafOf(K, V)
  BY <1>2 DEF LeafOf
<1> HIDE DEF kept
<1>4. ValidBitSet(kept) = {i \in ValidBitSet(leaf) : leaf[i].key < median}
  <2>1. ValidBitSet(kept) \subseteq Slot /\ ValidBitSet(leaf) \subseteq Slot
    BY DEF ValidBitSet
  <2> QED
    BY <1>2, <2>1
<1>5. /\ Distinct(kept)
      /\ \A k : k \in KeysOf(kept) <=> k \in KeysOf(leaf) /\ k < median
      /\ \A k, v : Has(kept, k, v) <=> Has(leaf, k, v) /\ k < median
  <2>1. ValidBitSet(leaf) \subseteq Slot
    BY DEF ValidBitSet
  <2> QED
    BY <1>2, <1>4, <2>1 DEF Distinct, KeysOf, Has
<1>6. /\ low \in Seq(RecOf(K, V)) /\ Len(low) <= Len(recs) /\ DistinctRecs(low)
      /\ \A k : k \in KeysIn(low) <=> k \in KeysIn(recs) /\ k < median
      /\ \A k, v : InRecs(low, k, v) <=> InRecs(recs, k, v) /\ k < median
  BY <1>1, SidesAre
<1> HIDE DEF low
<1>7. Count(kept) + Len(low) <= LeafCapacity
  <2>1. Len(low) \in Nat /\ Len(recs) \in Nat
    BY <1>6
  <2>2. Count(kept) = Count(leaf) \div 2
    BY <1>1, <1>4 DEF Count
  <2> QED
    BY <1>1, <1>6, <2>1, <2>2, LeafCapacityAssumption
<1>8. /\ new \in LeafOf(K, V) /\ Distinct(new)
      /\ KeysOf(new) = KeysOf(kept) \cup KeysIn(low)
      /\ \A k, v : Has(new, k, v) <=> InRecs(low, k, v) \/ (k \notin KeysIn(low) /\ Has(kept, k, v))
  BY <1>3, <1>5, <1>6, <1>7, InsertBatchIs
<1> HIDE DEF new
<1>9. \A k : k \in KeysOf(new) <=> k \in KeysOf(leaf) \cup KeysIn(recs) /\ k < median
  BY <1>5, <1>6, <1>8
<1>10. ASSUME NEW k, NEW v
       PROVE  Has(new, k, v) <=>
                 /\ k < median
                 /\ InRecs(recs, k, v) \/ (k \notin KeysIn(recs) /\ Has(leaf, k, v))
  BY <1>5, <1>6, <1>8
<1> QED
  BY <1>0, <1>8, <1>9, <1>10 DEF median

(* A new leaf is empty. *)
LEMMA EmptyLeafIs ==
    ASSUME NEW K, NEW V
    PROVE  /\ EmptyLeaf \in LeafOf(K, V) /\ ValidBitSet(EmptyLeaf) = {}
           /\ KeysOf(EmptyLeaf) = {} /\ Distinct(EmptyLeaf) /\ \A k, v : ~Has(EmptyLeaf, k, v)
           /\ Cardinality(EmptyBitSet(EmptyLeaf)) = LeafCapacity
<1>1. EmptyLeaf \in LeafOf(K, V)
  BY DEF EmptyLeaf, LeafOf, Slots
<1>2. ValidBitSet(EmptyLeaf) = {}
  <2>1. \A i \in Slot : EmptyLeaf[i].valid = FALSE
    BY DEF EmptyLeaf, NoRec
  <2> QED
    BY <2>1, Zenon DEF ValidBitSet
<1>3. KeysOf(EmptyLeaf) = {} /\ Distinct(EmptyLeaf) /\ \A k, v : ~Has(EmptyLeaf, k, v)
  BY <1>2 DEF KeysOf, Distinct, Has
<1>4. EmptyBitSet(EmptyLeaf) = Slot
  BY <1>2 DEF EmptyBitSet
<1> QED
  BY <1>1, <1>2, <1>3, <1>4, SlotsFinite

(* The right half: the sorted records from the median on, and behind them   *)
(* those of the batch.  They all fit, and no key occurs twice unless the    *)
(* batch brought one of the old keys.                                       *)
LEMMA SplitRightIs ==
    ASSUME NEW K \in SUBSET Nat, NEW V, NEW leaf \in LeafOf(K, V), NEW recs \in Seq(RecOf(K, V)),
           Distinct(leaf), DistinctRecs(recs), Count(leaf) >= 2,
           Count(leaf) - Count(leaf) \div 2 + Len(recs) <= LeafCapacity
    PROVE  LET new == SplitRight(leaf, recs)
           IN  /\ new \in LeafOf(K, V)
               /\ (\A k \in KeysOf(leaf) \cap KeysIn(recs) : k < Median(leaf)) => Distinct(new)
               /\ \A k : k \in KeysOf(new) <=>
                     k \in KeysOf(leaf) \cup KeysIn(recs) /\ k >= Median(leaf)
               /\ \A k, v : Has(new, k, v) <=>
                     k >= Median(leaf) /\ (InRecs(recs, k, v) \/ Has(leaf, k, v))
<1> DEFINE median == Median(leaf)
           N == Count(leaf)
           s == SortedSlots(leaf)
           sorted == [n \in 1 .. N |-> leaf[s[n]]]
           shifted == AtLeast(sorted, median)
           high == AtLeast(recs, median)
           new  == FillEmptySlots(EmptyLeaf, shifted \o high)
<1>0. SplitRight(leaf, recs) = new
  BY DEF SplitRight
<1>1. N \in Nat /\ \A i \in ValidBitSet(leaf) : leaf[i] \in RecOf(K, V)
  BY LeafSets
<1>2. /\ median \in Nat /\ N \div 2 \in Nat /\ N \div 2 + 1 <= N
      /\ \A n \in 1 .. N : leaf[s[n]].key >= median <=> n > N \div 2
  BY MedianIs
<1>3. /\ s \in [1 .. N -> ValidBitSet(leaf)]
      /\ \A i \in ValidBitSet(leaf) : \E n \in 1 .. N : s[n] = i
      /\ \A m, n \in 1 .. N : Before(leaf, s[m], s[n]) <=> m < n
  <2>1. \A i \in ValidBitSet(leaf) : \E n \in 1 .. N : s[n] = i
    BY SortedOnto
  <2>2. \A m, n \in 1 .. N : Before(leaf, s[m], s[n]) <=> m < n
    BY SortedSlotsIs
  <2>3. s \in [1 .. N -> ValidBitSet(leaf)]
    BY SortedSlotsIs
  <2> QED
    BY <2>1, <2>2, <2>3
<1> HIDE DEF s, N, median
<1>4. sorted \in [1 .. N -> RecOf(K, V)] /\ \A n \in 1 .. N : sorted[n] = leaf[s[n]]
  BY <1>1, <1>3
<1> HIDE DEF sorted
<1>5. sorted \in Seq(RecOf(K, V)) /\ Len(sorted) = N
  BY <1>1, <1>4
<1>6. DistinctRecs(sorted)
  <2>1. ASSUME NEW m \in 1 .. N, NEW n \in 1 .. N, sorted[m].key = sorted[n].key PROVE m = n
    <3>1. s[m] = s[n]
      BY <1>3, <1>4, <2>1 DEF Distinct
    <3>2. s[m] \in Nat /\ leaf[s[m]].key \in Nat
      <4>1. s[m] \in ValidBitSet(leaf) /\ ValidBitSet(leaf) \subseteq Nat
        BY <1>3, LeafSets, SlotsFinite
      <4>2. \A r \in RecOf(K, V) : r.key \in Nat
        BY DEF RecOf
      <4> QED
        BY <1>1, <4>1, <4>2
    <3>3. ~Before(leaf, s[m], s[n]) /\ ~Before(leaf, s[n], s[m])
      BY <3>1, <3>2 DEF Before
    <3> QED
      BY <1>1, <1>3, <3>3
  <2> QED
    BY <1>5, <2>1 DEF DistinctRecs
<1>7. /\ \A k : k \in KeysIn(sorted) <=> k \in KeysOf(leaf)
      /\ \A k, v : InRecs(sorted, k, v) <=> Has(leaf, k, v)
  <2>1. \A n \in 1 .. N : s[n] \in ValidBitSet(leaf)
    BY <1>3
  <2>2. /\ \A k : k \in KeysIn(sorted) <=> \E n \in 1 .. N : sorted[n].key = k
        /\ \A k, v : InRecs(sorted, k, v) <=> \E n \in 1 .. N : sorted[n].key = k /\ sorted[n].val = v
    BY <1>5 DEF KeysIn, InRecs
  <2>3. \A k : k \in KeysOf(leaf) <=> \E i \in ValidBitSet(leaf) : leaf[i].key = k
    BY DEF KeysOf
  <2>4. ASSUME NEW k PROVE k \in KeysIn(sorted) <=> k \in KeysOf(leaf)
    BY <1>3, <1>4, <2>1, <2>2, <2>3
  <2>5. ASSUME NEW k, NEW v PROVE InRecs(sorted, k, v) <=> Has(leaf, k, v)
    BY <1>3, <1>4, <2>1, <2>2 DEF Has
  <2> QED
    BY <2>4, <2>5
<1>8. /\ shifted \in Seq(RecOf(K, V)) /\ DistinctRecs(shifted)
      /\ \A k : k \in KeysIn(shifted) <=> k \in KeysIn(sorted) /\ k >= median
      /\ \A k, v : InRecs(shifted, k, v) <=> InRecs(sorted, k, v) /\ k >= median
  BY <1>2, <1>5, <1>6, SidesAre
<1>9. /\ high \in Seq(RecOf(K, V)) /\ Len(high) <= Len(recs) /\ DistinctRecs(high)
      /\ \A k : k \in KeysIn(high) <=> k \in KeysIn(recs) /\ k >= median
      /\ \A k, v : InRecs(high, k, v) <=> InRecs(recs, k, v) /\ k >= median
  BY <1>2, SidesAre
<1>10. Len(shifted) = N - N \div 2
  <2> DEFINE I == {n \in 1 .. Len(sorted) : sorted[n].key >= median}
  <2>1. I = (N \div 2 + 1) .. N
    BY <1>1, <1>2, <1>4, <1>5
  <2>2. I \in SUBSET (1 .. Len(sorted)) /\ shifted = Pick(sorted, I)
    BY DEF AtLeast
  <2> HIDE DEF I, shifted
  <2>3. Len(shifted) = Cardinality(I)
    BY <1>5, <2>2, PickIs
  <2>4. Cardinality((N \div 2 + 1) .. N) =
           IF N \div 2 + 1 > N THEN 0 ELSE N - (N \div 2 + 1) + 1
    BY <1>1, <1>2, FS_Interval
  <2> QED
    BY <1>1, <1>2, <2>1, <2>3, <2>4
<1> HIDE DEF shifted, high
<1> DEFINE all == shifted \o high
<1>11. /\ all \in Seq(RecOf(K, V)) /\ Len(all) = Len(shifted) + Len(high)
       /\ Len(shifted) \in Nat /\ Len(high) \in Nat
       /\ \A n \in 1 .. Len(shifted) : all[n] = shifted[n]
       /\ \A n \in 1 .. Len(high) : all[Len(shifted) + n] = high[n]
  BY <1>8, <1>9
<1>12. \A n \in 1 .. Len(all) : \/ n \in 1 .. Len(shifted) /\ all[n] = shifted[n]
                                \/ \E m \in 1 .. Len(high) : n = Len(shifted) + m /\ all[n] = high[m]
  <2> SUFFICES ASSUME NEW n \in 1 .. Len(all), n \notin 1 .. Len(shifted)
               PROVE  \E m \in 1 .. Len(high) : n = Len(shifted) + m /\ all[n] = high[m]
    BY <1>11
  <2> DEFINE m == n - Len(shifted)
  <2> HIDE DEF all
  <2>1. m \in 1 .. Len(high) /\ n = Len(shifted) + m
    BY <1>11
  <2> QED
    BY <1>11, <2>1
<1> HIDE DEF all
<1>13. /\ \A n \in 1 .. Len(shifted) : n \in 1 .. Len(all)
       /\ \A n \in 1 .. Len(high) : Len(shifted) + n \in 1 .. Len(all)
  BY <1>11
<1>14. /\ \A k : k \in KeysIn(all) <=> k \in KeysIn(shifted) \/ k \in KeysIn(high)
       /\ \A k, v : InRecs(all, k, v) <=> InRecs(shifted, k, v) \/ InRecs(high, k, v)
  <2> DEFINE A == 1 .. Len(all)
             B == 1 .. Len(shifted)
             C == 1 .. Len(high)
  <2>1. /\ \A k : k \in KeysIn(all) <=> \E n \in A : all[n].key = k
        /\ \A k : k \in KeysIn(shifted) <=> \E n \in B : shifted[n].key = k
        /\ \A k : k \in KeysIn(high) <=> \E n \in C : high[n].key = k
    BY DEF KeysIn
  <2>2. /\ \A k, v : InRecs(all, k, v) <=> \E n \in A : all[n].key = k /\ all[n].val = v
        /\ \A k, v : InRecs(shifted, k, v) <=> \E n \in B : shifted[n].key = k /\ shifted[n].val = v
        /\ \A k, v : InRecs(high, k, v) <=> \E n \in C : high[n].key = k /\ high[n].val = v
    BY DEF InRecs
  <2>3. /\ \A n \in A : (\E i \in B : all[n] = shifted[i]) \/ (\E i \in C : all[n] = high[i])
        /\ \A i \in B : \E n \in A : all[n] = shifted[i]
        /\ \A i \in C : \E n \in A : all[n] = high[i]
    BY <1>11, <1>12, <1>13
  <2> HIDE DEF A, B, C
  <2>4. ASSUME NEW k PROVE k \in KeysIn(all) <=> k \in KeysIn(shifted) \/ k \in KeysIn(high)
    BY <2>1, <2>3
  <2>5. ASSUME NEW k, NEW v PROVE InRecs(all, k, v) <=> InRecs(shifted, k, v) \/ InRecs(high, k, v)
    BY <2>2, <2>3
  <2> QED
    BY <2>4, <2>5
<1>15. ASSUME \A k \in KeysOf(leaf) \cap KeysIn(recs) : k < median PROVE DistinctRecs(all)
  <2>1. K \subseteq Nat /\ \A k \in KeysIn(recs) : k \in Nat
    <3>1. \A r \in RecOf(K, V) : r.key \in Nat
      BY DEF RecOf
    <3> QED
      BY <3>1 DEF KeysIn
  <2>2. KeysIn(shifted) \cap KeysIn(high) = {}
    BY <1>2, <1>7, <1>8, <1>9, <1>15, <2>1
  <2> SUFFICES ASSUME NEW m \in 1 .. Len(all), NEW n \in 1 .. Len(all), all[m].key = all[n].key
               PROVE  m = n
    BY DEF DistinctRecs
  <2>3. \A i \in 1 .. Len(shifted) : \A j \in 1 .. Len(high) : shifted[i].key # high[j].key
    BY <2>2 DEF KeysIn
  <2>4. CASE m \in 1 .. Len(shifted) /\ all[m] = shifted[m]
    BY <1>8, <1>12, <2>3, <2>4 DEF DistinctRecs
  <2>5. CASE \E i \in 1 .. Len(high) : m = Len(shifted) + i /\ all[m] = high[i]
    BY <1>9, <1>12, <2>3, <2>5 DEF DistinctRecs
  <2> QED
    BY <1>12, <2>4, <2>5
<1>16. Len(all) <= Cardinality(EmptyBitSet(EmptyLeaf))
  <2>1. Len(recs) \in Nat
    OBVIOUS
  <2>2. N - N \div 2 + Len(recs) <= LeafCapacity
    BY DEF N
  <2> QED
    BY <1>1, <1>2, <1>9, <1>10, <1>11, <2>1, <2>2, EmptyLeafIs, LeafCapacityAssumption
<1>17. /\ new \in LeafOf(K, V)
       /\ DistinctRecs(all) => Distinct(new)
       /\ KeysOf(new) = KeysIn(all)
       /\ \A k, v : Has(new, k, v) <=> InRecs(all, k, v)
  <2>1. EmptyLeaf \in LeafOf(K, V) /\ KeysOf(EmptyLeaf) = {} /\ Distinct(EmptyLeaf)
    BY EmptyLeafIs
  <2>2. \A k, v : ~Has(EmptyLeaf, k, v)
    BY EmptyLeafIs
  <2>3. new = FillEmptySlots(EmptyLeaf, all)
    BY DEF all
  <2>4. /\ new \in LeafOf(K, V)
        /\ DistinctRecs(all) /\ KeysOf(EmptyLeaf) \cap KeysIn(all) = {} => Distinct(new)
        /\ KeysOf(new) = KeysOf(EmptyLeaf) \cup KeysIn(all)
        /\ \A k, v : Has(new, k, v) <=> Has(EmptyLeaf, k, v) \/ InRecs(all, k, v)
    <3> HIDE DEF new
    <3>1. all \in Seq(RecOf(K, V))
      BY <1>11
    <3> QED
      BY <1>16, <2>1, <2>3, <3>1, FillIs
  <2> HIDE DEF new
  <2> QED
    BY <2>1, <2>2, <2>4
<1> HIDE DEF new
<1>18. \A k : k \in KeysOf(new) <=> k \in KeysOf(leaf) \cup KeysIn(recs) /\ k >= median
  BY <1>7, <1>8, <1>9, <1>14, <1>17
<1>19. ASSUME NEW k, NEW v
       PROVE  Has(new, k, v) <=> k >= median /\ (InRecs(recs, k, v) \/ Has(leaf, k, v))
  BY <1>7, <1>8, <1>9, <1>14, <1>17
<1> QED
  BY <1>0, <1>15, <1>17, <1>18, <1>19 DEF median

(* Sort writes nothing but slot numbers. *)
LEMMA LeafSortIs ==
    ASSUME NEW K \in SUBSET Nat, NEW V, NEW leaf \in LeafOf(K, V),
           NEW seqs \in [Slot -> Slot \cup {0}]
    PROVE  LeafSort(leaf, seqs) \in [Slot -> Slot \cup {0}]
<1>1. SortedSlots(leaf) \in [1 .. Count(leaf) -> ValidBitSet(leaf)]
  BY SortedSlotsIs
<1>2. Count(leaf) \in Nat /\ ValidBitSet(leaf) \subseteq Slot
  BY LeafSets
<1>3. \A i \in Slot : i \in Nat /\ i >= 1
  BY LeafCapacityAssumption DEF Slot
<1>4. \A i \in Slot : i <= Count(leaf) => SortedSlots(leaf)[i] \in Slot
  BY <1>1, <1>2, <1>3
<1> QED
  BY <1>4 DEF LeafSort

-----------------------------------------------------------------------------
(* Merging.                                                                *)

(* Merge adds the records of the right sibling when both leaves fit. *)
LEMMA LeafMergeIs ==
    ASSUME NEW K, NEW V, NEW leaf \in LeafOf(K, V), NEW right \in LeafOf(K, V),
           LeafCanMerge(leaf, right)
    PROVE  LET new == LeafMerge(leaf, right)
           IN  /\ new \in LeafOf(K, V)
               /\ Distinct(leaf) /\ Distinct(right) /\ KeysOf(leaf) \cap KeysOf(right) = {} =>
                     Distinct(new)
               /\ KeysOf(new) = KeysOf(leaf) \cup KeysOf(right)
               /\ \A k, v : Has(new, k, v) <=> Has(leaf, k, v) \/ Has(right, k, v)
<1> DEFINE N == Count(right)
           S == ValidBitSet(right)
           recs == Records(right)
           new == FillEmptySlots(leaf, recs)
<1>0. LeafMerge(leaf, right) = new
  BY DEF LeafMerge
<1>1. S \subseteq Slot /\ N \in Nat /\ N = Cardinality(S) /\ \A i \in S : right[i] \in RecOf(K, V)
  BY LeafSets DEF Count
<1>2. S \in SUBSET Nat /\ IsFiniteSet(S)
  BY <1>1, SlotsFinite
<1>3. recs = [n \in 1 .. N |-> right[Nth(S, n)]]
  BY DEF Records
<1> HIDE DEF N, S, recs, new
<1>4. /\ \A n \in 1 .. N : Nth(S, n) \in S
      /\ \A m, n \in 1 .. N : Nth(S, m) = Nth(S, n) => m = n
  BY <1>1, <1>2, NthIs
<1>5. ASSUME NEW i \in S PROVE \E n \in 1 .. N : i = Nth(S, n)
  <2>1. PICK n \in 1 .. Cardinality(S) : i = Nth(S, n) /\ n = Cardinality({j \in S : j < i}) + 1
    BY <1>2, NthIs
  <2> QED
    BY <1>1, <2>1
<1>6. recs \in [1 .. N -> RecOf(K, V)]
  BY <1>1, <1>3, <1>4
<1>7. recs \in Seq(RecOf(K, V)) /\ Len(recs) = N
  BY <1>1, <1>6
<1>8. \A n \in 1 .. N : recs[n] = right[Nth(S, n)]
  BY <1>3
<1>9. /\ \A k : k \in KeysIn(recs) <=> \E n \in 1 .. N : recs[n].key = k
      /\ \A k, v : InRecs(recs, k, v) <=> \E n \in 1 .. N : recs[n].key = k /\ recs[n].val = v
      /\ \A k : k \in KeysOf(right) <=> \E i \in S : right[i].key = k
      /\ \A k, v : Has(right, k, v) <=> \E i \in S : right[i].key = k /\ right[i].val = v
      /\ Distinct(right) <=> \A i, j \in S : right[i].key = right[j].key => i = j
      /\ DistinctRecs(recs) <=> \A m, n \in 1 .. N : recs[m].key = recs[n].key => m = n
  BY <1>7 DEF KeysIn, InRecs, KeysOf, Has, S, Distinct, DistinctRecs
<1>10. KeysIn(recs) = KeysOf(right)
  <2>1. ASSUME NEW k PROVE k \in KeysIn(recs) <=> k \in KeysOf(right)
    BY <1>4, <1>5, <1>8, <1>9
  <2> QED
    BY <2>1
<1>11. ASSUME NEW k, NEW v PROVE InRecs(recs, k, v) <=> Has(right, k, v)
  BY <1>4, <1>5, <1>8, <1>9
<1>12. Distinct(right) => DistinctRecs(recs)
  BY <1>4, <1>8, <1>9
<1>13. Len(recs) <= Cardinality(EmptyBitSet(leaf))
  <2>1. Count(leaf) + N <= LeafCapacity
    BY DEF LeafCanMerge, N
  <2>2. Count(leaf) \in Nat /\ Count(leaf) + Cardinality(EmptyBitSet(leaf)) = LeafCapacity
    BY LeafSets
  <2>3. Cardinality(EmptyBitSet(leaf)) \in Nat
    BY LeafSets, SlotsFinite
  <2> QED
    BY <1>1, <1>7, <2>1, <2>2, <2>3, LeafCapacityAssumption
<1>14. /\ new \in LeafOf(K, V)
       /\ Distinct(leaf) /\ DistinctRecs(recs) /\ KeysOf(leaf) \cap KeysIn(recs) = {} => Distinct(new)
       /\ KeysOf(new) = KeysOf(leaf) \cup KeysIn(recs)
       /\ \A k, v : Has(new, k, v) <=> Has(leaf, k, v) \/ InRecs(recs, k, v)
  BY <1>7, <1>13, FillIs DEF new
<1> QED
  BY <1>0, <1>10, <1>11, <1>12, <1>14
=============================================================================
