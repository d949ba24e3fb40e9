-------------------------------- MODULE Epoche --------------------------------
(***************************************************************************)
(* Deferred freeing of the tree's nodes (spoton-tree/Epoche.h and          *)
(* Epoche.cpp).  A call stores the current epoch in its thread's entry     *)
(* before it reads the tree and clears the entry when it ends.  A node     *)
(* that was taken out of the tree goes into the thread's list of labels,   *)
(* stamped with the epoch, and is freed once every entry is younger.       *)
(* The atomics are sequentially consistent here.                           *)
(***************************************************************************)
EXTENDS Integers, FiniteSets, FiniteSetsExt

CONSTANTS
    Threads,
    EpochStep,   \* stands for 64: the epoch advances when the counter is 1 modulo it
    GCThreshold, \* stands for 256, startGCThreshhold
    LabelSize    \* stands for 32, the nodes of a label

VARIABLES
    currentEpoche,
    localEpoche,  \* thread -> epoch or Never
    labels,       \* thread -> the labels of its deletion list
    counter,      \* thread -> thresholdCounter
    freed         \* nodes given back to the allocator

epocheVars == <<currentEpoche, localEpoche, labels, counter, freed>>

ASSUME EpocheAssumption ==
    EpochStep \in Nat \ {0, 1} /\ GCThreshold \in Nat /\ LabelSize \in Nat \ {0}

\* The largest 64-bit number: larger than every epoch a run reaches.
Never == 1000

EpocheInit ==
    /\ currentEpoche = 0
    /\ localEpoche = [t \in Threads |-> Never]
    /\ labels = [t \in Threads |-> {}]
    /\ counter = [t \in Threads |-> 0]
    /\ freed = {}

\* The second half of enterEpoche; the first loads the epoch.
EnterEpoche(t, epoch) ==
    /\ localEpoche' = [localEpoche EXCEPT ![t] = epoch]
    /\ UNCHANGED <<currentEpoche, labels, counter, freed>>

\* Only the head of the list has room.  When it has none a new label is put in front; a label's
\* epoch is that of its last node.
Add(list, n) ==
    LET head == {l \in list : Cardinality(l.nodes) < LabelSize}
    IN (list \ head) \cup {[nodes |-> {n} \cup UNION {l.nodes : l \in head}, epoche |-> currentEpoche]}

MarkForDeletion(t, n) ==
    /\ labels' = [labels EXCEPT ![t] = Add(@, n)]
    /\ counter' = [counter EXCEPT ![t] = @ + 1]
    /\ UNCHANGED <<currentEpoche, localEpoche, freed>>

Oldest_Own(t) == localEpoche[t]   \* mutant
Oldest(t) == Min({Never} \cup {localEpoche[u] : u \in Threads \ {t}})

\* Cleanup of a call that writes, then the end of its ThreadInfo.
ExitEpocheAndCleanup(t) ==
    LET old == {l \in labels[t] : l.epoche < Oldest(t)}
    IN /\ currentEpoche' = currentEpoche + (IF counter[t] % EpochStep = 1 THEN 1 ELSE 0)
       /\ localEpoche' = [localEpoche EXCEPT ![t] = Never]
       /\ IF counter[t] > GCThreshold
          THEN /\ counter' = [counter EXCEPT ![t] = 0]
               /\ labels' = [labels EXCEPT ![t] = @ \ old]
               /\ freed' = freed \cup UNION {l.nodes : l \in old}
          ELSE UNCHANGED <<counter, labels, freed>>

\* A call that only reads ends with its ThreadInfo.
LeaveEpoche(t) ==
    /\ localEpoche' = [localEpoche EXCEPT ![t] = Never]
    /\ UNCHANGED <<currentEpoche, labels, counter, freed>>
===============================================================================
