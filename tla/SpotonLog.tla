----------------------------- MODULE SpotonLog -----------------------------
(***************************************************************************)
(* The log of one thread (src/spoton_log.h, spoton_log.cc): nodes of a     *)
(* 16-byte header, the data and their size once more, one behind the other *)
(* after the log's meta data.  The size in the header leads a walk from    *)
(* the head to the tail, the one behind the data a walk back.              *)
(*                                                                         *)
(* A log is its tail and the nodes by offset; memory that was never        *)
(* written holds no valid type.  The callers here append key and value     *)
(* with a null ptr_, so there is no list of nodes to follow.               *)
(***************************************************************************)
EXTENDS Integers

kLogMetaOffset == 256     \* sizeof (PmemLogMeta_t)
kLogNodeSize == 16        \* sizeof (LogNode_t)
kLogNodeValid == 16
kLogNodeFail == 19

\* SetData with a fixed key and value.
LogNode(type, key) == [type |-> type, size |-> 16, key |-> key]
GetSize(n) == kLogNodeSize + n.size + 1

CreateLog == [tail |-> kLogMetaOffset, at |-> [off \in {} |-> 0]]

\* The tail moves first, then the node is written where it was.
LogAppend(l, type, key) ==
    LET n == LogNode(type, key)
    IN [tail |-> l.tail + GetSize(n),
        at |-> [off \in DOMAIN l.at \cup {l.tail} |-> IF off = l.tail THEN n ELSE l.at[off]]]

\* The iterator: Valid, ++, -- and the two places it starts from.
LogValid(l, off) ==
    /\ off >= kLogMetaOffset /\ off \in DOMAIN l.at
    /\ l.at[off].type >= kLogNodeValid /\ l.at[off].type < kLogNodeFail
LogNext(l, off) == off + GetSize(l.at[off])
LogBack(l, off) == off - GetSize(l.at[off])
LogBegin == kLogMetaOffset
SizeBehind(l, off) ==
    LET ends == {o \in DOMAIN l.at : LogNext(l, o) = off}
    IN IF ends = {} THEN 0 ELSE l.at[CHOOSE o \in ends : TRUE].size
LogRBegin(l) == l.tail - kLogNodeSize - SizeBehind(l, l.tail) - 1

\* What the two walks meet.
KeysForward(l) ==
    LET met[off \in 0..l.tail] ==
          IF LogValid(l, off) THEN {l.at[off].key} \cup met[LogNext(l, off)] ELSE {}
    IN met[LogBegin]
KeysBack(l) ==
    LET met[off \in 0..l.tail] ==
          IF LogValid(l, off) THEN {l.at[off].key} \cup met[LogBack(l, off)] ELSE {}
    IN met[LogRBegin(l)]
=============================================================================
