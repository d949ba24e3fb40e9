-------------------------- MODULE MCSPTreeRestart --------------------------
(* A leaf of four slots that starts full: a new key below the median splits *)
(* it, removing a key of the left half merges it again, and the keys of the *)
(* right half fill its buffer and flush it.                                 *)
EXTENDS SPTreeRestart, TLC

CONSTANTS t1, t2

MCKeys      == 1 .. 6
MCValsOf(k) == {10 * k + 1, 10 * k + 2}
MCCalls     == {<<"insert", 1, 11>>, <<"insert", 4, 41>>, <<"insert", 4, 42>>,
                <<"insert", 5, 52>>, <<"remove", 2, NoVal>>}
MCLoaded    == [i \in 1 .. 4 |-> Rec(i + 1, 10 * (i + 1) + 1)]

Symmetry    == Permutations(Threads)
=============================================================================
