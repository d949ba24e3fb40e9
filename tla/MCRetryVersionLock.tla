------------------------- MODULE MCRetryVersionLock -------------------------
(* RetryVersionLock for TLC: the threads are interchangeable. *)
EXTENDS RetryVersionLock, TLC

ThreadSymmetry == Permutations(Threads)
=============================================================================
