------------------------------- MODULE KVMap -------------------------------
(***************************************************************************)
(* What SPTree promises its callers: an atomic map from keys to values.    *)
(* A call is invoked, takes effect at one instant between its invocation   *)
(* and its return, and returns what the map held at that instant.  A       *)
(* detailed specification that implements this one is linearizable.        *)
(***************************************************************************)
EXTENDS Naturals

CONSTANTS Threads,
          Keys,
          Vals,         \* the TIDs that are stored
          Absent,       \* the TID that means "no value"
          Calls         \* the calls: records with a name, a key and a val

VARIABLES store,        \* the map; absent keys map to Absent
          phase,        \* "idle", "pending" or "returning", for every thread
          call,         \* the call of a thread that is not idle
          res           \* the result of a thread that is returning

kvVars == <<store, phase, call, res>>

(* A call is an "insert", a "remove", a "lookup" or a "scan".  lookup       *)
(* returns a value, insert always true, remove whether the key was there;   *)
(* booleans are 1 and 0, as they are in the code.  A scan is no atomic      *)
(* operation of the map: only the size of its result is bounded here.       *)

Init ==
    /\ store \in [Keys -> Vals \cup {Absent}]
    /\ phase = [t \in Threads |-> "idle"]
    /\ call \in [Threads -> Calls]
    /\ res = [t \in Threads |-> Absent]

Invoke(t) ==
    /\ phase[t] = "idle"
    /\ phase' = [phase EXCEPT ![t] = "pending"]
    /\ \E c \in Calls : call' = [call EXCEPT ![t] = c]
    /\ UNCHANGED <<store, res>>

Effect(t, newStore, result) ==
    /\ phase[t] = "pending"
    /\ phase' = [phase EXCEPT ![t] = "returning"]
    /\ store' = newStore
    /\ res' = [res EXCEPT ![t] = result]
    /\ call' = call

Insert(t) ==
    /\ call[t].name = "insert"
    /\ Effect(t, [store EXCEPT ![call[t].key] = call[t].val], 1)

Remove(t) ==
    /\ call[t].name = "remove"
    /\ Effect(t, [store EXCEPT ![call[t].key] = Absent],
              IF store[call[t].key] = Absent THEN 0 ELSE 1)

Lookup(t) ==
    /\ call[t].name = "lookup"
    /\ Effect(t, store, store[call[t].key])

Scan(t) ==
    /\ call[t].name = "scan"
    /\ \E n \in 0 .. call[t].val : Effect(t, store, n)

Return(t) ==
    /\ phase[t] = "returning"
    /\ phase' = [phase EXCEPT ![t] = "idle"]
    /\ res' = [res EXCEPT ![t] = Absent]
    /\ UNCHANGED <<store, call>>

Next == \E t \in Threads :
            Invoke(t) \/ Insert(t) \/ Remove(t) \/ Lookup(t) \/ Scan(t) \/ Return(t)

Spec == Init /\ [][Next]_kvVars
=============================================================================
