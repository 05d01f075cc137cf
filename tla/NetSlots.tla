------------------------------ MODULE NetSlots ------------------------------
(***************************************************************************)
(* The network slots of a runner host: a pool of indices, and the network  *)
(* namespaces that stand on the host.  The pool lives in the memory of the *)
(* runner, the namespaces outlive it.                                      *)
(*                                                                         *)
(* Each operator is one critical section of the pool, or one stretch of    *)
(* host work between two of them.  A namespace stands for everything       *)
(* `setup` builds with it (veth pair, tap, addresses, routes, firewall).   *)
(***************************************************************************)
EXTENDS Integers, FiniteSets, FiniteSetsExt

CONSTANTS
    Keys,           \* instance ids, positive
    SlotCount       \* size of the pool

ASSUME PoolAssumption == Keys \subseteq Nat \ {0} /\ SlotCount \in Nat \ {0}

VARIABLES
    inUse,          \* inUse[i]: the key that holds index i
    leaked,         \* indices to finish tearing down before they are used again
    foreign,        \* indices whose namespace this runner did not create
    netns           \* netns[i]: the key the namespace of index i was built for

pool == <<inUse, leaked, foreign>>
net == <<inUse, leaked, foreign, netns>>

Slots == 1 .. SlotCount
Nobody == 0         \* the index is free; no namespace
Taken == -1         \* the index is held by an allocation that has not finished

PoolTypeOK ==
    /\ inUse \in [Slots -> Keys \cup {Nobody, Taken}]
    /\ leaked \subseteq Slots /\ foreign \subseteq Slots
    /\ netns \in [Slots -> Keys \cup {Nobody}]

InitPool ==
    /\ inUse = [i \in Slots |-> Nobody] /\ leaked = {} /\ foreign = {}
    /\ netns = [i \in Slots |-> Nobody]

\* take: a clean index first, then one that needs finishing; 0 when there is none
Candidate ==
    LET clean == {i \in Slots \ (leaked \cup foreign) : inUse[i] = Nobody}
        dirty == {i \in leaked : inUse[i] = Nobody}
    IN  IF clean # {} THEN Min(clean) ELSE IF dirty # {} THEN Min(dirty) ELSE 0

Take(i) == inUse' = [inUse EXCEPT ![i] = Taken] /\ UNCHANGED <<leaked, foreign, netns>>

GiveBack(i, isLeaked) ==
    /\ inUse' = [inUse EXCEPT ![i] = Nobody]
    /\ leaked' = IF isLeaked THEN leaked \cup {i} ELSE leaked \ {i}
    /\ UNCHANGED foreign

\* the namespace goes last: it stands until everything else of the slot is gone
Teardown(i) == netns' = [netns EXCEPT ![i] = Nobody]

\* allocateOnce after take: what a leaked index still has is torn down, the slot is built, the key holds it
Built(i, key) ==
    /\ i \in leaked \/ netns[i] = Nobody
    /\ inUse' = [inUse EXCEPT ![i] = key]
    /\ netns' = [netns EXCEPT ![i] = key]
    /\ UNCHANGED <<leaked, foreign>>

\* AddNetns finds a namespace nobody here put there: the index is retired and another one tried
Retired(i) ==
    /\ i \notin leaked /\ netns[i] # Nobody
    /\ inUse' = [inUse EXCEPT ![i] = Nobody]
    /\ foreign' = foreign \cup {i}
    /\ UNCHANGED <<leaked, netns>>

\* the host refuses a step of the setup; its teardown works, or fails too
BuildFails(i, key) ==
    \/ GiveBack(i, FALSE) /\ Teardown(i)
    \/ /\ GiveBack(i, TRUE)
       /\ netns' = IF i \in leaked THEN netns ELSE [netns EXCEPT ![i] = key]

\* Release starts with this check, outside of which another key may hold the index
Mine(i, key) == inUse[i] \in {Nobody, key}

TornDown(i) == Teardown(i) /\ GiveBack(i, FALSE)
TeardownFails(i) == GiveBack(i, TRUE) /\ UNCHANGED netns

\* Adopt, by a fresh pool: one record per index, the lowest id first
Adopted(claim) ==
    [i \in Slots |-> LET ks == {k \in Keys : claim[k] = i} IN IF ks = {} THEN Nobody ELSE Min(ks)]

\* Reclaim: whatever stands and nobody adopted is torn down, but for the indices in failed
Reclaimed(held, failed) ==
    [i \in Slots |-> IF held[i] = Nobody /\ i \notin failed THEN Nobody ELSE netns[i]]
=============================================================================
