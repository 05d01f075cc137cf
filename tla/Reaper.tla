------------------------------- MODULE Reaper -------------------------------
(***************************************************************************)
(* The sandbox's table of reaped children.  One goroutine collects every   *)
(* child that dies, its own or an adopted orphan, numbers the outcome and  *)
(* keeps it by pid until the waiter of that pid claims it; a waiter knows  *)
(* which outcomes are older than its child by the number the table was at  *)
(* when the child was forked.  The table holds MaxUnclaimed outcomes: the  *)
(* oldest is dropped and leaves a tombstone, which tells its waiter that   *)
(* there is nothing to wait for.                                           *)
(***************************************************************************)
EXTENDS Integers, Sequences

CONSTANTS MaxUnclaimed     \* maxUnclaimed: outcomes, and tombstones, kept

ASSUME ReaperAssumption == MaxUnclaimed \in Nat \ {0}

\* codes and tombs in the order they were recorded
EmptyTable == [seq |-> 0, codes |-> <<>>, tombs |-> <<>>]

Held(q, p) == \E i \in 1 .. Len(q) : q[i].pid = p
Place(q, p) == CHOOSE i \in 1 .. Len(q) : q[i].pid = p
Entry(q, p) == q[Place(q, p)]

\* a pid has one place in the order: it is taken out of it
Without(q, p) == IF Held(q, p) THEN [i \in 1 .. Len(q) - 1 |-> IF i < Place(q, p) THEN q[i] ELSE q[i + 1]] ELSE q

Mark(t) == t.seq

\* tombs at its bound forgets the oldest
Entomb(q, x) ==
    LET kept == IF Held(q, x.pid) THEN [i \in DOMAIN q |-> IF q[i].pid = x.pid THEN x ELSE q[i]] ELSE Append(q, x)
    IN IF Len(kept) > MaxUnclaimed THEN Tail(kept) ELSE kept

(* An outcome of pid p, of process `of', is recorded.  A record of the     *)
(* same pid is overwritten in its place.                                   *)
Remember(t, p, of) ==
    LET r     == [pid |-> p, seq |-> t.seq + 1, of |-> of]
        codes == IF Held(t.codes, p) THEN [i \in DOMAIN t.codes |-> IF t.codes[i].pid = p THEN r ELSE t.codes[i]]
                 ELSE Append(t.codes, r)
        tombs == Without(t.tombs, p)
    IN IF Len(codes) > MaxUnclaimed
       THEN [seq |-> t.seq + 1, codes |-> Tail(codes),
             tombs |-> Entomb(tombs, [pid |-> codes[1].pid, seq |-> codes[1].seq])]
       ELSE [seq |-> t.seq + 1, codes |-> codes, tombs |-> tombs]

AwaitStatusBlind(t, p, mark) ==
    LET fresh(q) == Held(q, p) /\ Entry(q, p).seq > mark
        claimed  == [t EXCEPT !.codes = Without(@, p)]
    IN IF fresh(t.codes) THEN [found |-> Entry(t.codes, p).of, table |-> claimed]
       ELSE [found |-> "wait", table |-> claimed]

(* What a waiter for pid p, forked at mark, finds: the process whose       *)
(* outcome it is given, "evicted", or "wait"; and the table afterwards.    *)
(* What is older than the child is dropped on the way.                     *)
AwaitStatus(t, p, mark) ==
    LET fresh(q) == Held(q, p) /\ Entry(q, p).seq > mark
        claimed  == [t EXCEPT !.codes = Without(@, p)]
        cleared  == [claimed EXCEPT !.tombs = Without(@, p)]
    IN CASE fresh(t.codes) -> [found |-> Entry(t.codes, p).of, table |-> claimed]
         [] ~fresh(t.codes) /\ fresh(t.tombs) -> [found |-> "evicted", table |-> cleared]
         [] OTHER -> [found |-> "wait", table |-> cleared]
=============================================================================
