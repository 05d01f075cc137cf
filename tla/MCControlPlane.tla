--------------------------- MODULE MCControlPlane ---------------------------
(***************************************************************************)
(* ControlPlane on small fleets.                                           *)
(***************************************************************************)
EXTENDS ControlPlane

CONSTANTS
    s1,             \* the session every request is about
    Slots           \* capacity of every runner

MCTotal == [r \in Runners |-> Slots]

MCTarget == [q \in Requests |-> s1]

\* every runner can take every session
MCEligible == [s \in Sessions |-> Runners]

\* the others require a capability only runner 2 holds; the checkpoints are there
MCPinned == [s \in Sessions |-> IF s = s1 THEN Runners ELSE {2}]

\* no checkpoint is cached anywhere
MCUncached == [s \in Sessions |-> {}]

MCCached == [s \in Sessions |-> {2}]

(* Later stretches of a run, with nothing in flight: what has been used up *)
(* before is a connection that was closed, a request that was answered, a  *)
(* placement that was taken back.                                          *)

Orders == {o \in [1 .. 2 -> Sessions] : o[1] # o[2]}
Closed == [IdleConn EXCEPT !.pc = "closed"]
Quiet ==
    /\ cmds = {} /\ inbox = {} /\ orphans = {} /\ reports = 0
    /\ pipe = [r \in Runners |-> <<>>]
    /\ sched = IdleSched
    /\ create = [s \in Sessions |-> [g \in Gens |-> IF g = 2 THEN [IdleCreate EXCEPT !.pc = "done"] ELSE IdleCreate]]

\* s1 was created and placed on runner 1, and runs there; runner 2 does not
\* come back, and the other sessions were never placed
Settled ==
    /\ Quiet
    /\ row = [s \in Sessions |-> IF s = s1 THEN [state |-> "running", runner |-> 1, gen |-> 2]
                                 ELSE [state |-> "canceled", runner |-> NoRunner, gen |-> 1]]
    /\ opened = [s \in Sessions |-> [g \in Gens |-> IF s = s1 /\ g = 2 THEN 1 ELSE NoRunner]]
    /\ host = [r \in Runners |-> IF r = 1 THEN [gen |-> 1, connected |-> TRUE, holds |-> [s \in {s1} |-> 2]]
                                  ELSE [gen |-> MaxConn, connected |-> FALSE, holds |-> <<>>]]
    /\ live = [r \in Runners |-> IF r = 1 THEN 1 ELSE 0]
    /\ box = [r \in Runners |-> [s \in Sessions |-> IF r = 1 /\ s = s1 THEN [state |-> "running", gen |-> 2]
                                                                    ELSE NoSandbox]]
    /\ order \in Orders /\ order[1] = s1
    /\ req = [q \in Requests |-> IdleReq]
    /\ conn = [r \in Runners |-> [c \in Conns |-> IF r # 1 THEN Closed
                                                  ELSE IF c = 1 THEN [IdleConn EXCEPT !.pc = "serving"] ELSE IdleConn]]

\* every session was placed once, on a runner that was gone before the create was sent
Requeued ==
    /\ Quiet
    /\ row = [s \in Sessions |-> [state |-> "queued", runner |-> NoRunner, gen |-> 2]]
    /\ opened = [s \in Sessions |-> [g \in Gens |-> IF g # 2 THEN NoRunner ELSE IF s = s1 THEN 1 ELSE 2]]
    /\ host = [r \in Runners |-> [gen |-> 1, connected |-> FALSE, holds |-> <<>>]]
    /\ live = [r \in Runners |-> 0]
    /\ box = [r \in Runners |-> [s \in Sessions |-> NoSandbox]]
    /\ order \in Orders
    /\ req = [q \in Requests |-> [IdleReq EXCEPT !.pc = "done"]]
    /\ conn = [r \in Runners |-> [c \in Conns |-> IF c = 1 THEN Closed ELSE IdleConn]]

LaterSpec == (Settled \/ Requeued) /\ [][Next]_vars /\ Fairness
=============================================================================
