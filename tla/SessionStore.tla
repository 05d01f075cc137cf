---------------------------- MODULE SessionStore ----------------------------
(***************************************************************************)
(* The session rows of the control plane's repository, and the single      *)
(* guarded statement every component moves them with.                      *)
(*                                                                         *)
(* A row is the lifecycle state of a session, the runner its sandbox was   *)
(* placed on, and the placement generation.  Transition is one UPDATE      *)
(* statement: the guard and the columns move together or not at all, and   *)
(* the generation advances exactly when the statement names a runner.      *)
(*                                                                         *)
(* Left out: names, creators, specs, timestamps and the recorded events,   *)
(* which no property here tells apart.                                     *)
(***************************************************************************)
EXTENDS Integers

CONSTANTS
    Sessions,       \* session identities
    Runners,        \* runner identities, ordered: pickRunner breaks ties by id
    MaxGen          \* bound on placement generations explored

ASSUME RunnersAssumption == Runners \subseteq (Nat \ {0})
ASSUME MaxGenAssumption == MaxGen \in Nat \ {0}

VARIABLES
    row,            \* row[s]: the stored session row
    opened          \* history: opened[s][g] is the runner generation g of s was opened for

NoRunner == 0
Keep == -1          \* a nil RunnerID option: the runner column is left alone
AnyGen == -1        \* a nil ExpectedPlacementGeneration option

Gens == 0 .. MaxGen

Terminal == {"canceled", "failed", "dead", "destroyed"}

NonTerminal == {"queued", "creating", "resuming", "running", "suspended_warm", "suspended_cold"}

\* "absent" is a session nobody has created yet
SessionState == Terminal \cup NonTerminal \cup {"absent"}

Row == [state : SessionState, runner : Runners \cup {NoRunner}, gen : Gens]

NoRow == [state |-> "absent", runner |-> NoRunner, gen |-> 0]

StoreInit ==
    /\ row = [s \in Sessions |-> NoRow]
    /\ opened = [s \in Sessions |-> [g \in Gens |-> NoRunner]]

-----------------------------------------------------------------------------
\* the WHERE clause of Transition
Matches(s, from, expected) ==
    /\ row[s].state \in from
    /\ expected = AnyGen \/ row[s].gen = expected

\* mutant: every transition opens a generation, not only one that names a runner
MovedAlwaysOpens(old, to, runner) ==
    [state  |-> to,
     runner |-> IF runner = Keep THEN old.runner ELSE runner,
     gen    |-> old.gen + 1]

\* the row the SET clause leaves
Moved(old, to, runner) ==
    [state  |-> to,
     runner |-> IF runner = Keep THEN old.runner ELSE runner,
     gen    |-> IF runner \in Runners THEN old.gen + 1 ELSE old.gen]

\* a transition that names a runner is explored while the generation bound allows it
MayOpen(s) == row[s].gen < MaxGen

\* Transition where it matches; the caller decides what a miss means
Apply(s, to, runner) ==
    /\ runner \in Runners => MayOpen(s)
    /\ row' = [row EXCEPT ![s] = Moved(row[s], to, runner)]
    /\ opened' = IF runner \in Runners
                 THEN [opened EXCEPT ![s][row[s].gen + 1] = runner]
                 ELSE opened

\* transitionQuiet: ErrConflict and ErrNotFound are swallowed
Transition(s, from, to, runner, expected) ==
    IF Matches(s, from, expected) THEN Apply(s, to, runner)
                                  ELSE UNCHANGED <<row, opened>>

\* CreateSession stores a queued row at generation 1, placed nowhere
Insert(s) ==
    /\ row[s].state = "absent"
    /\ row' = [row EXCEPT ![s] = [state |-> "queued", runner |-> NoRunner, gen |-> 1]]
    /\ UNCHANGED opened

StoreTypeOK ==
    /\ row \in [Sessions -> Row]
    /\ opened \in [Sessions -> [Gens -> Runners \cup {NoRunner}]]
=============================================================================
