----------------------------- MODULE RunnerLink -----------------------------
(***************************************************************************)
(* One control connection per runner, and what the runner at its far end   *)
(* does with the commands it carries.                                      *)
(*                                                                         *)
(* The plane's half (runnerplane): which connection is installed for a     *)
(* runner, a dispatch that waits for the result carrying its request id,   *)
(* and the ordered stream of results and events coming back, each stamped  *)
(* with the runner's occupancy when it was written.                        *)
(*                                                                         *)
(* The runner's half (runnerd's agent): a goroutine per command, so        *)
(* commands take effect in any order.  A create, a suspend and a destroy   *)
(* run under the agent's context and outlive the connection that carried   *)
(* them; a resume and a resume_status run under the connection's.  The     *)
(* sandbox registry is reduced to one state per session; its idle-stop,    *)
(* hub and teardown bookkeeping is the subject of RunnerRegistry.          *)
(***************************************************************************)
EXTENDS SessionStore, Sequences, FiniteSets

CONSTANTS
    Total,          \* Total[r]: capacity slots of runner r
    MaxConn,        \* bound on connections explored per runner
    QueueCap,       \* bound on the runner's outbound queue; the agent drops past it
    MaxReports,     \* bound on what sandboxes do of their own accord
    Timeouts        \* whether a dispatch may time out while its answer is still to come

ASSUME LinkAssumption ==
    /\ Total \in [Runners -> Nat]
    /\ MaxConn \in Nat
    /\ QueueCap \in Nat \ {0}
    /\ MaxReports \in Nat
    /\ Timeouts \in BOOLEAN

VARIABLES
    host,           \* host[r]: the fleet repository's runner row
    live,           \* live[r]: the connection installed for r, 0 when none
    box,            \* box[r][s]: the sandbox r's registry holds for s
    cmds,           \* commands handed to a connection and not finished by the runner
    pipe,           \* pipe[r]: messages r wrote to its live connection, oldest first
    inbox,          \* results the plane has delivered to a waiting dispatch
    reports         \* how many times a sandbox has acted of its own accord

linkVars == <<host, live, box, cmds, pipe, inbox, reports>>

Conns == 1 .. MaxConn

\* "unresolved" is a resume that failed and could not be observed to have failed:
\* the registry keeps saying "resuming" with no resume pending
SandboxState == {"none", "starting", "running", "suspended_warm", "suspended_cold",
                 "resuming", "unresolved"}

Sandbox == [state : SandboxState, gen : Gens]

NoSandbox == [state |-> "none", gen |-> 0]

\* sandboxes that hold a slot: a stopped container or VM does not
SlotStates == {"starting", "running", "suspended_warm", "resuming", "unresolved"}

Occupies(r, s) == box[r][s].state \in SlotStates

\* stampCapacity: CapacityUsed is the number of entries, CapacityPlacements their generations
Stamp(r) == [s \in {t \in Sessions : Occupies(r, t)} |-> box[r][s].gen]

LinkInit ==
    /\ host = [r \in Runners |-> [gen |-> 0, connected |-> FALSE, holds |-> <<>>]]
    /\ live = [r \in Runners |-> 0]
    /\ box = [r \in Runners |-> [s \in Sessions |-> NoSandbox]]
    /\ cmds = {}
    /\ pipe = [r \in Runners |-> <<>>]
    /\ inbox = {}
    /\ reports = 0

-----------------------------------------------------------------------------
(* The plane's half: transport.Dispatch and what can answer it.            *)

Connected(r) == r \in Runners /\ live[r] # 0

\* enqueue on the installed connection; the caller then awaits this id
Enqueue(id, r, type, s, gen) ==
    cmds' = cmds \cup {[id |-> id, r |-> r, conn |-> live[r], type |-> type,
                        s |-> s, gen |-> gen, phase |-> "sent"]}

Answer(id) == {m \in inbox : m.id = id}

\* an answer to this id may still reach the plane on the connection it was sent on
Answerable(id) ==
    \/ \E cmd \in cmds : cmd.id = id /\ live[cmd.r] = cmd.conn
    \/ \E r \in Runners : \E i \in 1 .. Len(pipe[r]) : pipe[r][i].id = id

\* awaitAnswer takes an answer that raced in before it reports the connection
\* closed or its timeout passed; the entry in the pending table goes either way
GotAnswer(id, m) == m \in Answer(id) /\ inbox' = inbox \ {m}
NoAnswer(id) == Answer(id) = {} /\ (Timeouts \/ ~Answerable(id)) /\ UNCHANGED inbox

-----------------------------------------------------------------------------
(* The runner's half.                                                      *)

\* send: queued for the connection it belongs to, dropped when that one is gone or full
Sent(queues, c, r, m) ==
    IF live[r] = c /\ c # 0 /\ Len(queues[r]) < QueueCap
    THEN [queues EXCEPT ![r] = Append(@, m)] ELSE queues

Result(cmd, ok, state, gen, stamp) ==
    [kind |-> "result", id |-> cmd.id, ok |-> ok, s |-> cmd.s, state |-> state, gen |-> gen, holds |-> stamp]

Event(s, state, gen, stamp) ==
    [kind |-> "event", id |-> <<>>, ok |-> TRUE, s |-> s, state |-> state, gen |-> gen, holds |-> stamp]

StampAfter(r, s, sb) ==
    LET boxes == [box[r] EXCEPT ![s] = sb]
        held  == {t \in Sessions : boxes[t].state \in SlotStates}
    IN  [t \in held |-> boxes[t].gen]

\* a command that finishes leaves the sandbox sb and answers ok
Finish(cmd, sb, ok, state, gen) ==
    /\ box' = [box EXCEPT ![cmd.r][cmd.s] = sb]
    /\ cmds' = cmds \ {cmd}
    /\ pipe' = Sent(pipe, cmd.conn, cmd.r, Result(cmd, ok, state, gen, StampAfter(cmd.r, cmd.s, sb)))
    /\ UNCHANGED <<host, live, inbox, reports>>

Refuse(cmd) == Finish(cmd, box[cmd.r][cmd.s], FALSE, "", 0)

\* a command whose work takes time stays in cmds while it runs
Begin(cmd, sb) ==
    /\ box' = [box EXCEPT ![cmd.r][cmd.s] = sb]
    /\ cmds' = (cmds \ {cmd}) \cup {[cmd EXCEPT !.phase = "started"]}
    /\ UNCHANGED <<host, live, pipe, inbox, reports>>

\* announceState: an entry still starting or resuming is not announced
Announced(sb) == sb.state \in {"running", "suspended_warm", "suspended_cold"}

\* createWithID claims the id; an id already held is success, followed by a
\* re-announce of what the sandbox is doing
ExecCreate(cmd) ==
    LET sb == box[cmd.r][cmd.s]
        ok == Result(cmd, TRUE, "", 0, Stamp(cmd.r))
        ev == Event(cmd.s, sb.state, sb.gen, Stamp(cmd.r))
    IN  /\ cmd.type = "create" /\ cmd.phase = "sent"
        /\ \/ sb.state = "none" /\ Begin(cmd, [state |-> "starting", gen |-> cmd.gen])
           \/ /\ sb.state # "none"
              /\ cmds' = cmds \ {cmd}
              /\ pipe' = LET answered == Sent(pipe, cmd.conn, cmd.r, ok)
                         IN  IF Announced(sb) THEN Sent(answered, cmd.conn, cmd.r, ev) ELSE answered
              /\ UNCHANGED <<host, live, box, inbox, reports>>

\* the driver's Create returns: running, or an error that releases the id
ExecCreated(cmd) ==
    /\ cmd.type = "create" /\ cmd.phase = "started"
    /\ \/ /\ Cardinality({s \in Sessions : Occupies(cmd.r, s)}) <= Total[cmd.r]
          /\ Finish(cmd, [state |-> "running", gen |-> box[cmd.r][cmd.s].gen], TRUE, "", 0)
       \/ Finish(cmd, NoSandbox, FALSE, "", 0)

\* opAtPlacement, suspend: the driver pauses a running sandbox, stops any that is up
ExecSuspend(cmd) ==
    LET sb == box[cmd.r][cmd.s]
    IN  /\ cmd.phase = "sent"
        /\ \/ /\ cmd.type = "suspend_warm" /\ sb.state = "running"
              /\ Finish(cmd, [sb EXCEPT !.state = "suspended_warm"], TRUE, "", 0)
           \/ /\ cmd.type = "suspend_cold" /\ sb.state \in {"running", "suspended_warm", "suspended_cold"}
              /\ Finish(cmd, [sb EXCEPT !.state = "suspended_cold"], TRUE, "", 0)
           \/ cmd.type \in {"suspend_warm", "suspend_cold"} /\ Refuse(cmd)

\* opAtPlacement, resume: without a generation it unpauses (or restarts) the
\* sandbox; with one it claims the placement first, and only a newer one
ExecResume(cmd) ==
    LET sb == box[cmd.r][cmd.s]
        parked == sb.state \in {"suspended_warm", "suspended_cold", "unresolved"}
    IN  /\ cmd.type = "resume" /\ cmd.phase = "sent"
        /\ \/ /\ cmd.gen = 0 /\ (parked \/ sb.state = "running") /\ live[cmd.r] = cmd.conn
              /\ Finish(cmd, [sb EXCEPT !.state = "running"], TRUE, "", 0)
           \/ /\ cmd.gen > sb.gen /\ parked /\ live[cmd.r] = cmd.conn
              /\ Begin(cmd, [state |-> "resuming", gen |-> cmd.gen])
           \/ Refuse(cmd)

\* completeResumePlacement, or failResumePlacement: only an observed suspension
\* proves that a failed boot can be retried
ExecResumed(cmd) ==
    LET sb == box[cmd.r][cmd.s]
    IN  /\ cmd.type = "resume" /\ cmd.phase = "started"
        /\ IF sb = [state |-> "resuming", gen |-> cmd.gen]
           THEN \/ Finish(cmd, [sb EXCEPT !.state = "running"], TRUE, "", 0)
                \/ Finish(cmd, [sb EXCEPT !.state = "suspended_cold"], FALSE, "", 0)
                \/ Finish(cmd, [sb EXCEPT !.state = "unresolved"], FALSE, "", 0)
           ELSE Refuse(cmd)

\* mutant: the answer gives up on the resume and leaves no tombstone behind
ExecResumeStatusNoTombstone(cmd) ==
    LET sb == box[cmd.r][cmd.s]
    IN  /\ cmd.type = "resume_status" /\ cmd.phase = "sent"
        /\ IF sb.state = "suspended_cold" /\ live[cmd.r] = cmd.conn
           THEN Finish(cmd, sb, TRUE, sb.state, cmd.gen)
           ELSE Refuse(cmd)

\* resumeStatus: evidence about exactly the generation asked for.  A sandbox
\* still parked under an older one takes the new number, which cancels a
\* resume command that has not arrived
ExecResumeStatus(cmd) ==
    LET sb == box[cmd.r][cmd.s]
    IN  /\ cmd.type = "resume_status" /\ cmd.phase = "sent"
        /\ IF \/ sb.state \in {"none", "starting"}
              \/ cmd.gen < sb.gen
              \/ live[cmd.r] # cmd.conn
              \/ cmd.gen > sb.gen /\ sb.state # "suspended_cold"
           THEN Refuse(cmd)
           ELSE Finish(cmd, [sb EXCEPT !.gen = cmd.gen], TRUE,
                       IF sb.state \in {"running", "suspended_cold"} THEN sb.state ELSE "resuming", cmd.gen)

\* Delete: an absent session is success, one still starting is a conflict
ExecDestroy(cmd) ==
    /\ cmd.type = "destroy" /\ cmd.phase = "sent"
    /\ IF box[cmd.r][cmd.s].state = "starting" THEN Refuse(cmd)
       ELSE Finish(cmd, NoSandbox, TRUE, "", 0)

Execute(cmd) ==
    \/ ExecCreate(cmd)
    \/ ExecCreated(cmd)
    \/ ExecSuspend(cmd)
    \/ ExecResume(cmd)
    \/ ExecResumed(cmd)
    \/ ExecResumeStatus(cmd)
    \/ ExecDestroy(cmd)

\* a command the runner had not read when its connection went
LoseCommand(cmd) ==
    /\ cmd.phase = "sent" /\ live[cmd.r] # cmd.conn
    /\ cmds' = cmds \ {cmd}
    /\ UNCHANGED <<host, live, box, pipe, inbox, reports>>

\* what a sandbox does on its own, and the event the runner reports it with:
\* it dials in, its child dies with the container, a boot stage fails, the
\* idle sweep stops it
Report(r, s, sb, state) ==
    /\ box' = [box EXCEPT ![r][s] = sb]
    /\ pipe' = Sent(pipe, live[r], r, Event(s, state, box[r][s].gen, StampAfter(r, s, sb)))
    /\ reports < MaxReports /\ reports' = reports + 1
    /\ UNCHANGED <<host, live, cmds, inbox>>

SandboxReports(r, s) ==
    LET sb == box[r][s]
        up == sb.state \in {"starting", "running", "resuming"}
    IN  \/ up /\ live[r] # 0 /\ Report(r, s, sb, "running")
        \/ up /\ live[r] # 0 /\ Report(r, s, sb, "failed")
        \/ sb.state \in {"running", "resuming"} /\ Report(r, s, NoSandbox, "dead")
        \/ sb.state = "running" /\ Report(r, s, [sb EXCEPT !.state = "suspended_cold"], "suspended_cold")

=============================================================================
