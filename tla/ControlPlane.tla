---------------------------- MODULE ControlPlane ----------------------------
(***************************************************************************)
(* The control application over the session store and the runner link:     *)
(* the scheduler's placement pass and the create it dispatches, the API's  *)
(* delete, suspend and resume commands, and, per runner connection, the    *)
(* handler goroutine that registers, reconciles and then serves it.        *)
(*                                                                         *)
(* Every goroutine is a process of its own.  A step is one call into the   *)
(* store or the transport: nothing but the single statement Transition is  *)
(* atomic with what was read before it.                                    *)
(*                                                                         *)
(* Simplified: one pool and one workspace; the resume pass lists its rows  *)
(* one at a time, where the code lists those of a runner at once, and its  *)
(* two-minute age filter is a free choice; a store call fails only where   *)
(* that ends a goroutine or loses a generation (CreateRead,                *)
(* CreateSpecFails, Drop); a snapshot changes no row and is left out.      *)
(***************************************************************************)
EXTENDS RunnerLink

CONSTANTS
    Requests,       \* API requests explored; each makes one call
    Target,         \* Target[q]: the session request q is about
    MaxStatus,      \* bound on resume_status dispatches outstanding at once
    Eligible,       \* Eligible[s]: runners holding every capability s requires
    Cached          \* Cached[s]: runners its checkpoint can boot on

ASSUME PlaneAssumption ==
    /\ MaxStatus \in Nat
    /\ Target \in [Requests -> Sessions]
    /\ Eligible \in [Sessions -> SUBSET Runners]
    /\ Cached \in [Sessions -> SUBSET Runners]

VARIABLES
    order,          \* sessions in creation order, which OldestQueued sorts by
    sched,          \* the scheduler loop
    create,         \* create[s][g]: the dispatchCreate goroutine of placement g
    req,            \* req[q]: an API request
    conn,           \* conn[r][c]: the handler of r's connection c
    orphans         \* destroyOrphan goroutines with attempts left

ctlVars == <<order, sched, create, req, conn, orphans>>
vars == <<row, opened, linkVars, ctlVars>>

OrphanDestroyAttempts == 3

IdleSched == [pc |-> "idle", todo |-> {}, r |-> NoRunner, asked |-> 0, gen |-> 0]
IdleCreate == [pc |-> "none", r |-> NoRunner, gen |-> 0, conn |-> 0]
IdleReq == [pc |-> "idle", op |-> "none", row |-> NoRow, conn |-> 0]
NoSessions == [s \in {} |-> "absent"]
IdleConn == [pc |-> "none", snap |-> NoSessions, stored |-> NoSessions, rest |-> {}, adopting |-> {},
             destroy |-> {}, event |-> {}]

Init ==
    /\ StoreInit
    /\ LinkInit
    /\ order = <<>>
    /\ sched = IdleSched
    /\ create = [s \in Sessions |-> [g \in Gens |-> IdleCreate]]
    /\ req = [q \in Requests |-> IdleReq]
    /\ conn = [r \in Runners |-> [c \in Conns |-> IdleConn]]
    /\ orphans = {}

-----------------------------------------------------------------------------
(* What the variables hold.                                                *)

AnnouncedStates == {"running", "suspended_warm", "suspended_cold"}
PlacedStates == {"creating", "resuming", "running", "suspended_warm", "suspended_cold"}

\* the event states applyRunnerEvent translates into a transition
Vocabulary == {"running", "dead", "suspended_cold", "failed"}

Op == {"none", "destroy", "suspend_warm", "suspend_cold", "resume"}

\* maps from some of the sessions
PartialMap(S) == UNION {[D -> S] : D \in SUBSET Sessions}

RequestId ==
    ({"create"} \X Sessions \X Gens)
        \cup ({"req"} \X Requests)
        \cup ({"status"} \X (1 .. MaxStatus))
        \cup ({"orphan"} \X Runners \X Conns \X Sessions \X (1 .. OrphanDestroyAttempts))

Message == [kind : {"result", "event"}, id : RequestId \cup {<<>>}, ok : BOOLEAN, s : Sessions,
            state : SandboxState \cup {"", "dead", "failed"}, gen : Gens, holds : PartialMap(Gens)]

Command == [id : RequestId, r : Runners, conn : Conns, type : {"create", "resume_status"} \cup Op,
            s : Sessions, gen : Gens, phase : {"sent", "started"}]

PendingEvent == [s : Sessions, state : Vocabulary, gen : Gens]

LinkTypeOK ==
    /\ host \in [Runners -> [gen : 0 .. MaxConn, connected : BOOLEAN, holds : PartialMap(Gens)]]
    /\ live \in [Runners -> 0 .. MaxConn]
    /\ box \in [Runners -> [Sessions -> Sandbox]]
    /\ cmds \subseteq Command
    /\ pipe \in [Runners -> Seq(Message)]
    /\ inbox \subseteq Message
    /\ reports \in 0 .. MaxReports

SchedulerState ==
    [pc : {"idle", "resumes", "ask", "status", "queue", "place"}, todo : SUBSET Sessions,
     r : Runners \cup {NoRunner}, asked : 0 .. MaxStatus, gen : Gens]

CreateState ==
    [pc : {"none", "placed", "ready", "await", "err", "refused", "requeue", "done"},
     r : Runners \cup {NoRunner}, gen : Gens, conn : 0 .. MaxConn]

RequestState ==
    [pc : {"idle", "claim", "dispatch", "await", "commit", "cancel", "done"},
     op : Op, row : Row, conn : 0 .. MaxConn]

HandlerState ==
    [pc : {"none", "announced", "accepted", "settling", "serving", "applying", "closed"},
     snap : PartialMap(AnnouncedStates), stored : PartialMap(PlacedStates), rest : SUBSET Sessions,
     adopting : SUBSET Sessions, destroy : SUBSET Sessions, event : SUBSET PendingEvent]

OrphanState ==
    [r : Runners, c : Conns, s : Sessions, left : 1 .. OrphanDestroyAttempts, pc : {"send", "await"}]

PlaneTypeOK ==
    /\ order \in Seq(Sessions)
    /\ sched \in SchedulerState
    /\ create \in [Sessions -> [Gens -> CreateState]]
    /\ req \in [Requests -> RequestState]
    /\ conn \in [Runners -> [Conns -> HandlerState]]
    /\ \A r \in Runners, c \in Conns : conn[r][c].rest \cup conn[r][c].adopting \subseteq DOMAIN conn[r][c].snap
    /\ orphans \subseteq OrphanState

\* the type invariant: what every variable may hold
TypeOK == StoreTypeOK /\ LinkTypeOK /\ PlaneTypeOK

-----------------------------------------------------------------------------
(* Capacity and placement.                                                 *)

Pending(r) == {s \in Sessions : row[s].runner = r /\ row[s].state \in {"creating", "resuming"}}

\* AvailableRunnerSlots: a reservation already in the sample occupies one slot, not two
Free(r) ==
    LET holds == host[r].holds
        reserved == {s \in Pending(r) : ~(s \in DOMAIN holds /\ holds[s] = row[s].gen /\ row[s].gen # 0)}
    IN  Total[r] - Cardinality(DOMAIN holds) - Cardinality(reserved)

\* pickRunner: most free capacity, ties to the lowest id
Best(views) ==
    {r \in views : /\ Free(r) > 0
                   /\ \A t \in views : Free(t) < Free(r) \/ (Free(t) = Free(r) /\ r <= t)}

ConnectedRunners == {r \in Runners : host[r].connected}

\* placeQueued: a runner its checkpoint can boot on, else any eligible one
PlaceQueued(s) ==
    LET candidates == ConnectedRunners \cap Eligible[s]
        preferred == Best(candidates \cap Cached[s])
    IN  IF preferred # {} THEN preferred ELSE Best(candidates)

-----------------------------------------------------------------------------
(* API: create a session.                                                  *)

CreateSession(s) ==
    /\ Insert(s)
    /\ order' = Append(order, s)
    /\ UNCHANGED <<linkVars, sched, create, req, conn, orphans>>

-----------------------------------------------------------------------------
(* The scheduler loop (drainPool).                                         *)

\* a row at the generation bound is not explored further
Queued(s) == row[s].state = "queued" /\ MayOpen(s)

\* OldestQueued lists rows by creation
Oldest(S) ==
    {s \in S : \E i \in 1 .. Len(order) : order[i] = s /\ \A j \in 1 .. i - 1 : order[j] \notin S}

\* a wake or the safety tick starts a pass, resumes first; a pass over a pool
\* with nothing queued or resuming changes nothing and is not taken
SchedStart ==
    /\ sched.pc = "idle"
    /\ \E s \in Sessions : Queued(s) \/ row[s].state = "resuming"
    /\ sched' = [sched EXCEPT !.pc = "resumes"]
    /\ UNCHANGED <<row, opened, linkVars, order, create, req, conn, orphans>>

StatusId == <<"status", sched.asked>>

\* request ids are never reused while an answer to one may be on its way
UnusedStatus ==
    {n \in 1 .. MaxStatus :
        /\ \A cmd \in cmds : cmd.id # <<"status", n>>
        /\ \A r \in Runners : \A i \in 1 .. Len(pipe[r]) : pipe[r][i].id # <<"status", n>>}

\* reconcileResumes lists a resuming row of a connected runner
SchedList(s) ==
    /\ sched.pc = "resumes"
    /\ row[s].state = "resuming" /\ row[s].runner \in ConnectedRunners
    /\ sched' = [IdleSched EXCEPT !.pc = "ask", !.todo = {s}, !.r = row[s].runner, !.gen = row[s].gen]
    /\ UNCHANGED <<row, opened, linkVars, order, create, req, conn, orphans>>

\* and asks about exactly the generation it read
SchedAsk ==
    /\ sched.pc = "ask"
    /\ \/ /\ ~Connected(sched.r) \/ UnusedStatus = {}
          /\ sched' = [IdleSched EXCEPT !.pc = "resumes"]
          /\ UNCHANGED cmds
       \/ /\ Connected(sched.r)
          /\ \E s \in sched.todo, n \in UnusedStatus :
                /\ \A m \in UnusedStatus : n <= m
                /\ Enqueue(<<"status", n>>, sched.r, "resume_status", s, sched.gen)
                /\ sched' = [sched EXCEPT !.pc = "status", !.asked = n]
    /\ UNCHANGED <<row, opened, host, live, box, pipe, inbox, reports, order, create, req, conn, orphans>>

\* mutant: only a boot that succeeded settles the row
SchedSettleRunningOnly ==
    /\ sched.pc = "status"
    /\ \/ NoAnswer(StatusId) /\ UNCHANGED <<row, opened>>
       \/ \E m \in inbox :
            /\ GotAnswer(StatusId, m)
            /\ IF m.ok /\ m.gen = sched.gen /\ m.state = "running"
               THEN \E s \in sched.todo : Transition(s, {"resuming"}, m.state, Keep, sched.gen)
               ELSE UNCHANGED <<row, opened>>
    /\ sched' = [IdleSched EXCEPT !.pc = "resumes"]
    /\ UNCHANGED <<host, live, box, cmds, pipe, reports, order, create, req, conn, orphans>>

\* only evidence naming the row's own generation settles it
SchedSettle ==
    /\ sched.pc = "status"
    /\ \/ /\ NoAnswer(StatusId)
          /\ UNCHANGED <<row, opened>>
       \/ \E m \in inbox :
            /\ GotAnswer(StatusId, m)
            /\ IF m.ok /\ m.gen = sched.gen /\ m.state \in {"running", "suspended_cold"}
               THEN \E s \in sched.todo : Transition(s, {"resuming"}, m.state, Keep, sched.gen)
               ELSE UNCHANGED <<row, opened>>
    /\ sched' = [IdleSched EXCEPT !.pc = "resumes"]
    /\ UNCHANGED <<host, live, box, cmds, pipe, reports, order, create, req, conn, orphans>>

SchedRead ==
    LET queued == {s \in Sessions : Queued(s)}
    IN  /\ sched.pc = "resumes"
        /\ sched' = IF queued = {} THEN IdleSched
                    ELSE [IdleSched EXCEPT !.pc = "queue", !.todo = queued]
        /\ UNCHANGED <<row, opened, linkVars, order, create, req, conn, orphans>>

\* s is done with: on to the next row, or the pass is over
NextRow(s) == IF sched.todo = {s} THEN IdleSched
              ELSE [IdleSched EXCEPT !.pc = "queue", !.todo = sched.todo \ {s}]

\* mutant: a row that fits nowhere ends the pass
SchedPickBlocks ==
    /\ sched.pc = "queue"
    /\ \E s \in Oldest(sched.todo) :
         \/ PlaceQueued(s) = {} /\ sched' = IdleSched
         \/ \E r \in PlaceQueued(s) : sched' = [sched EXCEPT !.pc = "place", !.r = r]
    /\ UNCHANGED <<row, opened, linkVars, order, create, req, conn, orphans>>

\* no room anywhere ends the pass; no room for this row skips it
SchedPick ==
    /\ sched.pc = "queue"
    /\ \E s \in Oldest(sched.todo) :
         \/ Best(ConnectedRunners) = {} /\ sched' = IdleSched
         \/ Best(ConnectedRunners) # {} /\ PlaceQueued(s) = {} /\ sched' = NextRow(s)
         \/ \E r \in PlaceQueued(s) : sched' = [sched EXCEPT !.pc = "place", !.r = r]
    /\ UNCHANGED <<row, opened, linkVars, order, create, req, conn, orphans>>

\* queued -> creating naming the runner, and the create goroutine it starts
SchedPlace ==
    \E s \in Oldest(sched.todo) :
        /\ sched.pc = "place"
        /\ Transition(s, {"queued"}, "creating", sched.r, AnyGen)
        /\ create' = IF Matches(s, {"queued"}, AnyGen)
                     THEN [create EXCEPT ![s][row[s].gen + 1] = [IdleCreate EXCEPT !.pc = "placed", !.r = sched.r]]
                     ELSE create
        /\ sched' = NextRow(s)
        /\ UNCHANGED <<linkVars, order, req, conn, orphans>>

-----------------------------------------------------------------------------
(* dispatchCreate, one goroutine per placement.  Its later transitions     *)
(* carry no generation: they name the state only.                          *)

CreateStep(s, g, pc) == create' = [create EXCEPT ![s][g].pc = pc]
CreateEnds(s, g) == create' = [create EXCEPT ![s][g] = [IdleCreate EXCEPT !.pc = "done"]]

\* placedGeneration re-reads the row, whatever it holds by now; a read that
\* fails carries no generation
CreateRead(s, g) ==
    /\ create[s][g].pc = "placed"
    /\ \E gen \in {row[s].gen, 0} :
         create' = [create EXCEPT ![s][g] = [@ EXCEPT !.pc = "ready", !.gen = gen]]
    /\ UNCHANGED <<row, opened, linkVars, order, sched, req, conn, orphans>>

\* createSpec or pinSetupHash fails before anything is dispatched
CreateSpecFails(s, g) ==
    /\ create[s][g].pc = "ready"
    /\ CreateStep(s, g, "refused")
    /\ UNCHANGED <<row, opened, linkVars, order, sched, req, conn, orphans>>

\* a dispatch is refused without a connection, on a closing one, and by a full queue
CreateDispatch(s, g) ==
    LET r == create[s][g].r
    IN  /\ create[s][g].pc = "ready"
        /\ \/ /\ Connected(r)
              /\ Enqueue(<<"create", s, g>>, r, "create", s, create[s][g].gen)
              /\ create' = [create EXCEPT ![s][g].pc = "await", ![s][g].conn = live[r]]
           \/ CreateStep(s, g, "err") /\ UNCHANGED cmds
        /\ UNCHANGED <<row, opened, host, live, box, pipe, inbox, reports, order, sched, req, conn, orphans>>

\* the answer, or none: the connection closed or the wait timed out
CreateAnswer(s, g) ==
    /\ create[s][g].pc = "await"
    /\ \/ NoAnswer(<<"create", s, g>>) /\ CreateStep(s, g, "err")
       \/ \E m \in inbox : /\ GotAnswer(<<"create", s, g>>, m)
                           /\ IF m.ok THEN CreateEnds(s, g) ELSE CreateStep(s, g, "refused")
    /\ UNCHANGED <<row, opened, host, live, box, cmds, pipe, reports, order, sched, req, conn, orphans>>

\* an error on a runner that is still connected leaves the row creating
CreateUnanswered(s, g) ==
    /\ create[s][g].pc = "err"
    /\ IF Connected(create[s][g].r) THEN CreateEnds(s, g) ELSE CreateStep(s, g, "requeue")
    /\ UNCHANGED <<row, opened, linkVars, order, sched, req, conn, orphans>>

CreateRequeue(s, g) ==
    /\ create[s][g].pc = "requeue"
    /\ Transition(s, {"creating"}, "queued", NoRunner, AnyGen)
    /\ CreateEnds(s, g)
    /\ UNCHANGED <<linkVars, order, sched, req, conn, orphans>>

FailCreate(s, g) ==
    /\ create[s][g].pc = "refused"
    /\ Transition(s, {"creating"}, "failed", Keep, AnyGen)
    /\ CreateEnds(s, g)
    /\ UNCHANGED <<linkVars, order, sched, req, conn, orphans>>

-----------------------------------------------------------------------------
(* API: delete, suspend, resume.                                           *)

ReqStep(q, pc) == req' = [req EXCEPT ![q].pc = pc]
ReqEnds(q) == req' = [req EXCEPT ![q] = [IdleReq EXCEPT !.pc = "done"]]

ReqRead(q, op, pc) ==
    req' = [req EXCEPT ![q] = [pc |-> pc, op |-> op, row |-> row[Target[q]], conn |-> 0]]

\* a delete of a creating row is refused and of a gone one is done already
DeleteSession(q) ==
    LET x == row[Target[q]]
    IN  /\ req[q].pc = "idle"
        /\ x.state \notin {"absent", "creating"} \cup (Terminal \ {"failed"})
        /\ ReqRead(q, "destroy", IF x.state = "queued" THEN "cancel"
                                 ELSE IF Connected(x.runner) THEN "dispatch" ELSE "commit")
        /\ UNCHANGED <<row, opened, linkVars, order, sched, create, conn, orphans>>

SuspendSession(q) ==
    /\ req[q].pc = "idle"
    /\ row[Target[q]].state = "running"
    /\ \E op \in {"suspend_warm", "suspend_cold"} : ReqRead(q, op, "dispatch")
    /\ UNCHANGED <<row, opened, linkVars, order, sched, create, conn, orphans>>

\* a cold resume must find a slot on the runner holding the volume
ResumeSession(q) ==
    LET x == row[Target[q]]
    IN  /\ req[q].pc = "idle"
        /\ \/ x.state = "suspended_warm" /\ ReqRead(q, "resume", "dispatch")
           \/ /\ x.state = "suspended_cold" /\ x.runner \in Runners
              /\ Free(x.runner) > 0 /\ Connected(x.runner)
              /\ ReqRead(q, "resume", "claim")
        /\ UNCHANGED <<row, opened, linkVars, order, sched, create, conn, orphans>>

\* resumeCold opens the new placement generation before any side effect
ReqClaim(q) ==
    LET s == Target[q]
        x == req[q].row
    IN  /\ req[q].pc = "claim"
        /\ Transition(s, {"suspended_cold"}, "resuming", x.runner, x.gen)
        /\ IF Matches(s, {"suspended_cold"}, x.gen)
           THEN req' = [req EXCEPT ![q].pc = "dispatch", ![q].row = Moved(row[s], "resuming", x.runner)]
           ELSE ReqEnds(q)
        /\ UNCHANGED <<linkVars, order, sched, create, conn, orphans>>

ReqDispatch(q) ==
    LET x == req[q].row
        gen == IF x.state = "resuming" /\ req[q].op = "resume" THEN x.gen ELSE 0
    IN  /\ req[q].pc = "dispatch"
        /\ \/ /\ Connected(x.runner)
              /\ Enqueue(<<"req", q>>, x.runner, req[q].op, Target[q], gen)
              /\ req' = [req EXCEPT ![q].pc = "await", ![q].conn = live[x.runner]]
           \/ ReqEnds(q) /\ UNCHANGED cmds
        /\ UNCHANGED <<row, opened, host, live, box, pipe, inbox, reports, order, sched, create, conn, orphans>>

\* no answer and a refusal both leave the row as it is, a resume claim included
ReqAnswer(q) ==
    /\ req[q].pc = "await"
    /\ \/ NoAnswer(<<"req", q>>) /\ ReqEnds(q)
       \/ \E m \in inbox : /\ GotAnswer(<<"req", q>>, m)
                           /\ IF m.ok THEN ReqStep(q, "commit") ELSE ReqEnds(q)
    /\ UNCHANGED <<row, opened, host, live, box, cmds, pipe, reports, order, sched, create, conn, orphans>>

\* the transition each command commits once its runner has answered; only a
\* cold resume carries the generation it claimed
ReqCommit(q) ==
    LET s == Target[q]
        x == req[q].row
        op == req[q].op
    IN  /\ \/ /\ req[q].pc = "cancel"
              /\ Transition(s, {"queued"}, "canceled", Keep, AnyGen)
           \/ /\ req[q].pc = "commit" /\ op = "destroy"
              /\ Transition(s, IF x.state = "failed" THEN {"failed"} ELSE NonTerminal,
                            "destroyed", Keep, AnyGen)
           \/ /\ req[q].pc = "commit" /\ op = "suspend_warm"
              /\ Transition(s, {"running"}, "suspended_warm", Keep, AnyGen)
           \/ /\ req[q].pc = "commit" /\ op = "suspend_cold"
              /\ Transition(s, {"running"}, "suspended_cold", Keep, AnyGen)
           \/ /\ req[q].pc = "commit" /\ op = "resume"
              /\ Transition(s, {x.state}, "running", Keep, IF x.state = "resuming" THEN x.gen ELSE AnyGen)
        /\ ReqEnds(q)
        /\ UNCHANGED <<linkVars, order, sched, create, conn, orphans>>

-----------------------------------------------------------------------------
(* The handler of one runner connection: handleConnect.                    *)

AnnounceOf(r) == [s \in {t \in Sessions : Announced(box[r][t])} |-> box[r][s].state]

\* a fresh generation is minted, registered, and its connection installed in
\* place of whatever was there
Connect(r) ==
    LET c == host[r].gen + 1
    IN  /\ c \in Conns
        /\ host' = [host EXCEPT ![r] = [gen |-> c, connected |-> TRUE, holds |-> Stamp(r)]]
        /\ live' = [live EXCEPT ![r] = c]
        /\ pipe' = [pipe EXCEPT ![r] = <<>>]
        /\ conn' = [conn EXCEPT ![r][c] = [IdleConn EXCEPT !.pc = "announced", !.snap = AnnounceOf(r)]]
        /\ UNCHANGED <<row, opened, box, cmds, inbox, reports, order, sched, create, req, orphans>>

\* reconcileRunner: a snapshot older than the store's generation is fenced
ReconcileRunner(r, c) ==
    /\ conn[r][c].pc = "announced"
    /\ conn' = [conn EXCEPT ![r][c] = [@ EXCEPT !.pc = IF c < host[r].gen THEN "serving" ELSE "accepted"]]
    /\ UNCHANGED <<row, opened, linkVars, order, sched, create, req, orphans>>

SessionsOnRunner(r) == {s \in Sessions : row[s].runner = r /\ row[s].state \in PlacedStates}

\* reconcileSessions reads the rows the store places here, once
ReconcileRead(r, c) ==
    /\ conn[r][c].pc = "accepted"
    /\ conn' = [conn EXCEPT ![r][c] =
                   [@ EXCEPT !.pc = "settling",
                             !.stored = [s \in SessionsOnRunner(r) |-> row[s].state],
                             !.rest = DOMAIN conn[r][c].snap \ SessionsOnRunner(r)]]
    /\ UNCHANGED <<row, opened, linkVars, order, sched, create, req, orphans>>

\* mutant: whatever the runner did not announce goes back on the queue
SettleStoredRequeues(r, c, s) ==
    LET k == conn[r][c]
    IN  /\ k.pc = "settling" /\ s \in DOMAIN k.stored
        /\ IF s \notin DOMAIN k.snap THEN Transition(s, NonTerminal, "queued", NoRunner, AnyGen)
           ELSE Transition(s, NonTerminal, k.snap[s], Keep, AnyGen)
        /\ conn' = [conn EXCEPT ![r][c] = [@ EXCEPT !.stored = [t \in DOMAIN k.stored \ {s} |-> k.stored[t]]]]
        /\ UNCHANGED <<linkVars, order, sched, create, req, orphans>>

\* one stored row against the announce, from the state read earlier
SettleStored(r, c, s) ==
    LET k == conn[r][c]
    IN  /\ k.pc = "settling" /\ s \in DOMAIN k.stored
        /\ IF k.stored[s] = "resuming" THEN UNCHANGED <<row, opened>>
           ELSE IF s \notin DOMAIN k.snap /\ k.stored[s] = "creating"
                THEN Transition(s, {"creating"}, "queued", NoRunner, AnyGen)
           ELSE IF s \notin DOMAIN k.snap THEN Transition(s, NonTerminal, "dead", Keep, AnyGen)
           ELSE IF k.snap[s] = k.stored[s] THEN Transition(s, {k.snap[s]}, k.snap[s], Keep, AnyGen)
           ELSE Transition(s, NonTerminal, k.snap[s], Keep, AnyGen)
        /\ conn' = [conn EXCEPT ![r][c] = [@ EXCEPT !.stored = [t \in DOMAIN k.stored \ {s} |-> k.stored[t]]]]
        /\ UNCHANGED <<linkVars, order, sched, create, req, orphans>>

\* one announced session the store did not list here
SettleReported(r, c, s) ==
    LET k == conn[r][c]
        orphan == row[s].state \in Terminal \cup {"absent"} \/ row[s].runner \notin {NoRunner, r}
        adopt == ~orphan /\ row[s].runner = NoRunner
    IN  /\ k.pc = "settling" /\ DOMAIN k.stored = {} /\ k.adopting = {} /\ s \in k.rest
        /\ conn' = [conn EXCEPT ![r][c] =
                       [@ EXCEPT !.rest = k.rest \ {s},
                                 !.destroy = IF orphan THEN k.destroy \cup {s} ELSE k.destroy,
                                 !.adopting = IF adopt THEN {s} ELSE {}]]
        /\ UNCHANGED <<row, opened, linkVars, order, sched, create, req, orphans>>

\* adoption names the runner that holds the sandbox, and so opens a generation
Adopt(r, c, s) ==
    LET k == conn[r][c]
    IN  /\ s \in k.adopting
        /\ Transition(s, NonTerminal, k.snap[s], r, AnyGen)
        /\ conn' = [conn EXCEPT ![r][c] = [@ EXCEPT !.adopting = {}]]
        /\ UNCHANGED <<linkVars, order, sched, create, req, orphans>>

\* destroyOrphan goroutines start, and the read loop
ReconcileDone(r, c) ==
    LET k == conn[r][c]
    IN  /\ k.pc = "settling" /\ DOMAIN k.stored = {} /\ k.rest = {} /\ k.adopting = {}
        /\ orphans' = orphans \cup {[r |-> r, c |-> c, s |-> s, left |-> OrphanDestroyAttempts, pc |-> "send"]
                                    : s \in k.destroy}
        /\ conn' = [conn EXCEPT ![r][c] = [IdleConn EXCEPT !.pc = "serving"]]
        /\ UNCHANGED <<row, opened, linkVars, order, sched, create, req>>

EventTransitions ==
    [running        |-> {"creating", "running"},
     suspended_warm |-> {"running", "suspended_warm"},
     suspended_cold |-> {"running", "suspended_cold"},
     failed         |-> {"creating", "resuming", "running"},
     dead           |-> {"creating", "resuming", "running", "suspended_warm", "suspended_cold"}]

\* a dispatch of connection c is still waiting under id
Awaited(id, c) ==
    \/ \E s \in Sessions, g \in Gens :
          id = <<"create", s, g>> /\ create[s][g].pc = "await" /\ create[s][g].conn = c
    \/ \E q \in Requests : id = <<"req", q>> /\ req[q].pc = "await" /\ req[q].conn = c
    \/ id = StatusId /\ sched.pc = "status"
    \/ \E o \in orphans : id = <<"orphan", o.r, o.c, o.s, o.left>> /\ o.pc = "await"

\* readLoop: capacity from every message, then the message itself.  An event
\* passes identity, runner generation and placement generation before its write
Serve(r, c) ==
    LET m == Head(pipe[r])
        x == row[m.s]
        stale == \/ x.runner # r
                 \/ host[r].gen # c
                 \/ x.state = "resuming" /\ m.gen = 0
                 \/ m.gen # 0 /\ m.gen # x.gen
    IN  /\ conn[r][c].pc = "serving" /\ live[r] = c /\ host[r].gen = c /\ pipe[r] # <<>>
        /\ pipe' = [pipe EXCEPT ![r] = Tail(@)]
        /\ host' = [host EXCEPT ![r].holds = m.holds]
        /\ inbox' = IF m.kind = "result" /\ Awaited(m.id, c) THEN inbox \cup {m} ELSE inbox
        /\ conn' = IF m.kind = "event" /\ m.state \in Vocabulary /\ ~stale /\ x.state # m.state
                   THEN [conn EXCEPT ![r][c] =
                           [@ EXCEPT !.pc = "applying",
                                     !.event = {[s |-> m.s, state |-> m.state, gen |-> x.gen]}]]
                   ELSE conn
        /\ UNCHANGED <<row, opened, live, box, cmds, reports, order, sched, create, req, orphans>>

\* mutant: the write does not carry the generation the event was checked against
ApplyEventUnfenced(r, c) ==
    \E e \in conn[r][c].event :
        /\ conn[r][c].pc = "applying"
        /\ Transition(e.s, EventTransitions[e.state], e.state, Keep, AnyGen)
        /\ conn' = [conn EXCEPT ![r][c] = [IdleConn EXCEPT !.pc = "serving"]]
        /\ UNCHANGED <<linkVars, order, sched, create, req, orphans>>

\* ApplyRunnerEvent's write: a compare-and-swap on the generation it checked
ApplyEvent(r, c) ==
    \E e \in conn[r][c].event :
        /\ conn[r][c].pc = "applying"
        /\ Transition(e.s, EventTransitions[e.state], e.state, Keep, e.gen)
        /\ conn' = [conn EXCEPT ![r][c] = [IdleConn EXCEPT !.pc = "serving"]]
        /\ UNCHANGED <<linkVars, order, sched, create, req, orphans>>

\* retireRunner: only the installed connection records the runner as gone.  A
\* read error or a supersession ends a serving handler, a store error any other
Drop(r, c) ==
    /\ conn[r][c].pc \notin {"none", "closed"}
    /\ conn' = [conn EXCEPT ![r][c] = [IdleConn EXCEPT !.pc = "closed"]]
    /\ IF live[r] = c
       THEN /\ live' = [live EXCEPT ![r] = 0]
            /\ host' = [host EXCEPT ![r].connected = FALSE]
            /\ pipe' = [pipe EXCEPT ![r] = <<>>]
       ELSE UNCHANGED <<live, host, pipe>>
    /\ UNCHANGED <<row, opened, box, cmds, inbox, reports, order, sched, create, req, orphans>>

-----------------------------------------------------------------------------
(* destroyOrphan: a bounded series of attempts while this handler lives.   *)

Retry(o) == IF o.left = 1 THEN {} ELSE {[o EXCEPT !.pc = "send", !.left = @ - 1]}

OrphanSend(o) ==
    /\ o.pc = "send"
    /\ \/ /\ Connected(o.r)
          /\ Enqueue(<<"orphan", o.r, o.c, o.s, o.left>>, o.r, "destroy", o.s, 0)
          /\ orphans' = (orphans \ {o}) \cup {[o EXCEPT !.pc = "await"]}
       \/ ~Connected(o.r) /\ orphans' = (orphans \ {o}) \cup Retry(o) /\ UNCHANGED cmds
    /\ UNCHANGED <<row, opened, host, live, box, pipe, inbox, reports, order, sched, create, req, conn>>

OrphanAnswer(o) ==
    /\ o.pc = "await"
    /\ \/ /\ NoAnswer(<<"orphan", o.r, o.c, o.s, o.left>>)
          /\ orphans' = (orphans \ {o}) \cup Retry(o)
       \/ \E m \in inbox :
            /\ GotAnswer(<<"orphan", o.r, o.c, o.s, o.left>>, m)
            /\ orphans' = (orphans \ {o}) \cup (IF m.ok THEN {} ELSE Retry(o))
    /\ UNCHANGED <<row, opened, host, live, box, cmds, pipe, reports, order, sched, create, req, conn>>

OrphanEnds(o) ==
    /\ conn[o.r][o.c].pc = "closed"
    /\ orphans' = orphans \ {o}
    /\ UNCHANGED <<row, opened, linkVars, order, sched, create, req, conn>>

-----------------------------------------------------------------------------
SchedulerRuns == SchedStart \/ SchedAsk \/ SchedSettle \/ SchedRead \/ SchedPick \/ SchedPlace

Scheduler == SchedulerRuns \/ \E s \in Sessions : SchedList(s)

CreateGoroutine(s, g) ==
    \/ CreateRead(s, g) \/ CreateSpecFails(s, g) \/ CreateDispatch(s, g) \/ CreateAnswer(s, g)
    \/ CreateUnanswered(s, g) \/ CreateRequeue(s, g) \/ FailCreate(s, g)

RequestRuns(q) == ReqClaim(q) \/ ReqDispatch(q) \/ ReqAnswer(q) \/ ReqCommit(q)

Request(q) == DeleteSession(q) \/ SuspendSession(q) \/ ResumeSession(q) \/ RequestRuns(q)

HandlerRuns(r, c) ==
    \/ ReconcileRunner(r, c) \/ ReconcileRead(r, c) \/ ReconcileDone(r, c)
    \/ Serve(r, c) \/ ApplyEvent(r, c)
    \/ \E s \in Sessions : SettleStored(r, c, s) \/ SettleReported(r, c, s) \/ Adopt(r, c, s)

Handler(r, c) == HandlerRuns(r, c) \/ Drop(r, c)

Orphan(o) == OrphanSend(o) \/ OrphanAnswer(o) \/ OrphanEnds(o)

Runner ==
    /\ \/ \E cmd \in cmds : Execute(cmd) \/ LoseCommand(cmd)
       \/ \E r \in Runners, s \in Sessions : SandboxReports(r, s)
    /\ UNCHANGED <<row, opened, ctlVars>>

Next ==
    \/ \E s \in Sessions : CreateSession(s)
    \/ Scheduler
    \/ \E s \in Sessions, g \in Gens : CreateGoroutine(s, g)
    \/ \E q \in Requests : Request(q)
    \/ \E r \in Runners : Connect(r)
    \/ \E r \in Runners, c \in Conns : Handler(r, c)
    \/ \E o \in orphans : Orphan(o)
    \/ Runner

Spec == Init /\ [][Next]_vars

\* The scheduler loop has a safety tick; goroutines, handlers and the runner's
\* commands run to their end.  Nothing makes a user call, a runner connect or a
\* connection drop.  A resuming row is asked about on some pass that meets it.
Fairness ==
    /\ WF_vars(SchedulerRuns)
    /\ \A s \in Sessions : SF_vars(SchedList(s))
    /\ \A s \in Sessions, g \in Gens : WF_vars(CreateGoroutine(s, g))
    /\ \A q \in Requests : WF_vars(RequestRuns(q))
    /\ \A r \in Runners, c \in Conns : WF_vars(HandlerRuns(r, c))
    /\ WF_vars(\E o \in orphans : Orphan(o))
    /\ \A type \in {"create", "suspend_warm", "suspend_cold", "resume", "resume_status", "destroy"} :
          WF_vars(\E cmd \in cmds : cmd.type = type /\ Execute(cmd) /\ UNCHANGED <<row, opened, ctlVars>>)

FairSpec == Spec /\ Fairness

-----------------------------------------------------------------------------
(* Properties.                                                             *)

\* if connection c of r applies an event in this step and the row of s moves,
\* then r holds the row's placement and the event was checked against it
AppliesHere(r, c, s) ==
    (conn[r][c].pc = "applying" /\ conn'[r][c].pc = "serving" /\ row'[s] # row[s])
        => /\ opened[s][row[s].gen] = r
           /\ \E e \in conn[r][c].event : e.s = s /\ e.gen = row[s].gen

\* ApplyRunnerEvent: the write an event makes lands on the placement it was
\* checked against.  Between the check and the write the row may be requeued,
\* placed on another runner, adopted or resumed; the event of a sandbox the
\* session has moved on from changes nothing.
EventsOfThisPlacement == [][\A r \in Runners, c \in Conns, s \in Sessions : AppliesHere(r, c, s)]_vars

Unstarted == {"absent", "queued", "creating"}

\* what a step may do to the row of s
StaysStarted(s) ==
    /\ row[s].state \notin Unstarted => row'[s].state \notin Unstarted
    /\ row[s].state \in {"canceled", "dead", "destroyed"} => row'[s] = row[s]
    /\ row[s].state = "failed" => row'[s].state \in {"failed", "destroyed"}

\* "Never enqueue this workspace as a create" (resumeCold): a session that has
\* run once is never queued or created again, whatever races, and a row that
\* is canceled, dead or destroyed stays that way (a failed one may be destroyed).
StartedNeverRecreated == [][\A s \in Sessions : StaysStarted(s)]_vars

\* answers to resume_status that say the boot did not happen, on their way or delivered
ParkedEvidence ==
    {m \in inbox \cup UNION {{pipe[r][i] : i \in 1 .. Len(pipe[r])} : r \in Runners} :
        m.kind = "result" /\ m.id[1] = "status" /\ m.ok /\ m.state = "suspended_cold"}

\* reconcileResumes: evidence that a placement was not booted is still true when
\* it is applied.  The resume command it gives up on may arrive after the answer
\* left the runner, and must find its placement already spent.
EvidenceHolds ==
    \A m \in ParkedEvidence :
        LET sb == box[opened[m.s][m.gen]][m.s]
        IN  sb.gen = m.gen => sb.state \notin {"resuming", "running"}

\* reconcileResumes "settle[s] lost resume replies": a row does not stay resuming
\* for ever while its runner is connected and knows what the sandbox is doing,
\* whichever of the claim, the command and the answer was lost.
ResumeSettles ==
    \A s \in Sessions :
        []<>~(/\ row[s].state = "resuming" /\ Connected(row[s].runner)
              /\ box[row[s].runner][s].state \in {"suspended_cold", "resuming", "running"})

\* drainPool: a queued session is not left waiting for ever beside a connected,
\* eligible runner with room, whatever sits in front of it in the queue.
QueuedIsPlaced ==
    \A s \in Sessions :
        []<>~(Queued(s) /\ \E r \in ConnectedRunners \cap Eligible[s] : Free(r) > 0)

=============================================================================
