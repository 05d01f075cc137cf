------------------------- MODULE ControlPlaneProofs -------------------------
\* Theorems about ControlPlane for every fleet, queue, bound and schedule.
EXTENDS ControlPlane, SequenceTheorems, TLAPS

--------------------
\* Partial maps over sessions.

\* a map from sessions is a partial map when its domain and values are right
LEMMA PartialMapIntro ==
    ASSUME NEW S, NEW D \in SUBSET Sessions, NEW f \in [D -> S]
    PROVE  f \in PartialMap(S)
  BY DEF PartialMap

\* and a partial map has a domain among the sessions and values in its range
LEMMA PartialMapElim ==
    ASSUME NEW S, NEW f \in PartialMap(S)
    PROVE  /\ DOMAIN f \in SUBSET Sessions
           /\ \A s \in DOMAIN f : f[s] \in S
  BY DEF PartialMap

\* the empty map is a partial map
LEMMA NoSessionsType ==
    ASSUME NEW S
    PROVE  NoSessions \in PartialMap(S)
<1>1. NoSessions \in [{} -> S]
  BY DEF NoSessions
<1> QED
  BY <1>1, PartialMapIntro

--------------------
\* The store.

\* a transition leaves a well-typed row and history
LEMMA TransitionType ==
    ASSUME StoreTypeOK, NEW s \in Sessions, NEW from, NEW to \in SessionState,
           NEW runner \in Runners \cup {NoRunner, Keep}, NEW expected,
           Transition(s, from, to, runner, expected)
    PROVE  StoreTypeOK'
<1> USE RunnersAssumption, MaxGenAssumption
<1>1. CASE UNCHANGED <<row, opened>>
  BY <1>1 DEF StoreTypeOK
<1>2. CASE Apply(s, to, runner)
  <2>1. row[s] \in Row
    BY DEF StoreTypeOK
  <2>2. runner \in Runners => row[s].gen + 1 \in Gens
    BY <1>2, <2>1 DEF Apply, MayOpen, Row, Gens
  <2>3. Moved(row[s], to, runner) \in Row
    BY <2>1, <2>2 DEF Moved, Row, NoRunner, Keep
  <2>4. row' \in [Sessions -> Row]
    BY <1>2, <2>3 DEF Apply, StoreTypeOK
  <2>5. opened' \in [Sessions -> [Gens -> Runners \cup {NoRunner}]]
    BY <1>2, <2>2 DEF Apply, StoreTypeOK
  <2> QED
    BY <2>4, <2>5 DEF StoreTypeOK
<1> QED
  BY <1>1, <1>2 DEF Transition

--------------------
\* Initial states.

\* every process starts and ends in a well-typed record
LEMMA IdleType ==
    /\ IdleSched \in SchedulerState
    /\ IdleCreate \in CreateState
    /\ IdleReq \in RequestState
    /\ IdleConn \in HandlerState
<1> USE RunnersAssumption, MaxGenAssumption, LinkAssumption, PlaneAssumption
<1>1. IdleSched \in SchedulerState /\ IdleCreate \in CreateState
  BY DEF IdleSched, SchedulerState, IdleCreate, CreateState, Gens
<1>2. NoRow \in Row
  BY DEF NoRow, Row, SessionState, Gens
<1>3. IdleReq \in RequestState
  BY <1>2 DEF IdleReq, RequestState, Op
<1>4. IdleConn \in HandlerState
  BY NoSessionsType DEF IdleConn, HandlerState
<1> QED
  BY <1>1, <1>3, <1>4

\* the initial state is well typed
LEMMA TypeInit == Init => TypeOK
<1> SUFFICES ASSUME Init PROVE TypeOK
  OBVIOUS
<1> USE RunnersAssumption, MaxGenAssumption, LinkAssumption, PlaneAssumption
<1>1. StoreTypeOK
  BY DEF Init, StoreInit, StoreTypeOK, NoRow, Row, SessionState, Gens, NoRunner
<1>2. LinkTypeOK
  <2>1. <<>> \in PartialMap(Gens)
    <3>1. <<>> \in [{} -> Gens]
      OBVIOUS
    <3> QED BY <3>1, PartialMapIntro
  <2> QED
    BY <2>1 DEF Init, LinkInit, LinkTypeOK, NoSandbox, Sandbox, SandboxState, Gens
<1>3. PlaneTypeOK
  <2>1. order \in Seq(Sessions) /\ orphans \subseteq OrphanState
    BY DEF Init
  <2>2. IdleConn.rest \cup IdleConn.adopting \subseteq DOMAIN IdleConn.snap
    BY DEF IdleConn
  <2> QED
    BY <2>1, <2>2, IdleType DEF Init, PlaneTypeOK
<1> QED
  BY <1>1, <1>2, <1>3 DEF TypeOK

--------------------
\* The store in a step: who writes a row.

\* only these actions write a session row
LEMMA RowWriters ==
    ASSUME [Next]_vars
    PROVE  \/ UNCHANGED <<row, opened>>
           \/ \E s \in Sessions : CreateSession(s)
           \/ SchedSettle \/ SchedPlace
           \/ \E s \in Sessions, g \in Gens : CreateRequeue(s, g) \/ FailCreate(s, g)
           \/ \E q \in Requests : ReqClaim(q) \/ ReqCommit(q)
           \/ \E r \in Runners, c \in Conns : ApplyEvent(r, c)
           \/ \E r \in Runners, c \in Conns, s \in Sessions : SettleStored(r, c, s) \/ Adopt(r, c, s)
<1>1. CASE UNCHANGED vars
  BY <1>1 DEF vars
<1>2. CASE Scheduler
  BY <1>2 DEF Scheduler, SchedulerRuns, SchedStart, SchedList, SchedAsk, SchedRead, SchedPick
<1>3. ASSUME NEW s \in Sessions, NEW g \in Gens, CreateGoroutine(s, g)
      PROVE  UNCHANGED <<row, opened>> \/ CreateRequeue(s, g) \/ FailCreate(s, g)
  BY <1>3 DEF CreateGoroutine, CreateRead, CreateSpecFails, CreateDispatch, CreateAnswer, CreateUnanswered
<1>4. ASSUME NEW q \in Requests, Request(q)
      PROVE  UNCHANGED <<row, opened>> \/ ReqClaim(q) \/ ReqCommit(q)
  BY <1>4 DEF Request, RequestRuns, DeleteSession, SuspendSession, ResumeSession, ReqDispatch, ReqAnswer
<1>5. CASE \E r \in Runners : Connect(r)
  BY <1>5 DEF Connect
<1>6. ASSUME NEW r \in Runners, NEW c \in Conns, Handler(r, c)
      PROVE  \/ UNCHANGED <<row, opened>> \/ ApplyEvent(r, c)
             \/ \E s \in Sessions : SettleStored(r, c, s) \/ Adopt(r, c, s)
  <2>1. CASE ReconcileRunner(r, c) \/ ReconcileRead(r, c) \/ ReconcileDone(r, c) \/ Serve(r, c) \/ Drop(r, c)
    BY <2>1 DEF ReconcileRunner, ReconcileRead, ReconcileDone, Serve, Drop
  <2>2. ASSUME NEW s \in Sessions, SettleReported(r, c, s)
        PROVE  UNCHANGED <<row, opened>>
    BY <2>2 DEF SettleReported
  <2> QED
    BY <1>6, <2>1, <2>2 DEF Handler, HandlerRuns
<1>7. CASE \E o \in orphans : Orphan(o)
  BY <1>7 DEF Orphan, OrphanSend, OrphanAnswer, OrphanEnds
<1>8. CASE Runner
  BY <1>8 DEF Runner
<1> QED
  BY <1>1, <1>2, <1>3, <1>4, <1>5, <1>6, <1>7, <1>8 DEF Next

\* what a handler keeps of its announce and of the rows it read
LEMMA SnapType ==
    ASSUME PlaneTypeOK, NEW r \in Runners, NEW c \in Conns
    PROVE  /\ DOMAIN conn[r][c].snap \in SUBSET Sessions
           /\ \A s \in DOMAIN conn[r][c].snap : conn[r][c].snap[s] \in AnnouncedStates
           /\ DOMAIN conn[r][c].stored \in SUBSET Sessions
           /\ \A s \in DOMAIN conn[r][c].stored : conn[r][c].stored[s] \in PlacedStates
<1>1. conn[r][c].snap \in PartialMap(AnnouncedStates) /\ conn[r][c].stored \in PartialMap(PlacedStates)
  BY DEF PlaneTypeOK, HandlerState
<1> QED
  BY <1>1, PartialMapElim

\* a request that resumes has read, or claimed, a session that is alive
ResumeRows == \A q \in Requests : req[q].op = "resume" => req[q].row.state \in NonTerminal

\* the moves the lifecycle allows: nothing that has started is queued or
\* created, and the only way out of a terminal state is to destroy a failed session
Lawful(from, to) ==
    /\ to \in Unstarted => from \subseteq Unstarted
    /\ from \cap {"canceled", "dead", "destroyed"} = {}
    /\ "failed" \in from => to = "destroyed"

\* some component moves s with one guarded statement
Moves(s) ==
    \E from, to, runner, expected :
        /\ to \in SessionState \ {"absent"} /\ runner \in Runners \cup {NoRunner, Keep}
        /\ Transition(s, from, to, runner, expected)
        /\ ResumeRows => Lawful(from, to)

\* every step moves at most one row, and by a lawful transition
LEMMA RowTransitions ==
    ASSUME TypeOK, [Next]_vars
    PROVE  \/ UNCHANGED <<row, opened>>
           \/ \E s \in Sessions : Insert(s) \/ Moves(s)
<1> USE RunnersAssumption, MaxGenAssumption, PlaneAssumption
<1>0. StoreTypeOK /\ LinkTypeOK /\ PlaneTypeOK
  BY DEF TypeOK
<1>1. /\ \A to \in NonTerminal \cup Terminal : to \in SessionState \ {"absent"}
      /\ NonTerminal \cap {"canceled", "dead", "destroyed", "failed"} = {}
      /\ "absent" \notin NonTerminal \cup Terminal
      /\ AnnouncedStates \subseteq NonTerminal \ Unstarted
  BY DEF SessionState, NonTerminal, Terminal, AnnouncedStates, Unstarted
<1>2. ASSUME NEW s \in Sessions, CreateSession(s)
      PROVE  Insert(s)
  BY <1>2 DEF CreateSession
<1>3. CASE SchedSettle
  <2>1. sched.todo \subseteq Sessions
    BY <1>0 DEF PlaneTypeOK, SchedulerState
  <2>2. ASSUME NEW m \in inbox, m.state \in {"running", "suspended_cold"}, NEW s \in sched.todo,
               Transition(s, {"resuming"}, m.state, Keep, sched.gen)
        PROVE  Moves(s)
    <3>1. Lawful({"resuming"}, m.state) /\ m.state \in SessionState \ {"absent"}
      BY <2>2 DEF Lawful, Unstarted, SessionState, NonTerminal
    <3> QED
      BY <2>2, <3>1 DEF Moves
  <2> QED
    BY <1>3, <2>1, <2>2 DEF SchedSettle
<1>4. CASE SchedPlace
  <2>1. PICK s \in sched.todo : Transition(s, {"queued"}, "creating", sched.r, AnyGen)
    BY <1>4 DEF SchedPlace, Oldest
  <2>2. s \in Sessions /\ sched.r \in Runners \cup {NoRunner, Keep}
    BY <1>0 DEF PlaneTypeOK, SchedulerState
  <2>3. Lawful({"queued"}, "creating") /\ "creating" \in SessionState \ {"absent"}
    BY DEF Lawful, Unstarted, SessionState, NonTerminal
  <2> QED
    BY <2>1, <2>2, <2>3 DEF Moves
<1>5. ASSUME NEW s \in Sessions, NEW g \in Gens, CreateRequeue(s, g) \/ FailCreate(s, g)
      PROVE  Moves(s)
  <2>1. \/ Transition(s, {"creating"}, "queued", NoRunner, AnyGen)
        \/ Transition(s, {"creating"}, "failed", Keep, AnyGen)
    BY <1>5 DEF CreateRequeue, FailCreate
  <2>2. \A to \in {"queued", "failed"} : Lawful({"creating"}, to) /\ to \in SessionState \ {"absent"}
    BY DEF Lawful, Unstarted, SessionState, NonTerminal, Terminal
  <2> QED
    BY <2>1, <2>2 DEF Moves
<1>6. ASSUME NEW q \in Requests, ReqClaim(q)
      PROVE  Moves(Target[q])
  <2>1. Transition(Target[q], {"suspended_cold"}, "resuming", req[q].row.runner, req[q].row.gen)
    BY <1>6 DEF ReqClaim
  <2>2. req[q].row.runner \in Runners \cup {NoRunner, Keep}
    BY <1>0 DEF PlaneTypeOK, RequestState, Row
  <2>3. Lawful({"suspended_cold"}, "resuming") /\ "resuming" \in SessionState \ {"absent"}
    BY DEF Lawful, Unstarted, SessionState, NonTerminal
  <2> QED
    BY <2>1, <2>2, <2>3 DEF Moves
<1>7. ASSUME NEW q \in Requests, ReqCommit(q)
      PROVE  Moves(Target[q])
  <2> DEFINE x == req[q].row
  <2>1. PICK from, to, expected :
            /\ Transition(Target[q], from, to, Keep, expected)
            /\ \/ from = {"queued"} /\ to = "canceled"
               \/ from \in {{"failed"}, NonTerminal} /\ to = "destroyed"
               \/ from = {"running"} /\ to \in {"suspended_warm", "suspended_cold"}
               \/ req[q].op = "resume" /\ from = {x.state} /\ to = "running"
    BY <1>7 DEF ReqCommit
  <2>2. to \in SessionState \ {"absent"}
    BY <2>1 DEF SessionState, NonTerminal, Terminal
  <2>3. ASSUME ResumeRows PROVE Lawful(from, to)
    BY <1>1, <2>1, <2>3 DEF ResumeRows, Lawful, Unstarted
  <2> QED
    BY <2>1, <2>2, <2>3 DEF Moves
<1>8. ASSUME NEW r \in Runners, NEW c \in Conns, ApplyEvent(r, c)
      PROVE  \E s \in Sessions : Moves(s)
  <2>1. PICK e \in conn[r][c].event : Transition(e.s, EventTransitions[e.state], e.state, Keep, e.gen)
    BY <1>8 DEF ApplyEvent
  <2>2. e \in PendingEvent
    BY <1>0 DEF PlaneTypeOK, HandlerState
  <2>3. e.s \in Sessions /\ e.state \in Vocabulary
    BY <2>2 DEF PendingEvent
  <2>4. e.state \in SessionState \ {"absent"} /\ Lawful(EventTransitions[e.state], e.state)
    BY <2>3 DEF Vocabulary, EventTransitions, Lawful, Unstarted, SessionState, NonTerminal, Terminal
  <2> QED
    BY <2>1, <2>3, <2>4 DEF Moves
<1>9. ASSUME NEW r \in Runners, NEW c \in Conns, NEW s \in Sessions, SettleStored(r, c, s) \/ Adopt(r, c, s)
      PROVE  UNCHANGED <<row, opened>> \/ Moves(s)
  <2> DEFINE snap == conn[r][c].snap
  <2>1. ASSUME s \in DOMAIN snap, NEW from \in {NonTerminal, {snap[s]}}
        PROVE  snap[s] \in SessionState \ {"absent"} /\ Lawful(from, snap[s])
    <3>1. snap[s] \in AnnouncedStates
      BY <1>0, <2>1, SnapType
    <3> QED
      BY <1>1, <3>1 DEF Lawful
  <2>2. /\ Lawful({"creating"}, "queued") /\ Lawful(NonTerminal, "dead")
        /\ {"queued", "dead"} \subseteq SessionState \ {"absent"}
    BY <1>1 DEF Lawful, Unstarted, SessionState, NonTerminal, Terminal
  <2> HIDE DEF snap
  <2>3. CASE SettleStored(r, c, s)
    <3>1. \/ UNCHANGED <<row, opened>>
          \/ Transition(s, {"creating"}, "queued", NoRunner, AnyGen)
          \/ Transition(s, NonTerminal, "dead", Keep, AnyGen)
          \/ /\ s \in DOMAIN snap
             /\ \/ Transition(s, NonTerminal, snap[s], Keep, AnyGen)
                \/ Transition(s, {snap[s]}, snap[s], Keep, AnyGen)
      BY <2>3 DEF SettleStored, snap
    <3> QED
      BY <2>1, <2>2, <3>1 DEF Moves
  <2>4. CASE Adopt(r, c, s)
    <3>1. s \in DOMAIN snap
      BY <1>0, <2>4 DEF Adopt, PlaneTypeOK, snap
    <3>2. Transition(s, NonTerminal, snap[s], r, AnyGen)
      BY <2>4 DEF Adopt, snap
    <3> QED
      BY <2>1, <3>1, <3>2 DEF Moves
  <2> QED
    BY <1>9, <2>3, <2>4
<1> QED
  BY <1>2, <1>3, <1>4, <1>5, <1>6, <1>7, <1>8, <1>9, RowWriters

\* a step of the system keeps the store well typed
LEMMA StoreStep ==
    ASSUME TypeOK, [Next]_vars
    PROVE  StoreTypeOK'
<1> USE RunnersAssumption, MaxGenAssumption
<1>1. CASE UNCHANGED <<row, opened>>
  BY <1>1 DEF TypeOK, StoreTypeOK
<1>2. ASSUME NEW s \in Sessions, Insert(s) PROVE StoreTypeOK'
  BY <1>2 DEF TypeOK, Insert, StoreTypeOK, Row, SessionState, NonTerminal, NoRunner, Gens
<1>3. ASSUME NEW s \in Sessions, Moves(s) PROVE StoreTypeOK'
  BY <1>3, TransitionType DEF TypeOK, Moves
<1> QED
  BY <1>1, <1>2, <1>3, RowTransitions

--------------------
\* The link in a step.

\* the occupancy a runner stamps on a message, as it is or with one sandbox replaced
LEMMA StampType ==
    ASSUME LinkTypeOK, NEW r \in Runners, NEW s \in Sessions, NEW sb \in Sandbox
    PROVE  Stamp(r) \in PartialMap(Gens) /\ StampAfter(r, s, sb) \in PartialMap(Gens)
<1>1. box[r] \in [Sessions -> Sandbox]
  BY DEF LinkTypeOK
<1>2. ASSUME NEW boxes \in [Sessions -> Sandbox]
      PROVE  [t \in {u \in Sessions : boxes[u].state \in SlotStates} |-> boxes[t].gen] \in PartialMap(Gens)
  <2> DEFINE held == {u \in Sessions : boxes[u].state \in SlotStates}
  <2>1. [t \in held |-> boxes[t].gen] \in [held -> Gens]
    BY DEF Sandbox
  <2> QED
    BY <2>1, PartialMapIntro
<1>3. [box[r] EXCEPT ![s] = sb] \in [Sessions -> Sandbox]
  BY <1>1
<1>4. Stamp(r) \in PartialMap(Gens)
  BY <1>1, <1>2 DEF Stamp, Occupies
<1>5. StampAfter(r, s, sb) \in PartialMap(Gens)
  BY <1>2, <1>3 DEF StampAfter
<1> QED
  BY <1>4, <1>5

\* a message queued for a connection, or dropped
LEMMA SentType ==
    ASSUME NEW queues \in [Runners -> Seq(Message)], NEW c, NEW r \in Runners, NEW m \in Message
    PROVE  Sent(queues, c, r, m) \in [Runners -> Seq(Message)]
<1>1. Append(queues[r], m) \in Seq(Message)
  BY AppendProperties
<1> QED
  BY <1>1 DEF Sent

\* a result is a message
LEMMA ResultType ==
    ASSUME NEW cmd \in Command, NEW ok \in BOOLEAN, NEW state \in SandboxState \cup {"", "dead", "failed"},
           NEW gen \in Gens, NEW stamp \in PartialMap(Gens)
    PROVE  Result(cmd, ok, state, gen, stamp) \in Message
  BY DEF Result, Message, Command

\* an event is a message
LEMMA EventType ==
    ASSUME NEW s \in Sessions, NEW state \in SandboxState \cup {"", "dead", "failed"},
           NEW gen \in Gens, NEW stamp \in PartialMap(Gens)
    PROVE  Event(s, state, gen, stamp) \in Message
  BY DEF Event, Message

\* a command that finishes keeps the link well typed
LEMMA FinishType ==
    ASSUME LinkTypeOK, NEW cmd \in cmds, NEW sb \in Sandbox, NEW ok \in BOOLEAN,
           NEW state \in SandboxState \cup {""}, NEW gen \in Gens,
           Finish(cmd, sb, ok, state, gen)
    PROVE  LinkTypeOK'
<1>1. cmd \in Command
  BY DEF LinkTypeOK
<1>2. cmd.r \in Runners /\ cmd.s \in Sessions
  BY <1>1 DEF Command
<1>3. Result(cmd, ok, state, gen, StampAfter(cmd.r, cmd.s, sb)) \in Message
  BY <1>1, <1>2, StampType, ResultType
<1>4. pipe' \in [Runners -> Seq(Message)]
  BY <1>2, <1>3, SentType DEF Finish, LinkTypeOK
<1>5. box' \in [Runners -> [Sessions -> Sandbox]]
  BY <1>2 DEF Finish, LinkTypeOK
<1> QED
  BY <1>4, <1>5 DEF Finish, LinkTypeOK

\* a command that starts its work keeps the link well typed
LEMMA BeginType ==
    ASSUME LinkTypeOK, NEW cmd \in cmds, NEW sb \in Sandbox, Begin(cmd, sb)
    PROVE  LinkTypeOK'
<1>1. cmd \in Command
  BY DEF LinkTypeOK
<1>2. [cmd EXCEPT !.phase = "started"] \in Command
  BY <1>1 DEF Command
<1>3. cmds' \subseteq Command
  BY <1>2 DEF Begin, LinkTypeOK
<1>4. box' \in [Runners -> [Sessions -> Sandbox]]
  BY <1>1 DEF Begin, LinkTypeOK, Command
<1> QED
  BY <1>3, <1>4 DEF Begin, LinkTypeOK

\* every command the runner executes
LEMMA ExecuteType ==
    ASSUME LinkTypeOK, NEW cmd \in cmds, Execute(cmd)
    PROVE  LinkTypeOK'
<1> USE MaxGenAssumption
<1> DEFINE sb == box[cmd.r][cmd.s]
<1>1. cmd \in Command
  BY DEF LinkTypeOK
<1>2. cmd.r \in Runners /\ cmd.s \in Sessions /\ cmd.gen \in Gens
  BY <1>1 DEF Command
<1>3. sb \in Sandbox
  BY <1>2 DEF LinkTypeOK
<1>4. NoSandbox \in Sandbox /\ 0 \in Gens /\ "" \in SandboxState \cup {""}
  BY DEF NoSandbox, Sandbox, SandboxState, Gens
<1>5. ASSUME NEW state \in SandboxState, NEW gen \in Gens
      PROVE  /\ [sb EXCEPT !.state = state] \in Sandbox
             /\ [sb EXCEPT !.gen = gen] \in Sandbox
             /\ [state |-> state, gen |-> gen] \in Sandbox
  BY <1>3 DEF Sandbox
<1>6. {"starting", "running", "suspended_warm", "suspended_cold", "resuming", "unresolved"} \subseteq SandboxState
  BY DEF SandboxState
<1> HIDE DEF sb
<1>7. ASSUME Refuse(cmd) PROVE LinkTypeOK'
  BY <1>3, <1>4, <1>7, FinishType DEF Refuse, sb
<1>8. CASE ExecCreate(cmd)
  <2>1. CASE Begin(cmd, [state |-> "starting", gen |-> cmd.gen])
    BY <1>2, <1>5, <1>6, <2>1, BeginType
  <2>2. CASE ~Begin(cmd, [state |-> "starting", gen |-> cmd.gen])
    <3> DEFINE ok == Result(cmd, TRUE, "", 0, Stamp(cmd.r))
               ev == Event(cmd.s, sb.state, sb.gen, Stamp(cmd.r))
               answered == Sent(pipe, cmd.conn, cmd.r, ok)
    <3>1. ok \in Message
      BY <1>1, <1>2, <1>3, <1>4, StampType, ResultType
    <3>2. sb.state \in SandboxState /\ sb.gen \in Gens
      BY <1>3 DEF Sandbox
    <3>3. ev \in Message
      BY <1>2, <1>3, <3>2, StampType, EventType
    <3>4. answered \in [Runners -> Seq(Message)]
      BY <1>2, <3>1, SentType DEF LinkTypeOK
    <3>5. Sent(answered, cmd.conn, cmd.r, ev) \in [Runners -> Seq(Message)]
      BY <1>2, <3>3, <3>4, SentType
    <3> HIDE DEF ok, ev, answered
    <3>6. /\ pipe' \in {answered, Sent(answered, cmd.conn, cmd.r, ev)}
          /\ cmds' = cmds \ {cmd}
          /\ UNCHANGED <<host, live, box, inbox, reports>>
      BY <1>8, <2>2 DEF ExecCreate, ok, ev, answered, sb
    <3> QED
      BY <3>4, <3>5, <3>6 DEF LinkTypeOK
  <2> QED
    BY <2>1, <2>2
<1>9. CASE ExecCreated(cmd)
  <2>1. sb.gen \in Gens
    BY <1>3 DEF Sandbox
  <2>2. \/ Finish(cmd, [state |-> "running", gen |-> sb.gen], TRUE, "", 0)
        \/ Finish(cmd, NoSandbox, FALSE, "", 0)
    BY <1>9 DEF ExecCreated, sb
  <2> QED
    BY <1>4, <1>5, <1>6, <2>1, <2>2, FinishType
<1>10. CASE ExecSuspend(cmd)
  <2>1. \/ Finish(cmd, [sb EXCEPT !.state = "suspended_warm"], TRUE, "", 0)
        \/ Finish(cmd, [sb EXCEPT !.state = "suspended_cold"], TRUE, "", 0)
        \/ Refuse(cmd)
    BY <1>10 DEF ExecSuspend, sb
  <2> QED
    BY <1>4, <1>5, <1>6, <1>7, <2>1, FinishType
<1>11. CASE ExecResume(cmd)
  <2>1. \/ Finish(cmd, [sb EXCEPT !.state = "running"], TRUE, "", 0)
        \/ Begin(cmd, [state |-> "resuming", gen |-> cmd.gen])
        \/ Refuse(cmd)
    BY <1>11 DEF ExecResume, sb
  <2> QED
    BY <1>2, <1>4, <1>5, <1>6, <1>7, <2>1, FinishType, BeginType
<1>12. CASE ExecResumed(cmd)
  <2>1. \/ Finish(cmd, [sb EXCEPT !.state = "running"], TRUE, "", 0)
        \/ Finish(cmd, [sb EXCEPT !.state = "suspended_cold"], FALSE, "", 0)
        \/ Finish(cmd, [sb EXCEPT !.state = "unresolved"], FALSE, "", 0)
        \/ Refuse(cmd)
    BY <1>12 DEF ExecResumed, sb
  <2> QED
    BY <1>4, <1>5, <1>6, <1>7, <2>1, FinishType
<1>13. CASE ExecResumeStatus(cmd)
  <2>1. \/ \E state \in SandboxState : Finish(cmd, [sb EXCEPT !.gen = cmd.gen], TRUE, state, cmd.gen)
        \/ Refuse(cmd)
    BY <1>6, <1>13 DEF ExecResumeStatus, sb
  <2> QED
    BY <1>2, <1>4, <1>5, <1>6, <1>7, <2>1, FinishType
<1>14. CASE ExecDestroy(cmd)
  BY <1>4, <1>7, <1>14, FinishType DEF ExecDestroy
<1> QED
  BY <1>8, <1>9, <1>10, <1>11, <1>12, <1>13, <1>14 DEF Execute

\* what a sandbox reports of its own accord
LEMMA ReportType ==
    ASSUME LinkTypeOK, NEW r \in Runners, NEW s \in Sessions, SandboxReports(r, s)
    PROVE  LinkTypeOK'
<1> USE LinkAssumption
<1> DEFINE sb == box[r][s]
<1>1. sb \in Sandbox
  BY DEF LinkTypeOK
<1>2. sb.gen \in Gens /\ NoSandbox \in Sandbox /\ [sb EXCEPT !.state = "suspended_cold"] \in Sandbox
  BY <1>1, MaxGenAssumption DEF Sandbox, NoSandbox, SandboxState, Gens
<1>3. PICK after \in Sandbox, state \in {"running", "failed", "dead", "suspended_cold"} : Report(r, s, after, state)
  BY <1>1, <1>2 DEF SandboxReports
<1>4. state \in SandboxState \cup {"", "dead", "failed"}
  BY DEF SandboxState
<1>5. Event(s, state, sb.gen, StampAfter(r, s, after)) \in Message
  BY <1>2, <1>4, StampType, EventType
<1>6. pipe' \in [Runners -> Seq(Message)]
  BY <1>3, <1>5, SentType DEF Report, LinkTypeOK
<1>7. box' \in [Runners -> [Sessions -> Sandbox]]
  BY <1>3 DEF Report, LinkTypeOK
<1>8. reports' \in 0 .. MaxReports
  BY <1>3 DEF Report, LinkTypeOK
<1> QED
  BY <1>3, <1>6, <1>7, <1>8 DEF Report, LinkTypeOK

\* a command handed to the installed connection
LEMMA EnqueueType ==
    ASSUME LinkTypeOK, NEW id \in RequestId, NEW r, Connected(r),
           NEW type \in {"create", "resume_status"} \cup Op, NEW s \in Sessions, NEW gen \in Gens,
           Enqueue(id, r, type, s, gen)
    PROVE  cmds' \subseteq Command
<1>1. r \in Runners /\ live[r] \in Conns
  BY LinkAssumption DEF LinkTypeOK, Connected, Conns
<1> QED
  BY <1>1 DEF LinkTypeOK, Enqueue, Command

\* handing over a command changes nothing else of the link, delivering or
\* taking an answer nothing but the inbox
LEMMA LinkFrame ==
    ASSUME LinkTypeOK, UNCHANGED <<host, live, box, pipe, reports>>,
           cmds' \subseteq Command, inbox' \subseteq inbox
    PROVE  LinkTypeOK'
  BY DEF LinkTypeOK

\* what a handler reads is a message
LEMMA HeadOfPipe ==
    ASSUME LinkTypeOK, NEW r \in Runners, pipe[r] # <<>>
    PROVE  Head(pipe[r]) \in Message /\ Tail(pipe[r]) \in Seq(Message)
<1>1. pipe[r] \in Seq(Message)
  BY DEF LinkTypeOK
<1> QED
  BY <1>1, HeadTailProperties

\* a step of the system keeps the link well typed
LEMMA LinkStep ==
    ASSUME TypeOK, [Next]_vars
    PROVE  LinkTypeOK'
<1> USE RunnersAssumption, MaxGenAssumption, LinkAssumption, PlaneAssumption
<1>0. StoreTypeOK /\ LinkTypeOK /\ PlaneTypeOK
  BY DEF TypeOK
<1>1. ASSUME UNCHANGED linkVars PROVE LinkTypeOK'
  BY <1>0, <1>1 DEF linkVars, LinkTypeOK
<1>2. CASE UNCHANGED vars \/ \E s \in Sessions : CreateSession(s)
  BY <1>1, <1>2 DEF vars, CreateSession
<1>3. CASE Scheduler
  <2>1. CASE SchedStart \/ SchedRead \/ SchedPick \/ SchedPlace \/ \E s \in Sessions : SchedList(s)
    BY <1>1, <2>1 DEF SchedStart, SchedRead, SchedPick, SchedPlace, SchedList
  <2>2. CASE SchedAsk
    <3>1. \/ cmds' = cmds
          \/ /\ Connected(sched.r)
             /\ \E s \in sched.todo, n \in 1 .. MaxStatus : Enqueue(<<"status", n>>, sched.r, "resume_status", s, sched.gen)
      BY <2>2 DEF SchedAsk, UnusedStatus
    <3>2. sched.gen \in Gens /\ sched.todo \subseteq Sessions
      BY <1>0 DEF PlaneTypeOK, SchedulerState
    <3>3. \A n \in 1 .. MaxStatus : <<"status", n>> \in RequestId
      BY DEF RequestId
    <3>4. cmds' \subseteq Command
      BY <1>0, <3>1, <3>2, <3>3, EnqueueType DEF LinkTypeOK
    <3> QED
      BY <1>0, <2>2, <3>4, LinkFrame DEF SchedAsk
  <2>3. CASE SchedSettle
    <3>1. inbox' \subseteq inbox /\ UNCHANGED <<host, live, box, cmds, pipe, reports>>
      BY <2>3 DEF SchedSettle, NoAnswer, GotAnswer
    <3> QED
      BY <1>0, <3>1, LinkFrame DEF LinkTypeOK
  <2> QED
    BY <1>3, <2>1, <2>2, <2>3 DEF Scheduler, SchedulerRuns
<1>4. ASSUME NEW s \in Sessions, NEW g \in Gens, CreateGoroutine(s, g) PROVE LinkTypeOK'
  <2>1. CASE CreateRead(s, g) \/ CreateSpecFails(s, g) \/ CreateUnanswered(s, g) \/ CreateRequeue(s, g) \/ FailCreate(s, g)
    BY <1>1, <2>1 DEF CreateRead, CreateSpecFails, CreateUnanswered, CreateRequeue, FailCreate
  <2>2. CASE CreateDispatch(s, g)
    <3>1. <<"create", s, g>> \in RequestId /\ create[s][g].gen \in Gens
      BY <1>0 DEF RequestId, PlaneTypeOK, CreateState
    <3>2. cmds' \subseteq Command
      BY <1>0, <2>2, <3>1, EnqueueType DEF CreateDispatch, LinkTypeOK
    <3> QED
      BY <1>0, <2>2, <3>2, LinkFrame DEF CreateDispatch
  <2>3. CASE CreateAnswer(s, g)
    <3>1. inbox' \subseteq inbox /\ UNCHANGED <<host, live, box, cmds, pipe, reports>>
      BY <2>3 DEF CreateAnswer, NoAnswer, GotAnswer
    <3> QED
      BY <1>0, <3>1, LinkFrame DEF LinkTypeOK
  <2> QED
    BY <1>4, <2>1, <2>2, <2>3 DEF CreateGoroutine
<1>5. ASSUME NEW q \in Requests, Request(q) PROVE LinkTypeOK'
  <2>1. CASE DeleteSession(q) \/ SuspendSession(q) \/ ResumeSession(q) \/ ReqClaim(q) \/ ReqCommit(q)
    BY <1>1, <2>1 DEF DeleteSession, SuspendSession, ResumeSession, ReqClaim, ReqCommit
  <2>2. CASE ReqDispatch(q)
    <3> DEFINE gen == IF req[q].row.state = "resuming" /\ req[q].op = "resume" THEN req[q].row.gen ELSE 0
    <3>1. req[q].row \in Row /\ req[q].op \in Op
      BY <1>0 DEF PlaneTypeOK, RequestState
    <3>2. <<"req", q>> \in RequestId /\ Target[q] \in Sessions
      BY DEF RequestId
    <3>3. gen \in Gens
      BY <3>1 DEF Row, Gens
    <3>4. \/ cmds' = cmds
          \/ Connected(req[q].row.runner) /\ Enqueue(<<"req", q>>, req[q].row.runner, req[q].op, Target[q], gen)
      BY <2>2 DEF ReqDispatch
    <3> HIDE DEF gen
    <3>5. cmds' \subseteq Command
      BY <1>0, <3>1, <3>2, <3>3, <3>4, EnqueueType DEF LinkTypeOK
    <3> QED
      BY <1>0, <2>2, <3>5, LinkFrame DEF ReqDispatch
  <2>3. CASE ReqAnswer(q)
    <3>1. inbox' \subseteq inbox /\ UNCHANGED <<host, live, box, cmds, pipe, reports>>
      BY <2>3 DEF ReqAnswer, NoAnswer, GotAnswer
    <3> QED
      BY <1>0, <3>1, LinkFrame DEF LinkTypeOK
  <2> QED
    BY <1>5, <2>1, <2>2, <2>3 DEF Request, RequestRuns
<1>6. ASSUME NEW r \in Runners, Connect(r) PROVE LinkTypeOK'
  <2>1. host[r].gen + 1 \in Conns /\ host[r].gen + 1 \in 0 .. MaxConn
    BY <1>0, <1>6 DEF Connect, Conns, LinkTypeOK
  <2>2. Stamp(r) \in PartialMap(Gens)
    <3>1. \A s \in Sessions : box[r][s] \in Sandbox
      BY <1>0 DEF LinkTypeOK
    <3>2. Stamp(r) \in [{t \in Sessions : Occupies(r, t)} -> Gens]
      BY <3>1 DEF Stamp, Sandbox
    <3> QED
      BY <3>2, PartialMapIntro
  <2>3. <<>> \in Seq(Message)
    OBVIOUS
  <2> QED
    BY <1>0, <1>6, <2>1, <2>2, <2>3 DEF Connect, LinkTypeOK
<1>7. ASSUME NEW r \in Runners, NEW c \in Conns, Handler(r, c) PROVE LinkTypeOK'
  <2>1. CASE ReconcileRunner(r, c) \/ ReconcileRead(r, c) \/ ReconcileDone(r, c) \/ ApplyEvent(r, c)
    BY <1>1, <2>1 DEF ReconcileRunner, ReconcileRead, ReconcileDone, ApplyEvent
  <2>2. ASSUME NEW s \in Sessions, SettleStored(r, c, s) \/ SettleReported(r, c, s) \/ Adopt(r, c, s)
        PROVE  LinkTypeOK'
    BY <1>1, <2>2 DEF SettleStored, SettleReported, Adopt
  <2>3. CASE Serve(r, c)
    <3> DEFINE m == Head(pipe[r])
    <3>1. m \in Message /\ Tail(pipe[r]) \in Seq(Message)
      BY <1>0, <2>3, HeadOfPipe DEF Serve
    <3>2. m.holds \in PartialMap(Gens)
      BY <3>1 DEF Message
    <3> HIDE DEF m
    <3>3. host' = [host EXCEPT ![r].holds = m.holds] /\ pipe' = [pipe EXCEPT ![r] = Tail(@)]
      BY <2>3 DEF Serve, m
    <3>4. inbox' \subseteq Message
      BY <1>0, <2>3, <3>1 DEF Serve, m, LinkTypeOK
    <3>5. UNCHANGED <<live, box, cmds, reports>>
      BY <2>3 DEF Serve
    <3> QED
      BY <1>0, <3>1, <3>2, <3>3, <3>4, <3>5 DEF LinkTypeOK
  <2>4. CASE Drop(r, c)
    <3>1. live' = live \/ live' = [live EXCEPT ![r] = 0]
      BY <2>4 DEF Drop
    <3>2. pipe' = pipe \/ pipe' = [pipe EXCEPT ![r] = <<>>]
      BY <2>4 DEF Drop
    <3>3. host' = host \/ host' = [host EXCEPT ![r].connected = FALSE]
      BY <2>4, Zenon DEF Drop
    <3>4. live' \in [Runners -> 0 .. MaxConn]
      BY <1>0, <3>1 DEF LinkTypeOK
    <3>5. pipe' \in [Runners -> Seq(Message)]
      <4>1. <<>> \in Seq(Message)
        OBVIOUS
      <4> QED
        BY <1>0, <3>2, <4>1 DEF LinkTypeOK
    <3>6. host' \in [Runners -> [gen : 0 .. MaxConn, connected : BOOLEAN, holds : PartialMap(Gens)]]
      <4> DEFINE Host == [gen : 0 .. MaxConn, connected : BOOLEAN, holds : PartialMap(Gens)]
      <4>1. host \in [Runners -> Host]
        BY <1>0 DEF LinkTypeOK
      <4>2. [host[r] EXCEPT !.connected = FALSE] \in Host
        BY <4>1
      <4> HIDE DEF Host
      <4>3. host' \in [Runners -> Host]
        BY <3>3, <4>1, <4>2
      <4> QED
        BY <4>3 DEF Host
    <3>7. UNCHANGED <<box, cmds, inbox, reports>>
      BY <2>4 DEF Drop
    <3> QED
      BY <1>0, <3>4, <3>5, <3>6, <3>7 DEF LinkTypeOK
  <2> QED
    BY <1>7, <2>1, <2>2, <2>3, <2>4 DEF Handler, HandlerRuns
<1>8. ASSUME NEW o \in orphans, Orphan(o) PROVE LinkTypeOK'
  <2>1. CASE OrphanEnds(o)
    BY <1>1, <2>1 DEF OrphanEnds
  <2>2. CASE OrphanSend(o)
    <3>1. o.r \in Runners /\ o.c \in Conns /\ o.s \in Sessions /\ o.left \in 1 .. OrphanDestroyAttempts
      BY <1>0 DEF PlaneTypeOK, OrphanState
    <3>2. <<"orphan", o.r, o.c, o.s, o.left>> \in RequestId
      BY <3>1 DEF RequestId
    <3>3. 0 \in Gens /\ "destroy" \in Op
      BY DEF Gens, Op
    <3>4. cmds' \subseteq Command
      BY <1>0, <2>2, <3>1, <3>2, <3>3, EnqueueType DEF OrphanSend, LinkTypeOK
    <3> QED
      BY <1>0, <2>2, <3>4, LinkFrame DEF OrphanSend
  <2>3. CASE OrphanAnswer(o)
    <3>1. inbox' \subseteq inbox /\ UNCHANGED <<host, live, box, cmds, pipe, reports>>
      BY <2>3 DEF OrphanAnswer, NoAnswer, GotAnswer
    <3> QED
      BY <1>0, <3>1, LinkFrame DEF LinkTypeOK
  <2> QED
    BY <1>8, <2>1, <2>2, <2>3 DEF Orphan
<1>9. CASE Runner
  <2>1. ASSUME NEW cmd \in cmds, LoseCommand(cmd) PROVE LinkTypeOK'
    BY <1>0, <2>1 DEF LoseCommand, LinkTypeOK
  <2> QED
    BY <1>0, <1>9, <2>1, ExecuteType, ReportType DEF Runner
<1> QED
  BY <1>2, <1>3, <1>4, <1>5, <1>6, <1>7, <1>8, <1>9 DEF Next

--------------------
\* The control application in a step: one process moves at a time.

\* a step of the scheduler loop
LEMMA SchedulerType ==
    ASSUME TypeOK, Scheduler
    PROVE  sched' \in SchedulerState /\ create' \in [Sessions -> [Gens -> CreateState]]
<1> USE PlaneAssumption, RunnersAssumption, MaxGenAssumption
<1>0. StoreTypeOK /\ sched \in SchedulerState /\ create \in [Sessions -> [Gens -> CreateState]]
  BY DEF TypeOK, PlaneTypeOK
<1>1. ASSUME NEW s PROVE NextRow(s) \in SchedulerState
  BY <1>0, IdleType DEF NextRow, SchedulerState
<1>2. CASE SchedStart
  BY <1>0, <1>2 DEF SchedStart, SchedulerState
<1>3. ASSUME NEW s \in Sessions, SchedList(s)
      PROVE  sched' \in SchedulerState /\ create' = create
  <2>1. row[s].gen \in Gens /\ row[s].runner \in Runners
    BY <1>0, <1>3 DEF StoreTypeOK, Row, SchedList, ConnectedRunners
  <2>2. sched' = [IdleSched EXCEPT !.pc = "ask", !.todo = {s}, !.r = row[s].runner, !.gen = row[s].gen]
    BY <1>3 DEF SchedList
  <2>3. {s} \in SUBSET Sessions
    OBVIOUS
  <2>4. sched' \in SchedulerState
    BY <2>1, <2>2, <2>3, IdleType DEF SchedulerState
  <2> QED
    BY <1>3, <2>4 DEF SchedList
<1>4. CASE SchedAsk
  <2>1. \/ sched' = [IdleSched EXCEPT !.pc = "resumes"]
        \/ \E n \in 1 .. MaxStatus : sched' = [sched EXCEPT !.pc = "status", !.asked = n]
    BY <1>4 DEF SchedAsk, UnusedStatus
  <2>2. [IdleSched EXCEPT !.pc = "resumes"] \in SchedulerState
    BY IdleType DEF SchedulerState
  <2>3. ASSUME NEW n \in 1 .. MaxStatus PROVE [sched EXCEPT !.pc = "status", !.asked = n] \in SchedulerState
    <3>1. n \in 0 .. MaxStatus
      OBVIOUS
    <3> QED
      BY <1>0, <3>1 DEF SchedulerState
  <2>4. sched' \in SchedulerState
    BY <2>1, <2>2, <2>3
  <2> QED
    BY <1>0, <1>4, <2>4 DEF SchedAsk
<1>5. CASE SchedSettle
  BY <1>0, <1>5, IdleType DEF SchedSettle, SchedulerState
<1>6. CASE SchedRead
  <2> DEFINE queued == {s \in Sessions : Queued(s)}
  <2>1. sched' \in {IdleSched, [IdleSched EXCEPT !.pc = "queue", !.todo = queued]} /\ create' = create
    BY <1>6 DEF SchedRead
  <2>2. queued \in SUBSET Sessions
    OBVIOUS
  <2> HIDE DEF queued
  <2> QED
    BY <1>0, <2>1, <2>2, IdleType DEF SchedulerState
<1>7. CASE SchedPick
  <2>1. \A s \in Sessions : PlaceQueued(s) \subseteq Runners
    BY DEF PlaceQueued, Best, ConnectedRunners
  <2>2. sched.todo \subseteq Sessions
    BY <1>0 DEF SchedulerState
  <2>3. \/ sched' = IdleSched
        \/ \E s \in Sessions : sched' = NextRow(s)
        \/ \E r \in Runners : sched' = [sched EXCEPT !.pc = "place", !.r = r]
    BY <1>7, <2>1, <2>2 DEF SchedPick, Oldest
  <2>4. ASSUME NEW r \in Runners PROVE [sched EXCEPT !.pc = "place", !.r = r] \in SchedulerState
    BY <1>0 DEF SchedulerState
  <2>5. sched' \in SchedulerState
    BY <1>1, <2>3, <2>4, IdleType
  <2> QED
    BY <1>0, <1>7, <2>5 DEF SchedPick
<1>8. CASE SchedPlace
  <2>1. PICK s \in sched.todo :
            /\ sched' = NextRow(s)
            /\ \/ create' = create
               \/ create' = [create EXCEPT ![s][row[s].gen + 1] = [IdleCreate EXCEPT !.pc = "placed", !.r = sched.r]]
    BY <1>8 DEF SchedPlace, Oldest
  <2>2. [IdleCreate EXCEPT !.pc = "placed", !.r = sched.r] \in CreateState
    BY <1>0, IdleType DEF CreateState, SchedulerState
  <2>3. create' \in [Sessions -> [Gens -> CreateState]]
    BY <1>0, <2>1, <2>2
  <2> QED
    BY <1>1, <2>1, <2>3
<1> QED
  BY <1>0, <1>2, <1>3, <1>4, <1>5, <1>6, <1>7, <1>8 DEF Scheduler, SchedulerRuns, SchedStart, SchedSettle

\* a step of a create goroutine
LEMMA CreateGoroutineType ==
    ASSUME TypeOK, NEW s \in Sessions, NEW g \in Gens, CreateGoroutine(s, g)
    PROVE  create' \in [Sessions -> [Gens -> CreateState]]
<1> USE MaxGenAssumption
<1>0. create \in [Sessions -> [Gens -> CreateState]] /\ live \in [Runners -> 0 .. MaxConn] /\ row[s].gen \in Gens
  BY DEF TypeOK, StoreTypeOK, LinkTypeOK, PlaneTypeOK, Row
<1>1. ASSUME NEW pc \in {"refused", "err", "requeue"}, CreateStep(s, g, pc)
      PROVE  create' \in [Sessions -> [Gens -> CreateState]]
  <2>1. [create[s][g] EXCEPT !.pc = pc] \in CreateState
    BY <1>0 DEF CreateState
  <2> QED
    BY <1>0, <1>1, <2>1 DEF CreateStep
<1>2. ASSUME CreateEnds(s, g)
      PROVE  create' \in [Sessions -> [Gens -> CreateState]]
  <2>1. [IdleCreate EXCEPT !.pc = "done"] \in CreateState
    BY IdleType DEF CreateState
  <2> QED
    BY <1>0, <1>2, <2>1 DEF CreateEnds
<1>3. CASE CreateRead(s, g)
  <2>1. PICK gen \in {row[s].gen, 0} :
            create' = [create EXCEPT ![s][g] = [create[s][g] EXCEPT !.pc = "ready", !.gen = gen]]
    BY <1>3 DEF CreateRead
  <2> DEFINE next == [create[s][g] EXCEPT !.pc = "ready", !.gen = gen]
  <2>2. gen \in Gens
    BY <1>0 DEF Gens
  <2>3. next \in CreateState
    <3>1. create[s][g] \in CreateState
      BY <1>0
    <3> QED
      BY <2>2, <3>1 DEF CreateState
  <2>4. create' = [create EXCEPT ![s][g] = next]
    BY <2>1
  <2> HIDE DEF next
  <2> QED
    BY <1>0, <2>3, <2>4
<1>4. CASE CreateDispatch(s, g)
  <2>1. ASSUME Connected(create[s][g].r),
               create' = [create EXCEPT ![s][g].pc = "await", ![s][g].conn = live[create[s][g].r]]
        PROVE  create' \in [Sessions -> [Gens -> CreateState]]
    BY <1>0, <2>1 DEF Connected, CreateState
  <2> QED
    BY <1>1, <1>4, <2>1 DEF CreateDispatch
<1> QED
  BY <1>1, <1>2, <1>3, <1>4 DEF CreateGoroutine, CreateSpecFails, CreateAnswer, CreateUnanswered, CreateRequeue, FailCreate

\* a step of an API request
LEMMA RequestType ==
    ASSUME TypeOK, NEW q \in Requests, Request(q)
    PROVE  req' \in [Requests -> RequestState]
<1> USE PlaneAssumption, RunnersAssumption, MaxGenAssumption
<1>0. /\ req \in [Requests -> RequestState] /\ live \in [Runners -> 0 .. MaxConn]
      /\ Target[q] \in Sessions /\ row[Target[q]] \in Row
  BY DEF TypeOK, StoreTypeOK, LinkTypeOK, PlaneTypeOK
<1>1. ASSUME ReqEnds(q) PROVE req' \in [Requests -> RequestState]
  <2>1. [IdleReq EXCEPT !.pc = "done"] \in RequestState
    BY IdleType DEF RequestState
  <2> QED
    BY <1>0, <1>1, <2>1 DEF ReqEnds
<1>2. ASSUME NEW op \in Op, NEW pc \in {"cancel", "dispatch", "commit", "claim"}, ReqRead(q, op, pc)
      PROVE  req' \in [Requests -> RequestState]
  <2>1. [pc |-> pc, op |-> op, row |-> row[Target[q]], conn |-> 0] \in RequestState
    BY <1>0, LinkAssumption DEF RequestState
  <2> QED
    BY <1>0, <1>2, <2>1 DEF ReqRead
<1>3. CASE DeleteSession(q) \/ SuspendSession(q) \/ ResumeSession(q)
  <2>1. \E op \in Op, pc \in {"cancel", "dispatch", "commit", "claim"} : ReqRead(q, op, pc)
    BY <1>3 DEF DeleteSession, SuspendSession, ResumeSession, Op
  <2> QED
    BY <1>2, <2>1
<1>4. CASE ReqClaim(q)
  <2> DEFINE next == Moved(row[Target[q]], "resuming", req[q].row.runner)
  <2>1. CASE Matches(Target[q], {"suspended_cold"}, req[q].row.gen)
    <3>1. req[q].row.runner \in Runners => MayOpen(Target[q])
      BY <1>4, <2>1 DEF ReqClaim, Transition, Apply
    <3>2. req[q].row.runner \in Runners \cup {NoRunner}
      BY <1>0 DEF RequestState, Row
    <3>3. next \in Row
      BY <1>0, <3>1, <3>2 DEF MayOpen, Moved, Row, SessionState, NonTerminal, NoRunner, Keep, Gens
    <3> HIDE DEF next
    <3>4. req' = [req EXCEPT ![q].pc = "dispatch", ![q].row = next]
      BY <1>4, <2>1 DEF ReqClaim, next
    <3> QED
      BY <1>0, <3>3, <3>4 DEF RequestState
  <2> QED
    BY <1>1, <1>4, <2>1 DEF ReqClaim
<1>5. CASE ReqDispatch(q)
  <2>1. ASSUME Connected(req[q].row.runner),
               req' = [req EXCEPT ![q].pc = "await", ![q].conn = live[req[q].row.runner]]
        PROVE  req' \in [Requests -> RequestState]
    BY <1>0, <2>1 DEF Connected, RequestState
  <2> QED
    BY <1>1, <1>5, <2>1 DEF ReqDispatch
<1>6. CASE ReqAnswer(q)
  <2>1. ASSUME ReqStep(q, "commit") PROVE req' \in [Requests -> RequestState]
    BY <1>0, <2>1 DEF ReqStep, RequestState
  <2> QED
    BY <1>1, <1>6, <2>1 DEF ReqAnswer
<1> QED
  BY <1>1, <1>3, <1>4, <1>5, <1>6 DEF Request, RequestRuns, ReqCommit

\* what a connection's handler writes over its own record
LEMMA HandlerWrite ==
    ASSUME PlaneTypeOK, NEW r \in Runners, NEW c \in Conns, NEW h \in HandlerState,
           h.rest \cup h.adopting \subseteq DOMAIN h.snap,
           conn' = [conn EXCEPT ![r][c] = h]
    PROVE  /\ conn' \in [Runners -> [Conns -> HandlerState]]
           /\ \A t \in Runners, d \in Conns : conn'[t][d].rest \cup conn'[t][d].adopting \subseteq DOMAIN conn'[t][d].snap
<1>1. conn \in [Runners -> [Conns -> HandlerState]]
  BY DEF PlaneTypeOK
<1>2. conn' \in [Runners -> [Conns -> HandlerState]]
  BY <1>1
<1>3. ASSUME NEW t \in Runners, NEW d \in Conns
      PROVE  conn'[t][d] = conn[t][d] \/ conn'[t][d] = h
  BY <1>1
<1>4. ASSUME NEW t \in Runners, NEW d \in Conns
      PROVE  conn'[t][d].rest \cup conn'[t][d].adopting \subseteq DOMAIN conn'[t][d].snap
  BY <1>3, <1>4 DEF PlaneTypeOK
<1> QED
  BY <1>2, <1>4

\* a handler that keeps its announce, or forgets everything
LEMMA IdleHandlerType ==
    ASSUME NEW pc \in {"serving", "closed"}
    PROVE  /\ [IdleConn EXCEPT !.pc = pc] \in HandlerState
           /\ [IdleConn EXCEPT !.pc = pc].rest \cup [IdleConn EXCEPT !.pc = pc].adopting
                 \subseteq DOMAIN [IdleConn EXCEPT !.pc = pc].snap
  BY IdleType DEF HandlerState, IdleConn

\* a step of a connection's handler
LEMMA HandlerType ==
    ASSUME TypeOK, NEW r \in Runners, NEW c \in Conns, Handler(r, c)
    PROVE  /\ conn' \in [Runners -> [Conns -> HandlerState]]
           /\ \A t \in Runners, d \in Conns : conn'[t][d].rest \cup conn'[t][d].adopting \subseteq DOMAIN conn'[t][d].snap
           /\ orphans' \subseteq OrphanState
<1> USE RunnersAssumption, MaxGenAssumption
<1> DEFINE k == conn[r][c]
<1>0. StoreTypeOK /\ LinkTypeOK /\ PlaneTypeOK
  BY DEF TypeOK
<1>1. k \in HandlerState /\ k.rest \cup k.adopting \subseteq DOMAIN k.snap /\ orphans \subseteq OrphanState
  BY <1>0 DEF PlaneTypeOK
<1> HIDE DEF k
<1>2. ASSUME NEW h \in HandlerState, h.rest \cup h.adopting \subseteq DOMAIN h.snap,
             conn' = [conn EXCEPT ![r][c] = h], orphans' = orphans
      PROVE  /\ conn' \in [Runners -> [Conns -> HandlerState]]
             /\ \A t \in Runners, d \in Conns : conn'[t][d].rest \cup conn'[t][d].adopting \subseteq DOMAIN conn'[t][d].snap
             /\ orphans' \subseteq OrphanState
  BY <1>0, <1>1, <1>2, HandlerWrite
<1>3. CASE ReconcileRunner(r, c)
  <2> DEFINE h == [k EXCEPT !.pc = IF c < host[r].gen THEN "serving" ELSE "accepted"]
  <2>1. h \in HandlerState /\ h.rest = k.rest /\ h.adopting = k.adopting /\ h.snap = k.snap
    BY <1>1 DEF HandlerState
  <2>2. conn' = [conn EXCEPT ![r][c] = h] /\ orphans' = orphans
    BY <1>3 DEF ReconcileRunner, k
  <2> HIDE DEF h
  <2> QED
    BY <1>1, <1>2, <2>1, <2>2
<1>4. CASE ReconcileRead(r, c)
  <2> DEFINE here == SessionsOnRunner(r)
             stored == [s \in here |-> row[s].state]
             h == [k EXCEPT !.pc = "settling", !.stored = stored, !.rest = DOMAIN k.snap \ here]
  <2>1. here \in SUBSET Sessions /\ \A s \in here : row[s].state \in PlacedStates
    BY DEF SessionsOnRunner
  <2>2. stored \in PartialMap(PlacedStates)
    BY <2>1, PartialMapIntro
  <2>3. DOMAIN k.snap \ here \in SUBSET Sessions
    BY <1>0, SnapType DEF k
  <2>4. conn' = [conn EXCEPT ![r][c] = h] /\ orphans' = orphans
    BY <1>4 DEF ReconcileRead, k
  <2> HIDE DEF here, stored
  <2>5. h \in HandlerState /\ h.rest = DOMAIN k.snap \ here /\ h.adopting = k.adopting /\ h.snap = k.snap
    BY <1>1, <2>2, <2>3 DEF HandlerState
  <2> HIDE DEF h
  <2> QED
    BY <1>1, <1>2, <2>4, <2>5
<1>5. ASSUME NEW s \in Sessions, SettleStored(r, c, s)
      PROVE  /\ conn' \in [Runners -> [Conns -> HandlerState]]
             /\ \A t \in Runners, d \in Conns : conn'[t][d].rest \cup conn'[t][d].adopting \subseteq DOMAIN conn'[t][d].snap
             /\ orphans' \subseteq OrphanState
  <2> DEFINE left == DOMAIN k.stored \ {s}
             stored == [t \in left |-> k.stored[t]]
             h == [k EXCEPT !.stored = stored]
  <2>1. left \in SUBSET Sessions /\ \A t \in left : k.stored[t] \in PlacedStates
    BY <1>0, SnapType DEF k
  <2>2. stored \in PartialMap(PlacedStates)
    BY <2>1, PartialMapIntro
  <2>3. conn' = [conn EXCEPT ![r][c] = h] /\ orphans' = orphans
    BY <1>5 DEF SettleStored, k
  <2> HIDE DEF stored
  <2>4. h \in HandlerState /\ h.rest = k.rest /\ h.adopting = k.adopting /\ h.snap = k.snap
    BY <1>1, <2>2 DEF HandlerState
  <2> HIDE DEF h
  <2> QED
    BY <1>1, <1>2, <2>3, <2>4
<1>6. ASSUME NEW s \in Sessions, SettleReported(r, c, s)
      PROVE  /\ conn' \in [Runners -> [Conns -> HandlerState]]
             /\ \A t \in Runners, d \in Conns : conn'[t][d].rest \cup conn'[t][d].adopting \subseteq DOMAIN conn'[t][d].snap
             /\ orphans' \subseteq OrphanState
  <2>1. PICK destroy \in {k.destroy \cup {s}, k.destroy}, adopting \in {{s}, {}} :
            /\ conn' = [conn EXCEPT ![r][c] = [@ EXCEPT !.rest = k.rest \ {s}, !.destroy = destroy, !.adopting = adopting]]
            /\ orphans' = orphans /\ s \in k.rest
    BY <1>6 DEF SettleReported, k
  <2> DEFINE h == [k EXCEPT !.rest = k.rest \ {s}, !.destroy = destroy, !.adopting = adopting]
  <2>2. conn' = [conn EXCEPT ![r][c] = h]
    BY <2>1 DEF k
  <2>3. destroy \in SUBSET Sessions /\ adopting \in SUBSET Sessions /\ k.rest \ {s} \in SUBSET Sessions
    BY <1>1 DEF HandlerState
  <2>4. h \in HandlerState /\ h.rest = k.rest \ {s} /\ h.adopting = adopting /\ h.snap = k.snap
    BY <1>1, <2>3 DEF HandlerState
  <2>5. h.rest \cup h.adopting \subseteq DOMAIN h.snap
    BY <1>1, <2>1, <2>4
  <2> HIDE DEF h
  <2> QED
    BY <1>2, <2>1, <2>2, <2>4, <2>5
<1>7. ASSUME NEW s \in Sessions, Adopt(r, c, s)
      PROVE  /\ conn' \in [Runners -> [Conns -> HandlerState]]
             /\ \A t \in Runners, d \in Conns : conn'[t][d].rest \cup conn'[t][d].adopting \subseteq DOMAIN conn'[t][d].snap
             /\ orphans' \subseteq OrphanState
  <2> DEFINE h == [k EXCEPT !.adopting = {}]
  <2>1. conn' = [conn EXCEPT ![r][c] = h] /\ orphans' = orphans
    BY <1>7 DEF Adopt, k
  <2>2. h \in HandlerState /\ h.rest = k.rest /\ h.adopting = {} /\ h.snap = k.snap
    BY <1>1 DEF HandlerState
  <2> HIDE DEF h
  <2> QED
    BY <1>1, <1>2, <2>1, <2>2
<1>8. CASE ReconcileDone(r, c)
  <2>1. k.destroy \subseteq Sessions
    BY <1>1 DEF HandlerState
  <2>2. orphans' = orphans \cup {[r |-> r, c |-> c, s |-> s, left |-> OrphanDestroyAttempts, pc |-> "send"] : s \in k.destroy}
    BY <1>8 DEF ReconcileDone, k
  <2>3. orphans' \subseteq OrphanState
    BY <1>1, <2>1, <2>2 DEF OrphanState, OrphanDestroyAttempts
  <2>4. conn' = [conn EXCEPT ![r][c] = [IdleConn EXCEPT !.pc = "serving"]]
    BY <1>8 DEF ReconcileDone
  <2> QED
    BY <1>0, <2>3, <2>4, IdleHandlerType, HandlerWrite
<1>9. CASE Serve(r, c)
  <2> DEFINE m == Head(pipe[r])
             e == [s |-> m.s, state |-> m.state, gen |-> row[m.s].gen]
             h == [k EXCEPT !.pc = "applying", !.event = {e}]
  <2>1. m \in Message
    BY <1>0, <1>9, HeadOfPipe DEF Serve
  <2>2. m.s \in Sessions
    BY <2>1 DEF Message
  <2>3. row[m.s].gen \in Gens
    BY <1>0, <2>2 DEF StoreTypeOK, Row
  <2>4. /\ orphans' = orphans
        /\ \/ conn' = conn
           \/ m.state \in Vocabulary /\ conn' = [conn EXCEPT ![r][c] = h]
    BY <1>9 DEF Serve, k
  <2>5. CASE conn' = conn
    BY <1>0, <2>4, <2>5 DEF PlaneTypeOK
  <2>6. CASE m.state \in Vocabulary /\ conn' = [conn EXCEPT ![r][c] = h]
    <3> HIDE DEF m
    <3>1. {e} \in SUBSET PendingEvent
      BY <2>2, <2>3, <2>6 DEF PendingEvent
    <3> HIDE DEF e
    <3>2. h \in HandlerState /\ h.rest = k.rest /\ h.adopting = k.adopting /\ h.snap = k.snap
      BY <1>1, <3>1 DEF HandlerState
    <3> HIDE DEF h
    <3> QED
      BY <1>1, <1>2, <2>4, <2>6, <3>2
  <2> QED
    BY <2>4, <2>5, <2>6
<1>10. CASE ApplyEvent(r, c)
  <2>1. conn' = [conn EXCEPT ![r][c] = [IdleConn EXCEPT !.pc = "serving"]] /\ orphans' = orphans
    BY <1>10 DEF ApplyEvent
  <2> QED
    BY <1>2, <2>1, IdleHandlerType
<1>11. CASE Drop(r, c)
  <2>1. conn' = [conn EXCEPT ![r][c] = [IdleConn EXCEPT !.pc = "closed"]] /\ orphans' = orphans
    BY <1>11 DEF Drop
  <2> QED
    BY <1>2, <2>1, IdleHandlerType
<1> QED
  BY <1>3, <1>4, <1>5, <1>6, <1>7, <1>8, <1>9, <1>10, <1>11 DEF Handler, HandlerRuns

\* a step of an orphan-destroying goroutine
LEMMA OrphanType ==
    ASSUME TypeOK, NEW o \in orphans, Orphan(o)
    PROVE  orphans' \subseteq OrphanState
<1>1. orphans \subseteq OrphanState /\ o \in OrphanState
  BY DEF TypeOK, PlaneTypeOK
<1>2. [o EXCEPT !.pc = "await"] \in OrphanState
  BY <1>1 DEF OrphanState
<1>3. Retry(o) \subseteq OrphanState
  <2>1. o.left \in 1 .. OrphanDestroyAttempts
    BY <1>1 DEF OrphanState
  <2>2. o.left # 1 => o.left - 1 \in 1 .. OrphanDestroyAttempts
    BY <2>1 DEF OrphanDestroyAttempts
  <2>3. o.left # 1 => [o EXCEPT !.pc = "send", !.left = o.left - 1] \in OrphanState
    BY <1>1, <2>2 DEF OrphanState
  <2> QED
    BY <2>3 DEF Retry
<1>4. orphans' \subseteq orphans \cup {[o EXCEPT !.pc = "await"]} \cup Retry(o)
  BY DEF Orphan, OrphanSend, OrphanAnswer, OrphanEnds
<1> QED
  BY <1>1, <1>2, <1>3, <1>4

\* a step of the system keeps the control application well typed
LEMMA PlaneStep ==
    ASSUME TypeOK, [Next]_vars
    PROVE  PlaneTypeOK'
<1>0. StoreTypeOK /\ LinkTypeOK /\ PlaneTypeOK
  BY DEF TypeOK
<1>1. CASE UNCHANGED vars \/ Runner
  BY <1>0, <1>1 DEF vars, ctlVars, Runner, PlaneTypeOK
<1>2. ASSUME NEW s \in Sessions, CreateSession(s) PROVE PlaneTypeOK'
  <2>1. order' \in Seq(Sessions)
    BY <1>0, <1>2, AppendProperties DEF CreateSession, PlaneTypeOK
  <2> QED
    BY <1>0, <1>2, <2>1 DEF CreateSession, PlaneTypeOK
<1>3. CASE Scheduler
  <2>1. UNCHANGED <<order, req, conn, orphans>>
    BY <1>3 DEF Scheduler, SchedulerRuns, SchedStart, SchedList, SchedAsk, SchedSettle, SchedRead, SchedPick, SchedPlace
  <2> QED
    BY <1>0, <1>3, <2>1, SchedulerType DEF PlaneTypeOK
<1>4. ASSUME NEW s \in Sessions, NEW g \in Gens, CreateGoroutine(s, g) PROVE PlaneTypeOK'
  <2>1. UNCHANGED <<order, sched, req, conn, orphans>>
    BY <1>4 DEF CreateGoroutine, CreateRead, CreateSpecFails, CreateDispatch, CreateAnswer, CreateUnanswered,
       CreateRequeue, FailCreate
  <2> QED
    BY <1>0, <1>4, <2>1, CreateGoroutineType DEF PlaneTypeOK
<1>5. ASSUME NEW q \in Requests, Request(q) PROVE PlaneTypeOK'
  <2>1. UNCHANGED <<order, sched, create, conn, orphans>>
    BY <1>5 DEF Request, RequestRuns, DeleteSession, SuspendSession, ResumeSession, ReqClaim, ReqDispatch,
       ReqAnswer, ReqCommit
  <2> QED
    BY <1>0, <1>5, <2>1, RequestType DEF PlaneTypeOK
<1>6. ASSUME NEW r \in Runners, Connect(r) PROVE PlaneTypeOK'
  <2> DEFINE c == host[r].gen + 1
             h == [IdleConn EXCEPT !.pc = "announced", !.snap = AnnounceOf(r)]
             up == {t \in Sessions : Announced(box[r][t])}
  <2>1. AnnounceOf(r) \in PartialMap(AnnouncedStates)
    <3>1. AnnounceOf(r) \in [up -> AnnouncedStates]
      BY DEF AnnounceOf, Announced, AnnouncedStates
    <3> QED
      BY <3>1, PartialMapIntro
  <2>2. h \in HandlerState /\ h.rest = {} /\ h.adopting = {}
    BY <2>1, IdleType DEF HandlerState, IdleConn
  <2>3. c \in Conns /\ conn' = [conn EXCEPT ![r][c] = h] /\ UNCHANGED <<order, sched, create, req, orphans>>
    BY <1>6 DEF Connect
  <2> HIDE DEF c, h
  <2> QED
    BY <1>0, <2>2, <2>3, HandlerWrite DEF PlaneTypeOK
<1>7. ASSUME NEW r \in Runners, NEW c \in Conns, Handler(r, c) PROVE PlaneTypeOK'
  <2>1. ASSUME NEW s \in Sessions, SettleStored(r, c, s) \/ SettleReported(r, c, s) \/ Adopt(r, c, s)
        PROVE  UNCHANGED <<order, sched, create, req>>
    BY <2>1 DEF SettleStored, SettleReported, Adopt
  <2>2. CASE ReconcileRunner(r, c) \/ ReconcileRead(r, c) \/ ReconcileDone(r, c) \/ ApplyEvent(r, c)
    BY <1>0, <1>7, <2>2, HandlerType DEF ReconcileRunner, ReconcileRead, ReconcileDone, ApplyEvent, PlaneTypeOK
  <2>3. CASE Serve(r, c) \/ Drop(r, c)
    BY <1>0, <1>7, <2>3, HandlerType DEF Serve, Drop, PlaneTypeOK
  <2> QED
    BY <1>0, <1>7, <2>1, <2>2, <2>3, HandlerType DEF Handler, HandlerRuns, PlaneTypeOK
<1>8. ASSUME NEW o \in orphans, Orphan(o) PROVE PlaneTypeOK'
  <2>1. UNCHANGED <<order, sched, create, req, conn>>
    BY <1>8 DEF Orphan, OrphanSend, OrphanAnswer, OrphanEnds
  <2> QED
    BY <1>0, <1>8, <2>1, OrphanType DEF PlaneTypeOK
<1> QED
  BY <1>1, <1>2, <1>3, <1>4, <1>5, <1>6, <1>7, <1>8 DEF Next

--------------------
\* Type correctness.

\* Whatever the scheduler, the requests, the connection handlers and the
\* runners do, and in whatever order, every row, message, command and process
\* record is well formed: a placement names a runner of the fleet, and no
\* transition moves a generation past the ones opened for it.
THEOREM TypeCorrect == Spec => []TypeOK
<1>1. TypeOK /\ [Next]_vars => TypeOK'
  BY StoreStep, LinkStep, PlaneStep DEF TypeOK
<1> QED
  BY <1>1, TypeInit, PTL DEF Spec

--------------------
\* A session that has run is never created again.

\* the rows that resume requests hold stay rows of a started session
LEMMA ResumeRowsStep ==
    ASSUME TypeOK, ResumeRows, [Next]_vars
    PROVE  ResumeRows'
<1> USE PlaneAssumption
<1>0. req \in [Requests -> RequestState]
  BY DEF TypeOK, PlaneTypeOK
<1>1. ASSUME req' = req PROVE ResumeRows'
  BY <1>1 DEF ResumeRows
<1>2. ASSUME NEW q \in Requests, Request(q) PROVE ResumeRows'
  <2>1. ASSUME NEW x \in RequestState, req' = [req EXCEPT ![q] = x], x.op = "resume" => x.row.state \in NonTerminal
        PROVE  ResumeRows'
    BY <1>0, <2>1 DEF ResumeRows
  <2>2. ASSUME ReqEnds(q) PROVE ResumeRows'
    <3>1. [IdleReq EXCEPT !.pc = "done"] \in RequestState /\ [IdleReq EXCEPT !.pc = "done"].op = "none"
      BY IdleType DEF RequestState, IdleReq
    <3> QED
      BY <2>1, <2>2, <3>1 DEF ReqEnds
  <2>3. ASSUME NEW op, NEW pc, ReqRead(q, op, pc), op = "resume" => row[Target[q]].state \in NonTerminal
        PROVE  ResumeRows'
    BY <1>0, <2>3 DEF ReqRead, ResumeRows
  <2>4. CASE DeleteSession(q)
    BY <2>3, <2>4 DEF DeleteSession
  <2>5. CASE SuspendSession(q)
    BY <2>3, <2>5 DEF SuspendSession
  <2>6. CASE ResumeSession(q)
    <3>1. row[Target[q]].state \in NonTerminal /\ \E pc : ReqRead(q, "resume", pc)
      BY <2>6 DEF ResumeSession, NonTerminal
    <3> QED
      BY <2>3, <3>1
  <2>7. CASE ReqClaim(q)
    <3> DEFINE next == Moved(row[Target[q]], "resuming", req[q].row.runner)
    <3>1. next.state \in NonTerminal
      BY DEF Moved, NonTerminal
    <3>2. ReqEnds(q) \/ req' = [req EXCEPT ![q].pc = "dispatch", ![q].row = next]
      BY <2>7 DEF ReqClaim
    <3> HIDE DEF next
    <3>3. ASSUME req' = [req EXCEPT ![q].pc = "dispatch", ![q].row = next] PROVE ResumeRows'
      BY <1>0, <3>1, <3>3 DEF ResumeRows, RequestState
    <3> QED
      BY <2>2, <3>2, <3>3
  <2>8. CASE ReqDispatch(q)
    <3>1. ReqEnds(q) \/ \E c : req' = [req EXCEPT ![q].pc = "await", ![q].conn = c]
      BY <2>8 DEF ReqDispatch
    <3>2. ASSUME NEW c, req' = [req EXCEPT ![q].pc = "await", ![q].conn = c] PROVE ResumeRows'
      BY <1>0, <3>2 DEF ResumeRows, RequestState
    <3> QED
      BY <2>2, <3>1, <3>2
  <2>9. CASE ReqAnswer(q)
    <3>1. ASSUME ReqStep(q, "commit") PROVE ResumeRows'
      BY <1>0, <3>1 DEF ReqStep, ResumeRows, RequestState
    <3> QED
      BY <2>2, <2>9, <3>1 DEF ReqAnswer
  <2> QED
    BY <1>2, <2>2, <2>4, <2>5, <2>6, <2>7, <2>8, <2>9 DEF Request, RequestRuns, ReqCommit
<1>3. CASE Scheduler
  BY <1>1, <1>3 DEF Scheduler, SchedulerRuns, SchedStart, SchedList, SchedAsk, SchedSettle, SchedRead, SchedPick, SchedPlace
<1>4. ASSUME NEW s \in Sessions, NEW g \in Gens, CreateGoroutine(s, g) PROVE req' = req
  BY <1>4 DEF CreateGoroutine, CreateRead, CreateSpecFails, CreateDispatch, CreateAnswer, CreateUnanswered,
     CreateRequeue, FailCreate
<1>5. ASSUME NEW r \in Runners, NEW c \in Conns, Handler(r, c) PROVE req' = req
  <2>1. ASSUME NEW s \in Sessions, SettleStored(r, c, s) \/ SettleReported(r, c, s) \/ Adopt(r, c, s) PROVE req' = req
    BY <2>1 DEF SettleStored, SettleReported, Adopt
  <2>2. CASE ReconcileRunner(r, c) \/ ReconcileRead(r, c) \/ ReconcileDone(r, c) \/ ApplyEvent(r, c)
    BY <2>2 DEF ReconcileRunner, ReconcileRead, ReconcileDone, ApplyEvent
  <2>3. CASE Serve(r, c) \/ Drop(r, c)
    BY <2>3 DEF Serve, Drop
  <2> QED
    BY <1>5, <2>1, <2>2, <2>3 DEF Handler, HandlerRuns
<1>6. ASSUME NEW o \in orphans, Orphan(o) PROVE req' = req
  BY <1>6 DEF Orphan, OrphanSend, OrphanAnswer, OrphanEnds
<1>7. CASE UNCHANGED vars \/ Runner
  BY <1>1, <1>7 DEF vars, ctlVars, Runner
<1>8. CASE (\E s \in Sessions : CreateSession(s)) \/ (\E r \in Runners : Connect(r))
  BY <1>1, <1>8 DEF CreateSession, Connect
<1> QED
  BY <1>1, <1>2, <1>3, <1>4, <1>5, <1>6, <1>7, <1>8 DEF Next

\* "Never enqueue this workspace as a create": once a session has left the
\* queued and creating states nothing returns it there - neither a requeue, a
\* reconcile from rows read earlier, an adoption nor a late event - and a
\* terminal row stays terminal.  The inductive part is that a request about to
\* commit a resume holds a row that was alive when it was read.
THEOREM NeverRecreated == Spec => StartedNeverRecreated
<1>1. Init => ResumeRows
  BY DEF Init, ResumeRows, IdleReq
<1>2. ASSUME TypeOK, ResumeRows, [Next]_vars, NEW s \in Sessions
      PROVE  StaysStarted(s)
  <2>0. row \in [Sessions -> Row]
    BY <1>2 DEF TypeOK, StoreTypeOK
  <2>1. ASSUME row'[s] = row[s] PROVE StaysStarted(s)
    BY <2>1 DEF StaysStarted
  <2>2. ASSUME NEW t \in Sessions, Insert(t) PROVE StaysStarted(s)
    <3>1. CASE t = s
      BY <2>0, <2>2, <3>1 DEF Insert, Unstarted, StaysStarted
    <3>2. CASE t # s
      BY <2>0, <2>1, <2>2, <3>2 DEF Insert
    <3> QED
      BY <3>1, <3>2
  <2>3. ASSUME NEW t \in Sessions, Moves(t) PROVE StaysStarted(s)
    <3>1. PICK from, to, runner, expected : Transition(t, from, to, runner, expected) /\ Lawful(from, to)
      BY <1>2, <2>3 DEF Moves
    <3>2. CASE row' # row /\ t = s
      <4>1. row[s].state \in from /\ row'[s].state = to
        BY <2>0, <3>1, <3>2 DEF Transition, Matches, Apply, Moved
      <4> QED
        BY <3>1, <4>1 DEF Lawful, StaysStarted
    <3>3. CASE row' = row \/ t # s
      BY <2>0, <2>1, <3>1, <3>3 DEF Transition, Apply
    <3> QED
      BY <3>2, <3>3
  <2> QED
    BY <1>2, <2>1, <2>2, <2>3, RowTransitions
<1>3. ASSUME TypeOK, ResumeRows, [Next]_vars
      PROVE  [\A s \in Sessions : StaysStarted(s)]_vars
  BY <1>2, <1>3
<1>4. ResumeRows /\ TypeOK /\ [Next]_vars => ResumeRows'
  BY ResumeRowsStep
<1> QED
  BY <1>1, <1>3, <1>4, TypeCorrect, PTL DEF Spec, StartedNeverRecreated

--------------------
\* An event moves only the placement it was checked against.

\* the current placement of a row is the one its generation was opened for
RowPlaced ==
    \A s \in Sessions : /\ row[s].runner \in Runners => opened[s][row[s].gen] = row[s].runner
                        /\ row[s].state = "absent" => row[s].gen = 0

\* an event waiting to be applied names a generation opened for the handler's
\* own runner, and none the row has still to reach
EventPlaced(r, e) == e.gen <= row[e.s].gen /\ opened[e.s][e.gen] = r

EventsPlaced == \A r \in Runners, c \in Conns : \A e \in conn[r][c].event : EventPlaced(r, e)

PlacementInv == RowPlaced /\ EventsPlaced

\* generations only grow, and what one was opened for is never rewritten
LEMMA HistoryKept ==
    ASSUME TypeOK, RowPlaced, [Next]_vars
    PROVE  /\ RowPlaced'
           /\ \A s \in Sessions : /\ row[s].gen <= row'[s].gen
                                  /\ \A g \in Gens : g <= row[s].gen => opened'[s][g] = opened[s][g]
<1> USE RunnersAssumption, MaxGenAssumption
<1>0. row \in [Sessions -> Row] /\ opened \in [Sessions -> [Gens -> Runners \cup {NoRunner}]]
  BY DEF TypeOK, StoreTypeOK
<1>1. \A s \in Sessions : row[s].gen \in Gens /\ row[s].gen \in Int
  BY <1>0 DEF Row, Gens
<1>2. CASE UNCHANGED <<row, opened>>
  BY <1>1, <1>2 DEF RowPlaced
<1>3. ASSUME NEW t \in Sessions, Insert(t)
      PROVE  /\ RowPlaced'
             /\ \A s \in Sessions : /\ row[s].gen <= row'[s].gen
                                    /\ \A g \in Gens : g <= row[s].gen => opened'[s][g] = opened[s][g]
  <2>0. row[t].gen = 0
    <3>1. row[t].state = "absent"
      BY <1>3 DEF Insert
    <3> QED
      BY <3>1 DEF RowPlaced
  <2>1. /\ opened' = opened
        /\ row' = [row EXCEPT ![t] = [state |-> "queued", runner |-> NoRunner, gen |-> 1]]
    BY <1>3 DEF Insert
  <2>2. RowPlaced'
    BY <1>0, <2>1 DEF RowPlaced, NoRunner
  <2>3. \A s \in Sessions : row[s].gen <= row'[s].gen
    BY <1>0, <1>1, <2>0, <2>1
  <2> QED
    BY <2>1, <2>2, <2>3
<1>4. ASSUME NEW t \in Sessions, Moves(t)
      PROVE  /\ RowPlaced'
             /\ \A s \in Sessions : /\ row[s].gen <= row'[s].gen
                                    /\ \A g \in Gens : g <= row[s].gen => opened'[s][g] = opened[s][g]
  <2>1. PICK to, runner : /\ to # "absent" /\ runner \in Runners \cup {NoRunner, Keep}
                          /\ Apply(t, to, runner) \/ UNCHANGED <<row, opened>>
    BY <1>4 DEF Moves, Transition
  <2>2. CASE Apply(t, to, runner) /\ runner \in Runners
    <3>1. row[t].gen + 1 \in Gens
      BY <1>1, <2>2 DEF Apply, MayOpen, Gens
    <3>2. row' = [row EXCEPT ![t] = [state |-> to, runner |-> runner, gen |-> row[t].gen + 1]]
      <4>1. runner # Keep
        BY <2>2 DEF Keep
      <4> QED
        BY <2>2, <4>1 DEF Apply, Moved
    <3>3. opened' = [opened EXCEPT ![t][row[t].gen + 1] = runner]
      BY <2>2 DEF Apply
    <3>4. RowPlaced'
      BY <1>0, <2>1, <3>1, <3>2, <3>3 DEF RowPlaced
    <3>5. ASSUME NEW s \in Sessions
          PROVE  row[s].gen <= row'[s].gen /\ \A g \in Gens : g <= row[s].gen => opened'[s][g] = opened[s][g]
      BY <1>0, <1>1, <3>2, <3>3 DEF Gens
    <3> QED
      BY <3>4, <3>5
  <2>3. CASE Apply(t, to, runner) /\ runner \notin Runners
    <3>1. opened' = opened
      BY <2>3 DEF Apply
    <3>2. row' = [row EXCEPT ![t] = [state |-> to, runner |-> IF runner = Keep THEN row[t].runner ELSE NoRunner, gen |-> row[t].gen]]
      BY <2>1, <2>3 DEF Apply, Moved
    <3>3. RowPlaced'
      BY <1>0, <2>1, <3>1, <3>2 DEF RowPlaced, NoRunner
    <3>4. \A s \in Sessions : row'[s].gen = row[s].gen
      BY <1>0, <3>2
    <3> QED
      BY <1>1, <3>1, <3>3, <3>4
  <2> QED
    BY <1>2, <2>1, <2>2, <2>3
<1> QED
  BY <1>2, <1>3, <1>4, RowTransitions

\* an event of r about the row as it stands
Checked(r, e) == e.s \in Sessions /\ row[e.s].runner = r /\ e.gen = row[e.s].gen

\* the step writes connection c's record, and what waits there waited before
\* or has just been checked
HandlerWrites(r, c) ==
    \E h : /\ conn' = [conn EXCEPT ![r][c] = h]
           /\ \A e \in h.event : e \in conn[r][c].event \/ Checked(r, e)

\* a handler step and the events it holds
LEMMA HandlerEvents ==
    ASSUME TypeOK, NEW r \in Runners, NEW c \in Conns, Handler(r, c)
    PROVE  HandlerWrites(r, c)
<1> DEFINE k == conn[r][c]
<1>0. conn \in [Runners -> [Conns -> HandlerState]] /\ k \in HandlerState
  BY DEF TypeOK, PlaneTypeOK
<1>1. ASSUME NEW h, h.event \subseteq k.event, conn' = [conn EXCEPT ![r][c] = h]
      PROVE  HandlerWrites(r, c)
  BY <1>1 DEF HandlerWrites
<1>2. CASE ReconcileRunner(r, c)
  <2> DEFINE h == [k EXCEPT !.pc = IF c < host[r].gen THEN "serving" ELSE "accepted"]
  <2>1. conn' = [conn EXCEPT ![r][c] = h]
    BY <1>2 DEF ReconcileRunner
  <2>2. h.event = k.event
    BY <1>0 DEF HandlerState
  <2> HIDE DEF h
  <2> QED
    BY <1>1, <2>1, <2>2
<1>3. CASE ReconcileRead(r, c)
  <2> DEFINE h == [k EXCEPT !.pc = "settling", !.stored = [s \in SessionsOnRunner(r) |-> row[s].state],
                            !.rest = DOMAIN k.snap \ SessionsOnRunner(r)]
  <2>1. conn' = [conn EXCEPT ![r][c] = h]
    BY <1>3 DEF ReconcileRead
  <2>2. h.event = k.event
    BY <1>0 DEF HandlerState
  <2> HIDE DEF h
  <2> QED
    BY <1>1, <2>1, <2>2
<1>4. ASSUME NEW s \in Sessions, SettleStored(r, c, s)
      PROVE  HandlerWrites(r, c)
  <2> DEFINE h == [k EXCEPT !.stored = [t \in DOMAIN k.stored \ {s} |-> k.stored[t]]]
  <2>1. conn' = [conn EXCEPT ![r][c] = h]
    BY <1>4 DEF SettleStored
  <2>2. h.event = k.event
    BY <1>0 DEF HandlerState
  <2> HIDE DEF h
  <2> QED
    BY <1>1, <2>1, <2>2
<1>5. ASSUME NEW s \in Sessions, SettleReported(r, c, s)
      PROVE  HandlerWrites(r, c)
  <2>1. PICK destroy, adopting :
            conn' = [conn EXCEPT ![r][c] = [k EXCEPT !.rest = k.rest \ {s}, !.destroy = destroy, !.adopting = adopting]]
    BY <1>5 DEF SettleReported
  <2> DEFINE h == [k EXCEPT !.rest = k.rest \ {s}, !.destroy = destroy, !.adopting = adopting]
  <2>2. h.event = k.event
    BY <1>0 DEF HandlerState
  <2> HIDE DEF h
  <2> QED
    BY <1>1, <2>1, <2>2 DEF h
<1>6. ASSUME NEW s \in Sessions, Adopt(r, c, s)
      PROVE  HandlerWrites(r, c)
  <2>1. conn' = [conn EXCEPT ![r][c] = [k EXCEPT !.adopting = {}]]
    BY <1>6 DEF Adopt
  <2>2. [k EXCEPT !.adopting = {}].event = k.event
    BY <1>0 DEF HandlerState
  <2> QED
    BY <1>1, <2>1, <2>2
<1>7. CASE ReconcileDone(r, c) \/ ApplyEvent(r, c) \/ Drop(r, c)
  <2>1. PICK pc \in {"serving", "closed"} : conn' = [conn EXCEPT ![r][c] = [IdleConn EXCEPT !.pc = pc]]
    BY <1>7 DEF ReconcileDone, ApplyEvent, Drop
  <2> DEFINE h == [IdleConn EXCEPT !.pc = pc]
  <2>2. h.event = {}
    BY DEF IdleConn
  <2> HIDE DEF h
  <2> QED
    BY <1>1, <2>1, <2>2 DEF h
<1>8. CASE Serve(r, c)
  <2> DEFINE m == Head(pipe[r])
             e == [s |-> m.s, state |-> m.state, gen |-> row[m.s].gen]
             h == [k EXCEPT !.pc = "applying", !.event = {e}]
  <2>1. \/ conn' = conn
        \/ row[m.s].runner = r /\ conn' = [conn EXCEPT ![r][c] = h]
    BY <1>8 DEF Serve
  <2>2. m.s \in Sessions
    <3>1. m \in Message
      BY <1>8, HeadOfPipe DEF Serve, TypeOK
    <3> QED
      BY <3>1 DEF Message
  <2>3. CASE conn' = conn
    <3>1. conn' = [conn EXCEPT ![r][c] = k]
      BY <1>0, <2>3
    <3> QED
      BY <1>1, <3>1
  <2>4. CASE row[m.s].runner = r /\ conn' = [conn EXCEPT ![r][c] = h]
    <3> HIDE DEF m
    <3>1. h.event = {e} /\ e.s = m.s /\ e.gen = row[m.s].gen
      BY <1>0 DEF HandlerState
    <3> HIDE DEF h, e
    <3>2. Checked(r, e)
      BY <2>2, <2>4, <3>1 DEF Checked
    <3> QED
      BY <2>4, <3>1, <3>2 DEF HandlerWrites
  <2> QED
    BY <2>1, <2>3, <2>4
<1> QED
  BY <1>2, <1>3, <1>4, <1>5, <1>6, <1>7, <1>8 DEF Handler, HandlerRuns

\* only a handler and a new connection write a handler's record
LEMMA ConnWriters ==
    ASSUME [Next]_vars
    PROVE  \/ conn' = conn
           \/ \E r \in Runners : Connect(r)
           \/ \E r \in Runners, c \in Conns : Handler(r, c)
<1>1. CASE UNCHANGED vars \/ Runner
  BY <1>1 DEF vars, ctlVars, Runner
<1>2. CASE \E s \in Sessions : CreateSession(s)
  BY <1>2 DEF CreateSession
<1>3. CASE Scheduler
  BY <1>3 DEF Scheduler, SchedulerRuns, SchedStart, SchedList, SchedAsk, SchedSettle, SchedRead, SchedPick, SchedPlace
<1>4. ASSUME NEW s \in Sessions, NEW g \in Gens, CreateGoroutine(s, g) PROVE conn' = conn
  BY <1>4 DEF CreateGoroutine, CreateRead, CreateSpecFails, CreateDispatch, CreateAnswer, CreateUnanswered,
     CreateRequeue, FailCreate
<1>5. ASSUME NEW q \in Requests, Request(q) PROVE conn' = conn
  BY <1>5 DEF Request, RequestRuns, DeleteSession, SuspendSession, ResumeSession, ReqClaim, ReqDispatch,
     ReqAnswer, ReqCommit
<1>6. ASSUME NEW o \in orphans, Orphan(o) PROVE conn' = conn
  BY <1>6 DEF Orphan, OrphanSend, OrphanAnswer, OrphanEnds
<1> QED
  BY <1>1, <1>2, <1>3, <1>4, <1>5, <1>6 DEF Next

\* the placement invariant is inductive
LEMMA PlacementStep ==
    ASSUME TypeOK, PlacementInv, [Next]_vars
    PROVE  PlacementInv'
<1> USE RunnersAssumption, MaxGenAssumption
<1>0. /\ RowPlaced /\ conn \in [Runners -> [Conns -> HandlerState]]
      /\ \A s \in Sessions : row[s].gen \in Gens
  BY DEF PlacementInv, TypeOK, PlaneTypeOK, StoreTypeOK, Row
<1>1. StoreTypeOK' /\ RowPlaced'
  BY <1>0, StoreStep, HistoryKept
<1>2. ASSUME NEW r \in Runners, NEW e, e.s \in Sessions, e.gen \in Gens, EventPlaced(r, e)
      PROVE  EventPlaced(r, e)'
  <2>1. row[e.s].gen <= row'[e.s].gen /\ opened'[e.s][e.gen] = opened[e.s][e.gen]
    BY <1>0, <1>2, HistoryKept DEF EventPlaced
  <2>2. row'[e.s].gen \in Gens
    BY <1>1, <1>2 DEF StoreTypeOK, Row
  <2> QED
    BY <1>0, <1>2, <2>1, <2>2 DEF EventPlaced, Gens
<1>3. ASSUME NEW r \in Runners, NEW c \in Conns, NEW e \in conn[r][c].event
      PROVE  EventPlaced(r, e)'
  <2>1. e \in PendingEvent
    BY <1>0 DEF HandlerState
  <2> QED
    BY <1>2, <2>1 DEF PendingEvent, PlacementInv, EventsPlaced
<1>4. ASSUME NEW r \in Runners, NEW e, Checked(r, e)
      PROVE  EventPlaced(r, e)'
  <2>1. e.s \in Sessions /\ e.gen \in Gens
    BY <1>0, <1>4 DEF Checked
  <2>2. EventPlaced(r, e)
    BY <1>0, <1>4, <2>1 DEF Checked, EventPlaced, RowPlaced, Gens
  <2> QED
    BY <1>2, <2>1, <2>2
<1>5. ASSUME NEW r \in Runners, NEW c \in Conns, NEW t \in Runners, NEW d \in Conns,
             NEW h, conn' = [conn EXCEPT ![t][d] = h],
             \A e \in h.event : e \in conn[t][d].event \/ Checked(t, e)
      PROVE  \A e \in conn'[r][c].event : EventPlaced(r, e)'
  <2>1. CASE r = t /\ c = d
    <3>1. conn'[r][c] = h
      BY <1>0, <1>5, <2>1
    <3> QED
      BY <1>3, <1>4, <1>5, <2>1, <3>1
  <2>2. CASE ~(r = t /\ c = d)
    <3>1. conn'[r][c] = conn[r][c]
      BY <1>0, <1>5, <2>2
    <3> QED
      BY <1>3, <3>1
  <2> QED
    BY <2>1, <2>2
<1>6. EventsPlaced'
  <2>1. CASE conn' = conn
    BY <1>3, <2>1 DEF EventsPlaced
  <2>2. ASSUME NEW t \in Runners, Connect(t) PROVE EventsPlaced'
    <3> DEFINE h == [IdleConn EXCEPT !.pc = "announced", !.snap = AnnounceOf(t)]
               d == host[t].gen + 1
    <3>1. d \in Conns /\ conn' = [conn EXCEPT ![t][d] = h]
      BY <2>2 DEF Connect
    <3>2. h.event = {}
      BY DEF IdleConn
    <3> HIDE DEF h, d
    <3> QED
      BY <1>5, <3>1, <3>2 DEF EventsPlaced
  <2>3. ASSUME NEW t \in Runners, NEW d \in Conns, Handler(t, d) PROVE EventsPlaced'
    BY <1>5, <2>3, HandlerEvents DEF EventsPlaced, HandlerWrites
  <2> QED
    BY <2>1, <2>2, <2>3, ConnWriters
<1> QED
  BY <1>1, <1>6 DEF PlacementInv

\* ApplyRunnerEvent, for every fleet and every interleaving: an event changes a
\* row only while the row is in the very placement the event was checked
\* against, and that placement is on the runner the event came from.  The
\* invariant says that a generation is opened for one runner once, and that
\* an event still to be applied names one of those.
THEOREM EventsFenced == Spec => EventsOfThisPlacement
<1>1. Init => PlacementInv
  <2>1. ASSUME Init PROVE RowPlaced
    BY <2>1, RunnersAssumption DEF Init, StoreInit, RowPlaced, NoRow, NoRunner
  <2>2. ASSUME Init PROVE EventsPlaced
    BY <2>2 DEF Init, EventsPlaced, IdleConn
  <2> QED
    BY <2>1, <2>2 DEF PlacementInv
<1>2. ASSUME TypeOK, PlacementInv, [Next]_vars, NEW r \in Runners, NEW c \in Conns, NEW s \in Sessions
      PROVE  AppliesHere(r, c, s)
  <2> SUFFICES ASSUME conn[r][c].pc = "applying", conn'[r][c].pc = "serving", row'[s] # row[s]
               PROVE  /\ opened[s][row[s].gen] = r
                      /\ \E e \in conn[r][c].event : e.s = s /\ e.gen = row[s].gen
    BY DEF AppliesHere
  <2>0. /\ conn \in [Runners -> [Conns -> HandlerState]] /\ row \in [Sessions -> Row]
    BY <1>2 DEF TypeOK, PlaneTypeOK, StoreTypeOK
  <2>1. ApplyEvent(r, c)
    <3>1. ASSUME NEW t \in Runners, NEW d \in Conns, ApplyEvent(t, d), ~(t = r /\ d = c)
          PROVE  FALSE
      BY <2>0, <3>1 DEF ApplyEvent
    <3>2. ASSUME NEW t \in Runners, NEW d \in Conns, NEW u \in Sessions, SettleStored(t, d, u) \/ Adopt(t, d, u)
          PROVE  conn'[r][c].pc = conn[r][c].pc
      <4> DEFINE k == conn[t][d]
      <4>1. PICK f, x : f \in {"stored", "adopting"} /\ conn' = [conn EXCEPT ![t][d] = [k EXCEPT ![f] = x]]
        BY <3>2 DEF SettleStored, Adopt
      <4>2. [k EXCEPT ![f] = x].pc = k.pc
        BY <2>0, <4>1 DEF HandlerState
      <4> QED
        BY <2>0, <4>1, <4>2
    <3>3. ASSUME conn' = conn PROVE FALSE
      BY <3>3
    <3>4. ASSUME NEW u \in Sessions, CreateSession(u) PROVE conn' = conn
      BY <3>4 DEF CreateSession
    <3>5. CASE SchedSettle \/ SchedPlace
      BY <3>3, <3>5 DEF SchedSettle, SchedPlace
    <3>6. ASSUME NEW u \in Sessions, NEW g \in Gens, CreateRequeue(u, g) \/ FailCreate(u, g) PROVE conn' = conn
      BY <3>6 DEF CreateRequeue, FailCreate
    <3>7. ASSUME NEW q \in Requests, ReqClaim(q) \/ ReqCommit(q) PROVE conn' = conn
      BY <3>7 DEF ReqClaim, ReqCommit
    <3> QED
      BY <1>2, <3>1, <3>2, <3>3, <3>4, <3>5, <3>6, <3>7, RowWriters
  <2>2. PICK e \in conn[r][c].event : Transition(e.s, EventTransitions[e.state], e.state, Keep, e.gen)
    BY <2>1 DEF ApplyEvent
  <2>3. e.s \in Sessions /\ e.gen \in Gens
    BY <2>0 DEF HandlerState, PendingEvent
  <2>4. e.s = s
    BY <2>0, <2>2, <2>3 DEF Transition, Apply
  <2>5. e.gen = row[s].gen
    BY <2>2, <2>3, <2>4 DEF Transition, Matches, AnyGen, Gens
  <2>6. opened[s][e.gen] = r
    BY <1>2, <2>4 DEF PlacementInv, EventsPlaced, EventPlaced
  <2> QED
    BY <2>4, <2>5, <2>6
<1>3. ASSUME TypeOK, PlacementInv, [Next]_vars
      PROVE  [\A r \in Runners, c \in Conns, s \in Sessions : AppliesHere(r, c, s)]_vars
  BY <1>2, <1>3
<1>4. PlacementInv /\ TypeOK /\ [Next]_vars => PlacementInv'
  BY PlacementStep
<1> QED
  BY <1>1, <1>3, <1>4, TypeCorrect, PTL DEF Spec, EventsOfThisPlacement

--------------------
\* What a lost resume is settled by.

\* generation g of s was opened, and for r
OpenedFor(s, g, r) == g <= row[s].gen /\ opened[s][g] = r

\* a resume_status asks the runner a generation was opened for
AskedPlaced ==
    /\ sched.pc \in {"ask", "status"} => \A s \in sched.todo : OpenedFor(s, sched.gen, sched.r)
    /\ \A cmd \in cmds : cmd.type = "resume_status" => OpenedFor(cmd.s, cmd.gen, cmd.r)

\* nothing that is on its way can boot placement g in this sandbox
Spent(sb, g) == \/ sb.state = "none"
                \/ sb.gen > g
                \/ sb.gen = g /\ sb.state = "suspended_cold"

EvidencePlaced(m) == opened[m.s][m.gen] \in Runners /\ OpenedFor(m.s, m.gen, opened[m.s][m.gen])
EvidenceSpent(m) == Spent(box[opened[m.s][m.gen]][m.s], m.gen)
EvidenceFine == \A m \in ParkedEvidence : EvidencePlaced(m) /\ EvidenceSpent(m)

EvidenceInv == PlacementInv /\ AskedPlaced /\ EvidenceFine

\* a command that starts a sandbox whatever its generation
Unfenced(cmd) == cmd.type = "create" \/ (cmd.type = "resume" /\ cmd.gen = 0)

\* no such command for the session is with the runner its evidence came from
QuietRevival ==
    \A m \in ParkedEvidence, cmd \in cmds :
        cmd.s = m.s /\ cmd.r = opened[m.s][m.gen] => ~Unfenced(cmd)

\* the messages of a queue, and all that are on their way or delivered
Said(q) == {q[i] : i \in 1 .. Len(q)}
Voiced == inbox \cup UNION {Said(pipe[r]) : r \in Runners}
Parked(m) == m.kind = "result" /\ m.id[1] = "status" /\ m.ok /\ m.state = "suspended_cold"

\* evidence is a message that was said, of one kind
LEMMA EvidenceIsVoiced == ParkedEvidence = {m \in Voiced : Parked(m)}
  BY DEF ParkedEvidence, Voiced, Said, Parked

\* every message is well formed
LEMMA VoicedType ==
    ASSUME LinkTypeOK, NEW m \in Voiced
    PROVE  m.s \in Sessions /\ m.gen \in Gens
<1>1. m \in Message
  <2>1. CASE m \in inbox
    BY <2>1 DEF LinkTypeOK
  <2>2. ASSUME NEW r \in Runners, NEW i \in 1 .. Len(pipe[r]), m = pipe[r][i] PROVE m \in Message
    <3>1. pipe[r] \in Seq(Message)
      BY DEF LinkTypeOK
    <3> QED
      BY <2>2, <3>1
  <2> QED
    BY <2>1, <2>2 DEF Voiced, Said
<1> QED
  BY <1>1 DEF Message

\* a queue that grows by one message says that much more
LEMMA SaidAppend ==
    ASSUME NEW S, NEW q \in Seq(S), NEW m
    PROVE  Said(Append(q, m)) \subseteq Said(q) \cup {m}
<1> SUFFICES ASSUME NEW i \in 1 .. Len(Append(q, m))
             PROVE  Append(q, m)[i] \in Said(q) \cup {m}
  BY DEF Said
<1>1. Len(Append(q, m)) = Len(q) + 1 /\ Len(q) \in Nat
  OBVIOUS
<1>2. CASE i = Len(q) + 1
  BY <1>2
<1>3. CASE i \in 1 .. Len(q)
  BY <1>3 DEF Said
<1> QED
  BY <1>1, <1>2, <1>3

\* a queue whose head is read says no more than it did
LEMMA SaidTail ==
    ASSUME NEW S, NEW q \in Seq(S), q # <<>>
    PROVE  Said(Tail(q)) \subseteq Said(q) /\ Head(q) \in Said(q)
<1>1. Len(q) \in Nat /\ Len(q) # 0
  BY EmptySeq
<1>2. Len(Tail(q)) = Len(q) - 1 /\ Head(q) = q[1]
  BY <1>1
<1>3. ASSUME NEW i \in 1 .. Len(Tail(q)) PROVE Tail(q)[i] = q[i + 1] /\ i + 1 \in 1 .. Len(q)
  BY <1>1, <1>2, <1>3
<1> QED
  BY <1>1, <1>2, <1>3 DEF Said

\* a message is queued, or dropped
LEMMA SaidSent ==
    ASSUME NEW queues \in [Runners -> Seq(Message)], NEW c, NEW r \in Runners, NEW m, NEW t \in Runners
    PROVE  Said(Sent(queues, c, r, m)[t]) \subseteq Said(queues[t]) \cup {m}
  BY SaidAppend DEF Sent

--------------------
\* Steps of the control plane: no sandbox moves, and nothing new is said.

PlaneStays ==
    /\ box' = box
    /\ Voiced' \subseteq Voiced
    /\ \A cmd \in cmds' : cmd \in cmds \/ cmd.type # "resume_status"
                          \/ (\E s \in sched.todo : sched.pc = "ask" /\ cmd.s = s /\ cmd.gen = sched.gen /\ cmd.r = sched.r)

\* a step either leaves every sandbox and says nothing new, or is a runner's
LEMMA PlaneSays ==
    ASSUME TypeOK, [Next]_vars
    PROVE  PlaneStays \/ (Runner /\ UNCHANGED <<row, opened, sched>>)
<1>0. LinkTypeOK /\ PlaneTypeOK
  BY DEF TypeOK
<1>1. ASSUME box' = box, pipe' = pipe, inbox' \subseteq inbox,
             \A cmd \in cmds' : cmd \in cmds \/ cmd.type # "resume_status"
      PROVE  PlaneStays
  BY <1>1 DEF PlaneStays, Voiced
<1>2. ASSUME UNCHANGED linkVars PROVE PlaneStays
  BY <1>1, <1>2 DEF linkVars
<1>3. CASE UNCHANGED vars \/ \E s \in Sessions : CreateSession(s)
  BY <1>2, <1>3 DEF vars, CreateSession
<1>4. CASE Scheduler
  <2>1. CASE SchedStart \/ SchedRead \/ SchedPick \/ SchedPlace \/ \E s \in Sessions : SchedList(s)
    BY <1>2, <2>1 DEF SchedStart, SchedRead, SchedPick, SchedPlace, SchedList
  <2>2. CASE SchedAsk
    <3>1. sched.pc = "ask" /\ UNCHANGED <<box, pipe, inbox>>
      BY <2>2 DEF SchedAsk
    <3>2. \/ cmds' = cmds
          \/ \E s \in sched.todo, n \in UnusedStatus : Enqueue(<<"status", n>>, sched.r, "resume_status", s, sched.gen)
      BY <2>2 DEF SchedAsk
    <3>3. ASSUME NEW cmd \in cmds', cmd \notin cmds
          PROVE  \E s \in sched.todo : cmd.s = s /\ cmd.gen = sched.gen /\ cmd.r = sched.r
      BY <3>2, <3>3 DEF Enqueue
    <3> QED
      BY <3>1, <3>3 DEF PlaneStays, Voiced
  <2>3. CASE SchedSettle
    <3>1. UNCHANGED <<box, pipe, cmds>> /\ inbox' \subseteq inbox
      BY <2>3 DEF SchedSettle, NoAnswer, GotAnswer
    <3> QED
      BY <1>1, <3>1
  <2> QED
    BY <1>4, <2>1, <2>2, <2>3 DEF Scheduler, SchedulerRuns
<1>5. ASSUME NEW s \in Sessions, NEW g \in Gens, CreateGoroutine(s, g) PROVE PlaneStays
  <2>1. CASE CreateRead(s, g) \/ CreateSpecFails(s, g) \/ CreateUnanswered(s, g) \/ CreateRequeue(s, g) \/ FailCreate(s, g)
    BY <1>2, <2>1 DEF CreateRead, CreateSpecFails, CreateUnanswered, CreateRequeue, FailCreate
  <2>2. CASE CreateDispatch(s, g)
    <3>1. UNCHANGED <<box, pipe, inbox>> /\ \A cmd \in cmds' : cmd \in cmds \/ cmd.type = "create"
      BY <2>2 DEF CreateDispatch, Enqueue
    <3> QED
      BY <1>1, <3>1
  <2>3. CASE CreateAnswer(s, g)
    <3>1. UNCHANGED <<box, pipe, cmds>> /\ inbox' \subseteq inbox
      BY <2>3 DEF CreateAnswer, NoAnswer, GotAnswer
    <3> QED
      BY <1>1, <3>1
  <2> QED
    BY <1>5, <2>1, <2>2, <2>3 DEF CreateGoroutine
<1>6. ASSUME NEW q \in Requests, Request(q) PROVE PlaneStays
  <2>1. CASE DeleteSession(q) \/ SuspendSession(q) \/ ResumeSession(q) \/ ReqClaim(q) \/ ReqCommit(q)
    BY <1>2, <2>1 DEF DeleteSession, SuspendSession, ResumeSession, ReqClaim, ReqCommit
  <2>2. CASE ReqDispatch(q)
    <3>1. req[q].op \in Op
      BY <1>0 DEF PlaneTypeOK, RequestState
    <3>2. UNCHANGED <<box, pipe, inbox>> /\ \A cmd \in cmds' : cmd \in cmds \/ cmd.type = req[q].op
      BY <2>2 DEF ReqDispatch, Enqueue
    <3> QED
      BY <1>1, <3>1, <3>2 DEF Op
  <2>3. CASE ReqAnswer(q)
    <3>1. UNCHANGED <<box, pipe, cmds>> /\ inbox' \subseteq inbox
      BY <2>3 DEF ReqAnswer, NoAnswer, GotAnswer
    <3> QED
      BY <1>1, <3>1
  <2> QED
    BY <1>6, <2>1, <2>2, <2>3 DEF Request, RequestRuns
<1>7. ASSUME NEW r \in Runners, UNCHANGED <<box, cmds, inbox>>, pipe' = [pipe EXCEPT ![r] = <<>>]
      PROVE  PlaneStays
  <2>1. \A t \in Runners : pipe'[t] = <<>> \/ pipe'[t] = pipe[t]
    BY <1>0, <1>7 DEF LinkTypeOK
  <2>2. \A t \in Runners : Said(pipe'[t]) \subseteq Said(pipe[t])
    BY <2>1 DEF Said
  <2> QED
    BY <1>7, <2>2 DEF PlaneStays, Voiced
<1>8. ASSUME NEW r \in Runners, Connect(r) PROVE PlaneStays
  BY <1>7, <1>8 DEF Connect
<1>9. ASSUME NEW r \in Runners, NEW c \in Conns, Handler(r, c) PROVE PlaneStays
  <2>1. CASE ReconcileRunner(r, c) \/ ReconcileRead(r, c) \/ ReconcileDone(r, c) \/ ApplyEvent(r, c)
             \/ \E s \in Sessions : SettleStored(r, c, s) \/ SettleReported(r, c, s) \/ Adopt(r, c, s)
    BY <1>2, <2>1 DEF ReconcileRunner, ReconcileRead, ReconcileDone, ApplyEvent, SettleStored, SettleReported, Adopt
  <2>2. CASE Serve(r, c)
    <3>1. pipe[r] \in Seq(Message) /\ pipe[r] # <<>>
      BY <1>0, <2>2 DEF LinkTypeOK, Serve
    <3>2. Said(Tail(pipe[r])) \subseteq Said(pipe[r]) /\ Head(pipe[r]) \in Said(pipe[r])
      BY <3>1, SaidTail
    <3>3. /\ UNCHANGED <<box, cmds>> /\ pipe' = [pipe EXCEPT ![r] = Tail(@)]
          /\ inbox' \subseteq inbox \cup {Head(pipe[r])}
      BY <2>2 DEF Serve
    <3>4. \A t \in Runners : Said(pipe'[t]) \subseteq Said(pipe[t])
      BY <1>0, <3>2, <3>3 DEF LinkTypeOK
    <3> QED
      BY <3>2, <3>3, <3>4 DEF PlaneStays, Voiced
  <2>3. CASE Drop(r, c)
    BY <1>2, <1>7, <2>3 DEF Drop, linkVars
  <2> QED
    BY <1>9, <2>1, <2>2, <2>3 DEF Handler, HandlerRuns
<1>10. ASSUME NEW o \in orphans, Orphan(o) PROVE PlaneStays
  <2>1. CASE OrphanSend(o)
    <3>1. UNCHANGED <<box, pipe, inbox>> /\ \A cmd \in cmds' : cmd \in cmds \/ cmd.type = "destroy"
      BY <2>1 DEF OrphanSend, Enqueue
    <3> QED
      BY <1>1, <3>1
  <2>2. CASE OrphanAnswer(o)
    <3>1. UNCHANGED <<box, pipe, cmds>> /\ inbox' \subseteq inbox
      BY <2>2 DEF OrphanAnswer, NoAnswer, GotAnswer
    <3> QED
      BY <1>1, <3>1
  <2>3. CASE OrphanEnds(o)
    BY <1>2, <2>3 DEF OrphanEnds
  <2> QED
    BY <1>10, <2>1, <2>2, <2>3 DEF Orphan
<1>11. CASE Runner
  BY <1>11 DEF Runner, ctlVars
<1> QED
  BY <1>3, <1>4, <1>5, <1>6, <1>8, <1>9, <1>10, <1>11 DEF Next

--------------------
\* Steps of a runner.

\* a command that ends, or starts its work: what it leaves and what it says
Leaves(cmd, sb) == /\ box' = [box EXCEPT ![cmd.r][cmd.s] = sb]
                   /\ \A c \in cmds' : c \in cmds \/ (c.type = cmd.type /\ c.s = cmd.s /\ c.gen = cmd.gen /\ c.r = cmd.r)
Says(cmd, ok, state, gen) ==
    \A m \in Voiced' : m \in Voiced \/ (m.s = cmd.s /\ m.ok = ok /\ m.state = state /\ m.gen = gen)

\* the end of a command is one answer about the sandbox it leaves
LEMMA FinishSays ==
    ASSUME LinkTypeOK, NEW cmd \in cmds, NEW sb, NEW ok, NEW state, NEW gen, Finish(cmd, sb, ok, state, gen)
    PROVE  Leaves(cmd, sb) /\ Says(cmd, ok, state, gen)
<1> DEFINE m == Result(cmd, ok, state, gen, StampAfter(cmd.r, cmd.s, sb))
<1>1. cmd.r \in Runners /\ pipe \in [Runners -> Seq(Message)]
  BY DEF LinkTypeOK, Command
<1>2. pipe' = Sent(pipe, cmd.conn, cmd.r, m) /\ inbox' = inbox
  BY DEF Finish
<1>3. m.s = cmd.s /\ m.ok = ok /\ m.state = state /\ m.gen = gen
  BY DEF Result
<1> HIDE DEF m
<1>4. \A t \in Runners : Said(pipe'[t]) \subseteq Said(pipe[t]) \cup {m}
  BY <1>1, <1>2, SaidSent
<1> QED
  BY <1>2, <1>3, <1>4 DEF Finish, Leaves, Says, Voiced

\* its start is not answered
LEMMA BeginSays ==
    ASSUME LinkTypeOK, NEW cmd \in cmds, NEW sb, Begin(cmd, sb)
    PROVE  Leaves(cmd, sb) /\ Voiced' = Voiced
<1>1. cmd \in Command
  BY DEF LinkTypeOK
<1>2. LET c == [cmd EXCEPT !.phase = "started"]
      IN  c.type = cmd.type /\ c.s = cmd.s /\ c.gen = cmd.gen /\ c.r = cmd.r
  BY <1>1 DEF Command
<1> QED
  BY <1>2 DEF Begin, Leaves, Voiced

\* a command neither boots a placement that is spent nor speaks of one that
\* is not, if it is no create and no resume without a generation
Harmless(r, s, g) == Spent(box[r][s], g) => Spent(box'[r][s], g)

\* nothing a runner executes makes a spent placement bootable again, if it starts nothing
LEMMA ExecuteSpends ==
    ASSUME LinkTypeOK, NEW cmd \in cmds, Execute(cmd),
           NEW r \in Runners, NEW s \in Sessions, NEW g \in Gens, cmd.r = r /\ cmd.s = s => ~Unfenced(cmd)
    PROVE  Harmless(r, s, g)
<1> DEFINE sb == box[cmd.r][cmd.s]
<1>1. cmd \in Command /\ box \in [Runners -> [Sessions -> Sandbox]]
  BY DEF LinkTypeOK
<1>2. cmd.r \in Runners /\ cmd.s \in Sessions /\ cmd.gen \in Gens /\ sb \in Sandbox
  BY <1>1 DEF Command
<1>3. sb.gen \in Int /\ cmd.gen \in Int /\ g \in Int /\ sb = [state |-> sb.state, gen |-> sb.gen]
  BY <1>2, MaxGenAssumption DEF Sandbox, Gens
<1>4. ASSUME NEW x, Leaves(cmd, x), cmd.r = r /\ cmd.s = s /\ Spent(sb, g) => Spent(x, g)
      PROVE  Harmless(r, s, g)
  <2>1. CASE cmd.r = r /\ cmd.s = s
    BY <1>1, <1>2, <1>4, <2>1 DEF Leaves, Harmless
  <2>2. CASE ~(cmd.r = r /\ cmd.s = s)
    BY <1>1, <1>2, <1>4, <2>2 DEF Leaves, Harmless
  <2> QED
    BY <2>1, <2>2
<1>5. ASSUME Refuse(cmd) PROVE Harmless(r, s, g)
  BY <1>4, <1>5, FinishSays DEF Refuse
<1>6. CASE ExecCreate(cmd)
  <2>1. CASE Begin(cmd, [state |-> "starting", gen |-> cmd.gen])
    BY <1>4, <1>6, <2>1, BeginSays DEF ExecCreate, Unfenced
  <2>2. CASE box' = box
    BY <2>2 DEF Harmless
  <2> QED
    BY <1>6, <2>1, <2>2 DEF ExecCreate
<1>7. CASE ExecCreated(cmd)
  <2>1. PICK x, ok : Finish(cmd, x, ok, "", 0)
    BY <1>7 DEF ExecCreated
  <2> QED
    BY <1>4, <1>7, <2>1, FinishSays DEF ExecCreated, Unfenced
<1>8. CASE ExecSuspend(cmd)
  <2>1. \/ sb.state = "running" /\ Finish(cmd, [sb EXCEPT !.state = "suspended_warm"], TRUE, "", 0)
        \/ sb.state # "none" /\ Finish(cmd, [sb EXCEPT !.state = "suspended_cold"], TRUE, "", 0)
        \/ Refuse(cmd)
    BY <1>8 DEF ExecSuspend
  <2>2. CASE sb.state = "running" /\ Finish(cmd, [sb EXCEPT !.state = "suspended_warm"], TRUE, "", 0)
    <3>1. Spent(sb, g) => Spent([sb EXCEPT !.state = "suspended_warm"], g)
      BY <1>3, <2>2 DEF Spent
    <3> QED
      BY <1>4, <2>2, <3>1, FinishSays
  <2>3. CASE sb.state # "none" /\ Finish(cmd, [sb EXCEPT !.state = "suspended_cold"], TRUE, "", 0)
    <3>1. Spent(sb, g) => Spent([sb EXCEPT !.state = "suspended_cold"], g)
      BY <1>3, <2>3 DEF Spent
    <3> QED
      BY <1>4, <2>3, <3>1, FinishSays
  <2> QED
    BY <1>5, <2>1, <2>2, <2>3
<1>9. CASE ExecResume(cmd)
  <2>1. CASE cmd.gen = 0 /\ Finish(cmd, [sb EXCEPT !.state = "running"], TRUE, "", 0)
    BY <1>4, <1>9, <2>1, FinishSays DEF ExecResume, Unfenced
  <2>2. CASE cmd.gen > sb.gen /\ sb.state # "none" /\ Begin(cmd, [state |-> "resuming", gen |-> cmd.gen])
    <3>1. Spent(sb, g) => Spent([state |-> "resuming", gen |-> cmd.gen], g)
      BY <1>3, <2>2 DEF Spent
    <3> QED
      BY <1>4, <2>2, <3>1, BeginSays
  <2> QED
    BY <1>5, <1>9, <2>1, <2>2 DEF ExecResume
<1>10. CASE ExecResumed(cmd)
  <2>1. \/ /\ sb = [state |-> "resuming", gen |-> cmd.gen]
           /\ \/ Finish(cmd, [sb EXCEPT !.state = "running"], TRUE, "", 0)
              \/ Finish(cmd, [sb EXCEPT !.state = "suspended_cold"], FALSE, "", 0)
              \/ Finish(cmd, [sb EXCEPT !.state = "unresolved"], FALSE, "", 0)
        \/ Refuse(cmd)
    BY <1>10 DEF ExecResumed
  <2>3. sb = [state |-> "resuming", gen |-> cmd.gen] => sb.state = "resuming"
    OBVIOUS
  <2>2. ASSUME sb.state = "resuming", NEW state, NEW ok, Finish(cmd, [sb EXCEPT !.state = state], ok, "", 0)
        PROVE  Harmless(r, s, g)
    <3>1. Spent(sb, g) => Spent([sb EXCEPT !.state = state], g)
      BY <1>3, <2>2 DEF Spent
    <3> QED
      BY <1>4, <2>2, <3>1, FinishSays
  <2> HIDE DEF sb
  <2> QED
    BY <1>5, <2>1, <2>2, <2>3
<1>11. CASE ExecResumeStatus(cmd)
  <2> DEFINE told == IF sb.state \in {"running", "suspended_cold"} THEN sb.state ELSE "resuming"
  <2>1. \/ /\ sb.state # "none" /\ cmd.gen >= sb.gen /\ (cmd.gen = sb.gen \/ sb.state = "suspended_cold")
           /\ Finish(cmd, [sb EXCEPT !.gen = cmd.gen], TRUE, told, cmd.gen)
        \/ Refuse(cmd)
    <3> DEFINE no == \/ sb.state \in {"none", "starting"}
                     \/ cmd.gen < sb.gen
                     \/ live[cmd.r] # cmd.conn
                     \/ cmd.gen > sb.gen /\ sb.state # "suspended_cold"
    <3>1. IF no THEN Refuse(cmd) ELSE Finish(cmd, [sb EXCEPT !.gen = cmd.gen], TRUE, told, cmd.gen)
      BY <1>11 DEF ExecResumeStatus
    <3>2. ~no => sb.state # "none" /\ cmd.gen >= sb.gen /\ (cmd.gen = sb.gen \/ sb.state = "suspended_cold")
      BY <1>3
    <3> HIDE DEF sb, told, no
    <3> QED
      BY <3>1, <3>2
  <2>2. ASSUME sb.state # "none", cmd.gen >= sb.gen, cmd.gen = sb.gen \/ sb.state = "suspended_cold",
               NEW state, Finish(cmd, [sb EXCEPT !.gen = cmd.gen], TRUE, state, cmd.gen)
        PROVE  Harmless(r, s, g)
    <3>1. Spent(sb, g) => Spent([sb EXCEPT !.gen = cmd.gen], g)
      BY <1>3, <2>2 DEF Spent
    <3> QED
      BY <1>4, <2>2, <3>1, FinishSays
  <2> HIDE DEF sb, told
  <2> QED
    BY <1>5, <2>1, <2>2
<1>12. CASE ExecDestroy(cmd)
  <2>1. CASE Finish(cmd, NoSandbox, TRUE, "", 0)
    <3>1. Spent(NoSandbox, g)
      BY DEF Spent, NoSandbox
    <3> QED
      BY <1>4, <2>1, <3>1, FinishSays
  <2> QED
    BY <1>5, <1>12, <2>1 DEF ExecDestroy
<1> QED
  BY <1>6, <1>7, <1>8, <1>9, <1>10, <1>11, <1>12 DEF Execute

\* what a command says about a boot that did not happen is so
LEMMA ExecuteSays ==
    ASSUME LinkTypeOK, NEW cmd \in cmds, Execute(cmd), NEW m \in Voiced', Parked(m), m \notin Voiced
    PROVE  /\ cmd.type = "resume_status" /\ m.s = cmd.s /\ m.gen = cmd.gen
           /\ Spent(box'[cmd.r][cmd.s], cmd.gen)
<1> DEFINE sb == box[cmd.r][cmd.s]
<1>1. cmd \in Command /\ box \in [Runners -> [Sessions -> Sandbox]]
  BY DEF LinkTypeOK
<1>2. cmd.r \in Runners /\ cmd.s \in Sessions /\ cmd.gen \in Gens /\ sb \in Sandbox
  BY <1>1 DEF Command
<1>3. ASSUME NEW x, NEW ok, Finish(cmd, x, ok, "", 0) PROVE FALSE
  <2>1. Says(cmd, ok, "", 0)
    BY <1>3, FinishSays
  <2>2. m.state = ""
    BY <2>1 DEF Says
  <2> QED
    BY <2>2 DEF Parked
<1>4. ASSUME NEW x, Begin(cmd, x) PROVE FALSE
  BY <1>4, BeginSays
<1>5. ~Refuse(cmd)
  BY <1>3 DEF Refuse
<1>6. ~ExecCreate(cmd)
  <2>1. SUFFICES ASSUME ExecCreate(cmd) PROVE FALSE
    OBVIOUS
  <2> DEFINE yes == Result(cmd, TRUE, "", 0, Stamp(cmd.r))
             ev == Event(cmd.s, sb.state, sb.gen, Stamp(cmd.r))
             answered == Sent(pipe, cmd.conn, cmd.r, yes)
  <2>2. pipe' \in {answered, Sent(answered, cmd.conn, cmd.r, ev)} /\ inbox' = inbox
    BY <1>4, <2>1 DEF ExecCreate
  <2>3. yes.state = "" /\ ev.kind = "event"
    BY DEF Result, Event
  <2>4. yes \in Message
    <3>1. 0 \in Gens /\ sb \in Sandbox
      BY <1>2, MaxGenAssumption DEF Gens
    <3> QED
      BY <1>1, <1>2, <3>1, StampType, ResultType
  <2> HIDE DEF yes, ev
  <2>5. pipe \in [Runners -> Seq(Message)] /\ answered \in [Runners -> Seq(Message)]
    BY <1>2, <2>4, SentType DEF LinkTypeOK
  <2>6. \A t \in Runners : Said(answered[t]) \subseteq Said(pipe[t]) \cup {yes}
    BY <1>2, <2>5, SaidSent
  <2> HIDE DEF answered
  <2>7. \A t \in Runners : Said(Sent(answered, cmd.conn, cmd.r, ev)[t]) \subseteq Said(answered[t]) \cup {ev}
    BY <1>2, <2>5, SaidSent
  <2>8. \A t \in Runners : Said(pipe'[t]) \subseteq Said(pipe[t]) \cup {yes, ev}
    BY <2>2, <2>6, <2>7
  <2>9. m \in {yes, ev}
    BY <2>2, <2>8 DEF Voiced
  <2> QED
    BY <2>3, <2>9 DEF Parked
<1>7. ~ExecCreated(cmd) /\ ~ExecDestroy(cmd)
  BY <1>3, <1>5 DEF ExecCreated, ExecDestroy
<1>8. ~ExecSuspend(cmd)
  BY <1>3, <1>5 DEF ExecSuspend
<1>9. ~ExecResume(cmd)
  BY <1>3, <1>4, <1>5 DEF ExecResume
<1>10. ~ExecResumed(cmd)
  BY <1>3, <1>5 DEF ExecResumed
<1>11. ExecResumeStatus(cmd)
  BY <1>6, <1>7, <1>8, <1>9, <1>10 DEF Execute
<1>12. Finish(cmd, [sb EXCEPT !.gen = cmd.gen], TRUE,
              IF sb.state \in {"running", "suspended_cold"} THEN sb.state ELSE "resuming", cmd.gen)
  BY <1>5, <1>11 DEF ExecResumeStatus
<1>13. /\ Leaves(cmd, [sb EXCEPT !.gen = cmd.gen])
       /\ Says(cmd, TRUE, IF sb.state \in {"running", "suspended_cold"} THEN sb.state ELSE "resuming", cmd.gen)
  BY <1>12, FinishSays
<1>14. m.s = cmd.s /\ m.gen = cmd.gen /\ sb.state = "suspended_cold"
  BY <1>13 DEF Says, Parked
<1>15. box'[cmd.r][cmd.s] = [sb EXCEPT !.gen = cmd.gen]
  BY <1>1, <1>2, <1>13 DEF Leaves
<1>16. Spent([sb EXCEPT !.gen = cmd.gen], cmd.gen)
  BY <1>2, <1>14 DEF Spent, Sandbox
<1> QED
  BY <1>11, <1>14, <1>15, <1>16 DEF ExecResumeStatus

\* nor does what a sandbox does of its own accord
LEMMA ReportSpends ==
    ASSUME LinkTypeOK, NEW t \in Runners, NEW u \in Sessions, SandboxReports(t, u)
    PROVE  /\ \A r \in Runners, s \in Sessions, g \in Gens : Harmless(r, s, g)
           /\ \A m \in Voiced' : m \in Voiced \/ m.kind = "event"
           /\ cmds' = cmds
<1> DEFINE sb == box[t][u]
<1>1. sb \in Sandbox /\ box \in [Runners -> [Sessions -> Sandbox]] /\ pipe \in [Runners -> Seq(Message)]
  BY DEF LinkTypeOK
<1>2. PICK after, state : /\ Report(t, u, after, state)
                          /\ after \in {sb, NoSandbox} \/ (sb.state = "running" /\ after = [sb EXCEPT !.state = "suspended_cold"])
  BY DEF SandboxReports
<1>3. box' = [box EXCEPT ![t][u] = after] /\ cmds' = cmds /\ inbox' = inbox
  BY <1>2 DEF Report
<1>4. ASSUME NEW r \in Runners, NEW s \in Sessions, NEW g \in Gens PROVE Harmless(r, s, g)
  <2>1. Spent(sb, g) => Spent(after, g)
    <3>1. CASE after \in {sb, NoSandbox}
      BY <3>1 DEF Spent, NoSandbox
    <3>2. CASE sb.state = "running" /\ after = [sb EXCEPT !.state = "suspended_cold"]
      <4>1. after.gen = sb.gen /\ after.state = "suspended_cold"
        BY <1>1, <3>2 DEF Sandbox
      <4> QED
        BY <4>1, <3>2 DEF Spent
    <3> QED
      BY <1>2, <3>1, <3>2
  <2>2. box'[r][s] = IF r = t /\ s = u THEN after ELSE box[r][s]
    BY <1>1, <1>3
  <2> HIDE DEF sb
  <2> QED
    BY <2>1, <2>2 DEF Harmless, sb
<1>5. ASSUME NEW m \in Voiced', m \notin Voiced PROVE m.kind = "event"
  <2> DEFINE ev == Event(u, state, box[t][u].gen, StampAfter(t, u, after))
  <2>1. pipe' = Sent(pipe, live[t], t, ev)
    BY <1>2 DEF Report
  <2>2. ev.kind = "event"
    BY DEF Event
  <2> HIDE DEF ev
  <2>3. \A q \in Runners : Said(pipe'[q]) \subseteq Said(pipe[q]) \cup {ev}
    BY <1>1, <2>1, SaidSent
  <2>4. m = ev
    BY <1>3, <1>5, <2>3 DEF Voiced
  <2> QED
    BY <2>2, <2>4
<1> QED
  BY <1>3, <1>4, <1>5

--------------------
\* The invariant is inductive.

\* what a generation was opened for stays so
LEMMA OpenedKept ==
    ASSUME TypeOK, PlacementInv, [Next]_vars, NEW s \in Sessions, NEW g \in Gens, NEW r, OpenedFor(s, g, r)
    PROVE  OpenedFor(s, g, r)'
<1>1. row[s].gen <= row'[s].gen /\ opened'[s][g] = opened[s][g]
  BY HistoryKept DEF PlacementInv, OpenedFor
<1>2. row[s].gen \in Gens /\ row'[s].gen \in Gens
  BY StoreStep DEF TypeOK, StoreTypeOK, Row
<1> QED
  BY <1>1, <1>2, MaxGenAssumption DEF OpenedFor, Gens

\* the scheduler lists a row with the runner and the generation it stands for
LEMMA SchedAsks ==
    ASSUME TypeOK, PlacementInv, AskedPlaced, [Next]_vars, sched'.pc \in {"ask", "status"}, NEW s \in sched'.todo
    PROVE  s \in Sessions /\ sched'.gen \in Gens /\ OpenedFor(s, sched'.gen, sched'.r)
<1>0. sched \in SchedulerState /\ row \in [Sessions -> Row]
  BY DEF TypeOK, PlaneTypeOK, StoreTypeOK
<1>1. ASSUME sched' = sched
      PROVE  s \in Sessions /\ sched'.gen \in Gens /\ OpenedFor(s, sched'.gen, sched'.r)
  BY <1>0, <1>1 DEF SchedulerState, AskedPlaced
<1>2. ASSUME NEW t \in Sessions, SchedList(t)
      PROVE  s \in Sessions /\ sched'.gen \in Gens /\ OpenedFor(s, sched'.gen, sched'.r)
  <2>1. /\ sched' = [IdleSched EXCEPT !.pc = "ask", !.todo = {t}, !.r = row[t].runner, !.gen = row[t].gen]
        /\ row[t].runner \in Runners
    BY <1>2 DEF SchedList, ConnectedRunners
  <2>2. s = t /\ sched'.gen = row[t].gen /\ sched'.r = row[t].runner
    BY <2>1 DEF IdleSched
  <2>3. opened[t][row[t].gen] = row[t].runner /\ row[t].gen \in Gens
    BY <1>0, <2>1 DEF PlacementInv, RowPlaced, Row
  <2> QED
    BY <2>2, <2>3, MaxGenAssumption DEF OpenedFor, Gens
<1>3. CASE SchedAsk
  <2>1. sched' = [IdleSched EXCEPT !.pc = "resumes"] \/ \E n \in UnusedStatus : sched' = [sched EXCEPT !.pc = "status", !.asked = n]
    BY <1>3 DEF SchedAsk
  <2>2. sched.pc = "ask" /\ sched'.todo = sched.todo /\ sched'.gen = sched.gen /\ sched'.r = sched.r
    BY <1>0, <1>3, <2>1 DEF SchedAsk, SchedulerState, IdleSched
  <2> QED
    BY <1>0, <2>2 DEF SchedulerState, AskedPlaced
<1>4. CASE SchedStart
  <2>1. sched'.pc = "resumes"
    BY <1>0, <1>4 DEF SchedStart, SchedulerState
  <2> QED
    BY <2>1
<1>5. CASE SchedSettle \/ SchedRead
  <2>1. sched'.pc \in {"resumes", "idle", "queue"}
    <3>2. CASE SchedSettle
      <4>1. sched' = [IdleSched EXCEPT !.pc = "resumes"]
        BY <3>2 DEF SchedSettle
      <4> QED
        BY <4>1 DEF IdleSched
    <3>3. CASE SchedRead
      <4>1. sched' = IdleSched \/ \E todo : sched' = [IdleSched EXCEPT !.pc = "queue", !.todo = todo]
        BY <3>3 DEF SchedRead
      <4>2. CASE sched' = IdleSched
        BY <4>2 DEF IdleSched
      <4>3. ASSUME NEW todo, sched' = [IdleSched EXCEPT !.pc = "queue", !.todo = todo] PROVE sched'.pc = "queue"
        BY <4>3 DEF IdleSched
      <4> QED
        BY <4>1, <4>2, <4>3
    <3> QED
      BY <1>5, <3>2, <3>3
  <2> QED
    BY <2>1
<1>6. ASSUME NEW t, sched' = NextRow(t) PROVE sched'.pc \in {"idle", "queue"}
  BY <1>6 DEF NextRow, IdleSched
<1>7. CASE SchedPick \/ SchedPlace
  <2>1. sched'.pc \in {"idle", "queue", "place"}
    <3>1. CASE SchedPick
      <4>1. PICK t : sched' = IdleSched \/ sched' = NextRow(t) \/ \E r \in PlaceQueued(t) : sched' = [sched EXCEPT !.pc = "place", !.r = r]
        BY <3>1 DEF SchedPick
      <4>2. CASE sched' = IdleSched
        BY <4>2 DEF IdleSched
      <4>3. ASSUME NEW r, sched' = [sched EXCEPT !.pc = "place", !.r = r] PROVE sched'.pc = "place"
        BY <1>0, <4>3 DEF SchedulerState
      <4> QED
        BY <1>6, <4>1, <4>2, <4>3
    <3>2. CASE SchedPlace
      BY <1>6, <3>2 DEF SchedPlace
    <3> QED
      BY <1>7, <3>1, <3>2
  <2> QED
    BY <2>1
<1>8. CASE Scheduler
  BY <1>2, <1>3, <1>4, <1>5, <1>7, <1>8 DEF Scheduler, SchedulerRuns
<1>9. Scheduler \/ sched' = sched
  <2>1. CASE UNCHANGED vars \/ \E t \in Sessions : CreateSession(t)
    BY <2>1 DEF vars, ctlVars, CreateSession
  <2>2. ASSUME NEW t \in Sessions, NEW g \in Gens, CreateGoroutine(t, g) PROVE sched' = sched
    BY <2>2 DEF CreateGoroutine, CreateRead, CreateSpecFails, CreateDispatch, CreateAnswer, CreateUnanswered,
       CreateRequeue, FailCreate
  <2>3. ASSUME NEW q \in Requests, Request(q) PROVE sched' = sched
    BY <2>3 DEF Request, RequestRuns, DeleteSession, SuspendSession, ResumeSession, ReqClaim, ReqDispatch,
       ReqAnswer, ReqCommit
  <2>4. ASSUME NEW r \in Runners, Connect(r) PROVE sched' = sched
    BY <2>4 DEF Connect
  <2>5. ASSUME NEW r \in Runners, NEW c \in Conns, Handler(r, c) PROVE sched' = sched
    BY <2>5 DEF Handler, HandlerRuns, ReconcileRunner, ReconcileRead, ReconcileDone, Serve, ApplyEvent,
       SettleStored, SettleReported, Adopt, Drop
  <2>6. ASSUME NEW o \in orphans, Orphan(o) PROVE sched' = sched
    BY <2>6 DEF Orphan, OrphanSend, OrphanAnswer, OrphanEnds
  <2>7. CASE Runner
    BY <2>7 DEF Runner, ctlVars
  <2> QED
    BY <2>1, <2>2, <2>3, <2>4, <2>5, <2>6, <2>7 DEF Next
<1> QED
  BY <1>1, <1>8, <1>9

\* what a runner does
LEMMA RunnerSteps ==
    ASSUME Runner
    PROVE  \/ \E cmd \in cmds : Execute(cmd)
           \/ cmds' \subseteq cmds /\ UNCHANGED <<box, pipe, inbox>>
           \/ \E r \in Runners, s \in Sessions : SandboxReports(r, s)
  BY DEF Runner, LoseCommand

\* a command carries its session, runner and generation to its end
LEMMA ExecuteKeeps ==
    ASSUME LinkTypeOK, NEW cmd \in cmds, Execute(cmd), NEW c \in cmds'
    PROVE  c \in cmds \/ (c.type = cmd.type /\ c.s = cmd.s /\ c.gen = cmd.gen /\ c.r = cmd.r)
<1>1. (\E sb : Leaves(cmd, sb)) \/ cmds' \subseteq cmds
  BY FinishSays, BeginSays DEF Execute, ExecCreate, ExecCreated, ExecSuspend, ExecResume, ExecResumed,
     ExecResumeStatus, ExecDestroy, Refuse
<1> QED
  BY <1>1 DEF Leaves

\* whom a resume_status asks
LEMMA AskedStep ==
    ASSUME TypeOK, PlacementInv, AskedPlaced, [Next]_vars
    PROVE  AskedPlaced'
<1>0. LinkTypeOK /\ cmds \subseteq Command
  BY DEF TypeOK, LinkTypeOK
<1>1. ASSUME sched'.pc \in {"ask", "status"}, NEW s \in sched'.todo
      PROVE  OpenedFor(s, sched.gen, sched.r)'
  BY <1>1, SchedAsks, OpenedKept
<1>2. ASSUME NEW c \in cmds, c.type = "resume_status" PROVE OpenedFor(c.s, c.gen, c.r)'
  <2>1. c.s \in Sessions /\ c.gen \in Gens
    BY <1>0, <1>2 DEF Command
  <2> QED
    BY <1>2, <2>1, OpenedKept DEF AskedPlaced
<1>3. ASSUME NEW cmd \in cmds', cmd.type = "resume_status" PROVE OpenedFor(cmd.s, cmd.gen, cmd.r)'
  <2>1. CASE PlaneStays
    <3>1. CASE cmd \in cmds
      BY <1>2, <1>3, <3>1
    <3>2. CASE \E s \in sched.todo : sched.pc = "ask" /\ cmd.s = s /\ cmd.gen = sched.gen /\ cmd.r = sched.r
      <4>1. cmd.s \in Sessions /\ cmd.gen \in Gens
        BY <3>2 DEF TypeOK, PlaneTypeOK, SchedulerState
      <4>2. OpenedFor(cmd.s, cmd.gen, cmd.r)
        BY <3>2 DEF AskedPlaced
      <4> QED
        BY <4>1, <4>2, OpenedKept
    <3> QED
      BY <1>3, <2>1, <3>1, <3>2 DEF PlaneStays
  <2>2. CASE Runner
    <3>1. CASE cmds' \subseteq cmds
      BY <1>2, <1>3, <3>1
    <3>2. ASSUME NEW c \in cmds, Execute(c) PROVE OpenedFor(cmd.s, cmd.gen, cmd.r)'
      <4>1. cmd \in cmds \/ (cmd.type = c.type /\ cmd.s = c.s /\ cmd.gen = c.gen /\ cmd.r = c.r)
        BY <1>0, <3>2, ExecuteKeeps
      <4>2. CASE cmd \in cmds
        BY <1>2, <1>3, <4>2
      <4>3. CASE cmd.type = c.type /\ cmd.s = c.s /\ cmd.gen = c.gen /\ cmd.r = c.r
        BY <1>2, <1>3, <4>3
      <4> QED
        BY <4>1, <4>2, <4>3
    <3>3. ASSUME NEW r \in Runners, NEW s \in Sessions, SandboxReports(r, s) PROVE cmds' = cmds
      BY <1>0, <3>3, ReportSpends
    <3> QED
      BY <2>2, <3>1, <3>2, <3>3, RunnerSteps
  <2> QED
    BY <2>1, <2>2, PlaneSays
<1> QED
  BY <1>1, <1>3 DEF AskedPlaced

\* evidence is about a placement that is spent, and stays so
LEMMA EvidenceStep ==
    ASSUME TypeOK, EvidenceInv, QuietRevival, [Next]_vars
    PROVE  EvidenceFine'
<1>0. LinkTypeOK /\ PlacementInv /\ AskedPlaced /\ EvidenceFine
  BY DEF TypeOK, EvidenceInv
<1>1. ASSUME NEW m \in Voiced PROVE m.s \in Sessions /\ m.gen \in Gens
  BY <1>0, VoicedType
<1>2. ASSUME NEW m, m.s \in Sessions, m.gen \in Gens, EvidencePlaced(m)
      PROVE  EvidencePlaced(m)' /\ opened'[m.s][m.gen] = opened[m.s][m.gen]
  <2>1. PICK r \in Runners : OpenedFor(m.s, m.gen, r) /\ opened[m.s][m.gen] = r
    BY <1>2 DEF EvidencePlaced
  <2>2. OpenedFor(m.s, m.gen, r)'
    BY <1>0, <1>2, <2>1, OpenedKept
  <2> QED
    BY <2>1, <2>2 DEF EvidencePlaced, OpenedFor
<1>3. ASSUME NEW m \in Voiced, Parked(m),
             Harmless(opened[m.s][m.gen], m.s, m.gen)
      PROVE  (EvidencePlaced(m) /\ EvidenceSpent(m))'
  <2>1. EvidencePlaced(m) /\ EvidenceSpent(m)
    BY <1>0, <1>3, EvidenceIsVoiced DEF EvidenceFine
  <2>2. EvidencePlaced(m)' /\ opened'[m.s][m.gen] = opened[m.s][m.gen]
    BY <1>1, <1>2, <2>1
  <2> QED
    BY <1>3, <2>1, <2>2 DEF EvidenceSpent, Harmless
<1>4. ASSUME NEW m \in Voiced, Parked(m)
      PROVE  opened[m.s][m.gen] \in Runners
  BY <1>0, <1>4, EvidenceIsVoiced DEF EvidenceFine, EvidencePlaced
<1>5. SUFFICES ASSUME NEW m \in Voiced', Parked(m)
               PROVE  (EvidencePlaced(m) /\ EvidenceSpent(m))'
  <2>1. \A m \in ParkedEvidence' : m \in Voiced' /\ Parked(m)
    BY DEF ParkedEvidence, Voiced, Said, Parked
  <2> QED
    BY <2>1 DEF EvidenceFine
<1>6. ASSUME box' = box, m \in Voiced PROVE (EvidencePlaced(m) /\ EvidenceSpent(m))'
  BY <1>3, <1>5, <1>6 DEF Harmless
<1>7. CASE PlaneStays
  BY <1>5, <1>6, <1>7 DEF PlaneStays
<1>8. CASE Runner
  <2>1. CASE UNCHANGED <<box, pipe, inbox>>
    BY <1>5, <1>6, <2>1 DEF Voiced
  <2>2. ASSUME NEW r \in Runners, NEW s \in Sessions, SandboxReports(r, s)
        PROVE  (EvidencePlaced(m) /\ EvidenceSpent(m))'
    <3>1. m \in Voiced
      BY <1>0, <1>5, <2>2, ReportSpends DEF Parked
    <3>2. Harmless(opened[m.s][m.gen], m.s, m.gen)
      BY <1>0, <1>1, <1>4, <1>5, <2>2, <3>1, ReportSpends
    <3> QED
      BY <1>3, <1>5, <3>1, <3>2
  <2>3. ASSUME NEW cmd \in cmds, Execute(cmd)
        PROVE  (EvidencePlaced(m) /\ EvidenceSpent(m))'
    <3>1. CASE m \in Voiced
      <4>1. opened[m.s][m.gen] \in Runners /\ m.s \in Sessions /\ m.gen \in Gens
        BY <1>1, <1>4, <1>5, <3>1
      <4>2. cmd.r = opened[m.s][m.gen] /\ cmd.s = m.s => ~Unfenced(cmd)
        BY <1>5, <3>1, EvidenceIsVoiced DEF QuietRevival
      <4>3. Harmless(opened[m.s][m.gen], m.s, m.gen)
        BY <1>0, <2>3, <4>1, <4>2, ExecuteSpends
      <4> QED
        BY <1>3, <1>5, <3>1, <4>3
    <3>2. CASE m \notin Voiced
      <4>1. /\ cmd.type = "resume_status" /\ m.s = cmd.s /\ m.gen = cmd.gen
            /\ Spent(box'[cmd.r][cmd.s], cmd.gen)
        BY <1>0, <1>5, <2>3, <3>2, ExecuteSays
      <4>2. cmd.r \in Runners /\ cmd.s \in Sessions /\ cmd.gen \in Gens
        BY <1>0 DEF LinkTypeOK, Command
      <4>3. opened[m.s][m.gen] = cmd.r /\ EvidencePlaced(m)
        BY <1>0, <4>1, <4>2 DEF AskedPlaced, OpenedFor, EvidencePlaced
      <4>4. EvidencePlaced(m)' /\ opened'[m.s][m.gen] = cmd.r
        BY <1>2, <4>1, <4>2, <4>3
      <4> QED
        BY <4>1, <4>4 DEF EvidenceSpent
    <3> QED
      BY <3>1, <3>2
  <2> QED
    BY <1>8, <2>1, <2>2, <2>3, RunnerSteps
<1> QED
  BY <1>7, <1>8, PlaneSays

\* reconcileResumes settles a row by an answer that says the boot did not
\* happen.  For any fleet and any schedule that answer is still true when it is
\* applied, unless a create of the session or a resume without a generation
\* was with its runner all the while: those two start whatever they find.
THEOREM EvidenceTrue == Spec /\ []QuietRevival => []EvidenceHolds
<1>1. Init => EvidenceInv
  <2> SUFFICES ASSUME Init PROVE EvidenceInv
    OBVIOUS
  <2>1. PlacementInv
    BY RunnersAssumption DEF Init, StoreInit, PlacementInv, RowPlaced, EventsPlaced, NoRow, NoRunner, IdleConn
  <2>2. AskedPlaced
    BY DEF Init, LinkInit, AskedPlaced, IdleSched
  <2>3. ParkedEvidence = {}
    BY DEF Init, LinkInit, ParkedEvidence
  <2> QED
    BY <2>1, <2>2, <2>3 DEF EvidenceInv, EvidenceFine
<1>2. TypeOK /\ EvidenceInv /\ QuietRevival /\ [Next]_vars => EvidenceInv'
  BY PlacementStep, AskedStep, EvidenceStep DEF EvidenceInv
<1>3. TypeOK /\ EvidenceInv => EvidenceHolds
  <2> SUFFICES ASSUME TypeOK, EvidenceInv, NEW m \in ParkedEvidence,
                      box[opened[m.s][m.gen]][m.s].gen = m.gen
               PROVE  box[opened[m.s][m.gen]][m.s].state \notin {"resuming", "running"}
    BY DEF EvidenceHolds
  <2>1. m.gen \in Int
    <3>1. m \in Voiced
      BY EvidenceIsVoiced
    <3>2. m.gen \in Gens
      BY <3>1, VoicedType DEF TypeOK
    <3> QED
      BY <3>2, MaxGenAssumption DEF Gens
  <2> QED
    BY <2>1 DEF EvidenceInv, EvidenceFine, EvidenceSpent, Spent
<1> QED
  BY <1>1, <1>2, <1>3, TypeCorrect, PTL DEF Spec

=============================================================================
