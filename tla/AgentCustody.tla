---------------------------- MODULE AgentCustody ----------------------------
(***************************************************************************)
(* One person's login to one coding agent: the row custody keeps for it,   *)
(* the copies in the homes of the person's sandboxes, and what keeps the   *)
(* two alike: the fetch at boot, the loop that puts what changed, the pass *)
(* made when the agent exits and at shutdown, the logout and the           *)
(* withdrawal that are swept down into the sandboxes.                      *)
(*                                                                         *)
(* A step is one critical section of a sandbox's agentSync, one statement  *)
(* of the store, or one message.  A call from a sandbox may fail before it *)
(* is sent or after, in which case it may still be executed; answers and   *)
(* downward revokes are handled on a goroutine each, so nothing is in      *)
(* order.                                                                  *)
(*                                                                         *)
(* Simplified: a set of files is one content; the backoff of a retry is    *)
(* "later"; seed files and notes, which nothing reads back, are left out;  *)
(* a sandbox's authorisation and the statement after it are one step.      *)
(***************************************************************************)
EXTENDS Integers, FiniteSets

CONSTANTS
    Boxes,              \* the person's sandboxes
    MaxLogins,          \* bound: logins made anywhere
    Attempts,           \* agentPutAttempts
    Setups              \* which of it happens together

VARIABLES
    setup,      \* the member of Setups this behaviour is about
    row,        \* the person's row in agent_credentials
    home,       \* home[b]: the files in b and agentSync's agentSet for them
    pass,       \* pass[b][w]: the loop of b, and the pass beside it (flush or close)
    orphans,    \* puts whose caller has given up, still being executed
    revokes,    \* downward revokes on their way
    user,       \* the person: membership, the sweep in hand, and what is left to spend
    past        \* history

vars == <<setup, row, home, pass, orphans, revokes, user, past>>

-----------------------------------------------------------------------------
(* Contents.  A login is a number, in the order they were made.            *)

Nothing == 0            \* no file of the set is there
Partial == -1           \* some of the set is there, or one is empty
Huge    == -2           \* more than agentSetMaxBytes
Unset   == -3           \* a digest nobody has computed: the zero array

Logins == 1 .. MaxLogins
Contents == Logins \cup {Nothing, Partial, Huge}
Workers == {"loop", "side"}

Complete(c) == c \in Logins

RowType == [version : Nat, revoked : BOOLEAN, lastRevoked : Nat, files : Logins \cup {Nothing}]

\* what happens a bounded number of times
Spendings == {"login", "remove", "spoil", "touch", "open", "flush", "file", "fault", "logout", "leave",
              "close", "kill", "start", "freeze"}

(* A behaviour starts from a row the store may hold: a tombstone holds     *)
(* nothing, and no version was revoked before it was given.                *)
ASSUME CustodyAssumption ==
    /\ {MaxLogins, Attempts} \subseteq Nat /\ Attempts > 0
    /\ \A s \in Setups : /\ s.row \in RowType /\ (s.row.revoked => s.row.files = Nothing)
                         /\ s.row.lastRevoked <= s.row.version
                         /\ s.disk \in Contents /\ s.born \in Nat
                         /\ s.left \in [Spendings -> Nat]

NoRow == [version |-> 0, revoked |-> FALSE, lastRevoked |-> 0, files |-> Nothing]

\* newAgentSync: what a fresh process knows of a home
FreshSet(disk) == [disk |-> disk, phase |-> "boot", dir |-> FALSE, version |-> 0, generation |-> 0, moved |-> FALSE,
                   digest |-> Unset, dirty |-> FALSE, retry |-> FALSE, tombstone |-> FALSE, cleanup |-> FALSE]

\* a worker: where its pass stands, what it captured, how the vault stands with its put, the answer
Idle == [at |-> "idle", generation |-> 0, version |-> 0, files |-> Nothing, tries |-> 0, seen |-> NoRow,
         ok |-> FALSE, answer |-> 0]

Init ==
    /\ setup \in Setups
    /\ row = setup.row
    /\ home = [b \in Boxes |-> [FreshSet(setup.disk) EXCEPT !.phase = IF b \in setup.boxes THEN "boot" ELSE "off"]]
    /\ pass = [b \in Boxes |-> [w \in Workers |-> Idle]]
    /\ orphans = {}
    /\ revokes = {}
    /\ user = [member |-> TRUE, sweep |-> "none", version |-> 0, left |-> setup.left]
    /\ past = [born |-> setup.born, out |-> 0, saved |-> {}, gone |-> [b \in Boxes |-> 0], barred |-> [b \in Boxes |-> 0],
               local |-> [b \in Boxes |-> Nothing], met |-> [b \in Boxes |-> FALSE], slip |-> FALSE]

Can(o) == user.left[o] > 0
Spent(o) == [user EXCEPT !.left[o] = @ - 1]
Spend(o) == Can(o) /\ user' = Spent(o)

\* the sandbox runs: it is neither stopped nor frozen
Up(b) == home[b].phase \in {"boot", "running", "closing", "last"}

\* a call of worker w of b is out
Out(b, w) == pass[b][w].at \in {"fetch", "reading", "fetched", "put", "read", "sealed", "answered"}
Putting(p) == p.at \in {"put", "read", "sealed"}

-----------------------------------------------------------------------------
(* What a sandbox's agentSync reads and writes.                            *)

\* readSetLocked: what the home holds; a home that was never opened holds nothing
Read(h) == IF h.dir THEN h.disk ELSE Nothing
Readable(h) == Read(h) # Huge

\* statAgentFiles, recorded
Stamped(h) == [h EXCEPT !.moved = FALSE]

\* an unanswered fetch takes the disk for the baseline
RebaseOnDisk(h) ==
    LET s == [Stamped(h) EXCEPT !.dirty = FALSE] IN
    IF Readable(h) THEN [s EXCEPT !.digest = Read(h)] ELSE s

\* a fetch that landed
Restored(h, v, held) ==
    [Stamped(h) EXCEPT !.disk = IF v > 0 THEN held ELSE @,
                       !.version = v, !.digest = held, !.dirty = FALSE, !.retry = FALSE, !.tombstone = FALSE]

\* the set could not be written whole: fetch it again, later
RestoreFailed(h, v) ==
    LET s == [Stamped(h) EXCEPT !.version = v, !.dirty = FALSE, !.retry = TRUE, !.tombstone = FALSE] IN
    IF Readable(h) THEN [s EXCEPT !.digest = Read(h)] ELSE s

\* the tombstone could not be applied: fetch it again, later
RemovalFailed(h, v) ==
    [Stamped(h) EXCEPT !.version = v, !.digest = Nothing, !.dirty = FALSE, !.retry = TRUE, !.tombstone = TRUE]

\* retryCleanupLocked, when it succeeds
CleanedUp(h) == [Stamped(h) EXCEPT !.dir = TRUE, !.disk = Nothing, !.cleanup = FALSE]

\* boot is over and so is the restore it began
Booted(b) ==
    /\ home[b].phase = "running" /\ home[b].dir /\ ~home[b].retry
    /\ \A w \in Workers : pass[b][w].at \notin {"fetch", "reading", "fetched"}

\* the agent writes its files: a login, a logout of its own, half a set or too much, the same bytes again
Write(b, c) ==
    /\ home[b].phase \in {"boot", "running"}
    /\ \/ c \in Logins /\ c = past.born + 1 /\ Spend("login")
       \/ c = Nothing /\ home[b].disk # Nothing /\ Spend("remove")
       \/ c \in {Partial, Huge} /\ c # home[b].disk /\ Spend("spoil")
       \/ c = home[b].disk /\ c # Nothing /\ ~home[b].moved /\ Spend("touch")
    /\ home' = [home EXCEPT ![b].disk = c, ![b].moved = TRUE]
    /\ past' = [past EXCEPT !.born = IF c \in Logins /\ c > @ THEN c ELSE @,
                            !.local[b] = IF c = home[b].disk THEN @ ELSE IF Booted(b) THEN c ELSE Nothing]
    /\ UNCHANGED <<setup, row, pass, orphans, revokes>>

-----------------------------------------------------------------------------
(* The sandbox: boot, then a pass every interval.                          *)

\* worker w of b is done, and the set is h; the loop of a booting sandbox goes on to tick
Finish(b, w, h) ==
    /\ pass' = [pass EXCEPT ![b][w] = Idle]
    /\ home' = [home EXCEPT ![b] = IF w = "loop" /\ h.phase = "boot" THEN [h EXCEPT !.phase = "running"] ELSE h]

\* fetchOne, up to its call
FetchOne(b, w) ==
    /\ pass' = [pass EXCEPT ![b][w] = [Idle EXCEPT !.at = "fetch", !.generation = home[b].generation]]
    /\ home' = [home EXCEPT ![b].dir = TRUE]

\* boot, once the connection is there or agentConnWait is over
Boot(b) ==
    /\ home[b].phase = "boot" /\ pass[b].loop.at = "idle"
    /\ FetchOne(b, "loop")
    /\ UNCHANGED <<setup, row, orphans, revokes, user, past>>

\* boot with a home that cannot be opened: a note, and on to the loop
BootUnopened(b) ==
    /\ home[b].phase = "boot" /\ pass[b].loop.at = "idle"
    /\ Spend("open")
    /\ Finish(b, "loop", home[b])
    /\ UNCHANGED <<setup, row, orphans, revokes, past>>

\* flush: a pass beside the loop's, when the agent exits and before a suspend
Flush(b) ==
    /\ home[b].phase = "running" /\ pass[b].side.at = "idle"
    /\ Spend("flush")
    /\ pass' = [pass EXCEPT ![b].side.at = "start"]
    /\ UNCHANGED <<setup, row, home, orphans, revokes, past>>

\* a worker is at the start of syncOne; close has stopped the loop's ticks
AtSync(b, w) ==
    /\ Up(b)
    /\ IF w = "loop" THEN home[b].phase = "running" /\ pass[b].loop.at = "idle" ELSE pass[b].side.at = "start"

\* syncOne, a revoke whose files are still there: only that
SyncCleanup(b, w) ==
    /\ AtSync(b, w) /\ home[b].cleanup
    /\ Finish(b, w, CleanedUp(home[b]))
    /\ UNCHANGED <<setup, row, orphans, revokes, user, past>>

\* syncOne, a cleanup that fails again
SyncCleanupFails(b, w) ==
    /\ AtSync(b, w) /\ home[b].cleanup
    /\ Spend("file")
    /\ Finish(b, w, home[b])
    /\ UNCHANGED <<setup, row, orphans, revokes, past>>

\* a complete set that changed since the failed restore: a login made here, which wins
LocalWins(h) ==
    /\ ~h.tombstone
    /\ Readable(h) /\ Complete(Read(h))
    /\ h.moved \/ Read(h) # h.digest

\* syncOne, a restore to be made again
SyncRestore(b, w) ==
    /\ AtSync(b, w) /\ ~home[b].cleanup /\ home[b].retry
    /\ ~LocalWins(home[b])
    /\ FetchOne(b, w)
    /\ UNCHANGED <<setup, row, orphans, revokes, user, past>>

\* syncOne, the stat: what moved is dirty, and what is dirty is due once its backoff is over
SyncStat(b, w) ==
    LET h == home[b]
        s == [Stamped(h) EXCEPT !.dirty = @ \/ h.moved, !.retry = FALSE] IN
    /\ AtSync(b, w) /\ ~h.cleanup /\ (h.retry => LocalWins(h))
    /\ IF s.dirty THEN pass' = [pass EXCEPT ![b][w] = [Idle EXCEPT !.at = "due"]] /\ home' = [home EXCEPT ![b] = s]
                  ELSE Finish(b, w, s)
    /\ past' = [past EXCEPT !.met[b] = @ \/ (s.dirty /\ \E v \in Workers \ {w} : pass[b][v].at \notin {"idle", "start"})]
    /\ UNCHANGED <<setup, row, orphans, revokes, user>>

\* putSet, up to its call: the set is read again, and only what custody did not acknowledge is sent
PutSet(b, w) ==
    LET h == home[b] IN
    /\ Up(b) /\ pass[b][w].at = "due"
    /\ IF Readable(h) /\ Read(h) # h.digest
       THEN /\ pass' = [pass EXCEPT ![b][w] = [Idle EXCEPT !.at = "put", !.generation = h.generation,
                                                           !.version = h.version, !.files = Read(h)]]
            /\ home' = home
       ELSE Finish(b, w, [h EXCEPT !.dirty = FALSE])
    /\ past' = [past EXCEPT !.slip = @ \/ h.cleanup \/ (h.retry /\ h.tombstone)]
    /\ UNCHANGED <<setup, row, orphans, revokes, user>>

\* putSet, its answer, taking the files for what was sent
PutAnsweredStamping(b, w) ==
    LET h == home[b]
        p == pass[b][w] IN
    /\ Up(b) /\ p.at = "answered"
    /\ Finish(b, w, IF h.generation = p.generation /\ p.ok
                    THEN [Stamped(h) EXCEPT !.version = p.answer, !.digest = p.files, !.dirty = FALSE] ELSE h)
    /\ UNCHANGED <<setup, row, orphans, revokes, user, past>>

\* putSet, its answer
PutAnswered(b, w) ==
    LET h == home[b]
        p == pass[b][w] IN
    /\ Up(b) /\ p.at = "answered"
    /\ Finish(b, w,
           IF h.generation = p.generation /\ p.ok
           THEN [h EXCEPT !.version = IF p.answer > 0 THEN p.answer ELSE @, !.digest = p.files, !.dirty = FALSE]
           ELSE h)
    /\ UNCHANGED <<setup, row, orphans, revokes, user, past>>

\* fetchOne, its answer, whatever came in between
FetchAnsweredUnfenced(b, w) ==
    LET h == home[b]
        p == pass[b][w] IN
    /\ Up(b) /\ p.at = "fetched"
    /\ Finish(b, w, IF p.ok THEN Restored(h, p.answer, p.files) ELSE RebaseOnDisk(h))
    /\ past' = [past EXCEPT !.slip = @ \/ (p.ok /\ p.answer < h.version)]
    /\ UNCHANGED <<setup, row, orphans, revokes, user>>

\* fetchOne, its answer: dropped if a revoke came in between
FetchAnswered(b, w) ==
    LET h == home[b]
        p == pass[b][w] IN
    /\ Up(b) /\ p.at = "fetched"
    /\ Finish(b, w, CASE ~p.ok -> RebaseOnDisk(h)
                      [] p.ok /\ h.generation # p.generation -> h
                      [] OTHER -> Restored(h, p.answer, p.files))
    /\ past' = [past EXCEPT !.slip = @ \/ (p.ok /\ p.answer < h.version)]
    /\ UNCHANGED <<setup, row, orphans, revokes, user>>

\* fetchOne, its answer, on a disk that fails: nothing of it, or only some, is there
FetchLandsBadly(b, w) ==
    LET h == home[b]
        p == pass[b][w] IN
    /\ Up(b) /\ p.at = "fetched" /\ p.ok /\ h.generation = p.generation /\ p.answer > 0
    /\ Spend("file")
    /\ \/ p.files = Nothing /\ Finish(b, w, RemovalFailed(h, p.answer))
       \/ p.files # Nothing /\ \E d \in {h.disk, Partial} : Finish(b, w, RestoreFailed([h EXCEPT !.disk = d], p.answer))
    /\ UNCHANGED <<setup, row, orphans, revokes, past>>

\* Call: no connection, the connection ends, no answer in time; what was sent may still be served
CallFails(b, w) ==
    LET h == home[b]
        p == pass[b][w] IN
    /\ Up(b) /\ Out(b, w)
    /\ Spend("fault")
    /\ \/ p.at \in {"fetch", "put"} /\ orphans' = orphans
       \/ orphans' = IF Putting(p) THEN orphans \cup {p} ELSE orphans
    /\ Finish(b, w, IF p.at \in {"fetch", "reading", "fetched"} THEN RebaseOnDisk(h) ELSE h)
    /\ UNCHANGED <<setup, row, revokes, past>>

-----------------------------------------------------------------------------
(* Custody: agent_credentials, AgentVault, and the answers to a sandbox.   *)

Tombstone == [version |-> row.version + 1, revoked |-> TRUE, lastRevoked |-> row.version + 1, files |-> Nothing]

\* PutAgentCredentials, having read the row: may a put that expects this version go on
Admits(expected, r) ==
    /\ expected >= r.lastRevoked
    /\ r.revoked => expected = r.version
    /\ r.version = 0 => expected = 0

StoresOver(seen) == row.version >= seen.version

\* PutAgentCredential: one statement, guarded by the version the bytes were sealed for
Stores(seen) == row.version = seen.version

\* ConditionalRevokeAgentCredential: an emptied home may log out what it knew of
MayRevoke(expected) == row.version = 0 \/ row.lastRevoked <= expected

Answer(p, ok, v) == [p EXCEPT !.at = IF p.at = "reading" THEN "fetched" ELSE "answered", !.ok = ok, !.answer = v]

\* answerable: the row's person may still attach to the session
Authorize(p) ==
    CASE ~user.member -> [Answer(p, FALSE, 0) EXCEPT !.at = IF p.at = "fetch" THEN "fetched" ELSE "answered"]
      [] user.member /\ p.at = "fetch" -> [p EXCEPT !.at = "reading"]
      \* checkAgentFiles
      [] user.member /\ p.at = "put" /\ p.files = Partial -> Answer(p, FALSE, 0)
      [] OTHER -> [p EXCEPT !.at = "read"]

\* FetchAgentCredentials: nothing, a tombstone, or the set
Fetched(p) == [Answer(p, TRUE, row.version) EXCEPT !.files = row.files]

\* one turn of serving p: how p stands after it
Served(p) ==
    CASE p.at \in {"fetch", "put"} -> Authorize(p)
      [] p.at = "reading" -> Fetched(p)
      [] p.at = "read" /\ p.files = Nothing -> Answer(p, MayRevoke(p.version), row.version + 1)
      [] p.at = "read" /\ p.files # Nothing -> IF Admits(p.version, row) THEN [p EXCEPT !.at = "sealed", !.seen = row]
                                                                         ELSE Answer(p, FALSE, 0)
      [] p.at = "sealed" -> IF Stores(p.seen) THEN Answer(p, TRUE, p.seen.version + 1)
                            ELSE IF p.tries + 1 < Attempts THEN [p EXCEPT !.at = "read", !.tries = @ + 1]
                            ELSE Answer(p, FALSE, 0)

\* and the row
Kept(p) ==
    CASE p.at = "read" /\ p.files = Nothing /\ MayRevoke(p.version) -> Tombstone
      [] p.at = "sealed" /\ Stores(p.seen) -> [row EXCEPT !.version = p.seen.version + 1, !.revoked = FALSE, !.files = p.files]
      [] OTHER -> row

Saves(p) == past' = [past EXCEPT !.saved = @ \cup ({Kept(p).files} \ {Nothing})]

\* a call of a sandbox, served
Serve(b, w) ==
    LET p == pass[b][w] IN
    /\ p.at = "fetch" \/ p.at = "reading" \/ Putting(p)
    /\ pass' = [pass EXCEPT ![b][w] = Served(p)]
    /\ row' = Kept(p)
    /\ Saves(p)
    /\ UNCHANGED <<setup, home, orphans, revokes, user>>

\* a call nobody waits for, served
ServeOrphan(p) ==
    /\ p \in orphans
    /\ orphans' = (orphans \ {p}) \cup (IF Putting(Served(p)) THEN {Served(p)} ELSE {})
    /\ row' = Kept(p)
    /\ Saves(p)
    /\ UNCHANGED <<setup, home, pass, revokes, user>>

\* FetchAgentCredentials, a row that does not open: an error, not version 0
FetchUnreadable(b, w) ==
    /\ pass[b][w].at = "reading" /\ row.files # Nothing
    /\ Spend("fault")
    /\ pass' = [pass EXCEPT ![b][w] = Answer(@, FALSE, 0)]
    /\ UNCHANGED <<setup, row, home, orphans, revokes, past>>

-----------------------------------------------------------------------------
(* Logging out, and losing the membership.                                 *)

\* Logout: the row becomes a tombstone; the sweep comes after it
Logout ==
    /\ user.sweep = "none" /\ Can("logout")
    /\ row' = Tombstone
    /\ user' = [Spent("logout") EXCEPT !.sweep = "logout", !.version = row.version + 1]
    /\ past' = [past EXCEPT !.out = past.born]
    /\ UNCHANGED <<setup, home, pass, orphans, revokes>>

\* the membership is gone; Withdraw sweeps, and custody keeps the login
Leave ==
    /\ user.sweep = "none" /\ user.member /\ Can("leave")
    /\ user' = [Spent("leave") EXCEPT !.member = FALSE, !.sweep = "withdraw", !.version = 0]
    /\ UNCHANGED <<setup, row, home, pass, orphans, revokes, past>>

Rejoin ==
    /\ ~user.member
    /\ user' = [user EXCEPT !.member = TRUE]
    /\ past' = [past EXCEPT !.barred = [b \in Boxes |-> 0]]
    /\ UNCHANGED <<setup, row, home, pass, orphans, revokes>>

\* revokeDownward: to every session that is running; one that boots may not be running yet
RevokeDownward ==
    /\ user.sweep # "none"
    /\ \E booting \in SUBSET {b \in Boxes : home[b].phase = "boot"} :
           revokes' = revokes \cup {[box |-> b, version |-> user.version, born |-> IF user.version > 0 THEN past.out ELSE past.born] :
                                        b \in booting \cup {c \in Boxes : home[c].phase \in {"running", "closing", "last"}}}
    /\ user' = [user EXCEPT !.sweep = "none"]
    /\ UNCHANGED <<setup, row, home, pass, orphans, past>>

\* best effort
RevokeLost(m) ==
    /\ m \in revokes
    /\ Spend("fault")
    /\ revokes' = revokes \ {m}
    /\ UNCHANGED <<setup, row, home, pass, orphans, past>>

\* handleRevoke: the fence first, then the files; what cannot be removed is left to the next pass
HandleRevoke(m, fails) ==
    LET b == m.box
        h == home[b]
        fenced == [h EXCEPT !.generation = @ + 1, !.version = IF m.version > 0 THEN m.version ELSE @, !.digest = Nothing,
                            !.dirty = FALSE, !.retry = FALSE, !.tombstone = FALSE, !.cleanup = TRUE] IN
    /\ m \in revokes /\ Up(b)
    /\ revokes' = revokes \ {m}
    /\ IF m.version > 0 /\ m.version < h.version
       THEN ~fails /\ UNCHANGED <<home, user, past>>
       ELSE /\ home' = [home EXCEPT ![b] = IF fails THEN fenced ELSE CleanedUp(fenced)]
            /\ IF fails THEN Spend("file") ELSE UNCHANGED user
            /\ past' = IF m.version > 0 THEN [past EXCEPT !.gone[b] = IF m.born > @ THEN m.born ELSE @]
                       ELSE IF user.member THEN past
                       ELSE [past EXCEPT !.barred[b] = m.born]
    /\ UNCHANGED <<setup, row, pass, orphans>>

-----------------------------------------------------------------------------
(* The sandbox stops, is frozen, and starts again.                         *)

\* close: no more ticks; then one last put, after the loop's pass or callTimeout
Close(b) ==
    /\ home[b].phase = "running"
    /\ Spend("close")
    /\ home' = [home EXCEPT ![b].phase = "closing"]
    /\ UNCHANGED <<setup, row, pass, orphans, revokes, past>>

\* the process ends; a put that was out may still be served, a revoke that was not done is forgotten
Gone(b, h) ==
    /\ home' = [home EXCEPT ![b] = [h EXCEPT !.phase = "off"]]
    /\ pass' = [pass EXCEPT ![b] = [w \in Workers |-> Idle]]
    /\ orphans' = orphans \cup {pass[b][w] : w \in {v \in Workers : Putting(pass[b][v])}}
    /\ revokes' = {m \in revokes : m.box # b}
    /\ past' = IF h.cleanup THEN [past EXCEPT !.gone[b] = 0, !.barred[b] = 0] ELSE past

\* close, its look at the set: what a put may carry is due whatever the stamps say
CloseSet(b) ==
    LET h == home[b]
        skip == h.retry /\ (h.tombstone \/ ~Readable(h) \/ ~Complete(Read(h))) IN
    /\ h.phase = "closing" /\ pass[b].side.at = "idle"
    /\ \/ pass[b].loop.at = "idle" /\ UNCHANGED user
       \/ pass[b].loop.at # "idle" /\ Spend("fault")
    /\ CASE h.cleanup -> Gone(b, CleanedUp(h))
         [] ~h.cleanup /\ skip -> Gone(b, h)
         [] OTHER -> /\ home' = [home EXCEPT ![b].phase = "last", ![b].dirty = TRUE, ![b].retry = FALSE]
                     /\ pass' = [pass EXCEPT ![b].side.at = "due"]
                     /\ UNCHANGED <<orphans, revokes, past>>
    /\ UNCHANGED <<setup, row>>

\* the last put is over, and so is the process; or it is killed
Stop(b) ==
    /\ \/ home[b].phase = "last" /\ pass[b].side.at = "idle" /\ UNCHANGED user
       \/ home[b].phase # "off" /\ Spend("kill")
    /\ Gone(b, home[b])
    /\ UNCHANGED <<setup, row>>

\* a new process, on the volume the last one left or on a fresh one
Start(b, disk) ==
    /\ b \in setup.boxes /\ home[b].phase = "off" /\ disk \in {home[b].disk, Nothing}
    /\ Spend("start")
    /\ home' = [home EXCEPT ![b] = FreshSet(disk)]
    /\ past' = [past EXCEPT !.local[b] = Nothing, !.met[b] = FALSE]
    /\ UNCHANGED <<setup, row, pass, orphans, revokes>>

\* a warm suspend, after which the process goes on where it was; what was on its way is lost
Freeze(b) ==
    /\ home[b].phase = "running"
    /\ Spend("freeze")
    /\ home' = [home EXCEPT ![b].phase = "frozen"]
    /\ revokes' = {m \in revokes : m.box # b}
    /\ UNCHANGED <<setup, row, pass, orphans, past>>

Thaw(b) ==
    /\ home[b].phase = "frozen"
    /\ home' = [home EXCEPT ![b].phase = "running"]
    /\ UNCHANGED <<setup, row, pass, orphans, revokes, user, past>>

-----------------------------------------------------------------------------

\* one worker of b, and the calls it makes
WorkerStep(b, w) ==
    \/ SyncCleanup(b, w) \/ SyncRestore(b, w) \/ SyncStat(b, w)
    \/ PutSet(b, w) \/ PutAnswered(b, w) \/ FetchAnswered(b, w) \/ Serve(b, w)

Faults(b, w) == SyncCleanupFails(b, w) \/ FetchLandsBadly(b, w) \/ CallFails(b, w) \/ FetchUnreadable(b, w)

BoxStep(b) ==
    \/ Boot(b) \/ BootUnopened(b) \/ Flush(b)
    \/ Close(b) \/ CloseSet(b) \/ Stop(b) \/ Freeze(b) \/ Thaw(b)
    \/ \E c \in Contents : Write(b, c) \/ Start(b, c)

CustodyStep ==
    \/ \E p \in orphans : ServeOrphan(p)
    \/ Logout \/ Leave \/ Rejoin \/ RevokeDownward
    \/ \E m \in revokes : RevokeLost(m) \/ \E fails \in BOOLEAN : HandleRevoke(m, fails)

Next ==
    \/ \E b \in Boxes : BoxStep(b) \/ \E w \in Workers : WorkerStep(b, w) \/ Faults(b, w)
    \/ CustodyStep

(* A sandbox that runs boots and ticks, its calls are answered or fail.    *)
Fairness == \A b \in Boxes : WF_vars(Boot(b)) /\ \A w \in Workers : WF_vars(WorkerStep(b, w))

Spec == Init /\ [][Next]_vars /\ Fairness

-----------------------------------------------------------------------------

SetType == [disk : Contents, phase : {"boot", "running", "closing", "last", "frozen", "off"}, dir : BOOLEAN, version : Nat,
            generation : Nat, moved : BOOLEAN, digest : Contents \cup {Unset}, dirty : BOOLEAN, retry : BOOLEAN,
            tombstone : BOOLEAN, cleanup : BOOLEAN]
CallType == [at : {"idle", "start", "due", "fetch", "reading", "fetched", "put", "read", "sealed", "answered"},
             generation : Nat, version : Nat, files : Contents, tries : Nat, seen : RowType, ok : BOOLEAN, answer : Nat]
RevokeType == [box : Boxes, version : Nat, born : Nat]

(* The row, the sets of the sandboxes and the calls are what agents.go and *)
(* agentvault.go declare them to be: custody holds a whole login or        *)
(* nothing, and a tombstone holds nothing.                                 *)
TypeOK ==
    /\ row \in RowType /\ (row.revoked => row.files = Nothing)
    /\ home \in [Boxes -> SetType]
    /\ pass \in [Boxes -> [Workers -> CallType]]
    /\ orphans \subseteq CallType /\ revokes \subseteq RevokeType
    /\ user \in [member : BOOLEAN, sweep : {"none", "logout", "withdraw"}, version : Nat, left : [Spendings -> Nat]]
    /\ past \in [born : Nat, out : Nat, saved : SUBSET Logins, gone : [Boxes -> Nat], barred : [Boxes -> Nat],
                 local : [Boxes -> Contents], met : [Boxes -> BOOLEAN], slip : BOOLEAN]
    /\ \A b \in Boxes, w \in Workers : Putting(pass[b][w]) => pass[b][w].files # Huge

\* what custody holds is younger than the last logout
Younger == row.files \in Logins => row.files > past.out

(* A login made before the person logged out is never in custody again,    *)
(* whatever puts were on their way, whichever sandboxes the sweep missed,  *)
(* and wherever the files are still on a disk.  The slips of a sandbox are *)
(* set apart: a put that read the files under a removal it could not       *)
(* finish, a revoke's or a fetched tombstone's, and, of two fetches made   *)
(* at once, the older answer landing last.                                 *)
LoggedOutStaysOut == Younger \/ past.slip

(* A sandbox that was told to forget a login, and has, does not get it     *)
(* back: not from a fetch that was out while the revoke was handled, not   *)
(* from a retry of a restore, not after a restart; the same slips aside.   *)
RevokedStaysGone ==
    past.slip \/ \A b \in Boxes : home[b].disk \in Logins /\ ~home[b].cleanup
                                     => home[b].disk > past.gone[b] /\ home[b].disk > past.barred[b]

\* a login made in b since it booted, still on its disk, that custody never held and would still take
Unsaved(b) ==
    /\ Booted(b) /\ ~home[b].cleanup
    /\ home[b].disk = past.local[b] /\ past.local[b] \in Logins \ past.saved
    /\ user.member /\ home[b].version >= row.lastRevoked
    /\ ~past.met[b]

(* A login made in a sandbox whose homes are ready reaches custody, unless *)
(* the files change or are revoked first, the membership ends, the sandbox *)
(* is behind a logout it was not told of, or two of its own passes met.    *)
LoginSaved == \A b \in Boxes : []<>~Unsaved(b)
=============================================================================
