--------------------------- MODULE GuestReconnect ---------------------------
(***************************************************************************)
(* One session in a microVM: how its guest is first admitted over vsock,   *)
(* and how it comes back, with fresh secrets, after its connection, the    *)
(* runner's control connection or the runner itself is lost.               *)
(*                                                                         *)
(* The store's bootstrap row holds a token that is spent once, the guest's *)
(* pinned identity, one pending attempt and the connection epoch.  The     *)
(* runner holds the registry entry, the workers that own a stream under a  *)
(* lease, and the requests it forwards for the guest.  A step is one       *)
(* transaction of the store, one critical section of the registry, or one  *)
(* frame read at either end of a stream.                                   *)
(*                                                                         *)
(* Simplified: a signature is the boot it was made by; a deadline passes   *)
(* when a behaviour spends it; the cold suspend and the boot are one step  *)
(* each (MicroVM and Checkpoint have them in full); a second dial waits    *)
(* for the first one's enrolment worker to end.                            *)
(***************************************************************************)
EXTENDS Integers, Sequences

CONSTANTS
    Conns,              \* vsock streams that may exist at once
    MaxEpoch,           \* bound: epochs a guest that refuses its configuration goes through
    Setups              \* which of it happens together

Workers == {"enroll", "reconnect", "resume", "recover"}
None == 0

ASSUME ReconnectAssumption ==
    /\ Conns \subseteq Nat \ {0} /\ MaxEpoch \in Nat
    /\ \A su \in Setups : su.served \in BOOLEAN /\ (su.served => 1 \in Conns)

VARIABLES
    setup,      \* the member of Setups this behaviour is about
    store,      \* the session's bootstrap row, and the rows lockScope reads
    link,       \* generation of the runner's control connection, 0 for none
    entry,      \* the runner's registry entry
    chan,       \* the driver's guestChannel
    guest,      \* sessiond: its identity, and where its connection stands
    wire,       \* wire[c]: the two ends of stream c and the frames in it
    work,       \* work[w]: what the runner does with a stream, or for a resume
    late,       \* calls whose caller has given up, not yet executed
    asks,       \* the guest's requests between its hub and the control plane
    fwd,        \* guestForwards
    left,       \* what is left to spend
    past        \* history

vars == <<setup, store, link, entry, chan, guest, wire, work, late, asks, fwd, left, past>>

-----------------------------------------------------------------------------

\* one frame: its kind and two numbers
F(k, n, m) == [k |-> k, n |-> n, m |-> m]

NoWork == [pc |-> "idle", conn |-> None, boot |-> 0, gen |-> 0, link |-> 0, hub |-> None,
           call |-> "none", n |-> 0, token |-> 0, epoch |-> 0, cap |-> 0]

Closed == [host |-> FALSE, guest |-> FALSE, down |-> <<>>, up |-> <<>>]

\* a sessiond that has just started in boot vm
FreshGuest(vm) == [vm |-> vm, up |-> TRUE, id |-> "none", epoch |-> 0, token |-> 0, next |-> 0, env |-> 0,
                   pc |-> "boot", conn |-> None, seq |-> 0, ask |-> 0]

\* the session boots for the first time, or runs with an enrolled guest on stream 1
Init ==
    /\ setup \in Setups
    /\ store = [token |-> 1, consumed |-> setup.served, minted |-> 1, gen |-> 1, place |-> 1, on |-> TRUE,
                identity |-> IF setup.served THEN 1 ELSE 0, attempt |-> 0, by |-> 0, tries |-> 0, epoch |-> 0,
                runnerGen |-> 1, connected |-> TRUE, edited |-> FALSE]
    /\ link = 1
    /\ entry = [boot |-> 1, gen |-> 1, state |-> "running", hub |-> IF setup.served THEN 1 ELSE None, hubLink |-> 1,
                epoch |-> 0, recovered |-> FALSE, boots |-> 1]
    /\ chan = [vm |-> 1, open |-> TRUE, served |-> setup.served, pending |-> FALSE, token |-> 1]
    /\ guest = IF setup.served
               THEN [FreshGuest(1) EXCEPT !.id = "enrolled", !.token = 1, !.env = 1, !.pc = "serving", !.conn = 1]
               ELSE FreshGuest(1)
    /\ wire = [c \in Conns |-> IF setup.served /\ c = 1 THEN [Closed EXCEPT !.host = TRUE, !.guest = TRUE] ELSE Closed]
    /\ work = [w \in Workers |-> NoWork]
    /\ late = {} /\ asks = {}
    /\ fwd = [seq |-> 0, pending |-> {}]
    /\ left = setup.left
    /\ past = [tag |-> 0, wrong |-> FALSE, fenced |-> {}, remint |-> FALSE]

Spend(o) == left[o] > 0 /\ left' = [left EXCEPT ![o] = @ - 1]

\* the streams somebody still holds
Held == {guest.conn, entry.hub} \cup {work[w].conn : w \in Workers} \cup {work[w].hub : w \in Workers}
        \cup {a.conn : a \in asks} \cup {f.hub : f \in fwd.pending}

\* a write to the other end; one whose peer is gone fails silently here and shows in the next read
Down(c, frames) == IF wire[c].host /\ wire[c].guest THEN [wire EXCEPT ![c].down = @ \o frames] ELSE wire
Up(c, frames) == IF wire[c].host /\ wire[c].guest THEN [wire EXCEPT ![c].up = @ \o frames] ELSE wire

\* the next frame is read at either end
TakeDown(v, c) == [v EXCEPT ![c].down = Tail(@)]
TakeUp(v, c) == [v EXCEPT ![c].up = Tail(@)]

\* an end closes; what was written before can still be read
HostCloses(v, c) == IF c = None THEN v ELSE [v EXCEPT ![c].host = FALSE, ![c].up = <<>>]
GuestCloses(v, c) == IF c = None THEN v ELSE [v EXCEPT ![c].guest = FALSE, ![c].down = <<>>]

\* a hub is gone: the runner's end is closed and nobody waits for its answers
WithoutHub(hub) == [fwd EXCEPT !.pending = {f \in @ : f.hub # hub}]

-----------------------------------------------------------------------------
(* The control plane.                                                      *)

\* lockScope: the caller's connection is current and the session is placed and live
InScope(k) == store.connected /\ store.runnerGen = k.link /\ store.on

\* lockBootstrap: the row is of the placement there is now
OfThisPlacement == store.gen = store.place

\* Accept: the pending attempt, begun on this connection, and signed by the pinned key
Proven(k) == k.n # 0 /\ k.n = store.attempt /\ store.by = k.link /\ k.token = store.identity

\* the row and the answer a call leaves: what is refused leaves the row alone
Refused == [row |-> store, ok |-> FALSE, n |-> 0, token |-> 0]

\* EnrollGuest: the first token is spent and the guest's key pinned
EnrollGuest(k) ==
    IF InScope(k) /\ k.token = store.token /\ ~store.consumed /\ OfThisPlacement /\ store.identity = 0
    THEN [row |-> [store EXCEPT !.consumed = TRUE, !.identity = k.n], ok |-> TRUE, n |-> 0, token |-> k.token]
    ELSE Refused

\* BeginGuestReconnect: the attempt replaces whichever was pending
BeginGuestReconnect(k) ==
    IF InScope(k) /\ store.identity # 0 /\ OfThisPlacement
    THEN [row |-> [store EXCEPT !.tries = @ + 1, !.attempt = store.tries + 1, !.by = k.link],
          ok |-> TRUE, n |-> store.tries + 1, token |-> store.identity]
    ELSE Refused

\* Accept, storing its token the way a mint does
ConsumeByMint(k) ==
    IF InScope(k) /\ Proven(k) /\ OfThisPlacement
    THEN [row |-> [store EXCEPT !.epoch = 0, !.minted = @ + 1, !.token = store.minted + 1, !.consumed = FALSE,
                                !.identity = 0, !.attempt = 0, !.by = 0],
          ok |-> TRUE, n |-> store.epoch + 1, token |-> store.minted + 1]
    ELSE Refused

\* Accept: a newer epoch, and a fresh token that names no other guest
ConsumeGuestReconnect(k) ==
    IF InScope(k) /\ Proven(k) /\ OfThisPlacement
    THEN [row |-> [store EXCEPT !.epoch = @ + 1, !.minted = @ + 1, !.token = store.minted + 1, !.consumed = FALSE,
                                !.attempt = 0, !.by = 0],
          ok |-> TRUE, n |-> store.epoch + 1, token |-> store.minted + 1]
    ELSE Refused

\* the configuration the session would be launched with now
Configuration(k) == IF InScope(k) THEN [Refused EXCEPT !.ok = TRUE, !.n = store.place] ELSE Refused

\* ConsumeSessionBootstrap, asked by the host, which only a reconnected guest's host may
ConsumeSessionBootstrap(k) ==
    IF InScope(k) /\ store.epoch > 0 /\ k.token = store.token /\ ~store.consumed /\ OfThisPlacement
    THEN [row |-> [store EXCEPT !.consumed = TRUE], ok |-> TRUE, n |-> 0, token |-> k.token]
    ELSE Refused

\* PutSessionBootstrap: a fresh token, and nothing known of any guest
MintSessionBootstrap(k) ==
    IF InScope(k)
    THEN [row |-> [store EXCEPT !.minted = @ + 1, !.token = store.minted + 1, !.consumed = FALSE, !.gen = store.place,
                                !.identity = 0, !.attempt = 0, !.by = 0, !.epoch = 0],
          ok |-> TRUE, n |-> 0, token |-> store.minted + 1]
    ELSE Refused

\* answerGuestReconnect
Answer(k) ==
    CASE k.method = "enroll"  -> EnrollGuest(k)
      [] k.method = "begin"   -> BeginGuestReconnect(k)
      [] k.method = "accept"  -> ConsumeGuestReconnect(k)
      [] k.method = "config"  -> Configuration(k)
      [] k.method = "fetch"   -> ConsumeSessionBootstrap(k)
      [] k.method = "mint"    -> MintSessionBootstrap(k)

\* the call worker w has out
Method(w) == CASE work[w].pc = "enrolling" -> "enroll" [] work[w].pc = "begin" -> "begin" [] work[w].pc = "accept" -> "accept"
               [] work[w].pc \in {"config", "authorize"} -> "config" [] work[w].pc = "fetch" -> "fetch"
               [] work[w].pc = "mint" -> "mint"
CallOf(w) == [method |-> Method(w), link |-> work[w].link, n |-> work[w].n, token |-> work[w].token]

\* a call is answered; secrets may not be resolvable once their token is spent
Serve(w) ==
    LET a == Answer(CallOf(w)) IN
    /\ work[w].call = "sent"
    /\ store' = a.row
    /\ \/ work' = [work EXCEPT ![w].call = IF a.ok THEN "ok" ELSE "no", ![w].n = a.n, ![w].token = a.token] /\ left' = left
       \/ a.ok /\ Method(w) \in {"enroll", "fetch"} /\ Spend("secrets") /\ work' = [work EXCEPT ![w].call = "no"]
    /\ UNCHANGED <<setup, link, entry, chan, guest, wire, late, asks, fwd, past>>

\* a call is executed after its caller gave up
ServeLate(k) ==
    /\ k \in late
    /\ late' = late \ {k}
    /\ store' = Answer(k).row
    /\ past' = [past EXCEPT !.remint = @ \/ (k.method = "mint" /\ Answer(k).ok)]
    /\ UNCHANGED <<setup, link, entry, chan, guest, wire, work, asks, fwd, left>>

\* the pending attempt, or the token, is past its deadline
Expire ==
    /\ Spend("expire")
    /\ \/ store.attempt # 0 /\ store' = [store EXCEPT !.attempt = 0, !.by = 0]
       \/ ~store.consumed /\ store' = [store EXCEPT !.consumed = TRUE]
    /\ UNCHANGED <<setup, link, entry, chan, guest, wire, work, late, asks, fwd, past>>

\* the environment is edited: what the session would be launched with now is not what it was
Edit ==
    /\ ~store.edited /\ Spend("edit")
    /\ store' = [store EXCEPT !.edited = TRUE]
    /\ UNCHANGED <<setup, link, entry, chan, guest, wire, work, late, asks, fwd, past>>

-----------------------------------------------------------------------------
(* The runner: the lease, and what ends it.                                *)

Leased(w) == w \in {"enroll", "reconnect"} /\ work[w].pc \notin {"idle", "wait"}

\* acquireGuestReconnect: one per session
MayAcquire == entry.gen # 0 /\ entry.state = "running" /\ link # 0 /\ \A w \in Workers : ~Leased(w)

Lease(c) == [NoWork EXCEPT !.conn = c, !.boot = entry.boot, !.gen = entry.gen, !.link = link, !.hub = entry.hub]

\* guestReconnectLease.matches
Matches(w) ==
    /\ link # 0 /\ link = work[w].link
    /\ entry.gen = work[w].gen /\ entry.boot = work[w].boot
    /\ entry.hub \in {None, work[w].hub} /\ entry.state = "running"

\* the call a worker leaves behind when it ends
Abandoned(w) == IF work[w].call = "sent" THEN {CallOf(w)} ELSE {}

\* a worker ends: its stream is closed with nothing published
Fail(w) ==
    /\ work' = [work EXCEPT ![w] = NoWork]
    /\ wire' = HostCloses(wire, work[w].conn)
    /\ late' = late \cup Abandoned(w)
    /\ chan' = IF w = "reconnect" THEN [chan EXCEPT !.pending = FALSE] ELSE chan
    /\ UNCHANGED <<entry, fwd, past>>

\* worker w sends its next call
Calls(w, pc, n, token) == work' = [work EXCEPT ![w].pc = pc, ![w].call = "sent", ![w].n = n, ![w].token = token]

\* worker w goes on to await a frame
Awaits(w, pc) == work' = [work EXCEPT ![w].pc = pc, ![w].call = "none"]

Answered(w, pc) == work[w].pc = pc /\ work[w].call \in {"ok", "no"}
Accepted(w) == work[w].call = "ok" /\ Matches(w)

\* worker w reads a frame of its guest
Heard(w, pc) == work[w].pc = pc /\ wire[work[w].conn].up # <<>>
Frame(w) == Head(wire[work[w].conn].up)
Read(w) == TakeUp(wire, work[w].conn)

\* an epoch no newer than the one fenced, or the configuration of another placement
Misplaced(w) ==
    /\ work[w].call = "ok"
    /\ (work[w].pc = "accept" /\ work[w].n <= entry.epoch) \/ (work[w].pc = "config" /\ work[w].n # work[w].gen)

\* a deadline, a refusal of what was asked, or a guest that is gone
GivesUp(w) ==
    /\ work[w].pc # "idle" /\ w \in {"enroll", "reconnect"}
    /\ \/ ~Matches(w) /\ Leased(w) /\ left' = left
       \/ (work[w].call = "no" \/ Misplaced(w)) /\ left' = left
       \/ work[w].call = "none" /\ ~wire[work[w].conn].guest /\ wire[work[w].conn].up = <<>> /\ left' = left
       \/ Spend("timeout")
    /\ Fail(w)
    /\ UNCHANGED <<setup, store, link, guest, asks>>

-----------------------------------------------------------------------------
(* The runner: enrolment.                                                  *)

\* enrollGuestConnection: the lease, once the boot is known to be this one
EnrollAcquires ==
    /\ work.enroll.pc = "wait"
    /\ IF MayAcquire /\ entry.boot = work.enroll.boot /\ entry.hub = None /\ entry.epoch = 0
       THEN /\ work' = [work EXCEPT !.enroll = [Lease(work.enroll.conn) EXCEPT !.pc = "enroll"]]
            /\ UNCHANGED <<entry, chan, wire, late, fwd, past>>
       ELSE (entry.boot # work.enroll.boot \/ entry.state = "running") /\ Fail("enroll")
    /\ UNCHANGED <<setup, store, link, guest, asks, left>>

\* the guest's enrolment, sent up
EnrollHeard ==
    /\ Heard("enroll", "enroll") /\ Matches("enroll")
    /\ Calls("enroll", "enrolling", Frame("enroll").m, Frame("enroll").n)
    /\ wire' = Read("enroll")
    /\ UNCHANGED <<setup, store, link, entry, chan, guest, late, asks, fwd, left, past>>

\* its answer, handed to the guest
EnrollAnswered ==
    /\ Answered("enroll", "enrolling") /\ Accepted("enroll")
    /\ wire' = Down(work.enroll.conn, <<F("resp", work.enroll.token, 0)>>)
    /\ work' = [work EXCEPT !.enroll.pc = "install", !.enroll.call = "none", !.enroll.n = 0]
    /\ UNCHANGED <<setup, store, link, entry, chan, guest, late, asks, fwd, left, past>>

-----------------------------------------------------------------------------
(* The runner: reconnect.                                                  *)

\* the attempt begun for this connection and placement is put to the guest
BeginAnswered ==
    /\ Answered("reconnect", "begin") /\ Accepted("reconnect")
    /\ wire' = Down(work.reconnect.conn, <<F("challenge", work.reconnect.n, work.reconnect.token)>>)
    /\ Awaits("reconnect", "proof")
    /\ UNCHANGED <<setup, store, link, entry, chan, guest, late, asks, fwd, left, past>>

\* the guest's proof, sent up
ProofHeard ==
    /\ Heard("reconnect", "proof") /\ Matches("reconnect")
    /\ Calls("reconnect", "accept", Frame("reconnect").n, Frame("reconnect").m)
    /\ wire' = Read("reconnect")
    /\ UNCHANGED <<setup, store, link, entry, chan, guest, late, asks, fwd, left, past>>

\* fence: the epoch is taken and the old relay removed before anything of the new one is delivered
Fence ==
    LET old == entry.hub IN
    /\ Answered("reconnect", "accept") /\ Accepted("reconnect")
    /\ work.reconnect.n > entry.epoch
    /\ entry' = [entry EXCEPT !.epoch = work.reconnect.n, !.hub = None]
    /\ fwd' = WithoutHub(old)
    /\ wire' = HostCloses(wire, old)
    /\ past' = [past EXCEPT !.fenced = IF old = None THEN @ ELSE @ \cup {old}]
    /\ work' = [work EXCEPT !.reconnect = [@ EXCEPT !.pc = "config", !.call = "sent", !.epoch = work.reconnect.n, !.cap = work.reconnect.token]]
    /\ UNCHANGED <<setup, store, link, chan, guest, late, asks, left>>

\* GuestBootConfig: the token just issued, and whether the launch is still the one the guest had
GuestBootConfig(token) == F("config", token, IF store.edited THEN 1 ELSE 0)

\* the configuration of this placement: acceptance and configuration are delivered
Configured ==
    LET w == work.reconnect IN
    /\ Answered("reconnect", "config") /\ Accepted("reconnect")
    /\ w.n = w.gen
    /\ wire' = Down(w.conn, <<F("accepted", w.epoch, w.cap), GuestBootConfig(w.cap)>>)
    /\ Awaits("reconnect", "redeem")
    /\ UNCHANGED <<setup, store, link, entry, chan, guest, late, asks, fwd, left, past>>

\* redeem: only the token just delivered
RedeemHeard ==
    /\ Heard("reconnect", "redeem") /\ Matches("reconnect")
    /\ Frame("reconnect").n = work.reconnect.cap
    /\ Calls("reconnect", "fetch", 0, work.reconnect.cap)
    /\ wire' = Read("reconnect")
    /\ UNCHANGED <<setup, store, link, entry, chan, guest, late, asks, fwd, left, past>>

\* the secrets, handed to the guest
FetchAnswered ==
    /\ Answered("reconnect", "fetch") /\ Accepted("reconnect")
    /\ wire' = Down(work.reconnect.conn, <<F("resp", work.reconnect.cap, 0)>>)
    /\ Awaits("reconnect", "ready")
    /\ UNCHANGED <<setup, store, link, entry, chan, guest, late, asks, fwd, left, past>>

\* the guest is ready: it is told so before it is published
ReadyHeard ==
    /\ Heard("reconnect", "ready") /\ Matches("reconnect")
    /\ Frame("reconnect").n = work.reconnect.epoch
    /\ wire' = TakeUp(Down(work.reconnect.conn, <<F("ack", work.reconnect.epoch, 0)>>), work.reconnect.conn)
    /\ Awaits("reconnect", "install")
    /\ UNCHANGED <<setup, store, link, entry, chan, guest, late, asks, fwd, left, past>>

\* install: the stream becomes the session's hub, unless its place was taken
Install(w) ==
    /\ work[w].pc = "install"
    /\ IF Matches(w) /\ entry.epoch = work[w].epoch /\ entry.hub = None
       THEN /\ entry' = [entry EXCEPT !.hub = work[w].conn, !.hubLink = work[w].link]
            /\ work' = [work EXCEPT ![w] = NoWork]
            /\ chan' = IF w = "reconnect" THEN [chan EXCEPT !.pending = FALSE] ELSE chan
            /\ past' = [past EXCEPT !.fenced = @ \ {work[w].conn}]
            /\ UNCHANGED <<wire, late, fwd>>
       ELSE Fail(w)
    /\ UNCHANGED <<setup, store, link, guest, asks, left>>

\* monitorSessionHub: the hub ends with its stream or with the control connection it was made under
HubDies ==
    /\ entry.hub # None
    /\ link # entry.hubLink \/ ~wire[entry.hub].guest
    /\ entry' = [entry EXCEPT !.hub = None]
    /\ wire' = HostCloses(wire, entry.hub)
    /\ fwd' = WithoutHub(entry.hub)
    /\ past' = [past EXCEPT !.fenced = @ \cup {entry.hub}]
    /\ UNCHANGED <<setup, store, link, chan, guest, work, late, asks, left>>

-----------------------------------------------------------------------------
(* The runner: its control connection, its own restart, a cold resume.     *)

LinkLost ==
    /\ link # 0 /\ Spend("link")
    /\ link' = 0
    /\ UNCHANGED <<setup, store, entry, chan, guest, wire, work, late, asks, fwd, past>>

\* the control plane notices
Disconnected ==
    /\ link = 0 /\ store.connected
    /\ store' = [store EXCEPT !.connected = FALSE]
    /\ UNCHANGED <<setup, link, entry, chan, guest, wire, work, late, asks, fwd, left, past>>

\* a registration, and its accept
LinkUp ==
    /\ link = 0
    /\ store' = [store EXCEPT !.runnerGen = @ + 1, !.connected = TRUE]
    /\ link' = store.runnerGen + 1
    /\ UNCHANGED <<setup, entry, chan, guest, wire, work, late, asks, fwd, left, past>>

\* the runner is restarted and Recover lists the VM: the streams are gone, and so is the listener
Restart ==
    /\ entry.state = "running" /\ Spend("restart")
    /\ link' = 0
    /\ entry' = [entry EXCEPT !.boot = 1, !.boots = 1, !.hub = None, !.epoch = 0, !.recovered = TRUE]
    /\ chan' = [chan EXCEPT !.open = FALSE, !.pending = FALSE]
    /\ wire' = [c \in Conns |-> HostCloses(wire, c)[c]]
    /\ late' = late \cup UNION {Abandoned(w) : w \in Workers}
    /\ work' = [w \in Workers |-> NoWork]
    /\ asks' = {a \in asks : a.at # "hub"}
    /\ fwd' = [seq |-> 0, pending |-> {}]
    /\ past' = [past EXCEPT !.fenced = {}]
    /\ UNCHANGED <<setup, store, guest>>

\* recoverGuests: the placement is authorised again before the listener is bound
RecoverBegins ==
    /\ link # 0 /\ entry.recovered /\ entry.state = "running" /\ entry.hub = None /\ ~chan.open
    /\ guest.up /\ work.recover.pc = "idle"
    /\ work' = [work EXCEPT !.recover = [Lease(None) EXCEPT !.pc = "authorize", !.call = "sent"]]
    /\ UNCHANGED <<setup, store, link, entry, chan, guest, wire, late, asks, fwd, left, past>>

\* authorizeRecoveredGuest: the placement is still this one, under the connection that asked
Reauthorized == Accepted("recover") /\ entry.hub = None /\ work.recover.n = entry.gen

\* RecoverGuest: the listener is bound again; the boot's delivery stays spent
RecoverGuest == [chan EXCEPT !.open = TRUE, !.served = TRUE]

Recovered ==
    /\ Answered("recover", "authorize")
    /\ work' = [work EXCEPT !.recover = NoWork]
    /\ chan' = IF Reauthorized THEN RecoverGuest ELSE chan
    /\ UNCHANGED <<setup, store, link, entry, guest, wire, late, asks, fwd, left, past>>

\* a cold suspend: the VM and its channel are gone
Suspend ==
    /\ entry.state = "running" /\ entry.hub # None /\ Spend("suspend")
    /\ entry' = [entry EXCEPT !.state = "suspended", !.hub = None]
    /\ store' = [store EXCEPT !.on = FALSE]
    /\ chan' = [chan EXCEPT !.open = FALSE, !.pending = FALSE]
    /\ guest' = [guest EXCEPT !.up = FALSE, !.pc = "off", !.conn = None, !.ask = 0]
    /\ wire' = [c \in Conns |-> [HostCloses(wire, c)[c] EXCEPT !.guest = FALSE, !.down = <<>>]]
    /\ fwd' = WithoutHub(entry.hub)
    /\ past' = [past EXCEPT !.fenced = @ \cup {entry.hub}]
    /\ UNCHANGED <<setup, link, work, late, asks>>

\* claimResumePlacement: a new boot, of which no guest is known
Claimed(e) == [e EXCEPT !.gen = store.place + 1, !.boots = @ + 1, !.boot = e.boots + 1, !.state = "resuming", !.hub = None,
                        !.epoch = 0]

\* a resume placed here: the entry is claimed and a token asked for
Resume ==
    /\ entry.state = "suspended" /\ link # 0 /\ store.runnerGen = link /\ work.resume.pc = "idle"
    /\ store' = [store EXCEPT !.place = @ + 1, !.on = TRUE]
    /\ entry' = Claimed(entry)
    /\ work' = [work EXCEPT !.resume = [NoWork EXCEPT !.pc = "mint", !.call = "sent", !.link = link, !.boot = entry.boots + 1]]
    /\ UNCHANGED <<setup, link, chan, guest, wire, late, asks, fwd, left, past>>

\* the VM is booted with the token minted for it
ResumeCompletes ==
    /\ Answered("resume", "mint") /\ work.resume.call = "ok" /\ link = work.resume.link
    /\ entry' = [entry EXCEPT !.state = "running", !.recovered = FALSE]
    /\ chan' = [vm |-> chan.vm + 1, open |-> TRUE, served |-> FALSE, pending |-> FALSE, token |-> work.resume.token]
    /\ guest' = FreshGuest(chan.vm + 1)
    /\ work' = [work EXCEPT !.resume = NoWork]
    /\ UNCHANGED <<setup, store, link, wire, late, asks, fwd, left, past>>

\* no token: refused, never answered, or the connection is gone
ResumeFails ==
    /\ work.resume.pc = "mint"
    /\ \/ (work.resume.call = "no" \/ link # work.resume.link) /\ left' = left
       \/ work.resume.call = "sent" /\ Spend("timeout")
    /\ entry' = [entry EXCEPT !.state = "suspended"]
    /\ store' = [store EXCEPT !.on = FALSE]
    /\ late' = late \cup Abandoned("resume")
    /\ work' = [work EXCEPT !.resume = NoWork]
    /\ UNCHANGED <<setup, link, chan, guest, wire, asks, fwd, past>>

-----------------------------------------------------------------------------
(* The guest's connection.                                                 *)

\* admit refuses: the peer is closed with nothing sent
Refuse(c) == wire' = [wire EXCEPT ![c] = [Closed EXCEPT !.guest = TRUE]] /\ UNCHANGED <<chan, work>>

\* the boot's one delivery: the configuration is written and the runner awaits an enrolment
ServeGuest(c) ==
    /\ work.enroll.pc = "idle"
    /\ chan' = [chan EXCEPT !.served = TRUE]
    /\ wire' = [wire EXCEPT ![c] = [Closed EXCEPT !.host = TRUE, !.guest = TRUE, !.down = <<F("config", chan.token, 0)>>]]
    /\ work' = [work EXCEPT !.enroll = [NoWork EXCEPT !.pc = "wait", !.conn = c, !.boot = entry.boot]]

\* serveReconnectingGuest: a lease, and an attempt asked for
ServeReconnectingGuest(c) ==
    /\ chan' = [chan EXCEPT !.pending = TRUE]
    /\ wire' = [wire EXCEPT ![c] = [Closed EXCEPT !.host = TRUE, !.guest = TRUE]]
    /\ work' = [work EXCEPT !.reconnect = [Lease(c) EXCEPT !.pc = "begin", !.call = "sent"]]

\* connect: a stream is dialled; the channel admits it or not
Dial ==
    /\ guest.up /\ guest.pc \in {"boot", "idle"} /\ chan.open /\ store.epoch < MaxEpoch
    /\ \E c \in Conns \ Held :
        /\ \A d \in Conns \ Held : c <= d
        /\ guest' = [guest EXCEPT !.conn = c, !.pc = IF guest.id = "none" THEN "config" ELSE "challenge"]
        /\ IF chan.pending THEN Refuse(c)
           ELSE IF ~chan.served THEN ServeGuest(c)
           ELSE IF MayAcquire /\ work.reconnect.pc = "idle" THEN ServeReconnectingGuest(c) ELSE Refuse(c)
    /\ UNCHANGED <<setup, store, link, entry, late, asks, fwd, left, past>>

\* the guest's end is closed: a guest that never enrolled has failed to boot, another dials again
Hangup ==
    /\ guest' = IF guest.id = "enrolled" THEN [guest EXCEPT !.pc = "idle", !.conn = None, !.ask = 0]
                ELSE [guest EXCEPT !.up = FALSE, !.pc = "off", !.conn = None]
    /\ wire' = GuestCloses(wire, guest.conn)
    /\ UNCHANGED <<setup, store, link, entry, chan, work, late, asks, fwd, past>>

Waiting == guest.up /\ guest.conn # None
Came(pc, k) == Waiting /\ guest.pc = pc /\ wire[guest.conn].down # <<>> /\ Head(wire[guest.conn].down).k = k
Msg == Head(wire[guest.conn].down)

\* the frame is taken and an answer sent
Replied(frames) == TakeDown(Up(guest.conn, frames), guest.conn)

GuestMoves(g, frames) ==
    /\ guest' = g
    /\ wire' = Replied(frames)
    /\ UNCHANGED <<setup, store, link, entry, chan, work, late, asks, fwd, left, past>>

\* a read that fails, or one that takes too long
GuestFails ==
    /\ Waiting
    /\ \/ wire[guest.conn].down = <<>> /\ ~wire[guest.conn].host /\ left' = left
       \/ guest.pc \notin {"serving"} /\ Spend("patience")
    /\ Hangup

\* enrollGuest: an identity for this lifetime of sessiond, whatever comes of it
EnrollSends ==
    /\ Came("config", "config") /\ guest.id = "none"
    /\ GuestMoves([guest EXCEPT !.id = "tried", !.pc = "enrolling", !.token = Msg.n], <<F("enroll", Msg.n, guest.vm)>>)

Enrolled ==
    /\ Came("enrolling", "resp")
    /\ GuestMoves([guest EXCEPT !.id = "enrolled", !.env = Msg.n, !.pc = "serving"], <<>>)

\* guestProof: only a challenge to this boot is signed
Prove ==
    /\ Came("challenge", "challenge") /\ Msg.m = guest.vm
    /\ GuestMoves([guest EXCEPT !.pc = "accepted"], <<F("proof", Msg.n, guest.vm)>>)

\* the epoch expected next
TakesNextEpoch(n) == n = guest.epoch + 1

\* an epoch newer than any this guest has taken
TakesEpoch(n) == n > guest.epoch

\* the epoch is taken even if nothing follows
Accept ==
    /\ Came("accepted", "accepted") /\ TakesEpoch(Msg.n)
    /\ GuestMoves([guest EXCEPT !.epoch = Msg.n, !.next = Msg.m, !.pc = "delivery"], <<>>)

\* the configuration it was accepted for, of the same launch, with a token never used
Redeem ==
    /\ Came("delivery", "config") /\ Msg.n = guest.next /\ Msg.m = 0 /\ Msg.n # guest.token
    /\ GuestMoves([guest EXCEPT !.token = Msg.n, !.pc = "secrets"], <<F("redeem", Msg.n, 0)>>)

\* refreshConfiguration, then guestReady
Refresh ==
    /\ Came("secrets", "resp")
    /\ GuestMoves([guest EXCEPT !.env = Msg.n, !.pc = "ready"], <<F("ready", guest.epoch, 0)>>)

Acknowledged ==
    /\ Came("ready", "ack") /\ Msg.n = guest.epoch
    /\ GuestMoves([guest EXCEPT !.pc = "serving"], <<>>)

\* what is not the frame expected ends the stream
GuestRefuses ==
    /\ Waiting /\ wire[guest.conn].down # <<>>
    /\ \/ guest.pc = "challenge" /\ ~(Msg.k = "challenge" /\ Msg.m = guest.vm)
       \/ guest.pc = "accepted" /\ ~(Msg.k = "accepted" /\ TakesEpoch(Msg.n))
       \/ guest.pc = "delivery" /\ ~(Msg.n = guest.next /\ Msg.m = 0 /\ Msg.n # guest.token)
    /\ left' = left
    /\ Hangup

\* the stream is lost, with what was in it
Break(c) ==
    /\ wire[c].host /\ wire[c].guest /\ Spend("break")
    /\ wire' = [wire EXCEPT ![c] = Closed]
    /\ UNCHANGED <<setup, store, link, entry, chan, guest, work, late, asks, fwd, past>>

-----------------------------------------------------------------------------
(* Requests of a guest that is served.                                     *)

\* rpcDispatcher.Call
Ask ==
    /\ guest.up /\ guest.pc = "serving" /\ guest.ask = 0 /\ Spend("ask")
    /\ guest' = [guest EXCEPT !.seq = @ + 1, !.ask = past.tag + 1]
    /\ past' = [past EXCEPT !.tag = @ + 1]
    /\ wire' = Up(guest.conn, <<F("ask", guest.seq + 1, past.tag + 1)>>)
    /\ UNCHANGED <<setup, store, link, entry, chan, work, late, asks, fwd>>

\* the hub reads it and starts a callback
HubReads ==
    /\ entry.hub # None /\ link = entry.hubLink /\ wire[entry.hub].up # <<>>
    /\ LET f == Head(wire[entry.hub].up) IN
       asks' = asks \cup {[at |-> "hub", n |-> 0, id |-> f.n, tag |-> f.m, conn |-> entry.hub, boot |-> entry.boot,
                           gen |-> entry.gen, link |-> link]}
    /\ wire' = TakeUp(wire, entry.hub)
    /\ UNCHANGED <<setup, store, link, entry, chan, guest, work, late, fwd, left, past>>

\* ownership by the boot alone
OwnsBoot(a) == entry.boot = a.boot /\ entry.gen = a.gen /\ link = a.link /\ link # 0

\* sendOwnedGuestMessage: the hub is still this session's, under the control connection it was made under
Owns(a) == entry.boot = a.boot /\ entry.hub = a.conn /\ entry.gen = a.gen /\ link = a.link /\ link # 0

\* the guest's own number
GuestId(a) == a.id

\* guestForwards.begin: a number of this runner's lifetime
ForwardId(a) == fwd.seq + 1

SendOwned(a) ==
    /\ a \in asks /\ a.at = "hub"
    /\ IF Owns(a)
       THEN /\ asks' = (asks \ {a}) \cup {[a EXCEPT !.at = "up", !.n = ForwardId(a)]}
            /\ fwd' = [seq |-> fwd.seq + 1,
                       pending |-> {f \in fwd.pending : f.n # ForwardId(a)}
                                     \cup {[n |-> ForwardId(a), id |-> a.id, hub |-> a.conn, boot |-> a.boot, gen |-> a.gen,
                                            link |-> a.link]}]
       ELSE asks' = asks \ {a} /\ fwd' = fwd
    /\ UNCHANGED <<setup, store, link, entry, chan, guest, wire, work, late, left, past>>

\* the control plane answers on the connection it was asked on
AskAnswered(a) ==
    /\ a \in asks /\ a.at = "up"
    /\ asks' = IF link = a.link THEN (asks \ {a}) \cup {[a EXCEPT !.at = "down"]} ELSE asks \ {a}
    /\ UNCHANGED <<setup, store, link, entry, chan, guest, wire, work, late, fwd, left, past>>

\* forwardSessionRPC: the answer goes to the hub that asked, if it is still the session's
ForwardAnswer(a) ==
    /\ a \in asks /\ a.at = "down"
    /\ asks' = asks \ {a}
    /\ fwd' = IF link = a.link THEN [fwd EXCEPT !.pending = {f \in @ : f.n # a.n}] ELSE fwd
    /\ wire' = IF link = a.link /\ \E f \in fwd.pending : f.n = a.n
               THEN LET f == CHOOSE f \in fwd.pending : f.n = a.n IN
                    IF entry.hub = f.hub /\ entry.boot = f.boot /\ entry.gen = f.gen /\ link = f.link
                    THEN Down(f.hub, <<F("answer", f.id, a.tag)>>) ELSE wire
               ELSE wire
    /\ UNCHANGED <<setup, store, link, entry, chan, guest, work, late, left, past>>

\* deliver: the answer of the request waiting under this number; the rest have nobody waiting
GuestAnswered ==
    /\ Waiting /\ guest.pc = "serving" /\ wire[guest.conn].down # <<>>
    /\ LET mine == Msg.k = "answer" /\ guest.ask # 0 /\ Msg.n = guest.seq IN
       /\ guest' = IF mine THEN [guest EXCEPT !.ask = 0] ELSE guest
       /\ past' = [past EXCEPT !.wrong = @ \/ (mine /\ Msg.m # guest.ask)]
    /\ wire' = Replied(<<>>)
    /\ UNCHANGED <<setup, store, link, entry, chan, work, late, asks, fwd, left>>

-----------------------------------------------------------------------------

WorkerStep(w) ==
    \/ Serve(w) \/ GivesUp(w)
    \/ w = "enroll" /\ (EnrollAcquires \/ EnrollHeard \/ EnrollAnswered)
    \/ w = "reconnect" /\ (BeginAnswered \/ ProofHeard \/ Fence \/ Configured \/ RedeemHeard
                             \/ FetchAnswered \/ ReadyHeard)
    \/ w \in {"enroll", "reconnect"} /\ Install(w)
    \/ w = "resume" /\ (ResumeCompletes \/ ResumeFails)
    \/ w = "recover" /\ (RecoverBegins \/ Recovered)

GuestStep ==
    \/ Dial \/ GuestFails \/ EnrollSends \/ Enrolled \/ Prove \/ Accept \/ Redeem \/ Refresh \/ Acknowledged \/ GuestRefuses
    \/ GuestAnswered

AskStep == HubReads \/ \E a \in asks : SendOwned(a) \/ AskAnswered(a) \/ ForwardAnswer(a)

Faults ==
    \/ \E k \in late : ServeLate(k)
    \/ Expire \/ Edit \/ LinkLost \/ Disconnected \/ Restart \/ Suspend \/ Resume \/ Ask
    \/ \E c \in Conns : Break(c)

Next == \/ \E w \in Workers : WorkerStep(w)
        \/ GuestStep \/ AskStep \/ HubDies \/ LinkUp \/ Faults

\* dialLoop redials, the agent redials the control plane, and what is waited for answers, fails or is given up
Fairness == /\ \A w \in Workers : WF_vars(WorkerStep(w))
            /\ WF_vars(GuestStep) /\ WF_vars(AskStep) /\ WF_vars(HubDies) /\ WF_vars(LinkUp)

Spec == Init /\ [][Next]_vars /\ Fairness

-----------------------------------------------------------------------------
(* Properties.                                                             *)

Frames == [k : {"config", "enroll", "resp", "challenge", "proof", "accepted", "redeem", "ready", "ack", "ask", "answer"},
           n : Nat, m : Nat]
Sockets == Conns \cup {None}
Streams == [host : BOOLEAN, guest : BOOLEAN, down : Seq(Frames), up : Seq(Frames)]
Rows == [token : Nat, consumed : BOOLEAN, minted : Nat, gen : Nat, place : Nat, on : BOOLEAN, identity : Nat, attempt : Nat,
         by : Nat, tries : Nat, epoch : Nat, runnerGen : Nat, connected : BOOLEAN, edited : BOOLEAN]
Entries == [boot : Nat, gen : Nat \ {0}, state : {"running", "suspended", "resuming"}, hub : Sockets, hubLink : Nat,
            epoch : Nat, recovered : BOOLEAN, boots : Nat]
Channels == [vm : Nat \ {0}, open : BOOLEAN, served : BOOLEAN, pending : BOOLEAN, token : Nat]
Guests == [vm : Nat \ {0}, up : BOOLEAN, id : {"none", "tried", "enrolled"}, epoch : Nat, token : Nat, next : Nat, env : Nat,
           pc : {"boot", "config", "enrolling", "idle", "challenge", "accepted", "delivery", "secrets", "ready", "serving", "off"},
           conn : Sockets, seq : Nat, ask : Nat]
Stages == {"idle", "wait", "enroll", "enrolling", "begin", "proof", "accept", "config", "redeem", "fetch", "ready", "install",
           "mint", "authorize"}
Calling == {"enrolling", "begin", "accept", "config", "fetch", "mint", "authorize"}
Jobs == [pc : Stages, conn : Sockets, boot : Nat, gen : Nat, link : Nat, hub : Sockets, call : {"none", "sent", "ok", "no"},
         n : Nat, token : Nat, epoch : Nat, cap : Nat]
Methods == [method : {"enroll", "begin", "accept", "config", "fetch", "mint"}, link : Nat, n : Nat, token : Nat]
Requests == [at : {"hub", "up", "down"}, n : Nat, id : Nat, tag : Nat, conn : Conns, boot : Nat, gen : Nat, link : Nat]
Forwards == [n : Nat, id : Nat, hub : Conns, boot : Nat, gen : Nat, link : Nat]

\* Types: the rows, frames and numbers at every place, and where each side's preamble stands.
TypeOK ==
    /\ store \in Rows /\ link \in Nat /\ entry \in Entries /\ chan \in Channels /\ guest \in Guests
    /\ wire \in [Conns -> Streams]
    /\ work \in [Workers -> Jobs] /\ \A w \in Workers : work[w].call = "sent" => work[w].pc \in Calling
    /\ late \subseteq Methods
    /\ asks \subseteq Requests
    /\ fwd \in [seq : Nat, pending : SUBSET Forwards]
    /\ past \in [tag : Nat, wrong : BOOLEAN, fenced : SUBSET Conns, remint : BOOLEAN]

\* whatever this step sends up came over a stream that is not fenced
SentOfLiveStream == \A a \in asks' \ asks : a.at = "up" => a.conn \notin past.fenced

\* After a stream was fenced by a newer acceptance, or its hub ended, no request it carried is sent
\* up any more, though its callback had been started: sendOwnedGuestMessage (reconnect_handoff.go).
NoOldVoice == [][SentOfLiveStream]_vars

\* A guest that gets an answer asked that question: a request of an earlier boot, numbered alike and
\* answered late over the same control connection, is never taken for it (guestRPCForwards).
AnswersItsQuestion == ~past.wrong

\* What an enrolled guest needs to come back stays true: the store has its key, and neither the
\* guest nor the runner has taken an epoch the store could still hand out again.
CanStillReconnect ==
    guest.up /\ guest.id = "enrolled" /\ ~past.remint =>
        /\ store.identity = guest.vm /\ store.gen = store.place
        /\ guest.epoch <= store.epoch /\ entry.epoch <= store.epoch
        /\ guest.pc = "serving" => guest.env = guest.token

\* the guest and the runner are on the same stream, open at both ends
Served == entry.hub # None /\ entry.hub = guest.conn /\ guest.pc = "serving" /\ wire[guest.conn].host /\ link = entry.hubLink

\* an enrolled guest that nothing bars: its VM runs, the session is launched as it was, its key was not minted away
Surviving == guest.up /\ guest.id = "enrolled" /\ entry.state = "running" /\ ~store.edited /\ ~past.remint

\* An enrolled guest that survives is served again, whichever of its stream, the control connection
\* and the runner were lost on the way: dialLoop, recoverGuests and ReconnectGuest together.
Reconnects == []<>(Served \/ ~Surviving)
=============================================================================
