---------------------------- MODULE AttachPlane ----------------------------
(***************************************************************************)
(* Terminal attachments of one session and the controller lease that says  *)
(* who may type: the grant of controlapp/attachments.go, the handoffs of   *)
(* attachplane/ownership.go, the pairing and the splice of attachplane,    *)
(* the relay between a runner and its sandbox, the fence at the pty        *)
(* (internal/session) and the client's belief (internal/attachio).         *)
(*                                                                         *)
(* An attach is run by several goroutines of its replica: the pump that    *)
(* opens it and handles its client's messages, the heartbeat, and one      *)
(* goroutine per handoff of a peer that displaces it.  Each is a process   *)
(* <<kind, winner, target>> with a record of where it stands; the          *)
(* repository, the announce hold, the handoff mutex, the acknowledgement   *)
(* channel and the sandbox are what they share.                            *)
(***************************************************************************)
EXTENDS Naturals, Sequences, FiniteSets

CONSTANTS Attaches,  \* attachments of the session
          Setups,    \* policy, replicas, commands, generations and faults allowed
          None       \* nobody

Modes == {"view", "control"}
Commands == [negotiated : BOOLEAN, mode : Modes, drive : BOOLEAN]

ASSUME AttachPlaneAssumption ==
  /\ None \notin Attaches
  /\ \A s \in Setups : /\ s.policy \in {"shared", "exclusive"}
                       /\ s.cmd \in [Attaches -> Commands]
                       /\ s.top \in Nat

VARIABLES
  setup,   \* policy, replica of each attach, what each asks for and may do,
           \* and what bounds this behaviour: generations, client moves, faults
  store,   \* the row: controller generation, lease holder, lease still live
  own,     \* ownership of each attach: mode, generation, told, registered
  link,    \* per attach: not spliced, up, or down
  belief,  \* what each client was last told, and (history) whether a message
           \* meant for it has been lost since
  run,     \* where each process stands
  hold,    \* the announce hold of each attach and the message under it
  handoff, \* the process holding the handoff mutex of each attach
  ack,     \* the acknowledgement channel of each attach, capacity one
  toBox,   \* frames on their way to the sandbox, per attachment
  box,     \* the sandbox: its generation and the binding per attachment
  won,     \* history: who won each generation the row has had
  spent    \* the faults and wishes that have happened and may happen only once

vars == <<setup, store, own, link, belief, run, hold, handoff, ack, toBox, box,
          won, spent>>

Faults == {"ack", "store", "hold", "notice", "drop", "pair"}
Max2(i, j) == IF i > j THEN i ELSE j

Pump(a) == <<"pump", a, a>>
Beat(a) == <<"beat", a, a>>
Peer(w, p) == <<"peer", w, p>>
Procs == {Pump(a) : a \in Attaches} \cup {Beat(a) : a \in Attaches}
         \cup {Peer(w, p) : w \in Attaches, p \in Attaches}
Target(x) == x[3]

Idle == [pc |-> "idle", g |-> 0, m |-> "view", won |-> 0, k |-> "idle"]
FreeHold == [by |-> None, m |-> "view", g |-> 0, won |-> 0]
NotAttached == [m |-> "view", g |-> 0, told |-> FALSE, reg |-> FALSE]

Shared == setup.policy = "shared"
Cmd(a) == setup.cmd[a]
(* A keeper crosses the broker seam exactly with a negotiated attach. *)
Keeper(a) == Cmd(a).negotiated

Goto(x, pc) == run' = [run EXCEPT ![x].pc = pc]
GotoG(x, pc, g) == run' = [run EXCEPT ![x].pc = pc, ![x].g = g]

Init ==
  /\ setup \in Setups
  /\ store = [gen |-> 0, holder |-> None, fresh |-> FALSE]
  /\ own = [a \in Attaches |-> NotAttached]
  /\ link = [a \in Attaches |-> "none"]
  /\ belief = [a \in Attaches |-> [m |-> "none", g |-> 0, lost |-> FALSE]]
  /\ run = [x \in Procs |-> Idle]
  /\ hold = [a \in Attaches |-> FreeHold]
  /\ handoff = [a \in Attaches |-> None]
  /\ ack = [a \in Attaches |-> None]
  /\ toBox = [a \in Attaches |-> <<>>]
  /\ box = [gen |-> 0, bind |-> [a \in Attaches |-> None]]
  /\ won = [g \in {0} |-> None]
  /\ spent = {}

-----------------------------------------------------------------------------
(* The repository: every generation is handed out once, and advancing it   *)
(* vacates the lease in the same statement.                                *)

CompareAndAdvance(a, expected, winner) ==
  /\ store.gen = expected
  /\ store' = [gen |-> expected + 1, holder |-> None, fresh |-> FALSE]
  /\ won' = [g \in 0..expected + 1 |-> IF g = expected + 1 THEN winner ELSE won[g]]

NextGeneration(a) == CompareAndAdvance(a, store.gen, a)

Renewable(a, g) == store.gen = g /\ store.holder \in {None, a}
RenewLease(a) == store' = [store EXCEPT !.holder = a, !.fresh = TRUE]
LeaseLive == store.holder # None /\ store.fresh

(* The lease outlives several heartbeats: it runs out only on a holder     *)
(* that is not beating.                                                    *)
Ending == {"idle", "finish", "leave", "left", "gone"}
Beating(a) == Keeper(a) /\ link[a] # "none" /\ own[a].m = "control" /\ run[Pump(a)].pc \notin Ending
LeaseExpires == /\ store.fresh /\ ~Beating(store.holder)
                /\ store' = [store EXCEPT !.fresh = FALSE]
                /\ UNCHANGED <<setup, own, link, belief, run, hold, handoff, ack,
                               toBox, box, won, spent>>

(* What happens at most once in a behaviour: a superfluous claim, or a     *)
(* fault the setup allows: an acknowledgement that never comes, a store    *)
(* call that fails, a notice that runs out of time before its turn or in   *)
(* its write, a socket that drops, a pairing that never completes.         *)
Once(f) == f \notin spent /\ spent' = spent \cup {f}
Fault(f) == f \in setup.faults /\ Once(f)
StoreFails == Fault("store")

-----------------------------------------------------------------------------
(* The transitions of an attach's own state, each under its own lock.      *)

Advanced(o, m, g) == IF g < o.g THEN o ELSE [o EXCEPT !.m = m, !.g = g]
DemotedAnyway(o, from, g) == [o EXCEPT !.m = "view", !.g = Max2(o.g, g)]
Demoted(o, from, g) ==
  IF o.g > from THEN o ELSE [o EXCEPT !.m = "view", !.g = Max2(o.g, g)]
Displaced(o, g) == IF o.g >= g THEN o ELSE [o EXCEPT !.m = "view", !.g = g]

Peers(w) == {p \in Attaches \ {w} : own[p].reg /\ setup.replica[p] = setup.replica[w]}

(* Start the fan-out of a handoff to generation g from the states o: every *)
(* peer's state is moved first, then each peer is reached by a process of  *)
(* its own, and a peer that was typing has its sandbox rebound before it   *)
(* is told anything.                                                       *)
StartDisplace(w, o, g, wait, k) ==
  /\ own' = [p \in Attaches |-> IF p \in Peers(w) THEN Displaced(o[p], g) ELSE o[p]]
  /\ run' = [x \in Procs |->
       IF x = Pump(w) THEN [run[x] EXCEPT !.pc = "fanout", !.k = k]
       ELSE IF x[1] = "peer" /\ x[2] = w /\ Target(x) \in Peers(w)
         THEN [Idle EXCEPT !.g = g,
                 !.pc = IF o[Target(x)].g < g /\ o[Target(x)].m = "control"
                          THEN (IF wait THEN "lock" ELSE "install") ELSE "hold"]
       ELSE run[x]]

(* Once every peer was reached: the opening answer, the answer to a claim, *)
(* or back to the client.                                                  *)
FanoutDone(w) ==
  LET r == run[Pump(w)] IN
  /\ r.pc = "fanout"
  /\ \A p \in Attaches : run[Peer(w, p)].pc = "idle"
  /\ run' = [run EXCEPT ![Pump(w)] =
       CASE r.k = "parked"      -> [r EXCEPT !.pc = "hold", !.won = 0]
         [] r.k = "claim_check" -> [r EXCEPT !.pc = "hold", !.won = r.g]
         [] r.k = "live"        -> [Idle EXCEPT !.pc = "live"]
         [] OTHER               -> [r EXCEPT !.pc = r.k]]
  /\ UNCHANGED <<setup, store, own, link, belief, hold, handoff, ack, toBox, box,
                 won, spent>>

-----------------------------------------------------------------------------
(* Installing a binding in the sandbox: an ordinary frame on the           *)
(* attachment's own socket, and for a handoff a bounded wait for the       *)
(* sandbox to confirm it.                                                  *)

Spliced(a) == link[a] = "up"
ControlFrame(m, g) == [t |-> "control", m |-> m, g |-> g]
Sent(a, f) == toBox' = [toBox EXCEPT ![a] = Append(@, f)]

AfterWait(x) == IF x[1] = "pump" /\ run[x].m = "control" THEN "claim_won" ELSE "hold"

(* installAndWait up to the write; a socket that is gone is an error.      *)
Install(x) ==
  /\ run[x].pc = "lock"
  /\ handoff[Target(x)] = None
  /\ IF Spliced(Target(x))
       THEN /\ Sent(Target(x), ControlFrame(run[x].m, run[x].g))
            /\ ack' = [ack EXCEPT ![Target(x)] = None]
            /\ handoff' = [handoff EXCEPT ![Target(x)] = x]
            /\ Goto(x, "wait")
       ELSE /\ Goto(x, IF AfterWait(x) = "claim_won" THEN "claim_back" ELSE AfterWait(x))
            /\ UNCHANGED <<toBox, ack, handoff>>
  /\ UNCHANGED <<setup, store, own, link, belief, hold, box, won, spent>>

AckSeenKeepsMutex(x) ==
  /\ run[x].pc = "wait" /\ ack[Target(x)] = run[x].g
  /\ ack' = [ack EXCEPT ![Target(x)] = None]
  /\ Goto(x, AfterWait(x))
  /\ UNCHANGED <<setup, store, own, link, belief, hold, handoff, toBox, box, won, spent>>

AckSeen(x) ==
  /\ run[x].pc = "wait"
  /\ ack[Target(x)] # None
  /\ ack' = [ack EXCEPT ![Target(x)] = None]
  /\ IF ack[Target(x)] = run[x].g
       THEN /\ handoff' = [handoff EXCEPT ![Target(x)] = None]
            /\ Goto(x, AfterWait(x))
       ELSE UNCHANGED <<handoff, run>>
  /\ UNCHANGED <<setup, store, own, link, belief, hold, toBox, box, won, spent>>

(* A sandbox that never answers costs the handoff one timeout, and so does *)
(* an acknowledgement dropped because an older one filled the channel.     *)
AckComing(x) == LET a == Target(x) IN
  Spliced(a) /\ (ack[a] # None \/ \E i \in DOMAIN toBox[a] : toBox[a][i].t = "control")
AckTimeout(x) ==
  /\ run[x].pc = "wait"
  /\ IF AckComing(x) THEN Fault("ack") ELSE UNCHANGED spent
  /\ handoff' = [handoff EXCEPT ![Target(x)] = None]
  /\ Goto(x, AfterWait(x))
  /\ UNCHANGED <<setup, store, own, link, belief, hold, ack, toBox, box, won>>

(* A release tells the sandbox and does not wait.                          *)
InstallNoWait(x) ==
  /\ run[x].pc = "install"
  /\ IF Spliced(Target(x)) THEN Sent(Target(x), ControlFrame("view", run[x].g))
                           ELSE UNCHANGED toBox
  /\ Goto(x, "hold")
  /\ UNCHANGED <<setup, store, own, link, belief, hold, handoff, ack, box, won, spent>>

-----------------------------------------------------------------------------
(* announceAs: read the state and send it under one hold, and correct the  *)
(* client when the state moved under the write.                            *)

TakeHold(x) ==
  LET a == Target(x) IN
  /\ run[x].pc = "hold"
  /\ hold[a].by = None
  /\ x[1] = "peer" => own[a].told
  /\ hold' = [hold EXCEPT ![a] = [by |-> x, m |-> own[a].m, g |-> own[a].g, won |-> run[x].won]]
  /\ own' = [own EXCEPT ![a].told = TRUE]
  /\ Goto(x, "say")
  /\ UNCHANGED <<setup, store, link, belief, handoff, ack, toBox, box, won, spent>>

(* The client's observe: a refused claim makes it a viewer.                *)
Heard(h) == [m |-> IF h.won # 0 /\ (h.m # "control" \/ h.g # h.won) THEN "view" ELSE h.m,
             g |-> h.g, lost |-> FALSE]

SettledAtOnce(o, h) == TRUE
Settled(o, h) == o.m = h.m /\ o.g = h.g

Say(x) ==
  LET a == Target(x)  h == hold[a] IN
  /\ run[x].pc = "say"
  /\ belief' = IF Keeper(a) /\ link[a] # "down" THEN [belief EXCEPT ![a] = Heard(h)] ELSE belief
  /\ IF Settled(own[a], h)
       THEN /\ hold' = [hold EXCEPT ![a] = FreeHold]
            /\ run' = [run EXCEPT ![x] = IF x[1] # "pump" /\ run[x].k = "idle" THEN Idle
                         ELSE IF run[x].k = "live" THEN [Idle EXCEPT !.pc = "live"]
                         ELSE [@ EXCEPT !.pc = run[x].k, !.m = h.m, !.g = h.g]]
       ELSE /\ hold' = [hold EXCEPT ![a].m = own[a].m, ![a].g = own[a].g, ![a].won = 0]
            /\ UNCHANGED run
  /\ UNCHANGED <<setup, store, own, link, handoff, ack, toBox, box, won, spent>>

(* A message that does not arrive: send ignores the error.  The notice of  *)
(* a handoff has one acknowledgement timeout for its turn and its write,   *)
(* and one that runs out behind a snapshot costs the client nothing but    *)
(* the notice; it may also run out just after the write, and then what     *)
(* moved meanwhile is not corrected.  The opening answer is lost with its  *)
(* client, and any later message with the socket (Disconnect).             *)
MessageLost(x) ==
  LET a == Target(x) IN
  /\ run[x].pc = "say"
  /\ \/ x[1] = "peer" /\ Fault("notice") /\ run' = [run EXCEPT ![x] = Idle]
     \/ x[1] = "pump" /\ run[x].k = "parked" /\ Fault("pair") /\ Goto(x, "finish")
  /\ \E b \in {belief[a], Heard(hold[a])} :
       belief' = IF Keeper(a) /\ link[a] # "down" THEN [belief EXCEPT ![a] = [b EXCEPT !.lost = TRUE]]
                                                  ELSE belief
  /\ hold' = [hold EXCEPT ![a] = FreeHold]
  /\ UNCHANGED <<setup, store, own, link, handoff, ack, toBox, box, won>>

(* A peer not told what it is yet hears it from its own opening answer.    *)
NoticeSkipped(x) ==
  /\ x[1] = "peer" /\ run[x].pc = "hold" /\ ~own[Target(x)].told
  /\ run' = [run EXCEPT ![x] = Idle]
  /\ UNCHANGED <<setup, store, own, link, belief, hold, handoff, ack, toBox, box,
                 won, spent>>

(* The courtesy notice of a handoff is bounded: it gives up on a client    *)
(* somebody else is still talking to.                                      *)
NoticeGivesUp(x) ==
  /\ x[1] = "peer" /\ run[x].pc = "hold"
  /\ hold[Target(x)].by # None
  /\ Fault("hold")
  /\ run' = [run EXCEPT ![x] = Idle]
  /\ UNCHANGED <<setup, store, own, link, belief, hold, handoff, ack, toBox, box, won>>

-----------------------------------------------------------------------------
(* Opening: admit, grant, register, pair.                                  *)

Rest == <<setup, link, hold, handoff, ack, toBox, box>>

(* Answer with what this attach is.                                        *)
Answer(a, k) == run' = [run EXCEPT ![Pump(a)].pc = "hold", ![Pump(a)].k = k, ![Pump(a)].won = 0]

(* The mode an attach is admitted in: a negotiated controller the host     *)
(* grants viewing only is admitted as a viewer.                            *)
Admitted(a) == IF Cmd(a).drive THEN Cmd(a).mode ELSE "view"
MayAttach(a) == Cmd(a).drive \/ Cmd(a).negotiated \/ Cmd(a).mode = "view"
MayClaim(a) == Cmd(a).negotiated /\ Cmd(a).drive

(* What a client asks of a new attach: after a drop, reconnectOwnership    *)
(* presents the generation it controlled under, or asks to watch again.    *)
Asked(a) == IF belief[a].m = "view" THEN "view" ELSE Admitted(a)
Expected(a) == IF belief[a].m = "control" THEN belief[a].g ELSE 0

Granted(a, m, g) ==
  /\ own' = [own EXCEPT ![a] = [NotAttached EXCEPT !.m = m, !.g = g]]
  /\ Goto(Pump(a), "register")

(* AttachTerminal: the row is read once, and the lease it shows decides    *)
(* whether this attach claims.  The claim itself is a later statement.     *)
AttachTerminal(a) ==
  /\ run[Pump(a)] = Idle
  /\ MayAttach(a) /\ store.gen < setup.top
  /\ \/ /\ \/ Asked(a) = "view"
           \/ Shared
           \/ Keeper(a) /\ LeaseLive /\ Expected(a) # store.gen
        /\ Granted(a, IF Shared THEN Asked(a) ELSE "view", store.gen)
     \/ /\ Asked(a) = "control" /\ ~Shared
        /\ Keeper(a) => ~LeaseLive \/ Expected(a) = store.gen
        /\ GotoG(Pump(a), IF Keeper(a) THEN "grant" ELSE "take", store.gen)
        /\ UNCHANGED own
  /\ UNCHANGED <<Rest, store, belief, won, spent>>

(* An unnegotiated controller advances the generation unconditionally.     *)
GrantLegacy(a) ==
  /\ run[Pump(a)].pc = "take"
  /\ NextGeneration(a)
  /\ Granted(a, "control", store.gen + 1)
  /\ UNCHANGED <<Rest, belief, spent>>

(* claimAuthorized at attach time: compare and advance, then the lease.    *)
GrantClaim(a) ==
  /\ run[Pump(a)].pc = "grant"
  /\ \/ /\ CompareAndAdvance(a, run[Pump(a)].g, a)
        /\ GotoG(Pump(a), "grant_renew", run[Pump(a)].g + 1)
     \/ /\ store.gen # run[Pump(a)].g
        /\ Goto(Pump(a), "grant_lost")
        /\ UNCHANGED <<store, won>>
  /\ UNCHANGED <<Rest, own, belief, spent>>

GrantRenew(a) ==
  LET g == run[Pump(a)].g IN
  /\ run[Pump(a)].pc = "grant_renew"
  /\ \/ /\ Renewable(a, g) /\ RenewLease(a)
        /\ Granted(a, "control", g) /\ UNCHANGED spent
     \/ /\ ~Renewable(a, g) /\ Goto(Pump(a), "grant_lost")
        /\ UNCHANGED <<store, own, spent>>
     \/ /\ StoreFails /\ Granted(a, "control", g)
        /\ UNCHANGED store
  /\ UNCHANGED <<Rest, belief, won>>

(* viewerAfterStaleClaim: a refused claimant watches, under the generation *)
(* that exists now.                                                        *)
GrantLost(a) ==
  /\ run[Pump(a)].pc = "grant_lost"
  /\ Granted(a, "view", store.gen)
  /\ UNCHANGED <<Rest, store, belief, won, spent>>

(* The broker joins the owner table before it reads the first message.     *)
Register(a) ==
  /\ run[Pump(a)].pc = "register"
  /\ own' = [own EXCEPT ![a].reg = TRUE]
  /\ Goto(Pump(a), "first")
  /\ UNCHANGED <<Rest, store, belief, won, spent>>

FirstResize(a) ==
  /\ run[Pump(a)].pc = "first"
  /\ IF own[a].m = "control" /\ ~Shared
       THEN StartDisplace(a, own, own[a].g, TRUE, "parked")
       ELSE Answer(a, "parked") /\ UNCHANGED own
  /\ UNCHANGED <<Rest, store, belief, won, spent>>

(* No resize in time, or the client hung up.                               *)
FirstFails(a) ==
  /\ run[Pump(a)].pc = "first"
  /\ Goto(Pump(a), "finish") /\ Fault("pair")
  /\ UNCHANGED <<Rest, store, own, belief, won>>

(* The runner dials back and opens the attachment with the binding the     *)
(* opening answer reported.                                                *)
DialBack(a) ==
  /\ run[Pump(a)].pc = "parked"
  /\ link' = [link EXCEPT ![a] = "up"]
  /\ Sent(a, [t |-> "open", m |-> run[Pump(a)].m, g |-> run[Pump(a)].g])
  /\ run' = [run EXCEPT ![Pump(a)] = [Idle EXCEPT !.pc = "live"]]
  /\ UNCHANGED <<setup, store, own, belief, hold, handoff, ack, box, won, spent>>

(* The send fails, or nobody dials back within the pairing's time.         *)
NoDialBack(a) ==
  /\ run[Pump(a)].pc = "parked"
  /\ Goto(Pump(a), "finish") /\ Fault("pair")
  /\ UNCHANGED <<Rest, store, own, belief, won>>

-----------------------------------------------------------------------------
(* The client pump: claim and release.                                     *)

AtLive(a) == run[Pump(a)].pc = "live"

(* A claim that needs no store write: a shared session, a client that may  *)
(* not drive, or the controller itself, which is checked against the row.  *)
ClaimAnswered(a) ==
  /\ AtLive(a) /\ Spliced(a) /\ Keeper(a) /\ "ask" \in setup.moves /\ Once("ask")
  /\ IF Shared \/ (own[a].m = "view" /\ ~MayClaim(a)) THEN Answer(a, "live")
     ELSE /\ own[a].m = "control"
          /\ IF store.gen = own[a].g THEN Answer(a, "live")
             ELSE run' = [run EXCEPT ![Pump(a)].pc = "stale", ![Pump(a)].k = "live"]
  /\ UNCHANGED <<Rest, store, own, belief, won>>

(* The take-control key, from a generation the client was told.            *)
ClaimBegins(a) ==
  /\ AtLive(a) /\ Spliced(a) /\ MayClaim(a) /\ ~Shared
  /\ own[a].m = "view" /\ store.gen < setup.top
  /\ \E e \in {belief[a].g, own[a].g} : GotoG(Pump(a), "claim", e)
  /\ UNCHANGED <<Rest, store, own, belief, won, spent>>

ToStale(a) == run' = [run EXCEPT ![Pump(a)].pc = "stale", ![Pump(a)].k = "live"]

Claim(a) ==
  LET e == run[Pump(a)].g IN
  /\ run[Pump(a)].pc = "claim"
  /\ \/ /\ CompareAndAdvance(a, e, a)
        /\ GotoG(Pump(a), "claim_renew", e + 1) /\ UNCHANGED spent
     \/ /\ store.gen # e /\ ToStale(a) /\ UNCHANGED <<store, won, spent>>
     \/ /\ StoreFails /\ ToStale(a) /\ UNCHANGED <<store, won>>
  /\ UNCHANGED <<Rest, own, belief>>

ToInstall(a, g) == run' = [run EXCEPT ![Pump(a)].pc = "lock", ![Pump(a)].m = "control", ![Pump(a)].g = g]

ClaimRenew(a) ==
  LET g == run[Pump(a)].g IN
  /\ run[Pump(a)].pc = "claim_renew"
  /\ \/ Renewable(a, g) /\ RenewLease(a) /\ ToInstall(a, g) /\ UNCHANGED spent
     \/ ~Renewable(a, g) /\ ToStale(a) /\ UNCHANGED <<store, spent>>
     \/ StoreFails /\ ToInstall(a, g) /\ UNCHANGED store
  /\ UNCHANGED <<Rest, own, belief, won>>

(* The sandbox has the binding: take control unless something newer won    *)
(* inside the wait, displace the peers, and only then answer.              *)
ClaimWon(a) ==
  LET g == run[Pump(a)].g IN
  /\ run[Pump(a)].pc = "claim_won"
  /\ IF own[a].g <= g
       THEN StartDisplace(a, [own EXCEPT ![a] = Advanced(@, "control", g)], g, TRUE, "claim_check")
       ELSE /\ run' = [run EXCEPT ![Pump(a)].pc = "hold", ![Pump(a)].won = g,
                                  ![Pump(a)].k = "claim_check"]
            /\ UNCHANGED own
  /\ UNCHANGED <<Rest, store, belief, won, spent>>

(* What the client was told is what the claim won, or the binding it       *)
(* installed is pointed back at what this attach is.                       *)
ClaimCheck(a) ==
  LET r == run[Pump(a)] IN
  /\ r.pc = "claim_check"
  /\ IF (r.m = "control" /\ r.g = r.won) \/ ~Spliced(a) THEN UNCHANGED toBox
                                                      ELSE Sent(a, ControlFrame(r.m, r.g))
  /\ run' = [run EXCEPT ![Pump(a)] = [Idle EXCEPT !.pc = "live"]]
  /\ UNCHANGED <<setup, store, own, link, belief, hold, handoff, ack, box, won, spent>>

(* The sandbox could not be told: give the generation back and tell        *)
(* everybody the number that now exists.                                   *)
Release(a, k) ==
  /\ \/ CompareAndAdvance(a, run[Pump(a)].g, None) /\ UNCHANGED spent
     \/ store.gen # run[Pump(a)].g /\ UNCHANGED <<store, won, spent>>
     \/ StoreFails /\ UNCHANGED <<store, won>>
  /\ k

ClaimGivenBack(a) ==
  /\ run[Pump(a)].pc = "claim_back"
  /\ Release(a, run' = [run EXCEPT ![Pump(a)].pc = "stale", ![Pump(a)].k = "back_told"])
  /\ UNCHANGED <<Rest, own, belief>>

BackTold(a) ==
  /\ run[Pump(a)].pc = "back_told"
  /\ StartDisplace(a, own, run[Pump(a)].g, TRUE, "live")
  /\ UNCHANGED <<Rest, store, belief, won, spent>>

(* sendStale: record what the row says, then answer with it.               *)
SendStale(a) ==
  /\ run[Pump(a)].pc = "stale"
  /\ \/ /\ own' = [own EXCEPT ![a] = Displaced(@, store.gen)]
        /\ UNCHANGED spent
     \/ StoreFails /\ UNCHANGED own
  /\ Answer(a, run[Pump(a)].k)
  /\ UNCHANGED <<Rest, store, belief, won>>

(* release: a shared typer only steps down; an exclusive controller        *)
(* advances the generation, steps down and tells its peers.                *)
ReleaseBegins(a) ==
  /\ AtLive(a) /\ Spliced(a) /\ Keeper(a) /\ own[a].m = "control"
  /\ store.gen < setup.top /\ "release" \in setup.moves
  /\ run' = [run EXCEPT ![Pump(a)] = [Idle EXCEPT !.g = own[a].g,
               !.pc = IF Shared THEN "demote" ELSE "release",
               !.k = IF Shared THEN "live" ELSE "released"]]
  /\ UNCHANGED <<Rest, store, own, belief, won, spent>>

ReleaseControl(a) ==
  /\ run[Pump(a)].pc = "release"
  /\ Release(a, Goto(Pump(a), "demote"))
  /\ UNCHANGED <<Rest, own, belief>>

Released(a) ==
  /\ run[Pump(a)].pc = "released"
  /\ StartDisplace(a, own, run[Pump(a)].g, FALSE, "live")
  /\ UNCHANGED <<Rest, store, belief, won, spent>>

(* demote, decided at generation g: the plane stops forwarding at once,    *)
(* the sandbox is told only if the demotion still stands.                  *)
Demote(x) ==
  LET a == Target(x)  from == run[x].g IN
  /\ run[x].pc = "demote"
  /\ \E cur \in {store.gen, from} :
       /\ cur # store.gen => StoreFails
       /\ cur = store.gen => UNCHANGED spent
       /\ own' = [own EXCEPT ![a] = Demoted(@, from, cur)]
       /\ run' = [run EXCEPT ![x].m = "view", ![x].won = 0,
                    ![x].g = Demoted(own[a], from, cur).g,
                    ![x].pc = IF own[a].g > from THEN "hold" ELSE "lock"]
  /\ UNCHANGED <<Rest, store, belief, won>>

-----------------------------------------------------------------------------
(* The heartbeat: a renewal under the generation this attach types under,  *)
(* or under the shared policy a read of the row.                           *)
BeatTickNeverDemotes(a) ==
  /\ run[Beat(a)] = Idle /\ Beating(a)
  /\ ~Shared /\ Renewable(a, own[a].g) /\ own[a].g # 0
  /\ RenewLease(a)
  /\ UNCHANGED <<Rest, own, belief, run, won, spent>>

BeatTick(a) ==
  LET g == own[a].g IN
  /\ run[Beat(a)] = Idle /\ Beating(a)
  /\ \/ /\ ~Shared /\ Renewable(a, g) /\ g # 0
        /\ RenewLease(a) /\ UNCHANGED run
     \/ /\ IF Shared THEN store.gen > g ELSE ~Renewable(a, g)
        /\ run' = [run EXCEPT ![Beat(a)].pc = "demote", ![Beat(a)].g = g]
        /\ UNCHANGED store
  /\ UNCHANGED <<Rest, own, belief, won, spent>>

(* The splice is over: its context is cancelled and the heartbeat ends     *)
(* wherever it stands.                                                     *)
BeatEnds(a) ==
  /\ run[Beat(a)] # Idle
  /\ run[Pump(a)].pc \in Ending
  /\ run' = [run EXCEPT ![Beat(a)] = Idle]
  /\ hold' = [hold EXCEPT ![a] = IF @.by = Beat(a) THEN FreeHold ELSE @]
  /\ handoff' = [handoff EXCEPT ![a] = IF @ = Beat(a) THEN None ELSE @]
  /\ UNCHANGED <<setup, store, own, link, belief, ack, toBox, box, won, spent>>

-----------------------------------------------------------------------------
(* The end of an attach.                                                   *)

(* Either socket of the splice is gone; the runner closes the attachment.  *)
Disconnect(a) ==
  /\ Spliced(a) /\ Fault("drop")
  /\ link' = [link EXCEPT ![a] = "down"]
  /\ Sent(a, [t |-> "close", m |-> "view", g |-> 0])
  /\ UNCHANGED <<setup, store, own, belief, run, hold, handoff, ack, box, won>>

SpliceEnds(a) ==
  /\ AtLive(a) /\ link[a] = "down"
  /\ Goto(Pump(a), "finish")
  /\ UNCHANGED <<Rest, store, own, belief, won, spent>>

(* finish: leave the table, then release what one read says is held.       *)
Finish(a) ==
  /\ run[Pump(a)].pc = "finish"
  /\ own' = [own EXCEPT ![a].reg = FALSE]
  /\ GotoG(Pump(a), IF Keeper(a) /\ own[a].m = "control" /\ ~Shared THEN "leave" ELSE "gone",
           own[a].g)
  /\ UNCHANGED <<Rest, store, belief, won, spent>>

FinishRelease(a) ==
  /\ run[Pump(a)].pc = "leave"
  /\ Release(a, Goto(Pump(a), "left"))
  /\ UNCHANGED <<Rest, own, belief>>

FinishTell(a) ==
  /\ run[Pump(a)].pc = "left"
  /\ \/ StartDisplace(a, own, store.gen, FALSE, "gone") /\ UNCHANGED spent
     \/ StoreFails /\ Goto(Pump(a), "gone") /\ UNCHANGED own
  /\ UNCHANGED <<Rest, store, belief, won>>

Gone(a) ==
  /\ run[Pump(a)].pc = "gone"
  /\ run[Beat(a)] = Idle
  /\ \A w \in Attaches : run[Peer(w, a)] = Idle
  /\ run' = [run EXCEPT ![Pump(a)] = Idle]
  /\ own' = [own EXCEPT ![a] = NotAttached]
  /\ link' = [link EXCEPT ![a] = "none"]
  /\ ack' = [ack EXCEPT ![a] = None]
  /\ UNCHANGED <<setup, store, belief, hold, handoff, toBox, box, won, spent>>

-----------------------------------------------------------------------------
(* Keystrokes and the sandbox.                                             *)

(* A client types while it believes it may; the plane carries what it      *)
(* still takes for the controller's and stamps it with its own generation. *)
Type(a) ==
  /\ AtLive(a) /\ Spliced(a) /\ "type" \in setup.moves
  /\ belief[a].m # "view" /\ own[a].m = "control"
  /\ \A i \in DOMAIN toBox[a] : toBox[a][i].t # "stdin"
  /\ Sent(a, [t |-> "stdin", m |-> "view", g |-> own[a].g])
  /\ UNCHANGED <<setup, store, own, link, belief, run, hold, handoff, ack, box, won, spent>>

(* mayWriteLocked: the attachment's binding and the frame's own stamp both *)
(* name the newest generation the sandbox has seen.                        *)
MayWriteUnstamped(a, g) == box.bind[a] # None /\ box.bind[a].m = "control"
MayWrite(a, g) == /\ box.bind[a] # None
                  /\ box.bind[a].m = "control"
                  /\ box.bind[a].g = box.gen
                  /\ g = box.gen

Bound(a, f) == [gen |-> Max2(box.gen, f.g), bind |-> [box.bind EXCEPT ![a] = [m |-> f.m, g |-> f.g]]]

(* One frame of the session's single connection. *)
BoxStep(a) ==
  /\ toBox[a] # <<>>
  /\ toBox' = [toBox EXCEPT ![a] = Tail(@)]
  /\ LET f == Head(toBox[a]) IN
     \/ f.t = "open" /\ box' = Bound(a, f) /\ UNCHANGED ack
     \/ /\ f.t = "control"
        /\ IF box.bind[a] = None THEN UNCHANGED <<box, ack>>
           ELSE /\ box' = Bound(a, f)
                /\ ack' = [ack EXCEPT ![a] = IF @ = None /\ Spliced(a) THEN f.g ELSE @]
     \/ f.t = "stdin" /\ UNCHANGED <<box, ack>>
     \/ f.t = "close" /\ box' = [box EXCEPT !.bind[a] = None] /\ UNCHANGED ack
  /\ UNCHANGED <<setup, store, own, link, belief, run, hold, handoff, won, spent>>

-----------------------------------------------------------------------------
PumpStep(a) ==
  \/ GrantLegacy(a) \/ GrantClaim(a) \/ GrantRenew(a) \/ GrantLost(a) \/ Register(a)
  \/ FirstResize(a) \/ FirstFails(a) \/ DialBack(a) \/ NoDialBack(a)
  \/ Claim(a) \/ ClaimRenew(a) \/ ClaimWon(a) \/ ClaimCheck(a)
  \/ ClaimGivenBack(a) \/ BackTold(a) \/ SendStale(a)
  \/ ReleaseControl(a) \/ Released(a)
  \/ SpliceEnds(a) \/ Finish(a) \/ FinishRelease(a) \/ FinishTell(a) \/ Gone(a)
  \/ FanoutDone(a)

ClientStep(a) == \/ AttachTerminal(a) \/ ClaimAnswered(a) \/ ClaimBegins(a) \/ ReleaseBegins(a)
                 \/ Type(a) \/ Disconnect(a)

ProcStep(x) == \/ Install(x) \/ AckSeen(x) \/ AckTimeout(x) \/ InstallNoWait(x)
               \/ TakeHold(x) \/ Say(x) \/ MessageLost(x) \/ NoticeSkipped(x) \/ NoticeGivesUp(x) \/ Demote(x)

Next == \/ \E a \in Attaches : PumpStep(a) \/ ClientStep(a) \/ BoxStep(a)
                               \/ BeatTick(a) \/ BeatEnds(a)
        \/ \E x \in Procs : ProcStep(x)
        \/ LeaseExpires

(* Goroutines and timers keep running as long as one of them has something *)
(* to do, and the sandbox reads the frames of every attachment in turn.    *)
(* Clients and faults owe nothing.                                         *)
SystemStep ==
  \/ \E a \in Attaches : \/ PumpStep(a) /\ spent' = spent
                         \/ BeatTick(a) \/ BeatEnds(a)
  \/ \E x \in Procs : ProcStep(x) /\ spent' = spent

Fairness == WF_vars(SystemStep) /\ \A a \in Attaches : WF_vars(BoxStep(a))

Spec == Init /\ [][Next]_vars /\ Fairness

-----------------------------------------------------------------------------
(* Properties.                                                             *)

(* What a pump, a heartbeat or a peer's process does next, and what a pump *)
(* does once a fan-out or a notice is over.                                *)
Places == {"idle", "take", "grant", "grant_renew", "grant_lost", "register", "first", "parked",
           "live", "claim", "claim_renew", "claim_won", "claim_back", "claim_check", "stale",
           "back_told", "release", "released", "demote", "fanout", "lock", "wait", "install",
           "hold", "say", "finish", "leave", "left", "gone"}
Continuations == {"idle", "live", "parked", "claim_check", "back_told", "released", "gone"}

Binding == [m : Modes, g : Nat]
Frame == [t : {"open", "control", "stdin", "close"}, m : Modes, g : Nat]

(* Types of the variables.                                                 *)
TypeOK ==
  /\ setup \in Setups
  /\ store \in [gen : Nat, holder : Attaches \cup {None}, fresh : BOOLEAN]
  /\ own \in [Attaches -> [m : Modes, g : Nat, told : BOOLEAN, reg : BOOLEAN]]
  /\ link \in [Attaches -> {"none", "up", "down"}]
  /\ belief \in [Attaches -> [m : Modes \cup {"none"}, g : Nat, lost : BOOLEAN]]
  /\ run \in [Procs -> [pc : Places, g : Nat, m : Modes, won : Nat, k : Continuations]]
  /\ hold \in [Attaches -> [by : Procs \cup {None}, m : Modes, g : Nat, won : Nat]]
  /\ handoff \in [Attaches -> Procs \cup {None}]
  /\ ack \in [Attaches -> Nat \cup {None}]
  /\ toBox \in [Attaches -> Seq(Frame)]
  /\ box \in [gen : Nat, bind : [Attaches -> Binding \cup {None}]]
  /\ won \in [0..store.gen -> Attaches \cup {None}]
  /\ spent \subseteq Faults \cup {"ask"}

(* Nobody knows a generation the row has not reached.                      *)
KnownGenerations ==
  /\ \A a \in Attaches : /\ own[a].g <= store.gen /\ belief[a].g <= store.gen /\ hold[a].g <= store.gen
                         /\ \A i \in DOMAIN toBox[a] : toBox[a][i].g <= store.gen
  /\ \A x \in Procs : run[x].g <= store.gen
  /\ box.gen <= store.gen

Writers == {a \in Attaches : MayWrite(a, box.gen)}
Fence == INSTANCE InputFence WITH policy <- setup.policy, gen <- box.gen,
                                  owner <- won[box.gen], writers <- Writers

(* The pty fence implements InputFence: whatever planes and heartbeats do, *)
(* the keystrokes that execute are those of the one attach that won the    *)
(* sandbox's generation, and generations only move forward.                *)
FenceImplemented == Fence!Spec

AtRest(a) == /\ AtLive(a) /\ run[Beat(a)] = Idle
             /\ \A w \in Attaches : run[Peer(w, a)] = Idle

(* No attach is left a viewer under a generation it won itself: whenever   *)
(* the goroutines of the winner of the current generation are at rest, the *)
(* plane takes it for the controller (demoteTo's guard; otherwise nobody   *)
(* types until the lease runs out).                                        *)
NoOrphanedControl ==
  \A a \in Attaches : (AtRest(a) /\ ~Shared /\ "store" \notin spent /\ won[store.gen] = a)
                        => own[a].m = "control" /\ own[a].g = store.gen

(* Whenever nobody is talking to a negotiated client and the last message  *)
(* meant for it was not lost, it believes exactly what its plane holds,    *)
(* however slow the client, however the handoffs crossed, and whichever    *)
(* notice gave up waiting for its turn (announceAs and its correction).    *)
TruthTold ==
  \A a \in Attaches : (AtRest(a) /\ Keeper(a) /\ Spliced(a) /\ ~belief[a].lost)
                        => belief[a].m = own[a].m /\ belief[a].g = own[a].g

(* The plane does not go on carrying the keystrokes of a controller whose  *)
(* generation the row has left, although the taker was on another replica  *)
(* and nothing pushed this one a message (heartbeat, pollFence).           *)
Passed(a) == Keeper(a) /\ own[a].reg /\ own[a].m = "control" /\ own[a].g < store.gen
DisplacedStepsDown == []<>(\A a \in Attaches : ~Passed(a))

Busy(a) == run[Pump(a)].pc \notin {"idle", "live"}

(* Every handoff ends: no claim, release, opening or departure waits for   *)
(* ever on a sandbox, a client, a mutex or another handoff.                *)
HandoffsEnd == []<>(\A a \in Attaches : ~Busy(a))
=============================================================================
