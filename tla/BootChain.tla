------------------------------ MODULE BootChain ------------------------------
(***************************************************************************)
(* What sessiond does between the start of a sandbox and the start of its  *)
(* agent: the chain of stages a wrapper shell runs, the watcher that reads *)
(* each stage's exit code off the persistent volume and reports it, the    *)
(* two queues the reports wait in for a connection, and the GitHub         *)
(* credential the clone stage, and later the agent's git, is given.        *)
(*                                                                         *)
(* A step is one command of the wrapper shell, one poll of the watcher,    *)
(* one frame, one answer of the vault.  Every control frame is routed on a *)
(* goroutine of its own, so what the runner reports is an unordered set.   *)
(*                                                                         *)
(* Simplified: a session clones one repository; a script either succeeds   *)
(* or fails or does not end; a tail is the kinds of line, of the clone's   *)
(* own output or of any before it, that a detector tells apart; the exit   *)
(* of the child and the exec counts are left to Exec.                      *)
(***************************************************************************)
EXTENDS Naturals, Sequences, FiniteSets

CONSTANTS
    Boxes,          \* sandboxes: a runner and a session
    MaxToken,       \* bound on GitHub tokens
    PendingCap      \* pendingCap: payloads either queue holds

ASSUME BootChainAssumption == {MaxToken, PendingCap} \subseteq Nat \ {0}

VARIABLES
    boot,   \* boot[b]: sessiond's current boot, its wrapper shell and its watcher
    disk,   \* disk[b]: the session's volume: an exit code per stage, the repository
    wire,   \* wire[b]: the relay connection, the payloads that wait for it and those it was given
    git,    \* git[b]: the git process of the clone stage or of the agent
    news,   \* events on their way from the runners to the control plane
    vault,  \* the owner's GitHub credential, and the tokens GitHub accepts
    left,   \* how much of each kind of event may still happen
    past    \* history: the accidents the properties set apart

chainVars == <<boot, disk, wire, git, news, vault, left, past>>

Stages == {"secrets", "setup", "clone", "agents", "init"}
None == "none"

NoBoot == [pc |-> "off", plan |-> <<>>, at |-> 0, step |-> "off", rc |-> "ok", tail |-> {},
           watch |-> 0, owes |-> <<>>, heard |-> <<>>, ended |-> {}]
NoWire == [conn |-> "down", events |-> <<>>, pending |-> <<>>]
NoGit == [pc |-> "idle", token |-> 0, by |-> None]
EmptyDisk == [rc |-> [st \in Stages |-> None], repo |-> None]

Can(what) == left[what] > 0
Spend(what) == left' = [left EXCEPT ![what] = @ - 1]

Stage(b) == boot[b].plan[boot[b].at]
Running(b, st) == boot[b].pc = "up" /\ boot[b].step = "run" /\ Stage(b) = st
AgentUp(b) == boot[b].pc = "up" /\ boot[b].step = "agent"

(* Boot: the scripts written, the chain and its watcher started            *)

KeepsOldVerdicts(codes, plan) == codes

\* writeStageScript clears what an earlier boot of the same volume left
Cleared(codes, plan) == [st \in Stages |-> IF \E i \in 1..Len(plan) : plan[i] = st THEN None ELSE codes[st]]

\* prepareBoot, chainArgv and session.New: before any other goroutine runs
Booted(b, plan) ==
    /\ boot' = [boot EXCEPT ![b] = [NoBoot EXCEPT !.pc = "up", !.plan = plan, !.at = 1,
                                                  !.step = IF plan = <<>> THEN "agent" ELSE "run",
                                                  !.watch = IF plan = <<>> THEN 0 ELSE 1]]
    /\ disk' = [disk EXCEPT ![b].rc = Cleared(@, plan)]

(* The sandbox is stopped under whatever it was doing.  A clone that is    *)
(* killed may leave its directory behind, and so does one stopped before   *)
(* its branch was made.                                                    *)
Cut(b) ==
    /\ boot' = [boot EXCEPT ![b].pc = "off", ![b].step = "off", ![b].watch = 0, ![b].owes = <<>>]
    /\ wire' = [wire EXCEPT ![b] = NoWire]
    /\ git' = [git EXCEPT ![b] = NoGit]
    /\ \E repo \in {disk[b].repo} \cup (IF git[b].pc = "has" /\ git[b].by = "clone" THEN {"partial"} ELSE {}) :
        /\ disk' = [disk EXCEPT ![b].repo = repo]
        /\ past' = [past EXCEPT !.cut = @ \/ repo \in {"partial", "base"}]

(* The wrapper shell                                                       *)

\* the script ends, well ("ok", rc 0) or badly ("bad", any other rc);
\* `echo $rc > file' opens the file before it writes it
ShellHas(b, rc, tail) ==
    boot' = [boot EXCEPT ![b].step = "echo", ![b].rc = rc, ![b].tail = tail, ![b].ended = @ \cup {<<Stage(b), rc>>}]

StageEnds(b, rc, tail) ==
    /\ ShellHas(b, rc, tail)
    /\ disk' = [disk EXCEPT ![b].rc[Stage(b)] = "empty"]

GoesOn(b) == boot[b].rc = "ok"

\* the code is written; the chain stops, goes on, or becomes the agent
WriteRC(b) ==
    /\ boot[b].pc = "up" /\ boot[b].step = "echo"
    /\ disk' = [disk EXCEPT ![b].rc[Stage(b)] = boot[b].rc]
    /\ boot' = [boot EXCEPT ![b].step = CASE ~GoesOn(b) -> "ended"
                                          [] GoesOn(b) /\ boot[b].at < Len(boot[b].plan) -> "run"
                                          [] OTHER -> "agent",
                            ![b].at = IF GoesOn(b) /\ @ < Len(boot[b].plan) THEN @ + 1 ELSE @]
    /\ UNCHANGED <<wire, git, news, vault, left, past>>

\* failingScript: the secrets a microVM could not get, as a stage that fails
SecretsFail(b) ==
    /\ Running(b, "secrets")
    /\ StageEnds(b, "bad", {})
    /\ UNCHANGED <<wire, git, news, vault, left, past>>

\* agentsWaitScript: a wait that ends itself, well, whatever the homes are;
\* a runner that mounts none has it fail
AgentsWaited(b) ==
    /\ Running(b, "agents")
    /\ \/ StageEnds(b, "ok", {}) /\ UNCHANGED left
       \/ Can("fail") /\ Spend("fail") /\ StageEnds(b, "bad", {})
    /\ UNCHANGED <<wire, git, news, vault, past>>

\* the init hook is the environment's own
ScriptEnds(b) ==
    /\ Running(b, "init")
    /\ \/ StageEnds(b, "ok", {}) /\ UNCHANGED left
       \/ Can("fail") /\ Spend("fail") /\ StageEnds(b, "bad", {})
    /\ UNCHANGED <<wire, git, news, vault, past>>

(* The clone stage, and the agent's own git                                *)

\* a directory that is there is not cloned again, whatever is in it
SkipClone(b) ==
    /\ Running(b, "clone") /\ git[b].pc = "idle" /\ disk[b].repo # None
    /\ StageEnds(b, "ok", {})
    /\ UNCHANGED <<wire, git, news, vault, left, past>>

AskCredential(b) ==
    /\ git[b].pc = "idle"
    /\ \/ /\ Running(b, "clone") /\ disk[b].repo = None
          /\ git' = [git EXCEPT ![b] = [pc |-> "asked", token |-> 0, by |-> "clone"]]
          /\ UNCHANGED left
       \/ /\ AgentUp(b) /\ Can("git") /\ Spend("git")
          /\ git' = [git EXCEPT ![b] = [pc |-> "asked", token |-> 0, by |-> "agent"]]
    /\ UNCHANGED <<boot, disk, wire, news, vault, past>>

\* mintGitCredential: the stored value, unless it was seen refused
Mintable == vault.status = "valid"

\* agentSocketCall: a connection, or three seconds in which one may come
Connected(b) == boot[b].pc = "up" /\ wire[b].conn = "up"

\* runCredentialHelper get: over the socket and the relay to the vault
Minted(b) ==
    /\ git[b].pc = "asked" /\ Connected(b) /\ Mintable
    /\ git' = [git EXCEPT ![b].pc = "has", ![b].token = vault.token]
    /\ UNCHANGED <<boot, disk, wire, news, vault, left, past>>

(* git fails: the clone stage with it, an agent's command on its own.  The *)
(* tail is the end of all the session has printed: an earlier stage, or    *)
(* the name of a branch, may have a 401 or a 403 in it.                    *)
GitFails(b, lines) ==
    /\ git' = [git EXCEPT ![b] = NoGit]
    /\ IF git[b].by = "clone" THEN \E before \in SUBSET {"auth"} : StageEnds(b, "bad", lines \cup before)
                              ELSE UNCHANGED <<boot, disk>>

\* no connection within agentSocketConnWait, or the vault's named action
MintRefused(b) ==
    /\ git[b].pc = "asked" /\ boot[b].pc = "up" /\ ~(Connected(b) /\ Mintable)
    /\ GitFails(b, {})
    /\ UNCHANGED <<wire, news, vault, left, past>>

(* offerControl: the channel holds PendingCap payloads, and the newest is  *)
(* dropped when nothing drains it.                                         *)
Full(b) == Len(wire[b].events) >= PendingCap
Offer(b, kind) == wire' = [wire EXCEPT ![b].events = IF Full(b) THEN @ ELSE Append(@, kind)]

\* GitHub accepts the token: a clone lands on the base branch
GitSucceeds(b) ==
    /\ git[b].pc = "has" /\ boot[b].pc = "up" /\ git[b].token \in vault.good
    /\ IF git[b].by = "clone"
       THEN disk' = [disk EXCEPT ![b].repo = "base"] /\ git' = [git EXCEPT ![b].pc = "cloned"]
       ELSE git' = [git EXCEPT ![b] = NoGit] /\ UNCHANGED disk
    /\ UNCHANGED <<boot, wire, news, vault, left, past>>

\* `checkout -b': the session's branch, or a name git will not take
CheckOut(b) ==
    /\ git[b].pc = "cloned" /\ boot[b].pc = "up"
    /\ git' = [git EXCEPT ![b] = NoGit]
    /\ \/ /\ ShellHas(b, "ok", {})
          /\ disk' = [disk EXCEPT ![b].repo = "branch", ![b].rc["clone"] = "empty"]
          /\ UNCHANGED <<left, past>>
       \/ /\ Can("fail") /\ Spend("fail")
          /\ StageEnds(b, "bad", {})
          /\ past' = [past EXCEPT !.cut = TRUE]
    /\ UNCHANGED <<wire, news, vault>>

\* GitHub refuses it: git says so, and if it was a 401 has its helper erase
\* the credential, which sessiond reports; the report names no token
GitHubRefuses(b) ==
    /\ git[b].pc = "has" /\ boot[b].pc = "up" /\ git[b].token \notin vault.good
    /\ GitFails(b, {"auth"})
    /\ Offer(b, "credential_rejected") \/ UNCHANGED wire
    /\ UNCHANGED <<news, vault, left, past>>

\* agentSocketCall: any process of the sandbox can report the same
Accuse(b) ==
    /\ boot[b].pc = "up" /\ Can("git") /\ Spend("git")
    /\ Offer(b, "credential_rejected")
    /\ UNCHANGED <<boot, disk, git, news, vault, past>>

\* the egress proxy refuses the tunnel: a 403 that is not GitHub's
ProxyRefuses(b) ==
    /\ git[b].pc = "has" /\ boot[b].pc = "up" /\ Can("proxy") /\ Spend("proxy")
    /\ GitFails(b, {"proxy"})
    /\ UNCHANGED <<wire, news, vault, past>>

(* The watcher                                                             *)

\* readSetupRC: an empty file is nothing yet
ReadRC(b, st) == IF disk[b].rc[st] = "empty" THEN None ELSE disk[b].rc[st]

\* authRejected: a 401 or a 403 in any line that is not the proxy's
AuthRejected(tail) == "auth" \in tail

\* watchStage: a rejected credential is reported before the failure it
\* explains; of the stages that succeed setup alone announces it
Reports(st, rc, tail) ==
    IF rc = "ok" THEN IF st = "setup" THEN <<"setup_done">> ELSE <<>>
    ELSE IF st = "clone" /\ AuthRejected(tail) THEN <<"credential_rejected", "failed">> ELSE <<"failed">>

Watching(b) == boot[b].pc = "up" /\ boot[b].watch \in 1..Len(boot[b].plan) /\ boot[b].owes = <<>>

\* watchStages: the next verdict
HearVerdict(b) ==
    /\ Watching(b)
    /\ LET st == boot[b].plan[boot[b].watch]
           rc == ReadRC(b, st)
       IN  /\ rc # None
           /\ boot' = [boot EXCEPT ![b].heard = <<st, rc>>, ![b].watch = IF rc = "ok" THEN @ + 1 ELSE 0,
                                   ![b].owes = Reports(st, rc, boot[b].tail)]
    /\ UNCHANGED <<disk, wire, git, news, vault, left, past>>

\* ... is offered, one payload after the other
OfferReport(b) ==
    /\ boot[b].pc = "up" /\ boot[b].owes # <<>>
    /\ Offer(b, Head(boot[b].owes))
    /\ boot' = [boot EXCEPT ![b].owes = Tail(@)]
    /\ past' = [past EXCEPT !.lost = @ \/ (Full(b) /\ Head(boot[b].owes) = "failed")]
    /\ UNCHANGED <<disk, git, news, vault, left>>

(* awaitStageRC: the bound passes, at the latest before the code is seen;  *)
(* SIGTERM goes to the shell, or to what the shell has become.  Of the     *)
(* secrets, which fail at once, and of the agents there is no bound.       *)
TimeOut(b) ==
    /\ Watching(b) /\ boot[b].plan[boot[b].watch] \notin {"secrets", "agents"}
    /\ boot' = [boot EXCEPT ![b].watch = 0, ![b].step = "ended", ![b].owes = <<"failed">>]
    /\ git' = [git EXCEPT ![b] = NoGit]
    /\ past' = [past EXCEPT !.cut = @ \/ git[b].by = "clone"]
    /\ UNCHANGED <<disk, wire, news, vault, left>>

(* The connection                                                          *)

QueueOfItsOwn(b) ==
    /\ boot[b].pc = "up" /\ wire[b].conn = "down"
    /\ wire' = [wire EXCEPT ![b].conn = "up", ![b].pending = <<>>]

\* dialLoop: a connection takes over what the last one left undelivered
Dial(b) ==
    /\ boot[b].pc = "up" /\ wire[b].conn = "down"
    /\ wire' = [wire EXCEPT ![b].conn = "up"]

\* the connection dies ...
Drop(b) ==
    /\ wire[b].conn = "up" /\ Can("drop") /\ Spend("drop")
    /\ wire' = [wire EXCEPT ![b].conn = "dying"]
    /\ UNCHANGED <<boot, disk, git, news, vault, past>>

\* ... and with it what is written into it and was not refused
Swallow(b) ==
    /\ wire[b].conn = "dying" /\ wire[b].pending # <<>>
    /\ wire' = [wire EXCEPT ![b].pending = Tail(@)]
    /\ past' = [past EXCEPT !.lost = @ \/ Head(wire[b].pending) = "failed"]
    /\ UNCHANGED <<boot, disk, git, news, vault, left>>

\* appendPending: the oldest is dropped from a queue that is full
AppendPending(q, p) == IF Len(q) < PendingCap THEN Append(q, p) ELSE Tail(Append(q, p))

\* serveConn takes the next payload when it has sent what it had, or cannot
Take(b) ==
    /\ wire[b].conn # "down" /\ wire[b].events # <<>>
    /\ wire[b].pending = <<>> \/ wire[b].conn = "dying"
    /\ wire' = [wire EXCEPT ![b].events = Tail(@), ![b].pending = AppendPending(@, Head(wire[b].events))]
    /\ past' = [past EXCEPT !.lost = @ \/ (Len(wire[b].pending) >= PendingCap /\ Head(wire[b].pending) = "failed")]
    /\ UNCHANGED <<boot, disk, git, news, vault, left>>

\* ... and returns what it could not send
RelayEnds(b) ==
    /\ wire[b].conn = "dying"
    /\ wire' = [wire EXCEPT ![b].conn = "down"]
    /\ UNCHANGED <<boot, disk, git, news, vault, left, past>>

\* serveConn sends the head; routeControl turns it into the runner's event
Deliver(b, gen) ==
    /\ wire[b].conn = "up" /\ wire[b].pending # <<>>
    /\ wire' = [wire EXCEPT ![b].pending = Tail(@)]
    /\ news' = news \cup {[box |-> b, gen |-> gen, kind |-> Head(wire[b].pending)]}
    /\ UNCHANGED <<boot, disk, git, vault, left, past>>

\* the runner has no control connection: the event has nowhere to go
LoseNews(n) ==
    /\ n \in news /\ Can("lose") /\ Spend("lose")
    /\ news' = news \ {n}
    /\ past' = [past EXCEPT !.lost = @ \/ n.kind = "failed"]
    /\ UNCHANGED <<boot, disk, wire, git, vault>>

(* The vault                                                               *)

\* UpsertCredential: the whole row, so its status with it
Stored(token) == [vault EXCEPT !.token = token, !.status = "valid", !.good = @ \cup {token}]

\* storeGitHubCredential: a login, with a token GitHub has just accepted
Refresh ==
    /\ Can("login") /\ vault.token < MaxToken /\ Spend("login")
    /\ vault' = Stored(vault.token + 1)
    /\ UNCHANGED <<boot, disk, wire, git, news, past>>

\* the owner, or GitHub, withdraws a token
Withdraw(t) ==
    /\ t \in vault.good /\ Can("revoke") /\ Spend("revoke")
    /\ vault' = [vault EXCEPT !.good = @ \ {t}]
    /\ UNCHANGED <<boot, disk, wire, git, news, past>>

\* rejectCredential: the event names no token, so it marks whatever is stored
Flagged == [vault EXCEPT !.status = "needs_refresh"]

-----------------------------------------------------------------------------

Codes == {"ok", "bad"}
Kinds == {"running", "failed", "setup_done", "credential_rejected"}
BootType == [pc : {"off", "up"}, plan : Seq(Stages), at : Nat, step : {"off", "run", "echo", "agent", "ended"},
             rc : Codes, tail : SUBSET {"auth", "proxy"}, watch : Nat, owes : Seq(Kinds),
             heard : {<<>>} \cup (Stages \X Codes), ended : SUBSET (Stages \X Codes)]
DiskType == [rc : [Stages -> {None, "empty"} \cup Codes], repo : {None, "base", "branch", "partial"}]
WireType == [conn : {"down", "up", "dying"}, events : Seq(Kinds), pending : Seq(Kinds)]
GitType == [pc : {"idle", "asked", "has", "cloned"}, token : Nat, by : {None, "clone", "agent"}]
NewsType == [box : Boxes, gen : Nat, kind : Kinds]
VaultType == [token : Nat, status : {"valid", "needs_refresh"}, good : SUBSET Nat]
PastType == [cut : BOOLEAN, lost : BOOLEAN, same : BOOLEAN, kept : BOOLEAN]

ChainTypeOK ==
    /\ boot \in [Boxes -> BootType]
    /\ disk \in [Boxes -> DiskType]
    /\ wire \in [Boxes -> WireType]
    /\ git \in [Boxes -> GitType]
    /\ news \subseteq NewsType
    /\ vault \in VaultType
    /\ past \in PastType

(* A verdict the watcher reports is one this boot's own stage has reached: *)
(* never an earlier boot's, read off the volume they share, and never a    *)
(* file caught between its truncation and its write.                       *)
NoStaleVerdict == \A b \in Boxes : boot[b].heard # <<>> => boot[b].heard \in boot[b].ended
=============================================================================
