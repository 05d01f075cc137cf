----------------------------- MODULE InputFence -----------------------------
(***************************************************************************)
(* What the controller generation promises a session: who may write to its *)
(* pty.  Input authority belongs to a generation.  Under the exclusive     *)
(* policy a generation belongs to at most one attachment for its whole     *)
(* life, so no keystroke of anybody else executes under it, and a          *)
(* generation that was passed never comes back.  Under the shared policy   *)
(* any attachment may write and the generation is only a revocation        *)
(* number.                                                                 *)
(*                                                                         *)
(* AttachPlane implements this specification; nothing here knows about     *)
(* stores, planes, handoffs or messages.                                   *)
(***************************************************************************)
EXTENDS Naturals

CONSTANTS Attaches, None

VARIABLES policy,  \* "shared" or "exclusive", fixed for the session
          gen,     \* the newest generation the sandbox has seen
          owner,   \* who the generation belongs to (exclusive policy)
          writers  \* the attachments whose keystrokes execute

fence == <<policy, gen, owner, writers>>

(* Exclusive writers are at most the owner of the generation. *)
Lawful(p, o, ws) == p = "exclusive" => ws \subseteq {o}

Init == /\ policy \in {"shared", "exclusive"}
        /\ gen = 0
        /\ owner = None
        /\ writers = {}

(* The generation moves forward, to another owner or to nobody. *)
Advance == /\ gen' > gen
           /\ owner' \in Attaches \cup {None}
           /\ writers' \subseteq Attaches
           /\ Lawful(policy, owner', writers')
           /\ UNCHANGED policy

(* Attachments come and go under one generation; its owner stays. *)
Admit == /\ writers' \subseteq Attaches
         /\ Lawful(policy, owner, writers')
         /\ UNCHANGED <<policy, gen, owner>>

Next == Advance \/ Admit

Spec == Init /\ [][Next]_fence
=============================================================================
