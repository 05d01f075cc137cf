--------------------------- MODULE MCAttachPlane ---------------------------
(* Two attaches of one session, for every policy, on one replica or two,   *)
(* the first a negotiated controller and the second any kind of client.    *)
EXTENDS AttachPlane, TLC

CONSTANTS a1, a2

MCCommand(neg, m, d) == [negotiated |-> neg, mode |-> m, drive |-> d]
MCDriver == MCCommand(TRUE, "control", TRUE)
MCGuest == MCCommand(TRUE, "control", FALSE)
MCWatcher == MCCommand(TRUE, "view", TRUE)
MCLegacy == MCCommand(FALSE, "control", TRUE)

MCSetup(p, r, c1, c2, top, moves, fs) ==
  [policy |-> p, replica |-> (a1 :> 1 @@ a2 :> r), cmd |-> (a1 :> c1 @@ a2 :> c2),
   top |-> top, moves |-> moves, faults |-> fs]
MCAll == {"type", "release", "ask"}
MCSetups == {MCSetup("exclusive", 1, MCWatcher, MCWatcher, 2, {"type"}, {})}
            \cup {MCSetup("exclusive", 1, MCWatcher, MCWatcher, 1, {}, {"drop"})}
            \cup {MCSetup("exclusive", 1, MCDriver, MCDriver, 2, moves, {}) : moves \in {{"type", "ask"}, {"release"}}}
            \cup {MCSetup("exclusive", 2, MCDriver, MCDriver, 2, {"type", "release"}, {})}
            \cup {MCSetup("exclusive", 1, MCDriver, MCGuest, 2, MCAll, {})}
            \cup {MCSetup("exclusive", 1, MCDriver, MCLegacy, 2, {"type", "release"}, {})}
            \cup {MCSetup("exclusive", 1, MCDriver, MCLegacy, 3, {}, {})}
            \cup {MCSetup("exclusive", 1, MCDriver, MCDriver, 2, {}, {f}) : f \in {"ack", "hold", "notice", "pair", "store"}}
            \cup {MCSetup("exclusive", 2, MCDriver, MCDriver, 2, {}, {f}) : f \in {"ack", "drop"}}
            \cup {MCSetup("shared", 1, MCDriver, MCGuest, 2, MCAll, {"drop"})}
            \cup {MCSetup("shared", r, MCDriver, MCDriver, 2, {"type", "release"}, {"drop"}) : r \in {1, 2}}
=============================================================================
