------------------------------- MODULE MCExec -------------------------------
(* Scenarios for exec: which commands meet which events.                   *)
EXTENDS Exec

CONSTANTS e1, e2, e3

Base == [execs |-> {e1}, kinds |-> {FALSE}, ops |-> {}, left |-> 0, orphans |-> 0]

\* one command with output and input, a caller that leaves, slow peers
Stream == [Base EXCEPT !.ops = {"output", "stdin", "hangup", "slow", "refuse"}, !.left = 3]
\* its pid was an orphan's, and orphans crowd the reaper's table
Reaping == [Base EXCEPT !.ops = {"output", "hangup"}, !.orphans = 3]
\* the session freezes under commands of both kinds
Suspends == [Base EXCEPT !.execs = {e1, e2}, !.ops = {"suspend"}, !.left = 1]
SlowSuspends == [Base EXCEPT !.kinds = BOOLEAN, !.ops = {"suspend", "slow", "output", "drop", "hangup"}, !.left = 2]
\* connections drop and the sandbox's process is replaced under detached commands
Links == [Base EXCEPT !.kinds = {TRUE}, !.ops = {"counts", "drop", "replace"}, !.left = 2]
Drops == [Base EXCEPT !.ops = {"counts", "drop", "replace", "refuse"}, !.left = 1]
\* the idle clock, with reports in any order
Idle == [Base EXCEPT !.kinds = BOOLEAN, !.ops = {"counts", "idle"}]
\* the same over connections that are lost, twice
Redials == [Idle EXCEPT !.kinds = {TRUE}, !.ops = @ \cup {"drop"}, !.left = 2]
\* more commands than slots
Full == [Base EXCEPT !.execs = {e1, e2, e3}]

MCSetups == {Stream, Reaping, Suspends, SlowSuspends, Links, Drops, Idle, Redials, Full}
MCResumed == {[Base EXCEPT !.ops = {"suspend"}, !.left = 1]}
=============================================================================
