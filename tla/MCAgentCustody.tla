--------------------------- MODULE MCAgentCustody ---------------------------
(* Scenarios for custody: who does what to which sandboxes.                *)
EXTENDS AgentCustody

CONSTANTS b1, b2

None == [o \in Spendings |-> 0]

Held(v, l) == [version |-> v, revoked |-> FALSE, lastRevoked |-> 0, files |-> l]

Base == [row |-> Held(1, 1), disk |-> Nothing, born |-> 1, boxes |-> {b1}, left |-> None]

\* logins in two sandboxes, and a logout that may miss one
Logouts == [Base EXCEPT !.boxes = {b1, b2}, !.left = [None EXCEPT !.login = 1, !.logout = 1, !.fault = 1]]
\* a put that is lost, or late, and a logout
Late == [Base EXCEPT !.left = [None EXCEPT !.login = 1, !.logout = 2, !.fault = 1]]
\* a disk that fails under a restore and under a revoke
Disks == [Base EXCEPT !.left = [None EXCEPT !.login = 1, !.logout = 1, !.file = 2, !.touch = 1, !.fault = 1]]
\* the same, over a restart
Restarts == [Base EXCEPT !.left = [None EXCEPT !.login = 1, !.logout = 1, !.file = 1, !.fault = 1, !.kill = 1, !.start = 1]]
\* a login nobody put, from an earlier boot
Leftover == [Base EXCEPT !.row = NoRow, !.disk = 1, !.left = [None EXCEPT !.login = 1, !.logout = 1, !.fault = 1, !.close = 1, !.start = 1]]
\* the agent's own logouts, and files that are no set
Files == [Base EXCEPT !.left = [None EXCEPT !.login = 1, !.remove = 1, !.spoil = 1, !.fault = 1, !.logout = 1]]
\* the pass when the agent exits beside the loop's, and the last put
Passes == [Base EXCEPT !.left = [None EXCEPT !.login = 2, !.flush = 1, !.fault = 1]]
Closes == [Base EXCEPT !.left = [None EXCEPT !.login = 1, !.flush = 1, !.close = 1, !.fault = 1, !.logout = 1]]
\* the membership is lost and regained
Members == [Base EXCEPT !.left = [None EXCEPT !.login = 1, !.leave = 1, !.file = 1, !.fault = 1]]
Returns == [Base EXCEPT !.left = [None EXCEPT !.login = 1, !.leave = 1, !.fault = 1, !.kill = 1, !.start = 1]]
\* a sandbox that sleeps through a logout, and one that cannot open its home
Sleeps == [Base EXCEPT !.left = [None EXCEPT !.login = 1, !.logout = 1, !.freeze = 1, !.open = 1, !.close = 1, !.file = 1]]
\* a pass beside a restore that fails, then meets a tombstone it cannot apply
Overlaps == [Base EXCEPT !.disk = 1, !.left = [None EXCEPT !.logout = 1, !.file = 2, !.flush = 1, !.touch = 1]]

MCSetups == {Logouts, Late, Disks, Restarts, Leftover, Files, Passes, Closes, Members, Returns, Sleeps, Overlaps}
=============================================================================
