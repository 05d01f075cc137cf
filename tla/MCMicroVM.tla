----------------------------- MODULE MCMicroVM -----------------------------
(* Scenarios for the microVM driver: which calls meet, and which faults.   *)
EXTENDS MicroVM

Base == [n |-> 1, total |-> 2, ops |-> {"create"}, faults |-> {}, gens |-> {0}, cold |-> {TRUE},
         ckpt |-> FALSE, reconnect |-> TRUE]

MCSessionOf(id) == id

\* a session parked behind a checkpoint: failing saves, a bad checkpoint, a lost image, a crash
Barrier == [Base EXCEPT !.ckpt = TRUE, !.ops = {"create", "suspend", "resume", "destroy"},
                        !.faults = {"save", "verify", "image", "restart"}]
Streams == [Base EXCEPT !.ckpt = TRUE, !.ops = {"create", "suspend"}, !.faults = {"stream"}]

\* a launch or a stop goes wrong, and the runner or the host goes down
Launches == [Base EXCEPT !.ops = {"create", "suspend", "resume", "reap"}, !.gens = {2},
                         !.faults = {"launch", "stop", "restart", "reboot"}]

\* a snapshot meets stops, an observation and a VM that dies
Snapshots == [Base EXCEPT !.ops = {"create", "suspend", "snapshot", "inspect"}, !.cold = BOOLEAN, !.faults = {"die", "flush", "jail"}]
Thaws == [Base EXCEPT !.ops = {"create", "suspend", "resume", "snapshot"}, !.cold = {FALSE}]

\* the control plane asks what became of a resume that may still arrive, after a restart of the runner too
Queries == [Base EXCEPT !.ops = {"create", "suspend", "resume", "status"}, !.gens = {2},
                        !.faults = {"die", "launch", "disks", "restart"}]

\* two sessions, room for one; and two sessions on a host whose network fails
Admission == [Base EXCEPT !.n = 2, !.total = 1, !.ops = {"create", "suspend", "resume"}]
Pool == [Base EXCEPT !.n = 2, !.ops = {"create", "reap"}, !.faults = {"net"}]
Adoption == [Base EXCEPT !.n = 2, !.faults = {"net", "restart"}]
\* a third session finds room on the host before a parked one has let go of its slot
Exhausted == [Base EXCEPT !.n = 3, !.ops = {"create", "suspend"}]

MCSetups == {Exhausted, Barrier, Streams, Launches, Snapshots, Thaws, Queries, Admission, Pool, Adoption}

=============================================================================
