------------------------- MODULE MCEnvironmentCache -------------------------
(* Scenarios for the environment's cache and the boot chain.               *)
EXTENDS EnvironmentCache

CONSTANTS s1, s2, r1, r2

MCBoxes == Runners \X Sessions

Nothing == [edit |-> 0, delete |-> 0, fail |-> 0, requeue |-> 0, restart |-> 0, destroy |-> 0,
            drop |-> 0, lose |-> 0, git |-> 0, proxy |-> 0, login |-> 0, revoke |-> 0]
Alone == [tail |-> <<>>, own |-> {}, secrets |-> FALSE, sessions |-> {s1}, runners |-> {r1}, images |-> {"x"}]
Plain == [left |-> Nothing, shape |-> Alone, image |-> "x", script |-> "a", cached |-> None]

\* an edit lands anywhere in the life of two sessions
Edits == [Plain EXCEPT !.left.edit = 1, !.shape.sessions = {s1, s2}]
\* the cache is on one of two runners, and room may be on the other
Held == [Plain EXCEPT !.shape.sessions = {s1, s2}, !.shape.runners = {r1, r2}]
\* the caller's own image beside the environment's
Owned == [Plain EXCEPT !.shape.own = {s1}, !.shape.sessions = {s1, s2}]
\* the environment goes away, or its image moves, under one session and the next
Deletes == [Plain EXCEPT !.left.delete = 1, !.left.destroy = 1, !.shape.sessions = {s1, s2}]
Moves == [Plain EXCEPT !.left.edit = 2, !.shape.images = {"x", "y"}]
\* a create whose fate is unknown, an edit before it is placed again
Requeues == [Plain EXCEPT !.left.requeue = 1, !.left.edit = 1, !.shape.runners = {r1, r2}]
\* the same, of a session that was placed on a cached image
Kept == [Requeues EXCEPT !.cached = r1]
\* stopped and started again, with an edit or a failure
Restarts == [Plain EXCEPT !.left.restart = 1, !.left.fail = 1, !.left.edit = 1]
\* the same over a cached image
Cached == [Plain EXCEPT !.left.restart = 2, !.cached = r1]
\* every other stage, each of which may fail, hang or be cut off
Chain == [Plain EXCEPT !.left.fail = 1, !.left.drop = 1, !.left.restart = 1, !.script = None, !.shape.tail = <<"clone", "agents", "init">>]
\* reports and connections lost
Lossy == [Plain EXCEPT !.left.drop = 1, !.left.lose = 1, !.shape.tail = <<"init">>]
Secrets == [Plain EXCEPT !.left.drop = 1, !.shape.secrets = TRUE]
\* tokens withdrawn and refreshed under the git of the clone and of the agent
Tokens == [Plain EXCEPT !.left.revoke = 1, !.left.login = 1, !.left.proxy = 1, !.left.git = 1, !.script = None, !.shape.tail = <<"clone">>]
\* more reports than the queues hold
Crowded == [Plain EXCEPT !.left.git = 2, !.left.drop = 1]

MCSetups == {Edits, Held, Owned, Deletes, Moves, Requeues, Kept, Restarts, Cached, Chain, Lossy, Secrets, Tokens, Crowded}
=============================================================================
