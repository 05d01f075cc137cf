-------------------------- MODULE MCGuestReconnect --------------------------
(* Scenarios for a guest that is admitted, lost and admitted again.        *)
EXTENDS GuestReconnect

Nil == [o \in {"break", "link", "restart", "timeout", "patience", "secrets", "expire", "edit", "suspend", "ask"} |-> 0]

Fresh == [served |-> FALSE, left |-> Nil]
Running == [served |-> TRUE, left |-> Nil]

\* a first boot whose stream, control connection or answers are lost
Boots == [Fresh EXCEPT !.left = [Nil EXCEPT !.break = 1, !.link = 1, !.secrets = 1, !.patience = 1]]
\* a stream lost twice, under a guest that asks
Drops == [Running EXCEPT !.left = [Nil EXCEPT !.break = 2, !.ask = 2]]
\* calls that are answered late, attempts and tokens that expire
Slow == [Running EXCEPT !.left = [Nil EXCEPT !.break = 1, !.timeout = 2, !.expire = 1]]
\* secrets that cannot be resolved, a guest that does not wait
Refusals == [Running EXCEPT !.left = [Nil EXCEPT !.break = 1, !.timeout = 1, !.secrets = 2, !.patience = 2]]
\* the control connection is lost and made again
Links == [Running EXCEPT !.left = [Nil EXCEPT !.link = 2, !.ask = 1, !.timeout = 1]]
\* the runner restarts under the guest
Restarts == [Running EXCEPT !.left = [Nil EXCEPT !.restart = 2, !.link = 1, !.break = 1]]
\* a cold suspend and a resume, with requests of both boots in flight
Resumes == [Running EXCEPT !.left = [Nil EXCEPT !.suspend = 1, !.ask = 2, !.break = 1]]
\* a resume whose token is asked for twice
Tokens == [Running EXCEPT !.left = [Nil EXCEPT !.suspend = 1, !.timeout = 2, !.break = 1]]
\* a session that was reconnected before it was suspended
Epochs == [Running EXCEPT !.left = [Nil EXCEPT !.suspend = 1, !.break = 2, !.link = 1]]
\* the environment is edited under the guest
Edits == [Running EXCEPT !.left = [Nil EXCEPT !.edit = 1, !.break = 1, !.suspend = 1]]

MCSetups == {Boots, Drops, Slow, Refusals, Links, Restarts, Resumes, Tokens, Epochs, Edits}
=============================================================================
