------------------------------- MODULE MCWork -------------------------------
(***************************************************************************)
(* Work on small instances: two consumers of one queue.                    *)
(***************************************************************************)
EXTENDS Work

CONSTANTS q1, w1, w2, p1, m1

Defaults(limit, delay, expire) ==
  [retry_limit |-> limit, retry_delay |-> delay,
   expire_seconds |-> expire, retention_seconds |-> 9]

\* Jobs are retried once, at once, and do not expire within the bound.
PromptQueues  == {Defaults(1, 0, 9)}
\* Jobs are retried once, after a second.
DelayedQueues == {Defaults(1, 1, 9)}
\* Jobs are retried once, at once, and expire after any time at all.
ExpiringQueues == {Defaults(1, 0, 0)}

PlainSends ==
  {[priority |-> NULL, retryLimit |-> NULL, retryDelay |-> NULL,
    expireInSeconds |-> NULL, startAfter |-> NULL]}

\* The behaviours in which nobody starts a consumer again.
NoRestart == \A w \in Workers : pc[w] = "stopped" => pc'[w] = "stopped"

NoRestartSpec == WorkInit /\ [][WorkNext /\ NoRestart]_wvars

=============================================================================
