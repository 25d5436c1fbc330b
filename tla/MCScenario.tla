----------------------------- MODULE MCScenario -----------------------------
(***************************************************************************)
(* Scenario on small instances.                                            *)
(***************************************************************************)
EXTENDS Scenario

CONSTANTS q1, main, t1, t2, v1, v2

\* Jobs are retried once, after a second, and expire after any time at all.
RetryingQueues ==
  {[retry_limit |-> 1, retry_delay |-> 1, expire_seconds |-> 0, retention_seconds |-> 0]}

PlainSends ==
  {[priority |-> NULL, retryLimit |-> NULL, retryDelay |-> NULL,
    expireInSeconds |-> NULL, startAfter |-> NULL]}

NoWait == {NULL}
SomeWait == {NULL, 1}

=============================================================================
