------------------------------- MODULE MCBoss -------------------------------
(***************************************************************************)
(* Boss and its refinement of JobLifecycle, on small instances.            *)
(***************************************************************************)
EXTENDS BossLifecycle, TLC

CONSTANTS q1, s1, s2

Defaults(limit, delay, expire, retention) ==
  [retry_limit |-> limit, retry_delay |-> delay,
   expire_seconds |-> expire, retention_seconds |-> retention]

Options(priority, limit, delay, start) ==
  [priority |-> priority, retryLimit |-> limit, retryDelay |-> delay,
   expireInSeconds |-> NULL, startAfter |-> start]

Plain == Options(NULL, NULL, NULL, NULL)

\* Jobs are retried once, at once, expire after any time at all and are kept for a
\* second.
RetryQueues == {Defaults(1, 0, 0, 1)}

\* They are sent as they are; delayed, at first and on the retry; with a negative
\* limit, which boss.send accepts, and a priority.
MixedSends == {Plain,
               Options(NULL, NULL, 1, [rel |-> TRUE, value |-> 1]),
               Options(1, -1, NULL, NULL)}

SessionSymmetry == Permutations(Sessions)

=============================================================================
