---------------------------- MODULE MCStatements ----------------------------
(***************************************************************************)
(* Statements on a small instance.                                         *)
(***************************************************************************)
EXTENDS Statements

CONSTANTS q1, s1, s2

\* A job that is retried once, at once, expires after any time at all and may be
\* purged as soon as it is finished and a second has passed; urgent or not.
RetriedOnce ==
  {[name |-> q1, priority |-> p, state |-> "created", retry_limit |-> 1, retry_count |-> 0,
    retry_delay |-> 0, expire_seconds |-> 0, start_after |-> 0, created_on |-> 0,
    started_on |-> NULL, completed_on |-> NULL, keep_until |-> 0] : p \in {0, 1}}

=============================================================================
