------------------------------- MODULE JobRows -------------------------------
(***************************************************************************)
(* The rows of boss.queue and boss.job, and what the functions of the      *)
(* schema make of one row of boss.job.  The statements, locks and          *)
(* transactions around these changes are in Boss and in Statements.        *)
(***************************************************************************)
EXTENDS Integers

CONSTANTS Queues,  \* queue names
          NULL     \* SQL NULL; also the absence of a row

Waiting  == {"created", "retry"}
Terminal == {"completed", "failed", "cancelled"}
JobState == Waiting \cup {"active"} \cup Terminal

QueueRow ==
  [retry_limit : Int, retry_delay : Int, expire_seconds : Int, retention_seconds : Int]

JobRow ==
  [name : Queues, priority : Int, state : JobState,
   retry_limit : Int, retry_count : Nat, retry_delay : Int, expire_seconds : Int,
   start_after : Int, created_on : Int,
   started_on : Int \cup {NULL}, completed_on : Int \cup {NULL}, keep_until : Int]

Started(r, now) == [r EXCEPT !.state = "active", !.started_on = now]

Completed(r, now) == [r EXCEPT !.state = "completed", !.completed_on = now]

Retried_KeepsStart(r, now) ==
  [r EXCEPT !.state = "retry", !.retry_count = @ + 1, !.start_after = now + r.retry_delay]

Retried_Uncounted(r, now) ==
  [r EXCEPT !.state = "retry", !.start_after = now + r.retry_delay, !.started_on = NULL]

Retried(r, now) ==
  [r EXCEPT !.state = "retry", !.retry_count = @ + 1,
            !.start_after = now + r.retry_delay, !.started_on = NULL]

GivenUp(r, now) ==
  [r EXCEPT !.state = "failed", !.completed_on = now, !.started_on = NULL]

Unfinished_OneMore(r, now) ==
  IF r.retry_count <= r.retry_limit THEN Retried(r, now) ELSE GivenUp(r, now)

\* What boss.fail makes of an active job.
Unfinished(r, now) ==
  IF r.retry_count < r.retry_limit THEN Retried(r, now) ELSE GivenUp(r, now)

Overdue_Swapped(r, now) ==
  r.state = "active" /\ r.started_on # NULL /\ r.started_on - now > r.expire_seconds

\* WHERE of the UPDATE of boss.maintain at time now.
Overdue(r, now) ==
  r.state = "active" /\ r.started_on # NULL /\ now - r.started_on > r.expire_seconds

Expired_NoElse(r, now) ==
  IF r.retry_count < r.retry_limit
  THEN [Retried(r, now) EXCEPT !.completed_on = NULL]
  ELSE [GivenUp(r, now) EXCEPT !.retry_count = NULL]

\* What it makes of such a row.  It writes completed_on in both cases, boss.fail
\* only in the second.
Expired(r, now) ==
  IF r.retry_count < r.retry_limit
  THEN [Retried(r, now) EXCEPT !.completed_on = NULL]
  ELSE GivenUp(r, now)

Expendable_AnyAge(r, now) == r.state \in Terminal

\* WHERE of its DELETE.
Expendable(r, now) == r.state \in Terminal /\ r.keep_until < now

-----------------------------------------------------------------------------
\* A row, delivered n times, as a job of JobLifecycle.
LimitOf(r) == IF r.retry_limit > 0 THEN r.retry_limit ELSE 0

RowTask(r, n) ==
  [status   |-> IF r.state \in Waiting THEN "waiting" ELSE r.state,
   home     |-> r.name,
   attempts |-> n,
   limit    |-> LimitOf(r)]

NoTask(status, n) == [status |-> status, home |-> NULL, attempts |-> n, limit |-> NULL]

=============================================================================
