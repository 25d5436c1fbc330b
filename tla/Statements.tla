----------------------------- MODULE Statements -----------------------------
(***************************************************************************)
(* The statements of fetch, complete, fail, maintain and delete_queue, run *)
(* row by row under READ COMMITTED.                                        *)
(*                                                                         *)
(* A statement selects rows from a snapshot, then visits them: a row that  *)
(* another transaction has changed makes it wait for the end of that       *)
(* transaction (fetch skips it) and look at the WHERE clause again.  Boss  *)
(* takes each of these functions for one step; here is what happens when   *)
(* the steps of several calls mix, including waiting for each other.       *)
(*                                                                         *)
(* A call is a transaction of its own, as in the Go client, the worker and *)
(* dsltest.  fetch visits rows in its ORDER BY, the others in any order.   *)
(* boss.send appears as one step (what can happen inside it is in Boss).   *)
(***************************************************************************)
EXTENDS JobRows, FiniteSets

CONSTANTS JobIds,     \* the uuids gen_random_uuid can draw
          Sessions,   \* database sessions
          NewRows,    \* rows boss.send may insert, but for their times
          BatchSizes, \* batch sizes passed to fetch
          MaxClock,   \* bound on time
          MaxCalls    \* bound on the calls of fetch, complete, fail, maintain, delete_queue

ASSUME KeyAssumption ==
  /\ NULL \notin Int /\ NULL \notin JobRow /\ JobIds \subseteq Int
  /\ NULL \notin JobIds \cup Queues /\ JobIds \cap Queues = {}

ASSUME NewRowAssumption ==
  \A r \in NewRows : r \in JobRow /\ r.state = "created" /\ r.retry_count = 0

ASSUME BoundAssumption ==
  /\ BatchSizes \subseteq Nat /\ MaxClock \in Nat /\ MaxCalls \in Nat
  /\ IsFiniteSet(JobIds)

VARIABLES clock,
          open,       \* the queues that exist, as committed
          job,        \* boss.job, as committed
          issued,     \* uuids drawn so far
          deliveries, \* history: how often a fetch has returned each job
          calls,      \* calls so far
          stmt,       \* per session, the statement it runs, NULL if none
          now,        \* per session, now() of its transaction
          todo,       \* per session, selected rows not yet visited
          want,       \* per session, the row whose lock it waits for, or NULL
          mine,       \* per session, the rows it has changed, as it sees them
          clear       \* history: per fetch, the rows it selected that were due and
                      \* that no other session has held since

session == <<stmt, now, todo, want, mine, clear>>
vars    == <<clock, open, job, issued, deliveries, calls, session>>

\* The statements; "purge" and "cascade" are the second ones of maintain and of
\* delete_queue.  Queue, job and batch size are NULL where they do not apply.
Stmt(fn, q, j, n) == [fn |-> fn, queue |-> q, job |-> j, size |-> n]

Calls ==
  {Stmt("fetch", q, NULL, n) : q \in Queues, n \in BatchSizes}
  \cup {Stmt(fn, q, j, NULL) : fn \in {"complete", "fail"}, q \in Queues, j \in JobIds}
  \cup {Stmt("maintain", NULL, NULL, NULL)}
  \cup {Stmt("delete", q, NULL, NULL) : q \in Queues}

Stmts ==
  Calls \cup {Stmt("purge", NULL, NULL, NULL)}
        \cup {Stmt("cascade", q, NULL, NULL) : q \in Queues}

ASSUME StmtAssumption == NULL \notin Stmts

Lockable == JobIds \cup Queues

TypeOK ==
  /\ clock \in 0 .. MaxClock
  /\ open \subseteq Queues
  /\ job \in [JobIds -> JobRow \cup {NULL}]
  /\ issued \subseteq JobIds
  /\ deliveries \in [JobIds -> Nat]
  /\ calls \in 0 .. MaxCalls
  /\ stmt \in [Sessions -> Stmts \cup {NULL}]
  /\ now \in [Sessions -> 0 .. MaxClock]
  /\ todo \in [Sessions -> SUBSET Lockable]
  /\ want \in [Sessions -> Lockable \cup {NULL}]
  /\ mine = [s \in Sessions |-> mine[s]]
  /\ \A s \in Sessions :
       /\ DOMAIN mine[s] \subseteq Lockable
       /\ mine[s] \in [DOMAIN mine[s] -> JobRow \cup {NULL}]
       /\ stmt[s] = NULL => todo[s] = {} /\ want[s] = NULL /\ DOMAIN mine[s] = {}
  /\ clear \in [Sessions -> SUBSET JobIds]

Init ==
  /\ clock = 0
  /\ open = {}
  /\ job = [j \in JobIds |-> NULL]
  /\ issued = {}
  /\ deliveries = [j \in JobIds |-> 0]
  /\ calls = 0
  /\ stmt = [s \in Sessions |-> NULL]
  /\ now = [s \in Sessions |-> 0]
  /\ todo = [s \in Sessions |-> {}]
  /\ want = [s \in Sessions |-> NULL]
  /\ mine = [s \in Sessions |-> << >>]
  /\ clear = [s \in Sessions |-> {}]

-----------------------------------------------------------------------------
(***************************************************************************)
(* What the statements say.                                                *)
(***************************************************************************)

\* The WHERE clause of statement c, at time t, on row r of the table job.
Selects(c, t, j, r) ==
  /\ r # NULL
  /\ \/ c.fn = "fetch" /\ r.name = c.queue /\ r.state \in Waiting /\ r.start_after <= t
     \/ c.fn \in {"complete", "fail"} /\ j = c.job /\ r.name = c.queue /\ r.state = "active"
     \/ c.fn = "maintain" /\ Overdue(r, t)
     \/ c.fn = "purge" /\ Expendable(r, t)
     \/ c.fn = "cascade" /\ r.name = c.queue

\* What it makes of such a row.  fail tests and writes the row it has locked.
Changed(c, t, r) ==
  CASE c.fn = "fetch"    -> Started(r, t)
    [] c.fn = "complete" -> Completed(r, t)
    [] c.fn = "fail"     -> Unfinished(r, t)
    [] c.fn = "maintain" -> Expired(r, t)
    [] c.fn \in {"purge", "cascade"} -> NULL

Rows == {j \in JobIds : job[j] # NULL}

\* A row as session s sees it.
Version(s, j) == IF j \in DOMAIN mine[s] THEN mine[s][j] ELSE job[j]

Selected(s, c, t) == {j \in JobIds : Selects(c, t, j, Version(s, j))}

Better_LowestFirst(i, j) ==
  \/ job[i].priority < job[j].priority
  \/ /\ job[i].priority = job[j].priority
     /\ \/ job[i].created_on < job[j].created_on
        \/ job[i].created_on = job[j].created_on /\ i < j

\* ORDER BY priority DESC, created_on, id
Better(i, j) ==
  \/ job[i].priority > job[j].priority
  \/ /\ job[i].priority = job[j].priority
     /\ \/ job[i].created_on < job[j].created_on
        \/ job[i].created_on = job[j].created_on /\ i < j

\* Row j comes next of those fetch has still to visit.  (Nothing writes the columns
\* of the order; when a row that is gone is passed over makes no difference.)
Turn(s, j) ==
  stmt[s].fn = "fetch" /\ j \in Rows =>
    \A i \in (todo[s] \cap Rows) \ {j} : Better(j, i)

-----------------------------------------------------------------------------
(***************************************************************************)
(* Locks.                                                                  *)
(***************************************************************************)

Holds(s, x) == x \in DOMAIN mine[s]

HeldByOther(s, x) == \E t \in Sessions \ {s} : Holds(t, x)

\* s waits in a circle.
Deadlocked(s) ==
  \E C \in SUBSET Sessions :
    /\ s \in C
    /\ \A t \in C : /\ want[t] # NULL /\ \E u \in C : Holds(u, want[t])
                    /\ \E u \in C : want[u] # NULL /\ Holds(t, want[u])

-----------------------------------------------------------------------------
(***************************************************************************)
(* One call, step by step.                                                 *)
(***************************************************************************)

\* The first statement takes its snapshot.  DELETE FROM boss.queue selects a row
\* of that table.
Call(s, c) ==
  /\ stmt[s] = NULL
  /\ calls < MaxCalls /\ calls' = calls + 1
  /\ stmt' = [stmt EXCEPT ![s] = c]
  /\ now' = [now EXCEPT ![s] = clock]
  /\ todo' = [todo EXCEPT ![s] = IF c.fn = "delete" THEN {c.queue} \cap open
                                 ELSE Selected(s, c, clock)]
  /\ clear' = [clear EXCEPT ![s] =
       IF c.fn = "fetch" THEN {j \in Selected(s, c, clock) : ~HeldByOther(s, j)} ELSE {}]
  /\ UNCHANGED <<clock, open, job, issued, deliveries, want, mine>>

StillSelects_AsInSnapshot(s, j) == job[j] # NULL

\* The WHERE clause, looked at again with the row locked: it may have changed
\* since the snapshot.
StillSelects(s, j) == Selects(stmt[s], now[s], j, Version(s, j))

Skips_Never(s) == FALSE

\* FOR UPDATE SKIP LOCKED
Skips(s) == stmt[s].fn = "fetch"

Full(s) == stmt[s].fn = "fetch" /\ Cardinality(DOMAIN mine[s]) >= stmt[s].size

With(f, x, v) == [y \in DOMAIN f \cup {x} |-> IF y = x THEN v ELSE f[y]]

Visited(s, x) ==
  /\ todo' = [todo EXCEPT ![s] = @ \ {x}]
  /\ want' = [want EXCEPT ![s] = NULL]
  /\ UNCHANGED <<clock, open, job, issued, deliveries, calls, stmt, now>>

ChangeRow(s, j) ==
  /\ j \in todo[s] \cap JobIds /\ Turn(s, j)
  /\ want[s] \in {NULL, j}
  /\ ~HeldByOther(s, j) /\ ~Full(s)
  /\ StillSelects(s, j)
  /\ mine' = [mine EXCEPT ![s] = With(@, j, Changed(stmt[s], now[s], Version(s, j)))]
  /\ clear' = [t \in Sessions |-> IF t = s THEN clear[t] ELSE clear[t] \ {j}]
  /\ Visited(s, j)

DeleteQueueRow(s, q) ==
  /\ q \in todo[s] \cap Queues
  /\ want[s] \in {NULL, q}
  /\ ~HeldByOther(s, q) /\ q \in open
  /\ mine' = [mine EXCEPT ![s] = With(@, q, NULL)]
  /\ Visited(s, q)
  /\ UNCHANGED clear

\* The row does not match any more, or is gone; LIMIT; SKIP LOCKED.
PassOver(s, x) ==
  /\ x \in todo[s] /\ Turn(s, x)
  /\ want[s] \in {NULL, x}
  /\ \/ ~HeldByOther(s, x) /\ x \in JobIds /\ ~StillSelects(s, x)
     \/ ~HeldByOther(s, x) /\ x \in Queues \ open
     \/ Full(s)
     \/ HeldByOther(s, x) /\ Skips(s)
  /\ Visited(s, x)
  /\ UNCHANGED <<mine, clear>>

Wait(s, x) ==
  /\ x \in todo[s]
  /\ want[s] = NULL
  /\ HeldByOther(s, x) /\ ~Skips(s)
  /\ want' = [want EXCEPT ![s] = x]
  /\ UNCHANGED <<clock, open, job, issued, deliveries, calls, stmt, now, todo, mine, clear>>

\* The second statement of maintain; the foreign key's DELETE of delete_queue, if
\* it deleted a queue.  Each takes a snapshot of its own.
Follows(s) ==
  CASE stmt[s].fn = "maintain" -> {Stmt("purge", NULL, NULL, NULL)}
    [] stmt[s].fn = "delete" /\ DOMAIN mine[s] # {} ->
         {Stmt("cascade", stmt[s].queue, NULL, NULL)}
    [] OTHER -> {}

NextStatement(s) ==
  /\ stmt[s] # NULL /\ todo[s] = {}
  /\ \E c \in Follows(s) :
       /\ stmt' = [stmt EXCEPT ![s] = c]
       /\ todo' = [todo EXCEPT ![s] = Selected(s, c, now[s])]
  /\ UNCHANGED <<clock, open, job, issued, deliveries, calls, now, want, mine, clear>>

\* The transaction is over, its locks go.
End(s) ==
  /\ stmt' = [stmt EXCEPT ![s] = NULL]
  /\ todo' = [todo EXCEPT ![s] = {}]
  /\ want' = [want EXCEPT ![s] = NULL]
  /\ mine' = [mine EXCEPT ![s] = << >>]
  /\ clear' = [clear EXCEPT ![s] = {}]
  /\ UNCHANGED <<clock, issued, calls, now>>

Commit(s) ==
  /\ stmt[s] # NULL /\ todo[s] = {} /\ Follows(s) = {}
  /\ job' = [j \in JobIds |-> Version(s, j)]
  /\ open' = open \ DOMAIN mine[s]
  /\ deliveries' = [j \in JobIds |->
       IF stmt[s].fn = "fetch" /\ Holds(s, j) THEN deliveries[j] + 1 ELSE deliveries[j]]
  /\ End(s)

Abort(s) == End(s) /\ UNCHANGED <<open, job, deliveries>>

\* The server picks a session of a deadlock and makes its call fail.
DeadlockDetected(s) == stmt[s] # NULL /\ Deadlocked(s) /\ Abort(s)

\* The connection is lost before COMMIT.
Disconnect(s) == stmt[s] # NULL /\ Abort(s)

-----------------------------------------------------------------------------
QueueUsable_Unlocked(q) == q \in open

\* The foreign key of the INSERT takes a lock on the queue row, for which it has
\* to wait while delete_queue holds it.
QueueUsable(q) == q \in open /\ \A s \in Sessions : ~Holds(s, q)

Send(q, r) ==
  /\ QueueUsable(q)
  /\ \E j \in JobIds \ issued :
       /\ issued' = issued \cup {j}
       /\ job' = [job EXCEPT ![j] =
            [r EXCEPT !.name = q, !.created_on = clock, !.start_after = clock + @,
                      !.keep_until = clock + @]]
  /\ UNCHANGED <<clock, open, deliveries, calls, session>>

\* A new row.  Whoever has selected one of that name before finds it gone.
CreateQueue(q) ==
  /\ q \notin open
  /\ open' = open \cup {q}
  /\ todo' = [s \in Sessions |-> todo[s] \ {q}]
  /\ want' = [s \in Sessions |-> IF want[s] = q THEN NULL ELSE want[s]]
  /\ UNCHANGED <<clock, job, issued, deliveries, calls, stmt, now, mine, clear>>

Tick ==
  /\ clock < MaxClock
  /\ clock' = clock + 1
  /\ UNCHANGED <<open, job, issued, deliveries, calls, session>>

\* What a session does of itself once it has made a call.
Proceed(s) ==
  \/ \E j \in JobIds : ChangeRow(s, j)
  \/ \E q \in Queues : DeleteQueueRow(s, q)
  \/ \E x \in Lockable : PassOver(s, x) \/ Wait(s, x)
  \/ NextStatement(s)
  \/ Commit(s)
  \/ DeadlockDetected(s)

Next ==
  \/ \E s \in Sessions :
       \/ \E c \in Calls : Call(s, c)
       \/ Proceed(s)
       \/ Disconnect(s)
  \/ \E q \in Queues : CreateQueue(q)
  \/ \E q \in Queues, r \in NewRows : Send(q, r)
  \/ Tick

Spec == Init /\ [][Next]_vars

-----------------------------------------------------------------------------
(***************************************************************************)
(* Properties.                                                             *)
(***************************************************************************)

\* However complete, fail and maintain of one delivery overlap, exactly one of
\* them ends it: each delivery is either still going on or counted once, in
\* retry_count or as the last one of a finished job.
OneEndPerDelivery ==
  \A j \in Rows :
    deliveries[j] = job[j].retry_count + (IF job[j].state \in Waiting THEN 0 ELSE 1)

\* A job is never left without its queue by a send that overlaps delete_queue.
QueueOutlivesJobs == \A j \in Rows : job[j].name \in open

\* Job i is more urgent than job j, or as urgent and older.
Outranks(i, j) ==
  \/ job[i].priority > job[j].priority
  \/ job[i].priority = job[j].priority /\ job[i].created_on < job[j].created_on

\* A fetch hands out the best of the jobs that are due and that nobody else touches
\* while it runs, whatever it has to skip meanwhile and whatever is released behind
\* it: it never takes a job and leaves out such a one that outranks it, and it leaves
\* one out only when its batch is full.
BestFirst ==
  \A s \in Sessions : \A i \in clear[s] \ DOMAIN mine[s] :
    /\ \A j \in DOMAIN mine[s] : ~Outranks(i, j)
    /\ i \in todo[s] \/ Cardinality(DOMAIN mine[s]) >= stmt[s].size

\* Of two calls that wait for each other the server makes one fail.  That is never a
\* fetch, a complete or a fail: only boss.maintain, which the worker runs again, and
\* the cascade of delete_queue hold one row while they wait for another.
OnlySweepsDeadlock ==
  \A s \in Sessions :
    stmt[s] # NULL /\ Deadlocked(s) => stmt[s].fn \in {"maintain", "purge", "cascade"}

task ==
  [j \in JobIds |->
     IF j \notin issued THEN NoTask("none", 0)
     ELSE IF job[j] = NULL THEN NoTask("gone", deliveries[j])
     ELSE RowTask(job[j], deliveries[j])]

Lifecycle ==
  INSTANCE JobLifecycle WITH
    Ids <- JobIds, Homes <- Queues, Limits <- Nat, NULL <- NULL, task <- task

\* Row by row, too, the calls do to a job only what JobLifecycle allows.
CallsImplementLifecycle == Lifecycle!Spec

=============================================================================
