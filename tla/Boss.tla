-------------------------------- MODULE Boss --------------------------------
(***************************************************************************)
(* The SQL side of taskboss: the tables boss.queue and boss.job and the    *)
(* functions boss.create_queue, delete_queue, send, fetch, complete, fail  *)
(* and maintain, run by concurrent PostgreSQL transactions.                *)
(*                                                                         *)
(* A session opens a transaction (Begin), which fixes now() for all of it, *)
(* runs functions in it and ends it (Commit, Rollback).  A function that a *)
(* transaction of another session can interleave with is split at that     *)
(* point: send between its SELECT on boss.queue and its INSERT, fetch      *)
(* between two rows it locks, both before the COMMIT.  The functions that  *)
(* are decided by the row locks of one statement (complete, fail,          *)
(* maintain) are one step that includes the COMMIT.                        *)
(***************************************************************************)
EXTENDS JobRows, FiniteSets

CONSTANTS JobIds,       \* the uuids gen_random_uuid can draw
          Sessions,     \* database sessions
          QueueOptions, \* option objects passed to create_queue
          SendOptions,  \* option objects passed to send
          BatchSizes,   \* batch sizes passed to fetch
          MaxClock      \* bound on time

VARIABLES clock,        \* wall clock, in seconds
          queue,        \* boss.queue, by primary key
          job,          \* boss.job, by primary key
          issued,       \* uuids drawn so far
          notes,        \* NOTIFYs committed on the channel of each queue
          began,        \* now() of each open transaction, NULL if none is open
          draft,        \* per session, the row variable q of a running boss.send
          hidden,       \* per session, rows inserted and not yet committed
          claim,        \* per session, rows a running boss.fetch has locked
          deliveries    \* history: how often a fetch has returned each job

tables == <<queue, job, issued, notes, deliveries>>
vars == <<clock, queue, job, issued, notes, began, draft, hidden, claim, deliveries>>

-----------------------------------------------------------------------------
(***************************************************************************)
(* Types.                                                                  *)
(***************************************************************************)

\* startAfter is absent, a number of seconds from now (rel) or a time stamp.
SendOption ==
  [priority : Int \cup {NULL}, retryLimit : Int \cup {NULL}, retryDelay : Int \cup {NULL},
   expireInSeconds : Int \cup {NULL}, startAfter : [rel : BOOLEAN, value : Int] \cup {NULL}]

Draft == [name : Queues, defaults : QueueRow]

ASSUME NullAssumption ==
  /\ NULL \notin Int
  /\ NULL \notin Queues
  /\ NULL \notin QueueRow
  /\ NULL \notin JobRow
  /\ NULL \notin Draft

ASSUME OptionAssumption ==
  /\ QueueOptions \subseteq QueueRow
  /\ SendOptions \subseteq SendOption

ASSUME BoundAssumption ==
  /\ JobIds \subseteq Nat /\ IsFiniteSet(JobIds)
  /\ BatchSizes \subseteq Nat
  /\ MaxClock \in Nat

TypeOK ==
  /\ clock \in Nat
  /\ queue \in [Queues -> QueueRow \cup {NULL}]
  /\ job \in [JobIds -> JobRow \cup {NULL}]
  /\ issued \subseteq JobIds
  /\ notes \in [Queues -> Nat]
  /\ began \in [Sessions -> Int \cup {NULL}]
  /\ draft \in [Sessions -> Draft \cup {NULL}]
  /\ hidden \in [Sessions -> SUBSET JobIds]
  /\ claim \in [Sessions -> SUBSET JobIds]
  /\ deliveries \in [JobIds -> Nat]

-----------------------------------------------------------------------------
(***************************************************************************)
(* Rows, locks and visibility.                                             *)
(***************************************************************************)

Rows     == {j \in JobIds : job[j] # NULL}
Hidden   == UNION {hidden[s] : s \in Sessions}
Locked   == UNION {claim[s] : s \in Sessions}
IsIn(S)  == {j \in Rows : job[j].state \in S}

\* A transaction that has run no statement yet.
Fresh(s) == began[s] # NULL /\ draft[s] = NULL /\ hidden[s] = {} /\ claim[s] = {}

Ready_CreatedOnly(q, now) ==
  {j \in IsIn({"created"}) \ Hidden : job[j].name = q /\ job[j].start_after <= now}

Ready_Undated(q, now) == {j \in IsIn(Waiting) \ Hidden : job[j].name = q}

\* The rows the WHERE clause of boss.fetch selects at time now.
Ready(q, now) ==
  {j \in IsIn(Waiting) \ Hidden : job[j].name = q /\ job[j].start_after <= now}

Claimable_NoRowLocks(q, now) == Ready(q, now)

\* FOR UPDATE SKIP LOCKED: rows locked by another session are passed over.
Claimable(q, now) == Ready(q, now) \ Locked

Matches_AnyState(q, j) == job[j] # NULL /\ job[j].name = q

\* The row complete and fail act on: WHERE name = $1 AND id = $2 AND state = 'active'.
Matches(q, j) == job[j] # NULL /\ job[j].name = q /\ job[j].state = "active"

Coalesce_NoDefault(v, default) == v

Coalesce(v, default) == IF v = NULL THEN default ELSE v

StartAfter(opt, now) ==
  IF opt = NULL THEN now ELSE IF opt.rel THEN now + opt.value ELSE opt.value

NewJob(q, d, o, now) ==
  [name           |-> q,
   priority       |-> Coalesce(o.priority, 0),
   state          |-> "created",
   retry_limit    |-> Coalesce(o.retryLimit, d.retry_limit),
   retry_count    |-> 0,
   retry_delay    |-> Coalesce(o.retryDelay, d.retry_delay),
   expire_seconds |-> Coalesce(o.expireInSeconds, d.expire_seconds),
   start_after    |-> StartAfter(o.startAfter, now),
   created_on     |-> now,
   started_on     |-> NULL,
   completed_on   |-> NULL,
   keep_until     |-> now + d.retention_seconds]

-----------------------------------------------------------------------------
(***************************************************************************)
(* Transactions.                                                           *)
(***************************************************************************)

Init ==
  /\ clock = 0
  /\ queue = [q \in Queues |-> NULL]
  /\ job = [j \in JobIds |-> NULL]
  /\ issued = {}
  /\ notes = [q \in Queues |-> 0]
  /\ began = [s \in Sessions |-> NULL]
  /\ draft = [s \in Sessions |-> NULL]
  /\ hidden = [s \in Sessions |-> {}]
  /\ claim = [s \in Sessions |-> {}]
  /\ deliveries = [j \in JobIds |-> 0]

Begin(s) ==
  /\ began[s] = NULL
  /\ began' = [began EXCEPT ![s] = clock]
  /\ UNCHANGED <<clock, tables, draft, hidden, claim>>

\* The transaction is over: its snapshot, its row locks and its variables go.
End(s) ==
  /\ began' = [began EXCEPT ![s] = NULL]
  /\ draft' = [draft EXCEPT ![s] = NULL]
  /\ hidden' = [hidden EXCEPT ![s] = {}]
  /\ claim' = [claim EXCEPT ![s] = {}]

Announced_Never(s, q) == {}

\* The rows of queue q whose pg_notify the transaction has pending.
Announced(s, q) == {j \in hidden[s] : job[j].name = q}

\* COMMIT: inserted rows become visible and their NOTIFYs are delivered; locked
\* rows are released as active and have been returned to the caller of fetch.
Commit(s) ==
  /\ began[s] # NULL
  /\ draft[s] = NULL
  /\ job' = [j \in JobIds |-> IF j \in claim[s] THEN Started(job[j], began[s]) ELSE job[j]]
  /\ deliveries' = [j \in JobIds |->
               IF j \in claim[s] THEN deliveries[j] + 1 ELSE deliveries[j]]
  /\ notes' = [q \in Queues |-> notes[q] + Cardinality(Announced(s, q))]
  /\ End(s)
  /\ UNCHANGED <<clock, queue, issued>>

\* Any error inside a function, a ROLLBACK by the caller, or the loss of the
\* connection before COMMIT.
Rollback(s) ==
  /\ began[s] # NULL
  /\ job' = [j \in JobIds |-> IF j \in hidden[s] THEN NULL ELSE job[j]]
  /\ End(s)
  /\ UNCHANGED <<clock, queue, issued, notes, deliveries>>

-----------------------------------------------------------------------------
(***************************************************************************)
(* The functions of the schema boss.                                       *)
(***************************************************************************)

\* INSERT ... ON CONFLICT DO NOTHING: an existing queue keeps its row.
CreateQueue(q, o) ==
  /\ queue[q] = NULL
  /\ queue' = [queue EXCEPT ![q] = o]
  /\ UNCHANGED <<clock, job, issued, notes, began, draft, hidden, claim, deliveries>>

\* DELETE waits for the foreign-key lock of uncommitted inserts on the queue row
\* and, through ON DELETE CASCADE, for the row locks of running fetches.
DeleteQueue(q) ==
  /\ queue[q] # NULL
  /\ \A j \in Hidden \cup Locked : job[j].name # q
  /\ queue' = [queue EXCEPT ![q] = NULL]
  /\ job' = [j \in JobIds |->
               IF j \in Rows /\ job[j].name = q THEN NULL ELSE job[j]]
  /\ UNCHANGED <<clock, issued, notes, began, draft, hidden, claim, deliveries>>

\* boss.send, SELECT * INTO q; a missing queue raises an error (Rollback).
SendRead(s, q) ==
  /\ began[s] # NULL
  /\ draft[s] = NULL
  /\ claim[s] = {}
  /\ queue[q] # NULL
  /\ draft' = [draft EXCEPT ![s] = [name |-> q, defaults |-> queue[q]]]
  /\ UNCHANGED <<clock, tables, began, hidden, claim>>

ForeignKeyHolds_Unchecked(q) == TRUE

\* name text REFERENCES boss.queue(name)
ForeignKeyHolds(q) == queue[q] # NULL

\* boss.send, INSERT and pg_notify.  The foreign key is checked against the
\* queue row that exists now, the defaults are those read before.
SendInsert(s, o) ==
  /\ draft[s] # NULL
  /\ ForeignKeyHolds(draft[s].name)
  /\ \E j \in JobIds \ issued :
       /\ issued' = issued \cup {j}
       /\ job' = [job EXCEPT ![j] = NewJob(draft[s].name, draft[s].defaults, o, began[s])]
       /\ hidden' = [hidden EXCEPT ![s] = @ \cup {j}]
  /\ draft' = [draft EXCEPT ![s] = NULL]
  /\ UNCHANGED <<clock, queue, notes, began, claim, deliveries>>

\* boss.fetch locks one more row, of at most n and all of one queue.  Commit may
\* follow after any number of them.  Statements has the order and says when it stops.
FetchLock(s, q, n) ==
  /\ began[s] # NULL /\ draft[s] = NULL /\ hidden[s] = {}
  /\ Cardinality(claim[s]) < n /\ \A i \in claim[s] : job[i].name = q
  /\ \E j \in Claimable(q, began[s]) : claim' = [claim EXCEPT ![s] = @ \cup {j}]
  /\ UNCHANGED <<clock, tables, began, draft, hidden>>

Complete(s, q, j) ==
  /\ Fresh(s)
  /\ Matches(q, j)
  /\ job' = [job EXCEPT ![j] = Completed(@, began[s])]
  /\ End(s)
  /\ UNCHANGED <<clock, queue, issued, notes, deliveries>>

Fail(s, q, j) ==
  /\ Fresh(s)
  /\ Matches(q, j)
  /\ job' = [job EXCEPT ![j] = Unfinished(@, began[s])]
  /\ notes' = IF job[j].retry_count < job[j].retry_limit
              THEN [notes EXCEPT ![q] = @ + 1] ELSE notes
  /\ End(s)
  /\ UNCHANGED <<clock, queue, issued, deliveries>>

OverdueAt(now) == {j \in Rows : Overdue(job[j], now)}

ExpiredAt(j, now) == IF j \in OverdueAt(now) THEN Expired(job[j], now) ELSE job[j]

\* What boss.maintain leaves of row j: the DELETE sees what the UPDATE did.
Maintained(j, now) ==
  IF j \in Rows /\ Expendable(ExpiredAt(j, now), now) THEN NULL ELSE ExpiredAt(j, now)

Maintain(s) ==
  /\ Fresh(s)
  /\ job' = [j \in JobIds |-> Maintained(j, began[s])]
  /\ End(s)
  /\ UNCHANGED <<clock, queue, issued, notes, deliveries>>

Tick ==
  /\ clock < MaxClock
  /\ clock' = clock + 1
  /\ UNCHANGED <<tables, began, draft, hidden, claim>>

-----------------------------------------------------------------------------
SessionStep(s) ==
  \/ Begin(s)
  \/ Commit(s)
  \/ Rollback(s)
  \/ \E q \in Queues : SendRead(s, q)
  \/ \E o \in SendOptions : SendInsert(s, o)
  \/ \E q \in Queues, n \in BatchSizes : FetchLock(s, q, n)
  \/ \E q \in Queues, j \in JobIds : Complete(s, q, j)
  \/ \E q \in Queues, j \in JobIds : Fail(s, q, j)
  \/ Maintain(s)

Next ==
  \/ \E s \in Sessions : SessionStep(s)
  \/ \E q \in Queues, o \in QueueOptions : CreateQueue(q, o)
  \/ \E q \in Queues : DeleteQueue(q)
  \/ Tick

Spec == Init /\ [][Next]_vars

-----------------------------------------------------------------------------
(***************************************************************************)
(* Safety: invariants.                                                     *)
(***************************************************************************)

\* A row is locked by at most one fetch, and as long as it is locked it stays
\* what the fetch selected: present, waiting, due and visible, whatever
\* complete, fail, maintain and delete_queue do meanwhile (SKIP LOCKED).
RowLocksExclusive ==
  \A s \in Sessions : \A j \in claim[s] :
    /\ began[s] # NULL
    /\ j \in IsIn(Waiting) \ Hidden
    /\ job[j].start_after <= began[s]
    /\ \A t \in Sessions \ {s} : j \notin claim[t]

\* Every job, committed or not, belongs to a queue that exists, although send
\* reads the queue long before it inserts and delete_queue may run in between.
NoOrphans == \A j \in Rows : queue[job[j].name] # NULL

\* retry_count, which only fail and maintain write, accounts for every delivery
\* fetch has ever made of the job: none is uncounted and none counted twice,
\* whoever returns the job and however late.
DeliveryAccounting ==
  \A j \in Rows :
    /\ deliveries[j] = job[j].retry_count + (IF job[j].state \in Waiting THEN 0 ELSE 1)
    /\ job[j].retry_count = 0 \/ job[j].retry_count <= job[j].retry_limit

\* A job is delivered at most retry_limit + 1 times (once if the limit is
\* negative), counting deliveries that ended in fail and in expiry.
DeliveriesBounded ==
  \A j \in Rows :
    deliveries[j] <= 1 + (IF job[j].retry_limit > 0 THEN job[j].retry_limit ELSE 0)

\* The time stamps agree with the state: every active job has the started_on
\* without which maintain could never expire it, every terminal one its
\* completed_on, no waiting one a stamp of an earlier attempt.
StampsMatchState ==
  \A j \in Rows :
    /\ job[j].state \in {"active", "completed"} => job[j].started_on # NULL
    /\ job[j].state \in Waiting \cup {"failed"} => job[j].started_on = NULL
    /\ (job[j].completed_on # NULL) <=> (job[j].state \in Terminal)

\* No job runs before its startAfter or, on a retry, before its retry_delay has
\* passed, although now() of a transaction may be older than the clock.
NotStartedEarly ==
  \A j \in IsIn({"active", "completed"}) :
    job[j].start_after <= job[j].started_on /\ job[j].started_on <= clock

-----------------------------------------------------------------------------
\* What the invariants above rest on: transactions began in the past, a running
\* send has a transaction, uncommitted rows are new and belong to one session,
\* and a uuid that was never drawn has neither row nor history.
SessionInv ==
  \A s \in Sessions :
    /\ began[s] # NULL => began[s] <= clock
    /\ draft[s] # NULL => began[s] # NULL
    /\ \A j \in hidden[s] :
         /\ began[s] # NULL
         /\ j \in IsIn({"created"})
         /\ \A t \in Sessions \ {s} : j \notin hidden[t]

IssuedInv == \A j \in JobIds \ issued : job[j] = NULL /\ deliveries[j] = 0

\* The accounting, the stamps and the start time of one row r, of which d
\* deliveries were made by time t.
RowSound(r, d, t) ==
  /\ d = r.retry_count + (IF r.state \in Waiting THEN 0 ELSE 1)
  /\ r.retry_count = 0 \/ r.retry_count <= r.retry_limit
  /\ r.state \in {"active", "completed"} =>
       /\ r.started_on # NULL
       /\ r.start_after <= r.started_on
       /\ r.started_on <= t
  /\ r.state \in Waiting \cup {"failed"} => r.started_on = NULL
  /\ (r.completed_on # NULL) <=> (r.state \in Terminal)

\* The inductive invariant.
IInv ==
  /\ TypeOK
  /\ SessionInv
  /\ IssuedInv
  /\ RowLocksExclusive
  /\ NoOrphans
  /\ \A j \in Rows : RowSound(job[j], deliveries[j], clock)

-----------------------------------------------------------------------------
(***************************************************************************)
(* Safety: what a step may never do.                                       *)
(***************************************************************************)

\* A finished job never changes again: a late complete, fail or maintain of a
\* consumer that lost the job leaves it as it is, until it is removed.
TerminalIsFinal ==
  [][\A j \in IsIn(Terminal) : job'[j] \in {job[j], NULL}]_vars

\* Rows disappear only with their queue, with the transaction that inserted
\* them, or by maintain when they are past keep_until and finished or, in the
\* same call, given up.
RemovedOnlyWhenDue ==
  [][\A j \in Rows :
       job'[j] = NULL =>
         \/ queue'[job[j].name] = NULL
         \/ j \in Hidden
         \/ /\ job[j].keep_until < clock
            /\ \/ job[j].state \in Terminal
               \/ job[j].state = "active" /\ job[j].retry_count >= job[j].retry_limit]_vars

\* The visible, waiting rows of a queue, due or not, and those a step adds.
Offered(q) == {j \in IsIn(Waiting) \ Hidden : job[j].name = q}
Arrived(q) == Offered(q)' \ Offered(q)

\* NOTIFY is delivered in the very step that makes a row of a queue visible and
\* waiting, due or not yet: one for each job sent, none on rollback, none for a row
\* that did not become so.  (Jobs that maintain puts back are not announced.)
NotifyOnArrival ==
  [][\A q \in Queues :
       /\ Cardinality(Arrived(q) \cap Hidden) <= notes'[q] - notes[q]
       /\ notes'[q] - notes[q] <= Cardinality(Arrived(q))]_vars

=============================================================================
