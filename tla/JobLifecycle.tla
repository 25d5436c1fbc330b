---------------------------- MODULE JobLifecycle ----------------------------
(***************************************************************************)
(* What taskboss promises about a job, without transactions, locks, clocks *)
(* or retry counters.  A job is enqueued, handed to one holder at a time,  *)
(* and finished or given up; it is put back as long as it has been handed  *)
(* out at most limit times, and never afterwards.  An identifier is used   *)
(* once.  A step may move several jobs, each in the way the step allows.   *)
(***************************************************************************)
EXTENDS Integers

CONSTANTS Ids,     \* job identifiers
          Homes,   \* queues
          Limits,  \* retry limits
          NULL     \* the queue or the limit of a job that is not there

VARIABLE task

\* boss.job_state declares "cancelled" and boss.maintain removes such jobs; no
\* function of the schema sets it.
Status == {"none", "waiting", "active", "completed", "failed", "cancelled", "gone"}

Task == [status : Status, home : Homes \cup {NULL}, attempts : Nat, limit : Limits \cup {NULL}]

NoTask(status, n) == [status |-> status, home |-> NULL, attempts |-> n, limit |-> NULL]

TypeOK == task \in [Ids -> Task]

-----------------------------------------------------------------------------
Init == task = [i \in Ids |-> NoTask("none", 0)]

Stays(i) == task'[i] = task[i]

Vanishes(i) == task'[i] = NoTask("gone", task[i].attempts)

Moves(i, status) == task'[i] = [task[i] EXCEPT !.status = status]

Exhausted(i) == task[i].attempts > task[i].limit

\* The jobs of one transaction become available together.
Enqueue ==
  \A i \in Ids :
    \/ Stays(i)
    \/ /\ task[i].status = "none"
       /\ task'[i].status = "waiting" /\ task'[i].attempts = 0
       /\ task'[i].home \in Homes /\ task'[i].limit \in Limits

\* The transaction that was to enqueue them fails.
Abandon == \A i \in Ids : Stays(i) \/ (task[i].status = "none" /\ Vanishes(i))

Claim(h) ==
  \A i \in Ids :
    \/ Stays(i)
    \/ /\ task[i].status = "waiting" /\ task[i].home = h
       /\ task'[i] = [status |-> "active", home |-> h,
                       attempts |-> task[i].attempts + 1, limit |-> task[i].limit]

Finish(i) ==
  /\ task[i].status = "active" /\ Moves(i, "completed")
  /\ \A k \in Ids \ {i} : Stays(k)

\* Attempts that are not going to be finished end: the job is put back if it
\* has an attempt left and is given up otherwise; old jobs are removed.
Sweep ==
  \A i \in Ids :
    \/ Stays(i)
    \/ task[i].status = "active" /\ ~Exhausted(i) /\ Moves(i, "waiting")
    \/ task[i].status = "active" /\ Exhausted(i) /\ (Moves(i, "failed") \/ Vanishes(i))
    \/ task[i].status \in {"completed", "failed", "cancelled"} /\ Vanishes(i)

\* A queue goes with its jobs.
Drop(h) == \A i \in Ids : IF task[i].home = h THEN Vanishes(i) ELSE Stays(i)

Next ==
  /\ task' \in [Ids -> Task]
  /\ \/ Enqueue
     \/ Abandon
     \/ \E h \in Homes : Claim(h) \/ Drop(h)
     \/ \E i \in Ids : Finish(i)
     \/ Sweep

Spec == Init /\ [][Next]_task

=============================================================================
