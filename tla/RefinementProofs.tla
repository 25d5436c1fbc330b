-------------------------- MODULE RefinementProofs --------------------------
(***************************************************************************)
(* Boss implements JobLifecycle, for every set of queues, sessions, uuids  *)
(* and options.                                                            *)
(***************************************************************************)
EXTENDS BossLifecycle, BossProofs

(***************************************************************************)
(* The second half of the inductive invariant.                             *)
(***************************************************************************)

LEMMA OnePurposeInit == Init => OnePurpose
BY DEF Init, OnePurpose

\* A step that ends the transaction of s, keeps the rows others have locked and
\* delivers at most what s itself has locked.
LEMMA OnePurposeEnd ==
  ASSUME IInv, OnePurpose, NEW s \in Sessions, End(s),
         \A t \in Sessions \ {s} : \A j \in claim[t] : job'[j].name = job[j].name,
         \A t \in Sessions \ {s} : \A j \in hidden[t] : deliveries'[j] = deliveries[j]
  PROVE  OnePurpose'
<1>1. TypeOK
  BY DEF IInv
<1>2. /\ draft'[s] = NULL /\ hidden'[s] = {} /\ claim'[s] = {}
      /\ \A t \in Sessions \ {s} :
           draft'[t] = draft[t] /\ hidden'[t] = hidden[t] /\ claim'[t] = claim[t]
  BY <1>1, EndEffect
<1>3. ASSUME NEW t \in Sessions, claim'[t] # {}
      PROVE  /\ draft'[t] = NULL /\ hidden'[t] = {}
             /\ \E q \in Queues : \A j \in claim'[t] : job'[j].name = q
  <2>1. t # s /\ claim[t] # {} /\ claim'[t] = claim[t] /\ draft'[t] = draft[t]
        /\ hidden'[t] = hidden[t]
    BY <1>2, <1>3
  <2>2. PICK q \in Queues : \A j \in claim[t] : job[j].name = q
    BY <2>1 DEF OnePurpose
  <2>3. \A j \in claim'[t] : job'[j].name = q
    BY <2>1, <2>2
  <2>. QED BY <2>1, <2>3 DEF OnePurpose
<1>4. ASSUME NEW t \in Sessions, NEW j \in hidden'[t]
      PROVE  deliveries'[j] = 0
  <2>1. t # s /\ j \in hidden[t]
    BY <1>2
  <2>. QED BY <2>1 DEF OnePurpose
<1>. QED BY <1>3, <1>4 DEF OnePurpose

\* A row that is locked or not committed stays as it is, unless its own
\* transaction or its queue ends.
LEMMA OthersKept ==
  ASSUME IInv, NEW s \in Sessions, NEW t \in Sessions \ {s}, NEW j \in hidden[t] \cup claim[t],
         \/ Commit(s) \/ Rollback(s) \/ Maintain(s)
         \/ \E q \in Queues, i \in JobIds : Complete(s, q, i) \/ Fail(s, q, i)
  PROVE  job'[j] = job[j]
<1>1. /\ j \in Rows /\ j \in JobIds /\ job[j].state \in Waiting
      /\ j \notin hidden[s] /\ j \notin claim[s] /\ job[j] # NULL
      /\ job \in [JobIds -> JobRow \cup {NULL}]
  BY DEF IInv, TypeOK, SessionInv, RowLocksExclusive, IsIn, Hidden, Waiting, Rows
<1>2. CASE Commit(s)
  BY <1>1, <1>2 DEF Commit
<1>3. CASE Rollback(s)
  BY <1>1, <1>3 DEF Rollback
<1>4. CASE Maintain(s)
  <2>1. job'[j] = Maintained(j, began[s]) /\ began[s] \in Int
    BY <1>1, <1>4 DEF Maintain, Fresh, IInv, TypeOK
  <2>2. ExpiredAt(j, began[s]) = job[j]
    BY <1>1, <2>1, ExpiredSound DEF Waiting
  <2>. QED BY <1>1, <2>1, <2>2 DEF Maintained, Expendable, Waiting, Terminal
<1>5. CASE \E q \in Queues, i \in JobIds : Complete(s, q, i) \/ Fail(s, q, i)
  <2>1. PICK q \in Queues, i \in JobIds : Complete(s, q, i) \/ Fail(s, q, i)
    BY <1>5
  <2>2. i # j
    BY <1>1, <2>1 DEF Complete, Fail, Matches, Waiting
  <2>. QED BY <1>1, <2>1, <2>2 DEF Complete, Fail
<1>. QED BY <1>2, <1>3, <1>4, <1>5

LEMMA OnePurposeNext ==
  ASSUME IInv, OnePurpose, [Next]_vars
  PROVE  OnePurpose'
<1>1. ASSUME NEW s \in Sessions,
             \/ Commit(s) \/ Rollback(s) \/ Maintain(s)
             \/ \E q \in Queues, i \in JobIds : Complete(s, q, i) \/ Fail(s, q, i)
      PROVE  OnePurpose'
  <2>1. End(s) /\ (UNCHANGED deliveries \/ Commit(s))
    BY <1>1 DEF Commit, Rollback, Maintain, Complete, Fail
  <2>2. ASSUME NEW t \in Sessions \ {s}, NEW j \in hidden[t]
        PROVE  deliveries'[j] = deliveries[j]
    <3>1. j \in JobIds /\ j \notin claim[s]
      BY DEF IInv, TypeOK, RowLocksExclusive, Hidden
    <3>. QED BY <2>1, <3>1 DEF Commit
  <2>3. \A t \in Sessions \ {s} : \A j \in claim[t] : job'[j].name = job[j].name
    BY <1>1, OthersKept
  <2>. QED BY <2>1, <2>2, <2>3, OnePurposeEnd
<1>2. ASSUME NEW s \in Sessions, NEW o \in SendOptions, SendInsert(s, o)
      PROVE  OnePurpose'
  <2>1. PICK i \in JobIds \ issued :
          /\ job' = [job EXCEPT ![i] = NewJob(draft[s].name, draft[s].defaults, o, began[s])]
          /\ hidden' = [hidden EXCEPT ![s] = @ \cup {i}]
    BY <1>2 DEF SendInsert
  <2>2. /\ draft[s] # NULL /\ draft' = [draft EXCEPT ![s] = NULL]
        /\ UNCHANGED <<claim, deliveries>>
    BY <1>2 DEF SendInsert
  <2>3. deliveries[i] = 0 /\ claim[s] = {}
    BY <2>2 DEF IInv, IssuedInv, OnePurpose
  <2>4. \A t \in Sessions : i \notin claim[t]
    BY DEF IInv, IssuedInv, RowLocksExclusive, IsIn, Rows
  <2>5. ASSUME NEW t \in Sessions, claim'[t] # {}
        PROVE  /\ draft'[t] = NULL /\ hidden'[t] = {}
               /\ \E q \in Queues : \A j \in claim'[t] : job'[j].name = q
    <3>1. t # s /\ claim'[t] = claim[t] /\ draft'[t] = draft[t] /\ hidden'[t] = hidden[t]
      BY <2>1, <2>2, <2>3, <2>5 DEF IInv, TypeOK
    <3>2. PICK q \in Queues : \A j \in claim[t] : job[j].name = q
      BY <2>5, <3>1 DEF OnePurpose
    <3>3. \A j \in claim'[t] : job'[j].name = q
      BY <2>1, <2>4, <3>1, <3>2 DEF IInv, TypeOK
    <3>. QED BY <2>5, <3>1, <3>3 DEF OnePurpose
  <2>6. ASSUME NEW t \in Sessions, NEW j \in hidden'[t]
        PROVE  deliveries'[j] = 0
    BY <2>1, <2>2, <2>3 DEF IInv, TypeOK, OnePurpose
  <2>. QED BY <2>5, <2>6 DEF OnePurpose
<1>3. ASSUME NEW s \in Sessions, NEW q \in Queues, SendRead(s, q)
      PROVE  OnePurpose'
  <2>1. /\ claim[s] = {} /\ UNCHANGED <<job, deliveries, hidden, claim>>
        /\ \A t \in Sessions \ {s} : draft'[t] = draft[t]
    BY <1>3 DEF SendRead, tables, IInv, TypeOK
  <2>. QED BY <2>1 DEF OnePurpose
<1>4. ASSUME NEW s \in Sessions, NEW q \in Queues, NEW n \in BatchSizes, FetchLock(s, q, n)
      PROVE  OnePurpose'
  <2>1. /\ UNCHANGED <<job, deliveries, hidden, draft>>
        /\ draft[s] = NULL /\ hidden[s] = {}
    BY <1>4 DEF FetchLock, tables
  <2>2. PICK j \in JobIds : /\ claim' = [claim EXCEPT ![s] = @ \cup {j}]
                            /\ \A i \in claim[s] \cup {j} : job[i].name = q
    BY <1>4, FetchTakes
  <2>. QED BY <2>1, <2>2 DEF OnePurpose, IInv, TypeOK
<1>5. ASSUME NEW q \in Queues, DeleteQueue(q)
      PROVE  OnePurpose'
  <2>1. UNCHANGED <<deliveries, hidden, claim, draft>>
    BY <1>5 DEF DeleteQueue
  <2>2. ASSUME NEW t \in Sessions, NEW j \in claim[t]
        PROVE  job'[j] = job[j]
    BY <1>5 DEF DeleteQueue, Locked, IInv, TypeOK
  <2>. QED BY <2>1, <2>2 DEF OnePurpose
<1>6. CASE UNCHANGED <<job, deliveries, hidden, claim, draft>>
  BY <1>6 DEF OnePurpose
<1>7. ASSUME NEW s \in Sessions, SessionStep(s)
      PROVE  OnePurpose'
  <2>1. CASE Begin(s)
    BY <1>6, <2>1 DEF Begin, tables
  <2>. QED BY <1>1, <1>2, <1>3, <1>4, <1>7, <2>1 DEF SessionStep
<1>8. CASE (\E q \in Queues, o \in QueueOptions : CreateQueue(q, o)) \/ Tick \/ UNCHANGED vars
  BY <1>6, <1>8 DEF CreateQueue, Tick, vars, tables
<1>. QED BY <1>5, <1>7, <1>8 DEF Next

-----------------------------------------------------------------------------
(***************************************************************************)
(* The mapping.                                                            *)
(***************************************************************************)

\* The job that the mapping makes of j, before and after a step.
LEMMA View ==
  ASSUME IInv, IInv', NEW j \in JobIds
  PROVE  /\ j \in Rows => j \in issued
         /\ j \in Rows' => j \in issued'
         /\ job[j] = NULL <=> j \notin Rows
         /\ job'[j] = NULL <=> j \notin Rows'
         /\ j \notin issued \/ j \in Hidden => task[j] = NoTask("none", deliveries[j])
         /\ j \notin issued' \/ j \in Hidden' => task'[j] = NoTask("none", deliveries'[j])
         /\ j \in issued \ Hidden /\ job[j] = NULL => task[j] = NoTask("gone", deliveries[j])
         /\ j \in issued' \ Hidden' /\ job'[j] = NULL => task'[j] = NoTask("gone", deliveries'[j])
         /\ j \in Rows \ Hidden => task[j] = RowTask(job[j], deliveries[j])
         /\ j \in Rows' \ Hidden' => task'[j] = RowTask(job'[j], deliveries'[j])
BY DEF task, IInv, IssuedInv, Rows, NoTask

LEMMA RowTaskType ==
  ASSUME NEW r \in JobRow, NEW n \in Nat
  PROVE  RowTask(r, n) \in Lifecycle!Task
<1>1. LimitOf(r) \in Nat
  BY DEF LimitOf, JobRow
<1>2. r.name \in Queues /\ r.state \in JobState
  BY DEF JobRow
<1>. QED BY <1>1, <1>2
     DEF RowTask, Lifecycle!Task, Lifecycle!Status, JobState, Waiting, Terminal

LEMMA TaskType ==
  ASSUME IInv
  PROVE  task \in [JobIds -> Lifecycle!Task]
<1>1. ASSUME NEW j \in JobIds
      PROVE  task[j] \in Lifecycle!Task
  <2>1. deliveries[j] \in Nat /\ (job[j] # NULL => job[j] \in JobRow)
    BY DEF IInv, TypeOK
  <2>2. \A st \in {"none", "gone"} : NoTask(st, deliveries[j]) \in Lifecycle!Task
    BY <2>1 DEF NoTask, Lifecycle!Task, Lifecycle!Status
  <2>3. job[j] # NULL => RowTask(job[j], deliveries[j]) \in Lifecycle!Task
    BY <2>1, RowTaskType
  <2>. QED BY <2>2, <2>3 DEF task
<1>. QED BY <1>1 DEF task

\* The same, of the state after a step.
LEMMA TaskTypeNext ==
  ASSUME IInv'
  PROVE  task' \in [JobIds -> Lifecycle!Task]
<1>1. ASSUME NEW j \in JobIds
      PROVE  task'[j] \in Lifecycle!Task
  <2>1. deliveries'[j] \in Nat /\ (job'[j] # NULL => job'[j] \in JobRow)
    BY DEF IInv, TypeOK
  <2>2. \A st \in {"none", "gone"} : NoTask(st, deliveries'[j]) \in Lifecycle!Task
    BY <2>1 DEF NoTask, Lifecycle!Task, Lifecycle!Status
  <2>3. job'[j] # NULL => RowTask(job'[j], deliveries'[j]) \in Lifecycle!Task
    BY <2>1, RowTaskType
  <2>. QED BY <2>2, <2>3 DEF task
<1>. QED BY <1>1 DEF task

LEMMA InitMaps == Init => Lifecycle!Init
BY DEF Init, Lifecycle!Init, task, NoTask, Lifecycle!NoTask

-----------------------------------------------------------------------------
(***************************************************************************)
(* One lemma per step of JobLifecycle.                                     *)
(***************************************************************************)

\* Rows that the mapping sees are issued, so only these matter to it.
LEMMA SameTask ==
  ASSUME IInv, IInv', NEW j \in JobIds, job'[j] = job[j], deliveries'[j] = deliveries[j],
         j \in issued' <=> j \in issued, j \in Hidden' <=> j \in Hidden
  PROVE  task'[j] = task[j]
BY DEF task

\* Steps that neither commit nor remove anything are not seen.
LEMMA Unseen ==
  ASSUME IInv, IInv', UNCHANGED <<job, issued, hidden, deliveries>>
  PROVE  task' = task
BY DEF task, Hidden

\* An INSERT is not seen before its COMMIT.
LEMMA InsertUnseen ==
  ASSUME IInv, IInv', NEW s \in Sessions, NEW o \in SendOptions, SendInsert(s, o)
  PROVE  task' = task
<1>1. PICK i \in JobIds \ issued :
        /\ issued' = issued \cup {i}
        /\ job' = [job EXCEPT ![i] = NewJob(draft[s].name, draft[s].defaults, o, began[s])]
        /\ hidden' = [hidden EXCEPT ![s] = @ \cup {i}]
  BY DEF SendInsert
<1>2. UNCHANGED deliveries
  BY DEF SendInsert
<1>3. Hidden' = Hidden \cup {i}
  BY <1>1 DEF Hidden, IInv, TypeOK
<1>4. ASSUME NEW j \in JobIds
      PROVE  task'[j] = task[j]
  <2>1. CASE j = i
    BY <2>1, <1>1, <1>2, <1>3, View
  <2>2. CASE j # i
    BY <2>2, <1>1, <1>2, <1>3, SameTask DEF IInv, TypeOK
  <2>. QED BY <2>1, <2>2
<1>. QED BY <1>4 DEF task

LEMMA StartedTask ==
  ASSUME NEW r \in JobRow, NEW n, NEW now
  PROVE  RowTask(Started(r, now), n)
           = [status |-> "active", home |-> r.name, attempts |-> n, limit |-> LimitOf(r)]
<1>1. /\ Started(r, now).state = "active" /\ Started(r, now).name = r.name
      /\ Started(r, now).retry_limit = r.retry_limit
  BY DEF Started, JobRow
<1>. QED BY <1>1 DEF RowTask, LimitOf, Waiting

LEMMA CommitKeepsRows ==
  ASSUME IInv, NEW s \in Sessions, Commit(s)
  PROVE  Rows \subseteq Rows'
<1>1. ASSUME NEW j \in Rows
      PROVE  job'[j] # NULL
  <2>1. job'[j] = (IF j \in claim[s] THEN Started(job[j], began[s]) ELSE job[j])
        /\ began[s] \in Int /\ began[s] <= clock /\ job[j] \in JobRow
    BY DEF Commit, Rows, IInv, TypeOK, SessionInv
  <2>2. j \in claim[s] => Started(job[j], began[s]) \in JobRow
    BY <2>1, RowFacts, StartedSound DEF IInv, RowLocksExclusive, IsIn
  <2>. QED BY <2>1, <2>2, NullAssumption
<1>. QED BY <1>1 DEF Rows

\* COMMIT of a fetch hands its jobs out, COMMIT of sends makes theirs available.
LEMMA CommitMaps ==
  ASSUME IInv, IInv', OnePurpose, NEW s \in Sessions, Commit(s)
  PROVE  Lifecycle!Enqueue \/ \E h \in Queues : Lifecycle!Claim(h)
<1>1. /\ job' = [j \in JobIds |-> IF j \in claim[s] THEN Started(job[j], began[s]) ELSE job[j]]
      /\ deliveries' = [j \in JobIds |->
            IF j \in claim[s] THEN deliveries[j] + 1 ELSE deliveries[j]]
      /\ UNCHANGED issued /\ End(s) /\ TypeOK
  BY DEF Commit, IInv
<1>2. /\ hidden'[s] = {}
      /\ \A t \in Sessions \ {s} : hidden'[t] = hidden[t]
      /\ Hidden' \subseteq Hidden
  BY <1>1, EndEffect
<1>3. CASE claim[s] = {}
  <2>1. ASSUME NEW j \in JobIds
        PROVE  \/ task'[j] = task[j]
               \/ /\ task[j].status = "none"
                  /\ task'[j].status = "waiting" /\ task'[j].attempts = 0
                  /\ task'[j].home \in Queues /\ task'[j].limit \in Nat
    <3>1. job'[j] = job[j] /\ deliveries'[j] = deliveries[j]
      BY <1>1, <1>3
    <3>2. CASE j \in Hidden /\ j \notin Hidden'
      <4>1. j \in hidden[s]
        BY <3>2, <1>2 DEF Hidden
      <4>2. j \in Rows /\ job[j].state = "created" /\ deliveries[j] = 0 /\ job[j] \in JobRow
        BY <4>1 DEF IInv, TypeOK, SessionInv, IsIn, OnePurpose, Rows
      <4>3. task[j] = NoTask("none", 0) /\ task'[j] = RowTask(job[j], 0)
        BY <3>1, <3>2, <4>2, View DEF Rows
      <4>4. LimitOf(job[j]) \in Nat /\ job[j].name \in Queues
        BY <4>2 DEF LimitOf, JobRow
      <4>. QED BY <4>2, <4>3, <4>4 DEF NoTask, RowTask, Waiting
    <3>3. CASE j \notin Hidden \/ j \in Hidden'
      BY <1>1, <1>2, <3>1, <3>3, SameTask
    <3>. QED BY <3>2, <3>3
  <2>. QED BY <2>1 DEF Lifecycle!Enqueue, Lifecycle!Stays
<1>4. CASE claim[s] # {}
  <2>1. PICK q \in Queues : \A j \in claim[s] : job[j].name = q
    BY <1>4 DEF OnePurpose
  <2>2. Hidden' = Hidden
    BY <1>2, <1>4 DEF OnePurpose, Hidden
  <2>3. ASSUME NEW j \in JobIds
        PROVE  \/ task'[j] = task[j]
               \/ /\ task[j].status = "waiting" /\ task[j].home = q
                  /\ task'[j] = [status |-> "active", home |-> q,
                                 attempts |-> task[j].attempts + 1, limit |-> task[j].limit]
    <3>1. CASE j \notin claim[s]
      BY <1>1, <2>2, <3>1, SameTask
    <3>2. CASE j \in claim[s]
      <4>1. j \in Rows \ Hidden /\ job[j].state \in Waiting /\ job[j] \in JobRow /\ job[j].name = q
        BY <2>1, <3>2 DEF IInv, TypeOK, RowLocksExclusive, IsIn, Rows
      <4>2. job'[j] = Started(job[j], began[s]) /\ deliveries'[j] = deliveries[j] + 1
        BY <1>1, <3>2
      <4>3. j \in Rows' \ Hidden'
        BY <4>1, <2>2, CommitKeepsRows
      <4>4. /\ task[j] = RowTask(job[j], deliveries[j])
            /\ task'[j] = RowTask(Started(job[j], began[s]), deliveries[j] + 1)
        BY <4>1, <4>2, <4>3, View
      <4>5. task'[j] = [status |-> "active", home |-> q,
                        attempts |-> deliveries[j] + 1, limit |-> LimitOf(job[j])]
        BY <4>1, <4>4, StartedTask
      <4>6. /\ task[j].status = "waiting" /\ task[j].home = q
            /\ task[j].attempts = deliveries[j] /\ task[j].limit = LimitOf(job[j])
        BY <4>1, <4>4 DEF RowTask
      <4>. QED BY <4>5, <4>6
    <3>. QED BY <3>1, <3>2
  <2>. QED BY <2>3 DEF Lifecycle!Claim, Lifecycle!Stays
<1>. QED BY <1>3, <1>4

\* A transaction that does not commit leaves its uuids used and its jobs gone.
LEMMA RollbackMaps ==
  ASSUME IInv, IInv', NEW s \in Sessions, Rollback(s)
  PROVE  Lifecycle!Abandon
<1>1. /\ job' = [j \in JobIds |-> IF j \in hidden[s] THEN NULL ELSE job[j]]
      /\ UNCHANGED <<issued, deliveries>> /\ End(s) /\ TypeOK
  BY DEF Rollback, IInv
<1>2. /\ hidden'[s] = {}
      /\ \A t \in Sessions \ {s} : hidden'[t] = hidden[t]
      /\ Hidden' \subseteq Hidden
  BY <1>1, EndEffect
<1>3. ASSUME NEW j \in JobIds
      PROVE  \/ task'[j] = task[j]
             \/ task[j].status = "none" /\ task'[j] = NoTask("gone", task[j].attempts)
  <2>1. CASE j \in hidden[s]
    <3>1. j \in Hidden /\ j \in issued /\ j \notin Hidden'
      <4>1. j \in Hidden /\ j \in Rows /\ \A t \in Sessions \ {s} : j \notin hidden[t]
        BY <2>1 DEF Hidden, IInv, SessionInv, IsIn
      <4>. QED BY <4>1, <1>2, View DEF Hidden
    <3>2. task[j] = NoTask("none", deliveries[j]) /\ task'[j] = NoTask("gone", deliveries[j])
      BY <1>1, <2>1, <3>1, View
    <3>. QED BY <3>2 DEF NoTask
  <2>2. CASE j \notin hidden[s]
    <3>1. j \in Hidden' <=> j \in Hidden
      BY <1>2, <2>2 DEF Hidden
    <3>. QED BY <1>1, <2>2, <3>1, SameTask
  <2>. QED BY <2>1, <2>2
<1>. QED BY <1>3 DEF Lifecycle!Abandon, Lifecycle!Stays, Lifecycle!Vanishes,
                     Lifecycle!NoTask, NoTask

\* ON DELETE CASCADE
LEMMA DeleteQueueMaps ==
  ASSUME IInv, IInv', NEW q \in Queues, DeleteQueue(q)
  PROVE  Lifecycle!Drop(q)
<1>1. /\ job' = [j \in JobIds |-> IF j \in Rows /\ job[j].name = q THEN NULL ELSE job[j]]
      /\ UNCHANGED <<issued, deliveries, hidden>>
      /\ \A j \in Hidden : job[j].name # q
  BY DEF DeleteQueue
<1>2. Hidden' = Hidden /\ q # NULL
  BY <1>1, NullAssumption DEF Hidden
<1>3. ASSUME NEW j \in JobIds
      PROVE  IF task[j].home = q THEN task'[j] = NoTask("gone", task[j].attempts)
                                 ELSE task'[j] = task[j]
  <2>1. CASE j \in Rows /\ job[j].name = q
    <3>1. j \in issued \ Hidden
      BY <1>1, <2>1, View
    <3>2. task[j] = RowTask(job[j], deliveries[j]) /\ task'[j] = NoTask("gone", deliveries[j])
      BY <1>1, <1>2, <2>1, <3>1, View
    <3>. QED BY <2>1, <3>2 DEF RowTask
  <2>2. CASE ~(j \in Rows /\ job[j].name = q)
    <3>1. task'[j] = task[j]
      BY <1>1, <1>2, <2>2, SameTask
    <3>2. task[j].home # q
      BY <1>2, <2>2 DEF task, NoTask, RowTask, Rows
    <3>. QED BY <3>1, <3>2
  <2>. QED BY <2>1, <2>2
<1>. QED BY <1>3 DEF Lifecycle!Drop, Lifecycle!Stays, Lifecycle!Vanishes,
                     Lifecycle!NoTask, NoTask

\* An active row that a step rewrites or removes, as the mapping sees it: its
\* attempts are used up exactly when fail and maintain give it up.
LEMMA ActiveTask ==
  ASSUME IInv, IInv', NEW j \in Rows, job[j].state = "active",
         UNCHANGED <<issued, deliveries>>, Hidden' \subseteq Hidden
  PROVE  /\ task[j] = RowTask(job[j], deliveries[j])
         /\ task[j].status = "active" /\ task[j].attempts = deliveries[j]
         /\ Lifecycle!Exhausted(j) <=> ~(job[j].retry_count < job[j].retry_limit)
         /\ job'[j] = NULL => task'[j] = NoTask("gone", deliveries[j])
         /\ job'[j] # NULL => task'[j] = RowTask(job'[j], deliveries[j])
<1>1. j \in JobIds /\ j \in issued /\ j \notin Hidden
  BY View, ActiveUnshared DEF Rows, Hidden, Waiting
<1>2. task[j] = RowTask(job[j], deliveries[j])
  BY <1>1, View
<1>3. /\ task[j].status = "active" /\ task[j].attempts = deliveries[j]
      /\ task[j].limit = LimitOf(job[j])
  BY <1>2 DEF RowTask, Waiting
<1>4. /\ deliveries[j] = job[j].retry_count + 1
      /\ job[j].retry_count = 0 \/ job[j].retry_count <= job[j].retry_limit
      /\ job[j].retry_count \in Nat /\ job[j].retry_limit \in Int
  BY RowFacts DEF RowSound, JobRow, Waiting
<1>5. Lifecycle!Exhausted(j) <=> ~(job[j].retry_count < job[j].retry_limit)
  BY <1>3, <1>4 DEF Lifecycle!Exhausted, LimitOf
<1>6. /\ job'[j] = NULL => task'[j] = NoTask("gone", deliveries[j])
      /\ job'[j] # NULL => task'[j] = RowTask(job'[j], deliveries[j])
  BY <1>1, View
<1>. QED BY <1>2, <1>3, <1>5, <1>6

\* What complete, fail and maintain make of a row, as the mapping sees it.
TaskIn(status, r, n) ==
  [status |-> status, home |-> r.name, attempts |-> n, limit |-> LimitOf(r)]

LEMMA TaskInStatus ==
  ASSUME NEW r, NEW n, NEW status
  PROVE  TaskIn(status, r, n) = [RowTask(r, n) EXCEPT !.status = status]
BY DEF TaskIn, RowTask

LEMMA EndedTask ==
  ASSUME NEW r \in JobRow, NEW n, NEW now
  PROVE  /\ RowTask(Completed(r, now), n) = TaskIn("completed", r, n)
         /\ RowTask(Retried(r, now), n) = TaskIn("waiting", r, n)
         /\ RowTask([Retried(r, now) EXCEPT !.completed_on = NULL], n) = TaskIn("waiting", r, n)
         /\ RowTask(GivenUp(r, now), n) = TaskIn("failed", r, n)
<1>1. ASSUME NEW w, w.name = r.name, w.retry_limit = r.retry_limit
      PROVE  /\ w.state \in Waiting => RowTask(w, n) = TaskIn("waiting", r, n)
             /\ w.state \notin Waiting => RowTask(w, n) = TaskIn(w.state, r, n)
  BY <1>1 DEF RowTask, TaskIn, LimitOf
<1>2. /\ Completed(r, now).name = r.name /\ Completed(r, now).retry_limit = r.retry_limit
      /\ Completed(r, now).state = "completed"
  BY DEF Completed, JobRow
<1>3. /\ Retried(r, now).name = r.name /\ Retried(r, now).retry_limit = r.retry_limit
      /\ Retried(r, now).state = "retry"
  BY DEF Retried, JobRow
<1>. DEFINE x == [Retried(r, now) EXCEPT !.completed_on = NULL]
<1>4. x.name = r.name /\ x.retry_limit = r.retry_limit /\ x.state = "retry"
  BY DEF Retried, JobRow
<1>5. /\ GivenUp(r, now).name = r.name /\ GivenUp(r, now).retry_limit = r.retry_limit
      /\ GivenUp(r, now).state = "failed"
  BY DEF GivenUp, JobRow
<1>. HIDE DEF x
<1>6. RowTask(Completed(r, now), n) = TaskIn("completed", r, n)
  BY <1>1, <1>2 DEF Waiting
<1>7. RowTask(Retried(r, now), n) = TaskIn("waiting", r, n)
  BY <1>1, <1>3 DEF Waiting
<1>8. RowTask(x, n) = TaskIn("waiting", r, n)
  BY <1>1, <1>4 DEF Waiting
<1>9. RowTask(GivenUp(r, now), n) = TaskIn("failed", r, n)
  BY <1>1, <1>5 DEF Waiting
<1>. QED BY <1>6, <1>7, <1>8, <1>9 DEF x

LEMMA CompleteMaps ==
  ASSUME IInv, IInv', NEW s \in Sessions, NEW q \in Queues, NEW i \in JobIds, Complete(s, q, i)
  PROVE  Lifecycle!Finish(i)
<1>1. /\ i \in Rows /\ job[i].state = "active"
      /\ job' = [job EXCEPT ![i] = Completed(job[i], began[s])]
      /\ UNCHANGED <<issued, deliveries>> /\ End(s) /\ TypeOK
      /\ job \in [JobIds -> JobRow \cup {NULL}] /\ began[s] \in Int
  BY DEF Complete, Matches, Rows, IInv, TypeOK, Fresh
<1>2. Hidden' \subseteq Hidden /\ hidden'[s] = {} /\ hidden[s] = {}
      /\ \A t \in Sessions \ {s} : hidden'[t] = hidden[t]
  BY <1>1, EndEffect DEF Complete, Fresh
<1>3. Hidden' = Hidden
  BY <1>2 DEF Hidden
<1>4. ASSUME NEW j \in JobIds \ {i}
      PROVE  task'[j] = task[j]
  BY <1>1, <1>3, SameTask
<1>5. job'[i] # NULL /\ job'[i] = Completed(job[i], began[s]) /\ job[i] \in JobRow
  <2>1. job[i] \in JobRow /\ Completed(job[i], began[s]) \in JobRow
    BY <1>1, RowFacts, CompletedSound
  <2>. QED BY <2>1, <1>1, NullAssumption
<1>6. /\ task[i] = RowTask(job[i], deliveries[i]) /\ task[i].status = "active"
      /\ task'[i] = RowTask(Completed(job[i], began[s]), deliveries[i])
  BY <1>1, <1>2, <1>5, ActiveTask
<1>7. RowTask(Completed(job[i], began[s]), deliveries[i])
        = TaskIn("completed", job[i], deliveries[i])
  BY <1>5, EndedTask
<1>8. task'[i] = [task[i] EXCEPT !.status = "completed"]
  BY <1>6, <1>7, TaskInStatus
<1>. QED BY <1>4, <1>6, <1>8 DEF Lifecycle!Finish, Lifecycle!Moves, Lifecycle!Stays

\* The change that boss.fail and boss.maintain may make to a job.
SweptTask(j) ==
  \/ task'[j] = task[j]
  \/ /\ task[j].status = "active" /\ ~Lifecycle!Exhausted(j)
     /\ task'[j] = [task[j] EXCEPT !.status = "waiting"]
  \/ /\ task[j].status = "active" /\ Lifecycle!Exhausted(j)
     /\ \/ task'[j] = [task[j] EXCEPT !.status = "failed"]
        \/ task'[j] = NoTask("gone", task[j].attempts)
  \/ /\ task[j].status \in {"completed", "failed", "cancelled"}
     /\ task'[j] = NoTask("gone", task[j].attempts)

LEMMA SweptIsSweep ==
  ASSUME \A j \in JobIds : SweptTask(j)
  PROVE  Lifecycle!Sweep
BY DEF SweptTask, Lifecycle!Sweep, Lifecycle!Stays, Lifecycle!Moves, Lifecycle!Vanishes,
       Lifecycle!NoTask, NoTask

LEMMA FailMaps ==
  ASSUME IInv, IInv', NEW s \in Sessions, NEW q \in Queues, NEW i \in JobIds, Fail(s, q, i)
  PROVE  Lifecycle!Sweep
<1>1. /\ i \in Rows /\ job[i].state = "active"
      /\ job' = [job EXCEPT ![i] = Unfinished(job[i], began[s])]
      /\ UNCHANGED <<issued, deliveries>> /\ End(s) /\ TypeOK
      /\ job \in [JobIds -> JobRow \cup {NULL}] /\ began[s] \in Int
  BY DEF Fail, Matches, Rows, IInv, TypeOK, Fresh
<1>2. Hidden' \subseteq Hidden /\ hidden'[s] = {} /\ hidden[s] = {}
      /\ \A t \in Sessions \ {s} : hidden'[t] = hidden[t]
  BY <1>1, EndEffect DEF Fail, Fresh
<1>3. Hidden' = Hidden
  BY <1>2 DEF Hidden
<1>4. ASSUME NEW j \in JobIds \ {i}
      PROVE  task'[j] = task[j]
  BY <1>1, <1>3, SameTask
<1>5. job'[i] # NULL /\ job'[i] = Unfinished(job[i], began[s]) /\ job[i] \in JobRow
  <2>1. job[i] \in JobRow /\ Unfinished(job[i], began[s]) \in JobRow
    BY <1>1, RowFacts, UnfinishedSound
  <2>. QED BY <2>1, <1>1, NullAssumption
<1>6. /\ task[i] = RowTask(job[i], deliveries[i]) /\ task[i].status = "active"
      /\ Lifecycle!Exhausted(i) <=> ~(job[i].retry_count < job[i].retry_limit)
      /\ task'[i] = RowTask(Unfinished(job[i], began[s]), deliveries[i])
  BY <1>1, <1>2, <1>5, ActiveTask
<1>7. SweptTask(i)
  <2>1. CASE job[i].retry_count < job[i].retry_limit
    <3>1. RowTask(Unfinished(job[i], began[s]), deliveries[i])
            = TaskIn("waiting", job[i], deliveries[i])
      BY <1>5, <2>1, EndedTask DEF Unfinished
    <3>. QED BY <1>6, <2>1, <3>1, TaskInStatus DEF SweptTask
  <2>2. CASE ~(job[i].retry_count < job[i].retry_limit)
    <3>1. RowTask(Unfinished(job[i], began[s]), deliveries[i])
            = TaskIn("failed", job[i], deliveries[i])
      BY <1>5, <2>2, EndedTask DEF Unfinished
    <3>. QED BY <1>6, <2>2, <3>1, TaskInStatus DEF SweptTask
  <2>. QED BY <2>1, <2>2
<1>. QED BY <1>4, <1>7, SweptIsSweep DEF SweptTask

LEMMA MaintainMaps ==
  ASSUME IInv, IInv', NEW s \in Sessions, Maintain(s)
  PROVE  Lifecycle!Sweep
<1>1. /\ job' = [j \in JobIds |-> Maintained(j, began[s])]
      /\ UNCHANGED <<issued, deliveries>> /\ End(s) /\ TypeOK /\ began[s] \in Int
  BY DEF Maintain, IInv, TypeOK, Fresh
<1>2. Hidden' \subseteq Hidden /\ hidden'[s] = {} /\ hidden[s] = {}
      /\ \A t \in Sessions \ {s} : hidden'[t] = hidden[t]
  BY <1>1, EndEffect DEF Maintain, Fresh
<1>3. Hidden' = Hidden
  BY <1>2 DEF Hidden
<1>4. ASSUME NEW j \in JobIds, job'[j] = job[j]
      PROVE  SweptTask(j)
  BY <1>1, <1>3, <1>4, SameTask DEF SweptTask
<1>5. ASSUME NEW j \in Rows, j \notin OverdueAt(began[s])
      PROVE  SweptTask(j)
  <2>1. job'[j] \in {job[j], NULL} /\ (job'[j] = NULL => job[j].state \in Terminal \/ job[j] = NULL)
    BY <1>1, <1>5 DEF Maintained, Expendable, ExpiredAt, Expired, Rows
  <2>2. CASE job[j].state \in Terminal /\ job'[j] = NULL
    <3>1. j \in JobIds /\ j \in issued /\ j \notin Hidden
      BY <2>2, View, ActiveUnshared DEF Rows, Hidden, Waiting, Terminal
    <3>2. task[j] = RowTask(job[j], deliveries[j]) /\ task'[j] = NoTask("gone", deliveries[j])
      BY <1>1, <1>3, <2>2, <3>1, View
    <3>. QED BY <2>2, <3>2 DEF SweptTask, RowTask, Waiting, Terminal
  <2>. QED BY <1>4, <2>1, <2>2 DEF Rows
<1>6. ASSUME NEW j \in Rows, j \in OverdueAt(began[s])
      PROVE  SweptTask(j)
  <2>1. /\ job[j].state = "active" /\ job[j] \in JobRow
        /\ job'[j] = Maintained(j, began[s])
    BY <1>1, <1>6, RowFacts DEF OverdueAt, Overdue, IsIn, Rows
  <2>2. /\ task[j] = RowTask(job[j], deliveries[j]) /\ task[j].status = "active"
        /\ task[j].attempts = deliveries[j]
        /\ Lifecycle!Exhausted(j) <=> ~(job[j].retry_count < job[j].retry_limit)
        /\ job'[j] = NULL => task'[j] = NoTask("gone", deliveries[j])
        /\ job'[j] # NULL => task'[j] = RowTask(job'[j], deliveries[j])
    BY <1>1, <1>2, <2>1, ActiveTask
  <2>3. CASE job[j].retry_count < job[j].retry_limit
    <3>1. /\ ExpiredAt(j, began[s]) = [Retried(job[j], began[s]) EXCEPT !.completed_on = NULL]
          /\ ExpiredAt(j, began[s]).state = "retry"
      BY <1>6, <2>1, <2>3 DEF ExpiredAt, Expired, Retried, JobRow
    <3>2. job'[j] = ExpiredAt(j, began[s]) /\ job'[j] # NULL
      BY <1>1, <2>1, <3>1, ExpiredSound, NullAssumption DEF Maintained, Expendable, Terminal
    <3>3. RowTask(ExpiredAt(j, began[s]), deliveries[j])
            = TaskIn("waiting", job[j], deliveries[j])
      BY <2>1, <3>1, EndedTask
    <3>. QED BY <2>2, <2>3, <3>2, <3>3, TaskInStatus DEF SweptTask
  <2>4. CASE ~(job[j].retry_count < job[j].retry_limit)
    <3>1. ExpiredAt(j, began[s]) = GivenUp(job[j], began[s])
      BY <1>6, <2>4 DEF ExpiredAt, Expired
    <3>2. job'[j] \in {GivenUp(job[j], began[s]), NULL}
      BY <2>1, <3>1 DEF Maintained, Expendable
    <3>3. RowTask(GivenUp(job[j], began[s]), deliveries[j])
            = TaskIn("failed", job[j], deliveries[j])
      BY <2>1, EndedTask
    <3>. QED BY <2>2, <2>4, <3>2, <3>3, TaskInStatus DEF SweptTask
  <2>. QED BY <2>3, <2>4
<1>7. ASSUME NEW j \in JobIds, j \notin Rows
      PROVE  job'[j] = job[j]
  BY <1>1, <1>7 DEF Maintained, Expendable, ExpiredAt, Expired, OverdueAt, Overdue, IsIn, Rows
<1>. QED BY <1>4, <1>5, <1>6, <1>7, SweptIsSweep

-----------------------------------------------------------------------------
LEMMA NextMaps ==
  ASSUME IInv, IInv', OnePurpose, [Next]_vars
  PROVE  [Lifecycle!Next]_task
<1>1. task' \in [JobIds -> Lifecycle!Task]
  BY TaskTypeNext
<1>2. ASSUME NEW s \in Sessions, SessionStep(s)
      PROVE  Lifecycle!Next \/ task' = task
  <2>1. CASE \/ Begin(s)
             \/ \E q \in Queues : SendRead(s, q)
             \/ \E q \in Queues, n \in BatchSizes : FetchLock(s, q, n)
    BY <2>1, Unseen DEF Begin, SendRead, FetchLock, tables
  <2>2. CASE \E o \in SendOptions : SendInsert(s, o)
    BY <2>2, InsertUnseen
  <2>3. CASE Commit(s)
    BY <1>1, <2>3, CommitMaps DEF Lifecycle!Next
  <2>4. CASE Rollback(s)
    BY <1>1, <2>4, RollbackMaps DEF Lifecycle!Next
  <2>5. CASE \E q \in Queues, i \in JobIds : Complete(s, q, i)
    BY <1>1, <2>5, CompleteMaps DEF Lifecycle!Next
  <2>6. CASE \E q \in Queues, i \in JobIds : Fail(s, q, i)
    BY <1>1, <2>6, FailMaps DEF Lifecycle!Next
  <2>7. CASE Maintain(s)
    BY <1>1, <2>7, MaintainMaps DEF Lifecycle!Next
  <2>. QED BY <1>2, <2>1, <2>2, <2>3, <2>4, <2>5, <2>6, <2>7 DEF SessionStep
<1>3. CASE \E q \in Queues : DeleteQueue(q)
  BY <1>1, <1>3, DeleteQueueMaps DEF Lifecycle!Next
<1>4. CASE (\E q \in Queues, o \in QueueOptions : CreateQueue(q, o)) \/ Tick \/ UNCHANGED vars
  BY <1>4, Unseen DEF CreateQueue, Tick, vars, tables
<1>. QED BY <1>2, <1>3, <1>4 DEF Next

\* A program whose steps are steps of Boss and that starts without jobs.
LEMMA UsersImplement ==
  Lifecycle!Init /\ OnePurpose /\ []IInv /\ [][Next]_vars => ImplementsLifecycle
<1>1. IInv /\ OnePurpose /\ [Next]_vars => OnePurpose'
  BY OnePurposeNext
<1>2. IInv /\ IInv' /\ OnePurpose /\ [Next]_vars => [Lifecycle!Next]_task
  BY NextMaps
<1>. QED BY <1>1, <1>2, PTL DEF ImplementsLifecycle, Lifecycle!Spec

\* The functions of the schema, run by any number of concurrent transactions,
\* implement the life of a job: handed to one holder at a time, at most
\* retry_limit + 1 times, given up exactly when the attempts are used up.
THEOREM Refinement == Spec => ImplementsLifecycle
BY InitMaps, OnePurposeInit, Invariance, UsersImplement, PTL DEF Spec

=============================================================================
